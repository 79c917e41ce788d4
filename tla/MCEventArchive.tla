--------------------------- MODULE MCEventArchive ---------------------------
(* EventArchive for TLC: two moments, one of them given in two zones, and   *)
(* searches without conditions, by status up to a moment, and from one on.  *)
EXTENDS EventArchive, TLC

CONSTANTS a, b, c

UTC(h) == [wall |-> h, offset |-> 0]
East(h) == [wall |-> h, offset |-> 1]

MCIds == {a, b, c}
MCStamps == {UTC(1), UTC(2), East(2)}
MCStatuses == {"success", "error"}
MCFilters == {[status |-> {}, since |-> NoStamp, until |-> NoStamp],
              [status |-> {"error"}, since |-> NoStamp, until |-> UTC(2)],
              [status |-> {}, since |-> UTC(2), until |-> NoStamp]}

Symmetry == Permutations(MCIds)
=============================================================================
