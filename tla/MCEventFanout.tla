--------------------------- MODULE MCEventFanout ---------------------------
(* Model-checking instances of EventFanout: the constants of the .cfg files.*)
EXTENDS EventFanout
=============================================================================
