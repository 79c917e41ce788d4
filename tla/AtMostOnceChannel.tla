-------------------------- MODULE AtMostOnceChannel --------------------------
(***************************************************************************)
(* What a Redis channel and the subscriber promise the archive, said       *)
(* without tasks, replies or the lifespan: an event is archived at most    *)
(* once, in the order of publication, only if it was sent to a connection  *)
(* of the service, and only after every event that was sent to the same    *)
(* connection before it.  A connection that was replaced is never heard of *)
(* again.                                                                  *)
(*                                                                         *)
(* Not promised: that an event is archived at all.                         *)
(***************************************************************************)
EXTENDS Naturals, Sequences

CONSTANTS
  Kind,    \* what a message may turn out to be; "event" is one kind
  Nobody   \* via of a message that nobody was subscribed for

VARIABLES
  published,  \* the messages: their kind, and the connection they were sent to
  archived    \* the numbers of the archived ones, in the order of archiving

Elements(seq) == {seq[i] : i \in DOMAIN seq}

Init == published = <<>> /\ archived = <<>>

\* Connections are named by a message they could have carried first.
Publish(kind, via) ==
  /\ via = Nobody \/ \A m \in DOMAIN published : published[m].via <= via
  /\ published' = Append(published, [kind |-> kind, via |-> via])
  /\ UNCHANGED archived

Archive(m) ==
  /\ published[m].kind = "event"
  /\ published[m].via # Nobody
  /\ \A n \in Elements(archived) : n < m
  /\ \A n \in 1 .. m - 1 :
       published[n].kind = "event" /\ published[n].via = published[m].via
         => n \in Elements(archived)
  /\ archived' = Append(archived, m)
  /\ UNCHANGED published

Next ==
  \/ \E kind \in Kind, via \in 0 .. Len(published) + 1 : Publish(kind, via)
  \/ \E m \in DOMAIN published : Archive(m)

Spec == Init /\ [][Next]_<<published, archived>>
=============================================================================
