--------------------------- MODULE ReplayThenLive ---------------------------
(***************************************************************************)
(* What the service promises each browser, said without tasks, sockets or  *)
(* a connection table: its stream starts with the newest published events, *)
(* in order, and every live event after that was published, was not part   *)
(* of the replay or its past, and has not been shown to it before.         *)
(*                                                                         *)
(* Not promised: that a live event arrives at all, or that browsers see    *)
(* the events of different sources in the same order.                      *)
(***************************************************************************)
EXTENDS Naturals, Sequences

CONSTANTS Clients, MaxLen, MaxEvents

VARIABLES
  published,  \* events accepted so far; a number is never given out twice
  stream      \* each client's frames: the first one is its replay

Event == 1 .. MaxEvents
Elements(seq) == {seq[i] : i \in DOMAIN seq}
Shown(c) == UNION {Elements(stream[c][i].events) : i \in DOMAIN stream[c]}

Live(e) == [type |-> "event", events |-> <<e>>]

\* replay lists the newest MaxLen of the published events, oldest first.
IsNewest(replay) ==
  /\ Len(replay) <= MaxLen
  /\ Elements(replay) \subseteq published
  /\ \A i, j \in DOMAIN replay : i < j => replay[i] < replay[j]
  /\ \A e \in published \ Elements(replay) :
       Len(replay) = MaxLen /\ \A i \in DOMAIN replay : e < replay[i]

Init ==
  /\ \E k \in 0 .. MaxLen : k <= MaxEvents /\ published = 1 .. k
  /\ stream = [c \in Clients |-> <<>>]

\* A live event that is news to client c, which has had its replay.
IsNews(c, e) ==
  /\ stream[c] # <<>>
  /\ e \notin Shown(c)
  /\ \A f \in Elements(stream[c][1].events) : f < e

Publish(e) ==
  /\ \A f \in published : f < e
  /\ published' = published \cup {e}
  /\ \/ UNCHANGED stream
     \/ \E c \in Clients :
          /\ IsNews(c, e)
          /\ stream' = [stream EXCEPT ![c] = Append(@, Live(e))]

Join(c) ==
  /\ stream[c] = <<>>
  /\ \E n \in 0 .. MaxLen : \E replay \in [1 .. n -> Event] :
       /\ IsNewest(replay)
       /\ stream' = [stream EXCEPT ![c] = <<[type |-> "replay", events |-> replay]>>]
  /\ UNCHANGED published

Show(c, e) ==
  /\ e \in published
  /\ IsNews(c, e)
  /\ stream' = [stream EXCEPT ![c] = Append(@, Live(e))]
  /\ UNCHANGED published

Next ==
  \/ \E e \in Event : Publish(e)
  \/ \E c \in Clients : Join(c) \/ \E e \in Event : Show(c, e)

Spec == Init /\ [][Next]_<<published, stream>>
=============================================================================
