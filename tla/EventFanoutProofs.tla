-------------------------- MODULE EventFanoutProofs --------------------------
(***************************************************************************)
(* TLAPS proofs about EventFanout, for every number of websockets, sources *)
(* and events and every buffer size.                                       *)
(***************************************************************************)
EXTENDS EventFanout, TLAPS

(* The event is a number, and a frame that carries it is a frame.           *)
LEMMA NextNumber ==
  ASSUME TypeOK, handled < MaxEvents
  PROVE  handled + 1 \in Event /\ handled + 1 \in 0 .. MaxEvents
BY MaxEventsAssumption DEF TypeOK, Event

LEMMA FrameTypes ==
  /\ \A e \in Event : EventFrame(e) \in Frame
  /\ \A q \in Seq(Event) : ReplayFrame(q) \in Frame
BY DEF EventFrame, ReplayFrame, Frame

(* EventBuffer.add never holds more than maxlen events.                     *)
LEMMA PushType ==
  ASSUME NEW q \in Seq(Event), Len(q) <= MaxLen, NEW e \in Event
  PROVE  Push(q, e) \in Seq(Event) /\ Len(Push(q, e)) <= MaxLen
<1>1. CASE Len(q) < MaxLen
  BY <1>1, MaxLenAssumption DEF Push
<1>2. CASE ~ (Len(q) < MaxLen)
  <2>1. Len(q) = MaxLen /\ q # <<>>
    BY <1>2, MaxLenAssumption
  <2>2. Tail(q) \in Seq(Event) /\ Len(Tail(q)) = MaxLen - 1
    BY <2>1, MaxLenAssumption
  <2> QED BY <1>2, <2>2, MaxLenAssumption DEF Push
<1> QED BY <1>1, <1>2

(* A source that awaits a send is at an event and at a websocket.           *)
Sending ==
  \A s \in Sources : task[s] = "sending" => current[s] \in Event /\ awaiting[s] \in Conns

TypeInv == TypeOK /\ Sending

(* A broadcast step leaves the types of what it writes intact.              *)
LEMMA BroadcastType ==
  ASSUME TypeInv, NEW s \in Sources, NEW e \in Event, NEW T \in SUBSET Conns,
         BroadcastOn(s, e, T)
  PROVE  /\ registered' \in SUBSET Conns
         /\ failed' \in SUBSET Conns
         /\ wire' \in [Conns -> Seq(Frame)]
         /\ task' \in [Sources -> {"idle", "sending", "raised"}]
         /\ current' \in [Sources -> 0 .. MaxEvents]
         /\ targets' \in [Sources -> SUBSET Conns]
         /\ awaiting' \in [Sources -> Conns \cup {NoConn}]
         /\ aborted' \in SUBSET Event
         /\ Sending'
<1>1. e \in 0 .. MaxEvents
  BY MaxEventsAssumption DEF Event
<1>2. PICK met \in SUBSET {c \in T : Refuses(c)} :
        /\ registered' = registered \ met
        /\ current' = [current EXCEPT ![s] = e]
        /\ \/ T = met /\ Leave(s, FALSE) /\ UNCHANGED <<wire, failed, aborted>>
           \/ \E c \in T \ met :
                /\ ~ Refuses(c)
                /\ WriteTo(s, e, c, (T \ met) \ {c}) \/ FailAt(s, e, c)
  BY DEF BroadcastOn
<1>3. registered' \in SUBSET Conns /\ current' \in [Sources -> 0 .. MaxEvents]
  BY <1>1, <1>2 DEF TypeInv, TypeOK
<1>4. CASE Leave(s, FALSE) /\ UNCHANGED <<wire, failed, aborted>>
  BY <1>2, <1>3, <1>4 DEF TypeInv, TypeOK, Sending, Leave
<1>5. ASSUME NEW c \in T \ met, WriteTo(s, e, c, (T \ met) \ {c})
      PROVE  /\ failed' \in SUBSET Conns
             /\ wire' \in [Conns -> Seq(Frame)]
             /\ task' \in [Sources -> {"idle", "sending", "raised"}]
             /\ targets' \in [Sources -> SUBSET Conns]
             /\ awaiting' \in [Sources -> Conns \cup {NoConn}]
             /\ aborted' \in SUBSET Event
             /\ Sending'
  <2>1. EventFrame(e) \in Frame
    BY FrameTypes
  <2>2. wire' \in [Conns -> Seq(Frame)]
    BY <2>1, <1>5 DEF WriteTo, TypeInv, TypeOK
  <2> QED BY <2>2, <1>2, <1>5 DEF WriteTo, TypeInv, TypeOK, Sending
<1>6. ASSUME NEW c \in T \ met, FailAt(s, e, c)
      PROVE  /\ failed' \in SUBSET Conns
             /\ wire' \in [Conns -> Seq(Frame)]
             /\ task' \in [Sources -> {"idle", "sending", "raised"}]
             /\ targets' \in [Sources -> SUBSET Conns]
             /\ awaiting' \in [Sources -> Conns \cup {NoConn}]
             /\ aborted' \in SUBSET Event
             /\ Sending'
  BY <1>2, <1>6 DEF FailAt, Leave, TypeInv, TypeOK, Sending
<1> QED BY <1>2, <1>3, <1>4, <1>5, <1>6

LEMMA TypeInit == Init => TypeInv
BY MaxLenAssumption, MaxEventsAssumption DEF Init, TypeInv, TypeOK, Sending, Event

LEMMA TypeStep == TypeInv /\ [Next]_vars => TypeInv'
<1> SUFFICES ASSUME TypeInv, [Next]_vars PROVE TypeInv'
  OBVIOUS
<1>1. ASSUME NEW s \in Sources, HandleEvent(s) PROVE TypeInv'
  <2>1. handled < MaxEvents /\ BroadcastOn(s, handled + 1, registered)
    BY <1>1 DEF HandleEvent
  <2>2. handled + 1 \in Event /\ handled + 1 \in 0 .. MaxEvents
    BY <2>1, NextNumber DEF TypeInv
  <2>3. buffer' \in Seq(Event) /\ Len(buffer') <= MaxLen
    BY <1>1, <2>2, PushType DEF HandleEvent, TypeInv, TypeOK
  <2>4. registered \in SUBSET Conns
    BY DEF TypeInv, TypeOK
  <2>5. /\ handled' \in 0 .. MaxEvents /\ archive' \in SUBSET Event
        /\ origin' \in [Event -> Sources \cup {NoSource}]
        /\ UNCHANGED <<endpoint, peer, joined>>
    BY <1>1, <2>2 DEF HandleEvent, TypeInv, TypeOK
  <2> QED BY <2>1, <2>2, <2>3, <2>4, <2>5, BroadcastType DEF TypeInv, TypeOK
<1>2. ASSUME NEW s \in Sources, StoreFails(s) PROVE TypeInv'
  <2>1. handled + 1 \in Event /\ handled + 1 \in 0 .. MaxEvents
    BY <1>2, NextNumber DEF StoreFails, TypeInv
  <2> QED BY <1>2, <2>1 DEF StoreFails, Leave, TypeInv, TypeOK, Sending
<1>3. ASSUME NEW s \in Sources, SendReturns(s) PROVE TypeInv'
  <2>1. BroadcastOn(s, current[s], targets[s])
    BY <1>3 DEF SendReturns
  <2>2. targets[s] \in SUBSET Conns /\ current[s] \in Event
    BY <1>3 DEF SendReturns, TypeInv, TypeOK, Sending
  <2> QED BY <1>3, <2>1, <2>2, BroadcastType DEF SendReturns, eventVars, TypeInv, TypeOK
<1>4. ASSUME NEW s \in Sources, SendRaises(s) PROVE TypeInv'
  BY <1>4 DEF SendRaises, Leave, eventVars, TypeInv, TypeOK, Sending
<1>5. ASSUME NEW c \in Conns, Register(c) PROVE TypeInv'
  <2>1. ReplayFrame(buffer) \in Frame
    BY FrameTypes DEF TypeInv, TypeOK
  <2>2. wire' \in [Conns -> Seq(Frame)]
    <3>1. wire[c] \in Seq(Frame) /\ wire \in [Conns -> Seq(Frame)]
      BY DEF TypeInv, TypeOK
    <3>2. Append(wire[c], ReplayFrame(buffer)) \in Seq(Frame)
      BY <2>1, <3>1
    <3> QED BY <1>5, <3>1, <3>2 DEF Register
  <2>3. /\ endpoint' \in [Conns -> {"new", "accepting", "replaying", "serving", "gone"}]
        /\ joined' \in [Conns -> 0 .. MaxEvents]
        /\ registered' \in SUBSET Conns /\ failed' \in SUBSET Conns
    BY <1>5 DEF Register, TypeInv, TypeOK
  <2>4. UNCHANGED <<eventVars, taskVars, peer>>
    BY <1>5 DEF Register
  <2> QED BY <2>2, <2>3, <2>4 DEF eventVars, taskVars, TypeInv, TypeOK, Sending
<1>6. ASSUME NEW c \in Conns,
             Reject(c) \/ Accept(c) \/ ReplaySent(c) \/ ReplayRaises(c)
               \/ Disconnect(c) \/ PeerLost(c)
      PROVE  TypeInv'
  BY <1>6 DEF Reject, Accept, ReplaySent, ReplayRaises, Disconnect, PeerLost,
              eventVars, taskVars, TypeInv, TypeOK, Sending
<1>7. CASE UNCHANGED vars
  BY <1>7 DEF vars, eventVars, taskVars, TypeInv, TypeOK, Sending
<1> QED
  BY <1>1, <1>2, <1>3, <1>4, <1>5, <1>6, <1>7 DEF Next, SourceStep, EndpointStep

(* Type correctness.                                                        *)
THEOREM TypeCorrect == Spec => []TypeOK
<1>1. TypeInv => TypeOK
  BY DEF TypeInv
<1> QED BY <1>1, TypeInit, TypeStep, PTL DEF Spec

-----------------------------------------------------------------------------
(***************************************************************************)
(* The inductive invariant.  ShownOnce and NothingMissed are not inductive *)
(* alone: that a suspended broadcast may write its event to the websockets *)
(* it has not reached yet without showing anything twice depends on what   *)
(* every suspended broadcast is at (Targeted) and on which websockets can  *)
(* be in a copy of the dict (Untouched, Replayed).                         *)
(***************************************************************************)

\* Numbers are given out in order, and joined is a past value of handled.
Numbered ==
  /\ archive \subseteq 1 .. handled
  /\ \A c \in Conns : joined[c] <= handled

\* A suspended broadcast owns its event, and the event is news to its targets.
Targeted ==
  \A s \in Sources : task[s] = "sending" =>
    /\ current[s] \in archive
    /\ \A c \in targets[s] : joined[c] < current[s] /\ current[s] \notin Sent(c)
    /\ \A t \in Sources : task[t] = "sending" /\ current[t] = current[s] => t = s

\* A websocket that is not registered yet is in nobody's copy.
Untouched ==
  \A c \in Conns : endpoint[c] \in {"new", "accepting"} =>
    /\ c \notin registered
    /\ wire[c] = <<>>
    /\ \A s \in Sources : c \notin targets[s]

\* After that it has its replay, unless its transport was lost.
Replayed ==
  \A c \in Conns : endpoint[c] \notin {"new", "accepting"} /\ peer[c] = "open" =>
    wire[c] # <<>>

Inv == /\ TypeInv /\ Numbered /\ Targeted /\ Untouched /\ Replayed
       /\ ArchivedBeforeShown /\ ReplayComesFirst /\ ShownOnce /\ NothingMissed

(* What a websocket was sent after one more frame.                          *)
LEMMA SentAfterWrite ==
  ASSUME TypeInv, NEW c \in Conns, NEW frame \in Frame,
         wire' = [wire EXCEPT ![c] = Append(@, frame)]
  PROVE  /\ Len(wire'[c]) = Len(wire[c]) + 1
         /\ \A i \in 1 .. Len(wire[c]) : wire'[c][i] = wire[c][i]
         /\ wire'[c][Len(wire[c]) + 1] = frame
         /\ Sent(c)' = Sent(c) \cup EventsOf(frame)
         /\ \A d \in Conns \ {c} : wire'[d] = wire[d] /\ Sent(d)' = Sent(d)
<1>1. wire[c] \in Seq(Frame) /\ wire'[c] = Append(wire[c], frame)
  BY DEF TypeInv, TypeOK
<1>2. /\ Len(wire'[c]) = Len(wire[c]) + 1
      /\ \A i \in 1 .. Len(wire[c]) : wire'[c][i] = wire[c][i]
      /\ wire'[c][Len(wire[c]) + 1] = frame
  BY <1>1
<1>3. DOMAIN wire[c] = 1 .. Len(wire[c]) /\ Len(wire[c]) \in Nat
  BY <1>1
<1>4. DOMAIN wire'[c] = (1 .. Len(wire[c])) \cup {Len(wire[c]) + 1}
  BY <1>1, <1>3
<1>5. Sent(c)' = Sent(c) \cup EventsOf(frame)
  BY <1>2, <1>3, <1>4 DEF Sent, EventsOf, Elements
<1>6. \A d \in Conns \ {c} : wire'[d] = wire[d] /\ Sent(d)' = Sent(d)
  BY DEF Sent, TypeInv, TypeOK
<1> QED BY <1>2, <1>5, <1>6

LEMMA FrameEvents ==
  /\ \A e : EventsOf(EventFrame(e)) = {e} /\ EventFrame(e).type = "event"
  /\ \A q : EventsOf(ReplayFrame(q)) = Elements(q) /\ ReplayFrame(q).type = "replay"
<1>1. ASSUME NEW e PROVE EventsOf(EventFrame(e)) = {e} /\ EventFrame(e).type = "event"
  <2>1. EventFrame(e).events = <<e>> /\ EventFrame(e).type = "event"
    BY DEF EventFrame
  <2>2. Elements(<<e>>) = {e}
    BY DEF Elements
  <2> QED BY <2>1, <2>2 DEF EventsOf
<1>2. ASSUME NEW q
      PROVE  EventsOf(ReplayFrame(q)) = Elements(q) /\ ReplayFrame(q).type = "replay"
  BY DEF ReplayFrame, EventsOf
<1> QED BY <1>1, <1>2

(* All that the invariant needs to know of a step of a broadcast.           *)
BroadcastFacts(s, e, T) ==
  /\ \A t \in Sources \ {s} : /\ task'[t] = task[t]
                              /\ targets'[t] = targets[t]
                              /\ current'[t] = current[t]
  /\ current'[s] = e
  /\ targets'[s] \subseteq T
  /\ registered' \subseteq registered
  /\ failed \subseteq failed'
  /\ aborted \subseteq aborted'
  /\ \/ /\ wire' = wire
        /\ task'[s] # "sending"
        /\ e \in aborted' \/ \A c \in T : c \notin registered'
     \/ \E c \in T :
          /\ peer[c] = "open"
          /\ wire' = [wire EXCEPT ![c] = Append(@, EventFrame(e))]
          /\ task'[s] = "sending"
          /\ c \notin targets'[s]
          /\ \A d \in T \ {c} : d \in targets'[s] \/ d \notin registered'

LEMMA BroadcastEffect ==
  ASSUME TypeInv, NEW s \in Sources, NEW e \in Event, NEW T \in SUBSET Conns,
         BroadcastOn(s, e, T)
  PROVE  BroadcastFacts(s, e, T)
<1>1. PICK met \in SUBSET {c \in T : Refuses(c)} :
        /\ registered' = registered \ met
        /\ current' = [current EXCEPT ![s] = e]
        /\ \/ T = met /\ Leave(s, FALSE) /\ UNCHANGED <<wire, failed, aborted>>
           \/ \E c \in T \ met :
                /\ ~ Refuses(c)
                /\ WriteTo(s, e, c, (T \ met) \ {c}) \/ FailAt(s, e, c)
  BY DEF BroadcastOn
<1>2. CASE T = met /\ Leave(s, FALSE) /\ UNCHANGED <<wire, failed, aborted>>
  BY <1>1, <1>2 DEF BroadcastFacts, Leave, TypeInv, TypeOK
<1>3. ASSUME NEW c \in T \ met, WriteTo(s, e, c, (T \ met) \ {c})
      PROVE  BroadcastFacts(s, e, T)
  BY <1>1, <1>3 DEF BroadcastFacts, WriteTo, TypeInv, TypeOK
<1>4. ASSUME NEW c \in T \ met, FailAt(s, e, c)
      PROVE  BroadcastFacts(s, e, T)
  BY <1>1, <1>4 DEF BroadcastFacts, FailAt, Leave, TypeInv, TypeOK
<1> QED BY <1>1, <1>2, <1>3, <1>4

(* Websocket c, which has had its replay, is written event e.               *)
Wrote(c, e) ==
  /\ wire[c] # <<>>
  /\ Len(wire'[c]) = Len(wire[c]) + 1
  /\ \A i \in 1 .. Len(wire[c]) : wire'[c][i] = wire[c][i]
  /\ wire'[c][Len(wire[c]) + 1] = EventFrame(e)
  /\ wire' = [wire EXCEPT ![c] = Append(@, EventFrame(e))]
  /\ Sent(c)' = Sent(c) \cup {e}
  /\ \A d \in Conns \ {c} : wire'[d] = wire[d] /\ Sent(d)' = Sent(d)

LEMMA BroadcastWrites ==
  ASSUME Inv, NEW s \in Sources, NEW e \in Event, NEW T \in SUBSET Conns,
         BroadcastFacts(s, e, T),
         \A c \in T : endpoint[c] \notin {"new", "accepting"}
  PROVE  \/ /\ wire' = wire /\ task'[s] # "sending" /\ \A c \in Conns : Sent(c)' = Sent(c)
            /\ e \in aborted' \/ \A c \in T : c \notin registered'
         \/ \E c \in T :
              /\ Wrote(c, e) /\ task'[s] = "sending" /\ c \notin targets'[s]
              /\ \A d \in T \ {c} : d \in targets'[s] \/ d \notin registered'
<1>1. wire' = wire => \A c \in Conns : Sent(c)' = Sent(c)
  BY DEF Sent
<1>2. ASSUME NEW c \in T, peer[c] = "open",
             wire' = [wire EXCEPT ![c] = Append(@, EventFrame(e))]
      PROVE  Wrote(c, e)
  <2>1. wire[c] # <<>>
    BY <1>2 DEF Inv, Replayed
  <2>2. EventFrame(e) \in Frame /\ EventsOf(EventFrame(e)) = {e}
    BY FrameTypes, FrameEvents
  <2>3. c \in Conns /\ TypeInv
    BY DEF Inv
  <2>4. /\ Len(wire'[c]) = Len(wire[c]) + 1
        /\ \A i \in 1 .. Len(wire[c]) : wire'[c][i] = wire[c][i]
        /\ wire'[c][Len(wire[c]) + 1] = EventFrame(e)
        /\ Sent(c)' = Sent(c) \cup EventsOf(EventFrame(e))
        /\ \A d \in Conns \ {c} : wire'[d] = wire[d] /\ Sent(d)' = Sent(d)
    BY <1>2, <2>2, <2>3, SentAfterWrite
  <2> QED BY <1>2, <2>1, <2>2, <2>4 DEF Wrote
<1> QED BY <1>1, <1>2 DEF BroadcastFacts

(* A broadcast step keeps the invariant, whether it begins the broadcast of *)
(* e or goes on with it: e is news to all of T, and owed to nobody else.    *)
LEMMA BroadcastKeeps ==
  ASSUME Inv, TypeInv', NEW s \in Sources, NEW e \in Event, NEW T \in SUBSET Conns,
         BroadcastOn(s, e, T),
         UNCHANGED <<endpoint, peer, joined>>,
         handled <= handled', archive' = archive \cup {e}, archive' \subseteq 1 .. handled',
         Elements(buffer') \subseteq archive',
         \A c \in T : /\ endpoint[c] \notin {"new", "accepting"}
                      /\ joined[c] < e
                      /\ e \notin Sent(c),
         \A c \in registered \ failed :
           joined[c] < e => e \in Sent(c) \/ e \in aborted \/ c \in T,
         task[s] = "sending" => current[s] = e,
         \A t \in Sources \ {s} : task[t] = "sending" => current[t] # e
  PROVE  Inv'
<1> USE DEF Inv
<1>0. BroadcastFacts(s, e, T)
  BY BroadcastEffect
<1>1. \/ /\ wire' = wire /\ task'[s] # "sending" /\ \A c \in Conns : Sent(c)' = Sent(c)
         /\ e \in aborted' \/ \A c \in T : c \notin registered'
      \/ \E c \in T :
           /\ Wrote(c, e) /\ task'[s] = "sending" /\ c \notin targets'[s]
           /\ \A d \in T \ {c} : d \in targets'[s] \/ d \notin registered'
  BY <1>0, BroadcastWrites
<1>2. \A c \in Conns : Sent(c) \subseteq Sent(c)' /\ Sent(c)' \subseteq Sent(c) \cup {e}
  BY <1>1 DEF Wrote
<1>3. Numbered'
  <2>1. handled \in Nat /\ handled' \in Nat /\ \A c \in Conns : joined[c] \in Nat
    BY MaxEventsAssumption DEF TypeInv, TypeOK
  <2> QED BY <2>1 DEF Numbered
<1>4. Targeted'
  <2> SUFFICES ASSUME NEW t \in Sources, task'[t] = "sending"
               PROVE  /\ current'[t] \in archive'
                      /\ \A c \in targets'[t] :
                           joined'[c] < current'[t] /\ current'[t] \notin Sent(c)'
                      /\ \A u \in Sources :
                           task'[u] = "sending" /\ current'[u] = current'[t] => u = t
    BY DEF Targeted
  <2>1. CASE t = s
    <3>1. current'[t] = e /\ targets'[t] \subseteq T
      BY <1>0, <2>1 DEF BroadcastFacts
    <3>2. \A c \in targets'[t] : joined'[c] < e /\ e \notin Sent(c)'
      BY <1>1, <2>1, <3>1 DEF Wrote
    <3>3. \A u \in Sources : task'[u] = "sending" /\ current'[u] = e => u = s
      BY <1>0 DEF BroadcastFacts
    <3> QED BY <2>1, <3>1, <3>2, <3>3
  <2>2. CASE t # s
    <3>1. /\ task[t] = "sending" /\ current'[t] = current[t] /\ targets'[t] = targets[t]
          /\ current[t] # e
      BY <1>0, <2>2 DEF BroadcastFacts
    <3>2. \A c \in targets[t] : c \in Conns
      BY DEF TypeInv, TypeOK
    <3>3. \A c \in targets[t] : joined[c] < current[t] /\ current[t] \notin Sent(c)'
      BY <1>2, <3>1, <3>2 DEF Targeted
    <3>4. \A u \in Sources : task'[u] = "sending" /\ current'[u] = current[t] => u = t
      BY <1>0, <3>1 DEF BroadcastFacts, Targeted
    <3> QED BY <3>1, <3>3, <3>4 DEF Targeted
  <2> QED BY <2>1, <2>2
<1>5. Untouched'
  <2> SUFFICES ASSUME NEW c \in Conns, endpoint[c] \in {"new", "accepting"}
               PROVE  /\ c \notin registered' /\ wire'[c] = <<>>
                      /\ \A t \in Sources : c \notin targets'[t]
    BY DEF Untouched
  <2>1. c \notin T /\ c \notin registered /\ wire[c] = <<>>
    BY DEF Untouched
  <2>2. wire'[c] = <<>>
    BY <1>1, <2>1 DEF Wrote
  <2>3. \A t \in Sources : c \notin targets'[t]
    BY <1>0, <2>1 DEF BroadcastFacts, Untouched
  <2> QED BY <1>0, <2>1, <2>2, <2>3 DEF BroadcastFacts
<1>6. Replayed'
  <2> SUFFICES ASSUME NEW c \in Conns, wire[c] # <<>> PROVE wire'[c] # <<>>
    BY DEF Replayed
  <2>1. wire[c] \in Seq(Frame) /\ wire'[c] \in Seq(Frame)
    BY DEF TypeInv, TypeOK
  <2> QED BY <1>1, <2>1 DEF Wrote
<1>7. ArchivedBeforeShown'
  BY <1>2, <1>4 DEF ArchivedBeforeShown, Targeted
<1>8. ReplayComesFirst' /\ ShownOnce'
  <2>1. CASE wire' = wire
    BY <2>1 DEF ReplayComesFirst, ShownOnce
  <2>2. ASSUME NEW c \in T,
               wire[c] # <<>>,
               Len(wire'[c]) = Len(wire[c]) + 1,
               \A i \in 1 .. Len(wire[c]) : wire'[c][i] = wire[c][i],
               wire'[c][Len(wire[c]) + 1] = EventFrame(e),
               \A d \in Conns \ {c} : wire'[d] = wire[d]
        PROVE  ReplayComesFirst' /\ ShownOnce'
    <3>1. /\ DOMAIN wire[c] = 1 .. Len(wire[c]) /\ Len(wire[c]) \in Nat
          /\ DOMAIN wire'[c] = 1 .. Len(wire'[c]) /\ Len(wire[c]) > 0
      BY <2>2 DEF TypeInv, TypeOK
    <3>2. ReplayComesFirst'
      BY <2>2, <3>1, FrameEvents DEF ReplayComesFirst
    <3>3. \A i \in DOMAIN wire[c] : e \notin EventsOf(wire[c][i])
      BY DEF Sent
    <3>4. \A i, j \in DOMAIN wire'[c] :
            i # j => EventsOf(wire'[c][i]) \cap EventsOf(wire'[c][j]) = {}
      <4>1. EventsOf(wire'[c][Len(wire[c]) + 1]) = {e}
        BY <2>2, FrameEvents
      <4>2. \A i \in DOMAIN wire'[c] : i # Len(wire[c]) + 1 =>
              i \in DOMAIN wire[c] /\ wire'[c][i] = wire[c][i]
        BY <2>2, <3>1
      <4>3. \A i, j \in DOMAIN wire[c] :
              i # j => EventsOf(wire[c][i]) \cap EventsOf(wire[c][j]) = {}
        BY DEF ShownOnce
      <4> SUFFICES ASSUME NEW i \in DOMAIN wire'[c], NEW j \in DOMAIN wire'[c], i # j
                   PROVE  EventsOf(wire'[c][i]) \cap EventsOf(wire'[c][j]) = {}
        OBVIOUS
      <4>4. CASE i # Len(wire[c]) + 1 /\ j # Len(wire[c]) + 1
        BY <4>2, <4>3, <4>4
      <4>5. CASE i = Len(wire[c]) + 1 \/ j = Len(wire[c]) + 1
        BY <3>3, <4>1, <4>2, <4>5
      <4> QED BY <4>4, <4>5
    <3> QED BY <2>2, <3>2, <3>4 DEF ShownOnce
  <2> QED BY <1>1, <2>1, <2>2 DEF Wrote
<1>9. NothingMissed'
  <2> SUFFICES ASSUME NEW c \in registered' \ failed', NEW f \in archive', f > joined[c]
               PROVE  f \in Sent(c)' \/ Pending(c, f)' \/ f \in aborted'
    BY DEF NothingMissed
  <2>1. c \in registered \ failed /\ c \in Conns /\ aborted \subseteq aborted'
    BY <1>0 DEF BroadcastFacts, TypeInv, TypeOK
  <2>2. CASE f = e
    <3>1. joined[c] < e
      BY <2>1, <2>2, MaxEventsAssumption DEF TypeInv, TypeOK, Event
    <3>2. CASE c \in T
      <4>1. e \in aborted' \/ Pending(c, e)' \/ e \in Sent(c)'
        <5>1. CASE task'[s] = "sending" /\ c \in targets'[s]
          BY <1>0, <5>1 DEF Pending, BroadcastFacts
        <5>2. CASE ~ (task'[s] = "sending" /\ c \in targets'[s])
          <6>1. Wrote(c, e) => e \in Sent(c)'
            BY DEF Wrote
          <6> QED BY <1>1, <3>2, <5>2, <6>1
        <5> QED BY <5>1, <5>2
      <4> QED BY <2>2, <4>1
    <3> QED BY <1>2, <2>1, <2>2, <3>1, <3>2
  <2>3. CASE f # e
    <3>1. f \in Sent(c) \/ Pending(c, f) \/ f \in aborted
      BY <2>1, <2>3 DEF NothingMissed
    <3>2. ASSUME Pending(c, f) PROVE Pending(c, f)'
      BY <1>0, <2>3, <3>2 DEF Pending, BroadcastFacts
    <3> QED BY <1>2, <2>1, <3>1, <3>2
  <2> QED BY <2>2, <2>3
<1> QED BY <1>3, <1>4, <1>5, <1>6, <1>7, <1>8, <1>9

(* The buffer never holds an event that is not stored.                      *)
LEMMA PushElements ==
  ASSUME NEW q \in Seq(Event), NEW e \in Event
  PROVE  Elements(Push(q, e)) \subseteq Elements(q) \cup {e}
<1>1. CASE Len(q) < MaxLen
  BY <1>1 DEF Push, Elements
<1>2. CASE ~ (Len(q) < MaxLen)
  <2>1. q # <<>> /\ Len(q) \in Nat
    BY <1>2, MaxLenAssumption
  <2>2. Tail(q) \in Seq(Event) /\ \A i \in DOMAIN Tail(q) : i + 1 \in DOMAIN q /\ Tail(q)[i] = q[i + 1]
    BY <2>1
  <2>3. Push(q, e) = Append(Tail(q), e)
    BY <1>2 DEF Push
  <2>4. \A i \in DOMAIN Append(Tail(q), e) :
          Append(Tail(q), e)[i] = e \/ (i \in DOMAIN Tail(q) /\ Append(Tail(q), e)[i] = Tail(q)[i])
    BY <2>2
  <2> QED BY <2>2, <2>3, <2>4 DEF Elements
<1> QED BY <1>1, <1>2

LEMMA InvInit == Init => Inv
<1> SUFFICES ASSUME Init PROVE Inv
  OBVIOUS
<1>1. TypeInv
  BY TypeInit
<1>2. PICK k \in 0 .. MaxLen :
        k <= MaxEvents /\ handled = k /\ archive = 1 .. k /\ buffer = [i \in 1 .. k |-> i]
  BY DEF Init
<1>3. Numbered /\ Targeted /\ Untouched /\ Replayed
  BY <1>2, MaxLenAssumption DEF Init, Numbered, Targeted, Untouched, Replayed
<1>4. \A c \in Conns : Sent(c) = {} /\ DOMAIN wire[c] = {}
  <2>1. \A c \in Conns : wire[c] = <<>>
    BY DEF Init
  <2>2. DOMAIN <<>> = {}
    OBVIOUS
  <2>3. \A c \in Conns : DOMAIN wire[c] = {}
    BY <2>1, <2>2
  <2>4. \A c \in Conns : Sent(c) = {}
    BY <2>3 DEF Sent
  <2> QED BY <2>3, <2>4
<1>5. ArchivedBeforeShown
  BY <1>2, <1>4 DEF Init, ArchivedBeforeShown, Elements
<1>6. ReplayComesFirst /\ ShownOnce /\ NothingMissed
  BY <1>4 DEF Init, ReplayComesFirst, ShownOnce, NothingMissed
<1> QED BY <1>1, <1>3, <1>5, <1>6 DEF Inv

(* An endpoint that joins gets everything stored so far, or is never sent   *)
(* to: nothing is owed to it yet.                                           *)
LEMMA RegisterKeeps ==
  ASSUME Inv, TypeInv', NEW c \in Conns, Register(c)
  PROVE  Inv'
<1> USE DEF Inv
<1>1. /\ c \notin registered /\ wire[c] = <<>> /\ Sent(c) = {}
      /\ \A s \in Sources : c \notin targets[s]
  BY DEF Register, Untouched, Sent
<1>2. /\ joined' = [joined EXCEPT ![c] = handled] /\ registered' = registered \cup {c}
      /\ UNCHANGED <<handled, archive, buffer, task, current, targets, awaiting, aborted, peer>>
  BY DEF Register, eventVars, taskVars
<1>3. handled \in Nat /\ joined \in [Conns -> 0 .. MaxEvents]
  BY DEF TypeInv, TypeOK
<1>4. /\ \A d \in Conns \ {c} : wire'[d] = wire[d] /\ Sent(d)' = Sent(d)
      /\ \/ wire'[c] = <<>> /\ Sent(c)' = {} /\ peer[c] = "lost" /\ c \in failed'
         \/ wire'[c] = <<ReplayFrame(buffer)>> /\ Sent(c)' = Elements(buffer)
  <2>1. CASE peer[c] = "lost" /\ wire' = wire /\ c \in failed'
    BY <1>1, <2>1 DEF Sent
  <2>2. CASE wire' = [wire EXCEPT ![c] = Append(@, ReplayFrame(buffer))]
    <3>1. TypeInv /\ ReplayFrame(buffer) \in Frame
      BY FrameTypes DEF TypeInv, TypeOK
    <3>2. /\ Sent(c)' = Sent(c) \cup EventsOf(ReplayFrame(buffer))
          /\ \A d \in Conns \ {c} : wire'[d] = wire[d] /\ Sent(d)' = Sent(d)
      BY <2>2, <3>1, SentAfterWrite
    <3>3. wire'[c] = <<ReplayFrame(buffer)>>
      BY <1>1, <2>2 DEF TypeInv, TypeOK
    <3> QED BY <1>1, <3>2, <3>3, FrameEvents
  <2> QED BY <2>1, <2>2 DEF Register
<1>5. failed \subseteq failed' /\ endpoint'[c] \notin {"new", "accepting"}
      /\ \A d \in Conns \ {c} : endpoint'[d] = endpoint[d]
  BY DEF Register, TypeInv, TypeOK
<1>6. Numbered'
  BY <1>2, <1>3 DEF Numbered
<1>7. Targeted'
  BY <1>1, <1>2, <1>3, <1>4 DEF Targeted, TypeInv, TypeOK
<1>8. Untouched'
  BY <1>2, <1>4, <1>5 DEF Untouched
<1>9. Replayed'
  BY <1>2, <1>4, <1>5 DEF Replayed
<1>10. ArchivedBeforeShown'
  <2>1. \A d \in Conns : Sent(d)' \subseteq archive'
    BY <1>2, <1>4 DEF ArchivedBeforeShown
  <2> QED BY <1>2, <2>1 DEF ArchivedBeforeShown
<1>11. ReplayComesFirst' /\ ShownOnce'
  <2>1. DOMAIN wire'[c] \subseteq {1} /\ \A i \in DOMAIN wire'[c] : wire'[c][i] = ReplayFrame(buffer)
    BY <1>4
  <2>2. ReplayComesFirst'
    <3> SUFFICES ASSUME NEW d \in Conns, NEW i \in DOMAIN wire'[d]
                 PROVE  wire'[d][i].type = "replay" <=> i = 1
      BY DEF ReplayComesFirst
    <3>1. CASE d = c
      BY <2>1, <3>1, FrameEvents
    <3>2. CASE d # c
      BY <1>4, <3>2 DEF ReplayComesFirst
    <3> QED BY <3>1, <3>2
  <2>3. ShownOnce'
    <3> SUFFICES ASSUME NEW d \in Conns,
                        NEW i \in DOMAIN wire'[d], NEW j \in DOMAIN wire'[d], i # j
                 PROVE  EventsOf(wire'[d][i]) \cap EventsOf(wire'[d][j]) = {}
      BY DEF ShownOnce
    <3>1. d # c
      BY <2>1
    <3> QED BY <1>4, <3>1 DEF ShownOnce
  <2> QED BY <2>2, <2>3
<1>12. NothingMissed'
  <2> SUFFICES ASSUME NEW d \in registered' \ failed', NEW e \in archive', e > joined'[d]
               PROVE  e \in Sent(d)' \/ Pending(d, e)' \/ e \in aborted'
    BY DEF NothingMissed
  <2>1. CASE d = c
    <3>1. joined'[c] = handled /\ e \in 1 .. handled
      BY <1>2, <1>3 DEF Numbered
    <3> QED BY <1>3, <2>1, <3>1
  <2>2. CASE d # c
    <3>1. d \in registered \ failed /\ d \in Conns /\ joined'[d] = joined[d]
      BY <1>2, <1>3, <1>5, <2>2 DEF TypeInv, TypeOK
    <3>2. e \in Sent(d) \/ Pending(d, e) \/ e \in aborted
      BY <1>2, <3>1 DEF NothingMissed
    <3> QED BY <1>2, <1>4, <2>2, <3>1, <3>2 DEF Pending
  <2> QED BY <2>1, <2>2
<1> QED BY <1>6, <1>7, <1>8, <1>9, <1>10, <1>11, <1>12

(* The other steps write no frame and begin no broadcast.                   *)
LEMMA QuietKeeps ==
  ASSUME Inv, TypeInv',
         UNCHANGED <<archive, buffer, wire, joined, current>>,
         handled \in Nat /\ handled' \in Nat /\ handled <= handled',
         registered' \subseteq registered, failed \subseteq failed', aborted \subseteq aborted',
         \A c \in Conns : /\ endpoint'[c] \in {"new", "accepting"}
                               => endpoint[c] \in {"new", "accepting"}
                          /\ endpoint'[c] \notin {"new", "accepting"} /\ peer'[c] = "open"
                               => endpoint[c] \notin {"new", "accepting"} /\ peer[c] = "open",
         \A s \in Sources : \/ task'[s] = task[s] /\ targets'[s] = targets[s]
                            \/ /\ task'[s] # "sending" /\ targets'[s] = {}
                               /\ task[s] = "sending" => current[s] \in aborted'
  PROVE  Inv'
<1> USE DEF Inv
<1>1. \A c \in Conns : Sent(c)' = Sent(c)
  BY DEF Sent
<1>2. Numbered'
  BY DEF Numbered, TypeInv, TypeOK
<1>3. Targeted'
  BY <1>1 DEF Targeted, TypeInv, TypeOK
<1>4. Untouched'
  BY DEF Untouched
<1>5. Replayed'
  BY DEF Replayed
<1>6. ArchivedBeforeShown'
  BY <1>1 DEF ArchivedBeforeShown
<1>7. ReplayComesFirst' /\ ShownOnce'
  BY DEF ReplayComesFirst, ShownOnce
<1>8. NothingMissed'
  <2> SUFFICES ASSUME NEW c \in registered \ failed, NEW e \in archive, e > joined[c]
               PROVE  e \in Sent(c)' \/ Pending(c, e)' \/ e \in aborted'
    BY DEF NothingMissed
  <2>1. e \in Sent(c) \/ Pending(c, e) \/ e \in aborted
    BY DEF NothingMissed
  <2>2. ASSUME Pending(c, e) PROVE Pending(c, e)' \/ e \in aborted'
    BY <2>2 DEF Pending
  <2>3. c \in Conns
    BY DEF TypeInv, TypeOK
  <2> QED BY <1>1, <2>1, <2>2, <2>3
<1> QED BY <1>2, <1>3, <1>4, <1>5, <1>6, <1>7, <1>8

LEMMA InvStep == Inv /\ [Next]_vars => Inv'
<1> SUFFICES ASSUME Inv, [Next]_vars PROVE Inv'
  OBVIOUS
<1>0. TypeInv /\ TypeInv'
  BY TypeStep DEF Inv
<1>a. handled \in Nat /\ \A c \in Conns : joined[c] \in Nat
  BY <1>0 DEF TypeInv, TypeOK
<1>1. ASSUME NEW s \in Sources, HandleEvent(s) PROVE Inv'
  <2> DEFINE e == handled + 1
  <2>1. /\ BroadcastOn(s, e, registered) /\ e \in Event /\ registered \in SUBSET Conns
        /\ UNCHANGED <<endpoint, peer, joined>> /\ task[s] = "idle"
        /\ handled' = e /\ archive' = archive \cup {e} /\ buffer' = Push(buffer, e)
    BY <1>0, <1>1, NextNumber DEF HandleEvent, TypeInv, TypeOK
  <2>2. \A f \in archive : f \in 1 .. handled /\ f # e
    BY <1>a DEF Inv, Numbered
  <2>3. archive' \subseteq 1 .. handled' /\ handled <= handled'
    BY <1>a, <2>1, <2>2
  <2>4. Elements(buffer') \subseteq archive'
    BY <1>0, <2>1, PushElements DEF Inv, ArchivedBeforeShown, TypeInv, TypeOK
  <2>5. \A c \in registered : /\ endpoint[c] \notin {"new", "accepting"}
                              /\ joined[c] < e /\ e \notin Sent(c)
    BY <1>a, <2>1, <2>2 DEF Inv, Untouched, Numbered, ArchivedBeforeShown
  <2>6. \A t \in Sources \ {s} : task[t] = "sending" => current[t] # e
    BY <2>2 DEF Inv, Targeted
  <2> HIDE DEF e
  <2> QED BY <1>0, <2>1, <2>3, <2>4, <2>5, <2>6, BroadcastKeeps
<1>2. ASSUME NEW s \in Sources, SendReturns(s) PROVE Inv'
  <2> DEFINE e == current[s]
             T == targets[s]
  <2>1. /\ BroadcastOn(s, e, T) /\ task[s] = "sending"
        /\ UNCHANGED <<handled, archive, buffer, origin, endpoint, peer, joined>>
    BY <1>2 DEF SendReturns, eventVars
  <2>2. e \in Event /\ T \in SUBSET Conns /\ e \in archive
    BY <1>0, <2>1 DEF Inv, Targeted, TypeInv, TypeOK, Sending
  <2>3. \A c \in T : /\ endpoint[c] \notin {"new", "accepting"}
                     /\ joined[c] < e /\ e \notin Sent(c)
    BY <2>1, <2>2 DEF Inv, Untouched, Targeted
  <2>4. \A t \in Sources \ {s} : task[t] = "sending" => current[t] # e
    BY <2>1 DEF Inv, Targeted
  <2>5. \A c \in registered \ failed :
          joined[c] < e => e \in Sent(c) \/ e \in aborted \/ c \in T
    <3> SUFFICES ASSUME NEW c \in registered \ failed, joined[c] < e
                 PROVE  e \in Sent(c) \/ e \in aborted \/ c \in T
      OBVIOUS
    <3>1. e > joined[c]
      BY <1>0, <1>a, <2>2 DEF TypeInv, TypeOK, Event
    <3>2. e \in Sent(c) \/ Pending(c, e) \/ e \in aborted
      BY <2>2, <3>1 DEF Inv, NothingMissed
    <3>3. Pending(c, e) => c \in T
      BY <2>4 DEF Pending
    <3> QED BY <3>2, <3>3
  <2>6. archive' = archive \cup {e} /\ archive' \subseteq 1 .. handled' /\ handled <= handled'
    BY <1>a, <2>1, <2>2 DEF Inv, Numbered
  <2>7. Elements(buffer') \subseteq archive'
    BY <2>1 DEF Inv, ArchivedBeforeShown
  <2>8. task[s] = "sending" => current[s] = e
    OBVIOUS
  <2> HIDE DEF e, T
  <2> QED BY <1>0, <2>1, <2>2, <2>3, <2>4, <2>5, <2>6, <2>7, <2>8, BroadcastKeeps
<1>3. ASSUME NEW s \in Sources, StoreFails(s) PROVE Inv'
  BY <1>0, <1>a, <1>3, QuietKeeps DEF StoreFails, Leave, TypeInv, TypeOK
<1>4. ASSUME NEW s \in Sources, SendRaises(s) PROVE Inv'
  BY <1>0, <1>a, <1>4, QuietKeeps DEF SendRaises, Leave, eventVars, TypeInv, TypeOK
<1>5. ASSUME NEW c \in Conns, Register(c) PROVE Inv'
  BY <1>0, <1>5, RegisterKeeps
<1>6. ASSUME NEW c \in Conns,
             Reject(c) \/ Accept(c) \/ ReplaySent(c) \/ ReplayRaises(c)
               \/ Disconnect(c) \/ PeerLost(c)
      PROVE  Inv'
  <2>1. /\ UNCHANGED <<handled, archive, buffer, wire, joined, task, current, targets, aborted>>
        /\ registered' \subseteq registered /\ failed \subseteq failed'
    BY <1>6 DEF Reject, Accept, ReplaySent, ReplayRaises, Disconnect, PeerLost,
                eventVars, taskVars
  <2>2. \A d \in Conns :
          /\ endpoint'[d] \in {"new", "accepting"} => endpoint[d] \in {"new", "accepting"}
          /\ endpoint'[d] \notin {"new", "accepting"} /\ peer'[d] = "open"
               => endpoint[d] \notin {"new", "accepting"} /\ peer[d] = "open"
    <3>1. \A d \in Conns \ {c} : endpoint'[d] = endpoint[d] /\ peer'[d] = peer[d]
      BY <1>0, <1>6 DEF Reject, Accept, ReplaySent, ReplayRaises, Disconnect, PeerLost,
                  TypeInv, TypeOK
    <3>2. CASE Reject(c) \/ Disconnect(c)
      BY <1>0, <3>1, <3>2 DEF Reject, Disconnect, TypeInv, TypeOK
    <3>3. CASE Accept(c) \/ ReplaySent(c) \/ ReplayRaises(c)
      BY <1>0, <3>1, <3>3 DEF Accept, ReplaySent, ReplayRaises, TypeInv, TypeOK
    <3>4. CASE PeerLost(c)
      BY <1>0, <3>1, <3>4 DEF PeerLost, TypeInv, TypeOK
    <3> QED BY <1>6, <3>2, <3>3, <3>4
  <2> QED BY <1>0, <1>a, <2>1, <2>2, QuietKeeps
<1>7. CASE UNCHANGED vars
  <2>1. UNCHANGED <<handled, archive, buffer, wire, joined, task, current, targets,
                    aborted, registered, failed, endpoint, peer>>
    BY <1>7 DEF vars, eventVars, taskVars
  <2> QED BY <1>0, <1>a, <2>1, QuietKeeps
<1> QED
  BY <1>1, <1>2, <1>3, <1>4, <1>5, <1>6, <1>7 DEF Next, SourceStep, EndpointStep

LEMMA InvHolds == Spec => []Inv
BY InvInit, InvStep, PTL DEF Spec

(* Nothing is replayed, shown or broadcast before it is stored.             *)
THEOREM ArchiveFirst == Spec => []ArchivedBeforeShown
BY InvHolds, PTL DEF Inv

(* Each browser has one replay frame, and it is the first.                  *)
THEOREM ReplayFirst == Spec => []ReplayComesFirst
BY InvHolds, PTL DEF Inv

(* No event reaches a browser twice.                                        *)
THEOREM NeverTwice == Spec => []ShownOnce
BY InvHolds, PTL DEF Inv

(* No event falls between a browser's replay and its live stream.           *)
THEOREM NoGap == Spec => []NothingMissed
BY InvHolds, PTL DEF Inv

-----------------------------------------------------------------------------
(***************************************************************************)
(* The replay buffer against the archive, and the order of one source.     *)
(***************************************************************************)

(* Adding an event newer than all that is stored keeps the buffer newest.   *)
LEMMA PushNewest ==
  ASSUME NEW q \in Seq(Event), Len(q) <= MaxLen, NEW A \in SUBSET Event, NEW e \in Event,
         \A a \in A : a < e,
         Elements(q) \subseteq A,
         \A i, j \in DOMAIN q : i < j => q[i] < q[j],
         \A a \in A \ Elements(q) : Len(q) = MaxLen /\ \A i \in DOMAIN q : a < q[i]
  PROVE  /\ \A i, j \in DOMAIN Push(q, e) : i < j => Push(q, e)[i] < Push(q, e)[j]
         /\ \A a \in (A \cup {e}) \ Elements(Push(q, e)) :
              Len(Push(q, e)) = MaxLen /\ \A i \in DOMAIN Push(q, e) : a < Push(q, e)[i]
<1>0. /\ Len(q) \in Nat /\ DOMAIN q = 1 .. Len(q) /\ Event \subseteq Nat
      /\ \A i \in DOMAIN q : q[i] \in A /\ q[i] < e
  <2>1. Len(q) \in Nat /\ DOMAIN q = 1 .. Len(q)
    OBVIOUS
  <2>2. Event \subseteq Nat
    BY DEF Event
  <2>3. \A i \in DOMAIN q : q[i] \in A
    BY DEF Elements
  <2> QED BY <2>1, <2>2, <2>3
<1>1. CASE Len(q) < MaxLen
  <2>1. Push(q, e) = Append(q, e)
    BY <1>1 DEF Push
  <2>2. /\ Len(Push(q, e)) = Len(q) + 1 /\ DOMAIN Push(q, e) = 1 .. Len(q) + 1
        /\ \A i \in DOMAIN q : Push(q, e)[i] = q[i]
        /\ Push(q, e)[Len(q) + 1] = e
    BY <1>0, <2>1
  <2>3. A \subseteq Elements(q)
    BY <1>0, <1>1
  <2>4. A \cup {e} \subseteq Elements(Push(q, e))
    <3>1. \A i \in DOMAIN q : i \in DOMAIN Push(q, e)
      BY <1>0, <2>2
    <3>2. Len(q) + 1 \in DOMAIN Push(q, e)
      BY <1>0, <2>2
    <3> QED BY <2>2, <2>3, <3>1, <3>2 DEF Elements
  <2>5. \A i, j \in DOMAIN Push(q, e) : i < j => Push(q, e)[i] < Push(q, e)[j]
    BY <1>0, <2>2
  <2> QED BY <2>4, <2>5
<1>2. CASE ~ (Len(q) < MaxLen)
  <2>0. MaxLen \in Nat /\ MaxLen >= 1
    BY MaxLenAssumption
  <2>1. Len(q) = MaxLen /\ q # <<>> /\ MaxLen >= 1
    <3>1. Len(q) = MaxLen
      <4>1. \A m, n \in Nat : m <= n /\ ~ (m < n) => m = n
        OBVIOUS
      <4> QED BY <1>0, <1>2, <2>0, <4>1, Zenon
    <3>2. q # <<>>
      BY <2>0, <3>1
    <3> QED BY <2>0, <3>1, <3>2
  <2>2. Push(q, e) = Append(Tail(q), e)
    BY <1>2 DEF Push
  <2>3. /\ Len(Push(q, e)) = MaxLen /\ DOMAIN Push(q, e) = 1 .. MaxLen
        /\ \A i \in 1 .. MaxLen - 1 : Push(q, e)[i] = q[i + 1]
        /\ Push(q, e)[MaxLen] = e
    <3>1. Tail(q) \in Seq(Event) /\ Len(Tail(q)) = MaxLen - 1
      BY <1>0, <2>1
    <3>2. \A i \in 1 .. MaxLen - 1 : Tail(q)[i] = q[i + 1]
      BY <1>0, <2>1, <3>1
    <3> QED BY <2>1, <2>2, <3>1, <3>2, MaxLenAssumption
  <2>4. \A i \in 1 .. MaxLen - 1 : i + 1 \in DOMAIN q
    BY <1>0, <2>1, MaxLenAssumption
  <2>5. \A i, j \in DOMAIN Push(q, e) : i < j => Push(q, e)[i] < Push(q, e)[j]
    <3> SUFFICES ASSUME NEW i \in 1 .. MaxLen, NEW j \in 1 .. MaxLen, i < j
                 PROVE  Push(q, e)[i] < Push(q, e)[j]
      BY <2>3
    <3>1. i \in 1 .. MaxLen - 1 /\ Push(q, e)[i] = q[i + 1] /\ i + 1 \in DOMAIN q
      BY <2>3, <2>4, MaxLenAssumption
    <3>2. CASE j = MaxLen
      BY <1>0, <2>3, <3>1, <3>2
    <3>3. CASE j # MaxLen
      <4>1. Push(q, e)[j] = q[j + 1] /\ j + 1 \in DOMAIN q /\ i + 1 < j + 1
        BY <2>3, <2>4, <3>3, MaxLenAssumption
      <4> QED BY <3>1, <4>1
    <3> QED BY <3>2, <3>3
  <2>6. ASSUME NEW a \in A, a \notin Elements(Push(q, e)), NEW i \in DOMAIN Push(q, e)
        PROVE  a < Push(q, e)[i]
    <3>1. CASE i = MaxLen
      BY <2>3, <3>1
    <3>2. CASE i \in 1 .. MaxLen - 1
      <4>1. Push(q, e)[i] = q[i + 1] /\ i + 1 \in DOMAIN q /\ 1 < i + 1 /\ 1 \in DOMAIN q
        BY <1>0, <2>1, <2>3, <2>4, <3>2, MaxLenAssumption
      <4>2. CASE a \in Elements(q)
        <5>1. PICK j \in DOMAIN q : a = q[j]
          BY <4>2 DEF Elements
        <5>2. j = 1
          <6>1. j # 1 => j - 1 \in 1 .. MaxLen - 1 /\ (j - 1) + 1 = j
            BY <1>0, <2>1, <5>1, MaxLenAssumption
          <6>2. \A k \in 1 .. MaxLen - 1 : Push(q, e)[k] \in Elements(Push(q, e))
            BY <2>1, <2>3, MaxLenAssumption DEF Elements
          <6> QED BY <2>3, <2>6, <5>1, <6>1, <6>2
        <5> QED BY <4>1, <5>1, <5>2
      <4>3. CASE a \notin Elements(q)
        BY <4>1, <4>3
      <4> QED BY <4>2, <4>3
    <3> QED BY <2>3, <3>1, <3>2, MaxLenAssumption
  <2>7. e \in Elements(Push(q, e))
    BY <2>1, <2>3, MaxLenAssumption DEF Elements
  <2> QED BY <2>3, <2>5, <2>6, <2>7
<1> QED BY <1>1, <1>2

\* A replay holds events up to the moment its websocket was registered.
Based ==
  \A c \in Conns : wire[c] # <<>> => \A e \in EventsOf(wire[c][1]) : e <= joined[c]

\* A source is at the newest of its events, and every live frame has a source.
Owned ==
  /\ \A s \in Sources :
       /\ \A e \in archive : origin[e] = s => e <= current[s]
       /\ task[s] = "sending" => origin[current[s]] = s
  /\ \A c \in Conns : \A i \in DOMAIN wire[c] :
       1 < i => \A e \in EventsOf(wire[c][i]) : origin[e] \in Sources

OrderInv == Inv /\ BufferIsNewest /\ Based /\ Owned /\ SourceOrder

(* A broadcast step writes the newest event of its source, or nothing.      *)
LEMMA BroadcastOrder ==
  ASSUME OrderInv, TypeInv', NEW s \in Sources, NEW e \in Event,
         \/ wire' = wire
         \/ \E c \in Conns : Wrote(c, e) /\ e \notin Sent(c),
         joined' = joined, archive' = archive \cup {e},
         current'[s] = e, \A t \in Sources \ {s} : current'[t] = current[t],
         \A t \in Sources \ {s} : task'[t] = task[t],
         \A t \in Sources \ {s} : task[t] = "sending" => current[t] # e,
         origin'[e] = s, \A f \in archive : origin'[f] = origin[f],
         \A f \in archive \ {e} : origin[f] = s => f < e
  PROVE  Based' /\ Owned' /\ SourceOrder'
<1> USE DEF OrderInv, Inv
<1>0. Event \subseteq Nat /\ archive \subseteq Event /\ NoSource \notin Sources
  BY NoSourceAssumption DEF Event, TypeInv, TypeOK
<1>1. \A c \in Conns : \A i \in DOMAIN wire[c] : EventsOf(wire[c][i]) \subseteq archive
  BY DEF ArchivedBeforeShown, Sent
<1>2. \A t \in Sources : /\ \A f \in archive' : origin'[f] = t => f <= current'[t]
                         /\ task'[t] = "sending" => origin'[current'[t]] = t
  <2> SUFFICES ASSUME NEW t \in Sources
               PROVE  /\ \A f \in archive' : origin'[f] = t => f <= current'[t]
                      /\ task'[t] = "sending" => origin'[current'[t]] = t
    OBVIOUS
  <2>1. CASE t = s
    BY <1>0, <2>1
  <2>2. CASE t # s
    <3>1. \A f \in archive' : origin'[f] = t => f <= current'[t]
      BY <2>2 DEF Owned
    <3>2. task'[t] = "sending" => current[t] \in archive \ {e} /\ origin[current[t]] = t
      BY <2>2 DEF Owned, Targeted
    <3> QED BY <2>2, <3>1, <3>2
  <2> QED BY <2>1, <2>2
<1>3. ASSUME NEW c \in Conns, NEW i \in DOMAIN wire[c], 1 < i, NEW f \in EventsOf(wire[c][i])
      PROVE  origin'[f] \in Sources
  <2>1. f \in archive /\ origin[f] \in Sources
    BY <1>1, <1>3 DEF Owned
  <2> QED BY <2>1
<1>4. ASSUME NEW c \in Conns, NEW i \in DOMAIN wire[c], NEW j \in DOMAIN wire[c], 1 < i, i < j,
             NEW f \in EventsOf(wire[c][i]), NEW g \in EventsOf(wire[c][j]),
             origin'[f] = origin'[g]
      PROVE  f < g
  <2>1. f \in archive /\ g \in archive
    BY <1>1, <1>4
  <2>2. origin[f] = origin[g]
    BY <1>4, <2>1
  <2> QED BY <1>4, <2>2 DEF SourceOrder
<1>5. CASE wire' = wire
  <2>1. Based' /\ SourceOrder'
    BY <1>4, <1>5 DEF Based, SourceOrder
  <2> QED BY <1>2, <1>3, <1>5, <2>1 DEF Owned
<1>6. ASSUME NEW c \in Conns, Wrote(c, e), e \notin Sent(c)
      PROVE  Based' /\ Owned' /\ SourceOrder'
  <2>1. /\ DOMAIN wire[c] = 1 .. Len(wire[c]) /\ Len(wire[c]) \in Nat /\ Len(wire[c]) > 0
        /\ DOMAIN wire'[c] = 1 .. Len(wire'[c])
    BY <1>6 DEF Wrote, TypeInv, TypeOK
  <2>2. \A i \in DOMAIN wire'[c] :
          \/ i \in DOMAIN wire[c] /\ wire'[c][i] = wire[c][i]
          \/ i = Len(wire[c]) + 1 /\ EventsOf(wire'[c][i]) = {e}
    BY <1>6, <2>1, FrameEvents DEF Wrote
  <2>3. \A d \in Conns \ {c} : wire'[d] = wire[d]
    BY <1>6 DEF Wrote
  <2>4. Based'
    <3>1. wire'[c][1] = wire[c][1] /\ wire[c] # <<>>
      BY <1>6, <2>1 DEF Wrote
    <3> QED BY <2>3, <3>1 DEF Based
  <2>5. Owned'
    <3> SUFFICES ASSUME NEW d \in Conns, NEW i \in DOMAIN wire'[d], 1 < i,
                        NEW f \in EventsOf(wire'[d][i])
                 PROVE  origin'[f] \in Sources
      BY <1>2 DEF Owned
    <3>1. CASE d # c
      BY <1>3, <2>3, <3>1
    <3>2. CASE d = c
      BY <1>3, <2>2, <3>2
    <3> QED BY <3>1, <3>2
  <2>6. SourceOrder'
    <3> SUFFICES ASSUME NEW d \in Conns, NEW i \in DOMAIN wire'[d], NEW j \in DOMAIN wire'[d],
                        1 < i, i < j,
                        NEW f \in EventsOf(wire'[d][i]), NEW g \in EventsOf(wire'[d][j]),
                        origin'[f] = origin'[g]
                 PROVE  f < g
      BY DEF SourceOrder
    <3>1. CASE d # c
      BY <1>4, <2>3, <3>1
    <3>2. CASE d = c /\ j \in DOMAIN wire[c] /\ wire'[c][j] = wire[c][j]
      <4>1. i \in DOMAIN wire[c] /\ wire'[c][i] = wire[c][i]
        BY <2>1, <2>2, <3>2
      <4> QED BY <1>4, <3>2, <4>1
    <3>3. CASE d = c /\ j = Len(wire[c]) + 1 /\ EventsOf(wire'[c][j]) = {e}
      <4>1. i \in DOMAIN wire[c] /\ wire'[c][i] = wire[c][i] /\ g = e
        BY <2>1, <2>2, <3>3
      <4>2. f \in archive /\ f \in Sent(c)
        BY <1>1, <3>3, <4>1 DEF Sent
      <4>3. f # e /\ origin[f] = s
        BY <1>6, <3>3, <4>1, <4>2
      <4> QED BY <4>1, <4>2, <4>3
    <3> QED BY <2>2, <3>1, <3>2, <3>3
  <2> QED BY <2>4, <2>5, <2>6
<1> QED BY <1>5, <1>6

LEMMA OrderInit == Init => OrderInv
<1> SUFFICES ASSUME Init PROVE OrderInv
  OBVIOUS
<1>1. Inv
  BY InvInit
<1>2. \A c \in Conns : wire[c] = <<>> /\ DOMAIN wire[c] = {}
  <2>1. DOMAIN <<>> = {}
    OBVIOUS
  <2> QED BY <2>1 DEF Init
<1>3. PICK k \in 0 .. MaxLen :
        k <= MaxEvents /\ handled = k /\ archive = 1 .. k /\ buffer = [i \in 1 .. k |-> i]
  BY DEF Init
<1>4. BufferIsNewest
  <2>1. k \in Nat
    BY MaxLenAssumption
  <2>2. DOMAIN buffer = 1 .. k /\ \A i \in 1 .. k : buffer[i] = i
    BY <1>3
  <2>3. \A e \in archive : e \in Elements(buffer)
    BY <1>3, <2>2 DEF Elements
  <2> QED BY <2>1, <2>2, <2>3 DEF BufferIsNewest
<1>5. Based /\ SourceOrder
  BY <1>2 DEF Based, SourceOrder
<1>6. Owned
  <2>1. archive \subseteq Event
    BY <1>1 DEF Inv, TypeInv, TypeOK
  <2> QED BY <1>2, <2>1, NoSourceAssumption DEF Init, Owned
<1> QED BY <1>1, <1>4, <1>5, <1>6 DEF OrderInv

(* What a step that stores nothing and shows nothing must leave alone.      *)
LEMMA QuietOrder ==
  ASSUME OrderInv,
         UNCHANGED <<archive, buffer, wire, joined, current>>,
         \A e \in archive : origin'[e] = origin[e],
         \A s \in Sources : task'[s] = "sending" => task[s] = "sending"
  PROVE  BufferIsNewest' /\ Based' /\ Owned' /\ SourceOrder'
<1> USE DEF OrderInv, Inv
<1>1. \A c \in Conns : \A i \in DOMAIN wire[c] : EventsOf(wire[c][i]) \subseteq archive
  BY DEF ArchivedBeforeShown, Sent
<1>2. BufferIsNewest' /\ Based'
  BY DEF BufferIsNewest, Based
<1>3. Owned'
  BY <1>1 DEF Owned, Targeted
<1>4. SourceOrder'
  <2> SUFFICES ASSUME NEW c \in Conns, NEW i \in DOMAIN wire[c], NEW j \in DOMAIN wire[c],
                      1 < i, i < j,
                      NEW e \in EventsOf(wire[c][i]), NEW f \in EventsOf(wire[c][j]),
                      origin'[e] = origin'[f]
               PROVE  e < f
    BY DEF SourceOrder
  <2>1. origin[e] = origin[f]
    BY <1>1
  <2> QED BY <2>1 DEF SourceOrder
<1> QED BY <1>2, <1>3, <1>4

LEMMA OrderStep == OrderInv /\ [Next]_vars => OrderInv'
<1> SUFFICES ASSUME OrderInv, [Next]_vars PROVE OrderInv'
  OBVIOUS
<1>0. Inv /\ Inv' /\ TypeInv /\ TypeInv'
  BY InvStep DEF OrderInv, Inv
<1>a. /\ handled \in Nat /\ \A c \in Conns : joined[c] \in Nat
      /\ \A e \in archive : e \in 1 .. handled /\ e \in Event
  BY <1>0 DEF Inv, Numbered, TypeInv, TypeOK
<1>1. ASSUME NEW s \in Sources, HandleEvent(s) PROVE OrderInv'
  <2> DEFINE e == handled + 1
  <2>1. /\ BroadcastOn(s, e, registered) /\ e \in Event /\ registered \in SUBSET Conns
        /\ joined' = joined /\ task[s] = "idle"
        /\ archive' = archive \cup {e} /\ buffer' = Push(buffer, e)
        /\ origin' = [origin EXCEPT ![e] = s]
    BY <1>0, <1>1, NextNumber DEF HandleEvent, TypeInv, TypeOK
  <2>2. \A f \in archive : f < e /\ f # e
    BY <1>a
  <2>3. BroadcastFacts(s, e, registered)
    BY <1>0, <2>1, BroadcastEffect
  <2>4. \A c \in registered : endpoint[c] \notin {"new", "accepting"}
    BY <1>0, <2>1 DEF Inv, Untouched
  <2>5. wire' = wire \/ \E c \in Conns : Wrote(c, e) /\ e \notin Sent(c)
    BY <1>0, <2>1, <2>2, <2>3, <2>4, BroadcastWrites DEF Inv, ArchivedBeforeShown
  <2>6. /\ current'[s] = e /\ \A t \in Sources \ {s} : current'[t] = current[t]
        /\ \A t \in Sources \ {s} : task'[t] = task[t]
    BY <2>3 DEF BroadcastFacts
  <2>7. \A t \in Sources \ {s} : task[t] = "sending" => current[t] # e
    BY <1>0, <2>2 DEF Inv, Targeted
  <2>8. /\ origin'[e] = s /\ \A f \in archive : origin'[f] = origin[f]
        /\ \A f \in archive \ {e} : origin[f] = s => f < e
    BY <1>0, <1>a, <2>1, <2>2 DEF TypeInv, TypeOK
  <2>9. BufferIsNewest'
    <3>1. /\ buffer \in Seq(Event) /\ Len(buffer) <= MaxLen /\ archive \in SUBSET Event
          /\ Elements(buffer) \subseteq archive
      BY <1>0 DEF Inv, ArchivedBeforeShown, TypeInv, TypeOK
    <3>2. /\ \A i, j \in DOMAIN buffer : i < j => buffer[i] < buffer[j]
          /\ \A a \in archive \ Elements(buffer) :
               Len(buffer) = MaxLen /\ \A i \in DOMAIN buffer : a < buffer[i]
      BY DEF OrderInv, BufferIsNewest
    <3> HIDE DEF e
    <3> QED BY <2>1, <2>2, <3>1, <3>2, PushNewest DEF BufferIsNewest
  <2> HIDE DEF e
  <2>10. Based' /\ Owned' /\ SourceOrder'
    BY <1>0, <2>1, <2>5, <2>6, <2>7, <2>8, BroadcastOrder
  <2> QED BY <1>0, <2>9, <2>10 DEF OrderInv
<1>2. ASSUME NEW s \in Sources, SendReturns(s) PROVE OrderInv'
  <2> DEFINE e == current[s]
             T == targets[s]
  <2>1. /\ BroadcastOn(s, e, T) /\ task[s] = "sending"
        /\ UNCHANGED <<handled, archive, buffer, origin, endpoint, peer, joined>>
    BY <1>2 DEF SendReturns, eventVars
  <2>2. e \in archive /\ e \in Event /\ T \in SUBSET Conns /\ archive' = archive \cup {e}
    BY <1>0, <2>1 DEF Inv, Targeted, TypeInv, TypeOK
  <2>3. BroadcastFacts(s, e, T)
    BY <1>0, <2>1, <2>2, BroadcastEffect
  <2>4. \A c \in T : endpoint[c] \notin {"new", "accepting"} /\ e \notin Sent(c)
    BY <1>0, <2>1, <2>2 DEF Inv, Untouched, Targeted
  <2>5. wire' = wire \/ \E c \in Conns : Wrote(c, e) /\ e \notin Sent(c)
    BY <1>0, <2>2, <2>3, <2>4, BroadcastWrites
  <2>6. /\ current'[s] = e /\ \A t \in Sources \ {s} : current'[t] = current[t]
        /\ \A t \in Sources \ {s} : task'[t] = task[t]
    BY <2>3 DEF BroadcastFacts
  <2>7. \A t \in Sources \ {s} : task[t] = "sending" => current[t] # e
    BY <1>0, <2>1 DEF Inv, Targeted
  <2>8. /\ origin'[e] = s /\ \A f \in archive : origin'[f] = origin[f]
        /\ \A f \in archive \ {e} : origin[f] = s => f < e
    <3>1. \A f \in archive : origin[f] = s => f <= e
      BY DEF OrderInv, Owned
    <3>2. \A f \in archive : f \in Nat
      BY <1>a
    <3> QED BY <2>1, <2>2, <3>1, <3>2 DEF OrderInv, Owned
  <2>9. BufferIsNewest'
    BY <2>1 DEF OrderInv, BufferIsNewest
  <2> HIDE DEF e, T
  <2>10. Based' /\ Owned' /\ SourceOrder'
    BY <1>0, <2>1, <2>2, <2>5, <2>6, <2>7, <2>8, BroadcastOrder
  <2> QED BY <1>0, <2>9, <2>10 DEF OrderInv
<1>3. ASSUME NEW s \in Sources, StoreFails(s) PROVE OrderInv'
  <2>1. \A e \in archive : origin'[e] = origin[e]
    BY <1>0, <1>a, <1>3 DEF StoreFails, TypeInv, TypeOK
  <2>2. UNCHANGED <<archive, buffer, wire, joined, current>>
    BY <1>3 DEF StoreFails
  <2>3. \A t \in Sources : task'[t] = "sending" => task[t] = "sending"
    BY <1>0, <1>3 DEF StoreFails, Leave, TypeInv, TypeOK
  <2> QED BY <1>0, <2>1, <2>2, <2>3, QuietOrder DEF OrderInv
<1>4. ASSUME NEW s \in Sources, SendRaises(s) PROVE OrderInv'
  <2>1. UNCHANGED <<archive, buffer, wire, joined, current, origin>>
    BY <1>4 DEF SendRaises, eventVars
  <2>2. \A t \in Sources : task'[t] = "sending" => task[t] = "sending"
    BY <1>0, <1>4 DEF SendRaises, Leave, TypeInv, TypeOK
  <2> QED BY <1>0, <2>1, <2>2, QuietOrder DEF OrderInv
<1>5. ASSUME NEW c \in Conns, Register(c) PROVE OrderInv'
  <2>1. /\ UNCHANGED <<archive, buffer, current, task, origin>>
        /\ joined' = [joined EXCEPT ![c] = handled]
    BY <1>5 DEF Register, eventVars, taskVars
  <2>2. wire[c] = <<>>
    BY <1>0, <1>5 DEF Register, Inv, Untouched
  <2>3. /\ \A d \in Conns \ {c} : wire'[d] = wire[d]
        /\ wire'[c] = <<>> \/ wire'[c] = <<ReplayFrame(buffer)>>
    BY <1>0, <1>5, <2>2 DEF Register, TypeInv, TypeOK
  <2>4. /\ \A i \in DOMAIN wire'[c] : i = 1
        /\ wire'[c] # <<>> => EventsOf(wire'[c][1]) \subseteq archive
    <3>1. wire'[c] # <<>> => EventsOf(wire'[c][1]) = Elements(buffer)
      BY <2>3, FrameEvents
    <3> QED BY <1>0, <2>3, <3>1 DEF Inv, ArchivedBeforeShown
  <2>5. BufferIsNewest'
    BY <2>1 DEF OrderInv, BufferIsNewest
  <2>6. Based'
    BY <1>0, <1>a, <2>1, <2>3, <2>4 DEF OrderInv, Based, TypeInv, TypeOK
  <2>7. Owned'
    BY <2>1, <2>3, <2>4 DEF OrderInv, Owned
  <2>8. SourceOrder'
    <3> SUFFICES ASSUME NEW d \in Conns, NEW i \in DOMAIN wire'[d], NEW j \in DOMAIN wire'[d],
                        1 < i, i < j,
                        NEW e \in EventsOf(wire'[d][i]), NEW f \in EventsOf(wire'[d][j]),
                        origin[e] = origin[f]
                 PROVE  e < f
      BY <2>1 DEF SourceOrder
    <3>1. d # c
      BY <2>4
    <3> QED BY <2>3, <3>1 DEF OrderInv, SourceOrder
  <2> QED BY <1>0, <2>5, <2>6, <2>7, <2>8 DEF OrderInv
<1>6. ASSUME NEW c \in Conns,
             Reject(c) \/ Accept(c) \/ ReplaySent(c) \/ ReplayRaises(c)
               \/ Disconnect(c) \/ PeerLost(c)
      PROVE  OrderInv'
  <2>1. UNCHANGED <<archive, buffer, wire, joined, current, origin, task>>
    BY <1>6 DEF Reject, Accept, ReplaySent, ReplayRaises, Disconnect, PeerLost,
                eventVars, taskVars
  <2> QED BY <1>0, <2>1, QuietOrder DEF OrderInv
<1>7. CASE UNCHANGED vars
  <2>1. UNCHANGED <<archive, buffer, wire, joined, current, origin, task>>
    BY <1>7 DEF vars, eventVars, taskVars
  <2> QED BY <1>0, <2>1, QuietOrder DEF OrderInv
<1> QED
  BY <1>1, <1>2, <1>3, <1>4, <1>5, <1>6, <1>7 DEF Next, SourceStep, EndpointStep

LEMMA OrderHolds == Spec => []OrderInv
BY OrderInit, OrderStep, PTL DEF Spec

(* The replay buffer is the newest part of the archive, oldest first.       *)
THEOREM BufferNewest == Spec => []BufferIsNewest
BY OrderHolds, PTL DEF OrderInv

(* The live events of one source arrive in the order it handled them.       *)
THEOREM OrderPerSource == Spec => []SourceOrder
BY OrderHolds, PTL DEF OrderInv

-----------------------------------------------------------------------------
(***************************************************************************)
(* The connection table: what disconnect() forgets, and what it may take.  *)
(***************************************************************************)

LEMMA BroadcastTable ==
  ASSUME NEW s \in Sources, NEW e, NEW T \in SUBSET registered, BroadcastOn(s, e, T)
  PROVE  /\ registered' \subseteq registered /\ failed \subseteq failed'
         /\ \A c \in registered \ registered' : peer[c] = "closed" \/ c \in failed
BY DEF BroadcastOn, WriteTo, FailAt, Refuses

LEMMA SendReturnsTable ==
  ASSUME NEW s \in Sources, SendReturns(s)
  PROVE  /\ registered' \subseteq registered /\ failed \subseteq failed'
         /\ \A c \in registered \ registered' : peer[c] = "closed" \/ c \in failed
BY DEF SendReturns, BroadcastOn, WriteTo, FailAt, Refuses

(* An entry left behind by an endpoint that ended refuses sends.            *)
THEOREM LeaksAreHarmless == Spec => []LeakIsHarmless
<1>1. Init => LeakIsHarmless
  BY DEF Init, LeakIsHarmless
<1>2. Inv /\ LeakIsHarmless /\ [Next]_vars => LeakIsHarmless'
  <2> SUFFICES ASSUME Inv, LeakIsHarmless, [Next]_vars PROVE LeakIsHarmless'
    OBVIOUS
  <2>0. TypeOK
    BY DEF Inv, TypeInv
  <2>1. ASSUME NEW s \in Sources, SourceStep(s) PROVE LeakIsHarmless'
    <3>1. registered' \subseteq registered /\ failed \subseteq failed'
      BY <2>1, BroadcastTable, SendReturnsTable
      DEF SourceStep, HandleEvent, StoreFails, SendRaises
    <3>2. endpoint' = endpoint
      BY <2>1 DEF SourceStep, HandleEvent, StoreFails, SendReturns, SendRaises
    <3> QED BY <3>1, <3>2 DEF LeakIsHarmless
  <2>2. ASSUME NEW c \in Conns, Register(c) \/ ReplayRaises(c) \/ ReplaySent(c)
        PROVE  LeakIsHarmless'
    BY <2>0, <2>2 DEF Register, ReplayRaises, ReplaySent, LeakIsHarmless, TypeOK
  <2>3. ASSUME NEW c \in Conns, Reject(c) \/ Accept(c) \/ PeerLost(c) \/ Disconnect(c)
        PROVE  LeakIsHarmless'
    BY <2>0, <2>3
    DEF Reject, Accept, PeerLost, Disconnect, Inv, Untouched, LeakIsHarmless, TypeOK
  <2>4. CASE UNCHANGED vars
    BY <2>4 DEF vars, LeakIsHarmless
  <2> QED BY <2>1, <2>2, <2>3, <2>4 DEF Next, EndpointStep
<1> QED BY <1>1, <1>2, InvHolds, PTL DEF Spec

(* disconnect() takes only websockets whose transport is known to be gone.  *)
THEOREM DropsOnlyTheDead == Spec => OnlyDeadAreDropped
<1>1. Inv /\ [Next]_vars =>
        [\A c \in registered \ registered' : peer'[c] = "closed" \/ c \in failed']_vars
  <2> SUFFICES ASSUME Inv, Next, NEW c \in registered \ registered'
               PROVE  peer'[c] = "closed" \/ c \in failed'
    OBVIOUS
  <2>0. TypeOK /\ c \in Conns
    BY DEF Inv, TypeInv, TypeOK
  <2>1. ASSUME NEW s \in Sources, HandleEvent(s) \/ SendReturns(s)
        PROVE  peer'[c] = "closed" \/ c \in failed'
    <3>1. (peer[c] = "closed" \/ c \in failed) /\ failed \subseteq failed'
      BY <2>1, BroadcastTable, SendReturnsTable DEF HandleEvent
    <3>2. peer' = peer
      BY <2>1 DEF HandleEvent, SendReturns
    <3> QED BY <3>1, <3>2
  <2>2. ASSUME NEW s \in Sources, StoreFails(s) \/ SendRaises(s) PROVE FALSE
    BY <2>2 DEF StoreFails, SendRaises
  <2>3. ASSUME NEW d \in Conns, Disconnect(d) PROVE peer'[c] = "closed" \/ c \in failed'
    BY <2>0, <2>3 DEF Disconnect, TypeOK
  <2>4. ASSUME NEW d \in Conns,
               Reject(d) \/ Accept(d) \/ Register(d) \/ ReplaySent(d) \/ ReplayRaises(d)
                 \/ PeerLost(d)
        PROVE  FALSE
    BY <2>4 DEF Reject, Accept, Register, ReplaySent, ReplayRaises, PeerLost
  <2> QED BY <2>1, <2>2, <2>3, <2>4 DEF Next, SourceStep, EndpointStep
<1> QED BY <1>1, InvHolds, PTL DEF Spec, OnlyDeadAreDropped

(* Where a broadcast stands after a step of it at websocket copy T: it is   *)
(* over, or it awaits a member of T that is no longer in the rest.          *)
LEMMA BroadcastMoves ==
  ASSUME TypeOK, NEW s \in Sources, NEW e, NEW T \in SUBSET Conns, BroadcastOn(s, e, T),
         task'[s] = "sending"
  PROVE  /\ current'[s] = e
         /\ targets'[s] \subseteq T
         /\ awaiting'[s] \in T \ targets'[s]
<1>1. PICK met \in SUBSET {c \in T : Refuses(c)} :
        /\ current' = [current EXCEPT ![s] = e]
        /\ \/ T = met /\ Leave(s, FALSE) /\ UNCHANGED <<wire, failed, aborted>>
           \/ \E c \in T \ met :
                /\ ~ Refuses(c)
                /\ WriteTo(s, e, c, (T \ met) \ {c}) \/ FailAt(s, e, c)
  BY DEF BroadcastOn
<1>2. /\ current \in [Sources -> 0 .. MaxEvents]
      /\ task \in [Sources -> {"idle", "sending", "raised"}]
      /\ targets \in [Sources -> SUBSET Conns]
      /\ awaiting \in [Sources -> Conns \cup {NoConn}]
  BY DEF TypeOK
<1>3. \A raised \in BOOLEAN : ~ Leave(s, raised)
  BY <1>2 DEF Leave
<1>4. PICK c \in T \ met : WriteTo(s, e, c, (T \ met) \ {c})
  BY <1>1, <1>3 DEF FailAt
<1>5. targets'[s] = (T \ met) \ {c} /\ awaiting'[s] = c
  BY <1>2, <1>4 DEF WriteTo
<1> QED BY <1>1, <1>2, <1>5

(* Only its own steps move a broadcast.                                     *)
LEMMA OthersStandStill ==
  ASSUME TypeOK, NEW s \in Sources, NEW t \in Sources \ {s}, SourceStep(s)
  PROVE  current'[t] = current[t] /\ targets'[t] = targets[t] /\ awaiting'[t] = awaiting[t]
<1>1. /\ current \in [Sources -> 0 .. MaxEvents]
      /\ targets \in [Sources -> SUBSET Conns]
      /\ awaiting \in [Sources -> Conns \cup {NoConn}]
  BY DEF TypeOK
<1>2. \A raised \in BOOLEAN : Leave(s, raised) =>
        targets'[t] = targets[t] /\ awaiting'[t] = awaiting[t]
  BY <1>1 DEF Leave
<1>3. ASSUME NEW e, NEW T, BroadcastOn(s, e, T)
      PROVE  current'[t] = current[t] /\ targets'[t] = targets[t] /\ awaiting'[t] = awaiting[t]
  <2>1. current'[t] = current[t]
    BY <1>1, <1>3 DEF BroadcastOn
  <2>2. \/ Leave(s, FALSE)
        \/ \E c \in T, rest \in SUBSET T : WriteTo(s, e, c, rest)
        \/ Leave(s, TRUE)
    BY <1>3 DEF BroadcastOn, FailAt
  <2>3. ASSUME NEW c \in T, NEW rest \in SUBSET T, WriteTo(s, e, c, rest)
        PROVE  targets'[t] = targets[t] /\ awaiting'[t] = awaiting[t]
    BY <1>1, <2>3 DEF WriteTo
  <2> QED BY <1>2, <2>1, <2>2, <2>3
<1>4. HandleEvent(s) \/ SendReturns(s) => \E e, T : BroadcastOn(s, e, T)
  BY DEF HandleEvent, SendReturns
<1>5. StoreFails(s) \/ SendRaises(s) => Leave(s, TRUE) /\ current' = current
  BY DEF StoreFails, SendRaises
<1> QED BY <1>2, <1>3, <1>4, <1>5 DEF SourceStep

(* A broadcast only goes forward over the copy of the table it took.        *)
THEOREM BroadcastsAdvance == Spec => BroadcastAdvances
<1> DEFINE Advance(s) ==
      /\ current'[s] = current[s]
      /\ awaiting'[s] # awaiting[s] \/ targets'[s] # targets[s] =>
           /\ targets'[s] \subseteq targets[s]
           /\ awaiting'[s] \in targets[s] \ targets'[s]
<1>1. Inv /\ [Next]_vars =>
        [\A s \in Sources : task[s] = "sending" /\ task'[s] = "sending" => Advance(s)]_vars
  <2> SUFFICES ASSUME Inv, Next, NEW s \in Sources, task[s] = "sending", task'[s] = "sending"
               PROVE  Advance(s)
    OBVIOUS
  <2>0. TypeOK
    BY DEF Inv, TypeInv
  <2>1. CASE SourceStep(s)
    <3>1. SendReturns(s) \/ SendRaises(s)
      BY <2>1 DEF SourceStep, HandleEvent, StoreFails
    <3>2. CASE SendReturns(s)
      <4>1. BroadcastOn(s, current[s], targets[s]) /\ targets[s] \in SUBSET Conns
        BY <2>0, <3>2 DEF SendReturns, TypeOK
      <4> QED BY <2>0, <4>1, BroadcastMoves
    <3>3. ~ SendRaises(s)
      BY <2>0 DEF SendRaises, Leave, TypeOK
    <3> QED BY <3>1, <3>2, <3>3
  <2>2. ASSUME NEW t \in Sources \ {s}, SourceStep(t) PROVE Advance(s)
    <3>1. s \in Sources \ {t}
      BY <2>2
    <3> QED BY <2>0, <2>2, <3>1, OthersStandStill
  <2>3. ASSUME NEW c \in Conns, EndpointStep(c) PROVE Advance(s)
    BY <2>3 DEF EndpointStep, Reject, Accept, Register, ReplaySent, ReplayRaises,
                Disconnect, PeerLost, taskVars
  <2> QED BY <2>1, <2>2, <2>3 DEF Next
<1> QED BY <1>1, InvHolds, PTL DEF Spec, BroadcastAdvances

-----------------------------------------------------------------------------
(***************************************************************************)
(* The refinement.  A broadcast step that writes event e to a websocket is *)
(* Publish(e) if it begins the broadcast and Show(c, e) if it goes on with *)
(* it; Register on an open transport is Join; all other steps stutter.     *)
(***************************************************************************)

LEMMA PromiseInit == Init => Promise!Init
BY DEF Init, Promise!Init

LEMMA WrittenIsNews ==
  ASSUME OrderInv, NEW c \in Conns, NEW e \in Event, Wrote(c, e), e \notin Sent(c),
         \A f \in EventsOf(wire[c][1]) : f < e
  PROVE  /\ Promise!IsNews(c, e)
         /\ wire' = [wire EXCEPT ![c] = Append(@, Promise!Live(e))]
<1>1. Promise!Live(e) = EventFrame(e)
  BY DEF Promise!Live, EventFrame
<1>2. Promise!Shown(c) = Sent(c) /\ Promise!Elements(wire[c][1].events) = EventsOf(wire[c][1])
  BY DEF Promise!Shown, Promise!Elements, Sent, EventsOf, Elements
<1> QED BY <1>1, <1>2 DEF Wrote, Promise!IsNews

LEMMA PromiseStep ==
  OrderInv /\ OrderInv' /\ [Next]_vars => [Promise!Next]_<<archive, wire>>
<1> SUFFICES ASSUME OrderInv, OrderInv', [Next]_vars
             PROVE  Promise!Next \/ UNCHANGED <<archive, wire>>
  OBVIOUS
<1>0. Inv /\ TypeInv /\ TypeInv'
  BY DEF OrderInv, Inv
<1>a. /\ handled \in Nat /\ \A c \in Conns : joined[c] \in Nat /\ joined[c] <= handled
      /\ \A f \in archive : f \in 1 .. handled /\ f \in Event /\ f \in Nat
  BY <1>0 DEF Inv, Numbered, TypeInv, TypeOK, Event
<1>1. ASSUME NEW s \in Sources, HandleEvent(s) PROVE Promise!Next
  <2> DEFINE e == handled + 1
  <2>1. /\ BroadcastOn(s, e, registered) /\ e \in Event /\ registered \in SUBSET Conns
        /\ archive' = archive \cup {e}
    BY <1>0, <1>1, NextNumber DEF HandleEvent, TypeInv, TypeOK
  <2>2. \A f \in archive : f < e /\ f # e
    BY <1>a
  <2>3. BroadcastFacts(s, e, registered)
    BY <1>0, <2>1, BroadcastEffect
  <2>4. \A c \in registered : endpoint[c] \notin {"new", "accepting"}
    BY <1>0, <2>1 DEF Inv, Untouched
  <2>5. wire' = wire \/ \E c \in Conns : Wrote(c, e) /\ e \notin Sent(c)
    BY <1>0, <2>1, <2>2, <2>3, <2>4, BroadcastWrites DEF Inv, ArchivedBeforeShown
  <2>6. \A c \in Conns : wire[c] # <<>> => \A f \in EventsOf(wire[c][1]) : f < e
    <3> SUFFICES ASSUME NEW c \in Conns, wire[c] # <<>>, NEW f \in EventsOf(wire[c][1])
                 PROVE  f < e
      OBVIOUS
    <3>1. 1 \in DOMAIN wire[c]
      BY <1>0 DEF TypeInv, TypeOK
    <3>2. f \in archive
      BY <1>0, <3>1 DEF Inv, ArchivedBeforeShown, Sent
    <3> QED BY <2>2, <3>2
  <2> HIDE DEF e
  <2>7. Promise!Publish(e)
    <3>1. \A c \in Conns : Wrote(c, e) => wire[c] # <<>>
      BY DEF Wrote
    <3>2. UNCHANGED wire \/ \E c \in Conns :
            Promise!IsNews(c, e) /\ wire' = [wire EXCEPT ![c] = Append(@, Promise!Live(e))]
      BY <2>1, <2>5, <2>6, <3>1, WrittenIsNews
    <3> QED BY <2>1, <2>2, <3>2 DEF Promise!Publish
  <2> QED BY <2>1, <2>7 DEF Promise!Next, Promise!Event, Event
<1>2. ASSUME NEW s \in Sources, SendReturns(s) PROVE Promise!Next \/ UNCHANGED <<archive, wire>>
  <2> DEFINE e == current[s]
             T == targets[s]
  <2>1. BroadcastOn(s, e, T) /\ task[s] = "sending" /\ archive' = archive
    BY <1>2 DEF SendReturns, eventVars
  <2>2. e \in archive /\ e \in Event /\ T \in SUBSET Conns
    BY <1>0, <2>1 DEF Inv, Targeted, TypeInv, TypeOK
  <2>3. BroadcastFacts(s, e, T)
    BY <1>0, <2>1, <2>2, BroadcastEffect
  <2>4. \A c \in T : /\ endpoint[c] \notin {"new", "accepting"}
                     /\ joined[c] < e /\ e \notin Sent(c)
    BY <1>0, <2>1, <2>2 DEF Inv, Untouched, Targeted
  <2>5. wire' = wire \/ \E c \in T : Wrote(c, e)
    BY <1>0, <2>2, <2>3, <2>4, BroadcastWrites
  <2>6. \A c \in T : wire[c] # <<>> => \A f \in EventsOf(wire[c][1]) : f < e
    <3> SUFFICES ASSUME NEW c \in T, wire[c] # <<>>, NEW f \in EventsOf(wire[c][1])
                 PROVE  f < e
      OBVIOUS
    <3>1. c \in Conns /\ f <= joined[c] /\ joined[c] < e
      BY <2>2, <2>4 DEF OrderInv, Based
    <3>2. 1 \in DOMAIN wire[c]
      BY <1>0, <3>1 DEF TypeInv, TypeOK
    <3>3. f \in archive
      BY <1>0, <3>1, <3>2 DEF Inv, ArchivedBeforeShown, Sent
    <3> QED BY <1>a, <2>2, <3>1, <3>3
  <2> HIDE DEF e, T
  <2>7. ASSUME NEW c \in T, Wrote(c, e) PROVE Promise!Show(c, e)
    <3>1. c \in Conns /\ wire[c] # <<>>
      BY <2>2, <2>7 DEF Wrote
    <3>2. Promise!IsNews(c, e) /\ wire' = [wire EXCEPT ![c] = Append(@, Promise!Live(e))]
      BY <2>2, <2>4, <2>6, <2>7, <3>1, WrittenIsNews
    <3> QED BY <2>1, <2>2, <3>2 DEF Promise!Show
  <2> QED BY <2>1, <2>2, <2>5, <2>7 DEF Promise!Next, Promise!Event, Event
<1>3. ASSUME NEW s \in Sources, StoreFails(s) \/ SendRaises(s) PROVE UNCHANGED <<archive, wire>>
  BY <1>3 DEF StoreFails, SendRaises, eventVars
<1>4. ASSUME NEW c \in Conns, Register(c) PROVE Promise!Next \/ UNCHANGED <<archive, wire>>
  <2>1. archive' = archive /\ wire[c] = <<>>
    BY <1>0, <1>4 DEF Register, eventVars, Inv, Untouched
  <2>2. CASE wire' = [wire EXCEPT ![c] = Append(@, ReplayFrame(buffer))]
    <3>1. wire' = [wire EXCEPT ![c] = <<[type |-> "replay", events |-> buffer]>>]
      BY <1>0, <2>1, <2>2 DEF ReplayFrame, TypeInv, TypeOK
    <3>2. /\ buffer \in Seq(Event) /\ Len(buffer) \in 0 .. MaxLen
          /\ buffer \in [1 .. Len(buffer) -> Event]
      BY <1>0, MaxLenAssumption DEF TypeInv, TypeOK
    <3>3. Promise!IsNewest(buffer)
      <4>1. Len(buffer) <= MaxLen /\ Elements(buffer) \subseteq archive
        BY <1>0 DEF Inv, ArchivedBeforeShown, TypeInv, TypeOK
      <4>2. /\ \A i, j \in DOMAIN buffer : i < j => buffer[i] < buffer[j]
            /\ \A e \in archive \ Elements(buffer) :
                 Len(buffer) = MaxLen /\ \A i \in DOMAIN buffer : e < buffer[i]
        BY DEF OrderInv, BufferIsNewest
      <4>3. Promise!Elements(buffer) = Elements(buffer)
        BY DEF Promise!Elements, Elements
      <4> QED BY <4>1, <4>2, <4>3 DEF Promise!IsNewest
    <3>4. Promise!Join(c)
      BY <2>1, <3>1, <3>2, <3>3 DEF Promise!Join, Promise!Event, Event
    <3> QED BY <3>4 DEF Promise!Next
  <2>3. CASE UNCHANGED wire
    BY <2>1, <2>3
  <2> QED BY <1>4, <2>2, <2>3 DEF Register
<1>5. ASSUME NEW c \in Conns,
             Reject(c) \/ Accept(c) \/ ReplaySent(c) \/ ReplayRaises(c)
               \/ Disconnect(c) \/ PeerLost(c)
      PROVE  UNCHANGED <<archive, wire>>
  BY <1>5 DEF Reject, Accept, ReplaySent, ReplayRaises, Disconnect, PeerLost,
              eventVars, taskVars
<1>6. CASE UNCHANGED vars
  BY <1>6 DEF vars, eventVars
<1> QED
  BY <1>1, <1>2, <1>3, <1>4, <1>5, <1>6 DEF Next, SourceStep, EndpointStep

(* The service implements ReplayThenLive for every browser.                 *)
THEOREM KeepsPromise == Spec => ReplayThenLive
<1>1. Init => Promise!Init
  BY PromiseInit
<1>2. OrderInv /\ OrderInv' /\ [Next]_vars => [Promise!Next]_<<archive, wire>>
  BY PromiseStep
<1> QED BY <1>1, <1>2, OrderHolds, PTL DEF Spec, ReplayThenLive, Promise!Spec
=============================================================================
