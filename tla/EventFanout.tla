----------------------------- MODULE EventFanout -----------------------------
(***************************************************************************)
(* How one normalized event reaches the archive, the replay buffer and the *)
(* connected browsers: handle_event, EventBuffer, ConnectionManager and    *)
(* the /ws/dashboard endpoint of dashboard_service/main.py.                *)
(*                                                                         *)
(* Everything runs on one asyncio event loop, so an action below is the    *)
(* code between two suspension points.  Two kinds of task interleave:      *)
(*   - a source: a caller of handle_event, either the Redis subscriber     *)
(*     task or a client that posts to /api/dev/events one event at a time; *)
(*   - an endpoint: one coroutine per websocket.                           *)
(*                                                                         *)
(* Events are numbered in the order handle_event starts working on them.   *)
(* What an event contains, and what each role sees of it, is left out.     *)
(***************************************************************************)
EXTENDS Naturals, Sequences

CONSTANTS
  Conns,      \* websockets; each is opened at most once
  Sources,    \* callers of handle_event
  Subscriber, \* the source that is the Redis subscriber task, if there is one
  MaxLen,     \* settings.replay_buffer_size
  MaxEvents,  \* bound of the model: how many events are ever handled
  NoConn,     \* awaited by a source that is not in a send
  NoSource    \* origin of an event restored from the archive at start-up

ASSUME MaxLenAssumption == MaxLen \in Nat \ {0}
ASSUME MaxEventsAssumption == MaxEvents \in Nat
ASSUME NoConnAssumption == NoConn \notin Conns
ASSUME NoSourceAssumption == NoSource \notin Sources

Event == 1 .. MaxEvents

VARIABLES
  handled,     \* number of events handle_event has begun to handle
  archive,     \* events committed to the SQLite store
  buffer,      \* EventBuffer._events, oldest first
  registered,  \* keys of ConnectionManager._connections
  endpoint,    \* where the coroutine of each websocket is
  peer,        \* the transport: "open", "lost" (a send would find the browser
               \* gone, receive_text has not yet) or "closed" (it has)
  failed,      \* websockets whose send failed: Starlette refuses further ones
  wire,        \* frames written to each websocket
  task,        \* each source: "idle", "sending", or "raised" for good
  current,     \* the event a source last broadcast
  targets,     \* the rest of the list(...) copy broadcast iterates over
  awaiting,    \* the websocket whose send_json a source awaits
  joined,      \* history: value of handled when a websocket was registered
  origin,      \* history: the source of each event
  aborted      \* history: events whose broadcast an exception cut short

eventVars == <<handled, archive, buffer, origin>>
taskVars == <<task, current, targets, awaiting, aborted>>
vars == <<eventVars, taskVars, registered, endpoint, peer, failed, wire, joined>>

ReplayFrame(events) == [type |-> "replay", events |-> events]
EventFrame(e) == [type |-> "event", events |-> <<e>>]
Frame == [type : {"replay", "event"}, events : Seq(Event)]

\* The events of a sequence, of a frame, and of all that a websocket was sent.
Elements(seq) == {seq[i] : i \in DOMAIN seq}
EventsOf(frame) == Elements(frame.events)
Sent(c) == UNION {EventsOf(wire[c][i]) : i \in DOMAIN wire[c]}

-----------------------------------------------------------------------------
\* create_app on an archive of k <= MaxLen events: the buffer starts with them.
Init ==
  /\ \E k \in 0 .. MaxLen :
       /\ k <= MaxEvents
       /\ handled = k
       /\ archive = 1 .. k
       /\ buffer = [i \in 1 .. k |-> i]
  /\ registered = {}
  /\ endpoint = [c \in Conns |-> "new"]
  /\ peer = [c \in Conns |-> "open"]
  /\ failed = {}
  /\ wire = [c \in Conns |-> <<>>]
  /\ task = [s \in Sources |-> "idle"]
  /\ current = [s \in Sources |-> 0]
  /\ targets = [s \in Sources |-> {}]
  /\ awaiting = [s \in Sources |-> NoConn]
  /\ joined = [c \in Conns |-> 0]
  /\ origin = [e \in Event |-> NoSource]
  /\ aborted = {}

-----------------------------------------------------------------------------
(* EventBuffer.add: a deque with maxlen drops its oldest element.           *)
PushUnbounded(events, e) == Append(events, e)
Push(events, e) ==
  IF Len(events) < MaxLen THEN Append(events, e) ELSE Append(Tail(events), e)

(* send_json raises RuntimeError without suspending: Starlette after an     *)
(* earlier failed send, uvicorn once the close handshake is over.           *)
Refuses(c) == c \in failed \/ peer[c] = "closed"

(* Source s leaves handle_event, with an exception or without one.  An      *)
(* exception ends the subscriber task; a poster gets a 500 and may go on.   *)
Leave(s, raised) ==
  /\ task' = [task EXCEPT ![s] = IF raised /\ s = Subscriber THEN "raised" ELSE "idle"]
  /\ targets' = [targets EXCEPT ![s] = {}]
  /\ awaiting' = [awaiting EXCEPT ![s] = NoConn]

(* One turn of the loop of broadcast(e) at websocket c, which does not      *)
(* refuse: the frame is written and the send awaited, or the transport is   *)
(* lost and WebSocketDisconnect, which broadcast does not catch, is raised. *)
WriteTo(s, e, c, rest) ==
  /\ peer[c] = "open"
  /\ wire' = [wire EXCEPT ![c] = Append(@, EventFrame(e))]
  /\ task' = [task EXCEPT ![s] = "sending"]
  /\ targets' = [targets EXCEPT ![s] = rest]
  /\ awaiting' = [awaiting EXCEPT ![s] = c]
  /\ UNCHANGED <<failed, aborted>>
FailAt(s, e, c) ==
  /\ peer[c] = "lost"
  /\ failed' = failed \cup {c}
  /\ aborted' = aborted \cup {e}
  /\ Leave(s, TRUE)
  /\ UNCHANGED wire

(* A plausible bug: a client that another broadcast still waits for is taken*)
(* for dead.                                                                *)
BroadcastOnImpatient(s, e, T) ==
  \E met \in SUBSET {c \in T : Refuses(c) \/ \E t \in Sources \ {s} : awaiting[t] = c} :
    /\ registered' = registered \ met
    /\ current' = [current EXCEPT ![s] = e]
    /\ \/ T = met /\ Leave(s, FALSE) /\ UNCHANGED <<wire, failed, aborted>>
       \/ \E c \in T \ met :
            /\ ~ Refuses(c)
            /\ WriteTo(s, e, c, (T \ met) \ {c}) \/ FailAt(s, e, c)

(* broadcast(e) over the remaining copy T, up to its next suspension: the   *)
(* refusing websockets it meets first are disconnected, then it is over or  *)
(* takes a turn at c.  The order of iteration is left open.                 *)
BroadcastOn(s, e, T) ==
  \E met \in SUBSET {c \in T : Refuses(c)} :
    /\ registered' = registered \ met
    /\ current' = [current EXCEPT ![s] = e]
    /\ \/ T = met /\ Leave(s, FALSE) /\ UNCHANGED <<wire, failed, aborted>>
       \/ \E c \in T \ met :
            /\ ~ Refuses(c)
            /\ WriteTo(s, e, c, (T \ met) \ {c}) \/ FailAt(s, e, c)

(* A plausible bug: a broadcast is skipped while another one is under way.  *)
HandleEventIfQuiet(s) ==
  LET e == handled + 1 IN
  /\ task[s] = "idle"
  /\ handled < MaxEvents
  /\ handled' = e
  /\ archive' = archive \cup {e}
  /\ buffer' = Push(buffer, e)
  /\ origin' = [origin EXCEPT ![e] = s]
  /\ BroadcastOn(s, e, IF \E t \in Sources : task[t] = "sending" THEN {} ELSE registered)
  /\ UNCHANGED <<endpoint, peer, joined>>

(* handle_event: archive, buffer, and broadcast up to its first suspension. *)
HandleEvent(s) ==
  LET e == handled + 1 IN
  /\ task[s] = "idle"
  /\ handled < MaxEvents
  /\ handled' = e
  /\ archive' = archive \cup {e}
  /\ buffer' = Push(buffer, e)
  /\ origin' = [origin EXCEPT ![e] = s]
  /\ BroadcastOn(s, e, registered)
  /\ UNCHANGED <<endpoint, peer, joined>>

(* The store raises (disk full, database locked): nothing else happens.     *)
StoreFails(s) ==
  /\ task[s] = "idle"
  /\ handled < MaxEvents
  /\ handled' = handled + 1
  /\ origin' = [origin EXCEPT ![handled + 1] = s]
  /\ Leave(s, TRUE)
  /\ UNCHANGED <<archive, buffer, registered, endpoint, peer, failed, wire,
                 current, joined, aborted>>

(* Plausible bugs: the event is kept in an attribute that a later broadcast *)
(* overwrites; a broadcast goes on only when it is the only one; the loop is*)
(* over the dict itself and not over a copy of it.                          *)
SendReturnsLatest(s) ==
  /\ task[s] = "sending"
  /\ BroadcastOn(s, handled, targets[s])
  /\ UNCHANGED <<eventVars, endpoint, peer, joined>>
SendReturnsAlone(s) ==
  /\ task[s] = "sending"
  /\ \A t \in Sources \ {s} : task[t] # "sending"
  /\ BroadcastOn(s, current[s], targets[s])
  /\ UNCHANGED <<eventVars, endpoint, peer, joined>>

SendReturnsLive(s) ==
  /\ task[s] = "sending"
  /\ BroadcastOn(s, current[s], registered \ {awaiting[s]})
  /\ UNCHANGED <<eventVars, endpoint, peer, joined>>

(* The awaited send returns and the loop of broadcast goes on.              *)
SendReturns(s) ==
  /\ task[s] = "sending"
  /\ BroadcastOn(s, current[s], targets[s])
  /\ UNCHANGED <<eventVars, endpoint, peer, joined>>

(* The transport went away while the send was suspended.                    *)
SendRaises(s) ==
  LET c == awaiting[s] IN
  /\ task[s] = "sending"
  /\ peer[c] # "open"
  /\ failed' = failed \cup {c}
  /\ aborted' = aborted \cup {current[s]}
  /\ Leave(s, TRUE)
  /\ UNCHANGED <<eventVars, registered, endpoint, peer, wire, current, joined>>

-----------------------------------------------------------------------------
(* dashboard_socket with a token that resolves to no role: close and return.*)
Reject(c) ==
  /\ endpoint[c] = "new"
  /\ endpoint' = [endpoint EXCEPT ![c] = "gone"]
  /\ peer' = [peer EXCEPT ![c] = "closed"]
  /\ UNCHANGED <<eventVars, taskVars, registered, failed, wire, joined>>

(* A plausible bug: connect registers before it awaits the accept.          *)
AcceptRegistered(c) ==
  /\ endpoint[c] = "new"
  /\ endpoint' = [endpoint EXCEPT ![c] = "accepting"]
  /\ registered' = registered \cup {c}
  /\ joined' = [joined EXCEPT ![c] = handled]
  /\ UNCHANGED <<eventVars, taskVars, peer, failed, wire>>

(* A token with a role: connect awaits the accept.                          *)
Accept(c) ==
  /\ endpoint[c] = "new"
  /\ endpoint' = [endpoint EXCEPT ![c] = "accepting"]
  /\ UNCHANGED <<eventVars, taskVars, registered, peer, failed, wire, joined>>

(* The accept returned.  connect registers the websocket, takes the         *)
(* snapshot and writes the replay frame without suspending in between; on a *)
(* lost transport the send raises and, as connect is called outside the     *)
(* try, the endpoint ends with its dict entry left behind.                  *)
Register(c) ==
  /\ endpoint[c] = "accepting"
  /\ registered' = registered \cup {c}
  /\ joined' = [joined EXCEPT ![c] = handled]
  /\ \/ /\ peer[c] = "open"
        /\ wire' = [wire EXCEPT ![c] = Append(@, ReplayFrame(buffer))]
        /\ endpoint' = [endpoint EXCEPT ![c] = "replaying"]
        /\ UNCHANGED failed
     \/ /\ peer[c] = "lost"
        /\ endpoint' = [endpoint EXCEPT ![c] = "gone"]
        /\ failed' = failed \cup {c}
        /\ UNCHANGED wire
  /\ UNCHANGED <<eventVars, taskVars, peer>>

(* A plausible bug: the endpoint returns after connect.                     *)
ReplaySentAndDone(c) ==
  /\ endpoint[c] = "replaying"
  /\ endpoint' = [endpoint EXCEPT ![c] = "gone"]
  /\ UNCHANGED <<eventVars, taskVars, registered, peer, failed, wire, joined>>

(* The send of the replay returns; the endpoint waits in receive_text, which*)
(* raises RuntimeError at once if a broadcast's send failed in the meantime.*)
ReplaySent(c) ==
  /\ endpoint[c] = "replaying"
  /\ endpoint' = [endpoint EXCEPT ![c] = IF c \in failed THEN "gone" ELSE "serving"]
  /\ UNCHANGED <<eventVars, taskVars, registered, peer, failed, wire, joined>>

(* ... or raises, which again leaves the dict entry behind.                 *)
ReplayRaises(c) ==
  /\ endpoint[c] = "replaying"
  /\ peer[c] = "lost"
  /\ endpoint' = [endpoint EXCEPT ![c] = "gone"]
  /\ failed' = failed \cup {c}
  /\ UNCHANGED <<eventVars, taskVars, registered, peer, wire, joined>>

(* receive_text raises WebSocketDisconnect: ConnectionManager.disconnect.   *)
Disconnect(c) ==
  /\ endpoint[c] = "serving"
  /\ peer[c] = "lost"
  /\ endpoint' = [endpoint EXCEPT ![c] = "gone"]
  /\ peer' = [peer EXCEPT ![c] = "closed"]
  /\ registered' = registered \ {c}
  /\ UNCHANGED <<eventVars, taskVars, failed, wire, joined>>

(* The browser closes its websocket, reloads, or its network goes away.     *)
PeerLost(c) ==
  /\ endpoint[c] \in {"accepting", "replaying", "serving"}
  /\ peer[c] = "open"
  /\ peer' = [peer EXCEPT ![c] = "lost"]
  /\ UNCHANGED <<eventVars, taskVars, registered, endpoint, failed, wire, joined>>

-----------------------------------------------------------------------------
SourceStep(s) == HandleEvent(s) \/ StoreFails(s) \/ SendReturns(s) \/ SendRaises(s)
EndpointStep(c) == Reject(c) \/ Accept(c) \/ Register(c) \/ ReplaySent(c)
                     \/ ReplayRaises(c) \/ Disconnect(c) \/ PeerLost(c)

Next == (\E s \in Sources : SourceStep(s)) \/ (\E c \in Conns : EndpointStep(c))

(* An awaited send comes to an end: the browser takes the data, or uvicorn's*)
(* keepalive gives the transport up.  Nobody owes an event or a connection. *)
Fairness == \A s \in Sources : WF_vars(SendReturns(s) \/ SendRaises(s))

Spec == Init /\ [][Next]_vars
FairSpec == Spec /\ Fairness

-----------------------------------------------------------------------------
(* Types, the only property that is about single variables.                 *)
TypeOK ==
  /\ handled \in 0 .. MaxEvents
  /\ archive \in SUBSET Event
  /\ buffer \in Seq(Event) /\ Len(buffer) <= MaxLen
  /\ registered \in SUBSET Conns
  /\ endpoint \in [Conns -> {"new", "accepting", "replaying", "serving", "gone"}]
  /\ peer \in [Conns -> {"open", "lost", "closed"}]
  /\ failed \in SUBSET Conns
  /\ wire \in [Conns -> Seq(Frame)]
  /\ task \in [Sources -> {"idle", "sending", "raised"}]
  /\ current \in [Sources -> 0 .. MaxEvents]
  /\ targets \in [Sources -> SUBSET Conns]
  /\ awaiting \in [Sources -> Conns \cup {NoConn}]
  /\ joined \in [Conns -> 0 .. MaxEvents]
  /\ origin \in [Event -> Sources \cup {NoSource}]
  /\ aborted \in SUBSET Event

\* Event e is still ahead of websocket c in some broadcast that is under way.
Pending(c, e) == \E s \in Sources :
  task[s] = "sending" /\ current[s] = e /\ c \in targets[s]

(* Nothing is shown before it is archived: what a browser was sent, what the*)
(* next replay would send and what is being broadcast are all rows of the   *)
(* store (handle_event calls event_store.add first).                        *)
ArchivedBeforeShown ==
  /\ Elements(buffer) \subseteq archive
  /\ \A c \in Conns : Sent(c) \subseteq archive
  /\ \A s \in Sources : task[s] = "sending" => current[s] \in archive

(* A browser's stream is one replay frame and then only live events: app.js *)
(* replaces its whole state on a replay, so a live event written before the *)
(* replay frame would be lost.                                              *)
ReplayComesFirst ==
  \A c \in Conns : \A i \in DOMAIN wire[c] : wire[c][i].type = "replay" <=> i = 1

(* No event reaches a browser twice, neither live after it was replayed nor *)
(* by two turns of a broadcast (connect takes the snapshot in the same      *)
(* uninterrupted stretch of code that registers the websocket).             *)
ShownOnce ==
  \A c \in Conns : \A i, j \in DOMAIN wire[c] :
    i # j => EventsOf(wire[c][i]) \cap EventsOf(wire[c][j]) = {}

(* No event falls between the replay and the live stream: whatever was      *)
(* archived after a websocket registered was sent to it, is still to be     *)
(* sent by a broadcast under way, or belongs to a broadcast that ended with *)
(* an exception.                                                            *)
NothingMissed ==
  \A c \in registered \ failed : \A e \in archive :
    e > joined[c] => e \in Sent(c) \/ Pending(c, e) \/ e \in aborted

(* The replay buffer is the newest part of the archive, in order: it leaves *)
(* an archived event out only when it is full of newer ones.                *)
BufferIsNewest ==
  /\ \A i, j \in DOMAIN buffer : i < j => buffer[i] < buffer[j]
  /\ \A e \in archive \ Elements(buffer) :
       Len(buffer) = MaxLen /\ \A i \in DOMAIN buffer : e < buffer[i]

(* The live events of one source reach every browser in the order that      *)
(* source handled them, whatever other sources and slow browsers do.        *)
SourceOrder ==
  \A c \in Conns : \A i, j \in DOMAIN wire[c] : 1 < i /\ i < j =>
    \A e \in EventsOf(wire[c][i]), f \in EventsOf(wire[c][j]) :
      origin[e] = origin[f] => e < f

(* An endpoint that ended without disconnect() leaves an entry behind, but  *)
(* one that refuses sends: the next broadcast removes it and cannot be cut  *)
(* short by it.                                                             *)
LeakIsHarmless ==
  \A c \in registered : endpoint[c] = "gone" => c \in failed

(* README.md: the dashboard "broadcasts each event to connected clients":   *)
(* NothingMissed without its last alternative.                              *)
BroadcastReachesEveryClient ==
  \A c \in registered \ failed : \A e \in archive :
    e > joined[c] => e \in Sent(c) \/ Pending(c, e)

(* A dict entry is removed only once the transport behind it is known to be *)
(* gone: disconnect() never takes a browser that is still there off the list*)
OnlyDeadAreDropped ==
  [][\A c \in registered \ registered' : peer'[c] = "closed" \/ c \in failed']_vars

(* A broadcast only goes forward over the copy of the table it took: it     *)
(* sticks to its event, it never takes up a websocket that was registered   *)
(* since or one it has been at, and neither another broadcast nor an        *)
(* endpoint moves it.  So it is over after as many sends as there were      *)
(* websockets when it began.                                                *)
BroadcastAdvances ==
  [][\A s \in Sources : task[s] = "sending" /\ task'[s] = "sending" =>
       /\ current'[s] = current[s]
       /\ awaiting'[s] # awaiting[s] \/ targets'[s] # targets[s] =>
            /\ targets'[s] \subseteq targets[s]
            /\ awaiting'[s] \in targets[s] \ targets'[s]]_vars

(* No broadcast stays half done, however slow its clients are: it comes to  *)
(* its last client, or is aborted.  With NothingMissed, what is pending for *)
(* a browser is sent to it unless the browser goes or the broadcast fails.  *)
BroadcastEnds ==
  \A s \in Sources : []<>(task[s] # "sending")

-----------------------------------------------------------------------------
(* The service keeps the promise of ReplayThenLive to every browser.        *)
Promise == INSTANCE ReplayThenLive
  WITH Clients <- Conns, published <- archive, stream <- wire

ReplayThenLive == Promise!Spec
=============================================================================
