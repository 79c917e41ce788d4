-------------------------- MODULE RedisSubscriber --------------------------
(***************************************************************************)
(* How messages get from the Redis channel into the service: the publish   *)
(* of publisher.py, RedisSubscriber.run and stop of broker.py, and the     *)
(* lifespan of main.py that starts the subscriber's task, cancels it and   *)
(* closes the store.                                                       *)
(*                                                                         *)
(* An action is what the task, the lifespan or the environment does        *)
(* between two awaits.  Redis, its client library and the process that may *)
(* be killed are the environment.  Messages are numbered in the order they *)
(* are published; handle_event, whose broadcast is the subject of          *)
(* EventFanout, is one await that ends in one way or the other.            *)
(***************************************************************************)
EXTENDS Naturals, Sequences

CONSTANT MaxMessages  \* bound of the model: how many messages are published

ASSUME MaxMessagesAssumption == MaxMessages \in Nat

Message == 1 .. MaxMessages
Confirmation == 0      \* the answer to SUBSCRIBE, which listen() yields as well
Nobody == 0            \* via of a message that was sent to no subscriber

(* What _decode_message makes of a message: an event; None (no data, not    *)
(* JSON, not an object); or an exception (pydantic rejects a field).        *)
Kind == {"event", "ignored", "rejected"}

VARIABLES
  published,   \* the messages: their kind, and the connection they went out on
  link,        \* the Pub/Sub connection: "none", "up", "broken" (closed by the
               \* other side), "idle" (unsubscribed)
  since,       \* the connection's name: the first message it could carry
  inbox,       \* replies sent on it that listen() has not yielded yet
  phase,       \* where run() is suspended; "none" before it, "done" after it
  outcome,     \* how it ends or has ended: "none" while the loop is running
  cancelling,  \* cancel() was called and is not yet delivered
  interrupted, \* history: it was delivered inside the finally block
  stopped,     \* RedisSubscriber._stopped
  app,         \* the lifespan; "down": no process
  storeOpen,   \* the SQLite connection of the event store
  archived     \* messages whose events the store committed, in that order

linkVars == <<published, link, since, inbox>>
taskVars == <<phase, outcome, cancelling, interrupted>>
appVars == <<stopped, app, storeOpen>>
vars == <<linkVars, taskVars, appVars, archived>>

Elements(seq) == {seq[i] : i \in DOMAIN seq}
Live == {"subscribing", "listening", "handling"}
Cleanup == {"unsubscribing", "closing"}
Ended == {"stopped", "failed", "down"}

-----------------------------------------------------------------------------
Init ==
  /\ published = <<>>
  /\ link = "none"
  /\ since = 1
  /\ inbox = <<>>
  /\ phase = "none"
  /\ outcome = "none"
  /\ cancelling = FALSE
  /\ interrupted = FALSE
  /\ stopped = FALSE
  /\ app = "down"
  /\ storeOpen = FALSE
  /\ archived = <<>>

-----------------------------------------------------------------------------
(* create_app opens the store, the lifespan creates the task if the setting *)
(* says so, and run() gets as far as awaiting the subscription.  A process  *)
(* that ended before may be started again.                                  *)
Start(enabled) ==
  /\ app \in Ended
  /\ app' = "serving"
  /\ storeOpen' = TRUE
  /\ stopped' = FALSE
  /\ phase' = IF enabled THEN "subscribing" ELSE "none"
  /\ outcome' = "none"
  /\ cancelling' = FALSE
  /\ interrupted' = FALSE
  /\ link' = "none"
  /\ inbox' = <<>>
  /\ UNCHANGED <<published, since, archived>>

(* The process is killed: only what is committed remains.                   *)
Crash ==
  /\ app \notin Ended
  /\ app' = "down"
  /\ storeOpen' = FALSE
  /\ link' = "none"
  /\ inbox' = <<>>
  /\ phase' = "none"
  /\ outcome' = "none"
  /\ cancelling' = FALSE
  /\ interrupted' = FALSE
  /\ UNCHANGED <<published, since, stopped, archived>>

-----------------------------------------------------------------------------
(* RedisDashboardPublisher.publish: Redis sends the message to whoever is   *)
(* subscribed now, and keeps nothing.                                       *)
Publish(kind) ==
  /\ Len(published) < MaxMessages
  /\ published' = Append(published,
       [kind |-> kind, via |-> IF link = "up" THEN since ELSE Nobody])
  /\ inbox' = IF link = "up" THEN Append(inbox, Len(published) + 1) ELSE inbox
  /\ UNCHANGED <<link, since, taskVars, appVars, archived>>

(* Redis restarts, drops a slow subscriber, or the network fails: of what   *)
(* was under way, only a part may still arrive.                             *)
LinkBreaks(arriving) ==
  /\ link \in {"up", "idle"}
  /\ arriving <= Len(inbox)
  /\ link' = "broken"
  /\ inbox' = SubSeq(inbox, 1, arriving)
  /\ UNCHANGED <<published, since, taskVars, appVars, archived>>

-----------------------------------------------------------------------------
(* A plausible bug: the except clause does not raise the exception again.   *)
LeaveSwallowed(how) ==
  /\ phase' = "unsubscribing"
  /\ outcome' = IF how = "error" THEN "none" ELSE how

(* run() leaves the loop, in whatever way: the finally block begins.        *)
Leave(how) ==
  /\ phase' = "unsubscribing"
  /\ outcome' = how

\* The task runs on from its await, rather than to be told of a cancellation.
Resumes(at) == phase = at /\ ~ cancelling

(* A new subscription, confirmed by its first reply.                        *)
Connect ==
  /\ link' = "up"
  /\ since' = Len(published) + 1
  /\ inbox' = <<Confirmation>>

Subscribed ==
  /\ Resumes("subscribing")
  /\ Connect
  /\ phase' = "listening"
  /\ UNCHANGED <<published, outcome, cancelling, interrupted, appVars, archived>>

SubscribeRaises ==
  /\ Resumes("subscribing")
  /\ Leave("error")
  /\ UNCHANGED <<linkVars, cancelling, interrupted, appVars, archived>>

(* A plausible bug: an exception of the store is logged and the loop goes on*)
ReceiveAnyway(stores) ==
  LET m == Head(inbox) IN
  /\ Resumes("listening")
  /\ inbox # <<>>
  /\ inbox' = Tail(inbox)
  /\ IF m # Confirmation /\ published[m].kind = "event" /\ storeOpen /\ stores
     THEN phase' = "handling" /\ archived' = Append(archived, m)
     ELSE UNCHANGED <<phase, archived>>
  /\ UNCHANGED <<published, link, since, outcome, cancelling, interrupted, appVars>>

(* A plausible bug: a message that is not an event ends the loop.           *)
ReceiveBreaks(stores) ==
  LET m == Head(inbox) IN
  /\ Resumes("listening")
  /\ inbox # <<>>
  /\ inbox' = Tail(inbox)
  /\ IF m # Confirmation /\ published[m].kind = "event" /\ storeOpen /\ stores
     THEN phase' = "handling" /\ archived' = Append(archived, m) /\ UNCHANGED outcome
     ELSE IF m = Confirmation THEN UNCHANGED <<phase, outcome, archived>>
     ELSE Leave("returned") /\ UNCHANGED archived
  /\ UNCHANGED <<published, link, since, cancelling, interrupted, appVars>>

(* One turn of the loop of run().  A message that arrives after stop() ends *)
(* the loop; the confirmation and what decodes to None are skipped; a       *)
(* rejected message and a store that fails (or is closed) raise; else the   *)
(* event is committed and the rest of handle_event awaited.                 *)
Receive(stores) ==
  LET m == Head(inbox)
      skipped == m = Confirmation \/ published[m].kind = "ignored"
      raises == published[m].kind = "rejected" \/ ~ storeOpen \/ ~ stores IN
  /\ Resumes("listening")
  /\ inbox # <<>>
  /\ inbox' = Tail(inbox)
  /\ IF stopped THEN Leave("returned") /\ UNCHANGED archived
     ELSE IF skipped THEN UNCHANGED <<phase, outcome, archived>>
     ELSE IF raises THEN Leave("error") /\ UNCHANGED archived
     ELSE phase' = "handling" /\ archived' = Append(archived, m) /\ UNCHANGED outcome
  /\ UNCHANGED <<published, link, since, cancelling, interrupted, appVars>>

(* listen() finds the connection closed: the client library raises, or      *)
(* connects and subscribes again, where it is configured to.                *)
ListenRaises ==
  /\ Resumes("listening")
  /\ inbox = <<>> /\ link = "broken"
  /\ Leave("error")
  /\ UNCHANGED <<linkVars, cancelling, interrupted, appVars, archived>>
Resubscribed ==
  /\ Resumes("listening")
  /\ inbox = <<>> /\ link = "broken"
  /\ Connect
  /\ UNCHANGED <<published, taskVars, appVars, archived>>

HandleReturns ==
  /\ Resumes("handling")
  /\ phase' = "listening"
  /\ UNCHANGED <<linkVars, outcome, cancelling, interrupted, appVars, archived>>

(* A plausible bug: the event of a failed callback is tried again.          *)
HandleRaisesRetry ==
  /\ Resumes("handling")
  /\ phase' = "listening"
  /\ inbox' = <<archived[Len(archived)]>> \o inbox
  /\ UNCHANGED <<published, link, since, outcome, cancelling, interrupted, appVars, archived>>

(* A browser vanished during the broadcast: WebSocketDisconnect.            *)
HandleRaises ==
  /\ Resumes("handling")
  /\ Leave("error")
  /\ UNCHANGED <<linkVars, cancelling, interrupted, appVars, archived>>

(* A plausible bug: the loop is not wrapped in a try with a finally.        *)
CancelledUnprotected ==
  /\ cancelling
  /\ phase # "done"
  /\ cancelling' = FALSE
  /\ phase' = "done"
  /\ outcome' = "cancelled"
  /\ interrupted' = (phase \in Cleanup)
  /\ UNCHANGED <<linkVars, appVars, archived>>

(* CancelledError is raised at the await run() is suspended in: it leaves   *)
(* the loop, or it cuts the finally block short and replaces the exception  *)
(* that was being propagated.                                               *)
Cancelled ==
  /\ cancelling
  /\ phase # "done"
  /\ cancelling' = FALSE
  /\ IF phase \in Live
     THEN Leave("cancelled") /\ UNCHANGED interrupted
     ELSE phase' = "done" /\ outcome' = "cancelled" /\ interrupted' = TRUE
  /\ UNCHANGED <<linkVars, appVars, archived>>

-----------------------------------------------------------------------------
(* The finally block: unsubscribe, for which a lost connection is opened    *)
(* once more; then aclose, twice.                                           *)
Unsubscribed ==
  /\ Resumes("unsubscribing")
  /\ phase' = "closing"
  /\ link' = "idle"
  /\ UNCHANGED <<published, since, inbox, outcome, cancelling, interrupted, appVars, archived>>

(* Redis cannot be reached: the exception replaces the one under way.       *)
UnsubscribeRaises ==
  /\ Resumes("unsubscribing")
  /\ link \in {"none", "broken"}
  /\ phase' = "done"
  /\ outcome' = "error"
  /\ UNCHANGED <<linkVars, cancelling, interrupted, appVars, archived>>

(* A plausible bug: the whole of run() is tried again, whatever ended it.   *)
ClosedRetried ==
  /\ Resumes("closing")
  /\ phase' = "subscribing"
  /\ outcome' = "none"
  /\ link' = "none"
  /\ inbox' = <<>>
  /\ UNCHANGED <<published, since, cancelling, interrupted, appVars, archived>>

Closed ==
  /\ Resumes("closing")
  /\ phase' = "done"
  /\ link' = "none"
  /\ inbox' = <<>>
  /\ UNCHANGED <<published, since, outcome, cancelling, interrupted, appVars, archived>>

-----------------------------------------------------------------------------
(* A plausible bug: shutdown relies on stop() alone.                        *)
ShutdownByStop ==
  /\ app = "serving"
  /\ stopped' = (phase # "none")
  /\ app' = "stopping"
  /\ UNCHANGED <<linkVars, taskVars, storeOpen, archived>>

(* The end of the lifespan: stop() sets its flag and the task is cancelled  *)
(* in one stretch of code; a task that is done cannot be cancelled.         *)
Shutdown ==
  /\ app = "serving"
  /\ stopped' = (phase # "none")
  /\ cancelling' = (phase \notin {"none", "done"})
  /\ app' = "stopping"
  /\ UNCHANGED <<linkVars, phase, outcome, interrupted, storeOpen, archived>>

(* Plausible bugs: shutdown does not wait for the task; it does not suppress*)
(* the CancelledError.                                                      *)
TaskAwaitedLoosely ==
  /\ app = "stopping"
  /\ app' = "stopped"
  /\ storeOpen' = FALSE
  /\ UNCHANGED <<linkVars, taskVars, stopped, archived>>
TaskAwaitedStrictly ==
  /\ app = "stopping"
  /\ phase \in {"none", "done"}
  /\ IF outcome \in {"error", "cancelled"}
     THEN app' = "failed" /\ UNCHANGED storeOpen
     ELSE app' = "stopped" /\ storeOpen' = FALSE
  /\ UNCHANGED <<linkVars, taskVars, stopped, archived>>

(* `await subscriber_task` raises what the task ended with.  CancelledError *)
(* is suppressed; anything else leaves the lifespan before the store is     *)
(* closed.                                                                  *)
TaskAwaited ==
  /\ app = "stopping"
  /\ phase \in {"none", "done"}
  /\ IF outcome = "error"
     THEN app' = "failed" /\ UNCHANGED storeOpen
     ELSE app' = "stopped" /\ storeOpen' = FALSE
  /\ UNCHANGED <<linkVars, taskVars, stopped, archived>>

-----------------------------------------------------------------------------
TaskStep ==
  \/ Subscribed \/ SubscribeRaises
  \/ (\E stores \in BOOLEAN : Receive(stores))
  \/ ListenRaises \/ Resubscribed
  \/ HandleReturns \/ HandleRaises
  \/ Cancelled
  \/ Unsubscribed \/ UnsubscribeRaises \/ Closed

Next ==
  \/ (\E enabled \in BOOLEAN : Start(enabled))
  \/ Crash
  \/ (\E kind \in Kind : Publish(kind))
  \/ (\E arriving \in 0 .. Len(inbox) : LinkBreaks(arriving))
  \/ TaskStep
  \/ Shutdown
  \/ TaskAwaited

(* The event loop runs what is ready, Redis answers or refuses, and every   *)
(* callback ends (PendingIsSettled in EventFanout).  Nobody has to publish, *)
(* to start the process or to shut it down.                                 *)
Fairness == WF_vars(TaskStep) /\ WF_vars(TaskAwaited)

Spec == Init /\ [][Next]_vars
FairSpec == Spec /\ Fairness

-----------------------------------------------------------------------------
IsEvent(m) == published[m].kind = "event"

(* Types, and that run() has an outcome exactly when its loop is over.      *)
TypeOK ==
  /\ published \in Seq([kind : Kind, via : 0 .. MaxMessages])
  /\ Len(published) <= MaxMessages
  /\ link \in {"none", "up", "broken", "idle"}
  /\ since \in 1 .. MaxMessages + 1
  /\ inbox \in Seq(0 .. MaxMessages)
  /\ phase \in {"none", "done"} \cup Live \cup Cleanup
  /\ outcome \in {"none", "returned", "cancelled", "error"}
  /\ outcome = "none" <=> phase \in {"none"} \cup Live
  /\ cancelling \in BOOLEAN /\ interrupted \in BOOLEAN
  /\ stopped \in BOOLEAN /\ storeOpen \in BOOLEAN
  /\ app \in {"down", "serving", "stopping", "stopped", "failed"}
  /\ archived \in Seq(Message)

(* Redis "is the event bus only" (docs/architecture.md): what the archive   *)
(* gets from it are published events, in the order they were published and  *)
(* none of them twice, over reconnects, crashes and restarts.               *)
ArchivedInOrder ==
  /\ \A i, j \in DOMAIN archived : i < j => archived[i] < archived[j]
  /\ \A m \in Elements(archived) : m <= Len(published) /\ IsEvent(m)

(* Loss has no holes: if an event was archived, so was every event that was *)
(* published before it while the same connection was subscribed.  The code  *)
(* loses a prefix (not yet subscribed) or a suffix (gone), never a middle.  *)
NoHoles ==
  \A m \in Elements(archived) : \A n \in 1 .. m :
    n \in DOMAIN published /\ IsEvent(n) /\ published[n].via = published[m].via
      => n \in Elements(archived)

(* The store is open for as long as the subscriber may hand it an event:    *)
(* main.py closes it only after it awaited the task.                        *)
StoreOutlivesTask == phase \notin {"none", "done"} => storeOpen

(* Shutdown closes the store unless the subscriber ended with an error, long*)
(* before or in its clean-up: `await subscriber_task` raises it again       *)
(* (main.py:82-86).                                                         *)
ClosedUnlessError ==
  /\ app = "stopped" => ~ storeOpen
  /\ app = "failed" => outcome = "error"

(* stop() never ends the loop: its flag is read at the next message only    *)
(* (broker.py:34), and the cancellation always comes first.                 *)
OnlyCancellationStops == outcome # "returned"

(* A task that is over leaves no subscription behind, unless it was already *)
(* failing when it was cancelled, in the middle of its clean-up.            *)
Released == phase = "done" /\ ~ interrupted => link \in {"none", "broken"}

(* Once the loop is over it stays so until the process is started again:    *)
(* nothing restarts the subscriber, whatever ended it.  And from then on, as*)
(* from the moment shutdown begins, nothing more is archived.               *)
QuietAfterTheEnd ==
  [][app \notin Ended =>
       /\ outcome # "none" => (phase' \notin Live /\ archived' = archived)
       /\ app = "stopping" => archived' = archived]_vars

(* Shutdown is short: from the moment it begins the task only moves towards *)
(* its end, out of the loop and through the two awaits of its clean-up, so  *)
(* it is awaited for three of its steps at most.                            *)
StepsLeft == CASE phase \in Live -> 3
               [] phase = "unsubscribing" -> 2
               [] phase = "closing" -> 1
               [] OTHER -> 0
ShutdownAdvances ==
  [][app = "stopping" /\ app' = "stopping" =>
       StepsLeft' < StepsLeft \/ UNCHANGED <<taskVars, archived>>]_vars

(* Shutdown ends, however the subscriber was doing.                         *)
ShutdownEnds == app = "stopping" ~> app \in Ended

(* An event that reached a connection the subscriber listens on is archived *)
(* unless the task fails or is cancelled, or the connection or the process  *)
(* is lost first.                                                           *)
ArrivedIsArchived ==
  \A m \in Message :
    (phase \in Live /\ m \in Elements(inbox) /\ IsEvent(m))
      ~> (m \in Elements(archived) \/ outcome \in {"error", "cancelled"}
            \/ link = "broken" \/ app = "down")

-----------------------------------------------------------------------------
(* Channel, task and lifespan together keep the promise of                  *)
(* AtMostOnceChannel, over reconnects, crashes, shutdowns and restarts.     *)
Channel == INSTANCE AtMostOnceChannel

AtMostOnce == Channel!Spec
=============================================================================
