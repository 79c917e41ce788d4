----------------------- MODULE RedisSubscriberProofs -----------------------
(***************************************************************************)
(* TLAPS proofs about RedisSubscriber, for any number of messages.         *)
(***************************************************************************)
EXTENDS RedisSubscriber, TLAPS

(* The elements of the sequences the actions build.                         *)
LEMMA AppendElements ==
  ASSUME NEW S, NEW q \in Seq(S), NEW e \in S
  PROVE  Elements(Append(q, e)) = Elements(q) \cup {e}
<1>1. Len(Append(q, e)) = Len(q) + 1 /\ Append(q, e)[Len(q) + 1] = e
  OBVIOUS
<1>2. \A i \in 1 .. Len(q) : Append(q, e)[i] = q[i]
  OBVIOUS
<1>3. DOMAIN q = 1 .. Len(q) /\ DOMAIN Append(q, e) = 1 .. (Len(q) + 1) /\ Len(q) \in Nat
  BY <1>1
<1>4. 1 .. (Len(q) + 1) = 1 .. Len(q) \cup {Len(q) + 1}
  BY <1>3
<1>5. \A x : x \in Elements(Append(q, e)) <=> x \in Elements(q) \cup {e}
  <2> TAKE x
  <2>1. x \in Elements(Append(q, e)) <=> \E i \in 1 .. (Len(q) + 1) : x = Append(q, e)[i]
    BY <1>3 DEF Elements
  <2>2. x \in Elements(q) <=> \E i \in 1 .. Len(q) : x = q[i]
    BY <1>3 DEF Elements
  <2> QED BY <2>1, <2>2, <1>1, <1>2, <1>4
<1> QED BY <1>5

LEMMA ElementType ==
  ASSUME NEW S, NEW q \in Seq(S)
  PROVE  Elements(q) \subseteq S
BY DEF Elements

LEMMA TailElements ==
  ASSUME NEW S, NEW q \in Seq(S), q # <<>>
  PROVE  /\ Head(q) \in S /\ Tail(q) \in Seq(S)
         /\ Elements(q) = Elements(Tail(q)) \cup {Head(q)}
<1>1. Len(q) \in Nat \ {0} /\ DOMAIN q = 1 .. Len(q) /\ Head(q) = q[1] /\ Head(q) \in S
  OBVIOUS
<1>2. Tail(q) \in Seq(S) /\ DOMAIN Tail(q) = 1 .. (Len(q) - 1)
  BY <1>1
<1>3. \A i \in 1 .. (Len(q) - 1) : Tail(q)[i] = q[i + 1]
  BY <1>1
<1>4. \A x \in Elements(q) : x \in Elements(Tail(q)) \cup {Head(q)}
  <2> SUFFICES ASSUME NEW i \in 1 .. Len(q), i # 1
               PROVE  q[i] \in Elements(Tail(q))
    BY <1>1 DEF Elements
  <2>1. i - 1 \in 1 .. (Len(q) - 1) /\ q[i] = q[(i - 1) + 1]
    BY <1>1
  <2> QED BY <2>1, <1>2, <1>3, Zenon DEF Elements
<1>5. \A x \in Elements(Tail(q)) : x \in Elements(q)
  <2> SUFFICES ASSUME NEW i \in 1 .. (Len(q) - 1) PROVE Tail(q)[i] \in Elements(q)
    BY <1>2 DEF Elements
  <2>1. i + 1 \in 1 .. Len(q)
    BY <1>1
  <2> QED BY <2>1, <1>1, <1>3, Zenon DEF Elements
<1>6. Head(q) \in Elements(q)
  BY <1>1 DEF Elements
<1> QED BY <1>1, <1>2, <1>4, <1>5, <1>6, Zenon

LEMMA PrefixElements ==
  ASSUME NEW S, NEW q \in Seq(S), NEW k \in 0 .. Len(q)
  PROVE  /\ SubSeq(q, 1, k) \in Seq(S) /\ Len(SubSeq(q, 1, k)) = k
         /\ \A i \in 1 .. k : SubSeq(q, 1, k)[i] = q[i]
         /\ Elements(SubSeq(q, 1, k)) = {q[i] : i \in 1 .. k}
<1>1. SubSeq(q, 1, k) \in Seq(S) /\ Len(SubSeq(q, 1, k)) = k
      /\ \A i \in 1 .. k : SubSeq(q, 1, k)[i] = q[i]
  OBVIOUS
<1>2. DOMAIN SubSeq(q, 1, k) = 1 .. k
  BY <1>1
<1> QED BY <1>1, <1>2 DEF Elements

-----------------------------------------------------------------------------
(* Types: a connection is named by a message that is or may be published.   *)
TypeInv == TypeOK /\ since <= Len(published) + 1

LEMMA EmptySeq == \A S : <<>> \in Seq(S) /\ Len(<<>>) = 0
OBVIOUS

LEMMA TypeInit == Init => TypeInv
<1> SUFFICES ASSUME Init PROVE TypeInv
  OBVIOUS
<1>1. /\ published \in Seq([kind : Kind, via : 0 .. MaxMessages]) /\ Len(published) = 0
      /\ inbox \in Seq(0 .. MaxMessages) /\ archived \in Seq(Message)
  BY EmptySeq, Zenon DEF Init
<1>2. since \in 1 .. MaxMessages + 1 /\ since <= Len(published) + 1
      /\ Len(published) <= MaxMessages
  BY <1>1, MaxMessagesAssumption DEF Init
<1>3. /\ link \in {"none", "up", "broken", "idle"} /\ phase = "none" /\ outcome = "none"
      /\ cancelling \in BOOLEAN /\ interrupted \in BOOLEAN
      /\ stopped \in BOOLEAN /\ storeOpen \in BOOLEAN /\ app = "down"
  BY Zenon DEF Init
<1> QED BY <1>1, <1>2, <1>3 DEF TypeInv, TypeOK

LEMMA ReceiveType ==
  ASSUME TypeInv, NEW stores \in BOOLEAN, Receive(stores)
  PROVE  TypeInv'
<1>1. Head(inbox) \in 0 .. MaxMessages /\ Tail(inbox) \in Seq(0 .. MaxMessages)
  BY TailElements DEF Receive, TypeInv, TypeOK
<1>2. archived' \in Seq(Message)
  <2>1. CASE archived' = archived
    BY <2>1 DEF TypeInv, TypeOK
  <2>2. CASE Head(inbox) # Confirmation /\ archived' = Append(archived, Head(inbox))
    BY <1>1, <2>2, MaxMessagesAssumption DEF TypeInv, TypeOK, Message, Confirmation
  <2> QED BY <2>1, <2>2 DEF Receive, Leave
<1>3. phase = "listening" /\ outcome = "none"
  BY DEF Receive, Resumes, TypeInv, TypeOK, Live, Cleanup
<1>4. \/ phase' \in {"listening", "handling"} /\ outcome' = "none"
      \/ phase' = "unsubscribing" /\ outcome' \in {"returned", "error"}
  BY <1>3 DEF Receive, Leave
<1> QED BY <1>1, <1>2, <1>3, <1>4 DEF Receive, TypeInv, TypeOK, Live, Cleanup, appVars

LEMMA PublishType ==
  ASSUME TypeInv, NEW kind \in Kind, Publish(kind)
  PROVE  TypeInv'
<1>1. Len(published) \in Nat /\ Len(published) + 1 \in 1 .. MaxMessages
  BY MaxMessagesAssumption DEF Publish, TypeInv, TypeOK
<1>2. since \in 0 .. MaxMessages
  BY <1>1, MaxMessagesAssumption DEF TypeInv, TypeOK
<1>3. inbox' \in Seq(0 .. MaxMessages)
  <2>1. inbox \in Seq(0 .. MaxMessages) /\ Len(published) + 1 \in 0 .. MaxMessages
    BY <1>1, MaxMessagesAssumption DEF TypeInv, TypeOK
  <2>2. Append(inbox, Len(published) + 1) \in Seq(0 .. MaxMessages)
    BY <2>1
  <2> QED BY <2>1, <2>2 DEF Publish
<1> DEFINE entry == [kind |-> kind, via |-> IF link = "up" THEN since ELSE Nobody]
<1>4. entry \in [kind : Kind, via : 0 .. MaxMessages]
  BY <1>2, MaxMessagesAssumption DEF Nobody
<1>5. published' = Append(published, entry)
  BY DEF Publish
<1> HIDE DEF entry
<1>6. /\ published' \in Seq([kind : Kind, via : 0 .. MaxMessages])
      /\ Len(published') = Len(published) + 1
  BY <1>4, <1>5 DEF TypeInv, TypeOK
<1> QED BY <1>1, <1>3, <1>6, MaxMessagesAssumption
        DEF Publish, TypeInv, TypeOK, taskVars, appVars

LEMMA LinkBreaksType ==
  ASSUME TypeInv, NEW arriving \in 0 .. Len(inbox), LinkBreaks(arriving)
  PROVE  TypeInv'
<1>1. inbox' \in Seq(0 .. MaxMessages)
  BY PrefixElements DEF LinkBreaks, TypeInv, TypeOK
<1> QED BY <1>1 DEF LinkBreaks, TypeInv, TypeOK, taskVars, appVars

LEMMA ConnectType ==
  ASSUME TypeInv, Connect, UNCHANGED published
  PROVE  /\ link' = "up" /\ since' \in 1 .. MaxMessages + 1
         /\ inbox' \in Seq(0 .. MaxMessages) /\ since' <= Len(published') + 1
BY MaxMessagesAssumption DEF Connect, Confirmation, TypeInv, TypeOK

LEMMA TypeStep == TypeInv /\ [Next]_vars => TypeInv'
<1> SUFFICES ASSUME TypeInv, [Next]_vars PROVE TypeInv'
  OBVIOUS
<1>1. ASSUME NEW enabled \in BOOLEAN, Start(enabled) PROVE TypeInv'
  BY <1>1, EmptySeq DEF Start, TypeInv, TypeOK, Live, Cleanup
<1>2. CASE Crash
  BY <1>2, EmptySeq DEF Crash, TypeInv, TypeOK, Live, Cleanup
<1>3. CASE Subscribed
  BY <1>3, ConnectType DEF Subscribed, Resumes, TypeInv, TypeOK, Live, Cleanup, appVars
<1>4. CASE SubscribeRaises \/ ListenRaises \/ HandleRaises
  BY <1>4 DEF SubscribeRaises, ListenRaises, HandleRaises, Leave, TypeInv, TypeOK, Live,
              Cleanup, linkVars, appVars
<1>5. CASE Resubscribed
  BY <1>5, ConnectType DEF Resubscribed, TypeInv, TypeOK, taskVars, appVars
<1>6. CASE HandleReturns
  BY <1>6 DEF HandleReturns, Resumes, TypeInv, TypeOK, Live, Cleanup, linkVars, appVars
<1>7. CASE Cancelled
  BY <1>7 DEF Cancelled, Leave, TypeInv, TypeOK, Live, Cleanup, linkVars, appVars
<1>8. CASE Unsubscribed \/ UnsubscribeRaises \/ Closed
  BY <1>8, EmptySeq DEF Unsubscribed, UnsubscribeRaises, Closed, Resumes, TypeInv, TypeOK, Live,
              Cleanup, linkVars, appVars
<1>9. CASE Shutdown
  BY <1>9 DEF Shutdown, TypeInv, TypeOK, linkVars
<1>10. CASE TaskAwaited
  BY <1>10 DEF TaskAwaited, TypeInv, TypeOK, linkVars, taskVars
<1>11. CASE UNCHANGED vars
  BY <1>11 DEF vars, linkVars, taskVars, appVars, TypeInv, TypeOK
<1> QED BY <1>1, <1>2, <1>3, <1>4, <1>5, <1>6, <1>7, <1>8, <1>9, <1>10, <1>11, ReceiveType,
          PublishType, LinkBreaksType DEF Next, TaskStep

(* Variables keep their types, and run() has an outcome exactly when its    *)
(* loop is over.                                                            *)
THEOREM TypeCorrect == Spec => []TypeOK
<1>1. TypeInv => TypeOK
  BY DEF TypeInv
<1> QED BY <1>1, TypeInit, TypeStep, PTL DEF Spec

-----------------------------------------------------------------------------
(* The lifespan and the task.  While the application serves or stops, its   *)
(* store is open, and outside of that no task runs; stop() and cancel()     *)
(* come together, so a stopping application has no task in its loop that    *)
(* has not been cancelled.                                                  *)
LifeInv ==
  /\ app \in {"serving", "stopping"} => storeOpen
  /\ phase \notin {"none", "done"} => app \in {"serving", "stopping"}
  /\ cancelling => app = "stopping" /\ phase \notin {"none", "done"}
  /\ app = "stopping" /\ phase \in Live => cancelling
  /\ app = "serving" => ~ stopped
  /\ ClosedUnlessError
  /\ OnlyCancellationStops
  /\ Released

LEMMA LifeInit == Init => LifeInv
BY DEF Init, LifeInv, Live, ClosedUnlessError, OnlyCancellationStops, Released

LEMMA LifeStep == TypeInv /\ LifeInv /\ [Next]_vars => LifeInv'
<1> SUFFICES ASSUME TypeInv, LifeInv, [Next]_vars PROVE LifeInv'
  OBVIOUS
<1> USE DEF LifeInv, ClosedUnlessError, OnlyCancellationStops, Released, Live
<1>1. ASSUME NEW enabled \in BOOLEAN, Start(enabled) PROVE LifeInv'
  BY <1>1 DEF Start
<1>2. CASE Crash
  BY <1>2 DEF Crash
<1>3. ASSUME NEW kind \in Kind, Publish(kind) PROVE LifeInv'
  BY <1>3 DEF Publish, taskVars, appVars
<1>4. ASSUME NEW arriving \in 0 .. Len(inbox), LinkBreaks(arriving) PROVE LifeInv'
  BY <1>4 DEF LinkBreaks, taskVars, appVars
<1>5. CASE Subscribed
  BY <1>5 DEF Subscribed, Resumes, appVars
<1>6. CASE SubscribeRaises \/ ListenRaises \/ HandleRaises
  BY <1>6 DEF SubscribeRaises, ListenRaises, HandleRaises, Leave, Resumes, linkVars, appVars
<1>7. ASSUME NEW stores \in BOOLEAN, Receive(stores) PROVE LifeInv'
  <2>1. app = "serving" /\ ~ stopped /\ phase = "listening" /\ ~ cancelling
    BY <1>7 DEF Receive, Resumes
  <2>2. \/ phase' \in {"listening", "handling"} /\ UNCHANGED outcome
        \/ phase' = "unsubscribing" /\ outcome' = "error"
    BY <1>7, <2>1 DEF Receive, Leave
  <2> QED BY <1>7, <2>1, <2>2 DEF Receive, appVars
<1>8. CASE Resubscribed
  BY <1>8 DEF Resubscribed, Resumes, taskVars, appVars
<1>9. CASE HandleReturns
  BY <1>9 DEF HandleReturns, Resumes, linkVars, appVars
<1>10. CASE Cancelled
  BY <1>10 DEF Cancelled, Leave, linkVars, appVars
<1>11. CASE Unsubscribed \/ UnsubscribeRaises \/ Closed
  BY <1>11 DEF Unsubscribed, UnsubscribeRaises, Closed, Resumes, linkVars, appVars
<1>12. CASE Shutdown
  BY <1>12 DEF Shutdown, linkVars
<1>13. CASE TaskAwaited
  <2>1. ~ cancelling /\ phase \in {"none", "done"}
    BY <1>13 DEF TaskAwaited
  <2>2. /\ app' \in {"stopped", "failed"} /\ UNCHANGED <<phase, outcome, interrupted, link>>
        /\ UNCHANGED cancelling
    BY <1>13 DEF TaskAwaited, linkVars, taskVars
  <2>3. CASE outcome = "error"
    BY <1>13, <2>1, <2>2, <2>3 DEF TaskAwaited
  <2>4. CASE outcome # "error"
    <3>1. app' = "stopped" /\ storeOpen' = FALSE
      BY <1>13, <2>4 DEF TaskAwaited
    <3> QED BY <2>1, <2>2, <3>1
  <2> QED BY <2>3, <2>4
<1>14. CASE UNCHANGED vars
  BY <1>14 DEF vars, linkVars, taskVars, appVars
<1> QED BY <1>1, <1>2, <1>3, <1>4, <1>5, <1>6, <1>7, <1>8, <1>9, <1>10, <1>11, <1>12, <1>13,
          <1>14 DEF Next, TaskStep

LEMMA LifeAlways == Spec => [](TypeInv /\ LifeInv)
BY TypeInit, TypeStep, LifeInit, LifeStep, PTL DEF Spec

(* The store is open for as long as the subscriber may hand it an event.    *)
THEOREM StoreIsOpen == Spec => []StoreOutlivesTask
<1>1. LifeInv => StoreOutlivesTask
  BY DEF LifeInv, StoreOutlivesTask
<1> QED BY <1>1, LifeAlways, PTL

(* Shutdown closes the store unless the subscriber ended with an error.     *)
THEOREM StoreIsClosed == Spec => []ClosedUnlessError
<1>1. LifeInv => ClosedUnlessError
  BY DEF LifeInv
<1> QED BY <1>1, LifeAlways, PTL

(* stop() alone never ends the loop of run().                               *)
THEOREM StopIsNotWhatStops == Spec => []OnlyCancellationStops
<1>1. LifeInv => OnlyCancellationStops
  BY DEF LifeInv
<1> QED BY <1>1, LifeAlways, PTL

(* A task that is over leaves no subscription behind, unless it was         *)
(* cancelled in its clean-up.                                               *)
THEOREM SubscriptionIsReleased == Spec => []Released
<1>1. LifeInv => Released
  BY DEF LifeInv
<1> QED BY <1>1, LifeAlways, PTL

(* Once the loop is over or shutdown has begun, nothing is archived and the *)
(* loop is not entered again until the process is started anew.             *)
THEOREM QuietInTheEnd == Spec => QuietAfterTheEnd
<1> DEFINE Quiet == app \notin Ended =>
             /\ outcome # "none" => (phase' \notin Live /\ archived' = archived)
             /\ app = "stopping" => archived' = archived
<1>1. TypeInv /\ LifeInv /\ [Next]_vars => Quiet \/ UNCHANGED vars
  <2> SUFFICES ASSUME TypeInv, LifeInv, Next, app \notin Ended PROVE Quiet
    OBVIOUS
  <2>1. outcome = "none" <=> phase \in {"none"} \cup Live
    BY DEF TypeInv, TypeOK
  <2>2. app = "stopping" /\ phase \in Live => cancelling
    BY DEF LifeInv
  <2>3. CASE \E enabled \in BOOLEAN : Start(enabled)
    BY <2>3 DEF Start
  <2>4. CASE Crash
    BY <2>4 DEF Crash, Live
  <2>5. CASE \/ \E kind \in Kind : Publish(kind)
             \/ \E arriving \in 0 .. Len(inbox) : LinkBreaks(arriving)
             \/ Shutdown \/ TaskAwaited
    BY <2>1, <2>5 DEF Publish, LinkBreaks, Shutdown, TaskAwaited, taskVars, Live
  <2>6. CASE TaskStep
    BY <2>1, <2>2, <2>6 DEF TaskStep, Subscribed, SubscribeRaises, Receive, ListenRaises,
       Resubscribed, HandleReturns, HandleRaises, Cancelled, Unsubscribed,
       UnsubscribeRaises, Closed, Resumes, Leave, taskVars, Live
  <2> QED BY <2>3, <2>4, <2>5, <2>6 DEF Next
<1>2. [Next]_vars /\ TypeInv /\ LifeInv => [Quiet]_vars
  BY <1>1
<1> QED BY <1>2, LifeAlways, PTL DEF Spec, QuietAfterTheEnd

(* From the moment shutdown begins, a step of the task takes it nearer to   *)
(* its end, and no other step moves it: the task that is awaited needs three*)
(* steps at most.                                                           *)
THEOREM ShutdownIsShort == Spec => ShutdownAdvances
<1> DEFINE Advances == app = "stopping" /\ app' = "stopping" =>
             StepsLeft' < StepsLeft \/ UNCHANGED <<taskVars, archived>>
<1>1. TypeInv /\ LifeInv /\ [Next]_vars => [Advances]_vars
  <2> SUFFICES ASSUME TypeInv, LifeInv, Next, app = "stopping", app' = "stopping"
               PROVE  StepsLeft' < StepsLeft \/ UNCHANGED <<taskVars, archived>>
    OBVIOUS
  <2>1. phase \in Live => cancelling
    BY DEF LifeInv
  <2>2. CASE \/ \E kind \in Kind : Publish(kind)
             \/ \E arriving \in 0 .. Len(inbox) : LinkBreaks(arriving)
    BY <2>2 DEF Publish, LinkBreaks
  <2>3. CASE Cancelled
    <3>1. phase # "done" /\ phase # "none"
      BY <2>3 DEF Cancelled, LifeInv
    <3>2. phase \in Live \cup Cleanup
      BY <3>1 DEF TypeInv, TypeOK
    <3>3. IF phase \in Live THEN phase' = "unsubscribing" ELSE phase' = "done"
      BY <2>3 DEF Cancelled, Leave
    <3> QED BY <3>2, <3>3 DEF StepsLeft, Live, Cleanup
  <2>4. CASE Unsubscribed \/ UnsubscribeRaises \/ Closed
    BY <2>4 DEF Unsubscribed, UnsubscribeRaises, Closed, Resumes, StepsLeft, Live
  <2>5. CASE \/ Subscribed \/ SubscribeRaises \/ ListenRaises \/ Resubscribed
             \/ HandleReturns \/ HandleRaises
             \/ \E stores \in BOOLEAN : Receive(stores)
    BY <2>1, <2>5 DEF Subscribed, SubscribeRaises, ListenRaises, Resubscribed, HandleReturns,
                      HandleRaises, Receive, Resumes, Live
  <2>6. ~ (\E enabled \in BOOLEAN : Start(enabled)) /\ ~ Crash /\ ~ Shutdown /\ ~ TaskAwaited
    BY DEF Start, Crash, Shutdown, TaskAwaited, Ended
  <2> QED BY <2>2, <2>3, <2>4, <2>5, <2>6 DEF Next, TaskStep
<1> QED BY <1>1, LifeAlways, PTL DEF Spec, ShutdownAdvances

-----------------------------------------------------------------------------
(* Order and loss.  Ordered: what waits in the inbox was published in that  *)
(* order, after everything that is archived.  Carried: it came over the     *)
(* present connection.  Accounted: while the loop runs, an event of the     *)
(* present connection that is not archived is in the inbox, or is newer     *)
(* than all that is left there of a broken connection.                      *)
Ordered ==
  /\ \A i, j \in DOMAIN inbox : i < j => inbox[i] < inbox[j]
  /\ \A x \in Elements(inbox) : x <= Len(published)
  /\ \A m \in Elements(archived), x \in Elements(inbox) : x = Confirmation \/ m < x
  /\ ArchivedInOrder

Carried ==
  /\ \A m \in DOMAIN published : published[m].via <= m
  /\ \A x \in Elements(inbox) : x # Confirmation => published[x].via = since

Accounted ==
  phase \in {"listening", "handling"} =>
    \A m \in DOMAIN published :
      IsEvent(m) /\ published[m].via = since /\ m \notin Elements(archived) =>
        \/ m \in Elements(inbox)
        \/ link # "up" /\ \A x \in Elements(inbox) : x < m

FlowInv == Ordered /\ Carried /\ Accounted /\ NoHoles

LEMMA FlowInit == Init => FlowInv
<1> SUFFICES ASSUME Init PROVE FlowInv
  OBVIOUS
<1>1. DOMAIN <<>> = {} /\ Elements(<<>>) = {}
  <2>1. \A i \in DOMAIN <<>> : FALSE
    OBVIOUS
  <2> QED BY <2>1 DEF Elements
<1> QED BY <1>1 DEF Init, FlowInv, Ordered, Carried, Accounted, NoHoles, ArchivedInOrder

LEMMA EntryFields ==
  ASSUME TypeInv, NEW m \in DOMAIN published
  PROVE  published[m].kind \in Kind /\ published[m].via \in 0 .. MaxMessages
<1>1. published \in Seq([kind : Kind, via : 0 .. MaxMessages])
  BY DEF TypeInv, TypeOK
<1>2. \A S : \A q \in Seq(S) : \A i \in DOMAIN q : q[i] \in S
  OBVIOUS
<1>3. published[m] \in [kind : Kind, via : 0 .. MaxMessages]
  BY <1>1, <1>2, Zenon
<1> QED BY <1>3

(* Publish adds a message that is newer than all others.                    *)
LEMMA FlowPublish ==
  ASSUME TypeInv, FlowInv, NEW kind \in Kind, Publish(kind)
  PROVE  FlowInv'
<1> DEFINE n == Len(published) + 1
           entry == [kind |-> kind, via |-> IF link = "up" THEN since ELSE Nobody]
<1>1. /\ Len(published) \in Nat /\ n \in 1 .. MaxMessages /\ n \in Nat
      /\ since \in Nat \ {0} /\ since <= n
      /\ inbox \in Seq(0 .. MaxMessages) /\ archived \in Seq(Message)
  BY MaxMessagesAssumption DEF Publish, TypeInv, TypeOK
<1>2. published \in Seq([kind : Kind, via : 0 .. MaxMessages]) /\ DOMAIN published = 1 .. Len(published)
  BY DEF TypeInv, TypeOK
<1>3. entry.kind = kind /\ entry.via = IF link = "up" THEN since ELSE 0
  BY DEF Nobody
<1>4. entry \in [kind : Kind, via : 0 .. MaxMessages]
  BY <1>1, MaxMessagesAssumption DEF Nobody
<1>5. published' = Append(published, entry)
  BY DEF Publish
<1> HIDE DEF entry
<1>6. /\ DOMAIN published' = 1 .. n /\ Len(published') = n
      /\ \A m \in 1 .. Len(published) : published'[m] = published[m]
      /\ published'[n] = entry
  BY <1>1, <1>2, <1>4, <1>5
<1>7. Elements(inbox)' = IF link = "up" THEN Elements(inbox) \cup {n} ELSE Elements(inbox)
  <2>1. n \in 0 .. MaxMessages /\ inbox \in Seq(0 .. MaxMessages)
    BY <1>1
  <2> HIDE DEF n
  <2>2. Elements(Append(inbox, n)) = Elements(inbox) \cup {n}
    <3>1. ASSUME NEW S, inbox \in Seq(S), n \in S
          PROVE  Elements(Append(inbox, n)) = Elements(inbox) \cup {n}
      BY <3>1, AppendElements
    <3> QED BY <2>1, <3>1, Zenon
  <2> USE DEF n
  <2> QED BY <2>2 DEF Publish
<1>8. UNCHANGED <<since, link, phase, archived>> /\ Elements(archived)' = Elements(archived)
  BY DEF Publish, taskVars
<1>9. \A m \in Elements(archived) : m \in 1 .. Len(published)
  <2>1. Elements(archived) \subseteq Message
    BY <1>1, ElementType, Zenon
  <2> QED BY <2>1, <1>1, MaxMessagesAssumption DEF FlowInv, Ordered, ArchivedInOrder, Message
<1>10. \A x \in Elements(inbox) : x \in Nat /\ x <= Len(published)
  <2>1. Elements(inbox) \subseteq 0 .. MaxMessages
    BY <1>1, ElementType, Zenon
  <2> QED BY <2>1, MaxMessagesAssumption DEF FlowInv, Ordered
<1> HIDE DEF n
<1>11. Ordered'
  <2>1. \A i, j \in DOMAIN inbox' : i < j => inbox'[i] < inbox'[j]
    <3>1. CASE link # "up"
      BY <3>1 DEF Publish, FlowInv, Ordered
    <3>2. CASE link = "up"
      <4>1. inbox' = Append(inbox, n) /\ DOMAIN inbox = 1 .. Len(inbox) /\ Len(inbox) \in Nat
        BY <3>2, <1>1 DEF Publish, n
      <4>2. /\ DOMAIN inbox' = 1 .. (Len(inbox) + 1) /\ inbox'[Len(inbox) + 1] = n
            /\ \A i \in 1 .. Len(inbox) : inbox'[i] = inbox[i]
        BY <4>1, <1>1
      <4>3. \A i \in 1 .. Len(inbox) : inbox[i] \in Nat /\ inbox[i] < n
        <5>1. \A i \in 1 .. Len(inbox) : inbox[i] \in Elements(inbox)
          BY <4>1, Zenon DEF Elements
        <5> QED BY <5>1, <1>1, <1>10 DEF n
      <4> QED BY <4>1, <4>2, <4>3 DEF FlowInv, Ordered
    <3> QED BY <3>1, <3>2
  <2>2. \A x \in Elements(inbox)' : x <= Len(published')
    BY <1>1, <1>6, <1>7, <1>10 DEF n
  <2>3. \A m \in Elements(archived)', x \in Elements(inbox)' : x = Confirmation \/ m < x
    BY <1>1, <1>7, <1>8, <1>9 DEF FlowInv, Ordered, n
  <2>4. ArchivedInOrder'
    <3>1. \A i, j \in DOMAIN archived' : i < j => archived'[i] < archived'[j]
      BY <1>8 DEF FlowInv, Ordered, ArchivedInOrder
    <3>2. \A m \in Elements(archived)' : m <= Len(published') /\ published'[m].kind = "event"
      BY <1>1, <1>6, <1>8, <1>9 DEF FlowInv, Ordered, ArchivedInOrder, IsEvent, n
    <3> QED BY <3>1, <3>2 DEF ArchivedInOrder, IsEvent
  <2> QED BY <2>1, <2>2, <2>3, <2>4 DEF Ordered
<1>12. Carried'
  <2>1. \A m \in DOMAIN published' : published'[m].via <= m
    <3> SUFFICES ASSUME NEW m \in 1 .. n PROVE published'[m].via <= m
      BY <1>6
    <3>1. CASE m = n
      BY <3>1, <1>1, <1>3, <1>6 DEF n
    <3>2. CASE m # n
      <4>1. m \in 1 .. Len(published)
        BY <3>2, <1>1 DEF n
      <4>2. published[m].via <= m
        BY <4>1, <1>2, Zenon DEF FlowInv, Carried
      <4> QED BY <4>1, <4>2, <1>6
    <3> QED BY <3>1, <3>2
  <2>2. \A x \in Elements(inbox)' : x # Confirmation => published'[x].via = since'
    <3> SUFFICES ASSUME NEW x \in Elements(inbox)', x # Confirmation
                 PROVE  published'[x].via = since
      BY <1>8
    <3>1. CASE x \in Elements(inbox)
      BY <3>1, <1>1, <1>6, <1>10 DEF Confirmation, FlowInv, Carried
    <3>2. CASE x \notin Elements(inbox)
      BY <3>2, <1>3, <1>6, <1>7
    <3> QED BY <3>1, <3>2
  <2> QED BY <2>1, <2>2 DEF Carried
<1>13. Accounted'
  <2> SUFFICES ASSUME phase \in {"listening", "handling"}, NEW m \in 1 .. n,
                      published'[m].kind = "event", published'[m].via = since,
                      m \notin Elements(archived)
               PROVE  \/ m \in Elements(inbox)'
                      \/ link # "up" /\ \A x \in Elements(inbox)' : x < m
    BY <1>6, <1>8 DEF Accounted, IsEvent
  <2>1. CASE m = n
    BY <2>1, <1>1, <1>3, <1>6, <1>7
  <2>2. CASE m # n
    <3>1. m \in 1 .. Len(published) /\ published'[m] = published[m]
      BY <2>2, <1>1, <1>6 DEF n
    <3>2. \/ m \in Elements(inbox)
          \/ link # "up" /\ \A x \in Elements(inbox) : x < m
      BY <3>1, <1>2 DEF FlowInv, Accounted, IsEvent
    <3> QED BY <3>2, <1>7
  <2> QED BY <2>1, <2>2
<1>14. NoHoles'
  <2> SUFFICES ASSUME NEW m \in Elements(archived), NEW k \in 1 .. m, k \in 1 .. n,
                      published'[k].kind = "event", published'[k].via = published'[m].via
               PROVE  k \in Elements(archived)
    BY <1>6, <1>8 DEF NoHoles, IsEvent
  <2>1. m \in 1 .. Len(published) /\ k \in 1 .. Len(published)
    BY <1>1, <1>9
  <2>2. published'[m] = published[m] /\ published'[k] = published[k]
    BY <2>1, <1>6
  <2> QED BY <2>1, <2>2, <1>2 DEF FlowInv, NoHoles, IsEvent
<1> QED BY <1>11, <1>12, <1>13, <1>14 DEF FlowInv

(* A connection that breaks leaves a prefix of the inbox.                   *)
LEMMA FlowBreaks ==
  ASSUME TypeInv, FlowInv, NEW arriving \in 0 .. Len(inbox), LinkBreaks(arriving)
  PROVE  FlowInv'
<1>1. inbox \in Seq(0 .. MaxMessages) /\ DOMAIN inbox = 1 .. Len(inbox) /\ Len(inbox) \in Nat
  BY DEF TypeInv, TypeOK
<1>2. inbox' = SubSeq(inbox, 1, arriving) /\ link' = "broken"
      /\ UNCHANGED <<published, since, phase, archived>>
  BY DEF LinkBreaks, taskVars
<1>3. /\ DOMAIN inbox' = 1 .. arriving
      /\ \A i \in 1 .. arriving : inbox'[i] = inbox[i]
      /\ Elements(inbox)' = {inbox[i] : i \in 1 .. arriving}
  <2>1. inbox' \in Seq(0 .. MaxMessages) /\ Len(inbox') = arriving
    BY <1>1, <1>2, PrefixElements, Zenon
  <2>2. DOMAIN inbox' = 1 .. arriving
    BY <2>1
  <2>3. \A i \in 1 .. arriving : inbox'[i] = inbox[i]
    BY <1>1, <1>2, PrefixElements, Zenon
  <2>4. Elements(inbox)' = {inbox[i] : i \in 1 .. arriving}
    <3>1. Elements(SubSeq(inbox, 1, arriving)) = {inbox[i] : i \in 1 .. arriving}
      BY <1>1, PrefixElements, Zenon
    <3> QED BY <3>1, <1>2
  <2> QED BY <2>2, <2>3, <2>4
<1>4. 1 .. arriving \subseteq DOMAIN inbox /\ Elements(inbox)' \subseteq Elements(inbox)
  BY <1>1, <1>3 DEF Elements
<1>5. Ordered' /\ Carried' /\ NoHoles'
  BY <1>2, <1>3, <1>4 DEF FlowInv, Ordered, Carried, NoHoles, ArchivedInOrder, IsEvent, Elements
<1>6. Accounted'
  <2> SUFFICES ASSUME phase \in {"listening", "handling"}, NEW m \in DOMAIN published,
                      IsEvent(m), published[m].via = since, m \notin Elements(archived),
                      m \notin Elements(inbox)', NEW x \in Elements(inbox)'
               PROVE  x < m
    BY <1>2 DEF Accounted, IsEvent, Elements
  <2>1. CASE m \in Elements(inbox)
    <3>1. PICK i \in 1 .. Len(inbox) : m = inbox[i]
      BY <2>1, <1>1 DEF Elements
    <3>2. i > arriving
      BY <3>1, <1>1, <1>3
    <3>3. PICK j \in 1 .. arriving : x = inbox[j]
      BY <1>3
    <3>4. j < i /\ i \in DOMAIN inbox /\ j \in DOMAIN inbox
      BY <3>1, <3>2, <3>3, <1>1
    <3> QED BY <3>1, <3>3, <3>4 DEF FlowInv, Ordered
  <2>2. CASE m \notin Elements(inbox)
    BY <2>2, <1>4 DEF FlowInv, Accounted
  <2> QED BY <2>1, <2>2
<1> QED BY <1>5, <1>6 DEF FlowInv

(* A new connection carries no message yet.                                 *)
LEMMA FlowConnect ==
  ASSUME TypeInv, FlowInv, Connect, UNCHANGED <<published, archived>>
  PROVE  FlowInv'
<1>1. since' = Len(published) + 1 /\ inbox' = <<0>> /\ Len(published) \in Nat
      /\ DOMAIN published = 1 .. Len(published)
  BY DEF Connect, Confirmation, TypeInv, TypeOK
<1>2. DOMAIN inbox' = {1} /\ Elements(inbox)' = {0}
  BY <1>1 DEF Elements
<1>3. \A m \in DOMAIN published : published[m].via # since'
  <2> SUFFICES ASSUME NEW m \in 1 .. Len(published) PROVE published[m].via # since'
    BY <1>1
  <2>1. published[m].via <= m /\ published[m].via \in Nat
    <3>1. published[m].via \in 0 .. MaxMessages
      BY <1>1, EntryFields, Zenon
    <3>2. published[m].via <= m
      BY <1>1, Zenon DEF FlowInv, Carried
    <3> QED BY <3>1, <3>2, MaxMessagesAssumption
  <2> QED BY <2>1, <1>1
<1>4. UNCHANGED <<published, archived>> /\ Elements(archived)' = Elements(archived)
  BY DEF Elements
<1>5. Ordered'
  BY <1>1, <1>2, <1>4 DEF FlowInv, Ordered, ArchivedInOrder, IsEvent, Confirmation
<1> QED BY <1>2, <1>3, <1>4, <1>5
        DEF FlowInv, Carried, Accounted, NoHoles, IsEvent, Confirmation

(* The loop takes the oldest message.                                       *)
LEMMA FlowReceive ==
  ASSUME TypeInv, FlowInv, NEW stores \in BOOLEAN, Receive(stores)
  PROVE  FlowInv'
<1> DEFINE h == Head(inbox)
<1>1. /\ inbox \in Seq(0 .. MaxMessages) /\ inbox # <<>> /\ inbox' = Tail(inbox)
      /\ phase = "listening" /\ UNCHANGED <<published, link, since>>
      /\ archived \in Seq(Message)
  BY DEF Receive, Resumes, TypeInv, TypeOK
<1>2. /\ h \in 0 .. MaxMessages
      /\ Elements(inbox) = Elements(inbox)' \cup {h}
  BY <1>1, TailElements DEF Elements
<1>3. /\ Len(inbox) \in Nat \ {0} /\ h = inbox[1]
      /\ DOMAIN inbox = 1 .. Len(inbox) /\ DOMAIN inbox' = 1 .. (Len(inbox) - 1)
      /\ \A i \in 1 .. (Len(inbox) - 1) : inbox'[i] = inbox[i + 1]
  BY <1>1
<1>4. \A i, j \in DOMAIN inbox' : i < j => inbox'[i] < inbox'[j]
  <2> SUFFICES ASSUME NEW i \in 1 .. (Len(inbox) - 1), NEW j \in 1 .. (Len(inbox) - 1), i < j
               PROVE  inbox[i + 1] < inbox[j + 1]
    BY <1>3
  <2>1. i + 1 \in DOMAIN inbox /\ j + 1 \in DOMAIN inbox /\ i + 1 < j + 1
    BY <1>3
  <2> QED BY <2>1 DEF FlowInv, Ordered
<1>5. \A x \in Elements(inbox)' : h < x
  <2> SUFFICES ASSUME NEW i \in 1 .. (Len(inbox) - 1) PROVE h < inbox[i + 1]
    BY <1>3 DEF Elements
  <2>1. 1 \in DOMAIN inbox /\ i + 1 \in DOMAIN inbox /\ 1 < i + 1
    BY <1>3
  <2> QED BY <2>1, <1>3 DEF FlowInv, Ordered
<1>6. \A x \in Elements(inbox)' : x <= Len(published)'
  BY <1>1, <1>2 DEF FlowInv, Ordered
<1>7. Carried'
  BY <1>1, <1>2 DEF FlowInv, Carried
<1>8. CASE archived' = archived /\ (phase' \notin {"listening", "handling"}
                                      \/ h = Confirmation \/ ~ IsEvent(h))
  <2>1. UNCHANGED <<published, archived, link, since>> /\ Elements(archived)' = Elements(archived)
    BY <1>1, <1>8 DEF Elements
  <2>2. Ordered'
    BY <1>2, <1>4, <1>6, <2>1 DEF FlowInv, Ordered, ArchivedInOrder, IsEvent
  <2>3. NoHoles'
    BY <2>1 DEF FlowInv, NoHoles, IsEvent
  <2>4. Accounted'
    <3> SUFFICES ASSUME phase' \in {"listening", "handling"}, NEW m \in DOMAIN published,
                        IsEvent(m), published[m].via = since, m \notin Elements(archived)
                 PROVE  \/ m \in Elements(inbox)'
                        \/ link # "up" /\ \A x \in Elements(inbox)' : x < m
      BY <2>1 DEF Accounted, IsEvent
    <3>1. m # h
      <4>1. m # 0
        BY DEF TypeInv, TypeOK
      <4> QED BY <4>1, <1>8 DEF Confirmation
    <3>2. \/ m \in Elements(inbox)
          \/ link # "up" /\ \A x \in Elements(inbox) : x < m
      BY <1>1 DEF FlowInv, Accounted
    <3> QED BY <3>1, <3>2, <1>2
  <2> QED BY <2>2, <2>3, <2>4, <1>7 DEF FlowInv
<1>9. CASE archived' = Append(archived, h) /\ h # Confirmation /\ IsEvent(h)
  <2>1. h \in Message /\ Elements(archived)' = Elements(archived) \cup {h}
    <3>1. h \in Message
      BY <1>2, <1>9, MaxMessagesAssumption DEF Message, Confirmation
    <3>2. archived \in Seq(Message)
      BY <1>1
    <3> HIDE DEF h
    <3>3. Elements(Append(archived, h)) = Elements(archived) \cup {h}
      BY <3>1, <3>2, AppendElements
    <3> QED BY <3>1, <3>3, <1>9 DEF Elements
  <2>2. h \in Elements(inbox) /\ h <= Len(published) /\ published[h].via = since
        /\ h \in DOMAIN published
    <3>1. h \in Elements(inbox) /\ h \in Nat \ {0}
      BY <1>2, <1>9, MaxMessagesAssumption DEF Confirmation
    <3>2. h <= Len(published) /\ published[h].via = since
      BY <3>1, <1>9 DEF FlowInv, Ordered, Carried
    <3> QED BY <3>1, <3>2 DEF TypeInv, TypeOK
  <2>3. \A m \in Elements(archived) : m < h
    BY <2>2, <1>9 DEF FlowInv, Ordered
  <2>4. ArchivedInOrder'
    <3>1. /\ DOMAIN archived = 1 .. Len(archived) /\ Len(archived) \in Nat
          /\ DOMAIN archived' = 1 .. (Len(archived) + 1)
          /\ archived'[Len(archived) + 1] = h
          /\ \A i \in 1 .. Len(archived) : archived'[i] = archived[i]
      BY <1>1, <1>9, <2>1
    <3>2. \A i \in 1 .. Len(archived) : archived[i] < h
      BY <2>3, <3>1 DEF Elements
    <3>3. \A i, j \in DOMAIN archived' : i < j => archived'[i] < archived'[j]
      BY <3>1, <3>2 DEF FlowInv, Ordered, ArchivedInOrder
    <3>4. \A m \in Elements(archived)' : m <= Len(published)' /\ IsEvent(m)'
      BY <2>1, <2>2, <1>1, <1>9 DEF FlowInv, Ordered, ArchivedInOrder, IsEvent
    <3> QED BY <3>3, <3>4 DEF ArchivedInOrder
  <2>5. Ordered'
    BY <1>2, <1>4, <1>5, <1>6, <2>1, <2>4 DEF FlowInv, Ordered
  <2>6. Accounted'
    <3> SUFFICES ASSUME NEW m \in DOMAIN published,
                        IsEvent(m), published[m].via = since, m \notin Elements(archived)'
                 PROVE  \/ m \in Elements(inbox)'
                        \/ link # "up" /\ \A x \in Elements(inbox)' : x < m
      BY <1>1 DEF Accounted, IsEvent
    <3>1. m # h /\ m \notin Elements(archived)
      BY <2>1
    <3>2. \/ m \in Elements(inbox)
          \/ link # "up" /\ \A x \in Elements(inbox) : x < m
      BY <3>1, <1>1 DEF FlowInv, Accounted
    <3> QED BY <3>1, <3>2, <1>2
  <2>7. NoHoles'
    <3> SUFFICES ASSUME NEW m \in Elements(archived)', NEW n \in 1 .. m, n \in DOMAIN published,
                        IsEvent(n), published[n].via = published[m].via
                 PROVE  n \in Elements(archived)'
      BY <1>1 DEF NoHoles, IsEvent
    <3>1. CASE m \in Elements(archived)
      BY <3>1, <2>1 DEF FlowInv, NoHoles
    <3>2. CASE m = h
      <4> SUFFICES ASSUME n \notin Elements(archived), n # h PROVE FALSE
        BY <2>1
      <4>1. n \in Nat /\ h \in Nat /\ n < h
        BY <3>2, <2>1, MaxMessagesAssumption DEF Message
      <4>2. \/ n \in Elements(inbox)
            \/ \A x \in Elements(inbox) : x < n
        BY <3>2, <2>2, <1>1 DEF FlowInv, Accounted
      <4> QED BY <4>1, <4>2, <2>2, <1>2, <1>5
    <3> QED BY <3>1, <3>2, <2>1
  <2> QED BY <2>5, <2>6, <2>7, <1>7 DEF FlowInv
<1>10. \/ archived' = archived /\ phase' = "unsubscribing"
       \/ archived' = archived /\ (h = Confirmation \/ published[h].kind = "ignored")
       \/ archived' = Append(archived, h) /\ h # Confirmation /\ published[h].kind # "ignored"
            /\ published[h].kind # "rejected"
  BY DEF Receive, Leave
<1>11. h # Confirmation => published[h].kind \in Kind
  <2> SUFFICES ASSUME h # Confirmation PROVE published[h].kind \in Kind
    OBVIOUS
  <2>1. h \in Elements(inbox) /\ h \in Nat \ {0}
    BY <1>2, MaxMessagesAssumption DEF Confirmation
  <2>2. h <= Len(published)
    BY <2>1 DEF FlowInv, Ordered
  <2>3. h \in DOMAIN published
    BY <2>1, <2>2 DEF TypeInv, TypeOK
  <2> QED BY <2>3, EntryFields
<1> QED BY <1>8, <1>9, <1>10, <1>11 DEF IsEvent, Kind

(* Every other step leaves messages and archive alone, or ends the loop.    *)
LEMMA FlowFrame ==
  ASSUME FlowInv, UNCHANGED <<published, since, archived>>,
         inbox' = <<>> \/ inbox' = inbox,
         phase' \in {"listening", "handling"} =>
           phase \in {"listening", "handling"} /\ UNCHANGED <<link, inbox>>
  PROVE  FlowInv'
<1>1. DOMAIN <<>> = {} /\ Elements(<<>>) = {}
  <2>1. \A i \in DOMAIN <<>> : FALSE
    OBVIOUS
  <2> QED BY <2>1 DEF Elements
<1>2. CASE inbox' = inbox
  BY <1>2 DEF FlowInv, Ordered, Carried, Accounted, NoHoles, ArchivedInOrder, IsEvent, Elements
<1>3. CASE inbox' = <<>> /\ inbox' # inbox
  <2>1. phase' \notin {"listening", "handling"} /\ Elements(inbox)' = {} /\ DOMAIN inbox' = {}
    BY <1>1, <1>3 DEF Elements
  <2> QED BY <2>1 DEF FlowInv, Ordered, Carried, Accounted, NoHoles, ArchivedInOrder, IsEvent,
                      Elements
<1> QED BY <1>2, <1>3

LEMMA FlowStep == TypeInv /\ FlowInv /\ [Next]_vars => FlowInv'
<1> SUFFICES ASSUME TypeInv, FlowInv, [Next]_vars PROVE FlowInv'
  OBVIOUS
<1> USE DEF linkVars, taskVars, Resumes
<1>1. ASSUME NEW enabled \in BOOLEAN, Start(enabled) PROVE FlowInv'
  BY <1>1, FlowFrame DEF Start
<1>2. CASE Crash
  BY <1>2, FlowFrame DEF Crash
<1>3. CASE Subscribed \/ Resubscribed
  BY <1>3, FlowConnect DEF Subscribed, Resubscribed
<1>4. CASE SubscribeRaises \/ ListenRaises \/ HandleRaises
  BY <1>4, FlowFrame DEF SubscribeRaises, ListenRaises, HandleRaises, Leave
<1>5. CASE HandleReturns
  BY <1>5, FlowFrame DEF HandleReturns
<1>6. CASE Cancelled
  BY <1>6, FlowFrame DEF Cancelled, Leave
<1>7. CASE Unsubscribed \/ UnsubscribeRaises \/ Closed
  BY <1>7, FlowFrame DEF Unsubscribed, UnsubscribeRaises, Closed
<1>8. CASE Shutdown \/ TaskAwaited \/ UNCHANGED vars
  BY <1>8, FlowFrame DEF Shutdown, TaskAwaited, vars
<1> QED BY <1>1, <1>2, <1>3, <1>4, <1>5, <1>6, <1>7, <1>8, FlowReceive, FlowPublish, FlowBreaks
        DEF Next, TaskStep

LEMMA FlowAlways == Spec => []FlowInv
BY TypeInit, TypeStep, FlowInit, FlowStep, PTL DEF Spec

(* The archive gets published events, in order and none of them twice.      *)
THEOREM InOrder == Spec => []ArchivedInOrder
<1>1. FlowInv => ArchivedInOrder
  BY DEF FlowInv, Ordered
<1> QED BY <1>1, FlowAlways, PTL

(* Within one connection, nothing before an archived event is lost.         *)
THEOREM WithoutHoles == Spec => []NoHoles
<1>1. FlowInv => NoHoles
  BY DEF FlowInv
<1> QED BY <1>1, FlowAlways, PTL

-----------------------------------------------------------------------------
(* The refinement.  No message was sent to a connection that is newer than  *)
(* the present one, so a replaced connection is never heard of again.       *)
Latest == \A m \in DOMAIN published : published[m].via <= since

LEMMA LatestStep == TypeInv /\ Latest /\ [Next]_vars => Latest'
<1> SUFFICES ASSUME TypeInv, Latest, [Next]_vars PROVE Latest'
  OBVIOUS
<1>0. /\ published \in Seq([kind : Kind, via : 0 .. MaxMessages])
      /\ DOMAIN published = 1 .. Len(published) /\ Len(published) \in Nat
      /\ since \in Nat \ {0} /\ since <= Len(published) + 1
  BY MaxMessagesAssumption DEF TypeInv, TypeOK
<1>1. ASSUME NEW kind \in Kind, Publish(kind) PROVE Latest'
  <2>1. PICK v \in {since, 0} : published' = Append(published, [kind |-> kind, via |-> v])
    BY <1>1 DEF Publish, Nobody
  <2>2. v \in 0 .. MaxMessages
    <3>1. Len(published) < MaxMessages
      BY <1>1 DEF Publish
    <3> QED BY <1>0, <3>1, MaxMessagesAssumption
  <2>3. [kind |-> kind, via |-> v] \in [kind : Kind, via : 0 .. MaxMessages]
    BY <2>2
  <2>4. /\ DOMAIN published' = 1 .. Len(published) + 1
        /\ published'[Len(published) + 1] = [kind |-> kind, via |-> v]
        /\ \A m \in 1 .. Len(published) : published'[m] = published[m]
    BY <1>0, <2>1, <2>3
  <2>5. since' = since /\ v <= since
    BY <1>0, <1>1, <2>1 DEF Publish
  <2> SUFFICES ASSUME NEW m \in 1 .. Len(published) + 1 PROVE published'[m].via <= since
    BY <2>4, <2>5 DEF Latest
  <2>6. CASE m = Len(published) + 1
    BY <2>4, <2>5, <2>6
  <2>7. CASE m # Len(published) + 1
    <3>1. m \in 1 .. Len(published)
      BY <1>0, <2>7
    <3> QED BY <1>0, <2>4, <3>1 DEF Latest
  <2> QED BY <2>6, <2>7
<1>2. CASE Subscribed \/ Resubscribed
  <2>1. since' = Len(published) + 1 /\ published' = published
    BY <1>2 DEF Subscribed, Resubscribed, Connect
  <2>2. \A m \in DOMAIN published : published[m].via \in Nat
    BY EntryFields, MaxMessagesAssumption
  <2> QED BY <1>0, <2>1, <2>2 DEF Latest
<1>3. CASE UNCHANGED <<published, since>>
  BY <1>3 DEF Latest
<1>4. \/ \E kind \in Kind : Publish(kind)
      \/ Subscribed \/ Resubscribed
      \/ UNCHANGED <<published, since>>
  BY DEF Next, TaskStep, Start, Crash, LinkBreaks, SubscribeRaises, Receive, ListenRaises,
         HandleReturns, HandleRaises, Cancelled, Unsubscribed, UnsubscribeRaises, Closed,
         Shutdown, TaskAwaited, vars, linkVars
<1> QED BY <1>1, <1>2, <1>3, <1>4

ChannelInv == TypeInv /\ FlowInv /\ Latest

LEMMA ChannelAlways == Spec => []ChannelInv
<1>1. Init => Latest
  BY DEF Init, Latest
<1>2. TypeInv /\ FlowInv /\ Latest => ChannelInv
  BY DEF ChannelInv
<1> QED BY <1>1, <1>2, TypeInit, TypeStep, LatestStep, FlowAlways, PTL DEF Spec

LEMMA PublishMaps ==
  ASSUME ChannelInv, NEW kind \in Kind, Publish(kind)
  PROVE  Channel!Next
<1>1. PICK v \in {since, Nobody} : published' = Append(published, [kind |-> kind, via |-> v])
  BY DEF Publish
<1>2. archived' = archived
  BY DEF Publish
<1>3. v = Nobody \/ \A m \in DOMAIN published : published[m].via <= v
  BY <1>1 DEF ChannelInv, Latest
<1>4. Channel!Publish(kind, v)
  BY <1>1, <1>2, <1>3 DEF Channel!Publish
<1>5. v \in 0 .. Len(published) + 1
  <2>1. since \in Nat /\ since <= Len(published) + 1 /\ Len(published) \in Nat
    BY MaxMessagesAssumption DEF ChannelInv, TypeInv, TypeOK
  <2> QED BY <1>1, <2>1 DEF Nobody
<1> QED BY <1>4, <1>5 DEF Channel!Next

(* What the loop archives came over the present connection; the invariant of*)
(* the next state says that nothing before it is missing.                   *)
LEMMA ReceiveMaps ==
  ASSUME ChannelInv, FlowInv', NEW stores \in BOOLEAN, Receive(stores), archived' # archived
  PROVE  Channel!Next
<1> DEFINE h == Head(inbox)
<1>1. /\ archived' = Append(archived, h) /\ UNCHANGED published
      /\ h # Confirmation /\ inbox # <<>>
  BY DEF Receive, Leave
<1>2. inbox \in Seq(0 .. MaxMessages) /\ archived \in Seq(Message)
  BY DEF ChannelInv, TypeInv, TypeOK
<1>3. h \in Message
  BY <1>1, <1>2, MaxMessagesAssumption DEF Message, Confirmation
<1>4. h \in Elements(inbox)
  BY <1>1, <1>2, TailElements, Zenon
<1>5. Elements(archived)' = Elements(archived) \cup {h}
  <2> HIDE DEF h
  <2>1. Elements(Append(archived, h)) = Elements(archived) \cup {h}
    BY <1>2, <1>3, AppendElements
  <2> QED BY <1>1, <2>1 DEF Elements
<1>6. h <= Len(published) /\ IsEvent(h)
  <2>1. \A m \in Elements(archived)' : m <= Len(published') /\ IsEvent(m)'
    BY DEF FlowInv, Ordered, ArchivedInOrder
  <2> HIDE DEF h
  <2> QED BY <1>1, <1>5, <2>1 DEF IsEvent
<1>7. h \in DOMAIN published
  BY <1>3, <1>6 DEF ChannelInv, TypeInv, TypeOK, Message
<1>8. published[h].via # Nobody
  <2>1. published[h].via = since
    BY <1>1, <1>4 DEF ChannelInv, FlowInv, Carried
  <2> QED BY <2>1 DEF ChannelInv, TypeInv, TypeOK, Nobody
<1>9. \A n \in Elements(archived) : n < h
  BY <1>1, <1>4 DEF ChannelInv, FlowInv, Ordered
<1>10. \A n \in 1 .. h - 1 : published[n].kind = "event" /\ published[n].via = published[h].via
         => n \in Elements(archived)
  <2> SUFFICES ASSUME NEW n \in 1 .. h - 1, published[n].kind = "event",
                      published[n].via = published[h].via
               PROVE  n \in Elements(archived)
    OBVIOUS
  <2>1. n \in 1 .. h /\ n # h /\ n \in DOMAIN published
    <3>1. h \in Nat /\ h <= Len(published) /\ DOMAIN published = 1 .. Len(published)
      BY <1>3, <1>6, MaxMessagesAssumption DEF Message, ChannelInv, TypeInv, TypeOK
    <3> HIDE DEF h
    <3> QED BY <3>1
  <2>2. n \in Elements(archived)'
    <3>1. h \in Elements(archived)'
      BY <1>5
    <3>2. IsEvent(n)' /\ published'[n].via = published'[h].via /\ n \in DOMAIN published'
      BY <1>1, <2>1 DEF IsEvent
    <3> HIDE DEF h
    <3> QED BY <2>1, <3>1, <3>2 DEF FlowInv, NoHoles
  <2> QED BY <1>5, <2>1, <2>2
<1> HIDE DEF h
<1>11. Channel!Archive(h)
  BY <1>1, <1>6, <1>8, <1>9, <1>10 DEF Channel!Archive, Channel!Elements, Elements, IsEvent
<1> QED BY <1>7, <1>11 DEF Channel!Next

LEMMA ChannelStep ==
  ChannelInv /\ FlowInv' /\ [Next]_vars => [Channel!Next]_<<published, archived>>
<1> SUFFICES ASSUME ChannelInv, FlowInv', [Next]_vars
             PROVE  [Channel!Next]_<<published, archived>>
  OBVIOUS
<1>1. ASSUME NEW stores \in BOOLEAN, Receive(stores)
      PROVE  [Channel!Next]_<<published, archived>>
  <2>1. published' = published
    BY <1>1 DEF Receive
  <2> QED BY <1>1, <2>1, ReceiveMaps
<1>2. \/ \E kind \in Kind : Publish(kind)
      \/ \E stores \in BOOLEAN : Receive(stores)
      \/ UNCHANGED <<published, archived>>
  BY DEF Next, TaskStep, Start, Crash, LinkBreaks, Subscribed, SubscribeRaises, ListenRaises,
         Resubscribed, HandleReturns, HandleRaises, Cancelled, Unsubscribed, UnsubscribeRaises,
         Closed, Shutdown, TaskAwaited, vars, linkVars
<1> QED BY <1>1, <1>2, PublishMaps

(* The subscriber, its connections and the lifespan implement               *)
(* AtMostOnceChannel, for any number of messages, reconnects and crashes.   *)
THEOREM ArchivesAtMostOnce == Spec => AtMostOnce
<1>1. Init => Channel!Init
  BY DEF Init, Channel!Init
<1>2. ChannelInv => FlowInv
  BY DEF ChannelInv
<1> QED BY <1>1, <1>2, ChannelStep, ChannelAlways, PTL DEF Spec, AtMostOnce, Channel!Spec
=============================================================================
