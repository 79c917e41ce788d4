------------------------- MODULE RuntimeGraphProofs -------------------------
(***************************************************************************)
(* TLAPS proofs about RuntimeGraph, for every number of spans, events and  *)
(* timestamps and every size of the browser's list.                        *)
(***************************************************************************)
EXTENDS RuntimeGraph, FiniteSetTheorems, TLAPS

-----------------------------------------------------------------------------
(* Lists of events.                                                         *)

LEMMA ReversedType ==
  ASSUME NEW q \in Seq(Event)
  PROVE  /\ Reversed(q) \in Seq(Event)
         /\ DOMAIN Reversed(q) = 1 .. Len(q)
         /\ \A i \in 1 .. Len(q) : Reversed(q)[i] = q[Len(q) + 1 - i]
BY DEF Reversed

LEMMA FirstOfType ==
  ASSUME NEW q \in Seq(Event), NEW n \in Nat
  PROVE  /\ FirstOf(q, n) \in Seq(Event)
         /\ DOMAIN FirstOf(q, n) \subseteq DOMAIN q
         /\ \A i \in DOMAIN FirstOf(q, n) : FirstOf(q, n)[i] = q[i]
BY DEF FirstOf

\* Every event of q is one of p.
Within(q, p) == \A i \in DOMAIN q : \E j \in DOMAIN p : q[i] = p[j]

LEMMA NewestWithin ==
  ASSUME NEW n \in Nat, history \in Seq(Event)
  PROVE  Newest(n) \in Seq(Event) /\ Within(Newest(n), history)
<1> DEFINE r == Reversed(history)
           f == FirstOf(r, n)
<1>1. r \in Seq(Event) /\ DOMAIN r = 1 .. Len(history)
      /\ \A i \in 1 .. Len(history) : r[i] = history[Len(history) + 1 - i]
  BY ReversedType
<1>2. f \in Seq(Event) /\ DOMAIN f \subseteq DOMAIN r /\ \A i \in DOMAIN f : f[i] = r[i]
  BY <1>1, FirstOfType
<1>3. Reversed(f) \in Seq(Event) /\ DOMAIN Reversed(f) = 1 .. Len(f)
      /\ \A i \in 1 .. Len(f) : Reversed(f)[i] = f[Len(f) + 1 - i]
  BY <1>2, ReversedType
<1>4. ASSUME NEW i \in DOMAIN Reversed(f)
      PROVE  \E j \in DOMAIN history : Reversed(f)[i] = history[j]
  <2> DEFINE k == Len(f) + 1 - i
  <2>1. k \in DOMAIN f /\ Reversed(f)[i] = f[k]
    BY <1>2, <1>3
  <2>2. f[k] = r[k] /\ k \in 1 .. Len(history)
    BY <1>1, <1>2, <2>1
  <2>3. Len(history) + 1 - k \in DOMAIN history
    BY <2>2
  <2> QED BY <1>1, <2>1, <2>2, <2>3
<1> QED BY <1>3, <1>4 DEF Newest, Within

-----------------------------------------------------------------------------
(* Types.  No event is of a span that did not start.                        *)
Known(q, n) == \A i \in DOMAIN q : q[i].span <= n

TypeInv ==
  /\ TypeOK
  /\ Known(history, Len(spans))
  /\ Known(events, Len(spans))
  /\ \A s \in Span : spanToNode[s] # NoNode => spanToNode[s] \in nodes

\* What Render leaves behind, whatever the list.
Blank ==
  /\ phase = "build"
  /\ todo = DOMAIN events
  /\ nodes = {}
  /\ edges = {}
  /\ spanToNode = [s \in Span |-> NoNode]
  /\ status = [n \in NodeIds |-> "unknown"]
  /\ levels = [n \in NodeIds |-> NoLevel]
  /\ queue = {}
  /\ shown = [n \in NodeIds |-> "unknown"]

LEMMA RenderBlank ==
  ASSUME NEW q, NEW b, Render(q, b)
  PROVE  Blank' /\ events' = q /\ live' = b
BY DEF Render, Blank

LEMMA BlankTypes ==
  ASSUME Blank
  PROVE  /\ phase \in {"idle", "build", "layout"}
         /\ todo \subseteq DOMAIN events
         /\ nodes \subseteq NodeIds
         /\ edges \subseteq nodes \X nodes
         /\ spanToNode \in [Span -> NodeIds \cup {NoNode}]
         /\ status \in [NodeIds -> Statuses]
         /\ levels \in [NodeIds -> {NoLevel} \cup 0 .. MaxLevel]
         /\ queue \subseteq NodeIds \X (0 .. MaxLevel)
         /\ shown \in [NodeIds -> Statuses]
BY DEF Blank, Statuses

LEMMA EventFields ==
  ASSUME NEW e \in Event
  PROVE  e.span \in 0 .. MaxSpans /\ e.kind \in {"start", "end"} /\ e.time \in 0 .. MaxTime
BY DEF Event

LEMMA KnownPut ==
  ASSUME NEW q \in Seq(Event), NEW e \in Event, NEW n \in Nat, NEW m \in Nat,
         Known(q, m), m <= n, e.span <= n
  PROVE  /\ <<e>> \o q \in Seq(Event) /\ Known(<<e>> \o q, n)
         /\ Append(q, e) \in Seq(Event) /\ Known(Append(q, e), n)
<1>1. <<e>> \o q \in Seq(Event) /\ Append(q, e) \in Seq(Event)
  OBVIOUS
<1>2. \A i \in DOMAIN q : q[i].span \in Nat /\ q[i].span <= n
  <2> TAKE i \in DOMAIN q
  <2>1. q[i] \in Event /\ q[i].span <= m
    BY DEF Known
  <2> QED BY <2>1, EventFields, BoundsAssumption
<1>3. ASSUME NEW i \in DOMAIN (<<e>> \o q) PROVE (<<e>> \o q)[i].span <= n
  <2>1. CASE i = 1
    BY <2>1
  <2>2. CASE i # 1
    <3>1. i - 1 \in DOMAIN q /\ (<<e>> \o q)[i] = q[i - 1]
      BY <2>2
    <3> QED BY <3>1, <1>2
  <2> QED BY <2>1, <2>2
<1>4. ASSUME NEW i \in DOMAIN Append(q, e) PROVE Append(q, e)[i].span <= n
  <2>1. CASE i = Len(q) + 1
    BY <2>1
  <2>2. CASE i # Len(q) + 1
    <3>1. i \in DOMAIN q /\ Append(q, e)[i] = q[i]
      BY <2>2
    <3> QED BY <3>1, <1>2
  <2> QED BY <2>1, <2>2
<1> QED BY <1>1, <1>3, <1>4 DEF Known

(* A live event: it is the newest of the run and heads the list.            *)
LEMMA ReceiveTypes ==
  ASSUME TypeInv, NEW e \in Event, Receive(e), NEW n \in Nat, Len(spans) <= n, e.span <= n
  PROVE  /\ history' \in Seq(Event) /\ events' \in Seq(Event) /\ live' \in BOOLEAN
         /\ Known(history', n) /\ Known(events', n)
<1> DEFINE q == <<e>> \o events
<1>0. /\ events \in Seq(Event) /\ history \in Seq(Event) /\ Len(spans) \in Nat
      /\ Known(history, Len(spans)) /\ Known(events, Len(spans))
  BY DEF TypeInv, TypeOK
<1>1. q \in Seq(Event) /\ Known(q, n) /\ Append(history, e) \in Seq(Event)
      /\ Known(Append(history, e), n)
  BY <1>0, KnownPut
<1>2. Render(FirstOf(q, MaxShown), TRUE) /\ history' = Append(history, e)
  BY DEF Receive
<1>3. events' = FirstOf(q, MaxShown) /\ live' = TRUE
  BY <1>2, RenderBlank
<1>4. MaxShown \in Nat
  BY BoundsAssumption
<1> HIDE DEF q
<1>5. events' \in Seq(Event) /\ DOMAIN events' \subseteq DOMAIN q
      /\ \A i \in DOMAIN events' : events'[i] = q[i]
  BY <1>1, <1>3, <1>4, FirstOfType
<1>6. Known(events', n)
  BY <1>1, <1>5 DEF Known
<1> QED BY <1>1, <1>2, <1>3, <1>5, <1>6

LEMMA EmitIsReceive ==
  ASSUME TypeInv, NEW s \in 0 .. MaxSpans, NEW kind \in {"start", "end"}, Emit(s, kind)
  PROVE  \E e \in Event : e.span = s /\ e.kind = kind /\ e.time >= Now /\ Receive(e)
<1>1. PICK t \in {Now, Now + 1} :
         t <= MaxTime /\ Receive([span |-> s, kind |-> kind, time |-> t])
  BY DEF Emit
<1>2. Now \in Nat
  <2>1. CASE history = <<>>
    BY <2>1 DEF Now
  <2>2. CASE history # <<>>
    <3>1. history \in Seq(Event)
      BY DEF TypeInv, TypeOK
    <3>2. history[Len(history)] \in Event
      BY <2>2, <3>1
    <3>3. history[Len(history)].time \in 0 .. MaxTime
      BY <3>2, EventFields
    <3> QED BY <2>2, <3>3, BoundsAssumption DEF Now
  <2> QED BY <2>1, <2>2
<1>3. t \in 0 .. MaxTime
  BY <1>1, <1>2, BoundsAssumption
<1>4. [span |-> s, kind |-> kind, time |-> t] \in Event
  BY <1>3 DEF Event
<1> QED BY <1>1, <1>2, <1>4

LEMMA InitTypes == Init => TypeInv
<1> SUFFICES ASSUME Init PROVE TypeInv
  OBVIOUS
<1>1. Blank /\ events = <<>> /\ history = <<>> /\ spans = <<>> /\ live = FALSE
  BY DEF Init, Blank
<1>2. events \in Seq(Event) /\ history \in Seq(Event) /\ spans \in Seq([name : Names, parent : 0 .. MaxSpans])
      /\ Len(spans) <= MaxSpans
  BY <1>1, BoundsAssumption
<1>3. Known(events, Len(spans)) /\ Known(history, Len(spans))
  BY <1>1 DEF Known
<1>4. \A s \in Span : spanToNode[s] = NoNode
  BY <1>1 DEF Blank
<1> QED BY <1>1, <1>2, <1>3, <1>4, BlankTypes DEF TypeInv, TypeOK

\* The types after a step that renders a list.
LEMMA RenderTypes ==
  ASSUME NEW q \in Seq(Event), NEW b \in BOOLEAN, Render(q, b),
         spans' \in Seq([name : Names, parent : 0 .. MaxSpans]), Len(spans') <= MaxSpans,
         history' \in Seq(Event), Known(history', Len(spans')), Known(q, Len(spans'))
  PROVE  TypeInv'
<1>1. Blank' /\ events' = q /\ live' = b
  BY RenderBlank
<1>2. /\ phase' \in {"idle", "build", "layout"}
      /\ todo' \subseteq DOMAIN events'
      /\ nodes' \subseteq NodeIds
      /\ edges' \subseteq nodes' \X nodes'
      /\ spanToNode' \in [Span -> NodeIds \cup {NoNode}]
      /\ status' \in [NodeIds -> Statuses]
      /\ levels' \in [NodeIds -> {NoLevel} \cup 0 .. MaxLevel]
      /\ queue' \subseteq NodeIds \X (0 .. MaxLevel)
      /\ shown' \in [NodeIds -> Statuses]
  BY <1>1 DEF Blank, Statuses
<1>3. \A s \in Span : spanToNode'[s] = NoNode
  BY <1>1 DEF Blank
<1> QED BY <1>1, <1>2, <1>3 DEF TypeInv, TypeOK

LEMMA RunTypes ==
  ASSUME TypeInv, RunStep
  PROVE  TypeInv'
<1>0. /\ spans \in Seq([name : Names, parent : 0 .. MaxSpans])
      /\ Len(spans) <= MaxSpans /\ Len(spans) \in Nat /\ MaxSpans \in Nat
  BY BoundsAssumption DEF TypeInv, TypeOK
<1>1. ASSUME NEW s \in 0 .. MaxSpans, NEW kind \in {"start", "end"}, Emit(s, kind),
             spans' \in Seq([name : Names, parent : 0 .. MaxSpans]),
             Len(spans') <= MaxSpans, Len(spans) <= Len(spans'), s <= Len(spans')
      PROVE  TypeInv'
  <2>1. PICK e \in Event : e.span = s /\ Receive(e)
    BY <1>1, EmitIsReceive
  <2>2. Len(spans') \in Nat
    BY <1>1
  <2>3. /\ history' \in Seq(Event) /\ events' \in Seq(Event) /\ live' \in BOOLEAN
        /\ Known(history', Len(spans')) /\ Known(events', Len(spans'))
    BY <1>1, <2>1, <2>2, ReceiveTypes
  <2>4. Render(FirstOf(<<e>> \o events, MaxShown), TRUE)
    BY <2>1 DEF Receive
  <2>5. FirstOf(<<e>> \o events, MaxShown) = events'
    BY <2>4, RenderBlank
  <2> QED BY <1>1, <2>3, <2>4, <2>5, RenderTypes
<1>2. CASE StartTrace
  <2>1. Emit(0, "start") /\ spans' = spans
    BY <1>2 DEF StartTrace
  <2>2. /\ spans' \in Seq([name : Names, parent : 0 .. MaxSpans])
        /\ Len(spans') <= MaxSpans /\ Len(spans) <= Len(spans') /\ 0 <= Len(spans')
        /\ 0 \in 0 .. MaxSpans
    BY <1>0, <2>1
  <2> QED BY <1>1, <2>1, <2>2, Zenon
<1>3. ASSUME NEW name \in Names, NEW parent \in 0 .. Len(spans), StartSpan(name, parent)
      PROVE  TypeInv'
  <2>1. /\ Len(spans) < MaxSpans
        /\ spans' = Append(spans, [name |-> name, parent |-> parent])
        /\ Emit(Len(spans) + 1, "start")
    BY <1>3 DEF StartSpan
  <2>2. [name |-> name, parent |-> parent] \in [name : Names, parent : 0 .. MaxSpans]
    BY <1>0
  <2>3. /\ spans' \in Seq([name : Names, parent : 0 .. MaxSpans])
        /\ Len(spans') <= MaxSpans /\ Len(spans) <= Len(spans')
        /\ Len(spans) + 1 <= Len(spans')
    BY <1>0, <2>1, <2>2
  <2>4. Len(spans) + 1 \in 0 .. MaxSpans
    BY <1>0, <2>1
  <2> QED BY <1>1, <2>1, <2>3, <2>4, Zenon
<1>4. ASSUME NEW s \in 0 .. Len(spans), EndSpan(s)
      PROVE  TypeInv'
  <2>1. Emit(s, "end") /\ spans' = spans
    BY <1>4 DEF EndSpan
  <2>2. /\ spans' \in Seq([name : Names, parent : 0 .. MaxSpans])
        /\ Len(spans') <= MaxSpans /\ Len(spans) <= Len(spans') /\ s <= Len(spans')
        /\ s \in 0 .. MaxSpans
    BY <1>0, <2>1
  <2> QED BY <1>1, <2>1, <2>2, Zenon
<1> QED BY <1>2, <1>3, <1>4 DEF RunStep

LEMMA LoadTypes ==
  ASSUME TypeInv, LoadStep
  PROVE  TypeInv'
<1>0. /\ history \in Seq(Event) /\ Known(history, Len(spans)) /\ Len(spans) \in Nat
      /\ spans \in Seq([name : Names, parent : 0 .. MaxSpans]) /\ Len(spans) <= MaxSpans
  BY DEF TypeInv, TypeOK
<1>1. ASSUME NEW q \in Seq(Event), Within(q, history), Render(q, FALSE), UNCHANGED runVars
      PROVE  TypeInv'
  <2>1. Known(q, Len(spans))
    BY <1>0, <1>1 DEF Known, Within
  <2> QED BY <1>0, <1>1, <2>1, RenderTypes DEF runVars
<1>2. CASE Replay
  <2>1. MaxReplay \in Nat
    BY BoundsAssumption
  <2> QED BY <1>0, <1>1, <1>2, <2>1, NewestWithin DEF Replay
<1>3. ASSUME NEW wanted \in Wanted, Search(wanted)
      PROVE  TypeInv'
  <2> DEFINE hits == {i \in DOMAIN history : StatusOf(history[i]) = wanted}
  <2>0. PICK n \in 0 .. MaxShown : \E row \in [1 .. n -> hits] :
          Render([k \in 1 .. n |-> history[row[k]]], FALSE)
    BY <1>3 DEF Search
  <2>1. PICK row \in [1 .. n -> hits] : Render([k \in 1 .. n |-> history[row[k]]], FALSE)
    BY <2>0
  <2> DEFINE q == [k \in 1 .. n |-> history[row[k]]]
  <2>2. n \in Nat
    BY BoundsAssumption
  <2>3. \A k \in 1 .. n : row[k] \in DOMAIN history /\ history[row[k]] \in Event
    BY <1>0
  <2>4. q \in Seq(Event) /\ Within(q, history)
    BY <2>2, <2>3 DEF Within
  <2>5. UNCHANGED runVars
    BY <1>3 DEF Search
  <2> QED BY <1>1, <2>1, <2>4, <2>5
<1> QED BY <1>2, <1>3 DEF LoadStep

LEMMA ElementType ==
  ASSUME NEW S, NEW q \in Seq(S), NEW k \in DOMAIN q
  PROVE  q[k] \in S
OBVIOUS

LEMMA NodeTypes ==
  ASSUME TypeInv, NEW i \in DOMAIN events
  PROVE  /\ events[i].span \in 0 .. Len(spans)
         /\ events[i].span # 0 => /\ events[i].span \in Span
                                  /\ Name(events[i].span) \in Names
                                  /\ Parent(events[i].span) \in 0 .. MaxSpans
         /\ NodeOf(events[i]) \in Names \cup {Workflow}
         /\ ResolvedNode(events[i]) \in Names \cup {Workflow}
         /\ EdgeSource(events[i]) \in nodes \cup {Workflow}
         /\ StatusOf(events[i]) \in {"active", "success"}
<1> DEFINE e == events[i]
<1>1. e \in Event /\ e.span <= Len(spans) /\ Len(spans) <= MaxSpans /\ Len(spans) \in Nat
  BY DEF TypeInv, TypeOK, Known
<1>2. e.span \in 0 .. Len(spans) /\ e.span \in 0 .. MaxSpans
  BY <1>1, EventFields, BoundsAssumption
<1>3. e.span # 0 => e.span \in DOMAIN spans /\ e.span \in Span
  BY <1>1, <1>2 DEF Span
<1>4. e.span # 0 => spans[e.span] \in [name : Names, parent : 0 .. MaxSpans]
  <2>1. spans \in Seq([name : Names, parent : 0 .. MaxSpans])
    BY DEF TypeInv, TypeOK
  <2> QED BY <1>3, <2>1, ElementType
<1>5. e.span # 0 => Name(e.span) \in Names /\ Parent(e.span) \in 0 .. MaxSpans
  BY <1>4 DEF Name, Parent
<1>6. NodeOf(e) \in Names \cup {Workflow} /\ ResolvedNode(e) \in Names \cup {Workflow}
  BY <1>5 DEF NodeOf, ResolvedNode
<1>7. EdgeSource(e) \in nodes \cup {Workflow}
  <2>1. CASE e.span # 0 /\ Parent(e.span) # 0 /\ spanToNode[Parent(e.span)] # NoNode
    <3>1. Parent(e.span) \in Span
      BY <1>5, <2>1, BoundsAssumption DEF Span
    <3>2. EdgeSource(e) = spanToNode[Parent(e.span)]
      BY <2>1 DEF EdgeSource
    <3> QED BY <2>1, <3>1, <3>2 DEF TypeInv
  <2>2. CASE ~ (e.span # 0 /\ Parent(e.span) # 0 /\ spanToNode[Parent(e.span)] # NoNode)
    <3>1. EdgeSource(e) = Workflow
      BY <2>2 DEF EdgeSource
    <3> QED BY <3>1
  <2> QED BY <2>1, <2>2
<1> QED BY <1>2, <1>3, <1>5, <1>6, <1>7 DEF StatusOf

LEMMA BranchTypes ==
  /\ \A n : BranchesAt(n) \subseteq Branches
  /\ Branches \subseteq NodeIds /\ Names \subseteq NodeIds
  /\ {Workflow, Waiting} \subseteq NodeIds
BY BranchesAssumption DEF BranchesAt, NodeIds

LEMMA BuildTypes ==
  ASSUME TypeInv, NEW i \in todo, BuildStep(i)
  PROVE  TypeInv'
<1> DEFINE e == events[i]
           n == NodeOf(e)
           from == EdgeSource(e)
           branches == BranchesAt(n)
<1>0. /\ UNCHANGED <<runVars, events, live, phase, layoutVars, shown>>
      /\ todo' = todo \ {i}
      /\ nodes' = nodes \cup {Workflow, n} \cup branches
      /\ edges' = edges \cup {edge \in {<<from, n>>} : n # Workflow /\ from # n}
                        \cup {<<n, b>> : b \in branches}
      /\ spanToNode' = [s \in Span |-> IF s = e.span THEN n ELSE spanToNode[s]]
      /\ status' = [m \in NodeIds |-> CASE m \in {Workflow, n} -> StatusOf(e)
                                        [] m \in branches -> "idle"
                                        [] OTHER -> status[m]]
  BY DEF BuildStep, AddedEdges, MergedStatus
<1>1. i \in DOMAIN events
  BY DEF TypeInv, TypeOK
<1>2. /\ n \in NodeIds /\ from \in nodes \cup {Workflow} /\ branches \subseteq NodeIds
      /\ Workflow \in NodeIds /\ StatusOf(e) \in Statuses
  BY <1>1, NodeTypes, BranchTypes DEF Statuses
<1> HIDE DEF e, n, from, branches
<1>3. nodes' \subseteq NodeIds /\ nodes \subseteq nodes'
  BY <1>0, <1>2 DEF TypeInv, TypeOK
<1>4. edges' \subseteq nodes' \X nodes'
  <2>1. edges \subseteq nodes' \X nodes'
    BY <1>3 DEF TypeInv, TypeOK
  <2>2. from \in nodes' /\ n \in nodes' /\ branches \subseteq nodes'
    BY <1>0, <1>2, <1>3
  <2> QED BY <1>0, <2>1, <2>2
<1>5. spanToNode' \in [Span -> NodeIds \cup {NoNode}]
  BY <1>0, <1>2 DEF TypeInv, TypeOK
<1>6. \A s \in Span : spanToNode'[s] # NoNode => spanToNode'[s] \in nodes'
  BY <1>0, <1>3 DEF TypeInv
<1>7. status' \in [NodeIds -> Statuses]
  <2>1. \A m \in NodeIds : (CASE m \in {Workflow, n} -> StatusOf(e)
                              [] m \in branches -> "idle"
                              [] OTHER -> status[m]) \in Statuses
    BY <1>2 DEF TypeInv, TypeOK, Statuses
  <2> QED BY <1>0, <2>1
<1>8. todo' \subseteq DOMAIN events'
  BY <1>0 DEF TypeInv, TypeOK
<1> QED BY <1>0, <1>3, <1>4, <1>5, <1>6, <1>7, <1>8 DEF TypeInv, TypeOK, runVars, layoutVars, Known

LEMMA StartLayoutTypes ==
  ASSUME TypeInv, StartLayout
  PROVE  TypeInv'
<1> DEFINE roots == {n \in AllNodes : \A edge \in edges : edge[2] # n}
<1>0. /\ phase' = "layout" /\ nodes' = AllNodes
      /\ levels' = [n \in NodeIds |-> IF n \in roots THEN 0 ELSE NoLevel]
      /\ queue' = {<<n, 0>> : n \in roots}
      /\ UNCHANGED <<runVars, events, live, todo, edges, spanToNode, status, shown>>
  BY DEF StartLayout, AllNodes
<1>1. nodes' \subseteq NodeIds /\ nodes \subseteq nodes' /\ roots \subseteq NodeIds
  BY <1>0, BranchTypes DEF AllNodes, TypeInv, TypeOK
<1>2. edges' \subseteq nodes' \X nodes'
  BY <1>0, <1>1 DEF TypeInv, TypeOK
<1>3. 0 \in 0 .. MaxLevel
  BY BoundsAssumption
<1>4. levels' \in [NodeIds -> {NoLevel} \cup 0 .. MaxLevel]
  BY <1>0, <1>3
<1>5. queue' \subseteq NodeIds \X (0 .. MaxLevel)
  BY <1>0, <1>1, <1>3
<1>6. \A s \in Span : spanToNode'[s] # NoNode => spanToNode'[s] \in nodes'
  BY <1>0, <1>1 DEF TypeInv
<1> QED BY <1>0, <1>1, <1>2, <1>4, <1>5, <1>6 DEF TypeInv, TypeOK, runVars, Known

LEMMA LayoutTypes ==
  ASSUME TypeInv, NEW entry \in queue, LayoutStep(entry[1], entry[2])
  PROVE  TypeInv'
<1> DEFINE id == entry[1]
           level == entry[2]
           raised == {m \in nodes : <<id, m>> \in edges /\ level + 1 > levels[m]}
<1>0. /\ level < MaxLevel
      /\ levels' = [m \in NodeIds |-> IF m \in raised THEN level + 1 ELSE levels[m]]
      /\ queue' = (queue \ {<<id, level>>}) \cup {<<m, level + 1>> : m \in raised}
      /\ UNCHANGED <<runVars, events, live, phase, todo, buildVars, shown>>
  BY DEF LayoutStep
<1>1. level + 1 \in 0 .. MaxLevel /\ raised \subseteq NodeIds
  BY <1>0, BoundsAssumption DEF TypeInv, TypeOK
<1> HIDE DEF raised, level
<1>2. levels' \in [NodeIds -> {NoLevel} \cup 0 .. MaxLevel]
  BY <1>0, <1>1 DEF TypeInv, TypeOK
<1>3. queue' \subseteq NodeIds \X (0 .. MaxLevel)
  BY <1>0, <1>1 DEF TypeInv, TypeOK
<1> QED BY <1>0, <1>2, <1>3 DEF TypeInv, TypeOK, runVars, buildVars, Known

LEMMA DrawTypes ==
  ASSUME TypeInv, Draw
  PROVE  TypeInv'
<1>1. /\ phase' = "idle"
      /\ levels' = [n \in NodeIds |-> IF n \in nodes /\ levels[n] = NoLevel THEN 0 ELSE levels[n]]
      /\ UNCHANGED <<runVars, events, live, todo, buildVars, queue>>
  BY DEF Draw
<1>2. levels' \in [NodeIds -> {NoLevel} \cup 0 .. MaxLevel]
  BY <1>1, BoundsAssumption DEF TypeInv, TypeOK
<1>3. shown' \in [NodeIds -> Statuses]
  <2>1. shown' = [n \in NodeIds |-> IF n \in nodes THEN ClassOf(n) ELSE "unknown"]
    BY DEF Draw
  <2>2. \A e : StatusOf(e) \in Statuses
    BY DEF StatusOf, Statuses
  <2>3. \A n \in NodeIds : ClassOf(n) \in Statuses
    BY <2>2 DEF ClassOf, TypeInv, TypeOK
  <2> QED BY <2>1, <2>3 DEF Statuses
<1> QED BY <1>1, <1>2, <1>3 DEF TypeInv, TypeOK, runVars, buildVars, Known

LEMMA RenderStepTypes ==
  ASSUME TypeInv, RenderStep
  PROVE  TypeInv'
BY BuildTypes, StartLayoutTypes, LayoutTypes, DrawTypes DEF RenderStep

LEMMA NextTypes == TypeInv /\ [Next]_vars => TypeInv'
<1>1. TypeInv /\ Next => TypeInv'
  BY RunTypes, LoadTypes, RenderStepTypes DEF Next
<1>2. TypeInv /\ UNCHANGED vars => TypeInv'
  BY DEF TypeInv, TypeOK, Known, vars, runVars, buildVars, layoutVars
<1> QED BY <1>1, <1>2

(* The types of every reachable state, whatever the run emits and whichever *)
(* lists the browser is given: the graph's edges only join nodes it has,    *)
(* and the layout's levels stay within its bound.                           *)
THEOREM TypeCorrect == Spec => []TypeOK
<1>1. Init => TypeInv
  BY InitTypes
<1>2. TypeInv => TypeOK
  BY DEF TypeInv
<1> QED BY <1>1, <1>2, NextTypes, PTL DEF Spec

-----------------------------------------------------------------------------
(* The graph.                                                               *)
Done == DOMAIN events \ todo

GraphInv ==
  /\ phase # "build" => todo = {}
  /\ \A i \in Done, j \in todo : Precedes(i, j)
  /\ \A s \in Span : spanToNode[s] # NoNode =>
       \E i \in Done : events[i].span = s /\ spanToNode[s] = NodeOf(events[i])
  /\ \A i \in Done :
       /\ NodeOf(events[i]) \in nodes
       /\ events[i].span # 0 => spanToNode[events[i].span] = NodeOf(events[i])
  /\ \A edge \in edges : edge[2] \notin {Workflow, Waiting}
  /\ Waiting \in nodes => nodes = {Waiting} /\ phase # "build"
  /\ nodes # {} /\ nodes # {Waiting} => Workflow \in nodes
  /\ Rooted
  /\ OnlyRealEdges

(* HierarchyShown of the events that were processed so far.                 *)
HierarchySoFar ==
  \A i, j \in Done :
    LET e == events[i]
        f == events[j]
    IN
    /\ e.span # 0 /\ f.span # 0 /\ f.span = Parent(e.span)
    /\ f.time < e.time
    /\ NodeOf(e) \notin {NodeOf(f), Workflow}
    => <<NodeOf(f), NodeOf(e)>> \in edges

LEMMA BlankAfter ==
  ASSUME RunStep \/ LoadStep
  PROVE  Blank'
<1>1. ASSUME NEW s, NEW kind, Emit(s, kind) PROVE Blank'
  <2>1. PICK t \in {Now, Now + 1} : Receive([span |-> s, kind |-> kind, time |-> t])
    BY <1>1 DEF Emit
  <2> QED BY <2>1, RenderBlank DEF Receive
<1>2. CASE StartTrace
  <2>1. Emit(0, "start")
    BY <1>2 DEF StartTrace
  <2> QED BY <1>1, <2>1, Zenon
<1>3. ASSUME NEW name, NEW parent, StartSpan(name, parent) PROVE Blank'
  <2>1. Emit(Len(spans) + 1, "start")
    BY <1>3 DEF StartSpan
  <2> QED BY <1>1, <2>1, Zenon
<1>4. ASSUME NEW s, EndSpan(s) PROVE Blank'
  <2>1. Emit(s, "end")
    BY <1>4 DEF EndSpan
  <2> QED BY <1>1, <2>1, Zenon
<1>5. CASE Replay
  BY <1>5, RenderBlank DEF Replay
<1>6. ASSUME NEW wanted, Search(wanted) PROVE Blank'
  <2> DEFINE hits == {i \in DOMAIN history : StatusOf(history[i]) = wanted}
  <2>1. PICK n \in 0 .. MaxShown : \E row \in [1 .. n -> hits] :
          Render([k \in 1 .. n |-> history[row[k]]], FALSE)
    BY <1>6 DEF Search
  <2>2. PICK row \in [1 .. n -> hits] : Render([k \in 1 .. n |-> history[row[k]]], FALSE)
    BY <2>1
  <2> QED BY <2>2, RenderBlank
<1> QED BY <1>2, <1>3, <1>4, <1>5, <1>6 DEF RunStep, LoadStep

LEMMA BlankGraph ==
  ASSUME Blank
  PROVE  GraphInv /\ HierarchySoFar
<1>1. Done = {}
  BY DEF Blank, Done
<1>2. /\ phase = "build" /\ nodes = {} /\ edges = {}
      /\ \A s \in Span : spanToNode[s] = NoNode
  BY DEF Blank
<1>3. Rooted /\ OnlyRealEdges
  <2>1. \A S \in (SUBSET nodes) \ {{}} : FALSE
    BY <1>2
  <2> QED BY <1>2, <2>1 DEF Rooted, OnlyRealEdges
<1>4. HierarchySoFar
  BY <1>1 DEF HierarchySoFar
<1> QED BY <1>1, <1>2, <1>3, <1>4 DEF GraphInv

LEMMA BlankGraphAfter ==
  ASSUME Blank'
  PROVE  GraphInv' /\ HierarchySoFar'
<1>1. Done' = {}
  BY DEF Blank, Done
<1>2. /\ phase' = "build" /\ nodes' = {} /\ edges' = {}
      /\ \A s \in Span : spanToNode'[s] = NoNode
  BY DEF Blank
<1>3. Rooted' /\ OnlyRealEdges'
  <2>1. \A S \in (SUBSET nodes') \ {{}} : FALSE
    BY <1>2
  <2> QED BY <1>2, <2>1 DEF Rooted, OnlyRealEdges
<1>4. HierarchySoFar'
  BY <1>1 DEF HierarchySoFar
<1> QED BY <1>1, <1>2, <1>3, <1>4 DEF GraphInv

LEMMA KnownNode ==
  ASSUME TypeInv, NEW i \in DOMAIN events
  PROVE  NodeOf(events[i]) \in NodeIds /\ NodeOf(events[i]) # NoNode
BY NodeTypes, BranchTypes, NamesAssumption

(* The set of nodes that no new edge enters is one that no old edge entered.*)
LEMMA BuildRooted ==
  ASSUME TypeInv, GraphInv, NEW i \in todo, BuildStep(i)
  PROVE  Rooted'
<1> DEFINE e == events[i]
           n == NodeOf(e)
           from == EdgeSource(e)
           branches == BranchesAt(n)
<1>0. /\ nodes' = nodes \cup {Workflow, n} \cup branches
      /\ edges' = edges \cup {edge \in {<<from, n>>} : n # Workflow /\ from # n}
                        \cup {<<n, b>> : b \in branches}
      /\ phase = "build"
  BY DEF BuildStep, AddedEdges, MergedStatus
<1>1. i \in DOMAIN events
  BY DEF TypeInv, TypeOK
<1>2. from \in nodes \cup {Workflow}
  BY <1>1, NodeTypes
<1>3. nodes # {Waiting} /\ edges \subseteq nodes \X nodes
  BY <1>0 DEF GraphInv, TypeInv, TypeOK
<1> HIDE DEF n, from, branches
<1>4. SUFFICES ASSUME NEW S \in (SUBSET nodes') \ {{}},
                      \A edge \in edges' : edge[2] \in S => edge[1] \in S
               PROVE  Workflow \in S
  BY DEF Rooted
<1>5. CASE S \cap nodes # {}
  <2> DEFINE T == S \cap nodes
  <2>1. T \in (SUBSET nodes) \ {{}}
    BY <1>5
  <2>2. \A edge \in edges : edge[2] \in T => edge[1] \in T
    BY <1>0, <1>3, <1>4
  <2>3. Workflow \in T
    BY <1>3, <2>1, <2>2 DEF GraphInv, Rooted
  <2> QED BY <2>3
<1>6. CASE S \cap nodes = {}
  <2>1. n \in S => Workflow \in S
    <3>1. CASE from = n
      BY <1>2, <1>6, <3>1
    <3>2. CASE n # Workflow /\ from # n
      <4>1. <<from, n>> \in edges'
        BY <1>0, <3>2
      <4>2. n \in S => from \in S
        BY <1>4, <4>1
      <4> QED BY <1>2, <1>6, <4>2
    <3> QED BY <3>1, <3>2
  <2>2. ASSUME NEW b \in branches, b \in S PROVE n \in S
    <3>1. <<n, b>> \in edges'
      BY <1>0
    <3> QED BY <1>4, <2>2, <3>1
  <2>3. S \subseteq {Workflow, n} \cup branches /\ S # {}
    <3>1. S \subseteq nodes' /\ S # {}
      BY <1>4
    <3> QED BY <1>0, <1>6, <3>1
  <2> QED BY <2>1, <2>2, <2>3
<1> QED BY <1>5, <1>6

(* A new edge comes from the parent's node, or the parent comes later.      *)
LEMMA BuildRealEdges ==
  ASSUME TypeInv, GraphInv, NEW i \in todo, BuildStep(i)
  PROVE  OnlyRealEdges'
<1> DEFINE e == events[i]
           n == NodeOf(e)
           from == EdgeSource(e)
           branches == BranchesAt(n)
           Real(edge) ==
    \/ edge[2] \in BranchesAt(edge[1])
    \/ \E k \in DOMAIN events :
         LET s == events[k].span IN
         /\ s # 0
         /\ edge[2] = Name(s)
         /\ \/ /\ Parent(s) # 0
               /\ edge[1] = IF Name(Parent(s)) \in Tasks THEN Workflow ELSE Name(Parent(s))
            \/ /\ edge[1] = Workflow
               /\ \A j \in DOMAIN events : Parent(s) # 0 /\ events[j].span = Parent(s)
                    => events[j].time >= events[k].time
<1>0. /\ edges' = edges \cup {edge \in {<<from, n>>} : n # Workflow /\ from # n}
                        \cup {<<n, b>> : b \in branches}
      /\ events' = events /\ spans' = spans
      /\ \A j \in todo \ {i} : Precedes(i, j)
  BY DEF BuildStep, AddedEdges, MergedStatus, runVars
<1>1. i \in DOMAIN events
  BY DEF TypeInv, TypeOK
<1>2. \A edge \in edges : Real(edge)
  BY DEF GraphInv, OnlyRealEdges
<1>3. \A b \in branches : Real(<<n, b>>)
  OBVIOUS
<1>4. ASSUME n # Workflow PROVE Real(<<from, n>>)
  <2> DEFINE s == e.span
             p == Parent(s)
  <2>1. s # 0 /\ n = Name(s)
    BY <1>4 DEF NodeOf
  <2>2. s \in Span /\ p \in 0 .. MaxSpans
    BY <1>1, <2>1, NodeTypes
  <2>3. CASE p # 0 /\ spanToNode[p] # NoNode
    <3>1. from = spanToNode[p]
      BY <2>1, <2>3 DEF EdgeSource
    <3>2. p \in Span
      BY <2>2, <2>3, BoundsAssumption DEF Span
    <3>3. PICK k \in Done : events[k].span = p /\ spanToNode[p] = NodeOf(events[k])
      BY <2>3, <3>2 DEF GraphInv
    <3>4. from = IF Name(p) \in Tasks THEN Workflow ELSE Name(p)
      BY <2>3, <3>1, <3>3 DEF NodeOf
    <3> QED BY <1>1, <2>1, <2>3, <3>4
  <2>4. CASE p = 0 \/ spanToNode[p] = NoNode
    <3>1. from = Workflow
      BY <2>4 DEF EdgeSource
    <3>2. ASSUME NEW j \in DOMAIN events, p # 0, events[j].span = p
          PROVE  events[j].time >= e.time
      <4>1. j \in todo
        BY <1>1, <2>4, <3>2, KnownNode DEF GraphInv, Done
      <4>2. events[j] \in Event /\ e \in Event
        <5>1. events \in Seq(Event)
          BY DEF TypeInv, TypeOK
        <5> QED BY <1>1, <5>1, ElementType
      <4>3. events[j].time \in Nat /\ e.time \in Nat
        BY <4>2, EventFields, BoundsAssumption
      <4>4. j = i \/ Precedes(i, j)
        BY <1>0, <4>1
      <4> QED BY <4>3, <4>4 DEF Precedes
    <3> QED BY <1>1, <2>1, <3>1, <3>2
  <2> QED BY <2>3, <2>4
<1>5. \A edge \in edges' : Real(edge)
  <2> HIDE DEF Real, n, from, branches
  <2> QED BY <1>0, <1>2, <1>3, <1>4
<1> QED BY <1>0, <1>5 DEF OnlyRealEdges, Name, Parent

LEMMA BuildGraph ==
  ASSUME TypeInv, GraphInv, NEW i \in todo, BuildStep(i)
  PROVE  GraphInv'
<1> DEFINE e == events[i]
           n == NodeOf(e)
           from == EdgeSource(e)
           branches == BranchesAt(n)
<1>0. /\ todo' = todo \ {i}
      /\ nodes' = nodes \cup {Workflow, n} \cup branches
      /\ edges' = edges \cup {edge \in {<<from, n>>} : n # Workflow /\ from # n}
                        \cup {<<n, b>> : b \in branches}
      /\ spanToNode' = [s \in Span |-> IF s = e.span THEN n ELSE spanToNode[s]]
      /\ events' = events /\ spans' = spans /\ phase' = phase /\ phase = "build"
      /\ \A j \in todo \ {i} : Precedes(i, j)
  BY DEF BuildStep, AddedEdges, MergedStatus, runVars
<1>1. i \in DOMAIN events /\ todo \subseteq DOMAIN events
  BY DEF TypeInv, TypeOK
<1>2. Done' = Done \cup {i}
  BY <1>0, <1>1 DEF Done
<1>3. \A k \in DOMAIN events : NodeOf(events[k])' = NodeOf(events[k])
  BY <1>0 DEF NodeOf, Name
<1>4. \A j, k : Precedes(j, k)' <=> Precedes(j, k)
  BY <1>0 DEF Precedes
<1>5. n \in NodeIds /\ n # NoNode /\ n # Waiting /\ Waiting \notin branches /\ Workflow \notin branches
  BY <1>1, KnownNode, NodeTypes, BranchTypes, NamesAssumption
<1>6. \A j \in Done', k \in todo' : Precedes(j, k)'
  BY <1>0, <1>2, <1>4 DEF GraphInv
<1>7. \A s \in Span : spanToNode'[s] # NoNode =>
        \E k \in Done' : events'[k].span = s /\ spanToNode'[s] = NodeOf(events[k])'
  <2> TAKE s \in Span
  <2>1. CASE s = e.span
    BY <1>0, <1>1, <1>2, <1>3, <2>1
  <2>2. CASE s # e.span
    <3>1. spanToNode'[s] = spanToNode[s]
      BY <1>0, <2>2
    <3>2. spanToNode[s] # NoNode =>
            \E k \in Done : events[k].span = s /\ spanToNode[s] = NodeOf(events[k])
      BY DEF GraphInv
    <3>3. \A k \in Done : k \in Done' /\ NodeOf(events[k])' = NodeOf(events[k])
      BY <1>2, <1>3 DEF Done
    <3> QED BY <1>0, <3>1, <3>2, <3>3
  <2> QED BY <2>1, <2>2
<1>8. \A k \in Done' :
        /\ NodeOf(events[k])' \in nodes'
        /\ events'[k].span # 0 => spanToNode'[events'[k].span] = NodeOf(events[k])'
  <2> TAKE k \in Done'
  <2>1. k \in DOMAIN events /\ NodeOf(events[k])' = NodeOf(events[k])
    BY <1>0, <1>3 DEF Done
  <2>2. events[k].span # 0 => events[k].span \in Span
    BY <2>1, NodeTypes
  <2>3. CASE events[k].span = e.span
    <3>1. NodeOf(events[k]) = n
      BY <2>3 DEF NodeOf
    <3> QED BY <1>0, <2>1, <2>2, <2>3, <3>1
  <2>4. CASE events[k].span # e.span
    <3>1. k \in Done
      BY <1>2, <2>4
    <3>2. /\ NodeOf(events[k]) \in nodes
          /\ events[k].span # 0 => spanToNode[events[k].span] = NodeOf(events[k])
      BY <3>1 DEF GraphInv
    <3> QED BY <1>0, <2>1, <2>2, <2>4, <3>2
  <2> QED BY <2>3, <2>4
<1> HIDE DEF n, from, branches
<1>9. \A edge \in edges' : edge[2] \notin {Workflow, Waiting}
  BY <1>0, <1>5 DEF GraphInv
<1>10. Waiting \notin nodes' /\ Workflow \in nodes'
  BY <1>0, <1>5, NamesAssumption DEF GraphInv
<1>11. Rooted' /\ OnlyRealEdges'
  BY BuildRooted, BuildRealEdges
<1> QED BY <1>0, <1>6, <1>7, <1>8, <1>9, <1>10, <1>11 DEF GraphInv

(* The parent's event was processed first, for it is earlier.               *)
LEMMA BuildHierarchy ==
  ASSUME TypeInv, GraphInv, HierarchySoFar, NEW i \in todo, BuildStep(i)
  PROVE  HierarchySoFar'
<1>0. /\ todo' = todo \ {i}
      /\ events' = events /\ spans' = spans
      /\ edges \subseteq edges'
      /\ NodeOf(events[i]) # Workflow /\ EdgeSource(events[i]) # NodeOf(events[i]) =>
           <<EdgeSource(events[i]), NodeOf(events[i])>> \in edges'
  BY DEF BuildStep, AddedEdges, MergedStatus, runVars
<1>1. i \in DOMAIN events /\ todo \subseteq DOMAIN events
  BY DEF TypeInv, TypeOK
<1>2. Done' = Done \cup {i}
  BY <1>0, <1>1 DEF Done
<1>3. SUFFICES ASSUME NEW j \in Done', NEW k \in Done',
                      events[j].span # 0, events[k].span # 0,
                      events[k].span = Parent(events[j].span),
                      events[k].time < events[j].time,
                      NodeOf(events[j]) \notin {NodeOf(events[k]), Workflow}
               PROVE  <<NodeOf(events[k]), NodeOf(events[j])>> \in edges'
  BY <1>0 DEF HierarchySoFar, NodeOf, Name, Parent
<1>4. events[i].time \in Nat /\ events[j].time \in Nat /\ events[k].time \in Nat
  <2>1. events \in Seq(Event) /\ j \in DOMAIN events /\ k \in DOMAIN events
    BY <1>1, <1>2 DEF TypeInv, TypeOK, Done
  <2>2. events[i] \in Event /\ events[j] \in Event /\ events[k] \in Event
    BY <1>1, <2>1, ElementType
  <2> QED BY <2>2, EventFields, BoundsAssumption
<1>5. CASE j \in Done /\ k \in Done
  BY <1>0, <1>3, <1>5 DEF HierarchySoFar
<1>6. CASE j \in Done /\ k = i
  <2>1. Precedes(j, i)
    BY <1>6 DEF GraphInv
  <2> QED BY <1>3, <1>4, <1>6, <2>1 DEF Precedes
<1>7. CASE j = i /\ k \in Done
  <2>1. spanToNode[events[k].span] = NodeOf(events[k]) /\ NodeOf(events[k]) # NoNode
    BY <1>3, <1>7, KnownNode DEF GraphInv, Done
  <2>2. EdgeSource(events[i]) = NodeOf(events[k])
    BY <1>3, <1>7, <2>1 DEF EdgeSource
  <2> QED BY <1>0, <1>3, <1>7, <2>2
<1>8. CASE j = i /\ k = i
  BY <1>3, <1>4, <1>8
<1> QED BY <1>2, <1>5, <1>6, <1>7, <1>8

LEMMA FrameHierarchy ==
  ASSUME HierarchySoFar, Done' = Done, events' = events, spans' = spans, edges' = edges
  PROVE  HierarchySoFar'
<1>1. SUFFICES ASSUME NEW j \in Done', NEW k \in Done',
                      events'[j].span # 0, events'[k].span # 0,
                      events'[k].span = Parent(events[j].span)',
                      events'[k].time < events'[j].time,
                      NodeOf(events[j])' \notin {NodeOf(events[k])', Workflow}
               PROVE  <<NodeOf(events[k])', NodeOf(events[j])'>> \in edges'
  BY DEF HierarchySoFar
<1>2. /\ NodeOf(events[j])' = NodeOf(events[j]) /\ NodeOf(events[k])' = NodeOf(events[k])
      /\ Parent(events[j].span)' = Parent(events[j].span)
  BY DEF NodeOf, Name, Parent
<1> QED BY <1>1, <1>2 DEF HierarchySoFar

LEMMA StartLayoutGraph ==
  ASSUME TypeInv, GraphInv, HierarchySoFar, StartLayout
  PROVE  GraphInv' /\ HierarchySoFar'
<1>0. /\ phase' = "layout" /\ todo = {} /\ todo' = todo
      /\ nodes' = IF nodes = {} THEN {Waiting} ELSE nodes
      /\ events' = events /\ spans' = spans /\ edges' = edges /\ spanToNode' = spanToNode
      /\ phase = "build"
  BY DEF StartLayout, AllNodes, runVars
<1>1. Done' = Done
  BY <1>0 DEF Done
<1>2. HierarchySoFar'
  BY <1>0, <1>1, FrameHierarchy
<1>3. OnlyRealEdges'
  BY <1>0 DEF GraphInv, OnlyRealEdges, Name, Parent
<1>4. CASE nodes # {}
  <2>1. nodes' = nodes
    BY <1>0, <1>4
  <2> QED BY <1>0, <1>1, <1>2, <1>3, <2>1 DEF GraphInv, Rooted, Precedes, NodeOf, Name
<1>5. CASE nodes = {}
  <2>1. nodes' = {Waiting} /\ edges' = {}
    BY <1>0, <1>5 DEF TypeInv, TypeOK
  <2>2. Done = {} /\ \A s \in Span : spanToNode[s] = NoNode
    BY <1>5 DEF GraphInv, TypeInv
  <2> QED BY <1>0, <1>1, <1>2, <1>3, <2>1, <2>2 DEF GraphInv, Rooted
<1> QED BY <1>4, <1>5

\* The layout leaves the graph alone.
LEMMA FrameGraph ==
  ASSUME GraphInv, HierarchySoFar, phase' # "build", todo' = todo,
         phase = phase' \/ phase # "build",
         events' = events, spans' = spans, UNCHANGED buildVars
  PROVE  GraphInv' /\ HierarchySoFar'
<1>1. /\ nodes' = nodes /\ edges' = edges /\ spanToNode' = spanToNode /\ Done' = Done
  BY DEF buildVars, Done
<1>2. HierarchySoFar'
  BY <1>1, FrameHierarchy
<1>3. OnlyRealEdges'
  BY <1>1 DEF GraphInv, OnlyRealEdges, Name, Parent
<1> QED BY <1>1, <1>2, <1>3 DEF GraphInv, Rooted, Precedes, NodeOf, Name

LEMMA NextGraph ==
  TypeInv /\ GraphInv /\ HierarchySoFar /\ [Next]_vars => GraphInv' /\ HierarchySoFar'
<1> SUFFICES ASSUME TypeInv, GraphInv, HierarchySoFar, [Next]_vars
             PROVE  GraphInv' /\ HierarchySoFar'
  OBVIOUS
<1>1. CASE RunStep \/ LoadStep
  BY <1>1, BlankAfter, BlankGraphAfter
<1>2. ASSUME NEW i \in todo, BuildStep(i) PROVE GraphInv' /\ HierarchySoFar'
  BY <1>2, BuildGraph, BuildHierarchy
<1>3. CASE StartLayout
  BY <1>3, StartLayoutGraph
<1>4. ASSUME NEW entry \in queue, LayoutStep(entry[1], entry[2])
      PROVE  GraphInv' /\ HierarchySoFar'
  <2>1. /\ phase' = "layout" /\ phase = "layout" /\ todo' = todo /\ UNCHANGED buildVars
        /\ events' = events /\ spans' = spans
    BY <1>4 DEF LayoutStep, runVars
  <2> QED BY <2>1, FrameGraph
<1>5. CASE Draw
  <2>1. /\ phase' = "idle" /\ phase = "layout" /\ todo' = todo /\ UNCHANGED buildVars
        /\ events' = events /\ spans' = spans
    BY <1>5 DEF Draw, runVars
  <2> QED BY <2>1, FrameGraph
<1>6. CASE UNCHANGED vars
  <2>1. /\ phase' = phase /\ todo' = todo /\ UNCHANGED buildVars
        /\ events' = events /\ spans' = spans
    BY <1>6 DEF vars, runVars
  <2>2. CASE phase # "build"
    BY <2>1, <2>2, FrameGraph
  <2>3. CASE phase = "build"
    <3>1. /\ nodes' = nodes /\ edges' = edges /\ spanToNode' = spanToNode /\ Done' = Done
      BY <2>1 DEF buildVars, Done
    <3>2. HierarchySoFar' /\ OnlyRealEdges'
      BY <2>1, <3>1 DEF GraphInv, HierarchySoFar, OnlyRealEdges, NodeOf, Name, Parent
    <3> QED BY <2>1, <3>1, <3>2 DEF GraphInv, Rooted, Precedes, NodeOf, Name
  <2> QED BY <2>2, <2>3
<1> QED BY <1>1, <1>2, <1>3, <1>4, <1>5, <1>6 DEF Next, RenderStep

LEMMA InitGraph == Init => GraphInv /\ HierarchySoFar
<1>1. Init => Blank
  BY DEF Init, Blank
<1> QED BY <1>1, BlankGraph

LEMMA GraphInvariant == Spec => [](TypeInv /\ GraphInv /\ HierarchySoFar)
BY InitTypes, NextTypes, InitGraph, NextGraph, PTL DEF Spec

(* Every card hangs under the trace's card, for every set of spans, every   *)
(* order of the list and every event missing from it.                       *)
THEOREM AlwaysRooted == Spec => []Rooted
<1>1. GraphInv => Rooted
  BY DEF GraphInv
<1> QED BY <1>1, GraphInvariant, PTL

(* No edge is drawn that the events do not justify.                         *)
THEOREM EdgesAreReal == Spec => []OnlyRealEdges
<1>1. GraphInv => OnlyRealEdges
  BY DEF GraphInv
<1> QED BY <1>1, GraphInvariant, PTL

(* A built graph has the edge from a span to its child, once an event of    *)
(* the child is later than one of the span.                                 *)
THEOREM HierarchyIsShown == Spec => []HierarchyShown
<1>1. TypeInv /\ GraphInv /\ HierarchySoFar => HierarchyShown
  BY DEF GraphInv, HierarchySoFar, HierarchyShown, Done
<1> QED BY <1>1, GraphInvariant, PTL

-----------------------------------------------------------------------------
(* The layout.  A node whose level is not yet passed on to a successor is   *)
(* in the queue with that level; levels only grow, so an entry of the queue *)
(* is never above its node.                                                 *)
LayoutInv ==
  phase # "build" =>
    /\ \A n \in nodes : (\A edge \in edges : edge[2] # n) => levels[n] # NoLevel
    /\ \A entry \in queue : entry[1] \in nodes /\ entry[2] <= levels[entry[1]]
    /\ \A edge \in edges : levels[edge[1]] # NoLevel =>
         levels[edge[1]] < levels[edge[2]] \/ <<edge[1], levels[edge[1]]>> \in queue
    /\ \A n \in nodes : levels[n] > 0 =>
         \E edge \in edges : edge[2] = n /\ levels[n] <= levels[edge[1]] + 1
    /\ phase = "idle" => queue = {}

LEMMA LevelTypes ==
  ASSUME TypeInv
  PROVE  /\ \A n \in NodeIds : levels[n] \in Int /\ levels[n] >= -1
         /\ nodes \subseteq NodeIds
         /\ \A edge \in edges : /\ edge = <<edge[1], edge[2]>>
                                /\ edge[1] \in nodes /\ edge[2] \in nodes
         /\ \A entry \in queue : entry = <<entry[1], entry[2]>> /\ entry[2] \in Nat
BY BoundsAssumption DEF TypeInv, TypeOK, NoLevel

LEMMA StartLayoutLevels ==
  ASSUME TypeInv, GraphInv, StartLayout
  PROVE  LayoutInv'
<1> DEFINE roots == {n \in AllNodes : \A edge \in edges : edge[2] # n}
<1>0. /\ phase' = "layout" /\ nodes' = AllNodes /\ edges' = edges
      /\ levels' = [n \in NodeIds |-> IF n \in roots THEN 0 ELSE NoLevel]
      /\ queue' = {<<n, 0>> : n \in roots}
  BY DEF StartLayout, AllNodes
<1>1. AllNodes \subseteq NodeIds /\ \A edge \in edges : edge[1] \in NodeIds /\ edge[2] \in NodeIds
  BY LevelTypes, BranchTypes DEF AllNodes
<1>2. \A n \in nodes' : (\A edge \in edges' : edge[2] # n) => levels'[n] # NoLevel
  BY <1>0, <1>1 DEF NoLevel
<1>3. \A entry \in queue' : entry[1] \in nodes' /\ entry[2] <= levels'[entry[1]]
  BY <1>0, <1>1
<1>4. \A edge \in edges' : levels'[edge[1]] # NoLevel => <<edge[1], levels'[edge[1]]>> \in queue'
  BY <1>0, <1>1
<1>5. \A n \in nodes' : ~ levels'[n] > 0
  BY <1>0, <1>1 DEF NoLevel
<1> HIDE DEF roots
<1> QED BY <1>0, <1>2, <1>3, <1>4, <1>5 DEF LayoutInv

LEMMA LayoutLevels ==
  ASSUME TypeInv, LayoutInv, NEW entry \in queue, LayoutStep(entry[1], entry[2])
  PROVE  LayoutInv'
<1> DEFINE id == entry[1]
           level == entry[2]
           raised == {m \in nodes : <<id, m>> \in edges /\ level + 1 > levels[m]}
<1>0. /\ levels' = [m \in NodeIds |-> IF m \in raised THEN level + 1 ELSE levels[m]]
      /\ queue' = (queue \ {<<id, level>>}) \cup {<<m, level + 1>> : m \in raised}
      /\ phase = "layout" /\ phase' = "layout" /\ nodes' = nodes /\ edges' = edges
  BY DEF LayoutStep, buildVars
<1>1. id \in nodes /\ level \in Nat /\ level <= levels[id]
  BY <1>0, LevelTypes DEF LayoutInv
<1>2. \A m \in NodeIds : levels'[m] >= levels[m] /\ levels'[m] \in Int
  BY <1>0, <1>1, LevelTypes
<1>3. raised \subseteq nodes /\ nodes \subseteq NodeIds /\ \A m \in raised : <<id, m>> \in edges
  BY LevelTypes
<1>4. \A m \in nodes : <<id, m>> \in edges /\ m \notin raised => levels[m] >= level + 1
  BY <1>1, LevelTypes
<1> HIDE DEF raised, id, level
<1>5. \A n \in nodes' : (\A edge \in edges' : edge[2] # n) => levels'[n] # NoLevel
  BY <1>0, <1>2, LevelTypes DEF LayoutInv, NoLevel
<1>6. ASSUME NEW new \in queue' PROVE new[1] \in nodes' /\ new[2] <= levels'[new[1]]
  <2>1. CASE new \in queue
    <3>1. new[1] \in nodes /\ new[2] <= levels[new[1]] /\ new[2] \in Nat
      BY <1>0, <2>1, LevelTypes DEF LayoutInv
    <3> QED BY <1>0, <1>2, <3>1, LevelTypes
  <2>2. CASE new \notin queue
    <3>1. PICK m \in raised : new = <<m, level + 1>>
      BY <1>0, <2>2
    <3> QED BY <1>0, <1>1, <1>3, <3>1
  <2> QED BY <2>1, <2>2
<1>7. ASSUME NEW edge \in edges', levels'[edge[1]] # NoLevel
      PROVE  levels'[edge[1]] < levels'[edge[2]] \/ <<edge[1], levels'[edge[1]]>> \in queue'
  <2> DEFINE u == edge[1]
             v == edge[2]
  <2>1. u \in nodes /\ v \in nodes /\ edge = <<u, v>> /\ edge \in edges
    BY <1>0, LevelTypes
  <2>2. CASE u \in raised
    BY <1>0, <1>3, <2>2
  <2>3. CASE u \notin raised
    <3>1. levels'[u] = levels[u]
      BY <1>0, <1>3, <2>1, <2>3
    <3>2. levels[u] < levels[v] \/ <<u, levels[u]>> \in queue
      BY <1>0, <1>7, <2>1, <3>1 DEF LayoutInv
    <3>3. CASE levels[u] < levels[v]
      BY <1>2, <1>3, <2>1, <3>1, <3>3, LevelTypes
    <3>4. CASE <<u, levels[u]>> \in queue /\ <<u, levels[u]>> # <<id, level>>
      BY <1>0, <3>1, <3>4
    <3>5. CASE <<u, levels[u]>> = <<id, level>>
      <4>1. u = id /\ levels[u] = level /\ <<id, v>> \in edges
        BY <2>1, <3>5
      <4>2. CASE v \in raised
        <5>1. levels'[v] = level + 1
          BY <1>0, <1>3, <4>2
        <5> QED BY <1>1, <3>1, <4>1, <5>1
      <4>3. CASE v \notin raised
        <5>1. levels'[v] = levels[v] /\ levels[v] >= level + 1 /\ levels[v] \in Int
          BY <1>0, <1>3, <1>4, <2>1, <4>1, <4>3, LevelTypes
        <5> QED BY <1>1, <3>1, <4>1, <5>1
      <4> QED BY <4>2, <4>3
    <3> QED BY <3>2, <3>3, <3>4, <3>5
  <2> QED BY <2>2, <2>3
<1>8. ASSUME NEW n \in nodes', levels'[n] > 0
      PROVE  \E edge \in edges' : edge[2] = n /\ levels'[n] <= levels'[edge[1]] + 1
  <2>1. CASE n \in raised
    <3>1. levels'[n] = level + 1 /\ <<id, n>> \in edges'
      BY <1>0, <1>3, <2>1
    <3>2. levels'[id] >= level /\ levels'[id] \in Int
      BY <1>1, <1>2, <1>3, LevelTypes
    <3>3. level + 1 <= levels'[id] + 1
      BY <1>1, <3>2
    <3> QED BY <3>1, <3>3
  <2>2. CASE n \notin raised
    <3>1. levels'[n] = levels[n]
      BY <1>0, <1>3, <2>2
    <3>2. PICK edge \in edges : edge[2] = n /\ levels[n] <= levels[edge[1]] + 1
      BY <1>0, <1>8, <3>1 DEF LayoutInv
    <3>3. levels'[edge[1]] >= levels[edge[1]] /\ levels'[edge[1]] \in Int
          /\ levels[edge[1]] \in Int /\ levels[n] \in Int
      BY <1>0, <1>2, <1>3, LevelTypes
    <3>4. levels'[n] <= levels'[edge[1]] + 1
      BY <3>1, <3>2, <3>3
    <3> QED BY <1>0, <3>2, <3>4
  <2> QED BY <2>1, <2>2
<1> QED BY <1>0, <1>5, <1>6, <1>7, <1>8 DEF LayoutInv

(* When the queue is empty every node has a level: the nodes without one    *)
(* would be closed under predecessors, so the workflow would be one of them,*)
(* but no edge enters it.                                                   *)
LEMMA AllLevelled ==
  ASSUME TypeInv, GraphInv, LayoutInv, phase # "build", queue = {}
  PROVE  \A n \in nodes : levels[n] # NoLevel
<1> DEFINE S == {n \in nodes : levels[n] = NoLevel}
<1>1. SUFFICES ASSUME S # {} PROVE FALSE
  OBVIOUS
<1>2. CASE nodes = {Waiting}
  <2>1. \A edge \in edges : edge[2] # Waiting
    BY DEF GraphInv
  <2> QED BY <1>1, <1>2, <2>1 DEF LayoutInv
<1>3. CASE nodes # {Waiting}
  <2>1. ASSUME NEW edge \in edges, edge[2] \in S PROVE edge[1] \in S
    <3>1. edge[1] \in nodes /\ levels[edge[1]] \in Int /\ levels[edge[1]] >= -1
      BY LevelTypes
    <3>2. levels[edge[1]] # NoLevel => levels[edge[1]] < -1
      BY <2>1 DEF LayoutInv, NoLevel
    <3> QED BY <3>1, <3>2
  <2>2. S \in (SUBSET nodes) \ {{}}
    BY <1>1
  <2>3. Workflow \in S
    BY <1>3, <2>1, <2>2 DEF GraphInv, Rooted
  <2>4. \A edge \in edges : edge[2] # Workflow
    BY DEF GraphInv
  <2> QED BY <2>3, <2>4 DEF LayoutInv
<1> QED BY <1>2, <1>3

LEMMA DrawLevels ==
  ASSUME TypeInv, GraphInv, LayoutInv, Draw
  PROVE  LayoutInv'
<1>1. /\ phase = "layout" /\ queue = {} /\ phase' = "idle" /\ queue' = {}
      /\ levels' = [n \in NodeIds |-> IF n \in nodes /\ levels[n] = NoLevel THEN 0 ELSE levels[n]]
      /\ nodes' = nodes /\ edges' = edges
  BY DEF Draw, buildVars
<1>2. \A n \in nodes : levels'[n] = levels[n]
  BY <1>1, AllLevelled, LevelTypes
<1> QED BY <1>1, <1>2, LevelTypes DEF LayoutInv

LEMMA NextLayout ==
  TypeInv /\ GraphInv /\ LayoutInv /\ [Next]_vars => LayoutInv'
<1> SUFFICES ASSUME TypeInv, GraphInv, LayoutInv, [Next]_vars
             PROVE  LayoutInv'
  OBVIOUS
<1>1. CASE RunStep \/ LoadStep
  BY <1>1, BlankAfter DEF Blank, LayoutInv
<1>2. ASSUME NEW i \in todo, BuildStep(i) PROVE LayoutInv'
  BY <1>2 DEF BuildStep, LayoutInv
<1>3. CASE StartLayout
  BY <1>3, StartLayoutLevels
<1>4. ASSUME NEW entry \in queue, LayoutStep(entry[1], entry[2]) PROVE LayoutInv'
  BY <1>4, LayoutLevels
<1>5. CASE Draw
  BY <1>5, DrawLevels
<1>6. CASE UNCHANGED vars
  BY <1>6 DEF vars, buildVars, layoutVars, LayoutInv
<1> QED BY <1>1, <1>2, <1>3, <1>4, <1>5, <1>6 DEF Next, RenderStep

LEMMA InitLayout == Init => LayoutInv
BY DEF Init, LayoutInv

(* A drawn graph has no cycle: every node stands to the right of all its    *)
(* predecessors, and right next to one of them or in the first column.      *)
THEOREM LevelsAreLongest == Spec => []LevelsAreLongestPaths
<1>1. TypeInv /\ GraphInv /\ LayoutInv => LevelsAreLongestPaths
  <2> SUFFICES ASSUME TypeInv, GraphInv, LayoutInv, phase = "idle", NEW n \in nodes
               PROVE  /\ \A m \in nodes : <<m, n>> \in edges => levels[m] < levels[n]
                      /\ \/ levels[n] = 0
                         \/ \E m \in nodes : <<m, n>> \in edges /\ levels[n] = levels[m] + 1
    BY DEF LevelsAreLongestPaths
  <2>1. queue = {}
    BY DEF LayoutInv
  <2>2. \A m \in nodes : levels[m] # NoLevel /\ levels[m] \in Int /\ levels[m] >= 0
    BY <2>1, AllLevelled, LevelTypes DEF NoLevel
  <2>3. \A m \in nodes : <<m, n>> \in edges => levels[m] < levels[n]
    BY <2>1, <2>2 DEF LayoutInv
  <2>4. ASSUME levels[n] # 0
        PROVE  \E m \in nodes : <<m, n>> \in edges /\ levels[n] = levels[m] + 1
    <3>1. PICK edge \in edges : edge[2] = n /\ levels[n] <= levels[edge[1]] + 1
      BY <2>2, <2>4 DEF LayoutInv
    <3>2. edge[1] \in nodes /\ <<edge[1], n>> \in edges
      BY <3>1, LevelTypes
    <3>3. levels[n] = levels[edge[1]] + 1
      BY <2>2, <2>3, <3>1, <3>2
    <3> QED BY <3>2, <3>3
  <2> QED BY <2>3, <2>4
<1> QED BY <1>1, InitLayout, NextLayout, GraphInvariant, PTL DEF Spec

-----------------------------------------------------------------------------
(* Cycles.  The least element of a set of numbers: among the intervals from *)
(* 0 to its elements one contains no other.                                 *)
LEMMA LeastNumber ==
  ASSUME NEW T \in SUBSET Nat, T # {}
  PROVE  \E x \in T : \A y \in T : x <= y
<1>1. PICK t \in T : TRUE
  OBVIOUS
<1> DEFINE R == StrictSubsetOrdering(0 .. t)
           F == FiniteSubsetsOf(0 .. t)
           I == {0 .. x : x \in {y \in T : y <= t}}
<1>2. IsWellFoundedOn(R, F)
  BY FS_StrictSubsetOrderingWellFounded, Zenon
<1>3. I # {} /\ I \subseteq F
  <2>1. ASSUME NEW x \in T, x <= t PROVE 0 .. x \in F
    <3>1. x \in Nat /\ t \in Nat /\ IsFiniteSet(0 .. x)
      BY FS_Interval
    <3> QED BY <2>1, <3>1 DEF FiniteSubsetsOf
  <2>2. 0 .. t \in I
    BY <1>1
  <2> HIDE DEF F
  <2> QED BY <2>1, <2>2
<1> HIDE DEF F, I, R
<1>4. \E S \in I : \A U \in I : ~ (<<U, S>> \in R)
  BY <1>2, <1>3, WFMin, Zenon
<1>5. PICK S \in I : \A U \in I : <<U, S>> \notin R
  BY <1>4
<1>6. PICK x \in T : x <= t /\ S = 0 .. x
  BY <1>5 DEF I
<1>7. ASSUME NEW y \in T, y < x PROVE FALSE
  <2>1. x \in Nat /\ y \in Nat /\ t \in Nat /\ y <= t
    BY <1>6, <1>7
  <2>2. 0 .. y \in I
    BY <2>1 DEF I
  <2>3. 0 .. y \subseteq 0 .. x /\ x \in 0 .. x /\ x \notin 0 .. y /\ 0 .. x \subseteq 0 .. t
    BY <1>6, <1>7, <2>1
  <2>4. 0 .. y # 0 .. x /\ 0 .. y \subseteq 0 .. t
    BY <2>3
  <2>5. <<0 .. y, 0 .. x>> \in R
    BY <2>3, <2>4, Zenon DEF R, StrictSubsetOrdering
  <2> QED BY <1>5, <1>6, <2>2, <2>5
<1> QED BY <1>6, <1>7

(* A cycle has a node of least level, and its predecessor there is lower.   *)
LEMMA LevelsBreakCycles ==
  ASSUME \A n \in nodes : levels[n] \in Nat,
         \A m, n \in nodes : <<m, n>> \in edges => levels[m] < levels[n]
  PROVE  ~ HasCycle
<1> SUFFICES ASSUME NEW S \in (SUBSET nodes) \ {{}},
                    \A n \in S : \E m \in S : <<m, n>> \in edges
             PROVE  FALSE
  BY DEF HasCycle
<1> DEFINE T == {levels[n] : n \in S}
<1>1. T \in SUBSET Nat /\ T # {}
  OBVIOUS
<1> HIDE DEF T
<1>2. PICK x \in T : \A y \in T : x <= y
  BY <1>1, LeastNumber
<1>3. PICK n \in S : x = levels[n]
  BY <1>2 DEF T
<1>4. PICK m \in S : <<m, n>> \in edges
  OBVIOUS
<1>5. levels[m] < levels[n] /\ levels[m] \in Nat /\ levels[n] \in Nat
  BY <1>4
<1>6. levels[m] \in T
  BY DEF T
<1> QED BY <1>2, <1>3, <1>5, <1>6

LEMMA IdleLevels ==
  ASSUME TypeInv, GraphInv, LayoutInv, phase = "idle"
  PROVE  /\ \A n \in nodes : levels[n] \in Nat
         /\ \A m, n \in nodes : <<m, n>> \in edges => levels[m] < levels[n]
<1>1. queue = {}
  BY DEF LayoutInv
<1>2. \A n \in nodes : levels[n] # NoLevel /\ levels[n] \in Int /\ levels[n] >= 0
  BY <1>1, AllLevelled, LevelTypes DEF NoLevel
<1> QED BY <1>1, <1>2 DEF LayoutInv

(* A graph with a cycle is never drawn, however the list came about: the    *)
(* callback that was given one does not end.                                *)
THEOREM CyclesHang == Spec => []CyclesAreNeverDrawn
<1>1. TypeInv /\ GraphInv /\ LayoutInv => CyclesAreNeverDrawn
  <2> SUFFICES ASSUME TypeInv, GraphInv, LayoutInv, phase = "idle"
               PROVE  ~ HasCycle
    BY DEF CyclesAreNeverDrawn
  <2> QED BY IdleLevels, LevelsBreakCycles, Zenon
<1> QED BY <1>1, InitLayout, NextLayout, GraphInvariant, PTL DEF Spec

-----------------------------------------------------------------------------
(* The loop of layoutRuntimeGraph.  Every level it writes or queues is the  *)
(* length of a way through the graph.                                       *)
Walk(n, k) == \E path \in [0 .. k -> nodes] :
  path[k] = n /\ \A j \in 1 .. k : <<path[j - 1], path[j]>> \in edges

WalkInv ==
  /\ IsFiniteSet(nodes)
  /\ phase = "build" => \A n \in NodeIds : levels[n] = NoLevel
  /\ phase # "build" =>
       /\ \A n \in nodes : levels[n] # NoLevel => Walk(n, levels[n])
       /\ \A entry \in queue : Walk(entry[1], entry[2])

LEMMA WalkStarts ==
  ASSUME NEW n \in nodes'
  PROVE  Walk(n, 0)'
<1> DEFINE path == [j \in 0 .. 0 |-> n]
<1>1. path \in [0 .. 0 -> nodes'] /\ path[0] = n
  OBVIOUS
<1>2. \A j \in 1 .. 0 : FALSE
  OBVIOUS
<1> QED BY <1>1, <1>2 DEF Walk

LEMMA WalkGoesOn ==
  ASSUME NEW k \in Nat, NEW m, Walk(m, k), NEW n \in nodes, <<m, n>> \in edges
  PROVE  Walk(n, k + 1)
<1>1. PICK path \in [0 .. k -> nodes] :
        path[k] = m /\ \A j \in 1 .. k : <<path[j - 1], path[j]>> \in edges
  BY DEF Walk
<1> DEFINE longer == [j \in 0 .. k + 1 |-> IF j = k + 1 THEN n ELSE path[j]]
<1>2. longer \in [0 .. k + 1 -> nodes] /\ longer[k + 1] = n
  OBVIOUS
<1>3. ASSUME NEW j \in 1 .. k + 1 PROVE <<longer[j - 1], longer[j]>> \in edges
  <2>1. CASE j = k + 1
    <3>1. longer[j - 1] = path[k] /\ longer[j] = n
      BY <2>1
    <3> QED BY <1>1, <3>1
  <2>2. CASE j # k + 1
    <3>1. j \in 1 .. k /\ longer[j - 1] = path[j - 1] /\ longer[j] = path[j]
      BY <2>2
    <3> QED BY <1>1, <3>1
  <2> QED BY <2>1, <2>2
<1> HIDE DEF longer
<1> QED BY <1>2, <1>3 DEF Walk

(* A way that meets a node twice goes round a cycle, so without a cycle it  *)
(* is shorter than the number of nodes.                                     *)
LEMMA WalkFits ==
  ASSUME IsFiniteSet(nodes), ~ HasCycle, NEW k \in Nat, NEW n, Walk(n, k)
  PROVE  k < Cardinality(nodes)
<1>1. PICK path \in [0 .. k -> nodes] : \A j \in 1 .. k : <<path[j - 1], path[j]>> \in edges
  BY DEF Walk
<1>2. ASSUME NEW i \in 0 .. k, NEW j \in 0 .. k, i < j, path[i] = path[j]
      PROVE  FALSE
  <2> DEFINE S == {path[x] : x \in i + 1 .. j}
  <2>1. path[j] \in S /\ S \subseteq nodes
    BY <1>2
  <2>2. ASSUME NEW v \in S PROVE \E u \in S : <<u, v>> \in edges
    <3>1. PICK x \in i + 1 .. j : v = path[x]
      BY <2>2
    <3>2. <<path[x - 1], path[x]>> \in edges
      BY <1>1, <1>2, <3>1
    <3>3. path[x - 1] \in S
      <4>1. CASE x = i + 1
        <5>1. path[x - 1] = path[j]
          BY <1>2, <4>1
        <5> QED BY <2>1, <5>1
      <4>2. CASE x # i + 1
        <5>1. x - 1 \in i + 1 .. j
          BY <3>1, <4>2
        <5> QED BY <5>1
      <4> QED BY <4>1, <4>2
    <3> QED BY <3>1, <3>2, <3>3
  <2> HIDE DEF S
  <2>3. S \in (SUBSET nodes) \ {{}}
    BY <2>1
  <2> QED BY <2>2, <2>3 DEF HasCycle
<1>3. \A i, j \in 0 .. k : path[i] = path[j] => i = j
  <2> SUFFICES ASSUME NEW i \in 0 .. k, NEW j \in 0 .. k, path[i] = path[j], i # j
               PROVE  FALSE
    OBVIOUS
  <2>1. i < j \/ j < i
    OBVIOUS
  <2> QED BY <1>2, <2>1
<1>4. path \in Injection(0 .. k, nodes)
  BY <1>3 DEF Injection, IsInjective
<1>5. Cardinality(0 .. k) <= Cardinality(nodes)
  BY <1>4, FS_Injection, Zenon
<1>6. Cardinality(0 .. k) = k + 1
  BY FS_Interval
<1>7. Cardinality(nodes) \in Nat
  BY FS_CardinalityType
<1> QED BY <1>5, <1>6, <1>7

LEMMA NextFinite ==
  ASSUME TypeInv, IsFiniteSet(nodes), [Next]_vars
  PROVE  IsFiniteSet(nodes')
<1>1. CASE RunStep \/ LoadStep
  <2>1. nodes' = {}
    BY <1>1, BlankAfter DEF Blank
  <2> QED BY <2>1, FS_EmptySet
<1>2. ASSUME NEW i \in todo, BuildStep(i) PROVE IsFiniteSet(nodes')
  <2> DEFINE n == NodeOf(events[i])
  <2>1. nodes' = nodes \cup {Workflow, n} \cup BranchesAt(n)
    BY <1>2 DEF BuildStep
  <2>2. {Workflow, n} = {Workflow} \cup {n}
    OBVIOUS
  <2>3. IsFiniteSet({Workflow, n})
    <3>1. IsFiniteSet({Workflow}) /\ IsFiniteSet({n})
      BY FS_Singleton
    <3>2. IsFiniteSet({Workflow} \cup {n})
      BY <3>1, FS_Union, Zenon
    <3> QED BY <2>2, <3>2
  <2>4. IsFiniteSet(BranchesAt(n))
    BY BranchesAssumption, FS_EmptySet DEF BranchesAt
  <2> HIDE DEF n
  <2> QED BY <2>1, <2>3, <2>4, FS_Union
<1>3. CASE StartLayout
  <2>1. nodes' = AllNodes
    BY <1>3 DEF StartLayout
  <2> QED BY <2>1, FS_Singleton DEF AllNodes
<1>4. CASE (\E entry \in queue : LayoutStep(entry[1], entry[2])) \/ Draw \/ UNCHANGED vars
  <2>1. nodes' = nodes
    BY <1>4 DEF LayoutStep, Draw, vars, buildVars
  <2> QED BY <2>1
<1> QED BY <1>1, <1>2, <1>3, <1>4 DEF Next, RenderStep

\* The ways through a graph that does not change.
LEMMA WalkStays ==
  ASSUME nodes' = nodes, edges' = edges, NEW n, NEW k, Walk(n, k)
  PROVE  Walk(n, k)'
BY DEF Walk

LEMMA NextWalk == TypeInv /\ WalkInv /\ [Next]_vars => WalkInv'
<1> SUFFICES ASSUME TypeInv, WalkInv, [Next]_vars PROVE WalkInv'
  OBVIOUS
<1>0. IsFiniteSet(nodes')
  BY NextFinite DEF WalkInv
<1>1. CASE RunStep \/ LoadStep
  <2>1. phase' = "build" /\ levels' = [n \in NodeIds |-> NoLevel]
    BY <1>1, BlankAfter DEF Blank
  <2> QED BY <1>0, <2>1 DEF WalkInv
<1>2. ASSUME NEW i \in todo, BuildStep(i) PROVE WalkInv'
  <2>1. phase = "build" /\ phase' = "build" /\ levels' = levels
    BY <1>2 DEF BuildStep, layoutVars
  <2> QED BY <1>0, <2>1 DEF WalkInv
<1>3. CASE StartLayout
  <2> DEFINE roots == {n \in AllNodes : \A edge \in edges : edge[2] # n}
  <2>1. /\ phase' = "layout" /\ nodes' = AllNodes /\ edges' = edges
        /\ levels' = [n \in NodeIds |-> IF n \in roots THEN 0 ELSE NoLevel]
        /\ queue' = {<<n, 0>> : n \in roots}
    BY <1>3 DEF StartLayout, AllNodes
  <2>2. roots \subseteq nodes' /\ nodes' \subseteq NodeIds
    BY <2>1, LevelTypes, BranchTypes DEF AllNodes
  <2>3. \A n \in nodes' : Walk(n, 0)'
    BY WalkStarts
  <2> HIDE DEF roots
  <2>4. \A n \in nodes' : levels'[n] # NoLevel => levels'[n] = 0
    BY <2>1, <2>2
  <2>5. \A n \in nodes' : levels'[n] # NoLevel => Walk(n, levels[n])'
    BY <2>3, <2>4
  <2>6. \A entry \in queue' : Walk(entry[1], entry[2])'
    BY <2>1, <2>2, <2>3
  <2> QED BY <1>0, <2>1, <2>5, <2>6 DEF WalkInv
<1>4. ASSUME NEW entry \in queue, LayoutStep(entry[1], entry[2]) PROVE WalkInv'
  <2> DEFINE id == entry[1]
             level == entry[2]
             raised == {m \in nodes : <<id, m>> \in edges /\ level + 1 > levels[m]}
  <2>1. /\ levels' = [m \in NodeIds |-> IF m \in raised THEN level + 1 ELSE levels[m]]
        /\ queue' = (queue \ {<<id, level>>}) \cup {<<m, level + 1>> : m \in raised}
        /\ phase = "layout" /\ phase' = "layout" /\ nodes' = nodes /\ edges' = edges
    BY <1>4 DEF LayoutStep, buildVars
  <2>2. Walk(id, level) /\ level \in Nat /\ nodes \subseteq NodeIds
    BY <2>1, LevelTypes DEF WalkInv
  <2>3. \A m \in raised : Walk(m, level + 1)
    <3> TAKE m \in raised
    <3>1. m \in nodes /\ <<id, m>> \in edges
      OBVIOUS
    <3> HIDE DEF id, level, raised
    <3> QED BY <2>2, <3>1, WalkGoesOn, Zenon
  <2> HIDE DEF id, level, raised
  <2>4. \A m \in raised : Walk(m, level + 1)'
    BY <2>1, <2>3, WalkStays
  <2>5. ASSUME NEW n \in nodes', levels'[n] # NoLevel PROVE Walk(n, levels[n])'
    <3>1. CASE n \in raised
      <4>1. levels'[n] = level + 1
        BY <2>1, <2>2, <3>1
      <4> QED BY <2>4, <3>1, <4>1
    <3>2. CASE n \notin raised
      <4>1. levels'[n] = levels[n]
        BY <2>1, <2>2, <3>2
      <4>2. Walk(n, levels[n])
        BY <2>1, <2>5, <4>1 DEF WalkInv
      <4>3. PICK k : k = levels[n]
        OBVIOUS
      <4>4. Walk(n, k)'
        BY <2>1, <4>2, <4>3, WalkStays
      <4> QED BY <4>1, <4>3, <4>4
    <3> QED BY <3>1, <3>2
  <2>6. ASSUME NEW new \in queue' PROVE Walk(new[1], new[2])'
    <3>1. CASE new \in queue
      <4>1. Walk(new[1], new[2])
        BY <2>1, <3>1 DEF WalkInv
      <4> QED BY <2>1, <4>1, WalkStays
    <3>2. CASE new \notin queue
      <4>1. PICK m \in raised : new = <<m, level + 1>>
        BY <2>1, <3>2
      <4> QED BY <2>4, <4>1
    <3> QED BY <3>1, <3>2
  <2> QED BY <1>0, <2>1, <2>5, <2>6 DEF WalkInv
<1>5. CASE Draw
  <2>1. /\ phase = "layout" /\ phase' = "idle" /\ queue' = queue
        /\ levels' = [n \in NodeIds |-> IF n \in nodes /\ levels[n] = NoLevel THEN 0 ELSE levels[n]]
        /\ nodes' = nodes /\ edges' = edges
    BY <1>5 DEF Draw, buildVars
  <2>2. ASSUME NEW n \in nodes' PROVE Walk(n, levels[n])'
    <3>1. CASE levels[n] = NoLevel
      <4>1. levels'[n] = 0
        BY <2>1, <3>1, LevelTypes
      <4>2. Walk(n, 0)'
        BY WalkStarts
      <4> QED BY <4>1, <4>2
    <3>2. CASE levels[n] # NoLevel
      <4>1. levels'[n] = levels[n] /\ Walk(n, levels[n])
        BY <2>1, <3>2, LevelTypes DEF WalkInv
      <4>2. PICK k : k = levels[n]
        OBVIOUS
      <4>3. Walk(n, k)'
        BY <2>1, <4>1, <4>2, WalkStays
      <4> QED BY <4>1, <4>2, <4>3
    <3> QED BY <3>1, <3>2
  <2>3. \A entry \in queue' : Walk(entry[1], entry[2])'
    BY <2>1, WalkStays DEF WalkInv
  <2> QED BY <1>0, <2>1, <2>2, <2>3 DEF WalkInv
<1>6. CASE UNCHANGED vars
  <2>1. /\ phase' = phase /\ nodes' = nodes /\ edges' = edges
        /\ levels' = levels /\ queue' = queue
    BY <1>6 DEF vars, buildVars, layoutVars
  <2>2. ASSUME phase # "build", NEW n \in nodes, levels[n] # NoLevel PROVE Walk(n, levels[n])'
    <3>1. Walk(n, levels[n])
      BY <2>2 DEF WalkInv
    <3>2. PICK k : k = levels[n]
      OBVIOUS
    <3>3. Walk(n, k)'
      BY <2>1, <3>1, <3>2, WalkStays
    <3> QED BY <2>1, <3>2, <3>3
  <2>3. phase # "build" => \A entry \in queue : Walk(entry[1], entry[2])'
    BY <2>1, WalkStays DEF WalkInv
  <2> QED BY <1>0, <2>1, <2>2, <2>3 DEF WalkInv
<1> QED BY <1>1, <1>2, <1>3, <1>4, <1>5, <1>6 DEF Next, RenderStep

LEMMA InitWalk == Init => WalkInv
BY FS_EmptySet DEF Init, WalkInv

(* At every turn of the loop, on a graph without a cycle, every level is    *)
(* smaller than the number of nodes.  The levels only rise, so they cannot  *)
(* rise for ever.                                                           *)
THEOREM LevelsFit == Spec => []LevelsFitTheGraph
<1>1. TypeInv /\ WalkInv => LevelsFitTheGraph
  <2> SUFFICES ASSUME TypeInv, WalkInv, ~ HasCycle, NEW n \in nodes
               PROVE  levels[n] < Cardinality(nodes)
    BY DEF LevelsFitTheGraph
  <2>1. IsFiniteSet(nodes) /\ Cardinality(nodes) \in Nat /\ n \in NodeIds
    BY FS_CardinalityType, LevelTypes DEF WalkInv
  <2>2. CASE levels[n] = NoLevel
    BY <2>1, <2>2 DEF NoLevel
  <2>3. CASE levels[n] # NoLevel
    <3>1. levels[n] \in Nat /\ Walk(n, levels[n])
      BY <2>1, <2>3, LevelTypes DEF WalkInv, NoLevel
    <3> QED BY <2>1, <3>1, WalkFits
  <2> QED BY <2>2, <2>3
<1> QED BY <1>1, InitTypes, NextTypes, InitWalk, NextWalk, PTL DEF Spec

(* Every turn of the loop uses up the entry it works on: it was pending and *)
(* is not any more, and what the turn queues was pending before.  With the  *)
(* bound of LevelsFit this is the argument that the layout ends.            *)
LEMMA LayoutShrinks ==
  ASSUME TypeInv, LayoutInv, NEW entry \in queue, LayoutStep(entry[1], entry[2])
  PROVE  Pending' \subseteq Pending /\ Pending' # Pending
<1> DEFINE id == entry[1]
           level == entry[2]
           raised == {m \in nodes : <<id, m>> \in edges /\ level + 1 > levels[m]}
<1>0. /\ levels' = [m \in NodeIds |-> IF m \in raised THEN level + 1 ELSE levels[m]]
      /\ queue' = (queue \ {<<id, level>>}) \cup {<<m, level + 1>> : m \in raised}
      /\ phase = "layout" /\ nodes' = nodes /\ level < MaxLevel
  BY DEF LayoutStep, buildVars
<1>1. /\ entry = <<id, level>> /\ id \in nodes /\ level \in 0 .. MaxLevel /\ level \in Nat
      /\ level <= levels[id] /\ MaxLevel \in Nat
  BY <1>0, BoundsAssumption, LevelTypes DEF LayoutInv, TypeInv, TypeOK
<1>2. \A m \in nodes : levels[m] \in Int /\ levels'[m] \in Int /\ levels'[m] >= levels[m]
  BY <1>0, <1>1, LevelTypes
<1>3. \A m \in raised : m \in nodes /\ level + 1 > levels[m]
  OBVIOUS
<1> HIDE DEF id, level, raised
<1>4. ASSUME NEW pair \in Pending' PROVE pair \in Pending
  <2>1. pair \in nodes \X (0 .. MaxLevel) /\ (pair \in queue' \/ pair[2] > levels'[pair[1]])
    BY <1>0, <1>4 DEF Pending
  <2>2. pair[1] \in nodes /\ pair[2] \in Nat
    BY <2>1
  <2>3. pair \in queue \/ pair[2] > levels[pair[1]]
    <3>1. CASE pair[2] > levels'[pair[1]]
      BY <1>2, <2>2, <3>1
    <3>2. CASE pair \in {<<m, level + 1>> : m \in raised}
      <4>1. PICK m \in raised : pair = <<m, level + 1>>
        BY <3>2
      <4> QED BY <1>3, <4>1
    <3> QED BY <1>0, <2>1, <3>1, <3>2
  <2> QED BY <2>1, <2>3 DEF Pending
<1>5. entry \in Pending
  BY <1>1 DEF Pending
<1>6. entry \notin Pending'
  <2>1. entry \notin queue'
    BY <1>0, <1>1
  <2>2. ~ (entry[2] > levels'[entry[1]])
    <3>1. entry[1] = id /\ entry[2] = level
      BY DEF id, level
    <3> QED BY <1>1, <1>2, <3>1
  <2> QED BY <2>1, <2>2 DEF Pending
<1> QED BY <1>4, <1>5, <1>6

THEOREM LayoutAlwaysAdvances == Spec => LayoutAdvances
<1>1. TypeInv /\ LayoutInv /\ [Next]_vars =>
        [phase = "layout" /\ phase' = "layout" => Pending' \subseteq Pending /\ Pending' # Pending]_vars
  <2> SUFFICES ASSUME TypeInv, LayoutInv, Next, phase = "layout", phase' = "layout"
               PROVE  Pending' \subseteq Pending /\ Pending' # Pending
    OBVIOUS
  <2>1. \E entry \in queue : LayoutStep(entry[1], entry[2])
    BY DEF Next, RenderStep, BuildStep, StartLayout, Draw
  <2> QED BY <2>1, LayoutShrinks
<1> QED BY <1>1, InitTypes, NextTypes, InitLayout, NextLayout, GraphInvariant, PTL
        DEF Spec, LayoutAdvances

-----------------------------------------------------------------------------
(* The status.  The event that was just received heads the list, and no     *)
(* event is newer.                                                          *)
TimeInv ==
  /\ \A i \in DOMAIN history : history[i].time <= Now
  /\ \A i \in DOMAIN events : events[i].time <= Now
  /\ live => \A i \in DOMAIN events : events[i].time <= events[1].time

LEMMA TimeTypes ==
  ASSUME TypeInv
  PROVE  /\ \A i \in DOMAIN history : history[i].time \in Nat
         /\ \A i \in DOMAIN events : events[i].time \in Nat
         /\ Now \in Nat
<1>1. history \in Seq(Event) /\ events \in Seq(Event)
  BY DEF TypeInv, TypeOK
<1>2. \A e \in Event : e.time \in Nat
  BY EventFields, BoundsAssumption
<1>3. /\ \A i \in DOMAIN history : history[i].time \in Nat
      /\ \A i \in DOMAIN events : events[i].time \in Nat
  BY <1>1, <1>2, ElementType
<1>4. history # <<>> => Len(history) \in DOMAIN history
  BY <1>1
<1> QED BY <1>3, <1>4 DEF Now

LEMMA ReceiveTime ==
  ASSUME TypeInv, TimeInv, NEW e \in Event, Receive(e), e.time >= Now
  PROVE  TimeInv'
<1> DEFINE q == <<e>> \o events
           h == Append(history, e)
<1>0. history \in Seq(Event) /\ events \in Seq(Event)
  BY DEF TypeInv, TypeOK
<1>1. history' = h /\ Render(FirstOf(q, MaxShown), TRUE)
  BY DEF Receive
<1>2. events' = FirstOf(q, MaxShown)
  BY <1>1, RenderBlank
<1>3. q \in Seq(Event) /\ MaxShown \in Nat \ {0} /\ Len(q) = Len(events) + 1 /\ q[1] = e
  BY <1>0, BoundsAssumption
<1>4. \A i \in DOMAIN q : q[i].time <= e.time
  <2> TAKE i \in DOMAIN q
  <2>1. e.time \in Nat
    BY EventFields, BoundsAssumption
  <2>2. CASE i = 1
    BY <1>3, <2>1, <2>2
  <2>3. CASE i # 1
    <3>1. i - 1 \in DOMAIN events /\ q[i] = events[i - 1]
      BY <1>0, <2>3
    <3> QED BY <2>1, <3>1, TimeTypes DEF TimeInv
  <2> QED BY <2>2, <2>3
<1>5. Now' = e.time /\ \A i \in DOMAIN h : h[i].time <= e.time
  <2>1. e.time \in Nat
    BY EventFields, BoundsAssumption
  <2>2. h # <<>> /\ Len(h) = Len(history) + 1 /\ h[Len(h)] = e
    BY <1>0
  <2>3. Now' = e.time
    BY <1>1, <2>2 DEF Now
  <2>4. ASSUME NEW i \in DOMAIN h PROVE h[i].time <= e.time
    <3>1. CASE i = Len(history) + 1
      BY <1>0, <2>1, <3>1
    <3>2. CASE i # Len(history) + 1
      <4>1. i \in DOMAIN history /\ h[i] = history[i]
        BY <1>0, <3>2
      <4> QED BY <2>1, <4>1, TimeTypes DEF TimeInv
    <3> QED BY <3>1, <3>2
  <2> QED BY <2>3, <2>4
<1>6. 1 \in DOMAIN events' /\ events'[1] = e
  BY <1>2, <1>3 DEF FirstOf
<1> HIDE DEF q
<1>7. DOMAIN events' \subseteq DOMAIN q /\ \A i \in DOMAIN events' : events'[i] = q[i]
  BY <1>2, <1>3, FirstOfType
<1>8. \A i \in DOMAIN events' : events'[i].time <= e.time
  BY <1>4, <1>7
<1> QED BY <1>1, <1>5, <1>6, <1>8 DEF TimeInv

LEMMA EmitTime ==
  ASSUME TypeInv, TimeInv, NEW s \in 0 .. MaxSpans, NEW kind \in {"start", "end"}, Emit(s, kind)
  PROVE  TimeInv'
<1>1. PICK e \in Event : e.time >= Now /\ Receive(e)
  BY EmitIsReceive
<1> QED BY <1>1, ReceiveTime

LEMMA LoadWithin ==
  ASSUME TypeInv, LoadStep
  PROVE  \E q : Within(q, history) /\ Render(q, FALSE) /\ UNCHANGED runVars
<1>1. history \in Seq(Event)
  BY DEF TypeInv, TypeOK
<1>2. CASE Replay
  <2>1. MaxReplay \in Nat
    BY BoundsAssumption
  <2> QED BY <1>1, <1>2, <2>1, NewestWithin DEF Replay
<1>3. ASSUME NEW wanted \in Wanted, Search(wanted)
      PROVE  \E q : Within(q, history) /\ Render(q, FALSE) /\ UNCHANGED runVars
  <2> DEFINE hits == {i \in DOMAIN history : StatusOf(history[i]) = wanted}
  <2>1. PICK n \in 0 .. MaxShown : \E row \in [1 .. n -> hits] :
          Render([k \in 1 .. n |-> history[row[k]]], FALSE)
    BY <1>3 DEF Search
  <2>2. PICK row \in [1 .. n -> hits] : Render([k \in 1 .. n |-> history[row[k]]], FALSE)
    BY <2>1
  <2> DEFINE q == [k \in 1 .. n |-> history[row[k]]]
  <2>3. \A k \in 1 .. n : row[k] \in DOMAIN history
    OBVIOUS
  <2>4. Within(q, history)
    BY <2>3 DEF Within
  <2>5. UNCHANGED runVars
    BY <1>3 DEF Search
  <2> QED BY <2>2, <2>4, <2>5
<1> QED BY <1>2, <1>3 DEF LoadStep

LEMMA NextTime == TypeInv /\ TimeInv /\ [Next]_vars => TimeInv'
<1> SUFFICES ASSUME TypeInv, TimeInv, [Next]_vars PROVE TimeInv'
  OBVIOUS
<1>0. Len(spans) \in Nat /\ Len(spans) <= MaxSpans /\ MaxSpans \in Nat
  BY BoundsAssumption DEF TypeInv, TypeOK
<1>1. CASE RunStep
  <2>1. CASE StartTrace
    <3>1. Emit(0, "start") /\ 0 \in 0 .. MaxSpans
      BY <1>0, <2>1 DEF StartTrace
    <3> QED BY <3>1, EmitTime, Zenon
  <2>2. ASSUME NEW name, NEW parent, StartSpan(name, parent) PROVE TimeInv'
    <3>1. Emit(Len(spans) + 1, "start") /\ Len(spans) + 1 \in 0 .. MaxSpans
      BY <1>0, <2>2 DEF StartSpan
    <3> QED BY <3>1, EmitTime, Zenon
  <2>3. ASSUME NEW s \in 0 .. Len(spans), EndSpan(s) PROVE TimeInv'
    <3>1. Emit(s, "end") /\ s \in 0 .. MaxSpans
      BY <1>0, <2>3 DEF EndSpan
    <3> QED BY <3>1, EmitTime, Zenon
  <2> QED BY <1>1, <2>1, <2>2, <2>3 DEF RunStep
<1>2. CASE LoadStep
  <2>1. PICK q : Within(q, history) /\ Render(q, FALSE) /\ UNCHANGED runVars
    BY <1>2, LoadWithin
  <2>2. events' = q /\ live' = FALSE /\ history' = history /\ Now' = Now
    BY <2>1, RenderBlank DEF runVars, Now
  <2> QED BY <2>1, <2>2 DEF TimeInv, Within
<1>3. CASE RenderStep \/ UNCHANGED vars
  <2>1. history' = history /\ events' = events /\ live' = live /\ Now' = Now
    BY <1>3 DEF RenderStep, BuildStep, StartLayout, LayoutStep, Draw, vars, runVars, Now
  <2> QED BY <2>1 DEF TimeInv
<1> QED BY <1>1, <1>2, <1>3 DEF Next

LEMMA DrawStatus ==
  ASSUME TypeInv, GraphInv, TimeInv, Draw
  PROVE  StatusIsNewest'
<1>0. /\ shown' = [n \in NodeIds |-> IF n \in nodes THEN ClassOf(n) ELSE "unknown"]
      /\ events' = events /\ spans' = spans
      /\ phase = "layout"
  BY DEF Draw, runVars
<1>1. SUFFICES ASSUME NEW i \in DOMAIN events,
                      ResolvedNode(events[i]) \notin Tasks,
                      \A j \in DOMAIN events \ {i} :
                        ResolvedNode(events[j]) = ResolvedNode(events[i])
                          => events[j].time < events[i].time
               PROVE  shown'[ResolvedNode(events[i])] = StatusOf(events[i])
  BY <1>0 DEF StatusIsNewest, Name, ResolvedNode
<1> DEFINE n == ResolvedNode(events[i])
<1>2. n \in nodes /\ n \in NodeIds
  <2>1. NodeOf(events[i]) \in nodes
    BY <1>0 DEF GraphInv, Done
  <2>2. NodeOf(events[i]) = n
    BY <1>1 DEF NodeOf, ResolvedNode
  <2> QED BY <2>1, <2>2 DEF TypeInv, TypeOK
<1>3. \A j \in DOMAIN events \ {i} : ResolvedNode(events[j]) = n => events[j].time < events[i].time
  BY <1>1
<1>4. \A j \in DOMAIN events : events[j].time \in Nat
  BY TimeTypes
<1>5. LastOf(n) = {i}
  <2>1. i \in LastOf(n)
    BY <1>3 DEF LastOf, Precedes
  <2>2. ASSUME NEW k \in LastOf(n), k # i PROVE FALSE
    <3>1. Precedes(i, k) /\ k \in DOMAIN events /\ events[k].time < events[i].time
      BY <1>3, <2>2 DEF LastOf
    <3> QED BY <1>4, <3>1 DEF Precedes
  <2> QED BY <2>1, <2>2
<1>6. CASE IsActive(n)
  <2>1. 1 \in DOMAIN events /\ events[i].time <= events[1].time
    <3>1. events \in Seq(Event)
      BY DEF TypeInv, TypeOK
    <3>2. 1 \in DOMAIN events
      BY <3>1
    <3> QED BY <1>6, <3>2 DEF TimeInv, IsActive
  <2>2. i = 1
    BY <1>3, <1>4, <1>6, <2>1 DEF IsActive
  <2>3. ClassOf(n) = StatusOf(events[i])
    BY <1>6, <2>2 DEF ClassOf
  <2> QED BY <1>0, <1>2, <2>3
<1>7. CASE ~ IsActive(n)
  <2>1. (CHOOSE k \in LastOf(n) : TRUE) = i
    BY <1>5
  <2>2. ClassOf(n) = StatusOf(events[i])
    BY <1>5, <1>7, <2>1 DEF ClassOf
  <2> QED BY <1>0, <1>2, <2>2
<1> QED BY <1>6, <1>7

LEMMA NextStatus ==
  TypeInv /\ GraphInv /\ TimeInv /\ StatusIsNewest /\ [Next]_vars => StatusIsNewest'
<1> SUFFICES ASSUME TypeInv, GraphInv, TimeInv, StatusIsNewest, [Next]_vars
             PROVE  StatusIsNewest'
  OBVIOUS
<1>1. CASE RunStep \/ LoadStep
  BY <1>1, BlankAfter DEF Blank, StatusIsNewest
<1>2. ASSUME NEW i \in todo, BuildStep(i) PROVE StatusIsNewest'
  BY <1>2 DEF BuildStep, StatusIsNewest
<1>3. CASE StartLayout
  BY <1>3 DEF StartLayout, StatusIsNewest
<1>4. ASSUME NEW entry \in queue, LayoutStep(entry[1], entry[2]) PROVE StatusIsNewest'
  BY <1>4 DEF LayoutStep, StatusIsNewest
<1>5. CASE Draw
  BY <1>5, DrawStatus
<1>6. CASE UNCHANGED vars
  BY <1>6 DEF vars, runVars, StatusIsNewest, ResolvedNode, Name
<1> QED BY <1>1, <1>2, <1>3, <1>4, <1>5, <1>6 DEF Next, RenderStep

LEMMA InitStatus == Init => TimeInv /\ StatusIsNewest
BY DEF Init, TimeInv, StatusIsNewest

(* Every card shows the newest event in the list that counts for it, unless *)
(* it shares its time with another: of one span, of several or of the trace.*)
THEOREM StatusFollowsTime == Spec => []StatusIsNewest
BY InitTypes, NextTypes, InitGraph, NextGraph, InitStatus, NextTime, NextStatus, PTL DEF Spec
=============================================================================
