---------------------------- MODULE RuntimeGraph ----------------------------
(***************************************************************************)
(* The runtime graph of the browser (dashboard_service/static/app.js): one *)
(* workflow run emits trace and span events, the browser keeps a list of   *)
(* events, and whenever the list changes it rebuilds the graph from it     *)
(* (buildRuntimeGraph), places every node on a level (layoutRuntimeGraph)  *)
(* and colours it (applyEvent).                                            *)
(*                                                                         *)
(* A callback of the browser runs to its end before the next one: one turn *)
(* of each loop is an action, and the run's next event is handled when the *)
(* graph is drawn.  Span 0 is the trace itself, the others are numbered in *)
(* the order they start.  One trace is shown (runtimeGraph.maxTraces is 1).*)
(* Titles, sizes, rows and the status of edges are left out, and so is the *)
(* status "error", which is handled like "success".                        *)
(***************************************************************************)
EXTENDS Integers, Sequences, FiniteSets

CONSTANTS
  Names,       \* the ids runtimeNodeForEvent makes of a span's kind and name
  Tasks,       \* those of SDK task spans that have a name (as long as it fits a card)
  Branches,    \* ids of declared tools and handoff targets
  BranchesOf,  \* the branches an agent of some name declares
  Workflow,    \* the id of the trace's card
  Waiting,     \* the id of the card of an empty graph
  NoNode,
  MaxSpans,    \* bound of the model: spans of the run
  MaxEvents,   \* bound of the model: events of the run
  MaxTime,     \* bound of the model: different timestamps, in milliseconds
  Wanted,      \* bound of the model: the statuses that are searched for
  MaxReplay,   \* settings.replay_buffer_size
  MaxShown,    \* the 100 of the message callback and the archive form
  MaxLevel     \* bound of the model: where the layout is cut off

NodeIds == Names \cup Branches \cup {Workflow, Waiting}

ASSUME NamesAssumption ==
  /\ Tasks \subseteq Names
  /\ Names \cap Branches = {}
  /\ {Workflow, Waiting} \cap (Names \cup Branches) = {}
  /\ Workflow # Waiting
  /\ NoNode \notin NodeIds
ASSUME BranchesAssumption ==
  /\ BranchesOf \in [Names -> SUBSET Branches]
  /\ \A m, n \in Names : m # n => BranchesOf[m] \cap BranchesOf[n] = {}
  /\ \A n \in Names : IsFiniteSet(BranchesOf[n])
ASSUME BoundsAssumption ==
  /\ {MaxSpans, MaxEvents, MaxTime, MaxLevel} \subseteq Nat
  /\ {MaxReplay, MaxShown} \subseteq Nat \ {0}
  /\ Wanted \subseteq {"active", "success"}

VARIABLES
  spans,      \* the spans that started: name and parent
  history,    \* all events of the run, in the order they were emitted
  events,     \* state.events
  live,       \* whether events[1] was just received (activeEvent)
  phase,      \* of the callback: "idle", "build" or "layout"
  todo,       \* the positions of events that buildRuntimeGraph has not reached
  nodes,      \* the keys of its map nodes
  edges,      \* its edges, as pairs
  spanToNode, \* its map spanToNode
  status,     \* the status it gives a node
  levels,     \* the map levels of layoutRuntimeGraph, or NoLevel
  queue,      \* its queue
  shown       \* the status class of a drawn node

runVars == <<spans, history>>
buildVars == <<nodes, edges, spanToNode, status>>
layoutVars == <<levels, queue>>
vars == <<runVars, events, live, phase, todo, buildVars, layoutVars, shown>>

Span == 1 .. MaxSpans
Event == [span : 0 .. MaxSpans, kind : {"start", "end"}, time : 0 .. MaxTime]
Statuses == {"active", "success", "idle", "unknown"}
NoLevel == -1

StatusOf(e) == IF e.kind = "start" THEN "active" ELSE "success"
Parent(s) == spans[s].parent
Name(s) == spans[s].name

Reversed(seq) == [i \in 1 .. Len(seq) |-> seq[Len(seq) + 1 - i]]
FirstOf(seq, n) == SubSeq(seq, 1, IF Len(seq) < n THEN Len(seq) ELSE n)
Newest(n) == Reversed(FirstOf(Reversed(history), n))

\* A plausible bug: the list is taken to be sorted.
PrecedesUnsorted(i, j) == i < j

\* sortedEvents: by timestamp, and a sort that keeps the order of ties.
Precedes(i, j) ==
  \/ events[i].time < events[j].time
  \/ events[i].time = events[j].time /\ i < j

-----------------------------------------------------------------------------
Init ==
  /\ spans = <<>>
  /\ history = <<>>
  /\ events = <<>>
  /\ live = FALSE
  /\ phase = "build"        \* boot() renders the empty list
  /\ todo = {}
  /\ nodes = {}
  /\ edges = {}
  /\ spanToNode = [s \in Span |-> NoNode]
  /\ status = [n \in NodeIds |-> "unknown"]
  /\ levels = [n \in NodeIds |-> NoLevel]
  /\ queue = {}
  /\ shown = [n \in NodeIds |-> "unknown"]

-----------------------------------------------------------------------------
(* renderGraph on a new list: buildRuntimeGraph starts with empty maps, and *)
(* what was drawn before is replaced.                                       *)
Render(list, isLive) ==
  /\ phase' = "build"
  /\ events' = list
  /\ live' = isLive
  /\ todo' = DOMAIN list
  /\ nodes' = {}
  /\ edges' = {}
  /\ spanToNode' = [s \in Span |-> NoNode]
  /\ status' = [n \in NodeIds |-> "unknown"]
  /\ levels' = [n \in NodeIds |-> NoLevel]
  /\ queue' = {}
  /\ shown' = [n \in NodeIds |-> "unknown"]

(* The message callback on a live event: unshift, slice(0, 100), render.    *)
Receive(e) ==
  /\ history' = Append(history, e)
  /\ Render(FirstOf(<<e>> \o events, MaxShown), TRUE)

(* The run emits an event; time does not go back.                           *)
Now == IF history = <<>> THEN 0 ELSE history[Len(history)].time
Emit(s, kind) ==
  /\ Len(history) < MaxEvents
  /\ \E t \in {Now, Now + 1} :
       t <= MaxTime /\ Receive([span |-> s, kind |-> kind, time |-> t])

Emitted(s, kind) == \E i \in DOMAIN history :
  history[i].span = s /\ history[i].kind = kind

StartTrace ==
  /\ history = <<>>
  /\ Emit(0, "start")
  /\ UNCHANGED spans

\* parent_span_id is null below the trace itself.
StartSpan(name, parent) ==
  /\ Emitted(0, "start")
  /\ ~ Emitted(0, "end")
  /\ Len(spans) < MaxSpans
  /\ spans' = Append(spans, [name |-> name, parent |-> parent])
  /\ Emit(Len(spans) + 1, "start")

EndSpan(s) ==
  /\ Emitted(s, "start")
  /\ ~ Emitted(s, "end")
  /\ Emit(s, "end")
  /\ UNCHANGED spans

(* The replay frame of a new connection: the newest events, oldest first.   *)
Replay ==
  /\ Render(Newest(MaxReplay), FALSE)
  /\ UNCHANGED runVars

(* The archive form: the newest events of one status, newest first.         *)
Search(wanted) ==
  LET hits == {i \in DOMAIN history : StatusOf(history[i]) = wanted} IN
  /\ \E n \in 0 .. MaxShown : \E row \in [1 .. n -> hits] :
       LET listed == {row[k] : k \in 1 .. n} IN
       /\ \A j, k \in 1 .. n : j < k => row[k] < row[j]
       /\ \A i \in hits \ listed, k \in 1 .. n : i < row[k]
       /\ n < MaxShown => hits \subseteq listed
       /\ Render([k \in 1 .. n |-> history[row[k]]], FALSE)
  /\ UNCHANGED runVars

-----------------------------------------------------------------------------
(* The node an event counts for.  A trace event counts for the workflow; so *)
(* does an event of a named task, because the label that buildRuntimeGraph  *)
(* compares with the task's has just been taken from the same event.        *)
NodeOf(e) ==
  IF e.span = 0 \/ Name(e.span) \in Tasks THEN Workflow ELSE Name(e.span)

BranchesAt(n) == IF n \in Names THEN BranchesOf[n] ELSE {}

(* Plausible bugs: no edge when the parent is not known; parents ignored.   *)
EdgeSourceNone(e) ==
  CASE e.span = 0 \/ Parent(e.span) = 0 -> Workflow
    [] e.span # 0 /\ Parent(e.span) # 0 ->
         IF spanToNode[Parent(e.span)] # NoNode THEN spanToNode[Parent(e.span)] ELSE NodeOf(e)
EdgeSourceFlat(e) == Workflow

(* Where the edge to the node of an event comes from: the node of the parent*)
(* span if an event of it was already processed, else the workflow.         *)
EdgeSource(e) ==
  IF e.span # 0 /\ Parent(e.span) # 0 /\ spanToNode[Parent(e.span)] # NoNode
  THEN spanToNode[Parent(e.span)]
  ELSE Workflow

(* addRuntimeEdge: none from a node to itself; nor does an event add one    *)
(* that counts for the workflow.                                            *)
AddedEdges(from, n) == {edge \in {<<from, n>>} : n # Workflow /\ from # n}

(* ensureNode and mergeNodeStatus: an event sets the status of the workflow *)
(* and of its node, a declared branch is idle.                              *)
MergedStatus(e, n) ==
  [m \in NodeIds |-> CASE m \in {Workflow, n} -> StatusOf(e)
                       [] m \in BranchesAt(n) -> "idle"
                       [] OTHER -> status[m]]

(* A plausible bug: the declared branches get edges but no nodes.           *)
BuildStepBare(i) ==
  LET e == events[i]
      n == NodeOf(e)
      from == EdgeSource(e)
  IN
  /\ phase = "build"
  /\ i \in todo
  /\ \A j \in todo \ {i} : Precedes(i, j)
  /\ todo' = todo \ {i}
  /\ nodes' = nodes \cup {Workflow, n}
  /\ edges' = edges \cup AddedEdges(from, n) \cup {<<n, b>> : b \in BranchesAt(n)}
  /\ spanToNode' = [s \in Span |-> IF s = e.span THEN n ELSE spanToNode[s]]
  /\ status' = MergedStatus(e, n)
  /\ UNCHANGED <<runVars, events, live, phase, layoutVars, shown>>

(* One turn of the loop of buildRuntimeGraph, for the next event in order.  *)
BuildStep(i) ==
  LET e == events[i]
      n == NodeOf(e)
      from == EdgeSource(e)
      branches == BranchesAt(n)
  IN
  /\ phase = "build"
  /\ i \in todo
  /\ \A j \in todo \ {i} : Precedes(i, j)
  /\ todo' = todo \ {i}
  /\ nodes' = nodes \cup {Workflow, n} \cup branches
  /\ edges' = edges \cup AddedEdges(from, n) \cup {<<n, b>> : b \in branches}
  /\ spanToNode' = [s \in Span |-> IF s = e.span THEN n ELSE spanToNode[s]]
  /\ status' = MergedStatus(e, n)
  /\ UNCHANGED <<runVars, events, live, phase, layoutVars, shown>>

\* An empty graph gets a card that says it waits.
AllNodes == IF nodes = {} THEN {Waiting} ELSE nodes

\* A plausible bug: the first column is level 1.
StartLayoutAtOne ==
  LET roots == {n \in AllNodes : \A edge \in edges : edge[2] # n} IN
  /\ phase = "build"
  /\ todo = {}
  /\ phase' = "layout"
  /\ nodes' = AllNodes
  /\ levels' = [n \in NodeIds |-> IF n \in roots THEN 1 ELSE NoLevel]
  /\ queue' = {<<n, 1>> : n \in roots}
  /\ UNCHANGED <<runVars, events, live, todo, edges, spanToNode, status, shown>>

(* The loop is over.  layoutRuntimeGraph starts at the nodes no edge enters.*)
StartLayout ==
  LET roots == {n \in AllNodes : \A edge \in edges : edge[2] # n} IN
  /\ phase = "build"
  /\ todo = {}
  /\ phase' = "layout"
  /\ nodes' = AllNodes
  /\ levels' = [n \in NodeIds |-> IF n \in roots THEN 0 ELSE NoLevel]
  /\ queue' = {<<n, 0>> : n \in roots}
  /\ UNCHANGED <<runVars, events, live, todo, edges, spanToNode, status, shown>>

(* Plausible bugs: a node is placed when it is first met and never again;   *)
(* the entry that is worked on stays in the queue.                          *)
LayoutStepOnce(id, level) ==
  LET raised == {m \in nodes : <<id, m>> \in edges /\ levels[m] = NoLevel} IN
  /\ phase = "layout"
  /\ <<id, level>> \in queue
  /\ level < MaxLevel
  /\ levels' = [m \in NodeIds |-> IF m \in raised THEN level + 1 ELSE levels[m]]
  /\ queue' = (queue \ {<<id, level>>}) \cup {<<m, level + 1>> : m \in raised}
  /\ UNCHANGED <<runVars, events, live, phase, todo, buildVars, shown>>
LayoutStepKeeps(id, level) ==
  LET raised == {m \in nodes : <<id, m>> \in edges /\ level + 1 > levels[m]} IN
  /\ phase = "layout"
  /\ <<id, level>> \in queue
  /\ level < MaxLevel
  /\ levels' = [m \in NodeIds |-> IF m \in raised THEN level + 1 ELSE levels[m]]
  /\ queue' = queue \cup {<<m, level + 1>> : m \in raised}
  /\ UNCHANGED <<runVars, events, live, phase, todo, buildVars, shown>>

(* One turn of its while loop.  Which entry is taken is left open.          *)
LayoutStep(id, level) ==
  LET raised == {m \in nodes : <<id, m>> \in edges /\ level + 1 > levels[m]} IN
  /\ phase = "layout"
  /\ <<id, level>> \in queue
  /\ level < MaxLevel
  /\ levels' = [m \in NodeIds |-> IF m \in raised THEN level + 1 ELSE levels[m]]
  /\ queue' = (queue \ {<<id, level>>}) \cup {<<m, level + 1>> : m \in raised}
  /\ UNCHANGED <<runVars, events, live, phase, todo, buildVars, shown>>

(* resolveNodeId: unlike in buildRuntimeGraph, a task has a node of its own,*)
(* which is not drawn.                                                      *)
ResolvedNode(e) == IF e.span = 0 THEN Workflow ELSE Name(e.span)

(* applyEvent: every event of the list, in order, sets the class of its     *)
(* node, and then the event that was just received does.                    *)
LastOf(n) == {i \in DOMAIN events :
  /\ ResolvedNode(events[i]) = n
  /\ \A j \in DOMAIN events \ {i} : ResolvedNode(events[j]) = n => Precedes(j, i)}
IsActive(n) == live /\ ResolvedNode(events[1]) = n
ClassOf(n) ==
  CASE IsActive(n) -> StatusOf(events[1])
    [] ~ IsActive(n) /\ LastOf(n) # {} -> StatusOf(events[CHOOSE i \in LastOf(n) : TRUE])
    [] OTHER -> status[n]

(* The queue is empty: the remaining nodes get level 0, every node is drawn *)
(* with its status, and the events are applied.                             *)
Draw ==
  /\ phase = "layout"
  /\ queue = {}
  /\ phase' = "idle"
  /\ levels' = [n \in NodeIds |-> IF n \in nodes /\ levels[n] = NoLevel THEN 0 ELSE levels[n]]
  /\ shown' = [n \in NodeIds |-> IF n \in nodes THEN ClassOf(n) ELSE "unknown"]
  /\ UNCHANGED <<runVars, events, live, todo, buildVars, queue>>

-----------------------------------------------------------------------------
RunStep ==
  \/ StartTrace
  \/ \E name \in Names, parent \in 0 .. Len(spans) : StartSpan(name, parent)
  \/ \E s \in 0 .. Len(spans) : EndSpan(s)

LoadStep == Replay \/ \E wanted \in Wanted : Search(wanted)

RenderStep ==
  \/ \E i \in todo : BuildStep(i)
  \/ StartLayout
  \/ \E entry \in queue : LayoutStep(entry[1], entry[2])
  \/ Draw

Next ==
  \/ phase = "idle" /\ (RunStep \/ LoadStep)
  \/ RenderStep

(* A callback that has begun goes on; no one owes an event.                 *)
Spec == Init /\ [][Next]_vars
FairSpec == Spec /\ WF_vars(RenderStep)

-----------------------------------------------------------------------------
(* Types; the queue and the edges only name nodes that exist.               *)
TypeOK ==
  /\ spans \in Seq([name : Names, parent : 0 .. MaxSpans])
  /\ Len(spans) <= MaxSpans
  /\ history \in Seq(Event)
  /\ events \in Seq(Event)
  /\ live \in BOOLEAN
  /\ phase \in {"idle", "build", "layout"}
  /\ todo \subseteq DOMAIN events
  /\ nodes \subseteq NodeIds
  /\ edges \subseteq nodes \X nodes
  /\ spanToNode \in [Span -> NodeIds \cup {NoNode}]
  /\ status \in [NodeIds -> Statuses]
  /\ levels \in [NodeIds -> {NoLevel} \cup 0 .. MaxLevel]
  /\ queue \subseteq NodeIds \X (0 .. MaxLevel)
  /\ shown \in [NodeIds -> Statuses]

(* Every card hangs under the trace: no node and no cycle of nodes is left  *)
(* without an edge from the rest, even when parents were evicted from the   *)
(* list or sort after their children.  (A set that no edge enters contains  *)
(* the workflow.)                                                           *)
Rooted ==
  nodes # {Waiting} => \A S \in (SUBSET nodes) \ {{}} :
    (\A edge \in edges : edge[2] \in S => edge[1] \in S) => Workflow \in S

(* An edge says what the events say: it leads to a branch its node declares,*)
(* from a span's parent to the span, or from the workflow to a span without *)
(* a parent, or to one with an event no event of its parent is earlier than.*)
OnlyRealEdges ==
  \A edge \in edges :
    \/ edge[2] \in BranchesAt(edge[1])
    \/ \E i \in DOMAIN events :
         LET s == events[i].span IN
         /\ s # 0
         /\ edge[2] = Name(s)
         /\ \/ /\ Parent(s) # 0
               /\ edge[1] = IF Name(Parent(s)) \in Tasks THEN Workflow ELSE Name(Parent(s))
            \/ /\ edge[1] = Workflow
               /\ \A j \in DOMAIN events : Parent(s) # 0 /\ events[j].span = Parent(s)
                    => events[j].time >= events[i].time

(* The span hierarchy is shown: once the graph is built there is an edge    *)
(* from parent to child for every event of a span that is later than an     *)
(* event of its parent, whatever order the list is in.                      *)
HierarchyShown ==
  phase # "build" => \A i, j \in DOMAIN events :
    LET e == events[i]
        f == events[j]
    IN
    /\ e.span # 0 /\ f.span # 0 /\ f.span = Parent(e.span)
    /\ f.time < e.time
    /\ NodeOf(e) \notin {NodeOf(f), Workflow}
    => <<NodeOf(f), NodeOf(e)>> \in edges

(* A node with a level is the length of the longest way to it: to the right *)
(* of all its predecessors, and right next to one of them.                  *)
LevelsAreLongestPaths ==
  phase = "idle" => \A n \in nodes :
    /\ \A m \in nodes : <<m, n>> \in edges => levels[m] < levels[n]
    /\ levels[n] = 0 \/ \E m \in nodes : <<m, n>> \in edges /\ levels[n] = levels[m] + 1

(* A card shows the newest event in the list that counts for it, of         *)
(* whichever span, when that event is newer than the others: neither the    *)
(* order of the list nor the event that was just received prevails over     *)
(* time.  (A task's card is not drawn.)                                     *)
StatusIsNewest ==
  phase = "idle" => \A i \in DOMAIN events :
    LET n == ResolvedNode(events[i]) IN
    /\ n \notin Tasks
    /\ \A j \in DOMAIN events \ {i} :
         ResolvedNode(events[j]) = n => events[j].time < events[i].time
    => shown[n] = StatusOf(events[i])

(* Rendering comes to an end, except on a cycle of names.                   *)
HasCycle == \E S \in (SUBSET nodes) \ {{}} :
  \A n \in S : \E m \in S : <<m, n>> \in edges
RenderEnds == []<>(phase = "idle" \/ HasCycle)

(* Its counterpart: a graph with a cycle is never drawn, so that one such   *)
(* list leaves the page busy for ever.                                      *)
CyclesAreNeverDrawn == phase = "idle" => ~ HasCycle

(* Why it ends, in two parts.  Without a cycle a level is the length of a   *)
(* way that meets no node twice, so the levels, which only rise, are bounded*)
(* by the number of nodes, at every turn of the loop.                       *)
LevelsFitTheGraph == ~ HasCycle =>
  \A n \in nodes : levels[n] < Cardinality(nodes)

(* And every turn uses up one of the pairs of a node and a level that are   *)
(* queued or above the node's level, and adds none.                         *)
Pending == {entry \in nodes \X (0 .. MaxLevel) :
  entry \in queue \/ entry[2] > levels[entry[1]]}
LayoutAdvances ==
  [][phase = "layout" /\ phase' = "layout"
       => Pending' \subseteq Pending /\ Pending' # Pending]_vars

(* docs/live-testing.md: "Runtime graph mode shows trace/span-derived cards *)
(* and branch edges".  It does once the layout ends; a level that is no     *)
(* smaller than the number of nodes is the length of a way that goes round  *)
(* a cycle, and the loop goes round it for ever.                            *)
LevelsAreBounded ==
  \A n \in nodes : levels[n] < Cardinality(nodes)

\* The only span of its name, so that the card of that name is its own.
HasOwnCard(s) ==
  /\ Name(s) \notin Tasks
  /\ \A t \in DOMAIN spans : Name(t) = Name(s) => t = s

(* README.md: "operators can see whether an agent workflow is active, slow, *)
(* completed, or failing".  A span whose end is in the list is not shown as *)
(* active.                                                                  *)
CompletedIsShown ==
  phase = "idle" => \A i \in DOMAIN events :
    LET s == events[i].span IN
    s # 0 /\ HasOwnCard(s) /\ events[i].kind = "end" => shown[Name(s)] = "success"

(* The same sentence of README.md: a workflow that is still running is not  *)
(* shown as completed.                                                      *)
RunningIsNotCompleted ==
  phase = "idle" /\ ~ Emitted(0, "end") => shown[Workflow] # "success"
=============================================================================
