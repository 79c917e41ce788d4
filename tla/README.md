# OpenAI Agent SDK Dashboard: a TLA+ development

The dashboard receives trace events of OpenAI Agents SDK workflows over Redis Pub/Sub, archives
them in SQLite, keeps the newest ones in memory for replay, and streams them over websockets to a
browser that draws the workflow. This directory states what that service promises, models the code
that has to keep the promise, checks the models with TLC and proves the most important results with
TLAPS. Paths below are relative to the repository (`src/`).

## 1. Inventory

| component | state | operations | talks to |
|---|---|---|---|
| trace processor, publisher (`agents_sdk.py`, `publisher.py`) | a Redis client | `on_trace_start/end`, `on_span_start/end`: map an SDK object to an event and publish it synchronously | Redis channel |
| Redis subscriber (`broker.py`) | `_stopped`, a Pub/Sub subscription | `run`, `stop`, `_decode_message` | calls `handle_event`; created and cancelled by the lifespan |
| normalization (`events.py`) | none | `event_from_mapping`, `to_client_payload`, `resolve_role` | used by subscriber, endpoints, store |
| event fan-out (`main.py`, `EventBuffer`) | connection table, replay buffer, one coroutine per websocket | `handle_event`, `connect`, `broadcast`, `disconnect`, `/ws/dashboard`, `/api/dev/events` | store, buffer, browsers |
| archive (`store.py`) | the `events` table | `add`, `search`, `latest`, `close` | fan-out (`add`), start-up (`latest`), `/api/events/search` |
| lifespan (`main.py:65-86`) | subscriber, its task, the store | start-up, shutdown | subscriber, store |
| browser session (`app.js:68-200`) | token, `state.socket`, `state.events`, the connection label | boot, token form, clear, archive search, socket callbacks | `/ws/dashboard`, `/api/config`, `/api/events/search` |
| browser graphs (`app.js:202-699`, `723-865`) | nodes, edges, statuses, levels: rebuilt on each event | `buildRuntimeGraph`, `layoutRuntimeGraph`, `applyEvent` | `state.events` |
| drawing, labels, zoom (`app.js:274-390`, `701-721`, `868-1099`) | SVG elements | geometry and wording | - |
| settings, HTTP reads, scripts, CI | none | - | - |

Where it is hard:

- **Interleaving on one event loop.** Subscriber, posters and one endpoint per browser run between
  each other's `await`s: a browser joins, leaves or stalls in the middle of a broadcast
  (`main.py:43-48`), and two broadcasts overlap (`main.py:60-63`).
- **Half-failed steps.** A send may raise `RuntimeError` (caught) or `WebSocketDisconnect` (not
  caught); `connect` runs outside the endpoint's `try`; the store may raise; one bad message or one
  vanished browser ends the subscriber for good (`broker.py:45-47`), and then the shutdown skips
  closing the store (`main.py:82-86`).
- **Restart.** The buffer is refilled from the archive in timestamp order, it was filled in order
  of arrival.
- **Lossy delivery.** Pub/Sub keeps nothing; a message delivered twice gets two event ids.
- **Browser callbacks out of order.** Sockets are replaced without waiting for the old one to
  close, fetches answer late, replay and live list are kept in opposite orders.
- **A worklist over a graph merged by name**, which need not be acyclic (`app.js:653-662`).

What makes each component correct:

- *fan-out*: archived before shown; the replay comes first; no event twice, no gap between replay
  and live stream; per-source order; only dead websockets are dropped; every broadcast ends.
- *archive*: `latest` and `search` return the newest matching rows; one row per id; pages cover the
  result; after a restart the replay is what it was.
- *subscriber*: every well-formed message that arrives is handled once, in order; it stops when
  asked; shutdown releases everything.
- *browser session*: the label tells the state of the current socket; the list shows what the
  server last sent.
- *graphs*: every executed node hangs under the workflow, edges point to the right, the layout
  terminates, a running node is shown as running.
- *trace processor and normalization*: the last event of a span tells its outcome whatever is lost
  or repeated; its events are counted for one card, for both roles; its duration agrees with its
  timestamps and is never refused.

`PROJECT.json` lists every component with its status and every hazard with its line.

## 2. Plan

| order | module | what | abstract specification | runs | theorems |
|---|---|---|---|---|---|
| 1 | `EventFanout` | fan-out | `ReplayThenLive` | `EventFanout`, `EventFanoutAll` | all but `BroadcastEnds`, with the refinement |
| 2 | `RuntimeGraph` | build, layout and statuses of the runtime graph | `LevelsAreLongestPaths`, `Rooted` | `RuntimeGraph`, three findings | all but `RenderEnds` |
| 3 | `RedisSubscriber` | publish, run/stop/cancel, lifespan, Pub/Sub loss | `AtMostOnceChannel` | `RedisSubscriber` | all but `ShutdownEnds` and `ArrivedIsArchived`, with the refinement |
| 4 | `EventArchive` | rows, `REPLACE`, `latest`, `search`, pages, refill | `ArchiveIsLastWord` | `EventArchive`, `EventArchiveSince` | all properties |
| 5 | `BrowserSession` | one tab on top of the service: sockets, boot, token form, search, list | is built on `ReplayThenLive` | `BrowserSession`, `BrowserSessionOnline` | all but `ConnectingEnds` |
| 6 | `EventNormalization`, `TraceProcessor` | from a callback of the SDK to a card of each role | - | `TraceProcessor` | all properties |

All of it is built. The modules meet in three places: `EventFanout` implements `ReplayThenLive`, which
is the service that `BrowserSession` runs against; `TraceProcessor` uses the functions of
`EventNormalization`, as the subscriber, the store and the websockets do; and each of the others
takes its neighbour as one step (`RedisSubscriber` the broadcast, `EventFanout` the table). One run
per module checks all its safety and liveness properties; each finding has a run of its own.

The fan-out comes first: it is where every event passes, where all the tasks meet, and what the
other modules rely on. Modules that are proved about use no `RECURSIVE` operator.

**What is proved and what is not.** Every invariant, action property and refinement that a passing
run checks is also a theorem, for every value of the constants that satisfies the named
assumptions. The five liveness properties (`BroadcastEnds`, `RenderEnds`, `ShutdownEnds`,
`ArrivedIsArchived`, `ConnectingEnds`) are model-checked only: liveness under fairness needs ENABLED,
which the prover does not handle. For three of them what makes them true is a safety property,
which is stated and proved: `BroadcastAdvances`, `LayoutAdvances` with `LevelsFitTheGraph`, and
`ShutdownAdvances` say that every step uses up something finite. What is then left to TLC is that a
step is possible and taken. Properties that are theorems and follow from another property of the
same run, or explain one, are not checked by the runs again; each section names them.

## 3. Event fan-out

`EventFanout.tla` models `handle_event`, `EventBuffer`, `ConnectionManager`, the websocket endpoint
and its callers.

**Granularity.** Everything runs on one asyncio event loop, so an action is the code between two
suspension points. `websocket.send_json` writes its frame synchronously and then may suspend; the
model suspends after every send, which includes the executions in which it does not (the source
goes on at once). A send that Starlette or uvicorn refuses with `RuntimeError` raises without
suspending: `BroadcastOn` therefore removes any number of refusing websockets (`met`) and then
writes to the next one, meets a lost transport, or ends, in one step. The order in which the copied
dict is iterated is left open, so the model has more behaviours than the code; every property is
checked for all orders.

**State.** `archive` is the committed rows, `buffer` the deque, `registered` the keys of
`_connections`; `endpoint`, `peer`, `failed`, `wire` are, per websocket, the position of its
coroutine, its transport, Starlette's refusal after a failed send, and the frames written;
`task`, `current`, `targets`, `awaiting` are, per source, where its `handle_event` is suspended.
`joined`, `origin`, `aborted`, `handled` are history that only the properties read (`handled` also
numbers the events).

**Actions.**

| action | code |
|---|---|
| `HandleEvent(s)` | `handle_event`: `event_store.add`, `event_buffer.add`, broadcast to its first suspension |
| `StoreFails(s)` | the same with `event_store.add` raising |
| `SendReturns(s)`, `SendRaises(s)` | the awaited send of `broadcast` ends; the loop goes on, or `WebSocketDisconnect` leaves it |
| `Reject(c)`, `Accept(c)` | the endpoint with and without a role, up to its first `await` |
| `Register(c)` | `accept` returned: the dict entry, the snapshot and the replay frame, with no suspension in between |
| `ReplaySent(c)`, `ReplayRaises(c)` | the replay send ends |
| `Disconnect(c)` | `receive_text` raises, `disconnect` |
| `PeerLost(c)` | environment: a browser goes away; the transport is "lost" until `receive_text` reports it |

An exception that leaves `handle_event` ends the Redis subscriber (`Subscriber`, `broker.py:45-47`);
a poster gets a 500 and may post again.

**Left out.** The content of events and their redaction (a role changes what is in a payload, not
whether it is sent); events with the same `event_id` and the disagreement of timestamps with
arrivals (both belong to the archive); a browser that sends binary frames, which `app.js` never
does; shutdown.

**`ReplayThenLive.tla`** is the promise without any of the machinery: a browser's stream is the
newest published events in order, then live events, each published, newer than all it was
replayed, and not shown before. `EventFanout` implements it under `published <- archive,
stream <- wire`. It promises neither that a live event arrives nor one order for all browsers,
because the code does not keep these.

**Runs.**

| run | instance | checks | result |
|---|---|---|---|
| `EventFanout` | 2 browsers, subscriber and poster, buffer of 2, 3 events, fair | the invariants, `OnlyDeadAreDropped`, `BroadcastAdvances`, `BroadcastEnds`, refinement of `ReplayThenLive` | holds, 655 000 states |
| `EventFanoutAll` | 2 browsers, the subscriber alone | `BroadcastReachesEveryClient` | violated |

Bounds: `Conns`, `Sources`, `MaxLen`, `MaxEvents`. Two browsers are the least with one that breaks
a broadcast and one that suffers from it; two sources the least that overlap; more events than
`MaxLen` make the buffer overflow, also one that was refilled at start-up (`Init` covers every
refill). A websocket is never reused: the code never does, a reconnecting browser is a new one.

**Fairness.** `FairSpec` assumes that an awaited send ends, in one way or the other, for
every source. uvicorn's flow control wakes the sender when the browser reads, and its keepalive
pings close a transport that does not answer. Nothing else is fair: no one has to post, to connect
or to go away.

**The finding.** `broadcast` catches `RuntimeError` only. Starlette reports the `OSError` of a send
to a vanished browser as `WebSocketDisconnect`, so the loop is left and the browsers after it in
the copied list never get that event (`EventFanoutAll`); from the subscriber it also ends the task,
and nothing restarts it. `NothingMissed` says exactly what remains true: an event is missed only by
a broadcast that was cut short.

**Proofs** (`EventFanoutProofs.tla`). All the safety properties and the refinement are theorems for
any set of browsers and sources, any buffer size of at least one and any number of events, from the
assumptions named in `EventFanout.tla`. The argument has three layers:

1. `TypeInv`: `TypeOK`, and a source that is not sending has no targets and awaits nobody.
2. `Inv`: the properties about one browser. They are not inductive alone. `Targeted` says a
   broadcast only has targets that were registered when its event was handled, so that
   `joined[c] < current[s]`: this is why a live event is never one that was replayed. `Untouched`
   says no pending event was already sent to its target: this is why nothing is sent twice.
   `Replayed` says a registered websocket that did not fail has had its replay frame, which every
   later frame follows. `Numbered` bounds everything by `handled`.
3. `OrderInv`: what compares frames with each other. `Based` says every live event is newer than
   the replay, `Owned` that a source broadcasts its own event and that what it sent before is
   older, whence `SourceOrder`; `BufferIsNewest` is inductive here.

`OnlyDeadAreDropped`, `BroadcastAdvances` and `KeepsPromise` follow from these invariants step by
step: every action of `EventFanout` is `Publish`, `Join`, `Show` or a stutter of `ReplayThenLive`.
`BroadcastAdvances` is why a broadcast cannot go on for ever while browsers come and go: it sticks
to its event, takes up only what is left of its copy of the table, and no other task moves it.
`BroadcastMoves` is its own step, `OthersStandStill` that of every other source.

`ArchivedBeforeShown`, `ReplayComesFirst`, `ShownOnce` and `BufferIsNewest` are theorems only: what
they say of the frames is part of `ReplayThenLive`, which the run checks. Only model-checked:
`BroadcastEnds`.

## 4. Runtime graph

`RuntimeGraph.tla` models what the browser makes of the events of one run: the list
(`state.events`), `buildRuntimeGraph`, `layoutRuntimeGraph` and the status classes (`applyEvent`).
The run itself is the environment: spans start below spans that started before, each ends at most
once, the SDK's callbacks publish in order and with timestamps that do not go back
(`agents_sdk.py:40-51`, `:264-268`), and time is counted in milliseconds, as `Date.parse` does.

**Granularity.** JavaScript runs a callback to its end, so nothing interleaves with a rendering:
`phase` says how far it is, and `Next` lets the run and the user go on when it is "idle". One turn
of the loop of `buildRuntimeGraph` is `BuildStep`, one of the while loop of `layoutRuntimeGraph`
is `LayoutStep`. The queue of the layout is a set of entries from which any may be taken, which
allows more executions than the code's first-in first-out; so the result is shown not to depend on
the order. An entry that is queued twice is one element of the set: its second turn raises nothing.

**State.** `spans` and `history` are the run; `events`, `live` are `state.events` and whether the
rendering was called with the event just received (`activeEvent`); `todo`, `nodes`, `edges`,
`spanToNode`, `status` are the maps of `buildRuntimeGraph`, `levels`, `queue` those of
`layoutRuntimeGraph`, `shown` the class of each drawn card.

| action | code |
|---|---|
| `StartTrace`, `StartSpan`, `EndSpan` | a callback of the trace processor, and the message callback of the browser for it: unshift, slice, render |
| `Replay` | a replay frame: the newest events, oldest first |
| `Search(status)` | the answer of the archive form: the newest events of one status, newest first |
| `BuildStep(i)` | one event in the order of `sortedEvents`: its node, the edge from its parent's node, declared branches, status |
| `StartLayout` | the end of the build (an empty graph gets its waiting card) and the roots |
| `LayoutStep(id, level)` | the children of one queue entry |
| `Draw` | the remaining levels, the cards with their status, `applyEvent` for every event |

A task span with a name counts for the workflow (`NodeOf`): the label it is compared with was taken
from the same event a few lines before (`app.js:401`, `:411`; the summary and the task's name agree,
`agents_sdk.py:201`, `:227`). `resolveNodeId` does not know this (`ResolvedNode`), so the task's
events do not reach the card's class in `applyEvent`. A task without a name, or with one so long
that the two labels are cut differently, is a node like any other: a name outside `Tasks`.

**Left out.** More than one trace (`maxTraces` is 1 in the configuration), labels, sizes, rows and
the styles of edges, the status "error" (handled like "success"), and the network between the
run and the browser: each event is received as it is emitted.

**Properties.** `Rooted`: every set of cards that no edge enters contains the workflow, so no card
and no cycle of cards floats, even when parents were evicted. `OnlyRealEdges` and `HierarchyShown`
say together which edges there are: only those the events justify, and every parent-child edge
whose events are in the list in an unambiguous order. `LevelsAreLongestPaths`: every card is right
of its predecessors and next to one of them. `StatusIsNewest`: a card shows the newest event in the
list that counts for it, of whichever span, if no other such event shares its millisecond.
`RenderEnds`: a rendering ends unless the names form a cycle. `CyclesAreNeverDrawn` is the
counterpart: with a cycle none ends. `LevelsFitTheGraph` and `LayoutAdvances` are the reason: without
a cycle levels are less than the number of cards at every turn, not only at the end, and every turn
uses up one of the pairs of a card and a level that are queued or still above the card's level.

**Runs.**

| run | instance | checks | result |
|---|---|---|---|
| `RuntimeGraph` | an agent with a declared branch, a tool, a task; 3 spans, 5 events, 2 times; list of 4, replay of 3, search for finished events; fair | seven invariants and `RenderEnds` | holds, 686 000 states |
| `RuntimeGraphCycle` | agent and tool, 3 spans, 4 events | `LevelsAreBounded` | violated |
| `RuntimeGraphStatus` | 2 spans, 5 events, 2 times | `CompletedIsShown` | violated |
| `RuntimeGraphRunning` | list and replay of 2 | `RunningIsNotCompleted` | violated |

Bounds: `MaxSpans`, `MaxEvents`, `MaxTime`, `Wanted` (the searches), `MaxLevel` (where a layout
that goes round a cycle is cut off; it then stays there for ever). `MaxShown` stands for the 100 of
`app.js:173` and the archive form, `MaxReplay` for the replay buffer. Three spans are the least in
which a name occurs twice with another between; a list shorter than the run makes parents and
trace events leave it; two times give ties and differences. Deadlock is not checked: the run may
be over, and a cut-off layout stands still.

**Fairness.** `WF_vars(RenderStep)`: a callback that has begun is run to its end by the browser.
No event, replay or search is owed.

**The findings.**

- *The layout may never end* (`RuntimeGraphCycle`, `app.js:657`). Nodes are merged by kind and
  name. An agent that runs again under a tool it uses gives tool -> agent -> tool, and a child on a
  cycle is put back into the queue for ever; the tab hangs, and hangs again after a reload because
  the replay has the same events. A level that reaches the number of nodes is the witness.
- *A finished card may stay active* (`RuntimeGraphStatus`, `app.js:822`). A live list is newest
  first and the sort is stable, so of two events of one millisecond the later is applied first.
- *A running workflow looks completed* (`RuntimeGraphRunning`, `app.js:462`). Each event overwrites
  the status of the workflow's card; only trace events put it right, and after 100 more events
  `trace_start` is not in the list any more.

**Proofs** (`RuntimeGraphProofs.tla`). The eight invariants and `LayoutAdvances` are theorems for any
names, branches, number of spans, events and times, and any list sizes of at least one, from
`NamesAssumption`, `BranchesAssumption` and `BoundsAssumption` (an agent declares finitely many
branches).

1. `TypeInv`: `TypeOK`, no event is of a span that did not start, and `spanToNode` only has nodes
   of the graph (else a new edge could begin outside it).
2. `GraphInv`: processed events precede those to do; `spanToNode` is exactly what the processed
   events say; no edge enters the workflow. For `Rooted` (`BuildRooted`): a closed set either meets
   the old nodes, where the invariant applies, or consists of new ones, whose edges lead to the
   workflow. For `OnlyRealEdges`: a parent that is not in `spanToNode` has all its events to do, so
   none is earlier. `HierarchySoFar` is `HierarchyShown` of the processed events.
3. `LayoutInv`: a node whose level was not passed on to a successor is in the queue with that
   level, levels only grow, and each level above 0 has a predecessor at most one below. With an
   empty queue this is `LevelsAreLongestPaths`; that every node has a level then (`AllLevelled`)
   is `Rooted` applied to the nodes without one.
4. `CyclesHang`: levels that rise along every edge leave no cycle. The lowest level on a cycle has a
   predecessor on it that is lower. That there is a lowest is `LeastNumber`, obtained from finite
   intervals and the well-foundedness of strict inclusion; it stands in for induction over the
   naturals, whose theorems take an operator as a parameter.
5. `WalkInv`: every level, and every level in the queue, is the length of a walk through the graph to
   that card (`WalkStarts`, `WalkGoesOn`). A walk with as many edges as there are cards meets one
   twice (`FS_Injection`), and what lies between is a cycle (`WalkFits`). So `LevelsFitTheGraph` holds
   at every turn, whatever the order of the queue. That there are finitely many cards is part of
   the invariant.
6. `LayoutShrinks`: a turn takes its entry out of `Pending`, and what it queues anew was above the
   level of its card before, hence pending already.
7. `TimeInv`: the event just received is the newest. `StatusIsNewest` then follows in `Draw`: the
   loops over the list apply the newest event of a card last, and the final turn for the event just
   received can only apply that one again.

`CyclesAreNeverDrawn` (it follows from `LevelsAreLongestPaths`) and `LayoutAdvances` (it explains
`RenderEnds`) are theorems only. Only model-checked: `RenderEnds`.

## 5. Redis subscriber and lifespan

`RedisSubscriber.tla` follows a message from `publish` (`publisher.py:36`) through Redis to the
commit of its event, and the task of `run()` from the start of the process to its end.

**Granularity.** An action is what the task, the lifespan or the environment does between two
awaits. The model lets others run between any two messages, which includes the executions in which
several replies are read in one stretch. `stop()` never suspends, so its flag and the `cancel()`
after it are one action, `Shutdown`. asyncio runs a new task to its first await before anything
that is scheduled later, so `Start` leaves it at the await of `subscribe`. The callback is one
await: the commit happens with the message, the broadcast ends in `HandleReturns` or
`HandleRaises` (what it does in between is `EventFanout`).

**State.** `phase` is the await `run()` is suspended in, `outcome` how it left the loop (later: how
the task ended), `cancelling` a cancellation that is requested and not yet delivered, `stopped` the
flag; `app` and `storeOpen` belong to the lifespan; `link`, `since`, `inbox` are the Pub/Sub
connection, `published` what was sent to whom; `archived` is what the store committed.
`interrupted` is history.

| action | code |
|---|---|
| `Start(enabled)`, `Shutdown`, `TaskAwaited` | `create_app` and the two ends of `lifespan` |
| `Subscribed`, `SubscribeRaises` | the await of `subscribe` ends |
| `Receive(stores)` | one turn of the loop: the flag, the type, `_decode_message`, `event_store.add` |
| `ListenRaises`, `Resubscribed` | `listen()` on a lost connection: redis-py raises or reconnects, as it is configured; both are allowed |
| `HandleReturns`, `HandleRaises` | the broadcast ends |
| `Cancelled` | `CancelledError` at the await, in the loop or in the `finally` block |
| `Unsubscribed`, `UnsubscribeRaises`, `Closed` | the `finally` block |
| `Publish(kind)` | a publisher; Redis delivers to whoever is subscribed and keeps nothing |
| `LinkBreaks(n)`, `Crash` | environment: the connection closes after n more replies; the process is killed |

**Left out.** Which of several processes publishes; durability when the machine (not the process)
goes down, which is SQLite's WAL with `synchronous=NORMAL`; the HTTP server around the lifespan;
events of posters.

**Properties.** `ArchivedInOrder` and `NoHoles` are the promise: what is archived is in the order of
publication, over all connections and restarts, and of what one connection carried it is a
beginning. `ArrivedIsArchived`: a well-formed event that arrived is archived unless the task fails
or is cancelled, or the connection or the process is lost. `QuietAfterTheEnd` states what the code
does about a failure: nothing; the task stays ended until the process is started again, while
`/health` goes on to report ok. `StoreOutlivesTask`, `ClosedUnlessError`, `Released` and
`ShutdownEnds` are about the shutdown: the store is closed after the task, always unless the task
had failed (`await subscriber_task` then leaves the lifespan before `event_store.close()`), and no
subscription stays behind unless the task was cancelled in its clean-up. That the `break` of
`broker.py:35` is never what ends the loop is a theorem (`StopIsNotWhatStops`); a shutdown that
relied on it would break `ShutdownEnds`. `ShutdownAdvances`: once shutdown has begun the task takes
three more steps at most, out of the loop and through the two awaits of its clean-up, and nothing
leads back.

**`AtMostOnceChannel.tla`** is the promise without tasks, replies and lifespan: an event is archived
at most once, in the order of publication, only if it was sent to a connection of the service, only
after all events sent to that connection before it, and never over a connection that was replaced.
`RedisSubscriber` implements it (`AtMostOnce`), the two variables being `published` and `archived`.
It promises no delivery, because Pub/Sub and the code do not.

**Run.** `RedisSubscriber`: three messages of all kinds, any number of connections, kills and
restarts; all eight properties hold, 85 000 states. The bound is `MaxMessages`; three are the least
that leave a hole between two others. Deadlock is not checked: a stopped service may stay so.

**Fairness.** `WF(TaskStep)`: the event loop resumes a task whose await is over, and an await of
Redis, of a callback or of the clean-up ends in one of its ways (for the callback this is what
`EventFanout` assumes of every send). `WF(TaskAwaited)`: the lifespan goes on when the task is
done. No message, no shutdown and no start is owed.

**Proofs** (`RedisSubscriberProofs.tla`). The seven invariants, `QuietAfterTheEnd`,
`ShutdownAdvances` and the refinement are theorems for any number of messages. `LifeInv` says that
only a running process has a task and an open store, and that during shutdown a task still in the
loop has a cancellation to come (`Receive` is disabled by it), which is why the flag never decides.
`FlowInv` is the invariant behind the two promises: the inbox is ordered and lies after all that is
archived (`Ordered`), has only messages of this connection (`Carried`), and while the task is in the
loop every event of the connection is archived, in the inbox, or among the last that a broken
connection did not deliver (`Accounted`). `Latest` adds that nothing was sent to a connection newer
than the current one. With it every step of the program is `Publish`, `Archive` or a stutter of
`AtMostOnceChannel`: `Receive` archives the head of the inbox, which by `Ordered` is newer than all
that is archived and by `Accounted` has no predecessor on its connection that is not.

`ArchivedInOrder` and `NoHoles`, which `AtMostOnce` implies, and `ShutdownAdvances`, which explains
`ShutdownEnds`, are theorems only. Only model-checked: `ShutdownEnds`, `ArrivedIsArchived`.

## 6. Event archive

`EventArchive.tla` models the table, the replay that is read back from it and the pages of
`/api/events/search`.

**Granularity.** The store holds its lock for a whole call and is called on the event loop only, so
each call is one action. `rows` is the table in the order of rowid, `buffer` the deque, `walk` a
client that pages through one search, `log` the history of all events handled.

| action | code |
|---|---|
| `HandleEvent(e)` | `handle_event` up to the broadcast: `Add` (`INSERT OR REPLACE`) and `Push` |
| `Restart` | a new process: the buffer is what `latest` returns |
| `FirstPage(f)`, `NextPage` | one request of a client that pages: `Matches` (`_where_clause`), `Chosen` (order, limit, offset with their clamps), the total |

An event is its id, its timestamp and its status. The status stands for every column that is
compared for equality. A timestamp is a clock time and an offset, and is ordered by `TextLess`,
because the column holds ISO text. A request that is posted with an existing id, which
`/api/dev/events` allows, replaces a row; events from Redis always get a new id
(`events.py:91`).

**Left out.** The text filter; offsets west of Greenwich and timestamps without an offset; the
redaction of the payload; a store that fails (in `EventFanout`).

**Properties.** `ArchiveIsLastWord`: the table is the last event of every id, in the order these
arrived. `ReplayIsStable`: a restart changes no replay, as long as timestamps agree with arrivals
and ids are not used twice; otherwise it may, which is why `EventFanout` begins with any refill.
Even then the replay is as long as the table allows (`ReplayFull`, a theorem). `PagesCover`: a
client that pages misses no row that was there when it began, though events come between its
requests: they push rows to later pages. The exemptions are real: a row whose event was
posted again, and a post that replaces an event by one with an older timestamp or one that is not
searched for (`WithdrawnMeanwhile`), which pulls rows to pages the client already had. No page
repeats or omits a row if nothing comes in between (`PagesAreTheResult`).

**Runs.**

| run | instance | checks | result |
|---|---|---|---|
| `EventArchive` | 4 events with 3 ids (symmetric), 2 moments in 2 zones, 2 statuses, 3 searches, buffer of 2, pages of 1 | the five invariants | holds, 940 000 states |
| `EventArchiveSince` | the same | `SinceIsALowerBound` | violated |

Bounds: `MaxEvents`. Four events overflow a buffer of two, replace a row among others, and give a
walk rows before and after an arrival. `MaxLimit` stands for the 500 of `store.py` and is larger than
the buffer, as `settings.py` demands. Deadlock is not checked: the client may be done and no event
need come.

**The finding.** `since` and `until` are compared with the stored text, in which the clock time
comes before the offset (`store.py:199-205`): for timestamps of different offsets the bound is not
a bound in time, and `ORDER BY timestamp` is not an order in time.

**Proofs** (`EventArchiveProofs.tla`). All invariants of the run, and `ReplayIsFull`, are theorems
for any ids, timestamps, filters, sizes and number of events, from the assumptions named in
`EventArchive.tla`.

1. `ArchiveIsLastWord` is inductive as it stands, given the types of `rows` and `log` (`Table`). The
   proof follows the two cases of `Add`: `WithoutIsOthers` says what is left of the table when one
   id goes (the others, in their order), and `TableHandle` that the survivors of the longer log are
   the others and the newcomer.
2. What the `CHOOSE` of `Ordered` returns: `ComesFirst` is a strict total order (`RowsAreOrdered`),
   so the number of rows before a row is an injection of n rows into 0 .. n - 1, hence a bijection
   (`RankIsBijective`): each place of the answer has one row and each row a place
   (`OrderedEnumerates`).
3. `TypeOK` and `ReplayIsFull` follow from the length of an answer (`LatestIsFull`).
   `PagesAreTheResult` is the end of `WalkInv`: while nothing arrives the pages are a beginning of
   the ordered result (`AskGoesOn`, `PiecesJoin`), which has no row twice (`AnswerHasNoDoubles`).
   `ReplayIsStable` is `StableInv`: rows and history are the same and the buffer is their end,
   which is what `latest` reads back (`LatestIsLast`, `PushIsLast`).
4. `PagesCover` is the end of `CoverInv`: a row the client still waits for, and that no event replaced,
   has a rank (the number of matching rows before it) that is not less than the offset of the next
   request. `RankGrows` is why an event cannot lower a rank: it maps the rows before some row into
   those before it afterwards (`HandleMoves`: a replaced row to the new last one, the others to where
   `Without` leaves them), one to one, as long as the event does not withdraw a row. `AskCovers`
   says that a request returns every rank less than a page ahead, and that there is none beyond if it
   was the last one. Without the exception the map is not total: a row that is replaced by an
   earlier-dated one leaves the set, and the row behind it falls to a page already read.

## 7. Browser session

`BrowserSession.tla` models one tab up to `renderGraph`: the token, the websocket it opens and
replaces, the archive form, and the list that graph and feed are drawn from.

**Granularity.** JavaScript runs a callback to its end, so an action is one listener or what follows
an `await`. Of WebSocket it relies on what the browser's standard says: `close()` returns at once and
the close event comes later, with an error event before it in the same task if the connection
failed; no message comes after `close()`; the open event comes only while the websocket is
connecting; listeners of a replaced websocket stay. The service is `ReplayThenLive` (§3); what it
sends is delivered in order, or not at all if the connection breaks.

**State.** `stored` is localStorage, `storedToken` the constant read at load (`app.js:68`), `config`
is `state.config`, the last of `sockets` is `state.socket`, `label` the text of
`#connection-state` ("Offline" in `index.html`), `list` is `state.events`; `drawn` and `feed` are the
lists that graph and feed were last drawn from, `searches` the requests of the archive form.
`skipped` is history.

| action | code |
|---|---|
| `Submit(token)`, `Clear` | the token form and Reset |
| `Booted`, `BootFails` | `boot` after its awaits: graph, and `connect(storedToken)` |
| `Handshake(c)` | `dashboard_socket` accepts a token with a role and closes otherwise |
| `ServiceStep` | a step of `ReplayThenLive`: an event is published, a frame is sent |
| `OpenEvent(c)`, `CloseEvent(c)`, `MessageEvent(c)` | the listeners of websocket c, replaced or not |
| `Ask`, `Answer`, `AnswerError`, `Arrive`, `ArriveError` | the archive form: request, answer of the service, and its arrival in any order |

Without a config `renderGraph` goes to `renderConfiguredGraph`, which raises `TypeError` at
`state.config.viewBox` (`app.js:211`) after the list was changed: `Show` then draws nothing.

**Left out.** Reloading the page (that is a new tab); the text of the token field apart from what
`Ask` takes from it; the order of rows of an answer beyond newest first; `loadReplay`, which nothing
calls; two tabs with one localStorage.

**Properties.** `OneWantedSocket`: no two websockets of a tab are opening or open, and the one that
is has the token that is stored or the one that was stored at load (`boot` may finish after the user
has entered another; it then connects with the old one). `LabelTellsSocket`: "Online" and
"Connecting" are never said of a websocket that is not. `ShownAsSent`: until a search, the list has
only what the current websocket delivered, each event once, and loses nothing while there is room;
when it is cut, live events are the last to go. (`slice(0, 100)` drops from the end, and a replay
lists oldest first, so what goes first is the newest of the replay: the property tells live events
from replayed ones, not new from old.) `BothViewsAgree`: graph and feed show one list, except
that `boot` draws the graph but not the feed, so what was received before the config is missing from
the feed until the next event. `ConnectingEnds`: the label does not stay "Connecting".

**Runs.**

| run | instance | checks | result |
|---|---|---|---|
| `BrowserSession` | a right and a wrong token, 2 websockets, replay of 2, list of 1, 2 events, 1 search, fair | five invariants, `ConnectingEnds` | holds, 491 000 states |
| `BrowserSessionOnline` | the same without a search | `OpenIsNotOffline` | violated |

Bounds: `MaxSockets`, `MaxEvents`, `MaxSearches`; `MaxShown` stands for the 100 of `app.js` and
`MaxReplay` for the replay buffer. Two websockets are the least of which one replaces the other; a
list shorter than the replay and the events makes it overflow. Deadlock is not checked: the user may
be done.

**Fairness.** A handshake and the closing of a websocket come to an end in one of their ways: a
browser gives up on one that gets no answer. No user, message or answer is owed.

**The finding** (`BrowserSessionOnline`, `app.js:161`). `connect` closes the websocket it replaces
and leaves its listeners. The closing handshake takes a round trip; if its close event comes after the
open event of the new websocket, the label says "Offline" while the dashboard is connected, until
the next change.

**Proofs** (`BrowserSessionProofs.tla`). `TypeOK`, `OneWantedSocket`, `LabelTellsSocket`,
`BothViewsAgree` and `ShownAsSent` are theorems for any number of websockets, events and searches
and any tokens. The invariant has three parts. In `SocketInv` the two properties about websockets
support each other: since only the current one can be connecting, an open event is always about the
current one and may say "Online". `ViewsOK` adds to `BothViewsAgree` what holds before there is a
config: the feed lags behind only if something was skipped. `DataInv` has the types of frames, lists
and requests; it is where the steps of `ReplayThenLive` come in.

`ShownAsSent` needs two facts it does not state. What is sent to a websocket is a replay without
doubles and then live events that are new to it (`StreamsFresh`, from `IsNews` and `IsNewest` of the
abstract service: this is what the dashboard relies on, as it compares no ids). And the list has live
events before replayed ones (the last conjunct of `Shows`), so that cutting it at `MaxShown` cannot drop
a live event and keep a replayed one; `LiveShows` is that step, for any list and any limit.
`OneWantedSocket` is needed too: the message of a replaced websocket would bring in events of another
stream. Only model-checked: `ConnectingEnds`.

## 8. Normalization and the trace processor

`EventNormalization.tla` has the functions of `events.py` as operators; `TraceProcessor.tla` takes an
event along them from a callback of the SDK to the card it is counted for in the browser.

**Granularity.** The SDK calls `on_span_start` and `on_span_end` synchronously in the thread of the
span, so of one span the callbacks are in order, while those of different spans and of the trace
interleave. `publish` is between "starting" and "running", "ending" and "ended": meanwhile its message
reaches the service no time, once or several times (`Deliver`), then it returns or raises (`Return`).

**State.** `phase` and `object` are the SDK's, `received` what `event_from_mapping` made of the
messages of each trace and span, in order; `others` an event of another publisher. Events are records
with the fields of `DashboardEvent`.

| action | code |
|---|---|
| `StartTrace`, `EndTrace`, `StartSpan`, `EndSpan` | the SDK calls a callback; `Published` is the event that the callback builds (`_trace_event`, `_span_event`) |
| `Deliver(i)`, `Return(i)` | `RedisDashboardPublisher.publish` |
| `DeliverForeign(payload, now)` | the subscriber reads what another publisher sent |

What a browser makes of an event is `Card` (`runtimeNodeForEvent`, `ensureWorkflowNode`).

**The SDK** is external. `FillingsAssumption` is what is taken from it: span data classes set their
identifying attributes when they are created, and fill in the rest (`to_agent`, `triggered`, `tools`,
`handoffs`, `usage`) while the span runs. `Fillings` are pairs of span data at the start and at the
end.

**Left out.** `event_id`, `summary`, `message`, `detail` and labels; the name of the class as a last
resort for the span type; timestamps of traces, which the SDK does not have (the event gets the
time of the callback); numbers and texts that pydantic converts; turn numbers of 0. Texts are
opaque: None is a missing or empty one, `Blank` one of white space, `ShortOf` the first 12
characters of an identifier, and the digest of a session id is taken to tell sessions apart.

**Properties.** `OutcomeIsNewest`: after an end no start is received, and an end has the status the
span ended with, whatever is lost or repeated. (A trace always ends as "success",
`agents_sdk.py:44`, even if all its spans failed.) `DurationIsTheGap`: the duration is what lies
between the two timestamps, 0 if the clock was set back. `OneCardPerSpan`: all events of a span,
also repeated ones, count for one card, though the SDK fills in its data meanwhile; handoffs are
excepted, because `to_agent` is part of their card (`app.js:514`) and is not known at the start, so
the card of the start stays active. `RolesDrawTheSame`: viewers get shortened ids, pseudonyms and
fewer metadata keys, but their graph has the same cards, parents, traces and sessions: any two
events count for one card of the viewer exactly if they count for one card of the developer, and
likewise for the rest. Its condition, `IdentifiersAreClear`, is that identifiers differ in their
first 12 characters, and that no span without an id, which only another publisher sends, goes by a
name that is an identifier; what happens without the first is the hazard at `events.py:156`.
`TypeOK` has the one thing about types that is not evident: a callback always builds an event that
`DashboardEvent` accepts, wherever the clock goes.

**Run.** `TraceProcessor`: a trace and a span of any of 13 kinds, two clock readings, each message
delivered up to twice, and five kinds of messages of another publisher; all five invariants hold,
256 000 states. Spans do not read each other's state except for the parent's identifier, so that one
span and the foreign events, which may have another span's id, are enough to tell cards apart.
Bounds: `MaxCopies`, and one foreign event at a time. Deadlock is not checked: a run is over.

**Proofs** (`TraceProcessorProofs.tla`). The five invariants are theorems for any number of
traces and spans, any span data that satisfies `FillingsAssumption`, any clock, any messages of
other publishers whose texts are of the right kind and any number of copies. The invariant
`ReceivedOK` says that the events of an item are some copies of its start followed by some of its
end (`HistoryOf`), and describes both by the object as it is now, so that no history is needed:
`StartEvent` and `EndEvent` fix status, times and identifiers, and leave open with which of the two
fillings the event was built. `SameCard` shows that the choice does not matter for the card.

`RolesDrawTheSame` compares any two events, also of different spans and of another publisher. Its
invariant `NamesInv` says that the ids of every event are identifiers and its session is one
of `Sessions`. `ViewerCard` then has three cases for what a viewer's event counts for: the card of a
trace, the card of a span of no known kind, which are named by an id and get the shortened one, and
all other cards, which are named by fields and metadata keys that a viewer gets unchanged. Cards of
different cases are never equal, and within a case `ShortTells` compares the names. What is assumed
of the conversions: an identifier and its first 12 characters are not empty (`ShortOfAssumption`),
`ShortOf` is given for every identifier a message may carry (`ForeignAssumption`), and a
pseudonym is not empty (`SessionsAssumption`); that pseudonyms differ is part of modelling the
digest by a constructor.

## 9. What is not modelled

Drawing, labels, zoom and styles, the fixed nodes of a configured graph, environment parsing, the
read-only endpoints, the demo publisher, the repository scripts and CI: they hold no state a
correctness property is about.

A module that runs subscriber, fan-out and archive as one program was planned and is not there. The
three share no state beyond the call of `handle_event`, each has the effect of the others that
matters to it (`StoreFails` and any refill in `EventFanout`, the commit and a failing callback in
`RedisSubscriber`, `Restart` in `EventArchive`), and the product of their states is out of reach.

Where documentation and code differ without a run of their own: `docs/event-archive.md` says of
viewer payloads "metadata is emptied", but 14 keys are kept (`events.py:167`, `ViewerMetadata`); and
"archived searches replace the visible feed with the latest matching rows", but of two searches the
one whose answer comes last is shown (`Arrive`).
