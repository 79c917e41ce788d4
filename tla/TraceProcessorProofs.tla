------------------------ MODULE TraceProcessorProofs ------------------------
(* Proofs about TraceProcessor.                                            *)
EXTENDS TraceProcessor, SequenceTheorems, TLAPS

(* What an append does to a sequence of anything.                           *)
LEMMA AppendFacts ==
  ASSUME NEW S, NEW q \in Seq(S), NEW x
  PROVE  /\ Append(q, x) \in Seq(S \cup {x})
         /\ DOMAIN Append(q, x) = 1 .. Len(q) + 1
         /\ DOMAIN q = 1 .. Len(q) /\ Len(q) \in Nat
         /\ \A k \in 1 .. Len(q) : Append(q, x)[k] = q[k]
         /\ Append(q, x)[Len(q) + 1] = x
<1>1. q \in Seq(S \cup {x})
  BY SMT
<1>2. QED
  BY <1>1, SMT

-----------------------------------------------------------------------------
(* What event_from_mapping makes of what _span_event publishes.             *)
SpanFields(e, s, t, data) ==
  LET type == SpanType(data) IN
  /\ e.trace_id = Clean(t) /\ e.span_id = Clean(s)
  /\ e.node_id = Clean(Clean(Get(data, "dashboard_node_id")))
  /\ e.agent_id = Clean(AgentId(data, type))
  /\ e.tool_name = Clean(ToolName(data, type))
  /\ e.span_type = Clean(type)
  /\ e.metadata = SpanMetadata(data, type)

LEMMA SpanDelivered ==
  ASSUME NEW s, NEW span, NEW type \in {"span_start", "span_end"},
         NEW status \in EventStatus, NEW now, Timestamp(span) # None
  PROVE  LET e == FromMapping(SpanEvent(s, span, type, status), now) IN
         /\ e.event_type = type /\ e.status = status
         /\ e.timestamp = Timestamp(span) /\ e.duration_ms = Duration(span)
         /\ SpanFields(e, s, span.trace_id, span.data)
<1> DEFINE p == SpanEvent(s, span, type, status)
           e == FromMapping(p, now)
           T == SpanType(span.data)
<1>1. /\ Get(p, "event_type") = type /\ Get(p, "status") = status
      /\ Get(p, "timestamp") = Timestamp(span) /\ Get(p, "duration_ms") = Duration(span)
      /\ Get(p, "trace_id") = span.trace_id /\ Get(p, "span_id") = s
      /\ Get(p, "node_id") = Clean(Get(span.data, "dashboard_node_id"))
      /\ Get(p, "agent_id") = AgentId(span.data, T)
      /\ Get(p, "tool_name") = ToolName(span.data, T)
      /\ Get(p, "span_type") = T
      /\ "metadata" \in DOMAIN p /\ p.metadata = SpanMetadata(span.data, T)
  BY DEF SpanEvent, Get
<1>2. type # None /\ status # None /\ type \in EventType
  BY NoneAssumption DEF EventType, EventStatus
<1> HIDE DEF p
<1>3. /\ e.event_type = type /\ e.status = status
      /\ e.timestamp = Timestamp(span) /\ e.duration_ms = Duration(span)
  BY <1>1, <1>2 DEF FromMapping, Or, CoerceStatus
<1>4. SpanFields(e, s, span.trace_id, span.data)
  BY <1>1 DEF FromMapping, SpanFields
<1>5. QED
  BY <1>3, <1>4 DEF p

TraceFields(e, t, type, status, now) ==
  /\ e.event_type = type /\ e.status = status /\ e.trace_id = Clean(t)
  /\ e.timestamp = now /\ e.duration_ms = None

LEMMA TraceDelivered ==
  ASSUME NEW t, NEW trace, NEW type \in {"trace_start", "trace_end"},
         NEW status \in EventStatus, NEW now
  PROVE  TraceFields(FromMapping(TraceEvent(t, trace, type, status), now), t, type, status, now)
<1> DEFINE p == TraceEvent(t, trace, type, status)
           e == FromMapping(p, now)
<1>1. /\ Get(p, "event_type") = type /\ Get(p, "status") = status
      /\ Get(p, "timestamp") = None /\ Get(p, "duration_ms") = None
      /\ Get(p, "trace_id") = t
  BY DEF TraceEvent, Get
<1>2. type # None /\ status # None
  BY NoneAssumption DEF EventType, EventStatus
<1> HIDE DEF p
<1>3. /\ e.event_type = type /\ e.status = status /\ e.trace_id = Clean(t)
      /\ e.timestamp = now /\ e.duration_ms = None
  BY <1>1, <1>2 DEF FromMapping, Or, CoerceStatus
<1>4. QED
  BY <1>1, <1>3 DEF p, TraceFields

(* A key of the metadata is what _span_metadata computed for it.            *)
LEMMA MetadataKeys ==
  ASSUME NEW data, NEW type
  PROVE  LET of(key) == Get(SpanMetadata(data, type), key)
             nested == DataOf(data) IN
         /\ of("span_data_type") = type
         /\ of("name") = Clean(Get(data, "name"))
         /\ of("sdk_span_type") = Clean(Get(nested, "sdk_span_type"))
         /\ of("task_name") = Clean(Get(nested, "name"))
         /\ of("turn") = Clean(Get(nested, "turn"))
         /\ of("agent_name") = Clean(Or(Get(nested, "agent_name"), Get(data, "agent_name")))
         /\ of("model") = Clean(Get(data, "model"))
         /\ of("server") = Clean(Get(data, "server"))
BY DEF SpanMetadata, Get, Keep

(* The SDK fills in nothing that the card of a span depends on, unless it   *)
(* is a handoff.                                                            *)
LEMMA SameCard ==
  ASSUME NEW filling \in Fillings, NEW a \in {filling[1], filling[2]},
         NEW b \in {filling[1], filling[2]}, NEW s, NEW t,
         NEW e, NEW f, SpanFields(e, s, t, a), SpanFields(f, s, t, b),
         IsSpanEvent(e), IsSpanEvent(f)
  PROVE  e.trace_id = f.trace_id /\ (Card(e) = Card(f) \/ NormalizedSpanType(e) = "handoff")
<1> DEFINE T == SpanType(a)
<1>1. /\ \A key \in Kept : Get(a, key) = Get(b, key)
      /\ \A key \in KeptInside : Get(DataOf(a), key) = Get(DataOf(b), key)
  BY FillingsAssumption
<1>2. SpanType(b) = T
  BY <1>1 DEF SpanType, Kept, KeptInside
<1>3. AgentId(a, T) = AgentId(b, T) /\ ToolName(a, T) = ToolName(b, T)
  BY <1>1 DEF AgentId, ToolName, Kept, KeptInside
<1>4. /\ e.node_id = f.node_id /\ e.agent_id = f.agent_id /\ e.tool_name = f.tool_name
      /\ e.span_type = f.span_type /\ e.span_id = f.span_id /\ e.trace_id = f.trace_id
      /\ e.metadata = SpanMetadata(a, T) /\ f.metadata = SpanMetadata(b, T)
  BY <1>1, <1>2, <1>3 DEF SpanFields, Kept
<1>5. \A key \in {"span_data_type", "name", "sdk_span_type", "task_name", "turn", "agent_name",
                  "model", "server"} : Get(e.metadata, key) = Get(f.metadata, key)
  <2>1. /\ Get(e.metadata, "span_data_type") = Get(f.metadata, "span_data_type")
        /\ Get(e.metadata, "name") = Get(f.metadata, "name")
        /\ Get(e.metadata, "model") = Get(f.metadata, "model")
        /\ Get(e.metadata, "server") = Get(f.metadata, "server")
    BY <1>1, <1>4, MetadataKeys DEF Kept
  <2>2. /\ Get(e.metadata, "sdk_span_type") = Get(f.metadata, "sdk_span_type")
        /\ Get(e.metadata, "task_name") = Get(f.metadata, "task_name")
        /\ Get(e.metadata, "turn") = Get(f.metadata, "turn")
        /\ Get(e.metadata, "agent_name") = Get(f.metadata, "agent_name")
    BY <1>1, <1>4, MetadataKeys DEF Kept, KeptInside
  <2>3. QED
    BY <2>1, <2>2
<1>6. NormalizedSpanType(e) = NormalizedSpanType(f) /\ SpanName(e) = SpanName(f)
  BY <1>4, <1>5 DEF NormalizedSpanType, SpanName
<1>7. SpanCard(e) = SpanCard(f) \/ NormalizedSpanType(e) = "handoff"
  BY <1>4, <1>5, <1>6 DEF SpanCard
<1>8. QED
  BY <1>4, <1>7 DEF Card, IsSpanEvent, IsTraceEvent

-----------------------------------------------------------------------------
(* The inductive invariant: what the objects of the SDK are, and what the   *)
(* events the service has got have to do with them.                         *)
AnyData == {filling[1] : filling \in Fillings} \cup {filling[2] : filling \in Fillings}
SpanObject == [trace_id : Traces, parent_id : Spans \cup {None}, filling : Fillings,
               data : AnyData, started_at : Time, ended_at : Time \cup {None},
               error : Errors \cup {None}]

Begun(s) ==
  /\ object[s] \in SpanObject
  /\ object[s].data \in {object[s].filling[1], object[s].filling[2]}
  /\ IF phase[s] \in {"starting", "running"}
     THEN object[s].ended_at = None ELSE object[s].ended_at \in Time

ObjectsOK ==
  /\ DOMAIN object = Item
  /\ \A s \in Spans : phase[s] # "new" => Begun(s)

\* An event of span s as its object x tells it.
SpanStart(e, s, x) ==
  /\ e.event_type = "span_start" /\ e.status = "active"
  /\ e.timestamp = x.started_at /\ e.duration_ms = None
  /\ \E data \in {x.filling[1], x.filling[2]} : SpanFields(e, s, x.trace_id, data)
SpanEnd(e, s, x) ==
  /\ e.event_type = "span_end"
  /\ e.status = IF x.error # None THEN "error" ELSE "success"
  /\ e.timestamp = x.ended_at /\ e.duration_ms = Duration(x)
  /\ \E data \in {x.filling[1], x.filling[2]} : SpanFields(e, s, x.trace_id, data)

TraceStart(e, t) ==
  /\ e.event_type = "trace_start" /\ e.status = "active"
  /\ e.trace_id = Clean(t) /\ e.timestamp = None /\ e.duration_ms = None
TraceEnd(e, t) ==
  /\ e.event_type = "trace_end" /\ e.status = "success"
  /\ e.trace_id = Clean(t) /\ e.timestamp = None /\ e.duration_ms = None

StartEvent(e, i) == IF i \in Spans THEN SpanStart(e, i, object[i]) ELSE TraceStart(e, i)
EndEvent(e, i) == IF i \in Spans THEN SpanEnd(e, i, object[i]) ELSE TraceEnd(e, i)

HistoryOf(i) ==
  /\ \E S : received[i] \in Seq(S)
  /\ phase[i] = "new" => received[i] = <<>>
  /\ \A k \in DOMAIN received[i] :
       StartEvent(received[i][k], i) \/ EndEvent(received[i][k], i)
  /\ \A k \in DOMAIN received[i] : EndEvent(received[i][k], i) => phase[i] \in {"ending", "ended"}
  /\ \A k, m \in DOMAIN received[i] :
       k < m /\ EndEvent(received[i][k], i) => EndEvent(received[i][m], i)

ReceivedOK ==
  /\ DOMAIN received = Item
  /\ \A i \in Item : HistoryOf(i)

OthersOK ==
  \A e \in others : /\ e.event_type \in EventType /\ e.status \in EventStatus
                    /\ e.timestamp \in Time /\ e.duration_ms \in {None} \cup Nat

IInv ==
  /\ phase \in [Item -> {"new", "starting", "running", "ending", "ended"}]
  /\ ObjectsOK
  /\ ReceivedOK
  /\ OthersOK

-----------------------------------------------------------------------------
LEMMA Disjoint == \A i \in Item : i \in Traces <=> i \notin Spans
BY IdentifiersAssumption DEF Item

LEMMA DurationType ==
  ASSUME NEW x, x.started_at \in Time, x.ended_at \in Time \cup {None}
  PROVE  Duration(x) \in {None} \cup Nat
<1>1. None \notin Time /\ Time \subseteq Int
  BY IdentifiersAssumption, TimeAssumption
<1>2. CASE x.ended_at = None
  BY <1>2 DEF Duration
<1>3. CASE x.ended_at # None
  <2>1. x.ended_at \in Int /\ x.started_at \in Int /\ x.started_at # None
    BY <1>1, <1>3
  <2>2. Duration(x) = IF x.ended_at < x.started_at THEN 0 ELSE x.ended_at - x.started_at
    BY <1>3, <2>1 DEF Duration
  <2>3. QED
    BY <2>1, <2>2
<1>4. QED
  BY <1>2, <1>3

LEMMA InitHolds == Init => IInv
<1> SUFFICES ASSUME Init PROVE IInv
  OBVIOUS
<1>1. \A i \in Item : received[i] \in Seq({}) /\ received[i] = <<>> /\ phase[i] = "new"
  BY DEF Init
<1>2. \A i \in Item : HistoryOf(i)
  BY <1>1 DEF HistoryOf
<1>3. QED
  BY <1>1, <1>2 DEF Init, IInv, ObjectsOK, ReceivedOK, OthersOK, Item

(* The histories of what a step does not touch stay as they are.            *)
LEMMA HistoryStays ==
  ASSUME NEW i \in Item, HistoryOf(i), received'[i] = received[i], object'[i] = object[i],
         phase'[i] = phase[i] \/ (phase[i] = "starting" /\ phase'[i] = "running")
                              \/ (phase[i] = "ending" /\ phase'[i] = "ended")
  PROVE  HistoryOf(i)'
BY DEF HistoryOf, StartEvent, EndEvent

(* What publish delivers is an event of the history.                        *)
LEMMA PublishedIsAnEvent ==
  ASSUME IInv, NEW i \in Item, phase[i] \in {"starting", "ending"}
  PROVE  LET e == FromMapping(Published(i), Published(i).timestamp) IN
         IF phase[i] = "starting" THEN StartEvent(e, i) ELSE EndEvent(e, i)
<1> DEFINE e == FromMapping(Published(i), Published(i).timestamp)
           x == object[i]
<1>1. CASE i \in Spans
  <2>1. Begun(i) /\ x \in SpanObject
    BY <1>1 DEF IInv, ObjectsOK, Begun
  <2>2. Timestamp(x) # None
    BY <2>1, IdentifiersAssumption DEF SpanObject, Timestamp, Or, Begun
  <2>3. x.data \in {x.filling[1], x.filling[2]}
    BY <2>1 DEF Begun
  <2>4. i \notin Traces
    BY <1>1, Disjoint
  <2>5. CASE phase[i] = "starting"
    <3>1. Published(i) = SpanEvent(i, x, "span_start", "active")
      BY <1>1, <2>4, <2>5 DEF Published
    <3>2. Timestamp(x) = x.started_at /\ Duration(x) = None
      BY <2>1, <2>5 DEF Begun, Timestamp, Or, Duration
    <3>3. "active" \in EventStatus
      BY DEF EventStatus
    <3>4. /\ e.event_type = "span_start" /\ e.status = "active"
          /\ e.timestamp = Timestamp(x) /\ e.duration_ms = Duration(x)
          /\ SpanFields(e, i, x.trace_id, x.data)
      <4> DEFINE f(now) == FromMapping(SpanEvent(i, x, "span_start", "active"), now)
      <4>1. \A now : /\ f(now).event_type = "span_start" /\ f(now).status = "active"
                     /\ f(now).timestamp = Timestamp(x) /\ f(now).duration_ms = Duration(x)
                     /\ SpanFields(f(now), i, x.trace_id, x.data)
        BY <2>2, <3>3, SpanDelivered, Zenon
      <4>2. e = f(Published(i).timestamp)
        BY <3>1
      <4> HIDE DEF f, e
      <4>3. QED
        BY <4>1, <4>2
    <3>5. SpanStart(e, i, x)
      BY <2>3, <3>2, <3>4 DEF SpanStart
    <3>6. QED
      BY <1>1, <2>5, <3>5 DEF StartEvent
  <2>6. CASE phase[i] = "ending"
    <3> DEFINE status == IF x.error # None THEN "error" ELSE "success"
    <3>1. Published(i) = SpanEvent(i, x, "span_end", status)
      BY <1>1, <2>4, <2>6 DEF Published
    <3>3. status \in EventStatus
      BY DEF EventStatus
    <3>4. /\ e.event_type = "span_end" /\ e.status = status
          /\ e.timestamp = Timestamp(x) /\ e.duration_ms = Duration(x)
          /\ SpanFields(e, i, x.trace_id, x.data)
      <4> HIDE DEF status
      <4> DEFINE f(now) == FromMapping(SpanEvent(i, x, "span_end", status), now)
      <4>1. \A now : /\ f(now).event_type = "span_end" /\ f(now).status = status
                     /\ f(now).timestamp = Timestamp(x) /\ f(now).duration_ms = Duration(x)
                     /\ SpanFields(f(now), i, x.trace_id, x.data)
        BY <2>2, <3>3, SpanDelivered, Zenon
      <4>2. e = f(Published(i).timestamp)
        BY <3>1
      <4> HIDE DEF f, e
      <4>3. QED
        BY <4>1, <4>2
    <3>5. Timestamp(x) = x.ended_at
      BY <2>1, <2>6, IdentifiersAssumption DEF Begun, Timestamp, Or
    <3>6. SpanEnd(e, i, x)
      BY <2>3, <3>4, <3>5 DEF SpanEnd
    <3>7. QED
      BY <1>1, <2>6, <3>6 DEF EndEvent
  <2>7. QED
    BY <2>5, <2>6
<1>2. CASE i \notin Spans
  <2>1. i \in Traces
    BY <1>2, Disjoint
  <2>2. "active" \in EventStatus /\ "success" \in EventStatus
    BY DEF EventStatus
  <2>3. CASE phase[i] = "starting"
    <3>1. Published(i) = TraceEvent(i, x, "trace_start", "active")
      BY <1>2, <2>1, <2>3 DEF Published
    <3>2. Published(i).timestamp = None
      BY <3>1 DEF TraceEvent
    <3>3. TraceStart(e, i)
      <4>1. "active" \in EventStatus
        BY <2>2
      <4>2. TraceFields(FromMapping(TraceEvent(i, x, "trace_start", "active"), None),
                        i, "trace_start", "active", None)
        BY <4>1, TraceDelivered, Zenon
      <4>3. e = FromMapping(TraceEvent(i, x, "trace_start", "active"), None)
        BY <3>1, <3>2
      <4>4. QED
        BY <4>2, <4>3 DEF TraceStart, TraceFields
    <3>4. QED
      BY <1>2, <2>3, <3>3 DEF StartEvent
  <2>4. CASE phase[i] = "ending"
    <3>1. Published(i) = TraceEvent(i, x, "trace_end", "success")
      BY <1>2, <2>1, <2>4 DEF Published
    <3>2. Published(i).timestamp = None
      BY <3>1 DEF TraceEvent
    <3>3. TraceEnd(e, i)
      <4>1. "success" \in EventStatus
        BY <2>2
      <4>2. TraceFields(FromMapping(TraceEvent(i, x, "trace_end", "success"), None),
                        i, "trace_end", "success", None)
        BY <4>1, TraceDelivered, Zenon
      <4>3. e = FromMapping(TraceEvent(i, x, "trace_end", "success"), None)
        BY <3>1, <3>2
      <4>4. QED
        BY <4>2, <4>3 DEF TraceEnd, TraceFields
    <3>4. QED
      BY <1>2, <2>4, <3>3 DEF EndEvent
  <2>5. QED
    BY <2>3, <2>4
<1>3. QED
  BY <1>1, <1>2

(* Every step keeps the invariant.                                          *)
LEMMA StartTraceKeeps ==
  ASSUME IInv, NEW t \in Traces, NEW data, StartTrace(t, data)
  PROVE  IInv'
<1>1. t \in Item /\ t \notin Spans /\ phase[t] = "new" /\ phase'[t] = "starting"
  BY Disjoint DEF StartTrace, IInv, Item
<1>2. \A i \in Item \ {t} : phase'[i] = phase[i] /\ object'[i] = object[i]
  BY DEF StartTrace, IInv, ObjectsOK
<1>3. \A i \in Item : HistoryOf(i)'
  <2> TAKE i \in Item
  <2>0. HistoryOf(i) /\ received'[i] = received[i]
    BY DEF IInv, ReceivedOK, StartTrace
  <2>1. CASE i = t
    BY <1>1, <2>0, <2>1 DEF HistoryOf
  <2>2. CASE i # t
    BY <1>2, <2>0, <2>2, HistoryStays
  <2>3. QED
    BY <2>1, <2>2
<1>4. ObjectsOK'
  BY <1>1, <1>2 DEF ObjectsOK, Begun, IInv, StartTrace, Item
<1>5. QED
  BY <1>3, <1>4 DEF IInv, ReceivedOK, OthersOK, StartTrace

LEMMA EndTraceKeeps ==
  ASSUME IInv, NEW t \in Traces, EndTrace(t)
  PROVE  IInv'
<1>1. t \in Item /\ t \notin Spans /\ phase[t] = "running" /\ phase'[t] = "ending"
  BY Disjoint DEF EndTrace, IInv, Item
<1>2. \A i \in Item \ {t} : phase'[i] = phase[i]
  BY DEF EndTrace, IInv
<1>3. \A i \in Item : HistoryOf(i)'
  <2> TAKE i \in Item
  <2>0. HistoryOf(i) /\ received'[i] = received[i] /\ object'[i] = object[i]
    BY DEF IInv, ReceivedOK, EndTrace
  <2>1. CASE i = t
    BY <1>1, <2>0, <2>1 DEF HistoryOf, StartEvent, EndEvent
  <2>2. CASE i # t
    BY <1>2, <2>0, <2>2, HistoryStays
  <2>3. QED
    BY <2>1, <2>2
<1>4. ObjectsOK'
  BY <1>1, <1>2 DEF ObjectsOK, Begun, IInv, EndTrace, Item
<1>5. QED
  BY <1>3, <1>4 DEF IInv, ReceivedOK, OthersOK, EndTrace

LEMMA StartSpanKeeps ==
  ASSUME IInv, NEW s \in Spans, NEW t \in Traces, NEW parent \in Spans \cup {None},
         NEW filling \in Fillings, NEW now \in Time, StartSpan(s, t, parent, filling, now)
  PROVE  IInv'
<1>1. s \in Item /\ phase[s] = "new" /\ phase'[s] = "starting"
  BY DEF StartSpan, IInv, Item
<1>2. \A i \in Item \ {s} : phase'[i] = phase[i] /\ object'[i] = object[i]
  BY DEF StartSpan, IInv, ObjectsOK
<1>3. \A i \in Item : HistoryOf(i)'
  <2> TAKE i \in Item
  <2>0. HistoryOf(i) /\ received'[i] = received[i]
    BY DEF IInv, ReceivedOK, StartSpan
  <2>1. CASE i = s
    BY <1>1, <2>0, <2>1 DEF HistoryOf
  <2>2. CASE i # s
    BY <1>2, <2>0, <2>2, HistoryStays
  <2>3. QED
    BY <2>1, <2>2
<1>4. ObjectsOK'
  <2>1. object'[s] = [trace_id |-> t, parent_id |-> parent, filling |-> filling,
                      data |-> filling[1], started_at |-> now, ended_at |-> None, error |-> None]
    BY <1>1 DEF StartSpan, IInv, ObjectsOK
  <2>2. Begun(s)'
    BY <1>1, <2>1 DEF Begun, SpanObject, AnyData
  <2>3. \A r \in Spans \ {s} : phase'[r] # "new" => Begun(r)'
    BY <1>2 DEF IInv, ObjectsOK, Begun, Item
  <2>4. QED
    BY <2>2, <2>3 DEF ObjectsOK, IInv, StartSpan
<1>5. QED
  BY <1>3, <1>4 DEF IInv, ReceivedOK, OthersOK, StartSpan

LEMMA EndSpanKeeps ==
  ASSUME IInv, NEW s \in Spans, NEW error \in Errors \cup {None}, NEW now \in Time,
         EndSpan(s, error, now)
  PROVE  IInv'
<1> DEFINE x == object[s]
           y == object'[s]
<1>1. s \in Item /\ phase[s] = "running" /\ phase'[s] = "ending" /\ Begun(s)
  BY DEF EndSpan, IInv, Item, ObjectsOK
<1>2. \A i \in Item \ {s} : phase'[i] = phase[i] /\ object'[i] = object[i]
  BY DEF EndSpan, IInv, ObjectsOK
<1>3. /\ y.data = x.filling[2] /\ y.ended_at = now /\ y.error = error
      /\ y.filling = x.filling /\ y.started_at = x.started_at /\ y.trace_id = x.trace_id
      /\ y \in SpanObject
  <2>1. x \in SpanObject /\ x.filling[2] \in AnyData
    BY <1>1 DEF Begun, SpanObject, AnyData
  <2>2. y = [x EXCEPT !.data = x.filling[2], !.ended_at = now, !.error = error]
    BY <1>1 DEF EndSpan, IInv, ObjectsOK
  <2>3. QED
    BY <2>1, <2>2 DEF SpanObject
<1>4. \A i \in Item : HistoryOf(i)'
  <2> TAKE i \in Item
  <2>0. HistoryOf(i) /\ received'[i] = received[i]
    BY DEF IInv, ReceivedOK, EndSpan
  <2>1. CASE i = s
    <3>1. \A k \in DOMAIN received[s] : SpanStart(received[s][k], s, x)
      BY <1>1, <2>0, <2>1 DEF HistoryOf, StartEvent
    <3>2. \A k \in DOMAIN received[s] : SpanStart(received[s][k], s, y)
      BY <1>3, <3>1 DEF SpanStart
    <3>3. \A k \in DOMAIN received[s] : ~ SpanEnd(received[s][k], s, y)
      BY <3>2 DEF SpanStart, SpanEnd
    <3>4. QED
      BY <1>1, <2>0, <2>1, <3>2, <3>3 DEF HistoryOf, StartEvent, EndEvent
  <2>2. CASE i # s
    BY <1>2, <2>0, <2>2, HistoryStays
  <2>3. QED
    BY <2>1, <2>2
<1>5. ObjectsOK'
  <2>1. Begun(s)'
    BY <1>1, <1>3 DEF Begun
  <2>2. \A r \in Spans \ {s} : phase'[r] # "new" => Begun(r)'
    BY <1>2 DEF IInv, ObjectsOK, Begun, Item
  <2>3. QED
    BY <2>1, <2>2 DEF ObjectsOK, IInv, EndSpan
<1>6. QED
  BY <1>4, <1>5 DEF IInv, ReceivedOK, OthersOK, EndSpan

LEMMA DeliverKeeps ==
  ASSUME IInv, NEW i \in Item, Deliver(i)
  PROVE  IInv'
<1> DEFINE e == FromMapping(Published(i), Published(i).timestamp)
           q == received[i]
<1>1. /\ phase[i] \in {"starting", "ending"} /\ HistoryOf(i)
      /\ received' = [received EXCEPT ![i] = Append(q, e)]
      /\ UNCHANGED <<phase, object, others>>
  BY DEF Deliver, IInv, ReceivedOK
<1>2. IF phase[i] = "starting" THEN StartEvent(e, i) ELSE EndEvent(e, i)
  BY <1>1, PublishedIsAnEvent, Zenon
<1> HIDE DEF e
<1>3. PICK S : q \in Seq(S)
  BY <1>1 DEF HistoryOf
<1>4. /\ Append(q, e) \in Seq(S \cup {e})
      /\ DOMAIN Append(q, e) = 1 .. Len(q) + 1
      /\ DOMAIN q = 1 .. Len(q) /\ Len(q) \in Nat
      /\ \A k \in 1 .. Len(q) : Append(q, e)[k] = q[k]
      /\ Append(q, e)[Len(q) + 1] = e
  BY <1>3, AppendFacts
<1>5. received'[i] = Append(q, e) /\ \A j \in Item \ {i} : received'[j] = received[j]
  BY <1>1 DEF IInv, ReceivedOK
<1>6. HistoryOf(i)'
  <2> DEFINE r == received'[i]
  <2>1. \E R : r \in Seq(R)
    BY <1>4, <1>5
  <2>2. \A k \in DOMAIN r : \/ k \in DOMAIN q /\ r[k] = q[k]
                            \/ k = Len(q) + 1 /\ r[k] = e
    BY <1>4, <1>5
  <2>3. \A k \in DOMAIN r : StartEvent(r[k], i) \/ EndEvent(r[k], i)
    BY <1>1, <1>2, <2>2 DEF HistoryOf
  <2>4. StartEvent(e, i) => ~ EndEvent(e, i)
    BY DEF StartEvent, EndEvent, SpanStart, SpanEnd, TraceStart, TraceEnd
  <2>5. \A k \in DOMAIN r : EndEvent(r[k], i) => phase[i] \in {"ending", "ended"}
    BY <1>1, <1>2, <2>2, <2>4 DEF HistoryOf
  <2>6. ASSUME NEW k \in DOMAIN r, NEW m \in DOMAIN r, k < m, EndEvent(r[k], i)
        PROVE  EndEvent(r[m], i)
    <3>1. k \in DOMAIN q /\ r[k] = q[k]
      BY <1>4, <1>5, <2>2, <2>6
    <3>2. phase[i] = "ending" /\ EndEvent(e, i)
      BY <1>1, <1>2, <2>6, <3>1 DEF HistoryOf
    <3>3. QED
      BY <1>1, <2>2, <2>6, <3>1, <3>2 DEF HistoryOf
  <2>7. phase'[i] = phase[i] /\ object'[i] = object[i] /\ phase[i] # "new"
    BY <1>1
  <2>8. \A f : /\ SpanStart(f, i, object'[i]) <=> SpanStart(f, i, object[i])
               /\ SpanEnd(f, i, object'[i]) <=> SpanEnd(f, i, object[i])
    BY <2>7
  <2>9. QED
    BY <2>1, <2>3, <2>5, <2>6, <2>7, <2>8 DEF HistoryOf, StartEvent, EndEvent
<1>7. \A j \in Item \ {i} : HistoryOf(j)'
  BY <1>1, <1>5, HistoryStays DEF IInv, ReceivedOK
<1>8. ReceivedOK'
  BY <1>1, <1>6, <1>7 DEF IInv, ReceivedOK
<1>9. QED
  BY <1>1, <1>8 DEF IInv, ObjectsOK, Begun, OthersOK

LEMMA ReturnKeeps ==
  ASSUME IInv, NEW i \in Item, Return(i)
  PROVE  IInv'
<1>1. /\ phase \in [Item -> {"new", "starting", "running", "ending", "ended"}]
      /\ \/ phase[i] = "starting" /\ phase' = [phase EXCEPT ![i] = "running"]
         \/ phase[i] = "ending" /\ phase' = [phase EXCEPT ![i] = "ended"]
      /\ UNCHANGED <<object, received, others>>
  BY DEF Return, IInv
<1>2. \A j \in Item : \/ phase'[j] = phase[j]
                      \/ phase[j] = "starting" /\ phase'[j] = "running"
                      \/ phase[j] = "ending" /\ phase'[j] = "ended"
  BY <1>1
<1>3. \A j \in Item : HistoryOf(j)'
  <2> TAKE j \in Item
  <2>1. HistoryOf(j) /\ received'[j] = received[j] /\ object'[j] = object[j]
    BY <1>1 DEF IInv, ReceivedOK
  <2>2. QED
    BY <1>2, <2>1, HistoryStays
<1>4. \A s \in Spans : phase'[s] # "new" => Begun(s)'
  <2> SUFFICES ASSUME NEW s \in Spans, phase'[s] # "new" PROVE Begun(s)'
    OBVIOUS
  <2>1. s \in Item /\ phase[s] # "new"
    BY <1>2 DEF Item
  <2>2. Begun(s)
    BY <2>1 DEF IInv, ObjectsOK
  <2>3. QED
    BY <1>1, <1>2, <2>1, <2>2 DEF Begun
<1>5. QED
  BY <1>1, <1>3, <1>4 DEF IInv, ObjectsOK, ReceivedOK, OthersOK

LEMMA ForeignKeeps ==
  ASSUME IInv, NEW payload \in Foreign, NEW now \in Time, DeliverForeign(payload, now)
  PROVE  IInv'
<1> DEFINE e == FromMapping(payload, now)
<1>1. e.event_type \in EventType
  BY ForeignAssumption DEF FromMapping, Or, EventType
<1>2. e.status \in EventStatus
  BY DEF FromMapping, CoerceStatus, EventStatus
<1>3. e.timestamp \in Time
  BY ForeignAssumption DEF FromMapping, Or
<1>4. e.duration_ms \in {None} \cup Nat
  BY DEF DeliverForeign, Accepts, FromMapping
<1>5. others' = {e} /\ UNCHANGED <<phase, object, received>>
  BY DEF DeliverForeign
<1> HIDE DEF e
<1>6. OthersOK'
  BY <1>1, <1>2, <1>3, <1>4, <1>5 DEF OthersOK
<1>7. ObjectsOK' /\ \A i \in Item : HistoryOf(i)'
  BY <1>5 DEF IInv, ObjectsOK, Begun, ReceivedOK, HistoryOf, StartEvent, EndEvent
<1>8. QED
  BY <1>5, <1>6, <1>7 DEF IInv, ReceivedOK

LEMMA NextKeeps == IInv /\ [Next]_vars => IInv'
<1> SUFFICES ASSUME IInv, [Next]_vars PROVE IInv'
  OBVIOUS
<1>1. CASE \E t \in Traces : EndTrace(t) \/ \E data \in TraceData : StartTrace(t, data)
  BY <1>1, StartTraceKeeps, EndTraceKeeps
<1>2. CASE \E s \in Spans, t \in Traces, parent \in Spans \cup {None}, filling \in Fillings,
             now \in Time : StartSpan(s, t, parent, filling, now)
  BY <1>2, StartSpanKeeps
<1>3. CASE \E s \in Spans, error \in Errors \cup {None}, now \in Time : EndSpan(s, error, now)
  BY <1>3, EndSpanKeeps
<1>4. CASE \E i \in Item : Deliver(i) \/ Return(i)
  BY <1>4, DeliverKeeps, ReturnKeeps
<1>5. CASE \E payload \in Foreign, now \in Time : DeliverForeign(payload, now)
  BY <1>5, ForeignKeeps
<1>6. CASE UNCHANGED vars
  BY <1>6 DEF vars, IInv, ObjectsOK, Begun, ReceivedOK, HistoryOf, StartEvent, EndEvent, OthersOK
<1>7. QED
  BY <1>1, <1>2, <1>3, <1>4, <1>5, <1>6 DEF Next

LEMMA Invariance == Spec => []IInv
<1>1. QED
  BY InitHolds, NextKeeps, PTL DEF Spec

-----------------------------------------------------------------------------
(* What IInv says of the events that were received.                         *)
LEMMA EventsOf ==
  ASSUME IInv, NEW i \in Item, NEW e \in Received(i)
  PROVE  /\ \/ StartEvent(e, i) /\ ~ IsEnd(e)
            \/ EndEvent(e, i) /\ IsEnd(e)
         /\ phase[i] # "new"
         /\ EndEvent(e, i) => phase[i] \in {"ending", "ended"}
         /\ i \in Spans => IsSpanEvent(e)
         /\ i \notin Spans => IsTraceEvent(e)
<1>1. PICK k \in DOMAIN received[i] : e = received[i][k]
  BY DEF Received
<1>2. HistoryOf(i)
  BY DEF IInv, ReceivedOK
<1>3. StartEvent(e, i) \/ EndEvent(e, i)
  BY <1>1, <1>2 DEF HistoryOf
<1>4. /\ StartEvent(e, i) => e.event_type \in {"trace_start", "span_start"}
      /\ EndEvent(e, i) => e.event_type \in {"trace_end", "span_end"}
      /\ i \in Spans => e.event_type \in {"span_start", "span_end"}
      /\ i \notin Spans => e.event_type \in {"trace_start", "trace_end"}
  BY <1>3 DEF StartEvent, EndEvent, SpanStart, SpanEnd, TraceStart, TraceEnd
<1>5. phase[i] # "new"
  BY <1>1, <1>2 DEF HistoryOf
<1>6. EndEvent(e, i) => phase[i] \in {"ending", "ended"}
  BY <1>1, <1>2 DEF HistoryOf
<1>7. QED
  BY <1>3, <1>4, <1>5, <1>6 DEF IsEnd, IsSpanEvent, IsTraceEvent

LEMMA TypeOKHolds == IInv => TypeOK
<1> SUFFICES ASSUME IInv PROVE TypeOK
  OBVIOUS
<1>1. \A s \in Spans : phase[s] # "new" => Begun(s)
  BY DEF IInv, ObjectsOK
<1>2. ASSUME NEW i \in Item, NEW e \in Received(i)
      PROVE  /\ e.event_type \in EventType /\ e.status \in EventStatus
             /\ e.timestamp \in Time \cup {None} /\ e.duration_ms \in {None} \cup Nat
  <2>1. StartEvent(e, i) \/ EndEvent(e, i)
    BY <1>2, EventsOf
  <2>2. CASE i \in Spans
    <3>1. Begun(i)
      BY <1>1, <1>2, <2>2, EventsOf
    <3>2. Duration(object[i]) \in {None} \cup Nat
      BY <3>1, DurationType DEF Begun, SpanObject
    <3>3. QED
      BY <2>1, <2>2, <3>1, <3>2
      DEF StartEvent, EndEvent, SpanStart, SpanEnd, EventType, EventStatus, Begun, SpanObject
  <2>3. CASE i \notin Spans
    BY <2>1, <2>3 DEF StartEvent, EndEvent, TraceStart, TraceEnd, EventType, EventStatus
  <2>4. QED
    BY <2>2, <2>3
<1>3. ASSUME NEW i \in Item, phase[i] \in {"starting", "ending"} PROVE Accepts(Published(i))
  <2>1. CASE i \in Spans
    <3>1. Begun(i) /\ i \notin Traces
      BY <1>1, <1>3, <2>1, Disjoint
    <3>2. Duration(object[i]) \in {None} \cup Nat
      BY <3>1, DurationType DEF Begun, SpanObject
    <3>3. Get(Published(i), "duration_ms") = Duration(object[i])
      BY <1>3, <2>1, <3>1 DEF Published, SpanEvent, Get
    <3>4. QED
      BY <3>2, <3>3 DEF Accepts
  <2>2. CASE i \notin Spans
    <3>1. i \in Traces
      BY <2>2, Disjoint
    <3>2. Get(Published(i), "duration_ms") = None
      BY <1>3, <2>2, <3>1 DEF Published, TraceEvent, Get
    <3>3. QED
      BY <3>2 DEF Accepts
  <2>3. QED
    BY <2>1, <2>2
<1>4. QED
  BY <1>1, <1>2, <1>3 DEF TypeOK, Events, IInv, OthersOK, Begun, SpanObject

LEMMA OutcomeHolds == IInv => OutcomeIsNewest
<1> SUFFICES ASSUME IInv, NEW i \in Item, NEW k \in DOMAIN received[i],
                    NEW m \in DOMAIN received[i]
             PROVE  /\ k < m /\ IsEnd(received[i][k]) => IsEnd(received[i][m])
                    /\ received[i][k].status =
                         CASE ~ IsEnd(received[i][k]) -> "active"
                           [] IsEnd(received[i][k]) /\ i \in Spans /\ object[i].error # None -> "error"
                           [] OTHER -> "success"
  BY DEF OutcomeIsNewest
<1>1. received[i][k] \in Received(i) /\ received[i][m] \in Received(i)
  BY DEF Received
<1>2. HistoryOf(i)
  BY DEF IInv, ReceivedOK
<1>3. ASSUME NEW e \in Received(i) PROVE IsEnd(e) <=> EndEvent(e, i)
  <2>1. StartEvent(e, i) => ~ EndEvent(e, i)
    BY DEF StartEvent, EndEvent, SpanStart, SpanEnd, TraceStart, TraceEnd
  <2>2. QED
    BY <2>1, EventsOf
<1>4. k < m /\ IsEnd(received[i][k]) => IsEnd(received[i][m])
  BY <1>1, <1>2, <1>3 DEF HistoryOf
<1>5. IF IsEnd(received[i][k]) THEN EndEvent(received[i][k], i) ELSE StartEvent(received[i][k], i)
  BY <1>1, EventsOf
<1>6. received[i][k].status =
        CASE ~ IsEnd(received[i][k]) -> "active"
          [] IsEnd(received[i][k]) /\ i \in Spans /\ object[i].error # None -> "error"
          [] OTHER -> "success"
  BY <1>5 DEF StartEvent, EndEvent, SpanStart, SpanEnd, TraceStart, TraceEnd
<1>7. QED
  BY <1>4, <1>6

LEMMA GapHolds == IInv => DurationIsTheGap
<1> SUFFICES ASSUME IInv, NEW s \in Spans, NEW start \in Received(s), NEW end \in Received(s),
                    ~ IsEnd(start), IsEnd(end)
             PROVE  LET gap == end.timestamp - start.timestamp IN
                    end.duration_ms = IF gap < 0 THEN 0 ELSE gap
  BY DEF DurationIsTheGap
<1>1. s \in Item
  BY DEF Item
<1>2. StartEvent(start, s) /\ EndEvent(end, s) /\ phase[s] \in {"ending", "ended"}
  BY <1>1, EventsOf
<1>3. /\ start.timestamp = object[s].started_at /\ end.timestamp = object[s].ended_at
      /\ end.duration_ms = Duration(object[s])
  BY <1>2 DEF StartEvent, EndEvent, SpanStart, SpanEnd
<1>4. Begun(s)
  BY <1>2 DEF IInv, ObjectsOK
<1>5. object[s].started_at \in Time /\ object[s].ended_at \in Time
  BY <1>2, <1>4 DEF Begun, SpanObject
<1>6. /\ object[s].started_at # None /\ object[s].ended_at # None
      /\ object[s].started_at \in Int /\ object[s].ended_at \in Int
  BY <1>5, TimeAssumption, IdentifiersAssumption
<1>7. Duration(object[s]) = IF object[s].ended_at < object[s].started_at THEN 0
                            ELSE object[s].ended_at - object[s].started_at
  BY <1>6 DEF Duration
<1>8. QED
  BY <1>3, <1>6, <1>7

LEMMA CardHolds == IInv => OneCardPerSpan
<1> SUFFICES ASSUME IInv, NEW i \in Item, NEW e \in Received(i), NEW f \in Received(i)
             PROVE  /\ e.trace_id = f.trace_id
                    /\ Card(e) = Card(f) \/ NormalizedSpanType(e) = "handoff"
  BY DEF OneCardPerSpan
<1>1. (StartEvent(e, i) \/ EndEvent(e, i)) /\ (StartEvent(f, i) \/ EndEvent(f, i))
  BY EventsOf
<1>2. CASE i \in Spans
  <2>1. IsSpanEvent(e) /\ IsSpanEvent(f) /\ Begun(i)
    BY <1>2, EventsOf DEF IInv, ObjectsOK
  <2>2. PICK filling \in Fillings : filling = object[i].filling
    BY <2>1 DEF Begun, SpanObject
  <2>3. PICK t : t = object[i].trace_id
    OBVIOUS
  <2>4. PICK a \in {filling[1], filling[2]} : SpanFields(e, i, t, a)
    BY <1>1, <1>2, <2>2, <2>3 DEF StartEvent, EndEvent, SpanStart, SpanEnd
  <2>5. PICK b \in {filling[1], filling[2]} : SpanFields(f, i, t, b)
    BY <1>1, <1>2, <2>2, <2>3 DEF StartEvent, EndEvent, SpanStart, SpanEnd
  <2>6. e.trace_id = f.trace_id /\ (Card(e) = Card(f) \/ NormalizedSpanType(e) = "handoff")
    BY <2>1, <2>4, <2>5, SameCard, SMTT(60)
  <2>7. QED
    BY <2>6
<1>3. CASE i \notin Spans
  <2>1. i \in Traces
    BY <1>3, Disjoint
  <2>2. e.trace_id = i /\ f.trace_id = i /\ i # None
    BY <1>1, <1>3, <2>1, IdentifiersAssumption
    DEF StartEvent, EndEvent, TraceStart, TraceEnd, Clean
  <2>3. IsTraceEvent(e) /\ IsTraceEvent(f) /\ ~ IsSpanEvent(e) /\ ~ IsSpanEvent(f)
    BY <1>3, EventsOf DEF IsTraceEvent, IsSpanEvent
  <2>4. QED
    BY <2>2, <2>3 DEF Card
<1>4. QED
  BY <1>2, <1>3

-----------------------------------------------------------------------------
(* What lets the names of two events be compared: they are names there are. *)
EventKeys == {"event_type", "status", "timestamp", "trace_id", "span_id", "parent_span_id",
              "session_id", "node_id", "agent_id", "tool_name", "span_type", "duration_ms",
              "metadata"}
Identifier == DOMAIN ShortOf \cup {None}

Named(e) ==
  /\ DOMAIN e = EventKeys
  /\ {e.trace_id, e.span_id, e.parent_span_id} \subseteq Identifier
  /\ e.session_id \in Sessions \cup {None}

NamesInv ==
  /\ \A t \in Traces : phase[t] # "new" => object[t].data \in TraceData
  /\ \A e \in Events : Named(e)

LEMMA NamedMessage ==
  ASSUME NEW payload, NEW now,
         \A key \in {"trace_id", "span_id", "parent_span_id"} :
           Clean(Get(payload, key)) \in Identifier,
         Clean(Get(payload, "session_id")) \in Sessions \cup {None}
  PROVE  Named(FromMapping(payload, now))
BY DEF Named, FromMapping, EventKeys

LEMMA CleanIdentifiers == \A id \in Item \cup {None} : Clean(id) \in Identifier
BY IdentifiersAssumption DEF Clean, Item, Identifier

LEMMA NamedPublished ==
  ASSUME IInv, NamesInv, NEW i \in Item, phase[i] \in {"starting", "ending"}
  PROVE  Named(FromMapping(Published(i), Published(i).timestamp))
<1> DEFINE p == Published(i)
           x == object[i]
<1>1. /\ \A key \in {"trace_id", "span_id", "parent_span_id"} : Clean(Get(p, key)) \in Identifier
      /\ Clean(Get(p, "session_id")) \in Sessions \cup {None}
  <2>1. CASE i \in Spans
    <3>1. i \notin Traces /\ x.trace_id \in Traces /\ x.parent_id \in Spans \cup {None}
      BY <2>1, Disjoint DEF IInv, ObjectsOK, Begun, SpanObject
    <3>2. PICK type, status : p = SpanEvent(i, x, type, status)
      BY <2>1, <3>1 DEF Published
    <3>3. /\ Get(p, "trace_id") = x.trace_id /\ Get(p, "span_id") = i
          /\ Get(p, "parent_span_id") = x.parent_id /\ Get(p, "session_id") = None
      BY <3>2 DEF SpanEvent, Get
    <3>4. Clean(None) = None
      BY DEF Clean
    <3>5. QED
      BY <2>1, <3>1, <3>3, <3>4, CleanIdentifiers DEF Item
  <2>2. CASE i \notin Spans
    <3>1. i \in Traces /\ x.data \in TraceData
      BY <2>2, Disjoint DEF NamesInv
    <3>2. PICK type, status : p = TraceEvent(i, x, type, status)
      BY <2>2, <3>1 DEF Published
    <3>3. /\ Get(p, "trace_id") = i /\ Get(p, "span_id") = None
          /\ Get(p, "parent_span_id") = None /\ Get(p, "session_id") = SessionId(x.data)
      BY <3>2 DEF TraceEvent, Get
    <3>4. Clean(SessionId(x.data)) \in {SessionId(x.data), None}
      BY DEF Clean
    <3>5. QED
      BY <3>1, <3>3, <3>4, CleanIdentifiers DEF Sessions
  <2>3. QED
    BY <2>1, <2>2
<1> HIDE DEF p
<1>2. QED
  BY <1>1, NamedMessage, Zenon DEF p

LEMMA NamesInit == Init => NamesInv
<1> SUFFICES ASSUME Init PROVE NamesInv
  OBVIOUS
<1>1. \A i \in Item : received[i] = <<>> /\ phase[i] = "new"
  BY DEF Init
<1>2. Events = {}
  BY <1>1 DEF Init, Events, Received
<1>3. QED
  BY <1>1, <1>2 DEF NamesInv, Item

LEMMA NamesStep == IInv /\ NamesInv /\ [Next]_vars => NamesInv'
<1> SUFFICES ASSUME IInv, NamesInv, [Next]_vars PROVE NamesInv'
  OBVIOUS
<1>1. CASE \E t \in Traces : EndTrace(t) \/ \E data \in TraceData : StartTrace(t, data)
  BY <1>1 DEF EndTrace, StartTrace, NamesInv, Events, Received, IInv, ObjectsOK, Item
<1>2. CASE \E s \in Spans, t \in Traces, parent \in Spans \cup {None}, filling \in Fillings,
             now \in Time : StartSpan(s, t, parent, filling, now)
  BY <1>2, Disjoint DEF StartSpan, NamesInv, Events, Received, IInv, ObjectsOK, Item
<1>3. CASE \E s \in Spans, error \in Errors \cup {None}, now \in Time : EndSpan(s, error, now)
  BY <1>3, Disjoint DEF EndSpan, NamesInv, Events, Received, IInv, ObjectsOK, Item
<1>4. CASE \E i \in Item : Deliver(i)
  <2>1. PICK i \in Item : Deliver(i)
    BY <1>4
  <2> DEFINE e == FromMapping(Published(i), Published(i).timestamp)
             q == received[i]
  <2>2. Named(e)
    BY <2>1, NamedPublished, Zenon DEF Deliver
  <2>3. received' = [received EXCEPT ![i] = Append(q, e)] /\ UNCHANGED <<phase, object, others>>
    BY <2>1 DEF Deliver
  <2> HIDE DEF e
  <2>4. PICK S : q \in Seq(S)
    BY DEF IInv, ReceivedOK, HistoryOf
  <2>5. /\ DOMAIN Append(q, e) = 1 .. Len(q) + 1
        /\ DOMAIN q = 1 .. Len(q) /\ Len(q) \in Nat
        /\ \A k \in 1 .. Len(q) : Append(q, e)[k] = q[k]
        /\ Append(q, e)[Len(q) + 1] = e
    BY <2>4, AppendFacts
  <2>6. received'[i] = Append(q, e) /\ \A j \in Item \ {i} : received'[j] = received[j]
    BY <2>3 DEF IInv, ReceivedOK
  <2>7. \A f \in Received(i)' : f \in Received(i) \/ f = e
    BY <2>5, <2>6 DEF Received
  <2>8. \A j \in Item \ {i} : Received(j)' = Received(j)
    BY <2>6 DEF Received
  <2>9. \A f \in Events' : f \in Events \/ f = e
    BY <2>3, <2>7, <2>8 DEF Events
  <2>10. QED
    BY <2>2, <2>3, <2>9 DEF NamesInv
<1>5. CASE \E i \in Item : Return(i)
  BY <1>5, Disjoint DEF Return, NamesInv, Events, Received, IInv, Item
<1>6. CASE \E payload \in Foreign, now \in Time : DeliverForeign(payload, now)
  <2>1. PICK payload \in Foreign, now \in Time : DeliverForeign(payload, now)
    BY <1>6
  <2> DEFINE e == FromMapping(payload, now)
  <2>2. Named(e)
    <3>1. \A key \in {"trace_id", "span_id", "parent_span_id"} :
            Clean(Get(payload, key)) \in Identifier
      BY ForeignAssumption DEF Identifier
    <3>2. Clean(Get(payload, "session_id")) \in Sessions \cup {None}
      BY DEF Sessions
    <3>3. QED
      BY <3>1, <3>2, NamedMessage, Zenon
  <2>3. others' = {e} /\ UNCHANGED <<phase, object, received>>
    BY <2>1 DEF DeliverForeign
  <2> HIDE DEF e
  <2>4. QED
    BY <2>2, <2>3 DEF NamesInv, Events, Received
<1>7. CASE UNCHANGED vars
  BY <1>7 DEF vars, NamesInv, Events, Received
<1>8. QED
  BY <1>1, <1>2, <1>3, <1>4, <1>5, <1>6, <1>7 DEF Next

LEMMA NamesHold == Spec => []NamesInv
<1>1. QED
  BY Invariance, NamesInit, NamesStep, PTL DEF Spec

(* What a viewer is sent has its identifiers cut and keeps all that a card  *)
(* is made of.                                                              *)
LEMMA ViewerFields ==
  ASSUME NEW e, Named(e)
  PROVE  LET v == ToClientPayload(e, "viewer") IN
         /\ v.trace_id = ShortIdentifier(e.trace_id)
         /\ v.span_id = ShortIdentifier(e.span_id)
         /\ v.parent_span_id = ShortIdentifier(e.parent_span_id)
         /\ v.session_id = Pseudonymize(e.session_id)
         /\ v.event_type = e.event_type /\ v.node_id = e.node_id /\ v.agent_id = e.agent_id
         /\ v.tool_name = e.tool_name /\ v.span_type = e.span_type
         /\ \A key \in {"workflow_name", "span_data_type", "name", "sdk_span_type", "task_name",
                         "turn", "agent_name", "from_agent", "to_agent", "model", "server"} :
              Get(v.metadata, key) = Get(e.metadata, key)
<1> DEFINE v == ToClientPayload(e, "viewer")
<1>1. /\ v.trace_id = ShortIdentifier(e.trace_id)
      /\ v.span_id = ShortIdentifier(e.span_id)
      /\ v.parent_span_id = ShortIdentifier(e.parent_span_id)
      /\ v.session_id = Pseudonymize(e.session_id)
      /\ v.event_type = e.event_type /\ v.node_id = e.node_id /\ v.agent_id = e.agent_id
      /\ v.tool_name = e.tool_name /\ v.span_type = e.span_type
      /\ v.metadata = ViewerMetadata(e.metadata)
  BY DEF ToClientPayload, Named, EventKeys
<1> HIDE DEF v
<1>2. \A key \in {"workflow_name", "span_data_type", "name", "sdk_span_type", "task_name",
                  "turn", "agent_name", "from_agent", "to_agent", "model", "server"} :
        Get(v.metadata, key) = Get(e.metadata, key)
  BY <1>1 DEF ViewerMetadata, Keep, Get
<1>3. QED
  BY <1>1, <1>2 DEF v

(* Cutting identifiers that can be told apart confuses none of them, and    *)
(* leaves none empty.                                                       *)
LEMMA ShortTells ==
  ASSUME \A a, b \in DOMAIN ShortOf : ShortOf[a] = ShortOf[b] => a = b,
         NEW a \in Identifier, NEW b \in Identifier
  PROVE  /\ ShortIdentifier(a) = ShortIdentifier(b) <=> a = b
         /\ ShortIdentifier(a) = None <=> a = None
BY ShortOfAssumption DEF ShortIdentifier, Identifier

\* The kinds of spans whose cards are not named by the id of the span.
CardKinds == {"agent", "turn", "task", "function", "tool", "mcp_tools", "response", "generation",
              "handoff", "guardrail"}

\* The ways in which the card c of an event and the card d of what a viewer is
\* sent of it are related.
TraceCards(e, c, d) ==
  e.trace_id # None /\ c = <<"trace", e.trace_id>> /\ d = <<"trace", ShortIdentifier(e.trace_id)>>
SpanCards(e, c, d) ==
  /\ IsSpanEvent(e)
  /\ c = <<"span", Or(e.span_id, SpanName(e))>>
  /\ d = <<"span", Or(ShortIdentifier(e.span_id), SpanName(e))>>
SameCards(c, d) == c = d /\ \A x : c # <<"trace", x>> /\ c # <<"span", x>>

LEMMA SpanCardOfKind ==
  ASSUME NEW e, NormalizedSpanType(e) \in CardKinds
  PROVE  \A x : SpanCard(e) # <<"trace", x>> /\ SpanCard(e) # <<"span", x>>
<1> DEFINE type == NormalizedSpanType(e)
<1>1. CASE type = "agent"
  BY <1>1 DEF SpanCard
<1>2. CASE type = "turn"
  BY <1>2 DEF SpanCard
<1>3. CASE type = "task"
  BY <1>3 DEF SpanCard
<1>4. CASE type \in {"function", "tool"}
  BY <1>4 DEF SpanCard
<1>5. CASE type = "mcp_tools"
  BY <1>5 DEF SpanCard
<1>6. CASE type \in {"response", "generation"}
  BY <1>6 DEF SpanCard
<1>7. CASE type = "handoff"
  BY <1>7 DEF SpanCard
<1>8. CASE type = "guardrail"
  BY <1>8 DEF SpanCard
<1>9. QED
  BY <1>1, <1>2, <1>3, <1>4, <1>5, <1>6, <1>7, <1>8 DEF CardKinds

LEMMA ViewerCard ==
  ASSUME NEW e, Named(e), NEW v, v = ToClientPayload(e, "viewer")
  PROVE  \/ TraceCards(e, Card(e), Card(v))
         \/ SpanCards(e, Card(e), Card(v))
         \/ SameCards(Card(e), Card(v))
<1> DEFINE kept == {"workflow_name", "span_data_type", "name", "sdk_span_type", "task_name",
                    "turn", "agent_name", "from_agent", "to_agent", "model", "server"}
<1>1. /\ v.trace_id = ShortIdentifier(e.trace_id)
      /\ v.span_id = ShortIdentifier(e.span_id)
      /\ v.event_type = e.event_type /\ v.node_id = e.node_id /\ v.agent_id = e.agent_id
      /\ v.tool_name = e.tool_name /\ v.span_type = e.span_type
      /\ \A key \in kept : Get(v.metadata, key) = Get(e.metadata, key)
  BY ViewerFields, Zenon
<1>2. /\ NormalizedSpanType(v) = NormalizedSpanType(e) /\ SpanName(v) = SpanName(e)
      /\ IsTraceEvent(v) <=> IsTraceEvent(e)
      /\ IsSpanEvent(v) <=> IsSpanEvent(e)
  BY <1>1 DEF NormalizedSpanType, SpanName, IsTraceEvent, IsSpanEvent
<1>3. ShortIdentifier(e.trace_id) = None <=> e.trace_id = None
  BY ShortOfAssumption DEF Named, Identifier, ShortIdentifier
<1>4. CASE IsTraceEvent(e)
  <2>0. IsTraceEvent(v) /\ ~ IsSpanEvent(v) /\ ~ IsSpanEvent(e)
    BY <1>1, <1>4 DEF IsTraceEvent, IsSpanEvent
  <2>1. CASE e.trace_id # None
    <3>0. v.trace_id # None
      BY <1>1, <1>3, <2>1
    <3>1. Card(e) = <<"trace", e.trace_id>> /\ Card(v) = <<"trace", v.trace_id>>
      BY <1>4, <2>0, <2>1, <3>0 DEF Card
    <3>2. QED
      BY <1>1, <2>1, <3>1 DEF TraceCards
  <2>2. CASE e.trace_id = None
    <3>0. v.trace_id = None
      BY <1>1, <1>3, <2>2
    <3>1. /\ Card(e) = <<"workflow", Get(e.metadata, "workflow_name")>>
          /\ Card(v) = <<"workflow", Get(v.metadata, "workflow_name")>>
      BY <1>4, <2>0, <2>2, <3>0 DEF Card
    <3>2. QED
      BY <1>1, <3>1 DEF SameCards
  <2>3. QED
    BY <2>1, <2>2
<1>5. CASE ~ IsTraceEvent(e) /\ ~ (IsSpanEvent(e) /\ e.node_id = None)
  BY <1>1, <1>2, <1>5 DEF Card, SameCards
<1>6. CASE ~ IsTraceEvent(e) /\ IsSpanEvent(e) /\ e.node_id = None
  <2>1. Card(e) = SpanCard(e) /\ Card(v) = SpanCard(v)
    BY <1>1, <1>2, <1>6 DEF Card
  <2>2. CASE NormalizedSpanType(e) \in CardKinds
    <3>1. SpanCard(v) = SpanCard(e)
      BY <1>1, <1>2, <2>2 DEF SpanCard, CardKinds
    <3>2. QED
      BY <2>1, <2>2, <3>1, SpanCardOfKind DEF SameCards
  <2>3. CASE NormalizedSpanType(e) \notin CardKinds
    <3>1. /\ SpanCard(e) = <<"span", Or(e.span_id, SpanName(e))>>
          /\ SpanCard(v) = <<"span", Or(v.span_id, SpanName(v))>>
      BY <1>2, <2>3 DEF SpanCard, CardKinds
    <3>2. QED
      BY <1>1, <1>2, <1>6, <2>1, <3>1 DEF SpanCards
  <2>4. QED
    BY <2>2, <2>3
<1>7. QED
  BY <1>4, <1>5, <1>6

LEMMA RolesHold == NamesInv => RolesDrawTheSame
<1> SUFFICES ASSUME NamesInv, IdentifiersAreClear, NEW e \in Events, NEW f \in Events,
                    NEW v, v = ToClientPayload(e, "viewer"),
                    NEW w, w = ToClientPayload(f, "viewer")
             PROVE  /\ Card(v) = Card(w) <=> Card(e) = Card(f)
                    /\ v.parent_span_id = w.span_id <=> e.parent_span_id = f.span_id
                    /\ v.trace_id = w.trace_id <=> e.trace_id = f.trace_id
                    /\ v.session_id = w.session_id <=> e.session_id = f.session_id
  BY DEF RolesDrawTheSame
<1>1. Named(e) /\ Named(f)
  BY DEF NamesInv
<1>2. ASSUME NEW a \in Identifier, NEW b \in Identifier
      PROVE  /\ ShortIdentifier(a) = ShortIdentifier(b) <=> a = b
             /\ ShortIdentifier(a) = None <=> a = None
  <2>1. \A c, d \in DOMAIN ShortOf : ShortOf[c] = ShortOf[d] => c = d
    BY DEF IdentifiersAreClear
  <2>2. QED
    BY <2>1, ShortTells, Zenon
<1>3. /\ e.trace_id \in Identifier /\ e.span_id \in Identifier
      /\ e.parent_span_id \in Identifier
      /\ f.trace_id \in Identifier /\ f.span_id \in Identifier
  BY <1>1 DEF Named
<1>4. /\ v.trace_id = ShortIdentifier(e.trace_id) /\ w.trace_id = ShortIdentifier(f.trace_id)
      /\ v.parent_span_id = ShortIdentifier(e.parent_span_id)
      /\ w.span_id = ShortIdentifier(f.span_id)
      /\ v.session_id = Pseudonymize(e.session_id) /\ w.session_id = Pseudonymize(f.session_id)
  BY <1>1, ViewerFields, Zenon
<1>5. /\ v.parent_span_id = w.span_id <=> e.parent_span_id = f.span_id
      /\ v.trace_id = w.trace_id <=> e.trace_id = f.trace_id
  BY <1>2, <1>3, <1>4
<1>6. v.session_id = w.session_id <=> e.session_id = f.session_id
  BY <1>1, <1>4, SessionsAssumption DEF Named, Pseudonymize
<1>7. Card(v) = Card(w) <=> Card(e) = Card(f)
  <2>1. \/ TraceCards(e, Card(e), Card(v))
        \/ SpanCards(e, Card(e), Card(v))
        \/ SameCards(Card(e), Card(v))
    BY <1>1, ViewerCard, Zenon
  <2>2. \/ TraceCards(f, Card(f), Card(w))
        \/ SpanCards(f, Card(f), Card(w))
        \/ SameCards(Card(f), Card(w))
    BY <1>1, ViewerCard, Zenon
  <2>3. CASE TraceCards(e, Card(e), Card(v)) /\ TraceCards(f, Card(f), Card(w))
    BY <1>2, <1>3, <2>3 DEF TraceCards
  <2>4. CASE SpanCards(e, Card(e), Card(v)) /\ SpanCards(f, Card(f), Card(w))
    <3>1. /\ e.span_id # None /\ f.span_id = None =>
               SpanName(f) \notin {e.span_id, ShortIdentifier(e.span_id)}
          /\ f.span_id # None /\ e.span_id = None =>
               SpanName(e) \notin {f.span_id, ShortIdentifier(f.span_id)}
      BY <2>4 DEF SpanCards, IdentifiersAreClear, ShortIdentifier
    <3>2. Or(ShortIdentifier(e.span_id), SpanName(e)) = Or(ShortIdentifier(f.span_id), SpanName(f))
            <=> Or(e.span_id, SpanName(e)) = Or(f.span_id, SpanName(f))
      BY <1>2, <1>3, <3>1 DEF Or
    <3>3. QED
      BY <2>4, <3>2 DEF SpanCards
  <2>5. CASE SameCards(Card(e), Card(v)) /\ SameCards(Card(f), Card(w))
    BY <2>5 DEF SameCards
  <2>6. QED
    BY <2>1, <2>2, <2>3, <2>4, <2>5 DEF TraceCards, SpanCards, SameCards
<1>8. QED
  BY <1>5, <1>6, <1>7

-----------------------------------------------------------------------------
(* Wherever the clock goes, what a callback publishes is a valid event, and *)
(* so is everything the service reads.                                      *)
THEOREM TypeCorrect == Spec => []TypeOK
<1>1. QED
  BY Invariance, TypeOKHolds, PTL

(* After the end of a span no event says it is still running, and its end   *)
(* says how it ended, whatever is lost or repeated on the way.              *)
THEOREM OutcomeIsLast == Spec => []OutcomeIsNewest
<1>1. QED
  BY Invariance, OutcomeHolds, PTL

(* Durations and timestamps of a span agree.                                *)
THEOREM DurationsAgree == Spec => []DurationIsTheGap
<1>1. QED
  BY Invariance, GapHolds, PTL

(* The two events of a span are counted for one card, whatever the SDK      *)
(* fills in while it runs, unless it is a handoff.                          *)
THEOREM SpanKeepsItsCard == Spec => []OneCardPerSpan
<1>1. QED
  BY Invariance, CardHolds, PTL

(* A viewer sees the graph a developer sees, under names that are cut, as   *)
(* long as cut names still tell identifiers apart: it needs nothing that is *)
(* withheld from it to find the card, the parent, the trace and the session *)
(* of an event, whoever published it.                                       *)
THEOREM ViewerSeesTheGraph == Spec => []RolesDrawTheSame
<1>1. QED
  BY NamesHold, RolesHold, PTL
=============================================================================
