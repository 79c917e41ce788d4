--------------------------- MODULE TraceProcessor ---------------------------
(***************************************************************************)
(* The way of a span from the Agents SDK to a card in the browser:         *)
(* AgentsDashboardTraceProcessor (agents_sdk.py) normalizes a trace or a   *)
(* span in its callbacks, publisher.py sends the event through Redis,      *)
(* event_from_mapping reads it, to_client_payload cuts it for a role and   *)
(* runtimeNodeForEvent (app.js) chooses the card it is counted for.        *)
(*                                                                         *)
(* The SDK is external: it calls on_span_start and on_span_end for every   *)
(* span, in the thread that runs it, and fills the span's data while it    *)
(* runs.  publish sends the event to the service no time, once or more     *)
(* often (redis-py sends a command again when the answer does not come)    *)
(* and returns or raises; either way the processor has done its part, and  *)
(* the copies of one event are over before the span goes on.               *)
(***************************************************************************)
EXTENDS EventNormalization, Sequences

CONSTANTS
  Traces, Spans,  \* the identifiers the SDK gives them
  TraceData,      \* what a trace is created with
  Fillings,       \* pairs: a span's data when it starts and when it ends
  Errors,         \* texts of errors a span may end with
  Foreign,        \* messages of other publishers on the channel
  Time,           \* readings of the clock, which may be set back
  MaxCopies       \* bound of the model: how often one publish reaches the service

ASSUME IdentifiersAssumption ==
  /\ Traces \cap Spans = {}
  /\ Traces \cup Spans \subseteq DOMAIN ShortOf
  /\ {None, Blank} \cap (Traces \cup Spans \cup Errors \cup Time) = {}
ASSUME TimeAssumption == Time \subseteq Int
ASSUME ForeignAssumption ==
  \A payload \in Foreign : /\ Get(payload, "event_type") \in EventType \cup {None}
                           /\ Get(payload, "timestamp") \in Time \cup {None}
                           /\ \A key \in {"trace_id", "span_id", "parent_span_id"} :
                                Clean(Get(payload, key)) \in DOMAIN ShortOf \cup {None}
ASSUME CopiesAssumption == MaxCopies \in Nat

VARIABLES
  phase,     \* what the SDK and the processor are doing with a trace or a span
  object,    \* the Trace and Span objects of the SDK
  received,  \* the events of each that the service has got, in order
  others     \* the events the service has got from other publishers

vars == <<phase, object, received, others>>

Item == Traces \cup Spans

-----------------------------------------------------------------------------
(* Span data is what export() returns; custom spans have a mapping `data`.  *)
DataOf(data) == IF "data" \in DOMAIN data THEN data.data ELSE Empty

(* _span_type, without the name of the class, which exported data never has.*)
SpanType(data) ==
  LET explicit == Clean(Or(Get(data, "type"), Get(data, "span_type")))
      sdk == Clean(Get(DataOf(data), "sdk_span_type"))
      name == Clean(Get(data, "name"))
  IN  CASE explicit = "custom" /\ sdk # None -> sdk
        [] explicit = "custom" /\ sdk = None /\ name \in {"task", "turn"} -> name
        [] OTHER -> explicit

AgentId(data, type) ==
  LET ofData == Get(DataOf(data), "agent_name")
      named == Get(data, "agent_name")
  IN  CASE type = "agent" -> Clean(Get(data, "name"))
        [] type = "turn" -> Clean(Or(ofData, named))
        [] OTHER -> Clean(Or(Or(Or(Get(data, "agent_id"), named), Get(data, "agent")), ofData))

ToolName(data, type) ==
  CASE type \in {"function", "tool"} -> Clean(Get(data, "name"))
    [] type = "mcp_tools" -> Clean(Or(Get(data, "server"), "mcp_tools"))
    [] OTHER -> Clean(Or(Get(data, "tool_name"), Get(data, "function_name")))

(* _span_metadata keeps the keys that have a value.                         *)
SpanMetadata(data, type) ==
  LET nested == DataOf(data)
      all == [span_data_type |-> type,
              name |-> Clean(Get(data, "name")),
              sdk_span_type |-> Clean(Get(nested, "sdk_span_type")),
              task_name |-> Clean(Get(nested, "name")),
              turn |-> Clean(Get(nested, "turn")),
              agent_name |-> Clean(Or(Get(nested, "agent_name"), Get(data, "agent_name"))),
              from_agent |-> Clean(Get(data, "from_agent")),
              to_agent |-> Clean(Get(data, "to_agent")),
              model |-> Clean(Get(data, "model")),
              server |-> Clean(Get(data, "server")),
              triggered |-> Get(data, "triggered"),
              tools |-> Get(data, "tools"),
              handoffs |-> Get(data, "handoffs")]
  IN  Keep(all, {key \in DOMAIN all : all[key] # None})

(* A plausible bug: the clock is trusted.                                   *)
DurationUnclamped(span) ==
  IF None \in {span.started_at, span.ended_at} THEN None ELSE span.ended_at - span.started_at

(* _duration_ms.                                                            *)
Duration(span) ==
  IF None \in {span.started_at, span.ended_at} THEN None
  ELSE IF span.ended_at < span.started_at THEN 0 ELSE span.ended_at - span.started_at

(* A plausible bug: the first timestamp there is.                           *)
TimestampOfStart(span) == Or(span.started_at, span.ended_at)

(* _timestamp_from_object.                                                  *)
Timestamp(span) == Or(span.ended_at, span.started_at)

(* _span_event.                                                             *)
SpanEvent(s, span, type, status) ==
  LET spanType == SpanType(span.data) IN
  [event_type |-> type, status |-> status,
   timestamp |-> Timestamp(span),
   trace_id |-> span.trace_id, span_id |-> s, parent_span_id |-> span.parent_id,
   node_id |-> Clean(Get(span.data, "dashboard_node_id")),
   agent_id |-> AgentId(span.data, spanType),
   tool_name |-> ToolName(span.data, spanType),
   span_type |-> spanType,
   duration_ms |-> Duration(span),
   metadata |-> SpanMetadata(span.data, spanType)]

(* _session_id_from_trace with the default session_metadata_keys.           *)
SessionId(trace) ==
  LET of(key) == Clean(Get(trace.metadata, key)) IN
  Or(Or(Or(of("session_id"), of("conversation_id")), of("thread_id")), Clean(trace.group_id))

(* The session ids there are; a pseudonym is not the empty text.            *)
Sessions == {SessionId(data) : data \in TraceData}
              \cup {Clean(Get(payload, "session_id")) : payload \in Foreign}
ASSUME SessionsAssumption == \A id \in Sessions : Pseudonymize(id) = None => id = None

(* _trace_event.  A trace of the SDK has no times, so that the time of the  *)
(* callback is taken: it is left out.                                       *)
TraceEvent(t, trace, type, status) ==
  [event_type |-> type, status |-> status,
   timestamp |-> None,
   trace_id |-> t,
   session_id |-> SessionId(trace.data),
   metadata |-> [workflow_name |-> Clean(trace.data.name), group_id |-> Clean(trace.data.group_id)]]

(* The event that the callback under way publishes.                         *)
Published(i) ==
  CASE i \in Traces /\ phase[i] = "starting" -> TraceEvent(i, object[i], "trace_start", "active")
    [] i \in Traces /\ phase[i] = "ending" -> TraceEvent(i, object[i], "trace_end", "success")
    [] i \in Spans /\ phase[i] = "starting" -> SpanEvent(i, object[i], "span_start", "active")
    [] i \in Spans /\ phase[i] = "ending" ->
         SpanEvent(i, object[i], "span_end", IF object[i].error # None THEN "error" ELSE "success")

-----------------------------------------------------------------------------
(* What the SDK knows of a span from the start: it may fill in the rest, as *)
(* to_agent, triggered, tools, handoffs and usage, while the span runs.     *)
Kept == {"type", "span_type", "name", "agent_id", "agent_name", "agent", "server", "tool_name",
         "function_name", "model", "from_agent", "dashboard_node_id"}
KeptInside == {"sdk_span_type", "name", "turn", "agent_name"}

ASSUME FillingsAssumption ==
  \A filling \in Fillings :
    /\ \A key \in Kept : Get(filling[1], key) = Get(filling[2], key)
    /\ \A key \in KeptInside : Get(DataOf(filling[1]), key) = Get(DataOf(filling[2]), key)

Init ==
  /\ phase = [i \in Item |-> "new"]
  /\ object = [i \in Item |-> None]
  /\ received = [i \in Item |-> <<>>]
  /\ others = {}

(* The SDK starts a trace and calls on_trace_start.                         *)
StartTrace(t, data) ==
  /\ phase[t] = "new"
  /\ phase' = [phase EXCEPT ![t] = "starting"]
  /\ object' = [object EXCEPT ![t] = [data |-> data]]
  /\ UNCHANGED <<received, others>>

(* ... and ends it, whatever its spans are doing.                           *)
EndTrace(t) ==
  /\ phase[t] = "running"
  /\ phase' = [phase EXCEPT ![t] = "ending"]
  /\ UNCHANGED <<object, received, others>>

(* A span starts in a trace, under a span of that trace or under none.      *)
StartSpan(s, t, parent, filling, now) ==
  /\ phase[s] = "new"
  /\ phase[t] = "running"
  /\ parent \in Spans => phase[parent] = "running" /\ object[parent].trace_id = t
  /\ phase' = [phase EXCEPT ![s] = "starting"]
  /\ object' = [object EXCEPT ![s] =
       [trace_id |-> t, parent_id |-> parent, filling |-> filling, data |-> filling[1],
        started_at |-> now, ended_at |-> None, error |-> None]]
  /\ UNCHANGED <<received, others>>

(* ... and ends, with the data it has got by then.                          *)
EndSpan(s, error, now) ==
  /\ phase[s] = "running"
  /\ phase' = [phase EXCEPT ![s] = "ending"]
  /\ object' = [object EXCEPT ![s].data = object[s].filling[2], ![s].ended_at = now,
                              ![s].error = error]
  /\ UNCHANGED <<received, others>>

Copies(i) ==
  Len(SelectSeq(received[i], LAMBDA e : e.event_type = Published(i).event_type))

(* publish has sent the message, and the service reads it.                  *)
Deliver(i) ==
  /\ phase[i] \in {"starting", "ending"}
  /\ Accepts(Published(i))
  /\ Copies(i) < MaxCopies
  /\ received' = [received EXCEPT ![i] =
                    Append(@, FromMapping(Published(i), Published(i).timestamp))]
  /\ UNCHANGED <<phase, object, others>>

(* publish returns, or raises, which the processor lets through.            *)
Return(i) ==
  /\ \/ phase[i] = "starting" /\ phase' = [phase EXCEPT ![i] = "running"]
     \/ phase[i] = "ending" /\ phase' = [phase EXCEPT ![i] = "ended"]
  /\ UNCHANGED <<object, received, others>>

(* The message of another publisher on the channel; one is kept.             *)
DeliverForeign(payload, now) ==
  /\ Accepts(payload)
  /\ others = {}
  /\ others' = {FromMapping(payload, now)}
  /\ UNCHANGED <<phase, object, received>>

Next ==
  \/ \E t \in Traces : EndTrace(t) \/ \E data \in TraceData : StartTrace(t, data)
  \/ \E s \in Spans, t \in Traces, parent \in Spans \cup {None}, filling \in Fillings,
        now \in Time : StartSpan(s, t, parent, filling, now)
  \/ \E s \in Spans, error \in Errors \cup {None}, now \in Time : EndSpan(s, error, now)
  \/ \E i \in Item : Deliver(i) \/ Return(i)
  \/ \E payload \in Foreign, now \in Time : DeliverForeign(payload, now)

Spec == Init /\ [][Next]_vars

-----------------------------------------------------------------------------
(* What the browser makes of an event: the id of the card it is counted for.*)
IsTraceEvent(e) == e.event_type \in {"trace_start", "trace_end"}
IsSpanEvent(e) == e.event_type \in {"span_start", "span_end"}
IsEnd(e) == e.event_type \in {"trace_end", "span_end"}

NormalizedSpanType(e) ==
  Or(Or(Or(Or(e.span_type, Get(e.metadata, "sdk_span_type")),
           Get(e.metadata, "span_data_type")), Get(e.metadata, "name")), "span")

(* A plausible bug: a guardrail that was triggered has a card of its own.   *)
SpanCardByOutcome(e) ==
  <<NormalizedSpanType(e), e.span_id, Get(e.metadata, "triggered")>>

\* What a span without an id goes by, if it is of no kind that has cards.
SpanName(e) ==
  LET of(key) == Get(e.metadata, key) IN
  Or(Or(Or(Or(Or(e.agent_id, e.tool_name), of("agent_name")), of("name")), of("task_name")),
     NormalizedSpanType(e))

(* runtimeNodeForEvent.                                                     *)
SpanCard(e) ==
  LET type == NormalizedSpanType(e)
      of(key) == Get(e.metadata, key)
  IN  CASE type = "agent" -> <<"agent", Or(Or(e.agent_id, of("name")), "Agent")>>
        [] type = "turn" ->
             <<"turn", Or(Or(Or(e.agent_id, of("agent_name")), of("name")), "Agent"), of("turn")>>
        [] type = "task" -> <<"task", Or(Or(of("task_name"), of("name")), "Runner task")>>
        [] type \in {"function", "tool"} ->
             <<"tool", Or(Or(e.tool_name, of("name")), "Tool call")>>
        [] type = "mcp_tools" -> <<"tool", "MCP", of("server")>>
        [] type \in {"response", "generation"} -> <<"model", Or(of("model"), type)>>
        [] type = "handoff" ->
             <<"handoff", Or(of("from_agent"), "agent"), Or(of("to_agent"), "agent")>>
        [] type = "guardrail" -> <<"guardrail", Or(of("name"), "Guardrail")>>
        [] OTHER -> <<"span", Or(e.span_id, SpanName(e))>>

(* ensureWorkflowNode for an event of a trace, else the span's card; other  *)
(* events have none.                                                        *)
Card(e) ==
  CASE IsTraceEvent(e) /\ e.trace_id # None -> <<"trace", e.trace_id>>
    [] IsTraceEvent(e) /\ e.trace_id = None -> <<"workflow", Get(e.metadata, "workflow_name")>>
    [] IsSpanEvent(e) /\ e.node_id # None -> <<e.node_id>>
    [] IsSpanEvent(e) /\ e.node_id = None -> SpanCard(e)
    [] OTHER -> <<>>

-----------------------------------------------------------------------------
Received(i) == {received[i][k] : k \in DOMAIN received[i]}
Events == others \cup UNION {Received(i) : i \in Item}

(* Types; what a callback publishes satisfies the constraints of            *)
(* DashboardEvent, wherever the clock goes.                                 *)
TypeOK ==
  /\ phase \in [Item -> {"new", "starting", "running", "ending", "ended"}]
  /\ \A s \in Spans : phase[s] # "new" =>
       object[s].started_at \in Time /\ object[s].error \in Errors \cup {None}
  /\ \A i \in Item : phase[i] \in {"starting", "ending"} => Accepts(Published(i))
  /\ \A e \in Events : /\ e.event_type \in EventType /\ e.status \in EventStatus
                       /\ e.timestamp \in Time \cup {None} /\ e.duration_ms \in {None} \cup Nat

(* The last event of a trace or a span that the service gets tells its      *)
(* outcome, whatever is lost or repeated: after an end there is no start,   *)
(* and an end has the status the span ended with.                           *)
OutcomeIsNewest ==
  \A i \in Item : \A k, m \in DOMAIN received[i] :
    /\ k < m /\ IsEnd(received[i][k]) => IsEnd(received[i][m])
    /\ received[i][k].status =
         CASE ~ IsEnd(received[i][k]) -> "active"
           [] IsEnd(received[i][k]) /\ i \in Spans /\ object[i].error # None -> "error"
           [] OTHER -> "success"

(* The duration of a span is what lies between the timestamps of its two    *)
(* events, and 0 if the clock was set back between them.                    *)
DurationIsTheGap ==
  \A s \in Spans : \A start, end \in Received(s) :
    ~ IsEnd(start) /\ IsEnd(end) =>
      LET gap == end.timestamp - start.timestamp IN
      end.duration_ms = IF gap < 0 THEN 0 ELSE gap

(* All events of a trace or a span are counted for one card, although the   *)
(* SDK fills the span's data meanwhile; but a handoff learns where it goes  *)
(* only on its way.                                                         *)
OneCardPerSpan ==
  \A i \in Item : \A e, f \in Received(i) :
    /\ e.trace_id = f.trace_id
    /\ Card(e) = Card(f) \/ NormalizedSpanType(e) = "handoff"

\* No two identifiers have the same first 12 characters, and no span without an
\* id goes by what a span with one is told by.
IdentifiersAreClear ==
  /\ \A a, b \in DOMAIN ShortOf : ShortOf[a] = ShortOf[b] => a = b
  /\ \A e, f \in {event \in Events : IsSpanEvent(event)} :
       e.span_id # None /\ f.span_id = None => SpanName(f) \notin {e.span_id, ShortOf[e.span_id]}

(* A viewer's graph has the cards, parents, traces and sessions of a        *)
(* developer's under other names, however the identifiers are cut, provided *)
(* that they can still be told apart.                                       *)
RolesDrawTheSame ==
  IdentifiersAreClear => \A e, f \in Events :
    LET v == ToClientPayload(e, "viewer")
        w == ToClientPayload(f, "viewer")
    IN
    /\ Card(v) = Card(w) <=> Card(e) = Card(f)
    /\ v.parent_span_id = w.span_id <=> e.parent_span_id = f.span_id
    /\ v.trace_id = w.trace_id <=> e.trace_id = f.trace_id
    /\ v.session_id = w.session_id <=> e.session_id = f.session_id
=============================================================================
