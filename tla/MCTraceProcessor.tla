------------------------- MODULE MCTraceProcessor -------------------------
(* Model-checking instance of TraceProcessor.                              *)
EXTENDS TraceProcessor, TLC

CONSTANTS t1, s1, s2, t1Short, s1Short, s2Short, agentA, agentB, lookup, files, web, gpt, rule, main, talk, text

Same(data) == <<data, data>>
Turn(n) ==
  <<[type |-> "custom", name |-> "turn",
     data |-> [sdk_span_type |-> "turn", turn |-> n, agent_name |-> agentA]],
    [type |-> "custom", name |-> "turn",
     data |-> [sdk_span_type |-> "turn", turn |-> n, agent_name |-> agentA, usage |-> text]]>>

\* Span data as the SDK exports it at the start and at the end of a span.
MCFillings == {
  <<[type |-> "agent", name |-> agentA],
    [type |-> "agent", name |-> agentA, tools |-> <<lookup>>, handoffs |-> <<agentB>>]>>,
  Same([type |-> "agent", name |-> Blank]),
  Same([type |-> "function", name |-> lookup]),
  Same([type |-> "mcp_tools", server |-> files]),
  Same([type |-> "mcp_tools", server |-> web]),
  Same([type |-> "generation", model |-> gpt]),
  Same([type |-> "response"]),
  <<[type |-> "guardrail", name |-> rule, triggered |-> FALSE],
    [type |-> "guardrail", name |-> rule, triggered |-> TRUE]>>,
  <<[type |-> "handoff", from_agent |-> agentA],
    [type |-> "handoff", from_agent |-> agentA, to_agent |-> agentB]>>,
  Turn(1), Turn(2),
  Same([type |-> "custom", name |-> "task", data |-> [name |-> main]]),
  Same([type |-> "custom", name |-> talk])}

MCTraceData == {[name |-> main, metadata |-> [thread_id |-> talk], group_id |-> None]}

\* Messages of other publishers: spans of another process, a card by node_id, no
\* status or timestamp, a span without an id, odd values.
MCForeign == {
  [event_type |-> "span_start", span_id |-> s2, span_type |-> "mcp_tools", trace_id |-> t1,
   parent_span_id |-> s1, timestamp |-> 0, metadata |-> [server |-> web, team |-> main]],
  [event_type |-> "span_start", span_id |-> s2, node_id |-> files, session_id |-> talk,
   timestamp |-> 0],
  [event_type |-> "trace_end", status |-> "finished", metadata |-> [workflow_name |-> main]],
  [event_type |-> "span_end", timestamp |-> 1, metadata |-> [name |-> talk]],
  [event_type |-> "trace_end", duration_ms |-> -1]}

MCShortOf == t1 :> t1Short @@ s1 :> s1Short @@ s2 :> s2Short
=============================================================================
