------------------------- MODULE EventNormalization -------------------------
(***************************************************************************)
(* The pure functions of dashboard_service/events.py: what the service     *)
(* makes of a published message (event_from_mapping) and what a client of  *)
(* each role is sent of it (to_client_payload).                            *)
(*                                                                         *)
(* Texts are opaque.  None stands for a missing value and for the empty    *)
(* text, which the code treats alike (falsy, or stripped to None); Blank   *)
(* is a text of white space, which is true but is stripped to None.  A     *)
(* mapping is a function from the keys it has; metadata that is no mapping *)
(* counts as missing.  The event's id, which is made up, its summary and its detail  *)
(* are left out.                                                           *)
(***************************************************************************)
EXTENDS Integers

CONSTANTS
  None,
  Blank,
  ShortOf  \* the first 12 characters of every identifier

EventType == {"trace_start", "trace_end", "span_start", "span_end", "error", "status"}
EventStatus == {"active", "success", "error", "idle", "unknown"}
Role == {"viewer", "developer"}

ASSUME NoneAssumption == None \notin EventType \cup EventStatus
ASSUME ShortOfAssumption == \A id \in DOMAIN ShortOf : None \notin {id, ShortOf[id]}

Empty == [key \in {} |-> None]

\* mapping.get(key)
Get(mapping, key) == IF key \in DOMAIN mapping THEN mapping[key] ELSE None

\* `value or default` of Python, `value ?? default` of JavaScript on clean texts
Or(value, default) == IF value = None THEN default ELSE value

\* _string and _optional_string
Clean(value) == IF value = Blank THEN None ELSE value

StatusFromEventType(type) ==
  CASE type \in {"trace_start", "span_start"} -> "active"
    [] type \in {"trace_end", "span_end"} -> "success"
    [] type = "error" -> "error"
    [] OTHER -> "unknown"

CoerceStatus(value) == IF value \in EventStatus THEN value ELSE "unknown"

(* The constraint of DashboardEvent a number can break: a payload that does *)
(* raises ValidationError.                                                  *)
Accepts(payload) == Get(payload, "duration_ms") \in {None} \cup Nat

\* A plausible bug: the status is always taken from the type of the event.
FromMappingByType(payload, now) ==
  LET type == Or(Get(payload, "event_type"), "status") IN
  [event_type |-> type,
   status |-> StatusFromEventType(type),
   timestamp |-> Or(Get(payload, "timestamp"), now),
   trace_id |-> Clean(Get(payload, "trace_id")),
   span_id |-> Clean(Get(payload, "span_id")),
   parent_span_id |-> Clean(Get(payload, "parent_span_id")),
   session_id |-> Clean(Get(payload, "session_id")),
   node_id |-> Clean(Get(payload, "node_id")),
   agent_id |-> Clean(Get(payload, "agent_id")),
   tool_name |-> Clean(Get(payload, "tool_name")),
   span_type |-> Clean(Get(payload, "span_type")),
   duration_ms |-> Get(payload, "duration_ms"),
   metadata |-> IF "metadata" \in DOMAIN payload THEN payload.metadata ELSE Empty]

(* event_from_mapping of a message that is read at time now.                *)
FromMapping(payload, now) ==
  LET type == Or(Get(payload, "event_type"), "status") IN
  [event_type |-> type,
   status |-> CoerceStatus(Or(Get(payload, "status"), StatusFromEventType(type))),
   timestamp |-> Or(Get(payload, "timestamp"), now),
   trace_id |-> Clean(Get(payload, "trace_id")),
   span_id |-> Clean(Get(payload, "span_id")),
   parent_span_id |-> Clean(Get(payload, "parent_span_id")),
   session_id |-> Clean(Get(payload, "session_id")),
   node_id |-> Clean(Get(payload, "node_id")),
   agent_id |-> Clean(Get(payload, "agent_id")),
   tool_name |-> Clean(Get(payload, "tool_name")),
   span_type |-> Clean(Get(payload, "span_type")),
   duration_ms |-> Get(payload, "duration_ms"),
   metadata |-> IF "metadata" \in DOMAIN payload THEN payload.metadata ELSE Empty]

ShortIdentifier(value) == IF value = None THEN None ELSE ShortOf[value]

\* The digest is taken to tell sessions apart.
Pseudonymize(value) == IF value = None THEN None ELSE <<"session", value>>

Keep(metadata, keys) == [key \in DOMAIN metadata \cap keys |-> metadata[key]]

\* A plausible bug: a key the graph reads is missing in the list of safe keys.
ViewerMetadataWithoutServer(metadata) ==
  Keep(metadata, {"workflow_name", "span_data_type", "name", "sdk_span_type", "task_name",
                  "turn", "agent_name", "from_agent", "to_agent", "model", "triggered",
                  "tools", "handoffs"})

ViewerMetadata(metadata) ==
  Keep(metadata, {"workflow_name", "span_data_type", "name", "sdk_span_type", "task_name",
                  "turn", "agent_name", "from_agent", "to_agent", "model", "server",
                  "triggered", "tools", "handoffs"})

(* DashboardEvent.to_client_payload.                                        *)
ToClientPayload(event, role) ==
  IF role = "developer" THEN event
  ELSE [event EXCEPT !.trace_id = ShortIdentifier(@), !.span_id = ShortIdentifier(@),
                     !.parent_span_id = ShortIdentifier(@),
                     !.session_id = Pseudonymize(@), !.metadata = ViewerMetadata(@)]
=============================================================================
