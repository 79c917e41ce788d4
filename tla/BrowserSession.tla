--------------------------- MODULE BrowserSession ---------------------------
(***************************************************************************)
(* One browser tab (dashboard_service/static/app.js, up to renderGraph):   *)
(* the stored token, the websocket it opens and replaces, the archive      *)
(* form, and the list of events that the graph and the feed are drawn      *)
(* from.                                                                   *)
(*                                                                         *)
(* A callback runs to its end before the next one, so an action is one     *)
(* callback: a listener of a form, a button or a websocket, or what follows*)
(* an await of fetch.  The service is the abstract ReplayThenLive, which   *)
(* EventFanout implements; between the two is a transport that may break   *)
(* at any time.  How a WebSocket object behaves is the browser's standard. *)
(***************************************************************************)
EXTENDS Integers, Sequences

CONSTANTS
  Tokens,         \* what a user may enter
  ViewerToken,    \* settings.viewer_token
  DeveloperToken, \* settings.developer_token, or NoToken
  NoToken,
  Filters,        \* searches of the archive form, as the sets of events they match
  MaxReplay,      \* settings.replay_buffer_size
  MaxShown,       \* the 100 of the message callback and the archive form
  MaxSockets,     \* bound of the model: websockets the tab opens
  MaxEvents,      \* bound of the model: events the service publishes
  MaxSearches     \* bound of the model: submissions of the archive form

Socket == 1 .. MaxSockets
Event == 1 .. MaxEvents

ASSUME TokensAssumption == NoToken \notin Tokens
ASSUME FiltersAssumption == Filters \subseteq SUBSET Event
ASSUME BoundsAssumption ==
  /\ {MaxSockets, MaxEvents, MaxSearches} \subseteq Nat
  /\ {MaxReplay, MaxShown} \subseteq Nat \ {0}

VARIABLES
  published,   \* the events the service has published (and archived)
  stream,      \* the frames it has sent to each websocket
  stored,      \* localStorage "dashboard-token"
  storedToken, \* the constant of that name, read when the page was loaded
  config,      \* state.config: "fetching" and "failed" stand for null
  sockets,     \* the websockets so far; state.socket is the last one
  delivered,   \* how many of its frames a websocket has handed to the page
  label,       \* the text of #connection-state
  list,        \* state.events
  drawn,       \* the events the graph shows
  feed,        \* the events the feed shows
  searches,    \* the requests of the archive form
  skipped      \* history: a list was received before there was a config

serviceVars == <<published, stream>>
viewVars == <<list, drawn, feed, skipped>>
vars == <<serviceVars, viewVars, stored, storedToken, config, sockets, delivered,
          label, searches>>

Service == INSTANCE ReplayThenLive WITH Clients <- Socket, MaxLen <- MaxReplay

\* ready is WebSocket.readyState, answer what the service said to the handshake.
Connection == [token : Tokens, ready : {"connecting", "open", "closing", "closed"},
               answer : {"none", "accepted", "refused"}]
Request == [matching : Filters, state : {"sent", "answered", "refused", "done"},
            rows : Seq(Event)]

current == Len(sockets)
Ready(c) == sockets[c].ready
IsUp(c) == Ready(c) \in {"connecting", "open"}

FirstOf(seq, n) == SubSeq(seq, 1, IF Len(seq) < n THEN Len(seq) ELSE n)

(* resolve_role, as the websocket endpoint and http_role call it.           *)
RoleOf(token) ==
  CASE token = NoToken -> "none"
    [] token # NoToken /\ token = DeveloperToken -> "developer"
    [] token # NoToken /\ token # DeveloperToken /\ token = ViewerToken -> "viewer"
    [] OTHER -> "none"

-----------------------------------------------------------------------------
(* The page was just loaded and waits for /api/config.                      *)
Init ==
  /\ Service!Init
  /\ stored \in Tokens \cup {NoToken}
  /\ storedToken = stored
  /\ config = "fetching"
  /\ sockets = <<>>
  /\ delivered = [c \in Socket |-> 0]
  /\ label = "Offline"
  /\ list = <<>>
  /\ drawn = <<>>
  /\ feed = <<>>
  /\ searches = <<>>
  /\ skipped = FALSE

-----------------------------------------------------------------------------
(* state.events = ..., renderGraph(), renderFeed().  Without a config       *)
(* renderConfiguredGraph raises TypeError and the callback ends there.      *)
Show(events) ==
  /\ list' = events
  /\ IF config = "loaded"
     THEN drawn' = events /\ feed' = events /\ skipped' = FALSE
     ELSE UNCHANGED <<drawn, feed>> /\ skipped' = TRUE

(* WebSocket.close() of websocket c: nothing if it is closing or closed.    *)
Closed(c) == [sockets EXCEPT ![c].ready = IF IsUp(c) THEN "closing" ELSE @]

Opening(token) == [token |-> token, ready |-> "connecting", answer |-> "none"]

(* A plausible bug: connect does not close the websocket it replaces.       *)
ConnectAnother(token) ==
  /\ current < MaxSockets
  /\ sockets' = Append(sockets, Opening(token))
  /\ label' = "Connecting"

(* connect(token).                                                          *)
Connect(token) ==
  /\ current < MaxSockets
  /\ sockets' = Append(IF current = 0 THEN sockets ELSE Closed(current), Opening(token))
  /\ label' = "Connecting"

(* The token form is submitted.                                             *)
Submit(token) ==
  /\ stored' = token
  /\ Connect(token)
  /\ UNCHANGED <<serviceVars, viewVars, storedToken, config, delivered, searches>>

(* A plausible bug: the button forgets the token and keeps the connection.  *)
ClearStored ==
  /\ stored' = NoToken
  /\ UNCHANGED <<serviceVars, viewVars, storedToken, config, sockets, delivered,
                 label, searches>>

(* The Reset button.                                                        *)
Clear ==
  /\ stored' = NoToken
  /\ sockets' = IF current = 0 THEN sockets ELSE Closed(current)
  /\ UNCHANGED <<serviceVars, viewVars, storedToken, config, delivered, label, searches>>

(* A plausible bug: boot leaves the drawing to the first message.           *)
BootedUndrawn ==
  /\ config = "fetching"
  /\ config' = "loaded"
  /\ IF storedToken = NoToken THEN UNCHANGED <<sockets, label>> ELSE Connect(storedToken)
  /\ UNCHANGED <<serviceVars, stored, storedToken, viewVars, delivered, searches>>

(* A plausible bug: boot connects without looking for a stored token.        *)
BootedAnyway ==
  /\ config = "fetching"
  /\ config' = "loaded"
  /\ drawn' = list
  /\ Connect(storedToken)
  /\ UNCHANGED <<serviceVars, stored, storedToken, list, feed, skipped, delivered, searches>>

(* boot() after its awaits: it draws the graph, not the feed, and connects  *)
(* with the token that was stored when the page was loaded.                 *)
Booted ==
  /\ config = "fetching"
  /\ config' = "loaded"
  /\ drawn' = list
  /\ IF storedToken = NoToken THEN UNCHANGED <<sockets, label>> ELSE Connect(storedToken)
  /\ UNCHANGED <<serviceVars, stored, storedToken, list, feed, skipped, delivered, searches>>

(* /api/config cannot be read: state.config stays null.                     *)
BootFails ==
  /\ config = "fetching"
  /\ config' = "failed"
  /\ UNCHANGED <<serviceVars, viewVars, stored, storedToken, sockets, delivered,
                 label, searches>>

-----------------------------------------------------------------------------
(* The handshake reaches the service: dashboard_socket accepts a token that *)
(* has a role and closes the connection otherwise.                          *)
Handshake(c) ==
  /\ Ready(c) # "closed"
  /\ sockets[c].answer = "none"
  /\ sockets' = [sockets EXCEPT ![c].answer =
                   IF RoleOf(sockets[c].token) = "none" THEN "refused" ELSE "accepted"]
  /\ UNCHANGED <<serviceVars, viewVars, stored, storedToken, config, delivered, label, searches>>

(* The service goes on.  Events are numbered as they are published; what is  *)
(* sent to a websocket that is not connected any more reaches nobody.       *)
ServiceStep ==
  /\ Service!Next
  /\ \A e \in published' : e = 1 \/ e - 1 \in published'
  /\ \A c \in Socket : stream'[c] # stream[c] =>
       c <= current /\ sockets[c].answer = "accepted" /\ IsUp(c)
  /\ UNCHANGED <<viewVars, stored, storedToken, config, sockets, delivered, label, searches>>

(* The listeners of websocket c, which need not be the current one.         *)
OpenEvent(c) ==
  /\ Ready(c) = "connecting"
  /\ sockets[c].answer = "accepted"
  /\ sockets' = [sockets EXCEPT ![c].ready = "open"]
  /\ label' = "Online"
  /\ UNCHANGED <<serviceVars, viewVars, stored, storedToken, config, delivered, searches>>

(* A plausible bug: no listener for a websocket that never opened.          *)
CloseEventIfOpened(c) ==
  /\ Ready(c) # "closed"
  /\ sockets' = [sockets EXCEPT ![c].ready = "closed"]
  /\ label' = IF Ready(c) = "connecting" THEN label ELSE "Offline"
  /\ UNCHANGED <<serviceVars, viewVars, stored, storedToken, config, delivered, searches>>

(* The service refused, the closing handshake is over, or the network broke *)
(* the connection.  If it failed an error event comes first, in one task.   *)
CloseEvent(c) ==
  /\ Ready(c) # "closed"
  /\ sockets' = [sockets EXCEPT ![c].ready = "closed"]
  /\ label' = "Offline"
  /\ UNCHANGED <<serviceVars, viewVars, stored, storedToken, config, delivered, searches>>

(* What the message listener makes of the list; a plausible bug: live events*)
(* are appended and the list is cut as before.                              *)
ReceivedAppending(frame) ==
  IF frame.type = "replay" THEN frame.events
  ELSE FirstOf(list \o frame.events, MaxShown)
Received(frame) ==
  IF frame.type = "replay" THEN frame.events
  ELSE FirstOf(frame.events \o list, MaxShown)

(* No message event comes after close() was called.                         *)
MessageEvent(c) ==
  /\ Ready(c) = "open"
  /\ delivered[c] < Len(stream[c])
  /\ delivered' = [delivered EXCEPT ![c] = @ + 1]
  /\ Show(Received(stream[c][delivered[c] + 1]))
  /\ UNCHANGED <<serviceVars, stored, storedToken, config, sockets, label, searches>>

-----------------------------------------------------------------------------
(* The archive form is submitted; currentToken is what the token field has, *)
(* else the stored token.  One without a role is going to be refused.       *)
Ask(typed, matching) ==
  LET token == IF typed # NoToken THEN typed ELSE stored IN
  /\ token # NoToken
  /\ Len(searches) < MaxSearches
  /\ searches' = Append(searches,
       [matching |-> matching, rows |-> <<>>,
        state |-> IF RoleOf(token) = "none" THEN "refused" ELSE "sent"])
  /\ UNCHANGED <<serviceVars, viewVars, stored, storedToken, config, sockets, delivered, label>>

(* rows lists the newest MaxShown of events, newest first.                  *)
IsNewestOf(events, rows) ==
  /\ \A i, j \in DOMAIN rows : i < j => rows[j] < rows[i]
  /\ \A i \in DOMAIN rows : rows[i] \in events
  /\ \A e \in events :
       \/ \E i \in DOMAIN rows : rows[i] = e
       \/ Len(rows) = MaxShown /\ \A i \in DOMAIN rows : e < rows[i]

(* /api/events/search answers.                                              *)
Answer(k) ==
  /\ searches[k].state = "sent"
  /\ \E n \in 0 .. MaxShown : \E rows \in [1 .. n -> Event] :
       /\ IsNewestOf(published \cap searches[k].matching, rows)
       /\ searches' = [searches EXCEPT ![k].state = "answered", ![k].rows = rows]
  /\ UNCHANGED <<serviceVars, viewVars, stored, storedToken, config, sockets, delivered, label>>

(* ... with an error, because the store failed.                             *)
AnswerError(k) ==
  /\ searches[k].state = "sent"
  /\ searches' = [searches EXCEPT ![k].state = "refused"]
  /\ UNCHANGED <<serviceVars, viewVars, stored, storedToken, config, sockets, delivered, label>>

(* The answer arrives, after those of later requests if it is slow.         *)
Arrive(k) ==
  /\ searches[k].state = "answered"
  /\ searches' = [searches EXCEPT ![k].state = "done", ![k].rows = <<>>]
  /\ Show(searches[k].rows)
  /\ UNCHANGED <<serviceVars, stored, storedToken, config, sockets, delivered, label>>

ArriveError(k) ==
  /\ searches[k].state = "refused"
  /\ searches' = [searches EXCEPT ![k].state = "done"]
  /\ label' = "Archive error"
  /\ UNCHANGED <<serviceVars, viewVars, stored, storedToken, config, sockets, delivered>>

-----------------------------------------------------------------------------
UserStep ==
  \/ Clear
  \/ \E token \in Tokens : Submit(token)
  \/ \E typed \in Tokens \cup {NoToken}, matching \in Filters : Ask(typed, matching)

TransportStep(c) == Handshake(c) \/ OpenEvent(c) \/ CloseEvent(c)

Next ==
  \/ UserStep
  \/ Booted
  \/ BootFails
  \/ ServiceStep
  \/ \E c \in 1 .. current : TransportStep(c) \/ MessageEvent(c)
  \/ \E k \in DOMAIN searches : Answer(k) \/ AnswerError(k) \/ Arrive(k) \/ ArriveError(k)

(* A handshake and a close come to an end: a browser gives up on one that   *)
(* gets no answer.                                                          *)
Fairness == \A c \in Socket :
  WF_vars(c <= current /\ Ready(c) \in {"connecting", "closing"} /\ TransportStep(c))

Spec == Init /\ [][Next]_vars
FairSpec == Spec /\ Fairness

-----------------------------------------------------------------------------
(* Types.                                                                   *)
TypeOK ==
  /\ published \subseteq Event
  /\ stream \in [Socket -> Seq([type : {"replay", "event"}, events : Seq(Event)])]
  /\ stored \in Tokens \cup {NoToken}
  /\ storedToken \in Tokens \cup {NoToken}
  /\ config \in {"fetching", "loaded", "failed"}
  /\ sockets \in Seq(Connection) /\ Len(sockets) <= MaxSockets
  /\ delivered \in [Socket -> Nat]
  /\ \A c \in Socket : delivered[c] <= Len(stream[c])
  /\ label \in {"Offline", "Connecting", "Online", "Archive error"}
  /\ {list, drawn, feed} \subseteq Seq(Event)
  /\ searches \in Seq(Request)
  /\ skipped \in BOOLEAN

(* However often the token form is used, one websocket at most is opening or*)
(* open: the current one, with the token that is stored or, against what the*)
(* user did since, the one that was stored when the page was loaded.        *)
OneWantedSocket ==
  \A c \in 1 .. current : IsUp(c) => c = current /\ sockets[c].token \in {stored, storedToken}

(* "Online" and "Connecting" are about the current websocket, whichever     *)
(* listeners of replaced ones still run; "Offline" is at least about one    *)
(* that is closed.                                                          *)
LabelTellsSocket ==
  /\ label = "Online" => current > 0 /\ Ready(current) \in {"open", "closing"}
  /\ label = "Connecting" => current > 0 /\ Ready(current) \in {"connecting", "closing"}
  /\ label = "Offline" => current = 0 \/ \E c \in 1 .. current : Ready(c) = "closed"

\* The live events websocket c has handed to the page, in order.
LiveOf(c) == {stream[c][i].events[1] : i \in 2 .. delivered[c]}
ReplayedTo(c) == {stream[c][1].events[i] : i \in DOMAIN stream[c][1].events}
Listed == {list[i] : i \in DOMAIN list}

(* Until the archive form is used the list is what the current websocket    *)
(* delivered, each event once, whatever earlier websockets were sent; it is *)
(* complete while there is room, and live events are the last to go.        *)
ShownAsSent ==
  searches = <<>> /\ current > 0 /\ delivered[current] > 0 =>
    /\ \A i, j \in DOMAIN list : list[i] = list[j] => i = j
    /\ Listed \subseteq LiveOf(current) \cup ReplayedTo(current)
    /\ \/ LiveOf(current) \subseteq Listed
       \/ Listed \subseteq LiveOf(current) /\ Len(list) = MaxShown
    /\ ReplayedTo(current) \subseteq Listed \/ Len(list) = MaxShown

(* Once the config is there, graph and feed show the list, except that a    *)
(* list received before is not yet in the feed.                             *)
BothViewsAgree ==
  config = "loaded" => drawn = list /\ (feed = list \/ skipped)

(* An attempt to connect comes to an end that the label shows.              *)
ConnectingEnds == []<>(label # "Connecting")

(* docs/live-testing.md: "Connection state shows `Online`".  At least it    *)
(* does not show "Offline" while the websocket is open.                     *)
OpenIsNotOffline ==
  current > 0 /\ Ready(current) = "open" => label # "Offline"
=============================================================================
