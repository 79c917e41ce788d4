------------------------ MODULE BrowserSessionProofs ------------------------
(***************************************************************************)
(* TLAPS proofs about BrowserSession, for any number of websockets, events *)
(* and searches, any tokens and any limits.                                *)
(***************************************************************************)
EXTENDS BrowserSession, SequenceTheorems, TLAPS

ReadyState == {"connecting", "open", "closing", "closed"}
Label == {"Offline", "Connecting", "Online", "Archive error"}

SessionOK ==
  /\ stored \in Tokens \cup {NoToken}
  /\ storedToken \in Tokens \cup {NoToken}
  /\ config \in {"fetching", "loaded", "failed"}
  /\ sockets \in Seq(Connection)
  /\ Len(sockets) <= MaxSockets
  /\ label \in Label

ViewsOK ==
  /\ skipped \in BOOLEAN
  /\ feed = list \/ skipped
  /\ BothViewsAgree

SocketInv == SessionOK /\ OneWantedSocket /\ LabelTellsSocket

-----------------------------------------------------------------------------
(* What happens to the sequence of websockets.                              *)
With(p, q, c, r) ==
  /\ p \in Seq(Connection) /\ Len(p) = Len(q)
  /\ \A d \in 1 .. Len(q) : /\ p[d].token = q[d].token
                            /\ p[d].ready = IF d = c THEN r ELSE q[d].ready

LEMMA SetReady ==
  ASSUME NEW q \in Seq(Connection), NEW c \in 1 .. Len(q), NEW r \in ReadyState
  PROVE  With([q EXCEPT ![c].ready = r], q, c, r)
<1> DEFINE p == [q EXCEPT ![c].ready = r]
<1>1. q[c] \in Connection
  OBVIOUS
<1>2. [q[c] EXCEPT !.ready = r] \in Connection
  BY <1>1 DEF Connection, ReadyState
<1>3. p = [q EXCEPT ![c] = [q[c] EXCEPT !.ready = r]]
  OBVIOUS
<1>4. p \in Seq(Connection) /\ Len(p) = Len(q)
  BY <1>2, <1>3
<1>5. \A d \in 1 .. Len(q) : p[d] = IF d = c THEN [q[c] EXCEPT !.ready = r] ELSE q[d]
  BY <1>3
<1>6. /\ [q[c] EXCEPT !.ready = r].token = q[c].token
      /\ [q[c] EXCEPT !.ready = r].ready = r
  BY <1>1 DEF Connection
<1>7. With(p, q, c, r)
  BY <1>4, <1>5, <1>6 DEF With
<1>8. QED
  BY <1>7

LEMMA AddSocket ==
  ASSUME NEW q \in Seq(Connection), NEW token \in Tokens, NEW p,
         p = Append(q, Opening(token))
  PROVE  /\ p \in Seq(Connection) /\ Len(p) = Len(q) + 1
         /\ \A d \in 1 .. Len(q) : p[d] = q[d]
         /\ p[Len(q) + 1].token = token /\ p[Len(q) + 1].ready = "connecting"
<1>1. Opening(token) \in Connection
  BY DEF Opening, Connection
<1>2. Opening(token).token = token /\ Opening(token).ready = "connecting"
  BY DEF Opening
<1>3. QED
  BY <1>1, <1>2

(* Closing the current websocket leaves none that is opening or open.       *)
LEMMA CloseCurrent ==
  ASSUME SocketInv, NEW p, p = IF current = 0 THEN sockets ELSE Closed(current)
  PROVE  /\ p \in Seq(Connection) /\ Len(p) = Len(sockets)
         /\ \A d \in 1 .. Len(sockets) :
              /\ p[d].ready \in {"closing", "closed"}
              /\ p[d].ready = "closed" <=> sockets[d].ready = "closed"
<1>1. sockets \in Seq(Connection) /\ Len(sockets) \in Nat /\ current = Len(sockets)
  BY DEF SocketInv, SessionOK, current
<1>2. \A d \in 1 .. Len(sockets) : /\ sockets[d].ready \in ReadyState
                                   /\ d # current => ~ IsUp(d)
  <2> TAKE d \in 1 .. Len(sockets)
  <2>1. sockets[d] \in Connection
    BY <1>1
  <2>2. sockets[d].ready \in ReadyState
    BY <2>1 DEF Connection, ReadyState
  <2>3. d # current => ~ IsUp(d)
    BY <1>1 DEF SocketInv, OneWantedSocket
  <2>4. QED
    BY <2>2, <2>3
<1>3. CASE current = 0
  <2>1. p = sockets
    BY <1>3
  <2>2. \A d \in 1 .. Len(sockets) : FALSE
    BY <1>1, <1>3
  <2>3. QED
    BY <1>1, <2>1, <2>2
<1>4. CASE current # 0
  <2>1. current \in 1 .. Len(sockets)
    BY <1>1, <1>4
  <2>2. PICK r \in ReadyState : r = IF IsUp(current) THEN "closing" ELSE sockets[current].ready
    BY <1>2, <2>1 DEF ReadyState
  <2>3. p = [sockets EXCEPT ![current].ready = r]
    BY <1>4, <2>2 DEF Closed, Ready
  <2>4. /\ p \in Seq(Connection) /\ Len(p) = Len(sockets)
        /\ \A d \in 1 .. Len(sockets) :
             p[d].ready = IF d = current THEN r ELSE sockets[d].ready
    <3>1. With([sockets EXCEPT ![current].ready = r], sockets, current, r)
      BY <1>1, <2>1, SetReady, Zenon
    <3>2. QED
      BY <2>3, <3>1 DEF With
  <2>5. QED
    BY <1>1, <1>2, <2>2, <2>1, <2>4 DEF IsUp, Ready, ReadyState
<1>5. QED
  BY <1>3, <1>4

(* connect(token), when the token is the stored one or that of the page.    *)
LEMMA ConnectKeeps ==
  ASSUME SocketInv, NEW token \in Tokens, Connect(token),
         storedToken' = storedToken, token \in {stored', storedToken},
         stored' \in Tokens \cup {NoToken}, config' \in {"fetching", "loaded", "failed"}
  PROVE  SocketInv'
<1> DEFINE p == IF current = 0 THEN sockets ELSE Closed(current)
<1>1. /\ p \in Seq(Connection) /\ Len(p) = Len(sockets)
      /\ \A d \in 1 .. Len(sockets) : p[d].ready \in {"closing", "closed"}
  BY CloseCurrent
<1> HIDE DEF p
<1>2. sockets' = Append(p, Opening(token)) /\ label' = "Connecting"
  BY DEF Connect, p
<1>3. /\ sockets' \in Seq(Connection) /\ Len(sockets') = Len(p) + 1
      /\ \A d \in 1 .. Len(p) : sockets'[d] = p[d]
      /\ sockets'[Len(p) + 1].token = token /\ sockets'[Len(p) + 1].ready = "connecting"
  BY <1>1, <1>2, AddSocket
<1>4. Len(sockets) \in Nat /\ Len(sockets) < MaxSockets /\ MaxSockets \in Nat
  BY BoundsAssumption DEF SocketInv, SessionOK, Connect, current
<1>5. SessionOK'
  <2>1. Len(sockets') = Len(sockets) + 1
    BY <1>1, <1>3
  <2>2. Len(sockets') <= MaxSockets
    BY <1>4, <2>1
  <2>3. storedToken' \in Tokens \cup {NoToken} /\ label' \in Label
    BY <1>2 DEF SessionOK, SocketInv, Label
  <2>4. QED
    BY <1>3, <2>2, <2>3 DEF SessionOK
<1>6. OneWantedSocket'
  <2> SUFFICES ASSUME NEW c \in 1 .. current', IsUp(c)'
               PROVE  c = current' /\ sockets'[c].token \in {stored', storedToken'}
    BY DEF OneWantedSocket
  <2>1. current' = Len(p) + 1 /\ Len(p) \in Nat
    BY <1>1, <1>3, <1>4 DEF current
  <2>2. c = Len(p) + 1
    BY <2>1, <1>1, <1>3 DEF IsUp, Ready
  <2>3. QED
    BY <2>1, <2>2, <1>3
<1>7. LabelTellsSocket'
  BY <1>1, <1>2, <1>3, <1>4 DEF LabelTellsSocket, Ready, current
<1>8. QED
  BY <1>5, <1>6, <1>7 DEF SocketInv

LEMMA ClearKeeps ==
  ASSUME SocketInv, Clear
  PROVE  SocketInv'
<1>1. /\ sockets' \in Seq(Connection) /\ Len(sockets') = Len(sockets)
      /\ \A d \in 1 .. Len(sockets) :
           /\ sockets'[d].ready \in {"closing", "closed"}
           /\ sockets'[d].ready = "closed" <=> sockets[d].ready = "closed"
  BY CloseCurrent DEF Clear
<1>2. /\ stored' = NoToken /\ storedToken' = storedToken /\ config' = config /\ label' = label
      /\ current' = current /\ current = Len(sockets)
  BY <1>1 DEF Clear, current
<1>3. SessionOK'
  BY <1>1, <1>2 DEF SessionOK, SocketInv
<1>4. OneWantedSocket'
  BY <1>1, <1>2 DEF OneWantedSocket, IsUp, Ready
<1>5. LabelTellsSocket'
  <2>1. current \in Nat
    BY <1>2 DEF SocketInv, SessionOK
  <2>2. current > 0 => current \in 1 .. Len(sockets)
    BY <1>2, <2>1
  <2>3. QED
    BY <1>1, <1>2, <2>1, <2>2 DEF SocketInv, LabelTellsSocket, Ready
<1>6. QED
  BY <1>3, <1>4, <1>5 DEF SocketInv

(* A websocket opens or closes.                                             *)
LEMMA EventKeeps ==
  ASSUME SocketInv, NEW c \in 1 .. current, OpenEvent(c) \/ CloseEvent(c)
  PROVE  SocketInv'
<1>1. /\ sockets \in Seq(Connection) /\ current = Len(sockets) /\ Len(sockets) \in Nat
      /\ c \in 1 .. Len(sockets)
  BY DEF SocketInv, SessionOK, current
<1>2. /\ stored' = stored /\ storedToken' = storedToken /\ config' = config
  BY DEF OpenEvent, CloseEvent
<1>3. PICK r \in {"open", "closed"} :
        /\ sockets' = [sockets EXCEPT ![c].ready = r]
        /\ r = "open" => Ready(c) = "connecting" /\ label' = "Online"
        /\ r = "closed" => label' = "Offline"
  BY DEF OpenEvent, CloseEvent
<1>4. /\ sockets' \in Seq(Connection) /\ Len(sockets') = Len(sockets)
      /\ \A d \in 1 .. Len(sockets) :
           /\ sockets'[d].token = sockets[d].token
           /\ sockets'[d].ready = IF d = c THEN r ELSE sockets[d].ready
  <2>1. r \in ReadyState
    BY DEF ReadyState
  <2>2. With([sockets EXCEPT ![c].ready = r], sockets, c, r)
    BY <1>1, <2>1, SetReady, Zenon
  <2>3. QED
    BY <1>3, <2>2 DEF With
<1>5. current' = current
  BY <1>4 DEF current
<1>6. SessionOK'
  BY <1>2, <1>3, <1>4 DEF SocketInv, SessionOK, Label
<1>7. r = "open" => c = current
  BY <1>3 DEF SocketInv, OneWantedSocket, IsUp
<1>8. OneWantedSocket'
  <2> SUFFICES ASSUME NEW d \in 1 .. Len(sockets), IsUp(d)'
               PROVE  d = current /\ sockets'[d].token \in {stored, storedToken}
    BY <1>1, <1>2, <1>5 DEF OneWantedSocket
  <2>1. IsUp(d)
    BY <1>3, <1>4 DEF IsUp, Ready
  <2>2. QED
    BY <2>1, <1>1, <1>4 DEF SocketInv, OneWantedSocket
<1>9. LabelTellsSocket'
  BY <1>1, <1>3, <1>4, <1>5, <1>7 DEF LabelTellsSocket, Ready
<1>10. QED
  BY <1>6, <1>8, <1>9 DEF SocketInv

(* The service answers a handshake.                                         *)
LEMMA HandshakeKeeps ==
  ASSUME SocketInv, NEW c \in 1 .. current, Handshake(c)
  PROVE  SocketInv'
<1>1. /\ sockets \in Seq(Connection) /\ current = Len(sockets) /\ c \in 1 .. Len(sockets)
  BY DEF SocketInv, SessionOK, current
<1>2. PICK a \in {"accepted", "refused"} : sockets' = [sockets EXCEPT ![c].answer = a]
  BY DEF Handshake
<1>3. sockets[c] \in Connection
  BY <1>1
<1>4. /\ [sockets[c] EXCEPT !.answer = a] \in Connection
      /\ [sockets[c] EXCEPT !.answer = a].token = sockets[c].token
      /\ [sockets[c] EXCEPT !.answer = a].ready = sockets[c].ready
  BY <1>3 DEF Connection
<1>5. sockets' = [sockets EXCEPT ![c] = [sockets[c] EXCEPT !.answer = a]]
  BY <1>2
<1>6. /\ sockets' \in Seq(Connection) /\ Len(sockets') = Len(sockets)
      /\ \A d \in 1 .. Len(sockets) : /\ sockets'[d].token = sockets[d].token
                                      /\ sockets'[d].ready = sockets[d].ready
  BY <1>1, <1>4, <1>5
<1>7. /\ stored' = stored /\ storedToken' = storedToken /\ config' = config /\ label' = label
      /\ current' = current
  BY <1>6 DEF Handshake, current
<1>8. SessionOK'
  BY <1>6, <1>7 DEF SocketInv, SessionOK
<1>9. OneWantedSocket'
  BY <1>1, <1>6, <1>7 DEF SocketInv, OneWantedSocket, IsUp, Ready
<1>10. LabelTellsSocket'
  <2>1. current > 0 => current \in 1 .. Len(sockets)
    BY <1>1
  <2>2. QED
    BY <1>1, <1>6, <1>7, <2>1 DEF SocketInv, LabelTellsSocket, Ready
<1>11. QED
  BY <1>8, <1>9, <1>10 DEF SocketInv

(* Steps that leave the websockets alone, and the error of a search, whose  *)
(* label says nothing about them.                                           *)
LEMMA OtherKeeps ==
  ASSUME SocketInv, UNCHANGED <<stored, storedToken, sockets>>,
         config' \in {"fetching", "loaded", "failed"}, label' \in {label, "Archive error"}
  PROVE  SocketInv'
<1>1. SessionOK'
  BY DEF SocketInv, SessionOK, Label
<1>2. OneWantedSocket'
  BY DEF SocketInv, OneWantedSocket, IsUp, Ready, current
<1>3. LabelTellsSocket'
  BY DEF SocketInv, LabelTellsSocket, Ready, current
<1>4. QED
  BY <1>1, <1>2, <1>3 DEF SocketInv

-----------------------------------------------------------------------------
(* The service, the lists and the searches.                                 *)
Frame == [type : {"replay", "event"}, events : Seq(Event)]

StreamsOK ==
  /\ published \subseteq Event
  /\ stream \in [Socket -> Seq(Frame)]
  /\ delivered \in [Socket -> Nat]
  /\ \A c \in Socket : delivered[c] <= Len(stream[c])

ListsOK == {list, drawn, feed} \subseteq Seq(Event)

DataInv == StreamsOK /\ ListsOK /\ searches \in Seq(Request)

LEMMA FirstOfType ==
  ASSUME NEW q \in Seq(Event), NEW n \in Nat
  PROVE  FirstOf(q, n) \in Seq(Event)
<1> DEFINE m == IF Len(q) < n THEN Len(q) ELSE n
<1>1. m \in Nat /\ m <= Len(q)
  OBVIOUS
<1>2. \A i \in 1 .. m : q[i] \in Event
  <2> TAKE i \in 1 .. m
  <2>1. i \in 1 .. Len(q)
    BY <1>1
  <2>2. QED
    BY <2>1, ElementOfSeq
<1> HIDE DEF m
<1>3. SubSeq(q, 1, m) \in Seq(Event)
  BY <1>1, <1>2
<1>4. QED
  BY <1>3 DEF FirstOf, m

LEMMA ReceivedType ==
  ASSUME ListsOK, NEW frame \in Frame
  PROVE  Received(frame) \in Seq(Event)
<1>1. frame.events \in Seq(Event) /\ list \in Seq(Event)
  BY DEF Frame, ListsOK
<1>2. frame.events \o list \in Seq(Event)
  BY <1>1, ConcatProperties
<1>3. MaxShown \in Nat
  BY BoundsAssumption
<1>4. QED
  BY <1>1, <1>2, <1>3, FirstOfType DEF Received

LEMMA ShowKeeps ==
  ASSUME ListsOK, NEW events \in Seq(Event), Show(events)
  PROVE  ListsOK'
BY DEF ListsOK, Show

(* A frame more for one websocket.                                          *)
LEMMA FrameKeeps ==
  ASSUME StreamsOK, NEW c \in Socket, NEW frame \in Frame,
         \/ stream' = [stream EXCEPT ![c] = Append(@, frame)]
         \/ stream[c] = <<>> /\ stream' = [stream EXCEPT ![c] = <<frame>>],
         published' \subseteq Event, delivered' = delivered
  PROVE  StreamsOK'
<1>1. stream[c] \in Seq(Frame)
  BY DEF StreamsOK
<1>2. PICK q \in Seq(Frame) : /\ Len(stream[c]) <= Len(q)
                             /\ stream' = [stream EXCEPT ![c] = q]
  <2>1. CASE stream' = [stream EXCEPT ![c] = Append(@, frame)]
    <3>1. Append(stream[c], frame) \in Seq(Frame) /\ Len(stream[c]) <= Len(Append(stream[c], frame))
      BY <1>1
    <3>2. QED
      BY <2>1, <3>1
  <2>2. CASE stream[c] = <<>> /\ stream' = [stream EXCEPT ![c] = <<frame>>]
    <3>1. <<frame>> \in Seq(Frame) /\ Len(stream[c]) <= Len(<<frame>>)
      BY <2>2
    <3>2. QED
      BY <2>2, <3>1
  <2>3. QED
    BY <2>1, <2>2
<1>3. stream' \in [Socket -> Seq(Frame)]
  BY <1>2 DEF StreamsOK
<1>4. \A d \in Socket : delivered'[d] <= Len(stream'[d])
  <2> TAKE d \in Socket
  <2>1. delivered[d] \in Nat /\ delivered[d] <= Len(stream[d]) /\ Len(stream[d]) \in Nat
    BY DEF StreamsOK
  <2>2. Len(stream[d]) <= Len(stream'[d])
    BY <1>2, <2>1 DEF StreamsOK
  <2>3. Len(stream'[d]) \in Nat
    BY <1>3
  <2>4. QED
    BY <2>1, <2>2, <2>3
<1>5. QED
  BY <1>3, <1>4 DEF StreamsOK

LEMMA ServiceKeeps ==
  ASSUME StreamsOK, Service!Next, delivered' = delivered
  PROVE  StreamsOK'
<1>1. Service!Event = Event
  BY DEF Service!Event, Event
<1>2. \A e \in Event : Service!Live(e) \in Frame
  BY DEF Service!Live, Frame
<1>3. CASE \E e \in Service!Event : Service!Publish(e)
  <2>1. PICK e \in Event : Service!Publish(e)
    BY <1>1, <1>3
  <2>2. published' \subseteq Event
    BY <2>1 DEF Service!Publish, StreamsOK
  <2>3. CASE UNCHANGED stream
    BY <2>2, <2>3 DEF StreamsOK
  <2>4. CASE \E c \in Socket : stream' = [stream EXCEPT ![c] = Append(@, Service!Live(e))]
    BY <1>2, <2>2, <2>4, FrameKeeps
  <2>5. QED
    BY <2>1, <2>3, <2>4 DEF Service!Publish
<1>4. CASE \E c \in Socket : Service!Join(c)
  <2>1. PICK c \in Socket : Service!Join(c)
    BY <1>4
  <2>2. PICK n \in 0 .. MaxReplay :
          \E replay \in [1 .. n -> Event] :
            stream' = [stream EXCEPT ![c] = <<[type |-> "replay", events |-> replay]>>]
    BY <1>1, <2>1 DEF Service!Join
  <2>3. PICK replay \in [1 .. n -> Event] :
          stream' = [stream EXCEPT ![c] = <<[type |-> "replay", events |-> replay]>>]
    BY <2>2
  <2>4. n \in Nat
    BY BoundsAssumption
  <2>5. replay \in Seq(Event)
    BY <2>4
  <2>6. [type |-> "replay", events |-> replay] \in Frame
    BY <2>5 DEF Frame
  <2>7. stream[c] = <<>> /\ published' \subseteq Event
    BY <2>1 DEF Service!Join, StreamsOK
  <2>8. QED
    BY <2>3, <2>6, <2>7, FrameKeeps
<1>5. CASE \E c \in Socket : \E e \in Service!Event : Service!Show(c, e)
  <2>1. PICK c \in Socket, e \in Event : Service!Show(c, e)
    BY <1>1, <1>5
  <2>2. /\ stream' = [stream EXCEPT ![c] = Append(@, Service!Live(e))]
        /\ published' \subseteq Event
    BY <2>1 DEF Service!Show, StreamsOK
  <2>3. QED
    BY <1>2, <2>2, FrameKeeps
<1>6. QED
  BY <1>3, <1>4, <1>5 DEF Service!Next

(* Requests of the archive form.                                            *)
LEMMA AskKeeps ==
  ASSUME DataInv, NEW typed, NEW matching \in Filters, Ask(typed, matching)
  PROVE  searches' \in Seq(Request)
<1>1. PICK state \in {"sent", "refused"} :
        searches' = Append(searches, [matching |-> matching, rows |-> <<>>, state |-> state])
  BY DEF Ask
<1>2. [matching |-> matching, rows |-> <<>>, state |-> state] \in Request
  BY DEF Request
<1>3. QED
  BY <1>1, <1>2 DEF DataInv

LEMMA RequestKeeps ==
  ASSUME DataInv, NEW k \in DOMAIN searches, NEW rows \in Seq(Event),
         NEW state \in {"sent", "answered", "refused", "done"}
  PROVE  /\ [searches EXCEPT ![k].state = state] \in Seq(Request)
         /\ [searches EXCEPT ![k].state = state, ![k].rows = rows] \in Seq(Request)
<1>1. searches \in Seq(Request) /\ k \in 1 .. Len(searches) /\ searches[k] \in Request
  BY DEF DataInv
<1>2. /\ [searches[k] EXCEPT !.state = state] \in Request
      /\ [searches[k] EXCEPT !.state = state, !.rows = rows] \in Request
  BY <1>1 DEF Request
<1>3. /\ [searches EXCEPT ![k].state = state]
           = [searches EXCEPT ![k] = [searches[k] EXCEPT !.state = state]]
      /\ [searches EXCEPT ![k].state = state, ![k].rows = rows]
           = [searches EXCEPT ![k] = [searches[k] EXCEPT !.state = state, !.rows = rows]]
  BY <1>1
<1>4. QED
  BY <1>1, <1>2, <1>3

-----------------------------------------------------------------------------
(* All of it is an invariant.                                               *)
IInv == SocketInv /\ ViewsOK /\ DataInv

LEMMA InitHolds == Init => IInv
<1> SUFFICES ASSUME Init PROVE IInv
  OBVIOUS
<1>1. SocketInv
  <2>1. Len(sockets) = 0 /\ MaxSockets \in Nat
    BY BoundsAssumption DEF Init
  <2>2. QED
    BY <2>1 DEF Init, SocketInv, SessionOK, Label, OneWantedSocket, LabelTellsSocket, current
<1>2. ViewsOK
  BY DEF Init, ViewsOK, BothViewsAgree
<1>3. DataInv
  <2>1. /\ stream = [c \in Socket |-> <<>>]
        /\ \E n \in 0 .. MaxReplay : n <= MaxEvents /\ published = 1 .. n
    BY DEF Init, Service!Init
  <2>2. PICK n \in 0 .. MaxReplay : n <= MaxEvents /\ published = 1 .. n
    BY <2>1
  <2>3. MaxReplay \in Nat /\ MaxEvents \in Nat
    BY BoundsAssumption
  <2>4. \A x \in 1 .. n : x \in 1 .. MaxEvents
    BY <2>2, <2>3
  <2>5. published \subseteq Event
    BY <2>2, <2>4 DEF Event
  <2>6. StreamsOK
    BY <2>1, <2>5 DEF Init, StreamsOK
  <2>7. QED
    BY <2>6 DEF Init, DataInv, ListsOK
<1>4. QED
  BY <1>1, <1>2, <1>3 DEF IInv

LEMMA DataUnchanged ==
  ASSUME DataInv, UNCHANGED <<published, stream, delivered, searches>>, ListsOK'
  PROVE  DataInv'
BY DEF DataInv, StreamsOK

LEMMA NextKeeps == IInv /\ [Next]_vars => IInv'
<1> SUFFICES ASSUME IInv, [Next]_vars PROVE IInv'
  OBVIOUS
<1> USE DEF viewVars, serviceVars
<1>1. SocketInv /\ ViewsOK /\ DataInv /\ ListsOK /\ StreamsOK /\ searches \in Seq(Request)
  BY DEF IInv, DataInv
<1>2. ASSUME NEW token \in Tokens, Submit(token) PROVE IInv'
  <2>1. SocketInv'
    <3>1. stored' \in Tokens \cup {NoToken} /\ config' \in {"fetching", "loaded", "failed"}
      BY <1>1, <1>2 DEF Submit, SocketInv, SessionOK
    <3>2. QED
      BY <1>1, <1>2, <3>1, ConnectKeeps DEF Submit
  <2>2. ViewsOK' /\ ListsOK'
    BY <1>1, <1>2 DEF Submit, ViewsOK, BothViewsAgree, ListsOK
  <2>3. DataInv'
    BY <1>1, <1>2, <2>2, DataUnchanged DEF Submit
  <2>4. QED
    BY <2>1, <2>2, <2>3 DEF IInv
<1>3. CASE Clear
  <2>1. ViewsOK' /\ ListsOK'
    BY <1>1, <1>3 DEF Clear, ViewsOK, BothViewsAgree, ListsOK
  <2>2. QED
    BY <1>1, <1>3, <2>1, ClearKeeps, DataUnchanged DEF Clear, IInv
<1>4. CASE Booted
  <2>1. SocketInv'
    <3>1. CASE storedToken = NoToken
      BY <1>1, <1>4, <3>1, OtherKeeps DEF Booted
    <3>2. CASE storedToken # NoToken
      <4>1. storedToken \in Tokens /\ stored' \in Tokens \cup {NoToken}
        BY <1>1, <1>4, <3>2 DEF Booted, SocketInv, SessionOK
      <4>2. QED
        BY <1>1, <1>4, <3>2, <4>1, ConnectKeeps DEF Booted
    <3>3. QED
      BY <3>1, <3>2
  <2>2. ViewsOK' /\ ListsOK'
    BY <1>1, <1>4 DEF Booted, ViewsOK, BothViewsAgree, ListsOK
  <2>3. QED
    BY <1>1, <1>4, <2>1, <2>2, DataUnchanged DEF Booted, IInv
<1>5. CASE BootFails
  <2>1. ViewsOK' /\ ListsOK'
    BY <1>1, <1>5 DEF BootFails, ViewsOK, BothViewsAgree, ListsOK
  <2>2. QED
    BY <1>1, <1>5, <2>1, OtherKeeps, DataUnchanged DEF BootFails, IInv
<1>6. CASE ServiceStep
  <2>1. SocketInv'
    BY <1>1, <1>6, OtherKeeps DEF ServiceStep, SocketInv, SessionOK
  <2>2. ViewsOK' /\ ListsOK'
    BY <1>1, <1>6 DEF ServiceStep, ViewsOK, BothViewsAgree, ListsOK
  <2>3. StreamsOK'
    BY <1>1, <1>6, ServiceKeeps DEF ServiceStep
  <2>4. QED
    BY <1>1, <1>6, <2>1, <2>2, <2>3 DEF ServiceStep, DataInv, IInv
<1>7. ASSUME NEW c \in 1 .. current, TransportStep(c) PROVE IInv'
  <2>1. SocketInv'
    BY <1>1, <1>7, HandshakeKeeps, EventKeeps DEF TransportStep
  <2>2. ViewsOK' /\ ListsOK' /\ UNCHANGED <<published, stream, delivered, searches>>
    BY <1>1, <1>7
    DEF TransportStep, Handshake, OpenEvent, CloseEvent, ViewsOK, BothViewsAgree, ListsOK
  <2>3. QED
    BY <1>1, <2>1, <2>2, DataUnchanged DEF IInv
<1>8. ASSUME NEW events \in Seq(Event), Show(events), config' = config PROVE ViewsOK' /\ ListsOK'
  BY <1>1, <1>8, ShowKeeps DEF Show, ViewsOK, BothViewsAgree
<1>9. ASSUME NEW c \in 1 .. current, MessageEvent(c) PROVE IInv'
  <2>1. c \in Socket /\ delivered[c] \in Nat /\ stream[c] \in Seq(Frame)
    <3>1. current \in Nat /\ current <= MaxSockets /\ MaxSockets \in Nat
      BY <1>1, BoundsAssumption DEF SocketInv, SessionOK, current
    <3>2. QED
      BY <1>1, <1>9, <3>1 DEF Socket, StreamsOK
  <2>2. delivered[c] + 1 \in 1 .. Len(stream[c])
    BY <1>9, <2>1 DEF MessageEvent
  <2>3. Received(stream[c][delivered[c] + 1]) \in Seq(Event)
    BY <1>1, <2>1, <2>2, ReceivedType
  <2>4. ViewsOK' /\ ListsOK'
    BY <1>8, <1>9, <2>3 DEF MessageEvent
  <2>5. StreamsOK'
    BY <1>1, <1>9, <2>1, <2>2 DEF MessageEvent, StreamsOK
  <2>6. SocketInv'
    BY <1>1, <1>9, OtherKeeps DEF MessageEvent, SocketInv, SessionOK
  <2>7. QED
    BY <1>1, <1>9, <2>4, <2>5, <2>6 DEF MessageEvent, DataInv, IInv
<1>10. ASSUME NEW typed, NEW matching \in Filters, Ask(typed, matching) PROVE IInv'
  <2>1. SocketInv' /\ ViewsOK' /\ ListsOK'
    BY <1>1, <1>10, OtherKeeps
    DEF Ask, SocketInv, SessionOK, ViewsOK, BothViewsAgree, ListsOK
  <2>2. StreamsOK' /\ searches' \in Seq(Request)
    BY <1>1, <1>10, AskKeeps DEF Ask, StreamsOK
  <2>3. QED
    BY <2>1, <2>2 DEF DataInv, IInv
<1>11. ASSUME NEW k \in DOMAIN searches, Answer(k) PROVE IInv'
  <2>1. PICK n \in 0 .. MaxShown :
          \E rows \in [1 .. n -> Event] :
            searches' = [searches EXCEPT ![k].state = "answered", ![k].rows = rows]
    BY <1>11 DEF Answer
  <2>2. PICK rows \in [1 .. n -> Event] :
          searches' = [searches EXCEPT ![k].state = "answered", ![k].rows = rows]
    BY <2>1
  <2>3. rows \in Seq(Event)
    BY BoundsAssumption
  <2>4. searches' \in Seq(Request)
    BY <1>1, <2>2, <2>3, RequestKeeps
  <2>5. SocketInv' /\ ViewsOK' /\ ListsOK' /\ StreamsOK'
    BY <1>1, <1>11, OtherKeeps
    DEF Answer, SocketInv, SessionOK, ViewsOK, BothViewsAgree, ListsOK, StreamsOK
  <2>6. QED
    BY <2>4, <2>5 DEF DataInv, IInv
<1>12. ASSUME NEW k \in DOMAIN searches, AnswerError(k) \/ ArriveError(k) PROVE IInv'
  <2>1. searches' \in Seq(Request)
    BY <1>1, <1>12, RequestKeeps, EmptySeq DEF AnswerError, ArriveError
  <2>2. SocketInv' /\ ViewsOK' /\ ListsOK' /\ StreamsOK'
    BY <1>1, <1>12, OtherKeeps
    DEF AnswerError, ArriveError, SocketInv, SessionOK, ViewsOK, BothViewsAgree, ListsOK, StreamsOK
  <2>3. QED
    BY <2>1, <2>2 DEF DataInv, IInv
<1>13. ASSUME NEW k \in DOMAIN searches, Arrive(k) PROVE IInv'
  <2>1. searches[k] \in Request
    BY <1>1
  <2>2. searches[k].rows \in Seq(Event)
    BY <2>1 DEF Request
  <2>3. ViewsOK' /\ ListsOK'
    BY <1>8, <1>13, <2>2 DEF Arrive
  <2>4. <<>> \in Seq(Event)
    OBVIOUS
  <2>5. searches' \in Seq(Request)
    BY <1>1, <1>13, <2>4, RequestKeeps DEF Arrive
  <2>6. SocketInv' /\ StreamsOK'
    BY <1>1, <1>13, OtherKeeps DEF Arrive, SocketInv, SessionOK, StreamsOK
  <2>7. QED
    BY <2>3, <2>5, <2>6 DEF DataInv, IInv
<1>14. CASE UNCHANGED vars
  <2>1. SocketInv'
    BY <1>1, <1>14, OtherKeeps DEF vars, SocketInv, SessionOK
  <2>2. ViewsOK' /\ ListsOK'
    BY <1>1, <1>14 DEF vars, ViewsOK, BothViewsAgree, ListsOK
  <2>3. QED
    BY <1>1, <1>14, <2>1, <2>2, DataUnchanged DEF vars, IInv
<1>15. QED
  BY <1>2, <1>3, <1>4, <1>5, <1>6, <1>7, <1>9, <1>10, <1>11, <1>12, <1>13, <1>14
  DEF Next, UserStep

LEMMA Invariance == Spec => []IInv
<1>1. QED
  BY InitHolds, NextKeeps, PTL DEF Spec

-----------------------------------------------------------------------------
(* What a websocket is sent: a replay without doubles, then live events,    *)
(* each of them new to it.                                                  *)
Fresh(frames) ==
  /\ frames # <<>> => /\ frames[1].type = "replay"
                      /\ \A i, j \in DOMAIN frames[1].events :
                           i < j => frames[1].events[i] # frames[1].events[j]
  /\ \A i \in 2 .. Len(frames) :
       /\ frames[i].type = "event" /\ frames[i].events = <<frames[i].events[1]>>
       /\ \A j \in 1 .. i - 1 : \A k \in DOMAIN frames[j].events :
            frames[j].events[k] # frames[i].events[1]
StreamsFresh ==
  \A c \in Socket : Fresh(stream[c]) /\ (c > current => delivered[c] = 0)

(* ShownAsSent, of a list and what its websocket delivered, and in which    *)
(* order: live events are listed before those of the replay.                *)
InList(q) == {q[i] : i \in DOMAIN q}
Shows(q, live, replayed) ==
  /\ \A i, j \in DOMAIN q : q[i] = q[j] => i = j
  /\ InList(q) \subseteq live \cup replayed
  /\ live \subseteq InList(q) \/ (InList(q) \subseteq live /\ Len(q) = MaxShown)
  /\ replayed \subseteq InList(q) \/ Len(q) = MaxShown
  /\ \A i, j \in DOMAIN q : i < j /\ q[j] \in live => q[i] \in live
ListShows ==
  searches = <<>> /\ current > 0 /\ delivered[current] > 0 =>
    Shows(list, LiveOf(current), ReplayedTo(current))

ShownInv == StreamsFresh /\ ListShows

LEMMA FreshAppend ==
  ASSUME NEW q \in Seq(Frame), q # <<>>, Fresh(q), NEW e \in Event,
         \A j \in DOMAIN q : \A k \in DOMAIN q[j].events : q[j].events[k] # e
  PROVE  Fresh(Append(q, Service!Live(e)))
<1> DEFINE n == Len(q)
           frame == Service!Live(e)
           p == Append(q, frame)
<1>1. /\ frame.type = "event" /\ frame.events = <<e>> /\ frame.events[1] = e
      /\ frame.events = <<frame.events[1]>> /\ frame \in Frame
  BY DEF Service!Live, Frame
<1> HIDE DEF frame
<1>2. /\ n \in Nat /\ n >= 1 /\ DOMAIN q = 1 .. n /\ Len(p) = n + 1 /\ p # <<>>
      /\ p[n + 1] = frame /\ \A i \in 1 .. n : p[i] = q[i]
  BY <1>1
<1> HIDE DEF n, p
<1>3. /\ p[1].type = "replay"
      /\ \A i, j \in DOMAIN p[1].events : i < j => p[1].events[i] # p[1].events[j]
  <2>1. p[1] = q[1]
    BY <1>2
  <2>2. QED
    BY <2>1 DEF Fresh
<1>4. ASSUME NEW i \in 2 .. n + 1
      PROVE  /\ p[i].type = "event" /\ p[i].events = <<p[i].events[1]>>
             /\ \A j \in 1 .. i - 1 : \A k \in DOMAIN p[j].events : p[j].events[k] # p[i].events[1]
  <2>1. \A j \in 1 .. i - 1 : j \in 1 .. n /\ p[j] = q[j]
    BY <1>2
  <2>2. CASE i = n + 1
    BY <1>1, <1>2, <2>1, <2>2
  <2>3. CASE i # n + 1
    <3>1. i \in 2 .. n /\ p[i] = q[i]
      BY <1>2, <2>3
    <3>2. QED
      BY <2>1, <3>1 DEF Fresh, n
  <2>4. QED
    BY <2>2, <2>3
<1>5. QED
  BY <1>2, <1>3, <1>4 DEF Fresh, p, frame

(* A step of the service continues one stream at most, with something new.  *)
Continues(c, q) ==
  /\ q \in Seq(Frame) /\ Fresh(q) /\ Len(stream[c]) <= Len(q)
  /\ \A i \in 1 .. Len(stream[c]) : q[i] = stream[c][i]
  /\ stream' = [stream EXCEPT ![c] = q]

LEMMA NewsContinues ==
  ASSUME StreamsOK, StreamsFresh, NEW c \in Socket, NEW e \in Event, Service!IsNews(c, e),
         stream' = [stream EXCEPT ![c] = Append(@, Service!Live(e))]
  PROVE  Continues(c, Append(stream[c], Service!Live(e)))
<1>1. stream[c] \in Seq(Frame) /\ stream[c] # <<>> /\ Fresh(stream[c])
  BY DEF StreamsOK, StreamsFresh, Service!IsNews
<1>2. ASSUME NEW j \in DOMAIN stream[c], NEW k \in DOMAIN stream[c][j].events
      PROVE  stream[c][j].events[k] # e
  <2>1. stream[c][j].events[k] \in Service!Elements(stream[c][j].events)
    BY DEF Service!Elements
  <2>2. stream[c][j].events[k] \in Service!Shown(c)
    BY <2>1 DEF Service!Shown
  <2>3. QED
    BY <2>2 DEF Service!IsNews
<1>3. Service!Live(e) \in Frame
  BY DEF Service!Live, Frame
<1> DEFINE q == Append(stream[c], Service!Live(e))
<1>4. Fresh(q)
  BY <1>1, <1>2, FreshAppend
<1>5. /\ q \in Seq(Frame) /\ Len(stream[c]) <= Len(q)
      /\ \A i \in 1 .. Len(stream[c]) : q[i] = stream[c][i]
  BY <1>1, <1>3
<1>6. QED
  BY <1>4, <1>5 DEF Continues

LEMMA ServiceContinues ==
  ASSUME StreamsOK, StreamsFresh, Service!Next
  PROVE  UNCHANGED stream \/ \E c \in Socket : \E q : Continues(c, q)
<1>1. Service!Event = Event
  BY DEF Service!Event, Event
<1>2. CASE \E e \in Service!Event : Service!Publish(e)
  BY <1>1, <1>2, NewsContinues DEF Service!Publish
<1>3. CASE \E c \in Socket : \E e \in Service!Event : Service!Show(c, e)
  BY <1>1, <1>3, NewsContinues DEF Service!Show
<1>4. CASE \E c \in Socket : Service!Join(c)
  <2>1. PICK c \in Socket : Service!Join(c)
    BY <1>4
  <2>2. PICK n \in 0 .. MaxReplay :
          \E replay \in [1 .. n -> Event] :
            /\ Service!IsNewest(replay)
            /\ stream' = [stream EXCEPT ![c] = <<[type |-> "replay", events |-> replay]>>]
    BY <1>1, <2>1 DEF Service!Join
  <2>3. PICK replay \in [1 .. n -> Event] :
            /\ Service!IsNewest(replay)
            /\ stream' = [stream EXCEPT ![c] = <<[type |-> "replay", events |-> replay]>>]
    BY <2>2
  <2> DEFINE frame == [type |-> "replay", events |-> replay]
             q == <<frame>>
  <2>4. n \in Nat
    BY BoundsAssumption
  <2>5. replay \in Seq(Event) /\ DOMAIN replay = 1 .. n
    BY <2>4
  <2>6. \A i, j \in 1 .. n : i < j => replay[i] # replay[j]
    <3>1. \A i, j \in 1 .. n : i < j => replay[i] < replay[j]
      BY <2>3, <2>5 DEF Service!IsNewest
    <3>2. \A i \in 1 .. n : replay[i] \in Int
      BY <2>3 DEF Event
    <3>3. QED
      BY <3>1, <3>2
  <2>7. frame \in Frame /\ frame.type = "replay" /\ frame.events = replay
    BY <2>5 DEF Frame
  <2>8. q \in Seq(Frame) /\ Len(q) = 1 /\ q[1] = frame
    BY <2>7
  <2>9. stream[c] = <<>> /\ Len(stream[c]) = 0
    BY <2>1 DEF Service!Join
  <2>10. stream' = [stream EXCEPT ![c] = q]
    BY <2>3
  <2> HIDE DEF q, frame
  <2>11. Fresh(q)
    BY <2>5, <2>6, <2>7, <2>8 DEF Fresh
  <2>12. Continues(c, q)
    BY <2>8, <2>9, <2>10, <2>11 DEF Continues
  <2>13. QED
    BY <2>12
<1>5. QED
  BY <1>2, <1>3, <1>4 DEF Service!Next

(* A live event in front of a list that shows what came before.             *)
LEMMA LiveShows ==
  ASSUME NEW q \in Seq(Event), NEW live, NEW replayed, Shows(q, live, replayed),
         NEW e \in Event, e \notin live, e \notin replayed
  PROVE  Shows(FirstOf(<<e>> \o q, MaxShown), live \cup {e}, replayed)
<1> DEFINE n == Len(q)
           p == FirstOf(<<e>> \o q, MaxShown)
<1>1. MaxShown \in Nat /\ MaxShown >= 1
  BY BoundsAssumption
<1>2. PICK m \in Nat : m = IF n + 1 < MaxShown THEN n + 1 ELSE MaxShown
  BY <1>1
<1>3. /\ <<e>> \o q \in Seq(Event) /\ Len(<<e>> \o q) = n + 1
      /\ (<<e>> \o q)[1] = e /\ \A k \in 2 .. n + 1 : (<<e>> \o q)[k] = q[k - 1]
  OBVIOUS
<1>4. n \in Nat /\ DOMAIN q = 1 .. n /\ m >= 1 /\ m <= n + 1 /\ m <= MaxShown
  BY <1>1, <1>2
<1>5. p = SubSeq(<<e>> \o q, 1, m)
  BY <1>2, <1>3 DEF FirstOf
<1> HIDE DEF n, p
<1>6. /\ DOMAIN p = 1 .. m /\ Len(p) = m /\ p[1] = e
      /\ \A k \in 2 .. m : p[k] = q[k - 1]
  BY <1>3, <1>4, <1>5
<1>7. \A k \in 2 .. m : k - 1 \in 1 .. n /\ q[k - 1] \in InList(q) /\ q[k - 1] # e
  BY <1>4 DEF Shows, InList
<1>8. /\ e \in InList(p) /\ \A i \in 1 .. m - 1 : q[i] \in InList(p)
      /\ \A x \in InList(p) : x = e \/ \E k \in 2 .. m : x = q[k - 1]
  <2>1. 1 \in DOMAIN p
    BY <1>4, <1>6
  <2>2. ASSUME NEW i \in 1 .. m - 1 PROVE i + 1 \in DOMAIN p /\ p[i + 1] = q[i]
    <3>1. i + 1 \in 2 .. m /\ i + 1 - 1 = i
      BY <1>4
    <3>2. p[i + 1] = q[i + 1 - 1]
      BY <1>6, <3>1
    <3>3. QED
      BY <1>4, <1>6, <3>1, <3>2
  <2>3. \A x \in InList(p) : \E k \in 1 .. m : x = p[k]
    BY <1>6 DEF InList
  <2>4. \A k \in 1 .. m : k = 1 \/ k \in 2 .. m
    BY <1>4
  <2>5. e \in InList(p) /\ \A i \in 1 .. m - 1 : q[i] \in InList(p)
    BY <1>6, <2>1, <2>2 DEF InList
  <2>6. QED
    BY <1>6, <2>3, <2>4, <2>5
<1>9. \A i, j \in DOMAIN p : p[i] = p[j] => i = j
  <2> SUFFICES ASSUME NEW i \in 1 .. m, NEW j \in 1 .. m, p[i] = p[j], i < j PROVE FALSE
    BY <1>4, <1>6
  <2>1. j \in 2 .. m /\ p[j] = q[j - 1] /\ q[j - 1] # e /\ j - 1 \in 1 .. n
    BY <1>4, <1>6, <1>7
  <2>2. i \in 2 .. m /\ p[i] = q[i - 1] /\ i - 1 \in 1 .. n
    BY <1>4, <1>6, <1>7, <2>1
  <2>3. i - 1 # j - 1
    BY <2>1, <2>2
  <2>4. QED
    BY <1>4, <2>1, <2>2, <2>3 DEF Shows
<1>10. InList(p) \subseteq (live \cup {e}) \cup replayed
  BY <1>7, <1>8 DEF Shows
<1>11. \A i, j \in DOMAIN p : i < j /\ p[j] \in live \cup {e} => p[i] \in live \cup {e}
  <2> SUFFICES ASSUME NEW i \in 1 .. m, NEW j \in 1 .. m, i < j, p[j] \in live \cup {e}, i # 1
               PROVE  p[i] \in live
    BY <1>6
  <2>1. i \in 2 .. m /\ j \in 2 .. m /\ i - 1 < j - 1
    OBVIOUS
  <2>2. p[i] = q[i - 1] /\ p[j] = q[j - 1] /\ q[j - 1] # e
    BY <1>6, <1>7, <2>1
  <2>3. QED
    BY <1>4, <1>7, <2>1, <2>2 DEF Shows
<1>12. CASE m = n + 1
  <2>1. \A k \in 1 .. n : q[k] \in InList(p)
    BY <1>4, <1>8, <1>12
  <2>2. InList(q) \subseteq InList(p) /\ e \in InList(p)
    BY <1>4, <1>8, <2>1 DEF InList
  <2>3. Len(q) # MaxShown
    <3>1. n # MaxShown
      BY <1>1, <1>4, <1>12
    <3>2. QED
      BY <3>1 DEF n
  <2>4. live \subseteq InList(q) /\ replayed \subseteq InList(q)
    BY <2>3 DEF Shows
  <2>5. QED
    BY <1>9, <1>10, <1>11, <2>2, <2>4 DEF Shows, p
<1>13. CASE m # n + 1
  <2>1. Len(p) = MaxShown
    BY <1>2, <1>6, <1>13
  <2>2. ASSUME NEW x \in InList(p), x \notin live \cup {e}
        PROVE  live \cup {e} \subseteq InList(p)
    <3>1. PICK k \in 2 .. m : x = q[k - 1]
      BY <1>8, <2>2
    <3>2. live \subseteq InList(q)
      BY <1>7, <2>2, <3>1 DEF Shows
    <3>3. ASSUME NEW y \in live PROVE y \in InList(p)
      <4>1. PICK i \in 1 .. n : y = q[i]
        BY <1>4, <3>2, <3>3 DEF InList
      <4>2. ~ (k - 1 < i)
        BY <1>4, <1>7, <2>2, <3>1, <3>3, <4>1 DEF Shows
      <4>3. i # k - 1
        BY <2>2, <3>1, <3>3, <4>1
      <4>4. i \in 1 .. m - 1
        BY <1>4, <4>2, <4>3
      <4>5. QED
        BY <1>8, <4>1, <4>4
    <3>4. QED
      BY <1>8, <3>3
  <2>3. live \cup {e} \subseteq InList(p) \/ InList(p) \subseteq live \cup {e}
    BY <2>2
  <2>4. QED
    BY <1>9, <1>10, <1>11, <2>1, <2>3 DEF Shows, p
<1>14. QED
  BY <1>12, <1>13

LEMMA FreshKept ==
  ASSUME UNCHANGED stream, NEW d
  PROVE  Fresh(stream[d]) => Fresh(stream[d])'
<1>1. PICK q : q = stream[d]
  OBVIOUS
<1>2. stream'[d] = q
  BY <1>1
<1>3. Fresh(q) => Fresh(stream[d])'
  BY <1>2 DEF Fresh
<1>4. QED
  BY <1>1, <1>3

LEMMA ShownInit == Init => ShownInv
<1> SUFFICES ASSUME Init PROVE ShownInv
  OBVIOUS
<1>1. sockets = <<>> /\ stream = [c \in Socket |-> <<>>] /\ delivered = [c \in Socket |-> 0]
  BY DEF Init, Service!Init
<1>2. current = 0
  BY <1>1 DEF current
<1>3. Fresh(<<>>)
  BY DEF Fresh
<1>4. StreamsFresh
  BY <1>1, <1>3 DEF StreamsFresh
<1>5. ListShows
  BY <1>2 DEF ListShows
<1>6. QED
  BY <1>4, <1>5 DEF ShownInv

(* Steps that neither send, deliver nor list, and the answer to a search.   *)
LEMMA QuietShows ==
  ASSUME ShownInv, UNCHANGED <<stream, delivered, current>>,
         searches' = <<>> => searches = <<>> /\ list' = list
  PROVE  ShownInv'
<1>1. \A d \in Socket : Fresh(stream[d])'
  BY FreshKept, Zenon DEF ShownInv, StreamsFresh
<1>2. StreamsFresh'
  BY <1>1 DEF ShownInv, StreamsFresh
<1>3. LiveOf(current)' = LiveOf(current) /\ ReplayedTo(current)' = ReplayedTo(current)
  BY DEF LiveOf, ReplayedTo
<1>4. ListShows'
  BY <1>3 DEF ShownInv, ListShows, Shows, InList
<1>5. QED
  BY <1>2, <1>4 DEF ShownInv

LEMMA ConnectShows ==
  ASSUME IInv, ShownInv, NEW token \in Tokens, Connect(token),
         UNCHANGED <<stream, delivered>>
  PROVE  ShownInv'
<1> DEFINE p == IF current = 0 THEN sockets ELSE Closed(current)
<1>1. p \in Seq(Connection) /\ Len(p) = Len(sockets)
  BY CloseCurrent DEF IInv
<1> HIDE DEF p
<1>2. sockets' = Append(p, Opening(token))
  BY DEF Connect, p
<1>3. Len(sockets') = Len(p) + 1
  BY <1>1, <1>2, AddSocket
<1>4. current' = current + 1 /\ current \in Nat /\ current < MaxSockets
  BY <1>1, <1>3 DEF IInv, SocketInv, SessionOK, current, Connect
<1>5. current' \in Socket /\ current' > current
  BY <1>4, BoundsAssumption DEF Socket
<1>6. \A c \in Socket : c > current' => c > current
  BY <1>4 DEF Socket
<1>7. StreamsFresh'
  <2>1. \A d \in Socket : Fresh(stream[d])'
    BY FreshKept, Zenon DEF ShownInv, StreamsFresh
  <2>2. QED
    BY <1>6, <2>1 DEF ShownInv, StreamsFresh
<1>8. delivered[current'] = 0
  BY <1>5 DEF ShownInv, StreamsFresh
<1>9. ListShows'
  BY <1>8 DEF ListShows
<1>10. QED
  BY <1>7, <1>9 DEF ShownInv

(* What the service sends changes nothing until it is delivered.            *)
LEMMA ServiceShows ==
  ASSUME IInv, ShownInv, ServiceStep
  PROVE  ShownInv'
<1>1. /\ UNCHANGED <<delivered, sockets, searches, list>> /\ Service!Next
      /\ StreamsOK /\ StreamsFresh /\ current' = current
  BY DEF ServiceStep, viewVars, IInv, DataInv, ShownInv, current
<1>2. CASE UNCHANGED stream
  BY <1>1, <1>2, QuietShows
<1>3. ASSUME NEW c \in Socket, NEW q, Continues(c, q) PROVE ShownInv'
  <2>1. /\ q \in Seq(Frame) /\ Fresh(q) /\ Len(stream[c]) <= Len(q)
        /\ \A i \in 1 .. Len(stream[c]) : q[i] = stream[c][i]
        /\ stream' = [stream EXCEPT ![c] = q]
    BY <1>3 DEF Continues
  <2>2. /\ stream' \in [Socket -> Seq(Frame)]
        /\ \A d \in Socket : stream'[d] = IF d = c THEN q ELSE stream[d]
    BY <1>1, <2>1 DEF StreamsOK
  <2>3. \A d \in Socket : Fresh(stream'[d])
    BY <1>1, <2>1, <2>2 DEF StreamsFresh
  <2>4. StreamsFresh'
    BY <1>1, <2>3 DEF StreamsFresh, Fresh
  <2>5. ASSUME searches = <<>>, current > 0, delivered[current] > 0
        PROVE  LiveOf(current)' = LiveOf(current) /\ ReplayedTo(current)' = ReplayedTo(current)
    <3>1. PICK d \in Socket : d = current
      BY <2>5, BoundsAssumption DEF IInv, SocketInv, SessionOK, Socket, current
    <3>2. PICK n \in Nat : n = delivered[d] /\ n >= 1 /\ n <= Len(stream[d])
      BY <1>1, <2>5, <3>1 DEF StreamsOK
    <3>3. stream[d] \in Seq(Frame)
      BY <1>1 DEF StreamsOK
    <3>4. \A i \in 1 .. n : stream'[d][i] = stream[d][i]
      BY <2>1, <2>2, <3>2, <3>3
    <3>5. LiveOf(current)' = {stream'[d][i].events[1] : i \in 2 .. n}
      BY <1>1, <3>1, <3>2 DEF LiveOf
    <3>6. LiveOf(current) = {stream[d][i].events[1] : i \in 2 .. n}
      BY <3>1, <3>2 DEF LiveOf
    <3>7. stream'[d][1] = stream[d][1]
      BY <3>2, <3>4
    <3>8. ReplayedTo(current)' = ReplayedTo(current)
      BY <1>1, <3>1, <3>7 DEF ReplayedTo
    <3>9. \A i \in 2 .. n : stream'[d][i] = stream[d][i]
      BY <3>2, <3>4
    <3>10. QED
      BY <3>5, <3>6, <3>8, <3>9
  <2>6. ListShows'
    BY <1>1, <2>5 DEF ShownInv, ListShows, Shows, InList
  <2>7. QED
    BY <2>4, <2>6 DEF ShownInv
<1>4. QED
  BY <1>1, <1>2, <1>3, ServiceContinues

(* A message: of the current websocket, as no other can be open.            *)
LEMMA MessageShows ==
  ASSUME IInv, ShownInv, NEW c \in 1 .. current, MessageEvent(c)
  PROVE  ShownInv'
<1>1. /\ StreamsOK /\ StreamsFresh /\ list \in Seq(Event) /\ current \in Nat
      /\ current <= MaxSockets /\ MaxSockets \in Nat
  BY BoundsAssumption
  DEF IInv, DataInv, ShownInv, ListsOK, SocketInv, SessionOK, current
<1>2. c = current /\ c \in Socket
  <2>1. IsUp(c)
    BY DEF MessageEvent, IsUp
  <2>2. c = current
    BY <2>1 DEF IInv, SocketInv, OneWantedSocket
  <2>3. QED
    BY <1>1, <2>2 DEF Socket
<1>3. PICK frames \in Seq(Frame), n \in Nat : frames = stream[c] /\ n = delivered[c]
  BY <1>1, <1>2 DEF StreamsOK
<1>4. /\ n < Len(frames) /\ delivered' = [delivered EXCEPT ![c] = n + 1]
      /\ list' = Received(frames[n + 1]) /\ UNCHANGED <<stream, searches, sockets>>
  BY <1>3 DEF MessageEvent, Show, serviceVars
<1>5. delivered'[c] = n + 1 /\ current' = current
  BY <1>1, <1>2, <1>4 DEF StreamsOK, current
<1>6. Fresh(frames) /\ n + 1 \in 1 .. Len(frames) /\ frames # <<>>
  BY <1>1, <1>2, <1>3, <1>4 DEF StreamsFresh
<1>7. frames[n + 1] \in Frame /\ frames[1] \in Frame
  BY <1>3, <1>6
<1>8. StreamsFresh'
  <2>1. \A d \in Socket : d > current' => d # c /\ delivered'[d] = delivered[d]
    BY <1>1, <1>2, <1>4, <1>5 DEF StreamsOK
  <2>2. \A d \in Socket : d > current' => delivered'[d] = 0
    BY <1>1, <1>5, <2>1 DEF StreamsFresh
  <2>3. \A d \in Socket : Fresh(stream[d])'
    BY <1>1, <1>4, FreshKept, Zenon DEF StreamsFresh
  <2>4. QED
    BY <2>2, <2>3 DEF StreamsFresh
<1>9. /\ LiveOf(current)' = {frames[i].events[1] : i \in 2 .. n + 1}
      /\ LiveOf(current) = {frames[i].events[1] : i \in 2 .. n}
  BY <1>2, <1>3, <1>4, <1>5 DEF LiveOf
<1>10. /\ ReplayedTo(current)' = ReplayedTo(current)
       /\ ReplayedTo(current) = InList(frames[1].events)
  BY <1>2, <1>3, <1>4, <1>5 DEF ReplayedTo, InList
<1>11. CASE n = 0
  <2>1. list' = frames[1].events /\ list' \in Seq(Event)
    BY <1>4, <1>6, <1>7, <1>11 DEF Received, Fresh, Frame
  <2>2. LiveOf(current)' = {}
    BY <1>9, <1>11
  <2>3. \A i, j \in DOMAIN list' : i < j => list'[i] # list'[j]
    BY <1>6, <2>1 DEF Fresh
  <2>4. \A i, j \in DOMAIN list' : list'[i] = list'[j] => i = j
    BY <2>1, <2>3
  <2>5. ReplayedTo(current)' = InList(list')
    BY <1>10, <2>1
  <2>6. Shows(list', {}, InList(list'))
    BY <2>4 DEF Shows
  <2>7. ListShows'
    BY <2>2, <2>5, <2>6 DEF ListShows, Shows, InList
  <2>8. QED
    BY <1>8, <2>7 DEF ShownInv
<1>12. CASE n # 0
  <2>1. n + 1 \in 2 .. Len(frames) /\ n >= 1
    BY <1>3, <1>6, <1>12
  <2>2. PICK e : e = frames[n + 1].events[1]
    OBVIOUS
  <2>3. /\ frames[n + 1].type = "event" /\ frames[n + 1].events = <<e>>
        /\ \A j \in 1 .. n : \A k \in DOMAIN frames[j].events : frames[j].events[k] # e
    BY <1>6, <2>1, <2>2 DEF Fresh
  <2>4. e \in Event
    <3>1. <<e>> \in Seq(Event)
      BY <1>7, <2>3 DEF Frame
    <3>2. QED
      BY <3>1
  <2>5. list' = FirstOf(<<e>> \o list, MaxShown)
    BY <1>4, <2>3 DEF Received
  <2>6. e \notin ReplayedTo(current)
    BY <1>10, <2>1, <2>3 DEF InList
  <2>7. e \notin LiveOf(current)
    <3> SUFFICES ASSUME NEW i \in 2 .. n PROVE frames[i].events[1] # e
      BY <1>9
    <3>1. i \in 2 .. Len(frames) /\ i \in 1 .. n
      BY <1>4
    <3>2. PICK x : frames[i].events = <<x>>
      BY <1>6, <3>1 DEF Fresh
    <3>3. 1 \in DOMAIN frames[i].events
      BY <3>2
    <3>4. QED
      BY <2>3, <3>1, <3>3
  <2>8. LiveOf(current)' = LiveOf(current) \cup {e}
    <3>1. 2 .. n + 1 = 2 .. n \cup {n + 1}
      BY <2>1
    <3>2. QED
      BY <1>9, <2>2, <3>1
  <2>9. ASSUME searches = <<>> PROVE Shows(list', LiveOf(current)', ReplayedTo(current)')
    <3>1. PICK live, replayed : live = LiveOf(current) /\ replayed = ReplayedTo(current)
      OBVIOUS
    <3>2. PICK q \in Seq(Event) : q = list
      BY <1>1
    <3>3. Shows(q, live, replayed)
      BY <1>1, <1>2, <1>3, <2>1, <2>9, <3>1, <3>2 DEF ShownInv, ListShows
    <3>4. Shows(FirstOf(<<e>> \o q, MaxShown), live \cup {e}, replayed)
      BY <2>4, <2>6, <2>7, <3>1, <3>3, LiveShows, Zenon
    <3>5. QED
      BY <1>10, <2>5, <2>8, <3>1, <3>2, <3>4
  <2>10. ListShows'
    BY <1>4, <2>9 DEF ListShows, Shows, InList
  <2>11. QED
    BY <1>8, <2>10 DEF ShownInv
<1>13. QED
  BY <1>11, <1>12

LEMMA ShownStep == IInv /\ ShownInv /\ [Next]_vars => ShownInv'
<1> SUFFICES ASSUME IInv, ShownInv, [Next]_vars PROVE ShownInv'
  OBVIOUS
<1> USE DEF viewVars, serviceVars
<1>1. sockets \in Seq(Connection) /\ searches \in Seq(Request)
  BY DEF IInv, SocketInv, SessionOK, DataInv
<1>2. ASSUME NEW token \in Tokens, Submit(token) PROVE ShownInv'
  BY <1>2, ConnectShows DEF Submit
<1>3. CASE Clear
  <2>1. Len(sockets') = Len(sockets)
    BY <1>3, CloseCurrent DEF Clear, IInv
  <2>2. QED
    BY <1>3, <2>1, QuietShows DEF Clear, current
<1>4. CASE Booted
  <2>1. CASE storedToken = NoToken
    BY <1>4, <2>1, QuietShows DEF Booted, current
  <2>2. CASE storedToken # NoToken
    <3>1. storedToken \in Tokens
      BY <2>2 DEF IInv, SocketInv, SessionOK
    <3>2. QED
      BY <1>4, <2>2, <3>1, ConnectShows DEF Booted
  <2>3. QED
    BY <2>1, <2>2
<1>5. CASE BootFails
  BY <1>5, QuietShows DEF BootFails, current
<1>6. CASE ServiceStep
  BY <1>6, ServiceShows
<1>7. ASSUME NEW c \in 1 .. current, TransportStep(c) PROVE ShownInv'
  <2>1. Len(sockets') = Len(sockets) /\ UNCHANGED <<stream, delivered, searches, list>>
    BY <1>1, <1>7 DEF TransportStep, Handshake, OpenEvent, CloseEvent
  <2>2. QED
    BY <2>1, QuietShows DEF current
<1>8. ASSUME NEW typed, NEW matching, Ask(typed, matching) PROVE ShownInv'
  <2>1. searches' # <<>> /\ UNCHANGED <<stream, delivered, sockets>>
    BY <1>1, <1>8 DEF Ask
  <2>2. QED
    BY <2>1, QuietShows DEF current
<1>9. ASSUME NEW k \in DOMAIN searches,
             Answer(k) \/ AnswerError(k) \/ Arrive(k) \/ ArriveError(k)
      PROVE  ShownInv'
  <2>1. Len(searches') = Len(searches) /\ UNCHANGED <<stream, delivered, sockets>>
    <3>1. CASE Answer(k)
      <4>1. PICK n \in 0 .. MaxShown :
              \E rows \in [1 .. n -> Event] :
                searches' = [searches EXCEPT ![k].state = "answered", ![k].rows = rows]
        BY <3>1 DEF Answer
      <4>2. PICK rows :
              searches' = [searches EXCEPT ![k].state = "answered", ![k].rows = rows]
        BY <4>1
      <4>3. QED
        BY <1>1, <3>1, <4>2 DEF Answer
    <3>2. CASE AnswerError(k) \/ ArriveError(k)
      <4>1. PICK state : searches' = [searches EXCEPT ![k].state = state]
        BY <3>2, Zenon DEF AnswerError, ArriveError
      <4>2. UNCHANGED <<stream, delivered, sockets>>
        BY <3>2, Zenon DEF AnswerError, ArriveError
      <4>3. QED
        BY <1>1, <4>1, <4>2
    <3>3. CASE Arrive(k)
      BY <1>1, <3>3 DEF Arrive
    <3>4. QED
      BY <1>9, <3>1, <3>2, <3>3
  <2>2. searches' # <<>>
    BY <1>1, <1>9, <2>1
  <2>3. QED
    BY <2>1, <2>2, QuietShows DEF current
<1>10. CASE UNCHANGED vars
  BY <1>10, QuietShows DEF vars, current
<1>11. QED
  BY <1>2, <1>3, <1>4, <1>5, <1>6, <1>7, <1>8, <1>9, <1>10, MessageShows DEF Next, UserStep

-----------------------------------------------------------------------------
(* Types: whatever frames and answers arrive in whatever order, the lists   *)
(* are lists of events, and no websocket hands over more than it was sent.  *)
THEOREM TypeCorrect == Spec => []TypeOK
<1>1. IInv => TypeOK
  BY DEF IInv, SocketInv, SessionOK, ViewsOK, DataInv, StreamsOK, ListsOK, TypeOK, Label, Frame
<1>2. QED
  BY <1>1, Invariance, PTL

(* However submissions, Reset and the end of boot() follow one another, at  *)
(* most one websocket is opening or open, with a token that was meant.      *)
THEOREM OneSocket == Spec => []OneWantedSocket
<1>1. IInv => OneWantedSocket
  BY DEF IInv, SocketInv
<1>2. QED
  BY <1>1, Invariance, PTL

(* The listeners of a replaced websocket cannot make the label claim that   *)
(* the current one is online or connecting when it is not.                  *)
THEOREM LabelIsHonest == Spec => []LabelTellsSocket
<1>1. IInv => LabelTellsSocket
  BY DEF IInv, SocketInv
<1>2. QED
  BY <1>1, Invariance, PTL

(* Graph and feed show the list whenever there is a configuration, but for  *)
(* what was received before there was one.                                  *)
THEOREM ViewsAgree == Spec => []BothViewsAgree
<1>1. IInv => BothViewsAgree
  BY DEF IInv, ViewsOK
<1>2. QED
  BY <1>1, Invariance, PTL

(* As long as the archive form is not used, the list is what the current    *)
(* websocket delivered, whatever replays and live events overlap.           *)
THEOREM ListIsAsSent == Spec => []ShownAsSent
<1>1. Init => IInv /\ ShownInv
  BY InitHolds, ShownInit
<1>2. (IInv /\ ShownInv) /\ [Next]_vars => (IInv /\ ShownInv)'
  BY NextKeeps, ShownStep
<1>3. IInv /\ ShownInv => ShownAsSent
  BY DEF ShownInv, ListShows, Shows, InList, ShownAsSent, Listed
<1>4. QED
  BY <1>1, <1>2, <1>3, PTL DEF Spec
=============================================================================
