---------------------------- MODULE EventArchive ----------------------------
(***************************************************************************)
(* The SQLite archive of store.py, and what depends on the order of its    *)
(* rows: the refill of the replay buffer at start-up (main.py:55) and the  *)
(* pages of /api/events/search.                                            *)
(*                                                                         *)
(* The store takes its lock for every call and is called on the event loop *)
(* only, so a call is one action.  Events are what tells them apart here:  *)
(* the event id, the timestamp and the status, which stands for every      *)
(* column that is compared for equality.                                   *)
(***************************************************************************)
EXTENDS Integers, Sequences, FiniteSets

CONSTANTS
  Ids,        \* event ids: fresh for what Redis delivers, the poster's choice
              \* for /api/dev/events
  Stamps,     \* timestamps: a wall-clock time and its UTC offset
  Statuses,
  Filters,    \* what is searched for: [status, since, until]
  NoStamp,    \* a filter without that bound
  ReplaySize, \* settings.replay_buffer_size
  MaxLimit,   \* the 500 of store.py and settings.py
  PageSize,   \* the limit a client pages with
  MaxEvents   \* bound of the model: how many events are ever handled

ASSUME StampsAssumption == Stamps \subseteq [wall : Nat, offset : Nat] /\ NoStamp \notin Stamps
ASSUME FiltersAssumption ==
  Filters \subseteq [status : SUBSET Statuses, since : Stamps \cup {NoStamp},
                     until : Stamps \cup {NoStamp}]
ASSUME LimitsAssumption ==
  /\ MaxLimit \in Nat \ {0}
  /\ ReplaySize \in 1 .. MaxLimit \* settings.py: ge=1, le=500
  /\ PageSize \in 1 .. MaxLimit   \* main.py: ge=1, le=500
ASSUME MaxEventsAssumption == MaxEvents \in Nat

Event == [id : Ids, stamp : Stamps, status : Statuses]

VARIABLES
  rows,   \* the table, in the order of rowid
  buffer, \* EventBuffer._events, oldest first
  walk,   \* a client that goes through the pages of one search
  log     \* history: every event handled, in the order of arrival

vars == <<rows, buffer, walk, log>>

Elements(seq) == {seq[i] : i \in DOMAIN seq}
Smaller(a, b) == IF a < b THEN a ELSE b
Greater(a, b) == IF a < b THEN b ELSE a

-----------------------------------------------------------------------------
(* The column holds timestamp.isoformat() and is compared as text: first    *)
(* the wall-clock time (a fraction, if there is one, begins with a sign that*)
(* sorts after those of an offset), then the offset (the model has offsets  *)
(* east of Greenwich only, whose texts sort like their values).             *)
TextLess(s, t) == s.wall < t.wall \/ (s.wall = t.wall /\ s.offset < t.offset)

(* Plausible bug: rows of one timestamp are listed oldest first.            *)
ComesFirstByTimeOnly(i, j) == TextLess(rows[j].stamp, rows[i].stamp)
                                \/ (rows[j].stamp = rows[i].stamp /\ i < j)
(* ORDER BY timestamp DESC, rowid DESC: row i comes before row j.           *)
ComesFirst(i, j) == TextLess(rows[j].stamp, rows[i].stamp)
                      \/ (rows[j].stamp = rows[i].stamp /\ j < i)

(* _where_clause: an empty list of statuses is no condition.                *)
Matches(f, e) ==
  /\ f.status # {} => e.status \in f.status
  /\ f.since # NoStamp => ~ TextLess(e.stamp, f.since)
  /\ f.until # NoStamp => ~ TextLess(f.until, e.stamp)
Matching(f) == {i \in DOMAIN rows : Matches(f, rows[i])}

(* SELECT ... ORDER BY: the rows numbered by Q, in the order of the answer. *)
Ordered(Q) ==
  [k \in 1 .. Cardinality(Q) |->
     rows[CHOOSE i \in Q : Cardinality({j \in Q : ComesFirst(j, i)}) = k - 1]]

(* ... LIMIT ? OFFSET ?, with the clamps of search and latest.              *)
Chosen(Q, limit, offset) ==
  LET bounded == Smaller(Greater(limit, 1), MaxLimit)
      from == Greater(offset, 0)
  IN  SubSeq(Ordered(Q), from + 1, Smaller(from + bounded, Cardinality(Q)))

Reversed(seq) == [i \in 1 .. Len(seq) |-> seq[Len(seq) + 1 - i]]

(* latest: the newest rows, oldest first.                                   *)
Latest(limit) == Reversed(Chosen(DOMAIN rows, limit, 0))

(* Plausible bug: a list instead of a deque with maxlen.                    *)
PushUnbounded(events, e) == Append(events, e)
(* EventBuffer.add: a deque with maxlen drops its oldest element.           *)
Push(events, e) ==
  IF Len(events) < ReplaySize THEN Append(events, e) ELSE Append(Tail(events), e)

-----------------------------------------------------------------------------
(* create_app on an empty database.                                         *)
NoWalk == [state |-> "none"]

Init ==
  /\ rows = <<>>
  /\ buffer = <<>>
  /\ walk = NoWalk
  /\ log = <<>>

(* A plausible bug: an upsert that keeps the rowid.                         *)
AddInPlace(e) ==
  rows' = IF \E i \in DOMAIN rows : rows[i].id = e.id
          THEN [i \in DOMAIN rows |-> IF rows[i].id = e.id THEN e ELSE rows[i]]
          ELSE Append(rows, e)
(* INSERT OR REPLACE: the row with the same primary key, if there is one,   *)
(* goes, and the new one gets the next rowid.                               *)
Holds(i, id) == i \in DOMAIN rows /\ rows[i].id = id
Without(id) ==
  IF \E i \in DOMAIN rows : Holds(i, id)
  THEN LET old == CHOOSE i \in DOMAIN rows : Holds(i, id)
       IN  [i \in 1 .. Len(rows) - 1 |-> rows[IF i < old THEN i ELSE i + 1]]
  ELSE rows
Add(e) == rows' = Append(Without(e.id), e)

(* handle_event up to its broadcast.                                        *)
HandleEvent(e) ==
  /\ Len(log) < MaxEvents
  /\ Add(e)
  /\ buffer' = Push(buffer, e)
  /\ log' = Append(log, e)
  /\ UNCHANGED walk

(* The process ends, in whatever way, and create_app fills a new buffer.    *)
Restart ==
  /\ buffer' = Latest(ReplaySize)
  /\ UNCHANGED <<rows, walk, log>>

-----------------------------------------------------------------------------
(* A plausible bug: the rows are counted without the conditions.            *)
AskCountingAll(f, offset, before, start, from) ==
  LET page == Chosen(Matching(f), PageSize, offset)
      total == Len(rows)
  IN  walk' = [state |-> IF offset + PageSize >= total THEN "done" ELSE "paging",
               filter |-> f, offset |-> offset + PageSize, pages |-> before \o page,
               total |-> total, start |-> start, from |-> from, to |-> Len(log)]

(* One request for a page, at the offset the client has got to: the rows it *)
(* gets, the total, and whether that was the last page.                     *)
Ask(f, offset, before, start, from) ==
  LET page == Chosen(Matching(f), PageSize, offset)
      total == Cardinality(Matching(f))
  IN  walk' = [state |-> IF offset + PageSize >= total THEN "done" ELSE "paging",
               filter |-> f, offset |-> offset + PageSize, pages |-> before \o page,
               total |-> total, start |-> start, from |-> from, to |-> Len(log)]

FirstPage(f) ==
  /\ walk = NoWalk
  /\ Ask(f, 0, <<>>, {rows[i] : i \in Matching(f)}, Len(log))
  /\ UNCHANGED <<rows, buffer, log>>

NextPage ==
  /\ walk.state = "paging"
  /\ Ask(walk.filter, walk.offset, walk.pages, walk.start, walk.from)
  /\ UNCHANGED <<rows, buffer, log>>

Next ==
  \/ (\E e \in Event : HandleEvent(e))
  \/ Restart
  \/ (\E f \in Filters : FirstPage(f))
  \/ NextPage

Spec == Init /\ [][Next]_vars

-----------------------------------------------------------------------------
(* Types, and the limit of the buffer.                                      *)
TypeOK ==
  /\ rows \in Seq(Event)
  /\ log \in Seq(Event) /\ Len(log) <= MaxEvents
  /\ buffer \in Seq(Event) /\ Len(buffer) <= ReplaySize
  /\ \/ walk = NoWalk
     \/ /\ walk.state \in {"paging", "done"} /\ walk.filter \in Filters
        /\ walk.offset \in Nat /\ walk.total \in Nat
        /\ walk.pages \in Seq(Event) /\ walk.start \subseteq Event
        /\ walk.from \in 0 .. Len(log) /\ walk.to \in walk.from .. Len(log)

\* The events that no later event with the same id has replaced.
Survivors == {i \in DOMAIN log : \A j \in DOMAIN log : i < j => log[j].id # log[i].id}

\* While the client was paging, some event replaced a later-dated one, or one
\* that was searched for by one that is not.
WithdrawnMeanwhile ==
  \E i \in walk.from + 1 .. walk.to : \E j \in 1 .. i - 1 :
    /\ log[i].id = log[j].id
    /\ TextLess(log[i].stamp, log[j].stamp) \/ ~ Matches(walk.filter, log[i])

(* The archive "keeps all archived events" (docs/event-archive.md): it has  *)
(* one row per id, the last word said about it, and for equal timestamps it *)
(* lists by arrival of that last word.                                      *)
ArchiveIsLastWord ==
  /\ Elements(rows) = {log[i] : i \in Survivors}
  /\ \A i, j \in DOMAIN rows : i < j =>
       /\ rows[i].id # rows[j].id
       /\ \E p, q \in Survivors : p < q /\ rows[i] = log[p] /\ rows[j] = log[q]

(* A restart does not change what browsers are replayed, as long as events  *)
(* arrive in the order of their timestamps and none replaces another: what  *)
(* create_app would fill the buffer with is what the buffer holds.          *)
ReplayIsStable ==
  (/\ \A i, j \in DOMAIN log : i < j => ~ TextLess(log[j].stamp, log[i].stamp)
   /\ Survivors = DOMAIN log)
    => buffer = Latest(ReplaySize)

(* In any case the replay is as long as the archive allows.                 *)
ReplayIsFull == Len(buffer) >= Smaller(ReplaySize, Len(rows))

(* A client that has gone through all pages has seen every row that matched *)
(* when it began and was not replaced since, however many events arrived    *)
(* between its requests: they move rows to later pages.  Only an event that *)
(* withdraws another one, or puts it back, moves rows to pages the client   *)
(* already had.                                                             *)
PagesCover ==
  walk.state = "done" /\ ~ WithdrawnMeanwhile =>
    \A e \in walk.start \ Elements(walk.pages) :
      \E i \in walk.from + 1 .. walk.to : log[i].id = e.id

(* If nothing arrived in between, the pages make up the result: each        *)
(* matching row once, and as many as every page announced.                  *)
PagesAreTheResult ==
  walk.state = "done" /\ walk.from = walk.to =>
    /\ Elements(walk.pages) = walk.start
    /\ Len(walk.pages) = Cardinality(walk.start) /\ walk.total = Len(walk.pages)

(* docs/event-archive.md: "`since`: ISO timestamp lower bound".             *)
Instant(s) == s.wall - s.offset
SinceIsALowerBound ==
  \A f \in Filters : f.since # NoStamp =>
    \A i \in Matching([f EXCEPT !.since = NoStamp]) :
      i \in Matching(f) <=> Instant(rows[i].stamp) >= Instant(f.since)
=============================================================================
