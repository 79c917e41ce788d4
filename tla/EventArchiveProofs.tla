------------------------- MODULE EventArchiveProofs -------------------------
(***************************************************************************)
(* TLAPS proofs about EventArchive, for any ids, timestamps and filters    *)
(* and any number of events.                                               *)
(***************************************************************************)
EXTENDS EventArchive, TLAPS, FiniteSetTheorems, SequenceTheorems

(* Types of the table and of the history.                                   *)
TableType == rows \in Seq(Event) /\ log \in Seq(Event) /\ Len(log) <= MaxEvents

LEMMA ElementAt ==
  ASSUME NEW S, NEW q \in Seq(S), NEW i \in DOMAIN q
  PROVE  q[i] \in S
OBVIOUS

(* INSERT OR REPLACE leaves out one row at most: what remains are the rows  *)
(* with other ids, in the order they had.                                   *)
LEMMA WithoutIsOthers ==
  ASSUME TableType, ArchiveIsLastWord, NEW id
  PROVE  /\ Without(id) \in Seq(Event)
         /\ \A i \in DOMAIN Without(id) : Without(id)[i].id # id
         /\ Elements(Without(id)) = {row \in Elements(rows) : row.id # id}
         /\ \A i, j \in DOMAIN Without(id) : i < j =>
              \E k, m \in DOMAIN rows :
                k < m /\ Without(id)[i] = rows[k] /\ Without(id)[j] = rows[m]
<1>1. rows \in Seq(Event) /\ DOMAIN rows = 1 .. Len(rows) /\ Len(rows) \in Nat
  BY DEF TableType
<1>2. CASE ~ \E i \in DOMAIN rows : Holds(i, id)
  <2>1. Without(id) = rows
    BY <1>2 DEF Without
  <2>2. \A i \in DOMAIN rows : rows[i].id # id
    BY <1>2 DEF Holds
  <2> QED BY <1>1, <2>1, <2>2 DEF Elements
<1>3. CASE \E i \in DOMAIN rows : Holds(i, id)
  <2> DEFINE old == CHOOSE i \in DOMAIN rows : Holds(i, id)
             other(i) == IF i < old THEN i ELSE i + 1
  <2>1. old \in 1 .. Len(rows) /\ rows[old].id = id
    BY <1>1, <1>3 DEF Holds
  <2>2. Without(id) = [i \in 1 .. Len(rows) - 1 |-> rows[other(i)]]
    BY <1>3 DEF Without
  <2> HIDE DEF old
  <2>3. \A i \in 1 .. Len(rows) - 1 : other(i) \in 1 .. Len(rows) /\ other(i) # old
    BY <1>1, <2>1
  <2>4. \A k \in 1 .. Len(rows) : k # old => \E i \in 1 .. Len(rows) - 1 : k = other(i)
    <3> SUFFICES ASSUME NEW k \in 1 .. Len(rows), k # old
                 PROVE  \E i \in 1 .. Len(rows) - 1 : k = other(i)
      OBVIOUS
    <3>1. CASE k < old
      BY <3>1, <1>1, <2>1
    <3>2. CASE k > old
      <4>1. k - 1 \in 1 .. Len(rows) - 1 /\ k = other(k - 1)
        BY <3>2, <1>1, <2>1
      <4> QED BY <4>1
    <3> QED BY <3>1, <3>2, <1>1, <2>1
  <2>5. \A i, j \in 1 .. Len(rows) - 1 : i < j => other(i) < other(j)
    BY <1>1, <2>1
  <2>6. \A k \in 1 .. Len(rows) : k # old => rows[k].id # id
    <3> SUFFICES ASSUME NEW k \in 1 .. Len(rows), k # old PROVE rows[k].id # rows[old].id
      BY <2>1
    <3>1. k < old \/ old < k
      BY <1>1, <2>1
    <3> QED BY <3>1, <1>1, <2>1 DEF ArchiveIsLastWord
  <2> HIDE DEF other
  <2>7. Without(id) \in Seq(Event)
    <3>1. \A i \in 1 .. Len(rows) - 1 : rows[other(i)] \in Event
      BY <1>1, <2>3, ElementAt
    <3> QED BY <3>1, <2>2, <1>1, <2>1
  <2>8. DOMAIN Without(id) = 1 .. Len(rows) - 1
        /\ \A i \in 1 .. Len(rows) - 1 : Without(id)[i] = rows[other(i)]
    BY <2>2
  <2>9. \A i \in DOMAIN Without(id) : Without(id)[i].id # id
    BY <2>3, <2>6, <2>8
  <2>10. Elements(Without(id)) = {row \in Elements(rows) : row.id # id}
    <3>1. \A x \in Elements(Without(id)) : x \in Elements(rows) /\ x.id # id
      BY <1>1, <2>3, <2>8, <2>9 DEF Elements
    <3>2. \A x \in Elements(rows) : x.id # id => x \in Elements(Without(id))
      <4> SUFFICES ASSUME NEW k \in 1 .. Len(rows), rows[k].id # id
                   PROVE  rows[k] \in Elements(Without(id))
        BY <1>1 DEF Elements
      <4>1. PICK i \in 1 .. Len(rows) - 1 : k = other(i)
        BY <2>1, <2>4
      <4> QED BY <4>1, <2>8 DEF Elements
    <3> QED BY <3>1, <3>2
  <2> QED BY <1>1, <2>3, <2>5, <2>7, <2>8, <2>9, <2>10
<1> QED BY <1>2, <1>3

Table == TableType /\ ArchiveIsLastWord

LEMMA TableInit == Init => Table
<1> SUFFICES ASSUME Init PROVE Table
  OBVIOUS
<1>1. <<>> \in Seq(Event) /\ Len(<<>>) = 0 /\ DOMAIN <<>> = {}
  OBVIOUS
<1>2. TableType
  BY <1>1, MaxEventsAssumption DEF Init, TableType
<1>3. ArchiveIsLastWord
  BY <1>1 DEF Init, ArchiveIsLastWord, Survivors, Elements
<1> QED BY <1>2, <1>3 DEF Table

LEMMA TableHandle ==
  ASSUME Table, NEW e \in Event, HandleEvent(e)
  PROVE  Table'
<1> DEFINE kept == Without(e.id)
           n == Len(log) + 1
<1>1. /\ kept \in Seq(Event)
      /\ \A i \in DOMAIN kept : kept[i].id # e.id
      /\ Elements(kept) = {row \in Elements(rows) : row.id # e.id}
      /\ \A i, j \in DOMAIN kept : i < j =>
           \E k, m \in DOMAIN rows : k < m /\ kept[i] = rows[k] /\ kept[j] = rows[m]
  BY WithoutIsOthers, Zenon DEF Table
<1>2. rows' = Append(kept, e) /\ log' = Append(log, e) /\ Len(log) < MaxEvents
  BY DEF HandleEvent, Add
<1>3. log \in Seq(Event) /\ Len(log) \in Nat /\ DOMAIN log = 1 .. Len(log)
  BY DEF Table, TableType
<1> HIDE DEF kept
<1>4. /\ DOMAIN log' = 1 .. n /\ log'[n] = e /\ n \in Nat
      /\ \A p \in 1 .. Len(log) : log'[p] = log[p]
  BY <1>2, <1>3
<1>5. /\ DOMAIN kept = 1 .. Len(kept) /\ Len(kept) \in Nat
      /\ DOMAIN rows' = 1 .. Len(kept) + 1 /\ rows'[Len(kept) + 1] = e
      /\ \A i \in 1 .. Len(kept) : rows'[i] = kept[i]
  BY <1>1, <1>2
<1>6. TableType'
  BY <1>1, <1>2, <1>3, MaxEventsAssumption DEF TableType
<1>7. Survivors' = {p \in Survivors : log[p].id # e.id} \cup {n}
  <2>1. \A p \in 1 .. n : p \in Survivors' <=> \A q \in 1 .. n : p < q => log'[q].id # log'[p].id
    BY <1>4 DEF Survivors
  <2>2. n \in Survivors'
    BY <2>1, <1>3, <1>4
  <2>3. \A p \in 1 .. Len(log) :
          p \in Survivors' <=> p \in Survivors /\ log[p].id # e.id
    <3> SUFFICES ASSUME NEW p \in 1 .. Len(log)
                 PROVE  p \in Survivors' <=> p \in Survivors /\ log[p].id # e.id
      OBVIOUS
    <3>1. p \in Survivors <=> \A q \in 1 .. Len(log) : p < q => log[q].id # log[p].id
      BY <1>3 DEF Survivors
    <3>2. p \in 1 .. n /\ p < n /\ log'[p] = log[p] /\ log'[n].id = e.id
      BY <1>3, <1>4
    <3>3. \A q \in 1 .. n : (q \in 1 .. Len(log) /\ log'[q] = log[q]) \/ q = n
      BY <1>3, <1>4
    <3>4. \A q \in 1 .. Len(log) : q \in 1 .. n /\ log'[q] = log[q]
      BY <1>3, <1>4
    <3>5. n \in 1 .. n
      BY <1>3
    <3> HIDE DEF n
    <3> QED BY <2>1, <3>1, <3>2, <3>3, <3>4, <3>5
  <2>4. Survivors' \subseteq 1 .. n /\ Survivors \subseteq 1 .. Len(log)
    BY <1>3, <1>4 DEF Survivors
  <2>5. 1 .. n = 1 .. Len(log) \cup {n}
    BY <1>3
  <2> QED BY <2>2, <2>3, <2>4, <2>5
<1>8. Elements(rows)' = Elements(kept) \cup {e}
  <2>1. 1 .. Len(kept) + 1 = 1 .. Len(kept) \cup {Len(kept) + 1}
    BY <1>5
  <2>2. \A x : x \in Elements(rows)' <=> \E i \in 1 .. Len(kept) + 1 : x = rows'[i]
    BY <1>5 DEF Elements
  <2>3. \A x : x \in Elements(kept) <=> \E i \in 1 .. Len(kept) : x = kept[i]
    BY <1>5 DEF Elements
  <2> QED BY <1>5, <2>1, <2>2, <2>3
<1>9. Survivors \subseteq 1 .. Len(log) /\ n \notin 1 .. Len(log)
  BY <1>3 DEF Survivors
<1> HIDE DEF n
<1>10. Elements(rows)' = {log'[p] : p \in Survivors'}
  <2>1. Elements(rows) = {log[p] : p \in Survivors}
    BY DEF Table, ArchiveIsLastWord
  <2>2. \A x \in Elements(rows)' : \E p \in Survivors' : x = log'[p]
    <3> SUFFICES ASSUME NEW x \in Elements(rows)' PROVE \E p \in Survivors' : x = log'[p]
      OBVIOUS
    <3>1. CASE x = e
      BY <3>1, <1>4, <1>7
    <3>2. CASE x \in Elements(rows) /\ x.id # e.id
      <4>1. PICK p \in Survivors : x = log[p]
        BY <3>2, <2>1
      <4> QED BY <4>1, <3>2, <1>4, <1>7, <1>9
    <3> QED BY <3>1, <3>2, <1>1, <1>8
  <2>3. \A p \in Survivors' : log'[p] \in Elements(rows)'
    <3> SUFFICES ASSUME NEW p \in Survivors' PROVE log'[p] \in Elements(rows)'
      OBVIOUS
    <3>1. CASE p = n
      BY <3>1, <1>4, <1>8
    <3>2. CASE p \in Survivors /\ log[p].id # e.id
      BY <3>2, <2>1, <1>1, <1>4, <1>8, <1>9
    <3> QED BY <3>1, <3>2, <1>7
  <2> QED BY <2>2, <2>3
<1>11. \A i, j \in DOMAIN rows' : i < j =>
         /\ rows'[i].id # rows'[j].id
         /\ \E p, q \in Survivors' : p < q /\ rows'[i] = log'[p] /\ rows'[j] = log'[q]
  <2> SUFFICES ASSUME NEW i \in 1 .. Len(kept) + 1, NEW j \in 1 .. Len(kept) + 1, i < j
               PROVE  /\ rows'[i].id # rows'[j].id
                      /\ \E p, q \in Survivors' : p < q /\ rows'[i] = log'[p] /\ rows'[j] = log'[q]
    BY <1>5
  <2>1. i \in 1 .. Len(kept) /\ rows'[i] = kept[i] /\ kept[i].id # e.id
    BY <1>1, <1>5
  <2>2. CASE j = Len(kept) + 1
    <3>1. rows'[j] = e
      BY <2>2, <1>5
    <3>2. kept[i] \in Elements(rows)
      BY <2>1, <1>1, <1>5 DEF Elements
    <3>3. PICK p \in Survivors : kept[i] = log[p]
      BY <3>2 DEF Table, ArchiveIsLastWord
    <3>4. p \in Survivors' /\ n \in Survivors' /\ log'[p] = kept[i] /\ log'[n] = e
      BY <3>3, <2>1, <1>4, <1>7, <1>9
    <3>5. p < n
      BY <3>3, <1>3, <1>9 DEF n
    <3> QED BY <2>1, <3>1, <3>4, <3>5
  <2>3. CASE j # Len(kept) + 1
    <3>1. j \in 1 .. Len(kept) /\ rows'[j] = kept[j] /\ kept[j].id # e.id
      BY <2>3, <1>1, <1>5
    <3>2. PICK k \in DOMAIN rows, m \in DOMAIN rows :
            k < m /\ kept[i] = rows[k] /\ kept[j] = rows[m]
      BY <2>1, <3>1, <1>1, <1>5
    <3>3. rows[k].id # rows[m].id
          /\ \E p, q \in Survivors : p < q /\ rows[k] = log[p] /\ rows[m] = log[q]
      BY <3>2 DEF Table, ArchiveIsLastWord
    <3>4. PICK p \in Survivors, q \in Survivors :
            p < q /\ rows[k] = log[p] /\ rows[m] = log[q]
      BY <3>3
    <3>5. p \in Survivors' /\ q \in Survivors' /\ log'[p] = rows[k] /\ log'[q] = rows[m]
      BY <3>2, <3>4, <2>1, <3>1, <1>4, <1>7, <1>9
    <3> QED BY <2>1, <3>1, <3>2, <3>3, <3>4, <3>5
  <2> QED BY <2>2, <2>3
<1>12. ArchiveIsLastWord'
  BY <1>10, <1>11 DEF ArchiveIsLastWord
<1> QED BY <1>6, <1>12 DEF Table

LEMMA TableStep == Table /\ [Next]_vars => Table'
<1> SUFFICES ASSUME Table, [Next]_vars PROVE Table'
  OBVIOUS
<1>1. CASE UNCHANGED <<rows, log>>
  <2>1. Survivors' = Survivors /\ Elements(rows)' = Elements(rows) /\ rows' = rows /\ log' = log
    BY <1>1 DEF Survivors, Elements
  <2> QED BY <2>1 DEF Table, TableType, ArchiveIsLastWord
<1> QED BY <1>1, TableHandle DEF Next, Restart, FirstPage, NextPage, vars

(* The archive has one row per id, the last word said about it, and numbers *)
(* its rows in the order of their arrival.                                  *)
THEOREM LastWord == Spec => []ArchiveIsLastWord
<1>1. Table => ArchiveIsLastWord
  BY DEF Table
<1> QED BY <1>1, TableInit, TableStep, PTL DEF Spec

-----------------------------------------------------------------------------
(* The text order of timestamps is a strict total order.                    *)
LEMMA StampsAreOrdered ==
  /\ \A s, t \in Stamps : TextLess(s, t) \/ TextLess(t, s) \/ s = t
  /\ \A s, t \in Stamps : ~ (TextLess(s, t) /\ TextLess(t, s))
  /\ \A s \in Stamps : ~ TextLess(s, s)
  /\ \A s, t, u \in Stamps : TextLess(s, t) /\ TextLess(t, u) => TextLess(s, u)
<1>1. \A s \in Stamps : s.wall \in Nat /\ s.offset \in Nat
                        /\ s = [wall |-> s.wall, offset |-> s.offset]
  BY StampsAssumption
<1> QED BY <1>1 DEF TextLess

(* So the order of the rows is one as well.                                 *)
LEMMA RowsAreOrdered ==
  ASSUME TableType
  PROVE  /\ \A i, j \in DOMAIN rows : i # j => ComesFirst(i, j) \/ ComesFirst(j, i)
         /\ \A i \in DOMAIN rows : ~ ComesFirst(i, i)
         /\ \A i, j, k \in DOMAIN rows :
              ComesFirst(i, j) /\ ComesFirst(j, k) => ComesFirst(i, k)
<1>1. \A i \in DOMAIN rows : i \in Nat /\ rows[i].stamp \in Stamps
  <2> SUFFICES ASSUME NEW i \in DOMAIN rows PROVE i \in Nat /\ rows[i].stamp \in Stamps
    OBVIOUS
  <2>1. rows[i] \in Event
    BY ElementAt, Zenon DEF TableType
  <2> QED BY <2>1 DEF TableType, Event
<1>2. \A i, j \in DOMAIN rows :
        ComesFirst(i, j) <=> TextLess(rows[j].stamp, rows[i].stamp)
                               \/ (rows[j].stamp = rows[i].stamp /\ j < i)
  BY DEF ComesFirst
<1> QED BY <1>1, <1>2, StampsAreOrdered

Before(Q, i) == {j \in Q : ComesFirst(j, i)}

(* Every place of the answer is taken by exactly one row.                   *)
LEMMA RankIsBijective ==
  ASSUME TableType, NEW Q \in SUBSET DOMAIN rows
  PROVE  /\ IsFiniteSet(Q) /\ Cardinality(Q) \in Nat /\ Cardinality(Q) <= Len(rows)
         /\ \A i \in Q : Cardinality(Before(Q, i)) \in 0 .. Cardinality(Q) - 1
         /\ \A i, j \in Q : Cardinality(Before(Q, i)) = Cardinality(Before(Q, j)) => i = j
         /\ \A k \in 0 .. Cardinality(Q) - 1 : \E i \in Q : Cardinality(Before(Q, i)) = k
<1> DEFINE n == Cardinality(Q)
           rank == [i \in Q |-> Cardinality(Before(Q, i))]
<1>1. DOMAIN rows = 1 .. Len(rows) /\ Len(rows) \in Nat
  BY DEF TableType
<1>2. IsFiniteSet(Q) /\ n \in Nat /\ n <= Len(rows)
  <2>1. IsFiniteSet(1 .. Len(rows)) /\ Cardinality(1 .. Len(rows)) = Len(rows)
    BY <1>1, FS_Interval
  <2> QED BY <1>1, <2>1, FS_Subset, FS_CardinalityType
<1>3. \A i \in Q : /\ IsFiniteSet(Before(Q, i))
                   /\ Cardinality(Before(Q, i)) \in Nat
                   /\ Before(Q, i) \in SUBSET Q /\ i \notin Before(Q, i)
  <2> SUFFICES ASSUME NEW i \in Q
               PROVE  /\ IsFiniteSet(Before(Q, i))
                      /\ Cardinality(Before(Q, i)) \in Nat
                      /\ Before(Q, i) \in SUBSET Q /\ i \notin Before(Q, i)
    OBVIOUS
  <2>1. Before(Q, i) \in SUBSET Q /\ i \notin Before(Q, i)
    BY RowsAreOrdered DEF Before
  <2> QED BY <1>2, <2>1, FS_Subset, FS_CardinalityType
<1>4. \A i \in Q : Cardinality(Before(Q, i)) \in 0 .. n - 1
  <2> SUFFICES ASSUME NEW i \in Q PROVE Cardinality(Before(Q, i)) \in 0 .. n - 1
    OBVIOUS
  <2>1. Cardinality(Before(Q, i)) <= n
    BY <1>2, <1>3, FS_Subset
  <2>2. Cardinality(Before(Q, i)) # n
    <3>1. n = Cardinality(Before(Q, i)) => Q = Before(Q, i)
      BY <1>2, <1>3, FS_Subset, Zenon
    <3> QED BY <3>1, <1>3
  <2> QED BY <1>2, <1>3, <2>1, <2>2
<1>5. \A i, j \in Q : ComesFirst(i, j) =>
        Cardinality(Before(Q, i)) < Cardinality(Before(Q, j))
  <2> SUFFICES ASSUME NEW i \in Q, NEW j \in Q, ComesFirst(i, j)
               PROVE  Cardinality(Before(Q, i)) < Cardinality(Before(Q, j))
    OBVIOUS
  <2>1. Before(Q, i) \cup {i} \in SUBSET Before(Q, j)
    BY RowsAreOrdered DEF Before
  <2>2. Cardinality(Before(Q, i) \cup {i}) = Cardinality(Before(Q, i)) + 1
    BY <1>3, FS_AddElement
  <2>3. Cardinality(Before(Q, i) \cup {i}) <= Cardinality(Before(Q, j))
    BY <1>3, <2>1, FS_Subset, Zenon
  <2> QED BY <1>3, <2>2, <2>3
<1>6. \A i, j \in Q : Cardinality(Before(Q, i)) = Cardinality(Before(Q, j)) => i = j
  BY <1>3, <1>5, RowsAreOrdered
<1>7. rank \in Injection(Q, 0 .. n - 1)
  BY <1>4, <1>6 DEF Injection, IsInjective
<1>8. IsFiniteSet(0 .. n - 1) /\ Cardinality(0 .. n - 1) = n
  <2>1. 0 \in Int /\ n - 1 \in Int /\ (IF 0 > n - 1 THEN 0 ELSE n - 1 - 0 + 1) = n
    BY <1>2
  <2> HIDE DEF n
  <2>2. IsFiniteSet(0 .. n - 1)
        /\ Cardinality(0 .. n - 1) = IF 0 > n - 1 THEN 0 ELSE n - 1 - 0 + 1
    BY <2>1, FS_Interval, Zenon
  <2> QED BY <2>1, <2>2
<1>9. rank \in Surjection(Q, 0 .. n - 1)
  BY <1>7, <1>8, FS_Injection, Zenon
<1>10. \A k \in 0 .. n - 1 : \E i \in Q : rank[i] = k
  BY <1>9 DEF Surjection
<1> QED BY <1>2, <1>4, <1>6, <1>10

(* The answer before LIMIT: as long as the set of rows, and made of them.   *)
LEMMA OrderedEnumerates ==
  ASSUME TableType, NEW Q \in SUBSET DOMAIN rows
  PROVE  /\ Ordered(Q) \in Seq(Event) /\ Len(Ordered(Q)) = Cardinality(Q)
         /\ Cardinality(Q) \in Nat /\ Cardinality(Q) <= Len(rows)
         /\ Elements(Ordered(Q)) = {rows[i] : i \in Q}
<1> DEFINE n == Cardinality(Q)
           at(k) == CHOOSE i \in Q : Cardinality(Before(Q, i)) = k - 1
<1>1. /\ n \in Nat /\ n <= Len(rows)
      /\ \A i \in Q : Cardinality(Before(Q, i)) \in 0 .. n - 1
      /\ \A i, j \in Q : Cardinality(Before(Q, i)) = Cardinality(Before(Q, j)) => i = j
      /\ \A k \in 0 .. n - 1 : \E i \in Q : Cardinality(Before(Q, i)) = k
  BY RankIsBijective, Zenon
<1>2. Ordered(Q) = [k \in 1 .. n |-> rows[at(k)]]
  BY DEF Ordered, Before
<1>3. \A k \in 1 .. n : at(k) \in Q /\ Cardinality(Before(Q, at(k))) = k - 1
  <2> SUFFICES ASSUME NEW k \in 1 .. n
               PROVE  at(k) \in Q /\ Cardinality(Before(Q, at(k))) = k - 1
    OBVIOUS
  <2>1. k - 1 \in 0 .. n - 1
    BY <1>1
  <2> QED BY <1>1, <2>1
<1> HIDE DEF at
<1>4. \A i \in DOMAIN rows : rows[i] \in Event
  BY ElementAt, Zenon DEF TableType
<1>5. Ordered(Q) \in Seq(Event) /\ Len(Ordered(Q)) = n
  BY <1>1, <1>2, <1>3, <1>4
<1>6. \A i \in Q : \E k \in 1 .. n : i = at(k)
  <2> SUFFICES ASSUME NEW i \in Q PROVE \E k \in 1 .. n : i = at(k)
    OBVIOUS
  <2>1. Cardinality(Before(Q, i)) + 1 \in 1 .. n
        /\ Cardinality(Before(Q, i)) = Cardinality(Before(Q, i)) + 1 - 1
    BY <1>1
  <2> QED BY <1>1, <1>3, <2>1
<1>7. Elements(Ordered(Q)) = {rows[i] : i \in Q}
  BY <1>2, <1>3, <1>6 DEF Elements
<1> QED BY <1>1, <1>5, <1>7

(* LIMIT and OFFSET cut a piece out of the answer, at most bounded rows.    *)
LEMMA ChosenIsPiece ==
  ASSUME TableType, NEW Q \in SUBSET DOMAIN rows, NEW limit \in 1 .. MaxLimit,
         NEW offset \in Nat
  PROVE  /\ Chosen(Q, limit, offset) =
              SubSeq(Ordered(Q), offset + 1, Smaller(offset + limit, Cardinality(Q)))
         /\ Chosen(Q, limit, offset) \in Seq(Event)
         /\ Cardinality(Q) \in Nat
<1>1. /\ Ordered(Q) \in Seq(Event) /\ Len(Ordered(Q)) = Cardinality(Q)
      /\ Cardinality(Q) \in Nat
  BY OrderedEnumerates, Zenon
<1>2. limit \in Nat /\ 1 <= limit /\ limit <= MaxLimit /\ MaxLimit \in Nat
  BY LimitsAssumption
<1>3. Smaller(Greater(limit, 1), MaxLimit) = limit /\ Greater(offset, 0) = offset
  BY <1>2 DEF Smaller, Greater
<1>4. Chosen(Q, limit, offset) =
        SubSeq(Ordered(Q), offset + 1, Smaller(offset + limit, Cardinality(Q)))
  BY <1>3 DEF Chosen
<1> DEFINE last == Smaller(offset + limit, Cardinality(Q))
<1>5. last \in Nat /\ last <= Cardinality(Q)
  BY <1>1, <1>2 DEF Smaller
<1> HIDE DEF last
<1>6. SubSeq(Ordered(Q), offset + 1, last) \in Seq(Event)
  BY <1>1, <1>5
<1> QED BY <1>1, <1>4, <1>6 DEF last

(* latest returns as many events as it may.                                 *)
LEMMA LatestIsFull ==
  ASSUME TableType
  PROVE  /\ Latest(ReplaySize) \in Seq(Event)
         /\ Len(Latest(ReplaySize)) = Smaller(ReplaySize, Len(rows))
<1> DEFINE Q == DOMAIN rows
           n == Len(rows)
           page == Chosen(Q, ReplaySize, 0)
<1>1. Q = 1 .. n /\ n \in Nat
  BY DEF TableType
<1>2. Cardinality(Q) = n
  <2>1. 1 \in Int /\ n \in Int /\ (IF 1 > n THEN 0 ELSE n - 1 + 1) = n
    BY <1>1
  <2> HIDE DEF n
  <2>2. Cardinality(1 .. n) = IF 1 > n THEN 0 ELSE n - 1 + 1
    BY <2>1, FS_Interval, Zenon
  <2> QED BY <1>1, <2>1, <2>2
<1>3. ReplaySize \in 1 .. MaxLimit /\ ReplaySize \in Nat /\ 0 \in Nat /\ Q \in SUBSET DOMAIN rows
  BY LimitsAssumption
<1>4. Ordered(Q) \in Seq(Event) /\ Len(Ordered(Q)) = n
  BY <1>2, <1>3, OrderedEnumerates, Zenon
<1>5. page = SubSeq(Ordered(Q), 0 + 1, Smaller(0 + ReplaySize, n))
  BY <1>2, <1>3, ChosenIsPiece, Zenon
<1> HIDE DEF page, Q, n
<1>6. Smaller(0 + ReplaySize, n) = Smaller(ReplaySize, n) /\ Smaller(ReplaySize, n) \in 0 .. n
  BY <1>1, <1>3 DEF Smaller
<1>7. page \in Seq(Event) /\ Len(page) = Smaller(ReplaySize, n)
  BY <1>1, <1>4, <1>5, <1>6
<1>8. Reversed(page) \in Seq(Event) /\ Len(Reversed(page)) = Len(page)
  <2>1. Len(page) \in Nat /\ \A i \in 1 .. Len(page) : Len(page) + 1 - i \in DOMAIN page
    BY <1>7
  <2>2. \A i \in 1 .. Len(page) : page[Len(page) + 1 - i] \in Event
    BY <1>7, <2>1, ElementAt, Zenon
  <2> QED BY <2>1, <2>2 DEF Reversed
<1> QED BY <1>7, <1>8 DEF Latest, page, Q, n

BufferInv == buffer \in Seq(Event) /\ Len(buffer) <= ReplaySize /\ ReplayIsFull

(* One event more in the buffer, or an old one less.                        *)
LEMMA PushKeeps ==
  ASSUME NEW q \in Seq(Event), Len(q) <= ReplaySize, NEW e \in Event
  PROVE  /\ Push(q, e) \in Seq(Event) /\ Len(Push(q, e)) <= ReplaySize
         /\ Len(Push(q, e)) = Smaller(ReplaySize, Len(q) + 1)
<1>1. ReplaySize \in Nat /\ 1 <= ReplaySize /\ Len(q) \in Nat
  BY LimitsAssumption
<1>2. CASE Len(q) < ReplaySize
  <2>1. Push(q, e) = Append(q, e)
    BY <1>2 DEF Push
  <2> QED BY <1>1, <1>2, <2>1 DEF Smaller
<1>3. CASE ~ (Len(q) < ReplaySize)
  <2>1. q # <<>> /\ Len(q) = ReplaySize
    BY <1>1, <1>3
  <2>2. Tail(q) \in Seq(Event) /\ Len(Tail(q)) = Len(q) - 1
    BY <2>1
  <2>3. Push(q, e) = Append(Tail(q), e)
    BY <1>3 DEF Push
  <2> QED BY <1>1, <2>1, <2>2, <2>3 DEF Smaller
<1> QED BY <1>2, <1>3

LEMMA BufferInit == Init => BufferInv
<1> SUFFICES ASSUME Init PROVE BufferInv
  OBVIOUS
<1>1. <<>> \in Seq(Event) /\ Len(<<>>) = 0
  OBVIOUS
<1>2. ReplaySize \in Nat
  BY LimitsAssumption
<1> QED BY <1>1, <1>2 DEF Init, BufferInv, ReplayIsFull, Smaller

LEMMA BufferStep == Table /\ Table' /\ BufferInv /\ [Next]_vars => BufferInv'
<1> SUFFICES ASSUME Table, Table', BufferInv, [Next]_vars PROVE BufferInv'
  OBVIOUS
<1>1. ReplaySize \in Nat /\ Len(rows) \in Nat /\ Len(buffer) \in Nat
  BY LimitsAssumption DEF Table, TableType, BufferInv
<1>2. CASE UNCHANGED <<rows, buffer>>
  BY <1>2 DEF BufferInv, ReplayIsFull
<1>3. ASSUME NEW e \in Event, HandleEvent(e) PROVE BufferInv'
  <2>1. buffer' = Push(buffer, e) /\ rows' = Append(Without(e.id), e)
    BY <1>3 DEF HandleEvent, Add
  <2>2. /\ buffer' \in Seq(Event) /\ Len(buffer') <= ReplaySize
        /\ Len(buffer') = Smaller(ReplaySize, Len(buffer) + 1)
    BY <2>1, PushKeeps DEF BufferInv
  <2>3. Without(e.id) \in Seq(Event) /\ Len(Without(e.id)) <= Len(rows)
    <3>1. Without(e.id) \in Seq(Event)
      BY WithoutIsOthers, Zenon DEF Table
    <3>2. CASE \E i \in DOMAIN rows : Holds(i, e.id)
      <4>1. Len(rows) - 1 \in Nat
        BY <3>2 DEF Table, TableType
      <4>2. DOMAIN Without(e.id) = 1 .. Len(rows) - 1
        BY <3>2 DEF Without
      <4> QED BY <1>1, <3>1, <4>1, <4>2
    <3>3. CASE ~ \E i \in DOMAIN rows : Holds(i, e.id)
      BY <3>1, <3>3, <1>1 DEF Without
    <3> QED BY <3>2, <3>3
  <2>4. Len(rows') \in Nat /\ Len(rows') <= Len(rows) + 1
    BY <1>1, <2>1, <2>3
  <2>5. Len(buffer) >= Smaller(ReplaySize, Len(rows))
    BY DEF BufferInv, ReplayIsFull
  <2>6. Len(buffer') >= Smaller(ReplaySize, Len(rows'))
    BY <1>1, <2>2, <2>4, <2>5 DEF Smaller
  <2> QED BY <2>2, <2>6 DEF BufferInv, ReplayIsFull
<1>4. CASE Restart
  <2>1. buffer' = Latest(ReplaySize) /\ rows' = rows
    BY <1>4 DEF Restart
  <2>2. /\ Latest(ReplaySize) \in Seq(Event)
        /\ Len(Latest(ReplaySize)) = Smaller(ReplaySize, Len(rows))
    BY LatestIsFull DEF Table
  <2> QED BY <1>1, <2>1, <2>2 DEF BufferInv, ReplayIsFull, Smaller
<1> QED BY <1>2, <1>3, <1>4 DEF Next, FirstPage, NextPage, vars

-----------------------------------------------------------------------------
(* The table as the answer to a search: no row is there twice.              *)
LEMMA AnswerHasNoDoubles ==
  ASSUME Table, NEW Q \in SUBSET DOMAIN rows
  PROVE  Cardinality({rows[i] : i \in Q}) = Cardinality(Q)
<1> DEFINE T == {rows[i] : i \in Q}
           row == [i \in Q |-> rows[i]]
<1>1. IsFiniteSet(Q)
  BY RankIsBijective, Zenon DEF Table
<1>2. \A i, j \in Q : row[i] = row[j] => i = j
  <2> SUFFICES ASSUME NEW i \in Q, NEW j \in Q, rows[i] = rows[j], i # j
               PROVE  FALSE
    OBVIOUS
  <2>1. i < j \/ j < i
    BY DEF Table, TableType
  <2> QED BY <2>1 DEF Table, ArchiveIsLastWord
<1>3. row \in Bijection(Q, T)
  BY <1>2 DEF Bijection, Injection, Surjection, IsInjective
<1>4. ExistsBijection(Q, T)
  BY <1>3 DEF ExistsBijection
<1> QED BY <1>1, <1>4, FS_Bijection, Zenon

LEMMA PiecesJoin ==
  ASSUME NEW S, NEW q \in Seq(S), NEW a \in 0 .. Len(q), NEW b \in a .. Len(q)
  PROVE  SubSeq(q, 1, a) \o SubSeq(q, a + 1, b) = SubSeq(q, 1, b)
<1> DEFINE x == SubSeq(q, 1, a)
           y == SubSeq(q, a + 1, b)
           z == SubSeq(q, 1, b)
<1>1. /\ x \in Seq(S) /\ Len(x) = a /\ \A i \in 1 .. a : x[i] = q[i]
      /\ y \in Seq(S) /\ Len(y) = b - a /\ \A i \in 1 .. b - a : y[i] = q[a + i]
      /\ z \in Seq(S) /\ Len(z) = b /\ \A i \in 1 .. b : z[i] = q[i]
  OBVIOUS
<1> HIDE DEF x, y, z
<1>2. /\ x \o y \in Seq(S) /\ Len(x \o y) = b
      /\ \A i \in 1 .. b : (x \o y)[i] = IF i <= a THEN x[i] ELSE y[i - a]
  BY <1>1
<1>3. \A i \in 1 .. b : (x \o y)[i] = z[i]
  <2> SUFFICES ASSUME NEW i \in 1 .. b PROVE (x \o y)[i] = z[i]
    OBVIOUS
  <2>1. CASE i <= a
    <3>1. i \in 1 .. a
      BY <2>1
    <3> QED BY <1>1, <1>2, <2>1, <3>1
  <2>2. CASE ~ (i <= a)
    <3>1. i - a \in 1 .. b - a /\ a + (i - a) = i
      BY <2>2
    <3> QED BY <1>1, <1>2, <2>2, <3>1
  <2> QED BY <2>1, <2>2
<1>4. x \o y = z
  BY <1>1, <1>2, <1>3, SeqEqual
<1> QED BY <1>4 DEF x, y, z

(* The walk of a client.                                                    *)
WalkType ==
  \/ walk = NoWalk
  \/ /\ walk.state \in {"paging", "done"} /\ walk.filter \in Filters
     /\ walk.offset \in Nat /\ walk.total \in Nat
     /\ walk.pages \in Seq(Event) /\ walk.start \subseteq Event
     /\ walk.from \in 0 .. Len(log) /\ walk.to \in walk.from .. Len(log)

(* Matching and Ordered with the table as a parameter: what they say of one *)
(* table does not depend on the state.                                      *)
MatchingIn(table, f) == {i \in DOMAIN table : Matches(f, table[i])}
OrderedIn(table, Q) ==
  [k \in 1 .. Cardinality(Q) |->
     table[CHOOSE i \in Q : Cardinality({j \in Q :
                   \/ TextLess(table[i].stamp, table[j].stamp)
                   \/ (table[i].stamp = table[j].stamp /\ i < j)}) = k - 1]]

LEMMA TheTable ==
  /\ \A f : Matching(f) = MatchingIn(rows, f)
  /\ \A Q : Ordered(Q) = OrderedIn(rows, Q)
<1>1. \A f : Matching(f) = MatchingIn(rows, f)
  BY DEF Matching, MatchingIn
<1>2. ASSUME NEW Q PROVE Ordered(Q) = OrderedIn(rows, Q)
  BY DEF Ordered, OrderedIn, ComesFirst
<1> QED BY <1>1, <1>2

(* As long as nothing arrives, the pages are a beginning of the result.     *)
Finished(w) ==
  /\ Elements(w.pages) = w.start
  /\ Len(w.pages) = Cardinality(w.start) /\ w.total = Len(w.pages)
UnderwayIn(table, w) ==
  LET Q == MatchingIn(table, w.filter)
  IN  /\ w.start = {table[i] : i \in Q}
      /\ w.offset \in Nat /\ w.offset < Cardinality(Q)
      /\ w.pages = SubSeq(OrderedIn(table, Q), 1, w.offset)
Underway(w) == UnderwayIn(rows, w)
WalkInv ==
  /\ WalkType
  /\ walk # NoWalk /\ walk.from = walk.to =>
       /\ walk.state = "done" => Finished(walk)
       /\ walk.state = "paging" /\ walk.to = Len(log) => Underway(walk)

LEMMA WalkInit == Init => WalkInv
BY DEF Init, WalkInv, WalkType

LEMMA MatchingIsRows == \A f : Matching(f) \in SUBSET DOMAIN rows
BY DEF Matching

(* A request at an offset the client has got to, with nothing in between.   *)
LEMMA AskGoesOn ==
  ASSUME Table, NEW f \in Filters, NEW offset \in Nat, NEW before, NEW start, NEW from,
         Ask(f, offset, before, start, from),
         start = {rows[i] : i \in Matching(f)}, offset <= Cardinality(Matching(f)),
         before = SubSeq(Ordered(Matching(f)), 1, offset)
  PROVE  /\ walk'.state = "done" => Finished(walk')
         /\ walk'.state = "paging" => Underway(walk')
<1> DEFINE Q == Matching(f)
           n == Cardinality(Q)
           all == Ordered(Q)
           last == Smaller(offset + PageSize, n)
<1>1. Q \in SUBSET DOMAIN rows /\ PageSize \in 1 .. MaxLimit /\ PageSize \in Nat
  BY MatchingIsRows, LimitsAssumption
<1>2. /\ all \in Seq(Event) /\ Len(all) = n /\ n \in Nat
      /\ Elements(all) = start
  BY <1>1, OrderedEnumerates, Zenon DEF Table
<1>3. Chosen(Q, PageSize, offset) = SubSeq(all, offset + 1, last)
  BY <1>1, ChosenIsPiece, Zenon DEF Table
<1>4. Cardinality(start) = n
  BY <1>1, AnswerHasNoDoubles, Zenon
<1>5. /\ walk'.state = (IF offset + PageSize >= n THEN "done" ELSE "paging")
      /\ walk'.filter = f /\ walk'.offset = offset + PageSize
      /\ walk'.pages = before \o Chosen(Q, PageSize, offset)
      /\ walk'.total = n /\ walk'.start = start
  BY DEF Ask
<1> HIDE DEF Q, n, all
<1>6. offset \in 0 .. Len(all) /\ last \in offset .. Len(all)
  BY <1>1, <1>2 DEF n, Smaller, Q
<1> HIDE DEF last
<1>7. walk'.pages = SubSeq(all, 1, last)
  <2>1. SubSeq(all, 1, offset) \o SubSeq(all, offset + 1, last) = SubSeq(all, 1, last)
    BY <1>2, <1>6, PiecesJoin, Zenon
  <2> QED BY <2>1, <1>3, <1>5 DEF all, Q
<1>8. CASE offset + PageSize >= n
  <2>1. last = n
    BY <1>8, <1>1, <1>2 DEF last, Smaller
  <2>2. SubSeq(all, 1, n) = all
    BY <1>2
  <2>3. walk'.pages = all
    BY <1>7, <2>1, <2>2
  <2>4. Finished(walk')
    BY <1>2, <1>4, <1>5, <2>3 DEF Finished
  <2> QED BY <1>5, <1>8, <2>4
<1>9. CASE ~ (offset + PageSize >= n)
  <2>1. last = offset + PageSize /\ offset + PageSize < n /\ offset + PageSize \in Nat
    BY <1>9, <1>1, <1>2 DEF last, Smaller
  <2>2. Underway(walk')
    BY <1>5, <1>7, <2>1, TheTable DEF Underway, UnderwayIn, Q, n, all
  <2> QED BY <1>5, <1>9, <2>2
<1> QED BY <1>8, <1>9

(* The types of what a request leaves behind.                               *)
LEMMA AskKeepsTypes ==
  ASSUME Table, NEW f \in Filters, NEW offset \in Nat, NEW before \in Seq(Event),
         NEW start \in SUBSET Event, NEW from \in 0 .. Len(log),
         Ask(f, offset, before, start, from), log' = log
  PROVE  /\ WalkType' /\ walk' # NoWalk
         /\ walk'.from = from /\ walk'.to = Len(log)
<1>1. PageSize \in 1 .. MaxLimit /\ PageSize \in Nat /\ Len(log) \in Nat
  BY LimitsAssumption DEF Table, TableType
<1>2. Matching(f) \in SUBSET DOMAIN rows
  BY MatchingIsRows
<1>3. Chosen(Matching(f), PageSize, offset) \in Seq(Event)
      /\ Cardinality(Matching(f)) \in Nat
  BY <1>1, <1>2, ChosenIsPiece, Zenon DEF Table
<1>4. before \o Chosen(Matching(f), PageSize, offset) \in Seq(Event)
  BY <1>3
<1>5. /\ walk'.state \in {"paging", "done"} /\ walk'.filter = f
      /\ walk'.offset = offset + PageSize /\ walk'.total = Cardinality(Matching(f))
      /\ walk'.pages = before \o Chosen(Matching(f), PageSize, offset)
      /\ walk'.start = start /\ walk'.from = from /\ walk'.to = Len(log)
  BY DEF Ask
<1>6. walk' # NoWalk
  BY <1>5 DEF NoWalk
<1> QED BY <1>1, <1>3, <1>4, <1>5, <1>6 DEF WalkType

LEMMA WalkStep == Table /\ WalkInv /\ [Next]_vars => WalkInv'
<1> SUFFICES ASSUME Table, WalkInv, [Next]_vars PROVE WalkInv'
  OBVIOUS
<1>1. Len(log) \in Nat
  BY DEF Table, TableType
<1>2. CASE UNCHANGED <<rows, walk, log>>
  <2>1. Underway(walk) => Underway(walk)'
    BY <1>2 DEF Underway
  <2>2. \A w : Finished(w) => Finished(w)'
    BY DEF Finished, Elements
  <2> QED BY <1>2, <2>1, <2>2 DEF WalkInv, WalkType
<1>3. ASSUME NEW e \in Event, HandleEvent(e) PROVE WalkInv'
  <2>1. walk' = walk /\ Len(log') = Len(log) + 1
    BY <1>3 DEF HandleEvent, Table, TableType
  <2>2. WalkType'
    BY <1>1, <2>1 DEF WalkInv, WalkType
  <2>3. walk # NoWalk => walk.to # Len(log')
    BY <1>1, <2>1 DEF WalkInv, WalkType
  <2>4. Finished(walk) => Finished(walk)'
    BY <2>1 DEF Finished, Elements
  <2> QED BY <2>1, <2>2, <2>3, <2>4 DEF WalkInv
<1>4. ASSUME NEW f \in Filters, FirstPage(f) PROVE WalkInv'
  <2> DEFINE start == {rows[i] : i \in Matching(f)}
  <2>1. Ask(f, 0, <<>>, start, Len(log)) /\ UNCHANGED <<rows, log>>
    BY <1>4 DEF FirstPage
  <2>2. /\ start \in SUBSET Event /\ <<>> \in Seq(Event)
        /\ Len(log) \in 0 .. Len(log) /\ 0 \in Nat
    <3>1. \A i \in DOMAIN rows : rows[i] \in Event
      BY ElementAt, Zenon DEF Table, TableType
    <3> QED BY <1>1, <3>1, MatchingIsRows
  <2>3. /\ Ordered(Matching(f)) \in Seq(Event)
        /\ Cardinality(Matching(f)) \in Nat
    BY MatchingIsRows, OrderedEnumerates, Zenon DEF Table
  <2>4. <<>> = SubSeq(Ordered(Matching(f)), 1, 0) /\ 0 <= Cardinality(Matching(f))
    BY <2>3
  <2>5. /\ WalkType' /\ walk' # NoWalk
        /\ walk'.from = Len(log) /\ walk'.to = Len(log)
    BY <2>1, <2>2, AskKeepsTypes, Zenon
  <2>6. /\ walk'.state = "done" => Finished(walk')
        /\ walk'.state = "paging" => Underway(walk')
    BY <2>1, <2>2, <2>4, AskGoesOn, Zenon
  <2>7. Underway(walk') => Underway(walk)'
    BY <2>1 DEF Underway
  <2> QED BY <2>1, <2>5, <2>6, <2>7 DEF WalkInv, Finished, Elements
<1>5. CASE NextPage
  <2>1. /\ walk.state = "paging"
        /\ Ask(walk.filter, walk.offset, walk.pages, walk.start, walk.from)
        /\ UNCHANGED <<rows, log>>
    BY <1>5 DEF NextPage
  <2>2. walk # NoWalk
    BY <2>1 DEF NoWalk
  <2>3. /\ walk.filter \in Filters /\ walk.offset \in Nat
        /\ walk.pages \in Seq(Event) /\ walk.start \in SUBSET Event
        /\ walk.from \in 0 .. Len(log) /\ walk.to \in walk.from .. Len(log)
    BY <2>2 DEF WalkInv, WalkType
  <2>4. /\ WalkType' /\ walk' # NoWalk
        /\ walk'.from = walk.from /\ walk'.to = Len(log)
    BY <2>1, <2>3, AskKeepsTypes, Zenon
  <2>5. ASSUME walk'.from = walk'.to
        PROVE  /\ walk'.state = "done" => Finished(walk')
               /\ walk'.state = "paging" => Underway(walk')
    <3>1. walk.from = walk.to /\ walk.to = Len(log)
      BY <1>1, <2>3, <2>4, <2>5
    <3>2. Underway(walk)
      BY <2>1, <2>2, <3>1 DEF WalkInv
    <3>3. /\ walk.start = {rows[i] : i \in Matching(walk.filter)}
          /\ walk.offset < Cardinality(Matching(walk.filter))
          /\ walk.pages = SubSeq(Ordered(Matching(walk.filter)), 1, walk.offset)
      BY <3>2, TheTable DEF Underway, UnderwayIn
    <3>4. Cardinality(Matching(walk.filter)) \in Nat
      BY MatchingIsRows, OrderedEnumerates, Zenon DEF Table
    <3>5. walk.offset <= Cardinality(Matching(walk.filter))
      BY <2>3, <3>3, <3>4
    <3> QED BY <2>1, <2>3, <3>3, <3>5, AskGoesOn, Zenon
  <2>6. Underway(walk') => Underway(walk)'
    BY <2>1 DEF Underway
  <2> QED BY <2>1, <2>4, <2>5, <2>6 DEF WalkInv, Finished, Elements
<1> QED BY <1>2, <1>3, <1>4, <1>5 DEF Next, Restart, vars

-----------------------------------------------------------------------------
(* Events that come in the order of their timestamps, each with its own id. *)
Sorted(q) == \A i, j \in DOMAIN q : i < j => ~ TextLess(q[j].stamp, q[i].stamp)
Fresh == Survivors = DOMAIN log

\* The end of a sequence that fits into the buffer.
LastOf(q) ==
  LET m == Smaller(ReplaySize, Len(q)) IN [k \in 1 .. m |-> q[Len(q) - m + k]]

(* Read back from the archive, sorted rows are in the order of arrival.     *)
LEMMA LatestIsLast ==
  ASSUME Table, Sorted(rows)
  PROVE  Latest(ReplaySize) = LastOf(rows)
<1> DEFINE n == Len(rows)
           Q == DOMAIN rows
           m == Smaller(ReplaySize, n)
           page == Chosen(Q, ReplaySize, 0)
<1>1. rows \in Seq(Event) /\ Q = 1 .. n /\ n \in Nat /\ Q \in SUBSET DOMAIN rows
  BY DEF Table, TableType
<1>2. ReplaySize \in 1 .. MaxLimit /\ ReplaySize \in Nat /\ 1 <= ReplaySize /\ 0 \in Nat
  BY LimitsAssumption
<1>3. m \in 0 .. n
  BY <1>1, <1>2 DEF Smaller
<1>4. \A i \in 1 .. n : rows[i].stamp \in Stamps
  <2> SUFFICES ASSUME NEW i \in 1 .. n PROVE rows[i].stamp \in Stamps
    OBVIOUS
  <2>1. rows[i] \in Event
    BY <1>1, ElementAt, Zenon
  <2> QED BY <2>1 DEF Event
<1>5. \A i, j \in 1 .. n : ComesFirst(j, i) <=> i < j
  <2> SUFFICES ASSUME NEW i \in 1 .. n, NEW j \in 1 .. n
               PROVE  ComesFirst(j, i) <=> i < j
    OBVIOUS
  <2>1. ComesFirst(j, i) <=> TextLess(rows[i].stamp, rows[j].stamp)
                               \/ (rows[i].stamp = rows[j].stamp /\ i < j)
    BY DEF ComesFirst
  <2>2. CASE i < j
    <3>1. ~ TextLess(rows[j].stamp, rows[i].stamp)
      BY <2>2, <1>1 DEF Sorted
    <3> QED BY <2>1, <2>2, <3>1, <1>4, StampsAreOrdered
  <2>3. CASE j < i
    <3>1. ~ TextLess(rows[i].stamp, rows[j].stamp)
      BY <2>3, <1>1 DEF Sorted
    <3> QED BY <2>1, <2>3, <3>1
  <2>4. CASE i = j
    BY <2>1, <2>4, <1>4, StampsAreOrdered
  <2> QED BY <2>2, <2>3, <2>4
<1>6. \A i \in 1 .. n : Cardinality(Before(Q, i)) = n - i
  <2> SUFFICES ASSUME NEW i \in 1 .. n PROVE Cardinality(Before(Q, i)) = n - i
    OBVIOUS
  <2>1. Before(Q, i) = i + 1 .. n
    BY <1>1, <1>5 DEF Before
  <2> HIDE DEF n, Q
  <2>2. i + 1 \in Int /\ n \in Int /\ (IF i + 1 > n THEN 0 ELSE n - (i + 1) + 1) = n - i
    <3>1. i \in Nat /\ n \in Nat /\ i <= n
      BY <1>1
    <3> QED BY <3>1
  <2>3. Cardinality(i + 1 .. n) = IF i + 1 > n THEN 0 ELSE n - (i + 1) + 1
    BY <2>2, FS_Interval, Zenon
  <2> QED BY <2>1, <2>2, <2>3
<1>7. Ordered(Q) \in Seq(Event) /\ Len(Ordered(Q)) = Cardinality(Q)
  BY <1>1, OrderedEnumerates, Zenon DEF Table
<1>8. Cardinality(Q) = n
  <2>1. 1 \in Int /\ n \in Int /\ (IF 1 > n THEN 0 ELSE n - 1 + 1) = n
    BY <1>1
  <2> HIDE DEF n
  <2>2. Cardinality(1 .. n) = IF 1 > n THEN 0 ELSE n - 1 + 1
    BY <2>1, FS_Interval, Zenon
  <2> QED BY <1>1, <2>1, <2>2
<1>9. \A k \in 1 .. n : Ordered(Q)[k] = rows[n + 1 - k]
  <2> SUFFICES ASSUME NEW k \in 1 .. n PROVE Ordered(Q)[k] = rows[n + 1 - k]
    OBVIOUS
  <2> DEFINE at == CHOOSE i \in Q : Cardinality(Before(Q, i)) = k - 1
  <2>1. Ordered(Q)[k] = rows[at]
    BY <1>8 DEF Ordered, Before
  <2>2. n + 1 - k \in Q /\ Cardinality(Before(Q, n + 1 - k)) = k - 1
    BY <1>1, <1>6
  <2>3. at \in Q /\ Cardinality(Before(Q, at)) = k - 1
    BY <2>2
  <2> HIDE DEF at
  <2>4. at = n + 1 - k
    BY <2>3, <1>1, <1>6
  <2> QED BY <2>1, <2>4
<1>10. page = SubSeq(Ordered(Q), 0 + 1, Smaller(0 + ReplaySize, Cardinality(Q)))
  BY <1>1, <1>2, ChosenIsPiece, Zenon DEF Table
<1>11. 0 + 1 = 1 /\ 0 + ReplaySize = ReplaySize
  BY <1>2
<1>12. page = SubSeq(Ordered(Q), 1, m)
  BY <1>8, <1>10, <1>11
<1> HIDE DEF page, m, Q, n
<1>13. Len(page) = m /\ \A k \in 1 .. m : page[k] = rows[n + 1 - k]
  BY <1>1, <1>3, <1>7, <1>8, <1>9, <1>12
<1>14. \A k \in 1 .. m : page[m + 1 - k] = rows[n - m + k]
  <2> SUFFICES ASSUME NEW k \in 1 .. m PROVE page[m + 1 - k] = rows[n - m + k]
    OBVIOUS
  <2>1. m + 1 - k \in 1 .. m /\ n + 1 - (m + 1 - k) = n - m + k
    BY <1>1, <1>3
  <2> QED BY <1>13, <2>1
<1>15. Latest(ReplaySize) = [k \in 1 .. m |-> page[m + 1 - k]]
  BY <1>13 DEF Latest, Reversed, page, Q
<1>16. LastOf(rows) = [k \in 1 .. m |-> rows[n - m + k]]
  BY DEF LastOf, m, n
<1> QED BY <1>14, <1>15, <1>16

LEMMA LastOfFits ==
  ASSUME NEW q \in Seq(Event)
  PROVE  LET m == Smaller(ReplaySize, Len(q)) IN
         /\ LastOf(q) \in Seq(Event) /\ Len(LastOf(q)) = m
         /\ \A k \in 1 .. m : LastOf(q)[k] = q[Len(q) - m + k]
<1> DEFINE m == Smaller(ReplaySize, Len(q))
<1>1. LastOf(q) = [k \in 1 .. m |-> q[Len(q) - m + k]]
  BY DEF LastOf
<1>2. m \in 0 .. Len(q) /\ m \in Nat
  BY LimitsAssumption DEF Smaller
<1> HIDE DEF m
<1>3. \A k \in 1 .. m : q[Len(q) - m + k] \in Event
  <2> SUFFICES ASSUME NEW k \in 1 .. m PROVE q[Len(q) - m + k] \in Event
    OBVIOUS
  <2>1. Len(q) - m + k \in DOMAIN q
    BY <1>2
  <2> QED BY <2>1, ElementAt, Zenon
<1>4. /\ LastOf(q) \in Seq(Event) /\ Len(LastOf(q)) = m
      /\ \A k \in 1 .. m : LastOf(q)[k] = q[Len(q) - m + k]
  BY <1>1, <1>2, <1>3
<1> QED BY <1>4 DEF m

(* So it is in the buffer as events arrive.                                 *)
LEMMA PushIsLast ==
  ASSUME NEW q \in Seq(Event), NEW e \in Event
  PROVE  Push(LastOf(q), e) = LastOf(Append(q, e))
<1> DEFINE n == Len(q)
           m == Smaller(ReplaySize, n)
           next == Smaller(ReplaySize, n + 1)
           old == LastOf(q)
           new == LastOf(Append(q, e))
<1>1. n \in Nat /\ ReplaySize \in Nat /\ 1 <= ReplaySize
  BY LimitsAssumption
<1>2. m \in 0 .. n /\ next \in 1 .. n + 1 /\ m = Smaller(ReplaySize, n)
      /\ next = Smaller(ReplaySize, n + 1)
  BY <1>1 DEF Smaller
<1>3. n = Len(q) /\ m \in 0 .. n /\ Append(q, e) \in Seq(Event)
  BY <1>2
<1>4. /\ Len(Append(q, e)) = n + 1 /\ Append(q, e)[n + 1] = e /\ n + 1 \in Nat
      /\ \A i \in 1 .. n : Append(q, e)[i] = q[i]
  BY <1>1
<1>7. old \in Seq(Event) /\ Len(old) = m /\ \A k \in 1 .. m : old[k] = q[n - m + k]
  BY LastOfFits, Zenon
<1>8. /\ new \in Seq(Event) /\ Len(new) = next
      /\ \A k \in 1 .. next : new[k] = Append(q, e)[n + 1 - next + k]
  <2> DEFINE longer == Append(q, e)
             size == Smaller(ReplaySize, Len(longer))
  <2>1. /\ new \in Seq(Event) /\ Len(new) = size
        /\ \A k \in 1 .. size : new[k] = longer[Len(longer) - size + k]
    BY <1>3, LastOfFits, Zenon
  <2>2. Len(longer) = n + 1 /\ size = next
    BY <1>4
  <2> HIDE DEF longer, size, new, next, n
  <2>3. Len(new) = next
    BY <2>1, <2>2, Zenon
  <2>4. ASSUME NEW k \in 1 .. next PROVE new[k] = longer[n + 1 - next + k]
    <3>1. new[k] = longer[Len(longer) - size + k]
      BY <2>1, <2>2, Zenon
    <3>2. Len(longer) - size + k = n + 1 - next + k
      BY <1>1, <1>2, <2>2
    <3> QED BY <3>1, <3>2, Zenon
  <2>5. \A k \in 1 .. next : new[k] = Append(q, e)[n + 1 - next + k]
    BY <2>4, Zenon DEF longer
  <2> QED BY <2>1, <2>3, <2>5, Zenon
<1> HIDE DEF n, m, next
<1> HIDE DEF old, new
<1>9. /\ new[next] = e
      /\ \A k \in 1 .. next : k < next => new[k] = q[n + 1 - next + k]
  <2>1. next \in 1 .. next /\ n + 1 - next + next = n + 1
    BY <1>1, <1>2
  <2>2. new[next] = e
    BY <1>4, <1>8, <2>1
  <2>3. \A k \in 1 .. next : k < next => n + 1 - next + k \in 1 .. n
    BY <1>1, <1>2
  <2> QED BY <1>4, <1>8, <2>2, <2>3
<1>10. new \in Seq(Event) /\ Len(new) = next
  BY <1>8
<1>11. CASE m < ReplaySize
  <2>1. m = n /\ next = n + 1
    BY <1>1, <1>2, <1>11 DEF Smaller
  <2>2. Push(old, e) = Append(old, e)
    BY <1>7, <1>11 DEF Push
  <2>3. /\ Append(old, e) \in Seq(Event) /\ Len(Append(old, e)) = next
        /\ Append(old, e)[next] = e /\ \A k \in 1 .. n : Append(old, e)[k] = old[k]
    BY <1>7, <2>1
  <2>4. \A k \in 1 .. next : Append(old, e)[k] = new[k]
    <3> SUFFICES ASSUME NEW k \in 1 .. next PROVE Append(old, e)[k] = new[k]
      OBVIOUS
    <3>1. CASE k = next
      BY <3>1, <2>3, <1>9
    <3>2. CASE k # next
      <4>1. k \in 1 .. n /\ n - m + k = k /\ n + 1 - next + k = k /\ k < next
        BY <3>2, <1>1, <2>1
      <4>2. old[k] = q[n - m + k]
        BY <4>1, <1>7, <2>1
      <4>3. new[k] = q[n + 1 - next + k]
        BY <4>1, <1>9
      <4> QED BY <4>1, <4>2, <4>3, <2>3
    <3> QED BY <3>1, <3>2
  <2>5. Append(old, e) = new
    BY <1>10, <2>3, <2>4, SeqEqual
  <2> QED BY <2>2, <2>5 DEF old, new
<1>12. CASE ~ (m < ReplaySize)
  <2>1. m = ReplaySize /\ next = m /\ 1 <= m
    BY <1>1, <1>2, <1>12 DEF Smaller
  <2>2. Push(old, e) = Append(Tail(old), e)
    BY <1>7, <1>12 DEF Push
  <2>3. /\ Tail(old) \in Seq(Event) /\ Len(Tail(old)) = m - 1
        /\ \A k \in 1 .. m - 1 : Tail(old)[k] = old[k + 1]
    BY <1>1, <1>7, <2>1
  <2> DEFINE t == Append(Tail(old), e)
  <2>4. /\ t \in Seq(Event) /\ Len(t) = m /\ t[m] = e
        /\ \A k \in 1 .. m - 1 : t[k] = old[k + 1]
    BY <2>1, <2>3, <1>2
  <2> HIDE DEF t
  <2>5. \A k \in 1 .. m : t[k] = new[k]
    <3> SUFFICES ASSUME NEW k \in 1 .. m PROVE t[k] = new[k]
      OBVIOUS
    <3>1. CASE k = m
      BY <3>1, <2>1, <2>4, <1>9
    <3>2. CASE k # m
      <4>1. k \in 1 .. m - 1 /\ k + 1 \in 1 .. m /\ k < next
            /\ n - m + (k + 1) = n + 1 - next + k /\ k \in 1 .. next
        BY <3>2, <1>1, <1>2, <2>1
      <4> QED BY <4>1, <1>7, <1>9, <2>4
    <3> QED BY <3>1, <3>2
  <2>6. t = new
    BY <1>10, <2>1, <2>4, <2>5, SeqEqual
  <2> QED BY <2>2, <2>6 DEF old, new, t
<1> QED BY <1>1, <1>2, <1>11, <1>12

(* The buffer and the archive agree as long as timestamps and arrivals do.  *)
StableInv ==
  Fresh => rows = log /\ (Sorted(log) => buffer = LastOf(log))

LEMMA StableInit == Init => StableInv
<1> SUFFICES ASSUME Init PROVE StableInv
  OBVIOUS
<1>1. rows = <<>> /\ log = <<>> /\ buffer = <<>> /\ Len(<<>>) = 0
  BY DEF Init
<1>2. Smaller(ReplaySize, 0) = 0
  BY LimitsAssumption DEF Smaller
<1>3. <<>> \in Seq(Event) /\ 0 \in Nat
  OBVIOUS
<1>4. LastOf(<<>>) \in Seq(Event) /\ Len(LastOf(<<>>)) = 0
  <2>1. LastOf(<<>>) \in Seq(Event) /\ Len(LastOf(<<>>)) = Smaller(ReplaySize, Len(<<>>))
    BY <1>3, LastOfFits, Zenon
  <2> QED BY <1>1, <1>2, <2>1
<1>5. LastOf(<<>>) = <<>>
  BY <1>4
<1> QED BY <1>1, <1>5 DEF StableInv

LEMMA StableStep == Table /\ StableInv /\ [Next]_vars => StableInv'
<1> SUFFICES ASSUME Table, StableInv, [Next]_vars, Fresh' PROVE StableInv'
  BY DEF StableInv
<1>1. CASE UNCHANGED <<rows, buffer, log>>
  BY <1>1 DEF StableInv, Fresh, Survivors, Sorted
<1>2. ASSUME NEW e \in Event, HandleEvent(e) PROVE StableInv'
  <2>1. /\ log' = Append(log, e) /\ rows' = Append(Without(e.id), e)
        /\ buffer' = Push(buffer, e)
    BY <1>2 DEF HandleEvent, Add
  <2>2. log \in Seq(Event) /\ Len(log) \in Nat /\ DOMAIN log = 1 .. Len(log)
    BY DEF Table, TableType
  <2>3. /\ DOMAIN log' = 1 .. Len(log) + 1 /\ log'[Len(log) + 1] = e
        /\ \A i \in 1 .. Len(log) : log'[i] = log[i]
    BY <2>1, <2>2
  <2>4. \A i, j \in 1 .. Len(log) + 1 : i < j => log'[j].id # log'[i].id
    BY <2>3 DEF Fresh, Survivors
  <2>5. \A i \in 1 .. Len(log) : log[i].id # e.id
    BY <2>2, <2>3, <2>4
  <2>6. Fresh
    BY <2>2, <2>3, <2>4 DEF Fresh, Survivors
  <2>7. rows = log /\ (Sorted(log) => buffer = LastOf(log))
    BY <2>6 DEF StableInv
  <2>8. Without(e.id) = rows
    BY <2>2, <2>5, <2>7 DEF Without, Holds
  <2>9. rows' = log'
    BY <2>1, <2>7, <2>8
  <2>10. ASSUME Sorted(log') PROVE buffer' = LastOf(log')
    <3>1. Sorted(log)
      BY <2>2, <2>3, <2>10 DEF Sorted
    <3>2. Push(LastOf(log), e) = LastOf(Append(log, e))
      BY <2>2, PushIsLast, Zenon
    <3> QED BY <2>1, <2>7, <3>1, <3>2
  <2>11. Sorted(log)' = Sorted(log') /\ LastOf(log)' = LastOf(log')
    OBVIOUS
  <2> QED BY <2>9, <2>10, <2>11 DEF StableInv
<1>3. CASE Restart
  <2>1. rows' = rows /\ log' = log /\ buffer' = Latest(ReplaySize)
    BY <1>3 DEF Restart
  <2>2. Fresh
    BY <2>1 DEF Fresh, Survivors
  <2>3. rows = log
    BY <2>2 DEF StableInv
  <2>4. Sorted(log) => Latest(ReplaySize) = LastOf(log)
    BY <2>3, LatestIsLast
  <2> QED BY <2>1, <2>3, <2>4 DEF StableInv, Sorted
<1> QED BY <1>1, <1>2, <1>3 DEF Next, FirstPage, NextPage, vars

-----------------------------------------------------------------------------
(* While a client pages, the rows it still waits for stay at or after its   *)
(* offset: an event only moves them on, unless it withdraws another one.    *)
WithdrawnBy(n) ==
  \E i \in walk.from + 1 .. n : \E j \in 1 .. i - 1 :
    /\ log[i].id = log[j].id
    /\ TextLess(log[i].stamp, log[j].stamp) \/ ~ Matches(walk.filter, log[i])
ReplacedBy(e, n) == \E i \in walk.from + 1 .. n : log[i].id = e.id
Rank(f, r) == Cardinality(Before(Matching(f), r))
AheadOf(f, offset, e) == \E r \in Matching(f) : rows[r] = e /\ offset <= Rank(f, r)
Ahead(e) == AheadOf(walk.filter, walk.offset, e)
CoverInv ==
  walk # NoWalk =>
    /\ walk.state = "done" => PagesCover
    /\ walk.state = "paging" /\ ~ WithdrawnBy(Len(log)) =>
         \A e \in walk.start \ Elements(walk.pages) : ReplacedBy(e, Len(log)) \/ Ahead(e)

LEMMA CoverInit == Init => CoverInv
BY DEF Init, CoverInv

(* Where an event leaves the rows: it takes the last place, and the others  *)
(* keep their order.                                                        *)
Moves(m, e) ==
  /\ m \in Injection(DOMAIN rows, DOMAIN rows')
  /\ Len(rows') \in DOMAIN rows' /\ rows'[Len(rows')] = e
  /\ \A k \in DOMAIN rows :
       /\ rows[k].id # e.id => rows'[m[k]] = rows[k] /\ m[k] < Len(rows')
       /\ rows[k].id = e.id => m[k] = Len(rows')
  /\ \A i, j \in DOMAIN rows :
       i < j /\ rows[i].id # e.id /\ rows[j].id # e.id => m[i] < m[j]

LEMMA HandleMoves ==
  ASSUME Table, NEW e \in Event, HandleEvent(e)
  PROVE  \E m : Moves(m, e)
<1> DEFINE n == Len(rows)
           kept == Without(e.id)
<1>1. rows \in Seq(Event) /\ DOMAIN rows = 1 .. n /\ n \in Nat
  BY DEF Table, TableType
<1>2. kept \in Seq(Event)
  BY WithoutIsOthers, Zenon DEF Table
<1>3. rows' = Append(kept, e)
  BY DEF HandleEvent, Add
<1>4. /\ Len(kept) \in Nat /\ DOMAIN kept = 1 .. Len(kept)
      /\ DOMAIN rows' = 1 .. Len(kept) + 1 /\ Len(rows') = Len(kept) + 1
      /\ rows'[Len(kept) + 1] = e /\ \A k \in 1 .. Len(kept) : rows'[k] = kept[k]
  BY <1>2, <1>3
<1>5. CASE ~ \E i \in DOMAIN rows : Holds(i, e.id)
  <2> DEFINE m == [k \in DOMAIN rows |-> k]
  <2>1. kept = rows /\ \A k \in DOMAIN rows : rows[k].id # e.id
    BY <1>5 DEF Without, Holds
  <2> HIDE DEF kept
  <2>2. /\ DOMAIN rows' = 1 .. n + 1 /\ Len(rows') = n + 1 /\ rows'[n + 1] = e
        /\ \A k \in 1 .. n : rows'[k] = rows[k]
    BY <1>4, <2>1
  <2>3. m \in Injection(DOMAIN rows, DOMAIN rows')
    BY <1>1, <2>2 DEF Injection, IsInjective
  <2> HIDE DEF n
  <2>4. Moves(m, e)
    BY <1>1, <2>1, <2>2, <2>3 DEF Moves
  <2> QED BY <2>4
<1>6. CASE \E i \in DOMAIN rows : Holds(i, e.id)
  <2> DEFINE old == CHOOSE i \in DOMAIN rows : Holds(i, e.id)
             place(k) == IF k < old THEN k ELSE IF k = old THEN n ELSE k - 1
             m == [k \in DOMAIN rows |-> place(k)]
  <2>1. old \in 1 .. n /\ rows[old].id = e.id
    BY <1>1, <1>6 DEF Holds
  <2>2. kept = [i \in 1 .. n - 1 |-> rows[IF i < old THEN i ELSE i + 1]]
    BY <1>6 DEF Without
  <2> HIDE DEF old, kept
  <2>3. /\ Len(kept) = n - 1 /\ DOMAIN rows' = 1 .. n /\ Len(rows') = n /\ rows'[n] = e
        /\ \A k \in 1 .. n - 1 : rows'[k] = rows[IF k < old THEN k ELSE k + 1]
    <3>1. n - 1 \in Nat
      BY <1>1, <2>1
    <3>2. DOMAIN kept = 1 .. n - 1
      BY <2>2
    <3>3. Len(kept) = n - 1
      BY <1>4, <3>1, <3>2
    <3>4. \A k \in 1 .. n - 1 : kept[k] = rows[IF k < old THEN k ELSE k + 1]
      BY <2>2
    <3> HIDE DEF n
    <3> QED BY <1>1, <1>4, <3>1, <3>3, <3>4
  <2>4. \A k \in 1 .. n : rows[k].id = e.id => k = old
    <3> SUFFICES ASSUME NEW k \in 1 .. n, rows[k].id = rows[old].id, k # old PROVE FALSE
      BY <2>1
    <3>1. k < old \/ old < k
      BY <2>1, <1>1
    <3> QED BY <3>1, <1>1, <2>1 DEF Table, ArchiveIsLastWord
  <2> HIDE DEF n
  <2>5. \A k \in 1 .. n : place(k) \in 1 .. n
    BY <1>1, <2>1
  <2>6. \A i, j \in 1 .. n : place(i) = place(j) => i = j
    BY <1>1, <2>1
  <2>7. \A k \in 1 .. n : k # old => rows'[place(k)] = rows[k] /\ place(k) < n
    <3> SUFFICES ASSUME NEW k \in 1 .. n, k # old
                 PROVE  rows'[place(k)] = rows[k] /\ place(k) < n
      OBVIOUS
    <3>1. CASE k < old
      <4>1. place(k) = k /\ k \in 1 .. n - 1
        BY <3>1, <1>1, <2>1
      <4> QED BY <4>1, <3>1, <1>1, <2>3
    <3>2. CASE ~ (k < old)
      <4>1. place(k) = k - 1 /\ k - 1 \in 1 .. n - 1 /\ ~ (k - 1 < old) /\ k - 1 + 1 = k
        BY <3>2, <1>1, <2>1
      <4> QED BY <4>1, <1>1, <2>3
    <3> QED BY <3>1, <3>2
  <2>8. \A i, j \in 1 .. n : i < j /\ i # old /\ j # old => place(i) < place(j)
    BY <1>1, <2>1
  <2>9. place(old) = n
    BY <1>1, <2>1
  <2> HIDE DEF place
  <2>10. \A k \in 1 .. n : m[k] = place(k)
    BY <1>1
  <2>11. m \in Injection(DOMAIN rows, DOMAIN rows')
    BY <1>1, <2>3, <2>5, <2>6 DEF Injection, IsInjective
  <2> HIDE DEF m
  <2>12. n \in 1 .. n
    BY <1>1, <2>1
  <2>13. Moves(m, e)
    BY <1>1, <2>1, <2>3, <2>4, <2>7, <2>8, <2>9, <2>10, <2>11, <2>12 DEF Moves
  <2> QED BY <2>13
<1> QED BY <1>5, <1>6

(* An event that takes the place of none, or of one that is not later-dated,*)
(* and that matches in the latter case, puts no row on an earlier page.     *)
LEMMA RankGrows ==
  ASSUME Table, Table', NEW e \in Event, HandleEvent(e), NEW f, NEW r \in Matching(f),
         rows[r].id # e.id,
         \A k \in DOMAIN rows : rows[k].id = e.id =>
           ~ TextLess(e.stamp, rows[k].stamp) /\ Matches(f, e)
  PROVE  \E s \in Matching(f)' : /\ rows'[s] = rows[r] /\ Rank(f, r) <= Rank(f, s)'
                                 /\ Rank(f, r) \in Nat /\ Rank(f, s)' \in Nat
<1> DEFINE Q == Matching(f)
           new == Matching(f)'
<1>1. PICK m : Moves(m, e)
  BY HandleMoves
<1>2. /\ m \in Injection(DOMAIN rows, DOMAIN rows')
      /\ Len(rows') \in DOMAIN rows' /\ rows'[Len(rows')] = e
      /\ \A k \in DOMAIN rows :
           /\ rows[k].id # e.id => rows'[m[k]] = rows[k] /\ m[k] < Len(rows')
           /\ rows[k].id = e.id => m[k] = Len(rows')
      /\ \A i, j \in DOMAIN rows :
           i < j /\ rows[i].id # e.id /\ rows[j].id # e.id => m[i] < m[j]
  BY <1>1 DEF Moves
<1>3. /\ \A k \in DOMAIN rows : m[k] \in DOMAIN rows'
      /\ \A i, j \in DOMAIN rows : m[i] = m[j] => i = j
  BY <1>2 DEF Injection, IsInjective
<1>4. /\ Q \in SUBSET DOMAIN rows
      /\ \A k \in DOMAIN rows : k \in Q <=> Matches(f, rows[k])
  BY DEF Matching
<1>5. /\ new \in SUBSET DOMAIN rows'
      /\ \A k \in DOMAIN rows' : k \in new <=> Matches(f, rows'[k])
  BY DEF Matching, Matches
<1>6. \A k \in Q : m[k] \in new
  BY <1>2, <1>3, <1>4, <1>5
<1> DEFINE s == m[r]
           A == Before(Q, r)
           B == {j \in new : ComesFirst(j, s)'}
<1>7. /\ r \in DOMAIN rows /\ s \in new /\ rows'[s] = rows[r] /\ s < Len(rows')
  BY <1>2, <1>4, <1>6
<1>8. \A j \in DOMAIN rows' : ComesFirst(j, s)' <=>
        TextLess(rows'[s].stamp, rows'[j].stamp)
          \/ (rows'[s].stamp = rows'[j].stamp /\ s < j)
  BY DEF ComesFirst, TextLess
<1>9. \A i \in DOMAIN rows : rows[i].stamp \in Stamps
  <2> SUFFICES ASSUME NEW i \in DOMAIN rows PROVE rows[i].stamp \in Stamps
    OBVIOUS
  <2>1. rows[i] \in Event
    BY ElementAt, Zenon DEF Table, TableType
  <2> QED BY <2>1 DEF Event
<1>10. \A j \in A : m[j] \in B
  <2> SUFFICES ASSUME NEW j \in Q, ComesFirst(j, r) PROVE m[j] \in B
    BY DEF Before
  <2>1. j \in DOMAIN rows /\ m[j] \in new /\ m[j] \in DOMAIN rows'
    BY <1>3, <1>4, <1>6
  <2>2. TextLess(rows[r].stamp, rows[j].stamp) \/ (rows[r].stamp = rows[j].stamp /\ r < j)
    BY DEF ComesFirst
  <2>3. CASE rows[j].id = e.id
    <3>1. m[j] = Len(rows') /\ rows'[m[j]] = e /\ s < m[j]
      BY <1>2, <1>7, <2>1, <2>3
    <3>2. ~ TextLess(e.stamp, rows[j].stamp)
      BY <2>1, <2>3
    <3>3. e.stamp \in Stamps
      BY DEF Event
    <3>4. TextLess(rows[r].stamp, e.stamp) \/ rows[r].stamp = e.stamp
      BY <1>7, <1>9, <2>1, <2>2, <3>2, <3>3, StampsAreOrdered
    <3>5. ComesFirst(m[j], s)'
      BY <1>7, <1>8, <2>1, <3>1, <3>4
    <3> QED BY <2>1, <3>5
  <2>4. CASE rows[j].id # e.id
    <3>1. rows'[m[j]] = rows[j] /\ (r < j => s < m[j])
      BY <1>2, <1>7, <2>1, <2>4
    <3>2. ComesFirst(m[j], s)'
      BY <1>7, <1>8, <2>1, <2>2, <3>1
    <3> QED BY <2>1, <3>2
  <2> QED BY <2>3, <2>4
<1>11. A \in SUBSET DOMAIN rows /\ B \in SUBSET DOMAIN rows'
  BY <1>4, <1>5 DEF Before
<1> HIDE DEF A, B, s
<1>12. IsFiniteSet(A) /\ IsFiniteSet(B)
  <2>1. /\ 1 \in Int /\ Len(rows) \in Int /\ Len(rows') \in Int
        /\ DOMAIN rows = 1 .. Len(rows) /\ DOMAIN rows' = 1 .. Len(rows')
    BY DEF Table, TableType
  <2>2. IsFiniteSet(DOMAIN rows) /\ IsFiniteSet(DOMAIN rows')
    BY <2>1, FS_Interval, Zenon
  <2> QED BY <1>11, <2>2, FS_Subset, Zenon
<1> DEFINE h == [j \in A |-> m[j]]
<1>13. h \in Injection(A, B)
  BY <1>3, <1>10, <1>11 DEF Injection, IsInjective
<1> HIDE DEF h
<1>14. Cardinality(A) <= Cardinality(B)
  BY <1>12, <1>13, FS_Injection, Zenon
<1>15. Rank(f, r) = Cardinality(A) /\ Rank(f, s)' = Cardinality(B)
  BY DEF Rank, A, B, Before
<1>16. Cardinality(A) \in Nat /\ Cardinality(B) \in Nat
  BY <1>12, FS_CardinalityType
<1> QED BY <1>7, <1>14, <1>15, <1>16
(* A request returns every row that is less than a page ahead of the        *)
(* offset, and says it was the last one when there are no others.           *)
LEMMA AskCovers ==
  ASSUME Table, NEW f \in Filters, NEW offset \in Nat, NEW before \in Seq(Event),
         NEW start, NEW from, Ask(f, offset, before, start, from), UNCHANGED rows
  PROVE  /\ Elements(before) \subseteq Elements(walk'.pages)
         /\ \A e : AheadOf(f, offset, e) =>
              \/ e \in Elements(walk'.pages)
              \/ walk'.state = "paging" /\ AheadOf(f, offset + PageSize, e)'
<1> DEFINE Q == Matching(f)
           n == Cardinality(Q)
           all == Ordered(Q)
           last == Smaller(offset + PageSize, n)
           page == Chosen(Q, PageSize, offset)
<1>1. Q \in SUBSET DOMAIN rows /\ PageSize \in 1 .. MaxLimit /\ PageSize \in Nat
  BY MatchingIsRows, LimitsAssumption
<1>2. all \in Seq(Event) /\ Len(all) = n /\ n \in Nat
  BY <1>1, OrderedEnumerates, Zenon DEF Table
<1>3. page = SubSeq(all, offset + 1, last) /\ page \in Seq(Event)
  BY <1>1, ChosenIsPiece, Zenon DEF Table
<1>4. /\ walk'.state = (IF offset + PageSize >= n THEN "done" ELSE "paging")
      /\ walk'.pages = before \o page
  BY DEF Ask
<1>5. \A r \in Q : /\ Cardinality(Before(Q, r)) \in 0 .. n - 1
                   /\ \A i \in Q : Cardinality(Before(Q, i)) = Cardinality(Before(Q, r)) => i = r
  BY <1>1, RankIsBijective, Zenon DEF Table
<1>6. \A r \in Q : all[Cardinality(Before(Q, r)) + 1] = rows[r]
  <2> SUFFICES ASSUME NEW r \in Q PROVE all[Cardinality(Before(Q, r)) + 1] = rows[r]
    OBVIOUS
  <2> DEFINE k == Cardinality(Before(Q, r)) + 1
             at == CHOOSE i \in Q : Cardinality(Before(Q, i)) = k - 1
  <2>1. k \in 1 .. n /\ k - 1 = Cardinality(Before(Q, r))
    BY <1>2, <1>5
  <2>2. all = [j \in 1 .. n |-> rows[CHOOSE i \in Q : Cardinality(Before(Q, i)) = j - 1]]
    BY DEF Ordered, Before
  <2> HIDE DEF k, all, n, Q
  <2>3. all[k] = rows[at]
    BY <2>1, <2>2
  <2>4. at \in Q /\ Cardinality(Before(Q, at)) = k - 1
    BY <2>1
  <2> HIDE DEF at
  <2>5. at = r
    BY <1>5, <2>1, <2>4
  <2> QED BY <2>3, <2>5 DEF k
<1> HIDE DEF page, last, all, n, Q
<1>7. \A x \in Elements(before) \cup Elements(page) : x \in Elements(walk'.pages)
  <2>1. /\ \A i \in DOMAIN before : i \in DOMAIN (before \o page)
                                    /\ (before \o page)[i] = before[i]
        /\ \A i \in DOMAIN page : /\ Len(before) + i \in DOMAIN (before \o page)
                                  /\ (before \o page)[Len(before) + i] = page[i]
    <3>1. page \in Seq(Event)
      BY <1>3
    <3>2. /\ DOMAIN (before \o page) = 1 .. Len(before) + Len(page)
          /\ Len(before) \in Nat /\ Len(page) \in Nat
          /\ DOMAIN before = 1 .. Len(before) /\ DOMAIN page = 1 .. Len(page)
      BY <3>1
    <3>3. \A i \in 1 .. Len(before) + Len(page) :
            (before \o page)[i] = IF i <= Len(before) THEN before[i] ELSE page[i - Len(before)]
      BY <3>1
    <3>4. ASSUME NEW i \in 1 .. Len(page)
          PROVE  /\ Len(before) + i \in 1 .. Len(before) + Len(page)
                 /\ ~ (Len(before) + i <= Len(before)) /\ Len(before) + i - Len(before) = i
      BY <3>2
    <3> QED BY <3>2, <3>3, <3>4
  <2>2. /\ \A i \in DOMAIN before : before[i] \in Elements(walk'.pages)
        /\ \A i \in DOMAIN page : page[i] \in Elements(walk'.pages)
    BY <1>4, <2>1 DEF Elements
  <2> QED BY <2>2 DEF Elements
<1>8. ASSUME NEW r \in Q, offset <= Cardinality(Before(Q, r)),
             rows[r] \notin Elements(walk'.pages)
      PROVE  walk'.state = "paging" /\ offset + PageSize <= Cardinality(Before(Q, r))
  <2> DEFINE k == Cardinality(Before(Q, r))
  <2>1. k \in 0 .. n - 1 /\ k \in Nat /\ k < n /\ all[k + 1] = rows[r] /\ offset <= k
    BY <1>2, <1>5, <1>6, <1>8
  <2> HIDE DEF k
  <2>2. ASSUME k < offset + PageSize PROVE FALSE
    <3>1. last \in offset .. n /\ k + 1 - offset \in 1 .. last - offset
      BY <1>1, <1>2, <2>1, <2>2 DEF last, Smaller
    <3>2. k + 1 - offset \in DOMAIN page /\ page[k + 1 - offset] = all[k + 1]
      BY <1>1, <1>2, <1>3, <2>1, <3>1
    <3>3. rows[r] \in Elements(page)
      BY <2>1, <3>2 DEF Elements
    <3> QED BY <1>7, <1>8, <3>3
  <2>3. offset + PageSize <= k
    BY <1>1, <2>1, <2>2
  <2>4. ~ (offset + PageSize >= n)
    BY <1>1, <1>2, <2>1, <2>3
  <2> QED BY <1>4, <2>3, <2>4 DEF k
<1>9. ASSUME NEW e, AheadOf(f, offset, e), e \notin Elements(walk'.pages)
      PROVE  walk'.state = "paging" /\ AheadOf(f, offset + PageSize, e)'
  <2>1. PICK r \in Q : rows[r] = e /\ offset <= Cardinality(Before(Q, r))
    BY <1>9 DEF AheadOf, Rank, Q
  <2>2. walk'.state = "paging" /\ offset + PageSize <= Cardinality(Before(Q, r))
    BY <1>8, <1>9, <2>1
  <2>3. AheadOf(f, offset + PageSize, e)
    BY <2>1, <2>2 DEF AheadOf, Rank, Q
  <2>4. AheadOf(f, offset + PageSize, e)' <=> AheadOf(f, offset + PageSize, e)
    BY DEF AheadOf, Rank, Before, Matching, ComesFirst
  <2> QED BY <2>2, <2>3, <2>4
<1> QED BY <1>7, <1>9

(* An event that arrives between two requests.                              *)
LEMMA CoverHandle ==
  ASSUME Table, Table', WalkInv, CoverInv, NEW e \in Event, HandleEvent(e)
  PROVE  CoverInv'
<1> SUFFICES ASSUME walk # NoWalk PROVE CoverInv'
  BY DEF HandleEvent, CoverInv
<1>1. log \in Seq(Event) /\ Len(log) \in Nat /\ DOMAIN log = 1 .. Len(log)
  BY DEF Table, TableType
<1>2. walk' = walk /\ log' = Append(log, e)
  BY DEF HandleEvent
<1> PICK n \in Nat : n = Len(log) + 1
  BY <1>1
<1>3. /\ Len(log') = n /\ n \in Nat /\ Len(log) < n /\ log'[n] = e
      /\ \A i \in 1 .. Len(log) : log'[i] = log[i]
  BY <1>1, <1>2
<1>4. /\ walk.from \in Nat /\ walk.to \in Nat /\ walk.from <= walk.to /\ walk.to <= Len(log)
      /\ walk.filter \in Filters
  BY <1>1 DEF WalkInv, WalkType
<1>5. ASSUME NEW k \in Nat, k <= Len(log)
      PROVE  /\ WithdrawnBy(k) => WithdrawnBy(k)' /\ WithdrawnBy(n)'
             /\ WithdrawnBy(k)' => WithdrawnBy(k)
             /\ \A x : ReplacedBy(x, k) => ReplacedBy(x, k)' /\ ReplacedBy(x, n)'
  <2>1. \A i \in walk.from + 1 .. k : /\ i \in 1 .. Len(log) /\ i \in walk.from + 1 .. n
                                      /\ \A j \in 1 .. i - 1 : j \in 1 .. Len(log)
    BY <1>1, <1>3, <1>4, <1>5
  <2>2. \A f, x : Matches(f, x)' <=> Matches(f, x)
    BY DEF Matches, TextLess
  <2>3. \A s, t : TextLess(s, t)' <=> TextLess(s, t)
    BY DEF TextLess
  <2>4. ASSUME NEW i \in walk.from + 1 .. k, NEW j \in 1 .. i - 1
        PROVE  log'[i] = log[i] /\ log'[j] = log[j]
    BY <1>3, <2>1
  <2>5. (WithdrawnBy(k) => WithdrawnBy(k)') /\ (WithdrawnBy(k)' => WithdrawnBy(k))
    BY <1>2, <2>2, <2>3, <2>4 DEF WithdrawnBy
  <2>6. WithdrawnBy(k)' => WithdrawnBy(n)'
    BY <1>2, <2>1 DEF WithdrawnBy
  <2>7. \A x : ReplacedBy(x, k) => ReplacedBy(x, k)' /\ ReplacedBy(x, n)'
    BY <1>2, <1>3, <2>1 DEF ReplacedBy
  <2> QED BY <2>5, <2>6, <2>7
<1>6. ASSUME walk.state = "done" PROVE PagesCover'
  <2>1. PagesCover
    BY <1>6 DEF CoverInv
  <2>2. WithdrawnMeanwhile <=> WithdrawnBy(walk.to)
    BY DEF WithdrawnMeanwhile, WithdrawnBy
  <2>3. PICK k \in Nat : k = walk.to
    BY <1>4
  <2>4. WithdrawnMeanwhile' <=> WithdrawnBy(k)'
    BY <1>2, <2>3 DEF WithdrawnMeanwhile, WithdrawnBy
  <2>5. WithdrawnMeanwhile => WithdrawnMeanwhile'
    BY <1>4, <1>5, <2>2, <2>3, <2>4
  <2>6. \A x : ReplacedBy(x, walk.to) => ReplacedBy(x, k)'
    BY <1>4, <1>5, <2>3
  <2>7. Elements(walk.pages)' = Elements(walk.pages)
    BY <1>2 DEF Elements
  <2> QED BY <1>2, <2>1, <2>3, <2>5, <2>6, <2>7 DEF PagesCover, ReplacedBy
<1>7. ASSUME walk.state = "paging", ~ WithdrawnBy(n)',
             NEW x \in walk.start \ Elements(walk.pages)
      PROVE  ReplacedBy(x, n)' \/ Ahead(x)'
  <2>1. ~ WithdrawnBy(Len(log))
    BY <1>1, <1>5, <1>7
  <2>2. ReplacedBy(x, Len(log)) \/ Ahead(x)
    BY <1>7, <2>1 DEF CoverInv
  <2>3. CASE ReplacedBy(x, Len(log))
    BY <1>1, <1>5, <2>3
  <2>4. n \in walk.from + 1 .. n
    BY <1>1, <1>4
  <2>5. CASE x.id = e.id
    BY <1>2, <1>3, <2>4, <2>5 DEF ReplacedBy
  <2>6. CASE Ahead(x) /\ x.id # e.id
    <3>1. PICK f, o : f \in Filters /\ f = walk.filter /\ o = walk.offset
      BY <1>4
    <3>2. PICK r \in Matching(f) : rows[r] = x /\ o <= Rank(f, r)
      BY <2>6, <3>1 DEF Ahead, AheadOf
    <3>3. ASSUME NEW k \in DOMAIN rows, rows[k].id = e.id
          PROVE  ~ TextLess(e.stamp, rows[k].stamp) /\ Matches(f, e)
      <4>1. rows[k] \in {log[p] : p \in Survivors}
        <5>1. rows[k] \in Elements(rows)
          BY DEF Elements
        <5> QED BY <5>1 DEF Table, ArchiveIsLastWord
      <4>2. PICK p \in 1 .. Len(log) : rows[k] = log[p]
        BY <4>1, <1>1 DEF Survivors
      <4>3. p \in 1 .. n - 1 /\ log'[p] = rows[k]
        BY <4>2, <1>1, <1>3
      <4>4. (TextLess(e.stamp, rows[k].stamp) \/ ~ Matches(f, e)) => WithdrawnBy(n)'
        BY <1>2, <1>3, <2>4, <3>1, <3>3, <4>3 DEF WithdrawnBy, TextLess, Matches
      <4> QED BY <1>7, <4>4
    <3>4. PICK s \in Matching(f)' : /\ rows'[s] = rows[r] /\ Rank(f, r) <= Rank(f, s)'
                                    /\ Rank(f, r) \in Nat /\ Rank(f, s)' \in Nat
      BY <2>6, <3>2, <3>3, RankGrows, Zenon
    <3>5. o \in Nat
      BY <3>1 DEF WalkInv, WalkType
    <3>6. s \in Matching(f)' /\ rows'[s] = x /\ o <= Rank(f, s)'
      BY <3>2, <3>4, <3>5
    <3>7. AheadOf(f, o, x)'
      BY <3>6 DEF AheadOf
    <3>8. Ahead(x)' <=> AheadOf(f, o, x)'
      BY <1>2, <3>1 DEF Ahead, AheadOf, Rank, Before, Matching
    <3> QED BY <3>7, <3>8
  <2> QED BY <2>2, <2>3, <2>5, <2>6
<1>8. Len(log)' = n /\ Elements(walk.pages)' = Elements(walk.pages)
  BY <1>2, <1>3 DEF Elements
<1>9. ASSUME walk'.state = "paging", ~ WithdrawnBy(Len(log))',
             NEW x \in (walk.start \ Elements(walk.pages))'
      PROVE  ReplacedBy(x, Len(log))' \/ Ahead(x)'
  <2>1. WithdrawnBy(Len(log))' <=> WithdrawnBy(n)'
    BY <1>8 DEF WithdrawnBy
  <2>2. ReplacedBy(x, Len(log))' <=> ReplacedBy(x, n)'
    BY <1>8 DEF ReplacedBy
  <2> QED BY <1>2, <1>7, <1>8, <1>9, <2>1, <2>2
<1> QED BY <1>2, <1>6, <1>9 DEF CoverInv

(* A request, with the rows as they are.                                    *)
LEMMA CoverAsk ==
  ASSUME Table, NEW f \in Filters, NEW offset \in Nat, NEW before \in Seq(Event),
         NEW start, NEW from, Ask(f, offset, before, start, from), UNCHANGED <<rows, log>>,
         walk'.from = from, walk'.to = Len(log),
         ~ WithdrawnBy(Len(log))' =>
           \A e \in start \ Elements(before) :
             ReplacedBy(e, Len(log))' \/ AheadOf(f, offset, e)
  PROVE  CoverInv'
<1>1. /\ Elements(before) \subseteq Elements(walk'.pages)
      /\ \A e : AheadOf(f, offset, e) =>
           \/ e \in Elements(walk'.pages)
           \/ walk'.state = "paging" /\ AheadOf(f, offset + PageSize, e)'
  BY AskCovers, Zenon
<1>2. /\ walk'.filter = f /\ walk'.offset = offset + PageSize /\ walk'.start = start
      /\ log' = log
  BY DEF Ask
<1>3. \A e : AheadOf(f, offset + PageSize, e)' => Ahead(e)'
  BY <1>2 DEF Ahead, AheadOf, Rank, Before, Matching
<1>4. Elements(walk.pages)' = Elements(walk'.pages)
  BY DEF Elements
<1>5. ASSUME ~ WithdrawnBy(Len(log))', NEW e \in start \ Elements(walk'.pages)
      PROVE  ReplacedBy(e, Len(log))' \/ (walk'.state = "paging" /\ Ahead(e)')
  BY <1>1, <1>3, <1>5
<1>6. WithdrawnMeanwhile' <=> WithdrawnBy(Len(log))'
  BY <1>2 DEF WithdrawnMeanwhile, WithdrawnBy
<1>7. \A e : ReplacedBy(e, Len(log))' <=> \E i \in walk'.from + 1 .. walk'.to : log'[i].id = e.id
  BY <1>2 DEF ReplacedBy
<1>8. walk'.state = "done" => PagesCover'
  <2> SUFFICES ASSUME walk'.state = "done", ~ WithdrawnMeanwhile',
                      NEW e \in start \ Elements(walk'.pages)
               PROVE  \E i \in walk'.from + 1 .. walk'.to : log'[i].id = e.id
    BY <1>2, <1>4 DEF PagesCover
  <2> QED BY <1>5, <1>6, <1>7
<1> QED BY <1>2, <1>4, <1>5, <1>8 DEF CoverInv

LEMMA CoverStep ==
  Table /\ Table' /\ WalkInv /\ CoverInv /\ [Next]_vars => CoverInv'
<1> SUFFICES ASSUME Table, Table', WalkInv, CoverInv, [Next]_vars PROVE CoverInv'
  OBVIOUS
<1>1. Len(log) \in Nat
  BY DEF Table, TableType
<1>2. CASE UNCHANGED <<rows, walk, log>>
  <2>1. PagesCover' <=> PagesCover
    BY <1>2 DEF PagesCover, WithdrawnMeanwhile, Elements
  <2>2. WithdrawnBy(Len(log))' <=> WithdrawnBy(Len(log))
    BY <1>2 DEF WithdrawnBy
  <2>3. \A e : ReplacedBy(e, Len(log))' <=> ReplacedBy(e, Len(log))
    BY <1>2 DEF ReplacedBy
  <2>4. \A e : Ahead(e)' <=> Ahead(e)
    BY <1>2 DEF Ahead, AheadOf, Rank, Before, Matching, ComesFirst
  <2>5. Elements(walk.pages)' = Elements(walk.pages)
    BY <1>2 DEF Elements
  <2> QED BY <1>2, <2>1, <2>2, <2>3, <2>4, <2>5 DEF CoverInv
<1>3. ASSUME NEW f \in Filters, FirstPage(f) PROVE CoverInv'
  <2> DEFINE start == {rows[i] : i \in Matching(f)}
  <2>1. PICK here, n : here = start /\ n = Len(log)
    OBVIOUS
  <2>2. Ask(f, 0, <<>>, here, n) /\ UNCHANGED <<rows, log>>
    BY <1>3, <2>1 DEF FirstPage
  <2>3. <<>> \in Seq(Event) /\ 0 \in Nat
    OBVIOUS
  <2>4. walk'.from = n /\ walk'.to = Len(log)
    BY <2>2 DEF Ask
  <2>5. ASSUME NEW r \in Matching(f) PROVE 0 <= Rank(f, r)
    <3>1. Cardinality(Before(Matching(f), r)) \in 0 .. Cardinality(Matching(f)) - 1
      BY MatchingIsRows, RankIsBijective, Zenon DEF Table
    <3> QED BY <3>1 DEF Rank
  <2>6. \A e \in here : AheadOf(f, 0, e)
    BY <2>1, <2>5 DEF AheadOf
  <2> QED BY <2>2, <2>3, <2>4, <2>6, CoverAsk, Zenon
<1>4. CASE NextPage
  <2>1. /\ walk.state = "paging"
        /\ Ask(walk.filter, walk.offset, walk.pages, walk.start, walk.from)
        /\ UNCHANGED <<rows, log>>
    BY <1>4 DEF NextPage
  <2>2. walk # NoWalk
    BY <2>1 DEF NoWalk
  <2>3. /\ walk.filter \in Filters /\ walk.offset \in Nat /\ walk.pages \in Seq(Event)
    BY <2>2 DEF WalkInv, WalkType
  <2>4. PICK f, offset, before, start, from :
          /\ f \in Filters /\ offset \in Nat /\ before \in Seq(Event)
          /\ f = walk.filter /\ offset = walk.offset /\ before = walk.pages
          /\ start = walk.start /\ from = walk.from
    BY <2>3
  <2>5. Ask(f, offset, before, start, from)
    BY <2>1, <2>4
  <2>6. walk'.from = from /\ walk'.to = Len(log) /\ walk'.filter = f
    BY <2>5 DEF Ask
  <2>7. WithdrawnBy(Len(log))' <=> WithdrawnBy(Len(log))
    BY <2>1, <2>4, <2>6 DEF WithdrawnBy
  <2>8. \A e : ReplacedBy(e, Len(log))' <=> ReplacedBy(e, Len(log))
    BY <2>1, <2>4, <2>6 DEF ReplacedBy
  <2>9. \A e : Ahead(e) <=> AheadOf(f, offset, e)
    BY <2>4 DEF Ahead
  <2>10. ~ WithdrawnBy(Len(log))' =>
           \A e \in start \ Elements(before) :
             ReplacedBy(e, Len(log))' \/ AheadOf(f, offset, e)
    BY <2>1, <2>2, <2>4, <2>7, <2>8, <2>9 DEF CoverInv
  <2>11. f \in Filters /\ offset \in Nat /\ before \in Seq(Event) /\ UNCHANGED <<rows, log>>
    BY <2>1, <2>4
  <2> QED BY <2>5, <2>6, <2>10, <2>11, CoverAsk, Zenon
<1> QED BY <1>2, <1>3, <1>4, CoverHandle DEF Next, Restart, vars

-----------------------------------------------------------------------------
ArchiveInv == Table /\ BufferInv /\ WalkInv /\ StableInv /\ CoverInv

LEMMA ArchiveInductive == Spec => []ArchiveInv
<1>1. Init => ArchiveInv
  BY TableInit, BufferInit, WalkInit, StableInit, CoverInit DEF ArchiveInv
<1>2. ArchiveInv /\ [Next]_vars => ArchiveInv'
  BY TableStep, BufferStep, WalkStep, StableStep, CoverStep DEF ArchiveInv
<1> QED BY <1>1, <1>2, PTL DEF Spec

(* Types, and a buffer that keeps to its limit.                             *)
THEOREM TypeCorrect == Spec => []TypeOK
<1>1. ArchiveInv => TypeOK
  BY DEF ArchiveInv, Table, TableType, BufferInv, WalkInv, WalkType, TypeOK
<1> QED BY <1>1, ArchiveInductive, PTL

(* The replay is as long as the archive allows.                             *)
THEOREM ReplayFull == Spec => []ReplayIsFull
<1>1. ArchiveInv => ReplayIsFull
  BY DEF ArchiveInv, BufferInv
<1> QED BY <1>1, ArchiveInductive, PTL

(* The pages of a search that nothing interrupts make up its result.        *)
THEOREM PagesComplete == Spec => []PagesAreTheResult
<1>1. ArchiveInv => PagesAreTheResult
  BY DEF ArchiveInv, WalkInv, WalkType, NoWalk, Finished, PagesAreTheResult
<1> QED BY <1>1, ArchiveInductive, PTL

(* A client that pages while events arrive misses no row that matched when  *)
(* it began, unless a later event replaced or withdrew one.                 *)
THEOREM PagesMissNothing == Spec => []PagesCover
<1>1. ArchiveInv => PagesCover
  BY DEF ArchiveInv, WalkInv, WalkType, CoverInv, NoWalk, PagesCover
<1> QED BY <1>1, ArchiveInductive, PTL

(* A restart changes no replay while timestamps agree with arrivals and ids *)
(* are used once.                                                           *)
THEOREM ReplayStable == Spec => []ReplayIsStable
<1>1. ASSUME ArchiveInv PROVE ReplayIsStable
  <2> SUFFICES ASSUME Sorted(log), Fresh PROVE buffer = Latest(ReplaySize)
    BY DEF ReplayIsStable, Sorted, Fresh
  <2>1. rows = log /\ buffer = LastOf(log) /\ Table
    BY <1>1 DEF ArchiveInv, StableInv
  <2> QED BY <2>1, LatestIsLast
<1> QED BY <1>1, ArchiveInductive, PTL

=============================================================================
