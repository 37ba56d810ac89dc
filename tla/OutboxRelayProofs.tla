--------------------------- MODULE OutboxRelayProofs ---------------------------
(***************************************************************************)
(* Theorems about OutboxRelay for all publishers, aggregates and bounds.   *)
(***************************************************************************)
EXTENDS OutboxRelay, FiniteSetTheorems, WellFoundedInduction, TLAPS

-----------------------------------------------------------------------------
(* The inductive invariant.                                                *)

(* A row was built at a moment of its own and committed at or after it,    *)
(* with all of its transaction.                                            *)
RowsOK ==
  /\ \A row \in rows : row.id <= row.committed /\ row.committed <= clock
  /\ \A row \in rows : row.id \in row.batch
  /\ \A r1, r2 \in rows : r1.id = r2.id => r1 = r2
  /\ \A r1, r2 \in rows : r1.batch = r2.batch => r1.committed = r2.committed
  /\ \A row \in rows : \A id \in row.batch : id <= clock

(* What is in flight was built by now, and by one transaction only.        *)
WritingOK ==
  /\ \A t \in writing : t.built # {} /\ \A id \in t.built : id <= clock
  /\ \A t \in writing, row \in rows : t.built \intersect row.batch = {}
  /\ \A t, u \in writing : t # u => t.built \intersect u.built = {}

(* A mark, committed or not, is of an event the broker stored, and a drain *)
(* that still has to visit a row has those before it to visit, too, unless *)
(* their events are in the stream.                                         *)
MarksOK ==
  /\ published \subseteq ToSet(stream)
  /\ ToSet(stream) \subseteq {row.id : row \in rows}
  /\ \A p \in Publishers : drains[p].marks \subseteq ToSet(stream)

DrainsOK ==
  \A p \in Publishers :
    /\ drains[p].todo \subseteq rows
    /\ \A late \in drains[p].todo, early \in rows :
         Before(early, late) =>
           early \in drains[p].todo \/ early.id \in ToSet(stream)

IInv == TypeOK /\ RowsOK /\ WritingOK /\ MarksOK /\ DrainsOK /\ FirstCopiesInOrder

-----------------------------------------------------------------------------
(* Sequences and rows.                                                     *)

LEMMA ToSetAppend ==
  ASSUME NEW S, NEW s \in Seq(S), NEW e \in S
  PROVE  ToSet(Append(s, e)) = ToSet(s) \union {e}
<1>1. DOMAIN Append(s, e) = DOMAIN s \union {Len(s) + 1}
  OBVIOUS
<1>2. \A i \in DOMAIN s : Append(s, e)[i] = s[i]
  OBVIOUS
<1>3. Append(s, e)[Len(s) + 1] = e
  OBVIOUS
<1> QED
  BY <1>1, <1>2, <1>3 DEF ToSet

Less == {p \in Nat \X Nat : p[1] < p[2]}

LEMMA LessIsWellFounded == IsWellFoundedOn(Less, Nat)
<1>1. Less = OpToRel(<, Nat)
  BY DEF Less, OpToRel
<1> QED
  BY <1>1, NatLessThanWellFounded

LEMMA Minimum ==
  ASSUME NEW T \in SUBSET Nat, T # {}
  PROVE  \E m \in T : \A n \in T : m <= n
<1>1. PICK m \in T : \A n \in T : <<n, m>> \notin Less
  BY LessIsWellFounded, WFMin, Zenon
<1>2. \A i, j \in Nat : i < j => <<i, j>> \in Less
  BY DEF Less
<1>3. ASSUME NEW n \in T
      PROVE  m <= n
  <2>1. m \in Nat /\ n \in Nat
    OBVIOUS
  <2>2. ~(n < m)
    BY <1>1, <1>2, <2>1
  <2> QED
    BY <2>1, <2>2
<1> QED
  BY <1>3

LEMMA DrainTyped ==
  ASSUME TypeOK, NEW p \in Publishers
  PROVE  /\ drains[p].todo \in SUBSET Row
         /\ drains[p].marks \in SUBSET Ids
         /\ drains[p].active => drains[p] \in Drain
         /\ drains[p].todo # {} => drains[p].active
<1>1. drains[p] \in Drain \union {NoDrain}
  BY DEF TypeOK
<1>2. CASE drains[p] = NoDrain
  BY <1>2 DEF NoDrain
<1>3. CASE drains[p] \in Drain
  BY <1>3 DEF Drain
<1> QED
  BY <1>1, <1>2, <1>3

(* publish visits a row of the drain, and none created before it is left.  *)
LEMMA NextRowIsFirst ==
  ASSUME TypeOK, NEW p \in Publishers, drains[p].todo # {}
  PROVE  /\ NextRow(drains[p]) \in drains[p].todo
         /\ \A row \in drains[p].todo : NextRow(drains[p]).id <= row.id
<1> DEFINE d == drains[p]
           times == {row.id : row \in d.todo}
<1>1. d.todo \subseteq Row
  BY DrainTyped
<1>2. times \in SUBSET Nat /\ times # {}
  BY <1>1, RelayAssumption DEF Row, Ids
<1>3. PICK m \in times : \A n \in times : m <= n
  BY <1>2, Minimum
<1>4. \E row \in d.todo : \A other \in d.todo : row.id <= other.id
  BY <1>3
<1> QED
  BY <1>4 DEF NextRow

LEMMA RowTyped ==
  ASSUME TypeOK, NEW row \in rows
  PROVE  /\ row.id \in Ids /\ row.id \in Nat
         /\ row.committed \in Ids /\ row.committed \in Nat
BY RelayAssumption DEF TypeOK, Row, Ids

(* What is before a row was built before it.                               *)
LEMMA BeforeIsEarlier ==
  ASSUME TypeOK, RowsOK, NEW early \in rows, NEW late \in rows, Before(early, late)
  PROVE  early.id < late.id
BY RowTyped DEF Before, RowsOK

-----------------------------------------------------------------------------
LEMMA InitInv == Init => IInv
<1> SUFFICES ASSUME Init PROVE IInv
  OBVIOUS
<1>1. ToSet(stream) = {}
  BY DEF Init, ToSet
<1>2. TypeOK
  BY <1>1, RelayAssumption DEF Init, TypeOK
<1>3. RowsOK /\ WritingOK
  BY DEF Init, RowsOK, WritingOK
<1>4. MarksOK /\ DrainsOK
  BY <1>1 DEF Init, NoDrain, MarksOK, DrainsOK
<1>5. FirstCopiesInOrder
  BY DEF Init, FirstCopiesInOrder
<1> QED
  BY <1>2, <1>3, <1>4, <1>5 DEF IInv

(* A step that leaves the rows and their clock alone keeps what is said of *)
(* them.                                                                   *)
LEMMA RowsKept ==
  ASSUME RowsOK, WritingOK, UNCHANGED database
  PROVE  RowsOK' /\ WritingOK'
BY DEF RowsOK, WritingOK, database

(* A transaction t that builds one row more, if it was begun before.       *)
LEMMA AppendInv ==
  ASSUME IInv, NEW a \in Aggregates, NEW built \in SUBSET Ids, NEW lock \in BOOLEAN,
         LET t == [aggregate |-> a, built |-> built, locked |-> FALSE] IN
           /\ built = {} \/ t \in writing
           /\ writing' = (writing \ {t}) \union
                 {[aggregate |-> a, built |-> built \union {clock + 1}, locked |-> lock]},
         clock < MaxRows, clock' = clock + 1,
         UNCHANGED <<rows, published, drains, broker, failures>>
  PROVE  IInv'
<1> DEFINE t   == [aggregate |-> a, built |-> built, locked |-> FALSE]
           new == [aggregate |-> a, built |-> built \union {clock + 1}, locked |-> lock]
<1>1. clock \in Nat /\ clock + 1 \in Ids /\ clock' \in 0 .. MaxRows /\ clock' = clock + 1
  BY RelayAssumption DEF IInv, TypeOK, Ids
<1>2. /\ writing' = (writing \ {t}) \union {new} /\ (built = {} \/ t \in writing)
      /\ UNCHANGED <<rows, published, drains, stream, window, failures>>
  BY DEF broker
<1>3. new \in Transaction /\ new.built = built \union {clock + 1} /\ t.built = built
  BY <1>1 DEF Transaction
<1> HIDE DEF new, t
<1>4. TypeOK'
  BY <1>1, <1>2, <1>3 DEF IInv, TypeOK
<1>5. /\ \A row \in rows : row.id \in Nat /\ row.committed \in Nat /\ row.batch \subseteq Nat
      /\ \A u \in writing : u.built \subseteq Nat
  BY RelayAssumption DEF IInv, TypeOK, Row, Transaction, Ids
<1>6. RowsOK'
  <2>1. \A row \in rows : row.committed <= clock + 1 /\ \A id \in row.batch : id <= clock + 1
    BY <1>1, <1>5 DEF IInv, RowsOK
  <2> QED
    BY <1>1, <1>2, <2>1 DEF IInv, RowsOK
<1>7. /\ \A row \in rows : clock + 1 \notin row.batch
      /\ \A u \in writing : clock + 1 \notin u.built
  BY <1>1, <1>5 DEF IInv, RowsOK, WritingOK
<1>8. WritingOK'
  <2>1. \A u \in writing' : u.built # {} /\ \A id \in u.built : id <= clock'
    BY <1>1, <1>2, <1>3, <1>5 DEF IInv, WritingOK
  <2>2. \A row \in rows : new.built \intersect row.batch = {}
    BY <1>2, <1>3, <1>7 DEF IInv, WritingOK
  <2>3. \A u \in writing \ {t} : new.built \intersect u.built = {}
    BY <1>2, <1>3, <1>7 DEF IInv, WritingOK
  <2> QED
    BY <1>2, <2>1, <2>2, <2>3 DEF IInv, WritingOK
<1>9. MarksOK' /\ DrainsOK' /\ FirstCopiesInOrder'
  BY <1>2 DEF IInv, MarksOK, DrainsOK, FirstCopiesInOrder, Before
<1> QED
  BY <1>4, <1>6, <1>8, <1>9 DEF IInv

LEMMA AppendAheadInv ==
  ASSUME IInv, NEW a \in Aggregates, AppendAhead(a)
  PROVE  IInv'
<1> DEFINE none == [aggregate |-> a, built |-> {}, locked |-> FALSE]
           new  == [aggregate |-> a, built |-> {clock + 1}, locked |-> FALSE]
<1>1. CASE none \in writing
  <2> QED
    BY <1>1 DEF IInv, WritingOK
<1>2. CASE none \notin writing
  <2>1. {} \union {clock + 1} = {clock + 1} /\ writing \ {none} = writing
    BY <1>2
  <2>2. /\ writing' = (writing \ {none}) \union
                 {[aggregate |-> a, built |-> {} \union {clock + 1}, locked |-> FALSE]}
        /\ clock < MaxRows /\ clock' = clock + 1
        /\ UNCHANGED <<rows, published, drains, broker, failures>>
    BY <2>1 DEF AppendAhead
  <2> QED
    BY <2>2, AppendInv
<1> QED
  BY <1>1, <1>2

LEMMA AppendRowInv ==
  ASSUME IInv, NEW a \in Aggregates, NEW built \in Begun(a) \union {{}}, AppendRow(a, built)
  PROVE  IInv'
<1>1. built \in SUBSET Ids
  BY DEF Begun, IInv, TypeOK, Transaction
<1>2. built = {} \/ [aggregate |-> a, built |-> built, locked |-> FALSE] \in writing
  <2> SUFFICES ASSUME NEW t \in writing, t.aggregate = a, ~ t.locked, t.built = built
               PROVE  [aggregate |-> a, built |-> built, locked |-> FALSE] \in writing
    BY DEF Begun
  <2>1. t \in Transaction
    BY DEF IInv, TypeOK
  <2>2. t = [aggregate |-> a, built |-> built, locked |-> FALSE]
    BY <2>1 DEF Transaction
  <2> QED
    BY <2>2
<1> QED
  BY <1>1, <1>2, AppendInv DEF AppendRow

LEMMA CommitRowsInv ==
  ASSUME IInv, NEW t \in writing, CommitRows(t)
  PROVE  IInv'
<1> DEFINE Of(id) == [aggregate |-> t.aggregate, id |-> id, batch |-> t.built, committed |-> clock]
           new == {Of(id) : id \in t.built}
<1>1. /\ rows' = rows \union new /\ writing' = writing \ {t}
      /\ UNCHANGED <<clock, published, drains, stream, window, failures>>
  BY DEF CommitRows, broker
<1>2. TypeOK /\ RowsOK /\ WritingOK /\ MarksOK /\ DrainsOK /\ FirstCopiesInOrder
  BY DEF IInv
<1>3. t \in Transaction /\ clock \in Nat /\ clock <= MaxRows
  BY <1>2, RelayAssumption DEF TypeOK
<1>4. \A id \in t.built : id \in Ids /\ id <= clock /\ id \in Nat /\ clock \in Ids
  BY <1>2, <1>3, RelayAssumption DEF Transaction, Ids, WritingOK
<1>5. /\ new \subseteq Row
      /\ \A row \in new : /\ row.aggregate = t.aggregate /\ row.id \in t.built
                          /\ row.batch = t.built /\ row.committed = clock
      /\ \A r1, r2 \in new : r1.id = r2.id => r1 = r2
  <2>1. \A id \in t.built : Of(id) \in Row
    BY <1>3, <1>4 DEF Row, Transaction
  <2> QED
    BY <2>1
<1> HIDE DEF new
<1>6. \A row \in rows : row.id \in row.batch /\ row.batch \intersect t.built = {}
  BY <1>2 DEF RowsOK, WritingOK
<1>7. \A one \in new, other \in rows : one.id # other.id /\ one.batch # other.batch
  BY <1>5, <1>6
<1>8. TypeOK'
  BY <1>1, <1>2, <1>5 DEF TypeOK
<1>9. RowsOK'
  <2>1. \A row \in new : /\ row.id <= row.committed /\ row.committed <= clock
                         /\ row.id \in row.batch /\ \A id \in row.batch : id <= clock
    BY <1>3, <1>4, <1>5
  <2>2. \A r1, r2 \in rows' : r1.id = r2.id => r1 = r2
    BY <1>1, <1>2, <1>5, <1>7 DEF RowsOK
  <2>3. \A r1, r2 \in rows' : r1.batch = r2.batch => r1.committed = r2.committed
    BY <1>1, <1>2, <1>5, <1>7 DEF RowsOK
  <2> QED
    BY <1>1, <1>2, <2>1, <2>2, <2>3 DEF RowsOK
<1>10. WritingOK'
  BY <1>1, <1>2, <1>5 DEF WritingOK
<1>11. MarksOK'
  BY <1>1, <1>2 DEF MarksOK
<1>12. \A early \in new, late \in rows : ~ Before(early, late)
  <2> SUFFICES ASSUME NEW early \in new, NEW late \in rows
               PROVE  ~ Before(early, late)
    OBVIOUS
  <2>1. late.id <= clock /\ late.id \in Nat
    BY <1>2, <1>3, RowTyped DEF RowsOK
  <2>2. early.committed = clock /\ early.batch # late.batch
    BY <1>5, <1>7
  <2> QED
    BY <1>3, <2>1, <2>2 DEF Before
<1>13. DrainsOK'
  <2>1. \A p \in Publishers : drains[p].todo \subseteq rows
    BY <1>2 DEF DrainsOK
  <2> QED
    BY <1>1, <1>2, <1>12, <2>1 DEF DrainsOK, Before
<1>14. FirstCopiesInOrder'
  <2>1. \A i \in DOMAIN stream : \A row \in new : stream[i] # row.id
    BY <1>2, <1>7 DEF MarksOK, ToSet
  <2> QED
    BY <1>1, <1>2, <1>12, <2>1 DEF FirstCopiesInOrder, Before
<1> QED
  BY <1>8, <1>9, <1>10, <1>11, <1>13, <1>14 DEF IInv

LEMMA RollBackInv ==
  ASSUME IInv, NEW t \in writing, RollBack(t)
  PROVE  IInv'
<1>1. /\ writing' \subseteq writing
      /\ UNCHANGED <<clock, rows, published, drains, stream, window, failures>>
  BY DEF RollBack, broker
<1>2. TypeOK'
  BY <1>1 DEF IInv, TypeOK
<1>3. RowsOK' /\ WritingOK' /\ MarksOK' /\ DrainsOK' /\ FirstCopiesInOrder'
  BY <1>1 DEF IInv, RowsOK, WritingOK, MarksOK, DrainsOK, FirstCopiesInOrder, Before
<1> QED
  BY <1>2, <1>3 DEF IInv

LEMMA StartDrainInv ==
  ASSUME IInv, NEW p \in Publishers, StartDrain(p)
  PROVE  IInv'
<1> DEFINE new == [active |-> TRUE, todo |-> Unpublished, marks |-> {}]
<1>1. /\ drains' = [drains EXCEPT ![p] = new]
      /\ UNCHANGED <<clock, writing, rows, published, stream, window, failures>>
  BY DEF StartDrain, database, broker
<1>2. TypeOK /\ MarksOK /\ DrainsOK
  BY DEF IInv
<1>3. Unpublished \subseteq rows
  BY DEF Unpublished
<1>4. new \in Drain
  BY <1>2, <1>3 DEF Drain, TypeOK
<1>5. TypeOK'
  BY <1>1, <1>2, <1>4 DEF TypeOK
<1>6. RowsOK' /\ WritingOK'
  BY <1>1, RowsKept DEF IInv, database
<1>7. \A q \in Publishers : drains'[q] = IF q = p THEN new ELSE drains[q]
  BY <1>1, <1>2 DEF TypeOK
<1>8. MarksOK'
  BY <1>1, <1>2, <1>7 DEF MarksOK
<1>9. DrainsOK'
  <2> SUFFICES ASSUME NEW q \in Publishers
               PROVE  /\ drains'[q].todo \subseteq rows
                      /\ \A late \in drains'[q].todo, early \in rows :
                           Before(early, late) =>
                             early \in drains'[q].todo \/ early.id \in ToSet(stream)
    BY <1>1 DEF DrainsOK
  <2>1. CASE q = p
    <3>1. \A early \in rows : early \in Unpublished \/ early.id \in published
      BY DEF Unpublished
    <3>2. published \subseteq ToSet(stream)
      BY <1>2 DEF MarksOK
    <3> QED
      BY <1>3, <1>7, <2>1, <3>1, <3>2
  <2>2. CASE q # p
    BY <1>2, <1>7, <2>2 DEF DrainsOK
  <2> QED
    BY <2>1, <2>2
<1>10. FirstCopiesInOrder'
  BY <1>1 DEF IInv, FirstCopiesInOrder
<1> QED
  BY <1>5, <1>6, <1>8, <1>9, <1>10 DEF IInv

(* An event enters the stream behind the one before it: publish goes by    *)
(* created_at, so nothing that was created earlier is left to be visited.  *)
LEMMA PublishNextInv ==
  ASSUME IInv, NEW p \in Publishers, PublishNext(p)
  PROVE  IInv'
<1> DEFINE d   == drains[p]
           row == NextRow(d)
<1>1. TypeOK /\ RowsOK /\ WritingOK /\ MarksOK /\ DrainsOK /\ FirstCopiesInOrder
  BY DEF IInv
<1>2. row \in d.todo /\ \A other \in d.todo : row.id <= other.id
  BY <1>1, NextRowIsFirst DEF PublishNext
<1>3. row \in rows
  BY <1>1, <1>2 DEF DrainsOK
<1>4. row.id \in Ids
  BY <1>1, <1>3 DEF TypeOK, Row
<1>5. stream \in Seq(Ids) /\ d \in Drain
  BY <1>1, <1>2, DrainTyped DEF TypeOK
<1> DEFINE rest == [d EXCEPT !.todo = @ \ {row}, !.marks = @ \union {row.id}]
<1>6. /\ stream' = Append(stream, row.id)
      /\ window' = window \union {row.id}
      /\ drains' = [drains EXCEPT ![p] = rest]
      /\ UNCHANGED <<clock, writing, rows, published, failures>>
  BY <1>1, <1>2 DEF PublishNext, database, TypeOK
<1>7. rest \in Drain /\ rest.todo = d.todo \ {row} /\ rest.marks = d.marks \union {row.id}
  BY <1>4, <1>5 DEF Drain
<1> HIDE DEF rest, row
<1>8. ToSet(stream') = ToSet(stream) \union {row.id}
  BY <1>4, <1>5, <1>6, ToSetAppend
<1>9. \A q \in Publishers : drains'[q] = IF q = p THEN rest ELSE drains[q]
  BY <1>1, <1>6 DEF TypeOK
<1>10. TypeOK'
  <2>1. stream' \in Seq(Ids) /\ window' \subseteq ToSet(stream')
    BY <1>1, <1>4, <1>5, <1>6, <1>8 DEF TypeOK
  <2>2. drains' \in [Publishers -> Drain \union {NoDrain}]
    BY <1>1, <1>6, <1>7 DEF TypeOK
  <2> QED
    BY <1>1, <1>6, <2>1, <2>2 DEF TypeOK
<1>11. RowsOK' /\ WritingOK'
  BY <1>1, <1>6, RowsKept DEF database
<1>12. MarksOK'
  BY <1>1, <1>3, <1>6, <1>7, <1>8, <1>9 DEF MarksOK
<1>13. DrainsOK'
  <2> SUFFICES ASSUME NEW q \in Publishers
               PROVE  /\ drains'[q].todo \subseteq rows
                      /\ \A late \in drains'[q].todo, early \in rows :
                           Before(early, late) =>
                             early \in drains'[q].todo \/ early.id \in ToSet(stream')
    BY <1>6 DEF DrainsOK
  <2>1. CASE q = p
    BY <1>1, <1>7, <1>8, <1>9, <2>1 DEF DrainsOK
  <2>2. CASE q # p
    BY <1>1, <1>8, <1>9, <2>2 DEF DrainsOK
  <2> QED
    BY <2>1, <2>2
<1>14. ASSUME NEW early \in rows, Before(early, row)
       PROVE  \E j \in DOMAIN stream : stream[j] = early.id
  <2>1. early \in d.todo \/ early.id \in ToSet(stream)
    BY <1>1, <1>2, <1>14 DEF DrainsOK
  <2>2. early.id < row.id /\ early.id \in Nat /\ row.id \in Nat
    BY <1>1, <1>3, <1>14, BeforeIsEarlier, RowTyped
  <2>3. early \notin d.todo
    BY <1>2, <2>2
  <2> QED
    BY <2>1, <2>3 DEF ToSet
<1>15. FirstCopiesInOrder'
  <2> SUFFICES ASSUME NEW early \in rows, NEW late \in rows, Before(early, late),
                      NEW i \in DOMAIN stream', stream'[i] = late.id
               PROVE  \E j \in 1 .. i - 1 : stream'[j] = early.id
    BY <1>6 DEF FirstCopiesInOrder, Before
  <2>1. /\ DOMAIN stream = 1 .. Len(stream) /\ Len(stream) \in Nat
        /\ DOMAIN stream' = 1 .. Len(stream) + 1
        /\ \A j \in DOMAIN stream : stream'[j] = stream[j]
        /\ stream'[Len(stream) + 1] = row.id
    BY <1>4, <1>5, <1>6
  <2>2. CASE i \in DOMAIN stream
    <3>1. PICK j \in 1 .. i - 1 : stream[j] = early.id
      BY <1>1, <2>1, <2>2 DEF FirstCopiesInOrder
    <3>2. j \in DOMAIN stream
      BY <2>1, <2>2
    <3> QED
      BY <2>1, <2>2, <3>1, <3>2
  <2>3. CASE i = Len(stream) + 1
    <3>1. late = row
      BY <1>1, <1>3, <2>1, <2>3 DEF RowsOK
    <3>2. PICK j \in DOMAIN stream : stream[j] = early.id
      BY <1>14, <3>1
    <3>3. j \in 1 .. i - 1
      BY <2>1, <2>3
    <3> QED
      BY <2>1, <2>3, <3>2, <3>3
  <2> QED
    BY <2>1, <2>2, <2>3
<1> QED
  BY <1>10, <1>11, <1>12, <1>13, <1>15 DEF IInv

LEMMA PublishDuplicateInv ==
  ASSUME IInv, NEW p \in Publishers, PublishDuplicate(p)
  PROVE  IInv'
<1> DEFINE d    == drains[p]
           row  == NextRow(d)
           rest == [d EXCEPT !.todo = @ \ {row}]
<1>1. TypeOK /\ RowsOK /\ WritingOK /\ MarksOK /\ DrainsOK /\ FirstCopiesInOrder
  BY DEF IInv
<1>2. d \in Drain
  BY <1>1, DrainTyped DEF PublishDuplicate
<1>3. row.id \in ToSet(stream)
  BY <1>1 DEF PublishDuplicate, TypeOK
<1>4. /\ drains' = [drains EXCEPT ![p] = rest]
      /\ UNCHANGED <<clock, writing, rows, published, stream, window, failures>>
  BY DEF PublishDuplicate, database, broker
<1>5. rest \in Drain /\ rest.todo = d.todo \ {row} /\ rest.marks = d.marks
  BY <1>2 DEF Drain
<1> HIDE DEF rest, row
<1>6. \A q \in Publishers : drains'[q] = IF q = p THEN rest ELSE drains[q]
  BY <1>1, <1>4 DEF TypeOK
<1>7. TypeOK'
  BY <1>1, <1>4, <1>5 DEF TypeOK
<1>8. RowsOK' /\ WritingOK'
  BY <1>1, <1>4, RowsKept DEF database
<1>9. MarksOK'
  BY <1>1, <1>4, <1>5, <1>6 DEF MarksOK
<1>10. DrainsOK'
  BY <1>1, <1>3, <1>4, <1>5, <1>6 DEF DrainsOK
<1>11. FirstCopiesInOrder'
  BY <1>1, <1>4 DEF FirstCopiesInOrder
<1> QED
  BY <1>7, <1>8, <1>9, <1>10, <1>11 DEF IInv

(* The end of a drain, with its marks or without.                          *)
LEMMA EndDrainInv ==
  ASSUME IInv, NEW p \in Publishers, FinishDrain(p) \/ Abandon(p)
  PROVE  IInv'
<1>1. TypeOK /\ RowsOK /\ WritingOK /\ MarksOK /\ DrainsOK /\ FirstCopiesInOrder
  BY DEF IInv
<1>2. /\ drains' = [drains EXCEPT ![p] = NoDrain]
      /\ published' \in {published, published \union drains[p].marks}
      /\ UNCHANGED <<clock, writing, rows, stream, window>>
  BY DEF FinishDrain, Abandon, database, broker
<1>3. failures' \in 0 .. MaxFailures
  BY <1>1, RelayAssumption DEF TypeOK, FinishDrain, Abandon, broker
<1>4. \A q \in Publishers : drains'[q] = IF q = p THEN NoDrain ELSE drains[q]
  BY <1>1, <1>2 DEF TypeOK
<1>5. published' \subseteq Ids
  BY <1>1, <1>2, DrainTyped DEF TypeOK
<1>6. TypeOK'
  BY <1>1, <1>2, <1>3, <1>5 DEF TypeOK
<1>7. RowsOK' /\ WritingOK'
  BY <1>1, <1>2, RowsKept DEF database
<1>8. MarksOK'
  BY <1>1, <1>2, <1>4 DEF MarksOK, NoDrain
<1>9. DrainsOK'
  BY <1>1, <1>2, <1>4 DEF DrainsOK, NoDrain
<1>10. FirstCopiesInOrder'
  BY <1>1, <1>2 DEF FirstCopiesInOrder
<1> QED
  BY <1>6, <1>7, <1>8, <1>9, <1>10 DEF IInv

LEMMA QuietStepInv ==
  ASSUME IInv, (\E id \in Ids : WindowExpires(id)) \/ UNCHANGED vars
  PROVE  IInv'
<1>1. /\ UNCHANGED <<clock, writing, rows, published, drains, stream, failures>>
      /\ window' \subseteq window
  BY DEF WindowExpires, vars, database
<1>2. TypeOK'
  BY <1>1 DEF IInv, TypeOK
<1>3. RowsOK' /\ WritingOK'
  BY <1>1, RowsKept DEF IInv, database
<1>4. MarksOK' /\ DrainsOK' /\ FirstCopiesInOrder'
  BY <1>1 DEF IInv, MarksOK, DrainsOK, FirstCopiesInOrder
<1> QED
  BY <1>2, <1>3, <1>4 DEF IInv

LEMMA NextInv == IInv /\ [Next]_vars => IInv'
BY AppendAheadInv, AppendRowInv, CommitRowsInv, RollBackInv, StartDrainInv, PublishNextInv, PublishDuplicateInv,
   EndDrainInv, QuietStepInv DEF Next, Drains

LEMMA SpecInv == Spec => []IInv
BY InitInv, NextInv, PTL DEF Spec

-----------------------------------------------------------------------------
(* Every reachable state of outbox, publishers and broker is typed.        *)
THEOREM TypeCorrect == Spec => []TypeOK
<1>1. IInv => TypeOK
  BY DEF IInv
<1> QED
  BY <1>1, SpecInv, PTL

(* A row is marked as published only if the broker stored its event, with  *)
(* any number of publishers and failures (drain in queue/publisher.py).    *)
THEOREM MarksAreHonest == Spec => []PublishedWasStored
<1>1. IInv => PublishedWasStored
  BY DEF IInv, MarksOK, PublishedWasStored
<1> QED
  BY <1>1, SpecInv, PTL

(* The events of an aggregate enter the stream in the order of their rows  *)
(* as far as their transactions follow each other or are one, whichever    *)
(* publishers and transactions overlap and whatever is rolled back.        *)
THEOREM OrderIsKept == Spec => []FirstCopiesInOrder
<1>1. IInv => FirstCopiesInOrder
  BY DEF IInv
<1> QED
  BY <1>1, SpecInv, PTL

-----------------------------------------------------------------------------
(* Who pays for a copy: a drain that ended in failure, or a publisher that *)
(* has the id among its uncommitted marks, or that will not visit the row  *)
(* again because the id is published.  A publisher that still has the row  *)
(* to visit has paid nothing, so it may add the copy it then pays for.     *)

Spent(p, id) ==
  \/ id \in drains[p].marks
  \/ id \in published /\ \A row \in drains[p].todo : row.id # id

Payers(id) == {p \in Publishers : Spent(p, id)}

IdsUnique == \A r1, r2 \in rows : r1.id = r2.id => r1 = r2

MarksApart ==
  \A p \in Publishers : \A row \in drains[p].todo : row.id \notin drains[p].marks

PaidFor(id) == Cardinality(Copies(id)) <= failures + Cardinality(Payers(id))

PaymentInv == IdsUnique /\ MarksApart /\ \A id \in Ids : PaidFor(id)

LEMMA PayersFinite ==
  ASSUME NEW id
  PROVE  /\ IsFiniteSet(Payers(id))
         /\ Cardinality(Payers(id)) \in Nat
         /\ Cardinality(Payers(id)) <= Cardinality(Publishers)
<1>1. Payers(id) \in SUBSET Publishers
  BY DEF Payers
<1> QED
  BY <1>1, RelayAssumption, FS_Subset, FS_CardinalityType

LEMMA CopiesFinite ==
  ASSUME TypeOK, NEW id
  PROVE  IsFiniteSet(Copies(id)) /\ Cardinality(Copies(id)) \in Nat
<1>1. stream \in Seq(Ids)
  BY DEF TypeOK
<1>2. IsFiniteSet(1 .. Len(stream)) /\ Copies(id) \in SUBSET (1 .. Len(stream))
  BY <1>1, FS_Interval DEF Copies
<1> QED
  BY <1>2, FS_Subset, FS_CardinalityType

LEMMA CopiesAppend ==
  ASSUME TypeOK, NEW e \in Ids, NEW id, stream' = Append(stream, e)
  PROVE  Cardinality(Copies(id)') =
           Cardinality(Copies(id)) + (IF e = id THEN 1 ELSE 0)
<1> DEFINE n == Len(stream) + 1
<1>1. /\ stream \in Seq(Ids)
      /\ DOMAIN stream = 1 .. Len(stream) /\ Len(stream) \in Nat
      /\ DOMAIN stream' = 1 .. n
      /\ \A i \in 1 .. Len(stream) : stream'[i] = stream[i]
      /\ stream'[n] = e
  BY DEF TypeOK
<1>2. n \notin Copies(id)
  BY <1>1 DEF Copies
<1>3. CASE e = id
  <2>1. Copies(id)' = Copies(id) \union {n}
    BY <1>1, <1>3 DEF Copies
  <2> HIDE DEF n
  <2> QED
    BY <1>2, <1>3, <2>1, CopiesFinite, FS_AddElement
<1>4. CASE e # id
  <2>1. Copies(id)' = Copies(id)
    BY <1>1, <1>4 DEF Copies
  <2> QED
    BY <1>4, <2>1, CopiesFinite
<1> QED
  BY <1>3, <1>4

(* A step that stores nothing and frees no publisher of its debt.          *)
LEMMA DebtKept ==
  ASSUME TypeOK, NEW id \in Ids, PaidFor(id), stream' = stream,
         failures' = failures, \A p \in Publishers : Spent(p, id) => Spent(p, id)'
  PROVE  PaidFor(id)'
<1>1. Payers(id) \in SUBSET (Payers(id)')
  BY DEF Payers
<1>2. IsFiniteSet(Payers(id)')
  <2>1. Payers(id)' \in SUBSET Publishers
    BY DEF Payers
  <2> QED
    BY <2>1, RelayAssumption, FS_Subset
<1>3. Cardinality(Payers(id)) <= Cardinality(Payers(id)')
  BY <1>1, <1>2, FS_Subset
<1>4. /\ Cardinality(Payers(id)) \in Nat /\ Cardinality(Payers(id)') \in Nat
      /\ Cardinality(Copies(id)) \in Nat /\ failures \in Nat
  BY <1>2, PayersFinite, CopiesFinite, FS_CardinalityType DEF TypeOK
<1>5. Cardinality(Copies(id)') = Cardinality(Copies(id))
  BY DEF Copies
<1> QED
  BY <1>3, <1>4, <1>5 DEF PaidFor

LEMMA PublishPays ==
  ASSUME IInv, PaymentInv, NEW p \in Publishers, PublishNext(p)
  PROVE  PaymentInv'
<1> DEFINE d   == drains[p]
           row == NextRow(d)
           rest == [d EXCEPT !.todo = @ \ {row}, !.marks = @ \union {row.id}]
<1>1. TypeOK /\ DrainsOK
  BY DEF IInv
<1>2. row \in d.todo /\ row \in rows /\ row.id \in Ids /\ d \in Drain
  BY <1>1, NextRowIsFirst, DrainTyped DEF PublishNext, DrainsOK, TypeOK, Row
<1>3. /\ stream' = Append(stream, row.id)
      /\ drains' = [drains EXCEPT ![p] = rest]
      /\ UNCHANGED <<rows, published, failures>>
  BY <1>1, <1>2 DEF PublishNext, database, TypeOK
<1>4. rest.todo = d.todo \ {row} /\ rest.marks = d.marks \union {row.id}
  BY <1>2 DEF Drain
<1> HIDE DEF rest, row
<1>5. \A q \in Publishers : drains'[q] = IF q = p THEN rest ELSE drains[q]
  BY <1>1, <1>3 DEF TypeOK
<1>6. IdsUnique'
  BY <1>3 DEF PaymentInv, IdsUnique
<1>7. MarksApart'
  <2>1. \A other \in d.todo \ {row} : other.id # row.id
    BY <1>1, <1>2 DEF PaymentInv, IdsUnique, DrainsOK
  <2> QED
    BY <1>4, <1>5, <2>1 DEF PaymentInv, MarksApart
<1>8. ASSUME NEW id \in Ids
      PROVE  PaidFor(id)'
  <2>1. Cardinality(Copies(id)') =
          Cardinality(Copies(id)) + (IF row.id = id THEN 1 ELSE 0)
    BY <1>1, <1>2, <1>3, CopiesAppend
  <2>2. \A q \in Publishers : q # p => (Spent(q, id)' <=> Spent(q, id))
    BY <1>3, <1>5 DEF Spent
  <2>3. /\ Cardinality(Copies(id)) \in Nat /\ failures \in Nat
        /\ Cardinality(Payers(id)) \in Nat /\ IsFiniteSet(Payers(id))
    BY <1>1, CopiesFinite, PayersFinite DEF TypeOK
  <2>4. CASE row.id = id
    <3>1. ~Spent(p, id)
      BY <1>2, <2>4 DEF PaymentInv, MarksApart, Spent
    <3>2. Spent(p, id)'
      BY <1>4, <1>5, <2>4 DEF Spent
    <3>3. Payers(id)' = Payers(id) \union {p} /\ p \notin Payers(id)
      BY <2>2, <3>1, <3>2 DEF Payers
    <3>4. Cardinality(Payers(id)') = Cardinality(Payers(id)) + 1
      BY <2>3, <3>3, FS_AddElement
    <3> QED
      BY <1>3, <2>1, <2>3, <2>4, <3>4 DEF PaymentInv, PaidFor
  <2>5. CASE row.id # id
    <3>1. Spent(p, id)' <=> Spent(p, id)
      BY <1>3, <1>4, <1>5, <2>5 DEF Spent
    <3>2. Payers(id)' = Payers(id)
      BY <2>2, <3>1 DEF Payers
    <3> QED
      BY <1>3, <2>1, <2>3, <2>5, <3>2 DEF PaymentInv, PaidFor
  <2> QED
    BY <2>4, <2>5
<1> QED
  BY <1>6, <1>7, <1>8 DEF PaymentInv

(* A drain that begins owes for what is published and marks nothing yet;   *)
(* one that skips a duplicate only comes closer to having visited it.      *)
LEMMA StartDrainPays ==
  ASSUME IInv, PaymentInv, NEW p \in Publishers, StartDrain(p)
  PROVE  PaymentInv'
<1> DEFINE new == [active |-> TRUE, todo |-> Unpublished, marks |-> {}]
<1>1. TypeOK /\ drains[p] = NoDrain
  BY DEF IInv, StartDrain, TypeOK, Drain
<1>2. /\ \A q \in Publishers : drains'[q] = IF q = p THEN new ELSE drains[q]
      /\ UNCHANGED <<rows, published, stream, failures>>
  BY <1>1 DEF StartDrain, database, broker, TypeOK
<1>3. new.todo = Unpublished /\ new.marks = {}
  OBVIOUS
<1> HIDE DEF new
<1>4. IdsUnique' /\ MarksApart'
  BY <1>2, <1>3 DEF PaymentInv, IdsUnique, MarksApart
<1>5. ASSUME NEW id \in Ids, NEW q \in Publishers, Spent(q, id)
      PROVE  Spent(q, id)'
  <2>1. CASE q = p
    <3>1. id \in published
      BY <1>1, <1>5, <2>1 DEF Spent, NoDrain
    <3> QED
      BY <1>2, <1>3, <2>1, <3>1 DEF Spent, Unpublished
  <2>2. CASE q # p
    BY <1>2, <1>5, <2>2 DEF Spent
  <2> QED
    BY <2>1, <2>2
<1>6. \A id \in Ids : PaidFor(id)'
  BY <1>1, <1>2, <1>5, DebtKept DEF PaymentInv
<1> QED
  BY <1>4, <1>6 DEF PaymentInv

LEMMA PublishDuplicatePays ==
  ASSUME IInv, PaymentInv, NEW p \in Publishers, PublishDuplicate(p)
  PROVE  PaymentInv'
<1> DEFINE d    == drains[p]
           rest == [d EXCEPT !.todo = @ \ {NextRow(d)}]
<1>1. TypeOK /\ d \in Drain
  BY DrainTyped DEF IInv, PublishDuplicate
<1>2. /\ \A q \in Publishers : drains'[q] = IF q = p THEN rest ELSE drains[q]
      /\ UNCHANGED <<rows, published, stream, failures>>
  BY <1>1 DEF PublishDuplicate, database, broker, TypeOK
<1>3. rest.todo \subseteq d.todo /\ rest.marks = d.marks
  BY <1>1 DEF Drain
<1> HIDE DEF rest
<1>4. IdsUnique' /\ MarksApart'
  BY <1>2, <1>3 DEF PaymentInv, IdsUnique, MarksApart
<1>5. \A id \in Ids, q \in Publishers : Spent(q, id) => Spent(q, id)'
  BY <1>2, <1>3 DEF Spent
<1>6. \A id \in Ids : PaidFor(id)'
  BY <1>1, <1>2, <1>5, DebtKept DEF PaymentInv
<1> QED
  BY <1>4, <1>6 DEF PaymentInv

(* Committed marks are owed for by every publisher alike.                  *)
LEMMA FinishDrainPays ==
  ASSUME IInv, PaymentInv, NEW p \in Publishers, FinishDrain(p)
  PROVE  PaymentInv'
<1>1. TypeOK
  BY DEF IInv
<1>2. /\ \A q \in Publishers : drains'[q] = IF q = p THEN NoDrain ELSE drains[q]
      /\ published' = published \union drains[p].marks
      /\ UNCHANGED <<rows, stream, failures>>
  BY <1>1 DEF FinishDrain, database, broker, TypeOK
<1>3. IdsUnique' /\ MarksApart'
  BY <1>2 DEF PaymentInv, IdsUnique, MarksApart, NoDrain
<1>4. \A id \in Ids, q \in Publishers : Spent(q, id) => Spent(q, id)'
  BY <1>2 DEF Spent, NoDrain
<1>5. \A id \in Ids : PaidFor(id)'
  BY <1>1, <1>2, <1>4, DebtKept DEF PaymentInv
<1> QED
  BY <1>3, <1>5 DEF PaymentInv

(* A rollback frees one publisher of its debt and is itself the payment.   *)
LEMMA AbandonPays ==
  ASSUME IInv, PaymentInv, NEW p \in Publishers, Abandon(p)
  PROVE  PaymentInv'
<1>1. TypeOK
  BY DEF IInv
<1>2. /\ \A q \in Publishers : drains'[q] = IF q = p THEN NoDrain ELSE drains[q]
      /\ failures' = failures + 1
      /\ UNCHANGED <<rows, published, stream>>
  BY <1>1 DEF Abandon, database, broker, TypeOK
<1>3. IdsUnique' /\ MarksApart'
  BY <1>2 DEF PaymentInv, IdsUnique, MarksApart, NoDrain
<1>4. ASSUME NEW id \in Ids
      PROVE  PaidFor(id)'
  <2>1. Payers(id) \ {p} \in SUBSET (Payers(id)')
    BY <1>2 DEF Payers, Spent
  <2>2. IsFiniteSet(Payers(id)')
    <3>1. Payers(id)' \in SUBSET Publishers
      BY DEF Payers
    <3> QED
      BY <3>1, RelayAssumption, FS_Subset
  <2>3. /\ Cardinality(Payers(id)) \in Nat /\ Cardinality(Payers(id)') \in Nat
        /\ Cardinality(Copies(id)) \in Nat /\ failures \in Nat
    BY <1>1, <2>2, PayersFinite, CopiesFinite, FS_CardinalityType DEF TypeOK
  <2>4. Cardinality(Payers(id) \ {p}) <= Cardinality(Payers(id)')
    BY <2>1, <2>2, FS_Subset
  <2>5. Cardinality(Payers(id) \ {p}) \in {Cardinality(Payers(id)), Cardinality(Payers(id)) - 1}
    BY PayersFinite, FS_RemoveElement
  <2>6. Cardinality(Copies(id)') = Cardinality(Copies(id))
    BY <1>2 DEF Copies
  <2> QED
    BY <1>2, <2>3, <2>4, <2>5, <2>6 DEF PaymentInv, PaidFor
<1> QED
  BY <1>3, <1>4 DEF PaymentInv

LEMMA CommitRowsPays ==
  ASSUME IInv, PaymentInv, NEW t \in writing, CommitRows(t)
  PROVE  PaymentInv'
<1>1. UNCHANGED <<published, drains, stream, failures>>
  BY DEF CommitRows, broker
<1>2. TypeOK /\ IdsUnique'
  BY CommitRowsInv DEF IInv, RowsOK, IdsUnique
<1>3. MarksApart' /\ \A id \in Ids, q \in Publishers : Spent(q, id) => Spent(q, id)'
  BY <1>1 DEF PaymentInv, MarksApart, Spent
<1>4. \A id \in Ids : PaidFor(id)'
  BY <1>1, <1>2, <1>3, DebtKept DEF PaymentInv
<1> QED
  BY <1>2, <1>3, <1>4 DEF PaymentInv

LEMMA QuietStepPays ==
  ASSUME IInv, PaymentInv, UNCHANGED <<rows, published, drains, stream, failures>>
  PROVE  PaymentInv'
<1>1. TypeOK
  BY DEF IInv
<1>2. IdsUnique' /\ MarksApart'
  BY DEF PaymentInv, IdsUnique, MarksApart
<1>3. \A id \in Ids, q \in Publishers : Spent(q, id) => Spent(q, id)'
  BY DEF Spent
<1>4. \A id \in Ids : PaidFor(id)'
  BY <1>1, <1>3, DebtKept DEF PaymentInv
<1> QED
  BY <1>2, <1>4 DEF PaymentInv

LEMMA InitPays == Init => PaymentInv
<1> SUFFICES ASSUME Init PROVE PaymentInv
  OBVIOUS
<1>1. TypeOK
  BY InitInv DEF IInv
<1>2. IdsUnique /\ MarksApart
  BY DEF Init, IdsUnique, MarksApart, NoDrain
<1>3. ASSUME NEW id \in Ids
      PROVE  PaidFor(id)
  <2>1. Copies(id) = {}
    BY DEF Init, Copies
  <2>2. Cardinality(Copies(id)) = 0 /\ failures = 0 /\ Cardinality(Payers(id)) \in Nat
    BY <2>1, FS_EmptySet, PayersFinite DEF Init
  <2> QED
    BY <2>2 DEF PaidFor
<1> QED
  BY <1>2, <1>3 DEF PaymentInv

LEMMA NextPays == IInv /\ PaymentInv /\ [Next]_vars => PaymentInv'
<1> SUFFICES ASSUME IInv, PaymentInv, [Next]_vars PROVE PaymentInv'
  OBVIOUS
<1>1. ASSUME NEW a \in Aggregates,
             AppendAhead(a) \/ \E built \in Begun(a) \union {{}} : AppendRow(a, built)
      PROVE  PaymentInv'
  BY <1>1, QuietStepPays DEF AppendAhead, AppendRow, broker
<1>4. ASSUME NEW t \in writing, RollBack(t)
      PROVE  PaymentInv'
  BY <1>4, QuietStepPays DEF RollBack, broker
<1>2. ASSUME NEW id \in Ids, WindowExpires(id)
      PROVE  PaymentInv'
  BY <1>2, QuietStepPays DEF WindowExpires, database
<1>3. CASE UNCHANGED vars
  BY <1>3, QuietStepPays DEF vars
<1> QED
  BY <1>1, <1>2, <1>3, <1>4, CommitRowsPays, StartDrainPays, PublishPays, PublishDuplicatePays,
     FinishDrainPays, AbandonPays DEF Next, Drains

(* Duplicates in the stream are bounded: an event has at most one copy for *)
(* each publisher and one for each drain that failed.  publish marks a row *)
(* only in the session that ends with the drain, so a rollback costs one   *)
(* copy, and overlapping publishers cost one each, and never more.         *)
THEOREM DuplicatesAreBounded == Spec => []CopiesArePaidFor
<1>1. IInv /\ PaymentInv /\ [Next]_vars => IInv' /\ PaymentInv'
  BY NextInv, NextPays
<1>2. ASSUME IInv, PaymentInv, NEW id \in Ids
      PROVE  Cardinality(Copies(id)) <= failures + Cardinality(Publishers)
  <2>1. /\ Cardinality(Copies(id)) \in Nat /\ failures \in Nat
        /\ Cardinality(Payers(id)) \in Nat
        /\ Cardinality(Payers(id)) <= Cardinality(Publishers)
        /\ Cardinality(Publishers) \in Nat
    BY <1>2, CopiesFinite, PayersFinite, RelayAssumption, FS_CardinalityType
       DEF IInv, TypeOK
  <2>2. Cardinality(Copies(id)) <= failures + Cardinality(Payers(id))
    BY <1>2 DEF PaymentInv, PaidFor
  <2> QED
    BY <2>1, <2>2
<1>3. IInv /\ PaymentInv => CopiesArePaidFor
  BY <1>2 DEF CopiesArePaidFor
<1> QED
  BY InitInv, InitPays, <1>1, <1>3, PTL DEF Spec
=============================================================================
