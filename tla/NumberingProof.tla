---------------------------- MODULE NumberingProof ----------------------------
(***************************************************************************)
(* Three things rest on numbers given out in order: the ids drawn from the *)
(* counter document (IdCounter), the feeds, whose rows are sorted by the   *)
(* time or the number of the store (Feed), and the two documents that a    *)
(* relocation stores, each only at the revision it was loaded at           *)
(* (Ownership).                                                            *)
(*                                                                         *)
(* The ids are unique, for any number of workers, days and failures.       *)
(* Uniqueness is not inductive: it needs that the numbers given out lie    *)
(* below the next free one, and that a copy of the counter which carries   *)
(* its present revision has its present numbers.                           *)
(***************************************************************************)
EXTENDS IdCounter, Feed, Ownership, FiniteSetTheorems, TLAPS

\* A worker's copy of the counter is never newer than the counter, and one of
\* the same revision is the same document.
CopiesAreOld ==
  \A w \in Workers :
    /\ read[w].rev <= counter.rev
    /\ read[w].rev = counter.rev => read[w] = counter

IInv == TypeOK /\ CopiesAreOld /\ DrawnBelowNext /\ IdsUnique

\* The counter document stays one when a draw is saved.
LEMMA IncrementedType ==
  ASSUME TypeOK, NEW w \in Workers
  PROVE  Incremented(w) \in CounterDoc
BY DEF TypeOK, Incremented, CounterDoc

LEMMA InitInv == Init => IInv
BY FaultsAssumption DEF Init, Fresh, IInv, TypeOK, CounterDoc, CopiesAreOld, DrawnBelowNext, IdsUnique

\* The variables keep their types.
LEMMA TypeStep == TypeOK /\ [Next]_vars => TypeOK'
<1> SUFFICES ASSUME TypeOK, [Next]_vars PROVE TypeOK'
  OBVIOUS
<1>1. ASSUME NEW w \in Workers, Get(w) PROVE TypeOK'
  BY <1>1 DEF TypeOK, Get, Goto
<1>2. ASSUME NEW w \in Workers, Save(w) PROVE TypeOK'
  <2>1. counter' \in CounterDoc
    BY <1>2, IncrementedType DEF Save
  <2>2. id' \in [Workers -> Nat]
    BY <1>2 DEF TypeOK, Save, CounterDoc
  <2> QED
    BY <1>2, <2>1, <2>2 DEF TypeOK, Save, Goto
<1>3. ASSUME NEW w \in Workers, Conflict(w) \/ Wake(w) PROVE TypeOK'
  BY <1>3 DEF TypeOK, Conflict, Wake, Goto
<1>4. ASSUME NEW w \in Workers, Fail(w) PROVE TypeOK'
  BY <1>4, FaultsAssumption DEF TypeOK, Fail, Goto
<1>5. ASSUME NEW w \in Workers, FailAfterSave(w) PROVE TypeOK'
  <2>1. counter' \in CounterDoc
    BY <1>5, IncrementedType DEF FailAfterSave
  <2> QED
    BY <1>5, <2>1, FaultsAssumption DEF TypeOK, FailAfterSave, Goto
<1>6. CASE UNCHANGED vars
  BY <1>6 DEF TypeOK, vars
<1> QED
  BY <1>1, <1>2, <1>3, <1>4, <1>5, <1>6 DEF Next, LoopStep, Finished

\* A save moves the counter past every copy, so none of them is of its new
\* revision; a read makes a copy that is the counter.
LEMMA CopiesStep == TypeOK /\ CopiesAreOld /\ [Next]_vars => CopiesAreOld'
<1> SUFFICES ASSUME TypeOK, CopiesAreOld, [Next]_vars PROVE CopiesAreOld'
  OBVIOUS
<1>1. ASSUME NEW w \in Workers, Get(w) PROVE CopiesAreOld'
  BY <1>1 DEF TypeOK, CounterDoc, CopiesAreOld, Get
<1>2. ASSUME NEW w \in Workers, Save(w) \/ FailAfterSave(w) PROVE CopiesAreOld'
  <2>1. counter'.rev = counter.rev + 1 /\ read' = read
    BY <1>2 DEF Save, FailAfterSave, Incremented, Current
  <2> QED
    BY <2>1 DEF CopiesAreOld, TypeOK, CounterDoc
<1>3. CASE UNCHANGED <<counter, read>>
  BY <1>3 DEF CopiesAreOld
<1> QED
  BY <1>1, <1>2, <1>3 DEF Next, LoopStep, Conflict, Wake, Fail, Finished, vars

\* What a worker draws is the number that was free, the next free one is above
\* it, and the free numbers of the other days stay as they are.
LEMMA DrawIsFresh ==
  ASSUME TypeOK, CopiesAreOld, NEW w \in Workers, Current(w)
  PROVE  /\ read[w].next[day[w]] = counter.next[day[w]]
         /\ Incremented(w).next[day[w]] = counter.next[day[w]] + 1
         /\ \A d \in Days : Incremented(w).next[d] >= counter.next[d]
<1>1. read[w] = counter
  BY DEF Current, CopiesAreOld
<1>2. counter.next \in [Days -> Nat \ {0}] /\ day[w] \in Days
  BY DEF TypeOK, CounterDoc
<1>3. Incremented(w).next = [counter.next EXCEPT ![day[w]] = @ + 1]
  BY <1>1 DEF Incremented
<1> QED
  BY <1>1, <1>2, <1>3

\* The steps that give no number and free none: nothing changes for the ids.
LEMMA NothingDrawn ==
  ASSUME TypeOK, DrawnBelowNext, IdsUnique,
         UNCHANGED <<id, day>>,
         \A v \in Workers : pc'[v] = "done" => pc[v] = "done",
         \A d \in Days : counter'.next[d] >= counter.next[d],
         counter' \in CounterDoc
  PROVE  DrawnBelowNext' /\ IdsUnique'
BY DEF TypeOK, CounterDoc, DrawnBelowNext, IdsUnique

\* Uniqueness is kept: the number drawn was not below the next free one of its
\* day, and all the numbers given out before were.
LEMMA DrawStep == IInv /\ [Next]_vars => DrawnBelowNext' /\ IdsUnique'
<1> SUFFICES ASSUME IInv, [Next]_vars PROVE DrawnBelowNext' /\ IdsUnique'
  OBVIOUS
<1> USE DEF IInv
<1>0. TypeOK'
  BY TypeStep
<1>1. ASSUME NEW w \in Workers, Save(w) PROVE DrawnBelowNext' /\ IdsUnique'
  <2>1. /\ id'[w] = counter.next[day[w]]
        /\ counter'.next[day[w]] = counter.next[day[w]] + 1
        /\ \A d \in Days : counter'.next[d] >= counter.next[d]
    BY <1>1, DrawIsFresh DEF Save, TypeOK
  <2>2. \A d \in Days : counter.next[d] \in Nat \ {0} /\ counter'.next[d] \in Nat \ {0}
    BY <1>0 DEF TypeOK, CounterDoc
  <2>3. \A v \in Workers \ {w} : id'[v] = id[v] /\ (pc'[v] = "done" <=> pc[v] = "done")
    BY <1>1 DEF Save, Goto, TypeOK
  <2>4. day' = day /\ \A v \in Workers : day[v] \in Days /\ id[v] \in Nat
    BY <1>1 DEF Save, TypeOK
  <2>5. DrawnBelowNext'
    BY <2>1, <2>2, <2>3, <2>4 DEF DrawnBelowNext
  <2>6. IdsUnique'
    <3>1. \A v \in Workers \ {w} :
            pc'[v] = "done" /\ day[v] = day[w] => id'[v] < id'[w]
      BY <2>1, <2>2, <2>3, <2>4 DEF DrawnBelowNext
    <3>2. \A v \in Workers : id'[v] \in Nat
      BY <1>0 DEF TypeOK
    <3> QED
      BY <2>3, <2>4, <3>1, <3>2 DEF IdsUnique
  <2> QED
    BY <2>5, <2>6
<1>2. ASSUME NEW w \in Workers, FailAfterSave(w) PROVE DrawnBelowNext' /\ IdsUnique'
  <2>1. \A d \in Days : counter'.next[d] >= counter.next[d]
    BY <1>2, DrawIsFresh DEF FailAfterSave
  <2>2. \A v \in Workers : pc'[v] = "done" => pc[v] = "done"
    BY <1>2 DEF FailAfterSave, Goto, TypeOK
  <2>3. UNCHANGED <<id, day>> /\ counter' \in CounterDoc
    BY <1>0, <1>2 DEF FailAfterSave, TypeOK
  <2> QED
    BY <2>1, <2>2, <2>3, NothingDrawn
<1>3. ASSUME NEW w \in Workers, Get(w) \/ Conflict(w) \/ Wake(w) \/ Fail(w)
      PROVE  DrawnBelowNext' /\ IdsUnique'
  <2>1. UNCHANGED <<id, day, counter>>
    BY <1>3 DEF Get, Conflict, Wake, Fail
  <2>2. \A v \in Workers : pc'[v] = "done" => pc[v] = "done"
    BY <1>3 DEF Get, Conflict, Wake, Fail, Goto, TypeOK
  <2>3. \A d \in Days : counter'.next[d] >= counter.next[d]
    BY <2>1 DEF TypeOK, CounterDoc
  <2> QED
    BY <1>0, <2>1, <2>2, <2>3, NothingDrawn DEF TypeOK
<1>4. CASE UNCHANGED vars
  BY <1>4 DEF DrawnBelowNext, IdsUnique, vars
<1> QED
  BY <1>1, <1>2, <1>3, <1>4 DEF Next, LoopStep, Finished

\* The inductive invariant holds of every reachable state.
THEOREM Invariant == Spec => []IInv
<1>1. IInv /\ [Next]_vars => IInv'
  BY TypeStep, CopiesStep, DrawStep DEF IInv
<1> QED
  BY InitInv, <1>1, PTL DEF Spec

\* generate_tender_id: two tenders of one day never get the same id.
THEOREM IdsAreUnique == Spec => []IdsUnique
<1>1. IInv => IdsUnique
  BY DEF IInv
<1> QED
  BY Invariant, <1>1, PTL

\* The state of the loop and of the counter document is well typed; in
\* particular no day's next number ever becomes 0.
THEOREM CounterTypeCorrect == Spec => []TypeOK
<1>1. IInv => TypeOK
  BY DEF IInv
<1> QED
  BY Invariant, <1>1, PTL
-----------------------------------------------------------------------------
(* The count of the numbers lost.                                          *)

\* The calls that have returned are finitely many.
LEMMA IssuedFinite ==
  ASSUME NEW d \in Days
  PROVE  IsFiniteSet(Issued(d)) /\ Cardinality(Issued(d)) \in Nat
<1>1. Issued(d) \subseteq Workers
  BY DEF Issued
<1> QED
  BY <1>1, WorkersAssumption, FS_Subset, FS_CardinalityType

\* A call that returns nothing leaves the count of its day as it was.
LEMMA IssuedSame ==
  ASSUME TypeOK, NEW d \in Days, day' = day,
         \A v \in Workers : pc'[v] = "done" <=> pc[v] = "done"
  PROVE  Issued(d)' = Issued(d)
BY DEF Issued

\* A number is counted when it is given out, and a number that is not given
\* out although it was taken is charged to the failure that lost it.
LEMMA GapsStep == IInv /\ GapsAreFaults /\ [Next]_vars => GapsAreFaults'
<1> SUFFICES ASSUME IInv, GapsAreFaults, [Next]_vars, NEW d \in Days
             PROVE  (counter.next[d] - 1 - Cardinality(Issued(d)) \in 0 .. faults)'
  BY DEF GapsAreFaults
<1> USE DEF IInv
<1>0. /\ counter.next[d] - 1 - Cardinality(Issued(d)) \in 0 .. faults
      /\ counter.next[d] \in Nat \ {0} /\ faults \in Nat
      /\ counter.next \in [Days -> Nat \ {0}]
      /\ Cardinality(Issued(d)) \in Nat
  BY IssuedFinite DEF GapsAreFaults, TypeOK, CounterDoc
<1>1. ASSUME NEW w \in Workers, Save(w)
      PROVE  (counter.next[d] - 1 - Cardinality(Issued(d)) \in 0 .. faults)'
  <2>1. read[w] = counter /\ day[w] \in Days /\ faults' = faults
    BY <1>1 DEF Save, Current, CopiesAreOld, TypeOK
  <2>2. counter'.next = [counter.next EXCEPT ![day[w]] = @ + 1]
    BY <1>1, <2>1 DEF Save, Incremented
  <2>3. CASE day[w] = d
    <3>1. Issued(d)' = Issued(d) \cup {w} /\ w \notin Issued(d)
      BY <1>1, <2>3 DEF Issued, Save, Goto, TypeOK
    <3>2. Cardinality(Issued(d)') = Cardinality(Issued(d)) + 1
      BY <3>1, IssuedFinite, FS_AddElement
    <3>3. counter'.next[d] = counter.next[d] + 1
      BY <1>0, <2>2, <2>3
    <3> QED
      BY <1>0, <2>1, <3>2, <3>3
  <2>4. CASE day[w] # d
    <3>1. Issued(d)' = Issued(d)
      BY <1>1, <2>4 DEF Issued, Save, Goto, TypeOK
    <3>2. counter'.next[d] = counter.next[d]
      BY <1>0, <2>1, <2>2, <2>4
    <3> QED
      BY <1>0, <2>1, <3>1, <3>2
  <2> QED
    BY <2>3, <2>4
<1>2. ASSUME NEW w \in Workers, FailAfterSave(w)
      PROVE  (counter.next[d] - 1 - Cardinality(Issued(d)) \in 0 .. faults)'
  <2>1. read[w] = counter /\ day[w] \in Days /\ faults' = faults + 1
    BY <1>2 DEF FailAfterSave, Current, CopiesAreOld, TypeOK
  <2>2. counter'.next = [counter.next EXCEPT ![day[w]] = @ + 1]
    BY <1>2, <2>1 DEF FailAfterSave, Incremented
  <2>3. Issued(d)' = Issued(d)
    BY <1>2, IssuedSame DEF FailAfterSave, Goto, TypeOK
  <2>4. counter'.next[d] \in {counter.next[d], counter.next[d] + 1}
    BY <1>0, <2>1, <2>2
  <2> QED
    BY <1>0, <2>1, <2>3, <2>4
<1>3. ASSUME NEW w \in Workers, Get(w) \/ Conflict(w) \/ Wake(w) \/ Fail(w)
      PROVE  (counter.next[d] - 1 - Cardinality(Issued(d)) \in 0 .. faults)'
  <2>1. counter' = counter /\ faults' \in {faults, faults + 1}
    BY <1>3 DEF Get, Conflict, Wake, Fail
  <2>2. Issued(d)' = Issued(d)
    BY <1>3, IssuedSame DEF Get, Conflict, Wake, Fail, Goto, TypeOK
  <2> QED
    BY <1>0, <2>1, <2>2
<1>4. CASE UNCHANGED vars
  <2>1. counter' = counter /\ faults' = faults /\ Issued(d)' = Issued(d)
    BY <1>4 DEF vars, Issued
  <2> QED
    BY <1>0, <2>1
<1> QED
  BY <1>1, <1>2, <1>3, <1>4 DEF Next, LoopStep, Finished

\* generate_tender_id: without failures the numbers of a day are dense, and a
\* failure loses at most one.
THEOREM GapsAreExplained == Spec => []GapsAreFaults
<1>1. Init => GapsAreFaults
  <2> SUFFICES ASSUME Init, NEW d \in Days
               PROVE  counter.next[d] - 1 - Cardinality(Issued(d)) \in 0 .. faults
    BY DEF GapsAreFaults
  <2>1. Issued(d) = {}
    BY DEF Init, Issued
  <2>2. Cardinality(Issued(d)) = 0
    BY <2>1, FS_EmptySet
  <2> QED
    BY <2>2 DEF Init, Fresh
<1> QED
  BY <1>1, Invariant, GapsStep, PTL DEF Spec
-----------------------------------------------------------------------------
(***************************************************************************)
(* A reader that follows next_page skips no version, for any number of     *)
(* documents and saves and any page sizes.  The reason is the order of the *)
(* keys: where stores are not overtaken, each gets the greatest key there  *)
(* is, so whatever the reader or the view has not seen yet lies ahead of   *)
(* every row of the view.                                                  *)
(***************************************************************************)

\* The reader is promised that nothing is skipped.
Promised == sorting = "changes" \/ ~ overtaken

\* The saves under way.
UnderWay == {d \in Docs : stamped[d] # 0}

\* What the constants and the actions do to the types.
Typed ==
  /\ FeedTypeOK
  /\ seq + Cardinality(UnderWay) <= clock

\* Keys come from the counters, and a time is given to one save only.
KeysFit ==
  /\ \A d \in Docs : index[d].key <= store[d].key /\ stamped[d] <= clock
  /\ sorting = "changes" => \A d \in Docs : store[d].key <= seq
  /\ sorting = "dateModified" =>
       /\ \A d \in Docs : store[d].key <= clock
       /\ \A d, e \in Docs : stamped[d] # 0 =>
            /\ store[e].key # stamped[d]
            /\ d # e => stamped[e] # stamped[d]
       /\ \A d \in Docs : stamped[d] # 0 => store[d].key < stamped[d]

\* The reader is not ahead of what was stored.
OffsetFits == offset = 0 \/ \E e \in Docs : offset <= store[e].key

\* What the view lacks lies behind all its rows.
LaggingIsAhead ==
  Promised => \A d, e \in Docs : index[d] # store[d] => index[e].key < store[d].key

FeedIInv == Typed /\ KeysFit /\ OffsetFits /\ LaggingIsAhead /\ NothingSkipped

-----------------------------------------------------------------------------
(* Rows and pages.                                                         *)

LEMMA DocsAreFinite == IsFiniteSet(Docs)
BY FeedAssumption, FS_Interval DEF Docs

\* A row that is left out lies behind the rows that are not.
LEMMA LeftOutIsBehind ==
  ASSUME FeedTypeOK, NEW rows \in SUBSET Docs, NEW n \in Nat,
         NEW d \in rows, d \notin FirstOf(rows, n), NEW e \in FirstOf(rows, n)
  PROVE  index[e].key < index[d].key
<1> DEFINE Before(x) == {y \in rows : index[y].key < index[x].key}
<1>1. e \in rows /\ Cardinality(Before(e)) < n /\ ~ Cardinality(Before(d)) < n
  BY DEF FirstOf
<1>2. IsFiniteSet(Before(d)) /\ IsFiniteSet(Before(e))
  <2>1. Before(d) \in SUBSET Docs /\ Before(e) \in SUBSET Docs
    OBVIOUS
  <2> QED BY <2>1, DocsAreFinite, FS_Subset
<1>3. /\ index[d].key \in Nat /\ index[e].key \in Nat
      /\ \A y \in rows : index[y].key \in Nat
  BY <1>1 DEF FeedTypeOK, Row
<1>4. CASE ~ index[e].key < index[d].key
  <2>1. Before(d) \in SUBSET Before(e)
    BY <1>3, <1>4
  <2>2. Cardinality(Before(d)) <= Cardinality(Before(e))
    BY <1>2, <2>1, FS_Subset
  <2>3. Cardinality(Before(d)) \in Nat /\ Cardinality(Before(e)) \in Nat
    BY <1>2, FS_CardinalityType
  <2> QED BY <1>1, <2>2, <2>3
<1> QED BY <1>4

\* The rows of a page are rows of the view, and a row ahead of the reader that
\* is not on the page lies behind the page.
LEMMA PageIsNext ==
  ASSUME FeedTypeOK
  PROVE  /\ Page \in SUBSET Docs
         /\ \A d \in Docs, e \in Page :
              d \notin Page /\ index[d].key > offset => index[e].key < index[d].key
<1> DEFINE ahead == {d \in Docs : index[d].key # 0 /\ index[d].key >= offset}
           rows == Rows(offset, ViewLimit)
<1>1. /\ ahead \in SUBSET Docs /\ rows = FirstOf(ahead, ViewLimit)
      /\ rows \in SUBSET ahead /\ FirstOf(rows, limit) \in SUBSET rows
  BY DEF Rows, FirstOf
<1>2. ViewLimit \in Nat /\ limit \in Nat
  BY FeedAssumption DEF ViewLimit, FeedTypeOK
<1>3. Page = IF offset = 0 THEN rows
             ELSE IF \E d \in rows : index[d].key = offset
                  THEN {d \in rows : index[d].key # offset}
             ELSE FirstOf(rows, limit)
  BY DEF Page
<1>4. Page \in SUBSET rows
  BY <1>1, <1>3
<1>5. ASSUME NEW d \in Docs, NEW e \in Page, d \notin Page, index[d].key > offset
      PROVE  index[e].key < index[d].key
  <2>1. /\ offset \in Nat /\ index[d].key \in Nat /\ index[d].key # offset
    BY <1>5 DEF FeedTypeOK, Row
  <2>2. d \in ahead /\ e \in rows
    BY <1>4, <1>5, <2>1
  <2>3. CASE d \notin rows
    BY <1>1, <1>2, <2>2, <2>3, LeftOutIsBehind
  <2>4. CASE d \in rows
    <3>1. Page = FirstOf(rows, limit)
      BY <1>3, <1>5, <2>1, <2>4
    <3> QED BY <1>1, <1>2, <1>5, <2>4, <3>1, LeftOutIsBehind
  <2> QED BY <2>3, <2>4
<1> QED BY <1>1, <1>4, <1>5

-----------------------------------------------------------------------------
(* Each action keeps the invariant.                                        *)

LEMMA FeedInitSound == FeedInit => FeedIInv
<1> SUFFICES ASSUME FeedInit PROVE FeedIInv
  OBVIOUS
<1>1. FeedTypeOK
  <2>1. Absent \in Row
    BY DEF Absent, Row
  <2>2. store \in [Docs -> Row] /\ index \in [Docs -> Row]
    BY <2>1 DEF FeedInit
  <2>3. sorting \in {"dateModified", "changes"} /\ overtaken \in BOOLEAN
    BY Zenon DEF FeedInit
  <2>4. stamped \in [Docs -> Nat] /\ seen \in [Docs -> Nat]
    BY DEF FeedInit
  <2>5. clock \in 0 .. MaxSaves /\ seq \in 0 .. MaxSaves /\ offset \in Nat /\ limit \in Limits
    BY FeedAssumption DEF FeedInit
  <2> QED
    BY <2>2, <2>3, <2>4, <2>5, Zenon DEF FeedTypeOK
<1>2. UnderWay = {}
  BY DEF FeedInit, UnderWay
<1>3. Typed
  BY <1>1, <1>2, FS_EmptySet DEF Typed, FeedInit
<1> QED
  BY <1>3 DEF FeedIInv, FeedInit, KeysFit, OffsetFits, LaggingIsAhead, NothingSkipped, Absent

LEMMA UnderWayIsFinite == IsFiniteSet(UnderWay) /\ Cardinality(UnderWay) \in Nat
<1>1. UnderWay \in SUBSET Docs
  BY DEF UnderWay
<1> QED BY <1>1, DocsAreFinite, FS_Subset, FS_CardinalityType

\* The time of a save is a new one.
LEMMA StampSound == ASSUME FeedIInv, NEW d \in Docs, Stamp(d) PROVE FeedIInv'
<1>1. /\ stamped \in [Docs -> Nat] /\ clock \in Nat /\ clock' = clock + 1 /\ clock < MaxSaves
      /\ stamped[d] = 0 /\ stamped' = [stamped EXCEPT ![d] = clock']
      /\ UNCHANGED <<sorting, store, index, seq, limit, offset, seen, overtaken>>
  BY FeedAssumption DEF Stamp, FeedIInv, Typed, FeedTypeOK
<1>2. FeedTypeOK'
  BY <1>1, FeedAssumption DEF FeedIInv, Typed, FeedTypeOK
<1>3. Typed'
  <2>1. UnderWay' = UnderWay \cup {d} /\ d \notin UnderWay
    BY <1>1 DEF UnderWay
  <2>2. Cardinality(UnderWay') = Cardinality(UnderWay) + 1
    BY <2>1, UnderWayIsFinite, FS_AddElement
  <2>3. seq \in Nat
    BY DEF FeedIInv, Typed, FeedTypeOK
  <2> QED BY <1>1, <1>2, <2>2, <2>3, UnderWayIsFinite DEF FeedIInv, Typed
<1>4. KeysFit'
  <2>1. store \in [Docs -> Row] /\ index \in [Docs -> Row] /\ \A e \in Docs : store[e].key \in Nat
    BY DEF FeedIInv, Typed, FeedTypeOK, Row
  <2>2. \A e \in Docs : stamped[e] <= clock /\ stamped[e] \in Nat
    BY <1>1 DEF FeedIInv, KeysFit
  <2>3. \A e \in Docs : stamped'[e] <= clock' /\ index[e].key <= store[e].key
    BY <1>1, <2>2 DEF FeedIInv, KeysFit
  <2>4. ASSUME sorting = "dateModified"
        PROVE  /\ \A e \in Docs : store[e].key <= clock'
               /\ \A e, f \in Docs : stamped'[e] # 0 =>
                    /\ store[f].key # stamped'[e]
                    /\ e # f => stamped'[f] # stamped'[e]
               /\ \A e \in Docs : stamped'[e] # 0 => store[e].key < stamped'[e]
    BY <1>1, <2>1, <2>2, <2>4 DEF FeedIInv, KeysFit
  <2> QED BY <1>1, <2>3, <2>4 DEF FeedIInv, KeysFit
<1> QED
  BY <1>1, <1>3, <1>4 DEF FeedIInv, OffsetFits, LaggingIsAhead, Promised, NothingSkipped

\* A store that is not overtaken gets the greatest key there is.
LEMMA StoredIsLast ==
  ASSUME FeedIInv, NEW d \in Docs, Store(d)
  PROVE  /\ store[d].key < store'[d].key
         /\ Promised' => Promised /\ \A e \in Docs : store[e].key < store'[d].key
<1>1. /\ stamped[d] # 0 /\ seq \in Nat /\ seq' = seq + 1 /\ sorting' = sorting
      /\ store \in [Docs -> Row] /\ stamped \in [Docs -> Nat]
      /\ store'[d].key = IF sorting = "changes" THEN seq' ELSE stamped[d]
      /\ \A e \in Docs : e # d => store'[e] = store[e]
      /\ overtaken' = (overtaken \/ \E e \in Docs : store'[e].key > store'[d].key)
  BY DEF Store, FeedIInv, Typed, FeedTypeOK
<1>2. \A e \in Docs : store[e].key \in Nat
  BY <1>1 DEF Row
<1>3. sorting \in {"dateModified", "changes"}
  BY DEF FeedIInv, Typed, FeedTypeOK
<1>4. CASE sorting = "changes"
  BY <1>1, <1>2, <1>4 DEF FeedIInv, KeysFit, Promised
<1>5. CASE sorting = "dateModified"
  <2>1. store'[d].key = stamped[d] /\ stamped[d] \in Nat
    BY <1>1, <1>5
  <2>2. store[d].key < stamped[d] /\ \A e \in Docs : store[e].key # stamped[d]
    BY <1>1, <1>5 DEF FeedIInv, KeysFit
  <2>3. ASSUME Promised', NEW e \in Docs PROVE Promised /\ store[e].key < store'[d].key
    <3>1. ~ overtaken' /\ Promised
      BY <1>1, <1>5, <2>3 DEF Promised
    <3>2. CASE e = d
      BY <2>1, <2>2, <3>1, <3>2
    <3>3. CASE e # d
      <4>1. ~ store'[e].key > store'[d].key /\ store'[e] = store[e]
        BY <1>1, <3>1, <3>3
      <4> QED BY <1>2, <2>1, <2>2, <3>1, <4>1
    <3> QED BY <3>2, <3>3
  <2> QED BY <2>1, <2>2, <2>3
<1> QED BY <1>3, <1>4, <1>5

LEMMA StoreSound == ASSUME FeedIInv, NEW d \in Docs, Store(d) PROVE FeedIInv'
<1>1. /\ stamped[d] # 0 /\ seq \in Nat /\ seq' = seq + 1
      /\ store \in [Docs -> Row] /\ index \in [Docs -> Row] /\ stamped \in [Docs -> Nat]
      /\ clock \in 0 .. MaxSaves /\ offset \in Nat
      /\ stamped' = [stamped EXCEPT ![d] = 0]
      /\ UNCHANGED <<sorting, index, clock, limit, offset, seen>>
  BY DEF Store, FeedIInv, Typed, FeedTypeOK
<1>2. /\ store' \in [Docs -> Row] /\ \A e \in Docs : e # d => store'[e] = store[e]
      /\ store'[d].key = IF sorting = "changes" THEN seq' ELSE stamped[d]
  <2> DEFINE row == [key |-> IF sorting = "changes" THEN seq' ELSE stamped[d],
                     version |-> store[d].version + 1]
  <2>1. store' = [store EXCEPT ![d] = row]
    BY DEF Store
  <2>2. row \in Row
    BY <1>1 DEF Row
  <2>3. row.key = IF sorting = "changes" THEN seq' ELSE stamped[d]
    OBVIOUS
  <2> HIDE DEF row
  <2> QED BY <1>1, <2>1, <2>2, <2>3
<1>3. \A e \in Docs : /\ store[e].key \in Nat /\ store'[e].key \in Nat /\ index[e].key \in Nat
                      /\ store[e].key <= store'[e].key /\ index[e].key <= store[e].key
  BY <1>1, <1>2, StoredIsLast DEF Row, FeedIInv, KeysFit
<1>4. Typed'
  <2>1. UnderWay' = UnderWay \ {d} /\ d \in UnderWay
    BY <1>1 DEF UnderWay
  <2>2. Cardinality(UnderWay') = Cardinality(UnderWay) - 1
    BY <2>1, UnderWayIsFinite, FS_RemoveElement
  <2>3. Cardinality(UnderWay) \in Nat /\ Cardinality(UnderWay') \in Nat
    BY <2>1, UnderWayIsFinite, FS_RemoveElement, FS_CardinalityType
  <2>4. seq' + Cardinality(UnderWay') <= clock'
    BY <1>1, <2>2, <2>3 DEF FeedIInv, Typed
  <2>5. seq' \in 0 .. MaxSaves
    BY <1>1, <2>3, <2>4, FeedAssumption
  <2>6. overtaken' \in BOOLEAN
    BY DEF Store, FeedIInv, Typed, FeedTypeOK
  <2> QED BY <1>1, <1>2, <2>4, <2>5, <2>6 DEF FeedIInv, Typed, FeedTypeOK
<1>5. KeysFit'
  <2>1. \A e \in Docs : index[e].key <= store'[e].key
    BY <1>3
  <2>2. \A e \in Docs : /\ stamped[e] \in Nat /\ stamped'[e] <= clock' /\ stamped[e] <= clock
                        /\ stamped'[e] # 0 => e # d /\ stamped'[e] = stamped[e]
    BY <1>1 DEF FeedIInv, KeysFit
  <2>3. sorting = "changes" => \A e \in Docs : store'[e].key <= seq'
    BY <1>1, <1>2, <1>3 DEF FeedIInv, KeysFit
  <2>4. ASSUME sorting = "dateModified"
        PROVE  /\ \A e \in Docs : store'[e].key <= clock
               /\ \A e, f \in Docs : stamped'[e] # 0 =>
                    /\ store'[f].key # stamped'[e]
                    /\ e # f => stamped'[f] # stamped'[e]
               /\ \A e \in Docs : stamped'[e] # 0 => store'[e].key < stamped'[e]
    <3>1. store'[d].key = stamped[d]
      BY <1>2, <2>4
    <3>2. \A e \in Docs : store'[e].key <= clock
      BY <1>2, <2>2, <2>4, <3>1 DEF FeedIInv, KeysFit
    <3>3. ASSUME NEW e \in Docs, stamped'[e] # 0
          PROVE  /\ store'[e].key < stamped'[e]
                 /\ \A f \in Docs : /\ store'[f].key # stamped'[e]
                                    /\ e # f => stamped'[f] # stamped'[e]
      <4>1. e # d /\ stamped'[e] = stamped[e]
        BY <2>2, <3>3
      <4>2. store'[e] = store[e] /\ store[e].key < stamped[e]
        BY <1>2, <2>4, <3>3, <4>1 DEF FeedIInv, KeysFit
      <4>3. ASSUME NEW f \in Docs
            PROVE  store'[f].key # stamped'[e] /\ (e # f => stamped'[f] # stamped'[e])
        <5>1. /\ store[f].key # stamped[e] /\ (e # f => stamped[f] # stamped[e])
              /\ stamped[d] # stamped[e]
          BY <1>1, <2>4, <3>3, <4>1 DEF FeedIInv, KeysFit
        <5> QED BY <1>1, <1>2, <3>1, <3>3, <4>1, <5>1
      <4> QED BY <4>1, <4>2, <4>3
    <3> QED BY <3>2, <3>3
  <2> QED BY <1>1, <2>1, <2>2, <2>3, <2>4 DEF KeysFit
<1>6. OffsetFits'
  <2>1. CASE offset = 0
    BY <1>1, <2>1 DEF OffsetFits
  <2>2. ASSUME NEW e \in Docs, offset <= store[e].key PROVE offset <= store'[e].key
    BY <1>1, <1>3, <2>2
  <2> QED BY <1>1, <2>1, <2>2 DEF FeedIInv, OffsetFits
<1>7. LaggingIsAhead'
  <2> SUFFICES ASSUME Promised', NEW x \in Docs, NEW e \in Docs, index[x] # store'[x]
               PROVE  index[e].key < store'[x].key
    BY <1>1 DEF LaggingIsAhead
  <2>1. CASE x = d
    BY <1>3, <2>1, StoredIsLast
  <2>2. CASE x # d
    BY <1>2, <2>2, StoredIsLast DEF FeedIInv, LaggingIsAhead
  <2> QED BY <2>1, <2>2
<1>8. NothingSkipped'
  <2> SUFFICES ASSUME Promised', NEW x \in Docs, seen[x] < store'[x].version
               PROVE  store'[x].key > offset
    BY <1>1 DEF NothingSkipped, Promised
  <2>1. CASE x # d
    BY <1>2, <2>1, StoredIsLast DEF FeedIInv, NothingSkipped, Promised
  <2>2. CASE x = d
    <3>1. \A e \in Docs : store[e].key < store'[d].key
      BY StoredIsLast
    <3>2. CASE offset = 0
      BY <1>3, <2>2, <3>1, <3>2
    <3>3. ASSUME NEW e \in Docs, offset <= store[e].key PROVE store'[x].key > offset
      BY <1>1, <1>3, <2>2, <3>1, <3>3
    <3> QED BY <3>2, <3>3 DEF FeedIInv, OffsetFits
  <2> QED BY <2>1, <2>2
<1> QED BY <1>4, <1>5, <1>6, <1>7, <1>8 DEF FeedIInv

\* What the view lacked is now one of its rows.
LEMMA UpdateSound == ASSUME FeedIInv, UpdateIndex PROVE FeedIInv'
<1>1. /\ index' = store
      /\ UNCHANGED <<sorting, store, stamped, clock, seq, limit, offset, seen, overtaken>>
  BY DEF UpdateIndex
<1>2. Typed'
  BY <1>1 DEF FeedIInv, Typed, FeedTypeOK, UnderWay
<1>3. \A d \in Docs : store[d].key \in Nat
  BY DEF FeedIInv, Typed, FeedTypeOK, Row
<1>4. KeysFit'
  BY <1>1, <1>3 DEF FeedIInv, KeysFit
<1> QED
  BY <1>1, <1>2, <1>4 DEF FeedIInv, OffsetFits, LaggingIsAhead, NothingSkipped, Promised

\* A row the reader passes over without a copy would have to lie ahead of it.
LEMMA ReadSound == ASSUME FeedIInv, Read PROVE FeedIInv'
<1>1. PICK last \in Page : /\ \A d \in Page : index[d].key <= index[last].key
                           /\ offset' = index[last].key
  BY DEF Read
<1>2. /\ seen' = [d \in Docs |-> IF d \in Page THEN index[d].version ELSE seen[d]]
      /\ UNCHANGED <<sorting, store, index, stamped, clock, seq, limit, overtaken>>
  BY DEF Read
<1>3. /\ FeedTypeOK /\ Page \in SUBSET Docs /\ last \in Docs
      /\ \A d \in Docs : /\ index[d] \in Row /\ store[d] \in Row /\ seen[d] \in Nat
                         /\ index[d].key \in Nat /\ store[d].key \in Nat
                         /\ index[d].version \in Nat /\ store[d].version \in Nat
  BY <1>1, PageIsNext DEF FeedIInv, Typed, FeedTypeOK, Row
<1>4. Typed'
  BY <1>1, <1>2, <1>3 DEF FeedIInv, Typed, FeedTypeOK, UnderWay
<1>5. KeysFit'
  BY <1>2 DEF FeedIInv, KeysFit
<1>6. OffsetFits'
  BY <1>1, <1>2, <1>3 DEF FeedIInv, KeysFit, OffsetFits
<1>7. LaggingIsAhead'
  BY <1>2 DEF FeedIInv, LaggingIsAhead, Promised
<1>8. NothingSkipped'
  <2> SUFFICES ASSUME Promised, NEW d \in Docs, seen'[d] < store[d].version
               PROVE  store[d].key > offset'
    BY <1>2 DEF NothingSkipped, Promised
  <2>1. CASE index[d] # store[d]
    BY <1>1, <1>3, <2>1 DEF FeedIInv, LaggingIsAhead
  <2>2. CASE index[d] = store[d]
    <3>1. d \notin Page /\ seen[d] < store[d].version
      BY <1>2, <1>3, <2>2
    <3>2. index[d].key > offset
      BY <2>2, <3>1 DEF FeedIInv, NothingSkipped, Promised
    <3>3. index[last].key < index[d].key
      BY <1>1, <1>3, <3>1, <3>2, PageIsNext
    <3> QED BY <1>1, <1>3, <2>2, <3>3
  <2> QED BY <2>1, <2>2
<1> QED BY <1>4, <1>5, <1>6, <1>7, <1>8 DEF FeedIInv

LEMMA FeedStep == FeedIInv /\ [FeedNext]_feedVars => FeedIInv'
<1> SUFFICES ASSUME FeedIInv, [FeedNext]_feedVars PROVE FeedIInv'
  OBVIOUS
<1>1. ASSUME NEW d \in Docs, Stamp(d) \/ Store(d) PROVE FeedIInv'
  BY <1>1, StampSound, StoreSound
<1>2. CASE UpdateIndex \/ Read
  BY <1>2, UpdateSound, ReadSound
<1>3. CASE UNCHANGED feedVars
  BY <1>3 DEF feedVars, FeedIInv, Typed, FeedTypeOK, UnderWay, KeysFit, OffsetFits, LaggingIsAhead,
              Promised, NothingSkipped
<1> QED BY <1>1, <1>2, <1>3 DEF FeedNext

-----------------------------------------------------------------------------
\* Whoever follows next_page skips no version of any document: in the feed of
\* the changes whatever the saves do, in the feed by dateModified as long as no
\* save is stored after one that took its time later (APIResourceListing.get).
THEOREM NoVersionIsSkipped == FeedSpec => []FeedSound
<1>1. FeedIInv => FeedSound
  BY DEF FeedIInv, Typed, FeedSound
<1> QED BY FeedInitSound, FeedStep, <1>1, PTL DEF FeedSpec

-----------------------------------------------------------------------------
(* One Transfer relocates one object, for any number of objects, Transfers *)
(* and requests, and with the consent of the holder.  The invariants of    *)
(* the run are not inductive: whether the two stores of a request may do   *)
(* harm depends on the copies it made of the Transfer and of the object,   *)
(* and the conditional stores are what keeps those copies honest.          *)

\* A request about to save its Transfer found it free, and finds it so still
\* as long as nobody else saved it.
TransferChecked ==
  \A r \in Requests :
    /\ transferRev[r] <= transfer[T(r)].rev
    /\ stage[r] = "ready" =>
         /\ transferRev[r] > 0
         /\ TransferCurrent(r) => transfer[T(r)].usedFor \in {None, O(r)}

\* A request past the validators works on a copy that satisfied them, and that
\* is the stored object as long as nobody else saved it.
ObjectChecked ==
  \A r \in Requests :
    /\ objectCopy[r].rev <= object[O(r)].rev
    /\ stage[r] \in {"validated", "ready", "bound"} =>
         /\ MayRelocate(r, objectCopy[r])
         /\ ObjectCurrent(r) => objectCopy[r] = object[O(r)]

\* Whatever was given to a Transfer, the Transfer names it.
InstalledIsUsedFor ==
  \A t \in Transfers, o \in Objects : <<t, o>> \in installed => transfer[t].usedFor = o

OwnershipIInv ==
  /\ OwnershipTypeOK /\ TransferChecked /\ ObjectChecked
  /\ InstalledIsUsedFor /\ HolderIsUsedFor /\ HalfDoneIsRetryable

\* The first state: every object is its own, and no Transfer exists.
LEMMA OwnershipInitInv == OwnershipInit => OwnershipIInv
<1> SUFFICES ASSUME OwnershipInit PROVE OwnershipIInv
  OBVIOUS
<1>1. \A r \in Requests : O(r) \in Objects /\ T(r) \in Transfers
  BY DEF OwnershipInit, Ask, O, T
<1>2. object \in [Objects -> Object] /\ \A o \in Objects : object[o].rev = 0
  BY DEF OwnershipInit, Object, Credentials
<1>3. OwnershipTypeOK
  BY <1>1, <1>2 DEF OwnershipInit, OwnershipTypeOK, Transfer, O
<1>4. TransferChecked /\ ObjectChecked
  BY <1>1, <1>2 DEF OwnershipInit, TransferChecked, ObjectChecked, O
<1>5. InstalledIsUsedFor /\ HolderIsUsedFor /\ HalfDoneIsRetryable
  BY DEF OwnershipInit, InstalledIsUsedFor, HolderIsUsedFor, HalfDoneIsRetryable
<1> QED
  BY <1>3, <1>4, <1>5 DEF OwnershipIInv

\* What each request asks for never changes.
LEMMA AsksStay ==
  ASSUME OwnershipTypeOK, [OwnershipNext]_ownershipVars
  PROVE  /\ request' = request
         /\ \A r \in Requests :
              /\ O(r) \in Objects /\ O(r)' = O(r)
              /\ T(r) \in Transfers /\ T(r)' = T(r)
<1>1. request' = request
  BY DEF OwnershipNext, ownershipVars, CreateTransfer, EditObject, LoadObject, LoadTransfer,
         SaveTransfer,
         SaveObject, SameCredentials, Die
<1> QED
  BY <1>1 DEF OwnershipTypeOK, Ask, O, T

-----------------------------------------------------------------------------
(* Types.                                                                  *)

\* Every step keeps the types: a store writes a document, and a copy is one.
LEMMA OwnershipTypeStep == OwnershipTypeOK /\ [OwnershipNext]_ownershipVars => OwnershipTypeOK'
<1> SUFFICES ASSUME OwnershipTypeOK, [OwnershipNext]_ownershipVars PROVE OwnershipTypeOK'
  OBVIOUS
<1> USE DEF OwnershipTypeOK
<1>0. \A r \in Requests : O(r) \in Objects /\ T(r) \in Transfers
  BY AsksStay
<1>1. ASSUME NEW t \in Transfers, CreateTransfer(t) PROVE OwnershipTypeOK'
  BY <1>1 DEF CreateTransfer, Transfer
<1>2. ASSUME NEW o \in Objects, EditObject(o) PROVE OwnershipTypeOK'
  <2>1. PICK m \in BOOLEAN : object' = [object EXCEPT ![o].rev = @ + 1, ![o].movable = m]
    BY <1>2 DEF EditObject
  <2>2. object' \in [Objects -> Object]
    <3>1. object[o] \in Object
      OBVIOUS
    <3>2. [object[o] EXCEPT !.rev = object[o].rev + 1, !.movable = m] \in Object
      <4>1. object[o].rev + 1 \in Nat
        BY <3>1 DEF Object
      <4> QED
        BY <3>1, <4>1 DEF Object
    <3> QED
      BY <2>1, <3>2
  <2>3. edits' \in [Objects -> Nat]
    BY <1>2 DEF EditObject
  <2> QED
    BY <1>2, <2>2, <2>3 DEF EditObject
<1>3. ASSUME NEW r \in Requests, LoadObject(r) PROVE OwnershipTypeOK'
  BY <1>0, <1>3 DEF LoadObject, Step, Ends
<1>4. ASSUME NEW r \in Requests, LoadTransfer(r) PROVE OwnershipTypeOK'
  BY <1>0, <1>4 DEF LoadTransfer, Step, Ends, Transfer
<1>5. ASSUME NEW r \in Requests, SaveTransfer(r) PROVE OwnershipTypeOK'
  <2>1. transfer' \in [Transfers -> Transfer]
    BY <1>0, <1>5 DEF SaveTransfer, Transfer
  <2> QED
    BY <1>5, <2>1 DEF SaveTransfer, Step, Ends
<1>6. ASSUME NEW r \in Requests, SaveObject(r) PROVE OwnershipTypeOK'
  <2>1. [objectCopy[r] EXCEPT !.rev = @ + 1, !.holder = T(r)] \in Object
    <3>1. objectCopy[r] \in Object /\ T(r) \in Credentials
      BY <1>0 DEF Credentials
    <3>2. objectCopy[r].rev + 1 \in Nat
      BY <3>1 DEF Object
    <3> QED
      BY <3>1, <3>2 DEF Object
  <2>2. object' \in [Objects -> Object]
    BY <1>0, <1>6, <2>1 DEF SaveObject
  <2>3. installed' \subseteq Transfers \X Objects
    BY <1>0, <1>6 DEF SaveObject
  <2> QED
    BY <1>6, <2>2, <2>3 DEF SaveObject, Step, Ends
<1>7. ASSUME NEW r \in Requests, SameCredentials(r) \/ Die(r) PROVE OwnershipTypeOK'
  BY <1>7 DEF SameCredentials, Die, Step, Ends
<1>8. CASE UNCHANGED ownershipVars
  BY <1>8 DEF ownershipVars
<1> QED
  BY <1>1, <1>2, <1>3, <1>4, <1>5, <1>6, <1>7, <1>8 DEF OwnershipNext

-----------------------------------------------------------------------------
(* The Transfer.                                                           *)

\* How the stored Transfers move: a Transfer is created unused, or saved by a
\* request that found it free at its present revision, and bound by that.
LEMMA TransferMoves ==
  ASSUME OwnershipIInv, [OwnershipNext]_ownershipVars, NEW t \in Transfers
  PROVE  /\ transfer'[t].rev >= transfer[t].rev
         /\ transfer'[t].rev = transfer[t].rev => transfer'[t] = transfer[t]
         /\ transfer[t].usedFor # None => transfer'[t].usedFor = transfer[t].usedFor
<1> USE DEF OwnershipIInv
<1>0. transfer[t].rev \in Nat /\ transfer[t].usedFor \in Objects \cup {None}
  BY DEF OwnershipTypeOK, Transfer
<1>1. ASSUME NEW s \in Transfers, CreateTransfer(s)
      PROVE  /\ transfer'[t].rev >= transfer[t].rev
             /\ transfer'[t].rev = transfer[t].rev => transfer'[t] = transfer[t]
             /\ transfer[t].usedFor # None => transfer'[t].usedFor = transfer[t].usedFor
  BY <1>0, <1>1 DEF CreateTransfer, OwnershipTypeOK, Transfer
<1>2. ASSUME NEW r \in Requests, SaveTransfer(r)
      PROVE  /\ transfer'[t].rev >= transfer[t].rev
             /\ transfer'[t].rev = transfer[t].rev => transfer'[t] = transfer[t]
             /\ transfer[t].usedFor # None => transfer'[t].usedFor = transfer[t].usedFor
  <2>1. CASE TransferCurrent(r) /\ T(r) = t
    <3>1. transfer'[t] = [rev |-> transfer[t].rev + 1, usedFor |-> O(r)]
      BY <1>2, <2>1 DEF SaveTransfer, OwnershipTypeOK
    <3>2. transfer[t].usedFor \in {None, O(r)}
      BY <1>2, <2>1 DEF SaveTransfer, Step, TransferChecked
    <3> QED
      BY <1>0, <3>1, <3>2
  <2>2. CASE ~ (TransferCurrent(r) /\ T(r) = t)
    <3>1. transfer'[t] = transfer[t]
      BY <1>2, <2>2 DEF SaveTransfer, OwnershipTypeOK
    <3> QED
      BY <1>0, <3>1
  <2> QED
    BY <2>1, <2>2
<1>3. CASE transfer' = transfer
  BY <1>0, <1>3
<1> QED
  BY <1>1, <1>2, <1>3
  DEF OwnershipNext, ownershipVars, EditObject, LoadObject, LoadTransfer, SaveObject,
      SameCredentials, Die

\* A Transfer found free stays so until its revision moves.
LEMMA TransferCheckedStep == OwnershipIInv /\ [OwnershipNext]_ownershipVars => TransferChecked'
<1> SUFFICES ASSUME OwnershipIInv, [OwnershipNext]_ownershipVars, NEW r \in Requests
             PROVE  /\ (transferRev[r] <= transfer[T(r)].rev)'
                    /\ stage'[r] = "ready" =>
                         /\ transferRev'[r] > 0
                         /\ TransferCurrent(r)' => transfer'[T(r)'].usedFor \in {None, O(r)'}
  BY DEF TransferChecked
<1> USE DEF OwnershipIInv
<1>0. /\ T(r)' = T(r) /\ O(r)' = O(r) /\ T(r) \in Transfers /\ O(r) \in Objects
      /\ transferRev[r] \in Nat
      /\ transfer[T(r)].rev \in Nat /\ transfer'[T(r)].rev \in Nat
      /\ transfer'[T(r)].rev >= transfer[T(r)].rev
      /\ transfer'[T(r)].rev = transfer[T(r)].rev => transfer'[T(r)] = transfer[T(r)]
  BY AsksStay, OwnershipTypeStep, TransferMoves DEF OwnershipTypeOK, Transfer
<1>1. CASE LoadTransfer(r)
  <2>1. transfer' = transfer /\ transferRev'[r] = transfer[T(r)].rev
    BY <1>1 DEF LoadTransfer, OwnershipTypeOK
  <2>2. stage'[r] = "ready" => TransferFree(r)
    BY <1>1 DEF LoadTransfer, Step, OwnershipTypeOK
  <2> QED
    BY <1>0, <2>1, <2>2 DEF TransferFree
<1>2. CASE ~ LoadTransfer(r)
  <2>1. transferRev'[r] = transferRev[r]
    BY <1>2 DEF OwnershipNext, ownershipVars, CreateTransfer, EditObject, LoadObject,
                LoadTransfer, SaveTransfer,
                SaveObject, SameCredentials, Die, OwnershipTypeOK
  <2>2. stage'[r] = "ready" => stage[r] = "ready"
    BY <1>2 DEF OwnershipNext, ownershipVars, CreateTransfer, EditObject, LoadObject,
                LoadTransfer, SaveTransfer,
                SaveObject, SameCredentials, Die, Step, OwnershipTypeOK
  <2>3. transferRev[r] <= transfer[T(r)].rev
    BY DEF TransferChecked
  <2>4. stage[r] = "ready" =>
          /\ transferRev[r] > 0
          /\ transferRev[r] = transfer[T(r)].rev => transfer[T(r)].usedFor \in {None, O(r)}
    BY DEF TransferChecked, TransferCurrent
  <2> QED
    BY <1>0, <2>1, <2>2, <2>3, <2>4 DEF TransferCurrent
<1> QED
  BY <1>1, <1>2

-----------------------------------------------------------------------------
(* The object.                                                             *)

\* How the stored objects move: by an edit, which keeps the holder, or by a
\* relocation request whose checked copy is the object itself.
LEMMA ObjectMoves ==
  ASSUME OwnershipIInv, [OwnershipNext]_ownershipVars, NEW o \in Objects
  PROVE  /\ object'[o].rev >= object[o].rev
         /\ object'[o].rev = object[o].rev => object'[o] = object[o]
         /\ object'[o].holder # object[o].holder =>
              \E r \in Requests :
                /\ O(r) = o /\ stage[r] = "bound" /\ object'[o].holder = T(r)
                /\ MayRelocate(r, object[o])
<1> USE DEF OwnershipIInv
<1>0. object[o].rev \in Nat
  BY DEF OwnershipTypeOK, Object
<1>1. ASSUME NEW p \in Objects, EditObject(p)
      PROVE  /\ object'[o].rev >= object[o].rev
             /\ object'[o].rev = object[o].rev => object'[o] = object[o]
             /\ object'[o].holder = object[o].holder
  BY <1>0, <1>1 DEF EditObject, OwnershipTypeOK, Object
<1>2. ASSUME NEW r \in Requests, SaveObject(r), ObjectCurrent(r), O(r) = o
      PROVE  /\ object'[o].rev = object[o].rev + 1
             /\ stage[r] = "bound" /\ object'[o].holder = T(r)
             /\ MayRelocate(r, object[o])
  <2>1. objectCopy[r] = object[o] /\ MayRelocate(r, objectCopy[r]) /\ stage[r] = "bound"
    BY <1>2 DEF SaveObject, Step, ObjectChecked
  <2>2. object'[o] = [objectCopy[r] EXCEPT !.rev = @ + 1, !.holder = T(r)]
    BY <1>2 DEF SaveObject, OwnershipTypeOK
  <2> QED
    BY <2>1, <2>2 DEF OwnershipTypeOK, Object
<1>3. ASSUME NEW r \in Requests, SaveObject(r), ~ (ObjectCurrent(r) /\ O(r) = o)
      PROVE  object'[o] = object[o]
  BY <1>3 DEF SaveObject, OwnershipTypeOK
<1>4. CASE object' = object
  BY <1>0, <1>4
<1> QED
  BY <1>0, <1>1, <1>2, <1>3, <1>4
  DEF OwnershipNext, ownershipVars, CreateTransfer, LoadObject, LoadTransfer, SaveTransfer,
      SameCredentials, Die

\* A copy that satisfied the validators is the object until its revision moves.
LEMMA ObjectCheckedStep == OwnershipIInv /\ [OwnershipNext]_ownershipVars => ObjectChecked'
<1> SUFFICES ASSUME OwnershipIInv, [OwnershipNext]_ownershipVars, NEW r \in Requests
             PROVE  /\ (objectCopy[r].rev <= object[O(r)].rev)'
                    /\ stage'[r] \in {"validated", "ready", "bound"} =>
                         /\ MayRelocate(r, objectCopy[r])'
                         /\ ObjectCurrent(r)' => objectCopy'[r] = object'[O(r)']
  BY DEF ObjectChecked
<1> USE DEF OwnershipIInv
<1>0. /\ request' = request /\ O(r)' = O(r) /\ O(r) \in Objects
      /\ objectCopy[r].rev \in Nat
      /\ object[O(r)].rev \in Nat /\ object'[O(r)].rev \in Nat
      /\ object'[O(r)].rev >= object[O(r)].rev
      /\ object'[O(r)].rev = object[O(r)].rev => object'[O(r)] = object[O(r)]
  BY AsksStay, OwnershipTypeStep, ObjectMoves DEF OwnershipTypeOK, Object
<1>1. CASE LoadObject(r)
  <2>1. object' = object /\ objectCopy'[r] = object[O(r)]
    BY <1>1 DEF LoadObject, OwnershipTypeOK
  <2>2. stage'[r] = "validated" => MayRelocate(r, object[O(r)])
    BY <1>1 DEF LoadObject, Step, OwnershipTypeOK
  <2>3. stage'[r] \in {"validated", "denied"}
    BY <1>1 DEF LoadObject, Step, OwnershipTypeOK
  <2> QED
    BY <1>0, <2>1, <2>2, <2>3 DEF MayRelocate
<1>2. CASE ~ LoadObject(r)
  <2>1. objectCopy'[r] = objectCopy[r]
    BY <1>2 DEF OwnershipNext, ownershipVars, CreateTransfer, EditObject, LoadObject,
                LoadTransfer, SaveTransfer,
                SaveObject, SameCredentials, Die, OwnershipTypeOK
  <2>2. stage'[r] \in {"validated", "ready", "bound"} =>
          stage[r] \in {"validated", "ready", "bound"}
    BY <1>2 DEF OwnershipNext, ownershipVars, CreateTransfer, EditObject, LoadObject,
                LoadTransfer, SaveTransfer,
                SaveObject, SameCredentials, Die, Step, Ends, OwnershipTypeOK
  <2>3. objectCopy[r].rev <= object[O(r)].rev
    BY DEF ObjectChecked
  <2>4. stage[r] \in {"validated", "ready", "bound"} =>
          /\ MayRelocate(r, objectCopy[r])
          /\ objectCopy[r].rev = object[O(r)].rev => objectCopy[r] = object[O(r)]
    BY DEF ObjectChecked, ObjectCurrent
  <2> QED
    BY <1>0, <2>1, <2>2, <2>3, <2>4 DEF ObjectCurrent, MayRelocate
<1> QED
  BY <1>1, <1>2

-----------------------------------------------------------------------------
(* The two stores together.                                                *)

\* Between its two stores a request finds its Transfer bound to its object:
\* the first store bound it, and nobody can bind it elsewhere.
LEMMA HalfDoneStep == OwnershipIInv /\ [OwnershipNext]_ownershipVars => HalfDoneIsRetryable'
<1> SUFFICES ASSUME OwnershipIInv, [OwnershipNext]_ownershipVars, NEW r \in Requests,
                    stage'[r] \in {"bound", "objectConflict"}
             PROVE  (transfer[T(r)].usedFor = O(r) /\ transfer[T(r)].rev > 0)'
  BY DEF HalfDoneIsRetryable
<1> USE DEF OwnershipIInv
<1>0. /\ T(r)' = T(r) /\ O(r)' = O(r) /\ T(r) \in Transfers /\ O(r) \in Objects
      /\ transfer[T(r)].rev \in Nat /\ transfer'[T(r)].rev \in Nat
      /\ transfer'[T(r)].rev >= transfer[T(r)].rev
      /\ transfer[T(r)].usedFor # None => transfer'[T(r)].usedFor = transfer[T(r)].usedFor
  BY AsksStay, OwnershipTypeStep, TransferMoves DEF OwnershipTypeOK, Transfer
<1>1. CASE stage[r] \in {"bound", "objectConflict"}
  BY <1>0, <1>1, NamesAssumption DEF HalfDoneIsRetryable
<1>2. CASE stage[r] \notin {"bound", "objectConflict"}
  <2>1. SaveTransfer(r) /\ TransferCurrent(r)
    BY <1>2 DEF OwnershipNext, ownershipVars, CreateTransfer, EditObject, LoadObject,
                LoadTransfer, SaveTransfer,
                SaveObject, SameCredentials, Die, Step, OwnershipTypeOK
  <2>2. transfer'[T(r)] = [rev |-> transfer[T(r)].rev + 1, usedFor |-> O(r)]
    BY <1>0, <2>1 DEF SaveTransfer, OwnershipTypeOK
  <2> QED
    BY <1>0, <2>2
<1> QED
  BY <1>1, <1>2

\* What is given to a Transfer is what it names, then and ever after.
LEMMA InstalledStep ==
  OwnershipIInv /\ [OwnershipNext]_ownershipVars => InstalledIsUsedFor' /\ HolderIsUsedFor'
<1> SUFFICES ASSUME OwnershipIInv, [OwnershipNext]_ownershipVars
             PROVE  InstalledIsUsedFor' /\ HolderIsUsedFor'
  OBVIOUS
<1> USE DEF OwnershipIInv
<1>0. \A t \in Transfers, o \in Objects :
        transfer[t].usedFor = o => transfer'[t].usedFor = o
  BY TransferMoves, NamesAssumption
<1>1. \A r \in Requests :
        /\ O(r) \in Objects /\ T(r) \in Transfers
        /\ stage[r] = "bound" => transfer[T(r)].usedFor = O(r)
  BY AsksStay DEF HalfDoneIsRetryable
<1>2. InstalledIsUsedFor'
  <2> SUFFICES ASSUME NEW t \in Transfers, NEW o \in Objects, <<t, o>> \in installed'
               PROVE  transfer'[t].usedFor = o
    BY DEF InstalledIsUsedFor
  <2>1. CASE <<t, o>> \in installed
    BY <1>0, <2>1 DEF InstalledIsUsedFor
  <2>2. CASE <<t, o>> \notin installed
    <3>1. PICK r \in Requests : SaveObject(r) /\ installed' # installed
      BY <2>2 DEF OwnershipNext, ownershipVars, CreateTransfer, EditObject, LoadObject,
                  LoadTransfer, SaveTransfer,
                  SaveObject, SameCredentials, Die
    <3>2. <<t, o>> = <<T(r), O(r)>> /\ stage[r] = "bound"
      BY <2>2, <3>1 DEF SaveObject
    <3> QED
      BY <1>0, <1>1, <3>2
  <2> QED
    BY <2>1, <2>2
<1>3. HolderIsUsedFor'
  <2> SUFFICES ASSUME NEW o \in Objects, object'[o].holder # o
               PROVE  /\ object'[o].holder \in Transfers
                      /\ transfer'[object'[o].holder].usedFor = o
    BY DEF HolderIsUsedFor
  <2>1. CASE object'[o].holder = object[o].holder
    BY <1>0, <2>1 DEF HolderIsUsedFor
  <2>2. CASE object'[o].holder # object[o].holder
    <3>1. PICK r \in Requests : O(r) = o /\ stage[r] = "bound" /\ object'[o].holder = T(r)
      BY <2>2, ObjectMoves
    <3> QED
      BY <1>0, <1>1, <3>1
  <2> QED
    BY <2>1, <2>2
<1> QED
  BY <1>2, <1>3

\* The inductive invariant holds of every reachable state.
THEOREM OwnershipInvariant == OwnershipSpec => []OwnershipIInv
<1>1. OwnershipIInv /\ [OwnershipNext]_ownershipVars => OwnershipIInv'
  BY OwnershipTypeStep, TransferCheckedStep, ObjectCheckedStep, HalfDoneStep, InstalledStep
  DEF OwnershipIInv
<1> QED
  BY OwnershipInitInv, <1>1, PTL DEF OwnershipSpec

-----------------------------------------------------------------------------
(* What follows.                                                           *)

\* The documents and the requests are well typed.
THEOREM OwnershipTypeCorrect == OwnershipSpec => []OwnershipTypeOK
<1>1. OwnershipIInv => OwnershipTypeOK
  BY DEF OwnershipIInv
<1> QED
  BY OwnershipInvariant, <1>1, PTL

\* TenderResource.post and its likes: no race of requests makes one Transfer
\* relocate two objects.
THEOREM TransfersAreUsedOnce == OwnershipSpec => []OneObjectPerTransfer
<1>1. OwnershipIInv => OneObjectPerTransfer
  BY DEF OwnershipIInv, InstalledIsUsedFor, OneObjectPerTransfer
<1> QED
  BY OwnershipInvariant, <1>1, PTL

\* The Transfer an object was relocated by names that object, and a request that
\* fails between its two stores may be sent again.
THEOREM TransfersTellTheTruth == OwnershipSpec => []TransferSound
<1>1. OwnershipIInv => TransferSound
  BY DEF OwnershipIInv, TransferSound
<1> QED
  BY OwnershipInvariant, <1>1, PTL

\* validate_transfer_token and the checks of the status hold at the store,
\* although they were made on a copy loaded before.
THEOREM ConsentIsCurrent == OwnershipSpec => ConsentAtTheStore
<1>1. OwnershipIInv /\ [OwnershipNext]_ownershipVars =>
        [\A o \in Objects : object'[o].holder # object[o].holder =>
           /\ object[o].movable
           /\ \E r \in Requests :
                /\ O(r) = o /\ stage[r] = "bound"
                /\ request[r].token = object[o].holder]_ownershipVars
  BY ObjectMoves DEF MayRelocate
<1> QED
  BY OwnershipInvariant, <1>1, PTL DEF OwnershipSpec, ConsentAtTheStore
================================================================================
