-------------------------- MODULE FrameworksProof --------------------------
(***************************************************************************)
(* The three documents of a framework agreement keep sound, for any number *)
(* of bids, awards, changes and of suppliers a framework may have: the     *)
(* tender that selects them, the agreement with its changes, and the       *)
(* selections that rest on a copy of the agreement.                        *)
(*                                                                         *)
(* The inductive invariant is that of each document (TenderInv,            *)
(* ChangesInv, SelectionInv).  The tender's says that the bids which hold  *)
(* a live award are exactly the best of those not rejected (BidsFit): a    *)
(* decision about one award may reach every other, and this is what each   *)
(* of them restores.  The agreement's says that its contracts are what its *)
(* active changes make of the registered ones.  The selection's says that  *)
(* only its last award can be live.                                        *)
(***************************************************************************)
EXTENDS Frameworks, FiniteSetTheorems, SequenceTheorems, WellFoundedInduction, TLAPS

\* A finite set of numbers has an enumeration that ascends, and any such
\* enumeration has all of the set.
LEMMA Ranked ==
  ASSUME NEW S \in SUBSET Nat, IsFiniteSet(S)
  PROVE  \E s \in [1 .. Cardinality(S) -> S] :
           \A i, j \in 1 .. Cardinality(S) : i < j => s[i] < s[j]
<1> DEFINE n == Cardinality(S)
           upto(x) == {y \in S : y <= x}
           rank == [x \in S |-> Cardinality(upto(x))]
<1>0. \A x \in S : x \in Nat
  OBVIOUS
<1>1. n \in Nat /\ IsFiniteSet(1 .. n) /\ Cardinality(1 .. n) = n
  <2>1. n \in Nat
    BY FS_CardinalityType
  <2>2. IsFiniteSet(1 .. n) /\ Cardinality(1 .. n) = IF 1 > n THEN 0 ELSE n - 1 + 1
    BY <2>1, FS_Interval
  <2> QED BY <2>1, <2>2
<1>2. ASSUME NEW x \in S
      PROVE  IsFiniteSet(upto(x)) /\ rank[x] \in 1 .. n
  <2>1. upto(x) \in SUBSET S /\ x \in upto(x)
    OBVIOUS
  <2>2. IsFiniteSet(upto(x)) /\ Cardinality(upto(x)) <= n
    BY <2>1, FS_Subset
  <2>3. Cardinality(upto(x)) \in Nat /\ Cardinality(upto(x)) # 0
    BY <2>1, <2>2, FS_CardinalityType, FS_EmptySet
  <2> QED BY <1>1, <2>2, <2>3
<1>3. ASSUME NEW x \in S, NEW y \in S, x < y
      PROVE  rank[x] < rank[y]
  <2>0. x \in Nat /\ y \in Nat
    BY <1>0
  <2>a. \A z \in S : z <= x => z <= y
    BY <1>0, <1>3, <2>0
  <2>b. y <= y /\ ~ (y <= x)
    BY <1>3, <2>0
  <2>1. upto(x) \in SUBSET upto(y) /\ y \in upto(y) /\ y \notin upto(x)
    BY <2>a, <2>b
  <2>2. Cardinality(upto(x)) <= Cardinality(upto(y)) /\ Cardinality(upto(y)) # Cardinality(upto(x))
    BY <1>2, <2>1, FS_Subset
  <2> QED BY <1>2, <2>2
<1> HIDE DEF n, upto, rank
<1>4. rank \in Injection(S, 1 .. n)
  <2>1. rank \in [S -> 1 .. n]
    BY <1>2 DEF rank
  <2>2. ASSUME NEW x \in S, NEW y \in S, rank[x] = rank[y] PROVE x = y
    <3>1. rank[x] \in Nat /\ rank[y] \in Nat /\ x \in Nat /\ y \in Nat
      BY <1>1, <1>2
    <3> QED BY <1>3, <2>2, <3>1
  <2> QED BY <2>1, <2>2 DEF Injection, IsInjective
<1>5. rank \in Surjection(S, 1 .. n)
  BY <1>1, <1>4, FS_Injection DEF n
<1>6. \A k \in 1 .. n : \E x \in S : rank[x] = k
  BY <1>5 DEF Surjection
<1> DEFINE s == [k \in 1 .. n |-> CHOOSE x \in S : rank[x] = k]
<1>7. \A k \in 1 .. n : s[k] \in S /\ rank[s[k]] = k
  BY <1>6
<1> HIDE DEF s
<1>8. ASSUME NEW i \in 1 .. n, NEW j \in 1 .. n, i < j PROVE s[i] < s[j]
  <2>0. s[i] \in S /\ s[j] \in S /\ rank[s[i]] = i /\ rank[s[j]] = j
    BY <1>7
  <2>a. s[i] \in Nat /\ s[j] \in Nat
    BY <1>0, <2>0
  <2>1. i \in Nat /\ j \in Nat
    BY <1>1
  <2>2. s[j] < s[i] => j < i
    BY <1>3, <1>7
  <2> QED BY <1>8, <2>0, <2>a, <2>1, <2>2
<1>9. s \in [1 .. n -> S]
  BY <1>7 DEF s
<1> QED BY <1>8, <1>9 DEF n

\* Ascending lists a finite set of numbers in order, each of them once.
LEMMA AscendingSorts ==
  ASSUME NEW S \in SUBSET Nat, IsFiniteSet(S)
  PROVE  /\ Ascending(S) \in [1 .. Cardinality(S) -> S]
         /\ \A i, j \in 1 .. Cardinality(S) : i < j => Ascending(S)[i] < Ascending(S)[j]
         /\ \A x \in S : \E i \in 1 .. Cardinality(S) : Ascending(S)[i] = x
<1> DEFINE n == Cardinality(S)
           s == Ascending(S)
<1>1. /\ s \in [1 .. n -> S]
      /\ \A i, j \in 1 .. n : i < j => s[i] < s[j]
  BY Ranked DEF Ascending
<1>0. \A x \in S : x \in Nat
  OBVIOUS
<1>2. n \in Nat /\ IsFiniteSet(1 .. n) /\ Cardinality(1 .. n) = n
  <2>1. n \in Nat
    BY FS_CardinalityType
  <2>2. IsFiniteSet(1 .. n) /\ Cardinality(1 .. n) = IF 1 > n THEN 0 ELSE n - 1 + 1
    BY <2>1, FS_Interval
  <2> QED BY <2>1, <2>2
<1> HIDE DEF s
<1>3. s \in Injection(1 .. n, S)
  <2>1. ASSUME NEW i \in 1 .. n, NEW j \in 1 .. n, s[i] = s[j] PROVE i = j
    <3>0. s[i] \in S /\ s[j] \in S
      BY <1>1
    <3>1. s[i] \in Nat /\ s[j] \in Nat
      BY <1>0, <3>0
    <3>2. i \in Nat /\ j \in Nat
      BY <1>2
    <3>3. ~ (i < j) /\ ~ (j < i)
      BY <1>1, <2>1, <3>1
    <3> QED BY <3>2, <3>3
  <2> QED BY <1>1, <2>1 DEF Injection, IsInjective
<1>4. s \in Surjection(1 .. n, S)
  BY <1>2, <1>3, FS_Injection
<1>5. \A x \in S : \E i \in 1 .. n : s[i] = x
  BY <1>4 DEF Surjection
<1> QED BY <1>1, <1>5 DEF s

-----------------------------------------------------------------------------
(* The selection.                                                          *)

\* What the documents hold: the contracts of an agreement by supplier, and the
\* agreement as a selection copies it.
Contract == [status : {"active", "unsuccessful"}, price : Int]
ContractsOf == UNION {[D -> Contract] : D \in SUBSET Bids}
Copies == [status : {"none", "active", "terminated"}, contracts : ContractsOf, pending : BOOLEAN]

\* What the selection holds.
SelectionStatus ==
  Selection!SelectionDrafts \cup Selection!SelectionEnds
    \cup {"active.enquiries", "active.tendering", "active.auction", "active.qualification", "active.awarded"}
SelectionBid == [supplier : Bids, amount : Amounts, status : {"draft", "active"}]
SelectionAward ==
  [bid : Nat, status : {"pending", "active", "unsuccessful", "cancelled"},
   contract : {"none", "pending", "pending.winner-signing", "active", "cancelled"}]

\* The selection as a record of its fields, from which a changed one is read off.
HasFields(t, status, copy, quantity, bids, awards) ==
  t = [status |-> status, copy |-> copy, quantity |-> quantity, bids |-> bids, awards |-> awards]
SelectionRecord(t) == HasFields(t, t.status, t.copy, t.quantity, t.bids, t.awards)

\* The selection has its fields, and each is of its type.
SelectionTyped(t) ==
  /\ SelectionRecord(t)
  /\ t.status \in SelectionStatus /\ t.copy \in Copies /\ t.quantity \in Quantities \cup {0}
  /\ t.bids \in Seq(SelectionBid) /\ t.awards \in Seq(SelectionAward)

\* Bids and awards come after what they are about.
InPhase(t) ==
  LET before == Selection!SelectionDrafts \cup {"draft.unsuccessful", "active.enquiries"}
  IN /\ t.status \in before => t.bids = <<>>
     /\ t.status \in before \cup {"active.tendering", "active.auction"} => t.awards = <<>>

\* The copy of the agreement was fit for a selection, and no bid exceeds what its
\* supplier has agreed to.
WithinCopy(t) ==
  /\ Selection!Fit(t.copy, TRUE)
  /\ \A i \in DOMAIN t.bids :
       /\ t.bids[i].supplier \in DOMAIN t.copy.contracts
       /\ t.copy.contracts[t.bids[i].supplier].status = "active"
       /\ t.bids[i].amount <= Selection!Value(t, t.bids[i].supplier)

\* Only the last award may be live, and it is of the best bid that is open.
AwardsFit(t) ==
  \A i \in DOMAIN t.awards :
    /\ t.awards[i].bid \in DOMAIN t.bids
    /\ t.awards[i].status \in {"pending", "active"} =>
         /\ i = Len(t.awards)
         /\ t.awards[i].bid \in Selection!Open(t)
         /\ \A j \in Selection!Open(t) : t.bids[t.awards[i].bid].amount <= t.bids[j].amount
    /\ t.awards[i].contract \in {"pending", "pending.winner-signing", "active"} => t.awards[i].status = "active"

\* The invariant of a selection: it is complete once a contract is signed, and
\* only then.
SelectionInv(t) ==
  /\ SelectionTyped(t) /\ InPhase(t)
  /\ t.status \notin Selection!SelectionDrafts \cup Selection!SelectionEnds => WithinCopy(t)
  /\ AwardsFit(t)
  /\ t.status = "complete" <=> \E i \in DOMAIN t.awards : t.awards[i].contract = "active"

\* A selection with one field changed has the others as they were.
LEMMA SelectionRewritten ==
  ASSUME NEW t, SelectionRecord(t), NEW v
  PROVE  /\ HasFields([t EXCEPT !.status = v], v, t.copy, t.quantity, t.bids, t.awards)
         /\ HasFields([t EXCEPT !.copy = v], t.status, v, t.quantity, t.bids, t.awards)
         /\ HasFields([t EXCEPT !.quantity = v], t.status, t.copy, v, t.bids, t.awards)
         /\ HasFields([t EXCEPT !.bids = v], t.status, t.copy, t.quantity, v, t.awards)
         /\ HasFields([t EXCEPT !.awards = v], t.status, t.copy, t.quantity, t.bids, v)
BY DEF SelectionRecord, HasFields

\* A record of the five fields has them.
LEMMA SelectionFields ==
  ASSUME NEW t, NEW status, NEW copy, NEW quantity, NEW bids, NEW awards,
         HasFields(t, status, copy, quantity, bids, awards)
  PROVE  /\ SelectionRecord(t)
         /\ t.status = status /\ t.copy = copy /\ t.quantity = quantity /\ t.bids = bids /\ t.awards = awards
BY DEF SelectionRecord, HasFields

\* The invariant holds before there is a selection.
LEMMA NoSelection == SelectionInv(Selection!NoSelectionYet)
<1> DEFINE t == Selection!NoSelectionYet
<1>1. HasFields(t, "none", Selection!NoCopy, 0, <<>>, <<>>)
  BY DEF Selection!NoSelectionYet, HasFields
<1> HIDE DEF t
<1>2. /\ SelectionRecord(t)
      /\ t.status = "none" /\ t.copy = Selection!NoCopy /\ t.quantity = 0 /\ t.bids = <<>> /\ t.awards = <<>>
  BY <1>1, SelectionFields
<1>3. <<>> \in ContractsOf
  <2>1. <<>> \in [{} -> Contract]
    OBVIOUS
  <2> QED BY <2>1 DEF ContractsOf
<1>4. t.copy \in Copies
  BY <1>2, <1>3 DEF Copies, Selection!NoCopy
<1>5. SelectionTyped(t)
  BY <1>2, <1>4 DEF SelectionTyped, SelectionStatus, Selection!SelectionDrafts
<1>6. InPhase(t) /\ AwardsFit(t) /\ t.status \in Selection!SelectionDrafts
      /\ ~ \E i \in DOMAIN t.awards : t.awards[i].contract = "active"
  BY <1>2 DEF InPhase, AwardsFit, Selection!SelectionDrafts
<1> QED BY <1>2, <1>5, <1>6 DEF SelectionInv, t

\* What is said of bids and awards depends on the fields it mentions only.
LEMMA SelectionCarried ==
  ASSUME NEW t, NEW r, r.bids = t.bids
  PROVE  /\ r.copy = t.copy /\ r.quantity = t.quantity /\ WithinCopy(t) => WithinCopy(r)
         /\ r.awards = t.awards /\ AwardsFit(t) => AwardsFit(r)
         /\ r.awards = t.awards => Selection!Open(r) = Selection!Open(t)
<1>1. r.copy = t.copy /\ r.quantity = t.quantity /\ WithinCopy(t) => WithinCopy(r)
  BY DEF WithinCopy, Selection!Value
<1>2. r.awards = t.awards => Selection!Open(r) = Selection!Open(t)
  BY DEF Selection!Open, Selection!AwardedTo
<1>3. r.awards = t.awards /\ AwardsFit(t) => AwardsFit(r)
  BY <1>2 DEF AwardsFit
<1> QED BY <1>1, <1>2, <1>3

\* A new status, and nothing else.
LEMMA StatusMoved ==
  ASSUME NEW t, SelectionInv(t), NEW st \in SelectionStatus, NEW r,
         HasFields(r, st, t.copy, t.quantity, t.bids, t.awards),
         t.status # "complete", st # "complete", InPhase(r),
         st \notin Selection!SelectionDrafts \cup Selection!SelectionEnds => WithinCopy(t)
  PROVE  SelectionInv(r)
<1>1. SelectionRecord(r) /\ r.status = st /\ r.copy = t.copy /\ r.quantity = t.quantity
      /\ r.bids = t.bids /\ r.awards = t.awards
  BY SelectionFields
<1>2. SelectionTyped(r)
  BY <1>1 DEF SelectionInv, SelectionTyped
<1>3. AwardsFit(r)
  BY <1>1, SelectionCarried DEF SelectionInv
<1>4. st \notin Selection!SelectionDrafts \cup Selection!SelectionEnds => WithinCopy(r)
  BY <1>1, SelectionCarried
<1>5. r.status # "complete" /\ ~ \E i \in DOMAIN r.awards : r.awards[i].contract = "active"
  BY <1>1 DEF SelectionInv
<1> QED BY <1>1, <1>2, <1>3, <1>4, <1>5 DEF SelectionInv

\* Drafts keep the invariant: one that leaves draft has a fit copy.
LEMMA DraftSound ==
  ASSUME SelectionInv(selection)
  PROVE  /\ \A quantity \in Quantities : Selection!Draft(quantity) => SelectionInv(selection')
         /\ Selection!Publish => SelectionInv(selection')
         /\ Selection!AgreementNotFound => SelectionInv(selection')
         /\ \A copy \in Copies : Selection!CopyAgreement(copy) => SelectionInv(selection')
         /\ \A fits \in BOOLEAN : Selection!SetOff(fits) => SelectionInv(selection')
<1> DEFINE u == selection'
<1>0. /\ SelectionTyped(selection) /\ InPhase(selection) /\ SelectionRecord(selection)
      /\ AwardsFit(selection)
  BY DEF SelectionInv, SelectionTyped
<1>a. ASSUME NEW st \in SelectionStatus, st # "complete", selection.status # "complete",
             selection' = [selection EXCEPT !.status = st], InPhase(selection'),
             st \notin Selection!SelectionDrafts \cup Selection!SelectionEnds => WithinCopy(selection)
      PROVE  SelectionInv(selection')
  <2>1. HasFields(u, st, selection.copy, selection.quantity, selection.bids, selection.awards)
    BY <1>0, <1>a, SelectionRewritten
  <2> QED BY <1>a, <2>1, StatusMoved
<1>b. ASSUME NEW st, selection' = [selection EXCEPT !.status = st]
      PROVE  selection'.status = st /\ selection'.bids = selection.bids /\ selection'.awards = selection.awards
  BY <1>0, <1>b, SelectionRewritten, SelectionFields
<1>1. ASSUME NEW quantity \in Quantities, Selection!Draft(quantity) PROVE SelectionInv(u)
  <2> DEFINE n == Selection!NoSelectionYet
             d == [n EXCEPT !.status = "draft"]
  <2>1. SelectionInv(n) /\ n.status = "none"
    BY NoSelection DEF Selection!NoSelectionYet
  <2>2. SelectionRecord(n) /\ n.bids = <<>> /\ n.awards = <<>>
    BY <2>1 DEF SelectionInv, SelectionTyped, Selection!NoSelectionYet
  <2>3. u = [d EXCEPT !.quantity = quantity]
    BY <1>1 DEF Selection!Draft, Selection!SaveSelection
  <2> HIDE DEF n
  <2>4. HasFields(d, "draft", n.copy, n.quantity, n.bids, n.awards)
    BY <2>2, SelectionRewritten
  <2>5. SelectionRecord(d) /\ d.status = "draft" /\ d.copy = n.copy /\ d.bids = n.bids /\ d.awards = n.awards
    BY <2>4, SelectionFields
  <2> HIDE DEF d
  <2>6. HasFields(u, d.status, d.copy, quantity, d.bids, d.awards)
    BY <2>3, <2>5, SelectionRewritten
  <2>7. /\ SelectionRecord(u) /\ u.status = "draft" /\ u.copy = n.copy /\ u.quantity = quantity
        /\ u.bids = <<>> /\ u.awards = <<>>
    BY <2>2, <2>5, <2>6, SelectionFields
  <2>8. SelectionTyped(u)
    BY <2>1, <2>2, <2>7 DEF SelectionInv, SelectionTyped, SelectionStatus, Selection!SelectionDrafts
  <2> QED BY <2>7, <2>8 DEF SelectionInv, InPhase, AwardsFit, Selection!SelectionDrafts
<1>2. ASSUME Selection!Publish PROVE SelectionInv(u)
  <2>1. selection.status = "draft" /\ u = [selection EXCEPT !.status = "draft.pending"]
    BY <1>2 DEF Selection!Publish, Selection!SaveSelection
  <2>2. "draft.pending" \in SelectionStatus
    BY DEF SelectionStatus, Selection!SelectionDrafts
  <2>3. InPhase(u)
    BY <1>0, <1>b, <2>1 DEF InPhase, Selection!SelectionDrafts
  <2> QED BY <1>a, <2>1, <2>2, <2>3 DEF Selection!SelectionDrafts
<1>3. ASSUME Selection!AgreementNotFound PROVE SelectionInv(u)
  <2>1. selection.status = "draft.pending" /\ u = [selection EXCEPT !.status = "draft.unsuccessful"]
    BY <1>3 DEF Selection!AgreementNotFound, Selection!SaveSelection
  <2>2. "draft.unsuccessful" \in SelectionStatus
    BY DEF SelectionStatus, Selection!SelectionEnds
  <2>3. InPhase(u)
    BY <1>0, <1>b, <2>1 DEF InPhase, Selection!SelectionDrafts
  <2> QED BY <1>a, <2>1, <2>2, <2>3 DEF Selection!SelectionEnds
<1>4. ASSUME NEW copy \in Copies, Selection!CopyAgreement(copy) PROVE SelectionInv(u)
  <2>1. selection.status = "draft.pending" /\ u = [selection EXCEPT !.copy = copy]
    BY <1>4 DEF Selection!CopyAgreement, Selection!SaveSelection
  <2>2. HasFields(u, selection.status, copy, selection.quantity, selection.bids, selection.awards)
    BY <1>0, <2>1, SelectionRewritten
  <2>3. /\ SelectionRecord(u) /\ u.status = selection.status /\ u.copy = copy
        /\ u.quantity = selection.quantity /\ u.bids = selection.bids /\ u.awards = selection.awards
    BY <2>2, SelectionFields
  <2>4. SelectionTyped(u)
    BY <1>0, <2>3 DEF SelectionTyped
  <2>5. InPhase(u) /\ AwardsFit(u) /\ u.bids = <<>> /\ u.awards = <<>>
    BY <1>0, <2>1, <2>3, SelectionCarried DEF InPhase, Selection!SelectionDrafts
  <2> QED BY <2>1, <2>3, <2>4, <2>5 DEF SelectionInv, Selection!SelectionDrafts
<1>5. ASSUME NEW fits \in BOOLEAN, Selection!SetOff(fits) PROVE SelectionInv(u)
  <2>1. PICK st \in {"active.enquiries", "draft.unsuccessful"} :
          /\ selection.status = "draft.pending" /\ u = [selection EXCEPT !.status = st]
          /\ st = "active.enquiries" => Selection!Fit(selection.copy, fits)
    BY <1>5 DEF Selection!SetOff, Selection!SaveSelection
  <2>2. st \in SelectionStatus
    BY DEF SelectionStatus, Selection!SelectionEnds
  <2>3. InPhase(u) /\ selection.bids = <<>>
    BY <1>0, <1>b, <2>1 DEF InPhase, Selection!SelectionDrafts
  <2>4. st = "active.enquiries" => WithinCopy(selection)
    BY <2>1, <2>3 DEF WithinCopy, Selection!Fit
  <2>5. st # "complete" /\ (st = "active.enquiries" \/ st \in Selection!SelectionEnds)
    BY DEF Selection!SelectionEnds
  <2> QED BY <1>a, <2>1, <2>2, <2>3, <2>4, <2>5
<1> QED BY <1>1, <1>2, <1>3, <1>4, <1>5

\* What is left of a list when one is removed is from the list.
LEMMA Removed ==
  ASSUME NEW S, NEW s \in Seq(S), NEW i \in DOMAIN s
  PROVE  /\ Selection!RemoveAt(s, i) \in Seq(S)
         /\ \A k \in DOMAIN Selection!RemoveAt(s, i) : \E j \in DOMAIN s : Selection!RemoveAt(s, i)[k] = s[j]
<1> DEFINE a == SubSeq(s, 1, i - 1)
           b == SubSeq(s, i + 1, Len(s))
           r == Selection!RemoveAt(s, i)
<1>1. Len(s) \in Nat /\ i \in 1 .. Len(s) /\ DOMAIN s = 1 .. Len(s)
  BY LenProperties
<1>2. a \in Seq(S) /\ Len(a) = i - 1 /\ \A k \in 1 .. i - 1 : a[k] = s[k]
  <2>1. 1 \in Int /\ i - 1 \in Int /\ i - 1 >= 0 /\ i - 1 <= Len(s) /\ \A k \in 1 .. i - 1 : k \in 1 .. Len(s)
    BY <1>1
  <2> QED BY <1>1, <2>1
<1>3. b \in Seq(S) /\ Len(b) = Len(s) - i /\ \A k \in 1 .. Len(s) - i : b[k] = s[i + k]
  BY <1>1
<1>4. r = a \o b
  BY DEF Selection!RemoveAt
<1> HIDE DEF a, b, r
<1>5. r \in Seq(S) /\ Len(r) = Len(a) + Len(b) /\ DOMAIN r = 1 .. Len(r)
  BY <1>2, <1>3, <1>4, ConcatProperties, LenProperties
<1>6. ASSUME NEW k \in DOMAIN r PROVE \E j \in DOMAIN s : r[k] = s[j]
  <2>1. CASE k <= i - 1
    <3>1. r[k] = a[k]
      BY <1>1, <1>2, <1>3, <1>4, <1>5, <2>1, ConcatProperties
    <3> QED BY <1>1, <1>2, <1>5, <2>1, <3>1
  <2>2. CASE ~ (k <= i - 1)
    <3>0. /\ k \in Int /\ k \in 1 .. Len(a) + Len(b) /\ ~ (k <= Len(a))
          /\ k - (i - 1) \in 1 .. Len(s) - i
      BY <1>1, <1>2, <1>3, <1>5, <2>2
    <3>a. r[k] = b[k - Len(a)]
      BY <1>2, <1>3, <1>4, <3>0, ConcatProperties
    <3>1. r[k] = b[k - (i - 1)] /\ k - (i - 1) \in 1 .. Len(s) - i
      BY <1>2, <3>0, <3>a
    <3>2. r[k] = s[i + (k - (i - 1))] /\ i + (k - (i - 1)) \in 1 .. Len(s)
      BY <1>1, <1>3, <1>5, <3>1
    <3> QED BY <1>1, <3>2
  <2> QED BY <2>1, <2>2
<1> QED BY <1>5, <1>6 DEF r

\* What a bid may be, and the others keep to.
LEMMA BidsMoved ==
  ASSUME SelectionInv(selection), selection.status = "active.tendering",
         NEW bids \in Seq(SelectionBid), NEW r,
         HasFields(r, selection.status, selection.copy, selection.quantity, bids, selection.awards),
         \A k \in DOMAIN bids : Selection!MayBid(bids[k]) \/ \E j \in DOMAIN selection.bids : bids[k] = selection.bids[j]
  PROVE  SelectionInv(r)
<1>1. /\ SelectionRecord(r) /\ r.status = selection.status /\ r.copy = selection.copy
      /\ r.quantity = selection.quantity /\ r.bids = bids /\ r.awards = selection.awards
  BY SelectionFields
<1>2. selection.awards = <<>> /\ WithinCopy(selection)
  BY DEF SelectionInv, InPhase, Selection!SelectionDrafts, Selection!SelectionEnds
<1>3. SelectionTyped(r)
  BY <1>1 DEF SelectionInv, SelectionTyped
<1>4. ASSUME NEW k \in DOMAIN bids
      PROVE  /\ bids[k].supplier \in DOMAIN selection.copy.contracts
             /\ selection.copy.contracts[bids[k].supplier].status = "active"
             /\ bids[k].amount <= Selection!Value(selection, bids[k].supplier)
  BY <1>2 DEF WithinCopy, Selection!MayBid
<1>5. WithinCopy(r)
  <2>1. \A s : Selection!Value(r, s) = Selection!Value(selection, s)
    BY <1>1 DEF Selection!Value
  <2> QED BY <1>1, <1>2, <1>4, <2>1 DEF WithinCopy
<1>6. InPhase(r) /\ AwardsFit(r) /\ r.status # "complete" /\ r.awards = <<>>
  BY <1>1, <1>2 DEF InPhase, AwardsFit, Selection!SelectionDrafts
<1> QED BY <1>1, <1>3, <1>5, <1>6 DEF SelectionInv

\* Bids are posted, changed and deleted within the copy.
LEMMA BidStepSound ==
  ASSUME SelectionInv(selection)
  PROVE  /\ Selection!BidStep => SelectionInv(selection')
         /\ \A i \in DOMAIN selection.bids : Selection!DeleteBid(i) => SelectionInv(selection')
<1> DEFINE u == selection'
<1>0. /\ SelectionRecord(selection) /\ selection.bids \in Seq(SelectionBid)
      /\ selection.copy.contracts \in ContractsOf
  BY DEF SelectionInv, SelectionTyped, Copies
<1>a. ASSUME NEW bids \in Seq(SelectionBid), selection.status = "active.tendering",
             u = [selection EXCEPT !.bids = bids],
             \A k \in DOMAIN bids : \/ Selection!MayBid(bids[k])
                                    \/ \E j \in DOMAIN selection.bids : bids[k] = selection.bids[j]
      PROVE  SelectionInv(u)
  <2>1. HasFields(u, selection.status, selection.copy, selection.quantity, bids, selection.awards)
    BY <1>0, <1>a, SelectionRewritten
  <2> QED BY <1>a, <2>1, BidsMoved
<1>1. ASSUME NEW i \in DOMAIN selection.bids, Selection!DeleteBid(i) PROVE SelectionInv(u)
  <2> DEFINE rest == Selection!RemoveAt(selection.bids, i)
  <2>1. selection.status = "active.tendering" /\ u = [selection EXCEPT !.bids = rest]
    BY <1>1 DEF Selection!DeleteBid, Selection!SaveSelection
  <2>2. rest \in Seq(SelectionBid) /\ \A k \in DOMAIN rest : \E j \in DOMAIN selection.bids : rest[k] = selection.bids[j]
    BY <1>0, Removed
  <2> HIDE DEF rest
  <2> QED BY <1>a, <2>1, <2>2
<1>2. ASSUME NEW bid \in [supplier : DOMAIN selection.copy.contracts, amount : Amounts, status : {"draft", "active"}]
      PROVE  bid \in SelectionBid
  <2>1. DOMAIN selection.copy.contracts \subseteq Bids
    BY <1>0 DEF ContractsOf
  <2> QED BY <2>1 DEF SelectionBid
<1>3. ASSUME NEW bids \in Seq(SelectionBid), NEW bid \in SelectionBid, Selection!MayBid(bid),
             \A k \in DOMAIN bids : \E j \in DOMAIN selection.bids : bids[k] = selection.bids[j]
      PROVE  /\ Append(bids, bid) \in Seq(SelectionBid)
             /\ \A k \in DOMAIN Append(bids, bid) :
                  \/ Selection!MayBid(Append(bids, bid)[k])
                  \/ \E j \in DOMAIN selection.bids : Append(bids, bid)[k] = selection.bids[j]
  <2>1. /\ Append(bids, bid) \in Seq(SelectionBid) /\ DOMAIN Append(bids, bid) = 1 .. Len(bids) + 1
        /\ DOMAIN bids = 1 .. Len(bids) /\ Len(bids) \in Nat
        /\ \A k \in 1 .. Len(bids) : Append(bids, bid)[k] = bids[k]
        /\ Append(bids, bid)[Len(bids) + 1] = bid
    BY AppendProperties, LenProperties
  <2>2. ASSUME NEW k \in 1 .. Len(bids) + 1
        PROVE  \/ Selection!MayBid(Append(bids, bid)[k])
               \/ \E j \in DOMAIN selection.bids : Append(bids, bid)[k] = selection.bids[j]
    <3>1. k \in 1 .. Len(bids) \/ k = Len(bids) + 1
      BY <2>1
    <3> QED BY <1>3, <2>1, <3>1
  <2> QED BY <2>1, <2>2
<1>4. ASSUME NEW bid \in SelectionBid, Selection!PostBid(bid) PROVE SelectionInv(u)
  <2>1. /\ Selection!MayBid(bid) /\ selection.status = "active.tendering"
        /\ u = [selection EXCEPT !.bids = Append(selection.bids, bid)]
    BY <1>4 DEF Selection!PostBid, Selection!MayBid, Selection!SaveSelection
  <2> QED BY <1>0, <1>3, <1>a, <2>1
<1>5. ASSUME NEW bid \in SelectionBid, NEW i \in DOMAIN selection.bids, Selection!PatchBid(i, bid)
      PROVE  SelectionInv(u)
  <2> DEFINE kept == [selection.bids EXCEPT ![i] = bid]
             moved == Append(Selection!RemoveAt(selection.bids, i), bid)
  <2>1. Selection!MayBid(bid) /\ selection.status = "active.tendering"
    BY <1>5 DEF Selection!PatchBid, Selection!MayBid
  <2>2. u = [selection EXCEPT !.bids = kept] \/ u = [selection EXCEPT !.bids = moved]
    BY <1>5 DEF Selection!PatchBid, Selection!SaveSelection
  <2>3. /\ kept \in Seq(SelectionBid)
        /\ \A k \in DOMAIN kept : \/ Selection!MayBid(kept[k])
                                  \/ \E j \in DOMAIN selection.bids : kept[k] = selection.bids[j]
    <3>1. kept \in Seq(SelectionBid) /\ DOMAIN kept = DOMAIN selection.bids
      BY <1>0
    <3>2. \A k \in DOMAIN selection.bids : kept[k] = IF k = i THEN bid ELSE selection.bids[k]
      BY <1>0
    <3> QED BY <2>1, <3>1, <3>2
  <2>4. /\ moved \in Seq(SelectionBid)
        /\ \A k \in DOMAIN moved : \/ Selection!MayBid(moved[k])
                                   \/ \E j \in DOMAIN selection.bids : moved[k] = selection.bids[j]
    BY <1>0, <1>3, <2>1, Removed
  <2> HIDE DEF kept, moved
  <2> QED BY <1>a, <2>1, <2>2, <2>3, <2>4
<1> QED BY <1>1, <1>2, <1>4, <1>5 DEF Selection!BidStep

\* A nonempty set of numbers has a least one.
LEMMA Least ==
  ASSUME NEW S \in SUBSET Nat, S # {}
  PROVE  \E n \in S : \A m \in S : n <= m
<1>1. PICK n \in S : \A m \in S : <<m, n>> \notin OpToRel(<, Nat)
  BY NatLessThanWellFounded, WFMin
<1>2. \A m \in S : ~ (m < n)
  BY <1>1 DEF OpToRel
<1> QED BY <1>2

\* BestOf finds a bid of the least amount.
LEMMA BestOfIsBest ==
  ASSUME NEW t, SelectionTyped(t), NEW S \in SUBSET DOMAIN t.bids, S # {}
  PROVE  /\ Selection!BestOf(t, S) \in S
         /\ \A j \in S : t.bids[Selection!BestOf(t, S)].amount <= t.bids[j].amount
<1> DEFINE amounts == {t.bids[i].amount : i \in S}
<1>1. \A i \in S : i \in Nat /\ t.bids[i].amount \in Nat
  <2>1. t.bids \in Seq(SelectionBid)
    BY DEF SelectionTyped
  <2>2. \A i \in S : i \in Nat /\ t.bids[i] \in SelectionBid
    BY <2>1
  <2> QED BY <2>2, AmountsAssumption DEF SelectionBid
<1>2. amounts \in SUBSET Nat /\ amounts # {}
  BY <1>1
<1>3. PICK least \in amounts : \A a \in amounts : least <= a
  BY <1>2, Least
<1> DEFINE cheapest == {i \in S : t.bids[i].amount = least}
<1>4. cheapest \in SUBSET Nat /\ cheapest # {}
  BY <1>1, <1>3
<1>5. PICK i \in cheapest : \A j \in cheapest : i <= j
  BY <1>4, Least
<1>6. i \in S /\ \A j \in S : \/ t.bids[i].amount < t.bids[j].amount
                              \/ t.bids[i].amount = t.bids[j].amount /\ i <= j
  <2>1. ASSUME NEW j \in S
        PROVE  \/ t.bids[i].amount < t.bids[j].amount
               \/ t.bids[i].amount = t.bids[j].amount /\ i <= j
    <3>1. t.bids[i].amount = least /\ least <= t.bids[j].amount /\ t.bids[j].amount \in Nat /\ least \in Nat
      BY <1>1, <1>3, <1>5
    <3>2. t.bids[j].amount = least => i <= j
      BY <1>5
    <3> QED BY <3>1, <3>2
  <2> QED BY <1>5, <2>1
<1> DEFINE b == Selection!BestOf(t, S)
<1>7. b \in S /\ \A j \in S : \/ t.bids[b].amount < t.bids[j].amount
                              \/ t.bids[b].amount = t.bids[j].amount /\ b <= j
  BY <1>6 DEF Selection!BestOf
<1> HIDE DEF b
<1>8. \A j \in S : t.bids[b].amount <= t.bids[j].amount
  BY <1>1, <1>7
<1> QED BY <1>7, <1>8 DEF b

\* The next award is of the best open bid, and only made when none is live.
LEMMA NextAwardSound ==
  ASSUME NEW t, SelectionTyped(t), AwardsFit(t), WithinCopy(t),
         ~ \E i \in DOMAIN t.awards : t.awards[i].contract = "active"
  PROVE  SelectionInv(Selection!WithNextAward(t))
<1> DEFINE r == Selection!WithNextAward(t)
           open == Selection!Open(t)
           award == [bid |-> Selection!BestOf(t, open), status |-> "pending", contract |-> "none"]
           awards == Append(t.awards, award)
           awarded == [t EXCEPT !.status = "active.awarded"]
           lost == [t EXCEPT !.status = "unsuccessful"]
           judged == [t EXCEPT !.status = "active.qualification"]
           more == [judged EXCEPT !.awards = awards]
<1>0. SelectionRecord(t) /\ t.awards \in Seq(SelectionAward) /\ open \in SUBSET DOMAIN t.bids
  BY DEF SelectionTyped, Selection!Open
<1>a. {"active.awarded", "unsuccessful", "active.qualification"} \subseteq SelectionStatus
  BY DEF SelectionStatus, Selection!SelectionEnds
<1>1. \/ r = awarded \/ r = lost
      \/ r = more /\ open # {} /\ Selection!AwardedTo(t, {"pending", "active"}) = {}
  BY DEF Selection!WithNextAward
<1>2. ASSUME NEW st \in {"active.awarded", "unsuccessful"}, r = [t EXCEPT !.status = st]
      PROVE  SelectionInv(r)
  <2> HIDE DEF r
  <2>1. HasFields(r, st, t.copy, t.quantity, t.bids, t.awards)
    BY <1>0, <1>2, SelectionRewritten
  <2>2. /\ SelectionRecord(r) /\ r.status = st /\ r.copy = t.copy /\ r.quantity = t.quantity
        /\ r.bids = t.bids /\ r.awards = t.awards
    BY <2>1, SelectionFields
  <2>3. SelectionTyped(r) /\ InPhase(r) /\ r.status # "complete"
    BY <1>a, <2>2 DEF SelectionTyped, InPhase, Selection!SelectionDrafts
  <2>4. AwardsFit(r) /\ WithinCopy(r)
    BY <2>2, SelectionCarried
  <2> QED BY <2>2, <2>3, <2>4 DEF SelectionInv
<1>3. ASSUME r = more, open # {}, Selection!AwardedTo(t, {"pending", "active"}) = {}
      PROVE  SelectionInv(r)
  <2> HIDE DEF r
  <2>1. HasFields(judged, "active.qualification", t.copy, t.quantity, t.bids, t.awards)
    BY <1>0, SelectionRewritten
  <2>2. /\ SelectionRecord(judged) /\ judged.status = "active.qualification" /\ judged.copy = t.copy
        /\ judged.quantity = t.quantity /\ judged.bids = t.bids
    BY <2>1, SelectionFields
  <2>a. r = [judged EXCEPT !.awards = awards]
    BY <1>3
  <2> HIDE DEF judged, more, awards
  <2>3. HasFields(r, judged.status, judged.copy, judged.quantity, judged.bids, awards)
    BY <2>2, <2>a, SelectionRewritten
  <2>4. /\ SelectionRecord(r) /\ r.status = "active.qualification" /\ r.copy = t.copy
        /\ r.quantity = t.quantity /\ r.bids = t.bids /\ r.awards = awards
    BY <2>2, <2>3, SelectionFields
  <2>5. /\ award.bid \in open /\ award.bid \in Nat /\ award.status = "pending" /\ award.contract = "none"
        /\ \A j \in open : t.bids[award.bid].amount <= t.bids[j].amount
    <3> DEFINE best == Selection!BestOf(t, open)
    <3>a. best \in open /\ \A j \in open : t.bids[best].amount <= t.bids[j].amount
      <4> HIDE DEF open
      <4> QED BY <1>0, <1>3, BestOfIsBest
    <3> HIDE DEF best
    <3>b. award.bid = best
      BY DEF best
    <3>1. award.bid \in open /\ \A j \in open : t.bids[award.bid].amount <= t.bids[j].amount
      BY <3>a, <3>b
    <3>2. award.bid \in Nat
      <4>1. t.bids \in Seq(SelectionBid) /\ award.bid \in DOMAIN t.bids
        BY <1>0, <3>1 DEF SelectionTyped
      <4> HIDE DEF award
      <4> QED BY <4>1
    <3> QED BY <3>1, <3>2
  <2>6. award \in SelectionAward
    BY <2>5 DEF SelectionAward
  <2> HIDE DEF award, open
  <2>7. /\ awards \in Seq(SelectionAward) /\ Len(awards) = Len(t.awards) + 1
        /\ DOMAIN awards = 1 .. Len(t.awards) + 1 /\ DOMAIN t.awards = 1 .. Len(t.awards)
        /\ Len(t.awards) \in Nat
        /\ \A k \in 1 .. Len(t.awards) : awards[k] = t.awards[k]
        /\ awards[Len(t.awards) + 1] = award
    BY <1>0, <2>6, AppendProperties, LenProperties DEF awards
  <2>8. \A k \in DOMAIN t.awards : t.awards[k].status \notin {"pending", "active"}
    BY <1>3 DEF Selection!AwardedTo, Selection!ToSet
  <2>9. Selection!Open(r) = open
    <3>1. Selection!AwardedTo(r, {"unsuccessful"}) = Selection!AwardedTo(t, {"unsuccessful"})
      <4>1. \A i \in DOMAIN awards : awards[i].status = "unsuccessful" => i \in DOMAIN t.awards
        BY <2>5, <2>7
      <4>2. ASSUME NEW x
            PROVE  /\ x \in Selection!AwardedTo(r, {"unsuccessful"}) <=>
                        \E i \in DOMAIN awards : awards[i].status = "unsuccessful" /\ x = awards[i].bid
                   /\ x \in Selection!AwardedTo(t, {"unsuccessful"}) <=>
                        \E i \in DOMAIN t.awards : t.awards[i].status = "unsuccessful" /\ x = t.awards[i].bid
        BY <2>4 DEF Selection!AwardedTo, Selection!ToSet
      <4>3. \A i \in DOMAIN t.awards : i \in DOMAIN awards /\ awards[i] = t.awards[i]
        BY <2>7
      <4> QED BY <4>1, <4>2, <4>3
    <3> QED BY <2>4, <3>1 DEF Selection!Open, open
  <2>10. SelectionTyped(r) /\ InPhase(r) /\ WithinCopy(r)
    <3>1. SelectionTyped(r)
      BY <1>a, <2>4, <2>7 DEF SelectionTyped
    <3>2. InPhase(r)
      BY <2>4 DEF InPhase, Selection!SelectionDrafts
    <3> QED BY <2>4, <3>1, <3>2, SelectionCarried
  <2>11. ASSUME NEW i \in DOMAIN awards
         PROVE  /\ awards[i].bid \in DOMAIN t.bids
                /\ awards[i].status \in {"pending", "active"} =>
                     /\ i = Len(awards)
                     /\ awards[i].bid \in open
                     /\ \A j \in open : t.bids[awards[i].bid].amount <= t.bids[j].amount
                /\ awards[i].contract \in {"pending", "pending.winner-signing", "active"} =>
                     awards[i].status = "active"
                /\ awards[i].contract # "active"
    <3>1. CASE i \in DOMAIN t.awards
      BY <2>7, <2>8, <3>1 DEF AwardsFit
    <3>2. CASE i = Len(t.awards) + 1
      BY <1>0, <2>5, <2>7, <3>2
    <3> QED BY <2>7, <3>1, <3>2
  <2> QED BY <2>4, <2>9, <2>10, <2>11 DEF SelectionInv, AwardsFit
<1> QED BY <1>1, <1>2, <1>3

\* One award of a selection, replaced or changed.
AwardedAs(t, i, award) == [t EXCEPT !.awards = [t.awards EXCEPT ![i] = award]]
Award(b, status, contract) == [bid |-> b, status |-> status, contract |-> contract]
WithAwardStatus(t, i, v) == [t EXCEPT !.awards[i].status = v]
WithContract(t, i, w) == [t EXCEPT !.awards[i].contract = w]
WithAwardAndContract(t, i, v, w) == [t EXCEPT !.awards[i].status = v, !.awards[i].contract = w]

\* To change a status or a contract is to replace the award.
LEMMA AwardRewritten ==
  ASSUME NEW t, SelectionRecord(t), t.awards \in Seq(SelectionAward), NEW i \in DOMAIN t.awards, NEW v, NEW w
  PROVE  /\ WithAwardStatus(t, i, v) = AwardedAs(t, i, Award(t.awards[i].bid, v, t.awards[i].contract))
         /\ WithContract(t, i, w) = AwardedAs(t, i, Award(t.awards[i].bid, t.awards[i].status, w))
         /\ WithAwardAndContract(t, i, v, w) = AwardedAs(t, i, Award(t.awards[i].bid, v, w))
<1> DEFINE a == t.awards[i]
           x == [t EXCEPT !.awards[i].status = v]
           p == Award(a.bid, v, a.contract)
<1>0. a \in SelectionAward /\ i \in 1 .. Len(t.awards) /\ DOMAIN t.awards = 1 .. Len(t.awards)
  BY LenProperties
<1>1. /\ [a EXCEPT !.status = v] = p
      /\ [a EXCEPT !.contract = w] = Award(a.bid, a.status, w)
      /\ [p EXCEPT !.contract = w] = Award(a.bid, v, w)
  BY <1>0 DEF SelectionAward, Award
<1>2. x = AwardedAs(t, i, [a EXCEPT !.status = v])
  BY Zenon DEF AwardedAs
<1>3. [t EXCEPT !.awards[i].contract = w] = AwardedAs(t, i, [a EXCEPT !.contract = w])
  BY Zenon DEF AwardedAs
<1>4. [t EXCEPT !.awards[i].status = v, !.awards[i].contract = w] = [x EXCEPT !.awards[i].contract = w]
  BY Zenon
<1>5. [x EXCEPT !.awards[i].contract = w] = AwardedAs(x, i, [x.awards[i] EXCEPT !.contract = w])
  BY Zenon DEF AwardedAs
<1> HIDE DEF x
<1>6. x = AwardedAs(t, i, p)
  BY <1>1, <1>2
<1>7. x = [t EXCEPT !.awards = [t.awards EXCEPT ![i] = p]]
  BY <1>6 DEF AwardedAs
<1> HIDE DEF p, a
<1>8. /\ HasFields(x, t.status, t.copy, t.quantity, t.bids, [t.awards EXCEPT ![i] = p])
      /\ x.awards = [t.awards EXCEPT ![i] = p]
  <2> DEFINE changed == [t.awards EXCEPT ![i] = p]
  <2> HIDE DEF changed
  <2>1. HasFields(x, t.status, t.copy, t.quantity, t.bids, changed)
    BY <1>7, SelectionRewritten DEF changed
  <2>2. x.awards = changed
    BY <2>1, SelectionFields
  <2> QED BY <2>1, <2>2 DEF changed
<1>9. x.awards[i] = p /\ [x.awards EXCEPT ![i] = Award(a.bid, v, w)] = [t.awards EXCEPT ![i] = Award(a.bid, v, w)]
  BY <1>0, <1>8
<1>10. AwardedAs(x, i, Award(a.bid, v, w)) = [x EXCEPT !.awards = [t.awards EXCEPT ![i] = Award(a.bid, v, w)]]
  BY <1>9 DEF AwardedAs
<1>11. SelectionRecord(x) /\ x.status = t.status /\ x.copy = t.copy /\ x.quantity = t.quantity /\ x.bids = t.bids
  BY <1>8, SelectionFields
<1>12. ASSUME NEW s PROVE [x EXCEPT !.awards = s] = [t EXCEPT !.awards = s]
  <2>1. /\ HasFields([x EXCEPT !.awards = s], x.status, x.copy, x.quantity, x.bids, s)
        /\ HasFields([t EXCEPT !.awards = s], t.status, t.copy, t.quantity, t.bids, s)
    BY <1>11, SelectionRewritten
  <2> QED BY <1>11, <2>1 DEF HasFields
<1>13. AwardedAs(x, i, Award(a.bid, v, w)) = AwardedAs(t, i, Award(a.bid, v, w))
  BY <1>10, <1>12 DEF AwardedAs
<1>14. [x.awards[i] EXCEPT !.contract = w] = Award(a.bid, v, w)
  BY <1>1, <1>9 DEF p
<1>15. [t EXCEPT !.awards[i].status = v, !.awards[i].contract = w] = AwardedAs(t, i, Award(a.bid, v, w))
  BY <1>4, <1>5, <1>13, <1>14
<1>16. /\ WithAwardStatus(t, i, v) = x
       /\ WithContract(t, i, w) = [t EXCEPT !.awards[i].contract = w]
       /\ WithAwardAndContract(t, i, v, w) = [t EXCEPT !.awards[i].status = v, !.awards[i].contract = w]
  BY Zenon DEF WithAwardStatus, WithContract, WithAwardAndContract, x
<1>17. WithContract(t, i, w) = AwardedAs(t, i, Award(a.bid, a.status, w))
  BY <1>1, <1>3, <1>16
<1> QED BY <1>6, <1>15, <1>16, <1>17 DEF a, p

\* The live award is the last; what becomes of it leaves the others as they are.
LEMMA AwardReplaced ==
  ASSUME NEW t, SelectionTyped(t), AwardsFit(t), NEW i \in DOMAIN t.awards,
         t.awards[i].status \in {"pending", "active"},
         NEW award \in SelectionAward, award.bid = t.awards[i].bid,
         award.contract \in {"pending", "pending.winner-signing", "active"} => award.status = "active",
         NEW r, r = AwardedAs(t, i, award)
  PROVE  /\ HasFields(r, t.status, t.copy, t.quantity, t.bids, [t.awards EXCEPT ![i] = award])
         /\ SelectionTyped(r) /\ AwardsFit(r)
         /\ i = Len(t.awards) /\ Len(r.awards) = Len(t.awards) /\ r.awards[i] = award
         /\ \A k \in DOMAIN r.awards : k \in DOMAIN t.awards /\ (k # i =>
              r.awards[k] = t.awards[k] /\ r.awards[k].status \notin {"pending", "active"}
              /\ r.awards[k].contract \in {"none", "cancelled"})
<1> DEFINE awards == [t.awards EXCEPT ![i] = award]
<1>0. SelectionRecord(t) /\ t.awards \in Seq(SelectionAward)
  BY DEF SelectionTyped
<1>1. HasFields(r, t.status, t.copy, t.quantity, t.bids, awards)
  BY <1>0, SelectionRewritten DEF AwardedAs
<1>2. /\ awards \in Seq(SelectionAward) /\ DOMAIN awards = DOMAIN t.awards /\ Len(awards) = Len(t.awards)
      /\ awards[i] = award
  BY <1>0
<1>2a. \A k \in DOMAIN t.awards : k # i => awards[k] = t.awards[k]
  BY <1>0
<1> HIDE DEF awards
<1>3. /\ SelectionRecord(r) /\ r.status = t.status /\ r.copy = t.copy /\ r.quantity = t.quantity
      /\ r.bids = t.bids /\ r.awards = awards
  BY <1>1, SelectionFields
<1>4. SelectionTyped(r)
  BY <1>2, <1>3 DEF SelectionTyped
<1>5. i = Len(t.awards) /\ award.bid \in DOMAIN t.bids
      /\ \A k \in DOMAIN t.awards : k # i => t.awards[k].status \notin {"pending", "active"}
  BY DEF AwardsFit
<1>6. \A k \in DOMAIN t.awards : k # i => t.awards[k].contract \in {"none", "cancelled"}
  <2>1. ASSUME NEW k \in DOMAIN t.awards, k # i PROVE t.awards[k].contract \in {"none", "cancelled"}
    <3>1. t.awards[k] \in SelectionAward
      BY <1>0
    <3>2. t.awards[k].contract \in {"none", "pending", "pending.winner-signing", "active", "cancelled"}
      BY <3>1 DEF SelectionAward
    <3> QED BY <1>5, <2>1, <3>2 DEF AwardsFit
  <2> QED BY <2>1
<1>7. award.status \in {"pending", "active"} => Selection!Open(r) = Selection!Open(t)
  <2> SUFFICES ASSUME award.status \in {"pending", "active"} PROVE Selection!Open(r) = Selection!Open(t)
    OBVIOUS
  <2>1. ASSUME NEW x
        PROVE  /\ x \in Selection!AwardedTo(r, {"unsuccessful"}) <=>
                    \E k \in DOMAIN awards : awards[k].status = "unsuccessful" /\ x = awards[k].bid
               /\ x \in Selection!AwardedTo(t, {"unsuccessful"}) <=>
                    \E k \in DOMAIN t.awards : t.awards[k].status = "unsuccessful" /\ x = t.awards[k].bid
    BY <1>3 DEF Selection!AwardedTo, Selection!ToSet
  <2>2. \A k \in DOMAIN t.awards : /\ awards[k].status = "unsuccessful" <=> t.awards[k].status = "unsuccessful"
                                   /\ awards[k].bid = t.awards[k].bid
    BY <1>2, <1>2a
  <2>3. Selection!AwardedTo(r, {"unsuccessful"}) = Selection!AwardedTo(t, {"unsuccessful"})
    <3>1. ASSUME NEW x
          PROVE  x \in Selection!AwardedTo(r, {"unsuccessful"}) <=> x \in Selection!AwardedTo(t, {"unsuccessful"})
      <4>1. (\E k \in DOMAIN awards : awards[k].status = "unsuccessful" /\ x = awards[k].bid) <=>
            \E k \in DOMAIN t.awards : t.awards[k].status = "unsuccessful" /\ x = t.awards[k].bid
        <5>1. DOMAIN awards = DOMAIN t.awards
          BY <1>2
        <5> QED BY <2>2, <5>1
      <4> QED BY <2>1, <4>1
    <3> QED BY <3>1
  <2> QED BY <1>3, <2>3 DEF Selection!Open
<1>8. AwardsFit(r)
  <2> SUFFICES ASSUME NEW k \in DOMAIN awards
               PROVE  /\ awards[k].bid \in DOMAIN t.bids
                      /\ awards[k].status \in {"pending", "active"} =>
                           /\ k = Len(awards)
                           /\ awards[k].bid \in Selection!Open(r)
                           /\ \A j \in Selection!Open(r) : t.bids[awards[k].bid].amount <= t.bids[j].amount
                      /\ awards[k].contract \in {"pending", "pending.winner-signing", "active"} =>
                           awards[k].status = "active"
    BY <1>3 DEF AwardsFit
  <2>1. CASE k = i
    BY <1>2, <1>5, <1>7, <2>1 DEF AwardsFit
  <2>2. CASE k # i
    BY <1>2, <1>2a, <1>5, <1>6, <2>2 DEF AwardsFit
  <2> QED BY <2>1, <2>2
<1> QED BY <1>1, <1>2, <1>2a, <1>3, <1>4, <1>5, <1>6, <1>8 DEF awards

\* A decision about the live award, or its contract, keeps the invariant.
LEMMA SelectionAwardStepSound ==
  ASSUME SelectionInv(selection), NEW i \in DOMAIN selection.awards, Selection!SelectionAwardStep(i)
  PROVE  SelectionInv(selection')
<1> DEFINE u == selection'
           a == selection.awards[i]
<1>0. /\ SelectionRecord(selection) /\ SelectionTyped(selection) /\ selection.awards \in Seq(SelectionAward)
      /\ AwardsFit(selection) /\ a \in SelectionAward
  BY DEF SelectionInv, SelectionTyped
<1>1. ASSUME Selection!Judging
      PROVE  /\ WithinCopy(selection) /\ selection.status \in {"active.qualification", "active.awarded"}
             /\ ~ \E k \in DOMAIN selection.awards : selection.awards[k].contract = "active"
  BY <1>1 DEF SelectionInv, Selection!Judging, Selection!SelectionDrafts, Selection!SelectionEnds
<1>2. /\ a.contract \in {"pending", "pending.winner-signing", "active"} => a.status = "active"
      /\ a.bid \in Nat /\ a.contract \in {"none", "pending", "pending.winner-signing", "active", "cancelled"}
      /\ a.status \in {"pending", "active", "unsuccessful", "cancelled"}
  BY <1>0 DEF AwardsFit, SelectionAward
<1>3. ASSUME Selection!Judging, a.status \in {"pending", "active"},
             NEW status \in {"active", "unsuccessful", "cancelled"},
             NEW contract \in {"none", "pending", "cancelled"}, contract = "pending" => status = "active",
             u = Selection!WithNextAward(AwardedAs(selection, i, Award(a.bid, status, contract)))
      PROVE  SelectionInv(u)
  <2> DEFINE award == Award(a.bid, status, contract)
  <2>1. /\ award \in SelectionAward /\ award.bid = a.bid /\ award.contract = contract
        /\ award.contract \in {"pending", "pending.winner-signing", "active"} => award.status = "active"
    BY <1>2, <1>3 DEF Award, SelectionAward
  <2> HIDE DEF award
  <2>2. PICK r : r = AwardedAs(selection, i, award)
    OBVIOUS
  <2>3. /\ HasFields(r, selection.status, selection.copy, selection.quantity, selection.bids,
                     [selection.awards EXCEPT ![i] = award])
        /\ SelectionTyped(r) /\ AwardsFit(r) /\ r.awards[i] = award
        /\ \A k \in DOMAIN r.awards : k # i => r.awards[k].contract \in {"none", "cancelled"}
    BY <1>0, <1>3, <2>1, <2>2, AwardReplaced
  <2>4. r.copy = selection.copy /\ r.quantity = selection.quantity /\ r.bids = selection.bids
    BY <2>3, SelectionFields
  <2>5. WithinCopy(r)
    BY <1>1, <1>3, <2>4, SelectionCarried
  <2>6. ~ \E k \in DOMAIN r.awards : r.awards[k].contract = "active"
    BY <2>1, <2>3
  <2>7. u = Selection!WithNextAward(r)
    BY <1>3, <2>2 DEF award
  <2> QED BY <2>3, <2>5, <2>6, <2>7, NextAwardSound
<1>4. ASSUME Selection!AcceptSelectionAward(i) PROVE SelectionInv(u)
  <2>1. /\ Selection!Judging /\ a.status = "pending"
        /\ u = Selection!WithNextAward(WithAwardAndContract(selection, i, "active", "pending"))
    BY <1>4, Zenon
       DEF Selection!AcceptSelectionAward, Selection!SaveSelectionWithNextAward,
           Selection!SaveSelection, WithAwardAndContract
  <2>2. WithAwardAndContract(selection, i, "active", "pending")
          = AwardedAs(selection, i, Award(a.bid, "active", "pending"))
    BY <1>0, AwardRewritten
  <2>3. u = Selection!WithNextAward(AwardedAs(selection, i, Award(a.bid, "active", "pending")))
    BY <2>1, <2>2
  <2> QED BY <1>3, <2>1, <2>3
<1>5. ASSUME Selection!RejectSelectionAward(i) PROVE SelectionInv(u)
  <2>1. /\ Selection!Judging /\ a.status = "pending"
        /\ u = Selection!WithNextAward(WithAwardStatus(selection, i, "unsuccessful"))
    BY <1>5, Zenon
       DEF Selection!RejectSelectionAward, Selection!SaveSelectionWithNextAward,
           Selection!SaveSelection, WithAwardStatus
  <2>2. WithAwardStatus(selection, i, "unsuccessful")
          = AwardedAs(selection, i, Award(a.bid, "unsuccessful", a.contract))
    BY <1>0, AwardRewritten
  <2>3. a.contract \in {"none", "pending", "cancelled"} /\ a.contract # "pending"
    BY <1>2, <2>1
  <2>4. u = Selection!WithNextAward(AwardedAs(selection, i, Award(a.bid, "unsuccessful", a.contract)))
    BY <2>1, <2>2
  <2> QED BY <1>3, <2>1, <2>3, <2>4
<1>6. ASSUME Selection!CancelSelectionAward(i) PROVE SelectionInv(u)
  <2>1. /\ Selection!Judging /\ a.status = "active"
        /\ u = Selection!WithNextAward(WithAwardAndContract(selection, i, "cancelled", "cancelled"))
    BY <1>6, Zenon
       DEF Selection!CancelSelectionAward, Selection!SaveSelectionWithNextAward,
           Selection!SaveSelection, WithAwardAndContract
  <2>2. WithAwardAndContract(selection, i, "cancelled", "cancelled")
          = AwardedAs(selection, i, Award(a.bid, "cancelled", "cancelled"))
    BY <1>0, AwardRewritten
  <2>3. u = Selection!WithNextAward(AwardedAs(selection, i, Award(a.bid, "cancelled", "cancelled")))
    BY <2>1, <2>2
  <2> QED BY <1>3, <2>1, <2>3
<1>7. ASSUME NEW contract \in {"pending", "pending.winner-signing", "active"}, Selection!PatchSelectionContract(i, contract)
      PROVE  SelectionInv(u)
  <2> DEFINE award == Award(a.bid, a.status, contract)
             signed == contract = "active" /\ i = Len(selection.awards) /\ a.status = "active"
  <2>1. Selection!Judging /\ a.contract \in {"pending", "pending.winner-signing"} /\ a.status = "active"
    BY <1>2, <1>7 DEF Selection!PatchSelectionContract
  <2>2. PICK r : r = AwardedAs(selection, i, award)
    OBVIOUS
  <2>3. r = WithContract(selection, i, contract)
    BY <1>0, <2>2, AwardRewritten
  <2>4. u = IF contract = "active" /\ i = Len(r.awards) /\ r.awards[i].status = "active"
            THEN [r EXCEPT !.status = "complete"] ELSE r
    BY <1>7, <2>3, Zenon DEF Selection!PatchSelectionContract, Selection!SaveSelection, WithContract
  <2>5. /\ award \in SelectionAward /\ award.bid = a.bid /\ award.contract = contract /\ award.status = "active"
    BY <1>2, <2>1 DEF Award, SelectionAward
  <2> HIDE DEF award
  <2>6. /\ HasFields(r, selection.status, selection.copy, selection.quantity, selection.bids,
                     [selection.awards EXCEPT ![i] = award])
        /\ SelectionTyped(r) /\ AwardsFit(r) /\ r.awards[i] = award
        /\ i = Len(selection.awards) /\ Len(r.awards) = Len(selection.awards)
        /\ \A k \in DOMAIN r.awards : k # i => r.awards[k].contract \in {"none", "cancelled"}
    BY <1>0, <2>1, <2>2, <2>5, AwardReplaced
  <2>7. /\ SelectionRecord(r) /\ r.status = selection.status
        /\ r.copy = selection.copy /\ r.quantity = selection.quantity /\ r.bids = selection.bids
        /\ r.awards = [selection.awards EXCEPT ![i] = award] /\ i \in DOMAIN r.awards
    <3>1. i \in DOMAIN [selection.awards EXCEPT ![i] = award]
      OBVIOUS
    <3> QED BY <2>6, <3>1, SelectionFields
  <2>8. WithinCopy(r)
    BY <1>1, <2>1, <2>7, SelectionCarried
  <2>9. CASE contract = "active"
    <3>1. u = [r EXCEPT !.status = "complete"]
      BY <2>4, <2>5, <2>6, <2>9
    <3>2. HasFields(u, "complete", r.copy, r.quantity, r.bids, r.awards)
      BY <2>7, <3>1, SelectionRewritten
    <3>3. /\ SelectionRecord(u) /\ u.status = "complete" /\ u.copy = r.copy /\ u.quantity = r.quantity
          /\ u.bids = r.bids /\ u.awards = r.awards
      BY <3>2, SelectionFields
    <3>4. SelectionTyped(u) /\ InPhase(u)
      BY <2>6, <3>3 DEF SelectionTyped, InPhase, SelectionStatus, Selection!SelectionEnds,
                        Selection!SelectionDrafts
    <3>5. AwardsFit(u) /\ u.status \in Selection!SelectionEnds
      BY <2>6, <3>3, SelectionCarried DEF Selection!SelectionEnds
    <3>6. \E k \in DOMAIN u.awards : u.awards[k].contract = "active"
      BY <2>5, <2>6, <2>7, <2>9, <3>3
    <3> QED BY <3>3, <3>4, <3>5, <3>6 DEF SelectionInv
  <2>10. CASE contract # "active"
    <3>1. u = r
      BY <2>4, <2>10
    <3>2. InPhase(r) /\ r.status # "complete"
      BY <1>1, <2>1, <2>7 DEF InPhase, Selection!SelectionDrafts
    <3>3. ~ \E k \in DOMAIN r.awards : r.awards[k].contract = "active"
      BY <2>5, <2>6, <2>10
    <3> QED BY <2>6, <2>8, <3>1, <3>2, <3>3 DEF SelectionInv
  <2> QED BY <2>9, <2>10
<1> QED BY <1>4, <1>5, <1>6, <1>7 DEF Selection!SelectionAwardStep

\* Items change, enquiries end and the selection is cancelled.
LEMMA PhaseSound ==
  ASSUME SelectionInv(selection)
  PROVE  /\ \A quantity \in Quantities : Selection!EditItems(quantity) => SelectionInv(selection')
         /\ Selection!EndEnquiries => SelectionInv(selection')
         /\ Selection!CancelSelection => SelectionInv(selection')
<1> DEFINE u == selection'
<1>0. SelectionRecord(selection) /\ SelectionTyped(selection) /\ InPhase(selection) /\ AwardsFit(selection)
  BY DEF SelectionInv, SelectionTyped
<1>1. ASSUME NEW quantity \in Quantities, Selection!EditItems(quantity) PROVE SelectionInv(u)
  <2>1. selection.status = "active.enquiries" /\ u = [selection EXCEPT !.quantity = quantity]
    BY <1>1 DEF Selection!EditItems, Selection!SaveSelection
  <2>2. HasFields(u, selection.status, selection.copy, quantity, selection.bids, selection.awards)
    BY <1>0, <2>1, SelectionRewritten
  <2>3. /\ SelectionRecord(u) /\ u.status = selection.status /\ u.copy = selection.copy /\ u.quantity = quantity
        /\ u.bids = selection.bids /\ u.awards = selection.awards
    BY <2>2, SelectionFields
  <2>4. SelectionTyped(u) /\ InPhase(u)
    BY <1>0, <2>3 DEF SelectionTyped, InPhase
  <2>5. selection.bids = <<>> /\ selection.awards = <<>> /\ WithinCopy(selection)
    BY <1>0, <2>1 DEF SelectionInv, InPhase, Selection!SelectionDrafts, Selection!SelectionEnds
  <2>6. WithinCopy(u) /\ AwardsFit(u)
    <3>1. Selection!Fit(u.copy, TRUE)
      BY <2>3, <2>5, Zenon DEF WithinCopy
    <3>2. DOMAIN u.bids = {} /\ DOMAIN u.awards = {}
      BY <2>3, <2>5
    <3> QED BY <3>1, <3>2, Zenon DEF WithinCopy, AwardsFit
  <2> QED BY <2>1, <2>3, <2>4, <2>5, <2>6 DEF SelectionInv
<1>2. ASSUME Selection!EndEnquiries PROVE SelectionInv(u)
  <2>1. selection.status = "active.enquiries" /\ u = [selection EXCEPT !.status = "active.tendering"]
    BY <1>2 DEF Selection!EndEnquiries, Selection!SaveSelection
  <2>2. HasFields(u, "active.tendering", selection.copy, selection.quantity, selection.bids, selection.awards)
    BY <1>0, <2>1, SelectionRewritten
  <2>3. u.status = "active.tendering" /\ u.bids = selection.bids /\ u.awards = selection.awards
    BY <2>2, SelectionFields
  <2>4. "active.tendering" \in SelectionStatus /\ InPhase(u) /\ WithinCopy(selection)
    BY <1>0, <2>1, <2>3
       DEF SelectionStatus, SelectionInv, InPhase, Selection!SelectionDrafts,
           Selection!SelectionEnds
  <2> QED BY <2>1, <2>2, <2>4, StatusMoved
<1>3. ASSUME Selection!CancelSelection PROVE SelectionInv(u)
  <2> DEFINE bids == IF selection.status = "active.tendering" THEN <<>> ELSE selection.bids
             x == [selection EXCEPT !.status = "cancelled"]
  <2>1. /\ selection.status \notin Selection!SelectionEnds
        /\ u = [selection EXCEPT !.status = "cancelled",
                   !.bids = IF selection.status = "active.tendering" THEN <<>> ELSE selection.bids]
    BY <1>3 DEF Selection!CancelSelection, Selection!SaveSelection
  <2>2. u = [x EXCEPT !.bids = bids]
    BY <2>1, Zenon
  <2>3. HasFields(x, "cancelled", selection.copy, selection.quantity, selection.bids, selection.awards)
    BY <1>0, SelectionRewritten
  <2>4. /\ SelectionRecord(x) /\ x.status = "cancelled" /\ x.copy = selection.copy
        /\ x.quantity = selection.quantity /\ x.awards = selection.awards
    BY <2>3, SelectionFields
  <2> HIDE DEF x, bids
  <2>5. HasFields(u, "cancelled", selection.copy, selection.quantity, bids, selection.awards)
    BY <2>2, <2>4, SelectionRewritten
  <2>6. /\ SelectionRecord(u) /\ u.status = "cancelled" /\ u.copy = selection.copy
        /\ u.quantity = selection.quantity /\ u.bids = bids /\ u.awards = selection.awards
    BY <2>5, SelectionFields
  <2>7. bids \in Seq(SelectionBid)
    BY <1>0 DEF bids, SelectionTyped
  <2>8. SelectionTyped(u) /\ InPhase(u)
    BY <1>0, <2>6, <2>7 DEF SelectionTyped, InPhase, SelectionStatus, Selection!SelectionEnds,
                            Selection!SelectionDrafts
  <2>9. AwardsFit(u)
    <3>1. CASE selection.status = "active.tendering"
      <4>1. selection.awards = <<>>
        BY <1>0, <3>1 DEF InPhase
      <4> QED BY <2>6, <4>1 DEF AwardsFit
    <3>2. CASE selection.status # "active.tendering"
      <4>1. u.bids = selection.bids
        BY <2>6, <3>2 DEF bids
      <4> QED BY <1>0, <2>6, <4>1, SelectionCarried
    <3> QED BY <3>1, <3>2
  <2>10. ~ \E i \in DOMAIN u.awards : u.awards[i].contract = "active"
    BY <2>1, <2>6 DEF SelectionInv, Selection!SelectionEnds
  <2> QED BY <2>6, <2>8, <2>9, <2>10 DEF SelectionInv, Selection!SelectionEnds
<1> QED BY <1>1, <1>2, <1>3

\* What is kept of a list is from the list.
LEMMA KeptIsFrom ==
  ASSUME NEW S, NEW s \in Seq(S), NEW chosen \in SUBSET DOMAIN s
  PROVE  /\ Kept(s, chosen) \in Seq(S)
         /\ \A k \in DOMAIN Kept(s, chosen) : \E j \in chosen : Kept(s, chosen)[k] = s[j]
<1> DEFINE n == Cardinality(chosen)
           r == Kept(s, chosen)
           order == Ascending(chosen)
<1>1. /\ IsFiniteSet(chosen) /\ chosen \in SUBSET Nat /\ n \in Nat
  <2>1. Len(s) \in Nat /\ DOMAIN s = 1 .. Len(s)
    BY LenProperties
  <2>2. IsFiniteSet(1 .. Len(s))
    BY <2>1, FS_Interval
  <2>3. chosen \in SUBSET (1 .. Len(s))
    BY <2>1
  <2>4. IsFiniteSet(chosen)
    BY <2>2, <2>3, FS_Subset
  <2> QED BY <2>1, <2>3, <2>4, FS_CardinalityType
<1>2. order \in [1 .. n -> chosen]
  BY <1>1, AscendingSorts
<1>3. r = [k \in 1 .. n |-> s[order[k]]]
  BY DEF Kept
<1> HIDE DEF n, r, order
<1>4. \A k \in 1 .. n : r[k] = s[order[k]] /\ order[k] \in chosen /\ order[k] \in DOMAIN s
  BY <1>2, <1>3
<1>5. \A k \in 1 .. n : r[k] \in S
  BY <1>4
<1>6. r \in [1 .. n -> S]
  BY <1>3, <1>5
<1>7. r \in Seq(S) /\ DOMAIN r = 1 .. n
  BY <1>1, <1>6
<1> QED BY <1>4, <1>7 DEF r

\* The sorting of the instance is that of this module.
LEMMA SameSorting ==
  ASSUME NEW s, NEW chosen
  PROVE  Selection!Kept(s, chosen) = Kept(s, chosen)
<1>1. \A S : Selection!Cardinality(S) = Cardinality(S)
  BY DEF Selection!Cardinality, Cardinality
<1>2. Selection!Ascending(chosen) = Ascending(chosen)
  BY <1>1, Zenon DEF Selection!Ascending, Ascending
<1> QED BY <1>1, <1>2, Zenon DEF Selection!Kept, Kept

\* Tendering ends: drafts are dropped, and the other bids keep their order.
LEMMA TenderingSound ==
  ASSUME SelectionInv(selection), Selection!EndTendering
  PROVE  SelectionInv(selection')
<1> DEFINE chosen == {i \in DOMAIN selection.bids : selection.bids[i].status = "active"}
           bids == Selection!Kept(selection.bids, chosen)
           t == [selection EXCEPT !.bids = bids]
           u == selection'
<1>0. /\ SelectionTyped(selection) /\ SelectionRecord(selection) /\ selection.bids \in Seq(SelectionBid)
      /\ selection.status = "active.tendering" /\ selection.awards = <<>>
      /\ WithinCopy(selection)
  BY DEF Selection!EndTendering, SelectionInv, SelectionTyped, InPhase,
         Selection!SelectionDrafts, Selection!SelectionEnds
<1>1. \/ u = [t EXCEPT !.status = "unsuccessful"] \/ u = [t EXCEPT !.status = "active.auction"]
      \/ u = Selection!WithNextAward(t)
  BY Zenon DEF Selection!EndTendering, Selection!SaveSelection, Selection!SaveSelectionWithNextAward
<1>2. /\ bids \in Seq(SelectionBid)
      /\ \A k \in DOMAIN bids : \E j \in DOMAIN selection.bids : bids[k] = selection.bids[j]
  <2>1. chosen \in SUBSET DOMAIN selection.bids
    OBVIOUS
  <2> HIDE DEF chosen
  <2>2. bids = Kept(selection.bids, chosen)
    BY SameSorting
  <2> HIDE DEF bids
  <2>3. /\ bids \in Seq(SelectionBid)
        /\ \A k \in DOMAIN bids : \E j \in chosen : bids[k] = selection.bids[j]
    BY <1>0, <2>1, <2>2, KeptIsFrom
  <2> QED BY <2>1, <2>3
<1> HIDE DEF chosen, bids
<1>3. HasFields(t, selection.status, selection.copy, selection.quantity, bids, selection.awards)
  BY <1>0, SelectionRewritten
<1>4. SelectionInv(t)
  BY <1>0, <1>2, <1>3, BidsMoved
<1>5. t.status = "active.tendering" /\ t.awards = <<>> /\ SelectionRecord(t)
  BY <1>0, <1>3, SelectionFields
<1> HIDE DEF t
<1>6. SelectionTyped(t) /\ AwardsFit(t) /\ WithinCopy(t)
  BY <1>4, <1>5 DEF SelectionInv, Selection!SelectionDrafts, Selection!SelectionEnds
<1>7. ASSUME NEW st \in {"unsuccessful", "active.auction"}, u = [t EXCEPT !.status = st] PROVE SelectionInv(u)
  <2>1. HasFields(u, st, t.copy, t.quantity, t.bids, t.awards)
    BY <1>5, <1>7, SelectionRewritten
  <2>2. u.status = st /\ u.awards = t.awards
    BY <2>1, SelectionFields
  <2>3. InPhase(u) /\ st \in SelectionStatus
    BY <1>5, <2>2 DEF InPhase, SelectionStatus, Selection!SelectionDrafts, Selection!SelectionEnds
  <2> QED BY <1>4, <1>5, <1>6, <2>1, <2>3, StatusMoved
<1>8. ASSUME u = Selection!WithNextAward(t) PROVE SelectionInv(u)
  BY <1>5, <1>6, <1>8, NextAwardSound
<1> QED BY <1>1, <1>7, <1>8

\* The auction changes the amount of a bid.
WithAmount(t, i, v) == [t EXCEPT !.bids[i].amount = v]

\* The auction lowers amounts, and its first award is of the lowest.
LEMMA AuctionSound ==
  ASSUME SelectionInv(selection), NEW i \in DOMAIN selection.bids, NEW amount \in Amounts,
         Selection!PostAuctionResults(i, amount)
  PROVE  SelectionInv(selection')
<1> DEFINE old == selection.bids[i]
           bid == [old EXCEPT !.amount = amount]
           bids == [selection.bids EXCEPT ![i] = bid]
           t == WithAmount(selection, i, amount)
<1>0. /\ SelectionTyped(selection) /\ SelectionRecord(selection) /\ selection.bids \in Seq(SelectionBid)
      /\ selection.status = "active.auction" /\ selection.awards = <<>> /\ WithinCopy(selection)
      /\ selection.copy \in Copies /\ selection.quantity \in Quantities \cup {0}
  BY DEF Selection!PostAuctionResults, SelectionInv, SelectionTyped, InPhase,
         Selection!SelectionDrafts, Selection!SelectionEnds
<1>1. /\ amount <= old.amount
      /\ selection' = Selection!WithNextAward(WithAmount(selection, i, amount))
  BY Zenon DEF Selection!PostAuctionResults, Selection!SaveSelectionWithNextAward,
               Selection!SaveSelection, WithAmount
<1>2. t = [selection EXCEPT !.bids = bids]
  BY Zenon DEF WithAmount
<1>3. old \in SelectionBid /\ bid \in SelectionBid
  <2>1. old \in SelectionBid
    BY <1>0
  <2> QED BY <2>1 DEF SelectionBid
<1>4. bid.supplier = old.supplier /\ bid.amount = amount
  BY <1>3 DEF SelectionBid
<1> HIDE DEF t, bid
<1>5. bids \in Seq(SelectionBid) /\ DOMAIN bids = DOMAIN selection.bids
      /\ \A k \in DOMAIN selection.bids : bids[k] = IF k = i THEN bid ELSE selection.bids[k]
  BY <1>0, <1>3
<1> HIDE DEF bids
<1>6. HasFields(t, selection.status, selection.copy, selection.quantity, bids, selection.awards)
  BY <1>0, <1>2, SelectionRewritten
<1>7. /\ SelectionRecord(t) /\ t.status = selection.status /\ t.copy = selection.copy
      /\ t.quantity = selection.quantity /\ t.bids = bids /\ t.awards = <<>>
  BY <1>0, <1>6, SelectionFields
<1>8. SelectionTyped(t) /\ AwardsFit(t)
  <2>1. SelectionTyped(t)
    BY <1>0, <1>5, <1>7 DEF SelectionTyped
  <2>2. DOMAIN t.awards = {}
    BY <1>7
  <2> QED BY <2>1, <2>2, Zenon DEF AwardsFit
<1>9. amount <= Selection!Value(selection, old.supplier)
  <2>1. /\ old.supplier \in DOMAIN selection.copy.contracts
        /\ old.amount <= Selection!Value(selection, old.supplier)
    BY <1>0 DEF WithinCopy
  <2>2. selection.copy.contracts[old.supplier].price \in Int
    BY <1>0, <2>1 DEF Copies, ContractsOf, Contract
  <2>3. selection.quantity \in Int /\ amount \in Int /\ old.amount \in Int
    <3>1. \A x : x \in Quantities \cup {0} \cup Amounts => x \in Int
      BY AmountsAssumption
    <3>2. old.amount \in Amounts
      BY <1>3 DEF SelectionBid
    <3> QED BY <1>0, <3>1, <3>2, Zenon
  <2>4. Selection!Value(selection, old.supplier) \in Int
    BY <2>2, <2>3 DEF Selection!Value
  <2> QED BY <1>1, <2>1, <2>3, <2>4
<1>10. WithinCopy(t)
  <2>1. \A s : Selection!Value(t, s) = Selection!Value(selection, s)
    BY <1>7 DEF Selection!Value
  <2>2. \A k \in DOMAIN selection.bids :
          /\ selection.bids[k].supplier \in DOMAIN selection.copy.contracts
          /\ selection.copy.contracts[selection.bids[k].supplier].status = "active"
          /\ selection.bids[k].amount <= Selection!Value(selection, selection.bids[k].supplier)
    BY <1>0 DEF WithinCopy
  <2>3. ASSUME NEW k \in DOMAIN bids
        PROVE  /\ bids[k].supplier \in DOMAIN selection.copy.contracts
               /\ selection.copy.contracts[bids[k].supplier].status = "active"
               /\ bids[k].amount <= Selection!Value(selection, bids[k].supplier)
    <3>1. CASE k = i
      BY <1>4, <1>5, <1>9, <2>2, <3>1
    <3>2. CASE k # i
      BY <1>5, <2>2, <3>2
    <3> QED BY <3>1, <3>2
  <2>4. Selection!Fit(t.copy, TRUE)
    BY <1>0, <1>7, Zenon DEF WithinCopy
  <2>5. ASSUME NEW k \in DOMAIN t.bids
        PROVE  /\ t.bids[k].supplier \in DOMAIN t.copy.contracts
               /\ t.copy.contracts[t.bids[k].supplier].status = "active"
               /\ t.bids[k].amount <= Selection!Value(t, t.bids[k].supplier)
    BY <1>7, <2>1, <2>3
  <2> QED BY <2>4, <2>5 DEF WithinCopy
<1> QED BY <1>1, <1>7, <1>8, <1>10, NextAwardSound DEF t

\* Every step of a selection keeps its invariant.
LEMMA SelectionNextSound ==
  ASSUME SelectionInv(selection), Selection!SelectionNext
  PROVE  SelectionInv(selection')
BY DraftSound, BidStepSound, SelectionAwardStepSound, PhaseSound, TenderingSound, AuctionSound, Zenon
   DEF Selection!SelectionNext

\* What SelectionInv says of the selection is what the runs check of it.
LEMMA SelectionAsChecked ==
  ASSUME SelectionInv(selection)
  PROVE  SelectionSound /\ Selection!TypeOK
<1> DEFINE live == {i \in DOMAIN selection.awards : selection.awards[i].status \in {"pending", "active"}}
           contracted == {i \in DOMAIN selection.awards : selection.awards[i].contract \notin {"none", "cancelled"}}
<1>0. /\ SelectionTyped(selection) /\ AwardsFit(selection)
      /\ selection.bids \in Seq(SelectionBid) /\ selection.awards \in Seq(SelectionAward)
  BY DEF SelectionInv, SelectionTyped
<1>1. \A i \in DOMAIN selection.awards : selection.awards[i] \in SelectionAward
  BY <1>0
<1>1a. \A i \in DOMAIN selection.bids : selection.bids[i] \in SelectionBid
  BY <1>0
<1>2. Selection!BidsWithinAgreement
  <2>1. ASSUME WithinCopy(selection), NEW b \in Selection!ToSet(selection.bids)
        PROVE  /\ selection.copy.contracts[b.supplier].status = "active"
               /\ b.amount <= Selection!Value(selection, b.supplier)
    <3>1. PICK i \in DOMAIN selection.bids : b = selection.bids[i]
      BY <2>1 DEF Selection!ToSet
    <3> QED BY <2>1, <3>1 DEF WithinCopy
  <2>2. WithinCopy(selection) => Selection!Fit(selection.copy, TRUE)
    BY DEF WithinCopy
  <2> QED BY <2>1, <2>2 DEF Selection!BidsWithinAgreement, SelectionInv
<1>3. contracted \subseteq live
  <2>1. ASSUME NEW i \in contracted PROVE selection.awards[i].status = "active"
    BY <1>0, <1>1 DEF AwardsFit, SelectionAward
  <2> QED BY <2>1
<1>4. Selection!Cardinality(live) <= 1
  <2>1. live \subseteq {Len(selection.awards)}
    BY <1>0 DEF AwardsFit
  <2>2. Cardinality(live) <= 1
    <3>1. IsFiniteSet({Len(selection.awards)}) /\ Cardinality({Len(selection.awards)}) = 1
      BY FS_Singleton
    <3> HIDE DEF live
    <3> QED BY <2>1, <3>1, FS_Subset
  <2> QED BY <2>2 DEF Selection!Cardinality, Cardinality
<1>5. \A i \in live : /\ selection.awards[i].bid \in Selection!Open(selection)
                      /\ \A j \in Selection!Open(selection) :
                           selection.bids[selection.awards[i].bid].amount <= selection.bids[j].amount
  BY <1>0 DEF AwardsFit
<1>6. selection.status = "complete" <=> \E a \in Selection!ToSet(selection.awards) : a.contract = "active"
  <2>1. (\E a \in Selection!ToSet(selection.awards) : a.contract = "active")
          <=> \E i \in DOMAIN selection.awards : selection.awards[i].contract = "active"
    BY DEF Selection!ToSet
  <2> QED BY <2>1 DEF SelectionInv
<1>7. Selection!WinnerIsBest
  BY <1>3, <1>4, <1>5, <1>6, Zenon DEF Selection!WinnerIsBest
<1>8. Selection!TypeOK
  <2>1. \A i \in DOMAIN selection.bids : selection.bids[i].status \in {"draft", "active"}
    BY <1>1a DEF SelectionBid
  <2>2. \A i \in DOMAIN selection.awards :
          /\ selection.awards[i].bid \in DOMAIN selection.bids
          /\ selection.awards[i].contract \in {"none", "pending", "pending.winner-signing", "active", "cancelled"}
    BY <1>0, <1>1 DEF AwardsFit, SelectionAward
  <2>3. selection.status \in SelectionStatus /\ selection.quantity \in Quantities \cup {0}
    BY <1>0 DEF SelectionTyped
  <2> QED BY <2>1, <2>2, <2>3, Zenon DEF Selection!TypeOK, SelectionStatus
<1> QED BY <1>2, <1>7, <1>8 DEF SelectionSound

-----------------------------------------------------------------------------
(* The agreement and its changes.                                          *)

\* What the agreement holds.
Modification == [addend : Int, factor : Int, withdrawn : Nat]
Change == [kind : {"price", "withdrawal"}, modification : Modification,
           signed : Changes!Dates \cup {Changes!Unsigned}, status : {"pending", "active", "cancelled"}]

\* The agreement as a record of its fields.
AgreementHas(a, status, signed, contracts, registered, changes) ==
  a = [status |-> status, signed |-> signed, contracts |-> contracts, registered |-> registered, changes |-> changes]
AgreementRecord(a) == AgreementHas(a, a.status, a.signed, a.contracts, a.registered, a.changes)

\* The agreement has its fields, and each is of its type.
AgreementTyped ==
  /\ AgreementRecord(agreement)
  /\ agreement.status \in {"none", "active", "terminated"}
  /\ agreement.signed \in Changes!Dates \cup {Changes!Unsigned}
  /\ agreement.contracts \in ContractsOf /\ agreement.registered \in ContractsOf
  /\ agreement.changes \in Seq(Change)

\* A change is made only when none is pending, so only the last can be.
OnlyLastPending ==
  \A i \in DOMAIN agreement.changes : agreement.changes[i].status = "pending" => i = Len(agreement.changes)

\* The invariant of the agreement.
ChangesInv ==
  /\ AgreementTyped /\ OnlyLastPending
  /\ Changes!PricesFollowChanges /\ Changes!SigningInOrder

\* Induction, for a set of numbers in place of a predicate.
LEMMA SetInduction ==
  ASSUME NEW S, 0 \in S, \A n \in Nat : n \in S => n + 1 \in S
  PROVE  \A n \in Nat : n \in S
<1> SUFFICES ASSUME NEW k \in Nat, k \notin S PROVE FALSE
  OBVIOUS
<1> DEFINE Out == Nat \ S
<1>1. PICK n \in Out : \A m \in Out : n <= m
  <2>1. Out \in SUBSET Nat /\ Out # {}
    OBVIOUS
  <2> QED BY <2>1, Least
<1>2. n - 1 \in Nat /\ ~ (n <= n - 1)
  <2>1. n # 0 /\ n \in Nat
    OBVIOUS
  <2> QED BY <2>1
<1>3. n - 1 \in S
  BY <1>1, <1>2
<1>4. n - 1 + 1 \in S /\ n - 1 + 1 = n
  BY <1>2, <1>3
<1> QED BY <1>4

\* The contracts after n changes, from those after the changes before.
After(f, changes, n) ==
  IF changes[n].status = "active" THEN Changes!Modified(f[n - 1], changes[n].modification) ELSE f[n - 1]

\* The recursion that defines Made has a solution.
LEMMA MadeIs ==
  ASSUME NEW contracts, NEW changes, Len(changes) \in Nat
  PROVE  /\ Changes!Made(contracts, changes)[0] = contracts
         /\ \A n \in 1 .. Len(changes) :
              Changes!Made(contracts, changes)[n] = After(Changes!Made(contracts, changes), changes, n)
<1> DEFINE Solves(f, n) == f = [k \in 0 .. n |-> IF k = 0 THEN contracts ELSE After(f, changes, k)]
           S == {n \in Nat : \E f : Solves(f, n)}
           made == Changes!Made(contracts, changes)
<1>1. 0 \in S
  <2>1. Solves([k \in 0 .. 0 |-> contracts], 0)
    <3>1. \A k \in 0 .. 0 : k = 0
      OBVIOUS
    <3> QED BY <3>1
  <2> QED BY <2>1
<1>2. ASSUME NEW n \in Nat, n \in S PROVE n + 1 \in S
  <2>1. PICK f : Solves(f, n)
    BY <1>2
  <2> DEFINE g == [k \in 0 .. n + 1 |-> IF k = n + 1 THEN After(f, changes, n + 1) ELSE f[k]]
  <2>2. \A k \in 0 .. n : g[k] = f[k]
    OBVIOUS
  <2>3. /\ f[0] = contracts
        /\ \A k \in 1 .. n : f[k] = After(f, changes, k)
    BY <2>1
  <2>4. \A k \in 1 .. n + 1 : After(g, changes, k) = After(f, changes, k)
    <3>1. \A k \in 1 .. n + 1 : k - 1 \in 0 .. n
      OBVIOUS
    <3> HIDE DEF g
    <3>2. \A k \in 1 .. n + 1 : g[k - 1] = f[k - 1]
      BY <2>2, <3>1
    <3> QED BY <3>2 DEF After
  <2>5. \A k \in 0 .. n + 1 : g[k] = IF k = 0 THEN contracts ELSE After(g, changes, k)
    <3>1. g[0] = contracts
      BY <2>2, <2>3
    <3>2. g[n + 1] = After(f, changes, n + 1)
      OBVIOUS
    <3>3. \A k \in 1 .. n : g[k] = After(f, changes, k)
      BY <2>2, <2>3
    <3> HIDE DEF g
    <3> QED BY <2>4, <3>1, <3>2, <3>3
  <2>6. g = [k \in 0 .. n + 1 |-> g[k]]
    OBVIOUS
  <2> HIDE DEF g
  <2>7. Solves(g, n + 1)
    BY <2>5, <2>6
  <2> QED BY <2>7
<1> HIDE DEF S
<1>3. Len(changes) \in S
  BY <1>1, <1>2, SetInduction
<1>4. \E f : Solves(f, Len(changes))
  BY <1>3 DEF S
<1>5. made = CHOOSE f : Solves(f, Len(changes))
  BY Zenon DEF Changes!Made, After
<1>6. Solves(made, Len(changes))
  BY <1>4, <1>5, Zenon
<1> HIDE DEF made
<1> QED BY <1>6 DEF made

\* It has one: what the first changes make depends on them only.
LEMMA MadeSame ==
  ASSUME NEW contracts, NEW c, NEW d, Len(c) \in Nat, Len(d) \in Nat,
         NEW m \in Nat, m <= Len(c), m <= Len(d), \A i \in 1 .. m : c[i] = d[i]
  PROVE  Changes!Made(contracts, c)[m] = Changes!Made(contracts, d)[m]
<1> DEFINE f == Changes!Made(contracts, c)
           g == Changes!Made(contracts, d)
           S == {n \in Nat : n <= m => f[n] = g[n]}
<1>1. /\ f[0] = contracts /\ \A n \in 1 .. Len(c) : f[n] = After(f, c, n)
      /\ g[0] = contracts /\ \A n \in 1 .. Len(d) : g[n] = After(g, d, n)
  BY MadeIs
<1> HIDE DEF f, g
<1>2. 0 \in S
  BY <1>1
<1>3. ASSUME NEW n \in Nat, n \in S PROVE n + 1 \in S
  <2> SUFFICES ASSUME n + 1 <= m PROVE f[n + 1] = g[n + 1]
    OBVIOUS
  <2>1. n + 1 \in 1 .. m /\ n + 1 \in 1 .. Len(c) /\ n + 1 \in 1 .. Len(d) /\ n + 1 - 1 = n /\ n <= m
    OBVIOUS
  <2>2. f[n] = g[n]
    BY <1>3, <2>1
  <2>3. After(f, c, n + 1) = After(g, d, n + 1)
    BY <2>1, <2>2 DEF After
  <2> QED BY <1>1, <2>1, <2>3
<1> HIDE DEF S
<1>4. m \in S
  BY <1>2, <1>3, SetInduction
<1> QED BY <1>4 DEF S, f, g

\* The contracts of an agreement are those of some bids, each of its type.
LEMMA ContractsTyped ==
  ASSUME NEW c \in ContractsOf
  PROVE  DOMAIN c \in SUBSET Bids /\ \A s \in DOMAIN c : c[s] \in Contract
BY DEF ContractsOf

\* A modification keeps the suppliers, and the types.
LEMMA ModifiedFits ==
  ASSUME NEW c \in ContractsOf, NEW m \in Modification
  PROVE  Changes!Modified(c, m) \in ContractsOf
<1> DEFINE r == Changes!Modified(c, m)
<1>1. DOMAIN c \in SUBSET Bids /\ \A s \in DOMAIN c : c[s] \in Contract
  BY ContractsTyped
<1>2. \A s \in DOMAIN c :
        /\ [c[s] EXCEPT !.status = "unsuccessful"] \in Contract
        /\ [c[s] EXCEPT !.price = (c[s].price + m.addend) * m.factor] \in Contract
  BY <1>1 DEF Contract, Modification
<1>3. r = [s \in DOMAIN c |-> IF s = m.withdrawn THEN [c[s] EXCEPT !.status = "unsuccessful"]
                              ELSE [c[s] EXCEPT !.price = (c[s].price + m.addend) * m.factor]]
  BY Zenon DEF Changes!Modified
<1>4. r \in [DOMAIN c -> Contract]
  BY <1>2, <1>3
<1> QED BY <1>1, <1>4 DEF ContractsOf

\* What a change of either kind may carry is a modification.
LEMMA ModificationsTyped ==
  ASSUME AgreementTyped, NEW kind, NEW m \in Changes!ModificationsOf(kind)
  PROVE  m \in Modification
<1>0. Changes!NoModification \in Modification
  BY DEF Changes!NoModification, Modification
<1>1. \A s \in DOMAIN agreement.contracts : s \in Nat
  <2>1. DOMAIN agreement.contracts \in SUBSET Bids
    BY ContractsTyped DEF AgreementTyped
  <2>2. Bids \subseteq Nat
    BY DEF Bids
  <2> QED BY <2>1, <2>2
<1>2. [Changes!NoModification EXCEPT !.addend = -1] \in Modification
      /\ [Changes!NoModification EXCEPT !.factor = 2] \in Modification
      /\ \A s \in Nat : [Changes!NoModification EXCEPT !.withdrawn = s] \in Modification
  BY DEF Changes!NoModification, Modification
<1>3. m \in {Changes!NoModification} \cup Changes!PriceModifications
        \/ \E s \in DOMAIN agreement.contracts : m = [Changes!NoModification EXCEPT !.withdrawn = s]
  BY Zenon DEF Changes!ModificationsOf
<1> QED BY <1>0, <1>1, <1>2, <1>3 DEF Changes!PriceModifications

\* Max finds the greatest of the first numbers.
LEMMA Greatest ==
  ASSUME NEW n \in Nat, NEW S \in SUBSET (1 .. n), S # {}
  PROVE  Changes!Max(S) \in S /\ \A y \in S : Changes!Max(S) >= y
<1> DEFINE T == {n - x : x \in S}
<1>0. \A x \in S : x \in Nat /\ x <= n
  OBVIOUS
<1>1. T \in SUBSET Nat /\ T # {}
  <2>1. \A x \in S : n - x \in Nat
    BY <1>0
  <2>2. \A y \in T : y \in Nat
    BY <2>1
  <2> QED BY <2>2
<1>2. PICK k \in T : \A m \in T : k <= m
  BY <1>1, Least
<1>3. PICK x \in S : k = n - x
  BY <1>2
<1>4. \A y \in S : x >= y
  <2> SUFFICES ASSUME NEW y \in S PROVE x >= y
    OBVIOUS
  <2>1. n - y \in T
    OBVIOUS
  <2>2. n - x <= n - y
    BY <1>2, <1>3, <2>1
  <2> QED BY <1>0, <2>2
<1> QED BY <1>4 DEF Changes!Max

\* An agreement with one field changed has the others as they were.
LEMMA AgreementRewritten ==
  ASSUME NEW a, AgreementRecord(a), NEW v, NEW w
  PROVE  /\ AgreementHas([a EXCEPT !.status = v], v, a.signed, a.contracts, a.registered, a.changes)
         /\ AgreementHas([a EXCEPT !.changes = v], a.status, a.signed, a.contracts, a.registered, v)
         /\ AgreementHas([a EXCEPT !.contracts = v], a.status, a.signed, v, a.registered, a.changes)
BY DEF AgreementRecord, AgreementHas

\* A record of the five fields has them.
LEMMA AgreementFields ==
  ASSUME NEW a, NEW status, NEW signed, NEW contracts, NEW registered, NEW changes,
         AgreementHas(a, status, signed, contracts, registered, changes)
  PROVE  /\ AgreementRecord(a)
         /\ a.status = status /\ a.signed = signed /\ a.contracts = contracts
         /\ a.registered = registered /\ a.changes = changes
BY DEF AgreementRecord, AgreementHas

\* The status of the agreement is patched.
LEMMA PatchAgreementSound ==
  ASSUME ChangesInv, NEW status \in {"active", "terminated"}, Changes!PatchAgreement(status)
  PROVE  ChangesInv'
<1>1. AgreementHas(agreement', status, agreement.signed, agreement.contracts, agreement.registered, agreement.changes)
  BY AgreementRewritten DEF ChangesInv, AgreementTyped, Changes!PatchAgreement
<1>2. /\ AgreementRecord(agreement') /\ agreement'.status = status /\ agreement'.signed = agreement.signed
      /\ agreement'.contracts = agreement.contracts /\ agreement'.registered = agreement.registered
      /\ agreement'.changes = agreement.changes
  BY <1>1, AgreementFields
<1>3. AgreementTyped'
  BY <1>2 DEF ChangesInv, AgreementTyped
<1>4. OnlyLastPending'
  BY <1>2 DEF ChangesInv, OnlyLastPending
<1>5. Changes!HasPending' = Changes!HasPending
  BY <1>2 DEF Changes!HasPending
<1>6. status # "active" => ~ Changes!HasPending
  BY DEF Changes!PatchAgreement
<1>7. Changes!PricesFollowChanges'
  BY <1>2, <1>5, <1>6 DEF ChangesInv, Changes!PricesFollowChanges
<1>8. Changes!Active' = Changes!Active
  BY <1>2 DEF Changes!Active
<1>9. Changes!SigningInOrder'
  BY <1>2, <1>8 DEF ChangesInv, Changes!SigningInOrder, Changes!Clock
<1> QED BY <1>3, <1>4, <1>7, <1>9 DEF ChangesInv

\* A new change is pending, so the contracts stay those of the changes before.
LEMMA ChangePosted ==
  ASSUME ChangesInv, NEW kind \in {"price", "withdrawal"}, NEW m \in Modification,
         NEW d \in Changes!Dates \cup {Changes!Unsigned}, Changes!PostChange(kind, m, d)
  PROVE  ChangesInv'
<1> DEFINE n == Len(agreement.changes)
           change == [kind |-> kind, modification |-> m, signed |-> d, status |-> "pending"]
           changes == Append(agreement.changes, change)
<1>0. /\ AgreementRecord(agreement) /\ agreement.changes \in Seq(Change)
      /\ agreement.status = "active" /\ ~ Changes!HasPending
  BY DEF ChangesInv, AgreementTyped, Changes!PostChange
<1>0a. agreement' = [agreement EXCEPT !.changes = changes]
  BY Zenon DEF Changes!PostChange
<1>1. change \in Change /\ change.status = "pending"
  BY DEF Change
<1> HIDE DEF change
<1>2. /\ n \in Nat /\ changes \in Seq(Change) /\ Len(changes) = n + 1 /\ changes[n + 1] = change
      /\ \A i \in 1 .. n : changes[i] = agreement.changes[i]
      /\ DOMAIN changes = 1 .. n + 1 /\ DOMAIN agreement.changes = 1 .. n
  BY <1>0, <1>1, AppendProperties, LenProperties
<1> HIDE DEF changes
<1>3. AgreementHas(agreement', agreement.status, agreement.signed, agreement.contracts, agreement.registered, changes)
  BY <1>0, <1>0a, AgreementRewritten
<1>4. /\ AgreementRecord(agreement') /\ agreement'.status = agreement.status
      /\ agreement'.signed = agreement.signed
      /\ agreement'.contracts = agreement.contracts /\ agreement'.registered = agreement.registered
      /\ agreement'.changes = changes
  BY <1>3, AgreementFields
<1>5. AgreementTyped'
  BY <1>2, <1>4 DEF ChangesInv, AgreementTyped
<1>6. \A i \in 1 .. n : agreement.changes[i].status # "pending"
  <2> SUFFICES ASSUME NEW i \in 1 .. n, agreement.changes[i].status = "pending" PROVE FALSE
    OBVIOUS
  <2>1. i = n
    BY <1>2 DEF ChangesInv, OnlyLastPending
  <2>2. agreement.changes # <<>> /\ agreement.changes[n].status = "pending"
    BY <2>1, <1>2
  <2> QED BY <1>0, <2>2 DEF Changes!HasPending, Changes!Last
<1>7. OnlyLastPending'
  <2> SUFFICES ASSUME NEW i \in 1 .. n + 1, changes[i].status = "pending" PROVE i = n + 1
    BY <1>2, <1>4 DEF OnlyLastPending
  <2>1. i \notin 1 .. n
    BY <1>2, <1>6
  <2> QED BY <1>2, <2>1
<1>8. Changes!PricesFollowChanges'
  <2> DEFINE old == Changes!Made(agreement.registered, agreement.changes)
             new == Changes!Made(agreement.registered, changes)
  <2>1. agreement.contracts = old[n]
    BY DEF ChangesInv, Changes!PricesFollowChanges
  <2>2. new[n] = old[n]
    BY <1>2, MadeSame
  <2>3. new[n + 1] = After(new, changes, n + 1)
    BY <1>2, MadeIs
  <2> HIDE DEF old, new
  <2>4. n + 1 - 1 = n
    BY <1>2
  <2>5. new[n + 1] = new[n]
    BY <1>1, <1>2, <2>3, <2>4 DEF After
  <2>6. agreement.contracts = new[Len(changes)]
    BY <1>2, <2>1, <2>2, <2>5
  <2>7. \A s \in DOMAIN agreement.contracts : agreement.contracts[s].price > 0
    BY DEF ChangesInv, Changes!PricesFollowChanges
  <2> QED BY <1>0, <1>4, <2>6, <2>7 DEF Changes!PricesFollowChanges, new
<1>9. Changes!SigningInOrder'
  <2>1. Changes!Active' = Changes!Active
    <3>1. Changes!Active' = {i \in 1 .. n + 1 : changes[i].status = "active"}
      BY <1>2, <1>4 DEF Changes!Active
    <3>2. Changes!Active = {i \in 1 .. n : agreement.changes[i].status = "active"}
      BY <1>2 DEF Changes!Active
    <3>3. \A i \in 1 .. n + 1 : i \in 1 .. n \/ i = n + 1
      BY <1>2
    <3>4. \A i \in 1 .. n : i \in 1 .. n + 1
      BY <1>2
    <3> QED BY <1>1, <1>2, <3>1, <3>2, <3>3, <3>4
  <2>2. \A i \in Changes!Active : i \in 1 .. n
    BY <1>2 DEF Changes!Active
  <2> QED BY <1>2, <1>4, <2>1, <2>2 DEF ChangesInv, Changes!SigningInOrder, Changes!Clock
<1> QED BY <1>5, <1>7, <1>8, <1>9 DEF ChangesInv

\* Dates are numbers, and an unsigned change has the date 0.
LEMMA DatesTyped ==
  /\ \A d \in Changes!Dates : d.at \in Nat /\ d.shift \in Int /\ d.shift \in Shifts
  /\ Changes!Unsigned.at = 0 /\ Changes!Unsigned.shift = 0
  /\ \A d \in Changes!Dates \cup {Changes!Unsigned} : d.at \in Nat /\ d.shift \in Int
<1>1. \A x \in Instants : x \in Nat
  BY DatesAssumption
<1>2. \A x \in Shifts : x \in Int
  BY DatesAssumption
<1>3. \A d \in Changes!Dates : d.at \in Instants /\ d.shift \in Shifts
  BY DEF Changes!Dates
<1>4. Changes!Unsigned.at = 0 /\ Changes!Unsigned.shift = 0
  BY DEF Changes!Unsigned
<1>5. \A d \in Changes!Dates : d.at \in Nat /\ d.shift \in Int
  BY <1>1, <1>2, <1>3, Zenon
<1>6. 0 \in Nat /\ 0 \in Int
  OBVIOUS
<1>7. \A d \in Changes!Dates \cup {Changes!Unsigned} : d \in Changes!Dates \/ d = Changes!Unsigned
  OBVIOUS
<1>8. \A d \in Changes!Dates \cup {Changes!Unsigned} : d.at \in Nat /\ d.shift \in Int
  BY <1>4, <1>5, <1>6, <1>7, Zenon
<1> QED BY <1>3, <1>4, <1>5, <1>8

LEMMA ClocksTyped == \A d \in Changes!Dates \cup {Changes!Unsigned} : Changes!Clock(d) \in Int
BY DatesTyped DEF Changes!Clock

\* The last date of signature is that of the last change, if each was signed
\* after those before it.
LEMMA LastSignedIsLast ==
  ASSUME AgreementTyped, Changes!SigningInOrder
  PROVE  /\ Changes!LastSigned \in Changes!Dates \cup {Changes!Unsigned}
         /\ Changes!Clock(Changes!LastSigned) >= Changes!Clock(agreement.signed)
         /\ \A i \in Changes!Active :
              Changes!Clock(Changes!LastSigned) >= Changes!Clock(agreement.changes[i].signed)
<1> DEFINE S == Changes!Active
           n == Len(agreement.changes)
<1>1. n \in Nat /\ DOMAIN agreement.changes = 1 .. n /\ S \in SUBSET (1 .. n)
  BY LenProperties DEF AgreementTyped, Changes!Active
<1>2. /\ agreement.signed \in Changes!Dates \cup {Changes!Unsigned}
      /\ \A i \in 1 .. n : agreement.changes[i].signed \in Changes!Dates \cup {Changes!Unsigned}
  <2>1. \A i \in 1 .. n : agreement.changes[i] \in Change
    BY <1>1 DEF AgreementTyped
  <2> QED BY <2>1 DEF AgreementTyped, Change
<1>3. \A d \in Changes!Dates \cup {Changes!Unsigned} : Changes!Clock(d) \in Int
  BY ClocksTyped
<1> HIDE DEF S
<1>4. CASE S = {}
  <2>1. Changes!LastSigned = agreement.signed
    BY <1>4 DEF Changes!LastSigned, S
  <2>2. Changes!Clock(agreement.signed) \in Int
    BY <1>2, <1>3
  <2> QED BY <1>2, <1>4, <2>1, <2>2 DEF S
<1>5. CASE S # {}
  <2> DEFINE k == Changes!Max(S)
  <2>1. k \in S /\ \A y \in S : k >= y
    BY <1>1, <1>5, Greatest
  <2>2. Changes!LastSigned = agreement.changes[k].signed
    BY <1>5 DEF Changes!LastSigned, S
  <2> HIDE DEF k
  <2>3. ASSUME NEW i \in S
        PROVE  Changes!Clock(agreement.changes[k].signed) >= Changes!Clock(agreement.changes[i].signed)
    <3>1. Changes!Clock(agreement.changes[k].signed) \in Int /\ i \in Nat /\ k \in Nat /\ k >= i
      BY <1>1, <1>2, <1>3, <2>1
    <3>2. CASE i < k
      BY <2>1, <3>2 DEF Changes!SigningInOrder, S
    <3>3. CASE i = k
      BY <3>1, <3>3
    <3> QED BY <3>1, <3>2, <3>3
  <2>4. Changes!Clock(agreement.changes[k].signed) >= Changes!Clock(agreement.signed)
    BY <2>1 DEF Changes!SigningInOrder, S
  <2> QED BY <1>1, <1>2, <2>1, <2>2, <2>3, <2>4 DEF S
<1> QED BY <1>4, <1>5

\* The last change, as it is patched.
Rewritten(x, m, d, v) == [x EXCEPT !.modification = m, !.signed = d, !.status = v]

\* It keeps its kind.
LEMMA ChangeRewritten ==
  ASSUME NEW x \in Change, NEW m, NEW d, NEW v
  PROVE  Rewritten(x, m, d, v)
           = [kind |-> x.kind, modification |-> m, signed |-> d, status |-> v]
<1> DEFINE dates == Changes!Dates \cup {Changes!Unsigned}
<1> HIDE DEF dates
<1>1. x \in [kind : {"price", "withdrawal"}, modification : Modification,
             signed : dates, status : {"pending", "active", "cancelled"}]
  BY Zenon DEF Change, dates
<1> DEFINE Rec(m1, d1, v1) == [kind |-> x.kind, modification |-> m1, signed |-> d1, status |-> v1]
<1>2. x = Rec(x.modification, x.signed, x.status)
  BY <1>1
<1>3. \A m1, d1, v1 : /\ [Rec(m1, d1, v1) EXCEPT !.modification = m] = Rec(m, d1, v1)
                      /\ [Rec(m1, d1, v1) EXCEPT !.signed = d] = Rec(m1, d, v1)
                      /\ [Rec(m1, d1, v1) EXCEPT !.status = v] = Rec(m1, d1, v)
  OBVIOUS
<1> HIDE DEF Rec
<1>4. [x EXCEPT !.modification = m] = Rec(m, x.signed, x.status)
  <2>1. [Rec(x.modification, x.signed, x.status) EXCEPT !.modification = m] = Rec(m, x.signed, x.status)
    BY <1>3
  <2> QED BY <1>2, <2>1
<1>5. [x EXCEPT !.modification = m, !.signed = d] = Rec(m, d, x.status)
  <2>1. [x EXCEPT !.modification = m, !.signed = d] = [[x EXCEPT !.modification = m] EXCEPT !.signed = d]
    BY Zenon
  <2>2. [Rec(m, x.signed, x.status) EXCEPT !.signed = d] = Rec(m, d, x.status)
    BY <1>3
  <2> QED BY <1>4, <2>1, <2>2
<1>6. [x EXCEPT !.modification = m, !.signed = d, !.status = v] = Rec(m, d, v)
  <2>1. [x EXCEPT !.modification = m, !.signed = d, !.status = v]
          = [[x EXCEPT !.modification = m, !.signed = d] EXCEPT !.status = v]
    BY Zenon
  <2>2. [Rec(m, d, x.status) EXCEPT !.status = v] = Rec(m, d, v)
    BY <1>3
  <2> QED BY <1>5, <2>1, <2>2
<1> QED BY <1>6, Zenon DEF Rec, Rewritten

\* The last change is patched; when it becomes active the contracts are modified
\* by it, and its date is written later than those of the changes in force.
LEMMA ChangePatched ==
  ASSUME ChangesInv, NEW status \in {"pending", "active", "cancelled"}, NEW m \in Modification,
         NEW d \in Changes!Dates \cup {Changes!Unsigned}, Changes!PatchChange(status, m, d)
  PROVE  ChangesInv'
<1> DEFINE n == Len(agreement.changes)
           change == [kind |-> agreement.changes[n].kind, modification |-> m, signed |-> d, status |-> status]
           changes == [agreement.changes EXCEPT ![n] = change]
           contracts == IF status = "active" THEN Changes!Modified(agreement.contracts, m) ELSE agreement.contracts
<1>0. /\ AgreementRecord(agreement) /\ agreement.changes \in Seq(Change)
      /\ agreement.changes # <<>> /\ agreement.changes[n].status = "pending"
      /\ agreement.contracts \in ContractsOf
  BY DEF ChangesInv, AgreementTyped, Changes!PatchChange, Changes!HasPending, Changes!Last
<1>1. n \in Nat /\ n > 0 /\ n \in 1 .. n /\ DOMAIN agreement.changes = 1 .. n
  <2>1. n \in Nat /\ DOMAIN agreement.changes = 1 .. n
    BY <1>0, LenProperties
  <2>2. n # 0
    BY <1>0, EmptySeq
  <2> QED BY <2>1, <2>2
<1>2. change \in Change /\ change.modification = m /\ change.signed = d /\ change.status = status
  <2>1. agreement.changes[n] \in Change
    BY <1>0, <1>1
  <2>2. agreement.changes[n].kind \in {"price", "withdrawal"}
    BY <2>1 DEF Change
  <2> DEFINE k == agreement.changes[n].kind
             dates == Changes!Dates \cup {Changes!Unsigned}
             c == [kind |-> k, modification |-> m, signed |-> d, status |-> status]
  <2>3. d \in dates
    OBVIOUS
  <2> HIDE DEF k, dates
  <2>4. k \in {"price", "withdrawal"} => c \in [kind : {"price", "withdrawal"}, modification : Modification,
                                              signed : dates, status : {"pending", "active", "cancelled"}]
    BY <2>3
  <2>5. c \in Change
    BY <2>2, <2>4 DEF Change, k, dates
  <2> QED BY <2>5 DEF k
<1>3. [agreement.changes[n] EXCEPT !.modification = m, !.signed = d, !.status = status] = change
  <2>1. agreement.changes[n] \in Change
    BY <1>0, <1>1
  <2>2. Rewritten(agreement.changes[n], m, d, status) = change
    <3> HIDE DEF n
    <3> QED BY <2>1, ChangeRewritten
  <2> QED BY <2>2, Zenon DEF Rewritten
<1>4. agreement' = [[agreement EXCEPT !.changes = changes] EXCEPT !.contracts = contracts]
  <2>1. agreement' = [agreement EXCEPT
          !.changes[n] = [agreement.changes[n] EXCEPT !.modification = m, !.signed = d, !.status = status],
          !.contracts = contracts]
    BY Zenon DEF Changes!PatchChange, Changes!Last
  <2> HIDE DEF contracts
  <2>2. agreement' = [agreement EXCEPT !.changes[n] = change, !.contracts = contracts]
    BY <1>3, <2>1
  <2> HIDE DEF change
  <2> QED BY <2>2, Zenon
<1>5. /\ changes \in Seq(Change) /\ Len(changes) = n /\ DOMAIN changes = 1 .. n
      /\ changes[n] = change
      /\ \A i \in 1 .. n : i # n => changes[i] = agreement.changes[i]
  <2> HIDE DEF change
  <2> QED BY <1>0, <1>1, <1>2
<1>6. contracts \in ContractsOf
  BY <1>0, ModifiedFits
<1> HIDE DEF changes, contracts
<1>7. AgreementHas(agreement', agreement.status, agreement.signed, contracts, agreement.registered, changes)
  <2> DEFINE b == [agreement EXCEPT !.changes = changes]
  <2>1. AgreementHas(b, agreement.status, agreement.signed, agreement.contracts, agreement.registered, changes)
    BY <1>0, AgreementRewritten
  <2> HIDE DEF b
  <2>2. /\ AgreementRecord(b) /\ b.status = agreement.status /\ b.signed = agreement.signed
        /\ b.registered = agreement.registered /\ b.changes = changes
    BY <2>1, AgreementFields
  <2>3. AgreementHas([b EXCEPT !.contracts = contracts], b.status, b.signed, contracts, b.registered, b.changes)
    BY <2>2, AgreementRewritten
  <2> QED BY <1>4, <2>2, <2>3 DEF b
<1>8. /\ AgreementRecord(agreement') /\ agreement'.status = agreement.status
      /\ agreement'.signed = agreement.signed
      /\ agreement'.contracts = contracts /\ agreement'.registered = agreement.registered
      /\ agreement'.changes = changes
  BY <1>7, AgreementFields
<1>9. AgreementTyped'
  BY <1>5, <1>6, <1>8 DEF ChangesInv, AgreementTyped
<1>10. \A i \in 1 .. n : i # n => agreement.changes[i].status # "pending"
  BY <1>1 DEF ChangesInv, OnlyLastPending
<1>11. OnlyLastPending'
  <2> SUFFICES ASSUME NEW i \in 1 .. n, changes[i].status = "pending" PROVE i = n
    BY <1>5, <1>8 DEF OnlyLastPending
  <2> QED BY <1>5, <1>10
<1>12. agreement.status = "active"
  <2>1. agreement.status # "active" => ~ Changes!HasPending
    BY DEF ChangesInv, Changes!PricesFollowChanges
  <2>2. Changes!HasPending
    BY DEF Changes!PatchChange
  <2> QED BY <2>1, <2>2
<1>13. contracts = Changes!Made(agreement.registered, changes)[n]
  <2> DEFINE old == Changes!Made(agreement.registered, agreement.changes)
             new == Changes!Made(agreement.registered, changes)
  <2>1. agreement.contracts = old[n]
    BY DEF ChangesInv, Changes!PricesFollowChanges
  <2>2. new[n - 1] = old[n - 1]
    <3>1. n - 1 \in Nat /\ n - 1 <= n /\ \A i \in 1 .. n - 1 : i \in 1 .. n /\ i # n
      BY <1>1
    <3>2. \A i \in 1 .. n - 1 : changes[i] = agreement.changes[i]
      BY <1>5, <3>1
    <3>3. n - 1 <= Len(agreement.changes) /\ n - 1 <= Len(changes)
          /\ Len(changes) \in Nat /\ Len(agreement.changes) \in Nat
      BY <1>1, <1>5, <3>1
    <3>4. \A i \in 1 .. n - 1 : agreement.changes[i] = changes[i]
      BY <3>2
    <3> HIDE DEF old, new, n
    <3>5. Changes!Made(agreement.registered, agreement.changes)[n - 1]
            = Changes!Made(agreement.registered, changes)[n - 1]
      BY <3>1, <3>3, <3>4, MadeSame
    <3> QED BY <3>5 DEF old, new
  <2>3. new[n] = After(new, changes, n) /\ old[n] = After(old, agreement.changes, n)
    BY <1>1, <1>5, MadeIs
  <2> HIDE DEF old, new, change
  <2>4. old[n] = old[n - 1]
    BY <1>0, <2>3 DEF After
  <2>5. new[n] = IF status = "active" THEN Changes!Modified(agreement.contracts, m) ELSE agreement.contracts
    BY <1>2, <1>5, <2>1, <2>2, <2>3, <2>4 DEF After
  <2> QED BY <2>5 DEF new, contracts
<1>14. \A s \in DOMAIN contracts : contracts[s].price > 0
  <2>1. CASE status = "active"
    <3>1. ~ Changes!Refused(agreement.contracts, m)
      BY <2>1 DEF Changes!PatchChange
    <3>2. contracts = Changes!Modified(agreement.contracts, m)
      BY <2>1 DEF contracts
    <3>3. DOMAIN contracts = DOMAIN agreement.contracts
      BY <3>2, Zenon DEF Changes!Modified
    <3>4. \A s \in DOMAIN contracts : ~ (contracts[s].price <= 0)
      BY <3>1, <3>2, <3>3, Zenon DEF Changes!Refused
    <3>5. \A s \in DOMAIN contracts : contracts[s].price \in Int
      BY <1>6, ContractsTyped DEF Contract
    <3> QED BY <3>4, <3>5
  <2>2. CASE status # "active"
    BY <2>2 DEF ChangesInv, Changes!PricesFollowChanges, contracts
  <2> QED BY <2>1, <2>2
<1>15. Changes!PricesFollowChanges'
  BY <1>5, <1>8, <1>12, <1>13, <1>14 DEF Changes!PricesFollowChanges
<1>16. Changes!SigningInOrder'
  <2>0. Changes!SigningInOrder /\ AgreementTyped
    BY DEF ChangesInv
  <2>1. \A i \in Changes!Active' : i \in 1 .. n /\ (i # n => i \in Changes!Active /\ changes[i] = agreement.changes[i])
    BY <1>1, <1>5, <1>8 DEF Changes!Active
  <2> DEFINE C(x) == Changes!Clock(x)
             last == Changes!LastSigned
  <2>2. last \in Changes!Dates \cup {Changes!Unsigned}
    BY <2>0, LastSignedIsLast
  <2>3. /\ C(last) >= C(agreement.signed)
        /\ \A i \in Changes!Active : C(last) >= C(agreement.changes[i].signed)
    BY <2>0, LastSignedIsLast
  <2>4. C(agreement.signed) \in Int /\ \A i \in 1 .. n : C(agreement.changes[i].signed) \in Int
    <3>1. \A i \in 1 .. n : agreement.changes[i] \in Change
      BY <1>0, <1>1
    <3>2. \A i \in 1 .. n : agreement.changes[i].signed \in Changes!Dates \cup {Changes!Unsigned}
      BY <3>1 DEF Change
    <3>3. agreement.signed \in Changes!Dates \cup {Changes!Unsigned}
      BY <2>0 DEF AgreementTyped
    <3> QED BY <3>2, <3>3, ClocksTyped
  <2>5. C(d) \in Int /\ C(last) \in Int
    BY <2>2, ClocksTyped
  <2>6. changes[n].signed = d
    BY <1>2, <1>5
  <2>7. ASSUME n \in Changes!Active' PROVE C(d) >= C(last)
    <3>1. status = "active"
      BY <1>2, <1>5, <1>8, <2>7 DEF Changes!Active
    <3>2. ~ Changes!TextBefore(d, last)
      BY <3>1 DEF Changes!PatchChange
    <3>3. ~ (C(d) < C(last))
      BY <3>2 DEF Changes!TextBefore
    <3> HIDE DEF C, last
    <3> QED BY <2>5, <3>3
  <2>8. \A x, y : x = y => C(x) = C(y)
    OBVIOUS
  <2> SUFFICES ASSUME NEW i \in Changes!Active'
               PROVE  /\ C(changes[i].signed) >= C(agreement.signed)
                      /\ \A j \in Changes!Active' : j < i => C(changes[i].signed) >= C(changes[j].signed)
    BY <1>8 DEF Changes!SigningInOrder, Changes!Clock
  <2>9. \A j \in Changes!Active : C(agreement.changes[j].signed) >= C(agreement.signed)
          /\ \A k \in Changes!Active : k < j => C(agreement.changes[j].signed) >= C(agreement.changes[k].signed)
    BY <2>0 DEF Changes!SigningInOrder
  <2> HIDE DEF C, last
  <2>10. CASE i = n
    <3>1. C(d) >= C(agreement.signed)
      BY <2>3, <2>4, <2>5, <2>7, <2>10
    <3>2. ASSUME NEW j \in Changes!Active', j < i PROVE C(d) >= C(changes[j].signed)
      <4>1. j # n /\ j \in 1 .. n
        BY <1>1, <2>1, <2>10, <3>2
      <4>2. j \in Changes!Active /\ changes[j] = agreement.changes[j]
        BY <2>1, <4>1
      <4>3. C(last) >= C(agreement.changes[j].signed)
        BY <2>3, <4>2
      <4> QED BY <2>4, <2>5, <2>7, <2>10, <4>1, <4>2, <4>3
    <3> QED BY <2>6, <2>10, <3>1, <3>2
  <2>11. CASE i # n
    <3>1. i \in Changes!Active /\ changes[i] = agreement.changes[i] /\ i \in 1 .. n
      BY <2>1, <2>11
    <3>2. ASSUME NEW j \in Changes!Active', j < i PROVE C(changes[i].signed) >= C(changes[j].signed)
      <4>1. j # n /\ j \in 1 .. n
        BY <1>1, <2>1, <3>1, <3>2
      <4>2. j \in Changes!Active /\ changes[j] = agreement.changes[j]
        BY <2>1, <4>1
      <4> QED BY <2>9, <3>1, <3>2, <4>2
    <3> QED BY <2>9, <3>1, <3>2
  <2> QED BY <2>10, <2>11
<1> QED BY <1>9, <1>11, <1>15, <1>16 DEF ChangesInv

\* Every step of the agreement keeps its invariant.
LEMMA AgreementNextSound ==
  ASSUME ChangesInv, Changes!AgreementNext
  PROVE  ChangesInv'
<1>0. AgreementTyped
  BY DEF ChangesInv
<1>1. CASE \E status \in {"active", "terminated"} : Changes!PatchAgreement(status)
  BY <1>1, PatchAgreementSound
<1>2. CASE \E kind \in {"price", "withdrawal"}, d \in Changes!Dates \cup {Changes!Unsigned} :
             \E m \in Changes!ModificationsOf(kind) : Changes!PostChange(kind, m, d)
  BY <1>0, <1>2, ModificationsTyped, ChangePosted
<1>3. CASE \E status \in {"pending", "active", "cancelled"}, d \in Changes!Dates \cup {Changes!Unsigned},
              m \in Changes!ModificationsOf(Changes!Last(agreement.changes).kind) : Changes!PatchChange(status, m, d)
  BY <1>0, <1>3, ModificationsTyped, ChangePatched
<1> QED BY <1>1, <1>2, <1>3, Zenon DEF Changes!AgreementNext

\* What is registered is sound if its prices are set.
LEMMA RegisteredSound ==
  ASSUME NEW c \in ContractsOf, \A s \in DOMAIN c : c[s].price > 0,
         NEW d \in Changes!Dates \cup {Changes!Unsigned},
         agreement' = Changes!Registered(c, d)
  PROVE  ChangesInv'
<1>1. AgreementHas(agreement', "active", d, c, c, <<>>)
  BY DEF Changes!Registered, AgreementHas
<1>2. /\ AgreementRecord(agreement') /\ agreement'.status = "active" /\ agreement'.signed = d
      /\ agreement'.contracts = c /\ agreement'.registered = c /\ agreement'.changes = <<>>
  BY <1>1, AgreementFields
<1>3. AgreementTyped'
  BY <1>2 DEF AgreementTyped
<1>4. DOMAIN agreement'.changes = {} /\ Len(agreement'.changes) = 0
  BY <1>2
<1>5. OnlyLastPending'
  BY <1>4 DEF OnlyLastPending
<1>6. Changes!Made(c, <<>>)[0] = c
  <2> DEFINE e == <<>>
  <2>1. Len(e) \in Nat
    OBVIOUS
  <2> HIDE DEF e
  <2>2. Changes!Made(c, e)[0] = c
    BY <2>1, MadeIs
  <2> QED BY <2>2 DEF e
<1>7. Changes!PricesFollowChanges'
  <2>1. agreement'.contracts = Changes!Made(agreement'.registered, agreement'.changes)[Len(agreement'.changes)]
    BY <1>2, <1>4, <1>6, Zenon
  <2>2. \A s \in DOMAIN agreement'.contracts : agreement'.contracts[s].price > 0
    BY <1>2
  <2>3. agreement'.status # "active" => ~ Changes!HasPending'
    BY <1>2
  <2> QED BY <2>1, <2>2, <2>3, Zenon DEF Changes!PricesFollowChanges
<1>8. Changes!SigningInOrder'
  BY <1>4 DEF Changes!SigningInOrder, Changes!Active
<1> QED BY <1>3, <1>5, <1>7, <1>8 DEF ChangesInv

\* No contracts are contracts of no bids.
LEMMA NoContracts == <<>> \in ContractsOf /\ DOMAIN <<>> = {}
<1>1. <<>> \in [{} -> Contract]
  OBVIOUS
<1> QED BY <1>1 DEF ContractsOf

\* The invariant holds before there is an agreement.
LEMMA NoAgreementSound ==
  ASSUME agreement = Changes!NoAgreementYet
  PROVE  ChangesInv
<1>1. AgreementHas(agreement, "none", Changes!Unsigned, <<>>, <<>>, <<>>)
  BY DEF Changes!NoAgreementYet, AgreementHas
<1>2. /\ AgreementRecord(agreement) /\ agreement.status = "none" /\ agreement.signed = Changes!Unsigned
      /\ agreement.contracts = <<>> /\ agreement.registered = <<>> /\ agreement.changes = <<>>
  BY <1>1, AgreementFields
<1>3. AgreementTyped
  BY <1>2, NoContracts DEF AgreementTyped
<1>4. DOMAIN agreement.changes = {} /\ Len(agreement.changes) = 0 /\ DOMAIN agreement.contracts = {}
  BY <1>2
<1>5. OnlyLastPending
  BY <1>4 DEF OnlyLastPending
<1>6. Changes!Made(<<>>, <<>>)[0] = <<>>
  <2> DEFINE e == <<>>
  <2>1. Len(e) \in Nat
    OBVIOUS
  <2> HIDE DEF e
  <2>2. Changes!Made(e, e)[0] = e
    BY <2>1, MadeIs
  <2> QED BY <2>2 DEF e
<1>7. Changes!PricesFollowChanges
  <2>1. agreement.contracts = Changes!Made(agreement.registered, agreement.changes)[Len(agreement.changes)]
    BY <1>2, <1>4, <1>6, Zenon
  <2>2. ~ Changes!HasPending
    BY <1>2 DEF Changes!HasPending
  <2> QED BY <1>4, <2>1, <2>2, Zenon DEF Changes!PricesFollowChanges
<1>8. Changes!SigningInOrder
  BY <1>4 DEF Changes!SigningInOrder, Changes!Active
<1> QED BY <1>3, <1>5, <1>7, <1>8 DEF ChangesInv

\* What a selection copies is a copy.
LEMMA CopySound ==
  ASSUME AgreementTyped
  PROVE  CopyOfAgreement \in Copies
<1>1. PICK p \in BOOLEAN : p = Changes!HasPending
  BY DEF Changes!HasPending
<1>2. CopyOfAgreement = [status |-> agreement.status, contracts |-> agreement.contracts, pending |-> p]
  BY <1>1, Zenon DEF CopyOfAgreement
<1> QED BY <1>2 DEF AgreementTyped, Copies

\* What ChangesInv says of the agreement is what the run checks of it.
LEMMA ChangesAsChecked ==
  ASSUME ChangesInv
  PROVE  Changes!TypeOK /\ Changes!PricesFollowChanges
<1>1. AgreementTyped /\ Changes!PricesFollowChanges
  BY DEF ChangesInv
<1>2. \A s \in DOMAIN agreement.contracts :
        agreement.contracts[s].status \in {"active", "unsuccessful"} /\ agreement.contracts[s].price \in Int
  BY <1>1, ContractsTyped DEF AgreementTyped, Contract
<1>3. \A i \in DOMAIN agreement.changes : agreement.changes[i].status \in {"pending", "active", "cancelled"}
  <2>1. \A i \in DOMAIN agreement.changes : agreement.changes[i] \in Change
    BY <1>1 DEF AgreementTyped
  <2> QED BY <2>1 DEF Change
<1> QED BY <1>1, <1>2, <1>3 DEF AgreementTyped, Changes!TypeOK

-----------------------------------------------------------------------------
(* The tender.                                                             *)

\* What the tender holds.
TenderStatus == {"active.auction", "active.awarded"} \cup Deciding \cup Finished
TenderAward ==
  [bid : Bids, status : {"pending", "active", "unsuccessful", "cancelled"},
   period : {"unset", "open", "running", "over"}, complaint : ComplaintStatus \cup {"none"}]
Agreed == [status : {"none", "pending", "active", "unsuccessful", "cancelled"}, contracts : ContractsOf]

\* The tender as a record of its fields.
TenderHas(t, status, period, awards, agreed, clarified, cancelling, withdrawn) ==
  t = [status |-> status, period |-> period, awards |-> awards, agreement |-> agreed,
       clarified |-> clarified, cancelling |-> cancelling, withdrawn |-> withdrawn]
TenderRecord(t) ==
  TenderHas(t, t.status, t.period, t.awards, t.agreement, t.clarified, t.cancelling, t.withdrawn)
\* The tender has its fields, and each is of its type.
TenderTyped(t) ==
  /\ TenderRecord(t)
  /\ t.status \in TenderStatus /\ t.period \in {"unset", "running", "over"}
  /\ t.awards \in Seq(TenderAward) /\ t.agreement \in Agreed
  /\ t.cancelling \in {Whole, Lot, Nobody}

\* An award is live until it is rejected or cancelled; a bid has one at most.
Live == {"pending", "active"}
LiveOnce(t) ==
  \A i, j \in DOMAIN t.awards :
    t.awards[i].status \in Live /\ t.awards[j].status \in Live /\ t.awards[i].bid = t.awards[j].bid => i = j
\* The bids with a live award are the best of those that were not rejected.
BidsFit(t) == LiveOnce(t) /\ BidsWith(t, Live) = Best(Bids \ BidsWith(t, {"unsuccessful"}))

\* In stand-still every award is decided, and the complaints about those that
\* are active may be made as long as the period of the tender runs.
StandStillFits(t) ==
  /\ t.period # "unset"
  /\ \A i \in DOMAIN t.awards :
       /\ t.awards[i].status # "pending"
       /\ t.awards[i].status = "active" => t.awards[i].period = t.period

\* The agreement is with all who won, at no more than their bids, and was made
\* when there was nothing to decide or complain about.
AgreementFits(t) ==
  LET contracts == t.agreement.contracts
      active == {b \in DOMAIN contracts : contracts[b].status = "active"} IN
    /\ DOMAIN contracts = BidsWith(t, {"active"}) /\ Cardinality(DOMAIN contracts) >= MinBids
    /\ ~ Disputed(t) /\ BidsWith(t, {"pending"}) = {}
    /\ \A b \in DOMAIN contracts : contracts[b].price >= 0 /\ contracts[b].price <= b
    /\ \A i \in DOMAIN t.awards : t.awards[i].status = "active" => t.awards[i].period = "over"
    /\ t.agreement.status = "active" =>
         Cardinality(active) >= MinBids /\ \A b \in active : contracts[b].price # 0

\* The invariant of the tender.
TenderInv(t) ==
  /\ TenderTyped(t)
  /\ t.status = "active.auction" => t.awards = <<>>
  /\ t.status \notin {"active.auction", "cancelled"} => BidsFit(t)
  /\ t.status = "active.qualification.stand-still" => StandStillFits(t)
  /\ t.status \in {"active.auction"} \cup Deciding => t.agreement.status = "none"
  /\ t.status = "active.awarded" => t.agreement.status = "pending"
  /\ t.status = "complete" => t.agreement.status = "active"
  /\ t.agreement.status # "none" => AgreementFits(t)

\* A tender with one field changed has the others as they were.
LEMMA TenderRewritten ==
  ASSUME NEW t, TenderRecord(t), NEW v
  PROVE  /\ TenderHas([t EXCEPT !.status = v],
                      v, t.period, t.awards, t.agreement, t.clarified, t.cancelling, t.withdrawn)
         /\ TenderHas([t EXCEPT !.period = v],
                      t.status, v, t.awards, t.agreement, t.clarified, t.cancelling, t.withdrawn)
         /\ TenderHas([t EXCEPT !.awards = v],
                      t.status, t.period, v, t.agreement, t.clarified, t.cancelling, t.withdrawn)
         /\ TenderHas([t EXCEPT !.agreement = v],
                      t.status, t.period, t.awards, v, t.clarified, t.cancelling, t.withdrawn)
         /\ TenderHas([t EXCEPT !.clarified = v],
                      t.status, t.period, t.awards, t.agreement, v, t.cancelling, t.withdrawn)
         /\ TenderHas([t EXCEPT !.cancelling = v],
                      t.status, t.period, t.awards, t.agreement, t.clarified, v, t.withdrawn)
         /\ TenderHas([t EXCEPT !.withdrawn = v],
                      t.status, t.period, t.awards, t.agreement, t.clarified, t.cancelling, v)
BY DEF TenderRecord, TenderHas

\* A record of the eight fields has them.
LEMMA TenderFields ==
  ASSUME NEW t, NEW status, NEW period, NEW awards, NEW agreed, NEW clarified, NEW cancelling, NEW withdrawn,
         TenderHas(t, status, period, awards, agreed, clarified, cancelling, withdrawn)
  PROVE  /\ TenderRecord(t)
         /\ t.status = status /\ t.period = period /\ t.awards = awards /\ t.agreement = agreed
         /\ t.clarified = clarified /\ t.cancelling = cancelling /\ t.withdrawn = withdrawn
BY DEF TenderRecord, TenderHas

\* BidsWith, award by award.
LEMMA BidsWithIs ==
  ASSUME NEW t, NEW statuses, NEW b
  PROVE  b \in BidsWith(t, statuses) <=>
           \E i \in DOMAIN t.awards : t.awards[i].status \in statuses /\ b = t.awards[i].bid
BY DEF BidsWith, Awards, ToSet

\* Disputed, award by award.
LEMMA DisputedIs ==
  ASSUME NEW t
  PROVE  Disputed(t) <=> \E i \in DOMAIN t.awards : t.awards[i].complaint \in Undecided
BY DEF Disputed, Awards, ToSet

\* Bids are numbers, finitely many, and Nobody is none of them.
LEMMA BidsAreNumbers ==
  ASSUME NEW S \in SUBSET Bids
  PROVE  S \in SUBSET Nat /\ IsFiniteSet(S) /\ (\A b \in S : b \in Nat) /\ Nobody \notin S
<1>1. IsFiniteSet(Bids)
  BY BidsAssumption, FS_Interval DEF Bids
<1>2. IsFiniteSet(S)
  BY <1>1, FS_Subset
<1>3. \A b \in Bids : b \in Nat
  BY DEF Bids
<1> QED BY <1>2, <1>3, NobodyAssumption

\* No more bids are the best than there may be.
LEMMA BestBounds ==
  ASSUME NEW S \in SUBSET Bids
  PROVE  /\ Best(S) \in SUBSET S /\ IsFiniteSet(Best(S))
         /\ Cardinality(Best(S)) <= MaxAwardsCount
<1> DEFINE B == Best(S)
           n == Cardinality(B)
<1>1. B \in SUBSET S
  BY DEF Best
<1>2. B \in SUBSET Bids
  BY <1>1
<1> HIDE DEF B
<1>3. B \in SUBSET Nat /\ IsFiniteSet(B)
  BY <1>2, BidsAreNumbers
<1>4. n \in Nat /\ MaxAwardsCount \in Nat
  BY <1>3, FS_CardinalityType, BidsAssumption
<1>5. n <= MaxAwardsCount
  <2>1. CASE n = 0
    BY <1>4, <2>1
  <2>2. CASE n # 0
    <3> DEFINE s == Ascending(B)
               last == s[n]
               before == {c \in S : c < last}
    <3>1. /\ s \in [1 .. n -> B]
          /\ \A i, j \in 1 .. n : i < j => s[i] < s[j]
          /\ \A x \in B : \E i \in 1 .. n : s[i] = x
      BY <1>3, AscendingSorts
    <3> HIDE DEF s, n
    <3>2. n \in 1 .. n /\ \A i \in 1 .. n : i = n \/ i < n
      BY <1>4, <2>2
    <3>3. last \in B
      BY <3>1, <3>2
    <3>4. \A x \in B : x # last => x < last
      BY <3>1, <3>2
    <3> HIDE DEF last
    <3>5. B \ {last} \in SUBSET before
      BY <1>1, <3>4
    <3>6. before \in SUBSET Bids
      BY <1>1
    <3> HIDE DEF before
    <3>7. IsFiniteSet(before)
      BY <3>6, BidsAreNumbers
    <3>8. Cardinality(B \ {last}) <= Cardinality(before)
      BY <3>5, <3>7, FS_Subset
    <3>9. Cardinality(B \ {last}) = n - 1
      BY <1>3, <3>3, FS_RemoveElement DEF n
    <3>10. Cardinality(before) < MaxAwardsCount
      BY <3>3 DEF Best, B, before
    <3>11. Cardinality(before) \in Nat
      BY <3>7, FS_CardinalityType
    <3> QED BY <1>4, <3>8, <3>9, <3>10, <3>11
  <2> QED BY <2>1, <2>2
<1> QED BY <1>1, <1>3, <1>5 DEF B

\* Who is among the best stays so when there are fewer bids.
LEMMA BestOfFewer ==
  ASSUME NEW S \in SUBSET Bids, NEW T \in SUBSET S, NEW b \in Best(S), b \in T
  PROVE  b \in Best(T)
<1> DEFINE before(X) == {c \in X : c < b}
<1>1. before(T) \in SUBSET before(S)
  OBVIOUS
<1>2. IsFiniteSet(before(S)) /\ IsFiniteSet(before(T))
  BY BidsAreNumbers
<1>3. Cardinality(before(T)) <= Cardinality(before(S)) /\ Cardinality(before(S)) < MaxAwardsCount
  <2>1. Cardinality(before(S)) < MaxAwardsCount
    BY DEF Best
  <2> HIDE DEF before
  <2> QED BY <1>1, <1>2, <2>1, FS_Subset
<1>4. Cardinality(before(T)) \in Nat /\ Cardinality(before(S)) \in Nat /\ MaxAwardsCount \in Nat
  <2> HIDE DEF before
  <2> QED BY <1>2, FS_CardinalityType, BidsAssumption
<1>5. Cardinality(before(T)) < MaxAwardsCount
  <2> HIDE DEF before
  <2> QED BY <1>3, <1>4
<1> QED BY <1>5 DEF Best

\* What a list appended to another has of both.
LEMMA ConcatParts ==
  ASSUME NEW S, NEW p \in Seq(S), NEW q \in Seq(S)
  PROVE  /\ p \o q \in Seq(S) /\ DOMAIN (p \o q) = 1 .. Len(p) + Len(q)
         /\ \A i \in 1 .. Len(p) : (p \o q)[i] = p[i] /\ i \in 1 .. Len(p) + Len(q)
         /\ \A k \in 1 .. Len(q) : (p \o q)[Len(p) + k] = q[k] /\ Len(p) + k \in 1 .. Len(p) + Len(q)
         /\ \A i \in 1 .. Len(p) + Len(q) : i \in 1 .. Len(p) \/ \E k \in 1 .. Len(q) : i = Len(p) + k
<1> DEFINE m == Len(p)
           n == Len(q)
           s == p \o q
<1>1. m \in Nat /\ n \in Nat
  BY LenProperties
<1>2. /\ s \in Seq(S) /\ Len(s) = m + n
      /\ \A i \in 1 .. m + n : s[i] = IF i <= m THEN p[i] ELSE q[i - m]
  BY ConcatProperties
<1> HIDE DEF m, n, s
<1>3. DOMAIN s = 1 .. m + n
  BY <1>2, LenProperties
<1>4. \A i \in 1 .. m : i <= m /\ i \in 1 .. m + n
  BY <1>1
<1>5. \A i \in 1 .. m : s[i] = p[i]
  BY <1>2, <1>4
<1>6. ASSUME NEW k \in 1 .. n PROVE s[m + k] = q[k] /\ m + k \in 1 .. m + n
  <2>1. m + k \in 1 .. m + n /\ ~ (m + k <= m) /\ m + k - m = k
    BY <1>1
  <2>2. \A i \in 1 .. m + n : i - m = k /\ ~ (i <= m) => s[i] = q[k]
    BY <1>2
  <2> QED BY <1>1, <2>1, <2>2
<1>7. ASSUME NEW i \in 1 .. m + n, i \notin 1 .. m PROVE \E k \in 1 .. n : i = m + k
  <2>1. i - m \in 1 .. n /\ i = m + (i - m)
    BY <1>1, <1>7
  <2> QED BY <2>1
<1> QED BY <1>2, <1>3, <1>4, <1>5, <1>6, <1>7 DEF m, n, s

\* The tender that AddNextAwards returns, with the awards given.
NextFields(t, awards, r) ==
  TenderHas(r, "active.qualification", "unset", awards, t.agreement, t.clarified, t.cancelling, t.withdrawn)

\* When some are to be made, the next awards make all of the best bids live.
LEMMA NextAwardsSound ==
  ASSUME NEW t, TenderTyped(t), LiveOnce(t), NEW only, only = Nobody \/ only \in Bids,
         NEW chosen, chosen = IF only # Nobody THEN {only} ELSE Bids \ BidsWith(t, {"unsuccessful"}),
         t.awards = <<>> \/ \E i \in DOMAIN t.awards : t.awards[i].status \notin Live,
         BidsWith(t, Live) \cup Best(chosen) = Best(Bids \ BidsWith(t, {"unsuccessful"}))
  PROVE  LET r == AddNextAwards(t, only) IN
         \/ r = t /\ BidsFit(t)
         \/ NextFields(t, r.awards, r) /\ TenderTyped(r) /\ BidsFit(r)
<1> DEFINE live == BidsWith(t, Live)
           X == Best(chosen) \ live
           n == Cardinality(X)
           new == Ascending(X)
           added == [i \in DOMAIN new |-> NewAward(new[i])]
           awards == t.awards \o added
           len == Len(t.awards)
           r == AddNextAwards(t, only)
<1>1. chosen \in SUBSET Bids
  OBVIOUS
<1>2. X \in SUBSET Bids
  BY <1>1, BestBounds
<1> HIDE DEF X, new
<1>3. X \in SUBSET Nat /\ IsFiniteSet(X) /\ n \in Nat
  BY <1>2, BidsAreNumbers, FS_CardinalityType
<1>4. /\ new \in [1 .. n -> X] /\ DOMAIN new = 1 .. n
      /\ \A i, j \in 1 .. n : i < j => new[i] < new[j]
      /\ \A x \in X : \E i \in 1 .. n : new[i] = x
  BY <1>3, AscendingSorts DEF new
<1>5. \A i, j \in 1 .. n : new[i] = new[j] => i = j
  <2> SUFFICES ASSUME NEW i \in 1 .. n, NEW j \in 1 .. n, new[i] = new[j] PROVE i = j
    OBVIOUS
  <2>1. new[i] \in X /\ new[j] \in X
    BY <1>4
  <2>2. new[i] \in Nat /\ new[j] \in Nat
    BY <1>3, <2>1
  <2>3. ~ (i < j) /\ ~ (j < i)
    BY <1>4, <2>2
  <2>4. i \in Nat /\ j \in Nat
    BY <1>3
  <2> QED BY <2>3, <2>4
<1>6. t.awards \in Seq(TenderAward) /\ len \in Nat /\ DOMAIN t.awards = 1 .. len /\ TenderRecord(t)
  BY LenProperties DEF TenderTyped
<1>7. CASE new = <<>>
  <2>1. n = 0
    BY <1>3, <1>4, <1>7
  <2>2. X = {}
    BY <1>3, <2>1, FS_EmptySet
  <2>3. r = t
    BY <1>7, Zenon DEF AddNextAwards, X, new, Live
  <2>4. live = Best(Bids \ BidsWith(t, {"unsuccessful"}))
    BY <2>2 DEF X
  <2> QED BY <2>3, <2>4 DEF BidsFit
<1>8. CASE new # <<>>
  <2>1. ~ ({a.status : a \in Awards(t)} # {} /\ {a.status : a \in Awards(t)} \subseteq Live)
    <3>1. CASE t.awards = <<>>
      <4>1. Awards(t) = {}
        BY <3>1 DEF Awards, ToSet
      <4> QED BY <4>1
    <3>2. CASE \E i \in DOMAIN t.awards : t.awards[i].status \notin Live
      BY <3>2 DEF Awards, ToSet
    <3> QED BY <3>1, <3>2
  <2>2. r = [t EXCEPT !.awards = awards, !.status = "active.qualification", !.period = "unset"]
    BY <1>8, <2>1, Zenon DEF AddNextAwards, X, new, Live
  <2>3. NextFields(t, awards, r)
    <3> DEFINE x == [t EXCEPT !.awards = awards]
               y == [x EXCEPT !.status = "active.qualification"]
    <3>1. r = [y EXCEPT !.period = "unset"]
      BY <2>2, Zenon
    <3> HIDE DEF awards
    <3>2. TenderHas(x, t.status, t.period, awards, t.agreement, t.clarified, t.cancelling, t.withdrawn)
      BY <1>6, TenderRewritten
    <3> HIDE DEF x
    <3>3. /\ TenderRecord(x) /\ x.status = t.status /\ x.period = t.period /\ x.awards = awards
          /\ x.agreement = t.agreement /\ x.clarified = t.clarified
          /\ x.cancelling = t.cancelling /\ x.withdrawn = t.withdrawn
      BY <3>2, TenderFields
    <3>4. TenderHas(y, "active.qualification", x.period, x.awards, x.agreement, x.clarified, x.cancelling, x.withdrawn)
      BY <3>3, TenderRewritten
    <3> HIDE DEF y
    <3>5. /\ TenderRecord(y) /\ y.status = "active.qualification" /\ y.awards = awards
          /\ y.agreement = t.agreement /\ y.clarified = t.clarified
          /\ y.cancelling = t.cancelling /\ y.withdrawn = t.withdrawn
      BY <3>3, <3>4, TenderFields
    <3>6. TenderHas([y EXCEPT !.period = "unset"],
                    y.status, "unset", y.awards, y.agreement, y.clarified, y.cancelling, y.withdrawn)
      BY <3>5, TenderRewritten
    <3> HIDE DEF r
    <3> QED BY <3>1, <3>5, <3>6 DEF NextFields
  <2> HIDE DEF r
  <2>4. /\ TenderRecord(r) /\ r.status = "active.qualification" /\ r.period = "unset" /\ r.awards = awards
        /\ r.agreement = t.agreement /\ r.clarified = t.clarified
        /\ r.cancelling = t.cancelling /\ r.withdrawn = t.withdrawn
    <3> HIDE DEF awards
    <3> QED BY <2>3, TenderFields DEF NextFields
  <2>5. /\ added \in Seq(TenderAward) /\ Len(added) = n
        /\ \A k \in 1 .. n : added[k] = NewAward(new[k])
    <3>1. \A k \in 1 .. n : NewAward(new[k]) \in TenderAward
      <4>1. \A k \in 1 .. n : new[k] \in Bids
        BY <1>2, <1>4
      <4> QED BY <4>1 DEF NewAward, TenderAward
    <3>2. added = [k \in 1 .. n |-> NewAward(new[k])]
      BY <1>4
    <3>3. added \in [1 .. n -> TenderAward]
      BY <3>1, <3>2
    <3>4. added \in Seq(TenderAward) /\ Len(added) = n
      <4> HIDE DEF added
      <4> QED BY <1>3, <3>3
    <3> QED BY <3>2, <3>4
  <2> HIDE DEF added
  <2>6. /\ awards \in Seq(TenderAward) /\ DOMAIN awards = 1 .. len + n
        /\ \A i \in 1 .. len : awards[i] = t.awards[i]
        /\ \A k \in 1 .. n : awards[len + k] = NewAward(new[k])
        /\ \A i \in 1 .. len + n : i \in 1 .. len \/ \E k \in 1 .. n : i = len + k
        /\ \A k \in 1 .. n : len + k \in 1 .. len + n
        /\ \A i \in 1 .. len : i \in 1 .. len + n
    <3>1. Len(added) = n /\ \A k \in 1 .. n : added[k] = NewAward(new[k])
      BY <2>5
    <3>2. /\ awards \in Seq(TenderAward) /\ DOMAIN awards = 1 .. len + Len(added)
          /\ \A i \in 1 .. len : awards[i] = t.awards[i] /\ i \in 1 .. len + Len(added)
          /\ \A k \in 1 .. Len(added) : awards[len + k] = added[k] /\ len + k \in 1 .. len + Len(added)
          /\ \A i \in 1 .. len + Len(added) : i \in 1 .. len \/ \E k \in 1 .. Len(added) : i = len + k
      BY <1>6, <2>5, ConcatParts
    <3> HIDE DEF awards, n, len
    <3> QED BY <3>1, <3>2
  <2>7. \A k \in 1 .. n : NewAward(new[k]).status = "pending" /\ NewAward(new[k]).bid = new[k]
    BY DEF NewAward
  <2> HIDE DEF awards, n, len
  <2>8. TenderTyped(r)
    BY <2>4, <2>6 DEF TenderTyped, TenderStatus, Deciding
  <2>9. ASSUME NEW b PROVE b \in BidsWith(r, Live) <=> b \in live \cup X
    <3>1. b \in BidsWith(r, Live) <=> \E i \in 1 .. len + n : awards[i].status \in Live /\ b = awards[i].bid
      <4>1. r.awards = awards /\ DOMAIN awards = 1 .. len + n
        BY <2>4, <2>6
      <4>2. b \in BidsWith(r, Live) <=>
              \E i \in DOMAIN r.awards : r.awards[i].status \in Live /\ b = r.awards[i].bid
        BY BidsWithIs
      <4> QED BY <4>1, <4>2
    <3>2. b \in live <=> \E i \in 1 .. len : t.awards[i].status \in Live /\ b = t.awards[i].bid
      BY <1>6, BidsWithIs DEF len
    <3>3. b \in X <=> \E k \in 1 .. n : b = new[k]
      BY <1>4 DEF n
    <3>4. ASSUME NEW i \in 1 .. len + n, awards[i].status \in Live, b = awards[i].bid PROVE b \in live \cup X
      <4>1. CASE i \in 1 .. len
        BY <2>6, <3>2, <3>4, <4>1
      <4>2. CASE \E k \in 1 .. n : i = len + k
        BY <2>6, <2>7, <3>3, <3>4, <4>2
      <4> QED BY <2>6, <4>1, <4>2
    <3>5. ASSUME b \in live PROVE b \in BidsWith(r, Live)
      BY <2>6, <3>1, <3>2, <3>5
    <3>6. ASSUME b \in X PROVE b \in BidsWith(r, Live)
      <4>1. PICK k \in 1 .. n : b = new[k]
        BY <3>3, <3>6
      <4>2. len + k \in 1 .. len + n /\ awards[len + k].status \in Live /\ b = awards[len + k].bid
        BY <2>6, <2>7, <4>1 DEF Live
      <4> QED BY <3>1, <4>2
    <3> QED BY <3>1, <3>4, <3>5, <3>6
  <2>10. ASSUME NEW b PROVE b \in BidsWith(r, {"unsuccessful"}) <=> b \in BidsWith(t, {"unsuccessful"})
    <3>1. b \in BidsWith(r, {"unsuccessful"}) <=>
            \E i \in 1 .. len + n : awards[i].status = "unsuccessful" /\ b = awards[i].bid
      <4>1. r.awards = awards /\ DOMAIN awards = 1 .. len + n
        BY <2>4, <2>6
      <4>2. b \in BidsWith(r, {"unsuccessful"}) <=>
              \E i \in DOMAIN r.awards : r.awards[i].status \in {"unsuccessful"} /\ b = r.awards[i].bid
        BY BidsWithIs
      <4> QED BY <4>1, <4>2
    <3>2. b \in BidsWith(t, {"unsuccessful"}) <=>
            \E i \in 1 .. len : t.awards[i].status = "unsuccessful" /\ b = t.awards[i].bid
      BY <1>6, BidsWithIs DEF len
    <3>3. \A k \in 1 .. n : awards[len + k].status # "unsuccessful"
      BY <2>6, <2>7
    <3> QED BY <2>6, <3>1, <3>2, <3>3
  <2>11. BidsWith(r, Live) = Best(Bids \ BidsWith(r, {"unsuccessful"}))
    <3>1. BidsWith(r, Live) = live \cup X
      BY <2>9
    <3>2. BidsWith(r, {"unsuccessful"}) = BidsWith(t, {"unsuccessful"})
      BY <2>10
    <3>3. live \cup X = live \cup Best(chosen)
      BY DEF X
    <3> QED BY <3>1, <3>2, <3>3
  <2>12. LiveOnce(r)
    <3> SUFFICES ASSUME NEW i \in 1 .. len + n, NEW j \in 1 .. len + n,
                        awards[i].status \in Live, awards[j].status \in Live, awards[i].bid = awards[j].bid
                 PROVE  i = j
      BY <2>4, <2>6 DEF LiveOnce
    <3>1. \A k \in 1 .. len : t.awards[k].status \in Live => t.awards[k].bid \in live
      BY <1>6, BidsWithIs DEF len
    <3>2. \A k \in 1 .. n : new[k] \notin live
      BY <1>4 DEF n, X
    <3>3. CASE i \in 1 .. len /\ j \in 1 .. len
      BY <1>6, <2>6, <3>3 DEF LiveOnce, len
    <3>4. ASSUME NEW k \in 1 .. n, NEW m \in 1 .. n, i = len + k, j = len + m PROVE i = j
      <4>1. new[k] = new[m]
        BY <2>6, <2>7, <3>4
      <4> QED BY <1>5, <3>4, <4>1 DEF n
    <3>5. ASSUME i \in 1 .. len, NEW m \in 1 .. n, j = len + m PROVE FALSE
      BY <2>6, <2>7, <3>1, <3>2, <3>5
    <3>6. ASSUME NEW k \in 1 .. n, i = len + k, j \in 1 .. len PROVE FALSE
      BY <2>6, <2>7, <3>1, <3>2, <3>6
    <3> QED BY <2>6, <3>3, <3>4, <3>5, <3>6
  <2> QED BY <2>3, <2>4, <2>8, <2>11, <2>12 DEF BidsFit, r
<1> QED BY <1>7, <1>8

\* So the next awards keep the invariant, whatever made them necessary.
LEMMA NextAwardsKeep ==
  ASSUME NEW t, TenderTyped(t), LiveOnce(t), NEW only, only = Nobody \/ only \in Bids,
         NEW chosen, chosen = IF only # Nobody THEN {only} ELSE Bids \ BidsWith(t, {"unsuccessful"}),
         t.awards = <<>> \/ \E i \in DOMAIN t.awards : t.awards[i].status \notin Live,
         BidsWith(t, Live) \cup Best(chosen) = Best(Bids \ BidsWith(t, {"unsuccessful"})),
         t.status \in {"active.auction"} \cup Deciding, t.agreement.status = "none",
         t.status = "active.auction" => t.awards = <<>>,
         t.status = "active.qualification.stand-still" => StandStillFits(t)
  PROVE  TenderInv(AddNextAwards(t, only))
<1> DEFINE r == AddNextAwards(t, only)
<1>1. \/ r = t /\ BidsFit(t)
      \/ NextFields(t, r.awards, r) /\ TenderTyped(r) /\ BidsFit(r)
  BY NextAwardsSound
<1> HIDE DEF r
<1>2. CASE r = t /\ BidsFit(t)
  <2>1. t.status \notin {"active.awarded", "complete", "unsuccessful", "cancelled"}
    BY DEF Deciding
  <2> QED BY <1>2, <2>1 DEF TenderInv, r
<1>3. CASE NextFields(t, r.awards, r) /\ TenderTyped(r) /\ BidsFit(r)
  <2>1. r.status = "active.qualification" /\ r.agreement = t.agreement
    BY <1>3, TenderFields DEF NextFields
  <2>2. r.status \notin {"active.auction", "active.awarded", "active.qualification.stand-still",
                         "complete", "unsuccessful", "cancelled"}
    BY <2>1
  <2> QED BY <1>3, <2>1, <2>2 DEF TenderInv, r
<1> QED BY <1>1, <1>2, <1>3

\* Which bids are live, or rejected, depends on the awards' bids and statuses.
LEMMA BidsCarried ==
  ASSUME NEW t, NEW r, DOMAIN r.awards = DOMAIN t.awards,
         \A i \in DOMAIN t.awards :
           /\ r.awards[i].bid = t.awards[i].bid
           /\ r.awards[i].status \in Live <=> t.awards[i].status \in Live
           /\ r.awards[i].status = "unsuccessful" <=> t.awards[i].status = "unsuccessful"
  PROVE  /\ LiveOnce(t) => LiveOnce(r)
         /\ BidsFit(t) => BidsFit(r)
<1>1. LiveOnce(t) => LiveOnce(r)
  BY DEF LiveOnce
<1>2. ASSUME NEW b PROVE b \in BidsWith(r, Live) <=> b \in BidsWith(t, Live)
  <2>1. /\ b \in BidsWith(r, Live) <=> \E i \in DOMAIN r.awards : r.awards[i].status \in Live /\ b = r.awards[i].bid
        /\ b \in BidsWith(t, Live) <=> \E i \in DOMAIN t.awards : t.awards[i].status \in Live /\ b = t.awards[i].bid
    BY BidsWithIs
  <2> QED BY <2>1
<1>3. ASSUME NEW b PROVE b \in BidsWith(r, {"unsuccessful"}) <=> b \in BidsWith(t, {"unsuccessful"})
  <2>1. /\ b \in BidsWith(r, {"unsuccessful"}) <=>
             \E i \in DOMAIN r.awards : r.awards[i].status = "unsuccessful" /\ b = r.awards[i].bid
        /\ b \in BidsWith(t, {"unsuccessful"}) <=>
             \E i \in DOMAIN t.awards : t.awards[i].status = "unsuccessful" /\ b = t.awards[i].bid
    BY BidsWithIs
  <2> QED BY <2>1
<1>4. BidsWith(r, Live) = BidsWith(t, Live) /\ BidsWith(r, {"unsuccessful"}) = BidsWith(t, {"unsuccessful"})
  BY <1>2, <1>3
<1> QED BY <1>1, <1>4 DEF BidsFit

\* Bids with a status, when awards keep their bids and statuses.
LEMMA WithStatusCarried ==
  ASSUME NEW t, NEW r, DOMAIN r.awards = DOMAIN t.awards, NEW st,
         \A i \in DOMAIN t.awards :
           r.awards[i].bid = t.awards[i].bid /\ r.awards[i].status = t.awards[i].status
  PROVE  BidsWith(r, {st}) = BidsWith(t, {st})
<1>1. ASSUME NEW b PROVE b \in BidsWith(r, {st}) <=> b \in BidsWith(t, {st})
  <2>1. /\ b \in BidsWith(r, {st}) <=> \E i \in DOMAIN r.awards : r.awards[i].status = st /\ b = r.awards[i].bid
        /\ b \in BidsWith(t, {st}) <=> \E i \in DOMAIN t.awards : t.awards[i].status = st /\ b = t.awards[i].bid
    BY BidsWithIs
  <2> QED BY <2>1
<1> QED BY <1>1

\* What ages awards, or settles complaints, and leaves the rest.
LEMMA TenderKept ==
  ASSUME NEW t, TenderInv(t), NEW r, TenderTyped(r), r.status = t.status, r.agreement = t.agreement,
         DOMAIN r.awards = DOMAIN t.awards,
         \A i \in DOMAIN t.awards :
           r.awards[i].bid = t.awards[i].bid /\ r.awards[i].status = t.awards[i].status,
         t.agreement.status # "none" =>
           \A i \in DOMAIN t.awards :
             /\ t.awards[i].period = "over" => r.awards[i].period = "over"
             /\ r.awards[i].complaint \in Undecided => t.awards[i].complaint \in Undecided,
         t.status = "active.qualification.stand-still" =>
           /\ r.period # "unset"
           /\ \A i \in DOMAIN t.awards : t.awards[i].status = "active" => r.awards[i].period = r.period
  PROVE  TenderInv(r)
<1>1. t.status = "active.auction" => r.awards = <<>>
  <2> SUFFICES ASSUME t.status = "active.auction" PROVE r.awards = <<>>
    OBVIOUS
  <2>1. t.awards = <<>>
    BY DEF TenderInv
  <2>2. DOMAIN r.awards = {} /\ r.awards \in Seq(TenderAward)
    BY <2>1 DEF TenderTyped
  <2>3. Len(r.awards) \in Nat /\ 1 .. Len(r.awards) = {}
    BY <2>2, LenProperties
  <2>4. Len(r.awards) = 0
    <3> DEFINE n == Len(r.awards)
    <3> HIDE DEF n
    <3>1. n \in Nat /\ 1 .. n = {}
      BY <2>3 DEF n
    <3>2. n # 0 => 1 \in 1 .. n
      BY <3>1
    <3>3. n = 0
      BY <3>1, <3>2, Zenon
    <3> QED BY <3>3 DEF n
  <2>5. \A s \in Seq(TenderAward) : s # <<>> => Len(s) # 0
    BY EmptySeq
  <2> QED BY <2>2, <2>4, <2>5, Zenon
<1>2. BidsFit(t) => BidsFit(r)
  BY BidsCarried
<1>3. t.status = "active.qualification.stand-still" => StandStillFits(r)
  BY DEF TenderInv, StandStillFits
<1>4. AgreementFits(t) /\ t.agreement.status # "none" => AgreementFits(r)
  <2> SUFFICES ASSUME AgreementFits(t), t.agreement.status # "none" PROVE AgreementFits(r)
    OBVIOUS
  <2>1. BidsWith(r, {"active"}) = BidsWith(t, {"active"}) /\ BidsWith(r, {"pending"}) = BidsWith(t, {"pending"})
    <3>1. ASSUME NEW st PROVE BidsWith(r, {st}) = BidsWith(t, {st})
      BY WithStatusCarried
    <3> QED BY <3>1
  <2>2. ~ Disputed(r)
    <3>1. ~ Disputed(t)
      BY DEF AgreementFits
    <3> QED BY <3>1, DisputedIs
  <2>3. \A i \in DOMAIN r.awards : r.awards[i].status = "active" => r.awards[i].period = "over"
    BY DEF AgreementFits
  <2> QED BY <2>1, <2>2, <2>3, Zenon DEF AgreementFits
<1> QED BY <1>1, <1>2, <1>3, <1>4 DEF TenderInv

-----------------------------------------------------------------------------
(* An award of the tender is replaced by another.                          *)

\* The award i of a tender is replaced.
ReplacedBy(t, i, award) == [t EXCEPT !.awards = [t.awards EXCEPT ![i] = award]]

\* It is replaced in the awards, and nothing else is.
LEMMA TenderAwardReplaced ==
  ASSUME NEW t, TenderTyped(t), NEW i \in DOMAIN t.awards, NEW award \in TenderAward,
         NEW r, r = ReplacedBy(t, i, award)
  PROVE  /\ TenderHas(r, t.status, t.period, r.awards, t.agreement, t.clarified, t.cancelling, t.withdrawn)
         /\ TenderTyped(r)
         /\ r.status = t.status /\ r.period = t.period /\ r.agreement = t.agreement
         /\ DOMAIN r.awards = DOMAIN t.awards /\ r.awards[i] = award
         /\ \A k \in DOMAIN t.awards : k # i => r.awards[k] = t.awards[k]
<1> DEFINE awards == [t.awards EXCEPT ![i] = award]
<1>0. TenderRecord(t) /\ t.awards \in Seq(TenderAward)
  BY DEF TenderTyped
<1>1. /\ awards \in Seq(TenderAward) /\ DOMAIN awards = DOMAIN t.awards /\ awards[i] = award
      /\ \A k \in DOMAIN t.awards : k # i => awards[k] = t.awards[k]
  BY <1>0
<1>2. r = [t EXCEPT !.awards = awards]
  BY Zenon DEF ReplacedBy
<1> HIDE DEF awards
<1>3. TenderHas(r, t.status, t.period, awards, t.agreement, t.clarified, t.cancelling, t.withdrawn)
  BY <1>0, <1>2, TenderRewritten
<1>4. /\ TenderRecord(r) /\ r.status = t.status /\ r.period = t.period /\ r.awards = awards
      /\ r.agreement = t.agreement /\ r.cancelling = t.cancelling
  BY <1>3, TenderFields
<1>5. TenderTyped(r)
  BY <1>1, <1>4 DEF TenderTyped
<1> QED BY <1>1, <1>3, <1>4, <1>5

\* A field of the award i is changed.
WithBidStatus(t, i, v) == [t EXCEPT !.awards[i].status = v]
WithComplaint(t, i, v) == [t EXCEPT !.awards[i].complaint = v]
WithAwardPeriod(t, i, v) == [t EXCEPT !.awards[i].period = v]
AwardMoved(a, s, p) == [a EXCEPT !.status = s, !.period = p]
WithRejection(t, i) == [t EXCEPT !.awards[i] = [@ EXCEPT !.status = "unsuccessful", !.period = "open"]]
TenderAwardOf(b, status, period, complaint) ==
  [bid |-> b, status |-> status, period |-> period, complaint |-> complaint]

\* Two fields of an award are changed.
LEMMA RejectionRewritten ==
  ASSUME NEW a, a = TenderAwardOf(a.bid, a.status, a.period, a.complaint), NEW s, NEW p
  PROVE  AwardMoved(a, s, p) = TenderAwardOf(a.bid, s, p, a.complaint)
<1> DEFINE f == [a EXCEPT !.status = s]
<1>1. AwardMoved(a, s, p) = [f EXCEPT !.period = p]
  BY Zenon DEF AwardMoved
<1>2. f = TenderAwardOf(a.bid, s, a.period, a.complaint)
  BY DEF TenderAwardOf
<1> HIDE DEF f
<1>3. [f EXCEPT !.period = p] = TenderAwardOf(f.bid, f.status, p, f.complaint)
  BY <1>2 DEF TenderAwardOf
<1>4. f.bid = a.bid /\ f.status = s /\ f.complaint = a.complaint
  BY <1>2 DEF TenderAwardOf
<1> QED BY <1>1, <1>3, <1>4

\* To change a field of an award is to replace the award.
LEMMA TenderAwardRewritten ==
  ASSUME NEW t, NEW i, t.awards[i] \in TenderAward, NEW v
  PROVE  LET a == t.awards[i] IN
         /\ WithBidStatus(t, i, v) = ReplacedBy(t, i, TenderAwardOf(a.bid, v, a.period, a.complaint))
         /\ WithComplaint(t, i, v) = ReplacedBy(t, i, TenderAwardOf(a.bid, a.status, a.period, v))
         /\ WithAwardPeriod(t, i, v) = ReplacedBy(t, i, TenderAwardOf(a.bid, a.status, v, a.complaint))
         /\ WithRejection(t, i) = ReplacedBy(t, i, TenderAwardOf(a.bid, "unsuccessful", "open", a.complaint))
<1> DEFINE a == t.awards[i]
<1>1. /\ [a EXCEPT !.status = v] = TenderAwardOf(a.bid, v, a.period, a.complaint)
      /\ [a EXCEPT !.complaint = v] = TenderAwardOf(a.bid, a.status, a.period, v)
      /\ [a EXCEPT !.period = v] = TenderAwardOf(a.bid, a.status, v, a.complaint)
      /\ [a EXCEPT !.status = "unsuccessful", !.period = "open"]
           = TenderAwardOf(a.bid, "unsuccessful", "open", a.complaint)
  <2>1. a \in TenderAward
    OBVIOUS
  <2> HIDE DEF a
  <2>2. /\ [a EXCEPT !.status = v] = TenderAwardOf(a.bid, v, a.period, a.complaint)
        /\ [a EXCEPT !.complaint = v] = TenderAwardOf(a.bid, a.status, a.period, v)
        /\ [a EXCEPT !.period = v] = TenderAwardOf(a.bid, a.status, v, a.complaint)
    BY <2>1 DEF TenderAward, TenderAwardOf
  <2>3. [a EXCEPT !.status = "unsuccessful", !.period = "open"]
          = TenderAwardOf(a.bid, "unsuccessful", "open", a.complaint)
    <3>1. a = TenderAwardOf(a.bid, a.status, a.period, a.complaint)
      BY <2>1 DEF TenderAward, TenderAwardOf
    <3>2. AwardMoved(a, "unsuccessful", "open") = TenderAwardOf(a.bid, "unsuccessful", "open", a.complaint)
      BY <3>1, RejectionRewritten
    <3> QED BY <3>2, Zenon DEF AwardMoved
  <2> QED BY <2>2, <2>3
<1>2. /\ WithBidStatus(t, i, v) = ReplacedBy(t, i, [a EXCEPT !.status = v])
      /\ WithComplaint(t, i, v) = ReplacedBy(t, i, [a EXCEPT !.complaint = v])
      /\ WithAwardPeriod(t, i, v) = ReplacedBy(t, i, [a EXCEPT !.period = v])
      /\ WithRejection(t, i) = ReplacedBy(t, i, [a EXCEPT !.status = "unsuccessful", !.period = "open"])
  <2>1. /\ WithBidStatus(t, i, v) = ReplacedBy(t, i, [a EXCEPT !.status = v])
        /\ WithComplaint(t, i, v) = ReplacedBy(t, i, [a EXCEPT !.complaint = v])
        /\ WithAwardPeriod(t, i, v) = ReplacedBy(t, i, [a EXCEPT !.period = v])
    BY Zenon DEF WithBidStatus, WithComplaint, WithAwardPeriod, ReplacedBy
  <2>2. WithRejection(t, i) = ReplacedBy(t, i, [a EXCEPT !.status = "unsuccessful", !.period = "open"])
    BY Zenon DEF WithRejection, ReplacedBy
  <2> QED BY <2>1, <2>2
<1> QED BY <1>1, <1>2

-----------------------------------------------------------------------------
(* The decisions about awards.                                             *)

\* What the invariant says while awards are decided.
LEMMA DecidingMeans ==
  ASSUME NEW t, TenderInv(t), t.status \in Deciding
  PROVE  /\ TenderTyped(t) /\ BidsFit(t) /\ LiveOnce(t) /\ t.agreement.status = "none"
         /\ t.status \notin {"active.auction", "active.awarded", "complete", "unsuccessful", "cancelled"}
         /\ t.status = "active.qualification.stand-still" => StandStillFits(t)
BY DEF TenderInv, Deciding, BidsFit

\* The awards are awards, of bids.
LEMMA AwardsAre ==
  ASSUME NEW t, TenderTyped(t)
  PROVE  \A i \in DOMAIN t.awards : t.awards[i] \in TenderAward /\ t.awards[i].bid \in Bids
<1>1. \A i \in DOMAIN t.awards : t.awards[i] \in TenderAward
  BY DEF TenderTyped
<1> QED BY <1>1 DEF TenderAward

\* The status of one award is changed, which its bid and the others are not.
LEMMA StatusChanged ==
  ASSUME NEW t, TenderTyped(t), NEW i \in DOMAIN t.awards,
         NEW v \in {"pending", "active", "unsuccessful", "cancelled"},
         NEW r, r = WithBidStatus(t, i, v)
  PROVE  /\ TenderTyped(r)
         /\ r.status = t.status /\ r.period = t.period /\ r.agreement = t.agreement
         /\ DOMAIN r.awards = DOMAIN t.awards
         /\ r.awards[i].status = v /\ r.awards[i].bid = t.awards[i].bid
         /\ \A k \in DOMAIN t.awards : k # i => r.awards[k] = t.awards[k]
<1> DEFINE a == t.awards[i]
           b == TenderAwardOf(a.bid, v, a.period, a.complaint)
<1>1. a \in TenderAward
  BY AwardsAre
<1>2. r = ReplacedBy(t, i, b)
  BY <1>1, TenderAwardRewritten
<1>3. b \in TenderAward /\ b.status = v /\ b.bid = a.bid
  BY <1>1 DEF TenderAward, TenderAwardOf
<1> HIDE DEF b, a
<1>4. /\ TenderTyped(r)
      /\ r.status = t.status /\ r.period = t.period /\ r.agreement = t.agreement
      /\ DOMAIN r.awards = DOMAIN t.awards /\ r.awards[i] = b
      /\ \A k \in DOMAIN t.awards : k # i => r.awards[k] = t.awards[k]
  BY <1>2, <1>3, TenderAwardReplaced
<1> QED BY <1>3, <1>4 DEF a

\* The auction makes the best bids pending.
LEMMA AuctionPosted ==
  ASSUME TenderInv(tender), PostAuction
  PROVE  TenderInv(tender')
<1> DEFINE chosen == Bids \ BidsWith(tender, {"unsuccessful"})
<1>1. /\ TenderTyped(tender) /\ tender.status = "active.auction" /\ tender.awards = <<>>
      /\ tender.agreement.status = "none" /\ tender' = AddNextAwards(tender, Nobody)
  BY DEF TenderInv, PostAuction, SaveWithNextAwards, Save
<1>2. DOMAIN tender.awards = {}
  BY <1>1
<1>3. LiveOnce(tender)
  BY <1>2 DEF LiveOnce
<1>4. BidsWith(tender, Live) = {}
  BY <1>2, BidsWithIs
<1>5. chosen = IF Nobody # Nobody THEN {Nobody} ELSE Bids \ BidsWith(tender, {"unsuccessful"})
  OBVIOUS
<1>6. BidsWith(tender, Live) \cup Best(chosen) = Best(Bids \ BidsWith(tender, {"unsuccessful"}))
  BY <1>4
<1> HIDE DEF chosen
<1>7. TenderInv(AddNextAwards(tender, Nobody))
  BY <1>1, <1>3, <1>5, <1>6, NextAwardsKeep
<1> QED BY <1>1, <1>7

\* A pending award becomes active, and is live still.
LEMMA AcceptSound ==
  ASSUME TenderInv(tender), NEW i \in DOMAIN tender.awards, AcceptAward(i)
  PROVE  TenderInv(tender')
<1> DEFINE r == WithBidStatus(tender, i, "active")
<1>1. /\ tender.status \in Deciding /\ tender.awards[i].status = "pending" /\ tender' = r
  BY Zenon DEF AcceptAward, MayPatchAward, Save, WithBidStatus
<1> HIDE DEF r
<1>2. /\ TenderTyped(tender) /\ BidsFit(tender) /\ tender.agreement.status = "none"
      /\ tender.status \notin {"active.auction", "active.awarded", "complete", "unsuccessful", "cancelled"}
      /\ tender.status = "active.qualification.stand-still" => StandStillFits(tender)
  BY <1>1, DecidingMeans
<1>3. tender.status # "active.qualification.stand-still"
  BY <1>1, <1>2 DEF StandStillFits
<1>4. /\ TenderTyped(r)
      /\ r.status = tender.status /\ r.agreement = tender.agreement
      /\ DOMAIN r.awards = DOMAIN tender.awards
      /\ r.awards[i].status = "active" /\ r.awards[i].bid = tender.awards[i].bid
      /\ \A k \in DOMAIN tender.awards : k # i => r.awards[k] = tender.awards[k]
  BY <1>2, StatusChanged DEF r
<1>5. BidsFit(r)
  <2>1. \A k \in DOMAIN tender.awards :
           /\ r.awards[k].bid = tender.awards[k].bid
           /\ r.awards[k].status \in Live <=> tender.awards[k].status \in Live
           /\ r.awards[k].status = "unsuccessful" <=> tender.awards[k].status = "unsuccessful"
    BY <1>1, <1>4 DEF Live
  <2> QED BY <1>2, <1>4, <2>1, BidsCarried
<1>6. TenderInv(r)
  BY <1>2, <1>3, <1>4, <1>5 DEF TenderInv
<1> QED BY <1>1, <1>6

\* A rejected bid gives way to the next best.
LEMMA RejectSound ==
  ASSUME TenderInv(tender), NEW i \in DOMAIN tender.awards, RejectAward(i)
  PROVE  TenderInv(tender')
<1> DEFINE t == WithRejection(tender, i)
           U == BidsWith(tender, {"unsuccessful"})
           chosen == Bids \ BidsWith(t, {"unsuccessful"})
<1>1. /\ tender.status \in Deciding /\ tender.awards[i].status = "pending" /\ tender' = AddNextAwards(t, Nobody)
  BY Zenon DEF RejectAward, MayPatchAward, Save, SaveWithNextAwards, WithRejection
<1> HIDE DEF t
<1>2. /\ TenderTyped(tender) /\ BidsFit(tender) /\ LiveOnce(tender) /\ tender.agreement.status = "none"
      /\ tender.status = "active.qualification.stand-still" => StandStillFits(tender)
      /\ tender.status # "active.auction"
  BY <1>1, DecidingMeans
<1>3. tender.status # "active.qualification.stand-still"
  BY <1>1, <1>2 DEF StandStillFits
<1>4. /\ TenderTyped(t)
      /\ t.status = tender.status /\ t.agreement = tender.agreement
      /\ DOMAIN t.awards = DOMAIN tender.awards
      /\ t.awards[i].status = "unsuccessful" /\ t.awards[i].bid = tender.awards[i].bid
      /\ \A k \in DOMAIN tender.awards : k # i => t.awards[k] = tender.awards[k]
  <2> DEFINE a == tender.awards[i]
             b == TenderAwardOf(a.bid, "unsuccessful", "open", a.complaint)
  <2>1. a \in TenderAward
    BY <1>2, AwardsAre
  <2>2. t = ReplacedBy(tender, i, b)
    BY <2>1, TenderAwardRewritten DEF t
  <2>3. b \in TenderAward /\ b.status = "unsuccessful" /\ b.bid = a.bid
    BY <2>1 DEF TenderAward, TenderAwardOf
  <2> HIDE DEF b, a
  <2>4. /\ TenderTyped(t)
        /\ t.status = tender.status /\ t.agreement = tender.agreement
        /\ DOMAIN t.awards = DOMAIN tender.awards /\ t.awards[i] = b
        /\ \A k \in DOMAIN tender.awards : k # i => t.awards[k] = tender.awards[k]
    BY <1>2, <2>2, <2>3, TenderAwardReplaced
  <2> QED BY <2>3, <2>4 DEF a
<1>5. \A k \in DOMAIN tender.awards :
        t.awards[k].status \in Live => k # i /\ tender.awards[k].status \in Live
                                       /\ t.awards[k].bid = tender.awards[k].bid
  BY <1>4 DEF Live
<1>6. LiveOnce(t)
  BY <1>2, <1>4, <1>5 DEF LiveOnce
<1>7. \A b : b \in BidsWith(t, {"unsuccessful"}) <=> b \in U \/ b = tender.awards[i].bid
  <2> SUFFICES ASSUME NEW b
               PROVE  b \in BidsWith(t, {"unsuccessful"}) <=> b \in U \/ b = tender.awards[i].bid
    OBVIOUS
  <2>1. /\ b \in BidsWith(t, {"unsuccessful"}) <=>
             \E k \in DOMAIN t.awards : t.awards[k].status = "unsuccessful" /\ b = t.awards[k].bid
        /\ b \in U <=>
             \E k \in DOMAIN tender.awards : tender.awards[k].status = "unsuccessful" /\ b = tender.awards[k].bid
    BY BidsWithIs
  <2> HIDE DEF U
  <2>2. tender.awards[i].status # "unsuccessful"
    BY <1>1
  <2> QED BY <1>4, <2>1, <2>2
<1>8. \A b \in BidsWith(t, Live) : b \in Best(chosen)
  <2> SUFFICES ASSUME NEW b \in BidsWith(t, Live) PROVE b \in Best(chosen)
    OBVIOUS
  <2>1. PICK k \in DOMAIN tender.awards : t.awards[k].status \in Live /\ b = t.awards[k].bid
    BY <1>4, BidsWithIs
  <2>2. k # i /\ tender.awards[k].status \in Live /\ b = tender.awards[k].bid
    BY <1>5, <2>1
  <2>3. tender.awards[i].status \in Live
    BY <1>1 DEF Live
  <2>4. b # tender.awards[i].bid
    BY <1>2, <2>2, <2>3 DEF LiveOnce
  <2>5. b \in BidsWith(tender, Live)
    BY <2>2, BidsWithIs
  <2>6. b \in Best(Bids \ U)
    BY <1>2, <2>5 DEF BidsFit
  <2>7. Bids \ U \in SUBSET Bids /\ chosen \in SUBSET (Bids \ U)
    BY <1>7
  <2>8. b \in Bids \ U
    BY <2>6, <2>7, BestBounds
  <2>9. b \in chosen
    BY <1>7, <2>4, <2>8
  <2> HIDE DEF chosen, U
  <2> QED BY <2>6, <2>7, <2>9, BestOfFewer
<1>9. BidsWith(t, Live) \cup Best(chosen) = Best(Bids \ BidsWith(t, {"unsuccessful"}))
  BY <1>8
<1>10. chosen = IF Nobody # Nobody THEN {Nobody} ELSE Bids \ BidsWith(t, {"unsuccessful"})
  OBVIOUS
<1>11. \E k \in DOMAIN t.awards : t.awards[k].status \notin Live
  BY <1>4 DEF Live
<1> HIDE DEF chosen
<1>12. TenderInv(AddNextAwards(t, Nobody))
  BY <1>1, <1>2, <1>3, <1>4, <1>6, <1>9, <1>10, <1>11, NextAwardsKeep
<1> QED BY <1>1, <1>12

\* A cancelled award is made again, for the same bid.
LEMMA ReconsiderSound ==
  ASSUME TenderInv(tender), NEW i \in DOMAIN tender.awards, ReconsiderAward(i)
  PROVE  TenderInv(tender')
<1> DEFINE t == WithBidStatus(tender, i, "cancelled")
           U == BidsWith(tender, {"unsuccessful"})
           own == tender.awards[i].bid
           chosen == {own}
<1>1. /\ tender.status = "active.qualification" /\ tender.awards[i].status = "active"
      /\ tender' = AddNextAwards(t, own)
  BY Zenon DEF ReconsiderAward, MayPatchAward, Save, SaveWithNextAwards, WithBidStatus
<1> HIDE DEF t
<1>2. /\ TenderTyped(tender) /\ BidsFit(tender) /\ LiveOnce(tender) /\ tender.agreement.status = "none"
  BY <1>1, DecidingMeans DEF Deciding
<1>4. /\ TenderTyped(t)
      /\ t.status = tender.status /\ t.agreement = tender.agreement
      /\ DOMAIN t.awards = DOMAIN tender.awards
      /\ t.awards[i].status = "cancelled" /\ t.awards[i].bid = tender.awards[i].bid
      /\ \A k \in DOMAIN tender.awards : k # i => t.awards[k] = tender.awards[k]
  BY <1>2, StatusChanged DEF t
<1>5. \A k \in DOMAIN tender.awards :
        t.awards[k].status \in Live <=> k # i /\ tender.awards[k].status \in Live
  BY <1>4 DEF Live
<1>6. LiveOnce(t)
  BY <1>2, <1>4, <1>5 DEF LiveOnce
<1>7. BidsWith(t, {"unsuccessful"}) = U
  <2> SUFFICES ASSUME NEW b PROVE b \in BidsWith(t, {"unsuccessful"}) <=> b \in U
    OBVIOUS
  <2>1. /\ b \in BidsWith(t, {"unsuccessful"}) <=>
             \E k \in DOMAIN t.awards : t.awards[k].status = "unsuccessful" /\ b = t.awards[k].bid
        /\ b \in U <=>
             \E k \in DOMAIN tender.awards : tender.awards[k].status = "unsuccessful" /\ b = tender.awards[k].bid
    BY BidsWithIs
  <2> HIDE DEF U
  <2>2. tender.awards[i].status # "unsuccessful" /\ t.awards[i].status # "unsuccessful"
    BY <1>1, <1>4
  <2> QED BY <1>4, <2>1, <2>2
<1>8. own \in Best(Bids \ U) /\ own \in Bids \ U /\ own \in Bids
  <2>1. tender.awards[i].status \in Live
    BY <1>1 DEF Live
  <2>2. own \in BidsWith(tender, Live)
    BY <2>1, BidsWithIs
  <2>3. own \in Best(Bids \ U)
    BY <1>2, <2>2 DEF BidsFit
  <2> HIDE DEF U, own
  <2>4. Best(Bids \ U) \in SUBSET (Bids \ U)
    BY BestBounds
  <2> QED BY <2>3, <2>4
<1>9. Best(chosen) = {own}
  <2> HIDE DEF U, own
  <2>1. Bids \ U \in SUBSET Bids /\ chosen \in SUBSET (Bids \ U) /\ own \in chosen /\ chosen \in SUBSET Bids
    BY <1>8
  <2> HIDE DEF chosen
  <2>2. own \in Best(chosen)
    BY <1>8, <2>1, BestOfFewer
  <2>3. Best(chosen) \in SUBSET chosen
    BY <2>1, BestBounds
  <2> QED BY <2>2, <2>3 DEF chosen
<1>10. BidsWith(t, Live) \cup {own} = BidsWith(tender, Live)
  <2> SUFFICES ASSUME NEW b PROVE b \in BidsWith(t, Live) \/ b = own <=> b \in BidsWith(tender, Live)
    OBVIOUS
  <2>1. /\ b \in BidsWith(t, Live) <=>
             \E k \in DOMAIN t.awards : t.awards[k].status \in Live /\ b = t.awards[k].bid
        /\ b \in BidsWith(tender, Live) <=>
             \E k \in DOMAIN tender.awards : tender.awards[k].status \in Live /\ b = tender.awards[k].bid
    BY BidsWithIs
  <2>2. tender.awards[i].status \in Live
    BY <1>1 DEF Live
  <2> QED BY <1>4, <1>5, <2>1, <2>2
<1>11. BidsWith(t, Live) \cup Best(chosen) = Best(Bids \ BidsWith(t, {"unsuccessful"}))
  BY <1>2, <1>7, <1>9, <1>10 DEF BidsFit
<1>12. own # Nobody
  BY <1>8, BidsAreNumbers
<1>13. chosen = IF own # Nobody THEN {own} ELSE Bids \ BidsWith(t, {"unsuccessful"})
  BY <1>12
<1>14. \E k \in DOMAIN t.awards : t.awards[k].status \notin Live
  BY <1>4 DEF Live
<1> HIDE DEF chosen, own
<1>15. TenderInv(AddNextAwards(t, own))
  <2>1. t.status \in {"active.auction"} \cup Deciding /\ t.status # "active.auction"
        /\ t.status # "active.qualification.stand-still" /\ t.agreement.status = "none"
    BY <1>1, <1>2, <1>4 DEF Deciding
  <2> QED BY <1>4, <1>6, <1>8, <1>11, <1>13, <1>14, <2>1, NextAwardsKeep
<1> QED BY <1>1, <1>15 DEF own

-----------------------------------------------------------------------------
(* Fields of the tender are set.                                           *)

\* The tender with another status, period, agreement or awards.
Moved(t, v, p) == [t EXCEPT !.status = v, !.period = p]
Agreeing(t, v, agreed) == [t EXCEPT !.status = v, !.agreement = agreed]
MovedWith(t, v, p, awards) == [t EXCEPT !.status = v, !.period = p, !.awards = awards]

\* Its status and period are set.
LEMMA StatusPeriodSet ==
  ASSUME NEW t, TenderTyped(t), NEW v \in TenderStatus, NEW p \in {"unset", "running", "over"},
         NEW r, r = Moved(t, v, p)
  PROVE  /\ TenderTyped(r)
         /\ r.status = v /\ r.period = p /\ r.awards = t.awards /\ r.agreement = t.agreement
<1>1. TenderHas(r, v, p, t.awards, t.agreement, t.clarified, t.cancelling, t.withdrawn)
  BY DEF TenderTyped, TenderRecord, TenderHas, Moved
<1>2. /\ t.awards \in Seq(TenderAward) /\ t.agreement \in Agreed /\ t.cancelling \in {Whole, Lot, Nobody}
  BY DEF TenderTyped
<1>3. /\ TenderRecord(r)
      /\ r.status = v /\ r.period = p /\ r.awards = t.awards /\ r.agreement = t.agreement /\ r.cancelling = t.cancelling
  BY <1>1, TenderFields
<1> QED BY <1>2, <1>3 DEF TenderTyped

\* Its status is set.
LEMMA StatusSet ==
  ASSUME NEW t, TenderTyped(t), NEW v \in TenderStatus, NEW r, r = [t EXCEPT !.status = v]
  PROVE  /\ TenderTyped(r)
         /\ r.status = v /\ r.period = t.period /\ r.awards = t.awards /\ r.agreement = t.agreement
<1>1. TenderHas(r, v, t.period, t.awards, t.agreement, t.clarified, t.cancelling, t.withdrawn)
  BY TenderRewritten DEF TenderTyped
<1>2. /\ t.awards \in Seq(TenderAward) /\ t.agreement \in Agreed /\ t.cancelling \in {Whole, Lot, Nobody}
      /\ t.period \in {"unset", "running", "over"}
  BY DEF TenderTyped
<1>3. /\ TenderRecord(r)
      /\ r.status = v /\ r.period = t.period /\ r.awards = t.awards /\ r.agreement = t.agreement /\ r.cancelling = t.cancelling
  BY <1>1, TenderFields
<1> QED BY <1>2, <1>3 DEF TenderTyped

\* Its status and agreement are set.
LEMMA AgreementSet ==
  ASSUME NEW t, TenderTyped(t), NEW v \in TenderStatus, NEW agreed \in Agreed,
         NEW r, r = Agreeing(t, v, agreed)
  PROVE  /\ TenderTyped(r)
         /\ r.status = v /\ r.period = t.period /\ r.awards = t.awards /\ r.agreement = agreed
<1>1. TenderHas(r, v, t.period, t.awards, agreed, t.clarified, t.cancelling, t.withdrawn)
  BY DEF TenderTyped, TenderRecord, TenderHas, Agreeing
<1>2. /\ t.awards \in Seq(TenderAward) /\ t.cancelling \in {Whole, Lot, Nobody}
      /\ t.period \in {"unset", "running", "over"}
  BY DEF TenderTyped
<1>3. /\ TenderRecord(r)
      /\ r.status = v /\ r.period = t.period /\ r.awards = t.awards /\ r.agreement = agreed /\ r.cancelling = t.cancelling
  BY <1>1, TenderFields
<1> QED BY <1>2, <1>3 DEF TenderTyped

\* The awards are replaced one by one, by awards with the same bids.
LEMMA AwardsMapped ==
  ASSUME NEW t, TenderTyped(t), NEW p \in {"unset", "running", "over"}, NEW v \in TenderStatus, NEW awards,
         awards = [i \in DOMAIN t.awards |-> awards[i]],
         \A i \in DOMAIN t.awards : awards[i] \in TenderAward,
         NEW r, r = MovedWith(t, v, p, awards)
  PROVE  /\ TenderTyped(r)
         /\ r.status = v /\ r.period = p /\ r.awards = awards /\ r.agreement = t.agreement
         /\ DOMAIN r.awards = DOMAIN t.awards
<1>1. TenderHas(r, v, p, awards, t.agreement, t.clarified, t.cancelling, t.withdrawn)
  BY DEF TenderTyped, TenderRecord, TenderHas, MovedWith
<1>2. DOMAIN awards = DOMAIN t.awards /\ awards \in Seq(TenderAward)
  <2> DEFINE n == Len(t.awards)
  <2>1. n \in Nat /\ DOMAIN t.awards = 1 .. n
    BY LenProperties DEF TenderTyped
  <2> HIDE DEF n
  <2>2. awards \in [1 .. n -> TenderAward]
    BY <2>1
  <2> QED BY <2>1, <2>2
<1>3. /\ t.agreement \in Agreed /\ t.cancelling \in {Whole, Lot, Nobody}
  BY DEF TenderTyped
<1>4. /\ TenderRecord(r)
      /\ r.status = v /\ r.period = p /\ r.awards = awards /\ r.agreement = t.agreement /\ r.cancelling = t.cancelling
  BY <1>1, TenderFields
<1> QED BY <1>2, <1>3, <1>4 DEF TenderTyped

\* If only the awards are.
LEMMA AwardsOnly ==
  ASSUME NEW t, TenderTyped(t), NEW awards,
         awards = [i \in DOMAIN t.awards |-> awards[i]],
         \A i \in DOMAIN t.awards : awards[i] \in TenderAward,
         NEW r, r = [t EXCEPT !.awards = awards]
  PROVE  /\ TenderTyped(r)
         /\ r.status = t.status /\ r.period = t.period /\ r.awards = awards /\ r.agreement = t.agreement
         /\ DOMAIN r.awards = DOMAIN t.awards
<1>1. t.status \in TenderStatus /\ t.period \in {"unset", "running", "over"} /\ TenderRecord(t)
  BY DEF TenderTyped
<1>2. r = MovedWith(t, t.status, t.period, awards)
  BY <1>1 DEF TenderRecord, TenderHas, MovedWith
<1> QED BY <1>1, <1>2, AwardsMapped

\* All awards are cancelled, and made again for the best of all bids that were
\* not rejected before.
LEMMA StartAnewSound ==
  ASSUME TenderInv(tender), NEW i \in DOMAIN tender.awards, StartAnew(i)
  PROVE  TenderInv(tender')
<1> DEFINE awards == [j \in DOMAIN tender.awards |-> [tender.awards[j] EXCEPT !.status = "cancelled"]]
           t == [tender EXCEPT !.awards = awards]
           chosen == Bids \ BidsWith(t, {"unsuccessful"})
<1>1. tender.status \in Deciding /\ tender' = AddNextAwards(t, Nobody)
  BY Zenon DEF StartAnew, MayPatchAward, Save, SaveWithNextAwards
<1>2. /\ TenderTyped(tender) /\ tender.agreement.status = "none"
      /\ tender.status # "active.auction"
  BY <1>1, DecidingMeans
<1>3. \A j \in DOMAIN tender.awards : awards[j] \in TenderAward /\ awards[j].status = "cancelled"
  <2>1. \A j \in DOMAIN tender.awards : tender.awards[j] \in TenderAward
    BY <1>2, AwardsAre
  <2> QED BY <2>1 DEF TenderAward
<1>4. awards = [j \in DOMAIN tender.awards |-> awards[j]]
  OBVIOUS
<1> HIDE DEF awards
<1>5. /\ TenderTyped(t) /\ t.status = tender.status /\ t.agreement = tender.agreement /\ t.awards = awards
      /\ DOMAIN t.awards = DOMAIN tender.awards
  BY <1>2, <1>3, <1>4, AwardsOnly
<1> HIDE DEF t
<1>6. \A j \in DOMAIN t.awards : t.awards[j].status = "cancelled"
  BY <1>3, <1>5
<1>7. LiveOnce(t)
  BY <1>6 DEF LiveOnce, Live
<1>8. BidsWith(t, Live) = {}
  <2>1. \A b : b \in BidsWith(t, Live) <=> \E k \in DOMAIN t.awards : t.awards[k].status \in Live /\ b = t.awards[k].bid
    BY BidsWithIs
  <2> QED BY <1>6, <2>1 DEF Live
<1>9. BidsWith(t, Live) \cup Best(chosen) = Best(Bids \ BidsWith(t, {"unsuccessful"}))
  BY <1>8
<1>10. chosen = IF Nobody # Nobody THEN {Nobody} ELSE Bids \ BidsWith(t, {"unsuccessful"})
  OBVIOUS
<1>11. \E k \in DOMAIN t.awards : t.awards[k].status \notin Live
  BY <1>5, <1>6 DEF Live
<1>12. t.status = "active.qualification.stand-still" => StandStillFits(t)
  <2> SUFFICES ASSUME t.status = "active.qualification.stand-still" PROVE StandStillFits(t)
    OBVIOUS
  <2>1. StandStillFits(tender)
    BY <1>1, <1>5, DecidingMeans
  <2>2. t.period = tender.period
    BY <1>2, <1>3, <1>4, AwardsOnly DEF t
  <2> QED BY <1>6, <2>1, <2>2 DEF StandStillFits
<1> HIDE DEF chosen
<1>13. TenderInv(AddNextAwards(t, Nobody))
  BY <1>1, <1>2, <1>5, <1>7, <1>9, <1>10, <1>11, <1>12, NextAwardsKeep
<1> QED BY <1>1, <1>13

\* Stand-still starts when no award is pending.
LEMMA StandStillStarted ==
  ASSUME TenderInv(tender), StartStandStill
  PROVE  TenderInv(tender')
<1> DEFINE awards == [i \in DOMAIN tender.awards |->
                        IF tender.awards[i].status = "cancelled" THEN tender.awards[i]
                        ELSE [tender.awards[i] EXCEPT !.period = "running"]]
           r == MovedWith(tender, "active.qualification.stand-still", "running", awards)
<1>1. /\ tender.status = "active.qualification" /\ BidsWith(tender, {"pending"}) = {} /\ tender' = r
  BY Zenon DEF StartStandStill, Save, MovedWith
<1>2. TenderTyped(tender) /\ BidsFit(tender) /\ tender.agreement.status = "none"
  BY <1>1, DecidingMeans DEF Deciding
<1>3. \A i \in DOMAIN tender.awards :
        /\ awards[i] \in TenderAward
        /\ awards[i].status = tender.awards[i].status /\ awards[i].bid = tender.awards[i].bid
        /\ awards[i].status # "cancelled" => awards[i].period = "running"
  <2>1. \A i \in DOMAIN tender.awards : tender.awards[i] \in TenderAward
    BY <1>2, AwardsAre
  <2> QED BY <2>1 DEF TenderAward
<1>4. awards = [j \in DOMAIN tender.awards |-> awards[j]]
  OBVIOUS
<1> HIDE DEF awards
<1>5. /\ TenderTyped(r) /\ r.status = "active.qualification.stand-still" /\ r.period = "running"
      /\ r.awards = awards /\ r.agreement = tender.agreement /\ DOMAIN r.awards = DOMAIN tender.awards
  <2>1. "active.qualification.stand-still" \in TenderStatus /\ "running" \in {"unset", "running", "over"}
    BY DEF TenderStatus, Deciding
  <2> HIDE DEF r
  <2>2. r = MovedWith(tender, "active.qualification.stand-still", "running", awards)
    BY DEF r
  <2>3. \A i \in DOMAIN tender.awards : awards[i] \in TenderAward
    BY <1>3
  <2> QED BY <1>2, <1>4, <2>1, <2>2, <2>3, AwardsMapped
<1> HIDE DEF r
<1>6. BidsFit(r)
  <2>1. \A i \in DOMAIN tender.awards :
          /\ r.awards[i].bid = tender.awards[i].bid
          /\ r.awards[i].status \in Live <=> tender.awards[i].status \in Live
          /\ r.awards[i].status = "unsuccessful" <=> tender.awards[i].status = "unsuccessful"
    BY <1>3, <1>5
  <2> QED BY <1>2, <1>5, <2>1, BidsCarried
<1>7. \A i \in DOMAIN tender.awards : tender.awards[i].status # "pending"
  <2>1. \A b : b \in BidsWith(tender, {"pending"}) <=>
          \E i \in DOMAIN tender.awards : tender.awards[i].status \in {"pending"} /\ b = tender.awards[i].bid
    BY BidsWithIs
  <2> QED BY <1>1, <2>1
<1>8. StandStillFits(r)
  BY <1>3, <1>5, <1>7 DEF StandStillFits
<1> QED BY <1>1, <1>2, <1>5, <1>6, <1>8 DEF TenderInv

\* check_tender_status_on_active_qualification_stand_still
LEMMA EndOfStandStillSound ==
  ASSUME NEW t, TenderInv(t)
  PROVE  TenderInv(EndOfStandStill(t))
<1> DEFINE winners == BidsWith(t, {"active"})
           r == EndOfStandStill(t)
           agreed == [status |-> "pending", contracts |-> [b \in winners |-> [status |-> "active", price |-> 0]]]
<1>0. TenderTyped(t)
  BY DEF TenderInv
<1>1. CASE t.status # "active.qualification.stand-still" \/ t.period # "over" \/ Disputed(t)
  BY <1>1, Zenon DEF EndOfStandStill
<1>2. CASE ~ (t.status # "active.qualification.stand-still" \/ t.period # "over" \/ Disputed(t))
  <2>1. /\ t.status \in Deciding /\ BidsFit(t) /\ t.agreement.status = "none"
        /\ StandStillFits(t) /\ t.period = "over" /\ ~ Disputed(t)
    BY <1>2, DecidingMeans DEF Deciding
  <2>2. winners \in SUBSET Bids
    <3>1. \A b \in winners : b \in Bids
      <4> SUFFICES ASSUME NEW b \in winners PROVE b \in Bids
        OBVIOUS
      <4>1. PICK i \in DOMAIN t.awards : b = t.awards[i].bid
        BY BidsWithIs
      <4> QED BY <1>0, <4>1, AwardsAre
    <3> QED BY <3>1
  <2> HIDE DEF winners
  <2>3. IsFiniteSet(winners) /\ Cardinality(winners) \in Nat /\ MinBids \in Nat /\ \A b \in winners : b \in Nat
    BY <2>2, BidsAreNumbers, FS_CardinalityType, BidsAssumption
  <2>4. CASE Cardinality(winners) < MinBids
    <3>1. r = [t EXCEPT !.status = "unsuccessful"]
      BY <1>2, <2>4, Zenon DEF EndOfStandStill, winners
    <3>2. TenderTyped(r) /\ r.status = "unsuccessful" /\ r.awards = t.awards /\ r.agreement = t.agreement
      BY <1>0, <3>1, StatusSet DEF TenderStatus, Finished
    <3>3. BidsFit(r)
      BY <2>1, <3>2, BidsCarried
    <3> QED BY <2>1, <3>2, <3>3 DEF TenderInv, Deciding
  <2>5. CASE ~ (Cardinality(winners) < MinBids)
    <3>1. r = Agreeing(t, "active.awarded", agreed)
      BY <1>2, <2>5, Zenon DEF EndOfStandStill, winners, Agreeing
    <3>2. agreed \in Agreed
      <4>1. [b \in winners |-> [status |-> "active", price |-> 0]] \in [winners -> Contract]
        BY DEF Contract
      <4>2. [b \in winners |-> [status |-> "active", price |-> 0]] \in ContractsOf
        BY <2>2, <4>1 DEF ContractsOf
      <4> QED BY <4>2 DEF Agreed
    <3>3. agreed.status = "pending" /\ DOMAIN agreed.contracts = winners
          /\ \A b \in winners : agreed.contracts[b].price = 0
      OBVIOUS
    <3> HIDE DEF agreed
    <3>4. TenderTyped(r) /\ r.status = "active.awarded" /\ r.awards = t.awards /\ r.agreement = agreed
      BY <1>0, <3>1, <3>2, AgreementSet DEF TenderStatus
    <3> HIDE DEF r
    <3>5. BidsFit(r)
      BY <2>1, <3>4, BidsCarried
    <3>6. AgreementFits(r)
      <4>1. BidsWith(r, {"active"}) = winners /\ BidsWith(r, {"pending"}) = BidsWith(t, {"pending"})
        <5>1. ASSUME NEW st PROVE BidsWith(r, {st}) = BidsWith(t, {st})
          BY <3>4, WithStatusCarried
        <5> QED BY <5>1 DEF winners
      <4>2. BidsWith(r, {"pending"}) = {}
        <5>1. ASSUME NEW b PROVE b \notin BidsWith(t, {"pending"})
          BY <2>1, BidsWithIs DEF StandStillFits
        <5> QED BY <4>1, <5>1
      <4>3. ~ Disputed(r)
        BY <2>1, <3>4, DisputedIs
      <4>4. \A i \in DOMAIN r.awards : r.awards[i].status = "active" => r.awards[i].period = "over"
        BY <2>1, <3>4 DEF StandStillFits
      <4>5. \A b \in DOMAIN r.agreement.contracts :
              r.agreement.contracts[b].price >= 0 /\ r.agreement.contracts[b].price <= b
        BY <2>3, <3>3, <3>4
      <4>6. DOMAIN r.agreement.contracts = BidsWith(r, {"active"}) /\ Cardinality(DOMAIN r.agreement.contracts) >= MinBids
        BY <2>3, <2>5, <3>3, <3>4, <4>1
      <4>7. r.agreement.status # "active"
        BY <3>3, <3>4
      <4> QED BY <4>2, <4>3, <4>4, <4>5, <4>6, <4>7, Zenon DEF AgreementFits
    <3>7. r.agreement.status = "pending" /\ r.status \notin {"active.auction", "complete", "cancelled"} \cup Deciding
          /\ r.status # "active.qualification.stand-still"
      BY <3>3, <3>4 DEF Deciding
    <3> QED BY <3>4, <3>5, <3>6, <3>7 DEF TenderInv, r
  <2> QED BY <2>4, <2>5
<1> QED BY <1>1, <1>2

-----------------------------------------------------------------------------
(* Complaints.                                                             *)

\* Qualification starts again.
LEMMA ReopenedSound ==
  ASSUME NEW t, TenderInv(t), t.status \in Deciding
  PROVE  TenderInv(Moved(t, "active.qualification", "unset"))
<1> DEFINE r == Moved(t, "active.qualification", "unset")
<1>1. TenderTyped(t) /\ BidsFit(t) /\ t.agreement.status = "none"
  BY DecidingMeans
<1>2. "active.qualification" \in TenderStatus
  BY DEF TenderStatus, Deciding
<1> HIDE DEF r
<1>3. TenderTyped(r) /\ r.status = "active.qualification" /\ r.awards = t.awards /\ r.agreement = t.agreement
  <2>1. r = Moved(t, "active.qualification", "unset")
    BY DEF r
  <2> QED BY <1>1, <1>2, <2>1, StatusPeriodSet
<1>4. BidsFit(r)
  BY <1>1, <1>3, BidsCarried
<1> QED BY <1>1, <1>3, <1>4 DEF TenderInv, r

\* A complaint is made, or goes on, while awards are decided.
LEMMA ComplaintSet ==
  ASSUME NEW t, TenderInv(t), t.status \in Deciding, NEW i \in DOMAIN t.awards, NEW v \in ComplaintStatus
  PROVE  TenderInv(WithComplaint(t, i, v)) /\ WithComplaint(t, i, v).status = t.status
<1> DEFINE r == WithComplaint(t, i, v)
           a == t.awards[i]
           b == TenderAwardOf(a.bid, a.status, a.period, v)
<1>1. TenderTyped(t) /\ t.agreement.status = "none"
  BY DecidingMeans
<1>2. a \in TenderAward
  BY <1>1, AwardsAre
<1>3. b \in TenderAward /\ b.bid = a.bid /\ b.status = a.status /\ b.period = a.period
  BY <1>2 DEF TenderAward, TenderAwardOf
<1>4. r = ReplacedBy(t, i, b)
  BY <1>2, TenderAwardRewritten
<1> HIDE DEF r, b
<1>5. /\ TenderTyped(r) /\ r.status = t.status /\ r.period = t.period /\ r.agreement = t.agreement
      /\ DOMAIN r.awards = DOMAIN t.awards /\ r.awards[i] = b
      /\ \A k \in DOMAIN t.awards : k # i => r.awards[k] = t.awards[k]
  BY <1>1, <1>3, <1>4, TenderAwardReplaced
<1>6. \A k \in DOMAIN t.awards :
        /\ r.awards[k].bid = t.awards[k].bid /\ r.awards[k].status = t.awards[k].status
        /\ r.awards[k].period = t.awards[k].period
  BY <1>3, <1>5
<1>7. t.status = "active.qualification.stand-still" =>
        /\ r.period # "unset"
        /\ \A k \in DOMAIN t.awards : t.awards[k].status = "active" => r.awards[k].period = r.period
  <2>1. t.status = "active.qualification.stand-still" => StandStillFits(t)
    BY DecidingMeans
  <2> QED BY <1>5, <1>6, <2>1 DEF StandStillFits
<1>8. TenderInv(r)
  BY <1>1, <1>5, <1>6, <1>7, TenderKept
<1> QED BY <1>5, <1>8 DEF r

\* A complaint is posted in stand-still.
LEMMA PostComplaintSound ==
  ASSUME TenderInv(tender), NEW i \in DOMAIN tender.awards, PostComplaint(i)
  PROVE  TenderInv(tender')
<1>1. tender.status = "active.qualification.stand-still" /\ tender' = WithComplaint(tender, i, "draft")
  BY Zenon DEF PostComplaint, Save, WithComplaint
<1>2. tender.status \in Deciding /\ "draft" \in ComplaintStatus
  BY <1>1 DEF Deciding, ComplaintStatus
<1> QED BY <1>1, <1>2, ComplaintSet

\* A complaint goes on; satisfied, it reopens the qualification, and the last
\* to be decided ends the stand-still.
LEMMA PatchComplaintSound ==
  ASSUME TenderInv(tender), NEW i \in DOMAIN tender.awards, NEW to \in ComplaintStatus, PatchComplaint(i, to)
  PROVE  TenderInv(tender')
<1> DEFINE t == WithComplaint(tender, i, to)
<1>1. /\ tender.status \in Deciding
      /\ tender' = IF to = "satisfied" THEN Moved(t, "active.qualification", "unset")
                   ELSE IF to \in Undecided THEN t ELSE EndOfStandStill(t)
  BY Zenon DEF PatchComplaint, Save, WithComplaint, Moved
<1>2. TenderInv(t) /\ t.status \in Deciding
  BY <1>1, ComplaintSet
<1> HIDE DEF t
<1> QED BY <1>1, <1>2, ReopenedSound, EndOfStandStillSound

-----------------------------------------------------------------------------
(* The chronograph, and time.                                              *)

\* Drafts of complaints that came too late are dropped, which settles none.
LEMMA WithoutDraftsSound ==
  ASSUME NEW t, TenderInv(t)
  PROVE  TenderInv(WithoutDrafts(t)) /\ (~ Disputed(t) => ~ Disputed(WithoutDrafts(t)))
<1> DEFINE awards == [i \in DOMAIN t.awards |->
              IF t.awards[i].period = "over" THEN [t.awards[i] EXCEPT !.complaint = Mistaken(t.awards[i].complaint)]
              ELSE t.awards[i]]
           r == WithoutDrafts(t)
<1>1. TenderTyped(t)
  BY DEF TenderInv
<1>2. r = [t EXCEPT !.awards = awards]
  BY Zenon DEF WithoutDrafts
<1>3. \A i \in DOMAIN t.awards :
        /\ awards[i] \in TenderAward
        /\ awards[i].bid = t.awards[i].bid /\ awards[i].status = t.awards[i].status
        /\ awards[i].period = t.awards[i].period
        /\ awards[i].complaint \in Undecided => t.awards[i].complaint \in Undecided
  <2>1. \A i \in DOMAIN t.awards : t.awards[i] \in TenderAward
    BY <1>1, AwardsAre
  <2>2. ASSUME NEW c \in ComplaintStatus \cup {"none"}
        PROVE  Mistaken(c) \in ComplaintStatus \cup {"none"} /\ (Mistaken(c) \in Undecided => c \in Undecided)
    BY DEF Mistaken, ComplaintStatus, Undecided, Rejected
  <2>3. ASSUME NEW a \in TenderAward
        PROVE  LET b == [a EXCEPT !.complaint = Mistaken(a.complaint)] IN
               /\ b \in TenderAward /\ b.bid = a.bid /\ b.status = a.status /\ b.period = a.period
               /\ b.complaint \in Undecided => a.complaint \in Undecided
    <3>1. a.complaint \in ComplaintStatus \cup {"none"}
      BY DEF TenderAward
    <3> DEFINE c == Mistaken(a.complaint)
    <3>2. c \in ComplaintStatus \cup {"none"} /\ (c \in Undecided => a.complaint \in Undecided)
      BY <2>2, <3>1
    <3> HIDE DEF c
    <3>3. [a EXCEPT !.complaint = c] = TenderAwardOf(a.bid, a.status, a.period, c)
      BY DEF TenderAward, TenderAwardOf
    <3>4. TenderAwardOf(a.bid, a.status, a.period, c) \in TenderAward
      BY <3>2 DEF TenderAward, TenderAwardOf
    <3> QED BY <3>2, <3>3, <3>4 DEF c, TenderAwardOf
  <2> QED BY <2>1, <2>3
<1>4. awards = [j \in DOMAIN t.awards |-> awards[j]]
  OBVIOUS
<1> HIDE DEF awards, r
<1>5. /\ TenderTyped(r) /\ r.status = t.status /\ r.period = t.period /\ r.awards = awards
      /\ r.agreement = t.agreement /\ DOMAIN r.awards = DOMAIN t.awards
  BY <1>1, <1>2, <1>3, <1>4, AwardsOnly
<1>6. t.status = "active.qualification.stand-still" =>
        /\ r.period # "unset"
        /\ \A k \in DOMAIN t.awards : t.awards[k].status = "active" => r.awards[k].period = r.period
  BY <1>3, <1>5 DEF TenderInv, StandStillFits
<1>7. /\ \A k \in DOMAIN t.awards :
           r.awards[k].bid = t.awards[k].bid /\ r.awards[k].status = t.awards[k].status
      /\ \A k \in DOMAIN t.awards :
           /\ t.awards[k].period = "over" => r.awards[k].period = "over"
           /\ r.awards[k].complaint \in Undecided => t.awards[k].complaint \in Undecided
  BY <1>3, <1>5
<1>8. TenderInv(r)
  BY <1>5, <1>6, <1>7, TenderKept
<1>9. ~ Disputed(t) => ~ Disputed(r)
  <2>1. /\ Disputed(t) <=> \E i \in DOMAIN t.awards : t.awards[i].complaint \in Undecided
        /\ Disputed(r) <=> \E i \in DOMAIN r.awards : r.awards[i].complaint \in Undecided
    BY DisputedIs
  <2> QED BY <1>5, <1>7, <2>1
<1> QED BY <1>8, <1>9 DEF r

\* A cancellation takes effect, on the agreement too.
LEMMA PutInForceSound ==
  ASSUME NEW t, TenderInv(t)
  PROVE  TenderInv(PutInForce(t))
<1> DEFINE r == PutInForce(t)
           st == IF t.agreement.status = "none" THEN "none" ELSE "cancelled"
           agreed == [t.agreement EXCEPT !.status = st]
<1>1. TenderTyped(t) /\ t.agreement \in Agreed /\ TenderRecord(t)
  BY DEF TenderInv, TenderTyped
<1>2. r = [[[t EXCEPT !.status = "cancelled"] EXCEPT !.cancelling = Nobody] EXCEPT !.agreement = agreed]
  <2> DEFINE x == [[t EXCEPT !.status = "cancelled"] EXCEPT !.cancelling = Nobody]
  <2>1. r = [x EXCEPT !.agreement.status = IF x.agreement.status = "none" THEN x.agreement.status ELSE "cancelled"]
    BY Zenon DEF PutInForce
  <2>2. x.agreement = t.agreement
    BY <1>1 DEF TenderRecord, TenderHas
  <2> HIDE DEF x, r
  <2>3. r = [x EXCEPT !.agreement.status = IF t.agreement.status = "none" THEN t.agreement.status ELSE "cancelled"]
    BY <2>1, <2>2
  <2>4. (IF t.agreement.status = "none" THEN t.agreement.status ELSE "cancelled") = st
    OBVIOUS
  <2> HIDE DEF st
  <2>5. r = [x EXCEPT !.agreement.status = st]
    BY <2>3, <2>4
  <2>6. r = [x EXCEPT !.agreement = [x.agreement EXCEPT !.status = st]]
    BY <2>5, Zenon
  <2> QED BY <2>2, <2>6 DEF x
<1>3. agreed \in Agreed /\ agreed.status = st /\ agreed.contracts = t.agreement.contracts
  BY <1>1 DEF Agreed
<1> HIDE DEF agreed
<1>4. TenderHas(r, "cancelled", t.period, t.awards, agreed, t.clarified, Nobody, t.withdrawn)
  BY <1>1, <1>2 DEF TenderRecord, TenderHas
<1>5. /\ TenderRecord(r) /\ r.status = "cancelled" /\ r.period = t.period /\ r.awards = t.awards
      /\ r.agreement = agreed /\ r.cancelling = Nobody
  BY <1>4, TenderFields
<1> HIDE DEF r
<1>6. TenderTyped(r)
  BY <1>1, <1>3, <1>5 DEF TenderTyped, TenderStatus, Finished
<1>7. r.agreement.status # "none" => AgreementFits(r)
  <2> SUFFICES ASSUME r.agreement.status # "none" PROVE AgreementFits(r)
    OBVIOUS
  <2>1. AgreementFits(t) /\ r.agreement.status = "cancelled" /\ r.agreement.contracts = t.agreement.contracts
    BY <1>3, <1>5 DEF TenderInv
  <2>2. ASSUME NEW s PROVE BidsWith(r, {s}) = BidsWith(t, {s})
    BY <1>5, WithStatusCarried
  <2>3. ~ Disputed(r)
    BY <1>5, <2>1 DEF AgreementFits, Disputed, Awards
  <2>4. r.agreement.status # "active"
    BY <2>1
  <2>5. /\ DOMAIN r.agreement.contracts = BidsWith(r, {"active"})
        /\ Cardinality(DOMAIN r.agreement.contracts) >= MinBids /\ BidsWith(r, {"pending"}) = {}
        /\ \A b \in DOMAIN r.agreement.contracts :
             r.agreement.contracts[b].price >= 0 /\ r.agreement.contracts[b].price <= b
        /\ \A i \in DOMAIN r.awards : r.awards[i].status = "active" => r.awards[i].period = "over"
    BY <1>5, <2>1, <2>2 DEF AgreementFits
  <2> QED BY <2>3, <2>4, <2>5, Zenon DEF AgreementFits
<1>8. r.status \notin {"active.auction", "active.awarded", "complete"} \cup Deciding
      /\ r.status # "active.qualification.stand-still"
  BY <1>5 DEF Deciding
<1> QED BY <1>5, <1>6, <1>7, <1>8 DEF TenderInv, r

\* The chronograph comes, whether or not a cancellation has come into force.
LEMMA CheckStatusSound ==
  ASSUME TenderInv(tender), NEW inForce \in BOOLEAN, CheckStatus(inForce)
  PROVE  TenderInv(tender')
<1>1. tender' = Checked(tender, inForce)
  BY DEF CheckStatus, Save
<1>2. \/ tender' = PutInForce(WithoutDrafts(tender))
      \/ tender' = WithoutDrafts(tender)
      \/ tender' = EndOfStandStill(WithoutDrafts(tender))
  BY <1>1, Zenon DEF Checked
<1> QED BY <1>2, WithoutDraftsSound, PutInForceSound, EndOfStandStillSound

\* The periods that run are over.
LEMMA PeriodsEnded ==
  ASSUME NEW t, TenderTyped(t), NEW r, r = WithPeriodsEnded(t)
  PROVE  /\ TenderTyped(r)
         /\ r.status = t.status /\ r.agreement = t.agreement /\ r.period = Ended(t.period)
         /\ r.cancelling = t.cancelling
         /\ DOMAIN r.awards = DOMAIN t.awards
         /\ \A i \in DOMAIN t.awards :
              /\ r.awards[i].bid = t.awards[i].bid /\ r.awards[i].status = t.awards[i].status
              /\ r.awards[i].period = Ended(t.awards[i].period)
              /\ r.awards[i].complaint = t.awards[i].complaint
<1> DEFINE awards == [i \in DOMAIN t.awards |-> [t.awards[i] EXCEPT !.period = Ended(t.awards[i].period)]]
           p == Ended(t.period)
<1>0. TenderRecord(t)
  BY DEF TenderTyped
<1>1. r = [[t EXCEPT !.period = p] EXCEPT !.awards = awards]
  <2>1. r = [t EXCEPT !.period = p, !.awards = awards]
    BY Zenon DEF WithPeriodsEnded
  <2> HIDE DEF p, awards
  <2> QED BY <2>1, Zenon
<1>2. \A i \in DOMAIN t.awards :
        /\ awards[i] \in TenderAward
        /\ awards[i].bid = t.awards[i].bid /\ awards[i].status = t.awards[i].status
        /\ awards[i].period = Ended(t.awards[i].period) /\ awards[i].complaint = t.awards[i].complaint
  <2>1. \A i \in DOMAIN t.awards : t.awards[i] \in TenderAward
    BY AwardsAre
  <2>2. ASSUME NEW a \in TenderAward
        PROVE  LET b == [a EXCEPT !.period = Ended(a.period)] IN
               /\ b \in TenderAward /\ b.bid = a.bid /\ b.status = a.status
               /\ b.period = Ended(a.period) /\ b.complaint = a.complaint
    BY DEF TenderAward, Ended
  <2> QED BY <2>1, <2>2
<1>3. awards = [j \in DOMAIN t.awards |-> awards[j]] /\ DOMAIN awards = DOMAIN t.awards
  OBVIOUS
<1>4. p \in {"unset", "running", "over"}
  BY DEF TenderTyped, Ended
<1> HIDE DEF awards, p
<1>5. TenderHas(r, t.status, p, awards, t.agreement, t.clarified, t.cancelling, t.withdrawn)
  BY <1>0, <1>1 DEF TenderRecord, TenderHas
<1>6. /\ TenderRecord(r) /\ r.status = t.status /\ r.period = p /\ r.awards = awards
      /\ r.agreement = t.agreement /\ r.cancelling = t.cancelling
  BY <1>5, TenderFields
<1>7. awards \in Seq(TenderAward)
  <2> DEFINE n == Len(t.awards)
  <2>1. n \in Nat /\ DOMAIN t.awards = 1 .. n
    BY LenProperties DEF TenderTyped
  <2> HIDE DEF n
  <2>2. awards \in [1 .. n -> TenderAward]
    BY <1>2, <1>3, <2>1
  <2> QED BY <2>1, <2>2
<1>8. TenderTyped(r)
  BY <1>4, <1>6, <1>7 DEF TenderTyped
<1> QED BY <1>2, <1>3, <1>6, <1>8 DEF p

\* The period of the tender ends.
LEMMA EndPeriodSound ==
  ASSUME TenderInv(tender), EndPeriod
  PROVE  TenderInv(tender')
<1> DEFINE r == WithPeriodsEnded(tender)
<1>1. TenderTyped(tender) /\ tender' = r
  BY DEF TenderInv, EndPeriod, Save
<1> HIDE DEF r
<1>2. /\ TenderTyped(r)
      /\ r.status = tender.status /\ r.agreement = tender.agreement /\ r.period = Ended(tender.period)
      /\ DOMAIN r.awards = DOMAIN tender.awards
      /\ \A i \in DOMAIN tender.awards :
           /\ r.awards[i].bid = tender.awards[i].bid /\ r.awards[i].status = tender.awards[i].status
           /\ r.awards[i].period = Ended(tender.awards[i].period)
           /\ r.awards[i].complaint = tender.awards[i].complaint
  BY <1>1, PeriodsEnded DEF r
<1>3. tender.status = "active.qualification.stand-still" =>
        /\ r.period # "unset"
        /\ \A k \in DOMAIN tender.awards : tender.awards[k].status = "active" => r.awards[k].period = r.period
  BY <1>2 DEF TenderInv, StandStillFits, Ended
<1>4. /\ \A k \in DOMAIN tender.awards :
           r.awards[k].bid = tender.awards[k].bid /\ r.awards[k].status = tender.awards[k].status
      /\ \A k \in DOMAIN tender.awards :
           /\ tender.awards[k].period = "over" => r.awards[k].period = "over"
           /\ r.awards[k].complaint \in Undecided => tender.awards[k].complaint \in Undecided
  BY <1>2 DEF Ended
<1>5. TenderInv(r)
  BY <1>2, <1>3, <1>4, TenderKept
<1> QED BY <1>1, <1>5

\* The period of an award that was cancelled ends.
LEMMA EndOldPeriodSound ==
  ASSUME TenderInv(tender), NEW i \in DOMAIN tender.awards, EndOldPeriod(i)
  PROVE  TenderInv(tender')
<1> DEFINE r == WithAwardPeriod(tender, i, "over")
           a == tender.awards[i]
           b == TenderAwardOf(a.bid, a.status, "over", a.complaint)
<1>1. /\ TenderTyped(tender) /\ tender' = r /\ a.period = "running"
      /\ tender.period = "running" => a.status = "cancelled"
  BY Zenon DEF TenderInv, EndOldPeriod, Save, WithAwardPeriod
<1>2. a \in TenderAward
  BY <1>1, AwardsAre
<1>3. /\ b \in TenderAward /\ b.bid = a.bid /\ b.status = a.status /\ b.period = "over"
      /\ b.complaint = a.complaint
  BY <1>2 DEF TenderAward, TenderAwardOf
<1>4. r = ReplacedBy(tender, i, b)
  BY <1>2, TenderAwardRewritten
<1> HIDE DEF r, b
<1>5. /\ TenderTyped(r) /\ r.status = tender.status /\ r.period = tender.period /\ r.agreement = tender.agreement
      /\ DOMAIN r.awards = DOMAIN tender.awards /\ r.awards[i] = b
      /\ \A k \in DOMAIN tender.awards : k # i => r.awards[k] = tender.awards[k]
  BY <1>1, <1>3, <1>4, TenderAwardReplaced
<1>6. /\ \A k \in DOMAIN tender.awards :
           r.awards[k].bid = tender.awards[k].bid /\ r.awards[k].status = tender.awards[k].status
      /\ \A k \in DOMAIN tender.awards :
           /\ tender.awards[k].period = "over" => r.awards[k].period = "over"
           /\ r.awards[k].complaint \in Undecided => tender.awards[k].complaint \in Undecided
  BY <1>3, <1>5
<1>7. tender.status = "active.qualification.stand-still" =>
        /\ r.period # "unset"
        /\ \A k \in DOMAIN tender.awards : tender.awards[k].status = "active" => r.awards[k].period = r.period
  <2> SUFFICES ASSUME tender.status = "active.qualification.stand-still"
               PROVE  /\ r.period # "unset"
                      /\ \A k \in DOMAIN tender.awards :
                           tender.awards[k].status = "active" => r.awards[k].period = r.period
    OBVIOUS
  <2>1. StandStillFits(tender)
    BY DEF TenderInv
  <2>2. a.status # "active"
    BY <1>1, <2>1 DEF StandStillFits
  <2> QED BY <1>5, <2>1, <2>2 DEF StandStillFits
<1>8. TenderInv(r)
  BY <1>5, <1>6, <1>7, TenderKept
<1> QED BY <1>1, <1>8

-----------------------------------------------------------------------------
(* Cancellations, and the agreement.                                       *)

\* What the owner does about a cancellation changes nothing else.
LEMMA FlagsSet ==
  ASSUME NEW t, TenderInv(t), NEW clarified, NEW cancelling \in {Whole, Lot, Nobody}, NEW withdrawn,
         NEW r, TenderHas(r, t.status, t.period, t.awards, t.agreement, clarified, cancelling, withdrawn)
  PROVE  TenderInv(r)
<1>1. TenderTyped(t)
  BY DEF TenderInv
<1>2. /\ TenderRecord(r) /\ r.status = t.status /\ r.period = t.period /\ r.awards = t.awards
      /\ r.agreement = t.agreement /\ r.cancelling = cancelling
  BY TenderFields
<1>3. TenderTyped(r)
  BY <1>1, <1>2 DEF TenderTyped
<1>4. t.status = "active.qualification.stand-still" =>
        /\ r.period # "unset"
        /\ \A k \in DOMAIN t.awards : t.awards[k].status = "active" => r.awards[k].period = r.period
  BY <1>2 DEF TenderInv, StandStillFits
<1>5. /\ \A k \in DOMAIN t.awards : r.awards[k].bid = t.awards[k].bid /\ r.awards[k].status = t.awards[k].status
      /\ \A k \in DOMAIN t.awards :
           /\ t.awards[k].period = "over" => r.awards[k].period = "over"
           /\ r.awards[k].complaint \in Undecided => t.awards[k].complaint \in Undecided
  BY <1>2
<1> QED BY <1>2, <1>3, <1>4, <1>5, TenderKept

\* A cancellation is asked for, withdrawn, redressed or waited for.
LEMMA CancellingSound ==
  ASSUME TenderInv(tender), Cancelling \/ EndClarifications
  PROVE  TenderInv(tender')
<1>1. TenderRecord(tender) /\ tender.cancelling \in {Whole, Lot, Nobody}
  BY DEF TenderInv, TenderTyped
<1>2. \/ \E x \in {Whole, Lot} : tender' = [tender EXCEPT !.cancelling = x]
      \/ tender' = [tender EXCEPT !.withdrawn = TRUE]
      \/ tender' = [tender EXCEPT !.cancelling = Nobody, !.withdrawn = FALSE]
      \/ tender' = [tender EXCEPT !.clarified = TRUE]
  BY Zenon DEF Cancelling, EndClarifications, StartCancellation, WithdrawCancellation,
               RedressCancellation, Save
<1>3. \E clarified, withdrawn : \E cancelling \in {Whole, Lot, Nobody} :
        TenderHas(tender', tender.status, tender.period, tender.awards, tender.agreement, clarified, cancelling, withdrawn)
  <2>1. CASE \E x \in {Whole, Lot} : tender' = [tender EXCEPT !.cancelling = x]
    <3>1. PICK x \in {Whole, Lot} : tender' = [tender EXCEPT !.cancelling = x]
      BY <2>1
    <3>2. TenderHas(tender', tender.status, tender.period, tender.awards, tender.agreement, tender.clarified,
                    x, tender.withdrawn)
      BY <1>1, <3>1, TenderRewritten
    <3> QED BY <3>2
  <2>2. CASE tender' = [tender EXCEPT !.withdrawn = TRUE]
    <3>1. TenderHas(tender', tender.status, tender.period, tender.awards, tender.agreement, tender.clarified,
                    tender.cancelling, TRUE)
      BY <1>1, <2>2 DEF TenderRecord, TenderHas
    <3> QED BY <1>1, <3>1, Zenon
  <2>3. CASE tender' = [tender EXCEPT !.cancelling = Nobody, !.withdrawn = FALSE]
    <3>1. TenderHas(tender', tender.status, tender.period, tender.awards, tender.agreement, tender.clarified,
                    Nobody, FALSE)
      BY <1>1, <2>3 DEF TenderRecord, TenderHas
    <3>2. Nobody \in {Whole, Lot, Nobody}
      OBVIOUS
    <3> QED BY <3>1, <3>2, Zenon
  <2>4. CASE tender' = [tender EXCEPT !.clarified = TRUE]
    <3>1. TenderHas(tender', tender.status, tender.period, tender.awards, tender.agreement, TRUE,
                    tender.cancelling, tender.withdrawn)
      BY <1>1, <2>4 DEF TenderRecord, TenderHas
    <3> QED BY <1>1, <3>1, Zenon
  <2> QED BY <1>2, <2>1, <2>2, <2>3, <2>4
<1> QED BY <1>3, FlagsSet

\* Before it is signed, contracts of the agreement are refused or priced.
LEMMA PatchContractSound ==
  ASSUME TenderInv(tender), NEW b \in DOMAIN tender.agreement.contracts, NEW status \in {"active", "unsuccessful"},
         NEW price \in Prices \cup {0}, PatchContract(b, status, price)
  PROVE  TenderInv(tender')
<1> DEFINE contracts == [tender.agreement.contracts EXCEPT ![b] = [status |-> status, price |-> price]]
           agreed == [tender.agreement EXCEPT !.contracts = contracts]
<1>1. /\ tender.status = "active.awarded" /\ price <= b
      /\ tender' = [tender EXCEPT !.agreement.contracts[b] = [status |-> status, price |-> price]]
  BY DEF PatchContract, MayPatchAgreement, Save
<1>2. /\ TenderTyped(tender) /\ TenderRecord(tender) /\ tender.agreement \in Agreed
      /\ tender.agreement.status = "pending" /\ AgreementFits(tender) /\ BidsFit(tender)
  BY <1>1 DEF TenderInv, TenderTyped
<1>3. tender' = [tender EXCEPT !.agreement = agreed]
  BY <1>1, Zenon
<1>4. tender.agreement.contracts \in ContractsOf
  BY <1>2 DEF Agreed
<1>5. price \in Nat /\ price >= 0
  <2>1. \A x \in Prices : x \in Nat
    BY PricesAssumption
  <2>2. price \in Nat
    BY <2>1
  <2> QED BY <2>2
<1>6. /\ contracts \in ContractsOf /\ DOMAIN contracts = DOMAIN tender.agreement.contracts
      /\ contracts[b].price = price
      /\ \A x \in DOMAIN contracts : x # b => contracts[x] = tender.agreement.contracts[x]
  <2> DEFINE c == tender.agreement.contracts
             new == [status |-> status, price |-> price]
  <2>1. DOMAIN c \in SUBSET Bids /\ \A s \in DOMAIN c : c[s] \in Contract
    BY <1>4, ContractsTyped
  <2>2. new \in Contract /\ new.price = price
    BY <1>5 DEF Contract
  <2>3. c = [s \in DOMAIN c |-> c[s]]
    BY <1>4 DEF ContractsOf
  <2> HIDE DEF new, c
  <2>4. [c EXCEPT ![b] = new] \in [DOMAIN c -> Contract]
    BY <2>1, <2>2, <2>3
  <2>5. [c EXCEPT ![b] = new] \in ContractsOf
    BY <2>1, <2>4 DEF ContractsOf
  <2> QED BY <2>2, <2>3, <2>5 DEF c, new
<1> HIDE DEF contracts
<1>7. agreed \in Agreed /\ agreed.status = "pending" /\ agreed.contracts = contracts
  BY <1>2, <1>6 DEF Agreed
<1> HIDE DEF agreed
<1>8. TenderHas(tender', tender.status, tender.period, tender.awards, agreed, tender.clarified,
                tender.cancelling, tender.withdrawn)
  BY <1>2, <1>3, TenderRewritten
<1>9. /\ TenderRecord(tender') /\ tender'.status = "active.awarded" /\ tender'.period = tender.period
      /\ tender'.awards = tender.awards /\ tender'.agreement = agreed /\ tender'.cancelling = tender.cancelling
  <2>1. tender.status = "active.awarded"
    BY <1>1
  <2> QED BY <1>8, <2>1, TenderFields
<1>10. TenderTyped(tender')
  BY <1>2, <1>7, <1>9 DEF TenderTyped, TenderStatus
<1>11. BidsFit(tender')
  BY <1>2, <1>9, BidsCarried
<1>12. AgreementFits(tender')
  <2>1. ASSUME NEW s PROVE BidsWith(tender', {s}) = BidsWith(tender, {s})
    BY <1>9 DEF BidsWith, Awards
  <2>2. ~ Disputed(tender')
    BY <1>2, <1>9 DEF AgreementFits, Disputed, Awards
  <2>3. \A x \in DOMAIN contracts : contracts[x].price >= 0 /\ contracts[x].price <= x
    BY <1>1, <1>2, <1>5, <1>6 DEF AgreementFits
  <2>4. /\ DOMAIN contracts = BidsWith(tender', {"active"}) /\ Cardinality(DOMAIN contracts) >= MinBids
        /\ BidsWith(tender', {"pending"}) = {}
        /\ \A i \in DOMAIN tender'.awards : tender'.awards[i].status = "active" => tender'.awards[i].period = "over"
    BY <1>2, <1>6, <1>9, <2>1 DEF AgreementFits
  <2>5. tender'.agreement.contracts = contracts /\ tender'.agreement.status # "active"
    BY <1>7, <1>9
  <2> QED BY <2>2, <2>3, <2>4, <2>5, Zenon DEF AgreementFits
<1> QED BY <1>7, <1>9, <1>10, <1>11, <1>12 DEF TenderInv, Deciding

\* The agreement is signed or refused, and the tender with it.
LEMMA AgreementEnds ==
  ASSUME TenderInv(tender), SignAgreement \/ RefuseAgreement
  PROVE  TenderInv(tender')
<1> DEFINE c == tender.agreement.contracts
           inForce == {b \in DOMAIN c : c[b].status = "active"}
<1>1. tender.status = "active.awarded"
  BY DEF SignAgreement, RefuseAgreement, MaySign, MayPatchAgreement
<1>2. /\ TenderTyped(tender) /\ TenderRecord(tender) /\ tender.agreement \in Agreed
      /\ tender.agreement.status = "pending" /\ AgreementFits(tender) /\ BidsFit(tender)
  BY <1>1 DEF TenderInv, TenderTyped
<1>3. PICK st \in {"active", "unsuccessful"}, v \in {"complete", "unsuccessful"} :
        /\ tender' = [tender EXCEPT !.agreement.status = st, !.status = v]
        /\ v = "complete" <=> st = "active"
        /\ st = "active" => (\A b \in inForce : c[b].price # 0) /\ Cardinality(inForce) >= MinBids
  <2>1. CASE SignAgreement
    <3>1. /\ tender' = [tender EXCEPT !.agreement.status = "active", !.status = "complete"]
          /\ (\A b \in inForce : c[b].price # 0) /\ Cardinality(inForce) >= MinBids
      BY <2>1, Zenon DEF SignAgreement, MaySign, Save
    <3> QED BY <3>1
  <2>2. CASE RefuseAgreement
    <3>1. tender' = [tender EXCEPT !.agreement.status = "unsuccessful", !.status = "unsuccessful"]
      BY <2>2, Zenon DEF RefuseAgreement, Save
    <3> QED BY <3>1
  <2> QED BY <2>1, <2>2
<1> DEFINE agreed == [tender.agreement EXCEPT !.status = st]
<1>4. tender' = [[tender EXCEPT !.agreement = agreed] EXCEPT !.status = v]
  BY <1>3, Zenon
<1>5. agreed \in Agreed /\ agreed.status = st /\ agreed.contracts = c
  BY <1>2 DEF Agreed
<1> HIDE DEF agreed
<1>6. TenderHas(tender', v, tender.period, tender.awards, agreed, tender.clarified,
                tender.cancelling, tender.withdrawn)
  BY <1>2, <1>4 DEF TenderRecord, TenderHas
<1>7. /\ TenderRecord(tender') /\ tender'.status = v /\ tender'.period = tender.period
      /\ tender'.awards = tender.awards /\ tender'.agreement = agreed /\ tender'.cancelling = tender.cancelling
  BY <1>6, TenderFields
<1>8. TenderTyped(tender')
  BY <1>2, <1>5, <1>7 DEF TenderTyped, TenderStatus, Finished
<1>9. BidsFit(tender')
  BY <1>2, <1>7, BidsCarried
<1>10. AgreementFits(tender')
  <2>1. ASSUME NEW s PROVE BidsWith(tender', {s}) = BidsWith(tender, {s})
    BY <1>7, WithStatusCarried
  <2>2. ~ Disputed(tender')
    BY <1>2, <1>7 DEF AgreementFits, Disputed, Awards
  <2>3. tender'.agreement.contracts = c /\ tender'.agreement.status = st
    BY <1>5, <1>7
  <2>4. /\ DOMAIN c = BidsWith(tender', {"active"}) /\ Cardinality(DOMAIN c) >= MinBids
        /\ BidsWith(tender', {"pending"}) = {}
        /\ \A b \in DOMAIN c : c[b].price >= 0 /\ c[b].price <= b
        /\ \A i \in DOMAIN tender'.awards : tender'.awards[i].status = "active" => tender'.awards[i].period = "over"
    BY <1>2, <1>7, <2>1 DEF AgreementFits
  <2> QED BY <1>3, <2>2, <2>3, <2>4, Zenon DEF AgreementFits
<1>11. v \notin {"active.auction", "active.awarded", "cancelled"} \cup Deciding
       /\ v # "active.qualification.stand-still"
  BY DEF Deciding
<1> QED BY <1>3, <1>5, <1>7, <1>8, <1>9, <1>10, <1>11 DEF TenderInv

\* Every step of the tender keeps its invariant.
LEMMA TenderNextSound ==
  ASSUME TenderInv(tender), Next
  PROVE  TenderInv(tender')
<1>1. CASE PostAuction
  BY <1>1, AuctionPosted
<1>2. CASE StartStandStill
  BY <1>2, StandStillStarted
<1>3. CASE AgreementStep
  BY <1>3, AgreementEnds, PatchContractSound DEF AgreementStep
<1>4. CASE Cancelling \/ EndClarifications
  BY <1>4, CancellingSound
<1>5. CASE Chronograph
  BY <1>5, CheckStatusSound DEF Chronograph
<1>6. CASE EndPeriod
  BY <1>6, EndPeriodSound
<1>7. CASE \E i \in Nth(tender.awards) : AwardStep(i)
  <2>1. PICK i \in DOMAIN tender.awards : AwardStep(i)
    BY <1>7 DEF Nth
  <2>2. CASE AcceptAward(i)
    BY <2>2, AcceptSound
  <2>3. CASE RejectAward(i)
    BY <2>3, RejectSound
  <2>4. CASE ReconsiderAward(i)
    BY <2>4, ReconsiderSound
  <2>5. CASE StartAnew(i)
    BY <2>5, StartAnewSound
  <2>6. CASE PostComplaint(i)
    BY <2>6, PostComplaintSound
  <2>7. CASE \E to \in ComplaintStatus : PatchComplaint(i, to)
    BY <2>7, PatchComplaintSound
  <2>8. CASE EndOldPeriod(i)
    BY <2>8, EndOldPeriodSound
  <2> QED BY <2>1, <2>2, <2>3, <2>4, <2>5, <2>6, <2>7, <2>8, Zenon DEF AwardStep
<1> QED BY <1>1, <1>2, <1>3, <1>4, <1>5, <1>6, <1>7, Zenon DEF Next

-----------------------------------------------------------------------------
(* What the invariant of the tender implies.                               *)

\* As many awards are live as bids are the best.
LEMMA LiveAreFew ==
  ASSUME NEW t, TenderTyped(t), BidsFit(t)
  PROVE  Cardinality({i \in DOMAIN t.awards : t.awards[i].status \in Live}) <= MaxAwardsCount
<1> DEFINE live == {i \in DOMAIN t.awards : t.awards[i].status \in Live}
           B == BidsWith(t, Live)
           f == [i \in live |-> t.awards[i].bid]
<1>1. Bids \ BidsWith(t, {"unsuccessful"}) \in SUBSET Bids
  OBVIOUS
<1>2. IsFiniteSet(B) /\ Cardinality(B) <= MaxAwardsCount
  <2>1. B = Best(Bids \ BidsWith(t, {"unsuccessful"}))
    BY DEF BidsFit
  <2> HIDE DEF B
  <2> QED BY <1>1, <2>1, BestBounds
<1>3. f \in Injection(live, B)
  <2>1. \A i \in live : t.awards[i].bid \in B
    BY BidsWithIs
  <2>2. \A i, j \in live : t.awards[i].bid = t.awards[j].bid => i = j
    BY DEF BidsFit, LiveOnce
  <2> HIDE DEF live, B
  <2>3. f \in [live -> B]
    BY <2>1
  <2>4. \A i, j \in live : f[i] = f[j] => i = j
    BY <2>2
  <2> QED BY <2>3, <2>4 DEF Injection, IsInjective
<1> HIDE DEF live, B, f
<1>4. IsFiniteSet(live) /\ Cardinality(live) <= Cardinality(B)
  BY <1>2, <1>3, FS_Injection
<1>5. Cardinality(live) \in Nat /\ Cardinality(B) \in Nat /\ MaxAwardsCount \in Nat
  BY <1>2, <1>4, FS_CardinalityType, BidsAssumption
<1>6. Cardinality(live) <= MaxAwardsCount
  BY <1>2, <1>4, <1>5
<1> QED BY <1>6 DEF live

\* What TenderInv says of the tender is what the run checks of it.
LEMMA TenderAsChecked ==
  ASSUME TenderInv(tender)
  PROVE  TypeOK /\ AwardsSound /\ AgreementSound
<1>1. TenderTyped(tender)
  BY DEF TenderInv
<1>2. TypeOK
  BY <1>1 DEF TypeOK, TenderTyped, TenderStatus, TenderAward, Agreed
<1>3. AwardsSound
  <2> SUFFICES ASSUME tender.status \notin {"active.auction", "cancelled"} PROVE AwardsSound
    BY DEF AwardsSound
  <2> DEFINE live == {i \in Nth(tender.awards) : tender.awards[i].status \in {"pending", "active"}}
  <2>1. BidsFit(tender)
    BY DEF TenderInv
  <2>2. live = {i \in DOMAIN tender.awards : tender.awards[i].status \in Live}
    BY DEF Nth, Live
  <2>3. Cardinality(live) <= MaxAwardsCount
    BY <1>1, <2>1, <2>2, LiveAreFew
  <2>4. \A i, j \in live : tender.awards[i].bid = tender.awards[j].bid => i = j
    BY <2>1, <2>2 DEF BidsFit, LiveOnce
  <2>5. {tender.awards[i].bid : i \in live} = BidsWith(tender, Live)
    <3>1. ASSUME NEW b
          PROVE  b \in {tender.awards[i].bid : i \in live} <=> b \in BidsWith(tender, Live)
      <4>1. b \in BidsWith(tender, Live) <=>
              \E i \in DOMAIN tender.awards : tender.awards[i].status \in Live /\ b = tender.awards[i].bid
        BY BidsWithIs
      <4> QED BY <2>2, <4>1
    <3> QED BY <3>1
  <2>6. {tender.awards[i].bid : i \in live} = Best(Bids \ BidsWith(tender, {"unsuccessful"}))
    BY <2>1, <2>5 DEF BidsFit
  <2> QED BY <2>3, <2>4, <2>6, Zenon DEF AwardsSound
<1>4. AgreementSound
  <2> SUFFICES ASSUME tender.agreement.status # "none" PROVE AgreementSound
    BY DEF AgreementSound
  <2> DEFINE contracts == tender.agreement.contracts
             active == {b \in DOMAIN contracts : contracts[b].status = "active"}
  <2>1. AgreementFits(tender)
    BY DEF TenderInv
  <2>2. \A a \in Awards(tender) : a.status = "active" => a.period = "over"
    BY <2>1 DEF AgreementFits, Awards, ToSet
  <2>3. tender.agreement.status = "active" =>
          Cardinality(active) >= MinBids /\ \A b \in active : contracts[b].price \in 1 .. b
    <3> SUFFICES ASSUME tender.agreement.status = "active"
                 PROVE  Cardinality(active) >= MinBids /\ \A b \in active : contracts[b].price \in 1 .. b
      OBVIOUS
    <3>1. Cardinality(active) >= MinBids /\ \A b \in active : contracts[b].price # 0
      BY <2>1 DEF AgreementFits
    <3>2. ASSUME NEW b \in active PROVE contracts[b].price \in 1 .. b
      <4>1. contracts \in ContractsOf
        BY <1>1 DEF TenderTyped, Agreed
      <4>2. b \in Bids /\ contracts[b] \in Contract
        BY <4>1, ContractsTyped
      <4>3. b \in Nat /\ contracts[b].price \in Int
        BY <4>2 DEF Bids, Contract
      <4>4. contracts[b].price >= 0 /\ contracts[b].price <= b /\ contracts[b].price # 0
        BY <2>1, <3>1 DEF AgreementFits
      <4> HIDE DEF contracts
      <4> QED BY <4>3, <4>4
    <3> QED BY <3>1, <3>2
  <2> QED BY <2>1, <2>2, <2>3, Zenon DEF AgreementFits, AgreementSound
<1> QED BY <1>2, <1>3, <1>4

\* When the periods have ended and the chronograph would then change the tender,
\* one of them runs or the check is due: next_check has its date.
LEMMA NextCheckIsDated ==
  ASSUME TenderInv(tender)
  PROVE  NothingIsForgotten
<1> DEFINE ended == WithPeriodsEnded(tender)
           later == WithoutDrafts(ended)
<1>1. TenderTyped(tender)
  BY DEF TenderInv
<1>2. /\ TenderTyped(ended)
      /\ ended.status = tender.status /\ ended.period = Ended(tender.period)
      /\ DOMAIN ended.awards = DOMAIN tender.awards
      /\ \A i \in DOMAIN tender.awards :
           /\ ended.awards[i].period = Ended(tender.awards[i].period)
           /\ ended.awards[i].complaint = tender.awards[i].complaint
  BY <1>1, PeriodsEnded
<1> SUFFICES ASSUME tender.status \notin Finished, Checked(ended, FALSE) # ended, ~ next_check(tender)
             PROVE  FALSE
  BY Zenon DEF NothingIsForgotten
<1> HIDE DEF ended
<1>3. later = ended
  <2>1. \A i \in DOMAIN tender.awards : tender.awards[i].complaint = "draft" => tender.awards[i].period \in {"unset", "open"}
    BY DEF next_check, Awards, ToSet
  <2>2. \A i \in DOMAIN ended.awards :
          /\ ended.awards[i] \in TenderAward
          /\ ended.awards[i].period = "over" => ended.awards[i].complaint # "draft"
    <3>1. \A i \in DOMAIN ended.awards : ended.awards[i] \in TenderAward
      BY <1>2, AwardsAre
    <3> QED BY <1>2, <2>1, <3>1 DEF Ended
  <2> DEFINE awards == [i \in DOMAIN ended.awards |->
                IF ended.awards[i].period = "over"
                THEN [ended.awards[i] EXCEPT !.complaint = Mistaken(ended.awards[i].complaint)]
                ELSE ended.awards[i]]
  <2>3. later = [ended EXCEPT !.awards = awards]
    BY Zenon DEF WithoutDrafts
  <2>4. \A i \in DOMAIN ended.awards : awards[i] = ended.awards[i]
    <3>1. ASSUME NEW a \in TenderAward, a.complaint # "draft"
          PROVE  [a EXCEPT !.complaint = Mistaken(a.complaint)] = a
      <4>1. Mistaken(a.complaint) = a.complaint
        BY <3>1 DEF Mistaken
      <4> QED BY <4>1 DEF TenderAward
    <3> QED BY <2>2, <3>1
  <2>5. awards = [i \in DOMAIN ended.awards |-> awards[i]]
    OBVIOUS
  <2> HIDE DEF awards
  <2>6. ended.awards = [i \in DOMAIN ended.awards |-> ended.awards[i]] /\ TenderRecord(ended)
    BY <1>2 DEF TenderTyped
  <2>7. awards = ended.awards
    BY <2>4, <2>5, <2>6
  <2> HIDE DEF later
  <2> QED BY <2>3, <2>6, <2>7 DEF TenderRecord, TenderHas
<1>4. Checked(ended, FALSE) = later \/ Checked(ended, FALSE) = EndOfStandStill(later)
  BY Zenon DEF Checked
<1>5. EndOfStandStill(ended) # ended
  BY <1>3, <1>4
<1>6. ended.status = "active.qualification.stand-still" /\ ended.period = "over"
  BY <1>5, Zenon DEF EndOfStandStill
<1>7. tender.status = "active.qualification.stand-still" /\ tender.period # "unset"
  BY <1>2, <1>6 DEF Ended
<1> QED BY <1>7 DEF next_check

-----------------------------------------------------------------------------
(* The three documents together.                                           *)

\* The inductive invariant.
IInv == TenderInv(tender) /\ ChangesInv /\ SelectionInv(selection)

\* The three documents start sound.
LEMMA FrameworksStart == FrameworksInit => IInv
<1> SUFFICES ASSUME FrameworksInit PROVE IInv
  OBVIOUS
<1>1. /\ agreement = Changes!NoAgreementYet /\ selection = Selection!NoSelectionYet /\ Init
  BY DEF FrameworksInit
<1>2. TenderHas(tender, "active.auction", "unset", <<>>, NoAgreement, FALSE, Nobody, FALSE)
  BY <1>1 DEF Init, TenderHas
<1>3. /\ TenderRecord(tender) /\ tender.status = "active.auction" /\ tender.period = "unset"
      /\ tender.awards = <<>> /\ tender.agreement = NoAgreement /\ tender.cancelling = Nobody
  BY <1>2, TenderFields
<1>4. NoAgreement \in Agreed /\ NoAgreement.status = "none"
  BY NoContracts DEF NoAgreement, Agreed
<1>5. TenderTyped(tender)
  BY <1>3, <1>4 DEF TenderTyped, TenderStatus
<1>6. TenderInv(tender)
  BY <1>3, <1>4, <1>5 DEF TenderInv, Deciding
<1>7. ChangesInv
  BY <1>1, NoAgreementSound
<1>8. SelectionInv(selection)
  BY <1>1, NoSelection
<1> QED BY <1>6, <1>7, <1>8 DEF IInv

\* Steps of the other documents leave the agreement as it is.
LEMMA AgreementUnchanged ==
  ASSUME ChangesInv, agreement' = agreement
  PROVE  ChangesInv'
<1>1. AgreementTyped' /\ OnlyLastPending'
  BY DEF ChangesInv, AgreementTyped, OnlyLastPending
<1>2. Changes!HasPending' = Changes!HasPending /\ Changes!Active' = Changes!Active
  BY DEF Changes!HasPending, Changes!Active
<1>3. Changes!PricesFollowChanges'
  BY <1>2 DEF ChangesInv, Changes!PricesFollowChanges
<1>4. Changes!SigningInOrder'
  BY <1>2 DEF ChangesInv, Changes!SigningInOrder, Changes!Clock
<1> QED BY <1>1, <1>3, <1>4 DEF ChangesInv

\* A bridge registers what the tender has agreed.
LEMMA RegisterSound ==
  ASSUME IInv, Register
  PROVE  TenderInv(tender') /\ ChangesInv'
<1> DEFINE c == tender.agreement.contracts
           inForce == {b \in DOMAIN c : c[b].status = "active"}
           registered == [b \in inForce |-> c[b]]
<1>1. /\ tender.status = "complete" /\ tender' = PutAway(tender)
      /\ \E d \in Changes!Dates : agreement' = Changes!Registered(registered, d)
  BY Zenon DEF Register
<1>2. /\ TenderInv(tender) /\ TenderTyped(tender) /\ TenderRecord(tender)
      /\ tender.agreement.status = "active" /\ AgreementFits(tender)
  BY <1>1 DEF IInv, TenderInv, TenderTyped
<1>3. c \in ContractsOf
  BY <1>2 DEF TenderTyped, Agreed
<1>4. registered \in ContractsOf
  <2>1. DOMAIN c \in SUBSET Bids /\ \A s \in DOMAIN c : c[s] \in Contract
    BY <1>3, ContractsTyped
  <2>2. registered \in [inForce -> Contract] /\ inForce \in SUBSET Bids
    BY <2>1
  <2> QED BY <2>2 DEF ContractsOf
<1>5. \A s \in DOMAIN registered : registered[s].price > 0
  <2> SUFFICES ASSUME NEW s \in inForce PROVE c[s].price > 0
    OBVIOUS
  <2>1. c[s].price >= 0 /\ c[s].price # 0
    BY <1>2 DEF AgreementFits
  <2>2. c[s] \in Contract
    BY <1>3, ContractsTyped
  <2>3. c[s].price \in Int
    BY <2>2 DEF Contract
  <2> HIDE DEF c
  <2> QED BY <2>1, <2>3
<1>6. ChangesInv'
  <2>1. PICK d \in Changes!Dates : agreement' = Changes!Registered(registered, d)
    BY <1>1
  <2> HIDE DEF registered
  <2>2. d \in Changes!Dates \cup {Changes!Unsigned}
    OBVIOUS
  <2> QED BY <1>4, <1>5, <2>1, <2>2, RegisteredSound
<1>7. TenderInv(tender')
  <2>1. TenderHas(tender', "cancelled", "over", <<>>, NoAgreement, tender.clarified, Nobody, FALSE)
    BY <1>1, <1>2 DEF PutAway, TenderRecord, TenderHas
  <2>2. /\ TenderRecord(tender') /\ tender'.status = "cancelled" /\ tender'.period = "over"
        /\ tender'.awards = <<>> /\ tender'.agreement = NoAgreement /\ tender'.cancelling = Nobody
    BY <2>1, TenderFields
  <2>3. NoAgreement \in Agreed /\ NoAgreement.status = "none"
    BY NoContracts DEF NoAgreement, Agreed
  <2>4. TenderTyped(tender')
    BY <2>2, <2>3 DEF TenderTyped, TenderStatus, Finished
  <2> QED BY <2>2, <2>3, <2>4 DEF TenderInv, Deciding
<1> QED BY <1>6, <1>7

\* A selection copies the agreement as it is at that moment.
LEMMA SelectionStepSound ==
  ASSUME IInv, SelectionStep
  PROVE  ChangesInv' /\ SelectionInv(selection')
<1>1. ChangesInv /\ SelectionInv(selection) /\ AgreementTyped
  BY DEF IInv, ChangesInv
<1>2. SelectionInv(selection')
  <2>1. CASE Selection!SelectionNext
    BY <1>1, <2>1, SelectionNextSound
  <2>2. CASE Selection!CopyAgreement(CopyOfAgreement)
    BY <1>1, <2>2, CopySound, DraftSound
  <2> QED BY <2>1, <2>2 DEF SelectionStep
<1>3. agreement' = agreement \/ agreement' = Changes!Registered(<<>>, Changes!Unsigned)
  BY Zenon DEF SelectionStep
<1>4. ChangesInv'
  <2>1. CASE agreement' = agreement
    BY <1>1, <2>1, AgreementUnchanged
  <2>2. CASE agreement' = Changes!Registered(<<>>, Changes!Unsigned)
    <3> DEFINE c == <<>>
    <3>1. c \in ContractsOf /\ DOMAIN c = {}
      BY NoContracts
    <3> HIDE DEF c
    <3>2. \A s \in DOMAIN c : c[s].price > 0
      BY <3>1
    <3>3. Changes!Unsigned \in Changes!Dates \cup {Changes!Unsigned}
      OBVIOUS
    <3>4. agreement' = Changes!Registered(c, Changes!Unsigned)
      BY <2>2 DEF c
    <3> QED BY <3>1, <3>2, <3>3, <3>4, RegisteredSound
  <2> QED BY <1>3, <2>1, <2>2
<1> QED BY <1>2, <1>4

\* Every step keeps all three invariants.
LEMMA FrameworksNextSound ==
  IInv /\ [FrameworksNext]_vars => IInv'
<1> SUFFICES ASSUME IInv, [FrameworksNext]_vars PROVE IInv'
  OBVIOUS
<1>0. TenderInv(tender) /\ ChangesInv /\ SelectionInv(selection)
  BY DEF IInv
<1>1. CASE TenderStep
  <2>1. Next /\ agreement' = agreement /\ selection' = selection
    BY <1>1 DEF TenderStep
  <2>2. TenderInv(tender')
    BY <1>0, <2>1, TenderNextSound
  <2>3. ChangesInv'
    BY <1>0, <2>1, AgreementUnchanged
  <2>4. SelectionInv(selection')
    BY <1>0, <2>1
  <2> QED BY <2>2, <2>3, <2>4 DEF IInv
<1>2. CASE Register
  <2>1. TenderInv(tender') /\ ChangesInv'
    BY <1>2, RegisterSound
  <2>2. SelectionInv(selection')
    BY <1>0, <1>2 DEF Register
  <2> QED BY <2>1, <2>2 DEF IInv
<1>3. CASE ChangeStep
  <2>1. Changes!AgreementNext /\ tender' = tender /\ selection' = selection
    BY <1>3 DEF ChangeStep
  <2>2. ChangesInv'
    BY <1>0, <2>1, AgreementNextSound
  <2>3. TenderInv(tender') /\ SelectionInv(selection')
    BY <1>0, <2>1
  <2> QED BY <2>2, <2>3 DEF IInv
<1>4. CASE SelectionStep
  <2>1. ChangesInv' /\ SelectionInv(selection')
    BY <1>4, SelectionStepSound
  <2>2. TenderInv(tender')
    BY <1>0, <1>4 DEF SelectionStep
  <2> QED BY <2>1, <2>2 DEF IInv
<1>5. CASE UNCHANGED vars
  <2>1. tender' = tender /\ agreement' = agreement /\ selection' = selection
    BY <1>5 DEF vars
  <2>2. ChangesInv'
    BY <1>0, <2>1, AgreementUnchanged
  <2>3. TenderInv(tender') /\ SelectionInv(selection')
    BY <1>0, <2>1
  <2> QED BY <2>2, <2>3 DEF IInv
<1> QED BY <1>1, <1>2, <1>3, <1>4, <1>5 DEF FrameworksNext

-----------------------------------------------------------------------------
(* The theorems.                                                           *)

\* The inductive invariant of the three documents: each is what its requests
\* leave it, and what one takes of another was sound when it was taken.
THEOREM FrameworksInvariant == Spec => []IInv
<1>1. FrameworksInit => IInv
  BY FrameworksStart
<1>2. IInv /\ [FrameworksNext]_vars => IInv'
  BY FrameworksNextSound
<1> QED BY <1>1, <1>2, PTL DEF Spec

\* In any number of rejections, reconsiderations and new starts, the awards of a
\* framework tender are those of its best bids, its agreement is made with all
\* who won, once nobody can complain, and the documents keep their types.
THEOREM FrameworksAreSound == Spec => []FrameworkSound
<1>1. IInv => FrameworkSound
  BY TenderAsChecked, ChangesAsChecked, SelectionAsChecked DEF IInv, FrameworkSound
<1> QED BY <1>1, FrameworksInvariant, PTL

\* Whatever the chronograph would do once the periods that run have ended,
\* next_check has a date for it.
THEOREM NothingIsForgottenEver == Spec => []NothingIsForgotten
<1>1. IInv => NothingIsForgotten
  BY NextCheckIsDated DEF IInv
<1> QED BY <1>1, FrameworksInvariant, PTL

\* The contracts of an agreement are what its active changes make of those that
\* were registered, each once and in order, with any offsets of the dates.
THEOREM PricesFollow == Spec => []Changes!PricesFollowChanges
<1>1. IInv => Changes!PricesFollowChanges
  BY ChangesAsChecked DEF IInv
<1> QED BY <1>1, FrameworksInvariant, PTL

\* With any offsets of the dates, which are compared as texts, and any number of
\* changes made, cancelled and dated anew, no change is signed, by local time,
\* before any that came into force before it or before the agreement; and the
\* contracts are what the active changes make of them.
THEOREM ChangesAreSound == Spec => []ChangesSound
<1>1. IInv => ChangesSound
  BY DEF IInv, ChangesInv, ChangesSound
<1> QED BY <1>1, FrameworksInvariant, PTL

\* No bid of a selection is beyond the copy of the agreement it rests on, which
\* was fit when the selection was set off, and the best bid still open wins.
THEOREM SelectionsAreSound == Spec => []SelectionSound
<1>1. IInv => SelectionSound
  BY SelectionAsChecked DEF IInv
<1> QED BY <1>1, FrameworksInvariant, PTL
=============================================================================
