------------------------ MODULE LimitedContractsProof ------------------------
(***************************************************************************)
(* The limited procedures and their contracts, for any lots, awards,       *)
(* cancellations, amounts and dates.  Every invariant of the tender is an  *)
(* operator of a document t, so that it can be followed through the        *)
(* cancellations that one visit of the chronograph puts into force.        *)
(***************************************************************************)
EXTENDS LimitedContracts, SequenceTheorems, FiniteSetTheorems, TLAPS

-----------------------------------------------------------------------------
(* The inductive invariant of the tender.                                  *)

LotState == {"active"} \cup Terminal
LotMaps == UNION {[S -> LotState] : S \in SUBSET Lots}
TenderRecord ==
  [type : {"reporting", "negotiation"}, status : {"draft", "active"} \cup Terminal,
   lots : LotMaps, awards : Seq(AwardRecord), cancellations : Seq(CancellationRecord)]

Shape(t) == t \in TenderRecord /\ Len(t.awards) <= MaxAwards

\* A reporting tender has no lots, no stand-still and nobody who objects.
ReportingIsPlain(t) ==
  ~ Negotiation(t) =>
    /\ LotsOf(t) = {}
    /\ \A i \in Nth(t.awards) : t.awards[i].period = "none"
    /\ \A k \in Nth(t.cancellations) :
         t.cancellations[k].complaints = <<>> /\ t.cancellations[k].status # "pending"

\* Every award is about a part of the tender, and no part has two live ones;
\* without lots a live award is the last one.
AwardsApart(t) ==
  /\ \A i \in Nth(t.awards) : t.awards[i].lot \in Units(t)
  /\ \A i, j \in Nth(t.awards) :
       t.awards[i].lot = t.awards[j].lot /\ t.awards[i].status \in Live /\ t.awards[j].status \in Live
         => i = j
  /\ LotsOf(t) = {} =>
       \A i \in Nth(t.awards) : t.awards[i].status \in Live => i = Len(t.awards)

\* A contract that is not cancelled is that of an active award.
ContractOfActive(t) ==
  \A i \in Nth(t.awards) :
    t.awards[i].contract \in {"pending", "terminated", "active"} => t.awards[i].status = "active"

\* A cancellation has complaints from its submission on only.
CancellationsFit(t) ==
  \A k \in Nth(t.cancellations) :
    t.cancellations[k].status = "draft" => t.cancellations[k].complaints = <<>>

\* No part is complete in a tender that is cancelled or about to be.
CompleteApart(t) ==
  t.status = "cancelled" \/ HasPending(t, Whole) =>
    \A l \in LotsOf(t) : t.lots[l] # "complete"

\* A resolved objection made the stand-still of award i run again.
Resumed(t, i) ==
  \E k \in Nth(t.cancellations) :
    /\ i \in t.cancellations[k].during
    /\ \E j \in Nth(t.cancellations[k].complaints) :
         t.cancellations[k].complaints[j] = "resolved"

StandStill(t) ==
  \A i \in Nth(t.awards) :
    t.awards[i].contract = "active" /\ t.awards[i].period = "running" => Resumed(t, i)

LimitedIInv(t) ==
  /\ Shape(t) /\ ReportingIsPlain(t) /\ AwardsApart(t) /\ ContractOfActive(t)
  /\ CancellationsFit(t) /\ CompleteApart(t) /\ StandStill(t)


-----------------------------------------------------------------------------
(* Reading and changing a document.                                        *)

\* A sequence changed in its elements only is a sequence of the same length.
LEMMA SameLength ==
  ASSUME NEW S, NEW T, NEW s \in Seq(S),
         NEW f \in [DOMAIN s -> T]
  PROVE  f \in Seq(T) /\ Len(f) = Len(s) /\ DOMAIN f = DOMAIN s
OBVIOUS

\* A document in shape, field by field.
LEMMA ShapeParts ==
  ASSUME NEW t, Shape(t)
  PROVE  /\ t = [type |-> t.type, status |-> t.status, lots |-> t.lots,
                 awards |-> t.awards, cancellations |-> t.cancellations]
         /\ t.type \in {"reporting", "negotiation"}
         /\ t.status \in {"draft", "active"} \cup Terminal
         /\ t.lots \in LotMaps /\ t.lots \in [LotsOf(t) -> LotState] /\ LotsOf(t) \subseteq Lots
         /\ t.awards \in Seq(AwardRecord) /\ t.cancellations \in Seq(CancellationRecord)
         /\ Nth(t.awards) = 1 .. Len(t.awards) /\ Len(t.awards) \in Nat
         /\ Nth(t.cancellations) = 1 .. Len(t.cancellations) /\ Len(t.cancellations) \in Nat
         /\ \A i \in Nth(t.awards) : t.awards[i] \in AwardRecord
         /\ \A k \in Nth(t.cancellations) : t.cancellations[k] \in CancellationRecord
<1>1. t \in TenderRecord
  BY DEF Shape
<1>2. /\ t = [type |-> t.type, status |-> t.status, lots |-> t.lots,
              awards |-> t.awards, cancellations |-> t.cancellations]
      /\ t.type \in {"reporting", "negotiation"}
      /\ t.status \in {"draft", "active"} \cup Terminal
      /\ t.lots \in LotMaps
      /\ t.awards \in Seq(AwardRecord) /\ t.cancellations \in Seq(CancellationRecord)
  BY <1>1 DEF TenderRecord
<1>3. t.lots \in [LotsOf(t) -> LotState] /\ LotsOf(t) \subseteq Lots
  BY <1>2 DEF LotMaps, LotsOf
<1>4. /\ DOMAIN t.awards = 1 .. Len(t.awards) /\ Len(t.awards) \in Nat
      /\ \A i \in 1 .. Len(t.awards) : t.awards[i] \in AwardRecord
  BY <1>2, LenProperties, ElementOfSeq
<1>5. /\ DOMAIN t.cancellations = 1 .. Len(t.cancellations) /\ Len(t.cancellations) \in Nat
      /\ \A i \in 1 .. Len(t.cancellations) : t.cancellations[i] \in CancellationRecord
  BY <1>2, LenProperties, ElementOfSeq
<1> QED BY <1>2, <1>3, <1>4, <1>5 DEF Nth

\* A document with other awards, cancellations or outcome is still a document.
LEMMA Rebuilt ==
  ASSUME NEW t, Shape(t), NEW x, NEW s
  PROVE  /\ [t EXCEPT !.awards = x] =
              [type |-> t.type, status |-> t.status, lots |-> t.lots,
               awards |-> x, cancellations |-> t.cancellations]
         /\ [t EXCEPT !.cancellations = x] =
              [type |-> t.type, status |-> t.status, lots |-> t.lots,
               awards |-> t.awards, cancellations |-> x]
         /\ [[t EXCEPT !.lots = x] EXCEPT !.status = s] =
              [type |-> t.type, status |-> s, lots |-> x,
               awards |-> t.awards, cancellations |-> t.cancellations]
<1>1. t = [type |-> t.type, status |-> t.status, lots |-> t.lots,
           awards |-> t.awards, cancellations |-> t.cancellations]
  BY ShapeParts
<1>2. PICK a, b, c, d, e :
        t = [type |-> a, status |-> b, lots |-> c, awards |-> d, cancellations |-> e]
  BY <1>1
<1>3. [t EXCEPT !.awards = x] =
        [type |-> a, status |-> b, lots |-> c, awards |-> x, cancellations |-> e]
  BY <1>2
<1>4. [t EXCEPT !.cancellations = x] =
        [type |-> a, status |-> b, lots |-> c, awards |-> d, cancellations |-> x]
  BY <1>2
<1>5. [t EXCEPT !.lots = x] =
        [type |-> a, status |-> b, lots |-> x, awards |-> d, cancellations |-> e]
  BY <1>2
<1>6. [[t EXCEPT !.lots = x] EXCEPT !.status = s] =
        [type |-> a, status |-> s, lots |-> x, awards |-> d, cancellations |-> e]
  <2>1. PICK v : v = [t EXCEPT !.lots = x]
    OBVIOUS
  <2>2. v = [type |-> a, status |-> b, lots |-> x, awards |-> d, cancellations |-> e]
    BY <1>5, <2>1, Zenon
  <2>3. [v EXCEPT !.status = s] =
          [type |-> a, status |-> s, lots |-> x, awards |-> d, cancellations |-> e]
    BY <2>2
  <2> QED BY <2>1, <2>3, Zenon
<1>7. t.type = a /\ t.status = b /\ t.lots = c /\ t.awards = d /\ t.cancellations = e
  BY <1>2
<1> QED BY <1>3, <1>4, <1>6, <1>7, Zenon

\* An update of one part of a field is an update of the field.
LEMMA PartOfField ==
  ASSUME NEW t, Shape(t), NEW i, NEW x
  PROVE  /\ [t EXCEPT !.awards[i] = x] = [t EXCEPT !.awards = [t.awards EXCEPT ![i] = x]]
         /\ [t EXCEPT !.lots[i] = x] = [t EXCEPT !.lots = [t.lots EXCEPT ![i] = x]]
         /\ [t EXCEPT !.cancellations[i] = x] =
              [t EXCEPT !.cancellations = [t.cancellations EXCEPT ![i] = x]]
         /\ [t EXCEPT !.cancellations[i].status = x] =
              [t EXCEPT !.cancellations =
                 [t.cancellations EXCEPT ![i] = [t.cancellations[i] EXCEPT !.status = x]]]
OBVIOUS

\* What a change of awards (without moving a live one) may make of award i.
Follows(t, i, a) ==
  /\ a \in AwardRecord /\ a.lot \in Units(t)
  /\ a.status \in Live => t.awards[i].status \in Live /\ a.lot = t.awards[i].lot
  /\ a.contract \in {"pending", "terminated", "active"} => a.status = "active"
  /\ ~ Negotiation(t) => a.period = "none"
  /\ a.contract = "active" /\ a.period = "running" =>
       \/ Resumed(t, i)
       \/ t.awards[i].contract = "active" /\ t.awards[i].period = "running"

LEMMA AwardsFollow ==
  ASSUME NEW t, LimitedIInv(t),
         NEW aw, DOMAIN aw = Nth(t.awards), aw = [i \in Nth(t.awards) |-> aw[i]],
         \A i \in Nth(t.awards) : Follows(t, i, aw[i]),
         NEW u, u = [t EXCEPT !.awards = aw]
  PROVE  LimitedIInv(u)
<1>1. Shape(t)
  BY DEF LimitedIInv
<1>2. aw \in Seq(AwardRecord) /\ Len(aw) = Len(t.awards) /\ DOMAIN aw = DOMAIN t.awards
  <2>1. aw \in [DOMAIN t.awards -> AwardRecord]
    BY DEF Follows, Nth
  <2> QED BY <1>1, <2>1, ShapeParts, SameLength
<1>3. /\ u.type = t.type /\ u.status = t.status /\ u.lots = t.lots /\ u.awards = aw
      /\ u.cancellations = t.cancellations
      /\ u = [type |-> t.type, status |-> t.status, lots |-> t.lots, awards |-> aw,
              cancellations |-> t.cancellations]
  BY <1>1, Rebuilt
<1>4. /\ LotsOf(u) = LotsOf(t) /\ Units(u) = Units(t) /\ Negotiation(u) = Negotiation(t)
      /\ Nth(u.awards) = Nth(t.awards)
      /\ \A x : HasPending(u, x) = HasPending(t, x)
  BY <1>2, <1>3 DEF LotsOf, Units, Negotiation, Nth, HasPending
<1>5. Shape(u)
  BY <1>1, <1>2, <1>3, ShapeParts DEF Shape, TenderRecord
<1>6. ReportingIsPlain(u)
  BY <1>3, <1>4 DEF LimitedIInv, ReportingIsPlain, Follows
<1>7. AwardsApart(u)
  <2>1. \A i \in Nth(u.awards) : u.awards[i].lot \in Units(u)
    BY <1>3, <1>4 DEF LimitedIInv, AwardsApart, Follows
  <2>2. \A i \in Nth(u.awards) : u.awards[i].status \in Live =>
          t.awards[i].status \in Live /\ u.awards[i].lot = t.awards[i].lot
    BY <1>3, <1>4 DEF Follows
  <2>3. Len(u.awards) = Len(t.awards)
    BY <1>2, <1>3
  <2> QED BY <2>1, <2>2, <2>3, <1>4 DEF LimitedIInv, AwardsApart
<1>8. ContractOfActive(u)
  BY <1>3, <1>4 DEF ContractOfActive, Follows
<1>9. CancellationsFit(u)
  BY <1>3 DEF LimitedIInv, CancellationsFit
<1>10. CompleteApart(u)
  BY <1>3, <1>4 DEF LimitedIInv, CompleteApart
<1>11. StandStill(u)
  <2>1. \A i \in Nth(t.awards) : Resumed(u, i) = Resumed(t, i)
    BY <1>3 DEF Resumed
  <2>2. \A i \in Nth(t.awards) : aw[i].contract = "active" /\ aw[i].period = "running" =>
          Resumed(t, i)
    BY DEF Follows, LimitedIInv, StandStill
  <2> QED BY <2>1, <2>2, <1>3, <1>4 DEF StandStill
<1> QED BY <1>5, <1>6, <1>7, <1>8, <1>9, <1>10, <1>11 DEF LimitedIInv

\* What a change of cancellations may make of cancellation k.
CancellationFollows(t, k, c) ==
  LET old == t.cancellations[k] IN
  /\ c \in CancellationRecord /\ c.of = old.of
  /\ c.status = "draft" => c.complaints = <<>>
  /\ c.status = "pending" /\ old.status # "pending" =>
       (c.of = Whole => \A l \in LotsOf(t) : t.lots[l] # "complete")
  /\ ~ Negotiation(t) => c.complaints = <<>> /\ c.status # "pending"
  /\ \A j \in Nth(old.complaints) : old.complaints[j] = "resolved" =>
       /\ j \in Nth(c.complaints) /\ c.complaints[j] = "resolved"
       /\ c.during = old.during

LEMMA CancellationsFollow ==
  ASSUME NEW t, LimitedIInv(t),
         NEW cs, DOMAIN cs = Nth(t.cancellations), cs = [k \in Nth(t.cancellations) |-> cs[k]],
         \A k \in Nth(t.cancellations) : CancellationFollows(t, k, cs[k]),
         NEW u, u = [t EXCEPT !.cancellations = cs]
  PROVE  LimitedIInv(u)
<1>1. Shape(t)
  BY DEF LimitedIInv
<1>2. cs \in Seq(CancellationRecord) /\ DOMAIN cs = DOMAIN t.cancellations
  <2>1. cs \in [DOMAIN t.cancellations -> CancellationRecord]
    BY DEF CancellationFollows, Nth
  <2> QED BY <1>1, <2>1, ShapeParts, SameLength
<1>3. /\ u.type = t.type /\ u.status = t.status /\ u.lots = t.lots /\ u.awards = t.awards
      /\ u.cancellations = cs
      /\ u = [type |-> t.type, status |-> t.status, lots |-> t.lots, awards |-> t.awards,
              cancellations |-> cs]
  BY <1>1, Rebuilt
<1>4. /\ LotsOf(u) = LotsOf(t) /\ Units(u) = Units(t) /\ Negotiation(u) = Negotiation(t)
      /\ Nth(u.cancellations) = Nth(t.cancellations)
  BY <1>2, <1>3 DEF LotsOf, Units, Negotiation, Nth
<1>5. Shape(u)
  BY <1>1, <1>2, <1>3, ShapeParts DEF Shape, TenderRecord
<1>6. ReportingIsPlain(u)
  <2> SUFFICES ASSUME ~ Negotiation(t)
               PROVE  /\ LotsOf(t) = {}
                      /\ \A i \in Nth(t.awards) : t.awards[i].period = "none"
                      /\ \A k \in Nth(t.cancellations) :
                           cs[k].complaints = <<>> /\ cs[k].status # "pending"
    BY <1>3, <1>4 DEF ReportingIsPlain
  <2>1. ASSUME NEW k \in Nth(t.cancellations)
        PROVE  cs[k].complaints = <<>> /\ cs[k].status # "pending"
    <3>1. CancellationFollows(t, k, cs[k])
      OBVIOUS
    <3> QED BY <3>1 DEF CancellationFollows
  <2> QED BY <2>1 DEF LimitedIInv, ReportingIsPlain
<1>7. AwardsApart(u) /\ ContractOfActive(u)
  BY <1>3, <1>4 DEF LimitedIInv, AwardsApart, ContractOfActive
<1>8. CancellationsFit(u)
  BY <1>3, <1>4 DEF CancellationFollows, CancellationsFit
<1>9. CompleteApart(u)
  <2> SUFFICES ASSUME u.status = "cancelled" \/ HasPending(u, Whole)
               PROVE  \A l \in LotsOf(t) : t.lots[l] # "complete"
    BY <1>3, <1>4 DEF CompleteApart
  <2>1. CASE t.status = "cancelled" \/ HasPending(t, Whole)
    BY <2>1 DEF LimitedIInv, CompleteApart
  <2>2. CASE ~ (t.status = "cancelled" \/ HasPending(t, Whole))
    <3>1. PICK k \in Nth(t.cancellations) : cs[k].of = Whole /\ cs[k].status = "pending"
      BY <2>2, <1>3, <1>4 DEF HasPending
    <3>2. CancellationFollows(t, k, cs[k])
      OBVIOUS
    <3>3. t.cancellations[k].status # "pending"
      BY <2>2, <3>1, <3>2 DEF HasPending, CancellationFollows
    <3> QED BY <3>1, <3>2, <3>3 DEF CancellationFollows
  <2> QED BY <2>1, <2>2
<1>10. StandStill(u)
  <2>1. ASSUME NEW i \in Nth(t.awards), Resumed(t, i) PROVE Resumed(u, i)
    <3>1. PICK k \in Nth(t.cancellations) :
            /\ i \in t.cancellations[k].during
            /\ \E j \in Nth(t.cancellations[k].complaints) :
                 t.cancellations[k].complaints[j] = "resolved"
      BY <2>1, Zenon DEF Resumed
    <3>2. PICK j \in Nth(t.cancellations[k].complaints) :
            t.cancellations[k].complaints[j] = "resolved"
      BY <3>1
    <3>3. CancellationFollows(t, k, cs[k])
      OBVIOUS
    <3>4. j \in Nth(cs[k].complaints) /\ cs[k].complaints[j] = "resolved"
            /\ cs[k].during = t.cancellations[k].during
      BY <3>2, <3>3 DEF CancellationFollows
    <3>5. u.cancellations[k] = cs[k] /\ k \in Nth(u.cancellations)
      BY <1>3, <1>4
    <3> QED BY <3>1, <3>4, <3>5, Zenon DEF Resumed
  <2> QED BY <2>1, <1>3 DEF LimitedIInv, StandStill
<1> QED BY <1>5, <1>6, <1>7, <1>8, <1>9, <1>10 DEF LimitedIInv

\* The lots and the status of a tender change together.
LEMMA OutcomeChanges ==
  ASSUME NEW t, LimitedIInv(t),
         NEW L \in [LotsOf(t) -> LotState], NEW s \in {"draft", "active"} \cup Terminal,
         s = "cancelled" \/ HasPending(t, Whole) => \A l \in LotsOf(t) : L[l] # "complete",
         NEW u, u = [[t EXCEPT !.lots = L] EXCEPT !.status = s]
  PROVE  LimitedIInv(u)
<1>1. Shape(t)
  BY DEF LimitedIInv
<1>2. u = [type |-> t.type, status |-> s, lots |-> L, awards |-> t.awards,
           cancellations |-> t.cancellations]
  BY <1>1, Rebuilt
<1>3. /\ LotsOf(u) = LotsOf(t) /\ Units(u) = Units(t) /\ Negotiation(u) = Negotiation(t)
      /\ HasPending(u, Whole) = HasPending(t, Whole)
  BY <1>2 DEF LotsOf, Units, Negotiation, HasPending, Nth
<1>4. L \in LotMaps
  BY <1>1, ShapeParts DEF LotMaps
<1>5. Shape(u)
  BY <1>1, <1>2, <1>4, ShapeParts DEF Shape, TenderRecord
<1>6. ReportingIsPlain(u) /\ AwardsApart(u) /\ ContractOfActive(u) /\ CancellationsFit(u)
        /\ StandStill(u)
  BY <1>2, <1>3
  DEF LimitedIInv, ReportingIsPlain, AwardsApart, ContractOfActive, CancellationsFit, StandStill,
      Resumed
<1>7. CompleteApart(u)
  BY <1>2, <1>3 DEF CompleteApart
<1> QED BY <1>5, <1>6, <1>7 DEF LimitedIInv

\* One award or one cancellation changes; the others are as they were.
LEMMA AwardChanged ==
  ASSUME NEW t, LimitedIInv(t), NEW i \in Nth(t.awards), NEW a, Follows(t, i, a),
         NEW u, u = [t EXCEPT !.awards[i] = a]
  PROVE  LimitedIInv(u)
<1> DEFINE aw == [t.awards EXCEPT ![i] = a]
<1>1. Shape(t)
  BY DEF LimitedIInv
<1>2. \A j \in Nth(t.awards) : Follows(t, j, t.awards[j])
  <2> SUFFICES ASSUME NEW j \in Nth(t.awards) PROVE Follows(t, j, t.awards[j])
    OBVIOUS
  <2>1. t.awards[j] \in AwardRecord
    BY <1>1, ShapeParts
  <2> QED BY <2>1 DEF Follows, LimitedIInv, ContractOfActive, ReportingIsPlain, AwardsApart
<1>3. /\ DOMAIN aw = Nth(t.awards) /\ aw = [j \in Nth(t.awards) |-> aw[j]]
      /\ \A j \in Nth(t.awards) : aw[j] = IF j = i THEN a ELSE t.awards[j]
  <2>1. t.awards \in Seq(AwardRecord)
    BY <1>1, ShapeParts
  <2> QED BY <2>1 DEF Nth
<1>4. u = [t EXCEPT !.awards = aw]
  BY <1>1, PartOfField
<1> HIDE DEF aw
<1>5. \A j \in Nth(t.awards) : Follows(t, j, aw[j])
  BY <1>2, <1>3
<1> QED BY <1>3, <1>4, <1>5, AwardsFollow, Zenon

LEMMA CancellationChanged ==
  ASSUME NEW t, LimitedIInv(t), NEW k \in Nth(t.cancellations), NEW c, CancellationFollows(t, k, c),
         NEW u, u = [t EXCEPT !.cancellations[k] = c]
  PROVE  LimitedIInv(u)
<1> DEFINE cs == [t.cancellations EXCEPT ![k] = c]
<1>1. Shape(t)
  BY DEF LimitedIInv
<1>2. \A i \in Nth(t.cancellations) : CancellationFollows(t, i, t.cancellations[i])
  <2> SUFFICES ASSUME NEW i \in Nth(t.cancellations)
               PROVE  CancellationFollows(t, i, t.cancellations[i])
    OBVIOUS
  <2>1. t.cancellations[i] \in CancellationRecord
    BY <1>1, ShapeParts
  <2>2. ~ Negotiation(t) =>
          t.cancellations[i].complaints = <<>> /\ t.cancellations[i].status # "pending"
    BY DEF LimitedIInv, ReportingIsPlain
  <2>3. t.cancellations[i].status = "draft" => t.cancellations[i].complaints = <<>>
    BY DEF LimitedIInv, CancellationsFit
  <2> QED BY <2>1, <2>2, <2>3 DEF CancellationFollows
<1>3. /\ DOMAIN cs = Nth(t.cancellations) /\ cs = [i \in Nth(t.cancellations) |-> cs[i]]
      /\ \A i \in Nth(t.cancellations) : cs[i] = IF i = k THEN c ELSE t.cancellations[i]
  <2>1. t.cancellations \in Seq(CancellationRecord)
    BY <1>1, ShapeParts
  <2> QED BY <2>1 DEF Nth
<1>4. u = [t EXCEPT !.cancellations = cs]
  BY <1>1, PartOfField
<1> HIDE DEF cs
<1>5. \A i \in Nth(t.cancellations) : CancellationFollows(t, i, cs[i])
  BY <1>2, <1>3
<1> QED BY <1>3, <1>4, <1>5, CancellationsFollow, Zenon

-----------------------------------------------------------------------------
(* A cancellation comes into force.                                        *)

\* The tender takes its status from its lots, or keeps it.
LEMMA FromLotsFits ==
  ASSUME NEW t, Shape(t)
  PROVE  /\ FromLots(t) \in {"draft", "active"} \cup Terminal
         /\ FromLots(t) = "cancelled" =>
              t.status = "cancelled" \/ \A l \in LotsOf(t) : t.lots[l] = "cancelled"
<1>1. t.status \in {"draft", "active"} \cup Terminal
  BY ShapeParts
<1>2. \/ FromLots(t) \in {"unsuccessful", "complete", t.status}
      \/ FromLots(t) = "cancelled" /\ LotStatuses(t) = {"cancelled"}
  BY DEF FromLots
<1>3. LotStatuses(t) = {"cancelled"} => \A l \in LotsOf(t) : t.lots[l] = "cancelled"
  BY DEF LotStatuses
<1> QED BY <1>1, <1>2, <1>3 DEF Terminal

Enforced(t, k, x) == Cancelled([t EXCEPT !.cancellations[k].status = "active"], x)

LEMMA CancellationEnforced ==
  ASSUME NEW t, LimitedIInv(t), NEW k \in Nth(t.cancellations),
         NEW x, x = t.cancellations[k].of,
         x = Whole => \A l \in LotsOf(t) : t.lots[l] # "complete"
  PROVE  LET u == Enforced(t, k, x) IN
         /\ LimitedIInv(u)
         /\ u.type = t.type /\ u.awards = t.awards /\ LotsOf(u) = LotsOf(t)
         /\ u.cancellations = [t.cancellations EXCEPT ![k] =
                                 [t.cancellations[k] EXCEPT !.status = "active"]]
<1> DEFINE c == [t.cancellations[k] EXCEPT !.status = "active"]
           cs == [t.cancellations EXCEPT ![k] = c]
           v == [t EXCEPT !.cancellations = cs]
<1>1. Shape(t)
  BY DEF LimitedIInv
<1>2. t.cancellations[k] \in CancellationRecord
  BY <1>1, ShapeParts
<1>3. c \in CancellationRecord /\ c.of = t.cancellations[k].of /\ c.status = "active"
      /\ c.complaints = t.cancellations[k].complaints /\ c.during = t.cancellations[k].during
  BY <1>2 DEF CancellationRecord, Live
<1>4. CancellationFollows(t, k, c)
  <2>1. ~ Negotiation(t) => c.complaints = <<>>
    BY <1>3 DEF LimitedIInv, ReportingIsPlain
  <2> HIDE DEF c
  <2> QED BY <2>1, <1>3 DEF CancellationFollows
<1>7. LimitedIInv(v)
  <2>1. v = [t EXCEPT !.cancellations[k] = c]
    BY <1>1, PartOfField
  <2> HIDE DEF v, c
  <2> QED BY <1>4, <2>1, CancellationChanged
<1>8. Enforced(t, k, x) = Cancelled(v, x)
  BY <1>1, PartOfField DEF Enforced
<1>9. /\ v.type = t.type /\ v.status = t.status /\ v.lots = t.lots /\ v.awards = t.awards
      /\ v.cancellations = cs
  <2> HIDE DEF cs
  <2> QED BY <1>1, Rebuilt
<1>10. Shape(v)
  BY <1>7 DEF LimitedIInv
<1> HIDE DEF v, cs, c
<1>11. CASE x = Whole
  <2> DEFINE s == "cancelled"
             u == [v EXCEPT !.status = s]
  <2>1. Enforced(t, k, x) = u
    BY <1>8, <1>11 DEF Cancelled
  <2>2. u = [[v EXCEPT !.lots = v.lots] EXCEPT !.status = s]
    BY <1>10, ShapeParts
  <2>3. v.lots \in [LotsOf(v) -> LotState]
    BY <1>10, ShapeParts
  <2>4. LimitedIInv(u)
    <3>1. \A l \in LotsOf(v) : v.lots[l] # "complete"
      BY <1>9, <1>11 DEF LotsOf
    <3>2. s \in {"draft", "active"} \cup Terminal
      BY DEF Terminal
    <3> HIDE DEF u, s
    <3> QED BY <2>2, <2>3, <3>1, <3>2, <1>7, OutcomeChanges, Zenon
  <2>5. u.type = v.type /\ u.awards = v.awards /\ u.lots = v.lots
        /\ u.cancellations = v.cancellations
    BY <1>10, ShapeParts
  <2> HIDE DEF u
  <2> QED BY <2>1, <2>4, <2>5, <1>9 DEF LotsOf, cs, c
<1>12. CASE x # Whole
  <2> DEFINE L == [v.lots EXCEPT ![x] = "cancelled"]
             w == [v EXCEPT !.lots = L]
             s == FromLots(w)
             u == [w EXCEPT !.status = s]
  <2>1. Enforced(t, k, x) = u
    <3>1. [v EXCEPT !.lots[x] = "cancelled"] = w
      BY <1>10, PartOfField
    <3> QED BY <3>1, <1>8, <1>12 DEF Cancelled
  <2>2. L \in [LotsOf(v) -> LotState]
    BY <1>10, ShapeParts DEF LotState, Terminal
  <2>3. w = [[v EXCEPT !.lots = L] EXCEPT !.status = v.status]
    BY <1>10, Rebuilt, ShapeParts
  <2>4. v.status = "cancelled" \/ HasPending(v, Whole) => \A l \in LotsOf(v) : L[l] # "complete"
    <3>1. CompleteApart(v)
      BY <1>7 DEF LimitedIInv
    <3>2. \A l \in LotsOf(v) : L[l] \in {"cancelled", v.lots[l]}
      BY <1>10, ShapeParts
    <3> QED BY <3>1, <3>2 DEF CompleteApart
  <2>5. v.status \in {"draft", "active"} \cup Terminal
    BY <1>10, ShapeParts
  <2>6. LimitedIInv(w)
    <3> HIDE DEF w, L
    <3> QED BY <2>2, <2>3, <2>4, <2>5, <1>7, OutcomeChanges, Zenon
  <2>7. Shape(w)
    BY <2>6 DEF LimitedIInv
  <2>8. w.type = v.type /\ w.status = v.status /\ w.lots = L /\ w.awards = v.awards
        /\ w.cancellations = v.cancellations
    <3> HIDE DEF L
    <3> QED BY <1>10, Rebuilt
  <2>9. LotsOf(w) = LotsOf(v) /\ HasPending(w, Whole) = HasPending(v, Whole)
    BY <2>2, <2>8 DEF LotsOf, HasPending
  <2> HIDE DEF w, L
  <2>10. /\ s \in {"draft", "active"} \cup Terminal
         /\ s = "cancelled" \/ HasPending(w, Whole) => \A l \in LotsOf(w) : w.lots[l] # "complete"
    <3>1. CompleteApart(w)
      BY <2>6 DEF LimitedIInv
    <3> QED BY <2>7, FromLotsFits, <3>1 DEF CompleteApart
  <2> HIDE DEF s
  <2>11. LimitedIInv(u)
    <3>1. u = [[w EXCEPT !.lots = w.lots] EXCEPT !.status = s]
      BY <2>7, ShapeParts
    <3>2. w.lots \in [LotsOf(w) -> LotState]
      BY <2>7, ShapeParts
    <3> HIDE DEF u
    <3> QED BY <3>1, <3>2, <2>10, <2>6, OutcomeChanges, Zenon
  <2>12. u.type = w.type /\ u.awards = w.awards /\ u.lots = w.lots
         /\ u.cancellations = w.cancellations
    BY <2>7, ShapeParts
  <2> HIDE DEF u
  <2> QED BY <2>1, <2>8, <2>9, <2>11, <2>12, <1>9 DEF LotsOf, cs, c
<1> QED BY <1>11, <1>12

-----------------------------------------------------------------------------
(* One visit may put several cancellations into force, one after another:  *)
(* CheckCancellations is a recursive function over their places, followed  *)
(* by induction.                                                           *)

\* Induction for a set: what holds 0 and with n also n + 1 holds every number.
\* Were n left out, the successor would take S \cap (0 .. n), which is finite,
\* into itself without 0.
LEMMA SetInduction ==
  ASSUME NEW S, 0 \in S, \A n \in Nat : n \in S => n + 1 \in S
  PROVE  \A n \in Nat : n \in S
<1> SUFFICES ASSUME NEW n \in Nat, n \notin S PROVE FALSE
  OBVIOUS
<1> DEFINE A == S \cap (0 .. n)
           succ == [k \in A |-> k + 1]
<1>1. IsFiniteSet(A) /\ IsFiniteSet(A \ {0})
  <2>1. IsFiniteSet(0 .. n)
    BY FS_Interval
  <2> QED BY <2>1, FS_Subset
<1>2. 0 \in A
  OBVIOUS
<1>3. Cardinality(A \ {0}) = Cardinality(A) - 1 /\ Cardinality(A) \in Nat
  BY <1>1, <1>2, FS_RemoveElement, FS_CardinalityType
<1>4. succ \in [A -> A \ {0}]
  OBVIOUS
<1>5. Cardinality(A \ {0}) < Cardinality(A)
  BY <1>3
<1>6. \A x, y \in A : succ[x] = succ[y] => x = y
  OBVIOUS
<1> HIDE DEF A, succ
<1>7. \E x, y \in A : x # y /\ succ[x] = succ[y]
  BY <1>1, <1>4, <1>5, FS_PigeonHole, Zenon
<1> QED BY <1>6, <1>7, Zenon

\* What the visit does at place k, and the function it computes.
AtPlace(t, u, k) ==
  IF Ripe(u.cancellations[k]) THEN Enforced(u, k, t.cancellations[k].of) ELSE u

Visits(t, n, f) == f = [k \in 0 .. n |-> IF k = 0 THEN t ELSE AtPlace(t, f[k - 1], k)]

\* The recursive function exists, and the visit ends with its last value.
LEMMA VisitComputed ==
  ASSUME NEW t, Shape(t)
  PROVE  \E f : Visits(t, Len(t.cancellations), f)
                /\ CheckCancellations(t) = f[Len(t.cancellations)]
<1> DEFINE n == Len(t.cancellations)
           S == {m \in Nat : \E f : Visits(t, m, f)}
<1>0. n \in Nat
  BY ShapeParts
<1>1. 0 \in S
  <2> DEFINE f == [k \in 0 .. 0 |-> t]
  <2>1. f = [k \in 0 .. 0 |-> IF k = 0 THEN t ELSE AtPlace(t, f[k - 1], k)]
    OBVIOUS
  <2> QED BY <2>1 DEF Visits
<1>2. ASSUME NEW m \in Nat, m \in S PROVE m + 1 \in S
  <2>1. PICK f : f = [k \in 0 .. m |-> IF k = 0 THEN t ELSE AtPlace(t, f[k - 1], k)]
    BY <1>2 DEF Visits
  <2> DEFINE g == [k \in 0 .. m + 1 |-> IF k = m + 1 THEN AtPlace(t, f[m], m + 1) ELSE f[k]]
  <2>2. ASSUME NEW k \in 0 .. m + 1
        PROVE  g[k] = IF k = 0 THEN t ELSE AtPlace(t, g[k - 1], k)
    <3>1. CASE k = m + 1
      BY <3>1
    <3>2. CASE k # m + 1
      <4>1. k \in 0 .. m /\ g[k] = f[k] /\ (k # 0 => g[k - 1] = f[k - 1])
        BY <3>2
      <4>2. f[k] = IF k = 0 THEN t ELSE AtPlace(t, f[k - 1], k)
        BY <2>1, <4>1
      <4> QED BY <4>1, <4>2
    <3> QED BY <3>1, <3>2
  <2>3. Visits(t, m + 1, g)
    BY <2>2 DEF Visits
  <2> HIDE DEF g
  <2> QED BY <2>3
<1>3. \E f : Visits(t, n, f)
  <2> HIDE DEF S
  <2>1. n \in S
    BY <1>0, <1>1, <1>2, SetInduction, Zenon
  <2> QED BY <2>1 DEF S
<1>4. CheckCancellations(t) = (CHOOSE f : Visits(t, n, f))[n]
  BY DEF CheckCancellations, Visits, AtPlace, Enforced
<1> QED BY <1>3, <1>4

\* What a visit leaves of the document t: the awards, and of each cancellation
\* everything but the status, which only a pending one changes.
Remains(t, u) ==
  /\ u.type = t.type /\ u.awards = t.awards /\ LotsOf(u) = LotsOf(t)
  /\ Nth(u.cancellations) = Nth(t.cancellations)
  /\ \A k \in Nth(t.cancellations) :
       \/ u.cancellations[k] = t.cancellations[k]
       \/ /\ t.cancellations[k].status = "pending"
          /\ u.cancellations[k] = [t.cancellations[k] EXCEPT !.status = "active"]

LEMMA PlaceVisited ==
  ASSUME NEW t, Shape(t), NEW u, LimitedIInv(u), Remains(t, u), NEW k \in Nth(t.cancellations)
  PROVE  LimitedIInv(AtPlace(t, u, k)) /\ Remains(t, AtPlace(t, u, k))
<1>1. CASE ~ Ripe(u.cancellations[k])
  BY <1>1 DEF AtPlace
<1>2. CASE Ripe(u.cancellations[k])
  <2> DEFINE x == t.cancellations[k].of
             v == Enforced(u, k, x)
             c == [u.cancellations[k] EXCEPT !.status = "active"]
  <2>0. Shape(u) /\ k \in Nth(u.cancellations)
    BY DEF LimitedIInv, Remains
  <2>1. u.cancellations[k].status = "pending"
    BY <1>2 DEF Ripe
  <2>2. u.cancellations[k] = t.cancellations[k]
    <3>1. t.cancellations[k] \in CancellationRecord
      BY ShapeParts
    <3> QED BY <2>1, <3>1 DEF Remains, CancellationRecord
  <2>3. x = Whole => \A l \in LotsOf(u) : u.lots[l] # "complete"
    <3>1. CompleteApart(u)
      BY DEF LimitedIInv
    <3> QED BY <2>0, <2>1, <2>2, <3>1 DEF CompleteApart, HasPending
  <2>4. /\ LimitedIInv(v)
        /\ v.type = u.type /\ v.awards = u.awards /\ LotsOf(v) = LotsOf(u)
        /\ v.cancellations = [u.cancellations EXCEPT ![k] = c]
    BY <2>0, <2>2, <2>3, CancellationEnforced
  <2>5. AtPlace(t, u, k) = v
    BY <1>2 DEF AtPlace
  <2> HIDE DEF v
  <2>6. /\ Nth(v.cancellations) = Nth(u.cancellations)
        /\ v.cancellations[k] = [t.cancellations[k] EXCEPT !.status = "active"]
        /\ \A i \in Nth(u.cancellations) : i # k => v.cancellations[i] = u.cancellations[i]
    <3>1. u.cancellations \in Seq(CancellationRecord)
      BY <2>0, ShapeParts
    <3>2. c = [t.cancellations[k] EXCEPT !.status = "active"]
      BY <2>2
    <3> HIDE DEF c
    <3> QED BY <2>0, <2>4, <3>1, <3>2 DEF Nth
  <2>7. Remains(t, v)
    <3>1. t.cancellations[k].status = "pending"
      BY <2>1, <2>2
    <3> QED BY <2>4, <2>6, <3>1 DEF Remains
  <2> QED BY <2>4, <2>5, <2>7
<1> QED BY <1>1, <1>2

LEMMA CancellationsVisited ==
  ASSUME NEW t, LimitedIInv(t)
  PROVE  LimitedIInv(CheckCancellations(t)) /\ Remains(t, CheckCancellations(t))
<1> DEFINE n == Len(t.cancellations)
<1>1. Shape(t) /\ n \in Nat /\ Nth(t.cancellations) = 1 .. n
  BY ShapeParts DEF LimitedIInv
<1>2. PICK f : Visits(t, n, f) /\ CheckCancellations(t) = f[n]
  BY <1>1, VisitComputed
<1> DEFINE S == {m \in Nat : m <= n => LimitedIInv(f[m]) /\ Remains(t, f[m])}
<1>3. 0 \in S
  <2>1. f[0] = t
    BY <1>1, <1>2 DEF Visits
  <2> QED BY <2>1 DEF Remains
<1>4. ASSUME NEW m \in Nat, m \in S PROVE m + 1 \in S
  <2> SUFFICES ASSUME m + 1 <= n
               PROVE  LimitedIInv(f[m + 1]) /\ Remains(t, f[m + 1])
    OBVIOUS
  <2>1. m + 1 \in Nth(t.cancellations) /\ m <= n
    BY <1>1
  <2>2. f[m + 1] = AtPlace(t, f[m], m + 1)
    BY <1>1, <1>2, <2>1 DEF Visits
  <2>3. LimitedIInv(f[m]) /\ Remains(t, f[m])
    BY <1>4, <2>1
  <2> QED BY <1>1, <2>1, <2>2, <2>3, PlaceVisited
<1>5. n \in S
  <2> HIDE DEF S
  <2> QED BY <1>1, <1>3, <1>4, SetInduction, Zenon
<1> QED BY <1>1, <1>2, <1>5

\* The drafts a visit drops first.
LEMMA DraftsDropped ==
  ASSUME NEW t, LimitedIInv(t)
  PROVE  LimitedIInv(CheckDrafts(t))
<1> DEFINE aw == [i \in Nth(t.awards) |-> DropDraft(t.awards[i])]
           cs == [k \in Nth(t.cancellations) |-> DropDrafts(t.cancellations[k])]
           v == [t EXCEPT !.awards = aw]
           u == [v EXCEPT !.cancellations = cs]
<1>1. Shape(t)
  BY DEF LimitedIInv
<1>2. ASSUME NEW i \in Nth(t.awards) PROVE Follows(t, i, DropDraft(t.awards[i]))
  <2>1. t.awards[i] \in AwardRecord
    BY <1>1, ShapeParts
  <2>2. /\ DropDraft(t.awards[i]) \in AwardRecord
        /\ DropDraft(t.awards[i]).lot = t.awards[i].lot
        /\ DropDraft(t.awards[i]).status = t.awards[i].status
        /\ DropDraft(t.awards[i]).contract = t.awards[i].contract
        /\ DropDraft(t.awards[i]).period = t.awards[i].period
    BY <2>1 DEF DropDraft, AwardRecord, Mistaken, ComplaintStatus, Rejected
  <2> QED BY <2>2 DEF Follows, LimitedIInv, ContractOfActive, ReportingIsPlain, AwardsApart
<1>3. LimitedIInv(v)
  <2>1. DOMAIN aw = Nth(t.awards) /\ aw = [i \in Nth(t.awards) |-> aw[i]]
        /\ \A i \in Nth(t.awards) : aw[i] = DropDraft(t.awards[i])
    OBVIOUS
  <2>2. \A i \in Nth(t.awards) : Follows(t, i, aw[i])
    BY <1>2, <2>1
  <2> HIDE DEF aw
  <2> QED BY <2>1, <2>2, AwardsFollow, Zenon
<1>4. v.cancellations = t.cancellations /\ v.type = t.type
  BY <1>1, ShapeParts
<1>5. Shape(v)
  BY <1>3 DEF LimitedIInv
<1>6. CheckDrafts(t) = u
  BY <1>1, ShapeParts DEF CheckDrafts
<1> HIDE DEF v
<1>7. ASSUME NEW k \in Nth(v.cancellations)
      PROVE  CancellationFollows(v, k, DropDrafts(t.cancellations[k]))
  <2> DEFINE c == t.cancellations[k]
             d == DropDrafts(c)
  <2>1. c \in CancellationRecord /\ c = v.cancellations[k]
    BY <1>1, <1>4, ShapeParts
  <2>2. c.complaints \in Seq(ComplaintStatus)
    BY <2>1 DEF CancellationRecord
  <2>3. ASSUME c.period = "over"
        PROVE  LET ms == [j \in Nth(c.complaints) |-> Mistaken(c.complaints[j])] IN
               /\ d = [c EXCEPT !.complaints = ms]
               /\ ms \in Seq(ComplaintStatus)
               /\ c.complaints = <<>> => ms = <<>>
               /\ DOMAIN ms = Nth(c.complaints)
               /\ \A j \in Nth(c.complaints) : c.complaints[j] = "resolved" => ms[j] = "resolved"
    <3> DEFINE ms == [j \in Nth(c.complaints) |-> Mistaken(c.complaints[j])]
    <3>1. \A j \in Nth(c.complaints) : Mistaken(c.complaints[j]) \in ComplaintStatus
      BY <2>2 DEF Nth, Mistaken, ComplaintStatus, Rejected
    <3>2. ms \in [DOMAIN c.complaints -> ComplaintStatus]
      BY <3>1 DEF Nth
    <3>3. ms \in Seq(ComplaintStatus) /\ Len(ms) = Len(c.complaints)
      <4> HIDE DEF ms
      <4> QED BY <3>2, <2>2, SameLength
    <3>4. c.complaints = <<>> => ms = <<>>
      <4> HIDE DEF ms
      <4> QED BY <3>3
    <3>5. \A j \in Nth(c.complaints) : c.complaints[j] = "resolved" => ms[j] = "resolved"
      BY DEF Mistaken
    <3>6. d = [c EXCEPT !.complaints = ms]
      BY <2>3 DEF DropDrafts
    <3> QED BY <3>3, <3>4, <3>5, <3>6
  <2>4. /\ d \in CancellationRecord /\ d.of = c.of /\ d.status = c.status /\ d.during = c.during
        /\ c.complaints = <<>> => d.complaints = <<>>
        /\ \A j \in Nth(c.complaints) : c.complaints[j] = "resolved" =>
             j \in Nth(d.complaints) /\ d.complaints[j] = "resolved"
    <3>1. CASE c.period = "over"
      <4> DEFINE ms == [j \in Nth(c.complaints) |-> Mistaken(c.complaints[j])]
      <4>1. /\ d = [c EXCEPT !.complaints = ms]
            /\ ms \in Seq(ComplaintStatus)
            /\ c.complaints = <<>> => ms = <<>>
            /\ DOMAIN ms = Nth(c.complaints)
            /\ \A j \in Nth(c.complaints) : c.complaints[j] = "resolved" => ms[j] = "resolved"
        BY <2>3, <3>1
      <4> HIDE DEF ms, d, c
      <4>2. /\ d \in CancellationRecord /\ d.of = c.of /\ d.status = c.status
            /\ d.during = c.during /\ d.complaints = ms
        BY <2>1, <4>1 DEF CancellationRecord
      <4> QED BY <4>1, <4>2 DEF Nth
    <3>2. CASE c.period # "over"
      BY <2>1, <3>2 DEF DropDrafts
    <3> QED BY <3>1, <3>2
  <2> HIDE DEF c, d
  <2>5. /\ ~ Negotiation(v) => c.complaints = <<>> /\ c.status # "pending"
        /\ c.status = "draft" => c.complaints = <<>>
    BY <1>3, <2>1 DEF LimitedIInv, ReportingIsPlain, CancellationsFit
  <2>6. CancellationFollows(v, k, d)
    BY <2>1, <2>4, <2>5 DEF CancellationFollows
  <2> QED BY <2>6 DEF d, c
<1>8. LimitedIInv(u)
  <2>1. DOMAIN cs = Nth(v.cancellations) /\ cs = [i \in Nth(v.cancellations) |-> cs[i]]
        /\ \A i \in Nth(v.cancellations) : cs[i] = DropDrafts(t.cancellations[i])
    BY <1>4
  <2>2. \A i \in Nth(v.cancellations) : CancellationFollows(v, i, cs[i])
    BY <1>7, <2>1
  <2> HIDE DEF cs
  <2> QED BY <1>3, <2>1, <2>2, CancellationsFollow, Zenon
<1> QED BY <1>6, <1>8

LEMMA ChronographStep ==
  ASSUME LimitedIInv(tender), Chronograph
  PROVE  LimitedIInv(tender')
<1>1. tender' = CheckCancellations(CheckDrafts(tender))
  BY DEF Chronograph, Save, CheckStatus
<1> QED BY <1>1, DraftsDropped, CancellationsVisited

-----------------------------------------------------------------------------
(* The tender, its lots, and the awards the owner posts.                   *)

LEMMA LimitedInit == Init => LimitedIInv(tender)
<1> SUFFICES ASSUME Init PROVE LimitedIInv(tender)
  OBVIOUS
<1>1. PICK type \in {"reporting", "negotiation"}, lots \in {{}, Lots} :
        /\ type = "reporting" => lots = {}
        /\ tender = [type |-> type, status |-> "draft", lots |-> [l \in lots |-> "active"],
                     awards |-> <<>>, cancellations |-> <<>>]
  BY DEF Init
<1>2. /\ tender.type = type /\ tender.status = "draft" /\ tender.awards = <<>>
      /\ tender.cancellations = <<>> /\ tender.lots = [l \in lots |-> "active"]
  BY <1>1
<1>3. Nth(tender.awards) = {} /\ Nth(tender.cancellations) = {} /\ Len(tender.awards) = 0
  BY <1>2 DEF Nth
<1>4. Shape(tender)
  <2>1. tender.lots \in LotMaps
    BY <1>2 DEF LotMaps, LotState
  <2>2. <<>> \in Seq(AwardRecord) /\ <<>> \in Seq(CancellationRecord)
    BY EmptySeq
  <2> QED BY <1>1, <1>2, <1>3, <2>1, <2>2, LimitedAssumption DEF Shape, TenderRecord
<1>5. LotsOf(tender) = lots
  BY <1>2 DEF LotsOf
<1>6. ReportingIsPlain(tender)
  BY <1>1, <1>2, <1>3, <1>5 DEF ReportingIsPlain, Negotiation
<1>7. AwardsApart(tender) /\ ContractOfActive(tender) /\ CancellationsFit(tender) /\ StandStill(tender)
  BY <1>3 DEF AwardsApart, ContractOfActive, CancellationsFit, StandStill
<1>8. CompleteApart(tender)
  BY <1>2, <1>3 DEF CompleteApart, HasPending, LotsOf
<1> QED BY <1>4, <1>6, <1>7, <1>8 DEF LimitedIInv

LEMMA PublishStep ==
  ASSUME LimitedIInv(tender), Publish
  PROVE  LimitedIInv(tender')
<1>1. Shape(tender)
  BY DEF LimitedIInv
<1>2. tender' = [[tender EXCEPT !.lots = tender.lots] EXCEPT !.status = "active"]
  BY <1>1, ShapeParts DEF Publish, Save
<1>3. tender.lots \in [LotsOf(tender) -> LotState]
  BY <1>1, ShapeParts
<1>4. HasPending(tender, Whole) => \A l \in LotsOf(tender) : tender.lots[l] # "complete"
  BY DEF LimitedIInv, CompleteApart
<1> QED BY <1>2, <1>3, <1>4, OutcomeChanges

\* Before the first award the lots come and go: no award is about one.
LEMMA LotsChange ==
  ASSUME NEW t, LimitedIInv(t), Negotiation(t), t.awards = <<>>, ~ HasPending(t, Whole),
         t.status # "cancelled",
         NEW L \in LotMaps, NEW u, u = [t EXCEPT !.lots = L]
  PROVE  LimitedIInv(u)
<1>1. Shape(t)
  BY DEF LimitedIInv
<1>2. /\ u.type = t.type /\ u.status = t.status /\ u.lots = L /\ u.awards = <<>>
      /\ u.cancellations = t.cancellations
      /\ u = [type |-> t.type, status |-> t.status, lots |-> L, awards |-> t.awards,
              cancellations |-> t.cancellations]
  <2>1. u = [[t EXCEPT !.lots = L] EXCEPT !.status = t.status]
    BY <1>1, ShapeParts
  <2>2. u = [type |-> t.type, status |-> t.status, lots |-> L, awards |-> t.awards,
             cancellations |-> t.cancellations]
    BY <1>1, <2>1, Rebuilt, Zenon
  <2> QED BY <2>2
<1>3. Shape(u)
  BY <1>1, <1>2, ShapeParts DEF Shape, TenderRecord
<1>4. Nth(u.awards) = {} /\ Negotiation(u) /\ Nth(u.cancellations) = Nth(t.cancellations)
  BY <1>2 DEF Nth, Negotiation
<1>5. ReportingIsPlain(u) /\ AwardsApart(u) /\ ContractOfActive(u) /\ StandStill(u)
  BY <1>4 DEF ReportingIsPlain, AwardsApart, ContractOfActive, StandStill
<1>6. CancellationsFit(u)
  BY <1>2, <1>4 DEF LimitedIInv, CancellationsFit
<1>7. CompleteApart(u)
  BY <1>2 DEF CompleteApart, HasPending
<1> QED BY <1>3, <1>5, <1>6, <1>7 DEF LimitedIInv

LEMMA LotSteps ==
  ASSUME LimitedIInv(tender),
         \/ \E l \in Lots : PostLot(l)
         \/ \E l \in LotsOf(tender) : DeleteLot(l)
  PROVE  LimitedIInv(tender')
<1>1. Shape(tender)
  BY DEF LimitedIInv
<1>2. tender.lots \in [LotsOf(tender) -> LotState] /\ LotsOf(tender) \subseteq Lots
  BY <1>1, ShapeParts
<1>3. ASSUME NEW l \in Lots, PostLot(l) PROVE LimitedIInv(tender')
  <2> DEFINE L == [x \in LotsOf(tender) \cup {l} |-> IF x = l THEN "active" ELSE tender.lots[x]]
  <2>1. L \in LotMaps
    <3>1. LotsOf(tender) \cup {l} \in SUBSET Lots
      BY <1>2
    <3>2. L \in [LotsOf(tender) \cup {l} -> LotState]
      BY <1>2 DEF LotState
    <3> HIDE DEF L
    <3> QED BY <3>1, <3>2 DEF LotMaps
  <2>2. tender' = [tender EXCEPT !.lots = L]
    BY <1>3 DEF PostLot, Save
  <2>3. /\ Negotiation(tender) /\ tender.awards = <<>> /\ ~ HasPending(tender, Whole)
        /\ tender.status # "cancelled"
    BY <1>3 DEF PostLot, MayEdit, MayEditTender
  <2> HIDE DEF L
  <2> QED BY <2>1, <2>2, <2>3, LotsChange
<1>4. ASSUME NEW l \in LotsOf(tender), DeleteLot(l) PROVE LimitedIInv(tender')
  <2> DEFINE L == [x \in LotsOf(tender) \ {l} |-> tender.lots[x]]
  <2>1. L \in LotMaps
    <3>1. LotsOf(tender) \ {l} \in SUBSET Lots
      BY <1>2
    <3>2. L \in [LotsOf(tender) \ {l} -> LotState]
      BY <1>2
    <3> HIDE DEF L
    <3> QED BY <3>1, <3>2 DEF LotMaps
  <2>2. tender' = [tender EXCEPT !.lots = L]
    BY <1>4 DEF DeleteLot, Save
  <2>3. Negotiation(tender)
    BY DEF LimitedIInv, ReportingIsPlain
  <2>4. /\ tender.awards = <<>> /\ ~ HasPending(tender, Whole) /\ tender.status # "cancelled"
    BY <1>4, <2>3 DEF DeleteLot, MayEdit, MayEditTender
  <2> HIDE DEF L
  <2> QED BY <2>1, <2>2, <2>3, <2>4, LotsChange
<1> QED BY <1>3, <1>4

LEMMA PostAwardStep ==
  ASSUME LimitedIInv(tender), NEW u \in Units(tender), PostAward(u)
  PROVE  LimitedIInv(tender')
<1> DEFINE t == tender
           n == Len(t.awards)
           a == NewAward(u)
           aw == Append(t.awards, a)
           v == [t EXCEPT !.awards = aw]
<1>1. Shape(t) /\ t.awards \in Seq(AwardRecord) /\ n \in Nat /\ Nth(t.awards) = 1 .. n
  BY ShapeParts DEF LimitedIInv
<1>2. tender' = v /\ n < MaxAwards /\ MayEdit(t) /\ MayAward(t, u)
  BY DEF PostAward, Save
<1>3. u \in Lots \cup {Whole}
  BY <1>1, ShapeParts DEF Units
<1>4. a \in AwardRecord /\ a.lot = u /\ a.status = "pending" /\ a.period = "none"
      /\ a.contract = "none"
  BY <1>3 DEF NewAward, AwardRecord, Live, ComplaintStatus
<1>5. /\ aw \in Seq(AwardRecord) /\ Len(aw) = n + 1 /\ Nth(aw) = 1 .. (n + 1)
      /\ aw[n + 1] = a
      /\ \A i \in Nth(t.awards) : i \in Nth(aw) /\ aw[i] = t.awards[i]
  <2> HIDE DEF a
  <2> QED BY <1>1, <1>4, AppendProperties DEF Nth
<1> HIDE DEF a, aw
<1>6. /\ v.type = t.type /\ v.status = t.status /\ v.lots = t.lots /\ v.awards = aw
      /\ v.cancellations = t.cancellations
      /\ v = [type |-> t.type, status |-> t.status, lots |-> t.lots, awards |-> aw,
              cancellations |-> t.cancellations]
  BY <1>1, Rebuilt
<1> HIDE DEF v
<1>7. /\ LotsOf(v) = LotsOf(t) /\ Units(v) = Units(t) /\ Negotiation(v) = Negotiation(t)
      /\ \A x : HasPending(v, x) = HasPending(t, x)
  BY <1>6 DEF LotsOf, Units, Negotiation, Nth, HasPending
<1>8. \A i \in Nth(v.awards) : i = n + 1 \/ i \in Nth(t.awards)
  BY <1>1, <1>5, <1>6
<1>9. \A i \in Nth(t.awards) : t.awards[i].status \in Live => t.awards[i].lot # u
  <2>1. CASE LotsOf(t) = {}
    BY <1>1, <1>2, <2>1 DEF MayAward, LimitedIInv, AwardsApart
  <2>2. CASE LotsOf(t) # {}
    BY <1>2, <2>2 DEF MayAward, LiveFor, AwardsFor
  <2> QED BY <2>1, <2>2
<1>10. Shape(v)
  BY <1>1, <1>2, <1>5, <1>6, ShapeParts, LimitedAssumption DEF Shape, TenderRecord
<1>11. ReportingIsPlain(v)
  BY <1>4, <1>5, <1>6, <1>7, <1>8 DEF LimitedIInv, ReportingIsPlain
<1>12. AwardsApart(v)
  <2>1. \A i \in Nth(v.awards) : v.awards[i].lot \in Units(v)
    BY <1>4, <1>5, <1>6, <1>7, <1>8 DEF LimitedIInv, AwardsApart
  <2>2. ASSUME NEW i \in Nth(v.awards), NEW j \in Nth(v.awards),
               v.awards[i].lot = v.awards[j].lot,
               v.awards[i].status \in Live, v.awards[j].status \in Live
        PROVE  i = j
    <3>1. CASE i \in Nth(t.awards) /\ j \in Nth(t.awards)
      BY <2>2, <3>1, <1>5, <1>6 DEF LimitedIInv, AwardsApart
    <3>2. CASE i = n + 1 \/ j = n + 1
      BY <2>2, <3>2, <1>4, <1>5, <1>6, <1>8, <1>9
    <3> QED BY <3>1, <3>2, <1>8
  <2>3. ASSUME LotsOf(v) = {}, NEW i \in Nth(v.awards), v.awards[i].status \in Live
        PROVE  i = Len(v.awards)
    <3>1. CASE i \in Nth(t.awards)
      <4>1. t.awards[i].lot \in Units(t) /\ t.awards[i].status \in Live
        BY <2>3, <3>1, <1>5, <1>6 DEF LimitedIInv, AwardsApart
      <4> QED BY <4>1, <3>1, <1>7, <1>9, <2>3 DEF Units
    <3>2. CASE i = n + 1
      BY <3>2, <1>5, <1>6
    <3> QED BY <3>1, <3>2, <1>8
  <2> QED BY <2>1, <2>2, <2>3 DEF AwardsApart
<1>13. ContractOfActive(v)
  BY <1>4, <1>5, <1>6, <1>8 DEF LimitedIInv, ContractOfActive
<1>14. CancellationsFit(v)
  BY <1>6 DEF LimitedIInv, CancellationsFit
<1>15. CompleteApart(v)
  BY <1>6, <1>7 DEF LimitedIInv, CompleteApart
<1>16. StandStill(v)
  <2>1. \A i : Resumed(t, i) => Resumed(v, i)
    BY <1>6 DEF Resumed
  <2> QED BY <2>1, <1>4, <1>5, <1>6, <1>8 DEF LimitedIInv, StandStill
<1> QED BY <1>2, <1>10, <1>11, <1>12, <1>13, <1>14, <1>15, <1>16 DEF LimitedIInv

\* A pending award stays live, in its lot or in one that has no live one.
LEMMA AwardPlaced ==
  ASSUME LimitedIInv(tender), NEW i \in Nth(tender.awards), NEW a \in AwardRecord,
         tender.awards[i].status = "pending",
         a.lot \in Units(tender), FreeFor(i, a.lot), a.contract # "active",
         a.contract \in {"pending", "terminated"} => a.status = "active",
         ~ Negotiation(tender) => a.period = "none",
         tender' = [tender EXCEPT !.awards[i] = a]
  PROVE  LimitedIInv(tender')
<1> DEFINE t == tender
           x == a.lot
           aw == [t.awards EXCEPT ![i] = a]
           v == [t EXCEPT !.awards = aw]
<1>1. Shape(t) /\ t.awards \in Seq(AwardRecord) /\ t.awards[i] \in AwardRecord
  BY ShapeParts DEF LimitedIInv
<1>2. tender' = v
  BY <1>1, PartOfField
<1>3. t.awards[i].status = "pending" /\ t.awards[i].status \in Live
  BY DEF Live
<1>5. /\ aw \in Seq(AwardRecord) /\ Len(aw) = Len(t.awards) /\ Nth(aw) = Nth(t.awards)
      /\ \A j \in Nth(t.awards) : aw[j] = IF j = i THEN a ELSE t.awards[j]
  BY <1>1 DEF Nth
<1> HIDE DEF aw
<1>6. /\ v.type = t.type /\ v.status = t.status /\ v.lots = t.lots /\ v.awards = aw
      /\ v.cancellations = t.cancellations
      /\ v = [type |-> t.type, status |-> t.status, lots |-> t.lots, awards |-> aw,
              cancellations |-> t.cancellations]
  BY <1>1, Rebuilt
<1> HIDE DEF v
<1>7. /\ LotsOf(v) = LotsOf(t) /\ Units(v) = Units(t) /\ Negotiation(v) = Negotiation(t)
      /\ \A y : HasPending(v, y) = HasPending(t, y)
  BY <1>6 DEF LotsOf, Units, Negotiation, Nth, HasPending
<1>8. Shape(v)
  BY <1>1, <1>5, <1>6, ShapeParts DEF Shape, TenderRecord
<1>9. ReportingIsPlain(v) /\ ContractOfActive(v)
  BY <1>5, <1>6, <1>7 DEF LimitedIInv, ReportingIsPlain, ContractOfActive
<1>10. AwardsApart(v)
  <2>1. \A j \in Nth(v.awards) : v.awards[j].lot \in Units(v)
    BY <1>5, <1>6, <1>7 DEF LimitedIInv, AwardsApart
  <2>2. ASSUME NEW j \in Nth(t.awards), t.awards[j].status \in Live, t.awards[j].lot = x
        PROVE  j = i
    <3>1. CASE x # Whole
      BY <2>2, <3>1 DEF FreeFor, LiveFor, AwardsFor
    <3>2. CASE x = Whole
      <4>1. LotsOf(t) = {}
        BY <1>1, <3>2, ShapeParts, LimitedAssumption DEF Units
      <4> QED BY <2>2, <4>1, <1>3 DEF LimitedIInv, AwardsApart
    <3> QED BY <3>1, <3>2
  <2>3. ASSUME NEW j \in Nth(v.awards), NEW k \in Nth(v.awards),
               v.awards[j].lot = v.awards[k].lot,
               v.awards[j].status \in Live, v.awards[k].status \in Live
        PROVE  j = k
    <3>1. CASE j # i /\ k # i
      BY <2>3, <3>1, <1>5, <1>6 DEF LimitedIInv, AwardsApart
    <3>2. CASE j = i \/ k = i
      BY <2>2, <2>3, <3>2, <1>5, <1>6
    <3> QED BY <3>1, <3>2
  <2>4. ASSUME LotsOf(v) = {}, NEW j \in Nth(v.awards), v.awards[j].status \in Live
        PROVE  j = Len(v.awards)
    <3>1. t.awards[j].status \in Live /\ j \in Nth(t.awards)
      BY <2>4, <1>3, <1>5, <1>6
    <3> QED BY <2>4, <3>1, <1>5, <1>6, <1>7 DEF LimitedIInv, AwardsApart
  <2> QED BY <2>1, <2>3, <2>4 DEF AwardsApart
<1>11. CancellationsFit(v)
  BY <1>6 DEF LimitedIInv, CancellationsFit
<1>12. CompleteApart(v)
  BY <1>6, <1>7 DEF LimitedIInv, CompleteApart
<1>13. StandStill(v)
  <2>1. \A j : Resumed(t, j) => Resumed(v, j)
    BY <1>6 DEF Resumed
  <2> QED BY <2>1, <1>5, <1>6 DEF LimitedIInv, StandStill
<1> QED BY <1>2, <1>8, <1>9, <1>10, <1>11, <1>12, <1>13 DEF LimitedIInv

-----------------------------------------------------------------------------
(* The owner decides on awards and contracts, others complain.             *)

\* The parts of a tender.
LEMMA UnitsAreLots ==
  ASSUME NEW t, LimitedIInv(t)
  PROVE  Units(t) \subseteq Lots \cup {Whole}
BY ShapeParts DEF LimitedIInv, Units

\* An award that is cancelled, as a record.
LEMMA AwardUndone ==
  ASSUME NEW t, LimitedIInv(t), NEW i \in Nth(t.awards), NEW u \in Units(t)
  PROVE  Follows(t, i, CancelledAward(t.awards[i], u))
<1> DEFINE a == t.awards[i]
           b == CancelledAward(a, u)
<1>1. a \in AwardRecord
  BY ShapeParts DEF LimitedIInv
<1>2. ~ Negotiation(t) => a.period = "none"
  BY DEF LimitedIInv, ReportingIsPlain
<1>3. /\ b \in AwardRecord /\ b.lot = u /\ b.status = "cancelled"
      /\ b.contract \in {"none", "cancelled"}
      /\ b.period = IF a.period = "none" THEN "none" ELSE "over"
  BY <1>1, UnitsAreLots DEF CancelledAward, AwardRecord, Live
<1> HIDE DEF b
<1>4. Follows(t, i, b)
  BY <1>2, <1>3 DEF Follows, Live
<1> QED BY <1>4 DEF b

LEMMA AwardDecided ==
  ASSUME LimitedIInv(tender), NEW i \in Nth(tender.awards), NEW u \in Units(tender),
         \/ MoveAward(i, u) \/ ActivateAward(i, u) \/ RejectAward(i, u)
         \/ CancelAward(i, u) \/ CancelAppealedAward(i, u)
  PROVE  LimitedIInv(tender')
<1> DEFINE t == tender
           a == t.awards[i]
<1>1. Shape(t) /\ a \in AwardRecord /\ u \in Lots \cup {Whole}
  BY ShapeParts, UnitsAreLots DEF LimitedIInv
<1>2. a.status = "pending" =>
        /\ a.contract \notin {"pending", "terminated", "active"}
        /\ ~ Negotiation(t) => a.period = "none"
  BY DEF LimitedIInv, ContractOfActive, ReportingIsPlain
<1>3. CASE MoveAward(i, u)
  <2> DEFINE b == [a EXCEPT !.lot = u]
  <2>1. tender' = [t EXCEPT !.awards[i] = b] /\ a.status = "pending" /\ FreeFor(i, u)
    BY <1>3, <1>1 DEF MoveAward, Save
  <2>2. /\ b \in AwardRecord /\ b.lot = u /\ b.contract = a.contract /\ b.period = a.period
    BY <1>1 DEF AwardRecord
  <2> HIDE DEF b
  <2> QED BY <1>2, <2>1, <2>2, AwardPlaced
<1>4. CASE ActivateAward(i, u)
  <2> DEFINE b == [a EXCEPT !.lot = u, !.status = "active", !.contract = "pending",
                            !.period = Period(t, "running")]
  <2>1. tender' = [t EXCEPT !.awards[i] = b] /\ a.status = "pending" /\ FreeFor(i, u)
    BY <1>4 DEF ActivateAward, Save
  <2>2. /\ b \in AwardRecord /\ b.lot = u /\ b.status = "active" /\ b.contract = "pending"
        /\ ~ Negotiation(t) => b.period = "none"
    BY <1>1 DEF AwardRecord, Live, Period
  <2> HIDE DEF b
  <2> QED BY <2>1, <2>2, AwardPlaced
<1>5. CASE RejectAward(i, u)
  <2> DEFINE b == [a EXCEPT !.lot = u, !.status = "unsuccessful", !.period = Period(t, "over")]
  <2>1. tender' = [t EXCEPT !.awards[i] = b]
    BY <1>5 DEF RejectAward, Save
  <2>2. a.contract \notin {"pending", "terminated", "active"}
    BY <1>2, <1>5 DEF RejectAward
  <2>3. /\ b \in AwardRecord /\ b.lot = u /\ b.status = "unsuccessful"
        /\ b.contract = a.contract
        /\ ~ Negotiation(t) => b.period = "none"
    BY <1>1 DEF AwardRecord, Live, Period
  <2> HIDE DEF b
  <2>4. Follows(t, i, b)
    BY <2>2, <2>3 DEF Follows, Live
  <2> QED BY <2>1, <2>4, AwardChanged
<1>6. CASE CancelAward(i, u)
  <2>1. tender' = [t EXCEPT !.awards[i] = CancelledAward(a, u)]
    BY <1>6 DEF CancelAward, Save
  <2> QED BY <2>1, AwardUndone, AwardChanged
<1>7. CASE CancelAppealedAward(i, u)
  <2> DEFINE same == AwardsFor(t, u) \cup {i}
             aw == [j \in Nth(t.awards) |->
                      IF j \in same THEN CancelledAward(t.awards[j], u) ELSE t.awards[j]]
             v == [t EXCEPT !.awards = aw]
  <2>1. tender' = v
    BY <1>7 DEF CancelAppealedAward, Save
  <2>2. ASSUME NEW j \in Nth(t.awards) PROVE Follows(t, j, aw[j])
    <3>1. CASE j \in same
      BY <3>1, AwardUndone
    <3>2. CASE j \notin same
      <4>1. t.awards[j] \in AwardRecord
        BY <1>1, ShapeParts
      <4> QED BY <3>2, <4>1
              DEF Follows, LimitedIInv, ContractOfActive, ReportingIsPlain, AwardsApart
    <3> QED BY <3>1, <3>2
  <2>3. DOMAIN aw = Nth(t.awards) /\ aw = [j \in Nth(t.awards) |-> aw[j]]
    OBVIOUS
  <2> HIDE DEF aw
  <2> QED BY <2>1, <2>2, <2>3, AwardsFollow, Zenon
<1> QED BY <1>3, <1>4, <1>5, <1>6, <1>7

LEMMA AwardComplaint ==
  ASSUME LimitedIInv(tender), NEW i \in Nth(tender.awards),
         PostComplaint(i) \/ \E to \in Decisions : PatchComplaint(i, to)
  PROVE  LimitedIInv(tender')
<1> DEFINE a == tender.awards[i]
<1>1. Shape(tender) /\ a \in AwardRecord
  BY ShapeParts DEF LimitedIInv
<1>2. PICK to \in ComplaintStatus : tender' = [tender EXCEPT !.awards[i].complaint = to]
  BY DEF PostComplaint, PatchComplaint, Save, Decisions, ComplaintStatus, Undecided, Rejected
<1> DEFINE b == [a EXCEPT !.complaint = to]
<1>3. tender' = [tender EXCEPT !.awards[i] = b]
  BY <1>1, <1>2
<1>4. /\ b \in AwardRecord /\ b.lot = a.lot /\ b.status = a.status /\ b.contract = a.contract
      /\ b.period = a.period
  BY <1>1 DEF AwardRecord
<1> HIDE DEF b
<1>5. Follows(tender, i, b)
  BY <1>4 DEF Follows, LimitedIInv, ContractOfActive, ReportingIsPlain, AwardsApart
<1> QED BY <1>3, <1>5, AwardChanged

LEMMA AwardPeriodEnd ==
  ASSUME LimitedIInv(tender), NEW i \in Nth(tender.awards), AwardPeriodEnds(i)
  PROVE  LimitedIInv(tender')
<1> DEFINE a == tender.awards[i]
           b == [a EXCEPT !.period = "over"]
<1>1. Shape(tender) /\ a \in AwardRecord
  BY ShapeParts DEF LimitedIInv
<1>2. tender' = [tender EXCEPT !.awards[i] = b]
  BY <1>1 DEF AwardPeriodEnds, Save
<1>3. a.period = "running"
  BY DEF AwardPeriodEnds
<1>4. Negotiation(tender)
  BY <1>3 DEF LimitedIInv, ReportingIsPlain
<1>5. /\ b \in AwardRecord /\ b.lot = a.lot /\ b.status = a.status /\ b.contract = a.contract
      /\ b.period = "over"
  BY <1>1 DEF AwardRecord
<1> HIDE DEF b
<1>6. Follows(tender, i, b)
  BY <1>4, <1>5 DEF Follows, LimitedIInv, ContractOfActive, AwardsApart
<1> QED BY <1>2, <1>6, AwardChanged

\* What a change of a contract makes of the lots and of the tender.
LEMMA OutcomeChecked ==
  ASSUME NEW t, LimitedIInv(t), t.status = "active", ~ HasPending(t, Whole)
  PROVE  LET u == CheckTenderStatus(t) IN
         /\ LimitedIInv(u) /\ u.type = t.type /\ u.awards = t.awards
         /\ u.cancellations = t.cancellations /\ LotsOf(u) = LotsOf(t)
<1>1. Shape(t) /\ t.lots \in [LotsOf(t) -> LotState]
  BY ShapeParts DEF LimitedIInv
<1>2. CASE LotsOf(t) = {}
  <2> DEFINE s == IF LastContract(t) = "active" THEN "complete" ELSE t.status
             u == [t EXCEPT !.status = s]
  <2>1. CheckTenderStatus(t) = u
    BY <1>2 DEF CheckTenderStatus
  <2>2. s \in {"draft", "active"} \cup Terminal /\ s # "cancelled"
    BY DEF Terminal
  <2>3. u = [[t EXCEPT !.lots = t.lots] EXCEPT !.status = s]
    BY <1>1, ShapeParts
  <2>4. u.type = t.type /\ u.awards = t.awards /\ u.lots = t.lots
        /\ u.cancellations = t.cancellations
    BY <1>1, ShapeParts
  <2> HIDE DEF u, s
  <2>5. LimitedIInv(u)
    BY <1>1, <2>2, <2>3, OutcomeChanges, Zenon
  <2> QED BY <2>1, <2>4, <2>5 DEF LotsOf
<1>3. CASE LotsOf(t) # {}
  <2> DEFINE L == [l \in LotsOf(t) |-> LotOutcome(t, l)]
             w == [t EXCEPT !.lots = L]
             s == FromLots(w)
             u == [w EXCEPT !.status = s]
  <2>1. CheckTenderStatus(t) = u
    BY <1>3 DEF CheckTenderStatus
  <2>2. L \in [LotsOf(t) -> LotState]
    <3>1. ASSUME NEW l \in LotsOf(t) PROVE LotOutcome(t, l) \in LotState
      <4>1. t.lots[l] \in LotState
        BY <1>1
      <4>2. LotOutcome(t, l) \in {t.lots[l], "unsuccessful", "complete"}
        BY DEF LotOutcome
      <4> QED BY <4>1, <4>2 DEF LotState, Terminal
    <3> QED BY <3>1
  <2> HIDE DEF L
  <2>3. w = [[t EXCEPT !.lots = L] EXCEPT !.status = t.status]
    BY <1>1, Rebuilt, ShapeParts
  <2>4. w.type = t.type /\ w.status = t.status /\ w.lots = L /\ w.awards = t.awards
        /\ w.cancellations = t.cancellations
    BY <1>1, Rebuilt
  <2> HIDE DEF w
  <2>5. LimitedIInv(w)
    <3>1. t.status \in {"draft", "active"} \cup Terminal /\ t.status # "cancelled"
      BY DEF Terminal
    <3> QED BY <2>2, <2>3, <3>1, OutcomeChanges
  <2>6. Shape(w) /\ LotsOf(w) = LotsOf(t) /\ ~ HasPending(w, Whole)
    BY <2>2, <2>4, <2>5 DEF LimitedIInv, LotsOf, HasPending
  <2>7. s \in {"draft", "active"} \cup Terminal
        /\ (s = "cancelled" => \A l \in LotsOf(w) : w.lots[l] # "complete")
    BY <2>4, <2>6, FromLotsFits
  <2> HIDE DEF s
  <2>8. u = [[w EXCEPT !.lots = w.lots] EXCEPT !.status = s]
    BY <2>6, ShapeParts
  <2>9. u.type = w.type /\ u.awards = w.awards /\ u.lots = w.lots
        /\ u.cancellations = w.cancellations
    BY <2>6, ShapeParts
  <2> HIDE DEF u
  <2>10. w.lots \in [LotsOf(w) -> LotState]
    BY <2>6, ShapeParts
  <2>11. LimitedIInv(u)
    BY <2>5, <2>6, <2>7, <2>8, <2>10, OutcomeChanges, Zenon
  <2> QED BY <2>1, <2>4, <2>6, <2>9, <2>11 DEF LotsOf
<1> QED BY <1>2, <1>3

\* Nothing is pending against the whole of a tender that may be edited.
LEMMA EditableIsFree ==
  ASSUME NEW t, LimitedIInv(t), MayEdit(t)
  PROVE  t.status = "active" /\ ~ HasPending(t, Whole)
<1>1. CASE Negotiation(t)
  BY <1>1 DEF MayEdit, MayEditTender
<1>2. CASE ~ Negotiation(t)
  BY <1>2 DEF MayEdit, LimitedIInv, ReportingIsPlain, HasPending
<1> QED BY <1>1, <1>2

\* The contract of award i gets a status; what else changes are lots and the
\* tender.
Recorded(t, i, status) == [t EXCEPT !.awards[i] = [t.awards[i] EXCEPT !.contract = status]]

LEMMA ContractStatus ==
  ASSUME LimitedIInv(tender), NEW i \in Nth(tender.awards),
         NEW status \in {"pending", "terminated", "active", "cancelled"},
         MayEdit(tender), SaveContract(i, status),
         tender.awards[i].contract \in {"pending", "terminated", "active"},
         \/ status = tender.awards[i].contract
         \/ status \in {"terminated", "cancelled"}
         \/ Negotiation(tender) => tender.awards[i].period = "over"
  PROVE  /\ LimitedIInv(tender')
         /\ tender'.type = tender.type
         /\ tender'.awards = [tender.awards EXCEPT ![i] =
                                [tender.awards[i] EXCEPT !.contract = status]]
         /\ tender'.cancellations = tender.cancellations /\ LotsOf(tender') = LotsOf(tender)
<1> DEFINE t == tender
           a == t.awards[i]
           b == [a EXCEPT !.contract = status]
           v == Recorded(t, i, status)
<1>1. Shape(t) /\ a \in AwardRecord
  BY ShapeParts DEF LimitedIInv
<1>2. tender' = CheckTenderStatus(v)
  BY <1>1 DEF SaveContract, Save, Recorded
<1>3. /\ b \in AwardRecord /\ b.lot = a.lot /\ b.status = a.status /\ b.contract = status
      /\ b.period = a.period
  BY <1>1 DEF AwardRecord
<1>4. v = [t EXCEPT !.awards[i] = b]
  BY DEF Recorded
<1> HIDE DEF b
<1>5. a.status = "active"
  BY DEF LimitedIInv, ContractOfActive
<1>6. ~ Negotiation(t) => a.period = "none"
  BY DEF LimitedIInv, ReportingIsPlain
<1>7. Follows(t, i, b)
  <2>1. a.lot \in Units(t)
    BY DEF LimitedIInv, AwardsApart
  <2> QED BY <2>1, <1>3, <1>5, <1>6 DEF Follows
<1>8. LimitedIInv(v)
  BY <1>4, <1>7, AwardChanged
<1>9. /\ v.type = t.type /\ v.status = t.status /\ v.lots = t.lots
      /\ v.awards = [t.awards EXCEPT ![i] = b] /\ v.cancellations = t.cancellations
  <2>1. v = [t EXCEPT !.awards = [t.awards EXCEPT ![i] = b]]
    BY <1>1, <1>4, PartOfField
  <2> QED BY <1>1, <2>1, Rebuilt
<1> HIDE DEF v
<1>10. v.status = "active" /\ ~ HasPending(v, Whole) /\ LotsOf(v) = LotsOf(t)
  BY <1>9, EditableIsFree DEF HasPending, LotsOf
<1> QED BY <1>2, <1>8, <1>9, <1>10, OutcomeChecked DEF b

LEMMA ContractSteps ==
  ASSUME LimitedIInv(tender), NEW i \in Nth(tender.awards),
         \/ SignContract(i)
         \/ \E status \in {"pending", "terminated", "cancelled", "active"} : PatchContract(i, status)
  PROVE  LimitedIInv(tender')
<1>1. CASE SignContract(i)
  <2>1. Negotiation(tender) => tender.awards[i].period = "over"
    BY <1>1 DEF SignContract, MaySign
  <2> QED BY <1>1, <2>1, ContractStatus DEF SignContract
<1>2. ASSUME NEW status \in {"pending", "terminated", "cancelled", "active"},
             PatchContract(i, status)
      PROVE  LimitedIInv(tender')
  BY <1>2, ContractStatus DEF PatchContract
<1> QED BY <1>1, <1>2

-----------------------------------------------------------------------------
(* Cancellations and the objections to them.                               *)

LEMMA PostCancellationStep ==
  ASSUME LimitedIInv(tender), NEW x \in LotsOf(tender) \cup {Whole}, PostCancellation(x)
  PROVE  LimitedIInv(tender')
<1> DEFINE t == tender
           n == Len(t.cancellations)
           c == [of |-> x, status |-> "draft", period |-> "none", during |-> {},
                 complaints |-> <<>>]
           cs == Append(t.cancellations, c)
           v == [t EXCEPT !.cancellations = cs]
<1>1. Shape(t) /\ t.cancellations \in Seq(CancellationRecord) /\ n \in Nat
      /\ Nth(t.cancellations) = 1 .. n /\ LotsOf(t) \subseteq Lots
  BY ShapeParts DEF LimitedIInv
<1>2. tender' = v
  BY DEF PostCancellation, Save
<1>3. c \in CancellationRecord /\ c.status = "draft" /\ c.complaints = <<>>
  <2>1. <<>> \in Seq(ComplaintStatus)
    BY EmptySeq
  <2> QED BY <1>1, <2>1 DEF CancellationRecord, Live
<1> HIDE DEF c
<1>4. /\ cs \in Seq(CancellationRecord) /\ Nth(cs) = 1 .. (n + 1)
      /\ cs[n + 1] = c
      /\ \A k \in Nth(t.cancellations) : k \in Nth(cs) /\ cs[k] = t.cancellations[k]
      /\ \A k \in Nth(cs) : k = n + 1 \/ k \in Nth(t.cancellations)
  BY <1>1, <1>3, AppendProperties DEF Nth
<1> HIDE DEF cs
<1>5. /\ v.type = t.type /\ v.status = t.status /\ v.lots = t.lots /\ v.awards = t.awards
      /\ v.cancellations = cs
      /\ v = [type |-> t.type, status |-> t.status, lots |-> t.lots, awards |-> t.awards,
              cancellations |-> cs]
  BY <1>1, Rebuilt
<1> HIDE DEF v
<1>6. /\ LotsOf(v) = LotsOf(t) /\ Units(v) = Units(t) /\ Negotiation(v) = Negotiation(t)
  BY <1>5 DEF LotsOf, Units, Negotiation
<1>7. \A y : HasPending(v, y) => HasPending(t, y)
  BY <1>3, <1>4, <1>5 DEF HasPending
<1>8. Shape(v)
  BY <1>1, <1>4, <1>5, ShapeParts DEF Shape, TenderRecord
<1>9. ReportingIsPlain(v)
  BY <1>3, <1>4, <1>5, <1>6 DEF LimitedIInv, ReportingIsPlain
<1>10. AwardsApart(v) /\ ContractOfActive(v)
  BY <1>5, <1>6 DEF LimitedIInv, AwardsApart, ContractOfActive
<1>11. CancellationsFit(v)
  BY <1>3, <1>4, <1>5 DEF LimitedIInv, CancellationsFit
<1>12. CompleteApart(v)
  BY <1>5, <1>6, <1>7 DEF LimitedIInv, CompleteApart
<1>13. StandStill(v)
  <2>1. ASSUME NEW i, Resumed(t, i) PROVE Resumed(v, i)
    <3>1. PICK k \in Nth(t.cancellations) :
            /\ i \in t.cancellations[k].during
            /\ \E j \in Nth(t.cancellations[k].complaints) :
                 t.cancellations[k].complaints[j] = "resolved"
      BY <2>1, Zenon DEF Resumed
    <3>2. k \in Nth(v.cancellations) /\ v.cancellations[k] = t.cancellations[k]
      BY <1>4, <1>5
    <3> QED BY <3>1, <3>2, Zenon DEF Resumed
  <2> QED BY <2>1, <1>5 DEF LimitedIInv, StandStill
<1> QED BY <1>2, <1>8, <1>9, <1>10, <1>11, <1>12, <1>13 DEF LimitedIInv

LEMMA SubmitStep ==
  ASSUME LimitedIInv(tender), NEW k \in Nth(tender.cancellations), SubmitCancellation(k)
  PROVE  LimitedIInv(tender')
<1> DEFINE t == tender
           c == t.cancellations[k]
           during == {i \in Nth(t.awards) : t.awards[i].period = "running"}
           d == [c EXCEPT !.status = "pending", !.period = "running", !.during = during]
<1>1. Shape(t) /\ c \in CancellationRecord
  BY ShapeParts DEF LimitedIInv
<1>2. /\ tender' = [t EXCEPT !.cancellations[k] = d]
      /\ c.status = "draft" /\ MayCancel(t, c.of) /\ KnownTarget(t, c.of)
      /\ WithComplaints(t, c.of)
  BY DEF SubmitCancellation, Save
<1>3. during \in SUBSET (1 .. MaxAwards)
  BY <1>1, ShapeParts, LimitedAssumption DEF Shape
<1> HIDE DEF during
<1>4. c.complaints = <<>> /\ c.status = "draft"
  BY <1>2 DEF LimitedIInv, CancellationsFit
<1>5. d \in CancellationRecord /\ d.of = c.of /\ d.status = "pending" /\ d.complaints = <<>>
  BY <1>1, <1>3, <1>4 DEF CancellationRecord, Live
<1>6. Negotiation(t)
  BY <1>2 DEF WithComplaints
<1>7. d.of = Whole => \A l \in LotsOf(t) : t.lots[l] # "complete"
  BY <1>2, <1>5 DEF MayCancel, LotStatuses
<1> HIDE DEF d
<1>8. CancellationFollows(t, k, d)
  <2>1. Nth(c.complaints) = {}
    BY <1>4 DEF Nth
  <2> QED BY <2>1, <1>4, <1>5, <1>6, <1>7 DEF CancellationFollows
<1> QED BY <1>2, <1>8, CancellationChanged

LEMMA EnactStep ==
  ASSUME LimitedIInv(tender), NEW k \in Nth(tender.cancellations), EnactCancellation(k)
  PROVE  /\ LimitedIInv(tender')
         /\ tender'.awards = tender.awards /\ LotsOf(tender') = LotsOf(tender)
<1> DEFINE x == tender.cancellations[k].of
<1>1. x = Whole => \A l \in LotsOf(tender) : tender.lots[l] # "complete"
  BY DEF EnactCancellation, MayCancel, LotStatuses
<1>2. tender' = Enforced(tender, k, x)
  BY DEF EnactCancellation, Save, Enforced
<1>3. /\ LimitedIInv(Enforced(tender, k, x))
      /\ Enforced(tender, k, x).awards = tender.awards
      /\ LotsOf(Enforced(tender, k, x)) = LotsOf(tender)
  BY <1>1, CancellationEnforced
<1> HIDE DEF x
<1> QED BY <1>2, <1>3

\* A cancellation is given up, or its term for complaints ends.
LEMMA CancellationMoves ==
  ASSUME LimitedIInv(tender), NEW k \in Nth(tender.cancellations),
         DropCancellation(k) \/ WithdrawCancellation(k) \/ CancellationPeriodEnds(k)
  PROVE  LimitedIInv(tender')
<1> DEFINE t == tender
           c == t.cancellations[k]
<1>1. Shape(t) /\ c \in CancellationRecord
  BY ShapeParts DEF LimitedIInv
<1>2. PICK d :
        /\ tender' = [t EXCEPT !.cancellations[k] = d]
        /\ d \in {[c EXCEPT !.status = "unsuccessful"], [c EXCEPT !.period = "over"]}
  <2>1. CASE DropCancellation(k)
    BY <2>1, <1>1, PartOfField DEF DropCancellation, Save
  <2>2. CASE WithdrawCancellation(k)
    BY <2>2, <1>1, PartOfField DEF WithdrawCancellation, Save
  <2>3. CASE CancellationPeriodEnds(k)
    BY <2>3, <1>1 DEF CancellationPeriodEnds, Save
  <2> QED BY <2>1, <2>2, <2>3
<1>3. /\ d \in CancellationRecord /\ d.of = c.of /\ d.complaints = c.complaints
      /\ d.during = c.during
      /\ d.status \in {"unsuccessful", c.status}
  BY <1>1, <1>2 DEF CancellationRecord
<1>4. /\ c.status = "draft" => c.complaints = <<>>
      /\ ~ Negotiation(t) => c.complaints = <<>> /\ c.status # "pending"
  BY DEF LimitedIInv, CancellationsFit, ReportingIsPlain
<1>5. CancellationFollows(t, k, d)
  BY <1>3, <1>4 DEF CancellationFollows
<1> QED BY <1>2, <1>5, CancellationChanged

LEMMA ObjectionSteps ==
  ASSUME LimitedIInv(tender), NEW k \in Nth(tender.cancellations),
         \/ PostObjection(k)
         \/ \E j \in Nth(tender.cancellations[k].complaints), to \in Decisions :
              PatchObjection(k, j, to)
  PROVE  LimitedIInv(tender')
<1> DEFINE t == tender
           c == t.cancellations[k]
<1>1. Shape(t) /\ c \in CancellationRecord /\ c.complaints \in Seq(ComplaintStatus)
  BY ShapeParts DEF LimitedIInv, CancellationRecord
<1>2. /\ c.status = "draft" => c.complaints = <<>>
      /\ ~ Negotiation(t) => c.complaints = <<>> /\ c.status # "pending"
  BY DEF LimitedIInv, CancellationsFit, ReportingIsPlain
<1>3. ASSUME NEW ms \in Seq(ComplaintStatus), c.status # "draft", Negotiation(t),
             tender' = [t EXCEPT !.cancellations[k] = [c EXCEPT !.complaints = ms]],
             \A j \in Nth(c.complaints) : c.complaints[j] = "resolved" =>
               j \in Nth(ms) /\ ms[j] = "resolved"
      PROVE  LimitedIInv(tender')
  <2> DEFINE d == [c EXCEPT !.complaints = ms]
  <2>1. /\ d \in CancellationRecord /\ d.of = c.of /\ d.complaints = ms
        /\ d.during = c.during /\ d.status = c.status
    BY <1>1 DEF CancellationRecord
  <2>2. tender' = [t EXCEPT !.cancellations[k] = d]
    BY <1>3
  <2> HIDE DEF d
  <2>3. CancellationFollows(t, k, d)
    BY <1>3, <2>1 DEF CancellationFollows
  <2> QED BY <2>2, <2>3, CancellationChanged
<1>4. CASE PostObjection(k)
  <2> DEFINE ms == Append(c.complaints, "draft")
  <2>1. /\ ms \in Seq(ComplaintStatus)
        /\ \A j \in Nth(c.complaints) : j \in Nth(ms) /\ ms[j] = c.complaints[j]
    <3>1. "draft" \in ComplaintStatus
      BY DEF ComplaintStatus
    <3> QED BY <1>1, <3>1, AppendProperties DEF Nth
  <2>2. tender' = [t EXCEPT !.cancellations[k] = [c EXCEPT !.complaints = ms]]
    BY <1>1, <1>4 DEF PostObjection, Save
  <2>3. c.status # "draft" /\ Negotiation(t)
    BY <1>2, <1>4 DEF PostObjection
  <2> HIDE DEF ms
  <2> QED BY <1>3, <2>1, <2>2, <2>3
<1>5. ASSUME NEW j \in Nth(c.complaints), NEW to \in Decisions, PatchObjection(k, j, to)
      PROVE  LimitedIInv(tender')
  <2> DEFINE ms == [c.complaints EXCEPT ![j] = to]
  <2>1. c.complaints[j] # "resolved"
    BY <1>5 DEF PatchObjection, Settled, Reviewed
  <2>2. /\ ms \in Seq(ComplaintStatus)
        /\ \A i \in Nth(c.complaints) : c.complaints[i] = "resolved" =>
             i \in Nth(ms) /\ ms[i] = "resolved"
    <3>1. to \in ComplaintStatus
      BY DEF Decisions, ComplaintStatus, Undecided, Rejected
    <3> QED BY <1>1, <2>1, <3>1 DEF Nth
  <2>3. tender' = [t EXCEPT !.cancellations[k] = [c EXCEPT !.complaints = ms]]
    BY <1>1, <1>5 DEF PatchObjection, Save
  <2>4. c.status # "draft" /\ Negotiation(t)
    BY <1>2, <1>5 DEF Nth
  <2> HIDE DEF ms
  <2> QED BY <1>3, <2>2, <2>3, <2>4
<1> QED BY <1>4, <1>5

\* A resolved objection gives the stand-stills it names their days back: that
\* it is resolved is what excuses them.
LEMMA ResolveStep ==
  ASSUME LimitedIInv(tender), NEW k \in Nth(tender.cancellations),
         NEW j \in Nth(tender.cancellations[k].complaints), ResolveObjection(k, j)
  PROVE  LimitedIInv(tender')
<1> DEFINE t == tender
           c == t.cancellations[k]
           ms == [c.complaints EXCEPT ![j] = "resolved"]
           d == [c EXCEPT !.complaints = ms]
           v == [t EXCEPT !.cancellations[k] = d]
           aw == [i \in Nth(t.awards) |->
                    IF i \in Prolonged(k) THEN [t.awards[i] EXCEPT !.period = "running"]
                    ELSE t.awards[i]]
           u == [v EXCEPT !.awards = aw]
<1>1. Shape(t) /\ c \in CancellationRecord /\ c.complaints \in Seq(ComplaintStatus)
  BY ShapeParts DEF LimitedIInv, CancellationRecord
<1>2. tender' = u
  BY <1>1, ShapeParts DEF ResolveObjection, Save
<1>3. c.status # "draft" /\ Negotiation(t)
  BY DEF LimitedIInv, CancellationsFit, ReportingIsPlain, Nth
<1>4. /\ ms \in Seq(ComplaintStatus) /\ ms[j] = "resolved" /\ Nth(ms) = Nth(c.complaints)
      /\ \A i \in Nth(c.complaints) : c.complaints[i] = "resolved" =>
           i \in Nth(ms) /\ ms[i] = "resolved"
  BY <1>1 DEF Nth, ComplaintStatus
<1> HIDE DEF ms
<1>5. /\ d \in CancellationRecord /\ d.of = c.of /\ d.complaints = ms
      /\ d.during = c.during /\ d.status = c.status
  BY <1>1, <1>4 DEF CancellationRecord
<1> HIDE DEF d
<1>6. CancellationFollows(t, k, d)
  BY <1>3, <1>4, <1>5 DEF CancellationFollows
<1>7. LimitedIInv(v)
  BY <1>6, CancellationChanged
<1>8. /\ v.type = t.type /\ v.awards = t.awards /\ v.lots = t.lots /\ v.status = t.status
      /\ v.cancellations = [t.cancellations EXCEPT ![k] = d]
  <2> DEFINE cs == [t.cancellations EXCEPT ![k] = d]
  <2>1. v = [t EXCEPT !.cancellations = cs]
    BY <1>1, PartOfField
  <2> HIDE DEF cs
  <2>2. v = [type |-> t.type, status |-> t.status, lots |-> t.lots, awards |-> t.awards,
             cancellations |-> cs]
    BY <1>1, <2>1, Rebuilt, Zenon
  <2> QED BY <2>2 DEF cs
<1> HIDE DEF v
<1>9. v.cancellations[k] = d /\ k \in Nth(v.cancellations)
  <2>1. t.cancellations \in Seq(CancellationRecord)
    BY <1>1, ShapeParts
  <2> QED BY <1>8, <2>1 DEF Nth
<1>10. ASSUME NEW i \in Prolonged(k) PROVE Resumed(v, i)
  <2>1. i \in d.during
    BY <1>5, <1>10 DEF Prolonged
  <2>2. j \in Nth(d.complaints) /\ d.complaints[j] = "resolved"
    BY <1>4, <1>5
  <2> QED BY <1>9, <2>1, <2>2, Zenon DEF Resumed
<1>11. ASSUME NEW i \in Nth(v.awards) PROVE Follows(v, i, aw[i])
  <2>1. t.awards[i] \in AwardRecord /\ i \in Nth(t.awards)
    BY <1>1, <1>8, ShapeParts
  <2>2. Follows(v, i, t.awards[i])
    BY <1>7, <1>8, <2>1 DEF Follows, LimitedIInv, ContractOfActive, ReportingIsPlain, AwardsApart
  <2>3. CASE i \notin Prolonged(k)
    BY <2>1, <2>2, <2>3
  <2>4. CASE i \in Prolonged(k)
    <3> DEFINE a == [t.awards[i] EXCEPT !.period = "running"]
    <3>1. /\ a \in AwardRecord /\ a.lot = t.awards[i].lot /\ a.status = t.awards[i].status
          /\ a.contract = t.awards[i].contract
      BY <2>1 DEF AwardRecord
    <3>2. aw[i] = a
      BY <2>1, <2>4
    <3> HIDE DEF a
    <3>3. Negotiation(v) /\ Resumed(v, i)
      BY <1>3, <1>8, <1>10, <2>4 DEF Negotiation
    <3> QED BY <1>8, <2>2, <3>1, <3>2, <3>3 DEF Follows
  <2> QED BY <2>3, <2>4
<1>12. DOMAIN aw = Nth(v.awards) /\ aw = [i \in Nth(v.awards) |-> aw[i]]
  BY <1>8
<1> HIDE DEF aw
<1>13. LimitedIInv(u)
  BY <1>7, <1>11, <1>12, AwardsFollow, Zenon
<1> QED BY <1>2, <1>13

-----------------------------------------------------------------------------
(* Every step keeps the tender in order.                                   *)

LEMMA LimitedStep ==
  ASSUME LimitedIInv(tender), Next
  PROVE  LimitedIInv(tender')
<1>1. ASSUME NEW i \in Nth(tender.awards), AwardStep(i)
      PROVE  LimitedIInv(tender')
  BY <1>1, AwardDecided, ContractSteps, AwardComplaint, AwardPeriodEnd DEF AwardStep
<1>2. ASSUME NEW k \in Nth(tender.cancellations), CancellationStep(k)
      PROVE  LimitedIInv(tender')
  BY <1>2, SubmitStep, EnactStep, CancellationMoves, ObjectionSteps, ResolveStep
  DEF CancellationStep
<1> QED BY <1>1, <1>2, PublishStep, ChronographStep, LotSteps, PostAwardStep, PostCancellationStep
        DEF Next

-----------------------------------------------------------------------------
(* The registered contract.  A change is the last one as long as it is     *)
(* pending, so that its date has to be compared with the one before only.  *)

Change == [status : {"pending", "active"}, signed : Dates \cup {NotSet}]

ContractRecord ==
  [award : Nat, status : {"active", "terminated"}, value : Amounts,
   paid : Amounts \cup {NotSet}, signed : Dates, changes : Seq(Change), documents : SUBSET Nat]

ContractIInv ==
  contract # NoContract =>
    /\ contract \in ContractRecord
    /\ contract.status = "terminated" => contract.paid # NotSet
    /\ C!ChangesInOrder /\ C!PaidWithinValue

\* Everything but the changes may change: the dates stay in order.
LEMMA ChangesUntouched ==
  ASSUME contract # NoContract, ContractIInv, contract' \in ContractRecord,
         contract'.changes = contract.changes, contract'.signed = contract.signed
  PROVE  C!ChangesInOrder'
BY DEF ContractIInv, C!ChangesInOrder, C!Registered, C!Changes

\* The change made or amended is the last one, and not signed before the one in
\* front of it.
LEMMA LastChange ==
  ASSUME contract # NoContract, ContractIInv,
         NEW i, NEW ch \in Change, NEW seq \in Seq(Change), Len(seq) = i, i >= 1,
         seq[i] = ch,
         \A j \in 1 .. (i - 1) : j \in DOMAIN contract.changes /\ seq[j] = contract.changes[j]
                                 /\ contract.changes[j].status = "active",
         ch.status = "active" => ch.signed # NotSet,
         C!InOrder(i, ch.signed),
         contract' = [contract EXCEPT !.changes = seq]
  PROVE  ContractIInv'
<1>1. /\ contract \in ContractRecord
      /\ contract.status = "terminated" => contract.paid # NotSet
      /\ C!ChangesInOrder /\ C!PaidWithinValue
  BY DEF ContractIInv
<1>2. /\ contract' \in ContractRecord /\ contract'.changes = seq
      /\ contract'.signed = contract.signed /\ contract'.status = contract.status
      /\ contract'.paid = contract.paid /\ contract'.value = contract.value
  BY <1>1 DEF ContractRecord
<1>3. C!PaidWithinValue'
  BY <1>1, <1>2 DEF C!PaidWithinValue, C!Registered, C!Affordable
<1>4. i \in Nat /\ DOMAIN seq = 1 .. i
  OBVIOUS
<1>5. ASSUME NEW j \in 1 .. i PROVE j = i \/ j \in 1 .. (i - 1)
  BY <1>4
<1>6. contract.signed \in Int /\ contract.signed # NotSet
  BY <1>1, DatesAssumption DEF ContractRecord
<1>7. ASSUME NEW j \in 1 .. (i - 1)
      PROVE  /\ seq[j] = contract.changes[j] /\ seq[j].status = "active"
             /\ seq[j].signed # NotSet /\ seq[j].signed \in Int
             /\ contract.signed <= seq[j].signed
             /\ \A k \in 1 .. (i - 1) : k < j => seq[k].signed <= seq[j].signed
  <2>1. j \in DOMAIN contract.changes /\ seq[j] = contract.changes[j] /\ seq[j].status = "active"
    OBVIOUS
  <2>2. seq[j].signed # NotSet
    BY <1>1, <2>1 DEF C!ChangesInOrder, C!Registered, C!Changes
  <2>3. seq[j] \in Change
    BY <1>4
  <2>4. seq[j].signed \in Int
    BY <2>2, <2>3, DatesAssumption DEF Change
  <2>5. contract.signed <= seq[j].signed
    BY <1>1, <2>1, <2>2 DEF C!ChangesInOrder, C!Registered, C!Changes
  <2>6. ASSUME NEW k \in 1 .. (i - 1), k < j PROVE seq[k].signed <= seq[j].signed
    BY <1>1, <2>1, <2>2, <2>6 DEF C!ChangesInOrder, C!Registered, C!Changes
  <2> QED BY <2>1, <2>2, <2>4, <2>5, <2>6
<1>8. ASSUME ch.signed # NotSet
      PROVE  /\ ch.signed \in Int /\ contract.signed <= ch.signed
             /\ \A k \in 1 .. (i - 1) : seq[k].signed <= ch.signed
  <2>1. ch.signed \in Int
    BY <1>8, DatesAssumption DEF Change
  <2>2. CASE i = 1
    BY <1>6, <1>8, <2>1, <2>2 DEF C!InOrder, C!Predecessor
  <2>3. CASE i # 1
    <3>1. i - 1 \in 1 .. (i - 1)
      BY <2>3, <1>4
    <3>2. /\ seq[i - 1] = contract.changes[i - 1] /\ seq[i - 1].signed # NotSet
          /\ seq[i - 1].signed \in Int /\ contract.signed <= seq[i - 1].signed
          /\ \A k \in 1 .. (i - 1) : k < i - 1 => seq[k].signed <= seq[i - 1].signed
      BY <1>7, <3>1
    <3>3. seq[i - 1].signed <= ch.signed
      BY <1>8, <2>3, <3>2 DEF C!InOrder, C!Predecessor
    <3>4. ASSUME NEW k \in 1 .. (i - 1) PROVE seq[k].signed <= ch.signed
      <4>1. CASE k = i - 1
        BY <3>3, <4>1
      <4>2. CASE k < i - 1
        <5>1. seq[k].signed \in Int /\ seq[k].signed <= seq[i - 1].signed
          BY <1>7, <3>2, <4>2
        <5> QED BY <5>1, <3>2, <3>3, <2>1
      <4> QED BY <4>1, <4>2, <1>4
    <3> QED BY <2>1, <3>2, <3>3, <3>4, <1>6
  <2> QED BY <2>2, <2>3
<1>9. C!ChangesInOrder'
  <2>1. \A j \in 1 .. i :
          /\ seq[j].status = "pending" => j = i
          /\ seq[j].status = "active" => seq[j].signed # NotSet
    BY <1>5, <1>7
  <2>2. \A j, k \in 1 .. i : j < k /\ seq[k].signed # NotSet => seq[j].signed <= seq[k].signed
    <3> SUFFICES ASSUME NEW j \in 1 .. i, NEW k \in 1 .. i, j < k, seq[k].signed # NotSet
                 PROVE  seq[j].signed <= seq[k].signed
      OBVIOUS
    <3>1. j \in 1 .. (i - 1)
      BY <1>4
    <3>2. CASE k = i
      BY <3>1, <3>2, <1>8
    <3>3. CASE k \in 1 .. (i - 1)
      BY <3>1, <3>3, <1>7
    <3> QED BY <3>2, <3>3, <1>5
  <2>3. \A j \in 1 .. i : seq[j].signed # NotSet => contract.signed <= seq[j].signed
    BY <1>5, <1>7, <1>8
  <2> QED BY <1>2, <1>4, <2>1, <2>2, <2>3 DEF C!ChangesInOrder, C!Registered, C!Changes
<1> QED BY <1>1, <1>2, <1>3, <1>9 DEF ContractIInv

LEMMA AmountsMove ==
  ASSUME ContractIInv,
         \/ \E paid \in Amounts \cup {NotSet} :
              C!Terminate(paid) \/ \E value \in Amounts : C!EditAmounts(value, paid)
         \/ \E status \in {"active", "terminated"} : C!SetStatus(status)
  PROVE  ContractIInv' /\ contract'.award = contract.award /\ contract # NoContract
<1>1. contract # NoContract
  BY DEF C!Terminate, C!EditAmounts, C!SetStatus, C!Registered
<1>2. contract \in ContractRecord /\ C!ChangesInOrder /\ C!PaidWithinValue
      /\ (contract.status = "terminated" => contract.paid # NotSet)
  BY <1>1 DEF ContractIInv
<1>3. /\ contract' \in ContractRecord
      /\ contract'.changes = contract.changes /\ contract'.signed = contract.signed
      /\ contract'.award = contract.award
      /\ contract'.status = "terminated" => contract'.paid # NotSet
      /\ C!Affordable(contract')
  <2>1. ASSUME NEW paid \in Amounts \cup {NotSet}, C!Terminate(paid)
        PROVE  /\ contract' \in ContractRecord
               /\ contract'.changes = contract.changes /\ contract'.signed = contract.signed
               /\ contract'.award = contract.award /\ contract'.paid # NotSet
               /\ C!Affordable(contract')
    <3>1. contract' = [contract EXCEPT !.status = "terminated", !.paid = paid]
          /\ paid # NotSet /\ C!Affordable([contract EXCEPT !.paid = paid])
      BY <2>1 DEF C!Terminate, C!Store
    <3>2. /\ contract' \in ContractRecord /\ contract'.paid = paid
          /\ contract'.value = contract.value
          /\ contract'.changes = contract.changes /\ contract'.signed = contract.signed
          /\ contract'.award = contract.award
      BY <1>2, <3>1 DEF ContractRecord
    <3>3. /\ [contract EXCEPT !.paid = paid].paid = paid
          /\ [contract EXCEPT !.paid = paid].value = contract.value
      BY <1>2 DEF ContractRecord
    <3> QED BY <3>1, <3>2, <3>3 DEF C!Affordable
  <2>2. ASSUME NEW paid \in Amounts \cup {NotSet}, NEW value \in Amounts, C!EditAmounts(value, paid)
        PROVE  /\ contract' \in ContractRecord
               /\ contract'.changes = contract.changes /\ contract'.signed = contract.signed
               /\ contract'.award = contract.award /\ contract'.status = "active"
               /\ C!Affordable(contract')
    <3>1. /\ contract' = [contract EXCEPT !.value = value, !.paid = paid]
          /\ C!Affordable(contract') /\ contract.status = "active"
      BY <2>2 DEF C!EditAmounts, C!Store
    <3> QED BY <1>2, <3>1 DEF ContractRecord
  <2>3. ASSUME NEW status \in {"active", "terminated"}, C!SetStatus(status)
        PROVE  /\ contract' \in ContractRecord
               /\ contract'.changes = contract.changes /\ contract'.signed = contract.signed
               /\ contract'.award = contract.award
               /\ contract'.status = "terminated" => contract'.paid # NotSet
               /\ C!Affordable(contract')
    <3>1. PICK imported \in {"active", "terminated"} :
            /\ imported = "terminated" => contract.paid # NotSet
            /\ contract' = [contract EXCEPT !.status = imported]
      BY <1>2, <2>3 DEF C!SetStatus, C!Store, ContractRecord
    <3>2. /\ contract' \in ContractRecord /\ contract'.status = imported
          /\ contract'.paid = contract.paid /\ contract'.value = contract.value
          /\ contract'.changes = contract.changes /\ contract'.signed = contract.signed
          /\ contract'.award = contract.award
      BY <1>2, <3>1 DEF ContractRecord
    <3> QED BY <1>1, <1>2, <3>1, <3>2 DEF C!PaidWithinValue, C!Registered, C!Affordable
  <2> QED BY <2>1, <2>2, <2>3
<1>4. C!ChangesInOrder'
  BY <1>1, <1>3, ChangesUntouched
<1>5. C!PaidWithinValue'
  BY <1>3 DEF C!PaidWithinValue, C!Affordable
<1> QED BY <1>1, <1>3, <1>4, <1>5 DEF ContractIInv

LEMMA DocumentsMove ==
  ASSUME ContractIInv, C!Registered,
         \E of \in C!Changes \cup {0} :
           C!PostDocument(of) \/ \E from \in contract.documents : C!MoveDocument(from, of)
  PROVE  ContractIInv' /\ contract'.award = contract.award /\ contract # NoContract
<1>1. contract # NoContract
  BY DEF C!Registered
<1>2. contract \in ContractRecord /\ C!ChangesInOrder /\ C!PaidWithinValue
      /\ (contract.status = "terminated" => contract.paid # NotSet)
  BY <1>1 DEF ContractIInv
<1>3. PICK of \in C!Changes \cup {0}, from \in contract.documents \cup {0} :
        \/ contract' = [contract EXCEPT !.documents = contract.documents \cup {of}]
        \/ contract' = [contract EXCEPT !.documents = (contract.documents \ {from}) \cup {of}]
  BY DEF C!PostDocument, C!MoveDocument, C!Store
<1>4. of \in Nat
  <2>1. contract.changes \in Seq(Change)
    BY <1>2 DEF ContractRecord
  <2> QED BY <2>1 DEF C!Changes
<1>5. /\ contract' \in ContractRecord
      /\ contract'.changes = contract.changes /\ contract'.signed = contract.signed
      /\ contract'.award = contract.award /\ contract'.status = contract.status
      /\ contract'.paid = contract.paid /\ contract'.value = contract.value
  BY <1>2, <1>3, <1>4 DEF ContractRecord
<1>6. C!ChangesInOrder'
  BY <1>1, <1>5, ChangesUntouched
<1>7. C!PaidWithinValue'
  BY <1>1, <1>2, <1>5 DEF C!PaidWithinValue, C!Registered, C!Affordable
<1> QED BY <1>1, <1>2, <1>5, <1>6, <1>7 DEF ContractIInv

LEMMA ChangesMove ==
  ASSUME ContractIInv,
         \E signed \in Dates \cup {NotSet} :
           \/ C!PostChange(signed)
           \/ C!Registered /\ \E i \in C!Changes, status \in {"pending", "active"} :
                                C!PatchChange(i, status, signed)
  PROVE  ContractIInv' /\ contract'.award = contract.award /\ contract # NoContract
<1>1. contract # NoContract
  BY DEF C!PostChange, C!Registered
<1>2. contract \in ContractRecord /\ C!ChangesInOrder /\ contract.changes \in Seq(Change)
  BY <1>1 DEF ContractIInv, ContractRecord
<1> DEFINE n == Len(contract.changes)
<1>3. /\ n \in Nat /\ DOMAIN contract.changes = 1 .. n
      /\ \A j \in 1 .. n : contract.changes[j] \in Change
  BY <1>2
<1>4. \A j \in 1 .. n : contract.changes[j].status = "pending" => j = n
  BY <1>1, <1>2, <1>3 DEF C!ChangesInOrder, C!Registered, C!Changes
<1>5. ASSUME NEW j \in 1 .. n, contract.changes[j].status # "pending"
      PROVE  contract.changes[j].status = "active"
  BY <1>3, <1>5 DEF Change
<1>6. ASSUME NEW seq, contract' = [contract EXCEPT !.changes = seq]
      PROVE  contract'.award = contract.award
  BY <1>2, <1>6 DEF ContractRecord
<1>7. ASSUME NEW signed \in Dates \cup {NotSet}, C!PostChange(signed)
      PROVE  ContractIInv' /\ contract'.award = contract.award
  <2> DEFINE ch == [status |-> "pending", signed |-> signed]
             seq == Append(contract.changes, ch)
  <2>1. /\ contract' = [contract EXCEPT !.changes = seq]
        /\ C!InOrder(n + 1, signed)
        /\ n + 1 > 1 => contract.changes[n].status # "pending"
    BY <1>7, <1>3 DEF C!PostChange, C!Store
  <2>2. ch \in Change /\ ch.status = "pending" /\ ch.signed = signed
    BY DEF Change
  <2> HIDE DEF ch
  <2>3. /\ seq \in Seq(Change) /\ Len(seq) = n + 1 /\ seq[n + 1] = ch
        /\ \A j \in 1 .. n : seq[j] = contract.changes[j]
    BY <1>2, <1>3, <2>2, AppendProperties
  <2>4. \A j \in 1 .. n : contract.changes[j].status = "active"
    BY <1>3, <1>4, <1>5, <2>1
  <2>5. (n + 1) - 1 = n /\ n + 1 >= 1
    BY <1>3
  <2> HIDE DEF seq, n
  <2>6. ContractIInv'
    BY <1>1, <1>3, <2>1, <2>2, <2>3, <2>4, <2>5, LastChange
  <2> QED BY <1>6, <2>1, <2>6
<1>8. ASSUME NEW signed \in Dates \cup {NotSet}, C!Registered, NEW i \in C!Changes,
             NEW status \in {"pending", "active"}, C!PatchChange(i, status, signed)
      PROVE  ContractIInv' /\ contract'.award = contract.award
  <2> DEFINE ch == [status |-> status, signed |-> signed]
             seq == [contract.changes EXCEPT ![i] = ch]
  <2>1. /\ contract' = [contract EXCEPT !.changes = seq]
        /\ C!InOrder(i, signed)
        /\ status = "active" => signed # NotSet
        /\ contract.changes[i].status = "pending"
    BY <1>8, <1>2 DEF C!PatchChange, C!Store, ContractRecord
  <2>2. ch \in Change /\ ch.status = status /\ ch.signed = signed
    BY DEF Change
  <2>3. i \in 1 .. n /\ i = n
    BY <1>3, <1>4, <2>1 DEF C!Changes
  <2> HIDE DEF ch
  <2>4. /\ seq \in Seq(Change) /\ Len(seq) = i /\ seq[i] = ch
        /\ \A j \in 1 .. (i - 1) : j \in DOMAIN contract.changes /\ seq[j] = contract.changes[j]
    BY <1>2, <1>3, <2>2, <2>3
  <2>5. \A j \in 1 .. (i - 1) : contract.changes[j].status = "active"
    BY <1>3, <1>4, <1>5, <2>3
  <2> HIDE DEF seq
  <2>6. ContractIInv'
    BY <1>1, <1>3, <2>1, <2>2, <2>3, <2>4, <2>5, LastChange
  <2> QED BY <1>6, <2>1, <2>6
<1> QED BY <1>1, <1>7, <1>8

LEMMA ContractNext ==
  ASSUME ContractIInv, C!Next
  PROVE  ContractIInv' /\ contract'.award = contract.award /\ contract # NoContract
BY AmountsMove, ChangesMove, DocumentsMove DEF C!Next

-----------------------------------------------------------------------------
(* A registered contract is that of a complete reporting tender, which no  *)
(* step of the tender changes.                                             *)

BehindIt ==
  contract # NoContract =>
    /\ ~ Negotiation(tender) /\ contract.award \in Nth(tender.awards)
    /\ RegisteredStaysSigned

LEMMA CompleteStays ==
  ASSUME LimitedIInv(tender), ~ Negotiation(tender), tender.status = "complete", Next
  PROVE  FALSE
<1>1. tender.status \in Terminal /\ tender.status \notin {"draft", "active"} /\ ~ MayEdit(tender)
  BY DEF Terminal, MayEdit
<1>2. \A k \in Nth(tender.cancellations) :
        /\ tender.cancellations[k].status # "pending"
        /\ Nth(tender.cancellations[k].complaints) = {}
  BY DEF LimitedIInv, ReportingIsPlain, Nth
<1>3. ASSUME NEW i \in Nth(tender.awards), AwardStep(i) PROVE FALSE
  BY <1>1, <1>3
  DEF AwardStep, ActivateAward, RejectAward, CancelAward, CancelAppealedAward, SignContract,
      PostComplaint, AwardPeriodEnds, MoveAward, PatchComplaint, PatchContract, AwardEditable
<1>4. ASSUME NEW k \in Nth(tender.cancellations), CancellationStep(k) PROVE FALSE
  BY <1>1, <1>2, <1>4
  DEF CancellationStep, SubmitCancellation, EnactCancellation, DropCancellation,
      WithdrawCancellation, PostObjection, CancellationPeriodEnds, MayCancel
<1> QED BY <1>1, <1>3, <1>4
        DEF Next, Publish, Chronograph, next_check_due, PostLot, DeleteLot, PostAward,
            PostCancellation

AllIInv == LimitedIInv(tender) /\ ContractIInv /\ BehindIt

LEMMA BridgeStep ==
  ASSUME AllIInv, Bridge
  PROVE  AllIInv'
<1>1. /\ tender' = tender /\ tender.status = "complete" /\ ~ Negotiation(tender)
      /\ contract = NoContract
  BY DEF Bridge, C!Register, C!Registered
<1>2. PICK i \in Nth(tender.awards), value \in Amounts, signed \in Dates :
        /\ tender.awards[i].contract = "active"
        /\ contract' = [award |-> i, status |-> "active", value |-> value, paid |-> NotSet,
                        signed |-> signed, changes |-> <<>>, documents |-> {}]
  BY DEF Bridge, C!Register, C!Store
<1>3. i \in Nat /\ tender.awards[i].status = "active"
  <2>1. i \in Nat
    BY ShapeParts DEF AllIInv, LimitedIInv
  <2> QED BY <1>2, <2>1 DEF AllIInv, LimitedIInv, ContractOfActive
<1>4. contract' \in ContractRecord
  <2>1. <<>> \in Seq(Change)
    BY EmptySeq
  <2> QED BY <1>2, <1>3, <2>1 DEF ContractRecord
<1>5. /\ contract'.status = "active" /\ contract'.paid = NotSet /\ contract'.award = i
      /\ contract'.changes = <<>>
  BY <1>2
<1>6. C!ChangesInOrder' /\ C!PaidWithinValue'
  BY <1>5 DEF C!ChangesInOrder, C!PaidWithinValue, C!Changes, C!Affordable
<1>7. ContractIInv'
  BY <1>4, <1>5, <1>6 DEF ContractIInv
<1>8. BehindIt'
  BY <1>1, <1>2, <1>3, <1>5 DEF BehindIt, RegisteredStaysSigned
<1> QED BY <1>1, <1>7, <1>8 DEF AllIInv

LEMMA AllInvariant == AllSpec => []AllIInv
<1>1. AllInit => AllIInv
  BY LimitedInit DEF AllInit, AllIInv, ContractIInv, BehindIt
<1>2. AllIInv /\ [AllNext]_<<tender, contract>> => AllIInv'
  <2> SUFFICES ASSUME AllIInv, [AllNext]_<<tender, contract>> PROVE AllIInv'
    OBVIOUS
  <2>1. CASE TenderStep
    <3>1. contract' = contract /\ LimitedIInv(tender')
      BY <2>1, LimitedStep DEF TenderStep, AllIInv
    <3>2. contract = NoContract
      BY <2>1, CompleteStays DEF TenderStep, AllIInv, BehindIt, RegisteredStaysSigned
    <3> QED BY <3>1, <3>2 DEF AllIInv, ContractIInv, BehindIt
  <2>2. CASE Bridge
    BY <2>2, BridgeStep
  <2>3. CASE ContractStep
    <3>1. tender' = tender /\ ContractIInv' /\ contract'.award = contract.award
          /\ contract # NoContract
      BY <2>3, ContractNext DEF ContractStep, AllIInv
    <3> QED BY <3>1 DEF AllIInv, BehindIt, RegisteredStaysSigned
  <2>4. CASE UNCHANGED <<tender, contract>>
    BY <2>4
    DEF AllIInv, ContractIInv, BehindIt, RegisteredStaysSigned, C!ChangesInOrder,
        C!PaidWithinValue, C!Registered, C!Changes, C!Affordable
  <2> QED BY <2>1, <2>2, <2>3, <2>4 DEF AllNext
<1> QED BY <1>1, <1>2, PTL DEF AllSpec

-----------------------------------------------------------------------------
(* What the invariant means.                                               *)

\* The two documents have their types, no part of a tender ever has two live
\* awards, and a part with a signed contract is not cancelled with the tender
\* (see AwardsSound).
THEOREM AwardsAreSound == AllSpec => []AwardsSound
<1>1. AllIInv => AwardsSound
  <2> SUFFICES ASSUME AllIInv PROVE AwardsSound
    OBVIOUS
  <2>1. Shape(tender)
    BY DEF AllIInv, LimitedIInv
  <2>2. TypeOK
    <3>1. LotStatuses(tender) \subseteq {"active"} \cup Terminal
      BY <2>1, ShapeParts DEF LotStatuses, LotState
    <3> QED BY <2>1, <3>1, ShapeParts DEF TypeOK
  <2>3. C!TypeOK
    BY DEF AllIInv, ContractIInv, ContractRecord, Change, C!TypeOK, C!Registered
  <2>4. OneLiveAward
    <3> SUFFICES ASSUME NEW u \in Units(tender)
                 PROVE  Cardinality(LiveFor(tender, u)) <= 1
      BY DEF OneLiveAward
    <3>1. \A i, j \in LiveFor(tender, u) : i = j
      BY DEF AllIInv, LimitedIInv, AwardsApart, LiveFor, AwardsFor
    <3>2. CASE LiveFor(tender, u) = {}
      BY <3>2, FS_EmptySet
    <3>3. CASE LiveFor(tender, u) # {}
      <4>1. PICK i : LiveFor(tender, u) = {i}
        BY <3>1, <3>3
      <4>2. Cardinality({i}) = 1
        BY FS_Singleton
      <4> QED BY <4>1, <4>2
    <3> QED BY <3>2, <3>3
  <2>5. CompleteIsNotCancelled
    BY DEF AllIInv, LimitedIInv, CompleteApart, CompleteIsNotCancelled, LotStatuses
  <2> QED BY <2>2, <2>3, <2>4, <2>5 DEF AwardsSound
<1> QED BY <1>1, AllInvariant, PTL

\* Nobody signs while the award may still be complained about; only a resolved
\* objection makes the stand-still of a signed award run again.
THEOREM StandStillIsKept == AllSpec => []StandStillKept
<1>1. AllIInv => StandStillKept
  BY DEF AllIInv, LimitedIInv, StandStill, Resumed, StandStillKept
<1> QED BY <1>1, AllInvariant, PTL

\* Changes of a contract take effect in the order of their dates, what is paid
\* keeps within the value, and the tender never takes the signature back.
THEOREM ContractsAreSound == AllSpec => []ContractsSound
<1>1. AllIInv => ContractsSound
  BY DEF AllIInv, ContractIInv, BehindIt, ContractsSound, RegisteredStaysSigned,
         C!ChangesInOrder, C!PaidWithinValue, C!Registered
<1> QED BY <1>1, AllInvariant, PTL

-----------------------------------------------------------------------------
(* What a visit would change.  A visit that is not due finds no cancel-     *)
(* lation to put into force and no draft about an award, so that the only  *)
(* thing it changes are the drafts of objections.                          *)

LEMMA NothingRipe ==
  ASSUME NEW t, Shape(t), \A k \in Nth(t.cancellations) : ~ Ripe(t.cancellations[k])
  PROVE  CheckCancellations(t) = t
<1> DEFINE n == Len(t.cancellations)
<1>1. n \in Nat /\ Nth(t.cancellations) = 1 .. n
  BY ShapeParts
<1>2. PICK f : Visits(t, n, f) /\ CheckCancellations(t) = f[n]
  BY VisitComputed
<1> DEFINE S == {m \in Nat : m <= n => f[m] = t}
<1>3. 0 \in S
  BY <1>1, <1>2 DEF Visits
<1>4. ASSUME NEW m \in Nat, m \in S PROVE m + 1 \in S
  <2> SUFFICES ASSUME m + 1 <= n PROVE f[m + 1] = t
    OBVIOUS
  <2>1. m + 1 \in Nth(t.cancellations) /\ f[m] = t
    BY <1>1, <1>4
  <2>2. f[m + 1] = AtPlace(t, f[m], m + 1)
    BY <1>1, <1>2, <2>1 DEF Visits
  <2> QED BY <2>1, <2>2 DEF AtPlace
<1>5. n \in S
  <2> HIDE DEF S
  <2> QED BY <1>1, <1>3, <1>4, SetInduction, Zenon
<1> QED BY <1>1, <1>2, <1>5

\* A visit that would change more of a negotiation than the drafts of objections
\* is scheduled.
THEOREM NothingForgotten == AllSpec => []NothingIsForgotten
<1>1. AllIInv => NothingIsForgotten
  <2> DEFINE t == tender
             aw == [i \in Nth(t.awards) |-> DropDraft(t.awards[i])]
             cs == [k \in Nth(t.cancellations) |-> DropDrafts(t.cancellations[k])]
             u == CheckDrafts(t)
  <2> SUFFICES ASSUME AllIInv, Negotiation(t), t.status \notin Terminal, ~ next_check_due(t)
               PROVE  WithoutObjections(CheckStatus(t)) = WithoutObjections(t)
    BY DEF NothingIsForgotten
  <2>1. Shape(t) /\ Shape(u)
    BY DraftsDropped DEF AllIInv, LimitedIInv
  <2>2. /\ u = [type |-> t.type, status |-> t.status, lots |-> t.lots,
                awards |-> aw, cancellations |-> cs]
        /\ u.cancellations = cs
    <3>1. u = [[t EXCEPT !.awards = aw] EXCEPT !.cancellations = cs]
      BY <2>1, ShapeParts DEF CheckDrafts
    <3> DEFINE v == [t EXCEPT !.awards = aw]
    <3> HIDE DEF aw, cs
    <3>2. v = [type |-> t.type, status |-> t.status, lots |-> t.lots,
               awards |-> aw, cancellations |-> t.cancellations]
      BY <2>1, Rebuilt
    <3> HIDE DEF v
    <3>3. [v EXCEPT !.cancellations = cs] =
            [type |-> t.type, status |-> t.status, lots |-> t.lots,
             awards |-> aw, cancellations |-> cs]
      BY <3>2
    <3>4. u = [type |-> t.type, status |-> t.status, lots |-> t.lots,
               awards |-> aw, cancellations |-> cs]
      BY <3>1, <3>3 DEF v
    <3> QED BY <3>4
  <2>3. aw = t.awards
    <3>1. ASSUME NEW i \in Nth(t.awards) PROVE DropDraft(t.awards[i]) = t.awards[i]
      <4>1. t.awards[i] \in AwardRecord
        BY <2>1, ShapeParts
      <4>2. t.awards[i].period = "over" => t.awards[i].complaint # "draft"
        BY DEF next_check_due
      <4> QED BY <4>1, <4>2 DEF DropDraft, Mistaken, AwardRecord
    <3>2. t.awards = [i \in Nth(t.awards) |-> t.awards[i]]
      BY <2>1, ShapeParts DEF Nth
    <3> QED BY <3>1, <3>2
  <2>4. \A k \in Nth(t.cancellations) :
          /\ DropDrafts(t.cancellations[k]).status = t.cancellations[k].status
          /\ DropDrafts(t.cancellations[k]).period = t.cancellations[k].period
          /\ [DropDrafts(t.cancellations[k]) EXCEPT !.complaints = <<>>] =
               [t.cancellations[k] EXCEPT !.complaints = <<>>]
    <3> SUFFICES ASSUME NEW k \in Nth(t.cancellations), NEW c, c = t.cancellations[k]
                 PROVE  /\ DropDrafts(c).status = c.status /\ DropDrafts(c).period = c.period
                        /\ [DropDrafts(c) EXCEPT !.complaints = <<>>] =
                             [c EXCEPT !.complaints = <<>>]
      OBVIOUS
    <3>1. c \in CancellationRecord
      BY <2>1, ShapeParts
    <3>2. ASSUME NEW ms
          PROVE  /\ [c EXCEPT !.complaints = ms].status = c.status
                 /\ [c EXCEPT !.complaints = ms].period = c.period
                 /\ [[c EXCEPT !.complaints = ms] EXCEPT !.complaints = <<>>] =
                      [c EXCEPT !.complaints = <<>>]
      BY <3>1 DEF CancellationRecord
    <3>3. CASE c.period = "over"
      <4> DEFINE ms == [j \in Nth(c.complaints) |-> Mistaken(c.complaints[j])]
      <4>1. DropDrafts(c) = [c EXCEPT !.complaints = ms]
        BY <3>3 DEF DropDrafts
      <4> HIDE DEF ms
      <4> QED BY <4>1, <3>2
    <3>4. CASE c.period # "over"
      BY <3>4 DEF DropDrafts
    <3> QED BY <3>3, <3>4
  <2>5. CheckStatus(t) = u
    <3>1. \A k \in Nth(u.cancellations) : ~ Ripe(u.cancellations[k])
      <4>1. \A k \in Nth(t.cancellations) :
              ~ (t.cancellations[k].status = "pending" /\ t.cancellations[k].period = "over")
        BY DEF next_check_due
      <4>2. ASSUME NEW k \in Nth(u.cancellations)
            PROVE  ~ Ripe(u.cancellations[k])
        <5>1. k \in Nth(t.cancellations) /\ u.cancellations[k] = DropDrafts(t.cancellations[k])
          BY <2>2 DEF Nth
        <5>2. /\ u.cancellations[k].status = t.cancellations[k].status
              /\ u.cancellations[k].period = t.cancellations[k].period
          BY <2>4, <5>1
        <5> HIDE DEF u
        <5> QED BY <4>1, <5>1, <5>2 DEF Ripe
      <4> QED BY <4>2
    <3> HIDE DEF u
    <3>2. CheckCancellations(u) = u
      BY <2>1, <3>1, NothingRipe
    <3> QED BY <3>2 DEF u, CheckStatus
  <2>6. WithoutObjections(u) = WithoutObjections(t)
    <3> DEFINE cu == [k \in Nth(u.cancellations) |-> [u.cancellations[k] EXCEPT !.complaints = <<>>]]
               ct == [k \in Nth(t.cancellations) |-> [t.cancellations[k] EXCEPT !.complaints = <<>>]]
    <3>1. cu = ct
      <4>1. Nth(u.cancellations) = Nth(t.cancellations)
        BY <2>2 DEF Nth
      <4>2. ASSUME NEW k \in Nth(t.cancellations)
            PROVE  [u.cancellations[k] EXCEPT !.complaints = <<>>] =
                     [t.cancellations[k] EXCEPT !.complaints = <<>>]
        <5>1. u.cancellations[k] = DropDrafts(t.cancellations[k])
          BY <2>2
        <5> QED BY <2>4, <5>1
      <4> HIDE DEF u
      <4> QED BY <4>1, <4>2
    <3>2. WithoutObjections(u) = [u EXCEPT !.cancellations = cu]
          /\ WithoutObjections(t) = [t EXCEPT !.cancellations = ct]
      BY DEF WithoutObjections
    <3>3. u = [t EXCEPT !.cancellations = cs]
      <4> HIDE DEF cs, u
      <4>1. [t EXCEPT !.cancellations = cs] =
              [type |-> t.type, status |-> t.status, lots |-> t.lots, awards |-> t.awards,
               cancellations |-> cs]
        BY <2>1, Rebuilt
      <4> QED BY <2>2, <2>3, <4>1
    <3> HIDE DEF u, cu, ct, cs
    <3>4. [u EXCEPT !.cancellations = cu] =
            [type |-> t.type, status |-> t.status, lots |-> t.lots, awards |-> t.awards,
             cancellations |-> cu]
      <4>1. u.type = t.type /\ u.status = t.status /\ u.lots = t.lots /\ u.awards = t.awards
        <5> HIDE DEF aw
        <5> QED BY <2>2, <2>3
      <4>2. [u EXCEPT !.cancellations = cu] =
              [type |-> u.type, status |-> u.status, lots |-> u.lots, awards |-> u.awards,
               cancellations |-> cu]
        BY <2>1, Rebuilt
      <4> QED BY <4>1, <4>2, Zenon
    <3>5. [t EXCEPT !.cancellations = cu] =
            [type |-> t.type, status |-> t.status, lots |-> t.lots, awards |-> t.awards,
             cancellations |-> cu]
      BY <2>1, Rebuilt
    <3> QED BY <3>1, <3>2, <3>4, <3>5
  <2> QED BY <2>5, <2>6
<1> QED BY <1>1, AllInvariant, PTL

-----------------------------------------------------------------------------
(* What a pending cancellation holds.  The tender as a whole may not be     *)
(* edited; a lot may not be touched, but awards may come from another one.  *)

\* Awards a and b are the same as far as a cancellation of x is concerned.
Alike(a, b, x) ==
  /\ x \in {Whole, a.lot} <=> x \in {Whole, b.lot}
  /\ x \in {Whole, a.lot} => Untouched(a, b)

LEMMA FrozenAlike ==
  ASSUME NEW t, NEW u, NEW x, Nth(u.awards) = Nth(t.awards),
         \A i \in Nth(t.awards) : Alike(t.awards[i], u.awards[i], x)
  PROVE  Frozen(t, u, x)
<1>1. AwardsOf(u, x) = AwardsOf(t, x)
  BY DEF AwardsOf, Alike
<1>2. \A i \in AwardsOf(t, x) : Untouched(t.awards[i], u.awards[i])
  BY DEF AwardsOf, Alike
<1> QED BY <1>1, <1>2 DEF Frozen

\* The awards, one of them set to a.
LEMMA OneSet ==
  ASSUME LimitedIInv(tender), NEW i \in Nth(tender.awards), NEW a,
         tender'.awards = [tender.awards EXCEPT ![i] = a]
  PROVE  /\ Nth(tender'.awards) = Nth(tender.awards)
         /\ \A j \in Nth(tender.awards) :
              tender'.awards[j] = IF j = i THEN a ELSE tender.awards[j]
<1>1. tender.awards \in Seq(AwardRecord)
  BY ShapeParts DEF LimitedIInv
<1> QED BY <1>1 DEF Nth

\* An award of something else may become any award of something else.
LEMMA OthersFree ==
  ASSUME LimitedIInv(tender), NEW i \in Nth(tender.awards), NEW x, x # Whole,
         x # tender.awards[i].lot, NEW a, x # a.lot,
         tender'.awards = [tender.awards EXCEPT ![i] = a]
  PROVE  Frozen(tender, tender', x)
<1>1. \A j \in Nth(tender.awards) : Alike(tender.awards[j], tender'.awards[j], x)
  BY OneSet DEF Alike, Untouched
<1> QED BY <1>1, OneSet, FrozenAlike

\* An award of something else comes in, not signed for; a live one only if there
\* is no other.
LEMMA OneComes ==
  ASSUME LimitedIInv(tender), NEW i \in Nth(tender.awards), NEW x, x # Whole,
         x # tender.awards[i].lot, NEW a, a.contract # "active",
         a.status \in Live => FreeFor(i, a.lot),
         tender'.awards = [tender.awards EXCEPT ![i] = a]
  PROVE  Frozen(tender, tender', x)
<1>1. CASE x # a.lot
  BY <1>1, OthersFree
<1>2. CASE x = a.lot
  <2>1. AwardsOf(tender', x) = AwardsOf(tender, x) \cup {i} /\ i \notin AwardsOf(tender, x)
    BY <1>2, OneSet DEF AwardsOf
  <2>2. \A j \in AwardsOf(tender, x) : Untouched(tender.awards[j], tender'.awards[j])
    BY <2>1, OneSet DEF AwardsOf, Untouched
  <2>3. a.status \in Live => LiveFor(tender, x) = {}
    <3> SUFFICES ASSUME a.status \in Live, NEW j \in LiveFor(tender, x) PROVE FALSE
      OBVIOUS
    <3>1. j = i
      BY <1>2 DEF FreeFor
    <3> QED BY <3>1 DEF LiveFor, AwardsFor
  <2>4. tender'.awards[i] = a
    BY OneSet
  <2> QED BY <2>1, <2>2, <2>3, <2>4 DEF Frozen
<1> QED BY <1>1, <1>2

\* A change of an award that leaves its lot, status and signature leaves all.
LEMMA SameSignature ==
  ASSUME LimitedIInv(tender), NEW i \in Nth(tender.awards), NEW x, NEW a,
         a.lot = tender.awards[i].lot, a.status = tender.awards[i].status,
         a.contract = "active" <=> tender.awards[i].contract = "active",
         tender'.awards = [tender.awards EXCEPT ![i] = a]
  PROVE  Frozen(tender, tender', x)
<1>1. \A j \in Nth(tender.awards) : Alike(tender.awards[j], tender'.awards[j], x)
  BY OneSet DEF Alike, Untouched
<1> QED BY <1>1, OneSet, FrozenAlike

\* What is pending is a lot, and not that of an award the owner may edit.
LEMMA PendingIsElsewhere ==
  ASSUME LimitedIInv(tender), MayEdit(tender), NEW x, HasPending(tender, x)
  PROVE  /\ x # Whole /\ Negotiation(tender)
         /\ \A y : ~ Held(tender, y) => y # x
<1>1. x # Whole
  BY EditableIsFree
<1>2. PICK k \in Nth(tender.cancellations) :
        tender.cancellations[k].of = x /\ tender.cancellations[k].status = "pending"
  BY DEF HasPending
<1>3. Negotiation(tender)
  BY <1>2 DEF LimitedIInv, ReportingIsPlain
<1>4. \A y : ~ Held(tender, y) => y # x
  BY <1>1 DEF Held
<1> QED BY <1>1, <1>3, <1>4

\* The awards after a step that sets one of them.
LEMMA AwardsSet ==
  ASSUME LimitedIInv(tender), NEW i \in Nth(tender.awards), NEW a,
         tender' = [tender EXCEPT !.awards[i] = a]
  PROVE  tender'.awards = [tender.awards EXCEPT ![i] = a]
<1>1. Shape(tender)
  BY DEF LimitedIInv
<1> DEFINE aw == [tender.awards EXCEPT ![i] = a]
<1>2. tender' = [tender EXCEPT !.awards = aw]
  BY <1>1, PartOfField
<1> HIDE DEF aw
<1>3. tender'.awards = aw
  BY <1>1, <1>2, Rebuilt
<1> QED BY <1>3 DEF aw

\* The owner decides on an award of something else, or moves it.
LEMMA DecisionFreezes ==
  ASSUME LimitedIInv(tender), NEW i \in Nth(tender.awards), NEW u \in Units(tender),
         MoveAward(i, u) \/ ActivateAward(i, u) \/ RejectAward(i, u) \/ CancelAward(i, u),
         NEW x, HasPending(tender, x)
  PROVE  Frozen(tender, tender', x)
<1> DEFINE a == tender.awards[i]
<1>1. Shape(tender) /\ a \in AwardRecord
  BY ShapeParts DEF LimitedIInv
<1>2. x # Whole /\ x # a.lot
  BY PendingIsElsewhere DEF MoveAward, ActivateAward, RejectAward, CancelAward, AwardEditable
<1>3. a.status = "pending" => a.contract # "active"
  BY DEF LimitedIInv, ContractOfActive
<1>4. PICK b : /\ b.contract # "active" /\ (b.status \in Live => FreeFor(i, b.lot))
               /\ tender' = [tender EXCEPT !.awards[i] = b]
  <2>1. CASE MoveAward(i, u)
    <3> DEFINE b == [a EXCEPT !.lot = u]
    <3>1. /\ b.contract # "active" /\ b.lot = u /\ FreeFor(i, u)
          /\ tender' = [tender EXCEPT !.awards[i] = b]
      BY <1>1, <1>3, <2>1 DEF MoveAward, Save, AwardRecord
    <3> HIDE DEF b
    <3> QED BY <3>1
  <2>2. CASE ActivateAward(i, u)
    <3> DEFINE b == [a EXCEPT !.lot = u, !.status = "active", !.contract = "pending",
                              !.period = Period(tender, "running")]
    <3>1. /\ b.contract # "active" /\ b.lot = u /\ FreeFor(i, u)
          /\ tender' = [tender EXCEPT !.awards[i] = b]
      BY <1>1, <2>2 DEF ActivateAward, Save, AwardRecord
    <3> HIDE DEF b
    <3> QED BY <3>1
  <2>3. CASE RejectAward(i, u)
    <3> DEFINE b == [a EXCEPT !.lot = u, !.status = "unsuccessful",
                              !.period = Period(tender, "over")]
    <3>1. /\ b.contract # "active" /\ b.status \notin Live
          /\ tender' = [tender EXCEPT !.awards[i] = b]
      BY <1>1, <1>3, <2>3 DEF RejectAward, Save, AwardRecord, Live
    <3> HIDE DEF b
    <3> QED BY <3>1
  <2>4. CASE CancelAward(i, u)
    <3> DEFINE b == CancelledAward(a, u)
    <3>1. b.contract # "active" /\ b.status \notin Live
      BY <1>1 DEF CancelledAward, AwardRecord, Live
    <3>2. tender' = [tender EXCEPT !.awards[i] = b]
      BY <2>4 DEF CancelAward, Save
    <3> HIDE DEF b
    <3> QED BY <3>1, <3>2
  <2> QED BY <2>1, <2>2, <2>3, <2>4
<1>5. tender'.awards = [tender.awards EXCEPT ![i] = b]
  BY <1>4, AwardsSet
<1> QED BY <1>2, <1>4, <1>5, OneComes

\* An award that was complained about with success takes its new lot along.
LEMMA AppealFreezes ==
  ASSUME LimitedIInv(tender), NEW i \in Nth(tender.awards), NEW u \in Units(tender),
         CancelAppealedAward(i, u), NEW x, HasPending(tender, x)
  PROVE  Frozen(tender, tender', x)
<1> DEFINE a == tender.awards[i]
           same == AwardsFor(tender, u) \cup {i}
           aw == [j \in Nth(tender.awards) |->
                    IF j \in same THEN CancelledAward(tender.awards[j], u) ELSE tender.awards[j]]
<1>1. Shape(tender) /\ a.complaint = "satisfied"
  BY DEF LimitedIInv, CancelAppealedAward
<1>2. x # Whole /\ x # a.lot
  BY PendingIsElsewhere DEF CancelAppealedAward, AwardEditable
<1>3. tender'.awards = aw
  <2>1. tender' = [tender EXCEPT !.awards = aw]
    BY DEF CancelAppealedAward, Save
  <2> HIDE DEF aw
  <2> QED BY <1>1, <2>1, Rebuilt
<1>4. Nth(aw) = Nth(tender.awards)
  BY DEF Nth
<1>5. ASSUME NEW j \in same
      PROVE  aw[j].lot = u /\ aw[j].status = "cancelled" /\ aw[j].contract # "active"
  <2>1. tender.awards[j] \in AwardRecord /\ j \in Nth(tender.awards)
    BY <1>1, ShapeParts DEF AwardsFor
  <2>2. aw[j] = CancelledAward(tender.awards[j], u)
    BY <2>1
  <2> HIDE DEF aw
  <2> QED BY <2>1, <2>2 DEF CancelledAward, AwardRecord
<1>6. \A j \in Nth(tender.awards) \ same : aw[j] = tender.awards[j]
  OBVIOUS
<1>7. \A j \in Nth(tender.awards) : j \in same <=> j = i \/ tender.awards[j].lot = u
  BY DEF AwardsFor
<1> HIDE DEF aw, same
<1>8. CASE x # u
  <2>1. \A j \in Nth(tender.awards) : Alike(tender.awards[j], aw[j], x)
    BY <1>2, <1>5, <1>6, <1>7, <1>8 DEF Alike, Untouched
  <2> QED BY <1>3, <1>4, <2>1, FrozenAlike
<1>9. CASE x = u
  <2>1. AwardsOf(tender', x) = same
    BY <1>2, <1>3, <1>4, <1>5, <1>6, <1>7, <1>9 DEF AwardsOf, same, AwardsFor
  <2>2. AwardsOf(tender, x) \subseteq same /\ i \in same /\ i \notin AwardsOf(tender, x)
    BY <1>2, <1>7, <1>9 DEF AwardsOf, same
  <2>3. same \subseteq Nth(tender.awards)
    BY DEF same, AwardsFor
  <2>4. TakenAlong(tender, tender', x)
    BY <1>1, <1>3, <1>5, <2>1, <2>2 DEF TakenAlong
  <2> QED BY <1>3, <1>5, <2>1, <2>2, <2>3, <2>4 DEF Frozen, Live
<1> QED BY <1>8, <1>9

LEMMA AwardStepFreezes ==
  ASSUME LimitedIInv(tender), NEW i \in Nth(tender.awards), AwardStep(i),
         NEW x, HasPending(tender, x)
  PROVE  Frozen(tender, tender', x)
<1> DEFINE a == tender.awards[i]
<1>1. Shape(tender) /\ a \in AwardRecord
  BY ShapeParts DEF LimitedIInv
<1>4. ASSUME NEW u \in Units(tender),
             \/ MoveAward(i, u) \/ ActivateAward(i, u) \/ RejectAward(i, u)
             \/ CancelAward(i, u) \/ CancelAppealedAward(i, u)
      PROVE  Frozen(tender, tender', x)
  BY <1>4, DecisionFreezes, AppealFreezes
<1>5. CASE SignContract(i)
  <2> DEFINE b == [a EXCEPT !.contract = "active"]
  <2>1. /\ MayEdit(tender) /\ x # Whole /\ Negotiation(tender) /\ MaySign(tender, i)
        /\ tender'.awards = [tender.awards EXCEPT ![i] = b]
    <3>1. MayEdit(tender)
      BY <1>5 DEF SignContract
    <3>2. x # Whole /\ Negotiation(tender)
      BY <3>1, PendingIsElsewhere
    <3>3. MaySign(tender, i)
      BY <1>5, <3>2 DEF SignContract
    <3>4. tender.awards[i].period = "over"
      BY <3>3 DEF MaySign
    <3>5. tender'.awards = [tender.awards EXCEPT ![i] = b]
      BY <1>5, <3>1, <3>4, ContractStatus DEF SignContract
    <3> QED BY <3>1, <3>2, <3>3, <3>5
  <2>2. x # a.lot
    <3> SUFFICES ASSUME x = a.lot PROVE FALSE
      OBVIOUS
    <3>1. PICK k \in Nth(tender.cancellations) :
            tender.cancellations[k].of = x /\ tender.cancellations[k].status = "pending"
      BY DEF HasPending
    <3> QED BY <2>1, <3>1 DEF MaySign
  <2>3. b.lot = a.lot
    BY <1>1 DEF AwardRecord
  <2> HIDE DEF b
  <2> QED BY <2>1, <2>2, <2>3, OthersFree
<1>6. ASSUME NEW status \in {"pending", "terminated", "cancelled", "active"},
             PatchContract(i, status)
      PROVE  Frozen(tender, tender', x)
  <2> DEFINE b == [a EXCEPT !.contract = status]
  <2>1. /\ tender'.awards = [tender.awards EXCEPT ![i] = b]
        /\ status = "active" <=> a.contract = "active"
    BY <1>6, ContractStatus DEF PatchContract
  <2>2. b.lot = a.lot /\ b.status = a.status /\ b.contract = status
    BY <1>1 DEF AwardRecord
  <2> HIDE DEF b
  <2> QED BY <2>1, <2>2, SameSignature
<1>7. CASE PostComplaint(i) \/ AwardPeriodEnds(i) \/ \E to \in Decisions : PatchComplaint(i, to)
  <2>1. PICK b : b.lot = a.lot /\ b.status = a.status /\ b.contract = a.contract
                 /\ tender' = [tender EXCEPT !.awards[i] = b]
    <3>1. ASSUME NEW to, tender' = [tender EXCEPT !.awards[i].complaint = to]
          PROVE  \E b : b.lot = a.lot /\ b.status = a.status /\ b.contract = a.contract
                        /\ tender' = [tender EXCEPT !.awards[i] = b]
      <4> DEFINE b == [a EXCEPT !.complaint = to]
      <4>1. b.lot = a.lot /\ b.status = a.status /\ b.contract = a.contract
            /\ tender' = [tender EXCEPT !.awards[i] = b]
        BY <1>1, <3>1 DEF AwardRecord
      <4> HIDE DEF b
      <4> QED BY <4>1
    <3>2. ASSUME tender' = [tender EXCEPT !.awards[i].period = "over"]
          PROVE  \E b : b.lot = a.lot /\ b.status = a.status /\ b.contract = a.contract
                        /\ tender' = [tender EXCEPT !.awards[i] = b]
      <4> DEFINE b == [a EXCEPT !.period = "over"]
      <4>1. b.lot = a.lot /\ b.status = a.status /\ b.contract = a.contract
            /\ tender' = [tender EXCEPT !.awards[i] = b]
        BY <1>1, <3>2 DEF AwardRecord
      <4> HIDE DEF b
      <4> QED BY <4>1
    <3> QED BY <1>7, <3>1, <3>2 DEF PostComplaint, AwardPeriodEnds, PatchComplaint, Save
  <2>2. tender'.awards = [tender.awards EXCEPT ![i] = b]
    BY <2>1, AwardsSet
  <2> QED BY <2>1, <2>2, SameSignature
<1> QED BY <1>4, <1>5, <1>6, <1>7 DEF AwardStep

LEMMA SameAwards ==
  ASSUME NEW t, NEW u, u.awards = t.awards, NEW x
  PROVE  Frozen(t, u, x)
BY FrozenAlike DEF Alike, Untouched

\* A visit drops drafts of complaints about awards, nothing else in them.
LEMMA VisitFreezes ==
  ASSUME LimitedIInv(tender), Chronograph, NEW x
  PROVE  Frozen(tender, tender', x)
<1> DEFINE t == tender
           u == CheckDrafts(t)
           aw == [i \in Nth(t.awards) |-> DropDraft(t.awards[i])]
           cs == [k \in Nth(t.cancellations) |-> DropDrafts(t.cancellations[k])]
<1>1. Shape(t) /\ Shape(u) /\ LimitedIInv(u)
  BY DraftsDropped DEF LimitedIInv
<1>2. tender'.awards = u.awards
  BY <1>1, CancellationsVisited DEF Chronograph, Save, CheckStatus, Remains
<1>3. u.awards = aw
  <2> DEFINE v == [t EXCEPT !.awards = aw]
  <2>1. u = [v EXCEPT !.cancellations = cs]
    BY <1>1, ShapeParts DEF CheckDrafts
  <2> HIDE DEF aw, cs, u
  <2>2. v = [type |-> t.type, status |-> t.status, lots |-> t.lots,
             awards |-> aw, cancellations |-> t.cancellations]
    BY <1>1, Rebuilt
  <2> HIDE DEF v
  <2> QED BY <2>1, <2>2
<1>4. ASSUME NEW i \in Nth(t.awards) PROVE Alike(t.awards[i], aw[i], x)
  <2>1. t.awards[i] \in AwardRecord
    BY <1>1, ShapeParts
  <2> QED BY <2>1 DEF Alike, Untouched, DropDraft, AwardRecord
<1>5. Nth(aw) = Nth(t.awards)
  BY DEF Nth
<1> HIDE DEF aw, u
<1> QED BY <1>2, <1>3, <1>4, <1>5, FrozenAlike

LEMMA CancellationStepFreezes ==
  ASSUME LimitedIInv(tender), NEW k \in Nth(tender.cancellations), CancellationStep(k), NEW x
  PROVE  Frozen(tender, tender', x)
<1>1. Shape(tender)
  BY DEF LimitedIInv
<1>2. CASE EnactCancellation(k)
  BY <1>2, EnactStep, SameAwards
<1>3. ASSUME NEW j \in Nth(tender.cancellations[k].complaints), ResolveObjection(k, j)
      PROVE  Frozen(tender, tender', x)
  <2> DEFINE t == tender
             aw == [i \in Nth(t.awards) |->
                      IF i \in Prolonged(k) THEN [t.awards[i] EXCEPT !.period = "running"]
                      ELSE t.awards[i]]
             d == [t.cancellations[k] EXCEPT !.complaints =
                     [t.cancellations[k].complaints EXCEPT ![j] = "resolved"]]
             cs == [t.cancellations EXCEPT ![k] = d]
             v == [t EXCEPT !.cancellations = cs]
  <2>1. tender' = [v EXCEPT !.awards = aw]
    BY <1>1, <1>3, ShapeParts DEF ResolveObjection, Save
  <2>2. tender'.awards = aw
    <3> HIDE DEF aw, cs
    <3>1. v = [type |-> t.type, status |-> t.status, lots |-> t.lots,
               awards |-> t.awards, cancellations |-> cs]
      BY <1>1, Rebuilt
    <3> HIDE DEF v
    <3> QED BY <2>1, <3>1
  <2>3. ASSUME NEW i \in Nth(t.awards) PROVE Alike(t.awards[i], aw[i], x)
    <3>1. t.awards[i] \in AwardRecord
      BY <1>1, ShapeParts
    <3> QED BY <3>1 DEF Alike, Untouched, AwardRecord
  <2>4. Nth(aw) = Nth(t.awards)
    BY DEF Nth
  <2> HIDE DEF aw
  <2> QED BY <2>2, <2>3, <2>4, FrozenAlike
<1>4. CASE \/ SubmitCancellation(k) \/ DropCancellation(k) \/ WithdrawCancellation(k)
           \/ PostObjection(k) \/ CancellationPeriodEnds(k)
           \/ \E j \in Nth(tender.cancellations[k].complaints), to \in Decisions :
                PatchObjection(k, j, to)
  <2>1. \E cs : tender' = [tender EXCEPT !.cancellations = cs]
    BY <1>1, <1>4
    DEF SubmitCancellation, DropCancellation, WithdrawCancellation, PostObjection,
        CancellationPeriodEnds, PatchObjection, Save
  <2>2. tender'.awards = tender.awards
    BY <1>1, <2>1, Rebuilt
  <2> QED BY <2>2, SameAwards
<1> QED BY <1>2, <1>3, <1>4 DEF CancellationStep

LEMMA PostAwardFreezes ==
  ASSUME LimitedIInv(tender), NEW y \in Units(tender), PostAward(y),
         NEW x, HasPending(tender, x)
  PROVE  Frozen(tender, tender', x)
<1> DEFINE t == tender
           n == Len(t.awards)
           a == NewAward(y)
           aw == Append(t.awards, a)
<1>1. Shape(t) /\ t.awards \in Seq(AwardRecord) /\ n \in Nat /\ Nth(t.awards) = 1 .. n
  BY ShapeParts DEF LimitedIInv
<1>2. x # Whole /\ x # y
  BY PendingIsElsewhere DEF PostAward
<1>3. tender'.awards = aw
  <2>1. tender' = [t EXCEPT !.awards = aw]
    BY DEF PostAward, Save
  <2> HIDE DEF aw
  <2> QED BY <1>1, <2>1, Rebuilt
<1>4. a.lot = y
  BY DEF NewAward
<1> HIDE DEF a
<1>5. /\ Nth(aw) = 1 .. (n + 1) /\ aw[n + 1] = a
      /\ \A i \in 1 .. n : aw[i] = t.awards[i]
  BY <1>1 DEF Nth
<1> HIDE DEF aw
<1>6. AwardsOf(tender', x) = AwardsOf(t, x)
  BY <1>1, <1>2, <1>3, <1>4, <1>5 DEF AwardsOf
<1>7. \A i \in AwardsOf(t, x) : Untouched(t.awards[i], tender'.awards[i])
  BY <1>1, <1>3, <1>5 DEF AwardsOf, Untouched
<1> QED BY <1>6, <1>7 DEF Frozen

LEMMA StepFreezes ==
  ASSUME LimitedIInv(tender), Next, NEW x, HasPending(tender, x)
  PROVE  Frozen(tender, tender', x)
<1>1. Shape(tender)
  BY DEF LimitedIInv
<1>2. ASSUME tender'.awards = tender.awards PROVE Frozen(tender, tender', x)
  BY <1>2, SameAwards
<1>3. CASE Publish
  <2>1. tender'.awards = tender.awards
    BY <1>1, <1>3, ShapeParts DEF Publish, Save
  <2> QED BY <1>2, <2>1
<1>4. ASSUME NEW l, PostLot(l) \/ DeleteLot(l) PROVE Frozen(tender, tender', x)
  <2>1. PICK L : tender' = [tender EXCEPT !.lots = L]
    BY <1>4 DEF PostLot, DeleteLot, Save
  <2>2. tender'.awards = tender.awards
    BY <1>1, <2>1, ShapeParts
  <2> QED BY <1>2, <2>2
<1>5. ASSUME NEW y, PostCancellation(y) PROVE Frozen(tender, tender', x)
  <2>1. PICK cs : tender' = [tender EXCEPT !.cancellations = cs]
    BY <1>5 DEF PostCancellation, Save
  <2>2. tender'.awards = tender.awards
    BY <1>1, <2>1, Rebuilt
  <2> QED BY <1>2, <2>2
<1> QED BY <1>3, <1>4, <1>5, VisitFreezes, PostAwardFreezes, AwardStepFreezes,
           CancellationStepFreezes DEF Next

-----------------------------------------------------------------------------
(* A contract that ended.                                                  *)

LEMMA EndedStays ==
  ASSUME ContractIInv, contract # NoContract, contract.status = "terminated", C!Next
  PROVE  /\ contract'.status = "terminated" /\ contract'.paid # NotSet
         /\ contract'.paid = contract.paid /\ contract'.value = contract.value
<1>1. contract \in ContractRecord /\ contract.paid # NotSet /\ contract.status # "active"
  BY DEF ContractIInv
<1>2. PICK s, seq :
        \/ contract' = [contract EXCEPT !.status = s] /\ s = "terminated"
        \/ contract' = [contract EXCEPT !.changes = seq]
  <2>1. ASSUME NEW status, C!SetStatus(status), status \in {"active", "terminated"}
        PROVE  contract' = [contract EXCEPT !.status = "terminated"]
    BY <2>1 DEF C!SetStatus, C!Store
  <2>2. ASSUME NEW i, NEW status, NEW signed, C!PatchChange(i, status, signed)
        PROVE  \E seq : contract' = [contract EXCEPT !.changes = seq]
    BY <1>1, <2>2 DEF C!PatchChange, C!Store, ContractRecord
  <2> QED BY <1>1, <2>1, <2>2
          DEF C!Next, C!Terminate, C!EditAmounts, C!PostChange, C!PostDocument, C!MoveDocument
<1>3. /\ contract'.status = "terminated" /\ contract'.paid = contract.paid
      /\ contract'.value = contract.value
  BY <1>1, <1>2 DEF ContractRecord
<1> QED BY <1>1, <1>3

\* What a pending cancellation is about is left alone, and a contract that ended
\* keeps its status and its amounts.
THEOREM ClosedStays == AllSpec => ClosedStaysClosed
<1>1. AllIInv /\ [AllNext]_<<tender, contract>> =>
        [\A x \in LotsOf(tender) \cup {Whole} :
           HasPending(tender, x) /\ HasPending(tender', x) =>
             Frozen(tender, tender', x)]_vars
  <2> SUFFICES ASSUME AllIInv, [AllNext]_<<tender, contract>>, tender' # tender,
                      NEW x, HasPending(tender, x)
               PROVE  Frozen(tender, tender', x)
    BY DEF vars
  <2>1. Next
    BY DEF AllNext, TenderStep, Bridge, ContractStep
  <2> QED BY <2>1, StepFreezes DEF AllIInv
<1>2. AllIInv /\ [AllNext]_<<tender, contract>> =>
        [C!Registered /\ contract.status = "terminated" =>
           /\ contract'.status = "terminated" /\ contract'.paid # NotSet
           /\ contract'.paid = contract.paid /\ contract'.value = contract.value]_contract
  <2> SUFFICES ASSUME AllIInv, [AllNext]_<<tender, contract>>, contract' # contract,
                      C!Registered, contract.status = "terminated"
               PROVE  /\ contract'.status = "terminated" /\ contract'.paid # NotSet
                      /\ contract'.paid = contract.paid /\ contract'.value = contract.value
    OBVIOUS
  <2>1. C!Next /\ contract # NoContract
    BY DEF AllNext, TenderStep, Bridge, ContractStep, C!Register, C!Registered
  <2> QED BY <2>1, EndedStays DEF AllIInv
<1>3. ClosedStaysClosed <=>
        /\ [][\A x \in LotsOf(tender) \cup {Whole} :
                HasPending(tender, x) /\ HasPending(tender', x) =>
                  Frozen(tender, tender', x)]_vars
        /\ [][C!Registered /\ contract.status = "terminated" =>
                /\ contract'.status = "terminated" /\ contract'.paid # NotSet
                /\ contract'.paid = contract.paid /\ contract'.value = contract.value]_contract
  BY DEF ClosedStaysClosed, PendingCancellationFreezes, C!EndedForGood
<1> QED BY <1>1, <1>2, <1>3, AllInvariant, PTL DEF AllSpec
=============================================================================
