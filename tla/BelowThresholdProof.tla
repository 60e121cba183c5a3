------------------------ MODULE BelowThresholdProof ------------------------
(***************************************************************************)
(* The belowThreshold procedure for any lots and any numbers of bids,      *)
(* awards and claims.  What holds of the stored tender is an operator of a *)
(* document t, so that it can be followed through the functions one        *)
(* request runs one after the other: a change of an award, the next        *)
(* awards, the settlement, the claims it ignores.                          *)
(***************************************************************************)
EXTENDS BelowThreshold, Integers, SequenceTheorems, FiniteSetTheorems,
        WellFoundedInduction, TLAPS

-----------------------------------------------------------------------------
(* The inductive invariant.                                                *)

\* Only an answered claim keeps more than its status.
Tidy(c) == IF Answered(c) THEN c.resolution # "none" ELSE c = Closed(c.status)

KeptClaim == {c \in Claim : Tidy(c)}
KeptAward ==
  [bid : Bids, status : {"pending", "active", "unsuccessful", "cancelled"},
   period : {"none", "running", "over"}, claim : KeptClaim,
   contract : {"none", "pending", "active", "cancelled"}]
Bid == [status : {"absent", "draft", "active"}, lots : SUBSET Units]
LotState == {"active"} \cup Terminal
TenderRecord ==
  [status : {"draft"} \cup Active \cup Terminal, lot : [Units -> LotState],
   bid : [Bids -> Bid], auctioned : SUBSET Units, awards : [Units -> Seq(KeptAward)],
   claims : [ClaimTargets -> KeptClaim], cancellations : SUBSET CancelTargets]

Shape(t) == t \in TenderRecord

Live == {"pending", "active"}

\* Of the awards of one unit the last alone may be live.  An award has a
\* stand-still since its decision, a signed one has it behind it, and as they
\* run out in turn, so have those before it.
InOrder(aw) ==
  \A i \in 1 .. Len(aw) :
    /\ aw[i].status \in Live => i = Len(aw)
    /\ aw[i].status = "active" <=> aw[i].contract \in {"pending", "active"}
    /\ aw[i].status = "pending" <=> aw[i].period = "none"
    /\ aw[i].contract = "active" => aw[i].period = "over"
    /\ aw[i].period = "over" /\ aw[i].status # "cancelled" =>
         \A j \in 1 .. i - 1 : aw[j].period # "running"

\* Awards are for bids on their unit, a live one after the better ones failed.
BestFirst(aw, bid, u) ==
  \A i \in 1 .. Len(aw) :
    /\ bid[aw[i].bid].status = "active" /\ u \in bid[aw[i].bid].lots
    /\ aw[i].status \in Live =>
         \A b \in Bids : bid[b].status # "absent" /\ u \in bid[b].lots /\ b < aw[i].bid
                           => b \in Rejected(aw)

AwardsFit(t) ==
  \A u \in Units : InOrder(t.awards[u]) /\ BestFirst(t.awards[u], t.bid, u)

\* There are no awards before the bids are opened, and from then on the bids
\* do not change and every open unit has some.
Early == {"draft", "active.enquiries", "active.tendering", "active.auction"}
NoneEarly(t) == t.status \in Early => \A u \in Units : t.awards[u] = << >>
BidsOpened(t) ==
  /\ \A b \in Bids : t.bid[b].status # "draft"
  /\ \A u \in Open(t) : BidsOn(t, u) # {}
BidsCount(t) == t.status \in {"active.auction"} \cup Awarding => BidsOpened(t)

WholeOpen(t) == ~ HasLots => t.lot[Whole] = "active"

\* OutcomeSound of a document.
SignedIn(aw) == \E i \in 1 .. Len(aw) : aw[i].contract = "active"
Outcome(t, u) == IF HasLots THEN t.lot[u] ELSE t.status
SignedIsComplete(t) ==
  \A u \in Units : SignedIn(t.awards[u]) <=> Outcome(t, u) = "complete"
Disputed(aw) == \E i \in 1 .. Len(aw) : aw[i].claim.status \in {"claim", "answered"}
Undisputed(t) ==
  \A u \in Units : Outcome(t, u) \in {"complete", "unsuccessful"} => ~ Disputed(t.awards[u])
SomeOpen(t) == t.status \notin Terminal => Open(t) # {}
StatusTrue(t) ==
  /\ t.status \in Awarding => \A u \in Open(t) : t.awards[u] # << >>
  /\ t.status = "active.awarded" => \A u \in Open(t) : ~ LastIs(t.awards[u], {"pending"})

\* What no step of a request disturbs.
Steady(t) ==
  /\ Shape(t) /\ AwardsFit(t) /\ NoneEarly(t) /\ BidsCount(t) /\ WholeOpen(t) /\ SomeOpen(t)

Sound(t) == Steady(t) /\ SignedIsComplete(t) /\ Undisputed(t) /\ StatusTrue(t)

IInv == phase \in 0 .. 2 /\ Sound(tender)

-----------------------------------------------------------------------------
(* Documents, awards and claims, field by field.                           *)

LEMMA UnitsFact == /\ (HasLots => Units = Lots) /\ (~ HasLots => Units = {Whole})
                   /\ Units # {}
BY DEF Units, HasLots

Document(t) ==
  t = [status |-> t.status, lot |-> t.lot, bid |-> t.bid, auctioned |-> t.auctioned,
       awards |-> t.awards, claims |-> t.claims, cancellations |-> t.cancellations]

LEMMA DocumentMade ==
  ASSUME NEW t, NEW a, NEW b, NEW c, NEW d, NEW e, NEW f, NEW g,
         t = [status |-> a, lot |-> b, bid |-> c, auctioned |-> d,
              awards |-> e, claims |-> f, cancellations |-> g]
  PROVE  Document(t)
BY DEF Document

LEMMA ShapeParts ==
  ASSUME NEW t, Shape(t)
  PROVE  /\ Document(t)
         /\ t.status \in {"draft"} \cup Active \cup Terminal
         /\ t.lot \in [Units -> LotState] /\ t.bid \in [Bids -> Bid]
         /\ t.auctioned \subseteq Units /\ t.awards \in [Units -> Seq(KeptAward)]
         /\ t.claims \in [ClaimTargets -> KeptClaim] /\ t.cancellations \subseteq CancelTargets
<1> DEFINE A == {"draft"} \cup Active \cup Terminal
           B == [Units -> LotState]
           C == [Bids -> Bid]
           D == SUBSET Units
           E == [Units -> Seq(KeptAward)]
           F == [ClaimTargets -> KeptClaim]
           G == SUBSET CancelTargets
<1>1. t \in [status : A, lot : B, bid : C, auctioned : D, awards : E, claims : F,
             cancellations : G]
  BY DEF Shape, TenderRecord
<1>2. /\ t = [status |-> t.status, lot |-> t.lot, bid |-> t.bid, auctioned |-> t.auctioned,
              awards |-> t.awards, claims |-> t.claims, cancellations |-> t.cancellations]
      /\ t.status \in A /\ t.lot \in B /\ t.bid \in C /\ t.auctioned \in D
      /\ t.awards \in E /\ t.claims \in F /\ t.cancellations \in G
  <2> HIDE DEF A, B, C, D, E, F, G
  <2> QED BY <1>1
<1> QED BY <1>2 DEF Document

\* One field replaced by another value.
WithStatus(t, v) == [t EXCEPT !.status = v]
WithLot(t, v) == [t EXCEPT !.lot = v]
WithBid(t, v) == [t EXCEPT !.bid = v]
WithAuctioned(t, v) == [t EXCEPT !.auctioned = v]
WithAwards(t, v) == [t EXCEPT !.awards = v]
WithClaims(t, v) == [t EXCEPT !.claims = v]
WithCancellations(t, v) == [t EXCEPT !.cancellations = v]

LEMMA Rebuilt ==
  ASSUME NEW t, NEW v, Document(t)
  PROVE  /\ WithStatus(t, v) =
              [status |-> v, lot |-> t.lot, bid |-> t.bid, auctioned |-> t.auctioned,
               awards |-> t.awards, claims |-> t.claims, cancellations |-> t.cancellations]
         /\ WithLot(t, v) =
              [status |-> t.status, lot |-> v, bid |-> t.bid, auctioned |-> t.auctioned,
               awards |-> t.awards, claims |-> t.claims, cancellations |-> t.cancellations]
         /\ WithBid(t, v) =
              [status |-> t.status, lot |-> t.lot, bid |-> v, auctioned |-> t.auctioned,
               awards |-> t.awards, claims |-> t.claims, cancellations |-> t.cancellations]
         /\ WithAuctioned(t, v) =
              [status |-> t.status, lot |-> t.lot, bid |-> t.bid, auctioned |-> v,
               awards |-> t.awards, claims |-> t.claims, cancellations |-> t.cancellations]
         /\ WithAwards(t, v) =
              [status |-> t.status, lot |-> t.lot, bid |-> t.bid, auctioned |-> t.auctioned,
               awards |-> v, claims |-> t.claims, cancellations |-> t.cancellations]
         /\ WithClaims(t, v) =
              [status |-> t.status, lot |-> t.lot, bid |-> t.bid, auctioned |-> t.auctioned,
               awards |-> t.awards, claims |-> v, cancellations |-> t.cancellations]
         /\ WithCancellations(t, v) =
              [status |-> t.status, lot |-> t.lot, bid |-> t.bid, auctioned |-> t.auctioned,
               awards |-> t.awards, claims |-> t.claims, cancellations |-> v]
<1> DEFINE A == t.status
           B == t.lot
           C == t.bid
           D == t.auctioned
           E == t.awards
           F == t.claims
           G == t.cancellations
<1>1. t = [status |-> A, lot |-> B, bid |-> C, auctioned |-> D,
           awards |-> E, claims |-> F, cancellations |-> G]
  BY DEF Document
<1> HIDE DEF A, B, C, D, E, F, G
<1>2. [t EXCEPT !.status = v] =
          [status |-> v, lot |-> B, bid |-> C, auctioned |-> D,
           awards |-> E, claims |-> F, cancellations |-> G]
  BY <1>1
<1>3. [t EXCEPT !.lot = v] =
          [status |-> A, lot |-> v, bid |-> C, auctioned |-> D,
           awards |-> E, claims |-> F, cancellations |-> G]
  BY <1>1
<1>4. [t EXCEPT !.bid = v] =
          [status |-> A, lot |-> B, bid |-> v, auctioned |-> D,
           awards |-> E, claims |-> F, cancellations |-> G]
  BY <1>1
<1>5. [t EXCEPT !.auctioned = v] =
          [status |-> A, lot |-> B, bid |-> C, auctioned |-> v,
           awards |-> E, claims |-> F, cancellations |-> G]
  BY <1>1
<1>6. [t EXCEPT !.awards = v] =
          [status |-> A, lot |-> B, bid |-> C, auctioned |-> D,
           awards |-> v, claims |-> F, cancellations |-> G]
  BY <1>1
<1>7. [t EXCEPT !.claims = v] =
          [status |-> A, lot |-> B, bid |-> C, auctioned |-> D,
           awards |-> E, claims |-> v, cancellations |-> G]
  BY <1>1
<1>8. [t EXCEPT !.cancellations = v] =
          [status |-> A, lot |-> B, bid |-> C, auctioned |-> D,
           awards |-> E, claims |-> F, cancellations |-> v]
  BY <1>1
<1> QED BY <1>2, <1>3, <1>4, <1>5, <1>6, <1>7, <1>8, Zenon
   DEF A, B, C, D, E, F, G, WithStatus, WithLot, WithBid, WithAuctioned, WithAwards, WithClaims, WithCancellations

LEMMA ShapeMade ==
  ASSUME NEW t, Document(t),
         t.status \in {"draft"} \cup Active \cup Terminal,
         t.lot \in [Units -> LotState], t.bid \in [Bids -> Bid], t.auctioned \subseteq Units,
         t.awards \in [Units -> Seq(KeptAward)], t.claims \in [ClaimTargets -> KeptClaim],
         t.cancellations \subseteq CancelTargets
  PROVE  Shape(t)
<1> DEFINE A == {"draft"} \cup Active \cup Terminal
           B == [Units -> LotState]
           C == [Bids -> Bid]
           D == SUBSET Units
           E == [Units -> Seq(KeptAward)]
           F == [ClaimTargets -> KeptClaim]
           G == SUBSET CancelTargets
<1>1. /\ t = [status |-> t.status, lot |-> t.lot, bid |-> t.bid, auctioned |-> t.auctioned,
              awards |-> t.awards, claims |-> t.claims, cancellations |-> t.cancellations]
      /\ t.status \in A /\ t.lot \in B /\ t.bid \in C /\ t.auctioned \in D
      /\ t.awards \in E /\ t.claims \in F /\ t.cancellations \in G
  BY DEF Document
<1> HIDE DEF A, B, C, D, E, F, G
<1>2. t \in [status : A, lot : B, bid : C, auctioned : D, awards : E, claims : F,
             cancellations : G]
  BY <1>1
<1> QED BY <1>2, Zenon DEF Shape, TenderRecord, A, B, C, D, E, F, G

LEMMA AwardParts ==
  ASSUME NEW a \in KeptAward
  PROVE  /\ a = [bid |-> a.bid, status |-> a.status, period |-> a.period,
                 claim |-> a.claim, contract |-> a.contract]
         /\ a.bid \in Bids
         /\ a.status \in {"pending", "active", "unsuccessful", "cancelled"}
         /\ a.period \in {"none", "running", "over"} /\ a.claim \in KeptClaim
         /\ a.contract \in {"none", "pending", "active", "cancelled"}
BY DEF KeptAward

\* The awards of one unit.
LEMMA AwardsOfUnit ==
  ASSUME NEW t, Shape(t), NEW u \in Units
  PROVE  /\ t.awards[u] \in Seq(KeptAward) /\ Len(t.awards[u]) \in Nat
         /\ DOMAIN t.awards[u] = 1 .. Len(t.awards[u])
         /\ \A i \in 1 .. Len(t.awards[u]) : t.awards[u][i] \in KeptAward
<1>1. t.awards[u] \in Seq(KeptAward)
  BY ShapeParts
<1> QED BY <1>1, LenProperties, ElementOfSeq

LEMMA ClaimParts ==
  ASSUME NEW c \in KeptClaim
  PROVE  /\ c = [status |-> c.status, resolution |-> c.resolution, due |-> c.due]
         /\ c.status \in {"none", "claim", "answered", "resolved", "declined", "withdrawn",
                          "ignored"}
         /\ c.due \in BOOLEAN
         /\ c.status = "answered" => c.resolution \in {"resolved", "declined"}
         /\ c.status # "answered" => c = Closed(c.status)
BY DEF KeptClaim, Claim, Tidy, Answered

LEMMA ClosedKept ==
  ASSUME NEW s \in {"none", "claim", "resolved", "declined", "withdrawn", "ignored"}
  PROVE  /\ Closed(s) \in KeptClaim /\ Closed(s).status = s
         /\ Closed(s) = [status |-> s, resolution |-> "none", due |-> FALSE]
<1>1. Closed(s) = [status |-> s, resolution |-> "none", due |-> FALSE]
  <2> DEFINE d == FALSE
  <2>1. [[status |-> "none", resolution |-> "none", due |-> d] EXCEPT !.status = s]
          = [status |-> s, resolution |-> "none", due |-> d]
    <3> HIDE DEF d
    <3> QED OBVIOUS
  <2> QED BY <2>1, Zenon DEF Closed, NoClaim
<1>2. Closed(s) \in Claim
  BY <1>1 DEF Claim
<1>3. Tidy(Closed(s))
  BY <1>1 DEF Tidy, Answered
<1> QED BY <1>1, <1>2, <1>3 DEF KeptClaim

LEMMA AnsweredKept ==
  ASSUME NEW r \in {"resolved", "declined"}, NEW d \in BOOLEAN
  PROVE  [status |-> "answered", resolution |-> r, due |-> d] \in KeptClaim
BY DEF KeptClaim, Claim, Tidy, Answered

LEMMA NoClaimKept == NoClaim \in KeptClaim /\ NoClaim = Closed("none") /\ NoClaim.status = "none"
<1>1. NoClaim = Closed("none")
  BY ClosedKept DEF NoClaim
<1> QED BY <1>1, ClosedKept

-----------------------------------------------------------------------------
(* Changes of claims only.                                                 *)

SameAwards(aw, bw) ==
  /\ Len(bw) = Len(aw)
  /\ \A i \in 1 .. Len(aw) :
       /\ bw[i].bid = aw[i].bid /\ bw[i].status = aw[i].status
       /\ bw[i].period = aw[i].period /\ bw[i].contract = aw[i].contract

ClaimsOnly(t, s) ==
  /\ Shape(t) /\ Shape(s)
  /\ s.status = t.status /\ s.lot = t.lot /\ s.bid = t.bid
  /\ \A u \in Units : SameAwards(t.awards[u], s.awards[u])

\* Nothing but its claims matters for the order and the outcome of awards.
LEMMA SameAwardsKeep ==
  ASSUME NEW aw \in Seq(KeptAward), NEW bw \in Seq(KeptAward), SameAwards(aw, bw)
  PROVE  /\ InOrder(aw) => InOrder(bw)
         /\ \A bid, u : BestFirst(aw, bid, u) => BestFirst(bw, bid, u)
         /\ SignedIn(bw) <=> SignedIn(aw)
         /\ \A S : LastIs(bw, S) <=> LastIs(aw, S)
         /\ HasActiveContract(bw) <=> HasActiveContract(aw)
         /\ Rejected(bw) = Rejected(aw) /\ Periods(bw) = Periods(aw)
         /\ bw = << >> <=> aw = << >>
<1>1. /\ Len(aw) \in Nat /\ Len(bw) = Len(aw)
      /\ \A i \in 1 .. Len(aw) :
           /\ bw[i].bid = aw[i].bid /\ bw[i].status = aw[i].status
           /\ bw[i].period = aw[i].period /\ bw[i].contract = aw[i].contract
  BY LenProperties DEF SameAwards
<1>2. Rejected(bw) = Rejected(aw)
  BY <1>1 DEF Rejected
<1>3. Periods(bw) = Periods(aw)
  BY <1>1 DEF Periods
<1>4. bw = << >> <=> aw = << >>
  BY <1>1, EmptySeq
<1>5. \A S : LastIs(bw, S) <=> LastIs(aw, S)
  <2> SUFFICES ASSUME aw # << >> PROVE Len(aw) \in 1 .. Len(aw)
    BY <1>1, <1>4 DEF LastIs
  <2> QED BY <1>1, EmptySeq
<1>6. HasActiveContract(bw) <=> HasActiveContract(aw)
  <2>1. aw # << >> => Len(aw) \in 1 .. Len(aw)
    BY <1>1, EmptySeq
  <2> QED BY <1>1, <1>4, <1>5, <2>1 DEF HasActiveContract, LastIs
<1>7. InOrder(aw) => InOrder(bw)
  BY <1>1 DEF InOrder
<1>8. ASSUME NEW bid, NEW u, BestFirst(aw, bid, u) PROVE BestFirst(bw, bid, u)
  BY <1>1, <1>2, <1>8 DEF BestFirst
<1>9. SignedIn(bw) <=> SignedIn(aw)
  BY <1>1 DEF SignedIn
<1> QED BY <1>2, <1>3, <1>4, <1>5, <1>6, <1>7, <1>8, <1>9

LEMMA ClaimsOnlyKeeps ==
  ASSUME NEW t, NEW s, ClaimsOnly(t, s)
  PROVE  /\ Steady(t) => Steady(s)
         /\ SignedIsComplete(t) => SignedIsComplete(s)
         /\ StatusTrue(t) => StatusTrue(s)
         /\ Open(s) = Open(t) /\ \A u : Outcome(s, u) = Outcome(t, u)
<1>1. /\ Shape(t) /\ Shape(s)
      /\ s.status = t.status /\ s.lot = t.lot /\ s.bid = t.bid
      /\ \A u \in Units : SameAwards(t.awards[u], s.awards[u])
  BY DEF ClaimsOnly
<1>2. \A u \in Units : t.awards[u] \in Seq(KeptAward) /\ s.awards[u] \in Seq(KeptAward)
  BY <1>1, AwardsOfUnit
<1>3. Open(s) = Open(t) /\ \A u : Outcome(s, u) = Outcome(t, u) /\ BidsOn(s, u) = BidsOn(t, u)
  BY <1>1 DEF Open, Outcome, BidsOn
<1>4. AwardsFit(t) => AwardsFit(s)
  BY <1>1, <1>2, SameAwardsKeep DEF AwardsFit
<1>5. NoneEarly(t) => NoneEarly(s)
  BY <1>1, <1>2, SameAwardsKeep DEF NoneEarly
<1>6. (BidsCount(t) => BidsCount(s)) /\ (WholeOpen(t) => WholeOpen(s)) /\ (SomeOpen(t) => SomeOpen(s))
  BY <1>1, <1>3 DEF BidsCount, BidsOpened, WholeOpen, SomeOpen
<1>7. SignedIsComplete(t) => SignedIsComplete(s)
  BY <1>1, <1>2, <1>3, SameAwardsKeep DEF SignedIsComplete
<1>8. StatusTrue(t) => StatusTrue(s)
  <2>1. \A u \in Units : /\ s.awards[u] = << >> <=> t.awards[u] = << >>
                         /\ LastIs(s.awards[u], {"pending"}) <=> LastIs(t.awards[u], {"pending"})
    BY <1>1, <1>2, SameAwardsKeep
  <2>2. Open(t) \subseteq Units
    BY DEF Open
  <2> QED BY <1>1, <1>3, <2>1, <2>2 DEF StatusTrue
<1> QED BY <1>1, <1>3, <1>4, <1>5, <1>6, <1>7, <1>8 DEF Steady

\* The claims of a document, replaced one by one.
Reclaimed(t, f, w) == [t EXCEPT !.claims = f, !.awards = w]

AwardsReclaimed(t, w) ==
  /\ w = [u \in Units |-> w[u]]
  /\ \A u \in Units : w[u] = [i \in DOMAIN t.awards[u] |-> w[u][i]]
  /\ \A u \in Units : \A i \in DOMAIN t.awards[u] : \E c \in KeptClaim :
       w[u][i] = [t.awards[u][i] EXCEPT !.claim = c]

LEMMA ReclaimedOnly ==
  ASSUME NEW t, Shape(t), NEW f \in [ClaimTargets -> KeptClaim], NEW w, AwardsReclaimed(t, w)
  PROVE  /\ ClaimsOnly(t, Reclaimed(t, f, w))
         /\ Reclaimed(t, f, w).claims = f /\ Reclaimed(t, f, w).awards = w
         /\ Reclaimed(t, f, w).auctioned = t.auctioned
         /\ Reclaimed(t, f, w).cancellations = t.cancellations
<1> DEFINE s == Reclaimed(t, f, w)
<1>0. /\ w = [u \in Units |-> w[u]]
      /\ \A u \in Units : w[u] = [i \in DOMAIN t.awards[u] |-> w[u][i]]
      /\ \A u \in Units : \A i \in DOMAIN t.awards[u] : \E c \in KeptClaim :
           w[u][i] = [t.awards[u][i] EXCEPT !.claim = c]
  BY DEF AwardsReclaimed
<1>1. s = [status |-> t.status, lot |-> t.lot, bid |-> t.bid, auctioned |-> t.auctioned,
           awards |-> w, claims |-> f, cancellations |-> t.cancellations]
  <2> DEFINE r == WithClaims(t, f)
  <2>1. Document(t)
    BY ShapeParts
  <2>2. r = [status |-> t.status, lot |-> t.lot, bid |-> t.bid, auctioned |-> t.auctioned,
             awards |-> t.awards, claims |-> f, cancellations |-> t.cancellations]
    BY <2>1, Rebuilt
  <2>3. s = WithAwards(r, w)
    BY Zenon DEF Reclaimed, WithClaims, WithAwards
  <2> HIDE DEF r, s
  <2>4. Document(r)
    BY <2>2, DocumentMade
  <2> QED BY <2>2, <2>3, <2>4, Rebuilt
<1>2. ASSUME NEW u \in Units
      PROVE  w[u] \in Seq(KeptAward) /\ SameAwards(t.awards[u], w[u])
  <2>1. /\ Len(t.awards[u]) \in Nat /\ DOMAIN t.awards[u] = 1 .. Len(t.awards[u])
        /\ \A i \in 1 .. Len(t.awards[u]) : t.awards[u][i] \in KeptAward
    BY AwardsOfUnit
  <2>2. ASSUME NEW i \in 1 .. Len(t.awards[u])
        PROVE  /\ w[u][i] \in KeptAward
               /\ w[u][i].bid = t.awards[u][i].bid /\ w[u][i].status = t.awards[u][i].status
               /\ w[u][i].period = t.awards[u][i].period
               /\ w[u][i].contract = t.awards[u][i].contract
    <3>1. PICK c \in KeptClaim : w[u][i] = [t.awards[u][i] EXCEPT !.claim = c]
      BY <1>0, <2>1
    <3>2. t.awards[u][i] \in KeptAward
      BY <2>1
    <3> QED BY <3>1, <3>2 DEF KeptAward
  <2>3. w[u] \in [1 .. Len(t.awards[u]) -> KeptAward]
    BY <1>0, <2>1, <2>2
  <2>4. w[u] \in Seq(KeptAward) /\ Len(w[u]) = Len(t.awards[u])
    BY <2>1, <2>3
  <2> QED BY <2>2, <2>4 DEF SameAwards
<1>3. w \in [Units -> Seq(KeptAward)]
  BY <1>0, <1>2
<1> HIDE DEF s
<1>4. Shape(s)
  <2>1. Document(s)
    BY <1>1, DocumentMade
  <2> QED BY <1>1, <1>3, <2>1, ShapeParts, ShapeMade
<1>5. ClaimsOnly(t, s)
  BY <1>1, <1>2, <1>4 DEF ClaimsOnly
<1> QED BY <1>1, <1>5 DEF s

\* check_complaint_status and check_ignored_claim, claim by claim.
Expired(c) == IF Answered(c) /\ c.due THEN Closed(c.resolution) ELSE c
Done(t) == {u \in Lots : t.lot[u] \in Terminal}
             \cup (IF t.status \in Terminal THEN {None} ELSE {})
Ignored(t, c, x) == IF c.status = "claim" /\ x \in Done(t) THEN Closed("ignored") ELSE c
Target(u) == IF HasLots THEN u ELSE None

LEMMA ClaimsClose ==
  ASSUME NEW c \in KeptClaim
  PROVE  /\ Expired(c) \in KeptClaim
         /\ Expired(c).status \in {"claim", "answered"} => Expired(c) = c
         /\ \A t, x : /\ Ignored(t, c, x) \in KeptClaim
                      /\ Ignored(t, c, x).status \in {"claim", "answered"} => Ignored(t, c, x) = c
<1>1. Answered(c) => Closed(c.resolution) \in KeptClaim /\ Closed(c.resolution).status = c.resolution
                       /\ c.resolution \in {"resolved", "declined"}
  BY ClaimParts, ClosedKept DEF Answered
<1>2. Closed("ignored") \in KeptClaim /\ Closed("ignored").status = "ignored"
  BY ClosedKept
<1>3. /\ Expired(c) \in KeptClaim
      /\ Expired(c).status \in {"claim", "answered"} => Expired(c) = c
  BY <1>1 DEF Expired
<1>4. ASSUME NEW t, NEW x
      PROVE  /\ Ignored(t, c, x) \in KeptClaim
             /\ Ignored(t, c, x).status \in {"claim", "answered"} => Ignored(t, c, x) = c
  BY <1>2 DEF Ignored
<1> QED BY <1>3, <1>4

LEMMA ComplaintsExpire ==
  ASSUME NEW t, Shape(t)
  PROVE  LET s == CheckComplaintStatus(t) IN
         /\ ClaimsOnly(t, s) /\ s.auctioned = t.auctioned /\ s.cancellations = t.cancellations
         /\ \A x \in ClaimTargets : s.claims[x] = Expired(t.claims[x])
         /\ \A u \in Units : \A i \in 1 .. Len(t.awards[u]) :
              s.awards[u][i] = [t.awards[u][i] EXCEPT !.claim = Expired(t.awards[u][i].claim)]
<1> DEFINE f == [x \in ClaimTargets |-> Expired(t.claims[x])]
           w == [u \in Units |-> [i \in DOMAIN t.awards[u] |->
                   [t.awards[u][i] EXCEPT !.claim = Expired(t.awards[u][i].claim)]]]
           s == Reclaimed(t, f, w)
<1>1. CheckComplaintStatus(t) = s
  BY Zenon DEF CheckComplaintStatus, MapClaims, Reclaimed, Expired
<1>2. f \in [ClaimTargets -> KeptClaim]
  <2>1. \A x \in ClaimTargets : t.claims[x] \in KeptClaim
    BY ShapeParts
  <2> QED BY <2>1, ClaimsClose
<1>3. \A u \in Units : DOMAIN t.awards[u] = 1 .. Len(t.awards[u])
  BY AwardsOfUnit
<1>4. \A u \in Units : \A i \in DOMAIN t.awards[u] :
        /\ w[u][i] = [t.awards[u][i] EXCEPT !.claim = Expired(t.awards[u][i].claim)]
        /\ Expired(t.awards[u][i].claim) \in KeptClaim
  <2>1. \A u \in Units : \A i \in DOMAIN t.awards[u] : t.awards[u][i].claim \in KeptClaim
    BY AwardsOfUnit, AwardParts
  <2> QED BY <2>1, ClaimsClose
<1>5. w = [u \in Units |-> w[u]]
  OBVIOUS
<1>6. \A u \in Units : w[u] = [i \in DOMAIN t.awards[u] |-> w[u][i]]
  OBVIOUS
<1> HIDE DEF f, w
<1>7. ClaimsOnly(t, s) /\ s.claims = f /\ s.awards = w
        /\ s.auctioned = t.auctioned /\ s.cancellations = t.cancellations
  <2>1. ASSUME NEW u \in Units, NEW i \in DOMAIN t.awards[u]
        PROVE  \E c \in KeptClaim : w[u][i] = [t.awards[u][i] EXCEPT !.claim = c]
    <3> DEFINE d == Expired(t.awards[u][i].claim)
    <3>1. d \in KeptClaim /\ w[u][i] = [t.awards[u][i] EXCEPT !.claim = d]
      BY <1>4
    <3> HIDE DEF d
    <3> QED BY <3>1
  <2>2. AwardsReclaimed(t, w)
    BY <1>5, <1>6, <2>1, Zenon DEF AwardsReclaimed
  <2> QED BY <1>2, <2>2, ReclaimedOnly
<1>8. \A x \in ClaimTargets : f[x] = Expired(t.claims[x])
  BY DEF f
<1> HIDE DEF s
<1> QED BY <1>1, <1>3, <1>4, <1>7, <1>8

LEMMA ClaimsIgnored ==
  ASSUME NEW t, Shape(t)
  PROVE  LET s == CheckIgnoredClaim(t) IN
         /\ ClaimsOnly(t, s) /\ s.auctioned = t.auctioned /\ s.cancellations = t.cancellations
         /\ \A x \in ClaimTargets : s.claims[x] = Ignored(t, t.claims[x], x)
         /\ \A u \in Units : \A i \in 1 .. Len(t.awards[u]) :
              s.awards[u][i] =
                [t.awards[u][i] EXCEPT !.claim = Ignored(t, t.awards[u][i].claim, Target(u))]
<1> DEFINE f == [x \in ClaimTargets |-> Ignored(t, t.claims[x], x)]
           w == [u \in Units |-> [i \in DOMAIN t.awards[u] |->
                   [t.awards[u][i] EXCEPT !.claim =
                      Ignored(t, t.awards[u][i].claim, Target(u))]]]
           s == Reclaimed(t, f, w)
<1>1. CheckIgnoredClaim(t) = s
  BY Zenon DEF CheckIgnoredClaim, MapClaims, Reclaimed, Ignored, Done, Target
<1>2. f \in [ClaimTargets -> KeptClaim]
  <2>1. \A x \in ClaimTargets : t.claims[x] \in KeptClaim
    BY ShapeParts
  <2> QED BY <2>1, ClaimsClose
<1>3. \A u \in Units : DOMAIN t.awards[u] = 1 .. Len(t.awards[u])
  BY AwardsOfUnit
<1>4. \A u \in Units : \A i \in DOMAIN t.awards[u] :
        /\ w[u][i] = [t.awards[u][i] EXCEPT !.claim =
                        Ignored(t, t.awards[u][i].claim, Target(u))]
        /\ Ignored(t, t.awards[u][i].claim, Target(u)) \in KeptClaim
  <2>1. \A u \in Units : \A i \in DOMAIN t.awards[u] : t.awards[u][i].claim \in KeptClaim
    BY AwardsOfUnit, AwardParts
  <2> QED BY <2>1, ClaimsClose
<1>5. w = [u \in Units |-> w[u]]
  OBVIOUS
<1>6. \A u \in Units : w[u] = [i \in DOMAIN t.awards[u] |-> w[u][i]]
  OBVIOUS
<1> HIDE DEF f, w
<1>7. ClaimsOnly(t, s) /\ s.claims = f /\ s.awards = w
        /\ s.auctioned = t.auctioned /\ s.cancellations = t.cancellations
  <2>1. ASSUME NEW u \in Units, NEW i \in DOMAIN t.awards[u]
        PROVE  \E c \in KeptClaim : w[u][i] = [t.awards[u][i] EXCEPT !.claim = c]
    <3> DEFINE d == Ignored(t, t.awards[u][i].claim, Target(u))
    <3>1. d \in KeptClaim /\ w[u][i] = [t.awards[u][i] EXCEPT !.claim = d]
      BY <1>4
    <3> HIDE DEF d
    <3> QED BY <3>1
  <2>2. AwardsReclaimed(t, w)
    BY <1>5, <1>6, <2>1, Zenon DEF AwardsReclaimed
  <2> QED BY <1>2, <2>2, ReclaimedOnly
<1>8. \A x \in ClaimTargets : f[x] = Ignored(t, t.claims[x], x)
  BY DEF f
<1> HIDE DEF s
<1> QED BY <1>1, <1>3, <1>4, <1>7, <1>8

\* Awards none of whose claims changed are as they were.
LEMMA AwardsEqual ==
  ASSUME NEW t, NEW s, ClaimsOnly(t, s), NEW u \in Units,
         \A i \in 1 .. Len(t.awards[u]) : s.awards[u][i].claim = t.awards[u][i].claim
  PROVE  s.awards[u] = t.awards[u]
<1> DEFINE aw == t.awards[u]
           bw == s.awards[u]
<1>1. /\ aw \in Seq(KeptAward) /\ Len(aw) \in Nat
      /\ bw \in Seq(KeptAward) /\ Len(bw) = Len(aw)
      /\ \A i \in 1 .. Len(aw) : aw[i] \in KeptAward /\ bw[i] \in KeptAward
  BY AwardsOfUnit DEF ClaimsOnly, SameAwards
<1>2. ASSUME NEW i \in 1 .. Len(aw) PROVE bw[i] = aw[i]
  <2>1. /\ bw[i].bid = aw[i].bid /\ bw[i].status = aw[i].status
        /\ bw[i].period = aw[i].period /\ bw[i].contract = aw[i].contract
        /\ bw[i].claim = aw[i].claim
    BY DEF ClaimsOnly, SameAwards
  <2> QED BY <1>1, <2>1, AwardParts
<1> HIDE DEF aw, bw
<1>3. bw = aw
  BY <1>1, <1>2, SeqEqual
<1> QED BY <1>3 DEF aw, bw

\* Neither of the two touches the claims of awards that are not disputed, or
\* makes a dispute.
LEMMA ClaimsQuiet ==
  ASSUME NEW t, Shape(t), NEW u \in Units,
         NEW s \in {CheckComplaintStatus(t), CheckIgnoredClaim(t)}
  PROVE  /\ ~ Disputed(t.awards[u]) => s.awards[u] = t.awards[u]
         /\ Disputed(s.awards[u]) => Disputed(t.awards[u])
         /\ \A i \in 1 .. Len(t.awards[u]) :
              s.awards[u][i].claim.status \in {"claim", "answered"} =>
                s.awards[u][i] = t.awards[u][i]
<1>1. ClaimsOnly(t, s)
  BY ComplaintsExpire, ClaimsIgnored
<1>2. Len(s.awards[u]) = Len(t.awards[u])
  BY <1>1 DEF ClaimsOnly, SameAwards
<1>3. ASSUME NEW i \in 1 .. Len(t.awards[u])
      PROVE  /\ t.awards[u][i].claim.status \notin {"claim", "answered"}
                  => s.awards[u][i].claim = t.awards[u][i].claim
             /\ s.awards[u][i].claim.status \in {"claim", "answered"}
                  => s.awards[u][i] = t.awards[u][i]
  <2> DEFINE a == t.awards[u][i]
  <2>1. a \in KeptAward /\ a.claim \in KeptClaim
    BY AwardsOfUnit, AwardParts
  <2>2. PICK c : /\ s.awards[u][i] = [a EXCEPT !.claim = c]
                 /\ c \in {Expired(a.claim), Ignored(t, a.claim, Target(u))}
    <3> DEFINE d == Expired(a.claim)
               e == Ignored(t, a.claim, Target(u))
    <3>1. \/ s.awards[u][i] = [a EXCEPT !.claim = d]
          \/ s.awards[u][i] = [a EXCEPT !.claim = e]
      BY ComplaintsExpire, ClaimsIgnored
    <3> HIDE DEF a, d, e
    <3> QED BY <3>1 DEF d, e
  <2>3. a.claim.status \notin {"claim", "answered"} => c = a.claim
    BY <2>2 DEF Expired, Ignored, Answered
  <2>4. c.status \in {"claim", "answered"} => c = a.claim
    BY <2>1, <2>2, ClaimsClose
  <2> HIDE DEF a
  <2>5. [a EXCEPT !.claim = c].claim = c /\ [a EXCEPT !.claim = a.claim] = a
    BY <2>1 DEF KeptAward
  <2> QED BY <2>2, <2>3, <2>4, <2>5 DEF a
<1>4. ~ Disputed(t.awards[u]) => s.awards[u] = t.awards[u]
  BY <1>1, <1>3, AwardsEqual DEF Disputed
<1>5. Disputed(s.awards[u]) => Disputed(t.awards[u])
  BY <1>2, <1>3 DEF Disputed
<1> QED BY <1>3, <1>4, <1>5

LEMMA ExpirySound ==
  ASSUME NEW t, Sound(t)
  PROVE  Sound(CheckComplaintStatus(t))
<1> DEFINE s == CheckComplaintStatus(t)
<1>1. Shape(t)
  BY DEF Sound, Steady
<1>2. ClaimsOnly(t, s)
  BY <1>1, ComplaintsExpire
<1>3. \A u \in Units : Disputed(s.awards[u]) => Disputed(t.awards[u])
  BY <1>1, ClaimsQuiet
<1> HIDE DEF s
<1>4. Steady(s) /\ SignedIsComplete(s) /\ StatusTrue(s) /\ \A u : Outcome(s, u) = Outcome(t, u)
  BY <1>2, ClaimsOnlyKeeps DEF Sound
<1>5. Undisputed(s)
  BY <1>3, <1>4 DEF Undisputed, Sound
<1> QED BY <1>4, <1>5 DEF Sound, s

\* A document that is sound but for claims nobody answered, once they are ignored.
LEMMA IgnoringSound ==
  ASSUME NEW t, Steady(t), SignedIsComplete(t), StatusTrue(t),
         \A u \in Units : Outcome(t, u) \in {"complete", "unsuccessful"}
                            => ~ AwardClaimAnswered(t.awards[u])
  PROVE  Sound(CheckIgnoredClaim(t))
<1> DEFINE s == CheckIgnoredClaim(t)
<1>1. Shape(t)
  BY DEF Steady
<1>2. ClaimsOnly(t, s)
  BY <1>1, ClaimsIgnored
<1>3. Steady(s) /\ SignedIsComplete(s) /\ StatusTrue(s) /\ \A u : Outcome(s, u) = Outcome(t, u)
  <2> HIDE DEF s
  <2> QED BY <1>2, ClaimsOnlyKeeps
<1>4. ASSUME NEW u \in Units, Outcome(t, u) \in {"complete", "unsuccessful"},
             NEW i \in 1 .. Len(s.awards[u])
      PROVE  s.awards[u][i].claim.status \notin {"claim", "answered"}
  <2> DEFINE a == t.awards[u][i]
             c == Ignored(t, a.claim, Target(u))
  <2>1. i \in 1 .. Len(t.awards[u])
    BY <1>2 DEF ClaimsOnly, SameAwards
  <2>2. s.awards[u][i] = [a EXCEPT !.claim = c]
    BY <1>1, <2>1, ClaimsIgnored
  <2>3. a \in KeptAward /\ a.claim \in KeptClaim
    BY <1>1, <2>1, AwardsOfUnit, AwardParts
  <2>4. ~ Answered(a.claim)
    BY <1>4, <2>1 DEF AwardClaimAnswered
  <2>5. Target(u) \in Done(t)
    BY <1>4, UnitsFact DEF Target, Done, Outcome, Terminal
  <2>6. c.status \notin {"claim", "answered"}
    BY <2>4, <2>5, ClosedKept DEF Ignored, Answered
  <2> HIDE DEF a, c, s
  <2>7. [a EXCEPT !.claim = c].claim = c
    BY <2>3 DEF KeptAward
  <2> QED BY <2>2, <2>6, <2>7
<1>5. Undisputed(s)
  BY <1>3, <1>4 DEF Undisputed, Disputed
<1> HIDE DEF s
<1> QED BY <1>3, <1>5 DEF Sound, s

-----------------------------------------------------------------------------
(* The awards of one unit.                                                 *)

LEMMA Least ==
  ASSUME NEW S \in SUBSET Nat, S # {}
  PROVE  \E n \in S : \A m \in S : n <= m
<1>1. PICK n \in S : \A m \in S : <<m, n>> \notin OpToRel(<, Nat)
  BY NatLessThanWellFounded, WFMin
<1>2. \A m \in S : ~ (m < n)
  BY <1>1 DEF OpToRel
<1> QED BY <1>2

LEMMA BestIsBest ==
  ASSUME NEW S \in SUBSET Bids, S # {}
  PROVE  Best(S) \in S /\ \A c \in S : Best(S) <= c
<1>1. S \in SUBSET Nat
  BY BoundsAssumption DEF Bids
<1>2. \E n \in S : \A m \in S : n <= m
  BY <1>1, Least
<1> QED BY <1>2 DEF Best

\* Every better bid for the unit failed.
BetterFailed(aw, bid, u, b) ==
  \A c \in Bids : bid[c].status # "absent" /\ u \in bid[c].lots /\ c < b => c \in Rejected(aw)

LEMMA AwardAppended ==
  ASSUME NEW aw \in Seq(KeptAward), NEW bid, NEW u, NEW b \in Bids,
         InOrder(aw), BestFirst(aw, bid, u), ~ LastIs(aw, Live),
         bid[b].status = "active", u \in bid[b].lots, BetterFailed(aw, bid, u, b)
  PROVE  LET bw == Append(aw, NewAward(b)) IN
         /\ bw \in Seq(KeptAward) /\ bw # << >> /\ LastIs(bw, {"pending"})
         /\ InOrder(bw) /\ BestFirst(bw, bid, u)
         /\ SignedIn(bw) <=> SignedIn(aw)
         /\ Disputed(bw) <=> Disputed(aw)
         /\ \A i \in 1 .. Len(aw) : bw[i] = aw[i]
<1> DEFINE n == NewAward(b)
           bw == Append(aw, n)
           L == Len(aw)
<1>1. /\ n.bid = b /\ n.status = "pending" /\ n.period = "none" /\ n.claim = NoClaim
      /\ n.contract = "none" /\ n \in KeptAward
  BY NoClaimKept DEF NewAward, KeptAward
<1> HIDE DEF n
<1>2. /\ bw \in Seq(KeptAward) /\ L \in Nat /\ Len(bw) = L + 1 /\ bw[L + 1] = n
      /\ \A i \in 1 .. L : bw[i] = aw[i]
  BY <1>1, LenProperties, AppendProperties
<1> HIDE DEF bw
<1>3. bw # << >> /\ LastIs(bw, {"pending"})
  BY <1>1, <1>2, EmptySeq DEF LastIs
<1>4. \A i \in 1 .. L : aw[i].status \notin Live
  <2>1. aw # << >> => aw[L].status \notin Live
    BY DEF LastIs
  <2>2. \A i \in 1 .. L : aw # << >>
    BY <1>2, EmptySeq
  <2> QED BY <2>1, <2>2 DEF InOrder
<1>5. InOrder(bw)
  <2> SUFFICES ASSUME NEW i \in 1 .. Len(bw)
               PROVE  /\ bw[i].status \in Live => i = Len(bw)
                      /\ bw[i].status = "active" <=> bw[i].contract \in {"pending", "active"}
                      /\ bw[i].status = "pending" <=> bw[i].period = "none"
                      /\ bw[i].contract = "active" => bw[i].period = "over"
                      /\ bw[i].period = "over" /\ bw[i].status # "cancelled" =>
                           \A j \in 1 .. i - 1 : bw[j].period # "running"
    BY DEF InOrder
  <2>1. CASE i = L + 1
    BY <1>1, <1>2, <2>1
  <2>2. CASE i \in 1 .. L
    <3>1. \A j \in 1 .. i - 1 : j \in 1 .. L
      BY <1>2, <2>2
    <3> QED BY <1>2, <1>4, <2>2, <3>1 DEF InOrder
  <2> QED BY <1>2, <2>1, <2>2
<1>6. Rejected(bw) = Rejected(aw)
  <2>1. \A i : i \in 1 .. L + 1 <=> i \in 1 .. L \/ i = L + 1
    BY <1>2
  <2> QED BY <1>1, <1>2, <2>1 DEF Rejected
<1>7. BestFirst(bw, bid, u)
  <2> SUFFICES ASSUME NEW i \in 1 .. Len(bw)
               PROVE  /\ bid[bw[i].bid].status = "active" /\ u \in bid[bw[i].bid].lots
                      /\ bw[i].status \in Live => BetterFailed(bw, bid, u, bw[i].bid)
    BY DEF BestFirst, BetterFailed
  <2>1. CASE i = L + 1
    BY <1>1, <1>2, <1>6, <2>1 DEF BetterFailed
  <2>2. CASE i \in 1 .. L
    BY <1>2, <1>4, <2>2 DEF BestFirst
  <2> QED BY <1>2, <2>1, <2>2
<1>8. SignedIn(bw) <=> SignedIn(aw)
  <2>1. \A i : i \in 1 .. L + 1 <=> i \in 1 .. L \/ i = L + 1
    BY <1>2
  <2> QED BY <1>1, <1>2, <2>1 DEF SignedIn
<1>9. Disputed(bw) <=> Disputed(aw)
  <2>1. \A i : i \in 1 .. L + 1 <=> i \in 1 .. L \/ i = L + 1
    BY <1>2
  <2> QED BY <1>1, <1>2, <2>1, NoClaimKept DEF Disputed
<1> QED BY <1>2, <1>3, <1>5, <1>7, <1>8, <1>9 DEF bw, n

-----------------------------------------------------------------------------
(* add_next_award.                                                         *)

\* Once the bids are opened, those that are there count.
LEMMA OpenedBidsCount ==
  ASSUME NEW t, Shape(t), BidsOpened(t), NEW u, NEW b \in BidsOn(t, u)
  PROVE  b \in Bids /\ t.bid[b].status = "active" /\ u \in t.bid[b].lots
<1>1. b \in Bids /\ t.bid[b].status # "absent" /\ u \in t.bid[b].lots
  BY DEF BidsOn
<1>2. t.bid[b] \in Bid /\ t.bid[b].status # "draft"
  BY <1>1, ShapeParts DEF BidsOpened
<1> QED BY <1>1, <1>2 DEF Bid

\* The awards of one unit after add_next_award.
NextAwards(t, u) ==
  IF u \in Vacant(t) /\ Candidates(t, u) # {}
  THEN Append(t.awards[u], NewAward(Best(Candidates(t, u))))
  ELSE t.awards[u]

LEMMA NextAwardsFit ==
  ASSUME NEW t, Shape(t), AwardsFit(t), BidsOpened(t), NEW u \in Units
  PROVE  LET bw == NextAwards(t, u) IN
         /\ bw \in Seq(KeptAward) /\ InOrder(bw) /\ BestFirst(bw, t.bid, u)
         /\ SignedIn(bw) <=> SignedIn(t.awards[u])
         /\ Disputed(bw) <=> Disputed(t.awards[u])
         /\ u \in Open(t) => bw # << >>
         /\ Len(bw) >= Len(t.awards[u])
         /\ \A i \in 1 .. Len(t.awards[u]) : bw[i] = t.awards[u][i]
<1> DEFINE aw == t.awards[u]
           bw == NextAwards(t, u)
<1>1. aw \in Seq(KeptAward) /\ Len(aw) \in Nat /\ InOrder(aw) /\ BestFirst(aw, t.bid, u)
  BY AwardsOfUnit DEF AwardsFit
<1>2. CASE u \in Vacant(t) /\ Candidates(t, u) # {}
  <2> DEFINE b == Best(Candidates(t, u))
  <2>1. b \in Candidates(t, u) /\ \A c \in Candidates(t, u) : b <= c
    <3>1. Candidates(t, u) \in SUBSET Bids
      BY DEF Candidates, BidsOn
    <3> QED BY <1>2, <3>1, BestIsBest
  <2> HIDE DEF b
  <2>2. b \in Bids /\ t.bid[b].status = "active" /\ u \in t.bid[b].lots
    BY <2>1, OpenedBidsCount DEF Candidates
  <2>3. BetterFailed(aw, t.bid, u, b)
    <3> SUFFICES ASSUME NEW c \in Bids, t.bid[c].status # "absent", u \in t.bid[c].lots, c < b,
                        c \notin Rejected(aw)
                 PROVE  FALSE
      BY DEF BetterFailed
    <3>1. c \in Candidates(t, u)
      BY DEF Candidates, BidsOn
    <3>2. b \in Nat /\ c \in Nat
      BY <2>2, BoundsAssumption DEF Bids
    <3> QED BY <2>1, <3>1, <3>2
  <2>4. ~ LastIs(aw, Live)
    BY <1>2 DEF Vacant, Live
  <2>5. bw = Append(aw, NewAward(b))
    BY <1>2 DEF NextAwards, b
  <2> HIDE DEF aw, bw
  <2>6. /\ bw \in Seq(KeptAward) /\ bw # << >> /\ InOrder(bw) /\ BestFirst(bw, t.bid, u)
        /\ SignedIn(bw) <=> SignedIn(aw)
        /\ Disputed(bw) <=> Disputed(aw)
        /\ \A i \in 1 .. Len(aw) : bw[i] = aw[i]
    BY <1>1, <2>2, <2>3, <2>4, <2>5, AwardAppended
  <2>7. Len(bw) = Len(aw) + 1
    BY <1>1, <2>5, AppendProperties
  <2> QED BY <1>1, <2>6, <2>7 DEF aw, bw
<1>3. CASE ~ (u \in Vacant(t) /\ Candidates(t, u) # {})
  <2>1. bw = aw
    BY <1>3 DEF NextAwards
  <2>2. u \in Open(t) => aw # << >>
    <3> SUFFICES ASSUME u \in Open(t), aw = << >> PROVE FALSE
      OBVIOUS
    <3>1. u \in Vacant(t)
      BY DEF Vacant, LastIs
    <3>2. Rejected(aw) = {}
      BY DEF Rejected
    <3>3. BidsOn(t, u) # {}
      BY DEF BidsOpened
    <3> QED BY <1>3, <3>1, <3>2, <3>3 DEF Candidates
  <2> HIDE DEF bw, aw
  <2> QED BY <1>1, <2>1, <2>2 DEF bw, aw
<1> QED BY <1>2, <1>3, Zenon

LEMMA AddNextAwardMade ==
  ASSUME NEW t, Shape(t), BidsOpened(t), WholeOpen(t)
  PROVE  LET s == AddNextAward(t) IN
         /\ s = [status |-> AwardingStatus(t, s.awards), lot |-> t.lot, bid |-> t.bid,
                 auctioned |-> t.auctioned, awards |-> s.awards, claims |-> t.claims,
                 cancellations |-> t.cancellations]
         /\ s.awards = [u \in Units |-> NextAwards(t, u)]
<1> DEFINE failed == {u \in Vacant(t) \cap Lots : BidsOn(t, u) = {}}
           lot == [u \in Units |-> IF u \in failed THEN "unsuccessful" ELSE t.lot[u]]
           aw == [u \in Units |-> NextAwards(t, u)]
           status == AwardingStatus(t, aw)
           s == AddNextAward(t)
<1>1. failed = {}
  BY DEF Vacant, BidsOpened
<1>2. lot = t.lot
  BY <1>1, ShapeParts
<1>3. s = WithStatus(WithLot(WithAwards(t, aw), lot), status)
  BY Zenon DEF AddNextAward, WithStatus, WithLot, WithAwards, NextAwards
<1> HIDE DEF lot, aw, status, failed, s
<1>4. Document(t)
  BY ShapeParts
<1>5. WithAwards(t, aw) =
        [status |-> t.status, lot |-> t.lot, bid |-> t.bid, auctioned |-> t.auctioned,
         awards |-> aw, claims |-> t.claims, cancellations |-> t.cancellations]
  BY <1>4, Rebuilt
<1>6. Document(WithAwards(t, aw))
  BY <1>5, DocumentMade
<1>7. WithLot(WithAwards(t, aw), lot) =
        [status |-> t.status, lot |-> lot, bid |-> t.bid, auctioned |-> t.auctioned,
         awards |-> aw, claims |-> t.claims, cancellations |-> t.cancellations]
  BY <1>5, <1>6, Rebuilt
<1>8. Document(WithLot(WithAwards(t, aw), lot))
  BY <1>7, DocumentMade
<1>9. s = [status |-> status, lot |-> lot, bid |-> t.bid, auctioned |-> t.auctioned,
           awards |-> aw, claims |-> t.claims, cancellations |-> t.cancellations]
  BY <1>3, <1>7, <1>8, Rebuilt
<1>10. s.awards = aw
  BY <1>9
<1> QED BY <1>2, <1>9, <1>10, Zenon DEF aw, status, s

\* The tender goes on with the awards it needs.
LEMMA AddNextAwardSound ==
  ASSUME NEW t, Steady(t), SignedIsComplete(t), Undisputed(t),
         t.status \in {"active.auction"} \cup Awarding
  PROVE  LET s == AddNextAward(t) IN
         /\ Sound(s) /\ s.status \in Awarding
         /\ \A u \in Units : \A i \in 1 .. Len(t.awards[u]) : s.awards[u][i] = t.awards[u][i]
<1> DEFINE s == AddNextAward(t)
<1>1. Shape(t) /\ AwardsFit(t) /\ BidsOpened(t) /\ WholeOpen(t) /\ Open(t) # {}
  BY DEF Steady, BidsCount, SomeOpen, Terminal, Awarding
<1>2. /\ s = [status |-> AwardingStatus(t, s.awards), lot |-> t.lot, bid |-> t.bid,
              auctioned |-> t.auctioned, awards |-> s.awards, claims |-> t.claims,
              cancellations |-> t.cancellations]
      /\ s.awards = [u \in Units |-> NextAwards(t, u)]
  BY <1>1, AddNextAwardMade
<1> HIDE DEF s
<1>3. /\ s.lot = t.lot /\ s.bid = t.bid /\ s.status = AwardingStatus(t, s.awards)
      /\ Open(s) = Open(t) /\ \A u : BidsOn(s, u) = BidsOn(t, u)
  BY <1>2 DEF Open, BidsOn
<1>4. \A u \in Units :
        /\ s.awards[u] \in Seq(KeptAward) /\ InOrder(s.awards[u])
        /\ BestFirst(s.awards[u], t.bid, u)
        /\ SignedIn(s.awards[u]) <=> SignedIn(t.awards[u])
        /\ Disputed(s.awards[u]) <=> Disputed(t.awards[u])
        /\ u \in Open(t) => s.awards[u] # << >>
        /\ \A i \in 1 .. Len(t.awards[u]) : s.awards[u][i] = t.awards[u][i]
  BY <1>1, <1>2, NextAwardsFit
<1>5. s.status \in Awarding
  BY <1>3 DEF AwardingStatus, Awarding
<1>6. Shape(s)
  <2>1. s.awards \in [Units -> Seq(KeptAward)]
    BY <1>2, <1>4
  <2>2. AwardingStatus(t, s.awards) \in {"draft"} \cup Active \cup Terminal
    BY <1>3, <1>5 DEF Active
  <2>3. Document(s)
    BY <1>2, DocumentMade
  <2>4. /\ s.status = AwardingStatus(t, s.awards) /\ s.auctioned = t.auctioned
        /\ s.claims = t.claims /\ s.cancellations = t.cancellations
    BY <1>2
  <2> QED BY <1>1, <1>3, <2>1, <2>2, <2>3, <2>4, ShapeParts, ShapeMade
<1>7. AwardsFit(s)
  BY <1>3, <1>4 DEF AwardsFit
<1>8. NoneEarly(s)
  BY <1>5 DEF NoneEarly, Early, Awarding
<1>9. BidsCount(s) /\ WholeOpen(s) /\ SomeOpen(s)
  BY <1>1, <1>3 DEF BidsCount, BidsOpened, WholeOpen, SomeOpen
<1>10. SignedIsComplete(s)
  <2>1. ASSUME NEW u \in Units PROVE Outcome(s, u) = "complete" <=> Outcome(t, u) = "complete"
    BY <1>3, <1>5 DEF Outcome, Awarding
  <2> QED BY <1>4, <2>1 DEF SignedIsComplete
<1>11. Undisputed(s)
  <2>1. ASSUME NEW u \in Units, Outcome(s, u) \in {"complete", "unsuccessful"}
        PROVE  Outcome(t, u) \in {"complete", "unsuccessful"}
    BY <1>3, <1>5, <2>1 DEF Outcome, Awarding
  <2> QED BY <1>4, <2>1 DEF Undisputed
<1>12. StatusTrue(s)
  <2>1. s.status = "active.awarded" => \A u \in Open(t) : ~ LastIs(s.awards[u], {"pending"})
    BY <1>3 DEF AwardingStatus
  <2>2. Open(t) \subseteq Units
    BY DEF Open
  <2> QED BY <1>3, <1>4, <2>1, <2>2 DEF StatusTrue
<1>13. Sound(s)
  BY <1>6, <1>7, <1>8, <1>9, <1>10, <1>11, <1>12 DEF Sound, Steady
<1> QED BY <1>4, <1>5, <1>13 DEF s

-----------------------------------------------------------------------------
(* check_tender_status.                                                    *)

LEMMA Greatest ==
  ASSUME NEW n \in Nat, NEW S \in SUBSET (1 .. n), S # {}
  PROVE  \E x \in S : \A y \in S : y <= x
<1> DEFINE T == {n - x : x \in S}
<1>1. \A x \in S : x \in Nat /\ x <= n /\ n - x \in T /\ n - x \in Nat
  OBVIOUS
<1>2. T \in SUBSET Nat /\ T # {}
  BY <1>1
<1>3. PICK m \in T : \A k \in T : m <= k
  <2> HIDE DEF T
  <2> QED BY <1>2, Least
<1>4. PICK x \in S : m = n - x
  OBVIOUS
<1>5. ASSUME NEW y \in S PROVE y <= x
  <2>1. n - x <= n - y
    BY <1>1, <1>3, <1>4
  <2> QED BY <1>1, <2>1
<1> QED BY <1>5

\* contracts[-1] is active exactly when there is a signed contract.
LEMMA LastContractSigned ==
  ASSUME NEW aw \in Seq(KeptAward), InOrder(aw)
  PROVE  LastContract(aw) = "active" <=> SignedIn(aw)
<1> DEFINE made == {i \in 1 .. Len(aw) : aw[i].contract # "none"}
           last == CHOOSE i \in made : \A j \in made : j <= i
<1>1. Len(aw) \in Nat
  BY LenProperties
<1>2. made # {} => last \in made /\ \A j \in made : j <= last
  <2>1. made \in SUBSET (1 .. Len(aw))
    OBVIOUS
  <2> HIDE DEF made
  <2>2. made # {} => \E x \in made : \A y \in made : y <= x
    BY <1>1, <2>1, Greatest
  <2> QED BY <2>2
<1>3. LastContract(aw) = IF made = {} THEN "none" ELSE aw[last].contract
  BY Zenon DEF LastContract
<1> HIDE DEF last
<1>4. ASSUME LastContract(aw) = "active" PROVE SignedIn(aw)
  BY <1>2, <1>3, <1>4 DEF SignedIn
<1>5. ASSUME SignedIn(aw) PROVE LastContract(aw) = "active"
  <2>1. PICK i \in 1 .. Len(aw) : aw[i].contract = "active"
    BY <1>5 DEF SignedIn
  <2>2. aw[i].status = "active" /\ i = Len(aw)
    BY <2>1 DEF InOrder, Live
  <2>3. i \in made
    BY <2>1
  <2>4. last = i
    BY <1>1, <1>2, <2>2, <2>3
  <2> QED BY <1>3, <2>1, <2>3, <2>4
<1> QED BY <1>4, <1>5

LEMMA ActiveContractSigned ==
  ASSUME NEW aw \in Seq(KeptAward), HasActiveContract(aw)
  PROVE  SignedIn(aw)
<1>1. aw # << >> /\ aw[Len(aw)].contract = "active"
  BY DEF HasActiveContract, LastIs
<1>2. Len(aw) \in 1 .. Len(aw)
  BY <1>1, LenProperties, EmptySeq
<1> QED BY <1>1, <1>2 DEF SignedIn

\* A unit that was just signed, and can be completed.
Ready(t, u) ==
  /\ u \in Open(t) /\ HasActiveContract(t.awards[u])
  /\ ~ ClaimAnswered(t, {None}) /\ ~ ClaimAnswered(t, {u})
  /\ ~ AwardClaimAnswered(t.awards[u]) /\ "running" \notin Periods(t.awards[u])

Unsettled(t) ==
  /\ Steady(t) /\ Undisputed(t) /\ StatusTrue(t) /\ t.status \in Awarding
  /\ \A u \in Units :
       /\ SignedIn(t.awards[u]) => Outcome(t, u) = "complete" \/ Ready(t, u)
       /\ Outcome(t, u) = "complete" => SignedIn(t.awards[u])

LEMMA FromLotsEnds ==
  ASSUME NEW t, NEW lot \in [Units -> LotState]
  PROVE  LET status == FromLots(t, LotStatuses(lot)) IN
         /\ status \in Terminal \/ status = t.status
         /\ status \notin Terminal => \E u \in Units : lot[u] = "active"
<1>1. \A u \in Units : lot[u] \in Terminal \/ lot[u] = "active"
  BY DEF LotState
<1>2. LotStatuses(lot) \subseteq Terminal \/ \E u \in Units : lot[u] = "active"
  BY <1>1 DEF LotStatuses
<1> QED BY <1>2 DEF FromLots, Terminal

LEMMA LotsSettled ==
  ASSUME NEW t, Unsettled(t), HasLots
  PROVE  LET s == SettleLots(t) IN
         /\ s.awards = t.awards /\ Steady(s) /\ StatusTrue(s)
         /\ ~ ClaimAnswered(t, {None}) => SignedIsComplete(s)
         /\ \A u \in Units : Outcome(s, u) \in {"complete", "unsuccessful"}
                               => ~ AwardClaimAnswered(s.awards[u])
<1> DEFINE lot == [u \in Units |-> LotOutcome(t, u)]
           status == FromLots(t, LotStatuses(lot))
           s == SettleLots(t)
<1>1. Shape(t) /\ Steady(t) /\ Undisputed(t) /\ StatusTrue(t) /\ t.status \in Awarding
  BY DEF Unsettled, Steady
<1>2. \A u \in Units : t.lot[u] \in LotState /\ t.awards[u] \in Seq(KeptAward)
  BY <1>1, ShapeParts
<1>3. ASSUME NEW u \in Units
      PROVE  /\ LotOutcome(t, u) \in LotState
             /\ t.lot[u] # "active" => LotOutcome(t, u) = t.lot[u]
             /\ Ready(t, u) => LotOutcome(t, u) = "complete"
             /\ LotOutcome(t, u) = "complete" => SignedIn(t.awards[u])
             /\ LotOutcome(t, u) \in {"complete", "unsuccessful"} =>
                  ~ AwardClaimAnswered(t.awards[u])
  <2>1. t.lot[u] = "complete" => SignedIn(t.awards[u])
    BY DEF Unsettled, Outcome
  <2>2. t.lot[u] \in {"complete", "unsuccessful"} => ~ AwardClaimAnswered(t.awards[u])
    BY DEF Unsettled, Undisputed, Outcome, Disputed, AwardClaimAnswered, Answered
  <2>3. HasActiveContract(t.awards[u]) =>
          /\ SignedIn(t.awards[u]) /\ t.awards[u] # << >>
          /\ ~ LastIs(t.awards[u], {"unsuccessful"})
    BY <1>2, ActiveContractSigned DEF HasActiveContract, LastIs
  <2>4. Ready(t, u) => LotOutcome(t, u) = "complete"
    BY <2>3 DEF Ready, LotOutcome, Open
  <2>5. t.lot[u] # "active" => LotOutcome(t, u) = t.lot[u]
    BY DEF LotOutcome
  <2>6. \/ LotOutcome(t, u) = t.lot[u]
        \/ LotOutcome(t, u) = "unsuccessful" /\ ~ AwardClaimAnswered(t.awards[u])
        \/ /\ LotOutcome(t, u) = "complete" /\ ~ AwardClaimAnswered(t.awards[u])
           /\ HasActiveContract(t.awards[u])
        \/ LotOutcome(t, u) = "active"
    BY DEF LotOutcome
  <2> QED BY <1>2, <2>1, <2>2, <2>3, <2>4, <2>5, <2>6 DEF LotState, Terminal
<1>4. lot \in [Units -> LotState]
  BY <1>3
<1>5. s = WithStatus(WithLot(t, lot), status)
  BY Zenon DEF SettleLots, WithStatus, WithLot
<1> HIDE DEF lot, status, s
<1>6. WithLot(t, lot) =
        [status |-> t.status, lot |-> lot, bid |-> t.bid, auctioned |-> t.auctioned,
         awards |-> t.awards, claims |-> t.claims, cancellations |-> t.cancellations]
  BY <1>1, ShapeParts, Rebuilt
<1>7. Document(WithLot(t, lot))
  BY <1>6, DocumentMade
<1>8. s = [status |-> status, lot |-> lot, bid |-> t.bid, auctioned |-> t.auctioned,
           awards |-> t.awards, claims |-> t.claims, cancellations |-> t.cancellations]
  BY <1>5, <1>6, <1>7, Rebuilt
<1>9. /\ s.status = status /\ s.lot = lot /\ s.bid = t.bid /\ s.auctioned = t.auctioned
      /\ s.awards = t.awards /\ s.claims = t.claims /\ s.cancellations = t.cancellations
      /\ Document(s)
  BY <1>8, DocumentMade
<1>10. /\ status \in Terminal \/ status = t.status
       /\ status \notin Terminal => \E u \in Units : lot[u] = "active"
  BY <1>4, FromLotsEnds DEF status
<1>11. Shape(s)
  <2>1. status \in {"draft"} \cup Active \cup Terminal
    BY <1>1, <1>10, ShapeParts
  <2> QED BY <1>1, <1>4, <1>9, <2>1, ShapeParts, ShapeMade
<1>12. Open(s) \subseteq Open(t) /\ \A u : BidsOn(s, u) = BidsOn(t, u)
  <2>1. \A u \in Units : lot[u] = LotOutcome(t, u)
    BY DEF lot
  <2> QED BY <1>3, <1>9, <2>1 DEF Open, BidsOn
<1>13. AwardsFit(s) /\ WholeOpen(s)
  BY <1>1, <1>9 DEF Steady, AwardsFit, WholeOpen
<1>14. s.status \in Awarding \cup Terminal /\ (s.status \notin Terminal => s.status = t.status)
  BY <1>1, <1>9, <1>10
<1>15. NoneEarly(s) /\ BidsCount(s)
  <2>1. NoneEarly(s)
    BY <1>14 DEF NoneEarly, Early, Awarding, Terminal
  <2>2. s.status \in {"active.auction"} \cup Awarding => s.status = t.status
    BY <1>14 DEF Terminal, Awarding
  <2> QED BY <1>1, <1>9, <1>12, <2>1, <2>2 DEF Steady, BidsCount, BidsOpened
<1>16. SomeOpen(s)
  BY <1>9, <1>10 DEF SomeOpen, Open, Active, Awarding, Terminal
<1>17. Steady(s)
  BY <1>11, <1>13, <1>15, <1>16 DEF Steady
<1>18. StatusTrue(s)
  <2>1. s.status \in Awarding => s.status = t.status
    BY <1>14 DEF Terminal, Awarding
  <2> QED BY <1>1, <1>9, <1>12, <2>1 DEF StatusTrue, Awarding
<1>19. \A u \in Units : Outcome(s, u) = LotOutcome(t, u)
  BY <1>9 DEF Outcome, lot
<1>20. ~ ClaimAnswered(t, {None}) => SignedIsComplete(s)
  <2>1. \A u \in Units : SignedIn(t.awards[u]) => LotOutcome(t, u) = "complete"
    BY <1>3 DEF Unsettled, Outcome
  <2> QED BY <1>3, <1>9, <1>19, <2>1 DEF SignedIsComplete
<1> QED BY <1>3, <1>9, <1>17, <1>18, <1>19, <1>20 DEF s

LEMMA WholeSettled ==
  ASSUME NEW t, Unsettled(t), ~ HasLots
  PROVE  LET s == SettleWhole(t) IN
         /\ s.awards = t.awards /\ Steady(s) /\ StatusTrue(s) /\ SignedIsComplete(s)
         /\ \A u \in Units : Outcome(s, u) \in {"complete", "unsuccessful"}
                               => ~ AwardClaimAnswered(s.awards[u])
<1> DEFINE aw == t.awards[Whole]
           status == IF LastContract(aw) = "active" THEN "complete"
                     ELSE IF /\ LastIs(aw, {"unsuccessful"}) /\ StandStillOver(aw)
                             /\ ~ ClaimAnswered(t, {None}) /\ ~ AwardClaimAnswered(aw)
                          THEN "unsuccessful" ELSE t.status
           s == SettleWhole(t)
<1>1. Shape(t) /\ Steady(t) /\ Undisputed(t) /\ StatusTrue(t) /\ t.status \in Awarding
  BY DEF Unsettled, Steady
<1>2. Units = {Whole}
  BY UnitsFact
<1>3. aw \in Seq(KeptAward) /\ InOrder(aw)
  BY <1>1, <1>2, AwardsOfUnit DEF Steady, AwardsFit
<1>4. LastContract(aw) = "active" <=> SignedIn(aw)
  BY <1>3, LastContractSigned
<1>5. SignedIn(aw) => ~ AwardClaimAnswered(aw)
  BY <1>1, <1>2 DEF Unsettled, Outcome, Ready, Awarding
<1>6. s = WithStatus(t, status)
  BY Zenon DEF SettleWhole, WithStatus
<1>7. /\ status = "complete" <=> SignedIn(aw)
      /\ status \in {"complete", "unsuccessful"} => ~ AwardClaimAnswered(aw)
      /\ status \in {"complete", "unsuccessful"} \/ status = t.status
  BY <1>1, <1>4, <1>5 DEF Awarding
<1> HIDE DEF status, s, aw
<1>8. s = [status |-> status, lot |-> t.lot, bid |-> t.bid, auctioned |-> t.auctioned,
           awards |-> t.awards, claims |-> t.claims, cancellations |-> t.cancellations]
  BY <1>1, <1>6, ShapeParts, Rebuilt
<1>9. /\ s.status = status /\ s.lot = t.lot /\ s.bid = t.bid /\ s.auctioned = t.auctioned
      /\ s.awards = t.awards /\ s.claims = t.claims /\ s.cancellations = t.cancellations
      /\ Document(s)
  BY <1>8, DocumentMade
<1>10. Shape(s)
  <2>1. status \in {"draft"} \cup Active \cup Terminal
    BY <1>1, <1>7, ShapeParts DEF Terminal
  <2> QED BY <1>1, <1>9, <2>1, ShapeParts, ShapeMade
<1>11. Open(s) = Open(t) /\ \A u : BidsOn(s, u) = BidsOn(t, u)
  BY <1>9 DEF Open, BidsOn
<1>12. AwardsFit(s) /\ WholeOpen(s)
  BY <1>1, <1>9 DEF Steady, AwardsFit, WholeOpen
<1>13. NoneEarly(s)
  BY <1>1, <1>7, <1>9 DEF NoneEarly, Early, Awarding
<1>14. s.status \in {"active.auction"} \cup Awarding => s.status = t.status
  BY <1>7, <1>9 DEF Awarding
<1>15. BidsCount(s)
  BY <1>1, <1>9, <1>11, <1>14 DEF Steady, BidsCount, BidsOpened
<1>16. SomeOpen(s)
  BY <1>1, <1>11 DEF Steady, SomeOpen, Awarding, Terminal
<1>17. Steady(s)
  BY <1>10, <1>12, <1>13, <1>15, <1>16 DEF Steady
<1>18. StatusTrue(s)
  BY <1>1, <1>9, <1>11, <1>14 DEF StatusTrue, Awarding
<1>19. Outcome(s, Whole) = status
  BY <1>9 DEF Outcome
<1>20. SignedIsComplete(s)
  BY <1>2, <1>7, <1>9, <1>19 DEF SignedIsComplete, aw
<1>21. \A u \in Units : Outcome(s, u) \in {"complete", "unsuccessful"}
                          => ~ AwardClaimAnswered(s.awards[u])
  BY <1>2, <1>7, <1>9, <1>19 DEF aw
<1> QED BY <1>9, <1>17, <1>18, <1>20, <1>21 DEF s

\* Settled, the tender is sound again, and undisputed awards are as they were.
LEMMA CheckTenderStatusSound ==
  ASSUME NEW t, Unsettled(t)
  PROVE  /\ Sound(CheckTenderStatus(t))
         /\ \A u \in Units : ~ Disputed(t.awards[u])
                               => CheckTenderStatus(t).awards[u] = t.awards[u]
<1>1. CASE HasLots /\ ClaimAnswered(t, {None})
  <2>1. CheckTenderStatus(t) = t
    BY <1>1 DEF CheckTenderStatus
  <2>2. SignedIsComplete(t)
    BY <1>1 DEF Unsettled, Ready, SignedIsComplete
  <2> QED BY <2>1, <2>2 DEF Unsettled, Sound
<1>2. CASE ~ (HasLots /\ ClaimAnswered(t, {None}))
  <2> DEFINE s == IF HasLots THEN SettleLots(t) ELSE SettleWhole(t)
  <2>1. CheckTenderStatus(t) = CheckIgnoredClaim(s)
    BY <1>2 DEF CheckTenderStatus
  <2>2. /\ s.awards = t.awards /\ Steady(s) /\ StatusTrue(s) /\ SignedIsComplete(s)
        /\ \A u \in Units : Outcome(s, u) \in {"complete", "unsuccessful"}
                              => ~ AwardClaimAnswered(s.awards[u])
    <3>1. CASE HasLots
      BY <1>2, <3>1, LotsSettled
    <3>2. CASE ~ HasLots
      BY <3>2, WholeSettled
    <3> QED BY <3>1, <3>2
  <2> HIDE DEF s
  <2>3. Sound(CheckIgnoredClaim(s))
    BY <2>2, IgnoringSound
  <2>4. Shape(s)
    BY <2>2 DEF Steady
  <2>5. \A u \in Units : ~ Disputed(s.awards[u]) => CheckIgnoredClaim(s).awards[u] = s.awards[u]
    BY <2>4, ClaimsQuiet
  <2> QED BY <2>1, <2>2, <2>3, <2>5
<1> QED BY <1>1, <1>2

-----------------------------------------------------------------------------
(* check_bids.                                                             *)

LEMMA NobodyAwarded ==
  /\ InOrder(<< >>) /\ \A bid, u : BestFirst(<< >>, bid, u)
  /\ ~ SignedIn(<< >>) /\ ~ Disputed(<< >>) /\ ~ AwardClaimAnswered(<< >>)
BY DEF InOrder, BestFirst, SignedIn, Disputed, AwardClaimAnswered

\* A unit with active bids has bids.
LEMMA SomeBids ==
  ASSUME NEW t, NEW u, numberOfBids(t, u) # 0
  PROVE  BidsOn(t, u) # {}
<1>1. CASE BidsOn(t, u) = {}
  <2>1. {b \in BidsOn(t, u) : t.bid[b].status = "active"} = {}
    BY <1>1
  <2> QED BY <2>1, FS_EmptySet DEF numberOfBids
<1> QED BY <1>1

Unawarded(t) == \A u \in Units : t.awards[u] = << >>

LEMMA CheckBidsSound ==
  ASSUME NEW t, Shape(t), Unawarded(t), WholeOpen(t), t.status = "active.auction",
         \A b \in Bids : t.bid[b].status # "draft",
         \A u \in Units : t.lot[u] # "complete"
  PROVE  Sound(CheckBids(t))
<1> DEFINE lot == [u \in Units |->
                     IF u \in Lots \cap Open(t) /\ numberOfBids(t, u) = 0
                     THEN "unsuccessful" ELSE t.lot[u]]
           s == WithLot(t, lot)
           nobody == IF HasLots THEN LotStatuses(lot) \subseteq {"unsuccessful", "cancelled"}
                     ELSE numberOfBids(t, Whole) = 0
           f == WithStatus(s, "unsuccessful")
           r == IF nobody THEN f ELSE IF NoAuctionNeeded(s) THEN AddNextAward(s) ELSE s
<1>1. CheckBids(t) = CheckIgnoredClaim(r)
  BY Zenon DEF CheckBids, WithLot, WithStatus
<1>2. \A u \in Units : t.lot[u] \in LotState /\ t.awards[u] = << >>
  BY ShapeParts DEF Unawarded
<1>3. /\ lot \in [Units -> LotState] /\ \A u \in Units : lot[u] # "complete"
      /\ \A u \in Units : lot[u] = "active" => t.lot[u] = "active"
      /\ \A u \in Units : lot[u] = "active" /\ u \in Lots => numberOfBids(t, u) # 0
      /\ ~ HasLots => lot = t.lot
  <2>1. "unsuccessful" \in LotState
    BY DEF LotState, Terminal
  <2>2. lot \in [Units -> LotState]
    BY <1>2, <2>1
  <2>3. \A u \in Units : lot[u] = "active" /\ u \in Lots => numberOfBids(t, u) # 0
    BY DEF Open
  <2>4. ~ HasLots => lot = t.lot
    BY ShapeParts DEF HasLots
  <2> QED BY <2>2, <2>3, <2>4
<1> HIDE DEF lot, s
<1>4. s = [status |-> t.status, lot |-> lot, bid |-> t.bid, auctioned |-> t.auctioned,
           awards |-> t.awards, claims |-> t.claims, cancellations |-> t.cancellations]
  BY ShapeParts, Rebuilt DEF s
<1>5. /\ s.status = t.status /\ s.lot = lot /\ s.bid = t.bid /\ s.auctioned = t.auctioned
      /\ s.awards = t.awards /\ s.claims = t.claims /\ s.cancellations = t.cancellations
      /\ Document(s)
  BY <1>4, DocumentMade
<1>6. f = [status |-> "unsuccessful", lot |-> lot, bid |-> t.bid, auctioned |-> t.auctioned,
           awards |-> t.awards, claims |-> t.claims, cancellations |-> t.cancellations]
  BY <1>5, Rebuilt
<1> HIDE DEF f
<1>7. /\ f.status = "unsuccessful" /\ f.lot = lot /\ f.bid = t.bid /\ f.auctioned = t.auctioned
      /\ f.awards = t.awards /\ f.claims = t.claims /\ f.cancellations = t.cancellations
      /\ Document(f)
  BY <1>6, DocumentMade
<1>8. Shape(s) /\ Shape(f)
  <2>1. "unsuccessful" \in {"draft"} \cup Active \cup Terminal
    BY DEF Terminal
  <2>2. Shape(s)
    BY <1>3, <1>5, ShapeParts, ShapeMade
  <2>3. Shape(f)
    BY <1>3, <1>7, <2>1, ShapeParts, ShapeMade
  <2> QED BY <2>2, <2>3
<1>9. AwardsFit(s) /\ AwardsFit(f) /\ WholeOpen(s) /\ WholeOpen(f)
  BY <1>2, <1>3, <1>5, <1>7, NobodyAwarded DEF AwardsFit, WholeOpen
<1>10. SignedIsComplete(s) /\ SignedIsComplete(f) /\ Undisputed(s) /\ Undisputed(f)
  BY <1>2, <1>3, <1>5, <1>7, NobodyAwarded DEF SignedIsComplete, Undisputed, Outcome
<1>11. StatusTrue(s) /\ StatusTrue(f)
  BY <1>5, <1>7 DEF StatusTrue, Awarding
<1>12. Steady(f)
  <2>1. NoneEarly(f) /\ BidsCount(f) /\ SomeOpen(f)
    BY <1>7 DEF NoneEarly, BidsCount, SomeOpen, Early, Awarding, Terminal
  <2> QED BY <1>8, <1>9, <2>1 DEF Steady
<1>13. ASSUME ~ nobody PROVE Steady(s)
  <2>1. NoneEarly(s)
    BY <1>2, <1>5 DEF NoneEarly
  <2>2. \A u : numberOfBids(s, u) = numberOfBids(t, u)
    BY <1>5 DEF numberOfBids, BidsOn
  <2>3. BidsOpened(s)
    <3> SUFFICES ASSUME NEW u \in Units, lot[u] = "active" PROVE BidsOn(s, u) # {}
      BY <1>5 DEF BidsOpened, Open
    <3>1. numberOfBids(t, u) # 0
      BY <1>3, <1>13, UnitsFact
    <3> QED BY <2>2, <3>1, SomeBids
  <2>4. \E u \in Units : lot[u] = "active"
    <3>1. CASE HasLots
      <4>1. PICK u \in Units : lot[u] \notin {"unsuccessful", "cancelled"}
        BY <1>13, <3>1 DEF LotStatuses
      <4> QED BY <1>3, <4>1 DEF LotState, Terminal
    <3>2. CASE ~ HasLots
      BY <1>3, <3>2, UnitsFact DEF WholeOpen
    <3> QED BY <3>1, <3>2
  <2>5. BidsCount(s) /\ SomeOpen(s)
    BY <1>5, <2>3, <2>4 DEF BidsCount, SomeOpen, Open
  <2> QED BY <1>8, <1>9, <2>1, <2>5 DEF Steady
<1>14. /\ Steady(r) /\ SignedIsComplete(r) /\ StatusTrue(r) /\ Undisputed(r)
  <2>1. CASE nobody
    BY <1>10, <1>11, <1>12, <2>1
  <2>2. CASE ~ nobody /\ NoAuctionNeeded(s)
    <3>1. Steady(s) /\ s.status = "active.auction"
      BY <1>5, <1>13, <2>2
    <3>2. Sound(AddNextAward(s))
      BY <1>10, <3>1, AddNextAwardSound
    <3> QED BY <2>2, <3>2 DEF Sound
  <2>3. CASE ~ nobody /\ ~ NoAuctionNeeded(s)
    BY <1>10, <1>11, <1>13, <2>3
  <2> QED BY <2>1, <2>2, <2>3
<1> HIDE DEF r, nobody
<1>15. \A u \in Units : Outcome(r, u) \in {"complete", "unsuccessful"}
                          => ~ AwardClaimAnswered(r.awards[u])
  BY <1>14 DEF Undisputed, Disputed, AwardClaimAnswered, Answered
<1> QED BY <1>1, <1>14, <1>15, IgnoringSound

\* The end of the tendering: the tender has its first awards or its auctions, or
\* has failed.
LEMMA TenderingEndsSound ==
  ASSUME NEW t, Sound(t), t.status = "active.tendering"
  PROVE  Sound(CheckBids(RemoveDraftBids([t EXCEPT !.status = "active.auction"])))
<1> DEFINE a == WithStatus(t, "active.auction")
           bid == [b \in Bids |-> IF a.bid[b].status = "draft"
                                  THEN [status |-> "absent", lots |-> {}] ELSE a.bid[b]]
           s == WithBid(a, bid)
<1>1. RemoveDraftBids([t EXCEPT !.status = "active.auction"]) = s
  BY Zenon DEF RemoveDraftBids, WithStatus, WithBid
<1> HIDE DEF a, s
<1>2. Shape(t) /\ WholeOpen(t) /\ Unawarded(t)
  BY DEF Sound, Steady, NoneEarly, Early, Unawarded
<1>3. a = [status |-> "active.auction", lot |-> t.lot, bid |-> t.bid, auctioned |-> t.auctioned,
           awards |-> t.awards, claims |-> t.claims, cancellations |-> t.cancellations]
  BY <1>2, ShapeParts, Rebuilt DEF a
<1>4. Document(a)
  BY <1>3, DocumentMade
<1>5. s = [status |-> "active.auction", lot |-> t.lot, bid |-> bid, auctioned |-> t.auctioned,
           awards |-> t.awards, claims |-> t.claims, cancellations |-> t.cancellations]
  <2> HIDE DEF bid
  <2> QED BY <1>3, <1>4, Rebuilt DEF s
<1>6. bid \in [Bids -> Bid] /\ \A b \in Bids : bid[b].status # "draft"
  <2>1. a.bid \in [Bids -> Bid]
    BY <1>2, <1>3, ShapeParts
  <2>2. [status |-> "absent", lots |-> {}] \in Bid
    BY DEF Bid
  <2> QED BY <2>1, <2>2
<1> HIDE DEF bid
<1>7. /\ s.status = "active.auction" /\ s.lot = t.lot /\ s.bid = bid /\ s.auctioned = t.auctioned
      /\ s.awards = t.awards /\ s.claims = t.claims /\ s.cancellations = t.cancellations
      /\ Document(s)
  BY <1>5, DocumentMade
<1>8. Shape(s)
  <2>1. "active.auction" \in {"draft"} \cup Active \cup Terminal
    BY DEF Active
  <2> QED BY <1>2, <1>6, <1>7, <2>1, ShapeParts, ShapeMade
<1>9. \A u \in Units : t.lot[u] # "complete"
  <2>1. \A u \in Units : Outcome(t, u) # "complete"
    BY <1>2, NobodyAwarded DEF Sound, SignedIsComplete, Unawarded
  <2>2. CASE HasLots
    BY <2>1, <2>2 DEF Outcome
  <2>3. CASE ~ HasLots
    BY <1>2, <2>3, UnitsFact DEF WholeOpen
  <2> QED BY <2>2, <2>3
<1>10. Unawarded(s) /\ WholeOpen(s)
  BY <1>2, <1>7 DEF Unawarded, WholeOpen
<1> QED BY <1>1, <1>6, <1>7, <1>8, <1>9, <1>10, CheckBidsSound

-----------------------------------------------------------------------------
(* check_status.                                                           *)

LEMMA SignedIsQuiet ==
  ASSUME NEW t, Sound(t), NEW u \in Units, SignedIn(t.awards[u])
  PROVE  Outcome(t, u) = "complete" /\ ~ Disputed(t.awards[u]) /\ t.status \notin Early
<1>1. Outcome(t, u) = "complete" /\ ~ Disputed(t.awards[u])
  BY DEF Sound, SignedIsComplete, Undisputed
<1>2. t.status \notin Early
  BY NobodyAwarded DEF Sound, Steady, NoneEarly
<1> QED BY <1>1, <1>2

LEMMA SoundIsUnsettled ==
  ASSUME NEW t, Sound(t), t.status \in Awarding
  PROVE  Unsettled(t)
BY DEF Sound, Unsettled, SignedIsComplete

LEMMA CheckStatusSound ==
  ASSUME NEW t, Sound(t)
  PROVE  /\ Sound(CheckStatus(t))
         /\ \A u \in Units : SignedIn(t.awards[u]) => CheckStatus(t).awards[u] = t.awards[u]
<1> DEFINE c == CheckComplaintStatus(t)
           s == CheckStatus(t)
<1>1. Sound(c)
  BY ExpirySound
<1>2. Shape(t) /\ Shape(c)
  BY <1>1 DEF Sound, Steady
<1>3. \A u \in Units : SignedIn(t.awards[u]) => c.awards[u] = t.awards[u] /\ ~ Disputed(c.awards[u])
  BY <1>2, SignedIsQuiet, ClaimsQuiet
<1> HIDE DEF c
<1>4. \/ s = [c EXCEPT !.status = "active.tendering"] /\ c.status = "active.enquiries"
      \/ /\ s = CheckBids(RemoveDraftBids([c EXCEPT !.status = "active.auction"]))
         /\ c.status = "active.tendering"
      \/ s = CheckTenderStatus(c) /\ c.status \in Awarding
      \/ s = c
  BY DEF CheckStatus, Awarding, c
<1> HIDE DEF s
<1>5. CASE s = [c EXCEPT !.status = "active.tendering"] /\ c.status = "active.enquiries"
  <2>1. s = WithStatus(c, "active.tendering")
    BY <1>5 DEF WithStatus
  <2>2. s = [status |-> "active.tendering", lot |-> c.lot, bid |-> c.bid,
             auctioned |-> c.auctioned, awards |-> c.awards, claims |-> c.claims,
             cancellations |-> c.cancellations]
    BY <1>2, <2>1, ShapeParts, Rebuilt
  <2>3. /\ s.status = "active.tendering" /\ s.lot = c.lot /\ s.bid = c.bid
        /\ s.auctioned = c.auctioned /\ s.awards = c.awards /\ s.claims = c.claims
        /\ s.cancellations = c.cancellations /\ Document(s)
    BY <2>2, DocumentMade
  <2>4. Shape(s)
    <3>1. "active.tendering" \in {"draft"} \cup Active \cup Terminal
      BY DEF Active
    <3> QED BY <1>2, <2>3, <3>1, ShapeParts, ShapeMade
  <2>5. Open(s) = Open(c) /\ \A u : BidsOn(s, u) = BidsOn(c, u)
    BY <2>3 DEF Open, BidsOn
  <2>6. Steady(s)
    BY <1>1, <1>5, <2>3, <2>4, <2>5
    DEF Sound, Steady, AwardsFit, NoneEarly, Early, BidsCount, Awarding, WholeOpen, SomeOpen,
        Terminal
  <2>7. SignedIsComplete(s) /\ Undisputed(s) /\ StatusTrue(s)
    BY <1>1, <1>5, <2>3 DEF Sound, SignedIsComplete, Undisputed, StatusTrue, Outcome, Awarding
  <2> QED BY <1>3, <2>3, <2>6, <2>7 DEF Sound, s
<1>6. CASE /\ s = CheckBids(RemoveDraftBids([c EXCEPT !.status = "active.auction"]))
           /\ c.status = "active.tendering"
  <2>1. \A u \in Units : ~ SignedIn(t.awards[u])
    <3>1. \A u \in Units : ~ SignedIn(c.awards[u])
      BY <1>1, <1>6, SignedIsQuiet DEF Early
    <3> QED BY <1>3, <3>1
  <2> QED BY <1>1, <1>6, <2>1, TenderingEndsSound DEF s
<1>7. CASE s = CheckTenderStatus(c) /\ c.status \in Awarding
  <2>1. Unsettled(c)
    BY <1>1, <1>7, SoundIsUnsettled
  <2> QED BY <1>3, <1>7, <2>1, CheckTenderStatusSound DEF s
<1>8. CASE s = c
  BY <1>1, <1>3, <1>8 DEF s
<1> QED BY <1>4, <1>5, <1>6, <1>7, <1>8

-----------------------------------------------------------------------------
(* Changes of the awards of one unit.                                      *)

LEMMA AwardReplaced ==
  ASSUME NEW aw \in Seq(KeptAward), NEW i \in 1 .. Len(aw), NEW a \in KeptAward
  PROVE  LET bw == [aw EXCEPT ![i] = a] IN
         /\ bw \in Seq(KeptAward) /\ Len(bw) = Len(aw) /\ bw[i] = a
         /\ \A j \in 1 .. Len(aw) : j # i => bw[j] = aw[j]
BY ExceptSeq

\* The award that is pending is decided.
LEMMA AwardDecided ==
  ASSUME NEW aw \in Seq(KeptAward), NEW bid, NEW u, InOrder(aw), BestFirst(aw, bid, u),
         ~ SignedIn(aw), NEW i \in 1 .. Len(aw), aw[i].status = "pending",
         NEW a \in KeptAward, a.bid = aw[i].bid, a.period = "running",
         \/ a.status = "active" /\ a.contract = "pending"
         \/ a.status = "unsuccessful" /\ a.contract \notin {"pending", "active"}
  PROVE  LET bw == [aw EXCEPT ![i] = a] IN
         bw \in Seq(KeptAward) /\ InOrder(bw) /\ BestFirst(bw, bid, u) /\ ~ SignedIn(bw)
<1> DEFINE bw == [aw EXCEPT ![i] = a]
<1>1. /\ bw \in Seq(KeptAward) /\ Len(bw) = Len(aw) /\ bw[i] = a
      /\ \A j \in 1 .. Len(aw) : j # i => bw[j] = aw[j]
  BY AwardReplaced
<1> HIDE DEF bw
<1>2. Len(aw) \in Nat /\ i = Len(aw)
  BY LenProperties DEF InOrder, Live
<1>3. ASSUME NEW j \in 1 .. Len(aw), j # i
      PROVE  j < Len(aw) /\ aw[j].status \notin Live
  BY <1>2, <1>3 DEF InOrder
<1>4. InOrder(bw)
  <2> SUFFICES ASSUME NEW k \in 1 .. Len(bw)
               PROVE  /\ bw[k].status \in Live => k = Len(bw)
                      /\ bw[k].status = "active" <=> bw[k].contract \in {"pending", "active"}
                      /\ bw[k].status = "pending" <=> bw[k].period = "none"
                      /\ bw[k].contract = "active" => bw[k].period = "over"
                      /\ bw[k].period = "over" /\ bw[k].status # "cancelled" =>
                           \A j \in 1 .. k - 1 : bw[j].period # "running"
    BY DEF InOrder
  <2>1. CASE k = i
    BY <1>1, <1>2, <2>1
  <2>2. CASE k # i
    <3>1. \A j \in 1 .. k - 1 : j \in 1 .. Len(aw) /\ j # i
      BY <1>1, <1>2
    <3> QED BY <1>1, <1>2, <2>2, <3>1 DEF InOrder
  <2> QED BY <2>1, <2>2
<1>5. Rejected(aw) \subseteq Rejected(bw)
  <2> SUFFICES ASSUME NEW j \in 1 .. Len(aw), aw[j].status = "unsuccessful"
               PROVE  aw[j].bid \in Rejected(bw)
    BY DEF Rejected
  <2>1. j # i
    OBVIOUS
  <2> QED BY <1>1, <2>1 DEF Rejected
<1>6. BestFirst(bw, bid, u)
  <2> SUFFICES ASSUME NEW k \in 1 .. Len(bw)
               PROVE  /\ bid[bw[k].bid].status = "active" /\ u \in bid[bw[k].bid].lots
                      /\ bw[k].status \in Live => BetterFailed(bw, bid, u, bw[k].bid)
    BY DEF BestFirst, BetterFailed
  <2>1. BetterFailed(aw, bid, u, aw[i].bid)
    BY DEF BestFirst, BetterFailed, Live
  <2>2. CASE k = i
    BY <1>1, <1>5, <2>1, <2>2 DEF BestFirst, BetterFailed
  <2>3. CASE k # i
    BY <1>1, <1>3, <2>3 DEF BestFirst
  <2> QED BY <2>2, <2>3
<1>7. ~ SignedIn(bw)
  BY <1>1 DEF SignedIn
<1> QED BY <1>1, <1>4, <1>6, <1>7 DEF bw

LEMMA CancelledAwardKept ==
  ASSUME NEW a \in KeptAward
  PROVE  LET b == CancelledAward(a) IN
         /\ b \in KeptAward /\ b.bid = a.bid /\ b.status = "cancelled" /\ b.period = "over"
         /\ b.contract \in {"none", "cancelled"}
<1> DEFINE c == CancelledClaim(a.claim)
           k == IF a.contract = "none" THEN "none" ELSE "cancelled"
           b == [bid |-> a.bid, status |-> "cancelled", period |-> "over", claim |-> c,
                 contract |-> k]
<1>1. a.bid \in Bids /\ a.claim \in KeptClaim
  BY AwardParts
<1>2. c \in KeptClaim
  BY <1>1, ClosedKept DEF CancelledClaim
<1>3. k \in {"none", "cancelled"}
  OBVIOUS
<1>4. CancelledAward(a) = b
  <2> DEFINE status == a.status
             period == a.period
             claim == a.claim
             contract == a.contract
             n == a.bid
  <2>1. a = [bid |-> n, status |-> status, period |-> period, claim |-> claim,
             contract |-> contract]
    BY AwardParts
  <2>2. CancelledAward(a) = [[[[a EXCEPT !.status = "cancelled"] EXCEPT !.period = "over"]
                              EXCEPT !.claim = c] EXCEPT !.contract = k]
    BY <2>1 DEF CancelledAward
  <2> HIDE DEF status, period, claim, contract, n, c, k
  <2> QED BY <2>1, <2>2
<1> HIDE DEF c, k
<1>5. b \in KeptAward
  BY <1>1, <1>2, <1>3 DEF KeptAward
<1> QED BY <1>3, <1>4, <1>5

\* The awards from one on are cancelled, and none is left that is live.
CancelledFrom(aw, bw, i) ==
  /\ Len(bw) = Len(aw)
  /\ \A j \in 1 .. Len(aw) : bw[j] = IF j < i THEN aw[j] ELSE CancelledAward(aw[j])

LEMMA AwardsCancelled ==
  ASSUME NEW aw \in Seq(KeptAward), NEW bid, NEW u, InOrder(aw), BestFirst(aw, bid, u),
         NEW i \in 1 .. Len(aw), NEW bw \in Seq(KeptAward), CancelledFrom(aw, bw, i)
  PROVE  InOrder(bw) /\ BestFirst(bw, bid, u) /\ ~ SignedIn(bw)
<1>1. /\ Len(aw) \in Nat /\ Len(bw) = Len(aw)
      /\ \A j \in 1 .. Len(aw) : aw[j] \in KeptAward
      /\ \A j \in 1 .. Len(aw) : bw[j] = IF j < i THEN aw[j] ELSE CancelledAward(aw[j])
  BY LenProperties, ElementOfSeq DEF CancelledFrom
<1>2. ASSUME NEW j \in 1 .. Len(aw)
      PROVE  \/ j < i /\ bw[j] = aw[j] /\ aw[j].status \notin Live
             \/ /\ bw[j].bid = aw[j].bid /\ bw[j].status = "cancelled" /\ bw[j].period = "over"
                /\ bw[j].contract \in {"none", "cancelled"}
  <2>1. CASE j < i
    <3>1. j # Len(aw)
      BY <1>1, <2>1
    <3> QED BY <1>1, <2>1, <3>1 DEF InOrder
  <2>2. CASE ~ (j < i)
    BY <1>1, <2>2, CancelledAwardKept
  <2> QED BY <2>1, <2>2
<1>3. InOrder(bw)
  <2> SUFFICES ASSUME NEW k \in 1 .. Len(bw)
               PROVE  /\ bw[k].status \in Live => k = Len(bw)
                      /\ bw[k].status = "active" <=> bw[k].contract \in {"pending", "active"}
                      /\ bw[k].status = "pending" <=> bw[k].period = "none"
                      /\ bw[k].contract = "active" => bw[k].period = "over"
                      /\ bw[k].period = "over" /\ bw[k].status # "cancelled" =>
                           \A j \in 1 .. k - 1 : bw[j].period # "running"
    BY DEF InOrder
  <2>1. CASE k < i /\ bw[k] = aw[k] /\ aw[k].status \notin Live
    <3>1. \A j \in 1 .. k - 1 : j \in 1 .. Len(aw) /\ j < i
      BY <1>1, <2>1
    <3>2. \A j \in 1 .. k - 1 : bw[j] = aw[j]
      BY <1>1, <3>1
    <3> QED BY <1>1, <2>1, <3>2 DEF InOrder
  <2>2. CASE /\ bw[k].status = "cancelled" /\ bw[k].period = "over"
             /\ bw[k].contract \in {"none", "cancelled"}
    BY <2>2 DEF Live
  <2> QED BY <1>1, <1>2, <2>1, <2>2
<1>4. BestFirst(bw, bid, u)
  BY <1>1, <1>2 DEF BestFirst, Live
<1>5. ~ SignedIn(bw)
  <2> SUFFICES ASSUME NEW k \in 1 .. Len(aw), bw[k].contract = "active" PROVE FALSE
    BY <1>1 DEF SignedIn
  <2>1. k < i /\ aw[k].contract = "active" /\ aw[k].status \notin Live
    BY <1>2
  <2> QED BY <2>1 DEF InOrder, Live
<1> QED BY <1>3, <1>4, <1>5

\* The first stand-still that runs is over.
LEMMA StandStillEnded ==
  ASSUME NEW aw \in Seq(KeptAward), NEW bid, NEW u, InOrder(aw), BestFirst(aw, bid, u),
         NEW i \in 1 .. Len(aw), aw[i].period = "running",
         \A j \in 1 .. i - 1 : aw[j].period # "running"
  PROVE  LET bw == [aw EXCEPT ![i] = [aw[i] EXCEPT !.period = "over"]] IN
         /\ bw \in Seq(KeptAward) /\ InOrder(bw) /\ BestFirst(bw, bid, u)
         /\ ~ SignedIn(bw) /\ ~ SignedIn(aw)
         /\ Disputed(bw) <=> Disputed(aw)
         /\ \A S : LastIs(bw, S) <=> LastIs(aw, S)
         /\ bw # << >>
<1> DEFINE a == [aw[i] EXCEPT !.period = "over"]
           bw == [aw EXCEPT ![i] = a]
<1>1. /\ a \in KeptAward /\ a.period = "over" /\ a.bid = aw[i].bid /\ a.status = aw[i].status
      /\ a.claim = aw[i].claim /\ a.contract = aw[i].contract
  <2>1. aw[i] \in KeptAward
    BY ElementOfSeq
  <2> QED BY <2>1 DEF KeptAward
<1> HIDE DEF a
<1>2. /\ bw \in Seq(KeptAward) /\ Len(bw) = Len(aw) /\ bw[i] = a
      /\ \A j \in 1 .. Len(aw) : j # i => bw[j] = aw[j]
  BY <1>1, AwardReplaced
<1> HIDE DEF bw
<1>3. Len(aw) \in Nat
  BY LenProperties
<1>4. ASSUME NEW j \in 1 .. Len(aw)
      PROVE  /\ bw[j].bid = aw[j].bid /\ bw[j].status = aw[j].status
             /\ bw[j].claim = aw[j].claim /\ bw[j].contract = aw[j].contract
             /\ bw[j].period = IF j = i THEN "over" ELSE aw[j].period
  BY <1>1, <1>2
<1>5. ~ SignedIn(aw)
  <2> SUFFICES ASSUME NEW j \in 1 .. Len(aw), aw[j].contract = "active" PROVE FALSE
    BY DEF SignedIn
  <2>1. aw[j].status = "active" /\ j = Len(aw) /\ aw[j].period = "over"
    BY DEF InOrder, Live
  <2>2. i \in 1 .. j - 1
    BY <1>3, <2>1
  <2> QED BY <2>1, <2>2 DEF InOrder
<1>6. InOrder(bw)
  <2> SUFFICES ASSUME NEW k \in 1 .. Len(aw)
               PROVE  /\ bw[k].status \in Live => k = Len(aw)
                      /\ bw[k].status = "active" <=> bw[k].contract \in {"pending", "active"}
                      /\ bw[k].status = "pending" <=> bw[k].period = "none"
                      /\ bw[k].contract = "active" => bw[k].period = "over"
                      /\ bw[k].period = "over" /\ bw[k].status # "cancelled" =>
                           \A j \in 1 .. k - 1 : bw[j].period # "running"
    BY <1>2 DEF InOrder
  <2>1. \A j \in 1 .. k - 1 : j \in 1 .. Len(aw)
    BY <1>3
  <2>2. CASE k = i
    BY <1>4, <2>1, <2>2 DEF InOrder
  <2>3. CASE k # i
    BY <1>4, <2>1, <2>3 DEF InOrder
  <2> QED BY <2>2, <2>3
<1>7. Rejected(bw) = Rejected(aw)
  BY <1>2, <1>4 DEF Rejected
<1>8. BestFirst(bw, bid, u)
  BY <1>2, <1>4, <1>7 DEF BestFirst
<1>9. ~ SignedIn(bw) /\ (Disputed(bw) <=> Disputed(aw))
  BY <1>2, <1>4, <1>5 DEF SignedIn, Disputed
<1>10. aw # << >> /\ bw # << >> /\ Len(aw) \in 1 .. Len(aw)
  BY <1>2, <1>3, EmptySeq
<1>11. \A S : LastIs(bw, S) <=> LastIs(aw, S)
  BY <1>2, <1>4, <1>10 DEF LastIs
<1> QED BY <1>2, <1>5, <1>6, <1>8, <1>9, <1>10, <1>11 DEF bw, a

\* The contract of the winner is signed.
LEMMA ContractSigned ==
  ASSUME NEW aw \in Seq(KeptAward), NEW bid, NEW u, InOrder(aw), BestFirst(aw, bid, u),
         NEW i \in 1 .. Len(aw), aw[i].contract = "pending", aw[i].period # "running"
  PROVE  LET bw == [aw EXCEPT ![i] = [aw[i] EXCEPT !.contract = "active"]] IN
         /\ bw \in Seq(KeptAward) /\ InOrder(bw) /\ BestFirst(bw, bid, u)
         /\ HasActiveContract(bw) /\ "running" \notin Periods(bw)
         /\ AwardClaimAnswered(bw) <=> AwardClaimAnswered(aw)
         /\ ~ LastIs(bw, {"pending"}) /\ bw # << >>
<1> DEFINE a == [aw[i] EXCEPT !.contract = "active"]
           bw == [aw EXCEPT ![i] = a]
<1>1. /\ a \in KeptAward /\ a.contract = "active" /\ a.bid = aw[i].bid /\ a.status = aw[i].status
      /\ a.claim = aw[i].claim /\ a.period = aw[i].period /\ aw[i] \in KeptAward
  <2>1. aw[i] \in KeptAward
    BY ElementOfSeq
  <2> QED BY <2>1 DEF KeptAward
<1> HIDE DEF a
<1>2. /\ bw \in Seq(KeptAward) /\ Len(bw) = Len(aw) /\ bw[i] = a
      /\ \A j \in 1 .. Len(aw) : j # i => bw[j] = aw[j]
  BY <1>1, AwardReplaced
<1> HIDE DEF bw
<1>3. Len(aw) \in Nat
  BY LenProperties
<1>4. ASSUME NEW j \in 1 .. Len(aw)
      PROVE  /\ bw[j].bid = aw[j].bid /\ bw[j].status = aw[j].status
             /\ bw[j].claim = aw[j].claim /\ bw[j].period = aw[j].period
             /\ bw[j].contract = IF j = i THEN "active" ELSE aw[j].contract
  BY <1>1, <1>2
<1>5. aw[i].status = "active" /\ i = Len(aw) /\ aw[i].period = "over"
  BY <1>1, AwardParts DEF InOrder, Live
<1>6. InOrder(bw)
  <2> SUFFICES ASSUME NEW k \in 1 .. Len(aw)
               PROVE  /\ bw[k].status \in Live => k = Len(aw)
                      /\ bw[k].status = "active" <=> bw[k].contract \in {"pending", "active"}
                      /\ bw[k].status = "pending" <=> bw[k].period = "none"
                      /\ bw[k].contract = "active" => bw[k].period = "over"
                      /\ bw[k].period = "over" /\ bw[k].status # "cancelled" =>
                           \A j \in 1 .. k - 1 : bw[j].period # "running"
    BY <1>2 DEF InOrder
  <2>1. \A j \in 1 .. k - 1 : j \in 1 .. Len(aw)
    BY <1>3
  <2> QED BY <1>4, <1>5, <2>1 DEF InOrder
<1>7. Rejected(bw) = Rejected(aw) /\ Periods(bw) = Periods(aw)
  BY <1>2, <1>4 DEF Rejected, Periods
<1>8. BestFirst(bw, bid, u)
  BY <1>2, <1>4, <1>7 DEF BestFirst
<1>9. bw # << >> /\ bw[Len(bw)].status = "active" /\ bw[Len(bw)].contract = "active"
  BY <1>2, <1>3, <1>4, <1>5, EmptySeq
<1>10. HasActiveContract(bw) /\ ~ LastIs(bw, {"pending"})
  BY <1>9 DEF HasActiveContract, LastIs
<1>11. "running" \notin Periods(aw)
  <2> SUFFICES ASSUME NEW j \in 1 .. Len(aw), aw[j].period = "running" PROVE FALSE
    BY DEF Periods
  <2>1. j \in 1 .. i - 1
    BY <1>3, <1>5
  <2> QED BY <1>5, <2>1 DEF InOrder
<1>12. AwardClaimAnswered(bw) <=> AwardClaimAnswered(aw)
  BY <1>2, <1>4 DEF AwardClaimAnswered
<1> QED BY <1>2, <1>6, <1>7, <1>8, <1>9, <1>10, <1>11, <1>12 DEF bw, a

-----------------------------------------------------------------------------
(* The tender with the awards of one unit replaced.                        *)

WithUnit(t, u, bw) == WithAwards(t, [t.awards EXCEPT ![u] = bw])

LEMMA UnitReplaced ==
  ASSUME NEW t, Shape(t), NEW u \in Units, NEW bw \in Seq(KeptAward)
  PROVE  LET s == WithUnit(t, u, bw) IN
         /\ Shape(s) /\ s.status = t.status /\ s.lot = t.lot /\ s.bid = t.bid
         /\ s.auctioned = t.auctioned /\ s.claims = t.claims
         /\ s.cancellations = t.cancellations
         /\ s.awards[u] = bw /\ \A v \in Units : v # u => s.awards[v] = t.awards[v]
         /\ Open(s) = Open(t) /\ \A v : BidsOn(s, v) = BidsOn(t, v) /\ Outcome(s, v) = Outcome(t, v)
<1> DEFINE w == [t.awards EXCEPT ![u] = bw]
           s == WithUnit(t, u, bw)
<1>1. t.awards \in [Units -> Seq(KeptAward)]
  BY ShapeParts
<1>2. /\ w \in [Units -> Seq(KeptAward)] /\ w[u] = bw
      /\ \A v \in Units : v # u => w[v] = t.awards[v]
  BY <1>1
<1>3. s = WithAwards(t, w)
  BY DEF WithUnit
<1> HIDE DEF w, s
<1>4. s = [status |-> t.status, lot |-> t.lot, bid |-> t.bid, auctioned |-> t.auctioned,
           awards |-> w, claims |-> t.claims, cancellations |-> t.cancellations]
  BY <1>3, ShapeParts, Rebuilt
<1>5. /\ s.status = t.status /\ s.lot = t.lot /\ s.bid = t.bid /\ s.auctioned = t.auctioned
      /\ s.awards = w /\ s.claims = t.claims /\ s.cancellations = t.cancellations
      /\ Document(s)
  BY <1>4, DocumentMade
<1>6. Shape(s)
  BY <1>2, <1>5, ShapeParts, ShapeMade
<1>7. Open(s) = Open(t) /\ \A v : BidsOn(s, v) = BidsOn(t, v) /\ Outcome(s, v) = Outcome(t, v)
  BY <1>5 DEF Open, BidsOn, Outcome
<1> QED BY <1>2, <1>5, <1>6, <1>7 DEF s

\* Nothing happens to a unit that has its signature.
SignedKept(t, s) ==
  \A u \in Units : SignedIn(t.awards[u]) =>
    \A i \in 1 .. Len(t.awards[u]) : s.awards[u][i] = t.awards[u][i]

LEMMA OpenIsUnsettled ==
  ASSUME NEW t, Sound(t), t.status \in Awarding, NEW u \in Units, u \in Open(t)
  PROVE  ~ SignedIn(t.awards[u]) /\ Outcome(t, u) \notin {"complete", "unsuccessful"}
<1>1. Outcome(t, u) \notin {"complete", "unsuccessful"}
  BY DEF Outcome, Open, Awarding
<1> QED BY <1>1 DEF Sound, SignedIsComplete

\* What a change of the awards of an open unit leaves sound, whatever it makes
\* of its winner.
LEMMA UnitSteady ==
  ASSUME NEW t, Sound(t), t.status \in Awarding, NEW u \in Units, NEW bw \in Seq(KeptAward),
         InOrder(bw), BestFirst(bw, t.bid, u)
  PROVE  Steady(WithUnit(t, u, bw))
<1> DEFINE s == WithUnit(t, u, bw)
<1>1. Shape(t)
  BY DEF Sound, Steady
<1>2. /\ Shape(s) /\ s.status = t.status /\ s.lot = t.lot /\ s.bid = t.bid
      /\ s.awards[u] = bw /\ \A v \in Units : v # u => s.awards[v] = t.awards[v]
      /\ Open(s) = Open(t) /\ \A v : BidsOn(s, v) = BidsOn(t, v)
  BY <1>1, UnitReplaced
<1> HIDE DEF s
<1>3. AwardsFit(s)
  BY <1>2 DEF AwardsFit, Sound, Steady
<1>4. NoneEarly(s)
  BY <1>2 DEF NoneEarly, Early, Awarding
<1>5. BidsCount(s) /\ WholeOpen(s) /\ SomeOpen(s)
  BY <1>2 DEF Sound, Steady, BidsCount, BidsOpened, WholeOpen, SomeOpen
<1> QED BY <1>2, <1>3, <1>4, <1>5 DEF Steady, s

LEMMA DecisionSound ==
  ASSUME NEW t, Sound(t), t.status \in Awarding, NEW u \in Units, u \in Open(t),
         NEW bw \in Seq(KeptAward), InOrder(bw), BestFirst(bw, t.bid, u), ~ SignedIn(bw)
  PROVE  LET s == AddNextAward(WithUnit(t, u, bw)) IN Sound(s) /\ SignedKept(t, s)
<1> DEFINE r == WithUnit(t, u, bw)
<1>1. Steady(r)
  BY UnitSteady
<1>2. /\ r.status = t.status /\ r.awards[u] = bw
      /\ \A v \in Units : v # u => r.awards[v] = t.awards[v]
      /\ \A v : Outcome(r, v) = Outcome(t, v)
  BY UnitReplaced DEF Sound, Steady
<1>3. ~ SignedIn(t.awards[u]) /\ Outcome(t, u) \notin {"complete", "unsuccessful"}
  BY OpenIsUnsettled
<1> HIDE DEF r
<1>4. SignedIsComplete(r) /\ Undisputed(r)
  BY <1>2, <1>3 DEF Sound, SignedIsComplete, Undisputed
<1>5. /\ Sound(AddNextAward(r))
      /\ \A v \in Units : \A i \in 1 .. Len(r.awards[v]) : AddNextAward(r).awards[v][i] = r.awards[v][i]
  BY <1>1, <1>2, <1>4, AddNextAwardSound
<1>6. SignedKept(t, AddNextAward(r))
  BY <1>2, <1>3, <1>5 DEF SignedKept
<1> QED BY <1>5, <1>6 DEF r

LEMMA SigningSound ==
  ASSUME NEW t, Sound(t), t.status \in Awarding, NEW u \in Units, u \in Open(t),
         NEW i \in 1 .. Len(t.awards[u]), t.awards[u][i].contract = "pending",
         t.awards[u][i].period # "running", ~ ClaimAnswered(t, {None, u}),
         ~ AwardClaimAnswered(t.awards[u])
  PROVE  LET bw == [t.awards[u] EXCEPT ![i] = [t.awards[u][i] EXCEPT !.contract = "active"]]
             s == CheckTenderStatus(WithUnit(t, u, bw))
         IN  Sound(s) /\ SignedKept(t, s)
<1> DEFINE aw == t.awards[u]
           bw == [aw EXCEPT ![i] = [aw[i] EXCEPT !.contract = "active"]]
           r == WithUnit(t, u, bw)
<1>1. aw \in Seq(KeptAward) /\ InOrder(aw) /\ BestFirst(aw, t.bid, u)
  BY AwardsOfUnit DEF Sound, Steady, AwardsFit
<1>2. ~ SignedIn(aw) /\ Outcome(t, u) \notin {"complete", "unsuccessful"}
  BY OpenIsUnsettled
<1> HIDE DEF aw
<1>3. /\ bw \in Seq(KeptAward) /\ InOrder(bw) /\ BestFirst(bw, t.bid, u)
      /\ HasActiveContract(bw) /\ "running" \notin Periods(bw)
      /\ ~ AwardClaimAnswered(bw) /\ ~ LastIs(bw, {"pending"}) /\ bw # << >>
  BY <1>1, ContractSigned DEF aw
<1> HIDE DEF bw
<1>4. Steady(r)
  BY <1>3, UnitSteady
<1>5. /\ r.status = t.status /\ r.claims = t.claims /\ r.awards[u] = bw
      /\ \A v \in Units : v # u => r.awards[v] = t.awards[v]
      /\ Open(r) = Open(t) /\ \A v : Outcome(r, v) = Outcome(t, v)
  BY <1>3, UnitReplaced DEF Sound, Steady
<1> HIDE DEF r
<1>6. Ready(r, u)
  <2>1. ~ ClaimAnswered(r, {None}) /\ ~ ClaimAnswered(r, {u})
    BY <1>5 DEF ClaimAnswered
  <2> QED BY <1>3, <1>5, <2>1 DEF Ready
<1>7. StatusTrue(r) /\ Undisputed(r)
  <2>1. Open(t) \subseteq Units
    BY DEF Open
  <2> QED BY <1>2, <1>3, <1>5, <2>1 DEF StatusTrue, Undisputed, Sound
<1>8. Unsettled(r)
  BY <1>2, <1>4, <1>5, <1>6, <1>7 DEF Unsettled, Sound, SignedIsComplete
<1>9. /\ Sound(CheckTenderStatus(r))
      /\ \A v \in Units : ~ Disputed(r.awards[v])
                            => CheckTenderStatus(r).awards[v] = r.awards[v]
  BY <1>8, CheckTenderStatusSound
<1>10. ASSUME NEW v \in Units, SignedIn(t.awards[v])
       PROVE  CheckTenderStatus(r).awards[v] = t.awards[v]
  <2>1. v # u /\ ~ Disputed(t.awards[v])
    BY <1>2, <1>10, SignedIsQuiet DEF aw
  <2> QED BY <1>5, <1>9, <2>1
<1> QED BY <1>9, <1>10 DEF SignedKept, r, bw, aw

LEMMA SettlingKept ==
  ASSUME NEW t, Sound(t), t.status \in Awarding
  PROVE  Sound(CheckTenderStatus(t)) /\ SignedKept(t, CheckTenderStatus(t))
<1>1. \A u \in Units : SignedIn(t.awards[u]) => CheckTenderStatus(t).awards[u] = t.awards[u]
  BY SoundIsUnsettled, CheckTenderStatusSound, SignedIsQuiet
<1> QED BY <1>1, SoundIsUnsettled, CheckTenderStatusSound DEF SignedKept

LEMMA StandStillSound ==
  ASSUME NEW t, Sound(t), t.status \in Awarding, NEW u \in Units,
         NEW i \in 1 .. Len(t.awards[u]), t.awards[u][i].period = "running",
         \A j \in 1 .. i - 1 : t.awards[u][j].period # "running"
  PROVE  LET bw == [t.awards[u] EXCEPT ![i] = [t.awards[u][i] EXCEPT !.period = "over"]]
             s == WithUnit(t, u, bw)
         IN  Sound(s) /\ SignedKept(t, s)
<1> DEFINE aw == t.awards[u]
           bw == [aw EXCEPT ![i] = [aw[i] EXCEPT !.period = "over"]]
           s == WithUnit(t, u, bw)
<1>1. aw \in Seq(KeptAward) /\ InOrder(aw) /\ BestFirst(aw, t.bid, u)
  BY AwardsOfUnit DEF Sound, Steady, AwardsFit
<1> HIDE DEF aw
<1>2. /\ bw \in Seq(KeptAward) /\ InOrder(bw) /\ BestFirst(bw, t.bid, u)
      /\ ~ SignedIn(bw) /\ ~ SignedIn(aw)
      /\ Disputed(bw) <=> Disputed(aw)
      /\ \A S : LastIs(bw, S) <=> LastIs(aw, S)
      /\ bw # << >>
  BY <1>1, StandStillEnded DEF aw
<1> HIDE DEF bw
<1>3. Steady(s)
  BY <1>2, UnitSteady
<1>4. /\ s.status = t.status /\ s.awards[u] = bw
      /\ \A v \in Units : v # u => s.awards[v] = t.awards[v]
      /\ Open(s) = Open(t) /\ \A v : Outcome(s, v) = Outcome(t, v)
  BY <1>2, UnitReplaced DEF Sound, Steady
<1> HIDE DEF s
<1>5. SignedIsComplete(s) /\ Undisputed(s)
  BY <1>2, <1>4 DEF SignedIsComplete, Undisputed, Sound, aw
<1>6. StatusTrue(s)
  <2>1. Open(t) \subseteq Units
    BY DEF Open
  <2> QED BY <1>2, <1>4, <2>1 DEF StatusTrue, Sound, aw
<1>7. SignedKept(t, s)
  BY <1>2, <1>4 DEF SignedKept, aw
<1> QED BY <1>3, <1>5, <1>6, <1>7 DEF Sound, s, bw, aw

-----------------------------------------------------------------------------
(* Claims.                                                                 *)

\* A claim changes, of the tender or against an award of a unit that goes on.
LEMMA ClaimChangedSound ==
  ASSUME NEW t, Sound(t), NEW s, ClaimsOnly(t, s),
         \A u \in Units : Outcome(t, u) \in {"complete", "unsuccessful"}
                            => s.awards[u] = t.awards[u]
  PROVE  Sound(s) /\ \A u \in Units : SignedIn(t.awards[u]) => s.awards[u] = t.awards[u]
<1>1. Steady(s) /\ SignedIsComplete(s) /\ StatusTrue(s) /\ \A u : Outcome(s, u) = Outcome(t, u)
  BY ClaimsOnlyKeeps DEF Sound
<1>2. Undisputed(s)
  BY <1>1 DEF Undisputed, Sound
<1>3. \A u \in Units : SignedIn(t.awards[u]) => s.awards[u] = t.awards[u]
  BY SignedIsQuiet
<1> QED BY <1>1, <1>2, <1>3 DEF Sound

LEMMA TenderClaimChanged ==
  ASSUME NEW t, Shape(t), NEW x \in ClaimTargets, NEW c \in KeptClaim
  PROVE  LET s == WithClaims(t, [t.claims EXCEPT ![x] = c]) IN
         ClaimsOnly(t, s) /\ s.awards = t.awards
<1> DEFINE f == [t.claims EXCEPT ![x] = c]
           s == WithClaims(t, f)
<1>1. f \in [ClaimTargets -> KeptClaim]
  BY ShapeParts
<1> HIDE DEF f, s
<1>2. s = [status |-> t.status, lot |-> t.lot, bid |-> t.bid, auctioned |-> t.auctioned,
           awards |-> t.awards, claims |-> f, cancellations |-> t.cancellations]
  BY ShapeParts, Rebuilt DEF s
<1>3. /\ s.status = t.status /\ s.lot = t.lot /\ s.bid = t.bid /\ s.auctioned = t.auctioned
      /\ s.awards = t.awards /\ s.claims = f /\ s.cancellations = t.cancellations
      /\ Document(s)
  BY <1>2, DocumentMade
<1>4. Shape(s)
  BY <1>1, <1>3, ShapeParts, ShapeMade
<1>5. ClaimsOnly(t, s)
  BY <1>3, <1>4 DEF ClaimsOnly, SameAwards
<1> QED BY <1>3, <1>5 DEF s, f

WithAwardClaim(t, u, i, c) ==
  WithUnit(t, u, [t.awards[u] EXCEPT ![i] = [t.awards[u][i] EXCEPT !.claim = c]])

LEMMA AwardClaimChanged ==
  ASSUME NEW t, Shape(t), NEW u \in Units, NEW i \in 1 .. Len(t.awards[u]), NEW c \in KeptClaim
  PROVE  LET s == WithAwardClaim(t, u, i, c)
         IN  ClaimsOnly(t, s) /\ \A v \in Units : v # u => s.awards[v] = t.awards[v]
<1> DEFINE aw == t.awards[u]
           a == [aw[i] EXCEPT !.claim = c]
           bw == [aw EXCEPT ![i] = a]
           s == WithUnit(t, u, bw)
<1>1. aw \in Seq(KeptAward) /\ aw[i] \in KeptAward
  BY AwardsOfUnit
<1> HIDE DEF aw
<1>2. /\ a \in KeptAward /\ a.bid = aw[i].bid /\ a.status = aw[i].status
      /\ a.period = aw[i].period /\ a.contract = aw[i].contract
  BY <1>1 DEF KeptAward
<1> HIDE DEF a
<1>3. /\ bw \in Seq(KeptAward) /\ Len(bw) = Len(aw) /\ bw[i] = a
      /\ \A j \in 1 .. Len(aw) : j # i => bw[j] = aw[j]
  BY <1>1, <1>2, AwardReplaced DEF aw
<1> HIDE DEF bw
<1>4. SameAwards(aw, bw)
  BY <1>2, <1>3 DEF SameAwards
<1>5. /\ Shape(s) /\ s.status = t.status /\ s.lot = t.lot /\ s.bid = t.bid /\ s.awards[u] = bw
      /\ \A v \in Units : v # u => s.awards[v] = t.awards[v]
  BY <1>3, UnitReplaced
<1> HIDE DEF s
<1>6. ClaimsOnly(t, s)
  BY <1>4, <1>5 DEF ClaimsOnly, SameAwards, aw
<1> QED BY <1>5, <1>6, Zenon DEF WithAwardClaim, s, bw, a, aw

LEMMA PatchedKept ==
  ASSUME NEW d \in KeptClaim, NEW r \in {"resolved", "declined"}, NEW c \in Patched(d, r)
  PROVE  c \in KeptClaim
BY AnsweredKept, ClosedKept DEF Patched

LEMMA AgedKept ==
  ASSUME NEW c \in KeptClaim
  PROVE  Aged(c) \in KeptClaim /\ (Aged(c) # c => Answered(c))
<1>1. CASE Answered(c)
  <2> DEFINE b == TRUE
             r == c.resolution
             d == c.due
  <2>1. c = [status |-> "answered", resolution |-> r, due |-> d] /\ r \in {"resolved", "declined"}
    BY <1>1, ClaimParts DEF Answered
  <2>2. [c EXCEPT !.due = b] = [status |-> "answered", resolution |-> r, due |-> b]
    <3> HIDE DEF b, r, d
    <3> QED BY <2>1
  <2>3. [status |-> "answered", resolution |-> r, due |-> b] \in KeptClaim
    BY <2>1, AnsweredKept
  <2>4. Aged(c) = [c EXCEPT !.due = b]
    BY <1>1, Zenon DEF Aged
  <2> QED BY <1>1, <2>2, <2>3, <2>4, Zenon
<1>2. CASE ~ Answered(c)
  BY <1>2 DEF Aged
<1> QED BY <1>1, <1>2

\* The patch of a claim, and the settlement it may have been waited for.
LEMMA AfterPatchKept ==
  ASSUME NEW t, NEW s, Sound(s), NEW c,
         \A u \in Units : SignedIn(t.awards[u]) => s.awards[u] = t.awards[u]
  PROVE  Sound(AfterPatch(s, c)) /\ SignedKept(t, AfterPatch(s, c))
<1>1. CASE AfterPatch(s, c) = s
  BY <1>1 DEF SignedKept
<1>2. CASE AfterPatch(s, c) = CheckTenderStatus(s) /\ s.status \in Awarding
  <2>1. Sound(CheckTenderStatus(s)) /\ SignedKept(s, CheckTenderStatus(s))
    BY <1>2, SettlingKept
  <2> QED BY <1>2, <2>1 DEF SignedKept
<1> QED BY <1>1, <1>2 DEF AfterPatch

-----------------------------------------------------------------------------
(* Before the awards: bids, auctions, and the status of the tender.        *)

\* A field that says nothing about awards.
LEMMA CancellationsSound ==
  ASSUME NEW t, Sound(t), NEW v, v \subseteq CancelTargets
  PROVE  LET s == WithCancellations(t, v) IN
         /\ Sound(s) /\ s.awards = t.awards /\ s.status = t.status /\ s.lot = t.lot
         /\ Open(s) = Open(t)
<1> DEFINE s == WithCancellations(t, v)
<1>0. Shape(t)
  BY DEF Sound, Steady
<1>1. s = [status |-> t.status, lot |-> t.lot, bid |-> t.bid, auctioned |-> t.auctioned,
           awards |-> t.awards, claims |-> t.claims, cancellations |-> v]
  BY <1>0, ShapeParts, Rebuilt
<1> HIDE DEF s
<1>2. /\ s.status = t.status /\ s.lot = t.lot /\ s.bid = t.bid /\ s.auctioned = t.auctioned
      /\ s.awards = t.awards /\ s.claims = t.claims /\ s.cancellations = v
      /\ Document(s)
  BY <1>1, DocumentMade
<1>3. Shape(s)
  BY <1>0, <1>2, ShapeParts, ShapeMade
<1>4. Open(s) = Open(t) /\ \A u : BidsOn(s, u) = BidsOn(t, u) /\ Outcome(s, u) = Outcome(t, u)
  BY <1>2 DEF Open, BidsOn, Outcome
<1>5. Steady(s)
  BY <1>2, <1>3, <1>4
  DEF Sound, Steady, AwardsFit, NoneEarly, BidsCount, BidsOpened, WholeOpen, SomeOpen
<1>6. SignedIsComplete(s) /\ Undisputed(s) /\ StatusTrue(s)
  BY <1>2, <1>4 DEF Sound, SignedIsComplete, Undisputed, StatusTrue
<1> QED BY <1>2, <1>4, <1>5, <1>6 DEF Sound, s

LEMMA AuctionedSound ==
  ASSUME NEW t, Sound(t), NEW v, v \subseteq Units
  PROVE  LET s == WithAuctioned(t, v) IN
         Sound(s) /\ s.awards = t.awards /\ s.status = t.status
<1> DEFINE s == WithAuctioned(t, v)
<1>0. Shape(t)
  BY DEF Sound, Steady
<1>1. s = [status |-> t.status, lot |-> t.lot, bid |-> t.bid, auctioned |-> v,
           awards |-> t.awards, claims |-> t.claims, cancellations |-> t.cancellations]
  BY <1>0, ShapeParts, Rebuilt
<1> HIDE DEF s
<1>2. /\ s.status = t.status /\ s.lot = t.lot /\ s.bid = t.bid /\ s.auctioned = v
      /\ s.awards = t.awards /\ s.claims = t.claims /\ s.cancellations = t.cancellations
      /\ Document(s)
  BY <1>1, DocumentMade
<1>3. Shape(s)
  BY <1>0, <1>2, ShapeParts, ShapeMade
<1>4. Open(s) = Open(t) /\ \A u : BidsOn(s, u) = BidsOn(t, u) /\ Outcome(s, u) = Outcome(t, u)
  BY <1>2 DEF Open, BidsOn, Outcome
<1>5. Steady(s)
  BY <1>2, <1>3, <1>4
  DEF Sound, Steady, AwardsFit, NoneEarly, BidsCount, BidsOpened, WholeOpen, SomeOpen
<1>6. SignedIsComplete(s) /\ Undisputed(s) /\ StatusTrue(s)
  BY <1>2, <1>4 DEF Sound, SignedIsComplete, Undisputed, StatusTrue
<1> QED BY <1>2, <1>5, <1>6 DEF Sound, s

\* While bids are made there are no awards they could matter for.
LEMMA BiddingSound ==
  ASSUME NEW t, Sound(t), t.status = "active.tendering", NEW bid \in [Bids -> Bid]
  PROVE  LET s == WithBid(t, bid) IN Sound(s) /\ s.awards = t.awards
<1> DEFINE s == WithBid(t, bid)
<1>0. Shape(t)
  BY DEF Sound, Steady
<1>1. s = [status |-> t.status, lot |-> t.lot, bid |-> bid, auctioned |-> t.auctioned,
           awards |-> t.awards, claims |-> t.claims, cancellations |-> t.cancellations]
  BY <1>0, ShapeParts, Rebuilt
<1> HIDE DEF s
<1>2. /\ s.status = t.status /\ s.lot = t.lot /\ s.bid = bid /\ s.auctioned = t.auctioned
      /\ s.awards = t.awards /\ s.claims = t.claims /\ s.cancellations = t.cancellations
      /\ Document(s)
  BY <1>1, DocumentMade
<1>3. Shape(s)
  BY <1>0, <1>2, ShapeParts, ShapeMade
<1>4. Open(s) = Open(t) /\ \A u : Outcome(s, u) = Outcome(t, u)
  BY <1>2 DEF Open, Outcome
<1>5. Unawarded(t)
  BY DEF Sound, Steady, NoneEarly, Early, Unawarded
<1>6. AwardsFit(s) /\ NoneEarly(s)
  BY <1>2, <1>5, NobodyAwarded DEF AwardsFit, NoneEarly, Unawarded
<1>7. BidsCount(s)
  BY <1>2 DEF BidsCount, Awarding
<1>8. Steady(s)
  BY <1>2, <1>3, <1>4, <1>6, <1>7 DEF Sound, Steady, WholeOpen, SomeOpen
<1>9. SignedIsComplete(s) /\ Undisputed(s) /\ StatusTrue(s)
  BY <1>2, <1>4 DEF Sound, SignedIsComplete, Undisputed, StatusTrue
<1> QED BY <1>2, <1>8, <1>9 DEF Sound, s

LEMMA PublishSound ==
  ASSUME NEW t, Sound(t), t.status = "draft"
  PROVE  LET s == WithStatus(t, "active.enquiries") IN Sound(s) /\ s.awards = t.awards
<1> DEFINE s == WithStatus(t, "active.enquiries")
<1>0. Shape(t)
  BY DEF Sound, Steady
<1>1. s = [status |-> "active.enquiries", lot |-> t.lot, bid |-> t.bid,
           auctioned |-> t.auctioned, awards |-> t.awards, claims |-> t.claims,
           cancellations |-> t.cancellations]
  BY <1>0, ShapeParts, Rebuilt
<1> HIDE DEF s
<1>2. /\ s.status = "active.enquiries" /\ s.lot = t.lot /\ s.bid = t.bid
      /\ s.auctioned = t.auctioned /\ s.awards = t.awards /\ s.claims = t.claims
      /\ s.cancellations = t.cancellations /\ Document(s)
  BY <1>1, DocumentMade
<1>3. Shape(s)
  <2>1. "active.enquiries" \in {"draft"} \cup Active \cup Terminal
    BY DEF Active
  <2> QED BY <1>0, <1>2, <2>1, ShapeParts, ShapeMade
<1>4. Open(s) = Open(t) /\ \A u : BidsOn(s, u) = BidsOn(t, u)
  BY <1>2 DEF Open, BidsOn
<1>5. Steady(s)
  BY <1>2, <1>3, <1>4
  DEF Sound, Steady, AwardsFit, NoneEarly, Early, BidsCount, Awarding, WholeOpen, SomeOpen,
      Terminal
<1>6. SignedIsComplete(s) /\ Undisputed(s) /\ StatusTrue(s)
  BY <1>2 DEF Sound, SignedIsComplete, Undisputed, StatusTrue, Outcome, Awarding
<1> QED BY <1>2, <1>5, <1>6 DEF Sound, s

-----------------------------------------------------------------------------
(* Cancellations.                                                          *)

\* A tender that is cancelled keeps its lots, awards and claims as they are.
LEMMA CancelTenderSound ==
  ASSUME NEW t, Shape(t), AwardsFit(t), WholeOpen(t),
         \A u \in Units : SignedIn(t.awards[u]) <=> HasLots /\ t.lot[u] = "complete",
         \A u \in Units : HasLots /\ t.lot[u] \in {"complete", "unsuccessful"}
                            => ~ Disputed(t.awards[u]),
         t.status = "active.tendering" => Unawarded(t)
  PROVE  Sound(CancelTender(t)) /\ CancelTender(t).awards = t.awards
<1> DEFINE none == [b \in Bids |-> [status |-> "absent", lots |-> {}]]
           bid == IF t.status = "active.tendering" THEN none ELSE t.bid
           r == WithStatus(t, "cancelled")
           s == CancelTender(t)
<1>1. s = WithBid(r, bid)
  BY Zenon DEF CancelTender, WithStatus, WithBid
<1>2. bid \in [Bids -> Bid]
  <2>1. [status |-> "absent", lots |-> {}] \in Bid
    BY DEF Bid
  <2> QED BY <2>1, ShapeParts
<1>3. t.status # "active.tendering" => bid = t.bid
  OBVIOUS
<1> HIDE DEF bid, r, s
<1>4. r = [status |-> "cancelled", lot |-> t.lot, bid |-> t.bid, auctioned |-> t.auctioned,
           awards |-> t.awards, claims |-> t.claims, cancellations |-> t.cancellations]
  BY ShapeParts, Rebuilt DEF r
<1>5. Document(r)
  BY <1>4, DocumentMade
<1>6. s = [status |-> "cancelled", lot |-> t.lot, bid |-> bid, auctioned |-> t.auctioned,
           awards |-> t.awards, claims |-> t.claims, cancellations |-> t.cancellations]
  BY <1>1, <1>4, <1>5, Rebuilt
<1>7. /\ s.status = "cancelled" /\ s.lot = t.lot /\ s.bid = bid
      /\ s.auctioned = t.auctioned /\ s.awards = t.awards /\ s.claims = t.claims
      /\ s.cancellations = t.cancellations /\ Document(s)
  BY <1>6, DocumentMade
<1>8. Shape(s)
  <2>1. "cancelled" \in {"draft"} \cup Active \cup Terminal
    BY DEF Terminal
  <2> QED BY <1>2, <1>7, <2>1, ShapeParts, ShapeMade
<1>9. AwardsFit(s)
  <2>1. CASE t.status = "active.tendering"
    BY <1>7, <2>1, NobodyAwarded DEF AwardsFit, Unawarded
  <2>2. CASE t.status # "active.tendering"
    BY <1>3, <1>7, <2>2 DEF AwardsFit
  <2> QED BY <2>1, <2>2
<1>10. Steady(s)
  BY <1>7, <1>8, <1>9
  DEF Steady, NoneEarly, Early, BidsCount, Awarding, WholeOpen, SomeOpen, Terminal
<1>11. SignedIsComplete(s) /\ Undisputed(s) /\ StatusTrue(s)
  BY <1>7 DEF SignedIsComplete, Undisputed, Outcome, StatusTrue, Awarding
<1> QED BY <1>7, <1>10, <1>11 DEF Sound, s

\* What CancelTender asks for, of a tender that has not ended.
LEMMA OutcomesOfGoing ==
  ASSUME NEW t, Sound(t), t.status \notin Terminal
  PROVE  /\ \A u \in Units : SignedIn(t.awards[u]) <=> HasLots /\ t.lot[u] = "complete"
         /\ \A u \in Units : HasLots /\ t.lot[u] \in {"complete", "unsuccessful"}
                               => ~ Disputed(t.awards[u])
         /\ t.status = "active.tendering" => Unawarded(t)
<1>1. t.status \notin {"complete", "unsuccessful"}
  BY DEF Terminal
<1>2. t.status = "active.tendering" => Unawarded(t)
  BY DEF Sound, Steady, NoneEarly, Early, Unawarded
<1> QED BY <1>1, <1>2 DEF Sound, SignedIsComplete, Undisputed, Outcome

\* A lot is cancelled, and with the last one the tender.
LEMMA CancelLotSound ==
  ASSUME NEW t, Sound(t), t.status \notin Terminal, HasLots, NEW x \in Open(t)
  PROVE  Sound(CancelLot(t, x)) /\ CancelLot(t, x).awards = t.awards
<1> DEFINE lot == [t.lot EXCEPT ![x] = "cancelled"]
           s == WithLot(t, lot)
           status == FromLots(s, LotStatuses(s.lot))
           r == WithStatus(s, status)
<1>0. Shape(t) /\ x \in Units /\ t.lot[x] = "active"
  BY DEF Sound, Steady, Open
<1>1. /\ lot \in [Units -> LotState] /\ lot[x] = "cancelled"
      /\ \A u \in Units : u # x => lot[u] = t.lot[u]
  <2>1. "cancelled" \in LotState
    BY DEF LotState, Terminal
  <2> QED BY <1>0, <2>1, ShapeParts
<1>2. CancelLot(t, x) = IF LotStatuses(s.lot) = {"cancelled"} THEN CancelTender(s) ELSE r
  BY Zenon DEF CancelLot, WithLot, WithStatus
<1> HIDE DEF lot, s
<1>3. s = [status |-> t.status, lot |-> lot, bid |-> t.bid, auctioned |-> t.auctioned,
           awards |-> t.awards, claims |-> t.claims, cancellations |-> t.cancellations]
  BY <1>0, ShapeParts, Rebuilt DEF s
<1>4. /\ s.status = t.status /\ s.lot = lot /\ s.bid = t.bid /\ s.auctioned = t.auctioned
      /\ s.awards = t.awards /\ s.claims = t.claims /\ s.cancellations = t.cancellations
      /\ Document(s)
  BY <1>3, DocumentMade
<1>5. Shape(s)
  BY <1>0, <1>1, <1>4, ShapeParts, ShapeMade
<1>6. AwardsFit(s) /\ WholeOpen(s) /\ (s.status = "active.tendering" => Unawarded(s))
  BY <1>4, OutcomesOfGoing DEF Sound, Steady, AwardsFit, WholeOpen, Unawarded
<1>7. /\ \A u \in Units : SignedIn(s.awards[u]) <=> s.lot[u] = "complete"
      /\ \A u \in Units : s.lot[u] \in {"complete", "unsuccessful"} => ~ Disputed(s.awards[u])
  BY <1>0, <1>1, <1>4, OutcomesOfGoing
<1>8. CASE LotStatuses(s.lot) = {"cancelled"}
  <2>1. Sound(CancelTender(s)) /\ CancelTender(s).awards = s.awards
    BY <1>5, <1>6, <1>7, CancelTenderSound
  <2> QED BY <1>2, <1>4, <1>8, <2>1
<1>9. CASE LotStatuses(s.lot) # {"cancelled"}
  <2>1. /\ status \in Terminal \/ status = t.status
        /\ status \notin Terminal => \E u \in Units : lot[u] = "active"
    BY <1>1, <1>4, FromLotsEnds
  <2> HIDE DEF status, r
  <2>2. r = [status |-> status, lot |-> lot, bid |-> t.bid, auctioned |-> t.auctioned,
             awards |-> t.awards, claims |-> t.claims, cancellations |-> t.cancellations]
    BY <1>4, Rebuilt DEF r
  <2>3. /\ r.status = status /\ r.lot = lot /\ r.bid = t.bid /\ r.auctioned = t.auctioned
        /\ r.awards = t.awards /\ r.claims = t.claims /\ r.cancellations = t.cancellations
        /\ Document(r)
    BY <2>2, DocumentMade
  <2>4. Shape(r)
    <3>1. status \in {"draft"} \cup Active \cup Terminal
      BY <1>0, <2>1, ShapeParts
    <3> QED BY <1>1, <1>4, <1>5, <2>3, <3>1, ShapeParts, ShapeMade
  <2>5. Open(r) \subseteq Open(t) /\ \A u : BidsOn(r, u) = BidsOn(t, u)
    BY <1>1, <2>3 DEF Open, BidsOn
  <2>6. AwardsFit(r) /\ WholeOpen(r)
    BY <2>3 DEF Sound, Steady, AwardsFit, WholeOpen
  <2>7. NoneEarly(r)
    <3>1. r.status \in Early => r.status = t.status
      BY <2>1, <2>3 DEF Early, Terminal
    <3> QED BY <2>3, <3>1 DEF Sound, Steady, NoneEarly
  <2>8. r.status \in {"active.auction"} \cup Awarding => r.status = t.status
    BY <2>1, <2>3 DEF Awarding, Terminal
  <2>9. BidsCount(r)
    BY <2>3, <2>5, <2>8 DEF Sound, Steady, BidsCount, BidsOpened
  <2>10. SomeOpen(r)
    BY <2>1, <2>3 DEF SomeOpen, Open
  <2>11. Steady(r)
    BY <2>4, <2>6, <2>7, <2>9, <2>10 DEF Steady
  <2>12. SignedIsComplete(r) /\ Undisputed(r)
    BY <1>4, <1>7, <2>3 DEF SignedIsComplete, Undisputed, Outcome
  <2>13. StatusTrue(r)
    BY <2>3, <2>5, <2>8 DEF Sound, StatusTrue, Awarding
  <2>14. Sound(r)
    BY <2>11, <2>12, <2>13 DEF Sound
  <2> QED BY <1>2, <1>9, <2>3, <2>14 DEF r, status
<1> QED BY <1>8, <1>9

-----------------------------------------------------------------------------
(* The requests.                                                           *)

\* The changes of one award, as changes of the awards of its unit.
Decided(a, status, contract) ==
  [a EXCEPT !.status = status, !.period = "running", !.contract = contract]

\* The step leaves a sound tender, and its signed contracts alone.
Keeps == Sound(tender') /\ SignedKept(tender, tender')

LEMMA KeptWhenAwardsAre ==
  ASSUME Sound(tender'), tender'.awards = tender.awards
  PROVE  Keeps
BY DEF Keeps, SignedKept

LEMMA EarlyRequests ==
  ASSUME Sound(tender),
         \/ Publish
         \/ \E b \in Bids : PostBid(b) \/ PatchBid(b) \/ DeleteBid(b)
  PROVE  Keeps
<1>1. CASE Publish
  <2>1. tender' = WithStatus(tender, "active.enquiries") /\ tender.status = "draft"
    BY <1>1 DEF Publish, Save, WithStatus
  <2> QED BY <2>1, PublishSound, KeptWhenAwardsAre
<1>2. ASSUME NEW b \in Bids, PostBid(b) \/ PatchBid(b) \/ DeleteBid(b)
      PROVE  Keeps
  <2>1. Shape(tender) /\ tender.status = "active.tendering"
    BY <1>2 DEF Sound, Steady, PostBid, PatchBid, DeleteBid, InTendering
  <2>2. PICK d \in Bid : tender' = [tender EXCEPT !.bid[b] = d]
    <3>1. tender.bid[b] \in Bid
      BY <2>1, ShapeParts
    <3>2. CASE PostBid(b) \/ PatchBid(b)
      <4>1. PICK s \in {"absent", "draft", "active"}, lots \in SUBSET Units \ {{}} :
              tender' = [tender EXCEPT !.bid[b] = [status |-> s, lots |-> lots]]
        BY <3>1, <3>2 DEF PostBid, PatchBid, Save, Bid
      <4> DEFINE d == [status |-> s, lots |-> lots]
      <4>2. d \in Bid
        BY DEF Bid
      <4> HIDE DEF d
      <4> QED BY <4>1, <4>2 DEF d
    <3>3. CASE DeleteBid(b)
      <4> DEFINE d == [status |-> "absent", lots |-> {}]
      <4>1. d \in Bid
        BY DEF Bid
      <4>2. tender' = [tender EXCEPT !.bid[b] = d]
        BY <3>3 DEF DeleteBid, Save
      <4> HIDE DEF d
      <4> QED BY <4>1, <4>2
    <3> QED BY <1>2, <3>2, <3>3
  <2> DEFINE bid == [tender.bid EXCEPT ![b] = d]
  <2>3. tender' = WithBid(tender, bid)
    BY <2>2, Zenon DEF WithBid
  <2>4. bid \in [Bids -> Bid]
    BY <2>1, ShapeParts
  <2> HIDE DEF bid
  <2> QED BY <2>1, <2>3, <2>4, BiddingSound, KeptWhenAwardsAre
<1> QED BY <1>1, <1>2

LEMMA AuctionReported ==
  ASSUME Sound(tender), NEW u \in Units, PostAuction(u)
  PROVE  Keeps
<1> DEFINE v == tender.auctioned \cup {u}
           t == WithAuctioned(tender, v)
<1>1. t = [tender EXCEPT !.auctioned = @ \cup {u}]
  BY Zenon DEF WithAuctioned
<1> HIDE DEF t
<1>2. tender.status = "active.auction" /\ (tender' = AddNextAward(t) \/ tender' = t)
  BY <1>1 DEF PostAuction, Save
<1>3. v \subseteq Units
  BY ShapeParts DEF Sound, Steady
<1> HIDE DEF v
<1>4. Sound(t) /\ t.awards = tender.awards /\ t.status = tender.status
  BY <1>3, AuctionedSound DEF t
<1>5. /\ Sound(AddNextAward(t))
      /\ \A w \in Units : \A i \in 1 .. Len(t.awards[w]) :
           AddNextAward(t).awards[w][i] = t.awards[w][i]
  BY <1>2, <1>4, AddNextAwardSound DEF Sound
<1> QED BY <1>2, <1>4, <1>5 DEF Keeps, SignedKept

LEMMA AwardsDecided ==
  ASSUME Sound(tender), NEW u \in Units, NEW i,
         ActivateAward(u, i) \/ RejectAward(u, i) \/ CancelAward(u, i) \/ CancelRejectedAward(u, i)
  PROVE  Keeps
<1> DEFINE aw == tender.awards[u]
<1>1. /\ tender.status \in Awarding /\ u \in Open(tender) /\ i \in 1 .. Len(aw)
      /\ aw \in Seq(KeptAward) /\ InOrder(aw) /\ BestFirst(aw, tender.bid, u) /\ ~ SignedIn(aw)
  <2>1. tender.status \in Awarding /\ u \in Open(tender) /\ i \in 1 .. Len(aw)
    BY DEF ActivateAward, RejectAward, CancelAward, CancelRejectedAward, AwardAt
  <2>2. aw \in Seq(KeptAward) /\ InOrder(aw) /\ BestFirst(aw, tender.bid, u)
    BY AwardsOfUnit DEF Sound, Steady, AwardsFit
  <2> QED BY <2>1, <2>2, OpenIsUnsettled
<1>2. aw[i] \in KeptAward
  BY <1>1, AwardsOfUnit DEF Sound, Steady
<1>3. PICK bw \in Seq(KeptAward) :
        /\ tender' = AddNextAward(WithUnit(tender, u, bw))
        /\ InOrder(bw) /\ BestFirst(bw, tender.bid, u) /\ ~ SignedIn(bw)
  <2>1. CASE ActivateAward(u, i)
    <3> DEFINE a == Decided(aw[i], "active", "pending")
               bw == [aw EXCEPT ![i] = a]
    <3>1. aw[i].status = "pending" /\ tender' = AddNextAward(WithUnit(tender, u, bw))
      BY <2>1, Zenon DEF ActivateAward, Save, WithUnit, WithAwards, Decided
    <3>2. /\ a \in KeptAward /\ a.bid = aw[i].bid /\ a.period = "running"
          /\ a.status = "active" /\ a.contract = "pending"
      BY <1>2 DEF Decided, KeptAward
    <3> HIDE DEF a
    <3>3. bw \in Seq(KeptAward) /\ InOrder(bw) /\ BestFirst(bw, tender.bid, u) /\ ~ SignedIn(bw)
      BY <1>1, <3>1, <3>2, AwardDecided
    <3> QED BY <3>1, <3>3
  <2>2. CASE RejectAward(u, i)
    <3> DEFINE a == [aw[i] EXCEPT !.status = "unsuccessful", !.period = "running"]
               bw == [aw EXCEPT ![i] = a]
    <3>1. aw[i].status = "pending" /\ tender' = AddNextAward(WithUnit(tender, u, bw))
      BY <2>2, Zenon DEF RejectAward, Save, WithUnit, WithAwards
    <3>2. /\ a \in KeptAward /\ a.bid = aw[i].bid /\ a.period = "running"
          /\ a.status = "unsuccessful" /\ a.contract = aw[i].contract
      BY <1>2 DEF KeptAward
    <3>3. a.contract \notin {"pending", "active"}
      BY <1>1, <3>1, <3>2 DEF InOrder
    <3> HIDE DEF a
    <3>4. bw \in Seq(KeptAward) /\ InOrder(bw) /\ BestFirst(bw, tender.bid, u) /\ ~ SignedIn(bw)
      BY <1>1, <3>1, <3>2, <3>3, AwardDecided
    <3> QED BY <3>1, <3>4
  <2>3. CASE CancelAward(u, i)
    <3> DEFINE a == CancelledAward(aw[i])
               bw == [aw EXCEPT ![i] = a]
    <3>1. aw[i].status = "active" /\ tender' = AddNextAward(WithUnit(tender, u, bw))
      BY <2>3, Zenon DEF CancelAward, Save, WithUnit, WithAwards
    <3>2. a \in KeptAward
      BY <1>2, CancelledAwardKept
    <3>3. /\ bw \in Seq(KeptAward) /\ Len(bw) = Len(aw) /\ bw[i] = a
          /\ \A j \in 1 .. Len(aw) : j # i => bw[j] = aw[j]
      <4> HIDE DEF a, aw
      <4> QED BY <1>1, <3>2, AwardReplaced
    <3>4. CancelledFrom(aw, bw, i)
      <4>1. i = Len(aw) /\ Len(aw) \in Nat
        BY <1>1, <3>1, LenProperties DEF InOrder, Live
      <4> HIDE DEF bw
      <4>2. \A j \in 1 .. Len(aw) : j < i <=> j # i
        BY <4>1
      <4> QED BY <1>1, <3>3, <4>1, <4>2 DEF CancelledFrom
    <3> HIDE DEF aw, bw
    <3>5. InOrder(bw) /\ BestFirst(bw, tender.bid, u) /\ ~ SignedIn(bw)
      BY <1>1, <3>3, <3>4, AwardsCancelled
    <3> QED BY <3>1, <3>3, <3>5 DEF aw, bw
  <2>4. CASE CancelRejectedAward(u, i)
    <3> DEFINE bw == [j \in DOMAIN aw |-> IF j < i THEN aw[j] ELSE CancelledAward(aw[j])]
    <3>1. tender' = AddNextAward(WithUnit(tender, u, bw))
      <4>1. [tender EXCEPT !.awards[u] =
               [j \in DOMAIN @ |-> IF j < i THEN @[j] ELSE CancelledAward(@[j])]]
              = WithUnit(tender, u, bw)
        BY Zenon DEF WithUnit, WithAwards
      <4> HIDE DEF bw
      <4> QED BY <2>4, <4>1 DEF CancelRejectedAward, Save
    <3>2. DOMAIN aw = 1 .. Len(aw) /\ Len(aw) \in Nat
      BY <1>1, LenProperties
    <3>3. \A j \in 1 .. Len(aw) : aw[j] \in KeptAward /\ CancelledAward(aw[j]) \in KeptAward
      BY <1>1, ElementOfSeq, CancelledAwardKept
    <3>4. bw \in [1 .. Len(aw) -> KeptAward]
      BY <3>2, <3>3
    <3>5. bw \in Seq(KeptAward) /\ Len(bw) = Len(aw)
      <4> HIDE DEF bw
      <4> QED BY <3>2, <3>4
    <3>6. CancelledFrom(aw, bw, i)
      BY <3>2, <3>5 DEF CancelledFrom
    <3> HIDE DEF aw, bw
    <3>7. InOrder(bw) /\ BestFirst(bw, tender.bid, u) /\ ~ SignedIn(bw)
      BY <1>1, <3>5, <3>6, AwardsCancelled
    <3> QED BY <3>1, <3>5, <3>7 DEF aw, bw
  <2> QED BY <2>1, <2>2, <2>3, <2>4
<1> QED BY <1>1, <1>3, DecisionSound DEF Keeps

LEMMA ContractsChanged ==
  ASSUME Sound(tender), NEW u \in Units, NEW i, SignContract(u, i) \/ PatchContract(u, i)
  PROVE  Keeps
<1>1. CASE SignContract(u, i)
  <2> DEFINE bw == [tender.awards[u] EXCEPT ![i] = [tender.awards[u][i] EXCEPT !.contract = "active"]]
  <2>1. tender' = CheckTenderStatus(WithUnit(tender, u, bw))
    BY <1>1, Zenon DEF SignContract, Save, WithUnit, WithAwards
  <2>2. /\ tender.status \in Awarding /\ u \in Open(tender) /\ i \in 1 .. Len(tender.awards[u])
        /\ tender.awards[u][i].contract = "pending" /\ tender.awards[u][i].period # "running"
        /\ ~ ClaimAnswered(tender, {None, u}) /\ ~ AwardClaimAnswered(tender.awards[u])
    BY <1>1, Zenon DEF SignContract, AwardAt, MaySign
  <2> QED BY <2>1, <2>2, SigningSound DEF Keeps
<1>2. CASE PatchContract(u, i)
  <2>1. tender' = CheckTenderStatus(tender) /\ tender.status \in Awarding
    BY <1>2 DEF PatchContract, AwardAt, Save
  <2> QED BY <2>1, SettlingKept DEF Keeps
<1> QED BY <1>1, <1>2

LEMMA StandStillsEnd ==
  ASSUME Sound(tender), NEW u \in Units, StandStillEnds(u)
  PROVE  Keeps
<1>1. tender.status \in Awarding
  BY DEF StandStillEnds
<1>2. PICK i \in 1 .. Len(tender.awards[u]) :
        /\ tender.awards[u][i].period = "running"
        /\ \A j \in 1 .. i - 1 : tender.awards[u][j].period # "running"
        /\ Save([tender EXCEPT !.awards[u][i].period = "over"])
  BY DEF StandStillEnds
<1> DEFINE bw == [tender.awards[u] EXCEPT ![i] = [tender.awards[u][i] EXCEPT !.period = "over"]]
<1>3. tender' = WithUnit(tender, u, bw)
  BY <1>2, Zenon DEF Save, WithUnit, WithAwards
<1> QED BY <1>1, <1>2, <1>3, StandStillSound DEF Keeps

\* One claim is replaced: of the tender, or against an award that may yet settle.
LEMMA TenderClaimKept ==
  ASSUME NEW t, Sound(t), NEW x \in ClaimTargets, NEW c \in KeptClaim, NEW s,
         s = [t EXCEPT !.claims[x] = c]
  PROVE  Sound(s) /\ s.awards = t.awards
<1>1. s = WithClaims(t, [t.claims EXCEPT ![x] = c])
  BY Zenon DEF WithClaims
<1>2. Shape(t)
  BY DEF Sound, Steady
<1>3. ClaimsOnly(t, s) /\ s.awards = t.awards
  BY <1>1, <1>2, TenderClaimChanged
<1> QED BY <1>3, ClaimChangedSound

LEMMA AwardClaimKept ==
  ASSUME NEW t, Sound(t), NEW u \in Units, NEW i \in 1 .. Len(t.awards[u]),
         NEW c \in KeptClaim, NEW s, s = WithAwardClaim(t, u, i, c),
         Outcome(t, u) \notin {"complete", "unsuccessful"}
  PROVE  Sound(s) /\ \A v \in Units : SignedIn(t.awards[v]) => s.awards[v] = t.awards[v]
<1>2. Shape(t)
  BY DEF Sound, Steady
<1>3. ClaimsOnly(t, s) /\ \A v \in Units : v # u => s.awards[v] = t.awards[v]
  BY <1>2, AwardClaimChanged
<1>4. \A v \in Units : Outcome(t, v) \in {"complete", "unsuccessful"}
                         => s.awards[v] = t.awards[v]
  BY <1>3
<1> QED BY <1>3, <1>4, ClaimChangedSound

LEMMA TenderClaims ==
  ASSUME Sound(tender), NEW x \in ClaimTargets, PostClaim(x) \/ PatchClaim(x)
  PROVE  Keeps
<1>1. CASE PostClaim(x)
  <2> DEFINE c == Closed("claim")
  <2>1. tender' = [tender EXCEPT !.claims[x] = c]
    BY <1>1 DEF PostClaim, Save
  <2>2. c \in KeptClaim
    BY ClosedKept
  <2> HIDE DEF c
  <2> QED BY <2>1, <2>2, TenderClaimKept, KeptWhenAwardsAre
<1>2. CASE PatchClaim(x)
  <2>0. PICK r \in {"resolved", "declined"} : \E c \in Patched(tender.claims[x], r) :
          Save(AfterPatch([tender EXCEPT !.claims[x] = c], c))
    BY <1>2, Zenon DEF PatchClaim
  <2>1. PICK c \in Patched(tender.claims[x], r) :
          Save(AfterPatch([tender EXCEPT !.claims[x] = c], c))
    BY <2>0
  <2> DEFINE s == [tender EXCEPT !.claims[x] = c]
  <2>2. tender' = AfterPatch(s, c)
    BY <2>1, Zenon DEF Save
  <2>3. tender.claims[x] \in KeptClaim
    BY ShapeParts DEF Sound, Steady
  <2>4. c \in KeptClaim
    BY <2>3, PatchedKept
  <2>5. Sound(s) /\ s.awards = tender.awards
    BY <2>4, TenderClaimKept
  <2> HIDE DEF s
  <2> QED BY <2>2, <2>5, AfterPatchKept DEF Keeps
<1> QED BY <1>1, <1>2

LEMMA AwardClaims ==
  ASSUME Sound(tender), NEW u \in Units, NEW i, PostAwardClaim(u, i) \/ PatchAwardClaim(u, i)
  PROVE  Keeps
<1>1. tender.status \in Awarding /\ u \in Open(tender) /\ i \in 1 .. Len(tender.awards[u])
  BY DEF PostAwardClaim, PatchAwardClaim, AwardAt
<1>2. Outcome(tender, u) \notin {"complete", "unsuccessful"}
  BY <1>1, OpenIsUnsettled
<1>3. CASE PostAwardClaim(u, i)
  <2> DEFINE c == Closed("claim")
  <2>1. tender' = WithAwardClaim(tender, u, i, c)
    BY <1>3, Zenon DEF PostAwardClaim, Save, WithAwardClaim, WithUnit, WithAwards
  <2>2. c \in KeptClaim
    BY ClosedKept
  <2> HIDE DEF c
  <2>3. /\ Sound(tender')
        /\ \A v \in Units : SignedIn(tender.awards[v]) => tender'.awards[v] = tender.awards[v]
    BY <1>1, <1>2, <2>1, <2>2, AwardClaimKept
  <2> QED BY <2>3 DEF Keeps, SignedKept
<1>4. CASE PatchAwardClaim(u, i)
  <2>0. PICK r \in {"resolved", "declined"} : \E c \in Patched(tender.awards[u][i].claim, r) :
          Save(AfterPatch([tender EXCEPT !.awards[u][i].claim = c], c))
    BY <1>4, Zenon DEF PatchAwardClaim
  <2>1. PICK c \in Patched(tender.awards[u][i].claim, r) :
          Save(AfterPatch([tender EXCEPT !.awards[u][i].claim = c], c))
    BY <2>0
  <2> DEFINE s == WithAwardClaim(tender, u, i, c)
  <2>2. tender' = AfterPatch(s, c)
    BY <2>1, Zenon DEF Save, WithAwardClaim, WithUnit, WithAwards
  <2>3. tender.awards[u][i].claim \in KeptClaim
    BY <1>1, AwardsOfUnit, AwardParts DEF Sound, Steady
  <2>4. c \in KeptClaim
    BY <2>3, PatchedKept
  <2>5. Sound(s) /\ \A v \in Units : SignedIn(tender.awards[v]) => s.awards[v] = tender.awards[v]
    BY <1>1, <1>2, <2>4, AwardClaimKept
  <2> HIDE DEF s
  <2> QED BY <2>2, <2>5, AfterPatchKept DEF Keeps
<1> QED BY <1>3, <1>4

LEMMA ClaimsAge ==
  ASSUME Sound(tender), ClaimTermEnds
  PROVE  Keeps
<1>1. ASSUME NEW x \in ClaimTargets, Save([tender EXCEPT !.claims[x] = Aged(@)])
      PROVE  Keeps
  <2> DEFINE c == Aged(tender.claims[x])
  <2>1. tender' = [tender EXCEPT !.claims[x] = c]
    BY <1>1, Zenon DEF Save
  <2>2. tender.claims[x] \in KeptClaim
    BY ShapeParts DEF Sound, Steady
  <2>3. c \in KeptClaim
    BY <2>2, AgedKept
  <2> HIDE DEF c
  <2> QED BY <2>1, <2>3, TenderClaimKept, KeptWhenAwardsAre
<1>2. ASSUME NEW u \in Units, NEW i \in 1 .. Len(tender.awards[u]),
             Aged(tender.awards[u][i].claim) # tender.awards[u][i].claim,
             Save([tender EXCEPT !.awards[u][i].claim = Aged(@)])
      PROVE  Keeps
  <2> DEFINE c == Aged(tender.awards[u][i].claim)
  <2>1. tender' = WithAwardClaim(tender, u, i, c)
    BY <1>2, Zenon DEF Save, WithAwardClaim, WithUnit, WithAwards
  <2>2. tender.awards[u][i].claim \in KeptClaim
    BY AwardsOfUnit, AwardParts DEF Sound, Steady
  <2>3. c \in KeptClaim /\ Answered(tender.awards[u][i].claim)
    BY <1>2, <2>2, AgedKept
  <2>4. Outcome(tender, u) \notin {"complete", "unsuccessful"}
    BY <2>3 DEF Sound, Undisputed, Disputed, Answered
  <2> HIDE DEF c
  <2>5. /\ Sound(tender')
        /\ \A v \in Units : SignedIn(tender.awards[v]) => tender'.awards[v] = tender.awards[v]
    BY <2>1, <2>3, <2>4, AwardClaimKept
  <2> QED BY <2>5 DEF Keeps, SignedKept
<1> QED BY <1>1, <1>2, Zenon DEF ClaimTermEnds

LEMMA Cancellations ==
  ASSUME Sound(tender), NEW x \in CancelTargets,
         DraftCancellation(x) \/ DropCancellation(x) \/ ActivateCancellation(x)
  PROVE  Keeps
<1>1. tender.cancellations \subseteq CancelTargets
  BY ShapeParts DEF Sound, Steady
<1>2. CASE DraftCancellation(x) \/ DropCancellation(x)
  <2>1. PICK v \in SUBSET CancelTargets : tender' = [tender EXCEPT !.cancellations = v]
    <3> DEFINE more == tender.cancellations \cup {x}
               fewer == tender.cancellations \ {x}
    <3>1. more \in SUBSET CancelTargets /\ fewer \in SUBSET CancelTargets
      BY <1>1
    <3>2. \/ tender' = [tender EXCEPT !.cancellations = more]
          \/ tender' = [tender EXCEPT !.cancellations = fewer]
      BY <1>2, Zenon DEF DraftCancellation, DropCancellation, Save
    <3> HIDE DEF more, fewer
    <3> QED BY <3>1, <3>2, Zenon
  <2>2. tender' = WithCancellations(tender, v)
    BY <2>1 DEF WithCancellations
  <2> QED BY <2>2, CancellationsSound, KeptWhenAwardsAre
<1>3. CASE ActivateCancellation(x)
  <2> DEFINE v == tender.cancellations \ {x}
             t == WithCancellations(tender, v)
  <2>1. /\ tender.status \notin Terminal /\ (x = None \/ x \in Open(tender))
        /\ tender' = IF x = None THEN CancelTender(t) ELSE CancelLot(t, x)
    BY <1>3, Zenon DEF ActivateCancellation, MayCancel, Save, WithCancellations
  <2>2. v \subseteq CancelTargets
    BY <1>1
  <2> HIDE DEF v
  <2>3. /\ Sound(t) /\ t.awards = tender.awards /\ t.status = tender.status
        /\ Open(t) = Open(tender)
    BY <2>2, CancellationsSound
  <2> HIDE DEF t
  <2>4. CASE x = None
    <3>1. Sound(CancelTender(t)) /\ CancelTender(t).awards = t.awards
      BY <2>1, <2>3, OutcomesOfGoing, CancelTenderSound DEF Sound, Steady
    <3> QED BY <2>1, <2>3, <2>4, <3>1, KeptWhenAwardsAre
  <2>5. CASE x # None
    <3>1. x \in Lots /\ x \in Open(t)
      BY <2>1, <2>3, <2>5, TargetsAssumption
    <3>2. HasLots
      BY <3>1 DEF HasLots
    <3>3. Sound(CancelLot(t, x)) /\ CancelLot(t, x).awards = t.awards
      BY <2>1, <2>3, <3>1, <3>2, CancelLotSound
    <3> QED BY <2>1, <2>3, <2>5, <3>3, KeptWhenAwardsAre
  <2> QED BY <2>4, <2>5
<1> QED BY <1>2, <1>3

LEMMA Visited ==
  ASSUME Sound(tender), Chronograph
  PROVE  Keeps
<1>1. tender' = CheckStatus(tender)
  BY DEF Chronograph, Save
<1> QED BY <1>1, CheckStatusSound DEF Keeps, SignedKept

\* Every step keeps the invariant and what was signed.
LEMMA StepsKeep ==
  ASSUME IInv, [Next]_vars
  PROVE  IInv' /\ SignedKept(tender, tender')
<1>1. Sound(tender) /\ phase \in 0 .. 2
  BY DEF IInv
<1>2. CASE UNCHANGED vars
  BY <1>1, <1>2 DEF vars, IInv, SignedKept
<1>3. CASE NextPhase
  BY <1>1, <1>3 DEF NextPhase, IInv, SignedKept
<1>4. ASSUME Keeps, UNCHANGED phase PROVE IInv' /\ SignedKept(tender, tender')
  BY <1>1, <1>4 DEF Keeps, IInv
<1>5. CASE Publish \/ \E b \in Bids : PostBid(b) \/ PatchBid(b) \/ DeleteBid(b)
  <2>1. UNCHANGED phase
    BY <1>5, Zenon DEF Publish, PostBid, PatchBid, DeleteBid, Save
  <2> QED BY <1>1, <1>4, <1>5, <2>1, EarlyRequests
<1>6. ASSUME NEW u \in Units, PostAuction(u) \/ StandStillEnds(u)
      PROVE  IInv' /\ SignedKept(tender, tender')
  <2>1. UNCHANGED phase
    BY <1>6, Zenon DEF PostAuction, StandStillEnds, Save
  <2> QED BY <1>1, <1>4, <1>6, <2>1, AuctionReported, StandStillsEnd
<1>7. ASSUME NEW u \in Units, NEW i \in 1 .. MaxAwards, Award(u, i)
      PROVE  IInv' /\ SignedKept(tender, tender')
  <2>1. UNCHANGED phase
    BY <1>7, Zenon DEF Award, ActivateAward, RejectAward, CancelAward, CancelRejectedAward,
                       SignContract, PatchContract, PostAwardClaim, PatchAwardClaim, Save
  <2>2. Keeps
    BY <1>1, <1>7, AwardsDecided, ContractsChanged, AwardClaims DEF Award
  <2> QED BY <1>4, <2>1, <2>2
<1>8. ASSUME NEW x \in ClaimTargets, PostClaim(x) \/ PatchClaim(x)
      PROVE  IInv' /\ SignedKept(tender, tender')
  <2>1. UNCHANGED phase
    BY <1>8, Zenon DEF PostClaim, PatchClaim, Save
  <2> QED BY <1>1, <1>4, <1>8, <2>1, TenderClaims
<1>9. ASSUME NEW x \in CancelTargets,
             DraftCancellation(x) \/ DropCancellation(x) \/ ActivateCancellation(x)
      PROVE  IInv' /\ SignedKept(tender, tender')
  <2>1. UNCHANGED phase
    BY <1>9, Zenon DEF DraftCancellation, DropCancellation, ActivateCancellation, Save
  <2> QED BY <1>1, <1>4, <1>9, <2>1, Cancellations
<1>10. CASE ClaimTermEnds \/ Chronograph
  <2>1. UNCHANGED phase
    BY <1>10, Zenon DEF ClaimTermEnds, Chronograph, Save
  <2> QED BY <1>1, <1>4, <1>10, <2>1, ClaimsAge, Visited
<1> QED BY <1>2, <1>3, <1>5, <1>6, <1>7, <1>8, <1>9, <1>10 DEF Next

-----------------------------------------------------------------------------
(* The chronograph has nothing to do that it is not asked to come for.      *)

LEMMA SameDocument ==
  ASSUME NEW a, NEW b, ClaimsOnly(a, b), b.auctioned = a.auctioned,
         b.cancellations = a.cancellations,
         \A x \in ClaimTargets : b.claims[x] = a.claims[x],
         \A u \in Units : \A i \in 1 .. Len(a.awards[u]) :
           b.awards[u][i].claim = a.awards[u][i].claim
  PROVE  b = a
<1>1. /\ Shape(a) /\ Shape(b)
      /\ b.status = a.status /\ b.lot = a.lot /\ b.bid = a.bid
  BY DEF ClaimsOnly
<1>2. \A u \in Units : b.awards[u] = a.awards[u]
  BY AwardsEqual
<1>3. a.awards \in [Units -> Seq(KeptAward)] /\ b.awards \in [Units -> Seq(KeptAward)]
  BY <1>1, ShapeParts
<1>4. a.claims \in [ClaimTargets -> KeptClaim] /\ b.claims \in [ClaimTargets -> KeptClaim]
  BY <1>1, ShapeParts
<1>5. b.awards = a.awards
  BY <1>2, <1>3
<1>6. b.claims = a.claims
  BY <1>4
<1>7. /\ a = [status |-> a.status, lot |-> a.lot, bid |-> a.bid, auctioned |-> a.auctioned,
              awards |-> a.awards, claims |-> a.claims, cancellations |-> a.cancellations]
      /\ b = [status |-> b.status, lot |-> b.lot, bid |-> b.bid, auctioned |-> b.auctioned,
              awards |-> b.awards, claims |-> b.claims, cancellations |-> b.cancellations]
  BY <1>1, ShapeParts DEF Document
<1> QED BY <1>1, <1>5, <1>6, <1>7, Zenon

\* While no answered claim is due, check_complaint_status changes nothing.
LEMMA NothingExpires ==
  ASSUME NEW t, Shape(t), ~ AnsweredDue(t)
  PROVE  CheckComplaintStatus(t) = t
<1> DEFINE s == CheckComplaintStatus(t)
<1>1. /\ ClaimsOnly(t, s) /\ s.auctioned = t.auctioned /\ s.cancellations = t.cancellations
      /\ \A x \in ClaimTargets : s.claims[x] = Expired(t.claims[x])
      /\ \A u \in Units : \A i \in 1 .. Len(t.awards[u]) :
           s.awards[u][i] = [t.awards[u][i] EXCEPT !.claim = Expired(t.awards[u][i].claim)]
  BY ComplaintsExpire
<1> HIDE DEF s
<1>2. \A x \in ClaimTargets : s.claims[x] = t.claims[x]
  BY <1>1 DEF AnsweredDue, Expired
<1>3. ASSUME NEW u \in Units, NEW i \in 1 .. Len(t.awards[u])
      PROVE  s.awards[u][i].claim = t.awards[u][i].claim
  <2>1. Expired(t.awards[u][i].claim) = t.awards[u][i].claim
    BY DEF AnsweredDue, Expired
  <2>2. t.awards[u][i] \in KeptAward
    BY AwardsOfUnit
  <2> DEFINE a == t.awards[u][i]
  <2>3. s.awards[u][i] = [a EXCEPT !.claim = a.claim]
    BY <1>1, <2>1, Zenon
  <2> HIDE DEF a
  <2>4. [a EXCEPT !.claim = a.claim].claim = a.claim
    BY <2>2 DEF KeptAward, a
  <2> QED BY <2>3, <2>4 DEF a
<1>4. s = t
  BY <1>1, <1>2, <1>3, SameDocument
<1> QED BY <1>4 DEF s

\* A claim that is ignored counts as the one it was.
Revived(c) == IF c.status = "ignored" THEN Closed("claim") ELSE c

LEMMA ClaimRevived ==
  ASSUME NEW c \in KeptClaim
  PROVE  /\ Revived(c) \in KeptClaim
         /\ \A t, x : Revived(Ignored(t, c, x)) = Revived(c)
<1>1. /\ Closed("claim") \in KeptClaim /\ Closed("claim").status = "claim"
      /\ Closed("ignored").status = "ignored"
  BY ClosedKept
<1>2. c.status = "claim" => c = Closed("claim")
  BY ClaimParts
<1> QED BY <1>1, <1>2 DEF Revived, Ignored

LEMMA ClaimsRevived ==
  ASSUME NEW t, Shape(t)
  PROVE  LET s == Unignored(t) IN
         /\ ClaimsOnly(t, s) /\ s.auctioned = t.auctioned /\ s.cancellations = t.cancellations
         /\ \A x \in ClaimTargets : s.claims[x] = Revived(t.claims[x])
         /\ \A u \in Units : \A i \in 1 .. Len(t.awards[u]) :
              s.awards[u][i] = [t.awards[u][i] EXCEPT !.claim = Revived(t.awards[u][i].claim)]
<1> DEFINE f == [x \in ClaimTargets |-> Revived(t.claims[x])]
           w == [u \in Units |-> [i \in DOMAIN t.awards[u] |->
                   [t.awards[u][i] EXCEPT !.claim = Revived(t.awards[u][i].claim)]]]
           s == Reclaimed(t, f, w)
<1>1. Unignored(t) = s
  BY Zenon DEF Unignored, MapClaims, Reclaimed, Revived
<1>2. f \in [ClaimTargets -> KeptClaim]
  <2>1. \A x \in ClaimTargets : t.claims[x] \in KeptClaim
    BY ShapeParts
  <2> QED BY <2>1, ClaimRevived
<1>3. \A u \in Units : DOMAIN t.awards[u] = 1 .. Len(t.awards[u])
  BY AwardsOfUnit
<1>4. \A u \in Units : \A i \in DOMAIN t.awards[u] :
        /\ w[u][i] = [t.awards[u][i] EXCEPT !.claim = Revived(t.awards[u][i].claim)]
        /\ Revived(t.awards[u][i].claim) \in KeptClaim
  <2>1. \A u \in Units : \A i \in DOMAIN t.awards[u] : t.awards[u][i].claim \in KeptClaim
    BY AwardsOfUnit, AwardParts
  <2> QED BY <2>1, ClaimRevived
<1>5. w = [u \in Units |-> w[u]]
  OBVIOUS
<1>6. \A u \in Units : w[u] = [i \in DOMAIN t.awards[u] |-> w[u][i]]
  OBVIOUS
<1>8. \A x \in ClaimTargets : f[x] = Revived(t.claims[x])
  OBVIOUS
<1> HIDE DEF f, w
<1>7. ClaimsOnly(t, s) /\ s.claims = f /\ s.awards = w
        /\ s.auctioned = t.auctioned /\ s.cancellations = t.cancellations
  <2>1. ASSUME NEW u \in Units, NEW i \in DOMAIN t.awards[u]
        PROVE  \E c \in KeptClaim : w[u][i] = [t.awards[u][i] EXCEPT !.claim = c]
    <3> DEFINE d == Revived(t.awards[u][i].claim)
    <3>1. d \in KeptClaim /\ w[u][i] = [t.awards[u][i] EXCEPT !.claim = d]
      BY <1>4
    <3> HIDE DEF d
    <3> QED BY <3>1
  <2>2. AwardsReclaimed(t, w)
    BY <1>5, <1>6, <2>1, Zenon DEF AwardsReclaimed
  <2> QED BY <1>2, <2>2, ReclaimedOnly
<1> HIDE DEF s
<1> QED BY <1>1, <1>3, <1>4, <1>7, <1>8

\* But for what it ignores, check_ignored_claim changes nothing.
LEMMA IgnoringForgiven ==
  ASSUME NEW t, Shape(t)
  PROVE  Unignored(CheckIgnoredClaim(t)) = Unignored(t)
<1> DEFINE s == CheckIgnoredClaim(t)
           a == Unignored(t)
           b == Unignored(s)
<1>1. /\ ClaimsOnly(t, s) /\ s.auctioned = t.auctioned /\ s.cancellations = t.cancellations
      /\ \A x \in ClaimTargets : s.claims[x] = Ignored(t, t.claims[x], x)
      /\ \A u \in Units : \A i \in 1 .. Len(t.awards[u]) :
           s.awards[u][i] =
             [t.awards[u][i] EXCEPT !.claim = Ignored(t, t.awards[u][i].claim, Target(u))]
  BY ClaimsIgnored
<1>2. /\ ClaimsOnly(t, a) /\ a.auctioned = t.auctioned /\ a.cancellations = t.cancellations
      /\ \A x \in ClaimTargets : a.claims[x] = Revived(t.claims[x])
      /\ \A u \in Units : \A i \in 1 .. Len(t.awards[u]) :
           a.awards[u][i] = [t.awards[u][i] EXCEPT !.claim = Revived(t.awards[u][i].claim)]
  BY ClaimsRevived
<1>3. Shape(s)
  BY <1>1 DEF ClaimsOnly
<1> HIDE DEF s
<1>4. /\ ClaimsOnly(s, b) /\ b.auctioned = s.auctioned /\ b.cancellations = s.cancellations
      /\ \A x \in ClaimTargets : b.claims[x] = Revived(s.claims[x])
      /\ \A u \in Units : \A i \in 1 .. Len(s.awards[u]) :
           b.awards[u][i] = [s.awards[u][i] EXCEPT !.claim = Revived(s.awards[u][i].claim)]
  BY <1>3, ClaimsRevived
<1> HIDE DEF a, b
<1>5. ClaimsOnly(a, b)
  BY <1>1, <1>2, <1>4 DEF ClaimsOnly, SameAwards
<1>6. \A u \in Units : Len(s.awards[u]) = Len(t.awards[u]) /\ Len(a.awards[u]) = Len(t.awards[u])
  BY <1>1, <1>2 DEF ClaimsOnly, SameAwards
<1>7. ASSUME NEW x \in ClaimTargets PROVE b.claims[x] = a.claims[x]
  <2>1. t.claims[x] \in KeptClaim
    BY ShapeParts
  <2> QED BY <1>1, <1>2, <1>4, <2>1, ClaimRevived
<1>8. ASSUME NEW u \in Units, NEW i \in 1 .. Len(a.awards[u])
      PROVE  b.awards[u][i].claim = a.awards[u][i].claim
  <2> DEFINE d == t.awards[u][i]
             e == s.awards[u][i]
  <2>1. /\ i \in 1 .. Len(t.awards[u]) /\ i \in 1 .. Len(s.awards[u])
        /\ d \in KeptAward /\ d.claim \in KeptClaim /\ e \in KeptAward
    BY <1>3, <1>6, AwardsOfUnit, AwardParts
  <2>2. /\ e = [d EXCEPT !.claim = Ignored(t, d.claim, Target(u))]
        /\ a.awards[u][i] = [d EXCEPT !.claim = Revived(d.claim)]
        /\ b.awards[u][i] = [e EXCEPT !.claim = Revived(e.claim)]
    BY <1>1, <1>2, <1>4, <2>1
  <2> HIDE DEF d, e
  <2>3. \A r \in KeptAward : \A c : [r EXCEPT !.claim = c].claim = c
    BY DEF KeptAward
  <2> QED BY <2>1, <2>2, <2>3, ClaimRevived
<1>9. b = a
  BY <1>2, <1>4, <1>1, <1>5, <1>7, <1>8, SameDocument
<1> QED BY <1>9 DEF a, b, s

\* Nothing to settle: no unit would end whose end is not due.
LEMMA LotsQuiet ==
  ASSUME NEW t, Sound(t), HasLots, t.status \in Awarding, ~ ClaimAnswered(t, {None}),
         \A u \in Open(t) : ~ (RejectionStands(t, u) /\ ~ ClaimAnswered(t, {u}))
  PROVE  SettleLots(t) = t
<1> DEFINE lot == [u \in Units |-> LotOutcome(t, u)]
           status == FromLots(t, LotStatuses(lot))
           s == SettleLots(t)
<1>1. Shape(t) /\ t.lot \in [Units -> LotState]
  BY ShapeParts DEF Sound, Steady
<1>2. ASSUME NEW u \in Units PROVE LotOutcome(t, u) = t.lot[u]
  <2> DEFINE aw == t.awards[u]
  <2>1. aw \in Seq(KeptAward) /\ InOrder(aw)
    BY <1>1, AwardsOfUnit DEF Sound, Steady, AwardsFit
  <2>2. HasActiveContract(aw) => t.lot[u] = "complete"
    BY <2>1, ActiveContractSigned DEF Sound, SignedIsComplete, Outcome
  <2>3. LastIs(aw, {"unsuccessful"}) /\ "running" \notin Periods(aw) => StandStillOver(aw)
    <3> SUFFICES ASSUME aw # << >>, aw[Len(aw)].status = "unsuccessful",
                        "running" \notin Periods(aw)
                 PROVE  Periods(aw) = {"over"}
      BY DEF LastIs, StandStillOver
    <3> HIDE DEF aw
    <3>1. Len(aw) \in 1 .. Len(aw)
      BY <2>1, LenProperties, EmptySeq
    <3>2. aw[Len(aw)].period # "none"
      BY <2>1, <3>1 DEF InOrder
    <3>3. \A i \in 1 .. Len(aw) : aw[i].period \in {"none", "running", "over"}
      BY <2>1, ElementOfSeq, AwardParts
    <3>4. Periods(aw) \subseteq {"over"}
      BY <3>3 DEF Periods
    <3>5. aw[Len(aw)].period \in Periods(aw)
      BY <3>1, <3>2 DEF Periods
    <3> QED BY <3>4, <3>5
  <2>4. CASE t.lot[u] # "active"
    BY <2>4 DEF LotOutcome
  <2>5. CASE t.lot[u] = "active"
    <3>1. ~ (RejectionStands(t, u) /\ ~ ClaimAnswered(t, {u})) /\ ~ HasActiveContract(aw)
      BY <2>2, <2>5 DEF Open
    <3> QED BY <2>3, <2>5, <3>1 DEF LotOutcome, RejectionStands
  <2> QED BY <2>4, <2>5
<1>3. lot = t.lot
  BY <1>1, <1>2
<1>4. status = t.status
  <2>1. PICK u \in Units : t.lot[u] = "active"
    BY DEF Sound, Steady, SomeOpen, Open, Awarding, Terminal
  <2>2. "active" \in LotStatuses(lot)
    BY <1>3, <2>1 DEF LotStatuses
  <2> QED BY <2>2 DEF FromLots, Terminal
<1>5. s = WithStatus(WithLot(t, lot), status)
  BY Zenon DEF SettleLots, WithStatus, WithLot
<1> HIDE DEF lot, status, s
<1>6. WithLot(t, t.lot) = t /\ WithStatus(t, t.status) = t
  <2>1. Document(t)
    BY <1>1, ShapeParts
  <2> QED BY <2>1, Rebuilt DEF Document
<1> QED BY <1>3, <1>4, <1>5, <1>6 DEF s

LEMMA WholeQuiet ==
  ASSUME NEW t, Sound(t), ~ HasLots, t.status = "active.awarded",
         ~ (RejectionStands(t, Whole) /\ ~ ClaimAnswered(t, {None}))
  PROVE  SettleWhole(t) = t
<1> DEFINE aw == t.awards[Whole]
           status == IF LastContract(aw) = "active" THEN "complete"
                     ELSE IF /\ LastIs(aw, {"unsuccessful"}) /\ StandStillOver(aw)
                             /\ ~ ClaimAnswered(t, {None}) /\ ~ AwardClaimAnswered(aw)
                          THEN "unsuccessful" ELSE t.status
           s == SettleWhole(t)
<1>1. Shape(t) /\ Units = {Whole}
  BY UnitsFact DEF Sound, Steady
<1>2. aw \in Seq(KeptAward) /\ InOrder(aw) /\ ~ SignedIn(aw)
  BY <1>1, AwardsOfUnit DEF Sound, Steady, AwardsFit, SignedIsComplete, Outcome
<1>3. LastContract(aw) # "active"
  BY <1>2, LastContractSigned
<1>4. status = t.status
  BY <1>3 DEF RejectionStands
<1>5. s = WithStatus(t, status)
  BY Zenon DEF SettleWhole, WithStatus
<1> HIDE DEF status, s, aw
<1>6. s = t
  BY <1>1, <1>4, <1>5, ShapeParts, Rebuilt DEF Document
<1> QED BY <1>6 DEF s

LEMMA NothingForgotten ==
  ASSUME IInv
  PROVE  NothingIsForgotten
<1> SUFFICES ASSUME tender.status \in Active, ~ next_check_due(tender)
             PROVE  Unignored(CheckStatus(tender)) = Unignored(tender)
  BY DEF NothingIsForgotten
<1> DEFINE t == tender
<1>1. Sound(t) /\ Shape(t)
  BY DEF IInv, Sound, Steady
<1>2. CheckComplaintStatus(t) = t
  <2>1. ~ AnsweredDue(t)
    BY DEF next_check_due
  <2> QED BY <1>1, <2>1, NothingExpires
<1> DEFINE s == CheckStatus(t)
<1>3. \/ s = t
      \/ /\ s = CheckTenderStatus(t)
         /\ ~ HasLots /\ t.status = "active.awarded" /\ StandStillOver(t.awards[Whole])
      \/ /\ s = CheckTenderStatus(t)
         /\ HasLots /\ t.status \in Awarding /\ ~ ClaimAnswered(t, {None})
  BY <1>2 DEF CheckStatus, next_check_due
<1>4. CASE s = t
  BY <1>4
<1>5. CASE /\ s = CheckTenderStatus(t)
           /\ ~ HasLots /\ t.status = "active.awarded" /\ StandStillOver(t.awards[Whole])
  <2>1. ~ (RejectionStands(t, Whole) /\ ~ ClaimAnswered(t, {None}))
    BY <1>5 DEF next_check_due
  <2>2. SettleWhole(t) = t
    BY <1>1, <1>5, <2>1, WholeQuiet
  <2>3. s = CheckIgnoredClaim(t)
    BY <1>5, <2>2 DEF CheckTenderStatus
  <2> HIDE DEF t, s
  <2>4. Unignored(s) = Unignored(t)
    BY <1>1, <2>3, IgnoringForgiven
  <2> QED BY <2>4 DEF s, t
<1>6. CASE /\ s = CheckTenderStatus(t)
           /\ HasLots /\ t.status \in Awarding /\ ~ ClaimAnswered(t, {None})
  <2>1. \A u \in Open(t) : ~ (RejectionStands(t, u) /\ ~ ClaimAnswered(t, {u}))
    BY <1>6 DEF next_check_due
  <2>2. SettleLots(t) = t
    BY <1>1, <1>6, <2>1, LotsQuiet
  <2>3. s = CheckIgnoredClaim(t)
    BY <1>6, <2>2 DEF CheckTenderStatus
  <2> HIDE DEF t, s
  <2>4. Unignored(s) = Unignored(t)
    BY <1>1, <2>3, IgnoringForgiven
  <2> QED BY <2>4 DEF s, t
<1> QED BY <1>3, <1>4, <1>5, <1>6

-----------------------------------------------------------------------------
(* The theorems.                                                           *)

LEMMA InitSound == Init => IInv
<1> SUFFICES ASSUME Init PROVE IInv
  OBVIOUS
<1> DEFINE lot == [u \in Units |-> "active"]
           bid == [b \in Bids |-> [status |-> "absent", lots |-> {}]]
           awards == [u \in Units |-> << >>]
           claims == [x \in ClaimTargets |-> NoClaim]
           none == {}
<1>1. tender = [status |-> "draft", lot |-> lot, bid |-> bid, auctioned |-> none,
                awards |-> awards, claims |-> claims, cancellations |-> none]
  BY Zenon DEF Init
<1>2. /\ lot \in [Units -> LotState] /\ bid \in [Bids -> Bid]
      /\ awards \in [Units -> Seq(KeptAward)] /\ claims \in [ClaimTargets -> KeptClaim]
      /\ none \subseteq Units /\ none \subseteq CancelTargets
  <2>1. "active" \in LotState /\ [status |-> "absent", lots |-> {}] \in Bid
    BY DEF LotState, Bid
  <2>2. << >> \in Seq(KeptAward)
    BY EmptySeq
  <2> QED BY <2>1, <2>2, NoClaimKept
<1>3. (\A u \in Units : lot[u] = "active") /\ (\A u \in Units : awards[u] = << >>)
  OBVIOUS
<1> HIDE DEF lot, bid, awards, claims, none
<1>4. /\ tender.status = "draft" /\ tender.lot = lot /\ tender.bid = bid
      /\ tender.auctioned = none /\ tender.awards = awards /\ tender.claims = claims
      /\ tender.cancellations = none /\ Document(tender)
  BY <1>1, DocumentMade
<1>5. Shape(tender)
  BY <1>2, <1>4, ShapeMade
<1>6. Open(tender) # {} /\ WholeOpen(tender)
  BY <1>3, <1>4, UnitsFact DEF Open, WholeOpen
<1>7. AwardsFit(tender)
  BY <1>3, <1>4, NobodyAwarded DEF AwardsFit
<1>8. NoneEarly(tender) /\ BidsCount(tender) /\ SomeOpen(tender)
  BY <1>3, <1>4, <1>6 DEF NoneEarly, BidsCount, Awarding, SomeOpen
<1>9. \A u \in Units : Outcome(tender, u) \notin {"complete", "unsuccessful"}
  BY <1>3, <1>4 DEF Outcome
<1>10. SignedIsComplete(tender) /\ Undisputed(tender) /\ StatusTrue(tender)
  BY <1>3, <1>4, <1>9, NobodyAwarded DEF SignedIsComplete, Undisputed, StatusTrue, Awarding
<1> QED BY <1>5, <1>6, <1>7, <1>8, <1>10 DEF Init, IInv, Sound, Steady

\* The tender that is stored is sound after every request and every visit.
THEOREM AlwaysSound == Spec => []IInv
<1>1. IInv /\ [Next]_vars => IInv'
  BY StepsKeep
<1> QED BY <1>1, InitSound, PTL DEF Spec

LEMMA AwardsAreSound == ASSUME IInv PROVE AwardingSound
<1> DEFINE t == tender
<1>1. Sound(t) /\ Shape(t)
  BY DEF IInv, Sound, Steady
<1>2. ASSUME NEW u \in Units
      PROVE  /\ InOrder(t.awards[u]) /\ BestFirst(t.awards[u], t.bid, u)
             /\ \A i \in 1 .. Len(t.awards[u]) : t.awards[u][i] \in KeptAward
  BY <1>1, AwardsOfUnit DEF Sound, Steady, AwardsFit
<1>3. OneLiveAward
  BY <1>2 DEF OneLiveAward, InOrder, Live
<1>4. ContractFollowsAward
  BY <1>2 DEF ContractFollowsAward, InOrder, AwardsOf
<1>5. BestBidFirst
  <2> SUFFICES ASSUME NEW u \in Units, NEW i \in 1 .. Len(t.awards[u]),
                      t.awards[u][i].status \in {"pending", "active"}
               PROVE  /\ t.bid[t.awards[u][i].bid].status = "active"
                      /\ t.awards[u][i].bid \in BidsOn(t, u)
                      /\ \A b \in BidsOn(t, u) : b < t.awards[u][i].bid
                                                   => b \in Rejected(t.awards[u])
    BY DEF BestBidFirst, AwardsOf
  <2>1. /\ t.bid[t.awards[u][i].bid].status = "active"
        /\ u \in t.bid[t.awards[u][i].bid].lots
        /\ \A b \in Bids : t.bid[b].status # "absent" /\ u \in t.bid[b].lots
                             /\ b < t.awards[u][i].bid => b \in Rejected(t.awards[u])
    BY <1>2 DEF BestFirst, Live
  <2>2. t.awards[u][i].bid \in Bids
    BY <1>2, AwardParts
  <2> HIDE DEF t
  <2> QED BY <2>1, <2>2 DEF BidsOn
<1> QED BY <1>3, <1>4, <1>5 DEF AwardingSound

\* Through any rejections, appeals and cancellations (add_next_award), a unit
\* never has two winners, the award goes to the best bid that stands, and a
\* contract lives as long as its award.
THEOREM AwardsAlwaysSound == Spec => []AwardingSound
BY AlwaysSound, AwardsAreSound, PTL

LEMMA OutcomesAreSound == ASSUME IInv PROVE OutcomeSound
<1> DEFINE t == tender
<1>1. Sound(t)
  BY DEF IInv
<1>2. CompleteIffSigned
  BY <1>1 DEF CompleteIffSigned, Signed, AwardsOf, Sound, SignedIsComplete, SignedIn, Outcome
<1>3. SettledWithoutDisputes
  BY <1>1 DEF SettledWithoutDisputes, AwardsOf, Sound, Undisputed, Disputed, Outcome
<1>4. StatusTellsTheTruth
  BY <1>1 DEF StatusTellsTheTruth, Sound, StatusTrue, Steady, SomeOpen, Active, Awarding, Terminal
<1> QED BY <1>2, <1>3, <1>4 DEF OutcomeSound

\* Statuses mean what they say, lot by lot: complete is what is signed, nothing
\* is settled over a dispute (check_tender_status); and whenever a visit of the
\* chronograph would change the tender, next_check asks for one.
THEOREM SettlingAlwaysSound == Spec => []SettlingSound
<1>1. IInv => SettlingSound
  BY OutcomesAreSound, NothingForgotten DEF SettlingSound
<1> QED BY <1>1, AlwaysSound, PTL

LEMMA SoundTypes == ASSUME IInv PROVE TypeOK
<1>1. /\ tender.status \in {"draft"} \cup Active \cup Terminal
      /\ tender.lot \in [Units -> LotState] /\ tender.bid \in [Bids -> Bid]
      /\ tender.auctioned \subseteq Units /\ tender.awards \in [Units -> Seq(KeptAward)]
      /\ tender.claims \in [ClaimTargets -> KeptClaim]
      /\ tender.cancellations \subseteq CancelTargets
  BY ShapeParts DEF IInv, Sound, Steady
<1>2. KeptClaim \subseteq Claim
  BY DEF KeptClaim
<1>3. ASSUME NEW u \in Units PROVE tender.awards[u] \in Seq(AwardRecord)
  <2>1. KeptAward \subseteq AwardRecord
    BY <1>2 DEF KeptAward, AwardRecord
  <2>2. tender.awards[u] \in Seq(KeptAward)
    BY <1>1
  <2> HIDE DEF KeptAward
  <2> QED BY <2>1, <2>2
<1>4. tender.claims \in [ClaimTargets -> Claim]
  BY <1>1, <1>2
<1> QED BY <1>1, <1>3, <1>4 DEF TypeOK, IInv, LotState, Bid

\* All of it at once: types, awards, outcomes, and a chronograph that forgets
\* nothing.
THEOREM AlwaysSafe == Spec => []Safety
<1>1. IInv => Safety
  BY SoundTypes, AwardsAreSound, OutcomesAreSound, NothingForgotten DEF Safety
<1> QED BY <1>1, AlwaysSound, PTL

\* No request changes a tender that has ended.
LEMMA EndedIsLeftAlone ==
  ASSUME tender.status \in Terminal, [Next]_vars
  PROVE  tender' = tender
<1>1. tender.status \notin Active \cup {"draft"}
  BY DEF Active, Awarding, Terminal
<1>2. \A u, i : ~ AwardAt(u, i) /\ ~ StandStillEnds(u) /\ ~ PostAuction(u)
  BY <1>1 DEF AwardAt, StandStillEnds, PostAuction, Active
<1>3. \A u, i : ~ Award(u, i)
  BY <1>2, Zenon DEF Award, ActivateAward, RejectAward, CancelAward, CancelRejectedAward,
                     SignContract, PatchContract, PostAwardClaim, PatchAwardClaim
<1>4. \A b : ~ PostBid(b) /\ ~ PatchBid(b) /\ ~ DeleteBid(b)
  BY <1>1 DEF PostBid, PatchBid, DeleteBid, InTendering, Active
<1>5. \A x : ~ PostClaim(x) /\ ~ PatchClaim(x)
  BY <1>1 DEF PostClaim, PatchClaim, Active
<1>6. \A x : ~ DraftCancellation(x) /\ ~ DropCancellation(x) /\ ~ ActivateCancellation(x)
  BY DEF DraftCancellation, DropCancellation, ActivateCancellation, MayCancel
<1>7. ~ Publish /\ ~ ClaimTermEnds
  BY <1>1 DEF Publish, ClaimTermEnds
<1>8. ~ Chronograph
  BY <1>1 DEF Chronograph, next_check_due, Active, Awarding
<1>9. NextPhase \/ UNCHANGED vars
  BY <1>2, <1>3, <1>4, <1>5, <1>6, <1>7, <1>8, Zenon DEF Next
<1> QED BY <1>9 DEF NextPhase, vars

\* What is signed stays signed, and a tender that has ended stays as it is.
THEOREM SignedAndEndedStay == Spec => FinalStaysFinal
<1>1. ASSUME IInv, [Next]_vars
      PROVE  [/\ \A u \in Units : \A i \in 1 .. Len(tender.awards[u]) :
                   tender.awards[u][i].contract = "active"
                     => tender'.awards[u][i] = tender.awards[u][i]
              /\ tender.status \in Terminal => tender' = tender]_vars
  <2>1. SignedKept(tender, tender')
    BY <1>1, StepsKeep
  <2>2. tender.status \in Terminal => tender' = tender
    BY <1>1, EndedIsLeftAlone
  <2> QED BY <2>1, <2>2 DEF SignedKept, SignedIn
<1> QED BY <1>1, AlwaysSound, PTL DEF Spec, FinalStaysFinal

=============================================================================
