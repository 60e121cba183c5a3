------------------------- MODULE AboveThresholdProof -------------------------
(***************************************************************************)
(* Above-threshold tenders, for any lots and any numbers of bids, awards   *)
(* and complaints: first the awarding (Awarding), then what comes before   *)
(* it (PreQualification, CompetitiveDialogue), then what is asked of the   *)
(* chronograph in both.  What holds of the stored tender is an operator of *)
(* a document t, so that it can be followed through the functions one      *)
(* request runs one after the other.                                       *)
(***************************************************************************)
EXTENDS AboveThreshold, SequenceTheorems, FiniteSetTheorems,
        WellFoundedInduction, TLAPS

-----------------------------------------------------------------------------
(* The awarding: its inductive invariant.                                  *)

Live == {"pending", "active"}
LotState == {"active", "complete", "unsuccessful", "cancelled"}
Award ==
  [bid : 1 .. NBids, status : {"pending", "active", "unsuccessful", "cancelled"},
   held : BOOLEAN, asked : BOOLEAN, period : {"unset", "running", "over"},
   contract : {"none", "pending", "active", "cancelled"},
   complaint : ComplaintStatus \cup {"none", "claim", "withdrawn"}]

Document(t) ==
  t = [kind |-> t.kind, status |-> t.status, lots |-> t.lots, awards |-> t.awards,
       cancelling |-> t.cancelling, withdrawn |-> t.withdrawn]

\* A tender has awards of its lots, or of the tender as a whole.
PartsOf(ls) == IF ls = {} THEN {Whole} ELSE ls

Shape(t) ==
  /\ Document(t)
  /\ t.kind \in {"UA", "defense"} /\ t.status \in W!Underway \cup W!Finished
  /\ t.lots \in [DOMAIN t.lots -> LotState]
  /\ t.awards \in [PartsOf(DOMAIN t.lots) -> Seq(Award) \ {<< >>}]
  /\ t.cancelling \in PartsOf(DOMAIN t.lots) \cup {Whole, Nobody} /\ t.withdrawn \in BOOLEAN

\* Of the awards of a part the last alone may be live.  An award has a
\* stand-still since its decision, a signed one has it behind it, and as they
\* run out in turn, so have those before it.
InTurn(aw) ==
  \A i \in 1 .. Len(aw) :
    /\ aw[i].status \in Live => i = Len(aw)
    /\ aw[i].status = "active" <=> aw[i].contract \in {"pending", "active"}
    /\ aw[i].status = "pending" => aw[i].period = "unset" /\ aw[i].contract = "none"
    /\ aw[i].status \in {"active", "unsuccessful"} => aw[i].period # "unset"
    /\ aw[i].contract = "active" => aw[i].period = "over"
    /\ aw[i].period = "over" /\ aw[i].status # "cancelled" =>
         \A j \in 1 .. i - 1 : aw[j].period # "running"

RejectedIn(aw) == {aw[i].bid : i \in {i \in 1 .. Len(aw) : aw[i].status = "unsuccessful"}}
LeftIn(aw) == (1 .. NBids) \ RejectedIn(aw)

\* A live award is for the best of the bids that are left.
BestLeft(aw) ==
  \A i \in 1 .. Len(aw) : aw[i].status \in Live =>
    aw[i].bid \in LeftIn(aw) /\ \A b \in LeftIn(aw) : aw[i].bid <= b

SignedIn(aw) == \E i \in 1 .. Len(aw) : aw[i].contract = "active"
RunningIn(aw) == \E i \in 1 .. Len(aw) : aw[i].period = "running"
DisputedIn(aw) == \E i \in 1 .. Len(aw) : aw[i].complaint \in Undecided

\* What has become of a part.
OutcomeIn(t, p) == IF DOMAIN t.lots = {} THEN t.status ELSE t.lots[p]
IsOpen(t, p) == DOMAIN t.lots = {} \/ t.lots[p] = "active"

\* Signed contracts and outcomes are what the awards say they are.
ClosedFits(t, p) ==
  LET aw == t.awards[p] IN
  /\ SignedIn(aw) => ~ RunningIn(aw) /\ ~ DisputedIn(aw)
  /\ OutcomeIn(t, p) = "complete" => SignedIn(aw)
  /\ OutcomeIn(t, p) = "unsuccessful" => LeftIn(aw) = {} /\ ~ RunningIn(aw) /\ ~ DisputedIn(aw)

\* What no function disturbs.
Steady(t) ==
  /\ Shape(t)
  /\ \A p \in DOMAIN t.awards :
       InTurn(t.awards[p]) /\ BestLeft(t.awards[p]) /\ ClosedFits(t, p)

\* An open part has a live award while a bid is left (AddNextAward sees to it).
Filled(t) ==
  \A p \in DOMAIN t.awards :
    IsOpen(t, p) /\ LeftIn(t.awards[p]) # {} => t.awards[p][Len(t.awards[p])].status \in Live

\* A part is closed when its contract is signed, and the tender when no lot is
\* open any more (CheckTenderStatus sees to both).
OpenUnsigned(t) ==
  \A p \in DOMAIN t.awards :
    OutcomeIn(t, p) \in W!Underway \cup {"active"} => ~ SignedIn(t.awards[p])
LotIsOpen(t) ==
  t.status \in W!Underway /\ DOMAIN t.lots # {} => \E l \in DOMAIN t.lots : t.lots[l] = "active"

Sound(t) == Steady(t) /\ Filled(t) /\ OpenUnsigned(t) /\ LotIsOpen(t)

AwardingIInv == awarding = NotFollowed \/ Sound(awarding)

-----------------------------------------------------------------------------
(* Documents and awards, field by field.                                   *)

LEMMA AwardFields ==
  ASSUME NEW a \in Award
  PROVE  /\ a = [bid |-> a.bid, status |-> a.status, held |-> a.held, asked |-> a.asked,
                 period |-> a.period, contract |-> a.contract, complaint |-> a.complaint]
         /\ a.bid \in 1 .. NBids /\ a.status \in {"pending", "active", "unsuccessful", "cancelled"}
         /\ a.held \in BOOLEAN /\ a.asked \in BOOLEAN /\ a.period \in {"unset", "running", "over"}
         /\ a.contract \in {"none", "pending", "active", "cancelled"}
         /\ a.complaint \in ComplaintStatus \cup {"none", "claim", "withdrawn"}
BY Zenon DEF Award

\* An award with other values in the fields.
AwardOf(a, status, held, asked, period, contract, complaint) ==
  [bid |-> a.bid, status |-> status, held |-> held, asked |-> asked,
   period |-> period, contract |-> contract, complaint |-> complaint]

AwardIs(b, bid, status, period, contract, complaint) ==
  /\ b \in Award /\ b.bid = bid /\ b.status = status /\ b.period = period
  /\ b.contract = contract /\ b.complaint = complaint

LEMMA AwardMade ==
  ASSUME NEW a \in Award, NEW status \in {"pending", "active", "unsuccessful", "cancelled"},
         NEW held \in BOOLEAN, NEW asked \in BOOLEAN, NEW period \in {"unset", "running", "over"},
         NEW contract \in {"none", "pending", "active", "cancelled"},
         NEW complaint \in ComplaintStatus \cup {"none", "claim", "withdrawn"}
  PROVE  AwardIs(AwardOf(a, status, held, asked, period, contract, complaint),
                 a.bid, status, period, contract, complaint)
<1>1. a.bid \in 1 .. NBids
  BY AwardFields
<1>2. AwardOf(a, status, held, asked, period, contract, complaint) \in Award
  BY <1>1 DEF AwardOf, Award
<1> QED BY <1>2 DEF AwardOf, AwardIs

LEMMA ShapeFields ==
  ASSUME NEW t, Shape(t)
  PROVE  /\ Document(t) /\ t.kind \in {"UA", "defense"}
         /\ t.status \in W!Underway \cup W!Finished
         /\ t.lots \in [DOMAIN t.lots -> LotState]
         /\ DOMAIN t.awards = PartsOf(DOMAIN t.lots) /\ DOMAIN t.awards # {}
         /\ t.awards \in [DOMAIN t.awards -> Seq(Award) \ {<< >>}]
         /\ t.cancelling \in PartsOf(DOMAIN t.lots) \cup {Whole, Nobody}
         /\ t.withdrawn \in BOOLEAN
         /\ (DOMAIN t.lots = {} /\ DOMAIN t.awards = {Whole})
            \/ (DOMAIN t.lots # {} /\ DOMAIN t.awards = DOMAIN t.lots)
<1>1. DOMAIN t.awards = PartsOf(DOMAIN t.lots)
  BY DEF Shape
<1> QED BY <1>1 DEF Shape, PartsOf

LEMMA AwardsOfPart ==
  ASSUME NEW t, Shape(t), NEW p \in DOMAIN t.awards
  PROVE  /\ t.awards[p] \in Seq(Award) /\ t.awards[p] # << >>
         /\ Len(t.awards[p]) \in Nat /\ Len(t.awards[p]) >= 1
         /\ DOMAIN t.awards[p] = 1 .. Len(t.awards[p])
         /\ \A i \in 1 .. Len(t.awards[p]) : t.awards[p][i] \in Award
<1>1. t.awards[p] \in Seq(Award) /\ t.awards[p] # << >>
  BY ShapeFields
<1>2. Len(t.awards[p]) \in Nat /\ \A i \in 1 .. Len(t.awards[p]) : t.awards[p][i] \in Award
  BY <1>1
<1>3. Len(t.awards[p]) >= 1
  BY <1>1, <1>2
<1> QED BY <1>1, <1>2, <1>3

\* The operators of Awarding in terms of the awards of a part.
LEMMA OfAwards ==
  ASSUME NEW t, Shape(t)
  PROVE  /\ W!Parts(t) = DOMAIN t.awards
         /\ W!HasLots(t) <=> DOMAIN t.lots # {}
         /\ \A p : p \in W!ActiveParts(t) <=> p \in DOMAIN t.awards /\ IsOpen(t, p)
         /\ \A p \in DOMAIN t.awards :
              /\ \A x : x \in W!AwardsOf(t, p) <=>
                          \E i \in 1 .. Len(t.awards[p]) : x = t.awards[p][i]
              /\ W!HasUndecided(t, p) <=> DisputedIn(t.awards[p])
              /\ W!StandsStill(t, p) <=> RunningIn(t.awards[p])
              /\ W!Signed(t, p) <=> SignedIn(t.awards[p])
              /\ W!Candidates(t, p) = LeftIn(t.awards[p])
              /\ W!Latest(t, p) = t.awards[p][Len(t.awards[p])]
              /\ W!Vacant(t, p) <=> t.awards[p][Len(t.awards[p])].status \notin Live
<1>1. W!Parts(t) = DOMAIN t.awards /\ (W!HasLots(t) <=> DOMAIN t.lots # {})
  BY DEF W!Parts, W!HasLots
<1>2. \A p : p \in W!ActiveParts(t) <=> p \in DOMAIN t.awards /\ IsOpen(t, p)
  BY <1>1 DEF W!ActiveParts, IsOpen
<1>3. ASSUME NEW p \in DOMAIN t.awards
      PROVE  /\ \A x : x \in W!AwardsOf(t, p) <=>
                          \E i \in 1 .. Len(t.awards[p]) : x = t.awards[p][i]
             /\ W!HasUndecided(t, p) <=> DisputedIn(t.awards[p])
             /\ W!StandsStill(t, p) <=> RunningIn(t.awards[p])
             /\ W!Signed(t, p) <=> SignedIn(t.awards[p])
             /\ W!Candidates(t, p) = LeftIn(t.awards[p])
             /\ W!Latest(t, p) = t.awards[p][Len(t.awards[p])]
             /\ W!Vacant(t, p) <=> t.awards[p][Len(t.awards[p])].status \notin Live
  <2> DEFINE aw == t.awards[p]
             R == W!AwardsOf(t, p)
  <2>1. \A x : x \in R <=> \E i \in 1 .. Len(aw) : x = aw[i]
    BY AwardsOfPart DEF W!AwardsOf, W!Range
  <2>2. /\ W!HasUndecided(t, p) <=> \E a \in R : a.complaint \in Undecided
        /\ W!StandsStill(t, p) <=> \E a \in R : a.period = "running"
        /\ W!Signed(t, p) <=> \E a \in R : a.contract = "active"
        /\ W!Candidates(t, p) = (1 .. NBids) \ {a.bid : a \in {x \in R : x.status = "unsuccessful"}}
    BY DEF W!HasUndecided, W!StandsStill, W!Signed, W!Candidates, W!Participants,
           W!Undecided, Undecided
  <2>3. /\ W!Latest(t, p) = aw[Len(aw)]
        /\ W!Vacant(t, p) <=> aw[Len(aw)].status \notin Live
    BY DEF W!Latest, W!Vacant, Live
  <2> HIDE DEF aw, R
  <2>4. {a.bid : a \in {x \in R : x.status = "unsuccessful"}} = RejectedIn(aw)
    <3>1. ASSUME NEW b PROVE b \in {a.bid : a \in {x \in R : x.status = "unsuccessful"}}
                               <=> b \in RejectedIn(aw)
      <4>1. b \in RejectedIn(aw) <=> \E i \in 1 .. Len(aw) : aw[i].status = "unsuccessful" /\ b = aw[i].bid
        BY DEF RejectedIn
      <4>2. b \in {a.bid : a \in {x \in R : x.status = "unsuccessful"}}
              <=> \E a \in R : a.status = "unsuccessful" /\ b = a.bid
        OBVIOUS
      <4> QED BY <2>1, <4>1, <4>2
    <3> QED BY <3>1
  <2>5. /\ W!HasUndecided(t, p) <=> DisputedIn(aw)
        /\ W!StandsStill(t, p) <=> RunningIn(aw)
        /\ W!Signed(t, p) <=> SignedIn(aw)
    BY <2>1, <2>2, Zenon DEF DisputedIn, RunningIn, SignedIn
  <2>6. W!Candidates(t, p) = LeftIn(aw)
    BY <2>2, <2>4 DEF LeftIn
  <2> QED BY <2>1, <2>3, <2>5, <2>6 DEF aw, R
<1> QED BY <1>1, <1>2, <1>3

\* One field replaced by another value.
WithStatus(t, v) == [t EXCEPT !.status = v]
WithLots(t, v) == [t EXCEPT !.lots = v]
WithAwards(t, v) == [t EXCEPT !.awards = v]
WithCancelling(t, v) == [t EXCEPT !.cancelling = v]
WithWithdrawn(t, v) == [t EXCEPT !.withdrawn = v]

SameFields(s, kind, status, lots, awards, cancelling, withdrawn) ==
  /\ Document(s) /\ s.kind = kind /\ s.status = status /\ s.lots = lots /\ s.awards = awards
  /\ s.cancelling = cancelling /\ s.withdrawn = withdrawn

LEMMA DocumentMade ==
  ASSUME NEW s, NEW a, NEW b, NEW c, NEW d, NEW e, NEW f,
         s = [kind |-> a, status |-> b, lots |-> c, awards |-> d, cancelling |-> e, withdrawn |-> f]
  PROVE  SameFields(s, a, b, c, d, e, f)
BY DEF SameFields, Document

LEMMA Rebuilt ==
  ASSUME NEW t, Document(t), NEW v
  PROVE  /\ SameFields(WithStatus(t, v), t.kind, v, t.lots, t.awards, t.cancelling, t.withdrawn)
         /\ SameFields(WithLots(t, v), t.kind, t.status, v, t.awards, t.cancelling, t.withdrawn)
         /\ SameFields(WithAwards(t, v), t.kind, t.status, t.lots, v, t.cancelling, t.withdrawn)
         /\ SameFields(WithCancelling(t, v), t.kind, t.status, t.lots, t.awards, v, t.withdrawn)
         /\ SameFields(WithWithdrawn(t, v), t.kind, t.status, t.lots, t.awards, t.cancelling, v)
<1>1. PICK a, b, c, d, e, f :
        /\ t = [kind |-> a, status |-> b, lots |-> c, awards |-> d, cancelling |-> e, withdrawn |-> f]
        /\ a = t.kind /\ b = t.status /\ c = t.lots /\ d = t.awards /\ e = t.cancelling
        /\ f = t.withdrawn
  BY DEF Document
<1>2. WithStatus(t, v) = [kind |-> a, status |-> v, lots |-> c, awards |-> d, cancelling |-> e, withdrawn |-> f]
  BY <1>1 DEF WithStatus
<1>3. WithLots(t, v) = [kind |-> a, status |-> b, lots |-> v, awards |-> d, cancelling |-> e, withdrawn |-> f]
  BY <1>1 DEF WithLots
<1>4. WithAwards(t, v) = [kind |-> a, status |-> b, lots |-> c, awards |-> v, cancelling |-> e, withdrawn |-> f]
  BY <1>1 DEF WithAwards
<1>5. WithCancelling(t, v) = [kind |-> a, status |-> b, lots |-> c, awards |-> d, cancelling |-> v, withdrawn |-> f]
  BY <1>1 DEF WithCancelling
<1>6. WithWithdrawn(t, v) = [kind |-> a, status |-> b, lots |-> c, awards |-> d, cancelling |-> e, withdrawn |-> v]
  BY <1>1 DEF WithWithdrawn
<1>7. SameFields(WithStatus(t, v), a, v, c, d, e, f)
  BY <1>2, DocumentMade
<1>8. SameFields(WithLots(t, v), a, b, v, d, e, f)
  BY <1>3, DocumentMade
<1>9. SameFields(WithAwards(t, v), a, b, c, v, e, f)
  BY <1>4, DocumentMade
<1>10. SameFields(WithCancelling(t, v), a, b, c, d, v, f)
  BY <1>5, DocumentMade
<1>11. SameFields(WithWithdrawn(t, v), a, b, c, d, e, v)
  BY <1>6, DocumentMade
<1> QED BY <1>1, <1>7, <1>8, <1>9, <1>10, <1>11

\* The same decisions, stand-stills and contracts.
SameMarks(aw, bw) ==
  /\ Len(bw) = Len(aw)
  /\ \A i \in 1 .. Len(aw) :
       /\ bw[i].bid = aw[i].bid /\ bw[i].status = aw[i].status
       /\ bw[i].period = aw[i].period /\ bw[i].contract = aw[i].contract

LEMMA MarksKept ==
  ASSUME NEW aw \in Seq(Award), NEW bw \in Seq(Award), SameMarks(aw, bw)
  PROVE  /\ InTurn(aw) => InTurn(bw)
         /\ BestLeft(aw) => BestLeft(bw)
         /\ LeftIn(bw) = LeftIn(aw)
         /\ SignedIn(bw) <=> SignedIn(aw)
         /\ RunningIn(bw) <=> RunningIn(aw)
<1>1. Len(aw) \in Nat /\ Len(bw) = Len(aw)
  BY DEF SameMarks
<1>2. InTurn(aw) => InTurn(bw)
  <2> SUFFICES ASSUME InTurn(aw), NEW i \in 1 .. Len(aw)
               PROVE  /\ bw[i].status \in Live => i = Len(bw)
                      /\ bw[i].status = "active" <=> bw[i].contract \in {"pending", "active"}
                      /\ bw[i].status = "pending" => bw[i].period = "unset" /\ bw[i].contract = "none"
                      /\ bw[i].status \in {"active", "unsuccessful"} => bw[i].period # "unset"
                      /\ bw[i].contract = "active" => bw[i].period = "over"
                      /\ bw[i].period = "over" /\ bw[i].status # "cancelled" =>
                           \A j \in 1 .. i - 1 : bw[j].period # "running"
    BY <1>1, Zenon DEF InTurn
  <2>1. \A j \in 1 .. i - 1 : j \in 1 .. Len(aw) /\ bw[j].period = aw[j].period
    BY <1>1 DEF SameMarks
  <2>2. /\ bw[i].status = aw[i].status
        /\ bw[i].period = aw[i].period /\ bw[i].contract = aw[i].contract
    BY DEF SameMarks
  <2> QED BY <1>1, <2>1, <2>2 DEF InTurn
<1>3. RejectedIn(bw) = RejectedIn(aw)
  BY <1>1 DEF RejectedIn, SameMarks
<1>4. LeftIn(bw) = LeftIn(aw)
  BY <1>3 DEF LeftIn
<1>5. BestLeft(aw) => BestLeft(bw)
  BY <1>1, <1>4 DEF BestLeft, SameMarks
<1>6. /\ SignedIn(bw) <=> SignedIn(aw)
      /\ RunningIn(bw) <=> RunningIn(aw)
  BY <1>1 DEF SignedIn, RunningIn, SameMarks
<1> QED BY <1>2, <1>4, <1>5, <1>6

LEMMA Least ==
  ASSUME NEW S \in SUBSET Nat, S # {}
  PROVE  \E n \in S : \A m \in S : n <= m
<1>1. PICK n \in S : \A m \in S : <<m, n>> \notin OpToRel(<, Nat)
  BY NatLessThanWellFounded, WFMin
<1>2. \A m \in S : ~ (m < n)
  BY <1>1 DEF OpToRel
<1> QED BY <1>2

LEMMA MinIsLeast ==
  ASSUME NEW S \in SUBSET (1 .. NBids), S # {}
  PROVE  W!Min(S) \in S /\ \A b \in S : W!Min(S) <= b
<1>1. S \in SUBSET Nat
  BY BiddersAssumption
<1>2. \E n \in S : \A m \in S : n <= m
  BY <1>1, Least
<1> QED BY <1>2 DEF W!Min

\* The next award goes to the best bid that is left.
LEMMA AwardAppended ==
  ASSUME NEW aw \in Seq(Award), NEW alp \in BOOLEAN, InTurn(aw), BestLeft(aw), aw # << >>,
         aw[Len(aw)].status \notin Live, LeftIn(aw) # {}
  PROVE  LET bw == Append(aw, W!NewAward(W!Min(LeftIn(aw)), alp)) IN
         /\ bw \in Seq(Award) \ {<< >>} /\ InTurn(bw) /\ BestLeft(bw)
         /\ bw[Len(bw)].status = "pending"
         /\ LeftIn(bw) = LeftIn(aw)
         /\ SignedIn(bw) <=> SignedIn(aw)
         /\ RunningIn(bw) <=> RunningIn(aw)
         /\ DisputedIn(bw) <=> DisputedIn(aw)
<1> DEFINE b == W!Min(LeftIn(aw))
           n == W!NewAward(b, alp)
           bw == Append(aw, n)
           L == Len(aw)
<1>1. b \in LeftIn(aw) /\ b \in 1 .. NBids /\ \A c \in LeftIn(aw) : b <= c
  BY MinIsLeast DEF LeftIn
<1> HIDE DEF b
<1>2. /\ n \in Award /\ n.bid = b /\ n.status = "pending" /\ n.period = "unset"
      /\ n.contract = "none" /\ n.complaint = "none"
  BY <1>1 DEF W!NewAward, Award
<1> HIDE DEF n
<1>3. /\ L \in Nat /\ bw \in Seq(Award) \ {<< >>} /\ Len(bw) = L + 1 /\ bw[L + 1] = n
      /\ \A i \in 1 .. L : bw[i] = aw[i] /\ i \in 1 .. L + 1
      /\ \A i \in 1 .. L + 1 : i \in 1 .. L \/ i = L + 1
  BY <1>2
<1> HIDE DEF bw
<1>4. \A i \in 1 .. L : aw[i].status \notin Live
  BY <1>3 DEF InTurn
<1>5. InTurn(bw)
  <2> SUFFICES ASSUME NEW i \in 1 .. L + 1
               PROVE  /\ bw[i].status \in Live => i = L + 1
                      /\ bw[i].status = "active" <=> bw[i].contract \in {"pending", "active"}
                      /\ bw[i].status = "pending" => bw[i].period = "unset" /\ bw[i].contract = "none"
                      /\ bw[i].status \in {"active", "unsuccessful"} => bw[i].period # "unset"
                      /\ bw[i].contract = "active" => bw[i].period = "over"
                      /\ bw[i].period = "over" /\ bw[i].status # "cancelled" =>
                           \A j \in 1 .. i - 1 : bw[j].period # "running"
    BY <1>3, Zenon DEF InTurn
  <2>1. CASE i = L + 1
    BY <1>2, <1>3, <2>1
  <2>2. CASE i \in 1 .. L
    <3>1. \A j \in 1 .. i - 1 : bw[j] = aw[j]
      BY <1>3, <2>2
    <3> QED BY <1>3, <1>4, <2>2, <3>1 DEF InTurn
  <2> QED BY <1>3, <2>1, <2>2
<1>6. RejectedIn(bw) = RejectedIn(aw)
  <2>1. ASSUME NEW c PROVE c \in RejectedIn(bw) <=> c \in RejectedIn(aw)
    <3>1. c \in RejectedIn(aw) <=> \E i \in 1 .. L : aw[i].status = "unsuccessful" /\ c = aw[i].bid
      BY DEF RejectedIn
    <3>2. c \in RejectedIn(bw) <=> \E i \in 1 .. L + 1 : bw[i].status = "unsuccessful" /\ c = bw[i].bid
      BY <1>3 DEF RejectedIn
    <3> QED BY <1>2, <1>3, <3>1, <3>2
  <2> QED BY <2>1
<1>7. LeftIn(bw) = LeftIn(aw)
  BY <1>6 DEF LeftIn
<1>8. BestLeft(bw)
  BY <1>1, <1>2, <1>3, <1>4, <1>7 DEF BestLeft
<1>9. /\ SignedIn(bw) <=> SignedIn(aw)
      /\ RunningIn(bw) <=> RunningIn(aw)
      /\ DisputedIn(bw) <=> DisputedIn(aw)
  <2>1. "none" \notin Undecided
    BY DEF Undecided
  <2> QED BY <1>2, <1>3, <2>1 DEF SignedIn, RunningIn, DisputedIn
<1>10. bw[Len(bw)].status = "pending"
  BY <1>2, <1>3
<1> QED BY <1>3, <1>5, <1>7, <1>8, <1>9, <1>10 DEF bw, n, b

-----------------------------------------------------------------------------
(* The functions a request runs.                                           *)

LEMMA StatusNames ==
  /\ W!Underway = {"active.qualification", "active.awarded"}
  /\ W!Finished = {"complete", "unsuccessful", "cancelled"}
BY DEF W!Underway, W!Finished

LEMMA ShapeKept ==
  ASSUME NEW t, Shape(t)
  PROVE  /\ \A v \in W!Underway \cup W!Finished : Shape(WithStatus(t, v))
         /\ \A v \in [DOMAIN t.lots -> LotState] : Shape(WithLots(t, v))
         /\ \A v \in [DOMAIN t.awards -> Seq(Award) \ {<< >>}] : Shape(WithAwards(t, v))
         /\ \A v \in DOMAIN t.awards \cup {Whole, Nobody} : Shape(WithCancelling(t, v))
         /\ \A v \in BOOLEAN : Shape(WithWithdrawn(t, v))
<1>1. Document(t)
  BY DEF Shape
<1>2. ASSUME NEW v \in W!Underway \cup W!Finished PROVE Shape(WithStatus(t, v))
  <2>1. SameFields(WithStatus(t, v), t.kind, v, t.lots, t.awards, t.cancelling, t.withdrawn)
    BY <1>1, Rebuilt
  <2> QED BY <1>2, <2>1, Zenon DEF SameFields, Shape
<1>3. ASSUME NEW v \in [DOMAIN t.lots -> LotState] PROVE Shape(WithLots(t, v))
  <2>1. DOMAIN v = DOMAIN t.lots
    OBVIOUS
  <2>2. SameFields(WithLots(t, v), t.kind, t.status, v, t.awards, t.cancelling, t.withdrawn)
    BY <1>1, Rebuilt
  <2> QED BY <2>1, <2>2, Zenon DEF SameFields, Shape
<1>4. ASSUME NEW v \in [DOMAIN t.awards -> Seq(Award) \ {<< >>}] PROVE Shape(WithAwards(t, v))
  <2>1. DOMAIN t.awards = PartsOf(DOMAIN t.lots)
    BY ShapeFields
  <2>2. SameFields(WithAwards(t, v), t.kind, t.status, t.lots, v, t.cancelling, t.withdrawn)
    BY <1>1, Rebuilt
  <2> QED BY <2>1, <2>2, Zenon DEF SameFields, Shape
<1>5. ASSUME NEW v \in DOMAIN t.awards \cup {Whole, Nobody} PROVE Shape(WithCancelling(t, v))
  <2>1. DOMAIN t.awards = PartsOf(DOMAIN t.lots)
    BY ShapeFields
  <2>2. SameFields(WithCancelling(t, v), t.kind, t.status, t.lots, t.awards, v, t.withdrawn)
    BY <1>1, Rebuilt
  <2>3. v \in PartsOf(DOMAIN t.lots) \cup {Whole, Nobody}
    BY <2>1
  <2> QED BY <2>2, <2>3, Zenon DEF SameFields, Shape
<1>6. ASSUME NEW v \in BOOLEAN PROVE Shape(WithWithdrawn(t, v))
  <2>1. SameFields(WithWithdrawn(t, v), t.kind, t.status, t.lots, t.awards, t.cancelling, v)
    BY <1>1, Rebuilt
  <2> QED BY <1>6, <2>1, Zenon DEF SameFields, Shape
<1> QED BY <1>2, <1>3, <1>4, <1>5, <1>6

\* What a change of awards needs to be followed by add_next_award.
Ready(t) == Steady(t) /\ OpenUnsigned(t) /\ LotIsOpen(t) /\ t.status \in W!Underway

LEMMA AddNextAwardSound ==
  ASSUME NEW t, Ready(t), NEW alp \in BOOLEAN
  PROVE  Sound(W!AddNextAward(t, alp)) /\ W!AddNextAward(t, alp).status \in W!Underway
<1> DEFINE N(p) == IF p \in W!ActiveParts(t) /\ W!Vacant(t, p) /\ W!Candidates(t, p) # {}
                   THEN Append(t.awards[p], W!NewAward(W!Min(W!Candidates(t, p)), alp))
                   ELSE t.awards[p]
           aws == [p \in W!Parts(t) |-> N(p)]
           s == WithAwards(t, aws)
           v == IF \E p \in W!ActiveParts(s) : W!Latest(s, p).status = "pending"
                THEN "active.qualification" ELSE "active.awarded"
           r == WithStatus(s, v)
<1>1. W!AddNextAward(t, alp) = r
  BY Zenon DEF W!AddNextAward, WithAwards, WithStatus
<1>2. v \in W!Underway
  BY StatusNames
<1>3. Shape(t) /\ t.status \in W!Underway
  BY DEF Ready, Steady
<1>4. ASSUME NEW p \in DOMAIN t.awards
      PROVE  /\ N(p) \in Seq(Award) \ {<< >>} /\ InTurn(N(p)) /\ BestLeft(N(p))
             /\ LeftIn(N(p)) = LeftIn(t.awards[p])
             /\ SignedIn(N(p)) <=> SignedIn(t.awards[p])
             /\ RunningIn(N(p)) <=> RunningIn(t.awards[p])
             /\ DisputedIn(N(p)) <=> DisputedIn(t.awards[p])
             /\ IsOpen(t, p) /\ LeftIn(N(p)) # {} => N(p)[Len(N(p))].status \in Live
  <2> DEFINE aw == t.awards[p]
  <2>1. aw \in Seq(Award) /\ aw # << >> /\ InTurn(aw) /\ BestLeft(aw)
    BY <1>3, AwardsOfPart DEF Ready, Steady
  <2>2. N(p) = IF IsOpen(t, p) /\ aw[Len(aw)].status \notin Live /\ LeftIn(aw) # {}
               THEN Append(aw, W!NewAward(W!Min(LeftIn(aw)), alp)) ELSE aw
    BY <1>3, OfAwards
  <2> HIDE DEF N, aw
  <2>3. CASE IsOpen(t, p) /\ aw[Len(aw)].status \notin Live /\ LeftIn(aw) # {}
    <3>1. "pending" \in Live
      BY DEF Live
    <3> QED BY <2>1, <2>2, <2>3, <3>1, AwardAppended DEF aw
  <2>4. CASE ~ (IsOpen(t, p) /\ aw[Len(aw)].status \notin Live /\ LeftIn(aw) # {})
    BY <2>1, <2>2, <2>4 DEF aw
  <2> QED BY <2>3, <2>4
<1>5. aws \in [DOMAIN t.awards -> Seq(Award) \ {<< >>}] /\ \A p \in DOMAIN t.awards : aws[p] = N(p)
  <2>1. W!Parts(t) = DOMAIN t.awards
    BY <1>3, OfAwards
  <2> HIDE DEF N
  <2> QED BY <1>4, <2>1
<1> HIDE DEF aws, v, N
<1>6. Shape(s)
  BY <1>3, <1>5, ShapeKept
<1>7. SameFields(s, t.kind, t.status, t.lots, aws, t.cancelling, t.withdrawn)
  BY <1>3, ShapeFields, Rebuilt
<1> HIDE DEF s
<1>8. Shape(r)
  BY <1>2, <1>6, ShapeKept
<1>9. SameFields(r, t.kind, v, t.lots, aws, t.cancelling, t.withdrawn)
  BY <1>6, <1>7, ShapeFields, Rebuilt DEF SameFields
<1>10. /\ r.status = v /\ r.lots = t.lots /\ r.awards = aws
       /\ DOMAIN r.awards = DOMAIN t.awards
       /\ \A p \in DOMAIN t.awards : r.awards[p] = N(p)
  BY <1>5, <1>9 DEF SameFields
<1> HIDE DEF r
<1>11. \A p \in DOMAIN t.awards :
         /\ IsOpen(r, p) = IsOpen(t, p)
         /\ OutcomeIn(r, p) = OutcomeIn(t, p) \/ {OutcomeIn(r, p), OutcomeIn(t, p)} \subseteq W!Underway
  BY <1>2, <1>3, <1>10 DEF IsOpen, OutcomeIn
<1>12. ASSUME NEW p \in DOMAIN t.awards PROVE ClosedFits(r, p)
  BY <1>4, <1>10, <1>11, StatusNames DEF ClosedFits, Ready, Steady
<1>13. Steady(r)
  BY <1>4, <1>8, <1>10, <1>12 DEF Steady
<1>14. Filled(r)
  BY <1>4, <1>10, <1>11 DEF Filled
<1>15. OpenUnsigned(r)
  BY <1>4, <1>10, <1>11 DEF Ready, OpenUnsigned
<1>16. LotIsOpen(r)
  BY <1>3, <1>10 DEF Ready, LotIsOpen
<1> QED BY <1>1, <1>2, <1>10, <1>13, <1>14, <1>15, <1>16 DEF Sound

\* What holds of the awards holds whatever the status and the withdrawal are.
LEMMA FollowLotsSound ==
  ASSUME NEW t, Steady(t), Filled(t), OpenUnsigned(t), DOMAIN t.lots # {}
  PROVE  Sound(W!FollowLots(t)) /\ W!FollowLots(t).cancelling = t.cancelling
<1> DEFINE all == W!Range(t.lots)
           v == IF all = {"cancelled"} THEN "cancelled"
                ELSE IF all \subseteq {"unsuccessful", "cancelled"} THEN "unsuccessful"
                ELSE IF all \subseteq {"complete", "unsuccessful", "cancelled"} THEN "complete"
                ELSE t.status
           r == WithStatus(t, v)
<1>1. W!FollowLots(t) = r
  BY Zenon DEF W!FollowLots, WithStatus
<1>2. Shape(t) /\ t.lots \in [DOMAIN t.lots -> LotState] /\ t.status \in W!Underway \cup W!Finished
  BY ShapeFields DEF Steady
<1>3. v \in W!Underway \cup W!Finished
  BY <1>2, StatusNames
<1>4. v \in W!Underway => \E l \in DOMAIN t.lots : t.lots[l] = "active"
  <2> SUFFICES ASSUME v \in W!Underway PROVE \E l \in DOMAIN t.lots : t.lots[l] = "active"
    OBVIOUS
  <2>1. ~ (all \subseteq {"complete", "unsuccessful", "cancelled"})
    BY StatusNames
  <2>2. PICK l \in DOMAIN t.lots : t.lots[l] \notin {"complete", "unsuccessful", "cancelled"}
    BY <2>1 DEF W!Range
  <2> QED BY <1>2, <2>2 DEF LotState
<1> HIDE DEF v
<1>5. Shape(r) /\ SameFields(r, t.kind, v, t.lots, t.awards, t.cancelling, t.withdrawn)
  BY <1>2, <1>3, ShapeKept, ShapeFields, Rebuilt
<1>6. r.status = v /\ r.lots = t.lots /\ r.awards = t.awards /\ r.cancelling = t.cancelling
  BY <1>5 DEF SameFields
<1> HIDE DEF r
<1>7. \A p : OutcomeIn(r, p) = OutcomeIn(t, p) /\ IsOpen(r, p) = IsOpen(t, p)
  BY <1>6 DEF OutcomeIn, IsOpen
<1>8. Steady(r)
  BY <1>5, <1>6, <1>7, Zenon DEF Steady, ClosedFits
<1>9. Filled(r) /\ OpenUnsigned(r)
  BY <1>6, <1>7, Zenon DEF Filled, OpenUnsigned
<1>10. LotIsOpen(r)
  BY <1>4, <1>6 DEF LotIsOpen
<1> QED BY <1>1, <1>6, <1>8, <1>9, <1>10 DEF Sound

\* How an open part is closed follows from its last award.
LEMMA OutcomeOfPart ==
  ASSUME NEW t, Steady(t), NEW p \in DOMAIN t.awards
  PROVE  LET aw == t.awards[p]
             last == t.awards[p][Len(t.awards[p])] IN
         /\ W!Outcome(t, p) \in {"open", "unsuccessful", "complete"}
         /\ W!Outcome(t, p) = "unsuccessful" =>
              IsOpen(t, p) /\ ~ DisputedIn(aw) /\ ~ RunningIn(aw) /\ last.status = "unsuccessful"
         /\ W!Outcome(t, p) = "complete" => IsOpen(t, p) /\ SignedIn(aw)
         /\ SignedIn(aw) => last.status = "active" /\ last.contract = "active"
         /\ last.contract = "active" => SignedIn(aw)
         /\ SignedIn(aw) /\ IsOpen(t, p) => W!Outcome(t, p) = "complete"
<1> DEFINE aw == t.awards[p]
           last == aw[Len(aw)]
<1>1. Shape(t) /\ InTurn(aw) /\ ClosedFits(t, p)
  BY DEF Steady
<1>2. Len(aw) \in Nat /\ Len(aw) >= 1 /\ \A i \in 1 .. Len(aw) : aw[i] \in Award
  BY <1>1, AwardsOfPart
<1>3. W!Outcome(t, p) =
        IF ~ IsOpen(t, p) \/ DisputedIn(aw) \/ RunningIn(aw) THEN "open"
        ELSE IF last.status = "unsuccessful" THEN "unsuccessful"
        ELSE IF last.status = "active" /\ last.contract = "active" THEN "complete" ELSE "open"
  BY <1>1, OfAwards DEF W!Outcome
<1>4. SignedIn(aw) => last.status = "active" /\ last.contract = "active"
  <2> SUFFICES ASSUME NEW i \in 1 .. Len(aw), aw[i].contract = "active"
               PROVE  last.status = "active" /\ last.contract = "active"
    BY DEF SignedIn
  <2>1. aw[i].status = "active"
    BY <1>1 DEF InTurn
  <2>2. i = Len(aw)
    BY <1>1, <2>1 DEF InTurn, Live
  <2> QED BY <2>1, <2>2
<1>5. last.contract = "active" => SignedIn(aw)
  BY <1>2 DEF SignedIn
<1>6. SignedIn(aw) => ~ RunningIn(aw) /\ ~ DisputedIn(aw)
  BY <1>1 DEF ClosedFits
<1> HIDE DEF last
<1> QED BY <1>3, <1>4, <1>5, <1>6 DEF last

LEMMA CheckTenderStatusSound ==
  ASSUME NEW t, Steady(t), Filled(t), t.status \in W!Underway
  PROVE  Sound(W!CheckTenderStatus(t)) /\ W!CheckTenderStatus(t).cancelling = t.cancelling
<1>1. Shape(t) /\ t.lots \in [DOMAIN t.lots -> LotState]
  BY ShapeFields DEF Steady
<1>2. CASE DOMAIN t.lots # {}
  <2> DEFINE v == [l \in DOMAIN t.lots |->
                     IF W!Outcome(t, l) = "open" THEN t.lots[l] ELSE W!Outcome(t, l)]
             s == WithLots(t, v)
  <2>1. W!CheckTenderStatus(t) = W!FollowLots(s)
    BY <1>1, <1>2, OfAwards DEF W!CheckTenderStatus, WithLots
  <2>2. DOMAIN t.awards = DOMAIN t.lots
    BY <1>1, <1>2, ShapeFields
  <2>3. v \in [DOMAIN t.lots -> LotState] /\ DOMAIN v = DOMAIN t.lots
        /\ \A l \in DOMAIN t.lots :
             v[l] = IF W!Outcome(t, l) = "open" THEN t.lots[l] ELSE W!Outcome(t, l)
    BY <1>1, <2>2, OutcomeOfPart DEF LotState
  <2> HIDE DEF v
  <2>4. Shape(s) /\ SameFields(s, t.kind, t.status, v, t.awards, t.cancelling, t.withdrawn)
    BY <1>1, <2>3, ShapeKept, ShapeFields, Rebuilt
  <2>5. s.lots = v /\ s.awards = t.awards /\ s.cancelling = t.cancelling
    BY <2>4 DEF SameFields
  <2> HIDE DEF s
  <2>6. \A p \in DOMAIN t.awards :
          /\ OutcomeIn(t, p) = t.lots[p] /\ OutcomeIn(s, p) = v[p]
          /\ IsOpen(t, p) <=> t.lots[p] = "active"
          /\ IsOpen(s, p) <=> v[p] = "active"
    BY <1>2, <2>2, <2>3, <2>5 DEF OutcomeIn, IsOpen
  <2>7. ASSUME NEW p \in DOMAIN t.awards PROVE ClosedFits(s, p)
    <3>1. ClosedFits(t, p)
      BY DEF Steady
    <3>2. CASE W!Outcome(t, p) = "open"
      BY <2>2, <2>3, <2>5, <2>6, <3>1, <3>2 DEF ClosedFits
    <3>3. CASE W!Outcome(t, p) = "complete"
      BY <2>2, <2>3, <2>5, <2>6, <3>1, <3>3, OutcomeOfPart DEF ClosedFits
    <3>4. CASE W!Outcome(t, p) = "unsuccessful"
      <4>1. LeftIn(t.awards[p]) = {}
        BY <3>4, OutcomeOfPart DEF Filled, Live
      <4> QED BY <2>2, <2>3, <2>5, <2>6, <3>1, <3>4, <4>1, OutcomeOfPart DEF ClosedFits
    <3> QED BY <3>2, <3>3, <3>4, OutcomeOfPart
  <2>8. Steady(s)
    BY <2>4, <2>5, <2>7 DEF Steady
  <2>9. \A p \in DOMAIN t.awards : v[p] = "active" => t.lots[p] = "active" /\ ~ SignedIn(t.awards[p])
    <3> SUFFICES ASSUME NEW p \in DOMAIN t.awards, v[p] = "active"
                 PROVE  t.lots[p] = "active" /\ ~ SignedIn(t.awards[p])
      OBVIOUS
    <3>1. W!Outcome(t, p) = "open" /\ t.lots[p] = "active"
      BY <2>2, <2>3, OutcomeOfPart
    <3> QED BY <2>6, <3>1, OutcomeOfPart
  <2>10. Filled(s)
    BY <2>5, <2>6, <2>9 DEF Filled
  <2>11. OpenUnsigned(s)
    <3>1. \A p \in DOMAIN t.awards : v[p] \notin W!Underway
      BY <2>2, <2>3, StatusNames DEF LotState
    <3> QED BY <2>5, <2>6, <2>9, <3>1 DEF OpenUnsigned
  <2>12. DOMAIN s.lots # {}
    BY <1>2, <2>3, <2>5
  <2> QED BY <2>1, <2>5, <2>8, <2>10, <2>11, <2>12, FollowLotsSound
<1>3. CASE DOMAIN t.lots = {}
  <2> DEFINE v == IF W!Latest(t, Whole).contract = "active" THEN "complete"
                  ELSE IF W!Outcome(t, Whole) = "unsuccessful" THEN "unsuccessful" ELSE t.status
             r == WithStatus(t, v)
             aw == t.awards[Whole]
  <2>1. W!CheckTenderStatus(t) = r
    BY <1>1, <1>3, OfAwards DEF W!CheckTenderStatus, WithStatus
  <2>2. DOMAIN t.awards = {Whole} /\ W!Latest(t, Whole) = aw[Len(aw)]
    BY <1>1, <1>3, ShapeFields, OfAwards
  <2>3. v \in W!Underway \cup W!Finished
    BY StatusNames
  <2>4. Shape(r) /\ SameFields(r, t.kind, v, t.lots, t.awards, t.cancelling, t.withdrawn)
    BY <1>1, <2>3, ShapeKept, ShapeFields, Rebuilt
  <2>5. r.status = v /\ r.lots = t.lots /\ r.awards = t.awards /\ r.cancelling = t.cancelling
    BY <2>4 DEF SameFields
  <2>6. OutcomeIn(r, Whole) = v /\ IsOpen(r, Whole) /\ IsOpen(t, Whole)
    BY <1>3, <2>5 DEF OutcomeIn, IsOpen
  <2>7. /\ v = "complete" => SignedIn(aw)
        /\ v = "unsuccessful" => LeftIn(aw) = {} /\ ~ RunningIn(aw) /\ ~ DisputedIn(aw)
        /\ v \in W!Underway => ~ SignedIn(aw)
        /\ v # "active"
    <3>1. "unsuccessful" \notin Live
      BY DEF Live
    <3>2. W!Outcome(t, Whole) = "unsuccessful" => LeftIn(aw) = {}
      BY <2>2, <2>6, <3>1, OutcomeOfPart DEF Filled
    <3> QED BY <2>2, <3>2, OutcomeOfPart, StatusNames
  <2> HIDE DEF v, r, aw
  <2>8. ClosedFits(r, Whole)
    <3>1. SignedIn(aw) => ~ RunningIn(aw) /\ ~ DisputedIn(aw)
      BY <2>2 DEF Steady, ClosedFits, aw
    <3> QED BY <2>2, <2>5, <2>6, <2>7, <3>1 DEF ClosedFits, aw
  <2>9. Steady(r)
    BY <2>2, <2>4, <2>5, <2>8 DEF Steady
  <2>10. Filled(r)
    BY <2>2, <2>5, <2>6 DEF Filled
  <2>11. OpenUnsigned(r)
    BY <2>2, <2>5, <2>6, <2>7 DEF OpenUnsigned, aw
  <2>12. LotIsOpen(r)
    BY <1>3, <2>5 DEF LotIsOpen
  <2> QED BY <2>1, <2>5, <2>9, <2>10, <2>11, <2>12 DEF Sound
<1> QED BY <1>2, <1>3

LEMMA PutInForceSound ==
  ASSUME NEW t, Sound(t), t.cancelling # Nobody
  PROVE  Sound(W!PutInForce(t))
<1> DEFINE s == WithCancelling(t, Nobody)
<1>1. Shape(t) /\ t.cancelling \in PartsOf(DOMAIN t.lots) \cup {Whole, Nobody}
  BY ShapeFields DEF Sound, Steady
<1>2. Shape(s) /\ SameFields(s, t.kind, t.status, t.lots, t.awards, Nobody, t.withdrawn)
  BY <1>1, ShapeKept, ShapeFields, Rebuilt
<1>3. W!PutInForce(t) =
        IF t.cancelling = Whole THEN WithStatus(s, "cancelled")
        ELSE W!FollowLots(WithLots(s, [s.lots EXCEPT ![t.cancelling] = "cancelled"]))
  BY Zenon DEF W!PutInForce, WithStatus, WithLots, WithCancelling
<1>4. s.lots = t.lots /\ s.awards = t.awards /\ s.status = t.status
  BY <1>2 DEF SameFields
<1> HIDE DEF s
<1>5. CASE t.cancelling = Whole
  <2> DEFINE r == WithStatus(s, "cancelled")
  <2>1. Shape(r) /\ SameFields(r, s.kind, "cancelled", s.lots, s.awards, s.cancelling, s.withdrawn)
    BY <1>2, StatusNames, ShapeKept, ShapeFields, Rebuilt
  <2>2. r.status = "cancelled" /\ r.lots = t.lots /\ r.awards = t.awards
    BY <1>4, <2>1 DEF SameFields
  <2> HIDE DEF r
  <2>3. \A p : /\ IsOpen(r, p) = IsOpen(t, p)
               /\ OutcomeIn(r, p) = OutcomeIn(t, p) \/ OutcomeIn(r, p) = "cancelled"
    BY <2>2 DEF IsOpen, OutcomeIn
  <2>4. Steady(r)
    BY <2>1, <2>2, <2>3 DEF Sound, Steady, ClosedFits
  <2>5. Filled(r) /\ OpenUnsigned(r) /\ LotIsOpen(r)
    BY <2>2, <2>3, StatusNames DEF Sound, Filled, OpenUnsigned, LotIsOpen
  <2> QED BY <1>3, <1>5, <2>4, <2>5 DEF Sound, r
<1>6. CASE t.cancelling # Whole
  <2>1. t.cancelling \in DOMAIN t.lots
    BY <1>1, <1>6 DEF PartsOf
  <2> DEFINE v == [t.lots EXCEPT ![t.cancelling] = "cancelled"]
             r == WithLots(s, v)
  <2>2. /\ t.lots \in [DOMAIN t.lots -> LotState] /\ v \in [DOMAIN t.lots -> LotState]
        /\ DOMAIN v = DOMAIN t.lots /\ v[t.cancelling] = "cancelled"
        /\ \A l \in DOMAIN t.lots : l # t.cancelling => v[l] = t.lots[l]
    BY <1>1, <2>1, ShapeFields DEF LotState
  <2> HIDE DEF v
  <2>3. Shape(r) /\ SameFields(r, s.kind, s.status, v, s.awards, s.cancelling, s.withdrawn)
    BY <1>2, <1>4, <2>2, ShapeKept, ShapeFields, Rebuilt
  <2>4. r.lots = v /\ r.awards = t.awards
    BY <1>4, <2>3 DEF SameFields
  <2> HIDE DEF r
  <2>5. \A p \in DOMAIN t.awards :
          /\ p \in DOMAIN t.lots
          /\ IsOpen(r, p) => IsOpen(t, p)
          /\ OutcomeIn(r, p) = OutcomeIn(t, p) \/ OutcomeIn(r, p) = "cancelled"
    BY <1>1, <2>1, <2>2, <2>4, ShapeFields DEF IsOpen, OutcomeIn
  <2>6. Steady(r)
    BY <2>3, <2>4, <2>5 DEF Sound, Steady, ClosedFits
  <2>7. Filled(r) /\ OpenUnsigned(r)
    BY <2>4, <2>5, StatusNames DEF Sound, Filled, OpenUnsigned
  <2>8. Sound(W!FollowLots(r))
    BY <2>1, <2>2, <2>4, <2>6, <2>7, FollowLotsSound
  <2> QED BY <1>3, <1>4, <1>6, <2>8 DEF r, v
<1> QED BY <1>5, <1>6

-----------------------------------------------------------------------------
(* Changes of awards.                                                      *)

\* Other awards of the same parts.
LEMMA AwardsPut ==
  ASSUME NEW t, Shape(t), NEW aws \in [DOMAIN t.awards -> Seq(Award) \ {<< >>}]
  PROVE  LET r == WithAwards(t, aws) IN
         /\ Shape(r) /\ r.status = t.status /\ r.lots = t.lots /\ r.awards = aws
         /\ r.cancelling = t.cancelling /\ r.kind = t.kind /\ r.withdrawn = t.withdrawn
         /\ \A p : OutcomeIn(r, p) = OutcomeIn(t, p) /\ (IsOpen(r, p) <=> IsOpen(t, p))
<1> DEFINE r == WithAwards(t, aws)
<1>1. Shape(r) /\ SameFields(r, t.kind, t.status, t.lots, aws, t.cancelling, t.withdrawn)
  BY ShapeKept, ShapeFields, Rebuilt
<1>2. /\ r.status = t.status /\ r.lots = t.lots /\ r.awards = aws /\ r.cancelling = t.cancelling
      /\ r.kind = t.kind /\ r.withdrawn = t.withdrawn
  BY <1>1, Zenon DEF SameFields
<1> HIDE DEF r
<1>3. \A p : OutcomeIn(r, p) = OutcomeIn(t, p) /\ (IsOpen(r, p) <=> IsOpen(t, p))
  BY <1>2 DEF OutcomeIn, IsOpen
<1> QED BY <1>1, <1>2, <1>3 DEF r

\* New disputes are about parts that are not closed.
Opened(t, p) == OutcomeIn(t, p) \in W!Underway \cup {"active"}

LEMMA MarksPut ==
  ASSUME NEW t, Sound(t), NEW aws \in [DOMAIN t.awards -> Seq(Award) \ {<< >>}],
         \A p \in DOMAIN t.awards :
           /\ SameMarks(t.awards[p], aws[p])
           /\ DisputedIn(aws[p]) => DisputedIn(t.awards[p]) \/ Opened(t, p)
  PROVE  Sound(WithAwards(t, aws))
<1> DEFINE r == WithAwards(t, aws)
<1>1. Shape(t)
  BY DEF Sound, Steady
<1>2. /\ Shape(r) /\ r.status = t.status /\ r.lots = t.lots /\ r.awards = aws
      /\ DOMAIN aws = DOMAIN t.awards
      /\ \A p : OutcomeIn(r, p) = OutcomeIn(t, p) /\ (IsOpen(r, p) <=> IsOpen(t, p))
  BY <1>1, AwardsPut
<1> HIDE DEF r
<1>3. ASSUME NEW p \in DOMAIN t.awards
      PROVE  /\ InTurn(aws[p]) /\ BestLeft(aws[p]) /\ LeftIn(aws[p]) = LeftIn(t.awards[p])
             /\ SignedIn(aws[p]) <=> SignedIn(t.awards[p])
             /\ RunningIn(aws[p]) <=> RunningIn(t.awards[p])
             /\ aws[p][Len(aws[p])].status = t.awards[p][Len(t.awards[p])].status
  <2>1. t.awards[p] \in Seq(Award) /\ aws[p] \in Seq(Award) /\ Len(t.awards[p]) \in 1 .. Len(t.awards[p])
    BY <1>1, AwardsOfPart
  <2>2. InTurn(t.awards[p]) /\ BestLeft(t.awards[p])
    BY DEF Sound, Steady
  <2>3. aws[p][Len(aws[p])].status = t.awards[p][Len(t.awards[p])].status
    BY <2>1 DEF SameMarks
  <2> QED BY <2>1, <2>2, <2>3, MarksKept
<1>4. ASSUME NEW p \in DOMAIN t.awards PROVE ClosedFits(r, p)
  <2>1. ClosedFits(t, p) /\ (Opened(t, p) => ~ SignedIn(t.awards[p]))
    BY DEF Sound, Steady, OpenUnsigned, Opened
  <2>2. Opened(t, p) => OutcomeIn(t, p) \notin {"complete", "unsuccessful"}
    BY StatusNames DEF Opened
  <2> QED BY <1>2, <1>3, <2>1, <2>2 DEF ClosedFits
<1>5. Steady(r)
  BY <1>2, <1>3, <1>4, Zenon DEF Steady
<1>6. Filled(r)
  BY <1>2, <1>3, Zenon DEF Sound, Filled
<1>7. OpenUnsigned(r)
  BY <1>2, <1>3, Zenon DEF Sound, OpenUnsigned
<1>8. LotIsOpen(r)
  BY <1>2, Zenon DEF Sound, LotIsOpen
<1> QED BY <1>5, <1>6, <1>7, <1>8 DEF Sound, r

\* Other awards of one part, and one award put in the place of another.
WithPart(t, p, bw) == WithAwards(t, [t.awards EXCEPT ![p] = bw])
PutAward(t, p, i, a) == WithPart(t, p, [t.awards[p] EXCEPT ![i] = a])

LEMMA PartPut ==
  ASSUME NEW t, Shape(t), NEW p \in DOMAIN t.awards, NEW bw \in Seq(Award), bw # << >>
  PROVE  LET r == WithPart(t, p, bw) IN
         /\ Shape(r) /\ r.status = t.status /\ r.lots = t.lots
         /\ DOMAIN r.awards = DOMAIN t.awards /\ r.awards[p] = bw
         /\ \A q \in DOMAIN t.awards : q # p => r.awards[q] = t.awards[q]
         /\ r.cancelling = t.cancelling /\ r.kind = t.kind /\ r.withdrawn = t.withdrawn
         /\ \A q : OutcomeIn(r, q) = OutcomeIn(t, q) /\ (IsOpen(r, q) <=> IsOpen(t, q))
<1> DEFINE aws == [t.awards EXCEPT ![p] = bw]
<1>1. t.awards \in [DOMAIN t.awards -> Seq(Award) \ {<< >>}]
  BY ShapeFields
<1>2. /\ aws \in [DOMAIN t.awards -> Seq(Award) \ {<< >>}] /\ DOMAIN aws = DOMAIN t.awards
      /\ aws[p] = bw /\ \A q \in DOMAIN t.awards : q # p => aws[q] = t.awards[q]
  BY <1>1
<1>3. WithPart(t, p, bw) = WithAwards(t, aws)
  BY Zenon DEF WithPart
<1> HIDE DEF aws
<1> QED BY <1>2, <1>3, AwardsPut

LEMMA AwardPut ==
  ASSUME NEW aw \in Seq(Award), NEW i \in 1 .. Len(aw), NEW a \in Award
  PROVE  LET bw == [aw EXCEPT ![i] = a] IN
         /\ bw \in Seq(Award) /\ bw # << >> /\ Len(bw) = Len(aw) /\ bw[i] = a
         /\ \A j \in 1 .. Len(aw) : j # i => bw[j] = aw[j]
<1> DEFINE bw == [aw EXCEPT ![i] = a]
<1>1. bw \in Seq(Award) /\ Len(bw) = Len(aw)
  OBVIOUS
<1>2. DOMAIN aw = 1 .. Len(aw) /\ Len(aw) \in Nat
  OBVIOUS
<1>3. bw[i] = a /\ \A j \in 1 .. Len(aw) : j # i => bw[j] = aw[j]
  BY <1>2
<1>4. Len(bw) # 0
  BY <1>1, <1>2
<1> QED BY <1>1, <1>3, <1>4

\* An award is decided or cancelled, or all of a part are.
LEMMA PartDecided ==
  ASSUME NEW t, Sound(t), t.status \in W!Underway, NEW p \in DOMAIN t.awards, IsOpen(t, p),
         NEW bw \in Seq(Award), bw # << >>, InTurn(bw), BestLeft(bw), ~ SignedIn(bw)
  PROVE  Ready(WithPart(t, p, bw))
<1> DEFINE r == WithPart(t, p, bw)
<1>1. Shape(t)
  BY DEF Sound, Steady
<1>2. /\ Shape(r) /\ r.status = t.status /\ r.lots = t.lots
      /\ DOMAIN r.awards = DOMAIN t.awards /\ r.awards[p] = bw
      /\ \A q \in DOMAIN t.awards : q # p => r.awards[q] = t.awards[q]
      /\ \A q : OutcomeIn(r, q) = OutcomeIn(t, q) /\ (IsOpen(r, q) <=> IsOpen(t, q))
  BY <1>1, PartPut
<1> HIDE DEF r
<1>3. OutcomeIn(t, p) \notin {"complete", "unsuccessful"}
  BY StatusNames DEF OutcomeIn, IsOpen
<1>4. ASSUME NEW q \in DOMAIN t.awards PROVE ClosedFits(r, q)
  <2>1. ClosedFits(t, q)
    BY DEF Sound, Steady
  <2> QED BY <1>2, <1>3, <2>1, Zenon DEF ClosedFits
<1>5. \A q \in DOMAIN t.awards : InTurn(r.awards[q]) /\ BestLeft(r.awards[q])
  BY <1>2, Zenon DEF Sound, Steady
<1>6. Steady(r)
  BY <1>2, <1>4, <1>5, Zenon DEF Steady
<1>7. OpenUnsigned(r)
  BY <1>2, Zenon DEF Sound, OpenUnsigned
<1>8. LotIsOpen(r)
  BY <1>2, Zenon DEF Sound, LotIsOpen
<1> QED BY <1>2, <1>6, <1>7, <1>8 DEF Ready, r

LEMMA PartMarked ==
  ASSUME NEW t, Sound(t), NEW p \in DOMAIN t.awards, NEW bw \in Seq(Award),
         SameMarks(t.awards[p], bw), DisputedIn(bw) => DisputedIn(t.awards[p]) \/ Opened(t, p)
  PROVE  Sound(WithPart(t, p, bw))
<1> DEFINE aws == [t.awards EXCEPT ![p] = bw]
<1>1. Shape(t)
  BY DEF Sound, Steady
<1>2. Len(bw) # 0
  BY <1>1, AwardsOfPart DEF SameMarks
<1>3. t.awards \in [DOMAIN t.awards -> Seq(Award) \ {<< >>}]
  BY <1>1, ShapeFields
<1>4. /\ aws \in [DOMAIN t.awards -> Seq(Award) \ {<< >>}] /\ aws[p] = bw
      /\ \A q \in DOMAIN t.awards : q # p => aws[q] = t.awards[q]
  BY <1>2, <1>3
<1>5. WithPart(t, p, bw) = WithAwards(t, aws)
  BY Zenon DEF WithPart
<1> HIDE DEF aws
<1>6. \A q \in DOMAIN t.awards : SameMarks(t.awards[q], t.awards[q])
  BY DEF SameMarks
<1>7. \A q \in DOMAIN t.awards :
        /\ SameMarks(t.awards[q], aws[q])
        /\ DisputedIn(aws[q]) => DisputedIn(t.awards[q]) \/ Opened(t, q)
  BY <1>4, <1>6, Zenon
<1> QED BY <1>4, <1>5, <1>7, MarksPut

LEMMA AwardMarked ==
  ASSUME NEW t, Sound(t), NEW p \in DOMAIN t.awards, NEW i \in 1 .. Len(t.awards[p]), NEW a \in Award,
         a.bid = t.awards[p][i].bid, a.status = t.awards[p][i].status,
         a.period = t.awards[p][i].period, a.contract = t.awards[p][i].contract,
         a.complaint \in Undecided => t.awards[p][i].complaint \in Undecided \/ Opened(t, p)
  PROVE  Sound(PutAward(t, p, i, a))
<1> DEFINE aw == t.awards[p]
           bw == [aw EXCEPT ![i] = a]
<1>1. aw \in Seq(Award)
  BY AwardsOfPart DEF Sound, Steady
<1>2. /\ bw \in Seq(Award) /\ Len(bw) = Len(aw) /\ bw[i] = a
      /\ \A j \in 1 .. Len(aw) : j # i => bw[j] = aw[j]
  BY <1>1, AwardPut
<1>3. PutAward(t, p, i, a) = WithPart(t, p, bw)
  BY Zenon DEF PutAward
<1> HIDE DEF bw
<1>4. SameMarks(aw, bw)
  BY <1>2 DEF SameMarks
<1>5. DisputedIn(bw) => DisputedIn(aw) \/ Opened(t, p)
  BY <1>2 DEF DisputedIn
<1> QED BY <1>2, <1>3, <1>4, <1>5, PartMarked

\* The live award is decided or given up.
LEMMA LastReplaced ==
  ASSUME NEW aw \in Seq(Award), InTurn(aw), BestLeft(aw), NEW i \in 1 .. Len(aw), aw[i].status \in Live,
         NEW a \in Award, a.bid = aw[i].bid, a.status # "pending",
         a.status = "active" => aw[i].status = "pending",
         a.status = "active" <=> a.contract = "pending", a.contract # "active",
         a.status # "cancelled" => a.period = "running"
  PROVE  LET bw == [aw EXCEPT ![i] = a] IN
         /\ bw \in Seq(Award) /\ bw # << >> /\ InTurn(bw) /\ BestLeft(bw) /\ ~ SignedIn(bw)
<1> DEFINE bw == [aw EXCEPT ![i] = a]
<1>1. /\ bw \in Seq(Award) /\ bw # << >> /\ Len(bw) = Len(aw) /\ bw[i] = a
      /\ \A j \in 1 .. Len(aw) : j # i => bw[j] = aw[j]
  BY AwardPut
<1> HIDE DEF bw
<1>2. i = Len(aw) /\ Len(aw) \in Nat /\ \A j \in 1 .. Len(aw) : j # i => aw[j].status \notin Live
  BY DEF InTurn
<1>3. ~ SignedIn(bw)
  BY <1>1, <1>2 DEF SignedIn, InTurn, Live
<1>4. InTurn(bw)
  <2> SUFFICES ASSUME NEW j \in 1 .. Len(aw)
               PROVE  /\ bw[j].status \in Live => j = Len(bw)
                      /\ bw[j].status = "active" <=> bw[j].contract \in {"pending", "active"}
                      /\ bw[j].status = "pending" => bw[j].period = "unset" /\ bw[j].contract = "none"
                      /\ bw[j].status \in {"active", "unsuccessful"} => bw[j].period # "unset"
                      /\ bw[j].contract = "active" => bw[j].period = "over"
                      /\ bw[j].period = "over" /\ bw[j].status # "cancelled" =>
                           \A k \in 1 .. j - 1 : bw[k].period # "running"
    BY <1>1, Zenon DEF InTurn
  <2>1. CASE j = i
    BY <1>1, <1>2, <2>1
  <2>2. CASE j # i
    <3>1. bw[j] = aw[j] /\ \A k \in 1 .. j - 1 : bw[k] = aw[k]
      BY <1>1, <1>2, <2>2
    <3> QED BY <1>1, <3>1, <2>2 DEF InTurn
  <2> QED BY <2>1, <2>2
<1>5. BestLeft(bw)
  <2>1. CASE a.status = "active"
    <3>1. \A j \in 1 .. Len(aw) : (bw[j].status = "unsuccessful" <=> aw[j].status = "unsuccessful")
                                  /\ bw[j].bid = aw[j].bid
      BY <1>1, <2>1
    <3>2. LeftIn(bw) = LeftIn(aw)
      BY <1>1, <3>1 DEF LeftIn, RejectedIn
    <3> QED BY <1>1, <1>2, <3>1, <3>2 DEF BestLeft
  <2>2. CASE a.status # "active"
    BY <1>1, <1>2, <2>2 DEF BestLeft, Live
  <2> QED BY <2>1, <2>2
<1> QED BY <1>1, <1>3, <1>4, <1>5 DEF bw

LEMMA AwardRebuilt ==
  ASSUME NEW b, NEW st, NEW h, NEW k, NEW pe, NEW c, NEW co, NEW v, NEW a,
         a = [bid |-> b, status |-> st, held |-> h, asked |-> k, period |-> pe, contract |-> c,
              complaint |-> co]
  PROVE  /\ [a EXCEPT !.status = v] = [bid |-> b, status |-> v, held |-> h, asked |-> k,
                                       period |-> pe, contract |-> c, complaint |-> co]
         /\ [a EXCEPT !.held = v] = [bid |-> b, status |-> st, held |-> v, asked |-> k,
                                     period |-> pe, contract |-> c, complaint |-> co]
         /\ [a EXCEPT !.asked = v] = [bid |-> b, status |-> st, held |-> h, asked |-> v,
                                      period |-> pe, contract |-> c, complaint |-> co]
         /\ [a EXCEPT !.period = v] = [bid |-> b, status |-> st, held |-> h, asked |-> k,
                                       period |-> v, contract |-> c, complaint |-> co]
         /\ [a EXCEPT !.contract = v] = [bid |-> b, status |-> st, held |-> h, asked |-> k,
                                         period |-> pe, contract |-> v, complaint |-> co]
         /\ [a EXCEPT !.complaint = v] = [bid |-> b, status |-> st, held |-> h, asked |-> k,
                                          period |-> pe, contract |-> c, complaint |-> v]
<1>1. [a EXCEPT !.status = v] = [bid |-> b, status |-> v, held |-> h, asked |-> k,
                                 period |-> pe, contract |-> c, complaint |-> co]
  OBVIOUS
<1>2. [a EXCEPT !.held = v] = [bid |-> b, status |-> st, held |-> v, asked |-> k,
                               period |-> pe, contract |-> c, complaint |-> co]
  OBVIOUS
<1>3. [a EXCEPT !.asked = v] = [bid |-> b, status |-> st, held |-> h, asked |-> v,
                                period |-> pe, contract |-> c, complaint |-> co]
  OBVIOUS
<1>4. [a EXCEPT !.period = v] = [bid |-> b, status |-> st, held |-> h, asked |-> k,
                                 period |-> v, contract |-> c, complaint |-> co]
  OBVIOUS
<1>5. [a EXCEPT !.contract = v] = [bid |-> b, status |-> st, held |-> h, asked |-> k,
                                   period |-> pe, contract |-> v, complaint |-> co]
  OBVIOUS
<1>6. [a EXCEPT !.complaint = v] = [bid |-> b, status |-> st, held |-> h, asked |-> k,
                                    period |-> pe, contract |-> c, complaint |-> v]
  OBVIOUS
<1> QED BY <1>1, <1>2, <1>3, <1>4, <1>5, <1>6

\* One field of an award replaced by another value.
ReStatus(a, v) == [a EXCEPT !.status = v]
ReHeld(a, v) == [a EXCEPT !.held = v]
ReAsked(a, v) == [a EXCEPT !.asked = v]
RePeriod(a, v) == [a EXCEPT !.period = v]
ReContract(a, v) == [a EXCEPT !.contract = v]
ReComplaint(a, v) == [a EXCEPT !.complaint = v]

LEMMA AwardChanged ==
  ASSUME NEW a \in Award, NEW v
  PROVE  /\ ReStatus(a, v) = AwardOf(a, v, a.held, a.asked, a.period, a.contract, a.complaint)
         /\ ReHeld(a, v) = AwardOf(a, a.status, v, a.asked, a.period, a.contract, a.complaint)
         /\ ReAsked(a, v) = AwardOf(a, a.status, a.held, v, a.period, a.contract, a.complaint)
         /\ RePeriod(a, v) = AwardOf(a, a.status, a.held, a.asked, v, a.contract, a.complaint)
         /\ ReContract(a, v) = AwardOf(a, a.status, a.held, a.asked, a.period, v, a.complaint)
         /\ ReComplaint(a, v) = AwardOf(a, a.status, a.held, a.asked, a.period, a.contract, v)
<1> DEFINE b == a.bid
           st == a.status
           h == a.held
           k == a.asked
           pe == a.period
           c == a.contract
           co == a.complaint
<1>1. a = [bid |-> b, status |-> st, held |-> h, asked |-> k, period |-> pe, contract |-> c,
           complaint |-> co]
  BY Zenon, AwardFields
<1> HIDE DEF b, st, h, k, pe, c, co
<1>2. ReStatus(a, v) = AwardOf(a, v, a.held, a.asked, a.period, a.contract, a.complaint)
  BY <1>1, AwardRebuilt DEF ReStatus, AwardOf, b, st, h, k, pe, c, co
<1>3. ReHeld(a, v) = AwardOf(a, a.status, v, a.asked, a.period, a.contract, a.complaint)
  BY <1>1, AwardRebuilt DEF ReHeld, AwardOf, b, st, h, k, pe, c, co
<1>4. ReAsked(a, v) = AwardOf(a, a.status, a.held, v, a.period, a.contract, a.complaint)
  BY <1>1, AwardRebuilt DEF ReAsked, AwardOf, b, st, h, k, pe, c, co
<1>5. RePeriod(a, v) = AwardOf(a, a.status, a.held, a.asked, v, a.contract, a.complaint)
  BY <1>1, AwardRebuilt DEF RePeriod, AwardOf, b, st, h, k, pe, c, co
<1>6. ReContract(a, v) = AwardOf(a, a.status, a.held, a.asked, a.period, v, a.complaint)
  BY <1>1, AwardRebuilt DEF ReContract, AwardOf, b, st, h, k, pe, c, co
<1>7. ReComplaint(a, v) = AwardOf(a, a.status, a.held, a.asked, a.period, a.contract, v)
  BY <1>1, AwardRebuilt DEF ReComplaint, AwardOf, b, st, h, k, pe, c, co
<1> QED BY <1>2, <1>3, <1>4, <1>5, <1>6, <1>7

LEMMA AwardChangedFields ==
  ASSUME NEW a \in Award
  PROVE  /\ \A v \in {"pending", "active", "unsuccessful", "cancelled"} :
              AwardIs(ReStatus(a, v), a.bid, v, a.period, a.contract, a.complaint)
         /\ \A v \in BOOLEAN :
              AwardIs(ReHeld(a, v), a.bid, a.status, a.period, a.contract, a.complaint)
         /\ \A v \in BOOLEAN :
              AwardIs(ReAsked(a, v), a.bid, a.status, a.period, a.contract, a.complaint)
         /\ \A v \in {"unset", "running", "over"} :
              AwardIs(RePeriod(a, v), a.bid, a.status, v, a.contract, a.complaint)
         /\ \A v \in {"none", "pending", "active", "cancelled"} :
              AwardIs(ReContract(a, v), a.bid, a.status, a.period, v, a.complaint)
         /\ \A v \in ComplaintStatus \cup {"none", "claim", "withdrawn"} :
              AwardIs(ReComplaint(a, v), a.bid, a.status, a.period, a.contract, v)
<1>1. ASSUME NEW v \in {"pending", "active", "unsuccessful", "cancelled"}
      PROVE  AwardIs(ReStatus(a, v), a.bid, v, a.period, a.contract, a.complaint)
  <2>1. ReStatus(a, v) = AwardOf(a, v, a.held, a.asked, a.period, a.contract, a.complaint)
    BY AwardChanged
  <2>2. /\ a.status \in {"pending", "active", "unsuccessful", "cancelled"}
        /\ a.held \in BOOLEAN /\ a.asked \in BOOLEAN /\ a.period \in {"unset", "running", "over"}
        /\ a.contract \in {"none", "pending", "active", "cancelled"}
        /\ a.complaint \in ComplaintStatus \cup {"none", "claim", "withdrawn"}
    BY AwardFields
  <2> QED BY <2>1, <2>2, AwardMade
<1>2. ASSUME NEW v \in BOOLEAN
      PROVE  AwardIs(ReHeld(a, v), a.bid, a.status, a.period, a.contract, a.complaint)
  <2>1. ReHeld(a, v) = AwardOf(a, a.status, v, a.asked, a.period, a.contract, a.complaint)
    BY AwardChanged
  <2>2. /\ a.status \in {"pending", "active", "unsuccessful", "cancelled"}
        /\ a.held \in BOOLEAN /\ a.asked \in BOOLEAN /\ a.period \in {"unset", "running", "over"}
        /\ a.contract \in {"none", "pending", "active", "cancelled"}
        /\ a.complaint \in ComplaintStatus \cup {"none", "claim", "withdrawn"}
    BY AwardFields
  <2> QED BY <2>1, <2>2, AwardMade
<1>3. ASSUME NEW v \in BOOLEAN
      PROVE  AwardIs(ReAsked(a, v), a.bid, a.status, a.period, a.contract, a.complaint)
  <2>1. ReAsked(a, v) = AwardOf(a, a.status, a.held, v, a.period, a.contract, a.complaint)
    BY AwardChanged
  <2>2. /\ a.status \in {"pending", "active", "unsuccessful", "cancelled"}
        /\ a.held \in BOOLEAN /\ a.asked \in BOOLEAN /\ a.period \in {"unset", "running", "over"}
        /\ a.contract \in {"none", "pending", "active", "cancelled"}
        /\ a.complaint \in ComplaintStatus \cup {"none", "claim", "withdrawn"}
    BY AwardFields
  <2> QED BY <2>1, <2>2, AwardMade
<1>4. ASSUME NEW v \in {"unset", "running", "over"}
      PROVE  AwardIs(RePeriod(a, v), a.bid, a.status, v, a.contract, a.complaint)
  <2>1. RePeriod(a, v) = AwardOf(a, a.status, a.held, a.asked, v, a.contract, a.complaint)
    BY AwardChanged
  <2>2. /\ a.status \in {"pending", "active", "unsuccessful", "cancelled"}
        /\ a.held \in BOOLEAN /\ a.asked \in BOOLEAN /\ a.period \in {"unset", "running", "over"}
        /\ a.contract \in {"none", "pending", "active", "cancelled"}
        /\ a.complaint \in ComplaintStatus \cup {"none", "claim", "withdrawn"}
    BY AwardFields
  <2> QED BY <2>1, <2>2, AwardMade
<1>5. ASSUME NEW v \in {"none", "pending", "active", "cancelled"}
      PROVE  AwardIs(ReContract(a, v), a.bid, a.status, a.period, v, a.complaint)
  <2>1. ReContract(a, v) = AwardOf(a, a.status, a.held, a.asked, a.period, v, a.complaint)
    BY AwardChanged
  <2>2. /\ a.status \in {"pending", "active", "unsuccessful", "cancelled"}
        /\ a.held \in BOOLEAN /\ a.asked \in BOOLEAN /\ a.period \in {"unset", "running", "over"}
        /\ a.contract \in {"none", "pending", "active", "cancelled"}
        /\ a.complaint \in ComplaintStatus \cup {"none", "claim", "withdrawn"}
    BY AwardFields
  <2> QED BY <2>1, <2>2, AwardMade
<1>6. ASSUME NEW v \in ComplaintStatus \cup {"none", "claim", "withdrawn"}
      PROVE  AwardIs(ReComplaint(a, v), a.bid, a.status, a.period, a.contract, v)
  <2>1. ReComplaint(a, v) = AwardOf(a, a.status, a.held, a.asked, a.period, a.contract, v)
    BY AwardChanged
  <2>2. /\ a.status \in {"pending", "active", "unsuccessful", "cancelled"}
        /\ a.held \in BOOLEAN /\ a.asked \in BOOLEAN /\ a.period \in {"unset", "running", "over"}
        /\ a.contract \in {"none", "pending", "active", "cancelled"}
        /\ a.complaint \in ComplaintStatus \cup {"none", "claim", "withdrawn"}
    BY AwardFields
  <2> QED BY <2>1, <2>2, AwardMade
<1> QED BY <1>1, <1>2, <1>3, <1>4, <1>5, <1>6, Zenon

LEMMA CancelledAward ==
  ASSUME NEW a \in Award
  PROVE  /\ W!Cancelled(a) \in Award /\ W!Cancelled(a).bid = a.bid
         /\ W!Cancelled(a).status = "cancelled" /\ W!Cancelled(a).contract \in {"none", "cancelled"}
<1> DEFINE a1 == ReStatus(a, "cancelled")
           a2 == ReHeld(a1, FALSE)
           a3 == ReAsked(a2, FALSE)
           a4 == RePeriod(a3, IF a3.period = "running" THEN "over" ELSE a3.period)
           a5 == ReContract(a4, IF a4.contract = "none" THEN a4.contract ELSE "cancelled")
<1>1. W!Cancelled(a) = a5
  BY Zenon DEF W!Cancelled, ReStatus, ReHeld, ReAsked, RePeriod, ReContract
<1>2. a3 \in Award /\ a3.bid = a.bid /\ a3.status = "cancelled"
  <2>1. a1 \in Award /\ a1.bid = a.bid /\ a1.status = "cancelled"
    BY AwardChangedFields DEF AwardIs
  <2> HIDE DEF a1
  <2>2. a2 \in Award /\ a2.bid = a.bid /\ a2.status = "cancelled"
    BY <2>1, AwardChangedFields DEF AwardIs
  <2> HIDE DEF a2
  <2> QED BY <2>2, AwardChangedFields DEF AwardIs
<1> HIDE DEF a3
<1>3. (IF a3.period = "running" THEN "over" ELSE a3.period) \in {"unset", "running", "over"}
  BY <1>2, AwardFields
<1>4. a4 \in Award /\ a4.bid = a.bid /\ a4.status = "cancelled"
  BY <1>2, <1>3, AwardChangedFields DEF AwardIs
<1> HIDE DEF a4
<1>5. (IF a4.contract = "none" THEN a4.contract ELSE "cancelled") \in {"none", "cancelled"}
  OBVIOUS
<1>6. a5 \in Award /\ a5.bid = a.bid /\ a5.status = "cancelled" /\ a5.contract \in {"none", "cancelled"}
  BY <1>4, <1>5, AwardChangedFields DEF AwardIs
<1> QED BY <1>1, <1>6

LEMMA DecidedAward ==
  ASSUME NEW a \in Award, a.status = "pending", a.contract = "none",
         NEW status \in {"active", "unsuccessful"}
  PROVE  LET b == W!Decided(a, status) IN
         /\ b \in Award /\ b.bid = a.bid /\ b.status = status /\ b.period = "running"
         /\ b.contract = IF status = "active" THEN "pending" ELSE "none"
<1> DEFINE a1 == ReStatus(a, status)
           a2 == ReAsked(a1, FALSE)
           a3 == RePeriod(a2, "running")
           a4 == ReContract(a3, IF status = "active" THEN "pending" ELSE a3.contract)
<1>1. W!Decided(a, status) = a4
  BY Zenon DEF W!Decided, ReStatus, ReAsked, RePeriod, ReContract
<1>2. /\ a3 \in Award /\ a3.bid = a.bid /\ a3.status = status /\ a3.period = "running"
      /\ a3.contract = "none"
  <2>1. a1 \in Award /\ a1.bid = a.bid /\ a1.status = status /\ a1.contract = "none"
    <3>1. status \in {"pending", "active", "unsuccessful", "cancelled"}
      OBVIOUS
    <3>2. AwardIs(a1, a.bid, status, a.period, a.contract, a.complaint)
      BY <3>1, AwardChangedFields, Zenon
    <3> QED BY <3>2 DEF AwardIs
  <2> HIDE DEF a1
  <2>2. a2 \in Award /\ a2.bid = a.bid /\ a2.status = status /\ a2.contract = "none"
    <3>1. AwardIs(a2, a1.bid, a1.status, a1.period, a1.contract, a1.complaint)
      BY <2>1, AwardChangedFields, Zenon
    <3> QED BY <2>1, <3>1 DEF AwardIs
  <2> HIDE DEF a2
  <2> QED BY <2>2, AwardChangedFields DEF AwardIs
<1> HIDE DEF a3
<1>3. (IF status = "active" THEN "pending" ELSE a3.contract) \in {"none", "pending"}
  BY <1>2
<1>4. /\ a4 \in Award /\ a4.bid = a.bid /\ a4.status = status /\ a4.period = "running"
      /\ a4.contract = IF status = "active" THEN "pending" ELSE "none"
  BY <1>2, <1>3, AwardChangedFields DEF AwardIs
<1> QED BY <1>1, <1>4

LEMMA AllCancelled ==
  ASSUME NEW aw \in Seq(Award), aw # << >>
  PROVE  LET bw == [j \in DOMAIN aw |-> W!Cancelled(aw[j])] IN
         /\ bw \in Seq(Award) /\ bw # << >> /\ InTurn(bw) /\ BestLeft(bw) /\ ~ SignedIn(bw)
<1> DEFINE bw == [j \in DOMAIN aw |-> W!Cancelled(aw[j])]
<1>1. DOMAIN aw = 1 .. Len(aw) /\ Len(aw) \in Nat /\ Len(aw) # 0
      /\ \A j \in 1 .. Len(aw) : aw[j] \in Award
  OBVIOUS
<1>2. bw \in [1 .. Len(aw) -> Award]
  BY <1>1, CancelledAward
<1>3. \A j \in 1 .. Len(aw) : bw[j].status = "cancelled" /\ bw[j].contract \in {"none", "cancelled"}
  BY <1>1, CancelledAward
<1> HIDE DEF bw
<1>4. bw \in Seq(Award) /\ Len(bw) = Len(aw)
  BY <1>1, <1>2
<1>5. InTurn(bw) /\ BestLeft(bw) /\ ~ SignedIn(bw)
  BY <1>3, <1>4 DEF InTurn, BestLeft, SignedIn, Live
<1> QED BY <1>1, <1>4, <1>5 DEF bw

-----------------------------------------------------------------------------
(* The requests of the owner.                                              *)

LEMMA SavedWithNextAward ==
  ASSUME NEW t, Ready(t), W!SaveWithNextAward(t)
  PROVE  Sound(awarding')
<1>1. PICK alp \in W!LowPrice(t.kind) : awarding' = W!AddNextAward(t, alp)
  BY DEF W!SaveWithNextAward, W!Save
<1>2. alp \in BOOLEAN
  BY DEF W!LowPrice
<1> QED BY <1>1, <1>2, AddNextAwardSound

\* What every request about an award or its contract goes by.
LEMMA OpenPart ==
  ASSUME NEW t, Sound(t), t.status \in W!Underway, NEW p \in W!ActiveParts(t)
  PROVE  /\ p \in DOMAIN t.awards /\ IsOpen(t, p) /\ Opened(t, p)
         /\ OutcomeIn(t, p) \notin {"complete", "unsuccessful"} /\ ~ SignedIn(t.awards[p])
<1>1. p \in DOMAIN t.awards /\ IsOpen(t, p)
  BY OfAwards DEF Sound, Steady
<1>2. Opened(t, p) /\ OutcomeIn(t, p) \notin {"complete", "unsuccessful"}
  BY <1>1, StatusNames DEF Opened, OutcomeIn, IsOpen
<1> QED BY <1>1, <1>2 DEF Sound, OpenUnsigned, Opened

LEMMA AwardOfPart ==
  ASSUME NEW t, Sound(t), NEW p \in DOMAIN t.awards, NEW i \in W!Nth(t.awards[p])
  PROVE  /\ Shape(t) /\ t.awards[p] \in Seq(Award) /\ t.awards[p] # << >>
         /\ i \in 1 .. Len(t.awards[p]) /\ t.awards[p][i] \in Award
         /\ InTurn(t.awards[p]) /\ BestLeft(t.awards[p]) /\ ClosedFits(t, p)
BY AwardsOfPart DEF Sound, Steady, W!Nth

LEMMA DecideAwardSound ==
  ASSUME Sound(awarding), NEW p \in DOMAIN awarding.awards, NEW i \in W!Nth(awarding.awards[p]),
         NEW status \in {"active", "unsuccessful"}, W!DecideAward(p, i, status)
  PROVE  Sound(awarding')
<1> DEFINE aw == awarding.awards[p]
           a == W!Decided(aw[i], status)
           bw == [aw EXCEPT ![i] = a]
<1>1. awarding.status \in W!Underway /\ p \in W!ActiveParts(awarding) /\ aw[i].status = "pending"
  BY DEF W!DecideAward, W!MayPatchAward
<1>2. [awarding EXCEPT !.awards[p][i] = W!Decided(@, status)] = WithPart(awarding, p, bw)
  BY Zenon DEF WithPart, WithAwards
<1>3. W!SaveWithNextAward(WithPart(awarding, p, bw))
  BY <1>2, Zenon DEF W!DecideAward
<1>4. /\ aw \in Seq(Award) /\ i \in 1 .. Len(aw) /\ aw[i] \in Award /\ InTurn(aw) /\ BestLeft(aw)
      /\ aw[i].contract = "none" /\ aw[i].status \in Live
  BY <1>1, AwardOfPart DEF InTurn, Live
<1>5. /\ a \in Award /\ a.bid = aw[i].bid /\ a.status = status /\ a.period = "running"
      /\ a.contract = IF status = "active" THEN "pending" ELSE "none"
  BY <1>1, <1>4, DecidedAward
<1> HIDE DEF a, aw
<1>6. bw \in Seq(Award) /\ bw # << >> /\ InTurn(bw) /\ BestLeft(bw) /\ ~ SignedIn(bw)
  BY <1>1, <1>4, <1>5, LastReplaced
<1> HIDE DEF bw
<1>7. Ready(WithPart(awarding, p, bw))
  BY <1>1, <1>6, OpenPart, PartDecided
<1> QED BY <1>3, <1>7, SavedWithNextAward

LEMMA CancelAwardSound ==
  ASSUME Sound(awarding), NEW p \in DOMAIN awarding.awards, NEW i \in W!Nth(awarding.awards[p]),
         W!CancelAward(p, i)
  PROVE  Sound(awarding')
<1> DEFINE aw == awarding.awards[p]
           a == W!Cancelled(aw[i])
           bw == [aw EXCEPT ![i] = a]
<1>1. awarding.status \in W!Underway /\ p \in W!ActiveParts(awarding) /\ aw[i].status = "active"
  BY DEF W!CancelAward, W!MayPatchAward
<1>2. [awarding EXCEPT !.awards[p][i] = W!Cancelled(@)] = WithPart(awarding, p, bw)
  BY Zenon DEF WithPart, WithAwards
<1>3. W!SaveWithNextAward(WithPart(awarding, p, bw))
  BY <1>2, Zenon DEF W!CancelAward
<1>4. /\ aw \in Seq(Award) /\ i \in 1 .. Len(aw) /\ aw[i] \in Award /\ InTurn(aw) /\ BestLeft(aw)
      /\ aw[i].status \in Live
  BY <1>1, AwardOfPart DEF Live
<1>5. /\ a \in Award /\ a.bid = aw[i].bid /\ a.status = "cancelled"
      /\ a.contract \in {"none", "cancelled"}
  BY <1>4, CancelledAward
<1> HIDE DEF a, aw
<1>6. bw \in Seq(Award) /\ bw # << >> /\ InTurn(bw) /\ BestLeft(bw) /\ ~ SignedIn(bw)
  BY <1>4, <1>5, LastReplaced
<1> HIDE DEF bw
<1>7. Ready(WithPart(awarding, p, bw))
  BY <1>1, <1>6, OpenPart, PartDecided
<1> QED BY <1>3, <1>7, SavedWithNextAward

LEMMA CancelDisputedAwardSound ==
  ASSUME Sound(awarding), NEW p \in DOMAIN awarding.awards, NEW i \in W!Nth(awarding.awards[p]),
         W!CancelDisputedAward(p, i)
  PROVE  Sound(awarding')
<1> DEFINE aw == awarding.awards[p]
           bw == [j \in DOMAIN aw |-> W!Cancelled(aw[j])]
<1>1. awarding.status \in W!Underway /\ p \in W!ActiveParts(awarding)
  BY DEF W!CancelDisputedAward, W!MayStartAnew, W!MayPatchAward
<1>2. W!StartAnew(awarding, p, i) = WithPart(awarding, p, bw)
  BY Zenon DEF W!StartAnew, WithPart, WithAwards
<1>3. W!SaveWithNextAward(WithPart(awarding, p, bw))
  BY <1>2, Zenon DEF W!CancelDisputedAward
<1>4. aw \in Seq(Award) /\ aw # << >>
  BY AwardOfPart
<1> HIDE DEF aw
<1>5. bw \in Seq(Award) /\ bw # << >> /\ InTurn(bw) /\ BestLeft(bw) /\ ~ SignedIn(bw)
  BY <1>4, AllCancelled
<1> HIDE DEF bw
<1>6. Ready(WithPart(awarding, p, bw))
  BY <1>1, <1>5, OpenPart, PartDecided
<1> QED BY <1>3, <1>6, SavedWithNextAward

\* A change of an award that is neither a decision nor about its contract.
LEMMA FieldMarked ==
  ASSUME NEW t, Sound(t), NEW p \in DOMAIN t.awards, NEW i \in W!Nth(t.awards[p]), NEW a, NEW co,
         AwardIs(a, t.awards[p][i].bid, t.awards[p][i].status, t.awards[p][i].period,
                 t.awards[p][i].contract, co),
         co \in Undecided => t.awards[p][i].complaint \in Undecided \/ Opened(t, p)
  PROVE  LET r == PutAward(t, p, i, a) IN
         /\ Sound(r) /\ r.status = t.status /\ r.cancelling = t.cancelling
         /\ p \in DOMAIN r.awards /\ i \in W!Nth(r.awards[p]) /\ r.awards[p][i] = a
<1> DEFINE bw == [t.awards[p] EXCEPT ![i] = a]
           r == PutAward(t, p, i, a)
<1>1. i \in 1 .. Len(t.awards[p]) /\ Shape(t) /\ t.awards[p] \in Seq(Award) /\ a \in Award
  BY AwardOfPart DEF AwardIs
<1>2. Sound(r)
  BY <1>1, AwardMarked DEF AwardIs
<1>3. bw \in Seq(Award) /\ bw # << >> /\ Len(bw) = Len(t.awards[p]) /\ bw[i] = a
  BY <1>1, AwardPut
<1>4. r = WithPart(t, p, bw)
  BY Zenon DEF PutAward
<1> HIDE DEF bw, r
<1>5. /\ r.status = t.status /\ r.cancelling = t.cancelling
      /\ DOMAIN r.awards = DOMAIN t.awards /\ r.awards[p] = bw
  BY <1>1, <1>3, <1>4, PartPut
<1>6. i \in DOMAIN bw
  BY <1>1, <1>3
<1> QED BY <1>2, <1>3, <1>5, <1>6, Zenon DEF r, W!Nth

LEMMA PostMilestoneSound ==
  ASSUME Sound(awarding), NEW p \in DOMAIN awarding.awards, NEW i \in W!Nth(awarding.awards[p]),
         W!PostMilestone(p, i)
  PROVE  Sound(awarding')
<1> DEFINE a == ReHeld(awarding.awards[p][i], TRUE)
           s == PutAward(awarding, p, i, a)
           b == ReAsked(s.awards[p][i], TRUE)
<1>1. awarding' = PutAward(s, p, i, b)
  BY Zenon DEF W!PostMilestone, W!Save, PutAward, WithPart, WithAwards, ReHeld, ReAsked
<1>2. awarding.awards[p][i] \in Award
  BY AwardOfPart
<1>3. AwardIs(a, awarding.awards[p][i].bid, awarding.awards[p][i].status, awarding.awards[p][i].period,
              awarding.awards[p][i].contract, awarding.awards[p][i].complaint)
  BY <1>2, AwardChangedFields, Zenon
<1> HIDE DEF a
<1>4. Sound(s) /\ p \in DOMAIN s.awards /\ i \in W!Nth(s.awards[p])
  BY <1>3, FieldMarked
<1> HIDE DEF s
<1>5. s.awards[p][i] \in Award
  BY <1>4, AwardOfPart
<1>6. AwardIs(b, s.awards[p][i].bid, s.awards[p][i].status, s.awards[p][i].period,
              s.awards[p][i].contract, s.awards[p][i].complaint)
  BY <1>5, AwardChangedFields, Zenon
<1> HIDE DEF b
<1> QED BY <1>1, <1>4, <1>6, FieldMarked

LEMMA MilestoneEndsSound ==
  ASSUME Sound(awarding), NEW p \in DOMAIN awarding.awards, NEW i \in W!Nth(awarding.awards[p]),
         W!MilestoneEnds(p, i)
  PROVE  Sound(awarding')
<1> DEFINE a == ReHeld(awarding.awards[p][i], FALSE)
<1>1. awarding' = PutAward(awarding, p, i, a)
  BY Zenon DEF W!MilestoneEnds, W!Save, PutAward, WithPart, WithAwards, ReHeld
<1>2. awarding.awards[p][i] \in Award
  BY AwardOfPart
<1>3. AwardIs(a, awarding.awards[p][i].bid, awarding.awards[p][i].status, awarding.awards[p][i].period,
              awarding.awards[p][i].contract, awarding.awards[p][i].complaint)
  BY <1>2, AwardChangedFields, Zenon
<1> HIDE DEF a
<1> QED BY <1>1, <1>3, FieldMarked

\* A contract is signed when the stand-still of its award is over, and with it
\* those of the awards before.
LEMMA ContractSigned ==
  ASSUME NEW t, Sound(t), t.status \in W!Underway, NEW p \in W!ActiveParts(t),
         NEW i \in W!Nth(t.awards[p]), t.awards[p][i].contract = "pending",
         t.awards[p][i].period = "over", ~ DisputedIn(t.awards[p])
  PROVE  LET r == PutAward(t, p, i, ReContract(t.awards[p][i], "active")) IN
         Steady(r) /\ Filled(r) /\ r.status = t.status
<1> DEFINE aw == t.awards[p]
           a == ReContract(aw[i], "active")
           bw == [aw EXCEPT ![i] = a]
           r == PutAward(t, p, i, a)
<1>1. /\ p \in DOMAIN t.awards /\ IsOpen(t, p)
      /\ OutcomeIn(t, p) \notin {"complete", "unsuccessful"} /\ ~ SignedIn(aw)
  BY OpenPart
<1>2. /\ Shape(t) /\ aw \in Seq(Award) /\ i \in 1 .. Len(aw) /\ aw[i] \in Award
      /\ InTurn(aw) /\ BestLeft(aw)
  BY <1>1, AwardOfPart
<1>3. AwardIs(a, aw[i].bid, aw[i].status, aw[i].period, "active", aw[i].complaint)
  BY <1>2, AwardChangedFields, Zenon
<1> HIDE DEF a
<1>4. /\ a \in Award /\ a.bid = aw[i].bid /\ a.status = aw[i].status /\ a.period = "over"
      /\ a.contract = "active" /\ a.complaint = aw[i].complaint
  BY <1>3, Zenon DEF AwardIs
<1>5. /\ bw \in Seq(Award) /\ bw # << >> /\ Len(bw) = Len(aw) /\ bw[i] = a
      /\ \A j \in 1 .. Len(aw) : j # i => bw[j] = aw[j]
  BY <1>2, <1>4, AwardPut
<1>6. r = WithPart(t, p, bw)
  BY Zenon DEF PutAward
<1> HIDE DEF bw
<1>7. /\ aw[i].status = "active" /\ i = Len(aw) /\ Len(aw) \in Nat
      /\ \A j \in 1 .. i - 1 : aw[j].period # "running"
  BY <1>2 DEF InTurn, Live
<1>8. InTurn(bw)
  <2> SUFFICES ASSUME NEW j \in 1 .. Len(aw)
               PROVE  /\ bw[j].status \in Live => j = Len(bw)
                      /\ bw[j].status = "active" <=> bw[j].contract \in {"pending", "active"}
                      /\ bw[j].status = "pending" => bw[j].period = "unset" /\ bw[j].contract = "none"
                      /\ bw[j].status \in {"active", "unsuccessful"} => bw[j].period # "unset"
                      /\ bw[j].contract = "active" => bw[j].period = "over"
                      /\ bw[j].period = "over" /\ bw[j].status # "cancelled" =>
                           \A k \in 1 .. j - 1 : bw[k].period # "running"
    BY <1>5, Zenon DEF InTurn
  <2>1. \A k \in 1 .. j - 1 : k \in 1 .. Len(aw) /\ bw[k] = aw[k]
    BY <1>5, <1>7
  <2>2. CASE j = i
    BY <1>4, <1>5, <1>7, <2>1, <2>2
  <2>3. CASE j # i
    BY <1>2, <1>5, <2>1, <2>3 DEF InTurn
  <2> QED BY <2>2, <2>3
<1>9. LeftIn(bw) = LeftIn(aw)
  <2>1. \A j \in 1 .. Len(aw) : bw[j].bid = aw[j].bid /\ bw[j].status = aw[j].status
    BY <1>4, <1>5
  <2> QED BY <1>5, <2>1 DEF LeftIn, RejectedIn
<1>10. BestLeft(bw)
  <2>1. \A j \in 1 .. Len(aw) : bw[j].bid = aw[j].bid /\ bw[j].status = aw[j].status
    BY <1>4, <1>5
  <2> QED BY <1>2, <1>5, <1>9, <2>1 DEF BestLeft
<1>11. ~ RunningIn(bw) /\ ~ DisputedIn(bw) /\ bw[Len(bw)].status \in Live
  <2>1. ASSUME NEW j \in 1 .. Len(aw) PROVE bw[j].period # "running" /\ bw[j].complaint \notin Undecided
    <3>1. aw[j].complaint \notin Undecided
      BY DEF DisputedIn
    <3>2. j # i => j \in 1 .. i - 1
      BY <1>7
    <3> QED BY <1>4, <1>5, <1>7, <3>1, <3>2
  <2>2. bw[Len(bw)].status \in Live
    BY <1>4, <1>5, <1>7 DEF Live
  <2> QED BY <1>5, <2>1, <2>2 DEF RunningIn, DisputedIn
<1> HIDE DEF r
<1>12. /\ Shape(r) /\ r.status = t.status /\ r.lots = t.lots
       /\ DOMAIN r.awards = DOMAIN t.awards /\ r.awards[p] = bw
       /\ \A q \in DOMAIN t.awards : q # p => r.awards[q] = t.awards[q]
       /\ \A q : OutcomeIn(r, q) = OutcomeIn(t, q) /\ (IsOpen(r, q) <=> IsOpen(t, q))
  BY <1>1, <1>2, <1>5, <1>6, PartPut
<1>13. ASSUME NEW q \in DOMAIN t.awards PROVE ClosedFits(r, q)
  <2>1. ClosedFits(t, q)
    BY DEF Sound, Steady
  <2> QED BY <1>1, <1>11, <1>12, <2>1, Zenon DEF ClosedFits
<1>14. \A q \in DOMAIN t.awards : InTurn(r.awards[q]) /\ BestLeft(r.awards[q])
  BY <1>8, <1>10, <1>12, Zenon DEF Sound, Steady
<1>15. Steady(r)
  BY <1>12, <1>13, <1>14, Zenon DEF Steady
<1>16. Filled(r)
  BY <1>11, <1>12, Zenon DEF Sound, Filled
<1> QED BY <1>12, <1>15, <1>16 DEF r, a, aw

LEMMA SignContractSound ==
  ASSUME Sound(awarding), NEW p \in DOMAIN awarding.awards, NEW i \in W!Nth(awarding.awards[p]),
         W!SignContract(p, i)
  PROVE  Sound(awarding')
<1> DEFINE a == ReContract(awarding.awards[p][i], "active")
           r == PutAward(awarding, p, i, a)
<1>1. awarding' = W!CheckTenderStatus(r)
  BY Zenon DEF W!SignContract, W!Save, PutAward, WithPart, WithAwards, ReContract
<1>2. /\ awarding.status \in W!Underway /\ p \in W!ActiveParts(awarding)
      /\ awarding.awards[p][i].contract = "pending" /\ awarding.awards[p][i].period = "over"
      /\ ~ W!HasUndecided(awarding, p)
  BY Zenon DEF W!SignContract, W!MaySign, W!MayPatchContract
<1>3. ~ DisputedIn(awarding.awards[p])
  BY <1>2, OfAwards DEF Sound, Steady
<1>4. Steady(r) /\ Filled(r) /\ r.status = awarding.status
  BY <1>2, <1>3, ContractSigned
<1> HIDE DEF r
<1> QED BY <1>1, <1>2, <1>4, CheckTenderStatusSound

LEMMA PatchContractSound ==
  ASSUME Sound(awarding), NEW p, NEW i, W!PatchContract(p, i)
  PROVE  Sound(awarding')
<1>1. awarding' = W!CheckTenderStatus(awarding) /\ awarding.status \in W!Underway
  BY DEF W!PatchContract, W!MayPatchContract, W!Save
<1> QED BY <1>1, CheckTenderStatusSound DEF Sound

-----------------------------------------------------------------------------
(* Complaints, cancellations and the passing of time.                      *)

LEMMA PostComplaintSound ==
  ASSUME Sound(awarding), NEW p \in DOMAIN awarding.awards, NEW i \in W!Nth(awarding.awards[p]),
         NEW status \in {"draft", "claim"}, W!PostComplaint(p, i, status)
  PROVE  Sound(awarding')
<1> DEFINE a == ReComplaint(awarding.awards[p][i], status)
<1>1. awarding' = PutAward(awarding, p, i, a)
  BY Zenon DEF W!PostComplaint, W!Save, PutAward, WithPart, WithAwards, ReComplaint
<1>2. awarding.awards[p][i] \in Award
  BY AwardOfPart
<1>3. status \in ComplaintStatus \cup {"none", "claim", "withdrawn"} /\ status \notin Undecided
  BY DEF ComplaintStatus, Undecided
<1>4. AwardIs(a, awarding.awards[p][i].bid, awarding.awards[p][i].status, awarding.awards[p][i].period,
              awarding.awards[p][i].contract, status)
  BY <1>2, <1>3, AwardChangedFields, Zenon
<1> HIDE DEF a
<1> QED BY <1>1, <1>3, <1>4, FieldMarked

LEMMA PatchComplaintSound ==
  ASSUME Sound(awarding), NEW p \in DOMAIN awarding.awards, NEW i \in W!Nth(awarding.awards[p]),
         NEW to \in W!ComplaintStatus \cup {"withdrawn"}, W!PatchComplaint(p, i, to)
  PROVE  Sound(awarding')
<1> DEFINE a == ReComplaint(awarding.awards[p][i], to)
           t == PutAward(awarding, p, i, a)
<1>1. awarding' = IF to \in W!Undecided THEN t ELSE W!CheckTenderStatus(t)
  BY Zenon DEF W!PatchComplaint, W!Save, PutAward, WithPart, WithAwards, ReComplaint
<1>2. awarding.status \in W!Underway /\ p \in W!ActiveParts(awarding)
  BY DEF W!PatchComplaint
<1>3. awarding.awards[p][i] \in Award /\ Opened(awarding, p)
  BY <1>2, AwardOfPart, OpenPart
<1>4. to \in ComplaintStatus \cup {"none", "claim", "withdrawn"}
  BY DEF ComplaintStatus, W!ComplaintStatus, Undecided, W!Undecided, Rejected, W!Rejected
<1>5. AwardIs(a, awarding.awards[p][i].bid, awarding.awards[p][i].status, awarding.awards[p][i].period,
              awarding.awards[p][i].contract, to)
  BY <1>3, <1>4, AwardChangedFields, Zenon
<1> HIDE DEF a
<1>6. Sound(t) /\ t.status = awarding.status
  <2>1. to \in Undecided => awarding.awards[p][i].complaint \in Undecided \/ Opened(awarding, p)
    BY <1>3
  <2>2. Sound(PutAward(awarding, p, i, a)) /\ PutAward(awarding, p, i, a).status = awarding.status
    BY <1>5, <2>1, FieldMarked
  <2> QED BY <2>2
<1> HIDE DEF t
<1> QED BY <1>1, <1>2, <1>6, CheckTenderStatusSound DEF Sound

\* Stand-stills run out in turn.
LEMMA PeriodEndsSound ==
  ASSUME Sound(awarding), NEW p \in DOMAIN awarding.awards, NEW i \in W!Nth(awarding.awards[p]),
         W!PeriodEnds(p, i)
  PROVE  Sound(awarding')
<1> DEFINE t == awarding
           aw == t.awards[p]
           a == RePeriod(aw[i], "over")
           bw == [aw EXCEPT ![i] = a]
           r == WithPart(t, p, bw)
<1>1. awarding' = r /\ aw[i].period = "running" /\ \A j \in 1 .. i - 1 : aw[j].period # "running"
  BY Zenon DEF W!PeriodEnds, W!Save, WithPart, WithAwards, RePeriod
<1>2. /\ Shape(t) /\ aw \in Seq(Award) /\ i \in 1 .. Len(aw) /\ aw[i] \in Award
      /\ InTurn(aw) /\ BestLeft(aw)
  BY AwardOfPart
<1>3. AwardIs(a, aw[i].bid, aw[i].status, "over", aw[i].contract, aw[i].complaint)
  BY <1>2, AwardChangedFields, Zenon
<1> HIDE DEF a
<1>4. /\ a \in Award /\ a.bid = aw[i].bid /\ a.status = aw[i].status /\ a.period = "over"
      /\ a.contract = aw[i].contract /\ a.complaint = aw[i].complaint
  BY <1>3, Zenon DEF AwardIs
<1>5. /\ bw \in Seq(Award) /\ bw # << >> /\ Len(bw) = Len(aw) /\ bw[i] = a
      /\ \A j \in 1 .. Len(aw) : j # i => bw[j] = aw[j]
  BY <1>2, <1>4, AwardPut
<1> HIDE DEF bw
<1>6. \A j \in 1 .. Len(aw) :
        /\ bw[j].bid = aw[j].bid /\ bw[j].status = aw[j].status
        /\ bw[j].contract = aw[j].contract /\ bw[j].complaint = aw[j].complaint
        /\ bw[j].period = IF j = i THEN "over" ELSE aw[j].period
  BY <1>4, <1>5
<1>7. Len(aw) \in Nat /\ aw[i].status # "pending"
  BY <1>1, <1>2 DEF InTurn
<1>8. InTurn(bw)
  <2> SUFFICES ASSUME NEW j \in 1 .. Len(aw)
               PROVE  /\ bw[j].status \in Live => j = Len(bw)
                      /\ bw[j].status = "active" <=> bw[j].contract \in {"pending", "active"}
                      /\ bw[j].status = "pending" => bw[j].period = "unset" /\ bw[j].contract = "none"
                      /\ bw[j].status \in {"active", "unsuccessful"} => bw[j].period # "unset"
                      /\ bw[j].contract = "active" => bw[j].period = "over"
                      /\ bw[j].period = "over" /\ bw[j].status # "cancelled" =>
                           \A k \in 1 .. j - 1 : bw[k].period # "running"
    BY <1>5, Zenon DEF InTurn
  <2>1. \A k \in 1 .. j - 1 : k \in 1 .. Len(aw)
    BY <1>7
  <2>2. CASE j = i
    BY <1>1, <1>2, <1>5, <1>6, <1>7, <2>1, <2>2 DEF InTurn
  <2>3. CASE j # i
    <3>1. \A k \in 1 .. j - 1 : aw[k].period # "running" => bw[k].period # "running"
      BY <1>6, <2>1
    <3> QED BY <1>2, <1>5, <1>6, <2>3, <3>1 DEF InTurn
  <2> QED BY <2>2, <2>3
<1>9. LeftIn(bw) = LeftIn(aw)
  BY <1>5, <1>6 DEF LeftIn, RejectedIn
<1>10. BestLeft(bw)
  BY <1>2, <1>5, <1>6, <1>9 DEF BestLeft
<1>11. /\ SignedIn(bw) <=> SignedIn(aw)
       /\ DisputedIn(bw) <=> DisputedIn(aw)
       /\ RunningIn(bw) => RunningIn(aw)
       /\ bw[Len(bw)].status = aw[Len(aw)].status
  <2>1. Len(aw) \in 1 .. Len(aw)
    BY <1>2, <1>7
  <2> QED BY <1>5, <1>6, <2>1 DEF SignedIn, DisputedIn, RunningIn
<1> HIDE DEF r
<1>12. /\ Shape(r) /\ r.status = t.status /\ r.lots = t.lots
       /\ DOMAIN r.awards = DOMAIN t.awards /\ r.awards[p] = bw
       /\ \A q \in DOMAIN t.awards : q # p => r.awards[q] = t.awards[q]
       /\ \A q : OutcomeIn(r, q) = OutcomeIn(t, q) /\ (IsOpen(r, q) <=> IsOpen(t, q))
  BY <1>2, <1>5, PartPut DEF r
<1>13. ASSUME NEW q \in DOMAIN t.awards PROVE ClosedFits(r, q)
  <2>1. ClosedFits(t, q)
    BY DEF Sound, Steady
  <2>2. OutcomeIn(r, q) = OutcomeIn(t, q)
    BY <1>12
  <2>3. CASE q = p
    BY <1>9, <1>11, <1>12, <2>1, <2>2, <2>3 DEF ClosedFits
  <2>4. CASE q # p
    BY <1>12, <2>1, <2>2, <2>4 DEF ClosedFits
  <2> QED BY <2>3, <2>4
<1>14. \A q \in DOMAIN t.awards : InTurn(r.awards[q]) /\ BestLeft(r.awards[q])
  BY <1>8, <1>10, <1>12, Zenon DEF Sound, Steady
<1>15. Steady(r)
  BY <1>12, <1>13, <1>14, Zenon DEF Steady
<1>16. Filled(r)
  BY <1>9, <1>11, <1>12, Zenon DEF Sound, Filled
<1>17. OpenUnsigned(r)
  BY <1>11, <1>12, Zenon DEF Sound, OpenUnsigned
<1>18. LotIsOpen(r)
  BY <1>12, Zenon DEF Sound, LotIsOpen
<1> QED BY <1>1, <1>15, <1>16, <1>17, <1>18 DEF Sound

\* A cancellation is started, withdrawn or made amends for.
LEMMA CancellingKept ==
  ASSUME NEW t, Sound(t)
  PROVE  /\ \A x \in DOMAIN t.awards \cup {Whole, Nobody} : Sound(WithCancelling(t, x))
         /\ \A x \in BOOLEAN : Sound(WithWithdrawn(t, x))
<1>1. Shape(t) /\ Document(t)
  BY ShapeFields DEF Sound, Steady
<1>2. ASSUME NEW r, Shape(r), r.status = t.status, r.lots = t.lots, r.awards = t.awards PROVE Sound(r)
  <2>1. \A p : OutcomeIn(r, p) = OutcomeIn(t, p) /\ (IsOpen(r, p) <=> IsOpen(t, p))
    BY <1>2 DEF OutcomeIn, IsOpen
  <2>2. Steady(r)
    BY <1>2, <2>1 DEF Sound, Steady, ClosedFits
  <2>3. Filled(r) /\ OpenUnsigned(r)
    BY <1>2, <2>1, Zenon DEF Sound, Filled, OpenUnsigned
  <2>4. LotIsOpen(r)
    BY <1>2, Zenon DEF Sound, LotIsOpen
  <2> QED BY <2>2, <2>3, <2>4 DEF Sound
<1>3. ASSUME NEW x \in DOMAIN t.awards \cup {Whole, Nobody} PROVE Sound(WithCancelling(t, x))
  <2>1. SameFields(WithCancelling(t, x), t.kind, t.status, t.lots, t.awards, x, t.withdrawn)
    BY <1>1, Rebuilt
  <2>2. Shape(WithCancelling(t, x))
    BY <1>1, ShapeKept
  <2> QED BY <1>2, <2>1, <2>2, Zenon DEF SameFields
<1>4. ASSUME NEW x \in BOOLEAN PROVE Sound(WithWithdrawn(t, x))
  <2>1. SameFields(WithWithdrawn(t, x), t.kind, t.status, t.lots, t.awards, t.cancelling, x)
    BY <1>1, Rebuilt
  <2>2. Shape(WithWithdrawn(t, x))
    BY <1>1, <1>4, ShapeKept
  <2> QED BY <1>2, <2>1, <2>2, Zenon DEF SameFields
<1> QED BY <1>3, <1>4, Zenon

LEMMA CancellingSound ==
  ASSUME Sound(awarding), W!Cancelling
  PROVE  Sound(awarding')
<1>1. W!Parts(awarding) = DOMAIN awarding.awards
  BY OfAwards DEF Sound, Steady
<1>2. ASSUME NEW x \in W!Parts(awarding) \cup {Whole}, W!StartCancellation(x) PROVE Sound(awarding')
  <2>1. awarding' = WithCancelling(awarding, x)
    BY <1>2, Zenon DEF W!StartCancellation, W!Save, WithCancelling
  <2>2. x \in DOMAIN awarding.awards \cup {Whole, Nobody}
    BY <1>1, <1>2
  <2> QED BY <2>1, <2>2, CancellingKept
<1>3. CASE W!WithdrawCancellation
  <2>1. awarding' = WithWithdrawn(awarding, TRUE)
    BY <1>3, Zenon DEF W!WithdrawCancellation, W!Save, WithWithdrawn
  <2> QED BY <2>1, CancellingKept
<1>4. CASE W!RedressCancellation
  <2> DEFINE s == WithCancelling(awarding, Nobody)
  <2>1. awarding' = WithWithdrawn(s, FALSE)
    BY <1>4, Zenon DEF W!RedressCancellation, W!Save, WithWithdrawn, WithCancelling
  <2>2. Sound(s)
    BY CancellingKept
  <2> HIDE DEF s
  <2> QED BY <2>1, <2>2, CancellingKept
<1> QED BY <1>2, <1>3, <1>4, Zenon DEF W!Cancelling

\* The chronograph drops the drafts whose time is over.
Dropped(aw) ==
  [i \in DOMAIN aw |->
     IF aw[i].period = "over" THEN ReComplaint(aw[i], W!Mistaken(aw[i].complaint)) ELSE aw[i]]

LEMMA DroppedMarks ==
  ASSUME NEW aw \in Seq(Award), aw # << >>
  PROVE  /\ Dropped(aw) \in Seq(Award) \ {<< >>} /\ SameMarks(aw, Dropped(aw))
         /\ DisputedIn(Dropped(aw)) <=> DisputedIn(aw)
<1>1. DOMAIN aw = 1 .. Len(aw) /\ Len(aw) \in Nat /\ Len(aw) # 0
      /\ \A i \in 1 .. Len(aw) : aw[i] \in Award
  OBVIOUS
<1>2. ASSUME NEW a \in Award
      PROVE  /\ AwardIs(ReComplaint(a, W!Mistaken(a.complaint)), a.bid, a.status, a.period, a.contract,
                        W!Mistaken(a.complaint))
             /\ W!Mistaken(a.complaint) \in Undecided <=> a.complaint \in Undecided
  <2>1. W!Mistaken(a.complaint) \in ComplaintStatus \cup {"none", "claim", "withdrawn"}
    BY AwardFields DEF W!Mistaken, ComplaintStatus, Rejected
  <2>2. W!Mistaken(a.complaint) \in Undecided <=> a.complaint \in Undecided
    BY DEF W!Mistaken, Undecided
  <2> QED BY <2>1, <2>2, AwardChangedFields, Zenon
<1> DEFINE Drop(a) == IF a.period = "over" THEN ReComplaint(a, W!Mistaken(a.complaint)) ELSE a
           bw == [i \in DOMAIN aw |-> Drop(aw[i])]
<1>3. ASSUME NEW a \in Award
      PROVE  /\ Drop(a) \in Award /\ Drop(a).bid = a.bid /\ Drop(a).status = a.status
             /\ Drop(a).period = a.period /\ Drop(a).contract = a.contract
             /\ Drop(a).complaint \in Undecided <=> a.complaint \in Undecided
  BY <1>2 DEF AwardIs
<1>4. Dropped(aw) = bw
  BY Zenon DEF Dropped
<1> HIDE DEF Drop
<1>5. /\ bw \in [1 .. Len(aw) -> Award]
      /\ \A i \in 1 .. Len(aw) : bw[i] = Drop(aw[i])
  BY <1>1, <1>3
<1> HIDE DEF bw
<1>6. bw \in Seq(Award) /\ Len(bw) = Len(aw)
  BY <1>1, <1>5
<1>7. \A i \in 1 .. Len(aw) :
        /\ bw[i].bid = aw[i].bid /\ bw[i].status = aw[i].status
        /\ bw[i].period = aw[i].period /\ bw[i].contract = aw[i].contract
        /\ bw[i].complaint \in Undecided <=> aw[i].complaint \in Undecided
  BY <1>1, <1>3, <1>5
<1>8. SameMarks(aw, bw) /\ (DisputedIn(bw) <=> DisputedIn(aw))
  BY <1>6, <1>7 DEF SameMarks, DisputedIn
<1>9. bw # << >>
  BY <1>1, <1>6
<1> QED BY <1>4, <1>6, <1>8, <1>9

LEMMA WithoutDraftsSound ==
  ASSUME NEW t, Sound(t)
  PROVE  LET s == W!WithoutDrafts(t) IN
         /\ Sound(s) /\ s.status = t.status /\ s.cancelling = t.cancelling
<1> DEFINE aws == [p \in DOMAIN t.awards |-> Dropped(t.awards[p])]
<1>1. Shape(t)
  BY DEF Sound, Steady
<1>2. W!WithoutDrafts(t) = WithAwards(t, aws)
  BY <1>1, OfAwards, Zenon DEF W!WithoutDrafts, WithAwards, Dropped, ReComplaint, W!Nth
<1>3. \A p \in DOMAIN t.awards :
        /\ aws[p] \in Seq(Award) \ {<< >>} /\ SameMarks(t.awards[p], aws[p])
        /\ DisputedIn(aws[p]) => DisputedIn(t.awards[p])
  BY <1>1, AwardsOfPart, DroppedMarks
<1>4. aws \in [DOMAIN t.awards -> Seq(Award) \ {<< >>}]
  BY <1>3
<1> HIDE DEF aws
<1> QED BY <1>1, <1>2, <1>3, <1>4, MarksPut, AwardsPut

LEMMA CheckStatusSound ==
  ASSUME Sound(awarding), NEW inForce \in BOOLEAN, W!CheckStatus(inForce)
  PROVE  Sound(awarding')
<1> DEFINE s == W!WithoutDrafts(awarding)
           u == IF inForce THEN W!PutInForce(s) ELSE s
<1>1. awarding' = IF u.cancelling = Nobody /\ W!Due(u) THEN W!CheckTenderStatus(u) ELSE u
  BY Zenon DEF W!CheckStatus, W!Save, W!Checked
<1>2. inForce => awarding.cancelling # Nobody
  BY DEF W!CheckStatus
<1>3. Sound(s) /\ s.cancelling = awarding.cancelling
  BY WithoutDraftsSound
<1> HIDE DEF s
<1>4. Sound(u)
  BY <1>2, <1>3, PutInForceSound
<1> HIDE DEF u
<1>5. W!Due(u) => u.status \in W!Underway
  BY StatusNames DEF W!Due
<1> QED BY <1>1, <1>4, <1>5, CheckTenderStatusSound DEF Sound

LEMMA NextSound ==
  ASSUME Sound(awarding), W!Next
  PROVE  Sound(awarding')
<1>1. W!Parts(awarding) = DOMAIN awarding.awards
  BY OfAwards DEF Sound, Steady
<1>2. ASSUME NEW p \in DOMAIN awarding.awards, NEW i \in W!Nth(awarding.awards[p]), W!Owner(p, i)
      PROVE  Sound(awarding')
  <2>1. CASE W!DecideAward(p, i, "active") \/ W!DecideAward(p, i, "unsuccessful")
    BY <2>1, DecideAwardSound
  <2>2. CASE W!CancelAward(p, i) \/ W!CancelDisputedAward(p, i) \/ W!PostMilestone(p, i)
    BY <2>2, CancelAwardSound, CancelDisputedAwardSound, PostMilestoneSound
  <2>3. CASE W!SignContract(p, i) \/ W!PatchContract(p, i)
    BY <2>3, SignContractSound, PatchContractSound
  <2> QED BY <1>2, <2>1, <2>2, <2>3, Zenon DEF W!Owner
<1>3. ASSUME NEW p \in DOMAIN awarding.awards, NEW i \in W!Nth(awarding.awards[p]), W!Complaining(p, i)
      PROVE  Sound(awarding')
  BY <1>3, PostComplaintSound, PatchComplaintSound DEF W!Complaining
<1>4. ASSUME NEW p \in DOMAIN awarding.awards, NEW i \in W!Nth(awarding.awards[p]), W!Time(p, i)
      PROVE  Sound(awarding')
  BY <1>4, PeriodEndsSound, MilestoneEndsSound DEF W!Time
<1>5. CASE W!Chronograph
  BY <1>5, CheckStatusSound DEF W!Chronograph
<1> QED BY <1>1, <1>2, <1>3, <1>4, <1>5, CancellingSound, Zenon DEF W!Next

-----------------------------------------------------------------------------
(* The invariant holds from the auction on.                                *)

LEMMA AuctionedSound ==
  ASSUME NEW kind \in {"UA", "defense"}, NEW ls, NEW alp \in BOOLEAN
  PROVE  Sound(W!Auctioned(kind, ls, alp))
<1> DEFINE t == W!Auctioned(kind, ls, alp)
           n == W!NewAward(1, alp)
           lots == [l \in ls |-> "active"]
           aws == [p \in (IF ls = {} THEN {Whole} ELSE ls) |-> <<n>>]
<1>1. /\ Document(t) /\ t.kind = kind /\ t.status = "active.qualification" /\ t.lots = lots
      /\ t.awards = aws /\ t.cancelling = Nobody /\ t.withdrawn = FALSE
  BY DEF W!Auctioned, Document
<1>2. /\ n \in Award /\ n.bid = 1 /\ n.status = "pending" /\ n.period = "unset"
      /\ n.contract = "none" /\ n.complaint = "none"
  BY BiddersAssumption DEF W!NewAward, Award
<1> HIDE DEF n, t
<1>3. /\ DOMAIN lots = ls /\ lots \in [ls -> LotState] /\ \A l \in ls : lots[l] = "active"
      /\ DOMAIN aws = PartsOf(ls) /\ \A p \in PartsOf(ls) : aws[p] = <<n>>
  BY DEF LotState, PartsOf
<1>4. <<n>> \in Seq(Award) \ {<< >>}
  BY <1>2
<1>5. aws \in [PartsOf(ls) -> Seq(Award) \ {<< >>}]
  BY <1>4 DEF PartsOf
<1> HIDE DEF lots, aws
<1>6. Shape(t)
  BY <1>1, <1>3, <1>5, StatusNames DEF Shape
<1>7. /\ InTurn(<<n>>) /\ BestLeft(<<n>>) /\ ~ SignedIn(<<n>>) /\ ~ RunningIn(<<n>>)
      /\ <<n>>[Len(<<n>>)].status \in Live
  <2> DEFINE aw == <<n>>
  <2>1. Len(aw) = 1 /\ aw[1] = n
    OBVIOUS
  <2> HIDE DEF aw
  <2>2. InTurn(aw) /\ ~ SignedIn(aw) /\ ~ RunningIn(aw) /\ aw[Len(aw)].status \in Live
    BY <1>2, <2>1 DEF InTurn, SignedIn, RunningIn, Live
  <2>3. RejectedIn(aw) = {}
    BY <1>2, <2>1 DEF RejectedIn
  <2>4. BestLeft(aw)
    BY <1>2, <2>1, <2>3, BiddersAssumption DEF BestLeft, LeftIn
  <2> QED BY <2>2, <2>4 DEF aw
<1>8. \A p \in DOMAIN t.awards : t.awards[p] = <<n>> /\ OutcomeIn(t, p) \notin {"complete", "unsuccessful"}
  BY <1>1, <1>3 DEF OutcomeIn, PartsOf
<1>9. Steady(t)
  BY <1>6, <1>7, <1>8, Zenon DEF Steady, ClosedFits
<1>10. Filled(t) /\ OpenUnsigned(t)
  BY <1>7, <1>8, Zenon DEF Filled, OpenUnsigned
<1>11. LotIsOpen(t)
  BY <1>1, <1>3 DEF LotIsOpen
<1> QED BY <1>9, <1>10, <1>11 DEF Sound, t

LEMMA AwardingInv ==
  AboveInit /\ [][AboveNext]_vars => []AwardingIInv
<1>1. AboveInit => AwardingIInv
  <2>1. ASSUME W!Init PROVE Sound(awarding)
    <3>1. PICK kind \in {"UA", "defense"}, ls \in {{}, Lots} :
            \E alp \in W!LowPrice(kind) : awarding = W!Auctioned(kind, ls, alp)
      BY <2>1, Zenon DEF W!Init
    <3>2. PICK alp \in W!LowPrice(kind) : awarding = W!Auctioned(kind, ls, alp)
      BY <3>1
    <3>3. alp \in BOOLEAN
      BY DEF W!LowPrice
    <3> QED BY <3>2, <3>3, AuctionedSound
  <2> QED BY <2>1 DEF AboveInit, AwardingIInv
<1>2. AwardingIInv /\ [AboveNext]_vars => AwardingIInv'
  <2> SUFFICES ASSUME AwardingIInv, [AboveNext]_vars PROVE AwardingIInv'
    OBVIOUS
  <2>1. CASE awarding' = awarding
    BY <2>1, Zenon DEF AwardingIInv
  <2>2. CASE Auction
    <3>1. PICK alp \in W!LowPrice("UA") : awarding' = W!Auctioned("UA", DOMAIN tender.lots, alp)
      BY <2>2 DEF Auction
    <3>2. alp \in BOOLEAN
      BY DEF W!LowPrice
    <3> QED BY <3>1, <3>2, AuctionedSound DEF AwardingIInv
  <2>3. CASE LastPart
    BY <2>3, NextSound DEF LastPart, AwardingIInv
  <2> QED BY <2>1, <2>2, <2>3 DEF AboveNext, FirstPart, vars
<1> QED BY <1>1, <1>2, PTL

-----------------------------------------------------------------------------
(* What the invariant says of the winners.                                 *)

LEMMA TypesHold ==
  ASSUME Sound(awarding)
  PROVE  W!TypeOK
<1>1. Shape(awarding)
  BY DEF Sound, Steady
<1>2. W!Range(awarding.lots) \subseteq {"active", "complete", "unsuccessful", "cancelled"}
  BY <1>1, ShapeFields DEF W!Range, LotState
<1>3. /\ awarding.kind \in {"UA", "defense"} /\ awarding.status \in W!Underway \cup W!Finished
      /\ awarding.cancelling \in W!Parts(awarding) \cup {Whole, Nobody} /\ awarding.withdrawn \in BOOLEAN
  BY <1>1, ShapeFields, OfAwards
<1>4. ASSUME NEW p \in W!Parts(awarding), NEW a \in W!AwardsOf(awarding, p)
      PROVE  /\ a \in [bid : W!Participants, status : {"pending", "active", "unsuccessful", "cancelled"},
                       held : BOOLEAN, asked : BOOLEAN, period : {"unset", "running", "over"},
                       contract : {"none", "pending", "active", "cancelled"},
                       complaint : W!ComplaintStatus \cup {"none", "claim", "withdrawn"}]
             /\ a.status = "pending" => a.period = "unset" /\ a.contract = "none"
             /\ a.status \in {"active", "unsuccessful"} => a.period # "unset"
             /\ a.status = "active" => a.contract \in {"pending", "active"}
  <2>1. p \in DOMAIN awarding.awards
    BY <1>1, OfAwards
  <2>2. PICK i \in 1 .. Len(awarding.awards[p]) : a = awarding.awards[p][i]
    <3>1. \A x : x \in W!AwardsOf(awarding, p) <=>
                 \E i \in 1 .. Len(awarding.awards[p]) : x = awarding.awards[p][i]
      BY <1>1, <2>1, OfAwards
    <3> QED BY <3>1
  <2>3. a \in Award /\ InTurn(awarding.awards[p])
    BY <1>1, <2>1, <2>2, AwardsOfPart DEF Sound, Steady
  <2>4. W!ComplaintStatus = ComplaintStatus
    BY DEF W!ComplaintStatus, ComplaintStatus, W!Undecided, Undecided, W!Rejected, Rejected
  <2>5. a \in [bid : W!Participants, status : {"pending", "active", "unsuccessful", "cancelled"},
               held : BOOLEAN, asked : BOOLEAN, period : {"unset", "running", "over"},
               contract : {"none", "pending", "active", "cancelled"},
               complaint : W!ComplaintStatus \cup {"none", "claim", "withdrawn"}]
    BY <2>3, <2>4, Zenon DEF Award, W!Participants
  <2> QED BY <2>2, <2>3, <2>5, Zenon DEF InTurn
<1> QED BY <1>2, <1>3, <1>4, Zenon DEF W!TypeOK

LEMMA WinnersAreBest ==
  ASSUME Sound(awarding)
  PROVE  W!AwardingSound
<1>1. Shape(awarding) /\ W!Parts(awarding) = DOMAIN awarding.awards
  BY OfAwards DEF Sound, Steady
<1>2. ASSUME NEW p \in DOMAIN awarding.awards
      PROVE  LET live == {i \in W!Nth(awarding.awards[p]) :
                            awarding.awards[p][i].status \in {"pending", "active"}}
                 left == W!Candidates(awarding, p)
             IN /\ live \subseteq {Len(awarding.awards[p])}
                /\ \A i \in live : awarding.awards[p][i].bid = W!Min(left)
                /\ p \in W!ActiveParts(awarding) => (live = {} <=> left = {})
  <2> DEFINE aw == awarding.awards[p]
             live == {i \in W!Nth(aw) : aw[i].status \in {"pending", "active"}}
             left == W!Candidates(awarding, p)
  <2>1. /\ left = LeftIn(aw) /\ InTurn(aw) /\ BestLeft(aw) /\ Len(aw) \in Nat /\ Len(aw) >= 1
        /\ DOMAIN aw = 1 .. Len(aw) /\ \A i \in 1 .. Len(aw) : aw[i] \in Award
        /\ (p \in W!ActiveParts(awarding) => IsOpen(awarding, p))
    BY <1>1, OfAwards, AwardsOfPart DEF Sound, Steady
  <2>2. \A i : i \in live <=> i \in 1 .. Len(aw) /\ aw[i].status \in Live
    BY <2>1 DEF Live, W!Nth
  <2> HIDE DEF live, left
  <2>3. left \subseteq 1 .. NBids
    BY <2>1 DEF LeftIn
  <2>4. live \subseteq {Len(aw)}
    BY <2>1, <2>2 DEF InTurn
  <2>5. ASSUME NEW i \in live PROVE aw[i].bid = W!Min(left)
    <3>1. aw[i].bid \in left /\ \A b \in left : aw[i].bid <= b
      BY <2>1, <2>2 DEF BestLeft
    <3>2. W!Min(left) \in left /\ \A b \in left : W!Min(left) <= b
      BY <2>3, <3>1, MinIsLeast
    <3>3. aw[i].bid \in Nat /\ W!Min(left) \in Nat
      <4>1. 1 .. NBids \subseteq Nat
        BY BiddersAssumption
      <4> QED BY <2>3, <3>1, <3>2, <4>1, Zenon
    <3> QED BY <3>1, <3>2, <3>3
  <2>6. p \in W!ActiveParts(awarding) => (live = {} <=> left = {})
    <3>1. left = {} => live = {}
      BY <2>1, <2>2 DEF BestLeft
    <3>2. p \in W!ActiveParts(awarding) /\ left # {} => Len(aw) \in live
      BY <2>1, <2>2 DEF Sound, Filled
    <3> QED BY <3>1, <3>2
  <2> QED BY <2>4, <2>5, <2>6 DEF live, left
<1> QED BY <1>1, <1>2, Zenon DEF W!AwardingSound

LEMMA SignedLast ==
  ASSUME Sound(awarding)
  PROVE  W!SignedAfterDisputes
<1>1. Shape(awarding) /\ W!Parts(awarding) = DOMAIN awarding.awards
  BY OfAwards DEF Sound, Steady
<1>2. ASSUME NEW p \in DOMAIN awarding.awards, W!Signed(awarding, p)
      PROVE  /\ W!Cardinality({i \in W!Nth(awarding.awards[p]) : awarding.awards[p][i].contract = "active"}) = 1
             /\ W!Latest(awarding, p).contract = "active" /\ W!Latest(awarding, p).status = "active"
             /\ ~ W!StandsStill(awarding, p) /\ ~ W!HasUndecided(awarding, p)
  <2> DEFINE aw == awarding.awards[p]
             last == aw[Len(aw)]
  <2>1. /\ SignedIn(aw) /\ InTurn(aw) /\ ClosedFits(awarding, p) /\ W!Latest(awarding, p) = last
        /\ W!StandsStill(awarding, p) <=> RunningIn(aw)
        /\ W!HasUndecided(awarding, p) <=> DisputedIn(aw)
        /\ DOMAIN aw = 1 .. Len(aw) /\ Len(aw) \in 1 .. Len(aw)
    BY <1>1, <1>2, OfAwards, AwardsOfPart DEF Sound, Steady
  <2>2. last.contract = "active" /\ last.status = "active"
    BY <2>1, OutcomeOfPart DEF Sound
  <2>3. ~ RunningIn(aw) /\ ~ DisputedIn(aw)
    BY <2>1 DEF ClosedFits
  <2>4. {i \in W!Nth(aw) : aw[i].contract = "active"} = {Len(aw)}
    <3>1. \A i \in 1 .. Len(aw) : aw[i].contract = "active" => i = Len(aw)
      BY <2>1 DEF InTurn, Live
    <3> QED BY <2>1, <2>2, <3>1 DEF W!Nth
  <2>5. W!Cardinality({Len(aw)}) = 1
    <3>1. W!Cardinality({Len(aw)}) = Cardinality({Len(aw)})
      BY DEF W!Cardinality, Cardinality
    <3> QED BY <3>1, FS_Singleton
  <2> QED BY <2>1, <2>2, <2>3, <2>4, <2>5
<1> QED BY <1>1, <1>2, Zenon DEF W!SignedAfterDisputes

LEMMA OutcomesFit ==
  ASSUME Sound(awarding)
  PROVE  W!OutcomeSound
<1>1. Shape(awarding) /\ W!Parts(awarding) = DOMAIN awarding.awards
  BY OfAwards DEF Sound, Steady
<1>2. ASSUME NEW p \in DOMAIN awarding.awards
      PROVE  LET status == IF W!HasLots(awarding) THEN awarding.lots[p] ELSE awarding.status IN
             /\ status = "complete" => W!Signed(awarding, p)
             /\ status \in W!Underway \cup {"active"} => ~ W!Signed(awarding, p)
             /\ status = "unsuccessful" =>
                  W!Candidates(awarding, p) = {} /\ ~ W!HasUndecided(awarding, p)
                  /\ ~ W!StandsStill(awarding, p)
  <2>1. (IF W!HasLots(awarding) THEN awarding.lots[p] ELSE awarding.status) = OutcomeIn(awarding, p)
    BY <1>1, OfAwards DEF OutcomeIn
  <2>2. ClosedFits(awarding, p) /\ (Opened(awarding, p) => ~ SignedIn(awarding.awards[p]))
    BY DEF Sound, Steady, OpenUnsigned, Opened
  <2> QED BY <1>1, <2>1, <2>2, OfAwards, Zenon DEF ClosedFits, Opened
<1> QED BY <1>1, <1>2, Zenon DEF W!OutcomeSound

\* WinnersSound: the best bid not rejected has the award of its part, contracts
\* are signed after the disputes, and outcomes are those of the contracts.
THEOREM WinnersAreSound ==
  AboveInit /\ [][AboveNext]_vars => []WinnersSound
<1>1. AwardingIInv => WinnersSound
  BY TypesHold, WinnersAreBest, SignedLast, OutcomesFit DEF AwardingIInv, WinnersSound
<1> QED BY <1>1, AwardingInv, PTL

-----------------------------------------------------------------------------
(* The first part: its inductive invariant.  It is of the tender of stage  *)
(* 1, again as an operator of a document t, and of the one of stage 2.     *)

Statuses ==
  Reviewing \cup Finished \cup
    {"active.tendering", "active.auction", "active.stage2.pending", "active.stage2.waiting"}
LotStatus == {"active", "unsuccessful", "cancelled"}
ValueStatus == {"pending", "active", "unsuccessful", Nobody}
QualStatus == ValueStatus \cup {"cancelled"}
BidOf(ls) ==
  [status : Final \cup {"pending", "active"}, firm : Firms \cup {Nobody}, values : [ls -> ValueStatus]]
ComplaintOf(ps) == [about : ps, status : ComplaintStatus]

Record(t) ==
  t = [kind |-> t.kind, status |-> t.status, lots |-> t.lots, over |-> t.over,
       standStill |-> t.standStill, bids |-> t.bids, quals |-> t.quals,
       complaints |-> t.complaints, cancelling |-> t.cancelling, withdrawn |-> t.withdrawn]

Form(t) ==
  /\ Record(t)
  /\ t.kind \in {"EU", "dialogue"} /\ t.status \in Statuses
  /\ t.lots \in [DOMAIN t.lots -> LotStatus] /\ DOMAIN t.lots \subseteq Lots
  /\ t.over \in BOOLEAN /\ t.standStill \in {"unset", "running", "over"}
  /\ t.bids \in [Bids -> BidOf(DOMAIN t.lots)]
  /\ t.quals \in [Bids -> [PartsOf(DOMAIN t.lots) -> QualStatus]]
  /\ t.complaints \in Seq(ComplaintOf(PartsOf(DOMAIN t.lots)))
  /\ t.cancelling \in PartsOf(DOMAIN t.lots) \cup {Whole, Nobody} /\ t.withdrawn \in BOOLEAN

\* Only dialogues have a second stage, and they know whose bids they have.
DialogueFits(t) ==
  /\ t.status \in {"active.stage2.pending", "active.stage2.waiting"} => t.kind = "dialogue"
  /\ t.kind = "dialogue" => \A b \in Bids : t.bids[b].status # Nobody => t.bids[b].firm \in Firms

\* Nothing is decided about bids while they may come.
Undecidedly(bid) ==
  /\ bid.status \in {Nobody, "draft", "pending", "deleted", "invalid"}
  /\ \A l \in DOMAIN bid.values : bid.values[l] \in {"pending", Nobody}
TenderingFits(t) ==
  t.status = "active.tendering" =>
    \A b \in Bids : Undecidedly(t.bids[b]) /\ \A p \in Parts(t) : t.quals[b][p] = Nobody

\* What a bid says of a part.
ValueOf(t, b, p) == IF HasLots(t) THEN t.bids[b].values[p] ELSE t.bids[b].status
Gone == {"invalid", "deleted", Nobody}

\* It says what was decided, and that it is admitted only if it was.  A bid that
\* was decided about is not gone, and will be looked at if it is to be.
QualFits(t, b, p) ==
  /\ t.quals[b][p] # Nobody =>
       t.quals[b][p] = ValueOf(t, b, p) /\ (HasLots(t) => t.bids[b].status \notin Gone)
  /\ ValueOf(t, b, p) = "active" => t.quals[b][p] = "active"
ClosedQual(t, b, p) ==
  /\ t.quals[b][p] # "pending"
  /\ t.kind = "EU" => t.bids[b].values[p] # "active"
ReviewFits(t) ==
  t.status \in Reviewing \cup Competing =>
    \A b \in Bids, p \in Parts(t) :
      /\ p \in ActiveParts(t) => QualFits(t, b, p)
      /\ p \notin ActiveParts(t) => ClosedQual(t, b, p)

\* The stand-still begins when all is reviewed.
ReviewOver(t) ==
  t.status \in Competing \cup {"active.pre-qualification.stand-still"} => AllReviewed(t)

AdmittedTo(t, p) == {b \in InPlay(t, p) : t.quals[b][p] = "active"}
Undisputed(t, p) ==
  \A k \in DOMAIN t.complaints : t.complaints[k].about = p => t.complaints[k].status \notin Undecided
Enough(t) ==
  t.status \in Competing =>
    \A p \in ActiveParts(t) : Cardinality(AdmittedTo(t, p)) >= MinBids /\ Undisputed(t, p)

Good(t) ==
  /\ Form(t) /\ DialogueFits(t) /\ TenderingFits(t) /\ ReviewFits(t) /\ ReviewOver(t) /\ Enough(t)

\* The second stage has a short list of firms that were admitted in the first.
Second(s) ==
  /\ s = [status |-> s.status, shortlist |-> s.shortlist, bid |-> s.bid, credentials |-> s.credentials]
  /\ s.status \in {"draft", "draft.stage2", "active.tendering"}
Listed(t, shortlist) ==
  \A k \in shortlist :
    \E b \in Bids : t.bids[b].firm = k[1] /\ (k[2] \in ActiveParts(t) => t.quals[b][k[2]] = "active")
StageFits(t, s) ==
  s # NoStage2 =>
    /\ Second(s) /\ t.status \in Finished \cup {"active.stage2.waiting"}
    /\ s.shortlist \subseteq Firms \X Parts(t)
    /\ t.status # "cancelled" => Listed(t, s.shortlist)

ReviewIInv == tender = NotFollowed \/ (Good(tender) /\ StageFits(tender, stage2))

-----------------------------------------------------------------------------
(* Documents and bids, field by field.                                     *)

LEMMA FormFields ==
  ASSUME NEW t, Form(t)
  PROVE  /\ Record(t) /\ t.kind \in {"EU", "dialogue"} /\ t.status \in Statuses
         /\ t.lots \in [DOMAIN t.lots -> LotStatus] /\ DOMAIN t.lots \subseteq Lots
         /\ Parts(t) = PartsOf(DOMAIN t.lots) /\ (HasLots(t) <=> DOMAIN t.lots # {})
         /\ t.bids \in [Bids -> BidOf(DOMAIN t.lots)]
         /\ t.quals \in [Bids -> [Parts(t) -> QualStatus]]
         /\ t.complaints \in Seq(ComplaintOf(Parts(t)))
         /\ t.cancelling \in Parts(t) \cup {Whole, Nobody}
         /\ (DOMAIN t.lots = {} /\ Parts(t) = {Whole}) \/ (DOMAIN t.lots # {} /\ Parts(t) = DOMAIN t.lots)
         /\ \A p : p \in ActiveParts(t) <=> p \in Parts(t) /\ (DOMAIN t.lots # {} => t.lots[p] = "active")
<1>1. Parts(t) = PartsOf(DOMAIN t.lots) /\ (HasLots(t) <=> DOMAIN t.lots # {})
  BY DEF Parts, HasLots, PartsOf
<1>2. (DOMAIN t.lots = {} /\ Parts(t) = {Whole}) \/ (DOMAIN t.lots # {} /\ Parts(t) = DOMAIN t.lots)
  BY <1>1 DEF PartsOf
<1>3. \A p : p \in ActiveParts(t) <=> p \in Parts(t) /\ (DOMAIN t.lots # {} => t.lots[p] = "active")
  BY <1>1 DEF ActiveParts
<1> QED BY <1>1, <1>2, <1>3, Zenon DEF Form

WithBids(t, v) == [t EXCEPT !.bids = v]
WithQuals(t, v) == [t EXCEPT !.quals = v]
WithComplaints(t, v) == [t EXCEPT !.complaints = v]
WithOver(t, v) == [t EXCEPT !.over = v]
WithStandStill(t, v) == [t EXCEPT !.standStill = v]

HasFields(s, kind, status, lots, over, standStill, bids, quals, complaints, cancelling, withdrawn) ==
  /\ Record(s) /\ s.kind = kind /\ s.status = status /\ s.lots = lots /\ s.over = over
  /\ s.standStill = standStill /\ s.bids = bids /\ s.quals = quals /\ s.complaints = complaints
  /\ s.cancelling = cancelling /\ s.withdrawn = withdrawn

LEMMA RecordMade ==
  ASSUME NEW s, NEW a, NEW b, NEW c, NEW d, NEW e, NEW f, NEW g, NEW h, NEW i, NEW j,
         s = [kind |-> a, status |-> b, lots |-> c, over |-> d, standStill |-> e, bids |-> f,
              quals |-> g, complaints |-> h, cancelling |-> i, withdrawn |-> j]
  PROVE  HasFields(s, a, b, c, d, e, f, g, h, i, j)
BY DEF HasFields, Record

LEMMA Rewritten ==
  ASSUME NEW t, Record(t), NEW v
  PROVE  /\ HasFields(WithStatus(t, v), t.kind, v, t.lots, t.over, t.standStill,
                      t.bids, t.quals, t.complaints, t.cancelling, t.withdrawn)
         /\ HasFields(WithLots(t, v), t.kind, t.status, v, t.over, t.standStill,
                      t.bids, t.quals, t.complaints, t.cancelling, t.withdrawn)
         /\ HasFields(WithOver(t, v), t.kind, t.status, t.lots, v, t.standStill,
                      t.bids, t.quals, t.complaints, t.cancelling, t.withdrawn)
         /\ HasFields(WithStandStill(t, v), t.kind, t.status, t.lots, t.over, v,
                      t.bids, t.quals, t.complaints, t.cancelling, t.withdrawn)
         /\ HasFields(WithBids(t, v), t.kind, t.status, t.lots, t.over, t.standStill,
                      v, t.quals, t.complaints, t.cancelling, t.withdrawn)
         /\ HasFields(WithQuals(t, v), t.kind, t.status, t.lots, t.over, t.standStill,
                      t.bids, v, t.complaints, t.cancelling, t.withdrawn)
         /\ HasFields(WithComplaints(t, v), t.kind, t.status, t.lots, t.over, t.standStill,
                      t.bids, t.quals, v, t.cancelling, t.withdrawn)
         /\ HasFields(WithCancelling(t, v), t.kind, t.status, t.lots, t.over, t.standStill,
                      t.bids, t.quals, t.complaints, v, t.withdrawn)
         /\ HasFields(WithWithdrawn(t, v), t.kind, t.status, t.lots, t.over, t.standStill,
                      t.bids, t.quals, t.complaints, t.cancelling, v)
<1>1. PICK a, b, c, d, e, f, g, h, i, j :
        /\ t = [kind |-> a, status |-> b, lots |-> c, over |-> d, standStill |-> e, bids |-> f,
                quals |-> g, complaints |-> h, cancelling |-> i, withdrawn |-> j]
        /\ a = t.kind /\ b = t.status /\ c = t.lots /\ d = t.over /\ e = t.standStill /\ f = t.bids
        /\ g = t.quals /\ h = t.complaints /\ i = t.cancelling /\ j = t.withdrawn
  BY DEF Record
<1>2. HasFields(WithStatus(t, v), a, v, c, d, e, f, g, h, i, j)
  <2>1. WithStatus(t, v) = [kind |-> a, status |-> v, lots |-> c, over |-> d, standStill |-> e,
                              bids |-> f, quals |-> g, complaints |-> h, cancelling |-> i, withdrawn |-> j]
    BY <1>1 DEF WithStatus
  <2> QED BY <2>1, RecordMade
<1>3. HasFields(WithLots(t, v), a, b, v, d, e, f, g, h, i, j)
  <2>1. WithLots(t, v) = [kind |-> a, status |-> b, lots |-> v, over |-> d, standStill |-> e,
                              bids |-> f, quals |-> g, complaints |-> h, cancelling |-> i, withdrawn |-> j]
    BY <1>1 DEF WithLots
  <2> QED BY <2>1, RecordMade
<1>4. HasFields(WithOver(t, v), a, b, c, v, e, f, g, h, i, j)
  <2>1. WithOver(t, v) = [kind |-> a, status |-> b, lots |-> c, over |-> v, standStill |-> e,
                              bids |-> f, quals |-> g, complaints |-> h, cancelling |-> i, withdrawn |-> j]
    BY <1>1 DEF WithOver
  <2> QED BY <2>1, RecordMade
<1>5. HasFields(WithStandStill(t, v), a, b, c, d, v, f, g, h, i, j)
  <2>1. WithStandStill(t, v) = [kind |-> a, status |-> b, lots |-> c, over |-> d, standStill |-> v,
                              bids |-> f, quals |-> g, complaints |-> h, cancelling |-> i, withdrawn |-> j]
    BY <1>1 DEF WithStandStill
  <2> QED BY <2>1, RecordMade
<1>6. HasFields(WithBids(t, v), a, b, c, d, e, v, g, h, i, j)
  <2>1. WithBids(t, v) = [kind |-> a, status |-> b, lots |-> c, over |-> d, standStill |-> e,
                              bids |-> v, quals |-> g, complaints |-> h, cancelling |-> i, withdrawn |-> j]
    BY <1>1 DEF WithBids
  <2> QED BY <2>1, RecordMade
<1>7. HasFields(WithQuals(t, v), a, b, c, d, e, f, v, h, i, j)
  <2>1. WithQuals(t, v) = [kind |-> a, status |-> b, lots |-> c, over |-> d, standStill |-> e,
                              bids |-> f, quals |-> v, complaints |-> h, cancelling |-> i, withdrawn |-> j]
    BY <1>1 DEF WithQuals
  <2> QED BY <2>1, RecordMade
<1>8. HasFields(WithComplaints(t, v), a, b, c, d, e, f, g, v, i, j)
  <2>1. WithComplaints(t, v) = [kind |-> a, status |-> b, lots |-> c, over |-> d, standStill |-> e,
                              bids |-> f, quals |-> g, complaints |-> v, cancelling |-> i, withdrawn |-> j]
    BY <1>1 DEF WithComplaints
  <2> QED BY <2>1, RecordMade
<1>9. HasFields(WithCancelling(t, v), a, b, c, d, e, f, g, h, v, j)
  <2>1. WithCancelling(t, v) = [kind |-> a, status |-> b, lots |-> c, over |-> d, standStill |-> e,
                              bids |-> f, quals |-> g, complaints |-> h, cancelling |-> v, withdrawn |-> j]
    BY <1>1 DEF WithCancelling
  <2> QED BY <2>1, RecordMade
<1>10. HasFields(WithWithdrawn(t, v), a, b, c, d, e, f, g, h, i, v)
  <2>1. WithWithdrawn(t, v) = [kind |-> a, status |-> b, lots |-> c, over |-> d, standStill |-> e,
                              bids |-> f, quals |-> g, complaints |-> h, cancelling |-> i, withdrawn |-> v]
    BY <1>1 DEF WithWithdrawn
  <2> QED BY <2>1, RecordMade
<1> QED BY <1>1, <1>2, <1>3, <1>4, <1>5, <1>6, <1>7, <1>8, <1>9, <1>10, Zenon

ReBidStatus(bid, v) == [bid EXCEPT !.status = v]
ReValues(bid, v) == [bid EXCEPT !.values = v]

LEMMA BidFields ==
  ASSUME NEW ls, NEW bid \in BidOf(ls)
  PROVE  /\ bid = [status |-> bid.status, firm |-> bid.firm, values |-> bid.values]
         /\ bid.status \in Final \cup {"pending", "active"} /\ bid.firm \in Firms \cup {Nobody}
         /\ bid.values \in [ls -> ValueStatus] /\ DOMAIN bid.values = ls
         /\ \A l \in ls : bid.values[l] \in ValueStatus
<1>1. bid.values \in [ls -> ValueStatus]
  BY Zenon DEF BidOf
<1> QED BY <1>1, Zenon DEF BidOf

LEMMA BidChanged ==
  ASSUME NEW ls, NEW bid \in BidOf(ls)
  PROVE  /\ \A v : LET c == ReBidStatus(bid, v) IN
                   /\ c.status = v /\ c.firm = bid.firm /\ c.values = bid.values
                   /\ v \in Final \cup {"pending", "active"} => c \in BidOf(ls)
         /\ \A v : LET c == ReValues(bid, v) IN
                   /\ c.status = bid.status /\ c.firm = bid.firm /\ c.values = v
                   /\ v \in [ls -> ValueStatus] => c \in BidOf(ls)
<1>1. PICK st, fi, va : bid = [status |-> st, firm |-> fi, values |-> va]
  BY BidFields
<1>2. st \in Final \cup {"pending", "active"} /\ fi \in Firms \cup {Nobody} /\ va \in [ls -> ValueStatus]
  BY <1>1, BidFields
<1>3. ASSUME NEW v
      PROVE  LET c == ReBidStatus(bid, v) IN
             /\ c.status = v /\ c.firm = bid.firm /\ c.values = bid.values
             /\ v \in Final \cup {"pending", "active"} => c \in BidOf(ls)
  <2>1. ReBidStatus(bid, v) = [status |-> v, firm |-> fi, values |-> va]
    BY <1>1 DEF ReBidStatus
  <2>2. v \in Final \cup {"pending", "active"} => [status |-> v, firm |-> fi, values |-> va] \in BidOf(ls)
    BY <1>2 DEF BidOf
  <2> QED BY <1>1, <2>1, <2>2
<1>4. ASSUME NEW v
      PROVE  LET c == ReValues(bid, v) IN
             /\ c.status = bid.status /\ c.firm = bid.firm /\ c.values = v
             /\ v \in [ls -> ValueStatus] => c \in BidOf(ls)
  <2>1. ReValues(bid, v) = [status |-> st, firm |-> fi, values |-> v]
    BY <1>1 DEF ReValues
  <2>2. v \in [ls -> ValueStatus] => [status |-> st, firm |-> fi, values |-> v] \in BidOf(ls)
    BY <1>2 DEF BidOf
  <2> QED BY <1>1, <2>1, <2>2
<1> QED BY <1>3, <1>4

LEMMA NoBidMade ==
  ASSUME NEW ls
  PROVE  /\ NoBid(ls) \in BidOf(ls) /\ NoBid(ls).status = Nobody /\ NoBid(ls).firm = Nobody
         /\ \A l \in ls : NoBid(ls).values[l] = Nobody
BY DEF NoBid, BidOf, Final, ValueStatus

\* What the functions read of a document.
LEMMA ReadAlike ==
  ASSUME NEW t, NEW r, r.lots = t.lots
  PROVE  /\ Parts(r) = Parts(t) /\ HasLots(r) = HasLots(t) /\ ActiveParts(r) = ActiveParts(t)
         /\ r.bids = t.bids =>
              /\ \A p : InPlay(r, p) = InPlay(t, p) /\ ToReview(r, p) = ToReview(t, p)
              /\ \A b, p : ValueOf(r, b, p) = ValueOf(t, b, p)
<1>1. Parts(r) = Parts(t) /\ HasLots(r) = HasLots(t)
  BY Zenon DEF Parts, HasLots
<1>2. ActiveParts(r) = ActiveParts(t)
  BY <1>1, Zenon DEF ActiveParts
<1>3. ASSUME r.bids = t.bids
      PROVE  /\ \A p : InPlay(r, p) = InPlay(t, p) /\ ToReview(r, p) = ToReview(t, p)
             /\ \A b, p : ValueOf(r, b, p) = ValueOf(t, b, p)
  BY <1>1, <1>3, Zenon DEF InPlay, ToReview, ValueOf
<1> QED BY <1>1, <1>2, <1>3

LEMMA StatusOrder ==
  /\ Statuses = Reviewing \cup Finished \cup Competing \cup {"active.tendering"}
  /\ Competing \cap Reviewing = {} /\ Competing \cap Finished = {} /\ Reviewing \cap Finished = {}
  /\ "active.tendering" \notin Reviewing \cup Competing \cup Finished
  /\ "active.pre-qualification" \in Reviewing /\ "active.pre-qualification.stand-still" \in Reviewing
  /\ "active.auction" \in Competing /\ "active.stage2.pending" \in Competing
  /\ "active.stage2.waiting" \in Competing
  /\ \A x \in Reviewing : x \in {"active.pre-qualification", "active.pre-qualification.stand-still"}
  /\ \A x \in Finished : x \in {"complete", "unsuccessful", "cancelled"}
BY DEF Statuses, Reviewing, Finished, Competing

\* Nothing is asked of a tender that is finished.
LEMMA FinishedIsGood ==
  ASSUME NEW t, Form(t), DialogueFits(t), t.status \in Finished
  PROVE  Good(t)
<1>1. t.status \notin Reviewing \cup Competing \cup {"active.tendering"}
  BY StatusOrder
<1>2. "active.pre-qualification.stand-still" \in Reviewing
  BY StatusOrder
<1> QED BY <1>1, <1>2 DEF Good, TenderingFits, ReviewFits, ReviewOver, Enough

\* A change that leaves lots, bids, qualifications and status alone, and
\* opens no dispute in a competition.
LEMMA StoryKept ==
  ASSUME NEW t, NEW r, NEW s, Good(t), StageFits(t, s), Form(r),
         r.kind = t.kind, r.lots = t.lots, r.bids = t.bids, r.quals = t.quals, r.status = t.status,
         t.status \in Competing => \A p : Undisputed(t, p) => Undisputed(r, p)
  PROVE  Good(r) /\ StageFits(r, s)
<1>1. /\ Parts(r) = Parts(t) /\ HasLots(r) = HasLots(t) /\ ActiveParts(r) = ActiveParts(t)
      /\ \A p : InPlay(r, p) = InPlay(t, p) /\ ToReview(r, p) = ToReview(t, p)
      /\ \A b, p : ValueOf(r, b, p) = ValueOf(t, b, p)
  BY ReadAlike
<1>2. DialogueFits(r) /\ TenderingFits(r)
  BY <1>1, Zenon DEF Good, DialogueFits, TenderingFits
<1>3. \A b, p : (QualFits(t, b, p) => QualFits(r, b, p)) /\ (ClosedQual(t, b, p) => ClosedQual(r, b, p))
  BY <1>1, Zenon DEF QualFits, ClosedQual
<1>4. ReviewFits(r)
  BY <1>1, <1>3, Zenon DEF Good, ReviewFits
<1>5. ReviewOver(r)
  <2>1. AllReviewed(t) => AllReviewed(r)
    BY <1>1, Zenon DEF AllReviewed
  <2>2. ReviewOver(t)
    BY DEF Good
  <2> QED BY <2>1, <2>2 DEF ReviewOver
<1>6. ASSUME NEW p PROVE AdmittedTo(r, p) = AdmittedTo(t, p)
  <2>1. InPlay(r, p) = InPlay(t, p)
    BY <1>1
  <2> QED BY <2>1 DEF AdmittedTo
<1>7. Enough(r)
  BY <1>1, <1>6, Zenon DEF Good, Enough
<1>8. StageFits(r, s)
  BY <1>1, Zenon DEF StageFits, Listed
<1> QED BY <1>2, <1>4, <1>5, <1>7, <1>8 DEF Good

-----------------------------------------------------------------------------
(* Documents with less open than before: what is still open is as it was.  *)

Narrower(t, r) ==
  /\ r.kind = t.kind /\ DOMAIN r.lots = DOMAIN t.lots
  /\ \A b \in Bids : r.bids[b].firm = t.bids[b].firm
  /\ ActiveParts(r) \subseteq ActiveParts(t)
  /\ \A b \in Bids, p \in ActiveParts(r) :
       r.quals[b][p] = t.quals[b][p] /\ ValueOf(r, b, p) = ValueOf(t, b, p)
  /\ HasLots(t) =>
       \A b \in Bids :
         /\ t.bids[b].status \in Gone => r.bids[b].status \in Gone
         /\ \A p \in ActiveParts(r) :
              /\ ValueOf(t, b, p) # Nobody /\ r.bids[b].status \in Gone => t.bids[b].status \in Gone
              /\ ValueOf(t, b, p) = "active" /\ t.bids[b].status \in {"pending", "active"} =>
                   r.bids[b].status \in {"pending", "active"}

LEMMA NarrowerFits ==
  ASSUME NEW t, NEW r, Form(t), Form(r), Narrower(t, r)
  PROVE  /\ Parts(r) = Parts(t) /\ (HasLots(r) <=> HasLots(t))
         /\ \A b \in Bids, p \in ActiveParts(r) : QualFits(t, b, p) => QualFits(r, b, p)
         /\ AllReviewed(t) => AllReviewed(r)
         /\ \A p \in ActiveParts(r) :
              (\A b \in Bids : QualFits(t, b, p)) => AdmittedTo(t, p) \subseteq AdmittedTo(r, p)
         /\ \A list : Listed(t, list) => Listed(r, list)
<1>1. Parts(r) = Parts(t) /\ (HasLots(r) <=> HasLots(t))
  BY FormFields, Zenon DEF Narrower
<1>2. ASSUME NEW b \in Bids, NEW p \in ActiveParts(r), QualFits(t, b, p) PROVE QualFits(r, b, p)
  <2>1. r.quals[b][p] = t.quals[b][p] /\ ValueOf(r, b, p) = ValueOf(t, b, p)
    BY DEF Narrower
  <2>2. HasLots(t) /\ ValueOf(t, b, p) # Nobody /\ r.bids[b].status \in Gone => t.bids[b].status \in Gone
    BY DEF Narrower
  <2> QED BY <1>1, <1>2, <2>1, <2>2, Zenon DEF QualFits
<1>3. ASSUME NEW b \in Bids, NEW p \in ActiveParts(r), b \in ToReview(r, p) PROVE b \in ToReview(t, p)
  <2>1. ValueOf(r, b, p) = ValueOf(t, b, p)
    BY DEF Narrower
  <2>2. CASE HasLots(t)
    <3>1. r.bids[b].status \notin Gone /\ ValueOf(r, b, p) = "pending"
      BY <1>1, <1>3, <2>2 DEF ToReview, ValueOf, Gone
    <3>2. t.bids[b].status \notin Gone
      BY <2>2, <3>1 DEF Narrower
    <3> QED BY <2>1, <2>2, <3>1, <3>2 DEF ToReview, ValueOf, Gone
  <2>3. CASE ~ HasLots(t)
    BY <1>1, <1>3, <2>1, <2>3 DEF ToReview, ValueOf
  <2> QED BY <2>2, <2>3
<1>4. AllReviewed(t) => AllReviewed(r)
  <2> SUFFICES ASSUME AllReviewed(t), NEW p \in ActiveParts(r), NEW b \in ToReview(r, p) PROVE FALSE
    BY DEF AllReviewed
  <2>1. b \in Bids
    BY DEF ToReview
  <2>2. p \in ActiveParts(t)
    BY <2>1 DEF Narrower
  <2> QED BY <1>3, <2>1, <2>2 DEF AllReviewed
<1>5. ASSUME NEW p \in ActiveParts(r), \A b \in Bids : QualFits(t, b, p), NEW b \in AdmittedTo(t, p)
      PROVE  b \in AdmittedTo(r, p)
  <2>1. b \in Bids /\ t.bids[b].status \in {"pending", "active"} /\ t.quals[b][p] = "active"
    BY DEF AdmittedTo, InPlay
  <2>2. ValueOf(t, b, p) = "active"
    BY <1>5, <2>1, NobodyAssumption DEF QualFits
  <2>3. r.quals[b][p] = "active" /\ ValueOf(r, b, p) = "active"
    BY <2>1, <2>2 DEF Narrower
  <2>4. r.bids[b].status \in {"pending", "active"}
    <3>1. CASE HasLots(t)
      BY <2>1, <2>2, <3>1 DEF Narrower
    <3>2. CASE ~ HasLots(t)
      BY <1>1, <2>3, <3>2 DEF ValueOf
    <3> QED BY <3>1, <3>2
  <2> QED BY <1>1, <2>1, <2>3, <2>4 DEF AdmittedTo, InPlay, ValueOf
<1>6. ASSUME NEW list, Listed(t, list) PROVE Listed(r, list)
  <2> SUFFICES ASSUME NEW k \in list
               PROVE  \E b \in Bids : r.bids[b].firm = k[1]
                                      /\ (k[2] \in ActiveParts(r) => r.quals[b][k[2]] = "active")
    BY DEF Listed
  <2>1. PICK b \in Bids : t.bids[b].firm = k[1] /\ (k[2] \in ActiveParts(t) => t.quals[b][k[2]] = "active")
    BY <1>6 DEF Listed
  <2>2. r.bids[b].firm = k[1] /\ (k[2] \in ActiveParts(r) => r.quals[b][k[2]] = "active")
    BY <2>1, Zenon DEF Narrower
  <2> QED BY <2>2
<1> QED BY <1>1, <1>2, <1>4, <1>5, <1>6

\* A document is as good with less open in it.
LEMMA NarrowerIsGood ==
  ASSUME NEW t, NEW r, Good(t), Form(r), Narrower(t, r), DialogueFits(r), r.status = t.status,
         t.status # "active.tendering",
         \A p : Undisputed(t, p) => Undisputed(r, p),
         t.status \in Reviewing \cup Competing =>
           \A b \in Bids, p \in Parts(r) : p \notin ActiveParts(r) => ClosedQual(r, b, p)
  PROVE  Good(r)
<1>1. /\ Form(t) /\ ReviewFits(t) /\ ReviewOver(t) /\ Enough(t)
  BY DEF Good
<1>2. \A p \in ActiveParts(r) : p \in ActiveParts(t)
  BY DEF Narrower
<1>3. TenderingFits(r)
  BY DEF TenderingFits
<1>4. ReviewFits(r)
  <2> SUFFICES ASSUME t.status \in Reviewing \cup Competing, NEW b \in Bids, NEW p \in ActiveParts(r)
               PROVE  QualFits(r, b, p)
    BY Zenon DEF ReviewFits
  <2>1. p \in ActiveParts(t) /\ p \in Parts(t)
    BY <1>1, <1>2, FormFields
  <2>2. QualFits(t, b, p)
    BY <1>1, <2>1, Zenon DEF ReviewFits
  <2> QED BY <1>1, <2>2, NarrowerFits
<1>5. ReviewOver(r)
  <2>1. AllReviewed(t) => AllReviewed(r)
    BY <1>1, NarrowerFits
  <2> QED BY <1>1, <2>1 DEF ReviewOver
<1>6. Enough(r)
  <2> SUFFICES ASSUME t.status \in Competing, NEW p \in ActiveParts(r)
               PROVE  Cardinality(AdmittedTo(r, p)) >= MinBids /\ Undisputed(r, p)
    BY DEF Enough
  <2>1. p \in ActiveParts(t) /\ p \in Parts(t)
    BY <1>1, <1>2, FormFields
  <2>2. \A b \in Bids : QualFits(t, b, p)
    BY <1>1, <2>1, Zenon DEF ReviewFits
  <2>3. AdmittedTo(t, p) \subseteq AdmittedTo(r, p)
    BY <1>1, <2>2, NarrowerFits
  <2>4. IsFiniteSet(AdmittedTo(r, p))
    <3>1. AdmittedTo(r, p) \subseteq Bids
      BY DEF AdmittedTo, InPlay
    <3> QED BY <3>1, BidsAssumption, FS_Subset
  <2>5. /\ Cardinality(AdmittedTo(t, p)) <= Cardinality(AdmittedTo(r, p))
        /\ Cardinality(AdmittedTo(t, p)) \in Nat /\ Cardinality(AdmittedTo(r, p)) \in Nat
    BY <2>3, <2>4, FS_Subset, FS_CardinalityType
  <2>6. Cardinality(AdmittedTo(t, p)) >= MinBids /\ Undisputed(t, p)
    BY <1>1, <2>1 DEF Enough
  <2> QED BY <2>5, <2>6, MinBidsAssumption
<1> QED BY <1>3, <1>4, <1>5, <1>6 DEF Good

-----------------------------------------------------------------------------
(* Storing a tender: the status of a bid follows its values.               *)

StoredBids(t) == [b \in Bids |-> ReBidStatus(t.bids[b], BidStatus(t, b))]
Stored(t) == WithBids(t, StoredBids(t))

LEMMA StoreWrites == \A t : Store(t) <=> tender' = Stored(t)
<1> TAKE t
<1>1. StoredBids(t) = [b \in Bids |-> [t.bids[b] EXCEPT !.status = BidStatus(t, b)]]
  BY Zenon DEF StoredBids, ReBidStatus
<1> QED BY <1>1, Zenon DEF Store, Stored, WithBids

LEMMA BidStatusFits ==
  ASSUME NEW t, Form(t), NEW b \in Bids
  PROVE  /\ BidStatus(t, b) \in Final \cup {"pending", "active"}
         /\ t.bids[b].status \in Final \/ ~ HasLots(t) \/ t.status \in {"active.tendering", "cancelled"} =>
              BidStatus(t, b) = t.bids[b].status
         /\ BidStatus(t, b) = Nobody => t.bids[b].status = Nobody
         /\ \A p \in ActiveParts(t) :
              HasLots(t) =>
                /\ t.bids[b].values[p] # Nobody /\ BidStatus(t, b) \in Gone => t.bids[b].status \in Gone
                /\ t.bids[b].values[p] = "active" /\ t.bids[b].status \in {"pending", "active"} =>
                     BidStatus(t, b) \in {"pending", "active"}
<1> DEFINE s == BidStatus(t, b)
           bid == t.bids[b]
           some(x) == \E l \in DOMAIN t.lots : t.lots[l] \in {"active", "complete"} /\ bid.values[l] = x
<1>1. bid.status \in Final \cup {"pending", "active"}
  BY FormFields, BidFields
<1>2. bid.status \in Final \/ ~ HasLots(t) \/ t.status \in {"active.tendering", "cancelled"} => s = bid.status
  BY Zenon DEF BidStatus
<1>3. CASE bid.status \in Final \/ ~ HasLots(t) \/ t.status \in {"active.tendering", "cancelled"}
  BY <1>1, <1>2, <1>3
<1>4. CASE ~ (bid.status \in Final \/ ~ HasLots(t) \/ t.status \in {"active.tendering", "cancelled"})
  <2>1. s = IF \A l \in DOMAIN t.lots : bid.values[l] = Nobody THEN "invalid"
            ELSE IF some("pending") THEN "pending" ELSE IF some("active") THEN "active" ELSE "unsuccessful"
    BY <1>4, Zenon DEF BidStatus
  <2>2. \A p \in ActiveParts(t) : p \in DOMAIN t.lots /\ t.lots[p] = "active"
    BY <1>4, FormFields
  <2>3. ASSUME NEW p \in ActiveParts(t), bid.values[p] # Nobody PROVE s \in {"pending", "active", "unsuccessful"}
    BY <2>1, <2>2, <2>3
  <2>4. ASSUME NEW p \in ActiveParts(t), bid.values[p] = "active" PROVE s \in {"pending", "active"}
    <3>1. some("active")
      BY <2>2, <2>4
    <3>2. bid.values[p] # Nobody
      BY <2>4, NobodyAssumption
    <3> QED BY <2>1, <2>2, <3>1, <3>2
  <2>5. s \in {"invalid", "pending", "active", "unsuccessful"}
    BY <2>1
  <2>6. \A x \in Gone : x \notin {"pending", "active", "unsuccessful"}
    BY NobodyAssumption DEF Gone
  <2>7. s # Nobody /\ s \in Final \cup {"pending", "active"}
    BY <2>5, NobodyAssumption DEF Final
  <2> HIDE DEF s, bid, some
  <2>8. \A p \in ActiveParts(t) :
              HasLots(t) =>
                /\ bid.values[p] # Nobody /\ s \in Gone => bid.status \in Gone
                /\ bid.values[p] = "active" /\ bid.status \in {"pending", "active"} => s \in {"pending", "active"}
    BY <2>3, <2>4, <2>6
  <2> QED BY <1>2, <2>7, <2>8 DEF s, bid
<1> QED BY <1>3, <1>4

LEMMA StoredFields ==
  ASSUME NEW t, Form(t)
  PROVE  /\ HasFields(Stored(t), t.kind, t.status, t.lots, t.over, t.standStill,
                      StoredBids(t), t.quals, t.complaints, t.cancelling, t.withdrawn)
         /\ Form(Stored(t))
         /\ \A b \in Bids :
              /\ Stored(t).bids[b].status = BidStatus(t, b) /\ Stored(t).bids[b].firm = t.bids[b].firm
              /\ Stored(t).bids[b].values = t.bids[b].values
<1>1. Record(t)
  BY DEF Form
<1>2. HasFields(Stored(t), t.kind, t.status, t.lots, t.over, t.standStill,
                StoredBids(t), t.quals, t.complaints, t.cancelling, t.withdrawn)
  BY <1>1, Rewritten, Zenon DEF Stored
<1>3. ASSUME NEW b \in Bids
      PROVE  /\ StoredBids(t)[b].status = BidStatus(t, b) /\ StoredBids(t)[b].firm = t.bids[b].firm
             /\ StoredBids(t)[b].values = t.bids[b].values
             /\ StoredBids(t)[b] \in BidOf(DOMAIN t.lots)
  <2>1. StoredBids(t)[b] = ReBidStatus(t.bids[b], BidStatus(t, b))
    BY DEF StoredBids
  <2>2. t.bids[b] \in BidOf(DOMAIN t.lots)
    BY FormFields
  <2>3. BidStatus(t, b) \in Final \cup {"pending", "active"}
    BY BidStatusFits
  <2> QED BY <2>1, <2>2, <2>3, BidChanged
<1>4. StoredBids(t) \in [Bids -> BidOf(DOMAIN t.lots)]
  <2>1. StoredBids(t) = [b \in Bids |-> StoredBids(t)[b]]
    BY DEF StoredBids
  <2> QED BY <1>3, <2>1
<1>5. Form(Stored(t))
  BY <1>2, <1>4, Zenon DEF Form, HasFields
<1>6. Stored(t).bids = StoredBids(t)
  BY <1>2 DEF HasFields
<1> QED BY <1>2, <1>3, <1>5, <1>6

LEMMA StoredIsNarrower ==
  ASSUME NEW t, Form(t)
  PROVE  Narrower(t, Stored(t))
<1> DEFINE r == Stored(t)
<1>1. r.kind = t.kind /\ r.lots = t.lots /\ r.quals = t.quals
  BY StoredFields DEF HasFields
<1>2. \A b \in Bids : /\ r.bids[b].status = BidStatus(t, b) /\ r.bids[b].firm = t.bids[b].firm
                      /\ r.bids[b].values = t.bids[b].values
  BY StoredFields
<1>3. ActiveParts(r) = ActiveParts(t) /\ HasLots(r) = HasLots(t)
  BY <1>1, ReadAlike
<1>4. Gone \subseteq Final
  BY DEF Gone, Final
<1> HIDE DEF r
<1>5. ASSUME NEW b \in Bids, NEW p \in ActiveParts(r)
      PROVE  r.quals[b][p] = t.quals[b][p] /\ ValueOf(r, b, p) = ValueOf(t, b, p)
  <2>1. ValueOf(r, b, p) = ValueOf(t, b, p)
    <3>1. CASE HasLots(t)
      BY <1>2, <1>3, <3>1 DEF ValueOf
    <3>2. CASE ~ HasLots(t)
      BY <1>2, <1>3, <3>2, BidStatusFits DEF ValueOf
    <3> QED BY <3>1, <3>2
  <2> QED BY <1>1, <1>3, <2>1
<1>6. ASSUME HasLots(t), NEW b \in Bids
      PROVE  /\ t.bids[b].status \in Gone => r.bids[b].status \in Gone
             /\ \A p \in ActiveParts(r) :
                  /\ ValueOf(t, b, p) # Nobody /\ r.bids[b].status \in Gone => t.bids[b].status \in Gone
                  /\ ValueOf(t, b, p) = "active" /\ t.bids[b].status \in {"pending", "active"} =>
                       r.bids[b].status \in {"pending", "active"}
  <2>1. t.bids[b].status \in Gone => r.bids[b].status \in Gone
    BY <1>2, <1>4, BidStatusFits
  <2>2. \A p : ValueOf(t, b, p) = t.bids[b].values[p]
    BY <1>6 DEF ValueOf
  <2> QED BY <1>2, <1>3, <1>6, <2>1, <2>2, BidStatusFits
<1>7. \A b \in Bids : r.bids[b].firm = t.bids[b].firm
  BY <1>2
<1>8. DOMAIN r.lots = DOMAIN t.lots
  BY <1>1
<1>9. Narrower(t, r)
  <2>1. ActiveParts(r) \subseteq ActiveParts(t)
    BY <1>3
  <2> QED BY <1>1, <1>5, <1>6, <1>7, <1>8, <2>1, Zenon DEF Narrower
<1> QED BY <1>9 DEF r

\* Storing a good tender leaves it good.
LEMMA StoredIsGood ==
  ASSUME NEW t, NEW s, Good(t), StageFits(t, s)
  PROVE  Good(Stored(t)) /\ StageFits(Stored(t), s)
<1> DEFINE r == Stored(t)
<1>1. Form(t) /\ DialogueFits(t) /\ ReviewFits(t)
  BY DEF Good
<1>2. /\ Form(r) /\ r.kind = t.kind /\ r.status = t.status /\ r.lots = t.lots /\ r.quals = t.quals
      /\ r.complaints = t.complaints /\ r.bids = StoredBids(t)
  BY <1>1, StoredFields DEF HasFields
<1>3. \A b \in Bids : /\ r.bids[b].status = BidStatus(t, b) /\ r.bids[b].firm = t.bids[b].firm
                      /\ r.bids[b].values = t.bids[b].values
  BY <1>1, StoredFields
<1>4. Narrower(t, r)
  BY <1>1, StoredIsNarrower
<1>5. \A p : Undisputed(t, p) => Undisputed(r, p)
  <2>1. r.complaints = t.complaints
    BY <1>2
  <2> HIDE DEF r
  <2> QED BY <2>1 DEF Undisputed
<1>6. CASE t.status = "active.tendering"
  <2>1. r.bids = t.bids
    <3>1. ASSUME NEW b \in Bids PROVE StoredBids(t)[b] = t.bids[b]
      <4>1. BidStatus(t, b) = t.bids[b].status
        BY <1>1, <1>6, BidStatusFits
      <4>2. t.bids[b] \in BidOf(DOMAIN t.lots)
        BY <1>1, FormFields
      <4>3. t.bids[b] = [status |-> t.bids[b].status, firm |-> t.bids[b].firm, values |-> t.bids[b].values]
        BY <4>2, BidFields
      <4>4. StoredBids(t)[b] = [t.bids[b] EXCEPT !.status = t.bids[b].status]
        BY <4>1, Zenon DEF StoredBids, ReBidStatus
      <4>5. \A x, y, z : LET v == [status |-> x, firm |-> y, values |-> z] IN [v EXCEPT !.status = v.status] = v
        OBVIOUS
      <4> QED BY <4>3, <4>4, <4>5
    <3>2. t.bids = [b \in Bids |-> t.bids[b]]
      BY <1>1, FormFields
    <3>3. StoredBids(t) = [b \in Bids |-> StoredBids(t)[b]]
      BY DEF StoredBids
    <3>4. StoredBids(t) = t.bids
      BY <3>1, <3>2, <3>3
    <3> QED BY <1>2, <3>4
  <2> HIDE DEF r
  <2>2. Good(r) /\ StageFits(r, s)
    BY <1>2, <1>5, <2>1, StoryKept
  <2> QED BY <2>2 DEF r
<1>7. CASE t.status # "active.tendering"
  <2> HIDE DEF r
  <2>1. ActiveParts(r) = ActiveParts(t) /\ Parts(r) = Parts(t)
    BY <1>2, ReadAlike
  <2>2. DialogueFits(r)
    <3>1. \A b \in Bids : t.bids[b].status = Nobody => r.bids[b].status = Nobody
      BY <1>1, <1>3, BidStatusFits DEF Final
    <3>2. \A b \in Bids : r.bids[b].status # Nobody => t.bids[b].status # Nobody /\ r.bids[b].firm = t.bids[b].firm
      BY <1>3, <3>1, BidStatusFits, <1>1, <1>7
    <3>3. r.kind = t.kind /\ r.status = t.status
      BY <1>2
    <3> QED BY <1>1, <3>2, <3>3 DEF DialogueFits
  <2>3. ASSUME t.status \in Reviewing \cup Competing, NEW b \in Bids, NEW p \in Parts(r), p \notin ActiveParts(r)
        PROVE  ClosedQual(r, b, p)
    <3>1. ClosedQual(t, b, p)
      BY <1>1, <2>1, <2>3, Zenon DEF ReviewFits
    <3> QED BY <1>2, <1>3, <3>1, Zenon DEF ClosedQual
  <2>4. Good(r)
    BY <1>2, <1>4, <1>5, <1>7, <2>2, <2>3, NarrowerIsGood
  <2>5. \A list : Listed(t, list) => Listed(r, list)
    BY <1>1, <1>2, <1>4, NarrowerFits
  <2>6. StageFits(r, s)
    BY <1>2, <2>1, <2>5, Zenon DEF StageFits
  <2> QED BY <2>4, <2>6 DEF r
<1> QED BY <1>6, <1>7

-----------------------------------------------------------------------------
(* Bids, in the tender period.                                             *)

OneBid(t, b, v) == WithBids(t, [t.bids EXCEPT ![b] = v])

\* A document with other bids.
LEMMA BidsFields ==
  ASSUME NEW t, Form(t), NEW bids \in [Bids -> BidOf(DOMAIN t.lots)]
  PROVE  /\ HasFields(WithBids(t, bids), t.kind, t.status, t.lots, t.over, t.standStill,
                      bids, t.quals, t.complaints, t.cancelling, t.withdrawn)
         /\ Form(WithBids(t, bids))
<1>1. Record(t)
  BY DEF Form
<1>2. HasFields(WithBids(t, bids), t.kind, t.status, t.lots, t.over, t.standStill,
                bids, t.quals, t.complaints, t.cancelling, t.withdrawn)
  BY <1>1, Rewritten, Zenon
<1>3. Form(WithBids(t, bids))
  BY <1>2, Zenon DEF Form, HasFields
<1> QED BY <1>2, <1>3

LEMMA OneBidFields ==
  ASSUME NEW t, Form(t), NEW b \in Bids, NEW v \in BidOf(DOMAIN t.lots)
  PROVE  /\ HasFields(OneBid(t, b, v), t.kind, t.status, t.lots, t.over, t.standStill,
                      [t.bids EXCEPT ![b] = v], t.quals, t.complaints, t.cancelling, t.withdrawn)
         /\ Form(OneBid(t, b, v))
         /\ [t.bids EXCEPT ![b] = v] \in [Bids -> BidOf(DOMAIN t.lots)]
         /\ OneBid(t, b, v).bids[b] = v
         /\ \A x \in Bids \ {b} : OneBid(t, b, v).bids[x] = t.bids[x]
<1>1. t.bids \in [Bids -> BidOf(DOMAIN t.lots)]
  BY FormFields
<1> DEFINE f == [t.bids EXCEPT ![b] = v]
<1>2. f \in [Bids -> BidOf(DOMAIN t.lots)] /\ f[b] = v /\ \A x \in Bids \ {b} : f[x] = t.bids[x]
  BY <1>1
<1> HIDE DEF f
<1>3. /\ HasFields(WithBids(t, f), t.kind, t.status, t.lots, t.over, t.standStill,
                   f, t.quals, t.complaints, t.cancelling, t.withdrawn)
      /\ Form(WithBids(t, f))
  BY <1>2, BidsFields
<1>4. WithBids(t, f) = OneBid(t, b, v)
  BY Zenon DEF OneBid, f
<1>5. OneBid(t, b, v).bids = f
  BY <1>3, <1>4, Zenon DEF HasFields
<1> QED BY <1>2, <1>3, <1>4, <1>5, Zenon DEF f

LEMMA BidsArrive ==
  ASSUME NEW t, NEW s, Good(t), StageFits(t, s), t.status = "active.tendering",
         NEW bids \in [Bids -> BidOf(DOMAIN t.lots)],
         \A b \in Bids : /\ Undecidedly(bids[b])
                         /\ t.kind = "dialogue" /\ bids[b].status # Nobody => bids[b].firm \in Firms
  PROVE  Good(WithBids(t, bids)) /\ StageFits(WithBids(t, bids), s)
<1> DEFINE r == WithBids(t, bids)
<1>1. Form(t) /\ DialogueFits(t) /\ TenderingFits(t)
  BY DEF Good
<1>2. /\ Form(r) /\ r.kind = t.kind /\ r.status = t.status /\ r.lots = t.lots /\ r.bids = bids
      /\ r.quals = t.quals
  BY <1>1, BidsFields DEF HasFields
<1> HIDE DEF r
<1>3. Parts(r) = Parts(t)
  BY <1>2, ReadAlike
<1>4. r.status \notin Reviewing \cup Competing \cup Finished /\ r.status # "active.pre-qualification.stand-still"
      /\ r.status # "active.stage2.waiting"
  BY <1>2, StatusOrder
<1>5. DialogueFits(r)
  BY <1>2 DEF DialogueFits
<1>6. TenderingFits(r)
  BY <1>1, <1>2, <1>3, Zenon DEF TenderingFits
<1>7. ReviewFits(r) /\ ReviewOver(r) /\ Enough(r)
  BY <1>4 DEF ReviewFits, ReviewOver, Enough
<1>8. s = NoStage2
  BY <1>2, <1>4, Zenon DEF StageFits
<1>9. Good(r) /\ StageFits(r, s)
  BY <1>2, <1>5, <1>6, <1>7, <1>8, Zenon DEF Good, StageFits
<1> QED BY <1>9 DEF r

LEMMA BidArrives ==
  ASSUME NEW t, NEW s, Good(t), StageFits(t, s), t.status = "active.tendering",
         NEW b \in Bids, NEW v \in BidOf(DOMAIN t.lots), Undecidedly(v),
         t.kind = "dialogue" /\ v.status # Nobody => v.firm \in Firms
  PROVE  Good(OneBid(t, b, v)) /\ StageFits(OneBid(t, b, v), s)
<1>1. Form(t) /\ DialogueFits(t) /\ TenderingFits(t)
  BY DEF Good
<1>2. t.bids \in [Bids -> BidOf(DOMAIN t.lots)]
  BY <1>1, FormFields
<1> DEFINE f == [t.bids EXCEPT ![b] = v]
<1>3. f \in [Bids -> BidOf(DOMAIN t.lots)] /\ f[b] = v /\ \A x \in Bids \ {b} : f[x] = t.bids[x]
  BY <1>2
<1> HIDE DEF f
<1>4. ASSUME NEW x \in Bids
      PROVE  /\ Undecidedly(f[x])
             /\ t.kind = "dialogue" /\ f[x].status # Nobody => f[x].firm \in Firms
  <2>1. CASE x = b
    BY <1>3, <2>1
  <2>2. CASE x # b
    <3>1. f[x] = t.bids[x]
      BY <1>3, <2>2
    <3>2. Undecidedly(t.bids[x])
      BY <1>1, Zenon DEF TenderingFits
    <3>3. t.kind = "dialogue" /\ t.bids[x].status # Nobody => t.bids[x].firm \in Firms
      BY <1>1, Zenon DEF DialogueFits
    <3> QED BY <3>1, <3>2, <3>3
  <2> QED BY <2>1, <2>2
<1>5. Good(WithBids(t, f)) /\ StageFits(WithBids(t, f), s)
  BY <1>3, <1>4, BidsArrive
<1>6. WithBids(t, f) = OneBid(t, b, v)
  BY Zenon DEF OneBid, f
<1> QED BY <1>5, <1>6

-----------------------------------------------------------------------------
(* The requests keep the invariant.  Kept: the tender after a request of   *)
(* the first stage is good again.                                          *)

Kept == Good(tender') /\ StageFits(tender', stage2)

\* A request that stores a good document.
LEMMA StoringKeeps ==
  ASSUME NEW t, Store(t), Good(t), StageFits(t, stage2)
  PROVE  Kept
<1>1. tender' = Stored(t)
  BY StoreWrites
<1>2. Good(Stored(t)) /\ StageFits(Stored(t), stage2)
  BY StoredIsGood
<1> QED BY <1>1, <1>2, Zenon DEF Kept

\* Values of a bid that comes.
LEMMA ValuesFit ==
  ASSUME Form(tender), NEW ls
  PROVE  /\ Values(ls) \in [DOMAIN tender.lots -> ValueStatus] /\ DOMAIN Values(ls) = DOMAIN tender.lots
         /\ \A l \in DOMAIN tender.lots : Values(ls)[l] \in {"pending", Nobody}
BY DEF Values, ValueStatus

LEMMA PostBidKeeps ==
  ASSUME Good(tender), StageFits(tender, stage2), NEW b \in Bids, NEW firm \in Firms \cup {Nobody}, NEW status,
         NEW ls, PostBid(b, firm, status, ls)
  PROVE  Kept
<1> DEFINE v == [status |-> status, firm |-> firm, values |-> Values(ls)]
<1>1. tender.status = "active.tendering" /\ status \in {"draft", "pending"}
  BY DEF PostBid, Tendering
<1>2. Store([tender EXCEPT !.bids[b] = v])
  BY DEF PostBid
<1>3. Store(OneBid(tender, b, v))
  BY <1>2, Zenon DEF OneBid, WithBids
<1>4. Form(tender)
  BY DEF Good
<1>5. v \in BidOf(DOMAIN tender.lots) /\ Undecidedly(v)
  BY <1>1, <1>4, ValuesFit DEF BidOf, Undecidedly, Final
<1>6. tender.kind = "dialogue" => v.firm \in Firms
  BY DEF PostBid
<1> HIDE DEF v
<1>7. Good(OneBid(tender, b, v)) /\ StageFits(OneBid(tender, b, v), stage2)
  BY <1>1, <1>5, <1>6, BidArrives
<1> QED BY <1>3, <1>7, StoringKeeps

\* A bid that is changed in the tender period, and stays a bid.
LEMMA BidChangeKeeps ==
  ASSUME Good(tender), StageFits(tender, stage2), tender.status = "active.tendering", NEW b \in Bids,
         tender.bids[b].status # Nobody, NEW ls, NEW status \in {"pending", "deleted"},
         Store([tender EXCEPT !.bids[b].status = status, !.bids[b].values = Values(ls)])
  PROVE  Kept
<1> DEFINE v == ReBidStatus(tender.bids[b], status)
           u == OneBid(tender, b, v)
           w == ReValues(u.bids[b], Values(ls))
<1>1. Form(tender) /\ TenderingFits(tender) /\ DialogueFits(tender)
  BY DEF Good
<1>2. tender.bids[b] \in BidOf(DOMAIN tender.lots) /\ Undecidedly(tender.bids[b])
  BY <1>1, FormFields DEF TenderingFits
<1>3. tender.kind = "dialogue" => tender.bids[b].firm \in Firms
  BY <1>1 DEF DialogueFits
<1>4. v \in BidOf(DOMAIN tender.lots) /\ v.status = status /\ v.firm = tender.bids[b].firm
      /\ v.values = tender.bids[b].values
  BY <1>2, BidChanged DEF Final
<1>5. Undecidedly(v)
  BY <1>2, <1>4, Zenon DEF Undecidedly
<1>6. [tender EXCEPT !.bids[b].status = status, !.bids[b].values = Values(ls)] = OneBid(u, b, w)
  <2>1. u = OneBid(tender, b, ReBidStatus(tender.bids[b], status))
    OBVIOUS
  <2> HIDE DEF u, v
  <2>2. u = [tender EXCEPT !.bids[b].status = status]
    BY <2>1, Zenon DEF OneBid, WithBids, ReBidStatus
  <2>3. [tender EXCEPT !.bids[b].status = status, !.bids[b].values = Values(ls)]
        = [u EXCEPT !.bids[b].values = Values(ls)]
    BY <2>2, Zenon
  <2>4. [u EXCEPT !.bids[b].values = Values(ls)] = OneBid(u, b, w)
    BY Zenon DEF OneBid, WithBids, ReValues
  <2> QED BY <2>3, <2>4, Zenon
<1>8. Store(OneBid(u, b, w))
  <2>1. PICK x : x = [tender EXCEPT !.bids[b].status = status, !.bids[b].values = Values(ls)]
    OBVIOUS
  <2>2. Store(x)
    BY <2>1, Zenon
  <2>3. x = OneBid(u, b, w)
    BY <1>6, <2>1, Zenon
  <2> QED BY <2>2, <2>3, Zenon
<1> HIDE DEF v
<1>9. Good(u) /\ StageFits(u, stage2)
  BY <1>3, <1>4, <1>5, BidArrives
<1>10. u.status = tender.status /\ u.lots = tender.lots /\ u.kind = tender.kind /\ u.bids[b] = v
  <2>1. v \in BidOf(DOMAIN tender.lots)
    BY <1>4
  <2>2. /\ HasFields(u, tender.kind, tender.status, tender.lots, tender.over, tender.standStill,
                      [tender.bids EXCEPT ![b] = v], tender.quals, tender.complaints, tender.cancelling,
                      tender.withdrawn)
        /\ u.bids[b] = v
    BY <1>1, <2>1, OneBidFields
  <2> HIDE DEF u
  <2> QED BY <2>2, Zenon DEF HasFields
<1> HIDE DEF u
<1>11. w \in BidOf(DOMAIN u.lots) /\ w.status = v.status /\ w.firm = v.firm /\ w.values = Values(ls)
  BY <1>1, <1>4, <1>10, BidChanged, ValuesFit
<1>12. Undecidedly(w)
  BY <1>1, <1>5, <1>11, ValuesFit DEF Undecidedly
<1> HIDE DEF w
<1>13. Good(OneBid(u, b, w)) /\ StageFits(OneBid(u, b, w), stage2)
  BY <1>3, <1>4, <1>9, <1>10, <1>11, <1>12, BidArrives
<1> QED BY <1>8, <1>13, StoringKeeps

LEMMA EditTenderKeeps ==
  ASSUME Good(tender), StageFits(tender, stage2), EditTender
  PROVE  Kept
<1> DEFINE f == [b \in Bids |-> IF tender.bids[b].status \in {"deleted", "draft", Nobody} THEN tender.bids[b]
                                ELSE ReBidStatus(tender.bids[b], "invalid")]
<1>1. tender.status = "active.tendering"
  BY DEF EditTender, Tendering
<1>2. Store(WithBids(tender, f))
  BY Zenon DEF EditTender, WithBids, ReBidStatus
<1>3. Form(tender) /\ TenderingFits(tender) /\ DialogueFits(tender)
  BY DEF Good
<1>4. ASSUME NEW b \in Bids
      PROVE  /\ f[b] \in BidOf(DOMAIN tender.lots) /\ Undecidedly(f[b])
             /\ tender.kind = "dialogue" /\ f[b].status # Nobody => f[b].firm \in Firms
  <2>1. tender.bids[b] \in BidOf(DOMAIN tender.lots) /\ Undecidedly(tender.bids[b])
    BY <1>1, <1>3, FormFields DEF TenderingFits
  <2>2. tender.kind = "dialogue" /\ tender.bids[b].status # Nobody => tender.bids[b].firm \in Firms
    BY <1>3 DEF DialogueFits
  <2>3. CASE tender.bids[b].status \in {"deleted", "draft", Nobody}
    BY <2>1, <2>2, <2>3
  <2>4. CASE tender.bids[b].status \notin {"deleted", "draft", Nobody}
    <3> DEFINE c == ReBidStatus(tender.bids[b], "invalid")
    <3>1. f[b] = c
      BY <2>4
    <3>2. c \in BidOf(DOMAIN tender.lots) /\ c.status = "invalid" /\ c.firm = tender.bids[b].firm
          /\ c.values = tender.bids[b].values
      BY <2>1, BidChanged DEF Final
    <3> HIDE DEF c, f
    <3>3. Undecidedly(c)
      BY <2>1, <3>2, Zenon DEF Undecidedly
    <3> QED BY <2>2, <2>4, <3>1, <3>2, <3>3
  <2> QED BY <2>3, <2>4
<1>5. f \in [Bids -> BidOf(DOMAIN tender.lots)]
  BY <1>4
<1> HIDE DEF f
<1>6. Good(WithBids(tender, f)) /\ StageFits(WithBids(tender, f), stage2)
  BY <1>1, <1>4, <1>5, BidsArrive
<1> QED BY <1>2, <1>6, StoringKeeps

LEMMA BidderKeeps ==
  ASSUME Good(tender), StageFits(tender, stage2), Bidder
  PROVE  Kept
<1> USE DEF Tendering
<1>1. PICK b \in Bids :
        \/ DeleteBid(b)
        \/ \E ls \in LotChoices :
             PatchBid(b, ls) \/ \E f \in Firms \cup {Nobody}, s \in {"draft", "pending"} : PostBid(b, f, s, ls)
  BY Zenon DEF Bidder
<1>2. CASE DeleteBid(b)
  BY <1>2, BidChangeKeeps DEF DeleteBid
<1>3. CASE \E ls \in LotChoices : PatchBid(b, ls)
  BY <1>3, BidChangeKeeps DEF PatchBid
<1>4. CASE \E ls \in LotChoices, f \in Firms \cup {Nobody}, s \in {"draft", "pending"} : PostBid(b, f, s, ls)
  BY <1>4, PostBidKeeps
<1> QED BY <1>1, <1>2, <1>3, <1>4, Zenon

-----------------------------------------------------------------------------
(* Decisions about bids.                                                   *)

\* set_bid_status changes one bid: its value for the part, or its status.
LEMMA SetBidFields ==
  ASSUME NEW t, Form(t), NEW b \in Bids, NEW p \in Parts(t), NEW x \in {"pending", "active", "unsuccessful"}
  PROVE  \E f \in [Bids -> BidOf(DOMAIN t.lots)] :
           /\ HasFields(SetBid(t, b, p, x), t.kind, t.status, t.lots, t.over, t.standStill,
                        f, t.quals, t.complaints, t.cancelling, t.withdrawn)
           /\ \A y \in Bids \ {b} : f[y] = t.bids[y]
           /\ f[b].firm = t.bids[b].firm /\ f[b].status \in {t.bids[b].status, x}
           /\ ~ HasLots(t) => f[b].status = x
           /\ HasLots(t) => /\ \A q \in Parts(t) : f[b].values[q] = IF q = p THEN x ELSE t.bids[b].values[q]
                            /\ f[b].status \in {t.bids[b].status, "pending", "active"}
           /\ ~ HasLots(t) => f[b].values = t.bids[b].values
<1>1. t.bids[b] \in BidOf(DOMAIN t.lots)
  BY FormFields
<1>2. CASE ~ HasLots(t)
  <2>1. PICK v : v = ReBidStatus(t.bids[b], x)
    OBVIOUS
  <2>2. v \in BidOf(DOMAIN t.lots) /\ v.status = x /\ v.firm = t.bids[b].firm /\ v.values = t.bids[b].values
    BY <1>1, <2>1, BidChanged DEF Final
  <2>3. SetBid(t, b, p, x) = OneBid(t, b, v)
    BY <1>2, <2>1, Zenon DEF SetBid, OneBid, WithBids, ReBidStatus
  <2>4. PICK f : f = [t.bids EXCEPT ![b] = v]
    OBVIOUS
  <2>5. /\ HasFields(OneBid(t, b, v), t.kind, t.status, t.lots, t.over, t.standStill,
                     f, t.quals, t.complaints, t.cancelling, t.withdrawn)
        /\ f \in [Bids -> BidOf(DOMAIN t.lots)]
        /\ OneBid(t, b, v).bids[b] = v /\ \A y \in Bids \ {b} : OneBid(t, b, v).bids[y] = t.bids[y]
    BY <2>2, <2>4, OneBidFields
  <2>6. f[b] = v /\ \A y \in Bids \ {b} : f[y] = t.bids[y]
    BY <2>5, Zenon DEF HasFields
  <2> QED BY <1>2, <2>2, <2>3, <2>5, <2>6
<1>3. CASE HasLots(t)
  <2>1. PICK ys : ys = [t.bids[b].values EXCEPT ![p] = x]
    OBVIOUS
  <2>2. p \in DOMAIN t.lots /\ Parts(t) = DOMAIN t.lots
    BY <1>3, FormFields
  <2>3. t.bids[b].values \in [DOMAIN t.lots -> ValueStatus]
    BY <1>1, BidFields
  <2>4. /\ ys \in [DOMAIN t.lots -> ValueStatus]
        /\ \A q \in Parts(t) : ys[q] = IF q = p THEN x ELSE t.bids[b].values[q]
    BY <2>1, <2>2, <2>3 DEF ValueStatus
  <2>5. PICK v : v = ReValues(t.bids[b], ys)
    OBVIOUS
  <2>6. v \in BidOf(DOMAIN t.lots) /\ v.status = t.bids[b].status /\ v.firm = t.bids[b].firm /\ v.values = ys
    BY <1>1, <2>4, <2>5, BidChanged
  <2>7. PICK u : u = OneBid(t, b, v)
    OBVIOUS
  <2>8. PICK z : z = IF x \in {"pending", "active"} THEN x ELSE u.bids[b].status
    OBVIOUS
  <2>9. PICK w : w = ReBidStatus(u.bids[b], z)
    OBVIOUS
  <2>10. SetBid(t, b, p, x) = OneBid(u, b, w)
    <3>1. PICK y : y = [t EXCEPT !.bids[b].values[p] = x]
      OBVIOUS
    <3>2. SetBid(t, b, p, x)
          = [y EXCEPT !.bids[b].status = IF x \in {"pending", "active"} THEN x ELSE y.bids[b].status]
      BY <1>3, <3>1, Zenon DEF SetBid
    <3>3. y = u
      BY <2>1, <2>5, <2>7, <3>1, Zenon DEF OneBid, WithBids, ReValues
    <3>4. SetBid(t, b, p, x) = [u EXCEPT !.bids[b].status = z]
      BY <2>8, <3>2, <3>3, Zenon
    <3>5. [u EXCEPT !.bids[b].status = z] = OneBid(u, b, w)
      BY <2>9, Zenon DEF OneBid, WithBids, ReBidStatus
    <3> QED BY <3>4, <3>5, Zenon
  <2>11. /\ HasFields(u, t.kind, t.status, t.lots, t.over, t.standStill,
                      [t.bids EXCEPT ![b] = v], t.quals, t.complaints, t.cancelling, t.withdrawn)
         /\ Form(u) /\ u.bids[b] = v /\ \A y \in Bids \ {b} : u.bids[y] = t.bids[y]
    BY <2>6, <2>7, OneBidFields
  <2>12. u.lots = t.lots /\ u.kind = t.kind /\ u.status = t.status /\ u.over = t.over
         /\ u.standStill = t.standStill /\ u.quals = t.quals /\ u.complaints = t.complaints
         /\ u.cancelling = t.cancelling /\ u.withdrawn = t.withdrawn
    BY <2>11, Zenon DEF HasFields
  <2>13. z \in Final \cup {"pending", "active"} /\ z \in {t.bids[b].status, x}
         /\ z \in {t.bids[b].status, "pending", "active"}
    BY <1>1, <2>6, <2>8, <2>11, BidFields
  <2>14. v \in BidOf(DOMAIN u.lots)
    BY <2>6, <2>12
  <2>15. w \in BidOf(DOMAIN u.lots) /\ w.status = z /\ w.firm = t.bids[b].firm /\ w.values = ys
    BY <2>6, <2>9, <2>11, <2>13, <2>14, BidChanged
  <2>16. PICK f : f = [u.bids EXCEPT ![b] = w]
    OBVIOUS
  <2>17. /\ HasFields(OneBid(u, b, w), u.kind, u.status, u.lots, u.over, u.standStill,
                      f, u.quals, u.complaints, u.cancelling, u.withdrawn)
         /\ f \in [Bids -> BidOf(DOMAIN u.lots)]
         /\ OneBid(u, b, w).bids[b] = w /\ \A y \in Bids \ {b} : OneBid(u, b, w).bids[y] = u.bids[y]
    BY <2>11, <2>15, <2>16, OneBidFields
  <2>18. f[b] = w /\ \A y \in Bids \ {b} : f[y] = t.bids[y]
    BY <2>11, <2>17, Zenon DEF HasFields
  <2>19. HasFields(SetBid(t, b, p, x), t.kind, t.status, t.lots, t.over, t.standStill,
                   f, t.quals, t.complaints, t.cancelling, t.withdrawn)
    BY <2>10, <2>12, <2>17, Zenon
  <2>20. f[b].firm = t.bids[b].firm /\ f[b].status = z /\ f[b].values = ys
    BY <2>15, <2>18
  <2>21. f \in [Bids -> BidOf(DOMAIN t.lots)]
    BY <2>12, <2>17
  <2> QED BY <1>3, <2>4, <2>13, <2>18, <2>19, <2>20, <2>21
<1> QED BY <1>2, <1>3

\* A decision about a bid, or that there is to be one, on an open part.
Redecided(t, b, p, x) == [SetBid(t, b, p, x) EXCEPT !.quals[b][p] = x]

LEMMA DecisionIsGood ==
  ASSUME NEW t, NEW s, Good(t), StageFits(t, s), t.status = "active.pre-qualification",
         NEW b \in Bids, NEW p \in ActiveParts(t), NEW x \in {"pending", "active", "unsuccessful"},
         t.quals[b][p] # Nobody
  PROVE  Good(Redecided(t, b, p, x)) /\ StageFits(Redecided(t, b, p, x), s)
<1>1. Form(t) /\ DialogueFits(t) /\ ReviewFits(t)
  BY DEF Good
<1>2. p \in Parts(t)
  BY <1>1, FormFields
<1>3. PICK f \in [Bids -> BidOf(DOMAIN t.lots)] :
        /\ HasFields(SetBid(t, b, p, x), t.kind, t.status, t.lots, t.over, t.standStill,
                     f, t.quals, t.complaints, t.cancelling, t.withdrawn)
        /\ \A y \in Bids \ {b} : f[y] = t.bids[y]
        /\ f[b].firm = t.bids[b].firm /\ f[b].status \in {t.bids[b].status, x}
        /\ ~ HasLots(t) => f[b].status = x
        /\ HasLots(t) => /\ \A q \in Parts(t) : f[b].values[q] = IF q = p THEN x ELSE t.bids[b].values[q]
                         /\ f[b].status \in {t.bids[b].status, "pending", "active"}
        /\ ~ HasLots(t) => f[b].values = t.bids[b].values
  BY <1>1, <1>2, SetBidFields
<1>4. PICK u : u = SetBid(t, b, p, x)
  OBVIOUS
<1>5. PICK qs : qs = [t.quals EXCEPT ![b] = [t.quals[b] EXCEPT ![p] = x]]
  OBVIOUS
<1>6. PICK r : r = WithQuals(u, qs)
  OBVIOUS
<1>7. Record(u) /\ u.quals = t.quals
  BY <1>3, <1>4, Zenon DEF HasFields
<1>8. Redecided(t, b, p, x) = r
  BY <1>4, <1>5, <1>6, <1>7, Zenon DEF Redecided, WithQuals
<1>9. HasFields(r, t.kind, t.status, t.lots, t.over, t.standStill,
                f, qs, t.complaints, t.cancelling, t.withdrawn)
  <2>1. HasFields(r, u.kind, u.status, u.lots, u.over, u.standStill,
                  u.bids, qs, u.complaints, u.cancelling, u.withdrawn)
    BY <1>6, <1>7, Rewritten, Zenon
  <2> QED BY <1>3, <1>4, <2>1, Zenon DEF HasFields
<1>10. r.kind = t.kind /\ r.status = t.status /\ r.lots = t.lots /\ r.bids = f /\ r.quals = qs
  BY <1>9, Zenon DEF HasFields
<1>11. /\ qs \in [Bids -> [Parts(t) -> QualStatus]]
       /\ \A y \in Bids, q \in Parts(t) : qs[y][q] = IF y = b /\ q = p THEN x ELSE t.quals[y][q]
  <2>1. t.quals \in [Bids -> [Parts(t) -> QualStatus]]
    BY <1>1, FormFields
  <2>2. PICK g : g = [t.quals[b] EXCEPT ![p] = x]
    OBVIOUS
  <2>3. g \in [Parts(t) -> QualStatus] /\ \A q \in Parts(t) : g[q] = IF q = p THEN x ELSE t.quals[b][q]
    BY <1>2, <2>1, <2>2 DEF QualStatus, ValueStatus
  <2>4. qs = [t.quals EXCEPT ![b] = g]
    BY <1>5, <2>2
  <2> QED BY <2>1, <2>3, <2>4
<1>12. Form(r)
  <2>1. qs \in [Bids -> [PartsOf(DOMAIN t.lots) -> QualStatus]]
    BY <1>1, <1>11, FormFields
  <2> QED BY <1>1, <1>3, <1>9, <2>1, Zenon DEF Form, HasFields
<1>13. Parts(r) = Parts(t) /\ HasLots(r) = HasLots(t) /\ ActiveParts(r) = ActiveParts(t)
  BY <1>10, ReadAlike
<1>14. QualFits(t, b, p)
  BY <1>1, <1>2, StatusOrder, Zenon DEF ReviewFits
<1>15. /\ t.bids[b].status # Nobody /\ (HasLots(t) => f[b].status \notin Gone)
  <2>1. HasLots(t) => t.bids[b].status \notin Gone
    BY <1>14 DEF QualFits
  <2>2. ~ HasLots(t) => t.bids[b].status # Nobody
    BY <1>14 DEF QualFits, ValueOf
  <2>3. "pending" \notin Gone /\ "active" \notin Gone /\ Nobody \in Gone
    BY NobodyAssumption DEF Gone
  <2> QED BY <1>3, <2>1, <2>2, <2>3
<1>16. DialogueFits(r)
  <2>1. ASSUME t.kind = "dialogue", NEW y \in Bids, f[y].status # Nobody PROVE f[y].firm \in Firms
    <3>1. f[y].firm = t.bids[y].firm /\ t.bids[y].status # Nobody
      BY <1>3, <1>15, <2>1
    <3> QED BY <1>1, <2>1, <3>1 DEF DialogueFits
  <2> QED BY <1>1, <1>10, <2>1 DEF DialogueFits
<1>17. ASSUME NEW y \in Bids, NEW q \in ActiveParts(t) PROVE QualFits(r, y, q)
  <2>1. q \in Parts(t)
    BY <1>1, FormFields
  <2>2. QualFits(t, y, q)
    BY <1>1, <2>1, StatusOrder, Zenon DEF ReviewFits
  <2>3. CASE y # b
    <3>1. r.bids[y] = t.bids[y] /\ r.quals[y][q] = t.quals[y][q]
      BY <1>3, <1>10, <1>11, <2>1, <2>3
    <3> QED BY <1>13, <2>2, <3>1, Zenon DEF QualFits, ValueOf
  <2>4. CASE y = b /\ q = p
    <3>1. ValueOf(r, b, p) = x
      BY <1>2, <1>3, <1>10, <1>13 DEF ValueOf
    <3>2. r.quals[b][p] = x
      BY <1>2, <1>10, <1>11
    <3> QED BY <1>10, <1>13, <1>15, <2>4, <3>1, <3>2, Zenon DEF QualFits
  <2>5. CASE y = b /\ q # p
    <3>1. HasLots(t)
      BY <1>1, <1>2, <2>1, <2>5, FormFields
    <3>2. ValueOf(r, b, q) = ValueOf(t, b, q)
      BY <1>3, <1>10, <1>13, <2>1, <2>5, <3>1 DEF ValueOf
    <3>3. r.quals[b][q] = t.quals[b][q]
      BY <1>10, <1>11, <2>1, <2>5
    <3> QED BY <1>10, <1>13, <1>15, <2>2, <2>5, <3>1, <3>2, <3>3, Zenon DEF QualFits
  <2> QED BY <2>3, <2>4, <2>5
<1>18. ASSUME NEW y \in Bids, NEW q \in Parts(t), q \notin ActiveParts(t) PROVE ClosedQual(r, y, q)
  <2>1. ClosedQual(t, y, q)
    BY <1>1, <1>18, StatusOrder, Zenon DEF ReviewFits
  <2>2. r.quals[y][q] = t.quals[y][q]
    BY <1>10, <1>11, <1>18
  <2>3. HasLots(t)
    BY <1>1, <1>18, FormFields
  <2>4. r.bids[y].values[q] = t.bids[y].values[q]
    BY <1>3, <1>10, <1>18, <2>3
  <2> QED BY <1>10, <2>1, <2>2, <2>4, Zenon DEF ClosedQual
<1>19. ReviewFits(r)
  BY <1>13, <1>17, <1>18, Zenon DEF ReviewFits
<1>20. r.status \notin Competing \cup Finished \cup {"active.pre-qualification.stand-still", "active.tendering",
                                                     "active.stage2.waiting"}
  BY <1>10 DEF Competing, Finished
<1>21. TenderingFits(r) /\ ReviewOver(r) /\ Enough(r)
  BY <1>20 DEF TenderingFits, ReviewOver, Enough
<1>22. StageFits(r, s)
  <2>1. s = NoStage2
    BY <1>10, <1>20, Zenon DEF StageFits
  <2> QED BY <2>1 DEF StageFits
<1>23. Good(r)
  BY <1>12, <1>16, <1>19, <1>21 DEF Good
<1> QED BY <1>8, <1>22, <1>23

-----------------------------------------------------------------------------
(* The status, the complaints, the periods and the cancellation.           *)

\* A document with the lots, bids and qualifications of another.
LEMMA FormKept ==
  ASSUME NEW t, Form(t), NEW r, Record(r), r.kind = t.kind, r.lots = t.lots, r.bids = t.bids, r.quals = t.quals,
         r.status \in Statuses, r.over \in BOOLEAN, r.standStill \in {"unset", "running", "over"},
         r.complaints \in Seq(ComplaintOf(Parts(t))),
         r.cancelling \in Parts(t) \cup {Whole, Nobody}, r.withdrawn \in BOOLEAN
  PROVE  Form(r)
<1>1. Parts(t) = PartsOf(DOMAIN t.lots)
  BY FormFields
<1>2. /\ r.complaints \in Seq(ComplaintOf(PartsOf(DOMAIN t.lots)))
      /\ r.cancelling \in PartsOf(DOMAIN t.lots) \cup {Whole, Nobody}
  BY <1>1
<1> QED BY <1>2, Zenon DEF Form

LEMMA FormTypes ==
  ASSUME NEW t, Form(t)
  PROVE  /\ Record(t) /\ t.status \in Statuses /\ t.over \in BOOLEAN
         /\ t.standStill \in {"unset", "running", "over"} /\ t.withdrawn \in BOOLEAN
         /\ t.complaints \in Seq(ComplaintOf(Parts(t))) /\ t.cancelling \in Parts(t) \cup {Whole, Nobody}
<1>1. t.complaints \in Seq(ComplaintOf(Parts(t))) /\ t.cancelling \in Parts(t) \cup {Whole, Nobody}
  BY FormFields
<1> QED BY <1>1, Zenon DEF Form

\* One that moves on in the review or in the competition.
LEMMA MovedOnIsGood ==
  ASSUME NEW t, NEW r, Good(t), Form(r),
         r.kind = t.kind, r.lots = t.lots, r.bids = t.bids, r.quals = t.quals,
         t.status \in Reviewing \cup Competing, r.status \in Reviewing \cup Competing,
         r.status \in {"active.stage2.pending", "active.stage2.waiting"} => t.kind = "dialogue",
         r.status # "active.pre-qualification" => AllReviewed(t),
         r.status \in Competing => t.status \in Competing /\ \A p : Undisputed(t, p) => Undisputed(r, p)
  PROVE  Good(r)
<1>1. /\ Parts(r) = Parts(t) /\ HasLots(r) = HasLots(t) /\ ActiveParts(r) = ActiveParts(t)
      /\ \A p : InPlay(r, p) = InPlay(t, p) /\ ToReview(r, p) = ToReview(t, p)
      /\ \A b, p : ValueOf(r, b, p) = ValueOf(t, b, p)
  BY ReadAlike
<1>2. DialogueFits(r)
  BY DEF Good, DialogueFits
<1>3. TenderingFits(r)
  BY StatusOrder DEF TenderingFits
<1>4. \A b, p : (QualFits(t, b, p) => QualFits(r, b, p)) /\ (ClosedQual(t, b, p) => ClosedQual(r, b, p))
  BY <1>1, Zenon DEF QualFits, ClosedQual
<1>5. ReviewFits(r)
  BY <1>1, <1>4, Zenon DEF Good, ReviewFits
<1>6. ReviewOver(r)
  <2>1. AllReviewed(t) => AllReviewed(r)
    BY <1>1, Zenon DEF AllReviewed
  <2>2. r.status \in Competing \cup {"active.pre-qualification.stand-still"} => r.status # "active.pre-qualification"
    BY StatusOrder
  <2> QED BY <2>1, <2>2 DEF ReviewOver
<1>7. ASSUME NEW p PROVE AdmittedTo(r, p) = AdmittedTo(t, p)
  <2>1. InPlay(r, p) = InPlay(t, p)
    BY <1>1
  <2> QED BY <2>1 DEF AdmittedTo
<1>8. Enough(r)
  BY <1>1, <1>7, Zenon DEF Good, Enough
<1> QED BY <1>2, <1>3, <1>5, <1>6, <1>8 DEF Good

\* While a review goes on there is no second stage.
LEMMA NoStageYet ==
  ASSUME NEW t, NEW s, StageFits(t, s), t.status \notin Finished, t.status # "active.stage2.waiting"
  PROVE  s = NoStage2
BY Zenon DEF StageFits

LEMMA StageUnbegun ==
  ASSUME NEW t
  PROVE  StageFits(t, NoStage2)
BY DEF StageFits

LEMMA DecideKeeps ==
  ASSUME Good(tender), StageFits(tender, stage2), NEW b \in Bids, NEW p \in Parts(tender),
         NEW d \in {"active", "unsuccessful"}, Decide(b, p, d)
  PROVE  Kept
<1>1. tender.status = "active.pre-qualification" /\ tender.quals[b][p] = "pending"
  BY DEF Decide, MayReview
<1>2. p \in ActiveParts(tender)
  <2>1. p \notin ActiveParts(tender) => ClosedQual(tender, b, p)
    BY <1>1, StatusOrder, Zenon DEF Good, ReviewFits
  <2> QED BY <1>1, <2>1 DEF ClosedQual
<1>3. Store(Redecided(tender, b, p, d))
  BY Zenon DEF Decide, Redecided
<1>4. tender.quals[b][p] # Nobody
  BY <1>1, NobodyAssumption
<1>5. Good(Redecided(tender, b, p, d)) /\ StageFits(Redecided(tender, b, p, d), stage2)
  BY <1>1, <1>2, <1>4, DecisionIsGood
<1> QED BY <1>3, <1>5, StoringKeeps

LEMMA ReconsiderKeeps ==
  ASSUME Good(tender), StageFits(tender, stage2), NEW b \in Bids, NEW p \in Parts(tender), Reconsider(b, p)
  PROVE  Kept
<1>1. /\ tender.status = "active.pre-qualification" /\ p \in ActiveParts(tender)
      /\ tender.quals[b][p] \in {"pending", "active", "unsuccessful"}
  BY DEF Reconsider, MayReview
<1>3. Store(Redecided(tender, b, p, "pending"))
  BY Zenon DEF Reconsider, Redecided
<1>4. tender.quals[b][p] # Nobody
  BY <1>1, NobodyAssumption
<1>5. Good(Redecided(tender, b, p, "pending")) /\ StageFits(Redecided(tender, b, p, "pending"), stage2)
  BY <1>1, <1>4, DecisionIsGood
<1> QED BY <1>3, <1>5, StoringKeeps

\* A review that is taken up or is over.
LEMMA ReviewMoves ==
  ASSUME NEW t, NEW s, Good(t), StageFits(t, s), t.status \in Reviewing, NEW x \in Reviewing,
         NEW y \in {"unset", "running", "over"}, x # "active.pre-qualification" => AllReviewed(t)
  PROVE  Good(WithStandStill(WithStatus(t, x), y)) /\ StageFits(WithStandStill(WithStatus(t, x), y), s)
<1>2. PICK u : u = WithStatus(t, x)
  OBVIOUS
<1>3. PICK r : r = WithStandStill(u, y)
  OBVIOUS
<1>5. Form(t)
  BY DEF Good
<1>6. HasFields(u, t.kind, x, t.lots, t.over, t.standStill,
                t.bids, t.quals, t.complaints, t.cancelling, t.withdrawn)
  BY <1>2, <1>5, Rewritten, Zenon DEF Form
<1>7. HasFields(r, u.kind, u.status, u.lots, u.over, y,
                u.bids, u.quals, u.complaints, u.cancelling, u.withdrawn)
  <2>1. Record(u)
    BY <1>6, Zenon DEF HasFields
  <2> QED BY <1>3, <2>1, Rewritten, Zenon
<1>8. HasFields(r, t.kind, x, t.lots, t.over, y,
                t.bids, t.quals, t.complaints, t.cancelling, t.withdrawn)
  BY <1>6, <1>7, Zenon DEF HasFields
<1>9. x \in Statuses
  BY StatusOrder
<1>10. Form(r) /\ r.kind = t.kind /\ r.lots = t.lots /\ r.bids = t.bids /\ r.quals = t.quals /\ r.status = x
  BY <1>5, <1>8, <1>9, FormTypes, FormKept DEF HasFields
<1>11. r.status \notin Competing /\ r.status \notin {"active.stage2.pending", "active.stage2.waiting"}
  BY <1>10, StatusOrder
<1>12. Good(r)
  BY <1>10, <1>11, MovedOnIsGood
<1>13. s = NoStage2
  BY NoStageYet, StatusOrder
<1>14. StageFits(r, s)
  BY <1>13, StageUnbegun
<1> QED BY <1>2, <1>3, <1>12, <1>14

LEMMA StartStandStillKeeps ==
  ASSUME Good(tender), StageFits(tender, stage2), StartStandStill
  PROVE  Kept
<1>1. tender.status = "active.pre-qualification" /\ AllReviewed(tender)
  BY DEF StartStandStill
<1>2. PICK r : r = WithStandStill(WithStatus(tender, "active.pre-qualification.stand-still"), "running")
  OBVIOUS
<1>3. Store(r)
  BY <1>2, Zenon DEF StartStandStill, WithStatus, WithStandStill
<1>4. Good(r) /\ StageFits(r, stage2)
  BY <1>1, <1>2, StatusOrder, ReviewMoves
<1> QED BY <1>3, <1>4, StoringKeeps

-----------------------------------------------------------------------------
(* Complaints.                                                             *)

\* A document with other complaints, that opens no dispute in a competition.
LEMMA ComplaintsKept ==
  ASSUME NEW t, NEW s, Good(t), StageFits(t, s), NEW co \in Seq(ComplaintOf(Parts(t))),
         t.status \in Competing =>
           \A p : Undisputed(t, p) => \A k \in DOMAIN co : co[k].about = p => co[k].status \notin Undecided
  PROVE  /\ Good(WithComplaints(t, co)) /\ StageFits(WithComplaints(t, co), s)
         /\ HasFields(WithComplaints(t, co), t.kind, t.status, t.lots, t.over, t.standStill,
                      t.bids, t.quals, co, t.cancelling, t.withdrawn)
<1>1. Form(t)
  BY DEF Good
<1>2. PICK r : r = WithComplaints(t, co)
  OBVIOUS
<1>3. HasFields(r, t.kind, t.status, t.lots, t.over, t.standStill,
                t.bids, t.quals, co, t.cancelling, t.withdrawn)
  BY <1>1, <1>2, Rewritten, Zenon DEF Form
<1>4. /\ Form(r) /\ r.kind = t.kind /\ r.lots = t.lots /\ r.bids = t.bids /\ r.quals = t.quals
      /\ r.status = t.status /\ r.complaints = co
  BY <1>1, <1>3, FormTypes, FormKept DEF HasFields
<1>5. t.status \in Competing => \A p : Undisputed(t, p) => Undisputed(r, p)
  BY <1>4, Zenon DEF Undisputed
<1>6. Good(r) /\ StageFits(r, s)
  BY <1>4, <1>5, StoryKept
<1> QED BY <1>2, <1>3, <1>6

\* One complaint gets another status.
LEMMA ComplaintChanged ==
  ASSUME NEW ps, NEW cs \in Seq(ComplaintOf(ps)), NEW k \in DOMAIN cs, NEW to \in ComplaintStatus
  PROVE  [cs EXCEPT ![k] = ReBidStatus(cs[k], to)] \in Seq(ComplaintOf(ps))
<1>1. cs[k] \in ComplaintOf(ps) /\ k \in 1 .. Len(cs)
  BY ElementOfSeq, LenProperties
<1>2. ReBidStatus(cs[k], to) \in ComplaintOf(ps)
  BY <1>1 DEF ReBidStatus, ComplaintOf
<1> QED BY <1>1, <1>2, ExceptSeq

LEMMA PostComplaintKeeps ==
  ASSUME Good(tender), StageFits(tender, stage2), NEW p \in Parts(tender), PostComplaint(p)
  PROVE  Kept
<1> DEFINE c == [about |-> p, status |-> "draft"]
<1>1. PICK co : co = Append(tender.complaints, c)
  OBVIOUS
<1>2. tender.complaints \in Seq(ComplaintOf(Parts(tender)))
  BY FormTypes DEF Good
<1>3. c \in ComplaintOf(Parts(tender))
  BY DEF ComplaintOf, ComplaintStatus
<1>4. co \in Seq(ComplaintOf(Parts(tender)))
  BY <1>1, <1>2, <1>3, AppendProperties
<1>5. tender.status \notin Competing
  BY StatusOrder DEF PostComplaint
<1>6. Store(WithComplaints(tender, co))
  BY <1>1, Zenon DEF PostComplaint, WithComplaints
<1>7. Good(WithComplaints(tender, co)) /\ StageFits(WithComplaints(tender, co), stage2)
  BY <1>4, <1>5, ComplaintsKept
<1> QED BY <1>6, <1>7, StoringKeeps

\* A complaint that is decided, or resolved, in the review.
LEMMA ComplaintMoves ==
  ASSUME Good(tender), StageFits(tender, stage2), tender.status \in Reviewing,
         NEW k \in DOMAIN tender.complaints, NEW to \in ComplaintStatus
  PROVE  \E t : /\ t = [tender EXCEPT !.complaints[k].status = to]
                /\ Good(t) /\ StageFits(t, stage2) /\ t.status = tender.status
<1>1. PICK co : co = [tender.complaints EXCEPT ![k] = ReBidStatus(tender.complaints[k], to)]
  OBVIOUS
<1>2. tender.complaints \in Seq(ComplaintOf(Parts(tender)))
  BY FormTypes DEF Good
<1>3. co \in Seq(ComplaintOf(Parts(tender)))
  BY <1>1, <1>2, ComplaintChanged
<1>4. tender.status \notin Competing
  BY StatusOrder
<1>5. PICK t : t = WithComplaints(tender, co)
  OBVIOUS
<1>6. t = [tender EXCEPT !.complaints[k].status = to]
  BY <1>1, <1>5, Zenon DEF WithComplaints, ReBidStatus
<1>7. Good(t) /\ StageFits(t, stage2)
  BY <1>3, <1>4, <1>5, ComplaintsKept
<1>8. t.status = tender.status
  BY <1>3, <1>4, <1>5, ComplaintsKept DEF HasFields
<1> QED BY <1>6, <1>7, <1>8

LEMMA PatchComplaintKeeps ==
  ASSUME Good(tender), StageFits(tender, stage2), NEW k \in Nth(tender.complaints), NEW to \in ComplaintStatus,
         PatchComplaint(k, to)
  PROVE  Kept
<1>1. tender.status \in Reviewing /\ k \in DOMAIN tender.complaints
  BY DEF PatchComplaint, Nth
<1>2. PICK t : /\ t = [tender EXCEPT !.complaints[k].status = to]
               /\ Good(t) /\ StageFits(t, stage2) /\ t.status = tender.status
  BY <1>1, ComplaintMoves
<1>3. Store(IF to = "satisfied" THEN WithStandStill(WithStatus(t, "active.pre-qualification"), "unset") ELSE t)
  BY <1>2, Zenon DEF PatchComplaint, WithStandStill, WithStatus
<1>4. PICK r : r = WithStandStill(WithStatus(t, "active.pre-qualification"), "unset")
  OBVIOUS
<1>5. Good(r) /\ StageFits(r, stage2)
  BY <1>1, <1>2, <1>4, StatusOrder, ReviewMoves
<1>6. Store(r) \/ Store(t)
  BY <1>3, <1>4, Zenon
<1> QED BY <1>2, <1>5, <1>6, StoringKeeps

LEMMA ResolveComplaintKeeps ==
  ASSUME Good(tender), StageFits(tender, stage2), NEW k \in Nth(tender.complaints), ResolveComplaint(k)
  PROVE  Kept
<1>1. tender.status \in Reviewing /\ k \in DOMAIN tender.complaints
  BY DEF ResolveComplaint, Nth
<1>2. "resolved" \in ComplaintStatus
  BY DEF ComplaintStatus
<1>3. PICK t : /\ t = [tender EXCEPT !.complaints[k].status = "resolved"]
               /\ Good(t) /\ StageFits(t, stage2) /\ t.status = tender.status
  BY <1>1, <1>2, ComplaintMoves
<1>4. Store(t)
  BY <1>3, Zenon DEF ResolveComplaint
<1> QED BY <1>3, <1>4, StoringKeeps

LEMMA ComplainingKeeps ==
  ASSUME Good(tender), StageFits(tender, stage2), Complaining
  PROVE  Kept
BY PostComplaintKeeps, PatchComplaintKeeps, ResolveComplaintKeeps DEF Complaining

-----------------------------------------------------------------------------
(* Cancellations, and time.                                                *)

\* Marks of a document that no decision rests on.
LEMMA MarkedIsGood ==
  ASSUME NEW t, NEW s, Good(t), StageFits(t, s)
  PROVE  /\ \A v \in Parts(t) \cup {Whole, Nobody} : Good(WithCancelling(t, v)) /\ StageFits(WithCancelling(t, v), s)
         /\ \A v \in BOOLEAN : Good(WithWithdrawn(t, v)) /\ StageFits(WithWithdrawn(t, v), s)
         /\ \A v \in BOOLEAN : Good(WithOver(t, v)) /\ StageFits(WithOver(t, v), s)
         /\ \A v \in {"unset", "running", "over"} : Good(WithStandStill(t, v)) /\ StageFits(WithStandStill(t, v), s)
<1>1. Form(t) /\ Record(t)
  BY DEF Good, Form
<1>2. ASSUME NEW r, Form(r), r.kind = t.kind, r.lots = t.lots, r.bids = t.bids, r.quals = t.quals,
             r.status = t.status, r.complaints = t.complaints
      PROVE  Good(r) /\ StageFits(r, s)
  <2>1. \A p : Undisputed(t, p) => Undisputed(r, p)
    BY <1>2, Zenon DEF Undisputed
  <2> QED BY <1>2, <2>1, StoryKept
<1>3. ASSUME NEW v \in Parts(t) \cup {Whole, Nobody}
      PROVE  Good(WithCancelling(t, v)) /\ StageFits(WithCancelling(t, v), s)
  <2>1. PICK r : r = WithCancelling(t, v)
    OBVIOUS
  <2>2. HasFields(r, t.kind, t.status, t.lots, t.over, t.standStill,
                  t.bids, t.quals, t.complaints, v, t.withdrawn)
    BY <1>1, <2>1, Rewritten, Zenon
  <2>3. Form(r)
    BY <1>1, <2>2, FormTypes, FormKept DEF HasFields
  <2> QED BY <1>2, <2>1, <2>2, <2>3 DEF HasFields
<1>4. ASSUME NEW v \in BOOLEAN
      PROVE  Good(WithWithdrawn(t, v)) /\ StageFits(WithWithdrawn(t, v), s)
  <2>1. PICK r : r = WithWithdrawn(t, v)
    OBVIOUS
  <2>2. HasFields(r, t.kind, t.status, t.lots, t.over, t.standStill,
                  t.bids, t.quals, t.complaints, t.cancelling, v)
    BY <1>1, <2>1, Rewritten, Zenon
  <2>3. Form(r)
    BY <1>1, <2>2, FormTypes, FormKept DEF HasFields
  <2> QED BY <1>2, <2>1, <2>2, <2>3 DEF HasFields
<1>5. ASSUME NEW v \in BOOLEAN
      PROVE  Good(WithOver(t, v)) /\ StageFits(WithOver(t, v), s)
  <2>1. PICK r : r = WithOver(t, v)
    OBVIOUS
  <2>2. HasFields(r, t.kind, t.status, t.lots, v, t.standStill,
                  t.bids, t.quals, t.complaints, t.cancelling, t.withdrawn)
    BY <1>1, <2>1, Rewritten, Zenon
  <2>3. Form(r)
    BY <1>1, <2>2, FormTypes, FormKept DEF HasFields
  <2> QED BY <1>2, <2>1, <2>2, <2>3 DEF HasFields
<1>6. ASSUME NEW v \in {"unset", "running", "over"}
      PROVE  Good(WithStandStill(t, v)) /\ StageFits(WithStandStill(t, v), s)
  <2>1. PICK r : r = WithStandStill(t, v)
    OBVIOUS
  <2>2. HasFields(r, t.kind, t.status, t.lots, t.over, v,
                  t.bids, t.quals, t.complaints, t.cancelling, t.withdrawn)
    BY <1>1, <2>1, Rewritten, Zenon
  <2>3. Form(r)
    BY <1>1, <2>2, FormTypes, FormKept DEF HasFields
  <2> QED BY <1>2, <2>1, <2>2, <2>3 DEF HasFields
<1> QED BY <1>3, <1>4, <1>5, <1>6

LEMMA StartCancellationKeeps ==
  ASSUME Good(tender), StageFits(tender, stage2), NEW x, StartCancellation(x)
  PROVE  Kept
<1>1. x \in Parts(tender) \cup {Whole, Nobody}
  BY DEF StartCancellation
<1>2. Store(WithCancelling(tender, x))
  BY Zenon DEF StartCancellation, WithCancelling
<1>3. Good(WithCancelling(tender, x)) /\ StageFits(WithCancelling(tender, x), stage2)
  BY <1>1, MarkedIsGood
<1> QED BY <1>2, <1>3, StoringKeeps

LEMMA WithdrawCancellationKeeps ==
  ASSUME Good(tender), StageFits(tender, stage2), WithdrawCancellation
  PROVE  Kept
<1>1. Store(WithWithdrawn(tender, TRUE))
  BY Zenon DEF WithdrawCancellation, WithWithdrawn
<1>2. Good(WithWithdrawn(tender, TRUE)) /\ StageFits(WithWithdrawn(tender, TRUE), stage2)
  BY MarkedIsGood
<1> QED BY <1>1, <1>2, StoringKeeps

LEMMA RedressCancellationKeeps ==
  ASSUME Good(tender), StageFits(tender, stage2), RedressCancellation
  PROVE  Kept
<1>1. PICK u : u = WithCancelling(tender, Nobody)
  OBVIOUS
<1>2. Store(WithWithdrawn(u, FALSE))
  BY <1>1, Zenon DEF RedressCancellation, WithWithdrawn, WithCancelling
<1>3. Good(u) /\ StageFits(u, stage2)
  BY <1>1, MarkedIsGood
<1>4. Good(WithWithdrawn(u, FALSE)) /\ StageFits(WithWithdrawn(u, FALSE), stage2)
  BY <1>3, MarkedIsGood
<1> QED BY <1>2, <1>4, StoringKeeps

LEMMA TimeKeeps ==
  ASSUME Good(tender), StageFits(tender, stage2), Time
  PROVE  Kept
<1>1. CASE EndTenderPeriod
  <2>1. tender' = WithOver(tender, TRUE)
    BY <1>1, Zenon DEF EndTenderPeriod, WithOver
  <2>2. Good(WithOver(tender, TRUE)) /\ StageFits(WithOver(tender, TRUE), stage2)
    BY MarkedIsGood
  <2> QED BY <2>1, <2>2, Zenon DEF Kept
<1>2. CASE EndQualificationPeriod
  <2>1. tender' = WithStandStill(tender, "over")
    BY <1>2, Zenon DEF EndQualificationPeriod, WithStandStill
  <2>2. Good(WithStandStill(tender, "over")) /\ StageFits(WithStandStill(tender, "over"), stage2)
    BY MarkedIsGood
  <2> QED BY <2>1, <2>2, Zenon DEF Kept
<1> QED BY <1>1, <1>2 DEF Time

LEMMA OwnerKeeps ==
  ASSUME Good(tender), StageFits(tender, stage2), Owner
  PROVE  Kept
BY EditTenderKeeps, StartStandStillKeeps, WithdrawCancellationKeeps, RedressCancellationKeeps,
   ReconsiderKeeps, DecideKeeps, StartCancellationKeeps DEF Owner

-----------------------------------------------------------------------------
(* The chronograph: who is counted, and how a tender or a lot is cancelled.*)

Few(t) == {p \in Parts(t) : TooFew(t, p)}
LotsLeft(t) == [l \in DOMAIN t.lots |-> IF l \in Few(t) THEN "unsuccessful" ELSE t.lots[l]]
ValuesLeft(t, b) ==
  [l \in DOMAIN t.lots |->
     IF l \in Few(t) /\ t.bids[b].values[l] # Nobody THEN "unsuccessful" ELSE t.bids[b].values[l]]
BidsLeft(t) == [b \in Bids |-> ReValues(t.bids[b], ValuesLeft(t, b))]
CountFails(t) ==
  IF HasLots(t) THEN Range(LotsLeft(t)) \subseteq {"unsuccessful", "cancelled"} ELSE Few(t) # {}
StatusLeft(t) == IF CountFails(t) THEN "unsuccessful" ELSE t.status

LEMMA CountWrites ==
  ASSUME NEW t, Record(t)
  PROVE  CheckBidsCount(t) = WithStatus(WithBids(WithLots(t, LotsLeft(t)), BidsLeft(t)), StatusLeft(t))
<1>1. CheckBidsCount(t) =
        [t EXCEPT !.lots = LotsLeft(t), !.bids = BidsLeft(t), !.status = IF CountFails(t) THEN "unsuccessful" ELSE @]
  BY Zenon DEF CheckBidsCount, LotsLeft, BidsLeft, CountFails, Few, ValuesLeft, ReValues
<1>2. PICK u : u = WithBids(WithLots(t, LotsLeft(t)), BidsLeft(t))
  OBVIOUS
<1>3. CheckBidsCount(t) = [u EXCEPT !.status = IF CountFails(t) THEN "unsuccessful" ELSE @]
  BY <1>1, <1>2, Zenon DEF WithBids, WithLots
<1>4. u.status = t.status
  <2>1. PICK w : w = WithLots(t, LotsLeft(t))
    OBVIOUS
  <2>2. HasFields(w, t.kind, t.status, LotsLeft(t), t.over, t.standStill,
                  t.bids, t.quals, t.complaints, t.cancelling, t.withdrawn)
    BY <2>1, Rewritten, Zenon
  <2>3. u = WithBids(w, BidsLeft(t))
    BY <1>2, <2>1, Zenon
  <2>4. Record(w) /\ w.status = t.status
    BY <2>2, Zenon DEF HasFields
  <2>5. HasFields(u, w.kind, w.status, w.lots, w.over, w.standStill,
                  BidsLeft(t), w.quals, w.complaints, w.cancelling, w.withdrawn)
    BY <2>3, <2>4, Rewritten, Zenon
  <2>6. u.status = w.status
    BY <2>5, Zenon DEF HasFields
  <2> QED BY <2>4, <2>6
<1> QED BY <1>2, <1>3, <1>4, Zenon DEF WithStatus, StatusLeft

LEMMA Counted ==
  ASSUME NEW t, Form(t), NEW c, c = CheckBidsCount(t)
  PROVE  /\ HasFields(c, t.kind, StatusLeft(t), LotsLeft(t), t.over, t.standStill,
                      BidsLeft(t), t.quals, t.complaints, t.cancelling, t.withdrawn)
         /\ Form(c) /\ Parts(c) = Parts(t) /\ (HasLots(c) <=> HasLots(t))
         /\ c.status \in {t.status, "unsuccessful"}
         /\ \A p \in ActiveParts(c) : p \in ActiveParts(t) /\ (c.status # "unsuccessful" => ~ TooFew(t, p))
         /\ \A p \in ActiveParts(c) : HasLots(t) => p \notin Few(t)
         /\ \A b \in Bids :
              /\ c.bids[b].status = t.bids[b].status /\ c.bids[b].firm = t.bids[b].firm
              /\ \A l \in DOMAIN t.lots :
                   c.bids[b].values[l] = IF l \in Few(t) /\ t.bids[b].values[l] # Nobody THEN "unsuccessful"
                                         ELSE t.bids[b].values[l]
         /\ HasLots(t) => Parts(t) = DOMAIN t.lots
         /\ \A p \in Parts(t) : p \notin ActiveParts(c) => HasLots(t) /\ (p \in Few(t) \/ p \notin ActiveParts(t))
<1>2. HasFields(c, t.kind, StatusLeft(t), LotsLeft(t), t.over, t.standStill,
                BidsLeft(t), t.quals, t.complaints, t.cancelling, t.withdrawn)
  <2>1. PICK w : w = WithLots(t, LotsLeft(t))
    OBVIOUS
  <2>2. HasFields(w, t.kind, t.status, LotsLeft(t), t.over, t.standStill,
                  t.bids, t.quals, t.complaints, t.cancelling, t.withdrawn)
    BY <2>1, Rewritten, Zenon DEF Form
  <2>3. PICK u : u = WithBids(w, BidsLeft(t))
    OBVIOUS
  <2>4. HasFields(u, t.kind, t.status, LotsLeft(t), t.over, t.standStill,
                  BidsLeft(t), t.quals, t.complaints, t.cancelling, t.withdrawn)
    <3>1. HasFields(u, w.kind, w.status, w.lots, w.over, w.standStill,
                    BidsLeft(t), w.quals, w.complaints, w.cancelling, w.withdrawn)
      <4>1. Record(w)
        BY <2>2, Zenon DEF HasFields
      <4> QED BY <2>3, <4>1, Rewritten, Zenon
    <3> QED BY <2>2, <3>1, Zenon DEF HasFields
  <2>5. c = WithStatus(u, StatusLeft(t))
    BY <2>1, <2>3, CountWrites, Zenon DEF Form
  <2>6. HasFields(c, u.kind, StatusLeft(t), u.lots, u.over, u.standStill,
                  u.bids, u.quals, u.complaints, u.cancelling, u.withdrawn)
    <3>1. Record(u)
      BY <2>4, Zenon DEF HasFields
    <3> QED BY <2>5, <3>1, Rewritten, Zenon
  <2> QED BY <2>4, <2>6, Zenon DEF HasFields
<1>3. c.status = StatusLeft(t) /\ c.lots = LotsLeft(t) /\ c.bids = BidsLeft(t) /\ c.kind = t.kind
  BY <1>2, Zenon DEF HasFields
<1>4. /\ LotsLeft(t) \in [DOMAIN t.lots -> LotStatus] /\ DOMAIN LotsLeft(t) = DOMAIN t.lots
      /\ \A l \in DOMAIN t.lots : LotsLeft(t)[l] = "active" <=> t.lots[l] = "active" /\ l \notin Few(t)
  <2>1. t.lots \in [DOMAIN t.lots -> LotStatus]
    BY FormFields
  <2> QED BY <2>1 DEF LotsLeft, LotStatus
<1>5. Parts(c) = Parts(t) /\ (HasLots(c) <=> HasLots(t))
  BY <1>3, <1>4, Zenon DEF Parts, HasLots
<1>6. ASSUME NEW b \in Bids
      PROVE  /\ BidsLeft(t)[b] \in BidOf(DOMAIN t.lots)
             /\ BidsLeft(t)[b].status = t.bids[b].status /\ BidsLeft(t)[b].firm = t.bids[b].firm
             /\ \A l \in DOMAIN t.lots :
                  BidsLeft(t)[b].values[l] = IF l \in Few(t) /\ t.bids[b].values[l] # Nobody THEN "unsuccessful"
                                             ELSE t.bids[b].values[l]
  <2>1. t.bids[b] \in BidOf(DOMAIN t.lots)
    BY FormFields
  <2>2. BidsLeft(t)[b] = ReValues(t.bids[b], ValuesLeft(t, b))
    BY DEF BidsLeft
  <2>3. ValuesLeft(t, b) \in [DOMAIN t.lots -> ValueStatus]
    <3>1. \A l \in DOMAIN t.lots : t.bids[b].values[l] \in ValueStatus
      BY <2>1, BidFields
    <3> QED BY <3>1 DEF ValuesLeft, ValueStatus
  <2>4. /\ BidsLeft(t)[b] \in BidOf(DOMAIN t.lots)
        /\ BidsLeft(t)[b].status = t.bids[b].status /\ BidsLeft(t)[b].firm = t.bids[b].firm
        /\ BidsLeft(t)[b].values = ValuesLeft(t, b)
    BY <2>1, <2>2, <2>3, BidChanged
  <2> QED BY <2>4 DEF ValuesLeft
<1>7. StatusLeft(t) \in Statuses /\ StatusLeft(t) \in {t.status, "unsuccessful"}
  <2>1. t.status \in Statuses
    BY FormFields
  <2>2. "unsuccessful" \in Statuses
    BY DEF Statuses, Finished
  <2> QED BY <2>1, <2>2 DEF StatusLeft
<1>8. BidsLeft(t) \in [Bids -> BidOf(DOMAIN t.lots)]
  <2>1. BidsLeft(t) = [b \in Bids |-> BidsLeft(t)[b]]
    BY DEF BidsLeft
  <2> QED BY <1>6, <2>1
<1>9. Form(c)
  <2>1. /\ DOMAIN c.lots = DOMAIN t.lots /\ c.lots \in [DOMAIN t.lots -> LotStatus]
    BY <1>3, <1>4
  <2>2. Record(c) /\ c.kind = t.kind /\ c.status \in Statuses /\ c.over = t.over /\ c.standStill = t.standStill
        /\ c.bids \in [Bids -> BidOf(DOMAIN t.lots)] /\ c.quals = t.quals /\ c.complaints = t.complaints
        /\ c.cancelling = t.cancelling /\ c.withdrawn = t.withdrawn
    BY <1>2, <1>3, <1>7, <1>8, Zenon DEF HasFields
  <2> QED BY <2>1, <2>2, Zenon DEF Form
<1>10. HasLots(t) => Parts(t) = DOMAIN t.lots
  BY FormFields
<1>11. \A p : p \in ActiveParts(c) <=> p \in Parts(t) /\ (HasLots(t) => t.lots[p] = "active" /\ p \notin Few(t))
  <2> TAKE p
  <2>1. p \in ActiveParts(c) <=> p \in Parts(c) /\ (HasLots(c) => c.lots[p] = "active")
    BY DEF ActiveParts
  <2> QED BY <1>3, <1>4, <1>5, <1>10, <2>1
<1>12. \A p : p \in ActiveParts(t) <=> p \in Parts(t) /\ (HasLots(t) => t.lots[p] = "active")
  BY DEF ActiveParts
<1>13. c.status # "unsuccessful" => (~ HasLots(t) => Few(t) = {})
  BY <1>3 DEF StatusLeft, CountFails
<1>14. ASSUME NEW p \in ActiveParts(c), c.status # "unsuccessful" PROVE ~ TooFew(t, p)
  <2>1. p \notin Few(t) /\ p \in Parts(t)
    BY <1>11, <1>13, <1>14
  <2> QED BY <2>1 DEF Few
<1>15. \A p \in ActiveParts(c) : p \in ActiveParts(t) /\ (c.status # "unsuccessful" => ~ TooFew(t, p))
  BY <1>11, <1>12, <1>14
<1>16. \A p \in Parts(t) : p \notin ActiveParts(c) => HasLots(t) /\ (p \in Few(t) \/ p \notin ActiveParts(t))
  BY <1>11, <1>12
<1>17. \A p \in ActiveParts(c) : HasLots(t) => p \notin Few(t)
  BY <1>11
<1>18. \A b \in Bids :
         /\ c.bids[b].status = t.bids[b].status /\ c.bids[b].firm = t.bids[b].firm
         /\ \A l \in DOMAIN t.lots :
              c.bids[b].values[l] = IF l \in Few(t) /\ t.bids[b].values[l] # Nobody THEN "unsuccessful"
                                    ELSE t.bids[b].values[l]
  BY <1>3, <1>6
<1>19. c.status \in {t.status, "unsuccessful"}
  BY <1>3, <1>7
<1> QED BY <1>2, <1>5, <1>9, <1>10, <1>15, <1>16, <1>17, <1>18, <1>19, Zenon

\* At the end of the tender period nothing is decided yet.
Untouched(t) ==
  /\ Form(t) /\ DialogueFits(t) /\ t.status = "active.pre-qualification"
  /\ \A b \in Bids : Undecidedly(t.bids[b]) /\ \A p \in Parts(t) : t.quals[b][p] = Nobody

QualsBegun(t) ==
  [b \in Bids |-> [p \in Parts(t) |->
     IF p \in ActiveParts(t) /\ b \in ToReview(t, p) THEN "pending" ELSE t.quals[b][p]]]

LEMMA ReviewBegins ==
  ASSUME NEW t, Untouched(t), NEW c, c = CheckBidsCount(t), NEW r, r = PrepareQualifications(c)
  PROVE  Good(r)
<1>1. Form(t) /\ DialogueFits(t)
  BY DEF Untouched
<1>2. /\ HasFields(c, t.kind, StatusLeft(t), LotsLeft(t), t.over, t.standStill,
                   BidsLeft(t), t.quals, t.complaints, t.cancelling, t.withdrawn)
      /\ Form(c) /\ Parts(c) = Parts(t) /\ (HasLots(c) <=> HasLots(t))
      /\ c.status \in {t.status, "unsuccessful"}
      /\ \A p \in ActiveParts(c) : HasLots(t) => p \notin Few(t)
      /\ \A b \in Bids :
           /\ c.bids[b].status = t.bids[b].status /\ c.bids[b].firm = t.bids[b].firm
           /\ \A l \in DOMAIN t.lots :
                c.bids[b].values[l] = IF l \in Few(t) /\ t.bids[b].values[l] # Nobody THEN "unsuccessful"
                                      ELSE t.bids[b].values[l]
      /\ HasLots(t) => Parts(t) = DOMAIN t.lots
      /\ \A p \in Parts(t) : p \notin ActiveParts(c) => HasLots(t) /\ (p \in Few(t) \/ p \notin ActiveParts(t))
  BY <1>1, Counted
<1>3. r = WithQuals(c, QualsBegun(c))
  BY Zenon DEF PrepareQualifications, WithQuals, QualsBegun
<1>4. HasFields(r, c.kind, c.status, c.lots, c.over, c.standStill,
                c.bids, QualsBegun(c), c.complaints, c.cancelling, c.withdrawn)
  <2>1. Record(c)
    BY <1>2, FormTypes
  <2> QED BY <1>3, <2>1, Rewritten, Zenon
<1>5. r.kind = c.kind /\ r.status = c.status /\ r.lots = c.lots /\ r.bids = c.bids /\ r.quals = QualsBegun(c)
  BY <1>4, Zenon DEF HasFields
<1>6. c.kind = t.kind /\ c.quals = t.quals
  BY <1>2, Zenon DEF HasFields
<1>7. /\ QualsBegun(c) \in [Bids -> [Parts(c) -> QualStatus]]
      /\ \A b \in Bids, p \in Parts(c) :
           QualsBegun(c)[b][p] = IF p \in ActiveParts(c) /\ b \in ToReview(c, p) THEN "pending" ELSE Nobody
  <2>1. \A b \in Bids, p \in Parts(c) : c.quals[b][p] = Nobody
    BY <1>2, <1>6 DEF Untouched
  <2> QED BY <2>1 DEF QualsBegun, QualStatus, ValueStatus
<1>8. Form(r)
  <2>1. QualsBegun(c) \in [Bids -> [PartsOf(DOMAIN c.lots) -> QualStatus]]
    BY <1>2, <1>7, FormFields
  <2> QED BY <1>2, <1>4, <2>1, Zenon DEF Form, HasFields
<1>9. \A b \in Bids : r.bids[b].status = t.bids[b].status /\ r.bids[b].firm = t.bids[b].firm
  BY <1>2, <1>5
<1>10. DialogueFits(r)
  <2>1. r.status \notin {"active.stage2.pending", "active.stage2.waiting"}
    BY <1>2, <1>5 DEF Untouched
  <2>2. t.kind = "dialogue" => \A b \in Bids : t.bids[b].status # Nobody => t.bids[b].firm \in Firms
    BY <1>1 DEF DialogueFits
  <2> QED BY <1>5, <1>6, <1>9, <2>1, <2>2, Zenon DEF DialogueFits
<1>11. CASE c.status = "unsuccessful"
  <2>1. r.status \in Finished
    BY <1>5, <1>11 DEF Finished
  <2> QED BY <1>8, <1>10, <2>1, FinishedIsGood
<1>12. CASE c.status # "unsuccessful"
  <2>1. r.status = "active.pre-qualification"
    BY <1>2, <1>5, <1>12 DEF Untouched
  <2>2. /\ Parts(r) = Parts(c) /\ HasLots(r) = HasLots(c) /\ ActiveParts(r) = ActiveParts(c)
        /\ \A p : ToReview(r, p) = ToReview(c, p)
    BY <1>5, ReadAlike
  <2>3. ASSUME NEW b \in Bids
        PROVE  /\ t.bids[b].status \in {Nobody, "draft", "pending", "deleted", "invalid"}
               /\ \A l \in DOMAIN t.lots : t.bids[b].values[l] \in {"pending", Nobody}
    <3>1. t.bids[b] \in BidOf(DOMAIN t.lots)
      BY <1>1, FormFields
    <3>2. DOMAIN t.bids[b].values = DOMAIN t.lots
      BY <3>1, BidFields
    <3> QED BY <3>2 DEF Untouched, Undecidedly
  <2>4. ASSUME NEW b \in Bids, NEW p \in ActiveParts(r) PROVE QualFits(r, b, p)
    <3>1. p \in Parts(c) /\ p \in Parts(t)
      BY <1>2, <2>2, FormFields
    <3>2. r.quals[b][p] = IF b \in ToReview(c, p) THEN "pending" ELSE Nobody
      BY <1>5, <1>7, <2>2, <3>1
    <3>3. b \in ToReview(c, p) => ValueOf(r, b, p) = "pending" /\ (HasLots(r) => r.bids[b].status \notin Gone)
      BY <1>5, <2>2 DEF ToReview, ValueOf, Gone
    <3>4. ValueOf(r, b, p) # "active"
      <4>1. CASE HasLots(r)
        <5>1. p \in DOMAIN t.lots /\ p \notin Few(t)
          BY <1>2, <2>2, <3>1, <4>1
        <5>2. r.bids[b].values[p] = t.bids[b].values[p]
          BY <1>2, <1>5, <5>1
        <5> QED BY <2>3, <4>1, <5>1, <5>2, NobodyAssumption DEF ValueOf
      <4>2. CASE ~ HasLots(r)
        BY <1>9, <2>3, <4>2, NobodyAssumption DEF ValueOf
      <4> QED BY <4>1, <4>2
    <3> QED BY <3>2, <3>3, <3>4 DEF QualFits
  <2>5. ASSUME NEW b \in Bids, NEW p \in Parts(r), p \notin ActiveParts(r) PROVE ClosedQual(r, b, p)
    <3>1. p \in Parts(c) /\ p \notin ActiveParts(c) /\ p \in Parts(t)
      BY <1>2, <2>2, <2>5
    <3>2. p \in DOMAIN t.lots
      BY <1>2, <3>1
    <3>3. r.quals[b][p] # "pending"
      BY <1>5, <1>7, <3>1, NobodyAssumption
    <3>4. r.bids[b].values[p] \in {"unsuccessful", "pending", Nobody}
      BY <1>2, <1>5, <2>3, <3>2
    <3> QED BY <3>3, <3>4, NobodyAssumption DEF ClosedQual
  <2>6. ReviewFits(r)
    BY <2>4, <2>5, Zenon DEF ReviewFits
  <2>7. r.status \notin Competing \cup {"active.pre-qualification.stand-still", "active.tendering"}
    BY <2>1 DEF Competing
  <2>8. TenderingFits(r) /\ ReviewOver(r) /\ Enough(r)
    BY <2>7 DEF TenderingFits, ReviewOver, Enough
  <2> QED BY <1>8, <1>10, <2>6, <2>8 DEF Good
<1> QED BY <1>11, <1>12

LEMMA EndOfTenderingIsGood ==
  ASSUME NEW t, Good(t), t.status = "active.tendering"
  PROVE  Good(EndOfTendering(t))
<1>1. Form(t) /\ DialogueFits(t) /\ TenderingFits(t)
  BY DEF Good
<1>2. PICK s : s = WithStatus(t, "active.pre-qualification")
  OBVIOUS
<1>3. HasFields(s, t.kind, "active.pre-qualification", t.lots, t.over, t.standStill,
                t.bids, t.quals, t.complaints, t.cancelling, t.withdrawn)
  BY <1>1, <1>2, Rewritten, Zenon DEF Form
<1>4. s.kind = t.kind /\ s.status = "active.pre-qualification" /\ s.lots = t.lots /\ s.bids = t.bids /\ s.quals = t.quals
  BY <1>3, Zenon DEF HasFields
<1>5. Form(s)
  <2>1. "active.pre-qualification" \in Statuses
    BY DEF Statuses, Reviewing
  <2> QED BY <1>1, <1>3, <2>1, FormTypes, FormKept DEF HasFields
<1>6. Parts(s) = Parts(t)
  BY <1>4, ReadAlike
<1>7. Untouched(s)
  <2>1. DialogueFits(s)
    BY <1>1, <1>4 DEF DialogueFits
  <2>2. \A b \in Bids : Undecidedly(s.bids[b]) /\ \A p \in Parts(s) : s.quals[b][p] = Nobody
    BY <1>1, <1>4, <1>6 DEF TenderingFits
  <2> QED BY <1>4, <1>5, <2>1, <2>2 DEF Untouched
<1>8. PICK w : w = WithoutDrafts(s)
  OBVIOUS
<1>9. Untouched(w)
  <2>1. PICK f : f = [b \in Bids |-> IF s.bids[b].status = "draft" THEN NoBid(DOMAIN s.lots) ELSE s.bids[b]]
    OBVIOUS
  <2>2. w = WithBids(s, f)
    BY <1>8, <2>1, Zenon DEF WithoutDrafts, WithBids
  <2>3. \A b \in Bids : f[b] \in BidOf(DOMAIN s.lots) /\ f[b] \in {NoBid(DOMAIN s.lots), s.bids[b]}
    <3>1. s.bids \in [Bids -> BidOf(DOMAIN s.lots)]
      BY <1>5, FormFields
    <3> QED BY <2>1, <3>1, NoBidMade
  <2>4. f \in [Bids -> BidOf(DOMAIN s.lots)]
    BY <2>1, <2>3
  <2>5. /\ HasFields(w, s.kind, s.status, s.lots, s.over, s.standStill,
                     f, s.quals, s.complaints, s.cancelling, s.withdrawn)
        /\ Form(w)
    BY <1>5, <2>2, <2>4, BidsFields
  <2>6. w.kind = s.kind /\ w.status = s.status /\ w.lots = s.lots /\ w.bids = f /\ w.quals = s.quals
    BY <2>5, Zenon DEF HasFields
  <2>7. Parts(w) = Parts(s)
    BY <2>6, ReadAlike
  <2>8. Undecidedly(NoBid(DOMAIN s.lots))
    BY DEF Undecidedly, NoBid
  <2>9. \A b \in Bids : Undecidedly(w.bids[b])
    BY <1>7, <2>3, <2>6, <2>8 DEF Untouched
  <2>10. DialogueFits(w)
    <3>1. ASSUME NEW b \in Bids, w.bids[b].status # Nobody PROVE w.bids[b] = s.bids[b]
      BY <2>3, <2>6, <3>1, NoBidMade
    <3>2. DialogueFits(s)
      BY <1>7 DEF Untouched
    <3> QED BY <2>6, <3>1, <3>2, Zenon DEF DialogueFits
  <2>11. \A b \in Bids : \A p \in Parts(w) : w.quals[b][p] = Nobody
    BY <1>7, <2>6, <2>7 DEF Untouched
  <2> QED BY <1>4, <2>5, <2>6, <2>9, <2>10, <2>11, Zenon DEF Untouched
<1>10. PICK u : u = IF t.kind = "EU" THEN w ELSE s
  OBVIOUS
<1>11. EndOfTendering(t) = PrepareQualifications(CheckBidsCount(u))
  BY <1>2, <1>8, <1>10, Zenon DEF EndOfTendering, WithStatus
<1>12. Untouched(u)
  BY <1>7, <1>9, <1>10
<1> QED BY <1>11, <1>12, ReviewBegins

\* At the end of the stand-still the lots with enough bids go on.
LEMMA EndOfStandStillIsGood ==
  ASSUME NEW t, Good(t), t.status = "active.pre-qualification.stand-still", Holding(t) = {},
         NEW r, r = EndOfStandStill(t)
  PROVE  Good(r)
<1>1. Form(t) /\ DialogueFits(t) /\ ReviewFits(t) /\ AllReviewed(t)
  BY DEF Good, ReviewOver
<1>2. PICK x : x = IF t.kind = "EU" THEN "active.auction" ELSE "active.stage2.pending"
  OBVIOUS
<1>3. PICK u : u = WithStatus(t, x)
  OBVIOUS
<1>4. r = CheckBidsCount(u)
  BY <1>2, <1>3, Zenon DEF EndOfStandStill, WithStatus
<1>5. HasFields(u, t.kind, x, t.lots, t.over, t.standStill,
                t.bids, t.quals, t.complaints, t.cancelling, t.withdrawn)
  BY <1>1, <1>3, Rewritten, Zenon DEF Form
<1>6. u.kind = t.kind /\ u.status = x /\ u.lots = t.lots /\ u.bids = t.bids /\ u.quals = t.quals
      /\ u.complaints = t.complaints
  BY <1>5, Zenon DEF HasFields
<1>7. x \in Competing /\ x \in Statuses /\ (x # "active.auction" => t.kind = "dialogue") /\ x # "unsuccessful"
  BY <1>1, <1>2, FormFields DEF Competing, Statuses
<1>8. Form(u)
  BY <1>1, <1>5, <1>7, FormTypes, FormKept DEF HasFields
<1>9. /\ HasFields(r, u.kind, StatusLeft(u), LotsLeft(u), u.over, u.standStill,
                   BidsLeft(u), u.quals, u.complaints, u.cancelling, u.withdrawn)
      /\ Form(r) /\ Parts(r) = Parts(u) /\ (HasLots(r) <=> HasLots(u))
      /\ r.status \in {u.status, "unsuccessful"}
      /\ \A p \in ActiveParts(r) : p \in ActiveParts(u) /\ (r.status # "unsuccessful" => ~ TooFew(u, p))
      /\ \A p \in ActiveParts(r) : HasLots(u) => p \notin Few(u)
      /\ \A b \in Bids :
           /\ r.bids[b].status = u.bids[b].status /\ r.bids[b].firm = u.bids[b].firm
           /\ \A l \in DOMAIN u.lots :
                r.bids[b].values[l] = IF l \in Few(u) /\ u.bids[b].values[l] # Nobody THEN "unsuccessful"
                                      ELSE u.bids[b].values[l]
      /\ HasLots(u) => Parts(u) = DOMAIN u.lots
      /\ \A p \in Parts(u) : p \notin ActiveParts(r) => HasLots(u) /\ (p \in Few(u) \/ p \notin ActiveParts(u))
  BY <1>4, <1>8, Counted
<1>10. r.kind = t.kind /\ r.quals = t.quals /\ r.complaints = t.complaints /\ DOMAIN r.lots = DOMAIN t.lots
  <2>1. r.kind = u.kind /\ r.quals = u.quals /\ r.complaints = u.complaints /\ r.lots = LotsLeft(u)
    BY <1>9, Zenon DEF HasFields
  <2> QED BY <1>6, <2>1 DEF LotsLeft
<1>11. /\ Parts(u) = Parts(t) /\ HasLots(u) = HasLots(t) /\ ActiveParts(u) = ActiveParts(t)
       /\ \A p : InPlay(u, p) = InPlay(t, p)
  BY <1>6, ReadAlike
<1>12. /\ Parts(r) = Parts(t) /\ (HasLots(r) <=> HasLots(t)) /\ r.status \in {x, "unsuccessful"}
       /\ \A b \in Bids : r.bids[b].status = t.bids[b].status /\ r.bids[b].firm = t.bids[b].firm
       /\ \A b \in Bids, l \in DOMAIN t.lots :
            r.bids[b].values[l] = IF l \in Few(u) /\ t.bids[b].values[l] # Nobody THEN "unsuccessful"
                                  ELSE t.bids[b].values[l]
       /\ HasLots(t) => Parts(t) = DOMAIN t.lots
  BY <1>6, <1>9, <1>11
<1>13. DialogueFits(r)
  <2>1. r.status \in {"active.stage2.pending", "active.stage2.waiting"} => t.kind = "dialogue"
    BY <1>7, <1>12
  <2>2. t.kind = "dialogue" => \A b \in Bids : t.bids[b].status # Nobody => t.bids[b].firm \in Firms
    BY <1>1 DEF DialogueFits
  <2> QED BY <1>10, <1>12, <2>1, <2>2, Zenon DEF DialogueFits
<1>14. CASE r.status = "unsuccessful"
  <2>1. r.status \in Finished
    BY <1>14 DEF Finished
  <2> QED BY <1>9, <1>13, <2>1, FinishedIsGood
<1>15. CASE r.status # "unsuccessful"
  <2>1. r.status = x
    BY <1>12, <1>15
  <2>2. \A p \in ActiveParts(r) : p \in ActiveParts(t) /\ p \in Parts(t)
    BY <1>1, <1>9, <1>11, FormFields
  <2>3. ASSUME NEW b \in Bids, NEW p \in ActiveParts(r) PROVE ValueOf(r, b, p) = ValueOf(t, b, p)
    <3>1. CASE HasLots(t)
      <4>1. p \in DOMAIN t.lots /\ p \notin Few(u)
        BY <1>9, <1>11, <1>12, <2>2, <3>1
      <4> QED BY <1>12, <3>1, <4>1 DEF ValueOf
    <3>2. CASE ~ HasLots(t)
      BY <1>12, <3>2 DEF ValueOf
    <3> QED BY <3>1, <3>2
  <2>4. Narrower(t, r)
    <3>1. \A b \in Bids, p \in ActiveParts(r) :
            r.quals[b][p] = t.quals[b][p] /\ ValueOf(r, b, p) = ValueOf(t, b, p)
      BY <1>10, <2>2, <2>3
    <3>2. ActiveParts(r) \subseteq ActiveParts(t)
      BY <2>2
    <3> QED BY <1>10, <1>12, <3>1, <3>2, Zenon DEF Narrower
  <2>5. \A b \in Bids, p \in ActiveParts(r) : QualFits(t, b, p) /\ QualFits(r, b, p)
    <3>1. \A b \in Bids, p \in ActiveParts(r) : QualFits(t, b, p)
      BY <1>1, <2>2, StatusOrder, Zenon DEF ReviewFits
    <3> QED BY <1>1, <1>9, <2>4, <3>1, NarrowerFits
  <2>6. ASSUME NEW b \in Bids, NEW p \in Parts(r), p \notin ActiveParts(r) PROVE ClosedQual(r, b, p)
    <3>1. HasLots(t) /\ (p \in Few(u) \/ p \notin ActiveParts(t)) /\ p \in Parts(t) /\ p \in DOMAIN t.lots
      BY <1>9, <1>11, <1>12, <2>6
    <3>2. t.quals[b][p] # "pending"
      <4>1. CASE p \in ActiveParts(t)
        <5>1. QualFits(t, b, p)
          BY <1>1, <3>1, <4>1, StatusOrder, Zenon DEF ReviewFits
        <5>2. b \notin ToReview(t, p)
          BY <1>1, <4>1 DEF AllReviewed
        <5> QED BY <3>1, <5>1, <5>2, NobodyAssumption DEF QualFits, ToReview, ValueOf, Gone
      <4>2. CASE p \notin ActiveParts(t)
        <5>1. ClosedQual(t, b, p)
          BY <1>1, <3>1, <4>2, StatusOrder, Zenon DEF ReviewFits
        <5> QED BY <5>1 DEF ClosedQual
      <4> QED BY <4>1, <4>2
    <3>3. t.kind = "EU" => r.bids[b].values[p] # "active"
      <4>1. CASE p \in Few(u)
        <5>1. r.bids[b].values[p] \in {"unsuccessful", Nobody}
          BY <1>12, <3>1, <4>1
        <5> QED BY <5>1, NobodyAssumption
      <4>2. CASE p \notin Few(u)
        <5>1. ClosedQual(t, b, p)
          BY <1>1, <3>1, <4>2, StatusOrder, Zenon DEF ReviewFits
        <5> QED BY <1>12, <3>1, <4>2, <5>1 DEF ClosedQual
      <4> QED BY <4>1, <4>2
    <3> QED BY <1>10, <3>2, <3>3 DEF ClosedQual
  <2>7. ReviewFits(r)
    BY <2>5, <2>6, Zenon DEF ReviewFits
  <2>8. ReviewOver(r)
    <3>1. AllReviewed(r)
      BY <1>1, <1>9, <2>4, NarrowerFits
    <3> QED BY <3>1 DEF ReviewOver
  <2>9. TenderingFits(r)
    <3>1. r.status # "active.tendering"
      BY <1>7, <2>1, StatusOrder
    <3> QED BY <3>1 DEF TenderingFits
  <2>10. ASSUME NEW p \in ActiveParts(r) PROVE Cardinality(AdmittedTo(r, p)) >= MinBids /\ Undisputed(r, p)
    <3>1. ~ TooFew(u, p) /\ p \in ActiveParts(u) /\ p \in ActiveParts(t)
      BY <1>9, <1>11, <1>15
    <3>2. ~ (Cardinality(InPlay(t, p)) < MinBids)
      BY <1>11, <3>1 DEF TooFew
    <3>3. InPlay(t, p) \subseteq AdmittedTo(r, p)
      <4> SUFFICES ASSUME NEW b \in InPlay(t, p) PROVE b \in AdmittedTo(r, p)
        OBVIOUS
      <4>1. /\ b \in Bids /\ t.bids[b].status \in {"pending", "active"}
            /\ HasLots(t) => t.bids[b].values[p] \in {"pending", "active"}
        BY DEF InPlay
      <4>2. b \notin ToReview(t, p)
        BY <1>1, <3>1 DEF AllReviewed
      <4>3. ValueOf(t, b, p) = "active"
        BY <4>1, <4>2, NobodyAssumption DEF ToReview, ValueOf
      <4>4. r.quals[b][p] = "active"
        BY <1>10, <2>5, <4>1, <4>3 DEF QualFits
      <4>5. ValueOf(r, b, p) = "active" /\ r.bids[b].status \in {"pending", "active"}
        BY <1>12, <2>3, <4>1, <4>3
      <4> QED BY <4>1, <4>4, <4>5 DEF AdmittedTo, InPlay, ValueOf
    <3>4. IsFiniteSet(AdmittedTo(r, p))
      <4>1. AdmittedTo(r, p) \subseteq Bids
        BY DEF AdmittedTo, InPlay
      <4> QED BY <4>1, BidsAssumption, FS_Subset
    <3>5. /\ Cardinality(InPlay(t, p)) <= Cardinality(AdmittedTo(r, p))
          /\ Cardinality(InPlay(t, p)) \in Nat /\ Cardinality(AdmittedTo(r, p)) \in Nat
      BY <3>3, <3>4, FS_Subset, FS_CardinalityType
    <3>6. Undisputed(r, p)
      <4>1. \A k \in DOMAIN t.complaints : k \notin Holding(t)
        BY Zenon
      <4>2. \A k \in DOMAIN t.complaints : t.complaints[k].about = p => t.complaints[k].status \notin Undecided
        BY <3>1, <4>1 DEF Holding, Nth
      <4> QED BY <1>10, <4>2, Zenon DEF Undisputed
    <3> QED BY <3>2, <3>5, <3>6, MinBidsAssumption
  <2>11. Enough(r)
    BY <2>10 DEF Enough
  <2> QED BY <1>9, <1>13, <2>7, <2>8, <2>9, <2>11 DEF Good
<1> QED BY <1>14, <1>15

\* What is asked of the second stage whatever becomes of the first.
StageForm(t, s) == s # NoStage2 => Second(s) /\ s.shortlist \subseteq Firms \X Parts(t)

LEMMA CancelTenderIsGood ==
  ASSUME NEW t, NEW s, Form(t), DialogueFits(t), StageForm(t, s)
  PROVE  Good(CancelTender(t)) /\ StageFits(CancelTender(t), s) /\ Parts(CancelTender(t)) = Parts(t)
<1>1. PICK f :
        f = IF t.status = "active.tendering" THEN [b \in Bids |-> NoBid(DOMAIN t.lots)]
            ELSE IF t.status \in Reviewing \cup {"active.auction"}
            THEN [b \in Bids |-> IF t.bids[b].status \in {"pending", "active"}
                                 THEN ReBidStatus(t.bids[b], "invalid.pre-qualification") ELSE t.bids[b]]
            ELSE t.bids
  OBVIOUS
<1>2. PICK u : u = WithBids(t, f)
  OBVIOUS
<1>3. PICK r : r = WithStatus(u, "cancelled")
  OBVIOUS
<1>4. CancelTender(t) = r
  BY <1>1, <1>2, <1>3, Zenon DEF CancelTender, WithBids, WithStatus, ReBidStatus
<1>5. t.bids \in [Bids -> BidOf(DOMAIN t.lots)]
  BY FormFields
<1>6. /\ f \in [Bids -> BidOf(DOMAIN t.lots)]
      /\ \A b \in Bids : f[b] = NoBid(DOMAIN t.lots) \/ f[b].firm = t.bids[b].firm
      /\ \A b \in Bids : f[b].status # Nobody => t.bids[b].status # Nobody
  <2>1. CASE t.status = "active.tendering"
    <3>1. f = [b \in Bids |-> NoBid(DOMAIN t.lots)]
      BY <1>1, <2>1
    <3> QED BY <3>1, NoBidMade
  <2>2. CASE t.status \in Reviewing \cup {"active.auction"}
    <3>1. t.status # "active.tendering"
      BY <2>2, StatusOrder
    <3>2. f = [b \in Bids |-> IF t.bids[b].status \in {"pending", "active"}
                              THEN ReBidStatus(t.bids[b], "invalid.pre-qualification") ELSE t.bids[b]]
      BY <1>1, <2>2, <3>1
    <3>3. ASSUME NEW b \in Bids
          PROVE  /\ f[b] \in BidOf(DOMAIN t.lots) /\ f[b].firm = t.bids[b].firm
                 /\ f[b].status # Nobody => t.bids[b].status # Nobody
      <4>1. CASE t.bids[b].status \in {"pending", "active"}
        <5>1. f[b] = ReBidStatus(t.bids[b], "invalid.pre-qualification")
          BY <3>2, <4>1
        <5>2. f[b] \in BidOf(DOMAIN t.lots) /\ f[b].firm = t.bids[b].firm
          BY <1>5, <5>1, BidChanged DEF Final
        <5> QED BY <4>1, <5>2, NobodyAssumption
      <4>2. CASE t.bids[b].status \notin {"pending", "active"}
        <5>1. f[b] = t.bids[b]
          BY <3>2, <4>2
        <5> QED BY <1>5, <5>1
      <4> QED BY <4>1, <4>2
    <3>4. f = [b \in Bids |-> f[b]]
      BY <3>2
    <3>5. f \in [Bids -> BidOf(DOMAIN t.lots)]
      BY <3>3, <3>4
    <3> QED BY <3>3, <3>5
  <2>3. CASE t.status \notin Reviewing \cup {"active.auction", "active.tendering"}
    <3>1. f = t.bids
      BY <1>1, <2>3
    <3> QED BY <1>5, <3>1
  <2> QED BY <2>1, <2>2, <2>3
<1>7. /\ HasFields(u, t.kind, t.status, t.lots, t.over, t.standStill,
                   f, t.quals, t.complaints, t.cancelling, t.withdrawn)
      /\ Form(u)
  BY <1>2, <1>6, BidsFields
<1>8. HasFields(r, u.kind, "cancelled", u.lots, u.over, u.standStill,
                u.bids, u.quals, u.complaints, u.cancelling, u.withdrawn)
  BY <1>3, <1>7, Rewritten, FormTypes, Zenon
<1>9. r.kind = t.kind /\ r.status = "cancelled" /\ r.lots = t.lots /\ r.bids = f
  BY <1>7, <1>8, Zenon DEF HasFields
<1>10. Form(r)
  <2>1. "cancelled" \in Statuses
    BY DEF Statuses, Finished
  <2> QED BY <1>7, <1>8, <2>1, FormTypes, FormKept DEF HasFields
<1>11. DialogueFits(r)
  <2>1. \A b \in Bids : f[b].status # Nobody => f[b].firm = t.bids[b].firm /\ t.bids[b].status # Nobody
    BY <1>6, NoBidMade
  <2> QED BY <1>9, <2>1 DEF DialogueFits
<1>12. r.status \in Finished
  BY <1>9 DEF Finished
<1>13. Good(r)
  BY <1>10, <1>11, <1>12, FinishedIsGood
<1>14. Parts(r) = Parts(t)
  BY <1>9, ReadAlike
<1>15. StageFits(r, s)
  BY <1>9, <1>12, <1>14, Zenon DEF StageFits, StageForm
<1> QED BY <1>4, <1>13, <1>14, <1>15

\* The lots and what is left of bids and qualifications when lots are cancelled.
LotsAfter(t, l) == [t.lots EXCEPT ![l] = "cancelled"]
CancelledAfter(t, l) == {x \in DOMAIN LotsAfter(t, l) : LotsAfter(t, l)[x] = "cancelled"}
ValuesAfter(t, gone, b) == [l \in DOMAIN t.lots |-> IF l \in gone THEN Nobody ELSE t.bids[b].values[l]]
StatusAfter(t, gone, b) ==
  IF Range(ValuesAfter(t, gone, b)) = {Nobody} /\ t.bids[b].status \in {"pending", "active"}
  THEN IF t.status = "active.tendering" THEN "invalid" ELSE "invalid.pre-qualification"
  ELSE t.bids[b].status
BidsAfter(t, gone) ==
  [b \in Bids |-> ReBidStatus(ReValues(t.bids[b], ValuesAfter(t, gone, b)), StatusAfter(t, gone, b))]
Invalidating == Reviewing \cup {"active.tendering", "active.auction"}
WithoutBidsFor(t, gone) == IF t.status \notin Invalidating THEN t ELSE WithBids(t, BidsAfter(t, gone))
QualsAfter(t, gone) ==
  [b \in Bids |-> [p \in DOMAIN t.lots |->
     IF p \in gone /\ t.quals[b][p] # Nobody THEN "cancelled" ELSE t.quals[b][p]]]

LEMMA WithoutLotBidsIs ==
  ASSUME NEW t, NEW gone
  PROVE  WithoutLotBids(t, gone) = WithoutBidsFor(t, gone)
<1>1. BidsAfter(t, gone) =
        [b \in Bids |-> [t.bids[b] EXCEPT !.values = ValuesAfter(t, gone, b), !.status = StatusAfter(t, gone, b)]]
  BY Zenon DEF BidsAfter, ReBidStatus, ReValues
<1> QED BY <1>1, Zenon DEF WithoutLotBids, WithoutBidsFor, ValuesAfter, StatusAfter, WithBids, Invalidating

LEMMA BidsAfterFit ==
  ASSUME NEW t, Form(t), NEW gone
  PROVE  /\ BidsAfter(t, gone) \in [Bids -> BidOf(DOMAIN t.lots)]
         /\ \A b \in Bids :
              /\ BidsAfter(t, gone)[b].firm = t.bids[b].firm
              /\ \A l \in DOMAIN t.lots :
                   BidsAfter(t, gone)[b].values[l] = IF l \in gone THEN Nobody ELSE t.bids[b].values[l]
              /\ DOMAIN BidsAfter(t, gone)[b].values = DOMAIN t.lots
              /\ \/ BidsAfter(t, gone)[b].status = t.bids[b].status
                 \/ /\ t.bids[b].status \in {"pending", "active"}
                    /\ \A l \in DOMAIN t.lots : l \notin gone => t.bids[b].values[l] = Nobody
                    /\ BidsAfter(t, gone)[b].status =
                         IF t.status = "active.tendering" THEN "invalid" ELSE "invalid.pre-qualification"
<1>1. ASSUME NEW b \in Bids
      PROVE  /\ BidsAfter(t, gone)[b] \in BidOf(DOMAIN t.lots)
             /\ BidsAfter(t, gone)[b].firm = t.bids[b].firm
             /\ BidsAfter(t, gone)[b].values = ValuesAfter(t, gone, b)
             /\ BidsAfter(t, gone)[b].status = StatusAfter(t, gone, b)
  <2>1. t.bids[b] \in BidOf(DOMAIN t.lots)
    BY FormFields
  <2>2. ValuesAfter(t, gone, b) \in [DOMAIN t.lots -> ValueStatus]
    <3>1. \A l \in DOMAIN t.lots : t.bids[b].values[l] \in ValueStatus
      BY <2>1, BidFields
    <3> QED BY <3>1 DEF ValuesAfter, ValueStatus
  <2>3. PICK v : v = ReValues(t.bids[b], ValuesAfter(t, gone, b))
    OBVIOUS
  <2>4. v \in BidOf(DOMAIN t.lots) /\ v.firm = t.bids[b].firm /\ v.values = ValuesAfter(t, gone, b)
        /\ v.status = t.bids[b].status
    BY <2>1, <2>2, <2>3, BidChanged
  <2>5. StatusAfter(t, gone, b) \in Final \cup {"pending", "active"}
    <3>1. t.bids[b].status \in Final \cup {"pending", "active"}
      BY <2>1, BidFields
    <3> QED BY <3>1 DEF StatusAfter, Final
  <2>6. BidsAfter(t, gone)[b] = ReBidStatus(v, StatusAfter(t, gone, b))
    BY <2>3 DEF BidsAfter
  <2> QED BY <2>4, <2>5, <2>6, BidChanged
<1>2. BidsAfter(t, gone) \in [Bids -> BidOf(DOMAIN t.lots)]
  <2>1. BidsAfter(t, gone) = [b \in Bids |-> BidsAfter(t, gone)[b]]
    BY DEF BidsAfter
  <2> QED BY <1>1, <2>1
<1>3. ASSUME NEW b \in Bids
      PROVE  /\ \A l \in DOMAIN t.lots : ValuesAfter(t, gone, b)[l] = IF l \in gone THEN Nobody ELSE t.bids[b].values[l]
             /\ DOMAIN ValuesAfter(t, gone, b) = DOMAIN t.lots
  BY DEF ValuesAfter
<1>4. ASSUME NEW b \in Bids, Range(ValuesAfter(t, gone, b)) = {Nobody}, NEW l \in DOMAIN t.lots, l \notin gone
      PROVE  t.bids[b].values[l] = Nobody
  <2>1. ValuesAfter(t, gone, b)[l] \in Range(ValuesAfter(t, gone, b))
    BY <1>3 DEF Range
  <2> QED BY <1>3, <1>4, <2>1
<1>5. ASSUME NEW b \in Bids
      PROVE  \/ StatusAfter(t, gone, b) = t.bids[b].status
             \/ /\ t.bids[b].status \in {"pending", "active"}
                /\ \A l \in DOMAIN t.lots : l \notin gone => t.bids[b].values[l] = Nobody
                /\ StatusAfter(t, gone, b) =
                     IF t.status = "active.tendering" THEN "invalid" ELSE "invalid.pre-qualification"
  BY <1>4 DEF StatusAfter
<1> QED BY <1>1, <1>2, <1>3, <1>5

\* The document when the bids for a lot that is cancelled are gone.
QualsGone(v, lots, gone) ==
  [v EXCEPT !.quals = [b \in Bids |-> [p \in DOMAIN lots |->
     IF p \in gone /\ @[b][p] # Nobody THEN "cancelled" ELSE @[b][p]]]]
LotGone(t, l) ==
  QualsGone(WithoutLotBids(WithLots(t, LotsAfter(t, l)), CancelledAfter(t, l)), LotsAfter(t, l), CancelledAfter(t, l))

LEMMA CancelLotIs ==
  ASSUME NEW t, NEW l
  PROVE  CancelLot(t, l) =
           IF Range(LotsAfter(t, l)) = {"cancelled"} THEN CancelTender(LotGone(t, l))
           ELSE IF Range(LotsAfter(t, l)) \subseteq {"cancelled", "unsuccessful"}
           THEN WithStatus(LotGone(t, l), "unsuccessful")
           ELSE LotGone(t, l)
BY Zenon DEF CancelLot, LotGone, QualsGone, LotsAfter, CancelledAfter, WithLots, WithStatus

LEMMA LotGoneFields ==
  ASSUME NEW t, Form(t), NEW l \in DOMAIN t.lots, NEW m, m = LotGone(t, l)
  PROVE  /\ DOMAIN LotsAfter(t, l) = DOMAIN t.lots
         /\ \A x \in DOMAIN t.lots : LotsAfter(t, l)[x] = IF x = l THEN "cancelled" ELSE t.lots[x]
         /\ Form(m) /\ m.kind = t.kind /\ m.status = t.status /\ m.lots = LotsAfter(t, l)
         /\ m.complaints = t.complaints /\ m.cancelling = t.cancelling /\ m.withdrawn = t.withdrawn
         /\ \A b \in Bids :
              /\ m.bids[b].firm = t.bids[b].firm
              /\ \A p \in DOMAIN t.lots :
                   m.quals[b][p] = IF p \in CancelledAfter(t, l) /\ t.quals[b][p] # Nobody THEN "cancelled"
                                   ELSE t.quals[b][p]
              /\ DOMAIN m.bids[b].values = DOMAIN t.lots
              /\ t.status \notin Invalidating => m.bids[b] = t.bids[b]
              /\ t.status \in Invalidating =>
                   \A p \in DOMAIN t.lots :
                     m.bids[b].values[p] = IF p \in CancelledAfter(t, l) THEN Nobody ELSE t.bids[b].values[p]
              /\ \/ m.bids[b].status = t.bids[b].status
                 \/ /\ t.bids[b].status \in {"pending", "active"}
                    /\ \A p \in DOMAIN t.lots : p \notin CancelledAfter(t, l) => t.bids[b].values[p] = Nobody
                    /\ m.bids[b].status =
                         IF t.status = "active.tendering" THEN "invalid" ELSE "invalid.pre-qualification"
<1>1. PICK lots : lots = LotsAfter(t, l)
  OBVIOUS
<1>2. PICK gone : gone = CancelledAfter(t, l)
  OBVIOUS
<1>3. PICK w : w = WithLots(t, lots)
  OBVIOUS
<1>4. PICK v : v = WithoutBidsFor(w, gone)
  OBVIOUS
<1>5. m = QualsGone(v, lots, gone)
  <2>1. v = WithoutLotBids(w, gone)
    BY <1>4, WithoutLotBidsIs, Zenon
  <2> QED BY <1>1, <1>2, <1>3, <2>1, Zenon DEF LotGone
<1>6. /\ lots \in [DOMAIN t.lots -> LotStatus] /\ DOMAIN lots = DOMAIN t.lots
      /\ \A x \in DOMAIN t.lots : lots[x] = IF x = l THEN "cancelled" ELSE t.lots[x]
  <2>1. t.lots \in [DOMAIN t.lots -> LotStatus]
    BY FormFields
  <2> QED BY <1>1, <2>1 DEF LotsAfter, LotStatus
<1>7. HasFields(w, t.kind, t.status, lots, t.over, t.standStill,
                t.bids, t.quals, t.complaints, t.cancelling, t.withdrawn)
  BY <1>3, FormTypes, Rewritten, Zenon
<1>8. Form(w)
  <2>1. DOMAIN w.lots = DOMAIN t.lots /\ w.lots \in [DOMAIN t.lots -> LotStatus]
    BY <1>6, <1>7, Zenon DEF HasFields
  <2> QED BY <1>7, <2>1, Zenon DEF Form, HasFields
<1>9. w.status = t.status /\ w.bids = t.bids /\ w.lots = lots /\ w.quals = t.quals /\ w.kind = t.kind
      /\ w.over = t.over /\ w.standStill = t.standStill /\ w.complaints = t.complaints
      /\ w.cancelling = t.cancelling /\ w.withdrawn = t.withdrawn
  BY <1>7, Zenon DEF HasFields
<1>10. PICK f : f = IF t.status \in Invalidating THEN BidsAfter(w, gone) ELSE t.bids
  OBVIOUS
<1>11. /\ f \in [Bids -> BidOf(DOMAIN t.lots)]
       /\ \A b \in Bids :
            /\ f[b].firm = t.bids[b].firm
            /\ DOMAIN f[b].values = DOMAIN t.lots
            /\ t.status \notin Invalidating => f[b] = t.bids[b]
            /\ t.status \in Invalidating =>
                 \A p \in DOMAIN t.lots : f[b].values[p] = IF p \in gone THEN Nobody ELSE t.bids[b].values[p]
            /\ \/ f[b].status = t.bids[b].status
               \/ /\ t.bids[b].status \in {"pending", "active"}
                  /\ \A p \in DOMAIN t.lots : p \notin gone => t.bids[b].values[p] = Nobody
                  /\ f[b].status =
                       IF t.status = "active.tendering" THEN "invalid" ELSE "invalid.pre-qualification"
  <2>1. CASE t.status \in Invalidating
    <3>1. f = BidsAfter(w, gone)
      BY <1>10, <2>1
    <3> QED BY <1>6, <1>8, <1>9, <2>1, <3>1, BidsAfterFit
  <2>2. CASE t.status \notin Invalidating
    <3>1. f = t.bids
      BY <1>10, <2>2
    <3>2. t.bids \in [Bids -> BidOf(DOMAIN t.lots)]
      BY FormFields
    <3>3. \A b \in Bids : DOMAIN t.bids[b].values = DOMAIN t.lots
      BY <3>2, BidFields
    <3> QED BY <2>2, <3>1, <3>2, <3>3
  <2> QED BY <2>1, <2>2
<1>12. HasFields(v, t.kind, t.status, lots, t.over, t.standStill,
                 f, t.quals, t.complaints, t.cancelling, t.withdrawn)
       /\ Form(v)
  <2>1. CASE t.status \in Invalidating
    <3>1. v = WithBids(w, f)
      BY <1>4, <1>9, <1>10, <2>1, Zenon DEF WithoutBidsFor
    <3>2. f \in [Bids -> BidOf(DOMAIN w.lots)]
      BY <1>6, <1>9, <1>11
    <3>3. /\ HasFields(v, w.kind, w.status, w.lots, w.over, w.standStill,
                       f, w.quals, w.complaints, w.cancelling, w.withdrawn)
          /\ Form(v)
      BY <1>8, <3>1, <3>2, BidsFields
    <3> QED BY <1>9, <3>3
  <2>2. CASE t.status \notin Invalidating
    <3>1. v = w /\ f = t.bids
      BY <1>4, <1>9, <1>10, <2>2, Zenon DEF WithoutBidsFor
    <3> QED BY <1>7, <1>8, <3>1
  <2> QED BY <2>1, <2>2
<1>13. v.lots = lots /\ v.quals = t.quals
  BY <1>12, Zenon DEF HasFields
<1>14. PICK qs : qs = QualsAfter(v, gone)
  OBVIOUS
<1>15. Parts(t) = DOMAIN t.lots /\ PartsOf(DOMAIN t.lots) = DOMAIN t.lots
  BY FormFields
<1>16. /\ qs \in [Bids -> [DOMAIN t.lots -> QualStatus]]
       /\ \A b \in Bids, p \in DOMAIN t.lots :
            qs[b][p] = IF p \in gone /\ t.quals[b][p] # Nobody THEN "cancelled" ELSE t.quals[b][p]
  <2>1. t.quals \in [Bids -> [DOMAIN t.lots -> QualStatus]]
    BY <1>15, FormFields
  <2>2. qs = [b \in Bids |-> [p \in DOMAIN t.lots |->
                IF p \in gone /\ t.quals[b][p] # Nobody THEN "cancelled" ELSE t.quals[b][p]]]
    BY <1>6, <1>13, <1>14, Zenon DEF QualsAfter
  <2> QED BY <2>1, <2>2 DEF QualStatus
<1>17. HasFields(m, t.kind, t.status, lots, t.over, t.standStill,
                 f, qs, t.complaints, t.cancelling, t.withdrawn)
  <2>2. qs = [b \in Bids |-> [p \in DOMAIN lots |->
                IF p \in gone /\ v.quals[b][p] # Nobody THEN "cancelled" ELSE v.quals[b][p]]]
    BY <1>13, <1>14, Zenon DEF QualsAfter
  <2>3. m = WithQuals(v, qs)
    BY <1>5, <2>2, Zenon DEF QualsGone, WithQuals
  <2>4. Record(v)
    BY <1>12, FormTypes
  <2>1. HasFields(m, v.kind, v.status, v.lots, v.over, v.standStill,
                  v.bids, qs, v.complaints, v.cancelling, v.withdrawn)
    BY <2>3, <2>4, Rewritten, Zenon
  <2> QED BY <1>12, <2>1, Zenon DEF HasFields
<1>18. Form(m)
  <2>1. m.kind = v.kind /\ m.status = v.status /\ m.lots = v.lots /\ m.over = v.over /\ m.standStill = v.standStill
        /\ m.bids = v.bids /\ m.complaints = v.complaints /\ m.cancelling = v.cancelling
        /\ m.withdrawn = v.withdrawn /\ m.quals = qs /\ Record(m)
    BY <1>12, <1>17, Zenon DEF HasFields
  <2>2. qs \in [Bids -> [PartsOf(DOMAIN m.lots) -> QualStatus]]
    BY <1>6, <1>13, <1>15, <1>16, <2>1
  <2> QED BY <1>12, <2>1, <2>2, Zenon DEF Form
<1>19. m.kind = t.kind /\ m.status = t.status /\ m.lots = lots /\ m.bids = f /\ m.quals = qs
       /\ m.complaints = t.complaints /\ m.cancelling = t.cancelling /\ m.withdrawn = t.withdrawn
  BY <1>17, Zenon DEF HasFields
<1> QED BY <1>1, <1>2, <1>6, <1>11, <1>16, <1>18, <1>19

LEMMA LotGoneIsGood ==
  ASSUME NEW t, NEW s, Good(t), StageFits(t, s), NEW l \in DOMAIN t.lots, t.status \notin Finished,
         NEW m, m = LotGone(t, l)
  PROVE  Good(m) /\ StageFits(m, s) /\ m.status = t.status /\ Parts(m) = Parts(t)
<1>1. Form(t) /\ DialogueFits(t) /\ ReviewFits(t) /\ TenderingFits(t)
  BY DEF Good
<1>2. PICK gone : gone = CancelledAfter(t, l)
  OBVIOUS
<1>3. /\ DOMAIN LotsAfter(t, l) = DOMAIN t.lots
      /\ \A x \in DOMAIN t.lots : LotsAfter(t, l)[x] = IF x = l THEN "cancelled" ELSE t.lots[x]
      /\ Form(m) /\ m.kind = t.kind /\ m.status = t.status /\ m.lots = LotsAfter(t, l)
      /\ m.complaints = t.complaints
      /\ \A b \in Bids :
           /\ m.bids[b].firm = t.bids[b].firm
           /\ \A p \in DOMAIN t.lots :
                m.quals[b][p] = IF p \in gone /\ t.quals[b][p] # Nobody THEN "cancelled" ELSE t.quals[b][p]
           /\ DOMAIN m.bids[b].values = DOMAIN t.lots
           /\ t.status \notin Invalidating => m.bids[b] = t.bids[b]
           /\ t.status \in Invalidating =>
                \A p \in DOMAIN t.lots :
                  m.bids[b].values[p] = IF p \in gone THEN Nobody ELSE t.bids[b].values[p]
           /\ \/ m.bids[b].status = t.bids[b].status
              \/ /\ t.bids[b].status \in {"pending", "active"}
                 /\ \A p \in DOMAIN t.lots : p \notin gone => t.bids[b].values[p] = Nobody
                 /\ m.bids[b].status =
                      IF t.status = "active.tendering" THEN "invalid" ELSE "invalid.pre-qualification"
  BY <1>1, <1>2, LotGoneFields
<1>4. HasLots(t) /\ HasLots(m) /\ Parts(t) = DOMAIN t.lots /\ Parts(m) = DOMAIN t.lots
  BY <1>1, <1>3, FormFields
<1>5. \A p \in DOMAIN t.lots : p \in gone <=> p = l \/ t.lots[p] = "cancelled"
  BY <1>2, <1>3 DEF CancelledAfter
<1>6. \A p \in DOMAIN t.lots :
        /\ p \in ActiveParts(m) <=> p \notin gone /\ p \in ActiveParts(t)
        /\ p \in ActiveParts(t) <=> t.lots[p] = "active"
  BY <1>3, <1>4, <1>5 DEF ActiveParts
<1>7. DialogueFits(m)
  <2>1. \A b \in Bids : m.bids[b].status # Nobody => t.bids[b].status # Nobody
    BY <1>3, NobodyAssumption
  <2>2. t.kind = "dialogue" => \A b \in Bids : t.bids[b].status # Nobody => t.bids[b].firm \in Firms
    BY <1>1 DEF DialogueFits
  <2>3. m.status \in {"active.stage2.pending", "active.stage2.waiting"} => m.kind = "dialogue"
    BY <1>1, <1>3 DEF DialogueFits
  <2> QED BY <1>3, <2>1, <2>2, <2>3, Zenon DEF DialogueFits
<1>8. ASSUME NEW b \in Bids, NEW p \in ActiveParts(m)
      PROVE  /\ p \in DOMAIN t.lots /\ p \notin gone /\ p \in ActiveParts(t)
             /\ m.quals[b][p] = t.quals[b][p]
             /\ ValueOf(m, b, p) = ValueOf(t, b, p) /\ ValueOf(t, b, p) = t.bids[b].values[p]
             /\ ValueOf(t, b, p) # Nobody => m.bids[b].status = t.bids[b].status
  <2>1. p \in DOMAIN t.lots
    BY <1>4 DEF ActiveParts
  <2>2. p \notin gone /\ p \in ActiveParts(t)
    BY <1>6, <2>1
  <2>3. m.bids[b].values[p] = t.bids[b].values[p]
    BY <1>3, <2>1, <2>2
  <2> QED BY <1>3, <1>4, <2>1, <2>2, <2>3 DEF ValueOf
<1>9. Narrower(t, m)
  <2>1. m.kind = t.kind /\ DOMAIN m.lots = DOMAIN t.lots
    BY <1>3
  <2>2. ASSUME NEW b \in Bids, t.bids[b].status \in Gone PROVE m.bids[b].status \in Gone
    BY <1>3, <2>2, NobodyAssumption DEF Gone
  <2>3. ASSUME NEW b \in Bids, NEW p \in ActiveParts(m)
        PROVE  /\ ValueOf(t, b, p) # Nobody /\ m.bids[b].status \in Gone => t.bids[b].status \in Gone
               /\ ValueOf(t, b, p) = "active" /\ t.bids[b].status \in {"pending", "active"} =>
                    m.bids[b].status \in {"pending", "active"}
    BY <1>8, NobodyAssumption
  <2>4. \A b \in Bids : m.bids[b].firm = t.bids[b].firm
    BY <1>3
  <2>5. \A b \in Bids, p \in ActiveParts(m) :
          m.quals[b][p] = t.quals[b][p] /\ ValueOf(m, b, p) = ValueOf(t, b, p)
    BY <1>8
  <2>6. ActiveParts(m) \subseteq ActiveParts(t)
    <3> SUFFICES ASSUME NEW p \in ActiveParts(m) PROVE p \in ActiveParts(t)
      OBVIOUS
    <3>1. p \in DOMAIN t.lots
      BY <1>4 DEF ActiveParts
    <3> QED BY <1>6, <3>1
  <2> QED BY <2>1, <2>2, <2>3, <2>4, <2>5, <2>6, Zenon DEF Narrower
<1>10. \A p : Undisputed(t, p) => Undisputed(m, p)
  BY <1>3, Zenon DEF Undisputed
<1>11. StageFits(m, s)
  <2>1. Parts(m) = Parts(t) /\ \A list : Listed(t, list) => Listed(m, list)
    BY <1>1, <1>3, <1>9, NarrowerFits
  <2> QED BY <1>3, <2>1, Zenon DEF StageFits
<1>12. CASE t.status = "active.tendering"
  <2>1. t.status \in Invalidating
    BY <1>12 DEF Invalidating
  <2>2. ASSUME NEW b \in Bids PROVE Undecidedly(m.bids[b])
    <3>1. Undecidedly(t.bids[b])
      BY <1>1, <1>12 DEF TenderingFits
    <3>2. DOMAIN t.bids[b].values = DOMAIN t.lots
      BY <1>1, FormFields, BidFields
    <3>3. m.bids[b].status \in {Nobody, "draft", "pending", "deleted", "invalid"}
      BY <1>3, <1>12, <3>1 DEF Undecidedly
    <3>4. \A p \in DOMAIN t.lots : m.bids[b].values[p] \in {"pending", Nobody}
      BY <1>3, <2>1, <3>1, <3>2 DEF Undecidedly
    <3> QED BY <1>3, <3>3, <3>4 DEF Undecidedly
  <2>3. \A b \in Bids : \A p \in Parts(m) : m.quals[b][p] = Nobody
    BY <1>1, <1>3, <1>4, <1>12 DEF TenderingFits
  <2>4. TenderingFits(m)
    BY <2>2, <2>3 DEF TenderingFits
  <2>5. m.status \notin Reviewing \cup Competing /\ m.status # "active.pre-qualification.stand-still"
    BY <1>3, <1>12, StatusOrder
  <2>6. ReviewFits(m) /\ ReviewOver(m) /\ Enough(m)
    BY <2>5 DEF ReviewFits, ReviewOver, Enough
  <2> QED BY <1>3, <1>4, <1>7, <1>11, <2>4, <2>6 DEF Good
<1>13. CASE t.status # "active.tendering"
  <2>1. ASSUME t.status \in Reviewing \cup Competing, NEW b \in Bids, NEW p \in Parts(m), p \notin ActiveParts(m)
        PROVE  ClosedQual(m, b, p)
    <3>1. p \in DOMAIN t.lots
      BY <1>4, <2>1
    <3>2. CASE p \in gone
      <4>1. m.quals[b][p] # "pending"
        BY <1>3, <3>1, <3>2, NobodyAssumption
      <4>2. t.kind = "EU" => t.status \in Invalidating
        BY <1>1, <2>1, NobodyAssumption DEF DialogueFits, Invalidating, Reviewing, Competing
      <4>3. t.kind = "EU" => m.bids[b].values[p] = Nobody
        BY <1>3, <3>1, <3>2, <4>2
      <4> QED BY <1>3, <4>1, <4>3, NobodyAssumption DEF ClosedQual
    <3>3. CASE p \notin gone
      <4>1. p \notin ActiveParts(t)
        BY <1>6, <2>1, <3>1, <3>3
      <4>2. ClosedQual(t, b, p)
        BY <1>1, <1>4, <2>1, <3>1, <4>1, Zenon DEF ReviewFits
      <4>3. m.quals[b][p] = t.quals[b][p]
        BY <1>3, <3>1, <3>3
      <4>4. m.bids[b].values[p] = t.bids[b].values[p]
        BY <1>3, <3>1, <3>3
      <4> QED BY <1>3, <4>2, <4>3, <4>4 DEF ClosedQual
    <3> QED BY <3>2, <3>3
  <2>2. Good(m)
    BY <1>3, <1>7, <1>9, <1>10, <1>13, <2>1, NarrowerIsGood
  <2> QED BY <1>3, <1>4, <1>11, <2>2
<1> QED BY <1>12, <1>13

LEMMA CancelLotIsGood ==
  ASSUME NEW t, NEW s, Good(t), StageFits(t, s), NEW l \in DOMAIN t.lots, t.status \notin Finished
  PROVE  /\ Good(CancelLot(t, l)) /\ StageFits(CancelLot(t, l), s)
         /\ Parts(CancelLot(t, l)) = Parts(t)
<1>1. PICK m : m = LotGone(t, l)
  OBVIOUS
<1>2. Good(m) /\ StageFits(m, s) /\ m.status = t.status /\ Parts(m) = Parts(t)
  BY <1>1, LotGoneIsGood
<1>3. Form(m) /\ DialogueFits(m)
  BY <1>2 DEF Good
<1>4. StageForm(m, s)
  BY <1>2, Zenon DEF StageForm, StageFits
<1>5. Good(CancelTender(m)) /\ StageFits(CancelTender(m), s) /\ Parts(CancelTender(m)) = Parts(m)
  BY <1>3, <1>4, CancelTenderIsGood
<1>6. PICK r : r = WithStatus(m, "unsuccessful")
  OBVIOUS
<1>7. HasFields(r, m.kind, "unsuccessful", m.lots, m.over, m.standStill,
                m.bids, m.quals, m.complaints, m.cancelling, m.withdrawn)
  BY <1>3, <1>6, FormTypes, Rewritten, Zenon
<1>8. Form(r) /\ r.kind = m.kind /\ r.lots = m.lots /\ r.bids = m.bids /\ r.quals = m.quals /\ r.status = "unsuccessful"
  <2>1. "unsuccessful" \in Statuses
    BY DEF Statuses, Finished
  <2> QED BY <1>3, <1>7, <2>1, FormTypes, FormKept DEF HasFields
<1>9. Parts(r) = Parts(m) /\ ActiveParts(r) = ActiveParts(m)
  BY <1>8, ReadAlike
<1>10. r.status \in Finished
  BY <1>8 DEF Finished
<1>11. Good(r)
  <2>1. DialogueFits(r)
    BY <1>3, <1>8 DEF DialogueFits
  <2> QED BY <1>8, <1>10, <2>1, FinishedIsGood
<1>12. StageFits(r, s)
  <2>1. m.status # "cancelled"
    BY <1>2 DEF Finished
  <2> QED BY <1>2, <1>8, <1>9, <1>10, <2>1, Zenon DEF StageFits, Listed
<1> QED BY <1>1, <1>2, <1>5, <1>6, <1>9, <1>11, <1>12, CancelLotIs

\* Drafts of complaints are dropped, which opens no dispute.
LEMMA DroppedComplaints ==
  ASSUME Good(tender), StageFits(tender, stage2), NEW t, t = WithoutDraftComplaints(tender)
  PROVE  Good(t) /\ StageFits(t, stage2) /\ t.status = tender.status /\ t.cancelling = tender.cancelling
         /\ Parts(t) = Parts(tender)
<1>1. CASE tender.standStill # "over"
  BY <1>1 DEF WithoutDraftComplaints
<1>2. CASE tender.standStill = "over"
  <2> DEFINE Moved(c) == ReBidStatus(c, Mistaken(c.status))
  <2>1. PICK co : co = [k \in DOMAIN tender.complaints |-> Moved(tender.complaints[k])]
    OBVIOUS
  <2>2. tender.complaints \in Seq(ComplaintOf(Parts(tender)))
    BY FormTypes DEF Good
  <2>3. ASSUME NEW c \in ComplaintOf(Parts(tender))
        PROVE  /\ Moved(c) \in ComplaintOf(Parts(tender)) /\ Moved(c).about = c.about
               /\ c.status \notin Undecided => Moved(c).status \notin Undecided
    BY DEF ReBidStatus, ComplaintOf, Mistaken, ComplaintStatus, Rejected, Undecided
  <2> HIDE DEF Moved
  <2>4. /\ co \in Seq(ComplaintOf(Parts(tender))) /\ DOMAIN co = DOMAIN tender.complaints
        /\ \A k \in DOMAIN co : co[k] = Moved(tender.complaints[k])
                                /\ tender.complaints[k] \in ComplaintOf(Parts(tender))
    <3>1. DOMAIN tender.complaints = 1 .. Len(tender.complaints) /\ Len(tender.complaints) \in Nat
      BY <2>2, LenProperties
    <3>2. \A k \in 1 .. Len(tender.complaints) : tender.complaints[k] \in ComplaintOf(Parts(tender))
      BY <2>2, ElementOfSeq
    <3>3. co \in [1 .. Len(tender.complaints) -> ComplaintOf(Parts(tender))]
      BY <2>1, <2>3, <3>1, <3>2
    <3>4. co \in Seq(ComplaintOf(Parts(tender)))
      BY <3>1, <3>3
    <3> QED BY <2>1, <3>1, <3>2, <3>4
  <2>5. \A p : Undisputed(tender, p) => \A k \in DOMAIN co : co[k].about = p => co[k].status \notin Undecided
    BY <2>3, <2>4 DEF Undisputed
  <2>6. t = WithComplaints(tender, co)
    BY <1>2, <2>1, Zenon DEF WithoutDraftComplaints, WithComplaints, Moved, ReBidStatus, Nth
  <2>7. /\ Good(t) /\ StageFits(t, stage2)
        /\ HasFields(t, tender.kind, tender.status, tender.lots, tender.over, tender.standStill,
                     tender.bids, tender.quals, co, tender.cancelling, tender.withdrawn)
    BY <2>4, <2>5, <2>6, ComplaintsKept
  <2>8. t.status = tender.status /\ t.cancelling = tender.cancelling /\ t.lots = tender.lots
    BY <2>7, Zenon DEF HasFields
  <2> QED BY <2>7, <2>8, ReadAlike
<1> QED BY <1>1, <1>2

LEMMA CheckStatusKeeps ==
  ASSUME Good(tender), StageFits(tender, stage2), NEW inForce \in BOOLEAN, CheckStatus(inForce)
  PROVE  Kept
<1>1. PICK t : t = WithoutDraftComplaints(tender)
  OBVIOUS
<1>2. Good(t) /\ StageFits(t, stage2) /\ t.status = tender.status /\ t.cancelling = tender.cancelling
      /\ Parts(t) = Parts(tender)
  BY <1>1, DroppedComplaints
<1>3. t.status \notin Finished
  BY <1>2 DEF CheckStatus
<1>4. Form(t) /\ DialogueFits(t)
  BY <1>2 DEF Good
<1>5. PICK c : c = IF t.cancelling = Whole THEN CancelTender(t) ELSE CancelLot(t, t.cancelling)
  OBVIOUS
<1>6. \/ inForce /\ Store(WithCancelling(c, Nobody))
      \/ Store(t)
      \/ t.status = "active.tendering" /\ Store(EndOfTendering(t))
      \/ /\ t.status = "active.pre-qualification.stand-still" /\ Holding(t) = {}
         /\ Store(EndOfStandStill(t))
  BY <1>1, <1>5, Zenon DEF CheckStatus, WithCancelling
<1>7. ASSUME inForce, Store(WithCancelling(c, Nobody)) PROVE Kept
  <2>1. t.cancelling # Nobody /\ t.cancelling \in Parts(t) \cup {Whole, Nobody}
    BY <1>2, <1>4, <1>7, FormTypes DEF CheckStatus
  <2>2. Good(c) /\ StageFits(c, stage2)
    <3>1. CASE t.cancelling = Whole
      <4>1. StageForm(t, stage2)
        BY <1>2, Zenon DEF StageForm, StageFits
      <4> QED BY <1>4, <1>5, <3>1, <4>1, CancelTenderIsGood
    <3>2. CASE t.cancelling # Whole
      <4>1. t.cancelling \in DOMAIN t.lots
        BY <1>4, <2>1, <3>2, FormFields
      <4> QED BY <1>2, <1>3, <1>5, <3>2, <4>1, CancelLotIsGood
    <3> QED BY <3>1, <3>2
  <2>3. Good(WithCancelling(c, Nobody)) /\ StageFits(WithCancelling(c, Nobody), stage2)
    BY <2>2, MarkedIsGood
  <2> QED BY <1>7, <2>3, StoringKeeps
<1>8. ASSUME t.status = "active.tendering", Store(EndOfTendering(t)) PROVE Kept
  <2>1. stage2 = NoStage2
    BY <1>2, <1>3, <1>8, NoStageYet
  <2>2. Good(EndOfTendering(t)) /\ StageFits(EndOfTendering(t), stage2)
    BY <1>2, <1>8, <2>1, EndOfTenderingIsGood, StageUnbegun
  <2> QED BY <1>8, <2>2, StoringKeeps
<1>9. ASSUME t.status = "active.pre-qualification.stand-still", Holding(t) = {}, Store(EndOfStandStill(t)) PROVE Kept
  <2>1. stage2 = NoStage2
    BY <1>2, <1>3, <1>9, NoStageYet
  <2>2. Good(EndOfStandStill(t)) /\ StageFits(EndOfStandStill(t), stage2)
    BY <1>2, <1>9, <2>1, EndOfStandStillIsGood, StageUnbegun
  <2> QED BY <1>9, <2>2, StoringKeeps
<1> QED BY <1>2, <1>6, <1>7, <1>8, <1>9, StoringKeeps

LEMMA Stage1Keeps ==
  ASSUME Good(tender), StageFits(tender, stage2), Next
  PROVE  Kept
BY BidderKeeps, OwnerKeeps, ComplainingKeeps, CheckStatusKeeps, TimeKeeps DEF Next, Chronograph

-----------------------------------------------------------------------------
(* The second stage.                                                       *)

\* The first stage has a status that only its owner or the bridge gives it.
LEMMA PatchStage1Keeps ==
  ASSUME Good(tender), StageFits(tender, stage2),
         NEW x \in {"active.stage2.waiting", "active.pre-qualification.stand-still"}, PatchStage1(x)
  PROVE  Kept
<1>1. tender.status = "active.stage2.pending"
  BY DEF PatchStage1
<1>2. PICK r : r = WithStatus(tender, x)
  OBVIOUS
<1>3. Store(r)
  BY <1>2, Zenon DEF PatchStage1, WithStatus
<1>4. Form(tender) /\ DialogueFits(tender) /\ ReviewOver(tender)
  BY DEF Good
<1>5. HasFields(r, tender.kind, x, tender.lots, tender.over, tender.standStill,
                tender.bids, tender.quals, tender.complaints, tender.cancelling, tender.withdrawn)
  BY <1>2, <1>4, FormTypes, Rewritten, Zenon
<1>6. /\ Form(r) /\ r.kind = tender.kind /\ r.lots = tender.lots /\ r.bids = tender.bids
      /\ r.quals = tender.quals /\ r.status = x /\ r.complaints = tender.complaints
  <2>1. x \in Statuses
    BY DEF Statuses, Reviewing
  <2> QED BY <1>4, <1>5, <2>1, FormTypes, FormKept DEF HasFields
<1>7. AllReviewed(tender) /\ tender.kind = "dialogue" /\ tender.status \in Competing
  BY <1>1, <1>4, StatusOrder DEF ReviewOver, DialogueFits
<1>8. \A p : Undisputed(tender, p) => Undisputed(r, p)
  BY <1>6, Zenon DEF Undisputed
<1>9. x \in Reviewing \cup Competing
  BY StatusOrder
<1>10. Good(r)
  BY <1>6, <1>7, <1>8, <1>9, MovedOnIsGood
<1>11. stage2 = NoStage2
  <2>1. tender.status \notin Finished /\ tender.status # "active.stage2.waiting"
    BY <1>1 DEF Finished
  <2> QED BY <2>1, NoStageYet
<1>12. StageFits(r, stage2)
  BY <1>11, StageUnbegun
<1> QED BY <1>3, <1>10, <1>12, StoringKeeps

LEMMA CompleteStage1Keeps ==
  ASSUME Good(tender), StageFits(tender, stage2), CompleteStage1
  PROVE  Kept
<1>1. tender.status = "active.stage2.waiting"
  BY DEF CompleteStage1
<1>2. PICK r : r = WithStatus(tender, "complete")
  OBVIOUS
<1>3. Store(r)
  BY <1>2, Zenon DEF CompleteStage1, WithStatus
<1>4. Form(tender) /\ DialogueFits(tender)
  BY DEF Good
<1>5. HasFields(r, tender.kind, "complete", tender.lots, tender.over, tender.standStill,
                tender.bids, tender.quals, tender.complaints, tender.cancelling, tender.withdrawn)
  BY <1>2, <1>4, FormTypes, Rewritten, Zenon
<1>6. /\ Form(r) /\ r.kind = tender.kind /\ r.lots = tender.lots /\ r.bids = tender.bids
      /\ r.quals = tender.quals /\ r.status = "complete"
  <2>1. "complete" \in Statuses
    BY DEF Statuses, Finished
  <2> QED BY <1>4, <1>5, <2>1, FormTypes, FormKept DEF HasFields
<1>7. r.status \in Finished
  BY <1>6 DEF Finished
<1>8. Good(r)
  <2>1. DialogueFits(r)
    BY <1>4, <1>6 DEF DialogueFits
  <2> QED BY <1>6, <1>7, <2>1, FinishedIsGood
<1>9. StageFits(r, stage2)
  <2>1. Parts(r) = Parts(tender) /\ ActiveParts(r) = ActiveParts(tender)
    BY <1>6, ReadAlike
  <2>2. tender.status # "cancelled"
    BY <1>1
  <2> QED BY <1>6, <1>7, <2>1, <2>2, Zenon DEF StageFits, Listed
<1> QED BY <1>3, <1>8, <1>9, StoringKeeps

\* The bridge makes the second stage of those who are admitted.
LEMMA CreateStage2Keeps ==
  ASSUME Good(tender), StageFits(tender, stage2), CreateStage2
  PROVE  StageFits(tender, stage2')
<1>1. tender.status = "active.stage2.waiting"
  BY DEF CreateStage2
<1>2. stage2' = [status |-> "draft", shortlist |-> Admitted(tender), bid |-> {}, credentials |-> FALSE]
  BY DEF CreateStage2
<1>3. stage2'.shortlist = Admitted(tender) /\ Second(stage2')
  BY <1>2 DEF Second
<1>4. Form(tender) /\ DialogueFits(tender)
  BY DEF Good
<1>5. ASSUME NEW k \in Admitted(tender)
      PROVE  /\ k \in Firms \X Parts(tender)
             /\ \E b \in Bids : tender.bids[b].firm = k[1]
                                /\ (k[2] \in ActiveParts(tender) => tender.quals[b][k[2]] = "active")
  <2>1. PICK p \in ActiveParts(tender) :
          k \in {<<tender.bids[b].firm, p>> : b \in {b \in InPlay(tender, p) : tender.quals[b][p] = "active"}}
    BY DEF Admitted
  <2>2. PICK b \in InPlay(tender, p) : k = <<tender.bids[b].firm, p>> /\ tender.quals[b][p] = "active"
    BY <2>1
  <2>3. b \in Bids /\ tender.bids[b].status # Nobody
    BY NobodyAssumption DEF InPlay
  <2>4. tender.bids[b].firm \in Firms
    BY <1>1, <1>4, <2>3 DEF DialogueFits
  <2>5. p \in Parts(tender)
    BY <1>4, FormFields
  <2> QED BY <2>2, <2>3, <2>4, <2>5
<1>6. Listed(tender, stage2'.shortlist)
  BY <1>3, <1>5 DEF Listed
<1>7. stage2'.shortlist \subseteq Firms \X Parts(tender)
  BY <1>3, <1>5
<1> QED BY <1>1, <1>3, <1>6, <1>7, Zenon DEF StageFits

\* What happens in the second stage leaves the short list alone.
LEMMA Stage2Kept ==
  ASSUME NEW t, NEW s, StageFits(t, s), NEW r, s # NoStage2, Second(r), r.shortlist = s.shortlist
  PROVE  StageFits(t, r)
BY Zenon DEF StageFits

LEMMA Stage2Keeps ==
  ASSUME Good(tender), StageFits(tender, stage2), OpenStage2 \/ Stage2
  PROVE  tender' = tender /\ StageFits(tender, stage2')
<1> USE NobodyAssumption
<1>1. ASSUME stage2.status # Nobody PROVE stage2 # NoStage2 /\ Second(stage2)
  <2>1. stage2 # NoStage2
    BY <1>1 DEF NoStage2
  <2> QED BY <2>1, Zenon DEF StageFits
<1>2. ASSUME stage2.status # Nobody, NEW v \in {"draft", "draft.stage2", "active.tendering"}
      PROVE  StageFits(tender, [stage2 EXCEPT !.status = v])
  <2>1. Second(stage2)
    BY <1>1, <1>2
  <2>2. LET r == [stage2 EXCEPT !.status = v] IN Second(r) /\ r.shortlist = stage2.shortlist
    BY <2>1 DEF Second
  <2> QED BY <1>1, <1>2, <2>2, Stage2Kept
<1>3. ASSUME stage2.status # Nobody, NEW v PROVE StageFits(tender, [stage2 EXCEPT !.bid = v])
  <2>1. Second(stage2)
    BY <1>1, <1>3
  <2>2. LET r == [stage2 EXCEPT !.bid = v] IN Second(r) /\ r.shortlist = stage2.shortlist
    BY <2>1 DEF Second
  <2> QED BY <1>1, <1>3, <2>2, Stage2Kept
<1>4. ASSUME stage2.status # Nobody, NEW v PROVE StageFits(tender, [stage2 EXCEPT !.credentials = v])
  <2>1. Second(stage2)
    BY <1>1, <1>4
  <2>2. LET r == [stage2 EXCEPT !.credentials = v] IN Second(r) /\ r.shortlist = stage2.shortlist
    BY <2>1 DEF Second
  <2> QED BY <1>1, <1>4, <2>2, Stage2Kept
<1>5. CASE OpenStage2
  BY <1>2, <1>5 DEF OpenStage2
<1>6. CASE GenerateCredentials
  <2>1. PICK v : v = TRUE
    OBVIOUS
  <2>2. stage2' = [stage2 EXCEPT !.credentials = v] /\ tender' = tender /\ stage2.status # Nobody
    BY <1>6, <2>1 DEF GenerateCredentials
  <2> QED BY <1>4, <2>2
<1>7. CASE PublishStage2
  BY <1>2, <1>7 DEF PublishStage2
<1>8. CASE \E f \in Firms, ls \in SUBSET Parts(tender) \ {{}} : PostBid2(f, ls) \/ PatchBid2(f, ls)
  BY <1>3, <1>8 DEF PostBid2, PatchBid2
<1> QED BY <1>5, <1>6, <1>7, <1>8 DEF Stage2

-----------------------------------------------------------------------------
(* The first part keeps its invariant.                                     *)

LEMMA PublishedIsGood ==
  ASSUME NEW kind \in {"EU", "dialogue"}, NEW ls \in {{}, Lots}
  PROVE  Good(Published(kind, ls))
<1>1. PICK t : t = Published(kind, ls)
  OBVIOUS
<1>2. PICK lots, bids, quals :
        /\ lots = [l \in ls |-> "active"] /\ bids = [b \in Bids |-> NoBid(ls)]
        /\ quals = [b \in Bids |-> [p \in PartsOf(ls) |-> Nobody]]
  OBVIOUS
<1>3. t = [kind |-> kind, status |-> "active.tendering", lots |-> lots,
           over |-> FALSE, standStill |-> "unset", bids |-> bids, quals |-> quals,
           complaints |-> <<>>, cancelling |-> Nobody, withdrawn |-> FALSE]
  BY <1>1, <1>2, Zenon DEF Published, PartsOf
<1>4. HasFields(t, kind, "active.tendering", lots, FALSE, "unset", bids, quals, <<>>, Nobody, FALSE)
  BY <1>3, RecordMade
<1>5. /\ DOMAIN lots = ls /\ lots \in [DOMAIN lots -> LotStatus] /\ ls \subseteq Lots
      /\ bids \in [Bids -> BidOf(DOMAIN lots)]
      /\ quals \in [Bids -> [PartsOf(DOMAIN lots) -> QualStatus]]
  BY <1>2, NoBidMade DEF LotStatus, QualStatus, ValueStatus
<1>6. <<>> \in Seq(ComplaintOf(PartsOf(DOMAIN lots)))
  BY EmptySeq
<1>7. t.kind = kind /\ t.status = "active.tendering" /\ t.lots = lots /\ t.bids = bids /\ t.quals = quals
  BY <1>4, Zenon DEF HasFields
<1>8. Form(t)
  <2>1. "active.tendering" \in Statuses
    BY DEF Statuses
  <2> QED BY <1>4, <1>5, <1>6, <2>1 DEF Form, HasFields
<1>9. \A b \in Bids : t.bids[b] = NoBid(ls) /\ t.bids[b].status = Nobody
  BY <1>2, <1>7, NoBidMade
<1>10. DialogueFits(t)
  BY <1>7, <1>9 DEF DialogueFits
<1>11. Parts(t) = PartsOf(ls)
  BY <1>5, <1>7, <1>8, FormFields
<1>12. \A b \in Bids : \A p \in Parts(t) : t.quals[b][p] = Nobody
  BY <1>2, <1>7, <1>11
<1>13. TenderingFits(t)
  <2>1. Undecidedly(NoBid(ls))
    BY DEF Undecidedly, NoBid
  <2> QED BY <1>9, <1>12, <2>1 DEF TenderingFits
<1>14. t.status \notin Reviewing \cup Competing \cup {"active.pre-qualification.stand-still"}
  BY <1>7, StatusOrder
<1>15. ReviewFits(t) /\ ReviewOver(t) /\ Enough(t)
  BY <1>14 DEF ReviewFits, ReviewOver, Enough
<1> QED BY <1>1, <1>8, <1>10, <1>13, <1>15 DEF Good

LEMMA FirstPartKeeps ==
  ASSUME Good(tender), StageFits(tender, stage2), AllNext
  PROVE  Good(tender') /\ StageFits(tender', stage2')
<1>1. CASE Stage1
  <2>1. Kept
    BY <1>1, Stage1Keeps DEF Stage1
  <2> QED BY <1>1, <2>1, Zenon DEF Stage1, Kept
<1>2. CASE CreateStage2
  <2>1. StageFits(tender, stage2')
    BY <1>2, CreateStage2Keeps
  <2> QED BY <1>2, <2>1, Zenon DEF CreateStage2
<1>3. CASE CompleteStage1
  <2>1. Kept
    BY <1>3, CompleteStage1Keeps
  <2> QED BY <1>3, <2>1, Zenon DEF CompleteStage1, Kept
<1>4. CASE OpenStage2 \/ Stage2
  BY <1>4, Stage2Keeps, Zenon
<1>5. ASSUME NEW x \in {"active.stage2.waiting", "active.pre-qualification.stand-still"}, PatchStage1(x)
      PROVE  Good(tender') /\ StageFits(tender', stage2')
  <2>1. Kept
    BY <1>5, PatchStage1Keeps
  <2> QED BY <1>5, <2>1, Zenon DEF PatchStage1, Kept
<1> QED BY <1>1, <1>2, <1>3, <1>4, <1>5 DEF AllNext, Bridge

LEMMA ReviewInv ==
  AboveInit /\ [][AboveNext]_vars => []ReviewIInv
<1>1. ASSUME AboveInit PROVE ReviewIInv
  <2>1. ASSUME AllInit PROVE Good(tender) /\ StageFits(tender, stage2)
    BY <2>1, PublishedIsGood, StageUnbegun DEF AllInit, Init
  <2> QED BY <1>1, <2>1 DEF AboveInit, ReviewIInv
<1>2. ASSUME ReviewIInv, [AboveNext]_vars PROVE ReviewIInv'
  <2>1. CASE FirstPart
    <3>1. Good(tender') /\ StageFits(tender', stage2')
      BY <1>2, <2>1, FirstPartKeeps, Zenon DEF FirstPart, ReviewIInv
    <3> QED BY <3>1, Zenon DEF ReviewIInv
  <2>2. CASE Auction
    <3>1. tender' = NotFollowed
      BY <2>2, Zenon DEF Auction
    <3> QED BY <3>1, Zenon DEF ReviewIInv, NotFollowed
  <2>3. CASE LastPart \/ UNCHANGED vars
    <3>1. tender' = tender /\ stage2' = stage2
      BY <2>3, Zenon DEF LastPart, vars
    <3> QED BY <1>2, <3>1, Zenon DEF ReviewIInv, NotFollowed
  <2> QED BY <1>2, <2>1, <2>2, <2>3, Zenon DEF AboveNext
<1> QED BY <1>1, <1>2, PTL

-----------------------------------------------------------------------------
(* What it says of the first part.                                         *)

LEMMA TypesFollow ==
  ASSUME NEW t, Form(t)
  PROVE  /\ t.kind \in {"EU", "dialogue"} /\ t.status \in Statuses
         /\ t.over \in BOOLEAN /\ t.standStill \in {"unset", "running", "over"}
         /\ Range(t.lots) \subseteq LotStatus
         /\ \A b \in Bids :
              /\ t.bids[b].status \in Final \cup {"pending", "active"}
              /\ t.bids[b].firm \in Firms \cup {Nobody}
              /\ Range(t.bids[b].values) \subseteq ValueStatus
              /\ Range(t.quals[b]) \subseteq QualStatus
         /\ \A k \in Nth(t.complaints) : t.complaints[k] \in ComplaintOf(Parts(t))
         /\ t.cancelling \in Parts(t) \cup {Whole, Nobody} /\ t.withdrawn \in BOOLEAN
<1>1. Range(t.lots) \subseteq LotStatus
  <2>1. t.lots \in [DOMAIN t.lots -> LotStatus]
    BY FormFields
  <2> QED BY <2>1 DEF Range
<1>2. ASSUME NEW b \in Bids
      PROVE  /\ t.bids[b].status \in Final \cup {"pending", "active"}
             /\ t.bids[b].firm \in Firms \cup {Nobody}
             /\ Range(t.bids[b].values) \subseteq ValueStatus
             /\ Range(t.quals[b]) \subseteq QualStatus
  <2>1. t.bids[b] \in BidOf(DOMAIN t.lots) /\ t.quals[b] \in [Parts(t) -> QualStatus]
    BY FormFields
  <2>2. Range(t.quals[b]) \subseteq QualStatus
    BY <2>1 DEF Range
  <2>3. t.bids[b].values \in [DOMAIN t.lots -> ValueStatus]
    BY <2>1, BidFields
  <2>4. Range(t.bids[b].values) \subseteq ValueStatus
    BY <2>3 DEF Range
  <2> QED BY <2>1, <2>2, <2>4, BidFields
<1>3. \A k \in Nth(t.complaints) : t.complaints[k] \in ComplaintOf(Parts(t))
  <2>1. t.complaints \in Seq(ComplaintOf(Parts(t)))
    BY FormFields
  <2> QED BY <2>1 DEF Nth
<1> QED BY <1>1, <1>2, <1>3, FormFields, Zenon DEF Form

LEMMA ReviewTypes ==
  ASSUME Good(tender), StageFits(tender, stage2)
  PROVE  AllTypeOK
<1>1. TypeOK
  <2>1. Form(tender)
    BY DEF Good
  <2> QED BY <2>1, TypesFollow DEF TypeOK, Statuses, LotStatus, ValueStatus, QualStatus, ComplaintOf
<1>2. CASE stage2 = NoStage2
  BY <1>1, <1>2 DEF AllTypeOK, NoStage2
<1>3. CASE stage2 # NoStage2
  BY <1>1, <1>3 DEF AllTypeOK, StageFits, Second
<1> QED BY <1>2, <1>3

\* Bids stand as they were decided about, whatever was decided before; nothing
\* open is left behind a lot that is given up or cancelled; and every field has
\* a value that the models of the code allow (the handlers of bids,
\* qualifications and cancellations, and check_status).
THEOREM QualificationsAreSound ==
  AboveInit /\ [][AboveNext]_vars => []QualificationSound
<1>1. ReviewIInv => QualificationSound
  <2> SUFFICES ASSUME Good(tender), StageFits(tender, stage2)
               PROVE  AllTypeOK /\ DecisionsStand /\ ClosedLotsAreClosed
    BY DEF ReviewIInv, QualificationSound
  <2>1. Form(tender) /\ ReviewFits(tender)
    BY DEF Good
  <2>2. DecisionsStand
    <3> SUFFICES ASSUME tender.status \in Reviewing \cup Competing,
                        NEW p \in ActiveParts(tender), NEW b \in Bids, tender.quals[b][p] # Nobody
                 PROVE  tender.quals[b][p] = IF HasLots(tender) THEN tender.bids[b].values[p]
                                                               ELSE tender.bids[b].status
      BY DEF DecisionsStand
    <3>1. p \in Parts(tender)
      BY DEF ActiveParts
    <3>2. QualFits(tender, b, p)
      BY <2>1, <3>1, Zenon DEF ReviewFits
    <3> QED BY <3>2 DEF QualFits, ValueOf
  <2>3. ClosedLotsAreClosed
    <3>1. "active.auction" \in Competing
      BY StatusOrder
    <3> SUFFICES ASSUME tender.status \in Reviewing \cup Competing,
                        NEW b \in Bids, NEW p \in Parts(tender) \ ActiveParts(tender)
                 PROVE  ClosedQual(tender, b, p)
      BY <3>1 DEF ClosedLotsAreClosed, ClosedQual
    <3> QED BY <2>1, Zenon DEF ReviewFits
  <2> QED BY <2>2, <2>3, ReviewTypes
<1> QED BY <1>1, ReviewInv, PTL

\* Who competes was admitted by a decision that no undecided complaint calls into
\* question, every open lot has enough such bids (check_initial_bids_count, asked
\* again after the stand-still), and whom the bridge puts on the short list of
\* the second stage was admitted in the first.
THEOREM CompetitionsAreSound ==
  AboveInit /\ [][AboveNext]_vars => []CompetitionSound
<1>1. ReviewIInv => CompetitionSound
  <2> SUFFICES ASSUME Good(tender), StageFits(tender, stage2)
               PROVE  CompetitionIsSound /\ ShortlistIsAdmitted
    BY DEF ReviewIInv, CompetitionSound
  <2>1. Form(tender) /\ ReviewOver(tender) /\ Enough(tender)
    BY DEF Good
  <2>2. Nth(tender.complaints) = DOMAIN tender.complaints
    <3>1. tender.complaints \in Seq(ComplaintOf(Parts(tender)))
      BY <2>1, FormFields
    <3> QED BY <3>1 DEF Nth
  <2>3. CompetitionIsSound
    <3> SUFFICES ASSUME tender.status \in Competing
                 PROVE  /\ AllReviewed(tender)
                        /\ \A p \in ActiveParts(tender) :
                             Cardinality(AdmittedTo(tender, p)) >= MinBids /\ Undisputed(tender, p)
      BY <2>2 DEF CompetitionIsSound, AdmittedTo, Undisputed
    <3> QED BY <2>1 DEF ReviewOver, Enough
  <2>4. ShortlistIsAdmitted
    BY DEF ShortlistIsAdmitted, StageFits, Listed
  <2> QED BY <2>3, <2>4
<1> QED BY <1>1, ReviewInv, PTL

\* Dropping the drafts closes no dispute, and changes nothing without one.
LEMMA DraftsDropped ==
  ASSUME NEW t, Form(t), NEW r, r = WithoutDraftComplaints(t)
  PROVE  /\ r.status = t.status /\ r.lots = t.lots /\ r.standStill = t.standStill
         /\ DOMAIN r.complaints = DOMAIN t.complaints
         /\ \A k \in DOMAIN t.complaints :
              /\ r.complaints[k].about = t.complaints[k].about
              /\ t.complaints[k].status \in Undecided => r.complaints[k].status \in Undecided
         /\ r # t => /\ t.standStill = "over"
                     /\ \E k \in DOMAIN t.complaints : t.complaints[k].status = "draft"
<1>1. CASE t.standStill # "over"
  BY <1>1 DEF WithoutDraftComplaints
<1>2. CASE t.standStill = "over"
  <2> DEFINE Moved(c) == ReBidStatus(c, Mistaken(c.status))
  <2>1. PICK co : co = [k \in DOMAIN t.complaints |-> Moved(t.complaints[k])]
    OBVIOUS
  <2>2. t.complaints \in Seq(ComplaintOf(Parts(t)))
    BY FormFields
  <2>3. ASSUME NEW c \in ComplaintOf(Parts(t))
        PROVE  /\ Moved(c).about = c.about
               /\ c.status \in Undecided => Moved(c).status \in Undecided
               /\ c.status # "draft" => Moved(c) = c
    BY DEF ReBidStatus, ComplaintOf, Mistaken, Undecided
  <2> HIDE DEF Moved
  <2>4. \A k \in DOMAIN t.complaints : t.complaints[k] \in ComplaintOf(Parts(t))
    BY <2>2
  <2>5. r = WithComplaints(t, co)
    BY <1>2, <2>1, Zenon DEF WithoutDraftComplaints, WithComplaints, Moved, ReBidStatus, Nth
  <2>6. Record(t)
    BY DEF Form
  <2>7. HasFields(WithComplaints(t, co), t.kind, t.status, t.lots, t.over, t.standStill,
                  t.bids, t.quals, co, t.cancelling, t.withdrawn)
    BY <2>6, Rewritten, Zenon
  <2>8. r.status = t.status /\ r.lots = t.lots /\ r.standStill = t.standStill /\ r.complaints = co
    BY <2>5, <2>7, Zenon DEF HasFields
  <2>9. ASSUME \A k \in DOMAIN t.complaints : t.complaints[k].status # "draft" PROVE r = t
    <3>1. co = [k \in DOMAIN t.complaints |-> t.complaints[k]]
      BY <2>1, <2>3, <2>4, <2>9
    <3>2. co = t.complaints
      BY <2>2, <3>1
    <3>3. PICK a, b, c, d, e, f, g, h, i, j :
            /\ t = [kind |-> a, status |-> b, lots |-> c, over |-> d, standStill |-> e, bids |-> f,
                    quals |-> g, complaints |-> h, cancelling |-> i, withdrawn |-> j]
            /\ h = t.complaints
      BY <2>6 DEF Record
    <3>4. WithComplaints(t, co) = t
      BY <3>2, <3>3 DEF WithComplaints
    <3> QED BY <2>5, <3>4
  <2> QED BY <1>2, <2>1, <2>3, <2>4, <2>8, <2>9
<1> QED BY <1>1, <1>2

LEMMA ReviewIsRemembered ==
  ASSUME Good(tender), StageFits(tender, stage2)
  PROVE  NothingIsForgotten
<1>1. Form(tender) /\ Record(tender)
  BY DEF Good, Form
<1>2. PICK v : v = TRUE
  OBVIOUS
<1>3. PICK x : x = IF tender.standStill = "running" THEN "over" ELSE tender.standStill
  OBVIOUS
<1>4. x \in {"unset", "running", "over"} /\ (x = "over" => tender.standStill # "unset")
  BY <1>1, <1>3 DEF Form
<1>5. PICK u : u = WithOver(tender, v)
  OBVIOUS
<1>6. PICK e : e = WithStandStill(u, x)
  OBVIOUS
<1>7. HasFields(u, tender.kind, tender.status, tender.lots, v, tender.standStill,
                tender.bids, tender.quals, tender.complaints, tender.cancelling, tender.withdrawn)
  BY <1>1, <1>5, Rewritten, Zenon
<1>8. HasFields(e, tender.kind, tender.status, tender.lots, v, x,
                tender.bids, tender.quals, tender.complaints, tender.cancelling, tender.withdrawn)
  <2>1. Record(u)
    BY <1>7, Zenon DEF HasFields
  <2>2. HasFields(e, u.kind, u.status, u.lots, u.over, x,
                  u.bids, u.quals, u.complaints, u.cancelling, u.withdrawn)
    BY <1>6, <2>1, Rewritten, Zenon
  <2> QED BY <1>7, <2>2, Zenon DEF HasFields
<1>9. Form(e)
  <2>1. v \in BOOLEAN
    BY <1>2
  <2> QED BY <1>1, <1>4, <1>8, <2>1, Zenon DEF Form, HasFields
<1>10. e = [tender EXCEPT !.over = TRUE, !.standStill = IF @ = "running" THEN "over" ELSE @]
  <2>1. u = [tender EXCEPT !.over = TRUE]
    BY <1>2, <1>5, Zenon DEF WithOver
  <2>2. u.standStill = tender.standStill
    BY <1>7, Zenon DEF HasFields
  <2>3. e = [u EXCEPT !.standStill = x]
    BY <1>6, Zenon DEF WithStandStill
  <2> QED BY <1>3, <2>1, <2>2, <2>3
<1>11. PICK t : t = WithoutDraftComplaints(e)
  OBVIOUS
<1>12. /\ t.status = tender.status /\ t.lots = tender.lots /\ t.standStill = x
       /\ DOMAIN t.complaints = DOMAIN tender.complaints
       /\ \A k \in DOMAIN tender.complaints :
            /\ t.complaints[k].about = tender.complaints[k].about
            /\ tender.complaints[k].status \in Undecided => t.complaints[k].status \in Undecided
       /\ t # e => x = "over" /\ \E k \in DOMAIN tender.complaints : tender.complaints[k].status = "draft"
  <2>1. e.status = tender.status /\ e.lots = tender.lots /\ e.standStill = x /\ e.complaints = tender.complaints
    BY <1>8, Zenon DEF HasFields
  <2> QED BY <1>9, <1>11, <2>1, DraftsDropped
<1>13. CASE t # e
  BY <1>4, <1>12, <1>13, Zenon DEF next_check, NothingIsForgotten, Nth
<1>14. CASE /\ tender.status = "active.pre-qualification.stand-still"
            /\ t.standStill = "over" /\ Holding(t) = {}
  <2>1. ASSUME NEW k \in DOMAIN tender.complaints, tender.complaints[k].about \in ActiveParts(tender)
        PROVE  tender.complaints[k].status \notin Undecided
    <3>1. ActiveParts(t) = ActiveParts(tender)
      BY <1>12, ReadAlike
    <3>2. t.complaints[k].about \in ActiveParts(t)
      BY <1>12, <2>1, <3>1
    <3>3. k \in DOMAIN t.complaints
      BY <1>12
    <3>4. t.complaints[k].status \in Undecided => k \in Holding(t)
      BY <3>2, <3>3, Zenon DEF Holding, Nth
    <3> QED BY <1>12, <1>14, <3>4
  <2>2. next_check(tender)
    BY <1>4, <1>12, <1>14, <2>1, Zenon DEF next_check, Nth
  <2> QED BY <2>2, Zenon DEF NothingIsForgotten
<1>15. CASE (tender.cancelling # Nobody /\ ~ tender.withdrawn) \/ tender.status = "active.tendering"
  BY <1>15, Zenon DEF next_check, NothingIsForgotten
<1> QED BY <1>10, <1>11, <1>12, <1>13, <1>14, <1>15, Zenon DEF NothingIsForgotten

-----------------------------------------------------------------------------
(* What the chronograph would do of a tender that is being awarded.        *)

\* Once the periods that run have ended.
RunOut(aw) ==
  [i \in DOMAIN aw |-> RePeriod(aw[i], IF aw[i].period = "running" THEN "over" ELSE aw[i].period)]

LEMMA AwardsRunOut ==
  ASSUME NEW aw \in Seq(Award), aw # << >>
  PROVE  /\ RunOut(aw) \in Seq(Award) \ {<< >>} /\ Len(RunOut(aw)) = Len(aw) /\ Len(aw) \in Nat
         /\ \A i \in 1 .. Len(aw) :
              /\ RunOut(aw)[i].bid = aw[i].bid /\ RunOut(aw)[i].status = aw[i].status
              /\ RunOut(aw)[i].contract = aw[i].contract /\ RunOut(aw)[i].complaint = aw[i].complaint
              /\ RunOut(aw)[i].period = IF aw[i].period = "running" THEN "over" ELSE aw[i].period
<1> DEFINE Ran(a) == RePeriod(a, IF a.period = "running" THEN "over" ELSE a.period)
           bw == [i \in DOMAIN aw |-> Ran(aw[i])]
<1>1. DOMAIN aw = 1 .. Len(aw) /\ Len(aw) \in Nat /\ Len(aw) # 0
      /\ \A i \in 1 .. Len(aw) : aw[i] \in Award
  OBVIOUS
<1>2. ASSUME NEW a \in Award
      PROVE  /\ Ran(a) \in Award /\ Ran(a).bid = a.bid /\ Ran(a).status = a.status
             /\ Ran(a).contract = a.contract /\ Ran(a).complaint = a.complaint
             /\ Ran(a).period = IF a.period = "running" THEN "over" ELSE a.period
  <2>1. PICK v : v = IF a.period = "running" THEN "over" ELSE a.period
    OBVIOUS
  <2>2. v \in {"unset", "running", "over"}
    <3>1. a.period \in {"unset", "running", "over"}
      BY AwardFields
    <3> QED BY <2>1, <3>1
  <2>3. AwardIs(RePeriod(a, v), a.bid, a.status, v, a.contract, a.complaint)
    BY <2>2, AwardChangedFields, Zenon
  <2> QED BY <2>1, <2>3, Zenon DEF AwardIs
<1>3. RunOut(aw) = bw
  BY Zenon DEF RunOut
<1> HIDE DEF Ran
<1>4. bw \in [1 .. Len(aw) -> Award] /\ \A i \in 1 .. Len(aw) : bw[i] = Ran(aw[i])
  BY <1>1, <1>2
<1> HIDE DEF bw
<1>5. bw \in Seq(Award) /\ Len(bw) = Len(aw)
  BY <1>1, <1>4
<1>6. bw # << >>
  BY <1>1, <1>5
<1> QED BY <1>1, <1>2, <1>3, <1>4, <1>5, <1>6

LEMMA RunOutInTurn ==
  ASSUME NEW aw \in Seq(Award), aw # << >>, InTurn(aw), BestLeft(aw)
  PROVE  /\ InTurn(RunOut(aw)) /\ BestLeft(RunOut(aw)) /\ LeftIn(RunOut(aw)) = LeftIn(aw)
         /\ SignedIn(RunOut(aw)) <=> SignedIn(aw)
         /\ DisputedIn(RunOut(aw)) <=> DisputedIn(aw)
         /\ ~ RunningIn(RunOut(aw))
<1>1. PICK bw : bw = RunOut(aw)
  OBVIOUS
<1>2. /\ Len(bw) = Len(aw) /\ Len(aw) \in Nat
      /\ \A i \in 1 .. Len(aw) :
           /\ bw[i].bid = aw[i].bid /\ bw[i].status = aw[i].status
           /\ bw[i].contract = aw[i].contract /\ bw[i].complaint = aw[i].complaint
           /\ bw[i].period = IF aw[i].period = "running" THEN "over" ELSE aw[i].period
  BY <1>1, AwardsRunOut
<1>3. \A i \in 1 .. Len(aw) : bw[i].period # "running"
  BY <1>2
<1>4. InTurn(bw)
  <2> SUFFICES ASSUME NEW i \in 1 .. Len(aw)
               PROVE  /\ bw[i].status \in Live => i = Len(bw)
                      /\ bw[i].status = "active" <=> bw[i].contract \in {"pending", "active"}
                      /\ bw[i].status = "pending" => bw[i].period = "unset" /\ bw[i].contract = "none"
                      /\ bw[i].status \in {"active", "unsuccessful"} => bw[i].period # "unset"
                      /\ bw[i].contract = "active" => bw[i].period = "over"
                      /\ bw[i].period = "over" /\ bw[i].status # "cancelled" =>
                           \A j \in 1 .. i - 1 : bw[j].period # "running"
    BY <1>2, Zenon DEF InTurn
  <2>1. \A j \in 1 .. i - 1 : j \in 1 .. Len(aw)
    BY <1>2
  <2>2. /\ aw[i].status \in Live => i = Len(aw)
        /\ aw[i].status = "active" <=> aw[i].contract \in {"pending", "active"}
        /\ aw[i].status = "pending" => aw[i].period = "unset" /\ aw[i].contract = "none"
        /\ aw[i].status \in {"active", "unsuccessful"} => aw[i].period # "unset"
        /\ aw[i].contract = "active" => aw[i].period = "over"
    BY Zenon DEF InTurn
  <2> QED BY <1>2, <1>3, <2>1, <2>2
<1>5. LeftIn(bw) = LeftIn(aw)
  <2>1. RejectedIn(bw) = RejectedIn(aw)
    BY <1>2 DEF RejectedIn
  <2> QED BY <2>1 DEF LeftIn
<1>6. BestLeft(bw)
  BY <1>2, <1>5, Zenon DEF BestLeft
<1>7. /\ SignedIn(bw) <=> SignedIn(aw)
      /\ DisputedIn(bw) <=> DisputedIn(aw)
      /\ ~ RunningIn(bw)
  BY <1>2, <1>3, Zenon DEF SignedIn, DisputedIn, RunningIn
<1> QED BY <1>1, <1>4, <1>5, <1>6, <1>7

LEMMA RunOutSound ==
  ASSUME NEW t, Sound(t), NEW e, e = WithAwards(t, [p \in DOMAIN t.awards |-> RunOut(t.awards[p])])
  PROVE  /\ Sound(e) /\ e.status = t.status /\ e.lots = t.lots /\ e.cancelling = t.cancelling
         /\ DOMAIN e.awards = DOMAIN t.awards
         /\ \A p \in DOMAIN t.awards : e.awards[p] = RunOut(t.awards[p])
         /\ \A p : IsOpen(e, p) <=> IsOpen(t, p)
<1> DEFINE aws == [p \in DOMAIN t.awards |-> RunOut(t.awards[p])]
<1>1. Shape(t)
  BY DEF Sound, Steady
<1>2. \A p \in DOMAIN t.awards :
        /\ aws[p] = RunOut(t.awards[p])
        /\ aws[p] \in Seq(Award) \ {<< >>}
        /\ InTurn(aws[p]) /\ BestLeft(aws[p]) /\ LeftIn(aws[p]) = LeftIn(t.awards[p])
        /\ SignedIn(aws[p]) <=> SignedIn(t.awards[p])
        /\ DisputedIn(aws[p]) <=> DisputedIn(t.awards[p])
        /\ ~ RunningIn(aws[p])
        /\ aws[p][Len(aws[p])].status = t.awards[p][Len(t.awards[p])].status
  <2> SUFFICES ASSUME NEW p \in DOMAIN t.awards, NEW aw, aw = t.awards[p], NEW bw, bw = RunOut(aw)
               PROVE  /\ bw \in Seq(Award) \ {<< >>}
                      /\ InTurn(bw) /\ BestLeft(bw) /\ LeftIn(bw) = LeftIn(aw)
                      /\ SignedIn(bw) <=> SignedIn(aw)
                      /\ DisputedIn(bw) <=> DisputedIn(aw)
                      /\ ~ RunningIn(bw)
                      /\ bw[Len(bw)].status = aw[Len(aw)].status
    BY Zenon
  <2>1. aw \in Seq(Award) /\ aw # << >> /\ Len(aw) \in 1 .. Len(aw)
    BY <1>1, AwardsOfPart
  <2>2. InTurn(aw) /\ BestLeft(aw)
    BY DEF Sound, Steady
  <2>3. bw \in Seq(Award) \ {<< >>} /\ bw[Len(bw)].status = aw[Len(aw)].status
    BY <2>1, AwardsRunOut
  <2> QED BY <2>1, <2>2, <2>3, RunOutInTurn
<1>3. aws \in [DOMAIN t.awards -> Seq(Award) \ {<< >>}] /\ DOMAIN aws = DOMAIN t.awards
  BY <1>2
<1> HIDE DEF aws
<1>4. /\ Shape(e) /\ e.status = t.status /\ e.lots = t.lots /\ e.awards = aws
      /\ e.cancelling = t.cancelling
      /\ \A p : OutcomeIn(e, p) = OutcomeIn(t, p) /\ (IsOpen(e, p) <=> IsOpen(t, p))
  <2>1. e = WithAwards(t, aws)
    BY DEF aws
  <2>2. ASSUME NEW r, r = WithAwards(t, aws)
        PROVE  /\ Shape(r) /\ r.status = t.status /\ r.lots = t.lots /\ r.awards = aws
               /\ r.cancelling = t.cancelling
               /\ \A p : OutcomeIn(r, p) = OutcomeIn(t, p) /\ (IsOpen(r, p) <=> IsOpen(t, p))
    BY <1>1, <1>3, <2>2, AwardsPut, Zenon
  <2> QED BY <2>1, <2>2, Zenon
<1>5. ASSUME NEW p \in DOMAIN t.awards PROVE ClosedFits(e, p)
  <2>1. ClosedFits(t, p)
    BY DEF Sound, Steady
  <2> QED BY <1>2, <1>4, <2>1, Zenon DEF ClosedFits
<1>6. Steady(e)
  BY <1>2, <1>3, <1>4, <1>5, Zenon DEF Steady
<1>7. Filled(e) /\ OpenUnsigned(e) /\ LotIsOpen(e)
  BY <1>2, <1>3, <1>4, Zenon DEF Sound, Filled, OpenUnsigned, LotIsOpen
<1> QED BY <1>2, <1>3, <1>4, <1>6, <1>7, Zenon DEF Sound

LEMMA SameDocument ==
  ASSUME NEW t, Document(t)
  PROVE  WithStatus(t, t.status) = t /\ WithLots(t, t.lots) = t /\ WithAwards(t, t.awards) = t
<1>1. PICK a, b, c, d, e, f :
        /\ t = [kind |-> a, status |-> b, lots |-> c, awards |-> d, cancelling |-> e, withdrawn |-> f]
        /\ b = t.status /\ c = t.lots /\ d = t.awards
  BY DEF Document
<1>2. WithStatus(t, b) = t /\ WithLots(t, c) = t /\ WithAwards(t, d) = t
  BY <1>1 DEF WithStatus, WithLots, WithAwards
<1> QED BY <1>1, <1>2, Zenon

\* Without a draft there is nothing to drop.
LEMMA NothingDropped ==
  ASSUME NEW t, Shape(t), W!WithoutDrafts(t) # t
  PROVE  \E p \in DOMAIN t.awards : \E i \in 1 .. Len(t.awards[p]) :
           t.awards[p][i].period = "over" /\ t.awards[p][i].complaint = "draft"
<1> SUFFICES ASSUME \A p \in DOMAIN t.awards : \A i \in 1 .. Len(t.awards[p]) :
                      ~ (t.awards[p][i].period = "over" /\ t.awards[p][i].complaint = "draft")
             PROVE  W!WithoutDrafts(t) = t
  OBVIOUS
<1> DEFINE aws == [p \in DOMAIN t.awards |-> Dropped(t.awards[p])]
<1>1. W!WithoutDrafts(t) = WithAwards(t, aws)
  BY OfAwards, Zenon DEF W!WithoutDrafts, WithAwards, Dropped, ReComplaint, W!Nth
<1>2. ASSUME NEW p \in DOMAIN t.awards PROVE Dropped(t.awards[p]) = t.awards[p]
  <2>1. PICK aw : aw = t.awards[p]
    OBVIOUS
  <2>2. aw \in Seq(Award) /\ DOMAIN aw = 1 .. Len(aw)
    BY <2>1, AwardsOfPart
  <2>3. ASSUME NEW i \in DOMAIN aw, aw[i].period = "over"
        PROVE  ReComplaint(aw[i], W!Mistaken(aw[i].complaint)) = aw[i]
    <3>1. W!Mistaken(aw[i].complaint) = aw[i].complaint
      BY <2>1, <2>2, <2>3 DEF W!Mistaken
    <3>2. aw[i] \in Award
      BY <2>2
    <3>3. ReComplaint(aw[i], aw[i].complaint)
            = AwardOf(aw[i], aw[i].status, aw[i].held, aw[i].asked, aw[i].period, aw[i].contract,
                      aw[i].complaint)
      BY <3>2, AwardChanged
    <3>4. aw[i] = AwardOf(aw[i], aw[i].status, aw[i].held, aw[i].asked, aw[i].period, aw[i].contract,
                          aw[i].complaint)
      BY <3>2, AwardFields, Zenon DEF AwardOf
    <3> QED BY <3>1, <3>3, <3>4
  <2>4. Dropped(aw) = [i \in DOMAIN aw |-> aw[i]]
    BY <2>3 DEF Dropped
  <2>5. aw = [i \in DOMAIN aw |-> aw[i]]
    BY <2>2
  <2> QED BY <2>1, <2>4, <2>5
<1>3. t.awards = [p \in DOMAIN t.awards |-> t.awards[p]]
  BY ShapeFields
<1>4. aws = t.awards
  BY <1>2, <1>3
<1> QED BY <1>1, <1>4, SameDocument, ShapeFields

\* A sound tender whose parts are all to stay open stays as it is.
LEMMA NothingClosed ==
  ASSUME NEW t, Sound(t), t.status \in W!Underway, W!CheckTenderStatus(t) # t
  PROVE  \E p \in DOMAIN t.awards : W!Outcome(t, p) = "unsuccessful"
<1> SUFFICES ASSUME \A p \in DOMAIN t.awards : W!Outcome(t, p) # "unsuccessful"
             PROVE  W!CheckTenderStatus(t) = t
  OBVIOUS
<1>1. Shape(t) /\ Steady(t) /\ t.lots \in [DOMAIN t.lots -> LotState] /\ Document(t)
  BY ShapeFields DEF Sound, Steady
<1>2. ASSUME NEW p \in DOMAIN t.awards
      PROVE  /\ W!Outcome(t, p) = "open"
             /\ IsOpen(t, p) => t.awards[p][Len(t.awards[p])].contract # "active"
  <2>1. IsOpen(t, p) => ~ SignedIn(t.awards[p])
    <3>1. IsOpen(t, p) => OutcomeIn(t, p) \in W!Underway \cup {"active"}
      BY DEF OutcomeIn, IsOpen
    <3> QED BY <3>1 DEF Sound, OpenUnsigned
  <2> QED BY <1>1, <2>1, OutcomeOfPart
<1>3. CASE DOMAIN t.lots # {}
  <2>1. DOMAIN t.awards = DOMAIN t.lots
    BY <1>1, <1>3, ShapeFields
  <2>2. PICK v : v = [l \in DOMAIN t.lots |-> IF W!Outcome(t, l) = "open" THEN t.lots[l] ELSE W!Outcome(t, l)]
    OBVIOUS
  <2>3. v = t.lots
    <3>1. v = [l \in DOMAIN t.lots |-> t.lots[l]]
      BY <1>2, <2>1, <2>2
    <3> QED BY <1>1, <3>1
  <2>4. W!CheckTenderStatus(t) = W!FollowLots(WithLots(t, v))
    BY <1>1, <1>3, <2>2, OfAwards DEF W!CheckTenderStatus, WithLots
  <2>5. WithLots(t, v) = t
    BY <1>1, <2>3, SameDocument
  <2>6. PICK l \in DOMAIN t.lots : t.lots[l] = "active"
    BY <1>3 DEF Sound, LotIsOpen
  <2>7. "active" \in W!Range(t.lots)
    BY <2>6 DEF W!Range
  <2>8. W!FollowLots(t) = WithStatus(t, t.status)
    <3>1. W!Range(t.lots) # {"cancelled"}
      BY <2>7
    <3>2. ~ (W!Range(t.lots) \subseteq {"unsuccessful", "cancelled"})
      BY <2>7
    <3>3. ~ (W!Range(t.lots) \subseteq {"complete", "unsuccessful", "cancelled"})
      BY <2>7
    <3> QED BY <3>1, <3>2, <3>3, Zenon DEF W!FollowLots, WithStatus
  <2> QED BY <1>1, <2>4, <2>5, <2>8, SameDocument
<1>4. CASE DOMAIN t.lots = {}
  <2>1. DOMAIN t.awards = {Whole} /\ IsOpen(t, Whole)
    BY <1>1, <1>4, ShapeFields DEF IsOpen
  <2>2. W!Latest(t, Whole).contract # "active" /\ W!Outcome(t, Whole) # "unsuccessful"
    BY <1>1, <1>2, <2>1, OfAwards
  <2>3. ~ W!HasLots(t)
    BY <1>1, <1>4, OfAwards
  <2>4. W!CheckTenderStatus(t) = WithStatus(t, t.status)
    BY <2>2, <2>3, Zenon DEF W!CheckTenderStatus, WithStatus
  <2> QED BY <1>1, <2>4, SameDocument
<1> QED BY <1>3, <1>4

LEMMA AwardingIsRemembered ==
  ASSUME Sound(awarding)
  PROVE  W!NothingIsForgotten
<1>1. PICK e : e = WithAwards(awarding, [p \in DOMAIN awarding.awards |-> RunOut(awarding.awards[p])])
  OBVIOUS
<1>2. Shape(awarding) /\ W!Parts(awarding) = DOMAIN awarding.awards
  BY OfAwards DEF Sound, Steady
<1>3. /\ Sound(e) /\ e.status = awarding.status /\ e.lots = awarding.lots
      /\ e.cancelling = awarding.cancelling /\ DOMAIN e.awards = DOMAIN awarding.awards
      /\ \A p \in DOMAIN awarding.awards : e.awards[p] = RunOut(awarding.awards[p])
      /\ \A p : IsOpen(e, p) <=> IsOpen(awarding, p)
  BY <1>1, RunOutSound
<1>4. e = [awarding EXCEPT !.awards = [p \in W!Parts(awarding) |-> [i \in W!Nth(awarding.awards[p]) |->
             [awarding.awards[p][i] EXCEPT !.period = IF @ = "running" THEN "over" ELSE @]]]]
  BY <1>1, <1>2, Zenon DEF WithAwards, RunOut, RePeriod, W!Nth
<1>5. ASSUME NEW p \in DOMAIN awarding.awards, NEW aw, aw = awarding.awards[p], NEW bw, bw = e.awards[p]
      PROVE  /\ Len(bw) = Len(aw) /\ Len(aw) \in Nat /\ Len(aw) >= 1
             /\ \A i \in 1 .. Len(aw) :
                  /\ bw[i].status = aw[i].status /\ bw[i].complaint = aw[i].complaint
                  /\ bw[i].period = "over" => aw[i].period # "unset"
             /\ DisputedIn(bw) <=> DisputedIn(aw)
  <2>1. aw \in Seq(Award) /\ aw # << >> /\ Len(aw) >= 1
    BY <1>2, <1>5, AwardsOfPart
  <2>2. InTurn(aw) /\ BestLeft(aw) /\ bw = RunOut(aw)
    BY <1>3, <1>5 DEF Sound, Steady
  <2>3. DisputedIn(bw) <=> DisputedIn(aw)
    BY <2>1, <2>2, RunOutInTurn
  <2> QED BY <2>1, <2>2, <2>3, AwardsRunOut
<1>6. ASSUME W!WithoutDrafts(e) # e PROVE W!next_check(awarding)
  <2>1. PICK p \in DOMAIN e.awards : \E i \in 1 .. Len(e.awards[p]) :
          e.awards[p][i].period = "over" /\ e.awards[p][i].complaint = "draft"
    BY <1>3, <1>6, NothingDropped DEF Sound, Steady
  <2>2. PICK i \in 1 .. Len(e.awards[p]) : e.awards[p][i].period = "over" /\ e.awards[p][i].complaint = "draft"
    BY <2>1
  <2>3. /\ p \in DOMAIN awarding.awards /\ i \in 1 .. Len(awarding.awards[p])
        /\ awarding.awards[p][i].period # "unset" /\ awarding.awards[p][i].complaint = "draft"
    BY <1>3, <1>5, <2>2
  <2>4. awarding.awards[p][i] \in W!AwardsOf(awarding, p)
    BY <1>2, <2>3, OfAwards
  <2>5. awarding.awards[p][i] \in UNION {W!AwardsOf(awarding, q) : q \in W!Parts(awarding)}
    BY <1>2, <2>3, <2>4
  <2> QED BY <2>3, <2>5, Zenon DEF W!next_check
<1>7. ASSUME e.status \in W!Underway, W!Due(e), W!CheckTenderStatus(e) # e PROVE W!next_check(awarding)
  <2>1. PICK p \in DOMAIN e.awards : W!Outcome(e, p) = "unsuccessful"
    BY <1>3, <1>7, NothingClosed
  <2>2. p \in DOMAIN awarding.awards
    BY <1>3, <2>1
  <2>3. PICK aw, bw : aw = awarding.awards[p] /\ bw = e.awards[p]
    OBVIOUS
  <2>4. Steady(e)
    BY <1>3 DEF Sound
  <2>5. IsOpen(e, p) /\ ~ DisputedIn(bw) /\ bw[Len(bw)].status = "unsuccessful"
    BY <2>1, <2>3, <2>4, OutcomeOfPart
  <2>6. IsOpen(awarding, p) /\ ~ DisputedIn(aw) /\ aw[Len(aw)].status = "unsuccessful"
        /\ Len(aw) \in 1 .. Len(aw)
    BY <1>3, <1>5, <2>2, <2>3, <2>5
  <2>7. aw[Len(aw)].period # "unset"
    <3>1. InTurn(aw)
      BY <2>2, <2>3 DEF Sound, Steady
    <3> QED BY <2>6, <3>1 DEF InTurn
  <2>8. /\ p \in W!ActiveParts(awarding) /\ ~ W!HasUndecided(awarding, p)
        /\ W!Latest(awarding, p).status = "unsuccessful"
    BY <1>2, <2>2, <2>3, <2>6, OfAwards
  <2>9. W!HasPeriod(awarding, p)
    <3>1. aw[Len(aw)] \in W!AwardsOf(awarding, p)
      BY <1>2, <2>2, <2>3, <2>6, OfAwards
    <3> QED BY <2>7, <3>1 DEF W!HasPeriod
  <2>10. awarding.status \in (IF W!HasLots(awarding) THEN W!Underway ELSE {"active.awarded"})
    BY <1>3, <1>7, Zenon DEF W!Due, W!HasLots
  <2> QED BY <2>8, <2>9, <2>10, Zenon DEF W!next_check
<1>8. ASSUME e.status \in W!Underway, W!Checked(e, FALSE) # e PROVE W!next_check(awarding)
  <2>1. CASE W!WithoutDrafts(e) # e
    BY <1>6, <2>1
  <2>2. CASE W!WithoutDrafts(e) = e
    <3>1. W!Checked(e, FALSE) = IF e.cancelling = Nobody /\ W!Due(e) THEN W!CheckTenderStatus(e) ELSE e
      BY <2>2, Zenon DEF W!Checked
    <3> QED BY <1>7, <1>8, <3>1
  <2> QED BY <2>1, <2>2
<1> QED BY <1>3, <1>4, <1>8, Zenon DEF W!NothingIsForgotten

\* Whatever the chronograph would do of a tender once the periods that run have
\* ended (check_status), the tender asks to be looked at (Tender.next_check).
THEOREM AllAreRemembered ==
  AboveInit /\ [][AboveNext]_vars => []AllRemembered
<1>1. ReviewIInv /\ AwardingIInv => AllRemembered
  BY ReviewIsRemembered, AwardingIsRemembered, Zenon DEF ReviewIInv, AwardingIInv, AllRemembered
<1> QED BY <1>1, ReviewInv, AwardingInv, PTL
==============================================================================
