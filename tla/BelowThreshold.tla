--------------------------- MODULE BelowThreshold ---------------------------
(***************************************************************************)
(* The belowThreshold procedure: one tender from draft to a terminal       *)
(* status, with its lots, bids, awards, contracts, claims and              *)
(* cancellations.  Every request and every visit of the chronograph is one *)
(* atomic step, as two requests never interleave inside one document       *)
(* (DocumentStore).  A tender without lots is modelled as one unit, Whole, *)
(* whose lot status stays "active".                                        *)
(*                                                                         *)
(* Bids are numbered by the outcome of the auction, the best one first.    *)
(* Times are abstracted to whether they were reached: phase for the        *)
(* enquiry and tendering periods, "running" and "over" for a stand-still,  *)
(* due for the three days after which an answered claim is closed.         *)
(* pending.winner-signing counts as pending, invalid as declined, a claim  *)
(* is "withdrawn" when it is cancelled or mistaken; draft claims are not   *)
(* kept; an award or a tender takes one claim for each target.             *)
(***************************************************************************)
EXTENDS Naturals, Sequences, FiniteSets

CONSTANTS
  Lots,           \* the lots of the tender, {} for a tender without lots
  Whole,          \* the unit of a tender without lots
  None,           \* relatedLot of a claim or a cancellation of the whole tender
  NBids,          \* number of bids at most
  ClaimTargets,   \* what tender claims are about: None or a lot
  CancelTargets,  \* what cancellations are about: None or a lot
  MaxAwards,      \* bound on the awards of one unit
  MaxClaims       \* bound on the claims

HasLots == Lots # {}
Units == IF HasLots THEN Lots ELSE {Whole}
Bids == 1 .. NBids

ASSUME TargetsAssumption ==
  /\ None \notin Lots /\ IsFiniteSet(Lots)
  /\ ClaimTargets \subseteq Lots \cup {None} /\ CancelTargets \subseteq Lots \cup {None}
ASSUME BoundsAssumption == NBids \in Nat /\ MaxAwards \in Nat /\ MaxClaims \in Nat

VARIABLES
  tender,  \* the stored document
  phase    \* 0 before tenderPeriod, 1 within it, 2 after it

vars == <<tender, phase>>

Terminal == {"complete", "unsuccessful", "cancelled"}
Awarding == {"active.qualification", "active.awarded"}
Active == {"active.enquiries", "active.tendering", "active.auction"} \cup Awarding

NoClaim == [status |-> "none", resolution |-> "none", due |-> FALSE]
Closed(status) == [NoClaim EXCEPT !.status = status]
Answered(c) == c.status = "answered"   \* block_complaint_status, without complaints

Init ==
  /\ phase = 0
  /\ tender =
       [status    |-> "draft",
        lot       |-> [u \in Units |-> "active"],
        bid       |-> [b \in Bids |-> [status |-> "absent", lots |-> {}]],
        auctioned |-> {},
        awards    |-> [u \in Units |-> << >>],
        claims    |-> [x \in ClaimTargets |-> NoClaim],
        cancellations |-> {}]   \* targets of the cancellations in draft

-----------------------------------------------------------------------------
(* Reading the document.                                                   *)
BidsOn(t, u) == {b \in Bids : t.bid[b].status # "absent" /\ u \in t.bid[b].lots}
numberOfBids(t, u) == Cardinality({b \in BidsOn(t, u) : t.bid[b].status = "active"})

Open(t) == {u \in Units : t.lot[u] = "active"}
LastIs(awards, statuses) == awards # << >> /\ awards[Len(awards)].status \in statuses

Periods(awards) == {awards[i].period : i \in 1 .. Len(awards)} \ {"none"}
StandStillOver(awards) == Periods(awards) = {"over"}
AwardClaimAnswered(awards) == \E i \in 1 .. Len(awards) : Answered(awards[i].claim)

\* Answered tender claims about any of the targets.
ClaimAnswered(t, targets) == \E x \in ClaimTargets \cap targets : Answered(t.claims[x])

NewAward(b) == [bid |-> b, status |-> "pending", period |-> "none",
                claim |-> NoClaim, contract |-> "none"]

MapClaims(t, Update(_, _)) ==
  [t EXCEPT
     !.claims = [x \in ClaimTargets |-> Update(t.claims[x], x)],
     !.awards = [u \in Units |-> [i \in DOMAIN t.awards[u] |->
        [t.awards[u][i] EXCEPT !.claim = Update(@, IF HasLots THEN u ELSE None)]]]]

-----------------------------------------------------------------------------
(* The functions of belowthreshold/utils.py, on the document as a value.   *)

\* Faulty: the claims against awards are forgotten.
CheckTenderClaims(t) ==
  [t EXCEPT !.claims = [x \in ClaimTargets |->
     IF @[x].status = "claim" /\ t.status \in Terminal THEN Closed("ignored") ELSE @[x]]]

\* check_ignored_claim
CheckIgnoredClaim(t) ==
  LET done == {u \in Lots : t.lot[u] \in Terminal}
                \cup (IF t.status \in Terminal THEN {None} ELSE {})
  IN MapClaims(t, LAMBDA c, x :
       IF c.status = "claim" /\ x \in done THEN Closed("ignored") ELSE c)

\* check_complaint_status, for every complaint
CheckComplaintStatus(t) ==
  MapClaims(t, LAMBDA c, x : IF Answered(c) /\ c.due THEN Closed(c.resolution) ELSE c)

\* add_next_award: each open unit without a pending or active award gets one
\* for its best bid that was not rejected; a lot nobody bid for fails.
Rejected(awards) ==
  {awards[i].bid : i \in {j \in 1 .. Len(awards) : awards[j].status = "unsuccessful"}}

\* Faulty: a bid whose award was cancelled is passed over.
CandidatesNotAwarded(t, u) == BidsOn(t, u) \ {a.bid : a \in {t.awards[u][i] : i \in DOMAIN t.awards[u]}}

Candidates(t, u) == BidsOn(t, u) \ Rejected(t.awards[u])
Best(bids) == CHOOSE b \in bids : \A c \in bids : b <= c

Vacant(t) == {u \in Open(t) : ~ LastIs(t.awards[u], {"pending", "active"})}
AwardingStatus(t, awards) ==
  IF \E u \in Open(t) : LastIs(awards[u], {"pending"})
  THEN "active.qualification" ELSE "active.awarded"

AddNextAward(t) ==
  LET failed == {u \in Vacant(t) \cap Lots : BidsOn(t, u) = {}}
      awards == [u \in Units |->
                   IF u \in Vacant(t) /\ Candidates(t, u) # {}
                   THEN Append(t.awards[u], NewAward(Best(Candidates(t, u))))
                   ELSE t.awards[u]]
  IN [t EXCEPT
        !.awards = awards,
        !.lot = [u \in Units |-> IF u \in failed THEN "unsuccessful" ELSE @[u]],
        !.status = AwardingStatus(t, awards)]

\* The status of a tender with lots follows those of its lots; all of them
\* cancelled comes out as "cancelled", none of them open as one of the others.
FromLots(t, statuses) ==
  IF statuses = {"cancelled"} THEN "cancelled"
  ELSE IF statuses \subseteq {"unsuccessful", "cancelled"} THEN "unsuccessful"
  ELSE IF statuses \subseteq Terminal THEN "complete"
  ELSE t.status

LotStatuses(lot) == {lot[u] : u \in Units}

HasActiveContract(awards) ==
  LastIs(awards, {"active"}) /\ awards[Len(awards)].contract = "active"

\* check_tender_status, first for lots: each one is settled by itself.
LotOutcome(t, u) ==
  LET awards == t.awards[u] IN
  IF \/ t.lot[u] # "active" \/ awards = << >>
     \/ ClaimAnswered(t, {u}) \/ AwardClaimAnswered(awards) \/ "running" \in Periods(awards)
  THEN t.lot[u]
  ELSE IF LastIs(awards, {"unsuccessful"}) THEN "unsuccessful"
  ELSE IF HasActiveContract(awards) THEN "complete"
  ELSE "active"

SettleLots(t) ==
  LET lot == [u \in Units |-> LotOutcome(t, u)] IN
  [t EXCEPT !.lot = lot, !.status = FromLots(t, LotStatuses(lot))]

\* Faulty: contracts[0] instead of contracts[-1].
FirstContract(awards) ==
  LET made == {i \in 1 .. Len(awards) : awards[i].contract # "none"} IN
  IF made = {} THEN "none"
  ELSE awards[CHOOSE i \in made : \A j \in made : i <= j].contract

\* contracts[-1]: contracts are made in the order of the awards.
LastContract(awards) ==
  LET made == {i \in 1 .. Len(awards) : awards[i].contract # "none"} IN
  IF made = {} THEN "none"
  ELSE awards[CHOOSE i \in made : \A j \in made : j <= i].contract

SettleWhole(t) ==
  LET awards == t.awards[Whole] IN
  [t EXCEPT !.status =
     IF LastContract(awards) = "active" THEN "complete"
     ELSE IF /\ LastIs(awards, {"unsuccessful"}) /\ StandStillOver(awards)
             /\ ~ ClaimAnswered(t, {None}) /\ ~ AwardClaimAnswered(awards)
          THEN "unsuccessful" ELSE @]

CheckTenderStatus(t) ==
  IF HasLots /\ ClaimAnswered(t, {None}) THEN t
  ELSE CheckIgnoredClaim(IF HasLots THEN SettleLots(t) ELSE SettleWhole(t))

\* check_bids, after remove_draft_bids
RemoveDraftBids(t) ==
  [t EXCEPT !.bid = [b \in Bids |->
     IF @[b].status = "draft" THEN [status |-> "absent", lots |-> {}] ELSE @[b]]]

\* Faulty: a single bid waits for an auction.
NoAuctionIfNoBids(t) == \A u \in Open(t) : numberOfBids(t, u) < 1

NoAuctionNeeded(t) == \A u \in Open(t) : numberOfBids(t, u) < 2

CheckBids(t) ==
  LET lot == [u \in Units |->
                IF u \in Lots \cap Open(t) /\ numberOfBids(t, u) = 0
                THEN "unsuccessful" ELSE t.lot[u]]
      s == [t EXCEPT !.lot = lot]
      nobody == IF HasLots THEN LotStatuses(lot) \subseteq {"unsuccessful", "cancelled"}
                ELSE numberOfBids(t, Whole) = 0
  IN CheckIgnoredClaim(
       IF nobody THEN [s EXCEPT !.status = "unsuccessful"]
       ELSE IF NoAuctionNeeded(s) THEN AddNextAward(s)
       ELSE s)

\* check_status: what a visit of the chronograph does.
CheckStatus(t) ==
  LET c == CheckComplaintStatus(t) IN
  CASE c.status = "active.enquiries" /\ phase >= 1 ->
         [c EXCEPT !.status = "active.tendering"]
    [] c.status = "active.tendering" /\ phase = 2 ->
         CheckBids(RemoveDraftBids([c EXCEPT !.status = "active.auction"]))
    [] ~ HasLots /\ c.status = "active.awarded" /\ StandStillOver(c.awards[Whole]) ->
         CheckTenderStatus(c)
    [] /\ HasLots /\ c.status \in Awarding /\ ~ ClaimAnswered(c, {None})
       /\ \E u \in Open(c) : StandStillOver(c.awards[u]) ->
         CheckTenderStatus(c)
    [] OTHER -> c

-----------------------------------------------------------------------------
(* Requests.  Each one saves what it computed (save_tender).               *)
Save(t) ==
  /\ tender' = t
  /\ \A u \in Units : Len(t.awards[u]) <= MaxAwards
  /\ UNCHANGED phase

\* PATCH /tenders/{id} of a draft
Publish ==
  /\ tender.status = "draft"
  /\ Save([tender EXCEPT !.status = "active.enquiries"])

InTendering == tender.status = "active.tendering" /\ phase = 1

PostBid(b) ==
  /\ InTendering
  /\ tender.bid[b].status = "absent"
  /\ \E s \in {"draft", "active"}, lots \in SUBSET Units \ {{}} :
       Save([tender EXCEPT !.bid[b] = [status |-> s, lots |-> lots]])

\* The owner of a bid changes what it is for, and may activate it.
PatchBid(b) ==
  /\ InTendering
  /\ tender.bid[b].status # "absent"
  /\ \E s \in {tender.bid[b].status, "active"}, lots \in SUBSET Units \ {{}} :
       Save([tender EXCEPT !.bid[b] = [status |-> s, lots |-> lots]])

DeleteBid(b) ==
  /\ InTendering
  /\ tender.bid[b].status # "absent"
  /\ Save([tender EXCEPT !.bid[b] = [status |-> "absent", lots |-> {}]])

\* The auction module reports the results of a unit it held an auction for.
AuctionsDone(t) == \A u \in Open(t) : numberOfBids(t, u) > 1 => u \in t.auctioned

PostAuction(u) ==
  LET t == [tender EXCEPT !.auctioned = @ \cup {u}] IN
  /\ tender.status = "active.auction"
  /\ u \in Open(tender) \ tender.auctioned
  /\ numberOfBids(tender, u) > 1
  /\ Save(IF ~ HasLots \/ AuctionsDone(t) THEN AddNextAward(t) ELSE t)

\* Faulty: the status of the lot is not looked at.
AwardOfAnyLot(u, i) == tender.status \in Awarding /\ i \in 1 .. Len(tender.awards[u])

\* Awards can be changed while the tender is being awarded and the lot is open.
AwardAt(u, i) ==
  /\ tender.status \in Awarding
  /\ u \in Open(tender)
  /\ i \in 1 .. Len(tender.awards[u])

ActivateAward(u, i) ==
  /\ AwardAt(u, i)
  /\ tender.awards[u][i].status = "pending"
  /\ Save(AddNextAward([tender EXCEPT
       !.awards[u][i] = [@ EXCEPT !.status = "active", !.period = "running",
                                  !.contract = "pending"]]))

RejectAward(u, i) ==
  /\ AwardAt(u, i)
  /\ tender.awards[u][i].status = "pending"
  /\ Save(AddNextAward([tender EXCEPT
       !.awards[u][i] = [@ EXCEPT !.status = "unsuccessful", !.period = "running"]]))

\* A cancelled award: its stand-still is cut short, its claims are cancelled
\* unless they are final, and so is its contract.
CancelledClaim(c) ==
  IF c.status \in {"none", "resolved", "declined"} THEN c ELSE Closed("withdrawn")

CancelledAward(a) ==
  [a EXCEPT !.status = "cancelled", !.period = "over", !.claim = CancelledClaim(@),
            !.contract = IF @ = "none" THEN "none" ELSE "cancelled"]

CancelAward(u, i) ==
  /\ AwardAt(u, i)
  /\ tender.awards[u][i].status = "active"
  /\ Save(AddNextAward([tender EXCEPT !.awards[u][i] = CancelledAward(@)]))

\* A rejected award that was appealed against is cancelled with every award
\* of its unit after it.  A pending one among them has no complaintPeriod: the
\* assignment to its endDate raises and nothing is saved.
CancelRejectedAward(u, i) ==
  LET awards == tender.awards[u] IN
  /\ AwardAt(u, i)
  /\ awards[i].status = "unsuccessful"
  /\ awards[i].claim.status \in {"claim", "answered", "resolved"}
  /\ \A j \in i .. Len(awards) : awards[j].period # "none"
  /\ Save(AddNextAward([tender EXCEPT
       !.awards[u] = [j \in DOMAIN @ |-> IF j < i THEN @[j] ELSE CancelledAward(@[j])]]))

\* validate_contract_signing
MaySign(u, i) ==
  /\ tender.awards[u][i].period # "running"
  /\ ~ ClaimAnswered(tender, {None, u})
  /\ ~ AwardClaimAnswered(tender.awards[u])

SignContract(u, i) ==
  /\ AwardAt(u, i)
  /\ tender.awards[u][i].contract = "pending"
  /\ MaySign(u, i)
  /\ Save(CheckTenderStatus([tender EXCEPT !.awards[u][i].contract = "active"]))

\* Any other change of a contract looks at the status of the tender, too.
PatchContract(u, i) ==
  /\ AwardAt(u, i)
  /\ tender.awards[u][i].contract # "none"
  /\ Save(CheckTenderStatus(tender))

-----------------------------------------------------------------------------
(* Claims.  The tender owner answers, the author agrees or takes it back.  *)
ClaimsFiled ==
  Cardinality({x \in ClaimTargets : tender.claims[x].status # "none"}
    \cup {ui \in Units \X (1 .. MaxAwards) :
            /\ ui[2] <= Len(tender.awards[ui[1]])
            /\ tender.awards[ui[1]][ui[2]].claim.status # "none"})

\* What a PATCH may make of a claim.
Patched(c, resolution) ==
  (IF c.status = "claim"
   THEN {[status |-> "answered", resolution |-> resolution, due |-> FALSE]} ELSE {})
  \cup (IF Answered(c) THEN {Closed("resolved")} ELSE {})
  \cup (IF c.status \in {"claim", "answered"} THEN {Closed("withdrawn")} ELSE {})

\* A claim that needs no more review may be what the outcome was waiting for.
AfterPatch(t, c) ==
  IF c.status # "answered" /\ t.status \in Awarding THEN CheckTenderStatus(t) ELSE t

PostClaim(x) ==
  /\ tender.status \in {"active.enquiries", "active.tendering"}
  /\ tender.claims[x].status = "none" /\ ClaimsFiled < MaxClaims
  /\ Save([tender EXCEPT !.claims[x] = Closed("claim")])

PatchClaim(x) ==
  /\ tender.status \in Active
  /\ \E r \in {"resolved", "declined"} : \E c \in Patched(tender.claims[x], r) :
       Save(AfterPatch([tender EXCEPT !.claims[x] = c], c))

PostAwardClaim(u, i) ==
  /\ AwardAt(u, i)
  /\ tender.awards[u][i].status \in {"active", "unsuccessful"}
  /\ tender.awards[u][i].period = "running"
  /\ tender.awards[u][i].claim.status = "none" /\ ClaimsFiled < MaxClaims
  /\ Save([tender EXCEPT !.awards[u][i].claim = Closed("claim")])

PatchAwardClaim(u, i) ==
  /\ AwardAt(u, i)
  /\ \E r \in {"resolved", "declined"} : \E c \in Patched(tender.awards[u][i].claim, r) :
       Save(AfterPatch([tender EXCEPT !.awards[u][i].claim = c], c))

-----------------------------------------------------------------------------
(* Cancellations.                                                          *)
MayCancel(x) ==
  /\ tender.status \notin Terminal \cup {"active.auction"}
  /\ x = None \/ x \in Open(tender)

DraftCancellation(x) ==
  /\ MayCancel(x) /\ x \notin tender.cancellations
  /\ Save([tender EXCEPT !.cancellations = @ \cup {x}])

DropCancellation(x) ==
  /\ MayCancel(x) /\ x \in tender.cancellations
  /\ Save([tender EXCEPT !.cancellations = @ \ {x}])

\* CancelTenderLot
CancelTender(t) ==
  [t EXCEPT !.status = "cancelled",
            !.bid = IF t.status = "active.tendering"
                    THEN [b \in Bids |-> [status |-> "absent", lots |-> {}]] ELSE @]

CancelLot(t, x) ==
  LET s == [t EXCEPT !.lot[x] = "cancelled"] IN
  IF LotStatuses(s.lot) = {"cancelled"} THEN CancelTender(s)
  ELSE [s EXCEPT !.status = FromLots(s, LotStatuses(s.lot))]

ActivateCancellation(x) ==
  LET t == [tender EXCEPT !.cancellations = @ \ {x}] IN
  /\ MayCancel(x) /\ x \in tender.cancellations
  /\ Save(IF x = None THEN CancelTender(t) ELSE CancelLot(t, x))

-----------------------------------------------------------------------------
(* Time, and the chronograph, which visits a tender when next_check says.  *)
NextPhase ==
  /\ tender.status # "draft" /\ phase < 2
  /\ phase' = phase + 1
  /\ UNCHANGED tender

\* The stand-still of a unit that began first ends first.  Times that run out
\* in a tender that has ended are not followed.
StandStillEnds(u) ==
  /\ tender.status \in Awarding
  /\ \E i \in 1 .. Len(tender.awards[u]) :
       /\ tender.awards[u][i].period = "running"
       /\ \A j \in 1 .. i - 1 : tender.awards[u][j].period # "running"
       /\ Save([tender EXCEPT !.awards[u][i].period = "over"])

Aged(c) == IF Answered(c) THEN [c EXCEPT !.due = TRUE] ELSE c

ClaimTermEnds ==
  /\ tender.status \in Active
  /\ \/ \E x \in ClaimTargets :
          /\ Aged(tender.claims[x]) # tender.claims[x]
          /\ Save([tender EXCEPT !.claims[x] = Aged(@)])
     \/ \E u \in Units : \E i \in 1 .. Len(tender.awards[u]) :
          /\ Aged(tender.awards[u][i].claim) # tender.awards[u][i].claim
          /\ Save([tender EXCEPT !.awards[u][i].claim = Aged(@)])

\* Tender.next_check has a time in it that has come.
AnsweredDue(t) ==
  \/ \E x \in ClaimTargets : Answered(t.claims[x]) /\ t.claims[x].due
  \/ \E u \in Units : \E i \in 1 .. Len(t.awards[u]) :
       Answered(t.awards[u][i].claim) /\ t.awards[u][i].claim.due

\* Faulty: any claim against an award, answered or not, keeps the check off.
RejectionUnclaimed(t, u) ==
  /\ LastIs(t.awards[u], {"unsuccessful"}) /\ StandStillOver(t.awards[u])
  /\ \A i \in 1 .. Len(t.awards[u]) : t.awards[u][i].claim.status = "none"

RejectionStands(t, u) ==
  /\ LastIs(t.awards[u], {"unsuccessful"}) /\ StandStillOver(t.awards[u])
  /\ ~ AwardClaimAnswered(t.awards[u])

next_check_due(t) ==
  \/ t.status = "active.enquiries" /\ phase >= 1
  \/ t.status = "active.tendering" /\ phase = 2
  \/ t.status \in Active /\ AnsweredDue(t)
  \/ /\ ~ HasLots /\ t.status = "active.awarded"
     /\ RejectionStands(t, Whole) /\ ~ ClaimAnswered(t, {None})
  \/ /\ HasLots /\ t.status \in Awarding /\ ~ ClaimAnswered(t, {None})
     /\ \E u \in Open(t) : RejectionStands(t, u) /\ ~ ClaimAnswered(t, {u})

Chronograph ==
  /\ next_check_due(tender)
  /\ Save(CheckStatus(tender))

Award(u, i) ==
  \/ ActivateAward(u, i) \/ RejectAward(u, i) \/ CancelAward(u, i)
  \/ CancelRejectedAward(u, i) \/ SignContract(u, i) \/ PatchContract(u, i)
  \/ PostAwardClaim(u, i) \/ PatchAwardClaim(u, i)

Next ==
  \/ Publish
  \/ \E b \in Bids : PostBid(b) \/ PatchBid(b) \/ DeleteBid(b)
  \/ \E u \in Units : PostAuction(u) \/ StandStillEnds(u)
  \/ \E u \in Units, i \in 1 .. MaxAwards : Award(u, i)
  \/ \E x \in ClaimTargets : PostClaim(x) \/ PatchClaim(x)
  \/ \E x \in CancelTargets :
       DraftCancellation(x) \/ DropCancellation(x) \/ ActivateCancellation(x)
  \/ NextPhase \/ ClaimTermEnds \/ Chronograph

\* Time passes, the chronograph makes its visits and every auction is
\* reported; no user ever has to do anything.
Fairness ==
  /\ WF_vars(NextPhase) /\ WF_vars(ClaimTermEnds) /\ WF_vars(Chronograph)
  /\ \A u \in Units : WF_vars(StandStillEnds(u)) /\ WF_vars(PostAuction(u))

Spec == Init /\ [][Next]_vars /\ Fairness

-----------------------------------------------------------------------------
Claim == [status : {"none", "claim", "answered", "resolved", "declined", "withdrawn", "ignored"},
          resolution : {"none", "resolved", "declined"}, due : BOOLEAN]
AwardRecord ==
  [bid : Bids, status : {"pending", "active", "unsuccessful", "cancelled"},
   period : {"none", "running", "over"}, claim : Claim,
   contract : {"none", "pending", "active", "cancelled"}]

TypeOK ==
  /\ phase \in 0 .. 2
  /\ tender.status \in {"draft"} \cup Active \cup Terminal
  /\ tender.lot \in [Units -> {"active"} \cup Terminal]
  /\ tender.bid \in [Bids -> [status : {"absent", "draft", "active"}, lots : SUBSET Units]]
  /\ tender.auctioned \subseteq Units
  /\ \A u \in Units : tender.awards[u] \in Seq(AwardRecord)
  /\ tender.claims \in [ClaimTargets -> Claim]
  /\ tender.cancellations \subseteq CancelTargets

AwardsOf(u) == {tender.awards[u][i] : i \in 1 .. Len(tender.awards[u])}

\* A unit never has two winners: at most one of its awards is pending or
\* active, and it is the last one, through any sequence of rejections, appeals
\* and cancellations.
OneLiveAward ==
  \A u \in Units : \A i \in 1 .. Len(tender.awards[u]) :
    tender.awards[u][i].status \in {"pending", "active"} => i = Len(tender.awards[u])

\* The award goes to the best bid: every better bid for the unit was rejected,
\* and its rejection still stands.
BestBidFirst ==
  \A u \in Units : \A a \in AwardsOf(u) : a.status \in {"pending", "active"} =>
    /\ tender.bid[a.bid].status = "active" /\ a.bid \in BidsOn(tender, u)
    /\ \A b \in BidsOn(tender, u) : b < a.bid => b \in Rejected(tender.awards[u])

\* A contract lives exactly as long as its award is active.
ContractFollowsAward ==
  \A u \in Units : \A a \in AwardsOf(u) :
    a.status = "active" <=> a.contract \in {"pending", "active"}

\* A lot (a tender without lots) is complete exactly when it has a signed
\* contract: no unit is called complete without one, and a signature is never
\* left behind in a unit that goes on, fails or is cancelled.
Signed(u) == \E a \in AwardsOf(u) : a.contract = "active"
CompleteIffSigned ==
  \A u \in Units :
    Signed(u) <=> (IF HasLots THEN tender.lot[u] = "complete" ELSE tender.status = "complete")

\* A unit is settled only with its disputes: once it is complete, or failed,
\* none of its awards' claims waits for an answer or for its author.
SettledWithoutDisputes ==
  \A u \in Units :
    (IF HasLots THEN tender.lot[u] ELSE tender.status) \in {"complete", "unsuccessful"} =>
      \A a \in AwardsOf(u) : a.claim.status \notin {"claim", "answered"}

\* The status of a tender being awarded tells the truth: somebody is left to
\* be awarded, and "awarded" is said only when nobody waits for a decision.
StatusTellsTheTruth ==
  /\ tender.status \in Active => Open(tender) # {}
  /\ tender.status \in Awarding => \A u \in Open(tender) : tender.awards[u] # << >>
  /\ tender.status = "active.awarded" =>
       \A u \in Open(tender) : ~ LastIs(tender.awards[u], {"pending"})

\* The two halves of safety: how awards are made, and what the statuses mean.
AwardingSound == OneLiveAward /\ BestBidFirst /\ ContractFollowsAward
OutcomeSound == CompleteIffSigned /\ SettledWithoutDisputes /\ StatusTellsTheTruth

\* next_check never forgets: whenever a visit of the chronograph would change
\* the tender, one is due.  Only a claim of a cancelled lot may go unignored:
\* CancelTenderLot does not call check_ignored_claim and nothing schedules it.
Unignored(t) == MapClaims(t, LAMBDA c, x : IF c.status = "ignored" THEN Closed("claim") ELSE c)
NothingIsForgotten ==
  tender.status \in Active /\ ~ next_check_due(tender) =>
    Unignored(CheckStatus(tender)) = Unignored(tender)

\* Everything above at once, for a tender without lots: awards are sound, the
\* statuses mean what they say and the chronograph forgets nothing.
Safety == TypeOK /\ AwardingSound /\ OutcomeSound /\ NothingIsForgotten

\* With lots that go their own ways: the statuses mean what they say, and the
\* chronograph is asked to come for whatever it has left to settle.
SettlingSound == OutcomeSound /\ NothingIsForgotten

\* A signed contract is final, and so is a terminal status.
FinalStaysFinal ==
  [][/\ \A u \in Units : \A i \in 1 .. Len(tender.awards[u]) :
          tender.awards[u][i].contract = "active" => tender'.awards[u][i] = tender.awards[u][i]
     /\ tender.status \in Terminal => tender' = tender]_vars

\* Without anybody's help the tender leaves the bidding: it comes to
\* qualification or ends.
BiddingEnds ==
  tender.status \in {"active.enquiries", "active.tendering", "active.auction"}
    ~> tender.status \in Awarding \cup Terminal

\* A rejection of the last bidder does not hang: the unit fails, or somebody
\* makes another award, however the claims against it were left.
RejectionSettles ==
  \A u \in Units :
    (tender.status \in Awarding /\ u \in Open(tender) /\ LastIs(tender.awards[u], {"unsuccessful"}))
      ~> (tender.status \in Terminal \/ u \notin Open(tender)
          \/ ~ LastIs(tender.awards[u], {"unsuccessful"}))
=============================================================================
