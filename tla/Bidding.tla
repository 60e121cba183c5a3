------------------------------- MODULE Bidding -------------------------------
(***************************************************************************)
(* One bid in a tender above the threshold: openUA (kind "UA") or openEU   *)
(* ("EU").  While bids are placed the owner may still change the terms,    *)
(* which makes every bid invalid until its bidder confirms it, and must    *)
(* leave the bidders some time.  Later the bid is looked at (a             *)
(* qualification in openEU, then an award), and its documents may change   *)
(* only when that is fair.  Bids do not depend on each other here: one is  *)
(* followed, and what the others do to the tender is any choice.           *)
(***************************************************************************)
EXTENDS Integers, Functions

CONSTANTS
  Lots, Whole,   \* a tender is for some lots or, without lots, for Whole
  Amounts,       \* asked in bids, or the most the owner pays
  Extra,         \* tendering_period_extra: days to leave after a change
  MaxLeft        \* bound on the days left to place bids

VARIABLE call

NoBid == [status |-> "none", values |-> <<>>, papers |-> FALSE, current |-> FALSE]

\* left: days to the end of the tender period; notice: those left at the last
\* change (enquiryPeriod.invalidationDate), Extra at first; early: cancelled
\* before bids are shown; bid.current: the bidder saw the last terms.
Published(kind, ceiling) ==
  [kind |-> kind, status |-> "active.tendering", left |-> MaxLeft, notice |-> Extra,
   ceiling |-> ceiling, bid |-> NoBid, reviews |-> <<>>, early |-> FALSE]

NoCallYet == [Published("UA", <<>>) EXCEPT !.status = "none"]

Announce ==
  \E kind \in {"UA", "EU"}, ps \in {Lots, {Whole}} : \E ceiling \in [ps -> Amounts] :
    call' = Published(kind, ceiling)

HasLots == Whole \notin DOMAIN call.ceiling
Tendering == call.status = "active.tendering"
Stage(s) == call.status = s
Over == call.status \in {"none", "complete", "unsuccessful", "cancelled"}
Valid(kind) == IF kind = "UA" THEN "active" ELSE "pending"

-----------------------------------------------------------------------------
(* The terms.                                                              *)

\* Faulty: what is pending already is left as it is.
InvalidateActive(c) ==
  [c EXCEPT !.bid.status = IF @ = "active" THEN "invalid" ELSE @,
            !.bid.current = FALSE, !.notice = c.left]

\* invalidate_bids_data
Invalidate(c) ==
  [c EXCEPT !.bid.status = IF @ \in {"none", "deleted", "draft"} THEN @ ELSE "invalid",
            !.bid.current = FALSE, !.notice = c.left]

\* validate_tender_period_extension
MayChangeTerms == Tendering /\ call.left >= Extra

\* PATCH of the tender: it may move the end of the period, even one that has
\* passed, and ends with the extra time left.  The values of lots are changed
\* with the lots.
PatchTender ==
  \E left \in Extra..MaxLeft, ceiling \in [DOMAIN call.ceiling -> Amounts] :
    /\ Tendering
    /\ HasLots => ceiling = call.ceiling
    /\ call' = Invalidate([call EXCEPT !.left = left, !.ceiling = ceiling])

PostLot ==
  /\ MayChangeTerms /\ HasLots
  /\ \E l \in Lots \ DOMAIN call.ceiling, a \in Amounts :
       call' = Invalidate([call EXCEPT !.ceiling =
                 [p \in DOMAIN @ \cup {l} |-> IF p = l THEN a ELSE @[p]]])

PatchLot ==
  /\ MayChangeTerms /\ HasLots
  /\ \E l \in DOMAIN call.ceiling, a \in Amounts :
       call' = Invalidate([call EXCEPT !.ceiling[l] = a])

DeleteLot ==
  /\ MayChangeTerms /\ HasLots
  /\ \E l \in DOMAIN call.ceiling :
       /\ DOMAIN call.ceiling # {l}
       /\ call' = Invalidate([call EXCEPT !.ceiling = Restrict(@, DOMAIN @ \ {l})])

\* A document of the tender is added, replaced or described anew by its owner.
PostTenderPaper == MayChangeTerms /\ call' = Invalidate(call)

-----------------------------------------------------------------------------
(* The bid.                                                                *)

\* validate_bid_operation_not_in_tendering and validate_bid_operation_period:
\* the end of the period is part of it.
MayBid == Tendering /\ call.left >= 0

Offers == UNION {[ps -> Amounts] : ps \in (IF HasLots THEN SUBSET Lots ELSE {{Whole}}) \ {{}}}

\* The bid is for parts of the tender that there are, for not more than the
\* owner pays: what the model demands of a bid that counts, at every store.
Fits(values) ==
  /\ DOMAIN values \subseteq DOMAIN call.ceiling
  /\ \A p \in DOMAIN values : values[p] <= call.ceiling[p]

Placed(status, values) == [call EXCEPT
  !.bid.status = status, !.bid.values = values, !.bid.current = status = Valid(call.kind)]

PostBid ==
  \E status \in {"draft", Valid(call.kind)}, values \in Offers :
    /\ MayBid /\ call.bid.status = "none"
    /\ status = "draft" \/ Fits(values)
    /\ call' = Placed(status, values)

\* openUA: the status stays, or the bid becomes active.
PatchBidUA ==
  \E status \in {call.bid.status, "active"}, values \in Offers :
    /\ call.kind = "UA" /\ MayBid /\ call.bid.status \notin {"none", "deleted"}
    /\ status = "active" => Fits(values)
    /\ call' = Placed(status, values)

\* openEU: after any change the bid is pending.
PatchBidEU ==
  \E values \in Offers :
    /\ call.kind = "EU" /\ MayBid /\ call.bid.status \notin {"none", "deleted"}
    /\ Fits(values)
    /\ call' = Placed("pending", values)

DeleteBidUA ==
  /\ call.kind = "UA" /\ MayBid /\ call.bid.status # "none"
  /\ call' = [call EXCEPT !.bid.status = "deleted"]

DeleteBidEU ==
  /\ call.kind = "EU" /\ MayBid /\ call.bid.status # "none"
  /\ call' = [call EXCEPT !.bid.status = "deleted", !.bid.values = IF HasLots THEN <<>> ELSE @]

-----------------------------------------------------------------------------
(* Reviews of the bid: qualifications, then awards.                        *)

\* running: milestones whose due date has not passed.  stale: the documents
\* changed after the decision.
NewReview(of, running) ==
  [of |-> of, status |-> "pending", running |-> running, had24h |-> FALSE, stale |-> FALSE]

\* In openEU the status of a bid follows those of its parts when it is stored.
BidStatus(c) ==
  LET Some(s) == \E p \in DOMAIN c.reviews : c.reviews[p].of = "qualification" /\ c.reviews[p].status = s
  IN IF c.kind = "UA" THEN c.bid.status
     ELSE IF Some("pending") THEN "pending"
     ELSE IF Some("active") THEN "active" ELSE "unsuccessful"

WithReview(p, r) ==
  LET c == [call EXCEPT !.reviews = [q \in DOMAIN @ \cup {p} |-> IF q = p THEN r ELSE @[q]]]
  IN IF r.of = "award" THEN c ELSE [c EXCEPT !.bid.status = BidStatus(c)]

\* Drafts are dropped, and the bids left are looked at.  Too few bids: the
\* tender is unsuccessful.
OpenBids ==
  /\ Tendering /\ call.left <= 0
  /\ \E enough \in BOOLEAN :
       call' = [call EXCEPT
         !.status = IF ~ enough THEN "unsuccessful"
                    ELSE IF call.kind = "UA" THEN "active.auction" ELSE "active.pre-qualification",
         !.bid = IF @.status = "draft" THEN NoBid ELSE @,
         !.reviews = IF enough /\ call.bid.status = "pending"
                     THEN [p \in DOMAIN call.bid.values |-> NewReview("qualification", {})] ELSE <<>>]

\* The owner asks the bidder to mend the documents within 24 hours, once in a
\* review: in openEU in a qualification, in openUA in an award.
StartMilestone(p) ==
  /\ call.reviews[p].status = "pending" /\ ~ call.reviews[p].had24h
  /\ call.reviews[p].of = IF call.kind = "UA" THEN "award" ELSE "qualification"
  /\ call' = [call EXCEPT !.reviews[p].running = @ \cup {"24h"}, !.reviews[p].had24h = TRUE]

DueDatePasses(p) ==
  \E m \in call.reviews[p].running : call' = [call EXCEPT !.reviews[p].running = @ \ {m}]

\* validate_update_status_before_milestone_due_date
MayDecide(p) ==
  /\ call.reviews[p].status = "pending" /\ call.reviews[p].running = {}
  /\ Stage(IF call.reviews[p].of = "award" THEN "active.qualification" ELSE "active.pre-qualification")

Decide(p) ==
  /\ MayDecide(p)
  /\ \E decision \in {"active", "unsuccessful"} :
       call' = WithReview(p, [call.reviews[p] EXCEPT !.status = decision])

\* An openEU decision is cancelled: the bid is qualified anew.
Requalify(p) ==
  /\ Stage("active.pre-qualification") /\ call.reviews[p].running = {}
  /\ call' = WithReview(p, NewReview("qualification", {}))

StandStill ==
  \/ /\ Stage("active.pre-qualification")
     /\ \A p \in DOMAIN call.reviews : call.reviews[p].status # "pending"
     /\ call' = [call EXCEPT !.status = "active.pre-qualification.stand-still"]
  \/ /\ Stage("active.pre-qualification.stand-still")
     /\ \E s \in {"active.pre-qualification", "active.auction"} : call' = [call EXCEPT !.status = s]

EndAuction == Stage("active.auction") /\ call' = [call EXCEPT !.status = "active.qualification"]

Admitted(p) ==
  IF call.kind = "UA" THEN call.bid.status = "active" /\ p \notin DOMAIN call.reviews
  ELSE /\ p \in DOMAIN call.reviews /\ call.reviews[p].of = "qualification"
       /\ call.reviews[p].status = "active"

\* The bid is the next to win a part; a price far below the others' has to be
\* explained within a day.
GiveAward(p) ==
  /\ Stage("active.qualification") /\ Admitted(p)
  /\ \E running \in {{}, {"alp"}} : call' = WithReview(p, NewReview("award", running))

\* A decided award is cancelled and its bid is next again.
Reaward(p) ==
  /\ call.status \in {"active.qualification", "active.awarded"}
  /\ call.reviews[p].of = "award" /\ call.reviews[p].status # "pending"
  /\ \E running \in {{}, {"alp"}} :
       call' = [WithReview(p, NewReview("award", running)) EXCEPT !.status = "active.qualification"]

Award ==
  /\ Stage("active.qualification")
  /\ \A p \in DOMAIN call.reviews : call.reviews[p].of = "award" => call.reviews[p].status # "pending"
  /\ call' = [call EXCEPT !.status = "active.awarded"]

Finish == Stage("active.awarded") /\ call' = [call EXCEPT !.status = "complete"]

\* Faulty: the bids of a cancelled tender stay as they are.
HideNothing(c) == c.bid

\* cancel_tender: what happens to the bid.
Hide(c) ==
  IF Stage("active.tendering") \/ (c.kind = "UA" /\ Stage("active.auction")) THEN NoBid
  ELSE IF c.status \in {"active.pre-qualification", "active.pre-qualification.stand-still", "active.auction"}
          /\ c.bid.status \in {"pending", "active"}
       THEN [c.bid EXCEPT !.status = "invalid.pre-qualification"]
       ELSE c.bid

Cancel ==
  /\ ~ Over
  /\ call' = [call EXCEPT !.status = "cancelled", !.bid = Hide(call),
                !.early = call.status \notin {"active.qualification", "active.awarded"}]

-----------------------------------------------------------------------------
(* Documents of the bid.                                                   *)

\* unless_allowed_by_qualification_milestone
AskedFor == \E p \in DOMAIN call.reviews : call.reviews[p].status = "pending" /\ call.reviews[p].running # {}

\* openUA
MayPostPaperUA ==
  /\ \/ AskedFor
     \/ Tendering
     \/ /\ call.status \in {"active.qualification", "active.awarded"}
        /\ \E p \in DOMAIN call.reviews : call.reviews[p].of = "award" /\ call.reviews[p].status = "active"
  /\ Tendering => MayBid

\* openEU
MayPostPaperEU == MayPostPaperUA /\ call.bid.status \notin {"invalid", "unsuccessful", "deleted"}

\* A document is added, or the last version of one replaced or changed.
PostPaper ==
  /\ call.bid.status # "none"
  /\ IF call.kind = "UA" THEN MayPostPaperUA ELSE MayPostPaperEU
  /\ call' = [call EXCEPT !.bid.papers = TRUE,
                !.reviews = [p \in DOMAIN @ |->
                  [call.reviews[p] EXCEPT !.stale = @ \/ call.reviews[p].status # "pending"]]]

Closed == {"active.tendering", "active.pre-qualification",
           "active.pre-qualification.stand-still", "active.auction"}

\* What anybody may see of the price: in the bid itself, by its role ...
PriceShownUA == call.status \notin Closed /\ call.bid.status \notin {"none", "invalid", "deleted"}
PriceShownEU ==
  call.status \notin Closed
  /\ call.bid.status \notin {"none", "invalid", "invalid.pre-qualification", "unsuccessful", "deleted"}

\* ... and in its financial and qualification documents; in openUA, which has
\* one sort of documents, in any.
PapersShownUA == call.bid.status # "none" /\ call.status \notin {"active.tendering", "active.auction"}
PapersShownEU ==
  call.status \notin Closed
  /\ call.bid.status \notin {"none", "invalid", "deleted", "invalid.pre-qualification", "unsuccessful"}

-----------------------------------------------------------------------------
DayPasses == Tendering /\ call.left > -1 /\ call' = [call EXCEPT !.left = @ - 1]

Next ==
  \/ PatchTender \/ PostLot \/ PatchLot \/ DeleteLot \/ PostTenderPaper
  \/ PostBid \/ PatchBidUA \/ PatchBidEU \/ DeleteBidUA \/ DeleteBidEU
  \/ DayPasses \/ OpenBids \/ StandStill \/ EndAuction \/ Award \/ Finish \/ Cancel
  \/ PostPaper
  \/ \E p \in DOMAIN call.reviews :
       StartMilestone(p) \/ DueDatePasses(p) \/ Decide(p) \/ Requalify(p) \/ Reaward(p)
  \/ \E p \in DOMAIN call.bid.values : GiveAward(p)

-----------------------------------------------------------------------------
\* Nobody competes on terms that are not the last ones: a bid that counts when
\* the bids are opened was placed or confirmed after the last change, fits the
\* terms, and the bidders had the extra time for that.
OpenedBidsFit ==
  ~ Tendering /\ call.bid.status \in {"pending", "active", "unsuccessful"} =>
    call.bid.current /\ Fits(call.bid.values) /\ call.notice >= Extra

\* A price is not told by one view of the bid while the other keeps it (openEU;
\* in openUA the documents of invalid and deleted bids are shown), and never
\* if the tender was cancelled before the prices are opened.
PricesKept ==
  /\ call.kind = "EU" => PriceShownEU = PapersShownEU /\ (call.early => ~ PriceShownEU)
  /\ call.kind = "UA" /\ call.early => ~ PriceShownUA /\ ~ PapersShownUA

\* The documents a decision rests on stay what they were: those of a bid for
\* one part do not change after its qualification was decided until it wins,
\* nor once it is rejected, whichever milestones ran.
DecidedOnWhatIsThere ==
  \A p \in DOMAIN call.reviews :
    call.reviews[p].stale =>
      \/ DOMAIN call.reviews # {p}
      \/ call.reviews[p].of = "award" /\ call.reviews[p].status = "active"
=============================================================================
