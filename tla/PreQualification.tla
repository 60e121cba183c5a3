-------------------------- MODULE PreQualification --------------------------
(***************************************************************************)
(* Tenders whose bidders are qualified before they may compete: openEU     *)
(* (kind "EU") and the first stage of a competitive dialogue (kind         *)
(* "dialogue").  When the tender period ends every bid gets a              *)
(* qualification, per lot if there are lots.  The owner decides them all   *)
(* and starts a stand-still, in which the bidders may complain about the   *)
(* decisions; a satisfied complaint reopens the review.  After the         *)
(* stand-still the admitted bids go to the auction or to the second stage. *)
(*                                                                         *)
(* A tender without lots has one part, Whole; the bid's own status says    *)
(* what the value for the lot says otherwise.  Earlier qualifications of a *)
(* bid are all cancelled: quals has the last one of each.                  *)
(***************************************************************************)
EXTENDS CancellationRules, FiniteSets, Functions

CONSTANTS
  Lots, Bids, Firms,
  MinBids,          \* 2 in openEU, MINIMAL_NUMBER_OF_BIDS = 3 in dialogues
  Nobody,           \* no bid, no value, no qualification, no cancellation
  MaxComplaints     \* bound on the complaints about qualifications

ASSUME LotsAreNotWhole == Whole \notin Lots /\ Nobody \notin Lots \cup {Whole}
ASSUME MinBidsAssumption == MinBids \in Nat \ {0}
ASSUME BidsAssumption == IsFiniteSet(Bids)
ASSUME NobodyAssumption ==
  Nobody \notin {"draft", "pending", "active", "unsuccessful", "cancelled", "deleted", "invalid",
                 "invalid.pre-qualification", "draft.stage2", "active.tendering"}

VARIABLE tender

HasLots(t) == DOMAIN t.lots # {}
Parts(t) == IF HasLots(t) THEN DOMAIN t.lots ELSE {Whole}
ActiveParts(t) == {p \in Parts(t) : HasLots(t) => t.lots[p] = "active"}
Reviewing == {"active.pre-qualification", "active.pre-qualification.stand-still"}
Finished == {"complete", "unsuccessful", "cancelled"}
Final == {"invalid", "invalid.pre-qualification", "unsuccessful", "deleted", "draft", Nobody}

NoBid(ls) == [status |-> Nobody, firm |-> Nobody, values |-> [l \in ls |-> Nobody]]

\* A tender is published with all its lots or none.
Published(kind, ls) ==
  [kind |-> kind, status |-> "active.tendering", lots |-> [l \in ls |-> "active"],
   over |-> FALSE, standStill |-> "unset", bids |-> [b \in Bids |-> NoBid(ls)],
   quals |-> [b \in Bids |-> [p \in (IF ls = {} THEN {Whole} ELSE ls) |-> Nobody]],
   complaints |-> <<>>, cancelling |-> Nobody, withdrawn |-> FALSE]

Init == \E kind \in {"EU", "dialogue"}, ls \in {{}, Lots} : tender = Published(kind, ls)

-----------------------------------------------------------------------------
(* What is computed of the bids.                                           *)

\* Bid.serialize_status: a tender with lots has the status of a bid follow
\* those of its values, whenever the tender is stored.
BidStatus(t, b) ==
  LET bid == t.bids[b]
      Some(status) == \E l \in DOMAIN t.lots : t.lots[l] \in {"active", "complete"} /\ bid.values[l] = status
  IN IF bid.status \in Final \/ t.status \in {"active.tendering", "cancelled"} THEN bid.status
     ELSE IF ~ HasLots(t) THEN bid.status
     ELSE IF \A l \in DOMAIN t.lots : bid.values[l] = Nobody THEN "invalid"
     ELSE IF Some("pending") THEN "pending"
     ELSE IF Some("active") THEN "active" ELSE "unsuccessful"

Store(t) == tender' = [t EXCEPT !.bids = [b \in Bids |-> [t.bids[b] EXCEPT !.status = BidStatus(t, b)]]]

\* Lot.numberOfBids and Tender.numberOfBids
InPlay(t, p) ==
  {b \in Bids : /\ t.bids[b].status \in {"pending", "active"}
                /\ HasLots(t) => t.bids[b].values[p] \in {"pending", "active"}}

\* validate_unique_bids; without lots it is given every bid of the tender.
FirmsOf(t, p) ==
  {t.bids[b].firm : b \in IF HasLots(t) THEN InPlay(t, p)
                          ELSE {b \in Bids : t.bids[b].status # Nobody}}

\* A lot with too few bids; a dialogue looks at cancelled lots, too, for the
\* count but not for the firms.
TooFew(t, p) ==
  \/ Cardinality(InPlay(t, p)) < MinBids /\ (t.kind = "EU" => p \in ActiveParts(t))
  \/ t.kind = "dialogue" /\ Cardinality(FirmsOf(t, p)) < MinBids /\ p \in ActiveParts(t)

\* check_initial_bids_count
CheckBidsCount(t) ==
  LET few == {p \in Parts(t) : TooFew(t, p)}
      lots == [l \in DOMAIN t.lots |-> IF l \in few THEN "unsuccessful" ELSE t.lots[l]]
      Values(b) == [l \in DOMAIN t.lots |->
                      IF l \in few /\ t.bids[b].values[l] # Nobody THEN "unsuccessful" ELSE t.bids[b].values[l]]
      failed == IF HasLots(t) THEN Range(lots) \subseteq {"unsuccessful", "cancelled"} ELSE few # {}
  IN [t EXCEPT !.lots = lots,
               !.bids = [b \in Bids |-> [t.bids[b] EXCEPT !.values = Values(b)]],
               !.status = IF failed THEN "unsuccessful" ELSE @]

\* Bids that are to be reviewed for a part: with lots it is the value that is
\* looked at, so that drafts, which dialogues keep, are reviewed like the rest.
ToReview(t, p) ==
  IF HasLots(t)
  THEN {b \in Bids : t.bids[b].status \notin {"invalid", "deleted", Nobody} /\ t.bids[b].values[p] = "pending"}
  ELSE {b \in Bids : t.bids[b].status = "pending"}

PrepareQualifications(t) ==
  [t EXCEPT !.quals = [b \in Bids |-> [p \in Parts(t) |->
     IF p \in ActiveParts(t) /\ b \in ToReview(t, p) THEN "pending" ELSE t.quals[b][p]]]]

AllReviewed(t) == \A p \in ActiveParts(t) : ToReview(t, p) = {}

-----------------------------------------------------------------------------
(* Bids, in the tender period.                                             *)
Tendering == tender.status = "active.tendering" /\ ~ tender.over

\* A bid is for some of the lots.
Values(ls) == [l \in DOMAIN tender.lots |-> IF l \in ls THEN "pending" ELSE Nobody]
LotChoices == IF HasLots(tender) THEN SUBSET DOMAIN tender.lots \ {{}} ELSE {{}}

\* Only dialogues look at who it is of.
PostBid(b, firm, status, ls) ==
  /\ Tendering /\ tender.bids[b].status = Nobody
  /\ (firm # Nobody) = (tender.kind = "dialogue")
  /\ status \in {"draft", "pending"} /\ ls \in LotChoices
  /\ Store([tender EXCEPT !.bids[b] = [status |-> status, firm |-> firm, values |-> Values(ls)]])

\* The bidder can only have it pending after this, whatever it was.
PatchBid(b, ls) ==
  /\ Tendering /\ tender.bids[b].status \notin {Nobody, "deleted"}
  /\ ls \in LotChoices
  /\ Store([tender EXCEPT !.bids[b].status = "pending", !.bids[b].values = Values(ls)])

DeleteBid(b) ==
  /\ Tendering /\ tender.bids[b].status # Nobody
  /\ Store([tender EXCEPT !.bids[b].status = "deleted", !.bids[b].values = Values({})])

\* The owner changes the tender: the bids are to be confirmed.
EditTender ==
  /\ Tendering /\ tender.cancelling # Whole
  /\ Store([tender EXCEPT !.bids = [b \in Bids |->
       IF @[b].status \in {"deleted", "draft", Nobody} THEN @[b] ELSE [@[b] EXCEPT !.status = "invalid"]]])

-----------------------------------------------------------------------------
(* The review.                                                             *)

\* set_bid_status
SetBid(t, b, p, status) ==
  IF ~ HasLots(t) THEN [t EXCEPT !.bids[b].status = status]
  ELSE [t EXCEPT !.bids[b].values[p] = status,
                 !.bids[b].status = IF status \in {"pending", "active"} THEN status ELSE @]

\* Faulty: the decision is withdrawn and the bid keeps what it gave.
ReconsiderOnly(b, p) ==
  /\ tender.status = "active.pre-qualification"
  /\ tender.cancelling \notin {p, Whole}
  /\ tender.quals[b][p] \in {"pending", "active", "unsuccessful"}
  /\ Store([tender EXCEPT !.quals[b][p] = "pending"])

MayReview(p) ==
  tender.status = "active.pre-qualification" /\ tender.cancelling \notin {p, Whole}

Decide(b, p, decision) ==
  /\ MayReview(p) /\ tender.quals[b][p] = "pending"
  /\ Store([SetBid(tender, b, p, decision) EXCEPT !.quals[b][p] = decision])

\* The owner cancels a qualification, decided or not; the bid gets a new one.
Reconsider(b, p) ==
  /\ MayReview(p) /\ tender.quals[b][p] \in {"pending", "active", "unsuccessful"}
  /\ p \in ActiveParts(tender)
  /\ Store([SetBid(tender, b, p, "pending") EXCEPT !.quals[b][p] = "pending"])

\* Complaints that hold a tender up.  A dialogue counts those about lots that
\* are cancelled, too.
Holding(t) ==
  {k \in Nth(t.complaints) : /\ t.complaints[k].status \in Undecided
                             /\ t.kind = "EU" => t.complaints[k].about \in ActiveParts(t)}

StartStandStill ==
  /\ tender.status = "active.pre-qualification" /\ tender.cancelling = Nobody
  /\ tender.kind = "EU" => Holding(tender) = {}
  /\ AllReviewed(tender)
  /\ Store([tender EXCEPT !.status = "active.pre-qualification.stand-still", !.standStill = "running"])

-----------------------------------------------------------------------------
(* Complaints about qualifications.                                        *)

\* By a bidder that has been reviewed.
PostComplaint(p) ==
  /\ Len(tender.complaints) < MaxComplaints
  /\ tender.status = "active.pre-qualification.stand-still" /\ tender.standStill = "running"
  /\ p \in ActiveParts(tender) /\ (tender.cancelling \in {p, Whole} => tender.withdrawn)
  /\ \E b \in Bids : tender.quals[b][p] # Nobody
  /\ \E b \in Bids : tender.bids[b].status \in {"active", "unsuccessful"}
  /\ Store([tender EXCEPT !.complaints = Append(@, [about |-> p, status |-> "draft"])])

\* The bot or the author settles a draft, the reviewers decide; satisfying it
\* takes the tender back to the review.
PatchComplaint(k, to) ==
  /\ tender.status \in Reviewing /\ tender.complaints[k].about \in ActiveParts(tender)
  /\ Settled(tender.complaints[k].status, to) \/ Reviewed(tender.complaints[k].status, to)
  /\ LET t == [tender EXCEPT !.complaints[k].status = to] IN
     Store(IF to = "satisfied"
           THEN [t EXCEPT !.status = "active.pre-qualification", !.standStill = "unset"] ELSE t)

\* The owner reports what was done about it.
ResolveComplaint(k) ==
  /\ tender.status \in Reviewing /\ tender.complaints[k].about \in ActiveParts(tender)
  /\ tender.complaints[k].status = "satisfied"
  /\ tender.cancelling \notin {tender.complaints[k].about, Whole}
  /\ Store([tender EXCEPT !.complaints[k].status = "resolved"])

-----------------------------------------------------------------------------
(* Cancellations, of which TenderCancellation has the life.  cancelling is *)
(* what one is pending of, or was until a complaint made the owner         *)
(* withdraw it for which no amends are made yet.                           *)

MayCancel == tender.status \notin Finished \cup {"active.pre-qualification.stand-still"}

\* validate_absence_of_pending_accepted_satisfied_complaints
NoComplaintAgainst(x) ==
  \A k \in Nth(tender.complaints) :
    Concerns(x, tender.complaints[k].about) => tender.complaints[k].status \notin Undecided

StartCancellation(x) ==
  /\ x \in Parts(tender) \cup {Whole}
  /\ MayCancel /\ tender.cancelling = Nobody
  /\ x # Whole => x \in ActiveParts(tender)
  /\ NoComplaintAgainst(x)
  /\ Store([tender EXCEPT !.cancelling = x])

\* A satisfied complaint about it makes the owner withdraw it, and make amends.
WithdrawCancellation ==
  /\ MayCancel /\ tender.cancelling # Nobody /\ ~ tender.withdrawn
  /\ Store([tender EXCEPT !.withdrawn = TRUE])
RedressCancellation ==
  /\ tender.status \notin Finished /\ tender.withdrawn
  /\ Store([tender EXCEPT !.cancelling = Nobody, !.withdrawn = FALSE])

\* CancelTenderLot.cancel_tender
CancelTender(t) ==
  LET bids == IF t.status = "active.tendering" THEN [b \in Bids |-> NoBid(DOMAIN t.lots)]
              ELSE IF t.status \in Reviewing \cup {"active.auction"}
              THEN [b \in Bids |-> IF t.bids[b].status \in {"pending", "active"}
                                   THEN [t.bids[b] EXCEPT !.status = "invalid.pre-qualification"]
                                   ELSE t.bids[b]]
              ELSE t.bids
  IN [t EXCEPT !.bids = bids, !.status = "cancelled"]

\* _invalidate_lot_bids: the values for cancelled lots go.
WithoutLotBids(t, cancelled) ==
  LET Left(b) == [l \in DOMAIN t.lots |-> IF l \in cancelled THEN Nobody ELSE t.bids[b].values[l]]
      Status(b) == IF Range(Left(b)) = {Nobody} /\ t.bids[b].status \in {"pending", "active"}
                   THEN IF t.status = "active.tendering" THEN "invalid" ELSE "invalid.pre-qualification"
                   ELSE t.bids[b].status
  IN IF t.status \notin Reviewing \cup {"active.tendering", "active.auction"} THEN t
     ELSE [t EXCEPT !.bids = [b \in Bids |-> [t.bids[b] EXCEPT !.values = Left(b), !.status = Status(b)]]]

\* CancelTenderLot.cancel_lot
CancelLot(t, l) ==
  LET lots == [t.lots EXCEPT ![l] = "cancelled"]
      cancelled == {x \in DOMAIN lots : lots[x] = "cancelled"}
      s == [WithoutLotBids([t EXCEPT !.lots = lots], cancelled) EXCEPT
             !.quals = [b \in Bids |-> [p \in DOMAIN lots |->
               IF p \in cancelled /\ @[b][p] # Nobody THEN "cancelled" ELSE @[b][p]]]]
  IN IF Range(lots) = {"cancelled"} THEN CancelTender(s)
     ELSE IF Range(lots) \subseteq {"cancelled", "unsuccessful"} THEN [s EXCEPT !.status = "unsuccessful"] ELSE s

-----------------------------------------------------------------------------
(* The chronograph.                                                        *)

\* remove_draft_bids
WithoutDrafts(t) ==
  [t EXCEPT !.bids = [b \in Bids |-> IF @[b].status = "draft" THEN NoBid(DOMAIN t.lots) ELSE @[b]]]

\* Drafts are dropped at the end of the stand-still.
WithoutDraftComplaints(t) ==
  IF t.standStill # "over" THEN t
  ELSE [t EXCEPT !.complaints = [k \in Nth(@) |-> [t.complaints[k] EXCEPT !.status = Mistaken(@)]]]

EndOfTendering(t) ==
  LET s == [t EXCEPT !.status = "active.pre-qualification"] IN
  PrepareQualifications(CheckBidsCount(IF t.kind = "EU" THEN WithoutDrafts(s) ELSE s))

\* Faulty: nobody is counted again after the review.
EndOfStandStillUncounted(t) ==
  [t EXCEPT !.status = IF t.kind = "EU" THEN "active.auction" ELSE "active.stage2.pending"]

EndOfStandStill(t) ==
  CheckBidsCount([t EXCEPT !.status = IF t.kind = "EU" THEN "active.auction" ELSE "active.stage2.pending"])

\* check_status; inForce: the term of a pending cancellation is over and nothing
\* is left that speaks against it.  Two such terms do not end together.
CheckStatus(inForce) ==
  LET t == WithoutDraftComplaints(tender) IN
  /\ tender.status \notin Finished
  /\ inForce => /\ tender.cancelling # Nobody /\ ~ tender.withdrawn
                /\ NoComplaintAgainst(tender.cancelling)
  /\ Store(IF inForce
           THEN [(IF t.cancelling = Whole THEN CancelTender(t) ELSE CancelLot(t, t.cancelling))
                   EXCEPT !.cancelling = Nobody]
           ELSE IF t.cancelling # Nobody THEN t
           ELSE IF t.status = "active.tendering" /\ t.over THEN EndOfTendering(t)
           ELSE IF t.status = "active.pre-qualification.stand-still" /\ t.standStill = "over" /\ Holding(t) = {}
           THEN EndOfStandStill(t)
           ELSE t)

\* Time passes.
EndTenderPeriod ==
  /\ tender.status = "active.tendering" /\ ~ tender.over
  /\ tender' = [tender EXCEPT !.over = TRUE]
EndQualificationPeriod ==
  /\ tender.standStill = "running"
  /\ tender' = [tender EXCEPT !.standStill = "over"]

Bidder ==
  \E b \in Bids :
    \/ DeleteBid(b)
    \/ \E ls \in LotChoices :
         PatchBid(b, ls) \/ \E f \in Firms \cup {Nobody}, s \in {"draft", "pending"} : PostBid(b, f, s, ls)
Owner ==
  \/ EditTender \/ StartStandStill \/ WithdrawCancellation \/ RedressCancellation
  \/ \E b \in Bids, p \in Parts(tender) :
       Reconsider(b, p) \/ \E d \in {"active", "unsuccessful"} : Decide(b, p, d)
  \/ \E x \in Lots \cup {Whole} : StartCancellation(x)
Complaining ==
  \/ \E p \in Parts(tender) : PostComplaint(p)
  \/ \E k \in Nth(tender.complaints) :
       ResolveComplaint(k) \/ \E to \in ComplaintStatus : PatchComplaint(k, to)
Chronograph == \E inForce \in BOOLEAN : CheckStatus(inForce)
Time == EndTenderPeriod \/ EndQualificationPeriod

Next == Bidder \/ Owner \/ Complaining \/ Chronograph \/ Time

-----------------------------------------------------------------------------
\* Every field has the values the models of the code allow.
TypeOK ==
  /\ tender.kind \in {"EU", "dialogue"}
  /\ tender.status \in Reviewing \cup Finished \cup
       {"active.tendering", "active.auction", "active.stage2.pending", "active.stage2.waiting"}
  /\ tender.over \in BOOLEAN /\ tender.standStill \in {"unset", "running", "over"}
  /\ Range(tender.lots) \subseteq {"active", "unsuccessful", "cancelled"}
  /\ \A b \in Bids :
       /\ tender.bids[b].status \in Final \cup {"pending", "active"}
       /\ tender.bids[b].firm \in Firms \cup {Nobody}
       /\ Range(tender.bids[b].values) \subseteq {"pending", "active", "unsuccessful", Nobody}
       /\ Range(tender.quals[b]) \subseteq {"pending", "active", "unsuccessful", "cancelled", Nobody}
  /\ \A k \in Nth(tender.complaints) :
       tender.complaints[k] \in [about : Parts(tender), status : ComplaintStatus]
  /\ tender.cancelling \in Parts(tender) \cup {Whole, Nobody} /\ tender.withdrawn \in BOOLEAN

Competing == {"active.auction", "active.stage2.pending", "active.stage2.waiting"}

\* While bids are reviewed, and for good once the review is over, a bid stands
\* where the last decision about it put it: on every open lot its value, and
\* without lots the bid itself, says what its qualification says, however often
\* that was cancelled and decided anew.
DecisionsStand ==
  tender.status \in Reviewing \cup Competing =>
    \A p \in ActiveParts(tender), b \in Bids :
      tender.quals[b][p] # Nobody =>
        tender.quals[b][p] = IF HasLots(tender) THEN tender.bids[b].values[p] ELSE tender.bids[b].status

\* Nothing open stays behind a lot that is given up or cancelled: none of its
\* bids waits for a decision, and in openEU none is admitted to it.  (A bid may
\* name a cancelled lot, so that its value may be pending; a dialogue whose lot
\* is cancelled in active.stage2.pending goes back to the stand-still with it.)
ClosedLotsAreClosed ==
  tender.status \in Reviewing \cup {"active.auction"} =>
    \A b \in Bids, p \in Parts(tender) \ ActiveParts(tender) :
      /\ tender.quals[b][p] # "pending"
      /\ tender.kind = "EU" => tender.bids[b].values[p] # "active"

\* Who competes has been admitted, by a decision that no undecided complaint
\* calls into question, and every lot that is open has enough of them.
CompetitionIsSound ==
  tender.status \in Competing =>
    /\ AllReviewed(tender)
    /\ \A p \in ActiveParts(tender) :
         /\ Cardinality({b \in InPlay(tender, p) : tender.quals[b][p] = "active"}) >= MinBids
         /\ \A k \in Nth(tender.complaints) :
              tender.complaints[k].about = p => tender.complaints[k].status \notin Undecided

-----------------------------------------------------------------------------
\* Faulty: without what extend_next_check_by_complaint_period_ends adds.
next_check_unextended(t) ==
  \/ t.status = "active.tendering"
  \/ /\ t.status = "active.pre-qualification.stand-still" /\ t.standStill # "unset"
     /\ \A k \in Nth(t.complaints) :
          t.complaints[k].about \in ActiveParts(t) => t.complaints[k].status \notin Undecided

\* Tender.next_check has a date.
next_check(t) ==
  \/ t.cancelling # Nobody /\ ~ t.withdrawn
  \/ t.status = "active.tendering"
  \/ /\ t.status = "active.pre-qualification.stand-still" /\ t.standStill # "unset"
     /\ \A k \in Nth(t.complaints) :
          t.complaints[k].about \in ActiveParts(t) => t.complaints[k].status \notin Undecided
  \/ /\ t.standStill # "unset"
     /\ \E k \in Nth(t.complaints) : t.complaints[k].status = "draft"

\* Whenever the chronograph would change an openEU tender, or will once a period
\* ends that runs, the tender asks to be looked at.
NothingIsForgotten ==
  LET Ended == [tender EXCEPT !.over = TRUE,
                              !.standStill = IF @ = "running" THEN "over" ELSE @]
      t == WithoutDraftComplaints(Ended) IN
  /\ tender.status \notin Finished
  /\ \/ tender.cancelling # Nobody /\ ~ tender.withdrawn
     \/ t # Ended
     \/ t.status = "active.tendering"
     \/ t.status = "active.pre-qualification.stand-still" /\ t.standStill = "over" /\ Holding(t) = {}
  => next_check(tender)
=============================================================================
