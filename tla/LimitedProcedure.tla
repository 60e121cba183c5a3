------------------------- MODULE LimitedProcedure -------------------------
(***************************************************************************)
(* The limited procedures: a reporting tender (the owner just says who got *)
(* the contract) and a negotiation, or negotiation.quick, where each award *)
(* can be complained about during a stand-still.  There are no bids: the   *)
(* owner posts the awards himself.                                         *)
(*                                                                         *)
(* A complaint period is "running" or "over"; an award and a cancellation  *)
(* have one ("none" before they are decided and submitted).  An award      *)
(* takes one complaint, a cancellation MaxObjections of them.              *)
(***************************************************************************)
EXTENDS CancellationRules, FiniteSets

CONSTANTS
  Lots,                                        \* lots a negotiation may have
  MaxAwards, MaxCancellations, MaxObjections   \* bounds

ASSUME LimitedAssumption == Whole \notin Lots /\ MaxAwards \in Nat

VARIABLE tender  \* the stored document

vars == <<tender>>

\* What becomes of a complaint; one found invalid or stopped ends as declined.
Decisions == {"pending", "mistaken", "accepted", "declined", "satisfied", "resolved"}
Terminal == {"complete", "unsuccessful", "cancelled"}
Live == {"pending", "active"}
Negotiation(t) == t.type = "negotiation"

Init ==
  \E type \in {"reporting", "negotiation"}, lots \in {{}, Lots} :
    /\ type = "reporting" => lots = {}
    /\ tender = [type |-> type, status |-> "draft", lots |-> [l \in lots |-> "active"],
                 awards |-> <<>>, cancellations |-> <<>>]

NewAward(u) == [lot |-> u, status |-> "pending", period |-> "none",
                complaint |-> "none", contract |-> "none"]

-----------------------------------------------------------------------------
(* Reading the document.                                                   *)
LotsOf(t) == DOMAIN t.lots
Units(t) == IF LotsOf(t) = {} THEN {Whole} ELSE LotsOf(t)
AwardsFor(t, u) == {i \in Nth(t.awards) : t.awards[i].lot = u}
Last(indices) == CHOOSE i \in indices : \A j \in indices : j <= i
LiveFor(t, u) == {i \in AwardsFor(t, u) : t.awards[i].status \in Live}

\* validate_absence_of_pending_accepted_satisfied_complaints
NoComplaintAgainst(t, x) ==
  \A i \in Nth(t.awards) :
    Concerns(x, t.awards[i].lot) => t.awards[i].complaint \notin Undecided

\* edit_tender: a reporting tender knows no cancellations under way.
MayEdit(t) == t.status = "active" /\ (Negotiation(t) => MayEditTender(t))

Save(t) == tender' = t

-----------------------------------------------------------------------------
(* The tender and its lots, which stay as they are from the first award on. *)
Publish == tender.status = "draft" /\ Save([tender EXCEPT !.status = "active"])

PostLot(l) ==
  /\ Negotiation(tender) /\ MayEdit(tender) /\ tender.awards = <<>>
  /\ l \notin LotsOf(tender)
  /\ Save([tender EXCEPT !.lots =
             [x \in LotsOf(tender) \cup {l} |-> IF x = l THEN "active" ELSE tender.lots[x]]])

DeleteLot(l) ==
  /\ MayEdit(tender) /\ tender.awards = <<>>
  /\ ~ Held(tender, l)
  /\ Save([tender EXCEPT !.lots = [x \in LotsOf(tender) \ {l} |-> tender.lots[x]]])

-----------------------------------------------------------------------------
(* Awards.                                                                 *)

\* validate_create_new_award, validate_create_new_award_with_lots
MayAward(t, u) ==
  IF LotsOf(t) = {}
  THEN t.awards # <<>> => t.awards[Len(t.awards)].status \notin Live
  ELSE LiveFor(t, u) = {}

PostAward(u) ==
  /\ Len(tender.awards) < MaxAwards
  /\ MayEdit(tender) /\ ~ Held(tender, u) /\ MayAward(tender, u)
  /\ Save([tender EXCEPT !.awards = Append(@, NewAward(u))])

\* The lot an award is in is asked about, not the one it is moved to.
AwardEditable(i) == MayEdit(tender) /\ ~ Held(tender, tender.awards[i].lot)

\* The request that changes the status of an award may move it to another lot
\* u at the same time.  Another award is already using this lot: a live one is
\* refused then; one that is rejected or cancelled is in nobody's way.
FreeFor(i, u) == u # Whole => LiveFor(tender, u) \subseteq {i}

\* Faulty: an award moves to a lot that has one already.
MoveAwardAnywhere(i, u) ==
  /\ AwardEditable(i) /\ tender.awards[i].status = "pending"
  /\ Save([tender EXCEPT !.awards[i].lot = u])

\* A pending award is moved to another lot and stays pending.
MoveAward(i, u) ==
  /\ AwardEditable(i) /\ tender.awards[i].status = "pending" /\ FreeFor(i, u)
  /\ Save([tender EXCEPT !.awards[i].lot = u])

Period(t, name) == IF Negotiation(t) THEN name ELSE "none"

ActivateAward(i, u) ==
  /\ AwardEditable(i) /\ tender.awards[i].status = "pending" /\ FreeFor(i, u)
  /\ Save([tender EXCEPT !.awards[i] =
       [@ EXCEPT !.lot = u, !.status = "active", !.contract = "pending",
                 !.period = Period(tender, "running")]])

RejectAward(i, u) ==
  /\ AwardEditable(i) /\ tender.awards[i].status = "pending"
  /\ Save([tender EXCEPT !.awards[i] =
       [@ EXCEPT !.lot = u, !.status = "unsuccessful", !.period = Period(tender, "over")]])

\* The stand-still of a cancelled award ends, its contract is cancelled.
CancelledAward(a, u) ==
  [a EXCEPT !.lot = u, !.status = "cancelled",
            !.period = IF @ = "none" THEN "none" ELSE "over",
            !.contract = IF @ = "none" THEN "none" ELSE "cancelled"]

CancelAward(i, u) ==
  /\ AwardEditable(i) /\ tender.awards[i].status = "active"
  /\ tender.awards[i].complaint # "satisfied"
  /\ Save([tender EXCEPT !.awards[i] = CancelledAward(@, u)])

\* A satisfied complaint: every award of the lot (the one this award is moved
\* to) is cancelled with it.  A pending one has no complaintPeriod: its endDate
\* raises, nothing is saved.
CancelAppealedAward(i, u) ==
  LET same == AwardsFor(tender, u) \cup {i} IN
  /\ AwardEditable(i) /\ tender.awards[i].status \in {"active", "unsuccessful"}
  /\ tender.awards[i].complaint = "satisfied"
  /\ \A j \in same : tender.awards[j].period # "none"
  /\ Save([tender EXCEPT !.awards = [j \in Nth(@) |->
       IF j \in same THEN CancelledAward(@[j], u) ELSE @[j]]])

-----------------------------------------------------------------------------
(* Contracts.                                                              *)

\* check_tender_negotiation_status: the outcome of one lot.
LotOutcome(t, l) ==
  LET awards == AwardsFor(t, l) IN
  IF \/ t.lots[l] # "active" \/ awards = {}
     \/ \E i \in awards : t.awards[i].complaint = "pending" \/ t.awards[i].period = "running"
  THEN t.lots[l]
  ELSE IF t.awards[Last(awards)].status = "unsuccessful" THEN "unsuccessful"
  ELSE IF t.awards[Last(awards)].contract = "active" THEN "complete"
  ELSE t.lots[l]

LotStatuses(t) == {t.lots[l] : l \in LotsOf(t)}

FromLots(t) ==
  LET statuses == LotStatuses(t) IN
  IF statuses = {"cancelled"} THEN "cancelled"
  ELSE IF statuses \subseteq {"unsuccessful", "cancelled"} THEN "unsuccessful"
  ELSE IF statuses \subseteq Terminal THEN "complete"
  ELSE t.status

\* contracts[-1]
LastContract(t) ==
  LET made == {i \in Nth(t.awards) : t.awards[i].contract # "none"} IN
  IF made = {} THEN "none" ELSE t.awards[Last(made)].contract

\* check_tender_status and check_tender_negotiation_status
CheckTenderStatus(t) ==
  IF LotsOf(t) = {}
  THEN [t EXCEPT !.status = IF LastContract(t) = "active" THEN "complete" ELSE @]
  ELSE LET u == [t EXCEPT !.lots = [l \in LotsOf(t) |-> LotOutcome(t, l)]]
       IN [u EXCEPT !.status = FromLots(u)]

\* It reads the end of the complaintPeriod of every award of an open lot; an
\* award that is not decided yet has none, which raises.
Decided(t) ==
  \A i \in Nth(t.awards) :
    t.awards[i].lot \in LotsOf(t) /\ t.lots[t.awards[i].lot] = "active" =>
      t.awards[i].period # "none"

\* Every change of a contract looks at the status of the tender.
SaveContract(i, status) ==
  LET t == [tender EXCEPT !.awards[i].contract = status] IN
  /\ Decided(t)
  /\ Save(CheckTenderStatus(t))

\* Faulty: the cancellations of the lot are not looked at.
MaySignDespiteCancellation(t, i) ==
  /\ t.awards[i].period = "over"
  /\ \A j \in AwardsFor(t, t.awards[i].lot) : t.awards[j].complaint \notin Undecided

\* validate_contract_with_cancellations_and_contract_signing
MaySign(t, i) ==
  LET u == t.awards[i].lot
      against == {k \in Nth(t.cancellations) : t.cancellations[k].of = u}
  IN /\ \A k \in against :
          /\ u # Whole => t.cancellations[k].status = "unsuccessful"
          /\ \A j \in Nth(t.cancellations[k].complaints) :
               t.cancellations[k].complaints[j] \notin Undecided
     /\ t.awards[i].period = "over"
     /\ \A j \in AwardsFor(t, u) : t.awards[j].complaint \notin Undecided

SignContract(i) ==
  /\ MayEdit(tender)
  /\ tender.awards[i].contract \in {"pending", "terminated"}
  /\ Negotiation(tender) => MaySign(tender, i)
  /\ SaveContract(i, "active")

\* The owner gives a contract up, or changes something else in it.
PatchContract(i, status) ==
  LET old == tender.awards[i].contract IN
  /\ MayEdit(tender)
  /\ \/ old \in {"pending", "terminated", "active"} /\ status = old
     \/ old = "pending" /\ status \in {"terminated", "cancelled"}
  /\ SaveContract(i, status)

-----------------------------------------------------------------------------
(* Complaints about awards.                                                *)
PostComplaint(i) ==
  LET a == tender.awards[i] IN
  /\ tender.status = "active"
  /\ a.status \in {"active", "unsuccessful"} /\ a.period = "running"
  /\ ~ HasPending(tender, Whole) /\ ~ HasPending(tender, a.lot)
  /\ a.complaint = "none"
  /\ Save([tender EXCEPT !.awards[i].complaint = "draft"])

PatchComplaint(i, to) ==
  LET from == tender.awards[i].complaint IN
  /\ tender.status = "active"
  /\ Settled(from, to) \/ Reviewed(from, to) \/ (from = "satisfied" /\ to = "resolved")
  /\ Save([tender EXCEPT !.awards[i].complaint = to])

-----------------------------------------------------------------------------
(* Cancellations.                                                          *)

\* validate_cancellation_status: what has a winner is cancelled with a term
\* for complaints, anything else at once.
WithComplaints(t, x) ==
  /\ Negotiation(t)
  /\ \E i \in Nth(t.awards) : t.awards[i].status = "active" /\ x \in {Whole, t.awards[i].lot}

\* validate_operation_cancellation_in_complaint_period
NoStandStill(t, x) ==
  Negotiation(t) => \A i \in Nth(t.awards) :
    x \in {Whole, t.awards[i].lot} => t.awards[i].period # "running"

MayCancel(t, x) ==
  /\ t.status \notin Terminal /\ NoStandStill(t, x)
  /\ x \in LotsOf(t) => t.lots[x] = "active"
  /\ Negotiation(t) => ~ InTheWay(t, x)
  /\ x = Whole => "complete" \notin LotStatuses(t)

PostCancellation(x) ==
  /\ Len(tender.cancellations) < MaxCancellations
  /\ tender.status = "draft" \/ MayEdit(tender)
  /\ MayCancel(tender, x)
  /\ Negotiation(tender) => NoComplaintAgainst(tender, x)
  /\ Save([tender EXCEPT !.cancellations = Append(@,
       [of |-> x, status |-> "draft", period |-> "none", during |-> {},
        complaints |-> <<>>])])

\* The cancellation of a lot that was deleted since is refused.
KnownTarget(t, x) == x = Whole \/ x \in LotsOf(t)

SubmitCancellation(k) ==
  LET c == tender.cancellations[k] IN
  /\ c.status = "draft" /\ MayCancel(tender, c.of) /\ KnownTarget(tender, c.of)
  /\ WithComplaints(tender, c.of) /\ NoComplaintAgainst(tender, c.of)
  /\ Save([tender EXCEPT !.cancellations[k] =
       [c EXCEPT !.status = "pending", !.period = "running",
                 !.during = {i \in Nth(tender.awards) : tender.awards[i].period = "running"}]])

\* CancelTenderLot
Cancelled(t, x) ==
  IF x = Whole THEN [t EXCEPT !.status = "cancelled"]
  ELSE LET u == [t EXCEPT !.lots[x] = "cancelled"] IN [u EXCEPT !.status = FromLots(u)]

EnactCancellation(k) ==
  LET c == tender.cancellations[k] IN
  /\ c.status = "draft" /\ MayCancel(tender, c.of) /\ KnownTarget(tender, c.of)
  /\ ~ WithComplaints(tender, c.of) /\ NoComplaintAgainst(tender, c.of)
  /\ Save(Cancelled([tender EXCEPT !.cancellations[k].status = "active"], c.of))

DropCancellation(k) ==
  LET c == tender.cancellations[k] IN
  /\ c.status = "draft" /\ MayCancel(tender, c.of) /\ KnownTarget(tender, c.of)
  /\ Save([tender EXCEPT !.cancellations[k].status = "unsuccessful"])

\* Withdrawn after a satisfied complaint; it is not in its own way.
WithdrawCancellation(k) ==
  LET c == tender.cancellations[k] IN
  /\ c.status = "pending" /\ tender.status \notin Terminal
  /\ NoStandStill(tender, c.of)
  /\ c.of \in LotsOf(tender) => tender.lots[c.of] = "active"
  /\ WithComplaints(tender, c.of)
  /\ \E j \in Nth(c.complaints) : c.complaints[j] = "satisfied"
  /\ Save([tender EXCEPT !.cancellations[k].status = "unsuccessful"])

PostObjection(k) ==
  LET c == tender.cancellations[k] IN
  /\ c.status = "pending" /\ c.period = "running" /\ Len(c.complaints) < MaxObjections
  /\ Save([tender EXCEPT !.cancellations[k].complaints = Append(@, "draft")])

PatchObjection(k, j, to) ==
  LET from == tender.cancellations[k].complaints[j] IN
  /\ Settled(from, to) \/ Reviewed(from, to)
  /\ Save([tender EXCEPT !.cancellations[k].complaints[j] = to])

\* Faulty: a stand-still that had ended before gets the days as well.
ProlongAnyEnded(k) ==
  IF tender.status = "active" THEN {i \in Nth(tender.awards) : tender.awards[i].period # "none"} ELSE {}

\* recalculate_tender_periods: every stand-still that ran when the cancellation
\* was submitted gets the days since then back, so that it runs on from now; it
\* may be of another lot, and of an award whose contract was signed meanwhile.
Prolonged(k) == IF tender.status = "active" THEN tender.cancellations[k].during ELSE {}

ResolveObjection(k, j) ==
  LET c == tender.cancellations[k] IN
  /\ c.status = "unsuccessful" /\ c.complaints[j] \in {"pending", "satisfied"}
  /\ Save([tender EXCEPT
       !.cancellations[k].complaints[j] = "resolved",
       !.awards = [i \in Nth(@) |->
          IF i \in Prolonged(k) THEN [@[i] EXCEPT !.period = "running"] ELSE @[i]]])

-----------------------------------------------------------------------------
(* Time, and the chronograph.                                              *)
AwardPeriodEnds(i) ==
  /\ tender.status \notin Terminal /\ tender.awards[i].period = "running"
  /\ Save([tender EXCEPT !.awards[i].period = "over"])

CancellationPeriodEnds(k) ==
  /\ tender.status \notin Terminal /\ tender.cancellations[k].period = "running"
  /\ Save([tender EXCEPT !.cancellations[k].period = "over"])

\* check_complaint_statuses_at_complaint_period_end
DropDraft(a) == IF a.period = "over" THEN [a EXCEPT !.complaint = Mistaken(@)] ELSE a

DropDrafts(c) ==
  IF c.period = "over" THEN [c EXCEPT !.complaints = [j \in Nth(@) |-> Mistaken(@[j])]] ELSE c

CheckDrafts(t) ==
  [t EXCEPT !.awards = [i \in Nth(@) |-> DropDraft(@[i])],
            !.cancellations = [k \in Nth(@) |-> DropDrafts(@[k])]]

Ripe(c) ==
  /\ c.status = "pending" /\ c.period = "over"
  /\ \A j \in Nth(c.complaints) : c.complaints[j] \in Rejected \cup {"draft"}

\* check_cancellation_status, all of it or nothing: a complaint about an award
\* makes CancelTenderLot raise.
CheckCancellations(t) ==
  LET after[k \in 0 .. Len(t.cancellations)] ==
        IF k = 0 THEN t
        ELSE IF Ripe(after[k - 1].cancellations[k])
        THEN Cancelled([after[k - 1] EXCEPT !.cancellations[k].status = "active"],
                       t.cancellations[k].of)
        ELSE after[k - 1]
  IN after[Len(t.cancellations)]

CheckStatus(t) == CheckCancellations(CheckDrafts(t))

\* No cancellation that would come into force is up against a complaint.
VisitSucceeds(t) ==
  \A k \in Nth(t.cancellations) :
    Ripe(t.cancellations[k]) => NoComplaintAgainst(CheckDrafts(t), t.cancellations[k].of)

\* Faulty: only the cancellations are scheduled.
next_check_due_cancellations(t) ==
  /\ Negotiation(t) /\ t.status \notin Terminal
  /\ \E k \in Nth(t.cancellations) :
       t.cancellations[k].status = "pending" /\ t.cancellations[k].period = "over"

next_check_due(t) ==
  /\ Negotiation(t) /\ t.status \notin Terminal
  /\ \/ \E k \in Nth(t.cancellations) :
          t.cancellations[k].status = "pending" /\ t.cancellations[k].period = "over"
     \/ \E i \in Nth(t.awards) : t.awards[i].complaint = "draft" /\ t.awards[i].period = "over"

Chronograph ==
  /\ next_check_due(tender) /\ VisitSucceeds(tender)
  /\ Save(CheckStatus(tender))

AwardStep(i) ==
  \/ SignContract(i) \/ PostComplaint(i) \/ AwardPeriodEnds(i)
  \/ \E u \in Units(tender) :
       \/ MoveAward(i, u) \/ ActivateAward(i, u) \/ RejectAward(i, u)
       \/ CancelAward(i, u) \/ CancelAppealedAward(i, u)
  \/ \E to \in Decisions : PatchComplaint(i, to)
  \/ \E status \in {"pending", "terminated", "cancelled", "active"} : PatchContract(i, status)

CancellationStep(k) ==
  \/ SubmitCancellation(k) \/ EnactCancellation(k) \/ DropCancellation(k)
  \/ WithdrawCancellation(k) \/ PostObjection(k) \/ CancellationPeriodEnds(k)
  \/ \E j \in Nth(tender.cancellations[k].complaints) :
       ResolveObjection(k, j) \/ \E to \in Decisions : PatchObjection(k, j, to)

Next ==
  \/ Publish \/ Chronograph
  \/ \E l \in Lots : PostLot(l)
  \/ \E l \in LotsOf(tender) : DeleteLot(l)
  \/ \E u \in Units(tender) : PostAward(u)
  \/ \E x \in LotsOf(tender) \cup {Whole} : PostCancellation(x)
  \/ \E i \in Nth(tender.awards) : AwardStep(i)
  \/ \E k \in Nth(tender.cancellations) : CancellationStep(k)

Spec == Init /\ [][Next]_vars

-----------------------------------------------------------------------------
AwardRecord ==
  [lot : Lots \cup {Whole}, status : Live \cup {"unsuccessful", "cancelled"},
   period : {"none", "running", "over"}, complaint : ComplaintStatus \cup {"none"},
   contract : {"none", "pending", "terminated", "active", "cancelled"}]

CancellationRecord ==
  [of : Lots \cup {Whole}, status : Live \cup {"draft", "unsuccessful"},
   period : {"none", "running", "over"}, during : SUBSET (1 .. MaxAwards),
   complaints : Seq(ComplaintStatus)]

TypeOK ==
  /\ tender.status \in {"draft", "active"} \cup Terminal
  /\ LotsOf(tender) \subseteq Lots
  /\ LotStatuses(tender) \subseteq {"active"} \cup Terminal
  /\ tender.awards \in Seq(AwardRecord)
  /\ tender.cancellations \in Seq(CancellationRecord)

\* No lot (no tender without lots) ever has two awards that are pending or
\* active, although the owner posts them as he likes and moves them about.
OneLiveAward == \A u \in Units(tender) : Cardinality(LiveFor(tender, u)) <= 1

\* Nobody signs while someone may still complain about the award.  Only a
\* resolved objection to a cancellation that was submitted during its
\* stand-still makes the stand-still of a signed award run again.
StandStillKept ==
  \A i \in Nth(tender.awards) :
    tender.awards[i].contract = "active" /\ tender.awards[i].period = "running" =>
      \E k \in Nth(tender.cancellations) :
        /\ i \in tender.cancellations[k].during
        /\ \E j \in Nth(tender.cancellations[k].complaints) :
             tender.cancellations[k].complaints[j] = "resolved"

\* A tender is cancelled as a whole only if no part of it was completed.
CompleteIsNotCancelled ==
  tender.status = "cancelled" => "complete" \notin LotStatuses(tender)

\* What a pending cancellation is about is left alone: none of its awards is
\* decided, undone, moved away or signed for.  As an award is held by the lot
\* it is in only, it may come from another lot, but not as a live award next to
\* a live one; and if it comes because a complaint about it was satisfied, the
\* awards of the lot are cancelled with it.
AwardsOf(t, x) == {i \in Nth(t.awards) : x \in {Whole, t.awards[i].lot}}
Untouched(old, new) ==
  /\ new.lot = old.lot /\ new.status = old.status
  /\ new.contract = "active" <=> old.contract = "active"
TakenAlong(t, u, x) ==
  /\ \E j \in AwardsOf(u, x) \ AwardsOf(t, x) : t.awards[j].complaint = "satisfied"
  /\ \A i \in AwardsOf(u, x) : u.awards[i].status = "cancelled"
Frozen(t, u, x) ==
  /\ AwardsOf(t, x) \subseteq AwardsOf(u, x)
  /\ TakenAlong(t, u, x) \/ \A i \in AwardsOf(t, x) : Untouched(t.awards[i], u.awards[i])
  /\ \A j \in AwardsOf(u, x) \ AwardsOf(t, x) :
       /\ j \in Nth(t.awards) /\ u.awards[j].contract # "active"
       /\ u.awards[j].status \in Live => LiveFor(t, x) = {}
PendingCancellationFreezes ==
  [][\A x \in LotsOf(tender) \cup {Whole} :
       HasPending(tender, x) /\ HasPending(tender', x) => Frozen(tender, tender', x)]_vars

\* next_check never forgets: when a visit would change the tender, one is due.
\* Drafts about a withdrawn cancellation are not scheduled.
WithoutObjections(t) ==
  [t EXCEPT !.cancellations = [k \in Nth(@) |-> [@[k] EXCEPT !.complaints = <<>>]]]
NothingIsForgotten ==
  Negotiation(tender) /\ tender.status \notin Terminal /\ ~ next_check_due(tender) =>
    WithoutObjections(CheckStatus(tender)) = WithoutObjections(tender)
=============================================================================
