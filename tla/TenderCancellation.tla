------------------------ MODULE TenderCancellation ------------------------
(***************************************************************************)
(* Cancelling an above-threshold (openUA) tender, or a lot of it, by the   *)
(* rules in force after RELEASE_2020_04_19, from the publication of the    *)
(* tender to the end of its auctions.                                      *)
(*                                                                         *)
(* The owner drafts a cancellation and submits it; it is then pending for  *)
(* CancelTerm, in which anyone can complain about it.  While it is    *)
(* pending the tender stands still.  When the term is over and no          *)
(* complaint about it is left the chronograph puts it in force; when the   *)
(* reviewers satisfy one the owner has to withdraw it and make amends.     *)
(* Complaints about the terms of the tender go on at the same time.        *)
(*                                                                         *)
(* Time is counted in units, Day of them in a day and Hour in an hour.  A  *)
(* deadline d falls between the units d - 1 and d: no request arrives at   *)
(* the very instant of a deadline.                                         *)
(* Every request changes one stored tender (DocumentStore), so that it is  *)
(* one step here.                                                          *)
(***************************************************************************)
EXTENDS CancellationRules, Integers, SequencesExt

CONSTANTS
  Lots,          \* the lots of the tender, {} if it has none
  TenderEnd,     \* tenderPeriod.endDate at publication
  TenderPeriod,  \* TENDER_PERIOD, the least length of tenderPeriod
  SubmitLead,    \* complaintPeriod ends so long before tenderPeriod
  CancelTerm,    \* length of complaintPeriod of a cancellation
  ExtraPeriod,   \* tendering_period_extra
  Day, Hour,     \* how many units of time they are
  MaxTime, MaxEnd, MaxCancellations, MaxComplaints, MaxObjections  \* bounds

ASSUME LotsAssumption == Whole \notin Lots
ASSUME PeriodsAssumption ==
  /\ TenderEnd \in Nat /\ SubmitLead \in Nat /\ SubmitLead <= TenderEnd
  /\ TenderPeriod \in Nat /\ TenderPeriod <= TenderEnd
  /\ CancelTerm \in Nat /\ ExtraPeriod \in Nat
ASSUME DayAssumption == Hour \in Nat \ {0} /\ Day \in Nat /\ Hour <= Day
ASSUME BoundsAssumption == MaxTime \in Nat /\ MaxEnd \in Nat

VARIABLES
  now,
  tender  \* the stored tender: status, lots, end (tenderPeriod.endDate),
          \* cancellations and complaints in the order they were posted

vars == <<now, tender>>

Targets == Lots \cup {Whole}
Terminal == {"unsuccessful", "cancelled"}
TenderStatus == {"active.tendering", "active.auction"} \cup Terminal
LotStatus == {"active"} \cup Terminal

Complaint == [about : Targets, status : ComplaintStatus]
\* complaints: the statuses of the complaints about the cancellation;
\* since: the start of its complaintPeriod, from the moment it is pending.
Cancellation == [of : Targets, since : Nat, complaints : Seq(ComplaintStatus),
                 status : {"draft", "pending", "active", "unsuccessful"}]

Published == [status |-> "active.tendering", lots |-> [l \in Lots |-> "active"],
              end |-> TenderEnd, cancellations |-> <<>>, complaints |-> <<>>]

Init == now = 0 /\ tender = Published

Over(d) == d <= now

-----------------------------------------------------------------------------
(* What a request may do while a cancellation is on its way.               *)

\* validate_absence_of_pending_accepted_satisfied_complaints
NoComplaintAgainst(t, x) ==
  \A k \in Nth(t.complaints) :
    Concerns(x, t.complaints[k].about) => t.complaints[k].status \notin Undecided

MayCancel(t, x) ==
  /\ t.status \notin Terminal
  /\ x \in Lots => t.lots[x] = "active"

-----------------------------------------------------------------------------
(* Cancellations.                                                          *)
Save(t) == tender' = t /\ UNCHANGED now

PostCancellation(x) ==
  /\ Len(tender.cancellations) < MaxCancellations
  /\ MayEditTender(tender) /\ MayCancel(tender, x)
  /\ tender.status # "active.auction"
  /\ ~ InTheWay(tender, x) /\ NoComplaintAgainst(tender, x)
  /\ Save([tender EXCEPT !.cancellations = Append(@,
             [of |-> x, since |-> 0, complaints |-> <<>>, status |-> "draft"])])

\* draft to pending: the term to complain starts
SubmitCancellation(i) ==
  LET c == tender.cancellations[i] IN
  /\ c.status = "draft"
  /\ MayCancel(tender, c.of) /\ ~ InTheWay(tender, c.of)
  /\ NoComplaintAgainst(tender, c.of)
  /\ Save([tender EXCEPT !.cancellations[i] =
             [c EXCEPT !.status = "pending", !.since = now]])

DropCancellation(i) ==
  LET c == tender.cancellations[i] IN
  /\ c.status = "draft"
  /\ MayCancel(tender, c.of) /\ ~ InTheWay(tender, c.of)
  /\ Save([tender EXCEPT !.cancellations[i].status = "unsuccessful"])

\* pending to unsuccessful, once a complaint about it is satisfied
WithdrawCancellation(i) ==
  LET c == tender.cancellations[i] IN
  /\ c.status = "pending"
  /\ MayCancel(tender, c.of)
  /\ \E j \in Nth(c.complaints) : c.complaints[j] = "satisfied"
  /\ Save([tender EXCEPT !.cancellations[i].status = "unsuccessful"])

-----------------------------------------------------------------------------
(* Complaints about the terms of the tender (BaseTenderComplaintResource). *)
InTendering == tender.status = "active.tendering"

PostComplaint(x) ==
  /\ Len(tender.complaints) < MaxComplaints
  /\ InTendering
  /\ ~ HasPending(tender, Whole) /\ ~ HasPending(tender, x)
  /\ Save([tender EXCEPT !.complaints = Append(@, [about |-> x, status |-> "draft"])])

PatchComplaint(k, to) ==
  /\ InTendering
  /\ \/ Settled(tender.complaints[k].status, to)
     \/ Reviewed(tender.complaints[k].status, to)
  /\ Save([tender EXCEPT !.complaints[k].status = to])

\* The owner of the tender reports what was done about it.
ResolveComplaint(k) ==
  /\ InTendering
  /\ tender.complaints[k].status = "satisfied"
  /\ ~ Held(tender, tender.complaints[k].about)
  /\ Save([tender EXCEPT !.complaints[k].status = "resolved"])

-----------------------------------------------------------------------------
(* Complaints about a cancellation (TenderCancellationComplaintResource).  *)
(* Patches look neither at the tender nor, but for the owner's, at the     *)
(* status of the cancellation.                                             *)

\* Anyone in active.tendering, the bidders later; a cancelled tender has none.
PostObjection(i) ==
  LET c == tender.cancellations[i] IN
  /\ Len(c.complaints) < MaxObjections
  /\ tender.status # "cancelled"
  /\ c.status = "pending" /\ ~ Over(c.since + CancelTerm)
  /\ Save([tender EXCEPT !.cancellations[i].complaints = Append(@, "draft")])

PatchObjection(i, j, to) ==
  LET from == tender.cancellations[i].complaints[j] IN
  /\ Settled(from, to) \/ Reviewed(from, to)
  /\ Save([tender EXCEPT !.cancellations[i].complaints[j] = to])

\* The whole days in a time, one more if an hour or more is left over, and one
\* at least; what is left over and shorter than an hour is dropped.
WholeDays(time) ==
  LET rest == time % Day
      days == time - rest
  IN IF rest >= Hour \/ days = 0 THEN days + Day ELSE days

Elapsed(since) == IF now > since THEN now - since ELSE 0

\* Faulty: only a tender that is still open gets its days back.
ProlongedInTime(t, since) ==
  IF t.status = "active.tendering" /\ now < t.end
  THEN [t EXCEPT !.end = @ + WholeDays(Elapsed(since))]
  ELSE t

\* recalculate_tender_periods: the days since the cancellation was submitted are
\* added to the time bidders have.
Prolonged(t, since) ==
  IF t.status = "active.tendering" /\ since < t.end
  THEN [t EXCEPT !.end = @ + WholeDays(Elapsed(since))]
  ELSE t

\* The roles of the owner: "resolve" on a satisfied complaint, "action" on a
\* pending one; either way tendererAction makes it resolved.
Answerable == {"pending", "satisfied"}

\* The owner reports what was done about it, after the withdrawal.
ResolveObjection(i, j) ==
  LET c == tender.cancellations[i] IN
  /\ c.status = "unsuccessful"
  /\ c.complaints[j] \in Answerable
  /\ Save(Prolonged([tender EXCEPT !.cancellations[i].complaints[j] = "resolved"],
                    c.since))

\* The owner moves the end of tenderPeriod; it has to be far enough from now.
ExtendTenderPeriod(e) ==
  /\ InTendering /\ MayEditTender(tender)
  /\ e # tender.end /\ TenderPeriod <= e /\ now + ExtraPeriod <= e
  /\ Save([tender EXCEPT !.end = e])

-----------------------------------------------------------------------------
(* The chronograph: check_status.                                          *)

DropDraft(k) == [k EXCEPT !.status = Mistaken(@)]
DropDrafts(c) == [c EXCEPT !.complaints = [j \in Nth(@) |-> Mistaken(@[j])]]

\* Faulty: the complaints about cancellations are forgotten.
CheckTenderDrafts(t) ==
  IF Over(t.end - SubmitLead)
  THEN [t EXCEPT !.complaints = [k \in Nth(@) |-> DropDraft(@[k])]]
  ELSE t

\* check_complaint_statuses_at_complaint_period_end; a cancellation has a
\* complaintPeriod since it was submitted.
CheckDrafts(t) ==
  [t EXCEPT
     !.complaints = IF Over(t.end - SubmitLead)
                    THEN [k \in Nth(@) |-> DropDraft(@[k])] ELSE @,
     !.cancellations = [i \in Nth(@) |->
        IF Over(@[i].since + CancelTerm) THEN DropDrafts(@[i]) ELSE @[i]]]

CancelTender(t) == [t EXCEPT !.status = "cancelled"]

LotStatuses(t) == {t.lots[l] : l \in Lots}

CancelLot(t, l) ==
  LET u == [t EXCEPT !.lots[l] = "cancelled"] IN
  IF LotStatuses(u) = {"cancelled"} THEN CancelTender(u)
  ELSE IF LotStatuses(u) \subseteq Terminal THEN [u EXCEPT !.status = "unsuccessful"]
  ELSE u

\* CancelTenderLot
Cancelled(t, x) == IF x = Whole THEN CancelTender(t) ELSE CancelLot(t, x)

Ripe(c) ==
  /\ c.status = "pending" /\ Over(c.since + CancelTerm)
  /\ \A j \in Nth(c.complaints) : c.complaints[j] \in Rejected \cup {"draft"}

\* Faulty: the complaints about the tender are not looked at again.
CheckCancellationOnly(v, i) ==
  LET c == v.tender.cancellations[i] IN
  IF ~ Ripe(c) THEN v
  ELSE [v EXCEPT !.tender =
          Cancelled([@ EXCEPT !.cancellations[i].status = "active"], c.of)]

\* One turn of the loop of check_cancellation_status; an error ends the visit.
CheckCancellation(v, i) ==
  LET c == v.tender.cancellations[i] IN
  IF ~ v.ok \/ ~ Ripe(c) THEN v
  ELSE [ok |-> NoComplaintAgainst(v.tender, c.of),
        tender |-> Cancelled([v.tender EXCEPT !.cancellations[i].status = "active"],
                             c.of)]

CheckCancellations(t) ==
  LET after[i \in 0 .. Len(t.cancellations)] ==
        IF i = 0 THEN [ok |-> TRUE, tender |-> t]
                 ELSE CheckCancellation(after[i - 1], i)
  IN after[Len(t.cancellations)]

\* has_unanswered_complaints; complaints about lots that are gone do not count.
Unanswered(t) ==
  \E k \in Nth(t.complaints) :
    /\ t.complaints[k].status \in Undecided
    /\ \/ t.complaints[k].about = Whole
       \/ t.lots[t.complaints[k].about] = "active"

TenderingOver(t) ==
  ~ Blocked(t) /\ t.status = "active.tendering" /\ Over(t.end) /\ ~ Unanswered(t)

\* check_bids: enough is what has two bids at least.
StartAuction(t, enough) ==
  LET lots == [l \in Lots |-> IF t.lots[l] = "active" /\ l \notin enough
                              THEN "unsuccessful" ELSE t.lots[l]]
      u == [t EXCEPT !.lots = lots]
      failed == IF Lots = {} THEN Whole \notin enough
                             ELSE LotStatuses(u) \subseteq Terminal
  IN [u EXCEPT !.status = IF failed THEN "unsuccessful" ELSE "active.auction"]

Crowds == IF Lots = {} THEN SUBSET {Whole} ELSE SUBSET Lots

\* What a visit finds before it looks at the bids.
Checked == CheckCancellations(CheckDrafts(tender))

\* A visit that ends in an error saves nothing.
Chronograph ==
  /\ tender.status \notin Terminal
  /\ LET v == Checked IN
     /\ v.ok
     /\ IF TenderingOver(v.tender)
        THEN \E enough \in Crowds : Save(StartAuction(v.tender, enough))
        ELSE Save(v.tender)

\* Faulty: the terms of the cancellations are forgotten.
NextChecksOfTender(t) ==
  {d \in {t.end} : t.status = "active.tendering" /\ ~ Unanswered(t)}
  \cup {d \in {t.end - SubmitLead} :
          \E k \in Nth(t.complaints) : t.complaints[k].status = "draft"}

\* next_check is the least of these times.
NextChecks(t) ==
  {d \in {t.end} : t.status = "active.tendering" /\ ~ Unanswered(t)}
  \cup {d \in {t.end - SubmitLead} :
          \E k \in Nth(t.complaints) : t.complaints[k].status = "draft"}
  \cup {c.since + CancelTerm :
          c \in {b \in ToSet(t.cancellations) : b.status = "pending"}}

NextMoment ==
  /\ now < MaxTime
  /\ now' = now + 1
  /\ UNCHANGED tender

Requests ==
  \/ \E x \in Targets : PostCancellation(x) \/ PostComplaint(x)
  \/ \E k \in Nth(tender.complaints) :
       ResolveComplaint(k) \/ \E to \in ComplaintStatus : PatchComplaint(k, to)
  \/ \E i \in Nth(tender.cancellations) :
       \/ SubmitCancellation(i) \/ DropCancellation(i) \/ WithdrawCancellation(i)
       \/ PostObjection(i)
       \/ \E j \in Nth(tender.cancellations[i].complaints) :
            \/ ResolveObjection(i, j)
            \/ \E to \in ComplaintStatus : PatchObjection(i, j, to)

Next ==
  \/ NextMoment \/ Chronograph \/ Requests
  \/ \E e \in TenderPeriod .. MaxEnd : ExtendTenderPeriod(e)

Spec == Init /\ [][Next]_vars

\* Time passes, the chronograph makes its visits, the reviewers decide and the
\* owner reports what it did about every satisfied complaint it may touch.
\* Nobody has to pay a draft, to draft a cancellation or to extend a period.
Reviewers ==
  \/ \E k \in Nth(tender.complaints), to \in ComplaintStatus \ {"draft", "mistaken"} :
       tender.complaints[k].status # "draft" /\ PatchComplaint(k, to)
  \/ \E i \in Nth(tender.cancellations) :
       \E j \in Nth(tender.cancellations[i].complaints), to \in ComplaintStatus :
         /\ tender.cancellations[i].complaints[j] # "draft"
         /\ PatchObjection(i, j, to)

DiligentOwner == \E k \in Nth(tender.complaints) : ResolveComplaint(k)

FairSpec ==
  /\ Spec
  /\ WF_vars(NextMoment) /\ WF_vars(Chronograph)
  /\ WF_vars(Reviewers) /\ WF_vars(DiligentOwner)

-----------------------------------------------------------------------------
TypeOK ==
  /\ now \in 0 .. MaxTime
  /\ tender.status \in TenderStatus
  /\ tender.lots \in [Lots -> LotStatus]
  /\ tender.end \in Nat
  /\ tender.cancellations \in Seq(Cancellation)
  /\ tender.complaints \in Seq(Complaint)

Active(c) == c.status = "active"

\* A cancellation in force was left without any complaint that could still
\* undo it: none is undecided or satisfied, and no draft is left that a late
\* payment could bring to the reviewers, so the drafts are dropped before the
\* cancellations are looked at.  What it cancels is closed for good.
InForceIsFinal ==
  \A c \in ToSet(tender.cancellations) : Active(c) =>
    /\ ToSet(c.complaints) \subseteq Rejected
    /\ IF c.of = Whole THEN tender.status \in Terminal
                       ELSE tender.lots[c.of] = "cancelled"

\* A cancellation in force leaves nothing open, in values the model allows.
CancelledForGood == TypeOK /\ InForceIsFinal

\* Complaints about the tender that the cancellation would bury are never
\* undecided at the moment it comes into force, although they are posted and
\* paid while it is pending, long after it was checked against them.
NoComplaintBuried ==
  \A i \in Nth(tender.cancellations) :
    /\ ~ Active(tender.cancellations[i])
    /\ Active(tender'.cancellations[i])
    => NoComplaintAgainst(tender', tender.cancellations[i].of)

\* The tender leaves active.tendering for the auction only when its owner has
\* no cancellation on the way, has made amends for those withdrawn, and when
\* no bidder's complaint about what is still for sale is undecided.
AuctionStartsClear ==
  InTendering /\ tender'.status = "active.auction" =>
    /\ Over(tender.end)
    /\ \A c \in ToSet(tender'.cancellations) :
         /\ c.status # "pending"
         /\ c.status = "unsuccessful" /\ c.complaints # <<>> =>
              "resolved" \in ToSet(c.complaints)
    /\ \A k \in Nth(tender'.complaints) :
         tender'.complaints[k].status \in Undecided =>
           /\ tender'.complaints[k].about \in Lots
           /\ tender'.lots[tender'.complaints[k].about] # "active"

\* Neither a cancellation nor the auction overtakes those who complain.
NothingIsBuried == [][NoComplaintBuried /\ AuctionStartsClear]_vars

\* Bidders lose less than an hour to a cancellation that was withdrawn: when the
\* owner has made amends, also after the period was over, they have the time they
\* had when it was submitted, but for what recalculate_tender_periods drops.
TimeIsGivenBack ==
  [][\A i \in Nth(tender.cancellations) :
       /\ InTendering /\ Unredressed(tender.cancellations[i])
       /\ ~ Unredressed(tender'.cancellations[i])
       /\ tender.cancellations[i].since < tender.end
       => (tender'.end - now) + Hour > tender.end - tender.cancellations[i].since]_vars

\* Whenever a visit would put a cancellation in force or end the tendering,
\* next_check is due: the chronograph never misses it.
DecisionsAreScheduled ==
  LET v == Checked
      Decided == \/ TenderingOver(v.tender)
                 \/ \E i \in Nth(tender.cancellations) :
                      v.tender.cancellations[i].status # tender.cancellations[i].status
  IN tender.status \notin Terminal /\ v.ok /\ Decided =>
       \E d \in NextChecks(tender) : Over(d)

\* A pending cancellation whose term is over and about which no complaint is
\* left comes into force by itself, unless the tender ends otherwise.
Uncontested(c) ==
  /\ c.status = "pending" /\ Over(c.since + CancelTerm)
  /\ ToSet(c.complaints) \subseteq Rejected

CancellationTakesEffect ==
  \A i \in 1 .. MaxCancellations :
    (i \in Nth(tender.cancellations) /\ Uncontested(tender.cancellations[i]))
      ~> (tender.status \in Terminal
          \/ (i \in Nth(tender.cancellations) /\ Active(tender.cancellations[i])))

=============================================================================
