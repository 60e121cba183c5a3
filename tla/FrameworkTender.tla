--------------------------- MODULE FrameworkTender ---------------------------
(***************************************************************************)
(* closeFrameworkAgreementUA, from its auction on: unlike elsewhere the    *)
(* best maxAwardsCount bids get awards together, the owner decides them    *)
(* all and starts one stand-still for them, and the winners make one       *)
(* agreement, with a contract each.  Until the auction the tender is that  *)
(* of PreQualification; milestones of awards are those of Awarding.        *)
(*                                                                         *)
(* Such a tender has one lot.  Bids are numbered from the best on, and the *)
(* value of a bid is its number.  An agreement has one item, of which its  *)
(* contracts give the unit price (0 until it is set).                      *)
(***************************************************************************)
EXTENDS CancellationRules, Sorting, FiniteSets, SequencesExt

CONSTANTS
  Lot, Nobody,
  NBids,
  MinBids,         \* MIN_BIDS_NUMBER, 3 in the code
  MaxAwardsCount,  \* given by the owner, at least MinBids
  MaxAwards,       \* bound on the awards made
  Prices,          \* the unit prices that contracts may give
  MaxComplaints    \* bound on the complaints about them

ASSUME BidsAssumption == NBids \in Nat /\ MinBids \in Nat /\ MaxAwardsCount \in Nat
ASSUME PricesAssumption == Prices \subseteq Nat
ASSUME NobodyAssumption == Nobody \notin Nat

VARIABLE tender

Bids == 1 .. NBids
Finished == {"complete", "unsuccessful", "cancelled"}
Deciding == {"active.qualification", "active.qualification.stand-still"}
NoAgreement == [status |-> "none", contracts |-> <<>>]

Init ==
  tender = [status |-> "active.auction", period |-> "unset", awards |-> <<>>,
            agreement |-> NoAgreement, clarified |-> FALSE,
            cancelling |-> Nobody, withdrawn |-> FALSE]

Save(t) == tender' = t

-----------------------------------------------------------------------------
(* What is computed of the awards.                                         *)
NewAward(b) == [bid |-> b, status |-> "pending", period |-> "unset", complaint |-> "none"]
Awards(t) == ToSet(t.awards)
BidsWith(t, statuses) == {a.bid : a \in {x \in Awards(t) : x.status \in statuses}}
Disputed(t) == \E a \in Awards(t) : a.complaint \in Undecided

\* Slice [:max_awards]: the best of them.
Best(bids) == {b \in bids : Cardinality({c \in bids : c < b}) < MaxAwardsCount}

\* Faulty: bids that were rejected are not left out.
AddNextAwardsToAll(t, only) ==
  LET statuses == {a.status : a \in Awards(t)}
      selected == Best(IF only # Nobody THEN {only} ELSE Bids)
      new == Ascending(selected \ BidsWith(t, {"pending", "active"}))
  IN IF new = <<>> \/ (statuses # {} /\ statuses \subseteq {"pending", "active"}) THEN t
     ELSE [t EXCEPT !.awards = @ \o [i \in DOMAIN new |-> NewAward(new[i])],
                    !.status = "active.qualification", !.period = "unset"]

\* add_next_awards; only: the bid whose award has just been given up.
AddNextAwards(t, only) ==
  LET statuses == {a.status : a \in Awards(t)}
      selected == Best(IF only # Nobody THEN {only} ELSE Bids \ BidsWith(t, {"unsuccessful"}))
      new == Ascending(selected \ BidsWith(t, {"pending", "active"}))
  IN IF new = <<>> \/ (statuses # {} /\ statuses \subseteq {"pending", "active"}) THEN t
     ELSE [t EXCEPT !.awards = @ \o [i \in DOMAIN new |-> NewAward(new[i])],
                    !.status = "active.qualification", !.period = "unset"]

SaveWithNextAwards(t, only) ==
  /\ Len(AddNextAwards(t, only).awards) <= MaxAwards
  /\ Save(AddNextAwards(t, only))

\* check_tender_status_on_active_qualification_stand_still
EndOfStandStill(t) ==
  LET winners == BidsWith(t, {"active"}) IN
  IF t.status # "active.qualification.stand-still" \/ t.period # "over" \/ Disputed(t) THEN t
  ELSE IF Cardinality(winners) < MinBids THEN [t EXCEPT !.status = "unsuccessful"]
  ELSE [t EXCEPT !.status = "active.awarded",
                 !.agreement = [status |-> "pending",
                                contracts |-> [b \in winners |-> [status |-> "active", price |-> 0]]]]

-----------------------------------------------------------------------------
(* The auction, and the decisions of the owner.                            *)
PostAuction == tender.status = "active.auction" /\ SaveWithNextAwards(tender, Nobody)

MayPatchAward(i) ==
  /\ tender.status \in Deciding /\ tender.cancelling = Nobody
  /\ \A a \in Awards(tender) : a.complaint # "accepted"

AcceptAward(i) ==
  /\ MayPatchAward(i) /\ tender.awards[i].status = "pending"
  /\ Save([tender EXCEPT !.awards[i].status = "active"])

\* The period of complaints about it starts, and has no end yet.
RejectAward(i) ==
  /\ MayPatchAward(i) /\ tender.awards[i].status = "pending"
  /\ SaveWithNextAwards([tender EXCEPT !.awards[i] = [@ EXCEPT !.status = "unsuccessful", !.period = "open"]], Nobody)

\* A winner is looked at again.
ReconsiderAward(i) ==
  /\ MayPatchAward(i) /\ tender.awards[i].status = "active" /\ tender.status = "active.qualification"
  /\ SaveWithNextAwards([tender EXCEPT !.awards[i].status = "cancelled"], tender.awards[i].bid)

\* All awards are made anew: a rejection is taken back, or any decision in the
\* stand-still.
StartAnew(i) ==
  /\ MayPatchAward(i)
  /\ \/ tender.awards[i].status = "unsuccessful"
     \/ tender.awards[i].status = "active" /\ tender.status = "active.qualification.stand-still"
  /\ SaveWithNextAwards([tender EXCEPT !.awards = [j \in DOMAIN @ |-> [tender.awards[j] EXCEPT !.status = "cancelled"]]],
                        Nobody)

StartStandStill ==
  /\ tender.status = "active.qualification" /\ tender.cancelling = Nobody
  /\ ~ Disputed(tender) /\ BidsWith(tender, {"pending"}) = {}
  /\ Save([tender EXCEPT !.status = "active.qualification.stand-still", !.period = "running",
             !.awards = [i \in DOMAIN @ |->
               IF tender.awards[i].status = "cancelled" THEN tender.awards[i]
               ELSE [tender.awards[i] EXCEPT !.period = "running"]]])

-----------------------------------------------------------------------------
(* Complaints, of each award one: also about one that is cancelled, while  *)
(* the period of the stand-still it was in still runs, or in any later     *)
(* stand-still if it was rejected before it was in one.                    *)
PostComplaint(i) ==
  /\ Cardinality({j \in Nth(tender.awards) : tender.awards[j].complaint # "none"}) < MaxComplaints
  /\ tender.status = "active.qualification.stand-still" /\ tender.awards[i].period \in {"running", "open"}
  /\ tender.cancelling # Nobody => tender.withdrawn
  /\ tender.awards[i].complaint = "none"
  /\ Save([tender EXCEPT !.awards[i].complaint = "draft"])

\* A satisfied one reopens the review; one that is closed may end it.
PatchComplaint(i, to) ==
  LET from == tender.awards[i].complaint
      t == [tender EXCEPT !.awards[i].complaint = to]
  IN /\ tender.status \in Deciding
     /\ Settled(from, to) \/ Reviewed(from, to) \/ (from = "satisfied" /\ to = "resolved")
     /\ Save(IF to = "satisfied" THEN [t EXCEPT !.status = "active.qualification", !.period = "unset"]
             ELSE IF to \in Undecided THEN t ELSE EndOfStandStill(t))

-----------------------------------------------------------------------------
(* The agreement.  A cancellation of the lot does not keep the owner from  *)
(* signing it.                                                             *)
MayPatchAgreement == tender.status = "active.awarded" /\ tender.cancelling # Whole

PatchContract(b, status, price) ==
  /\ MayPatchAgreement
  /\ price <= b                                 \* Total amount can't be greater than ...
  /\ price = 0 => status = "unsuccessful" /\ tender.agreement.contracts[b].price = 0
  /\ Save([tender EXCEPT !.agreement.contracts[b] = [status |-> status, price |-> price]])

MaySign ==
  LET contracts == tender.agreement.contracts
      active == {b \in DOMAIN contracts : contracts[b].status = "active"}
  IN /\ MayPatchAgreement /\ ~ Disputed(tender) /\ tender.clarified
     /\ \A b \in active : contracts[b].price # 0
     /\ Cardinality(active) >= MinBids

\* With check_tender_status_on_active_awarded: the tender follows its agreement.
SignAgreement ==
  /\ MaySign
  /\ Save([tender EXCEPT !.agreement.status = "active", !.status = "complete"])

RefuseAgreement ==
  /\ MayPatchAgreement
  /\ Save([tender EXCEPT !.agreement.status = "unsuccessful", !.status = "unsuccessful"])

-----------------------------------------------------------------------------
(* Cancellations, of which TenderCancellation has the life.                *)

\* validate_operation_cancellation_in_complaint_period
NoStandStill == \A a \in Awards(tender) : a.period # "running"

\* validate_not_only_unsuccessful_awards_or_qualifications
Lost == tender.awards # <<>> /\ BidsWith(tender, {"pending", "active"}) = {}

StartCancellation(x) ==
  /\ tender.status \notin Finished /\ tender.cancelling = Nobody
  /\ NoStandStill /\ ~ Disputed(tender) /\ ~ Lost
  /\ Save([tender EXCEPT !.cancelling = x])

WithdrawCancellation ==
  /\ tender.status \notin Finished /\ tender.cancelling # Nobody /\ ~ tender.withdrawn /\ NoStandStill
  /\ Save([tender EXCEPT !.withdrawn = TRUE])

RedressCancellation ==
  /\ tender.status \notin Finished /\ tender.withdrawn
  /\ Save([tender EXCEPT !.cancelling = Nobody, !.withdrawn = FALSE])

\* CancelTenderLot: without its lot the tender is cancelled, and its agreement.
PutInForce(t) ==
  [t EXCEPT !.status = "cancelled", !.cancelling = Nobody,
            !.agreement.status = IF @ = "none" THEN @ ELSE "cancelled"]

-----------------------------------------------------------------------------
(* The chronograph, and time.                                              *)

\* check_complaint_statuses_at_complaint_period_end
WithoutDrafts(t) ==
  [t EXCEPT !.awards = [i \in DOMAIN @ |->
     IF t.awards[i].period = "over" THEN [t.awards[i] EXCEPT !.complaint = Mistaken(t.awards[i].complaint)]
     ELSE t.awards[i]]]

\* check_status; inForce: the term of the pending cancellation is over.
Checked(t, inForce) ==
  IF inForce THEN PutInForce(WithoutDrafts(t))
  ELSE IF t.cancelling # Nobody THEN WithoutDrafts(t)
  ELSE EndOfStandStill(WithoutDrafts(t))

CheckStatus(inForce) ==
  /\ tender.status \notin Finished
  /\ inForce => tender.cancelling # Nobody /\ ~ tender.withdrawn /\ ~ Disputed(tender)
  /\ Save(Checked(tender, inForce))

\* The period of a stand-still ends for all of its awards.
Ended(p) == IF p = "running" THEN "over" ELSE p
WithPeriodsEnded(t) ==
  [t EXCEPT !.period = Ended(@),
            !.awards = [i \in DOMAIN @ |-> [t.awards[i] EXCEPT !.period = Ended(t.awards[i].period)]]]

EndPeriod == tender.period = "running" /\ Save(WithPeriodsEnded(tender))

\* Periods of a stand-still that was broken off end one after the other.
EndOldPeriod(i) ==
  /\ tender.awards[i].period = "running"
  /\ \A j \in 1 .. i - 1 : tender.awards[j].period # "running"
  /\ tender.period = "running" => tender.awards[i].status = "cancelled"
  /\ Save([tender EXCEPT !.awards[i].period = "over"])

EndClarifications ==
  /\ tender.status = "active.awarded" /\ ~ tender.clarified
  /\ Save([tender EXCEPT !.clarified = TRUE])

AwardStep(i) ==
  \/ AcceptAward(i) \/ RejectAward(i) \/ ReconsiderAward(i) \/ StartAnew(i)
  \/ PostComplaint(i) \/ \E to \in ComplaintStatus : PatchComplaint(i, to)
  \/ EndOldPeriod(i)
AgreementStep ==
  \/ SignAgreement \/ RefuseAgreement
  \/ \E b \in DOMAIN tender.agreement.contracts, status \in {"active", "unsuccessful"}, price \in Prices \cup {0} :
       PatchContract(b, status, price)
Cancelling ==
  \/ \E x \in {Whole, Lot} : StartCancellation(x)
  \/ WithdrawCancellation \/ RedressCancellation
Chronograph == \E inForce \in BOOLEAN : CheckStatus(inForce)

Next ==
  \/ PostAuction \/ StartStandStill \/ AgreementStep \/ Cancelling
  \/ Chronograph \/ EndPeriod \/ EndClarifications
  \/ \E i \in Nth(tender.awards) : AwardStep(i)

-----------------------------------------------------------------------------
\* The fields have the values the models of the code allow.
TypeOK ==
  /\ tender.status \in {"active.auction", "active.awarded"} \cup Deciding \cup Finished
  /\ tender.period \in {"unset", "running", "over"}
  /\ tender.cancelling \in {Whole, Lot, Nobody}
  /\ tender.awards \in Seq([bid : Bids, status : {"pending", "active", "unsuccessful", "cancelled"},
                            period : {"unset", "open", "running", "over"},
                            complaint : ComplaintStatus \cup {"none"}])
  /\ tender.agreement.status \in {"none", "pending", "active", "unsuccessful", "cancelled"}

\* Whatever is rejected, reconsidered and started anew, and in whatever order:
\* the bids that are under consideration or have won are just the best
\* maxAwardsCount of those none of whose rejections stands, with one award each.
AwardsSound ==
  LET live == {i \in Nth(tender.awards) : tender.awards[i].status \in {"pending", "active"}} IN
  tender.status \notin {"active.auction", "cancelled"} =>
    /\ {tender.awards[i].bid : i \in live} = Best(Bids \ BidsWith(tender, {"unsuccessful"}))
    /\ Cardinality(live) <= MaxAwardsCount
    /\ \A i, j \in live : tender.awards[i].bid = tender.awards[j].bid => i = j

\* An agreement is made with the winners and nobody else, after a stand-still
\* for each of them and with no complaint left undecided, then or later; one
\* that is signed has enough suppliers, at prices they bid.
AgreementSound ==
  LET contracts == tender.agreement.contracts
      active == {b \in DOMAIN contracts : contracts[b].status = "active"} IN
  tender.agreement.status # "none" =>
    /\ DOMAIN contracts = BidsWith(tender, {"active"}) /\ Cardinality(DOMAIN contracts) >= MinBids
    /\ ~ Disputed(tender) /\ BidsWith(tender, {"pending"}) = {}
    /\ \A a \in Awards(tender) : a.status = "active" => a.period = "over"
    /\ tender.agreement.status = "active" =>
         Cardinality(active) >= MinBids /\ \A b \in active : contracts[b].price \in 1 .. b

-----------------------------------------------------------------------------
\* Faulty: while a complaint is open the check is left to whoever closes it.
next_check_undisputed(t) ==
  \/ t.cancelling # Nobody /\ ~ t.withdrawn
  \/ t.status = "active.qualification.stand-still" /\ t.period # "unset"
     /\ \A a \in Awards(t) : a.complaint \in {"none", "resolved"} \cup Rejected

\* Tender.next_check has a date.  In the stand-still it looks at complaints
\* about qualifications, of which none is open then, instead of about awards.
next_check(t) ==
  \/ t.cancelling # Nobody /\ ~ t.withdrawn
  \/ t.status = "active.qualification.stand-still" /\ t.period # "unset"
  \/ \E a \in Awards(t) : a.complaint = "draft" /\ a.period \notin {"unset", "open"}

\* Whenever the chronograph would change the tender once the periods that run
\* have ended, the tender asks to be looked at.
NothingIsForgotten ==
  LET ended == WithPeriodsEnded(tender)
  IN tender.status \notin Finished /\ Checked(ended, FALSE) # ended => next_check(tender)
=============================================================================
