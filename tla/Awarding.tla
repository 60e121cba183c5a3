------------------------------ MODULE Awarding ------------------------------
(***************************************************************************)
(* Choosing the winners of an above-threshold tender after its auction:    *)
(* aboveThresholdUA, openEU and ESCO, which share the code (kind "UA"),    *)
(* and the defense procedure (kind "defense"), which has its own award     *)
(* view.  The best bid gets an award, which the owner accepts or rejects;  *)
(* either starts a stand-still, in which the bidders may complain.  A      *)
(* rejected bid is followed by the next one, an accepted one by a contract *)
(* that is signed once the stand-still is over and no complaint is open.   *)
(* A complaint the reviewers satisfy lets the owner start a lot anew.      *)
(*                                                                         *)
(* The awards are kept per lot, in the order they were made; a tender      *)
(* without lots has one part, Whole.  The contract of an award is kept     *)
(* with it: it is made when the award becomes active.  The participants    *)
(* are numbered from the best bid to the worst; each bids for every lot.   *)
(***************************************************************************)
EXTENDS CancellationRules, FiniteSets, FiniteSetsExt, Functions, TLC

CONSTANTS
  Lots,
  NBids,          \* the bids that take part
  Nobody,         \* no cancellation
  MaxAwards,      \* bound on the awards of the tender
  MaxComplaints   \* bound on the complaints and claims about them

VARIABLE tender

Participants == 1 .. NBids
HasLots(t) == DOMAIN t.lots # {}
Parts(t) == DOMAIN t.awards
ActiveParts(t) == {p \in Parts(t) : HasLots(t) => t.lots[p] = "active"}
Underway == {"active.qualification", "active.awarded"}
Finished == {"complete", "unsuccessful", "cancelled"}

\* held: a milestone runs until which the award is not to be decided;
\* asked: the owner had the bidder given 24 hours for its documents.
NewAward(b, alp) ==
  [bid |-> b, status |-> "pending", held |-> alp, asked |-> FALSE, period |-> "unset",
   contract |-> "none", complaint |-> "none"]

\* Only for the procedures of kind "UA" is the price compared with the others.
LowPrice(kind) == IF kind = "UA" THEN BOOLEAN ELSE {FALSE}

\* The auction is over and its results are posted.
Auctioned(kind, ls, alp) ==
  [kind |-> kind, status |-> "active.qualification", lots |-> [l \in ls |-> "active"],
   awards |-> [p \in (IF ls = {} THEN {Whole} ELSE ls) |-> <<NewAward(1, alp)>>],
   cancelling |-> Nobody, withdrawn |-> FALSE]

Init ==
  \E kind \in {"UA", "defense"}, ls \in {{}, Lots} :
    \E alp \in LowPrice(kind) : tender = Auctioned(kind, ls, alp)

Save(t) == tender' = t

-----------------------------------------------------------------------------
(* What is computed of the awards.                                         *)
AwardsOf(t, p) == Range(t.awards[p])
Latest(t, p) == t.awards[p][Len(t.awards[p])]
Total(t) == FoldSet(LAMBDA p, n : Len(t.awards[p]) + n, 0, Parts(t))
Complained(t) ==
  FoldSet(LAMBDA p, n : Cardinality({i \in Nth(t.awards[p]) : t.awards[p][i].complaint # "none"}) + n,
          0, Parts(t))

\* exclude_unsuccessful_awarded_bids
Candidates(t, p) == Participants \ {a.bid : a \in {x \in AwardsOf(t, p) : x.status = "unsuccessful"}}

Vacant(t, p) == Latest(t, p).status \notin {"pending", "active"}

\* add_next_award
AddNextAward(t, alp) ==
  LET Next(p) == IF p \in ActiveParts(t) /\ Vacant(t, p) /\ Candidates(t, p) # {}
                 THEN Append(t.awards[p], NewAward(Min(Candidates(t, p)), alp)) ELSE t.awards[p]
      s == [t EXCEPT !.awards = [p \in Parts(t) |-> Next(p)]]
      undecided == \E p \in ActiveParts(s) : Latest(s, p).status = "pending"
  IN [s EXCEPT !.status = IF undecided THEN "active.qualification" ELSE "active.awarded"]

\* Whether the price of the next bid is low is not computed.
SaveWithNextAward(t) ==
  \E alp \in LowPrice(t.kind) :
    Total(AddNextAward(t, alp)) <= MaxAwards /\ Save(AddNextAward(t, alp))

HasUndecided(t, p) == \E a \in AwardsOf(t, p) : a.complaint \in Undecided
StandsStill(t, p) == \E a \in AwardsOf(t, p) : a.period = "running"
HasPeriod(t, p) == \E a \in AwardsOf(t, p) : a.period # "unset"
Signed(t, p) == \E a \in AwardsOf(t, p) : a.contract = "active"

\* How an open part is to be closed.
Outcome(t, p) ==
  IF p \notin ActiveParts(t) \/ HasUndecided(t, p) \/ StandsStill(t, p) THEN "open"
  ELSE IF Latest(t, p).status = "unsuccessful" THEN "unsuccessful"
  ELSE IF Latest(t, p).status = "active" /\ Latest(t, p).contract = "active" THEN "complete"
  ELSE "open"

\* The tender follows its lots.
FollowLots(t) ==
  LET all == Range(t.lots) IN
  [t EXCEPT !.status = IF all = {"cancelled"} THEN "cancelled"
                       ELSE IF all \subseteq {"unsuccessful", "cancelled"} THEN "unsuccessful"
                       ELSE IF all \subseteq {"complete", "unsuccessful", "cancelled"} THEN "complete"
                       ELSE @]

\* check_tender_status; without lots a signed contract completes the tender
\* whatever else is open.
CheckTenderStatus(t) ==
  IF HasLots(t)
  THEN FollowLots([t EXCEPT !.lots = [l \in DOMAIN @ |-> IF Outcome(t, l) = "open" THEN @[l] ELSE Outcome(t, l)]])
  ELSE [t EXCEPT !.status = IF Latest(t, Whole).contract = "active" THEN "complete"
                            ELSE IF Outcome(t, Whole) = "unsuccessful" THEN "unsuccessful" ELSE @]

-----------------------------------------------------------------------------
(* The owner decides the awards.                                           *)

\* What every change of an award needs; the last conjunct is for those pending.
MayPatchAward(p, i) ==
  /\ tender.status \in Underway /\ p \in ActiveParts(tender)
  /\ tender.cancelling \notin {p, Whole}
  /\ \A a \in AwardsOf(tender, p) : a.complaint # "accepted"
  /\ ~ tender.awards[p][i].held

Decided(a, status) == [a EXCEPT !.status = status, !.asked = FALSE, !.period = "running",
                                !.contract = IF status = "active" THEN "pending" ELSE @]

DecideAward(p, i, status) ==
  /\ MayPatchAward(p, i) /\ tender.awards[p][i].status = "pending"
  /\ SaveWithNextAward([tender EXCEPT !.awards[p][i] = Decided(@, status)])

Cancelled(a) == [a EXCEPT !.status = "cancelled", !.held = FALSE, !.asked = FALSE,
                          !.period = IF @ = "running" THEN "over" ELSE @,
                          !.contract = IF @ = "none" THEN @ ELSE "cancelled"]

\* The winner is given up; its bid is the next to be looked at.
CancelAward(p, i) ==
  /\ MayPatchAward(p, i) /\ tender.awards[p][i].status = "active"
  /\ tender.awards[p][i].complaint # "satisfied"
  /\ SaveWithNextAward([tender EXCEPT !.awards[p][i] = Cancelled(@)])

\* Faulty: only the award in question is cancelled.
StartAnewFrom(t, p, i) == [t EXCEPT !.awards[p][i] = Cancelled(@)]

\* All awards of the lot are cancelled.
StartAnew(t, p, i) == [t EXCEPT !.awards[p] = [j \in DOMAIN @ |-> Cancelled(@[j])]]

MayStartAnew(p, i) ==
  /\ MayPatchAward(p, i) /\ tender.awards[p][i].status \in {"active", "unsuccessful"}
  /\ tender.awards[p][i].complaint = "satisfied"

\* The end of a complaint period is set in every award of the lot; where one
\* has no period the request fails, unless it is the view of kind "UA" that
\* cancels a rejection.
Raises(p, i) ==
  /\ tender.kind = "defense" \/ tender.awards[p][i].status = "active"
  /\ \E a \in AwardsOf(tender, p) : a.period = "unset"

CancelDisputedAward(p, i) ==
  /\ MayStartAnew(p, i) /\ ~ Raises(p, i)
  /\ SaveWithNextAward(StartAnew(tender, p, i))

\* The owner has the bidder given a day to complete its documents, once.
PostMilestone(p, i) ==
  /\ tender.awards[p][i].status = "pending" /\ ~ tender.awards[p][i].asked
  /\ tender.cancelling # Whole /\ tender.status \notin Finished
  /\ Save([tender EXCEPT !.awards[p][i].held = TRUE, !.awards[p][i].asked = TRUE])

-----------------------------------------------------------------------------
(* Contracts.  A cancellation under way does not keep one from being       *)
(* signed: the permission and the validators of the view are its own.      *)

MayPatchContract(p, i) ==
  /\ tender.status \in Underway /\ p \in ActiveParts(tender)
  /\ tender.awards[p][i].contract # "none"
  /\ \A a \in AwardsOf(tender, p) : a.complaint # "accepted"

MaySign(p, i) ==
  /\ MayPatchContract(p, i)
  /\ tender.awards[p][i].contract = "pending" /\ tender.awards[p][i].period = "over"
  /\ ~ HasUndecided(tender, p)

SignContract(p, i) ==
  /\ MaySign(p, i)
  /\ Save(CheckTenderStatus([tender EXCEPT !.awards[p][i].contract = "active"]))

\* Anything else in it: the tender is looked at all the same.
PatchContract(p, i) == MayPatchContract(p, i) /\ Save(CheckTenderStatus(tender))

-----------------------------------------------------------------------------
(* Complaints and claims about awards: of each award, one.                 *)

PendingCancellationOf(x) == tender.cancelling = x /\ ~ tender.withdrawn

PostComplaint(p, i, status) ==
  /\ Complained(tender) < MaxComplaints
  /\ tender.status \in Underway /\ p \in ActiveParts(tender)
  /\ tender.awards[p][i].status \in {"active", "unsuccessful"} /\ tender.awards[p][i].period = "running"
  /\ ~ PendingCancellationOf(p) /\ ~ PendingCancellationOf(Whole)
  /\ tender.awards[p][i].complaint = "none" /\ status \in {"draft", "claim"}
  /\ Save([tender EXCEPT !.awards[p][i].complaint = status])

Steps(from, to) ==
  \/ Settled(from, to) \/ Reviewed(from, to)
  \/ from = "satisfied" /\ to = "resolved"      \* by the owner
  \/ from = "claim" /\ to = "withdrawn"         \* by its author; answered or not

\* Once a complaint is closed the tender is looked at.
PatchComplaint(p, i, to) ==
  /\ tender.status \in Underway /\ p \in ActiveParts(tender)
  /\ p # Whole => tender.cancelling # p
  /\ Steps(tender.awards[p][i].complaint, to)
  /\ LET t == [tender EXCEPT !.awards[p][i].complaint = to]
     IN Save(IF to \in Undecided THEN t ELSE CheckTenderStatus(t))

-----------------------------------------------------------------------------
(* Cancellations, of which TenderCancellation has the life.                *)

AgainstCancelling(t, x) == \E p \in Parts(t) : Concerns(x, p) /\ HasUndecided(t, p)

\* validate_not_only_unsuccessful_awards_or_qualifications
Lost(p) == \A a \in AwardsOf(tender, p) : a.status \in {"unsuccessful", "cancelled"}

\* validate_operation_cancellation_in_complaint_period
NoStandStill(x) == \A p \in Parts(tender) : x \in {p, Whole} => ~ StandsStill(tender, p)

StartCancellation(x) ==
  /\ tender.status \in Underway /\ tender.cancelling = Nobody /\ NoStandStill(x)
  /\ x # Whole => x \in ActiveParts(tender)
  /\ ~ AgainstCancelling(tender, x)
  /\ \A p \in ActiveParts(tender) : x \in {p, Whole} => ~ Lost(p)
  /\ Save([tender EXCEPT !.cancelling = x])

\* A satisfied complaint about the cancellation makes the owner withdraw it,
\* and then to make amends.
WithdrawCancellation ==
  /\ tender.status \in Underway /\ tender.cancelling # Nobody /\ ~ tender.withdrawn
  /\ NoStandStill(tender.cancelling)
  /\ Save([tender EXCEPT !.withdrawn = TRUE])

RedressCancellation ==
  /\ tender.status \in Underway /\ tender.withdrawn
  /\ Save([tender EXCEPT !.cancelling = Nobody, !.withdrawn = FALSE])

\* CancelTenderLot: of a lot even if its contract has been signed meanwhile.
PutInForce(t) ==
  LET s == [t EXCEPT !.cancelling = Nobody] IN
  IF t.cancelling = Whole THEN [s EXCEPT !.status = "cancelled"]
  ELSE FollowLots([s EXCEPT !.lots[t.cancelling] = "cancelled"])

-----------------------------------------------------------------------------
(* The chronograph.                                                        *)

\* check_complaint_statuses_at_complaint_period_end, for awards
WithoutDrafts(t) ==
  [t EXCEPT !.awards = [p \in Parts(t) |-> [i \in Nth(t.awards[p]) |->
     IF t.awards[p][i].period = "over" THEN [t.awards[p][i] EXCEPT !.complaint = Mistaken(@)]
     ELSE t.awards[p][i]]]]

\* The periods of some part have all ended.
Due(t) ==
  /\ t.status \in (IF HasLots(t) THEN Underway ELSE {"active.awarded"})
  /\ \E p \in ActiveParts(t) : HasPeriod(t, p) /\ ~ StandsStill(t, p)

\* check_status.  inForce: the term of the pending cancellation is over and no
\* complaint about it is left.  An active award always has a contract here.
Checked(t, inForce) ==
  LET s == WithoutDrafts(t)
      u == IF inForce THEN PutInForce(s) ELSE s
  IN IF u.cancelling = Nobody /\ Due(u) THEN CheckTenderStatus(u) ELSE u

\* A complaint that is open fails the request that would put the cancellation
\* in force.  Tenders that are finished are not checked.
CheckStatus(inForce) ==
  /\ tender.status \in Underway
  /\ inForce => /\ tender.cancelling # Nobody /\ ~ tender.withdrawn
                /\ ~ AgainstCancelling(tender, tender.cancelling)
  /\ Save(Checked(tender, inForce))

\* Time passes.  The periods of the awards of a part end in the order they began.
PeriodEnds(p, i) ==
  /\ tender.awards[p][i].period = "running"
  /\ \A j \in 1 .. i - 1 : tender.awards[p][j].period # "running"
  /\ Save([tender EXCEPT !.awards[p][i].period = "over"])

MilestoneEnds(p, i) == tender.awards[p][i].held /\ Save([tender EXCEPT !.awards[p][i].held = FALSE])

Owner(p, i) ==
  \/ DecideAward(p, i, "active") \/ DecideAward(p, i, "unsuccessful")
  \/ CancelAward(p, i) \/ CancelDisputedAward(p, i) \/ PostMilestone(p, i)
  \/ SignContract(p, i) \/ PatchContract(p, i)
Complaining(p, i) ==
  \/ \E status \in {"draft", "claim"} : PostComplaint(p, i, status)
  \/ \E to \in ComplaintStatus \cup {"withdrawn"} : PatchComplaint(p, i, to)
Time(p, i) == PeriodEnds(p, i) \/ MilestoneEnds(p, i)
Cancelling == (\E x \in Parts(tender) \cup {Whole} : StartCancellation(x))
              \/ WithdrawCancellation \/ RedressCancellation
Chronograph == \E inForce \in BOOLEAN : CheckStatus(inForce)

Next ==
  \/ \E p \in Parts(tender) : \E i \in Nth(tender.awards[p]) :
       Owner(p, i) \/ Complaining(p, i) \/ Time(p, i)
  \/ Cancelling \/ Chronograph

-----------------------------------------------------------------------------
\* Every field has the values the models of the code allow, and an award has a
\* stand-still, and a contract if it was accepted, from its decision on.
TypeOK ==
  /\ tender.kind \in {"UA", "defense"} /\ tender.status \in Underway \cup Finished
  /\ Range(tender.lots) \subseteq {"active", "complete", "unsuccessful", "cancelled"}
  /\ tender.cancelling \in Parts(tender) \cup {Whole, Nobody} /\ tender.withdrawn \in BOOLEAN
  /\ \A p \in Parts(tender) : \A a \in AwardsOf(tender, p) :
       /\ a \in [bid : Participants, status : {"pending", "active", "unsuccessful", "cancelled"},
                 held : BOOLEAN, asked : BOOLEAN, period : {"unset", "running", "over"},
                 contract : {"none", "pending", "active", "cancelled"},
                 complaint : ComplaintStatus \cup {"none", "claim", "withdrawn"}]
       /\ a.status = "pending" => a.period = "unset" /\ a.contract = "none"
       /\ a.status \in {"active", "unsuccessful"} => a.period # "unset"
       /\ a.status = "active" => a.contract \in {"pending", "active"}

\* Of every lot one award is live at most, the latest, and it is that of the
\* best bid none of whose rejections stands: however the awards before it were
\* rejected, cancelled and started anew, no better bid was passed over.  While
\* such a bid is left on an open lot there is a live award.
AwardingSound ==
  \A p \in Parts(tender) :
    LET live == {i \in Nth(tender.awards[p]) : tender.awards[p][i].status \in {"pending", "active"}}
        left == Candidates(tender, p)
    IN /\ live \subseteq {Len(tender.awards[p])}
       /\ \A i \in live : tender.awards[p][i].bid = Min(left)
       /\ p \in ActiveParts(tender) => (live = {} <=> left = {})

\* A contract that is signed is that of a winner whose stand-still was waited
\* for, and nobody who complained about an award of the lot in time is still
\* unheard, nor will be; a lot has one such contract.
SignedAfterDisputes ==
  \A p \in Parts(tender) :
    Signed(tender, p) =>
      /\ Cardinality({i \in Nth(tender.awards[p]) : tender.awards[p][i].contract = "active"}) = 1
      /\ Latest(tender, p).contract = "active" /\ Latest(tender, p).status = "active"
      /\ ~ StandsStill(tender, p) /\ ~ HasUndecided(tender, p)

\* A lot is complete with a signed contract only and closed by its signature at
\* once; it is unsuccessful only if no bid is left and no dispute about the last
\* rejection can bring one back.  The same holds of a tender without lots.
OutcomeSound ==
  \A p \in Parts(tender) :
    LET status == IF HasLots(tender) THEN tender.lots[p] ELSE tender.status IN
    /\ status = "complete" => Signed(tender, p)
    /\ status \in Underway \cup {"active"} => ~ Signed(tender, p)
    /\ status = "unsuccessful" =>
         Candidates(tender, p) = {} /\ ~ HasUndecided(tender, p) /\ ~ StandsStill(tender, p)

-----------------------------------------------------------------------------
\* Tender.next_check has a date.
next_check(t) ==
  \/ t.cancelling # Nobody /\ ~ t.withdrawn
  \/ \E a \in UNION {AwardsOf(t, p) : p \in Parts(t)} : a.complaint = "draft" /\ a.period # "unset"
  \/ /\ t.status \in (IF HasLots(t) THEN Underway ELSE {"active.awarded"})
     /\ \E p \in ActiveParts(t) :
          ~ HasUndecided(t, p) /\ HasPeriod(t, p) /\ Latest(t, p).status = "unsuccessful"

\* Whenever the chronograph would change the tender once the periods that run
\* have ended, the tender asks to be looked at.
NothingIsForgotten ==
  LET Ended == [tender EXCEPT !.awards = [p \in Parts(tender) |-> [i \in Nth(tender.awards[p]) |->
                  [tender.awards[p][i] EXCEPT !.period = IF @ = "running" THEN "over" ELSE @]]]]
  IN tender.status \in Underway /\ Checked(Ended, FALSE) # Ended => next_check(tender)
=============================================================================
