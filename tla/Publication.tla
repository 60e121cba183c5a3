----------------------------- MODULE Publication -----------------------------
(***************************************************************************)
(* After a tender was made from a plan and published (PlanTender), it is   *)
(* open to bidders (Bidding) and everything about it has a folder of       *)
(* documents (Folders).  Neither depends on the plan, nor on each other:   *)
(* from a published tender one of them is followed, and of the stories     *)
(* that end in a published tender the plainest will do, in which only one  *)
(* request was made and nobody touched the plan meanwhile.  A plan no      *)
(* tender was made from may have to be approved first (PlanApproval), and  *)
(* an openUA tender, which needs no plan, is asked about (Enquiries).      *)
(***************************************************************************)
EXTENDS PlanTender, TLC

CONSTANTS Lots, Whole, Amounts, Extra, MaxLeft, MaxPapers, MaxPosts,
  Entities, EntityStandStill, MaxAhead, MaxMilestones,
  TenderEnd, TenderPeriod, SubmitLead, CancelTerm, ExtraPeriod, Day, Hour,
  EnquiryLead, Clarification, MaxTime, MaxEnd, MaxCancellations, MaxComplaints,
  MaxObjections, MaxQuestions

ASSUME ExtraAssumption == MaxLeft \in Nat /\ Extra \in 1..MaxLeft
ASSUME AheadAssumption == MaxAhead \in Nat

\* Ten days, three and seven: the owner cannot take the end of the tendering
\* nearer than an answer given today needs.
ASSUME EnquiryAssumption ==
  /\ {EnquiryLead, Clarification, ExtraPeriod} \subseteq Nat
  /\ Clarification <= EnquiryLead /\ EnquiryLead <= Clarification + ExtraPeriod

\* Of the tender that is asked about (TenderCancellation).
ASSUME OfferAssumption ==
  /\ Whole \notin Lots
  /\ {TenderEnd, TenderPeriod, SubmitLead, CancelTerm, Day, MaxTime, MaxEnd} \subseteq Nat
  /\ Hour \in Nat \ {0} /\ Hour <= Day
  /\ SubmitLead <= TenderEnd /\ TenderPeriod <= TenderEnd

VARIABLES call, desk, approval, today, offer, questions

Bids == INSTANCE Bidding
Papers == INSTANCE Folders
Approvals == INSTANCE PlanApproval

Asked == INSTANCE Enquiries WITH now <- today, tender <- offer, questions <- questions

enquiries == <<today, offer, questions>>
publicationVars == <<vars, call, desk, approval, enquiries>>

NoneAsked == today = 0 /\ offer = None /\ questions = <<>>

Before ==
  /\ call = Bids!NoCallYet /\ desk = Papers!NoDeskYet
  /\ approval = Approvals!NoPlanYet /\ NoneAsked

PublicationInit == Init /\ Before

PlanStep == Before /\ Next /\ UNCHANGED <<call, desk, approval, enquiries>>

\* Which plan the requests are about does not matter to the other stories.
OfOnePlan == LET p == CHOOSE q \in Plans : TRUE IN \A r \in Requests : P(r) = p

Untouched == Before /\ Init /\ OfOnePlan

Scheduled ==
  /\ Untouched
  /\ Approvals!Planned /\ UNCHANGED <<vars, call, desk, enquiries>>

Advertised ==
  /\ Untouched
  /\ offer' = Asked!Published /\ UNCHANGED <<vars, call, desk, approval, today, questions>>

Plainly(x) ==
  /\ tender[x].status = "published" /\ \A p \in Plans : edits[p] = 0
  /\ OfOnePlan /\ \A r \in Requests \ {x} : pc[r] = "received"

Announced ==
  /\ Before /\ \E x \in Creates : Plainly(x)
  /\ \/ Bids!Announce /\ UNCHANGED desk
     \/ Papers!Open /\ UNCHANGED call
  /\ UNCHANGED <<vars, approval, enquiries>>

BidsStep ==
  /\ call # Bids!NoCallYet /\ Bids!Next
  /\ UNCHANGED <<vars, desk, approval, enquiries>>
PapersStep ==
  /\ desk # Papers!NoDeskYet /\ Papers!Next
  /\ UNCHANGED <<vars, call, approval, enquiries>>
ApprovalStep ==
  /\ approval # Approvals!NoPlanYet /\ Approvals!Next
  /\ UNCHANGED <<vars, call, desk, enquiries>>
EnquiriesStep ==
  /\ offer # None /\ Asked!EnquiryNext
  /\ UNCHANGED <<vars, call, desk, approval>>

PublicationNext ==
  \/ PlanStep \/ Scheduled \/ Advertised \/ Announced
  \/ BidsStep \/ PapersStep \/ ApprovalStep \/ EnquiriesStep

PublicationSpec == PublicationInit /\ [][PublicationNext]_publicationVars

-----------------------------------------------------------------------------
\* The two halves of the link between plans and tenders agree, and what the
\* requests were told of it is true.
LinkSound == Linked /\ OneSuccessPerPlan

\* What is open between a plan and its tender is settled by who may: the plan
\* is approved by whoever is to procure, the tender is the plan's only one.
PlansSound == LinkSound /\ Approvals!ApprovalSound

\* Nobody competes on terms that are not the last ones, or that the owner was
\* asked about and did not explain in time.
BiddersInformed == Bids!OpenedBidsFit /\ (offer # None => Asked!EnquiriesSound)

\* Prices are told when they are to be told, and documents do not change under
\* a decision that rests on them.
BidPapersSound == Bids!PricesKept /\ Bids!DecidedOnWhatIsThere

\* A document is its author's alone, a complaint's papers are closed with it,
\* and its posts are questions with one answer each.
FoldersSound == Papers!FoldersSound
=============================================================================
