---------------------------- MODULE AboveThreshold ----------------------------
(***************************************************************************)
(* Above-threshold tenders put together of their parts.  openEU tenders    *)
(* and competitive dialogues begin with a pre-qualification, and a         *)
(* dialogue goes on to a second stage (CompetitiveDialogue); openEU, ESCO, *)
(* openUA and defense tenders end with the awarding (Awarding).            *)
(*                                                                         *)
(* Between the parts lies the auction, of which any outcome is followed;   *)
(* with it the bids get their numbers in Awarding.  openUA and defense     *)
(* tenders are followed from their auction on.  Of a tender that is being  *)
(* awarded the first part is not followed any more.                        *)
(***************************************************************************)
EXTENDS CompetitiveDialogue

CONSTANTS NBids, MaxAwards

ASSUME BiddersAssumption == NBids \in Nat \ {0}

VARIABLE awarding  \* the tender, from its auction on

W == INSTANCE Awarding WITH tender <- awarding

vars == <<tender, stage2, awarding>>

NotFollowed == [status |-> "not followed"]

\* The results of the auctions are posted.
Auction ==
  /\ tender.status = "active.auction" /\ tender.kind = "EU" /\ ActiveParts(tender) = Parts(tender)
  /\ tender.cancelling = Nobody
  /\ \E alp \in W!LowPrice("UA") : awarding' = W!Auctioned("UA", DOMAIN tender.lots, alp)
  /\ tender' = NotFollowed /\ UNCHANGED stage2

FirstPart == tender # NotFollowed /\ AllNext /\ UNCHANGED awarding
LastPart == awarding # NotFollowed /\ W!Next /\ UNCHANGED <<tender, stage2>>

AboveInit ==
  \/ AllInit /\ awarding = NotFollowed
  \/ W!Init /\ tender = NotFollowed /\ stage2 = NoStage2
AboveNext == FirstPart \/ Auction \/ LastPart

-----------------------------------------------------------------------------
\* See PreQualification: bids stand as they were decided about, and nothing open
\* is left behind a lot that is given up or cancelled.
QualificationSound ==
  tender # NotFollowed => AllTypeOK /\ DecisionsStand /\ ClosedLotsAreClosed

\* See PreQualification and CompetitiveDialogue: who competes, or is on the short
\* list, was admitted, undisputed, and there are enough of them.
CompetitionSound ==
  tender # NotFollowed => CompetitionIsSound /\ ShortlistIsAdmitted

\* See Awarding: the best bid that is not rejected has the award, contracts are
\* signed after the disputes, and the outcome is that of the contracts.
WinnersSound ==
  awarding # NotFollowed =>
    W!TypeOK /\ W!AwardingSound /\ W!SignedAfterDisputes /\ W!OutcomeSound

\* Whatever the chronograph would do, in either part, it is asked to come for.
AllRemembered ==
  /\ tender # NotFollowed => NothingIsForgotten
  /\ awarding # NotFollowed => W!NothingIsForgotten
=============================================================================
