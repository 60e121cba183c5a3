------------------------ MODULE CompetitiveDialogue ------------------------
(***************************************************************************)
(* The two stages of a competitive dialogue.  Stage 1 is a tender of       *)
(* PreQualification; when its owner is ready a bridge (g:competitive_      *)
(* dialogue), which is not in this repository, makes a second tender of it *)
(* with the firms that were admitted, opens it to its owner, and completes *)
(* the first.  Stage 2 is followed up to its bids: what comes then is an   *)
(* openUA or openEU tender.  A firm bids for lots: a bid and the short     *)
(* list are sets of pairs of a firm and a part.  Bids do not interact: one *)
(* stands for all.                                                         *)
(***************************************************************************)
EXTENDS PreQualification, TLC

VARIABLE stage2

NoStage2 == [status |-> Nobody]

\* The owner of stage 1 is ready, or goes back to the stand-still, which the
\* validator allows and which changes no period.
PatchStage1(status) ==
  /\ tender.status = "active.stage2.pending" /\ tender.cancelling = Nobody
  /\ status \in {"active.stage2.waiting", "active.pre-qualification.stand-still"}
  /\ Store([tender EXCEPT !.status = status]) /\ UNCHANGED stage2

\* Firms whose bids were admitted to a lot that is open.
Admitted(t) ==
  UNION {{<<t.bids[b].firm, p>> : b \in {b \in InPlay(t, p) : t.quals[b][p] = "active"}} : p \in ActiveParts(t)}

\* The bridge posts stage 2.  Of its shortlistedFirms there must be three
\* (min_size).
CreateStage2 ==
  /\ tender.status = "active.stage2.waiting" /\ stage2 = NoStage2
  /\ Cardinality({k[1] : k \in Admitted(tender)}) >= MinBids
  /\ stage2' = [status |-> "draft", shortlist |-> Admitted(tender), bid |-> {}, credentials |-> FALSE]
  /\ UNCHANGED tender

\* A draft is opened with a request that changes nothing but the status.
OpenStage2 ==
  /\ stage2.status = "draft"
  /\ stage2' = [stage2 EXCEPT !.status = "draft.stage2"]
  /\ UNCHANGED tender

CompleteStage1 ==
  /\ stage2 # NoStage2 /\ tender.status = "active.stage2.waiting"
  /\ Store([tender EXCEPT !.status = "complete"]) /\ UNCHANGED stage2

\* The owner of stage 1 takes stage 2 over.
GenerateCredentials ==
  /\ stage2.status = "draft.stage2"
  /\ stage2' = [stage2 EXCEPT !.credentials = TRUE]
  /\ UNCHANGED tender

PublishStage2 ==
  /\ stage2.status = "draft.stage2" /\ stage2.credentials
  /\ stage2' = [stage2 EXCEPT !.status = "active.tendering"]
  /\ UNCHANGED tender

Bid2(f, ls) == {<<f, p>> : p \in ls}

\* validate_firm_to_create_bid
PostBid2(f, ls) ==
  /\ stage2.status = "active.tendering" /\ Bid2(f, ls) \subseteq stage2.shortlist
  /\ stage2.bid = {} /\ stage2' = [stage2 EXCEPT !.bid = Bid2(f, ls)]
  /\ UNCHANGED tender

\* TenderBidResource.patch: tenderers and lotValues may change, and the short
\* list is not looked at.
PatchBid2(f, ls) ==
  /\ stage2.status = "active.tendering" /\ stage2.bid # {}
  /\ stage2' = [stage2 EXCEPT !.bid = Bid2(f, ls)]
  /\ UNCHANGED tender

Stage1 == Next /\ UNCHANGED stage2
Bridge == CreateStage2 \/ OpenStage2 \/ CompleteStage1
Stage2 ==
  \/ GenerateCredentials \/ PublishStage2
  \/ \E f \in Firms, ls \in SUBSET Parts(tender) \ {{}} : PostBid2(f, ls) \/ PatchBid2(f, ls)

AllInit == Init /\ stage2 = NoStage2
AllNext ==
  \/ Stage1 \/ Bridge \/ Stage2
  \/ \E status \in {"active.stage2.waiting", "active.pre-qualification.stand-still"} : PatchStage1(status)
AllSpec == AllInit /\ [][AllNext]_<<tender, stage2>>

-----------------------------------------------------------------------------
\* Types of both stages.
AllTypeOK ==
  /\ TypeOK
  /\ stage2.status \in {Nobody, "draft", "draft.stage2", "active.tendering"}
  /\ stage2 # NoStage2 => stage2.shortlist \subseteq Firms \X Parts(tender)

\* Everybody on the short list was admitted in stage 1, by a decision that
\* nothing takes back later: not a complaint, not a new review.
ShortlistIsAdmitted ==
  stage2 # NoStage2 /\ tender.status # "cancelled" =>
    \A k \in stage2.shortlist :
      \E b \in Bids : tender.bids[b].firm = k[1] /\ (k[2] \in ActiveParts(tender) => tender.quals[b][k[2]] = "active")

Symmetry == Permutations(Bids) \cup Permutations(Firms) \cup Permutations(Lots)
=============================================================================
