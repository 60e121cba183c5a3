----------------------------- MODULE PlanApproval -----------------------------
(***************************************************************************)
(* The approval of a plan by the organisation that is to procure it.  Any  *)
(* broker may post a milestone in the name of the plan's procuringEntity;  *)
(* with the token of the milestone it is met or not.  The owner of the     *)
(* plan may name another procuringEntity, but once there is an approval,   *)
(* asked for or given, only so long before the tender is to start; it then *)
(* stands no longer.                                                       *)
(***************************************************************************)
EXTENDS Naturals, Sequences

CONSTANTS
  Entities,          \* organisations, by their identifiers
  EntityStandStill,  \* PROCURING_ENTITY_STANDSTILL, in working days
  MaxAhead,          \* bound on the days to tender.tenderPeriod.startDate
  MaxMilestones      \* bound on the milestones of the plan

\* The procuringEntity, whether the plan is not terminated, the whole working
\* days until its tender is to start, and the milestones.
VARIABLE approval

Active == {"scheduled", "met"}  \* Milestone.ACTIVE_STATUSES
MilestoneStatus == Active \cup {"notMet", "invalid"}
Milestone == [author : Entities, status : MilestoneStatus]

Plan == [entity : Entities, open : BOOLEAN, ahead : 0 .. MaxAhead,
         milestones : Seq(Milestone)]

NoPlanYet == [entity |-> "none", open |-> FALSE, ahead |-> 0, milestones |-> <<>>]

Planned == \E e \in Entities, d \in 0 .. MaxAhead :
  approval' = [entity |-> e, open |-> TRUE, ahead |-> d, milestones |-> <<>>]

Milestones == DOMAIN approval.milestones
IsActive(i) == approval.milestones[i].status \in Active

-----------------------------------------------------------------------------
\* collection_post; validate_milestone_author compares the author with the
\* present procuringEntity and with the authors of the active milestones.
PostMilestone(e) ==
  /\ approval.open /\ Len(approval.milestones) < MaxMilestones
  /\ e = approval.entity
  /\ \A i \in Milestones : IsActive(i) => approval.milestones[i].author # e
  /\ approval' = [approval EXCEPT
       !.milestones = Append(@, [author |-> e, status |-> "scheduled"])]

\* PATCH by whoever posted it, whoever is the procuringEntity by now.
DecideMilestone(i) ==
  /\ approval.open /\ approval.milestones[i].status = "scheduled"
  /\ \E s \in {"met", "notMet"} : approval' = [approval EXCEPT !.milestones[i].status = s]

\* Faulty: an approval that was given stays.
RevokedScheduled(milestones) ==
  [i \in DOMAIN milestones |->
     IF milestones[i].status = "scheduled" THEN [milestones[i] EXCEPT !.status = "invalid"]
                                           ELSE milestones[i]]

Revoked(milestones) ==
  [i \in DOMAIN milestones |->
     IF milestones[i].status \in Active THEN [milestones[i] EXCEPT !.status = "invalid"]
                                        ELSE milestones[i]]

\* _check_field_change_events: the start of the tender is that after the patch,
\* which may move it too.
PatchEntity(e, d, stays) ==
  /\ approval.open /\ e # approval.entity
  /\ (\E i \in Milestones : IsActive(i)) => EntityStandStill <= d
  /\ approval' = [approval EXCEPT
       !.entity = e, !.ahead = d, !.open = stays, !.milestones = Revoked(@)]

\* Any other PATCH of the plan: of the start of its tender, or the last one.
PatchPlan(d, stays) ==
  /\ approval.open
  /\ approval' = [approval EXCEPT !.ahead = d, !.open = stays]

NextDay == approval.ahead > 0 /\ approval' = [approval EXCEPT !.ahead = @ - 1]

Next ==
  \/ NextDay
  \/ \E e \in Entities : PostMilestone(e)
  \/ \E i \in Milestones : DecideMilestone(i)
  \/ \E d \in 0 .. MaxAhead, stays \in BOOLEAN :
       PatchPlan(d, stays) \/ \E e \in Entities : PatchEntity(e, d, stays)

-----------------------------------------------------------------------------
TypeOK == approval \in Plan \cup {NoPlanYet}

\* Approval is by whoever is to procure: at any moment there is one milestone at
\* most that counts, and its author is the present procuringEntity, although
\* that may be replaced, and come back, and milestones are decided at any time
\* by whoever posted them.
OneApproval ==
  \A i \in Milestones : IsActive(i) =>
    /\ approval.milestones[i].author = approval.entity
    /\ \A j \in Milestones : IsActive(j) => j = i

ApprovalSound == TypeOK /\ OneApproval
=============================================================================
