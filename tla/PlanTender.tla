------------------------------ MODULE PlanTender ------------------------------
(***************************************************************************)
(* A procurement plan and the tenders announced from it.  The link is held *)
(* twice, in tender.plans and in plan.tender_id, in two documents that no  *)
(* request can save together:                                              *)
(*   POST /plans/{id}/tenders    creates a tender that lists the plan,     *)
(*                               then writes its id into the plan;         *)
(*   POST /tenders/{id}/plans    adds the plan to a draft tender of a      *)
(*                               central organisation, then the same.      *)
(* Both check the plan on a copy loaded before either save.  The tenders   *)
(* are created in draft and published by a second request of the client,   *)
(* the two-phase commit of docs/source/tendering/basic-actions/2pc.rst.    *)
(***************************************************************************)
EXTENDS Naturals, FiniteSets

CONSTANTS
  Plans,
  Creates,   \* requests POST /plans/{id}/tenders; each names the tender it makes
  Central,   \* draft tenders of central organisations
  Links,     \* requests POST /tenders/{id}/plans
  None,
  MaxEdits   \* bound on the owner's edits of one plan

ASSUME NamesAssumption ==
  Creates \cap Central = {} /\ Creates \cap Links = {} /\ None \notin Creates \cup Central
ASSUME EditsAssumption == MaxEdits \in Nat

Requests == Creates \cup Links
Tenders == Creates \cup Central

VARIABLES
  plan,      \* stored plans
  tender,    \* stored tenders, status "absent" before they are created
  asked,     \* the plan and the tender each request is about
  pc,        \* progress of each request
  planCopy, tenderRev,  \* what each request loaded
  edits

vars == <<plan, tender, asked, pc, planCopy, tenderRev, edits>>

Plan == [rev : Nat, tender : Tenders \cup {None},
         status : {"scheduled", "complete", "cancelled"}]
Tender == [rev : Nat, status : {"absent", "draft", "published"}, plans : SUBSET Plans]

Init ==
  /\ plan = [p \in Plans |-> [rev |-> 0, tender |-> None, status |-> "scheduled"]]
  /\ tender = [x \in Tenders |->
       [rev |-> 0, plans |-> {}, status |-> IF x \in Central THEN "draft" ELSE "absent"]]
  /\ asked \in [Requests -> [plan : Plans, tender : Tenders]]
  /\ \A r \in Creates : asked[r].tender = r
  /\ \A r \in Links : asked[r].tender \in Central
  /\ pc = [r \in Requests |-> "received"]
  /\ planCopy = [r \in Requests |-> plan[asked[r].plan]]
  /\ tenderRev = [r \in Requests |-> 0]
  /\ edits = [p \in Plans |-> 0]

P(r) == asked[r].plan
X(r) == asked[r].tender

Step(r, from, to) ==
  /\ pc[r] = from
  /\ pc' = [pc EXCEPT ![r] = to]

\* validate_plan_not_terminated and validate_plan_has_not_tender
PlanOpen(p) == p.status = "scheduled" /\ p.tender = None

\* The plan is loaded by the plan factory (extract_plan).
LoadForCreate(r) ==
  /\ Step(r, "received", IF PlanOpen(plan[P(r)]) THEN "validated" ELSE "refused")
  /\ planCopy' = [planCopy EXCEPT ![r] = plan[P(r)]]
  /\ UNCHANGED <<plan, tender, asked, tenderRev, edits>>

\* TendersResource.post of a linked tender: a new document never conflicts.
CreateTender(r) ==
  /\ Step(r, "validated", "linked")
  /\ tender' = [tender EXCEPT ![X(r)] =
                  [rev |-> 1, status |-> "draft", plans |-> {P(r)}]]
  /\ UNCHANGED <<plan, asked, planCopy, tenderRev, edits>>

\* The tender factory loads the tender; validate_tender_in_draft.
LoadTender(r) ==
  /\ Step(r, "received", IF tender[X(r)].status = "draft" THEN "drafted" ELSE "refused")
  /\ tenderRev' = [tenderRev EXCEPT ![r] = tender[X(r)].rev]
  /\ UNCHANGED <<plan, tender, asked, planCopy, edits>>

\* validate_tender_plan_data loads the plan, then the plan checks run.
LoadForLink(r) ==
  /\ Step(r, "drafted", IF PlanOpen(plan[P(r)]) THEN "validated" ELSE "refused")
  /\ planCopy' = [planCopy EXCEPT ![r] = plan[P(r)]]
  /\ UNCHANGED <<plan, tender, asked, tenderRev, edits>>

TenderCurrent(r) == tenderRev[r] = tender[X(r)].rev

\* link_plan and save_tender.  Listing a plan twice is a model error (422), a
\* changed tender a conflict (409); either ends the request.
LinkTender(r) ==
  LET taken == TenderCurrent(r) /\ P(r) \notin tender[X(r)].plans IN
  /\ Step(r, "validated", IF taken THEN "linked" ELSE "refused")
  /\ tender' = IF taken
               THEN [tender EXCEPT ![X(r)].rev = @ + 1, ![X(r)].plans = @ \cup {P(r)}]
               ELSE tender
  /\ UNCHANGED <<plan, asked, planCopy, tenderRev, edits>>

\* Faulty: the plan is stored whatever its revision.
PlanCurrentAlways(r) == TRUE

PlanCurrent(r) == planCopy[r].rev = plan[P(r)].rev

\* plan.tender_id = tender.id and save_plan; switch_status then reads complete.
SavePlan(r) ==
  /\ Step(r, "linked", IF PlanCurrent(r) THEN "ok" ELSE "conflict")
  /\ plan' = IF PlanCurrent(r)
             THEN [plan EXCEPT ![P(r)] =
                     [rev |-> planCopy[r].rev + 1, tender |-> X(r), status |-> "complete"]]
             ELSE plan
  /\ UNCHANGED <<tender, asked, planCopy, tenderRev, edits>>

\* A worker dies; after "linked" the tender lists a plan that does not know it.
Die(r) ==
  /\ pc[r] \notin {"ok", "refused", "conflict", "dead"}
  /\ pc' = [pc EXCEPT ![r] = "dead"]
  /\ UNCHANGED <<plan, tender, asked, planCopy, tenderRev, edits>>

\* PATCH /plans/{id} while the plan is open to changes: any edit, completion
\* without a tender or cancellation.
PatchPlan(p) ==
  /\ edits[p] < MaxEdits
  /\ plan[p].status = "scheduled"
  /\ \E s \in {"scheduled", "complete", "cancelled"} :
       plan' = [plan EXCEPT ![p].rev = @ + 1, ![p].status = s]
  /\ edits' = [edits EXCEPT ![p] = @ + 1]
  /\ UNCHANGED <<tender, asked, pc, planCopy, tenderRev>>

\* The second phase: the client publishes a draft once each request that it
\* sent about the tender was answered with success, and no other draft
\* (tutorial.rst: "do not proceed with these error state tender objects").
Publish(x) ==
  /\ tender[x].status = "draft"
  /\ \A r \in Requests : X(r) = x => pc[r] \in {"received", "refused", "ok"}
  /\ tender' = [tender EXCEPT ![x].rev = @ + 1, ![x].status = "published"]
  /\ UNCHANGED <<plan, asked, pc, planCopy, tenderRev, edits>>

Next ==
  \/ \E r \in Creates : LoadForCreate(r) \/ CreateTender(r)
  \/ \E r \in Links : LoadTender(r) \/ LoadForLink(r) \/ LinkTender(r)
  \/ \E r \in Requests : SavePlan(r) \/ Die(r)
  \/ \E p \in Plans : PatchPlan(p)
  \/ \E x \in Tenders : Publish(x)

Spec == Init /\ [][Next]_vars

-----------------------------------------------------------------------------
Progress == {"received", "drafted", "validated", "linked", "ok", "refused", "conflict", "dead"}

TypeOK ==
  /\ plan \in [Plans -> Plan]
  /\ tender \in [Tenders -> Tender]
  /\ asked \in [Requests -> [plan : Plans, tender : Tenders]]
  /\ pc \in [Requests -> Progress]
  /\ planCopy \in [Requests -> Plan]
  /\ tenderRev \in [Requests -> Nat]
  /\ edits \in [Plans -> Nat]

\* The two halves of the link agree where it counts.  plan.tender_id always
\* points at a tender that lists the plan; and two-phase commit works: a
\* published tender is the tender of every plan it lists, however the requests
\* raced and whichever of them died half-way.
LinksAgree ==
  /\ \A p \in Plans : plan[p].tender # None => p \in tender[plan[p].tender].plans
  /\ \A x \in Tenders : tender[x].status = "published" =>
       \A p \in tender[x].plans : plan[p].tender = x

\* The two halves agree, in values the models of plan and tender allow.
Linked == TypeOK /\ LinksAgree

\* The tender of a plan is chosen once; cancelling or completing a plan and
\* announcing a tender from it exclude each other, in whatever order they run.
PlanDecidedOnce ==
  [][\A p \in Plans :
       /\ plan[p].tender # None => plan'[p].tender = plan[p].tender
       /\ plan[p].status # "scheduled" => plan'[p].status = plan[p].status
                                         /\ plan'[p].tender = plan[p].tender]_vars

\* Success is told to one request for each plan at most, and it is the truth.
OneSuccessPerPlan ==
  \A r \in Requests : pc[r] = "ok" =>
    /\ plan[P(r)].tender = X(r)
    /\ \A q \in Requests : pc[q] = "ok" /\ P(q) = P(r) => q = r
=============================================================================
