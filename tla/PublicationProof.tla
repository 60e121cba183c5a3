--------------------------- MODULE PublicationProof ---------------------------
(***************************************************************************)
(* The stories of Publication, for any number of plans, requests, lots,    *)
(* organisations and days.  Each story has a part of its own, in which the *)
(* invariant of its component is shown to survive the component's steps;   *)
(* the last part puts them together: a step of one story leaves the others *)
(* alone.                                                                  *)
(***************************************************************************)
EXTENDS Publication, Integers, SequenceTheorems, TLAPS

-----------------------------------------------------------------------------
(* Plans and tenders.  The two stores of a request do no harm because of   *)
(* what it checked on its copy of the plan, which is the stored plan as    *)
(* long as the revisions agree.                                            *)

\* A request past the validators works on a copy of an open plan, and the plan
\* is still that copy unless its revision moved.
PlanChecked ==
  \A r \in Requests :
    /\ planCopy[r].rev <= plan[P(r)].rev
    /\ pc[r] \in {"validated", "linked"} =>
         /\ PlanOpen(planCopy[r])
         /\ PlanCurrent(r) => planCopy[r] = plan[P(r)]

\* A request to create a tender names its own, one to link names another.
AskedFit ==
  /\ \A r \in Creates : X(r) = r
  /\ \A r \in Links : X(r) \in Central

\* A tender that is not created yet lists nothing; a linked one lists the plan.
TendersFit ==
  /\ \A r \in Creates : pc[r] \in {"received", "validated"} =>
       tender[r].status = "absent" /\ tender[r].plans = {}
  /\ \A r \in Requests : pc[r] = "linked" => P(r) \in tender[X(r)].plans

\* Whatever a tender lists was put there by a request that got so far.
ListedByRequest ==
  \A x \in Tenders : \A p \in tender[x].plans :
    \E r \in Requests :
      X(r) = x /\ P(r) = p /\ pc[r] \in {"linked", "ok", "conflict", "dead"}

\* No request is at work on a published tender.
PublishedIsSettled ==
  \A r \in Requests : tender[X(r)].status = "published" =>
    pc[r] \in {"received", "refused", "ok", "dead"}

PlanIInv ==
  /\ TypeOK /\ AskedFit /\ PlanChecked
  /\ TendersFit /\ ListedByRequest /\ PublishedIsSettled
  /\ LinksAgree /\ OneSuccessPerPlan

LEMMA PlanInit == Init => PlanIInv
<1> SUFFICES ASSUME Init PROVE PlanIInv
  OBVIOUS
<1>1. \A r \in Requests : P(r) \in Plans /\ X(r) \in Tenders
  BY DEF Init, P, X
<1>2. \A r \in Creates : X(r) = r /\ r \in Tenders /\ r \notin Central
  BY NamesAssumption DEF Init, X, Requests, Tenders
<1>3. /\ plan \in [Plans -> Plan]
      /\ \A p \in Plans : plan[p].rev = 0 /\ plan[p].tender = None
  BY DEF Init, Plan
<1>4. /\ tender \in [Tenders -> Tender]
      /\ \A x \in Tenders : tender[x].plans = {} /\ tender[x].status # "published"
      /\ \A x \in Tenders \ Central : tender[x].status = "absent"
  BY DEF Init, Tender
<1>5. TypeOK
  BY <1>1, <1>3, <1>4 DEF Init, TypeOK, Progress, P
<1>6. AskedFit /\ PlanChecked
  BY <1>1, <1>3 DEF Init, AskedFit, PlanChecked, P, X
<1>7. TendersFit /\ ListedByRequest /\ PublishedIsSettled
  BY <1>1, <1>2, <1>4 DEF Init, TendersFit, ListedByRequest, PublishedIsSettled
<1>8. LinksAgree /\ OneSuccessPerPlan
  BY <1>3, <1>4 DEF Init, LinksAgree, OneSuccessPerPlan
<1> QED
  BY <1>5, <1>6, <1>7, <1>8 DEF PlanIInv

\* What each request is about never changes.
LEMMA AskedStays ==
  ASSUME TypeOK, [Next]_vars
  PROVE  /\ asked' = asked
         /\ \A r \in Requests :
              P(r) \in Plans /\ P(r)' = P(r) /\ X(r) \in Tenders /\ X(r)' = X(r)
<1>1. asked' = asked
  BY DEF Next, vars, LoadForCreate, CreateTender, LoadTender, LoadForLink, LinkTender,
         SavePlan, Die, PatchPlan, Publish
<1> QED
  BY <1>1 DEF TypeOK, P, X

LEMMA PlanTypes == TypeOK /\ [Next]_vars => TypeOK'
<1> SUFFICES ASSUME TypeOK, [Next]_vars PROVE TypeOK'
  OBVIOUS
<1> USE DEF TypeOK
<1>0. \A r \in Requests : P(r) \in Plans /\ X(r) \in Tenders
  BY AskedStays
<1>a. Creates \subseteq Requests /\ Links \subseteq Requests
  BY DEF Requests
<1>1. ASSUME NEW r \in Creates, LoadForCreate(r) PROVE TypeOK'
  BY <1>0, <1>a, <1>1 DEF LoadForCreate, Step, Progress
<1>2. ASSUME NEW r \in Creates, CreateTender(r) PROVE TypeOK'
  BY <1>0, <1>a, <1>2 DEF CreateTender, Step, Progress, Tender
<1>3. ASSUME NEW r \in Links, LoadTender(r) PROVE TypeOK'
  BY <1>0, <1>a, <1>3 DEF LoadTender, Step, Progress, Tender
<1>4. ASSUME NEW r \in Links, LoadForLink(r) PROVE TypeOK'
  BY <1>0, <1>a, <1>4 DEF LoadForLink, Step, Progress
<1>5. ASSUME NEW r \in Links, LinkTender(r) PROVE TypeOK'
  <2>1. tender[X(r)] \in Tender
    BY <1>0, <1>a
  <2>2. [tender[X(r)] EXCEPT !.rev = @ + 1, !.plans = @ \cup {P(r)}] \in Tender
    <3>1. tender[X(r)].rev + 1 \in Nat /\ tender[X(r)].plans \cup {P(r)} \in SUBSET Plans
      BY <2>1, <1>0, <1>a DEF Tender
    <3> QED
      BY <2>1, <3>1 DEF Tender
  <2>3. tender' \in [Tenders -> Tender]
    BY <1>5, <2>2 DEF LinkTender
  <2> QED
    BY <1>5, <1>a, <2>3 DEF LinkTender, Step, Progress
<1>6. ASSUME NEW r \in Requests, SavePlan(r) PROVE TypeOK'
  <2>1. planCopy[r].rev + 1 \in Nat
    BY DEF Plan
  <2>2. plan' \in [Plans -> Plan]
    BY <1>0, <1>6, <2>1 DEF SavePlan, Plan
  <2> QED
    BY <1>6, <2>2 DEF SavePlan, Step, Progress
<1>7. ASSUME NEW r \in Requests, Die(r) PROVE TypeOK'
  BY <1>7 DEF Die, Progress
<1>8. ASSUME NEW p \in Plans, PatchPlan(p) PROVE TypeOK'
  <2>1. PICK s \in {"scheduled", "complete", "cancelled"} :
          plan' = [plan EXCEPT ![p].rev = @ + 1, ![p].status = s]
    BY <1>8 DEF PatchPlan
  <2>2. [plan[p] EXCEPT !.rev = @ + 1, !.status = s] \in Plan
    <3>1. plan[p] \in Plan /\ plan[p].rev + 1 \in Nat
      BY DEF Plan
    <3> QED
      BY <3>1 DEF Plan
  <2>3. plan' \in [Plans -> Plan]
    BY <2>1, <2>2
  <2> QED
    BY <1>8, <2>3 DEF PatchPlan
<1>9. ASSUME NEW x \in Tenders, Publish(x) PROVE TypeOK'
  <2>1. [tender[x] EXCEPT !.rev = @ + 1, !.status = "published"] \in Tender
    <3>1. tender[x] \in Tender /\ tender[x].rev + 1 \in Nat
      BY DEF Tender
    <3> QED
      BY <3>1 DEF Tender
  <2>2. tender' \in [Tenders -> Tender]
    BY <1>9, <2>1 DEF Publish
  <2> QED
    BY <1>9, <2>2 DEF Publish
<1>10. CASE UNCHANGED vars
  BY <1>10 DEF vars
<1> QED
  BY <1>1, <1>2, <1>3, <1>4, <1>5, <1>6, <1>7, <1>8, <1>9, <1>10 DEF Next

\* How a stored plan moves: an edit of an open plan that keeps its tender, or
\* the store of a request whose checked copy is the plan itself.
LEMMA PlanMoves ==
  ASSUME PlanIInv, [Next]_vars, NEW p \in Plans
  PROVE  /\ plan'[p].rev >= plan[p].rev
         /\ plan'[p].rev = plan[p].rev => plan'[p] = plan[p]
         /\ plan'[p] # plan[p] => plan[p].status = "scheduled"
         /\ plan'[p].tender # plan[p].tender => plan[p].tender = None
<1> USE DEF PlanIInv
<1> DEFINE Moves == /\ plan'[p].rev >= plan[p].rev
                    /\ plan'[p].rev = plan[p].rev => plan'[p] = plan[p]
                    /\ plan'[p] # plan[p] => plan[p].status = "scheduled"
                    /\ plan'[p].tender # plan[p].tender => plan[p].tender = None
<1>0. plan[p] \in Plan /\ plan[p].rev \in Nat
  BY DEF TypeOK, Plan
<1>1. ASSUME NEW q \in Plans, PatchPlan(q) PROVE Moves
  <2>1. PICK s \in {"scheduled", "complete", "cancelled"} :
          plan' = [plan EXCEPT ![q].rev = @ + 1, ![q].status = s]
    BY <1>1 DEF PatchPlan
  <2>2. CASE q = p
    <3>1. plan'[p].rev = plan[p].rev + 1 /\ plan'[p].tender = plan[p].tender
      BY <1>0, <2>1, <2>2 DEF TypeOK, Plan
    <3> QED
      BY <1>0, <1>1, <2>2, <3>1 DEF PatchPlan
  <2>3. CASE q # p
    <3>1. plan'[p] = plan[p]
      BY <2>1, <2>3 DEF TypeOK
    <3> QED
      BY <1>0, <3>1
  <2> QED
    BY <2>2, <2>3
<1>2. ASSUME NEW r \in Requests, SavePlan(r) PROVE Moves
  <2>1. CASE PlanCurrent(r) /\ P(r) = p
    <3>1. plan'[p].rev = plan[p].rev + 1
      BY <1>0, <1>2, <2>1 DEF SavePlan, TypeOK, PlanCurrent
    <3>2. PlanOpen(plan[p])
      BY <1>2, <2>1 DEF SavePlan, Step, PlanChecked
    <3> QED
      BY <1>0, <3>1, <3>2 DEF PlanOpen
  <2>2. CASE ~ (PlanCurrent(r) /\ P(r) = p)
    <3>1. plan'[p] = plan[p]
      BY <1>2, <2>2 DEF SavePlan, TypeOK
    <3> QED
      BY <1>0, <3>1
  <2> QED
    BY <2>1, <2>2
<1>3. CASE plan' = plan
  BY <1>0, <1>3
<1> QED
  BY <1>1, <1>2, <1>3
  DEF Next, vars, LoadForCreate, CreateTender, LoadTender, LoadForLink, LinkTender, Die, Publish

\* A copy that was found open is the plan until the plan's revision moves.
LEMMA PlanCheckedStep == PlanIInv /\ [Next]_vars => PlanChecked'
<1> SUFFICES ASSUME PlanIInv, [Next]_vars, NEW r \in Requests
             PROVE  /\ (planCopy[r].rev <= plan[P(r)].rev)'
                    /\ pc'[r] \in {"validated", "linked"} =>
                         /\ PlanOpen(planCopy'[r])
                         /\ (PlanCurrent(r) => planCopy[r] = plan[P(r)])'
  BY DEF PlanChecked
<1> USE DEF PlanIInv
<1>0. /\ P(r)' = P(r) /\ P(r) \in Plans
      /\ planCopy[r].rev \in Nat /\ plan[P(r)].rev \in Nat /\ plan'[P(r)].rev \in Nat
      /\ plan'[P(r)].rev >= plan[P(r)].rev
      /\ plan'[P(r)].rev = plan[P(r)].rev => plan'[P(r)] = plan[P(r)]
  BY AskedStays, PlanTypes, PlanMoves DEF TypeOK, Plan
<1>1. CASE LoadForCreate(r) \/ LoadForLink(r)
  <2>1. plan' = plan /\ planCopy'[r] = plan[P(r)]
    BY <1>1 DEF LoadForCreate, LoadForLink, TypeOK
  <2>2. pc'[r] \in {"validated", "linked"} => PlanOpen(plan[P(r)])
    BY <1>1 DEF LoadForCreate, LoadForLink, Step, TypeOK
  <2> QED
    BY <1>0, <2>1, <2>2
<1>2. CASE ~ (LoadForCreate(r) \/ LoadForLink(r))
  <2>1. planCopy'[r] = planCopy[r]
    BY <1>2 DEF Next, vars, LoadForCreate, CreateTender, LoadTender, LoadForLink, LinkTender,
                SavePlan, Die, PatchPlan, Publish, TypeOK
  <2>2. pc'[r] \in {"validated", "linked"} => pc[r] \in {"validated", "linked"}
    BY <1>2 DEF Next, vars, LoadForCreate, CreateTender, LoadTender, LoadForLink, LinkTender,
                SavePlan, Die, PatchPlan, Publish, Step, TypeOK
  <2>3. /\ planCopy[r].rev <= plan[P(r)].rev
        /\ pc[r] \in {"validated", "linked"} =>
             /\ PlanOpen(planCopy[r])
             /\ planCopy[r].rev = plan[P(r)].rev => planCopy[r] = plan[P(r)]
    BY DEF PlanChecked, PlanCurrent
  <2> QED
    BY <1>0, <2>1, <2>2, <2>3 DEF PlanCurrent
<1> QED
  BY <1>1, <1>2

\* How the tenders move while a tender is not to be published: what is listed
\* stays, and only its own request creates a tender.
LEMMA TenderMoves ==
  ASSUME PlanIInv, [Next]_vars, NEW x \in Tenders
  PROVE  /\ tender[x].plans \subseteq tender'[x].plans
         /\ \A p \in tender'[x].plans \ tender[x].plans :
              \E r \in Requests : X(r) = x /\ P(r) = p /\ pc[r] = "validated" /\ pc'[r] = "linked"
         /\ tender[x].status = "published" => tender'[x].status = "published"
         /\ tender'[x].status = "published" /\ tender[x].status # "published" => Publish(x)
<1> USE DEF PlanIInv
<1> DEFINE Moves ==
       /\ tender[x].plans \subseteq tender'[x].plans
       /\ \A p \in tender'[x].plans \ tender[x].plans :
            \E r \in Requests : X(r) = x /\ P(r) = p /\ pc[r] = "validated" /\ pc'[r] = "linked"
       /\ tender[x].status = "published" => tender'[x].status = "published"
       /\ tender'[x].status = "published" /\ tender[x].status # "published" => Publish(x)
<1>0. tender[x] \in Tender /\ tender[x].plans \subseteq Plans
  BY DEF TypeOK, Tender
<1>1. ASSUME NEW r \in Creates, CreateTender(r) PROVE Moves
  <2>1. r \in Requests /\ pc[r] = "validated" /\ pc'[r] = "linked" /\ X(r) = r /\ r \in Tenders
    BY <1>1 DEF CreateTender, Step, Requests, Tenders, TypeOK, AskedFit
  <2>2. CASE x = r
    <3>1. tender[x].plans = {} /\ tender[x].status = "absent"
      BY <2>1, <2>2 DEF TendersFit
    <3>2. tender'[x] = [rev |-> 1, status |-> "draft", plans |-> {P(r)}]
      BY <1>1, <2>1, <2>2 DEF CreateTender, TypeOK
    <3> QED
      BY <2>1, <2>2, <3>1, <3>2
  <2>3. CASE x # r
    <3>1. tender'[x] = tender[x]
      BY <1>1, <2>1, <2>3 DEF CreateTender, TypeOK
    <3> QED
      BY <3>1
  <2> QED
    BY <2>2, <2>3
<1>2. ASSUME NEW r \in Links, LinkTender(r) PROVE Moves
  <2>1. r \in Requests /\ pc[r] = "validated"
    BY <1>2 DEF LinkTender, Step, Requests
  <2>2. CASE tender'[x] = tender[x]
    BY <2>2
  <2>3. CASE tender'[x] # tender[x]
    <3>1. /\ X(r) = x /\ pc'[r] = "linked"
          /\ tender'[x] = [tender[x] EXCEPT !.rev = @ + 1, !.plans = @ \cup {P(r)}]
      BY <1>2, <2>1, <2>3 DEF LinkTender, Step, TypeOK
    <3>2. tender'[x].plans = tender[x].plans \cup {P(r)} /\ tender'[x].status = tender[x].status
      BY <1>0, <3>1 DEF Tender
    <3> QED
      BY <2>1, <3>1, <3>2
  <2> QED
    BY <2>2, <2>3
<1>3. ASSUME NEW y \in Tenders, Publish(y) PROVE Moves
  <2>1. tender'[x].plans = tender[x].plans
    BY <1>0, <1>3 DEF Publish, TypeOK, Tender
  <2>2. x # y => tender'[x] = tender[x]
    BY <1>3 DEF Publish, TypeOK
  <2>3. x = y => tender'[x].status = "published"
    BY <1>0, <1>3 DEF Publish, TypeOK, Tender
  <2> QED
    BY <1>3, <2>1, <2>2, <2>3
<1>4. CASE tender' = tender
  BY <1>0, <1>4
<1> QED
  BY <1>1, <1>2, <1>3, <1>4
  DEF Next, vars, LoadForCreate, LoadTender, LoadForLink, SavePlan, Die, PatchPlan

\* How far the requests get: none goes back, and each is stopped or done once.
LEMMA RequestMoves ==
  ASSUME TypeOK, [Next]_vars, NEW r \in Requests
  PROVE  /\ pc[r] \in {"ok", "refused", "conflict", "dead"} => pc'[r] = pc[r]
         /\ pc'[r] = "received" => pc[r] = "received"
         /\ pc[r] = "linked" => pc'[r] \in {"linked", "ok", "conflict", "dead"}
         /\ pc'[r] = "ok" /\ pc[r] # "ok" => SavePlan(r) /\ PlanCurrent(r)
<1> DEFINE Moves ==
      /\ pc[r] \in {"ok", "refused", "conflict", "dead"} => pc'[r] = pc[r]
      /\ pc'[r] = "received" => pc[r] = "received"
      /\ pc[r] = "linked" => pc'[r] \in {"linked", "ok", "conflict", "dead"}
      /\ pc'[r] = "ok" /\ pc[r] # "ok" => SavePlan(r) /\ PlanCurrent(r)
<1>0. pc \in [Requests -> Progress] /\ Creates \subseteq Requests /\ Links \subseteq Requests
  BY DEF TypeOK, Requests
<1>1. ASSUME NEW q \in Creates, LoadForCreate(q) \/ CreateTender(q) PROVE Moves
  BY <1>0, <1>1 DEF LoadForCreate, CreateTender, Step
<1>2. ASSUME NEW q \in Links, LoadTender(q) \/ LoadForLink(q) \/ LinkTender(q) PROVE Moves
  BY <1>0, <1>2 DEF LoadTender, LoadForLink, LinkTender, Step
<1>3. ASSUME NEW q \in Requests, SavePlan(q) PROVE Moves
  BY <1>0, <1>3 DEF SavePlan, Step
<1>4. ASSUME NEW q \in Requests, Die(q) PROVE Moves
  BY <1>0, <1>4 DEF Die
<1>5. CASE pc' = pc
  BY <1>5
<1> QED
  BY <1>1, <1>2, <1>3, <1>4, <1>5 DEF Next, vars, PatchPlan, Publish

LEMMA AskedFitStep == PlanIInv /\ [Next]_vars => AskedFit'
  BY AskedStays DEF PlanIInv, AskedFit, Requests

LEMMA TendersFitStep == PlanIInv /\ [Next]_vars => TendersFit'
<1> SUFFICES ASSUME PlanIInv, [Next]_vars PROVE TendersFit'
  OBVIOUS
<1> USE DEF PlanIInv
<1>1. ASSUME NEW r \in Creates, pc'[r] \in {"received", "validated"}
      PROVE  tender'[r].status = "absent" /\ tender'[r].plans = {}
  <2>0. r \in Requests /\ X(r) = r /\ r \in Tenders /\ tender[r] \in Tender
    BY DEF Requests, Tenders, AskedFit, TypeOK
  <2>1. pc[r] \in {"received", "validated"}
    BY <1>1, <2>0, NamesAssumption
    DEF Next, vars, LoadForCreate, CreateTender, LoadTender, LoadForLink, LinkTender,
        SavePlan, Die, PatchPlan, Publish, Step, TypeOK
  <2>2. tender[r].status = "absent" /\ tender[r].plans = {}
    BY <2>1 DEF TendersFit
  <2>3. tender'[r] = tender[r]
    <3>1. ASSUME NEW q \in Creates, CreateTender(q) PROVE tender'[r] = tender[r]
      <4>1. pc'[q] = "linked" /\ X(q) = q
        BY <3>1 DEF CreateTender, Step, TypeOK, Requests, AskedFit
      <4> QED
        BY <1>1, <2>0, <3>1, <4>1 DEF CreateTender, TypeOK
    <3>2. ASSUME NEW q \in Links, LinkTender(q) PROVE tender'[r] = tender[r]
      <4>1. X(q) # r
        BY <2>0, NamesAssumption DEF AskedFit
      <4> QED
        BY <2>0, <3>2, <4>1 DEF LinkTender, TypeOK
    <3>3. ASSUME NEW y \in Tenders, Publish(y) PROVE tender'[r] = tender[r]
      BY <2>0, <2>2, <3>3 DEF Publish, TypeOK
    <3> QED
      BY <3>1, <3>2, <3>3
      DEF Next, vars, LoadForCreate, LoadTender, LoadForLink, SavePlan, Die, PatchPlan
  <2> QED
    BY <2>2, <2>3
<1>2. ASSUME NEW r \in Requests, pc'[r] = "linked"
      PROVE  P(r)' \in tender'[X(r)'].plans
  <2>0. P(r)' = P(r) /\ X(r)' = X(r) /\ X(r) \in Tenders /\ P(r) \in Plans
    BY AskedStays
  <2>1. CASE pc[r] = "linked"
    BY <2>0, <2>1, TenderMoves DEF TendersFit
  <2>2. CASE pc[r] # "linked"
    <3>1. CreateTender(r) \/ LinkTender(r)
      BY <1>2, <2>2 DEF Next, vars, LoadForCreate, CreateTender, LoadTender, LoadForLink,
                  LinkTender, SavePlan, Die, PatchPlan, Publish, Step, TypeOK, Requests
    <3>2. tender[X(r)] \in Tender
      BY <2>0 DEF TypeOK
    <3>3. CASE CreateTender(r)
      BY <2>0, <3>3 DEF CreateTender, TypeOK
    <3>4. CASE LinkTender(r)
      BY <1>2, <2>0, <3>2, <3>4 DEF LinkTender, Step, TypeOK, Tender
    <3> QED
      BY <3>1, <3>3, <3>4
  <2> QED
    BY <2>1, <2>2
<1> QED
  BY <1>1, <1>2 DEF TendersFit

LEMMA ListedByRequestStep == PlanIInv /\ [Next]_vars => ListedByRequest'
<1> SUFFICES ASSUME PlanIInv, [Next]_vars, NEW x \in Tenders, NEW p \in tender'[x].plans
             PROVE  \E r \in Requests :
                      /\ X(r)' = x /\ P(r)' = p
                      /\ pc'[r] \in {"linked", "ok", "conflict", "dead"}
  BY DEF ListedByRequest
<1> USE DEF PlanIInv
<1>1. CASE p \in tender[x].plans
  <2>1. PICK r \in Requests :
          X(r) = x /\ P(r) = p /\ pc[r] \in {"linked", "ok", "conflict", "dead"}
    BY <1>1 DEF ListedByRequest
  <2> QED
    BY <2>1, AskedStays, RequestMoves
<1>2. CASE p \notin tender[x].plans
  BY <1>2, AskedStays, TenderMoves
<1> QED
  BY <1>1, <1>2

LEMMA PublishedIsSettledStep == PlanIInv /\ [Next]_vars => PublishedIsSettled'
<1> SUFFICES ASSUME PlanIInv, [Next]_vars, NEW r \in Requests,
                    tender'[X(r)'].status = "published"
             PROVE  pc'[r] \in {"received", "refused", "ok", "dead"}
  BY DEF PublishedIsSettled
<1> USE DEF PlanIInv
<1>0. X(r)' = X(r) /\ X(r) \in Tenders
  BY AskedStays
<1>1. CASE tender[X(r)].status # "published"
  <2>1. Publish(X(r))
    BY <1>0, <1>1, TenderMoves
  <2> QED
    BY <2>1 DEF Publish
<1>2. CASE tender[X(r)].status = "published"
  <2>1. pc[r] \in {"received", "refused", "ok", "dead"}
    BY <1>2 DEF PublishedIsSettled
  <2>2. CASE pc[r] # "received"
    BY <2>1, <2>2, RequestMoves
  <2>3. CASE pc[r] = "received"
    <3>1. r \notin Creates
      BY <1>2, <2>3 DEF TendersFit, AskedFit
    <3> QED
      BY <1>2, <2>3, <3>1 DEF Next, vars, LoadForCreate, CreateTender, LoadTender, LoadForLink,
                  LinkTender, SavePlan, Die, PatchPlan, Publish, Step, TypeOK
  <2> QED
    BY <2>2, <2>3
<1> QED
  BY <1>1, <1>2

LEMMA LinksAgreeStep == PlanIInv /\ [Next]_vars => LinksAgree'
<1> SUFFICES ASSUME PlanIInv, [Next]_vars PROVE LinksAgree'
  OBVIOUS
<1> USE DEF PlanIInv
<1>0. \A x \in Tenders : tender[x].plans \subseteq Plans /\ tender'[x].plans \subseteq Plans
  BY PlanTypes DEF TypeOK, Tender
<1>1. ASSUME NEW p \in Plans, plan'[p].tender # None
      PROVE  p \in tender'[plan'[p].tender].plans
  <2>0. plan'[p].tender \in Tenders
    BY <1>1, PlanTypes DEF TypeOK, Plan
  <2>1. CASE plan'[p].tender = plan[p].tender
    BY <1>1, <2>0, <2>1, TenderMoves DEF LinksAgree
  <2>2. CASE plan'[p].tender # plan[p].tender
    <3>1. PICK r \in Requests : SavePlan(r) /\ P(r) = p /\ plan'[p].tender = X(r)
      <4>1. \A q \in Plans : PatchPlan(q) => plan'[p].tender = plan[p].tender
        BY DEF PatchPlan, TypeOK, Plan
      <4>2. PICK r \in Requests : SavePlan(r)
        BY <2>2, <4>1 DEF Next, vars, LoadForCreate, CreateTender, LoadTender, LoadForLink,
                    LinkTender, Die, Publish
      <4>3. P(r) = p /\ PlanCurrent(r)
        BY <2>2, <4>2 DEF SavePlan, TypeOK
      <4> QED
        BY <4>2, <4>3 DEF SavePlan, TypeOK
    <3>2. p \in tender[X(r)].plans /\ tender' = tender
      BY <3>1 DEF SavePlan, Step, TendersFit
    <3> QED
      BY <3>1, <3>2
  <2> QED
    BY <2>1, <2>2
<1>2. ASSUME NEW x \in Tenders, tender'[x].status = "published", NEW p \in tender'[x].plans
      PROVE  plan'[p].tender = x
  <2>1. PICK r \in Requests :
          X(r) = x /\ P(r) = p /\ pc'[r] \in {"linked", "ok", "conflict", "dead"}
    BY ListedByRequestStep, AskedStays DEF ListedByRequest
  <2>2. pc'[r] \in {"ok", "dead"}
    BY <1>2, <2>1, PublishedIsSettledStep, AskedStays DEF PublishedIsSettled
  <2>3. p \in Plans /\ plan[p].tender \in Tenders \cup {None}
    BY <1>0 DEF TypeOK, Plan
  <2>4. CASE tender[x].status = "published"
    <3>1. p \in tender[x].plans
      <4>1. ASSUME p \notin tender[x].plans PROVE FALSE
        <5>1. PICK q \in Requests : X(q) = x /\ pc[q] = "validated"
          BY <4>1, TenderMoves
        <5> QED
          BY <2>4, <5>1 DEF PublishedIsSettled
      <4> QED
        BY <4>1
    <3>2. plan[p].tender = x
      BY <2>4, <3>1 DEF LinksAgree
    <3> QED
      BY <2>3, <3>2, PlanMoves, NamesAssumption DEF Tenders
  <2>5. CASE tender[x].status # "published"
    <3>1. Publish(x)
      BY <1>2, <2>5, TenderMoves
    <3>2. pc[r] \in {"received", "refused", "ok"} /\ pc' = pc /\ plan' = plan
      BY <2>1, <3>1 DEF Publish
    <3>3. pc[r] = "ok"
      BY <2>2, <3>2
    <3> QED
      BY <2>1, <3>2, <3>3 DEF OneSuccessPerPlan
  <2> QED
    BY <2>4, <2>5
<1> QED
  BY <1>1, <1>2 DEF LinksAgree

LEMMA OneSuccessStep == PlanIInv /\ [Next]_vars => OneSuccessPerPlan'
<1> SUFFICES ASSUME PlanIInv, [Next]_vars PROVE OneSuccessPerPlan'
  OBVIOUS
<1> USE DEF PlanIInv
<1>0. \A r \in Requests : X(r) # None /\ X(r)' = X(r) /\ P(r)' = P(r) /\ P(r) \in Plans
  BY AskedStays, NamesAssumption DEF Tenders
<1>1. ASSUME NEW r \in Requests, pc'[r] = "ok", pc[r] # "ok"
      PROVE  plan[P(r)].tender = None /\ plan'[P(r)].tender = X(r)
  <2>1. SavePlan(r) /\ PlanCurrent(r)
    BY <1>1, RequestMoves
  <2>2. PlanOpen(plan[P(r)])
    BY <2>1 DEF SavePlan, Step, PlanChecked
  <2> QED
    BY <1>0, <2>1, <2>2 DEF SavePlan, PlanOpen, TypeOK
<1>2. ASSUME NEW r \in Requests, pc[r] = "ok"
      PROVE  plan[P(r)].tender = X(r) /\ plan'[P(r)].tender = X(r)
  BY <1>0, <1>2, PlanMoves DEF OneSuccessPerPlan
<1>3. ASSUME NEW r \in Requests, NEW q \in Requests,
             pc'[r] = "ok", pc'[q] = "ok", P(q) = P(r)
      PROVE  q = r
  <2>1. CASE pc[r] = "ok" /\ pc[q] = "ok"
    BY <1>3, <2>1 DEF OneSuccessPerPlan
  <2>2. CASE pc[r] # "ok" /\ pc[q] # "ok"
    <3>1. SavePlan(r) /\ SavePlan(q)
      BY <1>3, <2>2, RequestMoves
    <3> QED
      BY <2>2, <1>3, <3>1 DEF SavePlan, Step, TypeOK
  <2>3. CASE pc[r] = "ok" <=> pc[q] # "ok"
    BY <1>0, <1>1, <1>2, <1>3, <2>3
  <2> QED
    BY <2>1, <2>2, <2>3
<1> QED
  BY <1>0, <1>1, <1>2, <1>3 DEF OneSuccessPerPlan

LEMMA PlanStepInv == PlanIInv /\ [Next]_vars => PlanIInv'
  BY PlanTypes, AskedFitStep, PlanCheckedStep, TendersFitStep, ListedByRequestStep,
     PublishedIsSettledStep, LinksAgreeStep, OneSuccessStep
  DEF PlanIInv

-----------------------------------------------------------------------------
(* The approval of a plan.  One milestone counts at a time, because one is   *)
(* only asked for by who is to procure and has none that counts, and naming  *)
(* another organisation revokes every one there is.                          *)

\* A sequence changed in its elements only is a sequence of the same length.
LEMMA SameLength ==
  ASSUME NEW S, NEW T, NEW s \in Seq(S),
         NEW f \in [DOMAIN s -> T]
  PROVE  f \in Seq(T) /\ Len(f) = Len(s) /\ DOMAIN f = DOMAIN s
OBVIOUS

LEMMA ApprovalPlanned == Approvals!Planned => Approvals!ApprovalSound'
BY AheadAssumption
DEF Approvals!Planned, Approvals!ApprovalSound, Approvals!TypeOK, Approvals!OneApproval,
    Approvals!Plan, Approvals!Milestones, Approvals!IsActive

\* A step of the approval keeps it one, and of its type.
LEMMA ApprovalStepInv ==
  ASSUME Approvals!ApprovalSound, approval # Approvals!NoPlanYet, Approvals!Next
  PROVE  Approvals!ApprovalSound'
<1> USE DEF Approvals!ApprovalSound
<1>0. approval \in Approvals!Plan
  BY DEF Approvals!TypeOK
<1> DEFINE ms == approval.milestones
<1>1. /\ ms \in Seq(Approvals!Milestone)
      /\ approval.entity \in Entities /\ approval.ahead \in 0 .. MaxAhead
      /\ approval.open \in BOOLEAN
  BY <1>0 DEF Approvals!Plan
<1>2. CASE Approvals!NextDay
  <2>1. approval' = [approval EXCEPT !.ahead = @ - 1] /\ approval.ahead - 1 \in 0 .. MaxAhead
    BY <1>1, <1>2, AheadAssumption DEF Approvals!NextDay
  <2> QED
    BY <1>0, <2>1 DEF Approvals!TypeOK, Approvals!Plan, Approvals!OneApproval,
       Approvals!Milestones, Approvals!IsActive
<1>3. ASSUME NEW e \in Entities, Approvals!PostMilestone(e)
      PROVE  Approvals!ApprovalSound'
  <2> DEFINE m == [author |-> e, status |-> "scheduled"]
  <2>1. m \in Approvals!Milestone
    BY DEF Approvals!Milestone, Approvals!MilestoneStatus, Approvals!Active
  <2>2. /\ approval' = [approval EXCEPT !.milestones = Append(ms, m)]
        /\ e = approval.entity
        /\ \A i \in DOMAIN ms : ms[i].status \in Approvals!Active => ms[i].author # e
    BY <1>3 DEF Approvals!PostMilestone, Approvals!Milestones, Approvals!IsActive
  <2>3. Append(ms, m) \in Seq(Approvals!Milestone)
    BY <1>1, <2>1
  <2>4. Approvals!TypeOK'
    BY <1>0, <2>2, <2>3 DEF Approvals!TypeOK, Approvals!Plan
  <2>5. approval'.milestones = Append(ms, m) /\ approval'.entity = approval.entity
    BY <1>0, <2>2 DEF Approvals!Plan
  <2>6. \A i \in DOMAIN ms : ms[i].status \notin Approvals!Active
    BY <2>2 DEF Approvals!OneApproval, Approvals!Milestones, Approvals!IsActive
  <2>7. \A i \in DOMAIN Append(ms, m) :
          Append(ms, m)[i].status \in Approvals!Active => i = Len(ms) + 1
    BY <1>1, <2>6
  <2>8. Append(ms, m)[Len(ms) + 1].author = approval.entity
    BY <1>1, <2>2
  <2> QED
    BY <2>4, <2>5, <2>7, <2>8 DEF Approvals!OneApproval, Approvals!Milestones,
       Approvals!IsActive
<1>4. ASSUME NEW i \in Approvals!Milestones, Approvals!DecideMilestone(i)
      PROVE  Approvals!ApprovalSound'
  <2>1. PICK s \in {"met", "notMet"} :
          approval' = [approval EXCEPT !.milestones[i].status = s]
    BY <1>4 DEF Approvals!DecideMilestone
  <2>2. i \in DOMAIN ms /\ ms[i].status = "scheduled"
    BY <1>4 DEF Approvals!DecideMilestone, Approvals!Milestones
  <2> DEFINE ms2 == [ms EXCEPT ![i].status = s]
  <2>3. ms2 \in Seq(Approvals!Milestone) /\ DOMAIN ms2 = DOMAIN ms
    <3>1. \A j \in DOMAIN ms : ms[j] \in Approvals!Milestone
      BY <1>1
    <3>2. \A j \in DOMAIN ms : ms2[j] \in Approvals!Milestone
      BY <1>1, <2>2, <3>1 DEF Approvals!Milestone, Approvals!MilestoneStatus,
         Approvals!Active
    <3>3. ms2 \in [DOMAIN ms -> Approvals!Milestone]
      BY <3>2
    <3> QED
      BY <1>1, <3>3, SameLength
  <2>4. approval' = [approval EXCEPT !.milestones = ms2]
    BY <2>1
  <2>5. approval'.milestones = ms2 /\ approval'.entity = approval.entity
    BY <1>0, <2>4 DEF Approvals!Plan
  <2>6. Approvals!TypeOK'
    BY <1>0, <2>3, <2>4 DEF Approvals!TypeOK, Approvals!Plan
  <2>7. \A j \in DOMAIN ms : /\ ms2[j].author = ms[j].author
                             /\ ms2[j].status \in Approvals!Active =>
                                  ms[j].status \in Approvals!Active
    BY <1>1, <2>2 DEF Approvals!Milestone, Approvals!Active
  <2> QED
    BY <2>3, <2>5, <2>6, <2>7 DEF Approvals!OneApproval, Approvals!Milestones,
       Approvals!IsActive
<1>5. ASSUME NEW d \in 0 .. MaxAhead, NEW stays \in BOOLEAN, Approvals!PatchPlan(d, stays)
      PROVE  Approvals!ApprovalSound'
  BY <1>0, <1>5 DEF Approvals!PatchPlan, Approvals!TypeOK, Approvals!Plan,
     Approvals!OneApproval, Approvals!Milestones, Approvals!IsActive
<1>6. ASSUME NEW d \in 0 .. MaxAhead, NEW stays \in BOOLEAN, NEW e \in Entities,
             Approvals!PatchEntity(e, d, stays)
      PROVE  Approvals!ApprovalSound'
  <2> DEFINE ms2 == Approvals!Revoked(ms)
  <2>1. approval' = [approval EXCEPT !.entity = e, !.ahead = d, !.open = stays,
                                     !.milestones = ms2]
    BY <1>6 DEF Approvals!PatchEntity
  <2>2. /\ ms2 \in Seq(Approvals!Milestone)
        /\ \A i \in DOMAIN ms2 : ms2[i].status \notin Approvals!Active
    <3>1. \A i \in DOMAIN ms : ms[i] \in Approvals!Milestone
      BY <1>1
    <3>2. /\ ms2 = [i \in DOMAIN ms |-> ms2[i]]
          /\ \A i \in DOMAIN ms : /\ ms2[i] \in Approvals!Milestone
                                 /\ ms2[i].status \notin Approvals!Active
      BY <3>1 DEF Approvals!Revoked, Approvals!Milestone, Approvals!MilestoneStatus,
         Approvals!Active
    <3>3. ms2 \in [DOMAIN ms -> Approvals!Milestone]
      BY <3>2
    <3> QED
      BY <1>1, <3>2, <3>3, SameLength
  <2>3. approval'.milestones = ms2 /\ approval' \in Approvals!Plan
    BY <1>0, <2>1, <2>2 DEF Approvals!Plan
  <2> QED
    BY <2>2, <2>3 DEF Approvals!TypeOK, Approvals!OneApproval, Approvals!Milestones,
       Approvals!IsActive
<1> QED
  BY <1>2, <1>3, <1>4, <1>5, <1>6 DEF Approvals!Next

-----------------------------------------------------------------------------
(* The story of a plan as a whole.                                           *)

PlansIInv == PlanIInv /\ Approvals!ApprovalSound

LEMMA PlansInit == PublicationInit => PlansIInv
<1>1. approval = Approvals!NoPlanYet => Approvals!ApprovalSound
  BY DEF Approvals!NoPlanYet, Approvals!ApprovalSound, Approvals!TypeOK,
     Approvals!OneApproval, Approvals!Milestones
<1> QED
  BY <1>1, PlanInit DEF PublicationInit, Before, PlansIInv

\* Every step of the system is one of the plan's or leaves the plan alone, and
\* the same for its approval.
LEMMA PlanOrApproval ==
  ASSUME [PublicationNext]_publicationVars
  PROVE  /\ [Next]_vars
         /\ \/ approval' = approval
            \/ Approvals!Planned
            \/ approval # Approvals!NoPlanYet /\ Approvals!Next
BY DEF PublicationNext, publicationVars, PlanStep, Scheduled, Advertised, Announced,
   BidsStep, PapersStep, ApprovalStep, EnquiriesStep

LEMMA PlansStep == PlansIInv /\ [PublicationNext]_publicationVars => PlansIInv'
<1> SUFFICES ASSUME PlansIInv, [PublicationNext]_publicationVars PROVE PlansIInv'
  OBVIOUS
<1>1. PlanIInv'
  BY PlanOrApproval, PlanStepInv DEF PlansIInv
<1>2. approval' = approval => Approvals!ApprovalSound'
  BY DEF PlansIInv, Approvals!ApprovalSound, Approvals!TypeOK, Approvals!OneApproval,
     Approvals!Milestones, Approvals!IsActive
<1>3. Approvals!ApprovalSound'
  BY <1>2, PlanOrApproval, ApprovalPlanned, ApprovalStepInv DEF PlansIInv
<1> QED
  BY <1>1, <1>3 DEF PlansIInv

LEMMA PlansInvariant == PublicationSpec => []PlansIInv
<1>1. PublicationInit => PlansIInv
  BY PlansInit
<1>2. PlansIInv /\ [PublicationNext]_publicationVars => PlansIInv'
  BY PlansStep
<1> QED
  BY <1>1, <1>2, PTL DEF PublicationSpec

\* Whatever requests race for a plan and whichever of them die half-way: the
\* plan's tender lists the plan, a published tender is the tender of all the
\* plans it lists, one request at most was told success, and one milestone at
\* most, of the present procuringEntity, counts as the plan's approval.
THEOREM PlansAreSound == PublicationSpec => []PlansSound
<1>1. PlansIInv => PlansSound
  BY DEF PlansIInv, PlanIInv, PlansSound, LinkSound, Linked
<1> QED
  BY <1>1, PlansInvariant, PTL

\* A plan gets its tender once, and one that was completed or cancelled by its
\* owner gets none: the two stores of a request cannot undo the owner's edit.
THEOREM PlansAreDecidedOnce == PublicationSpec => PlanDecidedOnce
<1> DEFINE Once ==
      \A p \in Plans :
        /\ plan[p].tender # None => plan'[p].tender = plan[p].tender
        /\ plan[p].status # "scheduled" => plan'[p].status = plan[p].status
                                          /\ plan'[p].tender = plan[p].tender
<1>1. PlansIInv /\ [PublicationNext]_publicationVars => [Once]_vars
  <2> SUFFICES ASSUME PlanIInv, [Next]_vars PROVE Once
    BY PlanOrApproval DEF PlansIInv
  <2> QED
    BY PlanMoves DEF PlanIInv
<1> QED
  BY <1>1, PlansInvariant, PTL DEF PublicationSpec, PlanDecidedOnce

-----------------------------------------------------------------------------
(* Documents and posts.  A version has the number of an earlier one of the   *)
(* same document, or its own place in the folder, which no document had      *)
(* before; a question is for a party, who alone may answer it.               *)

DeskShape ==
  /\ desk = [kind |-> desk.kind, tender |-> desk.tender, state |-> desk.state,
             facts |-> desk.facts, papers |-> desk.papers, posts |-> desk.posts,
             late |-> desk.late]
  /\ desk.late \in BOOLEAN
  /\ desk.papers \in Seq([id : Nat, author : Papers!Roles \cup {"nobody"},
                          hands : SUBSET Papers!Roles])
  /\ desk.posts \in Seq([author : Papers!Roles, to : Papers!Roles, of : Nat])

PapersNumbered ==
  \A i \in DOMAIN desk.papers : desk.papers[i].id \in 1 .. Len(desk.papers)

QuestionsForParties ==
  \A i \in DOMAIN desk.posts :
    /\ desk.posts[i].of \in 0 .. Len(desk.posts)
    /\ desk.posts[i].author = Papers!Reviewers => desk.posts[i].to # Papers!Reviewers

FoldersIInv ==
  DeskShape /\ PapersNumbered /\ QuestionsForParties /\ Papers!FoldersSound

\* What the rules have in common: where authors are asked for, a document is
\* changed by its author; and no complaint that was judged takes documents,
\* unless it is about a cancellation.
LEMMA RulesAgree ==
  ASSUME NEW who, NEW doc, Papers!Allowed(who, doc)
  PROVE  /\ desk.kind \in Papers!AuthorRuled => doc = Papers!Nothing \/ doc.author = who
         /\ desk.kind \in Papers!ComplaintFolders /\ desk.state \in Papers!Judged =>
              desk.kind = "cancellation complaint"
<1> USE DEF Papers!AuthorRuled, Papers!ComplaintFolders, Papers!BelowComplaints,
      Papers!AboveComplaints, Papers!ByItsAuthor
<1>1. CASE desk.kind \notin Papers!AuthorRuled
  BY <1>1
<1>2. CASE desk.kind \in {"tender", "selection tender", "award", "above award"}
  BY <1>2 DEF Papers!Allowed, Papers!TenderPaper, Papers!SelectionTenderPaper,
     Papers!AwardPaper, Papers!AboveAwardPaper
<1>3. CASE desk.kind \in Papers!BelowComplaints
  <2>1. Papers!ByItsAuthor(who, doc) /\ desk.state \in Papers!BelowStatuses(who)
    BY <1>3 DEF Papers!Allowed, Papers!ComplaintPaper, Papers!AwardComplaintPaper
  <2>2. Papers!BelowStatuses(who) \cap Papers!Judged = {}
    BY DEF Papers!BelowStatuses, Papers!Judged, Papers!Rejected, Papers!Owner,
       Papers!Complainant, Papers!Reviewers
  <2> QED
    BY <2>1, <2>2
<1>4. CASE desk.kind \in {"above complaint", "above award complaint",
                          "limited award complaint", "qualification complaint"}
  <2>1. Papers!ByItsAuthor(who, doc) /\ desk.state \in Papers!AboveStatuses(who)
    BY <1>4 DEF Papers!Allowed, Papers!AboveComplaintPaper, Papers!AboveAwardComplaintPaper,
       Papers!LimitedAwardComplaintPaper, Papers!QualificationComplaintPaper
  <2>2. Papers!AboveStatuses(who) \cap Papers!Judged = {}
    BY DEF Papers!AboveStatuses, Papers!Judged, Papers!Rejected, Papers!Owner,
       Papers!Complainant, Papers!Reviewers
  <2> QED
    BY <2>1, <2>2
<1>5. CASE desk.kind = "cancellation complaint"
  BY <1>5 DEF Papers!Allowed, Papers!CancellationComplaintPaper
<1>6. CASE desk.kind = "posts"
  BY <1>6 DEF Papers!Allowed, Papers!PostPaper, Papers!MayPost, Papers!Judged,
     Papers!Rejected
<1> QED
  BY <1>1, <1>2, <1>3, <1>4, <1>5, <1>6

LEMMA DeskOpened == Papers!Open => FoldersIInv'
BY DEF Papers!Open, Papers!Opened, FoldersIInv, DeskShape, PapersNumbered,
   QuestionsForParties, Papers!FoldersSound, Papers!OneHand, Papers!ClosedWithTheCase,
   Papers!QuestionsAndAnswers, Papers!Nth

\* What goes on around a folder changes nothing in it.
LEMMA DeskMovesOn ==
  ASSUME FoldersIInv,
         Papers!TenderMovesOn \/ Papers!ObjectMovesOn \/ Papers!FactChanges
  PROVE  FoldersIInv'
<1>1. \/ \E s : desk' = [desk EXCEPT !.tender = s]
      \/ \E s : desk' = [desk EXCEPT !.state = s]
      \/ \E s : desk' = [desk EXCEPT !.facts = s]
  BY Zenon DEF Papers!TenderMovesOn, Papers!ObjectMovesOn, Papers!FactChanges
<1>2. /\ desk'.papers = desk.papers /\ desk'.posts = desk.posts
      /\ desk'.kind = desk.kind /\ desk'.late = desk.late
      /\ desk' = [kind |-> desk'.kind, tender |-> desk'.tender, state |-> desk'.state,
                  facts |-> desk'.facts, papers |-> desk'.papers, posts |-> desk'.posts,
                  late |-> desk'.late]
  BY <1>1 DEF FoldersIInv, DeskShape
<1>3. DeskShape'
  BY <1>2 DEF FoldersIInv, DeskShape
<1>4. PapersNumbered' /\ QuestionsForParties'
  BY <1>2 DEF FoldersIInv, PapersNumbered, QuestionsForParties
<1>5. Papers!OneHand'
  BY <1>2 DEF FoldersIInv, Papers!FoldersSound, Papers!OneHand, Papers!Nth
<1>6. Papers!ClosedWithTheCase'
  BY <1>2, Zenon DEF FoldersIInv, Papers!FoldersSound, Papers!ClosedWithTheCase
<1>7. Papers!QuestionsAndAnswers'
  BY <1>2 DEF FoldersIInv, Papers!FoldersSound, Papers!QuestionsAndAnswers, Papers!Nth
<1> QED
  BY <1>3, <1>4, <1>5, <1>6, <1>7 DEF FoldersIInv, Papers!FoldersSound

PaperType == [id : Nat, author : Papers!Roles \cup {"nobody"}, hands : SUBSET Papers!Roles]

\* What the three operations share: only the folder and the note of late changes
\* are touched, and a note is only made in a complaint about a cancellation.
LEMMA Filed ==
  ASSUME FoldersIInv, NEW who, NEW doc, Papers!Allowed(who, doc),
         NEW papers \in Seq(PaperType), desk' = Papers!File(papers)
  PROVE  /\ desk'.papers = papers /\ desk'.kind = desk.kind
         /\ DeskShape' /\ QuestionsForParties'
         /\ Papers!ClosedWithTheCase' /\ Papers!QuestionsAndAnswers'
<1> DEFINE late == desk.kind \in Papers!ComplaintFolders /\ desk.state \in Papers!Judged
<1>1. desk' = [desk EXCEPT !.papers = papers, !.late = desk.late \/ late]
  BY DEF Papers!File
<1>2. desk.late \in BOOLEAN
  BY DEF FoldersIInv, DeskShape
<1>3. desk.late => desk.kind = "cancellation complaint"
  BY Zenon DEF FoldersIInv, Papers!FoldersSound, Papers!ClosedWithTheCase
<1>4. late => desk.kind = "cancellation complaint"
  BY RulesAgree
<1> DEFINE later == desk.late \/ late
<1>5. later \in BOOLEAN /\ (later => desk.kind = "cancellation complaint")
  BY <1>3, <1>4
<1>6. desk' = [desk EXCEPT !.papers = papers, !.late = later]
  BY <1>1
<1> HIDE DEF later
<1>7. /\ desk'.papers = papers /\ desk'.posts = desk.posts
      /\ desk'.kind = desk.kind /\ desk'.late = later
      /\ desk' = [kind |-> desk'.kind, tender |-> desk'.tender, state |-> desk'.state,
                  facts |-> desk'.facts, papers |-> desk'.papers, posts |-> desk'.posts,
                  late |-> desk'.late]
  BY <1>6 DEF FoldersIInv, DeskShape
<1>8. DeskShape'
  BY <1>5, <1>7 DEF FoldersIInv, DeskShape, PaperType
<1>9. QuestionsForParties'
  BY <1>7 DEF FoldersIInv, QuestionsForParties
<1>10. Papers!QuestionsAndAnswers'
  BY <1>7 DEF FoldersIInv, Papers!FoldersSound, Papers!QuestionsAndAnswers, Papers!Nth
<1>11. Papers!ClosedWithTheCase'
  BY <1>5, <1>7, Zenon DEF Papers!ClosedWithTheCase
<1> QED
  BY <1>7, <1>8, <1>9, <1>10, <1>11

LEMMA PapersTyped ==
  FoldersIInv => /\ desk.papers \in Seq(PaperType)
                 /\ \A i \in DOMAIN desk.papers : desk.papers[i] \in PaperType
<1> SUFFICES ASSUME FoldersIInv PROVE desk.papers \in Seq(PaperType)
  OBVIOUS
<1> QED
  BY DEF FoldersIInv, DeskShape, PaperType

\* A new document has a number of its own and one author.
LEMMA AddPaperStep ==
  ASSUME FoldersIInv, NEW who \in Papers!Roles, Papers!AddPaper(who)
  PROVE  FoldersIInv'
<1> DEFINE n == Len(desk.papers)
           new == [id |-> n + 1, author |-> Papers!AuthorOf(who), hands |-> {who}]
           papers == Append(desk.papers, new)
<1>1. desk.papers \in Seq(PaperType) /\ n \in Nat
  BY PapersTyped
<1>2. /\ new \in PaperType
      /\ desk.kind \in Papers!AuthorRuled => new.author = who
  BY <1>1 DEF PaperType, Papers!AuthorOf
<1>3. papers \in Seq(PaperType)
  BY <1>1, <1>2
<1>4. Papers!Allowed(who, Papers!Nothing) /\ desk' = Papers!File(papers)
  BY DEF Papers!AddPaper
<1>5. /\ desk'.papers = papers /\ desk'.kind = desk.kind
      /\ DeskShape' /\ QuestionsForParties'
      /\ Papers!ClosedWithTheCase' /\ Papers!QuestionsAndAnswers'
  BY <1>3, <1>4, Filed
<1>6. /\ Len(papers) = n + 1 /\ DOMAIN papers = 1 .. n + 1 /\ papers[n + 1] = new
      /\ \A i \in 1 .. n : papers[i] = desk.papers[i]
      /\ DOMAIN desk.papers = 1 .. n
  BY <1>1, <1>2
<1> HIDE DEF papers
<1>7. \A i \in 1 .. n : papers[i].id \in 1 .. n
  BY <1>6 DEF FoldersIInv, PapersNumbered
<1>8. PapersNumbered'
  BY <1>1, <1>5, <1>6, <1>7 DEF PapersNumbered
<1>9. Papers!OneHand'
  <2> SUFFICES ASSUME desk.kind \in Papers!AuthorRuled,
                      NEW i \in 1 .. n + 1, NEW j \in 1 .. n + 1,
                      papers[i].id = papers[j].id
               PROVE  papers[i].hands = {papers[i].author} /\ papers[i].author = papers[j].author
    BY <1>5, <1>6 DEF Papers!OneHand, Papers!Nth
  <2>1. CASE i \in 1 .. n /\ j \in 1 .. n
    BY <1>6, <2>1 DEF FoldersIInv, Papers!FoldersSound, Papers!OneHand, Papers!Nth
  <2>2. CASE i = n + 1 \/ j = n + 1
    BY <1>1, <1>2, <1>6, <1>7, <2>2
  <2> QED
    BY <1>1, <2>1, <2>2
<1> QED
  BY <1>5, <1>8, <1>9 DEF FoldersIInv, Papers!FoldersSound

\* A version put in place of another is by the author of that one.
LEMMA ReplacePaperStep ==
  ASSUME FoldersIInv, NEW who \in Papers!Roles, NEW k \in DOMAIN desk.papers,
         Papers!ReplacePaper(who, k)
  PROVE  FoldersIInv'
<1> DEFINE n == Len(desk.papers)
           last == desk.papers[k]
           new == [id |-> last.id, hands |-> {who},
                   author |-> IF desk.kind \in Papers!ComplaintFolders THEN who ELSE last.author]
           papers == Append(desk.papers, new)
<1>1. desk.papers \in Seq(PaperType) /\ n \in Nat /\ last \in PaperType
  BY PapersTyped
<1>2. last.id \in 1 .. n
  BY DEF FoldersIInv, PapersNumbered
<1>3. Papers!Allowed(who, last) /\ desk' = Papers!File(papers)
  BY DEF Papers!ReplacePaper
<1>4. last # Papers!Nothing
  BY <1>1, <1>2 DEF Papers!Nothing
<1>5. /\ new \in PaperType
      /\ desk.kind \in Papers!AuthorRuled => last.author = who /\ new.author = who
  BY <1>1, <1>3, <1>4, RulesAgree DEF PaperType
<1>6. papers \in Seq(PaperType)
  BY <1>1, <1>5
<1>7. /\ desk'.papers = papers /\ desk'.kind = desk.kind
      /\ DeskShape' /\ QuestionsForParties'
      /\ Papers!ClosedWithTheCase' /\ Papers!QuestionsAndAnswers'
  BY <1>3, <1>6, Filed
<1>8. /\ Len(papers) = n + 1 /\ DOMAIN papers = 1 .. n + 1 /\ papers[n + 1] = new
      /\ \A i \in 1 .. n : papers[i] = desk.papers[i]
      /\ DOMAIN desk.papers = 1 .. n
  BY <1>1, <1>5
<1> HIDE DEF papers
<1>9. PapersNumbered'
  <2>1. \A i \in 1 .. n : papers[i].id \in 1 .. n
    BY <1>8 DEF PapersNumbered, FoldersIInv
  <2>2. papers[n + 1].id \in 1 .. n
    BY <1>2, <1>8
  <2> QED
    BY <1>1, <1>7, <1>8, <2>1, <2>2 DEF PapersNumbered
<1>10. Papers!OneHand'
  <2> SUFFICES ASSUME desk.kind \in Papers!AuthorRuled,
                      NEW i \in 1 .. n + 1, NEW j \in 1 .. n + 1,
                      papers[i].id = papers[j].id
               PROVE  papers[i].hands = {papers[i].author} /\ papers[i].author = papers[j].author
    BY <1>7, <1>8 DEF Papers!OneHand, Papers!Nth
  <2>1. \A x, y \in 1 .. n : papers[x].id = papers[y].id =>
          papers[x].hands = {papers[x].author} /\ papers[x].author = papers[y].author
    <3> SUFFICES ASSUME NEW x \in 1 .. n, NEW y \in 1 .. n, papers[x].id = papers[y].id
                 PROVE  /\ papers[x].hands = {papers[x].author}
                        /\ papers[x].author = papers[y].author
      OBVIOUS
    <3>1. /\ papers[x] = desk.papers[x] /\ papers[y] = desk.papers[y]
          /\ x \in DOMAIN desk.papers /\ y \in DOMAIN desk.papers
      BY <1>8
    <3> QED
      BY <3>1 DEF FoldersIInv, Papers!FoldersSound, Papers!OneHand, Papers!Nth
  <2>2. \A x \in 1 .. n : papers[x].id = new.id => papers[x].author = who
    BY <1>5, <1>8, <2>1
  <2>3. i \in 1 .. n \/ i = n + 1
    BY <1>1
  <2>4. j \in 1 .. n \/ j = n + 1
    BY <1>1
  <2> QED
    BY <1>5, <1>8, <2>1, <2>2, <2>3, <2>4
<1> QED
  BY <1>7, <1>9, <1>10 DEF FoldersIInv, Papers!FoldersSound

\* To describe a version anew is its author's too.
LEMMA AmendPaperStep ==
  ASSUME FoldersIInv, NEW who \in Papers!Roles, NEW k \in DOMAIN desk.papers,
         Papers!AmendPaper(who, k)
  PROVE  FoldersIInv'
<1> DEFINE last == desk.papers[k]
           papers == [desk.papers EXCEPT ![k].hands = @ \cup {who}]
<1>1. desk.papers \in Seq(PaperType) /\ last \in PaperType
  BY PapersTyped
<1>2. last # Papers!Nothing
  BY <1>1 DEF FoldersIInv, PapersNumbered, Papers!Nothing
<1>3. Papers!Allowed(who, last) /\ desk' = Papers!File(papers)
  BY DEF Papers!AmendPaper
<1>4. desk.kind \in Papers!AuthorRuled => last.author = who
  BY <1>2, <1>3, RulesAgree
<1>5. papers \in [DOMAIN desk.papers -> PaperType]
  <2>1. \A i \in DOMAIN desk.papers : desk.papers[i] \in PaperType
    BY PapersTyped
  <2>2. \A i \in DOMAIN desk.papers : papers[i] \in PaperType
    BY <1>1, <2>1 DEF PaperType
  <2> QED
    BY <2>2
<1>6. papers \in Seq(PaperType) /\ Len(papers) = Len(desk.papers)
        /\ DOMAIN papers = DOMAIN desk.papers
  BY <1>1, <1>5, SameLength
<1>7. /\ desk'.papers = papers /\ desk'.kind = desk.kind
      /\ DeskShape' /\ QuestionsForParties'
      /\ Papers!ClosedWithTheCase' /\ Papers!QuestionsAndAnswers'
  BY <1>3, <1>6, Filed
<1>8. \A i \in DOMAIN desk.papers :
        /\ papers[i].id = desk.papers[i].id /\ papers[i].author = desk.papers[i].author
        /\ papers[i].hands = desk.papers[i].hands \cup (IF i = k THEN {who} ELSE {})
  <2>1. \A i \in DOMAIN desk.papers : desk.papers[i] \in PaperType
    BY PapersTyped
  <2> QED
    BY <1>1, <2>1 DEF PaperType
<1> HIDE DEF papers
<1>9. PapersNumbered'
  BY <1>6, <1>7, <1>8 DEF PapersNumbered, FoldersIInv
<1>10. Papers!OneHand'
  BY <1>4, <1>6, <1>7, <1>8 DEF FoldersIInv, Papers!FoldersSound, Papers!OneHand, Papers!Nth
<1> QED
  BY <1>7, <1>9, <1>10 DEF FoldersIInv, Papers!FoldersSound

\* A question is asked by the reviewers; whoever it is for may answer it, once.
LEMMA AddPostStep ==
  ASSUME FoldersIInv,
         NEW who \in {Papers!Owner, Papers!Complainant, Papers!Reviewers},
         NEW to \in {Papers!Owner, Papers!Complainant, Papers!Reviewers},
         NEW of \in {0} \cup DOMAIN desk.posts, Papers!AddPost(who, to, of)
  PROVE  FoldersIInv'
<1> DEFINE Post == [author : Papers!Roles, to : Papers!Roles, of : Nat]
           n == Len(desk.posts)
           new == [author |-> who, to |-> to, of |-> of]
           posts == Append(desk.posts, new)
<1>0. desk.posts \in Seq(Post) /\ n \in Nat /\ DOMAIN desk.posts = 1 .. n
  BY DEF FoldersIInv, DeskShape
<1>1. of \in 0 .. n /\ new \in Post
  BY <1>0 DEF Papers!Roles
<1>2. /\ posts \in Seq(Post) /\ DOMAIN posts = 1 .. n + 1 /\ Len(posts) = n + 1
      /\ posts[n + 1] = new /\ \A i \in 1 .. n : posts[i] = desk.posts[i]
  BY <1>0, <1>1
<1> HIDE DEF posts
<1>3. desk' = [desk EXCEPT !.posts = posts]
  BY DEF Papers!AddPost, posts
<1>4. /\ desk'.papers = desk.papers /\ desk'.posts = posts
      /\ desk'.kind = desk.kind /\ desk'.late = desk.late
      /\ desk' = [kind |-> desk'.kind, tender |-> desk'.tender, state |-> desk'.state,
                  facts |-> desk'.facts, papers |-> desk'.papers, posts |-> desk'.posts,
                  late |-> desk'.late]
  BY <1>3 DEF FoldersIInv, DeskShape
<1>5. DeskShape'
  BY <1>2, <1>4 DEF FoldersIInv, DeskShape
<1>6. PapersNumbered'
  BY <1>4 DEF FoldersIInv, PapersNumbered
<1>7. Papers!OneHand'
  BY <1>4 DEF FoldersIInv, Papers!FoldersSound, Papers!OneHand, Papers!Nth
<1>8. Papers!ClosedWithTheCase'
  BY <1>4, Zenon DEF FoldersIInv, Papers!FoldersSound, Papers!ClosedWithTheCase
<1>9. /\ who = Papers!Reviewers => to # Papers!Reviewers
      /\ who # Papers!Reviewers => to = Papers!Reviewers /\ of # 0
      /\ of # 0 => /\ desk.posts[of].of = 0 /\ desk.posts[of].to = who
                   /\ \A j \in 1 .. n : desk.posts[j].of # of
  BY <1>0 DEF Papers!AddPost, Papers!Answers, Papers!Owner, Papers!Complainant,
     Papers!Reviewers, Papers!Nth
<1>10. \A i \in 1 .. n :
         /\ desk.posts[i].of \in 0 .. n
         /\ desk.posts[i].author = Papers!Reviewers => desk.posts[i].to # Papers!Reviewers
  BY <1>0 DEF FoldersIInv, QuestionsForParties
<1>11. QuestionsForParties'
  <2>1. \A i \in 1 .. n :
          /\ posts[i].of \in 0 .. n + 1
          /\ posts[i].author = Papers!Reviewers => posts[i].to # Papers!Reviewers
    <3> SUFFICES ASSUME NEW i \in 1 .. n
                 PROVE  /\ posts[i].of \in 0 .. n + 1
                        /\ posts[i].author = Papers!Reviewers => posts[i].to # Papers!Reviewers
      OBVIOUS
    <3>1. posts[i] = desk.posts[i]
      BY <1>2
    <3> QED
      BY <1>0, <1>10, <3>1
  <2>2. /\ posts[n + 1].of \in 0 .. n + 1
        /\ posts[n + 1].author = Papers!Reviewers => posts[n + 1].to # Papers!Reviewers
    BY <1>0, <1>1, <1>2, <1>9
  <2> QED
    BY <1>0, <1>2, <1>4, <2>1, <2>2 DEF QuestionsForParties
<1>12. ASSUME NEW i \in 1 .. n, desk.posts[i].author # Papers!Reviewers
       PROVE  /\ desk.posts[i].of \in 1 .. n
              /\ desk.posts[desk.posts[i].of].author = Papers!Reviewers
              /\ desk.posts[desk.posts[i].of].to = desk.posts[i].author
              /\ \A j \in 1 .. n : desk.posts[j].of = desk.posts[i].of => j = i
  <2>1. /\ desk.posts[i].of # 0
        /\ desk.posts[desk.posts[i].of].author = Papers!Reviewers
        /\ desk.posts[desk.posts[i].of].to = desk.posts[i].author
        /\ \A j \in 1 .. n : desk.posts[j].of = desk.posts[i].of => j = i
    BY <1>0, <1>12 DEF FoldersIInv, Papers!FoldersSound, Papers!QuestionsAndAnswers,
       Papers!Nth
  <2>2. desk.posts[i].of \in 0 .. n
    BY <1>10
  <2> QED
    BY <1>0, <2>1, <2>2
<1>13. \A i \in 1 .. n : desk.posts[i].author = Papers!Reviewers => desk.posts[i].of = 0
  BY <1>0 DEF FoldersIInv, Papers!FoldersSound, Papers!QuestionsAndAnswers, Papers!Nth
\* A post that starts a conversation is the reviewers', and so not for them.
<1>14. of # 0 => /\ desk.posts[of].author = Papers!Reviewers
                 /\ who # Papers!Reviewers
  BY <1>0, <1>1, <1>9, <1>10, <1>12
<1>15. Papers!QuestionsAndAnswers'
  <2>1. ASSUME NEW i \in 1 .. n + 1, posts[i].author = Papers!Reviewers
        PROVE  posts[i].of = 0
    <3>1. CASE i = n + 1
      BY <1>2, <1>14, <2>1, <3>1
    <3>2. CASE i \in 1 .. n
      <4>1. posts[i] = desk.posts[i]
        BY <1>2, <3>2
      <4> QED
        BY <1>13, <2>1, <3>2, <4>1
    <3> QED
      BY <1>0, <3>1, <3>2
  <2>2. ASSUME NEW i \in 1 .. n + 1, posts[i].author # Papers!Reviewers
        PROVE  /\ posts[i].of # 0 /\ posts[posts[i].of].author = Papers!Reviewers
               /\ posts[posts[i].of].to = posts[i].author
               /\ \A j \in 1 .. n + 1 : posts[j].of = posts[i].of => j = i
    <3>1. CASE i = n + 1
      <4>1. posts[i] = new /\ who # Papers!Reviewers
        BY <1>2, <2>2, <3>1
      <4>2. /\ of # 0 /\ of \in 1 .. n /\ posts[of] = desk.posts[of]
            /\ desk.posts[of].author = Papers!Reviewers /\ desk.posts[of].to = who
        BY <1>0, <1>1, <1>2, <1>9, <1>14, <4>1
      <4>3. ASSUME NEW j \in 1 .. n + 1, posts[j].of = of
            PROVE  j = i
        <5>1. \A k \in 1 .. n : posts[k] = desk.posts[k] /\ desk.posts[k].of # of
          BY <1>2, <1>9, <4>2
        <5>2. j \notin 1 .. n
          BY <4>3, <5>1
        <5>3. j = n + 1
          BY <1>0, <5>2
        <5> QED
          BY <3>1, <5>3
      <4> QED
        BY <4>1, <4>2, <4>3
    <3>2. CASE i \in 1 .. n
      <4>1. desk.posts[i] = posts[i]
        BY <1>2, <3>2
      <4>2. posts[i].of \in 1 .. n /\ posts[i].of # 0
        BY <1>12, <2>2, <3>2, <4>1
      <4>3. of # posts[i].of
        BY <1>9, <3>2, <4>1, <4>2
      <4>4. ASSUME NEW j \in 1 .. n + 1, posts[j].of = posts[i].of
            PROVE  j = i
        <5>1. j # n + 1
          BY <1>2, <4>3, <4>4
        <5>2. j \in 1 .. n /\ desk.posts[j].of = desk.posts[i].of
          <6>1. j \in 1 .. n
            BY <1>0, <5>1
          <6>2. posts[j] = desk.posts[j]
            BY <1>2, <6>1
          <6> QED
            BY <4>1, <4>4, <6>1, <6>2
        <5> QED
          <6>1. desk.posts[i].author # Papers!Reviewers
            BY <2>2, <4>1
          <6> QED
            BY <1>12, <3>2, <5>2, <6>1
      <4> QED
        BY <1>2, <1>12, <2>2, <3>2, <4>1, <4>2, <4>4
    <3> QED
      BY <1>0, <3>1, <3>2
  <2> QED
    BY <1>2, <1>4, <2>1, <2>2 DEF Papers!QuestionsAndAnswers, Papers!Nth
<1> QED
  BY <1>5, <1>6, <1>7, <1>8, <1>11, <1>15 DEF FoldersIInv, Papers!FoldersSound

LEMMA DeskStepInv == FoldersIInv /\ Papers!Next => FoldersIInv'
BY DeskMovesOn, AddPaperStep, ReplacePaperStep, AmendPaperStep, AddPostStep
DEF Papers!Next, Papers!Nth

LEMMA FoldersInit == PublicationInit => FoldersIInv
BY DEF PublicationInit, Before, Papers!NoDeskYet, FoldersIInv, DeskShape, PapersNumbered,
   QuestionsForParties, Papers!FoldersSound, Papers!OneHand, Papers!ClosedWithTheCase,
   Papers!QuestionsAndAnswers, Papers!Nth

LEMMA FoldersStep == FoldersIInv /\ [PublicationNext]_publicationVars => FoldersIInv'
<1> SUFFICES ASSUME FoldersIInv, [PublicationNext]_publicationVars PROVE FoldersIInv'
  OBVIOUS
<1>1. desk' = desk \/ Papers!Open \/ Papers!Next
  BY DEF PublicationNext, publicationVars, PlanStep, Scheduled, Advertised, Announced,
     BidsStep, PapersStep, ApprovalStep, EnquiriesStep
<1>2. CASE desk' = desk
  <2>1. DeskShape' /\ PapersNumbered' /\ QuestionsForParties'
    BY <1>2 DEF FoldersIInv, DeskShape, PapersNumbered, QuestionsForParties
  <2>2. Papers!OneHand' /\ Papers!QuestionsAndAnswers'
    BY <1>2 DEF FoldersIInv, Papers!FoldersSound, Papers!OneHand,
       Papers!QuestionsAndAnswers, Papers!Nth
  <2>3. Papers!ClosedWithTheCase'
    BY <1>2, Zenon DEF FoldersIInv, Papers!FoldersSound, Papers!ClosedWithTheCase
  <2> QED
    BY <2>1, <2>2, <2>3 DEF FoldersIInv, Papers!FoldersSound
<1> QED
  BY <1>1, <1>2, DeskOpened, DeskStepInv

\* In every kind of folder, in whatever order the parties use the three
\* operations while statuses and facts change around them: where authors are
\* asked for, each document is one party's work; a complaint that was judged
\* takes no more documents, but for those about cancellations; and its posts
\* are questions of the reviewers with one answer each by who was asked.
THEOREM FoldersAreSound == PublicationSpec => []FoldersSound
<1>1. FoldersIInv => FoldersSound
  BY DEF FoldersIInv, FoldersSound
<1> QED
  BY <1>1, FoldersInit, FoldersStep, PTL DEF PublicationSpec

-----------------------------------------------------------------------------
(* Bids.  Nothing about a bid is decided before the bids are opened, and the *)
(* terms do not change after.                                                *)

CallStatus == {"none", "active.tendering", "active.pre-qualification",
  "active.pre-qualification.stand-still", "active.auction", "active.qualification",
  "active.awarded", "complete", "unsuccessful", "cancelled"}
BidStatuses == {"none", "draft", "active", "pending", "invalid", "deleted", "unsuccessful",
  "invalid.pre-qualification"}
Review == [of : {"qualification", "award"}, status : {"pending", "active", "unsuccessful"},
           running : SUBSET {"24h", "alp"}, had24h : BOOLEAN, stale : BOOLEAN]

Prices == UNION {[ps -> Amounts] : ps \in SUBSET (Lots \cup {Whole})}
Bid == [status : BidStatuses, values : Prices, papers : BOOLEAN, current : BOOLEAN]
Call == [kind : {"UA", "EU"}, status : CallStatus, left : Int, notice : Int,
         ceiling : Prices, bid : Bid, early : BOOLEAN,
         reviews : UNION {[ps -> Review] : ps \in SUBSET (Lots \cup {Whole})}]

\* The bid is reviewed once the bids are opened.
ReviewsFit == Bids!Tendering => DOMAIN call.reviews = {}

\* A bid that may count has seen the terms and fits them, and there was time;
\* so does one in openEU whose status is about to follow from its reviews.
CountedFits ==
  /\ call.notice >= Extra
  /\ \/ call.bid.status \in {"pending", "active", "unsuccessful"}
     \/ call.kind = "EU" /\ DOMAIN call.reviews # {}
     => call.bid.current /\ Bids!Fits(call.bid.values)
  /\ Bids!Tendering => call.bid.status \in {"none", "draft", "invalid", "deleted",
                                            Bids!Valid(call.kind)}

\* Drafts are gone when the bids are opened, and in openUA nobody looks at bids
\* before the auction; what is cancelled early stays so, with the bid hidden.
HiddenFits ==
  /\ ~ Bids!Tendering => call.bid.status # "draft"
  /\ call.kind = "UA" => call.status \notin {"active.pre-qualification",
                                            "active.pre-qualification.stand-still"}
  /\ call.early =>
       /\ call.status = "cancelled"
       /\ call.bid.status \notin {"pending", "active"}
       /\ call.kind = "UA" => call.bid.status = "none"

BidsIInv ==
  call \in Call /\ ReviewsFit /\ CountedFits /\ HiddenFits /\ Bids!DecidedOnWhatIsThere

\* What is decided on the papers of a bid does not ask about anything but its
\* reviews.
LEMMA ReviewsStay ==
  ASSUME BidsIInv, call'.reviews = call.reviews, Bids!Tendering' => Bids!Tendering
  PROVE  ReviewsFit' /\ Bids!DecidedOnWhatIsThere'
BY DEF BidsIInv, ReviewsFit, Bids!DecidedOnWhatIsThere

\* A change of the terms, whatever it is: the bid has to be confirmed again.
LEMMA TermsMoved ==
  ASSUME BidsIInv, Bids!Tendering, NEW left \in Int, NEW ceiling \in Prices, Extra <= left,
         call' = Bids!Invalidate([call EXCEPT !.left = left, !.ceiling = ceiling])
  PROVE  BidsIInv'
<1> USE DEF BidsIInv
<1> DEFINE s == IF call.bid.status \in {"none", "deleted", "draft"} THEN call.bid.status
                ELSE "invalid"
           c == [call EXCEPT !.left = left, !.ceiling = ceiling]
<1>1. /\ c \in Call /\ c.kind = call.kind /\ c.status = call.status /\ c.left = left
      /\ c.bid = call.bid /\ c.reviews = call.reviews /\ c.early = call.early
  BY DEF Call
<1>2. call' = Bids!Invalidate(c)
  OBVIOUS
<1>3. s \in {"none", "deleted", "draft", "invalid"}
  OBVIOUS
<1> HIDE DEF c
<1>4. /\ call' \in Call
      /\ call'.kind = call.kind /\ call'.status = call.status /\ call'.notice = left
      /\ call'.bid.status = s /\ call'.reviews = call.reviews
      /\ call'.early = call.early
  <2> DEFINE b == [call.bid EXCEPT !.status = s, !.current = FALSE]
  <2>1. b \in Bid /\ b.status = s
    BY <1>3 DEF Call, Bid, BidStatuses
  <2>2. call' = [c EXCEPT !.bid = b, !.notice = left]
    BY <1>1, <1>2 DEF Call, Bid, Bids!Invalidate
  <2> HIDE DEF b
  <2> QED
    BY <1>1, <2>1, <2>2 DEF Call
<1> HIDE DEF s
<1>5. ReviewsFit' /\ Bids!DecidedOnWhatIsThere'
  BY <1>4, ReviewsStay DEF Bids!Tendering
<1>6. CountedFits'
  BY <1>3, <1>4, <1>5 DEF CountedFits, ReviewsFit, Bids!Tendering
<1>7. HiddenFits'
  BY <1>3, <1>4 DEF HiddenFits, Bids!Tendering
<1> QED
  BY <1>4, <1>5, <1>6, <1>7

LEMMA PriceRange ==
  ASSUME NEW f, DOMAIN f \subseteq Lots \cup {Whole}, f \in [DOMAIN f -> Amounts]
  PROVE  f \in Prices
BY DEF Prices

LEMMA NoPrices == <<>> \in Prices /\ DOMAIN <<>> = {}
<1>1. <<>> \in [1 .. 0 -> Amounts] /\ 1 .. 0 = {}
  BY EmptySeq, LenProperties
<1> QED
  BY <1>1 DEF Prices

LEMMA CeilingTyped ==
  BidsIInv => /\ DOMAIN call.ceiling \subseteq Lots \cup {Whole}
              /\ call.ceiling \in [DOMAIN call.ceiling -> Amounts]
BY DEF BidsIInv, Call, Prices

LEMMA TermsStep ==
  ASSUME BidsIInv,
         \/ Bids!PatchTender \/ Bids!PostLot \/ Bids!PatchLot
         \/ Bids!DeleteLot \/ Bids!PostTenderPaper
  PROVE  BidsIInv'
<1> DEFINE New(left, ceiling) == [call EXCEPT !.left = left, !.ceiling = ceiling]
           Moved == \E left \in Int, ceiling \in Prices :
                      Extra <= left /\ call' = Bids!Invalidate(New(left, ceiling))
<1>0. /\ DOMAIN call.ceiling \subseteq Lots \cup {Whole}
      /\ call.ceiling \in [DOMAIN call.ceiling -> Amounts]
      /\ Extra \in Int /\ MaxLeft \in Int /\ call.left \in Int
      /\ call.ceiling \in Prices
  BY CeilingTyped, ExtraAssumption DEF BidsIInv, Call
<1>1. Bids!Tendering
  BY DEF Bids!PatchTender, Bids!PostLot, Bids!PatchLot, Bids!DeleteLot,
     Bids!PostTenderPaper, Bids!MayChangeTerms
<1>2. \A ceiling : [call EXCEPT !.ceiling = ceiling] = New(call.left, ceiling)
  BY DEF BidsIInv, Call
<1>3. call = New(call.left, call.ceiling)
  BY DEF BidsIInv, Call
<1>4. CASE Bids!PatchTender
  <2>1. PICK left \in Extra .. MaxLeft, ceiling \in [DOMAIN call.ceiling -> Amounts] :
          call' = Bids!Invalidate(New(left, ceiling))
    BY <1>4 DEF Bids!PatchTender
  <2>2. ceiling \in Prices /\ left \in Int /\ Extra <= left
    BY <1>0, PriceRange
  <2> QED
    BY <1>1, <2>1, <2>2, TermsMoved
<1>5. CASE Bids!PostLot
  <2>1. PICK l \in Lots \ DOMAIN call.ceiling, a \in Amounts :
          call' = Bids!Invalidate([call EXCEPT !.ceiling =
                    [p \in DOMAIN @ \cup {l} |-> IF p = l THEN a ELSE @[p]]])
    BY <1>5 DEF Bids!PostLot
  <2> DEFINE ceiling == [p \in DOMAIN call.ceiling \cup {l} |->
                           IF p = l THEN a ELSE call.ceiling[p]]
  <2>2. ceiling \in Prices
    <3>1. DOMAIN ceiling \subseteq Lots \cup {Whole} /\ ceiling \in [DOMAIN ceiling -> Amounts]
      BY <1>0
    <3> QED
      BY <3>1, PriceRange
  <2>3. Extra <= call.left
    BY <1>0, <1>5 DEF Bids!PostLot, Bids!MayChangeTerms
  <2> HIDE DEF ceiling
  <2>4. call' = Bids!Invalidate(New(call.left, ceiling))
    BY <1>2, <2>1 DEF ceiling
  <2> QED
    BY <1>0, <1>1, <2>2, <2>3, <2>4, TermsMoved
<1>6. CASE Bids!PatchLot
  <2>1. PICK l \in DOMAIN call.ceiling, a \in Amounts :
          call' = Bids!Invalidate([call EXCEPT !.ceiling[l] = a])
    BY <1>6 DEF Bids!PatchLot
  <2> DEFINE ceiling == [call.ceiling EXCEPT ![l] = a]
  <2>2. ceiling \in Prices
    BY <1>0, PriceRange
  <2>3. Extra <= call.left
    BY <1>0, <1>6 DEF Bids!PatchLot, Bids!MayChangeTerms
  <2>4. call' = Bids!Invalidate([call EXCEPT !.ceiling = ceiling])
    BY <2>1
  <2> HIDE DEF ceiling
  <2>5. call' = Bids!Invalidate(New(call.left, ceiling))
    BY <1>2, <2>4
  <2> QED
    BY <1>0, <1>1, <2>2, <2>3, <2>5, TermsMoved
<1>7. CASE Bids!DeleteLot
  <2>1. PICK l \in DOMAIN call.ceiling :
          call' = Bids!Invalidate([call EXCEPT !.ceiling = Bids!Restrict(@, DOMAIN @ \ {l})])
    BY <1>7 DEF Bids!DeleteLot
  <2> DEFINE ceiling == Bids!Restrict(call.ceiling, DOMAIN call.ceiling \ {l})
  <2>2. ceiling \in Prices
    <3>1. DOMAIN ceiling \subseteq Lots \cup {Whole} /\ ceiling \in [DOMAIN ceiling -> Amounts]
      BY <1>0 DEF Bids!Restrict
    <3> QED
      BY <3>1, PriceRange
  <2>3. Extra <= call.left
    BY <1>0, <1>7 DEF Bids!DeleteLot, Bids!MayChangeTerms
  <2> HIDE DEF ceiling
  <2>4. call' = Bids!Invalidate(New(call.left, ceiling))
    BY <1>2, <2>1 DEF ceiling
  <2> QED
    BY <1>0, <1>1, <2>2, <2>3, <2>4, TermsMoved
<1>8. CASE Bids!PostTenderPaper
  <2>1. Extra <= call.left /\ call' = Bids!Invalidate(New(call.left, call.ceiling))
    BY <1>0, <1>3, <1>8 DEF Bids!PostTenderPaper, Bids!MayChangeTerms
  <2> QED
    BY <1>0, <1>1, <2>1, TermsMoved
<1> QED
  BY <1>4, <1>5, <1>6, <1>7, <1>8

\* A bid as its bidder leaves it: it counts only if it fits the terms of today.
LEMMA BidPlaced ==
  ASSUME BidsIInv, Bids!Tendering, NEW values \in Prices,
         NEW status \in {"draft", "invalid", Bids!Valid(call.kind)},
         status = Bids!Valid(call.kind) => Bids!Fits(values),
         call' = Bids!Placed(status, values)
  PROVE  BidsIInv'
<1> USE DEF BidsIInv
<1> DEFINE counts == status = Bids!Valid(call.kind)
           b == [call.bid EXCEPT !.status = status, !.values = values, !.current = counts]
<1>0. /\ call.kind \in {"UA", "EU"} /\ call.bid \in Bid
      /\ Bids!Valid(call.kind) \in {"active", "pending"}
  BY DEF Call, Bids!Valid
<1>1. b \in Bid /\ b.status = status /\ b.values = values /\ (b.current <=> counts)
  BY <1>0 DEF Bid, BidStatuses
<1>2. call' = [call EXCEPT !.bid = b]
  BY DEF Call, Bid, Bids!Placed
<1> HIDE DEF b
<1>3. /\ call' \in Call /\ call'.kind = call.kind /\ call'.status = call.status
      /\ call'.notice = call.notice /\ call'.ceiling = call.ceiling /\ call'.bid = b
      /\ call'.reviews = call.reviews /\ call'.early = call.early
  BY <1>1, <1>2 DEF Call
<1>4. ReviewsFit' /\ Bids!DecidedOnWhatIsThere'
  BY <1>3, ReviewsStay DEF Bids!Tendering
<1>5. DOMAIN call.reviews = {}
  BY DEF ReviewsFit
<1>6. status \in {"pending", "active", "unsuccessful"} => counts
  BY <1>0
<1>7. counts => call'.bid.current /\ Bids!Fits(call.bid.values)'
  BY <1>1, <1>3 DEF Bids!Fits
<1>8. CountedFits'
  <2>1. call'.notice >= Extra
    BY <1>3 DEF CountedFits
  <2>2. call'.bid.status = status /\ Bids!Valid(call'.kind) = Bids!Valid(call.kind)
    BY <1>1, <1>3
  <2>3. DOMAIN call'.reviews = {}
    BY <1>3, <1>5
  <2> QED
    BY <1>6, <1>7, <2>1, <2>2, <2>3 DEF CountedFits
<1>9. HiddenFits'
  <2>1. Bids!Tendering' /\ ~ call.early
    BY <1>3 DEF HiddenFits, Bids!Tendering
  <2> QED
    BY <1>3, <2>1 DEF HiddenFits, Bids!Tendering
<1> QED
  BY <1>3, <1>4, <1>8, <1>9

LEMMA OffersAreNumbers == BidsIInv => \A values \in Bids!Offers : values \in Prices
BY DEF Bids!Offers, Prices

LEMMA BidStep ==
  ASSUME BidsIInv, Bids!PostBid \/ Bids!PatchBidUA \/ Bids!PatchBidEU
  PROVE  BidsIInv'
<1>0. /\ Bids!Tendering /\ call.kind \in {"UA", "EU"}
      /\ call.bid.status \in {"none", "draft", "invalid", "deleted", Bids!Valid(call.kind)}
  BY DEF BidsIInv, Call, CountedFits, Bids!PostBid, Bids!PatchBidUA, Bids!PatchBidEU, Bids!MayBid
<1>1. CASE Bids!PostBid
  <2>1. PICK status \in {"draft", Bids!Valid(call.kind)}, values \in Bids!Offers :
          /\ status = "draft" \/ Bids!Fits(values)
          /\ call' = Bids!Placed(status, values)
    BY <1>1 DEF Bids!PostBid
  <2>2. values \in Prices /\ (status = Bids!Valid(call.kind) => Bids!Fits(values))
    BY <2>1, OffersAreNumbers DEF Bids!Valid
  <2> QED
    BY <1>0, <2>1, <2>2, BidPlaced
<1>2. CASE Bids!PatchBidUA
  <2>1. PICK status \in {call.bid.status, "active"}, values \in Bids!Offers :
          /\ call.kind = "UA" /\ call.bid.status \notin {"none", "deleted"}
          /\ status = "active" => Bids!Fits(values)
          /\ call' = Bids!Placed(status, values)
    BY <1>2 DEF Bids!PatchBidUA
  <2>2. values \in Prices /\ (status = Bids!Valid(call.kind) => Bids!Fits(values))
    BY <2>1, OffersAreNumbers DEF Bids!Valid
  <2>3. status \in {"draft", "invalid", Bids!Valid(call.kind)}
    BY <1>0, <2>1 DEF Bids!Valid
  <2> QED
    BY <1>0, <2>1, <2>2, <2>3, BidPlaced
<1>3. CASE Bids!PatchBidEU
  <2>1. PICK values \in Bids!Offers :
          call.kind = "EU" /\ Bids!Fits(values) /\ call' = Bids!Placed("pending", values)
    BY <1>3 DEF Bids!PatchBidEU
  <2>2. values \in Prices /\ Bids!Valid(call.kind) = "pending"
    BY <2>1, OffersAreNumbers DEF Bids!Valid
  <2> QED
    BY <1>0, <2>1, <2>2, BidPlaced
<1> QED
  BY <1>1, <1>2, <1>3

LEMMA DeleteBidStep ==
  ASSUME BidsIInv, Bids!DeleteBidUA \/ Bids!DeleteBidEU
  PROVE  BidsIInv'
<1> USE DEF BidsIInv
<1>1. Bids!Tendering
  BY DEF Bids!DeleteBidUA, Bids!DeleteBidEU, Bids!MayBid
<1>2. PICK values \in Prices :
        call' = [call EXCEPT !.bid = [call.bid EXCEPT !.status = "deleted", !.values = values]]
  <2>1. CASE Bids!DeleteBidUA
    <3>1. call.bid \in Bid /\ call.bid.values \in Prices
      BY DEF Call, Bid
    <3>2. [call.bid EXCEPT !.status = "deleted"] =
            [call.bid EXCEPT !.status = "deleted", !.values = call.bid.values]
      BY <3>1 DEF Bid
    <3>3. call' = [call EXCEPT !.bid = [call.bid EXCEPT !.status = "deleted"]]
      BY <2>1 DEF Bids!DeleteBidUA
    <3> QED
      BY <3>1, <3>2, <3>3
  <2>2. CASE Bids!DeleteBidEU
    <3>1. call.bid.values \in Prices
      BY DEF Call, Bid
    <3>2. PICK values \in Prices :
            call' = [call EXCEPT !.bid.status = "deleted", !.bid.values = values]
      BY <2>2, <3>1, NoPrices DEF Bids!DeleteBidEU
    <3> QED
      BY <3>2 DEF Call, Bid
  <2> QED
    BY <2>1, <2>2
<1> DEFINE b == [call.bid EXCEPT !.status = "deleted", !.values = values]
<1>3. b \in Bid /\ b.status = "deleted"
  BY DEF Call, Bid, BidStatuses
<1> HIDE DEF b
<1>4. /\ call' \in Call /\ call'.kind = call.kind /\ call'.status = call.status
      /\ call'.notice = call.notice /\ call'.bid = b
      /\ call'.reviews = call.reviews /\ call'.early = call.early
  BY <1>2, <1>3 DEF Call, b
<1>5. ReviewsFit' /\ Bids!DecidedOnWhatIsThere'
  BY <1>4, ReviewsStay DEF Bids!Tendering
<1>6. CountedFits'
  BY <1>1, <1>3, <1>4, <1>5 DEF CountedFits, ReviewsFit, Bids!Tendering
<1>7. HiddenFits'
  BY <1>1, <1>3, <1>4 DEF HiddenFits, Bids!Tendering
<1> QED
  BY <1>4, <1>5, <1>6, <1>7

LEMMA DayStep ==
  ASSUME BidsIInv, Bids!DayPasses
  PROVE  BidsIInv'
<1> USE DEF BidsIInv
<1>1. /\ call' \in Call /\ call'.kind = call.kind /\ call'.status = call.status
      /\ call'.notice = call.notice /\ call'.bid = call.bid /\ call'.ceiling = call.ceiling
      /\ call'.reviews = call.reviews /\ call'.early = call.early
  BY DEF Call, Bids!DayPasses
<1>2. ReviewsFit' /\ Bids!DecidedOnWhatIsThere'
  BY <1>1, ReviewsStay DEF Bids!Tendering
<1>3. CountedFits' /\ HiddenFits'
  BY <1>1 DEF CountedFits, HiddenFits, Bids!Tendering, Bids!Fits
<1> QED
  BY <1>1, <1>2, <1>3

ReviewSets == UNION {[ps -> Review] : ps \in SUBSET (Lots \cup {Whole})}

LEMMA NoReviews == <<>> \in ReviewSets /\ DOMAIN <<>> = {}
<1>1. <<>> \in [1 .. 0 -> Review] /\ 1 .. 0 = {}
  BY EmptySeq, LenProperties
<1> QED
  BY <1>1 DEF ReviewSets

LEMMA NewReviewTyped ==
  ASSUME NEW of \in {"qualification", "award"}, NEW running \in SUBSET {"24h", "alp"}
  PROVE  /\ Bids!NewReview(of, running) \in Review
         /\ Bids!NewReview(of, running).stale = FALSE
         /\ Bids!NewReview(of, running).of = of
BY DEF Bids!NewReview, Review

LEMMA NoBidTyped == Bids!NoBid \in Bid /\ Bids!NoBid.status = "none"
BY NoPrices DEF Bids!NoBid, Bid, BidStatuses

\* The bids are opened: what counts has seen the last terms.
LEMMA OpenBidsStep ==
  ASSUME BidsIInv, Bids!OpenBids
  PROVE  BidsIInv'
<1> USE DEF BidsIInv
<1>1. PICK enough \in BOOLEAN :
        call' = [call EXCEPT
         !.status = IF ~ enough THEN "unsuccessful"
                    ELSE IF call.kind = "UA" THEN "active.auction" ELSE "active.pre-qualification",
         !.bid = IF @.status = "draft" THEN Bids!NoBid ELSE @,
         !.reviews = IF enough /\ call.bid.status = "pending"
                     THEN [p \in DOMAIN call.bid.values |-> Bids!NewReview("qualification", {})]
                     ELSE <<>>]
  BY DEF Bids!OpenBids
<1>2. Bids!Tendering
  BY DEF Bids!OpenBids
<1> DEFINE s == IF ~ enough THEN "unsuccessful"
                ELSE IF call.kind = "UA" THEN "active.auction" ELSE "active.pre-qualification"
           b == IF call.bid.status = "draft" THEN Bids!NoBid ELSE call.bid
           rs == IF enough /\ call.bid.status = "pending"
                 THEN [p \in DOMAIN call.bid.values |-> Bids!NewReview("qualification", {})]
                 ELSE <<>>
<1>3. /\ s \in {"unsuccessful", "active.auction", "active.pre-qualification"}
      /\ call.kind = "UA" => s # "active.pre-qualification"
  BY DEF Call
<1>4. b \in Bid /\ b.status # "draft" /\ (b.status = "none" \/ b = call.bid)
  BY NoBidTyped DEF Call
<1>5. /\ rs \in ReviewSets
      /\ \A p \in DOMAIN rs : rs[p].stale = FALSE
      /\ DOMAIN rs # {} => call.bid.status = "pending"
  <2>1. CASE enough /\ call.bid.status = "pending"
    <3>1. DOMAIN call.bid.values \in SUBSET (Lots \cup {Whole})
      BY DEF Call, Bid, Prices
    <3>2. rs \in [DOMAIN call.bid.values -> Review] /\ DOMAIN rs = DOMAIN call.bid.values
      BY <2>1, NewReviewTyped
    <3>3. \A p \in DOMAIN rs : rs[p].stale = FALSE
      BY <2>1, <3>2, NewReviewTyped
    <3> QED
      BY <2>1, <3>1, <3>2, <3>3 DEF ReviewSets
  <2>2. CASE ~ (enough /\ call.bid.status = "pending")
    BY <2>2, NoReviews
  <2> QED
    BY <2>1, <2>2
<1>6. call' = [call EXCEPT !.status = s, !.bid = b, !.reviews = rs]
  BY <1>1
<1> HIDE DEF s, b, rs
<1>7. /\ call' \in Call /\ call'.kind = call.kind /\ call'.status = s
      /\ call'.notice = call.notice /\ call'.ceiling = call.ceiling /\ call'.bid = b
      /\ call'.reviews = rs /\ call'.early = call.early
  BY <1>3, <1>4, <1>5, <1>6 DEF Call, ReviewSets, CallStatus
<1>8. ~ Bids!Tendering' /\ ~ call.early
  BY <1>2, <1>3, <1>7 DEF Bids!Tendering, HiddenFits
<1>9. ReviewsFit' /\ Bids!DecidedOnWhatIsThere'
  BY <1>5, <1>7, <1>8 DEF ReviewsFit, Bids!DecidedOnWhatIsThere
<1>10. CountedFits'
  <2>1. call'.notice >= Extra
    BY <1>7 DEF CountedFits
  <2>2. b.status = "none" => call.bid.status \in {"none", "draft"}
    BY DEF b
  <2>3. \/ b.status \in {"pending", "active", "unsuccessful"}
        \/ DOMAIN rs # {}
        => b = call.bid /\ call.bid.current /\ Bids!Fits(call.bid.values)
    BY <1>4, <1>5, <2>2 DEF CountedFits
  <2>4. call'.bid = call.bid => (Bids!Fits(call.bid.values)' <=> Bids!Fits(call.bid.values))
    BY <1>7 DEF Bids!Fits
  <2> QED
    BY <1>7, <1>8, <2>1, <2>3, <2>4 DEF CountedFits
<1>11. HiddenFits'
  BY <1>3, <1>4, <1>7, <1>8 DEF HiddenFits
<1> QED
  BY <1>7, <1>9, <1>10, <1>11

\* The tender moves on after the bids are opened.
LEMMA StageMoves ==
  ASSUME BidsIInv, ~ Bids!Tendering, call.status # "cancelled",
         NEW s \in CallStatus, s # "active.tendering",
         s \in {"active.pre-qualification", "active.pre-qualification.stand-still"} =>
           call.kind = "EU",
         call' = [call EXCEPT !.status = s]
  PROVE  BidsIInv'
<1> USE DEF BidsIInv
<1>1. /\ call' \in Call /\ call'.kind = call.kind /\ call'.status = s
      /\ call'.notice = call.notice /\ call'.bid = call.bid /\ call'.ceiling = call.ceiling
      /\ call'.reviews = call.reviews /\ call'.early = call.early
  BY DEF Call
<1>2. ~ Bids!Tendering' /\ ~ call.early
  BY <1>1 DEF Bids!Tendering, HiddenFits
<1>3. ReviewsFit' /\ Bids!DecidedOnWhatIsThere'
  BY <1>1, <1>2, ReviewsStay
<1>4. CountedFits'
  BY <1>1, <1>2 DEF CountedFits, Bids!Fits
<1>5. HiddenFits'
  BY <1>1, <1>2 DEF HiddenFits
<1> QED
  BY <1>1, <1>3, <1>4, <1>5

LEMMA StageStep ==
  ASSUME BidsIInv, Bids!StandStill \/ Bids!EndAuction \/ Bids!Award \/ Bids!Finish
  PROVE  BidsIInv'
<1>0. call.kind \in {"UA", "EU"} /\ call.status \in CallStatus
  BY DEF BidsIInv, Call
<1>1. CASE Bids!StandStill
  <2>1. /\ call.status \in {"active.pre-qualification", "active.pre-qualification.stand-still"}
        /\ \E s \in {"active.pre-qualification", "active.pre-qualification.stand-still",
                     "active.auction"} : call' = [call EXCEPT !.status = s]
    BY <1>1 DEF Bids!StandStill, Bids!Stage
  <2>2. call.kind = "EU"
    BY <1>0, <2>1 DEF BidsIInv, HiddenFits
  <2> QED
    BY <2>1, <2>2, StageMoves DEF CallStatus, Bids!Tendering
<1>2. CASE Bids!EndAuction
  BY <1>2, StageMoves DEF Bids!EndAuction, Bids!Stage, CallStatus, Bids!Tendering
<1>3. CASE Bids!Award
  BY <1>3, StageMoves DEF Bids!Award, Bids!Stage, CallStatus, Bids!Tendering
<1>4. CASE Bids!Finish
  BY <1>4, StageMoves DEF Bids!Finish, Bids!Stage, CallStatus, Bids!Tendering
<1> QED
  BY <1>1, <1>2, <1>3, <1>4

\* A tender is cancelled: before the prices are opened, so is the bid.
LEMMA CancelStep ==
  ASSUME BidsIInv, Bids!Cancel
  PROVE  BidsIInv'
<1> USE DEF BidsIInv
<1> DEFINE b == Bids!Hide(call)
           early == call.status \notin {"active.qualification", "active.awarded"}
<1>0. /\ call.bid \in Bid /\ call.bid.status \in BidStatuses
      /\ call.kind \in {"UA", "EU"} /\ call.status \in CallStatus
  BY DEF Call, Bid
<1>1. /\ call' = [call EXCEPT !.status = "cancelled", !.bid = b, !.early = early]
      /\ call.status \notin {"none", "complete", "unsuccessful", "cancelled"}
  BY DEF Bids!Cancel, Bids!Over
<1>2. /\ b \in Bid
      /\ b.status \in {"pending", "active", "unsuccessful"} => b = call.bid
      /\ ~ Bids!Tendering /\ call.kind = "EU" =>
           b.current = call.bid.current /\ b.values = call.bid.values
  BY <1>0, NoBidTyped DEF Bids!Hide, Bid, BidStatuses, Bids!Stage, Bids!Tendering
<1>3. b.status # "draft"
  BY <1>0, NoBidTyped DEF Bids!Hide, Bid, HiddenFits, Bids!Tendering, Bids!Stage
<1>4. early => /\ b.status \notin {"pending", "active"}
               /\ call.kind = "UA" => b.status = "none"
  BY <1>0, <1>1, NoBidTyped DEF Bids!Hide, Bid, HiddenFits, Bids!Stage, CallStatus
<1> HIDE DEF b, early
<1>5. /\ call' \in Call /\ call'.kind = call.kind /\ call'.status = "cancelled"
      /\ call'.notice = call.notice /\ call'.ceiling = call.ceiling /\ call'.bid = b
      /\ call'.reviews = call.reviews /\ call'.early = early
  BY <1>1, <1>2 DEF Call, CallStatus, early
<1>6. ReviewsFit' /\ Bids!DecidedOnWhatIsThere'
  BY <1>5, ReviewsStay DEF Bids!Tendering
<1>7. CountedFits'
  <2>1. call'.notice >= Extra /\ ~ Bids!Tendering'
    BY <1>5 DEF CountedFits, Bids!Tendering
  <2>2. \/ b.status \in {"pending", "active", "unsuccessful"}
        \/ call.kind = "EU" /\ DOMAIN call.reviews # {}
        => /\ call.bid.current /\ Bids!Fits(call.bid.values)
           /\ b.current = call.bid.current /\ b.values = call.bid.values
    BY <1>2 DEF CountedFits, ReviewsFit
  <2>3. b.values = call.bid.values =>
          (Bids!Fits(call.bid.values)' <=> Bids!Fits(call.bid.values))
    BY <1>5 DEF Bids!Fits
  <2> QED
    BY <1>5, <2>1, <2>2, <2>3 DEF CountedFits
<1>8. HiddenFits'
  BY <1>3, <1>4, <1>5 DEF HiddenFits
<1> QED
  BY <1>5, <1>6, <1>7, <1>8

LEMMA ReviewsTyped ==
  BidsIInv => /\ call.reviews \in [DOMAIN call.reviews -> Review]
              /\ DOMAIN call.reviews \subseteq Lots \cup {Whole}
              /\ \A p \in DOMAIN call.reviews : call.reviews[p] \in Review
BY DEF BidsIInv, Call

StaleFits(rs) ==
  \A p \in DOMAIN rs : rs[p].stale =>
    DOMAIN rs # {p} \/ (rs[p].of = "award" /\ rs[p].status = "active")

\* What the steps of the reviews have in common.
LEMMA ReviewsMoved ==
  ASSUME BidsIInv, ~ Bids!Tendering,
         NEW s \in CallStatus, NEW b \in Bid, NEW rs \in ReviewSets,
         call' = [call EXCEPT !.status = s, !.bid = b, !.reviews = rs],
         b.values = call.bid.values, b.current = call.bid.current,
         call.kind = "EU" /\ DOMAIN rs # {} => DOMAIN call.reviews # {},
         \/ s = call.status /\ b.status = call.bid.status
         \/ /\ call.status # "cancelled" /\ s \in {call.status, "active.qualification"}
            /\ \/ b.status = call.bid.status
               \/ /\ call.kind = "EU" /\ DOMAIN rs # {}
                  /\ b.status \in {"pending", "active", "unsuccessful"},
         StaleFits(rs)
  PROVE  BidsIInv'
<1> USE DEF BidsIInv
<1>1. /\ call' \in Call /\ call'.kind = call.kind /\ call'.status = s
      /\ call'.notice = call.notice /\ call'.ceiling = call.ceiling /\ call'.bid = b
      /\ call'.reviews = rs /\ call'.early = call.early
  BY DEF Call, ReviewSets
<1>2. ~ Bids!Tendering'
  BY <1>1 DEF Bids!Tendering
<1>3. ReviewsFit' /\ Bids!DecidedOnWhatIsThere'
  <2>1. ReviewsFit'
    BY <1>2 DEF ReviewsFit
  <2>2. ASSUME NEW p \in DOMAIN rs, call'.reviews[p].stale
        PROVE  \/ DOMAIN call'.reviews # {p}
               \/ call'.reviews[p].of = "award" /\ call'.reviews[p].status = "active"
    BY <1>1, <2>2 DEF StaleFits
  <2>3. Bids!DecidedOnWhatIsThere'
    BY <1>1, <2>2, Zenon DEF Bids!DecidedOnWhatIsThere
  <2> QED
    BY <2>1, <2>3
<1>4. CountedFits'
  <2>1. \/ b.status \in {"pending", "active", "unsuccessful"}
        \/ call.kind = "EU" /\ DOMAIN rs # {}
        => call.bid.current /\ Bids!Fits(call.bid.values)
    BY DEF CountedFits
  <2>2. Bids!Fits(call.bid.values)' <=> Bids!Fits(call.bid.values)
    BY <1>1 DEF Bids!Fits
  <2> QED
    BY <1>1, <1>2, <2>1, <2>2 DEF CountedFits
<1>5. HiddenFits'
  <2>1. b.status # "draft"
    BY DEF HiddenFits
  <2>2. call.early => s = call.status /\ b.status = call.bid.status
    BY DEF HiddenFits
  <2>3. call.kind = "UA" => s \notin {"active.pre-qualification",
                                      "active.pre-qualification.stand-still"}
    BY DEF HiddenFits
  <2> QED
    BY <1>1, <1>2, <2>1, <2>2, <2>3 DEF HiddenFits
<1> QED
  BY <1>1, <1>3, <1>4, <1>5

LEMMA BidStatusRange ==
  ASSUME NEW c, c.kind \in {"UA", "EU"}
  PROVE  \/ Bids!BidStatus(c) = c.bid.status
         \/ c.kind = "EU" /\ Bids!BidStatus(c) \in {"pending", "active", "unsuccessful"}
BY DEF Bids!BidStatus

\* A part of the bid is given a review, in place of the one it had.
LEMMA ReviewGiven ==
  ASSUME BidsIInv, ~ Bids!Tendering, call.status # "cancelled",
         NEW p \in Lots \cup {Whole}, NEW r \in Review,
         call.kind = "EU" => p \in DOMAIN call.reviews,
         r.stale => p \in DOMAIN call.reviews /\ DOMAIN call.reviews # {p},
         NEW s \in {call.status, "active.qualification"},
         call' = [Bids!WithReview(p, r) EXCEPT !.status = s]
  PROVE  BidsIInv'
<1> DEFINE ps == DOMAIN call.reviews
           rs == [q \in ps \cup {p} |-> IF q = p THEN r ELSE call.reviews[q]]
           c == [call EXCEPT !.reviews = rs]
           st == IF r.of = "award" THEN call.bid.status ELSE Bids!BidStatus(c)
           b == [call.bid EXCEPT !.status = st]
<1>0. /\ call \in Call /\ call.bid \in Bid /\ call.kind \in {"UA", "EU"} /\ s \in CallStatus
      /\ ps \subseteq Lots \cup {Whole} /\ \A q \in ps : call.reviews[q] \in Review
  BY ReviewsTyped DEF BidsIInv, Call, CallStatus
<1>1. /\ rs \in [ps \cup {p} -> Review] /\ rs \in ReviewSets
      /\ DOMAIN rs = ps \cup {p} /\ DOMAIN rs # {}
      /\ rs[p] = r /\ \A q \in ps \ {p} : rs[q] = call.reviews[q]
  BY <1>0 DEF ReviewSets
<1>2. \/ st = call.bid.status
      \/ call.kind = "EU" /\ st \in {"pending", "active", "unsuccessful"}
  <2>1. c.kind = call.kind /\ c.bid = call.bid
    BY <1>0 DEF Call
  <2> HIDE DEF c
  <2> QED
    BY <1>0, <2>1, BidStatusRange
<1>3. b \in Bid /\ b.status = st /\ b.values = call.bid.values /\ b.current = call.bid.current
  BY <1>0, <1>2 DEF Bid, BidStatuses
<1>4. call' = [call EXCEPT !.status = s, !.bid = b, !.reviews = rs]
  <2>1. c \in Call /\ c.bid = call.bid
    BY <1>0, <1>1 DEF Call, ReviewSets
  <2>2. Bids!WithReview(p, r) = IF r.of = "award" THEN c ELSE [c EXCEPT !.bid.status = st]
    BY DEF Bids!WithReview
  <2>3. c = [c EXCEPT !.bid = call.bid] /\ call.bid = [call.bid EXCEPT !.status = call.bid.status]
    BY <1>0, <2>1 DEF Call, Bid
  <2>4. Bids!WithReview(p, r) = [c EXCEPT !.bid = b]
    BY <2>1, <2>2, <2>3
  <2> HIDE DEF b, rs
  <2> QED
    BY <1>0, <2>4 DEF Call
<1> HIDE DEF b, rs
<1>5. ASSUME NEW q \in DOMAIN rs, rs[q].stale
      PROVE  \/ DOMAIN rs # {q}
             \/ rs[q].of = "award" /\ rs[q].status = "active"
  BY <1>1, <1>5
<1>6. call.kind = "EU" => DOMAIN call.reviews # {}
  OBVIOUS
<1>7. \/ s = call.status /\ b.status = call.bid.status
      \/ /\ call.status # "cancelled" /\ s \in {call.status, "active.qualification"}
         /\ \/ b.status = call.bid.status
            \/ /\ call.kind = "EU" /\ DOMAIN rs # {}
               /\ b.status \in {"pending", "active", "unsuccessful"}
  BY <1>1, <1>2, <1>3
<1>8. s \in CallStatus /\ rs \in ReviewSets
  BY <1>0, <1>1
<1> HIDE DEF c, st, ps
<1>9. StaleFits(rs)
  BY <1>5 DEF StaleFits
<1> QED
  BY <1>3, <1>4, <1>6, <1>7, <1>8, <1>9, ReviewsMoved

LEMMA StaleReviews ==
  ASSUME BidsIInv, NEW p \in DOMAIN call.reviews, call.reviews[p].stale
  PROVE  \/ DOMAIN call.reviews # {p}
         \/ call.reviews[p].of = "award" /\ call.reviews[p].status = "active"
BY DEF BidsIInv, Bids!DecidedOnWhatIsThere

\* Milestones run beside a review; they change neither its object nor its end.
LEMMA MilestoneStep ==
  ASSUME BidsIInv, NEW p \in DOMAIN call.reviews,
         Bids!StartMilestone(p) \/ Bids!DueDatePasses(p)
  PROVE  BidsIInv'
<1> DEFINE old == call.reviews[p]
<1>0. /\ call \in Call /\ call.bid \in Bid /\ call.status \in CallStatus
      /\ call.reviews \in ReviewSets /\ old \in Review
      /\ call.reviews \in [DOMAIN call.reviews -> Review]
      /\ DOMAIN call.reviews \subseteq Lots \cup {Whole}
  BY ReviewsTyped DEF BidsIInv, Call, ReviewSets
<1>1. \E r \in Review : /\ call' = [call EXCEPT !.reviews[p] = r]
                        /\ r.of = old.of /\ r.status = old.status /\ r.stale = old.stale
  <2>1. CASE Bids!StartMilestone(p)
    <3> DEFINE r == [old EXCEPT !.running = @ \cup {"24h"}, !.had24h = TRUE]
    <3>1. r \in Review /\ r.of = old.of /\ r.status = old.status /\ r.stale = old.stale
      BY <1>0 DEF Review
    <3>2. call' = [call EXCEPT !.reviews[p] = r]
      BY <1>0, <2>1 DEF Bids!StartMilestone, Call
    <3> QED
      BY <3>1, <3>2
  <2>2. CASE Bids!DueDatePasses(p)
    <3>1. PICK m \in old.running :
            call' = [call EXCEPT !.reviews[p].running = @ \ {m}]
      BY <2>2 DEF Bids!DueDatePasses
    <3> DEFINE r == [old EXCEPT !.running = @ \ {m}]
    <3>2. r \in Review /\ r.of = old.of /\ r.status = old.status /\ r.stale = old.stale
      BY <1>0 DEF Review
    <3>3. call' = [call EXCEPT !.reviews[p] = r]
      BY <3>1
    <3> QED
      BY <3>2, <3>3
  <2> QED
    BY <2>1, <2>2
<1>2. PICK r \in Review : /\ call' = [call EXCEPT !.reviews[p] = r]
                          /\ r.of = old.of /\ r.status = old.status /\ r.stale = old.stale
  BY <1>1
<1> DEFINE rs == [call.reviews EXCEPT ![p] = r]
<1>3. /\ rs \in ReviewSets /\ DOMAIN rs = DOMAIN call.reviews
      /\ \A q \in DOMAIN rs : /\ rs[q].of = call.reviews[q].of
                              /\ rs[q].status = call.reviews[q].status
                              /\ rs[q].stale = call.reviews[q].stale
  BY <1>0, <1>2 DEF ReviewSets
<1>4. call' = [call EXCEPT !.status = call.status, !.bid = call.bid, !.reviews = rs]
  BY <1>0, <1>2 DEF Call
<1> HIDE DEF rs
<1>5. StaleFits(rs)
  BY <1>3, StaleReviews DEF StaleFits
<1>6. ~ Bids!Tendering
  BY DEF BidsIInv, ReviewsFit
<1> QED
  BY <1>0, <1>3, <1>4, <1>5, <1>6, ReviewsMoved

\* A part is decided on, or looked at anew.
LEMMA ReviewStep ==
  ASSUME BidsIInv, NEW p \in DOMAIN call.reviews,
         Bids!Decide(p) \/ Bids!Requalify(p) \/ Bids!Reaward(p)
  PROVE  BidsIInv'
<1> DEFINE old == call.reviews[p]
<1>0. old \in Review /\ p \in Lots \cup {Whole} /\ ~ Bids!Tendering
  BY ReviewsTyped DEF BidsIInv, ReviewsFit
<1>1. \A r : Bids!WithReview(p, r) = [Bids!WithReview(p, r) EXCEPT !.status = call.status]
  BY DEF Bids!WithReview, BidsIInv, Call
<1>2. CASE Bids!Decide(p)
  <2>1. PICK decision \in {"active", "unsuccessful"} :
          call' = Bids!WithReview(p, [old EXCEPT !.status = decision])
    BY <1>2 DEF Bids!Decide
  <2>2. old.status = "pending" /\ call.status # "cancelled"
    BY <1>2 DEF Bids!Decide, Bids!MayDecide, Bids!Stage
  <2> DEFINE r == [old EXCEPT !.status = decision]
  <2>3. r \in Review /\ r.stale = old.stale
    BY <1>0 DEF Review
  <2>4. r.stale => DOMAIN call.reviews # {p}
    BY <2>2, <2>3, StaleReviews
  <2> HIDE DEF r
  <2>5. call' = [Bids!WithReview(p, r) EXCEPT !.status = call.status]
    BY <1>1, <2>1 DEF r
  <2> QED
    BY <1>0, <2>2, <2>3, <2>4, <2>5, ReviewGiven
<1>3. CASE Bids!Requalify(p)
  <2> DEFINE r == Bids!NewReview("qualification", {})
  <2>1. r \in Review /\ ~ r.stale
    BY NewReviewTyped
  <2>2. call' = Bids!WithReview(p, r) /\ call.status # "cancelled"
    BY <1>3 DEF Bids!Requalify, Bids!Stage
  <2> HIDE DEF r
  <2>3. call' = [Bids!WithReview(p, r) EXCEPT !.status = call.status]
    BY <1>1, <2>2
  <2> QED
    BY <1>0, <2>1, <2>2, <2>3, ReviewGiven
<1>4. CASE Bids!Reaward(p)
  <2>1. PICK running \in {{}, {"alp"}} :
          call' = [Bids!WithReview(p, Bids!NewReview("award", running))
                     EXCEPT !.status = "active.qualification"]
    BY <1>4 DEF Bids!Reaward
  <2> DEFINE r == Bids!NewReview("award", running)
  <2>2. r \in Review /\ ~ r.stale
    BY NewReviewTyped
  <2>3. call.status # "cancelled"
    BY <1>4 DEF Bids!Reaward
  <2> HIDE DEF r
  <2>4. call' = [Bids!WithReview(p, r) EXCEPT !.status = "active.qualification"]
    BY <2>1 DEF r
  <2> QED
    BY <1>0, <2>2, <2>3, <2>4, ReviewGiven
<1> QED
  BY <1>2, <1>3, <1>4

LEMMA GiveAwardStep ==
  ASSUME BidsIInv, NEW p \in DOMAIN call.bid.values, Bids!GiveAward(p)
  PROVE  BidsIInv'
<1>0. p \in Lots \cup {Whole} /\ call.kind \in {"UA", "EU"}
  BY DEF BidsIInv, Call, Bid, Prices
<1>1. PICK running \in {{}, {"alp"}} :
        call' = Bids!WithReview(p, Bids!NewReview("award", running))
  BY DEF Bids!GiveAward
<1> DEFINE r == Bids!NewReview("award", running)
<1>2. r \in Review /\ ~ r.stale
  BY NewReviewTyped
<1>3. ~ Bids!Tendering /\ call.status # "cancelled"
  BY DEF Bids!GiveAward, Bids!Stage, Bids!Tendering
<1>4. call.kind = "EU" => p \in DOMAIN call.reviews
  BY DEF Bids!GiveAward, Bids!Admitted
<1> HIDE DEF r
<1>5. call' = [Bids!WithReview(p, r) EXCEPT !.status = call.status]
  BY <1>1 DEF Bids!WithReview, BidsIInv, Call, r
<1> QED
  BY <1>0, <1>2, <1>3, <1>4, <1>5, ReviewGiven

\* Documents are only taken after a decision from a winner, or because another
\* part of the bid is still under review.
LEMMA PostPaperStep ==
  ASSUME BidsIInv, Bids!PostPaper
  PROVE  BidsIInv'
<1> DEFINE old == call.reviews
           rs == [p \in DOMAIN old |-> [old[p] EXCEPT !.stale = @ \/ old[p].status # "pending"]]
           b == [call.bid EXCEPT !.papers = TRUE]
<1>0. /\ call \in Call /\ call.bid \in Bid /\ call.status \in CallStatus
      /\ DOMAIN old \subseteq Lots \cup {Whole}
      /\ \A p \in DOMAIN old : old[p] \in Review
  BY ReviewsTyped DEF BidsIInv, Call
<1>1. /\ b \in Bid /\ b.status = call.bid.status /\ b.values = call.bid.values
      /\ b.current = call.bid.current
  BY <1>0 DEF Bid
<1>2. \A p \in DOMAIN old :
        /\ rs[p] \in Review /\ rs[p].of = old[p].of /\ rs[p].status = old[p].status
        /\ rs[p].stale => old[p].stale \/ old[p].status # "pending"
  BY <1>0 DEF Review
<1>3. rs \in [DOMAIN old -> Review] /\ DOMAIN rs = DOMAIN old
  BY <1>2
<1>4. rs \in ReviewSets
  BY <1>0, <1>3 DEF ReviewSets
<1>5. call' = [call EXCEPT !.status = call.status, !.bid = b, !.reviews = rs]
  BY <1>0 DEF Bids!PostPaper, Call
<1>6. \/ \E q \in DOMAIN old : old[q].status = "pending"
      \/ Bids!Tendering
      \/ \E q \in DOMAIN old : old[q].of = "award" /\ old[q].status = "active"
  BY DEF Bids!PostPaper, Bids!MayPostPaperUA, Bids!MayPostPaperEU, Bids!AskedFor
<1> HIDE DEF rs, b
<1>7. CASE Bids!Tendering
  <2>1. DOMAIN old = {}
    BY <1>7 DEF BidsIInv, ReviewsFit
  <2> HIDE DEF old
  <2>2. /\ call' \in Call /\ call'.kind = call.kind /\ call'.status = call.status
        /\ call'.notice = call.notice /\ call'.ceiling = call.ceiling /\ call'.bid = b
        /\ call'.reviews = rs /\ call'.early = call.early
    BY <1>0, <1>1, <1>4, <1>5 DEF Call, ReviewSets
  <2>3. ReviewsFit' /\ Bids!DecidedOnWhatIsThere'
    BY <1>3, <2>1, <2>2 DEF ReviewsFit, Bids!DecidedOnWhatIsThere
  <2>4. CountedFits'
    BY <1>1, <1>3, <1>7, <2>1, <2>2 DEF BidsIInv, CountedFits, Bids!Tendering, Bids!Fits
  <2>5. HiddenFits'
    BY <1>1, <1>7, <2>2 DEF BidsIInv, HiddenFits, Bids!Tendering
  <2> QED
    BY <2>2, <2>3, <2>4, <2>5 DEF BidsIInv
<1>8. CASE ~ Bids!Tendering
  <2>1. ASSUME NEW p \in DOMAIN old, DOMAIN old = {p}, rs[p].stale
        PROVE  old[p].of = "award" /\ old[p].status = "active"
    <3>1. CASE old[p].stale
      BY <2>1, <3>1, StaleReviews
    <3>2. CASE ~ old[p].stale
      <4>1. old[p].status # "pending"
        BY <1>2, <2>1, <3>2
      <4> QED
        BY <1>6, <1>8, <2>1, <4>1
    <3> QED
      BY <3>1, <3>2
  <2>2. StaleFits(rs)
    BY <1>2, <1>3, <2>1 DEF StaleFits
  <2> QED
    BY <1>0, <1>1, <1>3, <1>4, <1>5, <1>8, <2>2, ReviewsMoved
<1> QED
  BY <1>7, <1>8

LEMMA BidsStepInv == BidsIInv /\ Bids!Next => BidsIInv'
BY TermsStep, BidStep, DeleteBidStep, DayStep, OpenBidsStep, StageStep, CancelStep,
   PostPaperStep, MilestoneStep, ReviewStep, GiveAwardStep
DEF Bids!Next

LEMMA CallTyped ==
  ASSUME NEW kind \in {"UA", "EU"}, NEW s \in CallStatus, NEW left \in Int,
         NEW notice \in Int, NEW ceiling \in Prices, NEW bid \in Bid,
         NEW reviews \in ReviewSets, NEW early \in BOOLEAN
  PROVE  [kind |-> kind, status |-> s, left |-> left, notice |-> notice,
          ceiling |-> ceiling, bid |-> bid, reviews |-> reviews, early |-> early] \in Call
BY DEF Call, ReviewSets

LEMMA CallPublished ==
  ASSUME NEW kind \in {"UA", "EU"}, NEW ceiling \in Prices,
         call' = Bids!Published(kind, ceiling)
  PROVE  BidsIInv'
<1>0. /\ "active.tendering" \in CallStatus /\ MaxLeft \in Int /\ Extra \in Int
      /\ Bids!NoBid \in Bid /\ <<>> \in ReviewSets
  BY NoBidTyped, NoReviews, ExtraAssumption DEF CallStatus
<1>1. /\ call'.kind = kind /\ call'.status = "active.tendering" /\ call'.notice = Extra
      /\ call'.bid = Bids!NoBid /\ call'.reviews = <<>> /\ call'.early = FALSE
  BY DEF Bids!Published
<1>2. call' \in Call
  BY <1>0, CallTyped DEF Bids!Published
<1>3. ReviewsFit' /\ Bids!DecidedOnWhatIsThere'
  BY <1>1, NoReviews DEF ReviewsFit, Bids!DecidedOnWhatIsThere
<1>4. CountedFits'
  BY <1>0, <1>1, NoBidTyped, NoReviews DEF CountedFits
<1>5. HiddenFits'
  BY <1>1, NoBidTyped DEF HiddenFits
<1> QED
  BY <1>2, <1>3, <1>4, <1>5 DEF BidsIInv

LEMMA AnnounceStep == Bids!Announce => BidsIInv'
<1> SUFFICES ASSUME Bids!Announce PROVE BidsIInv'
  OBVIOUS
<1>0. PICK kind \in {"UA", "EU"}, ps \in {Lots, {Whole}} :
        \E ceiling \in [ps -> Amounts] : call' = Bids!Published(kind, ceiling)
  BY DEF Bids!Announce
<1>1. PICK ceiling \in [ps -> Amounts] : call' = Bids!Published(kind, ceiling)
  BY <1>0
<1>2. ceiling \in Prices
  BY DEF Prices
<1> QED
  BY <1>1, <1>2, CallPublished

\* Before a tender is announced there is a call of no kind in particular, whose
\* status no rule knows.
LEMMA BidsInit == PublicationInit => BidsIInv
<1> SUFFICES ASSUME call = Bids!NoCallYet PROVE BidsIInv
  BY DEF PublicationInit, Before
<1>0. /\ "none" \in CallStatus /\ MaxLeft \in Int /\ Extra \in Int
      /\ Bids!NoBid \in Bid /\ <<>> \in ReviewSets /\ <<>> \in Prices
  BY NoBidTyped, NoReviews, NoPrices, ExtraAssumption DEF CallStatus
<1>1. call = [kind |-> "UA", status |-> "none", left |-> MaxLeft, notice |-> Extra,
              ceiling |-> <<>>, bid |-> Bids!NoBid, reviews |-> <<>>, early |-> FALSE]
  BY DEF Bids!NoCallYet, Bids!Published
<1>5. call \in Call
  BY <1>0, <1>1, CallTyped
<1>2. ReviewsFit /\ Bids!DecidedOnWhatIsThere
  BY <1>1, NoReviews DEF ReviewsFit, Bids!DecidedOnWhatIsThere
<1>3. CountedFits
  BY <1>0, <1>1, NoBidTyped, NoReviews DEF CountedFits, Bids!Tendering
<1>4. HiddenFits
  BY <1>1, NoBidTyped DEF HiddenFits
<1> QED
  BY <1>2, <1>3, <1>4, <1>5 DEF BidsIInv

LEMMA BidsStoryStep == BidsIInv /\ [PublicationNext]_publicationVars => BidsIInv'
<1> SUFFICES ASSUME BidsIInv, [PublicationNext]_publicationVars PROVE BidsIInv'
  OBVIOUS
<1>1. call' = call \/ Bids!Announce \/ Bids!Next
  BY DEF PublicationNext, publicationVars, PlanStep, Scheduled, Advertised, Announced,
     BidsStep, PapersStep, ApprovalStep, EnquiriesStep
<1>2. CASE call' = call
  BY <1>2 DEF BidsIInv, ReviewsFit, CountedFits, HiddenFits, Bids!DecidedOnWhatIsThere,
     Bids!Tendering, Bids!Fits
<1> QED
  BY <1>1, <1>2, AnnounceStep, BidsStepInv

LEMMA BidsInvariant == PublicationSpec => []BidsIInv
<1>1. PublicationInit => BidsIInv
  BY BidsInit
<1>2. BidsIInv /\ [PublicationNext]_publicationVars => BidsIInv'
  BY BidsStoryStep
<1> QED
  BY <1>1, <1>2, PTL DEF PublicationSpec

\* For any lots and amounts: prices are shown in the bid and in its papers
\* together in openEU, and never once the tender was cancelled early; and no
\* documents change under the decision that rests on them, whichever reviews,
\* milestones, and cancelled decisions come in between.
THEOREM BidPapersAreSound == PublicationSpec => []BidPapersSound
<1>1. BidsIInv => BidPapersSound
  <2> SUFFICES ASSUME BidsIInv PROVE Bids!PricesKept
    BY DEF BidsIInv, BidPapersSound
  <2>1. Bids!PriceShownEU = Bids!PapersShownEU
    BY DEF Bids!PriceShownEU, Bids!PapersShownEU
  <2>2. call.kind = "EU" /\ call.early => ~ Bids!PriceShownEU
    BY DEF BidsIInv, HiddenFits, Bids!PriceShownEU, Bids!Tendering, Call, Bid, BidStatuses
  <2>3. call.kind = "UA" /\ call.early => ~ Bids!PriceShownUA /\ ~ Bids!PapersShownUA
    BY DEF BidsIInv, HiddenFits, Bids!PriceShownUA, Bids!PapersShownUA
  <2> QED
    BY <2>1, <2>2, <2>3 DEF Bids!PricesKept
<1> QED
  BY <1>1, BidsInvariant, PTL

\* The same invariant says who competes: what counts when the bids are opened
\* has seen the last terms, fits them, and had the extra time.
THEOREM OpenedBidsAlwaysFit == PublicationSpec => []Bids!OpenedBidsFit
<1>1. BidsIInv => Bids!OpenedBidsFit
  BY DEF BidsIInv, CountedFits, Bids!OpenedBidsFit
<1> QED
  BY <1>1, BidsInvariant, PTL

-----------------------------------------------------------------------------
(* The tender that is asked about: what TenderCancellationProof shows of   *)
(* Enquiries, of the offer of this module.                                 *)

Offer == INSTANCE TenderCancellationProof WITH now <- today, tender <- offer

\* Both instances of Enquiries tell the same story.
LEMMA SameStory ==
  /\ Asked!EnquiryInit = Offer!EnquiryInit
  /\ Asked!EnquiryNext = Offer!EnquiryNext
  /\ Asked!EnquiriesSound = Offer!EnquiriesSound
<1>1. Asked!EnquiryInit = Offer!EnquiryInit
  BY DEF Asked!EnquiryInit, Offer!EnquiryInit, Asked!Init, Offer!Init,
     Asked!Published, Offer!Published
<1>2. Asked!EnquiryNext = Offer!EnquiryNext
  BY DEF Asked!EnquiryNext, Offer!EnquiryNext, Asked!AnotherDay, Offer!AnotherDay,
     Asked!NextMoment, Offer!NextMoment, Asked!Visit, Offer!Visit, Asked!Save, Offer!Save,
     Asked!StartAuction, Offer!StartAuction, Asked!Crowds, Offer!Crowds,
     Asked!MoveTenderPeriod, Offer!MoveTenderPeriod, Asked!ExtendTenderPeriod,
     Offer!ExtendTenderPeriod, Asked!Ask, Offer!Ask, Asked!Answer, Offer!Answer,
     Asked!MayAnswer, Offer!MayAnswer, Asked!vars, Offer!vars, Asked!Requests,
     Offer!Requests, Asked!PostCancellation, Offer!PostCancellation, Asked!MayCancel,
     Offer!MayCancel, Asked!InTheWay, Offer!InTheWay, Asked!SubmitCancellation,
     Offer!SubmitCancellation, Asked!DropCancellation, Offer!DropCancellation,
     Asked!WithdrawCancellation, Offer!WithdrawCancellation, Asked!PostComplaint,
     Offer!PostComplaint, Asked!PatchComplaint, Offer!PatchComplaint,
     Asked!ResolveComplaint, Offer!ResolveComplaint, Asked!Settled, Offer!Settled,
     Asked!Reviewed, Offer!Reviewed, Asked!PostObjection, Offer!PostObjection,
     Asked!PatchObjection, Offer!PatchObjection, Asked!ResolveObjection,
     Offer!ResolveObjection, Asked!Answerable, Offer!Answerable, Asked!Prolonged,
     Offer!Prolonged, Asked!WholeDays, Offer!WholeDays, Asked!Elapsed, Offer!Elapsed,
     Asked!Nth, Offer!Nth, Asked!Undecided, Offer!Undecided,
     Asked!Rejected, Offer!Rejected, Asked!ComplaintStatus, Offer!ComplaintStatus,
     Asked!Mistaken, Offer!Mistaken, Asked!Terminal, Offer!Terminal, Asked!Targets,
     Offer!Targets, Asked!Over, Offer!Over, Asked!Checked, Offer!Checked,
     Asked!CheckCancellations, Offer!CheckCancellations, Asked!CheckDrafts,
     Offer!CheckDrafts, Asked!DropDraft, Offer!DropDraft, Asked!DropDrafts,
     Offer!DropDrafts, Asked!CheckCancellation, Offer!CheckCancellation, Asked!Ripe,
     Offer!Ripe, Asked!Cancelled, Offer!Cancelled, Asked!CancelLot, Offer!CancelLot,
     Asked!CancelTender, Offer!CancelTender, Asked!LotStatuses, Offer!LotStatuses,
     Asked!NoComplaintAgainst, Offer!NoComplaintAgainst, Asked!Concerns,
     Offer!Concerns, Asked!HasPending, Offer!HasPending, Asked!HasUnredressed,
     Offer!HasUnredressed, Asked!Unredressed, Offer!Unredressed, Asked!MayEditTender,
     Offer!MayEditTender, Asked!Held, Offer!Held, Asked!TenderingOver,
     Offer!TenderingOver, Asked!Blocked, Offer!Blocked, Asked!Unanswered,
     Offer!Unanswered, Asked!LotIsActive, Offer!LotIsActive, Asked!Withheld,
     Offer!Withheld, Asked!InTendering, Offer!InTendering, Asked!EnquiriesEnd,
     Offer!EnquiriesEnd, Asked!ClarificationsUntil, Offer!ClarificationsUntil,
     Asked!UnansweredQuestions, Offer!UnansweredQuestions
<1>3. Asked!EnquiriesSound = Offer!EnquiriesSound
  BY DEF Asked!EnquiriesSound, Offer!EnquiriesSound, Asked!AnswersInTime,
     Offer!AnswersInTime, Asked!SilenceIsTheOwners, Offer!SilenceIsTheOwners,
     Asked!EndIsScheduled, Offer!EndIsScheduled, Asked!Question, Offer!Question,
     Asked!VisitsDue, Offer!VisitsDue, Asked!NextChecks, Offer!NextChecks,
     Asked!ToSet, Offer!ToSet, Asked!Nth, Offer!Nth, Asked!Undecided, Offer!Undecided,
     Asked!Rejected, Offer!Rejected, Asked!ComplaintStatus, Offer!ComplaintStatus,
     Asked!Mistaken, Offer!Mistaken, Asked!Terminal, Offer!Terminal, Asked!Targets,
     Offer!Targets, Asked!Over, Offer!Over, Asked!Checked, Offer!Checked,
     Asked!CheckCancellations, Offer!CheckCancellations, Asked!CheckDrafts,
     Offer!CheckDrafts, Asked!DropDraft, Offer!DropDraft, Asked!DropDrafts,
     Offer!DropDrafts, Asked!CheckCancellation, Offer!CheckCancellation, Asked!Ripe,
     Offer!Ripe, Asked!Cancelled, Offer!Cancelled, Asked!CancelLot, Offer!CancelLot,
     Asked!CancelTender, Offer!CancelTender, Asked!LotStatuses, Offer!LotStatuses,
     Asked!NoComplaintAgainst, Offer!NoComplaintAgainst, Asked!Concerns,
     Offer!Concerns, Asked!HasPending, Offer!HasPending, Asked!HasUnredressed,
     Offer!HasUnredressed, Asked!Unredressed, Offer!Unredressed, Asked!MayEditTender,
     Offer!MayEditTender, Asked!Held, Offer!Held, Asked!TenderingOver,
     Offer!TenderingOver, Asked!Blocked, Offer!Blocked, Asked!Unanswered,
     Offer!Unanswered, Asked!LotIsActive, Offer!LotIsActive, Asked!Withheld,
     Offer!Withheld, Asked!InTendering, Offer!InTendering, Asked!EnquiriesEnd,
     Offer!EnquiriesEnd, Asked!ClarificationsUntil, Offer!ClarificationsUntil,
     Asked!UnansweredQuestions, Offer!UnansweredQuestions, Asked!Short, Offer!Short,
     Asked!Redresses, Offer!Redresses, Asked!Redressed, Offer!Redressed,
     Asked!Cardinality, Offer!Cardinality
<1> QED BY <1>1, <1>2, <1>3

\* What the proofs about Enquiries assume.
LEMMA OfferAssumed ==
  /\ MaxTime \in Nat /\ MaxEnd \in Nat /\ Whole \notin Lots
  /\ TenderEnd \in Nat /\ SubmitLead \in Nat /\ SubmitLead <= TenderEnd
  /\ TenderPeriod \in Nat /\ TenderPeriod <= TenderEnd
  /\ CancelTerm \in Nat /\ ExtraPeriod \in Nat
  /\ Hour \in Nat \ {0} /\ Day \in Nat /\ Hour <= Day
  /\ Offer!EnquiryPeriods
BY OfferAssumption, EnquiryAssumption DEF Offer!EnquiryPeriods

OfferInv == offer # None => Offer!EnquiriesInv

LEMMA OfferStarts == Offer!EnquiryInit' => Offer!EnquiriesInv'
<1>1. Offer!EnquiryInit => Offer!EnquiriesInv
  BY OfferAssumed, Offer!EnquiriesStart
<1> QED BY <1>1, PTL

LEMMA OfferMoves == Offer!EnquiriesInv /\ [Offer!EnquiryNext]_enquiries => Offer!EnquiriesInv'
<1>1. Offer!EnquiriesInv /\ [Offer!EnquiryNext]_Offer!questionVars => Offer!EnquiriesInv'
  BY OfferAssumed, Offer!EnquiriesStep
<1> QED BY <1>1 DEF enquiries, Offer!questionVars, Offer!vars

LEMMA OfferStep == OfferInv /\ [PublicationNext]_publicationVars => OfferInv'
<1> SUFFICES ASSUME OfferInv, [PublicationNext]_publicationVars, offer' # None
             PROVE  Offer!EnquiriesInv'
  BY DEF OfferInv
<1>1. CASE Advertised
  <2>1. offer' = Asked!Published /\ today' = 0 /\ questions' = <<>>
    BY <1>1 DEF Advertised, Untouched, Before, NoneAsked
  <2>2. Offer!EnquiryInit'
    BY <2>1 DEF Offer!EnquiryInit, Offer!Init, Asked!Published, Offer!Published
  <2> QED BY <2>2, OfferStarts
<1>2. CASE EnquiriesStep
  BY <1>2, SameStory, OfferMoves DEF EnquiriesStep, OfferInv
<1>3. CASE UNCHANGED enquiries
  BY <1>3, OfferMoves DEF OfferInv, enquiries
<1>4. Advertised \/ EnquiriesStep \/ UNCHANGED enquiries
  BY DEF PublicationNext, publicationVars, PlanStep, Scheduled, Announced,
     BidsStep, PapersStep, ApprovalStep, Before, NoneAsked, enquiries
<1> QED BY <1>1, <1>2, <1>3, <1>4

\* Nobody competes on terms that are not the last ones, and every question about
\* the terms of a tender is explained in time for those who bid, or its owner
\* had the days to: whatever the bids, questions and cancellations.
THEOREM BiddersAreInformed == PublicationSpec => []BiddersInformed
<1>1. PublicationInit => OfferInv
  BY DEF PublicationInit, Before, NoneAsked, OfferInv
<1>2. OfferInv => (offer # None => Asked!EnquiriesSound)
  <2>1. Offer!EnquiriesInv => Offer!EnquiriesSound
    BY OfferAssumed, Offer!EnquiriesAreSound
  <2> QED BY <2>1, SameStory DEF OfferInv
<1>3. Bids!OpenedBidsFit /\ (offer # None => Asked!EnquiriesSound) => BiddersInformed
  BY DEF BiddersInformed
<1> QED BY <1>1, <1>2, <1>3, OfferStep, OpenedBidsAlwaysFit, PTL DEF PublicationSpec
=============================================================================
