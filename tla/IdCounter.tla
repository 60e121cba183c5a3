------------------------------ MODULE IdCounter ------------------------------
(***************************************************************************)
(* generate_tender_id and generate_plan_id: workers draw the number of the *)
(* human-readable id UA-YYYY-MM-DD-NNNNNN from one counter document, which *)
(* maps a day to its next free number.  The loop reads the document, adds  *)
(* one, saves it, and starts again when CouchDB reports a conflict or when *)
(* anything else goes wrong (after a sleep).                               *)
(***************************************************************************)
EXTENDS Naturals, FiniteSets

CONSTANTS
  Workers,   \* calls of generate_tender_id
  Days,      \* the calendar days they are made on (ctime.date())
  MaxFaults  \* bound on database calls that raise something but a conflict

ASSUME FaultsAssumption == MaxFaults \in Nat
ASSUME WorkersAssumption == IsFiniteSet(Workers)

VARIABLES
  counter,   \* the counter document: its _rev and the next number of each day
  pc, day,   \* where each worker is in the loop, and its ctime.date()
  read,      \* the document the worker read
  id,        \* the number the worker returned, 0 before it returns
  faults     \* database calls that failed so far

vars == <<counter, pc, day, read, id, faults>>

\* tenderID.get(key, 1): a day without an entry starts at 1.
Fresh == [rev |-> 0, next |-> [d \in Days |-> 1]]

Init ==
  /\ counter = Fresh
  /\ pc = [w \in Workers |-> "get"]
  /\ day \in [Workers -> Days]
  /\ read = [w \in Workers |-> Fresh]
  /\ id = [w \in Workers |-> 0]
  /\ faults = 0

Goto(w, from, to) ==
  /\ pc[w] = from
  /\ pc' = [pc EXCEPT ![w] = to]

Get(w) ==
  /\ Goto(w, "get", "save")
  /\ read' = [read EXCEPT ![w] = counter]
  /\ UNCHANGED <<counter, day, id, faults>>

\* Faulty: the counter is saved whatever its revision.
CurrentAlways(w) == TRUE

\* tenderID[key] = index + 1; db.save takes it only at the revision it was read.
Current(w) == read[w].rev = counter.rev

\* Faulty: a number is skipped at every draw.
IncrementedTwice(w) ==
  [rev |-> read[w].rev + 1, next |-> [read[w].next EXCEPT ![day[w]] = @ + 2]]

Incremented(w) ==
  [rev |-> read[w].rev + 1, next |-> [read[w].next EXCEPT ![day[w]] = @ + 1]]

Save(w) ==
  /\ Goto(w, "save", "done")
  /\ Current(w)
  /\ counter' = Incremented(w)
  /\ id' = [id EXCEPT ![w] = read[w].next[day[w]]]
  /\ UNCHANGED <<day, read, faults>>

\* Faulty: the document is not read again after a conflict.
ConflictNoReread(w) ==
  /\ Goto(w, "save", "save")
  /\ ~ Current(w)
  /\ UNCHANGED <<counter, day, read, id, faults>>

\* except ResourceConflict: pass
Conflict(w) ==
  /\ Goto(w, "save", "get")
  /\ ~ Current(w)
  /\ UNCHANGED <<counter, day, read, id, faults>>

\* Any other exception, from the read or from the save: sleep and start again.
Fail(w) ==
  /\ faults < MaxFaults
  /\ Goto(w, "get", "sleep") \/ Goto(w, "save", "sleep")
  /\ faults' = faults + 1
  /\ UNCHANGED <<counter, day, read, id>>

\* The same exception when the database did save and only its answer was lost.
FailAfterSave(w) ==
  /\ faults < MaxFaults
  /\ Goto(w, "save", "sleep")
  /\ Current(w)
  /\ counter' = Incremented(w)
  /\ faults' = faults + 1
  /\ UNCHANGED <<day, read, id>>

Wake(w) ==
  /\ Goto(w, "sleep", "get")
  /\ UNCHANGED <<counter, day, read, id, faults>>

Finished == (\A w \in Workers : pc[w] = "done") /\ UNCHANGED vars

LoopStep(w) == Get(w) \/ Save(w) \/ Conflict(w) \/ Wake(w)

Next ==
  \/ \E w \in Workers : LoopStep(w) \/ Fail(w) \/ FailAfterSave(w)
  \/ Finished

\* A worker process keeps running its loop; nothing makes the database fail.
Fairness == \A w \in Workers : WF_vars(LoopStep(w))

Spec == Init /\ [][Next]_vars /\ Fairness

-----------------------------------------------------------------------------
CounterDoc == [rev : Nat, next : [Days -> Nat \ {0}]]

TypeOK ==
  /\ counter \in CounterDoc
  /\ pc \in [Workers -> {"get", "save", "sleep", "done"}]
  /\ day \in [Workers -> Days]
  /\ read \in [Workers -> CounterDoc]
  /\ id \in [Workers -> Nat]
  /\ faults \in 0 .. MaxFaults

\* Two tenders announced on one day never share an id, whatever the database
\* does to the calls in between.
IdsUnique ==
  \A v, w \in Workers :
    pc[v] = "done" /\ pc[w] = "done" /\ day[v] = day[w] /\ id[v] = id[w] => v = w

\* A number handed out lies below the day's next free one, so a later draw of
\* any worker, however stale its copy, cannot give it again.
DrawnBelowNext ==
  \A w \in Workers : pc[w] = "done" => id[w] \in 1 .. counter.next[day[w]] - 1

Issued(d) == {w \in Workers : pc[w] = "done" /\ day[w] = d}

\* Numbers of a day are lost only to calls whose answer was lost: at most one
\* for each failure, so without failures the numbers of a day are dense.
GapsAreFaults ==
  \A d \in Days : counter.next[d] - 1 - Cardinality(Issued(d)) \in 0 .. faults

\* Every call returns: a conflict means another call has succeeded, so the
\* retry loop cannot spin for ever.
EveryCallReturns == \A w \in Workers : <>(pc[w] = "done")
=============================================================================
