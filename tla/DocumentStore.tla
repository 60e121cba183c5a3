--------------------------- MODULE DocumentStore ---------------------------
(***************************************************************************)
(* One document of the database and the requests that change it            *)
(* concurrently.  Every view of the API follows the same three steps: the  *)
(* traversal factory loads the document (extract_tender), the view changes *)
(* the loaded copy, save_tender appends a revision, stamps dateModified    *)
(* and stores the copy; CouchDB refuses the store when the copy does not   *)
(* carry the revision the database holds.  save_plan, save_contract and    *)
(* save_agreement are the same program text with another document type.    *)
(* CouchDB takes a store at once or not at all; its reply may be lost.     *)
(***************************************************************************)
EXTENDS Naturals, Sequences, FiniteSets

CONSTANTS
  Requests,  \* requests to change the document, each handled once
  MaxClock   \* bound on the wall clock: get_now() is at most this

ASSUME ClockAssumption == MaxClock \in Nat

VARIABLES
  doc,       \* the stored document
  clock,     \* the wall clock get_now() reads
  pc,        \* how far each request has come
  copy,      \* the request's copy of the document, as validated["tender"]
  base,      \* the number of revisions of the copy when it was loaded (its _rev)
  unheard    \* the requests whose store was taken and the reply to it lost

vars == <<doc, clock, pc, copy, base, unheard>>

\* A revision names its author and the _rev of the document it was made from;
\* the _rev of a document is abstracted to the number of stores it went through.
Revision == [author : Requests, rev : Nat]
Document == [rev : Nat, revisions : Seq(Revision), dateModified : Nat]

Answers == {"ok", "conflict", "same", "error"}
Steps == {"received", "loaded", "computed", "stored", "unanswered", "refused",
          "failed", "unchanged", "dead"} \cup Answers

Init ==
  /\ doc = [rev |-> 0, revisions |-> << >>, dateModified |-> 0]
  /\ clock = 0
  /\ pc = [r \in Requests |-> "received"]
  /\ copy = [r \in Requests |-> doc]
  /\ base = [r \in Requests |-> 0]
  /\ unheard = {}

Step(r, from, to) ==
  /\ pc[r] = from
  /\ pc' = [pc EXCEPT ![r] = to]

\* extract_tender: the whole request works on the document as it is now.
Load(r) ==
  /\ Step(r, "received", "loaded")
  /\ copy' = [copy EXCEPT ![r] = doc]
  /\ base' = [base EXCEPT ![r] = doc.rev]
  /\ UNCHANGED <<doc, clock, unheard>>

\* A validator refuses, or the patch is empty: save_tender stores nothing.
NothingToSave(r) ==
  /\ Step(r, "loaded", "unchanged")
  /\ UNCHANGED <<doc, clock, copy, base, unheard>>

\* Faulty: the view stores without append_revision.
ComputeUnrecorded(r) ==
  /\ Step(r, "loaded", "computed")
  /\ copy' = [copy EXCEPT ![r].dateModified = clock]
  /\ UNCHANGED <<doc, clock, base, unheard>>

\* The view changed the copy.  append_revision records the change with the
\* _rev it was made from; dateModified becomes get_now() unless the view set
\* tender.modified to False (bids and auction data do).
Compute(r) ==
  /\ Step(r, "loaded", "computed")
  /\ \E modified \in BOOLEAN :
       copy' = [copy EXCEPT
         ![r].revisions = Append(@, [author |-> r, rev |-> base[r]]),
         ![r].dateModified = IF modified THEN clock ELSE @]
  /\ UNCHANGED <<doc, clock, base, unheard>>

\* Faulty: the store is not conditional.
AcceptedAlways(r) == TRUE

\* tender.store(db): CouchDB takes the copy only if its _rev is current.
Accepted(r) == base[r] = doc.rev

Write(r, to) ==
  /\ Step(r, "computed", to)
  /\ Accepted(r)
  /\ doc' = [copy[r] EXCEPT !.rev = base[r] + 1]
  /\ UNCHANGED <<clock, copy, base>>

Store(r) == Write(r, "stored") /\ UNCHANGED unheard

\* CouchDB took the copy, but the connection broke before the worker read so.
StoreUnanswered(r) == Write(r, "unanswered") /\ unheard' = unheard \cup {r}

\* The worker does not know whether its copy was stored.
Unsettled(r) == pc[r] \in {"computed", "unanswered"}

\* Faulty: 409 although nobody else changed the document.
ConflictAnyway(r) ==
  /\ Unsettled(r)
  /\ pc' = [pc EXCEPT ![r] = "refused"]
  /\ UNCHANGED <<doc, clock, copy, base, unheard>>

\* handle_store_exceptions turns ResourceConflict into an error with status 409.
\* The session sends a store whose reply was lost again (retry_delays), and then
\* the copy conflicts with itself.
Conflict(r) ==
  /\ Unsettled(r)
  /\ pc' = [pc EXCEPT ![r] = "refused"]
  /\ ~ Accepted(r)
  /\ UNCHANGED <<doc, clock, copy, base, unheard>>

\* The other branches of handle_store_exceptions: the model refuses the copy, the
\* database cannot be reached, or any exception else, also after the copy was
\* stored.
Fail(r) ==
  /\ Unsettled(r)
  /\ pc' = [pc EXCEPT ![r] = "failed"]
  /\ UNCHANGED <<doc, clock, copy, base, unheard>>

Respond(r) ==
  /\ \/ Step(r, "stored", "ok")
     \/ Step(r, "refused", "conflict")
     \/ Step(r, "failed", "error")
     \/ Step(r, "unchanged", "same")
  /\ UNCHANGED <<doc, clock, copy, base, unheard>>

\* The worker process dies, before or after the store; the client hears nothing.
Die(r) ==
  /\ pc[r] \notin Answers \cup {"dead"}
  /\ pc' = [pc EXCEPT ![r] = "dead"]
  /\ UNCHANGED <<doc, clock, copy, base, unheard>>

Tick ==
  /\ clock < MaxClock
  /\ clock' = clock + 1
  /\ UNCHANGED <<doc, pc, copy, base, unheard>>

RequestStep(r) ==
  \/ Load(r) \/ NothingToSave(r) \/ Compute(r)
  \/ Store(r) \/ StoreUnanswered(r) \/ Conflict(r) \/ Fail(r)
  \/ Respond(r)

Next == Tick \/ \E r \in Requests : RequestStep(r) \/ Die(r)

Spec == Init /\ [][Next]_vars

-----------------------------------------------------------------------------
TypeOK ==
  /\ doc \in Document
  /\ clock \in 0 .. MaxClock
  /\ pc \in [Requests -> Steps]
  /\ copy \in [Requests -> Document]
  /\ base \in [Requests -> Nat]
  /\ unheard \subseteq Requests

\* The revisions form an unbroken chain: the i-th one was made from the
\* document that held exactly the i-1 before it.  The historical API replays
\* revisions backwards and relies on it (historical/core/utils.py).
RevisionChain ==
  /\ doc.rev = Len(doc.revisions)
  /\ \A i \in 1 .. Len(doc.revisions) : doc.revisions[i].rev = i - 1

Holds(r) == \E i \in 1 .. Len(doc.revisions) : doc.revisions[i].author = r

\* No lost update: a change the client was told of stays in the document
\* whatever other requests do, and one refused with 409 or answered with an error
\* never gets in, unless the database had taken it and its reply was lost.
NoLostUpdate ==
  \A r \in Requests :
    /\ pc[r] \in {"stored", "unanswered", "ok"} \/ r \in unheard => Holds(r)
    /\ pc[r] \in {"refused", "conflict", "failed", "error"} /\ r \notin unheard => ~ Holds(r)
    /\ pc[r] \in {"same", "unchanged"} => ~ Holds(r)

\* A 409 is never spurious: after this request loaded the document another one
\* stored it, or this one did and the reply was lost.  So a crowd of retrying
\* clients always makes progress.
ConflictHasWinner ==
  \A r \in Requests : pc[r] = "refused" =>
    \E i \in 1 .. Len(doc.revisions) :
      /\ doc.revisions[i].rev >= base[r]
      /\ doc.revisions[i].author # r \/ r \in unheard

\* dateModified never goes back, although the time is taken before the store
\* and requests overtake each other between the two.
DateModifiedMonotone == [][doc'.dateModified >= doc.dateModified]_vars

-----------------------------------------------------------------------------
(* The protocol implements the atomic document.                            *)
Authors(s) == [i \in 1 .. Len(s) |-> s[i].author]

\* The answer a client has had, as AtomicDocument sees it.
answerOf ==
  [r \in Requests |-> IF pc[r] \in Answers THEN pc[r] ELSE "none"]

Atomic == INSTANCE AtomicDocument
            WITH applied <- Authors(doc.revisions), answer <- answerOf

\* Every behaviour of load, change and compare-and-store is one in which each
\* change takes effect at a single instant (the store), before its answer, and is
\* answered truly unless the database's reply to the store was lost.
AtomicSpec == Atomic!ASpec
=============================================================================
