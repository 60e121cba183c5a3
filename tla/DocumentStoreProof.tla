-------------------------- MODULE DocumentStoreProof --------------------------
(***************************************************************************)
(* Load, change and conditional store make an atomic document, for any     *)
(* number of requests.  What makes the argument go through is one fact     *)
(* about the copies (CopiesFit): a copy whose _rev is still current is the *)
(* stored document, or the stored document and one revision more, and a    *)
(* copy whose _rev is not current will never be stored.                    *)
(***************************************************************************)
EXTENDS Historical, SequenceTheorems, WellFoundedInduction, TLAPS

\* The request may still store its copy.
Working(r) == pc[r] \in {"loaded", "computed"}

\* The database takes the copy, and the worker reads so or not.
Written(r) == Store(r) \/ StoreUnanswered(r)

\* The revision a request adds.
Entry(r) == [author |-> r, rev |-> base[r]]

CopiesFit ==
  \A r \in Requests :
    /\ base[r] <= doc.rev
    /\ Working(r) /\ base[r] = doc.rev =>
         copy[r].revisions = IF pc[r] = "computed" THEN Append(doc.revisions, Entry(r))
                             ELSE doc.revisions

\* A request that has not stored its copy has left no trace, one that has will
\* not lose it; a worker that reports a conflict or an error left one only if the
\* reply to its store was lost, and one that was refused had been overtaken.
TracesFit ==
  \A r \in Requests :
    /\ pc[r] \in {"received", "loaded", "computed", "unchanged", "same"} => ~ Holds(r)
    /\ pc[r] \in {"stored", "ok"} => Holds(r) /\ r \notin unheard
    /\ r \in unheard => Holds(r)
    /\ pc[r] = "unanswered" => r \in unheard
    /\ pc[r] \in {"refused", "conflict", "failed", "error"} /\ Holds(r) => r \in unheard
    /\ pc[r] = "refused" => base[r] < doc.rev

\* Times of a copy lie between that of the document it replaces and now.
TimesFit ==
  /\ doc.dateModified <= clock
  /\ \A r \in Requests : Working(r) =>
       /\ copy[r].dateModified <= clock
       /\ base[r] = doc.rev => doc.dateModified <= copy[r].dateModified

IInv == TypeOK /\ RevisionChain /\ CopiesFit /\ TracesFit /\ TimesFit

LEMMA InitInv == Init => IInv
<1> SUFFICES ASSUME Init PROVE IInv
  OBVIOUS
<1>1. doc \in Document
  BY DEF Init, Document
<1> QED
  BY <1>1, ClockAssumption
  DEF Init, IInv, TypeOK, Steps, Answers, RevisionChain, CopiesFit, TracesFit, TimesFit, Working, Holds

-----------------------------------------------------------------------------
(* Types.                                                                  *)

LEMMA TypeStep == TypeOK /\ [Next]_vars => TypeOK'
<1> SUFFICES ASSUME TypeOK, [Next]_vars PROVE TypeOK'
  OBVIOUS
<1> USE DEF TypeOK, Steps, Answers
<1>1. ASSUME NEW r \in Requests, Load(r) PROVE TypeOK'
  BY <1>1 DEF Load, Step, Document
<1>2. ASSUME NEW r \in Requests, NothingToSave(r) \/ Conflict(r) \/ Fail(r) \/ Respond(r) \/ Die(r)
      PROVE  TypeOK'
  BY <1>2 DEF NothingToSave, Conflict, Fail, Respond, Die, Step
<1>3. ASSUME NEW r \in Requests, Compute(r) PROVE TypeOK'
  <2>1. PICK modified \in BOOLEAN :
          copy' = [copy EXCEPT
            ![r].revisions = Append(@, [author |-> r, rev |-> base[r]]),
            ![r].dateModified = IF modified THEN clock ELSE @]
    BY <1>3 DEF Compute
  <2>2. copy[r] \in Document /\ clock \in Nat /\ Entry(r) \in Revision
    BY DEF Entry, Revision
  <2>3. Append(copy[r].revisions, Entry(r)) \in Seq(Revision)
    BY <2>2 DEF Document
  <2>4. copy' \in [Requests -> Document]
    BY <2>1, <2>2, <2>3 DEF Document, Entry
  <2> QED
    BY <1>3, <2>4 DEF Compute, Step
<1>4. ASSUME NEW r \in Requests, Written(r) PROVE TypeOK'
  <2>1. doc' = [copy[r] EXCEPT !.rev = base[r] + 1] /\ copy[r] \in Document
    BY <1>4 DEF Written, Store, StoreUnanswered, Write
  <2>2. base[r] + 1 \in Nat
    OBVIOUS
  <2>3. doc' \in Document
    BY <2>1, <2>2 DEF Document
  <2> QED
    BY <1>4, <2>3 DEF Written, Store, StoreUnanswered, Write, Step
<1>5. CASE Tick
  BY <1>5, ClockAssumption DEF Tick
<1>6. CASE UNCHANGED vars
  BY <1>6 DEF vars
<1> QED
  BY <1>1, <1>2, <1>3, <1>4, <1>5, <1>6 DEF Next, RequestStep, Written

-----------------------------------------------------------------------------
(* The store.                                                              *)

\* What a store does to the document: one revision is added at its end.
LEMMA StoreAppends ==
  ASSUME IInv, NEW r \in Requests, Written(r)
  PROVE  /\ doc'.rev = doc.rev + 1
         /\ doc'.revisions = Append(doc.revisions, [author |-> r, rev |-> doc.rev])
         /\ doc'.dateModified = copy[r].dateModified
         /\ base[r] = doc.rev /\ UNCHANGED <<clock, copy, base>>
         /\ pc[r] = "computed"
         /\ \/ pc' = [pc EXCEPT ![r] = "stored"] /\ unheard' = unheard
            \/ pc' = [pc EXCEPT ![r] = "unanswered"] /\ unheard' = unheard \cup {r}
BY DEF IInv, TypeOK, Document, CopiesFit, Working, Entry, Written, Store, StoreUnanswered,
       Write, Step, Accepted

\* Where a revision added at the end of a sequence is found.
LEMMA AppendedRevisions ==
  ASSUME NEW s \in Seq(Revision), NEW e \in Revision
  PROVE  /\ Len(Append(s, e)) = Len(s) + 1
         /\ \A i \in 1 .. Len(s) : Append(s, e)[i] = s[i]
         /\ Append(s, e)[Len(s) + 1] = e
OBVIOUS

\* After a store the request has its change in the document, and the others
\* have what they had.
LEMMA StoreTraces ==
  ASSUME IInv, NEW r \in Requests, Written(r)
  PROVE  Holds(r)' /\ \A q \in Requests \ {r} : Holds(q)' <=> Holds(q)
<1> DEFINE e == [author |-> r, rev |-> doc.rev]
           s == doc.revisions
<1>1. s \in Seq(Revision) /\ e \in Revision /\ doc'.revisions = Append(s, e)
  BY StoreAppends DEF IInv, TypeOK, Document, Revision
<1>2. /\ Len(doc'.revisions) = Len(s) + 1
      /\ \A i \in 1 .. Len(s) : doc'.revisions[i] = s[i]
      /\ doc'.revisions[Len(s) + 1] = e
      /\ Len(s) \in Nat
  BY <1>1, AppendedRevisions
<1>3. Holds(r)'
  BY <1>2 DEF Holds
<1>4. ASSUME NEW q \in Requests \ {r} PROVE Holds(q)' <=> Holds(q)
  <2>1. ASSUME Holds(q)' PROVE Holds(q)
    <3>1. PICK i \in 1 .. Len(s) + 1 : doc'.revisions[i].author = q
      BY <1>2, <2>1 DEF Holds
    <3>2. i # Len(s) + 1
      BY <1>2, <3>1
    <3> QED
      BY <1>2, <3>1, <3>2 DEF Holds
  <2>2. ASSUME Holds(q) PROVE Holds(q)'
    <3>1. PICK i \in 1 .. Len(s) : s[i].author = q
      BY <2>2 DEF Holds
    <3>2. i \in 1 .. Len(s) + 1 /\ doc'.revisions[i].author = q
      BY <1>2, <3>1
    <3> QED
      BY <1>2, <3>2 DEF Holds
  <2> QED
    BY <2>1, <2>2
<1> QED
  BY <1>3, <1>4

\* The chain of revisions grows by a revision made from what was stored.
LEMMA ChainStep == IInv /\ [Next]_vars => RevisionChain'
<1> SUFFICES ASSUME IInv, [Next]_vars PROVE RevisionChain'
  OBVIOUS
<1>1. ASSUME NEW r \in Requests, Written(r) PROVE RevisionChain'
  <2> DEFINE e == [author |-> r, rev |-> doc.rev]
             s == doc.revisions
  <2>1. s \in Seq(Revision) /\ e \in Revision /\ doc'.revisions = Append(s, e)
    BY <1>1, StoreAppends DEF IInv, TypeOK, Document, Revision
  <2>2. /\ Len(doc'.revisions) = Len(s) + 1
        /\ \A i \in 1 .. Len(s) : doc'.revisions[i] = s[i]
        /\ doc'.revisions[Len(s) + 1] = e
        /\ Len(s) \in Nat
    BY <2>1, AppendedRevisions
  <2>3. doc'.rev = doc.rev + 1
    BY <1>1, StoreAppends
  <2>4. doc.rev = Len(s) /\ \A i \in 1 .. Len(s) : s[i].rev = i - 1
    BY DEF RevisionChain, IInv
  <2>5. \A i \in 1 .. Len(doc'.revisions) : doc'.revisions[i].rev = i - 1
    <3> SUFFICES ASSUME NEW i \in 1 .. Len(s) + 1 PROVE doc'.revisions[i].rev = i - 1
      BY <2>2
    <3>1. CASE i = Len(s) + 1
      BY <2>2, <2>4, <3>1
    <3>2. CASE i \in 1 .. Len(s)
      BY <2>2, <2>4, <3>2
    <3> QED
      BY <2>2, <3>1, <3>2
  <2> QED
    BY <2>2, <2>3, <2>4, <2>5 DEF RevisionChain
<1>2. CASE doc' = doc
  BY <1>2 DEF RevisionChain, IInv
<1> QED
  BY <1>1, <1>2
  DEF Next, RequestStep, Written, Load, NothingToSave, Compute, Conflict, Fail, Respond, Die,
      Tick, vars

\* A store outdates every other copy; the rest leave the copies or bring them
\* up to date.
LEMMA CopiesStep == IInv /\ [Next]_vars => CopiesFit'
<1> SUFFICES ASSUME IInv, [Next]_vars PROVE CopiesFit'
  OBVIOUS
<1> USE DEF IInv, CopiesFit, Working, Entry
<1>0. doc.rev \in Nat /\ base \in [Requests -> Nat]
  BY DEF TypeOK, Document
<1>1. ASSUME NEW r \in Requests, Load(r) PROVE CopiesFit'
  BY <1>0, <1>1 DEF Load, Step, TypeOK
<1>2. ASSUME NEW r \in Requests, NothingToSave(r) \/ Conflict(r) \/ Fail(r) \/ Respond(r) \/ Die(r)
      PROVE  CopiesFit'
  BY <1>0, <1>2 DEF NothingToSave, Conflict, Fail, Unsettled, Respond, Die, Step, TypeOK
<1>3. ASSUME NEW r \in Requests, Compute(r) PROVE CopiesFit'
  <2>1. PICK modified \in BOOLEAN :
          copy' = [copy EXCEPT
            ![r].revisions = Append(@, [author |-> r, rev |-> base[r]]),
            ![r].dateModified = IF modified THEN clock ELSE @]
    BY <1>3 DEF Compute
  <2>2. copy'[r].revisions = Append(copy[r].revisions, Entry(r))
    BY <2>1 DEF TypeOK, Document
  <2>3. \A q \in Requests \ {r} : copy'[q] = copy[q] /\ pc'[q] = pc[q]
    BY <1>3, <2>1 DEF Compute, Step, TypeOK
  <2>4. /\ pc[r] = "loaded" /\ pc'[r] = "computed"
        /\ UNCHANGED <<doc, base>>
    BY <1>3 DEF Compute, Step, TypeOK
  <2> QED
    BY <1>0, <2>2, <2>3, <2>4
<1>4. ASSUME NEW r \in Requests, Written(r) PROVE CopiesFit'
  <2>1. doc'.rev = doc.rev + 1 /\ base' = base
    BY <1>4, StoreAppends
  <2>2. \A q \in Requests : base[q] <= doc.rev /\ base[q] \in Nat
    BY <1>0
  <2>3. \A q \in Requests : base'[q] <= doc'.rev /\ base'[q] # doc'.rev
    BY <1>0, <2>1, <2>2
  <2> QED
    BY <2>3
<1>5. CASE Tick \/ UNCHANGED vars
  BY <1>0, <1>5 DEF Tick, vars
<1> QED
  BY <1>1, <1>2, <1>3, <1>4, <1>5 DEF Next, RequestStep, Written

\* Only a store leaves a trace, of the request that makes it.
LEMMA TracesStep == IInv /\ [Next]_vars => TracesFit'
<1> SUFFICES ASSUME IInv, [Next]_vars PROVE TracesFit'
  OBVIOUS
<1> USE DEF IInv, TracesFit
<1>0. doc.rev \in Nat /\ base \in [Requests -> Nat]
  BY DEF TypeOK, Document
<1>1. ASSUME NEW r \in Requests, Written(r) PROVE TracesFit'
  <2>1. Holds(r)' /\ \A q \in Requests \ {r} : Holds(q)' <=> Holds(q)
    BY <1>1, StoreTraces
  <2>2. /\ \/ pc'[r] = "stored" /\ unheard' = unheard
           \/ pc'[r] = "unanswered" /\ unheard' = unheard \cup {r}
        /\ \A q \in Requests \ {r} : pc'[q] = pc[q] /\ (q \in unheard' <=> q \in unheard)
        /\ r \notin unheard
    BY <1>1, StoreAppends DEF TypeOK
  <2>3. doc'.rev = doc.rev + 1 /\ base' = base
    BY <1>1, StoreAppends
  <2>4. ASSUME NEW q \in Requests, pc'[q] = "refused" PROVE base'[q] < doc'.rev
    BY <1>0, <2>2, <2>3, <2>4
  <2> QED
    BY <2>1, <2>2, <2>4
<1>2. CASE doc' = doc
  <2>1. \A q \in Requests : Holds(q)' <=> Holds(q)
    BY <1>2 DEF Holds
  <2>2. ASSUME NEW r \in Requests, Load(r) PROVE TracesFit'
    BY <1>2, <2>1, <2>2 DEF Load, Step, TypeOK
  <2>3. ASSUME NEW r \in Requests, Conflict(r) PROVE TracesFit'
    BY <1>0, <1>2, <2>1, <2>3 DEF Conflict, Unsettled, Accepted, CopiesFit, TypeOK
  <2>4. ASSUME NEW r \in Requests,
               NothingToSave(r) \/ Compute(r) \/ Fail(r) \/ Respond(r) \/ Die(r)
        PROVE  TracesFit'
    BY <1>2, <2>1, <2>4 DEF NothingToSave, Compute, Fail, Unsettled, Respond, Die, Step, TypeOK
  <2>5. CASE Tick \/ UNCHANGED vars
    BY <1>2, <2>1, <2>5 DEF Tick, vars
  <2>6. ASSUME NEW r \in Requests, Written(r) PROVE TracesFit'
    BY <1>1, <2>6
  <2> QED
    BY <2>2, <2>3, <2>4, <2>5, <2>6 DEF Next, RequestStep, Written
<1> QED
  BY <1>1, <1>2
  DEF Next, RequestStep, Written, Load, NothingToSave, Compute, Conflict, Fail, Respond, Die,
      Tick, vars

\* The time a request takes is not before that of the document it loaded.
LEMMA TimesStep == IInv /\ [Next]_vars => TimesFit'
<1> SUFFICES ASSUME IInv, [Next]_vars PROVE TimesFit'
  OBVIOUS
<1> USE DEF IInv, TimesFit, Working
<1>0. /\ doc.rev \in Nat /\ doc.dateModified \in Nat /\ clock \in Nat
      /\ base \in [Requests -> Nat]
      /\ \A r \in Requests : copy[r].dateModified \in Nat
  BY DEF TypeOK, Document
<1>1. ASSUME NEW r \in Requests, Load(r) PROVE TimesFit'
  BY <1>0, <1>1 DEF Load, Step, TypeOK
<1>2. ASSUME NEW r \in Requests, NothingToSave(r) \/ Conflict(r) \/ Fail(r) \/ Respond(r) \/ Die(r)
      PROVE  TimesFit'
  BY <1>0, <1>2 DEF NothingToSave, Conflict, Fail, Unsettled, Respond, Die, Step, TypeOK
<1>3. ASSUME NEW r \in Requests, Compute(r) PROVE TimesFit'
  <2>1. PICK modified \in BOOLEAN :
          copy' = [copy EXCEPT
            ![r].revisions = Append(@, [author |-> r, rev |-> base[r]]),
            ![r].dateModified = IF modified THEN clock ELSE @]
    BY <1>3 DEF Compute
  <2>2. copy'[r].dateModified \in {clock, copy[r].dateModified}
    BY <2>1 DEF TypeOK, Document
  <2>3. \A q \in Requests \ {r} : copy'[q] = copy[q] /\ pc'[q] = pc[q]
    BY <1>3, <2>1 DEF Compute, Step, TypeOK
  <2>4. pc[r] = "loaded" /\ UNCHANGED <<doc, base, clock>>
    BY <1>3 DEF Compute, Step
  <2> QED
    BY <1>0, <2>2, <2>3, <2>4
<1>4. ASSUME NEW r \in Requests, Written(r) PROVE TimesFit'
  <2>1. /\ doc'.rev = doc.rev + 1 /\ doc'.dateModified = copy[r].dateModified
        /\ UNCHANGED <<base, copy, clock>> /\ pc[r] = "computed"
        /\ \E to \in {"stored", "unanswered"} : pc' = [pc EXCEPT ![r] = to]
    BY <1>4, StoreAppends
  <2>2. \A q \in Requests : base[q] <= doc.rev /\ base[q] \in Nat
    BY DEF CopiesFit, TypeOK
  <2>3. \A q \in Requests : base'[q] # doc'.rev
    BY <1>0, <2>1, <2>2
  <2>4. pc'[r] \in {"stored", "unanswered"} /\ \A q \in Requests \ {r} : pc'[q] = pc[q]
    BY <2>1 DEF TypeOK
  <2> QED
    BY <1>0, <2>1, <2>3, <2>4
<1>5. CASE Tick \/ UNCHANGED vars
  BY <1>0, <1>5 DEF Tick, vars
<1> QED
  BY <1>1, <1>2, <1>3, <1>4, <1>5 DEF Next, RequestStep, Written

\* The inductive invariant holds of every reachable state.
THEOREM Invariant == Spec => []IInv
<1>1. IInv /\ [Next]_vars => IInv'
  BY TypeStep, ChainStep, CopiesStep, TracesStep, TimesStep DEF IInv
<1> QED
  BY InitInv, <1>1, PTL DEF Spec

-----------------------------------------------------------------------------
(* What follows.                                                           *)

\* The state of the requests and of the document is well typed.
THEOREM StoreTypeCorrect == Spec => []TypeOK
<1>1. IInv => TypeOK
  BY DEF IInv
<1> QED
  BY Invariant, <1>1, PTL

\* append_revision: the revisions of a document form an unbroken chain.
THEOREM ChainUnbroken == Spec => []RevisionChain
<1>1. IInv => RevisionChain
  BY DEF IInv
<1> QED
  BY Invariant, <1>1, PTL

\* No update that was answered with success is lost, and none that was refused
\* or failed gets into the document, but for those whose reply was lost.
THEOREM UpdatesKept == Spec => []NoLostUpdate
<1>1. IInv => NoLostUpdate
  BY DEF IInv, TracesFit, NoLostUpdate
<1> QED
  BY Invariant, <1>1, PTL

\* handle_store_exceptions: a request is refused with 409 only when another
\* one got its change in after it loaded the document, or it did so itself and
\* sent its store again because the reply was lost.
THEOREM ConflictsHaveWinners == Spec => []ConflictHasWinner
<1>1. IInv => ConflictHasWinner
  <2> SUFFICES ASSUME IInv, NEW r \in Requests, pc[r] = "refused"
               PROVE  \E i \in 1 .. Len(doc.revisions) :
                        /\ doc.revisions[i].rev >= base[r]
                        /\ doc.revisions[i].author # r \/ r \in unheard
    BY DEF ConflictHasWinner
  <2>1. (Holds(r) => r \in unheard) /\ base[r] < doc.rev /\ doc.rev = Len(doc.revisions)
    BY DEF IInv, TracesFit, RevisionChain
  <2>2. base[r] \in Nat /\ doc.rev \in Nat
    BY DEF IInv, TypeOK, Document
  <2>3. base[r] + 1 \in 1 .. Len(doc.revisions)
    BY <2>1, <2>2
  <2>4. doc.revisions[base[r] + 1].rev = base[r]
    BY <2>2, <2>3 DEF IInv, RevisionChain
  <2> QED
    BY <2>1, <2>2, <2>3, <2>4 DEF Holds
<1> QED
  BY Invariant, <1>1, PTL

\* save_tender: dateModified of a document never goes back.
THEOREM TimeForward == Spec => DateModifiedMonotone
<1>1. IInv /\ [Next]_vars => [doc'.dateModified >= doc.dateModified]_vars
  <2> SUFFICES ASSUME IInv, [Next]_vars PROVE doc'.dateModified >= doc.dateModified
    OBVIOUS
  <2>0. doc.dateModified \in Nat /\ \A r \in Requests : copy[r].dateModified \in Nat
    BY DEF IInv, TypeOK, Document
  <2>1. ASSUME NEW r \in Requests, Written(r) PROVE doc'.dateModified >= doc.dateModified
    BY <2>0, <2>1, StoreAppends DEF IInv, TimesFit, Working
  <2>2. CASE doc' = doc
    BY <2>0, <2>2
  <2> QED
    BY <2>1, <2>2
    DEF Next, RequestStep, Written, Load, NothingToSave, Compute, Conflict, Fail, Respond, Die,
      Tick, vars
<1> QED
  BY Invariant, <1>1, PTL DEF Spec, DateModifiedMonotone

-----------------------------------------------------------------------------
(* The refinement.                                                         *)

\* The authors of a longer chain are those of the chain and the new one.
LEMMA AuthorsAppend ==
  ASSUME NEW s \in Seq(Revision), NEW e \in Revision
  PROVE  /\ Authors(s) \in Seq(Requests)
         /\ Authors(Append(s, e)) = Append(Authors(s), e.author)
<1>1. Authors(s) \in Seq(Requests) /\ Len(Authors(s)) = Len(s)
  <2>1. Len(s) \in Nat /\ \A i \in 1 .. Len(s) : s[i].author \in Requests
    <3>1. \A i \in 1 .. Len(s) : s[i] \in Revision
      OBVIOUS
    <3> QED
      BY <3>1 DEF Revision
  <2>2. Authors(s) \in [1 .. Len(s) -> Requests]
    BY <2>1 DEF Authors
  <2> QED
    BY <2>1, <2>2
<1>2. e.author \in Requests
  BY DEF Revision
<1>3. Authors(Append(s, e)) = Append(Authors(s), e.author)
  <2>1. Len(Append(s, e)) = Len(s) + 1 /\ Len(s) \in Nat
    BY AppendedRevisions
  <2>2. \A i \in 1 .. Len(s) : Append(s, e)[i] = s[i]
    BY AppendedRevisions
  <2>3. Append(s, e)[Len(s) + 1] = e
    BY AppendedRevisions
  <2>4. Append(Authors(s), e.author)
          = [i \in 1 .. Len(s) + 1 |-> IF i = Len(s) + 1 THEN e.author ELSE Authors(s)[i]]
    BY <1>1, <1>2
  <2> QED
    BY <2>1, <2>2, <2>3, <2>4 DEF Authors
<1> QED
  BY <1>1, <1>3

\* A request has taken effect in the atomic document when it is in the chain.
LEMMA HoldsIsApplied ==
  ASSUME TypeOK, NEW r \in Requests
  PROVE  Atomic!IsApplied(r) <=> Holds(r)
<1>1. Len(Authors(doc.revisions)) = Len(doc.revisions)
  BY DEF Authors, TypeOK, Document
<1> QED
  BY <1>1 DEF Atomic!IsApplied, Holds, Authors

LEMMA InitRefines == Init => Atomic!AInit
<1> SUFFICES ASSUME Init PROVE Atomic!AInit
  OBVIOUS
<1>1. Authors(doc.revisions) = << >>
  BY DEF Init, Authors
<1>2. answerOf = [r \in Requests |-> "none"]
  BY DEF Init, answerOf, Answers
<1> QED
  BY <1>1, <1>2 DEF Atomic!AInit, Init

\* A store is where the change takes effect, a response is the answer, and
\* nothing else shows.
LEMMA StepRefines == IInv /\ [Next]_vars => [Atomic!ANext]_(Atomic!avars)
<1> SUFFICES ASSUME IInv, [Next]_vars
             PROVE  Atomic!ANext \/ UNCHANGED <<Authors(doc.revisions), unheard, answerOf>>
  BY DEF Atomic!avars
<1>1. ASSUME NEW r \in Requests, Written(r) PROVE Atomic!ANext
  <2>1. /\ pc[r] = "computed" /\ unheard' \in {unheard, unheard \cup {r}}
        /\ \E to \in {"stored", "unanswered"} : pc' = [pc EXCEPT ![r] = to]
    BY <1>1, StoreAppends
  <2>2. answerOf[r] = "none" /\ answerOf' = answerOf
    BY <2>1 DEF answerOf, Answers, IInv, TypeOK
  <2>3. ~ Atomic!IsApplied(r)
    BY <2>1, HoldsIsApplied DEF IInv, TracesFit
  <2>4. Authors(doc'.revisions) = Append(Authors(doc.revisions), r)
    <3>1. doc.revisions \in Seq(Revision) /\ [author |-> r, rev |-> doc.rev] \in Revision
      BY DEF IInv, TypeOK, Document, Revision
    <3> QED
      BY <1>1, <3>1, StoreAppends, AuthorsAppend
  <2>5. Atomic!Apply(r)
    BY <2>1, <2>2, <2>3, <2>4 DEF Atomic!Apply
  <2> QED
    BY <2>5 DEF Atomic!ANext
<1>2. ASSUME NEW r \in Requests, Respond(r) PROVE Atomic!ANext
  <2>1. PICK a \in Answers :
          /\ \/ a = "ok" /\ pc[r] = "stored"
             \/ a = "same" /\ pc[r] = "unchanged"
             \/ a = "conflict" /\ pc[r] = "refused"
             \/ a = "error" /\ pc[r] = "failed"
          /\ pc' = [pc EXCEPT ![r] = a]
          /\ doc' = doc /\ unheard' = unheard
    BY <1>2 DEF Respond, Step, Answers
  <2>2. answerOf[r] = "none" /\ answerOf' = [answerOf EXCEPT ![r] = a]
    BY <2>1 DEF answerOf, Answers, IInv, TypeOK
  <2>3. /\ (a = "ok") <=> (Atomic!IsApplied(r) /\ r \notin unheard)
        /\ a = "same" => ~ Atomic!IsApplied(r)
    BY <2>1, HoldsIsApplied DEF IInv, TracesFit
  <2>4. Atomic!Answer(r)
    BY <2>1, <2>2, <2>3 DEF Atomic!Answer, Answers
  <2> QED
    BY <2>4 DEF Atomic!ANext
<1>3. ASSUME NEW r \in Requests,
             Load(r) \/ NothingToSave(r) \/ Compute(r) \/ Conflict(r) \/ Fail(r) \/ Die(r)
      PROVE  UNCHANGED <<Authors(doc.revisions), unheard, answerOf>>
  <2>1. doc' = doc /\ unheard' = unheard
    BY <1>3 DEF Load, NothingToSave, Compute, Conflict, Fail, Die
  <2>2. /\ pc[r] \notin Answers
        /\ \E to \in {"loaded", "computed", "refused", "failed", "unchanged", "dead"} :
             pc' = [pc EXCEPT ![r] = to]
    BY <1>3
    DEF Load, NothingToSave, Compute, Conflict, Fail, Unsettled, Die, Step, Answers
  <2>3. answerOf' = answerOf
    BY <2>2 DEF answerOf, Answers, IInv, TypeOK
  <2> QED
    BY <2>1, <2>3
<1>4. CASE Tick \/ UNCHANGED vars
  BY <1>4 DEF Tick, vars, answerOf
<1> QED
  BY <1>1, <1>2, <1>3, <1>4 DEF Next, RequestStep, Written

\* The three steps of a view implement the atomic document: what a client sees
\* is that its change takes effect at one instant or not at all, and it is told
\* which unless the database's reply to the store was lost.
THEOREM ImplementsAtomicDocument == Spec => AtomicSpec
BY Invariant, InitRefines, StepRefines, PTL DEF Spec, AtomicSpec, Atomic!ASpec
-----------------------------------------------------------------------------
(***************************************************************************)
(* The historical API tells what was, for any number of requests.  The     *)
(* argument is carried on to the patches: the copy that can still be       *)
(* stored was made from the very body it replaces, so its patch undoes to  *)
(* that body, and it is dated after all before it.                         *)
(***************************************************************************)

Page == [body : Bodies, log : Seq(LogEntry)]

LogTyped ==
  /\ stored \in Page /\ draft \in [Requests -> Page] /\ bodies \in Seq(Bodies)
  /\ Stores >= 1 /\ log[1] = Creation

\* The entry a request adds when its copy can still be stored.
Fits(r, e) ==
  /\ draft[r].body \in Bodies /\ draft[r].log = Append(log, e)
  /\ Undo(draft[r].body, e) = stored.body
  /\ e.date <= clock /\ \A i \in 1 .. Stores : log[i].date <= e.date

DraftsFit ==
  \A r \in Requests : Working(r) /\ base[r] = doc.rev =>
    /\ pc[r] = "loaded" => draft[r] = stored
    /\ pc[r] = "computed" => \E e \in LogEntry : Fits(r, e)

\* The dates of the revisions go forward, although each is taken before the
\* store and requests overtake each other between the two.
DatesForward ==
  /\ \A i \in 1 .. Stores : log[i].date <= clock
  /\ \A i, j \in 1 .. Stores : i <= j => log[i].date <= log[j].date

HInv == IInv /\ LogTyped /\ VersionsReplay /\ DraftsFit /\ DatesForward

-----------------------------------------------------------------------------
(* Bodies and patches.                                                     *)

\* Undoing a patch brings back the body it was made from.
LEMMA UndoUndoes ==
  ASSUME NEW body \in Bodies, NEW parts \in SUBSET Parts, NEW r \in Requests,
         NEW e, e.changes = UndoOf(body, parts, r)
  PROVE  Changed(body, parts, r) \in Bodies /\ Undo(Changed(body, parts, r), e) = body
<1>1. DOMAIN e.changes = parts /\ \A p \in parts : e.changes[p] = body[p]
  BY DEF UndoOf
<1>2. Changed(body, parts, r) \in Bodies
  BY DEF Bodies, Writers, Changed
<1>3. Undo(Changed(body, parts, r), e) = [p \in Parts |-> body[p]]
  BY <1>1 DEF Undo, Changed
<1> QED
  BY <1>2, <1>3 DEF Bodies

LEMMA CreationTyped == Creation \in LogEntry /\ Made \in Bodies
<1>1. [p \in {"terms"} |-> "maker"] \in [{"terms"} -> Writers] /\ {"terms"} \in SUBSET Parts
  BY DEF Writers, Parts
<1> QED
  BY <1>1 DEF Creation, Made, LogEntry, Bodies, Writers

LEMMA HInitInv == HInit => HInv
<1> SUFFICES ASSUME HInit PROVE HInv
  OBVIOUS
<1>1. IInv /\ clock = 0
  BY InitInv DEF HInit, Init
<1>2. stored.body = Made /\ log = <<Creation>> /\ Stores = 1 /\ bodies = <<Made>>
  BY DEF HInit, log, Stores
<1>3. LogTyped
  <2>1. stored \in Page /\ draft \in [Requests -> Page]
    BY CreationTyped DEF HInit, Page
  <2> QED
    BY <1>2, <2>1, CreationTyped DEF LogTyped
<1>4. VersionsReplay
  BY <1>2 DEF VersionsReplay
<1>5. DraftsFit
  BY DEF HInit, Init, DraftsFit, Working
<1>6. DatesForward
  <2>1. \A i \in 1 .. Stores : i = 1 /\ log[i].date = 0
    BY <1>2 DEF Creation
  <2> QED
    BY <1>1, <2>1 DEF DatesForward
<1> QED
  BY <1>1, <1>3, <1>4, <1>5, <1>6 DEF HInv

\* A step of the history is a step of the document.
LEMMA HStepIsStep == [HNext]_hvars => [Next]_vars
BY DEF HNext, hvars, HOther, HLoad, HCompute, HStore, HEnd, Next, RequestStep, vars

LEMMA IInvStep == IInv /\ [Next]_vars => IInv'
BY TypeStep, ChainStep, CopiesStep, TracesStep, TimesStep DEF IInv

-----------------------------------------------------------------------------
(* The requests' copies.                                                   *)

\* A copy stays good while only others take steps that leave the document, and
\* no copy of another request is good after a store.
LEMMA DraftStays ==
  ASSUME HInv, NEW q \in Requests,
         stored' = stored, doc' = doc, clock <= clock', clock' \in Nat,
         base'[q] = base[q], draft'[q] = draft[q], pc'[q] = pc[q]
  PROVE  Working(q)' /\ base'[q] = doc'.rev =>
           /\ pc'[q] = "loaded" => draft'[q] = stored'
           /\ pc'[q] = "computed" => \E e \in LogEntry : Fits(q, e)'
<1> SUFFICES ASSUME Working(q), base[q] = doc.rev
             PROVE  /\ pc[q] = "loaded" => draft[q] = stored
                    /\ pc[q] = "computed" => \E e \in LogEntry : Fits(q, e)'
  BY DEF Working
<1>1. pc[q] = "loaded" => draft[q] = stored
  BY DEF HInv, DraftsFit
<1>2. ASSUME pc[q] = "computed" PROVE \E e \in LogEntry : Fits(q, e)'
  <2>1. PICK e \in LogEntry : Fits(q, e)
    BY <1>2 DEF HInv, DraftsFit
  <2>2. e.date \in Nat /\ clock \in Nat
    BY DEF LogEntry, HInv, IInv, TypeOK
  <2>3. Fits(q, e)'
    BY <2>1, <2>2 DEF Fits, log, Stores
  <2> QED
    BY <2>3
<1> QED
  BY <1>1, <1>2

\* What a request that computes its change adds to its copy.
LEMMA ComputedFits ==
  ASSUME HInv, NEW r \in Requests, HCompute(r)
  PROVE  /\ draft'[r] \in Page /\ \A q \in Requests \ {r} : draft'[q] = draft[q]
         /\ base[r] = doc.rev => \E e \in LogEntry : Fits(r, e)'
<1>1. PICK c \in Changes :
        draft' = [draft EXCEPT ![r] =
            [body |-> Changed(draft[r].body, c.parts, r),
             log  |-> Append(draft[r].log,
                        [author |-> c.author, date |-> clock,
                         changes |-> UndoOf(draft[r].body, c.parts, r)])]]
  BY DEF HCompute
<1>2. /\ draft \in [Requests -> Page] /\ draft[r] \in Page /\ draft[r].body \in Bodies
      /\ draft[r].log \in Seq(LogEntry) /\ clock \in Nat
      /\ c.parts \in SUBSET Parts /\ c.author \in {"broker", "chronograph"}
  BY DEF HInv, LogTyped, Page, IInv, TypeOK, Changes, Parts
<1>3. PICK old, after, patch, e :
        /\ old \in Bodies /\ old = draft[r].body
        /\ after = Changed(old, c.parts, r)
        /\ patch = UndoOf(old, c.parts, r)
        /\ e = [author |-> c.author, date |-> clock, changes |-> patch]
  BY <1>2
<1>4. /\ draft'[r] = [body |-> after, log |-> Append(draft[r].log, e)]
      /\ \A q \in Requests \ {r} : draft'[q] = draft[q]
  BY <1>1, <1>2, <1>3
<1>5. e \in LogEntry /\ e.date = clock /\ e.changes = UndoOf(old, c.parts, r)
  <2>1. patch \in [c.parts -> Writers]
    BY <1>2, <1>3 DEF UndoOf, Bodies
  <2> QED
    BY <1>2, <1>3, <2>1 DEF LogEntry
<1>6. after \in Bodies /\ Undo(after, e) = draft[r].body
  <2>1. c.parts \in SUBSET Parts /\ old \in Bodies /\ old = draft[r].body
        /\ after = Changed(old, c.parts, r)
    BY <1>2, <1>3
  <2>2. e.changes = UndoOf(old, c.parts, r)
    BY <1>5
  <2>3. after \in Bodies /\ Undo(after, e) = old
    BY <2>1, <2>2, UndoUndoes
  <2> QED
    BY <2>1, <2>3
<1>7. draft'[r] \in Page
  BY <1>2, <1>4, <1>5, <1>6 DEF Page
<1>8. ASSUME base[r] = doc.rev PROVE Fits(r, e)'
  <2>1. pc[r] = "loaded" /\ clock' = clock /\ stored' = stored
    BY DEF HCompute, Compute, Step
  <2>2. draft[r] = stored
    BY <1>8, <2>1 DEF HInv, DraftsFit, Working
  <2>3. \A i \in 1 .. Stores : log[i].date <= clock
    BY DEF HInv, DatesForward
  <2>4. /\ draft'[r].body = after /\ draft'[r].log = Append(stored'.log, e)
        /\ Undo(draft'[r].body, e) = stored'.body
    BY <1>4, <1>6, <2>1, <2>2
  <2>5. e.date <= clock' /\ \A i \in 1 .. Len(stored'.log) : stored'.log[i].date <= e.date
    BY <1>2, <1>5, <2>1, <2>3 DEF log, Stores
  <2> QED
    BY <1>6, <2>4, <2>5 DEF Fits, log, Stores
<1> QED
  BY <1>4, <1>5, <1>7, <1>8

\* What a store does to the history.
LEMMA HStoreAppends ==
  ASSUME HInv, NEW r \in Requests, HStore(r)
  PROVE  \E e \in LogEntry :
           /\ log' = Append(log, e) /\ stored' = draft[r] /\ draft[r] \in Page
           /\ bodies' = Append(bodies, draft[r].body)
           /\ draft[r].body \in Bodies /\ Undo(draft[r].body, e) = stored.body
           /\ e.date <= clock /\ \A i \in 1 .. Stores : log[i].date <= e.date
           /\ clock' = clock
<1>1. /\ pc[r] = "computed" /\ base[r] = doc.rev /\ clock' = clock
      /\ stored' = draft[r] /\ bodies' = Append(bodies, draft[r].body)
  BY StoreAppends DEF HStore, Written, HInv
<1>2. PICK e \in LogEntry : Fits(r, e)
  BY <1>1 DEF HInv, DraftsFit, Working
<1>3. draft[r] \in Page
  BY DEF HInv, LogTyped
<1> QED
  BY <1>1, <1>2, <1>3 DEF Fits, log, Stores

LEMMA DraftsStep == HInv /\ [HNext]_hvars => DraftsFit'
<1> SUFFICES ASSUME HInv, [HNext]_hvars, NEW q \in Requests,
                    Working(q)', base'[q] = doc'.rev
             PROVE  /\ pc'[q] = "loaded" => draft'[q] = stored'
                    /\ pc'[q] = "computed" => \E e \in LogEntry : Fits(q, e)'
  BY DEF DraftsFit
<1>0. /\ doc.rev \in Nat /\ base \in [Requests -> Nat] /\ clock \in Nat
      /\ pc \in [Requests -> Steps] /\ draft \in [Requests -> Page]
      /\ \A r \in Requests : base[r] <= doc.rev
  BY DEF HInv, IInv, TypeOK, Document, CopiesFit, LogTyped
<1>1. ASSUME NEW r \in Requests, HLoad(r), r # q
      PROVE  /\ pc'[q] = "loaded" => draft'[q] = stored'
             /\ pc'[q] = "computed" => \E e \in LogEntry : Fits(q, e)'
  BY <1>0, <1>1, DraftStays DEF HLoad, Load, Step
<1>2. ASSUME HLoad(q)
      PROVE  pc'[q] = "loaded" /\ draft'[q] = stored'
  BY <1>0, <1>2 DEF HLoad, Load, Step
<1>3. ASSUME NEW r \in Requests, HCompute(r), r # q
      PROVE  /\ pc'[q] = "loaded" => draft'[q] = stored'
             /\ pc'[q] = "computed" => \E e \in LogEntry : Fits(q, e)'
  BY <1>0, <1>3, DraftStays, ComputedFits DEF HCompute, Compute, Step
<1>4. ASSUME HCompute(q)
      PROVE  pc'[q] = "computed" /\ \E e \in LogEntry : Fits(q, e)'
  <2>1. pc'[q] = "computed" /\ base'[q] = base[q] /\ doc' = doc
    BY <1>0, <1>4 DEF HCompute, Compute, Step
  <2> QED
    BY <1>4, <2>1, ComputedFits
<1>5. ASSUME NEW r \in Requests, HStore(r) PROVE FALSE
  <2>1. doc'.rev = doc.rev + 1 /\ base' = base
    BY <1>5, StoreAppends DEF HStore, Written, HInv
  <2>2. base'[q] <= doc.rev
    BY <1>0, <2>1
  <2> QED
    BY <1>0, <2>1, <2>2
<1>6. ASSUME NEW r \in Requests, HEnd(r)
      PROVE  /\ pc'[q] = "loaded" => draft'[q] = stored'
             /\ pc'[q] = "computed" => \E e \in LogEntry : Fits(q, e)'
  <2>1. q # r
    BY <1>0, <1>6 DEF HEnd, NothingToSave, Conflict, Fail, Die, Step, Working
  <2> QED
    BY <1>0, <1>6, <2>1, DraftStays DEF HEnd, Forget, NothingToSave, Conflict, Fail, Die, Step
<1>7. ASSUME NEW r \in Requests, Respond(r), UNCHANGED <<stored, draft, bodies>>
      PROVE  /\ pc'[q] = "loaded" => draft'[q] = stored'
             /\ pc'[q] = "computed" => \E e \in LogEntry : Fits(q, e)'
  <2>1. q # r
    BY <1>0, <1>7 DEF Respond, Step, Working
  <2> QED
    BY <1>0, <1>7, <2>1, DraftStays DEF Respond, Step
<1>8. CASE Tick /\ UNCHANGED <<stored, draft, bodies>>
  BY <1>0, <1>8, DraftStays DEF Tick
<1>9. CASE UNCHANGED hvars
  BY <1>0, <1>9, DraftStays DEF hvars, vars
<1> QED
  BY <1>1, <1>2, <1>3, <1>4, <1>5, <1>6, <1>7, <1>8, <1>9 DEF HNext, HOther

-----------------------------------------------------------------------------
(* The log.                                                                *)

LEMMA LogStep == HInv /\ [HNext]_hvars => LogTyped' /\ VersionsReplay' /\ DatesForward'
<1> SUFFICES ASSUME HInv, [HNext]_hvars
             PROVE  LogTyped' /\ VersionsReplay' /\ DatesForward'
  OBVIOUS
<1>0. /\ stored \in Page /\ draft \in [Requests -> Page] /\ bodies \in Seq(Bodies)
      /\ log \in Seq(LogEntry) /\ Stores \in Nat /\ Stores >= 1 /\ log[1] = Creation
      /\ clock \in Nat /\ Len(bodies) = Stores /\ stored.body = bodies[Stores]
      /\ Stores = Len(log) /\ \A i \in 1 .. Stores : log[i] \in LogEntry
  BY DEF HInv, LogTyped, VersionsReplay, Page, log, Stores, IInv, TypeOK
<1>1. ASSUME NEW r \in Requests, HStore(r)
      PROVE  LogTyped' /\ VersionsReplay' /\ DatesForward'
  <2>1. PICK e \in LogEntry :
           /\ log' = Append(log, e) /\ stored' = draft[r] /\ draft[r] \in Page
           /\ bodies' = Append(bodies, draft[r].body)
           /\ draft[r].body \in Bodies /\ Undo(draft[r].body, e) = stored.body
           /\ e.date <= clock /\ \A i \in 1 .. Stores : log[i].date <= e.date
           /\ clock' = clock
    BY <1>1, HStoreAppends
  <2>2. /\ Stores' = Stores + 1 /\ Len(bodies') = Stores + 1
        /\ \A i \in 1 .. Stores : log'[i] = log[i] /\ bodies'[i] = bodies[i]
        /\ log'[Stores + 1] = e /\ bodies'[Stores + 1] = draft[r].body
    BY <1>0, <2>1 DEF Stores
  <2>3. LogTyped'
    <3>1. draft' \in [Requests -> Page]
      BY <1>0, <1>1, CreationTyped DEF HStore, Forget, Page
    <3>2. bodies' \in Seq(Bodies) /\ stored' \in Page
      BY <1>0, <2>1
    <3> QED
      BY <1>0, <2>2, <3>1, <3>2 DEF LogTyped
  <2>4. VersionsReplay'
    <3>1. ASSUME NEW v \in 1 .. Stores PROVE Undo(bodies'[v + 1], log'[v + 1]) = bodies'[v]
      <4>1. CASE v = Stores
        BY <1>0, <2>1, <2>2, <4>1
      <4>2. CASE v \in 1 .. Stores - 1
        <5>1. bodies'[v + 1] = bodies[v + 1] /\ log'[v + 1] = log[v + 1] /\ bodies'[v] = bodies[v]
          BY <1>0, <2>2, <4>2
        <5> QED
          BY <4>2, <5>1 DEF HInv, VersionsReplay
      <4> QED
        BY <1>0, <4>1, <4>2
    <3>2. stored'.body = bodies'[Stores']
      BY <2>1, <2>2
    <3>3. 1 .. Stores' - 1 = 1 .. Stores
      BY <1>0, <2>2
    <3> QED
      BY <2>2, <3>1, <3>2, <3>3 DEF VersionsReplay
  <2>5. DatesForward'
    <3>1. \A i \in 1 .. Stores' : i \in 1 .. Stores \/ i = Stores + 1
      BY <1>0, <2>2
    <3>2. \A i \in 1 .. Stores' : log'[i].date <= clock'
      BY <2>1, <2>2, <3>1 DEF HInv, DatesForward
    <3>3. ASSUME NEW i \in 1 .. Stores', NEW j \in 1 .. Stores', i <= j
          PROVE  log'[i].date <= log'[j].date
      <4>1. CASE j \in 1 .. Stores
        <5>1. i \in 1 .. Stores
          BY <1>0, <3>3, <4>1
        <5> QED
          BY <2>2, <3>3, <4>1, <5>1 DEF HInv, DatesForward
      <4>2. CASE j = Stores + 1
        <5>1. e.date \in Nat /\ log'[j] = e
          BY <2>2, <4>2 DEF LogEntry
        <5>2. CASE i \in 1 .. Stores
          BY <2>1, <2>2, <5>1, <5>2
        <5>3. CASE i = Stores + 1
          BY <2>2, <5>1, <5>3
        <5> QED
          BY <3>1, <5>2, <5>3
      <4> QED
        BY <3>1, <4>1, <4>2
    <3> QED
      BY <3>2, <3>3 DEF DatesForward
  <2> QED
    BY <2>3, <2>4, <2>5
<1>2. ASSUME stored' = stored, bodies' = bodies, clock <= clock', clock' \in Nat,
             draft' \in [Requests -> Page]
      PROVE  LogTyped' /\ VersionsReplay' /\ DatesForward'
  <2>1. log' = log /\ Stores' = Stores
    BY <1>2 DEF log, Stores
  <2>2. LogTyped' /\ VersionsReplay'
    BY <1>0, <1>2, <2>1 DEF LogTyped, VersionsReplay, HInv
  <2>3. \A i \in 1 .. Stores : log[i].date <= clock'
    <3>1. \A i \in 1 .. Stores : log[i].date \in Nat /\ log[i].date <= clock
      BY <1>0 DEF HInv, DatesForward, LogEntry
    <3> QED
      BY <1>0, <1>2, <3>1
  <2> QED
    BY <2>1, <2>2, <2>3 DEF DatesForward, HInv
<1>3. ASSUME NEW r \in Requests, HLoad(r)
      PROVE  /\ stored' = stored /\ bodies' = bodies /\ clock' = clock
             /\ draft' \in [Requests -> Page]
  BY <1>0, <1>3 DEF HLoad, Load
<1>4. ASSUME NEW r \in Requests, HCompute(r)
      PROVE  /\ stored' = stored /\ bodies' = bodies /\ clock' = clock
             /\ draft' \in [Requests -> Page]
  <2>1. stored' = stored /\ bodies' = bodies /\ clock' = clock
    BY <1>4 DEF HCompute, Compute
  <2>2. PICK d : draft' = [draft EXCEPT ![r] = d]
    BY <1>4 DEF HCompute
  <2>3. draft'[r] \in Page
    BY <1>4, ComputedFits
  <2> QED
    BY <1>0, <2>1, <2>2, <2>3
<1>5. ASSUME NEW r \in Requests, HEnd(r)
      PROVE  /\ stored' = stored /\ bodies' = bodies /\ clock' = clock
             /\ draft' \in [Requests -> Page]
  BY <1>0, <1>5, CreationTyped DEF HEnd, Forget, Page, NothingToSave, Conflict, Fail, Die
<1>6. CASE HOther
  <2>1. clock <= clock' /\ clock' \in Nat
    BY <1>0, <1>6 DEF HOther, Tick, Respond
  <2> QED
    BY <1>0, <1>2, <1>6, <2>1 DEF HOther
<1>7. CASE UNCHANGED hvars
  BY <1>0, <1>2, <1>7 DEF hvars, vars
<1> QED
  BY <1>0, <1>1, <1>2, <1>3, <1>4, <1>5, <1>6, <1>7 DEF HNext

-----------------------------------------------------------------------------
(* Times.                                                                  *)

\* A set of numbers up to n has a greatest.
LEMMA HasGreatest ==
  ASSUME NEW n \in Nat, NEW S \in SUBSET (1 .. n), S # {}
  PROVE  \E x \in S : \A y \in S : y <= x
<1> DEFINE T == {n - x : x \in S}
<1>0. \A x \in S : x \in Nat /\ x <= n /\ n - x \in Nat
  OBVIOUS
<1>1. T \subseteq Nat /\ T # {}
  <2>1. PICK x \in S : TRUE
    OBVIOUS
  <2>2. n - x \in T
    OBVIOUS
  <2>3. \A t \in T : t \in Nat
    BY <1>0
  <2> QED
    BY <2>2, <2>3
<1>2. PICK t \in T : \A u \in T : ~ (<<u, t>> \in OpToRel(<, Nat))
  <2> HIDE DEF T
  <2> QED
    BY <1>1, NatLessThanWellFounded, WFMin
<1>3. \A u \in T : ~ (u < t)
  <2>1. \A u \in T : u \in Nat /\ <<u, t>> \in Nat \X Nat
    BY <1>1
  <2> QED
    BY <1>2, <2>1 DEF OpToRel
<1>4. PICK x \in S : t = n - x
  OBVIOUS
<1>5. ASSUME NEW y \in S PROVE y <= x
  <2>1. n - y \in T
    OBVIOUS
  <2>2. ~ (n - y < n - x)
    BY <1>3, <1>4, <2>1
  <2> QED
    BY <1>0, <2>2
<1> QED
  BY <1>5

\* find_dateModified finds the date of the last change that counts.
LEMMA FindsLast ==
  ASSUME HInv, NEW n \in 1 .. Stores
  PROVE  \E k \in 1 .. n :
           /\ FindDateModified(n) = log[k].date /\ Counts(log[k])
           /\ \A m \in k + 1 .. n : ~ Counts(log[m])
<1> DEFINE S == {k \in 1 .. n : Counts(log[k])}
<1>1. 1 \in S
  BY DEF HInv, LogTyped, Creation, Counts
<1>2. n \in Nat /\ S \in SUBSET (1 .. n)
  BY DEF HInv, LogTyped
<1>3. PICK k \in S : \A m \in S : m <= k
  BY <1>1, <1>2, HasGreatest
<1>4. Counts(log[k]) /\ \A m \in k + 1 .. n : ~ Counts(log[m])
  BY <1>2, <1>3
<1> QED
  BY <1>3, <1>4 DEF FindDateModified

LEMMA DatesSound == HInv => DatesAnswered
<1> SUFFICES ASSUME HInv, NEW d \in 0 .. clock, ~ DateRefused(d)
             PROVE  /\ VersionByDate(d) \in 1 .. Stores - 1
                    /\ \A i \in 1 .. Stores - 1 :
                         Counts(log[i]) => (i <= VersionByDate(d) <=> log[i].date <= d)
  BY DEF DatesAnswered
<1>0. /\ Stores \in Nat /\ Stores >= 2 /\ d \in Nat
      /\ \A i \in 1 .. Stores : log[i].date \in Nat
      /\ \A i, j \in 1 .. Stores : i <= j => log[i].date <= log[j].date
  <2>1. log \in Seq(LogEntry) /\ Stores = Len(log) /\ clock \in Nat
    BY DEF HInv, LogTyped, Page, log, Stores, IInv, TypeOK
  <2>2. \A i \in 1 .. Stores : log[i] \in LogEntry
    BY <2>1
  <2> QED
    BY <2>1, <2>2 DEF LogEntry, HInv, DatesForward, DateRefused
<1> DEFINE S == {v \in 1 .. Stores - 1 : FindDateModified(v) <= d}
<1>1. 1 \in S
  <2>1. PICK k \in 1 .. 1 : FindDateModified(1) = log[k].date
    BY <1>0, FindsLast
  <2>2. log[1].date = 0
    BY DEF HInv, LogTyped, Creation
  <2> QED
    BY <1>0, <2>1, <2>2
<1>2. PICK v \in S : \A w \in S : w <= v
  <2>1. Stores - 1 \in Nat /\ S \in SUBSET (1 .. Stores - 1) /\ S # {}
    BY <1>0, <1>1
  <2> HIDE DEF S
  <2> QED
    BY <2>1, HasGreatest
<1>3. \E x \in 1 .. Stores - 1 :
        /\ FindDateModified(x) <= d
        /\ \A w \in x + 1 .. Stores - 1 : FindDateModified(w) > d
  <2>1. ASSUME NEW w \in v + 1 .. Stores - 1 PROVE FindDateModified(w) > d
    <3>1. w \notin S /\ w \in 1 .. Stores - 1
      BY <1>0, <1>2
    <3>2. FindDateModified(w) \in Nat
      BY <1>0, <3>1, FindsLast
    <3> QED
      BY <1>0, <3>1, <3>2
  <2> QED
    BY <1>2, <2>1
<1>4. PICK x \in 1 .. Stores - 1 :
        /\ x = VersionByDate(d)
        /\ FindDateModified(x) <= d
        /\ \A w \in x + 1 .. Stores - 1 : FindDateModified(w) > d
  BY <1>3 DEF VersionByDate
<1>5. ASSUME NEW i \in 1 .. Stores - 1, Counts(log[i]), i <= x PROVE log[i].date <= d
  <2>1. PICK k \in 1 .. x :
           /\ FindDateModified(x) = log[k].date
           /\ \A m \in k + 1 .. x : ~ Counts(log[m])
    BY <1>0, FindsLast
  <2>2. i <= k /\ k \in 1 .. Stores /\ i \in 1 .. Stores
    BY <1>0, <1>5, <2>1
  <2>3. log[i].date <= log[k].date /\ log[k].date <= d
    BY <1>0, <1>4, <2>1, <2>2
  <2> QED
    BY <1>0, <2>2, <2>3
<1>6. ASSUME NEW i \in 1 .. Stores - 1, Counts(log[i]), ~ (i <= x) PROVE ~ (log[i].date <= d)
  <2>1. i \in x + 1 .. Stores - 1 /\ i \in 1 .. Stores /\ i \in 1 .. i
    BY <1>0, <1>6
  <2>2. PICK k \in 1 .. i :
           /\ FindDateModified(i) = log[k].date
           /\ \A m \in k + 1 .. i : ~ Counts(log[m])
    BY <2>1, FindsLast
  <2>3. k = i
    BY <1>6, <2>1, <2>2
  <2> QED
    BY <1>0, <1>4, <2>1, <2>2, <2>3
<1> QED
  BY <1>4, <1>5, <1>6

-----------------------------------------------------------------------------
(* The theorems.                                                           *)

\* Looking at the history changes nothing: the requests of Historical are those
\* of DocumentStore, so what is proved of these holds of those.
THEOREM HistoryIsDocument == HSpec => Spec
<1>1. HInit => Init
  BY DEF HInit
<1> QED
  BY <1>1, HStepIsStep, PTL DEF HSpec, Spec

\* The historical API answers with what was (VersionsReplay, DatesAnswered), for
\* any number of requests and any length of the document's life.
THEOREM HistoryIsSound == HSpec => []HistorySound
<1>1. HInv /\ [HNext]_hvars => HInv'
  <2>1. HInv /\ [HNext]_hvars => IInv'
    BY HStepIsStep, IInvStep DEF HInv
  <2> QED
    BY <2>1, DraftsStep, LogStep DEF HInv
<1>2. HInv => HistorySound
  BY DatesSound DEF HInv, HistorySound
<1> QED
  BY HInitInv, <1>1, <1>2, PTL DEF HSpec
================================================================================
