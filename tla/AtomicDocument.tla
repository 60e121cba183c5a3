--------------------------- MODULE AtomicDocument ---------------------------
(***************************************************************************)
(* What a client may assume of a stored document (a tender, a plan, a      *)
(* contract, an agreement): every request to change it either takes        *)
(* effect, at one instant, before it is answered and on top of everything  *)
(* that took effect before it, or does not take effect at all.  The answer *)
(* tells which, unless the database's reply to the request was lost: then  *)
(* the change is in the document, and the client is told of a conflict or  *)
(* an error.  A request whose worker dies may have gone either way.        *)
(***************************************************************************)
EXTENDS Naturals, Sequences, FiniteSets

CONSTANT Requests

VARIABLES
  applied,  \* the requests whose change the document holds, oldest first
  unheard,  \* the requests whose change took effect and whose worker was not told
  answer    \* what each request was told, "none" while it was told nothing

avars == <<applied, unheard, answer>>

IsApplied(r) == \E i \in 1 .. Len(applied) : applied[i] = r

AInit ==
  /\ applied = << >>
  /\ unheard = {}
  /\ answer = [r \in Requests |-> "none"]

\* The change takes effect, once, after every change that took effect before;
\* the worker may not come to know.
Apply(r) ==
  /\ answer[r] = "none"
  /\ ~ IsApplied(r)
  /\ applied' = Append(applied, r)
  /\ unheard' \in {unheard, unheard \cup {r}}
  /\ UNCHANGED answer

\* "ok" is said of every change that took effect and of no other, but for those
\* the worker was not told of.  Of a request without a change ("same") nothing
\* took effect, and nothing will of one that was answered at all.
Answer(r) ==
  /\ answer[r] = "none"
  /\ \E a \in {"ok", "same", "conflict", "error"} :
       /\ (a = "ok") <=> (IsApplied(r) /\ r \notin unheard)
       /\ a = "same" => ~ IsApplied(r)
       /\ answer' = [answer EXCEPT ![r] = a]
  /\ UNCHANGED <<applied, unheard>>

ANext == \E r \in Requests : Apply(r) \/ Answer(r)

ASpec == AInit /\ [][ANext]_avars
=============================================================================
