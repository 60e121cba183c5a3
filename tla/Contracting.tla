---------------------------- MODULE Contracting ----------------------------
(***************************************************************************)
(* A contract after the tender (openprocurement.contracting.api): its      *)
(* value, what was paid, the changes agreed on, and its end.  A bridge     *)
(* (g:contracting) registers it; NoContract until then.                    *)
(*                                                                         *)
(* Dates are small numbers, all of them past: a date in the future is      *)
(* refused.  NotSet stands for a field without a value.                    *)
(***************************************************************************)
EXTENDS Integers, Sequences

CONSTANTS
  NoContract, NotSet,
  Amounts, Dates,   \* sets of numbers
  MaxChanges        \* bound on the changes of a contract

VARIABLE contract

Changes == DOMAIN contract.changes
Registered == contract # NoContract
Store(c) == contract' = c

\* validate_update_contracting_paid_amount: a value of zero bounds nothing.
Affordable(c) ==
  c.paid # NotSet /\ c.value # NotSet /\ c.value # 0 => c.paid <= c.value

\* The bridge posts what it found in a tender, with the award it is about.
Register(award, value, signed) ==
  /\ ~ Registered
  /\ Store([award |-> award, status |-> "active", value |-> value, paid |-> NotSet,
            signed |-> signed, changes |-> <<>>, documents |-> {}])

\* Contract.import_data: a field is not changed to its default, so that null
\* does not take a payment back.
Kept(paid) == paid = NotSet => contract.paid = NotSet

\* The owner changes the value and what was paid, both at once or one of them.
EditAmounts(value, paid) ==
  /\ Registered /\ contract.status = "active" /\ Kept(paid)
  /\ Affordable([contract EXCEPT !.value = value, !.paid = paid])
  /\ Store([contract EXCEPT !.value = value, !.paid = paid])

\* The request that ends it may say what was paid.
Terminate(paid) ==
  /\ Registered /\ contract.status = "active"
  /\ paid # NotSet /\ Affordable([contract EXCEPT !.paid = paid])
  /\ Store([contract EXCEPT !.status = "terminated", !.paid = paid])

\* The Administrator may set the status of any contract; "active", which is the
\* default, is dropped by import_data.
SetStatus(status) ==
  LET imported == IF status = "active" THEN contract.status ELSE status IN
  /\ Registered
  /\ imported = "terminated" => contract.paid # NotSet
  /\ Store([contract EXCEPT !.status = imported])

-----------------------------------------------------------------------------
(* Changes: one at a time, signed in the order they were made.             *)

\* What change i must not be signed before.
Predecessor(i) == IF i = 1 THEN contract.signed ELSE contract.changes[i - 1].signed

InOrder(i, signed) == signed # NotSet /\ Predecessor(i) # NotSet => signed >= Predecessor(i)

PostChange(signed) ==
  LET i == Len(contract.changes) + 1 IN
  /\ Registered /\ contract.status = "active"
  /\ i <= MaxChanges
  /\ i > 1 => contract.changes[i - 1].status # "pending"
  /\ InOrder(i, signed)
  /\ Store([contract EXCEPT !.changes = Append(@, [status |-> "pending", signed |-> signed])])

\* Faulty: the order is looked at when the change is made and not afterwards.
PatchChangeAnyDate(i, status, signed) ==
  LET change == contract.changes[i] IN
  /\ Registered /\ change.status = "pending"
  /\ status = "active" => signed # NotSet
  /\ Store([contract EXCEPT !.changes[i] = [status |-> status, signed |-> signed]])

\* Nobody asks for the status of the contract: a change that was pending when
\* the contract ended may still become active.
PatchChange(i, status, signed) ==
  LET change == contract.changes[i] IN
  /\ Registered /\ change.status = "pending"
  /\ status = "active" => signed # NotSet
  /\ InOrder(i, signed)
  /\ Store([contract EXCEPT !.changes[i] = [status |-> status, signed |-> signed]])

-----------------------------------------------------------------------------
(* Documents, of the contract (0) or of a change.                          *)

\* A new document may be about any change.
PostDocument(of) ==
  /\ Registered /\ contract.status = "active"
  /\ Store([contract EXCEPT !.documents = @ \cup {of}])

\* An old one is moved only to a change that is still pending.
MoveDocument(from, of) ==
  /\ Registered /\ contract.status = "active" /\ from \in contract.documents
  /\ of # 0 => contract.changes[of].status = "pending"
  /\ Store([contract EXCEPT !.documents = (@ \ {from}) \cup {of}])

Next ==
  \/ \E paid \in Amounts \cup {NotSet} :
       Terminate(paid) \/ \E value \in Amounts : EditAmounts(value, paid)
  \/ \E status \in {"active", "terminated"} : SetStatus(status)
  \/ \E signed \in Dates \cup {NotSet} :
       \/ PostChange(signed)
       \/ Registered /\ \E i \in Changes, status \in {"pending", "active"} :
                          PatchChange(i, status, signed)
  \/ Registered /\ \E of \in Changes \cup {0} :
       PostDocument(of) \/ \E from \in contract.documents : MoveDocument(from, of)

-----------------------------------------------------------------------------
TypeOK ==
  Registered =>
    /\ contract.status \in {"active", "terminated"}
    /\ contract.value \in Amounts /\ contract.paid \in Amounts \cup {NotSet}
    /\ contract.changes \in Seq([status : {"pending", "active"}, signed : Dates \cup {NotSet}])

\* Only the last change of a contract is undecided, an active one is signed, and
\* the dates of signature, where there are any, follow the order of the changes.
ChangesInOrder ==
  Registered =>
    /\ \A i \in Changes :
         /\ contract.changes[i].status = "pending" => i = Len(contract.changes)
         /\ contract.changes[i].status = "active" => contract.changes[i].signed # NotSet
    /\ \A i, j \in Changes :
         i < j /\ contract.changes[j].signed # NotSet =>
           contract.changes[i].signed <= contract.changes[j].signed
    /\ \A i \in Changes :
         contract.changes[i].signed # NotSet => contract.signed <= contract.changes[i].signed

\* What was paid is within the value, whichever of the two was changed last;
\* only a value of zero bounds nothing.
PaidWithinValue == Registered => Affordable(contract)

\* A contract ends paid for, and for good: its status and its amounts stay.
EndedForGood ==
  [][Registered /\ contract.status = "terminated" =>
       /\ contract'.status = "terminated" /\ contract'.paid # NotSet
       /\ contract'.paid = contract.paid /\ contract'.value = contract.value]_contract
=============================================================================
