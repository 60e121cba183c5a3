------------------------------ MODULE Ownership ------------------------------
(***************************************************************************)
(* Relocation: a broker who holds a Transfer takes over an object (tender, *)
(* plan, contract or agreement) whose transfer token its customer gave it. *)
(* POST /<objects>/{id}/ownership loads the object and the Transfer, then  *)
(* saves two documents one after the other: the Transfer, marked as used   *)
(* for the object, and the object, with the owner and the tokens of the    *)
(* Transfer.  The four views differ in the document type only.             *)
(*                                                                         *)
(* A stored document moves only by a store that carries its current        *)
(* revision (DocumentStore); loads and stores of one request interleave    *)
(* with those of any other, and a worker can die between any two.          *)
(***************************************************************************)
EXTENDS Naturals, FiniteSets

CONSTANTS
  Objects, Transfers, Requests,
  None,      \* no object: a Transfer that was not used
  MaxEdits   \* bound on the edits of one object by its owner

ASSUME NamesAssumption == Objects \cap Transfers = {} /\ None \notin Objects
ASSUME EditsAssumption == MaxEdits \in Nat

\* owner, owner_token and transfer_token always change together, to those of
\* one Transfer; an object that was never relocated has its own (set_ownership).
Credentials == Objects \cup Transfers

VARIABLES
  object,     \* the stored objects
  transfer,   \* the stored Transfers, rev 0 before they are created
  request,    \* what each request asks for
  stage, objectCopy, transferRev,  \* the requests' progress and loaded copies
  edits,      \* edits of each object so far
  installed   \* history: the pairs <<t, o>> such that o was ever given to t

ownershipVars ==
  <<object, transfer, request, stage, objectCopy, transferRev, edits, installed>>

Object == [rev : Nat, holder : Credentials, movable : BOOLEAN]
Transfer == [rev : Nat, usedFor : Objects \cup {None}]
Ask == [object : Objects, transfer : Transfers, token : Credentials]
Ends == {"denied", "conflict", "objectConflict", "unchanged", "ok", "dead"}

OwnershipInit ==
  /\ object \in [Objects -> [rev : {0}, holder : Objects, movable : BOOLEAN]]
  /\ \A o \in Objects : object[o].holder = o
  /\ transfer = [t \in Transfers |-> [rev |-> 0, usedFor |-> None]]
  /\ request \in [Requests -> Ask]
  /\ stage = [r \in Requests |-> "received"]
  /\ objectCopy = [r \in Requests |-> object[request[r].object]]
  /\ transferRev = [r \in Requests |-> 0]
  /\ edits = [o \in Objects |-> 0]
  /\ installed = {}

O(r) == request[r].object
T(r) == request[r].transfer

Step(r, from, to) ==
  /\ stage[r] = from
  /\ stage' = [stage EXCEPT ![r] = to]

\* POST /transfers: a new document, with the tokens of its creator.
CreateTransfer(t) ==
  /\ transfer[t].rev = 0
  /\ transfer' = [transfer EXCEPT ![t].rev = 1]
  /\ UNCHANGED <<object, request, stage, objectCopy, transferRev, edits, installed>>

\* The owner changes the object, one atomic step of its document; its new
\* status may be one in which credentials cannot be updated, or one it left.
EditObject(o) ==
  /\ edits[o] < MaxEdits
  /\ edits' = [edits EXCEPT ![o] = @ + 1]
  /\ \E m \in BOOLEAN :
       object' = [object EXCEPT ![o].rev = @ + 1, ![o].movable = m]
  /\ UNCHANGED <<transfer, request, stage, objectCopy, transferRev, installed>>

\* validate_tender (validate_plan, ...) and validate_transfer_token, on the copy.
MayRelocate(r, copy) == copy.movable /\ copy.holder = request[r].token

LoadObject(r) ==
  /\ Step(r, "received",
          IF MayRelocate(r, object[O(r)]) THEN "validated" ELSE "denied")
  /\ objectCopy' = [objectCopy EXCEPT ![r] = object[O(r)]]
  /\ UNCHANGED <<object, transfer, request, transferRev, edits, installed>>

\* extract_transfer (404 when there is none) and the check of usedFor.
TransferFree(r) ==
  /\ transfer[T(r)].rev > 0
  /\ transfer[T(r)].usedFor \in {None, O(r)}

LoadTransfer(r) ==
  /\ Step(r, "validated", IF TransferFree(r) THEN "ready" ELSE "denied")
  /\ transferRev' = [transferRev EXCEPT ![r] = transfer[T(r)].rev]
  /\ UNCHANGED <<object, transfer, request, objectCopy, edits, installed>>

\* Faulty: the Transfer is stored whatever its revision.
TransferCurrentAlways(r) == TRUE

\* save_transfer always stores: it stamps transfer.date.
TransferCurrent(r) == transferRev[r] = transfer[T(r)].rev

SaveTransfer(r) ==
  /\ Step(r, "ready", IF TransferCurrent(r) THEN "bound" ELSE "conflict")
  /\ transfer' =
       IF TransferCurrent(r)
       THEN [transfer EXCEPT ![T(r)] = [rev |-> @.rev + 1, usedFor |-> O(r)]]
       ELSE transfer
  /\ UNCHANGED <<object, request, objectCopy, transferRev, edits, installed>>

\* Faulty: the object is stored whatever its revision.
ObjectCurrentAlways(r) == TRUE

ObjectCurrent(r) == objectCopy[r].rev = object[O(r)].rev

\* save_tender (save_plan, ...) after update_ownership; it stores nothing when
\* the object already has the credentials of the Transfer.
SaveObject(r) ==
  /\ stage[r] = "bound"
  /\ objectCopy[r].holder # T(r)
  /\ Step(r, "bound", IF ObjectCurrent(r) THEN "ok" ELSE "objectConflict")
  /\ IF ObjectCurrent(r)
     THEN /\ object' = [object EXCEPT ![O(r)] =
                          [objectCopy[r] EXCEPT !.rev = @ + 1, !.holder = T(r)]]
          /\ installed' = installed \cup {<<T(r), O(r)>>}
     ELSE UNCHANGED <<object, installed>>
  /\ UNCHANGED <<transfer, request, objectCopy, transferRev, edits>>

SameCredentials(r) ==
  /\ objectCopy[r].holder = T(r)
  /\ Step(r, "bound", "unchanged")
  /\ UNCHANGED <<object, transfer, request, objectCopy, transferRev, edits, installed>>

Die(r) ==
  /\ stage[r] \notin Ends
  /\ stage' = [stage EXCEPT ![r] = "dead"]
  /\ UNCHANGED <<object, transfer, request, objectCopy, transferRev, edits, installed>>

OwnershipNext ==
  \/ \E t \in Transfers : CreateTransfer(t)
  \/ \E o \in Objects : EditObject(o)
  \/ \E r \in Requests :
       \/ LoadObject(r) \/ LoadTransfer(r) \/ SaveTransfer(r)
       \/ SaveObject(r) \/ SameCredentials(r) \/ Die(r)

OwnershipSpec == OwnershipInit /\ [][OwnershipNext]_ownershipVars

-----------------------------------------------------------------------------
OwnershipTypeOK ==
  /\ object \in [Objects -> Object]
  /\ transfer \in [Transfers -> Transfer]
  /\ request \in [Requests -> Ask]
  /\ stage \in [Requests -> {"received", "validated", "ready", "bound"} \cup Ends]
  /\ objectCopy \in [Requests -> Object]
  /\ transferRev \in [Requests -> Nat]
  /\ edits \in [Objects -> Nat]
  /\ installed \subseteq Transfers \X Objects

\* One Transfer never gives two objects away, not even one after the other:
\* the 403 "Transfer already used" holds across any race of two requests.
OneObjectPerTransfer ==
  \A t \in Transfers, o, p \in Objects :
    <<t, o>> \in installed /\ <<t, p>> \in installed => o = p

\* An object relocated by a Transfer is the one the Transfer names, so GET
\* /transfers/{id} never points a broker to another object and no two objects
\* answer to the same tokens.
HolderIsUsedFor ==
  \A o \in Objects : object[o].holder # o =>
    object[o].holder \in Transfers /\ transfer[object[o].holder].usedFor = o

\* When the second save fails the Transfer stays tied to the object, and only
\* to it: the client may send the same request again and pass the usedFor check.
HalfDoneIsRetryable ==
  \A r \in Requests : stage[r] \in {"bound", "objectConflict"} =>
    transfer[T(r)].usedFor = O(r) /\ transfer[T(r)].rev > 0

\* Between the two stores of a request and after them, failed or not, the
\* Transfer and the objects tell the same: the promise of both of the above.
TransferSound == HolderIsUsedFor /\ HalfDoneIsRetryable

\* Credentials change only with the consent of whoever holds them at the very
\* moment of the store, and only while the status of the object allows it then,
\* although the token and the status were checked on an earlier copy.
ConsentAtTheStore ==
  [][\A o \in Objects : object'[o].holder # object[o].holder =>
       /\ object[o].movable
       /\ \E r \in Requests :
            /\ O(r) = o /\ stage[r] = "bound"
            /\ request[r].token = object[o].holder]_ownershipVars
=============================================================================
