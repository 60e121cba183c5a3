------------------------------ MODULE Frameworks ------------------------------
(***************************************************************************)
(* The life of a framework agreement: it is made in a tender, a bridge     *)
(* registers it, its owner changes it, and a buyer selects a supplier by a *)
(* copy of it.  Requests about the agreement and about the selection come  *)
(* in any order, and the bot copies the agreement whenever it likes.       *)
(*                                                                         *)
(* The three documents are stored apart: the agreement is not told of the  *)
(* selection.  What can no longer matter to the others is not followed:    *)
(* the tender once the agreement is registered, the agreement once the     *)
(* selection has its last copy.                                            *)
(***************************************************************************)
EXTENDS FrameworkTender

CONSTANTS
  MaxChanges, Instants, Shifts,
  MinActiveContracts, Quantities, Amounts, MaxBids, MaxRounds

ASSUME AmountsAssumption == Quantities \subseteq Nat /\ Amounts \subseteq Nat
ASSUME DatesAssumption == Instants \subseteq Nat /\ Shifts \subseteq Int

VARIABLES agreement, selection

vars == <<tender, agreement, selection>>

Changes == INSTANCE AgreementChanges
Selection == INSTANCE FrameworkSelection

FrameworksInit ==
  /\ Init
  /\ agreement = Changes!NoAgreementYet
  /\ selection = Selection!NoSelectionYet

TenderStep == agreement.status = "none" /\ Next /\ UNCHANGED <<agreement, selection>>

\* The tender is not looked at any more once its agreement is registered (the
\* registry keeps it as it is): its variable takes one fixed, closed value, so
\* that what follows is explored once and not for each tender it came from.
PutAway(t) == [t EXCEPT !.awards = <<>>, !.agreement = NoAgreement, !.status = "cancelled",
                         !.cancelling = Nobody, !.withdrawn = FALSE, !.period = "over"]

\* A bridge registers the agreement of a complete tender: the contracts that
\* its owner left in force.
Register ==
  LET contracts == tender.agreement.contracts
      inForce == {b \in DOMAIN contracts : contracts[b].status = "active"}
  IN /\ tender.status = "complete" /\ agreement.status = "none"
     /\ \E d \in Changes!Dates : agreement' = Changes!Registered([b \in inForce |-> contracts[b]], d)
     /\ tender' = PutAway(tender)
     /\ UNCHANGED selection

Followed == agreement.status # "none" /\ selection.status \in Selection!SelectionDrafts

ChangeStep == Followed /\ Changes!AgreementNext /\ UNCHANGED <<tender, selection>>

\* What the bot takes of the agreement.
CopyOfAgreement ==
  [status |-> agreement.status, contracts |-> agreement.contracts, pending |-> Changes!HasPending]

SelectionStep ==
  /\ agreement.status # "none"
  /\ \/ Selection!SelectionNext
     \/ Followed /\ Selection!CopyAgreement(CopyOfAgreement)
  /\ agreement' = IF selection'.status \in Selection!SelectionDrafts THEN agreement
                  ELSE Changes!Registered(<<>>, Changes!Unsigned)
  /\ UNCHANGED tender

FrameworksNext == TenderStep \/ Register \/ ChangeStep \/ SelectionStep
Spec == FrameworksInit /\ [][FrameworksNext]_vars

-----------------------------------------------------------------------------
\* See FrameworkTender: the best bids have the awards, and an agreement is made
\* with those who were awarded, and enough of them, when nobody complains.
FrameworkSound ==
  /\ TypeOK /\ Changes!TypeOK /\ Selection!TypeOK
  /\ AwardsSound /\ AgreementSound

\* See AgreementChanges: the contracts are what the active changes make of them,
\* and the changes were signed, by local time, in the order they came into force.
ChangesSound == Changes!PricesFollowChanges /\ Changes!SigningInOrder

\* See FrameworkSelection: no bid is beyond the agreement it rests on, and the
\* best of them wins.
SelectionSound == Selection!BidsWithinAgreement /\ Selection!WinnerIsBest
=============================================================================
