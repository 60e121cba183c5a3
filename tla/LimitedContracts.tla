-------------------------- MODULE LimitedContracts --------------------------
(***************************************************************************)
(* Limited procedures and the contracts that come of them: the bridge      *)
(* registers a signed contract of a complete tender, once, and the two     *)
(* documents go their own ways.  It is followed for reporting tenders: a   *)
(* negotiation gives it the same to read.                                  *)
(***************************************************************************)
EXTENDS LimitedProcedure, Integers, TLC

CONSTANTS NoContract, NotSet, Amounts, Dates, MaxChanges

ASSUME DatesAssumption == Dates \subseteq Int /\ NotSet \notin Dates

VARIABLE contract  \* the registered contract

C == INSTANCE Contracting

TenderStep == Next /\ UNCHANGED contract
ContractStep == C!Next /\ UNCHANGED tender

\* Outside: the bridge reads a complete tender and posts its signed contracts.
Bridge ==
  /\ tender.status = "complete" /\ ~ Negotiation(tender)
  /\ \E i \in Nth(tender.awards), value \in Amounts, signed \in Dates :
       tender.awards[i].contract = "active" /\ C!Register(i, value, signed)
  /\ UNCHANGED tender

AllInit == Init /\ contract = NoContract
AllNext == TenderStep \/ Bridge \/ ContractStep
AllSpec == AllInit /\ [][AllNext]_<<tender, contract>>

-----------------------------------------------------------------------------
\* See LimitedProcedure: each part has one award that counts, and a part that
\* is complete with a signed contract is not cancelled any more.
AwardsSound == TypeOK /\ C!TypeOK /\ OneLiveAward /\ CompleteIsNotCancelled

\* A registered contract has behind it a signature that its tender never takes
\* back: no award, cancellation or complaint undoes it afterwards.
RegisteredStaysSigned ==
  contract # NoContract =>
    /\ tender.status = "complete"
    /\ tender.awards[contract.award].status = "active"
    /\ tender.awards[contract.award].contract = "active"

\* See Contracting: changes take effect in the order of their dates, what is
\* paid keeps within the value, and the signature stays what it was.
ContractsSound == C!ChangesInOrder /\ C!PaidWithinValue /\ RegisteredStaysSigned

\* See LimitedProcedure and Contracting: what a pending cancellation holds is
\* left alone, and a contract that ended does not come back.
ClosedStaysClosed == PendingCancellationFreezes /\ C!EndedForGood

LotSymmetry == Permutations(Lots)
=============================================================================
