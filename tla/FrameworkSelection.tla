-------------------------- MODULE FrameworkSelection --------------------------
(***************************************************************************)
(* closeFrameworkAgreementSelectionUA: a buyer selects among the suppliers *)
(* of an agreement.  The tender names the agreement; a bot copies it into  *)
(* the tender and, in a later request, sets the tender off if the copy is  *)
(* fit for it.  Bids are bounded by the contracts of the copy, not of the  *)
(* agreement.  The tender has one lot and one agreement.                   *)
(***************************************************************************)
EXTENDS Sorting, FiniteSets, SequencesExt

CONSTANTS
  MinActiveContracts,   \* 3 in the code
  Quantities, Amounts,  \* of the items bought, and of bids
  MaxBids, MaxRounds    \* bounds on the bids, and on the awards

VARIABLE selection

SelectionDrafts == {"none", "draft", "draft.pending"}
SelectionEnds == {"draft.unsuccessful", "complete", "unsuccessful", "cancelled"}
NoCopy == [status |-> "none", contracts |-> <<>>, pending |-> FALSE]

NoSelectionYet == [status |-> "none", copy |-> NoCopy, quantity |-> 0, bids |-> <<>>, awards |-> <<>>]
SaveSelection(t) == selection' = t

-----------------------------------------------------------------------------
(* Until the selection is set off.                                         *)
Draft(quantity) ==
  /\ selection.status = "none"
  /\ SaveSelection([NoSelectionYet EXCEPT !.status = "draft", !.quantity = quantity])

Publish == selection.status = "draft" /\ SaveSelection([selection EXCEPT !.status = "draft.pending"])

\* The bot; also again, and with what it read of the agreement some time ago.
CopyAgreement(agreement) ==
  /\ selection.status = "draft.pending"
  /\ SaveSelection([selection EXCEPT !.copy = agreement])

\* check_agreement; fits: the parties, items and period, which are not modelled.
Fit(copy, fits) ==
  /\ fits /\ copy.status = "active" /\ ~ copy.pending
  /\ Cardinality({s \in DOMAIN copy.contracts : copy.contracts[s].status = "active"}) >= MinActiveContracts

SetOff(fits) ==
  /\ selection.status = "draft.pending" /\ selection.copy # NoCopy
  /\ SaveSelection([selection EXCEPT
       !.status = IF Fit(selection.copy, fits) THEN "active.enquiries" ELSE "draft.unsuccessful"])

AgreementNotFound ==
  /\ selection.status = "draft.pending"
  /\ SaveSelection([selection EXCEPT !.status = "draft.unsuccessful"])

-----------------------------------------------------------------------------
(* Bids, in the order of their dates.                                      *)

\* calculate_agreement_contracts_value_amount
Value(t, s) == t.copy.contracts[s].price * t.quantity

\* Faulty: as long as bids are taken.
EditItemsLate(quantity) ==
  /\ selection.status \in {"active.enquiries", "active.tendering"}
  /\ SaveSelection([selection EXCEPT !.quantity = quantity])

EditItems(quantity) ==
  /\ selection.status = "active.enquiries"
  /\ SaveSelection([selection EXCEPT !.quantity = quantity])

\* validate_bid
MayBid(bid) ==
  /\ selection.status = "active.tendering"
  /\ bid.supplier \in DOMAIN selection.copy.contracts
  /\ selection.copy.contracts[bid.supplier].status = "active"
  /\ bid.amount <= Value(selection, bid.supplier)

PostBid(bid) ==
  /\ MayBid(bid) /\ Len(selection.bids) < MaxBids
  /\ SaveSelection([selection EXCEPT !.bids = Append(@, bid)])

\* A new amount gets a new date.
PatchBid(i, bid) ==
  /\ MayBid(bid)
  /\ bid.supplier = selection.bids[i].supplier /\ selection.bids[i].status \in {"draft", bid.status}
  /\ SaveSelection([selection EXCEPT !.bids =
       IF bid.amount = @[i].amount THEN [@ EXCEPT ![i] = bid] ELSE Append(RemoveAt(@, i), bid)])

DeleteBid(i) ==
  /\ selection.status = "active.tendering"
  /\ SaveSelection([selection EXCEPT !.bids = RemoveAt(@, i)])

-----------------------------------------------------------------------------
(* Awards, each with its contract.                                         *)
AwardedTo(t, statuses) == {a.bid : a \in {x \in ToSet(t.awards) : x.status \in statuses}}
Open(t) == DOMAIN t.bids \ AwardedTo(t, {"unsuccessful"})
BestOf(t, bids) ==
  CHOOSE i \in bids : \A j \in bids : \/ t.bids[i].amount < t.bids[j].amount
                                      \/ t.bids[i].amount = t.bids[j].amount /\ i <= j

\* add_next_award, and check_tender_status after it.
WithNextAward(t) ==
  IF AwardedTo(t, {"pending", "active"}) # {} THEN [t EXCEPT !.status = "active.awarded"]
  ELSE IF Open(t) = {} THEN [t EXCEPT !.status = "unsuccessful"]
  ELSE [t EXCEPT !.status = "active.qualification",
                 !.awards = Append(@, [bid |-> BestOf(t, Open(t)), status |-> "pending", contract |-> "none"])]

SaveSelectionWithNextAward(t) ==
  Len(WithNextAward(t).awards) <= MaxRounds /\ SaveSelection(WithNextAward(t))

Judging == selection.status \in {"active.qualification", "active.awarded"}

AcceptSelectionAward(i) ==
  /\ Judging /\ selection.awards[i].status = "pending"
  /\ SaveSelectionWithNextAward([selection EXCEPT !.awards[i].status = "active", !.awards[i].contract = "pending"])

\* A bidder is rejected only if an award to its bid was cancelled before: it has
\* to win first.
RejectSelectionAward(i) ==
  /\ Judging /\ selection.awards[i].status = "pending"
  /\ selection.awards[i].bid \in AwardedTo(selection, {"cancelled"})
  /\ SaveSelectionWithNextAward([selection EXCEPT !.awards[i].status = "unsuccessful"])

CancelSelectionAward(i) ==
  /\ Judging /\ selection.awards[i].status = "active"
  /\ SaveSelectionWithNextAward([selection EXCEPT !.awards[i].status = "cancelled", !.awards[i].contract = "cancelled"])

\* The tender is complete with its contract.
PatchSelectionContract(i, status) ==
  LET t == [selection EXCEPT !.awards[i].contract = status] IN
  /\ Judging /\ selection.awards[i].contract \in {"pending", "pending.winner-signing"}
  /\ SaveSelection(IF status = "active" /\ i = Len(t.awards) /\ t.awards[i].status = "active"
                   THEN [t EXCEPT !.status = "complete"] ELSE t)

-----------------------------------------------------------------------------
(* The chronograph and the auction; cancelling.                            *)
EndEnquiries ==
  /\ selection.status = "active.enquiries"
  /\ SaveSelection([selection EXCEPT !.status = "active.tendering"])

\* check_status and check_bids
EndTendering ==
  LET bids == Kept(selection.bids, {i \in DOMAIN selection.bids : selection.bids[i].status = "active"})
      t == [selection EXCEPT !.bids = bids]
  IN /\ selection.status = "active.tendering"
     /\ CASE Len(bids) = 0 -> SaveSelection([t EXCEPT !.status = "unsuccessful"])
          [] Len(bids) = 1 -> SaveSelectionWithNextAward(t)
          [] OTHER -> SaveSelection([t EXCEPT !.status = "active.auction"])

\* In the auction one of them goes down.
PostAuctionResults(i, amount) ==
  /\ selection.status = "active.auction" /\ amount <= selection.bids[i].amount
  /\ SaveSelectionWithNextAward([selection EXCEPT !.bids[i].amount = amount])

CancelSelection ==
  /\ selection.status \notin SelectionEnds \cup {"none", "active.auction"}
  /\ SaveSelection([selection EXCEPT !.status = "cancelled",
       !.bids = IF selection.status = "active.tendering" THEN <<>> ELSE @])

BidStep ==
  \E bid \in [supplier : DOMAIN selection.copy.contracts, amount : Amounts, status : {"draft", "active"}] :
    \/ PostBid(bid)
    \/ \E i \in DOMAIN selection.bids : PatchBid(i, bid)

SelectionAwardStep(i) ==
  \/ AcceptSelectionAward(i) \/ RejectSelectionAward(i) \/ CancelSelectionAward(i)
  \/ \E status \in {"pending", "pending.winner-signing", "active"} : PatchSelectionContract(i, status)

SelectionNext ==
  \/ \E quantity \in Quantities : Draft(quantity) \/ EditItems(quantity)
  \/ Publish \/ AgreementNotFound \/ \E fits \in BOOLEAN : SetOff(fits)
  \/ EndEnquiries \/ EndTendering \/ CancelSelection
  \/ BidStep \/ \E i \in DOMAIN selection.bids : DeleteBid(i)
  \/ \E i \in DOMAIN selection.bids, amount \in Amounts : PostAuctionResults(i, amount)
  \/ \E i \in DOMAIN selection.awards : SelectionAwardStep(i)

-----------------------------------------------------------------------------
\* The fields have the values the models of the code allow.
TypeOK ==
  /\ selection.status \in SelectionDrafts \cup SelectionEnds
       \cup {"active.enquiries", "active.tendering", "active.auction", "active.qualification", "active.awarded"}
  /\ selection.quantity \in Quantities \cup {0}
  /\ \A i \in DOMAIN selection.bids : selection.bids[i].status \in {"draft", "active"}
  /\ \A i \in DOMAIN selection.awards :
       /\ selection.awards[i].bid \in DOMAIN selection.bids
       /\ selection.awards[i].contract \in {"none", "pending", "pending.winner-signing", "active", "cancelled"}

\* The copy that the selection runs with is of an agreement that was in force,
\* with enough suppliers and no pending change, all at one time; every bid is
\* of a supplier then in force, for no more than its contract gives for the
\* items that are bought in the end.
BidsWithinAgreement ==
  selection.status \notin SelectionDrafts \cup SelectionEnds =>
    /\ Fit(selection.copy, TRUE)
    /\ \A b \in ToSet(selection.bids) :
         /\ selection.copy.contracts[b.supplier].status = "active"
         /\ b.amount <= Value(selection, b.supplier)

\* At most one award is being considered or has won, to the cheapest of the
\* bids that were not rejected; a contract that may yet be signed, or is, is of
\* that award, and the selection is complete just when it is signed.
WinnerIsBest ==
  LET live == {i \in DOMAIN selection.awards : selection.awards[i].status \in {"pending", "active"}}
      contracted == {i \in DOMAIN selection.awards : selection.awards[i].contract \notin {"none", "cancelled"}}
  IN /\ Cardinality(live) <= 1 /\ contracted \subseteq live
     /\ \A i \in live : /\ selection.awards[i].bid \in Open(selection)
                        /\ \A j \in Open(selection) :
                             selection.bids[selection.awards[i].bid].amount <= selection.bids[j].amount
     /\ selection.status = "complete" <=> \E a \in ToSet(selection.awards) : a.contract = "active"
=============================================================================
