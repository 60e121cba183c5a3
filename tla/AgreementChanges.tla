--------------------------- MODULE AgreementChanges ---------------------------
(***************************************************************************)
(* An agreement in the registry (agreement/cfaua) and its changes: the     *)
(* unit prices of all its contracts are modified, or a supplier withdraws. *)
(* A change is drawn up as pending; activating it modifies the agreement,  *)
(* once; one pending change is allowed at a time.                          *)
(*                                                                         *)
(* A date is an instant and the offset of the zone it was written in.      *)
(***************************************************************************)
EXTENDS Integers, SequencesExt

CONSTANTS
  MaxChanges,   \* bound on the changes of an agreement
  Instants,     \* the instants of the dates, numbers above 0
  Shifts        \* the offsets

VARIABLE agreement

Dates == [at : Instants, shift : Shifts]
Unsigned == [at |-> 0, shift |-> 0]

-----------------------------------------------------------------------------
(* Modifications.                                                          *)
NoModification == [addend |-> 0, factor |-> 1, withdrawn |-> 0]
PriceModifications == {[NoModification EXCEPT !.addend = -1], [NoModification EXCEPT !.factor = 2]}

\* taxRate, itemPriceVariation and thirdParty change prices.
ModificationsOf(kind) ==
  {NoModification} \cup
    IF kind = "price" THEN PriceModifications
    ELSE {[NoModification EXCEPT !.withdrawn = s] : s \in DOMAIN agreement.contracts}

Modified(contracts, m) ==
  [s \in DOMAIN contracts |->
     IF s = m.withdrawn THEN [contracts[s] EXCEPT !.status = "unsuccessful"]
     ELSE [contracts[s] EXCEPT !.price = (@ + m.addend) * m.factor]]

\* unitPrice:value:amount can't be equal or less than 0: of any contract, one
\* that is no longer in force included.
Refused(contracts, m) == \E s \in DOMAIN contracts : Modified(contracts, m)[s].price <= 0

-----------------------------------------------------------------------------
(* Dates of signature.                                                     *)
Active == {i \in DOMAIN agreement.changes : agreement.changes[i].status = "active"}
LastSigned == IF Active = {} THEN agreement.signed ELSE agreement.changes[Max(Active)].signed

\* The local time, which is what a text in ISO format begins with; it ends with
\* the offset.
Clock(d) == d.at + d.shift
TextBefore(d, e) == Clock(d) < Clock(e) \/ (Clock(d) = Clock(e) /\ d.shift < e.shift)

HasPending == agreement.changes # <<>> /\ Last(agreement.changes).status = "pending"

-----------------------------------------------------------------------------
PostChange(kind, m, d) ==
  /\ agreement.status = "active" /\ ~ HasPending /\ Len(agreement.changes) < MaxChanges
  /\ d # Unsigned => d.at >= LastSigned.at
  /\ ~ Refused(agreement.contracts, m)
  /\ agreement' = [agreement EXCEPT
       !.changes = Append(@, [kind |-> kind, modification |-> m, signed |-> d, status |-> "pending"])]

\* Faulty: what should be a preview is kept.
PatchChangeAndKeep(status, m, d) ==
  LET i == Len(agreement.changes) IN
  /\ HasPending
  /\ status = "active" => d # Unsigned /\ m # NoModification
  /\ status = "cancelled" \/ ~ Refused(agreement.contracts, m)
  /\ d = Unsigned \/ ~ TextBefore(d, LastSigned)
  /\ agreement' = [agreement EXCEPT
       !.changes[i] = [Last(agreement.changes) EXCEPT !.modification = m, !.signed = d, !.status = status],
       !.contracts = IF status # "cancelled" THEN Modified(@, m) ELSE @]

\* While the change stays pending its effect is only tried, on a copy.  The
\* date, an instant when the change was posted, is now compared as a text.
PatchChange(status, m, d) ==
  LET i == Len(agreement.changes) IN
  /\ HasPending
  /\ status = "active" => d # Unsigned /\ m # NoModification
  /\ status = "cancelled" \/ ~ Refused(agreement.contracts, m)
  /\ d = Unsigned \/ ~ TextBefore(d, LastSigned)
  /\ agreement' = [agreement EXCEPT
       !.changes[i] = [Last(agreement.changes) EXCEPT !.modification = m, !.signed = d, !.status = status],
       !.contracts = IF status = "active" THEN Modified(@, m) ELSE @]

\* The owner terminates it; the Administrator may set its status back.
PatchAgreement(status) ==
  /\ status = "terminated" => ~ HasPending
  /\ agreement.status \notin {status, "none"}
  /\ agreement' = [agreement EXCEPT !.status = status]

AgreementNext ==
  \/ \E status \in {"active", "terminated"} : PatchAgreement(status)
  \/ \E kind \in {"price", "withdrawal"}, d \in Dates \cup {Unsigned} :
       \E m \in ModificationsOf(kind) : PostChange(kind, m, d)
  \/ HasPending /\ \E status \in {"pending", "active", "cancelled"}, d \in Dates \cup {Unsigned},
                      m \in ModificationsOf(Last(agreement.changes).kind) : PatchChange(status, m, d)

-----------------------------------------------------------------------------
NoAgreementYet ==
  [status |-> "none", signed |-> Unsigned, contracts |-> <<>>, registered |-> <<>>, changes |-> <<>>]

\* What a bridge registers of an agreement that was signed in its tender.
\* registered keeps the first contracts, for the properties.
Registered(contracts, d) ==
  [status |-> "active", signed |-> d, contracts |-> contracts, registered |-> contracts, changes |-> <<>>]

-----------------------------------------------------------------------------
\* The fields have the values the models of the code allow.
TypeOK ==
  /\ agreement.status \in {"none", "active", "terminated"}
  /\ agreement.signed \in Dates \cup {Unsigned}
  /\ \A s \in DOMAIN agreement.contracts :
       agreement.contracts[s].status \in {"active", "unsuccessful"} /\ agreement.contracts[s].price \in Int
  /\ \A i \in DOMAIN agreement.changes :
       agreement.changes[i].status \in {"pending", "active", "cancelled"}

\* What the first n changes make of some contracts.
Made(contracts, changes) ==
  LET After[n \in 0 .. Len(changes)] ==
        IF n = 0 THEN contracts
        ELSE IF changes[n].status = "active" THEN Modified(After[n - 1], changes[n].modification)
        ELSE After[n - 1]
  IN After

\* The contracts are what the changes that are active make, each once and in
\* their order, of those that were registered: nothing previewed, cancelled or
\* repeated shows in them.  Their prices stay above 0, and no change is left
\* pending in an agreement that is terminated.
PricesFollowChanges ==
  /\ agreement.contracts = Made(agreement.registered, agreement.changes)[Len(agreement.changes)]
  /\ \A s \in DOMAIN agreement.contracts : agreement.contracts[s].price > 0
  /\ agreement.status # "active" => ~ HasPending

\* By the clocks of those who signed, no change was signed before any that came
\* into force before it, or before the agreement: by the instants of the dates
\* at most as much earlier as the offsets differ.
SigningInOrder ==
  \A i \in Active :
    /\ Clock(agreement.changes[i].signed) >= Clock(agreement.signed)
    /\ \A j \in Active : j < i => Clock(agreement.changes[i].signed) >= Clock(agreement.changes[j].signed)
=============================================================================
