------------------------- MODULE CancellationRules -------------------------
(***************************************************************************)
(* What a cancellation under way means for the rest of a document, and the *)
(* life of a complaint, by the rules in force after RELEASE_2020_04_19.    *)
(* The procedures share these rules; the document t they are about has     *)
(*   t.cancellations  a sequence of records with of (a lot or Whole),      *)
(*                    status, and complaints (a sequence of statuses).     *)
(***************************************************************************)
EXTENDS Naturals, Sequences

CONSTANT Whole  \* the tender itself: no relatedLot

Nth(s) == DOMAIN s

Undecided == {"pending", "accepted", "satisfied"}    \* block_complaint_status
Rejected == {"invalid", "declined", "stopped", "mistaken"}
ComplaintStatus == {"draft", "resolved"} \cup Undecided \cup Rejected

\* What happens in a review of a complaint, whatever it is about.
Reviewed(from, to) ==
  \/ from = "pending" /\ to \in {"accepted", "invalid"}
  \/ from = "accepted" /\ to \in {"declined", "satisfied", "stopped"}

\* A draft is paid (reported by a bot) or dropped (by a bot or its author).
Settled(from, to) == from = "draft" /\ to \in {"pending", "mistaken"}

\* At the end of a complaint period its drafts are dropped.
Mistaken(s) == IF s = "draft" THEN "mistaken" ELSE s

\* Some cancellation of x is pending.
HasPending(t, x) ==
  \E i \in Nth(t.cancellations) :
    t.cancellations[i].of = x /\ t.cancellations[i].status = "pending"

\* Withdrawn because of a complaint, and the owner has not made amends.
Unredressed(c) ==
  /\ c.status = "unsuccessful" /\ c.complaints # <<>>
  /\ \A j \in Nth(c.complaints) : c.complaints[j] # "resolved"

HasUnredressed(t, x) ==
  \E i \in Nth(t.cancellations) :
    t.cancellations[i].of = x /\ Unredressed(t.cancellations[i])

\* The permission edit_tender of the owner.
MayEditTender(t) == ~ HasPending(t, Whole) /\ ~ HasUnredressed(t, Whole)

\* A lot its owner may not touch: it has a cancellation that is not settled.
Held(t, x) == x # Whole /\ (HasPending(t, x) \/ HasUnredressed(t, x))

\* Complaints about y, which are about nothing in particular if y = Whole,
\* stand against a cancellation of x.
Concerns(x, y) == x = Whole \/ y = Whole \/ x = y

\* Another cancellation of the same thing is on its way; for the tender as a
\* whole, any other.
InTheWay(t, x) ==
  \E i \in Nth(t.cancellations) :
    t.cancellations[i].status = "pending" /\ x \in {Whole, t.cancellations[i].of}

\* block_tender
Blocked(t) ==
  \E i \in Nth(t.cancellations) :
    t.cancellations[i].status = "pending" \/ Unredressed(t.cancellations[i])
=============================================================================
