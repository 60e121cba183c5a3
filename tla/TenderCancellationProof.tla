---------------------- MODULE TenderCancellationProof ----------------------
(***************************************************************************)
(* Cancellations of a published tender, and the questions about it, for    *)
(* any lots, periods and terms, and any number of cancellations,           *)
(* complaints and questions.  What holds of the stored tender is an        *)
(* operator of a document t, so that it can be followed through the        *)
(* cancellations one visit puts in force.                                  *)
(***************************************************************************)
EXTENDS Enquiries, SequenceTheorems, FiniteSetTheorems, TLAPS

TenderRecord ==
  [status : TenderStatus, lots : [Lots -> LotStatus], end : Nat,
   cancellations : Seq(Cancellation), complaints : Seq(Complaint)]

Shape(t) == t \in TenderRecord

Closed(t, x) == IF x = Whole THEN t.status \in Terminal ELSE t.lots[x] = "cancelled"

\* InForceIsFinal of a document.
FinalInForce(t) ==
  \A i \in Nth(t.cancellations) : Active(t.cancellations[i]) =>
    /\ \A j \in Nth(t.cancellations[i].complaints) :
         t.cancellations[i].complaints[j] \in Rejected
    /\ Closed(t, t.cancellations[i].of)

Sound(t) == Shape(t) /\ FinalInForce(t)

IInv == now \in 0 .. MaxTime /\ Sound(tender)

-----------------------------------------------------------------------------
(* Reading and changing a document.                                        *)

\* A sequence changed in its elements only is a sequence of the same length.
LEMMA SameLength ==
  ASSUME NEW S, NEW T, NEW s \in Seq(S),
         NEW f \in [DOMAIN s -> T]
  PROVE  f \in Seq(T) /\ Len(f) = Len(s) /\ DOMAIN f = DOMAIN s
OBVIOUS

LEMMA CancellationParts ==
  ASSUME NEW c \in Cancellation
  PROVE  /\ c = [of |-> c.of, since |-> c.since, complaints |-> c.complaints,
                 status |-> c.status]
         /\ c.of \in Targets /\ c.since \in Nat
         /\ c.status \in {"draft", "pending", "active", "unsuccessful"}
         /\ c.complaints \in Seq(ComplaintStatus)
         /\ Nth(c.complaints) = 1 .. Len(c.complaints) /\ Len(c.complaints) \in Nat
         /\ \A j \in Nth(c.complaints) : c.complaints[j] \in ComplaintStatus
<1>1. /\ c = [of |-> c.of, since |-> c.since, complaints |-> c.complaints,
              status |-> c.status]
      /\ c.of \in Targets /\ c.since \in Nat
      /\ c.status \in {"draft", "pending", "active", "unsuccessful"}
      /\ c.complaints \in Seq(ComplaintStatus)
  BY DEF Cancellation
<1> QED BY <1>1, LenProperties, ElementOfSeq DEF Nth

\* A document in shape, field by field.
LEMMA ShapeParts ==
  ASSUME NEW t, Shape(t)
  PROVE  /\ t = [status |-> t.status, lots |-> t.lots, end |-> t.end,
                 cancellations |-> t.cancellations, complaints |-> t.complaints]
         /\ t.status \in TenderStatus /\ t.lots \in [Lots -> LotStatus] /\ t.end \in Nat
         /\ t.cancellations \in Seq(Cancellation) /\ t.complaints \in Seq(Complaint)
         /\ Nth(t.cancellations) = 1 .. Len(t.cancellations) /\ Len(t.cancellations) \in Nat
         /\ Nth(t.complaints) = 1 .. Len(t.complaints) /\ Len(t.complaints) \in Nat
         /\ \A i \in Nth(t.cancellations) : t.cancellations[i] \in Cancellation
         /\ \A k \in Nth(t.complaints) : t.complaints[k] \in Complaint
<1>1. /\ t = [status |-> t.status, lots |-> t.lots, end |-> t.end,
              cancellations |-> t.cancellations, complaints |-> t.complaints]
      /\ t.status \in TenderStatus /\ t.lots \in [Lots -> LotStatus] /\ t.end \in Nat
      /\ t.cancellations \in Seq(Cancellation) /\ t.complaints \in Seq(Complaint)
  BY DEF Shape, TenderRecord
<1>2. /\ DOMAIN t.cancellations = 1 .. Len(t.cancellations) /\ Len(t.cancellations) \in Nat
      /\ \A i \in 1 .. Len(t.cancellations) : t.cancellations[i] \in Cancellation
  BY <1>1, LenProperties, ElementOfSeq
<1>3. /\ DOMAIN t.complaints = 1 .. Len(t.complaints) /\ Len(t.complaints) \in Nat
      /\ \A k \in 1 .. Len(t.complaints) : t.complaints[k] \in Complaint
  BY <1>1, LenProperties, ElementOfSeq
<1> QED BY <1>1, <1>2, <1>3 DEF Nth

\* A document with one field changed, spelt out.
LEMMA Rebuilt ==
  ASSUME NEW t, Shape(t), NEW x
  PROVE  /\ [t EXCEPT !.status = x] =
              [status |-> x, lots |-> t.lots, end |-> t.end,
               cancellations |-> t.cancellations, complaints |-> t.complaints]
         /\ [t EXCEPT !.lots = x] =
              [status |-> t.status, lots |-> x, end |-> t.end,
               cancellations |-> t.cancellations, complaints |-> t.complaints]
         /\ [t EXCEPT !.end = x] =
              [status |-> t.status, lots |-> t.lots, end |-> x,
               cancellations |-> t.cancellations, complaints |-> t.complaints]
         /\ [t EXCEPT !.cancellations = x] =
              [status |-> t.status, lots |-> t.lots, end |-> t.end,
               cancellations |-> x, complaints |-> t.complaints]
         /\ [t EXCEPT !.complaints = x] =
              [status |-> t.status, lots |-> t.lots, end |-> t.end,
               cancellations |-> t.cancellations, complaints |-> x]
<1>1. PICK a, b, c, d, e :
        t = [status |-> a, lots |-> b, end |-> c, cancellations |-> d, complaints |-> e]
  BY ShapeParts
<1>2. t.status = a /\ t.lots = b /\ t.end = c /\ t.cancellations = d /\ t.complaints = e
  BY <1>1
<1>3. [t EXCEPT !.status = x] =
        [status |-> x, lots |-> b, end |-> c, cancellations |-> d, complaints |-> e]
  BY <1>1
<1>4. [t EXCEPT !.lots = x] =
        [status |-> a, lots |-> x, end |-> c, cancellations |-> d, complaints |-> e]
  BY <1>1
<1>5. [t EXCEPT !.end = x] =
        [status |-> a, lots |-> b, end |-> x, cancellations |-> d, complaints |-> e]
  BY <1>1
<1>6. [t EXCEPT !.cancellations = x] =
        [status |-> a, lots |-> b, end |-> c, cancellations |-> x, complaints |-> e]
  BY <1>1
<1>7. [t EXCEPT !.complaints = x] =
        [status |-> a, lots |-> b, end |-> c, cancellations |-> d, complaints |-> x]
  BY <1>1
<1> QED BY <1>2, <1>3, <1>4, <1>5, <1>6, <1>7, Zenon

\* An update of one part of a field is an update of the field.
LEMMA PartOfField ==
  ASSUME NEW t, Shape(t), NEW i, NEW x
  PROVE  /\ [t EXCEPT !.lots[i] = x] = [t EXCEPT !.lots = [t.lots EXCEPT ![i] = x]]
         /\ [t EXCEPT !.cancellations[i] = x] =
              [t EXCEPT !.cancellations = [t.cancellations EXCEPT ![i] = x]]
         /\ [t EXCEPT !.cancellations[i].status = x] =
              [t EXCEPT !.cancellations =
                 [t.cancellations EXCEPT ![i] = [t.cancellations[i] EXCEPT !.status = x]]]
         /\ [t EXCEPT !.cancellations[i].complaints = x] =
              [t EXCEPT !.cancellations =
                 [t.cancellations EXCEPT ![i] = [t.cancellations[i] EXCEPT !.complaints = x]]]
         /\ [t EXCEPT !.complaints[i].status = x] =
              [t EXCEPT !.complaints =
                 [t.complaints EXCEPT ![i] = [t.complaints[i] EXCEPT !.status = x]]]
OBVIOUS

LEMMA OtherFields ==
  ASSUME NEW t, Sound(t), NEW e \in Nat, NEW ks \in Seq(Complaint)
  PROVE  Sound([t EXCEPT !.end = e]) /\ Sound([t EXCEPT !.complaints = ks])
<1>0. Shape(t)
  BY DEF Sound
<1> DEFINE u == [status |-> t.status, lots |-> t.lots, end |-> e,
                 cancellations |-> t.cancellations, complaints |-> t.complaints]
           v == [status |-> t.status, lots |-> t.lots, end |-> t.end,
                 cancellations |-> t.cancellations, complaints |-> ks]
<1>1. [t EXCEPT !.end = e] = u /\ [t EXCEPT !.complaints = ks] = v
  BY <1>0, Rebuilt
<1>2. Shape(u) /\ Shape(v)
  BY <1>0, ShapeParts DEF Shape, TenderRecord
<1>3. FinalInForce(u) /\ FinalInForce(v)
  BY DEF Sound, FinalInForce, Closed
<1> QED BY <1>1, <1>2, <1>3, Zenon DEF Sound

\* What a change of cancellations may make of cancellation i: none comes into
\* force, and what was decided about one stays decided.
Follows(t, i, c) ==
  LET old == t.cancellations[i] IN
  /\ c \in Cancellation /\ c.of = old.of
  /\ Active(c) =>
       /\ Active(old)
       /\ \A j \in Nth(c.complaints) :
            j \in Nth(old.complaints)
            /\ (old.complaints[j] \in Rejected => c.complaints[j] \in Rejected)

LEMMA CancellationsFollow ==
  ASSUME NEW t, Sound(t),
         NEW cs, DOMAIN cs = Nth(t.cancellations), cs = [i \in Nth(t.cancellations) |-> cs[i]],
         \A i \in Nth(t.cancellations) : Follows(t, i, cs[i])
  PROVE  Sound([t EXCEPT !.cancellations = cs])
<1>0. Shape(t)
  BY DEF Sound
<1> DEFINE u == [status |-> t.status, lots |-> t.lots, end |-> t.end,
                 cancellations |-> cs, complaints |-> t.complaints]
<1>1. [t EXCEPT !.cancellations = cs] = u
  BY <1>0, Rebuilt
<1>2. cs \in Seq(Cancellation)
  <2>1. cs \in [DOMAIN t.cancellations -> Cancellation]
    BY DEF Follows, Nth
  <2> QED BY <1>0, <2>1, ShapeParts, SameLength
<1>3. Shape(u)
  BY <1>0, <1>2, ShapeParts DEF Shape, TenderRecord
<1>4. FinalInForce(u)
  <2> SUFFICES ASSUME NEW i \in Nth(t.cancellations), Active(cs[i])
               PROVE  /\ \A j \in Nth(cs[i].complaints) : cs[i].complaints[j] \in Rejected
                      /\ Closed(u, cs[i].of)
    BY DEF FinalInForce, Nth
  <2>1. Follows(t, i, cs[i])
    OBVIOUS
  <2>2. /\ \A j \in Nth(t.cancellations[i].complaints) :
             t.cancellations[i].complaints[j] \in Rejected
        /\ Closed(t, t.cancellations[i].of)
    BY <2>1 DEF Follows, Sound, FinalInForce
  <2>3. Closed(u, cs[i].of)
    BY <2>1, <2>2 DEF Follows, Closed
  <2>4. ASSUME NEW j \in Nth(cs[i].complaints) PROVE cs[i].complaints[j] \in Rejected
    BY <2>1, <2>2 DEF Follows
  <2> QED BY <2>3, <2>4
<1> QED BY <1>1, <1>3, <1>4, Zenon DEF Sound

LEMMA CancellationChanged ==
  ASSUME NEW t, Sound(t), NEW i \in Nth(t.cancellations), NEW c, Follows(t, i, c)
  PROVE  Sound([t EXCEPT !.cancellations[i] = c])
<1> DEFINE cs == [t.cancellations EXCEPT ![i] = c]
<1>0. Shape(t)
  BY DEF Sound
<1>1. [t EXCEPT !.cancellations[i] = c] = [t EXCEPT !.cancellations = cs]
  BY <1>0, PartOfField
<1>2. t.cancellations \in Seq(Cancellation)
  BY <1>0, ShapeParts
<1>3. DOMAIN cs = Nth(t.cancellations) /\ cs = [k \in Nth(t.cancellations) |-> cs[k]]
      /\ cs[i] = c /\ \A k \in Nth(t.cancellations) : k # i => cs[k] = t.cancellations[k]
  BY <1>2 DEF Nth
<1>4. ASSUME NEW k \in Nth(t.cancellations) PROVE Follows(t, k, cs[k])
  <2>1. CASE k = i
    BY <1>3, <2>1
  <2>2. CASE k # i
    <3>1. cs[k] = t.cancellations[k] /\ cs[k] \in Cancellation
      BY <1>0, <1>3, <2>2, ShapeParts
    <3> QED BY <3>1 DEF Follows
  <2> QED BY <2>1, <2>2
<1> HIDE DEF cs
<1>5. Sound([t EXCEPT !.cancellations = cs])
  BY <1>3, <1>4, CancellationsFollow, Zenon
<1> QED BY <1>1, <1>5

\* A document is closed further: what was cancelled stays so.
LEMMA OutcomeChanges ==
  ASSUME NEW t, Sound(t), NEW L \in [Lots -> LotStatus], NEW s \in TenderStatus,
         t.status \in Terminal => s \in Terminal,
         \A l \in Lots : t.lots[l] = "cancelled" => L[l] = "cancelled"
  PROVE  LET u == [[t EXCEPT !.lots = L] EXCEPT !.status = s] IN
         /\ Sound(u)
         /\ u = [status |-> s, lots |-> L, end |-> t.end,
                 cancellations |-> t.cancellations, complaints |-> t.complaints]
<1>0. Shape(t)
  BY DEF Sound
<1> DEFINE v == [status |-> t.status, lots |-> L, end |-> t.end,
                 cancellations |-> t.cancellations, complaints |-> t.complaints]
           u == [status |-> s, lots |-> L, end |-> t.end,
                 cancellations |-> t.cancellations, complaints |-> t.complaints]
<1>1. [t EXCEPT !.lots = L] = v
  BY <1>0, Rebuilt
<1>2. [v EXCEPT !.status = s] = u
  OBVIOUS
<1>3. Shape(u)
  BY <1>0, ShapeParts DEF Shape, TenderRecord
<1>4. FinalInForce(u)
  <2>1. \A i \in Nth(t.cancellations) : t.cancellations[i].of \in Targets
    BY <1>0, ShapeParts, CancellationParts
  <2> QED BY <2>1 DEF Sound, FinalInForce, Closed, Targets
<1> HIDE DEF v
<1> QED BY <1>1, <1>2, <1>3, <1>4 DEF Sound

-----------------------------------------------------------------------------
(* What comes into force closes what it is about.                          *)

Activated(c) == [c EXCEPT !.status = "active"]
InForce(t, i) == [t.cancellations EXCEPT ![i] = Activated(t.cancellations[i])]

Enforced(t, i, x) == Cancelled([t EXCEPT !.cancellations[i].status = "active"], x)

LEMMA CancellationsInForce ==
  ASSUME NEW t, Shape(t), NEW i \in Nth(t.cancellations)
  PROVE  /\ InForce(t, i) \in Seq(Cancellation)
         /\ DOMAIN InForce(t, i) = Nth(t.cancellations)
         /\ InForce(t, i)[i] = Activated(t.cancellations[i])
         /\ \A k \in Nth(t.cancellations) : k # i => InForce(t, i)[k] = t.cancellations[k]
         /\ InForce(t, i)[i].of = t.cancellations[i].of
         /\ InForce(t, i)[i].since = t.cancellations[i].since
         /\ InForce(t, i)[i].complaints = t.cancellations[i].complaints
         /\ InForce(t, i)[i].status = "active"
<1> DEFINE c == Activated(t.cancellations[i])
<1>1. t.cancellations[i] \in Cancellation /\ t.cancellations \in Seq(Cancellation)
  BY ShapeParts
<1>2. /\ c \in Cancellation /\ c.of = t.cancellations[i].of /\ c.since = t.cancellations[i].since
      /\ c.complaints = t.cancellations[i].complaints /\ c.status = "active"
  BY <1>1 DEF Cancellation, Activated
<1>3. InForce(t, i) = [t.cancellations EXCEPT ![i] = c]
  BY DEF InForce
<1> HIDE DEF c
<1>4. /\ InForce(t, i) \in Seq(Cancellation)
      /\ DOMAIN InForce(t, i) = Nth(t.cancellations)
      /\ InForce(t, i)[i] = c
      /\ \A k \in Nth(t.cancellations) : k # i => InForce(t, i)[k] = t.cancellations[k]
  BY <1>1, <1>2, <1>3 DEF Nth
<1> QED BY <1>2, <1>4 DEF c

LEMMA PutInForce ==
  ASSUME NEW t, Sound(t), NEW i \in Nth(t.cancellations),
         \A j \in Nth(t.cancellations[i].complaints) :
           t.cancellations[i].complaints[j] \in Rejected,
         NEW L \in [Lots -> LotStatus], NEW s \in TenderStatus,
         t.status \in Terminal => s \in Terminal,
         \A l \in Lots : t.lots[l] = "cancelled" => L[l] = "cancelled",
         IF t.cancellations[i].of = Whole THEN s \in Terminal
         ELSE L[t.cancellations[i].of] = "cancelled"
  PROVE  Sound([status |-> s, lots |-> L, end |-> t.end,
                cancellations |-> InForce(t, i), complaints |-> t.complaints])
<1> DEFINE cs == InForce(t, i)
           u == [status |-> s, lots |-> L, end |-> t.end,
                 cancellations |-> cs, complaints |-> t.complaints]
<1>0. Shape(t)
  BY DEF Sound
<1>1. /\ cs \in Seq(Cancellation) /\ DOMAIN cs = Nth(t.cancellations)
      /\ \A k \in Nth(t.cancellations) : k # i => cs[k] = t.cancellations[k]
      /\ cs[i].of = t.cancellations[i].of
      /\ cs[i].complaints = t.cancellations[i].complaints
  BY <1>0, CancellationsInForce
<1> HIDE DEF cs
<1>2. Shape(u)
  BY <1>0, <1>1, ShapeParts DEF Shape, TenderRecord
<1>3. ASSUME NEW k \in Nth(t.cancellations), Active(cs[k])
      PROVE  /\ \A j \in Nth(cs[k].complaints) : cs[k].complaints[j] \in Rejected
             /\ Closed(u, cs[k].of)
  <2>1. CASE k = i
    BY <1>1, <2>1 DEF Closed
  <2>2. CASE k # i
    <3>1. cs[k] = t.cancellations[k] /\ t.cancellations[k].of \in Targets
      BY <1>0, <1>1, <2>2, ShapeParts, CancellationParts
    <3>2. /\ \A j \in Nth(cs[k].complaints) : cs[k].complaints[j] \in Rejected
          /\ Closed(t, cs[k].of)
      BY <1>3, <3>1 DEF Sound, FinalInForce
    <3> QED BY <3>1, <3>2 DEF Closed, Targets
  <2> QED BY <2>1, <2>2
<1>4. FinalInForce(u)
  BY <1>1, <1>3 DEF FinalInForce, Nth
<1> QED BY <1>2, <1>4 DEF Sound, cs

LEMMA CancellationEnforced ==
  ASSUME NEW t, Sound(t), NEW i \in Nth(t.cancellations),
         \A j \in Nth(t.cancellations[i].complaints) :
           t.cancellations[i].complaints[j] \in Rejected,
         NEW x, x = t.cancellations[i].of
  PROVE  LET u == Enforced(t, i, x) IN
         /\ Sound(u) /\ u.end = t.end /\ u.complaints = t.complaints
         /\ u.cancellations = InForce(t, i)
         /\ u.status \in Terminal \cup {t.status}
         /\ \A l \in Lots : t.lots[l] # "active" => u.lots[l] # "active"
<1> DEFINE cs == InForce(t, i)
           v == [status |-> t.status, lots |-> t.lots, end |-> t.end,
                 cancellations |-> cs, complaints |-> t.complaints]
<1>0. Shape(t)
  BY DEF Sound
<1>1. Enforced(t, i, x) = Cancelled(v, x)
  <2>1. [t EXCEPT !.cancellations[i].status = "active"] = [t EXCEPT !.cancellations = cs]
    BY <1>0, PartOfField DEF InForce, Activated
  <2> HIDE DEF cs
  <2>2. [t EXCEPT !.cancellations = cs] = v
    BY <1>0, Rebuilt
  <2> QED BY <2>1, <2>2, Zenon DEF Enforced
<1>2. x \in Targets /\ t.status \in TenderStatus /\ t.lots \in [Lots -> LotStatus]
  BY <1>0, ShapeParts, CancellationParts
<1> HIDE DEF cs
<1>3. CASE x = Whole
  <2> DEFINE s == "cancelled"
             u == [status |-> s, lots |-> t.lots, end |-> t.end,
                   cancellations |-> cs, complaints |-> t.complaints]
  <2>1. Enforced(t, i, x) = u
    BY <1>1, <1>3 DEF Cancelled, CancelTender
  <2>2. s \in TenderStatus /\ s \in Terminal
    BY DEF TenderStatus, Terminal
  <2> HIDE DEF s
  <2>3. Sound(u)
    BY <1>2, <1>3, <2>2, PutInForce DEF cs
  <2>4. u.lots = t.lots
    OBVIOUS
  <2>5. \A l \in Lots : t.lots[l] # "active" => u.lots[l] # "active"
    <3> HIDE DEF u
    <3> QED BY <2>4
  <2>6. /\ u.end = t.end /\ u.complaints = t.complaints
        /\ u.cancellations = InForce(t, i) /\ u.status \in Terminal \cup {t.status}
    BY <2>2 DEF u, cs
  <2> HIDE DEF u
  <2> QED BY <2>1, <2>3, <2>5, <2>6, Zenon
<1>4. CASE x # Whole
  <2> DEFINE L == [t.lots EXCEPT ![x] = "cancelled"]
             w == [status |-> t.status, lots |-> L, end |-> t.end,
                   cancellations |-> cs, complaints |-> t.complaints]
             s == IF LotStatuses(w) = {"cancelled"} THEN "cancelled"
                  ELSE IF LotStatuses(w) \subseteq Terminal THEN "unsuccessful"
                  ELSE t.status
             u == [status |-> s, lots |-> L, end |-> t.end,
                   cancellations |-> cs, complaints |-> t.complaints]
  <2>1. Enforced(t, i, x) = u
    <3>1. [v EXCEPT !.lots[x] = "cancelled"] = w
      OBVIOUS
    <3>2. Enforced(t, i, x) = CancelLot(v, x)
      BY <1>1, <1>4 DEF Cancelled
    <3> QED BY <3>1, <3>2 DEF CancelLot, CancelTender
  <2>2. s \in TenderStatus /\ s \in Terminal \cup {t.status}
    BY <1>2 DEF TenderStatus, Terminal
  <2>3. /\ x \in Lots /\ L \in [Lots -> LotStatus] /\ L[x] = "cancelled"
        /\ \A l \in Lots : t.lots[l] = "cancelled" => L[l] = "cancelled"
        /\ \A l \in Lots : t.lots[l] # "active" => L[l] # "active"
    BY <1>2, <1>4 DEF Targets, LotStatus, Terminal
  <2> HIDE DEF s, L
  <2>4. Sound(u)
    BY <1>4, <2>2, <2>3, PutInForce DEF cs
  <2>5. \A l \in Lots : t.lots[l] # "active" => u.lots[l] # "active"
    BY <2>3
  <2>6. /\ u.end = t.end /\ u.complaints = t.complaints
        /\ u.cancellations = InForce(t, i) /\ u.status \in Terminal \cup {t.status}
    BY <2>2 DEF cs
  <2> HIDE DEF u
  <2> QED BY <2>1, <2>4, <2>5, <2>6, Zenon
<1> QED BY <1>3, <1>4

-----------------------------------------------------------------------------
(* A visit of the chronograph first drops the drafts that are late.        *)

\* The complaints of a cancellation, or their statuses, after some were dropped.
Fewer(s, r) ==
  /\ Nth(r) = Nth(s)
  /\ \A j \in Nth(s) : r[j] = s[j] \/ (s[j] = "draft" /\ r[j] = "mistaken")

LEMMA DraftsOfCancellation ==
  ASSUME NEW c \in Cancellation
  PROVE  /\ DropDrafts(c) \in Cancellation
         /\ DropDrafts(c).of = c.of /\ DropDrafts(c).since = c.since
         /\ DropDrafts(c).status = c.status
         /\ Fewer(c.complaints, DropDrafts(c).complaints)
         /\ \A j \in Nth(c.complaints) : DropDrafts(c).complaints[j] # "draft"
<1> DEFINE ms == [j \in Nth(c.complaints) |-> Mistaken(c.complaints[j])]
<1>1. c.complaints \in Seq(ComplaintStatus)
      /\ \A j \in Nth(c.complaints) : c.complaints[j] \in ComplaintStatus
  BY CancellationParts
<1>2. DropDrafts(c) = [c EXCEPT !.complaints = ms]
  BY DEF DropDrafts
<1>3. /\ ms \in [DOMAIN c.complaints -> ComplaintStatus]
      /\ \A j \in Nth(c.complaints) : ms[j] # "draft"
      /\ \A j \in Nth(c.complaints) :
           ms[j] = c.complaints[j] \/ (c.complaints[j] = "draft" /\ ms[j] = "mistaken")
  BY <1>1 DEF Nth, Mistaken, ComplaintStatus, Rejected
<1> HIDE DEF ms
<1>4. ms \in Seq(ComplaintStatus) /\ Nth(ms) = Nth(c.complaints)
  BY <1>1, <1>3, SameLength DEF Nth
<1> DEFINE d == DropDrafts(c)
<1>5. /\ d \in Cancellation /\ d.of = c.of /\ d.since = c.since /\ d.status = c.status
      /\ d.complaints = ms
  BY <1>2, <1>4 DEF Cancellation
<1> HIDE DEF d
<1>6. Fewer(c.complaints, d.complaints) /\ \A j \in Nth(c.complaints) : d.complaints[j] # "draft"
  BY <1>3, <1>4, <1>5 DEF Fewer
<1> QED BY <1>5, <1>6 DEF d

LEMMA DraftComplaint ==
  ASSUME NEW k \in Complaint
  PROVE  /\ DropDraft(k) \in Complaint /\ DropDraft(k).about = k.about
         /\ DropDraft(k).status = k.status
            \/ (k.status = "draft" /\ DropDraft(k).status = "mistaken")
BY DEF DropDraft, Complaint, Mistaken, ComplaintStatus, Rejected

\* What is left of the document t when the late drafts are dropped.
Purged(t, u) ==
  /\ u.status = t.status /\ u.lots = t.lots /\ u.end = t.end
  /\ Nth(u.complaints) = Nth(t.complaints)
  /\ \A k \in Nth(t.complaints) :
       /\ u.complaints[k].about = t.complaints[k].about
       /\ \/ u.complaints[k].status = t.complaints[k].status
          \/ t.complaints[k].status = "draft" /\ u.complaints[k].status = "mistaken"
  /\ Nth(u.cancellations) = Nth(t.cancellations)
  /\ \A i \in Nth(t.cancellations) :
       LET c == t.cancellations[i]
           d == u.cancellations[i]
       IN /\ d.of = c.of /\ d.since = c.since /\ d.status = c.status
          /\ Fewer(c.complaints, d.complaints)

DraftsGone(t) ==
  \A i \in Nth(t.cancellations) :
    Over(t.cancellations[i].since + CancelTerm) =>
      \A j \in Nth(t.cancellations[i].complaints) :
        t.cancellations[i].complaints[j] # "draft"

LEMMA DraftsDropped ==
  ASSUME NEW t, Sound(t)
  PROVE  LET u == CheckDrafts(t) IN Sound(u) /\ Purged(t, u) /\ DraftsGone(u)
<1> DEFINE late == Over(t.end - SubmitLead)
           ks == IF late THEN [k \in Nth(t.complaints) |-> DropDraft(t.complaints[k])]
                 ELSE t.complaints
           term(i) == Over(t.cancellations[i].since + CancelTerm)
           cs == [i \in Nth(t.cancellations) |->
                    IF term(i) THEN DropDrafts(t.cancellations[i]) ELSE t.cancellations[i]]
           v == [t EXCEPT !.complaints = ks]
           u == [v EXCEPT !.cancellations = cs]
<1>0. Shape(t)
  BY DEF Sound
<1>1. CheckDrafts(t) = u
  BY <1>0, ShapeParts DEF CheckDrafts
<1>2. /\ ks \in Seq(Complaint) /\ Nth(ks) = Nth(t.complaints)
      /\ \A k \in Nth(t.complaints) :
           /\ ks[k].about = t.complaints[k].about
           /\ \/ ks[k].status = t.complaints[k].status
              \/ t.complaints[k].status = "draft" /\ ks[k].status = "mistaken"
  <2>1. CASE late
    <3> DEFINE f == [k \in Nth(t.complaints) |-> DropDraft(t.complaints[k])]
    <3>1. ks = f
      BY <2>1
    <3>2. \A k \in Nth(t.complaints) : t.complaints[k] \in Complaint
      BY <1>0, ShapeParts
    <3>3. \A k \in Nth(t.complaints) :
            /\ f[k] \in Complaint /\ f[k].about = t.complaints[k].about
            /\ \/ f[k].status = t.complaints[k].status
               \/ t.complaints[k].status = "draft" /\ f[k].status = "mistaken"
      BY <3>2, DraftComplaint
    <3>4. f \in [DOMAIN t.complaints -> Complaint] /\ t.complaints \in Seq(Complaint)
      BY <1>0, <3>3, ShapeParts DEF Nth
    <3> HIDE DEF f
    <3>5. f \in Seq(Complaint) /\ Nth(f) = Nth(t.complaints)
      BY <3>4, SameLength DEF Nth
    <3> QED BY <3>1, <3>3, <3>5
  <2>2. CASE ~ late
    BY <1>0, <2>2, ShapeParts
  <2> QED BY <2>1, <2>2
<1> HIDE DEF ks, late
<1>3. /\ Sound(v)
      /\ v = [status |-> t.status, lots |-> t.lots, end |-> t.end,
              cancellations |-> t.cancellations, complaints |-> ks]
  <2>1. 0 \in Nat
    OBVIOUS
  <2> QED BY <1>0, <1>2, <2>1, OtherFields, Rebuilt
<1>4. v.cancellations = t.cancellations
  BY <1>3
<1> HIDE DEF v
<1>5. ASSUME NEW i \in Nth(t.cancellations)
      PROVE  /\ Follows(v, i, cs[i])
             /\ LET c == t.cancellations[i]
                    d == cs[i]
                IN /\ d.of = c.of /\ d.since = c.since /\ d.status = c.status
                   /\ Fewer(c.complaints, d.complaints)
                   /\ Over(d.since + CancelTerm) =>
                        \A j \in Nth(d.complaints) : d.complaints[j] # "draft"
  <2> DEFINE c == t.cancellations[i]
             d == cs[i]
  <2>1. c \in Cancellation
    BY <1>0, ShapeParts
  <2>2. /\ d \in Cancellation /\ d.of = c.of /\ d.since = c.since /\ d.status = c.status
        /\ Fewer(c.complaints, d.complaints)
        /\ Over(d.since + CancelTerm) =>
             \A j \in Nth(d.complaints) : d.complaints[j] # "draft"
    <3>1. CASE term(i)
      <4>1. d = DropDrafts(c)
        BY <3>1
      <4> HIDE DEF d, c
      <4> QED BY <2>1, <4>1, DraftsOfCancellation DEF Fewer
    <3>2. CASE ~ term(i)
      BY <2>1, <3>2 DEF Fewer
    <3> QED BY <3>1, <3>2
  <2>3. v.cancellations[i] = c
    BY <1>4
  <2> HIDE DEF c, d
  <2>4. Follows(v, i, d)
    BY <2>2, <2>3 DEF Follows, Active, Fewer, Rejected
  <2> QED BY <2>2, <2>4 DEF c, d
<1>6. DOMAIN cs = Nth(t.cancellations) /\ cs = [i \in Nth(t.cancellations) |-> cs[i]]
  OBVIOUS
<1> HIDE DEF cs
<1>7. Sound(u)
  BY <1>3, <1>4, <1>5, <1>6, CancellationsFollow, Zenon
<1>8. u = [status |-> t.status, lots |-> t.lots, end |-> t.end,
           cancellations |-> cs, complaints |-> ks]
  BY <1>3
<1>9. Nth(cs) = Nth(t.cancellations)
  BY <1>6 DEF Nth
<1> HIDE DEF u
<1>10. Purged(t, u)
  BY <1>2, <1>5, <1>8, <1>9 DEF Purged
<1>11. DraftsGone(u)
  BY <1>5, <1>8, <1>9 DEF DraftsGone
<1> QED BY <1>1, <1>7, <1>10, <1>11

-----------------------------------------------------------------------------
(* One visit may put several cancellations in force, one after another:    *)
(* CheckCancellations is a recursive function over their places, followed  *)
(* by induction.                                                           *)

\* Induction for a set: what holds 0 and with n also n + 1 holds every number.
\* Were n left out, the successor would take S \cap (0 .. n), which is finite,
\* into itself without 0.
LEMMA SetInduction ==
  ASSUME NEW S, 0 \in S, \A n \in Nat : n \in S => n + 1 \in S
  PROVE  \A n \in Nat : n \in S
<1> SUFFICES ASSUME NEW n \in Nat, n \notin S PROVE FALSE
  OBVIOUS
<1> DEFINE A == S \cap (0 .. n)
           succ == [k \in A |-> k + 1]
<1>1. IsFiniteSet(A) /\ IsFiniteSet(A \ {0})
  <2>1. IsFiniteSet(0 .. n)
    BY FS_Interval
  <2> QED BY <2>1, FS_Subset
<1>2. 0 \in A
  OBVIOUS
<1>3. Cardinality(A \ {0}) = Cardinality(A) - 1 /\ Cardinality(A) \in Nat
  BY <1>1, <1>2, FS_RemoveElement, FS_CardinalityType
<1>4. succ \in [A -> A \ {0}]
  OBVIOUS
<1>5. Cardinality(A \ {0}) < Cardinality(A)
  BY <1>3
<1>6. \A x, y \in A : succ[x] = succ[y] => x = y
  OBVIOUS
<1> HIDE DEF A, succ
<1>7. \E x, y \in A : x # y /\ succ[x] = succ[y]
  BY <1>1, <1>4, <1>5, FS_PigeonHole, Zenon
<1> QED BY <1>6, <1>7, Zenon

Visits(t, n, f) ==
  f = [i \in 0 .. n |-> IF i = 0 THEN [ok |-> TRUE, tender |-> t]
                                 ELSE CheckCancellation(f[i - 1], i)]

\* The recursive function exists, and the visit ends with its last value.
LEMMA VisitComputed ==
  ASSUME NEW t, Shape(t)
  PROVE  \E f : Visits(t, Len(t.cancellations), f)
                /\ CheckCancellations(t) = f[Len(t.cancellations)]
<1> DEFINE n == Len(t.cancellations)
           S == {m \in Nat : \E f : Visits(t, m, f)}
           first == [ok |-> TRUE, tender |-> t]
<1>0. n \in Nat
  BY ShapeParts
<1>1. 0 \in S
  <2> DEFINE f == [i \in 0 .. 0 |-> first]
  <2>1. f = [i \in 0 .. 0 |-> IF i = 0 THEN first ELSE CheckCancellation(f[i - 1], i)]
    OBVIOUS
  <2> QED BY <2>1 DEF Visits
<1>2. ASSUME NEW m \in Nat, m \in S PROVE m + 1 \in S
  <2>1. PICK f : f = [i \in 0 .. m |-> IF i = 0 THEN first ELSE CheckCancellation(f[i - 1], i)]
    BY <1>2 DEF Visits
  <2> DEFINE g == [i \in 0 .. m + 1 |-> IF i = m + 1 THEN CheckCancellation(f[m], m + 1)
                                                     ELSE f[i]]
  <2> HIDE DEF first
  <2>2. ASSUME NEW i \in 0 .. m + 1
        PROVE  g[i] = IF i = 0 THEN first ELSE CheckCancellation(g[i - 1], i)
    <3>1. CASE i = m + 1
      BY <3>1
    <3>2. CASE i # m + 1
      <4>1. i \in 0 .. m /\ g[i] = f[i] /\ (i # 0 => g[i - 1] = f[i - 1])
        BY <3>2
      <4>2. f[i] = IF i = 0 THEN first ELSE CheckCancellation(f[i - 1], i)
        BY <2>1, <4>1
      <4> QED BY <4>1, <4>2
    <3> QED BY <3>1, <3>2
  <2>3. Visits(t, m + 1, g)
    BY <2>2 DEF Visits, first
  <2> HIDE DEF g
  <2> QED BY <2>3
<1>3. \E f : Visits(t, n, f)
  <2> HIDE DEF S
  <2>1. n \in S
    BY <1>0, <1>1, <1>2, SetInduction, Zenon
  <2> QED BY <2>1 DEF S
<1>4. CheckCancellations(t) = (CHOOSE f : Visits(t, n, f))[n]
  BY DEF CheckCancellations, Visits
<1> QED BY <1>3, <1>4

\* What a visit leaves of the document t: everything but the outcome and the
\* status of cancellations that were ripe; and unless it fails, no complaint
\* stood against those.
Remains(t, v) ==
  LET u == v.tender IN
  /\ u.status \in Terminal \cup {t.status}
  /\ \A l \in Lots : t.lots[l] # "active" => u.lots[l] # "active"
  /\ u.end = t.end /\ u.complaints = t.complaints
  /\ Nth(u.cancellations) = Nth(t.cancellations)
  /\ \A i \in Nth(t.cancellations) :
       \/ u.cancellations[i] = t.cancellations[i]
       \/ /\ Ripe(t.cancellations[i])
          /\ u.cancellations[i] = Activated(t.cancellations[i])
          /\ v.ok => NoComplaintAgainst(t, t.cancellations[i].of)
  /\ (\A i \in Nth(t.cancellations) : u.cancellations[i] = t.cancellations[i]) => u = t

LEMMA PlaceVisited ==
  ASSUME NEW t, Shape(t), DraftsGone(t),
         NEW v, Sound(v.tender), Remains(t, v), NEW i \in Nth(t.cancellations)
  PROVE  LET w == CheckCancellation(v, i) IN Sound(w.tender) /\ Remains(t, w)
<1> DEFINE c == v.tender.cancellations[i]
           u == v.tender
<1>1. CASE ~ v.ok \/ ~ Ripe(c)
  <2>1. CheckCancellation(v, i) = v
    BY <1>1 DEF CheckCancellation
  <2> QED BY <2>1
<1>2. CASE v.ok /\ Ripe(c)
  <2> DEFINE x == c.of
             z == Enforced(u, i, x)
             w == [ok |-> NoComplaintAgainst(u, x), tender |-> z]
  <2>0. Shape(u) /\ i \in Nth(u.cancellations) /\ t.cancellations[i] \in Cancellation
    BY ShapeParts DEF Sound, Remains
  <2>1. c = t.cancellations[i]
    <3>1. c.status = "pending"
      BY <1>2 DEF Ripe
    <3> QED BY <2>0, <3>1 DEF Remains, Activated, Cancellation
  <2>2. \A j \in Nth(c.complaints) : c.complaints[j] \in Rejected
    BY <1>2, <2>1 DEF Ripe, DraftsGone
  <2>3. /\ Sound(z) /\ z.end = u.end /\ z.complaints = u.complaints
        /\ z.cancellations = InForce(u, i)
        /\ z.status \in Terminal \cup {u.status}
        /\ \A l \in Lots : u.lots[l] # "active" => z.lots[l] # "active"
    BY <2>0, <2>2, CancellationEnforced
  <2>4. /\ Nth(z.cancellations) = Nth(u.cancellations)
        /\ z.cancellations[i] = Activated(c)
        /\ \A k \in Nth(u.cancellations) : k # i => z.cancellations[k] = u.cancellations[k]
        /\ z.cancellations[i].status = "active"
    <3> HIDE DEF z
    <3> QED BY <2>0, <2>3, CancellationsInForce DEF Nth
  <2>5. CheckCancellation(v, i) = w
    BY <1>2 DEF CheckCancellation, Enforced
  <2> HIDE DEF z
  <2>6. NoComplaintAgainst(u, x) = NoComplaintAgainst(t, x)
    BY DEF Remains, NoComplaintAgainst
  <2>7. z.cancellations[i] # t.cancellations[i]
    <3>1. t.cancellations[i].status = "pending"
      BY <1>2, <2>1 DEF Ripe
    <3> QED BY <2>4, <3>1
  <2>8. ASSUME NEW k \in Nth(t.cancellations)
        PROVE  \/ z.cancellations[k] = t.cancellations[k]
               \/ /\ Ripe(t.cancellations[k])
                  /\ z.cancellations[k] = Activated(t.cancellations[k])
                  /\ NoComplaintAgainst(u, x) => NoComplaintAgainst(t, t.cancellations[k].of)
    <3>1. CASE k = i
      BY <1>2, <2>1, <2>4, <2>6, <3>1
    <3>2. CASE k # i
      BY <1>2, <2>4, <3>2 DEF Remains
    <3> QED BY <3>1, <3>2
  <2>9. Remains(t, w)
    <3>1. w.tender = z /\ w.ok = NoComplaintAgainst(u, x)
      OBVIOUS
    <3>2. /\ z.status \in Terminal \cup {t.status}
          /\ \A l \in Lots : t.lots[l] # "active" => z.lots[l] # "active"
          /\ z.end = t.end /\ z.complaints = t.complaints
          /\ Nth(z.cancellations) = Nth(t.cancellations)
      BY <2>3, <2>4 DEF Remains
    <3> HIDE DEF w
    <3> QED BY <2>7, <2>8, <3>1, <3>2, Zenon DEF Remains
  <2> QED BY <2>3, <2>5, <2>9
<1> QED BY <1>1, <1>2

LEMMA CancellationsVisited ==
  ASSUME NEW t, Sound(t), DraftsGone(t)
  PROVE  Sound(CheckCancellations(t).tender) /\ Remains(t, CheckCancellations(t))
<1> DEFINE n == Len(t.cancellations)
<1>1. Shape(t) /\ n \in Nat /\ Nth(t.cancellations) = 1 .. n
  BY ShapeParts DEF Sound
<1>2. PICK f : Visits(t, n, f) /\ CheckCancellations(t) = f[n]
  BY <1>1, VisitComputed
<1> DEFINE S == {m \in Nat : m <= n => Sound(f[m].tender) /\ Remains(t, f[m])}
<1>3. 0 \in S
  <2>1. f[0] = [ok |-> TRUE, tender |-> t]
    BY <1>1, <1>2 DEF Visits
  <2>2. f[0].tender = t
    BY <2>1
  <2> QED BY <2>2 DEF Remains
<1>4. ASSUME NEW m \in Nat, m \in S PROVE m + 1 \in S
  <2> SUFFICES ASSUME m + 1 <= n
               PROVE  Sound(f[m + 1].tender) /\ Remains(t, f[m + 1])
    OBVIOUS
  <2>1. m + 1 \in Nth(t.cancellations) /\ m <= n
    BY <1>1
  <2>2. f[m + 1] = CheckCancellation(f[m], m + 1)
    <3> DEFINE first == [ok |-> TRUE, tender |-> t]
    <3> HIDE DEF n, S, first
    <3>1. f = [i \in 0 .. n |-> IF i = 0 THEN first ELSE CheckCancellation(f[i - 1], i)]
      BY <1>2 DEF Visits, first
    <3>2. m + 1 \in 0 .. n /\ m + 1 # 0 /\ (m + 1) - 1 = m
      BY <1>1
    <3> QED BY <3>1, <3>2
  <2>3. Sound(f[m].tender) /\ Remains(t, f[m])
    BY <1>4, <2>1
  <2> QED BY <1>1, <2>1, <2>2, <2>3, PlaceVisited
<1>5. n \in S
  <2> HIDE DEF S
  <2> QED BY <1>1, <1>3, <1>4, SetInduction, Zenon
<1> QED BY <1>1, <1>2, <1>5

-----------------------------------------------------------------------------
(* The rest of a visit, and the requests.                                  *)

LEMMA AuctionStarted ==
  ASSUME NEW t, Sound(t), t.status = "active.tendering", NEW enough
  PROVE  LET u == StartAuction(t, enough) IN
         /\ Sound(u) /\ u.end = t.end
         /\ u.complaints = t.complaints /\ u.cancellations = t.cancellations
         /\ \A l \in Lots : t.lots[l] # "active" => u.lots[l] # "active"
<1> DEFINE L == [l \in Lots |-> IF t.lots[l] = "active" /\ l \notin enough
                                THEN "unsuccessful" ELSE t.lots[l]]
           v == [t EXCEPT !.lots = L]
           failed == IF Lots = {} THEN Whole \notin enough
                                  ELSE LotStatuses(v) \subseteq Terminal
           s == IF failed THEN "unsuccessful" ELSE "active.auction"
<1>0. Shape(t)
  BY DEF Sound
<1>1. /\ L \in [Lots -> LotStatus]
      /\ \A l \in Lots : t.lots[l] = "cancelled" => L[l] = "cancelled"
      /\ \A l \in Lots : t.lots[l] # "active" => L[l] # "active"
  BY <1>0, ShapeParts DEF LotStatus, Terminal
<1>2. s \in TenderStatus /\ t.status \notin Terminal
  BY DEF TenderStatus, Terminal
<1>3. StartAuction(t, enough) = [v EXCEPT !.status = s]
  BY DEF StartAuction
<1> HIDE DEF L, s
<1> DEFINE u == [[t EXCEPT !.lots = L] EXCEPT !.status = s]
<1>4. /\ Sound(u)
      /\ u = [status |-> s, lots |-> L, end |-> t.end,
              cancellations |-> t.cancellations, complaints |-> t.complaints]
  BY <1>1, <1>2, OutcomeChanges
<1>5. StartAuction(t, enough) = u
  BY <1>3
<1> HIDE DEF u
<1> QED BY <1>1, <1>4, <1>5

\* What a visit that saves has found and what it stores.
LEMMA VisitFinds ==
  ASSUME Sound(tender), Chronograph \/ Visit
  PROVE  LET t == CheckDrafts(tender)
             v == CheckCancellations(t)
         IN /\ Sound(t) /\ Purged(tender, t) /\ DraftsGone(t)
            /\ v.ok /\ Sound(v.tender) /\ Remains(t, v)
            /\ \/ tender' = v.tender
               \/ /\ TenderingOver(v.tender)
                  /\ \E enough : tender' = StartAuction(v.tender, enough)
<1>1. LET t == CheckDrafts(tender) IN Sound(t) /\ Purged(tender, t) /\ DraftsGone(t)
  BY DraftsDropped
<1> DEFINE t == CheckDrafts(tender)
           v == CheckCancellations(t)
<1>2. Sound(t) /\ Purged(tender, t) /\ DraftsGone(t)
  BY <1>1
<1> HIDE DEF t
<1>3. Sound(v.tender) /\ Remains(t, v)
  BY <1>2, CancellationsVisited
<1>4. /\ v.ok
      /\ \/ tender' = v.tender
         \/ /\ TenderingOver(v.tender)
            /\ \E enough : tender' = StartAuction(v.tender, enough)
  BY DEF Chronograph, Visit, Checked, Save, t
<1> QED BY <1>2, <1>3, <1>4 DEF t

LEMMA ChronographStep ==
  ASSUME Sound(tender), Chronograph \/ Visit
  PROVE  Sound(tender')
<1>1. PICK v : /\ Sound(v.tender)
               /\ \/ tender' = v.tender
                  \/ /\ TenderingOver(v.tender)
                     /\ \E enough : tender' = StartAuction(v.tender, enough)
  BY VisitFinds
<1>2. ASSUME NEW enough, TenderingOver(v.tender), tender' = StartAuction(v.tender, enough)
      PROVE  Sound(tender')
  BY <1>1, <1>2, AuctionStarted DEF TenderingOver
<1> QED BY <1>1, <1>2

\* What a request does to cancellation i, whose complaints become ms.
Moved(i, s, since, ms) ==
  LET c == tender.cancellations[i] IN
  [of |-> c.of, since |-> since, complaints |-> ms, status |-> s]

LEMMA PostCancellationStep ==
  ASSUME Sound(tender), NEW x \in Targets, PostCancellation(x)
  PROVE  /\ Sound(tender')
         /\ tender'.status = tender.status /\ tender'.lots = tender.lots
         /\ tender'.end = tender.end /\ tender'.complaints = tender.complaints
         /\ Nth(tender.cancellations) \subseteq Nth(tender'.cancellations)
         /\ \A i \in Nth(tender.cancellations) :
              tender'.cancellations[i] = tender.cancellations[i]
         /\ \A i \in Nth(tender'.cancellations) \ Nth(tender.cancellations) :
              tender'.cancellations[i] =
                [of |-> x, since |-> 0, complaints |-> <<>>, status |-> "draft"]
<1> DEFINE t == tender
           c == [of |-> x, since |-> 0, complaints |-> <<>>, status |-> "draft"]
           cs == Append(t.cancellations, c)
           u == [status |-> t.status, lots |-> t.lots, end |-> t.end,
                 cancellations |-> cs, complaints |-> t.complaints]
<1>0. Shape(t) /\ t.cancellations \in Seq(Cancellation)
  BY ShapeParts DEF Sound
<1>1. c \in Cancellation /\ ~ Active(c)
  BY DEF Cancellation, Active
<1>2. tender' = [t EXCEPT !.cancellations = cs]
  BY DEF PostCancellation, Save
<1> HIDE DEF c
<1>3. /\ cs \in Seq(Cancellation) /\ Nth(cs) = Nth(t.cancellations) \cup {Len(t.cancellations) + 1}
      /\ cs[Len(t.cancellations) + 1] = c
      /\ \A i \in Nth(t.cancellations) : cs[i] = t.cancellations[i]
  BY <1>0, <1>1, AppendProperties, LenProperties DEF Nth
<1> HIDE DEF cs
<1>4. tender' = u
  BY <1>0, <1>2, Rebuilt
<1>5. Shape(u)
  BY <1>0, <1>3, ShapeParts DEF Shape, TenderRecord
<1>6. FinalInForce(u)
  <2> SUFFICES ASSUME NEW i \in Nth(cs), Active(cs[i])
               PROVE  /\ \A j \in Nth(cs[i].complaints) : cs[i].complaints[j] \in Rejected
                      /\ Closed(u, cs[i].of)
    BY DEF FinalInForce
  <2>1. i \in Nth(t.cancellations) /\ cs[i] = t.cancellations[i]
    BY <1>1, <1>3
  <2> QED BY <2>1 DEF Sound, FinalInForce, Closed
<1>7. Sound(u)
  BY <1>5, <1>6 DEF Sound
<1>8. \A i \in Nth(cs) \ Nth(t.cancellations) : cs[i] = c
  BY <1>3
<1> QED BY <1>3, <1>4, <1>7, <1>8 DEF c

LEMMA SubmitStep ==
  ASSUME IInv, NEW i \in Nth(tender.cancellations), SubmitCancellation(i)
  PROVE  /\ Follows(tender, i, Moved(i, "pending", now, tender.cancellations[i].complaints))
         /\ tender' = [tender EXCEPT !.cancellations[i] =
                         Moved(i, "pending", now, tender.cancellations[i].complaints)]
         /\ tender.cancellations[i].status = "draft"
<1> DEFINE c == tender.cancellations[i]
           d == Moved(i, "pending", now, c.complaints)
<1>1. c \in Cancellation /\ now \in Nat
  BY ShapeParts, BoundsAssumption DEF IInv, Sound
<1>2. d \in Cancellation /\ ~ Active(d)
  BY <1>1 DEF Moved, Cancellation, Active
<1>3. tender' = [tender EXCEPT !.cancellations[i] = d]
  <2> DEFINE e == [c EXCEPT !.status = "pending"]
             f == [e EXCEPT !.since = now]
  <2>1. tender' = [tender EXCEPT !.cancellations[i] = f]
    BY <1>1 DEF SubmitCancellation, Save, Cancellation
  <2>2. PICK x, since, ms, s :
          c = [of |-> x, since |-> since, complaints |-> ms, status |-> s]
    BY <1>1, CancellationParts
  <2>3. e = [of |-> x, since |-> since, complaints |-> ms, status |-> "pending"]
    BY <2>2
  <2> HIDE DEF e
  <2>4. f = [of |-> x, since |-> now, complaints |-> ms, status |-> "pending"]
    BY <2>3
  <2>5. f = d
    BY <2>2, <2>4 DEF Moved
  <2> QED BY <2>1, <2>5
<1>4. d.of = c.of /\ c.status = "draft"
  BY DEF Moved, SubmitCancellation
<1> HIDE DEF d
<1>5. Follows(tender, i, d)
  BY <1>2, <1>4 DEF Follows
<1> QED BY <1>3, <1>4, <1>5 DEF d

LEMMA StopStep ==
  ASSUME Sound(tender), NEW i \in Nth(tender.cancellations),
         DropCancellation(i) \/ WithdrawCancellation(i)
  PROVE  LET c == tender.cancellations[i] IN
         /\ Follows(tender, i, Moved(i, "unsuccessful", c.since, c.complaints))
         /\ tender' = [tender EXCEPT !.cancellations[i] =
                         Moved(i, "unsuccessful", c.since, c.complaints)]
         /\ c.status \in {"draft", "pending"}
<1> DEFINE c == tender.cancellations[i]
           d == [c EXCEPT !.status = "unsuccessful"]
<1>1. c \in Cancellation
  BY ShapeParts DEF Sound
<1>2. d = Moved(i, "unsuccessful", c.since, c.complaints) /\ d \in Cancellation /\ ~ Active(d)
  BY <1>1 DEF Moved, Cancellation, Active
<1>3. tender' = [tender EXCEPT !.cancellations[i] = d]
  BY DEF DropCancellation, WithdrawCancellation, Save, Sound
<1> HIDE DEF d
<1> QED BY <1>1, <1>2, <1>3 DEF Follows, DropCancellation, WithdrawCancellation, Moved

\* Complaints about the tender move neither its status nor a cancellation.
LEMMA ComplaintSteps ==
  ASSUME Sound(tender),
         \/ \E x \in Targets : PostComplaint(x)
         \/ \E k \in Nth(tender.complaints) :
              ResolveComplaint(k) \/ \E to \in ComplaintStatus : PatchComplaint(k, to)
  PROVE  /\ Sound(tender')
         /\ tender'.status = tender.status /\ tender'.cancellations = tender.cancellations
         /\ tender'.lots = tender.lots /\ tender'.end = tender.end
<1> DEFINE t == tender
<1>0. Shape(t) /\ t.complaints \in Seq(Complaint) /\ Nth(t.complaints) = DOMAIN t.complaints
  BY ShapeParts DEF Sound, Nth
<1>1. ASSUME NEW ks \in Seq(Complaint), tender' = [t EXCEPT !.complaints = ks]
      PROVE  /\ Sound(tender')
             /\ tender'.status = t.status /\ tender'.cancellations = t.cancellations
             /\ tender'.lots = t.lots /\ tender'.end = t.end
  <2>1. 0 \in Nat
    OBVIOUS
  <2>2. Sound([t EXCEPT !.complaints = ks])
    BY <2>1, OtherFields
  <2>3. [t EXCEPT !.complaints = ks] =
          [status |-> t.status, lots |-> t.lots, end |-> t.end,
           cancellations |-> t.cancellations, complaints |-> ks]
    BY <1>0, Rebuilt
  <2> QED BY <1>1, <2>2, <2>3
<1>2. ASSUME NEW x \in Targets, PostComplaint(x)
      PROVE  \E ks \in Seq(Complaint) : tender' = [t EXCEPT !.complaints = ks]
  <2> DEFINE k == [about |-> x, status |-> "draft"]
  <2>1. k \in Complaint
    BY DEF Complaint, ComplaintStatus
  <2>2. tender' = [t EXCEPT !.complaints = Append(t.complaints, k)]
    BY <1>2 DEF PostComplaint, Save
  <2> HIDE DEF k
  <2>3. Append(t.complaints, k) \in Seq(Complaint)
    BY <1>0, <2>1, AppendProperties
  <2> QED BY <2>2, <2>3
<1>3. ASSUME NEW k \in Nth(t.complaints), NEW to \in ComplaintStatus,
             tender' = [t EXCEPT !.complaints[k].status = to]
      PROVE  \E ks \in Seq(Complaint) : tender' = [t EXCEPT !.complaints = ks]
  <2> DEFINE b == [t.complaints[k] EXCEPT !.status = to]
             ks == [t.complaints EXCEPT ![k] = b]
  <2>1. tender' = [t EXCEPT !.complaints = ks]
    BY <1>0, <1>3, PartOfField
  <2>2. b \in Complaint
    BY <1>0, ShapeParts DEF Complaint
  <2> HIDE DEF b
  <2>3. ks \in Seq(Complaint)
    BY <1>0, <2>2
  <2> QED BY <2>1, <2>3
<1>4. ASSUME NEW k \in Nth(t.complaints), ResolveComplaint(k)
      PROVE  tender' = [t EXCEPT !.complaints[k].status = "resolved"]
             /\ "resolved" \in ComplaintStatus
  BY <1>4 DEF ResolveComplaint, Save, ComplaintStatus
<1>5. ASSUME NEW k \in Nth(t.complaints), NEW to \in ComplaintStatus, PatchComplaint(k, to)
      PROVE  tender' = [t EXCEPT !.complaints[k].status = to]
  BY <1>5 DEF PatchComplaint, Save
<1> QED BY <1>1, <1>2, <1>3, <1>4, <1>5

\* A complaint about a cancellation is posted or reviewed: none is resolved.
LEMMA ObjectionSteps ==
  ASSUME Sound(tender), NEW i \in Nth(tender.cancellations),
         \/ PostObjection(i)
         \/ \E j \in Nth(tender.cancellations[i].complaints), to \in ComplaintStatus :
              PatchObjection(i, j, to)
  PROVE  LET c == tender.cancellations[i] IN
         \E ms \in Seq(ComplaintStatus) :
           /\ Follows(tender, i, Moved(i, c.status, c.since, ms))
           /\ tender' = [tender EXCEPT !.cancellations[i] = Moved(i, c.status, c.since, ms)]
           /\ ms # <<>> /\ (c.status = "draft" => c.complaints # <<>>)
           /\ \A j \in Nth(ms) : ms[j] = "resolved" =>
                j \in Nth(c.complaints) /\ c.complaints[j] = "resolved"
           /\ \A j \in Nth(c.complaints) : c.complaints[j] = "resolved" =>
                j \in Nth(ms) /\ ms[j] = "resolved"
<1> DEFINE c == tender.cancellations[i]
<1>0. c \in Cancellation /\ c.complaints \in Seq(ComplaintStatus) /\ Shape(tender)
  BY ShapeParts, CancellationParts DEF Sound
<1>1. ASSUME NEW ms \in Seq(ComplaintStatus),
             tender' = [tender EXCEPT !.cancellations[i].complaints = ms],
             Active(c) => \A j \in Nth(ms) : j \in Nth(c.complaints)
                            /\ (c.complaints[j] \in Rejected => ms[j] \in Rejected)
      PROVE  /\ Follows(tender, i, Moved(i, c.status, c.since, ms))
             /\ tender' = [tender EXCEPT !.cancellations[i] = Moved(i, c.status, c.since, ms)]
  <2> DEFINE d == Moved(i, c.status, c.since, ms)
             e == [c EXCEPT !.complaints = ms]
  <2>1. tender' = [tender EXCEPT !.cancellations[i] = e]
    BY <1>0, <1>1, PartOfField
  <2>2. e = d
    BY <1>0 DEF Moved, Cancellation
  <2>3. d \in Cancellation /\ d.of = c.of /\ d.complaints = ms /\ d.status = c.status
    BY <1>0 DEF Moved, Cancellation
  <2> HIDE DEF d, e
  <2>4. Follows(tender, i, d)
    BY <1>1, <2>3 DEF Follows, Active
  <2> QED BY <2>1, <2>2, <2>4 DEF d
<1>2. CASE PostObjection(i)
  <2> DEFINE ms == Append(c.complaints, "draft")
  <2>1. /\ ms \in Seq(ComplaintStatus) /\ ms # <<>>
        /\ \A j \in Nth(ms) : ms[j] = "resolved" =>
             j \in Nth(c.complaints) /\ c.complaints[j] = "resolved"
        /\ \A j \in Nth(c.complaints) : c.complaints[j] = "resolved" =>
             j \in Nth(ms) /\ ms[j] = "resolved"
    <3>1. "draft" \in ComplaintStatus
      BY DEF ComplaintStatus
    <3>2. /\ ms \in Seq(ComplaintStatus) /\ DOMAIN ms = 1 .. Len(c.complaints) + 1
          /\ ms[Len(c.complaints) + 1] = "draft"
          /\ \A j \in 1 .. Len(c.complaints) : ms[j] = c.complaints[j]
      BY <1>0, <3>1, AppendProperties, LenProperties
    <3>3. DOMAIN c.complaints = 1 .. Len(c.complaints) /\ Len(c.complaints) \in Nat
      BY <1>0, LenProperties
    <3> HIDE DEF ms, c
    <3> QED BY <3>2, <3>3 DEF Nth
  <2>2. c.status = "pending" /\ tender' = [tender EXCEPT !.cancellations[i].complaints = ms]
    BY <1>2 DEF PostObjection, Save
  <2> HIDE DEF ms
  <2> QED BY <1>1, <2>1, <2>2 DEF Active
<1>3. ASSUME NEW j \in Nth(c.complaints), NEW to \in ComplaintStatus, PatchObjection(i, j, to)
      PROVE  \E ms \in Seq(ComplaintStatus) :
               /\ Follows(tender, i, Moved(i, c.status, c.since, ms))
               /\ tender' = [tender EXCEPT !.cancellations[i] = Moved(i, c.status, c.since, ms)]
               /\ ms # <<>> /\ c.complaints # <<>>
               /\ \A k \in Nth(ms) : ms[k] = "resolved" =>
                    k \in Nth(c.complaints) /\ c.complaints[k] = "resolved"
               /\ \A k \in Nth(c.complaints) : c.complaints[k] = "resolved" =>
                    k \in Nth(ms) /\ ms[k] = "resolved"
  <2> DEFINE ms == [c.complaints EXCEPT ![j] = to]
  <2>1. /\ ms \in Seq(ComplaintStatus) /\ Nth(ms) = Nth(c.complaints) /\ ms[j] = to
        /\ \A k \in Nth(c.complaints) : k # j => ms[k] = c.complaints[k]
    BY <1>0 DEF Nth
  <2>2. /\ tender' = [tender EXCEPT !.cancellations[i].complaints = ms]
        /\ to # "resolved" /\ c.complaints[j] \notin Rejected \cup {"resolved"}
    BY <1>0, <1>3 DEF PatchObjection, Save, Settled, Reviewed, Rejected
  <2> HIDE DEF ms
  <2>3. ms # <<>> /\ c.complaints # <<>>
    BY <2>1 DEF Nth
  <2> QED BY <1>1, <2>1, <2>2, <2>3
<1> QED BY <1>2, <1>3

\* What is left out of the whole days is less than an hour.
LEMMA AlmostAll ==
  ASSUME NEW time \in Nat
  PROVE  WholeDays(time) \in Nat /\ WholeDays(time) + Hour > time
<1>0. Hour \in Nat /\ Hour >= 1 /\ Day \in Nat /\ Day > 0 /\ Hour <= Day
  BY DayAssumption
<1> DEFINE rest == time % Day
           days == time - rest
<1>1. rest \in Nat /\ rest < Day
  BY <1>0
<1>2. days \in Nat
  <2>1. rest <= time
    BY <1>0
  <2> QED BY <1>1, <2>1
<1>3. time = days + rest
  BY <1>1
<1>4. WholeDays(time) = IF rest >= Hour \/ days = 0 THEN days + Day ELSE days
  BY DEF WholeDays
<1> HIDE DEF rest, days
<1> QED BY <1>0, <1>1, <1>2, <1>3, <1>4

\* A complaint about a cancellation is resolved: the time is given back.
LEMMA ResolveStep ==
  ASSUME IInv, NEW i \in Nth(tender.cancellations),
         NEW j \in Nth(tender.cancellations[i].complaints), ResolveObjection(i, j)
  PROVE  LET c == tender.cancellations[i]
             ms == [c.complaints EXCEPT ![j] = "resolved"]
             u == [tender EXCEPT !.cancellations[i] = Moved(i, c.status, c.since, ms)]
         IN /\ Follows(tender, i, Moved(i, c.status, c.since, ms))
            /\ \E e \in Nat :
                 /\ tender' = [u EXCEPT !.end = e] /\ tender.end <= e
                 /\ tender.status = "active.tendering" /\ c.since < tender.end =>
                      (e - now) + Hour > tender.end - c.since
<1> DEFINE c == tender.cancellations[i]
           ms == [c.complaints EXCEPT ![j] = "resolved"]
           d == Moved(i, c.status, c.since, ms)
           u == [tender EXCEPT !.cancellations[i] = d]
<1>0. /\ c \in Cancellation /\ c.complaints \in Seq(ComplaintStatus) /\ Shape(tender)
      /\ c.since \in Nat /\ now \in Nat /\ Sound(tender)
  BY ShapeParts, CancellationParts, BoundsAssumption DEF Sound, IInv
<1>1. /\ ms \in Seq(ComplaintStatus) /\ c.status = "unsuccessful"
  <2>1. "resolved" \in ComplaintStatus
    BY DEF ComplaintStatus
  <2>2. c.status = "unsuccessful"
    BY DEF ResolveObjection
  <2> QED BY <1>0, <2>1, <2>2 DEF Nth
<1>2. tender' = Prolonged(u, c.since)
  <2> DEFINE e == [c EXCEPT !.complaints = ms]
  <2>1. [tender EXCEPT !.cancellations[i].complaints[j] = "resolved"] =
          [tender EXCEPT !.cancellations[i] = e]
    BY <1>0, ShapeParts
  <2>2. e = d
    BY <1>0 DEF Moved, Cancellation
  <2> QED BY <2>1, <2>2 DEF ResolveObjection, Save
<1> HIDE DEF ms
<1>3. d \in Cancellation /\ d.of = c.of /\ d.status = c.status
  BY <1>0, <1>1 DEF Moved, Cancellation
<1> HIDE DEF d
<1>4. Follows(tender, i, d)
  BY <1>1, <1>3 DEF Follows, Active
<1>5. Sound(u)
  BY <1>0, <1>4, CancellationChanged
<1>6. u.status = tender.status /\ u.end = tender.end
  <2>1. u = [tender EXCEPT !.cancellations = [tender.cancellations EXCEPT ![i] = d]]
    BY <1>0, PartOfField
  <2> HIDE DEF u
  <2> QED BY <1>0, <2>1, Rebuilt
<1>7. u.end \in Nat /\ u = [u EXCEPT !.end = u.end]
  BY <1>5, ShapeParts DEF Sound
<1> HIDE DEF u
<1>8. \E e \in Nat :
        /\ tender' = [u EXCEPT !.end = e] /\ tender.end <= e
        /\ tender.status = "active.tendering" /\ c.since < tender.end =>
             (e - now) + Hour > tender.end - c.since
  <2> DEFINE extra == WholeDays(Elapsed(c.since))
  <2>1. u.end + extra \in Nat /\ u.end <= u.end + extra
        /\ ((u.end + extra) - now) + Hour > u.end - c.since
    <3>1. u.end \in Nat /\ c.since \in Nat /\ now \in Nat
      BY <1>0, <1>7
    <3> DEFINE b == c.since
    <3>2. Elapsed(b) \in Nat /\ Elapsed(b) >= now - b
      BY <3>1 DEF Elapsed
    <3>3. WholeDays(Elapsed(b)) \in Nat /\ WholeDays(Elapsed(b)) + Hour > Elapsed(b)
      BY <3>2, AlmostAll
    <3>4. Hour \in Nat
      BY DayAssumption
    <3> DEFINE more == WholeDays(Elapsed(b))
               some == Elapsed(b)
    <3>5. more \in Nat /\ some \in Nat /\ more + Hour > some /\ some >= now - b /\ b \in Nat
      BY <3>1, <3>2, <3>3
    <3> HIDE DEF more, some, b
    <3>6. u.end + more \in Nat /\ u.end <= u.end + more
          /\ ((u.end + more) - now) + Hour > u.end - b
      BY <3>1, <3>4, <3>5
    <3> QED BY <3>6 DEF more, b
  <2>2. CASE u.status = "active.tendering" /\ c.since < u.end
    <3>1. tender' = [u EXCEPT !.end = u.end + extra]
      BY <1>2, <2>2 DEF Prolonged
    <3> HIDE DEF extra
    <3> QED BY <1>6, <2>1, <3>1
  <2>3. CASE ~ (u.status = "active.tendering" /\ c.since < u.end)
    <3>1. tender' = u
      BY <1>2, <2>3 DEF Prolonged
    <3> QED BY <1>6, <1>7, <2>3, <3>1
  <2> QED BY <2>2, <2>3
<1> QED BY <1>4, <1>8 DEF u, d, ms

\* The document u is t with d in place of cancellation i.
Replaced(t, i, d, u) ==
  /\ Sound(u) /\ u.status = t.status /\ u.lots = t.lots /\ u.end = t.end
  /\ Nth(u.cancellations) = Nth(t.cancellations) /\ u.cancellations[i] = d
  /\ \A k \in Nth(t.cancellations) : k # i => u.cancellations[k] = t.cancellations[k]
  /\ Active(d) => Active(t.cancellations[i])

LEMMA CancellationReplaced ==
  ASSUME NEW t, Sound(t), NEW i \in Nth(t.cancellations), NEW d, Follows(t, i, d)
  PROVE  Replaced(t, i, d, [t EXCEPT !.cancellations[i] = d])
<1> DEFINE cs == [t.cancellations EXCEPT ![i] = d]
           u == [t EXCEPT !.cancellations = cs]
<1>0. Shape(t) /\ t.cancellations \in Seq(Cancellation)
  BY ShapeParts DEF Sound
<1>1. [t EXCEPT !.cancellations[i] = d] = u
  BY <1>0, PartOfField
<1>2. /\ Nth(cs) = Nth(t.cancellations) /\ cs[i] = d
      /\ \A k \in Nth(t.cancellations) : k # i => cs[k] = t.cancellations[k]
  BY <1>0 DEF Nth
<1> HIDE DEF cs
<1>3. u = [status |-> t.status, lots |-> t.lots, end |-> t.end,
           cancellations |-> cs, complaints |-> t.complaints]
  BY <1>0, Rebuilt
<1>4. Sound(u)
  BY <1>1, CancellationChanged
<1> HIDE DEF u
<1>5. Replaced(t, i, d, u)
  BY <1>2, <1>3, <1>4 DEF Replaced, Follows
<1> QED BY <1>1, <1>5

\* What a request does to the status of the tender and to its cancellations.
\* Only a complaint that is resolved redresses one, and it gives the time back.
LEMMA RequestMoves ==
  ASSUME IInv, Requests \/ \E e \in TenderPeriod .. MaxEnd : ExtendTenderPeriod(e)
  PROVE  /\ Sound(tender') /\ tender'.status = tender.status
         /\ \A i \in Nth(tender.cancellations) :
              /\ Active(tender'.cancellations[i]) => Active(tender.cancellations[i])
              /\ /\ Unredressed(tender.cancellations[i])
                 /\ ~ Unredressed(tender'.cancellations[i])
                 /\ tender.status = "active.tendering"
                 /\ tender.cancellations[i].since < tender.end
                 => (tender'.end - now) + Hour > tender.end - tender.cancellations[i].since
<1> DEFINE t == tender
           Given(i) ==
             /\ Unredressed(t.cancellations[i]) /\ ~ Unredressed(tender'.cancellations[i])
             /\ t.status = "active.tendering" /\ t.cancellations[i].since < t.end
             => (tender'.end - now) + Hour > t.end - t.cancellations[i].since
<1>0. Sound(t) /\ Shape(t) /\ t.cancellations \in Seq(Cancellation)
  BY ShapeParts DEF IInv, Sound
<1>1. ASSUME Sound(tender'), tender'.status = t.status,
             \A k \in Nth(t.cancellations) : tender'.cancellations[k] = t.cancellations[k]
      PROVE  /\ Sound(tender') /\ tender'.status = t.status
             /\ \A k \in Nth(t.cancellations) :
                  (Active(tender'.cancellations[k]) => Active(t.cancellations[k])) /\ Given(k)
  BY <1>1
<1>3. ASSUME NEW i \in Nth(t.cancellations), NEW d, Follows(t, i, d),
             tender' = [t EXCEPT !.cancellations[i] = d],
             Unredressed(t.cancellations[i]) => Unredressed(d)
      PROVE  /\ Sound(tender') /\ tender'.status = t.status
             /\ \A k \in Nth(t.cancellations) :
                  (Active(tender'.cancellations[k]) => Active(t.cancellations[k])) /\ Given(k)
  <2>1. /\ Sound(tender') /\ tender'.status = t.status
        /\ tender'.cancellations[i] = d /\ (Active(d) => Active(t.cancellations[i]))
        /\ \A k \in Nth(t.cancellations) : k # i => tender'.cancellations[k] = t.cancellations[k]
    <3>1. Replaced(t, i, d, tender')
      BY <1>0, <1>3, CancellationReplaced, Zenon
    <3> QED BY <3>1 DEF Replaced
  <2> QED BY <1>3, <2>1
<1>4. ASSUME NEW x \in Targets, PostCancellation(x) \/ PostComplaint(x)
      PROVE  /\ Sound(tender') /\ tender'.status = t.status
             /\ \A k \in Nth(t.cancellations) :
                  (Active(tender'.cancellations[k]) => Active(t.cancellations[k])) /\ Given(k)
  BY <1>0, <1>1, <1>4, PostCancellationStep, ComplaintSteps
<1>5. ASSUME NEW k \in Nth(t.complaints),
             ResolveComplaint(k) \/ \E to \in ComplaintStatus : PatchComplaint(k, to)
      PROVE  /\ Sound(tender') /\ tender'.status = t.status
             /\ \A i \in Nth(t.cancellations) :
                  (Active(tender'.cancellations[i]) => Active(t.cancellations[i])) /\ Given(i)
  BY <1>0, <1>1, <1>5, ComplaintSteps
<1>6. ASSUME NEW i \in Nth(t.cancellations),
             SubmitCancellation(i) \/ DropCancellation(i) \/ WithdrawCancellation(i)
      PROVE  /\ Sound(tender') /\ tender'.status = t.status
             /\ \A k \in Nth(t.cancellations) :
                  (Active(tender'.cancellations[k]) => Active(t.cancellations[k])) /\ Given(k)
  <2>1. t.cancellations[i].status # "unsuccessful"
    BY <1>6 DEF SubmitCancellation, DropCancellation, WithdrawCancellation
  <2>2. ~ Unredressed(t.cancellations[i])
    BY <2>1 DEF Unredressed
  <2>3. \E d : Follows(t, i, d) /\ tender' = [t EXCEPT !.cancellations[i] = d]
    BY <1>0, <1>6, SubmitStep, StopStep
  <2> QED BY <1>3, <2>2, <2>3
<1>7. ASSUME NEW i \in Nth(t.cancellations),
             \/ PostObjection(i)
             \/ \E j \in Nth(t.cancellations[i].complaints), to \in ComplaintStatus :
                  PatchObjection(i, j, to)
      PROVE  /\ Sound(tender') /\ tender'.status = t.status
             /\ \A k \in Nth(t.cancellations) :
                  (Active(tender'.cancellations[k]) => Active(t.cancellations[k])) /\ Given(k)
  <2> DEFINE c == t.cancellations[i]
  <2>1. PICK ms \in Seq(ComplaintStatus) :
          /\ Follows(t, i, Moved(i, c.status, c.since, ms))
          /\ tender' = [t EXCEPT !.cancellations[i] = Moved(i, c.status, c.since, ms)]
          /\ ms # <<>>
          /\ \A j \in Nth(ms) : ms[j] = "resolved" =>
               j \in Nth(c.complaints) /\ c.complaints[j] = "resolved"
    BY <1>0, <1>7, ObjectionSteps
  <2> DEFINE d == Moved(i, c.status, c.since, ms)
  <2>2. d.status = c.status /\ d.complaints = ms
    BY DEF Moved
  <2>3. Unredressed(c) => Unredressed(d)
    <3> HIDE DEF d, c
    <3> QED BY <2>1, <2>2 DEF Unredressed
  <2> HIDE DEF d
  <2> QED BY <1>3, <2>1, <2>3 DEF d
<1>8. ASSUME NEW i \in Nth(t.cancellations), NEW j \in Nth(t.cancellations[i].complaints),
             ResolveObjection(i, j)
      PROVE  /\ Sound(tender') /\ tender'.status = t.status
             /\ \A k \in Nth(t.cancellations) :
                  (Active(tender'.cancellations[k]) => Active(t.cancellations[k])) /\ Given(k)
  <2> DEFINE c == t.cancellations[i]
             d == Moved(i, c.status, c.since, [c.complaints EXCEPT ![j] = "resolved"])
             u == [t EXCEPT !.cancellations[i] = d]
  <2>1. /\ Follows(t, i, d)
        /\ \E e \in Nat :
             /\ tender' = [u EXCEPT !.end = e]
             /\ t.status = "active.tendering" /\ c.since < t.end =>
                  (e - now) + Hour > t.end - c.since
    BY <1>8, ResolveStep
  <2> HIDE DEF d
  <2>2. /\ Sound(u) /\ u.status = t.status /\ u.end = t.end
        /\ u.cancellations[i] = d
        /\ \A k \in Nth(t.cancellations) : k # i => u.cancellations[k] = t.cancellations[k]
        /\ Active(d) => Active(c)
    <3>1. Replaced(t, i, d, u)
      BY <1>0, <2>1, CancellationReplaced, Zenon
    <3> HIDE DEF u
    <3> QED BY <3>1 DEF Replaced
  <2> HIDE DEF u
  <2>3. PICK e \in Nat :
          /\ tender' = [u EXCEPT !.end = e]
          /\ t.status = "active.tendering" /\ c.since < t.end =>
                  (e - now) + Hour > t.end - c.since
    BY <2>1 DEF u
  <2>4. Sound([u EXCEPT !.end = e])
    BY <2>2, EmptySeq, OtherFields
  <2>5. [u EXCEPT !.end = e] =
          [status |-> u.status, lots |-> u.lots, end |-> e,
           cancellations |-> u.cancellations, complaints |-> u.complaints]
    BY <2>2, Rebuilt DEF Sound
  <2>6. tender'.end = e /\ tender'.cancellations = u.cancellations /\ tender'.status = u.status
    BY <2>3, <2>5
  <2>7. ASSUME NEW k \in Nth(t.cancellations)
        PROVE  (Active(tender'.cancellations[k]) => Active(t.cancellations[k])) /\ Given(k)
    <3>1. CASE k = i
      BY <2>2, <2>3, <2>6, <3>1
    <3>2. CASE k # i
      BY <2>2, <2>6, <3>2
    <3> QED BY <3>1, <3>2
  <2> QED BY <2>2, <2>3, <2>4, <2>6, <2>7
<1>9. ASSUME NEW e \in TenderPeriod .. MaxEnd, ExtendTenderPeriod(e)
      PROVE  /\ Sound(tender') /\ tender'.status = t.status
             /\ \A k \in Nth(t.cancellations) :
                  (Active(tender'.cancellations[k]) => Active(t.cancellations[k])) /\ Given(k)
  <2>1. e \in Nat
    BY PeriodsAssumption, BoundsAssumption
  <2>2. tender' = [t EXCEPT !.end = e]
    BY <1>9 DEF ExtendTenderPeriod, Save
  <2>3. Sound([t EXCEPT !.end = e])
    BY <1>0, <2>1, EmptySeq, OtherFields
  <2>4. [t EXCEPT !.end = e] =
          [status |-> t.status, lots |-> t.lots, end |-> e,
           cancellations |-> t.cancellations, complaints |-> t.complaints]
    BY <1>0, Rebuilt
  <2> QED BY <1>1, <2>2, <2>3, <2>4
<1> QED BY <1>4, <1>5, <1>6, <1>7, <1>8, <1>9 DEF Requests

-----------------------------------------------------------------------------
(* The invariant.                                                          *)

LEMMA PublishedSound == Init => IInv
<1> SUFFICES ASSUME Init PROVE IInv
  OBVIOUS
<1>1. now \in 0 .. MaxTime
  BY BoundsAssumption DEF Init
<1>2. Published \in TenderRecord
  BY PeriodsAssumption, EmptySeq DEF Published, TenderRecord, TenderStatus, LotStatus, Terminal
<1>3. FinalInForce(Published)
  BY DEF FinalInForce, Nth, Published
<1> QED BY <1>1, <1>2, <1>3 DEF Init, IInv, Sound, Shape

LEMMA IInvStep == IInv /\ [Next]_vars => IInv'
<1> SUFFICES ASSUME IInv, [Next]_vars PROVE IInv'
  OBVIOUS
<1>1. CASE NextMoment
  BY <1>1, BoundsAssumption DEF NextMoment, IInv, Sound, Shape, FinalInForce, Closed
<1>2. CASE Chronograph
  <2>1. UNCHANGED now
    BY <1>2 DEF Chronograph, Save
  <2> QED BY <1>2, <2>1, ChronographStep DEF IInv
<1>3. CASE Requests \/ \E e \in TenderPeriod .. MaxEnd : ExtendTenderPeriod(e)
  <2>1. UNCHANGED now
    BY <1>3 DEF Requests, ExtendTenderPeriod, Save, PostCancellation, PostComplaint,
       ResolveComplaint, PatchComplaint, SubmitCancellation, DropCancellation,
       WithdrawCancellation, PostObjection, ResolveObjection, PatchObjection
  <2> QED BY <1>3, <2>1, RequestMoves DEF IInv
<1>4. CASE UNCHANGED vars
  BY <1>4 DEF vars, IInv
<1> QED BY <1>1, <1>2, <1>3, <1>4 DEF Next

LEMMA Invariant == Spec => []IInv
BY PublishedSound, IInvStep, PTL DEF Spec

-----------------------------------------------------------------------------
(* Theorems.                                                               *)

\* Whatever the lots, the periods and the number of cancellations: one that
\* came into force was left without a complaint that could undo it or a draft
\* that could still be paid, and what it cancels is closed for good
\* (check_cancellation_status with the calls around it).
THEOREM CancellationsAreFinal == Spec => []CancelledForGood
<1>1. IInv => CancelledForGood
  <2> SUFFICES ASSUME IInv PROVE CancelledForGood
    OBVIOUS
  <2>1. Shape(tender)
    BY DEF IInv, Sound
  <2>2. TypeOK
    BY <2>1, ShapeParts DEF IInv, TypeOK
  <2>3. ASSUME NEW c \in ToSet(tender.cancellations), Active(c)
        PROVE  /\ ToSet(c.complaints) \subseteq Rejected
               /\ IF c.of = Whole THEN tender.status \in Terminal
                                  ELSE tender.lots[c.of] = "cancelled"
    <3>1. PICK i \in Nth(tender.cancellations) : c = tender.cancellations[i]
      BY DEF ToSet, Nth
    <3>2. /\ \A j \in Nth(c.complaints) : c.complaints[j] \in Rejected
          /\ Closed(tender, c.of)
      BY <2>3, <3>1 DEF IInv, Sound, FinalInForce
    <3> QED BY <3>2 DEF Closed, ToSet, Nth
  <2> QED BY <2>2, <2>3 DEF CancelledForGood, InForceIsFinal
<1> QED BY <1>1, Invariant, PTL

\* A visit that keeps every status of a cancellation enforced none.
LEMMA NoneInForce ==
  ASSUME NEW t, Shape(t), NEW v, Remains(t, v),
         \A i \in Nth(t.cancellations) :
           v.tender.cancellations[i].status = t.cancellations[i].status
  PROVE  v.tender = t
<1>1. ASSUME NEW i \in Nth(t.cancellations)
      PROVE  v.tender.cancellations[i] = t.cancellations[i]
  <2>1. t.cancellations[i] \in Cancellation
    BY ShapeParts
  <2>2. ASSUME Ripe(t.cancellations[i]), v.tender.cancellations[i] = Activated(t.cancellations[i])
        PROVE  FALSE
    BY <2>1, <2>2 DEF Ripe, Activated, Cancellation
  <2> QED BY <2>2 DEF Remains
<1> QED BY <1>1 DEF Remains

\* What calls for a visit that would decide something: the term of a pending
\* cancellation that is over, or the end of the tendering, when the visit finds
\* the tender and its lots as they are.
LEMMA WhatIsDue ==
  ASSUME IInv,
         \/ TenderingOver(Checked.tender)
         \/ \E i \in Nth(tender.cancellations) :
              Checked.tender.cancellations[i].status # tender.cancellations[i].status
  PROVE  \/ \E i \in Nth(tender.cancellations) :
              /\ tender.cancellations[i].status = "pending"
              /\ tender.cancellations[i].since + CancelTerm \in NextChecks(tender)
              /\ Over(tender.cancellations[i].since + CancelTerm)
         \/ /\ tender.end \in NextChecks(tender) /\ Over(tender.end)
            /\ Checked.tender.lots = tender.lots
<1> DEFINE t == CheckDrafts(tender)
           v == CheckCancellations(t)
           pended == \E i \in Nth(tender.cancellations) :
                       /\ tender.cancellations[i].status = "pending"
                       /\ tender.cancellations[i].since + CancelTerm \in NextChecks(tender)
                       /\ Over(tender.cancellations[i].since + CancelTerm)
<1>0. Checked = v
  BY DEF Checked
<1>1. Shape(tender) /\ Sound(t) /\ Purged(tender, t) /\ DraftsGone(t)
  BY DraftsDropped DEF IInv, Sound
<1> HIDE DEF t
<1>2. Sound(v.tender) /\ Remains(t, v) /\ Shape(t)
  BY <1>1, CancellationsVisited DEF Sound
<1> HIDE DEF v
<1>3. ASSUME NEW i \in Nth(tender.cancellations),
             v.tender.cancellations[i].status # tender.cancellations[i].status
      PROVE  pended
  <2> DEFINE c == tender.cancellations[i]
  <2>1. t.cancellations[i].status = c.status /\ t.cancellations[i].since = c.since
        /\ i \in Nth(t.cancellations)
    BY <1>1 DEF Purged
  <2>2. Ripe(t.cancellations[i])
    BY <1>2, <1>3, <2>1 DEF Remains
  <2>3. c.status = "pending" /\ Over(c.since + CancelTerm)
    BY <2>1, <2>2 DEF Ripe
  <2>4. c \in {b \in ToSet(tender.cancellations) : b.status = "pending"}
    BY <2>3 DEF ToSet, Nth
  <2> HIDE DEF c
  <2>5. c.since + CancelTerm \in NextChecks(tender)
    BY <2>4 DEF NextChecks
  <2> QED BY <2>3, <2>5 DEF c
<1>4. ASSUME \A i \in Nth(tender.cancellations) :
               v.tender.cancellations[i].status = tender.cancellations[i].status,
             TenderingOver(v.tender)
      PROVE  /\ tender.end \in NextChecks(tender) /\ Over(tender.end)
             /\ v.tender.lots = tender.lots
  <2>1. \A i \in Nth(t.cancellations) :
          v.tender.cancellations[i].status = t.cancellations[i].status
    BY <1>1, <1>4 DEF Purged
  <2>2. v.tender = t
    BY <1>2, <2>1, NoneInForce
  <2>3. tender.status = "active.tendering" /\ Over(tender.end) /\ ~ Unanswered(t)
        /\ t.lots = tender.lots
    BY <1>1, <1>4, <2>2 DEF TenderingOver, Purged
  <2>4. ~ Unanswered(tender)
    <3> SUFFICES ASSUME NEW k \in Nth(tender.complaints),
                        tender.complaints[k].status \in Undecided,
                        \/ tender.complaints[k].about = Whole
                        \/ tender.lots[tender.complaints[k].about] = "active"
                 PROVE  FALSE
      BY DEF Unanswered
    <3>1. /\ k \in Nth(t.complaints) /\ t.lots = tender.lots
          /\ t.complaints[k].status = tender.complaints[k].status
          /\ t.complaints[k].about = tender.complaints[k].about
      BY <1>1 DEF Purged, Undecided
    <3> QED BY <2>3, <3>1 DEF Unanswered
  <2>5. tender.end \in NextChecks(tender)
    BY <2>3, <2>4 DEF NextChecks
  <2> QED BY <2>2, <2>3, <2>5
<1> HIDE DEF pended
<1> QED BY <1>0, <1>3, <1>4, Zenon DEF pended

\* Whatever a visit would decide, next_check is due: the drafts it drops and
\* the cancellations it puts in force make no decision it was not called for.
THEOREM DecisionsScheduled == Spec => []DecisionsAreScheduled
<1>1. IInv => DecisionsAreScheduled
  BY WhatIsDue DEF DecisionsAreScheduled
<1> QED BY <1>1, Invariant, PTL

\* What a visit leaves of the complaints and cancellations of the tender.
LEMMA VisitLeaves ==
  ASSUME Sound(tender), Chronograph \/ Visit
  PROVE  /\ tender'.complaints = CheckDrafts(tender).complaints
         /\ Nth(tender'.cancellations) = Nth(tender.cancellations)
         /\ \A i \in Nth(tender.cancellations) :
              /\ ~ Active(tender.cancellations[i]) /\ Active(tender'.cancellations[i])
                 => NoComplaintAgainst(tender', tender.cancellations[i].of)
              /\ Unredressed(tender.cancellations[i]) => Unredressed(tender'.cancellations[i])
<1> DEFINE t == CheckDrafts(tender)
           v == CheckCancellations(t)
<1>1. /\ Sound(t) /\ Purged(tender, t)
      /\ v.ok /\ Sound(v.tender) /\ Remains(t, v)
      /\ \/ tender' = v.tender
         \/ /\ TenderingOver(v.tender)
            /\ \E enough : tender' = StartAuction(v.tender, enough)
  BY VisitFinds
<1> HIDE DEF t, v
<1>2. tender'.complaints = v.tender.complaints /\ tender'.cancellations = v.tender.cancellations
  <2>1. ASSUME NEW enough, TenderingOver(v.tender), tender' = StartAuction(v.tender, enough)
        PROVE  tender'.complaints = v.tender.complaints
               /\ tender'.cancellations = v.tender.cancellations
    BY <1>1, <2>1, AuctionStarted DEF TenderingOver
  <2> QED BY <1>1, <2>1
<1>3. tender'.complaints = t.complaints /\ Nth(tender'.cancellations) = Nth(t.cancellations)
      /\ Nth(t.cancellations) = Nth(tender.cancellations)
  BY <1>1, <1>2 DEF Remains, Purged
<1>4. ASSUME NEW i \in Nth(tender.cancellations),
             ~ Active(tender.cancellations[i]), Active(tender'.cancellations[i])
      PROVE  NoComplaintAgainst(tender', tender.cancellations[i].of)
  <2>1. t.cancellations[i].status = tender.cancellations[i].status
        /\ t.cancellations[i].of = tender.cancellations[i].of
    BY <1>1 DEF Purged
  <2>2. v.tender.cancellations[i] # t.cancellations[i]
    BY <1>2, <1>4, <2>1 DEF Active
  <2>3. NoComplaintAgainst(t, t.cancellations[i].of)
    BY <1>1, <1>3, <2>2 DEF Remains
  <2> QED BY <1>3, <2>1, <2>3 DEF NoComplaintAgainst
<1>5. ASSUME NEW i \in Nth(tender.cancellations), Unredressed(tender.cancellations[i])
      PROVE  Unredressed(tender'.cancellations[i])
  <2> DEFINE c == tender.cancellations[i]
             d == t.cancellations[i]
  <2>1. d.status = c.status /\ Fewer(c.complaints, d.complaints)
    BY <1>1 DEF Purged
  <2>2. ~ Ripe(d)
    BY <1>5, <2>1 DEF Ripe, Unredressed
  <2>3. tender'.cancellations[i] = d
    BY <1>1, <1>2, <1>3, <2>2 DEF Remains
  <2>4. c.complaints \in Seq(ComplaintStatus) /\ d.complaints \in Seq(ComplaintStatus)
    BY <1>1, <1>3, ShapeParts, CancellationParts DEF Sound
  <2>5. c.complaints # <<>> /\ \A j \in Nth(c.complaints) : c.complaints[j] # "resolved"
    BY <1>5 DEF Unredressed
  <2> HIDE DEF c, d
  <2>6. d.complaints # <<>>
    BY <2>1, <2>4, <2>5 DEF Fewer, Nth
  <2>7. \A j \in Nth(d.complaints) : d.complaints[j] # "resolved"
    BY <2>1, <2>5 DEF Fewer
  <2>8. d.status = "unsuccessful"
    BY <1>5, <2>1 DEF Unredressed, c
  <2> QED BY <2>3, <2>6, <2>7, <2>8 DEF Unredressed
<1> QED BY <1>3, <1>4, <1>5 DEF t

\* Requests put no cancellation in force and start no auction.
LEMMA RequestBuriesNothing ==
  ASSUME IInv, Requests \/ \E e \in TenderPeriod .. MaxEnd : ExtendTenderPeriod(e)
  PROVE  NoComplaintBuried /\ AuctionStartsClear
<1>1. tender'.status = tender.status
  BY RequestMoves
<1>2. NoComplaintBuried
  BY RequestMoves DEF NoComplaintBuried
<1>3. AuctionStartsClear
  BY <1>1 DEF AuctionStartsClear, InTendering
<1> QED BY <1>2, <1>3

LEMMA AuctionIsClear ==
  ASSUME IInv, Chronograph
  PROVE  AuctionStartsClear
<1> DEFINE t == CheckDrafts(tender)
           v == CheckCancellations(t)
           u == v.tender
<1>1. /\ Sound(t) /\ Purged(tender, t)
      /\ v.ok /\ Sound(u) /\ Remains(t, v)
      /\ \/ tender' = u
         \/ /\ TenderingOver(u)
            /\ \E enough : tender' = StartAuction(u, enough)
  BY VisitFinds DEF IInv
<1> HIDE DEF t, v
<1> SUFFICES ASSUME InTendering, tender'.status = "active.auction"
             PROVE  /\ Over(tender.end)
                    /\ \A c \in ToSet(tender'.cancellations) :
                         /\ c.status # "pending"
                         /\ c.status = "unsuccessful" /\ c.complaints # <<>> =>
                              "resolved" \in ToSet(c.complaints)
                    /\ \A k \in Nth(tender'.complaints) :
                         tender'.complaints[k].status \in Undecided =>
                           /\ tender'.complaints[k].about \in Lots
                           /\ tender'.lots[tender'.complaints[k].about] # "active"
  BY DEF AuctionStartsClear
<1>2. tender' # u
  <2>1. t.status = "active.tendering"
    BY <1>1 DEF Purged, InTendering
  <2> QED BY <1>1, <2>1 DEF Remains, Terminal
<1>3. PICK enough : TenderingOver(u) /\ tender' = StartAuction(u, enough)
  BY <1>1, <1>2
<1> HIDE DEF u
<1>4. /\ tender'.complaints = u.complaints /\ tender'.cancellations = u.cancellations
      /\ \A l \in Lots : u.lots[l] # "active" => tender'.lots[l] # "active"
      /\ Shape(u)
  BY <1>1, <1>3, AuctionStarted DEF TenderingOver, Sound
<1>5. Over(tender.end)
  BY <1>1, <1>3 DEF TenderingOver, Remains, Purged, u
<1>6. ASSUME NEW c \in ToSet(tender'.cancellations)
      PROVE  /\ c.status # "pending"
             /\ c.status = "unsuccessful" /\ c.complaints # <<>> =>
                  "resolved" \in ToSet(c.complaints)
  <2>1. PICK i \in Nth(u.cancellations) : c = u.cancellations[i]
    BY <1>4, <1>6 DEF ToSet, Nth
  <2>2. c.status # "pending" /\ ~ Unredressed(c)
    BY <1>3, <2>1 DEF TenderingOver, Blocked
  <2> QED BY <2>2 DEF Unredressed, ToSet, Nth
<1>7. ASSUME NEW k \in Nth(tender'.complaints), tender'.complaints[k].status \in Undecided
      PROVE  /\ tender'.complaints[k].about \in Lots
             /\ tender'.lots[tender'.complaints[k].about] # "active"
  <2>1. k \in Nth(u.complaints) /\ u.complaints[k] = tender'.complaints[k]
        /\ u.complaints[k] \in Complaint
    BY <1>4, <1>7, ShapeParts
  <2>2. u.complaints[k].about # Whole /\ u.lots[u.complaints[k].about] # "active"
    BY <1>3, <1>7, <2>1 DEF TenderingOver, Unanswered
  <2>3. u.complaints[k].about \in Lots
    BY <2>1, <2>2 DEF Complaint, Targets
  <2> QED BY <1>4, <2>1, <2>2, <2>3
<1> QED BY <1>5, <1>6, <1>7

\* No complaint of a bidder is overtaken: neither by a cancellation that comes
\* into force long after it was checked against them, nor by the auction, which
\* finds no cancellation on its way and amends made for those withdrawn.
THEOREM NothingBuried == Spec => NothingIsBuried
<1>1. IInv /\ [Next]_vars => [NoComplaintBuried /\ AuctionStartsClear]_vars
  <2> SUFFICES ASSUME IInv, Next PROVE (NoComplaintBuried /\ AuctionStartsClear) \/ UNCHANGED vars
    OBVIOUS
  <2>1. CASE NextMoment
    BY <2>1 DEF NextMoment, NoComplaintBuried, AuctionStartsClear, InTendering
  <2>2. CASE Chronograph
    <3>1. NoComplaintBuried
      BY <2>2, VisitLeaves DEF NoComplaintBuried, IInv
    <3> QED BY <2>2, <3>1, AuctionIsClear
  <2>3. CASE Requests \/ \E e \in TenderPeriod .. MaxEnd : ExtendTenderPeriod(e)
    BY <2>3, RequestBuriesNothing
  <2> QED BY <2>1, <2>2, <2>3 DEF Next
<1> QED BY <1>1, Invariant, PTL DEF Spec, NothingIsBuried

TimeGiven ==
  \A i \in Nth(tender.cancellations) :
    /\ InTendering /\ Unredressed(tender.cancellations[i])
    /\ ~ Unredressed(tender'.cancellations[i])
    /\ tender.cancellations[i].since < tender.end
    => (tender'.end - now) + Hour > tender.end - tender.cancellations[i].since

\* Bidders lose less than an hour to a cancellation that was withdrawn, however
\* long a day is, however many other cancellations there were and however often
\* the owner moved the deadline.
THEOREM TimeGivenBack == Spec => TimeIsGivenBack
<1>1. IInv /\ [Next]_vars => [TimeGiven]_vars
  <2> SUFFICES ASSUME IInv, Next PROVE TimeGiven \/ UNCHANGED vars
    OBVIOUS
  <2>1. CASE NextMoment
    BY <2>1 DEF NextMoment, TimeGiven
  <2>2. CASE Chronograph
    BY <2>2, VisitLeaves DEF TimeGiven, IInv
  <2>3. CASE Requests \/ \E e \in TenderPeriod .. MaxEnd : ExtendTenderPeriod(e)
    BY <2>3, RequestMoves DEF TimeGiven, InTendering
  <2> QED BY <2>1, <2>2, <2>3 DEF Next
<1> QED BY <1>1, Invariant, PTL DEF Spec, TimeIsGivenBack, TimeGiven

-----------------------------------------------------------------------------
(* Questions.  A question keeps its days as long as a cancellation holds   *)
(* it up: the days it lost are given back when amends are made.            *)

Holding(c) == c.status = "pending" \/ Unredressed(c)

\* Cancellation i withholds the question q (Withheld, of one cancellation).
HoldsUp(t, q, i) ==
  /\ Holding(t.cancellations[i])
  /\ \/ t.cancellations[i].of = Whole
     \/ ~ q.item /\ t.cancellations[i].of = q.about

\* A cancellation is complained about from the day it is submitted, and no
\* complaint is resolved while it is pending.
FitsWell(c, n) ==
  /\ c.since <= n
  /\ c.status = "draft" => c.complaints = <<>>
  /\ c.status = "pending" => \A j \in Nth(c.complaints) : c.complaints[j] # "resolved"

AllFit(t, n) == \A i \in Nth(t.cancellations) : FitsWell(t.cancellations[i], n)

\* At time n there is time left to answer q: that up to clarificationsUntil and
\* that it had make Clarification, counted from the moment a cancellation that
\* withholds it was submitted, and short of what amends did not make good.
Kept(t, n, q) ==
  \/ \E i \in Nth(t.cancellations) :
       /\ HoldsUp(t, q, i)
       /\ t.cancellations[i].since + EnquiryLead <= t.end + q.free + Short(t)
  \/ n + EnquiryLead <= t.end + q.free + Short(t)

Promise(t, n, q) ==
  \/ q.hurried \/ Clarification <= q.free + Short(t)
  \/ t.status # "active.tendering" \/ ~ LotIsActive(t, q.about)
  \/ Kept(t, n, q)

Timely(t, n, q) ==
  \A d \in q.answer : d <= n /\ d + EnquiryLead - Clarification <= t.end

EInv(t, n, qs) ==
  /\ qs \in Seq(Question)
  /\ AllFit(t, n)
  /\ \A k \in Nth(qs) : Timely(t, n, qs[k]) /\ Promise(t, n, qs[k])

\* Ten days, three and seven in the code.
EnquiryPeriods ==
  /\ EnquiryLead \in Nat /\ Clarification \in Nat
  /\ Clarification <= EnquiryLead /\ EnquiryLead <= Clarification + ExtraPeriod

\* A step on day n that changes the tender t into u: a cancellation that held
\* something up still does, or closed what it is about, or gave the time back.
Carried(t, u, n) ==
  /\ u.status = "active.tendering" => t.status = "active.tendering"
  /\ \A l \in Lots : t.lots[l] # "active" => u.lots[l] # "active"
  /\ t.end <= u.end
  /\ AllFit(u, n)
  /\ Redresses(t) \subseteq Redresses(u)
  /\ \A i \in Nth(t.cancellations) :
       LET c == t.cancellations[i]
           d == u.cancellations[i]
       IN Holding(c) =>
            \/ i \in Nth(u.cancellations) /\ Holding(d) /\ d.since = c.since /\ d.of = c.of
            \/ IF c.of = Whole THEN u.status # "active.tendering"
                               ELSE u.lots[c.of] # "active"
            \/ /\ i \in Redresses(u) \ Redresses(t)
               /\ t.status = "active.tendering" /\ c.since < t.end =>
                    (u.end - n) + Hour > t.end - c.since

LEMMA QuestionParts ==
  ASSUME NEW q \in Question
  PROVE  /\ q = [about |-> q.about, item |-> q.item, answer |-> q.answer,
                 free |-> q.free, hurried |-> q.hurried]
         /\ q.about \in Targets /\ q.item \in BOOLEAN /\ q.answer \subseteq 0 .. MaxTime
         /\ q.free \in 0 .. Clarification /\ q.hurried \in BOOLEAN
BY DEF Question

\* The more cancellations were made good, the more may be short.
LEMMA ShortGrows ==
  ASSUME NEW t, NEW u, Shape(t), Shape(u), Redresses(t) \subseteq Redresses(u)
  PROVE  /\ Short(t) \in Nat /\ Short(u) \in Nat /\ Short(t) <= Short(u)
         /\ Redresses(t) # Redresses(u) => Short(t) + (Hour - 1) <= Short(u)
<1>1. ASSUME NEW w, Shape(w)
      PROVE  IsFiniteSet(Redresses(w)) /\ Cardinality(Redresses(w)) \in Nat
  <2>1. Len(w.cancellations) \in Nat /\ Nth(w.cancellations) = 1 .. Len(w.cancellations)
    BY <1>1, ShapeParts
  <2>2. IsFiniteSet(1 .. Len(w.cancellations))
    BY <2>1, FS_Interval
  <2>3. Redresses(w) \subseteq 1 .. Len(w.cancellations)
    BY <2>1 DEF Redresses
  <2> QED BY <2>2, <2>3, FS_Subset, FS_CardinalityType
<1> DEFINE m == Cardinality(Redresses(t))
           n == Cardinality(Redresses(u))
<1>2. m \in Nat /\ n \in Nat /\ IsFiniteSet(Redresses(u))
  BY <1>1
<1>3. m <= n /\ (Redresses(t) # Redresses(u) => m < n)
  BY <1>2, FS_Subset
<1> DEFINE h == Hour - 1
<1>4. h \in Nat
  BY DayAssumption
<1>5. Short(t) = h * m /\ Short(u) = h * n
  BY DEF Short
<1> HIDE DEF h, m, n
<1>6. PICK p \in Nat : n = m + p
  <2>1. n - m \in Nat /\ n = m + (n - m)
    BY <1>2, <1>3
  <2> QED BY <2>1
<1>7. h * m \in Nat /\ h * p \in Nat /\ h * n = h * m + h * p
  BY <1>2, <1>4, <1>6
<1>8. m < n => h <= h * p
  <2> SUFFICES ASSUME m < n PROVE h <= h * p
    OBVIOUS
  <2>1. PICK r \in Nat : p = r + 1
    <3>1. p - 1 \in Nat /\ p = (p - 1) + 1
      BY <1>2, <1>6
    <3> QED BY <3>1
  <2>2. h * p = h * r + h /\ h * r \in Nat
    BY <1>4, <2>1
  <2> QED BY <1>4, <2>2
<1> QED BY <1>3, <1>4, <1>5, <1>7, <1>8 DEF h

LEMMA QuestionCarried ==
  ASSUME EnquiryPeriods, NEW n \in Nat, NEW q \in Question,
         NEW t, NEW u, Shape(t), Shape(u), Carried(t, u, n),
         Timely(t, n, q), Promise(t, n, q)
  PROVE  Timely(u, n, q) /\ Promise(u, n, q)
<1>0. /\ EnquiryLead \in Nat /\ Clarification \in Nat /\ Clarification <= EnquiryLead
      /\ q.free \in Nat /\ q.free <= Clarification
      /\ t.end \in Nat /\ u.end \in Nat /\ t.end <= u.end /\ q.about \in Targets
      /\ Hour \in Nat /\ Short(t) \in Nat /\ Short(u) \in Nat /\ Short(t) <= Short(u)
      /\ Redresses(t) # Redresses(u) => Short(t) + (Hour - 1) <= Short(u)
  <2>1. q.free \in 0 .. Clarification /\ q.about \in Targets
    BY QuestionParts
  <2>2. t.end \in Nat /\ u.end \in Nat
    BY ShapeParts
  <2>3. Redresses(t) \subseteq Redresses(u)
    BY DEF Carried
  <2> QED BY <2>1, <2>2, <2>3, ShortGrows, DayAssumption DEF EnquiryPeriods, Carried
<1>1. Timely(u, n, q)
  <2> SUFFICES ASSUME NEW d \in q.answer
               PROVE  d <= n /\ d + EnquiryLead - Clarification <= u.end
    BY DEF Timely
  <2>1. d \in Nat
    <3>1. q.answer \subseteq 0 .. MaxTime
      BY QuestionParts
    <3> QED BY <3>1
  <2>2. d <= n /\ d + EnquiryLead - Clarification <= t.end
    BY DEF Timely
  <2> QED BY <1>0, <2>1, <2>2
<1>2. ASSUME u.status = "active.tendering", LotIsActive(u, q.about), Kept(t, n, q),
             q.free + Short(t) < Clarification
      PROVE  Kept(u, n, q)
  <2>1. CASE n + EnquiryLead <= t.end + q.free + Short(t)
    <3>1. n + EnquiryLead <= u.end + q.free + Short(u)
      BY <1>0, <2>1
    <3> QED BY <3>1 DEF Kept
  <2>2. CASE \E i \in Nth(t.cancellations) :
               /\ HoldsUp(t, q, i)
               /\ t.cancellations[i].since + EnquiryLead <= t.end + q.free + Short(t)
    <3>1. PICK i \in Nth(t.cancellations) :
               /\ HoldsUp(t, q, i)
               /\ t.cancellations[i].since + EnquiryLead <= t.end + q.free + Short(t)
      BY <2>2
    <3> DEFINE c == t.cancellations[i]
               d == u.cancellations[i]
    <3>2. c.since \in Nat /\ Holding(c) /\ (c.of = Whole \/ (~ q.item /\ c.of = q.about))
      BY <3>1, ShapeParts, CancellationParts DEF HoldsUp
    <3>3. CASE i \in Nth(u.cancellations) /\ Holding(d) /\ d.since = c.since /\ d.of = c.of
      <4>1. HoldsUp(u, q, i)
        BY <3>2, <3>3 DEF HoldsUp
      <4>2. d.since + EnquiryLead <= u.end + q.free + Short(u)
        <5>1. c.since + EnquiryLead <= t.end + q.free + Short(t)
          BY <3>1
        <5> HIDE DEF c, d
        <5> QED BY <1>0, <3>2, <3>3, <5>1
      <4> QED BY <3>3, <4>1, <4>2 DEF Kept
    <3>4. CASE IF c.of = Whole THEN u.status # "active.tendering"
                               ELSE u.lots[c.of] # "active"
      <4>1. c.of # Whole /\ c.of = q.about /\ u.lots[c.of] # "active"
        BY <1>2, <3>2, <3>4
      <4>2. q.about \in Lots
        BY <1>0, <4>1 DEF Targets
      <4> QED BY <1>2, <4>1, <4>2 DEF LotIsActive
    <3>5. CASE /\ i \in Redresses(u) \ Redresses(t)
               /\ t.status = "active.tendering" /\ c.since < t.end =>
                    (u.end - n) + Hour > t.end - c.since
      <4>1. t.status = "active.tendering" /\ c.since + EnquiryLead <= t.end + q.free + Short(t)
        BY <1>2, <3>1 DEF Carried
      <4>2. Redresses(t) # Redresses(u)
        BY <3>5
      <4>3. Short(t) + (Hour - 1) <= Short(u)
        BY <1>0, <4>2
      <4> HIDE DEF c
      <4>4. c.since < t.end
        BY <1>0, <1>2, <3>2, <4>1
      <4>5. (u.end - n) + Hour > t.end - c.since
        BY <3>5, <4>1, <4>4
      <4>6. n + EnquiryLead <= u.end + q.free + Short(u)
        BY <1>0, <3>2, <4>1, <4>3, <4>5
      <4> QED BY <4>6 DEF Kept
    <3> QED BY <3>2, <3>3, <3>4, <3>5 DEF Carried
  <2> QED BY <1>2, <2>1, <2>2 DEF Kept
<1>3. LotIsActive(u, q.about) => LotIsActive(t, q.about)
  BY DEF LotIsActive, Carried
<1>4. u.status = "active.tendering" => t.status = "active.tendering"
  BY DEF Carried
<1>5. Clarification <= q.free + Short(t) => Clarification <= q.free + Short(u)
  BY <1>0
<1>6. Clarification <= q.free + Short(t) \/ q.free + Short(t) < Clarification
  BY <1>0
<1> QED BY <1>1, <1>2, <1>3, <1>4, <1>5, <1>6 DEF Promise

LEMMA VisitCarried ==
  ASSUME IInv, AllFit(tender, now), Visit
  PROVE  Sound(tender') /\ Carried(tender, tender', now)
<1> DEFINE t == CheckDrafts(tender)
           v == CheckCancellations(t)
           w == v.tender
<1>1. /\ Sound(t) /\ Purged(tender, t) /\ Sound(w) /\ Remains(t, v)
      /\ \/ tender' = w
         \/ TenderingOver(w) /\ \E enough : tender' = StartAuction(w, enough)
  BY VisitFinds DEF IInv
<1>2. Sound(tender') /\ Sound(tender) /\ Shape(tender) /\ Shape(tender') /\ Shape(t)
  BY <1>1, ChronographStep DEF IInv, Sound
<1>3. now \in Nat /\ tender.end \in Nat
  BY <1>2, ShapeParts, BoundsAssumption DEF IInv
<1> HIDE DEF t, v
<1> DEFINE u == tender'
<1>4. /\ u.end = w.end /\ u.cancellations = w.cancellations
      /\ \A l \in Lots : w.lots[l] # "active" => u.lots[l] # "active"
      /\ u.status = "active.tendering" => w.status = "active.tendering"
  <2>1. ASSUME NEW enough, TenderingOver(w), tender' = StartAuction(w, enough)
        PROVE  /\ u.end = w.end /\ u.cancellations = w.cancellations
               /\ \A l \in Lots : w.lots[l] # "active" => u.lots[l] # "active"
               /\ u.status = "active.tendering" => w.status = "active.tendering"
    BY <1>1, <2>1, AuctionStarted DEF TenderingOver
  <2> HIDE DEF w
  <2> QED BY <1>1, <2>1
<1>5. /\ u.status = "active.tendering" => tender.status = "active.tendering"
      /\ \A l \in Lots : tender.lots[l] # "active" => u.lots[l] # "active"
      /\ tender.end <= u.end
  <2>1. /\ w.status \in Terminal \cup {tender.status} /\ w.end = tender.end
        /\ \A l \in Lots : tender.lots[l] # "active" => w.lots[l] # "active"
    BY <1>1 DEF Remains, Purged
  <2> HIDE DEF w, u
  <2> QED BY <1>3, <1>4, <2>1 DEF Terminal
<1>6. ASSUME NEW i \in Nth(tender.cancellations)
      PROVE  LET c == tender.cancellations[i]
                 d == u.cancellations[i]
             IN /\ i \in Nth(u.cancellations) /\ FitsWell(d, now)
                /\ d.since = c.since /\ d.of = c.of
                /\ d.status \in {"active", c.status}
                /\ Redressed(c) => Redressed(d)
  <2> DEFINE c == tender.cancellations[i]
             b == t.cancellations[i]
             d == u.cancellations[i]
  <2>1. /\ b.of = c.of /\ b.since = c.since /\ b.status = c.status
        /\ Fewer(c.complaints, b.complaints) /\ i \in Nth(t.cancellations)
    BY <1>1 DEF Purged
  <2>2. i \in Nth(u.cancellations) /\ (d = b \/ d = Activated(b))
    BY <1>1, <1>4, <2>1 DEF Remains
  <2>3. c \in Cancellation /\ b \in Cancellation /\ FitsWell(c, now)
    BY <1>2, <2>1, ShapeParts DEF AllFit
  <2>4. c.complaints \in Seq(ComplaintStatus) /\ b.complaints \in Seq(ComplaintStatus)
    BY <2>3, CancellationParts
  <2> HIDE DEF b, c
  <2>8. Redressed(c) => Redressed(b)
    BY <2>1 DEF Fewer, Redressed
  <2>5. FitsWell(b, now)
    <3>1. c.complaints = <<>> => b.complaints = <<>>
      <4> SUFFICES ASSUME c.complaints = <<>> PROVE b.complaints = <<>>
        OBVIOUS
      <4>1. DOMAIN b.complaints = {}
        BY <2>1 DEF Fewer, Nth
      <4>2. Len(b.complaints) = 0
        <5>1. Len(b.complaints) \in Nat /\ 1 .. Len(b.complaints) = {}
          BY <2>4, <4>1, LenProperties
        <5>2. 1 \notin 1 .. Len(b.complaints)
          BY <5>1
        <5> QED BY <5>1, <5>2
      <4> QED BY <2>4, <4>2, EmptySeq
    <3>2. (\A j \in Nth(c.complaints) : c.complaints[j] # "resolved")
            => \A j \in Nth(b.complaints) : b.complaints[j] # "resolved"
      BY <2>1 DEF Fewer
    <3> QED BY <2>1, <2>3, <3>1, <3>2 DEF FitsWell
  <2>6. ASSUME d = Activated(b)
        PROVE  /\ FitsWell(d, now) /\ d.since = b.since /\ d.of = b.of /\ d.status = "active"
               /\ Redressed(b) => Redressed(d)
    <3>1. /\ d.since = b.since /\ d.of = b.of /\ d.status = "active"
          /\ d.complaints = b.complaints
      BY <2>3, <2>6 DEF Activated, Cancellation
    <3> QED BY <2>5, <3>1 DEF FitsWell, Redressed
  <2> HIDE DEF d
  <2>7. /\ i \in Nth(u.cancellations) /\ FitsWell(d, now)
        /\ d.since = c.since /\ d.of = c.of
        /\ d.status \in {"active", c.status}
        /\ Redressed(c) => Redressed(d)
    BY <2>1, <2>2, <2>5, <2>6, <2>8
  <2> QED BY <2>7 DEF d, c
<1>7. Nth(u.cancellations) = Nth(tender.cancellations)
  BY <1>1, <1>4 DEF Remains, Purged
<1>8. AllFit(u, now)
  BY <1>6, <1>7 DEF AllFit
<1>9. ASSUME NEW i \in Nth(tender.cancellations), Holding(tender.cancellations[i])
      PROVE  LET c == tender.cancellations[i]
                 d == u.cancellations[i]
             IN \/ i \in Nth(u.cancellations) /\ Holding(d) /\ d.since = c.since /\ d.of = c.of
                \/ IF c.of = Whole THEN u.status # "active.tendering"
                                   ELSE u.lots[c.of] # "active"
  <2> DEFINE c == tender.cancellations[i]
             d == u.cancellations[i]
  <2>1. Unredressed(c) => Unredressed(d)
    BY <1>2, VisitLeaves
  <2>2. /\ i \in Nth(u.cancellations)
        /\ d.since = c.since /\ d.of = c.of /\ d.status \in {"active", c.status}
    BY <1>6
  <2>3. Active(d) => Closed(u, d.of)
    BY <1>2, <2>2 DEF Sound, FinalInForce
  <2> HIDE DEF d
  <2>4. Holding(d) \/ Active(d)
    BY <1>9, <2>1, <2>2 DEF Holding, Active
  <2>5. Active(d) => IF c.of = Whole THEN u.status # "active.tendering"
                                     ELSE u.lots[c.of] # "active"
    BY <2>2, <2>3 DEF Closed, Terminal
  <2> QED BY <2>2, <2>4, <2>5 DEF d
<1>10. Redresses(tender) \subseteq Redresses(u)
  BY <1>6 DEF Redresses
<1> HIDE DEF u
<1>11. Carried(tender, u, now)
  BY <1>5, <1>8, <1>9, <1>10 DEF Carried
<1> QED BY <1>2, <1>11 DEF u

\* A request changes cancellation i into d.
LEMMA ReplacedCarried ==
  ASSUME NEW n \in Nat, NEW t, Sound(t), AllFit(t, n), NEW i \in Nth(t.cancellations),
         NEW d, NEW u, Replaced(t, i, d, u), FitsWell(d, n),
         Holding(t.cancellations[i]) =>
           Holding(d) /\ d.since = t.cancellations[i].since /\ d.of = t.cancellations[i].of,
         Redressed(t.cancellations[i]) => Redressed(d)
  PROVE  Sound(u) /\ Carried(t, u, n)
<1>1. /\ Sound(u) /\ u.status = t.status /\ u.lots = t.lots /\ u.end = t.end
      /\ Nth(u.cancellations) = Nth(t.cancellations) /\ u.cancellations[i] = d
      /\ \A k \in Nth(t.cancellations) : k # i => u.cancellations[k] = t.cancellations[k]
  BY DEF Replaced
<1>2. t.end <= u.end
  BY <1>1, ShapeParts DEF Sound
<1>3. AllFit(u, n)
  <2> SUFFICES ASSUME NEW k \in Nth(t.cancellations) PROVE FitsWell(u.cancellations[k], n)
    BY <1>1 DEF AllFit
  <2> QED BY <1>1 DEF AllFit
<1>4. ASSUME NEW k \in Nth(t.cancellations), Holding(t.cancellations[k])
      PROVE  /\ k \in Nth(u.cancellations) /\ Holding(u.cancellations[k])
             /\ u.cancellations[k].since = t.cancellations[k].since
             /\ u.cancellations[k].of = t.cancellations[k].of
  BY <1>1, <1>4
<1>5. Redresses(t) \subseteq Redresses(u)
  BY <1>1 DEF Redresses
<1> QED BY <1>1, <1>2, <1>3, <1>4, <1>5 DEF Carried

LEMMA RequestCarried ==
  ASSUME IInv, AllFit(tender, now), Requests
  PROVE  Sound(tender') /\ Carried(tender, tender', now)
<1> DEFINE t == tender
           u == tender'
<1>0. /\ Sound(t) /\ Shape(t) /\ now \in Nat /\ t.end \in Nat
      /\ \A i \in Nth(t.cancellations) :
           t.cancellations[i] \in Cancellation /\ FitsWell(t.cancellations[i], now)
  BY ShapeParts, BoundsAssumption DEF IInv, Sound, AllFit
<1>1. ASSUME Sound(u), u.status = t.status, u.lots = t.lots, u.end = t.end,
             Nth(t.cancellations) \subseteq Nth(u.cancellations),
             \A k \in Nth(t.cancellations) : u.cancellations[k] = t.cancellations[k],
             \A k \in Nth(u.cancellations) \ Nth(t.cancellations) :
               FitsWell(u.cancellations[k], now)
      PROVE  Carried(t, u, now)
  <2>1. AllFit(u, now)
    <3> SUFFICES ASSUME NEW k \in Nth(u.cancellations) PROVE FitsWell(u.cancellations[k], now)
      BY DEF AllFit
    <3>1. CASE k \in Nth(t.cancellations)
      BY <1>0, <1>1, <3>1
    <3> QED BY <1>1, <3>1
  <2>2. Redresses(t) \subseteq Redresses(u)
    BY <1>1 DEF Redresses
  <2> HIDE DEF t, u
  <2> QED BY <1>0, <1>1, <2>1, <2>2 DEF Carried
<1>2. ASSUME NEW x \in Targets, PostCancellation(x)
      PROVE  Sound(u) /\ Carried(t, u, now)
  <2> DEFINE c == [of |-> x, since |-> 0, complaints |-> <<>>, status |-> "draft"]
  <2>1. FitsWell(c, now)
    BY <1>0 DEF FitsWell
  <2> HIDE DEF c
  <2>2. /\ Sound(u) /\ u.status = t.status /\ u.lots = t.lots /\ u.end = t.end
        /\ Nth(t.cancellations) \subseteq Nth(u.cancellations)
        /\ \A k \in Nth(t.cancellations) : u.cancellations[k] = t.cancellations[k]
        /\ \A k \in Nth(u.cancellations) \ Nth(t.cancellations) : u.cancellations[k] = c
    BY <1>0, <1>2, PostCancellationStep DEF c
  <2> QED BY <1>1, <2>1, <2>2
<1>3. ASSUME \/ \E x \in Targets : PostComplaint(x)
             \/ \E k \in Nth(t.complaints) :
                  ResolveComplaint(k) \/ \E to \in ComplaintStatus : PatchComplaint(k, to)
      PROVE  Sound(u) /\ Carried(t, u, now)
  <2>1. /\ Sound(u) /\ u.status = t.status /\ u.lots = t.lots /\ u.end = t.end
        /\ u.cancellations = t.cancellations
    BY <1>0, <1>3, ComplaintSteps
  <2> QED BY <1>1, <2>1
<1>4. ASSUME NEW i \in Nth(t.cancellations), NEW d, Follows(t, i, d),
             u = [t EXCEPT !.cancellations[i] = d], FitsWell(d, now),
             Holding(t.cancellations[i]) =>
               Holding(d) /\ d.since = t.cancellations[i].since /\ d.of = t.cancellations[i].of,
             Redressed(t.cancellations[i]) => Redressed(d)
      PROVE  Sound(u) /\ Carried(t, u, now)
  <2>1. Replaced(t, i, d, u)
    BY <1>0, <1>4, CancellationReplaced, Zenon
  <2>2. AllFit(t, now) /\ now \in Nat /\ Sound(t)
    BY <1>0
  <2> HIDE DEF t, u
  <2> QED BY <1>4, <2>1, <2>2, ReplacedCarried
<1>5. ASSUME NEW i \in Nth(t.cancellations), SubmitCancellation(i)
      PROVE  Sound(u) /\ Carried(t, u, now)
  <2> DEFINE c == t.cancellations[i]
             d == Moved(i, "pending", now, c.complaints)
  <2>1. Follows(t, i, d) /\ u = [t EXCEPT !.cancellations[i] = d] /\ c.status = "draft"
    BY <1>5, SubmitStep
  <2>2. d.status = "pending" /\ d.since = now /\ d.complaints = c.complaints
    BY DEF Moved
  <2> HIDE DEF d
  <2>3. c.complaints = <<>>
    BY <1>0, <2>1 DEF FitsWell
  <2>4. FitsWell(d, now)
    BY <1>0, <2>2, <2>3 DEF FitsWell, Nth
  <2>5. ~ Holding(c)
    BY <2>1 DEF Holding, Unredressed
  <2>6. Redressed(c) => Redressed(d)
    BY <2>2 DEF Redressed
  <2> QED BY <1>4, <2>1, <2>4, <2>5, <2>6
<1>6. ASSUME NEW i \in Nth(t.cancellations), DropCancellation(i) \/ WithdrawCancellation(i)
      PROVE  Sound(u) /\ Carried(t, u, now)
  <2> DEFINE c == t.cancellations[i]
             d == Moved(i, "unsuccessful", c.since, c.complaints)
  <2>1. Follows(t, i, d) /\ u = [t EXCEPT !.cancellations[i] = d]
    BY <1>0, <1>6, StopStep
  <2>2. d.status = "unsuccessful" /\ d.since = c.since /\ d.of = c.of
        /\ d.complaints = c.complaints
    BY DEF Moved
  <2> HIDE DEF d
  <2>3. FitsWell(d, now)
    BY <1>0, <2>2 DEF FitsWell
  <2>6. Redressed(c) => Redressed(d)
    BY <2>2 DEF Redressed
  <2>4. CASE DropCancellation(i)
    <3>1. ~ Holding(c)
      BY <2>4 DEF DropCancellation, Holding, Unredressed
    <3> QED BY <1>4, <2>1, <2>3, <2>6, <3>1
  <2>5. CASE WithdrawCancellation(i)
    <3>1. c.status = "pending" /\ \E j \in Nth(c.complaints) : c.complaints[j] = "satisfied"
      BY <2>5 DEF WithdrawCancellation
    <3>2. \A j \in Nth(c.complaints) : c.complaints[j] # "resolved"
      BY <1>0, <3>1 DEF FitsWell
    <3>3. c.complaints # <<>>
      BY <3>1 DEF Nth
    <3> HIDE DEF c
    <3>4. Unredressed(d)
      BY <2>2, <3>2, <3>3 DEF Unredressed
    <3> QED BY <1>4, <2>1, <2>2, <2>3, <2>6, <3>4 DEF Holding, c
  <2> QED BY <1>6, <2>4, <2>5
<1>7. ASSUME NEW i \in Nth(t.cancellations),
             \/ PostObjection(i)
             \/ \E j \in Nth(t.cancellations[i].complaints), to \in ComplaintStatus :
                  PatchObjection(i, j, to)
      PROVE  Sound(u) /\ Carried(t, u, now)
  <2> DEFINE c == t.cancellations[i]
  <2>1. PICK ms \in Seq(ComplaintStatus) :
          /\ Follows(t, i, Moved(i, c.status, c.since, ms))
          /\ u = [t EXCEPT !.cancellations[i] = Moved(i, c.status, c.since, ms)]
          /\ ms # <<>> /\ (c.status = "draft" => c.complaints # <<>>)
          /\ \A j \in Nth(ms) : ms[j] = "resolved" =>
               j \in Nth(c.complaints) /\ c.complaints[j] = "resolved"
          /\ \A j \in Nth(c.complaints) : c.complaints[j] = "resolved" =>
               j \in Nth(ms) /\ ms[j] = "resolved"
    BY <1>0, <1>7, ObjectionSteps
  <2> DEFINE d == Moved(i, c.status, c.since, ms)
  <2>2. d.status = c.status /\ d.complaints = ms /\ d.since = c.since /\ d.of = c.of
    BY DEF Moved
  <2>3. FitsWell(c, now)
    BY <1>0
  <2> HIDE DEF d, c
  <2>4. FitsWell(d, now)
    BY <2>1, <2>2, <2>3 DEF FitsWell
  <2>5. Holding(c) => Holding(d)
    BY <2>1, <2>2 DEF Unredressed, Holding
  <2>6. Redressed(c) => Redressed(d)
    BY <2>1, <2>2 DEF Redressed
  <2> QED BY <1>4, <2>1, <2>2, <2>4, <2>5, <2>6 DEF d, c
<1>8. ASSUME NEW i \in Nth(t.cancellations), NEW j \in Nth(t.cancellations[i].complaints),
             ResolveObjection(i, j)
      PROVE  Sound(u) /\ Carried(t, u, now)
  <2> DEFINE c == t.cancellations[i]
             d == Moved(i, c.status, c.since, [c.complaints EXCEPT ![j] = "resolved"])
             w == [t EXCEPT !.cancellations[i] = d]
  <2>1. /\ Follows(t, i, d)
        /\ \E e \in Nat :
             /\ u = [w EXCEPT !.end = e] /\ t.end <= e
             /\ t.status = "active.tendering" /\ c.since < t.end =>
                  (e - now) + Hour > t.end - c.since
    BY <1>8, ResolveStep
  <2>2. /\ d.status = "unsuccessful" /\ d.since = c.since /\ c.status = "unsuccessful"
        /\ Redressed(d)
    <3>1. /\ d.status = "unsuccessful" /\ d.since = c.since /\ c.status = "unsuccessful"
          /\ d.complaints = [c.complaints EXCEPT ![j] = "resolved"]
      BY <1>8 DEF Moved, ResolveObjection
    <3>2. j \in Nth(d.complaints) /\ d.complaints[j] = "resolved"
      BY <3>1 DEF Nth
    <3> QED BY <3>1, <3>2 DEF Redressed
  <2>3. FitsWell(d, now)
    BY <1>0, <2>2 DEF FitsWell
  <2> HIDE DEF d
  <2>4. Replaced(t, i, d, w)
    BY <1>0, <2>1, CancellationReplaced, Zenon
  <2> HIDE DEF w
  <2>5. PICK e \in Nat :
          /\ u = [w EXCEPT !.end = e] /\ t.end <= e
          /\ t.status = "active.tendering" /\ c.since < t.end =>
                  (e - now) + Hour > t.end - c.since
    BY <2>1 DEF w
  <2>6. Sound(w)
    BY <2>4 DEF Replaced
  <2>7. Sound([w EXCEPT !.end = e])
    BY <2>6, EmptySeq, OtherFields
  <2>8. [w EXCEPT !.end = e] =
          [status |-> w.status, lots |-> w.lots, end |-> e,
           cancellations |-> w.cancellations, complaints |-> w.complaints]
    BY <2>6, Rebuilt DEF Sound
  <2>9. /\ u.status = t.status /\ u.lots = t.lots /\ u.end = e
        /\ Nth(u.cancellations) = Nth(t.cancellations) /\ u.cancellations[i] = d
        /\ \A k \in Nth(t.cancellations) : k # i => u.cancellations[k] = t.cancellations[k]
    BY <2>4, <2>5, <2>8 DEF Replaced
  <2>10. AllFit(u, now)
    <3> SUFFICES ASSUME NEW k \in Nth(t.cancellations) PROVE FitsWell(u.cancellations[k], now)
      BY <2>9 DEF AllFit
    <3> QED BY <1>0, <2>3, <2>9
  <2>11. Sound(u)
    BY <2>5, <2>7
  <2>13. Redresses(t) \subseteq Redresses(u) /\ i \in Redresses(u)
    BY <2>2, <2>9 DEF Redresses
  <2>14. Holding(c) => i \notin Redresses(t)
    BY <2>2 DEF Holding, Unredressed, Redresses, Redressed
  <2>15. ASSUME NEW k \in Nth(t.cancellations), k # i, Holding(t.cancellations[k])
         PROVE  /\ k \in Nth(u.cancellations) /\ Holding(u.cancellations[k])
                /\ u.cancellations[k].since = t.cancellations[k].since
                /\ u.cancellations[k].of = t.cancellations[k].of
    BY <2>9, <2>15
  <2> HIDE DEF u
  <2>12. Carried(t, u, now)
    BY <2>5, <2>9, <2>10, <2>13, <2>14, <2>15 DEF Carried
  <2> QED BY <2>11, <2>12
<1> HIDE DEF u
<1>9. Sound(u) /\ Carried(t, u, now)
  BY <1>2, <1>3, <1>5, <1>6, <1>7, <1>8 DEF Requests
<1> QED BY <1>9 DEF u

\* The questions stay as they are while the tender changes.
LEMMA QuestionsCarried ==
  ASSUME EnquiryPeriods, NEW n \in Nat, NEW qs, NEW t, NEW u, Shape(t), Shape(u),
         EInv(t, n, qs), Carried(t, u, n)
  PROVE  EInv(u, n, qs)
<1>1. ASSUME NEW k \in Nth(qs) PROVE Timely(u, n, qs[k]) /\ Promise(u, n, qs[k])
  <2>1. qs[k] \in Question
    BY ElementOfSeq DEF EInv, Nth
  <2>2. Timely(t, n, qs[k]) /\ Promise(t, n, qs[k])
    BY DEF EInv
  <2> QED BY <2>1, <2>2, QuestionCarried
<1> QED BY <1>1 DEF EInv, Carried

\* Who may not answer a question, that was kept, has had its days or is held up
\* by a cancellation; who may has one day less and one more behind it.
LEMMA QuestionNextDay ==
  ASSUME EnquiryPeriods, NEW n \in Nat, NEW t, Shape(t), AllFit(t, n),
         NEW q \in Question, Timely(t, n, q), Promise(t, n, q),
         NEW answerable \in BOOLEAN,
         answerable <=>
           /\ t.status = "active.tendering"
           /\ ~ (~ MayEditTender(t) \/ (~ q.item /\ Held(t, q.about)))
           /\ LotIsActive(t, q.about) /\ ~ (t.end - EnquiryLead + Clarification <= n),
         NEW r, r = IF answerable /\ q.free < Clarification
                    THEN [q EXCEPT !.free = @ + 1] ELSE q
  PROVE  r \in Question /\ Timely(t, n + 1, r) /\ Promise(t, n + 1, r)
<1>0. /\ EnquiryLead \in Nat /\ Clarification \in Nat /\ Clarification <= EnquiryLead
      /\ q.free \in Nat /\ q.free <= Clarification /\ t.end \in Nat
      /\ q.about \in Targets /\ q.answer \subseteq 0 .. MaxTime /\ Short(t) \in Nat
  <2>1. q.free \in 0 .. Clarification /\ q.about \in Targets /\ q.answer \subseteq 0 .. MaxTime
    BY QuestionParts
  <2>2. t.end \in Nat /\ Short(t) \in Nat
    BY ShapeParts, ShortGrows
  <2> QED BY <2>1, <2>2 DEF EnquiryPeriods
<1>1. CASE answerable /\ q.free < Clarification
  <2>1. /\ r \in Question /\ r.about = q.about /\ r.item = q.item /\ r.answer = q.answer
        /\ r.free = q.free + 1 /\ r.hurried = q.hurried
    <3>1. r = [q EXCEPT !.free = q.free + 1] /\ q.free + 1 \in 0 .. Clarification
      BY <1>0, <1>1
    <3> QED BY <3>1 DEF Question
  <2>2. Timely(t, n + 1, r)
    BY <1>0, <2>1 DEF Timely
  <2>3. Promise(t, n + 1, r)
    <3>1. CASE Kept(t, n, q)
      <4>1. CASE n + EnquiryLead <= t.end + q.free + Short(t)
        <5>1. n + 1 + EnquiryLead <= t.end + r.free + Short(t)
          BY <1>0, <2>1, <4>1
        <5> QED BY <5>1 DEF Promise, Kept
      <4>2. CASE \E i \in Nth(t.cancellations) : HoldsUp(t, q, i)
        <5>1. ~ MayEditTender(t) \/ (~ q.item /\ Held(t, q.about))
          BY <4>2 DEF HoldsUp, Holding, MayEditTender, HasPending, HasUnredressed, Held
        <5> QED BY <1>1, <5>1
      <4> QED BY <3>1, <4>1, <4>2 DEF Kept
    <3>2. CASE ~ Kept(t, n, q)
      <4>1. Clarification <= q.free + Short(t) => Clarification <= r.free + Short(t)
        BY <1>0, <2>1
      <4> QED BY <1>1, <2>1, <3>2, <4>1 DEF Promise
    <3> QED BY <3>1, <3>2
  <2> QED BY <2>1, <2>2, <2>3
<1>2. CASE ~ (answerable /\ q.free < Clarification)
  <2>1. r = q
    BY <1>2
  <2>2. Timely(t, n + 1, q)
    BY <1>0 DEF Timely
  <2>3. ASSUME ~ answerable, Kept(t, n, q), q.free + Short(t) < Clarification,
               t.status = "active.tendering", LotIsActive(t, q.about)
        PROVE  Kept(t, n + 1, q)
    <3>1. CASE \E i \in Nth(t.cancellations) :
                 /\ HoldsUp(t, q, i)
                 /\ t.cancellations[i].since + EnquiryLead <= t.end + q.free + Short(t)
      BY <3>1 DEF Kept
    <3>2. CASE n + EnquiryLead <= t.end + q.free + Short(t)
      <4>1. CASE t.end - EnquiryLead + Clarification <= n
        BY <1>0, <2>3, <3>2, <4>1
      <4>2. CASE ~ MayEditTender(t) \/ (~ q.item /\ Held(t, q.about))
        <5>1. PICK i \in Nth(t.cancellations) : HoldsUp(t, q, i)
          BY <4>2 DEF HoldsUp, Holding, MayEditTender, HasPending, HasUnredressed, Held
        <5>2. t.cancellations[i].since \in Nat /\ t.cancellations[i].since <= n
          BY ShapeParts, CancellationParts DEF AllFit, FitsWell
        <5>3. t.cancellations[i].since + EnquiryLead <= t.end + q.free + Short(t)
          BY <1>0, <3>2, <5>2
        <5> QED BY <5>1, <5>3 DEF Kept
      <4> QED BY <2>3, <4>1, <4>2
    <3> QED BY <2>3, <3>1, <3>2 DEF Kept
  <2>4. Promise(t, n + 1, q)
    <3>1. \/ Clarification <= q.free + Short(t)
          \/ ~ answerable /\ q.free + Short(t) < Clarification
      BY <1>0, <1>2
    <3> QED BY <2>3, <3>1 DEF Promise
  <2> QED BY <2>1, <2>2, <2>4
<1> QED BY <1>1, <1>2

LEMMA FitsLater ==
  ASSUME NEW n \in Nat, NEW t, Shape(t), AllFit(t, n)
  PROVE  AllFit(t, n + 1)
<1> SUFFICES ASSUME NEW i \in Nth(t.cancellations) PROVE FitsWell(t.cancellations[i], n + 1)
  BY DEF AllFit
<1>1. t.cancellations[i].since \in Nat
  BY ShapeParts, CancellationParts
<1> QED BY <1>1 DEF AllFit, FitsWell

Hurried(q, t, e) == [q EXCEPT !.hurried = @ \/ e < t.end]

\* The owner moves the end of the tendering: no answer is overtaken, since the
\* end stays as far away as an answer given today needs.
LEMMA QuestionMoved ==
  ASSUME EnquiryPeriods, NEW n \in Nat, NEW e \in Nat, n + ExtraPeriod <= e,
         NEW t, Shape(t), NEW u, Shape(u), u.status = t.status, u.lots = t.lots, u.end = e,
         u.cancellations = t.cancellations,
         NEW q \in Question, Timely(t, n, q), Promise(t, n, q),
         NEW r, r = Hurried(q, t, e)
  PROVE  r \in Question /\ Timely(u, n, r) /\ Promise(u, n, r)
<1>0. /\ EnquiryLead \in Nat /\ Clarification \in Nat /\ EnquiryLead <= Clarification + ExtraPeriod
      /\ q.free \in Nat /\ t.end \in Nat /\ q.answer \subseteq 0 .. MaxTime
      /\ ExtraPeriod \in Nat /\ Short(t) \in Nat /\ Short(u) = Short(t)
  <2>1. q.free \in 0 .. Clarification /\ q.answer \subseteq 0 .. MaxTime
    BY QuestionParts
  <2>2. t.end \in Nat /\ Short(t) \in Nat
    BY ShapeParts, ShortGrows
  <2>3. Short(u) = Short(t)
    BY DEF Short, Redresses
  <2> QED BY <2>1, <2>2, <2>3, PeriodsAssumption DEF EnquiryPeriods
<1>1. /\ r \in Question /\ r.about = q.about /\ r.item = q.item /\ r.answer = q.answer
      /\ r.free = q.free /\ r.hurried = (q.hurried \/ e < t.end)
  <2>1. (q.hurried \/ e < t.end) \in BOOLEAN
    OBVIOUS
  <2> DEFINE h == q.hurried \/ e < t.end
  <2>2. r = [q EXCEPT !.hurried = h]
    BY DEF Hurried
  <2> HIDE DEF h
  <2>3. h \in BOOLEAN
    BY <2>1 DEF h
  <2>4. /\ r \in Question /\ r.about = q.about /\ r.item = q.item /\ r.answer = q.answer
        /\ r.free = q.free /\ r.hurried = h
    BY <2>2, <2>3 DEF Question
  <2> QED BY <2>4 DEF h
<1>2. Timely(u, n, r)
  <2> SUFFICES ASSUME NEW d \in q.answer PROVE d <= n /\ d + EnquiryLead - Clarification <= e
    BY <1>1 DEF Timely
  <2>1. d \in Nat /\ d <= n
    BY <1>0 DEF Timely
  <2> QED BY <1>0, <2>1
<1>3. Promise(u, n, r)
  <2>1. CASE e < t.end
    BY <1>1, <2>1 DEF Promise
  <2>2. CASE ~ (e < t.end)
    <3>1. LotIsActive(u, r.about) = LotIsActive(t, q.about)
      BY <1>1 DEF LotIsActive
    <3>2. ASSUME NEW i \in Nth(t.cancellations), HoldsUp(t, q, i),
                 t.cancellations[i].since + EnquiryLead <= t.end + q.free + Short(t)
          PROVE  /\ HoldsUp(u, r, i)
                 /\ u.cancellations[i].since + EnquiryLead <= u.end + r.free + Short(u)
      <4>1. t.cancellations[i].since \in Nat
        BY ShapeParts, CancellationParts
      <4>2. t.cancellations[i].since + EnquiryLead <= e + q.free + Short(u)
        BY <1>0, <2>2, <3>2, <4>1
      <4> QED BY <1>1, <3>2, <4>2 DEF HoldsUp
    <3>3. n + EnquiryLead <= t.end + q.free + Short(t) =>
            n + EnquiryLead <= u.end + r.free + Short(u)
      BY <1>0, <1>1, <2>2
    <3>4. Kept(t, n, q) => Kept(u, n, r)
      BY <3>2, <3>3 DEF Kept
    <3> QED BY <1>0, <1>1, <3>1, <3>4 DEF Promise
  <2> QED BY <2>1, <2>2
<1> QED BY <1>1, <1>2, <1>3

EnquiriesInv == IInv /\ EInv(tender, now, questions)

\* Questions are replaced one by one.
LEMMA QuestionsChanged ==
  ASSUME NEW qs \in Seq(Question), NEW rs, DOMAIN rs = Nth(qs),
         rs = [k \in Nth(qs) |-> rs[k]],
         NEW u, NEW n, AllFit(u, n),
         \A k \in Nth(qs) : rs[k] \in Question /\ Timely(u, n, rs[k]) /\ Promise(u, n, rs[k])
  PROVE  EInv(u, n, rs)
<1>1. rs \in [DOMAIN qs -> Question]
  BY DEF Nth
<1>2. rs \in Seq(Question)
  BY <1>1, SameLength
<1> QED BY <1>2 DEF EInv, Nth

LEMMA EnquiriesStart == EnquiryInit => EnquiriesInv
<1> SUFFICES ASSUME EnquiryInit PROVE EnquiriesInv
  OBVIOUS
<1>1. IInv
  BY PublishedSound DEF EnquiryInit
<1>2. AllFit(tender, now)
  BY DEF EnquiryInit, Init, Published, AllFit, Nth
<1>3. questions = <<>>
  BY DEF EnquiryInit
<1> QED BY <1>1, <1>2, <1>3, EmptySeq DEF EnquiriesInv, EInv, Nth

LEMMA AskStep ==
  ASSUME EnquiryPeriods, EnquiriesInv, NEW x \in Targets, NEW item \in BOOLEAN, Ask(x, item)
  PROVE  EnquiriesInv'
<1> DEFINE q == [about |-> x, item |-> item, answer |-> {}, free |-> 0, hurried |-> FALSE]
           qs == Append(questions, q)
<1>0. now \in Nat /\ tender.end \in Nat /\ questions \in Seq(Question)
  BY ShapeParts, BoundsAssumption DEF EnquiriesInv, IInv, Sound, EInv
<1>1. q \in Question /\ q.free = 0 /\ q.answer = {}
  BY DEF Question, EnquiryPeriods
<1>2. now + EnquiryLead <= tender.end
  BY <1>0 DEF Ask, Over, EnquiriesEnd, EnquiryPeriods
<1>3. UNCHANGED vars /\ questions' = qs
  BY DEF Ask
<1>4. Timely(tender, now, q) /\ Promise(tender, now, q)
  <2>1. Short(tender) \in Nat
    BY ShapeParts, ShortGrows DEF EnquiriesInv, IInv, Sound
  <2>2. now + EnquiryLead <= tender.end + q.free + Short(tender)
    BY <1>0, <1>1, <1>2, <2>1 DEF EnquiryPeriods
  <2> QED BY <1>1, <2>2 DEF Timely, Promise, Kept
<1> HIDE DEF q
<1>5. /\ qs \in Seq(Question) /\ Nth(qs) = Nth(questions) \cup {Len(questions) + 1}
      /\ qs[Len(questions) + 1] = q /\ \A k \in Nth(questions) : qs[k] = questions[k]
  BY <1>0, <1>1, AppendProperties, LenProperties DEF Nth
<1> HIDE DEF qs
<1>6. ASSUME NEW k \in Nth(qs) PROVE Timely(tender, now, qs[k]) /\ Promise(tender, now, qs[k])
  BY <1>4, <1>5 DEF EnquiriesInv, EInv
<1>7. EInv(tender, now, qs)
  BY <1>5, <1>6 DEF EnquiriesInv, EInv
<1>8. tender' = tender /\ now' = now
  BY <1>3 DEF vars
<1>9. EInv(tender', now', questions')
  BY <1>3, <1>7, <1>8
<1> QED BY <1>8, <1>9 DEF EnquiriesInv, IInv

LEMMA AnswerStep ==
  ASSUME EnquiryPeriods, EnquiriesInv, NEW k \in Nth(questions), Answer(k)
  PROVE  EnquiriesInv'
<1> DEFINE q == questions[k]
<1>0. /\ now \in Nat /\ now \in 0 .. MaxTime /\ tender.end \in Nat
      /\ questions \in Seq(Question) /\ q \in Question
      /\ Timely(tender, now, q) /\ Promise(tender, now, q) /\ AllFit(tender, now)
  BY ShapeParts, ElementOfSeq, BoundsAssumption DEF EnquiriesInv, IInv, Sound, EInv, Nth
<1>1. PICK days \in {{now}, {}} : questions' = [questions EXCEPT ![k].answer = days]
  BY DEF Answer
<1> DEFINE r == [q EXCEPT !.answer = days]
           rs == [questions EXCEPT ![k] = r]
<1>2. /\ r \in Question /\ r.about = q.about /\ r.item = q.item /\ r.free = q.free
      /\ r.hurried = q.hurried /\ r.answer = days
  <2>1. days \subseteq 0 .. MaxTime
    BY <1>0
  <2> QED BY <1>0, <2>1 DEF Question
<1>3. questions' = rs
  BY <1>0, <1>1
<1> HIDE DEF r
<1>4. Timely(tender, now, r)
  <2>1. now + EnquiryLead - Clarification <= tender.end
    BY <1>0 DEF Answer, MayAnswer, Over, ClarificationsUntil, EnquiriesEnd, EnquiryPeriods
  <2>2. \A d \in r.answer : d = now
    BY <1>2
  <2> QED BY <1>0, <2>1, <2>2 DEF Timely
<1>5. Promise(tender, now, r)
  BY <1>0, <1>2 DEF Promise, Kept, HoldsUp
<1>6. /\ DOMAIN rs = Nth(questions) /\ rs = [j \in Nth(questions) |-> rs[j]]
      /\ rs[k] = r /\ \A j \in Nth(questions) : j # k => rs[j] = questions[j]
  BY <1>0 DEF Nth
<1>7. ASSUME NEW j \in Nth(questions)
      PROVE  rs[j] \in Question /\ Timely(tender, now, rs[j]) /\ Promise(tender, now, rs[j])
  <2>1. CASE j = k
    BY <1>2, <1>4, <1>5, <1>6, <2>1
  <2>2. CASE j # k
    BY <1>0, <1>6, <2>2, ElementOfSeq DEF EnquiriesInv, EInv, Nth
  <2> QED BY <2>1, <2>2
<1> HIDE DEF rs
<1>8. EInv(tender, now, rs)
  BY <1>0, <1>6, <1>7, QuestionsChanged
<1>9. tender' = tender /\ now' = now
  BY DEF Answer, vars
<1>10. EInv(tender', now', questions')
  BY <1>3, <1>8, <1>9
<1> QED BY <1>9, <1>10 DEF EnquiriesInv, IInv

LEMMA AnotherDayStep ==
  ASSUME EnquiryPeriods, EnquiriesInv, AnotherDay
  PROVE  EnquiriesInv'
<1> DEFINE rs == [k \in Nth(questions) |->
                    IF MayAnswer(questions[k]) /\ questions[k].free < Clarification
                    THEN [questions[k] EXCEPT !.free = @ + 1] ELSE questions[k]]
<1>0. /\ now \in Nat /\ Shape(tender) /\ questions \in Seq(Question) /\ AllFit(tender, now)
  BY BoundsAssumption DEF EnquiriesInv, IInv, Sound, EInv
<1>1. tender' = tender /\ now' = now + 1 /\ questions' = rs
  BY DEF AnotherDay, NextMoment
<1>2. IInv'
  BY IInvStep DEF EnquiriesInv, AnotherDay, Next
<1>3. ASSUME NEW k \in Nth(questions)
      PROVE  /\ rs[k] \in Question /\ Timely(tender, now + 1, rs[k])
             /\ Promise(tender, now + 1, rs[k])
  <2> DEFINE q == questions[k]
             r == rs[k]
             answerable ==
               /\ tender.status = "active.tendering"
               /\ ~ (~ MayEditTender(tender) \/ (~ q.item /\ Held(tender, q.about)))
               /\ LotIsActive(tender, q.about)
               /\ ~ (tender.end - EnquiryLead + Clarification <= now)
  <2>1. q \in Question /\ Timely(tender, now, q) /\ Promise(tender, now, q)
    BY <1>0, ElementOfSeq DEF EnquiriesInv, EInv, Nth
  <2>2. MayAnswer(q) <=> answerable
    BY DEF MayAnswer, InTendering, Withheld, Over, ClarificationsUntil, EnquiriesEnd
  <2>3. r = IF answerable /\ q.free < Clarification THEN [q EXCEPT !.free = @ + 1] ELSE q
    BY <2>2
  <2>4. answerable \in BOOLEAN
    OBVIOUS
  <2>5. r \in Question /\ Timely(tender, now + 1, r) /\ Promise(tender, now + 1, r)
    <3> HIDE DEF rs, q
    <3> QED BY <1>0, <2>1, <2>3, <2>4, QuestionNextDay
  <2> QED BY <2>5
<1>4. AllFit(tender, now + 1)
  BY <1>0, FitsLater
<1>5. DOMAIN rs = Nth(questions) /\ rs = [k \in Nth(questions) |-> rs[k]]
  OBVIOUS
<1> HIDE DEF rs
<1>6. EInv(tender, now + 1, rs)
  BY <1>0, <1>3, <1>4, <1>5, QuestionsChanged
<1>7. EInv(tender', now', questions')
  BY <1>1, <1>6
<1> QED BY <1>2, <1>7 DEF EnquiriesInv

LEMMA MoveStep ==
  ASSUME EnquiryPeriods, EnquiriesInv, NEW e \in TenderPeriod .. MaxEnd, MoveTenderPeriod(e)
  PROVE  EnquiriesInv'
<1> DEFINE rs == [k \in Nth(questions) |->
                    [questions[k] EXCEPT !.hurried = @ \/ e < tender.end]]
<1>0. /\ now \in Nat /\ Shape(tender) /\ Sound(tender) /\ questions \in Seq(Question)
      /\ AllFit(tender, now) /\ e \in Nat
  BY BoundsAssumption, PeriodsAssumption DEF EnquiriesInv, IInv, Sound, EInv
<1>1. /\ tender' = [tender EXCEPT !.end = e] /\ now' = now /\ questions' = rs
      /\ now + ExtraPeriod <= e
  BY DEF MoveTenderPeriod, ExtendTenderPeriod, Save
<1>2. IInv'
  BY IInvStep DEF EnquiriesInv, MoveTenderPeriod, Next
<1>3. /\ tender'.status = tender.status /\ tender'.lots = tender.lots /\ tender'.end = e
      /\ tender'.cancellations = tender.cancellations
  BY <1>0, <1>1, Rebuilt
<1>4. Shape(tender')
  BY <1>2 DEF IInv, Sound
<1>5. ASSUME NEW k \in Nth(questions)
      PROVE  /\ rs[k] \in Question /\ Timely(tender', now, rs[k])
             /\ Promise(tender', now, rs[k])
  <2>1. /\ questions[k] \in Question /\ Timely(tender, now, questions[k])
        /\ Promise(tender, now, questions[k])
    BY <1>0, ElementOfSeq DEF EnquiriesInv, EInv, Nth
  <2>2. rs[k] = Hurried(questions[k], tender, e)
    BY DEF Hurried
  <2> DEFINE u == tender'
             n == now
  <2>3. /\ n \in Nat /\ e \in Nat /\ n + ExtraPeriod <= e /\ Shape(u)
        /\ u.status = tender.status /\ u.lots = tender.lots /\ u.end = e
        /\ u.cancellations = tender.cancellations
        /\ Timely(tender, n, questions[k]) /\ Promise(tender, n, questions[k])
    BY <1>0, <1>1, <1>3, <1>4, <2>1
  <2> HIDE DEF rs, u, n
  <2>4. rs[k] \in Question /\ Timely(u, n, rs[k]) /\ Promise(u, n, rs[k])
    BY <1>0, <2>1, <2>2, <2>3, QuestionMoved
  <2> QED BY <2>4 DEF u, n
<1>6. AllFit(tender', now)
  BY <1>0, <1>3 DEF AllFit
<1>7. DOMAIN rs = Nth(questions) /\ rs = [k \in Nth(questions) |-> rs[k]]
  OBVIOUS
<1> HIDE DEF rs
<1>8. EInv(tender', now, rs)
  BY <1>0, <1>5, <1>6, <1>7, QuestionsChanged
<1>9. EInv(tender', now', questions')
  BY <1>1, <1>8
<1> QED BY <1>2, <1>9 DEF EnquiriesInv

LEMMA EnquiriesStep ==
  ASSUME EnquiryPeriods
  PROVE  EnquiriesInv /\ [EnquiryNext]_questionVars => EnquiriesInv'
<1> SUFFICES ASSUME EnquiriesInv, [EnquiryNext]_questionVars PROVE EnquiriesInv'
  OBVIOUS
<1>0. now \in Nat /\ Shape(tender) /\ IInv /\ AllFit(tender, now) /\ EInv(tender, now, questions)
  BY BoundsAssumption DEF EnquiriesInv, IInv, Sound, EInv
<1>1. ASSUME Sound(tender'), Carried(tender, tender', now), UNCHANGED <<now, questions>>
      PROVE  EnquiriesInv'
  <2>1. EInv(tender', now, questions)
    BY <1>0, <1>1, QuestionsCarried DEF Sound
  <2>2. EInv(tender', now', questions')
    BY <1>1, <2>1
  <2> QED BY <1>0, <1>1, <2>2 DEF EnquiriesInv, IInv
<1>2. CASE Visit
  <2>1. UNCHANGED <<now, questions>>
    BY <1>2 DEF Visit, Save
  <2> QED BY <1>0, <1>1, <1>2, <2>1, VisitCarried
<1>3. CASE Requests /\ UNCHANGED questions
  <2>1. UNCHANGED now
    BY <1>3 DEF Requests, Save, PostCancellation, PostComplaint,
       ResolveComplaint, PatchComplaint, SubmitCancellation, DropCancellation,
       WithdrawCancellation, PostObjection, ResolveObjection, PatchObjection
  <2> QED BY <1>0, <1>1, <1>3, <2>1, RequestCarried
<1>4. CASE UNCHANGED questionVars
  BY <1>4 DEF questionVars, vars, EnquiriesInv, IInv, EInv, AllFit, FitsWell, Timely, Promise,
     Kept, HoldsUp, LotIsActive, Short, Redresses
<1> QED BY <1>2, <1>3, <1>4, AskStep, AnswerStep, AnotherDayStep, MoveStep DEF EnquiryNext

LEMMA EnquiriesAreSound ==
  ASSUME EnquiryPeriods, EnquiriesInv
  PROVE  EnquiriesSound
<1>0. /\ now \in Nat /\ tender.end \in Nat /\ questions \in Seq(Question)
      /\ EnquiryLead \in Nat /\ Clarification \in Nat
      /\ \A k \in Nth(questions) :
           /\ Timely(tender, now, questions[k]) /\ Promise(tender, now, questions[k])
           /\ questions[k] \in Question /\ questions[k].free \in 0 .. Clarification
  <2>1. questions \in Seq(Question)
    BY DEF EnquiriesInv, EInv
  <2>2. \A k \in Nth(questions) : questions[k] \in Question
    BY <2>1, ElementOfSeq DEF Nth
  <2> QED BY <2>1, <2>2, QuestionParts, ShapeParts, BoundsAssumption
      DEF EnquiriesInv, IInv, Sound, EInv, EnquiryPeriods
<1>1. AnswersInTime
  BY <1>0 DEF AnswersInTime, Timely
<1>2. SilenceIsTheOwners
  <2> SUFFICES ASSUME NEW k \in Nth(questions), InTendering,
                      LotIsActive(tender, questions[k].about), ~ Withheld(questions[k]),
                      Over(ClarificationsUntil), ~ questions[k].hurried,
                      ~ (Clarification <= questions[k].free + Short(tender))
               PROVE  FALSE
    BY DEF SilenceIsTheOwners
  <2> DEFINE q == questions[k]
  <2>1. Kept(tender, now, q)
    BY <1>0 DEF Promise, InTendering
  <2>2. CASE \E i \in Nth(tender.cancellations) : HoldsUp(tender, q, i)
    <3>1. Withheld(q)
      BY <2>2 DEF HoldsUp, Holding, Withheld, MayEditTender, HasPending, HasUnredressed, Held
    <3> QED BY <3>1
  <2>3. CASE now + EnquiryLead <= tender.end + q.free + Short(tender)
    <3>1. /\ tender.end - EnquiryLead + Clarification <= now /\ q.free \in 0 .. Clarification
          /\ ~ (Clarification <= q.free + Short(tender))
      BY <1>0 DEF Over, ClarificationsUntil, EnquiriesEnd
    <3>2. Short(tender) \in Nat
      BY ShortGrows DEF EnquiriesInv, IInv, Sound
    <3> HIDE DEF q
    <3> QED BY <1>0, <2>3, <3>1, <3>2
  <2> QED BY <2>1, <2>2, <2>3 DEF Kept
<1>3. EndIsScheduled
  <2> SUFFICES ASSUME TenderingOver(Checked.tender),
                      \A k \in Nth(questions) : questions[k].answer = {} =>
                        questions[k].about \in Lots
                        /\ Checked.tender.lots[questions[k].about] # "active"
               PROVE  \E d \in VisitsDue : Over(d)
    BY DEF EndIsScheduled
  <2>1. CASE \E i \in Nth(tender.cancellations) :
               /\ tender.cancellations[i].status = "pending"
               /\ tender.cancellations[i].since + CancelTerm \in NextChecks(tender)
               /\ Over(tender.cancellations[i].since + CancelTerm)
    BY <2>1 DEF VisitsDue
  <2>2. CASE /\ tender.end \in NextChecks(tender) /\ Over(tender.end)
             /\ Checked.tender.lots = tender.lots
    <3>1. ~ UnansweredQuestions(tender)
      BY <2>2 DEF UnansweredQuestions, LotIsActive
    <3> QED BY <2>2, <3>1 DEF VisitsDue
  <2> QED BY <2>1, <2>2, WhatIsDue DEF EnquiriesInv
<1> QED BY <1>0, <1>1, <1>2, <1>3 DEF EnquiriesSound

\* However many questions and cancellations there are: every answer leaves the
\* bidders their days, a question that can no longer be answered had the time it
\* was promised, less what cancellations did not give back (under an hour each),
\* or its owner cut it, and the end of the tendering is scheduled
\* as soon as nothing for sale waits for an answer.
THEOREM QuestionsAreAnswered ==
  ASSUME EnquiryPeriods
  PROVE  EnquirySpec => []EnquiriesSound
<1>1. EnquiriesInv => EnquiriesSound
  BY EnquiriesAreSound
<1>2. EnquiriesInv /\ [EnquiryNext]_questionVars => EnquiriesInv'
  BY EnquiriesStep
<1> QED BY <1>1, <1>2, EnquiriesStart, PTL DEF EnquirySpec
=============================================================================
