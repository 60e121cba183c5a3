------------------------------ MODULE Historical ------------------------------
(***************************************************************************)
(* What the historical API answers about a document while requests change  *)
(* it.  A revision holds the patch that takes the change back, made from   *)
(* the copy the request loaded; GET /<doc>/historical undoes the patches   *)
(* of the document from the last one, to the version of a number or of a   *)
(* time (X-Revision-N, X-Revision-Date).                                   *)
(*                                                                         *)
(* The requests are those of DocumentStore; here the document also has a   *)
(* body, and each revision its patch.  The document was made by one store, *)
(* at time 0, before the requests: log[1] is that revision, and log[i + 1] *)
(* belongs to doc.revisions[i].                                            *)
(***************************************************************************)
EXTENDS DocumentStore

VARIABLES
  stored,  \* the stored body and log
  draft,   \* the body and log of each request's copy
  bodies   \* history: the body after each store

hvars == <<vars, stored, draft, bodies>>

\* A body is told by who wrote each of its parts last.
Parts == {"terms", "bids"}
Writers == Requests \cup {"maker"}

\* The changes told apart: brokers change the terms or their bids, the
\* chronograph the terms, which stand for the statuses too.
Changes == {[author |-> "broker", parts |-> {"terms"}],
            [author |-> "broker", parts |-> {"bids"}],
            [author |-> "chronograph", parts |-> {"terms"}]}

Bodies == [Parts -> Writers]
LogEntry == [author : {"broker", "chronograph"}, date : Nat,
          changes : UNION {[changed -> Writers] : changed \in SUBSET Parts}]

\* Faulty: the two serializations swapped, so that the patch makes the change.
PatchForward(body, changed, r) == [p \in changed |-> r]

\* get_revision_changes(new, old): for each part changed, what it was.
UndoOf(body, changed, r) == [p \in changed |-> body[p]]

\* _apply_patch(doc, revision["changes"])
Undo(body, entry) ==
  [p \in Parts |-> IF p \in DOMAIN entry.changes THEN entry.changes[p] ELSE body[p]]

\* The view changes parts of the loaded body.
Changed(body, parts, r) == [p \in Parts |-> IF p \in parts THEN r ELSE body[p]]

Made == [p \in Parts |-> "maker"]
Creation == [author |-> "broker", date |-> 0, changes |-> [p \in {"terms"} |-> "maker"]]

HInit ==
  /\ Init
  /\ stored = [body |-> Made, log |-> <<Creation>>]
  /\ bodies = <<Made>>
  /\ draft = [r \in Requests |-> stored]

Forget(r) == draft' = [draft EXCEPT ![r] = [body |-> Made, log |-> <<Creation>>]]

HLoad(r) ==
  /\ Load(r)
  /\ draft' = [draft EXCEPT ![r] = stored]
  /\ UNCHANGED <<stored, bodies>>

\* save_tender, save_plan, ...: the change is a broker's or the chronograph's,
\* and is dated now; only changes of bids may leave dateModified as it is.
HCompute(r) ==
  /\ Compute(r)
  /\ \E c \in Changes :
       /\ "terms" \in c.parts => copy'[r].dateModified = clock
       /\ draft' = [draft EXCEPT ![r] =
            [body |-> Changed(draft[r].body, c.parts, r),
             log  |-> Append(draft[r].log,
                        [author |-> c.author, date |-> clock,
                         changes |-> UndoOf(draft[r].body, c.parts, r)])]]
  /\ UNCHANGED <<stored, bodies>>

HStore(r) ==
  /\ Store(r) \/ StoreUnanswered(r)
  /\ stored' = draft[r]
  /\ bodies' = Append(bodies, draft[r].body)
  /\ Forget(r)

\* The copy dies with the request.
HEnd(r) ==
  /\ NothingToSave(r) \/ Conflict(r) \/ Fail(r) \/ Die(r)
  /\ Forget(r)
  /\ UNCHANGED <<stored, bodies>>

HOther ==
  /\ Tick \/ \E r \in Requests : Respond(r)
  /\ UNCHANGED <<stored, draft, bodies>>

HNext == HOther \/ \E r \in Requests : HLoad(r) \/ HCompute(r) \/ HStore(r) \/ HEnd(r)

HSpec == HInit /\ [][HNext]_hvars

-----------------------------------------------------------------------------
(* What the API answers.                                                   *)

log == stored.log
Stores == Len(log)

\* find_dateModified looks for a change that is not the chronograph's and does
\* not touch the bids; the creation of the document is one.
Counts(entry) == entry.author # "chronograph" /\ "bids" \notin DOMAIN entry.changes

FindDateModified(n) ==
  LET i == CHOOSE k \in 1 .. n : Counts(log[k]) /\ \A m \in k + 1 .. n : ~ Counts(log[m])
  IN  log[i].date

\* get_version_from_date: 404, also of a document with one revision.
DateRefused(d) == Stores < 2 \/ d > doc.dateModified \/ d < log[2].date

\* The loop undoes the last patch before it compares the first time.
VersionByDate(d) ==
  CHOOSE v \in 1 .. Stores - 1 :
    /\ FindDateModified(v) <= d
    /\ \A w \in v + 1 .. Stores - 1 : FindDateModified(w) > d

-----------------------------------------------------------------------------
\* The patches, undone one by one from the body the database holds, bring back
\* the body of every store: apply_while never meets a patch that was made from
\* another version than the one its store replaced, although each is made from
\* the copy one request loaded and others may have stored since.
VersionsReplay ==
  /\ Len(bodies) = Stores
  /\ stored.body = bodies[Stores]
  /\ \A v \in 1 .. Stores - 1 : Undo(bodies[v + 1], log[v + 1]) = bodies[v]

\* A time between the second revision and dateModified is never answered with
\* an error, and the version it finds holds exactly the changes made by then,
\* of those that count and are not the last one.
DatesAnswered ==
  \A d \in 0 .. clock : ~ DateRefused(d) =>
    /\ VersionByDate(d) \in 1 .. Stores - 1
    /\ \A i \in 1 .. Stores - 1 :
         Counts(log[i]) => (i <= VersionByDate(d) <=> log[i].date <= d)

\* The historical API tells what was: asked for the number of a version, or for
\* a time, while any number of requests overtake each other.
HistorySound == VersionsReplay /\ DatesAnswered
=============================================================================
