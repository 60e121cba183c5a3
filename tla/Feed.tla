-------------------------------- MODULE Feed --------------------------------
(***************************************************************************)
(* GET /tenders (plans, contracts, agreements): the paged listing by which *)
(* other systems copy the database (APIResourceListing.get).  A reader     *)
(* follows next_page; the server keeps nothing about it.  The listing is a *)
(* CouchDB view sorted by one of two keys:                                 *)
(*   "dateModified"  the time save_tender took before it stored;           *)
(*   "changes"       the sequence number CouchDB gave the store.           *)
(* Documents are numbered; the tie of two equal times is left out: times   *)
(* have microseconds.  Listings are read in ascending order.               *)
(***************************************************************************)
EXTENDS Naturals, FiniteSets

CONSTANTS
  N,        \* number of documents
  Limits,   \* page sizes a reader may use
  MaxSaves  \* bound on the saves

ASSUME FeedAssumption ==
  /\ N \in Nat /\ MaxSaves \in Nat
  /\ Limits \subseteq Nat \ {0} /\ Limits # {}

Docs == 1 .. N

VARIABLES
  sorting,  \* "dateModified" or "changes": the FEED parameter of the reader
  store,    \* each document: its key in the view, 0 before it is stored, and version
  index,    \* the view as last updated: with update_after a reader gets this one
  stamped,  \* time taken by a save under way, 0 when there is none
  clock,    \* times handed out by get_now(), all different
  seq,      \* sequence number of the last store
  limit, offset,  \* the reader's page size and its next_page offset, 0 at the start
  seen,     \* version of each document in the reader's copy
  overtaken \* (history) whether a save took its time before, and stored after, another

feedVars == <<sorting, store, index, stamped, clock, seq, limit, offset, seen, overtaken>>

Absent == [key |-> 0, version |-> 0]

FeedInit ==
  /\ sorting \in {"dateModified", "changes"}
  /\ overtaken = FALSE
  /\ store = [d \in Docs |-> Absent]
  /\ index = store
  /\ stamped = [d \in Docs |-> 0]
  /\ clock = 0 /\ seq = 0 /\ offset = 0
  /\ limit \in Limits
  /\ seen = [d \in Docs |-> 0]

\* save_tender takes now = get_now() and puts it into dateModified ...
Stamp(d) ==
  /\ clock < MaxSaves
  /\ stamped[d] = 0
  /\ clock' = clock + 1
  /\ stamped' = [stamped EXCEPT ![d] = clock']
  /\ UNCHANGED <<sorting, store, index, seq, limit, offset, seen, overtaken>>

\* ... then stores, and CouchDB numbers the store.
Store(d) ==
  /\ stamped[d] # 0
  /\ seq' = seq + 1
  /\ store' = [store EXCEPT ![d] =
       [key |-> IF sorting = "changes" THEN seq' ELSE stamped[d],
        version |-> @.version + 1]]
  /\ stamped' = [stamped EXCEPT ![d] = 0]
  /\ overtaken' = (overtaken \/ \E e \in Docs : store'[e].key > store'[d].key)
  /\ UNCHANGED <<sorting, index, clock, limit, offset, seen>>

\* CouchDB brings the view up to date, before a read or after it.
UpdateIndex ==
  /\ index # store
  /\ index' = store
  /\ UNCHANGED <<sorting, store, stamped, clock, seq, limit, offset, seen, overtaken>>

\* The first n of some rows, in the order of the view.
FirstOf(rows, n) ==
  {d \in rows : Cardinality({e \in rows : index[e].key < index[d].key}) < n}

\* The view rows from a key on, at most n of them.
Rows(from, n) == FirstOf({d \in Docs : index[d].key # 0 /\ index[d].key >= from}, n)

\* Faulty: no extra row is read for the one that may be dropped.
ViewLimitExact == limit

\* One page: with an offset one row more is read, as the first one is expected
\* to be the last of the previous page and is dropped when it is.
ViewLimit == IF offset = 0 THEN limit ELSE limit + 1

\* Faulty: the first row is dropped though it may be another document.
PageDropsFirst ==
  LET rows == Rows(offset, ViewLimit) IN
  IF offset = 0 THEN rows
  ELSE {d \in rows : \E e \in rows : index[e].key < index[d].key}

Page ==
  LET rows == Rows(offset, ViewLimit) IN
  IF offset = 0 THEN rows
  ELSE IF \E d \in rows : index[d].key = offset THEN {d \in rows : index[d].key # offset}
  ELSE FirstOf(rows, limit)

\* next_page starts at the last row of the page.
Read ==
  /\ Page # {}
  /\ \E last \in Page :
       /\ \A d \in Page : index[d].key <= index[last].key
       /\ offset' = index[last].key
  /\ seen' = [d \in Docs |-> IF d \in Page THEN index[d].version ELSE seen[d]]
  /\ UNCHANGED <<sorting, store, index, stamped, clock, seq, limit, overtaken>>

FeedNext == (\E d \in Docs : Stamp(d) \/ Store(d)) \/ UpdateIndex \/ Read

\* The reader polls for ever, the view catches up and a request under way is
\* carried through; nobody has to start a new one.
FeedFairness == WF_feedVars(Read) /\ WF_feedVars(UpdateIndex) /\ \A d \in Docs : WF_feedVars(Store(d))

FeedSpec == FeedInit /\ [][FeedNext]_feedVars /\ FeedFairness

-----------------------------------------------------------------------------
Row == [key : Nat, version : Nat]

FeedTypeOK ==
  /\ sorting \in {"dateModified", "changes"} /\ overtaken \in BOOLEAN
  /\ store \in [Docs -> Row] /\ index \in [Docs -> Row]
  /\ stamped \in [Docs -> Nat] /\ seen \in [Docs -> Nat]
  /\ clock \in 0 .. MaxSaves /\ seq \in 0 .. MaxSaves /\ offset \in Nat
  /\ limit \in Limits

\* next_page "guarantees that all changes from the last request are included
\* in the new batch": a version the reader lacks always lies ahead of it.  The
\* changes feed keeps this promise however saves overlap; the dateModified
\* feed only as long as saves are stored in the order they took their times.
NothingSkipped ==
  sorting = "changes" \/ ~ overtaken =>
    \A d \in Docs : seen[d] < store[d].version => store[d].key > offset

\* A page is cut and its first row dropped without a loss, in either feed.
FeedSound == FeedTypeOK /\ NothingSkipped

\* Once the writers rest, following next_page brings the reader's copy up to
\* date with the database and it stays so, if no save overtook another or the
\* reader follows the changes.
EventuallySynchronized ==
  <>[]((\A d \in Docs : seen[d] = store[d].version) \/ (sorting = "dateModified" /\ overtaken))
=============================================================================
