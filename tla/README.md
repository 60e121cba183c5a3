# Verification of openprocurement.api

TLA+ models of the openprocurement API (the central database of the Prozorro
procurement system), the TLC runs that check them on small instances, and TLAPS
proofs of what matters most for instances of every size. Paths below are
relative to `src/openprocurement/` of the repository unless they start with
`docs/`.

Run everything from this directory:

    tlasany  <Module>.tla                            # parse
    tlc -workers 2 -config <Config>.cfg <Module>.tla # model-check one run
    tlapm    <Module>Proof.tla                       # check the proofs

`PROJECT.json` lists the runs, the properties each one checks, the source lines
behind every definition, the hazards the properties are aimed at and the
theorems.

## 1. The system

The API is a set of stateless Pyramid workers in front of one CouchDB database.
All state is in the database: each tender, plan, contract, agreement, transfer
is one JSON document, stored whole, with CouchDB's `_rev` as its version. There
are no transactions over several documents and no locks; the only
synchronisation is that CouchDB refuses a store whose `_rev` is not current.
Time enters through `get_now()` in the handlers and through the *chronograph*,
an external service that reads the `next_check` of a tender and PATCHes the
tender when that time comes. Auctions are held by an external service that
POSTs the results. Other systems copy the database by following the paged
listings ("feeds").

| Component | State | Operations | Talks to | What makes it hard | What makes it correct |
|---|---|---|---|---|---|
| Document storage (`tender/core/utils.py` `save_tender`, `planning/api/utils.py` `save_plan`, contracts, agreements; `api/utils.py` `append_revision`, `handle_store_exceptions`) | one document: `_rev`, `revisions`, `dateModified` | load (traversal factory), change a copy, append revision, stamp, conditional store, answer | every view | requests interleave between load and store; workers die; replies of the database are lost; clients and the session retry | no lost update; true answers; revisions replay; a 409 has a winner; `dateModified` does not go back |
| Id counters (`generate_tender_id`, `generate_plan_id`) | one document: day → next number | read, increment, conditional store, retry without bound | creation of tenders and plans | races, lost answers, unbounded loop | unique ids; numbers lost only to faults; every call returns |
| Relocation (`relocation/api`) | `Transfer` (`usedFor`), owner and tokens of an object | create Transfer; apply it to a tender, plan, contract, agreement | document storage of four kinds | two documents saved one after the other, checked on copies | one object per Transfer; consent of the holder at the store; half-done requests are retryable |
| Plans, their milestones and their tenders (`planning/api/views/plan.py`, `plan_milestone.py`, `tender/core/views/tender_plans.py`) | `plan.tender_id`, `plan.status`, `tender.plans`, `plan.milestones` | create a tender from a plan; link a plan to a draft tender; PATCH a plan; post and decide a milestone | document storage of plans and tenders | the link is kept twice and saved in two stores; the organisation that approves may be replaced | the halves agree for published tenders; a plan is decided once; an approval is by whoever is to procure |
| Questions of openUA (`tender/belowthreshold/views/question.py`, `tender/openua/views/question.py`, `has_unanswered_questions`) | `tender.questions`, `enquiryPeriod` | ask, answer | cancellations, edits of the tender, chronograph | periods counted back from an end that moves; cancellations withhold the answer; open questions hold up the tender | answers come in time for bidders; the owner could always answer; the end is scheduled |
| Feeds (`api/utils.py` `APIResourceListing`, `*/design.py`) | a CouchDB view; the reader's offset | list a page from an offset | every store | stores overtake each other; the index is stale; pages overlap by one row | no version is skipped; a reader catches up |
| belowThreshold tenders (`tender/belowthreshold`) | the tender: status, lots, bids, awards, contracts, claims, cancellations | the requests of buyers and bidders, auction results, chronograph visits | core helpers, chronograph, auctions | long legal sequences; lots proceed apart; times race with requests; `next_check` computed apart from `check_status` | one live award, for the best bid; complete iff signed; no open dispute behind an outcome; nothing forgotten; bidding ends |
| Tender core: cancellations and complaints (`tender/core/views/cancellation*.py`, `complaint.py`, `CancelTenderLot`, `core/models.py` ACL) | complaints with reviewers, cancellations in pending with a complaint period | file, pay, accept, satisfy, resolve; submit, withdraw or make good a cancellation; put it in force when its period is over | all above-threshold procedures | a pending cancellation blocks and outlives other operations; complaints about it and about the tender cross it | nothing disputed is buried; no auction while a cancellation is on its way; bidders get their time back; decisions are scheduled and taken |
| Bids of openUA and openEU (`tender/openua`, `openeu`, `core/validation.py`) | a bid with values per lot, its documents, the 24-hour and ALP milestones | place, confirm, change, delete; edits of the terms invalidate; prices open later | tender edits, qualifications, awards | edits of the terms race with bids; three places decide what is shown; documents may change under a decision | bids that count fit the last terms; prices are told once and together; what was decided on does not change |
| Documents and posts (`core/views/document.py` and its subclasses, `openua/views/complaint_post*.py`) | versions with one id, posts with references | POST, PUT, PATCH by a folder's rules; questions and answers | the object that holds the folder | 24 kinds of folder with rules of their own | a document stays its author's; the papers of a case close with it; one answer to one question |
| openUA, openUA.defense, openEU, ESCO (`tender/openua`, `openuadefense`, `openeu`, `esco`) | as belowThreshold, and qualifications | review of bids and its stand-still; awards with complaints, start anew of a lot, contracts | core | two stand-stills; a decision is kept in three places; disputes reopen what was decided | who competes was admitted without open dispute; the best bid not rejected wins; signed after disputes |
| Competitive dialogue (`tender/competitivedialogue`) | two tenders of two stages, a short list | a bridge creates stage 2 from stage 1 | core, credentials | a crash between two tenders; stage 1 may go on meanwhile | who is on the short list was admitted, and stays so |
| Framework agreements (`tender/cfaua`, `cfaselectionua`, `agreement`) | several winners per lot, agreement with contracts, changes, a copy of the agreement in each selection | award and sign with several winners; change an agreement; select from a copy of it | core, bridges, bots | awards made together and anew; one pending change; selection on a stale copy | the best bids have the awards; contracts are what the active changes make of them; bids within the copy, the cheapest wins |
| Limited procedures (`tender/limited`) | awards without bids | post and move awards, stand-still, sign, cancel | core | the owner moves awards between lots; objections prolong stand-stills | one live award a lot; nothing signed while it may be complained about |
| Contracts (`contracting/api`) | contract, changes, documents | register, PATCH, changes, termination | contracting bridge | one undecided change at a time; amounts and dates checked by different requests | changes in order; paid within the value; ended for good |
| Historical versions (`historical/core`) | none of its own: `revisions` with their patches | GET a version by number or by time: undo patches from the last one | document storage | each patch was made from a copy one request loaded, by requests that overtake each other; changes of bids and of the chronograph do not count as dates | every version comes back; a time finds the changes made by then |
| Accreditation and ACL (`api/auth.py`, `api/traversal.py`), migrations, document service, rates, medicines registry | configuration, or none | – | – | – | not modelled: no state of their own, run off line, or calls out |

## 2. Modules

| Module | Models | Used by |
|---|---|---|
| `AtomicDocument` | what a client may assume of a stored document | abstract specification |
| `DocumentStore` | load, change, conditional store, lost reply, answer, crash | implements `AtomicDocument` (refinement mapping in the module) |
| `Historical` | the bodies and patches of that document, and the versions told by number and by time | refines `DocumentStore`; run |
| `IdCounter` | the retry loop over the counter document | |
| `Ownership` | Transfers and the two stores of a relocation | |
| `PlanTender` | plans, the tenders made from them, the two halves of the link | `Publication` |
| `PlanApproval` | the milestones of a plan while its organisation and dates change | `Publication` |
| `Enquiries` | questions about an openUA tender that is being cancelled, in whole or in part | extends `TenderCancellation`; `Publication` |
| `Bidding` | one bid of openUA or openEU while the terms change, its documents and milestones | `Publication` |
| `Folders` | the documents of everything else, and the posts of complaints | `Publication` |
| `Publication` | composition: a plan is approved, a tender made from it and published, then asked about, bid for and documented | run |
| `Feed` | the listing by `dateModified` and by changes, and its reader | |
| `BelowThreshold` | a belowThreshold tender from draft to its end | |
| `CancellationRules` | what all procedures share: reviews of complaints, what a cancellation blocks | seven modules |
| `TenderCancellation` | cancellations and complaints of an openUA tender up to the end of its auctions | `Enquiries` |
| `PreQualification` | openEU and dialogue tenders: bids, qualifications, stand-still | `CompetitiveDialogue` |
| `CompetitiveDialogue` | stage 1 handed over to stage 2 by the bridge | `AboveThreshold` |
| `Awarding` | awards, complaints, contracts after the auction (openUA, openEU, ESCO, defense) | `AboveThreshold` |
| `AboveThreshold` | composition: pre-qualification, dialogue, auction, awarding | run |
| `Sorting` | lists cut from lists, or sorted | `FrameworkTender`, `FrameworkSelection` |
| `FrameworkTender` | closeFrameworkAgreementUA after its auction | `Frameworks` |
| `AgreementChanges` | the registered agreement and its changes | `Frameworks` |
| `FrameworkSelection` | selection of a supplier by a copy of the agreement | `Frameworks` |
| `Frameworks` | composition: tender, bridge, agreement, bot, selection | run |
| `LimitedProcedure` | reporting and negotiation | `LimitedContracts` |
| `Contracting` | the registered contract and its changes | `LimitedContracts` |
| `LimitedContracts` | composition: procedure, bridge, contract | run |
| `DocumentStoreProof`, `NumberingProof` (`IdCounter`, `Feed`, `Ownership`), `PublicationProof`, `BelowThresholdProof`, `TenderCancellationProof`, `AboveThresholdProof`, `LimitedContractsProof`, `FrameworksProof` | | proofs (section 4) |
| `MCDocumentStore`, `MCOwnership`, `MCBelowThreshold`, `MCTenderCancellation` | | instances: symmetry sets |

How they compose: `DocumentStore` is the level every other module stands on. It
shows that one request on one document is atomic, which is why the modules of
procedures make every request one step (it touches one tender only), and why
`Ownership` and `PlanTender`, whose requests touch *two* documents, split a
request into its loads and its stores and represent each store by its guard
"the copy's revision is current". `Feed` looks at the two times of the same
store (`get_now()` before, the sequence number at the store). The four
compositions hand a document from one service to the next, as the bridges do:
what the earlier one can no longer influence is not followed further, so the
run explores a sum of stories and not their product.

Definitions marked `Faulty:` are variants of the definition that follows them,
as a plausible bug in that code would make it. They are used by no
specification; replacing the definition by its variant must break the property
named with it in `PROJECT.json`, which is how the properties are known to say
something about the code.

### DocumentStore

`doc` is the stored document, abstracted to the number of stores (`rev`), the
list of revisions (author and the `_rev` each was made from) and
`dateModified`. A request goes `received → loaded → computed → stored → ok`, or
`unchanged → same` (a validator refuses, or the patch is empty), or
`refused → conflict` (409), or `failed → error` (the other branches of
`handle_store_exceptions`); `Die` can end it anywhere, after the store too. A
store may be taken and its reply lost (`StoreUnanswered`, remembered in
`unheard`): then the session, made with `retry_delays` (`api/database.py:48`),
may send it again, which conflicts with the request's own change (`Conflict`),
or the exception is answered (`Fail`): an error answer to a change that took
effect. What is external here is that CouchDB takes a store at once or not at
all. The view's change is abstracted to the revision it appends. `Compute` may
leave `dateModified` alone, as views that set `modified = False` do. Users hear
only the last step: `AtomicDocument` says what the answers mean. "ok" is said of
just the changes that took effect and whose reply was heard; without a lost reply
the answer tells which changes did.

### Historical

Adds to each step of `DocumentStore` the document's body and the patches of its
revisions (`stored`), the body and patches of each request's copy (`draft`) and,
as history, the body after each store (`bodies`). A body has two parts, what is
under `/bids` and the rest, each told by who wrote it last, because
`find_dateModified` skips revisions of the chronograph and those that touch the
bids. `HCompute` is a view's change together with `append_revision`: the patch
(`UndoOf`) is made from the copy, not from what the database holds by the time of
the store. `VersionByDate` is the loop of `get_version_from_date`, `DateRefused`
its 404; versions by number undo `log[n]` down to the number asked for. `log[1]` is
the revision that created the document, which a tender has from its first store
and which no request of the model repeats. Headers, hashes and the routing of
the answer to the ordinary view are left out.

### IdCounter

One worker per call. `Get` reads the document, `Save` stores the increment if
the revision is current, `Conflict` starts again, `Fail` is any other exception
of the read or the save followed by a sleep, and `FailAfterSave` the same when
the store did happen and only the answer was lost. The day is fixed by the
caller (`ctime.date()`), so calls of two days share the document.

### Ownership

`object[o].holder` stands for owner, owner token and transfer token, which
change together (`update_ownership`); an object not relocated is held by
itself. `movable` is whether the status is one the validators accept.
`LoadObject`, `LoadTransfer`, `SaveTransfer`, `SaveObject` are the four database
calls of a request; edits by the owner and a worker's death come between any
two. The four views for tenders, plans, contracts and agreements run this same
program. Accreditation levels are not modelled. `installed` is a history variable:
which pairs were ever applied.

### PlanTender, Publication

`POST /plans/{id}/tenders` is `LoadForCreate`, `CreateTender`, `SavePlan`; `POST
/tenders/{id}/plans` is `LoadTender`, `LoadForLink`, `LinkTender`, `SavePlan`.
`PatchPlan` is the owner's PATCH with the statuses that matter. `Publish` is
the client's side and external to the code: the documented two-phase commit, in
which a draft is published only when every request about it was answered with
success. Tenders created outside of draft are therefore not covered, and
`LinksAgree` is not promised for them.

`Publication` goes on from a published tender either to one bid or to one
folder. Neither depends on the plan, so they begin where the tender was
published plainly (one request, no edit, no crash): the races of the plans are
explored before, not multiplied with what follows. `PlanApproval` and `Enquiries`
need no tender made from a plan and begin where nothing has happened yet.

### PlanApproval

`approval` is one plan: its `procuringEntity`, whether it may still be edited
(`open`), the working days until its tender is to start (`ahead`) and its
milestones. `PostMilestone` compares the author with the present organisation
and with the authors of the active milestones, as `validate_milestone_author`
does; `DecideMilestone` is the PATCH by whoever posted it; `PatchEntity` is the PATCH
of the plan in which `_check_field_change_events` finds another identifier,
`PatchPlan` any other. A PATCH may move the start of the tender at the same time,
and the code looks at the start after the patch. Due dates and descriptions are
left out; the documents of milestones are in `Folders`.

### Enquiries

Adds questions to `TenderCancellation`. `EnquiriesEnd` and `ClarificationsUntil` are
computed from `tenderPeriod.endDate`, as the model does whenever it is stored.
`Ask` looks at the period only, `MayAnswer` at the status, the lot, the time and
`Withheld` (the permission `edit_tender`, and the cancellation of the very lot the
question names). `Visit` and `VisitsDue` are `check_status` and `next_check` of the
parent with `has_unanswered_questions` in them; the requests about cancellations are
the parent's. `free` and `hurried` are history: how much time there was to answer,
and whether the owner brought the end nearer. `Short` is what cancellations that
were made good may have taken from it for good, less than an hour each. `EnquiryAssumption` in `Publication` is
how the three periods relate in the code (10 days, 3 and 7).

### Bidding

`call` is the tender and one bid in it. `left` counts the days to the end of the
tender period, `notice` those that were left at the last change of the terms;
`PatchTender`, `PostLot`, `PatchLot`, `DeleteLot`, `PostTenderPaper` keep
`tendering_period_extra` days (`Extra`) or are refused, and
`Invalidate` (`invalidate_bids_data`) makes the bid invalid until its bidder
confirms it. What the other bids do to the tender is a free choice of its
status. Reviews (a qualification, later an award, for each part) carry the
24-hour and the ALP milestones, which open and close the documents of the bid.
`Hide` is what openEU shows of a bid that ended before the prices were opened.

### Folders

`desk` is one folder: its kind, the status of the tender and of the object it
belongs to, the versions in it and, for a complaint, its posts. The three
operations on documents are those of `core/views/document.py`; `Allowed` and its
parts give the rule of each kind as its subclass has it. What goes on around
the folder is any choice of the statuses the rules look at. `hands` records who
wrote the versions of a document.

### Feed

`store` is the database, `index` the view as CouchDB last updated it (reads use
`stale=update_after`), `limit`/`offset`/`seen` the reader, `sorting` the kind of
feed. `Page` follows the code to the row: the view is read with `limit + 1` rows
when there is an offset, and its first row is dropped only if it is exactly the
one at the offset; a page is a set of rows, since a reader only takes their versions
and the last key from it. A save is two steps, so saves overtake one another; the
`dateModified` feed keeps its promise only while they do not, which is what
`NothingSkipped` says. Descending order, `opt_fields` and the `mode` filters are
not modelled.

### BelowThreshold

`tender` is the document as one record; `check_status`, `check_bids`,
`check_tender_status`, `add_next_award`, `check_ignored_claim`,
`check_complaint_status` are operators from documents to documents with the
code's names in camel case, and each request saves the composition of them its
view runs, in the same order. A tender without lots is one unit `Whole`.

Abstractions, each chosen because no property tells the difference:

* bids are numbered by the auction's outcome, so "the best" is the least
  number; the order before the auction plays no part in the code's decisions
  except that `add_next_award` sorts by value, which is the same order;
* instants are reached or not: `phase` for the enquiry and tendering periods,
  `running`/`over` for a stand-still, `due` for the three days after which an
  answered claim closes. At the very microsecond of a boundary the code mixes
  `<` and `<=`; that visit has no effect and `next_check` stays set;
* one claim per target (the tender, a lot, an award); draft claims are not
  kept; `invalid` counts as `declined`, `cancelled` and `mistaken` claims as
  `withdrawn`; `pending.winner-signing` of a contract as `pending`;
* edits of lots, items, documents, questions and periods during enquiries are
  left out, and so is the administrator; creating awards and contracts by POST
  is left out because no role is granted it in this procedure;
* the rules are those in force after `RELEASE_2020_04_19`.

### TenderCancellation, CancellationRules

The stored tender again, with `now` the time since its publication, in units of
which `Day` make a day and `Hour` an hour; a deadline lies between two units, so
that no request comes at its very instant (where the code's `<`, `<=` differ).
`WholeDays` is the rounding of `recalculate_tender_periods`: whole days, one more
for an hour or more, and nothing for less. `PostCancellation`, `SubmitCancellation`,
`DropCancellation`, `WithdrawCancellation` are the POST and the three PATCHes of
a cancellation; `PostObjection`, `PatchObjection`, `ResolveObjection` those of
the complaints about it ("objections" in the action names, to tell them from
`PostComplaint`, `PatchComplaint`, `ResolveComplaint`, those about the terms of
the tender); `ExtendTenderPeriod` is the owner's PATCH of the tender.
`Chronograph` is `check_status`: `CheckDrafts`, then `CheckCancellations` in the
order of the list (an error in one ends the visit and nothing is saved), then,
unless `Blocked`, the end of the tendering with `StartAuction`. Who has bids is
chosen freely (`enough`). Left out: claims, results of single auctions, the
administrator, reminders to pay; questions are added by `Enquiries`. Business days
are days.

`CancellationRules` has the rules every procedure shares (`Reviewed`, `Settled`,
`Undecided`, `Blocked`, the permission `edit_tender`). The other procedure
modules reduce the course of a cancellation to `cancelling` (what the pending
one is about) and the steps it takes, because `TenderCancellation` covers its
inside.

### PreQualification, CompetitiveDialogue

`quals[b][p]` is the last qualification of bid `b` for part `p` (a lot, or the
whole tender); the decision is also kept in the value of the bid, which the
code sets at the same time, and `DecisionsStand` relates the two. `Store`
recomputes the status of each bid from its values, as `serialize_status` does
with every save. `EndOfTendering` is `check_initial_bids_count` and
`prepare_qualifications`; `StartStandStill` starts the stand-still;
`EndOfStandStill` counts what is left. The kinds `EU` and `dialogue` differ in
`MinBids`, in drafts, which only dialogues keep, and in what follows. The bridge
of the dialogue is external: it creates stage 2, opens it and completes stage 1
in separate steps, between which stage 1 may change and the bridge may stop.
Bids of stage 2 are followed by firm and lot.

### Awarding, AboveThreshold

Bids are numbered from the best; awards are kept per lot in the order they were
made, each with its contract. `SaveWithNextAward` is `add_next_award` (with the
ALP milestone where the price is abnormally low), `CheckTenderStatus`,
`FollowLots` the end of it. `CancelAward` gives the winner up; `StartAnew` is the
cancelling of all awards of a lot after a satisfied complaint. `kind` is `UA`
(openUA, openEU and ESCO share the view) or `defense`. `AboveThreshold` runs
openEU from bids to contracts, dialogues into their second stage, and openUA
and defense tenders from their auction on; the auction numbers the bids anew.

### FrameworkTender, AgreementChanges, FrameworkSelection, Frameworks

`AddNextAwards` makes the awards of the best `maxAwardsCount` bids together;
`EndOfStandStill` makes the agreement with a contract for each winner, whose unit
prices the owner sets before signing. The period of complaints about an award is
`open` from its rejection on, without an end, and `running` from the stand-still on;
an award that is rejected and then cancelled keeps an open one, so complaints about it
are taken in every later stand-still (`PostComplaint`). The bridge (external)
registers the contracts in force. `AgreementChanges` compares dates as the code does,
when a change is posted by their instants and when it is patched as texts: `Dates`
pairs an instant with the offset it was written with, and a text begins with the
local time (`Clock`). `FrameworkSelection` bids
against `copy`, which the bot takes of the agreement at any time before the
selection is set off. `PutAway` and the guards of the composition only stop
following what nobody reads any more. Sorted and filtered lists are told by what they
are (`Sorting`: the enumeration of a set of places in order), not by the recursion that
computes them, so that they can be reasoned about.

### LimitedProcedure, Contracting, LimitedContracts

Awards are a sequence with the lot each is for; the owner posts and moves them.
One PATCH carries a status and a lot, so each decision about an award has the lot
it ends up in as a parameter (`MoveAward`, `ActivateAward`, `RejectAward`,
`CancelAward`, `CancelAppealedAward`): the permission is that of the lot it was in,
everything after `apply_patch` (the lot in use, whose awards a satisfied complaint
cancels) is about the new one. The check that another award uses the lot counts
live awards, so `FreeFor` is asked of an award that stays live only.
Periods are `running` or `over`. `next_check_due` is `Tender.next_check` of
`limited/models.py`, `CheckStatus` what a visit does. `Contracting` starts when the
bridge (external) registers a signed contract of a complete reporting tender:
`EditAmounts`, `Terminate`, `SetStatus` (the three uses of the PATCH),
`PostChange`, `PatchChange`, `PostDocument`, `MoveDocument`, with dates as small
numbers and amounts up to 2. VAT, items and the implementation block are left
out.

## 3. Runs

| Run | Instance | Shows |
|---|---|---|
| `document_store` | 3 symmetric requests, clock 0..1, changes of the terms or bids by a broker, or by the chronograph | `RevisionChain`, `ConflictHasWinner`, `DateModifiedMonotone`, `HistorySound`, and that the protocol implements `AtomicDocument` |
| `id_counter` | 3 workers, 2 days, 2 faults | `IdsUnique`, `GapsAreFaults`, and `EveryCallReturns` under fairness |
| `ownership` | 2 objects, 2 Transfers, 2 requests (any object, Transfer and token each), 1 edit per object, symmetric | `TransferSound` (of `HolderIsUsedFor` and `HalfDoneIsRetryable`), `ConsentAtTheStore` |
| `publication` | 2 plans, 1 create, 1 central tender, 2 link requests, 1 edit per plan; then 2 lots or none, amounts 1–2, 3 days of which 2 are due to bidders; or one folder with 2 versions and 3 posts; or 2 organisations, 3 milestones, 3 days of which 2 are the stand-still; or 2 lots, 1 question, 1 cancellation with 1 objection, 7 units of time, 3 of them a day and an hour (enquiries end 3 before the tendering, answers 1) | `PlansSound`, `PlanDecidedOnce`, `BiddersInformed`, `BidPapersSound`, `FoldersSound` |
| `feed` | 3 documents, 4 saves that may overlap, pages of 1 or 2, both feeds | `FeedSound`, `EventuallySynchronized` |
| `below_threshold` | no lots, 2 bids, 3 awards, 2 claims, cancellation | `Safety`; `BiddingEnds`, `RejectionSettles` under fairness |
| `below_threshold_lots` | 2 symmetric lots, bids for any of them, 2 awards per lot, 1 claim, cancellation of lots | `AwardingSound`, `SettlingSound`, `FinalStaysFinal` |
| `tender_cancellation` | 2 symmetric lots, 4 units of time, 2 of them a day and an hour, an end of tendering that the owner may move back after it was prolonged, 2 cancellations with a complaint each, 1 complaint about the tender | `CancelledForGood`, `DecisionsAreScheduled`, `NothingIsBuried`, `TimeIsGivenBack` |
| `tender_cancellation_stuck` | 1 lot, 4 days, 1 cancellation, 1 complaint | violation of `CancellationTakesEffect`: with a lot the cancellation may hang for ever |
| `limited_contracts` | 2 symmetric lots or none, 2 awards with a complaint each, 1 cancellation with 1 objection; contract with 2 changes, amounts 0–2, 2 dates | `AwardsSound`, `StandStillKept`, `NothingIsForgotten`, `ContractsSound`, `ClosedStaysClosed` |
| `above_threshold` | 3 bids of 2 firms, 2 lots or none, 2 bids in the awarding, 3 awards, 1 complaint, symmetric | `QualificationSound`, `CompetitionSound`, `WinnersSound`, `AllRemembered` |
| `frameworks` | 3 bids, 2 winners, 5 awards, 1 complaint, unit prices 1 and 3; 2 changes at 2 instants with 2 offsets; selection with 2 bids and 3 rounds | `FrameworkSound`, `NothingIsForgotten`, `ChangesSound`, `SelectionSound` |

A property of a run is a conjunction of named parts, each with its own comment
in the module; the one type invariant of each module is the first of them.
Deadlock is not checked where requests are finite in number and the system may
simply be done (every run but `id_counter`, where `Finished` marks the good end).

**Why the bounds are enough to be interesting.** In the two-document protocols
every known failure is a race of two requests with a third event (an edit, a
death, another store) between their steps, and the instances have all three.
Three requests on one document make a conflict whose winner itself conflicted,
and a history of four revisions, of which the middle ones may or may not count
as dates.
Two bids with three awards let a winner be chosen, dropped, and chosen again
after an appeal; two lots with a shared bid let one lot finish, fail or be
cancelled while the other goes on. In
`TenderCancellation` the terms are one unit of time each and the tendering two, so that
a cancellation can be submitted before, during and after the last moment to
complain, and be withdrawn before and after the tendering should have ended. An
hour of two units, which is a day as well, is enough for three units to be rounded
down to two (with no loss allowed `TimeIsGivenBack` fails), and for one to be rounded up;
two cancellations meet over the same lot, two lots, or a lot and the tender.
In `PreQualification` three bids of two firms let the count of bids, or of
firms, fall below `MinBids` at each of the places that count them. In
`FrameworkTender` one bid more than there are winners is enough for a rejection
to call up the next, and five awards for all to be made anew after it and the
rejected one to be complained about later; two offsets an hour of the clock apart make
texts and instants of dates disagree. Two changes
of a contract or an agreement are enough for one to be dated against the other,
with an undated one first. In `Bidding` two days of three are due to bidders, so
that a change can come with time, just in time, and too late without an
extension. In `PlanApproval` three milestones let the organisation be replaced and
come back with one of its own each time. In `Enquiries` a cancellation fits into
the time to answer, before, in and after it, and may take the lot of the question
with it or leave it, or last so long that two units of the five it took are not
given back (without `Short`, `SilenceIsTheOwners` fails); the owner may move the end
in either direction.
What the bounds cut off: more than one claim per target, awards beyond the last
one allowed, a second cancellation in limited procedures, several complaints
about one award.
`Save` of `BelowThreshold` refuses a step beyond `MaxAwards`, so in the liveness
runs a decision that would need one more award is simply not taken by the user,
who is not obliged to take any.

**Fairness.** The workers' loop in `IdCounter` is weakly fair because a process
keeps running; nothing is assumed of faults. In `Feed` the reader polls, the
view catches up, and a save that began is carried through; no new save is
assumed. In `BelowThreshold` time passes, stand-stills and claim terms run out,
the chronograph makes the visits `next_check` asks for, and an auction that was
scheduled is reported. No user is assumed to do anything: `BiddingEnds` and
`RejectionSettles` hold without buyers, bidders or claimants. They do *not* say
that a tender ends, because a pending award waits for its buyer for ever. In
`TenderCancellation` (only for `tender_cancellation_stuck`) time passes, the
chronograph visits, the reviewers decide on what was paid, and the owner answers
for the satisfied complaints it may touch (its legal duty, and the assumption
that makes the run a fault of the code and not of the owner). The visits are
assumed at any time; `DecisionsAreScheduled` shows that `next_check` asks for
those that matter. The other procedures state no fairness: instead of liveness,
`NothingIsForgotten` says that whenever a visit would change the tender, or will
once the running periods are over, a visit is asked for.

## 4. Proofs

All by TLAPS, for every value of the constants under the named assumptions of
the modules. The assumptions only say what the constants stand for: numbers are
numbers (`BiddersAssumption`, `MinBidsAssumption`, `FeedAssumption`, `ClockAssumption`,
`FaultsAssumption`, `EditsAssumption`, `BoundsAssumption`, `ExtraAssumption`,
`AheadAssumption`, and of framework agreements `BidsAssumption`, `PricesAssumption`,
`AmountsAssumption`, `DatesAssumption`: an instant is a number, an offset an integer), names of different things
differ (`NamesAssumption`, `LotsAssumption`, `LotsAreNotWhole`, `LimitedAssumption`,
`TargetsAssumption`, `NobodyAssumption`: the mark for "nobody" is no status, and no bid,
and `DatesAssumption` of contracts: no date is the mark of a missing one),
what is one of finitely many is finite (`WorkersAssumption`, `BidsAssumption` of awarding, the lots in
`TargetsAssumption`), and terms that the code fixes are in the order the code has
them (`DayAssumption`: an hour is something and no longer than a day;
`PeriodsAssumption`, `OfferAssumption`, and `EnquiryAssumption`: three days to
clarify fit into the ten that enquiries end ahead of the tendering, and those into
what an edit near the end adds). Bounds on counters appear as constants too, so
what is proved holds for any bound, hence without one.

* **DocumentStoreProof.** `Spec => AtomicSpec` (the refinement), `RevisionChain`,
  `NoLostUpdate`, `ConflictHasWinner`, `DateModifiedMonotone`, `TypeOK`. None is
  inductive, because whether a store does harm depends on the copy being
  stored. The strengthening `IInv` adds `CopiesFit` (a copy whose `_rev` is
  still current is the stored document, with at most the request's own
  revision added; the `_rev` of any copy is at most the current one),
  `TracesFit` (which requests are in the chain, by their progress; one that was
  refused was overtaken, and is in the chain only if its reply was lost), and `TimesFit` (the time in a copy lies between that of
  the document it replaces and now). A store advances `doc.rev` past every
  copy's base, so no other copy can be stored until it is loaded again. In the
  refinement, `Store` maps to `Apply`, `Respond` to `Answer`, everything else to a
  stutter.
  In the same module, of `Historical`, `HistoryIsDocument`: dropping the bodies,
  `HSpec => Spec`, so that everything above holds of it. `HistoryIsSound`: `HSpec => []HistorySound`.
  A patch is made from the copy and undone from what was stored, so the
  invariant says that a copy that can still be stored holds the very body the
  database holds (`DraftStays`, `ComputedFits`): with the current `_rev` nothing was
  stored in between. Each store then appends a body and the patch that undoes it
  (`UndoUndoes`, `LogStep`). For times, the dates of the revisions that count do
  not go back, by `TimesFit`; a time that is not refused has a last revision that
  counts and is not later (`HasGreatest`, by well-founded induction on numbers,
  cited for one set and not for an operator), which is the one the
  loop stops at (`FindsLast`).
* **NumberingProof.** The ids: `IdsUnique` needs `DrawnBelowNext` (numbers given out lie
  below the next free one) and `CopiesAreOld` (a copy of the current revision
  is the current counter). `GapsAreFaults` is proved on top of that invariant
  with the cardinality of the calls that returned.
  In the same module, of the feeds, `NoVersionIsSkipped`. A reader that has passed a
  row without its newest version would have passed it for good, so the invariant says
  where new keys go: `KeysFit` (a time is given to one save, and is later than the
  document's own last one), from which a store that is not overtaken gets the greatest
  key there is (`StoredIsLast`); `LaggingIsAhead` (a document the view lacks lies behind
  all rows of the view); and `PageIsNext`, of pages of any size: a row that is ahead of
  the reader and not on the page lies behind the page.
  In the same module, of relocations, `TransfersAreUsedOnce` (no Transfer relocates two
  objects; implied by what the run checks), `TransfersTellTheTruth`
  (`TransferSound`), `ConsentIsCurrent` (`ConsentAtTheStore`). `OwnershipIInv` adds
  `TransferChecked` and `ObjectChecked`: what a request checked on its copies
  still holds of the stored documents as long as their revisions are current.
  From these follow the two lemmas the rest is read off from, `TransferMoves`
  (a Transfer once bound stays bound to the same object) and `ObjectMoves` (a
  holder changes only by a bound request that holds the present token).
* **PublicationProof.** Five stories of one composition, each with an invariant of its
  own. `PlansAreSound` and `PlansAreDecidedOnce`: `PlanIInv` is to the two stores of
  `PlanTender` what `OwnershipIInv` is to those of `Ownership`: `PlanChecked` (what a request saw
  of the plan holds while the plan's revision is current), `TendersFit` and
  `ListedByRequest` (which tenders list a plan, by the progress of the requests) and
  `PublishedIsSettled` (a published tender has no request left that may still write
  to it); approvals join it in `PlansIInv`. `FoldersAreSound` needs that versions are
  numbered and that questions are put by the parties (`PapersNumbered`,
  `QuestionsForParties`); the 24 kinds of folder meet in one lemma, `RulesAgree`.
  `BidPapersAreSound` and `OpenedBidsAlwaysFit` rest on `BidsIInv`: the reviews a bid may
  have at each status (`ReviewsFit`), what counts was confirmed (`CountedFits`), what a
  cancellation hides is hidden for good and drafts are gone once bids are opened
  (`HiddenFits`). `BiddersAreInformed` joins to it what is proved of
  questions in `TenderCancellationProof`, of which the story of the questions is an
  instance with other variables (`Offer == INSTANCE ...`; `OfferAssumed` shows that the
  assumptions hold of it).
* **BelowThresholdProof.** `AlwaysSafe`, `AwardsAlwaysSound`, `SettlingAlwaysSound`,
  `SignedAndEndedStay`: every safety property of the two runs, for any lots, bids, awards
  and claims. Between two functions of one request the document is not what is
  ever stored, so what holds is stated of a *document*: `Steady` (what no function
  disturbs), `Unsettled` (a unit was just signed and not yet completed) and `Sound` (what
  is stored); `IInv` says that the stored tender is `Sound`. `Steady` adds to the checked
  properties what makes them inductive. `InOrder`: stand-stills run out in turn, so that
  a signed award, which has its own behind it, has none running before it; this is
  why `check_tender_status` completes the lot in the very request that signs, and why
  `CompleteIffSigned` can be an equivalence. `BestFirst`: any award, not only a live one, is
  for a bid that counts, for `add_next_award` picks among the bids again after a
  cancellation. `BidsCount`: once opened the bids do not change and no open lot is
  without one, so `add_next_award` never fails a lot. `Tidy`: only an answered claim
  keeps more than its status, which is what makes ignoring a claim undoable in
  `NothingIsForgotten`. One lemma per function of `utils.py`
  (`AddNextAwardSound`, `CheckTenderStatusSound`, `CheckBidsSound`, `CheckStatusSound`,
  `IgnoringSound`, `CancelLotSound`) says from which of the three it makes a sound
  document; the lemma of a request chains them. `NothingForgotten` shows that without a
  due `next_check` `SettleLots` and `SettleWhole` return the document they were given.
* **TenderCancellationProof.** `CancellationsAreFinal`, `NothingBuried`,
  `DecisionsScheduled`, `TimeGivenBack` from one invariant `Sound(tender)`, again of a
  document, since one visit may let several cancellations come into force one after
  another: an induction over the cancellations already passed, in the order of the
  list (`VisitComputed`). `WhatIsDue` is the heart of `DecisionsScheduled`: whatever
  a visit would decide comes from a pending cancellation whose term is over or from
  the end of the tendering, and either is in `next_check`. `QuestionsAreAnswered` adds
  the questions (`EnquiriesInv`): the time left to answer and that a cancellation took
  make up `Clarification` (`Promise`, `Kept`), counted from the moment the cancellation
  that withholds them was submitted, which `TimeGivenBack` then adds to the end, but for
  less than an hour (`AlmostAll`): each cancellation that is made good adds that much to
  `Short` (`ShortGrows`).
* **AboveThresholdProof.** Every property of the run, each part with an invariant of a
  document. After the auction, `WinnersAreSound`: `Sound` is `Steady` (as in
  `BelowThresholdProof`: stand-stills run out in turn, `InTurn`; the live award is for the
  best bid left, `BestLeft`; contracts and outcomes agree, `ClosedFits`), `Filled` (an open
  part has a live award while a bid is left, which `add_next_award` sees to) and
  `OpenUnsigned`, `LotIsOpen` (which `check_tender_status` sees to). Before it,
  `QualificationsAreSound` and `CompetitionsAreSound` from `ReviewIInv`: besides the shape
  of the documents (`Form`) it says that nothing is decided of a bid while bids may come
  (`TenderingFits`); that a bid says of an open part what its qualification says, and is
  not gone if it was decided about (`QualFits`, without which a cancelled lot or the
  status computed at each save could take an admitted bid out of the review);
  that nothing open is left of a closed part (`ClosedQual`); and that all is reviewed, by
  enough admitted bids and undisputed, once the review is over (`ReviewOver`, `Enough`).
  `Enough` holds after the stand-still because bids are counted again; it survives what
  comes later because the document only gets *narrower* (`Narrower`,
  `NarrowerIsGood`): lots close and bids of closed lots go, but what stays open stays as it was.
  Saving recomputes the statuses of bids (`StoredIsGood`). `StageFits` follows the short
  list: it was made of admitted bids, and nothing takes an admission back.
  `AllAreRemembered`: a sound tender whose periods have run out is sound again
  (`RunOutSound`), so a visit changes it only if it has a draft to drop (`NothingDropped`)
  or a part that has lost its last bid (`NothingClosed`), and for both `next_check` asks.
* **LimitedContractsProof.** `AwardsAreSound`, `StandStillIsKept`, `NothingForgotten`,
  `ClosedStays` from `LimitedIInv` (one live award a part, a contract for each award that
  was signed, cancellations that fit what they cancel, and `StandStill`: a signed award
  whose stand-still runs was resumed by a resolved objection); an award keeps its part
  while it is live (`Follows`), or is placed in one that has no other (`AwardPlaced`); `ContractsAreSound`
  from `ContractIInv`, and `AllIInv` for the hand-over by the bridge. What a visit leaves
  of a list of ripe cancellations is an induction over a finite set (`SetInduction`).
* **FrameworksProof.** `FrameworksAreSound`, `NothingIsForgottenEver`, `ChangesAreSound`,
  `PricesFollow`, `SelectionsAreSound`: every property of the run, from one invariant
  `IInv` with a part for each document.
  `TenderInv`, of the tender. In a framework a decision about one award reaches the
  others, and several awards are live at once, so what each decision has to restore is
  said of all of them: `BidsFit`, the bids with a live award are exactly the best
  `MaxAwardsCount` of those none of whose rejections stands, and each has one. After a
  rejection the bids left are fewer, and whoever was among the best still is
  (`BestOfFewer`), so only missing awards are made (`NextAwardsSound`); a cancelled award is
  made again for its own bid, which is still one of the best (`ReconsiderSound`); a new
  start cancels them all. That no more are live than `MaxAwardsCount` follows by counting,
  as bids do (`BestBounds`, `LiveAreFew`). `StandStillFits` says that the stand-still of the tender is
  that of each active award, hence that all have run out when the agreement is made;
  `AgreementFits` keeps what was true then, that all who won are in it, at prices
  they bid. For `NothingIsForgotten` (`NextCheckIsDated`) a visit after the periods ended
  changes something only in the stand-still, for a draft or for a cancellation, and each of these has a date.
  `ChangesInv`, of the agreement: its contracts are what the active changes, in order and
  each once, make of the registered ones. Only the last change may be pending
  (`OnlyLastPending`), so activating one appends to those in force. `MadeIs` and
  `MadeSame` show that the recursive function in this property is defined, and that the
  first changes alone decide what they make. That changes come into force in the order of
  their signatures is proved for any offsets by local time, which is what the comparison
  of texts keeps (`LastSignedIsLast`): the last change in force is at or after all others,
  and a text that is not before it has no earlier local time. By instants it is false
  (section 5).
  `SelectionInv`, of the selection: the copy of the agreement was fit when it was taken and
  no bid exceeds it (`WithinCopy`), and only the last award may be live, for a best bid
  that is open (`AwardsFit`), from which counting gives "one winner". What the proofs know of
  sorted lists is `AscendingSorts`, that a finite set of numbers has an enumeration in order.

What is proved by induction over data is proved for one set of numbers, the
counterexamples below some number, of which there is a least one (`Least`,
`SetInduction`): the library's induction theorems take an operator, which the
installed provers cannot instantiate, but the well-foundedness of `<` they can. What
cannot be proved here is liveness (fairness and `ENABLED`).

Every invariant, action property and refinement that a passing run checks is stated by a
theorem. Only model-checked are the liveness properties (`EveryCallReturns`,
`EventuallySynchronized`, `BiddingEnds`, `RejectionSettles`).

## 5. What the models say about the code

The one disagreement with a run of its own: a complaint about a lot, drafted
before and paid after the cancellation of this lot was submitted, and then
satisfied, locks the tender. `CancelTenderLot` raises in every visit
(`tender/core/utils.py:423`), the owner may neither resolve the complaint while
the cancellation is pending (`tender/core/validation.py:1257`) nor withdraw the
cancellation, about which nobody complained, and `block_tender` stops the other
lots too. A cancellation of the whole tender does not do this: there the owner
may resolve.

Where a property has an exception, the exception is written in it. Those, and
what else was seen while modelling:

*Storage, plans, feeds*

* `planning/api/views/plan.py:440` creates the tender before the plan is saved,
  on a check of a copy. Two concurrent requests leave two tenders that list the
  plan; the loser's stays behind in draft. Two-phase commit hides it from the
  public, as `LinksAgree` shows.
* `save_tender` stamps `dateModified` before it stores. A reader of the
  `dateModified` feed can miss a version for good when saves overtake each
  other, contrary to `docs/source/tendering/basic-actions/tenders.rst:55`; the
  changes feed cannot.
* By number, the historical API gives a version the `dateModified` of the store
  that follows it when that one counts: both loops pass `revisions[:version + 1]`
  to `find_dateModified` (`historical/core/utils.py:48`, `:112`) although the patch of
  `revisions[version]` was undone by then.
* By time, the newest version is never answered, not even for the present
  `dateModified`: the loop undoes a patch before it looks
  (`historical/core/utils.py:44`). Changes that do not count (bids, the chronograph)
  belong to the version of the last change that does, however much later they
  were made. A document with one revision raises an `IndexError`.
* `relocation/api/views/tender.py:51` (and the three other views) saves the
  Transfer before the object. `docs/source/relocation/tenders.rst:209` says
  `usedFor` is stored "after `Transfer` is applied". The order is what makes a
  Transfer single-use, and a failed request can be repeated, so the harm is a
  Transfer that names an object it does not own.

* Making a tender from a plan does not look at the plan's milestones: an approval
  asked for, or refused, holds nothing up.

*Questions*

* A cancellation of a lot withholds answers to questions about the lot, but not
  about its items (`tender/core/validation.py:1234` compares `relatedItem` with the
  lots). Asking looks at no status, so questions reach cancelled tenders too.
* An owner who brings the end of the tendering to the nearest day allowed closes
  the term for answers with it; an open question then holds the tendering up until
  he extends the period (the exception `hurried` in `SilenceIsTheOwners`).

*Cancellations and complaints*

* A cancellation that is withdrawn costs the bidders up to 3599 seconds: what is over
  the whole days and shorter than an hour is not given back
  (`tender/core/views/cancellation_complaint.py:219`). `TimeIsGivenBack` says less than
  an hour, and `SilenceIsTheOwners` as much less for the owner's answers.
* When the cancellations of the tender and of its last active lot ripen in one
  visit, and another lot had failed, the tender ends `unsuccessful`
  (`tender/core/utils.py:456`).
* A withdrawn cancellation drops out of `next_check` with its drafts
  (`tender/core/utils.py:514`), against the comment below that line.
* The owner can resolve a complaint about a withdrawn cancellation that nobody
  reviewed (`tender/core/views/cancellation_complaint.py:106`), and each
  resolved complaint of one cancellation adds all its days to the tender
  period again (line 100).
* `CancelTenderLot.add_next_award_method` in `tender/belowthreshold/utils.py`
  takes no `self`; it would raise if a lot were cancelled in `active.auction`,
  which a validator forbids.
* `cleanup_bids_for_cancelled_lots` (`tender/core/utils.py`) returns exactly when
  there are cancelled lots, so it never cleans; `BestBidFirst` holds regardless.
* `cancel_lot` does not call `check_ignored_claim`: claims about a cancelled lot
  stay `claim` until something else visits the tender.

*Bids and documents*

* The owner may extend a tender period that has already ended, until the
  chronograph comes.
* openUA shows the documents of invalid and deleted bids after the auction,
  although the view of the bid hides them.
* Versions of documents of qualifications and awards keep the author of the
  first version, and nobody else may update a bot's award document; documents
  of a complaint about a cancellation never close with it.
* With several lots, a running 24-hour milestone of one lot lets the shared
  documents of the bid change after another lot was decided; posting the
  milestone, and documents while it runs, look at no status of the tender.

*Pre-qualification and dialogues*

* PATCH of a bid in stage 2 does not look at the short list, although
  `docs/source/tendering/competitivedialogue/multiple_lots_tutorial.rst:116`
  restricts bidding to it.
* The `check_status` of dialogues counts complaints about the qualifications of
  cancelled lots; without lots, drafts and deleted bids count towards the three
  different firms; with lots, drafts are qualified.
* A stage 1 that is cancelled while the bridge works leaves a stage 2 behind.

*Awarding*

* Cancelling a disputed award assigns to the `endDate` of the `complaintPeriod`
  of every award of the lot, and raises where one has none
  (`tender/openuadefense/views/award.py:159`, and the same in `openua` and
  belowThreshold), so the appeal is served only after that award is decided.
* A contract is signed although a cancellation is pending. If the tender then
  is complete, the cancellation stays pending for ever.
* A complaint drafted in time and paid late holds up the settlement; a satisfied
  complaint that the owner resolves first can no longer start the lot anew.
* Without lots the tender completes on the last contract signed, whatever
  complaints there are about other awards.

*Framework agreements*

* The dates of changes are compared as texts (`agreement/cfaua/views/change.py:144`),
  which keep the offset they were written with, summer time and winter time for one.
  The code means to refuse a `dateSigned` earlier than the last one (`:148`), and does
  when the change is posted; when it is patched, one dated 1 at +1 passes after one dated
  2 at +0, and comes into force. What does hold, whatever the offsets, is the order by
  local time (`SigningInOrder`): by instants a change is at most as much earlier as the
  offsets differ.
* A complaint about an award that was rejected and then cancelled is taken in any later
  stand-still (`cfaua/validation.py:235`); a draft of one is never dropped, for its
  period has no end.
* `next_check` in the stand-still of awards looks at complaints about
  qualifications; changes of prices reach suppliers who have withdrawn;
  `MIN_BIDS` only warns.

*Limited procedures and contracts*

* Resolving an objection prolongs the stand-stills of awards of other lots,
  signed ones too (the exception in `StandStillKept`).
* A lot under a pending cancellation is closed to its own awards, not to those of
  other lots: `validate_operation_with_lot_cancellation_in_pending` reads the lot before
  the patch is applied. An award may be rejected, or cancelled, and moved into the lot
  in one request; one with a satisfied complaint then cancels every award of the
  lot, a winner with a signed contract too, and leaves those of the lot it came
  from. After that the lot has no live award, and a pending one may be moved in and
  made the winner. These are the exceptions written in
  `PendingCancellationFreezes`: without `TakenAlong` the run finds a winner cancelled
  under the cancellation. The last one takes three awards, one more than the run
  has; the theorem has any number.
* A pending award of any open lot makes `check_tender_negotiation_status` raise,
  so that no contract of another lot can be signed meanwhile.
* A contract may be terminated while a change is pending, a change activated
  after the end, and a value of 0 bounds no payment (agreements refuse the
  first).

## 6. Not modelled, and why

* Headers, hashes and routing of `historical/core`.
* Planning of auctions (`shouldStartAfter`, the calendar of slots): instants of
  an external service.
* NPV of ESCO: real arithmetic, which only orders the bids; the models take any
  order.
* Questions of the other procedures (openEU and defense repeat openUA with their
  own periods; in belowThreshold they are asked and answered in enquiries only);
  features and parameters of bids; items, VAT and addresses.
* Accreditation, authentication, static ACLs, migrations, and the external
  services for documents, rates and medicines.

## 7. Plan

Done: document storage with its abstraction and refinement, id counters,
relocation, plans and their approval, questions, bids, documents, feeds, belowThreshold, cancellations, openUA,
openEU, dialogues, defense, framework agreements, limited procedures and
contracts; historical versions. Proofs of every safety property of the runs: storage, history, counters,
relocation, feeds, the five stories of `Publication`, belowThreshold, cancellations with
complaints, above-threshold tenders before and after the auction, limited procedures and
contracts, framework agreements.

Next, if the models grow: the tendering of framework agreements, questions of the other
procedures, and more of the documents' fields where a validator reads them.
