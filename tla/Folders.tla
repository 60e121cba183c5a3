------------------------------- MODULE Folders -------------------------------
(***************************************************************************)
(* Documents.  Tenders, awards, contracts, complaints and the rest each    *)
(* have a folder of documents: POST adds one, PUT appends a version with   *)
(* the same id, PATCH describes the last version anew.  The three          *)
(* operations are the same everywhere; who may use them and when is        *)
(* decided by rules of the folder's kind.  One folder is followed, and     *)
(* what goes on around it is any choice of the statuses and facts the      *)
(* rules look at.                                                          *)
(*                                                                         *)
(* A complaint also has posts: the reviewers ask, the parties answer.      *)
(***************************************************************************)
EXTENDS CancellationRules, FiniteSets, TLC

CONSTANTS MaxPapers, MaxPosts  \* bounds on the versions and on the posts

\* kind of the folder, statuses of the tender (or what it belongs to) and of
\* its object, facts the rules ask for, versions of documents, posts; late:
\* something was changed after the complaint was decided.
VARIABLE desk

Owner == "tender_owner"
Complainant == "complaint_owner"
Reviewers == "reviewers"  \* those of the old or of the new complaints
Roles == {Owner, Complainant, Reviewers, "bots", "auction", "contract_supplier", "milestone_owner"}
Uploaders == {Owner, "bots", "auction"}  \* upload_tender_documents
Nothing == [id |-> 0, author |-> "nobody", hands |-> {}]

\* Faulty: who complained may add to a complaint that was dismissed.
AboveStatusesLater(who) ==
  CASE who = Complainant -> {"draft", "answered", "claim", "pending", "accepted", "satisfied", "declined"}
    [] who = Reviewers -> {"pending", "accepted", "stopping"}
    [] who = Owner -> {"claim", "pending", "accepted", "satisfied"}
    [] OTHER -> {}

\* STATUS4ROLE of openUA and of those built on it
AboveStatuses(who) ==
  CASE who = Complainant -> {"draft", "answered", "claim", "pending", "accepted", "satisfied"}
    [] who = Reviewers -> {"pending", "accepted", "stopping"}
    [] who = Owner -> {"claim", "pending", "accepted", "satisfied"}
    [] OTHER -> {}

\* STATUS4ROLE of belowThreshold
BelowStatuses(who) ==
  CASE who = Complainant -> {"draft", "answered"}
    [] who = Reviewers -> {"pending"}
    [] who = Owner -> {"claim"}
    [] OTHER -> {}

In(statuses) == desk.tender \in statuses
Fact(f) == f \in desk.facts
LotOpen == ~ Fact("lot closed")
Awarding == In({"active.qualification", "active.awarded"})

\* edit_tender is taken from an owner with a cancellation under way.
MayEdit(who) == who = Owner => ~ Fact("held")

\* doc is the last version of what is replaced, or Nothing: then it is added.
ByItsAuthor(who, doc) == doc = Nothing \/ doc.author = who

-----------------------------------------------------------------------------
(* The rules.                                                              *)
TenderPaper(who, doc) ==
  /\ who \in Uploaders /\ MayEdit(who) /\ ByItsAuthor(who, doc)
  /\ IF who = "auction" THEN In({"active.auction", "active.qualification"})
     ELSE In({"active.enquiries"})

SelectionTenderPaper(who, doc) ==
  /\ who \in Uploaders /\ MayEdit(who) /\ ByItsAuthor(who, doc)
  /\ IF who = "auction" THEN In({"active.auction", "active.qualification"})
     ELSE In({"draft.pending", "active.enquiries"})

LimitedTenderPaper(who, doc) == who \in Uploaders /\ MayEdit(who) /\ In({"active"})

\* To replace takes edit_tender, which the machines do not have.
AwardPaper(who, doc) ==
  /\ who = Owner \/ (who \in Uploaders /\ doc = Nothing)
  /\ MayEdit(who) /\ ByItsAuthor(who, doc) /\ LotOpen
  /\ In({"active.qualification"}) \/ (who = "bots" /\ In({"active.awarded"}))

AboveAwardPaper(who, doc) == AwardPaper(who, doc) /\ ~ Fact("accepted complaint")

LimitedAwardPaper(who, doc) ==
  /\ MayEdit(who) /\ In({"active"})
  /\ IF doc = Nothing THEN who \in Uploaders /\ desk.state = "pending" ELSE who = Owner

\* Only the owner minds a pending cancellation of the lot.
QualificationPaper(who, doc) ==
  /\ who \in {Owner, "bots"} /\ In({"active.pre-qualification"})
  /\ desk.state = "pending" /\ MayEdit(who)

\* The buyer's, except while the supplier is to sign.
ContractPaper(who, doc) ==
  /\ Awarding /\ LotOpen
  /\ \/ who = Owner /\ desk.state \in {"pending", "active"}
     \/ who = "contract_supplier" /\ desk.state = "pending.winner-signing"

SelectionContractPaper(who, doc) == ContractPaper(who, doc)

AboveContractPaper(who, doc) == ContractPaper(who, doc) /\ ~ Fact("accepted complaint")

LimitedContractPaper(who, doc) ==
  who = Owner /\ MayEdit(who) /\ In({"active"}) /\ desk.state \in {"pending", "active"}

FrameworkPaper(who, doc) ==
  /\ who = Owner /\ MayEdit(who) /\ Awarding /\ LotOpen
  /\ ~ Fact("accepted complaint") /\ desk.state \in {"pending", "active"}

\* Contracts and agreements registered apart, and plans.
RegisteredContractPaper(who, doc) == who = Owner /\ In({"active"})
RegisteredAgreementPaper(who, doc) == who = Owner /\ In({"active"})
PlanPaper(who, doc) == who = Owner /\ In({"scheduled"})
PlanMilestonePaper(who, doc) == who = "milestone_owner" /\ In({"scheduled"})

CancellationPaper(who, doc) ==
  /\ who = Owner /\ ~ In({"over"})
  /\ \/ desk.state = "draft" /\ ~ Fact("another pending")
     \/ desk.state = "pending" /\ Fact("satisfied complaint")

ComplaintPaper(who, doc) ==
  /\ In({"active.enquiries", "active.tendering", "active.auction", "active.qualification", "active.awarded"})
  /\ desk.state \in BelowStatuses(who) /\ ByItsAuthor(who, doc)

AboveComplaintPaper(who, doc) ==
  In({"active.tendering"}) /\ desk.state \in AboveStatuses(who) /\ ByItsAuthor(who, doc)

AwardComplaintPaper(who, doc) ==
  Awarding /\ LotOpen /\ desk.state \in BelowStatuses(who) /\ ByItsAuthor(who, doc)

AboveAwardComplaintPaper(who, doc) ==
  Awarding /\ LotOpen /\ desk.state \in AboveStatuses(who) /\ ByItsAuthor(who, doc)

LimitedAwardComplaintPaper(who, doc) ==
  In({"active"}) /\ desk.state \in AboveStatuses(who) /\ ByItsAuthor(who, doc)

QualificationComplaintPaper(who, doc) ==
  /\ In({"active.pre-qualification", "active.pre-qualification.stand-still"}) /\ LotOpen
  /\ desk.state \in AboveStatuses(who) /\ ByItsAuthor(who, doc)

\* Whatever the status of the complaint, and of the tender.
CancellationComplaintPaper(who, doc) ==
  who \in {Owner, Complainant, Reviewers, "bots"} /\ ByItsAuthor(who, doc)

\* The complaint is under review and, once it is accepted, the day of the
\* review is not near.
MayPost == /\ desk.kind = "posts" /\ desk.state \in {"pending", "accepted"}
           /\ desk.state = "accepted" => ~ Fact("review is near")

\* Documents of the first post: added by its author.
PostPaper(who, doc) ==
  /\ MayPost /\ desk.posts # <<>>
  /\ IF doc = Nothing THEN who = desk.posts[1].author ELSE ByItsAuthor(who, doc)

Allowed(who, doc) ==
  \/ desk.kind = "tender" /\ TenderPaper(who, doc)
  \/ desk.kind = "selection tender" /\ SelectionTenderPaper(who, doc)
  \/ desk.kind = "limited tender" /\ LimitedTenderPaper(who, doc)
  \/ desk.kind = "award" /\ AwardPaper(who, doc)
  \/ desk.kind = "above award" /\ AboveAwardPaper(who, doc)
  \/ desk.kind = "limited award" /\ LimitedAwardPaper(who, doc)
  \/ desk.kind = "qualification" /\ QualificationPaper(who, doc)
  \/ desk.kind = "contract" /\ ContractPaper(who, doc)
  \/ desk.kind = "selection contract" /\ SelectionContractPaper(who, doc)
  \/ desk.kind = "above contract" /\ AboveContractPaper(who, doc)
  \/ desk.kind = "limited contract" /\ LimitedContractPaper(who, doc)
  \/ desk.kind = "framework" /\ FrameworkPaper(who, doc)
  \/ desk.kind = "registered contract" /\ RegisteredContractPaper(who, doc)
  \/ desk.kind = "registered agreement" /\ RegisteredAgreementPaper(who, doc)
  \/ desk.kind = "plan" /\ PlanPaper(who, doc)
  \/ desk.kind = "plan milestone" /\ PlanMilestonePaper(who, doc)
  \/ desk.kind = "cancellation" /\ CancellationPaper(who, doc)
  \/ desk.kind = "complaint" /\ ComplaintPaper(who, doc)
  \/ desk.kind = "above complaint" /\ AboveComplaintPaper(who, doc)
  \/ desk.kind = "award complaint" /\ AwardComplaintPaper(who, doc)
  \/ desk.kind = "above award complaint" /\ AboveAwardComplaintPaper(who, doc)
  \/ desk.kind = "limited award complaint" /\ LimitedAwardComplaintPaper(who, doc)
  \/ desk.kind = "qualification complaint" /\ QualificationComplaintPaper(who, doc)
  \/ desk.kind = "cancellation complaint" /\ CancellationComplaintPaper(who, doc)
  \/ desk.kind = "posts" /\ PostPaper(who, doc)

-----------------------------------------------------------------------------
(* The folders, and what goes on around them.                              *)
BelowComplaints == {"complaint", "award complaint"}
AboveComplaints == {"above complaint", "above award complaint",
  "limited award complaint", "qualification complaint", "cancellation complaint", "posts"}
ComplaintFolders == BelowComplaints \cup AboveComplaints
AuthorRuled == ComplaintFolders \cup {"tender", "selection tender", "award", "above award"}
Signed == {"contract", "selection contract", "above contract", "limited contract", "framework"}

\* The status something of the kind begins in, and that of its tender then;
\* "-" if no rule looks at it.
Beginning ==
  [k \in {"plan", "plan milestone"} |-> <<"scheduled", "-">>] @@
  [k \in {"registered contract", "registered agreement", "limited tender"} |-> <<"active", "-">>] @@
  [k \in {"limited award", "limited contract"} |-> <<"active", "pending">>] @@
  [k \in {"limited award complaint"} |-> <<"active", "draft">>] @@
  [k \in {"tender"} |-> <<"active.enquiries", "-">>] @@
  [k \in {"selection tender"} |-> <<"draft.pending", "-">>] @@
  [k \in {"award", "above award"} |-> <<"active.qualification", "-">>] @@
  [k \in {"contract", "selection contract", "above contract", "framework"} |->
     <<"active.qualification", "pending">>] @@
  [k \in {"qualification"} |-> <<"active.pre-qualification", "pending">>] @@
  [k \in {"qualification complaint"} |-> <<"active.pre-qualification", "draft">>] @@
  [k \in {"award complaint", "above award complaint"} |-> <<"active.qualification", "draft">>] @@
  [k \in {"complaint"} |-> <<"active.enquiries", "draft">>] @@
  [k \in {"above complaint", "cancellation"} |-> <<"active.tendering", "draft">>] @@
  [k \in {"cancellation complaint", "posts"} |-> <<"-", "draft">>]

Opened(kind) == [kind |-> kind, tender |-> Beginning[kind][1], state |-> Beginning[kind][2],
                 facts |-> {}, papers |-> <<>>, posts |-> <<>>, late |-> FALSE]

NoDeskYet == [kind |-> "none", tender |-> "-", state |-> "-",
              facts |-> {}, papers |-> <<>>, posts |-> <<>>, late |-> FALSE]

Open == \E kind \in DOMAIN Beginning : desk' = Opened(kind)

Onward ==
  {<<"draft.pending", "active.enquiries">>, <<"active.enquiries", "active.tendering">>,
   <<"active.tendering", "active.pre-qualification">>, <<"active.tendering", "active.auction">>,
   <<"active.pre-qualification", "active.pre-qualification.stand-still">>,
   <<"active.pre-qualification.stand-still", "active.pre-qualification">>,
   <<"active.pre-qualification.stand-still", "active.auction">>,
   <<"active.auction", "active.qualification">>, <<"active.qualification", "active.awarded">>,
   <<"active.awarded", "active.qualification">>, <<"active.awarded", "over">>,
   <<"active.tendering", "over">>, <<"active", "over">>, <<"scheduled", "over">>}

TenderMovesOn == \E step \in Onward : desk.tender = step[1] /\ desk' = [desk EXCEPT !.tender = step[2]]

\* Of an award or a qualification, and of a cancellation.
Judgement == {<<"pending", "active">>, <<"pending", "unsuccessful">>, <<"active", "cancelled">>}
Signing == {<<"pending", "active">>, <<"pending", "cancelled">>, <<"pending", "pending.winner-signing">>,
            <<"pending.winner-signing", "pending">>, <<"pending.winner-signing", "active">>}
Claiming == {<<"draft", "claim">>, <<"claim", "answered">>, <<"answered", "resolved">>,
             <<"answered", "declined">>, <<"answered", "invalid">>}

ObjectMovesOn ==
  \E to \in ComplaintStatus \cup {step[2] : step \in Judgement \cup Signing \cup Claiming} :
    /\ \/ desk.kind \in {"limited award", "qualification"} /\ <<desk.state, to>> \in Judgement
       \/ desk.kind \in Signed /\ <<desk.state, to>> \in Signing
       \/ desk.kind = "cancellation" /\ <<desk.state, to>> \in Judgement \cup {<<"draft", "pending">>}
       \/ desk.kind \in BelowComplaints /\ <<desk.state, to>> \in Claiming
       \/ desk.kind \in AboveComplaints
          /\ (Settled(desk.state, to) \/ Reviewed(desk.state, to)
              \/ <<desk.state, to>> = <<"satisfied", "resolved">>)
    /\ desk' = [desk EXCEPT !.state = to]

\* Which facts the rules of a kind ask for.
Asked(kind) ==
  (IF kind \in {"tender", "selection tender", "limited tender", "award", "above award",
      "limited award", "limited contract", "qualification", "framework"} THEN {"held"} ELSE {})
  \cup (IF kind \in {"award", "above award", "contract", "selection contract", "above contract",
      "framework", "award complaint", "above award complaint", "qualification complaint"}
        THEN {"lot closed"} ELSE {})
  \cup (IF kind \in {"above award", "above contract", "framework"} THEN {"accepted complaint"} ELSE {})
  \cup (IF kind = "cancellation" THEN {"another pending", "satisfied complaint"} ELSE {})
  \cup (IF kind = "posts" THEN {"review is near"} ELSE {})

FactChanges ==
  \E f \in Asked(desk.kind) :
    desk' = [desk EXCEPT !.facts = IF f \in @ THEN @ \ {f} ELSE @ \cup {f}]

-----------------------------------------------------------------------------
(* The three operations.                                                   *)
Judged == Rejected \cup {"resolved"}

\* A document of a complaint that was decided already has just been changed.
File(papers) == [desk EXCEPT
  !.papers = papers, !.late = @ \/ (desk.kind \in ComplaintFolders /\ desk.state \in Judged)]

\* The role of who adds a document is kept in it, where a rule may need it.
AuthorOf(who) == IF desk.kind \in AuthorRuled \cup {"qualification"} THEN who ELSE "nobody"

\* POST
AddPaper(who) ==
  /\ Len(desk.papers) < MaxPapers /\ Allowed(who, Nothing)
  /\ desk' = File(Append(desk.papers,
       [id |-> Len(desk.papers) + 1, author |-> AuthorOf(who), hands |-> {who}]))

LastVersion(i) == \A j \in Nth(desk.papers) : j > i => desk.papers[j].id # desk.papers[i].id

\* PUT: in complaints the author is set again, elsewhere it is copied from
\* the version before (upload_file).
ReplacePaper(who, i) ==
  LET last == desk.papers[i] IN
  /\ Len(desk.papers) < MaxPapers /\ LastVersion(i) /\ Allowed(who, last)
  /\ desk' = File(Append(desk.papers,
       [id |-> last.id, hands |-> {who},
        author |-> IF desk.kind \in ComplaintFolders THEN who ELSE last.author]))

\* PATCH
AmendPaper(who, i) ==
  /\ LastVersion(i) /\ Allowed(who, desk.papers[i])
  /\ desk' = File([desk.papers EXCEPT ![i].hands = @ \cup {who}])

-----------------------------------------------------------------------------
(* Posts.                                                                  *)

\* validate_relatedPost
Answers(who, of) ==
  /\ desk.posts[of].author # who /\ desk.posts[of].of = 0 /\ desk.posts[of].to = who
  /\ \A j \in Nth(desk.posts) : desk.posts[j].of # of

\* of: the post it answers, 0 if none.  The parties write to the reviewers, in
\* answer; the reviewers to a party.
AddPost(who, to, of) ==
  /\ MayPost /\ Len(desk.posts) < MaxPosts
  /\ IF who = Reviewers THEN to \in {Owner, Complainant} ELSE to = Reviewers /\ of # 0
  /\ of # 0 => Answers(who, of)
  /\ desk' = [desk EXCEPT !.posts = Append(@, [author |-> who, to |-> to, of |-> of])]

-----------------------------------------------------------------------------
Next ==
  \/ TenderMovesOn \/ ObjectMovesOn \/ FactChanges
  \/ \E who \in Roles :
       \/ AddPaper(who)
       \/ \E i \in Nth(desk.papers) : ReplacePaper(who, i) \/ AmendPaper(who, i)
  \/ \E who, to \in {Owner, Complainant, Reviewers} :
       \E of \in {0} \cup Nth(desk.posts) : AddPost(who, to, of)

-----------------------------------------------------------------------------
\* What is in a folder is what its author put there: where authors are asked
\* for, every version of a document is the work of one of them.
OneHand ==
  desk.kind \in AuthorRuled => \A i, j \in Nth(desk.papers) :
    desk.papers[i].id = desk.papers[j].id =>
      desk.papers[i].hands = {desk.papers[i].author} /\ desk.papers[i].author = desk.papers[j].author

\* The papers of a complaint are closed with it, however it went; except that
\* those of a complaint about a cancellation never are.
ClosedWithTheCase == desk.late => desk.kind = "cancellation complaint"

\* A conversation is a question of the reviewers and one answer to it by
\* whoever was asked; nobody else says anything.
QuestionsAndAnswers ==
  \A i \in Nth(desk.posts) : LET post == desk.posts[i] IN
    IF post.author = Reviewers THEN post.of = 0
    ELSE /\ post.of # 0 /\ desk.posts[post.of].author = Reviewers
         /\ desk.posts[post.of].to = post.author
         /\ \A j \in Nth(desk.posts) : desk.posts[j].of = post.of => j = i

FoldersSound == OneHand /\ ClosedWithTheCase /\ QuestionsAndAnswers
=============================================================================
