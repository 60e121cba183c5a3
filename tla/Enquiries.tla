------------------------------ MODULE Enquiries ------------------------------
(***************************************************************************)
(* Questions about the terms of an openUA tender, while its cancellations, *)
(* or those of its lots, come and go (TenderCancellation).  Anyone may ask *)
(* in the enquiry period; the owner answers until clarificationsUntil; and *)
(* the tendering does not end while a question about what is still for     *)
(* sale has no answer.  Both periods are counted back from the end of the  *)
(* tenderPeriod whenever the tender is stored, so they move with it.       *)
(***************************************************************************)
EXTENDS TenderCancellation

CONSTANTS
  EnquiryLead,    \* ENQUIRY_PERIOD_TIME: enquiries end so long before the tenderPeriod
  Clarification,  \* ENQUIRY_STAND_STILL_TIME: and may be answered so long after that
  MaxQuestions    \* bound on the questions

VARIABLE questions

questionVars == <<vars, questions>>

\* item: it is about an item of the lot; answer: the day of the last answer, if
\* there is one.  History: free, the days it could be answered in, counted up
\* to Clarification; hurried, the owner has since brought the end nearer.
Question == [about : Targets, item : BOOLEAN, answer : SUBSET (0 .. MaxTime),
             free : 0 .. Clarification, hurried : BOOLEAN]

EnquiryInit == Init /\ questions = <<>>

\* Tender.tender_enquiryPeriod
EnquiriesEnd == tender.end - EnquiryLead
ClarificationsUntil == EnquiriesEnd + Clarification

LotIsActive(t, x) == x \in Lots => t.lots[x] = "active"

\* collection_post looks at the period, not at the status of the tender.
Ask(x, item) ==
  /\ Len(questions) < MaxQuestions
  /\ ~ Over(EnquiriesEnd) /\ LotIsActive(tender, x)
  /\ questions' = Append(questions,
       [about |-> x, item |-> item, answer |-> {}, free |-> 0, hurried |-> FALSE])
  /\ UNCHANGED vars

\* A cancellation of the lot holds questions about the lot, not about its items.
Withheld(q) == ~ MayEditTender(tender) \/ (~ q.item /\ Held(tender, q.about))

MayAnswer(q) ==
  /\ InTendering /\ ~ Withheld(q)
  /\ LotIsActive(tender, q.about) /\ ~ Over(ClarificationsUntil)

\* PATCH of the answer, which may also make it empty again.
Answer(k) ==
  /\ MayAnswer(questions[k])
  /\ \E days \in {{now}, {}} : questions' = [questions EXCEPT ![k].answer = days]
  /\ UNCHANGED vars

\* Faulty: questions about a lot that was cancelled count too.
UnansweredOfAnyLot(t) == \E k \in Nth(questions) : questions[k].answer = {}

\* has_unanswered_questions
UnansweredQuestions(t) ==
  \E k \in Nth(questions) : questions[k].answer = {} /\ LotIsActive(t, questions[k].about)

\* check_status: with a question open the rest of the visit is saved all the same.
Visit ==
  /\ tender.status \notin Terminal
  /\ LET v == Checked IN
     /\ v.ok
     /\ IF TenderingOver(v.tender) /\ ~ UnansweredQuestions(v.tender)
        THEN \E enough \in Crowds : Save(StartAuction(v.tender, enough))
        ELSE Save(v.tender)
  /\ UNCHANGED questions

\* next_check has the end of the tenderPeriod only when no question is open.
VisitsDue ==
  {d \in NextChecks(tender) :
     d = tender.end /\ UnansweredQuestions(tender) =>
       \/ \E i \in Nth(tender.cancellations) :
            /\ tender.cancellations[i].status = "pending"
            /\ tender.cancellations[i].since + CancelTerm = d}

AnotherDay ==
  /\ NextMoment
  /\ questions' = [k \in Nth(questions) |->
       IF MayAnswer(questions[k]) /\ questions[k].free < Clarification
       THEN [questions[k] EXCEPT !.free = @ + 1] ELSE questions[k]]

MoveTenderPeriod(e) ==
  /\ ExtendTenderPeriod(e)
  /\ questions' = [k \in Nth(questions) |->
       [questions[k] EXCEPT !.hurried = @ \/ e < tender.end]]

EnquiryNext ==
  \/ AnotherDay \/ Visit
  \/ Requests /\ UNCHANGED questions
  \/ \E e \in TenderPeriod .. MaxEnd : MoveTenderPeriod(e)
  \/ \E x \in Targets, item \in BOOLEAN : Ask(x, item)
  \/ \E k \in Nth(questions) : Answer(k)

EnquirySpec == EnquiryInit /\ [][EnquiryNext]_questionVars

-----------------------------------------------------------------------------
\* Whoever bids has as many days with every answer as lie between
\* clarificationsUntil and the end of the tenderPeriod, although the owner may
\* bring that end nearer at any time, after the answer too.
AnswersInTime ==
  \A k \in Nth(questions) : \A d \in questions[k].answer :
    d + EnquiryLead - Clarification <= tender.end

\* What cancellations the owner has made amends for took from the time to answer:
\* less than an hour each (WholeDays).
Redressed(c) == \E j \in Nth(c.complaints) : c.complaints[j] = "resolved"
Redresses(t) == {i \in Nth(t.cancellations) : Redressed(t.cancellations[i])}
Short(t) == (Hour - 1) * Cardinality(Redresses(t))

\* A question that holds up the tendering and can no longer be answered is the
\* owner's doing: there was the time to answer it that the period promises, net
\* of that in which a cancellation withheld it, or the owner cut it.
SilenceIsTheOwners ==
  \A k \in Nth(questions) : LET q == questions[k] IN
    /\ InTendering /\ q.answer = {} /\ LotIsActive(tender, q.about)
    /\ ~ Withheld(q) /\ Over(ClarificationsUntil)
    => Clarification <= q.free + Short(tender) \/ q.hurried

\* The chronograph comes when nothing that is still for sale waits for an answer
\* any more, also when a cancellation that comes into force takes the last open
\* question with its lot.
EndIsScheduled ==
  LET v == Checked
      Gone == {l \in Lots : v.tender.lots[l] # "active"}
  IN /\ tender.status \notin Terminal /\ v.ok /\ TenderingOver(v.tender)
     /\ \A k \in Nth(questions) : questions[k].answer = {} => questions[k].about \in Gone
     => \E d \in VisitsDue : Over(d)

\* Questions are answered in time for the bidders, and never hold up a tender
\* whose owner could not help it.
EnquiriesSound ==
  questions \in Seq(Question) /\ AnswersInTime /\ SilenceIsTheOwners /\ EndIsScheduled
=============================================================================
