SPECIFICATION PublicationSpec
CONSTANTS
  Plans = {p1, p2}
  Creates = {c1}
  Central = {x1}
  Links = {k1, k2}
  None = None
  MaxEdits = 1
  Lots = {l1, l2}
  Whole = Whole
  Amounts = {1, 2}
  Extra = 2
  MaxLeft = 3
  MaxPapers = 2
  MaxPosts = 3
  Entities = {e1, e2}
  EntityStandStill = 2
  MaxAhead = 3
  MaxMilestones = 3
  TenderEnd = 4
  TenderPeriod = 1
  SubmitLead = 1
  CancelTerm = 1
  ExtraPeriod = 1
  Day = 3
  Hour = 3
  EnquiryLead = 3
  Clarification = 2
  MaxTime = 6
  MaxEnd = 5
  MaxCancellations = 1
  MaxComplaints = 0
  MaxObjections = 1
  MaxQuestions = 1
INVARIANTS
  PlansSound
  BiddersInformed
  BidPapersSound
  FoldersSound
PROPERTIES
  PlanDecidedOnce
CHECK_DEADLOCK FALSE
