SPECIFICATION Spec
CONSTANTS
  Lots = {l1, l2}
  Whole = Whole
  TenderEnd = 2
  TenderPeriod = 2
  SubmitLead = 1
  CancelTerm = 1
  ExtraPeriod = 1
  Day = 2
  Hour = 2
  MaxTime = 3
  MaxEnd = 2
  MaxCancellations = 2
  MaxComplaints = 1
  MaxObjections = 1
SYMMETRY LotSymmetry
INVARIANTS
  CancelledForGood
  DecisionsAreScheduled
PROPERTIES
  NothingIsBuried
  TimeIsGivenBack
CHECK_DEADLOCK FALSE
