SPECIFICATION FairSpec
CONSTANTS
  Lots = {l1}
  Whole = Whole
  TenderEnd = 2
  TenderPeriod = 1
  SubmitLead = 1
  CancelTerm = 1
  ExtraPeriod = 1
  Day = 1
  Hour = 1
  MaxTime = 3
  MaxEnd = 2
  MaxCancellations = 1
  MaxComplaints = 1
  MaxObjections = 0
PROPERTIES
  CancellationTakesEffect
CHECK_DEADLOCK FALSE
