SPECIFICATION AllSpec
CONSTANTS
  Lots = {l1, l2}
  Whole = Whole
  MaxAwards = 2
  MaxCancellations = 1
  MaxObjections = 1
  NoContract = NoContract
  NotSet = NotSet
  Amounts = {0, 1, 2}
  Dates = {1, 2}
  MaxChanges = 2
SYMMETRY LotSymmetry
INVARIANTS
  AwardsSound
  StandStillKept
  NothingIsForgotten
  ContractsSound
PROPERTIES
  ClosedStaysClosed
CHECK_DEADLOCK FALSE
