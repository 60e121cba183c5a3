SPECIFICATION Spec
CONSTANTS
  Lot = Lot
  Nobody = Nobody
  Whole = Whole
  NBids = 3
  MinBids = 2
  MaxAwardsCount = 2
  MaxAwards = 5
  Prices = {1, 3}
  MaxComplaints = 1
  MaxChanges = 2
  Instants = {1, 2}
  Shifts = {0, 1}
  MinActiveContracts = 1
  Quantities = {1, 2}
  Amounts = {1, 2}
  MaxBids = 2
  MaxRounds = 3
INVARIANTS
  FrameworkSound
  NothingIsForgotten
  ChangesSound
  SelectionSound
CHECK_DEADLOCK FALSE
