SPECIFICATION HSpec
CONSTANTS
  Requests = {r1, r2, r3}
  MaxClock = 1
SYMMETRY RequestSymmetry
INVARIANTS
  RevisionChain
  ConflictHasWinner
  HistorySound
PROPERTIES
  DateModifiedMonotone
  AtomicSpec
CHECK_DEADLOCK FALSE
