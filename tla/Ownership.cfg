SPECIFICATION OwnershipSpec
CONSTANTS
  Objects = {o1, o2}
  Transfers = {t1, t2}
  Requests = {r1, r2}
  None = None
  MaxEdits = 1
SYMMETRY Symmetry
INVARIANTS
  TransferSound
PROPERTIES
  ConsentAtTheStore
CHECK_DEADLOCK FALSE
