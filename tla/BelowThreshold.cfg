SPECIFICATION Spec
CONSTANTS
  Lots = {}
  Whole = Whole
  None = None
  NBids = 2
  ClaimTargets = {None}
  CancelTargets = {None}
  MaxAwards = 3
  MaxClaims = 2
INVARIANTS
  Safety
PROPERTIES
  BiddingEnds
  RejectionSettles
CHECK_DEADLOCK FALSE
