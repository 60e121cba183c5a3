SPECIFICATION Spec
CONSTANTS
  Lots = {l1, l2}
  Whole = Whole
  None = None
  NBids = 2
  ClaimTargets = {None}
  CancelTargets = {l1, l2}
  MaxAwards = 2
  MaxClaims = 1
SYMMETRY LotSymmetry
INVARIANTS
  AwardingSound
  SettlingSound
PROPERTIES
  FinalStaysFinal
CHECK_DEADLOCK FALSE
