INIT AboveInit
NEXT AboveNext
CONSTANTS
  Whole = Whole
  Nobody = Nobody
  Lots = {l1, l2}
  Bids = {b1, b2, b3}
  Firms = {f1, f2}
  MinBids = 2
  MaxComplaints = 1
  NBids = 2
  MaxAwards = 3
SYMMETRY Symmetry
INVARIANTS
  QualificationSound
  CompetitionSound
  WinnersSound
  AllRemembered
CHECK_DEADLOCK FALSE
