SPECIFICATION Spec
CONSTANTS
  Workers = {w1, w2, w3}
  Days = {d1, d2}
  MaxFaults = 2
INVARIANTS
  IdsUnique
  GapsAreFaults
PROPERTIES
  EveryCallReturns
