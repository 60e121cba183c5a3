SPECIFICATION FeedSpec
CONSTANTS
  N = 3
  Limits = {1, 2}
  MaxSaves = 4
INVARIANTS
  FeedSound
PROPERTIES
  EventuallySynchronized
CHECK_DEADLOCK FALSE
