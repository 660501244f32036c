SPECIFICATION FairSpec
CONSTANTS
  Clients = {c1}
  Buffer = 3
  Openings = 2
  MaxBroadcasts = 5
INVARIANTS
  TypeOK
  NoSendOnClosed
  NothingMissed
  WedgedOnlyWhenFlooded
PROPERTIES
  FeedSpec
  CleansUp
  Delivers
CHECK_DEADLOCK FALSE
