SPECIFICATION FairSpec
CONSTANTS
  t1 = t1
  t2 = t2
  c1 = c1
  c2 = c2
  Threads = {t1, t2}
  Connections = {c1, c2}
  QueueSize = 1
  Workers = 1
  MaxEvents = 2
INVARIANTS
  TypeOK
  FeedFollowsLog
  NoGapUnlessFull
PROPERTIES
  StreamsEnd
  QueuedIsShown
CHECK_DEADLOCK FALSE
