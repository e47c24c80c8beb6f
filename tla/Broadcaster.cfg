CONSTANTS
  p1 = p1
  p2 = p2
  c1 = c1
  c2 = c2
  Everyone = Everyone
  Producers = {p1}
  Clients = {c1, c2}
  Kinds = {"snapshot", "md"}
  MaxTaken = 3
  MaxPushes = 4
SPECIFICATION FairSpec
INVARIANTS SnapshotNotLost
PROPERTIES NeverBackwards Answered StopReturnsIfFed
CHECK_DEADLOCK FALSE
