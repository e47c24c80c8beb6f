CONSTANTS
  p1 = p1
  p2 = p2
  c1 = c1
  c2 = c2
  Everyone = Everyone
  Producers = {p1}
  Clients = {c1}
  Kinds = {"snapshot"}
  MaxTaken = 2
  MaxPushes = 2
SPECIFICATION FairSpec
PROPERTIES StopReturns
CHECK_DEADLOCK FALSE
