CONSTANTS
  t1 = t1
  t2 = t2
  NoThread = NoThread
  Writers = {t1, t2}
  Readers = {t2}
  Ids = {1, 2}
  Prices = {0, 1, 2}
  Ints <- NegInts
  Word = 4
SPECIFICATION Spec
CONSTRAINTS FewOrders ReadsCalm
INVARIANTS TypeOK VolumeIsSum WriteExclusion UpdateExact
PROPERTIES AtomicSpec
