CONSTANTS
  t1 = t1
  t2 = t2
  NoThread = NoThread
  Writers = {t1}
  Readers = {t2}
  Ids = {1, 2}
  Prices = {0, 1}
  Ints = {0, 1}
  Word = 4
SPECIFICATION Spec
INVARIANTS BestLevelNotEmpty
