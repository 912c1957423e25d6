SPECIFICATION FairSpec
CONSTANTS
  t1 = t1
  t2 = t2
  Tabs = {t1, t2}
  Calls = {"list"}
  Pairs = {1, 2, 3}
  None = none
  Budget <- UserBudget
INVARIANTS OneSuccessor StoredIsUsable
PROPERTIES DroppedForAReason RequestsEnd
CHECK_DEADLOCK FALSE
