\* Speeds at the limit and just above it, any clock error, packets in any order.
SPECIFICATION CutSpec
CONSTANTS
  Speeds = {5, 6}
  MaxSpeed = 5
  MaxAge = 1
  Skews <- MCSkews
  MaxTime = 3
  MaxRows = 3
CHECK_DEADLOCK FALSE
INVARIANTS
  NewestFixDecides
  LastWordDecides
