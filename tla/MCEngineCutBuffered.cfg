\* A device that delivers its offline buffer after it reconnects.
SPECIFICATION CutSpec
CONSTANTS
  Speeds = {0, 9}
  MaxSpeed = 5
  MaxAge = 1
  Skews <- MCSkews
  MaxTime = 3
  MaxRows = 2
CHECK_DEADLOCK FALSE
INVARIANT CutIsFresh
