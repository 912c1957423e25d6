\* Three connections of two devices, two slots, one command, a shutdown.
SPECIFICATION FairSpec
CONSTANTS
  Conns = {a, b, c}
  Imeis = {i, j}
  Sends = {s}
  NoConn = NoConn
  NoImei = NoImei
  MaxConnections = 2
  OneImei = TRUE
CHECK_DEADLOCK FALSE
INVARIANTS
  LiveByImei
  SentToItsDevice
  ListedOrReplaced
  WithinLimit
PROPERTIES
  ReplacedEnds
  ShutdownDrains
