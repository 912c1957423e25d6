\* Liveness: two rows of one keyed device, one reply, one fault.
SPECIFICATION FairSpec
CONSTANTS
  Cmds = {c1, c2}
  Devices = {gt}
  Keyed = {gt}
  Kinds = {"ENGINE_CUT"}
  Keys = {k1, k2}
  NoKey = NoKey
  Replies = {r1}
  NoCmd = NoCmd
  NoReq = NoReq
  Server = Server
  MaxFaults = 1
CHECK_DEADLOCK FALSE
PROPERTIES
  SentCloses
  FaultFreeCloses
