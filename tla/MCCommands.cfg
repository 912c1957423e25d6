\* Two rows, two replies, one keyed and one text device, one fault.
SPECIFICATION Spec
CONSTANTS
  Cmds = {c1, c2}
  Devices = {gt, txt}
  Keyed = {gt}
  Kinds = {"ENGINE_CUT"}
  Keys = {k1, k2}
  NoKey = NoKey
  Replies = {r1, r2}
  NoCmd = NoCmd
  NoReq = NoReq
  Server = Server
  MaxFaults = 1
SYMMETRY Symmetry
CHECK_DEADLOCK FALSE
INVARIANTS
  OneOutcome
  AcknowledgedByOneReply
  AnswerIsTrue
PROPERTY KeepsContract
