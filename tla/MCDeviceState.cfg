\* Two sessions of a device, four kinds of message, one fault.
SPECIFICATION Spec
CONSTANTS
  Sessions = {w1, w2}
  Flags = {"acc", "gsm"}
  Fences = {f}
  Messages <- MCMessages
  Limits = {0, 6}
  Hysteresis = 2
  Nil = Nil
  MaxMessages = 3
  MaxSaves = 1
  MaxFaults = 1
SYMMETRY Symmetry
CHECK_DEADLOCK FALSE
INVARIANTS
  RulesBalance
  FlagsBalance
