\* A buffer limit of one largest frame and one read, both scaled down.
SPECIFICATION WireSpec
CONSTANTS
  Sent <- AllStreams
  ReadChunk = 16
  MaxPacketSize = 112
  DetectMinBytes = 8
  Detects <- AdapterDetects
  ParseFrame <- AdapterParse
  MaxMessages = 1
  AckGPS = FALSE
  BinaryFrameLength = 29
  MaxFrame = 96
  MaxTextFrame = 96
  Capture = FALSE
  Absent = Absent
CHECK_DEADLOCK FALSE
INVARIANTS
  WireTypeOK
  NothingInvented
  CutsDoNotMatter
  CleanStreamsAreServed
  AcksAnswerMessages
