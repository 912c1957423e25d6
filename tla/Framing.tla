------------------------------ MODULE Framing -------------------------------
(* How the adapters of internal/protocols cut a stream into frames: the      *)
(* NextFrame of the GT06 (gt06/frame.go), of the H02 (h02/h02.go), of the    *)
(* TKSTAR text dialect (tkstar/parser.go) and of its capture mode            *)
(* (tkstar/protocol_v4.go).  A byte is a number 0..255; buf is never empty.  *)
EXTENDS Integers, Sequences

\* The four answers of NextFrame.
Incomplete == [is |-> "incomplete", frame |-> <<>>, consumed |-> 0]
Invalid(n) == [is |-> "invalid", frame |-> <<>>, consumed |-> n]
Separator(n) == [is |-> "separator", frame |-> <<>>, consumed |-> n]
Complete(buf, n) == [is |-> "frame", frame |-> SubSeq(buf, 1, n), consumed |-> n]

\* The least of a set of positions, 0 when there is none.
Least(at) == IF at = {} THEN 0 ELSE CHOOSE i \in at : \A j \in at : i <= j
IndexByte(s, b) == Least({i \in 1..Len(s) : s[i] = b})
After(s, n) == SubSeq(s, n + 1, Len(s))

CR == 13
LF == 10
Space == 32

-----------------------------------------------------------------------------
(* gt06/frame.go                                                             *)

startShort == 120
startLong == 121
maxFrameLength == 4096
Uint16(b, i) == 256 * b[i] + b[i + 1]

IsStart(buf, i) == buf[i] \in {startShort, startLong} /\ buf[i + 1] = buf[i]
indexOfStart(buf) == Least({i \in 1..Len(buf) - 1 : IsStart(buf, i)})

KeepNothing(buf) == 0
\* A last byte that may be the first half of a delimiter is kept.
Keep(buf) == IF buf[Len(buf)] \in {startShort, startLong} THEN 1 ELSE 0

Gt06Header(buf) == IF buf[1] = startLong THEN 4 ELSE 3
Gt06Length(buf) == IF buf[1] = startLong THEN Uint16(buf, 3) ELSE buf[3]

\* A buffer that begins with a delimiter.
Gt06Packet(buf) ==
  LET total == Gt06Header(buf) + Gt06Length(buf) + 2
  IN  IF Len(buf) < Gt06Header(buf) THEN Incomplete
      ELSE IF Gt06Length(buf) < 5 \/ Gt06Length(buf) > maxFrameLength THEN Invalid(2)
      ELSE IF Len(buf) < total THEN Incomplete
      ELSE IF buf[total - 1] # CR \/ buf[total] # LF THEN Invalid(2)
      ELSE Complete(buf, total)

Gt06NextFrame(buf) ==
  LET start == indexOfStart(buf)
  IN  IF start = 0 THEN IF Len(buf) = Keep(buf) THEN Incomplete ELSE Invalid(Len(buf) - Keep(buf))
      ELSE IF start > 1 THEN Invalid(start - 1)
      ELSE Gt06Packet(buf)

-----------------------------------------------------------------------------
(* h02/h02.go, for a binary frame of the length configured, 0 for the        *)
(* heuristic, and a limit of max bytes.                                      *)

markerBinary == 36
markerText == 42
Hash == 35
minBinaryPayload == 29

indexOfMarker(buf) == Least({i \in 1..Len(buf) : buf[i] \in {markerBinary, markerText}})

NextText(buf, max) ==
  LET end == IndexByte(buf, Hash)
  IN  IF end > 0 THEN Complete(buf, end)
      ELSE IF Len(buf) > max THEN Invalid(Len(buf)) ELSE Incomplete

NextBinary(buf, length, max) ==
  IF length > 0
    THEN IF length > max THEN Invalid(Len(buf))
         ELSE IF Len(buf) < length THEN Incomplete
         ELSE Complete(buf, length)
    ELSE IF Len(buf) < minBinaryPayload THEN Incomplete
         ELSE IF Len(buf) > max THEN Invalid(Len(buf))
         ELSE Complete(buf, Len(buf))

H02NextFrame(buf, length, max) ==
  LET start == indexOfMarker(buf)
  IN  IF start = 0 THEN Invalid(Len(buf))
      ELSE IF start > 1 THEN Invalid(start - 1)
      ELSE IF buf[1] = markerText THEN NextText(buf, max)
      ELSE NextBinary(buf, length, max)

-----------------------------------------------------------------------------
(* tkstar/parser.go, for lines of at most max bytes, and protocol_v4.go,     *)
(* which takes the whole buffer for a frame.                                 *)

Semicolon == 59
Separates(b) == b \in {CR, LF, Space}

\* How many bytes of line breaks and spaces the buffer begins with.
Skip(buf) ==
  LET kept == Least({i \in 1..Len(buf) : ~ Separates(buf[i])})
  IN  IF kept = 0 THEN Len(buf) ELSE kept - 1

TkstarNextFrame(buf, max) ==
  LET end == IndexByte(buf, Semicolon)
  IN  IF Skip(buf) > 0 THEN Separator(Skip(buf))
      ELSE IF end = 0 THEN IF Len(buf) > max THEN Invalid(Len(buf)) ELSE Incomplete
      ELSE IF end > max THEN Invalid(end) ELSE Complete(buf, end)

V4NextFrame(buf) == Complete(buf, Len(buf))
=============================================================================
