-------------------------------- MODULE Wire --------------------------------
(* The read loop of one tracker connection (tcp/session.go): bytes arrive   *)
(* in reads of any size, accumulate in a buffer, the registry names the     *)
(* protocol from the first of them, the protocol's framer cuts the frames,  *)
(* the frames are parsed and their messages acknowledged and handled.       *)
(*                                                                          *)
(* The device's stream is a sequence of items: frames, and noise.  An item  *)
(* is [bytes, says, clean]: what the device meant by it (a sequence of at   *)
(* most one message) and whether it keeps to the framing, so that it cannot *)
(* hide the item after it.  HandleMessage is reduced to its verdict, and    *)
(* registration is in Sessions.                                             *)
EXTENDS Integers, Sequences, SequencesExt, Framing

CONSTANTS
  Sent,               \* the streams a device may send: sequences of items
  ReadChunk,          \* readChunk, the largest read
  MaxPacketSize,      \* TCP_MAX_PACKET_SIZE
  DetectMinBytes,     \* detectMinBytes
  BinaryFrameLength,  \* H02_BINARY_FRAME_LENGTH, 0 for the heuristic
  MaxFrame,           \* maxFrame of the H02
  MaxTextFrame,       \* maxTextFrame of the TKSTAR
  MaxMessages,        \* bound: messages of one frame
  Detects(_, _),      \* what an adapter's Detect says of the first bytes
  ParseFrame(_, _)    \* the messages an adapter's Parse finds in a frame

VARIABLES
  sent,      \* the stream of this connection
  pos,       \* how many of its bytes were read
  fault,     \* the message at which Send fails, the ingestor rejects the session
             \* or its query fails
  session    \* the session: see Session

wireVars == <<sent, pos, fault, session>>

Bytes(items) == FlattenSeq([i \in 1..Len(items) |-> items[i].bytes])
Stream == Bytes(sent)

\* config.Load bounds MaxPacketSize from below, not against readChunk.
ASSUME SizesAssumption ==
  /\ {ReadChunk, MaxPacketSize, DetectMinBytes, MaxFrame, MaxTextFrame} \subseteq Nat \ {0}
  /\ BinaryFrameLength \in Nat /\ MaxMessages \in Nat

ASSUME StreamsAssumption == \A items \in Sent : Bytes(items) \in Seq(0..255)

\* What the server and the device said to each other: the device, the messages
\* parsed, the acknowledgements written, the messages the ingestor accepted,
\* and why the session ended.
Talk(imei, seen, acks, handled, end) ==
  [imei |-> imei, seen |-> seen, acks |-> acks, handled |-> handled, end |-> end]
Ended(t, why) == Talk(t.imei, t.seen, t.acks, t.handled, why)
NewTalk == Talk(<<>>, 0, <<>>, <<>>, "")

Session(buf, protocol, talk) == [buf |-> buf, protocol |-> protocol, talk |-> talk]

Faults == {<<"none", 0>>} \cup ({"send", "reject", "error"} \X (1..2))

WireInit ==
  /\ sent \in Sent
  /\ pos = 0
  /\ fault \in Faults
  /\ session = Session(<<>>, "", NewTalk)

-----------------------------------------------------------------------------
\* The adapters in the order of the registry.
Registry == <<"gt06", "h02", "tkstar_v1", "tkstar_v1_8", "tkstar_v4">>

NextFrame(p, buf) ==
  CASE p = "gt06" -> Gt06NextFrame(buf)
    [] p = "h02" -> H02NextFrame(buf, BinaryFrameLength, MaxFrame)
    [] p \in {"tkstar_v1", "tkstar_v1_8"} -> TkstarNextFrame(buf, MaxTextFrame)
    [] p = "tkstar_v4" -> V4NextFrame(buf)

\* registry.Detect: the first adapter that claims the bytes, or none.
FirstDetected(data) ==
  LET i == Least({n \in 1..Len(Registry) : Detects(Registry[n], data)})
  IN  IF i = 0 THEN "" ELSE Registry[i]

detect(s) ==
  LET p == FirstDetected(s.buf)
  IN  IF p # "" THEN Session(s.buf, p, s.talk)
      ELSE IF Len(s.buf) < DetectMinBytes THEN s
      ELSE Session(<<>>, "", Ended(s.talk, "unknown"))

\* Mutant: a message without an IMEI stays without one.
HandleUnnamed(f, t, msg) ==
  LET n == t.seen + 1
      acks == IF msg.ack = <<>> THEN t.acks ELSE Append(t.acks, msg.ack)
  IN  IF t.end # "" THEN t
      ELSE IF msg.ack # <<>> /\ f = <<"send", n>> THEN Talk(t.imei, n, t.acks, t.handled, "send")
      ELSE IF msg.imei = <<>> \/ f = <<"error", n>> THEN Talk(t.imei, n, acks, t.handled, "")
      ELSE IF f = <<"reject", n>> THEN Talk(t.imei, n, acks, t.handled, "reject")
      ELSE Talk(msg.imei, n, acks, Append(t.handled, msg), "")

\* One message, at fault f: the acknowledgement first, then the ingestor, which
\* drops a message of nobody or whose device it fails to look up, and may reject
\* the session.
Handle(f, t, msg) ==
  LET m == [msg EXCEPT !.imei = IF @ = <<>> THEN t.imei ELSE @]
      n == t.seen + 1
      acks == IF m.ack = <<>> THEN t.acks ELSE Append(t.acks, m.ack)
  IN  IF t.end # "" THEN t
      ELSE IF m.ack # <<>> /\ f = <<"send", n>> THEN Talk(t.imei, n, t.acks, t.handled, "send")
      ELSE IF m.imei = <<>> \/ f = <<"error", n>> THEN Talk(t.imei, n, acks, t.handled, "")
      ELSE IF f = <<"reject", n>> THEN Talk(t.imei, n, acks, t.handled, "reject")
      ELSE Talk(m.imei, n, acks, Append(t.handled, m), "")

HandleAll(f, t, msgs) ==
  LET run[i \in 0..MaxMessages] ==
        IF i = 0 THEN t
        ELSE IF i \in DOMAIN msgs THEN Handle(f, run[i - 1], msgs[i]) ELSE run[i - 1]
  IN  run[MaxMessages]

\* A frame that does not parse is captured and does not end the session.
dispatch(f, p, t, frame) == HandleAll(f, t, ParseFrame(p, frame))

\* The loop of process: whether it goes on, what is left to cut, what was said.
Loop(more, buf, talk) == [more |-> more, buf |-> buf, talk |-> talk]
Dispatched(rest, t) == Loop(t.end = "", rest, t)

\* One turn of it: the framer asks for more bytes, fails to advance, skips bytes
\* or finds a frame, which may end the session.
Turn(f, p, l) ==
  LET r == NextFrame(p, l.buf)
      rest == After(l.buf, r.consumed)
  IN  IF ~ l.more \/ l.buf = <<>> THEN l
      ELSE IF r.is = "incomplete" THEN Loop(FALSE, l.buf, l.talk)
      ELSE IF r.consumed <= 0
        THEN Loop(FALSE, l.buf, IF r.is = "invalid" THEN Ended(l.talk, "stuck") ELSE l.talk)
      ELSE IF r.is = "frame" THEN Dispatched(rest, dispatch(f, p, l.talk, r.frame))
      ELSE Loop(TRUE, rest, l.talk)

Turns(f, p, l) ==
  LET run[n \in Nat] == IF n = 0 THEN l ELSE Turn(f, p, run[n - 1]) IN run

\* As many turns as there are bytes: one that goes on takes at least a byte.
Cut(f, p, l) == Turns(f, p, l)[Len(l.buf)]

Rested(p, l) == Session(l.buf, p, l.talk)
cutFrames(f, s) == Rested(s.protocol, Cut(f, s.protocol, Loop(TRUE, s.buf, s.talk)))

processUnbounded(f, s) ==
  LET known == IF s.protocol = "" THEN detect(s) ELSE s
  IN  IF known.protocol = "" THEN known ELSE cutFrames(f, known)

process(f, s) ==
  LET known == IF s.protocol = "" THEN detect(s) ELSE s
  IN  IF Len(s.buf) > MaxPacketSize THEN Session(s.buf, s.protocol, Ended(s.talk, "oversized"))
      ELSE IF known.protocol = "" THEN known
      ELSE cutFrames(f, known)

Received(f, s, chunk) == process(f, Session(s.buf \o chunk, s.protocol, s.talk))

-----------------------------------------------------------------------------
\* One turn of run: a read of up to ReadChunk bytes, and all it completes.
Read ==
  /\ session.talk.end = ""
  /\ \E n \in 1..ReadChunk :
       /\ pos + n <= Len(Stream)
       /\ pos' = pos + n
       /\ session' = Received(fault, session, SubSeq(Stream, pos + 1, pos + n))
  /\ UNCHANGED <<sent, fault>>

\* The device hangs up, or is silent for longer than the read timeout.
HangUp ==
  /\ session.talk.end = ""
  /\ session' = Session(session.buf, session.protocol, Ended(session.talk, "closed"))
  /\ UNCHANGED <<sent, pos, fault>>

WireNext == Read \/ HangUp

WireSpec == WireInit /\ [][WireNext]_wireVars

-----------------------------------------------------------------------------
\* The session's fields have their types, its buffer holds at most a packet and
\* a read, and a framer never fails to advance ("stuck"): what session.run
\* keeps for one connection.
WireTypeOK ==
  /\ sent \in Sent
  /\ pos \in 0..Len(Stream)
  /\ fault \in Faults
  /\ session.protocol \in {""} \cup Range(Registry)
  /\ session.talk.end \in {"", "unknown", "oversized", "send", "reject", "closed"}
  /\ Len(session.buf) <= MaxPacketSize + ReadChunk

\* A stream whose frames keep to the limits of the framers.  A GT06 frame says
\* its length and needs no limit; an H02 has a known length of binary frame and
\* ends its texts; a TKSTAR ends its lines.  Nothing is known of a V4.
Fits(p, stream) ==
  \/ p = "gt06"
  \/ /\ p = "h02" /\ BinaryFrameLength \in 1..MaxFrame
     /\ \A i \in 1..Len(stream) - MaxFrame :
          stream[i] = markerText => \E j \in i..i + MaxFrame : stream[j] = Hash
  \/ /\ p \in {"tkstar_v1", "tkstar_v1_8"}
     /\ \A i \in 1..Len(stream) - MaxTextFrame :
          \E j \in i..i + MaxTextFrame : stream[j] = Semicolon

\* A read is not a packet: once the protocol is known, the frames handled, the
\* acknowledgements and what is left in the buffer are those that one single
\* read of the same bytes would have given, wherever the reads were cut
\* (session.process).
CutsDoNotMatter ==
  session.protocol # "" /\ session.talk.end = "" /\ Fits(session.protocol, Stream) =>
    session = cutFrames(fault, Session(SubSeq(Stream, 1, pos), session.protocol, NewTalk))

\* The items that have been read to their last byte.
Whole == {i \in 1..Len(sent) : Len(Bytes(SubSeq(sent, 1, i))) <= pos}
Meant == FlattenSeq([i \in 1..Len(sent) |-> IF i \in Whole THEN sent[i].says ELSE <<>>])
Clean == \A i \in 1..Len(sent) : sent[i].clean
Unacked(msgs) == [i \in 1..Len(msgs) |-> [msgs[i] EXCEPT !.ack = <<>>]]

\* A device that keeps to the framing is served: every message it sent is
\* handled with the values it meant, once, in order and as soon as its last
\* byte is read, and the session is not ended as unframeable or oversized.
\* (A stream that opens with an H02 text frame may fail to be recognised.)
CleanStreamsAreServed ==
  Clean /\ fault[1] = "none" =>
    /\ session.talk.end \in {"", "closed"} \cup
         (IF Stream[1] = markerText THEN {"unknown"} ELSE {})
    /\ session.protocol # "" => Unacked(session.talk.handled) = Unacked(Meant)

\* got is what is left of all when some of it is dropped.
IsSubsequence(got, all) ==
  \E f \in [1..Len(got) -> 1..Len(all)] :
     /\ \A i \in 1..Len(got) : got[i] = all[f[i]]
     /\ \A i, j \in 1..Len(got) : i < j => f[i] < f[j]

\* Whatever noise surrounds the frames and whatever fails, the server never
\* handles a message the device did not send, nor one twice, nor two in the wrong
\* order.
NothingInvented ==
  IsSubsequence(Unacked(session.talk.handled),
                Unacked(FlattenSeq([i \in 1..Len(sent) |-> sent[i].says])))

\* Every acknowledgement is the one the message it answers calls for (the GT06
\* echoes its type and serial number), and a message that is handled was
\* acknowledged first, in the order of the messages.
AcksAnswerMessages ==
  LET due == SelectSeq(FlattenSeq([i \in 1..Len(sent) |-> sent[i].says]),
                       LAMBDA m : m.ack # <<>>)
      acked == SelectSeq(session.talk.handled, LAMBDA m : m.ack # <<>>)
  IN  /\ \A i \in 1..Len(session.talk.acks) : \E m \in Range(due) : session.talk.acks[i] = m.ack
      /\ IsSubsequence([i \in 1..Len(acked) |-> acked[i].ack], session.talk.acks)
=============================================================================
