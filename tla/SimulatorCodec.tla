--------------------------- MODULE SimulatorCodec ---------------------------
(* The two sides of the wire of Simulator: the bytes of every frame that its  *)
(* instance can exchange, written by the encoders of one side and read by the *)
(* decoders of the other.                                                     *)
EXTENDS Simulator, FiniteSetsExt

GT06 == INSTANCE Gt06 WITH AckGPS <- FALSE

Fix(s) == [time |-> <<25, 1, 2, 3, 4, 5>>, lat |-> -42390900, lon |-> -83939940,
           speed |-> s.speed, course |-> 90, satellites |-> 9, valid |-> TRUE]
DeviceStatus(s) == [relay |-> s.relay, charging |-> s.acc, acc |-> s.acc,
                    battery |-> 5, gsm |-> 4]

\* The bytes of a report.
Report(kind, s) ==
  CASE kind = "position" -> GT06!BuildPositionFrame(Fix(s), DeviceStatus(s), 1)
    [] kind = "heartbeat" -> GT06!BuildHeartbeatFrame(DeviceStatus(s), 1)
    [] kind = "alarm" -> GT06!BuildAlarmFrame(Fix(s), DeviceStatus(s), 1, 1)

failedResponse(response) ==
  LET lowered == GT06!ToLower(response)
      has(needle) == \E i \in 1..Len(lowered) : GT06!HasPrefix(GT06!After(lowered, i - 1), needle)
  IN  \E needle \in {"fail", "error", "invalid", "password err", "not support"} : has(needle)

\* The word of the text that the reply to TIMER, HBT and SERVER repeats.
Echo(upper) ==
  LET commas == {i \in 1..Len(upper) : upper[i] = 44}
  IN  IF commas = {} THEN upper ELSE SubSeq(upper, 1, Min(commas) - 1)

\* A command is decoded with the key and the text it was encoded with, or was
\* refused by the encoder; without an override a cut and a resume become texts
\* that order one, and a word the reply repeats is none failedResponse looks for.
\* A report is decoded with the state it says, a reply with its key and its text,
\* of which failedResponse recognises the negative ones.
ASSUME CodecAssumption ==
  /\ \A k \in DOMAIN Sends :
       LET frame == GT06!EncodeCommand(Sends[k].request, k, 1)
           text == GT06!Ascii(Sends[k].text)
       IN  IF text = <<>> THEN frame = <<>>
           ELSE /\ GT06!DecodeServerCommand(frame) = [key |-> k, text |-> text]
                /\ GT06!ToUpper(text) = GT06!Ascii(Sends[k].upper)
                /\ ~ failedResponse(Echo(GT06!ToUpper(text)))
                /\ Sends[k].request.raw = <<>> =>
                     CASE Sends[k].request.type = "ENGINE_CUT" -> OrdersCut(Sends[k].upper)
                       [] Sends[k].request.type = "ENGINE_RESUME" -> OrdersResume(Sends[k].upper)
                       [] OTHER -> TRUE
  /\ \A kind \in Kinds, s \in State :
       LET m == Head(GT06!Parse(Report(kind, s)))
       IN  /\ m.relay = s.relay /\ m.acc = s.acc
           /\ m.located <=> kind # "heartbeat"
           /\ m.located => m.speed = 1000 * Reported(s).speed
  /\ \A k \in Keys, text \in Replies :
       LET m == Head(GT06!Parse(GT06!BuildCommandReply(k, GT06!Ascii(text), 1)))
       IN  /\ m.kind = "COMMAND_ACK" /\ m.key = k
           /\ failedResponse(m.response) <=> text \in Negative
=============================================================================
