-------------------------------- MODULE Gt06 --------------------------------
(* internal/protocols/gt06: checksums (frame.go), decoding (gt06.go,        *)
(* decode.go), the frames the server sends (commands.go) and those a device *)
(* sends (simulate.go).  The clock of a fix is its six bytes: time.Date     *)
(* would carry an hour above 23 into the next day, which no property tells  *)
(* apart.  A 32-bit field is read as a number below 2^31.  The framer is in *)
(* Framing.                                                                 *)
EXTENDS Protocols, Bitwise, TLC

CONSTANT AckGPS   \* GT06_ACK_GPS: answer position packets too

maxCommandText == 200
gpsBlockSize == 18

msgLogin == \h01
msgHeartbeat == \h13
msgStringInfo == \h15
msgAlarmGPS == \h16
msgGPSLBSStatus == \h2D
msgCommand == \h80
msgTimeRequest == \h8A

isAlarm(typ) == typ \in {\h16, \h26, \h27}
hasGPS(typ) == typ \in {\h12, \h22, \h2D, \hA0, \h16, \h26, \h27}

Bit(b, mask) == b & mask # 0
Uint32(b, i) == 65536 * Uint16(b, i) + Uint16(b, i + 2)
Bytes16(n) == <<(n \div 256) % 256, n % 256>>
Bytes32(n) == Bytes16(n \div 65536) \o Bytes16(n % 65536)

-----------------------------------------------------------------------------
\* frame.go

Shift(crc) == IF crc % 2 = 1 THEN (crc \div 2) ^^ \h8408 ELSE crc \div 2
\* Eight shifts of every low byte, computed once.
Shifted ==
  [b \in 0..255 |->
     LET crc[k \in 0..8] == IF k = 0 THEN b ELSE Shift(crc[k - 1]) IN crc[8]]
crcITU(data) ==
  LET over[c \in 0..65535, b \in 0..255] == (c \div 256) ^^ Shifted[(c % 256) ^^ b]
      crc[i \in 0..Len(data)] == IF i = 0 THEN \h0FFFF ELSE over[crc[i - 1], data[i]]
  IN  \h0FFFF - crc[Len(data)]

Detect(data) == Len(data) >= 2 /\ IsStart(data, 1)

decodeUnchecked(frame) ==
  LET header == IF frame[1] = startLong THEN 4 ELSE 3
      n == Len(frame)
      body == SubSeq(frame, header + 1, n - 2)
      sound == n >= 9 /\ Len(body) >= 5
  IN  IF sound THEN [typ |-> body[1], content |-> SubSeq(body, 2, Len(body) - 4),
                     serial |-> Uint16(frame, n - 5)]
      ELSE Absent

\* The type, content and serial of a frame, Absent unless its checksum holds.
decodeFrame(frame) ==
  LET header == IF frame[1] = startLong THEN 4 ELSE 3
      n == Len(frame)
      body == SubSeq(frame, header + 1, n - 2)
      sound == /\ n >= 9 /\ Len(body) >= 5
               /\ Uint16(frame, n - 3) = crcITU(SubSeq(frame, 3, n - 4))
  IN  IF sound THEN [typ |-> body[1], content |-> SubSeq(body, 2, Len(body) - 4),
                     serial |-> Uint16(frame, n - 5)]
      ELSE Absent

buildFrame(typ, content, serial) ==
  LET covered == <<(Len(content) + 5) % 256, typ>> \o content \o Bytes16(serial)
  IN  <<startShort, startShort>> \o covered \o Bytes16(crcITU(covered)) \o <<CR, LF>>

-----------------------------------------------------------------------------
\* decode.go

\* Sixteen hexadecimal digits without the first; a nibble above 9 prints as a
\* letter, which ValidateIMEI refuses.
decodeIMEI(b) ==
  LET nibble(k) == IF k % 2 = 1 THEN b[(k + 1) \div 2] \div 16 ELSE b[k \div 2] % 16
      digit(v) == IF v <= 9 THEN 48 + v ELSE 87 + v
  IN  IF Len(b) < 8 THEN <<>> ELSE [k \in 1..15 |-> digit(nibble(k + 1))]

batteryLevelPercent(level) == ((IF level > 6 THEN 6 ELSE level) * 100) \div 6

applyTerminalInfo(msg, info) ==
  LET bits == (info \div 8) % 8
      alarms == <<"VIBRATION", "POWER_LOSS", "LOW_BATTERY", "SOS">>
  IN  [msg EXCEPT !.relay = Bit(info, \h80), !.acc = Bit(info, \h02),
                  !.alarm = IF bits \in 1..4 THEN alarms[bits] ELSE @]

\* Alarm codes with a name of their own; the others (ALARM_0xNN) share one here.
alarmLabel(code) ==
  CASE code = 0 -> ""                  [] code = 1 -> "SOS"
    [] code = 2 -> "POWER_LOSS"        [] code = 3 -> "VIBRATION"
    [] code = 4 -> "GEOFENCE_ENTER"    [] code = 5 -> "GEOFENCE_EXIT"
    [] code = 6 -> "OVERSPEED"         [] code = 9 -> "DISPLACEMENT"
    [] code = 10 -> "GPS_LOST"         [] code = 11 -> "GPS_RECOVERED"
    [] code \in {14, 15} -> "LOW_BATTERY"
    [] code = 254 -> "IGNITION_ON"     [] code = 255 -> "IGNITION_OFF"
    [] OTHER -> "ALARM"

\* The packet's block of state: terminal, battery and signal.
applyState(msg, b) ==
  [applyTerminalInfo(msg, b[1]) EXCEPT !.battery = batteryLevelPercent(b[2])]

\* The GPS block; the sequence is empty when the source returns an error.
decodeGPS(msg, b) ==
  LET flags == Uint16(b, 17)
      lat == IF Bit(flags, \h0400) THEN Uint32(b, 8) ELSE -Uint32(b, 8)
      lon == IF Bit(flags, \h0800) THEN -Uint32(b, 12) ELSE Uint32(b, 12)
  IN  IF \/ Len(b) < gpsBlockSize
         \/ b[2] \notin 1..12 \/ b[3] \notin 1..31
         \/ ~ ValidCoordinates(lat, lon)
        THEN Refused
        ELSE <<[msg EXCEPT !.time = SubSeq(b, 1, 6), !.lat = lat, !.lon = lon,
                           !.located = TRUE, !.speed = 1000 * b[16],
                           !.heading = flags % 1024, !.valid = Bit(flags, \h1000)]>>

lbsBlockSize(b) ==
  IF Len(b) < 2 THEN 0 ELSE IF Bit(b[1], \h80) THEN 9 ELSE 8

decodeLocation(msg, pkt) ==
  LET fixed == decodeGPS(msg, pkt.content)
      tail == After(pkt.content, gpsBlockSize)
      rest == IF Len(tail) >= lbsBlockSize(tail) THEN After(tail, lbsBlockSize(tail)) ELSE tail
      stated == IF Len(rest) >= 3 THEN applyState(Head(fixed), rest) ELSE Head(fixed)
      last == IF Len(rest) >= 3 THEN After(rest, 3) ELSE rest
      label == IF isAlarm(pkt.typ) /\ last # <<>> THEN alarmLabel(last[1]) ELSE ""
  IN  IF fixed = Refused THEN Refused
      ELSE <<[stated EXCEPT !.kind = IF label = "" THEN "POSITION" ELSE "ALARM",
                            !.alarm = IF label = "" THEN @ ELSE label]>>

decodeHeartbeat(msg, content) ==
  LET stated == applyState(msg, content)
  IN  IF Len(content) < 3 THEN Refused
      ELSE <<[stated EXCEPT !.kind = IF stated.alarm = "" THEN "HEARTBEAT" ELSE "ALARM"]>>

\* The length byte of a command or of its reply; a wrong one means "the rest".
TextOf(content) ==
  LET said == content[1]
      length == IF said < 4 \/ 1 + said > Len(content) THEN Len(content) - 1 ELSE said
  IN  SubSeq(content, 6, 1 + length)

\* ASCII, or UTF-16BE when the first byte is zero and the second is not.
decodeReplyText(b) ==
  IF Len(b) >= 2 /\ b[1] = 0 /\ b[2] # 0
    THEN TrimSpace([i \in 1..Len(b) \div 2 |-> b[2 * i]])
    ELSE TrimSpace(b)

decodeCommandReply(msg, content) ==
  IF Len(content) < 5 THEN Refused
  ELSE <<[msg EXCEPT !.kind = "COMMAND_ACK", !.key = Uint32(content, 2),
                     !.response = decodeReplyText(TextOf(content))]>>

-----------------------------------------------------------------------------
\* gt06.go: Parse.  The time reply carries the server's clock, here zeros.
AckedWithNext(msgs, typ, content, serial) ==
  [i \in 1..Len(msgs) |-> [msgs[i] EXCEPT !.ack = buildFrame(typ, content, serial + 1)]]

Acked(msgs, typ, content, serial) ==
  [i \in 1..Len(msgs) |-> [msgs[i] EXCEPT !.ack = buildFrame(typ, content, serial)]]

ParsePacket(pkt) ==
  LET msg == TrackerMessage
      imei == decodeIMEI(pkt.content)
  IN  IF pkt = Absent THEN Refused
      ELSE CASE pkt.typ = msgLogin ->
                IF ValidateIMEI(imei)
                  THEN Acked(<<[msg EXCEPT !.kind = "LOGIN", !.imei = imei]>>, msgLogin, <<>>, pkt.serial)
                  ELSE Refused
           [] pkt.typ = msgHeartbeat ->
                Acked(decodeHeartbeat(msg, pkt.content), msgHeartbeat, <<>>, pkt.serial)
           [] pkt.typ = msgStringInfo -> decodeCommandReply(msg, pkt.content)
           [] pkt.typ = msgTimeRequest ->
                Acked(<<msg>>, msgTimeRequest, <<0, 0, 0, 0, 0, 0>>, pkt.serial)
           [] hasGPS(pkt.typ) ->
                IF isAlarm(pkt.typ) \/ AckGPS
                  THEN Acked(decodeLocation(msg, pkt), pkt.typ, <<>>, pkt.serial)
                  ELSE decodeLocation(msg, pkt)
           [] OTHER -> IF AckGPS THEN Acked(<<msg>>, pkt.typ, <<>>, pkt.serial) ELSE <<msg>>

Parse(frame) == ParsePacket(decodeFrame(frame))

-----------------------------------------------------------------------------
\* commands.go.  A command is [type, raw, pwd, value, host]: its canonical type,
\* the text that overrides it, the device's password and the parameters; a
\* parameter that is not a number is Absent.
Safe(s, most) == Len(s) \in 1..most /\ \A i \in 1..Len(s) : s[i] \in 32..126
Word(s, most, also) ==
  Len(s) \in 1..most /\ \A i \in 1..Len(s) : s[i] \in 48..57 \cup 65..90 \cup 97..122 \cup also

\* "CMD#", or "CMD,password#".
withPwd(base, pwd) == Ascii(base) \o (IF pwd = <<>> THEN <<>> ELSE Ascii(",") \o pwd) \o Ascii("#")
positiveInt(v, min, max) == v # Absent /\ v \in min..max

\* The text of a command, empty when the source returns an error.
commandText(cmd) ==
  LET number == Ascii(ToString(cmd.value))
      plain == [ENGINE_CUT |-> "DYD", ENGINE_RESUME |-> "HFYD", REQUEST_POSITION |-> "WHERE",
                REQUEST_STATUS |-> "STATUS", REBOOT |-> "RESET"]
  IN  IF TrimSpace(cmd.raw) # <<>> THEN TrimSpace(cmd.raw)
      ELSE IF cmd.pwd # <<>> /\ ~Word(cmd.pwd, 16, {}) THEN <<>>
      ELSE   CASE cmd.type \in DOMAIN plain -> withPwd(plain[cmd.type], cmd.pwd)
               [] cmd.type = "SET_INTERVAL" /\ positiveInt(cmd.value, 5, 18000) ->
                    Ascii("TIMER,") \o (IF cmd.pwd = <<>> THEN <<>> ELSE cmd.pwd \o Ascii(","))
                    \o number \o Ascii("#")
               [] cmd.type = "SET_HEARTBEAT" /\ positiveInt(cmd.value, 1, 360) ->
                    Ascii("HBT,") \o number \o Ascii("#")
               [] cmd.type = "SET_SERVER" /\ positiveInt(cmd.value, 1, 65535)
                    /\ Word(cmd.host, 64, {45, 46}) ->
                    Ascii("SERVER,1,") \o cmd.host \o Ascii(",") \o number \o Ascii(",0#")
               [] OTHER -> <<>>

Texted(typ, key, text, serial) ==
  buildFrame(typ, <<(Len(text) + 4) % 256>> \o Bytes32(key) \o text \o <<0, 2>>, serial)

\* The 0x80 packet, empty when the command is refused.
EncodeCommand(cmd, key, serial) ==
  LET text == commandText(cmd)
  IN  IF Safe(text, maxCommandText) THEN Texted(msgCommand, key, text, serial) ELSE <<>>

-----------------------------------------------------------------------------
\* simulate.go: the device's side.  Coordinates lie on the wire's grid, speed is
\* in tenths of km/h and the course a whole number.

TerminalInfoByte(s) ==
  \h41 + (IF s.relay THEN \h80 ELSE 0) + (IF s.charging THEN 4 ELSE 0)
       + (IF s.acc THEN 2 ELSE 0)

clampLevel(value, maximum) == IF value > maximum THEN maximum ELSE value
Abs(n) == IF n < 0 THEN -n ELSE n

encodeGPSBlock(fix) ==
  LET speed == IF fix.speed < 0 THEN 0 ELSE (clampLevel(fix.speed, 2550) + 5) \div 10
      flags == (fix.course % 1024) + (IF fix.valid THEN \h1000 ELSE 0)
               + (IF fix.lat >= 0 THEN \h0400 ELSE 0) + (IF fix.lon < 0 THEN \h0800 ELSE 0)
  IN  fix.time \o <<\hC0 + clampLevel(fix.satellites, 15)>>
      \o Bytes32(Abs(fix.lat)) \o Bytes32(Abs(fix.lon)) \o <<speed>> \o Bytes16(flags)

\* MCC 724, MNC 6, LAC 1234, cell 00ABCD.
encodeLBSBlock == Bytes16(724) \o <<6>> \o Bytes16(\h1234) \o <<0, \hAB, \hCD>>

StateBlock(s) == <<TerminalInfoByte(s), clampLevel(s.battery, 6), clampLevel(s.gsm, 4)>>

\* The fifteen digits, padded to sixteen, two to a byte.
BuildLoginFrame(imei, serial) ==
  LET padded == [k \in 1..16 |-> IF k <= 16 - Len(imei) THEN 0 ELSE imei[k - 16 + Len(imei)] - 48]
  IN  buildFrame(msgLogin, [i \in 1..8 |-> 16 * padded[2 * i - 1] + padded[2 * i]], serial)

BuildHeartbeatFrame(s, serial) == buildFrame(msgHeartbeat, StateBlock(s) \o <<0, 1>>, serial)

BuildPositionFrame(fix, s, serial) ==
  buildFrame(msgGPSLBSStatus, encodeGPSBlock(fix) \o encodeLBSBlock \o StateBlock(s), serial)

BuildAlarmFrame(fix, s, code, serial) ==
  buildFrame(msgAlarmGPS, encodeGPSBlock(fix) \o encodeLBSBlock \o StateBlock(s) \o <<code, 1>>, serial)

BuildCommandReply(key, text, serial) == Texted(msgStringInfo, key, text, serial)

\* The flag and the text of a 0x80 packet, or Absent.
DecodeServerCommand(frame) ==
  LET pkt == decodeFrame(frame)
  IN  IF pkt = Absent THEN Absent
      ELSE IF pkt.typ = msgCommand /\ Len(pkt.content) >= 5
        THEN [key |-> Uint32(pkt.content, 2), text |-> TextOf(pkt.content)]
        ELSE Absent
=============================================================================
