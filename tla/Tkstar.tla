------------------------------- MODULE Tkstar -------------------------------
(* internal/protocols/tkstar: the text dialect of protocol_v1.go (V1 and    *)
(* V1.8) and the capture mode of protocol_v4.go.                            *)
EXTENDS Protocols

CONSTANT Capture   \* TKSTAR_V4_CAPTURE

Detect(data) ==
  LET s == After(data, Skip(data))
      end == IndexByte(s, Semicolon)
  IN  /\ s # <<>>
      /\ \/ HasPrefix(s, "##,imei:") \/ HasPrefix(s, "imei:")
         \/ IF end > 10 THEN ValidateIMEI(SubSeq(s, 1, end - 1))
            ELSE Len(s) <= 20 /\ isAllDigits(s)

-----------------------------------------------------------------------------
\* "imei:<digits>" or only the digits, Absent when they are not an IMEI.
extractIMEI(raw) ==
  LET s == TrimSpace(raw)
      id == IF HasPrefix(s, "imei:") \/ HasPrefix(s, "IMEI:") THEN After(s, 5) ELSE s
  IN  IF ValidateIMEI(id) THEN id ELSE Absent

\* The type column: what it says of the ignition, and the alarm it raises.
applyV1Type(msg, kind) ==
  LET alarm == CASE kind = Ascii("help me") -> "SOS"
                 [] kind = Ascii("low battery") -> "LOW_BATTERY"
                 [] kind \in {Ascii("move"), Ascii("stockade")} -> "VIBRATION"
                 [] kind = Ascii("speed") -> "OVERSPEED"
                 [] OTHER -> ""
  IN  [msg EXCEPT !.alarm = alarm, !.kind = IF alarm = "" THEN @ ELSE "ALARM",
                  !.acc = CASE kind = Ascii("acc on") -> TRUE
                            [] kind = Ascii("acc off") -> FALSE
                            [] OTHER -> @]

\* yyMMddHHmm of the device with the hhmmss of the fix; Absent on an error,
\* which leaves the server's clock.  The length of each month is left out.
parseV1Timestamp(local, utc) ==
  LET pair(s, i) == Digits(SubSeq(s, 2 * i - 1, 2 * i))
      date == <<pair(local, 1), pair(local, 2), pair(local, 3)>>
      dated == /\ Len(local) >= 10 /\ isAllDigits(SubSeq(local, 1, 10))
               /\ date[2] \in 1..12 /\ date[3] \in 1..31
               /\ pair(local, 4) < 24 /\ pair(local, 5) < 60
      clocked == /\ isAllDigits(SubSeq(utc, 1, 6))
                 /\ pair(utc, 1) < 24 /\ pair(utc, 2) < 60 /\ pair(utc, 3) < 60
  IN  IF ~ dated THEN Absent
      ELSE IF Len(utc) < 6 THEN date \o <<pair(local, 4), pair(local, 5), 0>>
      ELSE IF clocked THEN date \o <<pair(utc, 1), pair(utc, 2), pair(utc, 3)>> ELSE Absent

Or0(v) == IF v = Absent THEN 0 ELSE v

parseData(line, extended) ==
  LET parts == Split(line, Code(","))
      imei == extractIMEI(Field(parts, 0))
      typed == applyV1Type([TrackerMessage EXCEPT !.imei = imei], ToLower(Field(parts, 1)))
      fix == ToUpper(Field(parts, 4))
      lat == DDMMToDecimal(Field(parts, 7), Field(parts, 8))
      lon == DDMMToDecimal(Field(parts, 9), Field(parts, 10))
      battery == parseIntField(parts, 14)
  IN  IF imei = Absent THEN Refused
      ELSE IF Len(parts) < 12 THEN <<typed>>
      ELSE IF fix # Ascii("F") THEN <<[typed EXCEPT !.kind = "STATUS"]>>
      ELSE IF lat = Absent \/ lon = Absent THEN Refused
      ELSE IF ~ ValidCoordinates(lat, lon) THEN Refused
      ELSE <<[typed EXCEPT
                !.valid = ToUpper(Field(parts, 6)) = Ascii("A"),
                !.lat = lat, !.lon = lon, !.located = TRUE,
                !.kind = IF @ = "OTHER" THEN "POSITION" ELSE @,
                !.speed = KnotsToKmh(Or0(parseFloatField(parts, 11))),
                !.heading = Or0(parseFloatField(parts, 12)) \div 10000,
                !.time = parseV1Timestamp(Field(parts, 2), Field(parts, 5)),
                !.battery = IF extended /\ battery \in 0..100 THEN battery ELSE @]>>

Parse(frame, extended) ==
  LET line == TrimSuffix(TrimSpace(frame), Semicolon)
      login == extractIMEI(Field(Split(line, Code(",")), 1))
      beat == extractIMEI(line)
  IN  CASE HasPrefix(line, "##,") ->
             IF login = Absent THEN Refused
             ELSE <<[TrackerMessage EXCEPT !.kind = "LOGIN", !.imei = login, !.ack = Ascii("LOAD")]>>
        [] isAllDigits(line) ->
             IF beat = Absent THEN Refused
             ELSE <<[TrackerMessage EXCEPT !.kind = "HEARTBEAT", !.imei = beat, !.ack = Ascii("ON")]>>
        [] HasPrefix(line, "imei:") -> parseData(line, extended)
        [] OTHER -> <<TrackerMessage>>

-----------------------------------------------------------------------------
\* protocol_v4.go: the whole buffer is one frame, and nothing is read in it.
DetectV4(data) == Capture /\ data # <<>>
ParseV4(frame) == <<TrackerMessage>>
=============================================================================
