-------------------------------- MODULE H02 ---------------------------------
(* internal/protocols/h02: recognising it (h02.go), the binary frame        *)
(* (binary.go) and the text frame (text.go).  Its framer is in Framing.     *)
EXTENDS Protocols, Bitwise

Detect(data) ==
  LET parts == Split(TrimSuffix(data, Code("#")), Code(","))
  IN  /\ data # <<>>
      /\ \/ data[1] = markerBinary
         \/ /\ data[1] = markerText
            /\ IF Len(parts) < 2 THEN Len(data) < 32 ELSE ValidateIMEI(parts[2])

-----------------------------------------------------------------------------
\* binary.go.  The cursor reads whole bytes and peeks at the high half of the
\* next one; every read returns its value and the next position, and the
\* value is Absent when a half is not a digit or the frame ends.

High(b) == b \div 16
Low(b) == b % 16

readBCD(data, pos, digits) ==
  LET whole == SubSeq(data, pos, pos + (digits \div 2) - 1)
      odd == digits % 2 = 1
      next == pos + (digits \div 2)
      sound == /\ next - 1 <= Len(data)
               /\ \A i \in 1..Len(whole) : High(whole[i]) <= 9 /\ Low(whole[i]) <= 9
               /\ odd => next <= Len(data) /\ High(data[next]) <= 9
      pairs == FoldLeft(LAMBDA n, b : 100 * n + 10 * High(b) + Low(b), 0, whole)
  IN  IF ~ sound THEN Absent ELSE IF odd THEN 10 * pairs + High(data[next]) ELSE pairs

\* readCoordinate(false): GG MM.MMMM in four bytes.
readLatitude(data, pos) ==
  LET degrees == readBCD(data, pos, 2)
      minutes == readBCD(data, pos + 1, 6)
  IN  IF degrees = Absent \/ minutes = Absent \/ minutes >= 600000
        THEN Absent ELSE degrees * Degree + 3 * minutes

\* readCoordinate(true): the third degree digit and the first minute digit
\* share a byte, and the last minute digit shares its byte with the flags.
readLongitude(data, pos) ==
  LET degrees == readBCD(data, pos, 3)
      first == Low(data[pos + 1])
      rest == readBCD(data, pos + 2, 5)
      minutes == 100000 * first + rest
  IN  IF degrees = Absent \/ first > 9 \/ rest = Absent \/ minutes >= 600000
        THEN Absent ELSE degrees * Degree + 3 * minutes

decodeBattery(value) ==
  CASE value \in 1..3 -> (value - 1) * 10
    [] value \in 4..6 -> (value - 1) * 20
    [] value \in 7..100 -> value
    [] value \in \hF1..\hF6 -> value - \hF0
    [] OTHER -> Absent

\* The status word as its four bytes: bit n is in byte 4 - n \div 8.
bitSet(word, bit) == (word[4 - (bit \div 8)] \div 2 ^ (bit % 8)) % 2 = 1

applyStatus(msg, word) ==
  LET alarm == IF ~ bitSet(word, 0) THEN "VIBRATION"
               ELSE IF ~ bitSet(word, 1) \/ ~ bitSet(word, 18) THEN "SOS"
               ELSE IF ~ bitSet(word, 2) THEN "OVERSPEED"
               ELSE IF ~ bitSet(word, 19) THEN "POWER_LOSS" ELSE msg.alarm
  IN  [msg EXCEPT !.alarm = alarm, !.acc = bitSet(word, 10),
                  !.kind = IF alarm = "" THEN @ ELSE "ALARM"]

readBinaryTime(data, pos) ==
  LET f == [i \in 1..6 |-> readBCD(data, pos + i - 1, 2)]
  IN  IF \/ \E i \in 1..6 : f[i] = Absent
         \/ f[1] > 23 \/ f[2] > 59 \/ f[3] > 59
         \/ f[4] \notin 1..31 \/ f[5] \notin 1..12
        THEN Absent ELSE <<f[6], f[5], f[4], f[1], f[2], f[3]>>

normalizeID(raw) ==
  LET digit(v) == IF v <= 9 THEN 48 + v ELSE 87 + v
  IN  [k \in 1..2 * Len(raw) |->
         digit(IF k % 2 = 1 THEN High(raw[(k + 1) \div 2]) ELSE Low(raw[k \div 2]))]

decodeBinary(frame) ==
  LET p == IF Len(frame) = 42 THEN 10 ELSE 7     \* after the marker and the id
      id == normalizeID(SubSeq(frame, 2, p - 1))
      time == readBinaryTime(frame, p)
      lat == readLatitude(frame, p + 6)
      lon == readLongitude(frame, p + 11)
      flags == Low(frame[p + 15])
      latitude == IF (flags & 4) = 0 THEN -lat ELSE lat
      longitude == IF (flags & 8) = 0 THEN -lon ELSE lon
      speed == readBCD(frame, p + 16, 3)
      courseLow == readBCD(frame, p + 18, 2)
      course == 100 * Low(frame[p + 17]) + courseLow
      word == SubSeq(frame, p + 19, p + 22)
  IN  IF \/ Len(frame) < minBinaryPayload
         \/ ~ ValidateIMEI(id)
         \/ time = Absent \/ lat = Absent \/ lon = Absent
         \/ ~ ValidCoordinates(latitude, longitude)
         \/ speed = Absent \/ courseLow = Absent
         \/ course > 360
         \/ Len(word) < 4
        THEN Refused
        ELSE <<applyStatus(
                 [TrackerMessage EXCEPT
                    !.kind = "POSITION", !.imei = id, !.time = time,
                    !.battery = decodeBattery(frame[p + 10]),
                    !.valid = (flags & 2) # 0, !.lat = latitude, !.lon = longitude,
                    !.located = TRUE, !.speed = KnotsToKmh(10000 * speed),
                    !.heading = course], word)>>

-----------------------------------------------------------------------------
\* text.go.  A packet without a usable clock is stamped by the server, which
\* leaves Absent here; the length of each month is left out.

parseTextTimestamp(date, clock) ==
  LET f == [i \in 1..3 |-> Digits(SubSeq(date, 2 * i - 1, 2 * i))]
      t == [i \in 1..3 |-> Digits(SubSeq(clock, 2 * i - 1, 2 * i))]
  IN  IF /\ Len(date) >= 6 /\ Len(clock) >= 6
         /\ isAllDigits(SubSeq(date, 1, 6) \o SubSeq(clock, 1, 6))
         /\ f[1] \in 1..31 /\ f[2] \in 1..12
         /\ t[1] < 24 /\ t[2] < 60 /\ t[3] < 60
        THEN <<f[3], f[2], f[1]>> \o t ELSE Absent

\* One to eight hexadecimal digits as four bytes.
IsHex(s) == Len(s) \in 1..8 /\ \A i \in 1..Len(s) : IsDigit(s[i]) \/ ToUpper(s)[i] \in 65..70
Hex(s) ==
  LET padded == [i \in 1..8 - Len(s) |-> 48] \o ToUpper(s)
      v(b) == IF IsDigit(b) THEN b - 48 ELSE b - 55
  IN  [i \in 1..4 |-> 16 * v(padded[2 * i - 1]) + v(padded[2 * i])]

Joined(parts) == After(FlattenSeq([i \in 1..Len(parts) |-> Cons(Code(","), parts[i])]), 1)
Or0(v) == IF v = Absent THEN 0 ELSE v

decodeTextPosition(msg, parts) ==
  LET lat == DDMMToDecimal(Field(parts, 5), Field(parts, 6))
      lon == DDMMToDecimal(Field(parts, 7), Field(parts, 8))
      status == Field(parts, 12)
      placed == [msg EXCEPT
                   !.kind = "POSITION", !.located = TRUE, !.lat = lat, !.lon = lon,
                   !.valid = ToUpper(Field(parts, 4)) = Ascii("A"),
                   !.speed = KnotsToKmh(Or0(parseFloatField(parts, 9))),
                   !.heading = Or0(parseFloatField(parts, 10)) \div 10000,
                   !.time = parseTextTimestamp(Field(parts, 11), Field(parts, 3))]
  IN  IF Len(parts) < 12 THEN <<msg>>
      ELSE IF lat = Absent \/ lon = Absent THEN Refused
      ELSE IF ~ ValidCoordinates(lat, lon) THEN Refused
      ELSE IF IsHex(status) THEN <<applyStatus(placed, Hex(status))>> ELSE <<placed>>

decodeText(frame) ==
  LET parts == Split(TrimSuffix(TrimSpace(frame), Code("#")), Code(","))
      kind == ToUpper(Field(parts, 2))
      msg == [TrackerMessage EXCEPT !.imei = Field(parts, 1)]
      battery == parseIntField(parts, 3)
  IN  IF ~ ValidateIMEI(Field(parts, 1)) THEN Refused
      ELSE CASE kind = Ascii("HTBT") ->
                  <<[msg EXCEPT !.kind = "HEARTBEAT",
                                !.battery = IF battery \in 0..100 THEN battery ELSE Absent]>>
             [] kind = Ascii("V4") ->
                  <<[msg EXCEPT !.kind = "COMMAND_ACK",
                                !.response = Joined(After(parts, 3))]>>
             [] kind # Ascii("V4") /\ HasPrefix(kind, "V") -> decodeTextPosition(msg, parts)
             [] OTHER -> <<msg>>

Parse(frame) ==
  CASE frame[1] = markerBinary -> decodeBinary(frame)
    [] frame[1] = markerText -> decodeText(frame)
    [] OTHER -> Refused
=============================================================================
