----------------------------- MODULE Protocols -----------------------------
(* What the parsers of internal/protocols share: the canonical message, the *)
(* identifier and coordinate checks, and the reading of text fields.  A     *)
(* byte is a number 0..255.                                                 *)
(*                                                                          *)
(* Units: a coordinate is in 1/1800000 of a degree, the grid of the GT06    *)
(* (1/10000 of a minute is three of them); a speed is in m/h, so a knot is  *)
(* 1852 and a km/h 1000; an optional field the packet did not carry is      *)
(* Absent (the nil pointers of TrackerMessage).                             *)
EXTENDS Integers, Sequences, SequencesExt, Framing

CONSTANT Absent   \* a nil optional field

Degree == 1800000

\* The printable part of the ASCII table, from 32 to 126; a string of TLA+
\* cannot hold the grave accent, 96, whose place a space takes.
Printable ==
  " !\"#$%&'()*+,-./0123456789:;<=>?@ABCDEFGHIJKLMNOPQRSTUVWXYZ[\\]^_ abcdefghijklmnopqrstuvwxyz{|}~"

At(text, i) == SubSeq(text, i, i)

CodeOf ==
  [c \in {At(Printable, i) : i \in 1..95} |->
     CHOOSE b \in (32..126) \ {96} : At(Printable, b - 31) = c]

Code(c) == CodeOf[c]

\* The bytes of a printable literal of the source.
Ascii(text) == [i \in 1..Len(text) |-> CodeOf[At(text, i)]]

-----------------------------------------------------------------------------
\* The fields of TrackerMessage that the server acts on.
TrackerMessage ==
  [kind |-> "OTHER", imei |-> <<>>, ack |-> <<>>, located |-> FALSE,
   valid |-> FALSE, lat |-> 0, lon |-> 0, speed |-> 0, heading |-> 0,
   time |-> Absent, relay |-> Absent, acc |-> Absent, battery |-> Absent,
   alarm |-> "", key |-> 0, response |-> <<>>]

\* Parse returns the messages of a frame; an error is no message at all,
\* because dispatch only captures the frame and goes on.
Refused == <<>>

-----------------------------------------------------------------------------
IsDigit(b) == b \in 48..57
Blank(b) == b \in {Space} \cup 9..13

TrimSpace(s) ==
  LET kept == {i \in 1..Len(s) : ~ Blank(s[i])}
  IN  IF kept = {} THEN <<>>
      ELSE SubSeq(s, CHOOSE i \in kept : \A j \in kept : i <= j,
                     CHOOSE i \in kept : \A j \in kept : j <= i)

TrimSuffix(s, b) == IF s # <<>> /\ Last(s) = b THEN Front(s) ELSE s
HasPrefix(s, text) == IsPrefix(Ascii(text), s)
ToUpper(s) == [i \in 1..Len(s) |-> IF s[i] \in 97..122 THEN s[i] - 32 ELSE s[i]]
ToLower(s) == [i \in 1..Len(s) |-> IF s[i] \in 65..90 THEN s[i] + 32 ELSE s[i]]

RECURSIVE Split(_, _)
Split(s, b) ==
  LET i == IndexByte(s, b)
  IN  IF i = 0 THEN <<s>> ELSE <<SubSeq(s, 1, i - 1)>> \o Split(After(s, i), b)

\* field(parts, i): indices count from 0, as in the source.
Field(parts, i) == IF i < Len(parts) THEN TrimSpace(parts[i + 1]) ELSE <<>>

isAllDigits(s) == s # <<>> /\ \A i \in 1..Len(s) : IsDigit(s[i])
Digits(s) ==
  LET value[i \in 0..Len(s)] == IF i = 0 THEN 0 ELSE 10 * value[i - 1] + s[i] - 48
  IN  value[Len(s)]

parseIntField(parts, i) ==
  LET raw == Field(parts, i) IN IF isAllDigits(raw) THEN Digits(raw) ELSE Absent

\* strconv.ParseFloat on unsigned decimals with at most four places, in
\* 1/10000; other spellings (signs, exponents) are left out.
ParseFloat(s) ==
  LET dot == IndexByte(s, 46)
      whole == IF dot = 0 THEN s ELSE SubSeq(s, 1, dot - 1)
      places == IF dot = 0 THEN <<>> ELSE After(s, dot)
  IN  IF isAllDigits(whole \o places) /\ Len(places) <= 4
        THEN Digits(whole) * 10000 + Digits(places) * 10 ^ (4 - Len(places))
        ELSE Absent

parseFloatField(parts, i) == ParseFloat(Field(parts, i))

-----------------------------------------------------------------------------
\* Degrees and minutes, both in 1/10000, with their hemisphere; Absent when
\* the source returns an error.
Combine(degrees, minutes, side) ==
  LET decimal == (degrees \div 10000) * Degree + 3 * minutes
  IN  IF degrees = Absent \/ minutes = Absent \/ minutes >= 600000 THEN Absent
      ELSE IF side \in {Ascii("S"), Ascii("W")} THEN -decimal
      ELSE IF side \in {<<>>, Ascii("N"), Ascii("E")} THEN decimal ELSE Absent

\* DDMM.MMMM: the minutes are the two digits before the point and the rest.
DDMMToDecimal(value, hemisphere) ==
  LET found == IndexByte(value, 46)
      dot == IF found = 0 THEN Len(value) ELSE found - 1
  IN  IF dot < 3 THEN Absent
      ELSE Combine(ParseFloat(SubSeq(value, 1, dot - 2)), ParseFloat(After(value, dot - 2)),
                   ToUpper(hemisphere))

ValidCoordinates(lat, lon) ==
  /\ -90 * Degree <= lat /\ lat <= 90 * Degree
  /\ -180 * Degree <= lon /\ lon <= 180 * Degree

\* From 1/10000 of a knot, to the hundredth of a knot.
KnotsToKmh(knots) == ((knots \div 100) * 1852) \div 100

ValidateIMEI(imei) ==
  LET id == TrimSpace(imei)
  IN  /\ Len(id) \in 10..20
      /\ isAllDigits(id)
      /\ \E i \in 1..Len(id) : id[i] # 48
=============================================================================
