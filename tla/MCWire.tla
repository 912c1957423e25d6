------------------------------- MODULE MCWire -------------------------------
(* Streams of a GT06, an H02 and a TKSTAR device for Wire.  What a device   *)
(* meant by a frame is written down here field by field, apart from the     *)
(* decoders.                                                                *)
EXTENDS Adapters

Item(bytes, says, clean) == [bytes |-> bytes, says |-> says, clean |-> clean]
Blank == GT06!TrackerMessage
Msg(kind, imei) == [Blank EXCEPT !.kind = kind, !.imei = imei]

-----------------------------------------------------------------------------
\* A GT06 device and its reports.
Imei == GT06!Ascii("869247061234567")
Parked == [relay |-> TRUE, acc |-> FALSE, charging |-> FALSE, battery |-> 3, gsm |-> 9]
Driving == [relay |-> FALSE, acc |-> TRUE, charging |-> TRUE, battery |-> 7, gsm |-> 2]
SaoPaulo == [time |-> <<25, 9, 17, 13, 45, 30>>, satellites |-> 9, lat |-> -42390900,
             lon |-> -83939940, speed |-> 804, course |-> 344, valid |-> TRUE]
\* The corner of the globe, faster than a byte, with more satellites than a nibble.
Corner == [SaoPaulo EXCEPT !.lat = 162000000, !.lon = 324000000, !.speed = 3000,
                           !.course = 0, !.satellites = 40, !.valid = FALSE]

Percent == <<16, 33, 50, 66, 83, 100, 100>>
Stated(m, s) == [m EXCEPT !.relay = s.relay, !.acc = s.acc, !.battery = Percent[s.battery]]
Located(m, f) == [m EXCEPT !.located = TRUE, !.time = f.time, !.lat = f.lat, !.lon = f.lon,
                           !.speed = IF f.speed > 2550 THEN 255000 ELSE 1000 * (f.speed \div 10),
                           !.heading = f.course, !.valid = f.valid]
\* The acknowledgement names the type and the serial number it answers.
Acked(m, typ, serial) == [m EXCEPT !.ack = GT06!buildFrame(typ, <<>>, serial)]

Login == Item(GT06!BuildLoginFrame(Imei, 1), <<Acked(Msg("LOGIN", Imei), 1, 1)>>, TRUE)
Beat(s) == Item(GT06!BuildHeartbeatFrame(s, 2), <<Acked(Stated(Msg("HEARTBEAT", Imei), s), 19, 2)>>, TRUE)
Place(f, s) == Item(GT06!BuildPositionFrame(f, s, 3), <<Located(Stated(Msg("POSITION", Imei), s), f)>>, TRUE)
Sos == Item(GT06!BuildAlarmFrame(SaoPaulo, Driving, 1, 258),
            <<Acked([Located(Stated(Msg("ALARM", Imei), Driving), SaoPaulo) EXCEPT !.alarm = "SOS"], 22, 258)>>, TRUE)
\* The text looks like the start of a frame: "xx" is 78 78.
Reply == Item(GT06!BuildCommandReply(66051, GT06!Ascii("DYD=xx"), 5),
              <<[Msg("COMMAND_ACK", Imei) EXCEPT !.key = 66051, !.response = GT06!Ascii("DYD=xx")]>>, TRUE)
Clock == Item(GT06!buildFrame(138, <<>>, 6),
              <<[Msg("OTHER", Imei) EXCEPT !.ack = GT06!buildFrame(138, <<0, 0, 0, 0, 0, 0>>, 6)]>>, TRUE)
\* A frame with a length of two bytes, of a type the server does not read.
LongBody == <<0, 6, 148, 7, 0, 7>>
Long == Item(<<121, 121>> \o LongBody \o GT06!Bytes16(GT06!crcITU(LongBody)) \o <<13, 10>>,
             <<Msg("OTHER", Imei)>>, TRUE)

\* Framed, and refused by the decoder.
BadSum == Item(ReplaceAt(Beat(Parked).bytes, 5, 0), <<>>, TRUE)
BadDate == Item(GT06!BuildPositionFrame([SaoPaulo EXCEPT !.time[2] = 13], Parked, 3), <<>>, TRUE)
OffGlobe == Item(GT06!BuildPositionFrame([SaoPaulo EXCEPT !.lat = 162000001], Parked, 3), <<>>, TRUE)
\* Noise between frames, and frames that lie about their length.
Hiss == Item(<<1, 121, 120, 2>>, <<>>, TRUE)
TooShort == Item(<<120, 120, 4, 1, 13, 10>>, <<>>, TRUE)
Half == Item(<<120>>, <<>>, FALSE)
NoStop == Item(ReplaceAt(Beat(Parked).bytes, 14, 0), <<>>, FALSE)
Greedy == Item(<<120, 120, 30, 19>>, <<>>, FALSE)

\* Announces 4096 bytes.
Boast == Item(<<121, 121, 16, 0>>, <<>>, FALSE)

Gt06Streams ==
  {<<Login, a, b>> : a \in {Beat(Driving), Sos, Reply, Clock, Long, BadSum, BadDate, OffGlobe,
                            Hiss, TooShort, Half, NoStop, Greedy},
                     b \in {Beat(Parked), Place(SaoPaulo, Driving)}}
  \cup {<<Login, Place(Corner, Parked), Reply>>, <<Login, Hiss, Half>>,
        <<Login, Boast>> \o [i \in 1..4 |-> Place(SaoPaulo, Driving)]}

-----------------------------------------------------------------------------
\* An H02 device: the first 29 bytes of a captured TK905 frame, and text.
Short == H02P!Ascii("5905101893")
Melbourne ==
  Item(<<36, 89, 5, 16, 24, 147, 3, 20, 55, 16, 17, 33, 55, 87, 50, 80, 2, 20, 80, 55, 7, 106,
         0, 3, 68, 255, 127, 251, 255>>,
       <<[Msg("POSITION", Short) EXCEPT
            !.located = TRUE, !.valid = TRUE, !.time = <<21, 11, 10, 3, 14, 37>>,
            !.lat = -(37 * 1800000 + 573250 * 3), !.lon = 145 * 1800000 + 37076 * 3,
            !.heading = 344, !.acc = FALSE, !.battery = 10]>>, TRUE)
Htbt == Item(H02P!Ascii("*HQ,5905101893,HTBT,87#"),
             <<[Msg("HEARTBEAT", Short) EXCEPT !.battery = 87]>>, TRUE)
V4 == Item(H02P!Ascii("*HQ,5905101893,V4,S20,1#"),
           <<[Msg("COMMAND_ACK", Short) EXCEPT !.response = H02P!Ascii("S20,1")]>>, TRUE)
V1 == Item(H02P!Ascii("*HQ,5905101893,V1,134530,A,2332.5000,S,04638.0000,W,010.00,090,170926,FFFFFBFF#"),
           <<[Msg("POSITION", Short) EXCEPT
                !.located = TRUE, !.valid = TRUE, !.time = <<26, 9, 17, 13, 45, 30>>,
                !.lat = -(23 * 1800000 + 325000 * 3), !.lon = -(46 * 1800000 + 380000 * 3),
                !.speed = 18520, !.heading = 90, !.acc = FALSE]>>, TRUE)
\* Half a degree to the east.
Ringwood == [Melbourne EXCEPT !.bytes[19] = 83, !.says[1].lon = 145 * 1800000 + 337076 * 3]
NotBCD == Item(ReplaceAt(Melbourne.bytes, 12, 250), <<>>, TRUE)
Junk == Item(<<13, 10, 32>>, <<>>, TRUE)

H02Streams == {<<a, b>> : a \in {Melbourne, Htbt, NotBCD}, b \in {Ringwood, V4, V1}}
              \cup {<<Melbourne, Junk, Htbt>>}

-----------------------------------------------------------------------------
\* A TKSTAR device.
Hello == Item(TK!Ascii("##,imei:869247061234567,A;"),
              <<[Msg("LOGIN", Imei) EXCEPT !.ack = TK!Ascii("LOAD")]>>, TRUE)
Alive == Item(TK!Ascii("869247061234567;"),
              <<[Msg("HEARTBEAT", Imei) EXCEPT !.ack = TK!Ascii("ON")]>>, TRUE)
Help == Item(TK!Ascii("imei:869247061234567,help me;"),
             <<[Msg("ALARM", Imei) EXCEPT !.alarm = "SOS"]>>, TRUE)
Cell == Item(TK!Ascii("imei:869247061234567,tracker,2509171345,,L,,,,,,,,;"),
             <<Msg("STATUS", Imei)>>, TRUE)
Track == Item(TK!Ascii("imei:869247061234567,acc on,2509171345,,F,134530.000,A,2332.5,S,04638.0,W,10,90;"),
              <<[Msg("POSITION", Imei) EXCEPT
                   !.located = TRUE, !.valid = TRUE, !.time = <<25, 9, 17, 13, 45, 30>>,
                   !.lat = -(23 * 1800000 + 325000 * 3), !.lon = -(46 * 1800000 + 380000 * 3),
                   !.speed = 18520, !.heading = 90, !.acc = TRUE]>>, TRUE)
SixtyMinutes ==
  Item(TK!Ascii("imei:869247061234567,tracker,2509171345,,F,,A,2360.0,S,04638.0,W,10,90;"), <<>>, TRUE)

TkstarStreams == {<<a, Junk, b>> : a \in {Hello, Alive}, b \in {Alive, Help, Cell, Track, SixtyMinutes}}
                 \cup {<<Track, Alive>>}

-----------------------------------------------------------------------------
AllStreams == Gt06Streams \cup H02Streams \cup TkstarStreams
=============================================================================
