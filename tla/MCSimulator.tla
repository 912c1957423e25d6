---------------------------- MODULE MCSimulator -----------------------------
(* A vehicle that moves just above the limit of the relay.  The run sends a  *)
(* cut as an override in small letters, which the device obeys without       *)
(* reporting it, and a request for the position; the codec is evaluated for  *)
(* a resume and for an interval the encoder refuses, too.                    *)
EXTENDS SimulatorCodec

Command(type, raw, value, text, upper) ==
  [request |-> [type |-> type, raw |-> raw, pwd |-> <<>>, value |-> value, host |-> <<>>],
   text |-> text, upper |-> upper]

Commands == <<Command("ENGINE_CUT", GT06!Ascii(" relay,1#"), Absent, "relay,1#", "RELAY,1#"),
              Command("ENGINE_RESUME", <<>>, Absent, "HFYD#", "HFYD#"),
              Command("REQUEST_POSITION", <<>>, Absent, "WHERE#", "WHERE#"),
              Command("SET_INTERVAL", <<>>, 2, "", "")>>

Moving == [acc |-> TRUE, speed |-> 204]
=============================================================================
