------------------------------ MODULE Adapters ------------------------------
(* Wire over the adapters of internal/protocols.                             *)
EXTENDS Wire

CONSTANTS
  AckGPS,    \* GT06_ACK_GPS
  Capture,   \* TKSTAR_V4_CAPTURE
  Absent     \* a nil optional field

ASSUME FlagsAssumption == {AckGPS, Capture} \subseteq BOOLEAN

GT06 == INSTANCE Gt06
H02P == INSTANCE H02
TK == INSTANCE Tkstar

AdapterDetects(p, data) ==
  CASE p = "gt06" -> GT06!Detect(data)
    [] p = "h02" -> H02P!Detect(data)
    [] p \in {"tkstar_v1", "tkstar_v1_8"} -> TK!Detect(data)
    [] p = "tkstar_v4" -> TK!DetectV4(data)

AdapterParse(p, frame) ==
  CASE p = "gt06" -> GT06!Parse(frame)
    [] p = "h02" -> H02P!Parse(frame)
    [] p \in {"tkstar_v1", "tkstar_v1_8"} -> TK!Parse(frame, p = "tkstar_v1_8")
    [] p = "tkstar_v4" -> TK!ParseV4(frame)
=============================================================================
