----------------------------- MODULE MCEngineCut -----------------------------
(* Small instances of EngineCut for TLC.                                   *)
EXTENDS EngineCut

\* The clock of the device may be slow, right or fast.
MCSkews == {-1, 0, 1}
=============================================================================
