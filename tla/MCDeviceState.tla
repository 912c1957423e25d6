--------------------------- MODULE MCDeviceState ---------------------------
(* A device with an ignition and a GSM flag, one fence.                    *)
EXTENDS DeviceState, TLC

Report(acc, gsm) == ("acc" :> acc) @@ ("gsm" :> gsm)

Overspeed == [of |-> "speeding", on |-> TRUE]
IgnitionOn == [of |-> "acc", on |-> TRUE]

\* A heartbeat with an ignition alarm, a fast position inside the fence with the
\* overspeed alarm, a slow one outside, and a position without a valid fix at a
\* speed between the limit and its hysteresis.
MCMessages ==
  {[flags |-> Report(TRUE, FALSE), located |-> FALSE, valid |-> FALSE,
    speed |-> 0, within |-> {}, alarm |-> IgnitionOn],
   [flags |-> Report(Nil, TRUE), located |-> TRUE, valid |-> TRUE,
    speed |-> 9, within |-> Fences, alarm |-> Overspeed],
   [flags |-> Report(FALSE, Nil), located |-> TRUE, valid |-> TRUE,
    speed |-> 4, within |-> {}, alarm |-> Nil],
   [flags |-> Report(TRUE, Nil), located |-> TRUE, valid |-> FALSE,
    speed |-> 6, within |-> {}, alarm |-> Nil]}

Symmetry == Permutations(Sessions)
=============================================================================
