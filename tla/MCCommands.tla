----------------------------- MODULE MCCommands -----------------------------
(* Small instances of Commands for TLC.                                    *)
EXTENDS Commands, TLC

\* Rows, replies and keys are interchangeable; devices are not (one has keys).
Symmetry == Permutations(Cmds) \cup Permutations(Replies) \cup Permutations(Keys)
=============================================================================
