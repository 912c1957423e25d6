------------------------------- MODULE MCHub --------------------------------
(* Two instances with a publisher each; the panels are at one of them, so   *)
(* they are served by its publisher and by its bridge at the same time.     *)
EXTENDS Hub

CONSTANTS A, B, p, q, ba, bb, c1

HomeDef == [x \in Clients \cup Publishers \cup Bridges |-> IF x \in {q, bb} THEN B ELSE A]

QuotaDef == [x \in Publishers |-> IF x = p THEN 2 ELSE 1]
=============================================================================
