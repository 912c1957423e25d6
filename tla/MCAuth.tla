------------------------------- MODULE MCAuth -------------------------------
(* Two tabs of one browser.  The user logs in and out in the first; the     *)
(* second is opened with the session the first one stored, and reloaded.    *)
EXTENDS Auth, TLC

CONSTANTS t1, t2

Nothing == [a \in Calls \cup {"load", "login", "logout"} |-> 0]

\* A user who asks for a list, logs out and logs in again.
UserBudget == t1 :> [Nothing EXCEPT !["list"] = 1, !["login"] = 2, !["logout"] = 1]
              @@ t2 :> [Nothing EXCEPT !["load"] = 2]
====
