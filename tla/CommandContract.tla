--------------------------- MODULE CommandContract ---------------------------
(***************************************************************************)
(* What the command service promises to an operator, without the database  *)
(* statements and goroutines that keep the promise.  A command is opened   *)
(* or refused, may go out on the device's connection once, and gets one    *)
(* outcome.  Only a reply of the device closes a command as ACKNOWLEDGED,  *)
(* a reply closes at most one command, a refused command never goes out    *)
(* and only a command that went out can expire.                            *)
(***************************************************************************)
CONSTANTS Cmds,      \* the commands that may be requested
          Replies    \* the replies the devices may send

VARIABLES outcome,   \* outcome[c]: "NONE", "OPEN" or how the command ended
          onWire,    \* onWire: the commands written to a connection
          used       \* used: the replies that have closed a command

contractVars == <<outcome, onWire, used>>

Outcomes == {"NONE", "OPEN", "ACKNOWLEDGED", "FAILED", "TIMEOUT", "REJECTED"}

ContractTypeOK ==
  /\ outcome \in [Cmds -> Outcomes]
  /\ onWire \subseteq Cmds
  /\ used \subseteq Replies

ContractInit ==
  /\ outcome = [c \in Cmds |-> "NONE"]
  /\ onWire = {}
  /\ used = {}

OpenCommand(c) ==
  /\ outcome[c] = "NONE"
  /\ outcome' = [outcome EXCEPT ![c] = "OPEN"]
  /\ UNCHANGED <<onWire, used>>

RefuseCommand(c) ==
  /\ outcome[c] = "NONE"
  /\ outcome' = [outcome EXCEPT ![c] = "REJECTED"]
  /\ UNCHANGED <<onWire, used>>

\* The payload goes out; a reply may have closed the command a moment before.
DeliverCommand(c) ==
  /\ outcome[c] \in {"OPEN", "ACKNOWLEDGED", "FAILED"}
  /\ c \notin onWire
  /\ onWire' = onWire \cup {c}
  /\ UNCHANGED <<outcome, used>>

CloseByReply(c, r) ==
  /\ outcome[c] = "OPEN"
  /\ r \notin used
  /\ \E end \in {"ACKNOWLEDGED", "FAILED"} :
        outcome' = [outcome EXCEPT ![c] = end]
  /\ used' = used \cup {r}
  /\ UNCHANGED onWire

\* The write failed: nothing went out and nothing will.
CloseUnsent(c) ==
  /\ outcome[c] = "OPEN"
  /\ c \notin onWire
  /\ outcome' = [outcome EXCEPT ![c] = "FAILED"]
  /\ UNCHANGED <<onWire, used>>

\* One sweep of the worker expires any number of commands at once.
ExpireCommands(S) ==
  /\ S # {}
  /\ \A c \in S : outcome[c] = "OPEN" /\ c \in onWire
  /\ outcome' = [c \in Cmds |-> IF c \in S THEN "TIMEOUT" ELSE outcome[c]]
  /\ UNCHANGED <<onWire, used>>

ContractNext ==
  \/ \E c \in Cmds : \/ OpenCommand(c)
                     \/ RefuseCommand(c)
                     \/ DeliverCommand(c)
                     \/ CloseUnsent(c)
                     \/ \E r \in Replies : CloseByReply(c, r)
  \/ \E S \in SUBSET Cmds : ExpireCommands(S)

ContractSpec == ContractInit /\ [][ContractNext]_contractVars
=============================================================================
