------------------------------ MODULE Commands ------------------------------
(***************************************************************************)
(* The life of a remote command: commands.Service (Send, dispatch, reject, *)
(* HandleAck, SweepTimeouts) over the rows of device_commands, one action  *)
(* per SQL statement or socket write, so that API requests, the sessions   *)
(* that read the devices' replies, the sweeping worker and a crash of the  *)
(* process interleave wherever the code lets them.                         *)
(*                                                                         *)
(* A payload is left out (it is the command itself) and so are texts; an   *)
(* entry of log[c] stands for the audit row and the vehicle event that the *)
(* service records together, and the WebSocket publication that follows.   *)
(* Requests refused before a row exists (unknown type, device without a    *)
(* protocol, command the protocol cannot encode) change nothing.           *)
(***************************************************************************)
EXTENDS Naturals, FiniteSets

CONSTANTS Cmds,       \* rows of device_commands that may come to exist
          Devices,    \* device ids
          Keyed,      \* the devices whose protocol carries the key (GT06)
          Kinds,      \* command types that occur
          Keys,       \* correlation keys newCorrelationKey may draw
          Replies,    \* replies the devices may send
          NoKey,      \* key 0: the reply carries no correlation key
          NoCmd,      \* "no command": the empty result of a query
          NoReq,      \* a row that does not exist yet
          Server,     \* the author of entries no reply caused
          MaxFaults   \* how many crashes and failed statements happen

ASSUME CommandsAssumption ==
  /\ Keyed \subseteq Devices
  /\ NoKey \notin Keys
  /\ NoCmd \notin Cmds
  /\ Server \notin Replies
  /\ MaxFaults \in Nat
  /\ NoReq \notin [dev : Devices, kind : Kinds, key : Keys, at : Nat]

VARIABLES
  req,        \* req[c]: device, type, key and created_at of the row
  status,     \* status[c]: the status column
  timeoutAt,  \* timeoutAt[c]: the timeout_at column against the clock
  pc,         \* pc[c]: where the Send call that made the row is
  wrote,      \* wrote: the commands whose payload was written to a socket
  reply,      \* reply[r]: a reply and the HandleAck call that treats it
  expired,    \* rows a sweep has expired and not recorded yet
  log,        \* log[c]: what was audited about the command
  tick,       \* orders created_at
  faults      \* crashes and failed statements so far

vars == <<req, status, timeoutAt, pc, wrote, reply, expired, log, tick, faults>>

Request == [dev : Devices, kind : Kinds, key : Keys, at : Nat]

Terminal == {"ACKNOWLEDGED", "FAILED", "TIMEOUT", "REJECTED"}
Open == {"PENDING", "SENDING", "SENT"}
Status == {"NONE"} \cup Open \cup Terminal

\* Places of a Send call: the statement it will execute next, or its answer.
Running == {"created", "pending", "locked", "written", "unsent", "sent",
            "rejected"}
Answered == {"accepted", "refused", "error", "crashed"}
Place == {"idle"} \cup Running \cup Answered

Phase == {"none", "inflight", "found", "marked", "closed", "dropped"}
Reply == [phase : Phase, of : Cmds \cup {NoCmd}, ok : BOOLEAN,
          hit : Cmds \cup {NoCmd}, exact : BOOLEAN]

Entry == [what : {"REQUESTED", "SENT", "REJECTED", "RESULT"},
          result : Status, by : Replies \cup {Server}, exact : BOOLEAN]

TypeOK ==
  /\ req \in [Cmds -> Request \cup {NoReq}]
  /\ status \in [Cmds -> Status]
  /\ timeoutAt \in [Cmds -> {"null", "armed", "past"}]
  /\ pc \in [Cmds -> Place]
  /\ wrote \subseteq Cmds
  /\ reply \in [Replies -> Reply]
  /\ expired \subseteq Cmds
  /\ log \in [Cmds -> SUBSET Entry]
  /\ tick \in Nat
  /\ faults \in Nat

Init ==
  /\ req = [c \in Cmds |-> NoReq]
  /\ status = [c \in Cmds |-> "NONE"]
  /\ timeoutAt = [c \in Cmds |-> "null"]
  /\ pc = [c \in Cmds |-> "idle"]
  /\ wrote = {}
  /\ reply = [r \in Replies |-> [phase |-> "none", of |-> NoCmd, ok |-> FALSE,
                                 hit |-> NoCmd, exact |-> FALSE]]
  /\ expired = {}
  /\ log = [c \in Cmds |-> {}]
  /\ tick = 0
  /\ faults = 0

-----------------------------------------------------------------------------
(* The repository: the updates of device_commands and the two queries.     *)

ToSending(s) == s = "PENDING"                       \* WHERE of MarkSending
ToSent(s) == s \in {"PENDING", "SENDING"}           \* WHERE of MarkSent
\* Defect: the ACK overwrites any outcome.
ToAcknowledgedAny(s) == s # "REJECTED"
ToAcknowledged(s) == s \in Open                     \* WHERE of MarkAcknowledged
\* Defect: a failure overwrites any outcome.
ToFinalAny(s) == s # "REJECTED"
ToFinal(s) == s \notin Terminal                     \* WHERE of MarkFinal

Rows == {c \in Cmds : status[c] # "NONE"}

FindOpenByCorrelation(d, k) ==
  LET S == {c \in Rows : req[c].dev = d /\ req[c].key = k /\ status[c] \in Open}
  IN {c \in S : \A x \in S : req[x].at <= req[c].at}

FindOldestOpen(d) ==
  LET S == {c \in Rows : req[c].dev = d /\ status[c] \in {"SENDING", "SENT"}}
  IN {c \in S : \A x \in S : req[c].at <= req[x].at}

\* Defect: the sweep looks at the deadline alone.
TimedOutAnyStatus == {c \in Cmds : timeoutAt[c] = "past"}
TimedOut == {c \in Cmds : /\ status[c] \in {"SENDING", "SENT"}
                          /\ timeoutAt[c] = "past"}

Create(c, d, kind, key, s) ==
  /\ status[c] = "NONE"
  /\ req' = [req EXCEPT ![c] = [dev |-> d, kind |-> kind, key |-> key,
                                at |-> tick]]
  /\ status' = [status EXCEPT ![c] = s]
  /\ tick' = tick + 1

\* One best-effort record of what happened to c: audit, event, publication.
Record(c, what, result, by, exact) ==
  log' = [log EXCEPT ![c] = @ \cup {[what |-> what, result |-> result,
                                     by |-> by, exact |-> exact]}]

-----------------------------------------------------------------------------
(* Service.Send.  Whether an engine cut is safe is decided by the snapshot *)
(* (module EngineCut); here both verdicts are possible.                    *)

Reject(c) ==
  /\ pc[c] = "idle"
  /\ "ENGINE_CUT" \in Kinds
  /\ \E d \in Devices, k \in Keys : Create(c, d, "ENGINE_CUT", k, "REJECTED")
  /\ pc' = [pc EXCEPT ![c] = "rejected"]
  /\ UNCHANGED <<timeoutAt, wrote, reply, expired, log, faults>>

RecordRejection(c) ==
  /\ pc[c] = "rejected"
  /\ Record(c, "REJECTED", "REJECTED", Server, FALSE)
  /\ pc' = [pc EXCEPT ![c] = "refused"]
  /\ UNCHANGED <<req, status, timeoutAt, wrote, reply, expired, tick, faults>>

Accept(c) ==
  /\ pc[c] = "idle"
  /\ \E d \in Devices, kind \in Kinds, k \in Keys :
        Create(c, d, kind, k, "PENDING")
  /\ pc' = [pc EXCEPT ![c] = "created"]
  /\ UNCHANGED <<timeoutAt, wrote, reply, expired, log, faults>>

RecordRequest(c) ==
  /\ pc[c] = "created"
  /\ Record(c, "REQUESTED", "PENDING", Server, FALSE)
  /\ pc' = [pc EXCEPT ![c] = "pending"]
  /\ UNCHANGED <<req, status, timeoutAt, wrote, reply, expired, tick, faults>>

\* dispatch: lock the row; a row that is no longer PENDING ends the call.
MarkSending(c) ==
  /\ pc[c] = "pending"
  /\ \/ /\ ToSending(status[c])
        /\ status' = [status EXCEPT ![c] = "SENDING"]
        /\ pc' = [pc EXCEPT ![c] = "locked"]
     \/ /\ ~ToSending(status[c])
        /\ pc' = [pc EXCEPT ![c] = "error"]
        /\ UNCHANGED status
  /\ UNCHANGED <<req, timeoutAt, wrote, reply, expired, log, tick, faults>>

\* Defect: an error of the socket write is ignored.
WriteIgnoringError(c) ==
  /\ pc[c] = "locked"
  /\ wrote' \in {wrote, wrote \cup {c}}
  /\ pc' = [pc EXCEPT ![c] = "written"]
  /\ UNCHANGED <<req, status, timeoutAt, reply, expired, log, tick, faults>>

\* dispatch: sender.Send writes the whole payload, or returns an error.
Write(c) ==
  /\ pc[c] = "locked"
  /\ \/ /\ wrote' = wrote \cup {c}
        /\ pc' = [pc EXCEPT ![c] = "written"]
     \/ /\ pc' = [pc EXCEPT ![c] = "unsent"]
        /\ UNCHANGED wrote
  /\ UNCHANGED <<req, status, timeoutAt, reply, expired, log, tick, faults>>

\* Defect: a failed write leaves the row as it is.
MarkFailedNothing(c) ==
  /\ pc[c] = "unsent"
  /\ pc' = [pc EXCEPT ![c] = "accepted"]
  /\ UNCHANGED <<req, status, timeoutAt, wrote, reply, expired, log, tick, faults>>

\* dispatch: the write failed, close the row.
MarkFailed(c) ==
  /\ pc[c] = "unsent"
  /\ \/ /\ ToFinal(status[c])
        /\ status' = [status EXCEPT ![c] = "FAILED"]
        /\ pc' = [pc EXCEPT ![c] = "accepted"]
     \/ /\ ~ToFinal(status[c])
        /\ pc' = [pc EXCEPT ![c] = "error"]
        /\ UNCHANGED status
  /\ UNCHANGED <<req, timeoutAt, wrote, reply, expired, log, tick, faults>>

\* Defect: the deadline of the ACK is not stored.
MarkSentWithoutDeadline(c) ==
  /\ pc[c] = "written"
  /\ \/ /\ ToSent(status[c])
        /\ status' = [status EXCEPT ![c] = "SENT"]
        /\ pc' = [pc EXCEPT ![c] = "sent"]
     \/ /\ ~ToSent(status[c])
        /\ pc' = [pc EXCEPT ![c] = "error"]
        /\ UNCHANGED status
  /\ UNCHANGED <<req, timeoutAt, wrote, reply, expired, log, tick, faults>>

\* dispatch: the payload is out; start waiting for the ACK.
MarkSent(c) ==
  /\ pc[c] = "written"
  /\ \/ /\ ToSent(status[c])
        /\ status' = [status EXCEPT ![c] = "SENT"]
        /\ timeoutAt' = [timeoutAt EXCEPT ![c] = "armed"]
        /\ pc' = [pc EXCEPT ![c] = "sent"]
     \/ /\ ~ToSent(status[c])
        /\ pc' = [pc EXCEPT ![c] = "error"]
        /\ UNCHANGED <<status, timeoutAt>>
  /\ UNCHANGED <<req, wrote, reply, expired, log, tick, faults>>

RecordSent(c) ==
  /\ pc[c] = "sent"
  /\ Record(c, "SENT", "SENT", Server, FALSE)
  /\ pc' = [pc EXCEPT ![c] = "accepted"]
  /\ UNCHANGED <<req, status, timeoutAt, wrote, reply, expired, tick, faults>>

-----------------------------------------------------------------------------
(* The device, external: it may answer a command it was sent, with success *)
(* or not, more than once, late or never.                                  *)

DeviceReplies(r, c, ok) ==
  /\ reply[r].phase = "none"
  /\ c \in wrote
  /\ reply' = [reply EXCEPT
        ![r] = [@ EXCEPT !.phase = "inflight", !.of = c, !.ok = ok]]
  /\ UNCHANGED <<req, status, timeoutAt, pc, wrote, expired, log, tick, faults>>

(* Service.HandleAck, called by the session that read the reply.           *)

\* The key the reply carries; text protocols carry none.
KeyOf(r) ==
  LET q == req[reply[r].of] IN IF q.dev \in Keyed THEN q.key ELSE NoKey

\* The row HandleAck chooses: by key when there is one and it matches an
\* open row, otherwise the oldest open row of the device.
Candidates(r) ==
  LET d == req[reply[r].of].dev
      byKey == FindOpenByCorrelation(d, KeyOf(r))
  IN IF KeyOf(r) # NoKey /\ byKey # {} THEN byKey ELSE FindOldestOpen(d)

FindCommand(r) ==
  /\ reply[r].phase = "inflight"
  /\ \/ \E c \in Candidates(r) :
          reply' = [reply EXCEPT
            ![r] = [@ EXCEPT !.phase = "found", !.hit = c,
                             !.exact = (KeyOf(r) # NoKey)]]
     \/ /\ Candidates(r) = {}
        /\ reply' = [reply EXCEPT ![r].phase = "dropped"]
  /\ UNCHANGED <<req, status, timeoutAt, pc, wrote, expired, log, tick, faults>>

Ending(r) == IF reply[r].ok THEN "ACKNOWLEDGED" ELSE "FAILED"

\* The UPDATE of the row found: MarkAcknowledged, or MarkFinal with FAILED.
MarkResult(r) ==
  LET c == reply[r].hit
      matches == IF reply[r].ok THEN ToAcknowledged(status[c])
                                ELSE ToFinal(status[c])
  IN /\ reply[r].phase = "found"
     /\ \/ /\ matches
           /\ status' = [status EXCEPT ![c] = Ending(r)]
           /\ reply' = [reply EXCEPT ![r].phase = "marked"]
        \/ /\ ~matches
           /\ reply' = [reply EXCEPT ![r].phase = "dropped"]
           /\ UNCHANGED status
     /\ UNCHANGED <<req, timeoutAt, pc, wrote, expired, log, tick, faults>>

RecordResult(r) ==
  /\ reply[r].phase = "marked"
  /\ Record(reply[r].hit, "RESULT", Ending(r), r, reply[r].exact)
  /\ reply' = [reply EXCEPT ![r].phase = "closed"]
  /\ UNCHANGED <<req, status, timeoutAt, pc, wrote, expired, tick, faults>>

-----------------------------------------------------------------------------
(* The worker: SweepTimeouts, one goroutine that finishes a sweep before   *)
(* it starts the next.                                                     *)

DeadlinePasses(c) ==
  /\ timeoutAt[c] = "armed"
  /\ timeoutAt' = [timeoutAt EXCEPT ![c] = "past"]
  /\ UNCHANGED <<req, status, pc, wrote, reply, expired, log, tick, faults>>

ExpireTimedOut ==
  /\ expired = {}
  /\ TimedOut # {}
  /\ status' = [c \in Cmds |-> IF c \in TimedOut THEN "TIMEOUT" ELSE status[c]]
  /\ expired' = TimedOut
  /\ UNCHANGED <<req, timeoutAt, pc, wrote, reply, log, tick, faults>>

RecordExpired(c) ==
  /\ c \in expired
  /\ Record(c, "RESULT", "TIMEOUT", Server, FALSE)
  /\ expired' = expired \ {c}
  /\ UNCHANGED <<req, status, timeoutAt, pc, wrote, reply, tick, faults>>

-----------------------------------------------------------------------------
(* Faults.  An SQL statement fails, because the request was cancelled or   *)
(* the database is away (the socket write looks at neither).  A crash ends *)
(* every call; rows stay as they are.                                      *)

\* What follows a failed statement: recording is best effort and the call goes
\* on (after RecordRequest, only if the context is still alive), any other
\* failure ends it.
AfterFailure(p) ==
  CASE p = "created" -> {"pending", "error"}
    [] p = "sent" -> {"accepted"}
    [] p = "rejected" -> {"refused"}
    [] OTHER -> {"error"}

SendFails(c) ==
  /\ faults < MaxFaults
  /\ pc[c] \in Running \ {"locked"}
  /\ \E p \in AfterFailure(pc[c]) : pc' = [pc EXCEPT ![c] = p]
  /\ faults' = faults + 1
  /\ UNCHANGED <<req, status, timeoutAt, wrote, reply, expired, log, tick>>

\* A statement of HandleAck fails: the query by key falls back on the oldest
\* open row as if it had found none, the other two end the call.
AckFails(r) ==
  /\ faults < MaxFaults
  /\ \/ /\ reply[r].phase = "inflight"
        /\ KeyOf(r) # NoKey
        /\ \E c \in FindOldestOpen(req[reply[r].of].dev) :
             reply' = [reply EXCEPT
               ![r] = [@ EXCEPT !.phase = "found", !.hit = c, !.exact = TRUE]]
     \/ /\ reply[r].phase \in {"inflight", "found"}
        /\ reply' = [reply EXCEPT ![r].phase = "dropped"]
  /\ faults' = faults + 1
  /\ UNCHANGED <<req, status, timeoutAt, pc, wrote, expired, log, tick>>

\* Recording a result fails: HandleAck and SweepTimeouts log that and go on.
RecordFails ==
  /\ faults < MaxFaults
  /\ \/ /\ \E r \in Replies : /\ reply[r].phase = "marked"
                             /\ reply' = [reply EXCEPT ![r].phase = "closed"]
        /\ UNCHANGED expired
     \/ /\ \E c \in expired : expired' = expired \ {c}
        /\ UNCHANGED reply
  /\ faults' = faults + 1
  /\ UNCHANGED <<req, status, timeoutAt, pc, wrote, log, tick>>

Crash ==
  /\ faults < MaxFaults
  /\ pc' = [c \in Cmds |-> IF pc[c] \in Running THEN "crashed" ELSE pc[c]]
  /\ reply' = [r \in Replies |->
                 CASE reply[r].phase = "found" -> [reply[r] EXCEPT !.phase = "dropped"]
                   [] reply[r].phase = "marked" -> [reply[r] EXCEPT !.phase = "closed"]
                   [] OTHER -> reply[r]]
  /\ expired' = {}
  /\ faults' = faults + 1
  /\ UNCHANGED <<req, status, timeoutAt, wrote, log, tick>>

-----------------------------------------------------------------------------
SendStep(c) ==
  \/ RecordRejection(c) \/ RecordRequest(c) \/ MarkSending(c) \/ Write(c)
  \/ MarkFailed(c) \/ MarkSent(c) \/ RecordSent(c)

AckStep(r) == FindCommand(r) \/ MarkResult(r) \/ RecordResult(r)

Next ==
  \/ \E c \in Cmds : \/ Reject(c)
                     \/ Accept(c)
                     \/ SendStep(c)
                     \/ DeadlinePasses(c)
                     \/ RecordExpired(c)
                     \/ SendFails(c)
  \/ \E r \in Replies : \/ AckStep(r)
                        \/ AckFails(r)
                        \/ \E c \in Cmds, ok \in BOOLEAN : DeviceReplies(r, c, ok)
  \/ ExpireTimedOut
  \/ RecordFails
  \/ Crash

Spec == Init /\ [][Next]_vars

\* A running process goes on: Send calls execute their statements, time passes
\* and the ticker of runWorkers fires (main.go restarts nothing: after a crash
\* the container's restart policy brings the worker back).  Nothing is assumed
\* of operators, devices, faults, or of replies being read.
FairSpec ==
  /\ Spec
  /\ \A c \in Cmds : /\ WF_vars(SendStep(c))
                     /\ WF_vars(DeadlinePasses(c))
                     /\ WF_vars(RecordExpired(c))
  /\ WF_vars(ExpireTimedOut)

-----------------------------------------------------------------------------
(* Properties.                                                             *)

Results(c) == {e \in log[c] : e.what = "RESULT"}

Used == {r \in Replies : reply[r].phase \in {"marked", "closed"}}

\* However two replies, the sweep and the Send call race for a row, at most one
\* result of a command is ever audited and it is the status the row ends with
\* (HandleAck and SweepTimeouts audit only after their UPDATE matched).
OneOutcome ==
  \A c \in Cmds : \A e \in Results(c) :
     /\ e.result = status[c]
     /\ \A f \in Results(c) : f = e

\* An ACKNOWLEDGED row was closed by a successful reply of its own device to a
\* command that was really written, and no reply closes two rows nor two
\* replies one row (HandleAck's find and update are separate statements).
AcknowledgedByOneReply ==
  /\ \A c \in Cmds : status[c] = "ACKNOWLEDGED" =>
        \E r \in Used : /\ reply[r].hit = c
                        /\ reply[r].ok
                        /\ reply[r].of \in wrote
                        /\ req[reply[r].of].dev = req[c].dev
  /\ \A r, q \in Used : reply[r].hit = reply[q].hit => r = q

\* A request answered 202 whose row is not FAILED has put its payload on the
\* wire, and one answered 409 has not and never will (Send, dispatch, reject).
AnswerIsTrue ==
  \A c \in Cmds :
     /\ pc[c] = "accepted" /\ status[c] # "FAILED" => c \in wrote
     /\ pc[c] = "refused" => status[c] = "REJECTED" /\ c \notin wrote

-----------------------------------------------------------------------------
(* The inductive invariant behind OneOutcome, AcknowledgedByOneReply,      *)
(* AnswerIsTrue and KeepsContract.                                         *)

\* Where a Send call is tells what is on the row and on the wire.
SendInv ==
  \A c \in Cmds :
     /\ pc[c] = "idle" <=> status[c] = "NONE"
     /\ status[c] # "NONE" => req[c] \in Request
     /\ c \in wrote => status[c] \notin {"NONE", "PENDING", "REJECTED"}
     /\ timeoutAt[c] # "null" => c \in wrote
     /\ status[c] \in {"SENT", "TIMEOUT"} => timeoutAt[c] # "null"
     /\ pc[c] \in {"created", "pending", "locked", "unsent"} => c \notin wrote
     /\ pc[c] \in {"created", "pending", "locked", "unsent", "written"} =>
           timeoutAt[c] = "null"
     /\ pc[c] \in {"written", "sent"} => c \in wrote
     /\ pc[c] = "locked" => status[c] # "PENDING"
     /\ pc[c] = "accepted" => status[c] = "FAILED" \/ c \in wrote
     /\ pc[c] \in {"rejected", "refused"} => status[c] = "REJECTED"
     /\ status[c] = "REJECTED" =>
           pc[c] \in {"rejected", "refused", "error", "crashed"}
     /\ c \in expired => status[c] = "TIMEOUT"

\* A reply answers a written command; the row it found is its device's, and
\* the row it closed still has the ending it wrote, and no other reply's.
ReplyInv ==
  /\ \A r \in Replies :
       /\ reply[r].phase # "none" => reply[r].of \in wrote
       /\ reply[r].phase \in {"found", "marked", "closed"} =>
            /\ reply[r].hit \in Cmds
            /\ status[reply[r].hit] \notin {"NONE", "REJECTED"}
            /\ req[reply[r].of].dev = req[reply[r].hit].dev
       /\ r \in Used => status[reply[r].hit] = Ending(r)
  /\ \A r, q \in Used : reply[r].hit = reply[q].hit => r = q
  /\ \A c \in Cmds : status[c] = "ACKNOWLEDGED" =>
       \E r \in Used : reply[r].hit = c

\* A result in the log is the worker's about a row it expired, or that of a
\* reply whose call closed the row.
Backed(c, e) ==
  \/ /\ e = [what |-> "RESULT", result |-> "TIMEOUT", by |-> Server,
             exact |-> FALSE]
     /\ status[c] = "TIMEOUT"
  \/ /\ e.by \in Replies
     /\ reply[e.by].phase = "closed"
     /\ reply[e.by].hit = c
     /\ e = [what |-> "RESULT", result |-> Ending(e.by), by |-> e.by,
             exact |-> reply[e.by].exact]

LogInv == \A c \in Cmds : \A e \in Results(c) : Backed(c, e)

IInv == TypeOK /\ SendInv /\ ReplyInv /\ LogInv

-----------------------------------------------------------------------------
Contract == INSTANCE CommandContract WITH
  outcome <- [c \in Cmds |-> IF status[c] \in Open THEN "OPEN" ELSE status[c]],
  onWire <- wrote,
  used <- Used

\* The service keeps the contract: statement by statement, whatever
\* interleaves, every row is opened once, goes out at most once and gets one
\* outcome of the kind the contract allows.
KeepsContract == Contract!ContractSpec

\* A command that was sent is closed even if the process crashes: its deadline
\* is on the row, so the sweep of a later process finds it (ExpireTimedOut).
SentCloses ==
  \A c \in Cmds : status[c] = "SENT" ~> status[c] \in Terminal

\* Without a crash or a failed statement every command that was requested
\* ends, whether the write fails, the device answers or it stays silent.
FaultFreeCloses ==
  [](faults = 0) => \A c \in Cmds : status[c] \in Open ~> status[c] \in Terminal
=============================================================================
