--------------------------- MODULE CommandsProofs ---------------------------
(***************************************************************************)
(* Proofs about Commands for any number of rows, devices, keys, replies    *)
(* and faults, and about the safety rule it asks before a cut, EngineCut,  *)
(* for every limit, clock error and number of positions.                   *)
(***************************************************************************)
EXTENDS Commands, EngineCut, TLAPS

\* The rows the two queries of HandleAck return are rows of the device of the
\* reply, still open when the query runs.
LEMMA CandidatesAreOpenRows ==
  ASSUME NEW r \in Replies, NEW c \in Candidates(r)
  PROVE  /\ c \in Cmds
         /\ status[c] \in Open
         /\ req[c].dev = req[reply[r].of].dev
BY DEF Candidates, FindOpenByCorrelation, FindOldestOpen, Rows, Open

\* What the queries of HandleAck do to the replies, failing or not: r has found
\* an open row of its device or is dropped.
Matched(r) ==
  /\ reply' \in [Replies -> Reply]
  /\ \A q \in Replies : q # r => reply'[q] = reply[q]
  /\ reply'[r].phase \in {"found", "dropped"}
  /\ reply'[r].phase = "found" => /\ reply'[r].hit \in Cmds
                                 /\ status[reply'[r].hit] \in Open
                                 /\ req[reply'[r].hit].dev = req[reply[r].of].dev
  /\ reply'[r].of = reply[r].of

\* Dropping a reply.
LEMMA DropMatches ==
  ASSUME TypeOK, NEW r \in Replies, reply' = [reply EXCEPT ![r].phase = "dropped"]
  PROVE  Matched(r)
BY DEF Matched, TypeOK, Reply, Phase

\* Giving a reply an open row of its device.
LEMMA HitMatches ==
  ASSUME TypeOK, NEW r \in Replies, NEW c \in Cmds, NEW exact \in BOOLEAN,
         status[c] \in Open, req[c].dev = req[reply[r].of].dev,
         reply' = [reply EXCEPT ![r] =
           [@ EXCEPT !.phase = "found", !.hit = c, !.exact = exact]]
  PROVE  Matched(r)
<1> DEFINE y == [reply[r] EXCEPT !.phase = "found", !.hit = c, !.exact = exact]
<1>1. reply[r] \in Reply
  BY DEF TypeOK
<1>2. y \in Reply /\ y.phase = "found" /\ y.hit = c /\ y.of = reply[r].of
  BY <1>1 DEF Reply, Phase
<1>3. reply' = [reply EXCEPT ![r] = y]
  OBVIOUS
<1> HIDE DEF y
<1>4. QED
  BY <1>2, <1>3 DEF TypeOK, Matched

\* The queries that succeed.
LEMMA FindMatches ==
  ASSUME TypeOK, NEW r \in Replies, FindCommand(r)
  PROVE  Matched(r) /\ reply[r].phase = "inflight"
<1>1. ASSUME NEW c \in Candidates(r), NEW exact \in BOOLEAN,
             reply' = [reply EXCEPT ![r] =
               [@ EXCEPT !.phase = "found", !.hit = c, !.exact = exact]]
      PROVE  Matched(r)
  <2>1. c \in Cmds /\ status[c] \in Open /\ req[c].dev = req[reply[r].of].dev
    BY CandidatesAreOpenRows
  <2>2. QED
    BY <1>1, <2>1, HitMatches
<1>2. ASSUME reply' = [reply EXCEPT ![r].phase = "dropped"] PROVE Matched(r)
  BY <1>2, DropMatches
<1>3. (KeyOf(r) # NoKey) \in BOOLEAN
  OBVIOUS
<1>4. QED
  BY <1>1, <1>2, <1>3 DEF FindCommand

\* The queries of which one fails.
LEMMA FailMatches ==
  ASSUME TypeOK, NEW r \in Replies, AckFails(r)
  PROVE  Matched(r) /\ reply[r].phase \in {"inflight", "found"}
<1>1. ASSUME NEW c \in FindOldestOpen(req[reply[r].of].dev),
             reply' = [reply EXCEPT ![r] =
               [@ EXCEPT !.phase = "found", !.hit = c, !.exact = TRUE]]
      PROVE  Matched(r)
  <2>1. c \in Cmds /\ status[c] \in Open /\ req[c].dev = req[reply[r].of].dev
    BY DEF FindOldestOpen, Rows, Open
  <2>2. TRUE \in BOOLEAN
    OBVIOUS
  <2>3. QED
    BY <1>1, <2>1, <2>2, HitMatches
<1>2. ASSUME reply' = [reply EXCEPT ![r].phase = "dropped"] PROVE Matched(r)
  BY <1>2, DropMatches
<1>3. QED
  BY <1>1, <1>2 DEF AckFails

\* The queries change no other variable, except the count of faults.
LEMMA QueriesOnlyRead ==
  ASSUME NEW r, FindCommand(r) \/ AckFails(r)
  PROVE  /\ UNCHANGED <<req, status, timeoutAt, pc, wrote, expired, log, tick>>
         /\ faults' = faults \/ faults' = faults + 1
<1>1. CASE FindCommand(r)
  BY <1>1, Zenon DEF FindCommand
<1>2. CASE AckFails(r)
  BY <1>2, Zenon DEF AckFails
<1>3. QED
  BY <1>1, <1>2

\* A record keeps the type of the log.
LEMMA RecordType ==
  ASSUME log \in [Cmds -> SUBSET Entry],
         NEW c, NEW what \in {"REQUESTED", "SENT", "REJECTED", "RESULT"},
         NEW result \in Status, NEW by \in Replies \cup {Server},
         NEW exact \in BOOLEAN,
         Record(c, what, result, by, exact)
  PROVE  log' \in [Cmds -> SUBSET Entry]
<1> DEFINE e == [what |-> what, result |-> result, by |-> by, exact |-> exact]
<1>1. e \in Entry
  BY DEF Entry
<1>2. log' = [log EXCEPT ![c] = @ \cup {e}]
  BY DEF Record
<1> HIDE DEF e
<1>3. QED
  BY <1>1, <1>2

\* A reply that changes its phase stays a reply.
LEMMA PhaseType ==
  ASSUME TypeOK, NEW r \in Replies, NEW p \in Phase,
         reply' = [reply EXCEPT ![r].phase = p]
  PROVE  reply' \in [Replies -> Reply]
<1> DEFINE y == [reply[r] EXCEPT !.phase = p]
<1>1. reply[r] \in Reply
  BY DEF TypeOK
<1>2. y \in Reply
  BY <1>1 DEF Reply
<1>3. reply' = [reply EXCEPT ![r] = y]
  OBVIOUS
<1> HIDE DEF y
<1>4. QED
  BY <1>2, <1>3 DEF TypeOK

\* A reply that the device sends is one.
LEMMA SentType ==
  ASSUME TypeOK, NEW r \in Replies, NEW c \in Cmds, NEW ok \in BOOLEAN,
         DeviceReplies(r, c, ok)
  PROVE  reply' \in [Replies -> Reply]
<1> DEFINE y == [reply[r] EXCEPT !.phase = "inflight", !.of = c, !.ok = ok]
<1>1. reply[r] \in Reply
  BY DEF TypeOK
<1>2. y \in Reply
  BY <1>1 DEF Reply, Phase
<1>3. reply' = [reply EXCEPT ![r] = y]
  BY DEF DeviceReplies
<1> HIDE DEF y
<1>4. QED
  BY <1>2, <1>3 DEF TypeOK

\* Type correctness of one step, action by action.
LEMMA TypeStep == TypeOK /\ [Next]_vars => TypeOK'
<1> SUFFICES ASSUME TypeOK, [Next]_vars PROVE TypeOK'
  OBVIOUS
<1> USE CommandsAssumption DEF TypeOK, Status, Open, Terminal, Place, Running, Answered
<1>1. ASSUME NEW c \in Cmds, Reject(c) PROVE TypeOK'
  BY <1>1 DEF Reject, Create, Request
<1>2. ASSUME NEW c \in Cmds, Accept(c) PROVE TypeOK'
  BY <1>2 DEF Accept, Create, Request
<1>3. ASSUME NEW c \in Cmds, RecordRejection(c) PROVE TypeOK'
  BY <1>3, RecordType DEF RecordRejection
<1>4. ASSUME NEW c \in Cmds, RecordRequest(c) PROVE TypeOK'
  BY <1>4, RecordType DEF RecordRequest
<1>5. ASSUME NEW c \in Cmds, MarkSending(c) PROVE TypeOK'
  BY <1>5 DEF MarkSending
<1>6. ASSUME NEW c \in Cmds, Write(c) PROVE TypeOK'
  BY <1>6 DEF Write
<1>7. ASSUME NEW c \in Cmds, MarkFailed(c) PROVE TypeOK'
  BY <1>7 DEF MarkFailed
<1>8. ASSUME NEW c \in Cmds, MarkSent(c) PROVE TypeOK'
  BY <1>8 DEF MarkSent
<1>9. ASSUME NEW c \in Cmds, RecordSent(c) PROVE TypeOK'
  BY <1>9, RecordType DEF RecordSent
<1>10. ASSUME NEW c \in Cmds, DeadlinePasses(c) PROVE TypeOK'
  BY <1>10 DEF DeadlinePasses
<1>11. ASSUME NEW c \in Cmds, RecordExpired(c) PROVE TypeOK'
  BY <1>11, RecordType DEF RecordExpired
<1>12. ASSUME NEW c \in Cmds, SendFails(c) PROVE TypeOK'
  BY <1>12 DEF SendFails, AfterFailure
<1>13. ASSUME NEW r \in Replies, FindCommand(r) \/ AckFails(r) PROVE TypeOK'
  <2>1. reply' \in [Replies -> Reply]
    BY <1>13, FindMatches, FailMatches DEF Matched
  <2>2. QED
    BY <1>13, <2>1, QueriesOnlyRead
<1>14. ASSUME NEW r \in Replies, MarkResult(r) PROVE TypeOK'
  <2>1. {"marked", "dropped"} \subseteq Phase
    BY DEF Phase
  <2>2. \E p \in {"marked", "dropped"} : reply' = [reply EXCEPT ![r].phase = p]
    BY <1>14 DEF MarkResult
  <2>3. reply' \in [Replies -> Reply]
    BY <2>1, <2>2, PhaseType
  <2>4. QED
    BY <1>14, <2>3 DEF MarkResult, Ending
<1>15. ASSUME NEW r \in Replies, RecordResult(r) PROVE TypeOK'
  <2>1. reply[r].exact \in BOOLEAN
    BY DEF Reply
  <2>0. Ending(r) \in Status
    BY DEF Ending
  <2>2. log' \in [Cmds -> SUBSET Entry]
    <3> DEFINE e == [what |-> "RESULT", result |-> Ending(r), by |-> r,
                     exact |-> reply[r].exact]
    <3>1. e \in Entry
      BY <2>0, <2>1 DEF Entry
    <3>2. log' = [log EXCEPT ![reply[r].hit] = @ \cup {e}]
      BY <1>15 DEF RecordResult, Record
    <3> HIDE DEF e
    <3>3. QED
      BY <3>1, <3>2
  <2>3. reply' \in [Replies -> Reply]
    <3>1. "closed" \in Phase
      BY DEF Phase
    <3>2. reply' = [reply EXCEPT ![r].phase = "closed"]
      BY <1>15 DEF RecordResult
    <3>3. QED
      BY <3>1, <3>2, PhaseType
  <2>4. QED
    BY <1>15, <2>2, <2>3 DEF RecordResult
<1>16. ASSUME NEW r \in Replies, NEW c \in Cmds, NEW ok \in BOOLEAN,
              DeviceReplies(r, c, ok)
       PROVE  TypeOK'
  <2>1. reply' \in [Replies -> Reply]
    BY <1>16, SentType
  <2>2. QED
    BY <1>16, <2>1 DEF DeviceReplies
<1>17. ASSUME ExpireTimedOut PROVE TypeOK'
  BY <1>17 DEF ExpireTimedOut, TimedOut
<1>18. ASSUME Crash PROVE TypeOK'
  BY <1>18 DEF Crash, Reply, Phase
<1>21. ASSUME RecordFails PROVE TypeOK'
  <2>1. "closed" \in Phase
    BY DEF Phase
  <2>2. \/ reply' = reply
        \/ \E r \in Replies : reply' = [reply EXCEPT ![r].phase = "closed"]
    BY <1>21 DEF RecordFails
  <2>3. reply' \in [Replies -> Reply]
    BY <2>1, <2>2, PhaseType
  <2>4. QED
    BY <1>21, <2>3 DEF RecordFails
<1>19. ASSUME UNCHANGED vars PROVE TypeOK'
  BY <1>19 DEF vars
<1>20. QED
  BY <1>1, <1>2, <1>3, <1>4, <1>5, <1>6, <1>7, <1>8, <1>9, <1>10, <1>11, <1>12,
     <1>13, <1>14, <1>15, <1>16, <1>17, <1>18, <1>19, <1>21 DEF Next, SendStep, AckStep

\* Every variable keeps its type in every behaviour of the command service.
THEOREM TypeCorrect == Spec => []TypeOK
<1>1. Init => TypeOK
  BY CommandsAssumption DEF Init, TypeOK, Status, Open, Terminal, Place,
     Running, Answered, Reply, Phase
<1>2. QED
  BY <1>1, TypeStep, PTL DEF Spec

\* SendInv: the place of a Send call, its row and the wire stay consistent.
LEMMA SendStepInv == IInv /\ [Next]_vars => SendInv'
<1> SUFFICES ASSUME IInv, [Next]_vars PROVE SendInv'
  OBVIOUS
<1>0. TypeOK'
  BY TypeStep DEF IInv
<1> USE <1>0, CommandsAssumption DEF IInv, TypeOK, SendInv, Status, Open, Terminal, Place,
    Running, Answered
<1>1. ASSUME NEW c \in Cmds, Reject(c) PROVE SendInv'
  BY <1>1 DEF Reject, Create, Request
<1>2. ASSUME NEW c \in Cmds, Accept(c) PROVE SendInv'
  BY <1>2 DEF Accept, Create, Request
<1>3. ASSUME NEW c \in Cmds, RecordRejection(c) PROVE SendInv'
  BY <1>3 DEF RecordRejection
<1>4. ASSUME NEW c \in Cmds, RecordRequest(c) PROVE SendInv'
  BY <1>4 DEF RecordRequest
<1>5. ASSUME NEW c \in Cmds, MarkSending(c) PROVE SendInv'
  BY <1>5 DEF MarkSending, ToSending
<1>6. ASSUME NEW c \in Cmds, Write(c) PROVE SendInv'
  BY <1>6 DEF Write
<1>7. ASSUME NEW c \in Cmds, MarkFailed(c) PROVE SendInv'
  BY <1>7 DEF MarkFailed, ToFinal
<1>8. ASSUME NEW c \in Cmds, MarkSent(c) PROVE SendInv'
  BY <1>8 DEF MarkSent, ToSent
<1>9. ASSUME NEW c \in Cmds, RecordSent(c) PROVE SendInv'
  BY <1>9 DEF RecordSent
<1>10. ASSUME NEW c \in Cmds, DeadlinePasses(c) PROVE SendInv'
  BY <1>10 DEF DeadlinePasses
<1>11. ASSUME NEW c \in Cmds, RecordExpired(c) PROVE SendInv'
  BY <1>11 DEF RecordExpired
<1>12. ASSUME NEW c \in Cmds, SendFails(c) PROVE SendInv'
  BY <1>12 DEF SendFails, AfterFailure
<1>13. ASSUME NEW r \in Replies, FindCommand(r) \/ AckFails(r) PROVE SendInv'
  BY <1>13 DEF FindCommand, AckFails
<1>14. ASSUME NEW r \in Replies, MarkResult(r) PROVE SendInv'
  BY <1>14 DEF MarkResult, ReplyInv, Ending, ToAcknowledged, ToFinal
<1>15. ASSUME NEW r \in Replies, RecordResult(r) PROVE SendInv'
  BY <1>15 DEF RecordResult
<1>16. ASSUME NEW r \in Replies, NEW c \in Cmds, NEW ok \in BOOLEAN,
              DeviceReplies(r, c, ok)
       PROVE  SendInv'
  BY <1>16 DEF DeviceReplies
<1>17. ASSUME ExpireTimedOut PROVE SendInv'
  BY <1>17 DEF ExpireTimedOut, TimedOut
<1>18. ASSUME Crash PROVE SendInv'
  BY <1>18 DEF Crash
<1>21. ASSUME RecordFails PROVE SendInv'
  BY <1>21 DEF RecordFails
<1>19. ASSUME UNCHANGED vars PROVE SendInv'
  BY <1>19 DEF vars
<1>20. QED
  BY <1>1, <1>2, <1>3, <1>4, <1>5, <1>6, <1>7, <1>8, <1>9, <1>10, <1>11, <1>12,
     <1>13, <1>14, <1>15, <1>16, <1>17, <1>18, <1>19, <1>21 DEF Next, SendStep, AckStep

\* ReplyInv: what a HandleAck call found and closed stays true under every step.
LEMMA ReplyStepInv == IInv /\ [Next]_vars => ReplyInv'
<1> SUFFICES ASSUME IInv, [Next]_vars PROVE ReplyInv'
  OBVIOUS
<1>0. TypeOK' /\ SendInv'
  BY TypeStep, SendStepInv DEF IInv
<1> USE <1>0, CommandsAssumption DEF IInv, TypeOK, SendInv, ReplyInv, Used, Ending, Status, Open, Terminal,
    Reply, Phase
<1>1. ASSUME NEW c \in Cmds, Reject(c) PROVE ReplyInv'
  BY <1>1 DEF Reject, Create, Request
<1>2. ASSUME NEW c \in Cmds, Accept(c) PROVE ReplyInv'
  BY <1>2 DEF Accept, Create, Request
<1>3. ASSUME NEW c \in Cmds, RecordRejection(c) PROVE ReplyInv'
  BY <1>3 DEF RecordRejection
<1>4. ASSUME NEW c \in Cmds, RecordRequest(c) PROVE ReplyInv'
  BY <1>4 DEF RecordRequest
<1>5. ASSUME NEW c \in Cmds, MarkSending(c) PROVE ReplyInv'
  BY <1>5 DEF MarkSending, ToSending
<1>6. ASSUME NEW c \in Cmds, Write(c) PROVE ReplyInv'
  BY <1>6 DEF Write
<1>7. ASSUME NEW c \in Cmds, MarkFailed(c) PROVE ReplyInv'
  BY <1>7 DEF MarkFailed, ToFinal
<1>8. ASSUME NEW c \in Cmds, MarkSent(c) PROVE ReplyInv'
  BY <1>8 DEF MarkSent, ToSent
<1>9. ASSUME NEW c \in Cmds, RecordSent(c) PROVE ReplyInv'
  BY <1>9 DEF RecordSent
<1>10. ASSUME NEW c \in Cmds, DeadlinePasses(c) PROVE ReplyInv'
  BY <1>10 DEF DeadlinePasses
<1>11. ASSUME NEW c \in Cmds, RecordExpired(c) PROVE ReplyInv'
  BY <1>11 DEF RecordExpired
<1>12. ASSUME NEW c \in Cmds, SendFails(c) PROVE ReplyInv'
  BY <1>12 DEF SendFails
<1>13. ASSUME NEW r \in Replies, FindCommand(r) \/ AckFails(r) PROVE ReplyInv'
  <2>1. /\ \A q \in Replies : q # r => reply'[q] = reply[q]
        /\ reply[r].phase \in {"inflight", "found"}
        /\ reply'[r].phase \in {"found", "dropped"}
        /\ reply'[r].of = reply[r].of
    BY <1>13, FindMatches, FailMatches DEF Matched
  <2>2. status' = status /\ req' = req /\ wrote' = wrote
    BY <1>13, QueriesOnlyRead, Zenon
  <2>3. Used' = Used
    <3>1. ASSUME NEW q \in Replies PROVE q \in Used' <=> q \in Used
      BY <2>1
    <3>2. QED
      BY <3>1
  <2>4. reply'[r].phase = "found" =>
          /\ reply'[r].hit \in Cmds
          /\ status[reply'[r].hit] \notin {"NONE", "REJECTED"}
          /\ req[reply[r].of].dev = req[reply'[r].hit].dev
    BY <1>13, FindMatches, FailMatches DEF Matched
  <2>5. \A q \in Used : Ending(q)' = Ending(q)
    BY <2>1
  <2>6. \A q \in Replies :
          /\ reply'[q].phase # "none" => reply'[q].of \in wrote'
          /\ reply'[q].phase \in {"found", "marked", "closed"} =>
               /\ reply'[q].hit \in Cmds
               /\ status'[reply'[q].hit] \notin {"NONE", "REJECTED"}
               /\ req'[reply'[q].of].dev = req'[reply'[q].hit].dev
    BY <2>1, <2>2, <2>4
  <2>7. \A q \in Used : q # r /\ q \in Replies /\ reply'[q] = reply[q]
    BY <2>1
  <2>8. /\ \A q \in Used' : status'[reply'[q].hit] = Ending(q)'
        /\ \A q, p \in Used' : reply'[q].hit = reply'[p].hit => q = p
        /\ \A c \in Cmds : status'[c] = "ACKNOWLEDGED" =>
              \E q \in Used' : reply'[q].hit = c
    <3> HIDE DEF Used, Ending
    <3>1. QED
      BY <2>2, <2>3, <2>5, <2>7
  <2>9. QED
    BY <2>6, <2>8
<1>14. ASSUME NEW r \in Replies, MarkResult(r) PROVE ReplyInv'
  <2> DEFINE c == reply[r].hit
  <2>1. /\ reply[r].phase = "found" /\ c \in Cmds /\ reply[r].of \in wrote
        /\ UNCHANGED <<req, wrote>> /\ r \notin Used
    BY <1>14 DEF MarkResult
  <2>2. \A q \in Replies : /\ reply'[q].of = reply[q].of
                           /\ reply'[q].hit = reply[q].hit
                           /\ reply'[q].ok = reply[q].ok
                           /\ q # r => reply'[q] = reply[q]
    BY <1>14 DEF MarkResult
  <2>3. CASE UNCHANGED status /\ reply'[r].phase = "dropped"
    <3>1. \A q \in Replies : q \in Used' <=> q \in Used
      BY <2>1, <2>2, <2>3
    <3>2. QED
      BY <2>1, <2>2, <2>3, <3>1
  <2>4. CASE /\ status[c] \in Open
             /\ status' = [status EXCEPT ![c] = Ending(r)]
             /\ reply'[r].phase = "marked"
    <3>1. Used' = Used \cup {r}
      BY <2>2, <2>4
    <3>2. \A q \in Used : reply[q].hit # c
      BY <2>4
    <3>3. \A x \in Cmds : x # c => status'[x] = status[x]
      BY <2>4
    <3>4. status'[c] = Ending(r) /\ Ending(r) = Ending(r)'
      BY <2>1, <2>2, <2>4
    <3>5. \A q \in Replies : /\ q \in Used' => status'[reply'[q].hit] = Ending(q)'
                             /\ Ending(q)' = Ending(q)
      BY <2>1, <2>2, <3>1, <3>2, <3>3, <3>4
    <3>6. \A x \in Cmds : status'[x] = "ACKNOWLEDGED" =>
             \E q \in Used' : reply'[q].hit = x
      BY <2>1, <2>2, <3>1, <3>3
    <3>7. \A q, p \in Used' : reply'[q].hit = reply'[p].hit => q = p
      BY <2>2, <3>1, <3>2
    <3>8. \A q \in Replies :
            /\ reply'[q].phase # "none" => reply'[q].of \in wrote'
            /\ reply'[q].phase \in {"found", "marked", "closed"} =>
                 /\ reply'[q].hit \in Cmds
                 /\ status'[reply'[q].hit] \notin {"NONE", "REJECTED"}
                 /\ req'[reply'[q].of].dev = req'[reply'[q].hit].dev
      BY <2>1, <2>2, <3>3, <3>4, <2>4
    <3>9. QED
      BY <3>5, <3>6, <3>7, <3>8
  <2>5. QED
    BY <1>14, <2>1, <2>3, <2>4 DEF MarkResult, ToAcknowledged, ToFinal
<1>15. ASSUME NEW r \in Replies, RecordResult(r) PROVE ReplyInv'
  BY <1>15 DEF RecordResult
<1>16. ASSUME NEW r \in Replies, NEW c \in Cmds, NEW ok \in BOOLEAN,
              DeviceReplies(r, c, ok)
       PROVE  ReplyInv'
  BY <1>16 DEF DeviceReplies
<1>17. ASSUME ExpireTimedOut PROVE ReplyInv'
  BY <1>17 DEF ExpireTimedOut, TimedOut
<1>18. ASSUME Crash PROVE ReplyInv'
  BY <1>18 DEF Crash
<1>21. ASSUME RecordFails PROVE ReplyInv'
  <2>1. ASSUME NEW r \in Replies, reply[r].phase = "marked",
               reply' = [reply EXCEPT ![r].phase = "closed"]
        PROVE  ReplyInv'
    BY <1>21, <2>1 DEF RecordFails
  <2>2. ASSUME reply' = reply PROVE ReplyInv'
    BY <1>21, <2>2 DEF RecordFails
  <2>3. QED
    BY <1>21, <2>1, <2>2 DEF RecordFails
<1>19. ASSUME UNCHANGED vars PROVE ReplyInv'
  BY <1>19 DEF vars
<1>20. QED
  BY <1>1, <1>2, <1>3, <1>4, <1>5, <1>6, <1>7, <1>8, <1>9, <1>10, <1>11, <1>12,
     <1>13, <1>14, <1>15, <1>16, <1>17, <1>18, <1>19, <1>21 DEF Next, SendStep, AckStep

\* What backs an audited result is final: a TIMEOUT row stays one, and a reply
\* whose call has ended does not change.
LEMMA BackedStays ==
  ASSUME IInv, [Next]_vars, NEW c \in Cmds, NEW e, Backed(c, e)
  PROVE  Backed(c, e)'
<1> USE CommandsAssumption DEF IInv, TypeOK, Status, Open, Terminal, Reply, Phase
<1>1. status[c] = "TIMEOUT" => status'[c] = "TIMEOUT"
  <2>1. ASSUME NEW x \in Cmds,
               \/ Reject(x) \/ Accept(x) \/ MarkSending(x) \/ MarkFailed(x)
               \/ MarkSent(x)
        PROVE  status[c] = "TIMEOUT" => status'[c] = "TIMEOUT"
    BY <2>1 DEF Reject, Accept, Create, MarkSending, ToSending, MarkFailed, ToFinal,
       MarkSent, ToSent
  <2>2. ASSUME NEW r \in Replies, MarkResult(r)
        PROVE  status[c] = "TIMEOUT" => status'[c] = "TIMEOUT"
    BY <2>2 DEF MarkResult, ToAcknowledged, ToFinal
  <2>3. ASSUME ExpireTimedOut PROVE status[c] = "TIMEOUT" => status'[c] = "TIMEOUT"
    BY <2>3 DEF ExpireTimedOut
  <2>4. QED
    BY <2>1, <2>2, <2>3 DEF Next, SendStep, AckStep, RecordRejection, RecordRequest,
       Write, RecordSent, DeadlinePasses, RecordExpired, SendFails, FindCommand, AckFails,
       RecordResult, DeviceReplies, RecordFails, Crash, vars
<1>2. \A r \in Replies : reply[r].phase = "closed" => reply'[r] = reply[r]
  BY DEF Next, SendStep, AckStep, Reject, Accept, Create, RecordRejection,
     RecordRequest, MarkSending, Write, MarkFailed, MarkSent, RecordSent,
     DeadlinePasses, RecordExpired, SendFails, FindCommand, AckFails, MarkResult,
     RecordResult, DeviceReplies, ExpireTimedOut, RecordFails, Crash, vars
<1>3. QED
  BY <1>1, <1>2 DEF Backed, Ending

\* LogInv: every audited result keeps agreeing with the row and its reply.
LEMMA LogStepInv == IInv /\ [Next]_vars => LogInv'
<1> SUFFICES ASSUME IInv, [Next]_vars PROVE LogInv'
  OBVIOUS
<1>1. ASSUME UNCHANGED log PROVE LogInv'
  BY <1>1, BackedStays DEF IInv, LogInv, Results
<1>2. ASSUME NEW c \in Cmds, NEW e, log' = [log EXCEPT ![c] = @ \cup {e}],
             e.what = "RESULT" => Backed(c, e)'
      PROVE  LogInv'
  BY <1>2, BackedStays DEF IInv, TypeOK, LogInv, Results
<1>3. ASSUME NEW c \in Cmds, NEW what, NEW result, Record(c, what, result, Server, FALSE),
             what # "RESULT"
      PROVE  LogInv'
  <2> DEFINE e == [what |-> what, result |-> result, by |-> Server, exact |-> FALSE]
  <2>1. log' = [log EXCEPT ![c] = @ \cup {e}]
    BY <1>3 DEF Record
  <2>2. e.what # "RESULT"
    BY <1>3
  <2> HIDE DEF e
  <2>3. QED
    BY <1>2, <2>1, <2>2
<1>4. ASSUME NEW c \in Cmds, RecordExpired(c) PROVE LogInv'
  <2> DEFINE e == [what |-> "RESULT", result |-> "TIMEOUT", by |-> Server,
                   exact |-> FALSE]
  <2>1. status'[c] = "TIMEOUT"
    BY <1>4 DEF RecordExpired, IInv, SendInv
  <2>2. Backed(c, e)'
    BY <2>1 DEF Backed
  <2>3. log' = [log EXCEPT ![c] = @ \cup {e}]
    BY <1>4 DEF RecordExpired, Record
  <2> HIDE DEF e
  <2>4. QED
    BY <1>2, <2>2, <2>3
<1>5. ASSUME NEW r \in Replies, RecordResult(r) PROVE LogInv'
  <2>1. PICK c \in Cmds : c = reply[r].hit
    BY <1>5 DEF RecordResult, IInv, ReplyInv
  <2>2. PICK e : e = [what |-> "RESULT", result |-> Ending(r), by |-> r,
                      exact |-> reply[r].exact]
    OBVIOUS
  <2>3. reply'[r] = [reply[r] EXCEPT !.phase = "closed"] /\ reply[r] \in Reply
    BY <1>5 DEF RecordResult, IInv, TypeOK
  <2>4. Backed(c, e)'
    BY <2>1, <2>2, <2>3 DEF Backed, Ending, Reply
  <2>5. log' = [log EXCEPT ![c] = @ \cup {e}]
    BY <1>5, <2>1, <2>2 DEF RecordResult, Record
  <2>6. QED
    BY <1>2, <2>4, <2>5
<1>6. ASSUME NEW c \in Cmds,
             RecordRejection(c) \/ RecordRequest(c) \/ RecordSent(c)
      PROVE  LogInv'
  BY <1>3, <1>6 DEF RecordRejection, RecordRequest, RecordSent
<1>7. QED
  BY <1>1, <1>4, <1>5, <1>6 DEF Next, SendStep, AckStep, Reject, Accept, MarkSending,
     Write, MarkFailed, MarkSent, DeadlinePasses, SendFails, FindCommand, AckFails,
     MarkResult, DeviceReplies, ExpireTimedOut, RecordFails, Crash, vars

\* The inductive invariant holds in every reachable state.
THEOREM Invariance == Spec => []IInv
<1>1. Init => IInv
  BY CommandsAssumption DEF Init, IInv, TypeOK, SendInv, ReplyInv, LogInv, Results,
     Used, Status, Open, Terminal, Place, Running, Answered, Reply, Phase
<1>2. IInv /\ [Next]_vars => IInv'
  BY TypeStep, SendStepInv, ReplyStepInv, LogStepInv DEF IInv
<1>3. QED
  BY <1>1, <1>2, PTL DEF Spec

\* At most one result of a command is ever audited, and it is the status its row
\* ends with, whatever replies, sweep and dispatch race for the row.
THEOREM OutcomeIsUnique == Spec => []OneOutcome
<1>1. IInv => OneOutcome
  <2> SUFFICES ASSUME IInv, NEW c \in Cmds, NEW e \in Results(c),
                      NEW f \in Results(c)
               PROVE  e.result = status[c] /\ f = e
    BY DEF OneOutcome
  <2>1. Backed(c, e) /\ Backed(c, f)
    BY DEF IInv, LogInv
  <2>2. \A r \in Replies : reply[r].phase = "closed" =>
          /\ status[reply[r].hit] = Ending(r)
          /\ \A q \in Replies :
               (reply[q].phase = "closed" /\ reply[q].hit = reply[r].hit) => q = r
    BY DEF IInv, ReplyInv, Used
  <2>3. \A r : Ending(r) # "TIMEOUT"
    BY DEF Ending
  <2>4. ASSUME NEW x, Backed(c, x)
        PROVE  \/ /\ x = [what |-> "RESULT", result |-> "TIMEOUT", by |-> Server,
                           exact |-> FALSE]
                  /\ status[c] = "TIMEOUT"
               \/ \E r \in Replies :
                    /\ reply[r].phase = "closed" /\ reply[r].hit = c
                    /\ x = [what |-> "RESULT", result |-> Ending(r), by |-> r,
                            exact |-> reply[r].exact]
                    /\ status[c] = Ending(r)
    BY <2>2, <2>4 DEF Backed
  <2>5. e.result = status[c]
    BY <2>1, <2>4
  <2>6. f = e
    <3>1. CASE status[c] = "TIMEOUT"
      BY <3>1, <2>1, <2>3, <2>4
    <3>2. CASE status[c] # "TIMEOUT"
      <4>1. PICK r \in Replies :
              /\ reply[r].phase = "closed" /\ reply[r].hit = c
              /\ e = [what |-> "RESULT", result |-> Ending(r), by |-> r,
                      exact |-> reply[r].exact]
        BY <3>2, <2>1, <2>4
      <4>2. PICK q \in Replies :
              /\ reply[q].phase = "closed" /\ reply[q].hit = c
              /\ f = [what |-> "RESULT", result |-> Ending(q), by |-> q,
                      exact |-> reply[q].exact]
        BY <3>2, <2>1, <2>4
      <4>3. q = r
        BY <4>1, <4>2, <2>2
      <4>4. QED
        BY <4>1, <4>2, <4>3
    <3>3. QED
      BY <3>1, <3>2
  <2>7. QED
    BY <2>5, <2>6
<1>2. QED
  BY <1>1, Invariance, PTL

\* An ACKNOWLEDGED row was closed by a successful reply of its own device to a
\* written command, and replies and the rows they close are one to one.
THEOREM AcknowledgementIsEarned == Spec => []AcknowledgedByOneReply
<1>1. IInv => AcknowledgedByOneReply
  BY DEF IInv, ReplyInv, AcknowledgedByOneReply, Used, Ending
<1>2. QED
  BY <1>1, Invariance, PTL

\* A 202 whose row is not FAILED means the payload went out; a 409 means it did
\* not and the row is REJECTED.
THEOREM AnswersAreTrue == Spec => []AnswerIsTrue
<1>1. IInv => AnswerIsTrue
  BY DEF IInv, SendInv, AnswerIsTrue
<1>2. QED
  BY <1>1, Invariance, PTL
-----------------------------------------------------------------------------
(* Refinement: the service implements CommandContract.                     *)

\* A step that leaves every status, the wire and the used replies alone is a
\* stutter of the contract.
LEMMA StutterMaps ==
  ASSUME UNCHANGED <<status, wrote>>, Used' = Used
  PROVE  UNCHANGED Contract!contractVars
BY DEF Contract!contractVars

\* Every step of the service is a step of the contract or a stutter.
LEMMA StepMaps ==
  ASSUME IInv, IInv', [Next]_vars
  PROVE  [Contract!ContractNext]_Contract!contractVars
<1> USE CommandsAssumption DEF Status, Open, Terminal
<1>1. ASSUME NEW c \in Cmds, Reject(c) PROVE Contract!RefuseCommand(c)
  BY <1>1 DEF Reject, Create, Contract!RefuseCommand, Used, IInv, TypeOK
<1>2. ASSUME NEW c \in Cmds, Accept(c) PROVE Contract!OpenCommand(c)
  BY <1>2 DEF Accept, Create, Contract!OpenCommand, Used, IInv, TypeOK
<1>3. ASSUME NEW c \in Cmds, MarkSending(c) \/ MarkSent(c)
      PROVE  UNCHANGED Contract!contractVars
  BY <1>3 DEF MarkSending, ToSending, MarkSent, ToSent, Contract!contractVars, Used,
     IInv, TypeOK
<1>4. ASSUME NEW c \in Cmds, Write(c)
      PROVE  Contract!DeliverCommand(c) \/ UNCHANGED Contract!contractVars
  BY <1>4, StutterMaps DEF Write, Contract!DeliverCommand, Used, IInv, TypeOK, SendInv
<1>5. ASSUME NEW c \in Cmds, MarkFailed(c)
      PROVE  Contract!CloseUnsent(c) \/ UNCHANGED Contract!contractVars
  <2>1. CASE UNCHANGED status
    BY <1>5, <2>1, StutterMaps DEF MarkFailed, Used
  <2>2. CASE ToFinal(status[c]) /\ status' = [status EXCEPT ![c] = "FAILED"]
    <3>1. status[c] \in Open /\ c \notin wrote
      BY <1>5, <2>2 DEF MarkFailed, ToFinal, IInv, TypeOK, SendInv
    <3>2. UNCHANGED wrote /\ Used' = Used
      BY <1>5 DEF MarkFailed, Used
    <3>3. Contract!CloseUnsent(c)
      BY <2>2, <3>1, <3>2 DEF Contract!CloseUnsent, IInv, TypeOK
    <3>4. QED
      BY <3>3
  <2>3. QED
    BY <1>5, <2>1, <2>2 DEF MarkFailed
<1>6. ASSUME NEW c \in Cmds,
             \/ RecordRejection(c) \/ RecordRequest(c) \/ RecordSent(c)
             \/ DeadlinePasses(c) \/ RecordExpired(c) \/ SendFails(c)
      PROVE  UNCHANGED Contract!contractVars
  BY <1>6, StutterMaps DEF RecordRejection, RecordRequest, RecordSent, DeadlinePasses,
     RecordExpired, SendFails, Used
<1>7. ASSUME NEW r \in Replies, FindCommand(r) \/ AckFails(r)
      PROVE  UNCHANGED Contract!contractVars
  <2>1. Used' = Used
    BY <1>7, FindMatches, FailMatches DEF Used, IInv, Matched
  <2>2. QED
    BY <1>7, <2>1, StutterMaps DEF FindCommand, AckFails
<1>8. ASSUME NEW r \in Replies, MarkResult(r)
      PROVE  \/ \E c \in Cmds : Contract!CloseByReply(c, r)
             \/ UNCHANGED Contract!contractVars
  <2>1. PICK c \in Cmds : c = reply[r].hit
    BY <1>8 DEF MarkResult, IInv, ReplyInv
  <2>2. CASE UNCHANGED status /\ reply' = [reply EXCEPT ![r].phase = "dropped"]
    <3>1. Used' = Used
      BY <1>8, <2>2 DEF MarkResult, Used, IInv, TypeOK, Reply
    <3>2. QED
      BY <1>8, <2>2, <3>1, StutterMaps DEF MarkResult
  <2>3. CASE /\ status[c] \notin Terminal
             /\ status' = [status EXCEPT ![c] = Ending(r)]
             /\ reply' = [reply EXCEPT ![r].phase = "marked"]
    <3>1. Used' = Used \cup {r} /\ r \notin Used
      BY <1>8, <2>3 DEF MarkResult, Used, IInv, TypeOK, Reply
    <3>2. status[c] \in Open /\ Ending(r) \in {"ACKNOWLEDGED", "FAILED"}
      BY <1>8, <2>1, <2>3 DEF MarkResult, IInv, TypeOK, ReplyInv, Ending
    <3>3. UNCHANGED wrote
      BY <1>8 DEF MarkResult
    <3>4. [x \in Cmds |-> IF status'[x] \in Open THEN "OPEN" ELSE status'[x]]
          = [[x \in Cmds |-> IF status[x] \in Open THEN "OPEN" ELSE status[x]]
               EXCEPT ![c] = Ending(r)]
      BY <2>3, <3>2 DEF IInv, TypeOK
    <3>5. Contract!CloseByReply(c, r)
      BY <3>1, <3>2, <3>3, <3>4 DEF Contract!CloseByReply
    <3>6. QED
      BY <3>5
  <2>4. QED
    BY <1>8, <2>1, <2>2, <2>3 DEF MarkResult, ToAcknowledged, ToFinal
<1>9. ASSUME NEW r \in Replies, RecordResult(r) PROVE UNCHANGED Contract!contractVars
  <2>1. Used' = Used
    BY <1>9 DEF RecordResult, Used, IInv, TypeOK, Reply
  <2>2. QED
    BY <1>9, <2>1, StutterMaps DEF RecordResult
<1>10. ASSUME NEW r \in Replies, NEW c \in Cmds, NEW ok \in BOOLEAN,
              DeviceReplies(r, c, ok)
       PROVE  UNCHANGED Contract!contractVars
  <2>1. Used' = Used
    BY <1>10 DEF DeviceReplies, Used, IInv, TypeOK, Reply
  <2>2. QED
    BY <1>10, <2>1, StutterMaps DEF DeviceReplies
<1>11. ASSUME ExpireTimedOut PROVE \E S \in SUBSET Cmds : Contract!ExpireCommands(S)
  <2>1. PICK S \in SUBSET Cmds : S = TimedOut
    BY DEF TimedOut
  <2>2. Contract!ExpireCommands(S)
    BY <1>11, <2>1 DEF ExpireTimedOut, TimedOut, Contract!ExpireCommands, Used, IInv,
       TypeOK, SendInv
  <2>3. QED
    BY <2>2
<1>12. ASSUME Crash PROVE UNCHANGED Contract!contractVars
  <2>1. Used' = Used
    BY <1>12 DEF Crash, Used, IInv, TypeOK, Reply
  <2>2. QED
    BY <1>12, <2>1, StutterMaps DEF Crash
<1>18. ASSUME RecordFails PROVE UNCHANGED Contract!contractVars
  <2>1. Used' = Used
    BY <1>18 DEF RecordFails, Used, IInv, TypeOK, Reply
  <2>2. QED
    BY <1>18, <2>1, StutterMaps DEF RecordFails
<1>13. ASSUME UNCHANGED vars PROVE UNCHANGED Contract!contractVars
  BY <1>13, StutterMaps DEF vars, Used
<1>14. ASSUME NEW c \in Cmds,
              \/ Reject(c) \/ Accept(c) \/ SendStep(c) \/ DeadlinePasses(c)
              \/ RecordExpired(c) \/ SendFails(c)
       PROVE  Contract!ContractNext \/ UNCHANGED Contract!contractVars
  BY <1>1, <1>2, <1>3, <1>4, <1>5, <1>6, <1>14 DEF SendStep, Contract!ContractNext
<1>15. ASSUME NEW r \in Replies,
              \/ AckStep(r) \/ AckFails(r)
              \/ \E c \in Cmds, ok \in BOOLEAN : DeviceReplies(r, c, ok)
       PROVE  Contract!ContractNext \/ UNCHANGED Contract!contractVars
  BY <1>7, <1>8, <1>9, <1>10, <1>15 DEF AckStep, Contract!ContractNext
<1>16. ASSUME ExpireTimedOut PROVE Contract!ContractNext
  BY <1>11, <1>16 DEF Contract!ContractNext
<1>17. QED
  BY <1>12, <1>13, <1>14, <1>15, <1>16, <1>18, Zenon DEF Next

\* The command service implements the contract: each row is opened once, goes out
\* at most once and gets one outcome of the kind the contract allows.
THEOREM ContractKept == Spec => KeepsContract
<1>1. Init => Contract!ContractInit
  BY DEF Init, Contract!ContractInit, Used, Open
<1>2. IInv /\ IInv' /\ [Next]_vars => [Contract!ContractNext]_Contract!contractVars
  BY StepMaps
<1>3. QED
  BY <1>1, <1>2, Invariance, PTL DEF Spec, KeepsContract, Contract!ContractSpec

-----------------------------------------------------------------------------
(* The safety rule of the engine cut, for fixes that may wait in the       *)
(* device's buffer and arrive in any order.  TLC refutes CutIsFresh; what  *)
(* the rule does promise is proved here.                                   *)

\* Inserting appends one row, dated by the packet or by the server.
LEMMA InsertAppends ==
  ASSUME CutTypeOK, StorePosition
  PROVE  \E f \in buffer, gps \in Int :
            /\ gps \in {f.taken + skew, now}
            /\ f.taken \in Nat /\ f.speed \in Speeds
            /\ buffer' = buffer \ {f}
            /\ Len(positions') = Len(positions) + 1
            /\ positions' \in Seq(Position)
            /\ \A i \in DOMAIN positions : positions'[i] = positions[i]
            /\ positions'[Len(positions) + 1] =
                 [gpsTimestamp |-> gps, receivedAt |-> now,
                  speedKmh |-> f.speed, taken |-> f.taken]
<1>0. PICK f \in buffer : /\ \E gps \in Timestamps(f) : Insert(f, gps)
                          /\ buffer' = buffer \ {f}
  BY DEF StorePosition
<1>1. PICK gps \in Timestamps(f) : Insert(f, gps)
  BY <1>0
<1>2. f.taken \in Nat /\ f.speed \in Speeds /\ skew \in Int /\ now \in Nat
  BY EngineCutAssumption DEF CutTypeOK, Fix
<1>3. gps \in Int /\ gps \in {f.taken + skew, now}
  BY <1>1, <1>2 DEF Timestamps
<1> DEFINE p == [gpsTimestamp |-> gps, receivedAt |-> now,
                 speedKmh |-> f.speed, taken |-> f.taken]
<1>4. p \in Position
  BY <1>2, <1>3 DEF Position
<1>5. positions' = Append(positions, p)
  BY <1>1 DEF Insert
<1>6. positions \in Seq(Position)
  BY DEF CutTypeOK
<1> HIDE DEF p
<1>7. /\ Len(positions') = Len(positions) + 1
      /\ positions' \in Seq(Position)
      /\ \A i \in DOMAIN positions : positions'[i] = positions[i]
      /\ positions'[Len(positions) + 1] = p
  BY <1>4, <1>5, <1>6
<1>8. QED
  BY <1>0, <1>2, <1>3, <1>7 DEF p

\* Type correctness of one step.
LEMMA CutTypeStep == CutTypeOK /\ [CutNext]_cutVars => CutTypeOK'
<1> SUFFICES ASSUME CutTypeOK, [CutNext]_cutVars PROVE CutTypeOK'
  OBVIOUS
<1> USE EngineCutAssumption
<1>1. ASSUME Tick PROVE CutTypeOK'
  BY <1>1 DEF Tick, CutTypeOK
<1>2. ASSUME TakeFix PROVE CutTypeOK'
  BY <1>2 DEF TakeFix, CutTypeOK, Fix
<1>3. ASSUME StorePosition PROVE CutTypeOK'
  <2>1. positions' \in Seq(Position) /\ buffer' \subseteq Fix
    BY <1>3, InsertAppends DEF CutTypeOK
  <2>2. QED
    BY <1>3, <2>1 DEF StorePosition, CutTypeOK
<1>4. ASSUME LosePosition PROVE CutTypeOK'
  BY <1>4 DEF LosePosition, CutTypeOK
<1>5. ASSUME RequestCut PROVE CutTypeOK'
  <2>1. \A i \in LatestWithLocation : i \in Nat
    BY DEF LatestWithLocation, CutTypeOK
  <2>2. verdict' \in Verdict
    BY <1>5, <2>1 DEF RequestCut, Answer, Verdict, CutTypeOK
  <2>3. QED
    BY <1>5, <2>2 DEF RequestCut, CutTypeOK
<1>6. ASSUME UNCHANGED cutVars PROVE CutTypeOK'
  BY <1>6 DEF cutVars, CutTypeOK
<1>7. QED
  BY <1>1, <1>2, <1>3, <1>4, <1>5, <1>6 DEF CutNext

\* RowsInv is kept, in whatever order packets arrive.
LEMMA RowsStep == CutInv /\ [CutNext]_cutVars => RowsInv'
<1> SUFFICES ASSUME CutInv, [CutNext]_cutVars PROVE RowsInv'
  OBVIOUS
<1> USE EngineCutAssumption DEF CutInv
<1>1. ASSUME Tick PROVE RowsInv'
  <2>1. now' = now + 1 /\ now \in Nat /\ positions' = positions /\ skew' = skew
    BY <1>1 DEF Tick, CutTypeOK
  <2>2. ASSUME NEW i \in DOMAIN positions PROVE positions[i].receivedAt \in Nat
    <3>1. positions[i] \in Position
      BY DEF CutTypeOK
    <3>2. QED
      BY <3>1 DEF Position
  <2>3. \A i \in DOMAIN positions : positions[i].receivedAt <= now + 1
    BY <2>1, <2>2 DEF RowsInv
  <2>4. QED
    BY <2>1, <2>3 DEF RowsInv
<1>2. ASSUME UNCHANGED <<now, skew, positions>> PROVE RowsInv'
  BY <1>2 DEF RowsInv
<1>3. ASSUME StorePosition PROVE RowsInv'
  <2>1. PICK f \in buffer, gps \in Int :
            /\ gps \in {f.taken + skew, now}
            /\ f.taken \in Nat /\ f.speed \in Speeds
            /\ buffer' = buffer \ {f}
            /\ Len(positions') = Len(positions) + 1
            /\ positions' \in Seq(Position)
            /\ \A i \in DOMAIN positions : positions'[i] = positions[i]
            /\ positions'[Len(positions) + 1] =
                 [gpsTimestamp |-> gps, receivedAt |-> now,
                  speedKmh |-> f.speed, taken |-> f.taken]
    BY <1>3, InsertAppends
  <2>2. now' = now /\ skew' = skew /\ now \in Nat /\ skew \in Int
    BY <1>3 DEF StorePosition, CutTypeOK
  <2>3. /\ DOMAIN positions = 1 .. Len(positions)
        /\ DOMAIN positions' = 1 .. Len(positions) + 1
        /\ Len(positions) \in Nat
    BY <2>1 DEF CutTypeOK
  <2>4. \A i \in DOMAIN positions' : i \in DOMAIN positions \/ i = Len(positions) + 1
    BY <2>3
  <2>5. /\ positions'[Len(positions) + 1].receivedAt = now
        /\ positions'[Len(positions) + 1].gpsTimestamp
             \in {positions'[Len(positions) + 1].taken + skew, now}
    BY <2>1
  <2>6. \A i \in DOMAIN positions' :
          /\ positions'[i].receivedAt <= now'
          /\ positions'[i].gpsTimestamp \in {positions'[i].taken + skew', positions'[i].receivedAt}
    BY <2>1, <2>2, <2>4, <2>5 DEF RowsInv
  <2>7. \A i, j \in DOMAIN positions' :
          i <= j => positions'[i].receivedAt <= positions'[j].receivedAt
    BY <2>1, <2>2, <2>3, <2>4, <2>5 DEF RowsInv
  <2>8. QED
    BY <2>6, <2>7 DEF RowsInv
<1>4. QED
  BY <1>1, <1>2, <1>3 DEF CutNext, TakeFix, LosePosition, RequestCut, cutVars

\* VerdictInv is kept: rows are never changed, and a new authorisation rests on
\* the row with the latest date, which passed the rule.
LEMMA VerdictStep == CutInv /\ [CutNext]_cutVars => VerdictInv'
<1> SUFFICES ASSUME CutInv, [CutNext]_cutVars PROVE VerdictInv'
  OBVIOUS
<1> USE EngineCutAssumption DEF CutInv
<1>1. ASSUME UNCHANGED <<verdict, positions>> PROVE VerdictInv'
  BY <1>1 DEF VerdictInv, Known
<1>2. ASSUME StorePosition PROVE VerdictInv'
  <2>1. /\ \A i \in DOMAIN positions : positions'[i] = positions[i]
        /\ Len(positions') = Len(positions) + 1
        /\ positions' \in Seq(Position)
    BY <1>2, InsertAppends
  <2>2. \A i \in DOMAIN positions : i \in DOMAIN positions'
    BY <2>1 DEF CutTypeOK
  <2>3. SUFFICES ASSUME verdict'.answer = "allowed" PROVE VerdictInv'
    BY DEF VerdictInv
  <2>4. verdict' = verdict /\ verdict.answer = "allowed" /\ VerdictInv
    BY <1>2, <2>3 DEF StorePosition
  <2>5. verdict.known \in DOMAIN positions /\ verdict.row \in Known
    BY <2>4 DEF VerdictInv
  <2>6. Known' = Known /\ \A j \in Known : j \in DOMAIN positions
    BY <2>4, <2>5 DEF Known, CutTypeOK
  <2>7. \A j \in Known : positions'[j] = positions[j]
    BY <2>1, <2>6
  <2>8. QED
    BY <2>2, <2>4, <2>5, <2>6, <2>7 DEF VerdictInv
<1>3. ASSUME RequestCut PROVE VerdictInv'
  <2>1. CASE Answer("refused", 0)
    BY <1>3, <2>1 DEF RequestCut, Answer, VerdictInv
  <2>2. ASSUME NEW i \in LatestWithLocation, Blocked(i), Answer("refused", i)
        PROVE  VerdictInv'
    BY <1>3, <2>2 DEF RequestCut, Answer, VerdictInv
  <2>3. ASSUME NEW i \in LatestWithLocation, ~Blocked(i), Answer("allowed", i)
        PROVE  VerdictInv'
    <3>1. /\ i \in DOMAIN positions /\ i \in 1 .. Len(positions)
          /\ Len(positions) \in DOMAIN positions
          /\ DOMAIN positions = 1 .. Len(positions)
      BY DEF LatestWithLocation, CutTypeOK
    <3>2. /\ positions[i] \in Position /\ positions[Len(positions)] \in Position
          /\ now \in Nat
      BY <3>1 DEF CutTypeOK
    <3>3. now - positions[i].receivedAt <= MaxAge /\ positions[i].speedKmh <= MaxSpeed
      <4>1. positions[i].receivedAt \in Nat /\ positions[i].speedKmh \in Int
        BY <3>2 DEF Position
      <4>2. QED
        BY <2>3, <3>2, <4>1 DEF Blocked, TooOld
    <3>4. \A j \in 1 .. Len(positions) :
            \/ positions[j].gpsTimestamp < positions[i].gpsTimestamp
            \/ positions[j].gpsTimestamp = positions[i].gpsTimestamp /\ j <= i
      BY <3>1 DEF LatestWithLocation
    <3>5. /\ verdict'.answer = "allowed" /\ verdict'.row = i
          /\ verdict'.known = Len(positions) /\ verdict'.at = now
          /\ positions' = positions
      BY <1>3, <2>3 DEF RequestCut, Answer
    <3>6. Known' = 1 .. Len(positions)
      BY <3>5 DEF Known
    <3>7. QED
      BY <3>1, <3>3, <3>4, <3>5, <3>6 DEF VerdictInv
  <2>4. QED
    BY <1>3, <2>1, <2>2, <2>3 DEF RequestCut
<1>4. QED
  BY <1>1, <1>2, <1>3 DEF CutNext, Tick, TakeFix, LosePosition, cutVars

\* The types are kept in every behaviour.
THEOREM CutTypeCorrect == CutSpec => []CutTypeOK
<1>1. CutInit => CutTypeOK
  BY EngineCutAssumption DEF CutInit, CutTypeOK, Verdict
<1>2. QED
  BY <1>1, CutTypeStep, PTL DEF CutSpec

\* The inductive invariant, for any speeds, clock errors and delays.
THEOREM CutInvariance == CutSpec => []CutInv
<1>1. CutInit => CutInv
  BY EngineCutAssumption DEF CutInit, CutInv, CutTypeOK, Verdict, RowsInv, VerdictInv
<1>2. CutInv /\ [CutNext]_cutVars => CutInv'
  BY CutTypeStep, RowsStep, VerdictStep DEF CutInv
<1>3. QED
  BY <1>1, <1>2, PTL DEF CutSpec

\* The rows a verdict rests on are positions.
LEMMA KnownRows ==
  ASSUME CutInv, verdict.answer = "allowed"
  PROVE  /\ skew \in Int /\ verdict.known \in Known /\ verdict.row \in Known
         /\ \A j \in Known : j \in DOMAIN positions /\ positions[j].gpsTimestamp \in Int
                             /\ positions[j].taken \in Int /\ positions[j].receivedAt \in Int
<1>1. verdict.known \in DOMAIN positions /\ verdict.row \in Known
  BY DEF CutInv, VerdictInv
<1>2. positions \in Seq(Position) /\ skew \in Int
  BY EngineCutAssumption DEF CutInv, CutTypeOK
<1>3. verdict.known \in Known /\ \A j \in Known : j \in DOMAIN positions
  BY <1>1, <1>2 DEF Known
<1>4. \A j \in DOMAIN positions : positions[j] \in Position
  BY <1>2
<1>5. \A j \in DOMAIN positions : /\ positions[j].gpsTimestamp \in Int
                                  /\ positions[j].taken \in Int /\ positions[j].receivedAt \in Int
  BY <1>4 DEF Position
<1>6. QED
  BY <1>1, <1>2, <1>3, <1>5

\* However late and in whatever order packets arrive and whatever the error of
\* the device's clock, a cut is authorised only by a row received at most MaxAge
\* before and slow enough, and no fix known to the server and dated by the device
\* is newer.
THEOREM NewestDecides == CutSpec => []NewestFixDecides
<1>1. CutInv => NewestFixDecides
  <2> SUFFICES ASSUME CutInv, verdict.answer = "allowed",
                      \A j \in Known : positions[j].gpsTimestamp = positions[j].taken + skew,
                      NEW j \in Known
               PROVE  positions[j].taken <= positions[verdict.row].taken
    BY DEF CutInv, VerdictInv, NewestFixDecides
  <2>1. positions[j].gpsTimestamp <= positions[verdict.row].gpsTimestamp
    <3>1. \/ positions[j].gpsTimestamp < positions[verdict.row].gpsTimestamp
          \/ positions[j].gpsTimestamp = positions[verdict.row].gpsTimestamp
      BY DEF CutInv, VerdictInv
    <3>2. QED
      BY <3>1, KnownRows
  <2>2. QED
    BY <2>1, KnownRows
<1>2. QED
  BY <1>1, CutInvariance, PTL

\* With a right clock and every packet so far received live, the last position
\* received decides.
THEOREM LastReceivedDecides == CutSpec => []LastWordDecides
<1>1. CutInv => LastWordDecides
  <2> SUFFICES ASSUME CutInv, skew = 0, verdict.answer = "allowed",
                      \A j \in Known : positions[j].receivedAt = positions[j].taken
               PROVE  positions[verdict.known].speedKmh <= MaxSpeed
    BY DEF LastWordDecides
  <2>1. \A j \in Known : positions[j].gpsTimestamp = positions[j].receivedAt
    BY KnownRows DEF CutInv, RowsInv
  <2>2. positions[verdict.row].receivedAt <= positions[verdict.known].receivedAt
    <3>1. verdict.row <= verdict.known
      BY KnownRows DEF Known
    <3>2. QED
      BY <3>1, KnownRows DEF CutInv, RowsInv
  <2>3. verdict.known <= verdict.row
    <3>1. \/ positions[verdict.known].gpsTimestamp < positions[verdict.row].gpsTimestamp
          \/ verdict.known <= verdict.row
      BY KnownRows DEF CutInv, VerdictInv
    <3>2. QED
      BY <2>1, <2>2, <3>1, KnownRows
  <2>4. verdict.known = verdict.row
    BY <2>3, KnownRows DEF Known, CutInv, CutTypeOK, Verdict
  <2>5. QED
    BY <2>4 DEF CutInv, VerdictInv
<1>2. QED
  BY <1>1, CutInvariance, PTL
=============================================================================
