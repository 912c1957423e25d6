-------------------------- MODULE SimulatorProofs ---------------------------
(***************************************************************************)
(* Why the server's verdict on a command is what the device did, for any   *)
(* commands, speeds, lines typed, stalls and deadlines.  A command is in   *)
(* one place at a time: with the server, on its way down, or applied       *)
(* (DownInv); once it is applied nothing applies it again, so that the     *)
(* reply under way agrees with the deed although the vehicle goes on       *)
(* changing (ReplyInv); there is one reply for each command (OnceInv), so  *)
(* that only a command that timed out leaves a reply without a row, and    *)
(* only then does HandleAck close another one (VerdictInv).                *)
(***************************************************************************)
EXTENDS Simulator, SequenceTheorems, TLAPS

\* Some command timed out.
Late == \E j \in Keys : outcome[j] = "timeout"

\* A command on its way down was sent once and is not applied yet; one that
\* was not sent is nowhere.
DownInv ==
  /\ \A i \in 1..Len(down) :
       did[down[i]] = "nothing" /\ outcome[down[i]] \notin {"new", "rejected"}
  /\ \A i \in 1..Len(down) : outcome[down[i]] = "sent" \/ Late
  /\ \A i, j \in 1..Len(down) : i < j => down[i] # down[j]
  /\ \A k \in Keys : outcome[k] \in {"new", "rejected"} => did[k] = "nothing"

\* What the device did is what the text orders, or a refusal; d is the history did.
Proper(k, d) ==
  \/ d[k] = "nothing"
  \/ OrdersCut(Sends[k].upper) /\ d[k] \in {"cut", "refused"}
  \/ OrdersResume(Sends[k].upper) /\ d[k] = "resumed"
  \/ /\ ~ OrdersCut(Sends[k].upper) /\ ~ OrdersResume(Sends[k].upper)
     /\ d[k] \in {"located", "told", "unknown"}
DeedInv == \A k \in Keys : Proper(k, did)

\* A reply agrees with the deed it is about.
Backed(f, d) ==
  f.kind = "reply" => /\ d[f.key] # "nothing"
                      /\ f.text \in Negative <=> d[f.key] \in {"refused", "unknown"}
BackedJob(x, d) == x.do = "write" => Backed(x.frame, d)
BackedJobs(q, d) == \A i \in 1..Len(q) : BackedJob(q[i], d)
BackedFrames(q, d) == \A i \in 1..Len(q) : Backed(q[i], d)
ReplyInv ==
  /\ \A g \in Goroutines : BackedJobs(todo[g], did)
  /\ BackedFrames(up, did)

\* Only readLoop has a reply to write, and one at a time; a reply is under way
\* once, and gave no verdict yet.
FrameReply(f, k) == f.kind = "reply" /\ f.key = k
JobReply(x, k) == x.do = "write" /\ FrameReply(x.frame, k)
InJobs(q, i, k) == i \in 1..Len(q) /\ JobReply(q[i], k)
InFrames(r, i, k) == i \in 1..Len(r) /\ FrameReply(r[i], k)
Single(q, r) ==
  /\ \A k, l \in Keys : \A i, j \in Nat : InJobs(q, i, k) /\ InJobs(q, j, l) => i = j
  /\ \A k \in Keys : \A i, j \in Nat : InFrames(r, i, k) /\ InFrames(r, j, k) => i = j
  /\ \A k \in Keys : \A i, j \in Nat : ~ (InJobs(q, i, k) /\ InFrames(r, j, k))
UnderWay(q, r, k) == \E i \in Nat : InJobs(q, i, k) \/ InFrames(r, i, k)
Unused(k) == \A j \in Keys : by[j] # k
OnceInv ==
  /\ \A g \in Goroutines \ {"readLoop"}, i \in Nat, k \in Keys : ~ InJobs(todo[g], i, k)
  /\ Single(todo["readLoop"], up)
  /\ \A k \in Keys : UnderWay(todo["readLoop"], up, k) =>
       Unused(k) /\ (outcome[k] = "sent" \/ Late)

\* So does the verdict, which is of another command only when one timed out.
VerdictInv ==
  /\ \A k \in Keys : outcome[k] \in {"ok", "failed"} <=> by[k] # Absent
  /\ \A k \in Keys : by[k] # Absent =>
       /\ did[by[k]] # "nothing"
       /\ outcome[k] = "ok" <=> did[by[k]] \notin {"refused", "unknown"}
       /\ by[k] = k \/ Late
  /\ \A j, k \in Keys : by[k] # Absent /\ by[j] = by[k] => j = k

SimInv == TypeOK /\ DownInv /\ DeedInv /\ ReplyInv /\ OnceInv /\ VerdictInv

-----------------------------------------------------------------------------
(* The operators of the model.                                             *)

\* Whatever the text, the reply to it tells a refusal from a deed; a cut is
\* carried out or refused, a resume carried out.
LEMMA AnswerIsHonest ==
  ASSUME NEW s \in State, NEW upper
  PROVE  /\ applyCommand(upper, s).state \in State
         /\ applyCommand(upper, s).reply \in Replies
         /\ applyCommand(upper, s).deed \in Deeds \ {"nothing"}
         /\ applyCommand(upper, s).reply \in Negative <=>
              applyCommand(upper, s).deed \in {"refused", "unknown"}
         /\ OrdersCut(upper) => applyCommand(upper, s).deed \in {"cut", "refused"}
         /\ OrdersResume(upper) => applyCommand(upper, s).deed = "resumed"
         /\ ~OrdersCut(upper) /\ ~OrdersResume(upper) =>
              applyCommand(upper, s).deed \in {"located", "told", "unknown"}
<1>1. [s EXCEPT !.relay = TRUE] \in State /\ [s EXCEPT !.relay = FALSE] \in State
  BY DEF State
<1>2. CASE OrdersCut(upper)
  BY <1>1, <1>2 DEF applyCommand, CutOff, Answer, Replies, Negative, Deeds, OrdersResume
<1>3. CASE OrdersResume(upper)
  BY <1>1, <1>3 DEF applyCommand, Answer, Replies, Negative, Deeds, OrdersResume
<1>4. CASE ~OrdersCut(upper) /\ ~OrdersResume(upper)
  BY <1>4 DEF applyCommand, Answer, Replies, Negative, Deeds
<1>5. QED
  BY <1>2, <1>3, <1>4

\* What a report says of a state.
LEMMA ReportedShown == ASSUME NEW s \in State PROVE Reported(s) \in Shown
<1>1. s.speed \in Int
  BY SimulatorAssumption DEF State
<1>2. Rounded(s.speed) \in 0..255
  <2>1. CASE s.speed < 0 \/ s.speed > 2550
    BY <1>1, <2>1 DEF Rounded
  <2>2. CASE ~(s.speed < 0 \/ s.speed > 2550)
    <3>1. Rounded(s.speed) = (s.speed + 5) \div 10
      BY <1>1, <2>2 DEF Rounded
    <3>2. QED
      BY <1>1, <2>2, <3>1
  <2>3. QED
    BY <2>1, <2>2
<1>3. QED
  BY <1>2 DEF Reported, Shown, State

\* A frame is a reply or a report.
LEMMA FrameKinds ==
  ASSUME NEW f \in Frame
  PROVE  /\ f.kind = "reply" => f.key \in Keys /\ f.text \in Replies
         /\ f.kind # "reply" => f.kind \in Kinds /\ f.state \in Shown
BY DEF Frame, Kinds

\* A job is a snapshot or a write.
LEMMA JobKinds ==
  ASSUME NEW x \in Job
  PROVE  /\ x.do = "snapshot" => x.kind \in Kinds
         /\ x.do = "write" => x.frame \in Frame
BY DEF Job

\* Making jobs and frames.
LEMMA MakeSnap ==
  ASSUME NEW kind \in Kinds
  PROVE  /\ Snap(kind) \in Job
         /\ \A d : BackedJob(Snap(kind), d)
         /\ \A k : ~ JobReply(Snap(kind), k)
BY DEF Snap, Job, BackedJob, JobReply

\* A report needs no deed.
LEMMA MakeReport ==
  ASSUME NEW kind \in Kinds, NEW s \in Shown
  PROVE  /\ Put([kind |-> kind, state |-> s]) \in Job
         /\ \A d : BackedJob(Put([kind |-> kind, state |-> s]), d)
         /\ \A k : ~ JobReply(Put([kind |-> kind, state |-> s]), k)
BY DEF Put, Job, Frame, BackedJob, Backed, Kinds, JobReply, FrameReply

\* A reply to a deed that tells the refusal.
LEMMA MakeReply ==
  ASSUME NEW k \in Keys, NEW text \in Replies, NEW d, d[k] # "nothing",
         text \in Negative <=> d[k] \in {"refused", "unknown"}
  PROVE  /\ Put([kind |-> "reply", key |-> k, text |-> text]) \in Job
         /\ BackedJob(Put([kind |-> "reply", key |-> k, text |-> text]), d)
         /\ \A l : JobReply(Put([kind |-> "reply", key |-> k, text |-> text]), l) => l = k
<1> DEFINE f == [kind |-> "reply", key |-> k, text |-> text]
<1>1. f \in Frame /\ Backed(f, d) /\ \A l : FrameReply(f, l) => l = k
  BY DEF Frame, Backed, FrameReply
<1> HIDE DEF f
<1>2. Put(f) \in Job /\ BackedJob(Put(f), d) /\ \A l : JobReply(Put(f), l) => l = k
  BY <1>1 DEF Put, Job, BackedJob, JobReply
<1>3. QED
  BY <1>2 DEF f

\* Jobs one after the other.
LEMMA BackedConcat ==
  ASSUME NEW q \in Seq(Job), NEW r \in Seq(Job), NEW d, BackedJobs(q, d), BackedJobs(r, d)
  PROVE  q \o r \in Seq(Job) /\ BackedJobs(q \o r, d)
<1>1. /\ q \o r \in Seq(Job) /\ Len(q \o r) = Len(q) + Len(r)
      /\ Len(q) \in Nat /\ Len(r) \in Nat
      /\ \A i \in 1..Len(q) + Len(r) : (q \o r)[i] = IF i <= Len(q) THEN q[i] ELSE r[i - Len(q)]
  BY ConcatProperties, LenProperties
<1>2. ASSUME NEW i \in 1..Len(q \o r) PROVE BackedJob((q \o r)[i], d)
  <2>1. CASE i <= Len(q)
    <3>1. i \in 1..Len(q) /\ (q \o r)[i] = q[i]
      BY <1>1, <2>1
    <3>2. QED
      BY <3>1 DEF BackedJobs
  <2>2. CASE ~(i <= Len(q))
    <3>1. i - Len(q) \in 1..Len(r) /\ (q \o r)[i] = r[i - Len(q)]
      BY <1>1, <2>2
    <3>2. QED
      BY <3>1 DEF BackedJobs
  <2>3. QED
    BY <2>1, <2>2
<1>3. QED
  BY <1>1, <1>2 DEF BackedJobs

\* One job.
LEMMA BackedOne ==
  ASSUME NEW x \in Job, NEW d, BackedJob(x, d)
  PROVE  <<x>> \in Seq(Job) /\ BackedJobs(<<x>>, d)
BY DEF BackedJobs

\* No job.
LEMMA BackedNone == ASSUME NEW d PROVE <<>> \in Seq(Job) /\ BackedJobs(<<>>, d)
BY DEF BackedJobs

\* A goroutine takes its first job and keeps the others.
LEMMA BackedTail ==
  ASSUME NEW q \in Seq(Job), NEW d, BackedJobs(q, d), q # <<>>
  PROVE  /\ Head(q) \in Job /\ BackedJob(Head(q), d)
         /\ Tail(q) \in Seq(Job) /\ BackedJobs(Tail(q), d)
BY HeadTailProperties DEF BackedJobs

\* The replies among the jobs that are left.
LEMMA TailJobs ==
  ASSUME NEW q \in Seq(Job), q # <<>>, NEW i \in Nat, NEW k, InJobs(Tail(q), i, k)
  PROVE  InJobs(q, i + 1, k)
<1>1. /\ Len(Tail(q)) = Len(q) - 1 /\ Len(q) \in Nat
      /\ \A m \in 1..Len(Tail(q)) : Tail(q)[m] = q[m + 1]
  BY HeadTailProperties, LenProperties
<1>2. i \in 1..Len(Tail(q)) /\ JobReply(Tail(q)[i], k)
  BY DEF InJobs
<1>3. i + 1 \in 1..Len(q) /\ JobReply(q[i + 1], k)
  BY <1>1, <1>2
<1>4. QED
  BY <1>3 DEF InJobs

\* The replies among the frames that are left.
LEMMA TailFrames ==
  ASSUME NEW r \in Seq(Frame), r # <<>>, NEW i \in Nat, NEW k, InFrames(Tail(r), i, k)
  PROVE  InFrames(r, i + 1, k)
<1>1. /\ Len(Tail(r)) = Len(r) - 1 /\ Len(r) \in Nat
      /\ \A m \in 1..Len(Tail(r)) : Tail(r)[m] = r[m + 1]
  BY HeadTailProperties, LenProperties
<1>2. i \in 1..Len(Tail(r)) /\ FrameReply(Tail(r)[i], k)
  BY DEF InFrames
<1>3. i + 1 \in 1..Len(r) /\ FrameReply(r[i + 1], k)
  BY <1>1, <1>2
<1>4. QED
  BY <1>3 DEF InFrames

\* The replies among the frames with one more.
LEMMA AppendFrames ==
  ASSUME NEW r \in Seq(Frame), NEW f \in Frame, NEW i \in Nat, NEW k,
         InFrames(Append(r, f), i, k)
  PROVE  InFrames(r, i, k) \/ (i = Len(r) + 1 /\ FrameReply(f, k))
<1>1. /\ Len(Append(r, f)) = Len(r) + 1 /\ Len(r) \in Nat
      /\ \A m \in 1..Len(r) : Append(r, f)[m] = r[m]
      /\ Append(r, f)[Len(r) + 1] = f
  BY AppendProperties, LenProperties
<1>2. i \in 1..Len(Append(r, f)) /\ FrameReply(Append(r, f)[i], k)
  BY DEF InFrames
<1>3. i \in 1..Len(r) \/ i = Len(r) + 1
  BY <1>1, <1>2
<1>4. QED
  BY <1>1, <1>2, <1>3 DEF InFrames
-----------------------------------------------------------------------------
(* One step per action.                                                    *)

\* At the start nothing is sent and the only job is the first report.
LEMMA InitHolds == Init => SimInv
<1> SUFFICES ASSUME Init PROVE SimInv
  OBVIOUS
<1>1. "position" \in Kinds
  BY DEF Kinds
<1>2. \A g \in Goroutines : todo[g] \in Seq(Job) /\ BackedJobs(todo[g], did)
  BY <1>1, MakeSnap, BackedOne, BackedNone DEF Init, Goroutines
<1>3. TypeOK
  <2>1. dev \in State /\ alarms \in 0..AlarmBuffer /\ typed \in 0..MaxTyped /\ stalls \in 0..MaxStalls
    BY SimulatorAssumption DEF Init, State
  <2>2. todo \in [Goroutines -> Seq(Job)]
    BY <1>2 DEF Init
  <2>3. /\ down = <<>> /\ up = <<>> /\ rows = <<>>
        /\ open \in BOOLEAN /\ torn \in BOOLEAN /\ reading \in BOOLEAN
    BY Zenon DEF Init
  <2>5. Len(up) <= MaxUp
    <3>1. Len(<<>>) = 0 /\ MaxUp \in Nat
      BY SimulatorAssumption
    <3>2. QED
      BY <2>3, <3>1
  <2>4. /\ outcome \in [Keys -> {"new", "rejected", "sent", "ok", "failed", "timeout"}]
        /\ by \in [Keys -> Keys \cup {Absent}] /\ did \in [Keys -> Deeds] /\ view = Absent
    BY DEF Init, Deeds
  <2>6. QED
    BY <2>1, <2>2, <2>3, <2>4, <2>5 DEF TypeOK
<1>4. DownInv /\ DeedInv /\ VerdictInv
  BY DEF Init, DownInv, DeedInv, Proper, VerdictInv
<1>5. ReplyInv
  BY <1>2 DEF Init, ReplyInv, BackedFrames
<1>6. \A g \in Goroutines, i \in Nat, k \in Keys : ~ InJobs(todo[g], i, k)
  <2>1. \A k : ~ JobReply(Snap("position"), k)
    BY <1>1, MakeSnap
  <2>2. \A g \in Goroutines : todo[g] = <<>> \/ todo[g] = <<Snap("position")>>
    BY DEF Init
  <2>3. ASSUME NEW q, q = <<>> \/ q = <<Snap("position")>>, NEW i \in 1..Len(q), NEW k
        PROVE  ~ JobReply(q[i], k)
    <3>1. CASE q = <<>>
      <4>1. i \in 1..0
        BY <2>3, <3>1
      <4>2. QED
        BY <4>1
    <3>2. CASE q = <<Snap("position")>>
      <4>1. Len(<<Snap("position")>>) = 1
        OBVIOUS
      <4>2. i \in 1..1
        BY <2>3, <3>2, <4>1
      <4>3. q[i] = Snap("position")
        BY <3>2, <4>2
      <4>4. QED
        BY <2>1, <4>3
    <3>3. QED
      BY <2>3, <3>1, <3>2
  <2>4. QED
    BY <2>2, <2>3 DEF InJobs
<1>7. \A i \in Nat, k \in Keys : ~ InFrames(up, i, k)
  <2>1. up = <<>> /\ Len(up) = 0
    BY DEF Init
  <2>2. QED
    BY <2>1 DEF InFrames
<1>8. OnceInv
  BY <1>6, <1>7 DEF OnceInv, Single, UnderWay, Goroutines
<1>9. QED
  BY <1>3, <1>4, <1>5, <1>8 DEF SimInv

\* The outcome of a command that was not sent yet is nobody's business.
LEMMA SendOnce ==
  ASSUME SimInv, NEW k \in Keys, NEW o \in {"sent", "rejected"}, outcome[k] = "new",
         outcome' = [outcome EXCEPT ![k] = o], UNCHANGED <<todo, up, by, did>>
  PROVE  OnceInv' /\ VerdictInv' /\ (Late => Late')
<1>1. \A x \in Keys : outcome'[x] = IF x = k THEN o ELSE outcome[x]
  BY DEF SimInv, TypeOK
<1>2. Late => Late'
  BY <1>1 DEF Late
<1>3. VerdictInv'
  BY <1>1, <1>2 DEF SimInv, VerdictInv
<1>4. ASSUME NEW x \in Keys, UnderWay(todo["readLoop"], up, x)
      PROVE  Unused(x)' /\ (outcome'[x] = "sent" \/ Late')
  <2>1. Unused(x) /\ (outcome[x] = "sent" \/ Late)
    BY <1>4 DEF SimInv, OnceInv
  <2>2. QED
    BY <1>1, <1>2, <2>1 DEF Unused
<1>5. OnceInv'
  BY <1>4 DEF SimInv, OnceInv
<1>6. QED
  BY <1>2, <1>3, <1>5

\* A command is sent once: nothing on its way down has its key.
LEMMA SendStep == ASSUME SimInv, NEW k \in Keys, Send(k) PROVE SimInv'
<1> USE DEF SimInv
<1>0. /\ outcome[k] = "new" /\ did[k] = "nothing"
      /\ UNCHANGED <<dev, todo, alarms, open, up, torn, reading, stalls, view, by, typed, did>>
  BY DEF Send, DownInv, pace
<1>1. CASE Sends[k].text = ""
  <2>1. outcome' = [outcome EXCEPT ![k] = "rejected"] /\ down' = down /\ rows' = rows
    BY <1>1 DEF Send
  <2>2. OnceInv' /\ VerdictInv' /\ (Late => Late')
    BY <1>0, <2>1, SendOnce
  <2>3. TypeOK' /\ DeedInv' /\ ReplyInv'
    BY <1>0, <2>1 DEF TypeOK, DeedInv, ReplyInv
  <2>4. \A i \in 1..Len(down) : down[i] # k /\ down[i] \in Keys
    BY <1>0 DEF DownInv, TypeOK
  <2>5. DownInv'
    BY <1>0, <2>1, <2>2, <2>4 DEF DownInv, TypeOK
  <2>6. QED
    BY <2>2, <2>3, <2>5
<1>2. CASE Sends[k].text # ""
  <2>1. /\ outcome' = [outcome EXCEPT ![k] = "sent"]
        /\ down' = Append(down, k) /\ rows' = Append(rows, k)
    BY <1>2 DEF Send
  <2>2. /\ down' \in Seq(Keys) /\ Len(down') = Len(down) + 1 /\ Len(down) \in Nat
        /\ \A i \in 1..Len(down) : down'[i] = down[i] /\ down[i] \in Keys
        /\ down'[Len(down) + 1] = k
    BY <2>1, AppendProperties DEF TypeOK
  <2>3. rows' \in Seq(Keys)
    BY <2>1, AppendProperties DEF TypeOK
  <2>4. OnceInv' /\ VerdictInv' /\ (Late => Late')
    BY <1>0, <2>1, SendOnce
  <2>5. TypeOK' /\ DeedInv' /\ ReplyInv'
    BY <1>0, <2>1, <2>2, <2>3 DEF TypeOK, DeedInv, ReplyInv
  <2>6. \A i \in 1..Len(down) : down[i] # k
    BY <1>0 DEF DownInv
  <2>7. \A i \in 1..Len(down') : i \in 1..Len(down) \/ i = Len(down) + 1
    BY <2>2
  <2>8. \A x \in Keys : outcome'[x] = IF x = k THEN "sent" ELSE outcome[x]
    BY <2>1 DEF TypeOK
  <2>9. ASSUME NEW i \in 1..Len(down')
        PROVE  /\ outcome'[down'[i]] = "sent" \/ Late'
               /\ outcome'[down'[i]] \notin {"new", "rejected"} /\ did'[down'[i]] = "nothing"
    <3>1. CASE i \in 1..Len(down)
      <4>1. down'[i] = down[i] /\ down[i] \in Keys /\ down[i] # k
        BY <2>2, <2>6, <3>1
      <4>2. /\ outcome[down[i]] \notin {"new", "rejected"} /\ did[down[i]] = "nothing"
            /\ outcome[down[i]] = "sent" \/ Late
        BY <3>1 DEF DownInv
      <4>3. QED
        BY <1>0, <2>4, <2>8, <4>1, <4>2
    <3>2. CASE i = Len(down) + 1
      <4>1. down'[i] = k
        BY <2>2, <3>2
      <4>2. QED
        BY <1>0, <2>8, <4>1
    <3>3. QED
      BY <2>7, <3>1, <3>2
  <2>10. \A i, j \in 1..Len(down') : i < j => i \in 1..Len(down)
    BY <2>2
  <2>11. ASSUME NEW i \in 1..Len(down'), NEW j \in 1..Len(down'), i < j
         PROVE  down'[i] # down'[j]
    <3>1. i \in 1..Len(down) /\ down'[i] = down[i]
      BY <2>2, <2>10, <2>11
    <3>2. CASE j \in 1..Len(down)
      <4>1. down'[j] = down[j]
        BY <2>2, <3>2
      <4>2. down[i] # down[j]
        BY <2>11, <3>1, <3>2 DEF DownInv
      <4>3. QED
        BY <3>1, <4>1, <4>2
    <3>3. CASE j = Len(down) + 1
      BY <2>2, <2>6, <3>1, <3>3
    <3>4. QED
      BY <2>7, <3>2, <3>3
  <2>12. \A x \in Keys : outcome'[x] \in {"new", "rejected"} => did'[x] = "nothing"
    BY <1>0, <2>8 DEF DownInv
  <2>13. DownInv'
    BY <2>9, <2>11, <2>12 DEF DownInv
  <2>14. QED
    BY <2>4, <2>5, <2>13
<1>3. QED
  BY <1>1, <1>2

\* Changing the deed of a command whose deed was "nothing" leaves every reply
\* that agreed with its own.
LEMMA BackedLater ==
  ASSUME NEW f \in Frame, NEW k \in Keys, NEW deed, did \in [Keys -> Deeds],
         did[k] = "nothing", Backed(f, did)
  PROVE  Backed(f, [did EXCEPT ![k] = deed])
BY FrameKinds DEF Backed

\* A command is applied once, and its reply is made from that very deed.
LEMMA HandleStep == ASSUME SimInv, HandleServerFrame PROVE SimInv'
<1> USE DEF SimInv
<1> DEFINE k == Head(down)
           a == applyCommand(Sends[k].upper, dev)
           reply == Put([kind |-> "reply", key |-> k, text |-> a.reply])
           before == IF a.deed = "located" THEN <<Snap("position")>> ELSE <<>>
           after == IF Reports(Sends[k].text) THEN <<Snap("position")>> ELSE <<>>
           jobs == before \o <<reply>> \o after
           d == [did EXCEPT ![k] = a.deed]
<1>1. /\ down # <<>> /\ down \in Seq(Keys) /\ dev \in State /\ did \in [Keys -> Deeds]
      /\ todo \in [Goroutines -> Seq(Job)] /\ todo["readLoop"] = <<>>
  BY DEF HandleServerFrame, TypeOK
<1>2. /\ k \in Keys /\ did[k] = "nothing" /\ outcome[k] \notin {"new", "rejected"}
      /\ outcome[k] = "sent" \/ Late
      /\ Tail(down) \in Seq(Keys) /\ Len(Tail(down)) = Len(down) - 1 /\ Len(down) \in Nat
      /\ \A i \in 1..Len(Tail(down)) : Tail(down)[i] = down[i + 1] /\ down[i + 1] # k
  <2>1. k = down[1] /\ 1 \in 1..Len(down) /\ Len(down) \in Nat
    BY <1>1
  <2>2. /\ Tail(down) \in Seq(Keys) /\ Len(Tail(down)) = Len(down) - 1
        /\ \A i \in 1..Len(Tail(down)) : Tail(down)[i] = down[i + 1]
    BY <1>1, HeadTailProperties
  <2>3. \A i \in 1..Len(Tail(down)) : i + 1 \in 1..Len(down) /\ 1 < i + 1
    BY <2>1, <2>2
  <2>4. \A i \in 1..Len(Tail(down)) : down[i + 1] # down[1]
    BY <2>1, <2>3 DEF DownInv
  <2>5. did[k] = "nothing" /\ outcome[k] \notin {"new", "rejected"} /\ (outcome[k] = "sent" \/ Late)
    BY <2>1 DEF DownInv
  <2>6. k \in Keys
    BY <1>1, <2>1
  <2>7. QED
    BY <2>1, <2>2, <2>4, <2>5, <2>6
<1>3. /\ a.state \in State /\ a.reply \in Replies /\ a.deed \in Deeds \ {"nothing"}
      /\ a.reply \in Negative <=> a.deed \in {"refused", "unknown"}
      /\ OrdersCut(Sends[k].upper) => a.deed \in {"cut", "refused"}
      /\ OrdersResume(Sends[k].upper) => a.deed = "resumed"
      /\ ~OrdersCut(Sends[k].upper) /\ ~OrdersResume(Sends[k].upper) =>
           a.deed \in {"located", "told", "unknown"}
  BY <1>1, AnswerIsHonest
<1>4. /\ dev' = a.state /\ did' = d /\ down' = Tail(down)
      /\ todo' = [todo EXCEPT !["readLoop"] = jobs]
      /\ UNCHANGED <<alarms, open, up, torn, reading, stalls, view, outcome, rows, by, typed>>
  BY DEF HandleServerFrame, pace, server
<1> HIDE DEF a
<1>5. d \in [Keys -> Deeds] /\ d[k] = a.deed /\ \A x \in Keys : x # k => d[x] = did[x]
  BY <1>1, <1>2, <1>3
<1> HIDE DEF k
<1>6. reply \in Job /\ BackedJob(reply, d) /\ \A l : JobReply(reply, l) => l = k
  BY <1>2, <1>3, <1>5, MakeReply
<1> HIDE DEF reply, d
<1>7. /\ before \in Seq(Job) /\ BackedJobs(before, d) /\ Len(before) \in {0, 1}
      /\ \A i \in 1..Len(before) : before[i] = Snap("position")
      /\ after \in Seq(Job) /\ BackedJobs(after, d) /\ Len(after) \in {0, 1}
      /\ \A i \in 1..Len(after) : after[i] = Snap("position")
  <2>1. "position" \in Kinds
    BY DEF Kinds
  <2>2. QED
    BY <2>1, MakeSnap, BackedOne, BackedNone
<1> HIDE DEF before, after
<1>8. jobs \in Seq(Job) /\ BackedJobs(jobs, d)
  <2>1. <<reply>> \in Seq(Job) /\ BackedJobs(<<reply>>, d)
    BY <1>6, BackedOne
  <2>2. before \o <<reply>> \in Seq(Job) /\ BackedJobs(before \o <<reply>>, d)
    BY <1>7, <2>1, BackedConcat
  <2>3. QED
    BY <1>7, <2>2, BackedConcat
<1>9. \A i \in Nat, l \in Keys : InJobs(jobs, i, l) => i = Len(before) + 1 /\ l = k
  <2> DEFINE most == before \o <<reply>>
  <2>1. ASSUME NEW l PROVE ~ JobReply(Snap("position"), l)
    <3>1. "position" \in Kinds
      BY DEF Kinds
    <3>2. QED
      BY <3>1, MakeSnap
  <2>2. <<reply>> \in Seq(Job) /\ Len(<<reply>>) = 1 /\ <<reply>>[1] = reply
    BY <1>6
  <2>3. /\ most \in Seq(Job) /\ Len(most) = Len(before) + 1
        /\ \A i \in 1..Len(most) : most[i] = IF i <= Len(before) THEN before[i] ELSE reply
    <3>1. /\ most \in Seq(Job) /\ Len(most) = Len(before) + Len(<<reply>>)
          /\ \A i \in 1..Len(before) + Len(<<reply>>) :
               most[i] = IF i <= Len(before) THEN before[i] ELSE <<reply>>[i - Len(before)]
      BY <1>7, <2>2, ConcatProperties
    <3>2. \A i \in 1..Len(before) + 1 : ~(i <= Len(before)) => i - Len(before) = 1
      BY <1>7
    <3>3. QED
      BY <2>2, <3>1, <3>2
  <2> HIDE DEF most
  <2>4. /\ Len(jobs) = Len(most) + Len(after)
        /\ \A i \in 1..Len(most) + Len(after) :
             jobs[i] = IF i <= Len(most) THEN most[i] ELSE after[i - Len(most)]
    BY <1>7, <2>3, ConcatProperties DEF most
  <2> HIDE DEF jobs
  <2>5. ASSUME NEW i \in 1..Len(jobs), NEW l \in Keys, JobReply(jobs[i], l)
        PROVE  i = Len(before) + 1 /\ l = k
    <3>1. CASE i <= Len(before)
      <4>1. i \in 1..Len(before) /\ i \in 1..Len(most) /\ i <= Len(most) /\ i \in 1..Len(most) + Len(after)
        BY <1>7, <2>3, <2>4, <3>1
      <4>2. jobs[i] = Snap("position")
        BY <1>7, <2>3, <2>4, <3>1, <4>1
      <4>3. QED
        BY <2>1, <2>5, <4>2
    <3>2. CASE i = Len(before) + 1
      <4>1. i \in 1..Len(most) /\ i <= Len(most) /\ i \in 1..Len(most) + Len(after) /\ ~(i <= Len(before))
        BY <1>7, <2>3, <2>4, <3>2
      <4>2. jobs[i] = reply
        BY <2>3, <2>4, <4>1
      <4>3. QED
        BY <1>6, <2>5, <3>2, <4>2
    <3>3. CASE i > Len(before) + 1
      <4>1. i - Len(most) \in 1..Len(after) /\ ~(i <= Len(most)) /\ i \in 1..Len(most) + Len(after)
        BY <1>7, <2>3, <2>4, <3>3
      <4>2. jobs[i] = Snap("position")
        BY <1>7, <2>4, <4>1
      <4>3. QED
        BY <2>1, <2>5, <4>2
    <3>4. QED
      BY <1>7, <3>1, <3>2, <3>3
  <2>6. QED
    BY <2>5 DEF InJobs
<1> HIDE DEF jobs
<1>10. TypeOK'
  BY <1>2, <1>3, <1>4, <1>5, <1>8 DEF TypeOK, Goroutines
<1>11. DownInv'
  <2>1. Len(down') = Len(down) - 1 /\ Len(down) \in Nat
    BY <1>2, <1>4
  <2>2. \A i \in 1..Len(down') : down'[i] = down[i + 1] /\ down[i + 1] # k
    BY <1>2, <1>4
  <2>3. \A i \in 1..Len(down') : i + 1 \in 1..Len(down)
    BY <2>1
  <2>4. \A i \in 1..Len(down) : down[i] \in Keys
    BY <1>1
  <2>5. \A i, j \in 1..Len(down') : i < j => i + 1 < j + 1
    BY <2>1
  <2>6. Late' <=> Late
    BY <1>4 DEF Late
  <2>7. ASSUME NEW i \in 1..Len(down')
        PROVE  /\ outcome'[down'[i]] = "sent" \/ Late'
               /\ outcome'[down'[i]] \notin {"new", "rejected"} /\ did'[down'[i]] = "nothing"
    <3>1. i + 1 \in 1..Len(down) /\ down'[i] = down[i + 1] /\ down[i + 1] # k
      BY <2>2, <2>3
    <3>2. PICK j \in 1..Len(down) : down'[i] = down[j] /\ down[j] # k
      BY <3>1
    <3>3. /\ outcome[down[j]] \notin {"new", "rejected"} /\ did[down[j]] = "nothing"
          /\ outcome[down[j]] = "sent" \/ Late
      BY DEF DownInv
    <3>4. QED
      BY <1>4, <1>5, <2>4, <2>6, <3>2, <3>3
  <2>8. ASSUME NEW i \in 1..Len(down'), NEW j \in 1..Len(down'), i < j
        PROVE  down'[i] # down'[j]
    <3>1. PICK m \in 1..Len(down), n \in 1..Len(down) :
            m < n /\ down'[i] = down[m] /\ down'[j] = down[n]
      <4>1. i + 1 \in 1..Len(down) /\ j + 1 \in 1..Len(down) /\ i + 1 < j + 1
        BY <2>3, <2>5, <2>8
      <4>2. down'[i] = down[i + 1] /\ down'[j] = down[j + 1]
        BY <2>2
      <4>3. QED
        BY <4>1, <4>2
    <3>2. down[m] # down[n]
      BY <3>1 DEF DownInv
    <3>3. QED
      BY <3>1, <3>2
  <2>9. \A x \in Keys : outcome'[x] \in {"new", "rejected"} => did'[x] = "nothing"
    BY <1>2, <1>4, <1>5 DEF DownInv
  <2>10. QED
    BY <2>7, <2>8, <2>9 DEF DownInv
<1>12. DeedInv'
  <2>1. Proper(k, d)
    BY <1>3, <1>5 DEF Proper, OrdersResume
  <2>2. ASSUME NEW x \in Keys, x # k PROVE Proper(x, d)
    BY <1>5, <2>2 DEF Proper, DeedInv
  <2>3. QED
    BY <1>4, <2>1, <2>2 DEF DeedInv
<1>13. \A f \in Frame : Backed(f, did) => Backed(f, d)
  BY <1>1, <1>2, BackedLater DEF d
<1>14. ReplyInv'
  <2>1. ASSUME NEW g \in Goroutines, NEW i \in 1..Len(todo[g])
        PROVE  BackedJob(todo[g][i], d)
    <3>1. todo[g][i] \in Job /\ BackedJob(todo[g][i], did)
      BY <1>1 DEF ReplyInv, BackedJobs
    <3>2. QED
      BY <3>1, <1>13, JobKinds DEF BackedJob
  <2>2. \A g \in Goroutines : BackedJobs(todo'[g], d)
    BY <1>1, <1>4, <1>8, <2>1 DEF BackedJobs
  <2>3. BackedFrames(up, d)
    BY <1>13 DEF ReplyInv, BackedFrames, TypeOK
  <2>4. QED
    BY <1>4, <2>2, <2>3 DEF ReplyInv
<1>15. OnceInv'
  <2>1. /\ todo'["readLoop"] = jobs
        /\ \A g \in Goroutines \ {"readLoop"} : todo'[g] = todo[g]
    BY <1>1, <1>4 DEF Goroutines
  <2>2. \A i \in Nat : ~ InFrames(up, i, k)
    <3>1. ASSUME NEW i \in 1..Len(up), FrameReply(up[i], k) PROVE FALSE
      <4>1. Backed(up[i], did)
        BY DEF ReplyInv, BackedFrames
      <4>2. QED
        BY <1>2, <3>1, <4>1 DEF Backed, FrameReply
    <3>2. QED
      BY <3>1 DEF InFrames
  <2>3. Single(jobs, up)
    <3>1. Len(before) + 1 \in Nat
      BY <1>7
    <3>2. \A x, l \in Keys : \A i, j \in Nat : InJobs(jobs, i, x) /\ InJobs(jobs, j, l) => i = j
      BY <1>9, <3>1
    <3>3. \A x \in Keys : \A i, j \in Nat : InFrames(up, i, x) /\ InFrames(up, j, x) => i = j
      BY DEF OnceInv, Single
    <3>4. \A x \in Keys : \A i, j \in Nat : ~ (InJobs(jobs, i, x) /\ InFrames(up, j, x))
      BY <1>9, <2>2
    <3>5. QED
      BY <3>2, <3>3, <3>4 DEF Single
  <2>4. Unused(k)
    <3>1. ASSUME NEW j \in Keys, by[j] = k PROVE FALSE
      <4>1. by[j] # Absent
        BY <1>2, <3>1, SimulatorAssumption
      <4>2. did[by[j]] # "nothing"
        BY <4>1 DEF VerdictInv
      <4>3. QED
        BY <1>2, <3>1, <4>2
    <3>2. QED
      BY <3>1 DEF Unused
  <2>5. ASSUME NEW x \in Keys, UnderWay(jobs, up, x)
        PROVE  Unused(x)' /\ (outcome'[x] = "sent" \/ Late')
    <3>1. Unused(x) /\ (outcome[x] = "sent" \/ Late)
      <4>1. CASE x = k
        BY <1>2, <2>4, <4>1
      <4>2. CASE x # k
        <5>1. UnderWay(todo["readLoop"], up, x)
          BY <1>9, <2>5, <4>2 DEF UnderWay
        <5>2. QED
          BY <5>1 DEF OnceInv
      <4>3. QED
        BY <4>1, <4>2
    <3>2. QED
      BY <1>4, <3>1 DEF Unused, Late
  <2>6. QED
    BY <1>4, <2>1, <2>3, <2>5 DEF OnceInv
<1>16. VerdictInv'
  <2>1. ASSUME NEW x \in Keys, by[x] # Absent PROVE d[by[x]] = did[by[x]]
    <3>1. by[x] \in Keys /\ did[by[x]] # "nothing"
      BY <2>1 DEF TypeOK, VerdictInv
    <3>2. QED
      BY <1>2, <1>5, <3>1
  <2>2. QED
    BY <1>4, <2>1 DEF VerdictInv, Late
<1>17. QED
  BY <1>10, <1>11, <1>12, <1>14, <1>15, <1>16

\* A goroutine's jobs change, and bring no reply that was not among them.
LEMMA JobsStep ==
  ASSUME SimInv, NEW g \in Goroutines, NEW q \in Seq(Job), BackedJobs(q, did),
         NEW c \in Nat,
         \A i \in Nat, k \in Keys : InJobs(q, i, k) => InJobs(todo[g], i + c, k),
         todo' = [todo EXCEPT ![g] = q], UNCHANGED <<down, outcome, by, did, up>>
  PROVE  /\ DownInv' /\ DeedInv' /\ ReplyInv' /\ OnceInv' /\ VerdictInv'
         /\ todo' \in [Goroutines -> Seq(Job)]
<1>1. \A h \in Goroutines : todo'[h] = IF h = g THEN q ELSE todo[h]
  BY DEF SimInv, TypeOK
<1>2. ReplyInv'
  BY <1>1 DEF SimInv, ReplyInv
<1>3. /\ Late' <=> Late
      /\ \A k : Unused(k)' <=> Unused(k)
  BY DEF Late, Unused
<1>4. "readLoop" \in Goroutines
  BY DEF Goroutines
<1>5. ASSUME NEW h \in Goroutines \ {"readLoop"}, NEW i \in Nat, NEW k \in Keys
      PROVE  ~ InJobs(todo'[h], i, k)
  <2>1. ~ InJobs(todo[h], i, k) /\ ~ InJobs(todo[h], i + c, k)
    BY DEF SimInv, OnceInv
  <2>2. QED
    BY <1>1, <2>1
<1>6. PICK e \in Nat : \A i \in Nat, k \in Keys :
        InJobs(todo'["readLoop"], i, k) => InJobs(todo["readLoop"], i + e, k)
  <2>1. CASE g = "readLoop"
    BY <1>1, <2>1
  <2>2. CASE g # "readLoop"
    <3>1. \A i \in Nat : i + 0 = i
      OBVIOUS
    <3>2. todo'["readLoop"] = todo["readLoop"]
      BY <1>1, <1>4, <2>2
    <3>3. QED
      BY <3>1, <3>2
  <2>3. QED
    BY <2>1, <2>2
<1>7. Single(todo["readLoop"], up)
  BY DEF SimInv, OnceInv
<1>8. Single(todo'["readLoop"], up)
  <2>1. ASSUME NEW k \in Keys, NEW l \in Keys, NEW i \in Nat, NEW j \in Nat,
               InJobs(todo'["readLoop"], i, k), InJobs(todo'["readLoop"], j, l)
        PROVE  i = j
    <3>1. InJobs(todo["readLoop"], i + e, k) /\ InJobs(todo["readLoop"], j + e, l)
      BY <1>6, <2>1
    <3>2. i + e = j + e
      <4>1. i + e \in Nat /\ j + e \in Nat
        OBVIOUS
      <4>2. QED
        BY <1>7, <3>1, <4>1 DEF Single
    <3>3. QED
      BY <3>2
  <2>2. ASSUME NEW k \in Keys, NEW i \in Nat, NEW j \in Nat,
               InJobs(todo'["readLoop"], i, k), InFrames(up, j, k)
        PROVE  FALSE
    <3>1. InJobs(todo["readLoop"], i + e, k) /\ i + e \in Nat
      BY <1>6, <2>2
    <3>2. QED
      BY <1>7, <2>2, <3>1 DEF Single
  <2>3. QED
    BY <1>7, <2>1, <2>2 DEF Single
<1>9. ASSUME NEW k \in Keys, UnderWay(todo'["readLoop"], up, k)
      PROVE  UnderWay(todo["readLoop"], up, k)
  <2>1. PICK i \in Nat : InJobs(todo'["readLoop"], i, k) \/ InFrames(up, i, k)
    BY <1>9 DEF UnderWay
  <2>2. InJobs(todo["readLoop"], i + e, k) \/ InFrames(up, i, k)
    BY <1>6, <2>1
  <2>3. i + e \in Nat
    OBVIOUS
  <2>4. QED
    BY <2>2, <2>3 DEF UnderWay
<1>10. OnceInv'
  BY <1>3, <1>5, <1>8, <1>9 DEF SimInv, OnceInv
<1>11. DownInv' /\ DeedInv' /\ VerdictInv'
  BY <1>3 DEF SimInv, DownInv, DeedInv, VerdictInv
<1>12. QED
  BY <1>2, <1>10, <1>11 DEF SimInv, TypeOK

\* A snapshot becomes a report to write.
LEMMA SnapshotStep == ASSUME SimInv, NEW g \in Goroutines, Snapshot(g) PROVE SimInv'
<1> DEFINE x == Head(todo[g])
           y == Put([kind |-> x.kind, state |-> Reported(dev)])
           q == <<y>> \o Tail(todo[g])
<1>1. /\ todo[g] # <<>> /\ x.do = "snapshot" /\ todo' = [todo EXCEPT ![g] = q]
      /\ UNCHANGED <<dev, alarms, open, down, up, torn, reading, stalls, view, outcome, rows,
                     by, typed, did>>
      /\ todo[g] \in Seq(Job) /\ BackedJobs(todo[g], did) /\ dev \in State
  BY DEF Snapshot, SimInv, TypeOK, ReplyInv, pace, server
<1>2. x \in Job /\ Tail(todo[g]) \in Seq(Job) /\ BackedJobs(Tail(todo[g]), did)
  BY <1>1, BackedTail
<1>3. x.kind \in Kinds /\ Reported(dev) \in Shown
  BY <1>1, <1>2, JobKinds, ReportedShown
<1>4. y \in Job /\ BackedJob(y, did) /\ \A k : ~ JobReply(y, k)
  BY <1>3, MakeReport
<1> HIDE DEF y
<1>5. q \in Seq(Job) /\ BackedJobs(q, did)
  BY <1>2, <1>4, BackedOne, BackedConcat
<1>6. ASSUME NEW i \in Nat, NEW k \in Keys, InJobs(q, i, k)
      PROVE  InJobs(todo[g], i + 0, k)
  <2>1. /\ Len(Tail(todo[g])) = Len(todo[g]) - 1 /\ Len(todo[g]) \in Nat
        /\ \A m \in 1..Len(Tail(todo[g])) : Tail(todo[g])[m] = todo[g][m + 1]
    BY <1>1, HeadTailProperties, LenProperties
  <2>2. <<y>> \in Seq(Job) /\ Len(<<y>>) = 1 /\ <<y>>[1] = y
    BY <1>4
  <2>3. /\ Len(q) = 1 + Len(Tail(todo[g]))
        /\ \A m \in 1..1 + Len(Tail(todo[g])) :
             q[m] = IF m <= 1 THEN <<y>>[m] ELSE Tail(todo[g])[m - 1]
    BY <1>2, <2>2, ConcatProperties
  <2> HIDE DEF q
  <2>4. i \in 1..Len(q) /\ JobReply(q[i], k)
    BY <1>6 DEF InJobs
  <2>5. i # 1
    BY <1>4, <2>2, <2>3, <2>4
  <2>6. i - 1 \in 1..Len(Tail(todo[g])) /\ i \in 1..Len(todo[g]) /\ i + 0 = i /\ ~(i <= 1)
        /\ (i - 1) + 1 = i /\ i \in 1..1 + Len(Tail(todo[g]))
    BY <2>1, <2>3, <2>4, <2>5
  <2>7. q[i] = todo[g][i]
    BY <2>1, <2>3, <2>6
  <2>8. QED
    BY <2>4, <2>6, <2>7 DEF InJobs
<1> HIDE DEF q
<1>7. /\ DownInv' /\ DeedInv' /\ ReplyInv' /\ OnceInv' /\ VerdictInv'
      /\ todo' \in [Goroutines -> Seq(Job)]
  BY <1>1, <1>5, <1>6, JobsStep, 0 \in Nat
<1>8. QED
  BY <1>1, <1>7 DEF SimInv, TypeOK

\* A written frame moves from the jobs to the connection.
LEMMA AppendStep ==
  ASSUME SimInv, NEW g \in Goroutines, todo[g] # <<>>, Head(todo[g]).do = "write",
         up' = Append(up, Head(todo[g]).frame), todo' = [todo EXCEPT ![g] = Tail(todo[g])],
         UNCHANGED <<down, outcome, by, did>>
  PROVE  /\ DownInv' /\ DeedInv' /\ ReplyInv' /\ OnceInv' /\ VerdictInv'
         /\ todo' \in [Goroutines -> Seq(Job)] /\ up' \in Seq(Frame) /\ Len(up') = Len(up) + 1
<1> DEFINE x == Head(todo[g])
           f == x.frame
<1>1. /\ todo[g] \in Seq(Job) /\ BackedJobs(todo[g], did) /\ "readLoop" \in Goroutines
      /\ up \in Seq(Frame) /\ BackedFrames(up, did) /\ Len(up) \in Nat
      /\ \A h \in Goroutines : todo'[h] = IF h = g THEN Tail(todo[g]) ELSE todo[h]
  BY DEF SimInv, TypeOK, ReplyInv, Goroutines
<1>2. /\ x \in Job /\ BackedJob(x, did) /\ x = todo[g][1] /\ 1 \in 1..Len(todo[g])
      /\ Tail(todo[g]) \in Seq(Job) /\ BackedJobs(Tail(todo[g]), did)
  BY <1>1, BackedTail
<1>3. f \in Frame /\ Backed(f, did)
  BY <1>2, JobKinds DEF BackedJob
<1>4. \A k : FrameReply(f, k) => InJobs(todo[g], 1, k)
  BY <1>2 DEF InJobs, JobReply
<1> HIDE DEF f
<1>5. /\ up' \in Seq(Frame) /\ Len(up') = Len(up) + 1
      /\ \A i \in 1..Len(up) : up'[i] = up[i]
      /\ up'[Len(up) + 1] = f
  BY <1>1, <1>3, AppendProperties DEF f
<1>6. BackedFrames(up', did)
  <2>1. \A i \in 1..Len(up') : i \in 1..Len(up) \/ i = Len(up) + 1
    BY <1>1, <1>5
  <2>2. QED
    BY <1>1, <1>3, <1>5, <2>1 DEF BackedFrames
<1>7. ReplyInv'
  BY <1>1, <1>2, <1>6 DEF SimInv, ReplyInv
<1>8. \A i \in Nat, k \in Keys : InFrames(up', i, k) =>
        InFrames(up, i, k) \/ (i = Len(up) + 1 /\ FrameReply(f, k))
  BY <1>1, <1>3, AppendFrames DEF f
<1>9. /\ \A h \in Goroutines \ {"readLoop"}, i \in Nat, k \in Keys : ~ InJobs(todo[h], i, k)
      /\ Single(todo["readLoop"], up)
  BY DEF SimInv, OnceInv
<1>10. \A k \in Keys : FrameReply(f, k) => g = "readLoop" /\ InJobs(todo["readLoop"], 1, k)
  <2>1. 1 \in Nat
    OBVIOUS
  <2>2. QED
    BY <1>4, <1>9, <2>1
<1>11. PICK e \in {0, 1} :
         /\ g = "readLoop" => e = 1
         /\ \A i \in Nat, k \in Keys :
              InJobs(todo'["readLoop"], i, k) => InJobs(todo["readLoop"], i + e, k)
  <2>1. CASE g = "readLoop"
    <3>1. todo'["readLoop"] = Tail(todo["readLoop"])
      BY <1>1, <2>1
    <3>2. QED
      BY <1>1, <2>1, <3>1, TailJobs
  <2>2. CASE g # "readLoop"
    <3>1. \A i \in Nat : i + 0 = i
      OBVIOUS
    <3>2. todo'["readLoop"] = todo["readLoop"]
      BY <1>1, <2>2
    <3>3. QED
      BY <2>2, <3>1, <3>2
  <2>3. QED
    BY <2>1, <2>2
<1>12. ASSUME NEW k \in Keys, NEW l \in Keys, NEW i \in Nat, NEW j \in Nat,
              InJobs(todo'["readLoop"], i, k), InJobs(todo'["readLoop"], j, l)
       PROVE  i = j
  <2>1. InJobs(todo["readLoop"], i + e, k) /\ InJobs(todo["readLoop"], j + e, l)
    BY <1>11, <1>12
  <2>2. i + e \in Nat /\ j + e \in Nat
    OBVIOUS
  <2>3. i + e = j + e
    BY <1>9, <2>1, <2>2 DEF Single
  <2>4. QED
    BY <2>3
<1>13. ASSUME NEW k \in Keys, NEW i \in Nat, NEW j \in Nat, InFrames(up', i, k), InFrames(up', j, k)
       PROVE  i = j
  <2>1. 1 \in Nat
    OBVIOUS
  <2>2. ASSUME FrameReply(f, k), NEW m \in Nat, InFrames(up, m, k) PROVE FALSE
    BY <1>9, <1>10, <2>1, <2>2 DEF Single
  <2>3. InFrames(up, i, k) /\ InFrames(up, j, k) => i = j
    BY <1>9 DEF Single
  <2>4. QED
    BY <1>8, <1>13, <2>2, <2>3
<1>14. ASSUME NEW k \in Keys, NEW i \in Nat, NEW j \in Nat,
              InJobs(todo'["readLoop"], i, k), InFrames(up', j, k)
       PROVE  FALSE
  <2>1. InJobs(todo["readLoop"], i + e, k) /\ i + e \in Nat
    BY <1>11, <1>14
  <2>2. CASE InFrames(up, j, k)
    BY <1>9, <2>1, <2>2 DEF Single
  <2>3. CASE FrameReply(f, k)
    <3>1. InJobs(todo["readLoop"], 1, k) /\ e = 1 /\ 1 \in Nat
      BY <1>10, <1>11, <2>3
    <3>2. i + e = 1
      BY <1>9, <2>1, <3>1 DEF Single
    <3>3. i \in 1..Len(todo'["readLoop"])
      BY <1>14 DEF InJobs
    <3>4. QED
      BY <3>1, <3>2, <3>3
  <2>4. QED
    BY <1>8, <1>14, <2>2, <2>3
<1>15. Single(todo'["readLoop"], up')
  BY <1>12, <1>13, <1>14 DEF Single
<1>16. ASSUME NEW k \in Keys, UnderWay(todo'["readLoop"], up', k)
       PROVE  UnderWay(todo["readLoop"], up, k)
  <2>1. PICK i \in Nat : InJobs(todo'["readLoop"], i, k) \/ InFrames(up', i, k)
    BY <1>16 DEF UnderWay
  <2>2. i + e \in Nat /\ 1 \in Nat
    OBVIOUS
  <2>3. \/ InJobs(todo["readLoop"], i + e, k) \/ InFrames(up, i, k)
        \/ InJobs(todo["readLoop"], 1, k)
    BY <1>8, <1>10, <1>11, <2>1
  <2>4. QED
    BY <2>2, <2>3 DEF UnderWay
<1>17. /\ Late' <=> Late
       /\ \A k : Unused(k)' <=> Unused(k)
  BY DEF Late, Unused
<1>18. ASSUME NEW h \in Goroutines \ {"readLoop"}, NEW i \in Nat, NEW k \in Keys
       PROVE  ~ InJobs(todo'[h], i, k)
  <2>1. CASE h = g
    <3>1. InJobs(todo'[h], i, k) => InJobs(todo[h], i + 1, k)
      BY <1>1, <2>1, TailJobs
    <3>2. i + 1 \in Nat
      OBVIOUS
    <3>3. QED
      BY <1>9, <3>1, <3>2
  <2>2. CASE h # g
    BY <1>1, <1>9, <2>2
  <2>3. QED
    BY <2>1, <2>2
<1>19. OnceInv'
  BY <1>15, <1>16, <1>17, <1>18 DEF SimInv, OnceInv
<1>20. DownInv' /\ DeedInv' /\ VerdictInv'
  BY <1>17 DEF SimInv, DownInv, DeedInv, VerdictInv
<1>21. todo' \in [Goroutines -> Seq(Job)]
  BY <1>2 DEF SimInv, TypeOK
<1>22. QED
  BY <1>5, <1>7, <1>19, <1>20, <1>21

\* A frame is written, or it is lost with what would have followed it.
LEMMA WriteStep == ASSUME SimInv, NEW g \in Goroutines, Write(g) PROVE SimInv'
<1>1. /\ todo[g] # <<>> /\ Head(todo[g]).do = "write"
      /\ UNCHANGED <<dev, alarms, open, down, reading, stalls, view, outcome, rows, by, typed, did>>
      /\ todo[g] \in Seq(Job) /\ BackedJobs(todo[g], did)
  BY DEF Write, SimInv, TypeOK, ReplyInv, pace, server
<1>2. torn' \in BOOLEAN
  BY DEF Write, Written, WriteFails, SimInv, TypeOK
<1>3. CASE /\ Len(up) < MaxUp /\ up' = Append(up, Head(todo[g]).frame)
           /\ todo' = [todo EXCEPT ![g] = Tail(todo[g])]
  <2>1. /\ DownInv' /\ DeedInv' /\ ReplyInv' /\ OnceInv' /\ VerdictInv'
        /\ todo' \in [Goroutines -> Seq(Job)] /\ up' \in Seq(Frame) /\ Len(up') = Len(up) + 1
    BY <1>1, <1>3, AppendStep
  <2>2. Len(up') <= MaxUp
    BY <1>3, <2>1, SimulatorAssumption DEF SimInv, TypeOK
  <2>3. QED
    BY <1>1, <1>2, <2>1, <2>2 DEF SimInv, TypeOK
<1>4. CASE up' = up /\ todo' = [todo EXCEPT ![g] = Tail(todo[g])]
  <2>1. Tail(todo[g]) \in Seq(Job) /\ BackedJobs(Tail(todo[g]), did)
    BY <1>1, BackedTail
  <2>2. \A i \in Nat, k \in Keys : InJobs(Tail(todo[g]), i, k) => InJobs(todo[g], i + 1, k)
    BY <1>1, TailJobs
  <2>3. /\ DownInv' /\ DeedInv' /\ ReplyInv' /\ OnceInv' /\ VerdictInv'
        /\ todo' \in [Goroutines -> Seq(Job)]
    BY <1>1, <1>4, <2>1, <2>2, JobsStep, 1 \in Nat
  <2>4. QED
    BY <1>1, <1>2, <1>4, <2>3 DEF SimInv, TypeOK
<1>5. CASE up' = up /\ todo' = [todo EXCEPT ![g] = <<>>]
  <2>1. <<>> \in Seq(Job) /\ BackedJobs(<<>>, did)
    BY BackedNone
  <2>2. \A i \in Nat, k \in Keys : InJobs(<<>>, i, k) => InJobs(todo[g], i + 1, k)
    BY DEF InJobs
  <2>3. /\ DownInv' /\ DeedInv' /\ ReplyInv' /\ OnceInv' /\ VerdictInv'
        /\ todo' \in [Goroutines -> Seq(Job)]
    BY <1>1, <1>5, <2>1, <2>2, JobsStep, 1 \in Nat
  <2>4. QED
    BY <1>1, <1>2, <1>5, <2>3 DEF SimInv, TypeOK
<1>6. QED
  BY <1>3, <1>4, <1>5 DEF Write, Written, WriteFails

\* The tickers, the alarms and the console leave a snapshot to take.
LEMMA SnapJobs ==
  ASSUME SimInv, NEW g \in Goroutines, NEW kind \in Kinds,
         todo' = [todo EXCEPT ![g] = <<Snap(kind)>>], UNCHANGED <<down, outcome, by, did, up>>
  PROVE  /\ DownInv' /\ DeedInv' /\ ReplyInv' /\ OnceInv' /\ VerdictInv'
         /\ todo' \in [Goroutines -> Seq(Job)]
<1>1. <<Snap(kind)>> \in Seq(Job) /\ BackedJobs(<<Snap(kind)>>, did)
  BY MakeSnap, BackedOne
<1>2. \A i \in Nat, k \in Keys : InJobs(<<Snap(kind)>>, i, k) => InJobs(todo[g], i + 0, k)
  <2>1. \A k : ~ JobReply(Snap(kind), k)
    BY MakeSnap
  <2>2. Len(<<Snap(kind)>>) = 1 /\ <<Snap(kind)>>[1] = Snap(kind)
    OBVIOUS
  <2>3. \A i \in 1..1 : i = 1
    OBVIOUS
  <2>4. QED
    BY <2>1, <2>2, <2>3 DEF InJobs
<1>3. QED
  BY <1>1, <1>2, JobsStep, 0 \in Nat

\* The tickers and the alarms.
LEMMA RunStep ==
  ASSUME SimInv, Alarm \/ \E kind \in {"position", "heartbeat"} : Tick(kind)
  PROVE  SimInv'
<1>1. "run" \in Goroutines /\ {"position", "heartbeat", "alarm"} \subseteq Kinds
  BY DEF Goroutines, Kinds
<1>2. ASSUME NEW kind \in {"position", "heartbeat"}, Tick(kind) PROVE SimInv'
  BY <1>1, <1>2, SnapJobs DEF Tick, SimInv, TypeOK, pace, server
<1>3. ASSUME Alarm PROVE SimInv'
  <2>1. /\ todo' = [todo EXCEPT !["run"] = <<Snap("alarm")>>] /\ alarms' = alarms - 1 /\ alarms > 0
        /\ UNCHANGED <<dev, open, down, up, torn, reading, stalls, view, outcome, rows, by, typed, did>>
    BY <1>3 DEF Alarm, pace, server
  <2>2. alarms' \in 0..AlarmBuffer
    BY <2>1, SimulatorAssumption DEF SimInv, TypeOK
  <2>3. QED
    BY <1>1, <2>1, <2>2, SnapJobs DEF SimInv, TypeOK
<1>4. QED
  BY <1>2, <1>3

\* What the commands, their deeds, their replies and their verdicts rest on.
LEMMA SameCommands ==
  ASSUME SimInv, UNCHANGED <<todo, down, up, outcome, by, did>>
  PROVE  DownInv' /\ DeedInv' /\ ReplyInv' /\ OnceInv' /\ VerdictInv'
<1>1. /\ Late' <=> Late
      /\ \A k : Unused(k)' <=> Unused(k)
  BY DEF Late, Unused
<1>2. QED
  BY <1>1 DEF SimInv, DownInv, DeedInv, ReplyInv, OnceInv, VerdictInv

\* The console changes the vehicle, never what was done for a command.
LEMMA TypeStep == ASSUME SimInv, Type PROVE SimInv'
<1>1. "consoleLoop" \in Goroutines /\ "position" \in Kinds
  BY DEF Goroutines, Kinds
<1>2. /\ typed' \in 0..MaxTyped
      /\ UNCHANGED <<up, torn, reading, stalls, view, outcome, rows, by, did>>
  BY SimulatorAssumption DEF Type, SimInv, TypeOK, pace, server
<1>3. ASSUME NEW s \in Console, dev' = s,
             todo' = [todo EXCEPT !["consoleLoop"] = <<Snap("position")>>],
             UNCHANGED <<alarms, open, down>>
      PROVE  SimInv'
  <2>1. s \in State
    <3>1. dev \in State
      BY DEF SimInv, TypeOK
    <3>2. \A on \in BOOLEAN : [dev EXCEPT !.acc = on] \in State
      BY <3>1, Zenon DEF State
    <3>3. \A v \in Speeds : [dev EXCEPT !.speed = v] \in State
      BY <3>1 DEF State
    <3>4. QED
      BY <3>2, <3>3 DEF Console
  <2>2. QED
    BY <1>1, <1>2, <1>3, <2>1, SnapJobs DEF SimInv, TypeOK
<1>4. ASSUME alarms < AlarmBuffer, alarms' = alarms + 1, UNCHANGED <<dev, todo, open, down>>
      PROVE  SimInv'
  <2>1. alarms' \in 0..AlarmBuffer
    BY <1>4, SimulatorAssumption DEF SimInv, TypeOK
  <2>2. DownInv' /\ DeedInv' /\ ReplyInv' /\ OnceInv' /\ VerdictInv'
    BY <1>2, <1>4, SameCommands
  <2>3. QED
    BY <1>2, <1>4, <2>1, <2>2 DEF SimInv, TypeOK
<1>5. ASSUME open' = FALSE, down' = <<>>, UNCHANGED <<dev, todo, alarms>>
      PROVE  SimInv'
  <2>1. down' \in Seq(Keys) /\ \A i \in 1..Len(down') : FALSE
    BY <1>5
  <2>2. \A k \in Keys : outcome'[k] \in {"new", "rejected"} => did'[k] = "nothing"
    BY <1>2 DEF SimInv, DownInv
  <2>3. DownInv'
    BY <2>1, <2>2 DEF DownInv
  <2>4. TypeOK'
    BY <1>2, <1>5, <2>1 DEF SimInv, TypeOK
  <2>5. /\ Late' <=> Late
        /\ \A k : Unused(k)' <=> Unused(k)
    BY <1>2 DEF Late, Unused
  <2>6. DeedInv' /\ ReplyInv' /\ OnceInv' /\ VerdictInv'
    BY <1>2, <1>5, <2>5 DEF SimInv, DeedInv, ReplyInv, OnceInv, VerdictInv
  <2>7. QED
    BY <2>3, <2>4, <2>6 DEF SimInv
<1>6. QED
  BY <1>3, <1>4, <1>5 DEF Type

\* The server stops reading and goes on.
LEMMA PaceStep == ASSUME SimInv, Stall \/ Resume PROVE SimInv'
<1>1. /\ reading' \in BOOLEAN /\ stalls' \in 0..MaxStalls
      /\ UNCHANGED <<dev, todo, alarms, open, down, up, torn, view, outcome, rows, by, typed, did>>
  <2>1. CASE Stall
    <3>1. stalls < MaxStalls /\ stalls' = stalls + 1 /\ stalls \in 0..MaxStalls /\ MaxStalls \in Nat
      BY <2>1, SimulatorAssumption DEF Stall, SimInv, TypeOK
    <3>2. stalls' \in 0..MaxStalls
      BY <3>1
    <3>3. QED
      BY <2>1, <3>2 DEF Stall, server
  <2>2. CASE Resume
    BY <2>2 DEF Resume, server, SimInv, TypeOK
  <2>3. QED
    BY <2>1, <2>2
<1>2. DownInv' /\ DeedInv' /\ ReplyInv' /\ OnceInv' /\ VerdictInv'
  BY <1>1, SameCommands
<1>3. QED
  BY <1>1, <1>2 DEF SimInv, TypeOK

\* Once a command has timed out a reply may find its row closed.
LEMMA ExpireStep == ASSUME SimInv, NEW k \in Keys, Expire(k) PROVE SimInv'
<1>1. /\ outcome[k] = "sent" /\ outcome' = [outcome EXCEPT ![k] = "timeout"]
      /\ UNCHANGED <<dev, todo, alarms, open, down, up, torn, reading, stalls, view, rows, by,
                     typed, did>>
  BY DEF Expire, Open, pace
<1>2. \A x \in Keys : outcome'[x] = IF x = k THEN "timeout" ELSE outcome[x]
  BY <1>1 DEF SimInv, TypeOK
<1>3. Late'
  BY <1>2 DEF Late
<1>4. TypeOK'
  BY <1>1 DEF SimInv, TypeOK
<1>5. DownInv'
  BY <1>1, <1>2, <1>3 DEF SimInv, DownInv, TypeOK
<1>6. DeedInv' /\ ReplyInv'
  BY <1>1 DEF SimInv, DeedInv, ReplyInv
<1>7. OnceInv'
  <2>1. \A x : Unused(x)' <=> Unused(x)
    BY <1>1 DEF Unused
  <2>2. QED
    BY <1>1, <1>3, <2>1 DEF SimInv, OnceInv
<1>8. VerdictInv'
  BY <1>1, <1>2, <1>3 DEF SimInv, VerdictInv
<1>9. QED
  BY <1>4, <1>5, <1>6, <1>7, <1>8 DEF SimInv

\* A reply that is read is not under way any more.
LEMMA ReadFrames ==
  ASSUME SimInv, up # <<>>
  PROVE  /\ Single(todo["readLoop"], Tail(up))
         /\ \A k \in Keys : UnderWay(todo["readLoop"], Tail(up), k) =>
              UnderWay(todo["readLoop"], up, k) /\ ~ FrameReply(Head(up), k)
<1>1. up \in Seq(Frame) /\ Single(todo["readLoop"], up)
  BY DEF SimInv, TypeOK, OnceInv
<1>2. \A i \in Nat, k \in Keys : InFrames(Tail(up), i, k) => InFrames(up, i + 1, k)
  BY <1>1, TailFrames
<1>3. \A i \in Nat : i + 1 \in Nat
  OBVIOUS
<1>4. \A k \in Keys : FrameReply(Head(up), k) => InFrames(up, 1, k)
  <2>1. Head(up) = up[1] /\ 1 \in 1..Len(up)
    BY <1>1
  <2>2. QED
    BY <2>1 DEF InFrames
<1>5. Single(todo["readLoop"], Tail(up))
  <2>1. ASSUME NEW k \in Keys, NEW i \in Nat, NEW j \in Nat,
               InFrames(Tail(up), i, k), InFrames(Tail(up), j, k)
        PROVE  i = j
    <3>1. i + 1 = j + 1
      BY <1>1, <1>2, <1>3, <2>1 DEF Single
    <3>2. QED
      BY <3>1
  <2>2. ASSUME NEW k \in Keys, NEW i \in Nat, NEW j \in Nat,
               InJobs(todo["readLoop"], i, k), InFrames(Tail(up), j, k)
        PROVE  FALSE
    BY <1>1, <1>2, <1>3, <2>2 DEF Single
  <2>3. QED
    BY <1>1, <2>1, <2>2 DEF Single
<1>6. ASSUME NEW k \in Keys, UnderWay(todo["readLoop"], Tail(up), k)
      PROVE  UnderWay(todo["readLoop"], up, k) /\ ~ FrameReply(Head(up), k)
  <2>1. PICK i \in Nat : InJobs(todo["readLoop"], i, k) \/ InFrames(Tail(up), i, k)
    BY <1>6 DEF UnderWay
  <2>2. UnderWay(todo["readLoop"], up, k)
    BY <1>2, <1>3, <2>1 DEF UnderWay
  <2>3. ASSUME FrameReply(Head(up), k) PROVE FALSE
    <3>1. InFrames(up, 1, k) /\ 1 \in Nat
      BY <1>4, <2>3
    <3>2. CASE InJobs(todo["readLoop"], i, k)
      BY <1>1, <3>1, <3>2 DEF Single
    <3>3. CASE InFrames(Tail(up), i, k)
      <4>1. i + 1 = 1
        BY <1>1, <1>2, <1>3, <3>1, <3>3 DEF Single
      <4>2. i \in 1..Len(Tail(up))
        BY <3>3 DEF InFrames
      <4>3. QED
        BY <4>1, <4>2
    <3>4. QED
      BY <2>1, <3>2, <3>3
  <2>4. QED
    BY <2>2, <2>3
<1>7. QED
  BY <1>5, <1>6

\* A reply closes an open command, its own if that is open.
LEMMA MatchedOpen ==
  ASSUME SimInv, NEW key \in Keys, NEW k \in Matched(key)
  PROVE  k \in Keys /\ outcome[k] = "sent" /\ (outcome[key] = "sent" => k = key)
<1>1. \A i \in 1..Len(rows) : rows[i] \in Keys
  BY DEF SimInv, TypeOK
<1>2. QED
  BY <1>1 DEF Matched, FindOldestOpen, Open

\* The server closes a command by a reply that agrees with its deed.
LEMMA ReceiveStep == ASSUME SimInv, Receive PROVE SimInv'
<1> DEFINE f == Head(up)
<1>1. /\ up # <<>> /\ up \in Seq(Frame) /\ up' = Tail(up)
      /\ UNCHANGED <<dev, todo, alarms, open, down, torn, reading, stalls, rows, typed, did>>
  BY DEF Receive, SimInv, TypeOK, pace
<1>2. /\ f \in Frame /\ f = up[1] /\ 1 \in 1..Len(up)
      /\ Tail(up) \in Seq(Frame) /\ Len(Tail(up)) = Len(up) - 1 /\ Len(up) \in Nat
      /\ \A i \in 1..Len(Tail(up)) : Tail(up)[i] = up[i + 1]
  BY <1>1, HeadTailProperties
<1>3. Backed(f, did)
  BY <1>2 DEF SimInv, ReplyInv, BackedFrames
<1>4. BackedFrames(up', did)
  <2>1. \A i \in 1..Len(up') : i + 1 \in 1..Len(up) /\ up'[i] = up[i + 1]
    BY <1>1, <1>2
  <2>2. QED
    BY <2>1 DEF SimInv, ReplyInv, BackedFrames
<1>5. ReplyInv' /\ DeedInv'
  BY <1>1, <1>4 DEF SimInv, ReplyInv, DeedInv
<1>6. up' \in Seq(Frame) /\ Len(up') <= MaxUp
  BY <1>1, <1>2, SimulatorAssumption DEF SimInv, TypeOK
<1>7. /\ Single(todo["readLoop"], up')
      /\ \A k \in Keys : UnderWay(todo["readLoop"], up', k) =>
           UnderWay(todo["readLoop"], up, k) /\ ~ FrameReply(f, k)
  BY <1>1, ReadFrames
<1>8. ASSUME UNCHANGED <<outcome, by>> PROVE DownInv' /\ OnceInv' /\ VerdictInv'
  <2>1. /\ Late' <=> Late
        /\ \A k : Unused(k)' <=> Unused(k)
    BY <1>8 DEF Late, Unused
  <2>2. QED
    BY <1>1, <1>7, <1>8, <2>1 DEF SimInv, DownInv, OnceInv, VerdictInv
<1>9. CASE f.kind = "reply"
  <2>1. view' = view /\ HandleAck(f.key, f.text)
    BY <1>9 DEF Receive
  <2>2. f.key \in Keys /\ FrameReply(f, f.key)
    BY <1>2, <1>9, FrameKinds DEF FrameReply
  <2>3. did[f.key] # "nothing" /\ (f.text \in Negative <=> did[f.key] \in {"refused", "unknown"})
    BY <1>3, <1>9 DEF Backed
  <2>4. Unused(f.key) /\ (outcome[f.key] = "sent" \/ Late)
    <3>1. InFrames(up, 1, f.key) /\ 1 \in Nat
      BY <1>2, <2>2 DEF InFrames
    <3>2. UnderWay(todo["readLoop"], up, f.key)
      BY <3>1 DEF UnderWay
    <3>3. QED
      BY <2>2, <3>2 DEF SimInv, OnceInv
  <2> HIDE DEF f
  <2>5. CASE UNCHANGED <<outcome, by>>
    BY <1>1, <1>5, <1>6, <1>8, <2>1, <2>5 DEF SimInv, TypeOK
  <2>6. ASSUME NEW k \in Matched(f.key), NEW o \in {"failed", "ok"},
               o = "ok" <=> f.text \notin Negative,
               outcome' = [outcome EXCEPT ![k] = o], by' = [by EXCEPT ![k] = f.key]
        PROVE  SimInv'
    <3>1. k \in Keys /\ outcome[k] = "sent" /\ (outcome[f.key] = "sent" => k = f.key)
      BY <2>2, MatchedOpen
    <3>2. /\ \A x \in Keys : outcome'[x] = IF x = k THEN o ELSE outcome[x]
          /\ \A x \in Keys : by'[x] = IF x = k THEN f.key ELSE by[x]
      BY <2>6, <3>1 DEF SimInv, TypeOK
    <3>3. k # f.key => Late
      BY <2>4, <3>1
    <3>4. Late => Late'
      BY <3>1, <3>2 DEF Late
    <3>5. TypeOK'
      BY <1>1, <1>6, <2>1, <2>2, <2>6 DEF SimInv, TypeOK
    <3>6. DownInv'
      <4>1. ASSUME NEW i \in 1..Len(down)
            PROVE  /\ did[down[i]] = "nothing" /\ outcome'[down[i]] \notin {"new", "rejected"}
                   /\ outcome'[down[i]] = "sent" \/ Late'
        <5>1. /\ did[down[i]] = "nothing" /\ outcome[down[i]] \notin {"new", "rejected"}
              /\ outcome[down[i]] = "sent" \/ Late
          BY DEF SimInv, DownInv
        <5>2. down[i] \in Keys /\ down[i] # f.key
          BY <2>3, <5>1 DEF SimInv, TypeOK
        <5>3. QED
          BY <2>6, <3>2, <3>3, <3>4, <5>1, <5>2
      <4>2. \A x \in Keys : outcome'[x] \in {"new", "rejected"} => did[x] = "nothing"
        BY <2>6, <3>2 DEF SimInv, DownInv
      <4>3. QED
        BY <1>1, <4>1, <4>2 DEF SimInv, DownInv
    <3>7. OnceInv'
      <4>1. ASSUME NEW x \in Keys, UnderWay(todo["readLoop"], up', x)
            PROVE  Unused(x)' /\ (outcome'[x] = "sent" \/ Late')
        <5>1. Unused(x) /\ (outcome[x] = "sent" \/ Late) /\ x # f.key
          BY <1>7, <2>2, <4>1 DEF SimInv, OnceInv
        <5>2. Unused(x)'
          BY <3>2, <5>1 DEF Unused
        <5>3. QED
          BY <3>2, <3>3, <3>4, <5>1, <5>2
      <4>2. QED
        BY <1>1, <1>7, <4>1 DEF SimInv, OnceInv
    <3>8. VerdictInv'
      <4>1. f.key # Absent /\ by[k] = Absent
        BY <2>2, <3>1, SimulatorAssumption DEF SimInv, VerdictInv
      <4>2. \A x \in Keys : outcome'[x] \in {"ok", "failed"} <=> by'[x] # Absent
        BY <2>6, <3>2, <4>1 DEF SimInv, VerdictInv
      <4>3. ASSUME NEW x \in Keys, by'[x] # Absent
            PROVE  /\ did[by'[x]] # "nothing"
                   /\ outcome'[x] = "ok" <=> did[by'[x]] \notin {"refused", "unknown"}
                   /\ by'[x] = x \/ Late'
        <5>1. CASE x = k
          BY <2>3, <2>6, <3>2, <3>3, <3>4, <5>1
        <5>2. CASE x # k
          BY <3>2, <3>4, <4>3, <5>2 DEF SimInv, VerdictInv
        <5>3. QED
          BY <5>1, <5>2
      <4>4. ASSUME NEW x \in Keys, NEW y \in Keys, by'[x] # Absent, by'[y] = by'[x]
            PROVE  x = y
        <5>1. \A j \in Keys : by[j] # f.key
          BY <2>4 DEF Unused
        <5>2. QED
          BY <3>2, <4>4, <5>1 DEF SimInv, VerdictInv
      <4>5. QED
        BY <1>1, <4>2, <4>3, <4>4 DEF VerdictInv
    <3>9. QED
      BY <1>5, <3>5, <3>6, <3>7, <3>8 DEF SimInv
  <2>7. QED
    <3>1. CASE \E k \in Matched(f.key) :
                 /\ outcome' = [outcome EXCEPT ![k] = IF f.text \in Negative THEN "failed" ELSE "ok"]
                 /\ by' = [by EXCEPT ![k] = f.key]
      <4>1. PICK k \in Matched(f.key) :
              /\ outcome' = [outcome EXCEPT ![k] = IF f.text \in Negative THEN "failed" ELSE "ok"]
              /\ by' = [by EXCEPT ![k] = f.key]
        BY <3>1
      <4>2. PICK o \in {"failed", "ok"} : o = IF f.text \in Negative THEN "failed" ELSE "ok"
        OBVIOUS
      <4>3. o = "ok" <=> f.text \notin Negative
        BY <4>2
      <4>4. outcome' = [outcome EXCEPT ![k] = o]
        BY <4>1, <4>2
      <4>5. QED
        BY <2>6, <4>1, <4>3, <4>4
    <3>2. QED
      BY <2>1, <2>5, <3>1 DEF HandleAck
<1>10. CASE f.kind # "reply"
  <2>1. UNCHANGED <<outcome, by>>
    BY <1>10 DEF Receive
  <2>2. f.state \in Shown
    BY <1>2, <1>10, FrameKinds
  <2>3. PICK v : /\ v \in 0..255 /\ view' = [f.state EXCEPT !.speed = v]
    <3>1. view = Absent \/ view.speed \in 0..255
      BY DEF SimInv, TypeOK, Shown
    <3>2. f.state.speed \in 0..255 /\ 0 \in 0..255
      BY <2>2 DEF Shown
    <3>3. QED
      BY <1>10, <3>1, <3>2 DEF Receive
  <2>4. view' \in Shown
    BY <2>2, <2>3 DEF Shown
  <2>5. QED
    BY <1>1, <1>5, <1>6, <1>8, <2>1, <2>4 DEF SimInv, TypeOK
<1>11. QED
  BY <1>9, <1>10

\* Every step keeps the invariant.
LEMMA SimStep == SimInv /\ [Next]_vars => SimInv'
<1> SUFFICES ASSUME SimInv, [Next]_vars PROVE SimInv'
  OBVIOUS
<1>1. CASE UNCHANGED vars
  <2>1. UNCHANGED <<dev, todo, alarms, open, down, up, torn, reading, stalls, view, outcome, rows,
                    by, typed, did>>
    BY <1>1 DEF vars, pace, server
  <2>2. QED
    BY <2>1, SameCommands DEF SimInv, TypeOK
<1>2. QED
  BY <1>1, SendStep, HandleStep, SnapshotStep, WriteStep, RunStep, TypeStep, ReceiveStep, PaceStep,
     ExpireStep DEF Next

-----------------------------------------------------------------------------
(* The results.                                                            *)

\* The inductive invariant holds in every behaviour, whatever the goroutines,
\* the console and the server do in between.
THEOREM Invariance == Spec => []SimInv
  BY InitHolds, SimStep, PTL DEF Spec

\* The device, its goroutines and the connection keep their types.
THEOREM TypeCorrect == Spec => []TypeOK
<1>1. SimInv => TypeOK
  BY DEF SimInv
<1>2. QED
  BY <1>1, Invariance, PTL

\* A verdict is what the device did for the command whose reply gave it, no reply
\* gives two, and it is about that very command unless some command has timed out
\* (HandleAck, applyCommand, failedResponse), whatever the texts of the commands.
THEOREM OutcomesAreTrueHolds == Spec => []OutcomesAreTrue
<1>1. ASSUME SimInv, NEW k \in Keys, by[k] # Absent
      PROVE  outcome[k] = "ok" <=> Done(by[k])
  <2>1. by[k] \in Keys
    BY <1>1 DEF SimInv, TypeOK
  <2>2. Proper(by[k], did) /\ did[by[k]] # "nothing"
    BY <1>1, <2>1 DEF SimInv, DeedInv, VerdictInv
  <2>3. Done(by[k]) <=> did[by[k]] \notin {"refused", "unknown"}
    BY <2>2 DEF Proper, Done, OrdersResume
  <2>4. QED
    BY <1>1, <2>3 DEF SimInv, VerdictInv
<1>2. SimInv => OutcomesAreTrue
  BY <1>1 DEF SimInv, VerdictInv, Late, OutcomesAreTrue
<1>3. QED
  BY <1>2, Invariance, PTL
=============================================================================
