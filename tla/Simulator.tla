----------------------------- MODULE Simulator ------------------------------
(* The simulated tracker (cmd/tksim) at the other end of a GT06 connection:  *)
(* the server sends commands, the device applies them to its relay, answers  *)
(* and reports its state.  Three goroutines of the device share its state:   *)
(* run with its tickers, readLoop and consoleLoop.  Each report is a         *)
(* snapshot, taken under a mutex, and a write, under another.                *)
(*                                                                           *)
(* A frame is what it says; that the other side reads the same in its bytes  *)
(* is the subject of SimulatorCodec.  The place on the map, the serial       *)
(* numbers and the numbers in the replies to WHERE and STATUS are left out.  *)
(* Of the server there is what closes a command, one step each; how those    *)
(* steps interleave inside is the subject of Commands.                       *)
EXTENDS Integers, Sequences

CONSTANTS
  Keys,          \* correlation keys, one command each
  Sends,         \* the command of each key: the request, as Gt06 has it, the text
                 \* it becomes ("" if it is refused) and that text in capitals
  Speeds,        \* speeds the console sets, in tenths of km/h
  opts,          \* the ignition and the speed it starts with
  AlarmBuffer,   \* capacity of the alarms channel
  MaxUp,         \* bound: frames the connection holds before write blocks
  MaxTyped,      \* bound: lines typed at the console
  MaxStalls,     \* bound: times the server stops reading
  Absent

ASSUME SimulatorAssumption ==
  /\ Keys \subseteq Nat /\ Speeds \subseteq Int
  /\ opts \in [acc : BOOLEAN, speed : Speeds]
  /\ {AlarmBuffer, MaxUp} \subseteq Nat \ {0} /\ {MaxTyped, MaxStalls} \subseteq Nat
  /\ Absent \notin Keys

VARIABLES
  dev,       \* the device: its relay, its ignition, its speed
  todo,      \* what each goroutine still has to do
  alarms,    \* codes in the alarms channel
  open,      \* the connection
  down, up,  \* what the server and the device wrote and the other did not read
  torn,      \* the last write ended within a frame
  reading,   \* the server takes what arrives
  stalls,    \* times it stopped
  view,      \* the state the server last heard of
  outcome,   \* what the server knows of each command
  rows,      \* the commands sent, in the order of created_at
  by,        \* history: the command whose reply closed each command
  typed,     \* lines typed
  did        \* history: what the device did for each command

server == <<view, outcome, rows, by>>
pace == <<reading, stalls>>
vars == <<dev, todo, alarms, open, down, up, torn, pace, server, typed, did>>

Goroutines == {"run", "readLoop", "consoleLoop"}
State == [relay : BOOLEAN, acc : BOOLEAN, speed : Speeds]
Shown == [relay : BOOLEAN, acc : BOOLEAN, speed : 0..255]
Kinds == {"position", "heartbeat", "alarm"}
Snap(kind) == [do |-> "snapshot", kind |-> kind]
Put(frame) == [do |-> "write", frame |-> frame]

Replies == {"DYD=Fail! Speed too high", "DYD=Success! Oil and Power OFF",
            "HFYD=Success! Oil and Power ON", "Lat: Lon:", "Battery: GSM: ACC: Relay:",
            "RESET=Success!", "TIMER=Success!", "HBT=Success!", "SERVER=Success!",
            "Command not support"}
\* The replies failedResponse takes for a failure.
Negative == {"DYD=Fail! Speed too high", "Command not support"}
Deeds == {"nothing", "refused", "cut", "resumed", "located", "told", "unknown"}

Frame == [kind : {"reply"}, key : Keys, text : Replies] \cup [kind : Kinds, state : Shown]
Job == [do : {"snapshot"}, kind : Kinds] \cup [do : {"write"}, frame : Frame]

-----------------------------------------------------------------------------
(* The device.                                                               *)

Starts(text, prefix) == Len(text) >= Len(prefix) /\ SubSeq(text, 1, Len(prefix)) = prefix
OrdersCut(upper) == Starts(upper, "DYD") \/ Starts(upper, "RELAY,1")
OrdersResume(upper) == ~ OrdersCut(upper) /\ (Starts(upper, "HFYD") \/ Starts(upper, "RELAY,0"))

Answer(state, reply, deed) == [state |-> state, reply |-> reply, deed |-> deed]

\* The relay does not open above 20 km/h.
CutOff(s) ==
  IF s.speed > 200 THEN Answer(s, "DYD=Fail! Speed too high", "refused")
  ELSE Answer([s EXCEPT !.relay = TRUE], "DYD=Success! Oil and Power OFF", "cut")

\* applyCommand: the state after it, the reply, and what it amounts to.
applyCommand(upper, s) ==
  LET is(prefix) == Starts(upper, prefix)
  IN  IF OrdersCut(upper) THEN CutOff(s)
      ELSE IF OrdersResume(upper)
        THEN Answer([s EXCEPT !.relay = FALSE], "HFYD=Success! Oil and Power ON", "resumed")
      ELSE CASE is("WHERE") -> Answer(s, "Lat: Lon:", "located")
             [] is("STATUS") -> Answer(s, "Battery: GSM: ACC: Relay:", "told")
             [] is("RESET") -> Answer(s, "RESET=Success!", "told")
             [] is("TIMER") -> Answer(s, "TIMER=Success!", "told")
             [] is("HBT") -> Answer(s, "HBT=Success!", "told")
             [] is("SERVER") -> Answer(s, "SERVER=Success!", "told")
             [] OTHER -> Answer(s, "Command not support", "unknown")

\* What a report says: the speed in whole km/h, in one byte.
Rounded(v) == IF v < 0 THEN 0 ELSE IF v > 2550 THEN 255 ELSE (v + 5) \div 10
Reported(s) == [s EXCEPT !.speed = Rounded(@)]

\* After a relay command the device reports; the test looks at the text as sent.
Reports(text) == \E p \in {"DYD", "HFYD", "RELAY"} : Starts(text, p)

Init ==
  /\ dev = [relay |-> FALSE, acc |-> opts.acc, speed |-> opts.speed]
  /\ todo = [g \in Goroutines |-> IF g = "run" THEN <<Snap("position")>> ELSE <<>>]
  /\ alarms = 0 /\ open = TRUE /\ down = <<>> /\ up = <<>> /\ torn = FALSE
  /\ reading = TRUE /\ stalls = 0 /\ view = Absent /\ typed = 0
  /\ outcome = [k \in Keys |-> "new"] /\ rows = <<>>
  /\ by = [k \in Keys |-> Absent]
  /\ did = [k \in Keys |-> "nothing"]

\* The server encodes a command and writes it.
Send(k) ==
  /\ outcome[k] = "new" /\ open
  /\ IF Sends[k].text = ""
     THEN outcome' = [outcome EXCEPT ![k] = "rejected"] /\ UNCHANGED <<down, rows>>
     ELSE /\ outcome' = [outcome EXCEPT ![k] = "sent"]
          /\ down' = Append(down, k) /\ rows' = Append(rows, k)
  /\ UNCHANGED <<dev, todo, alarms, open, up, torn, pace, view, by, typed, did>>

\* handleServerFrame: the command is applied; WHERE reports before its reply,
\* a relay command after it.
HandleServerFrame ==
  /\ todo["readLoop"] = <<>> /\ down # <<>> /\ open
  /\ LET k == Head(down)
         text == Sends[k].text
         a == applyCommand(Sends[k].upper, dev)
         reply == Put([kind |-> "reply", key |-> k, text |-> a.reply])
     IN  /\ dev' = a.state
         /\ did' = [did EXCEPT ![k] = a.deed]
         /\ todo' = [todo EXCEPT !["readLoop"] =
              (IF a.deed = "located" THEN <<Snap("position")>> ELSE <<>>) \o <<reply>>
              \o (IF Reports(text) THEN <<Snap("position")>> ELSE <<>>)]
  /\ down' = Tail(down)
  /\ UNCHANGED <<alarms, open, up, torn, pace, server, typed>>

\* A report says the state at the moment of the snapshot.
Snapshot(g) ==
  /\ todo[g] # <<>> /\ Head(todo[g]).do = "snapshot"
  /\ todo' = [todo EXCEPT ![g] =
       <<Put([kind |-> Head(@).kind, state |-> Reported(dev)])>> \o Tail(@)]
  /\ UNCHANGED <<dev, alarms, open, down, up, torn, pace, server, typed, did>>

\* The frame arrives; one that follows a fragment may be read with it and lost.
Written(g) ==
  /\ open /\ Len(up) < MaxUp
  /\ up' = Append(up, Head(todo[g]).frame) \/ (torn /\ up' = up)
  /\ todo' = [todo EXCEPT ![g] = Tail(@)]
  /\ torn' = FALSE

\* Mutant: a write does not wait for room.
DeadlineAtOnce == open /\ Len(up) = MaxUp

\* Mutant: a write has no deadline.
NoDeadline == FALSE

\* The connection stays full until the deadline, for a server that stopped reading.
DeadlinePasses == open /\ Len(up) = MaxUp /\ ~reading

\* The write fails, on a closed connection or by its deadline, and the frame is
\* lost; part of it may have left.  A command whose reply fails reports nothing.
WriteFails(g) ==
  /\ ~open \/ DeadlinePasses
  /\ todo' = [todo EXCEPT ![g] = IF Head(@).frame.kind = "reply" THEN <<>> ELSE Tail(@)]
  /\ torn' \in {torn, torn \/ open}
  /\ UNCHANGED up

\* One call of write, under its mutex.
Write(g) ==
  /\ todo[g] # <<>> /\ Head(todo[g]).do = "write"
  /\ Written(g) \/ WriteFails(g)
  /\ UNCHANGED <<dev, alarms, open, down, pace, server, typed, did>>

\* Mutant: both tickers send a heartbeat.
TickBeats(kind) ==
  /\ todo["run"] = <<>>
  /\ todo' = [todo EXCEPT !["run"] = <<Snap("heartbeat")>>]
  /\ UNCHANGED <<dev, alarms, open, down, up, torn, pace, server, typed, did>>

\* The tickers of run.
Tick(kind) ==
  /\ todo["run"] = <<>>
  /\ todo' = [todo EXCEPT !["run"] = <<Snap(kind)>>]
  /\ UNCHANGED <<dev, alarms, open, down, up, torn, pace, server, typed, did>>

\* run takes a code from the alarms channel.
Alarm ==
  /\ todo["run"] = <<>> /\ alarms > 0
  /\ alarms' = alarms - 1
  /\ todo' = [todo EXCEPT !["run"] = <<Snap("alarm")>>]
  /\ UNCHANGED <<dev, open, down, up, torn, pace, server, typed, did>>

\* The state after "acc on", "acc off", "speed n" and "stop", which is speed 0.
Console ==
  {[dev EXCEPT !.acc = on] : on \in BOOLEAN} \cup {[dev EXCEPT !.speed = v] : v \in Speeds}

\* consoleLoop: a line is typed; sos and power wait for room in the channel.
Type ==
  /\ todo["consoleLoop"] = <<>> /\ open /\ typed < MaxTyped
  /\ typed' = typed + 1
  /\ \/ /\ \E s \in Console : dev' = s
        /\ todo' = [todo EXCEPT !["consoleLoop"] = <<Snap("position")>>]
        /\ UNCHANGED <<alarms, open, down>>
     \/ /\ alarms < AlarmBuffer /\ alarms' = alarms + 1
        /\ UNCHANGED <<dev, todo, open, down>>
     \/ /\ open' = FALSE /\ down' = <<>>
        /\ UNCHANGED <<dev, todo, alarms>>
  /\ UNCHANGED <<up, torn, pace, server, did>>

-----------------------------------------------------------------------------
(* The server.                                                               *)

Open(k) == outcome[k] = "sent"
FindOldestOpen ==
  {rows[i] : i \in {i \in 1..Len(rows) :
               Open(rows[i]) /\ \A j \in 1..Len(rows) : j < i => ~ Open(rows[j])}}

\* Mutant: every reply is matched by order, as in the protocols without a key.
MatchedByOrder(key) == FindOldestOpen

\* The command a reply closes: the one with its key, or else the oldest open one.
Matched(key) == IF Open(key) THEN {key} ELSE FindOldestOpen

HandleAck(key, text) ==
  \/ \E k \in Matched(key) :
       /\ outcome' = [outcome EXCEPT ![k] = IF text \in Negative THEN "failed" ELSE "ok"]
       /\ by' = [by EXCEPT ![k] = key]
  \/ Matched(key) = {} /\ UNCHANGED <<outcome, by>>

\* The server reads a frame: a reply goes to HandleAck, a report is the view.
Receive ==
  /\ up # <<>> /\ reading
  /\ LET f == Head(up) IN
       IF f.kind = "reply"
       THEN HandleAck(f.key, f.text) /\ UNCHANGED view
       ELSE /\ view' = [f.state EXCEPT !.speed =
                          IF f.kind # "heartbeat" THEN @ ELSE IF view = Absent THEN 0 ELSE view.speed]
            /\ UNCHANGED <<outcome, by>>
  /\ up' = Tail(up)
  /\ UNCHANGED <<dev, todo, alarms, open, down, torn, pace, rows, typed, did>>

\* The sweep closes a command whose deadline passed.
Expire(k) ==
  /\ Open(k)
  /\ outcome' = [outcome EXCEPT ![k] = "timeout"]
  /\ UNCHANGED <<dev, todo, alarms, open, down, up, torn, pace, view, rows, by, typed, did>>

\* The session is held up in a message, for longer than the write deadline, and
\* goes on.
Stall ==
  /\ reading /\ stalls < MaxStalls
  /\ reading' = FALSE /\ stalls' = stalls + 1
  /\ UNCHANGED <<dev, todo, alarms, open, down, up, torn, server, typed, did>>

Resume ==
  /\ ~ reading
  /\ reading' = TRUE
  /\ UNCHANGED <<dev, todo, alarms, open, down, up, torn, stalls, server, typed, did>>

Next ==
  \/ \E k \in Keys : Send(k)
  \/ HandleServerFrame
  \/ \E g \in Goroutines : Snapshot(g) \/ Write(g)
  \/ Tick("position") \/ Tick("heartbeat")
  \/ Alarm \/ Type \/ Receive \/ Stall \/ Resume
  \/ \E k \in Keys : Expire(k)

Spec == Init /\ [][Next]_vars

\* Goroutines run, a write ends, and the server reads while it is not held up;
\* nothing makes it go on.  Both tickers keep firing and select picks at random
\* among what is ready, so a position is reported again and again even when
\* heartbeats and alarms compete with it.
FairSpec ==
  /\ Spec
  /\ \A g \in Goroutines : SF_vars(Snapshot(g) \/ Write(g))
  /\ WF_vars(HandleServerFrame) /\ SF_vars(Tick("position")) /\ WF_vars(Receive)

-----------------------------------------------------------------------------
\* The connection holds at most MaxUp frames, and every goroutine, the alarms
\* channel and the server's records have what their types allow.
TypeOK ==
  /\ dev \in State /\ alarms \in 0..AlarmBuffer /\ open \in BOOLEAN
  /\ todo \in [Goroutines -> Seq(Job)]
  /\ down \in Seq(Keys)
  /\ up \in Seq(Frame) /\ Len(up) <= MaxUp /\ typed \in 0..MaxTyped
  /\ torn \in BOOLEAN /\ reading \in BOOLEAN /\ stalls \in 0..MaxStalls
  /\ view = Absent \/ view \in Shown
  /\ outcome \in [Keys -> {"new", "rejected", "sent", "ok", "failed", "timeout"}]
  /\ rows \in Seq(Keys) /\ by \in [Keys -> Keys \cup {Absent}]
  /\ did \in [Keys -> Deeds]

\* The device did what the text of the command orders.
Done(k) ==
  CASE OrdersCut(Sends[k].upper) -> did[k] = "cut"
    [] OrdersResume(Sends[k].upper) -> did[k] = "resumed"
    [] OTHER -> did[k] \in {"located", "told"}

\* A verdict is what the device did for the command whose reply gave it, through
\* two encodings and whatever happened to the vehicle in between, no reply gives
\* two, and it is about that very command unless some command has timed out
\* (HandleAck, applyCommand, failedResponse).
OutcomesAreTrue ==
  \A k \in Keys :
    /\ outcome[k] \in {"ok", "failed"} <=> by[k] # Absent
    /\ by[k] # Absent =>
         /\ outcome[k] = "ok" <=> Done(by[k])
         /\ \A j \in Keys : by[j] = by[k] => j = k
         /\ by[k] = k \/ \E j \in Keys : outcome[j] = "timeout"

\* When nobody touches the vehicle any more and the server reads, it ends up
\* showing the state the vehicle is in, although a goroutine may write an older
\* report after a newer one, or lose it to the deadline (sendPosition: the
\* snapshot and the write are two critical sections).
ViewConverges == <>[](open /\ reading => view = Reported(dev))

\* A server that is never held up gets an answer to every command it wrote, while
\* the connection is open: the reply waits for its turn among the reports.
CommandsAreAnswered == <>[](open /\ stalls = 0 => \A k \in Keys : ~ Open(k))

\* The device takes every command from the connection, also when the server has
\* stopped reading for good and replies and reports cannot leave (write's
\* deadline frees readLoop).
CommandsAreObeyed == <>[](open => down = <<>>)
=============================================================================
