----------------------------- MODULE DeviceState -----------------------------
(***************************************************************************)
(* What the ingestor makes of a device's telemetry: the StateStore, which  *)
(* keeps the state in memory and saves every version of it in a goroutine  *)
(* of its own, and the events that processTelemetry, evaluateOverspeed and *)
(* evaluateGeofences derive from the changes.  Sessions of one device (a   *)
(* reconnection overlaps with the session before) run the same code; each  *)
(* critical section of the store and each statement is one action.         *)
(*                                                                         *)
(* The state is a function from what is observed (a flag of the telemetry, *)
(* "speeding", being inside a fence) to its value.  Levels are reduced to  *)
(* the flags that the code compares: gsm is "has signal".  Values nothing  *)
(* is derived from (battery, heartbeat) are left out, and of the alarms    *)
(* the ones whose events no rule and no flag has (SOS, vibration, ...).    *)
(***************************************************************************)
EXTENDS Integers, FiniteSets

CONSTANTS Sessions,     \* sessions of the device
          Flags,        \* flags of the telemetry: "acc", "gps", "gsm", "relay"
          Fences,       \* geofences
          Messages,     \* messages the device may send
          Limits,       \* speed limits the vehicle may have, 0 for none
          Hysteresis,   \* OVERSPEED_HYSTERESIS_KMH
          Nil,          \* a flag never reported, a row that does not exist
          MaxMessages,  \* bound: messages handled
          MaxSaves,     \* bound: saves under way at a time
          MaxFaults     \* bound: crashes and failed statements

Watched == Flags \cup Fences \cup {"speeding"}
State == [Watched -> BOOLEAN \cup {Nil}]
Event == [of : Watched, on : BOOLEAN]

\* A message: the flags it carries, whether it has a location and the fix is
\* valid, its speed, the fences, active or not, that contain the point, and the
\* event that recordAlarm makes of its alarm: OVERSPEED is the event of a vehicle
\* that starts speeding, IGNITION_ON and IGNITION_OFF the ones of "acc".
Message == [flags : [Flags -> BOOLEAN \cup {Nil}], located : BOOLEAN,
            valid : BOOLEAN, speed : Int, within : SUBSET Fences,
            alarm : Event \cup {Nil}]

ASSUME DeviceStateAssumption ==
  /\ "speeding" \notin Flags \cup Fences
  /\ Flags \cap Fences = {}
  /\ Nil \notin BOOLEAN
  /\ Messages \subseteq Message
  /\ IsFiniteSet(Sessions)
  /\ Limits \subseteq Int
  /\ Hysteresis \in Nat
  /\ MaxMessages \in Nat /\ MaxSaves \in Nat /\ MaxFaults \in Nat

VARIABLES
  mem,     \* StateStore.states[device]
  row,     \* the row of device_states, Nil before the first save
  saves,   \* snapshots whose save is under way
  version, \* numbers the updates
  place,   \* place[w]: the next step of processTelemetry
  msg,     \* msg[w]: the message session w is handling
  speedLimit, \* speedLimit[w]: the limit of the vehicle w has read
  near,    \* near[w]: the fences that contain w's position, as w read them
  todo,    \* todo[w]: events derived and not recorded yet
  limit,   \* the limit of the vehicle, as its cache gives it
  cached,  \* geofences.Service.cached
  log,     \* log[e]: how many events e the table holds
  alarms,  \* alarms[e]: how many of them name an alarm in their metadata
  handled, \* messages so far
  faults,  \* crashes and failed statements so far
  clean    \* no derived event was lost, every restart found the state saved

vars == <<mem, row, saves, version, place, msg, speedLimit, near, todo, limit, cached,
          log, alarms, handled, faults, clean>>

Place == {"idle", "state", "alarm", "position", "speed", "speedEvent", "fences",
          "inside", "fenceEvents"}

Fresh == [s \in Watched |-> IF s \in Flags THEN Nil ELSE FALSE]

TypeOK ==
  /\ mem \in State
  /\ row \in State \cup {Nil}
  /\ saves \subseteq [n : Nat, snapshot : State]
  /\ version \in Nat
  /\ place \in [Sessions -> Place]
  /\ msg \in [Sessions -> Messages \cup {Nil}]
  /\ \A w \in Sessions : place[w] # "idle" => msg[w] \in Messages
  /\ speedLimit \in [Sessions -> Int]
  /\ near \in [Sessions -> SUBSET Fences]
  /\ todo \in [Sessions -> SUBSET Event]
  /\ limit \in Limits
  /\ cached \subseteq Fences
  /\ log \in [Event -> Nat]
  /\ alarms \in [Event -> Nat]
  /\ handled \in Nat
  /\ faults \in Nat
  /\ clean \in BOOLEAN

Init ==
  /\ mem = Fresh
  /\ row = Nil
  /\ saves = {}
  /\ version = 0
  /\ place = [w \in Sessions |-> "idle"]
  /\ msg = [w \in Sessions |-> Nil]
  /\ speedLimit = [w \in Sessions |-> 0]
  /\ near = [w \in Sessions |-> {}]
  /\ todo = [w \in Sessions |-> {}]
  /\ limit \in Limits
  /\ cached \in SUBSET Fences
  /\ log = [e \in Event |-> 0]
  /\ alarms = [e \in Event |-> 0]
  /\ handled = 0
  /\ faults = 0
  /\ clean = TRUE

Go(w, p) == place' = [place EXCEPT ![w] = p]

-----------------------------------------------------------------------------
(* StateStore.Update, under its lock, and what its callers derive from the *)
(* state before and after.                                                 *)

\* Defect: every report counts as a change.
ChangedAlways(s, before, after) == after # Nil
\* changedBool: a first report counts as a change; the GSM rule wants a level
\* before.  Of the others the value before is never Nil.
Changed(s, before, after) ==
  /\ after # Nil
  /\ before # after
  /\ s = "gsm" => before # Nil

\* Defect: leaving a fence is not reported.
DerivedWithoutExits(before, after) ==
  {e \in Event : /\ Changed(e.of, before[e.of], after[e.of])
                 /\ e.on = after[e.of]
                 /\ e.of \in Fences => e.on}
Derived(before, after) ==
  {e \in Event : Changed(e.of, before[e.of], after[e.of]) /\ e.on = after[e.of]}

\* The state becomes next, a save of it starts, w is to record the changes.
Update(w, next) ==
  /\ Cardinality(saves) < MaxSaves
  /\ mem' = next
  /\ version' = version + 1
  /\ saves' = saves \cup {[n |-> version, snapshot |-> next]}
  /\ todo' = [todo EXCEPT ![w] = Derived(mem, next)]

RecordTodo(w) ==
  /\ log' = [e \in Event |-> IF e \in todo[w] THEN log[e] + 1 ELSE log[e]]
  /\ todo' = [todo EXCEPT ![w] = {}]

-----------------------------------------------------------------------------
(* processTelemetry.                                                       *)

WithFlags(m) ==
  [s \in Watched |->
     IF s = "gps" /\ m.located THEN m.valid
     ELSE IF s \in Flags /\ m.flags[s] # Nil THEN m.flags[s] ELSE mem[s]]

ApplyFlags(w, m) ==
  /\ handled < MaxMessages
  /\ place[w] = "idle"
  /\ Update(w, WithFlags(m))
  /\ msg' = [msg EXCEPT ![w] = m]
  /\ handled' = handled + 1
  /\ Go(w, "state")
  /\ UNCHANGED <<row, speedLimit, near, limit, cached, log, alarms, faults, clean>>

\* Where recordAlarm, or emitStateEvents without one, leads: a message without
\* location ends there.
Onwards(m) == IF m.located THEN "position" ELSE "idle"

\* vehicleFor, then emitStateEvents.
EmitStateEvents(w) ==
  /\ place[w] = "state"
  /\ speedLimit' = [speedLimit EXCEPT ![w] = limit]
  /\ RecordTodo(w)
  /\ Go(w, IF msg[w].alarm # Nil THEN "alarm" ELSE Onwards(msg[w]))
  /\ UNCHANGED <<mem, row, saves, version, msg, near, limit, cached, alarms, handled,
                 faults, clean>>

\* recordAlarm: one event for every message with an alarm, whatever the state.
RecordAlarm(w) ==
  /\ place[w] = "alarm"
  /\ log' = [log EXCEPT ![msg[w].alarm] = @ + 1]
  /\ alarms' = [alarms EXCEPT ![msg[w].alarm] = @ + 1]
  /\ Go(w, Onwards(msg[w]))
  /\ UNCHANGED <<mem, row, saves, version, msg, speedLimit, near, todo, limit, cached,
                 handled, faults, clean>>

InsertPosition(w) ==
  /\ place[w] = "position"
  /\ Go(w, "speed")
  /\ UNCHANGED <<mem, row, saves, version, msg, speedLimit, near, todo, limit, cached,
                 log, alarms, handled, faults, clean>>

Speeding(w) ==
  IF mem["speeding"] THEN msg[w].speed > speedLimit[w] - Hysteresis
                     ELSE msg[w].speed > speedLimit[w]

EvaluateOverspeed(w) ==
  /\ place[w] = "speed"
  /\ \/ /\ speedLimit[w] > 0
        /\ Update(w, [mem EXCEPT !["speeding"] = Speeding(w)])
        /\ Go(w, "speedEvent")
     \/ /\ speedLimit[w] <= 0
        /\ Go(w, "fences")
        /\ UNCHANGED <<mem, saves, version, todo>>
  /\ UNCHANGED <<row, msg, speedLimit, near, limit, cached, log, alarms, handled,
                 faults, clean>>

RecordOverspeed(w) ==
  /\ place[w] = "speedEvent"
  /\ RecordTodo(w)
  /\ Go(w, "fences")
  /\ UNCHANGED <<mem, row, saves, version, msg, speedLimit, near, limit, cached,
                 alarms, handled, faults, clean>>

\* evaluateGeofences: a fix that is not valid says nothing about fences; the
\* list of fences has a lock of its own.
Inside(w) ==
  /\ place[w] = "fences"
  /\ near' = [near EXCEPT ![w] = msg[w].within \cap cached]
  /\ Go(w, IF msg[w].valid THEN "inside" ELSE "idle")
  /\ UNCHANGED <<mem, row, saves, version, msg, speedLimit, todo, limit, cached, log,
                 alarms, handled, faults, clean>>

EvaluateGeofences(w) ==
  /\ place[w] = "inside"
  /\ Update(w, [s \in Watched |-> IF s \in Fences THEN s \in near[w] ELSE mem[s]])
  /\ Go(w, "fenceEvents")
  /\ UNCHANGED <<row, msg, speedLimit, near, limit, cached, log, alarms, handled,
                 faults, clean>>

RecordFences(w) ==
  /\ place[w] = "fenceEvents"
  /\ RecordTodo(w)
  /\ Go(w, "idle")
  /\ UNCHANGED <<mem, row, saves, version, msg, speedLimit, near, limit, cached,
                 alarms, handled, faults, clean>>

-----------------------------------------------------------------------------
(* The rest of the process: saves end in any order, operators change the   *)
(* vehicle's limit and the fences.                                         *)

Save(s) ==
  /\ s \in saves
  /\ row' = s.snapshot
  /\ saves' = saves \ {s}
  /\ UNCHANGED <<mem, version, place, msg, speedLimit, near, todo, limit, cached, log,
                 alarms, handled, faults, clean>>

ChangeLimit(l) ==
  /\ limit' = l
  /\ UNCHANGED <<mem, row, saves, version, place, msg, speedLimit, near, todo,
                 cached, log, alarms, handled, faults, clean>>

RefreshFences(S) ==
  /\ cached' = S
  /\ UNCHANGED <<mem, row, saves, version, place, msg, speedLimit, near, todo, limit,
                 log, alarms, handled, faults, clean>>

-----------------------------------------------------------------------------
(* Faults.                                                                 *)

\* The INSERT of the position fails: no rule is evaluated on it.
InsertFails(w) ==
  /\ faults < MaxFaults
  /\ place[w] = "position"
  /\ Go(w, "idle")
  /\ faults' = faults + 1
  /\ UNCHANGED <<mem, row, saves, version, msg, speedLimit, near, todo, limit, cached,
                 log, alarms, handled, clean>>

\* events.Service.Record fails: the event is lost and the message goes on.
RecordFails(w) ==
  /\ faults < MaxFaults
  /\ todo[w] # {}
  /\ todo' = [todo EXCEPT ![w] = {}]
  /\ clean' = FALSE
  /\ faults' = faults + 1
  /\ UNCHANGED <<mem, row, saves, version, place, msg, speedLimit, near, limit,
                 cached, log, alarms, handled>>

AlarmFails(w) ==
  /\ faults < MaxFaults
  /\ place[w] = "alarm"
  /\ Go(w, Onwards(msg[w]))
  /\ faults' = faults + 1
  /\ UNCHANGED <<mem, row, saves, version, msg, speedLimit, near, todo, limit, cached,
                 log, alarms, handled, clean>>

SaveFails(s) ==
  /\ faults < MaxFaults
  /\ s \in saves
  /\ saves' = saves \ {s}
  /\ faults' = faults + 1
  /\ UNCHANGED <<mem, row, version, place, msg, speedLimit, near, todo, limit, cached,
                 log, alarms, handled, clean>>

\* StateStore.Load, and Update for a device it has no state of.
Loaded == IF row = Nil THEN Fresh ELSE row

\* The process ends, with or without a signal (main waits for no save), and
\* starts again.
Restart ==
  /\ faults < MaxFaults
  /\ mem' = Loaded
  /\ saves' = {}
  /\ place' = [w \in Sessions |-> "idle"]
  /\ todo' = [w \in Sessions |-> {}]
  /\ clean' = (clean /\ mem = Loaded /\ \A w \in Sessions : todo[w] = {})
  /\ faults' = faults + 1
  /\ UNCHANGED <<row, version, msg, speedLimit, near, limit, cached, log, alarms,
                 handled>>

-----------------------------------------------------------------------------
SessionStep(w) ==
  \/ EmitStateEvents(w) \/ RecordAlarm(w) \/ InsertPosition(w)
  \/ EvaluateOverspeed(w) \/ RecordOverspeed(w)
  \/ Inside(w) \/ EvaluateGeofences(w) \/ RecordFences(w)

Next ==
  \/ \E w \in Sessions : \/ \E m \in Messages : ApplyFlags(w, m)
                         \/ SessionStep(w)
                         \/ InsertFails(w)
                         \/ RecordFails(w)
                         \/ AlarmFails(w)
  \/ \E s \in saves : Save(s) \/ SaveFails(s)
  \/ \E l \in Limits : ChangeLimit(l)
  \/ \E S \in SUBSET Fences : RefreshFences(S)
  \/ Restart

Spec == Init /\ [][Next]_vars

-----------------------------------------------------------------------------
(* Properties.                                                             *)

Pending(e) == Cardinality({w \in Sessions : e \in todo[w]})

\* Events that say "on" minus events that say "off", recorded or about to be, of
\* the derived ones, whose metadata names no alarm.
Net(s) ==
  LET on == [of |-> s, on |-> TRUE]
      off == [of |-> s, on |-> FALSE]
  IN ((log[on] - alarms[on]) + Pending(on)) - ((log[off] - alarms[off]) + Pending(off))

\* What the rules derive is reported once each: whatever two sessions, alarms,
\* edits of fences and limits, and restarts that found the state saved do, the
\* events of entering and leaving a fence and of speeding that do not come from
\* an alarm balance to the state (evaluateOverspeed, evaluateGeofences against
\* StateStore.Update).
RulesBalance ==
  clean => \A s \in Fences \cup {"speeding"} : Net(s) = IF mem[s] THEN 1 ELSE 0

\* The changes of a flag are reported once each: the events that do not come from
\* an alarm alternate, starting with the first report (emitStateEvents,
\* changedBool).
FlagsBalance ==
  clean => \A f \in Flags :
     CASE mem[f] = Nil -> Net(f) = 0
       [] mem[f] = TRUE -> Net(f) \in {0, 1}
       [] mem[f] = FALSE -> Net(f) \in {-1, 0}
=============================================================================
