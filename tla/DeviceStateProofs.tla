-------------------------- MODULE DeviceStateProofs --------------------------
(***************************************************************************)
(* Why the events of a device balance to its state, for any number of      *)
(* sessions, flags, fences and messages.  An event counts from the moment  *)
(* a session derives it to the end (Tally): recording it moves it from the *)
(* session to the log, and what alarms add to the log is taken off again,  *)
(* as their metadata allows.  A session derives events only when it has    *)
(* none left to record (TodoInv), and what the store updates for a rule is *)
(* always TRUE or FALSE, in memory, in the row and in the saves between    *)
(* them (RuledInv), so that a restart cannot bring back anything else.     *)
(***************************************************************************)
EXTENDS DeviceState, FiniteSetTheorems, TLAPS

Rules == Fences \cup {"speeding"}

\* What a rule watches is TRUE or FALSE.
Ruled(st) == \A s \in Rules : st[s] \in BOOLEAN
RuledInv ==
  /\ Ruled(mem)
  /\ row # Nil => Ruled(row)
  /\ \A x \in saves : Ruled(x.snapshot)

\* A session has events to record only right after an update.
TodoInv == \A w \in Sessions : place[w] \notin {"state", "speedEvent", "fenceEvents"} => todo[w] = {}

StateInv == TypeOK /\ RuledInv /\ TodoInv /\ RulesBalance /\ FlagsBalance

\* An event derived, recorded or not: t, l and a are the sessions' events, the log
\* and the part of it that alarms wrote.
Holders(e, t) == {w \in Sessions : e \in t[w]}
Tally(e, t, l, a) == (l[e] - a[e]) + Cardinality(Holders(e, t))
On(s) == [of |-> s, on |-> TRUE]
Off(s) == [of |-> s, on |-> FALSE]

-----------------------------------------------------------------------------
(* Counting events.                                                        *)

\* The sessions that hold an event can be counted.
LEMMA HoldersFinite ==
  ASSUME NEW e, NEW t PROVE IsFiniteSet(Holders(e, t)) /\ Cardinality(Holders(e, t)) \in Nat
<1>1. Holders(e, t) \in SUBSET Sessions
  BY DEF Holders
<1>2. IsFiniteSet(Holders(e, t))
  BY <1>1, FS_Subset, DeviceStateAssumption
<1>3. QED
  BY <1>2, FS_CardinalityType

\* One session comes to hold an event that it did not.
LEMMA HoldersAdd ==
  ASSUME NEW t, NEW u, NEW w \in Sessions, \A v \in Sessions : v # w => u[v] = t[v], NEW e, e \notin t[w]
  PROVE  /\ e \in u[w] => Cardinality(Holders(e, u)) = Cardinality(Holders(e, t)) + 1
         /\ e \notin u[w] => Cardinality(Holders(e, u)) = Cardinality(Holders(e, t))
<1>1. CASE e \in u[w]
  <2>1. Holders(e, u) = Holders(e, t) \cup {w} /\ w \notin Holders(e, t)
    BY <1>1 DEF Holders
  <2>2. QED
    BY <1>1, <2>1, HoldersFinite, FS_AddElement
<1>2. CASE e \notin u[w]
  <2>1. Holders(e, u) = Holders(e, t)
    BY <1>2 DEF Holders
  <2>2. QED
    BY <1>2, <2>1
<1>3. QED
  BY <1>1, <1>2

\* The balance of what is watched, as a difference of two tallies, now ...
LEMMA NetIsTally ==
  ASSUME NEW s
  PROVE  Net(s) = Tally(On(s), todo, log, alarms) - Tally(Off(s), todo, log, alarms)
  BY DEF Net, Tally, Pending, Holders, On, Off

\* ... and after a step.
LEMMA NetIsTallyNext ==
  ASSUME NEW s
  PROVE  Net(s)' = Tally(On(s), todo', log', alarms') - Tally(Off(s), todo', log', alarms')
  BY DEF Net, Tally, Pending, Holders, On, Off

\* The two events of what is watched.
LEMMA EventType ==
  ASSUME NEW s \in Watched
  PROVE  /\ On(s) \in Event /\ On(s).of = s /\ On(s).on = TRUE
         /\ Off(s) \in Event /\ Off(s).of = s /\ Off(s).on = FALSE
  BY DEF On, Off, Event

\* A tally is an integer.
LEMMA TallyType ==
  ASSUME TypeOK, NEW e \in Event PROVE Tally(e, todo, log, alarms) \in Int
<1>1. log[e] \in Nat /\ alarms[e] \in Nat
  BY DEF TypeOK
<1>2. QED
  BY <1>1, HoldersFinite DEF Tally

\* A balance is an integer.
LEMMA NetType == ASSUME TypeOK, NEW s \in Watched PROVE Net(s) \in Int
<1>1. Tally(On(s), todo, log, alarms) \in Int /\ Tally(Off(s), todo, log, alarms) \in Int
  BY EventType, TallyType
<1>2. QED
  BY <1>1, NetIsTally

\* Recording changes no tally.
LEMMA RecordTally ==
  ASSUME TypeOK, NEW w \in Sessions, RecordTodo(w), alarms' = alarms
  PROVE  /\ log' \in [Event -> Nat] /\ todo' \in [Sessions -> SUBSET Event]
         /\ todo'[w] = {} /\ \A v \in Sessions : v # w => todo'[v] = todo[v]
         /\ \A s \in Watched : Net(s)' = Net(s)
<1>1. log \in [Event -> Nat] /\ alarms \in [Event -> Nat] /\ todo \in [Sessions -> SUBSET Event]
  BY DEF TypeOK
<1>2. /\ log' = [e \in Event |-> IF e \in todo[w] THEN log[e] + 1 ELSE log[e]]
      /\ todo' = [todo EXCEPT ![w] = {}]
  BY DEF RecordTodo
<1>3. log' \in [Event -> Nat]
  BY <1>1, <1>2
<1>4. /\ todo' \in [Sessions -> SUBSET Event] /\ todo'[w] = {}
      /\ \A v \in Sessions : v # w => todo'[v] = todo[v]
  BY <1>1, <1>2
<1>5. ASSUME NEW e \in Event PROVE Tally(e, todo', log', alarms') = Tally(e, todo, log, alarms)
  <2>1. /\ e \in todo[w] => Cardinality(Holders(e, todo)) = Cardinality(Holders(e, todo')) + 1
        /\ e \notin todo[w] => Cardinality(Holders(e, todo)) = Cardinality(Holders(e, todo'))
    BY <1>4, HoldersAdd
  <2>2. Cardinality(Holders(e, todo)) \in Nat /\ Cardinality(Holders(e, todo')) \in Nat
    BY HoldersFinite
  <2>3. log[e] \in Nat /\ alarms'[e] = alarms[e] /\ alarms[e] \in Nat /\ log'[e] = IF e \in todo[w] THEN log[e] + 1 ELSE log[e]
    BY <1>1, <1>2
  <2>4. QED
    BY <2>1, <2>2, <2>3 DEF Tally
<1>6. \A s \in Watched : Net(s)' = Net(s)
  BY <1>5, EventType, NetIsTally, NetIsTallyNext
<1>7. QED
  BY <1>3, <1>4, <1>6

\* The events that say on, and the ones that say off, of a change from a to b.
Ups(s, a, b) == IF Changed(s, a, b) /\ b = TRUE THEN 1 ELSE 0
Downs(s, a, b) == IF Changed(s, a, b) /\ b = FALSE THEN 1 ELSE 0

\* What Derived says of one thing that is watched.
LEMMA DerivedEvents ==
  ASSUME NEW a, NEW b, NEW s \in Watched
  PROVE  /\ Derived(a, b) \in SUBSET Event
         /\ On(s) \in Derived(a, b) <=> Changed(s, a[s], b[s]) /\ b[s] = TRUE
         /\ Off(s) \in Derived(a, b) <=> Changed(s, a[s], b[s]) /\ b[s] = FALSE
<1>1. Derived(a, b) \in SUBSET Event
  BY DEF Derived
<1>2. On(s) \in Derived(a, b) <=> Changed(s, a[s], b[s]) /\ b[s] = TRUE
  BY EventType DEF Derived
<1>3. Off(s) \in Derived(a, b) <=> Changed(s, a[s], b[s]) /\ b[s] = FALSE
  BY EventType DEF Derived
<1>4. QED
  BY <1>1, <1>2, <1>3

\* An update adds what it derives.
LEMMA UpdateTally ==
  ASSUME TypeOK, NEW w \in Sessions, todo[w] = {}, NEW next, Update(w, next), UNCHANGED <<log, alarms>>
  PROVE  /\ todo' \in [Sessions -> SUBSET Event] /\ \A v \in Sessions : v # w => todo'[v] = todo[v]
         /\ \A s \in Watched : Net(s)' = Net(s) + Ups(s, mem[s], next[s]) - Downs(s, mem[s], next[s])
<1> DEFINE D == Derived(mem, next)
<1>1. log \in [Event -> Nat] /\ alarms \in [Event -> Nat] /\ todo \in [Sessions -> SUBSET Event]
  BY DEF TypeOK
<1>2. todo' = [todo EXCEPT ![w] = D] /\ D \in SUBSET Event
  BY DEF Update, Derived
<1> HIDE DEF D
<1>3. /\ todo' \in [Sessions -> SUBSET Event] /\ todo'[w] = D
      /\ \A v \in Sessions : v # w => todo'[v] = todo[v]
  BY <1>1, <1>2
<1>4. ASSUME NEW e \in Event PROVE Tally(e, todo', log', alarms') = Tally(e, todo, log, alarms) + IF e \in D THEN 1 ELSE 0
  <2>1. /\ e \in D => Cardinality(Holders(e, todo')) = Cardinality(Holders(e, todo)) + 1
        /\ e \notin D => Cardinality(Holders(e, todo')) = Cardinality(Holders(e, todo))
    BY <1>3, HoldersAdd
  <2>2. Cardinality(Holders(e, todo)) \in Nat /\ Cardinality(Holders(e, todo')) \in Nat /\ log[e] \in Nat /\ alarms[e] \in Nat
    BY <1>1, HoldersFinite
  <2>3. QED
    BY <2>1, <2>2 DEF Tally
<1>5. ASSUME NEW s \in Watched
      PROVE  Net(s)' = Net(s) + Ups(s, mem[s], next[s]) - Downs(s, mem[s], next[s])
  <2>1. On(s) \in Event /\ Off(s) \in Event
    BY EventType
  <2>2. Tally(On(s), todo', log', alarms') = Tally(On(s), todo, log, alarms) + Ups(s, mem[s], next[s])
    <3>1. Tally(On(s), todo', log', alarms') = Tally(On(s), todo, log, alarms) + IF On(s) \in D THEN 1 ELSE 0
      BY <1>4, <2>1
    <3>2. QED
      BY <3>1, DerivedEvents DEF Ups, D
  <2>3. Tally(Off(s), todo', log', alarms') = Tally(Off(s), todo, log, alarms) + Downs(s, mem[s], next[s])
    <3>1. Tally(Off(s), todo', log', alarms') = Tally(Off(s), todo, log, alarms) + IF Off(s) \in D THEN 1 ELSE 0
      BY <1>4, <2>1
    <3>2. QED
      BY <3>1, DerivedEvents DEF Downs, D
  <2>4. Tally(On(s), todo, log, alarms) \in Int /\ Tally(Off(s), todo, log, alarms) \in Int
    BY <2>1, TallyType
  <2>5. Ups(s, mem[s], next[s]) \in Nat /\ Downs(s, mem[s], next[s]) \in Nat
    BY DEF Ups, Downs
  <2>6. QED
    BY <2>2, <2>3, <2>4, <2>5, NetIsTally, NetIsTallyNext
<1>6. QED
  BY <1>3, <1>5

-----------------------------------------------------------------------------
(* The balance of what is watched, before and after a change from a to b.  *)

RuleOK(v, n) == n = IF v THEN 1 ELSE 0
FlagOK(v, n) ==
  /\ v = Nil => n = 0
  /\ v = TRUE => n \in {0, 1}
  /\ v = FALSE => n \in {-1, 0}

\* A rule whose events balance to its value still does after a change.
LEMMA RuleChange ==
  ASSUME NEW s, NEW a \in BOOLEAN, NEW b \in BOOLEAN, NEW n, RuleOK(a, n)
  PROVE  RuleOK(b, n + Ups(s, a, b) - Downs(s, a, b))
<1>1. a # Nil /\ b # Nil
  BY DeviceStateAssumption
<1>2. CASE a = TRUE /\ b = TRUE
  BY <1>1, <1>2 DEF RuleOK, Ups, Downs, Changed
<1>3. CASE a = TRUE /\ b = FALSE
  <2>1. Ups(s, a, b) = 0 /\ Downs(s, a, b) = 1
    BY <1>1, <1>3 DEF Ups, Downs, Changed
  <2>2. n = 1
    BY <1>1, <1>3 DEF RuleOK
  <2>3. n + Ups(s, a, b) - Downs(s, a, b) = 0
    BY <2>1, <2>2
  <2>4. QED
    BY <1>1, <1>3, <2>3 DEF RuleOK
<1>4. CASE a = FALSE /\ b = TRUE
  <2>1. Ups(s, a, b) = 1 /\ Downs(s, a, b) = 0
    BY <1>1, <1>4 DEF Ups, Downs, Changed
  <2>2. n = 0
    BY <1>1, <1>4 DEF RuleOK
  <2>3. n + Ups(s, a, b) - Downs(s, a, b) = 1
    BY <2>1, <2>2
  <2>4. QED
    BY <1>1, <1>4, <2>3 DEF RuleOK
<1>5. CASE a = FALSE /\ b = FALSE
  BY <1>1, <1>5 DEF RuleOK, Ups, Downs, Changed
<1>6. QED
  BY <1>2, <1>3, <1>4, <1>5

\* The same of a flag, whose first report may or may not count.
LEMMA FlagChange ==
  ASSUME NEW s, NEW a \in BOOLEAN \cup {Nil}, NEW b \in BOOLEAN \cup {Nil}, b = Nil => a = Nil, NEW n, FlagOK(a, n)
  PROVE  FlagOK(b, n + Ups(s, a, b) - Downs(s, a, b))
<1>1. Nil # TRUE /\ Nil # FALSE
  BY DeviceStateAssumption
<1>2. CASE a = b
  <2>1. Ups(s, a, b) = 0 /\ Downs(s, a, b) = 0
    BY <1>2 DEF Ups, Downs, Changed
  <2>2. n \in Int
    BY <1>1 DEF FlagOK
  <2>3. QED
    BY <1>2, <2>1, <2>2
<1>3. CASE a = Nil /\ b = TRUE
  <2>1. Ups(s, a, b) \in {0, 1} /\ Downs(s, a, b) = 0
    BY <1>1, <1>3 DEF Ups, Downs, Changed
  <2>2. n = 0
    BY <1>1, <1>3 DEF FlagOK
  <2>3. n + Ups(s, a, b) - Downs(s, a, b) \in {0, 1}
    BY <2>1, <2>2
  <2>4. QED
    BY <1>1, <1>3, <2>3 DEF FlagOK
<1>4. CASE a = Nil /\ b = FALSE
  <2>1. Ups(s, a, b) = 0 /\ Downs(s, a, b) \in {0, 1}
    BY <1>1, <1>4 DEF Ups, Downs, Changed
  <2>2. n = 0
    BY <1>1, <1>4 DEF FlagOK
  <2>3. n + Ups(s, a, b) - Downs(s, a, b) \in {-1, 0}
    BY <2>1, <2>2
  <2>4. QED
    BY <1>1, <1>4, <2>3 DEF FlagOK
<1>5. CASE a = TRUE /\ b = FALSE
  <2>1. Ups(s, a, b) = 0 /\ Downs(s, a, b) = 1
    BY <1>1, <1>5 DEF Ups, Downs, Changed
  <2>2. n \in {0, 1}
    BY <1>1, <1>5 DEF FlagOK
  <2>3. n + Ups(s, a, b) - Downs(s, a, b) \in {-1, 0}
    BY <2>1, <2>2
  <2>4. QED
    BY <1>1, <1>5, <2>3 DEF FlagOK
<1>6. CASE a = FALSE /\ b = TRUE
  <2>1. Ups(s, a, b) = 1 /\ Downs(s, a, b) = 0
    BY <1>1, <1>6 DEF Ups, Downs, Changed
  <2>2. n \in {-1, 0}
    BY <1>1, <1>6 DEF FlagOK
  <2>3. n + Ups(s, a, b) - Downs(s, a, b) \in {0, 1}
    BY <2>1, <2>2
  <2>4. QED
    BY <1>1, <1>6, <2>3 DEF FlagOK
<1>7. QED
  BY <1>2, <1>3, <1>4, <1>5, <1>6

\* RulesBalance in terms of RuleOK, now ...
LEMMA RulesForm == RulesBalance <=> (clean => \A s \in Rules : RuleOK(mem[s], Net(s)))
  BY DEF RulesBalance, RuleOK, Rules

\* ... and after a step.
LEMMA RulesFormNext == RulesBalance' <=> (clean' => \A s \in Rules : RuleOK(mem'[s], Net(s)'))
  BY DEF RulesBalance, RuleOK, Rules

\* FlagsBalance in terms of FlagOK, now ...
LEMMA FlagsForm == ASSUME mem \in State PROVE FlagsBalance <=> (clean => \A f \in Flags : FlagOK(mem[f], Net(f)))
<1>1. Nil # TRUE /\ Nil # FALSE
  BY DeviceStateAssumption
<1>2. \A f \in Flags : mem[f] \in BOOLEAN \cup {Nil}
  BY DEF State, Watched
<1>3. QED
  BY <1>1, <1>2 DEF FlagsBalance, FlagOK

\* ... and after a step.
LEMMA FlagsFormNext ==
  ASSUME mem' \in State PROVE FlagsBalance' <=> (clean' => \A f \in Flags : FlagOK(mem'[f], Net(f)'))
<1>1. Nil # TRUE /\ Nil # FALSE
  BY DeviceStateAssumption
<1>2. \A f \in Flags : mem'[f] \in BOOLEAN \cup {Nil}
  BY DEF State, Watched
<1>3. QED
  BY <1>1, <1>2 DEF FlagsBalance, FlagOK

\* The state changes, and with it what is derived.
LEMMA BalanceUpdated ==
  ASSUME StateInv, NEW w \in Sessions, todo[w] = {}, NEW next \in State, Ruled(next),
         \A f \in Flags : next[f] = Nil => mem[f] = Nil, Update(w, next),
         UNCHANGED <<log, alarms, clean>>
  PROVE  RulesBalance' /\ FlagsBalance'
<1>0. TypeOK /\ mem \in State /\ Ruled(mem) /\ mem' = next /\ Rules \subseteq Watched /\ Flags \subseteq Watched
  BY DEF StateInv, TypeOK, RuledInv, Update, Rules, Watched
<1>1. \A s \in Watched : Net(s)' = Net(s) + Ups(s, mem[s], next[s]) - Downs(s, mem[s], next[s])
  BY <1>0, UpdateTally
<1>2. clean => \A s \in Rules : RuleOK(next[s], Net(s)')
  <2> SUFFICES ASSUME clean, NEW s \in Rules PROVE RuleOK(next[s], Net(s)')
    OBVIOUS
  <2>1. RuleOK(mem[s], Net(s))
    BY RulesForm DEF StateInv
  <2>2. mem[s] \in BOOLEAN /\ next[s] \in BOOLEAN
    BY <1>0 DEF Ruled
  <2>3. QED
    BY <1>0, <1>1, <2>1, <2>2, RuleChange
<1>3. clean => \A f \in Flags : FlagOK(next[f], Net(f)')
  <2> SUFFICES ASSUME clean, NEW f \in Flags PROVE FlagOK(next[f], Net(f)')
    OBVIOUS
  <2>1. FlagOK(mem[f], Net(f))
    BY <1>0, FlagsForm DEF StateInv
  <2>2. mem[f] \in BOOLEAN \cup {Nil} /\ next[f] \in BOOLEAN \cup {Nil}
    BY <1>0 DEF State
  <2>3. QED
    BY <1>0, <1>1, <2>1, <2>2, FlagChange
<1>4. QED
  BY <1>0, <1>2, <1>3, RulesFormNext, FlagsFormNext

\* Neither the state nor a tally changes.
LEMMA BalanceKept ==
  ASSUME StateInv, UNCHANGED <<mem, clean>>, \A s \in Watched : Net(s)' = Net(s)
  PROVE  RulesBalance' /\ FlagsBalance'
<1>0. mem \in State /\ Rules \subseteq Watched /\ Flags \subseteq Watched
  BY DEF StateInv, TypeOK, Rules, Watched
<1>1. QED
  BY <1>0, RulesForm, FlagsForm, RulesFormNext, FlagsFormNext DEF StateInv

\* A step that neither derives nor records keeps every balance.
LEMMA NetKept == ASSUME UNCHANGED <<log, alarms, todo>> PROVE \A s : Net(s)' = Net(s)
  BY DEF Net, Pending

-----------------------------------------------------------------------------
(* The kinds of steps: an update, events recorded, a session that only     *)
(* moves on, and what does not concern the sessions.                       *)

Busy == {"state", "speedEvent", "fenceEvents"}

\* A session moves to its next step.
LEMMA Went ==
  ASSUME place \in [Sessions -> Place], NEW w \in Sessions, NEW p \in Place, Go(w, p)
  PROVE  /\ place' \in [Sessions -> Place] /\ place'[w] = p
         /\ \A v \in Sessions : v # w => place'[v] = place[v]
  BY DEF Go

\* A session updates the state and has the changes to record.
LEMMA Updated ==
  ASSUME StateInv, NEW w \in Sessions, place[w] \notin Busy, NEW next \in State, Ruled(next),
         \A f \in Flags : next[f] = Nil => mem[f] = Nil, Update(w, next),
         NEW p \in Busy, Go(w, p), msg' \in [Sessions -> Messages \cup {Nil}],
         msg'[w] \in Messages, \A v \in Sessions : v # w => msg'[v] = msg[v], handled' \in Nat,
         UNCHANGED <<row, speedLimit, near, limit, cached, log, alarms, faults, clean>>
  PROVE  StateInv'
<1>0. TypeOK /\ RuledInv /\ TodoInv
  BY DEF StateInv
<1>1. todo[w] = {}
  BY <1>0 DEF TodoInv, Busy
<1>2. RulesBalance' /\ FlagsBalance'
  BY <1>1, BalanceUpdated
<1>3. todo' \in [Sessions -> SUBSET Event] /\ \A v \in Sessions : v # w => todo'[v] = todo[v]
  BY <1>0, <1>1, UpdateTally
<1>4. /\ place' \in [Sessions -> Place] /\ place'[w] = p
      /\ \A v \in Sessions : v # w => place'[v] = place[v]
  BY <1>0, Went DEF TypeOK, Busy, Place
<1>5. mem' = next /\ version' \in Nat /\ saves' = saves \cup {[n |-> version, snapshot |-> next]}
  BY <1>0 DEF Update, TypeOK
<1>6. saves' \subseteq [n : Nat, snapshot : State]
  BY <1>0, <1>5 DEF TypeOK
<1>7. TypeOK'
  BY <1>0, <1>3, <1>4, <1>5, <1>6 DEF TypeOK
<1>8. RuledInv'
  BY <1>0, <1>5 DEF RuledInv
<1>9. TodoInv'
  BY <1>0, <1>3, <1>4 DEF TodoInv, Busy
<1>10. QED
  BY <1>2, <1>7, <1>8, <1>9 DEF StateInv

\* A session records its events and moves on.
LEMMA Recorded ==
  ASSUME StateInv, NEW w \in Sessions, place[w] # "idle", RecordTodo(w), NEW p \in Place, Go(w, p),
         speedLimit' \in [Sessions -> Int],
         UNCHANGED <<mem, row, saves, version, msg, near, limit, cached, alarms, handled, faults, clean>>
  PROVE  StateInv'
<1>0. TypeOK /\ RuledInv /\ TodoInv
  BY DEF StateInv
<1>1. /\ log' \in [Event -> Nat] /\ todo' \in [Sessions -> SUBSET Event]
      /\ todo'[w] = {} /\ \A v \in Sessions : v # w => todo'[v] = todo[v]
      /\ \A s \in Watched : Net(s)' = Net(s)
  BY <1>0, RecordTally
<1>2. /\ place' \in [Sessions -> Place] /\ place'[w] = p
      /\ \A v \in Sessions : v # w => place'[v] = place[v]
  BY <1>0, Went DEF TypeOK
<1>3. TypeOK'
  BY <1>0, <1>1, <1>2 DEF TypeOK
<1>4. RuledInv' /\ TodoInv'
  BY <1>0, <1>1, <1>2 DEF RuledInv, TodoInv
<1>5. RulesBalance' /\ FlagsBalance'
  BY <1>1, BalanceKept
<1>6. QED
  BY <1>3, <1>4, <1>5 DEF StateInv

\* A session with nothing to record moves on.
LEMMA Moved ==
  ASSUME StateInv, NEW w \in Sessions, place[w] \notin Busy \cup {"idle"}, NEW p \in Place, Go(w, p),
         near' \in [Sessions -> SUBSET Fences], faults' \in Nat,
         log' \in [Event -> Nat], alarms' \in [Event -> Nat], \A s \in Watched : Net(s)' = Net(s),
         UNCHANGED <<mem, row, saves, version, msg, speedLimit, todo, limit, cached, handled, clean>>
  PROVE  StateInv'
<1>0. TypeOK /\ RuledInv /\ TodoInv
  BY DEF StateInv
<1>1. /\ place' \in [Sessions -> Place] /\ place'[w] = p
      /\ \A v \in Sessions : v # w => place'[v] = place[v]
  BY <1>0, Went DEF TypeOK
<1>2. TypeOK'
  BY <1>0, <1>1 DEF TypeOK
<1>3. RuledInv' /\ TodoInv'
  BY <1>0, <1>1 DEF RuledInv, TodoInv, Busy
<1>4. RulesBalance' /\ FlagsBalance'
  BY BalanceKept
<1>5. QED
  BY <1>2, <1>3, <1>4 DEF StateInv

\* A step that is no session's.
LEMMA Elsewhere ==
  ASSUME StateInv, row' \in State \cup {Nil}, row' # Nil => Ruled(row'), saves' \subseteq saves,
         limit' \in Limits, cached' \subseteq Fences, faults' \in Nat,
         UNCHANGED <<mem, version, place, msg, speedLimit, near, todo, log, alarms, handled, clean>>
  PROVE  StateInv'
<1>0. TypeOK /\ RuledInv /\ TodoInv
  BY DEF StateInv
<1>1. TypeOK'
  BY <1>0 DEF TypeOK
<1>2. RuledInv' /\ TodoInv'
  BY <1>0 DEF RuledInv, TodoInv
<1>3. RulesBalance' /\ FlagsBalance'
  BY NetKept, BalanceKept
<1>4. QED
  BY <1>1, <1>2, <1>3 DEF StateInv

-----------------------------------------------------------------------------
(* The actions.                                                            *)

\* A message updates the flags it carries.
LEMMA ApplyFlagsStep == ASSUME StateInv, NEW w \in Sessions, NEW m \in Messages, ApplyFlags(w, m) PROVE StateInv'
<1> DEFINE next == WithFlags(m)
<1>0. /\ TypeOK /\ mem \in State /\ Ruled(mem) /\ m.valid \in BOOLEAN
      /\ \A f \in Flags : m.flags[f] \in BOOLEAN \cup {Nil}
  BY DeviceStateAssumption DEF StateInv, TypeOK, RuledInv, Message
<1>1. \A s \in Watched : /\ s = "gps" /\ m.located => next[s] = m.valid
                         /\ ~(s = "gps" /\ m.located) /\ s \in Flags /\ m.flags[s] # Nil => next[s] = m.flags[s]
                         /\ ~(s = "gps" /\ m.located) /\ ~(s \in Flags /\ m.flags[s] # Nil) => next[s] = mem[s]
  BY DEF WithFlags
<1>2. next = [s \in Watched |-> next[s]]
  BY DEF WithFlags
<1>3. /\ place[w] = "idle" /\ Update(w, next) /\ msg' = [msg EXCEPT ![w] = m] /\ handled' = handled + 1 /\ Go(w, "state")
      /\ UNCHANGED <<row, speedLimit, near, limit, cached, log, alarms, faults, clean>>
  BY DEF ApplyFlags
<1> HIDE DEF next
<1>4. \A s \in Watched : next[s] \in BOOLEAN \cup {Nil}
  BY <1>0, <1>1 DEF State
<1>5. next \in State
  BY <1>2, <1>4 DEF State
<1>6. Ruled(next)
  <2> SUFFICES ASSUME NEW s \in Rules PROVE next[s] \in BOOLEAN
    BY DEF Ruled
  <2>1. s \in Watched /\ s \notin Flags /\ mem[s] \in BOOLEAN
    BY <1>0, DeviceStateAssumption DEF Rules, Watched, Ruled
  <2>2. QED
    BY <1>0, <1>1, <2>1
<1>7. \A f \in Flags : next[f] = Nil => mem[f] = Nil
  BY <1>0, <1>1, DeviceStateAssumption DEF Watched
<1>8. /\ msg' \in [Sessions -> Messages \cup {Nil}] /\ msg'[w] \in Messages
      /\ \A v \in Sessions : v # w => msg'[v] = msg[v]
  BY <1>0, <1>3 DEF TypeOK
<1>9. handled' \in Nat
  BY <1>0, <1>3 DEF TypeOK
<1>10. QED
  BY <1>3, <1>5, <1>6, <1>7, <1>8, <1>9, Updated DEF Busy

\* The events of the flags, of the speed or of the fences are recorded.
LEMMA RecordStep ==
  ASSUME StateInv, NEW w \in Sessions, EmitStateEvents(w) \/ RecordOverspeed(w) \/ RecordFences(w)
  PROVE  StateInv'
<1>0. speedLimit \in [Sessions -> Int] /\ limit \in Int
  BY DeviceStateAssumption DEF StateInv, TypeOK
<1>1. place[w] # "idle" /\ RecordTodo(w)
      /\ UNCHANGED <<mem, row, saves, version, msg, near, limit, cached, alarms, handled, faults, clean>>
  BY DEF EmitStateEvents, RecordOverspeed, RecordFences
<1>2. speedLimit' \in [Sessions -> Int]
  BY <1>0 DEF EmitStateEvents, RecordOverspeed, RecordFences
<1>3. PICK p \in Place : Go(w, p)
  BY DEF EmitStateEvents, RecordOverspeed, RecordFences, Onwards, Place
<1>4. QED
  BY <1>1, <1>2, <1>3, Recorded

\* The position is inserted or not, an alarm is lost, the fences around the
\* position are read.
LEMMA MoveStep ==
  ASSUME StateInv, NEW w \in Sessions, InsertPosition(w) \/ Inside(w) \/ InsertFails(w) \/ AlarmFails(w)
  PROVE  StateInv'
<1>0. /\ near \in [Sessions -> SUBSET Fences] /\ cached \subseteq Fences /\ faults \in Nat
      /\ log \in [Event -> Nat] /\ alarms \in [Event -> Nat]
  BY DEF StateInv, TypeOK
<1>1. /\ place[w] \notin Busy \cup {"idle"}
      /\ UNCHANGED <<mem, row, saves, version, msg, speedLimit, todo, limit, cached, log, alarms, handled, clean>>
  BY DEF InsertPosition, Inside, InsertFails, AlarmFails, Busy
<1>2. near' \in [Sessions -> SUBSET Fences] /\ faults' \in Nat
  <2>1. msg[w].within \cap cached \in SUBSET Fences
    BY <1>0
  <2>2. CASE Inside(w)
    BY <1>0, <2>1, <2>2 DEF Inside
  <2>3. CASE InsertPosition(w)
    BY <1>0, <2>3 DEF InsertPosition
  <2>4. CASE InsertFails(w) \/ AlarmFails(w)
    BY <1>0, <2>4 DEF InsertFails, AlarmFails
  <2>5. QED
    BY <2>2, <2>3, <2>4
<1>3. PICK p \in Place : Go(w, p)
  BY DEF InsertPosition, Inside, InsertFails, AlarmFails, Onwards, Place
<1>4. QED
  BY <1>0, <1>1, <1>2, <1>3, NetKept, Moved

\* An alarm is recorded: the log grows by what its metadata lets a reader take off.
LEMMA AlarmStep == ASSUME StateInv, NEW w \in Sessions, RecordAlarm(w) PROVE StateInv'
<1>0. /\ log \in [Event -> Nat] /\ alarms \in [Event -> Nat]
      /\ near \in [Sessions -> SUBSET Fences] /\ faults \in Nat
  BY DEF StateInv, TypeOK
<1>1. /\ place[w] \notin Busy \cup {"idle"}
      /\ log' = [log EXCEPT ![msg[w].alarm] = @ + 1]
      /\ alarms' = [alarms EXCEPT ![msg[w].alarm] = @ + 1]
      /\ UNCHANGED <<mem, row, saves, version, msg, speedLimit, near, todo, limit, cached, handled, faults, clean>>
  BY DEF RecordAlarm, Busy
<1>2. /\ log' \in [Event -> Nat] /\ alarms' \in [Event -> Nat]
      /\ \A e \in Event : log'[e] - alarms'[e] = log[e] - alarms[e]
  <2> DEFINE x == msg[w].alarm
  <2>1. log' = [log EXCEPT ![x] = @ + 1] /\ alarms' = [alarms EXCEPT ![x] = @ + 1]
    BY <1>1
  <2> HIDE DEF x
  <2>2. ASSUME NEW e \in Event
        PROVE  /\ log'[e] = IF e = x THEN log[e] + 1 ELSE log[e]
               /\ alarms'[e] = IF e = x THEN alarms[e] + 1 ELSE alarms[e]
               /\ log[e] \in Nat /\ alarms[e] \in Nat
    BY <1>0, <2>1
  <2>3. /\ log' = [e \in Event |-> log'[e]] /\ alarms' = [e \in Event |-> alarms'[e]]
    BY <1>0, <2>1
  <2>4. \A e \in Event : log'[e] \in Nat /\ alarms'[e] \in Nat
    BY <2>2
  <2>5. log' \in [Event -> Nat] /\ alarms' \in [Event -> Nat]
    BY <2>3, <2>4
  <2>6. QED
    BY <2>2, <2>5
<1>3. \A s \in Watched : Net(s)' = Net(s)
  <2>1. \A e \in Event : Tally(e, todo', log', alarms') = Tally(e, todo, log, alarms)
    BY <1>1, <1>2 DEF Tally
  <2>2. QED
    BY <2>1, EventType, NetIsTally, NetIsTallyNext
<1>4. PICK p \in Place : Go(w, p)
  BY DEF RecordAlarm, Onwards, Place
<1>5. QED
  BY <1>0, <1>1, <1>2, <1>3, <1>4, Moved

\* The speed rule updates the state, or there is no limit.
LEMMA OverspeedStep == ASSUME StateInv, NEW w \in Sessions, EvaluateOverspeed(w) PROVE StateInv'
<1>0. /\ TypeOK /\ mem \in State /\ Ruled(mem) /\ place[w] = "speed" /\ msg \in [Sessions -> Messages \cup {Nil}]
      /\ msg[w] \in Messages /\ handled \in Nat
      /\ UNCHANGED <<row, msg, speedLimit, near, limit, cached, log, alarms, handled, faults, clean>>
  BY DEF StateInv, TypeOK, RuledInv, EvaluateOverspeed
<1>1. CASE Go(w, "fences") /\ UNCHANGED <<mem, saves, version, todo>>
  BY <1>0, <1>1, NetKept, Moved DEF Busy, Place, TypeOK
<1>2. CASE Update(w, [mem EXCEPT !["speeding"] = Speeding(w)]) /\ Go(w, "speedEvent")
  <2> DEFINE next == [mem EXCEPT !["speeding"] = Speeding(w)]
  <2>1. Speeding(w) \in BOOLEAN
    <3>1. msg[w].speed \in Int /\ speedLimit[w] \in Int /\ Hysteresis \in Int
      BY <1>0, DeviceStateAssumption DEF TypeOK, Message
    <3>2. (msg[w].speed > speedLimit[w] - Hysteresis) \in BOOLEAN /\ (msg[w].speed > speedLimit[w]) \in BOOLEAN
      BY <3>1
    <3>3. QED
      BY <3>2 DEF Speeding
  <2>2. next \in State /\ next["speeding"] \in BOOLEAN /\ \A s \in Watched : s # "speeding" => next[s] = mem[s]
    BY <1>0, <2>1 DEF State, Watched
  <2>3. Update(w, next)
    BY <1>2
  <2> HIDE DEF next
  <2>4. Ruled(next) /\ \A f \in Flags : next[f] = Nil => mem[f] = Nil
    BY <1>0, <2>2, DeviceStateAssumption DEF Ruled, Rules, Watched
  <2>5. QED
    BY <1>0, <1>2, <2>2, <2>3, <2>4, Updated DEF Busy
<1>3. QED
  BY <1>1, <1>2 DEF EvaluateOverspeed

\* The fence rule updates the state.
LEMMA GeofencesStep == ASSUME StateInv, NEW w \in Sessions, EvaluateGeofences(w) PROVE StateInv'
<1> DEFINE next == [s \in Watched |-> IF s \in Fences THEN s \in near[w] ELSE mem[s]]
<1>0. /\ TypeOK /\ mem \in State /\ Ruled(mem) /\ place[w] = "inside" /\ msg \in [Sessions -> Messages \cup {Nil}]
      /\ msg[w] \in Messages /\ handled \in Nat /\ Update(w, next) /\ Go(w, "fenceEvents")
      /\ UNCHANGED <<row, msg, speedLimit, near, limit, cached, log, alarms, handled, faults, clean>>
  BY DEF StateInv, TypeOK, RuledInv, EvaluateGeofences
<1>1. \A s \in Watched : (s \in Fences => next[s] \in BOOLEAN) /\ (s \notin Fences => next[s] = mem[s])
  <2> TAKE s \in Watched
  <2>1. next[s] = IF s \in Fences THEN s \in near[w] ELSE mem[s]
    BY Zenon
  <2>2. (s \in near[w]) \in BOOLEAN
    BY SMT
  <2> HIDE DEF next
  <2>3. CASE s \in Fences
    BY <2>1, <2>2, <2>3, Zenon
  <2>4. CASE s \notin Fences
    BY <2>1, <2>4, Zenon
  <2>5. QED
    BY <2>3, <2>4, Zenon
<1>2. next = [s \in Watched |-> next[s]]
  OBVIOUS
<1> HIDE DEF next
<1>3. next \in State
  <2>1. \A s \in Watched : next[s] \in BOOLEAN \cup {Nil}
    BY <1>0, <1>1 DEF State
  <2>2. QED
    BY <1>2, <2>1 DEF State
<1>4. Ruled(next) /\ \A f \in Flags : next[f] = Nil => mem[f] = Nil
  BY <1>0, <1>1, DeviceStateAssumption DEF Ruled, Rules, Watched
<1>5. QED
  BY <1>0, <1>3, <1>4, Updated DEF Busy

\* A save ends, well or not, and the operators change the limit and the fences.
LEMMA ElsewhereStep ==
  ASSUME StateInv, \/ \E x \in saves : Save(x) \/ SaveFails(x)
                   \/ \E l \in Limits : ChangeLimit(l)
                   \/ \E S \in SUBSET Fences : RefreshFences(S)
  PROVE  StateInv'
<1>0. /\ row \in State \cup {Nil} /\ limit \in Limits /\ cached \subseteq Fences /\ faults \in Nat
      /\ saves \subseteq [n : Nat, snapshot : State] /\ RuledInv
  BY DEF StateInv, TypeOK
<1>1. ASSUME NEW x \in saves, Save(x) PROVE StateInv'
  <2>1. x.snapshot \in State /\ Ruled(x.snapshot)
    BY <1>0 DEF RuledInv
  <2>2. /\ row' = x.snapshot /\ saves' \subseteq saves
        /\ UNCHANGED <<mem, version, place, msg, speedLimit, near, todo, limit, cached, log, alarms, handled, faults, clean>>
    BY <1>1 DEF Save
  <2>3. QED
    BY <1>0, <2>1, <2>2, Elsewhere
<1>2. ASSUME NEW x \in saves, SaveFails(x) PROVE StateInv'
  <2>1. /\ saves' \subseteq saves /\ faults' = faults + 1
        /\ UNCHANGED <<mem, row, version, place, msg, speedLimit, near, todo, limit, cached, log, alarms, handled, clean>>
    BY <1>2 DEF SaveFails
  <2>2. QED
    BY <1>0, <2>1, Elsewhere DEF RuledInv
<1>3. ASSUME NEW l \in Limits, ChangeLimit(l) PROVE StateInv'
  BY <1>0, <1>3, Elsewhere DEF ChangeLimit, RuledInv
<1>4. ASSUME NEW S \in SUBSET Fences, RefreshFences(S) PROVE StateInv'
  BY <1>0, <1>4, Elsewhere DEF RefreshFences, RuledInv
<1>5. QED
  BY <1>1, <1>2, <1>3, <1>4

\* An event is lost: nothing is claimed any more.
LEMMA RecordFailsStep == ASSUME StateInv, NEW w \in Sessions, RecordFails(w) PROVE StateInv'
<1>0. TypeOK /\ RuledInv /\ TodoInv
  BY DEF StateInv
<1>1. /\ todo' = [todo EXCEPT ![w] = {}] /\ clean' = FALSE /\ faults' = faults + 1
      /\ UNCHANGED <<mem, row, saves, version, place, msg, speedLimit, near, limit, cached, log, alarms, handled>>
  BY DEF RecordFails
<1>2. todo' \in [Sessions -> SUBSET Event] /\ \A v \in Sessions : todo'[v] = todo[v] \/ todo'[v] = {}
  BY <1>0, <1>1 DEF TypeOK
<1>3. clean' \in BOOLEAN /\ faults' \in Nat
  <2>1. faults' \in Nat
    BY <1>0, <1>1 DEF TypeOK
  <2>2. clean' \in BOOLEAN
    BY <1>1, Zenon
  <2>3. QED
    BY <2>1, <2>2
<1>4. TypeOK'
  BY <1>0, <1>1, <1>2, <1>3 DEF TypeOK
<1>5. RuledInv' /\ TodoInv'
  BY <1>0, <1>1, <1>2 DEF RuledInv, TodoInv
<1>6. RulesBalance' /\ FlagsBalance'
  BY <1>1 DEF RulesBalance, FlagsBalance
<1>7. QED
  BY <1>4, <1>5, <1>6 DEF StateInv

\* The state of a device that has none is a state.
LEMMA FreshType == Fresh \in State /\ Ruled(Fresh)
<1>1. \A s \in Watched : (s \in Flags => Fresh[s] = Nil) /\ (s \notin Flags => Fresh[s] = FALSE)
  BY DEF Fresh
<1>2. Fresh = [s \in Watched |-> Fresh[s]]
  BY DEF Fresh
<1>3. \A s \in Watched : Fresh[s] \in BOOLEAN \cup {Nil}
  BY <1>1
<1>4. Fresh \in State
  BY <1>2, <1>3 DEF State
<1>5. Ruled(Fresh)
  BY <1>1, DeviceStateAssumption DEF Ruled, Rules, Watched
<1>6. QED
  BY <1>4, <1>5

\* A restart that is clean finds the state saved and no event to record.
LEMMA RestartStep == ASSUME StateInv, Restart PROVE StateInv'
<1>0. TypeOK /\ RuledInv /\ TodoInv
  BY DEF StateInv
<1>1. /\ mem' = Loaded /\ saves' = {} /\ faults' = faults + 1
      /\ place' = [w \in Sessions |-> "idle"] /\ todo' = [w \in Sessions |-> {}]
      /\ clean' = (clean /\ mem = Loaded /\ \A w \in Sessions : todo[w] = {})
      /\ UNCHANGED <<row, version, msg, speedLimit, near, limit, cached, log, alarms, handled>>
  BY DEF Restart
<1>2. Loaded \in State /\ Ruled(Loaded)
  BY <1>0, FreshType DEF Loaded, TypeOK, RuledInv
<1>3. clean' \in BOOLEAN
  BY <1>1, Zenon
<1>4. faults' \in Nat /\ saves' \subseteq [n : Nat, snapshot : State]
  BY <1>0, <1>1 DEF TypeOK
<1>5. place' \in [Sessions -> Place] /\ todo' \in [Sessions -> SUBSET Event] /\ \A w \in Sessions : place'[w] = "idle"
  BY <1>1 DEF Place
<1>6. TypeOK'
  BY <1>0, <1>1, <1>2, <1>3, <1>4, <1>5 DEF TypeOK
<1>7. RuledInv' /\ TodoInv'
  BY <1>0, <1>1, <1>2 DEF RuledInv, TodoInv
<1>8. CASE clean'
  <2>1. clean /\ mem = Loaded /\ \A w \in Sessions : todo[w] = {}
    BY <1>1, <1>8, Zenon
  <2>2. todo = [w \in Sessions |-> {}]
    BY <1>0, <2>1 DEF TypeOK
  <2>3. UNCHANGED <<log, alarms, todo>> /\ mem' = mem
    BY <1>1, <2>1, <2>2
  <2>4. clean = TRUE /\ clean' = TRUE
    BY <1>0, <1>3, <1>8, <2>1 DEF TypeOK
  <2>5. QED
    BY <1>6, <1>7, <2>3, <2>4, NetKept, BalanceKept DEF StateInv
<1>9. CASE ~clean'
  BY <1>6, <1>7, <1>9 DEF StateInv, RulesBalance, FlagsBalance
<1>10. QED
  BY <1>8, <1>9

-----------------------------------------------------------------------------
\* Nothing is watched as TRUE and no event counts when the process first
\* starts.
LEMMA InitHolds == Init => StateInv
<1> SUFFICES ASSUME Init PROVE StateInv
  OBVIOUS
<1>1. TypeOK
  <2>1. mem \in State /\ row \in State \cup {Nil} /\ saves \subseteq [n : Nat, snapshot : State]
    BY FreshType DEF Init
  <2>2. place \in [Sessions -> Place] /\ msg \in [Sessions -> Messages \cup {Nil}]
    BY DEF Init, Place
  <2>3. speedLimit \in [Sessions -> Int] /\ near \in [Sessions -> SUBSET Fences] /\ todo \in [Sessions -> SUBSET Event]
    BY DEF Init
  <2>4. clean \in BOOLEAN
    BY Zenon DEF Init
  <2>5. version \in Nat /\ handled \in Nat /\ faults \in Nat /\ log \in [Event -> Nat] /\ alarms \in [Event -> Nat]
    BY DEF Init
  <2>6. limit \in Limits /\ cached \subseteq Fences /\ \A w \in Sessions : place[w] = "idle"
    BY DEF Init
  <2>7. QED
    BY <2>1, <2>2, <2>3, <2>4, <2>5, <2>6 DEF TypeOK
<1>2. RuledInv /\ TodoInv
  BY FreshType DEF Init, RuledInv, TodoInv
<1>3. ASSUME NEW s \in Watched PROVE Net(s) = 0
  <2>1. \A e : Holders(e, todo) = {}
    BY DEF Init, Holders
  <2>2. \A e \in Event : Tally(e, todo, log, alarms) = 0
    <3>1. \A e \in Event : log[e] = 0 /\ alarms[e] = 0
      BY DEF Init
    <3>2. \A e \in Event : Cardinality(Holders(e, todo)) = 0
      BY <2>1, FS_EmptySet
    <3>3. QED
      BY <3>1, <3>2 DEF Tally
  <2>3. Tally(On(s), todo, log, alarms) = 0 /\ Tally(Off(s), todo, log, alarms) = 0
    BY <2>2, EventType
  <2>4. QED
    BY <2>3, NetIsTally
<1>4. RulesBalance
  <2>1. \A s \in Rules : s \in Watched /\ mem[s] = FALSE
    BY DeviceStateAssumption DEF Init, Fresh, Rules, Watched
  <2>2. QED
    BY <1>3, <2>1, RulesForm DEF RuleOK
<1>5. FlagsBalance
  <2>1. \A f \in Flags : f \in Watched /\ mem[f] = Nil
    BY DEF Init, Fresh, Watched
  <2>2. \A f \in Flags : FlagOK(mem[f], Net(f))
    BY <1>3, <2>1 DEF FlagOK
  <2>3. QED
    BY <1>1, <2>2, FlagsForm DEF TypeOK
<1>6. QED
  BY <1>1, <1>2, <1>4, <1>5 DEF StateInv

\* Every step of a session, of the store and of the faults keeps the invariant.
LEMMA StateStep == StateInv /\ [Next]_vars => StateInv'
<1> SUFFICES ASSUME StateInv, [Next]_vars PROVE StateInv'
  OBVIOUS
<1>1. ASSUME NEW w \in Sessions, NEW m \in Messages, ApplyFlags(w, m) PROVE StateInv'
  BY <1>1, ApplyFlagsStep
<1>2. ASSUME NEW w \in Sessions, SessionStep(w) \/ InsertFails(w) \/ RecordFails(w) \/ AlarmFails(w)
      PROVE  StateInv'
  BY <1>2, RecordStep, AlarmStep, MoveStep, OverspeedStep, GeofencesStep, RecordFailsStep DEF SessionStep
<1>3. CASE UNCHANGED vars
  <2>1. /\ UNCHANGED <<mem, row, saves, version, place, msg, speedLimit, near, todo>>
        /\ UNCHANGED <<limit, cached, log, alarms, handled, faults, clean>>
    BY <1>3 DEF vars
  <2>2. QED
    BY <2>1, Elsewhere DEF StateInv, TypeOK, RuledInv
<1>4. QED
  BY <1>1, <1>2, <1>3, ElsewhereStep, RestartStep DEF Next

-----------------------------------------------------------------------------
(* The results.                                                            *)

\* The inductive invariant holds in every behaviour, whatever the interleaving
\* of sessions, saves, edits and faults.
THEOREM Invariance == Spec => []StateInv
<1>1. Init => StateInv
  BY InitHolds
<1>2. StateInv /\ [Next]_vars => StateInv'
  BY StateStep
<1>3. QED
  BY <1>1, <1>2, PTL DEF Spec

\* The state in memory, in its row and on its way there keeps its type.
THEOREM TypeCorrect == Spec => []TypeOK
<1>1. StateInv => TypeOK
  BY DEF StateInv
<1>2. QED
  BY <1>1, Invariance, PTL

\* What the rules on fences and speed derive is reported once each, whatever
\* sessions, alarms, edits and restarts that found the state saved do: the events
\* that no alarm wrote balance to the state.
THEOREM RulesBalanceHolds == Spec => []RulesBalance
<1>1. StateInv => RulesBalance
  BY DEF StateInv
<1>2. QED
  BY <1>1, Invariance, PTL

\* The changes of a flag are reported once each, starting with the first report,
\* beside the events that alarms write of it.
THEOREM FlagsBalanceHolds == Spec => []FlagsBalance
<1>1. StateInv => FlagsBalance
  BY DEF StateInv
<1>2. QED
  BY <1>1, Invariance, PTL

=============================================================================
