--------------------------- MODULE PresenceProofs ---------------------------
(***************************************************************************)
(* Why the sweep does not lower a device that was heard, for any number of *)
(* sessions and any limits.  touch writes nothing for TouchInterval after  *)
(* it last did, so the row may be that much older than the last contact;   *)
(* Bounded says that it is never older than that, unless the statement     *)
(* that makes it so is about to run.                                       *)
(***************************************************************************)
EXTENDS Presence, FiniteSetTheorems, TLAPS

SweepState == [at : {"idle", "update", "invalidate"}, to : Status \cup {Nil}]

\* The ages the argument compares.
AgesOK ==
  /\ seen \in 0..Old /\ touched \in 0..TouchInterval /\ heard \in 0..StaleAfter
  /\ place \in [Sessions -> {"idle", "query", "install", "touch", "write", "online"}]
  /\ at \in [Sessions -> 0..Old]
  /\ fails \in Nat /\ overlap \in BOOLEAN
  /\ sweep \in SweepState

\* A touch takes its instant when it begins.
FreshInv == \A s \in Sessions : place[s] \notin {"write", "online"} => at[s] = 0

\* The row's last contact, n old, is at most x old, or a statement that makes it
\* so is about to run: p and a are the sessions' places and instants.
Bounded(x, n, p, a) == n <= x \/ \E s \in Sessions : p[s] = "write" /\ a[s] <= x

\* As long as no statement failed: the row is as new as lastTouch says while
\* touch is spared, and at most TouchInterval older than the last message.
TouchInv == fails = 0 /\ touched < TouchInterval => Bounded(touched, seen, place, at)
HeardInv == fails = 0 /\ heard < StaleAfter => Bounded(heard + TouchInterval, seen, place, at)

\* The sweep is about to lower a device only if the row is old enough, unless a
\* touch was written in between.
SweepInv == sweep.at = "update" /\ sweep.to # "ONLINE" /\ ~overlap => seen > StaleAfter

PresenceInv == AgesOK /\ FreshInv /\ TouchInv /\ HeardInv /\ SweepInv

-----------------------------------------------------------------------------
\* The order of the limits, from the assumption.
LEMMA Limits ==
  /\ TouchInterval \in Nat /\ TouchInterval # 0 /\ StaleAfter \in Nat /\ OfflineAfter \in Nat
  /\ StaleAfter < OfflineAfter /\ Old = OfflineAfter + 1 /\ Old \in Nat /\ 0 \in 0..Old
  BY PresenceAssumption DEF Old

\* Nothing the row rests on goes away.
LEMMA BoundedKept ==
  ASSUME seen' = seen, \A s \in Sessions : place[s] = "write" => place'[s] = "write" /\ at'[s] = at[s], NEW x, Bounded(x, seen, place, at)
  PROVE  Bounded(x, seen', place', at')
  BY DEF Bounded

\* A session moves on without touching.
LEMMA SessionMoves ==
  ASSUME PresenceInv, NEW s \in Sessions, place[s] # "write", NEW p \in {"idle", "query", "install", "touch"},
         Go(s, p), (at' = at /\ place[s] # "online") \/ at' = [at EXCEPT ![s] = 0],
         UNCHANGED <<seen, touched, sweep, heard, fails, overlap>>
  PROVE  PresenceInv'
<1> USE DEF PresenceInv
<1>1. /\ place' \in [Sessions -> {"idle", "query", "install", "touch", "write", "online"}]
      /\ place'[s] = p /\ \A t \in Sessions : t # s => place'[t] = place[t]
  BY DEF Go, AgesOK
<1>2. at' \in [Sessions -> 0..Old] /\ at'[s] = 0 /\ \A t \in Sessions : t # s => at'[t] = at[t]
  BY Limits DEF AgesOK, FreshInv
<1>3. AgesOK' /\ FreshInv'
  BY <1>1, <1>2 DEF AgesOK, FreshInv
<1>4. \A x : Bounded(x, seen, place, at) => Bounded(x, seen', place', at')
  BY <1>1, <1>2, BoundedKept
<1>5. TouchInv' /\ HeardInv' /\ SweepInv'
  BY <1>4 DEF TouchInv, HeardInv, SweepInv
<1>6. QED
  BY <1>3, <1>5

\* Only the caches change, and the sweep if it is not about to lower the device.
LEMMA CachesOnly ==
  ASSUME PresenceInv, UNCHANGED <<seen, touched, place, at, heard, fails, overlap>>,
         sweep' = sweep \/ (sweep' \in SweepState /\ sweep'.at # "update")
  PROVE  PresenceInv'
  BY DEF PresenceInv, AgesOK, FreshInv, TouchInv, HeardInv, SweepInv

\* A message arrives and its device is looked up in the cache.
LEMMA ResolveStep == ASSUME PresenceInv, NEW s \in Sessions, ResolveDevice(s) PROVE PresenceInv'
<1>1. place[s] = "idle" /\ UNCHANGED <<seen, touched, at, sweep, heard, fails, overlap>>
  BY DEF ResolveDevice, row, mem, ghost
<1>2. PICK p \in {"query", "touch"} : Go(s, p)
  BY DEF ResolveDevice
<1>3. QED
  BY <1>1, <1>2, SessionMoves

\* The device is read and cached, or the query fails.
LEMMA LookupStep ==
  ASSUME PresenceInv, NEW s \in Sessions, GetByIMEI(s) \/ QueryFails(s) \/ CacheDevice(s)
  PROVE  PresenceInv'
<1>1. place[s] \in {"query", "install"} /\ UNCHANGED <<seen, touched, sweep, heard, fails, overlap>>
  BY DEF GetByIMEI, QueryFails, CacheDevice, row, mem, ghost
<1>2. PICK p \in {"idle", "install", "touch"} : Go(s, p) /\ (at' = at \/ at' = [at EXCEPT ![s] = 0])
  BY DEF GetByIMEI, QueryFails, CacheDevice, Leave
<1>3. QED
  BY <1>1, <1>2, SessionMoves

\* The object becomes ONLINE after the write.
LEMMA OnlineStep == ASSUME PresenceInv, NEW s \in Sessions, Online(s) PROVE PresenceInv'
<1>1. place[s] = "online" /\ UNCHANGED <<seen, touched, sweep, heard, fails, overlap>>
  BY DEF Online, row, ghost
<1>2. Go(s, "idle") /\ at' = [at EXCEPT ![s] = 0]
  BY DEF Online, Leave
<1>3. QED
  BY <1>1, <1>2, SessionMoves

\* Either touch is spared, and the row is as new as lastTouch says, or this
\* session is about to write.
LEMMA TouchStep == ASSUME PresenceInv, NEW s \in Sessions, Touch(s) PROVE PresenceInv'
<1> USE DEF PresenceInv
<1>1. /\ place[s] = "touch" /\ heard' = 0 /\ UNCHANGED <<seen, sweep, fails, overlap>>
      /\ touched' = IF touched < TouchInterval THEN touched ELSE 0
  BY DEF Touch, row
<1>2. PICK p \in {"idle", "write"} : Go(s, p) /\ (at' = at \/ at' = [at EXCEPT ![s] = 0])
  BY DEF Touch, Leave
<1>3. touched >= TouchInterval => Go(s, "write")
  BY Limits DEF Touch, Spares, AgesOK
<1>4. /\ place' \in [Sessions -> {"idle", "query", "install", "touch", "write", "online"}]
      /\ place'[s] = p /\ (touched >= TouchInterval => place'[s] = "write")
      /\ \A t \in Sessions : t # s => place'[t] = place[t]
  BY <1>2, <1>3 DEF Go, AgesOK
<1>5. at' \in [Sessions -> 0..Old] /\ at'[s] = 0 /\ \A t \in Sessions : t # s => at'[t] = at[t]
  BY <1>1, <1>2, Limits DEF AgesOK, FreshInv
<1>6. touched' \in 0..TouchInterval /\ touched' < TouchInterval /\ heard' \in 0..StaleAfter
  BY <1>1, Limits DEF AgesOK
<1>7. AgesOK' /\ FreshInv'
  BY <1>1, <1>4, <1>5, <1>6 DEF AgesOK, FreshInv
<1>8. \A x : Bounded(x, seen, place, at) => Bounded(x, seen', place', at')
  BY <1>1, <1>4, <1>5, BoundedKept
<1>9. fails' = 0 => Bounded(touched', seen', place', at')
  <2>1. CASE touched < TouchInterval
    BY <1>1, <1>8, <2>1 DEF TouchInv
  <2>2. CASE ~(touched < TouchInterval)
    <3>1. touched' = 0 /\ place'[s] = "write" /\ at'[s] = 0
      BY <1>1, <1>4, <1>5, <2>2, Limits DEF AgesOK
    <3>2. QED
      BY <3>1 DEF Bounded
  <2>3. QED
    BY <2>1, <2>2
<1>10. TouchInv'
  BY <1>9 DEF TouchInv
<1>11. HeardInv'
  <2>1. ASSUME Bounded(touched', seen', place', at') PROVE Bounded(heard' + TouchInterval, seen', place', at')
    <3>1. heard' + TouchInterval = TouchInterval
      BY <1>1, Limits
    <3>2. seen' \in Nat /\ touched' \in Nat /\ \A t \in Sessions : at'[t] \in Nat
      BY <1>7, Limits DEF AgesOK
    <3>3. QED
      BY <1>6, <2>1, <3>1, <3>2, Limits DEF Bounded
  <2>2. QED
    BY <1>9, <2>1 DEF HeardInv
<1>12. SweepInv'
  BY <1>1 DEF SweepInv
<1>13. QED
  BY <1>7, <1>10, <1>11, <1>12

\* What rested on the statement that runs now rests on the row.
LEMMA WriteStep == ASSUME PresenceInv, NEW s \in Sessions, Write(s) PROVE PresenceInv'
<1> USE DEF PresenceInv
<1>1. /\ place[s] = "write" /\ seen' = Newest(at[s], seen) /\ Go(s, "online")
      /\ overlap' = (overlap \/ sweep.at = "update") /\ UNCHANGED <<touched, at, sweep, heard, fails>>
  BY DEF Write, mem
<1>2. seen \in 0..Old /\ at[s] \in 0..Old /\ at \in [Sessions -> 0..Old]
  BY DEF AgesOK
<1>3. seen' \in 0..Old /\ seen' <= seen /\ seen' <= at[s]
  BY <1>1, <1>2, Limits DEF Newest
<1>4. /\ place' \in [Sessions -> {"idle", "query", "install", "touch", "write", "online"}]
      /\ place'[s] = "online" /\ \A t \in Sessions : t # s => place'[t] = place[t]
  BY <1>1 DEF Go, AgesOK
<1>5. AgesOK' /\ FreshInv'
  BY <1>1, <1>3, <1>4 DEF AgesOK, FreshInv
<1>6. ASSUME NEW x \in Nat, Bounded(x, seen, place, at) PROVE Bounded(x, seen', place', at')
  <2>0. seen \in Nat /\ seen' \in Nat /\ at[s] \in Nat
    BY <1>2, <1>3, Limits
  <2>1. CASE seen <= x
    BY <1>3, <2>0, <2>1 DEF Bounded
  <2>2. CASE \E t \in Sessions : place[t] = "write" /\ at[t] <= x
    <3>1. PICK t \in Sessions : place[t] = "write" /\ at[t] <= x
      BY <2>2
    <3>2. CASE t = s
      BY <1>3, <2>0, <3>1, <3>2 DEF Bounded
    <3>3. CASE t # s
      BY <1>1, <1>4, <3>1, <3>3 DEF Bounded
    <3>4. QED
      BY <3>2, <3>3
  <2>3. QED
    BY <1>6, <2>1, <2>2 DEF Bounded
<1>7. touched \in Nat /\ heard + TouchInterval \in Nat
  BY Limits DEF AgesOK
<1>8. TouchInv' /\ HeardInv'
  BY <1>1, <1>6, <1>7 DEF TouchInv, HeardInv
<1>9. SweepInv'
  BY <1>1 DEF SweepInv
<1>10. QED
  BY <1>5, <1>8, <1>9

\* A statement fails: nothing is claimed any more.
LEMMA WriteFailsStep == ASSUME PresenceInv, NEW s \in Sessions, WriteFails(s) PROVE PresenceInv'
<1> USE DEF PresenceInv
<1>1. /\ fails' = fails + 1 /\ Go(s, "idle") /\ at' = [at EXCEPT ![s] = 0]
      /\ UNCHANGED <<seen, touched, sweep, heard, overlap>>
  BY DEF WriteFails, Leave, row
<1>2. fails' \in Nat /\ fails' # 0
  BY <1>1 DEF AgesOK
<1>3. AgesOK' /\ FreshInv'
  BY <1>1, <1>2, Limits DEF AgesOK, FreshInv, Go
<1>4. TouchInv' /\ HeardInv' /\ SweepInv'
  BY <1>1, <1>2 DEF TouchInv, HeardInv, SweepInv
<1>5. QED
  BY <1>3, <1>4

\* The sweep goes by the row as its snapshot shows it.
LEMMA SweepStep == ASSUME PresenceInv, Sweep PROVE PresenceInv'
<1>1. CASE SweepSnapshot
  <2> USE DEF PresenceInv
  <2>1. /\ sweep' = [at |-> "update", to |-> Computed] /\ overlap' = FALSE
        /\ UNCHANGED <<seen, touched, place, at, heard, fails>>
    BY <1>1 DEF SweepSnapshot, row, mem, ses
  <2>2. Computed # "ONLINE" => seen > StaleAfter
    BY Limits DEF Computed, AgesOK
  <2>3. SweepInv'
    BY <2>1, <2>2 DEF SweepInv
  <2>4. AgesOK' /\ FreshInv' /\ TouchInv' /\ HeardInv'
    <3>1. sweep' \in SweepState
      BY <2>1 DEF SweepState, Computed, Status
    <3>2. QED
      BY <2>1, <3>1 DEF AgesOK, FreshInv, TouchInv, HeardInv
  <2>5. QED
    BY <2>3, <2>4
<1>2. CASE SweepUpdate
  <2>1. UNCHANGED <<seen, touched, place, at, heard, fails, overlap>> /\ sweep.at = "update"
    BY <1>2 DEF SweepUpdate, mem, ses, ghost
  <2>2. sweep' \in SweepState /\ sweep'.at # "update"
    <3>1. CASE status = sweep.to
      BY <1>2, <3>1 DEF SweepUpdate, NoSweep, SweepState
    <3>2. CASE status # sweep.to
      BY <1>2, <3>2 DEF SweepUpdate, PresenceInv, AgesOK, SweepState
    <3>3. QED
      BY <3>1, <3>2
  <2>3. QED
    BY <2>1, <2>2, CachesOnly
<1>3. CASE SweepInvalidate
  <2>1. UNCHANGED <<seen, touched, place, at, heard, fails, overlap>> /\ sweep' = NoSweep
    BY <1>3 DEF SweepInvalidate, row, ses, ghost
  <2>2. QED
    BY <2>1, CachesOnly DEF NoSweep, SweepState
<1>4. QED
  BY <1>1, <1>2, <1>3 DEF Sweep

\* Ages grow together.
LEMMA TickStep == ASSUME PresenceInv, Tick PROVE PresenceInv'
<1> USE DEF PresenceInv
<1>1. /\ seen' = Aged(seen, Old) /\ touched' = Aged(touched, TouchInterval) /\ heard' = Aged(heard, StaleAfter)
      /\ at' = [s \in Sessions |-> IF place[s] = "write" THEN Aged(at[s], Old) ELSE at[s]]
      /\ UNCHANGED <<place, sweep, fails, overlap>>
  BY DEF Tick
<1>2. ASSUME NEW n \in Nat, NEW a \in 0..n
      PROVE  Aged(a, n) \in 0..n /\ Aged(a, n) <= a + 1 /\ a <= Aged(a, n) /\ (Aged(a, n) < n => Aged(a, n) = a + 1)
  BY <1>2 DEF Aged
<1>3. /\ seen \in 0..Old /\ touched \in 0..TouchInterval /\ heard \in 0..StaleAfter
      /\ \A s \in Sessions : at[s] \in 0..Old
  BY DEF AgesOK
<1>4. /\ seen' \in 0..Old /\ seen' <= seen + 1 /\ seen <= seen'
      /\ touched' \in 0..TouchInterval /\ (touched' < TouchInterval => touched' = touched + 1)
      /\ heard' \in 0..StaleAfter /\ (heard' < StaleAfter => heard' = heard + 1)
  BY <1>1, <1>2, <1>3, Limits
<1>5. /\ \A s \in Sessions : at'[s] \in 0..Old /\ at'[s] <= at[s] + 1
      /\ \A s \in Sessions : place[s] # "write" => at'[s] = at[s]
      /\ at' \in [Sessions -> 0..Old]
  <2>1. ASSUME NEW s \in Sessions PROVE at'[s] \in 0..Old /\ at'[s] <= at[s] + 1
    <3>1. CASE place[s] = "write"
      BY <1>1, <1>2, <1>3, <3>1, Limits
    <3>2. CASE place[s] # "write"
      BY <1>1, <1>3, <3>2, Limits
    <3>3. QED
      BY <3>1, <3>2
  <2>2. \A s \in Sessions : place[s] # "write" => at'[s] = at[s]
    BY <1>1
  <2>3. at' = [s \in Sessions |-> at'[s]]
    BY <1>1
  <2>4. QED
    BY <2>1, <2>2, <2>3
<1>6. AgesOK' /\ FreshInv'
  BY <1>1, <1>4, <1>5 DEF AgesOK, FreshInv
<1>7. ASSUME NEW x \in Nat, Bounded(x, seen, place, at) PROVE Bounded(x + 1, seen', place', at')
  <2>1. seen \in Nat /\ seen' \in Nat /\ \A s \in Sessions : at[s] \in Nat /\ at'[s] \in Nat
    BY <1>3, <1>4, <1>5, Limits
  <2>2. QED
    BY <1>1, <1>4, <1>5, <1>7, <2>1 DEF Bounded
<1>8. TouchInv'
  <2>1. SUFFICES ASSUME fails' = 0, touched' < TouchInterval PROVE Bounded(touched', seen', place', at')
    BY DEF TouchInv
  <2>2. touched \in Nat /\ touched' = touched + 1 /\ touched < TouchInterval /\ fails = 0
    BY <1>1, <1>3, <1>4, <2>1, Limits
  <2>3. Bounded(touched + 1, seen', place', at')
    BY <1>7, <2>2 DEF TouchInv
  <2>4. QED
    BY <2>2, <2>3
<1>9. HeardInv'
  <2>1. SUFFICES ASSUME fails' = 0, heard' < StaleAfter PROVE Bounded(heard' + TouchInterval, seen', place', at')
    BY DEF HeardInv
  <2>2. heard \in Nat /\ heard' = heard + 1 /\ heard < StaleAfter /\ fails = 0
    BY <1>1, <1>3, <1>4, <2>1, Limits
  <2>3. heard' + TouchInterval = (heard + TouchInterval) + 1 /\ heard + TouchInterval \in Nat
    BY <2>2, Limits
  <2>4. QED
    BY <1>7, <2>2, <2>3 DEF HeardInv
<1>10. SweepInv'
  BY <1>1, <1>3, <1>4, Limits DEF SweepInv
<1>11. QED
  BY <1>6, <1>8, <1>9, <1>10

-----------------------------------------------------------------------------
\* At the start the last contact is what the row says.
LEMMA InitHolds == Init => PresenceInv
<1> SUFFICES ASSUME Init PROVE PresenceInv
  OBVIOUS
<1>1. AgesOK /\ FreshInv
  <2>1. seen \in 0..Old /\ heard \in 0..StaleAfter
    BY Limits DEF Init, Newest
  <2>2. sweep \in SweepState
    BY DEF Init, NoSweep, SweepState
  <2>3. touched \in 0..TouchInterval /\ fails \in Nat /\ overlap \in BOOLEAN
    <3>1. touched = TouchInterval /\ fails = 0 /\ overlap = FALSE
      BY DEF Init
    <3>2. overlap \in BOOLEAN
      BY <3>1, Zenon
    <3>3. touched \in 0..TouchInterval /\ fails \in Nat
      BY <3>1, Limits
    <3>4. QED
      BY <3>2, <3>3
  <2>4. QED
    BY <2>1, <2>2, <2>3, Limits DEF Init, AgesOK, FreshInv
<1>2. TouchInv /\ SweepInv
  BY Limits DEF Init, TouchInv, SweepInv, NoSweep
<1>3. HeardInv
  BY Limits DEF Init, HeardInv, Bounded, Newest
<1>4. QED
  BY <1>1, <1>2, <1>3 DEF PresenceInv

\* Every step of a session, of the sweep and of the clock keeps the invariant.
LEMMA PresenceStep == PresenceInv /\ [Next]_vars => PresenceInv'
<1> SUFFICES ASSUME PresenceInv, [Next]_vars PROVE PresenceInv'
  OBVIOUS
<1>1. ASSUME NEW s \in Sessions, ResolveDevice(s) \/ Step(s) PROVE PresenceInv'
  BY <1>1, ResolveStep, LookupStep, TouchStep, WriteStep, WriteFailsStep, OnlineStep DEF Step
<1>2. CASE UNCHANGED vars
  BY <1>2, CachesOnly DEF vars, row, mem, ses, ghost
<1>3. QED
  BY <1>1, <1>2, SweepStep, TickStep DEF Next

\* The only step that lowers the status is the sweep's update, and the row it
\* goes by is old.
LEMMA Lowered ==
  ASSUME PresenceInv, [Next]_vars, status = "ONLINE", status' # "ONLINE"
  PROVE  heard + TouchInterval > StaleAfter \/ Writing \/ overlap \/ fails > 0
<1>1. SweepUpdate
  <2>1. ASSUME NEW s \in Sessions, ResolveDevice(s) \/ Step(s) PROVE FALSE
    BY <2>1 DEF ResolveDevice, Step, GetByIMEI, QueryFails, CacheDevice, Touch, Write, WriteFails, Online, row
  <2>2. ~(SweepSnapshot \/ SweepInvalidate \/ Tick \/ UNCHANGED vars)
    BY DEF SweepSnapshot, SweepInvalidate, Tick, vars, row
  <2>3. QED
    BY <2>1, <2>2 DEF Next, Sweep
<1>2. overlap \/ seen > StaleAfter
  BY <1>1 DEF SweepUpdate, PresenceInv, SweepInv
<1>3. AgesOK /\ HeardInv
  BY DEF PresenceInv
<1>4. CASE heard = StaleAfter
  BY <1>4, Limits
<1>5. CASE heard # StaleAfter /\ fails = 0
  <2>1. heard < StaleAfter
    BY <1>3, <1>5, Limits DEF AgesOK
  <2>2. Bounded(heard + TouchInterval, seen, place, at)
    BY <1>3, <1>5, <2>1 DEF HeardInv
  <2>3. CASE seen <= heard + TouchInterval
    BY <1>2, <1>3, <2>3, Limits DEF AgesOK
  <2>4. QED
    BY <2>2, <2>3 DEF Bounded, Writing
<1>6. CASE fails # 0
  BY <1>3, <1>6 DEF AgesOK
<1>7. QED
  BY <1>4, <1>5, <1>6

-----------------------------------------------------------------------------
(* Types.  There is always an object left for GetByIMEI: the session that  *)
(* asks for one has none, so the cache and the other sessions hold at most *)
(* as many as there are sessions.                                          *)

TypeInv ==
  /\ TypeOK
  /\ \A s \in Sessions : place[s] = "query" => obj[s] = Nil
  /\ sweep.at = "update" => sweep.to \in Status

\* The pigeonhole argument: f gives every session an object, the asking one
\* the cached object, and cannot cover all of Objs.
LEMMA ObjectLeft ==
  ASSUME NEW s \in Sessions, obj[s] = Nil
  PROVE  \E o \in Objs : Unused(o)
<1> DEFINE n == Cardinality(Sessions)
           f == [t \in Sessions |-> IF t = s THEN cache.obj ELSE obj[t]]
           T == {f[t] : t \in Sessions}
<1> SUFFICES ASSUME \A o \in Objs : ~Unused(o) PROVE FALSE
  OBVIOUS
<1>1. n \in Nat
  BY PresenceAssumption, FS_CardinalityType
<1>2. f \in Surjection(Sessions, T)
  BY DEF Surjection
<1>3. IsFiniteSet(T) /\ Cardinality(T) <= n
  BY <1>2, PresenceAssumption, FS_Surjection
<1>4. \A o \in Objs : o # Nil
  BY <1>1, PresenceAssumption DEF Objs
<1>5. \A o \in Objs : o \in T
  <2> TAKE o \in Objs
  <2>1. CASE o = cache.obj
    <3>1. f[s] = o
      BY <2>1
    <3>2. QED
      BY <3>1
  <2>2. CASE o # cache.obj
    <3>1. PICK t \in Sessions : obj[t] = o
      BY <2>2 DEF Unused
    <3>2. f[t] = o
      BY <1>4, <3>1
    <3>3. QED
      BY <3>2
  <2>3. QED
    BY <2>1, <2>2
<1>6. Objs \in SUBSET T
  BY <1>5
<1>7. Cardinality(Objs) <= Cardinality(T) /\ IsFiniteSet(Objs)
  BY <1>3, <1>6, FS_Subset
<1>8. Cardinality(Objs) = n + 1
  <2>1. Cardinality(0..n) = IF 0 > n THEN 0 ELSE n - 0 + 1
    BY <1>1, FS_Interval
  <2>2. QED
    BY <1>1, <2>1 DEF Objs
<1>9. Cardinality(T) \in Nat
  BY <1>3, FS_CardinalityType
<1>10. QED
  BY <1>1, <1>3, <1>7, <1>8, <1>9

\* What an object says is TRUE or FALSE, collected or not.
LEMMA CollectType == ASSUME NEW f, Collect(f) PROVE online' \in [Objs -> BOOLEAN]
  BY DEF Collect

\* The fields that a step of a session leaves alone, and its place and object.
LEMMA SessionType ==
  ASSUME TypeInv, NEW s \in Sessions, NEW p \in {"idle", "query", "install", "touch", "write", "online"}, Go(s, p),
         NEW o \in Objs \cup {Nil}, obj' = [obj EXCEPT ![s] = o], p = "query" => o = Nil,
         at' = at \/ at' = [at EXCEPT ![s] = 0],
         status' \in Status, seen' \in 0..Old, online' \in [Objs -> BOOLEAN],
         cache' \in [obj : Objs \cup {Nil}, age : 0..CacheTTL - 1], touched' \in 0..TouchInterval,
         sweep' = sweep, heard' \in 0..StaleAfter, fails' \in 0..MaxFails, overlap' \in BOOLEAN
  PROVE  TypeInv'
<1> USE DEF TypeInv
<1>1. /\ place' \in [Sessions -> {"idle", "query", "install", "touch", "write", "online"}]
      /\ place'[s] = p /\ \A t \in Sessions : t # s => place'[t] = place[t]
  BY DEF Go, TypeOK
<1>2. obj' \in [Sessions -> Objs \cup {Nil}] /\ obj'[s] = o /\ \A t \in Sessions : t # s => obj'[t] = obj[t]
  BY DEF TypeOK
<1>3. at' \in [Sessions -> 0..Old]
  BY Limits DEF TypeOK
<1>4. TypeOK'
  BY <1>1, <1>2, <1>3 DEF TypeOK
<1>5. QED
  BY <1>1, <1>2, <1>4

\* resolveDevice keeps the types.
LEMMA LookupType ==
  ASSUME TypeInv, NEW s \in Sessions, ResolveDevice(s) \/ GetByIMEI(s) \/ QueryFails(s) \/ CacheDevice(s)
  PROVE  TypeInv'
<1>0. /\ status \in Status /\ seen \in 0..Old /\ online \in [Objs -> BOOLEAN] /\ touched \in 0..TouchInterval
      /\ cache \in [obj : Objs \cup {Nil}, age : 0..CacheTTL - 1] /\ obj \in [Sessions -> Objs \cup {Nil}]
      /\ heard \in 0..StaleAfter /\ fails \in 0..MaxFails /\ overlap \in BOOLEAN
  BY DEF TypeInv, TypeOK
<1>1. UNCHANGED <<status, seen, touched, sweep, heard, fails, overlap>>
  BY DEF ResolveDevice, GetByIMEI, QueryFails, CacheDevice, row, mem, ghost
<1>2. CASE ResolveDevice(s)
  <2>1. /\ obj' = [obj EXCEPT ![s] = cache.obj] /\ cache.obj \in Objs \cup {Nil}
        /\ UNCHANGED <<online, cache, at>>
    BY <1>0, <1>2 DEF ResolveDevice, mem
  <2>2. PICK p \in {"query", "touch"} : Go(s, p) /\ (p = "query" => cache.obj = Nil)
    BY <1>2 DEF ResolveDevice
  <2>3. QED
    BY <1>0, <1>1, <2>1, <2>2, SessionType
<1>3. CASE GetByIMEI(s)
  <2> DEFINE o == CHOOSE x \in Objs : Unused(x)
  <2>1. o \in Objs
    BY <1>3, ObjectLeft DEF GetByIMEI, TypeInv
  <2>2. /\ online' = [online EXCEPT ![o] = (status = "ONLINE")] /\ obj' = [obj EXCEPT ![s] = o]
        /\ Go(s, "install") /\ UNCHANGED <<cache, at>>
    BY <1>3 DEF GetByIMEI
  <2> HIDE DEF o
  <2>3. online' \in [Objs -> BOOLEAN]
    BY <1>0, <2>2
  <2>4. QED
    BY <1>0, <1>1, <2>1, <2>2, <2>3, SessionType
<1>4. CASE QueryFails(s)
  <2>1. /\ Go(s, "idle") /\ obj' = [obj EXCEPT ![s] = Nil] /\ at' = [at EXCEPT ![s] = 0]
        /\ UNCHANGED <<online, cache>>
    BY <1>4 DEF QueryFails, Leave, mem
  <2>2. QED
    BY <1>0, <1>1, <2>1, SessionType
<1>5. CASE CacheDevice(s)
  <2>1. Go(s, "touch") /\ UNCHANGED <<obj, at>> /\ cache' = [obj |-> obj[s], age |-> 0] /\ Collect(online)
    BY <1>5 DEF CacheDevice
  <2>2. cache' \in [obj : Objs \cup {Nil}, age : 0..CacheTTL - 1]
    BY <1>0, <2>1, PresenceAssumption
  <2>3. obj' = [obj EXCEPT ![s] = obj[s]] /\ obj[s] \in Objs \cup {Nil}
    BY <1>0, <2>1
  <2>4. QED
    BY <1>0, <1>1, <2>1, <2>2, <2>3, CollectType, SessionType
<1>6. QED
  BY <1>2, <1>3, <1>4, <1>5

\* touch keeps the types.
LEMMA TouchType ==
  ASSUME TypeInv, NEW s \in Sessions, Touch(s) \/ Write(s) \/ WriteFails(s) \/ Online(s)
  PROVE  TypeInv'
<1>0. /\ status \in Status /\ seen \in 0..Old /\ online \in [Objs -> BOOLEAN] /\ touched \in 0..TouchInterval
      /\ cache \in [obj : Objs \cup {Nil}, age : 0..CacheTTL - 1] /\ obj \in [Sessions -> Objs \cup {Nil}]
      /\ heard \in 0..StaleAfter /\ fails \in 0..MaxFails /\ overlap \in BOOLEAN /\ at[s] \in 0..Old
  BY DEF TypeInv, TypeOK
<1>1. obj = [obj EXCEPT ![s] = obj[s]] /\ obj[s] \in Objs \cup {Nil}
  BY <1>0
<1>2. CASE Touch(s)
  <2>1. /\ heard' = 0 /\ touched' = (IF touched < TouchInterval THEN touched ELSE 0)
        /\ UNCHANGED <<status, seen, cache, sweep, fails, overlap>> /\ Collect(online)
    BY <1>2 DEF Touch, row
  <2>2. touched' \in 0..TouchInterval /\ heard' \in 0..StaleAfter
    BY <1>0, <2>1, Limits
  <2>3. \/ Go(s, "idle") /\ obj' = [obj EXCEPT ![s] = Nil] /\ at' = [at EXCEPT ![s] = 0]
        \/ Go(s, "write") /\ obj' = obj /\ at' = at
    BY <1>2 DEF Touch, Leave
  <2>4. QED
    BY <1>0, <1>1, <2>1, <2>2, <2>3, CollectType, SessionType
<1>3. CASE Write(s)
  <2>1. /\ status' = "ONLINE" /\ seen' = Newest(at[s], seen) /\ overlap' = (overlap \/ sweep.at = "update")
        /\ Go(s, "online") /\ UNCHANGED <<online, cache, touched, obj, at, sweep, heard, fails>>
    BY <1>3 DEF Write, mem
  <2>2. seen' \in 0..Old /\ status' \in Status
    BY <1>0, <2>1, Limits DEF Newest, Status
  <2>3. overlap' \in BOOLEAN
    BY <2>1, Zenon
  <2>4. QED
    BY <1>0, <1>1, <2>1, <2>2, <2>3, SessionType
<1>4. CASE WriteFails(s)
  <2>1. /\ fails < MaxFails /\ fails' = fails + 1 /\ Go(s, "idle") /\ obj' = [obj EXCEPT ![s] = Nil]
        /\ at' = [at EXCEPT ![s] = 0] /\ Collect(online)
        /\ UNCHANGED <<status, seen, cache, touched, sweep, heard, overlap>>
    BY <1>4 DEF WriteFails, Leave, row
  <2>2. fails' \in 0..MaxFails
    BY <1>0, <2>1, PresenceAssumption
  <2>3. QED
    BY <1>0, <2>1, <2>2, CollectType, SessionType
<1>5. CASE Online(s)
  <2>1. /\ cache' = (IF online[obj[s]] THEN cache ELSE [obj |-> obj[s], age |-> 0])
        /\ Go(s, "idle") /\ obj' = [obj EXCEPT ![s] = Nil] /\ at' = [at EXCEPT ![s] = 0]
        /\ Collect([online EXCEPT ![obj[s]] = TRUE])
        /\ UNCHANGED <<status, seen, touched, sweep, heard, fails, overlap>>
    BY <1>5 DEF Online, Leave, row, ghost
  <2>2. cache' \in [obj : Objs \cup {Nil}, age : 0..CacheTTL - 1]
    BY <1>0, <1>1, <2>1, PresenceAssumption
  <2>3. QED
    BY <1>0, <2>1, <2>2, CollectType, SessionType
<1>6. QED
  BY <1>2, <1>3, <1>4, <1>5

\* The sweep keeps the types.
LEMMA SweepType == ASSUME TypeInv, Sweep PROVE TypeInv'
<1> USE DEF TypeInv
<1>1. CASE SweepSnapshot
  <2>1. /\ sweep' = [at |-> "update", to |-> Computed] /\ overlap' = FALSE
        /\ UNCHANGED <<status, seen, online, cache, touched, place, obj, at, heard, fails>>
    BY <1>1 DEF SweepSnapshot, row, mem, ses
  <2>2. sweep' \in [at : {"idle", "update", "invalidate"}, to : Status \cup {Nil}] /\ sweep'.to \in Status
    BY <2>1 DEF Computed, Status
  <2>3. overlap' \in BOOLEAN
    BY <2>1, Zenon
  <2>4. QED
    BY <2>1, <2>2, <2>3 DEF TypeOK
<1>2. CASE SweepUpdate
  <2>1. /\ sweep.at = "update" /\ status' = sweep.to
        /\ sweep' = (IF status = sweep.to THEN NoSweep ELSE [sweep EXCEPT !.at = "invalidate"])
        /\ UNCHANGED <<seen, online, cache, touched, place, obj, at, heard, fails, overlap>>
    BY <1>2 DEF SweepUpdate, mem, ses, ghost
  <2>2. sweep' \in [at : {"idle", "update", "invalidate"}, to : Status \cup {Nil}] /\ sweep'.at # "update"
    BY <2>1 DEF TypeOK, NoSweep
  <2>3. status' \in Status
    BY <2>1
  <2>4. QED
    BY <2>1, <2>2, <2>3 DEF TypeOK
<1>3. CASE SweepInvalidate
  <2>1. /\ sweep' = NoSweep /\ cache' = NoEntry /\ Collect(online)
        /\ UNCHANGED <<status, seen, touched, place, obj, at, heard, fails, overlap>>
    BY <1>3 DEF SweepInvalidate, row, ses, ghost
  <2>2. /\ sweep' \in [at : {"idle", "update", "invalidate"}, to : Status \cup {Nil}]
        /\ cache' \in [obj : Objs \cup {Nil}, age : 0..CacheTTL - 1] /\ sweep'.at # "update"
    BY <2>1, PresenceAssumption DEF NoSweep, NoEntry
  <2>3. QED
    BY <2>1, <2>2, CollectType DEF TypeOK
<1>4. QED
  BY <1>1, <1>2, <1>3 DEF Sweep

\* Time keeps the types.
LEMMA TickType == ASSUME TypeInv, Tick PROVE TypeInv'
<1> USE DEF TypeInv
<1>1. /\ seen' = Aged(seen, Old) /\ touched' = Aged(touched, TouchInterval) /\ heard' = Aged(heard, StaleAfter)
      /\ at' = [s \in Sessions |-> IF place[s] = "write" THEN Aged(at[s], Old) ELSE at[s]]
      /\ cache' = (IF cache.obj = Nil \/ cache.age + 1 = CacheTTL THEN NoEntry ELSE [cache EXCEPT !.age = cache.age + 1])
      /\ UNCHANGED <<status, place, obj, sweep, fails, overlap>> /\ Collect(online)
  BY DEF Tick
<1>2. \A n \in Nat : \A a \in 0..n : Aged(a, n) \in 0..n
  BY DEF Aged
<1>3. seen' \in 0..Old /\ touched' \in 0..TouchInterval /\ heard' \in 0..StaleAfter
  BY <1>1, <1>2, Limits DEF TypeOK
<1>4. at' \in [Sessions -> 0..Old]
  BY <1>1, <1>2, Limits DEF TypeOK
<1>5. cache' \in [obj : Objs \cup {Nil}, age : 0..CacheTTL - 1]
  <2>1. cache \in [obj : Objs \cup {Nil}, age : 0..CacheTTL - 1] /\ CacheTTL \in Nat \ {0}
    BY PresenceAssumption DEF TypeOK
  <2>2. CASE cache.obj = Nil \/ cache.age + 1 = CacheTTL
    BY <1>1, <2>1, <2>2 DEF NoEntry
  <2>3. CASE ~(cache.obj = Nil \/ cache.age + 1 = CacheTTL)
    BY <1>1, <2>1, <2>3
  <2>4. QED
    BY <2>2, <2>3
<1>6. QED
  BY <1>1, <1>3, <1>4, <1>5, CollectType DEF TypeOK

\* The initial states are well typed.
LEMMA InitType == Init => TypeInv
<1> SUFFICES ASSUME Init PROVE TypeInv
  OBVIOUS
<1>1. seen \in 0..Old /\ heard \in 0..StaleAfter /\ touched \in 0..TouchInterval /\ fails \in 0..MaxFails
  <2>1. seen \in 0..Old /\ heard = Newest(seen, StaleAfter) /\ touched = TouchInterval /\ fails = 0
    BY DEF Init
  <2>2. QED
    BY <2>1, Limits, PresenceAssumption DEF Newest
<1>2. status \in Status
  BY DEF Init, Status
<1>3. online \in [Objs -> BOOLEAN] /\ overlap \in BOOLEAN
  BY DEF Init
<1>4. cache \in [obj : Objs \cup {Nil}, age : 0..CacheTTL - 1]
  BY PresenceAssumption DEF Init, NoEntry
<1>5. /\ place \in [Sessions -> {"idle", "query", "install", "touch", "write", "online"}]
      /\ obj \in [Sessions -> Objs \cup {Nil}] /\ at \in [Sessions -> 0..Old] /\ \A s \in Sessions : place[s] = "idle"
  BY Limits DEF Init
<1>6. sweep \in [at : {"idle", "update", "invalidate"}, to : Status \cup {Nil}] /\ sweep.at = "idle"
  BY DEF Init, NoSweep
<1>7. QED
  BY <1>1, <1>2, <1>3, <1>4, <1>5, <1>6 DEF TypeInv, TypeOK

-----------------------------------------------------------------------------
(* The results.                                                            *)

\* The inductive invariant holds in every behaviour, whatever the interleaving
\* of the sessions' touches, the sweep and the clock.
THEOREM Invariance == Spec => []PresenceInv
<1>1. Init => PresenceInv
  BY InitHolds
<1>2. PresenceInv /\ [Next]_vars => PresenceInv'
  BY PresenceStep
<1>3. QED
  BY <1>1, <1>2, PTL DEF Spec

\* The sweep lowers a device only if it was silent for StaleAfter, less the
\* interval within which touch writes nothing, unless the statement of a touch
\* failed, is about to run, or ran during the sweep's own.
THEOREM NeverLowersAContactHolds == Spec => NeverLowersAContact
<1>1. PresenceInv /\ [Next]_vars => [status = "ONLINE" /\ status' # "ONLINE"
        => \/ heard + TouchInterval > StaleAfter
           \/ Writing \/ overlap \/ fails > 0]_vars
  BY Lowered
<1>2. QED
  BY <1>1, Invariance, PTL DEF Spec, NeverLowersAContact

\* The row, the cached objects and the ages keep their types; in particular an
\* object is always left for a device read from the database.
THEOREM TypeCorrect == Spec => []TypeOK
<1>1. Init => TypeInv
  BY InitType
<1>2. TypeInv /\ [Next]_vars => TypeInv'
  <2> SUFFICES ASSUME TypeInv, [Next]_vars PROVE TypeInv'
    OBVIOUS
  <2>1. ASSUME NEW s \in Sessions, ResolveDevice(s) \/ Step(s) PROVE TypeInv'
    BY <2>1, LookupType, TouchType DEF Step
  <2>2. CASE UNCHANGED vars
    BY <2>2 DEF vars, row, mem, ses, ghost, TypeInv, TypeOK
  <2>3. QED
    BY <2>1, <2>2, SweepType, TickType DEF Next
<1>3. TypeInv => TypeOK
  BY DEF TypeInv
<1>4. QED
  BY <1>1, <1>2, <1>3, PTL DEF Spec

=============================================================================
