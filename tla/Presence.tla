------------------------------ MODULE Presence ------------------------------
(***************************************************************************)
(* Whether a device is ONLINE, STALE or OFFLINE.  Its row is written by    *)
(* touch, which every message of every session of the device calls, and by *)
(* the periodic sweep.  touch spares the database: it writes only when the *)
(* last touch is older than touchInterval or the Device it was given is    *)
(* not ONLINE, and that Device is an object of the ingestor's cache, shared *)
(* by the sessions and refreshed by nobody but touch itself.               *)
(*                                                                         *)
(* There is no clock: every instant the code keeps is an age, which Tick   *)
(* raises up to the value beyond which nothing compares it.  A critical    *)
(* section and a statement are one action each; the sweep's statement is   *)
(* two, because under READ COMMITTED a row that was touched after the      *)
(* statement's snapshot is updated with the status computed from it.  What *)
(* is published to the panels is left to module Hub.                       *)
(***************************************************************************)
EXTENDS Naturals, FiniteSets

CONSTANTS Sessions,      \* sessions of the device: a reconnection overlaps
          TouchInterval, \* touchInterval
          CacheTTL,      \* cacheTTL
          StaleAfter,    \* DEVICE_STALE_AFTER
          OfflineAfter,  \* DEVICE_OFFLINE_AFTER
          Nil,           \* no object, no status
          MaxFails       \* bound: touches whose statement fails

ASSUME PresenceAssumption ==
  /\ IsFiniteSet(Sessions)
  /\ TouchInterval \in Nat \ {0} /\ CacheTTL \in Nat \ {0}
  /\ StaleAfter \in Nat /\ OfflineAfter \in Nat
  /\ TouchInterval <= StaleAfter /\ StaleAfter < OfflineAfter
  /\ MaxFails \in Nat /\ Nil \notin Nat

VARIABLES
  status,  \* the row's status
  seen,    \* age of the row's last_seen_at; Old for NULL
  online,  \* online[o]: Device object o says Status = ONLINE
  cache,   \* deviceCache's entry: its object and its age
  touched, \* age of lastTouch, TouchInterval when it is no longer fresh
  place,   \* place[s]: what the session does next
  obj,     \* obj[s]: the object that resolveDevice returned
  at,      \* at[s]: age of the now that the session's touch took
  sweep,   \* the sweep: what it does next, and the status it computed
  heard,   \* age of the newest touch of any session
  fails,   \* touches whose statement failed
  overlap  \* a touch was written between the sweep's snapshot and its update

row == <<status, seen>>
mem == <<online, cache, touched>>
ses == <<place, obj, at>>
ghost == <<heard, fails, overlap>>
vars == <<row, mem, ses, sweep, ghost>>

Status == {"ONLINE", "STALE", "OFFLINE"}
Old == OfflineAfter + 1
Objs == 0..Cardinality(Sessions)
NoEntry == [obj |-> Nil, age |-> 0]
NoSweep == [at |-> "idle", to |-> Nil]

TypeOK ==
  /\ status \in Status /\ seen \in 0..Old
  /\ online \in [Objs -> BOOLEAN]
  /\ cache \in [obj : Objs \cup {Nil}, age : 0..CacheTTL - 1]
  /\ touched \in 0..TouchInterval
  /\ place \in [Sessions -> {"idle", "query", "install", "touch", "write",
                             "online"}]
  /\ obj \in [Sessions -> Objs \cup {Nil}]
  /\ at \in [Sessions -> 0..Old]
  /\ sweep \in [at : {"idle", "update", "invalidate"}, to : Status \cup {Nil}]
  /\ heard \in 0..StaleAfter /\ fails \in 0..MaxFails /\ overlap \in BOOLEAN

\* GREATEST of two instants is the smaller of their ages.
Newest(a, b) == IF a < b THEN a ELSE b

\* The server starts, or starts again, with whatever row is there.
Init ==
  /\ seen \in 0..Old
  /\ status \in {"ONLINE"} \cup (IF seen > StaleAfter THEN {"STALE"} ELSE {})
                           \cup (IF seen > OfflineAfter THEN {"OFFLINE"} ELSE {})
  /\ online = [o \in Objs |-> FALSE]
  /\ cache = NoEntry
  /\ touched = TouchInterval
  /\ place = [s \in Sessions |-> "idle"]
  /\ obj = [s \in Sessions |-> Nil]
  /\ at = [s \in Sessions |-> 0]
  /\ sweep = NoSweep
  /\ heard = Newest(seen, StaleAfter) /\ fails = 0 /\ overlap = FALSE

-----------------------------------------------------------------------------
(* HandleMessage: resolveDevice and touch.                                 *)

Go(s, p) == place' = [place EXCEPT ![s] = p]

\* The objects after a step: one that nobody refers to any more is collected.
Collect(f) ==
  online' = [o \in Objs |-> /\ f[o]
                            /\ o = cache'.obj \/ \E s \in Sessions : obj'[s] = o]

Leave(s) ==
  /\ Go(s, "idle")
  /\ obj' = [obj EXCEPT ![s] = Nil]
  /\ at' = [at EXCEPT ![s] = 0]

\* resolveDevice returns the cached object, or goes to the database.
ResolveDevice(s) ==
  /\ place[s] = "idle"
  /\ obj' = [obj EXCEPT ![s] = cache.obj]
  /\ Go(s, IF cache.obj = Nil THEN "query" ELSE "touch")
  /\ UNCHANGED <<row, mem, at, sweep, ghost>>

\* The query makes an object of the row.
Unused(o) == o # cache.obj /\ \A s \in Sessions : obj[s] # o
GetByIMEI(s) ==
  /\ place[s] = "query"
  /\ LET o == CHOOSE o \in Objs : Unused(o) IN
       /\ online' = [online EXCEPT ![o] = (status = "ONLINE")]
       /\ obj' = [obj EXCEPT ![s] = o]
  /\ Go(s, "install")
  /\ UNCHANGED <<row, cache, touched, at, sweep, ghost>>

\* The query fails: HandleMessage returns the error and the message is lost.
QueryFails(s) ==
  /\ place[s] = "query"
  /\ Leave(s)
  /\ UNCHANGED <<row, mem, sweep, ghost>>

CacheDevice(s) ==
  /\ place[s] = "install"
  /\ cache' = [obj |-> obj[s], age |-> 0]
  /\ Go(s, "touch")
  /\ UNCHANGED <<row, touched, obj, at, sweep, ghost>>
  /\ Collect(online)

\* Defect: either of the two conditions spares the write.
SparesEither(s) == touched < TouchInterval \/ online[obj[s]]
\* Touched a moment ago, and ONLINE as far as the object knows.
Spares(s) == touched < TouchInterval /\ online[obj[s]]

\* touch up to its early return.
Touch(s) ==
  /\ place[s] = "touch"
  /\ touched' = IF touched < TouchInterval THEN touched ELSE 0
  /\ heard' = 0
  /\ IF Spares(s) THEN Leave(s)
     ELSE Go(s, "write") /\ UNCHANGED <<obj, at>>
  /\ UNCHANGED <<row, cache, sweep, fails, overlap>>
  /\ Collect(online)

\* Repository.Touch.
Write(s) ==
  /\ place[s] = "write"
  /\ status' = "ONLINE"
  /\ seen' = Newest(at[s], seen)
  /\ overlap' = (overlap \/ sweep.at = "update")
  /\ Go(s, "online")
  /\ UNCHANGED <<mem, obj, at, sweep, heard, fails>>

\* lastTouch stays as it was set: nothing is retried before the interval ends.
WriteFails(s) ==
  /\ place[s] = "write"
  /\ fails < MaxFails
  /\ fails' = fails + 1
  /\ Leave(s)
  /\ UNCHANGED <<row, cache, touched, sweep, heard, overlap>>
  /\ Collect(online)

\* The object, which other sessions may be looking at, becomes ONLINE and is
\* cached again, even if it was invalidated in the meantime.
Online(s) ==
  /\ place[s] = "online"
  /\ cache' = IF online[obj[s]] THEN cache ELSE [obj |-> obj[s], age |-> 0]
  /\ Leave(s)
  /\ UNCHANGED <<row, touched, sweep, ghost>>
  /\ Collect([online EXCEPT ![obj[s]] = TRUE])

-----------------------------------------------------------------------------
(* SweepStatuses.                                                          *)

\* Defect: a device without contact is never more than STALE.
ComputedStale == IF seen > StaleAfter THEN "STALE" ELSE "ONLINE"
\* Defect: the limits are compared with the time of the sweep before.
ComputedEarly == IF seen >= OfflineAfter THEN "OFFLINE"
                 ELSE IF seen + 2 > StaleAfter THEN "STALE" ELSE "ONLINE"
\* The CASE of the statement, over its snapshot.
Computed == IF seen > OfflineAfter THEN "OFFLINE"
            ELSE IF seen > StaleAfter THEN "STALE" ELSE "ONLINE"

SweepSnapshot ==
  /\ sweep.at = "idle"
  /\ status # Computed
  /\ sweep' = [at |-> "update", to |-> Computed]
  /\ overlap' = FALSE
  /\ UNCHANGED <<row, mem, ses, heard, fails>>

\* The row is locked and d.status <> c.next_status looked at again, with the
\* row as it is now and the status of the snapshot.
SweepUpdate ==
  /\ sweep.at = "update"
  /\ status' = sweep.to
  /\ sweep' = IF status = sweep.to THEN NoSweep
              ELSE [sweep EXCEPT !.at = "invalidate"]
  /\ UNCHANGED <<seen, mem, ses, ghost>>

\* invalidateDevice for the change; publishing it follows.
SweepInvalidate ==
  /\ sweep.at = "invalidate"
  /\ cache' = NoEntry
  /\ sweep' = NoSweep
  /\ UNCHANGED <<row, touched, ses, ghost>>
  /\ Collect(online)

-----------------------------------------------------------------------------
Aged(a, top) == IF a < top THEN a + 1 ELSE top

\* Time passes.  An entry that reaches cacheTTL is as good as none.
Tick ==
  /\ seen' = Aged(seen, Old)
  /\ touched' = Aged(touched, TouchInterval)
  /\ heard' = Aged(heard, StaleAfter)
  /\ at' = [s \in Sessions |->
              IF place[s] = "write" THEN Aged(at[s], Old) ELSE at[s]]
  /\ cache' = IF cache.obj = Nil \/ cache.age + 1 = CacheTTL THEN NoEntry
              ELSE [cache EXCEPT !.age = @ + 1]
  /\ UNCHANGED <<status, place, obj, sweep, fails, overlap>>
  /\ Collect(online)

Step(s) ==
  \/ GetByIMEI(s) \/ QueryFails(s) \/ CacheDevice(s) \/ Touch(s)
  \/ Write(s) \/ WriteFails(s) \/ Online(s)
Sweep == SweepSnapshot \/ SweepUpdate \/ SweepInvalidate
Next ==
  \/ \E s \in Sessions : ResolveDevice(s) \/ Step(s)
  \/ Sweep
  \/ Tick

Spec == Init /\ [][Next]_vars

\* Goroutines run, the ticker fires and time passes; the device need not send.
FairSpec ==
  /\ Spec
  /\ \A s \in Sessions : WF_vars(Step(s))
  /\ WF_vars(Sweep)
  /\ WF_vars(Tick)

-----------------------------------------------------------------------------
(* Properties.                                                             *)

Writing == \E s \in Sessions : place[s] = "write"

\* The sweep lowers a device only if it was silent for StaleAfter, less the
\* interval within which touch writes nothing (ingestor.go:621), unless the
\* statement of a touch failed, is about to run, or ran during the sweep's own.
NeverLowersAContact ==
  [][status = "ONLINE" /\ status' # "ONLINE"
       => \/ heard + TouchInterval > StaleAfter
          \/ Writing \/ overlap \/ fails > 0]_vars

\* A device that stays silent ends up OFFLINE: whatever a cached object says,
\* and however a touch and the sweep overlap (SweepStatuses, repository.go:141).
SilentGoesOffline == <>[](\A s \in Sessions : place[s] = "idle")
                       => <>[](status = "OFFLINE")

\* A device that keeps being heard is ONLINE for good, even though a failed
\* touch is not retried within the interval and a cached object says ONLINE
\* when the row does not, as long as sweeps stop overtaking its touches.
TalkingStaysOnline == <>[](heard + TouchInterval < StaleAfter /\ ~overlap)
                        => <>[](status = "ONLINE")

=============================================================================
