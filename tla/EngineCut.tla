------------------------------ MODULE EngineCut ------------------------------
(***************************************************************************)
(* The safety rule of the engine cut for one device: the positions that    *)
(* the ingestor stores, the snapshot the command service reads and the     *)
(* verdict of engineCutBlocked.  The vehicle and the device are external:  *)
(* the speed changes at will, the device's clock may be off by a constant, *)
(* a packet may lack its date, and a fix may wait in the offline buffer of *)
(* the device long after it was taken.  Heartbeats store no position and  *)
(* are left out.  A fix carries when it was really taken, which no column  *)
(* stores, so that a verdict can be compared with the truth.               *)
(***************************************************************************)
EXTENDS Integers, Sequences

CONSTANTS Speeds,      \* speeds the vehicle may have
          MaxSpeed,    \* ENGINE_CUT_MAX_SPEED_KMH
          MaxAge,      \* ENGINE_CUT_MAX_POSITION_AGE
          Skews,       \* errors the device's clock may have
          MaxTime,     \* bound: how long we watch
          MaxRows      \* bound: positions stored

ASSUME EngineCutAssumption ==
  /\ Speeds \subseteq Int
  /\ MaxSpeed \in Int
  /\ MaxAge \in Nat
  /\ Skews \subseteq Int
  /\ MaxTime \in Nat
  /\ MaxRows \in Nat

VARIABLES now,       \* the server's clock
          speed,     \* the vehicle's real speed
          skew,      \* the error of the device's clock
          buffer,    \* fixes taken and not yet received by the server
          positions, \* the rows of positions, in order of id
          verdict    \* the last answer of the safety rule

cutVars == <<now, speed, skew, buffer, positions, verdict>>

Fix == [taken : Nat, speed : Speeds]
Position == [gpsTimestamp : Int, receivedAt : Nat, speedKmh : Speeds, taken : Nat]
Verdict == [answer : {"none", "allowed", "refused"}, row : Nat, known : Nat, at : Nat]

CutTypeOK ==
  /\ now \in Nat
  /\ speed \in Speeds
  /\ skew \in Skews
  /\ buffer \subseteq Fix
  /\ positions \in Seq(Position)
  /\ verdict \in Verdict

CutInit ==
  /\ now = 0
  /\ speed \in Speeds
  /\ skew \in Skews
  /\ buffer = {}
  /\ positions = <<>>
  /\ verdict = [answer |-> "none", row |-> 0, known |-> 0, at |-> 0]

-----------------------------------------------------------------------------
(* The vehicle and its device.                                             *)

\* Time passes; what was not sent waits in the device's buffer.
Tick ==
  /\ now < MaxTime
  /\ now' = now + 1
  /\ speed' \in Speeds
  /\ UNCHANGED <<skew, buffer, positions, verdict>>

TakeFix ==
  /\ buffer' = buffer \cup {[taken |-> now, speed |-> speed]}
  /\ UNCHANGED <<now, speed, skew, positions, verdict>>

-----------------------------------------------------------------------------
(* The ingestor.                                                           *)

\* buildPosition: the date in the packet, or the server's when it has none.
Timestamps(f) == {f.taken + skew, now}

\* Insert: received_at is the clock of the database.
Insert(f, gps) ==
  positions' = Append(positions, [gpsTimestamp |-> gps, receivedAt |-> now,
                                  speedKmh |-> f.speed, taken |-> f.taken])

\* processTelemetry for a packet with a location, in any order of arrival.
StorePosition ==
  /\ Len(positions) < MaxRows
  /\ \E f \in buffer : /\ \E gps \in Timestamps(f) : Insert(f, gps)
                       /\ buffer' = buffer \ {f}
  /\ UNCHANGED <<now, speed, skew, verdict>>

\* The INSERT fails (or the packet never arrives): the fix is gone.
LosePosition ==
  /\ \E f \in buffer : buffer' = buffer \ {f}
  /\ UNCHANGED <<now, speed, skew, positions, verdict>>

-----------------------------------------------------------------------------
(* The command service.                                                    *)

\* Defect: the oldest position answers for the vehicle.
LatestIsFirst ==
  {i \in DOMAIN positions : \A j \in DOMAIN positions : i <= j}

\* Defect: the position that arrived last answers for the vehicle.
LatestIsLast ==
  {i \in DOMAIN positions : \A j \in DOMAIN positions : j <= i}

\* ORDER BY gps_timestamp DESC, id DESC LIMIT 1.
LatestWithLocation ==
  {i \in DOMAIN positions : \A j \in DOMAIN positions :
     \/ positions[j].gpsTimestamp < positions[i].gpsTimestamp
     \/ positions[j].gpsTimestamp = positions[i].gpsTimestamp /\ j <= i}

\* engineCutBlocked, after Snapshot returned row i.
TooOld(i) == now - positions[i].receivedAt > MaxAge
Blocked(i) == TooOld(i) \/ positions[i].speedKmh > MaxSpeed

Answer(a, i) ==
  verdict' = [answer |-> a, row |-> i, known |-> Len(positions), at |-> now]

\* Send of an ENGINE_CUT: no position, or a failed query, refuses as well.
RequestCut ==
  /\ \/ \E i \in LatestWithLocation :
          IF Blocked(i) THEN Answer("refused", i) ELSE Answer("allowed", i)
     \/ Answer("refused", 0)
  /\ UNCHANGED <<now, speed, skew, buffer, positions>>

CutNext == Tick \/ TakeFix \/ StorePosition \/ LosePosition \/ RequestCut

CutSpec == CutInit /\ [][CutNext]_cutVars

-----------------------------------------------------------------------------
(* Properties.                                                             *)

\* A cut is authorised only by a fix the device took at most MaxAge before, and
\* that showed the vehicle at or below the limit: a packet delayed in the
\* device's buffer never passes for fresh information, as the comment of
\* Snapshot (snapshot.go) says.  It may pass: the age is the one of received_at.
CutIsFresh ==
  verdict.answer = "allowed" =>
     /\ verdict.row \in DOMAIN positions
     /\ verdict.at - positions[verdict.row].taken <= MaxAge
     /\ positions[verdict.row].speedKmh <= MaxSpeed

\* The rows the last verdict could know.
Known == 1 .. verdict.known

\* What the rule does promise when packets arrive late and out of order: the row
\* that authorises a cut came in at most MaxAge before and was slow enough, and
\* as long as the device dated its packets, with whatever error of its clock, it
\* is the newest fix the server knew of: a buffered fix of a vehicle at rest does
\* not hide a newer one that shows it moving (LatestWithLocation against the
\* order of arrival, engineCutBlocked).
NewestFixDecides ==
  verdict.answer = "allowed" =>
     /\ verdict.row \in Known
     /\ verdict.at - positions[verdict.row].receivedAt <= MaxAge
     /\ positions[verdict.row].speedKmh <= MaxSpeed
     /\ (\A j \in Known : positions[j].gpsTimestamp = positions[j].taken + skew) =>
          \A j \in Known : positions[j].taken <= positions[verdict.row].taken

\* When the device's clock is right and its fixes so far came in live, the last
\* position the server had received decides, dated or not: a vehicle last seen
\* moving is not cut, although the query orders by the device's clock and not by
\* arrival.
LastWordDecides ==
  /\ skew = 0
  /\ verdict.answer = "allowed"
  /\ \A j \in Known : positions[j].receivedAt = positions[j].taken
  => positions[verdict.known].speedKmh <= MaxSpeed

-----------------------------------------------------------------------------
(* The inductive invariant behind the last two.                            *)

\* A row has the device's date or the server's, and rows arrive in the order of
\* their ids.
RowsInv ==
  /\ \A i \in DOMAIN positions :
       /\ positions[i].receivedAt <= now
       /\ positions[i].gpsTimestamp \in {positions[i].taken + skew, positions[i].receivedAt}
  /\ \A i, j \in DOMAIN positions :
       i <= j => positions[i].receivedAt <= positions[j].receivedAt

\* What an authorisation found stays on the rows it found it on.
VerdictInv ==
  verdict.answer = "allowed" =>
     /\ verdict.row \in Known
     /\ verdict.known \in DOMAIN positions
     /\ verdict.at - positions[verdict.row].receivedAt <= MaxAge
     /\ positions[verdict.row].speedKmh <= MaxSpeed
     /\ \A j \in Known :
          \/ positions[j].gpsTimestamp < positions[verdict.row].gpsTimestamp
          \/ positions[j].gpsTimestamp = positions[verdict.row].gpsTimestamp /\ j <= verdict.row

CutInv == CutTypeOK /\ RowsInv /\ VerdictInv
=============================================================================
