--------------------------- MODULE RegistryProofs ---------------------------
(***************************************************************************)
(* What the caches of the ingestor and of the geofence service hold when   *)
(* the handlers are done, for any number of sessions, requests, IMEIs and  *)
(* edits.  While handlers are at work an entry may be old: the argument    *)
(* says who will put it right, the request that still has its key to       *)
(* invalidate (EntriesInv) or the list still to be read or installed       *)
(* (FencesInv).                                                            *)
(***************************************************************************)
EXTENDS Registry, TLAPS

\* What a session has read by the time it uses it.
SesOK(v) ==
  /\ v.at = "query" => v.imei \in Imeis
  /\ v.at \in {"install", "known"} => v.dev \in Device /\ v.imei = v.dev.imei
  /\ v.at = "vinstall" => v.veh \in Version
SesInv == \A s \in Sessions : SesOK(ses[s])

\* The same of a request, with f the version of the active fences.
ReqOK(v, f) ==
  /\ v.at \in {"update", "delete"} => v.prev \in Imeis
  /\ v.at = "invalidate" => v.todo # <<>>
  /\ v.at = "set" => v.read \in Version /\ v.read <= f
ReqInv == \A r \in Requests : ReqOK(req[r], fences)

\* An entry is under its own IMEI, and is current unless a request is yet to
\* invalidate that IMEI.
In(x, q) == \E k \in 1..Len(q) : q[k] = x
KeysInv == \A i \in Imeis : devices[i].is # Nil => devices[i].is.imei = i
EntriesInv ==
  ~late => \A i \in Imeis : devices[i].is # Nil /\ ~IsCurrent(devices[i].is) =>
    \E r \in Requests : req[r].at = "invalidate" /\ In(i, req[r].todo)

\* The list in memory is the active one, or a request will read or install it.
FencesInv ==
  ~missed =>
    \/ cached = fences
    \/ \E r \in Requests : req[r].at = "list"
    \/ \E r \in Requests : req[r].at = "set" /\ req[r].read = fences

RegistryInv == TypeOK /\ SesInv /\ ReqInv /\ KeysInv /\ EntriesInv /\ FencesInv

-----------------------------------------------------------------------------
(* The operators of the model.                                             *)

\* An entry that was just made, and the absence of one.
LEMMA EntryType ==
  ASSUME NEW T, NEW x \in T
  PROVE  New(x) \in Entry(T) /\ NoEntry \in Entry(T) /\ New(x).is = x /\ NoEntry.is = Nil
  BY RegistryAssumption DEF New, NoEntry, Entry

\* Time only ever takes an entry away.
LEMMA AgedEffect ==
  ASSUME NEW T, NEW e \in Entry(T)
  PROVE  Aged(e) \in Entry(T) /\ (Aged(e).is = Nil \/ Aged(e).is = e.is)
<1>1. CacheTTL \in Nat \ {0} /\ e.age \in 0..CacheTTL - 1 /\ e.is \in T \cup {Nil}
  BY RegistryAssumption DEF Entry
<1>2. CASE e.is = Nil \/ e.age + 1 = CacheTTL
  BY <1>1, <1>2 DEF Aged, NoEntry, Entry
<1>3. CASE ~(e.is = Nil \/ e.age + 1 = CacheTTL)
  <2>1. Aged(e) = [e EXCEPT !.age = e.age + 1] /\ e.age + 1 \in 0..CacheTTL - 1
    BY <1>1, <1>3 DEF Aged
  <2>2. QED
    BY <1>1, <2>1 DEF Entry
<1>4. QED
  BY <1>2, <1>3

\* What is left to invalidate once the head is done.
LEMMA InTail ==
  ASSUME NEW S, NEW q \in Seq(S), q # <<>>, NEW x, In(x, q), x # Head(q)
  PROVE  Len(q) # 1 /\ In(x, Tail(q))
<1>1. PICK k \in 1..Len(q) : q[k] = x
  BY DEF In
<1>2. k # 1 /\ Len(q) \in Nat /\ Len(Tail(q)) = Len(q) - 1
  BY <1>1
<1>3. k - 1 \in 1..Len(Tail(q)) /\ Tail(q)[k - 1] = q[k]
  BY <1>1, <1>2
<1>4. QED
  BY <1>1, <1>2, <1>3 DEF In

\* Something is left to invalidate unless the head was the last.
LEMMA TailKept ==
  ASSUME NEW S, NEW q \in Seq(S), q # <<>>, Len(q) # 1
  PROVE  Tail(q) \in Seq(S) /\ Tail(q) # <<>>
<1>1. Tail(q) \in Seq(S) /\ Len(Tail(q)) = Len(q) - 1 /\ Len(q) \in Nat
  OBVIOUS
<1>2. \A t \in Seq(S) : Len(t) # 0 => t # <<>>
  OBVIOUS
<1>3. Len(Tail(q)) # 0
  BY <1>1
<1>4. QED
  BY <1>1, <1>2, <1>3

-----------------------------------------------------------------------------
(* What a step that changes one session, or one request, keeps.            *)

\* One session changes.
LEMMA SesUpdate ==
  ASSUME ses \in [Sessions -> Ses], SesInv, NEW s \in Sessions, NEW v \in Ses, SesOK(v), ses' = [ses EXCEPT ![s] = v]
  PROVE  ses' \in [Sessions -> Ses] /\ SesInv'
  BY DEF SesInv

\* One request changes.
LEMMA ReqUpdate ==
  ASSUME req \in [Requests -> Req], ReqInv, UNCHANGED fences,
         NEW r \in Requests, NEW v \in Req, ReqOK(v, fences), req' = [req EXCEPT ![r] = v]
  PROVE  /\ req' \in [Requests -> Req] /\ ReqInv'
         /\ req'[r] = v /\ \A q \in Requests : q # r => req'[q] = req[q]
  BY DEF ReqInv

\* A step of the sessions that leaves the caches alone.
LEMMA SesOnly ==
  ASSUME RegistryInv, NEW s \in Sessions, NEW v \in Ses, SesOK(v), ses' = [ses EXCEPT ![s] = v],
         UNCHANGED <<db, mem, req, late, missed>>
  PROVE  RegistryInv'
<1> USE DEF RegistryInv, db, mem
<1>1. ses' \in [Sessions -> Ses] /\ SesInv'
  BY SesUpdate DEF TypeOK
<1>2. TypeOK' /\ ReqInv'
  BY <1>1 DEF TypeOK, ReqInv
<1>3. KeysInv' /\ EntriesInv' /\ FencesInv'
  BY DEF KeysInv, EntriesInv, IsCurrent, FencesInv
<1>4. QED
  BY <1>1, <1>2, <1>3

\* A device is cached under its IMEI.
LEMMA DeviceCached ==
  ASSUME RegistryInv, NEW d \in Device, devices' = [devices EXCEPT ![d.imei] = New(d)],
         late' = (late \/ ~IsCurrent(d)), UNCHANGED <<db, req>>
  PROVE  devices' \in [Imeis -> Entry(Device)] /\ late' \in BOOLEAN /\ KeysInv' /\ EntriesInv'
<1> DEFINE k == d.imei
<1>1. k \in Imeis /\ New(d) \in Entry(Device) /\ New(d).is = d /\ devices \in [Imeis -> Entry(Device)] /\ late \in BOOLEAN
  BY EntryType DEF Device, RegistryInv, TypeOK
<1>2. /\ devices' \in [Imeis -> Entry(Device)] /\ devices'[k].is = d
      /\ \A i \in Imeis : i # k => devices'[i] = devices[i]
  BY <1>1
<1>3. KeysInv'
  BY <1>2 DEF KeysInv, RegistryInv
<1>4. EntriesInv'
  <2> SUFFICES ASSUME ~late', NEW i \in Imeis, devices'[i].is # Nil, ~IsCurrent(devices[i].is)'
               PROVE  \E r \in Requests : req'[r].at = "invalidate" /\ In(i, req'[r].todo)
    BY DEF EntriesInv
  <2>1. i # k
    BY <1>2 DEF IsCurrent, db
  <2>2. QED
    BY <1>2, <2>1 DEF EntriesInv, RegistryInv, IsCurrent, db
<1>5. QED
  BY <1>1, <1>2, <1>3, <1>4

\* No request that was to invalidate an IMEI, to read the list of fences or to
\* install one changes.
LEMMA EntriesKept ==
  ASSUME EntriesInv, UNCHANGED <<devices, row, late>>,
         \A q \in Requests : req[q].at = "invalidate" => req'[q] = req[q]
  PROVE  EntriesInv'
  BY DEF EntriesInv, IsCurrent

LEMMA FencesKept ==
  ASSUME FencesInv, UNCHANGED <<cached, fences, missed>>,
         \A q \in Requests : req[q].at \in {"list", "set"} => req'[q] = req[q]
  PROVE  FencesInv'
  BY DEF FencesInv

-----------------------------------------------------------------------------
(* The sessions.                                                           *)

\* A session that handles nothing.
LEMMA IdleType == IdleSes \in Ses /\ SesOK(IdleSes)
  BY DEF IdleSes, Ses, SesOK

\* A message arrives and its device is looked up in the cache.
LEMMA ResolveStep == ASSUME RegistryInv, NEW s \in Sessions, NEW i \in Imeis, ResolveDevice(s, i) PROVE RegistryInv'
<1> DEFINE v == [ses[s] EXCEPT !.at = IF devices[i].is = Nil THEN "query" ELSE "known", !.imei = i, !.dev = devices[i].is]
<1>1. ses[s] \in Ses /\ devices[i].is \in Device \cup {Nil}
  BY DEF RegistryInv, TypeOK, Entry
<1>2. v \in Ses
  BY <1>1 DEF Ses
<1>3. SesOK(v)
  <2>1. v.imei = i /\ v.dev = devices[i].is /\ v.at = IF devices[i].is = Nil THEN "query" ELSE "known"
    BY <1>1 DEF Ses
  <2>2. QED
    BY <1>1, <2>1 DEF SesOK, RegistryInv, KeysInv
<1>4. ses' = [ses EXCEPT ![s] = v] /\ UNCHANGED <<db, mem, req, late, missed>>
  BY DEF ResolveDevice
<1> HIDE DEF v
<1>5. QED
  BY <1>2, <1>3, <1>4, SesOnly

\* The device is read from its row, or the IMEI is unknown.
LEMMA GetByIMEIStep == ASSUME RegistryInv, NEW s \in Sessions, GetByIMEI(s) PROVE RegistryInv'
<1> DEFINE d == [imei |-> row.imei, version |-> row.version, again |-> FALSE]
           v == [ses[s] EXCEPT !.at = "install", !.dev = d]
<1>1. ses[s] \in Ses /\ UNCHANGED <<db, mem, req, late, missed>>
  BY DEF RegistryInv, TypeOK, GetByIMEI
<1>2. CASE row.imei # ses[s].imei
  BY <1>1, <1>2, IdleType, SesOnly DEF GetByIMEI
<1>3. CASE row.imei = ses[s].imei
  <2>1. row.imei \in Imeis /\ row.version \in Version
    BY <1>3 DEF GetByIMEI, RegistryInv, SesInv, SesOK, TypeOK
  <2>2. d \in Device /\ d.imei = ses[s].imei
    BY <1>3, <2>1 DEF Device
  <2>3. ses' = [ses EXCEPT ![s] = v]
    BY <1>3 DEF GetByIMEI
  <2> HIDE DEF d
  <2>4. v \in Ses /\ v.at = "install" /\ v.dev = d /\ v.imei = ses[s].imei
    BY <1>1, <2>2 DEF Ses
  <2> HIDE DEF v
  <2>5. SesOK(v)
    BY <2>2, <2>4 DEF SesOK
  <2>6. QED
    BY <1>1, <2>3, <2>4, <2>5, SesOnly
<1>4. QED
  BY <1>2, <1>3

\* What was read is cached, late if the row has changed since.
LEMMA CacheDeviceStep == ASSUME RegistryInv, NEW s \in Sessions, CacheDevice(s) PROVE RegistryInv'
<1> DEFINE d == ses[s].dev
           v == [ses[s] EXCEPT !.at = "known"]
<1>1. /\ ses[s] \in Ses /\ ses \in [Sessions -> Ses] /\ SesInv /\ d \in Device /\ ses[s].imei = d.imei
      /\ UNCHANGED <<db, vehicle, cached, req, missed>>
  BY DEF RegistryInv, TypeOK, SesInv, SesOK, CacheDevice
<1>2. devices' = [devices EXCEPT ![d.imei] = New(d)] /\ late' = (late \/ ~IsCurrent(d))
  BY <1>1 DEF CacheDevice
<1>3. ses' = [ses EXCEPT ![s] = v] /\ v \in Ses /\ v.at = "known" /\ v.dev = d /\ v.imei = d.imei
  BY <1>1 DEF CacheDevice, Ses
<1> HIDE DEF v, d
<1>4. SesOK(v)
  BY <1>1, <1>3 DEF SesOK
<1>5. ses' \in [Sessions -> Ses] /\ SesInv'
  BY <1>1, <1>3, <1>4, SesUpdate
<1>6. devices' \in [Imeis -> Entry(Device)] /\ late' \in BOOLEAN /\ KeysInv' /\ EntriesInv'
  BY <1>1, <1>2, DeviceCached
<1>7. TypeOK' /\ ReqInv' /\ FencesInv'
  BY <1>1, <1>5, <1>6 DEF RegistryInv, TypeOK, ReqInv, FencesInv, db
<1>8. QED
  BY <1>5, <1>6, <1>7 DEF RegistryInv

\* The device is cached again, late if the row has changed since.
LEMMA RecacheStep == ASSUME RegistryInv, NEW s \in Sessions, Recache(s) PROVE RegistryInv'
<1> DEFINE d == [ses[s].dev EXCEPT !.again = TRUE]
           v == [ses[s] EXCEPT !.at = "vehicle", !.dev = d]
<1>1. /\ ses[s] \in Ses /\ ses \in [Sessions -> Ses] /\ SesInv /\ ses[s].dev \in Device
      /\ UNCHANGED <<db, vehicle, cached, req, missed>>
  BY DEF RegistryInv, TypeOK, SesInv, SesOK, Recache
<1>2. d \in Device /\ devices' = [devices EXCEPT ![d.imei] = New(d)] /\ late' = (late \/ ~IsCurrent(d))
  BY <1>1 DEF Recache, Device
<1>3. ses' = [ses EXCEPT ![s] = v]
  BY DEF Recache
<1> HIDE DEF d
<1>4. v \in Ses /\ v.at = "vehicle"
  BY <1>1, <1>2 DEF Ses
<1> HIDE DEF v
<1>5. ses' \in [Sessions -> Ses] /\ SesInv'
  BY <1>1, <1>3, <1>4, SesUpdate DEF SesOK
<1>6. devices' \in [Imeis -> Entry(Device)] /\ late' \in BOOLEAN /\ KeysInv' /\ EntriesInv'
  BY <1>1, <1>2, DeviceCached
<1>7. TypeOK' /\ ReqInv' /\ FencesInv'
  BY <1>1, <1>5, <1>6 DEF RegistryInv, TypeOK, ReqInv, FencesInv, db
<1>8. QED
  BY <1>5, <1>6, <1>7 DEF RegistryInv

\* The steps of a session that only move it on.
LEMMA MoveStep ==
  ASSUME RegistryInv, NEW s \in Sessions, Proceed(s) \/ VehicleFor(s) \/ GetByDeviceID(s)
  PROVE  RegistryInv'
<1>1. ses[s] \in Ses /\ bound \in Version /\ UNCHANGED <<db, mem, req, late, missed>>
  BY DEF RegistryInv, TypeOK, Proceed, VehicleFor, GetByDeviceID
<1>2. ASSUME NEW a \in {"vehicle", "vquery"}, ses' = [ses EXCEPT ![s] = [@ EXCEPT !.at = a]]
      PROVE  RegistryInv'
  <2> DEFINE v == [ses[s] EXCEPT !.at = a]
  <2>1. v \in Ses /\ v.at = a /\ ses' = [ses EXCEPT ![s] = v]
    BY <1>1, <1>2 DEF Ses
  <2> HIDE DEF v
  <2>2. QED
    BY <1>1, <2>1, SesOnly DEF SesOK
<1>3. CASE Proceed(s)
  <2>1. ses' = [ses EXCEPT ![s] = [@ EXCEPT !.at = "vehicle"]]
    BY <1>3 DEF Proceed
  <2>2. QED
    BY <1>2, <2>1
<1>4. CASE ses' = [ses EXCEPT ![s] = IdleSes]
  BY <1>1, <1>4, IdleType, SesOnly
<1>5. CASE VehicleFor(s)
  <2>1. CASE vehicle.is = Nil
    <3>1. ses' = [ses EXCEPT ![s] = [@ EXCEPT !.at = "vquery"]]
      BY <1>5, <2>1 DEF VehicleFor
    <3>2. QED
      BY <1>2, <3>1
  <2>2. CASE vehicle.is # Nil
    BY <1>4, <1>5, <2>2 DEF VehicleFor
  <2>3. QED
    BY <2>1, <2>2
<1>6. CASE GetByDeviceID(s)
  <2> DEFINE v == [ses[s] EXCEPT !.at = "vinstall", !.veh = bound]
  <2>1. v \in Ses /\ v.at = "vinstall" /\ v.veh \in Version
    BY <1>1 DEF Ses
  <2>2. ses' = [ses EXCEPT ![s] = v] \/ ses' = [ses EXCEPT ![s] = IdleSes]
    BY <1>6 DEF GetByDeviceID
  <2> HIDE DEF v
  <2>3. SesOK(v)
    BY <2>1 DEF SesOK
  <2>4. QED
    BY <1>1, <1>4, <2>1, <2>2, <2>3, SesOnly
<1>7. QED
  BY <1>3, <1>5, <1>6

\* The vehicle that was read is cached.
LEMMA CacheVehicleStep == ASSUME RegistryInv, NEW s \in Sessions, CacheVehicle(s) PROVE RegistryInv'
<1> USE DEF RegistryInv
<1>1. UNCHANGED <<db, devices, cached, req, late, missed>>
  BY DEF CacheVehicle
<1>2. vehicle' \in Entry(Version)
  BY EntryType DEF CacheVehicle, SesInv, SesOK
<1>3. ses' \in [Sessions -> Ses] /\ SesInv'
  BY IdleType, SesUpdate DEF CacheVehicle, TypeOK
<1>4. TypeOK' /\ ReqInv'
  BY <1>1, <1>2, <1>3 DEF TypeOK, ReqInv, db
<1>5. KeysInv' /\ EntriesInv' /\ FencesInv'
  BY <1>1 DEF KeysInv, EntriesInv, IsCurrent, FencesInv, db
<1>6. QED
  BY <1>3, <1>4, <1>5

-----------------------------------------------------------------------------
(* The requests.                                                           *)

\* One request goes on, and neither had an IMEI to invalidate nor a list to read
\* or install; the registers and the caches are as they were.
LEMMA ReqOnly ==
  ASSUME RegistryInv, NEW r \in Requests, req[r].at \notin {"invalidate", "list", "set"},
         NEW v \in Req, ReqOK(v, fences), req' = [req EXCEPT ![r] = v],
         bound' \in Version, UNCHANGED <<row, fences, mem, ses, late, missed>>
  PROVE  RegistryInv'
<1> USE DEF RegistryInv, mem
<1>1. /\ req' \in [Requests -> Req] /\ ReqInv'
      /\ req'[r] = v /\ \A q \in Requests : q # r => req'[q] = req[q]
  BY ReqUpdate DEF TypeOK
<1>2. TypeOK' /\ SesInv' /\ KeysInv'
  BY <1>1 DEF TypeOK, SesInv, KeysInv
<1>3. EntriesInv'
  BY <1>1, EntriesKept
<1>4. FencesInv'
  BY <1>1, FencesKept
<1>5. QED
  BY <1>1, <1>2, <1>3, <1>4

\* A request is done.
DoneReq == [at |-> "done", prev |-> Nil, todo |-> <<>>, read |-> Nil]
LEMMA DoneEffect ==
  ASSUME NEW r \in Requests, Done(r), NEW f
  PROVE  DoneReq \in Req /\ ReqOK(DoneReq, f) /\ DoneReq.at = "done" /\ req' = [req EXCEPT ![r] = DoneReq]
<1>1. [NewReq EXCEPT !.at = "done"] = DoneReq
  BY DEF NewReq, DoneReq
<1>2. req' = [req EXCEPT ![r] = DoneReq]
  BY <1>1 DEF Done
<1>3. DoneReq \in Req /\ DoneReq.at = "done"
  BY DEF DoneReq, Req
<1>4. QED
  BY <1>2, <1>3 DEF ReqOK

\* A handler reads the device before it changes it.
LEMMA GetDeviceStep ==
  ASSUME RegistryInv, NEW r \in Requests, NEW next \in {"update", "delete"}, GetDevice(r, next)
  PROVE  RegistryInv'
<1> DEFINE v == [req[r] EXCEPT !.at = next, !.prev = row.imei]
<1>1. req[r] \in Req /\ row.imei \in Imeis /\ bound \in Version
  BY DEF RegistryInv, TypeOK, GetDevice
<1>2. v \in Req /\ v.at = next /\ v.prev \in Imeis
  BY <1>1 DEF Req
<1>3. req[r].at = "new" /\ req' = [req EXCEPT ![r] = v] /\ UNCHANGED <<row, bound, fences, mem, ses, late, missed>>
  BY DEF GetDevice, db
<1> HIDE DEF v
<1>4. ReqOK(v, fences)
  BY <1>2 DEF ReqOK
<1>5. QED
  BY <1>1, <1>2, <1>3, <1>4, ReqOnly

\* What a handler has to invalidate.
LEMMA InvalidatesEffect ==
  ASSUME TypeOK, NEW r \in Requests, NEW q \in Seq(Imeis \cup {Vehicles}), q # <<>>, Invalidates(r, q)
  PROVE  \E v \in Req : /\ v.at = "invalidate" /\ v.todo = q /\ ReqOK(v, fences)
                         /\ req' = [req EXCEPT ![r] = v]
<1> DEFINE v == [req[r] EXCEPT !.at = "invalidate", !.todo = q]
<1>1. req[r] \in Req
  BY DEF TypeOK
<1>2. v \in Req /\ v.at = "invalidate" /\ v.todo = q
  BY <1>1 DEF Req
<1>3. req' = [req EXCEPT ![r] = v]
  BY DEF Invalidates
<1> HIDE DEF v
<1>4. ReqOK(v, fences)
  BY <1>2 DEF ReqOK
<1>5. QED
  BY <1>2, <1>3, <1>4

\* The binding of the device changes.
LEMMA EditVehicleStep == ASSUME RegistryInv, NEW r \in Requests, EditVehicle(r) PROVE RegistryInv'
<1>1. TypeOK /\ <<Vehicles>> \in Seq(Imeis \cup {Vehicles}) /\ <<Vehicles>> # <<>>
  BY DEF RegistryInv
<1>2. PICK v \in Req : ReqOK(v, fences) /\ req' = [req EXCEPT ![r] = v]
  BY <1>1, InvalidatesEffect DEF EditVehicle
<1>3. bound' \in Version
  BY <1>1, RegistryAssumption DEF EditVehicle, TypeOK, Version
<1>4. req[r].at = "new" /\ UNCHANGED <<row, fences, mem, ses, late, missed>>
  BY DEF EditVehicle
<1>5. QED
  BY <1>2, <1>3, <1>4, ReqOnly

\* The row of the device changes, and a request now has its IMEI to invalidate;
\* p is the IMEI that the row had when the request read it.
LEMMA RowStep ==
  ASSUME RegistryInv, NEW r \in Requests, req[r].at \notin {"invalidate", "list", "set"},
         row' \in [imei : Imeis \cup {Nil}, version : Version], bound' \in Version,
         NEW q \in Seq(Imeis \cup {Vehicles}), q # <<>>, Invalidates(r, q),
         late' \in BOOLEAN, ~late' => ~late /\ (row.imei = Nil \/ In(row.imei, q)),
         UNCHANGED <<fences, mem, ses, missed>>
  PROVE  RegistryInv'
<1> USE DEF RegistryInv, mem
<1>1. PICK v \in Req : v.at = "invalidate" /\ v.todo = q /\ ReqOK(v, fences) /\ req' = [req EXCEPT ![r] = v]
  BY InvalidatesEffect
<1>2. /\ req' \in [Requests -> Req] /\ ReqInv'
      /\ req'[r] = v /\ \A x \in Requests : x # r => req'[x] = req[x]
  BY <1>1, ReqUpdate DEF TypeOK
<1>3. TypeOK' /\ SesInv' /\ KeysInv'
  BY <1>2 DEF TypeOK, SesInv, KeysInv
<1>4. EntriesInv'
  <2> SUFFICES ASSUME ~late', NEW i \in Imeis, devices[i].is # Nil
               PROVE  \E x \in Requests : req'[x].at = "invalidate" /\ In(i, req'[x].todo)
    BY DEF EntriesInv
  <2>1. CASE IsCurrent(devices[i].is)
    <3>1. i = row.imei
      BY <2>1 DEF IsCurrent, KeysInv
    <3>2. In(i, q)
      BY <3>1, RegistryAssumption
    <3>3. QED
      BY <1>1, <1>2, <3>2
  <2>2. CASE ~IsCurrent(devices[i].is)
    <3>1. PICK x \in Requests : req[x].at = "invalidate" /\ In(i, req[x].todo)
      BY <2>2 DEF EntriesInv
    <3>2. QED
      BY <1>2, <3>1
  <2>3. QED
    BY <2>1, <2>2
<1>5. FencesInv'
  BY <1>2, FencesKept
<1>6. QED
  BY <1>2, <1>3, <1>4, <1>5

\* There was no row: no entry was current.
LEMMA CreateDeviceStep ==
  ASSUME RegistryInv, NEW r \in Requests, NEW i \in Imeis, CreateDevice(r, i)
  PROVE  RegistryInv'
<1>1. req[r].at = "new" /\ row.imei = Nil /\ Invalidates(r, <<i>>) /\ UNCHANGED <<bound, fences, mem, ses, late, missed>>
  BY DEF CreateDevice
<1>2. bound \in Version /\ late \in BOOLEAN
  BY DEF RegistryInv, TypeOK
<1>3. row' \in [imei : Imeis \cup {Nil}, version : Version]
  BY RegistryAssumption DEF RegistryInv, TypeOK, CreateDevice, Version
<1>4. <<i>> \in Seq(Imeis \cup {Vehicles}) /\ <<i>> # <<>>
  OBVIOUS
<1>5. QED
  BY <1>1, <1>2, <1>3, <1>4, RowStep

\* Both the IMEI read before and the one written are to be invalidated.
LEMMA UpdateDeviceStep ==
  ASSUME RegistryInv, NEW r \in Requests, NEW i \in Imeis, UpdateDevice(r, i)
  PROVE  RegistryInv'
<1> DEFINE p == req[r].prev
           q == <<p, i>>
<1>1. req[r].at = "update" /\ UNCHANGED <<bound, fences, mem, ses, missed>>
  BY DEF UpdateDevice
<1>2. bound \in Version /\ late \in BOOLEAN /\ p \in Imeis
  BY <1>1 DEF RegistryInv, TypeOK, ReqInv, ReqOK
<1>3. CASE row.imei = Nil
  <2>1. Done(r) /\ UNCHANGED <<row, late>>
    BY <1>3 DEF UpdateDevice
  <2>2. bound' \in Version
    BY <1>1, <1>2, <1>3 DEF UpdateDevice
  <2>3. QED
    BY <1>1, <2>1, <2>2, DoneEffect, ReqOnly
<1>4. CASE row.imei # Nil
  <2>1. q \in Seq(Imeis \cup {Vehicles}) /\ q # <<>> /\ In(p, q)
    BY <1>2 DEF In
  <2>2. Invalidates(r, q) /\ late' = (late \/ p # row.imei)
    BY <1>4 DEF UpdateDevice, UpdateInvalidates
  <2>3. row' \in [imei : Imeis \cup {Nil}, version : Version]
    BY <1>4, RegistryAssumption DEF RegistryInv, TypeOK, UpdateDevice, Version
  <2> HIDE DEF p, q
  <2>4. QED
    BY <1>1, <1>2, <2>1, <2>2, <2>3, RowStep
<1>5. QED
  BY <1>3, <1>4

\* The IMEI read before and the vehicle are to be invalidated.
LEMMA DeleteDeviceStep == ASSUME RegistryInv, NEW r \in Requests, DeleteDevice(r) PROVE RegistryInv'
<1> DEFINE p == req[r].prev
           q == <<p, Vehicles>>
<1>1. req[r].at = "delete" /\ UNCHANGED <<fences, mem, ses, missed>>
  BY DEF DeleteDevice
<1>2. bound \in Version /\ late \in BOOLEAN /\ p \in Imeis
  BY <1>1 DEF RegistryInv, TypeOK, ReqInv, ReqOK
<1>3. CASE row.imei = Nil
  <2>1. Done(r) /\ UNCHANGED <<row, late>>
    BY <1>3 DEF DeleteDevice
  <2>2. bound' \in Version
    BY <1>1, <1>2, <1>3 DEF DeleteDevice
  <2>3. QED
    BY <1>1, <2>1, <2>2, DoneEffect, ReqOnly
<1>4. CASE row.imei # Nil
  <2>1. q \in Seq(Imeis \cup {Vehicles}) /\ q # <<>> /\ In(p, q)
    BY <1>2 DEF In
  <2>2. Invalidates(r, q) /\ late' = (late \/ p # row.imei)
    BY <1>4 DEF DeleteDevice
  <2>3. row' \in [imei : Imeis \cup {Nil}, version : Version] /\ bound' \in Version
    BY <1>2, <1>4, RegistryAssumption DEF RegistryInv, TypeOK, DeleteDevice, Version
  <2> HIDE DEF p, q
  <2>4. QED
    BY <1>1, <1>2, <2>1, <2>2, <2>3, RowStep
<1>5. QED
  BY <1>3, <1>4

\* The entry that is taken away is of the IMEI the request is done with.
LEMMA InvalidateStep == ASSUME RegistryInv, NEW r \in Requests, Invalidate(r) PROVE RegistryInv'
<1> DEFINE q == req[r].todo
           x == Head(q)
           w == [req[r] EXCEPT !.todo = Tail(q)]
<1>1. req[r].at = "invalidate" /\ UNCHANGED <<db, cached, ses, late, missed>>
  BY DEF Invalidate
<1>2. /\ req[r] \in Req /\ q \in Seq(Imeis \cup {Vehicles}) /\ q # <<>>
      /\ devices \in [Imeis -> Entry(Device)] /\ vehicle \in Entry(Version)
  BY <1>1 DEF RegistryInv, TypeOK, Req, ReqInv, ReqOK
<1>3. NoEntry \in Entry(Device) /\ NoEntry \in Entry(Version) /\ NoEntry.is = Nil
  BY RegistryAssumption DEF NoEntry, Entry
<1>4. /\ vehicle' \in Entry(Version) /\ devices' \in [Imeis -> Entry(Device)]
      /\ \A i \in Imeis : (i = x => devices'[i].is = Nil) /\ (i # x => devices'[i] = devices[i])
  BY <1>2, <1>3 DEF Invalidate
<1>5. PICK v \in Req : /\ ReqOK(v, fences) /\ req' = [req EXCEPT ![r] = v]
                       /\ \A i : In(i, q) /\ i # x => v.at = "invalidate" /\ In(i, v.todo)
                       /\ v.at \in {"invalidate", "done"}
  <2>1. CASE Len(q) = 1
    <3>1. Done(r)
      BY <2>1 DEF Invalidate
    <3>2. \A i : In(i, q) => i = x
      BY <1>2, <2>1, InTail
    <3>3. QED
      BY <3>1, <3>2, DoneEffect
  <2>2. CASE Len(q) # 1
    <3>1. Tail(q) \in Seq(Imeis \cup {Vehicles}) /\ Tail(q) # <<>>
      BY <1>2, <2>2, TailKept
    <3>2. \A i : In(i, q) /\ i # x => In(i, Tail(q))
      BY <1>2, InTail
    <3>3. w \in Req /\ w.at = "invalidate" /\ w.todo = Tail(q) /\ req' = [req EXCEPT ![r] = w]
      BY <1>1, <1>2, <2>2, <3>1 DEF Invalidate, Req
    <3> HIDE DEF w, q, x
    <3>4. ReqOK(w, fences)
      BY <3>1, <3>3 DEF ReqOK
    <3>5. QED
      BY <3>2, <3>3, <3>4
  <2>3. QED
    BY <2>1, <2>2
<1> HIDE DEF x, w
<1>6. /\ req' \in [Requests -> Req] /\ ReqInv'
      /\ req'[r] = v /\ \A p \in Requests : p # r => req'[p] = req[p]
  BY <1>1, <1>5, ReqUpdate DEF RegistryInv, TypeOK, db
<1>7. TypeOK' /\ SesInv' /\ KeysInv'
  BY <1>1, <1>4, <1>6 DEF RegistryInv, TypeOK, SesInv, KeysInv, db
<1>8. EntriesInv'
  <2> SUFFICES ASSUME ~late', NEW i \in Imeis, devices'[i].is # Nil, ~IsCurrent(devices[i].is)'
               PROVE  \E p \in Requests : req'[p].at = "invalidate" /\ In(i, req'[p].todo)
    BY DEF EntriesInv
  <2>1. i # x /\ devices'[i] = devices[i] /\ ~IsCurrent(devices[i].is) /\ ~late
    BY <1>1, <1>4 DEF IsCurrent, db
  <2>2. PICK p \in Requests : req[p].at = "invalidate" /\ In(i, req[p].todo)
    BY <2>1 DEF RegistryInv, EntriesInv
  <2>3. CASE p = r
    BY <1>5, <1>6, <2>1, <2>2, <2>3
  <2>4. CASE p # r
    BY <1>6, <2>2, <2>4
  <2>5. QED
    BY <2>3, <2>4
<1>9. FencesInv'
  BY <1>1, <1>6, FencesKept DEF RegistryInv, db
<1>10. QED
  BY <1>6, <1>7, <1>8, <1>9 DEF RegistryInv

\* The fences are edited, and the request that did is to read the new list.
LEMMA EditFenceStep == ASSUME RegistryInv, NEW r \in Requests, EditFence(r) PROVE RegistryInv'
<1> DEFINE v == [req[r] EXCEPT !.at = "list"]
<1>1. req[r].at = "new" /\ UNCHANGED <<row, bound, mem, ses, late, missed>>
  BY DEF EditFence
<1>2. fences \in Version /\ fences' \in Version /\ fences <= fences' /\ req \in [Requests -> Req] /\ req[r] \in Req
  BY RegistryAssumption DEF RegistryInv, TypeOK, EditFence, Version
<1>3. v \in Req /\ v.at = "list" /\ req' = [req EXCEPT ![r] = v]
  BY <1>2 DEF Req, EditFence
<1> HIDE DEF v
<1>4. req' \in [Requests -> Req] /\ req'[r] = v /\ \A q \in Requests : q # r => req'[q] = req[q]
  BY <1>2, <1>3
<1>5. ReqInv'
  <2> SUFFICES ASSUME NEW q \in Requests PROVE ReqOK(req'[q], fences')
    BY DEF ReqInv
  <2>1. CASE q = r
    BY <1>3, <1>4, <2>1 DEF ReqOK
  <2>2. CASE q # r
    <3>1. req'[q] = req[q] /\ ReqOK(req[q], fences)
      BY <1>4, <2>2 DEF RegistryInv, ReqInv
    <3>2. QED
      BY <1>2, <3>1 DEF ReqOK, Version
  <2>3. QED
    BY <2>1, <2>2
<1>6. TypeOK' /\ SesInv' /\ KeysInv'
  BY <1>1, <1>2, <1>4 DEF RegistryInv, TypeOK, SesInv, KeysInv, mem
<1>7. EntriesInv'
  BY <1>1, <1>4, EntriesKept DEF RegistryInv, mem
<1>8. FencesInv'
  BY <1>3, <1>4 DEF FencesInv
<1>9. QED
  BY <1>5, <1>6, <1>7, <1>8 DEF RegistryInv

\* The list is read as it is now, or the reload fails.
LEMMA ListStep == ASSUME RegistryInv, NEW r \in Requests, List(r) PROVE RegistryInv'
<1> DEFINE w == [req[r] EXCEPT !.at = "set", !.read = fences]
<1>1. req[r].at = "list" /\ UNCHANGED <<db, mem, ses, late>>
  BY DEF List
<1>2. fences \in Version /\ req[r] \in Req /\ missed \in BOOLEAN
  BY DEF RegistryInv, TypeOK
<1>3. w \in Req /\ w.at = "set" /\ w.read = fences
  BY <1>2 DEF Req
<1>4. \/ req' = [req EXCEPT ![r] = w] /\ missed' = missed
      \/ Done(r) /\ missed' = TRUE
  BY DEF List
<1> HIDE DEF w
<1>5. ReqOK(w, fences)
  BY <1>2, <1>3 DEF ReqOK, Version
<1>6. PICK v \in Req : /\ req' = [req EXCEPT ![r] = v] /\ ReqOK(v, fences)
                       /\ missed' = TRUE \/ (missed' = missed /\ v.at = "set" /\ v.read = fences)
  BY <1>3, <1>4, <1>5, DoneEffect
<1>7. /\ req' \in [Requests -> Req] /\ ReqInv'
      /\ req'[r] = v /\ \A p \in Requests : p # r => req'[p] = req[p]
  BY <1>1, <1>6, ReqUpdate DEF RegistryInv, TypeOK, db
<1>8. TypeOK' /\ SesInv' /\ KeysInv'
  BY <1>1, <1>2, <1>6, <1>7 DEF RegistryInv, TypeOK, SesInv, KeysInv, mem, db
<1>9. EntriesInv'
  BY <1>1, <1>7, EntriesKept DEF RegistryInv, mem, db
<1>10. FencesInv'
  BY <1>1, <1>6, <1>7 DEF FencesInv, db
<1>11. QED
  BY <1>7, <1>8, <1>9, <1>10 DEF RegistryInv

\* A list is installed: the active one, or one that another request will replace.
LEMMA InstallStep == ASSUME RegistryInv, NEW r \in Requests, Install(r) PROVE RegistryInv'
<1> DEFINE n == req[r].read
<1>1. /\ req[r].at = "set" /\ cached' = n /\ missed' = (n < fences /\ (missed \/ n < cached)) /\ Done(r)
      /\ UNCHANGED <<db, devices, vehicle, ses, late>>
  BY DEF Install, Installed
<1>2. n \in Version /\ n <= fences /\ cached \in Version /\ fences \in Version /\ missed \in BOOLEAN
  BY <1>1 DEF RegistryInv, TypeOK, ReqInv, ReqOK
<1>3. DoneReq \in Req /\ ReqOK(DoneReq, fences) /\ DoneReq.at = "done" /\ req' = [req EXCEPT ![r] = DoneReq]
  BY <1>1, DoneEffect
<1>4. /\ req' \in [Requests -> Req] /\ ReqInv'
      /\ req'[r] = DoneReq /\ \A p \in Requests : p # r => req'[p] = req[p]
  BY <1>1, <1>3, ReqUpdate DEF RegistryInv, TypeOK, db
<1>5. TypeOK' /\ SesInv' /\ KeysInv'
  BY <1>1, <1>2, <1>4 DEF RegistryInv, TypeOK, SesInv, KeysInv, db
<1>6. EntriesInv'
  BY <1>1, <1>4, EntriesKept DEF RegistryInv, db
<1>7. FencesInv'
  <2> HIDE DEF n
  <2>0. n \in Nat /\ cached \in Nat /\ fences \in Nat
    BY <1>2, RegistryAssumption DEF Version
  <2>1. CASE n = fences
    BY <1>1, <2>1 DEF FencesInv, db
  <2>2. CASE n # fences
    <3>1. SUFFICES ASSUME ~missed'
                   PROVE  \/ \E p \in Requests : req'[p].at = "list"
                          \/ \E p \in Requests : req'[p].at = "set" /\ req'[p].read = fences'
      BY DEF FencesInv
    <3>2. ~missed /\ cached # fences
      <4>1. n < fences
        BY <1>2, <2>0, <2>2
      <4>2. ~missed /\ ~(n < cached)
        BY <1>1, <3>1, <4>1, Zenon
      <4>3. QED
        BY <4>1, <4>2
    <3>3. PICK p \in Requests : req[p].at = "list" \/ (req[p].at = "set" /\ req[p].read = fences)
      BY <3>2 DEF RegistryInv, FencesInv
    <3>4. p # r
      BY <1>1, <2>2, <3>3 DEF n
    <3>5. QED
      BY <1>1, <1>4, <3>3, <3>4 DEF db
  <2>3. QED
    BY <2>1, <2>2
<1>8. QED
  BY <1>4, <1>5, <1>6, <1>7 DEF RegistryInv

\* Entries age and expire.
LEMMA TickStep == ASSUME RegistryInv, Tick PROVE RegistryInv'
<1> USE DEF RegistryInv, Tick
<1>1. vehicle' \in Entry(Version)
  BY AgedEffect DEF TypeOK
<1>2. /\ devices' \in [Imeis -> Entry(Device)]
      /\ \A i \in Imeis : devices'[i].is # Nil => devices'[i].is = devices[i].is
  BY AgedEffect DEF TypeOK
<1>3. TypeOK' /\ SesInv' /\ ReqInv'
  BY <1>1, <1>2 DEF TypeOK, SesInv, ReqInv, db
<1>4. KeysInv' /\ FencesInv'
  BY <1>2 DEF KeysInv, FencesInv, db
<1>5. EntriesInv'
  BY <1>2 DEF EntriesInv, IsCurrent, db
<1>6. QED
  BY <1>3, <1>4, <1>5

-----------------------------------------------------------------------------
\* The caches are empty and no request is under way at the start.
LEMMA InitHolds == Init => RegistryInv
<1> SUFFICES ASSUME Init PROVE RegistryInv
  OBVIOUS
<1>0. NoEntry \in Entry(Device) /\ NoEntry \in Entry(Version) /\ NoEntry.is = Nil
  BY RegistryAssumption DEF NoEntry, Entry
<1>1. NewReq \in Req /\ NewReq.at = "new"
  BY DEF NewReq, Req
<1>2. 0 \in Version
  BY RegistryAssumption DEF Version
<1>3. TypeOK
  <2>1. row \in [imei : Imeis \cup {Nil}, version : Version]
    BY <1>2, RegistryAssumption DEF Init
  <2>2. devices \in [Imeis -> Entry(Device)] /\ vehicle \in Entry(Version)
    BY <1>0 DEF Init
  <2>3. ses \in [Sessions -> Ses] /\ req \in [Requests -> Req]
    BY <1>1, IdleType DEF Init
  <2>4. QED
    BY <1>2, <2>1, <2>2, <2>3 DEF Init, TypeOK
<1>4. SesInv /\ ReqInv
  BY <1>1, IdleType DEF Init, SesInv, ReqInv, ReqOK
<1>5. KeysInv /\ EntriesInv /\ FencesInv
  BY <1>0 DEF Init, KeysInv, EntriesInv, FencesInv
<1>6. QED
  BY <1>3, <1>4, <1>5 DEF RegistryInv

\* Every step of a session, of a handler and of the clock keeps the invariant.
LEMMA RegistryStep == RegistryInv /\ [Next]_vars => RegistryInv'
<1> SUFFICES ASSUME RegistryInv, [Next]_vars PROVE RegistryInv'
  OBVIOUS
<1>1. ASSUME NEW s \in Sessions, Handle(s) PROVE RegistryInv'
  BY <1>1, GetByIMEIStep, CacheDeviceStep, RecacheStep, MoveStep, CacheVehicleStep DEF Handle
<1>2. ASSUME NEW s \in Sessions, NEW i \in Imeis, ResolveDevice(s, i) PROVE RegistryInv'
  BY <1>2, ResolveStep
<1>3. ASSUME NEW r \in Requests, Arrive(r) PROVE RegistryInv'
  BY <1>3, CreateDeviceStep, GetDeviceStep, EditVehicleStep, EditFenceStep DEF Arrive
<1>4. ASSUME NEW r \in Requests, Serve(r) PROVE RegistryInv'
  BY <1>4, UpdateDeviceStep, DeleteDeviceStep, InvalidateStep, ListStep, InstallStep DEF Serve
<1>5. CASE UNCHANGED vars
  <2>1. UNCHANGED <<row, bound, fences, devices, vehicle, cached, ses, req, late, missed>>
    BY <1>5 DEF vars, db, mem
  <2>2. QED
    BY <2>1 DEF RegistryInv, TypeOK, SesInv, ReqInv, KeysInv, EntriesInv, IsCurrent, FencesInv
<1>6. QED
  BY <1>1, <1>2, <1>3, <1>4, <1>5, TickStep DEF Next

-----------------------------------------------------------------------------
(* The results.                                                            *)

\* The inductive invariant holds in every behaviour, whatever the interleaving
\* of messages, handlers and expiry.
THEOREM Invariance == Spec => []RegistryInv
<1>1. Init => RegistryInv
  BY InitHolds
<1>2. RegistryInv /\ [Next]_vars => RegistryInv'
  BY RegistryStep
<1>3. QED
  BY <1>1, <1>2, PTL DEF Spec

\* The state of the registers, the caches and the handlers keeps its type.
THEOREM TypeCorrect == Spec => []TypeOK
<1>1. RegistryInv => TypeOK
  BY DEF RegistryInv
<1>2. QED
  BY <1>1, Invariance, PTL

\* When no handler is at work, no entry of deviceCache is older than the device's
\* row, unless an overtaken read was put there or two edits overlapped
\* (handleUpdateDevice invalidates both IMEIs).
THEOREM EntriesAreCurrentHolds == Spec => []EntriesAreCurrent
<1>1. RegistryInv => EntriesAreCurrent
  BY DEF RegistryInv, EntriesInv, EntriesAreCurrent, Quiet
<1>2. QED
  BY <1>1, Invariance, PTL

\* When no handler is at work, the fences in memory are the active ones, unless
\* the last Refresh failed or installed an older list over a newer one.
THEOREM FencesAreCurrentHolds == Spec => []FencesAreCurrent
<1>1. RegistryInv => FencesAreCurrent
  BY DEF RegistryInv, FencesInv, FencesAreCurrent, Quiet
<1>2. QED
  BY <1>1, Invariance, PTL

=============================================================================
