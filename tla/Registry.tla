------------------------------ MODULE Registry ------------------------------
(***************************************************************************)
(* The registers that operators edit through the API while messages are    *)
(* handled: a device, the vehicle it is bound to, the geofences.  The      *)
(* ingestor reads devices and vehicles through caches that expire and that *)
(* the handlers invalidate; the geofence service keeps the active fences   *)
(* in memory and every edit reloads them.                                  *)
(*                                                                         *)
(* What a row says is its version, the number of edits it went through;    *)
(* a device row also has its IMEI, which is the key of the cache.  Ages    *)
(* take the place of the clock.  A request runs one handler; a refused     *)
(* body or an invalid one changes nothing and is left out.                 *)
(***************************************************************************)
EXTENDS Naturals, Sequences

CONSTANTS Sessions,   \* sessions whose messages are handled
          Requests,   \* API requests, one handler each
          Imeis,      \* IMEIs, of trackers and of the device's row
          CacheTTL,   \* cacheTTL
          MaxVersion, \* bound: edits of a register
          Nil         \* no row, no entry

ASSUME RegistryAssumption ==
  /\ Imeis # {} /\ Nil \notin Imeis /\ "vehicles" \notin Imeis
  /\ CacheTTL \in Nat \ {0} /\ MaxVersion \in Nat

VARIABLES
  row,      \* the devices row: its imei (Nil: there is none) and version
  bound,    \* version of the vehicle bound to the device
  fences,   \* version of the active rows of geofences
  devices,  \* devices[i]: the entry of deviceCache, a device and its age
  vehicle,  \* the device's entry of vehicleCache
  cached,   \* version of Service.cached
  ses,      \* ses[s]: what a session does next, and what it has read
  req,      \* req[r]: what a request does next, and what it has read
  late,     \* a device entry was filled, or an update done, with an old read
  missed    \* the last Refresh failed, or installed an older list

db == <<row, bound, fences>>
mem == <<devices, vehicle, cached>>
vars == <<db, mem, ses, req, late, missed>>

Version == 0..MaxVersion
Device == [imei : Imeis, version : Version, again : BOOLEAN]
Entry(T) == [is : T \cup {Nil}, age : 0..CacheTTL - 1]
NoEntry == [is |-> Nil, age |-> 0]
New(x) == [is |-> x, age |-> 0]

IdleSes == [at |-> "idle", imei |-> Nil, dev |-> Nil, veh |-> Nil]
NewReq == [at |-> "new", prev |-> Nil, todo |-> <<>>, read |-> Nil]
Vehicles == "vehicles"

Ses == [at : {"idle", "query", "install", "known", "vehicle", "vquery", "vinstall"},
        imei : Imeis \cup {Nil}, dev : Device \cup {Nil}, veh : Version \cup {Nil}]
Req == [at : {"new", "update", "delete", "invalidate", "list", "set", "done"},
        prev : Imeis \cup {Nil}, todo : Seq(Imeis \cup {Vehicles}),
        read : Version \cup {Nil}]

TypeOK ==
  /\ row \in [imei : Imeis \cup {Nil}, version : Version]
  /\ bound \in Version /\ fences \in Version /\ cached \in Version
  /\ devices \in [Imeis -> Entry(Device)]
  /\ vehicle \in Entry(Version)
  /\ ses \in [Sessions -> Ses] /\ req \in [Requests -> Req]
  /\ late \in BOOLEAN /\ missed \in BOOLEAN

Init ==
  /\ row = [imei |-> CHOOSE i \in Imeis : TRUE, version |-> 0]
  /\ bound = 0 /\ fences = 0 /\ cached = 0
  /\ devices = [i \in Imeis |-> NoEntry]
  /\ vehicle = NoEntry
  /\ ses = [s \in Sessions |-> IdleSes]
  /\ req = [r \in Requests |-> NewReq]
  /\ late = FALSE /\ missed = FALSE

\* A device read long ago, or by a cache, is the row as it is now.
IsCurrent(d) == row.imei = d.imei /\ row.version = d.version

-----------------------------------------------------------------------------
(* HandleMessage: resolveDevice, the calls that cache the device again, and *)
(* vehicleFor.                                                             *)

\* A message of the tracker with IMEI i arrives.
ResolveDevice(s, i) ==
  /\ ses[s].at = "idle"
  /\ ses' = [ses EXCEPT ![s] =
       [@ EXCEPT !.at = IF devices[i].is = Nil THEN "query" ELSE "known",
                 !.imei = i, !.dev = devices[i].is]]
  /\ UNCHANGED <<db, mem, req, late, missed>>

\* An unknown IMEI ends the session.
GetByIMEI(s) ==
  /\ ses[s].at = "query"
  /\ ses' = [ses EXCEPT ![s] =
       IF row.imei # @.imei THEN IdleSes
       ELSE [@ EXCEPT !.at = "install",
                      !.dev = [imei |-> row.imei, version |-> row.version,
                               again |-> FALSE]]]
  /\ UNCHANGED <<db, mem, req, late, missed>>

CacheDevice(s) ==
  /\ ses[s].at = "install"
  /\ devices' = [devices EXCEPT ![ses[s].imei] = New(ses[s].dev)]
  /\ late' = (late \/ ~IsCurrent(ses[s].dev))
  /\ ses' = [ses EXCEPT ![s].at = "known"]
  /\ UNCHANGED <<db, vehicle, cached, req, missed>>

\* Defect: touch caches the device again whatever its status was.
MayRecacheAlways(d) == TRUE
\* onConnected and touch cache the device again when they change its protocol
\* or its status; the object says so afterwards, so it happens once.
MayRecache(d) == ~d.again
Recache(s) ==
  /\ ses[s].at = "known"
  /\ MayRecache(ses[s].dev)
  /\ LET d == [ses[s].dev EXCEPT !.again = TRUE] IN
       /\ devices' = [devices EXCEPT ![d.imei] = New(d)]
       /\ late' = (late \/ ~IsCurrent(d))
       /\ ses' = [ses EXCEPT ![s] = [@ EXCEPT !.at = "vehicle", !.dev = d]]
  /\ UNCHANGED <<db, vehicle, cached, req, missed>>

\* Nothing to change: on to vehicleFor, if what follows publishes anything.
Proceed(s) ==
  /\ ses[s].at = "known"
  /\ ses' = [ses EXCEPT ![s].at = "vehicle"]
  /\ UNCHANGED <<db, mem, req, late, missed>>

VehicleFor(s) ==
  /\ ses[s].at = "vehicle"
  /\ ses' = [ses EXCEPT ![s] =
       IF vehicle.is = Nil THEN [@ EXCEPT !.at = "vquery"] ELSE IdleSes]
  /\ UNCHANGED <<db, mem, req, late, missed>>

\* A query that fails is not cached.
GetByDeviceID(s) ==
  /\ ses[s].at = "vquery"
  /\ \/ ses' = [ses EXCEPT ![s] = [@ EXCEPT !.at = "vinstall", !.veh = bound]]
     \/ ses' = [ses EXCEPT ![s] = IdleSes]
  /\ UNCHANGED <<db, mem, req, late, missed>>

CacheVehicle(s) ==
  /\ ses[s].at = "vinstall"
  /\ vehicle' = New(ses[s].veh)
  /\ ses' = [ses EXCEPT ![s] = IdleSes]
  /\ UNCHANGED <<db, devices, cached, req, late, missed>>

-----------------------------------------------------------------------------
(* The handlers.                                                           *)

Done(r) == req' = [req EXCEPT ![r] = [NewReq EXCEPT !.at = "done"]]

\* What a handler invalidates once its statement is done.
Invalidates(r, todo) ==
  req' = [req EXCEPT ![r] = [@ EXCEPT !.at = "invalidate", !.todo = todo]]

\* handleCreateDevice.
CreateDevice(r, i) ==
  /\ req[r].at = "new"
  /\ row.imei = Nil /\ row.version < MaxVersion
  /\ row' = [imei |-> i, version |-> row.version + 1]
  /\ Invalidates(r, <<i>>)
  /\ UNCHANGED <<bound, fences, mem, ses, late, missed>>

\* handleUpdateDevice and handleDeleteDevice read the device first.
GetDevice(r, next) ==
  /\ req[r].at = "new"
  /\ row.imei # Nil
  /\ req' = [req EXCEPT ![r] = [@ EXCEPT !.at = next, !.prev = row.imei]]
  /\ UNCHANGED <<db, mem, ses, late, missed>>

\* Defect: only the IMEI that was written is invalidated.
UpdateInvalidatesNew(r, i) == <<i>>
UpdateInvalidates(r, i) == <<req[r].prev, i>>

\* The row may be gone by now, or have another IMEI than the one read.
UpdateDevice(r, i) ==
  /\ req[r].at = "update"
  /\ row.version < MaxVersion
  /\ IF row.imei = Nil THEN Done(r) /\ UNCHANGED <<row, late>>
     ELSE /\ row' = [imei |-> i, version |-> row.version + 1]
          /\ late' = (late \/ req[r].prev # row.imei)
          /\ Invalidates(r, UpdateInvalidates(r, i))
  /\ UNCHANGED <<bound, fences, mem, ses, missed>>

\* vehicles.device_id becomes NULL with the row.
DeleteDevice(r) ==
  /\ req[r].at = "delete"
  /\ bound < MaxVersion
  /\ IF row.imei = Nil THEN Done(r) /\ UNCHANGED <<row, bound, late>>
     ELSE /\ row' = [row EXCEPT !.imei = Nil]
          /\ bound' = bound + 1
          /\ late' = (late \/ req[r].prev # row.imei)
          /\ Invalidates(r, <<req[r].prev, Vehicles>>)
  /\ UNCHANGED <<fences, mem, ses, missed>>

\* handleCreateVehicle, handleUpdateVehicle, handleDeleteVehicle: the binding
\* of the device may have changed.
EditVehicle(r) ==
  /\ req[r].at = "new"
  /\ bound < MaxVersion
  /\ bound' = bound + 1
  /\ Invalidates(r, <<Vehicles>>)
  /\ UNCHANGED <<row, fences, mem, ses, late, missed>>

Invalidate(r) ==
  /\ req[r].at = "invalidate"
  /\ LET x == Head(req[r].todo) IN
       /\ vehicle' = IF x = Vehicles THEN NoEntry ELSE vehicle
       /\ devices' = [i \in Imeis |-> IF i = x THEN NoEntry ELSE devices[i]]
  /\ IF Len(req[r].todo) = 1 THEN Done(r)
     ELSE req' = [req EXCEPT ![r].todo = Tail(@)]
  /\ UNCHANGED <<db, cached, ses, late, missed>>

\* Create, Update and Delete of the geofence service, up to Refresh.
EditFence(r) ==
  /\ req[r].at = "new"
  /\ fences < MaxVersion
  /\ fences' = fences + 1
  /\ req' = [req EXCEPT ![r].at = "list"]
  /\ UNCHANGED <<row, bound, mem, ses, late, missed>>

\* Refresh: the query, whose error the callers ignore or answer, ...
List(r) ==
  /\ req[r].at = "list"
  /\ \/ /\ req' = [req EXCEPT ![r] = [@ EXCEPT !.at = "set", !.read = fences]]
        /\ UNCHANGED missed
     \/ Done(r) /\ missed' = TRUE
  /\ UNCHANGED <<db, mem, ses, late>>

\* Defect: the list is not installed when another refresh is under way.
InstalledFirst(r) ==
  IF \E q \in Requests \ {r} : req[q].at = "set" THEN cached ELSE req[r].read
\* ... and the installation of what it returned, whatever is there by now.
Installed(r) == req[r].read
Install(r) ==
  /\ req[r].at = "set"
  /\ cached' = Installed(r)
  /\ missed' = (req[r].read < fences /\ (missed \/ req[r].read < cached))
  /\ Done(r)
  /\ UNCHANGED <<db, devices, vehicle, ses, late>>

-----------------------------------------------------------------------------
\* Defect: entries do not expire.
AgedNever(e) == e
\* time.Since(at) < cacheTTL: an entry that reaches it is as good as none.
Aged(e) == IF e.is = Nil \/ e.age + 1 = CacheTTL THEN NoEntry
           ELSE [e EXCEPT !.age = @ + 1]

\* Time passes.
Tick ==
  /\ devices' = [i \in Imeis |-> Aged(devices[i])]
  /\ vehicle' = Aged(vehicle)
  /\ UNCHANGED <<db, cached, ses, req, late, missed>>

Handle(s) ==
  \/ GetByIMEI(s) \/ CacheDevice(s) \/ Recache(s) \/ Proceed(s)
  \/ VehicleFor(s) \/ GetByDeviceID(s) \/ CacheVehicle(s)
Serve(r) ==
  \/ \E i \in Imeis : UpdateDevice(r, i)
  \/ DeleteDevice(r) \/ Invalidate(r) \/ List(r) \/ Install(r)
Arrive(r) ==
  \/ \E i \in Imeis : CreateDevice(r, i)
  \/ GetDevice(r, "update") \/ GetDevice(r, "delete")
  \/ EditVehicle(r) \/ EditFence(r)
Next ==
  \/ \E s \in Sessions : Handle(s) \/ \E i \in Imeis : ResolveDevice(s, i)
  \/ \E r \in Requests : Arrive(r) \/ Serve(r)
  \/ Tick

Spec == Init /\ [][Next]_vars

\* Goroutines run and time passes; messages and requests need not come.
FairSpec ==
  /\ Spec
  /\ \A s \in Sessions : WF_vars(Handle(s))
  /\ \A r \in Requests : WF_vars(Serve(r))
  /\ WF_vars(Tick)

-----------------------------------------------------------------------------
(* Properties.                                                             *)

Quiet == \A r \in Requests : req[r].at \in {"new", "done"}

\* When no handler is at work, no entry of deviceCache is older than the row,
\* not even under the IMEI the device had before (handleUpdateDevice,
\* handlers_devices.go:116), unless a read that an edit overtook was put there
\* (resolveDevice, ingestor.go:563) or two edits of the device overlapped.
EntriesAreCurrent ==
  Quiet /\ ~late => \A i \in Imeis : devices[i].is # Nil => IsCurrent(devices[i].is)

\* When no handler is at work, the fences in memory are the active ones
\* (Refresh, geofences.go:118), unless the last Refresh failed or installed a
\* list older than the one another Refresh had installed.
FencesAreCurrent == Quiet /\ ~missed => cached = fences

\* Once the edits are over, messages are eventually handled with the device as
\* it is, whatever reads were overtaken: an entry is cached again a bounded
\* number of times (touch, ingestor.go:637) and then expires (cacheTTL).
EditsTakeEffect ==
  <>[](\A s \in Sessions : ses[s].dev # Nil => IsCurrent(ses[s].dev))

\* The same of the vehicle the device is bound to (vehicleFor, ingestor.go:589).
BindingsTakeEffect == <>[](vehicle.is # Nil => vehicle.is = bound)

=============================================================================
