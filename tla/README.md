# A TLA+ verification project for farbo-rastreamento

farbo-rastreamento is a vehicle-tracking platform: GPS trackers keep a TCP
connection to a Go server, which stores positions, derives events and presence,
relays everything to browsers, and sends commands back, among them the one that
cuts a vehicle's engine. This directory models the parts of that server whose
correctness depends on the order of things, checks them with TLC on small
instances, and proves its safety properties with TLAPS for every instance (the
exceptions are at the end of section 4).

## 1. Inventory

| Part | State | Operations | What is hard | What makes it correct |
| --- | --- | --- | --- | --- |
| `commands` | rows of `device_commands`; `audit_logs`, `vehicle_events` | Send, dispatch, reject, HandleAck, SweepTimeouts | API requests, TCP sessions and the worker change a row by separate statements; replies are late, repeated or absent; a crash or a cancelled request falls between two statements | one outcome per command, earned by the right device; nothing that went out is lost sight of; the audit tells the truth |
| engine-cut rule | `positions` | Snapshot, engineCutBlocked | two clocks, late packets, boundaries | a cut rests on the newest fix known, of a slow vehicle |
| `tcp` | map IMEI -> session, semaphore, sockets | accept, Register, UnregisterConn, Send, shutdown | reconnections overlap with ends of sessions; lookups go stale | a payload reaches its device; the map holds live sessions; limits and shutdown hold |
| `tracking.Ingestor` | caches of devices and vehicles, last touches | HandleMessage, processTelemetry, overspeed, geofences, SweepStatuses | sessions and the sweep share cached rows | transitions reported once; presence agrees with the last contact |
| `tracking.StateStore` | states in memory and in `device_states` | Update, Load, asynchronous Save | saves are unordered; restarts | memory is exact; a restart resumes from a real state |
| `protocols` (gt06, h02, tkstar) | the session's buffer | Detect, NextFrame, Parse | TCP cuts the stream anywhere | framing does not depend on the cuts and always advances |
| `websocket` | clients and their buffers; Redis channel | PublishFor, Deliver, add, remove | slow clients, concurrent removal, unordered publication | a channel is closed once; the hub never blocks |
| `auth`, `frontend/src/api/client.ts` | users, refresh tokens; the tokens of a browser and of each tab | Login, Refresh, Logout; request, refreshSession | two tabs refresh one token; logout meets refresh; a lost answer | a token has one successor; what is stored is usable; no call waits for ever |
| `geofences`, `devices`, `vehicles` | rows and in-memory lists | CRUD, Refresh, Inside, Touch | caches refreshed concurrently | a cache is not older than its last edit for long; presence follows the last contact |
| `geocoding`, `api` middleware | caches, rate limiter | Reverse, allow | bounds | bounded memory |
| `audit`, `events`, `telemetry`, `config`, `database` | append-only rows, none | Create, List | best effort | none of their own |
| `cmd/tksim` | the relay, ignition and speed of a simulated device | commands, tickers, console | three goroutines, a snapshot and a write apart | the server's verdict is what the device did |
| views of `frontend` | - | - | - | - |

The sessions of `tcp` call the ingestor with every decoded message; the
ingestor stores positions, passes replies to `commands`, and publishes to the
hub; the HTTP API calls `commands`, which reads positions through
`SnapshotProvider` and writes on a session through the `Manager`; `runWorkers`
sweeps commands and presence. The database is shared by all and every statement
is atomic by itself; nothing in these parts uses a transaction of several
statements.

## 2. Modules

| Module | Models | Kind |
| --- | --- | --- |
| `CommandContract` | what the command service promises | abstract specification |
| `Commands` | `commands/service.go`, `commands/command.go` | component |
| `EngineCut` | `engineCutBlocked`, `Snapshot`, `positions` | component |
| `Sessions` | `tcp/server.go`, `session.go`, `connection.go` | component |
| `DeviceState` | `processTelemetry` and the rules of `tracking/ingestor.go`, `tracking/state.go` | component |
| `Presence` | `touch`, the device cache, `SweepStatuses` in `tracking` and `devices` | component |
| `Registry` | the edits of devices, vehicles and fences against the caches that hold them | component |
| `Framing` | the NextFrame of every adapter in `protocols/` | operators on bytes |
| `Protocols`, `Gt06`, `H02`, `Tkstar` | `protocols/`: detection, decoding, acknowledgements, commands | operators on bytes |
| `Wire` | the read loop of one session of `tcp/session.go`, over `Framing` | component |
| `Adapters` | `Wire` with the detection and the parsers of the three protocols | composition |
| `Hub` | `websocket/`: two instances, their clients, Redis | component |
| `Auth` | `internal/auth` and the tabs of one browser | composition |
| `Simulator` | `cmd/tksim` and the server at the other end | component |
| `SimulatorCodec` | the bytes of `Simulator`'s frames, over `Gt06` | composition |
| `CommandsProofs` | `Commands` and `EngineCut` | theorems |
| `TcpProofs` | `Sessions` and `Wire` | theorems |
| `DeviceStateProofs`, `PresenceProofs`, `RegistryProofs`, `HubProofs`, `AuthProofs`, `SimulatorProofs` | the module each is named after | theorems |
| `MC*` | | instances for TLC |

### Commands

A command is a row: `req[c]` (device, type, correlation key, creation order),
`status[c]`, and `timeoutAt[c]` reduced to null, in the future or past.
`pc[c]` says which statement the Send call of that row executes next and, when it
has ended, what the client was answered (202 accepted, 409 refused, 400 error).
`wrote` holds the commands whose payload was written on a socket. `reply[r]` is a
reply and the HandleAck call that treats it: the row it found (`hit`) and whether
it is recorded as an exact match. `log[c]` collects what was audited.

Every SQL statement is an action: `Accept` and `Reject` (INSERT), `MarkSending`,
`MarkFailed`, `MarkSent`, `FindCommand` (one or two SELECTs that nothing can
separate observably), `MarkResult`, `ExpireTimedOut`; `Write` is the socket.
The guards `ToSending`, `ToSent`, `ToAcknowledged`, `ToFinal`, `TimedOut` are the
WHERE clauses. An audit row, the vehicle event and the WebSocket message that
follow each other are one `Record`. `SendFails`, `AckFails` and `RecordFails` are
statements that fail; `Crash` loses every running call and keeps the rows.
Reads of other tables before the row exists, payload encoding and texts are left
out. The safety rule of the cut is a free choice here and module `EngineCut`'s
subject.

### EngineCut

One device: `positions` with both timestamps and, in addition, `taken`, when the
fix was really taken; `buffer`, the fixes taken that have not arrived: they wait
for as long as they like and arrive in any order, or never; `skew`, the error of
the device's clock. A packet may also lack its date and get the server's.
`RequestCut` is the path Send -> engineCutBlocked -> Snapshot. Some definitions
carry the prefix `Cut` so that they can be extended together with those of
`Commands`.

### Sessions

`conns` is the Manager's map, `place[c]` the next step of a session's goroutine,
`sem` the slots. After the shutdown began Accept may still succeed until another
goroutine has closed the listener (`CloseListener`). Critical sections of the mutex are single actions; closing the
previous session happens after the unlock (`ClosePrevious`). A connection reaches
`HandleMessage` with an IMEI; the error paths of parsing, unknown devices, timeouts
and panics all are `EndRun`. `OneImei` restricts a connection to one device.

### DeviceState

One device whose sessions overlap. `mem` is the StateStore's state, a function
from what is watched (a flag of the telemetry, "speeding", being inside a fence)
to its value; `row` is the row of `device_states`, `saves` the snapshots whose
goroutines have not finished. A message runs through the steps of
processTelemetry: `ApplyFlags` (first Update), `EmitStateEvents`, `RecordAlarm`,
`InsertPosition`, `EvaluateOverspeed` and `RecordOverspeed`, `Inside`,
`EvaluateGeofences` and `RecordFences`; `todo[w]` holds the events that an Update
has derived and its session has not recorded. `Restart` loads the row and loses
what was under way; `clean` says that no event was lost so far and every restart
found the state it needed. `log` counts the events of the table. `recordAlarm`
writes OVERSPEED, IGNITION_ON and IGNITION_OFF events of its own, one for every
message with the alarm; what tells them from derived ones is the alarm in their
metadata, and `alarms` counts those. Left out are the alarms whose events nothing
else writes, and values from which nothing is derived.

### Presence

One device, its row (`status`, the age `seen` of `last_seen_at`) and its sessions.
Ages take the place of instants: `Tick` makes everything older and stops counting
where the code stops telling apart. `online[o]` is the status a `Device` object
carries in memory; the cache and several sessions may hold the same object, and
one that nobody holds is collected. A session goes through `ResolveDevice`,
`GetByIMEI`, `CacheDevice`, `Touch`, `Write`, `Online`. The sweep is one SQL
statement that reads (`SweepSnapshot`) before it locks and updates (`SweepUpdate`):
under READ COMMITTED PostgreSQL looks again at `d.status <> c.next_status` with the
row as it is now and the status computed before.

### Registry

A row is the number of edits it went through and, for a device, its IMEI, the key
of the cache. Sessions fill the caches (`CacheDevice`, `Recache`, `CacheVehicle`),
handlers change a row and then invalidate, one entry at a time (`Invalidate`), or
reload the fences (`List`, `Install`). `late` and `missed` are history: an entry
was filled, or an update done, with a row that had changed since it was read; the
last reload failed or installed an older list.

### Framing, Protocols, Gt06, H02, Tkstar, Wire, Adapters

`Framing` has the four framers: where a frame of a GT06, an H02, a TKSTAR or a
captured V4 ends, which bytes are dropped before it, and when more have to come.
`Protocols` has what the parsers share: the decoded message, fields, coordinates,
IMEIs. Coordinates and speeds are integers in the unit the wire carries them in.
`Gt06`, `H02` and `Tkstar` recognise and decode, byte for byte where a property
looks: markers, lengths, the CRC, BCD digits, the acknowledgement. The encoder of
the simulator takes speeds in tenths and rounds and clamps them to a byte. Timestamps are
kept as the digits read; a time zone or an impossible date is not.

`Wire` is one session. Its device sends a stream built of items (frames,
separators, noise); `Read` takes the next bytes of it, as many as it likes up to
`readChunk`, and does all that `session.run` does with them: the buffer limit,
detection, and the loop of `process`. `Turn` is one turn of that loop, `Cut` as
many turns as the buffer has bytes (a turn that goes on takes at least one).
`session.talk` is what was said so far: acknowledgements, messages handled, the
device, and why the session ended. `fault` makes the first or second Send fail, or
HandleMessage reject the session there or return another error, which is logged
and changes nothing. `Wire` takes detection and parsers as
parameters, `Detects` and `ParseFrame`; `Adapters` supplies those of the three
protocols, and `MaxMessages` bounds the messages of one frame (every adapter
returns at most one).

### Hub

Two instances joined by Redis. `clients` are the maps, `channel[c]` the buffered
channel of a client and whether it is closed, `busy[s]` the broadcast a goroutine
is in. The read lock is the condition `Unlocked` of everything that takes the
write lock. `panic` records a send on a closed channel or a second close.

### Auth

A pair of tokens is one number: its refresh token is a row, its access token is
valid until it expires. A tab runs from one await to the next; `call[t][r]` is a
request of a tab, `flight[t]` its refreshInFlight together with the server's side
of it. An answer that never comes stands for a network error and for a 5xx.
`orphans` are refreshes and logouts that a reload or a lost answer abandoned before
the server saw them: it may still serve them (`ServeOrphan`), at any later time.
A refresh that fails clears the tokens up to three times, in steps that another tab
can come between: `RefreshRefused` is the clear of refreshSession, `GiveUp` the one
of each call that awaited it, and the first call of a page clears once more in its
own catch (`Throws`). Of the same tab nothing comes between the first two
(`Settling`), which are continuations of one promise.
Pairs that nobody holds any more are forgotten and their numbers used again, so
that the bound `Pairs` limits only what is held at one time. `Budget` bounds what
the user does.

### Simulator

The state of the device, what each of its three goroutines still has to do, and
the frames on their way in both directions. Speeds are in tenths of km/h, as many
as the console can set; a report says them rounded, in a byte. The server may stop
reading (`Stall`, `Resume`). A write waits for room on the connection until its
deadline; then the frame is lost, the connection stays open, and part of the frame
may have left, so that the next one may be lost with it (`torn`). A command whose
reply is lost is not followed by its report.

Of the server there is what closes a command: the sweep (`Expire`) and `HandleAck`,
which gives a reply to the open command with its key or else to the oldest open
one (`Matched`). `by` records whose reply closed a command. Commands are the texts
that leave, also those of a raw override, which may order something else than
their type or nothing the device knows.

Frames are records: that the other side reads the same in their bytes is
`CodecAssumption` of `SimulatorCodec`, which TLC evaluates with the encoders and
decoders of `Gt06` for every frame of the instance. Left out: a speed that is not
a number, and overrides whose first word, which some replies repeat, is one that
`failedResponse` takes for a failure.

## 3. Runs

| Run | Instance | Result |
| --- | --- | --- |
| `commands` | 2 rows, a keyed and a text device, 2 keys, 2 replies, 1 fault | OneOutcome, AcknowledgedByOneReply, AnswerIsTrue and the refinement KeepsContract hold |
| `commands_live` | 2 rows of a keyed device, 1 reply, 1 fault, fairness | SentCloses and FaultFreeCloses hold |
| `engine_cut` | speeds at the limit and above it, clock errors -1, 0, 1, 3 rows in any order of arrival, dated or not | NewestFixDecides, LastWordDecides hold |
| `engine_cut_buffered` | the same with a speed on each side of the limit and 2 rows | CutIsFresh is violated |
| `sessions` | 3 connections, 2 devices, 2 slots, 1 request, fairness | the map, the limit, ReplacedEnds and ShutdownDrains hold |
| `device_state` | 2 sessions, 4 kinds of message, 3 messages, 2 flags, a fence, alarms of speeding and of the ignition, 1 fault | RulesBalance, FlagsBalance hold |
| `presence` | 2 sessions, every row a restart can find, 1 failed touch, fairness | NeverLowersAContact, SilentGoesOffline, TalkingStaysOnline hold |
| `registry` | a session, 2 requests, 2 IMEIs, fairness | EntriesAreCurrent, FencesAreCurrent, EditsTakeEffect, BindingsTakeEffect hold |
| `wire` | streams of all protocols, clean or with a fault, every cut into reads | NothingInvented, CutsDoNotMatter, CleanStreamsAreServed, AcksAnswerMessages and the bound of the buffer hold |
| `hub` | 2 instances, 2 publishers (2 messages from A, 1 from B), their bridges, one panel at A, a channel of one message, fairness | NoPanic, OnceAndInOrder, BroadcastEnds, LaggardLeaves hold |
| `tokens` | 2 tabs, 3 pairs held at a time, 2 logins, fairness | OneSuccessor, StoredIsUsable, DroppedForAReason, RequestsEnd hold |
| `simulator` | a moving vehicle, 2 commands, 1 line typed, timeouts, a server that stops reading, fairness | OutcomesAreTrue, ViewConverges, CommandsAreAnswered, CommandsAreObeyed hold |

What some of them say, because the statement is not the obvious one:

* `AnswerIsTrue` says nothing of a request that ended in an error: a reply handled
  before MarkSent makes MarkSent fail and the answer 400, although the payload
  left.
* `NewestFixDecides` is what is left of CutIsFresh when fixes wait in a buffer: the
  row that allows a cut came in recently and was slow, and no row that the server
  knew was taken later, whatever the error of the device's clock and the order of
  arrival. Only a packet without date, which gets the server's, can break the last
  part, and is excepted.
* `RulesBalance` and `FlagsBalance` are about the events that are derived from
  changes; the ones of alarms are counted apart, and may be any number.
* `NeverLowersAContact`: the sweep does not take back a contact that it could see.
  A Touch between its snapshot and its update can be overwritten (`overlap`); the
  next touch repairs it, which is why `TalkingStaysOnline` is a liveness property.
* `EntriesAreCurrent` speaks of the states where no edit and no message is under
  way and no entry was filled late; `EditsTakeEffect` and `BindingsTakeEffect` say
  that the late ones disappear too, with the expiry of the cache.
* `CutsDoNotMatter` compares a session whose protocol is known with one that is
  given the same bytes in a single read. It is about the GT06, whose frames say
  their length, whatever the device sends; about an H02 with a configured binary
  length, and a TKSTAR, as long as their texts and lines end within `maxFrame` and
  `maxTextFrame` bytes (`Fits`). Beyond that the code does make the cut matter: an
  unended text longer than the limit is dropped with all that has arrived, and
  without a configured length, as in capture mode, the whole buffer is the frame,
  which the comment of h02's NextFrame says. On the instance `Fits` holds of every
  stream whose protocol is known. `CleanStreamsAreServed` says that it becomes
  known, except for a stream that opens with an H02 text frame (below).
* `OnceAndInOrder` promises an order only to clients of the publishing instance:
  `forward` starts a goroutine per message.
* `FencesAreCurrent` excepts a last reload that failed or that installed an older
  list (`missed`): nothing corrects it before the next edit.
* `DroppedForAReason` lists the ways a session that the server would still renew
  can be dropped; a tab alone, without a failure, is in none of them.
* `OutcomesAreTrue` compares a verdict with what the device did for the command
  whose reply gave it. That it is the verdict's own command holds until a command
  times out (below).
* `CommandsAreAnswered` is about a server that was never held up, `CommandsAreObeyed`
  about any: the device goes on taking commands although nobody reads its replies,
  because a write gives up.

Bounds. Two rows and two replies are what a race needs: two
calls closing one row, one reply for either of two rows, a duplicate. Two keys
make equal and different keys possible. One fault puts a crash or a failed
statement at every point of a call; the theorems below need no bound on any of
these. Three connections allow a reconnection to overlap with the end of the
session before last; two slots make the limit reachable. Three
messages enter, leave and enter again, over two sessions in any order; the
balance of the events does not depend on the order of the saves, so
`device_state` bounds them to one at a time. In `presence` the limits are the
smallest numbers that keep their order. Two requests of `registry` make any two
edits overlap. `wire` scales the read size, the buffer limit and the longest frame
down together; several complete frames in one read that exceed MaxPacketSize
together, which a configuration may permit, are outside of them. A buffer of one
message is full after one. Two tabs make two refreshes of one token, three pairs the one that is stored, the one a tab still
has in memory and the one being issued. A connection that holds one frame is full
when the next is written; the limit of the relay is 20 km/h, and a vehicle at 20.4
is refused although its reports say 20. Deadlock checking is off where an
instance has finitely many commands, connections, messages or clicks and stops
when they are used up.

Fairness. A Send call that is running executes its statements, timers fire and
the workers' tickers (`runWorkers`) keep sweeping; a goroutine of a session goes
on, and one whose socket is closed leaves its read loop because Read returns an
error. Time passes and a sweep that has work does it. A broadcast goes on, since
its sends never block, and a pump whose socket or channel is closed ends. The
server answers requests or the browser gives up on them. The goroutines of the
simulator take turns at the connection (Go's mutexes do not starve a waiter, and a
write ends by its deadline at the latest) and select chooses among ready tickers
at random. The simulator's server reads while it is not held up; that it goes on
after it was is not assumed. Nothing is assumed of operators,
devices, panels, replies, or faults: a device may stay silent, a panel may never
read, a command may never be answered. TalkingStaysOnline is about a device that
does keep sending: it is the premise of the property.

### Divergences between the code and what it says

One is shown by a violated run, `engine_cut_buffered`: a fix from the offline
buffer is aged by its arrival (snapshot.go:43) and passes for fresh, against the
comment of `Snapshot`. The others are what the passing properties had to leave out:

* A keyed reply whose command is already closed closes the oldest open command
  instead (service.go:315) and is audited with `exactMatch: true`, while
  docs/PROTOCOLS.md says the reply matches the exact command. `Simulator` has the
  timeouts and the fallback; `OutcomesAreTrue` therefore promises that a verdict is
  about its own command only while no command has timed out.
* A message with an overspeed alarm writes an OVERSPEED event each time
  (ingestor.go:371), besides the one of the rule, and an ignition alarm one of the
  ignition, against the comment of `DeviceState.Overspeed` (state.go:22), which
  speaks of one event at the start and one at the end. `DeviceState` has these
  events; the balances are about the others.
* Each Update of the state store saves in a goroutine of its own (state.go:160):
  an older state may be written last and be what a restart loads, although the
  comment there says that the database serves for the next boot; hence `clean`.
* `timeout_at` is stored only after the write (service.go:219); a request
  cancelled in between leaves a SENDING row that no sweep selects, while README.md
  says that without an answer the command becomes TIMEOUT. SentCloses starts at SENT.
* A session that changes its IMEI stays in the map after its end
  (session.go:210), hence `OneImei`; and Register may close the newer of two
  connections (connection.go:184).
* A stream that opens with an H02 text frame and whose first read ends inside the
  identifier is not recognised (h02.go:88), although session.go:18 says
  that fewer than `detectMinBytes` may still be arriving: the comma is there, the
  identifier is not complete, and from eight bytes on the session is ended.
* A refresh that is under way when the user signs out saves its tokens after
  logout cleared them (client.ts:111), although AuthContext.tsx:63 says that the
  local session ends in any case; the next load of the page is signed in.
* Any error of the first call of a page clears the stored tokens
  (AuthContext.tsx:36), also one of the network, while the comment above it speaks
  of refresh tokens that still work.
* `ValidCoordinates` accepts 0,0, which its comment says it refuses
  (coordinates.go:59).
* `quit` closes the simulator's connection and leaves the process running
  (tksim/main.go:363); README.md says it ends.

## 4. Proofs

TLAPS checks every proof from the assumption of the component alone
(`CommandsAssumption`, `HubAssumption`, ...). They say that model values are
distinct, that parameters are naturals or sets of the right kind, and no more,
with three exceptions the code justifies: sessions are finitely many (`Presence`,
`DeviceState` count them), the limits of presence are in their order
(`TouchInterval <= StaleAfter < OfflineAfter`, as touchInterval and the defaults of
config.go are; the code does not check a configuration for it), and a
channel has room for at least one message (`sendBuffer`), as a read has for one
byte. Where a parameter caps a
counter for TLC (`MaxVersion`, `MaxMessages`, `MaxFails`, `Quota`, `Budget`) the
theorems hold for every value of it. `TypeCorrect` is proved of every one of these
components (`CutTypeCorrect`, `WireTypeCorrect` where two share a module), and
every safety property below is a theorem about the specification without
fairness. In each module `Invariance` is the inductive invariant, with one lemma
per action.

`CommandsProofs`. The properties are not inductive: an update that closes a row
is only known to be the first one because of where every call is. `IInv` adds

* `SendInv`: the place of a Send call determines what is on the row and on the
  wire (before the write there is no deadline and nothing was written; SENT and
  TIMEOUT rows have a deadline; only written rows have one);
* `ReplyInv`: a reply belongs to a written command, what it found is a row of the
  same device, and the row it closed still has the ending that it wrote and no
  other reply's;
* `LogInv`: every audited result is backed by the worker's expiry or by the
  reply that closed the row.

From it follow `TypeCorrect`, `OutcomeIsUnique`, `AcknowledgementIsEarned`,
`AnswersAreTrue`, and `ContractKept`: the refinement mapping forgets PENDING,
SENDING and SENT (all OPEN), keeps `wrote`, and counts a reply as used once its
update has matched; every action maps to one action of the contract or a stutter.

Of the engine cut, in the same module: `RowsInv` says that a row has the device's
date or the server's and that rows arrive in the order of their ids; `VerdictInv`
carries what an authorisation saw. `NewestDecides` (`NewestFixDecides`) and
`LastReceivedDecides` (`LastWordDecides`) follow, for every limit, set of speeds,
clock error and order of arrival.

`TcpProofs`, sessions. `SlotsInv` and `PlaceInv` (a session holds a slot exactly while
its goroutine runs) give `TypeCorrect` and `SessionsAreBounded` for every
connection. With the assumption `OneImei`, `MapInv`, `CurrentInv` and `SendInv`
are inductive with them: an entry of the map is a registered session that has
not reached UnregisterConn; a registered session with an open socket is in the
map or some Register call is about to close it; and a session's identity never
changes once it is set, which is why a stale lookup still writes to the right
device. `MapIsLive`, `ListedSessionsAreCurrent` and `PayloadsReachTheirDevice`
follow. The assumption is needed: a session registers once, under its first
IMEI, and UnregisterConn looks under its last one.

`TcpProofs`, the read loop. `CutsDoNotMatterHolds` and `WireTypeCorrect` hold for
any streams of bytes (`StreamsAssumption`), any sizes that are not zero
(`SizesAssumption`), any fault, and whatever `Detects` and `ParseFrame` answer. The
argument is about the loop before it is about behaviours:

* `FramerAdvances`: on a buffer that is not empty every framer of the registry
  asks for more or takes at least one byte and no more than there are. So no
  session ends as stuck (part of `WireTypeOK`), and the loop comes to rest within
  as many turns as there are bytes (`TurnsRest`).
* `FramerKeeps`: what a framer answers to a buffer it also answers when more bytes
  follow, or it has dropped bytes that it drops then too. The cases are those of
  the code: half a GT06 delimiter is kept (`Gt06Keeps`), an unended text is not
  taken for noise while it keeps to the limit (`H02Keeps`), separators may be
  skipped in one go or in several (`TkstarKeeps`).
* `CutGrows` and `CutLands`: therefore, where the loop rests on a part of the
  stream, going on with the rest is the same as starting over with both together.

`WireInv` is the inductive invariant: a session that is being read holds what the
loop leaves of the bytes read so far (`Served`), with a buffer within its bound,
or has ended for one of the known reasons. `Read` preserves it by
`ReceivedServes`. `Turns` and `dispatch` are recursive functions over naturals;
their defining equations and the inductions over them are derived from the
existence of a least element, as `NatSetInduction`, an induction over sets of
naturals, which needs no operator as a parameter.

`DeviceStateProofs`. That events balance to the state is nearly inductive once an
event counts from the moment it is derived: `Tally` adds the sessions that hold an
event to the log and takes the ones of alarms away, so that recording moves it and
changes nothing, and an alarm adds to both counts. An Update then
has to change the state and the tally alike, for which two facts are needed.
`TodoInv`: a session derives events only when it has none left to record, so a
second derivation never merges with the first. `RuledInv`: what a rule watches is
TRUE or FALSE in memory, in the row and in every save between them, so that a
restart cannot load a value from which no event follows. `RulesBalanceHolds` and
`FlagsBalanceHolds` follow for any sessions, messages, flags and fences.

`PresenceProofs`. What the sweep sees is not when the device was last heard:
touch writes nothing for TouchInterval after it last wrote. `Bounded(x, ..)` says
that the row is at most x old or that a statement which makes it so is about to
run. `TouchInv` states it of the age of `lastTouch`, `HeardInv` of the last message
plus TouchInterval, and `SweepInv` keeps, between the sweep's snapshot and its
update, that the row is old unless a touch came in between. They give the action
property `NeverLowersAContactHolds`. `TypeCorrect` rests on a pigeonhole: the cache
and the sessions hold fewer objects than there are, so GetByIMEI always finds one.

`RegistryProofs`. While handlers are at work a cached entry may be old, so the
invariant says who will put it right: `EntriesInv`, a request that still has the
key of that entry to invalidate; `FencesInv`, a request that is still to read the
list or that has read the current one and is to install it. `KeysInv` (an entry is
under the IMEI of its device) is why invalidating the old and the new IMEI is
enough. `EntriesAreCurrentHolds` and `FencesAreCurrentHolds` are the case where no
handler is left.

`HubProofs`. `ClientsInv`: a client in a map has an open channel, and a broadcast
under way, which holds the read lock, offers its message only to clients of its
map; `NoPanicHolds` follows. For `OnceAndInOrderHolds` one has to know where a
message can be. It is with its publisher, then with the goroutine of forward, then
in the feeds, then with one bridge of each other instance: `PublisherInv`,
`GoingInv`, `FeedInv` and `BridgeInv` say that it is at one stage at a time and that
no panel has it before its own stage, `TodoInv` that a panel a broadcast has yet
to serve has only earlier messages of that publisher.

`AuthProofs`. A pair is `Pending` from its issue until the answer is taken: the
server would renew it, it is not stored and no request presents it, abandoned ones
included. `PendingInv`
says so of every answer under way and that no two carry the same pair; `SpentInv`
that a consumed token is in the hands of one request and has no successor yet;
`StoredInv` where a revoked stored token comes from; `DeniedInv` that only dead
tokens are denied, and that the token a tab presented is not stored again once the
tab has cleared it, so that what the second clear drops is another tab's.
`OneSuccessorHolds`, `StoredIsUsableHolds` and the action
property `DroppedForAReasonHolds` follow for any tabs, calls and pairs.

`SimulatorProofs`. `DownInv`: a command on its way to the device was sent once and
is not applied yet. `DeedInv`: what the device did is one of the answers
`applyCommand` has for that text. `ReplyInv`: every reply, from the moment a
goroutine holds it until the server reads it, says what the device did for its
key, although relay and speed may have changed in between. `OnceInv`: a reply is
under way once and has closed nothing yet, and its command is still open unless
one timed out; so only then can the fallback of HandleAck close another.
`VerdictInv` is the same of the verdicts, and `OutcomesAreTrueHolds` follows for
any commands and texts, speeds, lines typed, stalls and deadlines.

Left to TLC:

* Liveness, since fairness and ENABLED are out of the prover's reach: SentCloses,
  FaultFreeCloses, ReplacedEnds, ShutdownDrains, SilentGoesOffline,
  TalkingStaysOnline, EditsTakeEffect, BindingsTakeEffect, BroadcastEnds,
  LaggardLeaves, RequestsEnd, ViewConverges, CommandsAreAnswered,
  CommandsAreObeyed.
* What the bytes of the instance's frames mean: NothingInvented,
  CleanStreamsAreServed and AcksAnswerMessages compare what was handled with what a
  device meant by frames written out in `MCWire`, and rest on the decoders, whose
  module uses Bitwise. So does `CodecAssumption`.

## 5. Not modelled

* The wording of payloads and replies, HTTP routing, metrics, logs, the SQL of
  reads, parsing of the configuration: no state that another part depends on.
* Histories (paging, sampling, simplification) and distances: read-only
  computations in floating point, which TLC does not have.
* Users and roles: single statements and one comparison.
* The command encoders of h02 and tkstar: each formats one line.
* The views of the frontend and the reconnection of `useRealtime`.
* Time is reduced to what the code compares: before or after a deadline, ages in
  units.

## 6. Plan

1. Done: the components above, and the proofs of the types and of every safety
   property of `Commands`, `EngineCut`, `Sessions`, `DeviceState`, `Presence`,
   `Registry`, `Hub`, `Auth` and `Simulator`, and those of `Wire` that do not
   depend on what a frame means.
2. The start of the process (migrations, the first user), and the reconnection of
   the panel's socket.
