# Verification of the Philips Avent bridge and integration

This directory holds TLA+ models of the program in this repository, the TLC
configurations that check them on small instances, and proofs that TLAPS checks
for instances of any size. `PROJECT.json` lists the components, the runs with
their properties, the mutants that show each property to have teeth, the source
lines behind every definition, the findings, the hazards and the theorems.

    tlc -config MCWaiter.cfg MCWaiter     # one of the runs
    tlapm BridgeProofs.tla                # one of the proof modules

## The system

A baby monitor speaks WebRTC, signalled over Tuya's MQTT broker. Two programs
make it a camera of Home Assistant:

* the **bridge** (`avent-webrtc-bridge`, Go): an RTSP server that opens a WebRTC
  session to a camera when the first viewer asks for it, forwards its RTP
  packets to all viewers and closes it some time after the last one left;
* the **integration** (`custom_components/philips_avent`, Python): logs in to
  the Tuya cloud, follows the monitor's data points by cloud polling and by a
  LAN session, writes the configuration files the bridge reads;

and a shell script (`aventproxy-bridge-addon/run.sh`) that waits for those files
and supervises the bridge.

### Components, their state and what makes them correct

| Component | State | Hard part | Correct when | Modules |
|---|---|---|---|---|
| Waiter (`pkg/utils/waiter.go`) | task counter, outcome | callbacks that race and repeat | first outcome wins, nobody passes early or hangs | `Waiter` |
| RTSP server and streams (`pkg/rtsp/server.go`) | maps of streams and clients; per stream: clients, active, connecting, bridge, timer | six kinds of goroutines, two levels of locks, both held across waits | no viewer without a live stream, no stream without viewers, the server answers | `RTSPServer` |
| RTSP methods, forwarder, ports (`protocol.go`, `forwarder.go`, `ports.go`) | transports of a session, entries of the forwarder, sockets | SETUP takes no lock and the bridge changes under it | media goes where the client asked, sockets are released | `MediaSession`, `RtpForwarder` |
| MQTT manager and client (`mqtt_manager.go`, `tuya/mqtt.go`, `mqttCamera.go`) | a client per camera, sessions by id | the broker keeps one connection per client id | an answer reaches the session that asked, no connection is left behind | `Signalling` |
| WebRTC bridge (`bridge.go`) | peer connection, data channel, waiter, pending candidates | callbacks race with Start and Stop, mostly without locks | Start ends, candidates are kept, a failure ends the stream | `BridgeHandshake`, `Signalling`, `RTSPServer` |
| Coordinator (`coordinator.py`, `select.py`, `button.py`) | data points, lullaby hold, poll timer | awaits between read and write | an older value never replaces a newer one for good | `Coordinator` |
| LAN client (`lan.py`, `lan_policy.py`) | session task, versions, failures, clocks | cancellation, blocking calls, a silent camera | a dead session is noticed, odd frames do not cost a good one, none after stop | `LanClient`, `LanPolicy`, `LanSession` |
| Alert events (`events.py`, `binary_sensor.py`) | last record, reset timer | records repeat, come late and overlap | each event is shown once, for its time | `AlertSensor` |
| Config flow, regions, cloud login (`config_flow.py`, `region.py`, `api.py`) | candidates of the probe, session, code | several data centers, expiring codes, lost calls | an entry belongs to the login that was confirmed | `LoginFlow`, `CameraDiscovery` |
| Setup and bridge files (`__init__.py`, `payload.py`) | entries, files | executor threads, crashes | leftovers go, live files stay | `ConfigFiles` |
| Supervisor and add-on command (`run.sh`, `cmd/addon`) | configuration in use, child process | a shell under `set -e` next to the writer of its files | the bridge runs on the newest configuration, each camera on a path of its own | `AddonBridge`, `RtspPaths` |
| Storage, `auth`, `cameras` and `direct` commands, web portal (`manager.go`, `auth.go`, `cameras.go`, `direct.go`, `tuya/api.go`) | a file per user, one of all cameras | several processes, no locks, a write is two steps | a list of cameras comes whole, no command loses another's | `CameraStore` |
| Signatures, media parsing, entities, tools | little or none | | | not modelled, see below |

Interaction: the RTSP server calls the bridge (Start, Stop) with the stream's
mutex held; the bridge calls back through OnError from goroutines of the WebRTC
library and of the MQTT client; it waits on a Waiter and gets its MQTT client
from the manager; the integration meets the bridge only through files and the
RTSP URL. Inside the integration, the LAN client calls the coordinator, which
calls the sensors.

## Modules

| Module | Uses | Theorems in |
|---|---|---|
| `Waiter` | | `BridgeProofs` |
| `RTSPServer` | implements `CameraSession` | `RTSPServerProofs` |
| `MediaSession` | extends `RtpForwarder`, implements `CameraSession` | `MediaSessionProofs` |
| `BridgeHandshake` | | `BridgeProofs` |
| `Signalling` | | `BridgeProofs` |
| `Coordinator` | | `CoordinatorProofs` |
| `LanClient` | extends `LanPolicy`, implements `LanSession` | `LanClientProofs` |
| `AlertSensor` | | `AlertSensorProofs` |
| `LoginFlow` | extends `CameraDiscovery` | `LoginFlowProofs` |
| `AddonBridge` | extends `ConfigFiles` and `RtspPaths` | `AddonBridgeProofs` |
| `CameraStore` | | `AddonBridgeProofs` |
| `MC...` | instances for TLC | |

`BridgeProofs` and `AddonBridgeProofs` extend several components at a time. So
that their names do not meet, those of `Waiter`, `BridgeHandshake` and
`CameraStore` begin with the component's where they would (`WaiterInit`,
`HandshakeNext`, `StoreSpec`).

What one module finds, another takes over as a choice: that a Wait may return
without the error of its Done is a behaviour of `Waiter`, and `RTSPServer`,
`Signalling` and `BridgeHandshake` let a failed start pass for a success.
`RTSPServer` follows the streams and their locks, `MediaSession` one stream and
what its sessions do to the forwarders, `BridgeHandshake` one Start of one
bridge, `Signalling` the bridges of several streams up to the answer.
`Coordinator` sees the LAN session only as `LanSession` promises it.

The definitions that PROJECT.json lists under "mutants" (`NeverDue`, `KeepOld`,
...) are not part of a model: each is the form one of its definitions would take
after a plausible bug, and the property listed with it must then fail.

### Waiter

`Add`, `Wait`, `WaitChan` are one step each. `Done` is two (`DoneBegin`,
`DoneEnd`): it wakes the waiters before it stores the error. `WaitReturn` reads
the error without the mutex, as the code does. `MaxTasks` bounds `Add`.

### RTSPServer

A critical section that cannot block is one step. A lock whose holder waits for
something is a value: `smutex` names who holds `RTSPServer.mutex` (a connection
in getOrCreateStream or removeClient, the sweep, Server.Stop), `csmutex[i]` the
startStream goroutine that is inside `WebRTCBridge.Start` with the stream's
mutex held. `Free(i)` guards every other critical section of stream `i`.

* A connection (`cpc`) goes Ask, ReuseStream or MissStream and CreateStream or
  RefuseStream, AddToServer, Join, Depart, BeginRemove, EndRemove:
  handleConnection with the calls it makes.
* The startStream goroutine of the client that found the stream at rest (`spc`)
  goes CheckStart, Attempt, SendOffer, then StartSucceeds or a failure and the
  second attempt, then GiveUp.
* A bridge answers (CameraAnswers) or fails (BridgeFails, CallOnError,
  HandleBridgeError, CloseClient). `outcome` is what its Waiter was finished
  with. A failure may let Start pass (StartSucceeds needs any outcome).
* TimerFires and Shutdown are the shutdown timer and its callback, RemoveStream
  the asynchronous removal, Age the passing of five idle minutes, BeginCleanup
  to EndSweep the loop of the sweep or of Server.Stop.

`CameraSession` is what the server promises of its bridges: one belongs to one
stream, connects at most once and is not used again after its attempt failed or it
was stopped, and a stream is shown exactly while its bridge is up.
`ImplementsCamera` says that the server keeps it. The life of a bridge is `unused`
before `replaceBridge` or the creation of its stream, `ready` while its stream may
attempt it (`AtHand`: it is the stream's, and no attempt was made or one is under
way), `up` while it is connected, then `spent`.

Booleans of streams and bridges are sets. `handlingError` is not modelled: it is
set and cleared in one critical section. The race of HandleDisconnect with Stop
is the choice in StopBridge. A call of an OnError that was cleared after its
check ends the process; the model does not go on from there.

Bounds: a connection connects once; `Stream` and `Bridge` bound how many
instances are created; one handleError of a bridge is under way at a time; no
client waits five minutes between getOrCreateStream and AddClient (Age).

### MediaSession and RtpForwarder

One stream until it has left the server's map, its sessions, and the forwarders
`fwd[b]` of the bridges it goes through. `RtpForwarder` is what a forwarder keeps
for a session (an entry with the dialed ports or the channels, and the pair of
listeners of the return audio) and the operators on it (`AddUDPClient`,
`AddTCPClient`, `Destination`), and the allocation of a port pair next to
processes outside of the bridge (`ConsecutivePorts`).

A SETUP takes no lock, so `SetupUDP`, `SetupTCP`, `SetupBackchannel` and
`RefuseBackchannel` act on the forwarder of the bridge that is current at that
moment, also in the middle of an attempt (`BeginAttempt`, `AttemptSucceeds`,
`AttemptFails`, `GiveUp`). `Hangup` is TEARDOWN or the end of a connection,
followed by `RemoveClient` and `ForgetSession`; `DropDeadClient` is a failed
write; `BridgeError`, `Shutdown`, `StopBridge` and `RemoveStream` are the stream's.
`asked` records what the last SETUP of each track was answered, `redone` the UDP
tracks that were set up again, `ended` the bridges stopped after they were
connected. `SentAsAsked` looks at the forwarder of the bridge the stream holds, so that
the bridge a retry left behind does not count: an entry made by the first SETUP on the
new bridge must have the tracks of the earlier ones. A session uses one transport and
names valid ports. The `started`
guard of BridgeError lets errors come later than the code would. The module leaves
out the locks and callbacks that `RTSPServer` has; that it treats its bridges no
differently is its own `ImplementsCamera`, with the same `CameraSession`.

### BridgeHandshake

One Start from the answered offer. `peer` and `channel` are the states of the
WebRTC library's objects; `calls` the callbacks whose goroutine has not run yet,
in no order, as the library starts one goroutine per state change; `toCamera` and
`toBridge` the ordered messages of the data channel, of which `Loses` drops one
when its transmissions are used up. `OnMessage` is the channel's callback with
`probe`. `StartReturns` frees the stream's mutex, which `Reacts`
(handleBridgeError, with Stop) waits for. The camera and the library are
external: it replies, streams, hangs up, or says what cannot be read.

### Signalling

A client is the number of its connection. `live` is the connection the broker
keeps: a `Dial` replaces it, since every client of the account uses one client
id; `routes` and `inbox` belong to it. A stream goes from `Begin` through GetClient
(`Reuse`, or `Connect` with `Dial`, `DialFails`, `Joined`, `JoinFails`,
`UserInfoFails`; `holder` has the manager's mutex) to `SendOffer`, waits for the
answer, is shown (`Established`) and stopped. A failed attempt is repeated once;
a retry that got no client makes one of its own (`private`). `Consume` handles
one message at a time, `OnDisconnect` is the library's callback. `ManagerStops`
is the server's stop. Streams are HD: the connection ends their start.

### Coordinator

Home Assistant runs the integration on one event loop, so a step is what happens
between two awaits. Of the data points the model keeps the lullaby state (held
before it is shown), a setting with a select entity (written a second time after
set_dps) and the alarm record (0 for "never reported", left to the poll, as on a
session that speaks protocol 3.3).

* `LanPush` is `_on_lan_dps_update` with `_hold_lullaby_state`; `CommitLullaby`
  the timer's callback. `held` is the age of `_pending_lullaby_since`.
* A poll is `PollStart` (choose the interval, ask), `CloudAnswers` (the cloud
  reads its copy) and `PollApplies`, `PollFails` or `PollRejected`. Between the
  answer and its use lie the network and the RSSI call.
* A command is `Command`, then over the LAN `LanDelivers` (or not: tinytuya does
  not report a lost command) and `LanReturns`, then `CloudReturns`.
* `FirstRefresh`, `AddEntities`, `RemoveEntities`, `StopLan` follow the config
  entry. A refused login during the set-up is not followed further.

Outside of the code are the monitor (`CameraChanges`, `CameraRepeats`), the
cloud's copy (`CloudSyncs`) and the LAN session, here only up or down. Home
Assistant's DataUpdateCoordinator is modelled as the code uses it: it polls only
while it has listeners, one poll at a time; `async_set_updated_data` starts the
interval anew; a failed poll is repeated, a refused one is not. `report` is a
history variable. `MaxChanges`, `MaxCalls` and `MaxDrops` bound the monitor's
changes, the user's commands and the losses of the session. A tick does not pass
over a due timer: the event loop is prompt.

### LanClient, LanPolicy and LanSession

`pc` is the await at which `_run` is suspended. A receive and a heartbeat take one of
`Durations`, whether they succeed or fail, in which the camera may do anything: go
away, come back at another address, close its end of the session, get other firmware.
A call that fails (`Raises`, `ReceiveError`) leaves the client at `raised` or
`garbled`, still showing the session, until `LoseSession` drops it. tinytuya may raise
on a good session too, over a frame it cannot decode, so `OddFramesForgiven` is about
frames it hands over as error frames and names the other ways out. `todo` are the
versions `_connect_at_any_version` has yet to try. Stop comes at any await; a thread
that is connecting then goes on and its result is dropped. `Command` and its ends are
set_dps, which uses a socket of its own from another thread. `deadFor`, `odd`,
`attempts` and `pushes` are history variables: how long a session has been dead
unnoticed, the unreadable frames of this session, the attempts since the last pause,
the pushes delivered. `LanPolicy` has the decisions of `lan_policy.py`; `LanSession`
is what the coordinator is promised, and `ImplementsSession` says that the client
keeps it (`life` is `task`, `up` is `connected`).

### AlertSensor

A camera has one slot for its last alarm, the cloud a copy that lags by at most
`Lag`, and every poll and push calls both sensors (`Listen`), which see the same
record again and again. Timers are ages. `Restart` forgets everything the
sensors know. `reported`, `fired` and `waiting` are history variables.

### LoginFlow and CameraDiscovery

`pc` is the form shown or the call awaited. A flow is the credentials form, the probe
of the data centers in `todo` (the country's first), the code that is sent and typed,
and the entry; a reauthentication (`target`) updates one. Every call may fail with a
code of Tuya or for want of a network. Accounts live in one center; a gateway accepts
any login and names that center. While the probe asks it, the account's own center
never says that the account is not there; the calls of the form of the code may be
refused with such an answer by any center, and the form then shows wrong_region
(`CodeFormErrors`). `mailed` tells which code is still good. `CameraDiscovery` is
discover_cameras: the lists `<<kind, home>>` asked one after the other, with the
strategies that depend on what was found before.

### ConfigFiles, RtspPaths and AddonBridge

Setup of an entry goes through `created`, `write`, `half` (the file is truncated and
not yet written), `written`, `prune`, `loaded`; removal through `unlink`. A crash of
Home Assistant comes between any two steps. `recent` orders the files by their
modification. In `AddonBridge`, `box` is where run.sh stands and `bridge` what its
child process does; the version of a file counts its changes, and `Json` says what is
written for each. run.sh runs under `set -e`: a command that fails outside of a
condition ends the container. `hash` is the version that was hashed, and run.sh
compares what the two versions are written as (`Md5`): options set back give a version
that is written as an earlier one. `Changing` bounds which entries are edited. The
pauses of run.sh have no length. The container is started once (`MaxStarts`); with
`HasOptions` the options file exists, as it does under the Supervisor. `RtspPaths` is
assignPaths, on paths made of the parts that `_` joins; an id, its first six
characters (`short`) and a number are parts without a `_`. `Numerals` are the numbers
a path may end in: the code counts on for ever, so there are as many as the list of
cameras can need.

### CameraStore

The bridge's data directory and the commands that change it, each a process of
its own. `proc[p]` has the place of a command and what it holds: the user it
works for, the cameras it found, the copy of the registry it read. A write is two
steps, since os.WriteFile truncates first (`SaveUser` and `StoreUser`,
`OpenRegistry` and `SaveCameraRegistry`); `Written` is what comes of a write over
one that another process made meanwhile. UpdateCamerasForUser is `LoadRegistry`
and the two steps of its save. A file may be absent, empty, garbled or whole.
`userKey` is the name of a user's file, which two e-mails may share. Every request
may fail (`down`, `Reply`), a disk be full (`StoreLost`, `RewriteFails`), a
process be killed. ListUsers reads all users at once. `reports`, `latest` and
`disturbed` are history variables; `MaxCommands` bounds the commands.

## Runs

| Run | Instance | Shows |
|---|---|---|
| `waiter` | 2 waiting, 3 completing goroutines, 2 tasks | no early return, no second finish, no hang |
| `server` | 2 connections, 2 streams, 2 bridges, Server.Stop | bridges, timers and viewers stay consistent under every failure; each bridge connects once, as `CameraSession` promises |
| `server_live` | 2 connections, 1 stream, 2 bridges, the idle sweep, a camera that answers | the server's mutex always comes free, unwatched streams stop, the sweep spares viewers |
| `coordinator` | 1 command, 1 change, 1 lost session; settling 2, polling 2 or 3 ticks | reports are shown only settled and never forgotten; at rest the entities tell the truth |
| `lan` | 2 addresses, 2 versions, 2 firmwares; heartbeat 2, data timeout 2, 2 payload errors, blocking calls of 0, 1 and 3, 1 push | dead sessions are noticed, odd frames forgiven, the monitor is not hammered, the client keeps the promise of `LanSession` and comes back |
| `alerts` | 7 ticks, alerts of 1, age limit 6, polls of 1 and 4, lag 1; 3 alarms, 1 push | an alert is shown once and for its time, an alarm that stays in the slot reaches its sensor |
| `login` | 3 data centers, one a gateway, 2 accounts, 3 countries, 2 homes in 5 layouts | the password is not spread, the probe finds the account, an entry stems from one login, no camera is missed |
| `addon` | 2 entries, one edited and then set back, 1 crash, 1 container | a path per camera and no camera left out, leftovers go, a bridge behind its file is replaced unless the file was set back |
| `media` | 2 sessions with 2 and 1 SETUPs, 2 start attempts, 2 bridges, 2 server ports, 1 other process | the current bridge sends media where the SETUPs were answered, also after a retry, no socket outlives its session; the bridges are used as `CameraSession` promises |
| `signalling` | 2 streams of a camera, 2 clients, 2 attempts of GetClient, 1 cut, 1 candidate | no connection is left up that nobody keeps, no stream stops a client it shares, an offer over a connection that lasts is settled |
| `storage` | 2 commands at a time, 3 in all; 2 accounts whose files collide, 1 direct account; 3 devices, 2 of them cameras | a user's list is one that was handed over under his key; without overlap or a cut the registry keeps every user's last list |
| `handshake` | 3 kinds of stream, 1 lost message, 2 packets on the way | Start ends, on a session that can carry media, and a session that breaks ends its stream |

Two connections, streams or sessions are enough for one to be in the middle of
each operation while another does anything else to what they share; two bridges
for a retry or a restart, two MQTT clients for one to take the connection of the
other. The periods keep the order of the real ones (fast poll before slow poll,
heartbeat no longer than data timeout, a blocking call longer than either) and leave a
moment before, at and after each limit. Two entries make one another's
leftovers; three versions, the last written as the first, make a file older or newer
than what was read, or the same again. One
loss, crash or cut is enough to hit each step, since it may come at any of them,
and the properties are proved for any number. Two commands are enough for one to
come between any two steps of another, and the third reads what they left; the
accounts a.b@c.d and a_b@c.d share a file. In `server_live` a connection that finds
no stream left to create is refused, as when the broker is down.

Every module's type invariant is a theorem and a run need not repeat it; those of
`AddonBridge` are parts of its invariant, up to the length of `recent`.

Deadlock is checked only in `login`, where a form is always open again in the
end. Elsewhere the programs come to rest: connections end, the entry is unloaded,
the bounds are used up.

### Fairness

* `Waiter`, `RTSPServer`: `Run` is the disjunction of the program's own steps. Go
  schedules runnable goroutines, timers fire, GetClient gives up after four
  attempts: weak fairness of `Run` says that the program takes a step while it
  can. It is weaker than fairness of each goroutine and enough here, because a
  connection connects and leaves once and no behaviour goes on for ever.
  Connections need not leave unless the server closed them, and no failure is
  forced. `ResponsiveSpec` adds that the camera answers an offer, `TickingSpec`
  that five minutes pass and the half-minute ticker ticks.
* `Coordinator`: time passes, timers run, what is on the wire is handled,
  requests return, the cloud takes over the monitor's state. Strong fairness of
  `CloudAnswers` says that a cloud that is asked again and again answers again
  and again; a single poll may fail, and a refused login ends the polling, so
  `Converges` does not ask anything after it. The session may stay down. `Chatty`
  would let the monitor repeat its state without end.
* `LanClient`: the task goes on after each await, since asyncio resumes it and
  every blocking call has a timeout; strong fairness of `ScanFinds` says that the
  broadcasts of a camera that stays up are heard some time. `Reconnects` asks it
  only for a camera that stays up and speaks the default version.
* `Signalling`: goroutines run, dials and subscriptions end, a connection that was
  cut is noticed by its keep-alive, the camera answers what it can be sent.
* `BridgeHandshake`: callbacks run, Start and handleBridgeError get the mutex, the
  camera replies, a disconnected connection comes back or is given up (the
  library's timeout), a channel that may open again and again does.

`AlertSensor`, `LoginFlow`, `AddonBridge`, `MediaSession` and `CameraStore` are
checked for safety. `AlarmReachesSensor` bounds a time instead: the clock is a variable.

## Proofs

Every safety invariant and action property of the runs is a theorem, for any values of
the constants that satisfy the named assumptions. `OutcomeWasReported` in `Waiter` and
`ShownBridgeStays` in `RTSPServer` are theorems that no run repeats; the second also
follows from `CameraSession`. Four more, `MessagesGetThrough`, `BreaksAreNoticed`,
`WaitsHaveAnEnd` and `NoCircleOfLocks`, are about liveness properties that only TLC
can check: they say, for every value of the constants, that what those properties wait
for is under way and not lost.

`BridgeProofs` has the three levels of a camera's session.

* Signalling. `NoZombie` and `SharedClientSpared` are about clients that several
  streams may hold. The invariant says who holds what: the manager's mutex belongs
  to the stream that dials for the manager (`Mutex`), which overwrites no client
  that is up (`ReplacesDead`); the manager's table has only clients that were made,
  and none a bridge made for itself (`Table`); a stream has a client exactly from
  its dial to its end (`Owned`); one that is still joining, or private, has one
  holder (`Exclusive`).
  `MessagesGetThrough` is the safety core of `OfferSettled`. For every stream that
  waits for its camera, or is shown, over the connection that carried its offer, the
  session is routed, and what the camera said is what its bridge has taken (the
  candidates that came before the answer in `pending`) followed by what is still in
  the inbox, in order and each once (`Delivered`). That needs that a bridge that has
  not sent its offer is untouched (`Fresh`), that no message belongs to a session
  still to come (`Numbered`), and that a client that a stream is given has subscribed
  or never will (`Subscribed`: no stream is heard only after its camera spoke). Two
  layers keep the proof small: lemmas about one list of messages (`TakesAnswer`,
  `TakesCandidate`, `PublishesAnswer`, ...), and one about all the steps by which a
  stream leaves its bridge (`Restarts`). Assumed: `SignallingAssumption`.
* Handshake. `ShownIsReady` needs that one message of the exchange is under way
  until the camera streams, the opening of the channel counted, so that complete
  follows recv (`Exchange`), that nothing succeeds before the connection is made
  (`Connected`), and that recv has told the media's numbers before the waiter of
  an HEVC stream is settled (`Ready`).
  `BreaksAreNoticed` and `WaitsHaveAnEnd` say that a session that broke has a report
  under way to a stream that listens (`Noticed`, `Heard`), and that a Start waits for
  the connection's callback, or for an opening, a message or an error that is under
  way (`Settling`, `UnderWay`), because complete is sent only when the wait is over
  (`Complete`). Assumed: `HandshakeAssumption`.
* Waiter. The WaitGroup counts what the task counter counts (`CounterAgrees`), a
  goroutine inside Wait has a task registered or the last Done is about to finish
  (`BlockedHasTask`), and the mutex's holder is inside Done (`HolderInside`).
  Assumed: `WaiterAssumption`.

`RTSPServerProofs`: `IInv` is inductive for any sets of connections, streams,
bridges and keys. The properties alone are not: that a start never runs on a
bridge without an error handler depends on who may find a stream whose first
bridge was stopped before it ever started. The parts are `Attached` (goroutines
work on streams that exist), `Existing` (each stream has a bridge of its own),
`Viewers` (a viewer is a connection served this stream), `ServerLock` and
`StreamLock` (who holds the locks and what the stream is then), `Started` (no
session before a start), `SweepAlone` (nobody is about to join a stream the
sweep may take) and `FirstBridge` (a first bridge without handler is that of a
swept stream nobody can find). One lemma per group of goroutines shows that its
steps preserve `IInv`; from it follow `TypeCorrect`, `StreamsAreWatched`,
`TimersSpareViewers`, `LeaversAreForgotten` and the action property
`ViewersKeepTheirBridge`. The action property `SweepsTakeNobodysStream` needs
`SweepEmpty` besides: the viewers are counted without the stream's mutex, and
none comes until the stream is stopped with it, because who found the stream has
touched it and nobody finds it now. `NoCircleOfLocks` adds who holds the server's mutex
(`KeepsServer`) to `StreamLock`. Assumed: `ServerAssumption` (the kinds of names are
distinct, every URL names a stream).

`ServerImplementsCamera` maps every step to `CameraSession`. It needs `Linked`
besides: the streams that are shown and the bridges that are connected are one
another's, and only a stream that was created has a bridge. Most steps
leave the bridges alone (`Stutters`); the others are a new bridge (`TakesBridge`)
or a turn in the life of one (`Turns`), and `Apart` says that what one stream does
leaves the lives of the others' bridges as they were.

`MediaSessionProofs`: the listeners of all entries are exactly the open ports, each of
one entry (`Owned`), no entry comes before its bridge and none of the current bridge
outlives its session (`Cleared`, so that a retry finds no entry and no SETUP made on
its bridge), entries fit their session's transport (`Modes`), the session's record
tells what was asked, which is what the first SETUP on a fresh bridge makes its entry
of (`Recorded`), and a track nobody asked for is dialed nowhere (`Undialed`);
`Attempts` places the stopped bridges behind the one an attempt is made on.
`SentAsAsked` is inductive only with all of these. `BridgesConnectOnce` maps every
step to `CameraSession`, with a `Linked` of its own: the current bridge is the one
connected while the stream is shown, and none is otherwise. Assumed: numbers where
numbers are meant, and that None is none of them (`BoundsAssumption`,
`PortAssumption`, `NoneAssumption`).

`CoordinatorProofs`: for any entities, values and periods. `HeldIsTimed` and
`HeldIsLatest` become inductive with `TimerIsHold` (the timer's rest and the age
of the hold add up to the settling time, so the callback never comes too early
and leaves its state behind), `SessionFitsPhase` (no push reaches an entry that
is unloaded), `PollNeedsEntities` and `ShowsSomething`. `SettledOnly` proves the
action property: the only step that shows a reported state is the timer's.
Assumed: `CoordinatorAssumption` (periods are positive, the fast poll is not the
longer one, None is no value).

`LanClientProofs`: flag, socket and place in the loop agree (`Link`); at the top of
the loop a dead session is no older than the last ping, and the receive that ends the
interval and the ping that fails add one blocking call each (`Dying`), which gives
`DeadSessionIsNoticed`; every attempt since the last pause except the last has
failed, and a session without any answer ends at its first ping (`Pacing`),
which gives `MonitorIsPaced`; the client's count of unreadable frames never
exceeds the real one (`Counting`), which gives `OddFramesAreForgiven`.
`ClientImplementsSession` maps the initial states and every step to `LanSession`.
Assumed: blocking calls have a longest duration and the heartbeat is not longer
than the data timeout (`LanAssumption`, `PolicyAssumption`).

`AlertSensorProofs`: a sensor that is on has exactly one timer, that runs since
its last report, one that is off has none (`Timing`: `AlertsLastTheirTime`), and
it remembers the latest record it acted on (`Known`: `AlertsAreNotReplayed`).
`AlarmsReachTheirSensor` is a deadline. It needs that no copy of the slot is newer
than the slot (`Ordered`), that a sensor that remembers a record acted on it or
found it too old (`Sighted`), and that an alarm nobody was told of is on its way
to the cloud or due in the next poll, by a time that depends on its stamp
(`Underway`). Assumed: `AlertAssumption`, and for the deadline `CapAssumption`:
the slowest poll and the cloud's delay together do not exceed the age limit, which
events.py:33-38 gives as the reason for the limit.

`LoginFlowProofs`: the probe has not passed over the center of the account
(`Probing`), so that the form of the code is only reached with a center that takes its
login (`Found`: `ProbeAlwaysFinds`), the client talks to the center whose host would
be stored (`OneCenter`), and discovery has seen nothing in the lists it has asked
(`NothingSeen`, with `Asked` those lists). That the probe reaches every center is a
lemma on `Others`, from the assumption that the probe order names each center once
(`LoginAssumption`, `DiscoveryAssumption`).

`AddonBridgeProofs`: a leftover is in nobody's list (`Leftovers`:
`SettledFilesAreClean`); nothing older than what a reader saw is or comes into a
file (`Growth`, `Reached`), so what the bridge serves is never older than what
run.sh hashed (`Reading`). A bridge behind its file then has a hash to differ from it,
unless the file was changed between hash and reading and set back after
(`ChangesAreNoticed`). Assumed: `FilesAssumption`, `AddonAssumption`.

`EachCameraHasItsPath` is about the loop of assignPaths for any list of cameras,
so it needs an induction over the list, which the library offers for operators only.
It is derived here for sets: a set of naturals that is not empty has a least
element (`LeastElement`, since < is well-founded), so one that holds 0 and with
n - 1 also n holds all (`Induction`). That proves first that the recursion of
`AssignPaths` has a solution (`RoutingExists`), then that each turn keeps what the
routes owe the cameras so far (`AddRouteKeeps`). A turn ends, on a path that no
earlier route has: the paths to try differ (`TriesDiffer`) and are more than the
routes, so by the pigeonhole principle one is free, and there is a first
(`FreePathIsFree`). Assumed: `NumeralsAssumption`, that no number comes
twice, and `JsonAssumption`, that no list outruns them.

For `CameraStore`, what a command read and is about to write
are whole lists too (`Snapshots`), which gives `ListsComeWhole` under any overlap;
and while nothing was disturbed one command at a time rewrites, on an up-to-date
copy, and the file is empty only under its hands (`Undisturbed`: `NoListIsLost`).
That a rewrite replaces one user's list and leaves the others' alone is the lemma
`ReplacesOneList`. Assumed: `StoreAssumption`.

TLC checked each of these invariants before its proof.

Only model-checked: the liveness properties `WaitersGetOut`, `ServerResponds`,
`UnwatchedStreamStops`, `Converges`, `Reconnects`, `OfferSettled`, `StartSettles`
and `FailureEndsStream`; liveness under fairness is beyond the prover, which has
the safety cores named above.

## What the code does not keep

The models contain these behaviours; where a property is named, its module
states it, and TLC refutes it.

* `OneInstance` in `RTSPServer`: getOrCreateStream holds the server's mutex, but a
  stream is neither active nor connecting until its client calls AddClient, so one
  that looks it up in between makes another, and the camera gets two sessions.
  Line 143 of the design of the MQTT singleton has them all find the same stream.
* `StaysUp` in `AddonBridge`: under `set -e` a bridge that ends with an error
  takes run.sh along, whose restart branch is reached only for status 0.
* `UrlsMatch` in `AddonBridge`: the bridge moves the second camera of a name off the
  plain path, Home Assistant opens the plain path for every camera (camera.py:56) and
  so shows the first one's stream under both. const.py:139 says the URL "matches the
  path the bridge serves", as does line 86 of the design of the multi-camera bridge.
* `AlwaysNoticed` in `AddonBridge`: run.sh hashes the file, the bridge loads a change
  made after that, and the change is set back before the next look (run.sh:76-86).
  The hashes are then equal and the bridge stays on the options that were set back.
* `EveryoneIsServed` and `RemovedFromForwarder` in `MediaSession`: who sent the last
  SETUP during a first attempt is on the forwarder of the bridge that the retry
  replaced, unserved and never taken out.
* `LossReachesBridge` in `Signalling`: a lost broker connection is told to no
  bridge, though line 140 of the design of the MQTT singleton says so.
* `StartSettles` in `BridgeHandshake` with `Kinds <- PlainSD`: nothing completes the
  waiter of an SD stream without HEVC (bridge.go:410), and Start holds the
  stream's mutex until the connection breaks.
* Waiter: the error is stored after the waiters were woken, so a failure may be
  read as success. So a failed subscription leaves a deaf client in the manager.
* Bridge: the session of a failed Start is never closed, nor its own MQTT client
  disconnected; OnError may be cleared between its check and its call; a lost
  message of the data channel is never repeated.
* Server: a camera that never answers holds the stream's mutex, and then the
  server's, although the design says about 30 seconds; a late removal takes
  a restarted stream out of the map; a late error or an old attempt's GiveUp stops
  the session that came after it.
* Media: a UDP track that is set up again keeps the old socket.
* Coordinator: a poll shows a lullaby state that is on hold; frequent pushes put
  the poll off for ever (with `Chatty`).
* LAN: a frame that tinytuya raises a decode error for drops a good session at once
  (lan.py:209), while the one that it hands over as an error is forgiven twice
  (lan_policy.py:26-30, issue #62); a command answered by an error frame does not fall
  back to the cloud; the version a camera announces may differ from the one it speaks.
* Login: the form of the code may still say that the account is on another server,
  after the probe found its center (config_flow.py:289, 379); a code is used up when
  the user info fails after it; discovery stops at the first home with cameras.
* Storage: commands that overlap undo one another's rewrites; a process killed
  during a rewrite leaves a cameras.json that no later command can read or
  replace; a removal next to a refresh leaves cameras without a user, and a second
  removal then finds no user; two e-mails may share a file. A refused login token
  is returned as nil without an error (api.go:381), and PasswordLogin uses it
  (api.go:308).
* Files: the prune deletes a file that was created after it read the list; run.sh
  chooses its file once.

## Not modelled

* The content of SDP and WebRTC, media parsing, the key-frame cache, the packet
  path and the readers of the return audio: data, or one goroutine's loop.
* Signatures and encryption of requests, the endpoints, and the bridge's mobile
  client: I/O without state.
* Listings and checks of a session's age, options form, the back-fill of product ids,
  entities and diagnostics: reads, or edits of one record.
* InvalidateClient and CleanupInactiveClients, which nothing calls, and the MQTT
  client of the web portal's login, made anew for each bridge.
* Several cameras in one entry: if the first refresh of a later one fails, the LAN
  client of an earlier one goes on, and the next set-up starts another.
* Research tools and examples.

## What is left to do

The key-frame cache next to the entries of the forwarder; the reading of users one
file at a time; the same refinement for the streams of `Signalling`.
