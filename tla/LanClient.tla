------------------------------ MODULE LanClient ------------------------------
(***************************************************************************)
(* TuyaLANClient (custom_components/philips_avent/lan.py) with the policy  *)
(* of lan_policy.py: the background task that finds the camera, keeps one  *)
(* session with it, and hands its pushes to the coordinator; and set_dps,  *)
(* which sends a command over a socket of its own from an executor thread. *)
(*                                                                         *)
(* "pc" is the await _run is suspended at.  Calls that block in a thread   *)
(* take one of Durations; silence lasts at least one unit, the timeout of  *)
(* the socket.  A call that fails takes its time as well: "raised" and     *)
(* "garbled" are the moments at its end when the client still shows the    *)
(* session.  The camera and tinytuya are external: the camera goes away,   *)
(* comes back at some address, drops a session, or is given other          *)
(* firmware; tinytuya may raise on any session.                            *)
(***************************************************************************)
EXTENDS Integers, Sequences, LanPolicy

CONSTANTS Addresses,
          None,
          Firmwares,   \* what a camera may speak and announce
          Durations,   \* how long a blocking call may take
          MaxPushes    \* bound on the pushes a behaviour delivers

ASSUME LanAssumption ==
  /\ None \notin Addresses \cup Versions
  /\ Firmwares \subseteq [speaks : SUBSET Versions, announces : Versions \cup {None}]
  /\ Durations \subseteq Nat /\ 1 \in Durations
  /\ \E d \in Durations : \A e \in Durations : e <= d
  /\ HeartbeatInterval <= DataTimeout
  /\ MaxPushes \in Nat

VARIABLES
  task,       \* "new", "running" or "stopped"
  pc,         \* "top", "try", "scan", "beat", "raised", "garbled", "sleep" or "end"
  connected,  \* self.connected; self._device is set exactly when it is
  ip,         \* self._ip
  announced,  \* self._announced_version
  version,    \* self._version
  todo,       \* the candidates _connect_at_any_version has yet to try
  cached,     \* those are tried at the address of the last session
  failures,   \* consecutive failures, no further than the policy tells apart
  unreadable, \* payload_errors
  sinceData, sinceBeat,          \* clocks, since last_data and last_heartbeat
  up, where, firmware, socket,   \* the camera, and its end of the session
  deadFor,    \* how long the session has been dead without the client knowing
  command,    \* the set_dps call: "sending", or how the last one ended: "done",
              \* or "fallback" when the caller is to use the cloud
  pushes, attempts, odd   \* pushes delivered; connection attempts since the last
                          \* pause or answer; unreadable frames in a row

camera  == <<up, where, firmware>>
found   == <<ip, announced, version>>
trying  == <<todo, cached>>
clocks  == <<sinceData, sinceBeat>>
vars == <<task, pc, connected, found, trying, failures, unreadable, clocks, camera,
          socket, deadFor, command, pushes, attempts, odd>>

AtMost(n, m) == IF n > m THEN m ELSE n
Longest == CHOOSE d \in Durations : \A e \in Durations : e <= d
Horizon == HeartbeatInterval + 2 * Longest

TypeOK ==
  /\ task \in {"new", "running", "stopped"}
  /\ pc \in {"top", "try", "scan", "beat", "raised", "garbled", "sleep", "end"}
  /\ connected \in BOOLEAN
  /\ ip \in Addresses \cup {None}
  /\ announced \in Versions \cup {None} /\ version \in Versions \cup {None}
  /\ todo \in Seq(Versions) /\ cached \in BOOLEAN
  /\ failures \in 0..2 /\ unreadable \in 0..(MaxPayloadErrors - 1)
  /\ sinceData \in 0..(DataTimeout + 1) /\ sinceBeat \in 0..HeartbeatInterval
  /\ up \in BOOLEAN /\ where \in Addresses /\ firmware \in Firmwares
  /\ socket \in {"none", "good", "dead"}
  /\ deadFor \in 0..Horizon
  /\ command \in {"sending", "done", "fallback"}
  /\ pushes \in 0..MaxPushes /\ attempts \in Nat /\ odd \in Nat

Init ==
  /\ task = "new" /\ pc = "top" /\ connected = FALSE
  /\ ip = None /\ announced = None /\ version = None
  /\ todo = <<>> /\ cached = FALSE
  /\ failures = 0 /\ unreadable = 0 /\ sinceData = 0 /\ sinceBeat = 0
  /\ up \in BOOLEAN /\ where \in Addresses /\ firmware \in Firmwares
  /\ socket = "none" /\ deadFor = 0
  /\ command = "done"
  /\ pushes = 0 /\ attempts = 0 /\ odd = 0

-----------------------------------------------------------------------------
(* The camera and its network, external to the client. *)

Break == IF socket = "good" THEN "dead" ELSE socket

GoesAway == /\ up /\ up' = FALSE /\ socket' = Break
            /\ UNCHANGED <<where, firmware>>
ComesBack == /\ ~up /\ up' = TRUE
             /\ where' \in Addresses /\ firmware' \in Firmwares
             /\ UNCHANGED socket
DropsSession == socket = "good" /\ socket' = "dead" /\ UNCHANGED camera

Camera == /\ GoesAway \/ ComesBack \/ DropsSession
          /\ UNCHANGED <<task, pc, connected, found, trying, failures, unreadable,
                         clocks, deadFor, command, pushes, attempts, odd>>

Answers(a, v) == up /\ a = where /\ v \in firmware.speaks

-----------------------------------------------------------------------------
(* Life and death of the task. *)

Start == /\ task = "new" /\ task' = "running"
         /\ UNCHANGED <<pc, connected, found, trying, failures, unreadable, clocks,
                        camera, socket, deadFor, command, pushes, attempts, odd>>

KeepFlag == socket' = "none" /\ deadFor' = 0 /\ UNCHANGED connected

Disconnect == connected' = FALSE /\ socket' = "none" /\ deadFor' = 0

\* stop: set the event, cancel the task at its await, close the device.
Stop == /\ task # "stopped" /\ task' = "stopped" /\ pc' = "end"
        /\ Disconnect
        /\ UNCHANGED <<found, trying, failures, unreadable, clocks, camera, command,
                       pushes, attempts, odd>>

\* failures += 1; sleep for reconnect_delay(failures); continue
Failed == /\ failures' = AtMost(failures + 1, 2)
          /\ pc' = IF Waits(failures') THEN "sleep" ELSE "top"

SleepOver == /\ task = "running" /\ pc = "sleep" /\ pc' = "top" /\ attempts' = 0
             /\ UNCHANGED <<task, connected, found, trying, failures, unreadable, clocks,
                            camera, socket, deadFor, command, pushes, odd>>

-----------------------------------------------------------------------------
(* _connect: the cached address first, then a scan. *)

Guess(announcement) == IF version # None THEN version ELSE announcement

Connect ==
  /\ task = "running" /\ pc = "top" /\ ~connected
  /\ attempts' = AtMost(attempts + 1, 3)
  /\ IF ip # None
       THEN pc' = "try" /\ cached' = TRUE /\ todo' = VersionCandidates(Guess(announced))
       ELSE pc' = "scan" /\ UNCHANGED trying
  /\ UNCHANGED <<task, connected, found, failures, unreadable, clocks, camera, socket,
                 deadFor, command, pushes, odd>>

\* A session starts with fresh clocks and no unreadable frame to its name.
KeepsErrors == sinceData' = 0 /\ sinceBeat' = 0 /\ UNCHANGED unreadable

Fresh == sinceData' = 0 /\ sinceBeat' = 0 /\ unreadable' = 0

TryVersion ==
  /\ task = "running" /\ pc = "try"
  /\ IF Answers(ip, Head(todo))
       THEN /\ version' = Head(todo) /\ todo' = <<>>
            /\ connected' = TRUE /\ socket' = "good"
            /\ pc' = "top" /\ Fresh /\ odd' = 0
            /\ UNCHANGED <<ip, failures>>
       ELSE /\ todo' = Tail(todo)
            /\ IF todo' # <<>> THEN UNCHANGED <<pc, ip, failures>>
               ELSE /\ ip' = None
                    /\ IF cached THEN pc' = "scan" /\ UNCHANGED failures ELSE Failed
            /\ UNCHANGED <<version, connected, socket, clocks, unreadable, odd>>
  /\ UNCHANGED <<task, announced, cached, camera, deadFor, command, pushes, attempts>>

\* The broadcast of a camera that is up may be missed as well.
ScanFinds ==
  /\ task = "running" /\ pc = "scan" /\ up
  /\ ip' = where
  /\ announced' = IF firmware.announces # None THEN firmware.announces ELSE announced
  /\ pc' = "try" /\ cached' = FALSE /\ todo' = VersionCandidates(Guess(announced'))
  /\ UNCHANGED <<task, connected, version, failures, unreadable, clocks, camera, socket,
                 deadFor, command, pushes, attempts, odd>>

ScanMisses ==
  /\ task = "running" /\ pc = "scan" /\ Failed
  /\ UNCHANGED <<task, connected, found, trying, unreadable, clocks, camera, socket,
                 deadFor, command, pushes, attempts, odd>>

-----------------------------------------------------------------------------
(* The loop on a session. *)

Stale ==
  /\ task = "running" /\ pc = "top" /\ connected /\ DataStale(sinceData)
  /\ Disconnect
  /\ UNCHANGED <<task, pc, found, trying, failures, unreadable, clocks, camera, command,
                 pushes, attempts, odd>>

Receiving == task = "running" /\ pc = "top" /\ connected /\ ~DataStale(sinceData)

Passes(d) == /\ sinceBeat' = AtMost(sinceBeat + d, HeartbeatInterval)
             /\ deadFor' = IF socket = "dead" THEN AtMost(deadFor + d, Horizon) ELSE deadFor

Keepalive == IF HeartbeatDue(sinceBeat') THEN "beat" ELSE "top"

\* Nothing arrived before the socket timed out.
ReceiveNothing(d) ==
  /\ Receiving /\ d > 0 /\ Passes(d) /\ pc' = Keepalive
  /\ sinceData' = AtMost(sinceData + d, DataTimeout + 1)
  /\ UNCHANGED <<task, connected, found, trying, failures, unreadable, camera, socket,
                 command, pushes, attempts, odd>>

\* A readable frame; one with data points goes to the callback.
ReceiveFrame(d) ==
  /\ Receiving /\ socket = "good" /\ Passes(d) /\ sinceData' = 0
  /\ failures' = 0 /\ unreadable' = 0 /\ odd' = 0 /\ attempts' = 0
  /\ pushes' \in {pushes} \cup {p \in 0..MaxPushes : p = pushes + 1}
  /\ pc' = Keepalive
  /\ UNCHANGED <<task, connected, found, trying, camera, socket, command>>

\* An error frame: tinytuya says the session is lost, or could not read the frame.
ReceiveError(lost, d) ==
  /\ Receiving /\ Passes(d)
  /\ odd' = IF lost THEN odd ELSE AtMost(odd + 1, MaxPayloadErrors)
  /\ IF ShouldReconnect(lost, unreadable + 1)
       THEN pc' = (IF lost THEN "raised" ELSE "garbled") /\ UNCHANGED <<sinceData, unreadable>>
       ELSE pc' = Keepalive /\ sinceData' = 0 /\ unreadable' = unreadable + 1
  /\ UNCHANGED <<task, connected, found, trying, failures, camera, socket, command, pushes,
                 attempts>>

\* receive raises, be it over the socket or over a frame it cannot decode; or the
\* ping raises, or ends with a connection error.
Raises(d) ==
  /\ Receiving \/ (task = "running" /\ pc = "beat")
  /\ Passes(d) /\ pc' = "raised"
  /\ UNCHANGED <<task, connected, found, trying, failures, unreadable, sinceData, camera,
                 socket, command, pushes, attempts, odd>>

\* What all of them end in.
LoseSession ==
  /\ task = "running" /\ pc \in {"raised", "garbled"}
  /\ Disconnect /\ Failed
  /\ UNCHANGED <<task, found, trying, unreadable, clocks, camera, command, pushes,
                 attempts, odd>>

\* Any answer counts, one that cannot be read too; the clocks restart from the
\* moment the ping was sent.
Beat(d) ==
  /\ task = "running" /\ pc = "beat" /\ socket = "good"
  /\ pc' = "top" /\ failures' = 0 /\ attempts' = 0
  /\ sinceData' = AtMost(d, DataTimeout + 1) /\ sinceBeat' = AtMost(d, HeartbeatInterval)
  /\ UNCHANGED <<task, connected, found, trying, unreadable, camera, socket, deadFor,
                 command, pushes, odd>>

-----------------------------------------------------------------------------
(* set_dps, called by the coordinator at any time. *)

Command ==
  /\ command # "sending"
  /\ command' = IF ip = None THEN "fallback" ELSE "sending"
  /\ UNCHANGED <<task, pc, connected, found, trying, failures, unreadable, clocks, camera,
                 socket, deadFor, pushes, attempts, odd>>

\* The thread reads the address and the version again.  The library raises, or
\* reports an unreachable camera as an error frame, which nobody looks at.
Sent ==
  /\ command = "sending"
  /\ LET reached == ip # None /\ Answers(ip, IF version = None THEN Default ELSE version)
     IN  command' \in IF reached THEN {"done"} ELSE {"done", "fallback"}
  /\ UNCHANGED <<task, pc, connected, found, trying, failures, unreadable, clocks, camera,
                 socket, deadFor, pushes, attempts, odd>>

-----------------------------------------------------------------------------
Receive == \E d \in Durations : \/ ReceiveNothing(d) \/ ReceiveFrame(d)
                                \/ \E lost \in BOOLEAN : ReceiveError(lost, d)
Heartbeat == \E d \in Durations : Beat(d)
Fails == \E d \in Durations : Raises(d)

Next == \/ Camera \/ Start \/ Stop \/ SleepOver
        \/ Connect \/ TryVersion \/ ScanFinds \/ ScanMisses
        \/ Stale \/ Receive \/ Fails \/ LoseSession \/ Heartbeat
        \/ Command \/ Sent

Spec == Init /\ [][Next]_vars

(* The task runs, blocking calls return, and a camera that stays up is not *)
(* missed by every scan.                                                   *)
FairSpec == /\ Spec
            /\ WF_vars(SleepOver) /\ WF_vars(Connect) /\ WF_vars(TryVersion)
            /\ WF_vars(ScanFinds \/ ScanMisses) /\ SF_vars(ScanFinds)
            /\ WF_vars(Stale \/ Receive \/ Fails) /\ WF_vars(Heartbeat \/ Fails)
            /\ WF_vars(LoseSession)

-----------------------------------------------------------------------------
(* A session the camera has dropped is given up within one heartbeat       *)
(* interval and two blocking calls, the receive the interval ends in and   *)
(* the ping that fails, so the integration falls back to the cloud instead *)
(* of showing a camera it no longer hears.                                 *)
DeadSessionNoticed == connected => deadFor < HeartbeatInterval + 2 * Longest

(* The monitor is not hammered: between two pauses, or two signs of life,  *)
(* the client never starts more than two connection attempts.              *)
Paced == attempts <= 2

(* Frames that tinytuya hands over as unreadable cost a session the camera *)
(* still keeps only when MaxPayloadErrors of them came in a row on that    *)
(* very session (issue #62); but for a stop, silence for the data timeout  *)
(* and a call that raises or reports a connection error, nothing else      *)
(* costs it.  A decode error that is raised is such a call: one suffices.  *)
OddFramesForgiven ==
  [][connected /\ ~connected' /\ socket = "good"
       => \/ pc = "raised"
          \/ pc = "garbled" /\ odd = MaxPayloadErrors
          \/ DataStale(sinceData)
          \/ task' = "stopped"]_vars

(* A camera that stays reachable and speaks the default protocol is        *)
(* connected to again and again until the client is stopped, whatever      *)
(* address it came back at and whatever it announced before.               *)
Reconnects == <>[](up /\ Default \in firmware.speaks /\ task = "running")
                => []<>(socket = "good")

(* The client keeps the promise the coordinator is built on.               *)
Session == INSTANCE LanSession WITH life <- task, up <- connected, pushes <- pushes
ImplementsSession == Session!Spec
=============================================================================
