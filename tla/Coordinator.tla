---------------------------- MODULE Coordinator ----------------------------
(***************************************************************************)
(* What Home Assistant shows of one monitor: the coordinator of            *)
(* custom_components/philips_avent (coordinator.py), fed by the pushes of  *)
(* the LAN client, by a periodic poll of the cloud and by the commands of  *)
(* the entities (select.py, button.py), from the set-up of the config      *)
(* entry to its unloading (__init__.py).                                   *)
(*                                                                         *)
(* Everything runs on one event loop, so a step is what happens between    *)
(* two awaits.  Around it are the monitor, the cloud's copy of its state,  *)
(* which lags behind, and the wire of the LAN session.                     *)
(*                                                                         *)
(* Of the data points it keeps three: the lullaby state (DPS 246), a       *)
(* setting chosen from a list (DPS 203) and the alarm record (DPS 212),    *)
(* 0 while the monitor never reported one.  The periods of the timers are  *)
(* counted in ticks; a tick does not pass over a timer that is due.        *)
(***************************************************************************)
EXTENDS Integers, Sequences

CONSTANTS
  Caller,      \* entities with a command of their own under way
  Playback,    \* values of the lullaby state
  Mode,        \* values of the setting
  Start,       \* the states the monitor may be in when the entry is set up
  Settle,      \* LULLABY_SETTLE_SECONDS
  Fast, Slow,  \* POLL_FAST and POLL_SLOW
  Chatty,      \* the monitor repeats its state over the LAN without end
  MaxChanges, MaxCalls, MaxDrops,  \* bounds on the monitor, the user, the LAN
  None

Key   == {"lullaby", "mode", "alarm"}
Value == Playback \cup Mode \cup Nat
State == [Key -> Value]
Frame == [{"lullaby"} -> Value] \cup [{"mode"} -> Value]

ASSUME CoordinatorAssumption ==
  /\ {Settle, Fast, Slow} \subseteq Nat \ {0}
  /\ Fast <= Slow
  /\ {MaxChanges, MaxCalls, MaxDrops} \subseteq Nat
  /\ Chatty \in BOOLEAN
  /\ \A s \in Start : s \in State /\ s["alarm"] \in Nat
  /\ None \notin Value \cup State

VARIABLES
  \* the world
  camera,    \* the monitor's own state
  cloud,     \* the state the cloud answers with
  session,   \* the LAN client: "none", "down" or "up" (connected)
  wire,      \* pushes under way on its connection
  changes, calls, drops,
  \* PhilipsAventCoordinator and DataUpdateCoordinator
  phase,     \* of the config entry
  data,      \* what the entities show
  pending,   \* _pending_lullaby
  held,      \* ticks since _pending_lullaby_since
  timer,     \* ticks until _commit_lullaby_state runs, or None
  interval,  \* update_interval
  wait,      \* ticks until the next poll, 0 when it is due, or None
  poll,      \* the poll under way: "idle", "asked", "answered"
  answer,    \* what the cloud answered it with
  reauth,    \* a poll raised ConfigEntryAuthFailed
  command,   \* command[c]: the set_dps call of entity c
  report     \* history: the last lullaby state the LAN reported, and its age

world    == <<camera, cloud, session, wire, changes, calls, drops>>
holding  == <<pending, held, timer, report>>
polling  == <<interval, poll, answer, reauth>>
vars     == <<world, phase, data, holding, polling, wait, command>>

NoCall == [stage |-> "idle"]
Stages == {"lan", "delivered", "cloud"}
Calls  == [stage : Stages, key : {"lullaby", "mode"}, value : Value, sent : BOOLEAN]

Ticks(n) == (0 .. n) \cup {None}

(* Types of the variables: the one type invariant of the module.           *)
TypeOK ==
  /\ camera \in State /\ camera["alarm"] \in Nat /\ cloud \in State
  /\ session \in {"none", "down", "up"}
  /\ wire \in Seq(Frame)
  /\ {changes, calls, drops} \subseteq Nat
  /\ phase \in {"setup", "loading", "running", "unloading", "stopped"}
  /\ data \in State \cup {None}
  /\ pending \in Value \cup {None}
  /\ held \in 0 .. Settle /\ timer \in Ticks(Settle)
  /\ interval \in {Fast, Slow} /\ wait \in Ticks(Slow)
  /\ poll \in {"idle", "asked", "answered"} /\ answer \in State \cup {None}
  /\ reauth \in BOOLEAN
  /\ command \in [Caller -> Calls \cup {NoCall}]
  /\ report \in [value : Value \cup {None}, age : 0 .. Settle]

Init ==
  /\ camera \in Start /\ cloud = camera
  /\ session = "none" /\ wire = <<>>
  /\ changes = 0 /\ calls = 0 /\ drops = 0
  /\ phase = "setup" /\ data = None
  /\ pending = None /\ held = 0 /\ timer = None
  /\ interval = Fast /\ wait = None /\ reauth = FALSE
  /\ poll = "asked" /\ answer = None
  /\ command = [c \in Caller |-> NoCall]
  /\ report = [value |-> None, age |-> 0]
-----------------------------------------------------------------------------
KeepOld(old, new) == old

(* {**old, **new} of two DPS dictionaries, the second with any keys.       *)
Merge(old, new) == [k \in DOMAIN old |-> IF k \in DOMAIN new THEN new[k] ELSE old[k]]
One(k, v)       == [x \in {k} |-> v]

(* DataUpdateCoordinator._schedule_refresh: a poll that fell due while     *)
(* another was under way waits for its lock and is not put off.            *)
Queued     == wait = 0 /\ poll # "idle"
NextPoll   == IF Queued THEN 0 ELSE IF phase = "running" THEN interval ELSE None

(* async_set_updated_data: show it and start the poll interval anew.       *)
SetUpdatedData(new) == data' = new /\ wait' = NextPoll
-----------------------------------------------------------------------------
(* The monitor takes a new value; alarm records are left to the poll.      *)
Becomes(k, v) ==
  /\ camera' = [camera EXCEPT ![k] = v]
  /\ wire' = IF session = "up" /\ k # "alarm" THEN Append(wire, One(k, v)) ELSE wire

CameraChanges ==
  /\ changes < MaxChanges
  /\ \/ \E v \in Playback \ {camera["lullaby"]} : Becomes("lullaby", v)
     \/ \E v \in Mode \ {camera["mode"]} : Becomes("mode", v)
     \/ Becomes("alarm", camera["alarm"] + 1)
  /\ changes' = changes + 1
  /\ UNCHANGED <<cloud, session, calls, drops, phase, data, holding, polling, wait, command>>

CameraRepeats ==
  /\ session = "up" /\ wire = <<>>
  /\ wire' = <<One("mode", camera["mode"])>>
  /\ \/ Chatty /\ changes' = changes
     \/ ~Chatty /\ changes < MaxChanges /\ changes' = changes + 1
  /\ UNCHANGED <<camera, cloud, session, calls, drops, phase, data, holding, polling,
                 wait, command>>

CloudSyncs ==
  /\ cloud # camera /\ cloud' = camera
  /\ UNCHANGED <<camera, session, wire, changes, calls, drops, phase, data, holding, polling,
                 wait, command>>

SessionUp ==
  /\ session = "down" /\ session' = "up"
  /\ UNCHANGED <<camera, cloud, wire, changes, calls, drops, phase, data, holding, polling,
                 wait, command>>

SessionDown ==
  /\ session = "up" /\ drops < MaxDrops
  /\ session' = "down" /\ wire' = <<>> /\ drops' = drops + 1
  /\ UNCHANGED <<camera, cloud, changes, calls, phase, data, holding, polling, wait, command>>
-----------------------------------------------------------------------------
ArmOnce(v) ==
  /\ pending' = v
  /\ IF timer = None THEN held' = 0 /\ timer' = Settle ELSE UNCHANGED <<held, timer>>

(* _cancel_pending_lullaby, and the timer that a new report starts anew.   *)
Cancel == pending' = None /\ held' = 0 /\ timer' = None
Hold(v) == pending' = v /\ held' = 0 /\ timer' = Settle

HoldAnyway(dps) ==
  IF "lullaby" \notin DOMAIN dps
  THEN UNCHANGED holding
  ELSE /\ report' = [value |-> dps["lullaby"], age |-> 0]
       /\ IF dps["lullaby"] = data["lullaby"] THEN UNCHANGED <<pending, held, timer>>
          ELSE Hold(dps["lullaby"])

(* _hold_lullaby_state: hold a reported state unless it is the one shown.  *)
HoldLullaby(dps) ==
  IF "lullaby" \notin DOMAIN dps
  THEN UNCHANGED holding
  ELSE /\ report' = [value |-> dps["lullaby"], age |-> 0]
       /\ IF dps["lullaby"] = data["lullaby"] THEN Cancel ELSE Hold(dps["lullaby"])

Rest(dps) == [k \in DOMAIN dps \ {"lullaby"} |-> dps[k]]

LanPush ==
  /\ wire # <<>>
  /\ wire' = Tail(wire)
  /\ HoldLullaby(Head(wire))
  /\ SetUpdatedData(Merge(data, Rest(Head(wire))))
  /\ UNCHANGED <<camera, cloud, session, changes, calls, drops, phase, polling, command>>

CommitLullaby ==
  /\ timer = 0
  /\ timer' = None
  /\ IF held >= Settle
     THEN /\ pending' = None /\ held' = 0
          /\ SetUpdatedData(Merge(data, One("lullaby", pending)))
     ELSE UNCHANGED <<pending, held, data, wait>>
  /\ UNCHANGED <<world, phase, polling, command, report>>
-----------------------------------------------------------------------------
StayFast == session # "up" \/ data["alarm"] # 0

PollStart ==
  /\ wait = 0 /\ poll = "idle"
  /\ poll' = "asked" /\ wait' = None
  /\ interval' = IF StayFast THEN Fast ELSE Slow
  /\ UNCHANGED <<world, phase, data, holding, answer, reauth, command>>

(* The cloud reads its copy; the answer waits for the RSSI call as well.   *)
CloudAnswers ==
  /\ poll = "asked" /\ poll' = "answered" /\ answer' = cloud
  /\ UNCHANGED <<world, phase, data, holding, interval, reauth, wait, command>>

PollApplies ==
  /\ poll = "answered" /\ phase # "setup"
  /\ data' = Merge(data, answer) /\ wait' = NextPoll
  /\ poll' = "idle" /\ answer' = None
  /\ UNCHANGED <<world, phase, holding, interval, reauth, command>>

(* UpdateFailed; while it sets up, Home Assistant tries again later.       *)
PollFails ==
  /\ poll = "asked"
  /\ poll' = IF phase = "setup" THEN "asked" ELSE "idle"
  /\ wait' = NextPoll
  /\ UNCHANGED <<world, phase, data, holding, interval, answer, reauth, command>>

PollRejected ==
  /\ poll = "asked" /\ phase # "setup"
  /\ poll' = "idle" /\ wait' = IF Queued THEN 0 ELSE None
  /\ reauth' = TRUE
  /\ UNCHANGED <<world, phase, data, holding, interval, answer, command>>
-----------------------------------------------------------------------------
InFlight(c) == command[c].stage # "idle"
SetCall(c, call) == command' = [command EXCEPT ![c] = call]

(* The optimistic value of set_dps, shown on both of its paths.            *)
ShowOptimistic(k, v) == SetUpdatedData(Merge(data, One(k, v)))

(* An entity calls set_dps: over the LAN when the client is connected.     *)
Command(c, k, v) ==
  /\ phase = "running" /\ ~InFlight(c) /\ calls < MaxCalls
  /\ calls' = calls + 1
  /\ IF session = "up"
     THEN /\ SetCall(c, [stage |-> "lan", key |-> k, value |-> v, sent |-> FALSE])
          /\ UNCHANGED <<data, wait>>
     ELSE /\ SetCall(c, [stage |-> "cloud", key |-> k, value |-> v, sent |-> FALSE])
          /\ ShowOptimistic(k, v)
  /\ UNCHANGED <<camera, cloud, session, wire, changes, drops, phase, holding, polling>>

LanDelivers(c) ==
  /\ command[c].stage = "lan"
  /\ SetCall(c, [command[c] EXCEPT !.stage = "delivered"])
  /\ Becomes(command[c].key, command[c].value)
  /\ UNCHANGED <<cloud, session, changes, calls, drops, phase, data, holding, polling, wait>>

(* The executor job ends, well or badly: tinytuya reports no lost command. *)
LanReturns(c) ==
  /\ command[c].stage \in {"lan", "delivered"}
  /\ \E ok \in BOOLEAN : SetCall(c, [command[c] EXCEPT !.stage = "cloud", !.sent = ok])
  /\ ShowOptimistic(command[c].key, command[c].value)
  /\ UNCHANGED <<world, phase, holding, polling>>

(* After set_dps the select entities write their choice into data again.   *)
CloudReturns(c) ==
  /\ command[c].stage = "cloud"
  /\ SetCall(c, NoCall)
  /\ \/ UNCHANGED <<camera, wire>>
     \/ Becomes(command[c].key, command[c].value)
  /\ \E ok \in BOOLEAN :
       data' = IF (ok \/ command[c].sent) /\ command[c].key = "mode"
               THEN Merge(data, One("mode", command[c].value)) ELSE data
  /\ UNCHANGED <<cloud, session, changes, calls, drops, phase, holding, polling, wait>>
-----------------------------------------------------------------------------
(* async_setup_entry after the first refresh: the LAN client is started    *)
(* when the answer or the entry holds a local key.                         *)
FirstRefresh ==
  /\ phase = "setup" /\ poll = "answered"
  /\ phase' = "loading" /\ data' = answer /\ poll' = "idle" /\ answer' = None
  /\ session' \in {"none", "down"}
  /\ UNCHANGED <<camera, cloud, wire, changes, calls, drops, holding, interval, reauth, wait,
                 command>>

AddEntities ==
  /\ phase = "loading" /\ phase' = "running" /\ wait' = interval
  /\ UNCHANGED <<world, data, holding, polling, command>>

(* async_unload_entry: the platforms first, then stop_lan.                 *)
RemoveEntities ==
  /\ phase = "running" /\ phase' = "unloading" /\ wait' = IF Queued THEN 0 ELSE None
  /\ UNCHANGED <<world, data, holding, polling, command>>

StopSession ==
  /\ phase = "unloading" /\ phase' = "stopped"
  /\ session' = "none" /\ wire' = <<>>
  /\ UNCHANGED <<camera, cloud, changes, calls, drops, data, holding, polling, wait, command>>

StopLan ==
  /\ phase = "unloading" /\ phase' = "stopped"
  /\ Cancel /\ session' = "none" /\ wire' = <<>>
  /\ UNCHANGED <<camera, cloud, changes, calls, drops, data, report, polling, wait, command>>

Older(n) == IF n < Settle THEN n + 1 ELSE n
Nearer(n) == IF n = None THEN None ELSE IF n > 0 THEN n - 1 ELSE n

Tick ==
  /\ timer # 0 /\ ~(wait = 0 /\ poll = "idle")
  /\ timer' = Nearer(timer) /\ wait' = Nearer(wait)
  /\ held' = IF pending = None THEN held ELSE Older(held)
  /\ report' = [report EXCEPT !.age = IF report.value = None THEN 0 ELSE Older(report.age)]
  /\ UNCHANGED <<world, phase, data, pending, polling, command>>
-----------------------------------------------------------------------------
World == CameraChanges \/ CameraRepeats \/ CloudSyncs \/ SessionUp \/ SessionDown

Next ==
  \/ World
  \/ LanPush \/ CommitLullaby
  \/ PollStart \/ CloudAnswers \/ PollApplies \/ PollFails \/ PollRejected
  \/ \E c \in Caller :
       \/ \E v \in Playback : Command(c, "lullaby", v)
       \/ \E v \in Mode : Command(c, "mode", v)
       \/ LanDelivers(c) \/ LanReturns(c) \/ CloudReturns(c)
  \/ FirstRefresh \/ AddEntities \/ RemoveEntities \/ StopLan
  \/ Tick

Spec == Init /\ [][Next]_vars
-----------------------------------------------------------------------------
Commanded == command' # command
Polled    == poll' # poll

(* A state on hold is the latest the monitor reported: no order of pushes, *)
(* polls and commands leaves an older one to be shown later                *)
(* (_hold_lullaby_state).                                                  *)
HeldIsLatest == pending # None => pending = report.value /\ held = report.age

(* A lullaby state that the LAN brings is shown only once the monitor has  *)
(* reported nothing else for LULLABY_SETTLE_SECONDS: a pair like the one   *)
(* at the end of a stream cancels itself (_commit_lullaby_state).          *)
OnlySettledIsShown ==
  [][ (data # None /\ data'["lullaby"] # data["lullaby"] /\ ~Polled /\ ~Commanded)
        => data'["lullaby"] = report.value /\ report.age = Settle ]_vars

(* Nothing of an unloaded entry is left on a timer: its hold is cancelled  *)
(* and no poll is put on the timer again, whatever was in flight           *)
(* (stop_lan, async_unload_entry).                                         *)
UnloadedIsQuiet == phase = "stopped" => timer = None /\ wait \in {None, 0}

(* Nobody shows the state of a monitor that is at rest wrongly for ever:   *)
(* late polls, lost pushes, optimistic values of failed commands and the   *)
(* late writes of select entities are all repaired.                        *)
ShowsTheTruth == phase # "running" \/ reauth \/ data = camera
Converges == <>[]ShowsTheTruth

Fairness ==
  /\ WF_vars(Tick) /\ WF_vars(CloudSyncs)
  /\ WF_vars(LanPush) /\ WF_vars(CommitLullaby) /\ WF_vars(PollStart)
  /\ SF_vars(CloudAnswers) /\ WF_vars(PollApplies)
  /\ \A c \in Caller : WF_vars(LanReturns(c)) /\ WF_vars(CloudReturns(c))

FairSpec == Spec /\ Fairness
=============================================================================
