----------------------------- MODULE AlertSensor -----------------------------
(***************************************************************************)
(* The motion and sound binary sensors (binary_sensor.py, events.py) on    *)
(* top of one coordinator: an alert is an event in a LAN push, or a        *)
(* stamped alarm record that stays in the camera's one slot, reaches the   *)
(* cloud late, and comes back with every poll.  Pushes, polls and commands *)
(* call both listeners at once.  Time is scaled; an answer of the cloud is *)
(* applied within the tick of its request, but pushes may come in between. *)
(***************************************************************************)
EXTENDS Integers, FiniteSets

CONSTANTS None,
          ClearAfter, MaxAge,       \* ALERT_CLEAR_SECONDS, EVENT_MAX_AGE_SECONDS
          PollFast, PollSlow, Lag,  \* ticks; Lag bounds the cloud's delay
          MaxNow, MaxPushes, MaxMoves   \* bounds on time, pushes, and alarms,
                                          \* commands, LAN changes and restarts

Sensor == {"motion", "sound"}
Kinds == Sensor \cup {"other"}       \* commands no sensor maps to
Record == [kind : Kinds, stamp : 0..MaxNow]

ASSUME AlertAssumption ==
  /\ {ClearAfter, MaxAge, PollFast, PollSlow} \subseteq Nat \ {0}
  /\ {Lag, MaxNow, MaxPushes, MaxMoves} \subseteq Nat /\ None \notin Nat \cup Record
  /\ PollFast <= PollSlow

(* events.py keeps the age limit above the slowest poll, lest an alarm that *)
(* lands between two polls is discarded; the cloud's delay fits in between. *)
ASSUME CapAssumption == PollSlow + Lag <= MaxAge

VARIABLES
  now,
  raised, cloud, lag,       \* the slot of the camera, of the cloud, its delay
  data, switch,             \* coordinator.data: the record and the motion switch
  polled,                   \* the answers of the poll in flight
  interval, untilPoll,      \* update_interval, and the time to the next poll
  lan, seq, lanDps,         \* lan_connected, lan_update_sequence, last_lan_dps
  on, timers,               \* _is_on, and the pending calls of _clear_alert
  lastSeq, seen,            \* _last_lan_update_sequence, _last_alarm_timestamp
  moves,                    \* how many MaxMoves bounds
  reported, fired, waiting  \* when a sensor last reported, for which records; and
                            \* no restart or push since the camera's last alarm

world   == <<raised, cloud, lag>>
polling == <<polled, interval, untilPoll>>
session == <<lan, seq, lanDps>>
sensors == <<on, timers, lastSeq, seen, reported, fired>>
vars == <<now, world, data, switch, polling, session, sensors, moves, waiting>>

TypeOK ==
  /\ now \in 0..MaxNow
  /\ raised \in Record \cup {None} /\ cloud \in Record \cup {None} /\ lag \in 0..Lag
  /\ data \in Record \cup {None} /\ switch \in BOOLEAN
  /\ polled \subseteq (Record \cup {None}) /\ Cardinality(polled) <= 1
  /\ interval \in {PollFast, PollSlow} /\ untilPoll \in 0..PollSlow
  /\ lan \in BOOLEAN /\ seq \in 0..MaxPushes /\ lanDps \subseteq Sensor
  /\ on \in [Sensor -> BOOLEAN] /\ timers \in [Sensor -> SUBSET (0..ClearAfter)]
  /\ lastSeq \in [Sensor -> 0..MaxPushes] /\ seen \in [Sensor -> (0..MaxNow) \cup {None}]
  /\ moves \in 0..MaxMoves
  /\ reported \in [Sensor -> (0..MaxNow) \cup {None}]
  /\ fired \in [Sensor -> SUBSET (0..MaxNow)]
  /\ waiting \in BOOLEAN

Init == /\ now = 0 /\ moves = 0 /\ lag = 0 /\ switch = TRUE
        /\ raised = None /\ cloud = None /\ data = None
        /\ interval = PollFast /\ untilPoll = PollFast /\ polled = {}
        /\ lan = FALSE /\ seq = 0 /\ lanDps = {}
        /\ on = [s \in Sensor |-> FALSE] /\ timers = [s \in Sensor |-> {}]
        /\ lastSeq = [s \in Sensor |-> 0] /\ seen = [s \in Sensor |-> None]
        /\ reported = [s \in Sensor |-> None] /\ fired = [s \in Sensor |-> {}]
        /\ waiting = FALSE

-----------------------------------------------------------------------------
(* events.py *)

MinuteOld(stamp, last) == (last = None \/ stamp > last) /\ stamp >= now - 2

IsNewEvent(stamp, last) == (last = None \/ stamp > last) /\ stamp >= now - MaxAge

StayFast == ~lan \/ data # None

-----------------------------------------------------------------------------
(* _handle_coordinator_update of both sensors, on the data of this update. *)

Forgotten(s) == lastSeq[s]
Looked(s) == seq'

ByEvent(s) == seq' # lastSeq[s] /\ s \in lanDps' /\ (s = "motion" => switch')
Stamped(s) == data' # None /\ data'.kind = s
ByRecord(s) == ~ByEvent(s) /\ Stamped(s) /\ IsNewEvent(data'.stamp, seen[s])

AlsoSchedule(s) == timers[s] \cup {ClearAfter}

\* _schedule_clear cancels the timer that is pending.
Schedule(s) == {ClearAfter}

Reports(s) == ByEvent(s) \/ ByRecord(s)

Listen ==
  /\ on' = [s \in Sensor |-> on[s] \/ Reports(s)]
  /\ timers' = [s \in Sensor |-> IF Reports(s) THEN Schedule(s) ELSE timers[s]]
  /\ lastSeq' = [s \in Sensor |-> Looked(s)]
  /\ seen' = [s \in Sensor |->
                IF ByRecord(s) \/ (~ByEvent(s) /\ Stamped(s) /\ seen[s] = None)
                THEN data'.stamp ELSE seen[s]]
  /\ reported' = [s \in Sensor |-> IF Reports(s) THEN now ELSE reported[s]]
  /\ fired' = [s \in Sensor |-> IF ByRecord(s) THEN fired[s] \cup {data'.stamp}
                                ELSE fired[s]]

\* async_set_updated_data starts the interval anew.
SetUpdatedData == untilPoll' = interval /\ Listen

-----------------------------------------------------------------------------
Move == moves < MaxMoves /\ moves' = moves + 1

Raise(k) ==
  LET r == [kind |-> k, stamp |-> now]
  IN  /\ Move /\ raised # r /\ raised' = r /\ lag' = 0 /\ waiting' = TRUE
      /\ UNCHANGED <<now, cloud, data, switch, polling, session, sensors>>

CloudSyncs ==
  /\ cloud # raised /\ cloud' = raised
  /\ UNCHANGED <<now, raised, lag, data, switch, polling, session, sensors, moves, waiting>>

LanChanges ==
  /\ Move /\ lan' = ~lan
  /\ UNCHANGED <<now, world, data, switch, polling, seq, lanDps, sensors, waiting>>

\* _on_lan_dps_update: the events of the push, the alarm record, or neither.
Push(events, withRecord) ==
  /\ lan /\ seq < MaxPushes
  /\ seq' = seq + 1 /\ lanDps' = events
  /\ data' = IF withRecord THEN raised ELSE data
  /\ waiting' = (waiting /\ withRecord)
  /\ UNCHANGED <<now, world, switch, polled, interval, lan, moves>>
  /\ SetUpdatedData

\* set_dps of the motion switch updates the data optimistically.
SetSwitch ==
  /\ Move /\ switch' = ~switch /\ waiting' = FALSE
  /\ UNCHANGED <<now, world, data, polled, interval, session>>
  /\ SetUpdatedData

\* One poll at a time.
Request == polled = {} /\ polled' = {cloud}

PollStart ==
  /\ untilPoll = 0 /\ Request
  /\ interval' = IF StayFast THEN PollFast ELSE PollSlow
  /\ UNCHANGED <<now, world, data, switch, untilPoll, session, sensors, moves, waiting>>

PollApplies ==
  /\ polled # {} /\ polled' = {}
  /\ data' \in IF polled = {None} THEN {data} ELSE polled
  /\ untilPoll' = interval
  /\ UNCHANGED <<now, world, switch, interval, session, moves, waiting>>
  /\ Listen

ClearAlert(s) ==
  /\ 0 \in timers[s]
  /\ on' = [on EXCEPT ![s] = FALSE] /\ timers' = [timers EXCEPT ![s] = @ \ {0}]
  /\ UNCHANGED <<now, world, data, switch, polling, session, lastSeq, seen, reported,
                 fired, moves, waiting>>

\* Home Assistant restarts: the sensors forget, and the first refresh reads
\* the cloud before they exist.
Restart ==
  /\ Move
  /\ data' = cloud
  /\ interval' = PollFast /\ untilPoll' = PollFast /\ polled' = {}
  /\ lan' = FALSE /\ seq' = 0 /\ lanDps' = {}
  /\ on' = [s \in Sensor |-> FALSE] /\ timers' = [s \in Sensor |-> {}]
  /\ lastSeq' = [s \in Sensor |-> 0] /\ seen' = [s \in Sensor |-> None]
  /\ reported' = [s \in Sensor |-> None] /\ fired' = [s \in Sensor |-> {}]
  /\ waiting' = FALSE
  /\ UNCHANGED <<now, world, switch>>

Tick ==
  /\ now < MaxNow /\ polled = {} /\ untilPoll > 0
  /\ \A s \in Sensor : 0 \notin timers[s]
  /\ cloud = raised \/ lag < Lag
  /\ now' = now + 1 /\ untilPoll' = untilPoll - 1
  /\ lag' = IF cloud = raised THEN lag ELSE lag + 1
  /\ timers' = [s \in Sensor |-> {t - 1 : t \in timers[s]}]
  /\ UNCHANGED <<raised, cloud, data, switch, polled, interval, session, on, lastSeq,
                 seen, reported, fired, moves, waiting>>

Next == \/ \E k \in Kinds : Raise(k)
        \/ CloudSyncs \/ LanChanges \/ SetSwitch \/ PollStart \/ PollApplies
        \/ \E e \in SUBSET Sensor, r \in BOOLEAN : Push(e, r)
        \/ \E s \in Sensor : ClearAlert(s)
        \/ Restart \/ Tick

Spec == Init /\ [][Next]_vars

-----------------------------------------------------------------------------
(* A sensor shows an alert for the full ALERT_CLEAR_SECONDS after the last *)
(* report, and no longer, however many reports overlap.                    *)
ShownForItsTime ==
  \A s \in Sensor :
    /\ on[s] => reported[s] # None /\ now - reported[s] <= ClearAfter
    /\ ~on[s] /\ reported[s] # None => now - reported[s] >= ClearAfter

(* One alert is reported once: what rearms a sensor is a push that brought *)
(* its event in this very step, or a record no older than the age limit    *)
(* that it has not acted on in this run, although polls repeat the record, *)
(* and may bring an older one back after a push (#65).                     *)
NoReplay ==
  [][\A s \in Sensor : ClearAfter \notin timers[s] /\ ClearAfter \in timers'[s]
        => \/ seq' # seq /\ s \in lanDps'
           \/ /\ data' # None /\ data'.kind = s
              /\ data'.stamp \notin fired[s] /\ now - data'.stamp <= MaxAge]_vars

(* An alarm that stays in the slot reaches its sensor with the polls alone *)
(* however slow the interval, before it counts as history (#42), unless a  *)
(* push or command kept starting the interval anew.                        *)
AlarmReachesSensor ==
  waiting /\ raised.kind \in Sensor /\ now > raised.stamp + Lag + PollSlow
    => LET s == raised.kind IN
       \/ raised.stamp \in fired[s]
       \/ reported[s] # None /\ reported[s] >= raised.stamp
=============================================================================
