-------------------------- MODULE AlertSensorProofs --------------------------
(***************************************************************************)
(* What holds of the alert sensors for any poll intervals, delays of the   *)
(* cloud, age limit and clear time, and for any number of pushes, alarms   *)
(* and restarts.                                                           *)
(***************************************************************************)
EXTENDS AlertSensor, FiniteSetTheorems, TLAPS

Numbers ==
  /\ now \in 0..MaxNow /\ lag \in 0..Lag
  /\ interval \in {PollFast, PollSlow} /\ untilPoll \in 0..PollSlow
  /\ lan \in BOOLEAN /\ switch \in BOOLEAN /\ seq \in 0..MaxPushes /\ lanDps \subseteq Sensor
  /\ moves \in 0..MaxMoves /\ waiting \in BOOLEAN

Records ==
  /\ raised \in Record \cup {None} /\ cloud \in Record \cup {None}
  /\ data \in Record \cup {None}
  /\ polled = {} \/ \E r \in Record \cup {None} : polled = {r}

Memory ==
  /\ on \in [Sensor -> BOOLEAN] /\ timers \in [Sensor -> SUBSET (0..ClearAfter)]
  /\ lastSeq \in [Sensor -> 0..MaxPushes] /\ seen \in [Sensor -> (0..MaxNow) \cup {None}]
  /\ reported \in [Sensor -> (0..MaxNow) \cup {None}]
  /\ fired \in [Sensor -> SUBSET (0..MaxNow)]

\* A sensor that is on has one timer, which runs since its last report; one that
\* is off has none.
Timing ==
  \A s \in Sensor :
    /\ reported[s] # None => reported[s] <= now
    /\ on[s] => /\ reported[s] # None /\ now - reported[s] <= ClearAfter
                /\ timers[s] = {ClearAfter - (now - reported[s])}
    /\ ~on[s] => /\ timers[s] = {}
                 /\ reported[s] # None => now - reported[s] >= ClearAfter

\* A sensor has looked at every push, and remembers the latest record it acted on.
Known ==
  \A s \in Sensor :
    /\ lastSeq[s] = seq
    /\ seen[s] = None => fired[s] = {}
    /\ \A f \in fired[s] : f <= seen[s]

IInv == Numbers /\ Records /\ Memory /\ Timing /\ Known

-----------------------------------------------------------------------------
LEMMA Bounds ==
  /\ ClearAfter \in Nat /\ ClearAfter >= 1 /\ MaxAge \in Nat /\ MaxNow \in Nat
  /\ PollFast \in Nat /\ PollFast >= 1 /\ PollSlow \in Nat /\ PollFast <= PollSlow
  /\ Lag \in Nat /\ MaxPushes \in Nat /\ MaxMoves \in Nat /\ None \notin Nat \cup Record
  BY AlertAssumption

LEMMA InitInv == Init => IInv
<1> SUFFICES ASSUME Init PROVE IInv
  OBVIOUS
<1>0. Records
  BY DEF Init, Records
<1>1. Numbers
  <2>1. interval \in {PollFast, PollSlow} /\ untilPoll \in 0..PollSlow
    BY Bounds DEF Init
  <2>2. now \in 0..MaxNow /\ lag \in 0..Lag /\ seq \in 0..MaxPushes /\ moves \in 0..MaxMoves
    BY Bounds DEF Init
  <2>3. lan \in BOOLEAN /\ switch \in BOOLEAN /\ waiting \in BOOLEAN /\ lanDps \subseteq Sensor
    BY DEF Init
  <2> QED BY <2>1, <2>2, <2>3 DEF Numbers
<1>2. Memory
  BY Bounds DEF Init, Memory
<1>3. Timing /\ Known
  BY DEF Init, Timing, Known
<1> QED BY <1>0, <1>1, <1>2, <1>3 DEF IInv

\* What an update of the coordinator does to the sensors.
LEMMA ListenKeeps ==
  ASSUME IInv, Listen, now' = now, data' \in Record \cup {None}, seq' \in 0..MaxPushes
  PROVE  Memory' /\ Timing' /\ Known'
<1> USE DEF IInv
<1>1. \A s \in Sensor : Stamped(s) => data'.stamp \in 0..MaxNow
  BY Bounds DEF Stamped, Record
<1>2. Memory'
  <2>1. on' \in [Sensor -> BOOLEAN]
    BY DEF Listen, Memory, Reports, ByRecord, ByEvent
  <2>2. timers' \in [Sensor -> SUBSET (0..ClearAfter)]
    BY Bounds DEF Listen, Memory, Schedule
  <2>3. lastSeq' \in [Sensor -> 0..MaxPushes]
    BY DEF Listen, Looked
  <2>4. seen' \in [Sensor -> (0..MaxNow) \cup {None}]
    BY <1>1 DEF Listen, Memory, ByRecord
  <2>5. reported' \in [Sensor -> (0..MaxNow) \cup {None}]
    BY DEF Listen, Memory, Numbers
  <2>6. fired' \in [Sensor -> SUBSET (0..MaxNow)]
    BY <1>1 DEF Listen, Memory, ByRecord
  <2> QED BY <2>1, <2>2, <2>3, <2>4, <2>5, <2>6 DEF Memory
<1>3. Timing'
  <2> SUFFICES ASSUME NEW s \in Sensor
               PROVE  /\ reported'[s] # None => reported'[s] <= now'
                      /\ on'[s] => /\ reported'[s] # None /\ now' - reported'[s] <= ClearAfter
                                   /\ timers'[s] = {ClearAfter - (now' - reported'[s])}
                      /\ ~on'[s] => /\ timers'[s] = {}
                                    /\ reported'[s] # None => now' - reported'[s] >= ClearAfter
    BY DEF Timing
  <2>1. CASE Reports(s)
    <3>1. on'[s] = TRUE /\ timers'[s] = {ClearAfter} /\ reported'[s] = now
      BY <2>1 DEF Listen, Schedule
    <3>2. now \in Nat /\ now - now = 0
      BY Bounds DEF Numbers
    <3> QED BY <3>1, <3>2, Bounds
  <2>2. CASE ~Reports(s)
    <3>1. on'[s] = on[s] /\ timers'[s] = timers[s] /\ reported'[s] = reported[s]
      BY <2>2 DEF Listen, Memory
    <3> QED BY <3>1 DEF Timing
  <2> QED BY <2>1, <2>2
<1>4. Known'
  <2> SUFFICES ASSUME NEW s \in Sensor
               PROVE  /\ lastSeq'[s] = seq'
                      /\ seen'[s] = None => fired'[s] = {}
                      /\ \A f \in fired'[s] : f <= seen'[s]
    BY DEF Known
  <2>1. lastSeq'[s] = seq'
    BY DEF Listen, Looked
  <2>2. CASE ByRecord(s)
    <3>1. seen'[s] = data'.stamp /\ fired'[s] = fired[s] \cup {data'.stamp}
      BY <2>2 DEF Listen
    <3>2. data'.stamp \in 0..MaxNow /\ (seen[s] = None \/ data'.stamp > seen[s])
      BY <1>1, <2>2 DEF ByRecord, IsNewEvent
    <3>3. \A f \in fired[s] : f <= data'.stamp
      BY <3>2, Bounds DEF Known, Memory
    <3> QED BY <2>1, <3>1, <3>2, <3>3, Bounds
  <2>3. CASE ~ByRecord(s)
    <3>1. fired'[s] = fired[s]
      BY <2>3 DEF Listen
    <3>2. CASE ~ByEvent(s) /\ Stamped(s) /\ seen[s] = None
      <4>1. seen'[s] = data'.stamp /\ data'.stamp \in 0..MaxNow
        BY <1>1, <3>2 DEF Listen
      <4> QED BY <2>1, <3>1, <3>2, <4>1, Bounds DEF Known
    <3>3. CASE ~(~ByEvent(s) /\ Stamped(s) /\ seen[s] = None)
      <4>1. seen'[s] = seen[s]
        BY <2>3, <3>3 DEF Listen
      <4> QED BY <2>1, <3>1, <4>1 DEF Known
    <3> QED BY <3>2, <3>3
  <2> QED BY <2>2, <2>3
<1> QED BY <1>2, <1>3, <1>4

\* Every step keeps the numbers within their bounds.
LEMMA NumbersStep == IInv /\ [Next]_vars => Numbers'
<1> SUFFICES ASSUME IInv, [Next]_vars PROVE Numbers'
  OBVIOUS
<1> USE DEF IInv, Numbers
<1>1. ASSUME NEW k \in Kinds, Raise(k) PROVE Numbers'
  BY <1>1, Bounds DEF Raise, Move, world, polling, session, sensors
<1>2. CASE CloudSyncs
  BY <1>2, Bounds DEF CloudSyncs, Move, world, polling, session, sensors
<1>3. CASE LanChanges
  BY <1>3, Bounds DEF LanChanges, Move, world, polling, session, sensors
<1>4. CASE SetSwitch
  <2>1. switch' \in BOOLEAN /\ waiting' = FALSE /\ moves' \in 0..MaxMoves
    BY <1>4, Bounds DEF SetSwitch, Move
  <2>2. untilPoll' \in 0..PollSlow
    BY <1>4, Bounds DEF SetSwitch, SetUpdatedData
  <2>3. UNCHANGED <<now, lag, interval, lan, seq, lanDps>>
    BY <1>4 DEF SetSwitch, world, session
  <2> QED BY <2>1, <2>2, <2>3
<1>5. CASE PollStart
  BY <1>5, Bounds DEF PollStart, Move, world, polling, session, sensors
<1>6. CASE PollApplies
  BY <1>6, Bounds DEF PollApplies, Move, world, polling, session, sensors
<1>7. ASSUME NEW e \in SUBSET Sensor, NEW r \in BOOLEAN, Push(e, r) PROVE Numbers'
  BY <1>7, Bounds DEF Push, Move, world, polling, session, sensors, SetUpdatedData
<1>8. ASSUME NEW x \in Sensor, ClearAlert(x) PROVE Numbers'
  BY <1>8, Bounds DEF ClearAlert, Move, world, polling, session, sensors
<1>9. CASE Restart
  <2>1. interval' \in {PollFast, PollSlow} /\ untilPoll' \in 0..PollSlow /\ moves' \in 0..MaxMoves
    BY <1>9, Bounds DEF Restart, Move
  <2>2. seq' \in 0..MaxPushes /\ lanDps' \subseteq Sensor /\ lan' = FALSE /\ waiting' = FALSE
    BY <1>9, Bounds DEF Restart
  <2>3. UNCHANGED <<now, lag, switch>>
    BY <1>9 DEF Restart, world
  <2> QED BY <2>1, <2>2, <2>3
<1>10. CASE Tick
  BY <1>10, Bounds DEF Tick, Move, world, polling, session, sensors
<1>11. CASE UNCHANGED vars
  BY <1>11, Bounds DEF vars, world, polling, session, sensors
<1> QED BY <1>1, <1>2, <1>3, <1>4, <1>5, <1>6, <1>7, <1>8, <1>9, <1>10, <1>11 DEF Next

\* Records stem from the camera and carry the time they were raised at.
LEMMA RecordsStep == IInv /\ [Next]_vars => Records'
<1> SUFFICES ASSUME IInv, [Next]_vars PROVE Records'
  OBVIOUS
<1> USE DEF IInv, Records, Numbers, Record, Kinds
<1>1. ASSUME NEW k \in Kinds, Raise(k) PROVE Records'
  BY <1>1 DEF Raise, Move, world, polling, session, sensors
<1>2. CASE CloudSyncs
  BY <1>2 DEF CloudSyncs, Move, world, polling, session, sensors
<1>3. CASE LanChanges
  BY <1>3 DEF LanChanges, Move, world, polling, session, sensors
<1>4. CASE SetSwitch
  BY <1>4 DEF SetSwitch, Move, world, polling, session, sensors
<1>5. CASE PollStart
  BY <1>5 DEF PollStart, Move, world, polling, session, sensors, Request
<1>6. CASE PollApplies
  BY <1>6 DEF PollApplies, Move, world, polling, session, sensors
<1>7. ASSUME NEW e \in SUBSET Sensor, NEW r \in BOOLEAN, Push(e, r) PROVE Records'
  BY <1>7 DEF Push, Move, world, polling, session, sensors
<1>8. ASSUME NEW x \in Sensor, ClearAlert(x) PROVE Records'
  BY <1>8 DEF ClearAlert, Move, world, polling, session, sensors
<1>9. CASE Restart
  BY <1>9 DEF Restart, Move, world, polling, session, sensors
<1>10. CASE Tick
  BY <1>10 DEF Tick, Move, world, polling, session, sensors
<1>11. CASE UNCHANGED vars
  BY <1>11 DEF vars, world, polling, session, sensors
<1> QED BY <1>1, <1>2, <1>3, <1>4, <1>5, <1>6, <1>7, <1>8, <1>9, <1>10, <1>11 DEF Next

\* Every step keeps what the sensors remember in order.
LEMMA SensorStep == IInv /\ [Next]_vars => Memory' /\ Timing' /\ Known'
<1> SUFFICES ASSUME IInv, [Next]_vars PROVE Memory' /\ Timing' /\ Known'
  OBVIOUS
<1> USE DEF IInv
<1>1. ASSUME NEW k \in Kinds, Raise(k) PROVE Memory' /\ Timing' /\ Known'
  BY <1>1 DEF Raise, Move, world, polling, session, sensors, Memory, Timing, Known
<1>2. CASE CloudSyncs
  BY <1>2 DEF CloudSyncs, Move, world, polling, session, sensors, Memory, Timing, Known
<1>3. CASE LanChanges
  BY <1>3 DEF LanChanges, Move, world, polling, session, sensors, Memory, Timing, Known
<1>4. CASE SetSwitch
  <2>1. Listen /\ now' = now
    BY <1>4 DEF SetSwitch, SetUpdatedData
  <2>2. data' \in Record \cup {None} /\ seq' \in 0..MaxPushes
    BY <1>4, RecordsStep, NumbersStep DEF Next, Records, Numbers
  <2> QED BY <2>1, <2>2, ListenKeeps
<1>5. CASE PollStart
  BY <1>5 DEF PollStart, Move, world, polling, session, sensors, Memory, Timing, Known
<1>6. CASE PollApplies
  <2>1. Listen /\ now' = now
    BY <1>6 DEF PollApplies, SetUpdatedData
  <2>2. data' \in Record \cup {None} /\ seq' \in 0..MaxPushes
    BY <1>6, RecordsStep, NumbersStep DEF Next, Records, Numbers
  <2> QED BY <2>1, <2>2, ListenKeeps
<1>7. ASSUME NEW e \in SUBSET Sensor, NEW r \in BOOLEAN, Push(e, r) PROVE Memory' /\ Timing' /\ Known'
  <2>1. Listen /\ now' = now
    BY <1>7 DEF Push, SetUpdatedData
  <2>2. data' \in Record \cup {None} /\ seq' \in 0..MaxPushes
    BY <1>7, RecordsStep, NumbersStep DEF Next, Records, Numbers
  <2> QED BY <2>1, <2>2, ListenKeeps
<1>8. ASSUME NEW x \in Sensor, ClearAlert(x) PROVE Memory' /\ Timing' /\ Known'
  <2>1. Memory'
    BY <1>8 DEF ClearAlert, Memory
  <2>2. Known'
    BY <1>8 DEF ClearAlert, Known, session
  <2>3. on[x] /\ timers[x] = {0} /\ now - reported[x] = ClearAfter /\ reported[x] # None
    BY <1>8, Bounds DEF ClearAlert, Timing, Memory, Numbers
  <2>4. Timing'
    BY <1>8, <2>3, Bounds DEF ClearAlert, Timing, Memory, Numbers
  <2> QED BY <2>1, <2>2, <2>4
<1>9. CASE Restart
  <2>1. Memory'
    BY <1>9, Bounds DEF Restart, Memory
  <2> QED BY <1>9, <2>1 DEF Restart, Timing, Known
<1>10. CASE Tick
  <2>1. now' = now + 1 /\ now \in Nat
    BY <1>10, Bounds DEF Tick, Numbers
  <2>2. \A s \in Sensor : timers'[s] = {t - 1 : t \in timers[s]} /\ 0 \notin timers[s]
    BY <1>10 DEF Tick
  <2>3. timers' \in [Sensor -> SUBSET (0..ClearAfter)]
    BY <1>10, Bounds DEF Tick, Memory
  <2>4. Memory' /\ Known'
    BY <1>10, <2>3 DEF Tick, Memory, Known, session
  <2>5. Timing'
    <3> SUFFICES ASSUME NEW s \in Sensor
                 PROVE  /\ reported[s] # None => reported[s] <= now'
                        /\ on[s] => /\ reported[s] # None /\ now' - reported[s] <= ClearAfter
                                    /\ timers'[s] = {ClearAfter - (now' - reported[s])}
                        /\ ~on[s] => /\ timers'[s] = {}
                                     /\ reported[s] # None => now' - reported[s] >= ClearAfter
      BY <1>10 DEF Tick, Timing
    <3>1. reported[s] # None => reported[s] \in Nat
      BY Bounds DEF Memory
    <3>2. CASE on[s]
      <4>1. timers[s] = {ClearAfter - (now - reported[s])} /\ reported[s] # None
        BY <3>2 DEF Timing
      <4>2. ClearAfter - (now - reported[s]) # 0
        BY <4>1, <2>2
      <4>3. timers'[s] = {ClearAfter - (now - reported[s]) - 1}
        BY <4>1, <2>2
      <4> QED BY <3>1, <3>2, <4>1, <4>2, <4>3, <2>1, Bounds DEF Timing
    <3>3. CASE ~on[s]
      <4>1. timers'[s] = {}
        BY <3>3, <2>2 DEF Timing
      <4> QED BY <3>1, <3>3, <4>1, <2>1, Bounds DEF Timing
    <3> QED BY <3>2, <3>3
  <2> QED BY <2>4, <2>5
<1>11. CASE UNCHANGED vars
  BY <1>11 DEF vars, Memory, Timing, Known, world, polling, session, sensors
<1> QED BY <1>1, <1>2, <1>3, <1>4, <1>5, <1>6, <1>7, <1>8, <1>9, <1>10, <1>11 DEF Next

\* The step of NoReplay.
Rearmed ==
  \A s \in Sensor : ClearAfter \notin timers[s] /\ ClearAfter \in timers'[s]
    => \/ seq' # seq /\ s \in lanDps'
       \/ /\ data' # None /\ data'.kind = s
          /\ data'.stamp \notin fired[s] /\ now - data'.stamp <= MaxAge

\* A sensor looks at a push once, and acts on later records only.
LEMMA ListenRearms == ASSUME IInv, Listen, now' = now, [Next]_vars PROVE Rearmed
<1> SUFFICES ASSUME NEW s \in Sensor, ClearAfter \notin timers[s], ClearAfter \in timers'[s]
             PROVE  \/ seq' # seq /\ s \in lanDps'
                    \/ /\ data' # None /\ data'.kind = s
                       /\ data'.stamp \notin fired[s] /\ now - data'.stamp <= MaxAge
  BY DEF Rearmed
<1>1. Reports(s)
  BY DEF Listen
<1>2. CASE ByEvent(s)
  BY <1>2 DEF ByEvent, IInv, Known
<1>3. CASE ByRecord(s)
  <2>1. data' # None /\ data'.kind = s /\ IsNewEvent(data'.stamp, seen[s])
    BY <1>3 DEF ByRecord, Stamped
  <2>2. data'.stamp \in 0..MaxNow
    BY <2>1, RecordsStep, Bounds DEF Records, Record
  <2>3. data'.stamp \notin fired[s]
    BY <2>1, <2>2, Bounds DEF IsNewEvent, IInv, Known, Memory
  <2>4. now - data'.stamp <= MaxAge
    BY <2>1, <2>2, Bounds DEF IsNewEvent, IInv, Numbers
  <2> QED BY <2>1, <2>3, <2>4
<1> QED BY <1>1, <1>2, <1>3 DEF Reports

\* No other step turns a timer back.
LEMMA RearmStep == IInv /\ [Next]_vars => Rearmed
<1> SUFFICES ASSUME IInv, [Next]_vars PROVE Rearmed
  OBVIOUS
<1> USE DEF IInv, Rearmed
<1>1. ASSUME NEW k \in Kinds, Raise(k) PROVE Rearmed
  BY <1>1 DEF Raise, world, polling, session, sensors
<1>2. CASE CloudSyncs
  BY <1>2 DEF CloudSyncs, world, polling, session, sensors
<1>3. CASE LanChanges
  BY <1>3 DEF LanChanges, world, polling, session, sensors
<1>4. CASE SetSwitch
  <2>1. Listen /\ now' = now
    BY <1>4 DEF SetSwitch, SetUpdatedData
  <2> QED BY <2>1, ListenRearms
<1>5. CASE PollStart
  BY <1>5 DEF PollStart, world, polling, session, sensors
<1>6. CASE PollApplies
  <2>1. Listen /\ now' = now
    BY <1>6 DEF PollApplies, SetUpdatedData
  <2> QED BY <2>1, ListenRearms
<1>7. ASSUME NEW e \in SUBSET Sensor, NEW r \in BOOLEAN, Push(e, r) PROVE Rearmed
  <2>1. Listen /\ now' = now
    BY <1>7 DEF Push, SetUpdatedData
  <2> QED BY <2>1, ListenRearms
<1>8. ASSUME NEW x \in Sensor, ClearAlert(x) PROVE Rearmed
  BY <1>8 DEF ClearAlert, Memory
<1>9. CASE Restart
  BY <1>9 DEF Restart
<1>10. CASE Tick
  <2>1. \A s \in Sensor : timers'[s] = {t - 1 : t \in timers[s]} /\ timers[s] \subseteq 0..ClearAfter
    BY <1>10 DEF Tick, Memory
  <2> QED BY <2>1, Bounds
<1>11. CASE UNCHANGED vars
  BY <1>11 DEF vars, sensors
<1> QED BY <1>1, <1>2, <1>3, <1>4, <1>5, <1>6, <1>7, <1>8, <1>9, <1>10, <1>11 DEF Next

-----------------------------------------------------------------------------
LEMMA Inductive == IInv /\ [Next]_vars => IInv'
  BY NumbersStep, RecordsStep, SensorStep DEF IInv

LEMMA Invariant == Spec => []IInv
<1>1. IInv /\ [Next]_vars => IInv'
  BY Inductive
<1> QED BY InitInv, <1>1, PTL DEF Spec

(* The way of an alarm: from the camera's slot over the cloud to a poll.   *)

NotLater(r) == r = None \/ (raised # None /\ r.stamp <= raised.stamp)

\* The record in the camera's slot is the latest of all.
Ordered ==
  /\ waiting => raised # None
  /\ raised # None => raised.stamp <= now
  /\ NotLater(cloud) /\ NotLater(data) /\ \A r \in polled : NotLater(r)
  /\ \A s \in Sensor : seen[s] # None => raised # None /\ seen[s] <= raised.stamp

\* A sensor acted on the record it remembers, or that one was history.
Sighted ==
  \A s \in Sensor : seen[s] # None => seen[s] \in fired[s] \/ seen[s] + MaxAge < now

\* The sensor was told of the camera's alarm, by the record or by an event.
Reached ==
  raised.kind \in Sensor =>
    LET s == raised.kind IN
      raised.stamp \in fired[s] \/ (reported[s] # None /\ reported[s] >= raised.stamp)

\* An alarm that nobody was told of is on its way to the cloud, or will be in
\* the next poll; a poll that does not have it was asked for in the cloud's delay.
Underway ==
  waiting /\ ~Reached =>
    /\ IF cloud = raised THEN now + untilPoll <= raised.stamp + Lag + PollSlow
                         ELSE now = raised.stamp + lag
    /\ polled \notin {{}, {raised}} => now <= raised.stamp + Lag

AlarmInv == Ordered /\ Sighted /\ Underway

LEMMA Stamps ==
  ASSUME IInv
  PROVE  /\ raised # None => raised.stamp \in Nat
         /\ \A r \in {cloud, data} \cup polled : r = None \/ r.stamp \in Nat
         /\ \A s \in Sensor : seen[s] = None \/ seen[s] \in Nat
         /\ \A s \in Sensor : reported[s] = None \/ reported[s] \in Nat
         /\ now \in Nat /\ untilPoll \in Nat /\ untilPoll <= PollSlow /\ lag \in Nat /\ lag <= Lag
         /\ interval \in Nat /\ interval <= PollSlow
  BY Bounds DEF IInv, Numbers, Records, Memory, Record

\* Two records of one kind and one time are the same.
LEMMA SameRecord ==
  ASSUME NEW r \in Record, NEW q \in Record, r.kind = q.kind, r.stamp = q.stamp
  PROVE  r = q
  BY DEF Record

\* What an update does to the memory of the sensors.
LEMMA ListenSees ==
  ASSUME IInv, Listen, UNCHANGED <<now, raised>>, data' \in Record \cup {None},
         Ordered, Sighted, NotLater(data')
  PROVE  /\ \A s \in Sensor : seen'[s] # None => raised # None /\ seen'[s] <= raised.stamp
         /\ Sighted'
         /\ \A s \in Sensor : fired[s] \subseteq fired'[s] /\ reported'[s] \in {reported[s], now}
<1>1. \A s \in Sensor :
        /\ ByRecord(s) => Stamped(s) /\ seen'[s] = data'.stamp /\ data'.stamp \in fired'[s]
        /\ ~ByRecord(s) => \/ seen'[s] = seen[s]
                           \/ Stamped(s) /\ seen'[s] = data'.stamp /\ ~IsNewEvent(data'.stamp, None)
        /\ fired[s] \subseteq fired'[s] /\ reported'[s] \in {reported[s], now}
  BY DEF Listen, ByRecord, Stamped, IInv, Memory
<1>2. data' = None \/ data'.stamp \in Nat
  BY Bounds DEF Record
<1>3. \A s \in Sensor : Stamped(s) => data' # None
  BY DEF Stamped
<1>4. \A s \in Sensor : seen'[s] # None => raised # None /\ seen'[s] <= raised.stamp
  BY <1>1, <1>3 DEF Ordered, NotLater
<1>5. Sighted'
  BY <1>1, <1>2, <1>3, Stamps, Bounds DEF Sighted, IsNewEvent
<1> QED BY <1>1, <1>4, <1>5

\* An update that has the alarm in time tells its sensor.
LEMMA UpdateReaches ==
  ASSUME IInv, Listen, UNCHANGED <<now, raised>>, Ordered, Sighted, raised # None,
         data' = raised, now <= raised.stamp + MaxAge
  PROVE  Reached'
<1> SUFFICES ASSUME raised.kind \in Sensor
             PROVE  \/ raised.stamp \in fired'[raised.kind]
                    \/ /\ reported'[raised.kind] # None
                       /\ reported'[raised.kind] >= raised.stamp
  BY DEF Reached
<1> DEFINE s == raised.kind
<1>1. raised.stamp \in Nat /\ raised.stamp <= now /\ now \in Nat /\ Stamped(s)
  BY Stamps DEF Ordered, Stamped
<1>2. CASE ByEvent(s)
  BY <1>1, <1>2, Bounds DEF Listen, Reports
<1>3. CASE ~ByEvent(s) /\ IsNewEvent(raised.stamp, seen[s])
  BY <1>1, <1>3 DEF Listen, ByRecord
<1>4. CASE ~ByEvent(s) /\ ~IsNewEvent(raised.stamp, seen[s])
  <2>1. seen[s] # None /\ raised.stamp <= seen[s] /\ seen[s] \in Nat
    BY <1>1, <1>4, Stamps, Bounds DEF IsNewEvent
  <2>2. seen[s] = raised.stamp
    BY <1>1, <2>1 DEF Ordered
  <2>3. raised.stamp \in fired[s]
    BY <1>1, <2>1, <2>2, Bounds DEF Sighted
  <2> QED BY <2>3 DEF Listen, IInv, Memory
<1> QED BY <1>2, <1>3, <1>4

LEMMA ReachedStays ==
  ASSUME IInv, Ordered, Reached, raised # None, UNCHANGED raised,
         \A s \in Sensor : fired[s] \subseteq fired'[s] /\ reported'[s] \in {reported[s], now}
  PROVE  Reached'
  BY Stamps, Bounds DEF Reached, Ordered

\* As long as nobody was told of the alarm it is no history.
LEMMA StillRecent ==
  ASSUME IInv, Underway, waiting, ~Reached, raised # None
  PROVE  now <= raised.stamp + Lag + PollSlow /\ now <= raised.stamp + MaxAge
  BY Stamps, Bounds, CapAssumption DEF Underway

\* The order, which alarms, updates and restarts keep.
LEMMA OrderedStep == IInv /\ Ordered /\ Sighted /\ [Next]_vars => Ordered' /\ Sighted'
<1> SUFFICES ASSUME IInv, Ordered, Sighted, [Next]_vars PROVE Ordered' /\ Sighted'
  OBVIOUS
<1>0. data' \in Record \cup {None}
  BY RecordsStep DEF Records
<1>1. ASSUME NEW k \in Kinds, Raise(k) PROVE Ordered' /\ Sighted'
  <2>1. raised' # None /\ raised'.stamp = now /\ waiting' = TRUE
    <3>1. raised' \in Record /\ raised'.stamp = now /\ waiting' = TRUE
      BY <1>1 DEF Raise, IInv, Numbers, Record
    <3> QED BY <3>1, Bounds
  <2>2. UNCHANGED <<now, cloud, data, polled, seen, fired>>
    BY <1>1 DEF Raise, polling, sensors
  <2>3. \A r \in {cloud, data} \cup polled : NotLater(r) => NotLater(r)'
    BY <2>1, Stamps DEF NotLater, Ordered
  <2>4. \A s \in Sensor : seen[s] # None => seen[s] <= now
    BY Stamps DEF Ordered
  <2> QED BY <2>1, <2>2, <2>3, <2>4, Stamps DEF Ordered, Sighted, NotLater
<1>2. CASE CloudSyncs
  BY <1>2, Stamps DEF CloudSyncs, polling, sensors, Ordered, Sighted, NotLater
<1>3. CASE LanChanges
  BY <1>3 DEF LanChanges, world, polling, sensors, Ordered, Sighted, NotLater
<1>4. CASE SetSwitch
  <2>1. Listen /\ UNCHANGED <<now, raised, cloud, data, polled>> /\ waiting' = FALSE
    BY <1>4 DEF SetSwitch, SetUpdatedData, world
  <2>2. NotLater(data')
    BY <2>1 DEF Ordered
  <2> QED BY <1>0, <2>1, <2>2, ListenSees DEF Ordered, NotLater
<1>5. CASE PollStart
  BY <1>5 DEF PollStart, Request, world, sensors, Ordered, Sighted, NotLater
<1>6. CASE PollApplies
  <2>1. /\ Listen /\ UNCHANGED <<now, raised, cloud, waiting>> /\ polled' = {}
        /\ data' \in {data} \cup polled
    BY <1>6 DEF PollApplies, world
  <2>2. NotLater(data')
    BY <2>1 DEF Ordered
  <2> QED BY <1>0, <2>1, <2>2, ListenSees DEF Ordered, NotLater
<1>7. ASSUME NEW e \in SUBSET Sensor, NEW r \in BOOLEAN, Push(e, r) PROVE Ordered' /\ Sighted'
  <2>1. /\ Listen /\ UNCHANGED <<now, raised, cloud, polled>> /\ data' \in {data, raised}
        /\ waiting' => waiting
    BY <1>7 DEF Push, SetUpdatedData, world
  <2>2. NotLater(data')
    BY <2>1, Stamps DEF Ordered, NotLater
  <2> QED BY <1>0, <2>1, <2>2, ListenSees DEF Ordered, NotLater
<1>8. ASSUME NEW x \in Sensor, ClearAlert(x) PROVE Ordered' /\ Sighted'
  BY <1>8 DEF ClearAlert, world, polling, Ordered, Sighted, NotLater
<1>9. CASE Restart
  BY <1>9 DEF Restart, world, Ordered, Sighted, NotLater
<1>10. CASE Tick
  <2>1. now' = now + 1 /\ UNCHANGED <<raised, cloud, data, polled, seen, fired, waiting>>
    BY <1>10 DEF Tick
  <2> QED BY <2>1, Stamps, Bounds DEF Ordered, Sighted, NotLater
<1>11. CASE UNCHANGED vars
  BY <1>11 DEF vars, world, polling, sensors, Ordered, Sighted, NotLater
<1> QED BY <1>1, <1>2, <1>3, <1>4, <1>5, <1>6, <1>7, <1>8, <1>9, <1>10, <1>11 DEF Next

\* Until its sensor is told, an alarm keeps its deadline.
LEMMA UnderwayStep == IInv /\ AlarmInv /\ [Next]_vars => Underway'
<1> SUFFICES ASSUME IInv, AlarmInv, [Next]_vars, waiting', ~Reached'
             PROVE  /\ IF cloud' = raised' THEN now' + untilPoll' <= raised'.stamp + Lag + PollSlow
                                           ELSE now' = raised'.stamp + lag'
                    /\ polled' \notin {{}, {raised'}} => now' <= raised'.stamp + Lag
  BY DEF Underway
<1> USE DEF AlarmInv
<1> DEFINE Deadline ==
      /\ IF cloud = raised THEN now + untilPoll <= raised.stamp + Lag + PollSlow
                           ELSE now = raised.stamp + lag
      /\ polled \notin {{}, {raised}} => now <= raised.stamp + Lag
<1>1. ASSUME NEW k \in Kinds, Raise(k) PROVE Deadline'
  <2>1. raised'.stamp = now /\ lag' = 0 /\ UNCHANGED <<now, cloud, polled, untilPoll>>
    BY <1>1 DEF Raise, polling
  <2> QED BY <2>1, Stamps, Bounds
<1>2. ASSUME raised' = raised, waiting,
             \A s \in Sensor : fired[s] \subseteq fired'[s] /\ reported'[s] \in {reported[s], now}
      PROVE  Deadline /\ raised # None
  BY <1>2, ReachedStays DEF Underway, Ordered
<1>3. CASE CloudSyncs
  <2>1. /\ cloud # raised /\ cloud' = raised
        /\ UNCHANGED <<now, raised, lag, polled, untilPoll, waiting, fired, reported>>
    BY <1>3 DEF CloudSyncs, polling, sensors
  <2>2. Deadline /\ raised # None
    BY <1>2, <2>1
  <2> QED BY <2>1, <2>2, Stamps, Bounds
<1>4. CASE LanChanges
  <2>1. UNCHANGED <<now, raised, cloud, lag, polled, untilPoll, waiting, fired, reported>>
    BY <1>4 DEF LanChanges, world, polling, sensors
  <2> QED BY <1>2, <2>1
<1>5. CASE PollStart
  <2>1. /\ UNCHANGED <<now, raised, cloud, lag, untilPoll, waiting, fired, reported>>
        /\ polled' = {cloud}
    BY <1>5 DEF PollStart, Request, world, sensors
  <2>2. Deadline /\ raised # None
    BY <1>2, <2>1
  <2> QED BY <2>1, <2>2, Stamps, Bounds
<1>6. CASE PollApplies
  <2>1. /\ Listen /\ polled # {} /\ polled' = {} /\ untilPoll' = interval
        /\ UNCHANGED <<now, raised, cloud, lag, waiting>>
        /\ data' \in IF polled = {None} THEN {data} ELSE polled
    BY <1>6 DEF PollApplies, world
  <2>2. data' \in Record \cup {None} /\ NotLater(data')
    BY <2>1, RecordsStep DEF Records, Ordered
  <2>3. Deadline /\ raised # None
    BY <1>2, <2>1, <2>2, ListenSees
  <2>4. CASE polled = {raised}
    <3>1. data' = raised /\ ~Reached
      BY <2>1, <2>2, <2>3, <2>4, ReachedStays, ListenSees
    <3>2. now <= raised.stamp + MaxAge
      BY <2>1, <2>3, <3>1, StillRecent
    <3> QED BY <2>1, <2>3, <3>1, <3>2, UpdateReaches
  <2>5. CASE polled # {raised}
    <3>1. now <= raised.stamp + Lag
      BY <2>1, <2>3, <2>5
    <3> QED BY <2>1, <2>3, <3>1, Stamps, Bounds
  <2> QED BY <2>4, <2>5
<1>7. ASSUME NEW e \in SUBSET Sensor, NEW r \in BOOLEAN, Push(e, r) PROVE Deadline'
  <2>1. Listen /\ UNCHANGED <<now, raised, cloud, polled>> /\ data' = raised /\ waiting
    BY <1>7 DEF Push, SetUpdatedData, world
  <2>2. data' \in Record \cup {None} /\ NotLater(data')
    BY <2>1, RecordsStep, Stamps DEF Records, NotLater
  <2>3. raised # None /\ ~Reached
    BY <2>1, <2>2, ReachedStays, ListenSees DEF Ordered
  <2>4. now <= raised.stamp + MaxAge
    BY <2>1, <2>3, StillRecent
  <2> QED BY <2>1, <2>3, <2>4, UpdateReaches
<1>8. ASSUME NEW x \in Sensor, ClearAlert(x) PROVE Deadline'
  <2>1. UNCHANGED <<now, raised, cloud, lag, polled, untilPoll, waiting, fired, reported>>
    BY <1>8 DEF ClearAlert, world, polling
  <2> QED BY <1>2, <2>1
<1>9. CASE SetSwitch \/ Restart
  BY <1>9 DEF SetSwitch, Restart
<1>10. CASE Tick
  <2>1. /\ now' = now + 1 /\ untilPoll' = untilPoll - 1 /\ untilPoll > 0 /\ polled = {}
        /\ lag' = IF cloud = raised THEN lag ELSE lag + 1
        /\ UNCHANGED <<raised, cloud, polled, waiting, fired, reported>>
    BY <1>10 DEF Tick
  <2>2. Deadline /\ raised # None
    BY <1>2, <2>1
  <2> QED BY <2>1, <2>2, Stamps, Bounds
<1>11. CASE UNCHANGED vars
  <2>1. UNCHANGED <<now, raised, cloud, lag, polled, untilPoll, waiting, fired, reported>>
    BY <1>11 DEF vars, world, polling, sensors
  <2> QED BY <1>2, <2>1
<1> QED BY <1>1, <1>3, <1>4, <1>5, <1>6, <1>7, <1>8, <1>9, <1>10, <1>11 DEF Next

LEMMA AlarmsKeepTheirDeadline == Spec => []AlarmInv
<1>1. Init => AlarmInv
  BY DEF Init, AlarmInv, Ordered, Sighted, Underway, NotLater
<1>2. IInv /\ AlarmInv /\ [Next]_vars => AlarmInv'
  BY OrderedStep, UnderwayStep DEF AlarmInv
<1> QED BY <1>1, <1>2, Invariant, PTL DEF Spec

(* AlarmReachesSensor: because the cap on the age of a record is above the *)
(* slow interval and the cloud's delay (events.py), and a poll that does   *)
(* not have the alarm was asked for before the cloud had it, no alarm that *)
(* stays in the slot is taken for history.                                 *)
THEOREM AlarmsReachTheirSensor == Spec => []AlarmReachesSensor
<1>1. IInv /\ AlarmInv => AlarmReachesSensor
  <2> SUFFICES ASSUME IInv, AlarmInv, waiting, raised.kind \in Sensor,
                      now > raised.stamp + Lag + PollSlow
               PROVE  Reached
    BY DEF AlarmReachesSensor, Reached
  <2>1. raised # None /\ raised.stamp \in Nat
    BY Stamps DEF AlarmInv, Ordered
  <2> QED BY <2>1, StillRecent, Stamps, Bounds DEF AlarmInv
<1> QED BY <1>1, Invariant, AlarmsKeepTheirDeadline, PTL

(* One poll at a time, and every counter, record and timer in its range.   *)
THEOREM TypeCorrect == Spec => []TypeOK
<1>1. IInv => TypeOK
  <2> SUFFICES ASSUME IInv PROVE TypeOK
    OBVIOUS
  <2>1. polled \subseteq (Record \cup {None}) /\ Cardinality(polled) <= 1
    <3>1. CASE polled = {}
      BY <3>1, FS_EmptySet
    <3>2. CASE \E r \in Record \cup {None} : polled = {r}
      <4>1. PICK r \in Record \cup {None} : polled = {r}
        BY <3>2
      <4>2. Cardinality({r}) = 1
        BY FS_Singleton
      <4> QED BY <4>1, <4>2
    <3> QED BY <3>1, <3>2 DEF IInv, Records
  <2> QED BY <2>1 DEF IInv, Numbers, Records, Memory, TypeOK
<1> QED BY Invariant, <1>1, PTL

(* ShownForItsTime: a sensor that is on has exactly one timer, started by  *)
(* its last report, so an alert lasts ALERT_CLEAR_SECONDS whatever reports *)
(* overlap.                                                                *)
THEOREM AlertsLastTheirTime == Spec => []ShownForItsTime
<1>1. IInv => ShownForItsTime
  BY DEF IInv, Timing, ShownForItsTime
<1> QED BY Invariant, <1>1, PTL

(* NoReplay: because every update is looked at once and the latest stamp   *)
(* acted on is remembered, neither a poll that repeats a record nor one    *)
(* that brings an older one back turns a sensor on again.                  *)
THEOREM AlertsAreNotReplayed == Spec => NoReplay
<1>1. IInv /\ [Next]_vars => [Rearmed]_vars
  BY RearmStep
<1>2. Rearmed => (\A s \in Sensor : ClearAfter \notin timers[s] /\ ClearAfter \in timers'[s]
        => \/ seq' # seq /\ s \in lanDps'
           \/ /\ data' # None /\ data'.kind = s
              /\ data'.stamp \notin fired[s] /\ now - data'.stamp <= MaxAge)
  BY DEF Rearmed
<1> QED BY Invariant, <1>1, <1>2, PTL DEF Spec, NoReplay
=============================================================================
