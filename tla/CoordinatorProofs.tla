------------------------- MODULE CoordinatorProofs -------------------------
(***************************************************************************)
(* What holds of the coordinator for any number of entities, any values of *)
(* the data points, any settling time and any poll intervals.              *)
(***************************************************************************)
EXTENDS Coordinator, TLAPS

(* A held state has been held for what its timer has run.                  *)
TimerIsHold == timer # None => timer + held = Settle

(* A held state is always on a timer: no order of pushes, polls and         *)
(* commands forgets one (_hold_lullaby_state).                             *)
HeldIsTimed == (pending # None) <=> (timer # None)

(* The session exists only while the entry is loaded, and the wire holds   *)
(* nothing unless it is up.                                                *)
SessionFitsPhase ==
  /\ phase \in {"setup", "stopped"} => session = "none"
  /\ wire # <<>> => session = "up"

(* Once the entry is set up the entities show something, and the answer of *)
(* a poll is a state.                                                      *)
ShowsSomething ==
  /\ phase # "setup" => data # None
  /\ phase = "setup" => timer = None /\ \A c \in Caller : command[c] = NoCall
  /\ poll = "answered" => answer # None

(* A poll is put on the timer only while the entities are there.           *)
PollNeedsEntities == phase # "running" => wait \in {None, 0}

Safe == HeldIsTimed /\ HeldIsLatest /\ TimerIsHold /\ UnloadedIsQuiet
            /\ SessionFitsPhase /\ ShowsSomething /\ PollNeedsEntities

IInv == TypeOK /\ Safe

-----------------------------------------------------------------------------
(* The type invariant in four parts, for the steps that touch one of them. *)
WorldType ==
  /\ camera \in State /\ camera["alarm"] \in Nat /\ cloud \in State
  /\ session \in {"none", "down", "up"}
  /\ wire \in Seq(Frame)
  /\ {changes, calls, drops} \subseteq Nat
  /\ phase \in {"setup", "loading", "running", "unloading", "stopped"}

HoldType ==
  /\ pending \in Value \cup {None}
  /\ held \in 0 .. Settle /\ timer \in Ticks(Settle)
  /\ report \in [value : Value \cup {None}, age : 0 .. Settle]

ViewType ==
  /\ data \in State \cup {None}
  /\ interval \in {Fast, Slow} /\ wait \in Ticks(Slow)
  /\ poll \in {"idle", "asked", "answered"} /\ answer \in State \cup {None}
  /\ reauth \in BOOLEAN

CallType == command \in [Caller -> Calls \cup {NoCall}]

LEMMA TypeParts == TypeOK <=> WorldType /\ HoldType /\ ViewType /\ CallType
  BY DEF TypeOK, WorldType, HoldType, ViewType, CallType

LEMMA TypePartsNext == TypeOK' <=> WorldType' /\ HoldType' /\ ViewType' /\ CallType'
  BY DEF TypeOK, WorldType, HoldType, ViewType, CallType

-----------------------------------------------------------------------------
(* Merging keeps every data point, and a push without its lullaby state    *)
(* leaves the shown one alone.                                             *)
LEMMA MergeType ==
  ASSUME NEW s \in State, NEW f \in State \cup Frame PROVE Merge(s, f) \in State
  BY DEF Merge, State, Frame, Key, Value

LEMMA OneType ==
  ASSUME NEW k \in {"lullaby", "mode"}, NEW v \in Value PROVE One(k, v) \in Frame
  <1>1. CASE k = "lullaby"  BY <1>1 DEF One, Frame
  <1>2. CASE k = "mode"     BY <1>2 DEF One, Frame
  <1> QED  BY <1>1, <1>2

LEMMA RestType ==
  ASSUME NEW s \in State, NEW f \in Frame
  PROVE  /\ Merge(s, Rest(f)) \in State
         /\ Merge(s, Rest(f))["lullaby"] = s["lullaby"]
  BY DEF Merge, Rest, State, Frame, Key, Value

LEMMA OnePoint ==
  ASSUME NEW s \in State, NEW k \in {"lullaby", "mode"}, NEW v \in Value
  PROVE  Merge(s, One(k, v)) \in State
  BY OneType, MergeType

LEMMA StatePoints ==
  ASSUME NEW s \in State PROVE s["lullaby"] \in Value /\ s["mode"] \in Value
  BY DEF State, Key

LEMMA NoneIsNothing == None \notin Value /\ None \notin State /\ None \notin Nat
  BY CoordinatorAssumption DEF Value

LEMMA LullabyReport ==
  ASSUME NEW f \in Frame, "lullaby" \in DOMAIN f PROVE f["lullaby"] \in Value
  BY DEF Frame

LEMMA Periods ==
  /\ Settle \in Nat /\ Settle > 0 /\ Fast \in Nat /\ Slow \in Nat /\ Fast <= Slow
  /\ 0 \in Ticks(Slow) /\ None \in Ticks(Slow)
  /\ {Fast, Slow} \subseteq Ticks(Slow)
  BY CoordinatorAssumption DEF Ticks

(* The next poll is never put on the timer of an unloaded entry.           *)
LEMMA NextPollType ==
  ASSUME ViewType
  PROVE  NextPoll \in Ticks(Slow) /\ (phase # "running" => NextPoll \in {None, 0})
  BY CoordinatorAssumption DEF NextPoll, Queued, ViewType, Ticks

LEMMA ShownType ==
  ASSUME ViewType, NEW s \in State, SetUpdatedData(s), UNCHANGED polling
  PROVE  ViewType' /\ data' # None /\ (phase # "running" => wait' \in {None, 0})
  BY NextPollType, NoneIsNothing DEF SetUpdatedData, ViewType, polling

LEMMA BecomesType ==
  ASSUME WorldType, NEW k \in {"lullaby", "mode"}, NEW v \in Value, Becomes(k, v),
         UNCHANGED <<cloud, session, drops, phase>>, {changes', calls'} \subseteq Nat
  PROVE  WorldType' /\ (wire' # <<>> => wire # <<>> \/ session = "up")
<1>1. camera' \in State /\ camera'["alarm"] \in Nat
  BY DEF WorldType, Becomes, State, Key
<1>2. wire' \in Seq(Frame) /\ (wire' # <<>> => wire # <<>> \/ session = "up")
  BY OneType DEF WorldType, Becomes
<1> QED  BY <1>1, <1>2 DEF WorldType

LEMMA CallOf ==
  ASSUME CallType, NEW c \in Caller, command[c].stage # "idle"
  PROVE  command[c].key \in {"lullaby", "mode"} /\ command[c].value \in Value
           /\ command[c].sent \in BOOLEAN /\ command[c] # NoCall
  BY DEF CallType, Calls, NoCall

LEMMA SetCallType ==
  ASSUME CallType, NEW c \in Caller, NEW call \in Calls \cup {NoCall}, SetCall(c, call)
  PROVE  CallType'
  BY DEF CallType, SetCall
-----------------------------------------------------------------------------
LEMMA InitIInv == Init => IInv
<1> SUFFICES ASSUME Init PROVE IInv
    OBVIOUS
<1>1. WorldType
  BY CoordinatorAssumption DEF Init, WorldType
<1>2. HoldType /\ CallType
  BY Periods DEF Init, HoldType, CallType, Ticks
<1>3. ViewType
  BY Periods DEF Init, ViewType
<1>4. Safe
  BY CoordinatorAssumption DEF Init, Safe, HeldIsTimed, HeldIsLatest, TimerIsHold,
       UnloadedIsQuiet, SessionFitsPhase, ShowsSomething, PollNeedsEntities
<1> QED  BY <1>1, <1>2, <1>3, <1>4, TypeParts DEF IInv

LEMMA NextIInv == IInv /\ [Next]_vars => IInv'
<1> SUFFICES ASSUME WorldType, HoldType, ViewType, CallType, Safe, [Next]_vars
             PROVE  WorldType' /\ HoldType' /\ ViewType' /\ CallType' /\ Safe'
    BY TypeParts, TypePartsNext DEF IInv
<1>1. CASE CameraChanges
  <2>1. HoldType' /\ ViewType' /\ CallType'
    BY <1>1 DEF CameraChanges, HoldType, ViewType, CallType, world, holding, polling
  <2>2. WorldType'
    <3>1. CASE \E v \in Playback \ {camera["lullaby"]} : Becomes("lullaby", v)
      BY <1>1, <3>1, BecomesType DEF CameraChanges, WorldType, Value
    <3>2. CASE \E v \in Mode \ {camera["mode"]} : Becomes("mode", v)
      BY <1>1, <3>2, BecomesType DEF CameraChanges, WorldType, Value
    <3>3. CASE Becomes("alarm", camera["alarm"] + 1)
      <4>1. camera' \in State /\ camera'["alarm"] \in Nat
        BY <3>3 DEF WorldType, Becomes, State, Key, Value
      <4> QED  BY <1>1, <3>3, <4>1 DEF CameraChanges, WorldType, Becomes
    <3> QED  BY <1>1, <3>1, <3>2, <3>3 DEF CameraChanges
  <2>3. Safe'
    BY <1>1 DEF CameraChanges, Becomes, world, holding, polling,
       Safe, HeldIsTimed, HeldIsLatest, TimerIsHold, UnloadedIsQuiet,
       SessionFitsPhase, ShowsSomething, PollNeedsEntities
  <2> QED  BY <2>1, <2>2, <2>3
<1>2. CASE CameraRepeats
  <2>1. HoldType' /\ ViewType' /\ CallType'
    BY <1>2 DEF CameraRepeats, HoldType, ViewType, CallType, world, holding, polling
  <2>2. WorldType'
    BY <1>2, OneType, StatePoints DEF CameraRepeats, WorldType
  <2>3. Safe'
    BY <1>2 DEF CameraRepeats, world, holding, polling,
       Safe, HeldIsTimed, HeldIsLatest, TimerIsHold, UnloadedIsQuiet,
       SessionFitsPhase, ShowsSomething, PollNeedsEntities
  <2> QED  BY <2>1, <2>2, <2>3
<1>3. CASE CloudSyncs
  <2>1. HoldType' /\ ViewType' /\ CallType'
    BY <1>3 DEF CloudSyncs, HoldType, ViewType, CallType, world, holding, polling
  <2>2. WorldType'
    BY <1>3 DEF CloudSyncs, WorldType
  <2>3. Safe'
    BY <1>3 DEF CloudSyncs, world, holding, polling,
       Safe, HeldIsTimed, HeldIsLatest, TimerIsHold, UnloadedIsQuiet,
       SessionFitsPhase, ShowsSomething, PollNeedsEntities
  <2> QED  BY <2>1, <2>2, <2>3
<1>4. CASE SessionUp
  <2>1. HoldType' /\ ViewType' /\ CallType'
    BY <1>4 DEF SessionUp, HoldType, ViewType, CallType, world, holding, polling
  <2>2. WorldType'
    BY <1>4 DEF SessionUp, WorldType
  <2>3. Safe'
    BY <1>4 DEF SessionUp, world, holding, polling,
       Safe, HeldIsTimed, HeldIsLatest, TimerIsHold, UnloadedIsQuiet,
       SessionFitsPhase, ShowsSomething, PollNeedsEntities
  <2> QED  BY <2>1, <2>2, <2>3
<1>5. CASE SessionDown
  <2>1. HoldType' /\ ViewType' /\ CallType'
    BY <1>5 DEF SessionDown, HoldType, ViewType, CallType, world, holding, polling
  <2>2. WorldType'
    BY <1>5 DEF SessionDown, WorldType
  <2>3. Safe'
    BY <1>5 DEF SessionDown, world, holding, polling,
       Safe, HeldIsTimed, HeldIsLatest, TimerIsHold, UnloadedIsQuiet,
       SessionFitsPhase, ShowsSomething, PollNeedsEntities
  <2> QED  BY <2>1, <2>2, <2>3
<1>6. CASE LanPush
  <2>1. /\ Head(wire) \in Frame /\ Tail(wire) \in Seq(Frame) /\ wire # <<>>
        /\ data \in State /\ session = "up" /\ phase \notin {"setup", "stopped"}
    BY <1>6 DEF LanPush, WorldType, ViewType, Safe, SessionFitsPhase, ShowsSomething
  <2>2. CallType'
    BY <1>6 DEF LanPush, CallType, world, holding, polling
  <2>3. WorldType'
    BY <1>6, <2>1 DEF LanPush, WorldType
  <2>4. HoldType'
    BY <1>6, <2>1, LullabyReport, CoordinatorAssumption
       DEF LanPush, HoldType, HoldLullaby, Hold, Cancel, Ticks, holding
  <2>5. ViewType'
    BY <1>6, <2>1, RestType, ShownType DEF LanPush
  <2>6. Safe'
    <3>1. /\ data' # None /\ (phase # "running" => wait' \in {None, 0})
          /\ phase' = phase /\ session' = session /\ poll' = poll /\ answer' = answer
      BY <1>6, <2>1, RestType, ShownType DEF LanPush, polling
    <3>2. HeldIsTimed' /\ HeldIsLatest' /\ TimerIsHold'
      <4>1. CASE "lullaby" \notin DOMAIN Head(wire)
        BY <1>6, <4>1 DEF LanPush, HoldLullaby, holding, Safe, HeldIsTimed, HeldIsLatest, TimerIsHold
      <4>2. CASE "lullaby" \in DOMAIN Head(wire)
        BY <1>6, <2>1, <4>2, LullabyReport, NoneIsNothing, Periods
        DEF LanPush, HoldLullaby, Hold, Cancel, HeldIsTimed, HeldIsLatest, TimerIsHold
      <4> QED  BY <4>1, <4>2
    <3> QED  BY <1>6, <2>1, <3>1, <3>2
             DEF Safe, UnloadedIsQuiet, SessionFitsPhase, ShowsSomething, PollNeedsEntities
  <2> QED  BY <2>2, <2>3, <2>4, <2>5, <2>6
<1>7. CASE CommitLullaby
  <2>1. pending \in Value /\ data \in State
    BY <1>7, NoneIsNothing DEF CommitLullaby, HoldType, ViewType, Safe, HeldIsTimed, ShowsSomething
  <2>2. WorldType' /\ CallType'
    BY <1>7 DEF CommitLullaby, WorldType, CallType, world, holding, polling
  <2>3. HoldType'
    BY <1>7, CoordinatorAssumption DEF CommitLullaby, HoldType, Ticks
  <2>4. ViewType'
    BY <1>7, <2>1, OnePoint, ShownType DEF CommitLullaby, ViewType, polling
  <2>5. Safe'
    BY <1>7, <2>1, OnePoint, ShownType, NoneIsNothing, CoordinatorAssumption DEF CommitLullaby, HoldType, Ticks, world, holding, polling,
       Safe, HeldIsTimed, HeldIsLatest, TimerIsHold, UnloadedIsQuiet,
       SessionFitsPhase, ShowsSomething, PollNeedsEntities
  <2> QED  BY <2>2, <2>3, <2>4, <2>5
<1>8. CASE PollStart
  <2>1. WorldType' /\ HoldType' /\ CallType'
    BY <1>8 DEF PollStart, WorldType, HoldType, CallType, world, holding, polling
  <2>2. ViewType'
    BY <1>8 DEF PollStart, ViewType, StayFast, Ticks
  <2>3. Safe'
    BY <1>8 DEF PollStart, world, holding, polling,
       Safe, HeldIsTimed, HeldIsLatest, TimerIsHold, UnloadedIsQuiet,
       SessionFitsPhase, ShowsSomething, PollNeedsEntities
  <2> QED  BY <2>1, <2>2, <2>3
<1>9. CASE CloudAnswers
  <2>1. WorldType' /\ HoldType' /\ CallType'
    BY <1>9 DEF CloudAnswers, WorldType, HoldType, CallType, world, holding, polling
  <2>2. ViewType'
    BY <1>9 DEF CloudAnswers, ViewType, WorldType
  <2>3. Safe'
    BY <1>9, NoneIsNothing DEF CloudAnswers, WorldType, world, holding, polling,
       Safe, HeldIsTimed, HeldIsLatest, TimerIsHold, UnloadedIsQuiet,
       SessionFitsPhase, ShowsSomething, PollNeedsEntities
  <2> QED  BY <2>1, <2>2, <2>3
<1>10. CASE PollApplies
  <2>1. data \in State /\ answer \in State
    BY <1>10 DEF PollApplies, ViewType, Safe, ShowsSomething
  <2>2. WorldType' /\ HoldType' /\ CallType'
    BY <1>10 DEF PollApplies, WorldType, HoldType, CallType, world, holding, polling
  <2>3. ViewType'
    BY <1>10, <2>1, MergeType, NextPollType DEF PollApplies, ViewType
  <2>4. Safe'
    BY <1>10, <2>1, MergeType, NextPollType, NoneIsNothing DEF PollApplies, world, holding, polling,
       Safe, HeldIsTimed, HeldIsLatest, TimerIsHold, UnloadedIsQuiet,
       SessionFitsPhase, ShowsSomething, PollNeedsEntities
  <2> QED  BY <2>2, <2>3, <2>4
<1>11. CASE PollFails
  <2>1. WorldType' /\ HoldType' /\ CallType'
    BY <1>11 DEF PollFails, WorldType, HoldType, CallType, world, holding, polling
  <2>2. ViewType'
    BY <1>11, NextPollType DEF PollFails, ViewType
  <2>3. Safe'
    BY <1>11, NextPollType DEF PollFails, world, holding, polling,
       Safe, HeldIsTimed, HeldIsLatest, TimerIsHold, UnloadedIsQuiet,
       SessionFitsPhase, ShowsSomething, PollNeedsEntities
  <2> QED  BY <2>1, <2>2, <2>3
<1>12. CASE PollRejected
  <2>1. WorldType' /\ HoldType' /\ CallType'
    BY <1>12 DEF PollRejected, WorldType, HoldType, CallType, world, holding, polling
  <2>2. ViewType'
    BY <1>12, Periods DEF PollRejected, ViewType
  <2>3. Safe'
    BY <1>12 DEF PollRejected, world, holding, polling,
       Safe, HeldIsTimed, HeldIsLatest, TimerIsHold, UnloadedIsQuiet,
       SessionFitsPhase, ShowsSomething, PollNeedsEntities
  <2> QED  BY <2>1, <2>2, <2>3
<1>13. ASSUME NEW c \in Caller, NEW k \in {"lullaby", "mode"}, NEW v \in Value, Command(c, k, v)
      PROVE  WorldType' /\ HoldType' /\ ViewType' /\ CallType' /\ Safe'
  <2>1. data \in State
    BY <1>13 DEF Command, ViewType, Safe, ShowsSomething
  <2>2. HoldType'
    BY <1>13 DEF Command, HoldType, world, holding, polling
  <2>3. WorldType'
    BY <1>13 DEF Command, WorldType
  <2>4. ViewType'
    BY <1>13, <2>1, OnePoint, ShownType DEF Command, ShowOptimistic, ViewType, polling
  <2>5. CallType'
    BY <1>13, SetCallType DEF Command, Calls, Stages
  <2>6. Safe'
    BY <1>13, <2>1, OnePoint, ShownType, NoneIsNothing DEF Command, ShowOptimistic, SetCall, world, holding, polling,
       Safe, HeldIsTimed, HeldIsLatest, TimerIsHold, UnloadedIsQuiet,
       SessionFitsPhase, ShowsSomething, PollNeedsEntities
  <2> QED  BY <2>2, <2>3, <2>4, <2>5, <2>6
<1>14. ASSUME NEW c \in Caller, LanDelivers(c)
      PROVE  WorldType' /\ HoldType' /\ ViewType' /\ CallType' /\ Safe'
  <2>1. /\ command[c].key \in {"lullaby", "mode"} /\ command[c].value \in Value
        /\ command[c].sent \in BOOLEAN /\ command[c] # NoCall
        /\ phase # "setup" /\ data \in State
    BY <1>14, CallOf DEF LanDelivers, ViewType, Safe, ShowsSomething
  <2>2. HoldType' /\ ViewType'
    BY <1>14 DEF LanDelivers, HoldType, ViewType, world, holding, polling
  <2>3. WorldType' /\ (wire' # <<>> => wire # <<>> \/ session = "up")
    BY <1>14, <2>1, BecomesType DEF LanDelivers, WorldType
  <2>4. CallType'
    BY <1>14, <2>1, SetCallType DEF LanDelivers, CallType, Calls, Stages, NoCall
  <2>5. Safe'
    BY <1>14, <2>1, <2>3 DEF LanDelivers, world, holding, polling,
       Safe, HeldIsTimed, HeldIsLatest, TimerIsHold, UnloadedIsQuiet,
       SessionFitsPhase, ShowsSomething, PollNeedsEntities
  <2> QED  BY <2>2, <2>3, <2>4, <2>5
<1>15. ASSUME NEW c \in Caller, LanReturns(c)
      PROVE  WorldType' /\ HoldType' /\ ViewType' /\ CallType' /\ Safe'
  <2>1. /\ command[c].key \in {"lullaby", "mode"} /\ command[c].value \in Value
        /\ command[c].sent \in BOOLEAN /\ command[c] # NoCall
        /\ phase # "setup" /\ data \in State
    BY <1>15, CallOf DEF LanReturns, ViewType, Safe, ShowsSomething
  <2>2. WorldType' /\ HoldType'
    BY <1>15 DEF LanReturns, WorldType, HoldType, world, holding, polling
  <2>3. ViewType'
    BY <1>15, <2>1, OnePoint, ShownType DEF LanReturns, ShowOptimistic
  <2>4. CallType'
    <3>1. PICK ok \in BOOLEAN : SetCall(c, [command[c] EXCEPT !.stage = "cloud", !.sent = ok])
      BY <1>15 DEF LanReturns
    <3>2. [command[c] EXCEPT !.stage = "cloud", !.sent = ok] \in Calls
      BY <1>15, <2>1 DEF CallType, Calls, Stages
    <3> QED  BY <3>1, <3>2, SetCallType
  <2>5. Safe'
    BY <1>15, <2>1, OnePoint, ShownType, NoneIsNothing DEF LanReturns, ShowOptimistic, world, holding, polling,
       Safe, HeldIsTimed, HeldIsLatest, TimerIsHold, UnloadedIsQuiet,
       SessionFitsPhase, ShowsSomething, PollNeedsEntities
  <2> QED  BY <2>2, <2>3, <2>4, <2>5
<1>16. ASSUME NEW c \in Caller, CloudReturns(c)
      PROVE  WorldType' /\ HoldType' /\ ViewType' /\ CallType' /\ Safe'
  <2>1. /\ command[c].key \in {"lullaby", "mode"} /\ command[c].value \in Value
        /\ command[c].sent \in BOOLEAN /\ command[c] # NoCall
        /\ phase # "setup" /\ data \in State
    BY <1>16, CallOf DEF CloudReturns, ViewType, Safe, ShowsSomething
  <2>2. HoldType'
    BY <1>16 DEF CloudReturns, HoldType, world, holding, polling
  <2>3. WorldType' /\ (wire' # <<>> => wire # <<>> \/ session = "up")
    BY <1>16, <2>1, BecomesType DEF CloudReturns, WorldType
  <2>4. ViewType'
    <3>1. PICK ok \in BOOLEAN :
            data' = IF (ok \/ command[c].sent) /\ command[c].key = "mode"
                    THEN Merge(data, One("mode", command[c].value)) ELSE data
      BY <1>16 DEF CloudReturns
    <3>2. data' \in State
      BY <2>1, <3>1, OnePoint
    <3> QED  BY <1>16, <3>2 DEF CloudReturns, ViewType, polling
  <2>5. CallType'
    BY <1>16, SetCallType DEF CloudReturns
  <2>6. Safe'
    BY <1>16, <2>1, OnePoint, NoneIsNothing, <2>3 DEF CloudReturns, SetCall, world, holding, polling,
       Safe, HeldIsTimed, HeldIsLatest, TimerIsHold, UnloadedIsQuiet,
       SessionFitsPhase, ShowsSomething, PollNeedsEntities
  <2> QED  BY <2>2, <2>3, <2>4, <2>5, <2>6
<1>17. CASE FirstRefresh
  <2>1. HoldType' /\ CallType'
    BY <1>17 DEF FirstRefresh, HoldType, CallType, world, holding, polling
  <2>2. WorldType'
    BY <1>17 DEF FirstRefresh, WorldType
  <2>3. ViewType'
    BY <1>17 DEF FirstRefresh, ViewType
  <2>4. Safe'
    BY <1>17 DEF FirstRefresh, ViewType, world, holding, polling,
       Safe, HeldIsTimed, HeldIsLatest, TimerIsHold, UnloadedIsQuiet,
       SessionFitsPhase, ShowsSomething, PollNeedsEntities
  <2> QED  BY <2>1, <2>2, <2>3, <2>4
<1>18. CASE AddEntities
  <2>1. HoldType' /\ CallType'
    BY <1>18 DEF AddEntities, HoldType, CallType, world, holding, polling
  <2>2. WorldType'
    BY <1>18 DEF AddEntities, WorldType, world
  <2>3. ViewType'
    BY <1>18, Periods DEF AddEntities, ViewType, polling
  <2>4. Safe'
    BY <1>18 DEF AddEntities, world, holding, polling,
       Safe, HeldIsTimed, HeldIsLatest, TimerIsHold, UnloadedIsQuiet,
       SessionFitsPhase, ShowsSomething, PollNeedsEntities
  <2> QED  BY <2>1, <2>2, <2>3, <2>4
<1>19. CASE RemoveEntities
  <2>1. HoldType' /\ CallType'
    BY <1>19 DEF RemoveEntities, HoldType, CallType, world, holding, polling
  <2>2. WorldType'
    BY <1>19 DEF RemoveEntities, WorldType, world
  <2>3. ViewType'
    BY <1>19, Periods DEF RemoveEntities, ViewType, polling
  <2>4. Safe'
    BY <1>19 DEF RemoveEntities, world, holding, polling,
       Safe, HeldIsTimed, HeldIsLatest, TimerIsHold, UnloadedIsQuiet,
       SessionFitsPhase, ShowsSomething, PollNeedsEntities
  <2> QED  BY <2>1, <2>2, <2>3, <2>4
<1>20. CASE StopLan
  <2>1. wait \in {None, 0}
    BY <1>20 DEF StopLan, Safe, PollNeedsEntities
  <2>2. ViewType' /\ CallType'
    BY <1>20 DEF StopLan, ViewType, CallType, world, holding, polling
  <2>3. WorldType'
    BY <1>20 DEF StopLan, WorldType
  <2>4. HoldType'
    BY <1>20, CoordinatorAssumption DEF StopLan, Cancel, HoldType, Ticks
  <2>5. Safe'
    BY <1>20 DEF StopLan, Cancel, world, holding, polling,
       Safe, HeldIsTimed, HeldIsLatest, TimerIsHold, UnloadedIsQuiet,
       SessionFitsPhase, ShowsSomething, PollNeedsEntities
  <2> QED  BY <2>2, <2>3, <2>4, <2>5
<1>21. CASE Tick
  <2>1. WorldType' /\ CallType'
    BY <1>21 DEF Tick, WorldType, CallType, world, holding, polling
  <2>2. HoldType'
    <3>1. timer' \in Ticks(Settle)
      BY <1>21, NoneIsNothing, Periods DEF Tick, HoldType, Ticks, Nearer
    <3>2. held' \in 0 .. Settle
      BY <1>21, CoordinatorAssumption DEF Tick, HoldType, Older
    <3>3. report' \in [value : Value \cup {None}, age : 0 .. Settle]
      BY <1>21, CoordinatorAssumption DEF Tick, HoldType, Older
    <3> QED  BY <1>21, <3>1, <3>2, <3>3 DEF Tick, HoldType
  <2>3. ViewType'
    <3>1. wait' \in Ticks(Slow)
      BY <1>21, NoneIsNothing, Periods DEF Tick, ViewType, Ticks, Nearer
    <3> QED  BY <1>21, <3>1 DEF Tick, ViewType, polling
  <2>4. Safe'
    BY <1>21, NoneIsNothing, CoordinatorAssumption DEF Tick, Older, Nearer, HoldType, Ticks, world, holding, polling,
       Safe, HeldIsTimed, HeldIsLatest, TimerIsHold, UnloadedIsQuiet,
       SessionFitsPhase, ShowsSomething, PollNeedsEntities
  <2> QED  BY <2>1, <2>2, <2>3, <2>4
<1>22. CASE UNCHANGED vars
  <2>1. WorldType' /\ HoldType' /\ ViewType' /\ CallType'
    BY <1>22 DEF vars, WorldType, HoldType, ViewType, CallType, world, holding, polling
  <2>2. Safe'
    BY <1>22 DEF vars, world, holding, polling,
       Safe, HeldIsTimed, HeldIsLatest, TimerIsHold, UnloadedIsQuiet,
       SessionFitsPhase, ShowsSomething, PollNeedsEntities
  <2> QED  BY <2>1, <2>2
<1> QED  BY <1>1, <1>2, <1>3, <1>4, <1>5, <1>6, <1>7, <1>8, <1>9, <1>10, <1>11, <1>12, <1>13, <1>14, <1>15, <1>16, <1>17, <1>18, <1>19, <1>20, <1>21, <1>22 DEF Next, World, Value
-----------------------------------------------------------------------------
(* In every state the types hold, and the facts the invariant is made of.  *)
THEOREM InductiveInvariant == Spec => []IInv
  BY InitIInv, NextIInv, PTL DEF Spec

(* The variables of the coordinator keep their types.                      *)
THEOREM TypeCorrect == Spec => []TypeOK
<1>1. IInv => TypeOK
  BY DEF IInv
<1> QED  BY <1>1, InductiveInvariant, PTL

(* No order of pushes, polls and commands leaves a held lullaby state      *)
(* without a timer, or a timer with nothing to show.                       *)
THEOREM NothingHeldIsForgotten == Spec => []HeldIsTimed
<1>1. IInv => HeldIsTimed
  BY DEF IInv, Safe
<1> QED  BY <1>1, InductiveInvariant, PTL

(* The held state is the latest that the monitor reported.                 *)
THEOREM NothingHeldIsStale == Spec => []HeldIsLatest
<1>1. IInv => HeldIsLatest
  BY DEF IInv, Safe
<1> QED  BY <1>1, InductiveInvariant, PTL

(* Unloading the entry leaves no hold and schedules no poll.               *)
THEOREM UnloadingIsClean == Spec => []UnloadedIsQuiet
<1>1. IInv => UnloadedIsQuiet
  BY DEF IInv, Safe
<1> QED  BY <1>1, InductiveInvariant, PTL

(* The one step that shows a reported lullaby state is the timer's, and it *)
(* runs a full settling time after the latest report, which is of that     *)
(* state: what a push brings besides leaves the shown one alone.           *)
LEMMA StepShowsSettled ==
  ASSUME IInv, [Next]_vars, data # None, data'["lullaby"] # data["lullaby"],
         ~Polled, ~Commanded
  PROVE  data'["lullaby"] = report.value /\ report.age = Settle
<1> USE DEF Polled, Commanded
<1> WorldType /\ HoldType /\ ViewType /\ CallType /\ Safe
  BY TypeParts DEF IInv
<1>1. data \in State
  BY DEF ViewType
<1>2. ~LanPush
  <2>1. ASSUME LanPush PROVE data'["lullaby"] = data["lullaby"]
    <3>1. Head(wire) \in Frame
      BY <2>1 DEF LanPush, WorldType
    <3> QED  BY <1>1, <2>1, <3>1, RestType DEF LanPush, SetUpdatedData
  <2> QED  BY <2>1
<1>3. ~CameraChanges /\ ~CameraRepeats /\ ~CloudSyncs /\ ~SessionUp /\ ~SessionDown
  BY DEF CameraChanges, CameraRepeats, CloudSyncs, SessionUp, SessionDown
<1>4. ~PollStart /\ ~CloudAnswers /\ ~PollApplies /\ ~PollFails /\ ~PollRejected
  BY DEF PollStart, CloudAnswers, PollApplies, PollFails, PollRejected
<1>5. ASSUME NEW c \in Caller
      PROVE  /\ \A k \in {"lullaby", "mode"}, v \in Value : ~Command(c, k, v)
             /\ ~LanDelivers(c) /\ ~LanReturns(c) /\ ~CloudReturns(c)
  <2>1. \A k \in {"lullaby", "mode"}, v \in Value : ~Command(c, k, v)
    BY DEF Command, InFlight, SetCall, CallType
  <2>2. ~LanDelivers(c)
    BY DEF LanDelivers
  <2>3. ~LanReturns(c)
    <3> SUFFICES ASSUME LanReturns(c) PROVE FALSE
        OBVIOUS
    <3>1. PICK ok \in BOOLEAN : SetCall(c, [command[c] EXCEPT !.stage = "cloud", !.sent = ok])
      BY DEF LanReturns
    <3>2. command[c] \in Calls /\ command[c].stage # "cloud"
      BY DEF LanReturns, CallType, NoCall
    <3>3. command'[c].stage = "cloud"
      BY <3>1, <3>2 DEF SetCall, CallType, Calls
    <3> QED  BY <3>2, <3>3
  <2>4. ~CloudReturns(c)
    BY DEF CloudReturns, SetCall, CallType, NoCall
  <2> QED  BY <2>1, <2>2, <2>3, <2>4
<1>6. ~FirstRefresh /\ ~AddEntities /\ ~RemoveEntities /\ ~StopLan /\ ~Tick /\ ~UNCHANGED vars
  BY DEF FirstRefresh, AddEntities, RemoveEntities, StopLan, Tick, vars
<1>7. CommitLullaby
  BY <1>2, <1>3, <1>4, <1>5, <1>6 DEF Next, World, Value
<1>8. pending # None /\ held >= Settle /\ data' = Merge(data, One("lullaby", pending))
  BY <1>7, NoneIsNothing DEF CommitLullaby, SetUpdatedData, Safe, HeldIsTimed
<1>9. data'["lullaby"] = pending
  BY <1>1, <1>8 DEF Merge, One, State, Key
<1> QED  BY <1>8, <1>9, Periods DEF HoldType, Safe, HeldIsLatest

(* OnlySettledIsShown holds of every run of the coordinator.               *)
THEOREM SettledOnly == Spec => OnlySettledIsShown
<1>1. IInv /\ [Next]_vars =>
        [(data # None /\ data'["lullaby"] # data["lullaby"] /\ ~Polled /\ ~Commanded)
           => data'["lullaby"] = report.value /\ report.age = Settle]_vars
  BY StepShowsSettled
<1> QED  BY <1>1, InductiveInvariant, PTL DEF Spec, OnlySettledIsShown
=============================================================================
