-------------------------- MODULE RTSPServerProofs --------------------------
(***************************************************************************)
(* What holds of the RTSP server for any number of connections, streams    *)
(* and bridges.                                                            *)
(***************************************************************************)
EXTENDS RTSPServer, TLAPS

\* A connection that has been given its stream and has not left it.
Holding == {"adding", "joining", "serving", "leaving", "removing"}

\* Clients and startStream goroutines work on streams that exist.
Attached ==
  \A c \in Client :
    /\ cpc[c] \in Holding \/ spc[c] # "none" => cstream[c] \in Stream /\ sid[cstream[c]] # None
    /\ spc[c] # "none" => cpc[c] \in {"serving", "leaving", "removing", "done"}

\* Only existing streams have a state, and each has a bridge of its own.
Existing ==
  \A i \in Stream :
    /\ i \in active \cup connecting \cup started \cup idle => sid[i] # None
    /\ sid[i] # None => bridge[i] \in Bridge /\ owner[bridge[i]] = i

\* A viewer is a connection that is served this very stream.
Viewers ==
  \A c \in Client :
    /\ c \in registered => cpc[c] \in {"joining", "serving", "leaving", "removing"}
    /\ \A i \in Stream :
         c \in members[i] => cstream[c] = i /\ cpc[c] \in {"serving", "leaving", "removing"}

\* Who holds the server's mutex between two steps.
ServerLock ==
  /\ \A c \in Client : cpc[c] \in {"creating", "removing"} => smutex = c
  /\ todo # {} \/ sweeping # None => smutex \in {"cleaner", "stopper"}
  /\ smutex = "stopper" => ~running

\* The stream's mutex is held by the one startStream that is inside Start.
StreamLock ==
  /\ \A c \in Client : spc[c] \in {"start", "wait"} => csmutex[cstream[c]] = c
  /\ \A i \in Stream : csmutex[i] # None =>
       /\ spc[csmutex[i]] \in {"start", "wait"} /\ cstream[csmutex[i]] = i
       /\ MayStart(i) /\ i \in started

\* A session is that of a bridge whose Start was tried.
Started ==
  /\ active \subseteq started
  /\ \A c \in Client : spc[c] = "giveUp" => cstream[c] \in started
  /\ \A c \in Client : spc[c] = "wait" => bridge[cstream[c]] \in session
  /\ \A b \in Bridge : b \in session \/ failing[b] # "no" => owner[b] \in started

\* No client is about to join a stream that the idle sweep may take.
Arriving(i) == \E c \in Client : cstream[c] = i /\ cpc[c] \in {"adding", "joining"}
SweepAlone ==
  \A i \in Stream : i \in idle \/ (smutex = "cleaner" /\ sweeping = i) => ~Arriving(i)

\* A first bridge without its error handler is that of a swept stream, which
\* nobody can find any more.
FirstBridge ==
  running => \A i \in Stream :
    sid[i] # None /\ i \notin started /\ bridge[i] \notin wired =>
      /\ i \notin connecting
      /\ ~Arriving(i)
      /\ \A k \in StreamId : streams[k] # i

IInv == /\ TypeOK /\ Attached /\ Existing /\ Viewers
        /\ ServerLock /\ StreamLock /\ Started /\ SweepAlone /\ FirstBridge
        /\ TimerOnlyWhenUnwatched /\ WatchedBridge

(* The connections' goroutines preserve the invariant. *)
LEMMA ConnectionStep == ASSUME NEW c \in Client, IInv, Connection(c) PROVE IInv'
<1> USE ServerAssumption DEF IInv, TypeOK, ClientPhases, StarterPhases, serverVars,
    lifeVars, streamVars, bridgeVars, clientVars, starterVars, sweepVars
<1>1. CASE Ask(c)
    BY <1>1 DEF Ask, Attached, Existing, Viewers, ServerLock, StreamLock, MayStart, Started,
        SweepAlone, Arriving, FirstBridge, TimerOnlyWhenUnwatched, WatchedBridge, Holding
<1>2. CASE ReuseStream(c)
  <2> USE <1>2 DEF ReuseStream, Touch
  <2>1. TypeOK'
         BY DEF Attached, Existing, Holding
  <2>2. Attached' /\ Existing' /\ Viewers'
         BY DEF Attached, Existing, Viewers, ServerLock, Holding, MayStart
  <2>3. ServerLock' /\ StreamLock'
         BY DEF Attached, Existing, ServerLock, StreamLock, MayStart, Holding
  <2>4. Started' /\ SweepAlone'
         BY DEF Attached, Existing, ServerLock, StreamLock, MayStart, Started, SweepAlone,
             Arriving, Holding
  <2>5. FirstBridge' /\ TimerOnlyWhenUnwatched' /\ WatchedBridge'
         BY DEF Attached, Existing, Viewers, ServerLock, StreamLock, MayStart, Started,
             SweepAlone, Arriving, FirstBridge, TimerOnlyWhenUnwatched, WatchedBridge,
             Holding
  <2>6. QED BY <2>1, <2>2, <2>3, <2>4, <2>5
<1>3. CASE MissStream(c)
    BY <1>3 DEF MissStream, Attached, Existing, Viewers, ServerLock, StreamLock, MayStart,
        Started, SweepAlone, Arriving, FirstBridge, TimerOnlyWhenUnwatched, WatchedBridge,
        Holding
<1>4. CASE CreateStream(c)
  <2> USE <1>4 DEF CreateStream, Unused
  <2>1. TypeOK'
         BY DEF Attached, Existing, Holding
  <2>2. Attached' /\ Existing' /\ Viewers'
         BY DEF Attached, Existing, Viewers, ServerLock, Holding, MayStart
  <2>3. ServerLock' /\ StreamLock'
         BY DEF Attached, Existing, ServerLock, StreamLock, MayStart, Holding
  <2>4. Started' /\ SweepAlone'
         BY DEF Attached, Existing, ServerLock, StreamLock, MayStart, Started, SweepAlone,
             Arriving, Holding
  <2>5. FirstBridge' /\ TimerOnlyWhenUnwatched' /\ WatchedBridge'
         BY DEF Attached, Existing, Viewers, ServerLock, StreamLock, MayStart, Started,
             SweepAlone, Arriving, FirstBridge, TimerOnlyWhenUnwatched, WatchedBridge,
             Holding
  <2>6. QED BY <2>1, <2>2, <2>3, <2>4, <2>5
<1>5. CASE RefuseStream(c)
    BY <1>5 DEF RefuseStream, Attached, Existing, Viewers, ServerLock, StreamLock, MayStart,
        Started, SweepAlone, Arriving, FirstBridge, TimerOnlyWhenUnwatched, WatchedBridge,
        Holding
<1>6. CASE AddToServer(c)
    BY <1>6 DEF AddToServer, Attached, Existing, Viewers, ServerLock, StreamLock, MayStart,
        Started, SweepAlone, Arriving, FirstBridge, TimerOnlyWhenUnwatched, WatchedBridge,
        Holding
<1>7. CASE Join(c)
  <2> USE <1>7 DEF Join, Free, CancelTimer, Touch
  <2>1. TypeOK'
         BY DEF Attached, Existing, Holding
  <2>2. Attached' /\ Existing' /\ Viewers'
         BY DEF Attached, Existing, Viewers, ServerLock, Holding, MayStart
  <2>3. ServerLock' /\ StreamLock'
         BY DEF Attached, Existing, ServerLock, StreamLock, MayStart, Holding
  <2>4. Started' /\ SweepAlone'
         BY DEF Attached, Existing, ServerLock, StreamLock, MayStart, Started, SweepAlone,
             Arriving, Holding
  <2>5. FirstBridge' /\ TimerOnlyWhenUnwatched' /\ WatchedBridge'
         BY DEF Attached, Existing, Viewers, ServerLock, StreamLock, MayStart, Started,
             SweepAlone, Arriving, FirstBridge, TimerOnlyWhenUnwatched, WatchedBridge,
             Holding
  <2>6. QED BY <2>1, <2>2, <2>3, <2>4, <2>5
<1>8. CASE Depart(c)
    BY <1>8 DEF Depart, Attached, Existing, Viewers, ServerLock, StreamLock, MayStart,
        Started, SweepAlone, Arriving, FirstBridge, TimerOnlyWhenUnwatched, WatchedBridge,
        Holding
<1>9. CASE BeginRemove(c)
    BY <1>9 DEF BeginRemove, Attached, Existing, Viewers, ServerLock, StreamLock, MayStart,
        Started, SweepAlone, Arriving, FirstBridge, TimerOnlyWhenUnwatched, WatchedBridge,
        Holding
<1>10. CASE EndRemove(c)
  <2> USE <1>10 DEF EndRemove, Free, RemoveClient, Touch
  <2>1. TypeOK'
         BY DEF Attached, Existing, Holding
  <2>2. Attached' /\ Existing' /\ Viewers'
         BY DEF Attached, Existing, Viewers, ServerLock, Holding, MayStart
  <2>3. ServerLock' /\ StreamLock'
         BY DEF Attached, Existing, ServerLock, StreamLock, MayStart, Holding
  <2>4. Started' /\ SweepAlone'
         BY DEF Attached, Existing, ServerLock, StreamLock, MayStart, Started, SweepAlone,
             Arriving, Holding
  <2>5. FirstBridge' /\ TimerOnlyWhenUnwatched' /\ WatchedBridge'
         BY DEF Attached, Existing, Viewers, ServerLock, StreamLock, MayStart, Started,
             SweepAlone, Arriving, FirstBridge, TimerOnlyWhenUnwatched, WatchedBridge,
             Holding
  <2>6. QED BY <2>1, <2>2, <2>3, <2>4, <2>5
<1>11. QED BY <1>1, <1>2, <1>3, <1>4, <1>5, <1>6, <1>7, <1>8, <1>9, <1>10 DEF Connection

(* So does startStream, with its retry and its replaced bridges. *)
LEMMA StarterStep == ASSUME NEW c \in Client, IInv, Starter(c) PROVE IInv'
<1> USE ServerAssumption DEF IInv, TypeOK, ClientPhases, StarterPhases, serverVars,
    lifeVars, streamVars, bridgeVars, clientVars, starterVars, sweepVars
<1>1. CASE CheckStart(c)
  <2> USE <1>1 DEF CheckStart, Free, StarterStops
  <2>1. TypeOK'
         BY DEF Attached, Existing, Holding
  <2>2. Attached' /\ Existing' /\ Viewers'
         BY DEF Attached, Existing, Viewers, ServerLock, Holding, MayStart
  <2>3. ServerLock' /\ StreamLock'
         BY DEF Attached, Existing, ServerLock, StreamLock, MayStart, Holding
  <2>4. Started' /\ SweepAlone'
         BY DEF Attached, Existing, ServerLock, StreamLock, MayStart, Started, SweepAlone,
             Arriving, Holding
  <2>5. FirstBridge' /\ TimerOnlyWhenUnwatched' /\ WatchedBridge'
         BY DEF Attached, Existing, Viewers, ServerLock, StreamLock, MayStart, Started,
             SweepAlone, Arriving, FirstBridge, TimerOnlyWhenUnwatched, WatchedBridge,
             Holding
  <2>6. QED BY <2>1, <2>2, <2>3, <2>4, <2>5
<1>2. CASE Attempt(c)
  <2> USE <1>2 DEF Attempt, Free, StarterStops, NeedsNewBridge, ReplaceBridge, StopBridge, Unused
  <2>1. TypeOK'
         BY DEF Attached, Existing, Holding
  <2>2. Attached' /\ Existing' /\ Viewers'
         BY DEF Attached, Existing, Viewers, ServerLock, Holding, MayStart
  <2>3. ServerLock' /\ StreamLock'
         BY DEF Attached, Existing, ServerLock, StreamLock, MayStart, Holding
  <2>4. Started' /\ SweepAlone'
         BY DEF Attached, Existing, ServerLock, StreamLock, MayStart, Started, SweepAlone,
             Arriving, Holding
  <2>5. FirstBridge' /\ TimerOnlyWhenUnwatched' /\ WatchedBridge'
    <3> DEFINE i == cstream[c]
    <3>1. CASE ~MayStart(i)
          BY <3>1 DEF Attached, Existing, FirstBridge, TimerOnlyWhenUnwatched, WatchedBridge,
                      Arriving
    <3>2. CASE MayStart(i) /\ NeedsNewBridge(c, i)
      <4>1. PICK b \in Bridge : /\ owner[b] = None
                                /\ bridge' = [bridge EXCEPT ![i] = b]
                                /\ owner' = [owner EXCEPT ![b] = i]
                                /\ wired' = (wired \ {bridge[i]}) \cup {b}
                                /\ StopBridge(bridge[i])
            BY <3>2 DEF MayStart
      <4>2. i \in Stream /\ i \notin active /\ i \in started'
            BY <3>2 DEF MayStart, Attached
      <4>3. \A j \in Stream : sid[j] # None /\ j # i =>
              bridge'[j] = bridge[j] /\ bridge[j] # bridge[i] /\ bridge[j] # b
            BY <4>1, <4>2, <3>2 DEF Existing, MayStart
      <4>4. TimerOnlyWhenUnwatched'
            BY <3>2 DEF MayStart, TimerOnlyWhenUnwatched
      <4>5. /\ UNCHANGED <<running, streams, sid, active, connecting, cpc, cstream>>
            /\ started' = started \cup {i}
            /\ csmutex' = [csmutex EXCEPT ![i] = c]
            BY <3>2 DEF MayStart
      <4> HIDE DEF Attempt
      <4>6. FirstBridge'
            BY <4>1, <4>2, <4>3, <4>5 DEF FirstBridge, Arriving
      <4>7. WatchedBridge'
            BY <4>1, <4>2, <4>3, <4>5 DEF WatchedBridge, StreamLock, Existing, MayStart
      <4>8. QED BY <4>4, <4>6, <4>7
    <3>3. CASE MayStart(i) /\ ~NeedsNewBridge(c, i)
          BY <3>3 DEF Attached, Existing, StreamLock, MayStart, FirstBridge,
                      TimerOnlyWhenUnwatched, WatchedBridge, Arriving
    <3>4. QED BY <3>1, <3>2, <3>3
  <2>6. QED BY <2>1, <2>2, <2>3, <2>4, <2>5
<1>3. CASE SendOffer(c)
  <2> USE <1>3 DEF SendOffer
  <2>1. TypeOK'
         BY DEF Attached, Existing, Holding
  <2>2. Attached' /\ Existing' /\ Viewers'
         BY DEF Attached, Existing, Viewers, ServerLock, Holding, MayStart
  <2>3. ServerLock' /\ StreamLock'
         BY DEF Attached, Existing, ServerLock, StreamLock, MayStart, Holding
  <2>4. Started' /\ SweepAlone'
         BY DEF Attached, Existing, ServerLock, StreamLock, MayStart, Started, SweepAlone,
             Arriving, Holding
  <2>5. FirstBridge' /\ TimerOnlyWhenUnwatched' /\ WatchedBridge'
         BY DEF Attached, Existing, Viewers, ServerLock, StreamLock, MayStart, Started,
             SweepAlone, Arriving, FirstBridge, TimerOnlyWhenUnwatched, WatchedBridge,
             Holding
  <2>6. QED BY <2>1, <2>2, <2>3, <2>4, <2>5
<1>4. CASE StartRefused(c)
  <2> USE <1>4 DEF StartRefused, FailAttempt, Unlock, LastTry
  <2>1. TypeOK'
    <3>1. csmutex' \in [Stream -> Client \cup {None}]
          OBVIOUS
    <3>2. spc' \in [Client -> StarterPhases] /\ try' \in [Client -> {1, 2}]
          OBVIOUS
    <3>3. session' \subseteq Bridge
          BY DEF Attached, Existing
    <3>4. QED BY <3>1, <3>2, <3>3
  <2>2. Attached' /\ Existing' /\ Viewers'
         BY DEF Attached, Existing, Viewers, ServerLock, Holding, MayStart
  <2>3. ServerLock' /\ StreamLock'
         BY DEF Attached, Existing, ServerLock, StreamLock, MayStart, Holding
  <2>4. Started' /\ SweepAlone'
         BY DEF Attached, Existing, ServerLock, StreamLock, MayStart, Started, SweepAlone,
             Arriving, Holding
  <2>5. FirstBridge' /\ TimerOnlyWhenUnwatched' /\ WatchedBridge'
         BY DEF Attached, Existing, Viewers, ServerLock, StreamLock, MayStart, Started,
             SweepAlone, Arriving, FirstBridge, TimerOnlyWhenUnwatched, WatchedBridge,
             Holding
  <2>6. QED BY <2>1, <2>2, <2>3, <2>4, <2>5
<1>5. CASE StartFailed(c)
  <2> USE <1>5 DEF StartFailed, FailAttempt, Unlock, LastTry
  <2>1. TypeOK'
    <3>1. csmutex' \in [Stream -> Client \cup {None}]
          OBVIOUS
    <3>2. spc' \in [Client -> StarterPhases] /\ try' \in [Client -> {1, 2}]
          OBVIOUS
    <3>3. session' \subseteq Bridge
          BY DEF Attached, Existing
    <3>4. QED BY <3>1, <3>2, <3>3
  <2>2. Attached' /\ Existing' /\ Viewers'
         BY DEF Attached, Existing, Viewers, ServerLock, Holding, MayStart
  <2>3. ServerLock' /\ StreamLock'
         BY DEF Attached, Existing, ServerLock, StreamLock, MayStart, Holding
  <2>4. Started' /\ SweepAlone'
         BY DEF Attached, Existing, ServerLock, StreamLock, MayStart, Started, SweepAlone,
             Arriving, Holding
  <2>5. FirstBridge' /\ TimerOnlyWhenUnwatched' /\ WatchedBridge'
         BY DEF Attached, Existing, Viewers, ServerLock, StreamLock, MayStart, Started,
             SweepAlone, Arriving, FirstBridge, TimerOnlyWhenUnwatched, WatchedBridge,
             Holding
  <2>6. QED BY <2>1, <2>2, <2>3, <2>4, <2>5
<1>6. CASE StartSucceeds(c)
  <2> USE <1>6 DEF StartSucceeds, Unlock
  <2>1. TypeOK'
         BY DEF Attached, Existing, Holding
  <2>2. Attached' /\ Existing' /\ Viewers'
         BY DEF Attached, Existing, Viewers, ServerLock, Holding, MayStart
  <2>3. ServerLock' /\ StreamLock'
         BY DEF Attached, Existing, ServerLock, StreamLock, MayStart, Holding
  <2>4. Started' /\ SweepAlone'
         BY DEF Attached, Existing, ServerLock, StreamLock, MayStart, Started, SweepAlone,
             Arriving, Holding
  <2>5. FirstBridge' /\ TimerOnlyWhenUnwatched' /\ WatchedBridge'
         BY DEF Attached, Existing, Viewers, ServerLock, StreamLock, MayStart, Started,
             SweepAlone, Arriving, FirstBridge, TimerOnlyWhenUnwatched, WatchedBridge,
             Holding
  <2>6. QED BY <2>1, <2>2, <2>3, <2>4, <2>5
<1>7. CASE GiveUp(c)
  <2> USE <1>7 DEF GiveUp, Free, StopStreamInternal, StopBridge, CancelTimer
  <2>1. TypeOK'
         BY DEF Attached, Existing, Holding
  <2>2. Attached' /\ Existing' /\ Viewers'
         BY DEF Attached, Existing, Viewers, ServerLock, Holding, MayStart
  <2>3. ServerLock' /\ StreamLock'
         BY DEF Attached, Existing, ServerLock, StreamLock, MayStart, Holding
  <2>4. Started' /\ SweepAlone'
         BY DEF Attached, Existing, ServerLock, StreamLock, MayStart, Started, SweepAlone,
             Arriving, Holding
  <2>5. FirstBridge' /\ TimerOnlyWhenUnwatched' /\ WatchedBridge'
         BY DEF Attached, Existing, Viewers, ServerLock, StreamLock, MayStart, Started,
             SweepAlone, Arriving, FirstBridge, TimerOnlyWhenUnwatched, WatchedBridge,
             Holding
  <2>6. QED BY <2>1, <2>2, <2>3, <2>4, <2>5
<1>8. QED BY <1>1, <1>2, <1>3, <1>4, <1>5, <1>6, <1>7 DEF Starter

(* So do the callbacks of the bridges. *)
LEMMA CallbackStep == ASSUME NEW b \in Bridge, IInv, Callback(b) PROVE IInv'
<1> USE ServerAssumption DEF IInv, TypeOK, ClientPhases, StarterPhases, serverVars,
    lifeVars, streamVars, bridgeVars, clientVars, starterVars, sweepVars
<1>1. CASE CameraAnswers(b)
    BY <1>1 DEF CameraAnswers, Attached, Existing, Viewers, ServerLock, StreamLock,
        MayStart, Started, SweepAlone, Arriving, FirstBridge, TimerOnlyWhenUnwatched,
        WatchedBridge, Holding
<1>2. CASE BridgeFails(b)
    BY <1>2 DEF BridgeFails, Attached, Existing, Viewers, ServerLock, StreamLock, MayStart,
        Started, SweepAlone, Arriving, FirstBridge, TimerOnlyWhenUnwatched, WatchedBridge,
        Holding
<1>3. CASE CallOnError(b)
    BY <1>3 DEF CallOnError, Attached, Existing, Viewers, ServerLock, StreamLock, MayStart,
        Started, SweepAlone, Arriving, FirstBridge, TimerOnlyWhenUnwatched, WatchedBridge,
        Holding
<1>4. CASE HandleBridgeError(b)
  <2> USE <1>4 DEF HandleBridgeError, Free, StopStreamInternal, StopBridge, CancelTimer
  <2>1. TypeOK'
         BY DEF Attached, Existing, Holding
  <2>2. Attached' /\ Existing' /\ Viewers'
         BY DEF Attached, Existing, Viewers, ServerLock, Holding, MayStart
  <2>3. ServerLock' /\ StreamLock'
         BY DEF Attached, Existing, ServerLock, StreamLock, MayStart, Holding
  <2>4. Started' /\ SweepAlone'
         BY DEF Attached, Existing, ServerLock, StreamLock, MayStart, Started, SweepAlone,
             Arriving, Holding
  <2>5. FirstBridge' /\ TimerOnlyWhenUnwatched' /\ WatchedBridge'
         BY DEF Attached, Existing, Viewers, ServerLock, StreamLock, MayStart, Started,
             SweepAlone, Arriving, FirstBridge, TimerOnlyWhenUnwatched, WatchedBridge,
             Holding
  <2>6. QED BY <2>1, <2>2, <2>3, <2>4, <2>5
<1>5. QED BY <1>1, <1>2, <1>3, <1>4 DEF Callback

(* So do the timers, the asynchronous cleanups and the loops over streams. *)
LEMMA UpkeepStep == ASSUME NEW i \in Stream, IInv, Upkeep(i) PROVE IInv'
<1> USE ServerAssumption DEF IInv, TypeOK, ClientPhases, StarterPhases, serverVars,
    lifeVars, streamVars, bridgeVars, clientVars, starterVars, sweepVars
<1>1. CASE TimerFires(i)
    BY <1>1 DEF TimerFires, Attached, Existing, Viewers, ServerLock, StreamLock, MayStart,
        Started, SweepAlone, Arriving, FirstBridge, TimerOnlyWhenUnwatched, WatchedBridge,
        Holding
<1>2. CASE Shutdown(i)
  <2> USE <1>2 DEF Shutdown, Free, StopStreamInternal, StopBridge, CancelTimer
  <2>1. TypeOK'
         BY DEF Attached, Existing, Holding
  <2>2. Attached' /\ Existing' /\ Viewers'
         BY DEF Attached, Existing, Viewers, ServerLock, Holding, MayStart
  <2>3. ServerLock' /\ StreamLock'
         BY DEF Attached, Existing, ServerLock, StreamLock, MayStart, Holding
  <2>4. Started' /\ SweepAlone'
         BY DEF Attached, Existing, ServerLock, StreamLock, MayStart, Started, SweepAlone,
             Arriving, Holding
  <2>5. FirstBridge' /\ TimerOnlyWhenUnwatched' /\ WatchedBridge'
         BY DEF Attached, Existing, Viewers, ServerLock, StreamLock, MayStart, Started,
             SweepAlone, Arriving, FirstBridge, TimerOnlyWhenUnwatched, WatchedBridge,
             Holding
  <2>6. QED BY <2>1, <2>2, <2>3, <2>4, <2>5
<1>3. CASE RemoveStream(i)
  <2> USE <1>3 DEF RemoveStream
  <2>1. TypeOK'
    <3>1. streams' \in [StreamId -> Stream \cup {None}]
          OBVIOUS
    <3>2. QED BY <3>1
  <2>2. Attached' /\ Existing' /\ Viewers'
         BY DEF Attached, Existing, Viewers, ServerLock, Holding, MayStart
  <2>3. ServerLock' /\ StreamLock'
         BY DEF Attached, Existing, ServerLock, StreamLock, MayStart, Holding
  <2>4. Started' /\ SweepAlone'
         BY DEF Attached, Existing, ServerLock, StreamLock, MayStart, Started, SweepAlone,
             Arriving, Holding
  <2>5. FirstBridge' /\ TimerOnlyWhenUnwatched' /\ WatchedBridge'
         BY DEF Attached, Existing, Viewers, ServerLock, StreamLock, MayStart, Started,
             SweepAlone, Arriving, FirstBridge, TimerOnlyWhenUnwatched, WatchedBridge,
             Holding
  <2>6. QED BY <2>1, <2>2, <2>3, <2>4, <2>5
<1>4. CASE Age(i)
    BY <1>4 DEF Age, Attached, Existing, Viewers, ServerLock, StreamLock, MayStart, Started,
        SweepAlone, Arriving, FirstBridge, TimerOnlyWhenUnwatched, WatchedBridge, Holding
<1>5. CASE SweepNext(i)
  <2> USE <1>5 DEF SweepNext, Inactive
  <2>1. TypeOK'
         BY DEF Attached, Existing, Holding
  <2>2. Attached' /\ Existing' /\ Viewers'
         BY DEF Attached, Existing, Viewers, ServerLock, Holding, MayStart
  <2>3. ServerLock' /\ StreamLock'
         BY DEF Attached, Existing, ServerLock, StreamLock, MayStart, Holding
  <2>4. Started' /\ SweepAlone'
         BY DEF Attached, Existing, ServerLock, StreamLock, MayStart, Started, SweepAlone,
             Arriving, Holding
  <2>5. FirstBridge' /\ TimerOnlyWhenUnwatched' /\ WatchedBridge'
         BY DEF Attached, Existing, Viewers, ServerLock, StreamLock, MayStart, Started,
             SweepAlone, Arriving, FirstBridge, TimerOnlyWhenUnwatched, WatchedBridge,
             Holding
  <2>6. QED BY <2>1, <2>2, <2>3, <2>4, <2>5
<1>6. QED BY <1>1, <1>2, <1>3, <1>4, <1>5 DEF Upkeep

(* So do the closing of clients and the sweeps. *)
LEMMA ClosingStep == ASSUME NEW c \in Client, IInv, CloseClient(c) \/ SweepClient(c) PROVE IInv'
<1> USE ServerAssumption DEF IInv, TypeOK, ClientPhases, StarterPhases, serverVars,
    lifeVars, streamVars, bridgeVars, clientVars, starterVars, sweepVars
<1>1. CASE CloseClient(c)
    BY <1>1 DEF CloseClient, Attached, Existing, Viewers, ServerLock, StreamLock, MayStart,
        Started, SweepAlone, Arriving, FirstBridge, TimerOnlyWhenUnwatched, WatchedBridge,
        Holding
<1>2. CASE SweepClient(c)
  <2> USE <1>2 DEF SweepClient, Free, RemoveClient, Touch
  <2>1. TypeOK'
    <3>1. members' \in [Stream -> SUBSET Client]
          OBVIOUS
    <3>2. timerSet' \subseteq Stream /\ timerArmed' \subseteq Stream
          OBVIOUS
    <3>3. QED BY <3>1, <3>2
  <2>2. Attached' /\ Existing' /\ Viewers'
         BY DEF Attached, Existing, Viewers, ServerLock, Holding, MayStart
  <2>3. ServerLock' /\ StreamLock'
         BY DEF Attached, Existing, ServerLock, StreamLock, MayStart, Holding
  <2>4. Started' /\ SweepAlone'
         BY DEF Attached, Existing, ServerLock, StreamLock, MayStart, Started, SweepAlone,
             Arriving, Holding
  <2>5. FirstBridge' /\ TimerOnlyWhenUnwatched' /\ WatchedBridge'
         BY DEF Attached, Existing, Viewers, ServerLock, StreamLock, MayStart, Started,
             SweepAlone, Arriving, FirstBridge, TimerOnlyWhenUnwatched, WatchedBridge,
             Holding
  <2>6. QED BY <2>1, <2>2, <2>3, <2>4, <2>5
<1>3. QED BY <1>1, <1>2

(* So do the loops of Server.Stop and cleanupInactiveStreams. *)
LEMMA SweepStep ==
  ASSUME IInv, BeginStop \/ BeginCleanup \/ SweepStream \/ EndSweep PROVE IInv'
<1> USE ServerAssumption DEF IInv, TypeOK, ClientPhases, StarterPhases, serverVars,
    lifeVars, streamVars, bridgeVars, clientVars, starterVars, sweepVars
<1>1. CASE BeginStop
  <2> USE <1>1 DEF BeginStop
  <2>1. TypeOK'
    <3>1. todo' \subseteq Stream
          BY DEF Registered
    <3>2. {closed', closing'} \subseteq SUBSET Client
          OBVIOUS
    <3>3. smutex' \in Client \cup Admin \cup {None} /\ running' \in BOOLEAN
          OBVIOUS
    <3>4. QED BY <3>1, <3>2, <3>3
  <2>2. Attached' /\ Existing' /\ Viewers'
         BY DEF Attached, Existing, Viewers, ServerLock, Holding, MayStart
  <2>3. ServerLock' /\ StreamLock'
         BY DEF Attached, Existing, ServerLock, StreamLock, MayStart, Holding
  <2>4. Started' /\ SweepAlone'
         BY DEF Attached, Existing, ServerLock, StreamLock, MayStart, Started, SweepAlone,
             Arriving, Holding
  <2>5. FirstBridge' /\ TimerOnlyWhenUnwatched' /\ WatchedBridge'
         BY DEF Attached, Existing, Viewers, ServerLock, StreamLock, MayStart, Started,
             SweepAlone, Arriving, FirstBridge, TimerOnlyWhenUnwatched, WatchedBridge,
             Holding
  <2>6. QED BY <2>1, <2>2, <2>3, <2>4, <2>5
<1>2. CASE BeginCleanup
    BY <1>2 DEF BeginCleanup, Registered, Inactive, Attached, Existing, Viewers, ServerLock,
        StreamLock, MayStart, Started, SweepAlone, Arriving, FirstBridge,
        TimerOnlyWhenUnwatched, WatchedBridge, Holding
<1>3. CASE SweepStream
  <2> USE <1>3 DEF SweepStream, Free, StopStreamInternal, StopBridge, CancelTimer
  <2>1. TypeOK'
         BY DEF Attached, Existing, Holding
  <2>2. Attached' /\ Existing' /\ Viewers'
         BY DEF Attached, Existing, Viewers, ServerLock, Holding, MayStart
  <2>3. ServerLock' /\ StreamLock'
         BY DEF Attached, Existing, ServerLock, StreamLock, MayStart, Holding
  <2>4. Started' /\ SweepAlone'
         BY DEF Attached, Existing, ServerLock, StreamLock, MayStart, Started, SweepAlone,
             Arriving, Holding
  <2>5. FirstBridge' /\ TimerOnlyWhenUnwatched' /\ WatchedBridge'
         BY DEF Attached, Existing, Viewers, ServerLock, StreamLock, MayStart, Started,
             SweepAlone, Arriving, FirstBridge, TimerOnlyWhenUnwatched, WatchedBridge,
             Holding
  <2>6. QED BY <2>1, <2>2, <2>3, <2>4, <2>5
<1>4. CASE EndSweep
    BY <1>4 DEF EndSweep, Attached, Existing, Viewers, ServerLock, StreamLock, MayStart,
        Started, SweepAlone, Arriving, FirstBridge, TimerOnlyWhenUnwatched, WatchedBridge,
        Holding
<1>5. QED BY <1>1, <1>2, <1>3, <1>4

(* The invariant holds at the start, and every step preserves it.          *)
LEMMA InitIInv == Init => IInv
  BY ServerAssumption DEF Init, IInv, TypeOK, ClientPhases, StarterPhases, Attached, Existing,
     Viewers, ServerLock, StreamLock, MayStart, Started, SweepAlone, Arriving, FirstBridge,
     TimerOnlyWhenUnwatched, WatchedBridge, Holding

LEMMA NextIInv == IInv /\ [Next]_vars => IInv'
<1> SUFFICES ASSUME IInv, [Next]_vars PROVE IInv'
    OBVIOUS
<1>1. CASE UNCHANGED vars
      BY <1>1 DEF vars, serverVars, lifeVars, streamVars, bridgeVars, clientVars, starterVars,
         sweepVars, IInv, TypeOK, Attached, Existing, Viewers, ServerLock, StreamLock,
         MayStart, Started, SweepAlone, Arriving, FirstBridge, TimerOnlyWhenUnwatched,
         WatchedBridge
<1>2. CASE Next
      BY <1>2, ConnectionStep, StarterStep, CallbackStep, UpkeepStep, ClosingStep, SweepStep
         DEF Next
<1>3. QED BY <1>1, <1>2

(* The inductive invariant of the server holds in every reachable state.   *)
THEOREM InductiveInvariant == Spec => []IInv
  BY InitIInv, NextIInv, PTL DEF Spec

(* The variables keep their types; a start is tried at most twice.         *)
THEOREM TypeCorrect == Spec => []TypeOK
<1>1. IInv => TypeOK
      BY DEF IInv
<1>2. QED BY InductiveInvariant, <1>1, PTL

(* A shown stream, or one being started, is never left on a bridge whose   *)
(* errors nobody hears, nor a shown one on a dead bridge (replaceBridge).  *)
THEOREM StreamsAreWatched == Spec => []WatchedBridge
<1>1. IInv => WatchedBridge
      BY DEF IInv
<1>2. QED BY InductiveInvariant, <1>1, PTL

(* The shutdown timer never counts against a stream that has a viewer.     *)
THEOREM TimersSpareViewers == Spec => []TimerOnlyWhenUnwatched
<1>1. IInv => TimerOnlyWhenUnwatched
      BY DEF IInv
<1>2. QED BY InductiveInvariant, <1>1, PTL

(* Nobody who left the server is still counted as a viewer.                *)
THEOREM LeaversAreForgotten == Spec => []NoGhostViewer
<1>1. IInv => NoGhostViewer
      BY DEF IInv, Viewers, NoGhostViewer
<1>2. QED BY InductiveInvariant, <1>1, PTL

(* Retries and restarts never swap the bridge of a stream that is shown.   *)
THEOREM ViewersKeepTheirBridge == Spec => ShownBridgeStays
<1>1. IInv /\ [Next]_vars => [\A i \in active : i \in active' => bridge'[i] = bridge[i]]_vars
  <2> SUFFICES ASSUME IInv, Next, NEW i \in active PROVE bridge'[i] = bridge[i]
      OBVIOUS
  <2>1. CASE bridge' = bridge
        BY <2>1
  <2>2. ASSUME NEW c \in Client, CreateStream(c) PROVE bridge'[i] = bridge[i]
        BY <2>2 DEF CreateStream, IInv, TypeOK, Existing
  <2>3. ASSUME NEW c \in Client, Attempt(c) PROVE bridge'[i] = bridge[i]
        BY <2>3 DEF Attempt, MayStart, ReplaceBridge, StarterStops, streamVars, IInv, TypeOK
  <2>4. QED
    <3>1. \/ bridge' = bridge
          \/ \E c \in Client : CreateStream(c) \/ Attempt(c)
          BY DEF Next, Connection, Starter, Callback, Upkeep, Ask, ReuseStream, MissStream,
             RefuseStream, AddToServer, Join, Depart, BeginRemove, EndRemove, CheckStart,
             StarterStops, SendOffer, StartRefused, StartFailed, FailAttempt, StartSucceeds,
             GiveUp, CloseClient, SweepClient, CameraAnswers, BridgeFails, CallOnError,
             HandleBridgeError, TimerFires, Shutdown, RemoveStream, Age, SweepNext, BeginStop,
             BeginCleanup, SweepStream, EndSweep, streamVars
    <3>2. QED BY <3>1, <2>1, <2>2, <2>3
<1>2. QED BY InductiveInvariant, <1>1, PTL DEF Spec, ShownBridgeStays

-----------------------------------------------------------------------------
(* The idle sweep.                                                         *)

\* A sweep sends away the clients it counted, and cleanupInactiveStreams counted
\* none: its stream is still without a viewer when CameraStream.Stop gets the mutex.
SweepEmpty ==
  /\ sweeping = None \/ smutex = "cleaner" => leaving = {}
  /\ smutex = "cleaner" /\ sweeping # None => members[sweeping] = {}

\* A stream gets a viewer only when one arrives, and loses viewers only to a client
\* that leaves with the server's mutex or to a sweep.
LEMMA MembersStep ==
  ASSUME IInv, Next
  PROVE  \/ UNCHANGED members
         \/ \E c \in Client : Join(c) \/ EndRemove(c) \/ SweepClient(c)
  BY DEF Next, Connection, Starter, Callback, Upkeep, Ask, ReuseStream, MissStream, CreateStream,
     RefuseStream, AddToServer, Depart, BeginRemove, CheckStart, StarterStops, Attempt, SendOffer,
     StartRefused, StartFailed, FailAttempt, StartSucceeds, GiveUp, CloseClient, CameraAnswers,
     BridgeFails, CallOnError, HandleBridgeError, TimerFires, Shutdown, RemoveStream, Age,
     SweepNext, BeginStop, BeginCleanup, SweepStream, EndSweep, streamVars

\* While the idle sweep is at work on a stream, its viewers do not change.
LEMMA SweptStays ==
  ASSUME IInv, SweepEmpty, Next, NEW i \in Stream, smutex = "cleaner", sweeping = i
  PROVE  members'[i] = members[i]
<1> USE DEF IInv
<1>1. ASSUME NEW c \in Client, Join(c) PROVE members'[i] = members[i]
      BY <1>1 DEF Join, SweepAlone, Arriving, TypeOK
<1>2. ASSUME NEW c \in Client, EndRemove(c) PROVE members'[i] = members[i]
      BY <1>2, ServerAssumption DEF EndRemove, ServerLock
<1>3. ASSUME NEW c \in Client, SweepClient(c) PROVE members'[i] = members[i]
      BY <1>3 DEF SweepClient, SweepEmpty
<1>4. QED BY <1>1, <1>2, <1>3, MembersStep

\* Which steps move the loops.
LEMMA SweepVarsStep ==
  ASSUME IInv, Next
  PROVE  \/ UNCHANGED <<smutex, sweeping, leaving>>
         \/ UNCHANGED <<sweeping, leaving>> /\ smutex' # "cleaner"
         \/ (\E i \in Stream : SweepNext(i)) \/ (\E c \in Client : SweepClient(c))
         \/ BeginCleanup \/ SweepStream
<1> USE ServerAssumption DEF serverVars, sweepVars
<1>1. ASSUME NEW c \in Client, Connection(c)
      PROVE  UNCHANGED <<sweeping, leaving>> /\ (smutex' = smutex \/ smutex' # "cleaner")
      BY <1>1 DEF Connection, Ask, ReuseStream, MissStream, CreateStream, RefuseStream, AddToServer,
         Join, Depart, BeginRemove, EndRemove
<1>2. ASSUME NEW c \in Client, Starter(c) \/ CloseClient(c) PROVE UNCHANGED <<smutex, sweeping, leaving>>
      BY <1>2 DEF Starter, CloseClient, CheckStart, StarterStops, Attempt, SendOffer, StartRefused,
         StartFailed, FailAttempt, StartSucceeds, GiveUp
<1>3. ASSUME NEW b \in Bridge, Callback(b) PROVE UNCHANGED <<smutex, sweeping, leaving>>
      BY <1>3 DEF Callback, CameraAnswers, BridgeFails, CallOnError, HandleBridgeError
<1>4. ASSUME NEW i \in Stream, Upkeep(i), ~SweepNext(i) PROVE UNCHANGED <<smutex, sweeping, leaving>>
      BY <1>4 DEF Upkeep, TimerFires, Shutdown, RemoveStream, Age
<1>5. CASE BeginStop \/ EndSweep
      BY <1>5 DEF BeginStop, EndSweep
<1>6. QED BY <1>1, <1>2, <1>3, <1>4, <1>5 DEF Next

LEMMA SweepEmptyStep == IInv /\ SweepEmpty /\ [Next]_vars => SweepEmpty'
<1> SUFFICES ASSUME IInv, SweepEmpty, [Next]_vars PROVE SweepEmpty'
    OBVIOUS
<1>1. CASE UNCHANGED vars
      BY <1>1 DEF vars, serverVars, streamVars, sweepVars, SweepEmpty
<1>2. CASE Next
  <2>1. CASE UNCHANGED <<smutex, sweeping, leaving>>
        BY <1>2, <2>1, SweptStays DEF SweepEmpty, IInv, TypeOK
  <2>2. CASE UNCHANGED <<sweeping, leaving>> /\ smutex' # "cleaner"
        BY <2>2 DEF SweepEmpty
  <2>3. ASSUME NEW i \in Stream, SweepNext(i) PROVE SweepEmpty'
        BY <2>3, ServerAssumption
           DEF SweepNext, Inactive, SweepEmpty, serverVars, streamVars, IInv, ServerLock, TypeOK
  <2>4. ASSUME NEW c \in Client, SweepClient(c) PROVE SweepEmpty'
        BY <2>4 DEF SweepClient, SweepEmpty, serverVars
  <2>5. CASE BeginCleanup
        BY <2>5, ServerAssumption DEF BeginCleanup, SweepEmpty, IInv, ServerLock
  <2>6. CASE SweepStream
        BY <2>6 DEF SweepStream, SweepEmpty
  <2>7. QED BY <1>2, <2>1, <2>2, <2>3, <2>4, <2>5, <2>6, SweepVarsStep
<1>3. QED BY <1>1, <1>2

LEMMA SweepsAreEmpty == Spec => []SweepEmpty
<1>1. Init => SweepEmpty
      BY DEF Init, SweepEmpty
<1>2. QED BY <1>1, SweepEmptyStep, InductiveInvariant, PTL DEF Spec

(* The idle sweep counts a stream's viewers without the stream's mutex and *)
(* stops it with it: nobody joins in between, because whoever found the    *)
(* stream has touched it, and nobody can find it while the sweep has the   *)
(* server's mutex (cleanupInactiveStreams, getOrCreateStream, AddClient).  *)
THEOREM SweepsTakeNobodysStream == Spec => SweepSparesViewers
<1>1. IInv /\ SweepEmpty /\ [Next]_vars =>
        [\A i \in Stream : smutex = "cleaner" /\ sweeping = i =>
           /\ members[i] \subseteq members'[i]
           /\ i \in active /\ i \notin active' => members[i] = {}]_vars
  <2> SUFFICES ASSUME IInv, SweepEmpty, Next, NEW i \in Stream, smutex = "cleaner", sweeping = i
               PROVE  members[i] \subseteq members'[i] /\ members[i] = {}
      OBVIOUS
  <2>1. i # None
        BY ServerAssumption
  <2>2. QED BY <2>1, SweptStays DEF SweepEmpty
<1>2. QED BY <1>1, SweepsAreEmpty, InductiveInvariant, PTL DEF Spec, SweepSparesViewers

-----------------------------------------------------------------------------
(* The mutexes.                                                            *)

\* A connection that holds the server's mutex makes a stream or takes itself off one.
KeepsServer == \A c \in Client : smutex = c => cpc[c] \in {"creating", "removing"}

\* Nobody waits in a circle: who holds the server's mutex makes a stream, which takes
\* no other mutex, or waits for the mutex of a stream, to take a client off it or to
\* stop it; and that one is held by a startStream inside Start, which asks for no
\* mutex and holds none of another stream.
LocksAreOrdered ==
  /\ KeepsServer
  /\ \A i, j \in Stream : ~Free(i) =>
       /\ spc[csmutex[i]] \in {"start", "wait"} /\ cstream[csmutex[i]] = i
       /\ csmutex[j] = csmutex[i] => j = i

LEMMA KeepsServerStep == IInv /\ KeepsServer /\ [Next]_vars => KeepsServer'
<1> SUFFICES ASSUME IInv, KeepsServer, [Next]_vars PROVE KeepsServer'
    OBVIOUS
<1> USE ServerAssumption DEF serverVars, clientVars, KeepsServer
<1>1. ASSUME NEW c \in Client, Connection(c) PROVE KeepsServer'
      BY <1>1 DEF Connection, Ask, ReuseStream, MissStream, CreateStream, RefuseStream, AddToServer,
         Join, Depart, BeginRemove, EndRemove, IInv, TypeOK, ServerLock
<1>2. ASSUME NEW c \in Client, Starter(c) \/ CloseClient(c) \/ SweepClient(c)
      PROVE  UNCHANGED <<smutex, cpc>>
      BY <1>2 DEF Starter, CloseClient, SweepClient, CheckStart, StarterStops, Attempt, SendOffer, StartRefused,
         StartFailed, FailAttempt, StartSucceeds, GiveUp
<1>3. ASSUME NEW b \in Bridge, Callback(b) PROVE UNCHANGED <<smutex, cpc>>
      BY <1>3 DEF Callback, CameraAnswers, BridgeFails, CallOnError, HandleBridgeError
<1>4. ASSUME NEW i \in Stream, Upkeep(i) PROVE UNCHANGED <<smutex, cpc>>
      BY <1>4 DEF Upkeep, TimerFires, Shutdown, RemoveStream, Age, SweepNext
<1>5. CASE BeginStop \/ BeginCleanup \/ SweepStream \/ EndSweep
      BY <1>5 DEF BeginStop, BeginCleanup, SweepStream, EndSweep, IInv, TypeOK
<1>6. CASE UNCHANGED vars
      BY <1>6 DEF vars
<1>7. QED BY <1>1, <1>2, <1>3, <1>4, <1>5, <1>6 DEF Next

(* For any number of connections and streams nobody waits in a circle for  *)
(* the mutexes of the server and of the streams, so that whoever holds one *)
(* gives it back when no Start waits for its camera any more: the safety   *)
(* core of ServerResponds (removeClient, cleanupInactiveStreams, Stop and  *)
(* startStream).                                                           *)
THEOREM NoCircleOfLocks == Spec => []LocksAreOrdered
<1>1. Init => KeepsServer
      BY ServerAssumption DEF Init, KeepsServer
<1>2. IInv /\ KeepsServer => LocksAreOrdered
      BY ServerAssumption DEF IInv, StreamLock, LocksAreOrdered, Free
<1>3. QED BY <1>1, <1>2, KeepsServerStep, InductiveInvariant, PTL DEF Spec
-----------------------------------------------------------------------------
(* The bridges' lives.                                                     *)

\* A stream gets its first bridge when it is created; those that are shown are
\* those whose own bridge is connected.
Linked ==
  /\ \A i \in Stream : bridge[i] # None => sid[i] # None
  /\ \A i \in active : bridge[i] \in connected
  /\ \A b \in connected : owner[b] \in active /\ bridge[owner[b]] = b

cameraVars == <<bridge, Lives, active>>

\* A step that leaves the bridges and their attempts alone is a stutter.
LEMMA Stutters ==
  ASSUME IInv, UNCHANGED <<bridge, owner, connected, active>>,
         \A i \in Stream : (i \in started => ~Free(i))' = (i \in started => ~Free(i))
  PROVE  UNCHANGED cameraVars
<1>1. ASSUME NEW b \in Bridge PROVE Life(b)' = Life(b)
  <2>1. CASE owner[b] = None
        BY <2>1 DEF Life, Unused
  <2>2. CASE owner[b] \in Stream
        BY <2>2 DEF Life, Unused, AtHand
  <2>3. QED BY <2>1, <2>2 DEF IInv, TypeOK
<1>2. QED BY <1>1 DEF cameraVars, Lives

\* What a new bridge for a stream that is not shown does to the lives.
LEMMA TakesBridge ==
  ASSUME IInv, Linked, NEW i \in Stream, NEW b \in Bridge, Unused(b), i \notin active,
         bridge' = [bridge EXCEPT ![i] = b], owner' = [owner EXCEPT ![b] = i],
         UNCHANGED active, connected' = connected,
         sid'[i] # None, \A j \in Stream : sid[j] # None => sid'[j] # None,
         i \in started' => ~Free(i)',
         bridge[i] # None => owner[bridge[i]] = i,
         \A j \in Stream \ {i} : (j \in started' <=> j \in started) /\ csmutex'[j] = csmutex[j]
  PROVE  Linked' /\ Camera!Take(i, b)
<1> USE ServerAssumption DEF IInv, TypeOK
<1>1. b \notin connected /\ owner'[b] = i /\ bridge'[i] = b
      BY DEF Linked, Unused
<1>2. Linked'
  <2>1. \A j \in active : j # i /\ bridge'[j] = bridge[j]
        OBVIOUS
  <2>2. \A d \in connected : d # b /\ owner'[d] = owner[d] /\ owner[d] # i
        BY <1>1 DEF Linked
  <2>3. \A j \in Stream : bridge'[j] # None => sid'[j] # None
        BY DEF Linked
  <2>4. QED BY <2>1, <2>2, <2>3 DEF Linked
<1>3. \A d \in Bridge : Life(d)' = IF d = b THEN "ready" ELSE IF d = bridge[i] THEN "spent" ELSE Life(d)
  <2> SUFFICES ASSUME NEW d \in Bridge
               PROVE  Life(d)' = IF d = b THEN "ready" ELSE IF d = bridge[i] THEN "spent" ELSE Life(d)
      OBVIOUS
  <2>1. CASE d = b
        BY <1>1, <2>1 DEF Life, Unused, AtHand
  <2>2. CASE d # b /\ d = bridge[i]
    <3>1. owner'[d] = i /\ d \notin connected /\ bridge'[i] # d
          BY <1>1, <2>2 DEF Linked
    <3>2. QED BY <2>2, <3>1 DEF Life, Unused, AtHand
  <2>3. CASE d # b /\ d # bridge[i] /\ owner[d] = None
        BY <2>3 DEF Life, Unused
  <2>4. CASE d # b /\ d # bridge[i] /\ owner[d] = i
    <3>1. owner'[d] = i /\ bridge'[i] # d /\ bridge[i] # d
          BY <1>1, <2>4
    <3>2. QED BY <3>1 DEF Life, Unused, AtHand
  <2>5. CASE d # b /\ owner[d] \in Stream \ {i}
    <3>1. owner'[d] = owner[d] /\ bridge'[owner[d]] = bridge[owner[d]] /\ d # bridge[i]
          BY <2>5
    <3>2. QED BY <2>5, <3>1 DEF Life, Unused, AtHand, Free
  <2>6. QED BY <2>1, <2>2, <2>3, <2>4, <2>5
<1>4. Life(b) = "unused"
      BY DEF Life
<1>5. QED BY <1>2, <1>3, <1>4 DEF Camera!Take, Lives

\* The start of a bridge comes through, or fails.
LEMMA Turns ==
  ASSUME IInv, NEW i \in Stream, bridge[i] \in Bridge, owner[bridge[i]] = i,
         UNCHANGED <<bridge, owner, started>>, NEW to,
         Life(bridge[i])' = to,
         \A d \in Bridge \ {bridge[i]} : d \in connected' <=> d \in connected,
         \A j \in Stream \ {i} : csmutex'[j] = csmutex[j]
  PROVE  Camera!Turn(i, Life(bridge[i]), to)
<1> USE ServerAssumption DEF IInv, TypeOK
<1>1. ASSUME NEW d \in Bridge, d # bridge[i] PROVE Life(d)' = Life(d)
  <2>1. CASE owner[d] = None
        BY <2>1 DEF Life, Unused
  <2>2. CASE owner[d] = i
        BY <1>1, <2>2 DEF Life, Unused, AtHand
  <2>3. CASE owner[d] \in Stream \ {i}
        BY <1>1, <2>3 DEF Life, Unused, AtHand, Free
  <2>4. QED BY <2>1, <2>2, <2>3
<1>2. Lives' = [Lives EXCEPT ![bridge[i]] = to]
      BY <1>1 DEF Lives
<1>3. bridge[i] # None /\ Lives[bridge[i]] = Life(bridge[i])
      BY DEF Lives
<1>4. QED BY <1>2, <1>3 DEF Camera!Turn

\* The stop of a stream that is shown hides it, that of another changes nothing.
LEMMA StopHides ==
  ASSUME IInv, Linked, NEW i \in Stream, Free(i), StopStreamInternal(i),
         UNCHANGED <<sid, csmutex, started, bridge, owner>>
  PROVE  Linked' /\ [Camera!Next]_cameraVars
<1>1. CASE i \in active
  <2>1. /\ bridge[i] \in Bridge /\ owner[bridge[i]] = i /\ i \in started
        /\ bridge[i] \in connected
        BY <1>1 DEF IInv, Existing, Started, Linked
  <2>2. active' = active \ {i} /\ connected' = connected \ {bridge[i]}
        BY <1>1 DEF StopStreamInternal, StopBridge
  <2>3. Linked'
    <3>1. \A j \in active : bridge[j] \in connected /\ owner[bridge[j]] = j
          BY DEF Linked, IInv, TypeOK, Existing
    <3>2. \A b \in connected \ {bridge[i]} : owner[b] \in active \ {i} /\ bridge[owner[b]] = b
          BY DEF Linked
    <3>3. \A j \in active \ {i} : bridge[j] \in connected \ {bridge[i]}
          BY <2>1, <3>1
    <3>4. \A j \in Stream : bridge'[j] # None => sid'[j] # None
          BY DEF Linked
    <3>5. QED BY <2>2, <3>2, <3>3, <3>4 DEF Linked
  <2>4. Life(bridge[i]) = "up" /\ Life(bridge[i])' = "spent"
        BY <2>1, <2>2, ServerAssumption DEF Life, Unused, AtHand, Free
  <2>5. Camera!Turn(i, "up", "spent")
        BY <2>1, <2>2, <2>4, Turns
  <2>6. QED BY <1>1, <2>2, <2>3, <2>5 DEF Camera!Hide, Camera!Next
<1>2. CASE i \notin active
  <2>1. UNCHANGED <<active, connected>>
    <3>1. CASE i \in connecting
      <4>1. sid[i] # None /\ owner[bridge[i]] = i
            BY <3>1 DEF IInv, Existing
      <4>2. bridge[i] \notin connected
            BY <1>2, <4>1 DEF Linked
      <4>3. active' = active \ {i} /\ connected' = connected \ {bridge[i]}
            BY <3>1 DEF StopStreamInternal, StopBridge
      <4>4. QED BY <1>2, <4>2, <4>3
    <3>2. CASE i \notin connecting
          BY <1>2, <3>2 DEF StopStreamInternal, lifeVars
    <3>3. QED BY <3>1, <3>2
  <2>2. Linked'
        BY <2>1 DEF Linked
  <2>3. UNCHANGED cameraVars
        BY <2>1, Stutters DEF Free
  <2>4. QED BY <2>2, <2>3
<1>3. QED BY <1>1, <1>2

\* The attempts of a startStream goroutine.
LEMMA AttemptLives ==
  ASSUME IInv, Linked, NEW c \in Client, Attempt(c)
  PROVE  Linked' /\ [Camera!Next]_cameraVars
<1>0. PICK i \in Stream : /\ i = cstream[c] /\ sid[i] # None /\ Free(i)
                         /\ bridge[i] \in Bridge /\ owner[bridge[i]] = i
      BY DEF Attempt, IInv, Attached, Existing
<1>1. CASE ~MayStart(i)
  <2>1. UNCHANGED <<bridge, owner, connected, active, started, csmutex, sid>>
        BY <1>0, <1>1 DEF Attempt, StarterStops, lifeVars, streamVars, bridgeVars
  <2>2. QED BY <2>1, Stutters DEF Linked, Free
<1>2. CASE MayStart(i)
  <2>1. /\ i \notin active /\ UNCHANGED active /\ started' = started \cup {i}
        /\ csmutex' = [csmutex EXCEPT ![i] = c] /\ UNCHANGED sid
        /\ \/ NeedsNewBridge(c, i) /\ ReplaceBridge(i)
           \/ ~NeedsNewBridge(c, i) /\ UNCHANGED <<bridge, owner, connected>>
        BY <1>0, <1>2 DEF Attempt, MayStart
  <2>2. ~Free(i)' /\ \A j \in Stream \ {i} : csmutex'[j] = csmutex[j]
        BY <1>0, <2>1, ServerAssumption DEF Free, IInv, TypeOK
  <2>3. CASE ReplaceBridge(i)
    <3>1. PICK b \in Bridge : /\ Unused(b) /\ bridge' = [bridge EXCEPT ![i] = b]
                              /\ owner' = [owner EXCEPT ![b] = i] /\ StopBridge(bridge[i])
          BY <2>3 DEF ReplaceBridge
    <3>2. connected' = connected
          BY <1>0, <2>1, <3>1 DEF StopBridge, Linked
    <3>3. \A j \in Stream \ {i} : j \in started' <=> j \in started
          BY <2>1
    <3>4. Linked' /\ Camera!Take(i, b)
          BY <1>0, <2>1, <2>2, <3>1, <3>2, <3>3, TakesBridge
    <3>5. QED BY <1>0, <3>4 DEF Camera!Next
  <2>4. CASE ~NeedsNewBridge(c, i) /\ UNCHANGED <<bridge, owner, connected>>
    <3>1. i \notin started
          BY <2>4 DEF NeedsNewBridge
    <3>2. \A j \in Stream : (j \in started => ~Free(j))' = (j \in started => ~Free(j))
          BY <2>1, <2>2, <3>1 DEF Free
    <3>3. UNCHANGED cameraVars
          BY <2>1, <2>4, <3>2, Stutters
    <3>4. QED BY <2>1, <2>4, <3>3 DEF Linked
  <2>5. QED BY <2>1, <2>3, <2>4
<1>3. QED BY <1>1, <1>2

LEMMA StartEnds ==
  ASSUME IInv, Linked, NEW c \in Client, StartRefused(c) \/ StartFailed(c) \/ StartSucceeds(c)
  PROVE  Linked' /\ [Camera!Next]_cameraVars
<1>0. PICK i \in Stream : /\ i = cstream[c] /\ csmutex[i] = c /\ c # None
                         /\ i \in started /\ i \notin active
                         /\ bridge[i] \in Bridge /\ owner[bridge[i]] = i
      BY ServerAssumption
         DEF StartRefused, StartFailed, StartSucceeds, IInv, Attached, Existing, StreamLock, MayStart
<1>1. /\ UNCHANGED <<bridge, owner, started, sid>> /\ csmutex' = [csmutex EXCEPT ![i] = None]
      /\ \/ UNCHANGED <<active, connected>>
         \/ active' = active \cup {i} /\ connected' = connected \cup {bridge[i]}
      BY <1>0 DEF StartRefused, StartFailed, StartSucceeds, FailAttempt, Unlock, bridgeVars
<1>2. bridge[i] \notin connected
      BY <1>0 DEF Linked
<1>3. Linked'
      BY <1>0, <1>1 DEF Linked
<1>4. Life(bridge[i]) = "ready"
      BY <1>0, <1>2, ServerAssumption DEF Life, Unused, AtHand, Free
<1>5. \A j \in Stream \ {i} : csmutex'[j] = csmutex[j]
      BY <1>0, <1>1 DEF IInv, TypeOK
<1>6. csmutex'[i] = None
      BY <1>0, <1>1 DEF IInv, TypeOK
<1>7. CASE UNCHANGED <<active, connected>>
  <2>1. Life(bridge[i])' = "spent"
        BY <1>0, <1>1, <1>2, <1>6, <1>7, ServerAssumption DEF Life, Unused, AtHand, Free
  <2>2. Camera!Turn(i, "ready", "spent")
        BY <1>0, <1>1, <1>4, <1>5, <1>7, <2>1, Turns
  <2>3. QED BY <1>0, <1>3, <1>7, <2>2 DEF Camera!Fail, Camera!Next
<1>8. CASE active' = active \cup {i} /\ connected' = connected \cup {bridge[i]}
  <2>1. Life(bridge[i])' = "up"
        BY <1>0, <1>1, <1>8, ServerAssumption DEF Life, Unused
  <2>2. Camera!Turn(i, "ready", "up")
        BY <1>0, <1>1, <1>4, <1>5, <1>8, <2>1, Turns
  <2>3. QED BY <1>0, <1>3, <1>8, <2>2 DEF Camera!Show, Camera!Next
<1>9. QED BY <1>1, <1>7, <1>8

LEMMA CreateLives ==
  ASSUME IInv, Linked, NEW c \in Client, CreateStream(c)
  PROVE  Linked' /\ [Camera!Next]_cameraVars
<1>1. PICK i \in Stream, b \in Bridge :
        /\ sid[i] = None /\ Unused(b) /\ sid' = [sid EXCEPT ![i] = Path[c]]
        /\ bridge' = [bridge EXCEPT ![i] = b] /\ owner' = [owner EXCEPT ![b] = i]
      BY DEF CreateStream
<1>2. UNCHANGED <<active, connected, started, csmutex>>
      BY DEF CreateStream
<1>3. i \notin active /\ i \notin started
      BY <1>1 DEF IInv, Existing
<1>4. bridge[i] = None
      BY <1>1 DEF Linked
<1>5. sid'[i] # None /\ \A j \in Stream : sid[j] # None => sid'[j] # None
      BY <1>1, ServerAssumption DEF IInv, TypeOK
<1>6. i \in started' => ~Free(i)'
      BY <1>2, <1>3
<1>7. \A j \in Stream \ {i} : (j \in started' <=> j \in started) /\ csmutex'[j] = csmutex[j]
      BY <1>2
<1>8. Linked' /\ Camera!Take(i, b)
      BY <1>1, <1>2, <1>3, <1>4, <1>5, <1>6, <1>7, TakesBridge
<1>9. QED BY <1>8 DEF Camera!Next

\* Every other step leaves the bridges and the attempts alone.
Apart == UNCHANGED <<bridge, owner, connected, active, started, csmutex, sid>>

LEMMA ApartLives ==
  ASSUME IInv, Linked, Apart
  PROVE  Linked' /\ [Camera!Next]_cameraVars
  BY Stutters DEF Apart, Linked, Free

LEMMA CameraStep ==
  ASSUME IInv, Linked, [Next]_vars
  PROVE  Linked' /\ [Camera!Next]_cameraVars
<1> USE DEF serverVars, lifeVars, streamVars, bridgeVars
<1>1. ASSUME NEW c \in Client, Connection(c) PROVE Linked' /\ [Camera!Next]_cameraVars
  <2>1. CASE CreateStream(c)
        BY <2>1, CreateLives
  <2>2. CASE ~CreateStream(c)
    <3>1. Apart
          BY <1>1, <2>2 DEF Connection, Ask, ReuseStream, MissStream, RefuseStream, AddToServer,
             Join, Depart, BeginRemove, EndRemove, RemoveClient, Apart
    <3>2. QED BY <3>1, ApartLives
  <2>3. QED BY <2>1, <2>2
<1>2. ASSUME NEW c \in Client, Starter(c) PROVE Linked' /\ [Camera!Next]_cameraVars
  <2>1. CASE CheckStart(c) \/ SendOffer(c)
    <3>1. Apart
          BY <2>1 DEF CheckStart, StarterStops, SendOffer, Apart
    <3>2. QED BY <3>1, ApartLives
  <2>2. CASE GiveUp(c)
    <3>1. cstream[c] \in Stream
          BY <2>2 DEF GiveUp, IInv, Attached
    <3>2. Free(cstream[c]) /\ StopStreamInternal(cstream[c]) /\ UNCHANGED <<sid, csmutex, started, bridge, owner>>
          BY <2>2 DEF GiveUp
    <3>3. QED BY <3>1, <3>2, StopHides
  <2>3. QED BY <1>2, <2>1, <2>2, AttemptLives, StartEnds DEF Starter
<1>3. ASSUME NEW b \in Bridge, Callback(b) PROVE Linked' /\ [Camera!Next]_cameraVars
  <2>1. CASE HandleBridgeError(b)
    <3>1. owner[b] \in Stream
          BY <2>1 DEF HandleBridgeError, IInv, TypeOK, Started
    <3>2. Free(owner[b]) /\ StopStreamInternal(owner[b]) /\ UNCHANGED <<sid, csmutex, started, bridge, owner>>
          BY <2>1 DEF HandleBridgeError
    <3>3. QED BY <3>1, <3>2, StopHides
  <2>2. CASE CameraAnswers(b) \/ BridgeFails(b) \/ CallOnError(b)
    <3>1. Apart
          BY <2>2 DEF CameraAnswers, BridgeFails, CallOnError, Apart
    <3>2. QED BY <3>1, ApartLives
  <2>3. QED BY <1>3, <2>1, <2>2 DEF Callback
<1>4. ASSUME NEW i \in Stream, Upkeep(i) PROVE Linked' /\ [Camera!Next]_cameraVars
  <2>1. CASE Shutdown(i)
    <3>1. Free(i) /\ UNCHANGED <<sid, csmutex, members, started, bridge, idle, owner>>
          BY <2>1 DEF Shutdown
    <3>2. \/ StopStreamInternal(i) \/ UNCHANGED <<active, connected>>
          BY <2>1 DEF Shutdown
    <3>3. QED BY <3>1, <3>2, StopHides, ApartLives DEF Apart
  <2>2. CASE TimerFires(i) \/ RemoveStream(i) \/ Age(i) \/ SweepNext(i)
    <3>1. Apart
          BY <2>2 DEF TimerFires, RemoveStream, Age, SweepNext, Apart
    <3>2. QED BY <3>1, ApartLives
  <2>3. QED BY <1>4, <2>1, <2>2 DEF Upkeep
<1>5. ASSUME NEW c \in Client, CloseClient(c) \/ SweepClient(c)
      PROVE  Linked' /\ [Camera!Next]_cameraVars
  <2>1. Apart
        BY <1>5 DEF CloseClient, SweepClient, RemoveClient, Apart
  <2>2. QED BY <2>1, ApartLives
<1>6. CASE SweepStream
  <2>1. sweeping \in Stream /\ Free(sweeping) /\ StopStreamInternal(sweeping) /\ UNCHANGED <<sid, csmutex, started, bridge, owner>>
        BY <1>6 DEF SweepStream, IInv, TypeOK
  <2>2. QED BY <2>1, StopHides
<1>7. CASE BeginStop \/ BeginCleanup \/ EndSweep \/ UNCHANGED vars
  <2>1. Apart
        BY <1>7 DEF BeginStop, BeginCleanup, EndSweep, vars, Apart
  <2>2. QED BY <2>1, ApartLives
<1>8. QED BY <1>1, <1>2, <1>3, <1>4, <1>5, <1>6, <1>7 DEF Next

(* For any number of connections, streams and bridges the server keeps the *)
(* promise of CameraSession: whatever starts, retries, errors, timers and  *)
(* sweeps overlap, each bridge connects at most once, for one stream, and  *)
(* that stream is shown exactly while it does (startStream, replaceBridge, *)
(* stopStreamInternal).                                                    *)
THEOREM ServerImplementsCamera == Spec => ImplementsCamera
<1>1. Init => Linked /\ Camera!Init
  <2> SUFFICES ASSUME Init PROVE Linked /\ Camera!Init
      OBVIOUS
  <2>1. Linked
        BY DEF Init, Linked
  <2>2. \A b \in Bridge : Life(b) = "unused"
        BY DEF Init, Life, Unused
  <2>3. \A b \in Bridge : ~ \E i \in Stream : bridge[i] = b
        BY ServerAssumption DEF Init
  <2>4. QED BY <2>1, <2>2, <2>3 DEF Init, Lives, Camera!Init
<1>2. IInv /\ Linked /\ [Next]_vars => Linked' /\ [Camera!Next]_<<bridge, Lives, active>>
      BY CameraStep DEF cameraVars
<1>3. QED BY InductiveInvariant, <1>1, <1>2, PTL DEF Spec, ImplementsCamera, Camera!Spec
=============================================================================
