----------------------------- MODULE RTSPServer -----------------------------
(***************************************************************************)
(* The bridge's RTSP server (pkg/rtsp/server.go) with the life of its      *)
(* WebRTC bridges (pkg/rtsp/bridge.go: Start, Stop, handleError).          *)
(*                                                                         *)
(* Goroutines: one per RTSP connection (handleConnection), one startStream *)
(* per AddClient that finds its stream at rest, the error callbacks of the *)
(* bridges, the shutdown timers, the asynchronous removeStream, the idle   *)
(* sweep and Server.Stop.  They share RTSPServer.mutex and one mutex per   *)
(* CameraStream.  A critical section that cannot block is one step; a lock *)
(* that is held while its owner waits for another lock, for the camera or  *)
(* for the broker is a value of smutex or csmutex.                         *)
(*                                                                         *)
(* CameraStream.handlingError is set and cleared inside one critical       *)
(* section of the same mutex, so no step ever finds it set.  Booleans of   *)
(* streams and bridges are the sets of those for which they are true.      *)
(***************************************************************************)
EXTENDS Integers, FiniteSets

CONSTANTS
  Client,    \* RTSP connections; each connects once and leaves once
  Stream,    \* CameraStream instances, a bound on how often one is created
  Bridge,    \* WebRTCBridge instances, a bound on how often one is created
  StreamId,  \* "<device>-<resolution>": the keys of RTSPServer.streams
  Path,      \* Path[c]: the stream the URL of connection c names
  Admin,     \* which of "cleaner" (the idle sweep) and "stopper" (Stop) run
  None

ASSUME ServerAssumption ==
  /\ Path \in [Client -> StreamId]
  /\ Admin \subseteq {"cleaner", "stopper"}
  /\ None \notin Client \cup Stream \cup Bridge \cup StreamId \cup {"cleaner", "stopper"}
  /\ Client \cap {"cleaner", "stopper"} = {}

VARIABLES
  \* RTSPServer
  smutex,      \* who holds RTSPServer.mutex between two steps
  streams,     \* the map of streams
  registered,  \* the map of clients
  running,
  \* CameraStream
  sid,         \* the key it was created under, None before its creation
  csmutex,     \* the startStream goroutine inside WebRTCBridge.Start, or None
  members,     \* CameraStream.clients
  active, connecting,
  started,     \* bridgeStarted
  bridge,      \* webrtcBridge
  timerSet,    \* shutdownTimer is not nil
  timerArmed,  \* that timer is counting
  callbacks,   \* how many expired timers wait for the mutex
  idle,        \* lastActivity is more than five minutes ago
  removing,    \* a removeStream goroutine is under way
  \* WebRTCBridge
  owner,       \* the stream it was created for, None before its creation
  wired,       \* OnError is not nil
  session,     \* its PeerConnection is open and its MQTT session registered
  connected,
  outcome,     \* what its waiter was finished with
  failing,     \* progress of a goroutine inside handleError
  \* goroutines
  cpc,         \* the connection's goroutine
  cstream,     \* RTSPClient.stream
  closed,      \* connections the server closed
  closing,     \* clients handleBridgeError still has to close
  spc,         \* the startStream goroutine spawned by the client's AddClient
  try,         \* its attempt
  todo, sweeping, leaving   \* the loops of Stop and cleanupInactiveStreams

serverVars  == <<smutex, streams, registered, running>>
lifeVars    == <<active, connecting, timerSet, timerArmed, wired, session, connected, removing>>
streamVars  == <<sid, csmutex, members, started, bridge, callbacks, idle>>
bridgeVars  == <<owner, outcome, failing>>
clientVars  == <<cpc, cstream, closed, closing>>
starterVars == <<spc, try>>
sweepVars   == <<todo, sweeping, leaving>>

vars == <<serverVars, lifeVars, streamVars, bridgeVars, clientVars, starterVars,
          sweepVars>>
-----------------------------------------------------------------------------
ClientPhases  == {"new", "asking", "creating", "adding", "joining", "serving",
                  "leaving", "removing", "done"}
StarterPhases == {"none", "check", "attempt", "start", "wait", "giveUp"}

(* Types of the variables: the one type invariant of the module.           *)
TypeOK ==
  /\ smutex \in Client \cup Admin \cup {None}
  /\ streams \in [StreamId -> Stream \cup {None}]
  /\ registered \subseteq Client
  /\ running \in BOOLEAN
  /\ sid \in [Stream -> StreamId \cup {None}]
  /\ csmutex \in [Stream -> Client \cup {None}]
  /\ members \in [Stream -> SUBSET Client]
  /\ bridge \in [Stream -> Bridge \cup {None}]
  /\ callbacks \in [Stream -> Nat]
  /\ {active, connecting, started, timerSet, timerArmed, idle, removing} \subseteq SUBSET Stream
  /\ owner \in [Bridge -> Stream \cup {None}]
  /\ {wired, session, connected} \subseteq SUBSET Bridge
  /\ outcome \in [Bridge -> {"none", "ok", "failed"}]
  /\ failing \in [Bridge -> {"no", "checked", "calling"}]
  /\ cpc \in [Client -> ClientPhases]
  /\ cstream \in [Client -> Stream \cup {None}]
  /\ {closed, closing} \subseteq SUBSET Client
  /\ spc \in [Client -> StarterPhases]
  /\ try \in [Client -> {1, 2}]
  /\ todo \subseteq Stream
  /\ sweeping \in Stream \cup {None}
  /\ leaving \subseteq Client

Init ==
  /\ smutex = None /\ registered = {} /\ running = TRUE
  /\ streams = [k \in StreamId |-> None]
  /\ sid = [i \in Stream |-> None]
  /\ csmutex = [i \in Stream |-> None]
  /\ members = [i \in Stream |-> {}]
  /\ bridge = [i \in Stream |-> None]
  /\ callbacks = [i \in Stream |-> 0]
  /\ active = {} /\ connecting = {} /\ started = {} /\ timerSet = {} /\ timerArmed = {}
  /\ idle = {} /\ removing = {} /\ wired = {} /\ session = {} /\ connected = {}
  /\ owner = [b \in Bridge |-> None]
  /\ outcome = [b \in Bridge |-> "none"]
  /\ failing = [b \in Bridge |-> "no"]
  /\ cpc = [c \in Client |-> "new"]
  /\ cstream = [c \in Client |-> None]
  /\ spc = [c \in Client |-> "none"]
  /\ try = [c \in Client |-> 1]
  /\ closed = {} /\ closing = {} /\ todo = {} /\ sweeping = None /\ leaving = {}
-----------------------------------------------------------------------------
(* CameraStream's own operations.  Each runs inside a critical section of  *)
(* the stream's mutex that some action below opens and closes.             *)

Free(i) == csmutex[i] = None

\* A critical section that returns without unlocking.
ForgetToUnlock(i) == i \in Stream /\ UNCHANGED csmutex

Unlock(i) == csmutex' = [csmutex EXCEPT ![i] = None]

\* A client's arrival that leaves lastActivity as it is.
LeaveActivity(i) == i \in Stream /\ UNCHANGED idle

Touch(i) == idle' = idle \ {i}

\* An AddClient, or a teardown, that lets the pending shutdown timer run.
LeaveTimer(i) == i \in Stream /\ UNCHANGED <<timerSet, timerArmed>>

CancelTimer(i) == /\ timerSet' = timerSet \ {i}
                  /\ timerArmed' = timerArmed \ {i}

\* WebRTCBridge.Stop does nothing to a bridge whose Start did not succeed, nor
\* to one whose HandleDisconnect, which takes no lock, cleared "connected" first.
StopBridge(b) == /\ connected' = connected \ {b}
                 /\ \/ session' = session \ ({b} \cap connected)
                    \/ session' = session

StopStreamInternal(i) ==
  \/ /\ i \in active \cup connecting
     /\ active' = active \ {i}
     /\ connecting' = connecting \ {i}
     /\ CancelTimer(i)
     /\ wired' = wired \ {bridge[i]}
     /\ StopBridge(bridge[i])
     /\ removing' = removing \cup {i}
  \/ i \notin active \cup connecting /\ UNCHANGED lifeVars

\* A RemoveClient that leaves the clients of a stream that is down alone.
RemoveFromShown(i, c) ==
  /\ members' = IF i \in active THEN [members EXCEPT ![i] = @ \ {c}] ELSE members
  /\ Touch(i)
  /\ LET unwatched == members[i] \subseteq {c} /\ i \in active
     IN  /\ timerSet' = IF unwatched THEN timerSet \cup {i} ELSE timerSet
         /\ timerArmed' = IF unwatched THEN timerArmed \cup {i} ELSE timerArmed
  /\ UNCHANGED <<active, connecting, wired, session, connected, removing>>

\* CameraStream.RemoveClient, with scheduleShutdown.
RemoveClient(i, c) ==
  /\ members' = [members EXCEPT ![i] = @ \ {c}]
  /\ Touch(i)
  /\ LET unwatched == members[i] \subseteq {c} /\ i \in active
     IN  /\ timerSet' = IF unwatched THEN timerSet \cup {i} ELSE timerSet
         /\ timerArmed' = IF unwatched THEN timerArmed \cup {i} ELSE timerArmed
  /\ UNCHANGED <<active, connecting, wired, session, connected, removing>>

Unused(b) == owner[b] = None
-----------------------------------------------------------------------------
(* The connection's goroutine: handleConnection and handleRTSPProtocol.    *)

\* The first request named a camera of the storage.
Ask(c) ==
  /\ cpc[c] = "new"
  /\ running
  /\ cpc' = [cpc EXCEPT ![c] = "asking"]
  /\ UNCHANGED <<serverVars, lifeVars, streamVars, bridgeVars, cstream, closed,
                 closing, starterVars, sweepVars>>

\* getOrCreateStream reads active and connecting without the stream's mutex.
ReuseStream(c) ==
  /\ cpc[c] = "asking"
  /\ smutex = None
  /\ streams[Path[c]] \in active \cup connecting
  /\ cstream' = [cstream EXCEPT ![c] = streams[Path[c]]]
  /\ Touch(streams[Path[c]])
  /\ cpc' = [cpc EXCEPT ![c] = "adding"]
  /\ UNCHANGED <<serverVars, lifeVars, sid, csmutex, members, started, bridge, callbacks,
                 bridgeVars, closed, closing, starterVars, sweepVars>>

\* Otherwise it creates one, and waits in MQTTManager.GetClient with the mutex.
MissStream(c) ==
  /\ cpc[c] = "asking"
  /\ smutex = None
  /\ streams[Path[c]] \notin active \cup connecting
  /\ smutex' = c
  /\ cpc' = [cpc EXCEPT ![c] = "creating"]
  /\ UNCHANGED <<streams, registered, running, lifeVars, streamVars, bridgeVars, cstream,
                 closed, closing, starterVars, sweepVars>>

CreateStream(c) ==
  /\ cpc[c] = "creating"
  /\ \E i \in Stream, b \in Bridge :  \* bound: instances, bridges
       /\ sid[i] = None /\ Unused(b)
       /\ i = CHOOSE j \in Stream : sid[j] = None
       /\ b = CHOOSE d \in Bridge : Unused(d)
       /\ sid' = [sid EXCEPT ![i] = Path[c]]
       /\ bridge' = [bridge EXCEPT ![i] = b]
       /\ owner' = [owner EXCEPT ![b] = i]
       /\ wired' = wired \cup {b}
       /\ streams' = [streams EXCEPT ![Path[c]] = i]
       /\ cstream' = [cstream EXCEPT ![c] = i]
  /\ smutex' = None
  /\ cpc' = [cpc EXCEPT ![c] = "adding"]
  /\ UNCHANGED <<registered, running, active, connecting, timerSet, timerArmed, session,
                 connected, removing, csmutex, members, started, callbacks, idle, outcome,
                 failing, closed, closing, starterVars, sweepVars>>

\* The broker could not be reached: 500, and the connection is closed.
RefuseStream(c) ==
  /\ cpc[c] = "creating"
  /\ smutex' = None
  /\ cpc' = [cpc EXCEPT ![c] = "done"]
  /\ closed' = closed \cup {c}
  /\ UNCHANGED <<streams, registered, running, lifeVars, streamVars, bridgeVars, cstream, closing, starterVars, sweepVars>>

AddToServer(c) ==
  /\ cpc[c] = "adding"
  /\ smutex = None
  /\ registered' = registered \cup {c}
  /\ cpc' = [cpc EXCEPT ![c] = "joining"]
  /\ UNCHANGED <<smutex, streams, running, lifeVars, streamVars, bridgeVars, cstream, closed, closing, starterVars, sweepVars>>

\* CameraStream.AddClient.
Join(c) == LET i == cstream[c] IN
  /\ cpc[c] = "joining"
  /\ Free(i)
  /\ CancelTimer(i)
  /\ members' = [members EXCEPT ![i] = @ \cup {c}]
  /\ Touch(i)
  /\ \/ /\ i \notin active \cup connecting
        /\ connecting' = connecting \cup {i}
        /\ spc' = [spc EXCEPT ![c] = "check"]
     \/ i \in active \cup connecting /\ UNCHANGED <<connecting, spc>>
  /\ cpc' = [cpc EXCEPT ![c] = "serving"]
  /\ UNCHANGED <<serverVars, active, wired, session, connected, removing, sid, csmutex,
                 started, bridge, callbacks, bridgeVars, cstream, closed, closing,
                 try, sweepVars>>

\* The loop ends: TEARDOWN, the peer or the server closed, or 60 s of silence.
Depart(c) ==
  /\ cpc[c] = "serving"
  /\ cpc' = [cpc EXCEPT ![c] = "leaving"]
  /\ UNCHANGED <<serverVars, lifeVars, streamVars, bridgeVars, cstream, closed, closing,
                 starterVars, sweepVars>>

\* removeClient takes the server's mutex and then waits for the stream's.
BeginRemove(c) ==
  /\ cpc[c] = "leaving"
  /\ smutex = None
  /\ smutex' = c
  /\ cpc' = [cpc EXCEPT ![c] = "removing"]
  /\ UNCHANGED <<streams, registered, running, lifeVars, streamVars, bridgeVars, cstream, closed, closing, starterVars, sweepVars>>

EndRemove(c) ==
  /\ cpc[c] = "removing"
  /\ Free(cstream[c])
  /\ RemoveClient(cstream[c], c)
  /\ closed' = closed \cup {c}
  /\ registered' = registered \ {c}
  /\ smutex' = None
  /\ cpc' = [cpc EXCEPT ![c] = "done"]
  /\ UNCHANGED <<streams, running, sid, csmutex, started, bridge, callbacks, bridgeVars,
                 cstream, closing, starterVars, sweepVars>>
-----------------------------------------------------------------------------
(* startStream: the goroutine spawned by c's AddClient.                    *)

\* A goroutine that does not look whether the stream came up meanwhile.
MayRestart(i) == i \in active \cup connecting

MayStart(i) == i \notin active /\ i \in connecting

StarterStops(c) ==
  /\ spc' = [spc EXCEPT ![c] = "none"]
  /\ UNCHANGED <<serverVars, lifeVars, streamVars, bridgeVars, clientVars, try, sweepVars>>

CheckStart(c) == LET i == cstream[c] IN
  /\ spc[c] = "check"
  /\ Free(i)
  /\ \/ ~MayStart(i) /\ StarterStops(c)
     \/ /\ MayStart(i)
        /\ spc' = [spc EXCEPT ![c] = "attempt"]
        /\ try' = [try EXCEPT ![c] = 1]
        /\ UNCHANGED <<serverVars, lifeVars, streamVars, bridgeVars, clientVars, sweepVars>>

\* replaceBridge: the old bridge loses its handler and is stopped.
ReplaceBridge(i) ==
  \E b \in Bridge :
    /\ Unused(b)
    /\ b = CHOOSE d \in Bridge : Unused(d)
    /\ bridge' = [bridge EXCEPT ![i] = b]
    /\ owner' = [owner EXCEPT ![b] = i]
    /\ wired' = (wired \ {bridge[i]}) \cup {b}
    /\ StopBridge(bridge[i])

\* A first attempt that takes the stream's bridge for an unused one.
RetryOnly(c, i) == i \in Stream /\ try[c] = 2

NeedsNewBridge(c, i) == try[c] = 2 \/ i \in started

\* One turn of the retry loop, after the three seconds' sleep of the second.
\* WebRTCBridge.Start runs with the stream's mutex held.
Attempt(c) == LET i == cstream[c] IN
  /\ spc[c] = "attempt"
  /\ Free(i)
  /\ \/ ~MayStart(i) /\ StarterStops(c)
     \/ /\ MayStart(i)
        /\ \/ NeedsNewBridge(c, i) /\ ReplaceBridge(i)
           \/ /\ ~NeedsNewBridge(c, i)
              /\ UNCHANGED <<bridge, owner, wired, session, connected>>
        /\ started' = started \cup {i}
        /\ csmutex' = [csmutex EXCEPT ![i] = c]
        /\ spc' = [spc EXCEPT ![c] = "start"]
        /\ UNCHANGED <<serverVars, active, connecting, timerSet, timerArmed, removing, sid,
                       members, callbacks, idle, outcome, failing, clientVars, try, sweepVars>>

\* Start: the offer is out, its session registered, the waiter waited for.
SendOffer(c) ==
  /\ spc[c] = "start"
  /\ session' = session \cup {bridge[cstream[c]]}
  /\ spc' = [spc EXCEPT ![c] = "wait"]
  /\ UNCHANGED <<serverVars, active, connecting, timerSet, timerArmed, wired, connected, removing,
                 streamVars, bridgeVars, clientVars, try, sweepVars>>

LastTry(c) == try[c] = 2

FailAttempt(c) ==
  /\ Unlock(cstream[c])
  /\ \/ LastTry(c) /\ spc' = [spc EXCEPT ![c] = "giveUp"] /\ UNCHANGED try
     \/ ~LastTry(c) /\ spc' = [spc EXCEPT ![c] = "attempt"]
                    /\ try' = [try EXCEPT ![c] = @ + 1]
  /\ UNCHANGED <<serverVars, active, connecting, timerSet, timerArmed, wired, connected,
                 removing, sid, members, started, bridge, callbacks, idle, bridgeVars,
                 clientVars, sweepVars>>

\* No WebRTC config, no broker, no PeerConnection: before a session exists,
\* or the offer could not be sent: after.
StartRefused(c) ==
  /\ spc[c] = "start"
  /\ \/ UNCHANGED session
     \/ session' = session \cup {bridge[cstream[c]]}
  /\ FailAttempt(c)

StartFailed(c) ==
  /\ spc[c] = "wait"
  /\ outcome[bridge[cstream[c]]] = "failed"
  /\ UNCHANGED session
  /\ FailAttempt(c)

\* Start returns nil: the camera answered, or the waiter let Start through
\* before it stored the failure (Waiter, DoneBegin before DoneEnd).
StartSucceeds(c) == LET i == cstream[c] IN
  /\ spc[c] = "wait"
  /\ outcome[bridge[i]] # "none"
  /\ connected' = connected \cup {bridge[i]}
  /\ connecting' = connecting \ {i}
  /\ active' = active \cup {i}
  /\ Unlock(i)
  /\ spc' = [spc EXCEPT ![c] = "none"]
  /\ UNCHANGED <<serverVars, timerSet, timerArmed, wired, session, removing, sid, members,
                 started, bridge, callbacks, idle, bridgeVars, clientVars, try, sweepVars>>

GiveUp(c) ==
  /\ spc[c] = "giveUp"
  /\ Free(cstream[c])
  /\ StopStreamInternal(cstream[c])
  /\ spc' = [spc EXCEPT ![c] = "none"]
  /\ UNCHANGED <<serverVars, streamVars, bridgeVars, clientVars, try, sweepVars>>
-----------------------------------------------------------------------------
(* The bridge's callbacks.                                                 *)

\* The PeerConnection connects, or the data channel's handshake completes.
CameraAnswers(b) ==
  /\ b \in session
  /\ \E c \in Client : spc[c] = "wait" /\ bridge[cstream[c]] = b
  /\ outcome[b] = "none"
  /\ outcome' = [outcome EXCEPT ![b] = "ok"]
  /\ UNCHANGED <<serverVars, lifeVars, streamVars, owner, failing, clientVars, starterVars,
                 sweepVars>>

\* ICE, the data channel or the device fails: handleError finds OnError set
\* and finishes the waiter (bound: one handleError of a bridge at a time).
BridgeFails(b) ==
  /\ b \in session \cap wired
  /\ failing[b] = "no"
  /\ failing' = [failing EXCEPT ![b] = "checked"]
  /\ outcome' = [outcome EXCEPT ![b] = IF @ = "none" THEN "failed" ELSE @]
  /\ UNCHANGED <<serverVars, lifeVars, streamVars, owner, clientVars, starterVars, sweepVars>>

\* handleError reads OnError a second time to call it, with no lock held.  If
\* a teardown cleared it meanwhile the call panics; that step ends
\* the process and every behaviour with it, so it is not among the actions.
CallOnError(b) ==
  /\ failing[b] = "checked"
  /\ b \in wired
  /\ failing' = [failing EXCEPT ![b] = "calling"]
  /\ UNCHANGED <<serverVars, lifeVars, streamVars, owner, outcome, clientVars, starterVars,
                 sweepVars>>

HandleBridgeError(b) == LET i == owner[b] IN
  /\ failing[b] = "calling"
  /\ Free(i)
  /\ StopStreamInternal(i)
  /\ closing' = IF i \in active \cup connecting THEN closing \cup members[i] ELSE closing
  /\ failing' = [failing EXCEPT ![b] = "no"]
  /\ UNCHANGED <<serverVars, streamVars, owner, outcome, cpc, cstream, closed,
                 starterVars, sweepVars>>

CloseClient(c) ==
  /\ c \in closing
  /\ closing' = closing \ {c}
  /\ closed' = closed \cup {c}
  /\ UNCHANGED <<serverVars, lifeVars, streamVars, bridgeVars, cpc, cstream, starterVars,
                 sweepVars>>
-----------------------------------------------------------------------------
(* Timers and cleanup.                                                     *)

\* The shutdown delay is over; the timer's function waits for the mutex.
TimerFires(i) ==
  /\ i \in timerArmed
  /\ timerArmed' = timerArmed \ {i}
  /\ callbacks' = [callbacks EXCEPT ![i] = @ + 1]
  /\ UNCHANGED <<serverVars, active, connecting, timerSet, wired, session, connected, removing,
                 sid, csmutex, members, started, bridge, idle, bridgeVars, clientVars,
                 starterVars, sweepVars>>

Shutdown(i) ==
  /\ callbacks[i] > 0
  /\ Free(i)
  /\ callbacks' = [callbacks EXCEPT ![i] = @ - 1]
  /\ \/ members[i] = {} /\ i \in active /\ StopStreamInternal(i)
     \/ /\ ~(members[i] = {} /\ i \in active)
        /\ timerSet' = timerSet \ {i}
        /\ UNCHANGED <<active, connecting, timerArmed, wired, session, connected, removing>>
  /\ UNCHANGED <<serverVars, sid, csmutex, members, started, bridge, idle, bridgeVars,
                 clientVars, starterVars, sweepVars>>

RemoveStream(i) ==
  /\ i \in removing
  /\ smutex = None
  /\ removing' = removing \ {i}
  /\ streams' = [streams EXCEPT ![sid[i]] = IF @ = i THEN None ELSE @]
  /\ UNCHANGED <<smutex, registered, running, active, connecting, timerSet, timerArmed, wired,
                 session, connected, streamVars, bridgeVars, clientVars, starterVars,
                 sweepVars>>

\* Five minutes pass since the stream's last client came, left or found it.
\* A client on its way from getOrCreateStream to AddClient is not that slow
\* (bound: no mutex is held in its way for five minutes).
Age(i) ==
  /\ "cleaner" \in Admin  \* nobody else reads lastActivity
  /\ sid[i] # None
  /\ i \notin idle
  /\ \A c \in Client : cstream[c] = i => cpc[c] \notin {"adding", "joining"}
  /\ idle' = idle \cup {i}
  /\ UNCHANGED <<serverVars, lifeVars, sid, csmutex, members, started, bridge, callbacks,
                 bridgeVars, clientVars, starterVars, sweepVars>>

Registered == {i \in Stream : \E k \in StreamId : streams[k] = i}

\* RTSPServer.Stop: the connections first, then every stream.
BeginStop ==
  /\ "stopper" \in Admin
  /\ running
  /\ smutex = None
  /\ smutex' = "stopper"
  /\ running' = FALSE
  /\ closed' = closed \cup registered
  /\ todo' = Registered
  /\ UNCHANGED <<streams, registered, lifeVars, streamVars, bridgeVars, cpc, cstream,
                 closing, starterVars, sweeping, leaving>>

\* A sweep that leaves shown streams alone.
InactiveAndDown(i) == i \in idle \ active /\ members[i] = {}

Inactive(i) == i \in idle /\ members[i] = {}

\* cleanupInactiveStreams; a sweep that finds nothing to do is left out.
BeginCleanup ==
  /\ "cleaner" \in Admin
  /\ running
  /\ smutex = None
  /\ \E i \in Registered : Inactive(i)
  /\ smutex' = "cleaner"
  /\ todo' = Registered
  /\ UNCHANGED <<streams, registered, running, lifeVars, streamVars, bridgeVars, clientVars,
                 starterVars, sweeping, leaving>>

\* The next stream of the loop: CameraStream.Stop begins, or it is spared.
SweepNext(i) ==
  /\ sweeping = None
  /\ i \in todo
  /\ todo' = todo \ {i}
  /\ \/ /\ smutex = "stopper" \/ Inactive(i)
        /\ sweeping' = i /\ leaving' = members[i]
     \/ /\ smutex = "cleaner" /\ ~Inactive(i)
        /\ UNCHANGED <<sweeping, leaving>>
  /\ UNCHANGED <<serverVars, lifeVars, streamVars, bridgeVars, clientVars, starterVars>>

SweepClient(c) ==
  /\ c \in leaving
  /\ Free(sweeping)
  /\ RemoveClient(sweeping, c)
  /\ leaving' = leaving \ {c}
  /\ UNCHANGED <<serverVars, sid, csmutex, started, bridge, callbacks, bridgeVars, cpc, cstream,
                 closed, closing, starterVars, todo, sweeping>>

SweepStream ==
  /\ sweeping # None
  /\ leaving = {}
  /\ Free(sweeping)
  /\ StopStreamInternal(sweeping)
  /\ streams' = [k \in StreamId |->
                   IF smutex = "cleaner" /\ streams[k] = sweeping THEN None ELSE streams[k]]
  /\ sweeping' = None
  /\ UNCHANGED <<smutex, registered, running, streamVars, bridgeVars, clientVars, starterVars,
                 todo, leaving>>

EndSweep ==
  /\ smutex \in Admin
  /\ todo = {} /\ sweeping = None
  /\ smutex' = None
  /\ UNCHANGED <<streams, registered, running, lifeVars, streamVars, bridgeVars, clientVars,
                 starterVars, sweepVars>>
-----------------------------------------------------------------------------
Connection(c) == \/ Ask(c) \/ ReuseStream(c) \/ MissStream(c) \/ CreateStream(c)
                 \/ RefuseStream(c) \/ AddToServer(c) \/ Join(c)
                 \/ Depart(c) \/ BeginRemove(c) \/ EndRemove(c)

Starter(c) == \/ CheckStart(c) \/ Attempt(c) \/ SendOffer(c) \/ StartRefused(c)
              \/ StartFailed(c) \/ StartSucceeds(c) \/ GiveUp(c)

Callback(b) == CameraAnswers(b) \/ BridgeFails(b) \/ CallOnError(b) \/ HandleBridgeError(b)

Upkeep(i) == TimerFires(i) \/ Shutdown(i) \/ RemoveStream(i) \/ Age(i) \/ SweepNext(i)

Next == \/ \E c \in Client : Connection(c) \/ Starter(c) \/ CloseClient(c) \/ SweepClient(c)
        \/ \E b \in Bridge : Callback(b)
        \/ \E i \in Stream : Upkeep(i)
        \/ BeginStop \/ BeginCleanup \/ SweepStream \/ EndSweep

Spec == Init /\ [][Next]_vars
-----------------------------------------------------------------------------
(***************************************************************************)
(* Fairness.  The Go scheduler runs runnable goroutines, armed timers      *)
(* fire, GetClient gives up after four tries: while a step of the program  *)
(* is possible, one is taken.  That is weaker than fairness for each       *)
(* goroutine, and enough here, where each client connects and leaves once. *)
(* Clients need not leave, unless the server closed their connection, and  *)
(* nothing makes a bridge fail.                                            *)
(***************************************************************************)
Serve(c) == \/ ReuseStream(c) \/ MissStream(c) \/ CreateStream(c) \/ RefuseStream(c)
            \/ AddToServer(c) \/ Join(c) \/ BeginRemove(c) \/ EndRemove(c)
            \/ c \in closed /\ Depart(c)

Run == \/ \E c \in Client : Serve(c) \/ Starter(c) \/ CloseClient(c) \/ SweepClient(c)
       \/ \E b \in Bridge : CallOnError(b) \/ HandleBridgeError(b)
       \/ \E i \in Stream : TimerFires(i) \/ Shutdown(i) \/ RemoveStream(i) \/ SweepNext(i)
       \/ SweepStream \/ EndSweep

\* Every camera answers the offer a Start waits on.
Answer == \E b \in Bridge : CameraAnswers(b)

\* Five minutes without a viewer pass, and the half-minute ticker ticks.
Tick == BeginCleanup \/ \E i \in Stream : Age(i)

FairSpec       == Spec /\ WF_vars(Run)
ResponsiveSpec == Spec /\ WF_vars(Run \/ Answer)
TickingSpec    == Spec /\ WF_vars(Run \/ Answer) /\ WF_vars(Tick)
-----------------------------------------------------------------------------
(* A stream that is shown or being started runs on a bridge whose errors   *)
(* are listened to, and a shown one on a bridge that is up: no stream      *)
(* stays active with dead video after a fast reconnect (issue #68,         *)
(* startStream and replaceBridge).                                         *)
WatchedBridge ==
  running => \A i \in Stream :
    /\ i \in active \/ csmutex[i] # None => bridge[i] \in wired
    /\ i \in active => bridge[i] \in session \cap connected

(* The shutdown timer counts only for a shown stream that nobody watches,  *)
(* and can then still be cancelled: no orphaned timer takes the stream     *)
(* from a client that came back (AddClient, scheduleShutdown).             *)
TimerOnlyWhenUnwatched ==
  \A i \in timerArmed : i \in timerSet /\ i \in active /\ members[i] = {}

(* The bridge of a shown stream is never swapped under its viewers, though *)
(* two startStream goroutines may be at work on the stream (a retry that   *)
(* slept through a teardown, and the restart after it).                    *)
ShownBridgeStays ==
  [][\A i \in active : i \in active' => bridge'[i] = bridge[i]]_vars

(* Each bridge connects at most once, and the stream is shown exactly while *)
(* its bridge is up: CameraSession.  No restart, retry or late error brings *)
(* back a bridge that has run ("Stop() cancels its context and closes the   *)
(* PeerConnection", startStream).                                           *)
AtHand(b) == LET i == owner[b] IN bridge[i] = b /\ (i \in started => ~Free(i))
Life(b) == IF Unused(b) THEN "unused"
           ELSE IF b \in connected THEN "up"
           ELSE IF AtHand(b) THEN "ready" ELSE "spent"

Lives == [b \in Bridge |-> Life(b)]
Camera == INSTANCE CameraSession WITH life <- Lives, shown <- active
ImplementsCamera == Camera!Spec

(* Nobody who left is still counted as a viewer, nor kept in either map,   *)
(* whatever stopped the stream meanwhile: the shutdown timer depends on it.*)
NoGhostViewer ==
  \A c \in Client : cpc[c] = "done" =>
     c \notin registered /\ \A i \in Stream : c \notin members[i]

(* The server's lock comes free again: one camera's start, a sweep, or a   *)
(* client on its way out never blocks the others for good.                 *)
ServerResponds ==
  \A c \in Client : cpc[c] \in {"asking", "leaving"}
                      ~> (cpc[c] \in {"serving", "done"})

(* A registered stream that nobody watches does not stream on for ever,    *)
(* though a client that left while the stream was still being started      *)
(* armed no timer: the idle sweep gets it (cleanupInactiveStreams).        *)
UnwatchedStreamStops ==
  \A i \in Stream :
    (i \in active /\ members[i] = {} /\ i \notin removing /\ streams[sid[i]] = i)
      ~> (i \notin active \/ members[i] # {})

(* The idle sweep, which counts the viewers without the stream's mutex and *)
(* stops the stream with it, never takes a stream from a viewer who joined *)
(* in between (cleanupInactiveStreams, getOrCreateStream, AddClient).      *)
SweepSparesViewers ==
  [][\A i \in Stream : smutex = "cleaner" /\ sweeping = i =>
       /\ members[i] \subseteq members'[i]
       /\ i \in active /\ i \notin active' => members[i] = {}]_vars
-----------------------------------------------------------------------------
(* What the code's documents and comments say, and the code does not do.   *)

(* Clients that ask for one camera at the same time share one stream: the  *)
(* design has them "all find same stream in getOrCreateStream()".  That    *)
(* holds the server's mutex, but a new stream is neither active nor        *)
(* connecting until its client calls AddClient, so a second client that    *)
(* looks it up in between puts another in its place.                       *)
OneInstance == \A i, j \in active \cup connecting : sid[i] = sid[j] => i = j
=============================================================================
