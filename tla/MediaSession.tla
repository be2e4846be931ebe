---------------------------- MODULE MediaSession ----------------------------
(***************************************************************************)
(* The sessions of one camera stream and the forwarders of the bridges the *)
(* stream goes through in its life (pkg/rtsp/protocol.go, server.go).      *)
(*                                                                         *)
(* A SETUP takes no lock: it writes into the forwarder of the bridge the   *)
(* stream holds at that moment, while the stream's mutex may be held by a  *)
(* start attempt.  A retry puts a fresh bridge, with an empty forwarder,   *)
(* in the stream.  The model follows one stream until it has left the      *)
(* server's map; the map itself is in RTSPServer.                          *)
(***************************************************************************)
EXTENDS RtpForwarder, FiniteSets

CONSTANTS
  Clients,      \* RTSP connections to the stream
  Starters,     \* goroutines that run startStream (a bound)
  MaxBridges,   \* bridges the stream goes through (a bound)
  MaxSetups,    \* MaxSetups[c]: SETUP requests of a session (a bound)
  MaxOthers,    \* ports other processes hold at a time (a bound)
  Talkback      \* whether the description offers a return channel

ASSUME BoundsAssumption == /\ MaxBridges \in Nat \ {0} /\ MaxOthers \in Nat
                           /\ MaxSetups \in [Clients -> Nat]
ASSUME TalkbackAssumption == Talkback \in BOOLEAN
ASSUME PortAssumption == /\ ClientPorts \subseteq Nat \ {0} /\ ServerPorts \subseteq Nat
                         /\ Channels \subseteq Nat
ASSUME NoneAssumption == /\ None \notin Nat /\ None \notin {"UDP", "TCP"}
                         /\ None \notin UDPEntry /\ None \notin TCPEntry
                         /\ None \notin [bridge : Nat, dest : Nat]

VARIABLES
  conn,        \* conn[c]: "new", "in", "closing" or "gone"
  mode,        \* mode[c]: the transport of its SETUPs, None before the first
  ports,       \* ports[c]: client ports named so far, 0 for none
  chans,       \* chans[c]: interleaved channels of the session
  setups,      \* setups[c]: SETUP requests handled
  asked,       \* asked[c][t]: the bridge and the destination of its last SETUP
  redone,      \* redone[c]: tracks set up more than once
  cur,         \* the bridge the stream holds
  connected,   \* the bridges that are connected
  ended,       \* the bridges that were stopped after they had been
  fwd,         \* fwd[b][c]: the entry of a session in a bridge's forwarder
  open,        \* server ports the program listens on
  others,      \* server ports other processes hold
  pc,          \* pc[g]: where a startStream goroutine is
  active, connecting, started, timer,
  leaving      \* removeStream: "no", "due" or "done"

session == <<mode, ports, chans, setups, asked, redone>>
stream  == <<pc, active, connecting, started, timer, leaving>>
table   == <<fwd, open>>
links   == <<connected, ended>>
vars == <<conn, session, cur, links, table, others, stream>>

Bridges == 1 .. MaxBridges
Offered == Tracks \ (IF Talkback THEN {} ELSE {"back"})

Locked   == \E g \in Starters : pc[g] \in {"try1", "try2"}
Attached == {c \in Clients : conn[c] \in {"in", "closing"}}

NoPorts  == [t \in {"video", "audio"} |-> 0]
NotAsked == [t \in Tracks |-> None]

Init ==
  /\ conn = [c \in Clients |-> "new"]
  /\ mode = [c \in Clients |-> None]
  /\ ports = [c \in Clients |-> NoPorts]
  /\ chans = [c \in Clients |-> DefaultChannel]
  /\ setups = [c \in Clients |-> 0]
  /\ asked = [c \in Clients |-> NotAsked]
  /\ redone = [c \in Clients |-> {}]
  /\ cur = 1 /\ connected = {} /\ ended = {}
  /\ fwd = [b \in Bridges |-> [c \in Clients |-> None]]
  /\ open = {} /\ others = {}
  /\ pc = [g \in Starters |-> "off"]
  /\ active = FALSE /\ connecting = FALSE /\ started = FALSE
  /\ timer = FALSE /\ leaving = "no"

-----------------------------------------------------------------------------
\* Requests of a session.  A session in "closing" may still be in a request.

InRequest(c) == conn[c] \in {"in", "closing"} /\ setups[c] < MaxSetups[c]

\* The answered SETUP of track t, which named destination d.
Answer(c, t, d) ==
  /\ asked' = [asked EXCEPT ![c][t] = [bridge |-> cur, dest |-> d]]
  /\ redone' = [redone EXCEPT ![c] = IF asked[c][t] = None THEN @ ELSE @ \cup {t}]
  /\ setups' = [setups EXCEPT ![c] = @ + 1]

SetupTCP(c) ==
  /\ InRequest(c) /\ mode[c] \in {None, "TCP"}
  /\ mode' = [mode EXCEPT ![c] = "TCP"]
  /\ \E t \in Offered : \E ch \in Channels \cup {DefaultChannel[t]} :
       /\ chans' = [chans EXCEPT ![c][t] = ch]
       /\ fwd' = [fwd EXCEPT ![cur][c] = AddTCPClient(@, chans'[c])]
       /\ Answer(c, t, ch)
  /\ UNCHANGED <<conn, ports, cur, links, open, others, stream>>

SetupUDP(c) ==
  /\ InRequest(c) /\ mode[c] \in {None, "UDP"}
  /\ mode' = [mode EXCEPT ![c] = "UDP"]
  /\ \E t \in {"video", "audio"} : \E port \in ClientPorts :
       /\ ports' = [ports EXCEPT ![c][t] = port]
       /\ fwd' = [fwd EXCEPT ![cur][c] = AddUDPClient(@, ports'[c])]
       /\ Answer(c, t, port)
  /\ UNCHANGED <<conn, chans, cur, links, open, others, stream>>

\* The return audio of a UDP session: its listeners, or those it has already.
SetupBackchannel(c) ==
  /\ InRequest(c) /\ "back" \in Offered /\ mode[c] \in {None, "UDP"}
  /\ mode' = [mode EXCEPT ![c] = "UDP"]
  /\ LET e == fwd[cur][c] IN
       /\ e # None
       /\ \/ e.pair # None /\ UNCHANGED table /\ Answer(c, "back", e.pair)
          \/ /\ e.pair = None
             /\ \E b \in ConsecutivePorts(open \cup others) :
                  /\ fwd' = [fwd EXCEPT ![cur][c].pair = b]
                  /\ open' = open \cup {b, b + 1}
                  /\ Answer(c, "back", b)
  /\ UNCHANGED <<conn, ports, chans, cur, links, others, stream>>

\* It is refused when the session has no entry or no attempt finds a pair.
RefuseBackchannel(c) ==
  /\ InRequest(c) /\ "back" \in Offered /\ mode[c] \in {None, "UDP"}
  /\ mode' = [mode EXCEPT ![c] = "UDP"]
  /\ LET e == fwd[cur][c] IN
       e # None => (e.pair = None /\ AttemptsMayFail(open \cup others))
  /\ setups' = [setups EXCEPT ![c] = @ + 1]
  /\ UNCHANGED <<conn, ports, chans, asked, redone, cur, links, table, others, stream>>

-----------------------------------------------------------------------------
\* Connections.

AddClient(c) ==
  /\ conn[c] = "new" /\ ~Locked /\ leaving # "done"
  /\ conn' = [conn EXCEPT ![c] = "in"]
  /\ timer' = FALSE
  /\ IF active \/ connecting
       THEN UNCHANGED <<connecting, pc>>
       ELSE /\ connecting' = TRUE
            /\ \E g \in Starters : pc[g] = "off" /\ pc' = [pc EXCEPT ![g] = "launched"]
  /\ UNCHANGED <<session, cur, links, table, others, active, started, leaving>>

\* The peer closes, tears down, or is silent for a minute.
Hangup(c) ==
  /\ conn[c] = "in"
  /\ conn' = [conn EXCEPT ![c] = "closing"]
  /\ UNCHANGED <<session, cur, links, table, others, stream>>

\* mutant: the entries go, their listeners stay
ForgetsSockets(b, cs) ==
  /\ fwd' = [fwd EXCEPT ![b] = [c \in Clients |-> IF c \in cs THEN None ELSE @[c]]]
  /\ UNCHANGED open

\* The sessions cs leave the forwarder of bridge b and their sockets are closed.
Without(b, cs) ==
  /\ fwd' = [fwd EXCEPT ![b] = [c \in Clients |-> IF c \in cs THEN None ELSE @[c]]]
  /\ open' = open \ UNION {Listeners(fwd[b][c]) : c \in cs}

\* The session's record is dropped with it.
ForgetSession(c) ==
  /\ mode' = [mode EXCEPT ![c] = None]
  /\ ports' = [ports EXCEPT ![c] = NoPorts]
  /\ chans' = [chans EXCEPT ![c] = DefaultChannel]
  /\ setups' = [setups EXCEPT ![c] = 0]
  /\ asked' = [asked EXCEPT ![c] = NotAsked]
  /\ redone' = [redone EXCEPT ![c] = {}]

RemoveClient(c) ==
  /\ conn[c] = "closing" /\ ~Locked
  /\ conn' = [conn EXCEPT ![c] = "gone"]
  /\ ForgetSession(c)
  /\ Without(cur, {c})
  /\ timer' = (timer \/ (Attached = {c} /\ active))
  /\ UNCHANGED <<cur, links, others, pc, active, connecting, started, leaving>>

\* Video that cannot be written to a closed connection drops its entry.
DropDeadClient(c) ==
  /\ cur \in connected /\ conn[c] = "closing"
  /\ fwd[cur][c] # None /\ fwd[cur][c].mode = "TCP"
  /\ fwd' = [fwd EXCEPT ![cur][c] = None]
  /\ UNCHANGED <<conn, session, cur, links, open, others, stream>>

-----------------------------------------------------------------------------
\* The stream: start attempts, errors, shutdown.

\* A bridge that is not connected does not stop: its forwarder keeps its entries.
StopBridge ==
  IF cur \in connected
    THEN /\ connected' = connected \ {cur} /\ ended' = ended \cup {cur}
         /\ Without(cur, Clients)
    ELSE UNCHANGED <<links, table>>

StopStream ==
  IF active \/ connecting
    THEN /\ active' = FALSE /\ connecting' = FALSE /\ timer' = FALSE
         /\ leaving' = (IF leaving = "no" THEN "due" ELSE leaving)
         /\ StopBridge
    ELSE UNCHANGED <<active, connecting, timer, leaving, links, table>>

NextTry == [launched |-> "try1", pausing |-> "try2"]

\* An attempt is due unless another one has brought the stream up, or it was stopped.
MayAttempt == ~active /\ connecting

\* A retry, or an attempt on a bridge that has already run, takes a fresh bridge;
\* RetryOnly forgets the second (the reconnect of startStream's comment).
RetryOnly(g) == pc[g] = "pausing"
NeedsNewBridge(g) == pc[g] = "pausing" \/ started

BeginAttempt(g) ==
  /\ pc[g] \in DOMAIN NextTry /\ ~Locked
  /\ IF ~MayAttempt
       THEN /\ pc' = [pc EXCEPT ![g] = "off"]
            /\ UNCHANGED <<cur, started>>
       ELSE /\ pc' = [pc EXCEPT ![g] = NextTry[@]]
            /\ started' = TRUE
            /\ IF NeedsNewBridge(g)
                 THEN cur < MaxBridges /\ cur' = cur + 1
                 ELSE UNCHANGED cur
  /\ UNCHANGED <<conn, session, links, table, others, active, connecting, timer, leaving>>

AttemptSucceeds(g) ==
  /\ pc[g] \in {"try1", "try2"}
  /\ pc' = [pc EXCEPT ![g] = "off"]
  /\ active' = TRUE /\ connecting' = FALSE
  /\ connected' = connected \cup {cur}
  /\ UNCHANGED <<conn, session, cur, ended, table, others, started, timer, leaving>>

AttemptFails(g) ==
  /\ pc[g] \in {"try1", "try2"}
  /\ pc' = [pc EXCEPT ![g] = IF @ = "try1" THEN "pausing" ELSE "givingUp"]
  /\ UNCHANGED <<conn, session, cur, links, table, others,
                 active, connecting, started, timer, leaving>>

GiveUp(g) ==
  /\ pc[g] = "givingUp" /\ ~Locked
  /\ pc' = [pc EXCEPT ![g] = "off"]
  /\ StopStream
  /\ UNCHANGED <<conn, session, cur, others, started>>

\* The bridge reports an error: the stream stops and its clients are cut off.
\* The report may have waited for the mutex while the stream was started again.
BridgeError ==
  /\ ~Locked /\ (active \/ connecting) /\ started
  /\ StopStream
  /\ conn' = [c \in Clients |-> IF conn[c] = "in" THEN "closing" ELSE conn[c]]
  /\ UNCHANGED <<session, cur, others, pc, started>>

Shutdown ==
  /\ timer /\ ~Locked
  /\ IF Attached = {} /\ active
       THEN StopStream
       ELSE timer' = FALSE /\ UNCHANGED <<active, connecting, leaving, links, table>>
  /\ UNCHANGED <<conn, session, cur, others, pc, started>>

RemoveStream ==
  /\ leaving = "due"
  /\ leaving' = "done"
  /\ UNCHANGED <<conn, session, cur, links, table, others,
                 pc, active, connecting, started, timer>>

\* Other processes take ports of the host and give them back.
OtherProcess ==
  /\ \/ /\ Cardinality(others) < MaxOthers
        /\ \E p \in ServerPorts \ (open \cup others) : others' = others \cup {p}
     \/ \E p \in others : others' = others \ {p}
  /\ UNCHANGED <<conn, session, cur, links, table, stream>>

Next ==
  \/ \E c \in Clients : \/ AddClient(c) \/ SetupTCP(c) \/ SetupUDP(c)
                        \/ SetupBackchannel(c) \/ RefuseBackchannel(c)
                        \/ Hangup(c) \/ RemoveClient(c) \/ DropDeadClient(c)
  \/ \E g \in Starters : \/ BeginAttempt(g) \/ AttemptSucceeds(g)
                         \/ AttemptFails(g) \/ GiveUp(g)
  \/ BridgeError \/ Shutdown \/ RemoveStream \/ OtherProcess

Spec == Init /\ [][Next]_vars

-----------------------------------------------------------------------------
\* Every variable has its type; an entry has the shape of its session's
\* transport, and no port is held by two processes.
TypeOK ==
  /\ conn \in [Clients -> {"new", "in", "closing", "gone"}]
  /\ mode \in [Clients -> {None, "UDP", "TCP"}]
  /\ ports \in [Clients -> [{"video", "audio"} -> ClientPorts \cup {0}]]
  /\ chans \in [Clients -> [Tracks -> AllChannels]]
  /\ \A c \in Clients : setups[c] \in 0 .. MaxSetups[c]
  /\ redone \in [Clients -> SUBSET Tracks]
  /\ cur \in Bridges /\ connected \subseteq Bridges
  /\ ended \subseteq Bridges \ connected
  /\ \A b \in Bridges, c \in Clients :
       \/ fwd[b][c] = None
       \/ fwd[b][c] \in Entry /\ (conn[c] # "gone" => fwd[b][c].mode = mode[c])
  /\ open \subseteq ServerPorts /\ others \subseteq ServerPorts \ open
  /\ pc \in [Starters -> {"off", "launched", "try1", "try2", "pausing", "givingUp"}]
  /\ {active, connecting, started, timer} \subseteq BOOLEAN
  /\ leaving \in {"no", "due", "done"}

\* What the stream's bridge does for a session is what its SETUPs were answered,
\* also when a retry replaced the bridge between two of them: every track goes to
\* the port or channel it named, those too that were set up on an earlier bridge;
\* and who made a SETUP on this bridge is on it, with the listeners it was told of,
\* until it is stopped.  A UDP track set up again is left out, for its socket is
\* not dialed again.  See EveryoneIsServed for who made no SETUP on this bridge.
SentAsAsked ==
  \A c \in Clients, t \in Tracks :
    LET a == asked[c][t]
        e == fwd[cur][c]
    IN conn[c] = "in" /\ a # None =>
         /\ a.bridge = cur /\ cur \notin ended =>
              e # None /\ (mode[c] = "UDP" /\ t = "back" => e.pair = a.dest)
         /\ e # None /\ (mode[c] = "TCP" \/ t \in {"video", "audio"} \ redone[c]) =>
              Destination(e, t) = a.dest

\* Every port the program listens on belongs to one entry, and a session that
\* has gone has no entry in the bridge the stream holds (RemoveClient, Stop and
\* DropDeadClient all take entries out, and only some close sockets).
NothingLeftBehind ==
  /\ open = UNION {Listeners(fwd[b][c]) : b \in Bridges, c \in Clients}
  /\ \A b1, b2 \in Bridges, c1, c2 \in Clients :
       <<b1, c1>> # <<b2, c2>> =>
         Listeners(fwd[b1][c1]) \cap Listeners(fwd[b2][c2]) = {}
  /\ \A c \in Clients : conn[c] = "gone" => fwd[cur][c] = None

\* To its stream's bridges the model does what the server does: the stream keeps
\* the promise of CameraSession, which RTSPServer keeps for all its streams.
Life(b) == IF b > cur THEN "unused"
           ELSE IF b \in connected THEN "up"
           ELSE IF b = cur /\ (started => Locked) THEN "ready" ELSE "spent"

TheStream == 1
Held  == [i \in {TheStream} |-> cur]
Lives == [b \in Bridges |-> Life(b)]
Shown == {i \in {TheStream} : active}
Camera == INSTANCE CameraSession
            WITH Stream <- {TheStream}, Bridge <- Bridges, bridge <- Held, life <- Lives, shown <- Shown
ImplementsCamera == Camera!Spec

\* Who is connected to a stream that is up, and has set up a track, is on its bridge.
\* The code does not keep this: a session whose last SETUP came before a retry
\* (server.go:594) is in the forwarder of the bridge that was replaced.
EveryoneIsServed ==
  \A c \in Clients : conn[c] = "in" /\ cur \in connected /\ (\E t \in Tracks : asked[c][t] # None)
                     => fwd[cur][c] # None

\* A session that has gone is in no forwarder ("Remove from RTP forwarder",
\* server.go:540).  The code does not keep this: a session that set up before a
\* retry is in the forwarder of the bridge that was replaced.
RemovedFromForwarder ==
  \A c \in Clients : conn[c] = "gone" => \A b \in Bridges : fwd[b][c] = None
=============================================================================
