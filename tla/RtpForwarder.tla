---------------------------- MODULE RtpForwarder ----------------------------
(***************************************************************************)
(* The table of receivers a bridge forwards its media to, and the ports    *)
(* the server opens for their return audio                                 *)
(* (avent-webrtc-bridge/pkg/rtsp/forwarder.go and pkg/utils/ports.go).     *)
(*                                                                         *)
(* An entry of the table says how one RTSP session is served:              *)
(*   mode  "UDP" or "TCP" (interleaved in the RTSP connection)             *)
(*   dest  for UDP the client port each dialed socket sends to, None when  *)
(*         no socket was dialed; for TCP the channel of each track         *)
(*   pair  the even port of the return audio's listener pair, or None      *)
(* A port number 0 means that the client has not named one yet.            *)
(***************************************************************************)
EXTENDS Naturals

CONSTANTS
  None,          \* no entry, no socket, no listener
  ClientPorts,   \* UDP ports a client may name in a SETUP
  Channels,      \* interleaved channels a client may name in a SETUP
  ServerPorts    \* UDP ports of the host that the system may hand out

Tracks == {"video", "audio", "back"}

\* The channels a session starts with, and those of a SETUP that names none.
DefaultChannel == [video |-> 0, audio |-> 2, back |-> 4]

AllChannels == Channels \cup {DefaultChannel[t] : t \in Tracks}

UDPEntry == [mode : {"UDP"},
             dest : [{"video", "audio"} -> ClientPorts \cup {None}],
             pair : ServerPorts \cup {None}]
TCPEntry == [mode : {"TCP"}, dest : [Tracks -> AllChannels]]
Entry    == UDPEntry \cup TCPEntry

Dialed(port) == IF port > 0 THEN port ELSE None

KeepsSockets(e, ports) == e    \* mutant: the second track is never dialed

\* A second SETUP only dials a track that has no socket yet: a track that has
\* one keeps it, although the port recorded for the session changes.
Redialed(e, ports) ==
  [e EXCEPT !.dest = [t \in {"video", "audio"} |->
                        IF e.dest[t] = None THEN Dialed(ports[t]) ELSE e.dest[t]]]

AddUDPClient(e, ports) ==
  IF e # None
    THEN Redialed(e, ports)
    ELSE [mode |-> "UDP", pair |-> None,
          dest |-> [t \in {"video", "audio"} |-> Dialed(ports[t])]]

AddTCPClient(e, channels) ==
  IF e # None THEN [e EXCEPT !.dest = channels]
              ELSE [mode |-> "TCP", dest |-> channels]

\* Where a packet of a track is written for an entry (None: nowhere).
Destination(e, t) == e.dest[t]

\* One attempt of the allocator: the system proposes a free port, the pair
\* starts at the even port below it, and both must be free.
Base(port) == port - (port % 2)

IsPair(taken, base) == /\ {base, base + 1} \subseteq ServerPorts
                       /\ {base, base + 1} \cap taken = {}

Proposed(taken) == {Base(p) : p \in ServerPorts \ taken}

\* The pairs the allocator may return, and whether all of its attempts may fail.
ConsecutivePorts(taken) == {b \in Proposed(taken) : IsPair(taken, b)}
AttemptsMayFail(taken) ==
  Proposed(taken) = {} \/ \E b \in Proposed(taken) : ~IsPair(taken, b)

\* The ports an entry keeps open: its RTP listener and its RTCP listener.
Listeners(e) ==
  IF e # None /\ e.mode = "UDP" /\ e.pair # None THEN {e.pair, e.pair + 1} ELSE {}
=============================================================================
