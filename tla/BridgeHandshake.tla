-------------------------- MODULE BridgeHandshake --------------------------
(***************************************************************************)
(* From the answered offer to the first media: what WebRTCBridge.Start     *)
(* waits for, and how a session that breaks is taken down                  *)
(* (pkg/rtsp/bridge.go: setupPeerConnection, probe, handleError, Stop).    *)
(*                                                                         *)
(* A camera that encodes HEVC sends its media over a data channel, once    *)
(* codec, start and complete have been exchanged over it; every other one  *)
(* sends tracks.  The WebRTC library runs each callback in a goroutine of  *)
(* its own, so that they may run in any order; messages of the channel are *)
(* read one after the other, and one that is lost is not repeated (the     *)
(* channel gives up after five transmissions).                             *)
(***************************************************************************)
EXTENDS Naturals, Sequences

CONSTANTS
  Kinds,       \* the <<resolution, HEVC or not>> a stream may have
  MaxLost,     \* messages of the channel that get lost (a bound)
  MaxQueue     \* media packets on their way (a bound)

ASSUME HandshakeAssumption ==
  Kinds \subseteq {"hd", "sd"} \X BOOLEAN /\ {MaxLost, MaxQueue} \subseteq Nat

VARIABLES
  resolution, isHEVC,
  peer,          \* the state of the peer connection
  channel,       \* the state of the data channel
  calls,         \* callbacks whose goroutine has yet to run
  toCamera, toBridge,   \* what the channel carries
  streaming,     \* the camera was asked to send its media
  lost,
  waiter,        \* "open", or what Wait returns
  start,         \* Start, which has the stream's mutex: "waiting", "up", "failed";
                 \* "stopped" after Stop
  ssrc,          \* the forwarder knows the numbers of the media
  handled,       \* OnError is set
  failing        \* OnError was called and waits for the stream's mutex

stream    == <<resolution, isHEVC>>
peerLink  == <<peer, channel, toCamera, toBridge, streaming, lost>>
startVars == <<waiter, start, ssrc, handled, failing>>
handshakeVars == <<stream, peerLink, calls, startVars>>

HandshakeInit ==
  /\ \E k \in Kinds : resolution = k[1] /\ isHEVC = k[2]
  /\ peer = "connecting" /\ channel = (IF isHEVC THEN "opening" ELSE "none")
  /\ calls = {} /\ toCamera = <<>> /\ toBridge = <<>> /\ streaming = FALSE /\ lost = 0
  /\ waiter = "open" /\ start = "waiting" /\ ssrc = FALSE /\ handled = TRUE /\ failing = FALSE

-----------------------------------------------------------------------------
\* The peer connection and the camera (outside of the code).

PeerMoves(from, to) ==
  /\ peer \in from /\ peer' = to /\ calls' = calls \cup ({to} \ {"disconnected"})
  /\ UNCHANGED <<stream, channel, toCamera, toBridge, streaming, lost, startVars>>

Connects    == PeerMoves({"connecting", "disconnected"}, "connected")
Disconnects == PeerMoves({"connected"}, "disconnected")
Fails       == PeerMoves({"connecting", "disconnected"}, "failed")

ChannelOpens ==
  /\ peer = "connected" /\ channel = "opening"
  /\ channel' = "open" /\ calls' = calls \cup {"open"}
  /\ UNCHANGED <<stream, peer, toCamera, toBridge, streaming, lost, startVars>>

ChannelCloses ==
  /\ channel \in {"opening", "open"}
  /\ channel' = "ended" /\ calls' = calls \cup {"ended"}
  /\ toCamera' = <<>>
  /\ UNCHANGED <<stream, peer, toBridge, streaming, lost, startVars>>

Loses ==
  /\ lost < MaxLost /\ lost' = lost + 1
  /\ \/ toCamera # <<>> /\ toCamera' = Tail(toCamera) /\ UNCHANGED toBridge
     \/ toBridge # <<>> /\ toBridge' = Tail(toBridge) /\ UNCHANGED toCamera
  /\ UNCHANGED <<stream, peer, channel, streaming, calls, startVars>>

Reply(m) == IF m = "codec" THEN "codec" ELSE "recv"

\* The camera replies, or says what cannot be read; or it streams.
CameraReplies ==
  /\ channel = "open" /\ toCamera # <<>> /\ toCamera' = Tail(toCamera)
  /\ LET m == Head(toCamera) IN
       \/ m = "complete" /\ streaming' = TRUE /\ UNCHANGED toBridge
       \/ /\ m # "complete" /\ UNCHANGED streaming
          /\ \E reply \in {Reply(m), "unreadable"} : toBridge' = Append(toBridge, reply)
  /\ UNCHANGED <<stream, peer, channel, calls, lost, startVars>>

CameraHangsUp ==
  /\ "hangup" \notin calls /\ calls' = calls \cup {"hangup"}
  /\ UNCHANGED <<stream, peerLink, startVars>>

CameraStreams ==
  /\ channel = "open" /\ streaming /\ Len(toBridge) < MaxQueue
  /\ toBridge' = Append(toBridge, "media")
  /\ UNCHANGED <<stream, peer, channel, toCamera, streaming, lost, calls, startVars>>

-----------------------------------------------------------------------------
\* The callbacks.

Done(how) == waiter' = IF waiter = "open" THEN how ELSE waiter

\* mutant: the stream is not told of an error
OnlyDone == IF handled THEN Done("err") /\ UNCHANGED failing ELSE UNCHANGED <<waiter, failing>>

\* handleError.  The OnError it calls waits for the stream's mutex.
HandleError ==
  IF handled THEN Done("err") /\ failing' = TRUE ELSE UNCHANGED <<waiter, failing>>

\* sendMessageToDataChannel, and the handling of its error.
Send(m, settled) ==
  IF channel = "open"
    THEN /\ toCamera' = Append(toCamera, m) /\ UNCHANGED failing
         /\ IF settled THEN Done("ok") ELSE UNCHANGED waiter
    ELSE UNCHANGED toCamera /\ HandleError

\* mutant: the wrong streams wait for the channel
SettledOverChannel == isHEVC /\ resolution = "hd"
\* An HD stream without a data channel is settled by the connection.
SettledByConnection == ~isHEVC /\ resolution = "hd"

OnConnected ==
  /\ "connected" \in calls /\ calls' = calls \ {"connected"}
  /\ IF SettledByConnection THEN Done("ok") ELSE UNCHANGED waiter
  /\ UNCHANGED <<stream, peerLink, start, ssrc, handled, failing>>

\* The connection failed or was closed, the channel ended, or the camera sent a
\* disconnect (after which HandleDisconnect clears a flag that Stop cleared).
OnBroken ==
  /\ \E c \in calls \cap {"failed", "closed", "ended", "hangup"} : calls' = calls \ {c}
  /\ HandleError
  /\ UNCHANGED <<stream, peerLink, start, ssrc, handled>>

OnOpen ==
  /\ "open" \in calls /\ calls' = calls \ {"open"}
  /\ Send("codec", FALSE)
  /\ UNCHANGED <<stream, peer, channel, toBridge, streaming, lost, start, ssrc, handled>>

\* mutant: the wait is over with the camera's first answer
EagerSettles(m) == m \in {"codec", "recv"}
Settles(m) == m = "recv"

Request(m) == IF m = "codec" THEN "start" ELSE "complete"

\* OnMessage and probe: the next request, or an error if it cannot be sent or
\* the message cannot be read.  Media goes to the forwarder.
OnMessage ==
  /\ toBridge # <<>> /\ toBridge' = Tail(toBridge)
  /\ LET m == Head(toBridge) IN
       /\ \/ m = "media" /\ UNCHANGED <<toCamera, waiter, failing>>
          \/ m = "unreadable" /\ HandleError /\ UNCHANGED toCamera
          \/ m \in {"codec", "recv"} /\ Send(Request(m), Settles(m))
       /\ ssrc' = (ssrc \/ m = "recv")
  /\ UNCHANGED <<stream, peer, channel, streaming, lost, calls, start, handled>>

-----------------------------------------------------------------------------
\* Start, and the stream it belongs to.

\* The waiter may lose an error (see Waiter).
StartReturns ==
  /\ start = "waiting" /\ waiter # "open"
  /\ start' \in IF waiter = "ok" THEN {"up"} ELSE {"up", "failed"}
  /\ UNCHANGED <<stream, peerLink, calls, waiter, ssrc, handled, failing>>

\* Stop, after the stream took OnError away.
Stop ==
  /\ start' = "stopped" /\ handled' = FALSE
  /\ peer' = "closed" /\ channel' = (IF isHEVC THEN "ended" ELSE channel)
  /\ calls' = calls \cup {"closed"} \cup (IF channel = "open" THEN {"ended"} ELSE {})
  /\ toCamera' = <<>> /\ toBridge' = <<>>

\* handleBridgeError has the mutex.  Stop does nothing to a bridge that is not up.
Reacts ==
  /\ failing /\ start # "waiting" /\ failing' = FALSE
  /\ IF start = "up" THEN Stop
                  ELSE handled' = FALSE /\ UNCHANGED <<start, peer, channel, calls, toCamera, toBridge>>
  /\ UNCHANGED <<stream, streaming, lost, waiter, ssrc>>

\* The last viewer is gone, or the server stops.
StreamStops ==
  /\ start = "up" /\ Stop
  /\ UNCHANGED <<stream, streaming, lost, waiter, ssrc, failing>>

HandshakeNext ==
  \/ Connects \/ Disconnects \/ Fails \/ ChannelOpens \/ ChannelCloses \/ Loses
  \/ CameraReplies \/ CameraStreams \/ CameraHangsUp
  \/ OnConnected \/ OnBroken \/ OnOpen \/ OnMessage
  \/ StartReturns \/ Reacts \/ StreamStops

HandshakeSpec == HandshakeInit /\ [][HandshakeNext]_handshakeVars

\* Goroutines run, the camera replies, a connection that went away comes back or
\* is given up by the library, and a channel whose connection keeps coming back
\* is opened at last.
HandshakeFairness ==
  /\ WF_handshakeVars(OnConnected) /\ WF_handshakeVars(OnBroken)
  /\ WF_handshakeVars(OnOpen) /\ WF_handshakeVars(OnMessage)
  /\ WF_handshakeVars(StartReturns) /\ WF_handshakeVars(Reacts)
  /\ SF_handshakeVars(ChannelOpens) /\ WF_handshakeVars(CameraReplies)
  /\ WF_handshakeVars(peer = "disconnected" /\ (Connects \/ Fails))

HandshakeFairSpec == HandshakeSpec /\ HandshakeFairness

-----------------------------------------------------------------------------
\* Every variable has its type; an error the stream is told of has ended the
\* wait, and at most one request is on its way.
HandshakeTypeOK ==
  /\ <<resolution, isHEVC>> \in Kinds
  /\ peer \in {"connecting", "connected", "disconnected", "failed", "closed"}
  /\ channel \in {"none", "opening", "open", "ended"} /\ (channel = "none" <=> ~isHEVC)
  /\ calls \subseteq {"connected", "failed", "closed", "open", "ended", "hangup"}
  /\ Len(toCamera) <= 1 /\ \A k \in 1 .. Len(toCamera) : toCamera[k] \in {"codec", "start", "complete"}
  /\ \A k \in 1 .. Len(toBridge) : toBridge[k] \in {"codec", "recv", "media", "unreadable"}
  /\ lost \in 0 .. MaxLost
  /\ waiter \in {"open", "ok", "err"} /\ start \in {"waiting", "up", "failed", "stopped"}
  /\ {streaming, ssrc, handled, failing} \subseteq BOOLEAN /\ (failing => waiter # "open")

\* Start succeeds only for a session that can carry media: the connection has
\* been made, and an HEVC camera has told the numbers of its media, without which
\* the forwarder drops every packet; none comes before that.
ShownIsReady ==
  /\ start = "up" /\ waiter = "ok" => peer # "connecting" /\ (isHEVC => ssrc)
  /\ (\E k \in 1 .. Len(toBridge) : toBridge[k] = "media") => ssrc

\* Once the connection is made Start returns, whichever way, unless a message of
\* the exchange got lost, which nobody repeats.
StartSettles == peer = "connected" ~> start # "waiting" \/ lost > 0

\* A session that breaks while it is shown, or between the end of the wait and
\* the return of Start, ends its stream.
FailureEndsStream == start = "up" /\ (peer = "failed" \/ channel = "ended") ~> start = "stopped"
=============================================================================
