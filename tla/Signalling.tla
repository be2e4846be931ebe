----------------------------- MODULE Signalling -----------------------------
(***************************************************************************)
(* How streams reach their cameras over the cloud's MQTT broker: the       *)
(* manager's clients (pkg/rtsp/mqtt_manager.go), a client's life and its   *)
(* routing (pkg/tuya/mqtt.go), and a bridge's offer, answer and candidates *)
(* (pkg/rtsp/bridge.go, pkg/tuya/mqttCamera.go).  The streams are HD, so   *)
(* that the connection ends their start (see BridgeHandshake).             *)
(*                                                                         *)
(* Every client connects with the same client id, and a broker keeps one   *)
(* connection per client id: a new one cuts the old one off.  A client is  *)
(* the number of its connection, for it never reconnects.                  *)
(***************************************************************************)
EXTENDS Naturals, Sequences

CONSTANTS
  Streams,        \* stream instances that talk to a camera
  Cameras,        \* devices; the manager keeps a client for each
  None,
  MaxTries,       \* connection attempts of one GetClient
  MaxClients,     \* clients made (a bound)
  MaxSessions,    \* MaxSessions[i]: sessions of a stream (a bound)
  MaxLosses,      \* times the network cuts a connection (a bound)
  MaxCandidates   \* ICE candidates a camera finds for a session (a bound)

ASSUME SignallingAssumption ==
  /\ MaxTries \in Nat \ {0} /\ {MaxClients, MaxLosses, MaxCandidates} \subseteq Nat
  /\ MaxSessions \in [Streams -> Nat]
  /\ None \notin Streams \cup Nat

VARIABLES
  device,      \* device[i]: the camera of a stream (never changes)
  \* the manager
  holder,      \* the stream that is in GetClient with the mutex, or None
  tries,       \* connection attempts that failed in this GetClient
  table,       \* table[d]: the client the manager keeps for a camera
  \* the clients
  made,        \* clients made so far
  outcome,     \* outcome[n]: what Connected was finished with first
  closed,      \* clients that were stopped or saw their connection go
  private,     \* clients a bridge made for itself
  \* the broker
  live,        \* the client it keeps a connection with
  heard,       \* whether that client has subscribed to the account's topic
  routes,      \* the sessions that client knows
  inbox,       \* messages on their way to it
  losses,
  \* the streams, their bridges and what the cameras sent them
  pc, attempt, \* where a stream's start is, and which attempt it makes
  session,     \* session[i]: sessions it has opened
  bridge,      \* bridge[i]: the client of its bridge and what came from the camera
  said         \* said[i]: what the camera published for the session

manager == <<holder, tries, table>>
clients == <<made, outcome, closed, private>>
link    == <<live, heard, routes, inbox>>
bridges == <<pc, attempt, session, bridge, said>>
vars == <<device, manager, clients, link, losses, bridges>>

Clients  == 1 .. MaxClients

NewBridge == [client |-> None, answered |-> FALSE, pending |-> <<>>, added |-> <<>>]
Silent    == [answer |-> FALSE, candidates |-> 0]

\* MQTTClient.IsConnected; it may not have noticed that the broker cut it off.
IsConnected(n) == n # None /\ n \in 1 .. made /\ n \notin closed

Init ==
  /\ device \in [Streams -> Cameras]
  /\ holder = None /\ tries = 0 /\ table = [d \in Cameras |-> None]
  /\ made = 0 /\ outcome = [n \in Clients |-> "open"]
  /\ closed = {} /\ private = {}
  /\ live = None /\ heard = FALSE /\ routes = {} /\ inbox = <<>> /\ losses = 0
  /\ pc = [i \in Streams |-> "off"]
  /\ attempt = [i \in Streams |-> 0]
  /\ session = [i \in Streams |-> 0]
  /\ bridge = [i \in Streams |-> NewBridge]
  /\ said = [i \in Streams |-> Silent]

-----------------------------------------------------------------------------
\* Moves of a stream.

Goes(i, to) == pc' = [pc EXCEPT ![i] = to]

\* Its bridge and what was said to it are left behind.
Leaves(i, to, k) ==
  /\ Goes(i, to) /\ attempt' = [attempt EXCEPT ![i] = k]
  /\ bridge' = [bridge EXCEPT ![i] = NewBridge] /\ said' = [said EXCEPT ![i] = Silent]

\* A failed attempt is repeated once with a new bridge, then the stream stops.
\* The bridge is not connected, so its Stop does nothing.
AttemptOver(i) == IF attempt[i] = 1 THEN Leaves(i, "asking", 2) ELSE Leaves(i, "off", 0)

Begin(i) ==
  /\ pc[i] = "off" /\ session[i] < MaxSessions[i]
  /\ Goes(i, "asking") /\ attempt' = [attempt EXCEPT ![i] = 1]
  /\ UNCHANGED <<device, manager, clients, link, losses, session, bridge, said>>

-----------------------------------------------------------------------------
\* MQTTManager.GetClient.

Given(i, n) == bridge' = [bridge EXCEPT ![i].client = n]

Reuse(i) ==
  /\ pc[i] = "asking" /\ holder = None
  /\ IsConnected(table[device[i]])
  /\ Given(i, table[device[i]])
  /\ Goes(i, "ready")
  /\ UNCHANGED <<device, manager, clients, link, losses, attempt, session, said>>

Connect(i) ==
  /\ pc[i] = "asking" /\ holder = None
  /\ ~IsConnected(table[device[i]])
  /\ holder' = i /\ tries' = 0
  /\ Goes(i, "dialing")
  /\ UNCHANGED <<device, table, clients, link, losses, attempt, session, bridge, said>>

\* Without a client a new stream is refused.  A retry, and the restart of a
\* stream that had a bridge, go on: the bridge makes a client of its own.
GetFails(i) ==
  /\ holder' = None /\ tries' = 0
  /\ \/ attempt[i] = 1 /\ Leaves(i, "off", 0)
     \/ (attempt[i] = 2 \/ session[i] > 0) /\ Leaves(i, "alone", attempt[i])

Counted(k) == k + 1
MayTryAgain(k) == k < MaxTries

\* One attempt of MQTTManager.connect failed.
TryFails(i) ==
  IF MayTryAgain(Counted(tries))
    THEN tries' = Counted(tries) /\ Leaves(i, "dialing", attempt[i]) /\ UNCHANGED holder
    ELSE GetFails(i)

\* The account's user information cannot be read.
UserInfoFails(i) ==
  /\ pc[i] = "dialing" /\ tries = 0
  /\ GetFails(i)
  /\ UNCHANGED <<device, table, clients, link, losses, session>>

\* The broker's connection is that of client n, or none.  Nothing reaches the
\* client before it any more: its routes are not followed.
LiveIs(n) == live' = n /\ heard' = FALSE /\ routes' = {} /\ inbox' = <<>>

\* CONNECT is accepted, and the broker cuts off the connection it has.
Dial(i) ==
  /\ pc[i] \in {"dialing", "alone"} /\ made < MaxClients
  /\ made' = made + 1 /\ LiveIs(made + 1)
  /\ private' = IF pc[i] = "alone" THEN private \cup {made + 1} ELSE private
  /\ Given(i, made + 1)
  /\ Goes(i, "joining")
  /\ UNCHANGED <<device, manager, outcome, closed, losses, attempt, session, said>>

DialFails(i) ==
  /\ \/ pc[i] = "dialing" /\ TryFails(i)
     \/ pc[i] = "alone" /\ AttemptOver(i) /\ UNCHANGED <<holder, tries>>
  /\ UNCHANGED <<device, table, clients, link, losses, session>>

\* Connected.Wait returned no error.  The waiter may lose an error (see Waiter).
Joined(i) ==
  /\ pc[i] = "joining" /\ outcome[bridge[i].client] # "open"
  /\ IF bridge[i].client \in private
       THEN UNCHANGED manager
       ELSE /\ table' = [table EXCEPT ![device[i]] = bridge[i].client]
            /\ holder' = None /\ tries' = 0
  /\ Goes(i, "ready")
  /\ UNCHANGED <<device, clients, link, losses, attempt, session, bridge, said>>

\* mutant: a client whose subscription failed is left alone
LeaveClient(n) == UNCHANGED <<closed, link>>

\* MQTTClient.Stop
StopClient(n) ==
  /\ closed' = closed \cup {n}
  /\ IF live = n THEN LiveIs(None) ELSE UNCHANGED link

\* A client that failed is stopped, but not one a bridge made for itself.
GivesUpOn(n) == StopClient(n)

JoinFails(i) ==
  /\ pc[i] = "joining" /\ outcome[bridge[i].client] = "err"
  /\ IF bridge[i].client \in private
       THEN AttemptOver(i) /\ UNCHANGED <<holder, tries, closed, link>>
       ELSE TryFails(i) /\ GivesUpOn(bridge[i].client)
  /\ UNCHANGED <<device, table, made, outcome, private, losses, session>>

\* MQTTManager.Stop, when the server stops.
ManagerStops ==
  /\ holder = None
  /\ LET all == {table[d] : d \in Cameras} \ {None} IN
       /\ all # {}
       /\ closed' = closed \cup all
       /\ IF live \in all THEN LiveIs(None) ELSE UNCHANGED link
  /\ table' = [d \in Cameras |-> None]
  /\ UNCHANGED <<device, holder, tries, made, outcome, private, losses, bridges>>

-----------------------------------------------------------------------------
\* A client's callbacks, and the network.

Finished(n, how) == [outcome EXCEPT ![n] = IF @ = "open" THEN how ELSE @]

\* onConnect: the subscription is acknowledged, or its token ends with an error.
Subscribes(n) ==
  /\ n <= made /\ outcome[n] = "open"
  /\ \/ live = n /\ heard' = TRUE /\ outcome' = Finished(n, "ok")
     \/ UNCHANGED heard /\ outcome' = Finished(n, "err")
  /\ UNCHANGED <<device, manager, made, closed, private, live, routes, inbox, losses, bridges>>

NetworkCuts ==
  /\ live # None /\ losses < MaxLosses
  /\ losses' = losses + 1 /\ LiveIs(None)
  /\ UNCHANGED <<device, manager, clients, bridges>>

\* onDisconnect: nobody but the client learns of it.
OnDisconnect(n) ==
  /\ IsConnected(n) /\ live # n
  /\ closed' = closed \cup {n} /\ outcome' = Finished(n, "err")
  /\ UNCHANGED <<device, manager, made, private, link, losses, bridges>>

-----------------------------------------------------------------------------
\* A bridge's session.

Registers(i) ==
  routes' = IF live = bridge[i].client THEN routes \cup {<<i, session'[i]>>} ELSE routes

\* The session is routed before its offer is published (setupMQTTCameraClient,
\* createAndSendOffer); it stays routed when the publication fails.
SendOffer(i) ==
  /\ pc[i] = "ready" /\ session[i] < MaxSessions[i]
  /\ session' = [session EXCEPT ![i] = @ + 1]
  /\ Registers(i)
  /\ IF IsConnected(bridge[i].client) /\ live = bridge[i].client
       THEN Goes(i, "waiting") /\ UNCHANGED <<attempt, bridge, said>>
       ELSE AttemptOver(i)
  /\ UNCHANGED <<device, manager, clients, live, heard, inbox, losses>>

\* The camera's configuration cannot be read, or an error comes while it waits
\* (the bridge's waiter may lose that error), or the stream is stopped before
\* it is tried again.
StartFails(i) ==
  /\ \/ pc[i] \in {"ready", "waiting"} /\ AttemptOver(i)
     \/ pc[i] = "asking" /\ attempt[i] = 2 /\ Leaves(i, "off", 0)
     \/ pc[i] = "waiting" /\ Goes(i, "shown") /\ UNCHANGED <<attempt, bridge, said>>
  /\ UNCHANGED <<device, manager, clients, link, losses, session>>

Established(i) ==
  /\ pc[i] = "waiting" /\ bridge[i].answered /\ bridge[i].added # <<>>
  /\ Goes(i, "shown")
  /\ UNCHANGED <<device, manager, clients, link, losses, attempt, session, bridge, said>>

\* mutant: a bridge stops its client, whoever made it
StopsAny(i) == StopClient(bridge[i].client)

\* RemoveCameraClient, and the client's Stop when the bridge made it.
Deregisters(i) ==
  IF bridge[i].client \in private
    THEN StopClient(bridge[i].client)
    ELSE routes' = routes \ {<<i, session[i]>>} /\ UNCHANGED <<closed, live, heard, inbox>>

\* A shown stream is stopped: for want of viewers, by an error, by the server.
\* A disconnect of the camera may get there first, and Stop does nothing.
StopBridge(i) ==
  /\ pc[i] = "shown"
  /\ Leaves(i, "off", 0)
  /\ Deregisters(i) \/ UNCHANGED <<closed, link>>
  /\ UNCHANGED <<device, manager, made, outcome, private, losses, session>>

-----------------------------------------------------------------------------
\* The camera (outside of the code) publishes to the account's topic.

Publish(i, what) ==
  inbox' = IF live # None /\ heard
             THEN Append(inbox, [session |-> <<i, session[i]>>, body |-> what]) ELSE inbox

CameraAnswers(i) ==
  /\ pc[i] = "waiting" /\ ~said[i].answer
  /\ said' = [said EXCEPT ![i].answer = TRUE]
  /\ Publish(i, 0)
  /\ UNCHANGED <<device, manager, clients, live, heard, routes, losses,
                 pc, attempt, session, bridge>>

CameraFindsCandidate(i) ==
  /\ pc[i] = "waiting" /\ said[i].candidates < MaxCandidates
  /\ said' = [said EXCEPT ![i].candidates = @ + 1]
  /\ Publish(i, said'[i].candidates)
  /\ UNCHANGED <<device, manager, clients, live, heard, routes, losses,
                 pc, attempt, session, bridge>>

\* mutant: what came before the answer is forgotten
AnswerForgets(b) == [b EXCEPT !.answered = TRUE, !.pending = <<>>]

HandleAnswer(b) ==
  [b EXCEPT !.answered = TRUE, !.added = @ \o b.pending, !.pending = <<>>]

HandleCandidate(b, k) ==
  IF b.answered THEN [b EXCEPT !.added = Append(@, k)]
                ELSE [b EXCEPT !.pending = Append(@, k)]

\* MQTTClient.consume: one message at a time; what no session here waits for
\* is dropped.  A bridge that was replaced is not followed any more.
Consume ==
  /\ inbox # <<>> /\ inbox' = Tail(inbox)
  /\ LET m == Head(inbox)
         i == m.session[1] IN
       bridge' = IF m.session \in routes /\ m.session[2] = session[i]
                      /\ pc[i] \in {"waiting", "shown"}
                   THEN [bridge EXCEPT ![i] = IF m.body = 0 THEN HandleAnswer(@)
                                                            ELSE HandleCandidate(@, m.body)]
                   ELSE bridge
  /\ UNCHANGED <<device, manager, clients, live, heard, routes, losses,
                 pc, attempt, session, said>>

-----------------------------------------------------------------------------
Next ==
  \/ \E i \in Streams :
       \/ Begin(i) \/ Reuse(i) \/ Connect(i) \/ UserInfoFails(i)
       \/ Dial(i) \/ DialFails(i) \/ Joined(i) \/ JoinFails(i)
       \/ SendOffer(i) \/ StartFails(i) \/ Established(i) \/ StopBridge(i)
       \/ CameraAnswers(i) \/ CameraFindsCandidate(i)
  \/ \E n \in Clients : Subscribes(n) \/ OnDisconnect(n)
  \/ ManagerStops \/ NetworkCuts \/ Consume

Spec == Init /\ [][Next]_vars

\* The goroutines run, a dial and a subscription end one way or the other, the
\* client notices a dead connection, a camera answers the offer it got.
Fairness ==
  /\ \A i \in Streams :
       /\ WF_vars(Dial(i) \/ DialFails(i)) /\ WF_vars(Joined(i) \/ JoinFails(i))
       /\ WF_vars(SendOffer(i))
       /\ WF_vars(CameraAnswers(i)) /\ WF_vars(CameraFindsCandidate(i)) /\ WF_vars(Established(i))
  /\ \A n \in Clients : WF_vars(Subscribes(n)) /\ WF_vars(OnDisconnect(n))
  /\ WF_vars(Consume)

FairSpec == Spec /\ Fairness

-----------------------------------------------------------------------------
\* Every variable has its type, GetClient counts no more failures than it makes
\* attempts, and the connection the broker keeps was neither lost nor stopped.
TypeOK ==
  /\ device \in [Streams -> Cameras]
  /\ holder \in Streams \cup {None} /\ tries \in 0 .. MaxTries - 1
  /\ table \in [Cameras -> Clients \cup {None}]
  /\ made \in 0 .. MaxClients /\ outcome \in [Clients -> {"open", "ok", "err"}]
  /\ closed \cup private \subseteq 1 .. made
  /\ \A s \in routes : s[1] \in Streams /\ s[2] \in 1 .. session[s[1]]
  /\ IF live = None THEN ~heard ELSE IsConnected(live)
  /\ losses \in 0 .. MaxLosses
  /\ pc \in [Streams -> {"off", "asking", "dialing", "alone", "joining", "ready",
                         "waiting", "shown"}]
  /\ attempt \in [Streams -> 0 .. 2] /\ \A i \in Streams : session[i] \in 0 .. MaxSessions[i]
  /\ \A i \in Streams : bridge[i].client \in Clients \cup {None} /\ bridge[i].answered \in BOOLEAN

\* No connection is forgotten while it is up: it is the manager's client for a
\* camera, or GetClient is still waiting for it (the zombie connections the
\* manager was made to avoid).  Clients a bridge made for itself are left out:
\* a start that fails does not stop its own.
NoZombie ==
  \A n \in 1 .. made : IsConnected(n) /\ n \notin private =>
    \/ \E d \in Cameras : table[d] = n
    \/ holder # None /\ pc[holder] = "joining" /\ bridge[holder].client = n

\* The client of a stream is stopped by nobody but the manager as a whole, so
\* two streams of one camera never take the connection from each other.
SharedClientSpared ==
  [][\A i \in Streams :
       pc[i] \in {"ready", "waiting", "shown"} /\ bridge[i].client = live /\ live \in closed'
         => (table # table' /\ table' = [d \in Cameras |-> None]) \/ pc'[i] = "off"]_vars

\* An offer is settled, as long as the connection that carried it is the one
\* the broker keeps and is subscribed: no answer is lost on the way and no
\* candidate, before the answer or after it, whatever other sessions share the
\* connection or are left on it by attempts that failed.
OfferSettled ==
  \A i \in Streams :
    pc[i] = "waiting" /\ live = bridge[i].client /\ heard
      ~> pc[i] # "waiting" \/ live # bridge[i].client

\* "MQTT dies during active stream: [...] Active WebRTCBridge gets error, tears
\* down" (the design of the manager).  The code tells no bridge.
LossReachesBridge ==
  \A i \in Streams :
    pc[i] = "shown" /\ bridge[i].added # <<>>
      /\ bridge[i].client = table[device[i]] /\ bridge[i].client \in closed
    ~> pc[i] # "shown"
=============================================================================
