---------------------------- MODULE BridgeProofs ----------------------------
(***************************************************************************)
(* What holds of a camera's session on its three levels: the signalling    *)
(* over clients that streams share (Signalling), one Start of one bridge   *)
(* (BridgeHandshake), and the waiter that Start and the manager block on   *)
(* (Waiter).                                                               *)
(***************************************************************************)
EXTENDS Signalling, BridgeHandshake, Waiter, SequenceTheorems, TLAPS

-----------------------------------------------------------------------------
(* Signalling.                                                             *)

Owning == {"joining", "ready", "waiting", "shown"}
Bridges == [client : Clients \cup {None}, answered : BOOLEAN, pending : Seq(Nat), added : Seq(Nat)]
Messages == [session : Streams \X Nat, body : Nat]

ManagerTypes ==
  /\ device \in [Streams -> Cameras]
  /\ holder \in Streams \cup {None} /\ tries \in 0 .. MaxTries - 1
  /\ table \in [Cameras -> Clients \cup {None}]
  /\ made \in 0 .. MaxClients /\ outcome \in [Clients -> {"open", "ok", "err"}]
  /\ closed \subseteq 1 .. made /\ private \subseteq 1 .. made
  /\ losses \in 0 .. MaxLosses

Places == {"off", "asking", "dialing", "alone", "joining", "ready", "waiting", "shown"}

SessionTyped == session \in [Streams -> Nat] /\ \A i \in Streams : session[i] <= MaxSessions[i]

StreamTypes ==
  /\ pc \in [Streams -> Places]
  /\ attempt \in [Streams -> 0 .. 2]
  /\ SessionTyped
  /\ bridge \in [Streams -> Bridges]
  /\ said \in [Streams -> [answer : BOOLEAN, candidates : Nat]]

LinkTypes ==
  /\ inbox \in Seq(Messages) /\ heard \in BOOLEAN
  /\ routes \subseteq Streams \X Nat
  /\ \A i \in Streams : \A k \in Nat : <<i, k>> \in routes => k \in 1 .. session[i]
  /\ IF live = None THEN ~heard ELSE live \in 1 .. made /\ live \notin closed

\* The manager's mutex belongs to the stream that is dialing for the manager.
Mutex == \A i \in Streams :
  holder = i <=> pc[i] = "dialing" \/ (pc[i] = "joining" /\ bridge[i].client \notin private)

\* The client that GetClient is going to overwrite in the table is not up.
ReplacesDead == holder # None => ~IsConnected(table[device[holder]])

\* The table holds no client that a bridge made for itself.
Table == \A d \in Cameras : table[d] # None => table[d] \in 1 .. made /\ table[d] \notin private

\* A stream has a client exactly from its dial to its end.
Owned == \A i \in Streams :
  IF pc[i] \in Owning THEN bridge[i].client \in 1 .. made ELSE bridge[i].client = None

\* A client that is still joining, or private, is used by one stream only.
Exclusive ==
  \A i \in Streams :
    pc[i] \in Owning /\ (pc[i] = "joining" \/ bridge[i].client \in private) =>
      /\ \A j \in Streams \ {i} : bridge[j].client # bridge[i].client
      /\ \A d \in Cameras : table[d] # bridge[i].client

Types == ManagerTypes /\ StreamTypes /\ LinkTypes
Ownership == Mutex /\ ReplacesDead /\ Table /\ Owned /\ Exclusive /\ NoZombie
IInv == Types /\ Ownership

LEMMA Numbers ==
  /\ MaxTries \in Nat /\ MaxTries >= 1 /\ MaxClients \in Nat /\ MaxLosses \in Nat
  /\ MaxCandidates \in Nat /\ None \notin Nat /\ None \notin Streams
  /\ \A i \in Streams : MaxSessions[i] \in Nat
BY SignallingAssumption

LEMMA InitInv == Init => IInv
<1> SUFFICES ASSUME Init PROVE IInv
  OBVIOUS
<1> USE Numbers DEF Init, NewBridge, Silent, Clients
<1>1. ManagerTypes
  BY DEF ManagerTypes
<1>2. StreamTypes
  BY DEF StreamTypes, SessionTyped, Bridges, Places
<1>3. LinkTypes
  <2>1. inbox \in Seq(Messages) /\ routes \subseteq Streams \X Nat /\ heard \in BOOLEAN
    BY EmptySeq
  <2>2. QED BY <2>1 DEF LinkTypes
<1>4. Mutex /\ ReplacesDead /\ Table /\ Owned /\ Exclusive
  BY DEF Mutex, ReplacesDead, Table, Owned, Exclusive, Owning
<1>5. NoZombie
  BY DEF NoZombie
<1> QED BY <1>1, <1>2, <1>3, <1>4, <1>5 DEF IInv, Types, Ownership


-----------------------------------------------------------------------------
\* A step of stream i leaves the place and the client of the others alone.
OthersStay(i) == \A j \in Streams \ {i} : pc'[j] = pc[j] /\ bridge'[j].client = bridge[j].client

(* What a stream is after it left its bridge behind.                       *)
LEMMA LeavesTyped ==
  ASSUME StreamTypes, NEW i \in Streams, NEW to \in Places, NEW k \in 0 .. 2, Leaves(i, to, k),
         SessionTyped'
  PROVE  StreamTypes' /\ OthersStay(i) /\ pc'[i] = to /\ bridge'[i].client = None
<1>1. NewBridge \in Bridges /\ NewBridge.client = None
  BY EmptySeq DEF NewBridge, Bridges
<1>2. Silent \in [answer : BOOLEAN, candidates : Nat]
  BY DEF Silent
<1>3. QED BY <1>1, <1>2 DEF StreamTypes, Leaves, Goes, OthersStay, SessionTyped

LEMMA AttemptOverTyped ==
  ASSUME StreamTypes, NEW i \in Streams, AttemptOver(i), SessionTyped'
  PROVE  StreamTypes' /\ OthersStay(i) /\ pc'[i] \in {"asking", "off"} /\ bridge'[i].client = None
BY LeavesTyped DEF AttemptOver, Places

LEMMA GetFailsTyped ==
  ASSUME StreamTypes, NEW i \in Streams, GetFails(i), SessionTyped'
  PROVE  /\ StreamTypes' /\ OthersStay(i) /\ pc'[i] \in {"alone", "off"} /\ bridge'[i].client = None
         /\ holder' = None /\ tries' = 0
<1>1. attempt[i] \in 0 .. 2
  BY DEF StreamTypes
<1>2. QED BY <1>1, LeavesTyped DEF GetFails, Places

LEMMA TryFailsTyped ==
  ASSUME ManagerTypes, StreamTypes, NEW i \in Streams, TryFails(i), SessionTyped'
  PROVE  /\ StreamTypes' /\ OthersStay(i) /\ bridge'[i].client = None /\ tries' \in 0 .. MaxTries - 1
         /\ \/ pc'[i] = "dialing" /\ holder' = holder
            \/ pc'[i] \in {"alone", "off"} /\ holder' = None
<1>1. attempt[i] \in 0 .. 2
  BY DEF StreamTypes
<1>2. CASE MayTryAgain(Counted(tries))
  <2>1. tries' = Counted(tries) /\ Leaves(i, "dialing", attempt[i]) /\ UNCHANGED holder
    BY <1>2 DEF TryFails
  <2>2. tries' \in 0 .. MaxTries - 1
    BY <1>2, <2>1, Numbers DEF ManagerTypes, MayTryAgain, Counted
  <2>3. QED BY <1>1, <2>1, <2>2, LeavesTyped DEF Places
<1>3. CASE ~MayTryAgain(Counted(tries))
  <2>1. GetFails(i)
    BY <1>3 DEF TryFails
  <2>2. QED BY <2>1, GetFailsTyped, Numbers
<1>4. QED BY <1>2, <1>3

(* What the broker's side is after a change of its connection.             *)
LEMMA LiveIsTyped ==
  ASSUME NEW n, LiveIs(n), n # None => n \in 1 .. made' /\ n \notin closed'
  PROVE  LinkTypes'
<1>1. inbox' \in Seq(Messages) /\ routes' \subseteq Streams \X Nat
  BY EmptySeq DEF LiveIs
<1>2. QED BY <1>1 DEF LiveIs, LinkTypes

LEMMA LinkStays ==
  ASSUME ManagerTypes, LinkTypes, UNCHANGED <<link, session>>, made' \in Nat, made <= made',
         live # None => live \notin closed'
  PROVE  LinkTypes'
BY Numbers DEF LinkTypes, link, ManagerTypes

LEMMA StopTyped ==
  ASSUME ManagerTypes, LinkTypes, NEW n \in 1 .. made, StopClient(n), UNCHANGED <<made, session>>
  PROVE  LinkTypes' /\ closed' \subseteq 1 .. made /\ closed \subseteq closed'
<1>1. closed' \subseteq 1 .. made /\ closed \subseteq closed'
  BY DEF StopClient, ManagerTypes
<1>2. CASE live = n
  BY <1>1, <1>2, LiveIsTyped DEF StopClient
<1>3. CASE live # n
  <2>1. live # None => live \notin closed'
    BY <1>3 DEF StopClient, LinkTypes
  <2>2. QED BY <1>3, <2>1, LinkStays DEF StopClient, ManagerTypes
<1>4. QED BY <1>1, <1>2, <1>3

(* Every step keeps the types.                                             *)
LEMMA TypesStep == ASSUME IInv, [Next]_vars PROVE Types'
<1> USE Numbers DEF IInv, Types, Clients
<1>1. ASSUME NEW i \in Streams, Begin(i) PROVE Types'
  <2> USE <1>1 DEF Begin, manager, clients
  <2>1. ManagerTypes'
    BY DEF ManagerTypes
  <2>2. StreamTypes'
    BY DEF StreamTypes, Goes, Places, SessionTyped
  <2>3. LinkTypes'
    BY LinkStays DEF ManagerTypes, LinkTypes
  <2>4. QED BY <2>1, <2>2, <2>3
<1>2. ASSUME NEW i \in Streams, Reuse(i) PROVE Types'
  <2> USE <1>2 DEF Reuse, manager, clients
  <2>1. ManagerTypes'
    BY DEF ManagerTypes
  <2>2. StreamTypes'
    BY DEF StreamTypes, ManagerTypes, Bridges, Given, Goes, Places, SessionTyped
  <2>3. LinkTypes'
    BY LinkStays DEF ManagerTypes, LinkTypes
  <2>4. QED BY <2>1, <2>2, <2>3
<1>3. ASSUME NEW i \in Streams, Connect(i) PROVE Types'
  <2> USE <1>3 DEF Connect, clients
  <2>1. ManagerTypes'
    BY DEF ManagerTypes
  <2>2. StreamTypes'
    BY DEF StreamTypes, Goes, Places, SessionTyped
  <2>3. LinkTypes'
    BY LinkStays DEF ManagerTypes, LinkTypes
  <2>4. QED BY <2>1, <2>2, <2>3
<1>4. ASSUME NEW i \in Streams, UserInfoFails(i) PROVE Types'
  <2> USE <1>4 DEF UserInfoFails, clients
  <2>0. SessionTyped'
    BY DEF StreamTypes, SessionTyped
  <2>1. StreamTypes' /\ holder' = None /\ tries' = 0
    BY <2>0, GetFailsTyped
  <2>2. ManagerTypes'
    BY <2>1 DEF ManagerTypes
  <2>3. LinkTypes'
    BY LinkStays DEF ManagerTypes, LinkTypes
  <2>4. QED BY <2>1, <2>2, <2>3
<1>5. ASSUME NEW i \in Streams, Dial(i) PROVE Types'
  <2> USE <1>5 DEF Dial, manager
  <2>1. made + 1 \in 1 .. MaxClients /\ made' = made + 1
    BY DEF ManagerTypes
  <2>2. private' \subseteq 1 .. made'
    BY <2>1 DEF ManagerTypes
  <2>3. ManagerTypes'
    BY <2>1, <2>2 DEF ManagerTypes
  <2>4. StreamTypes'
    BY <2>1 DEF StreamTypes, SessionTyped, Bridges, Given, Goes, Places
  <2>5. made + 1 \notin closed'
    BY <2>1 DEF ManagerTypes
  <2>6. LinkTypes'
    BY <2>1, <2>5, LiveIsTyped
  <2>7. QED BY <2>3, <2>4, <2>6
<1>6. ASSUME NEW i \in Streams, DialFails(i) PROVE Types'
  <2> USE <1>6 DEF DialFails, clients
  <2>0. SessionTyped'
    BY DEF StreamTypes, SessionTyped
  <2>1. StreamTypes' /\ tries' \in 0 .. MaxTries - 1 /\ holder' \in Streams \cup {None}
    <3>1. CASE TryFails(i)
      BY <2>0, <3>1, TryFailsTyped DEF ManagerTypes
    <3>2. CASE AttemptOver(i) /\ UNCHANGED <<holder, tries>>
      BY <2>0, <3>2, AttemptOverTyped DEF ManagerTypes
    <3>3. QED BY <3>1, <3>2
  <2>2. ManagerTypes'
    BY <2>1 DEF ManagerTypes
  <2>3. LinkTypes'
    BY LinkStays DEF ManagerTypes, LinkTypes
  <2>4. QED BY <2>1, <2>2, <2>3
<1>7. ASSUME NEW i \in Streams, Joined(i) PROVE Types'
  <2> USE <1>7 DEF Joined, clients
  <2>1. bridge[i].client \in Clients \cup {None} /\ device[i] \in Cameras
    BY DEF StreamTypes, ManagerTypes, Bridges
  <2>2. ManagerTypes'
    <3>1. table' \in [Cameras -> Clients \cup {None}]
      BY <2>1 DEF ManagerTypes, manager
    <3>2. holder' \in Streams \cup {None} /\ tries' \in 0 .. MaxTries - 1
      BY DEF ManagerTypes, manager
    <3>3. QED BY <3>1, <3>2 DEF ManagerTypes
  <2>3. StreamTypes'
    BY DEF StreamTypes, Goes, Places, SessionTyped
  <2>4. LinkTypes'
    BY LinkStays DEF ManagerTypes, LinkTypes
  <2>5. QED BY <2>2, <2>3, <2>4
<1>8. ASSUME NEW i \in Streams, JoinFails(i) PROVE Types'
  <2> USE <1>8 DEF JoinFails
  <2>0. SessionTyped'
    BY DEF StreamTypes, SessionTyped
  <2>1. bridge[i].client \in 1 .. made
    BY DEF Ownership, Owned, Owning
  <2>2. CASE bridge[i].client \in private
    <3>1. AttemptOver(i) /\ UNCHANGED <<holder, tries, closed, link>>
      BY <2>2
    <3>2. StreamTypes'
      BY <2>0, <3>1, AttemptOverTyped
    <3>3. ManagerTypes'
      BY <3>1 DEF ManagerTypes
    <3>4. LinkTypes'
      BY <3>1, LinkStays DEF ManagerTypes, LinkTypes
    <3>5. QED BY <3>2, <3>3, <3>4
  <2>3. CASE bridge[i].client \notin private
    <3>1. TryFails(i) /\ StopClient(bridge[i].client)
      BY <2>3 DEF GivesUpOn
    <3>2. StreamTypes' /\ tries' \in 0 .. MaxTries - 1 /\ holder' \in Streams \cup {None}
      BY <2>0, <3>1, TryFailsTyped DEF ManagerTypes
    <3>3. LinkTypes' /\ closed' \subseteq 1 .. made
      BY <2>1, <3>1, StopTyped
    <3>4. ManagerTypes'
      BY <3>2, <3>3 DEF ManagerTypes
    <3>5. QED BY <3>2, <3>3, <3>4
  <2>4. QED BY <2>2, <2>3
<1>9. ASSUME NEW i \in Streams, SendOffer(i) PROVE Types'
  <2> USE <1>9 DEF SendOffer, manager, clients
  <2>1. ManagerTypes'
    BY DEF ManagerTypes
  <2>2. session' \in [Streams -> Nat] /\ session'[i] = session[i] + 1
        /\ \A j \in Streams : session'[j] <= MaxSessions[j] /\ session[j] <= session'[j]
    BY DEF StreamTypes, SessionTyped
  <2>3. StreamTypes'
    <3>0. SessionTyped'
      BY <2>2 DEF SessionTyped
    <3>1. CASE AttemptOver(i)
      BY <3>0, <3>1, AttemptOverTyped
    <3>2. CASE Goes(i, "waiting") /\ UNCHANGED <<attempt, bridge, said>>
      BY <3>0, <3>2 DEF StreamTypes, Goes, Places
    <3>3. QED BY <3>1, <3>2
  <2>4. LinkTypes'
    <3>1. routes' \subseteq Streams \X Nat
      BY <2>2 DEF Registers, LinkTypes
    <3>2. \A j \in Streams : \A k \in Nat : <<j, k>> \in routes' => k \in 1 .. session'[j]
      BY <2>2 DEF Registers, LinkTypes, StreamTypes, SessionTyped
    <3>3. QED BY <3>1, <3>2 DEF LinkTypes
  <2>5. QED BY <2>1, <2>3, <2>4
<1>10. ASSUME NEW i \in Streams, StartFails(i) PROVE Types'
  <2> USE <1>10 DEF StartFails, manager, clients
  <2>0. SessionTyped'
    BY DEF StreamTypes, SessionTyped
  <2>1. ManagerTypes'
    BY DEF ManagerTypes
  <2>2. StreamTypes'
    <3>1. CASE AttemptOver(i)
      BY <2>0, <3>1, AttemptOverTyped
    <3>2. CASE Leaves(i, "off", 0)
      BY <2>0, <3>2, LeavesTyped DEF Places
    <3>3. CASE Goes(i, "shown") /\ UNCHANGED <<attempt, bridge, said>>
      BY <2>0, <3>3 DEF StreamTypes, Goes, Places
    <3>4. QED BY <3>1, <3>2, <3>3
  <2>3. LinkTypes'
    BY LinkStays DEF ManagerTypes, LinkTypes
  <2>4. QED BY <2>1, <2>2, <2>3
<1>11. ASSUME NEW i \in Streams, Established(i) PROVE Types'
  <2> USE <1>11 DEF Established, manager, clients
  <2>1. ManagerTypes'
    BY DEF ManagerTypes
  <2>2. StreamTypes'
    BY DEF StreamTypes, Goes, Places, SessionTyped
  <2>3. LinkTypes'
    BY LinkStays DEF ManagerTypes, LinkTypes
  <2>4. QED BY <2>1, <2>2, <2>3
<1>12. ASSUME NEW i \in Streams, StopBridge(i) PROVE Types'
  <2> USE <1>12 DEF StopBridge, manager
  <2>0. SessionTyped'
    BY DEF StreamTypes, SessionTyped
  <2>1. StreamTypes'
    BY <2>0, LeavesTyped DEF Places
  <2>2. LinkTypes' /\ closed' \subseteq 1 .. made
    <3>1. CASE StopClient(bridge[i].client) /\ bridge[i].client \in private
      BY <3>1, StopTyped DEF ManagerTypes
    <3>2. CASE routes' = routes \ {<<i, session[i]>>} /\ UNCHANGED <<closed, live, heard, inbox>>
      BY <3>2 DEF LinkTypes, ManagerTypes
    <3>3. CASE UNCHANGED <<closed, link>>
      BY <3>3, LinkStays DEF ManagerTypes, LinkTypes
    <3>4. QED BY <3>1, <3>2, <3>3 DEF Deregisters
  <2>3. ManagerTypes'
    BY <2>2 DEF ManagerTypes
  <2>4. QED BY <2>1, <2>2, <2>3
<1>13. ASSUME NEW i \in Streams, NEW what \in Nat, Publish(i, what),
             said' \in [Streams -> [answer : BOOLEAN, candidates : Nat]],
             UNCHANGED <<device, manager, clients, live, heard, routes, losses, pc, attempt, session, bridge>>
       PROVE Types'
  <2> USE <1>13 DEF manager, clients
  <2>1. ManagerTypes'
    BY DEF ManagerTypes
  <2>2. StreamTypes'
    BY DEF StreamTypes, SessionTyped
  <2>3. LinkTypes'
    <3>1. [session |-> <<i, session[i]>>, body |-> what] \in Messages
      BY DEF Messages, StreamTypes, SessionTyped
    <3>2. inbox' \in Seq(Messages)
      BY <3>1 DEF Publish, LinkTypes
    <3>3. QED BY <3>2 DEF LinkTypes
  <2>4. QED BY <2>1, <2>2, <2>3
<1>14. ASSUME NEW i \in Streams, CameraAnswers(i) PROVE Types'
  BY <1>13, <1>14 DEF CameraAnswers, StreamTypes
<1>15. ASSUME NEW i \in Streams, CameraFindsCandidate(i) PROVE Types'
  <2>1. said' \in [Streams -> [answer : BOOLEAN, candidates : Nat]] /\ said'[i].candidates \in Nat
    BY <1>15 DEF CameraFindsCandidate, StreamTypes
  <2>2. QED BY <1>13, <1>15, <2>1 DEF CameraFindsCandidate
<1>16. ASSUME NEW n \in Clients, Subscribes(n) PROVE Types'
  <2> USE <1>16 DEF Subscribes, manager, bridges
  <2>1. ManagerTypes'
    BY DEF ManagerTypes, Finished
  <2>2. StreamTypes'
    BY DEF StreamTypes, SessionTyped
  <2>3. LinkTypes'
    <3>1. n \in Nat /\ n # None
      OBVIOUS
    <3>2. CASE live = n /\ heard' = TRUE
      BY <3>1, <3>2 DEF LinkTypes
    <3>3. CASE UNCHANGED heard
      BY <3>3 DEF LinkTypes
    <3>4. QED BY <3>2, <3>3
  <2>4. QED BY <2>1, <2>2, <2>3
<1>17. ASSUME NEW n \in Clients, OnDisconnect(n) PROVE Types'
  <2> USE <1>17 DEF OnDisconnect, manager, bridges
  <2>1. ManagerTypes'
    BY DEF ManagerTypes, Finished, IsConnected
  <2>2. StreamTypes'
    BY DEF StreamTypes, SessionTyped
  <2>3. LinkTypes'
    BY LinkStays DEF ManagerTypes, LinkTypes
  <2>4. QED BY <2>1, <2>2, <2>3
<1>18. CASE ManagerStops
  <2> USE <1>18 DEF ManagerStops, bridges
  <2>1. {table[d] : d \in Cameras} \ {None} \subseteq 1 .. made
    BY DEF Ownership, Table
  <2>2. closed' \subseteq 1 .. made /\ closed' = closed \cup ({table[d] : d \in Cameras} \ {None})
    BY <2>1 DEF ManagerTypes
  <2>3. ManagerTypes'
    BY <2>2 DEF ManagerTypes
  <2>4. StreamTypes'
    BY DEF StreamTypes, SessionTyped
  <2>5. LinkTypes'
    <3>1. CASE live \in {table[d] : d \in Cameras} \ {None}
      BY <3>1, LiveIsTyped
    <3>2. CASE live \notin {table[d] : d \in Cameras} \ {None}
      <4>1. live # None => live \notin closed'
        BY <2>2, <3>2 DEF LinkTypes
      <4>2. QED BY <3>2, <4>1, LinkStays DEF ManagerTypes
    <3>3. QED BY <3>1, <3>2
  <2>6. QED BY <2>3, <2>4, <2>5
<1>19. CASE NetworkCuts
  <2> USE <1>19 DEF NetworkCuts, manager, clients, bridges
  <2>1. ManagerTypes'
    BY DEF ManagerTypes
  <2>2. StreamTypes'
    BY DEF StreamTypes, SessionTyped
  <2>3. LinkTypes'
    BY LiveIsTyped
  <2>4. QED BY <2>1, <2>2, <2>3
<1>20. CASE Consume
  <2> USE <1>20 DEF Consume, manager, clients
  <2>1. ManagerTypes'
    BY DEF ManagerTypes
  <2>2. inbox' \in Seq(Messages) /\ Head(inbox) \in Messages
    BY HeadTailProperties DEF LinkTypes
  <2>3. StreamTypes'
    <3>1. ASSUME NEW b \in Bridges, NEW k \in Nat
          PROVE  HandleAnswer(b) \in Bridges /\ HandleCandidate(b, k) \in Bridges
      <4>1. b.added \o b.pending \in Seq(Nat) /\ <<>> \in Seq(Nat)
            /\ Append(b.added, k) \in Seq(Nat) /\ Append(b.pending, k) \in Seq(Nat)
        BY <3>1, EmptySeq, ConcatProperties, AppendProperties DEF Bridges
      <4>2. QED BY <3>1, <4>1 DEF Bridges, HandleAnswer, HandleCandidate
    <3>2. bridge' \in [Streams -> Bridges]
      BY <2>2, <3>1 DEF StreamTypes, Messages
    <3>3. QED BY <3>2 DEF StreamTypes, SessionTyped
  <2>4. LinkTypes'
    BY <2>2 DEF LinkTypes, ManagerTypes
  <2>5. QED BY <2>1, <2>3, <2>4
<1>21. CASE UNCHANGED vars
  <2> USE <1>21 DEF vars, manager, clients, bridges
  <2>1. ManagerTypes'
    BY DEF ManagerTypes
  <2>2. StreamTypes'
    BY DEF StreamTypes, SessionTyped
  <2>3. LinkTypes'
    BY LinkStays DEF ManagerTypes, LinkTypes
  <2>4. QED BY <2>1, <2>2, <2>3
<1>22. QED BY <1>1, <1>2, <1>3, <1>4, <1>5, <1>6, <1>7, <1>8, <1>9, <1>10, <1>11, <1>12, <1>14,
              <1>15, <1>16, <1>17, <1>18, <1>19, <1>20, <1>21 DEF Next

(* A stream moves to where it has no client; one that it waited for in     *)
(* GetClient was stopped.                                                  *)
LEMMA WithoutClient ==
  ASSUME IInv, NEW i \in Streams, OthersStay(i), pc'[i] \notin Owning, bridge'[i].client = None,
         UNCHANGED <<device, table, made, private>>, closed \subseteq closed',
         holder' \in Streams \cup {None},
         pc'[i] = "dialing" <=> holder' = i,
         holder' # i => holder' = IF holder = i THEN None ELSE holder,
         holder' = i => holder \in {i, None} /\ ~IsConnected(table[device[i]]),
         pc[i] = "joining" /\ bridge[i].client \notin private => bridge[i].client \in closed'
  PROVE  Ownership'
<1> USE DEF IInv, Ownership
<1>1. Mutex'
  BY Numbers DEF Mutex, OthersStay, Owning
<1>2. ReplacesDead'
  BY DEF ReplacesDead, IsConnected
<1>3. Table'
  BY DEF Table
<1>4. Owned'
  BY DEF Owned, OthersStay
<1>5. Exclusive'
  <2>1. \A j \in Streams : pc'[j] \in Owning =>
          j # i /\ pc'[j] = pc[j] /\ bridge'[j].client = bridge[j].client /\ bridge[j].client # None
    BY Numbers DEF OthersStay, Owned, Types, ManagerTypes
  <2>2. QED BY <2>1 DEF Exclusive, OthersStay
<1>6. NoZombie'
  <2> SUFFICES ASSUME NEW n \in 1 .. made, n # None, n \notin closed', n \notin private,
                      \A d \in Cameras : table[d] # n
               PROVE  holder' # None /\ pc'[holder'] = "joining" /\ bridge'[holder'].client = n
    BY DEF NoZombie, IsConnected
  <2>1. holder # None /\ pc[holder] = "joining" /\ bridge[holder].client = n /\ holder \in Streams
    BY DEF NoZombie, IsConnected, Types, ManagerTypes
  <2>2. holder # i
    BY <2>1
  <2>3. holder' = holder
    BY <2>1, <2>2
  <2>4. QED BY <2>1, <2>2, <2>3 DEF OthersStay
<1> QED BY <1>1, <1>2, <1>3, <1>4, <1>5, <1>6

(* Nobody's client changes; connections may go down.                       *)
LEMMA SameClients ==
  ASSUME IInv, UNCHANGED <<device, holder, table, made, private>>, closed \subseteq closed',
         \A i \in Streams : bridge'[i].client = bridge[i].client,
         \A i \in Streams : pc'[i] = pc[i] \/ {pc[i], pc'[i]} \subseteq Owning \ {"joining"}
  PROVE  Ownership'
<1> USE DEF IInv, Ownership
<1>1. Mutex'
  BY Numbers DEF Mutex, Owning
<1>2. ReplacesDead'
  BY DEF ReplacesDead, IsConnected
<1>3. Table'
  BY DEF Table
<1>4. Owned'
  BY DEF Owned, Owning
<1>5. Exclusive'
  BY DEF Exclusive, Owning
<1>6. NoZombie'
  BY DEF NoZombie, IsConnected, Types, ManagerTypes, Owning
<1> QED BY <1>1, <1>2, <1>3, <1>4, <1>5, <1>6

(* Every step keeps who holds which client.                                *)
LEMMA OwnershipStep == ASSUME IInv, [Next]_vars PROVE Ownership'
<1>0. /\ Types /\ Types' /\ SessionTyped' /\ StreamTypes /\ ManagerTypes
      /\ \A i \in Streams :
           holder = i <=> pc[i] = "dialing" \/ (pc[i] = "joining" /\ bridge[i].client \notin private)
      /\ \A i \in Streams :
           IF pc[i] \in Owning THEN bridge[i].client \in 1 .. made ELSE bridge[i].client = None
  BY TypesStep DEF IInv, Types, StreamTypes, Ownership, Mutex, Owned
<1>1. ASSUME NEW i \in Streams, Begin(i) PROVE Ownership'
  <2> USE <1>0, <1>1 DEF Begin, Goes, manager, clients
  <2>1. OthersStay(i) /\ pc'[i] = "asking" /\ bridge'[i].client = None
    BY DEF OthersStay, Owning, StreamTypes
  <2>2. QED BY <2>1, WithoutClient DEF Owning, ManagerTypes
<1>2. ASSUME NEW i \in Streams, Reuse(i) PROVE Ownership'
  <2> USE <1>0, <1>2 DEF Reuse, Given, Goes, manager, clients
  <2>1. OthersStay(i) /\ pc'[i] = "ready" /\ bridge'[i].client = table[device[i]]
    BY DEF OthersStay, StreamTypes, Bridges
  <2>2. device[i] \in Cameras /\ table[device[i]] \in 1 .. made /\ table[device[i]] \notin private
    BY DEF IsConnected, IInv, Ownership, Table, ManagerTypes
  <2>3. Mutex'
    BY <2>1, <2>2 DEF Mutex, OthersStay
  <2>4. ReplacesDead' /\ Table'
    BY DEF IInv, Ownership, ReplacesDead, Table, IsConnected
  <2>5. Owned'
    BY <2>1, <2>2 DEF Owned, OthersStay, Owning
  <2>6. Exclusive'
    BY <2>1, <2>2 DEF IInv, Ownership, Exclusive, OthersStay, Owning
  <2>7. NoZombie'
    BY <2>1 DEF IInv, Ownership, NoZombie, OthersStay, IsConnected
  <2>8. QED BY <2>3, <2>4, <2>5, <2>6, <2>7 DEF Ownership
<1>3. ASSUME NEW i \in Streams, Connect(i) PROVE Ownership'
  <2> USE <1>0, <1>3 DEF Connect, Goes, clients
  <2>1. OthersStay(i) /\ pc'[i] = "dialing" /\ bridge'[i].client = None
    BY DEF OthersStay, Owning, StreamTypes
  <2>2. QED BY <2>1, WithoutClient, Numbers DEF Owning, ManagerTypes
<1>4. ASSUME NEW i \in Streams, UserInfoFails(i) PROVE Ownership'
  <2> USE <1>0, <1>4 DEF UserInfoFails, clients
  <2>1. OthersStay(i) /\ pc'[i] \in {"alone", "off"} /\ bridge'[i].client = None /\ holder' = None
    BY GetFailsTyped
  <2>2. QED BY <2>1, WithoutClient, Numbers DEF Owning, ManagerTypes
<1>5. ASSUME NEW i \in Streams, Dial(i) PROVE Ownership'
  <2> USE <1>0, <1>5 DEF Dial, Given, Goes, manager
  <2>1. OthersStay(i) /\ pc'[i] = "joining" /\ bridge'[i].client = made'
    BY DEF OthersStay, StreamTypes, Bridges
  <2>2. made \in Nat /\ made' = made + 1 /\ made' \notin private /\ made' \notin closed
        /\ private' = (IF pc[i] = "alone" THEN private \cup {made'} ELSE private)
    BY DEF ManagerTypes
  <2>3. \A d \in Cameras : table[d] # None => table[d] \in 1 .. made /\ table[d] \notin private
    BY DEF IInv, Ownership, Table
  <2>4. Mutex'
    <3>1. ASSUME NEW j \in Streams \ {i} PROVE bridge[j].client \in private' <=> bridge[j].client \in private
      BY <2>2, Numbers
    <3>2. QED BY <2>1, <2>2, <3>1 DEF Mutex, OthersStay
  <2>5. ReplacesDead'
    BY <2>2, <2>3 DEF IInv, Ownership, ReplacesDead, IsConnected, ManagerTypes
  <2>6. Table'
    BY <2>2, <2>3 DEF Table
  <2>7. Owned'
    BY <2>1, <2>2 DEF Owned, OthersStay, Owning
  <2>8. Exclusive'
    <3>1. \A j \in Streams : bridge[j].client # made'
      BY <2>2, Numbers
    <3>2. \A d \in Cameras : table[d] # made'
      BY <2>2, <2>3, Numbers
    <3>3. QED BY <2>1, <2>2, <3>1, <3>2 DEF IInv, Ownership, Exclusive, OthersStay, Owning
  <2>9. NoZombie'
    <3> SUFFICES ASSUME NEW n \in 1 .. made + 1, n # None, n \notin closed, n \notin private',
                        \A d \in Cameras : table[d] # n
                 PROVE  holder # None /\ pc'[holder] = "joining" /\ bridge'[holder].client = n
      BY <2>2 DEF NoZombie, IsConnected
    <3>1. CASE n = made + 1
      <4>1. pc[i] = "dialing"
        BY <2>2, <3>1
      <4>2. holder = i
        BY <4>1
      <4>3. QED BY <2>1, <2>2, <3>1, <4>2, Numbers
    <3>2. CASE n # made + 1
      <4>1. n \in 1 .. made /\ n \notin private
        BY <2>2, <3>2
      <4>2. holder # None /\ pc[holder] = "joining" /\ bridge[holder].client = n /\ holder \in Streams
        BY <4>1 DEF IInv, Ownership, NoZombie, IsConnected, ManagerTypes
      <4>3. QED BY <2>1, <4>2 DEF OthersStay
    <3>3. QED BY <3>1, <3>2
  <2>10. QED BY <2>4, <2>5, <2>6, <2>7, <2>8, <2>9 DEF Ownership
<1>6. ASSUME NEW i \in Streams, DialFails(i) PROVE Ownership'
  <2> USE <1>0, <1>6 DEF DialFails, clients
  <2>1. CASE pc[i] = "dialing" /\ TryFails(i)
    <3>1. /\ OthersStay(i) /\ bridge'[i].client = None
          /\ \/ pc'[i] = "dialing" /\ holder' = holder
             \/ pc'[i] \in {"alone", "off"} /\ holder' = None
      BY <2>1, TryFailsTyped
    <3>2. ~IsConnected(table[device[i]]) /\ holder = i
      BY <2>1, Numbers DEF IInv, Ownership, ReplacesDead
    <3>3. QED BY <2>1, <3>1, <3>2, WithoutClient, Numbers DEF Owning, ManagerTypes
  <2>2. CASE pc[i] = "alone" /\ AttemptOver(i) /\ UNCHANGED <<holder, tries>>
    <3>1. OthersStay(i) /\ bridge'[i].client = None /\ pc'[i] \in {"asking", "off"}
      BY <2>2, AttemptOverTyped
    <3>2. QED BY <2>2, <3>1, WithoutClient DEF Owning, ManagerTypes
  <2>3. QED BY <2>1, <2>2
<1>7. ASSUME NEW i \in Streams, Joined(i) PROVE Ownership'
  <2> USE <1>0, <1>7 DEF Joined, Goes, clients
  <2>1. OthersStay(i) /\ pc'[i] = "ready" /\ UNCHANGED <<bridge, made, closed, private, device>>
    BY DEF OthersStay, StreamTypes
  <2>2. bridge[i].client \in 1 .. made /\ device[i] \in Cameras
    BY DEF Owning, ManagerTypes
  <2>3. \A j \in Streams : pc'[j] \in Owning <=> pc[j] \in Owning
    BY <2>1 DEF OthersStay, Owning
  <2>4. Owned'
    BY <2>1, <2>3 DEF Owned
  <2>5. CASE bridge[i].client \in private
    <3>1. UNCHANGED <<table, holder>>
      BY <2>5 DEF manager
    <3>2. Mutex'
      BY <2>1, <2>5, <3>1 DEF Mutex, OthersStay
    <3>3. ReplacesDead' /\ Table'
      BY <2>1, <3>1 DEF IInv, Ownership, ReplacesDead, Table, IsConnected
    <3>4. Exclusive'
      BY <2>1, <2>3, <3>1 DEF IInv, Ownership, Exclusive, OthersStay
    <3>5. NoZombie'
      BY <2>1, <2>5, <3>1 DEF IInv, Ownership, NoZombie, OthersStay, IsConnected
    <3>6. QED BY <2>4, <3>2, <3>3, <3>4, <3>5 DEF Ownership
  <2>6. CASE bridge[i].client \notin private
    <3>1. holder = i /\ holder' = None /\ table' = [table EXCEPT ![device[i]] = bridge[i].client]
      BY <2>6
    <3>2. Mutex'
      BY <2>1, <2>6, <3>1, Numbers DEF Mutex, OthersStay
    <3>3. ReplacesDead'
      BY <3>1 DEF ReplacesDead
    <3>4. Table'
      BY <2>1, <2>2, <2>6, <3>1 DEF IInv, Ownership, Table, ManagerTypes
    <3>5. Exclusive'
      <4>1. \A j \in Streams \ {i} : bridge[j].client # bridge[i].client
        BY DEF IInv, Ownership, Exclusive, Owning
      <4>2. \A d \in Cameras : table'[d] = table[d] \/ table'[d] = bridge[i].client
        BY <3>1 DEF ManagerTypes
      <4>3. QED BY <2>1, <2>3, <2>6, <4>1, <4>2 DEF IInv, Ownership, Exclusive, OthersStay
    <3>6. NoZombie'
      <4>1. ~IsConnected(table[device[i]])
        BY <3>1, Numbers DEF IInv, Ownership, ReplacesDead
      <4>2. table'[device[i]] = bridge[i].client
            /\ \A d \in Cameras \ {device[i]} : table'[d] = table[d]
        BY <2>2, <3>1 DEF ManagerTypes
      <4>3. QED BY <2>1, <2>2, <3>1, <4>1, <4>2 DEF IInv, Ownership, NoZombie, IsConnected
    <3>7. QED BY <2>4, <3>2, <3>3, <3>4, <3>5, <3>6 DEF Ownership
  <2>7. QED BY <2>5, <2>6
<1>8. ASSUME NEW i \in Streams, JoinFails(i) PROVE Ownership'
  <2> USE <1>0, <1>8 DEF JoinFails
  <2>1. CASE bridge[i].client \in private
    <3>1. OthersStay(i) /\ bridge'[i].client = None /\ pc'[i] \in {"asking", "off"}
          /\ UNCHANGED <<holder, closed>>
      BY <2>1, AttemptOverTyped
    <3>2. QED BY <2>1, <3>1, WithoutClient DEF Owning, ManagerTypes
  <2>2. CASE bridge[i].client \notin private
    <3>1. /\ OthersStay(i) /\ bridge'[i].client = None
          /\ \/ pc'[i] = "dialing" /\ holder' = holder
             \/ pc'[i] \in {"alone", "off"} /\ holder' = None
      BY <2>2, TryFailsTyped
    <3>2. closed' = closed \cup {bridge[i].client}
      BY <2>2 DEF GivesUpOn, StopClient
    <3>3. ~IsConnected(table[device[i]]) /\ holder = i
      BY <2>2, Numbers DEF IInv, Ownership, ReplacesDead
    <3>4. QED BY <2>2, <3>1, <3>2, <3>3, WithoutClient, Numbers DEF Owning, ManagerTypes
  <2>3. QED BY <2>1, <2>2
<1>9. ASSUME NEW i \in Streams, SendOffer(i) PROVE Ownership'
  <2> USE <1>0, <1>9 DEF SendOffer, manager, clients
  <2>1. CASE AttemptOver(i)
    <3>1. OthersStay(i) /\ bridge'[i].client = None /\ pc'[i] \in {"asking", "off"}
      BY <2>1, AttemptOverTyped
    <3>2. QED BY <3>1, WithoutClient DEF Owning, ManagerTypes
  <2>2. CASE Goes(i, "waiting") /\ UNCHANGED <<attempt, bridge, said>>
    <3>1. \A j \in Streams : pc'[j] = pc[j] \/ {pc[j], pc'[j]} \subseteq Owning \ {"joining"}
      BY <2>2 DEF Goes, Owning, StreamTypes
    <3>2. QED BY <2>2, <3>1, SameClients
  <2>3. QED BY <2>1, <2>2
<1>10. ASSUME NEW i \in Streams, StartFails(i) PROVE Ownership'
  <2> USE <1>0, <1>10 DEF StartFails, manager, clients, link
  <2>1. CASE pc[i] \in {"ready", "waiting", "asking"} /\ (AttemptOver(i) \/ Leaves(i, "off", 0))
    <3>1. OthersStay(i) /\ bridge'[i].client = None /\ pc'[i] \in {"asking", "off"}
      BY <2>1, AttemptOverTyped, LeavesTyped DEF Places
    <3>2. QED BY <2>1, <3>1, WithoutClient DEF Owning, ManagerTypes
  <2>2. CASE pc[i] = "waiting" /\ Goes(i, "shown") /\ UNCHANGED <<attempt, bridge, said>>
    <3>1. \A j \in Streams : pc'[j] = pc[j] \/ {pc[j], pc'[j]} \subseteq Owning \ {"joining"}
      BY <2>2 DEF Goes, Owning, StreamTypes
    <3>2. QED BY <2>2, <3>1, SameClients
  <2>3. QED BY <2>1, <2>2
<1>11. ASSUME NEW i \in Streams, Established(i) PROVE Ownership'
  <2> USE <1>0, <1>11 DEF Established, Goes, manager, clients
  <2>1. \A j \in Streams : pc'[j] = pc[j] \/ {pc[j], pc'[j]} \subseteq Owning \ {"joining"}
    BY DEF Owning, StreamTypes
  <2>2. QED BY <2>1, SameClients
<1>12. ASSUME NEW i \in Streams, StopBridge(i) PROVE Ownership'
  <2> USE <1>0, <1>12 DEF StopBridge, manager
  <2>1. OthersStay(i) /\ bridge'[i].client = None /\ pc'[i] = "off"
    BY LeavesTyped DEF Places
  <2>2. closed \subseteq closed'
    BY DEF Deregisters, StopClient
  <2>3. QED BY <2>1, <2>2, WithoutClient DEF Owning, ManagerTypes
<1>13. CASE UNCHANGED <<device, manager, made, private, closed, pc, bridge>>
  BY <1>0, <1>13, SameClients DEF manager
<1>14. ASSUME NEW n \in Clients, OnDisconnect(n) PROVE Ownership'
  BY <1>0, <1>14, SameClients DEF OnDisconnect, manager, bridges
<1>15. CASE ManagerStops
  <2> USE <1>0, <1>15 DEF ManagerStops, bridges
  <2>1. closed \subseteq closed' /\ (\A d \in Cameras : table[d] # None => table[d] \in closed')
        /\ table' = [d \in Cameras |-> None]
    OBVIOUS
  <2>2. Mutex' /\ Owned'
    BY DEF Mutex, Owned
  <2>3. ReplacesDead' /\ Table' /\ Exclusive'
    <3>1. Exclusive'
      BY <2>1, Numbers DEF IInv, Ownership, Exclusive, ManagerTypes
    <3>2. QED BY <2>1, <3>1 DEF ReplacesDead, Table
  <2>4. NoZombie'
    BY <2>1 DEF IInv, Ownership, NoZombie, IsConnected
  <2>5. QED BY <2>2, <2>3, <2>4 DEF Ownership
<1>16. CASE Consume
  <2>1. \A j \in Streams : bridge'[j].client = bridge[j].client
    BY <1>0, <1>16 DEF Consume, HandleAnswer, HandleCandidate, StreamTypes, Bridges
  <2>2. QED BY <1>0, <1>16, <2>1, SameClients DEF Consume, manager, clients
<1>17. QED BY <1>1, <1>2, <1>3, <1>4, <1>5, <1>6, <1>7, <1>8, <1>9, <1>10, <1>11,
              <1>12, <1>13, <1>14, <1>15, <1>16
           DEF Next, CameraAnswers, CameraFindsCandidate, Subscribes, NetworkCuts, vars, manager,
               clients, link, bridges

LEMMA Invariant == Spec => []IInv
<1>1. IInv /\ [Next]_vars => IInv'
  BY TypesStep, OwnershipStep DEF IInv
<1> QED BY InitInv, <1>1, PTL DEF Spec

(* Every variable keeps its type: GetClient counts no more failures than   *)
(* it makes attempts, and the broker's connection was neither lost nor     *)
(* stopped (mqtt_manager.go, connect).                                     *)
THEOREM TypeCorrect == Spec => []TypeOK
<1>1. IInv => TypeOK
  <2> SUFFICES ASSUME IInv PROVE TypeOK
    OBVIOUS
  <2> USE Numbers DEF IInv, Types
  <2>1. \A s \in routes : s[1] \in Streams /\ s[2] \in 1 .. session[s[1]]
    <3> SUFFICES ASSUME NEW s \in routes PROVE s[1] \in Streams /\ s[2] \in 1 .. session[s[1]]
      OBVIOUS
    <3>1. PICK i \in Streams, k \in Nat : s = <<i, k>>
      BY DEF LinkTypes
    <3>2. s[1] = i /\ s[2] = k
      BY <3>1
    <3>3. QED BY <3>1, <3>2 DEF LinkTypes
  <2>2. IF live = None THEN ~heard ELSE IsConnected(live)
    BY DEF LinkTypes, IsConnected
  <2>3. \A i \in Streams : session[i] \in 0 .. MaxSessions[i]
    <3> SUFFICES ASSUME NEW i \in Streams PROVE session[i] \in 0 .. MaxSessions[i]
      OBVIOUS
    <3>1. session[i] \in Nat /\ session[i] <= MaxSessions[i] /\ MaxSessions[i] \in Nat
      BY DEF StreamTypes, SessionTyped
    <3>2. QED BY <3>1
  <2>4. \A i \in Streams : bridge[i].client \in Clients \cup {None} /\ bridge[i].answered \in BOOLEAN
    BY DEF StreamTypes, Bridges
  <2>5. closed \cup private \subseteq 1 .. made
    BY DEF ManagerTypes
  <2>6. QED BY <2>1, <2>2, <2>3, <2>4, <2>5 DEF TypeOK, ManagerTypes, StreamTypes, Places
<1>2. QED BY Invariant, <1>1, PTL

(* However many streams, cameras, clients and losses there are, no         *)
(* connection of the manager is up that it does not know (mqtt_manager.go, *)
(* GetClient and connect).                                                 *)
THEOREM NoConnectionForgotten == Spec => []NoZombie
<1>1. IInv => NoZombie
  BY DEF IInv, Ownership
<1>2. QED BY Invariant, <1>1, PTL

\* The step of SharedClientSpared.
Spared ==
  \A i \in Streams :
       pc[i] \in {"ready", "waiting", "shown"} /\ bridge[i].client = live /\ live \in closed'
         => (table # table' /\ table' = [d \in Cameras |-> None]) \/ pc'[i] = "off"

LEMMA SparedStep == ASSUME IInv, [Next]_vars PROVE Spared
<1> SUFFICES ASSUME NEW i \in Streams, pc[i] \in {"ready", "waiting", "shown"}, bridge[i].client = live,
                    live \in closed'
             PROVE  (table # table' /\ table' = [d \in Cameras |-> None]) \/ pc'[i] = "off"
  BY DEF Spared
<1>1. live \in 1 .. made /\ live # None /\ live \notin closed
  BY Numbers DEF IInv, Types, LinkTypes, Ownership, Owned, Owning
<1>2. CASE UNCHANGED closed
  BY <1>1, <1>2
<1>3. ASSUME NEW n \in Clients, OnDisconnect(n) PROVE FALSE
  BY <1>1, <1>3 DEF OnDisconnect
<1>4. ASSUME NEW j \in Streams, JoinFails(j) PROVE FALSE
  <2>1. pc[j] = "joining" /\ (closed' = closed \/ closed' = closed \cup {bridge[j].client})
    BY <1>4 DEF JoinFails, GivesUpOn, StopClient
  <2>2. bridge[i].client # bridge[j].client
    BY <2>1 DEF IInv, Ownership, Exclusive, Owning
  <2>3. QED BY <1>1, <2>1, <2>2
<1>5. ASSUME NEW j \in Streams, StopBridge(j) PROVE pc'[i] = "off"
  <2>1. CASE j = i
    BY <1>5, <2>1 DEF StopBridge, Leaves, Goes, IInv, Types, StreamTypes
  <2>2. CASE j # i
    <3>1. pc[j] = "shown" /\ bridge[j].client \in private /\ closed' = closed \cup {bridge[j].client}
      BY <1>1, <1>5 DEF StopBridge, Deregisters, StopClient
    <3>2. bridge[i].client # bridge[j].client
      BY <2>2, <3>1 DEF IInv, Ownership, Exclusive, Owning
    <3>3. QED BY <1>1, <3>1, <3>2
  <2>3. QED BY <2>1, <2>2
<1>6. CASE ManagerStops
  <2>1. PICK d \in Cameras : table[d] # None
    BY <1>6 DEF ManagerStops
  <2>2. table' = [c \in Cameras |-> None]
    BY <1>6 DEF ManagerStops
  <2>3. table # table'
    BY <2>1, <2>2
  <2>4. QED BY <2>2, <2>3
<1>7. QED BY <1>2, <1>3, <1>4, <1>5, <1>6
           DEF Next, Begin, Reuse, Connect, UserInfoFails, Dial, DialFails, Joined, SendOffer,
               StartFails, Established, CameraAnswers, CameraFindsCandidate, Subscribes, NetworkCuts,
               Consume, vars, clients

(* No stream stops the client of another: whatever a stream stops is its   *)
(* own, or was never given to anybody (bridge.go, Stop).                   *)
THEOREM SharedClientIsSpared == Spec => SharedClientSpared
<1>1. IInv /\ [Next]_vars => [Spared]_vars
  BY SparedStep
<1>2. Spec => [][Spared]_vars
  BY Invariant, <1>1, PTL DEF Spec
<1>3. QED BY <1>2 DEF Spared, SharedClientSpared

-----------------------------------------------------------------------------
(* What the cameras say gets through.  A session's messages are a list of  *)
(* notes in the connection's inbox; the first lemmas say what taking one   *)
(* from its head and adding one at its end do to the notes of one session. *)
(* The invariant: for every stream that waits for its camera, or is shown, *)
(* over the connection that carried its offer, what the camera said is     *)
(* what its bridge has taken followed by what is still in the inbox, in    *)
(* order and each once.                                                    *)

Answering == {"waiting", "shown"}

\* The connection that carried a stream's offer is still up and subscribed.
Reached(i) == pc[i] \in Answering /\ live = bridge[i].client /\ heard

\* Nothing is lost on the way: when all that was published is consumed, a bridge
\* has the answer if and only if the camera gave it, and then every candidate the
\* camera found for the session, once and in the order found, whatever other
\* sessions share the connection or were left on it by attempts that failed.
OffersGetThrough ==
  \A i \in Streams : Reached(i) /\ inbox = <<>> =>
    /\ bridge[i].answered = said[i].answer
    /\ bridge[i].answered => bridge[i].added = [k \in 1 .. said[i].candidates |-> k]

\* What is on its way in a list, and whether the candidates of a session are in order.
Note(key, k) == [session |-> key, body |-> k]
InList(box, m) == \E n \in DOMAIN box : box[n] = m
Ascending(key, box) ==
  \A n, l \in DOMAIN box : n < l /\ box[n].session = key /\ box[l].session = key
                             /\ box[n].body # 0 /\ box[l].body # 0 => box[n].body < box[l].body

LEMMA HeadAndTail ==
  ASSUME NEW box \in Seq(Messages), box # <<>>
  PROVE  /\ Tail(box) \in Seq(Messages) /\ Len(box) \in Nat /\ Len(box) >= 1
         /\ Head(box) = box[1] /\ Head(box) \in Messages
         /\ DOMAIN box = 1 .. Len(box) /\ DOMAIN Tail(box) = 1 .. Len(box) - 1
         /\ \A n \in 1 .. Len(box) - 1 : Tail(box)[n] = box[n + 1]
<1>1. /\ Tail(box) \in Seq(Messages) /\ Len(box) \in Nat /\ Len(box) >= 1 /\ Len(Tail(box)) = Len(box) - 1
      /\ Head(box) = box[1] /\ box[1] \in Messages
      /\ DOMAIN box = 1 .. Len(box) /\ DOMAIN Tail(box) = 1 .. Len(Tail(box))
  BY HeadTailProperties
<1>2. \A n \in 1 .. Len(box) - 1 : Tail(box)[n] = box[n + 1]
  BY <1>1, HeadTailProperties
<1> QED BY <1>1, <1>2

LEMMA InTail ==
  ASSUME NEW box \in Seq(Messages), box # <<>>
  PROVE  /\ \A m : InList(box, m) <=> m = Head(box) \/ InList(Tail(box), m)
         /\ \A key : Ascending(key, box) =>
              /\ Ascending(key, Tail(box))
              /\ Head(box).session = key /\ Head(box).body # 0 =>
                   \A k \in Nat \ {0} : InList(Tail(box), Note(key, k)) => Head(box).body < k
<1> DEFINE rest == Tail(box)
           L == Len(box)
           first == Head(box)
<1>1. /\ L \in Nat /\ L >= 1 /\ first = box[1]
      /\ DOMAIN box = 1 .. L /\ DOMAIN rest = 1 .. L - 1
      /\ \A n \in 1 .. L - 1 : rest[n] = box[n + 1]
  BY HeadAndTail
<1> HIDE DEF rest, L, first
<1>2. 1 \in 1 .. L /\ \A n \in 1 .. L - 1 : n + 1 \in 1 .. L /\ 1 < n + 1
  BY <1>1
<1>3. \A n \in 1 .. L : n # 1 => n - 1 \in 1 .. L - 1 /\ n - 1 + 1 = n
  BY <1>1
<1>4. ASSUME NEW m, InList(box, m) PROVE m = first \/ InList(rest, m)
  <2>1. PICK n \in 1 .. L : box[n] = m
    BY <1>1, <1>4 DEF InList
  <2>2. CASE n # 1
    <3>1. rest[n - 1] = m /\ n - 1 \in 1 .. L - 1
      BY <1>1, <1>3, <2>1, <2>2
    <3> QED BY <1>1, <3>1 DEF InList
  <2> QED BY <1>1, <2>1, <2>2
<1>5. ASSUME NEW m, InList(rest, m) PROVE InList(box, m)
  <2>1. PICK n \in 1 .. L - 1 : rest[n] = m
    BY <1>1, <1>5 DEF InList
  <2>2. box[n + 1] = m /\ n + 1 \in 1 .. L
    BY <1>1, <1>2, <2>1
  <2> QED BY <1>1, <2>2 DEF InList
<1>6. InList(box, first)
  BY <1>1, <1>2 DEF InList
<1>7. ASSUME NEW key, Ascending(key, box)
      PROVE  /\ Ascending(key, rest)
             /\ first.session = key /\ first.body # 0 =>
                   \A k \in Nat \ {0} : InList(rest, Note(key, k)) => first.body < k
  <2>1. ASSUME NEW n \in 1 .. L - 1, NEW l \in 1 .. L - 1, n < l,
               rest[n].session = key, rest[l].session = key, rest[n].body # 0, rest[l].body # 0
        PROVE  rest[n].body < rest[l].body
    <3>1. n + 1 \in DOMAIN box /\ l + 1 \in DOMAIN box /\ n + 1 < l + 1
      BY <1>1, <1>2, <2>1
    <3>2. rest[n] = box[n + 1] /\ rest[l] = box[l + 1]
      BY <1>1
    <3> QED BY <1>7, <2>1, <3>1, <3>2 DEF Ascending
  <2>2. ASSUME first.session = key, first.body # 0,
               NEW k \in Nat \ {0}, InList(rest, Note(key, k))
        PROVE  first.body < k
    <3>1. PICK n \in 1 .. L - 1 : rest[n] = Note(key, k)
      BY <1>1, <2>2 DEF InList
    <3>2. /\ n + 1 \in DOMAIN box /\ 1 \in DOMAIN box /\ 1 < n + 1
          /\ box[n + 1].session = key /\ box[n + 1].body = k
      BY <1>1, <1>2, <3>1 DEF Note
    <3> QED BY <1>1, <1>7, <2>2, <3>2 DEF Ascending
  <2> QED BY <1>1, <2>1, <2>2 DEF Ascending
<1> QED BY <1>4, <1>5, <1>6, <1>7 DEF rest, first

LEMMA InAppend ==
  ASSUME NEW box \in Seq(Messages), NEW new \in Messages
  PROVE  /\ Append(box, new) \in Seq(Messages)
         /\ \A m : InList(Append(box, new), m) <=> InList(box, m) \/ m = new
         /\ \A key : /\ Ascending(key, box)
                     /\ new.session = key /\ new.body # 0 =>
                          \A k \in Nat \ {0} : InList(box, Note(key, k)) => k < new.body
                     => Ascending(key, Append(box, new))
<1> DEFINE more == Append(box, new)
           L == Len(box)
<1>1. /\ more \in Seq(Messages) /\ L \in Nat /\ Len(more) = L + 1
      /\ \A n \in 1 .. L : more[n] = box[n]
      /\ more[L + 1] = new
  BY AppendProperties
<1>2. DOMAIN more = 1 .. L + 1 /\ DOMAIN box = 1 .. L /\ \A n \in 1 .. L : box[n] \in Messages
  BY <1>1
<1> HIDE DEF more, L
<1>3. /\ L + 1 \in 1 .. L + 1 /\ \A n \in 1 .. L : n \in 1 .. L + 1 /\ n # L + 1
      /\ \A n \in 1 .. L + 1 : n = L + 1 \/ n \in 1 .. L
  BY <1>1
<1>4. \A m : InList(more, m) <=> InList(box, m) \/ m = new
  BY <1>1, <1>2, <1>3 DEF InList
<1>5. ASSUME NEW key, Ascending(key, box),
             new.session = key /\ new.body # 0 =>
               \A k \in Nat \ {0} : InList(box, Note(key, k)) => k < new.body
      PROVE  Ascending(key, more)
  <2> SUFFICES ASSUME NEW n \in 1 .. L + 1, NEW l \in 1 .. L + 1, n < l,
                      more[n].session = key, more[l].session = key, more[n].body # 0, more[l].body # 0
               PROVE  more[n].body < more[l].body
    BY <1>2 DEF Ascending
  <2>1. n \in 1 .. L /\ more[n] = box[n] /\ box[n] \in Messages
    BY <1>1, <1>2, <1>3
  <2>2. CASE l \in 1 .. L
    BY <1>1, <1>2, <1>5, <2>1, <2>2 DEF Ascending
  <2>3. CASE l = L + 1
    <3>1. box[n].body \in Nat \ {0} /\ box[n] = Note(key, box[n].body)
      BY <2>1 DEF Messages, Note
    <3>2. InList(box, Note(key, box[n].body))
      BY <1>2, <2>1, <3>1 DEF InList
    <3> QED BY <1>1, <1>5, <2>1, <2>3, <3>1, <3>2
  <2> QED BY <1>3, <2>2, <2>3
<1> QED BY <1>1, <1>4, <1>5 DEF more

\* A bridge has taken the first of what its camera said, in order, and the rest is
\* on its way, in order.
Taken(b) == IF b.answered THEN b.added ELSE b.pending
AnswerComes(b, s, key, box) ==
  /\ b.answered => s.answer /\ b.pending = <<>>
  /\ ~b.answered => b.added = <<>>
  /\ s.answer /\ ~b.answered => InList(box, Note(key, 0))
  /\ InList(box, Note(key, 0)) => s.answer
CandidatesCome(list, c, key, box) ==
  /\ Len(list) <= c /\ \A k \in 1 .. Len(list) : list[k] = k
  /\ \A k \in Nat \ {0} : InList(box, Note(key, k)) <=> k \in Len(list) + 1 .. c
  /\ Ascending(key, box)
InOrder(b, s, key, box) ==
  AnswerComes(b, s, key, box) /\ CandidatesCome(Taken(b), s.candidates, key, box)

Says == [answer : BOOLEAN, candidates : Nat]
Keys == Streams \X Nat

\* The next message is of another session, the answer, or a candidate.
LEMMA SkipsOthers ==
  ASSUME NEW b, NEW s \in Says, NEW key \in Keys, NEW box \in Seq(Messages), box # <<>>,
         InOrder(b, s, key, box), Head(box).session # key
  PROVE  InOrder(b, s, key, Tail(box))
<1>1. \A k : InList(box, Note(key, k)) <=> InList(Tail(box), Note(key, k))
  BY InTail DEF Note
<1>2. Ascending(key, box) => Ascending(key, Tail(box))
  BY InTail
<1> QED BY <1>1, <1>2 DEF InOrder, AnswerComes, CandidatesCome

LEMMA TakesAnswer ==
  ASSUME NEW b \in Bridges, NEW s \in Says, NEW key \in Keys, NEW box \in Seq(Messages), box # <<>>,
         InOrder(b, s, key, box), Head(box) = Note(key, 0)
  PROVE  InOrder(HandleAnswer(b), s, key, Tail(box))
<1> DEFINE a == HandleAnswer(b)
<1>1. a.answered /\ a.pending = <<>> /\ Taken(a) = Taken(b)
  <2>1. a.answered /\ a.pending = <<>> /\ a.added = b.added \o b.pending
    BY DEF HandleAnswer, Bridges
  <2>2. b.added \in Seq(Nat) /\ b.pending \in Seq(Nat)
    BY DEF Bridges
  <2>3. b.answered => b.added \o b.pending = b.added
    BY <2>2, ConcatEmptySeq DEF InOrder, AnswerComes
  <2>4. ~b.answered => b.added \o b.pending = b.pending
    BY <2>2, ConcatEmptySeq DEF InOrder, AnswerComes
  <2> QED BY <2>1, <2>3, <2>4 DEF Taken
<1>2. InList(box, Note(key, 0)) /\ s.answer
  BY InTail DEF InOrder, AnswerComes
<1>3. \A k \in Nat \ {0} : InList(box, Note(key, k)) <=> InList(Tail(box), Note(key, k))
  BY InTail DEF Note
<1>4. Ascending(key, Tail(box))
  BY InTail DEF InOrder, CandidatesCome
<1> HIDE DEF a
<1>5. AnswerComes(a, s, key, Tail(box))
  BY <1>1, <1>2 DEF AnswerComes
<1>6. CandidatesCome(Taken(a), s.candidates, key, Tail(box))
  BY <1>1, <1>3, <1>4 DEF InOrder, CandidatesCome
<1> QED BY <1>5, <1>6 DEF InOrder, a

LEMMA TakesCandidate ==
  ASSUME NEW b \in Bridges, NEW s \in Says, NEW key \in Keys, NEW box \in Seq(Messages), box # <<>>,
         NEW k \in Nat \ {0}, InOrder(b, s, key, box), Head(box) = Note(key, k)
  PROVE  InOrder(HandleCandidate(b, k), s, key, Tail(box))
<1> DEFINE a == HandleCandidate(b, k)
           list == Taken(b)
           L == Len(list)
           c == s.candidates
<1>1. list \in Seq(Nat) /\ L \in Nat /\ c \in Nat
  BY DEF Taken, Bridges, Says
<1>2. /\ a.answered = b.answered /\ Taken(a) = Append(list, k)
      /\ b.answered => a.pending = b.pending
      /\ ~b.answered => a.added = b.added
  BY DEF HandleCandidate, Bridges, Taken
<1>3. /\ L <= c /\ \A j \in 1 .. L : list[j] = j
      /\ \A j \in Nat \ {0} : InList(box, Note(key, j)) <=> j \in L + 1 .. c
      /\ Ascending(key, box)
  BY DEF InOrder, CandidatesCome
<1>4. InList(box, Note(key, k)) /\ k \in L + 1 .. c
  BY <1>3, InTail
<1>5. \A j \in Nat \ {0} : InList(Tail(box), Note(key, j)) => k < j
  BY <1>3, InTail DEF Note
<1>6. \A j \in Nat : InList(box, Note(key, j)) <=> j = k \/ InList(Tail(box), Note(key, j))
  BY InTail DEF Note
<1> HIDE DEF a, list, L, c
<1>7. k = L + 1
  <2>1. L + 1 \in Nat \ {0} /\ L + 1 \in L + 1 .. c
    BY <1>1, <1>4
  <2>2. InList(box, Note(key, L + 1))
    BY <1>3, <2>1
  <2>3. L + 1 = k \/ k < L + 1
    BY <1>5, <1>6, <2>1, <2>2
  <2> QED BY <1>1, <1>4, <2>3
<1>8. AnswerComes(a, s, key, Tail(box))
  <2>1. InList(box, Note(key, 0)) <=> InList(Tail(box), Note(key, 0))
    BY <1>6
  <2> QED BY <1>2, <2>1 DEF InOrder, AnswerComes
<1>9. CandidatesCome(Append(list, k), c, key, Tail(box))
  <2>1. /\ Len(Append(list, k)) = L + 1
        /\ \A j \in 1 .. L : Append(list, k)[j] = list[j]
        /\ Append(list, k)[L + 1] = k
    BY <1>1, AppendProperties DEF L
  <2> DEFINE more == Append(list, k)
  <2>2. Len(more) = L + 1 /\ L + 1 <= c
    BY <1>1, <1>4, <1>7, <2>1
  <2> HIDE DEF more
  <2>3. \A j \in 1 .. L + 1 : more[j] = j
    <3>1. \A j \in 1 .. L + 1 : j = L + 1 \/ j \in 1 .. L
      BY <1>1
    <3> QED BY <1>3, <1>7, <2>1, <3>1 DEF more
  <2>4. \A j \in Nat \ {0} : InList(Tail(box), Note(key, j)) <=> j \in L + 1 + 1 .. c
    BY <1>1, <1>3, <1>5, <1>6, <1>7
  <2>5. Ascending(key, Tail(box))
    BY <1>3, InTail
  <2>6. CandidatesCome(more, c, key, Tail(box))
    BY <2>2, <2>3, <2>4, <2>5 DEF CandidatesCome
  <2> QED BY <2>6 DEF more
<1> QED BY <1>2, <1>8, <1>9 DEF InOrder, a, c

\* Another message is published: of another session, the answer, or a candidate.
LEMMA OthersPublish ==
  ASSUME NEW b, NEW s \in Says, NEW key \in Keys, NEW box \in Seq(Messages), NEW m \in Messages,
         InOrder(b, s, key, box), m.session # key
  PROVE  InOrder(b, s, key, Append(box, m))
<1>1. \A k : InList(box, Note(key, k)) <=> InList(Append(box, m), Note(key, k))
  BY InAppend DEF Note
<1>2. Ascending(key, box) => Ascending(key, Append(box, m))
  BY InAppend
<1> QED BY <1>1, <1>2 DEF InOrder, AnswerComes, CandidatesCome

LEMMA PublishesAnswer ==
  ASSUME NEW b, NEW s \in Says, NEW key \in Keys, NEW box \in Seq(Messages), InOrder(b, s, key, box),
         NEW t \in Says, t.answer, t.candidates = s.candidates
  PROVE  InOrder(b, t, key, Append(box, Note(key, 0)))
<1>0. Note(key, 0) \in Messages /\ Note(key, 0).body = 0
  BY DEF Note, Messages, Keys
<1>1. \A k : InList(box, Note(key, k)) \/ k = 0 <=> InList(Append(box, Note(key, 0)), Note(key, k))
  BY <1>0, InAppend DEF Note
<1>2. Ascending(key, box) => Ascending(key, Append(box, Note(key, 0)))
  BY <1>0, InAppend
<1> QED BY <1>1, <1>2 DEF InOrder, AnswerComes, CandidatesCome

LEMMA PublishesCandidate ==
  ASSUME NEW b \in Bridges, NEW s \in Says, NEW key \in Keys, NEW box \in Seq(Messages), InOrder(b, s, key, box),
         NEW t \in Says, t.answer = s.answer, t.candidates = s.candidates + 1
  PROVE  InOrder(b, t, key, Append(box, Note(key, t.candidates)))
<1> DEFINE c == s.candidates
           new == Note(key, c + 1)
           L == Len(Taken(b))
<1>0. /\ c \in Nat /\ L \in Nat /\ new \in Messages /\ new.body = c + 1 /\ new.session = key
      /\ t.candidates = c + 1
  BY DEF Note, Messages, Keys, Says, Taken, Bridges
<1>1. \A k : InList(box, Note(key, k)) \/ k = c + 1 <=> InList(Append(box, new), Note(key, k))
  BY <1>0, InAppend DEF Note
<1>2. /\ L <= c /\ \A k \in Nat \ {0} : InList(box, Note(key, k)) <=> k \in L + 1 .. c
      /\ Ascending(key, box)
  BY DEF InOrder, CandidatesCome
<1>3. Ascending(key, Append(box, new))
  <2>1. \A k \in Nat \ {0} : InList(box, Note(key, k)) => k < new.body
    BY <1>0, <1>2
  <2> QED BY <1>0, <1>2, <2>1, InAppend
<1> HIDE DEF c, new, L
<1>4. L <= c + 1 /\ \A k \in Nat \ {0} : InList(Append(box, new), Note(key, k)) <=> k \in L + 1 .. c + 1
  BY <1>0, <1>1, <1>2
<1>5. AnswerComes(b, t, key, Append(box, new))
  <2>1. InList(box, Note(key, 0)) <=> InList(Append(box, new), Note(key, 0))
    BY <1>0, <1>1
  <2> QED BY <2>1 DEF InOrder, AnswerComes
<1> QED BY <1>0, <1>3, <1>4, <1>5 DEF InOrder, CandidatesCome, new, L

-----------------------------------------------------------------------------
Key(i) == <<i, session[i]>>

\* Nothing was said to a bridge that is not waiting yet, nor taken by it.
FreshAt(i) == /\ said[i] = Silent
              /\ ~bridge[i].answered /\ bridge[i].added = <<>> /\ bridge[i].pending = <<>>
Fresh == \A i \in Streams : pc[i] \notin Answering => FreshAt(i)

\* A client that a stream is given has subscribed, or will not.
Subscribed ==
  /\ \A i \in Streams : pc[i] \in Answering \cup {"ready"} => outcome[bridge[i].client] # "open"
  /\ \A d \in Cameras : table[d] # None => outcome[table[d]] # "open"

\* No message belongs to a session that is still to come.
Numbered == \A i \in Streams, k \in Nat, what \in Nat : InList(inbox, Note(<<i, k>>, what)) => k <= session[i]

Delivered == \A i \in Streams :
  Reached(i) => Key(i) \in routes /\ InOrder(bridge[i], said[i], Key(i), inbox)

MInv == Fresh /\ Subscribed /\ Numbered /\ Delivered

LEMMA NothingInEmpty == \A m : ~InList(<<>>, m)
  BY DEF InList

LEMMA InitMessages == Init => MInv
<1> SUFFICES ASSUME Init PROVE MInv
  OBVIOUS
<1>1. Fresh
  BY DEF Init, Fresh, FreshAt, NewBridge, Silent
<1>2. Subscribed /\ Delivered
  BY DEF Init, Subscribed, Delivered, Reached, Answering
<1>3. Numbered
  BY NothingInEmpty DEF Init, Numbered
<1> QED BY <1>1, <1>2, <1>3 DEF MInv

\* What the steps do to the other streams, and to the link.
Kept(j) == pc'[j] = pc[j] /\ bridge'[j] = bridge[j] /\ said'[j] = said[j] /\ session'[j] = session[j]
OthersKept(i) == \A j \in Streams \ {i} : Kept(j)
SameLink(i) == UNCHANGED <<live, heard, inbox>> /\ routes \ {Key(i)} \subseteq routes'
ConnectionGone == ~heard' /\ inbox' = <<>>

\* A stream leaves its bridge behind, or has not sent its offer yet.
LEMMA Restarts ==
  ASSUME Types, SessionTyped', MInv, NEW i \in Streams, OthersKept(i), UNCHANGED outcome,
         FreshAt(i)', pc'[i] \notin Answering, session[i] <= session'[i],
         pc'[i] = "ready" => outcome[bridge'[i].client] # "open",
         \A d \in Cameras : table'[d] # None => outcome[table'[d]] # "open",
         SameLink(i) \/ ConnectionGone
  PROVE  MInv'
<1>1. Fresh'
  BY DEF MInv, Fresh, FreshAt, OthersKept, Kept
<1>2. Subscribed'
  BY DEF MInv, Subscribed, OthersKept, Kept, Answering
<1>3. Numbered'
  <2> SUFFICES ASSUME NEW j \in Streams, NEW k \in Nat, NEW what \in Nat, InList(inbox', Note(<<j, k>>, what))
               PROVE  k <= session'[j]
    BY DEF Numbered, InList, Note
  <2>1. inbox' = inbox
    BY NothingInEmpty DEF SameLink, ConnectionGone
  <2>2. k <= session[j]
    BY <2>1 DEF MInv, Numbered
  <2>3. session[j] \in Nat /\ session'[j] \in Nat
    BY DEF Types, StreamTypes, SessionTyped
  <2>4. j = i \/ session'[j] = session[j]
    BY DEF OthersKept, Kept
  <2> QED BY <2>2, <2>3, <2>4
<1>4. Delivered'
  <2> SUFFICES ASSUME NEW j \in Streams, Reached(j)'
               PROVE  <<j, session'[j]>> \in routes' /\ InOrder(bridge'[j], said'[j], <<j, session'[j]>>, inbox')
    BY DEF Delivered, Key
  <2>1. SameLink(i) /\ j # i /\ Kept(j)
    BY DEF Reached, ConnectionGone, OthersKept
  <2>2. Reached(j) /\ <<j, session'[j]>> = Key(j) /\ Key(j) # Key(i)
    BY <2>1 DEF Reached, SameLink, Kept, Key
  <2>3. Key(j) \in routes /\ InOrder(bridge[j], said[j], Key(j), inbox)
    BY <2>2 DEF MInv, Delivered
  <2>4. bridge'[j] = bridge[j] /\ said'[j] = said[j] /\ inbox' = inbox /\ Key(j) \in routes'
    BY <2>1, <2>2, <2>3 DEF Kept, SameLink
  <2>5. <<j, session'[j]>> \in routes'
    BY <2>2, <2>4
  <2>6. InOrder(bridge'[j], said'[j], <<j, session'[j]>>, inbox')
    BY <2>2, <2>3, <2>4, Zenon
  <2> QED BY <2>5, <2>6
<1> QED BY <1>1, <1>2, <1>3, <1>4 DEF MInv

\* No stream moves, and nothing new reaches the client of one.
LEMMA NothingNew ==
  ASSUME MInv, \A j \in Streams : Kept(j), Subscribed',
         UNCHANGED link \/ ConnectionGone
  PROVE  MInv'
<1>1. Fresh'
  BY DEF MInv, Fresh, FreshAt, Kept
<1>2. Numbered'
  <2> SUFFICES ASSUME NEW j \in Streams, NEW k \in Nat, NEW what \in Nat, InList(inbox', Note(<<j, k>>, what))
               PROVE  k <= session'[j]
    BY DEF Numbered, InList, Note
  <2>1. inbox' = inbox
    BY NothingInEmpty DEF link, ConnectionGone
  <2> QED BY <2>1 DEF MInv, Numbered, Kept
<1>3. Delivered'
  <2> SUFFICES ASSUME NEW j \in Streams, Reached(j)'
               PROVE  <<j, session'[j]>> \in routes' /\ InOrder(bridge'[j], said'[j], <<j, session'[j]>>, inbox')
    BY DEF Delivered, Key
  <2>1. UNCHANGED link /\ Kept(j)
    BY DEF Reached, ConnectionGone
  <2>2. Reached(j) /\ <<j, session'[j]>> = Key(j)
    BY <2>1 DEF Reached, link, Kept, Key
  <2>3. Key(j) \in routes /\ InOrder(bridge[j], said[j], Key(j), inbox)
    BY <2>2 DEF MInv, Delivered
  <2>4. bridge'[j] = bridge[j] /\ said'[j] = said[j] /\ inbox' = inbox /\ Key(j) \in routes'
    BY <2>1, <2>2, <2>3 DEF Kept, link
  <2>5. <<j, session'[j]>> \in routes'
    BY <2>2, <2>4
  <2>6. InOrder(bridge'[j], said'[j], <<j, session'[j]>>, inbox')
    BY <2>2, <2>3, <2>4, Zenon
  <2> QED BY <2>5, <2>6
<1> QED BY <1>1, <1>2, <1>3 DEF MInv

\* A stream that leaves its bridge, and one whose start fails.
LEMMA LeavesFresh ==
  ASSUME Types, NEW i \in Streams, NEW to \in Places \ (Answering \cup {"ready"}), NEW k \in 0 .. 2, Leaves(i, to, k)
  PROVE  /\ FreshAt(i)' /\ pc'[i] \notin Answering /\ pc'[i] # "ready"
         /\ \A j \in Streams \ {i} : pc'[j] = pc[j] /\ bridge'[j] = bridge[j] /\ said'[j] = said[j]
<1>1. pc'[i] = to /\ bridge'[i] = NewBridge /\ said'[i] = Silent
  BY DEF Types, StreamTypes, Leaves, Goes
<1>2. \A j \in Streams \ {i} : pc'[j] = pc[j] /\ bridge'[j] = bridge[j] /\ said'[j] = said[j]
  BY DEF Types, StreamTypes, Leaves, Goes
<1> QED BY <1>1, <1>2 DEF FreshAt, NewBridge

LEMMA StartFailsFresh ==
  ASSUME Types, NEW i \in Streams, AttemptOver(i) \/ GetFails(i) \/ TryFails(i)
  PROVE  /\ FreshAt(i)' /\ pc'[i] \notin Answering /\ pc'[i] # "ready"
         /\ \A j \in Streams \ {i} : pc'[j] = pc[j] /\ bridge'[j] = bridge[j] /\ said'[j] = said[j]
<1>1. attempt[i] \in 0 .. 2
  BY DEF Types, StreamTypes
<1>2. \E to \in {"asking", "off", "alone", "dialing"}, k \in 0 .. 2 : Leaves(i, to, k)
  BY <1>1 DEF AttemptOver, GetFails, TryFails
<1> QED BY <1>2, LeavesFresh DEF Places, Answering

LEMMA MessagesStep == ASSUME IInv, MInv, [Next]_vars PROVE MInv'
<1>0. /\ Types /\ Types' /\ SessionTyped' /\ SessionTyped
      /\ \A i \in Streams : session[i] \in Nat
      /\ \A j \in Streams : pc[j] \notin Answering => FreshAt(j)
      /\ \A j \in Streams : pc[j] \in Answering \cup {"ready"} => outcome[bridge[j].client] # "open"
      /\ \A d \in Cameras : table[d] # None => outcome[table[d]] # "open"
  BY TypesStep DEF IInv, Types, StreamTypes, SessionTyped, MInv, Fresh, Subscribed
<1>1. ASSUME NEW i \in Streams, Begin(i) \/ Reuse(i) \/ Connect(i) PROVE MInv'
  <2>1. /\ OthersKept(i) /\ FreshAt(i)' /\ pc'[i] \notin Answering /\ session' = session /\ UNCHANGED <<outcome, table>>
        /\ UNCHANGED link
    <3> USE <1>0 DEF Goes, OthersKept, Kept, FreshAt, Answering, Types, StreamTypes, clients
    <3>1. CASE Begin(i)
      BY <3>1 DEF Begin, manager
    <3>2. CASE Reuse(i)
      BY <3>2 DEF Reuse, Given, manager, Bridges
    <3>3. CASE Connect(i)
      BY <3>3 DEF Connect
    <3> QED BY <1>1, <3>1, <3>2, <3>3
  <2>2. pc'[i] = "ready" => outcome[bridge'[i].client] # "open"
    <3>1. pc'[i] = "ready" => Reuse(i)
      BY <1>1 DEF Begin, Connect, Goes, Types, StreamTypes, IInv
    <3>2. Reuse(i) => bridge'[i].client = table[device[i]] /\ table[device[i]] # None /\ device[i] \in Cameras
      BY <1>0 DEF Reuse, Given, IsConnected, Types, StreamTypes, ManagerTypes, Bridges
    <3> QED BY <1>0, <3>1, <3>2
  <2>3. SameLink(i)
    BY <2>1 DEF SameLink, link
  <2> QED BY <1>0, <2>1, <2>2, <2>3, Restarts
<1>2. ASSUME NEW i \in Streams, UserInfoFails(i) \/ DialFails(i) PROVE MInv'
  <2>1. AttemptOver(i) \/ GetFails(i) \/ TryFails(i)
    BY <1>2 DEF UserInfoFails, DialFails
  <2>2. UNCHANGED <<table, clients, link, session>>
    BY <1>2 DEF UserInfoFails, DialFails
  <2>3. FreshAt(i)' /\ pc'[i] \notin Answering /\ pc'[i] # "ready" /\ OthersKept(i)
    BY <1>0, <2>1, <2>2, StartFailsFresh DEF OthersKept, Kept
  <2>4. SameLink(i) /\ UNCHANGED outcome
    BY <2>2 DEF SameLink, link, clients
  <2> QED BY <1>0, <2>2, <2>3, <2>4, Restarts
<1>3. ASSUME NEW i \in Streams, Dial(i) PROVE MInv'
  <2> USE <1>0, <1>3 DEF Dial
  <2>1. OthersKept(i) /\ FreshAt(i)' /\ pc'[i] = "joining" /\ session' = session /\ UNCHANGED <<outcome, table>>
    BY DEF Given, Goes, OthersKept, Kept, FreshAt, Answering, Types, StreamTypes, Bridges, manager
  <2>2. ConnectionGone
    BY DEF LiveIs, ConnectionGone
  <2> QED BY <2>1, <2>2, Restarts DEF Answering
<1>4. ASSUME NEW i \in Streams, Joined(i) PROVE MInv'
  <2> USE <1>0, <1>4 DEF Joined
  <2>1. OthersKept(i) /\ FreshAt(i)' /\ pc'[i] = "ready" /\ UNCHANGED <<session, bridge, outcome>>
    BY DEF Goes, OthersKept, Kept, FreshAt, Answering, Types, StreamTypes, clients
  <2>2. outcome[bridge'[i].client] # "open"
    BY <2>1
  <2>3. \A d \in Cameras : table'[d] # None => outcome[table'[d]] # "open"
    BY DEF manager, Types, ManagerTypes
  <2>4. SameLink(i)
    BY DEF SameLink, link
  <2> QED BY <2>1, <2>2, <2>3, <2>4, Restarts DEF Answering
<1>5. ASSUME NEW i \in Streams, JoinFails(i) PROVE MInv'
  <2> USE <1>0, <1>5 DEF JoinFails
  <2>1. AttemptOver(i) \/ TryFails(i)
    OBVIOUS
  <2>2. UNCHANGED <<table, outcome, session>>
    OBVIOUS
  <2>3. UNCHANGED link \/ ConnectionGone
    BY DEF GivesUpOn, StopClient, LiveIs, ConnectionGone
  <2>4. FreshAt(i)' /\ pc'[i] \notin Answering /\ pc'[i] # "ready" /\ OthersKept(i)
    BY <2>1, <2>2, StartFailsFresh DEF OthersKept, Kept
  <2>5. SameLink(i) \/ ConnectionGone
    BY <2>3 DEF SameLink, link
  <2> QED BY <2>2, <2>4, <2>5, Restarts
<1>6. ASSUME NEW i \in Streams, StopBridge(i) PROVE MInv'
  <2> USE <1>0, <1>6 DEF StopBridge
  <2>1. Leaves(i, "off", 0) /\ UNCHANGED <<table, outcome, session>>
    BY DEF manager
  <2>2. SameLink(i) \/ ConnectionGone
    BY DEF Deregisters, StopClient, LiveIs, ConnectionGone, SameLink, link, Key
  <2>3. FreshAt(i)' /\ pc'[i] \notin Answering /\ pc'[i] # "ready" /\ OthersKept(i)
    BY <2>1, LeavesFresh DEF OthersKept, Kept, Places, Answering
  <2> QED BY <2>1, <2>2, <2>3, Restarts
<1>7. ASSUME NEW i \in Streams, SendOffer(i) PROVE MInv'
  <2> USE <1>0, <1>7 DEF SendOffer
  <2>1. /\ UNCHANGED <<table, outcome, live, heard, inbox>> /\ session' = [session EXCEPT ![i] = @ + 1]
        /\ session'[i] = session[i] + 1 /\ pc[i] = "ready" /\ SameLink(i)
    BY DEF manager, clients, Registers, SameLink, SessionTyped
  <2>2. CASE AttemptOver(i)
    <3>1. FreshAt(i)' /\ pc'[i] \notin Answering /\ pc'[i] # "ready" /\ OthersKept(i)
      BY <2>1, <2>2, StartFailsFresh DEF OthersKept, Kept, SessionTyped
    <3> QED BY <2>1, <3>1, Restarts
  <2>3. CASE ~AttemptOver(i)
    <3>1. Goes(i, "waiting") /\ UNCHANGED <<bridge, said>> /\ live = bridge[i].client
      BY <2>3
    <3>2. OthersKept(i) /\ pc'[i] = "waiting"
      BY <2>1, <3>1 DEF Goes, OthersKept, Kept, Types, StreamTypes, SessionTyped
    <3>3. Fresh' /\ Subscribed'
      BY <2>1, <3>1, <3>2 DEF Fresh, Subscribed, FreshAt, OthersKept, Kept, Answering
    <3>4. Numbered'
      <4> SUFFICES ASSUME NEW j \in Streams, NEW k \in Nat, NEW what \in Nat, InList(inbox, Note(<<j, k>>, what))
                   PROVE  k <= session'[j]
        BY <2>1 DEF Numbered, InList, Note
      <4>1. k <= session[j] /\ session[j] \in Nat /\ session'[j] \in Nat
        BY DEF MInv, Numbered, SessionTyped
      <4>2. session'[j] = session[j] \/ session'[j] = session[j] + 1
        BY <2>1, <3>2 DEF OthersKept, Kept
      <4> QED BY <4>1, <4>2
    <3>5. Delivered'
      <4> SUFFICES ASSUME NEW j \in Streams, Reached(j)'
                   PROVE  <<j, session'[j]>> \in routes' /\ InOrder(bridge[j], said[j], <<j, session'[j]>>, inbox)
        BY <2>1, <3>1 DEF Delivered, Key
      <4>1. CASE j # i
        <5>1. Reached(j) /\ session'[j] = session[j] /\ <<j, session[j]>> # <<i, session[i]>>
          <6>1. Kept(j) /\ bridge' = bridge /\ live' = live /\ heard' = heard
            BY <2>1, <3>1, <3>2, <4>1 DEF OthersKept
          <6> QED BY <4>1, <6>1 DEF Reached, Kept
        <5>2. <<j, session[j]>> \in routes /\ InOrder(bridge[j], said[j], <<j, session[j]>>, inbox)
          BY <5>1 DEF MInv, Delivered, Key
        <5>3. <<j, session[j]>> \in routes'
          BY <2>1, <5>1, <5>2 DEF SameLink, Key
        <5> QED BY <5>1, <5>2, <5>3
      <4>2. CASE j = i
        <5> DEFINE key == <<i, session'[i]>>
        <5>1. key \in routes'
          BY <3>1 DEF Registers
        <5>2. \A k \in Nat : ~InList(inbox, Note(key, k))
          <6>1. session'[i] \in Nat /\ ~(session'[i] <= session[i])
            BY <2>1
          <6> QED BY <6>1 DEF MInv, Numbered
        <5>3. Ascending(key, inbox)
          <6>1. \A n \in DOMAIN inbox : inbox[n].session # key
            <7> SUFFICES ASSUME NEW n \in DOMAIN inbox, inbox[n].session = key PROVE FALSE
              OBVIOUS
            <7>1. inbox[n] \in Messages
              BY DEF Types, LinkTypes
            <7>2. inbox[n] = Note(key, inbox[n].body) /\ inbox[n].body \in Nat
              BY <7>1 DEF Messages, Note
            <7> QED BY <5>2, <7>2 DEF InList
          <6> QED BY <6>1 DEF Ascending
        <5>4. FreshAt(i)
          BY <2>1 DEF Answering
        <5> HIDE DEF key
        <5>5. AnswerComes(bridge[i], said[i], key, inbox)
          BY <5>2, <5>4 DEF AnswerComes, FreshAt, Silent
        <5>6. CandidatesCome(Taken(bridge[i]), said[i].candidates, key, inbox)
          <6>1. Taken(bridge[i]) = <<>> /\ said[i].candidates = 0
            BY <5>4 DEF Taken, FreshAt, Silent
          <6>2. Len(<<>>) = 0
            OBVIOUS
          <6> QED BY <5>2, <5>3, <6>1, <6>2 DEF CandidatesCome
        <5> QED BY <4>2, <5>1, <5>5, <5>6 DEF InOrder, key
      <4> QED BY <4>1, <4>2
    <3> QED BY <3>3, <3>4, <3>5 DEF MInv
  <2> QED BY <2>2, <2>3
<1>8. ASSUME NEW i \in Streams, pc[i] = "waiting", Goes(i, "shown"), UNCHANGED <<outcome, table, link, session, bridge, said>>
      PROVE  MInv'
  <2> USE <1>0, <1>8 DEF link
  <2>1. \A j \in Streams : pc'[j] = pc[j] \/ (j = i /\ pc[j] = "waiting" /\ pc'[j] = "shown")
    <3>1. pc \in [Streams -> Places] /\ pc' = [pc EXCEPT ![i] = "shown"]
      BY DEF Goes, Types, StreamTypes
    <3>2. \A j \in Streams : pc'[j] = IF j = i THEN "shown" ELSE pc[j]
      BY <3>1
    <3> QED BY <3>2, <1>8
  <2>2. \A j \in Streams : pc'[j] \in Answering <=> pc[j] \in Answering
    BY <2>1 DEF Answering
  <2>3. Fresh' /\ Subscribed'
    BY <2>1, <2>2 DEF Fresh, Subscribed, FreshAt, Answering
  <2>4. Numbered'
    BY DEF MInv, Numbered, InList, Note
  <2>5. Delivered'
    <3> SUFFICES ASSUME NEW j \in Streams, Reached(j)'
                 PROVE  <<j, session[j]>> \in routes /\ InOrder(bridge[j], said[j], <<j, session[j]>>, inbox)
      BY DEF Delivered, Key
    <3>1. Reached(j)
      BY <2>2 DEF Reached
    <3> QED BY <3>1 DEF MInv, Delivered, Key
  <2> QED BY <2>3, <2>4, <2>5 DEF MInv
<1>9. ASSUME NEW i \in Streams, StartFails(i) \/ Established(i) PROVE MInv'
  <2>1. UNCHANGED <<outcome, table, link, session>>
    BY <1>9 DEF StartFails, Established, clients, manager
  <2>2. CASE AttemptOver(i) \/ Leaves(i, "off", 0)
    <3>1. FreshAt(i)' /\ pc'[i] \notin Answering /\ pc'[i] # "ready" /\ OthersKept(i)
      <4>1. CASE AttemptOver(i)
        BY <1>0, <2>1, <4>1, StartFailsFresh DEF OthersKept, Kept
      <4>2. CASE Leaves(i, "off", 0)
        BY <1>0, <2>1, <4>2, LeavesFresh DEF OthersKept, Kept, Places, Answering
      <4> QED BY <2>2, <4>1, <4>2
    <3>2. SameLink(i)
      BY <2>1 DEF SameLink, link
    <3> QED BY <1>0, <2>1, <3>1, <3>2, Restarts
  <2>3. CASE ~(AttemptOver(i) \/ Leaves(i, "off", 0))
    <3>1. pc[i] = "waiting" /\ Goes(i, "shown") /\ UNCHANGED <<bridge, said>>
      BY <1>9, <2>3 DEF StartFails, Established
    <3> QED BY <1>8, <2>1, <3>1
  <2> QED BY <2>2, <2>3
<1>10. ASSUME NEW i \in Streams, NEW t \in Says, NEW what \in Nat,
              pc[i] = "waiting", said' = [said EXCEPT ![i] = t], Publish(i, what),
              UNCHANGED <<outcome, table, live, heard, routes, pc, session, bridge>>,
              \A box \in Seq(Messages) :
                InOrder(bridge[i], said[i], Key(i), box) => InOrder(bridge[i], t, Key(i), Append(box, Note(Key(i), what)))
       PROVE  MInv'
  <2> USE <1>0, <1>10
  <2> DEFINE new == Note(Key(i), what)
  <2>1. /\ inbox \in Seq(Messages) /\ new \in Messages /\ new.session = Key(i)
        /\ \A j \in Streams : said'[j] = IF j = i THEN t ELSE said[j]
        /\ \A j \in Streams : said[j] \in Says /\ bridge[j] \in Bridges /\ Key(j) \in Keys
    BY DEF Types, LinkTypes, StreamTypes, SessionTyped, Says, Note, Key, Keys, Messages
  <2>2. inbox' = inbox \/ inbox' = Append(inbox, new)
    BY DEF Publish, Note, Key
  <2>3. Fresh' /\ Subscribed'
    BY <2>1 DEF Fresh, Subscribed, FreshAt, Answering
  <2>4. Numbered'
    <3> SUFFICES ASSUME NEW j \in Streams, NEW k \in Nat, NEW w \in Nat, InList(inbox', Note(<<j, k>>, w))
                 PROVE  k <= session[j]
      BY DEF Numbered, InList, Note
    <3>1. InList(inbox, Note(<<j, k>>, w)) \/ Note(<<j, k>>, w) = new
      BY <2>1, <2>2, InAppend
    <3>2. CASE Note(<<j, k>>, w) = new
      <4>1. <<j, k>> = <<i, session[i]>>
        BY <3>2 DEF Note, Key
      <4> QED BY <4>1
    <3> QED BY <3>1, <3>2 DEF MInv, Numbered
  <2>5. Delivered'
    <3> SUFFICES ASSUME NEW j \in Streams, Reached(j)'
                 PROVE  Key(j) \in routes /\ InOrder(bridge[j], said'[j], Key(j), inbox')
      BY DEF Delivered, Key
    <3>1. Reached(j)
      BY DEF Reached
    <3>2. Key(j) \in routes /\ InOrder(bridge[j], said[j], Key(j), inbox)
      BY <3>1 DEF MInv, Delivered
    <3>3. inbox' = Append(inbox, new)
      BY <3>1, Numbers DEF Publish, Reached, Types, LinkTypes, Note, Key
    <3>4. CASE j = i
      BY <2>1, <3>2, <3>3, <3>4
    <3>5. CASE j # i
      <4>1. new.session # Key(j)
        BY <2>1, <3>5 DEF Key
      <4> HIDE DEF new
      <4> QED BY <2>1, <3>2, <3>3, <3>5, <4>1, OthersPublish
    <3> QED BY <3>4, <3>5
  <2> QED BY <2>3, <2>4, <2>5 DEF MInv
<1>11. ASSUME NEW i \in Streams, CameraAnswers(i) PROVE MInv'
  <2> DEFINE t == [said[i] EXCEPT !.answer = TRUE]
  <2>1. /\ said[i] \in Says /\ t \in Says /\ t.answer /\ t.candidates = said[i].candidates
        /\ bridge[i] \in Bridges /\ Key(i) \in Keys
    BY <1>0 DEF Types, StreamTypes, SessionTyped, Says, Key, Keys
  <2>2. said' = [said EXCEPT ![i] = t]
    BY <1>11 DEF CameraAnswers
  <2> HIDE DEF t
  <2>3. \A box \in Seq(Messages) :
          InOrder(bridge[i], said[i], Key(i), box) => InOrder(bridge[i], t, Key(i), Append(box, Note(Key(i), 0)))
    BY <2>1, PublishesAnswer
  <2>4. pc[i] = "waiting" /\ Publish(i, 0) /\ UNCHANGED <<outcome, table, live, heard, routes, pc, session, bridge>>
    BY <1>11 DEF CameraAnswers, clients, manager
  <2> QED BY <1>10, <2>1, <2>2, <2>3, <2>4
<1>12. ASSUME NEW i \in Streams, CameraFindsCandidate(i) PROVE MInv'
  <2> DEFINE t == [said[i] EXCEPT !.candidates = @ + 1]
  <2>1. /\ said[i] \in Says /\ t \in Says /\ t.answer = said[i].answer /\ t.candidates = said[i].candidates + 1
        /\ t.candidates \in Nat /\ bridge[i] \in Bridges /\ Key(i) \in Keys
    BY <1>0 DEF Types, StreamTypes, SessionTyped, Says, Key, Keys
  <2>2. said' = [said EXCEPT ![i] = t] /\ said'[i] = t
    BY <1>0, <1>12 DEF CameraFindsCandidate, Types, StreamTypes
  <2> HIDE DEF t
  <2>3. \A box \in Seq(Messages) :
          InOrder(bridge[i], said[i], Key(i), box) => InOrder(bridge[i], t, Key(i), Append(box, Note(Key(i), t.candidates)))
    BY <2>1, PublishesCandidate
  <2>4. /\ pc[i] = "waiting" /\ Publish(i, t.candidates)
        /\ UNCHANGED <<outcome, table, live, heard, routes, pc, session, bridge>>
    BY <1>12, <2>2 DEF CameraFindsCandidate, clients, manager
  <2> QED BY <1>10, <2>1, <2>2, <2>3, <2>4
<1>13. ASSUME NEW n \in Clients, Subscribes(n) PROVE MInv'
  <2> USE <1>0, <1>13 DEF Subscribes
  <2>1. /\ UNCHANGED <<table, live, routes, inbox, pc, session, bridge, said>> /\ outcome[n] = "open"
        /\ \A m \in Clients \ {n} : outcome'[m] = outcome[m]
        /\ outcome'[n] # "open"
    BY DEF manager, bridges, Finished, Types, ManagerTypes
  <2>2. \A m \in Clients : outcome[m] # "open" => outcome'[m] # "open"
    BY <2>1
  <2>3. Subscribed'
    <3>1. \A j \in Streams : pc[j] \in Answering \cup {"ready"} => bridge[j].client \in Clients
      BY Numbers DEF IInv, Types, ManagerTypes, Ownership, Owned, Owning, Answering, Clients
    <3>2. \A d \in Cameras : table[d] # None => table[d] \in Clients
      BY DEF Types, ManagerTypes
    <3> QED BY <2>1, <2>2, <3>1, <3>2 DEF Subscribed
  <2>4. Fresh' /\ Numbered'
    BY <2>1 DEF MInv, Fresh, FreshAt, Numbered, InList, Note
  <2>5. Delivered'
    <3> SUFFICES ASSUME NEW j \in Streams, Reached(j)'
                 PROVE  Key(j) \in routes /\ InOrder(bridge[j], said[j], Key(j), inbox)
      BY <2>1 DEF Delivered, Key
    <3>1. Reached(j)
      BY <2>1 DEF Reached
    <3> QED BY <3>1 DEF MInv, Delivered
  <2> QED BY <2>3, <2>4, <2>5 DEF MInv
<1>14. ASSUME NEW n \in Clients, OnDisconnect(n) PROVE MInv'
  <2> USE <1>0, <1>14 DEF OnDisconnect
  <2>1. UNCHANGED <<manager, link, bridges>> /\ \A m \in Clients : outcome[m] # "open" => outcome'[m] # "open"
    BY DEF Finished, Types, ManagerTypes
  <2>2. Subscribed'
    <3>1. \A j \in Streams : pc[j] \in Answering \cup {"ready"} => bridge[j].client \in Clients
      BY Numbers DEF IInv, Types, ManagerTypes, Ownership, Owned, Owning, Answering, Clients
    <3>2. \A d \in Cameras : table[d] # None => table[d] \in Clients
      BY DEF Types, ManagerTypes
    <3> QED BY <2>1, <3>1, <3>2 DEF Subscribed, manager, bridges
  <2> QED BY <2>1, <2>2, NothingNew DEF Kept, bridges
<1>15. CASE ManagerStops
  <2>1. Subscribed' /\ \A j \in Streams : Kept(j)
    BY <1>0, <1>15 DEF ManagerStops, Subscribed, Kept, bridges
  <2>2. UNCHANGED link \/ ConnectionGone
    BY <1>15 DEF ManagerStops, LiveIs, ConnectionGone
  <2> QED BY <2>1, <2>2, NothingNew
<1>16. CASE NetworkCuts
  <2>1. Subscribed' /\ (\A j \in Streams : Kept(j)) /\ ConnectionGone
    BY <1>0, <1>16 DEF NetworkCuts, LiveIs, ConnectionGone, Subscribed, Kept, bridges, clients, manager
  <2> QED BY <2>1, NothingNew
<1>17. CASE Consume
  <2> DEFINE m == Head(inbox)
             k == m.session[1]
             mine == m.session \in routes /\ m.session[2] = session[k] /\ pc[k] \in Answering
  <2>1. /\ inbox \in Seq(Messages) /\ inbox # <<>> /\ inbox' = Tail(inbox)
        /\ m \in Messages /\ k \in Streams /\ m.body \in Nat /\ m = Note(m.session, m.body)
        /\ m.session = <<k, m.session[2]>>
        /\ \A j \in Streams : said[j] \in Says /\ bridge[j] \in Bridges /\ Key(j) \in Keys
    <3>1. inbox \in Seq(Messages) /\ inbox # <<>> /\ inbox' = Tail(inbox)
      BY <1>0, <1>17 DEF Consume, Types, LinkTypes
    <3>2. m \in Messages
      BY <3>1, HeadAndTail
    <3>3. PICK i \in Streams, l \in Nat : m.session = <<i, l>>
      BY <3>2 DEF Messages
    <3>4. k = i /\ m.session[2] = l /\ m.session = <<k, m.session[2]>>
      BY <3>3
    <3>5. m.body \in Nat /\ m = Note(m.session, m.body)
      BY <3>2 DEF Messages, Note
    <3>6. \A j \in Streams : said[j] \in Says /\ bridge[j] \in Bridges /\ Key(j) \in Keys
      BY <1>0 DEF Types, StreamTypes, Says, Key, Keys
    <3> QED BY <3>1, <3>2, <3>3, <3>4, <3>5, <3>6
  <2>2. UNCHANGED <<outcome, table, live, heard, routes, pc, session, said>>
    BY <1>17 DEF Consume, clients, manager
  <2>3. bridge' = IF mine THEN [bridge EXCEPT ![k] = IF m.body = 0 THEN HandleAnswer(@) ELSE HandleCandidate(@, m.body)]
                          ELSE bridge
    BY <1>17 DEF Consume, Answering
  <2> HIDE DEF m, mine, k
  <2>4. /\ \A j \in Streams : bridge'[j] # bridge[j] => j = k /\ mine
        /\ mine => bridge'[k] = IF m.body = 0 THEN HandleAnswer(bridge[k]) ELSE HandleCandidate(bridge[k], m.body)
        /\ mine => m.session = Key(k) /\ pc[k] \in Answering
    BY <1>0, <2>1, <2>3 DEF Types, StreamTypes, mine, Key, k
  <2>5. \A j \in Streams : bridge'[j].client = bridge[j].client
    BY <2>1, <2>4 DEF HandleAnswer, HandleCandidate, Bridges
  <2>6. Fresh' /\ Subscribed'
    BY <1>0, <2>2, <2>4, <2>5 DEF Fresh, Subscribed, FreshAt
  <2>7. Numbered'
    <3>1. \A w : InList(inbox', w) => InList(inbox, w)
      BY <2>1, InTail
    <3> QED BY <2>2, <3>1 DEF MInv, Numbered, Note
  <2>8. Delivered'
    <3> SUFFICES ASSUME NEW j \in Streams, Reached(j)'
                 PROVE  Key(j) \in routes /\ InOrder(bridge'[j], said[j], Key(j), inbox')
      BY <2>2 DEF Delivered, Key
    <3>1. Reached(j)
      BY <2>2, <2>5 DEF Reached
    <3>2. Key(j) \in routes /\ InOrder(bridge[j], said[j], Key(j), inbox)
      BY <3>1 DEF MInv, Delivered
    <3>3. CASE m.session # Key(j)
      <4>1. bridge'[j] = bridge[j]
        BY <2>4, <3>3
      <4> QED BY <2>1, <3>2, <3>3, <4>1, SkipsOthers DEF m
    <3>4. CASE m.session = Key(j)
      <4>1. j = k /\ mine
        <5>1. <<k, m.session[2]>> = <<j, session[j]>>
          BY <2>1, <3>4 DEF Key
        <5>2. k = j /\ m.session[2] = session[j]
          BY <5>1
        <5> QED BY <3>1, <3>2, <3>4, <5>2 DEF mine, Reached
      <4>2. CASE m.body = 0
        <5>1. bridge'[j] = HandleAnswer(bridge[j]) /\ Head(inbox) = Note(Key(j), 0)
          BY <2>1, <2>4, <3>4, <4>1, <4>2 DEF m
        <5> QED BY <2>1, <3>2, <5>1, TakesAnswer
      <4>3. CASE m.body # 0
        <5>1. bridge'[j] = HandleCandidate(bridge[j], m.body) /\ Head(inbox) = Note(Key(j), m.body)
              /\ m.body \in Nat \ {0}
          BY <2>1, <2>4, <3>4, <4>1, <4>3 DEF m
        <5> QED BY <2>1, <3>2, <5>1, TakesCandidate
      <4> QED BY <4>2, <4>3
    <3> QED BY <3>3, <3>4
  <2> QED BY <2>6, <2>7, <2>8 DEF MInv
<1>18. CASE UNCHANGED vars
  <2>1. Subscribed' /\ (\A j \in Streams : Kept(j)) /\ UNCHANGED link
    BY <1>0, <1>18 DEF vars, link, Subscribed, Kept, bridges, clients, manager
  <2> QED BY <2>1, NothingNew
<1> QED BY <1>1, <1>2, <1>3, <1>4, <1>5, <1>6, <1>7, <1>9, <1>11, <1>12, <1>13, <1>14, <1>15, <1>16, <1>17, <1>18
        DEF Next

(* However many streams, clients, sessions and candidates there are, and   *)
(* whichever connections are lost, no answer and no candidate that comes   *)
(* over the connection that carried the offer is lost, repeated or applied *)
(* out of order, before the answer or after it: the safety core of         *)
(* OfferSettled (mqtt.go, consume; bridge.go, handleAnswer and             *)
(* handleCandidate).                                                       *)
THEOREM MessagesGetThrough == Spec => []OffersGetThrough
<1>1. IInv /\ MInv /\ [Next]_vars => MInv'
  BY MessagesStep
<1>2. IInv /\ MInv => OffersGetThrough
  <2> SUFFICES ASSUME IInv, MInv, NEW i \in Streams, Reached(i), inbox = <<>>
               PROVE  /\ bridge[i].answered = said[i].answer
                      /\ bridge[i].answered => bridge[i].added = [k \in 1 .. said[i].candidates |-> k]
    BY DEF OffersGetThrough
  <2> DEFINE list == bridge[i].added
             c == said[i].candidates
  <2>1. /\ bridge[i].answered \in BOOLEAN /\ said[i].answer \in BOOLEAN /\ list \in Seq(Nat) /\ c \in Nat
    BY DEF IInv, Types, StreamTypes, Bridges
  <2>2. InOrder(bridge[i], said[i], Key(i), inbox)
    BY DEF MInv, Delivered
  <2>3. bridge[i].answered = said[i].answer
    BY <2>1, <2>2, NothingInEmpty DEF InOrder, AnswerComes
  <2>4. ASSUME bridge[i].answered PROVE list = [k \in 1 .. c |-> k]
    <3> DEFINE L == Len(list)
    <3>0. Taken(bridge[i]) = list
      BY <2>4 DEF Taken
    <3>1. L <= c /\ L \in Nat /\ list = [k \in 1 .. L |-> list[k]] /\ \A k \in 1 .. L : list[k] = k
      <4>1. L <= c /\ \A k \in 1 .. L : list[k] = k
        BY <2>2, <3>0 DEF InOrder, CandidatesCome
      <4> HIDE DEF list, c
      <4>2. L \in Nat /\ list = [k \in 1 .. L |-> list[k]]
        BY <2>1
      <4> QED BY <4>1, <4>2
    <3>2. \A k \in Nat \ {0} : k \notin L + 1 .. c
      BY <2>2, <2>4, NothingInEmpty DEF InOrder, CandidatesCome, Taken
    <3> HIDE DEF list, c, L
    <3>3. L = c
      <4>1. c # 0 => c \notin L + 1 .. c
        BY <2>1, <3>2
      <4> QED BY <2>1, <3>1, <4>1
    <3> QED BY <3>1, <3>3
  <2> QED BY <2>3, <2>4
<1> QED BY InitMessages, Invariant, <1>1, <1>2, PTL DEF Spec

-----------------------------------------------------------------------------
(* BridgeHandshake.                                                        *)

Requests == {"codec", "start", "complete"}
Replies  == {"codec", "recv", "media", "unreadable"}

\* The types, without those of the messages.
Scalars ==
  /\ <<resolution, isHEVC>> \in Kinds /\ isHEVC \in BOOLEAN
  /\ peer \in {"connecting", "connected", "disconnected", "failed", "closed"}
  /\ channel \in {"none", "opening", "open", "ended"} /\ (channel = "none" <=> ~isHEVC)
  /\ calls \subseteq {"connected", "failed", "closed", "open", "ended", "hangup"}
  /\ lost \in 0 .. MaxLost
  /\ waiter \in {"open", "ok", "err"} /\ start \in {"waiting", "up", "failed", "stopped"}
  /\ streaming \in BOOLEAN /\ ssrc \in BOOLEAN /\ handled \in BOOLEAN /\ failing \in BOOLEAN
  /\ failing => waiter # "open"

\* Until the camera streams one message of the exchange is under way, the
\* opening of the channel and its callback included; complete comes after recv,
\* and once the camera streams nothing but media is left.
Exchange ==
  /\ toCamera \in Seq(Requests) /\ toBridge \in Seq(Replies)
  /\ channel \in {"none", "opening"} \/ "open" \in calls => toCamera = <<>> /\ toBridge = <<>>
  /\ channel = "opening" => "open" \notin calls
  /\ toCamera = <<"complete">> => ssrc
  /\ IF streaming
       THEN /\ ssrc /\ toCamera = <<>> /\ "open" \notin calls /\ channel # "opening"
            /\ \A k \in 1 .. Len(toBridge) : toBridge[k] = "media"
       ELSE /\ Len(toCamera) + Len(toBridge) <= 1
            /\ \A k \in 1 .. Len(toBridge) : toBridge[k] # "media"

\* Nothing succeeds before the connection is made.
Connected ==
  channel = "open" \/ "connected" \in calls \/ waiter = "ok" => peer # "connecting"

\* An HEVC stream is settled by recv, which tells the numbers of the media.
Ready == waiter = "ok" /\ isHEVC => ssrc

HInv == Scalars /\ Exchange /\ Connected /\ Ready

LEMMA HInit == ASSUME HandshakeInit PROVE HInv
<1> USE HandshakeAssumption DEF HandshakeInit
<1>1. PICK k \in Kinds : resolution = k[1] /\ isHEVC = k[2]
  OBVIOUS
<1>2. <<resolution, isHEVC>> = k /\ isHEVC \in BOOLEAN
  BY <1>1
<1>3. <<resolution, isHEVC>> \in Kinds
  BY <1>2
<1>4. Scalars
  <2>1. <<resolution, isHEVC>> \in Kinds /\ isHEVC \in BOOLEAN
    BY <1>2, <1>3
  <2>2. channel \in {"none", "opening", "open", "ended"} /\ (channel = "none" <=> ~isHEVC)
    BY <2>1
  <2>3. lost \in 0 .. MaxLost
    <3>1. MaxLost \in Nat
      OBVIOUS
    <3> QED BY <3>1
  <2>4. /\ waiter \in {"open", "ok", "err"} /\ start \in {"waiting", "up", "failed", "stopped"}
        /\ peer \in {"connecting", "connected", "disconnected", "failed", "closed"} /\ calls = {}
    OBVIOUS
  <2>5. /\ streaming \in BOOLEAN /\ ssrc \in BOOLEAN /\ handled \in BOOLEAN /\ failing \in BOOLEAN
        /\ failing => waiter # "open"
    OBVIOUS
  <2>6. QED BY <2>1, <2>2, <2>3, <2>4, <2>5, Zenon DEF Scalars
<1>5. Exchange
  BY DEF Exchange, Requests, Replies
<1>6. Connected /\ Ready
  BY DEF Connected, Ready
<1>7. QED BY <1>4, <1>5, <1>6 DEF HInv

(* A sequence with at most one element.                                    *)
LEMMA Emptied ==
  ASSUME NEW S, NEW s \in Seq(S), Len(s) <= 1, s # <<>>
  PROVE  Tail(s) = <<>> /\ s = <<Head(s)>> /\ Head(s) \in S /\ Len(s) = 1
<1>1. Len(s) \in Nat \ {0}
  BY EmptySeq, Zenon
<1>2. \A n \in Nat \ {0} : n <= 1 => n = 1
  OBVIOUS
<1>3. Len(s) = 1
  BY <1>1, <1>2, Zenon
<1>4. Head(s) = s[1] /\ s = <<s[1]>> /\ s[1] \in S
  BY <1>3
<1>5. Tail(s) = <<>>
  BY <1>4
<1>6. QED BY <1>3, <1>4, <1>5

(* Only the empty sequence has length zero.                                *)
LEMMA Filled ==
  ASSUME NEW S, NEW s \in Seq(S)
  PROVE  Len(s) \in Nat /\ (s = <<>> <=> Len(s) = 0)
<1>1. Len(s) \in Nat
  OBVIOUS
<1>2. s # <<>> => Len(s) \in Nat \ {0}
  BY EmptySeq, Zenon
<1>3. s = <<>> => Len(s) = 0
  OBVIOUS
<1>4. QED BY <1>1, <1>2, <1>3

(* Of two sequences with one element between them, one has it.             *)
LEMMA OnlyOne ==
  ASSUME NEW S, NEW s \in Seq(S), NEW T, NEW t \in Seq(T), Len(s) + Len(t) <= 1, t # <<>>
  PROVE  s = <<>> /\ Len(t) = 1 /\ Tail(t) = <<>>
<1>1. Len(s) \in Nat /\ Len(t) \in Nat /\ Len(t) # 0
  BY Filled
<1>2. \A m, n \in Nat : m + n <= 1 /\ n # 0 => m = 0 /\ n = 1
  OBVIOUS
<1>3. Len(s) = 0 /\ Len(t) = 1
  BY <1>1, <1>2, Zenon
<1>4. s = <<>>
  BY <1>3, Filled
<1>5. Len(t) <= 1
  BY <1>3
<1>6. Tail(t) = <<>>
  BY <1>5, Emptied
<1>7. QED BY <1>3, <1>4, <1>6

(* Every step of the connection, the camera, the callbacks and the stream  *)
(* keeps the invariant.                                                    *)
LEMMA HNext == ASSUME HInv, [HandshakeNext]_handshakeVars PROVE HInv'
<1> USE HandshakeAssumption DEF HInv
<1>1. ASSUME NEW from, NEW to \in {"connected", "disconnected", "failed"}, PeerMoves(from, to)
      PROVE  HInv'
  <2> USE <1>1 DEF PeerMoves, stream, startVars
  <2>1. Scalars'
    BY DEF Scalars
  <2>2. Exchange'
    BY DEF Exchange, Scalars
  <2>3. Connected' /\ Ready'
    BY DEF Connected, Ready, Scalars, Exchange
  <2> QED BY <2>1, <2>2, <2>3
<1>2. CASE ChannelOpens
  <2> USE <1>2 DEF ChannelOpens, stream, startVars
  <2>1. Scalars'
    BY DEF Scalars
  <2>2. Exchange'
    BY Emptied DEF Exchange, Scalars, Requests, Replies
  <2>3. Connected' /\ Ready'
    BY DEF Connected, Ready, Scalars, Exchange
  <2> QED BY <2>1, <2>2, <2>3
<1>3. CASE ChannelCloses
  <2> USE <1>3 DEF ChannelCloses, stream, startVars
  <2>1. Scalars'
    BY DEF Scalars
  <2>2. Exchange'
    BY Emptied DEF Exchange, Scalars, Requests, Replies
  <2>3. Connected' /\ Ready'
    BY DEF Connected, Ready, Scalars, Exchange
  <2> QED BY <2>1, <2>2, <2>3
<1>4. CASE Loses
  <2> USE <1>4 DEF Loses, stream, startVars
  <2>1. Scalars'
    BY DEF Scalars
  <2>2. Exchange'
    <3>1. CASE toCamera # <<>> /\ toCamera' = Tail(toCamera) /\ UNCHANGED toBridge
      <4>1. ~streaming /\ toCamera' = <<>>
        BY <3>1, Emptied, LenProperties DEF Exchange
      <4>2. QED BY <3>1, <4>1, EmptySeq DEF Exchange
    <3>2. CASE toBridge # <<>> /\ toBridge' = Tail(toBridge) /\ UNCHANGED toCamera
      <4>1. toBridge' \in Seq(Replies) /\ Len(toBridge') = Len(toBridge) - 1
            /\ \A k \in 1 .. Len(toBridge') : toBridge'[k] = toBridge[k + 1]
        BY <3>2, EmptySeq, HeadTailProperties DEF Exchange
      <4>2. Len(toBridge) \in Nat /\ Len(toCamera) \in Nat
        BY LenProperties DEF Exchange
      <4>3. CASE streaming
        BY <3>2, <4>1, <4>2, <4>3 DEF Exchange
      <4>4. CASE ~streaming
        <5>1. /\ toBridge \in Seq(Replies) /\ toCamera \in Seq(Requests)
              /\ Len(toCamera) + Len(toBridge) <= 1 /\ toBridge # <<>>
          BY <3>2, <4>4 DEF Exchange
        <5>2. toBridge' = <<>> /\ toCamera' = <<>>
          BY <3>2, <5>1, OnlyOne
        <5>3. UNCHANGED <<streaming, channel, calls, ssrc>>
          BY <3>2
        <5>4. channel = "opening" => "open" \notin calls
          BY DEF Exchange
        <5>5. QED BY <4>4, <5>2, <5>3, <5>4 DEF Exchange
      <4>5. QED BY <4>3, <4>4 DEF Scalars
    <3>3. QED BY <3>1, <3>2
  <2>3. Connected' /\ Ready'
    BY DEF Connected, Ready, Scalars, Exchange
  <2> QED BY <2>1, <2>2, <2>3
<1>5. CASE CameraReplies
  <2> USE <1>5 DEF CameraReplies, Reply, stream, startVars
  <2>1. Scalars'
    BY DEF Scalars
  <2>2. Exchange'
    BY Emptied DEF Exchange, Scalars, Requests, Replies
  <2>3. Connected' /\ Ready'
    BY DEF Connected, Ready, Scalars, Exchange
  <2> QED BY <2>1, <2>2, <2>3
<1>6. CASE CameraStreams
  <2> USE <1>6 DEF CameraStreams, stream, startVars
  <2>1. Scalars'
    BY DEF Scalars
  <2>2. Exchange'
    BY Emptied DEF Exchange, Scalars, Requests, Replies
  <2>3. Connected' /\ Ready'
    BY DEF Connected, Ready, Scalars, Exchange
  <2> QED BY <2>1, <2>2, <2>3
<1>7. CASE CameraHangsUp
  <2> USE <1>7 DEF CameraHangsUp, stream, peerLink, startVars
  <2>1. Scalars'
    BY DEF Scalars
  <2>2. Exchange'
    BY Emptied DEF Exchange, Scalars, Requests, Replies
  <2>3. Connected' /\ Ready'
    BY DEF Connected, Ready, Scalars, Exchange
  <2> QED BY <2>1, <2>2, <2>3
<1>8. CASE OnConnected
  <2> USE <1>8 DEF OnConnected, SettledByConnection, Done, stream, peerLink
  <2>1. Scalars'
    BY DEF Scalars
  <2>2. Exchange'
    BY Emptied DEF Exchange, Scalars, Requests, Replies
  <2>3. Connected' /\ Ready'
    BY DEF Connected, Ready, Scalars, Exchange
  <2> QED BY <2>1, <2>2, <2>3
<1>9. CASE OnBroken
  <2> USE <1>9 DEF OnBroken, HandleError, Done, stream, peerLink
  <2>1. Scalars'
    BY DEF Scalars
  <2>2. Exchange'
    BY Emptied DEF Exchange, Scalars, Requests, Replies
  <2>3. Connected' /\ Ready'
    BY DEF Connected, Ready, Scalars, Exchange
  <2> QED BY <2>1, <2>2, <2>3
<1>10. CASE OnOpen
  <2> USE <1>10 DEF OnOpen, Send, HandleError, Done, stream
  <2>1. Scalars'
    BY DEF Scalars
  <2>2. Exchange'
    <3>1. toCamera = <<>> /\ toBridge = <<>> /\ ~streaming
      BY DEF Exchange
    <3>2. CASE channel = "open"
      <4>1. toCamera' = <<"codec">>
        BY <3>1, <3>2
      <4>2. toCamera' \in Seq(Requests) /\ Len(toCamera') = 1 /\ toCamera' # <<"complete">>
        BY <4>1 DEF Requests
      <4>3. Len(toBridge) = 0
        BY <3>1
      <4>4. QED BY <3>1, <3>2, <4>2, <4>3 DEF Exchange
    <3>3. CASE channel # "open"
      BY <3>1, <3>3 DEF Exchange
    <3>4. QED BY <3>2, <3>3
  <2>3. Connected' /\ Ready'
    BY DEF Connected, Ready, Scalars, Exchange
  <2> QED BY <2>1, <2>2, <2>3
<1>11. CASE OnMessage
  <2> USE <1>11 DEF OnMessage, Send, Settles, Request, HandleError, Done, stream
  <2>1. Scalars'
    <3>1. CASE Head(toBridge) = "media"
      BY <3>1 DEF Scalars
    <3>2. CASE Head(toBridge) = "unreadable"
      BY <3>2 DEF Scalars
    <3>3. CASE Head(toBridge) \in {"codec", "recv"}
               /\ Send(Request(Head(toBridge)), Settles(Head(toBridge)))
      BY <3>3 DEF Scalars
    <3>4. QED BY <3>1, <3>2, <3>3
  <2>2. Exchange'
    BY Emptied DEF Exchange, Scalars, Requests, Replies
  <2>3. Connected' /\ Ready'
    BY DEF Connected, Ready, Scalars, Exchange
  <2> QED BY <2>1, <2>2, <2>3
<1>12. CASE StartReturns
  <2> USE <1>12 DEF StartReturns, stream, peerLink
  <2>1. Scalars'
    BY DEF Scalars
  <2>2. Exchange'
    BY Emptied DEF Exchange, Scalars, Requests, Replies
  <2>3. Connected' /\ Ready'
    BY DEF Connected, Ready, Scalars, Exchange
  <2> QED BY <2>1, <2>2, <2>3
<1>13. CASE Reacts
  <2> USE <1>13 DEF Reacts, Stop, stream
  <2>1. Scalars'
    BY DEF Scalars
  <2>2. Exchange'
    BY Emptied DEF Exchange, Scalars, Requests, Replies
  <2>3. Connected' /\ Ready'
    BY DEF Connected, Ready, Scalars, Exchange
  <2> QED BY <2>1, <2>2, <2>3
<1>14. CASE StreamStops
  <2> USE <1>14 DEF StreamStops, Stop, stream
  <2>1. Scalars'
    BY DEF Scalars
  <2>2. Exchange'
    BY Emptied DEF Exchange, Scalars, Requests, Replies
  <2>3. Connected' /\ Ready'
    BY DEF Connected, Ready, Scalars, Exchange
  <2> QED BY <2>1, <2>2, <2>3
<1>15. CASE UNCHANGED handshakeVars
  <2> USE <1>15 DEF handshakeVars, stream, peerLink, startVars
  <2>1. Scalars'
    BY DEF Scalars
  <2>2. Exchange'
    BY Emptied DEF Exchange, Scalars, Requests, Replies
  <2>3. Connected' /\ Ready'
    BY DEF Connected, Ready, Scalars, Exchange
  <2> QED BY <2>1, <2>2, <2>3
<1>16. CASE Connects \/ Disconnects \/ Fails
  BY <1>1, <1>16 DEF Connects, Disconnects, Fails
<1>17. QED BY <1>2, <1>3, <1>4, <1>5, <1>6, <1>7, <1>8, <1>9, <1>10, <1>11, <1>12, <1>13, <1>14,
              <1>15, <1>16 DEF HandshakeNext
LEMMA HInvariant == HandshakeSpec => []HInv
<1>1. HandshakeInit => HInv
  BY HInit
<1>2. HInv /\ [HandshakeNext]_handshakeVars => HInv'
  BY HNext
<1>3. QED BY <1>1, <1>2, PTL DEF HandshakeSpec

(* For any streams, losses and queues the variables keep their types: at   *)
(* most one request is on its way, and an error that the stream is told of *)
(* has ended the wait (bridge.go, probe and handleError).                  *)
THEOREM HandshakeTypes == HandshakeSpec => []HandshakeTypeOK
<1>1. HInv => HandshakeTypeOK
  <2> SUFFICES ASSUME HInv PROVE HandshakeTypeOK
    OBVIOUS
  <2> USE DEF HInv
  <2>1. toCamera \in Seq(Requests) /\ toBridge \in Seq(Replies)
    BY DEF Exchange
  <2>2. Len(toCamera) <= 1
    <3>1. CASE toCamera = <<>>
      BY <3>1
    <3>2. CASE toCamera # <<>>
      <4>1. Len(toBridge) + Len(toCamera) <= 1
        BY <2>1, <3>2, LenProperties DEF Exchange
      <4>2. QED BY <2>1, <3>2, <4>1, OnlyOne
    <3>3. QED BY <3>1, <3>2
  <2>3. \A k \in 1 .. Len(toCamera) : toCamera[k] \in Requests
    BY <2>1, ElementOfSeq
  <2>4. \A k \in 1 .. Len(toBridge) : toBridge[k] \in Replies
    BY <2>1, ElementOfSeq
  <2>5. {streaming, ssrc, handled, failing} \subseteq BOOLEAN
    BY DEF Scalars
  <2>6. QED BY <2>2, <2>3, <2>4, <2>5 DEF HandshakeTypeOK, Scalars, Requests, Replies
<1>2. QED BY HInvariant, <1>1, PTL

(* Start succeeds only for a session that can carry media, whatever the    *)
(* order of the callbacks and whatever is lost (bridge.go, Start,          *)
(* setupPeerConnection and probe).                                         *)
THEOREM ShownStreamsAreReady == HandshakeSpec => []ShownIsReady
<1>1. HInv => ShownIsReady
  BY DEF HInv, Scalars, Exchange, Connected, Ready, ShownIsReady
<1>2. QED BY HInvariant, <1>1, PTL

(* What the liveness of the handshake rests on: a wait, or a session that  *)
(* broke, never stands still for want of a callback or a message.          *)

Broken == peer \in {"failed", "closed"} \/ channel = "ended"
Told   == calls \cap {"failed", "closed", "ended", "hangup"} # {}
Alive  == start \in {"waiting", "up"}
Waits  == start = "waiting" /\ waiter = "open"

\* A break is noticed: while a session is shown or started, one that broke has a
\* callback that is about to report it, or has reported it, and the stream hears it.
BreakIsNoticed == Alive /\ Broken => handled /\ (Told \/ failing)

\* Start does not wait for nothing: once the connection is made and until a message
\* of the exchange gets lost, something is under way that settles the wait or that
\* the next message answers: an error, the opening of the channel, a message of the
\* exchange, or, for an HD stream without HEVC, the callback of the connection.
WaitHasAnEnd ==
  Waits /\ peer = "connected" /\ lost = 0 /\ (isHEVC \/ resolution = "hd") =>
    \/ Told
    \/ isHEVC /\ (channel = "opening" \/ "open" \in calls \/ toCamera # <<>> \/ toBridge # <<>>)
    \/ ~isHEVC /\ "connected" \in calls

\* The stream takes OnError away only with the session; and the wait is over
\* when complete is sent.
Heard    == Alive => handled
Complete == streaming \/ toCamera = <<"complete">> => waiter # "open"
Noticed  == Alive /\ Broken => Told \/ failing
UnderWay == Waits /\ lost = 0 /\ isHEVC =>
              Told \/ channel = "opening" \/ "open" \in calls \/ toCamera # <<>> \/ toBridge # <<>>
Settling == Waits /\ ~isHEVC /\ resolution = "hd" /\ peer \in {"connected", "disconnected"} => "connected" \in calls

EInv == Heard /\ Complete /\ Noticed /\ UnderWay /\ Settling

LEMMA EInit == ASSUME HandshakeInit PROVE EInv
BY DEF HandshakeInit, EInv, Heard, Complete, Noticed, UnderWay, Settling, Alive, Waits, Broken, Told

(* Every step keeps something under way.                                   *)
LEMMA ENext == ASSUME HInv, EInv, [HandshakeNext]_handshakeVars PROVE EInv'
<1> USE DEF HInv, EInv, Heard, Complete, Noticed, UnderWay, Settling, Alive, Waits, Broken, Told
<1>1. CASE Connects \/ Disconnects \/ Fails
  BY <1>1 DEF Connects, Disconnects, Fails, PeerMoves, stream, startVars, Scalars
<1>2. CASE ChannelOpens
  BY <1>2 DEF ChannelOpens, stream, startVars, Scalars
<1>3. CASE ChannelCloses
  BY <1>3 DEF ChannelCloses, stream, startVars, Scalars
<1>4. CASE Loses
  <2> USE <1>4 DEF Loses, stream, startVars, Scalars
  <2>1. toCamera' = <<"complete">> => toCamera = <<"complete">>
    <3>1. CASE toCamera # <<>> /\ toCamera' = Tail(toCamera)
      <4>1. toCamera' = <<>>
        BY <3>1, Emptied, LenProperties DEF Exchange
      <4> QED BY <4>1
    <3>2. CASE UNCHANGED toCamera
      BY <3>2
    <3> QED BY <3>1, <3>2
  <2>2. lost' # 0
    OBVIOUS
  <2> QED BY <2>1, <2>2
<1>5. CASE CameraReplies
  BY <1>5, Emptied DEF CameraReplies, stream, startVars, Scalars, Exchange
<1>6. CASE CameraStreams
  BY <1>6 DEF CameraStreams, stream, startVars, Scalars, Exchange
<1>7. CASE CameraHangsUp
  BY <1>7 DEF CameraHangsUp, stream, peerLink, startVars
<1>8. CASE OnConnected
  BY <1>8 DEF OnConnected, SettledByConnection, Done, stream, peerLink, Scalars
<1>9. CASE OnBroken
  BY <1>9 DEF OnBroken, HandleError, Done, stream, peerLink, Scalars
<1>10. CASE OnOpen
  BY <1>10 DEF OnOpen, Send, HandleError, Done, stream, Scalars, Exchange
<1>11. CASE OnMessage
  BY <1>11 DEF OnMessage, Send, Settles, Request, HandleError, Done, stream, Scalars, Exchange
<1>12. CASE StartReturns
  BY <1>12 DEF StartReturns, stream, peerLink, Scalars
<1>13. CASE Reacts
  BY <1>13 DEF Reacts, Stop, stream, Scalars
<1>14. CASE StreamStops
  BY <1>14 DEF StreamStops, Stop, stream, Scalars
<1>15. CASE UNCHANGED handshakeVars
  BY <1>15 DEF handshakeVars, stream, peerLink, startVars
<1> QED BY <1>1, <1>2, <1>3, <1>4, <1>5, <1>6, <1>7, <1>8, <1>9, <1>10, <1>11, <1>12, <1>13, <1>14, <1>15
        DEF HandshakeNext

LEMMA EInvariant == HandshakeSpec => []EInv
<1>1. HandshakeInit => EInv
  BY EInit
<1>2. HInv /\ EInv /\ [HandshakeNext]_handshakeVars => EInv'
  BY ENext
<1> QED BY HInvariant, <1>1, <1>2, PTL DEF HandshakeSpec

(* Whatever the order of the callbacks, a session that breaks while it is  *)
(* started or shown is noticed by a stream that listens: the safety core   *)
(* of FailureEndsStream (bridge.go, setupPeerConnection and handleError).  *)
THEOREM BreaksAreNoticed == HandshakeSpec => []BreakIsNoticed
<1>1. EInv => BreakIsNoticed
  BY DEF EInv, Heard, Noticed, BreakIsNoticed
<1> QED BY EInvariant, <1>1, PTL

(* Until a message of the exchange gets lost, no Start on an established   *)
(* connection waits for something that nobody will do, except of an SD     *)
(* stream without HEVC: the safety core of StartSettles (bridge.go, Start, *)
(* setupPeerConnection and probe).                                         *)
THEOREM WaitsHaveAnEnd == HandshakeSpec => []WaitHasAnEnd
<1>1. HInv /\ EInv => WaitHasAnEnd
  BY DEF HInv, Scalars, EInv, UnderWay, Settling, WaitHasAnEnd
<1> QED BY HInvariant, EInvariant, <1>1, PTL

-----------------------------------------------------------------------------
(* Waiter.                                                                 *)

(* The WaitGroup counter never goes negative (sync.WaitGroup panics), and  *)
(* agrees with the task counter whenever the waiter can still be used.     *)
CounterAgrees == wg = (IF state = -1 THEN 0 ELSE state)

\* A goroutine inside Wait has registered a task, or a Done is about to finish.
BlockedHasTask == \A w \in Waiting : phase[w] = "blocked" => state # 0 \/ mu # Nobody

\* The goroutine that holds the mutex is inside Done.
HolderInside == mu # Nobody => dpc[mu] = "inside"

WInv == /\ WaiterTypeOK
        /\ CounterAgrees
        /\ BlockedHasTask
        /\ NoEarlyReturn
        /\ HolderInside
        /\ OutcomeWasReported

LEMMA WInit == WaiterInit => WInv
  BY WaiterAssumption DEF WaiterInit, WInv, WaiterTypeOK, Phases, CounterAgrees, BlockedHasTask,
                          NoEarlyReturn, HolderInside, OutcomeWasReported

LEMMA WNext == ASSUME WInv, [WaiterNext]_waiterVars PROVE WInv'
<1> USE WaiterAssumption DEF WInv, WaiterTypeOK, Phases, CounterAgrees, BlockedHasTask,
                             NoEarlyReturn, HolderInside, AutoStart, HasTasks,
                             LastDone, Stored
<1>1. CASE Add
      BY <1>1 DEF Add, OutcomeWasReported
<1>2. ASSUME NEW w \in Waiting, Wait(w) PROVE WInv'
      BY <1>2 DEF Wait, OutcomeWasReported
<1>3. ASSUME NEW w \in Waiting, WaitReturn(w) PROVE WInv'
      BY <1>3 DEF WaitReturn, OutcomeWasReported
<1>4. ASSUME NEW w \in Waiting, WaitChan(w) PROVE WInv'
      BY <1>4 DEF WaitChan, OutcomeWasReported
<1>5. ASSUME NEW d \in Completing, NEW e \in Outcomes, DoneBegin(d, e) PROVE WInv'
      BY <1>5 DEF DoneBegin, OutcomeWasReported
<1>6. ASSUME NEW d \in Completing, DoneEnd(d) PROVE WInv'
  <2> USE <1>6 DEF DoneEnd
  <2>1. WaiterTypeOK'
        OBVIOUS
  <2>2. CounterAgrees' /\ HolderInside'
        OBVIOUS
  <2>3. BlockedHasTask'
        OBVIOUS
  <2>4. NoEarlyReturn'
        OBVIOUS
  <2>5. OutcomeWasReported'
    <3>1. CASE state = 0
          BY <3>1 DEF OutcomeWasReported
    <3>2. CASE state # 0
          BY <3>2 DEF OutcomeWasReported
    <3>3. QED BY <3>1, <3>2
  <2>6. QED BY <2>1, <2>2, <2>3, <2>4, <2>5
<1>7. CASE UNCHANGED waiterVars
      BY <1>7 DEF waiterVars, OutcomeWasReported
<1>8. QED BY <1>1, <1>2, <1>3, <1>4, <1>5, <1>6, <1>7 DEF WaiterNext

LEMMA WInvariant == WaiterSpec => []WInv
<1>1. WInv /\ [WaiterNext]_waiterVars => WInv'
      BY WNext
<1>2. QED BY WInit, <1>1, PTL DEF WaiterSpec

(* The variables keep their types: however many Done calls there are, the  *)
(* counter of the WaitGroup is never taken below zero (waiter.go, Done).   *)
THEOREM WaiterTypes == WaiterSpec => []WaiterTypeOK
<1>1. WInv => WaiterTypeOK
      BY DEF WInv
<1>2. QED BY WInvariant, <1>1, PTL

(* No Wait returns before the last Done took the last task off: Start      *)
(* cannot report a stream, nor connect a broker session, that nobody       *)
(* completed (waiter.go, Wait and Done).                                   *)
THEOREM ReturnsOnlyWhenDone == WaiterSpec => []NoEarlyReturn
<1>1. WInv => NoEarlyReturn
      BY DEF WInv
<1>2. QED BY WInvariant, <1>1, PTL

(* The outcome of a finished waiter was given to it by a Done call that    *)
(* has returned.                                                           *)
THEOREM OutcomeIsACallers == WaiterSpec => []OutcomeWasReported
<1>1. WInv => OutcomeWasReported
      BY DEF WInv
<1>2. QED BY WInvariant, <1>1, PTL

(* The first finish decides: nothing that is called later changes the      *)
(* outcome or reopens the waiter (comment "safe Done after finish").       *)
THEOREM FirstFinishDecides == WaiterSpec => FinishIsFinal
<1>1. WInv /\ [WaiterNext]_waiterVars => [state = -1 => UNCHANGED <<state, wg, err>>]_waiterVars
  <2> SUFFICES ASSUME WInv, WaiterNext, state = -1 PROVE UNCHANGED <<state, wg, err>>
      BY DEF waiterVars
  <2>1. CASE Add
        BY <2>1 DEF Add
  <2>2. ASSUME NEW w \in Waiting, Wait(w) \/ WaitReturn(w) \/ WaitChan(w)
        PROVE UNCHANGED <<state, wg, err>>
        BY <2>2 DEF Wait, WaitReturn, WaitChan, AutoStart
  <2>3. ASSUME NEW d \in Completing, NEW e \in Outcomes, DoneBegin(d, e)
        PROVE UNCHANGED <<state, wg, err>>
        BY <2>3 DEF DoneBegin, HasTasks
  <2>4. ASSUME NEW d \in Completing, DoneEnd(d) PROVE UNCHANGED <<state, wg, err>>
        BY <2>4 DEF DoneEnd, LastDone
  <2>5. QED BY <2>1, <2>2, <2>3, <2>4 DEF WaiterNext
<1>2. QED BY WInvariant, <1>1, PTL DEF WaiterSpec, FinishIsFinal
=============================================================================
