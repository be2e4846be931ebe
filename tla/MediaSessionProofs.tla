------------------------- MODULE MediaSessionProofs -------------------------
(***************************************************************************)
(* What holds of the sessions of a stream and of the forwarders of its     *)
(* bridges for any number of sessions, SETUPs, bridges and start attempts, *)
(* and for any ports and channels.                                         *)
(***************************************************************************)
EXTENDS MediaSession, TLAPS

Road == {"video", "audio"}
Answers == [bridge : Bridges, dest : Nat]

Plain ==
  /\ conn \in [Clients -> {"new", "in", "closing", "gone"}]
  /\ mode \in [Clients -> {None, "UDP", "TCP"}]
  /\ ports \in [Clients -> [Road -> ClientPorts \cup {0}]]
  /\ chans \in [Clients -> [Tracks -> AllChannels]]
  /\ setups \in [Clients -> Nat] /\ \A c \in Clients : setups[c] <= MaxSetups[c]
  /\ redone \in [Clients -> SUBSET Tracks]
  /\ pc \in [Starters -> {"off", "launched", "try1", "try2", "pausing", "givingUp"}]
  /\ active \in BOOLEAN /\ connecting \in BOOLEAN /\ timer \in BOOLEAN
  /\ leaving \in {"no", "due", "done"}

\* A bridge that was stopped is behind the one a start attempt is made on.
Attempts ==
  /\ cur \in Bridges /\ connected \subseteq Bridges /\ ended \subseteq Bridges \ connected
  /\ started \in BOOLEAN
  /\ \A b \in ended : b <= cur
  /\ Locked => started /\ cur \notin ended
  /\ ~started => connected = {} /\ ended = {}

Table ==
  /\ fwd \in [Bridges -> [Clients -> Entry \cup {None}]]
  /\ asked \in [Clients -> [Tracks -> Answers \cup {None}]]

\* The listeners of the entries are the open ports, each of one entry.
Owned ==
  /\ open \subseteq ServerPorts /\ others \subseteq ServerPorts \ open
  /\ \A b \in Bridges, c \in Clients : Listeners(fwd[b][c]) \subseteq open
  /\ \A p \in open : \E b \in Bridges, c \in Clients : p \in Listeners(fwd[b][c])
  /\ \A b1, b2 \in Bridges, c1, c2 \in Clients :
       b1 # b2 \/ c1 # c2 => Listeners(fwd[b1][c1]) \cap Listeners(fwd[b2][c2]) = {}

\* No entry and no answer comes before its bridge, so that a retry finds an empty
\* forwarder and no SETUP made on it; no entry of the stream's bridge outlives its session.
Cleared ==
  \A c \in Clients : /\ \A b \in Bridges : b > cur => fwd[b][c] = None
                     /\ \A t \in Tracks : asked[c][t] # None => asked[c][t].bridge <= cur
                     /\ conn[c] = "gone" => fwd[cur][c] = None

Modes ==
  \A b \in Bridges, c \in Clients :
    conn[c] # "gone" /\ fwd[b][c] # None => fwd[b][c].mode = mode[c]

\* What the session's record says of its tracks: the last destination of each, which
\* is what an entry on a fresh bridge is made of.  A track nobody asked for has no
\* port, and so no socket on any bridge.
Named(port, d) == port = d /\ port > 0
Recorded ==
  \A c \in Clients :
    /\ conn[c] = "new" => mode[c] = None
    /\ mode[c] = None => \A t \in Tracks : asked[c][t] = None
    /\ mode[c] = "TCP" => \A t \in Tracks : asked[c][t] # None => chans[c][t] = asked[c][t].dest
    /\ mode[c] = "UDP" => \A t \in Road : asked[c][t] # None => Named(ports[c][t], asked[c][t].dest)
    /\ \A t \in Road : asked[c][t] = None => ports[c][t] = 0
Undialed ==
  \A c \in Clients, b \in Bridges, t \in Road :
    conn[c] # "gone" /\ asked[c][t] = None /\ fwd[b][c] # None /\ fwd[b][c].mode = "UDP"
      => fwd[b][c].dest[t] = None

Serving == Table /\ Owned /\ Cleared /\ Modes /\ Recorded /\ Undialed /\ SentAsAsked

IInv == Plain /\ Attempts /\ Serving

-----------------------------------------------------------------------------
\* Entries.

LEMMA Kinds ==
  /\ None \notin Entry /\ None \notin Answers /\ None \notin Nat /\ None # "UDP" /\ None # "TCP"
  /\ \A e \in UDPEntry : /\ e.mode = "UDP" /\ e.dest \in [Road -> ClientPorts \cup {None}]
                         /\ e.pair \in ServerPorts \cup {None}
  /\ \A e \in TCPEntry : e.mode = "TCP" /\ e.dest \in [Tracks -> AllChannels]
  /\ \A e \in Entry : e.mode = "UDP" => e \in UDPEntry
  /\ \A e \in Entry : e.mode = "TCP" => e \in TCPEntry
  /\ \A e \in Entry : e.mode \in {"UDP", "TCP"}
<1>1. None \notin Entry /\ None \notin Nat /\ None # "UDP" /\ None # "TCP"
  BY NoneAssumption DEF Entry
<1>2. None \notin Answers
  <2>1. Answers \subseteq [bridge : Nat, dest : Nat]
    BY BoundsAssumption DEF Answers, Bridges
  <2> QED BY <2>1, NoneAssumption
<1> QED BY <1>1, <1>2 DEF Entry, UDPEntry, TCPEntry, Road

LEMMA Numbers ==
  /\ \A p \in ClientPorts : p \in Nat /\ p > 0
  /\ AllChannels \subseteq Nat /\ ServerPorts \subseteq Nat
  /\ MaxBridges \in Nat /\ MaxBridges > 0
<1>1. \A t \in Tracks : DefaultChannel[t] \in Nat
  BY DEF DefaultChannel, Tracks
<1>2. AllChannels \subseteq Nat
  BY <1>1, PortAssumption DEF AllChannels
<1>3. \A p \in ClientPorts : p \in Nat /\ p > 0
  BY PortAssumption
<1> QED BY <1>2, <1>3, PortAssumption, BoundsAssumption

LEMMA UDPGiven ==
  ASSUME NEW e \in UDPEntry \cup {None}, NEW p \in [Road -> ClientPorts \cup {0}]
  PROVE  LET x == AddUDPClient(e, p) IN
         /\ x \in UDPEntry
         /\ x.pair = (IF e = None THEN None ELSE e.pair)
         /\ \A t \in Road : x.dest[t] = (IF e # None /\ e.dest[t] # None THEN e.dest[t]
                                         ELSE IF p[t] > 0 THEN p[t] ELSE None)
<1>1. \A t \in Road : Dialed(p[t]) \in ClientPorts \cup {None}
  BY Numbers DEF Dialed
<1>2. CASE e = None
  BY <1>1, <1>2 DEF AddUDPClient, UDPEntry, Road, Dialed
<1>3. CASE e # None
  <2>1. e \in UDPEntry
    BY <1>3
  <2>2. \A t \in Road : (IF e.dest[t] = None THEN Dialed(p[t]) ELSE e.dest[t]) \in ClientPorts \cup {None}
    BY <1>1, <2>1 DEF UDPEntry, Road
  <2> QED BY <1>3, <2>1, <2>2 DEF AddUDPClient, Redialed, UDPEntry, Road, Dialed
<1> QED BY <1>2, <1>3

LEMMA TCPGiven ==
  ASSUME NEW e \in TCPEntry \cup {None}, NEW ch \in [Tracks -> AllChannels]
  PROVE  AddTCPClient(e, ch) \in TCPEntry /\ AddTCPClient(e, ch).dest = ch
<1>1. CASE e = None
  BY <1>1 DEF AddTCPClient, TCPEntry
<1>2. CASE e # None
  BY <1>2 DEF AddTCPClient, TCPEntry
<1> QED BY <1>1, <1>2

LEMMA PairGiven ==
  ASSUME NEW e \in UDPEntry, NEW b \in ServerPorts
  PROVE  /\ [e EXCEPT !.pair = b] \in UDPEntry
         /\ [e EXCEPT !.pair = b].pair = b /\ [e EXCEPT !.pair = b].dest = e.dest
  BY DEF UDPEntry

LEMMA WhoListens ==
  /\ Listeners(None) = {}
  /\ \A e \in TCPEntry : Listeners(e) = {}
  /\ \A e \in UDPEntry : Listeners(e) = IF e.pair = None THEN {} ELSE {e.pair, e.pair + 1}
<1>1. Listeners(None) = {}
  BY DEF Listeners
<1>2. \A e \in TCPEntry : Listeners(e) = {}
  BY Kinds DEF Listeners
<1>3. \A e \in UDPEntry : e # None /\ e.mode = "UDP"
  BY Kinds DEF Entry
<1>4. \A e \in UDPEntry : Listeners(e) = IF e.pair = None THEN {} ELSE {e.pair, e.pair + 1}
  BY <1>3 DEF Listeners
<1> QED BY <1>1, <1>2, <1>4

-----------------------------------------------------------------------------
\* Changes of the table.

LEMMA Put ==
  ASSUME Table, NEW c \in Clients, cur \in Bridges, NEW x \in Entry \cup {None},
         fwd' = [fwd EXCEPT ![cur][c] = x]
  PROVE  /\ fwd' \in [Bridges -> [Clients -> Entry \cup {None}]]
         /\ fwd'[cur][c] = x
         /\ \A b \in Bridges, d \in Clients : b # cur \/ d # c => fwd'[b][d] = fwd[b][d]
  BY DEF Table

LEMMA Cut ==
  ASSUME Table, NEW cs \in SUBSET Clients, cur \in Bridges, Without(cur, cs)
  PROVE  /\ fwd' \in [Bridges -> [Clients -> Entry \cup {None}]]
         /\ \A d \in cs : fwd'[cur][d] = None
         /\ \A b \in Bridges, d \in Clients : b # cur \/ d \notin cs => fwd'[b][d] = fwd[b][d]
         /\ open' = open \ UNION {Listeners(fwd[cur][d]) : d \in cs}
  BY DEF Table, Without

LEMMA Told ==
  ASSUME Table, redone \in [Clients -> SUBSET Tracks], cur \in Bridges,
         NEW c \in Clients, NEW t \in Tracks, NEW d \in Nat, Answer(c, t, d)
  PROVE  /\ asked' \in [Clients -> [Tracks -> Answers \cup {None}]]
         /\ asked'[c][t] = [bridge |-> cur, dest |-> d]
         /\ \A e \in Clients, u \in Tracks : e # c \/ u # t => asked'[e][u] = asked[e][u]
         /\ redone' \in [Clients -> SUBSET Tracks]
         /\ \A e \in Clients : redone[e] \subseteq redone'[e]
         /\ asked[c][t] # None => t \in redone'[c]
         /\ \A e \in Clients : e # c => redone'[e] = redone[e]
         /\ \A u \in Tracks : u # t /\ u \in redone'[c] => u \in redone[c]
<1>1. [bridge |-> cur, dest |-> d] \in Answers
  BY DEF Answers
<1> QED BY <1>1 DEF Table, Answer

\* A table whose entries keep their listeners keeps the ports.
LEMMA OwnedKept ==
  ASSUME Owned, UNCHANGED <<open, others>>,
         \A b \in Bridges, c \in Clients : Listeners(fwd'[b][c]) = Listeners(fwd[b][c])
  PROVE  Owned'
  BY DEF Owned

\* Entries that go take their ports along.
LEMMA OwnedCut ==
  ASSUME Owned, Table, NEW cs \in SUBSET Clients, cur \in Bridges, Without(cur, cs), others' = others
  PROVE  Owned'
<1>1. /\ \A d \in cs : Listeners(fwd'[cur][d]) = {}
      /\ \A b \in Bridges, d \in Clients : b # cur \/ d \notin cs => Listeners(fwd'[b][d]) = Listeners(fwd[b][d])
      /\ open' = open \ UNION {Listeners(fwd[cur][d]) : d \in cs}
  BY Cut, WhoListens
<1>2. open' \subseteq ServerPorts /\ others' \subseteq ServerPorts \ open'
  BY <1>1 DEF Owned
<1>3. \A b \in Bridges, c \in Clients : Listeners(fwd'[b][c]) \subseteq open'
  <2> SUFFICES ASSUME NEW b \in Bridges, NEW c \in Clients, NEW p \in Listeners(fwd'[b][c])
               PROVE  p \in open'
    OBVIOUS
  <2>1. b # cur \/ c \notin cs
    BY <1>1
  <2>2. p \in Listeners(fwd[b][c]) /\ p \in open
    BY <1>1, <2>1 DEF Owned
  <2>3. \A d \in cs : p \notin Listeners(fwd[cur][d])
    <3> SUFFICES ASSUME NEW d \in cs PROVE p \notin Listeners(fwd[cur][d])
      OBVIOUS
    <3>1. d \in Clients /\ (b # cur \/ c # d)
      BY <2>1
    <3> QED BY <3>1, <2>2 DEF Owned
  <2> QED BY <1>1, <2>2, <2>3
<1>4. \A p \in open' : \E b \in Bridges, c \in Clients : p \in Listeners(fwd'[b][c])
  <2> SUFFICES ASSUME NEW p \in open'
               PROVE  \E b \in Bridges, c \in Clients : p \in Listeners(fwd'[b][c])
    OBVIOUS
  <2>1. PICK b \in Bridges, c \in Clients : p \in Listeners(fwd[b][c])
    BY <1>1 DEF Owned
  <2>2. b # cur \/ c \notin cs
    BY <1>1, <2>1
  <2> QED BY <1>1, <2>1, <2>2
<1>5. \A b1, b2 \in Bridges, c1, c2 \in Clients :
        b1 # b2 \/ c1 # c2 => Listeners(fwd'[b1][c1]) \cap Listeners(fwd'[b2][c2]) = {}
  <2>1. \A b \in Bridges, c \in Clients : Listeners(fwd'[b][c]) \subseteq Listeners(fwd[b][c])
    BY <1>1
  <2> QED BY <2>1 DEF Owned
<1> QED BY <1>2, <1>3, <1>4, <1>5 DEF Owned

\* A pair that is free in the host goes to an entry that has none.
LEMMA OwnedPair ==
  ASSUME Owned, Table, NEW c \in Clients, cur \in Bridges, NEW q \in ServerPorts, NEW e,
         fwd[cur][c] = e, e \in UDPEntry, e.pair = None,
         q + 1 \in ServerPorts, q \notin open \cup others, q + 1 \notin open \cup others,
         fwd' = [fwd EXCEPT ![cur][c].pair = q], open' = open \cup {q, q + 1}, others' = others
  PROVE  Owned'
<1> DEFINE x == [e EXCEPT !.pair = q]
<1>1. fwd' = [fwd EXCEPT ![cur][c] = x]
  OBVIOUS
<1>2. x \in Entry \cup {None} /\ x \in UDPEntry /\ x.pair = q /\ q # None
  BY PairGiven, Numbers, Kinds DEF Entry
<1> HIDE DEF x
<1>3. /\ fwd'[cur][c] = x
      /\ \A b \in Bridges, d \in Clients : b # cur \/ d # c => fwd'[b][d] = fwd[b][d]
  BY <1>1, <1>2, Put
<1>4. Listeners(fwd'[cur][c]) = {q, q + 1} /\ Listeners(fwd[cur][c]) = {}
  BY <1>2, <1>3, WhoListens
<1>5. \A b \in Bridges, d \in Clients : b # cur \/ d # c => Listeners(fwd'[b][d]) = Listeners(fwd[b][d])
  BY <1>3
<1>6. open' \subseteq ServerPorts /\ others' \subseteq ServerPorts \ open'
  BY DEF Owned
<1>7. \A b \in Bridges, d \in Clients : Listeners(fwd'[b][d]) \subseteq open'
  BY <1>4, <1>5 DEF Owned
<1>8. \A p \in open' : \E b \in Bridges, d \in Clients : p \in Listeners(fwd'[b][d])
  <2> SUFFICES ASSUME NEW p \in open'
               PROVE  \E b \in Bridges, d \in Clients : p \in Listeners(fwd'[b][d])
    OBVIOUS
  <2>1. CASE p \in {q, q + 1}
    BY <1>4, <2>1
  <2>2. CASE p \in open
    <3>1. PICK b \in Bridges, d \in Clients : p \in Listeners(fwd[b][d])
      BY <2>2 DEF Owned
    <3> QED BY <3>1, <1>4, <1>5
  <2> QED BY <2>1, <2>2
<1>9. \A b1, b2 \in Bridges, c1, c2 \in Clients :
        b1 # b2 \/ c1 # c2 => Listeners(fwd'[b1][c1]) \cap Listeners(fwd'[b2][c2]) = {}
  <2> SUFFICES ASSUME NEW b1 \in Bridges, NEW b2 \in Bridges, NEW c1 \in Clients, NEW c2 \in Clients,
                      b1 # b2 \/ c1 # c2
               PROVE  Listeners(fwd'[b1][c1]) \cap Listeners(fwd'[b2][c2]) = {}
    OBVIOUS
  <2>1. \A b \in Bridges, d \in Clients : Listeners(fwd[b][d]) \cap {q, q + 1} = {}
    BY DEF Owned
  <2>2. CASE b1 = cur /\ c1 = c
    BY <2>1, <2>2, <1>4, <1>5
  <2>3. CASE b2 = cur /\ c2 = c
    BY <2>1, <2>3, <1>4, <1>5
  <2>4. CASE ~(b1 = cur /\ c1 = c) /\ ~(b2 = cur /\ c2 = c)
    BY <2>4, <1>5 DEF Owned
  <2> QED BY <2>2, <2>3, <2>4
<1> QED BY <1>6, <1>7, <1>8, <1>9 DEF Owned

-----------------------------------------------------------------------------
\* What the steps do to the sessions and to the table.

Onward(c) == \/ conn'[c] = conn[c]
             \/ conn[c] = "new" /\ conn'[c] = "in"
             \/ conn[c] = "in" /\ conn'[c] = "closing"

\* Steps that leave the sessions and the table alone.
LEMMA QuietStep ==
  ASSUME IInv, UNCHANGED <<mode, ports, chans, asked, redone, fwd, open>>,
         others' \subseteq ServerPorts \ open, cur' \in Bridges, cur' = cur \/ cur' = cur + 1,
         \A b \in ended : b \in ended', \A c \in Clients : Onward(c)
  PROVE  Serving'
<1> USE DEF IInv, Serving
<1>1. Table'
  BY DEF Table
<1>2. Owned'
  BY DEF Owned
<1>3. \A c \in Clients : (conn'[c] = "gone") = (conn[c] = "gone")
  BY DEF Onward, Plain
<1>4. Cleared'
  <2>1. cur \in Nat /\ cur' \in Nat /\ cur <= cur' /\ (cur' = cur \/ cur' > cur) /\ \A b \in Bridges : b \in Nat
    BY Numbers DEF Attempts, Bridges
  <2>2. \A c \in Clients, b \in Bridges : b > cur' => fwd[b][c] = None
    BY <2>1 DEF Cleared
  <2>3. \A c \in Clients, t \in Tracks : asked[c][t] # None => asked[c][t].bridge <= cur'
    <3>1. \A c \in Clients, t \in Tracks : asked[c][t] # None => asked[c][t].bridge \in Nat
      BY <2>1 DEF Table, Answers
    <3> QED BY <2>1, <3>1 DEF Cleared
  <2>4. \A c \in Clients : conn[c] = "gone" => fwd[cur'][c] = None
    BY <2>1 DEF Cleared
  <2> QED BY <1>3, <2>2, <2>3, <2>4 DEF Cleared
<1>5. Modes'
  BY <1>3 DEF Modes
<1>6. Recorded'
  BY DEF Recorded, Onward
<1>7. Undialed'
  BY <1>3 DEF Undialed
<1>8. SentAsAsked'
  <2> SUFFICES ASSUME NEW c \in Clients, NEW t \in Tracks, conn'[c] = "in", asked[c][t] # None
               PROVE  LET e == fwd[cur'][c] IN
                      /\ asked[c][t].bridge = cur' /\ cur' \notin ended' =>
                           e # None /\ (mode[c] = "UDP" /\ t = "back" => e.pair = asked[c][t].dest)
                      /\ e # None /\ (mode[c] = "TCP" \/ t \in Road \ redone[c]) =>
                           Destination(e, t) = asked[c][t].dest
    BY DEF SentAsAsked, Road
  <2>1. CASE cur' = cur
    <3>1. conn[c] = "in"
      BY DEF Onward, Recorded
    <3> QED BY <2>1, <3>1 DEF SentAsAsked, Road
  <2>2. CASE cur' = cur + 1
    <3>1. cur \in Nat /\ cur + 1 > cur /\ asked[c][t].bridge <= cur /\ asked[c][t].bridge \in Nat
      BY Numbers DEF Attempts, Bridges, Cleared, Table, Answers
    <3>2. fwd[cur'][c] = None
      BY <2>2, <3>1 DEF Cleared
    <3> QED BY <2>2, <3>1, <3>2
  <2> QED BY <2>1, <2>2
<1> QED BY <1>1, <1>2, <1>4, <1>5, <1>6, <1>7, <1>8

\* The bridge that the stream holds is stopped.
LEMMA StopStep ==
  ASSUME IInv, UNCHANGED <<mode, ports, chans, asked, redone, cur, others>>,
         Without(cur, Clients), ended' = ended \cup {cur}, \A c \in Clients : Onward(c)
  PROVE  Serving'
<1> USE DEF IInv, Serving
<1>0. cur \in Bridges
  BY DEF Attempts
<1>1. /\ fwd' \in [Bridges -> [Clients -> Entry \cup {None}]]
      /\ \A c \in Clients : fwd'[cur][c] = None
      /\ \A b \in Bridges, c \in Clients : b # cur => fwd'[b][c] = fwd[b][c]
  <2>1. Clients \in SUBSET Clients
    OBVIOUS
  <2> HIDE DEF IInv, Serving
  <2>2. Table
    BY DEF IInv, Serving
  <2> QED BY <2>1, <2>2, <1>0, Cut
<1>2. Table'
  BY <1>1 DEF Table
<1>3. Owned'
  <2>1. Clients \in SUBSET Clients
    OBVIOUS
  <2> QED BY <2>1, <1>0, OwnedCut
<1>4. \A c \in Clients : (conn'[c] = "gone") = (conn[c] = "gone")
  BY DEF Onward, Plain
<1>5. Cleared'
  BY <1>0, <1>1, <1>4, Numbers DEF Cleared, Attempts, Bridges
<1>6. Modes'
  BY <1>1, <1>4 DEF Modes
<1>7. Recorded'
  BY DEF Recorded, Onward
<1>8. Undialed'
  BY <1>1, <1>4 DEF Undialed
<1>9. SentAsAsked'
  <2>1. cur' = cur /\ cur \in ended' /\ \A c \in Clients : fwd'[cur][c] = None
    BY <1>1
  <2> QED BY <2>1 DEF SentAsAsked
<1> QED BY <1>2, <1>3, <1>5, <1>6, <1>7, <1>8, <1>9

LEMMA RemoveStep ==
  ASSUME IInv, NEW c \in Clients, RemoveClient(c)
  PROVE  Serving'
<1> USE DEF IInv, Serving
<1>0. cur \in Bridges /\ {c} \in SUBSET Clients
  BY DEF Attempts
<1>1. /\ Without(cur, {c}) /\ UNCHANGED <<cur, connected, ended, others>>
      /\ conn[c] = "closing" /\ conn' = [conn EXCEPT ![c] = "gone"] /\ ForgetSession(c)
  BY DEF RemoveClient, links
<1>2. /\ fwd' \in [Bridges -> [Clients -> Entry \cup {None}]]
      /\ fwd'[cur][c] = None
      /\ \A b \in Bridges, d \in Clients : b # cur \/ d # c => fwd'[b][d] = fwd[b][d]
  BY <1>0, <1>1, Cut
<1>3. /\ conn'[c] = "gone" /\ mode'[c] = None
      /\ \A t \in Tracks : asked'[c][t] = None
      /\ \A t \in Road : ports'[c][t] = 0
  BY <1>1 DEF ForgetSession, Plain, Table, NotAsked, NoPorts, Road
<1>4. \A d \in Clients : d # c => /\ conn'[d] = conn[d] /\ mode'[d] = mode[d] /\ asked'[d] = asked[d]
                                  /\ ports'[d] = ports[d] /\ chans'[d] = chans[d] /\ redone'[d] = redone[d]
  BY <1>1 DEF ForgetSession, Plain, Table
<1>5. Table'
  <2>1. NotAsked \in [Tracks -> Answers \cup {None}]
    BY DEF NotAsked
  <2>2. asked' \in [Clients -> [Tracks -> Answers \cup {None}]]
    BY <2>1, <1>1 DEF Table, ForgetSession
  <2> QED BY <1>2, <2>2 DEF Table
<1>6. Owned'
  BY <1>0, <1>1, OwnedCut
<1>7. Cleared'
  BY <1>0, <1>1, <1>2, <1>3, <1>4, Numbers DEF Cleared, Attempts, Bridges
<1>8. Modes'
  BY <1>2, <1>3, <1>4 DEF Modes
<1>9. Recorded'
  BY <1>3, <1>4, Kinds DEF Recorded
<1>10. Undialed'
  BY <1>2, <1>3, <1>4 DEF Undialed
<1>11. SentAsAsked'
  <2> SUFFICES ASSUME NEW d \in Clients, NEW t \in Tracks, conn'[d] = "in", asked'[d][t] # None
               PROVE  LET e == fwd'[cur][d] IN
                      /\ asked'[d][t].bridge = cur /\ cur \notin ended =>
                           e # None /\ (mode'[d] = "UDP" /\ t = "back" => e.pair = asked'[d][t].dest)
                      /\ e # None /\ (mode'[d] = "TCP" \/ t \in Road \ redone'[d]) =>
                           Destination(e, t) = asked'[d][t].dest
    BY <1>1 DEF SentAsAsked, Road
  <2>1. d # c
    BY <1>3
  <2>2. fwd'[cur][d] = fwd[cur][d]
    BY <1>0, <1>2, <2>1
  <2> QED BY <2>1, <2>2, <1>4 DEF SentAsAsked, Road
<1> QED BY <1>5, <1>6, <1>7, <1>8, <1>9, <1>10, <1>11

\* A dead entry that the packet path drops has no listeners.
LEMMA DropStep ==
  ASSUME IInv, NEW c \in Clients, DropDeadClient(c)
  PROVE  Serving'
<1> USE DEF IInv, Serving
<1>0. cur \in Bridges
  BY DEF Attempts
<1>1. /\ UNCHANGED <<conn, mode, ports, chans, asked, redone, cur, ended, open, others>>
      /\ conn[c] = "closing" /\ fwd[cur][c] # None /\ fwd[cur][c].mode = "TCP"
      /\ fwd' = [fwd EXCEPT ![cur][c] = None]
  BY DEF DropDeadClient, links, session
<1>2. /\ fwd' \in [Bridges -> [Clients -> Entry \cup {None}]]
      /\ fwd'[cur][c] = None
      /\ \A b \in Bridges, d \in Clients : b # cur \/ d # c => fwd'[b][d] = fwd[b][d]
  BY <1>0, <1>1, Put
<1>3. Table'
  BY <1>1, <1>2 DEF Table
<1>4. Owned'
  <2>1. fwd[cur][c] \in TCPEntry
    BY <1>0, <1>1, Kinds DEF Table
  <2>2. Listeners(fwd[cur][c]) = {} /\ Listeners(fwd'[cur][c]) = {}
    BY <2>1, <1>2, WhoListens
  <2>3. \A b \in Bridges, d \in Clients : Listeners(fwd'[b][d]) = Listeners(fwd[b][d])
    BY <2>2, <1>2
  <2> QED BY <2>3, <1>1, OwnedKept
<1>5. Cleared'
  BY <1>0, <1>1, <1>2, Numbers DEF Cleared, Attempts, Bridges
<1>6. Modes'
  BY <1>1, <1>2 DEF Modes
<1>7. Recorded'
  BY <1>1 DEF Recorded
<1>8. Undialed'
  BY <1>1, <1>2 DEF Undialed
<1>9. SentAsAsked'
  <2> SUFFICES ASSUME NEW d \in Clients, NEW t \in Tracks, conn[d] = "in", asked[d][t] # None
               PROVE  LET e == fwd'[cur][d] IN
                      /\ asked[d][t].bridge = cur /\ cur \notin ended =>
                           e # None /\ (mode[d] = "UDP" /\ t = "back" => e.pair = asked[d][t].dest)
                      /\ e # None /\ (mode[d] = "TCP" \/ t \in Road \ redone[d]) =>
                           Destination(e, t) = asked[d][t].dest
    BY <1>1 DEF SentAsAsked, Road
  <2>1. d # c
    BY <1>1
  <2>2. fwd'[cur][d] = fwd[cur][d]
    BY <1>0, <1>2, <2>1
  <2> QED BY <2>2 DEF SentAsAsked, Road
<1> QED BY <1>3, <1>4, <1>5, <1>6, <1>7, <1>8, <1>9

-----------------------------------------------------------------------------
\* What an answered or a refused SETUP does.

\* A session's entries are all of the transport it has chosen.
LEMMA OneTransport ==
  ASSUME IInv, NEW c \in Clients, InRequest(c)
  PROVE  /\ conn[c] \in {"in", "closing"}
         /\ mode[c] \in {None, "UDP"} => \A b \in Bridges : fwd[b][c] \in UDPEntry \cup {None}
         /\ mode[c] \in {None, "TCP"} => \A b \in Bridges : fwd[b][c] \in TCPEntry \cup {None}
<1>1. conn[c] \in {"in", "closing"}
  BY DEF InRequest
<1>2. \A b \in Bridges : fwd[b][c] # None => fwd[b][c].mode = mode[c] /\ fwd[b][c] \in Entry
  BY <1>1 DEF IInv, Serving, Modes, Table
<1> QED BY <1>1, <1>2, Kinds

LEMMA RefuseStep ==
  ASSUME IInv, NEW c \in Clients, RefuseBackchannel(c)
  PROVE  Serving'
<1> USE DEF IInv, Serving
<1>1. /\ UNCHANGED <<conn, ports, chans, asked, redone, cur, connected, ended, fwd, open, others>>
      /\ InRequest(c) /\ mode[c] \in {None, "UDP"} /\ mode' = [mode EXCEPT ![c] = "UDP"]
  BY DEF RefuseBackchannel, links, table
<1>2. \A d \in Clients : mode'[d] = IF d = c THEN "UDP" ELSE mode[d]
  BY <1>1 DEF Plain
<1>3. conn[c] \in {"in", "closing"} /\ \A b \in Bridges : fwd[b][c] \in UDPEntry \cup {None}
  BY <1>1, OneTransport
<1>4. Table' /\ Owned' /\ Cleared'
  BY <1>1 DEF Table, Owned, Cleared
<1>5. Modes'
  BY <1>1, <1>2, <1>3, Kinds DEF Modes
<1>6. Recorded' /\ Undialed'
  <2>1. Recorded'
    BY <1>1, <1>2, <1>3, Kinds DEF Recorded, Road, Tracks
  <2>2. Undialed'
    BY <1>1 DEF Undialed
  <2> QED BY <2>1, <2>2
<1>7. SentAsAsked'
  <2>1. \A d \in Clients, u \in Tracks : asked[d][u] # None => mode'[d] = mode[d]
    BY <1>1, <1>2 DEF Recorded
  <2> QED BY <2>1, <1>1 DEF SentAsAsked
<1> QED BY <1>4, <1>5, <1>6, <1>7

\* The effect of a SETUP of track t that is answered with destination d: the
\* session has transport k, and entry x in the forwarder of the stream's bridge.
Effect(c, t, k, x, d) ==
  /\ conn' = conn /\ cur' = cur /\ ended' = ended
  /\ \A e \in Clients : mode'[e] = IF e = c THEN k ELSE mode[e]
  /\ \A e \in Clients : e # c => chans'[e] = chans[e] /\ ports'[e] = ports[e]
  /\ \A e \in Clients : e # c => redone'[e] = redone[e]
  /\ redone[c] \subseteq redone'[c] /\ (asked[c][t] # None => t \in redone'[c])
  /\ asked' \in [Clients -> [Tracks -> Answers \cup {None}]]
  /\ asked'[c][t] = [bridge |-> cur, dest |-> d]
  /\ \A e \in Clients, u \in Tracks : e # c \/ u # t => asked'[e][u] = asked[e][u]
  /\ fwd' \in [Bridges -> [Clients -> Entry \cup {None}]] /\ fwd'[cur][c] = x
  /\ \A b \in Bridges, e \in Clients : b # cur \/ e # c => fwd'[b][e] = fwd[b][e]

\* What the entry and the session's record have to agree on.
Fits(c, k, x) ==
  /\ k = "TCP" => \A u \in Tracks : asked'[c][u] # None => chans'[c][u] = asked'[c][u].dest
  /\ k = "UDP" => \A u \in Road : asked'[c][u] # None => Named(ports'[c][u], asked'[c][u].dest)
  /\ \A u \in Road : asked'[c][u] = None => ports'[c][u] = 0
  /\ k = "UDP" => \A u \in Road : asked'[c][u] = None => x.dest[u] = None
  /\ conn[c] = "in" => \A u \in Tracks : asked'[c][u] # None =>
       /\ k = "TCP" \/ u \in Road \ redone'[c] => Destination(x, u) = asked'[c][u].dest
       /\ k = "UDP" /\ u = "back" /\ asked'[c][u].bridge = cur /\ cur \notin ended => x.pair = asked'[c][u].dest

LEMMA SetupStep ==
  ASSUME IInv, NEW c \in Clients, NEW t \in Tracks, NEW k \in {"UDP", "TCP"}, NEW x \in Entry, NEW d \in Nat,
         InRequest(c), mode[c] \in {None, k}, x.mode = k, Owned',
         Effect(c, t, k, x, d), Fits(c, k, x)
  PROVE  Serving'
<1>p. Plain /\ Attempts /\ Table /\ Cleared /\ Modes /\ Recorded /\ Undialed /\ SentAsAsked
  BY DEF IInv, Serving
<1>0. cur \in Bridges /\ conn[c] \in {"in", "closing"} /\ x # None /\ k # None
  BY <1>p, Kinds DEF Attempts, InRequest
<1>1. conn' = conn /\ cur' = cur /\ ended' = ended
  BY DEF Effect
<1>2. \A e \in Clients : mode'[e] = IF e = c THEN k ELSE mode[e]
  BY DEF Effect
<1>3. \A e \in Clients : e # c => chans'[e] = chans[e] /\ ports'[e] = ports[e] /\ redone'[e] = redone[e]
  BY DEF Effect
<1>4. redone[c] \subseteq redone'[c]
  BY DEF Effect
<1>5. /\ asked' \in [Clients -> [Tracks -> Answers \cup {None}]]
      /\ asked'[c][t] = [bridge |-> cur, dest |-> d]
      /\ \A e \in Clients, u \in Tracks : e # c \/ u # t => asked'[e][u] = asked[e][u]
  BY DEF Effect
<1>6. /\ fwd' \in [Bridges -> [Clients -> Entry \cup {None}]] /\ fwd'[cur][c] = x
      /\ \A b \in Bridges, e \in Clients : b # cur \/ e # c => fwd'[b][e] = fwd[b][e]
  BY DEF Effect
<1>7. \A b \in Bridges : fwd[b][c] # None => fwd[b][c].mode = k
  BY <1>p, <1>0, OneTransport, Kinds
<1>8. \A u \in Tracks : asked[c][u] # None => mode[c] = k
  BY <1>p DEF Recorded
<1>9. Table'
  BY <1>5, <1>6 DEF Table
<1>10. Cleared'
  <2> SUFFICES ASSUME NEW e \in Clients
               PROVE  /\ \A b \in Bridges : b > cur => fwd'[b][e] = None
                      /\ \A u \in Tracks : asked'[e][u] # None => asked'[e][u].bridge <= cur
                      /\ conn[e] = "gone" => fwd'[cur][e] = None
    BY <1>1 DEF Cleared
  <2>4. \A u \in Tracks : asked'[e][u] # None => asked'[e][u].bridge <= cur
    <3>1. cur <= cur
      BY <1>0, Numbers DEF Bridges
    <3> QED BY <3>1, <1>5, <1>p DEF Cleared
  <2>1. \A b \in Bridges : b > cur => b # cur
    BY <1>0, Numbers DEF Bridges
  <2>2. CASE e = c
    BY <1>0, <1>6, <1>p, <2>1, <2>2, <2>4 DEF Cleared
  <2>3. CASE e # c
    BY <1>0, <1>6, <1>p, <2>3, <2>4 DEF Cleared
  <2> QED BY <2>2, <2>3
<1>11. Modes'
  <2> SUFFICES ASSUME NEW b \in Bridges, NEW e \in Clients, conn[e] # "gone", fwd'[b][e] # None
               PROVE  fwd'[b][e].mode = mode'[e]
    BY <1>1 DEF Modes
  <2>1. CASE e = c /\ b = cur
    BY <2>1, <1>2, <1>6
  <2>2. CASE e = c /\ b # cur
    BY <2>2, <1>2, <1>6, <1>7
  <2>3. CASE e # c
    BY <2>3, <1>2, <1>6, <1>p DEF Modes
  <2> QED BY <2>1, <2>2, <2>3
<1>12. Recorded'
  <2> SUFFICES ASSUME NEW e \in Clients
               PROVE  /\ conn[e] = "new" => mode'[e] = None
                      /\ mode'[e] = None => \A u \in Tracks : asked'[e][u] = None
                      /\ mode'[e] = "TCP" => \A u \in Tracks : asked'[e][u] # None => chans'[e][u] = asked'[e][u].dest
                      /\ mode'[e] = "UDP" => \A u \in Road : asked'[e][u] # None => Named(ports'[e][u], asked'[e][u].dest)
                      /\ \A u \in Road : asked'[e][u] = None => ports'[e][u] = 0
    BY <1>1 DEF Recorded, Named
  <2>1. CASE e = c
    BY <2>1, <1>0, <1>2 DEF Fits
  <2>2. CASE e # c
    BY <2>2, <1>2, <1>3, <1>5, <1>p DEF Recorded, Road, Tracks
  <2> QED BY <2>1, <2>2
<1>13. Undialed'
  <2> SUFFICES ASSUME NEW e \in Clients, NEW b \in Bridges, NEW u \in Road, conn[e] # "gone",
                      asked'[e][u] = None, fwd'[b][e] # None, fwd'[b][e].mode = "UDP"
               PROVE  fwd'[b][e].dest[u] = None
    BY <1>1 DEF Undialed
  <2>1. CASE e = c /\ b = cur
    BY <2>1, <1>6 DEF Fits
  <2>2. asked'[c][t] # None
    BY <1>5, <1>0, Kinds DEF Answers
  <2>3. e # c \/ u # t
    BY <2>2
  <2>4. asked[e][u] = None
    BY <2>3, <1>5 DEF Road, Tracks
  <2>5. CASE e # c \/ b # cur
    <3>1. fwd'[b][e] = fwd[b][e]
      BY <2>5, <1>6
    <3> QED BY <3>1, <2>4, <1>p DEF Undialed
  <2> QED BY <2>1, <2>5
<1>14. SentAsAsked'
  <2> SUFFICES ASSUME NEW e \in Clients, NEW u \in Tracks, conn[e] = "in", asked'[e][u] # None
               PROVE  LET y == fwd'[cur][e] IN
                      /\ asked'[e][u].bridge = cur /\ cur \notin ended =>
                           y # None /\ (mode'[e] = "UDP" /\ u = "back" => y.pair = asked'[e][u].dest)
                      /\ y # None /\ (mode'[e] = "TCP" \/ u \in Road \ redone'[e]) =>
                           Destination(y, u) = asked'[e][u].dest
    BY <1>1 DEF SentAsAsked, Road
  <2>1. CASE e = c
    BY <2>1, <1>0, <1>2, <1>6 DEF Fits
  <2>2. CASE e # c
    <3>1. asked'[e][u] = asked[e][u] /\ fwd'[cur][e] = fwd[cur][e]
      BY <2>2, <1>0, <1>5, <1>6
    <3>2. mode'[e] = mode[e] /\ redone'[e] = redone[e]
      BY <2>2, <1>2, <1>3
    <3> QED BY <3>1, <3>2, <1>p DEF SentAsAsked, Road
  <2> QED BY <2>1, <2>2
<1> QED BY <1>9, <1>10, <1>11, <1>12, <1>13, <1>14 DEF Serving

\* A request that names its destination changes the session as Effect says.
LEMMA Effected ==
  ASSUME IInv, NEW c \in Clients, NEW t \in Tracks, NEW k \in {"UDP", "TCP"}, NEW x \in Entry, NEW d \in Nat,
         UNCHANGED <<conn, cur, ended>>, mode' = [mode EXCEPT ![c] = k],
         \A e \in Clients : e # c => chans'[e] = chans[e] /\ ports'[e] = ports[e],
         fwd' = [fwd EXCEPT ![cur][c] = x], Answer(c, t, d)
  PROVE  Effect(c, t, k, x, d)
<1>1. Table /\ cur \in Bridges /\ redone \in [Clients -> SUBSET Tracks] /\ mode \in [Clients -> {None, "UDP", "TCP"}]
  BY DEF IInv, Serving, Attempts, Plain
<1>2. x \in Entry \cup {None}
  OBVIOUS
<1>3. /\ fwd' \in [Bridges -> [Clients -> Entry \cup {None}]] /\ fwd'[cur][c] = x
      /\ \A b \in Bridges, e \in Clients : b # cur \/ e # c => fwd'[b][e] = fwd[b][e]
  BY <1>1, <1>2, Put
<1>4. /\ asked' \in [Clients -> [Tracks -> Answers \cup {None}]]
      /\ asked'[c][t] = [bridge |-> cur, dest |-> d]
      /\ \A e \in Clients, u \in Tracks : e # c \/ u # t => asked'[e][u] = asked[e][u]
      /\ \A e \in Clients : redone[e] \subseteq redone'[e]
      /\ asked[c][t] # None => t \in redone'[c]
      /\ \A e \in Clients : e # c => redone'[e] = redone[e]
  BY <1>1, Told
<1>5. \A e \in Clients : mode'[e] = IF e = c THEN k ELSE mode[e]
  BY <1>1
<1> QED BY <1>3, <1>4, <1>5 DEF Effect

LEMMA TCPStep ==
  ASSUME IInv, NEW c \in Clients, SetupTCP(c)
  PROVE  Serving'
<1>p. Plain /\ Table /\ Owned /\ Recorded /\ cur \in Bridges
  BY DEF IInv, Serving, Attempts
<1>1. /\ InRequest(c) /\ mode[c] \in {None, "TCP"} /\ mode' = [mode EXCEPT ![c] = "TCP"]
      /\ UNCHANGED <<conn, ports, cur, ended, open, others>>
  BY DEF SetupTCP, links
<1>2. PICK t \in Tracks, ch \in AllChannels :
        /\ chans' = [chans EXCEPT ![c][t] = ch]
        /\ fwd' = [fwd EXCEPT ![cur][c] = AddTCPClient(@, chans'[c])]
        /\ Answer(c, t, ch)
  <2>1. \A t \in Offered : t \in Tracks /\ Channels \cup {DefaultChannel[t]} \subseteq AllChannels
    BY DEF Offered, AllChannels
  <2> QED BY <2>1 DEF SetupTCP
<1>3. /\ chans'[c] \in [Tracks -> AllChannels] /\ chans'[c][t] = ch
      /\ \A u \in Tracks : u # t => chans'[c][u] = chans[c][u]
      /\ \A e \in Clients : e # c => chans'[e] = chans[e]
  BY <1>p, <1>2 DEF Plain
<1> DEFINE x == AddTCPClient(fwd[cur][c], chans'[c])
<1>4. fwd[cur][c] \in TCPEntry \cup {None}
  BY <1>1, <1>p, OneTransport
<1>5. x \in TCPEntry /\ x.dest = chans'[c]
  BY <1>3, <1>4, TCPGiven
<1>6. x \in Entry /\ x.mode = "TCP" /\ x # None
  BY <1>5, Kinds DEF Entry
<1>7. fwd' = [fwd EXCEPT ![cur][c] = x]
  BY <1>2
<1> HIDE DEF x
<1>8. ch \in Nat
  BY Numbers
<1>9. \A e \in Clients : e # c => chans'[e] = chans[e] /\ ports'[e] = ports[e]
  BY <1>1, <1>3
<1>10. Effect(c, t, "TCP", x, ch)
  BY <1>1, <1>2, <1>6, <1>7, <1>8, <1>9, Effected
<1>11. Owned'
  <2>1. fwd'[cur][c] = x /\ \A b \in Bridges, e \in Clients : b # cur \/ e # c => fwd'[b][e] = fwd[b][e]
    BY <1>10 DEF Effect
  <2>2. Listeners(fwd[cur][c]) = {} /\ Listeners(x) = {}
    BY <1>4, <1>5, WhoListens
  <2>3. \A b \in Bridges, e \in Clients : Listeners(fwd'[b][e]) = Listeners(fwd[b][e])
    BY <2>1, <2>2
  <2> QED BY <1>p, <1>1, <2>3, OwnedKept
<1>12. Fits(c, "TCP", x)
  <2>1. asked'[c][t] = [bridge |-> cur, dest |-> ch] /\ \A u \in Tracks : u # t => asked'[c][u] = asked[c][u]
    BY <1>10 DEF Effect
  <2>2. \A u \in Tracks : asked'[c][u] # None => chans'[c][u] = asked'[c][u].dest
    <3> SUFFICES ASSUME NEW u \in Tracks, asked'[c][u] # None PROVE chans'[c][u] = asked'[c][u].dest
      OBVIOUS
    <3>1. CASE u = t
      BY <3>1, <2>1, <1>3
    <3>2. CASE u # t
      <4>1. asked[c][u] # None /\ mode[c] = "TCP"
        BY <3>2, <2>1, <1>1, <1>p DEF Recorded
      <4> QED BY <4>1, <3>2, <2>1, <1>3, <1>p DEF Recorded
    <3> QED BY <3>1, <3>2
  <2>3. \A u \in Road : asked'[c][u] = None => ports'[c][u] = 0
    <3> SUFFICES ASSUME NEW u \in Road, asked'[c][u] = None PROVE ports'[c][u] = 0
      OBVIOUS
    <3>1. asked'[c][t] # None
      BY <2>1, <1>8, <1>p, Kinds DEF Answers
    <3>2. asked[c][u] = None
      BY <3>1, <2>1 DEF Road, Tracks
    <3> QED BY <3>2, <1>1, <1>p DEF Recorded
  <2>4. \A u \in Tracks : asked'[c][u] # None => Destination(x, u) = asked'[c][u].dest
    BY <2>2, <1>5 DEF Destination
  <2> QED BY <2>2, <2>3, <2>4 DEF Fits
<1> QED BY <1>1, <1>6, <1>8, <1>10, <1>11, <1>12, SetupStep

LEMMA UDPStep ==
  ASSUME IInv, NEW c \in Clients, SetupUDP(c)
  PROVE  Serving'
<1>p. Plain /\ Table /\ Owned /\ Recorded /\ Undialed /\ SentAsAsked /\ cur \in Bridges
  BY DEF IInv, Serving, Attempts
<1>1. /\ InRequest(c) /\ mode[c] \in {None, "UDP"} /\ mode' = [mode EXCEPT ![c] = "UDP"]
      /\ UNCHANGED <<conn, chans, cur, ended, open, others>>
  BY DEF SetupUDP, links
<1>2. PICK t \in Road, port \in ClientPorts :
        /\ ports' = [ports EXCEPT ![c][t] = port]
        /\ fwd' = [fwd EXCEPT ![cur][c] = AddUDPClient(@, ports'[c])]
        /\ Answer(c, t, port)
  BY DEF SetupUDP, Road
<1>3. /\ ports'[c] \in [Road -> ClientPorts \cup {0}] /\ ports'[c][t] = port
      /\ \A u \in Road : u # t => ports'[c][u] = ports[c][u]
      /\ \A e \in Clients : e # c => ports'[e] = ports[e]
  BY <1>p, <1>2 DEF Plain
<1> DEFINE old == fwd[cur][c]
           x == AddUDPClient(old, ports'[c])
<1>4. old \in UDPEntry \cup {None}
  BY <1>1, <1>p, OneTransport
<1>7. fwd' = [fwd EXCEPT ![cur][c] = x]
  BY <1>2
<1> HIDE DEF old
<1>5. /\ x \in UDPEntry
      /\ x.pair = (IF old = None THEN None ELSE old.pair)
      /\ \A u \in Road : x.dest[u] = (IF old # None /\ old.dest[u] # None THEN old.dest[u]
                                      ELSE IF ports'[c][u] > 0 THEN ports'[c][u] ELSE None)
  BY <1>3, <1>4, UDPGiven
<1>6. x \in Entry /\ x.mode = "UDP" /\ x # None
  BY <1>5, Kinds DEF Entry
<1> HIDE DEF x
<1>8. port \in Nat /\ port > 0 /\ t \in Tracks /\ t # "back"
  BY Numbers DEF Road, Tracks
<1>9. \A e \in Clients : e # c => chans'[e] = chans[e] /\ ports'[e] = ports[e]
  BY <1>1, <1>3
<1>10. Effect(c, t, "UDP", x, port)
  BY <1>1, <1>2, <1>6, <1>7, <1>8, <1>9, Effected
<1>11. Owned'
  <2>1. fwd'[cur][c] = x /\ \A b \in Bridges, e \in Clients : b # cur \/ e # c => fwd'[b][e] = fwd[b][e]
    BY <1>10 DEF Effect
  <2>2. Listeners(old) = Listeners(x)
    BY <1>4, <1>5, WhoListens
  <2>3. \A b \in Bridges, e \in Clients : Listeners(fwd'[b][e]) = Listeners(fwd[b][e])
    BY <2>1, <2>2 DEF old
  <2> QED BY <1>p, <1>1, <2>3, OwnedKept
<1>12. Fits(c, "UDP", x)
  <2>1. asked'[c][t] = [bridge |-> cur, dest |-> port] /\ \A u \in Tracks : u # t => asked'[c][u] = asked[c][u]
    BY <1>10 DEF Effect
  <2>2. redone[c] \subseteq redone'[c] /\ (asked[c][t] # None => t \in redone'[c])
    BY <1>10 DEF Effect
  <2>3. asked'[c][t] # None
    BY <2>1, <1>8, <1>p, Kinds DEF Answers
  <2>4. \A u \in Road : asked'[c][u] = None => u # t /\ asked[c][u] = None
    BY <2>1, <2>3 DEF Road, Tracks
  <2>5. \A u \in Road : asked'[c][u] = None => ports'[c][u] = 0
    BY <2>4, <1>3, <1>p DEF Recorded
  <2>6. \A u \in Road : asked[c][u] = None /\ old # None => old.dest[u] = None
    <3>1. conn[c] # "gone" /\ (old # None => old.mode = "UDP")
      BY <1>1, <1>4, Kinds DEF InRequest
    <3> QED BY <3>1, <1>p DEF Undialed, old
  <2>7. \A u \in Road : asked'[c][u] = None => x.dest[u] = None
    BY <2>4, <2>5, <2>6, <1>5
  <2>8. \A u \in Road : asked'[c][u] # None => Named(ports'[c][u], asked'[c][u].dest)
    <3> SUFFICES ASSUME NEW u \in Road, asked'[c][u] # None PROVE Named(ports'[c][u], asked'[c][u].dest)
      OBVIOUS
    <3>1. CASE u = t
      BY <3>1, <2>1, <1>3, <1>8 DEF Named
    <3>2. CASE u # t
      <4>1. asked'[c][u] = asked[c][u] /\ ports'[c][u] = ports[c][u] /\ u \in Tracks
        BY <3>2, <2>1, <1>3 DEF Road, Tracks
      <4>2. mode[c] = "UDP"
        BY <4>1, <1>1, <1>p DEF Recorded
      <4> QED BY <4>1, <4>2, <1>p DEF Recorded
    <3> QED BY <3>1, <3>2
  <2>9. ASSUME conn[c] = "in", NEW u \in Road, asked'[c][u] # None, u \notin redone'[c]
        PROVE  Destination(x, u) = asked'[c][u].dest
    <3>1. Named(ports'[c][u], asked'[c][u].dest)
      BY <2>8, <2>9
    <3>2. CASE old = None \/ old.dest[u] = None
      BY <3>1, <3>2, <1>5 DEF Named, Destination
    <3>3. CASE old # None /\ old.dest[u] # None
      <4>1. u # t /\ asked[c][u] # None
        BY <3>3, <2>2, <2>6, <2>9
      <4>2. asked'[c][u] = asked[c][u] /\ u \in Tracks /\ u \notin redone[c]
        BY <4>1, <2>1, <2>2, <2>9 DEF Road, Tracks
      <4>3. Destination(old, u) = asked[c][u].dest
        BY <4>1, <4>2, <3>3, <2>9, <1>p DEF SentAsAsked, old, Road
      <4> QED BY <4>2, <4>3, <3>3, <1>5 DEF Destination
    <3> QED BY <3>2, <3>3
  <2>10. ASSUME conn[c] = "in", asked'[c]["back"] # None, asked'[c]["back"].bridge = cur, cur \notin ended
         PROVE  x.pair = asked'[c]["back"].dest
    <3>1. asked'[c]["back"] = asked[c]["back"] /\ "back" \in Tracks
      BY <2>1, <1>8 DEF Tracks
    <3>2. mode[c] = "UDP"
      BY <3>1, <2>10, <1>1, <1>p DEF Recorded
    <3>3. old # None /\ old.pair = asked[c]["back"].dest
      BY <3>1, <3>2, <2>10, <1>p DEF SentAsAsked, old
    <3> QED BY <3>1, <3>3, <1>5
  <2> QED BY <2>5, <2>7, <2>8, <2>9, <2>10 DEF Fits
<1> QED BY <1>1, <1>6, <1>8, <1>10, <1>11, <1>12, SetupStep

LEMMA BackchannelStep ==
  ASSUME IInv, NEW c \in Clients, SetupBackchannel(c)
  PROVE  Serving'
<1>p. Plain /\ Table /\ Owned /\ Recorded /\ Undialed /\ SentAsAsked /\ cur \in Bridges
  BY DEF IInv, Serving, Attempts
<1>1. /\ InRequest(c) /\ mode[c] \in {None, "UDP"} /\ mode' = [mode EXCEPT ![c] = "UDP"]
      /\ UNCHANGED <<conn, ports, chans, cur, ended, others>> /\ fwd[cur][c] # None
  BY DEF SetupBackchannel, links
<1> DEFINE old == fwd[cur][c]
<1>2. old \in UDPEntry /\ old.pair \in ServerPorts \cup {None}
  BY <1>1, <1>p, OneTransport, Kinds
<1>3. PICK q \in ServerPorts, x \in UDPEntry :
        /\ fwd' = [fwd EXCEPT ![cur][c] = x] /\ Answer(c, "back", q)
        /\ x.pair = q /\ x.dest = old.dest /\ Owned'
  <2>1. CASE old.pair # None
    <3>1. UNCHANGED table /\ Answer(c, "back", old.pair)
      BY <2>1 DEF SetupBackchannel
    <3>2. fwd' = [fwd EXCEPT ![cur][c] = old]
      BY <3>1, <1>p DEF table, Table
    <3>3. Owned'
      BY <3>1, <1>1, <1>p DEF table, Owned
    <3> QED BY <2>1, <3>1, <3>2, <3>3, <1>2
  <2>2. CASE old.pair = None
    <3>1. PICK q \in ConsecutivePorts(open \cup others) :
            /\ fwd' = [fwd EXCEPT ![cur][c].pair = q]
            /\ open' = open \cup {q, q + 1}
            /\ Answer(c, "back", q)
      BY <2>2, <1>2, Kinds DEF SetupBackchannel, Entry
    <3>2. /\ q \in ServerPorts /\ q + 1 \in ServerPorts
          /\ q \notin open \cup others /\ q + 1 \notin open \cup others
      BY DEF ConsecutivePorts, IsPair
    <3>3. Owned'
      BY <3>1, <3>2, <2>2, <1>1, <1>2, <1>p, OwnedPair
    <3> DEFINE x == [old EXCEPT !.pair = q]
    <3>4. x \in UDPEntry /\ x.pair = q /\ x.dest = old.dest
      BY <3>2, <1>2, PairGiven
    <3>5. fwd' = [fwd EXCEPT ![cur][c] = x]
      BY <3>1
    <3> HIDE DEF x
    <3> QED BY <3>1, <3>2, <3>3, <3>4, <3>5
  <2> QED BY <2>1, <2>2
<1>4. x \in Entry /\ x.mode = "UDP" /\ q \in Nat /\ "back" \in Tracks
  BY Kinds, Numbers DEF Entry, Tracks
<1>5. Effect(c, "back", "UDP", x, q)
  BY <1>1, <1>3, <1>4, Effected
<1>6. Fits(c, "UDP", x)
  <2>1. /\ asked'[c]["back"] = [bridge |-> cur, dest |-> q]
        /\ \A u \in Road : asked'[c][u] = asked[c][u]
    BY <1>5 DEF Effect, Road, Tracks
  <2>2. redone[c] \subseteq redone'[c]
    BY <1>5 DEF Effect
  <2>3. \A u \in Road : asked'[c][u] = None => ports'[c][u] = 0
    BY <2>1, <1>1, <1>p DEF Recorded
  <2>4. \A u \in Road : asked'[c][u] = None => x.dest[u] = None
    <3>1. conn[c] # "gone" /\ old # None /\ old.mode = "UDP"
      BY <1>1, <1>2, Kinds DEF InRequest
    <3> QED BY <3>1, <2>1, <1>3, <1>p DEF Undialed
  <2>5. \A u \in Road : asked'[c][u] # None => mode[c] = "UDP" /\ Named(ports'[c][u], asked'[c][u].dest)
    BY <2>1, <1>1, <1>p DEF Recorded, Road, Tracks
  <2>6. ASSUME conn[c] = "in", NEW u \in Road, asked'[c][u] # None, u \notin redone'[c]
        PROVE  Destination(x, u) = asked'[c][u].dest
    <3>1. /\ asked'[c][u] = asked[c][u] /\ u \in Tracks /\ u \notin redone[c]
          /\ old # None
      BY <2>1, <2>2, <2>6, <1>1 DEF Road, Tracks
    <3>2. Destination(old, u) = asked[c][u].dest
      BY <3>1, <2>6, <1>p DEF SentAsAsked, Road
    <3> QED BY <3>1, <3>2, <1>3 DEF Destination
  <2>7. x.pair = asked'[c]["back"].dest
    BY <2>1, <1>3
  <2> QED BY <2>3, <2>4, <2>5, <2>6, <2>7 DEF Fits
<1> QED BY <1>1, <1>3, <1>4, <1>5, <1>6, SetupStep

-----------------------------------------------------------------------------
\* Connections, attempts and records.

LEMMA ServingInvariant ==
  ASSUME IInv, [Next]_vars
  PROVE  Serving'
<1>p. Plain /\ Attempts /\ Serving /\ Owned /\ cur \in Bridges
  BY DEF IInv, Serving, Attempts
<1>1. ASSUME NEW c \in Clients, AddClient(c) PROVE Serving'
  <2>1. \A e \in Clients : Onward(e)
    BY <1>1, <1>p DEF AddClient, Onward, Plain
  <2> QED BY <1>1, <2>1, <1>p, QuietStep DEF AddClient, session, links, table, Owned
<1>2. ASSUME NEW c \in Clients, Hangup(c) PROVE Serving'
  <2>1. \A e \in Clients : Onward(e)
    BY <1>2, <1>p DEF Hangup, Onward, Plain
  <2> QED BY <1>2, <2>1, <1>p, QuietStep DEF Hangup, session, links, table, Owned
<1>3. ASSUME NEW c \in Clients, RemoveClient(c) PROVE Serving'
  BY <1>3, RemoveStep
<1>4. ASSUME NEW g \in Starters, BeginAttempt(g) PROVE Serving'
  <2>1. cur' \in Bridges /\ (cur' = cur \/ cur' = cur + 1) /\ \A e \in Clients : Onward(e)
    BY <1>4, <1>p, Numbers DEF BeginAttempt, MayAttempt, NeedsNewBridge, Onward, Bridges
  <2> QED BY <1>4, <2>1, <1>p, QuietStep DEF BeginAttempt, session, links, table, Owned
<1>5. ASSUME NEW g \in Starters, AttemptSucceeds(g) \/ AttemptFails(g) PROVE Serving'
  <2>1. \A e \in Clients : Onward(e)
    BY <1>5 DEF AttemptSucceeds, AttemptFails, Onward
  <2> QED BY <1>5, <2>1, <1>p, QuietStep DEF AttemptSucceeds, AttemptFails, session, links, table, Owned
<1>6. ASSUME StopStream, UNCHANGED <<session, cur, others>>, \A e \in Clients : Onward(e)
      PROVE  Serving'
  <2>1. CASE UNCHANGED <<links, table>>
    BY <1>6, <2>1, <1>p, QuietStep DEF session, links, table, Owned
  <2>2. CASE ended' = ended \cup {cur} /\ Without(cur, Clients)
    BY <1>6, <2>2, <1>p, StopStep DEF session
  <2> QED BY <1>6, <2>1, <2>2 DEF StopStream, StopBridge
<1>7. ASSUME NEW g \in Starters, GiveUp(g) PROVE Serving'
  <2>1. \A e \in Clients : Onward(e)
    BY <1>7 DEF GiveUp, Onward
  <2> QED BY <1>6, <1>7, <2>1 DEF GiveUp
<1>8. ASSUME BridgeError PROVE Serving'
  <2>1. \A e \in Clients : Onward(e)
    BY <1>8, <1>p DEF BridgeError, Onward, Plain
  <2> QED BY <1>6, <1>8, <2>1 DEF BridgeError
<1>9. ASSUME Shutdown PROVE Serving'
  <2>1. \A e \in Clients : Onward(e)
    BY <1>9 DEF Shutdown, Onward
  <2>2. CASE StopStream
    BY <1>6, <1>9, <2>1, <2>2 DEF Shutdown
  <2>3. CASE UNCHANGED <<links, table>>
    BY <1>9, <2>1, <2>3, <1>p, QuietStep DEF Shutdown, session, links, table, Owned
  <2> QED BY <1>9, <2>2, <2>3 DEF Shutdown
<1>10. ASSUME RemoveStream \/ OtherProcess \/ UNCHANGED vars PROVE Serving'
  <2>1. others' \subseteq ServerPorts \ open
    BY <1>10, <1>p DEF RemoveStream, OtherProcess, vars, Owned
  <2>2. UNCHANGED <<conn, session, cur, links, table>>
    BY <1>10 DEF RemoveStream, OtherProcess, vars
  <2> QED BY <2>1, <2>2, <1>p, QuietStep DEF session, links, table, Onward
<1> QED BY <1>1, <1>2, <1>3, <1>4, <1>5, <1>7, <1>8, <1>9, <1>10,
           TCPStep, UDPStep, BackchannelStep, RefuseStep, DropStep DEF Next

LEMMA AttemptsInvariant ==
  ASSUME IInv, [Next]_vars
  PROVE  Attempts'
<1>p. Plain /\ Attempts
  BY DEF IInv
<1>n. cur \in Nat /\ MaxBridges \in Nat /\ \A b \in Bridges : b \in Nat
  BY <1>p, Numbers DEF Attempts, Bridges
<1>1. ASSUME UNCHANGED <<cur, connected, ended, started, pc>> PROVE Attempts'
  BY <1>1, <1>p DEF Attempts, Locked
<1>2. ASSUME NEW c \in Clients, AddClient(c) PROVE Attempts'
  <2>1. UNCHANGED <<cur, connected, ended, started>> /\ ~Locked
    BY <1>2 DEF AddClient, links
  <2>2. \A g \in Starters : pc'[g] = pc[g] \/ pc'[g] = "launched"
    BY <1>2, <1>p DEF AddClient, Plain
  <2>3. ~Locked'
    BY <2>1, <2>2 DEF Locked
  <2> QED BY <2>1, <2>3, <1>p DEF Attempts
<1>3. ASSUME NEW g \in Starters, BeginAttempt(g) PROVE Attempts'
  <2>1. UNCHANGED <<connected, ended>> /\ ~Locked
    BY <1>3 DEF BeginAttempt, MayAttempt, links
  <2>2. CASE active \/ ~connecting
    <3>1. UNCHANGED <<cur, started>> /\ \A h \in Starters : pc'[h] = pc[h] \/ pc'[h] = "off"
      BY <1>3, <2>2, <1>p DEF BeginAttempt, MayAttempt, NeedsNewBridge, Plain
    <3>2. ~Locked'
      BY <2>1, <3>1 DEF Locked
    <3> QED BY <2>1, <3>1, <3>2, <1>p DEF Attempts
  <2>3. CASE ~(active \/ ~connecting)
    <3>1. /\ started' = TRUE /\ cur' \in Bridges
          /\ (cur' = cur + 1 \/ (cur' = cur /\ ~started))
      <4>1. /\ started' = TRUE
            /\ IF pc[g] = "pausing" \/ started THEN cur < MaxBridges /\ cur' = cur + 1 ELSE cur' = cur
        BY <1>3, <2>3, Zenon DEF BeginAttempt, MayAttempt, NeedsNewBridge
      <4>2. cur < MaxBridges => cur + 1 \in Bridges
        BY <1>n DEF Bridges
      <4>3. cur \in Bridges
        BY <1>p DEF Attempts
      <4>4. CASE pc[g] = "pausing" \/ started
        BY <4>1, <4>2, <4>4, Zenon
      <4>5. CASE ~(pc[g] = "pausing" \/ started)
        BY <4>1, <4>3, <4>5
      <4> QED BY <4>4, <4>5
    <3>2. cur' \notin ended /\ \A b \in ended : b <= cur'
      BY <3>1, <1>n, <1>p DEF Attempts
    <3> QED BY <2>1, <3>1, <3>2, <1>p DEF Attempts
  <2> QED BY <2>2, <2>3
<1>4. ASSUME NEW g \in Starters, AttemptSucceeds(g) PROVE Attempts'
  <2>1. /\ UNCHANGED <<cur, ended, started>> /\ connected' = connected \cup {cur}
        /\ \A h \in Starters : pc'[h] = pc[h] \/ pc'[h] = "off"
    BY <1>4, <1>p DEF AttemptSucceeds, Plain
  <2>2. Locked /\ (Locked' => Locked)
    BY <1>4, <2>1 DEF AttemptSucceeds, Locked
  <2> QED BY <2>1, <2>2, <1>p DEF Attempts
<1>5. ASSUME NEW g \in Starters, AttemptFails(g) PROVE Attempts'
  <2>1. /\ UNCHANGED <<cur, connected, ended, started>>
        /\ \A h \in Starters : pc'[h] = pc[h] \/ pc'[h] \in {"pausing", "givingUp"}
    BY <1>5, <1>p DEF AttemptFails, links, Plain
  <2>2. Locked' => Locked
    BY <2>1 DEF Locked
  <2> QED BY <2>1, <2>2, <1>p DEF Attempts
<1>6. ASSUME StopStream, ~Locked, cur' = cur, started' = started,
             \A h \in Starters : pc'[h] = pc[h] \/ pc'[h] = "off"
      PROVE  Attempts'
  <2>1. ~Locked'
    BY <1>6 DEF Locked
  <2>2. \/ UNCHANGED <<connected, ended>>
        \/ cur \in connected /\ connected' = connected \ {cur} /\ ended' = ended \cup {cur}
    BY <1>6 DEF StopStream, StopBridge, links
  <2>3. \A b \in ended' : b <= cur
    <3>1. (\A b \in ended : b <= cur) /\ cur <= cur
      BY <1>n, <1>p DEF Attempts
    <3>2. \A b \in ended' : b \in ended \/ b = cur
      BY <2>2, Zenon
    <3> QED BY <3>1, <3>2
  <2>4. connected' \subseteq Bridges /\ ended' \subseteq Bridges \ connected'
    BY <2>2, <1>p DEF Attempts
  <2>5. ~started => connected' = {} /\ ended' = {}
    BY <2>2, <1>p DEF Attempts
  <2>6. cur' \in Bridges /\ started' \in BOOLEAN /\ \A b \in ended' : b <= cur'
    BY <1>6, <2>3, <1>p DEF Attempts
  <2>7. ~started' => connected' = {} /\ ended' = {}
    BY <1>6, <2>5
  <2> QED BY <2>1, <2>4, <2>6, <2>7 DEF Attempts
<1>7. ASSUME NEW g \in Starters, GiveUp(g) PROVE Attempts'
  <2>1. \A h \in Starters : pc'[h] = pc[h] \/ pc'[h] = "off"
    BY <1>7, <1>p DEF GiveUp, Plain
  <2> QED BY <1>6, <1>7, <2>1 DEF GiveUp
<1>8. ASSUME BridgeError PROVE Attempts'
  BY <1>6, <1>8 DEF BridgeError
<1>9. ASSUME Shutdown PROVE Attempts'
  BY <1>1, <1>6, <1>9 DEF Shutdown, links
<1>10. ASSUME RemoveStream \/ OtherProcess \/ UNCHANGED vars PROVE Attempts'
  BY <1>1, <1>10 DEF RemoveStream, OtherProcess, vars, links, stream
<1>11. ASSUME NEW c \in Clients,
              \/ SetupTCP(c) \/ SetupUDP(c) \/ SetupBackchannel(c) \/ RefuseBackchannel(c)
              \/ Hangup(c) \/ RemoveClient(c) \/ DropDeadClient(c)
       PROVE  Attempts'
  BY <1>1, <1>11 DEF SetupTCP, SetupUDP, SetupBackchannel, RefuseBackchannel, Hangup, RemoveClient,
                     DropDeadClient, links, stream
<1> QED BY <1>2, <1>3, <1>4, <1>5, <1>7, <1>8, <1>9, <1>10, <1>11 DEF Next

LEMMA PlainInvariant ==
  ASSUME IInv, [Next]_vars
  PROVE  Plain'
<1>p. Plain
  BY DEF IInv
<1>d. \A t \in Offered : t \in Tracks /\ Channels \cup {DefaultChannel[t]} \subseteq AllChannels
  BY DEF Offered, AllChannels
<1>r. ASSUME NEW c \in Clients, InRequest(c), NEW t \in Tracks, NEW d, Answer(c, t, d)
      PROVE  /\ setups' \in [Clients -> Nat] /\ \A e \in Clients : setups'[e] <= MaxSetups[e]
             /\ redone' \in [Clients -> SUBSET Tracks]
  <2>1. \A e \in Clients : setups[e] \in Nat /\ MaxSetups[e] \in Nat
    BY <1>p, BoundsAssumption DEF Plain
  <2> QED BY <1>r, <1>p, <2>1 DEF Answer, InRequest, Plain
<1>1. ASSUME NEW c \in Clients, SetupTCP(c) PROVE Plain'
  BY <1>1, <1>p, <1>d, <1>r DEF SetupTCP, Plain, stream
<1>2. ASSUME NEW c \in Clients, SetupUDP(c) PROVE Plain'
  BY <1>2, <1>p, <1>r DEF SetupUDP, Plain, stream, Road, Tracks
<1>3. ASSUME NEW c \in Clients, SetupBackchannel(c) PROVE Plain'
  <2>1. \E d : Answer(c, "back", d)
    BY <1>3 DEF SetupBackchannel
  <2> QED BY <1>3, <2>1, <1>p, <1>r DEF SetupBackchannel, Plain, stream, Tracks
<1>4. ASSUME NEW c \in Clients, RefuseBackchannel(c) PROVE Plain'
  <2>1. \A e \in Clients : setups[e] \in Nat /\ MaxSetups[e] \in Nat
    BY <1>p, BoundsAssumption DEF Plain
  <2> QED BY <1>4, <2>1, <1>p DEF RefuseBackchannel, InRequest, Plain, stream
<1>5. ASSUME NEW c \in Clients, AddClient(c) \/ Hangup(c) \/ DropDeadClient(c) PROVE Plain'
  BY <1>5, <1>p DEF AddClient, Hangup, DropDeadClient, Plain, session, stream
<1>6. ASSUME NEW c \in Clients, RemoveClient(c) PROVE Plain'
  <2>1. DefaultChannel \in [Tracks -> AllChannels] /\ NoPorts \in [Road -> ClientPorts \cup {0}]
    BY DEF DefaultChannel, AllChannels, Tracks, NoPorts, Road
  <2>2. MaxSetups \in [Clients -> Nat] /\ 0 \in Nat
    BY BoundsAssumption
  <2> QED BY <1>6, <1>p, <2>1, <2>2 DEF RemoveClient, ForgetSession, Plain
<1>7. ASSUME NEW g \in Starters, BeginAttempt(g) PROVE Plain'
  BY <1>7, <1>p DEF BeginAttempt, MayAttempt, NeedsNewBridge, NextTry, Plain, session
<1>8. ASSUME NEW g \in Starters, AttemptSucceeds(g) \/ AttemptFails(g) PROVE Plain'
  BY <1>8, <1>p DEF AttemptSucceeds, AttemptFails, Plain, session
<1>9. ASSUME StopStream
      PROVE active' \in BOOLEAN /\ connecting' \in BOOLEAN /\ timer' \in BOOLEAN /\ leaving' \in {"no", "due", "done"}
  BY <1>9, <1>p DEF StopStream, Plain
<1>10. ASSUME NEW g \in Starters, GiveUp(g) PROVE Plain'
  BY <1>9, <1>10, <1>p DEF GiveUp, Plain, session
<1>11. ASSUME BridgeError PROVE Plain'
  BY <1>9, <1>11, <1>p DEF BridgeError, Plain, session
<1>12. ASSUME Shutdown PROVE Plain'
  BY <1>9, <1>12, <1>p DEF Shutdown, Plain, session
<1>13. ASSUME RemoveStream \/ OtherProcess \/ UNCHANGED vars PROVE Plain'
  BY <1>13, <1>p DEF RemoveStream, OtherProcess, vars, Plain, session, stream
<1> QED BY <1>1, <1>2, <1>3, <1>4, <1>5, <1>6, <1>7, <1>8, <1>10, <1>11, <1>12, <1>13 DEF Next

-----------------------------------------------------------------------------
\* The theorems.

LEMMA InitInv ==
  ASSUME Init PROVE IInv
<1>1. DefaultChannel \in [Tracks -> AllChannels]
  BY DEF DefaultChannel, AllChannels, Tracks
<1>2. \A c \in Clients : MaxSetups[c] \in Nat
  BY BoundsAssumption
<1>3. Plain
  <2>1. ports \in [Clients -> [Road -> ClientPorts \cup {0}]] /\ chans \in [Clients -> [Tracks -> AllChannels]]
    BY <1>1 DEF Init, NoPorts, Road
  <2>2. /\ conn \in [Clients -> {"new", "in", "closing", "gone"}]
        /\ mode \in [Clients -> {None, "UDP", "TCP"}] /\ redone \in [Clients -> SUBSET Tracks]
        /\ pc \in [Starters -> {"off", "launched", "try1", "try2", "pausing", "givingUp"}]
    BY DEF Init
  <2>3. setups \in [Clients -> Nat] /\ \A c \in Clients : setups[c] <= MaxSetups[c]
    BY <1>2 DEF Init
  <2> QED BY <2>1, <2>2, <2>3 DEF Init, Plain
<1>4. Attempts
  <2>1. cur \in Bridges
    BY Numbers DEF Init, Bridges
  <2>2. ~Locked
    BY DEF Init, Locked
  <2> QED BY <2>1, <2>2 DEF Init, Attempts
<1>5. Table /\ \A b \in Bridges, c \in Clients : fwd[b][c] = None
  BY DEF Init, Table, NotAsked
<1>6. Owned
  BY <1>5, WhoListens DEF Init, Owned
<1>7. Cleared /\ Modes /\ Undialed
  BY <1>5, <1>4 DEF Cleared, Modes, Undialed, Attempts, Init, NotAsked
<1>8. Recorded
  BY NoneAssumption DEF Init, Recorded, NotAsked, NoPorts, Road, Tracks
<1>9. SentAsAsked
  BY DEF Init, SentAsAsked, NotAsked
<1> QED BY <1>3, <1>4, <1>5, <1>6, <1>7, <1>8, <1>9 DEF IInv, Serving

LEMMA Invariant == Spec => []IInv
<1>1. IInv /\ [Next]_vars => IInv'
  BY ServingInvariant, AttemptsInvariant, PlainInvariant DEF IInv
<1> QED BY <1>1, InitInv, PTL DEF Spec

\* Every variable of the sessions, the table and the stream keeps its type, an
\* entry has its session's transport, no port has two processes.
THEOREM TypeCorrect == Spec => []TypeOK
<1>1. IInv => TypeOK
  <2> SUFFICES ASSUME IInv PROVE TypeOK
    OBVIOUS
  <2>1. Plain /\ Attempts /\ Table /\ Owned /\ Modes
    BY DEF IInv, Serving
  <2>2. \A c \in Clients : setups[c] \in 0 .. MaxSetups[c]
    <3>1. \A c \in Clients : MaxSetups[c] \in Nat
      BY BoundsAssumption
    <3> QED BY <2>1, <3>1 DEF Plain
  <2>3. \A b \in Bridges, c \in Clients :
          \/ fwd[b][c] = None
          \/ fwd[b][c] \in Entry /\ (conn[c] # "gone" => fwd[b][c].mode = mode[c])
    BY <2>1 DEF Table, Modes
  <2>4. {active, connecting, started, timer} \subseteq BOOLEAN
    BY <2>1 DEF Plain, Attempts
  <2> QED BY <2>1, <2>2, <2>3, <2>4 DEF TypeOK, Plain, Attempts, Owned, Road
<1> QED BY <1>1, Invariant, PTL

\* What the bridge that the stream holds sends a connected session goes where the
\* session's SETUPs were answered, the SETUPs on bridges that a retry has replaced
\* included, and who made a SETUP on this bridge is on it until it stops (handleSetup,
\* AddUDPClient, AddTCPClient), however many sessions and retries there are.
THEOREM MediaGoesWhereAsked == Spec => []SentAsAsked
<1>1. IInv => SentAsAsked
  BY DEF IInv, Serving
<1> QED BY <1>1, Invariant, PTL

\* The listeners of the entries are all the ports the program listens on, each
\* of one entry, and a session that has gone left the stream's bridge
\* (RemoveClient, CleanupForwarder, the packet path).
THEOREM SocketsAreReleased == Spec => []NothingLeftBehind
<1>1. IInv => NothingLeftBehind
  <2> SUFFICES ASSUME IInv PROVE NothingLeftBehind
    OBVIOUS
  <2>1. Owned /\ Cleared
    BY DEF IInv, Serving
  <2>2. open \subseteq UNION {Listeners(fwd[b][c]) : b \in Bridges, c \in Clients}
    BY <2>1 DEF Owned
  <2>3. UNION {Listeners(fwd[b][c]) : b \in Bridges, c \in Clients} \subseteq open
    BY <2>1 DEF Owned
  <2>4. \A b1, b2 \in Bridges, c1, c2 \in Clients :
          <<b1, c1>> # <<b2, c2>> => Listeners(fwd[b1][c1]) \cap Listeners(fwd[b2][c2]) = {}
    BY <2>1 DEF Owned
  <2> QED BY <2>1, <2>2, <2>3, <2>4 DEF NothingLeftBehind, Cleared
<1> QED BY <1>1, Invariant, PTL
-----------------------------------------------------------------------------
\* The bridges' lives.

\* The stream is shown exactly while its bridge, and no other, is connected.
Linked == connected = IF active THEN {cur} ELSE {}

LEMMA LinkedStep == ASSUME IInv, Linked, [Next]_vars PROVE Linked'
<1>1. ASSUME UNCHANGED <<cur, connected, active>> PROVE Linked'
  BY <1>1 DEF Linked
<1>2. ASSUME StopStream, cur' = cur PROVE Linked'
  BY <1>2 DEF StopStream, StopBridge, links, Linked
<1>3. ASSUME NEW g \in Starters, BeginAttempt(g) PROVE Linked'
  <2>1. connected' = connected /\ active' = active /\ (cur' = cur \/ ~active)
    BY <1>3 DEF BeginAttempt, MayAttempt, links
  <2> QED BY <2>1 DEF Linked
<1>4. ASSUME NEW g \in Starters, AttemptSucceeds(g) PROVE Linked'
  BY <1>4 DEF AttemptSucceeds, Linked
<1>5. ASSUME NEW g \in Starters, AttemptFails(g) \/ GiveUp(g) PROVE Linked'
  BY <1>1, <1>2, <1>5 DEF AttemptFails, GiveUp, links
<1>6. ASSUME NEW c \in Clients,
             \/ AddClient(c) \/ SetupTCP(c) \/ SetupUDP(c) \/ SetupBackchannel(c)
             \/ RefuseBackchannel(c) \/ Hangup(c) \/ RemoveClient(c) \/ DropDeadClient(c)
      PROVE  Linked'
  BY <1>1, <1>6 DEF AddClient, SetupTCP, SetupUDP, SetupBackchannel, RefuseBackchannel, Hangup,
                    RemoveClient, DropDeadClient, links, stream
<1>7. ASSUME BridgeError \/ Shutdown PROVE Linked'
  BY <1>1, <1>2, <1>7 DEF BridgeError, Shutdown, links
<1>8. ASSUME RemoveStream \/ OtherProcess \/ UNCHANGED vars PROVE Linked'
  BY <1>1, <1>8 DEF RemoveStream, OtherProcess, vars, links, stream
<1> QED BY <1>3, <1>4, <1>5, <1>6, <1>7, <1>8 DEF Next

\* A step that leaves the bridge, its state and its attempt alone is a stutter.
LEMMA Stutters ==
  ASSUME UNCHANGED <<cur, connected, active>>, (started => Locked)' = (started => Locked)
  PROVE  UNCHANGED <<Held, Lives, Shown>>
<1>1. \A b \in Bridges : Life(b)' = Life(b)
  BY DEF Life
<1> QED BY <1>1 DEF Held, Lives, Shown

\* The stop of a stream that is shown hides it, that of another changes nothing.
LEMMA StopHides ==
  ASSUME IInv, Linked, StopStream, ~Locked, ~Locked', UNCHANGED <<cur, started>>
  PROVE  [Camera!Next]_<<Held, Lives, Shown>>
<1>n. cur \in Bridges /\ cur \in Nat /\ \A b \in Bridges : b \in Nat
  BY Numbers DEF IInv, Attempts, Bridges
<1>1. CASE ~active
  <2>1. UNCHANGED <<connected, active>>
    <3>1. cur \notin connected
      BY <1>1 DEF Linked
    <3>2. active \in BOOLEAN
      BY DEF IInv, Plain
    <3> QED BY <1>1, <3>1, <3>2 DEF StopStream, StopBridge, links
  <2> QED BY <2>1, Stutters
<1>2. CASE active
  <2>1. active' = FALSE /\ connected = {cur} /\ connected' = {} /\ started
    BY <1>2 DEF Linked, StopStream, StopBridge, IInv, Attempts
  <2>2. Lives' = [Lives EXCEPT ![cur] = "spent"] /\ Lives[cur] = "up"
    <3>1. ASSUME NEW b \in Bridges PROVE Life(b)' = IF b = cur THEN "spent" ELSE Life(b)
      BY <1>n, <2>1 DEF Life
    <3>2. Life(cur) = "up"
      BY <1>n, <2>1 DEF Life
    <3> QED BY <1>n, <3>1, <3>2 DEF Lives
  <2>3. Held[TheStream] = cur /\ Held' = Held /\ cur # None
    BY <1>n, NoneAssumption DEF Held
  <2>4. Shown = {TheStream} /\ Shown' = {}
    BY <1>2, <2>1 DEF Shown
  <2>5. Camera!Hide(TheStream)
    BY <2>2, <2>3, <2>4 DEF Camera!Hide, Camera!Turn
  <2> QED BY <2>5 DEF Camera!Next
<1> QED BY <1>1, <1>2

LEMMA AttemptTakes ==
  ASSUME IInv, Linked, NEW g \in Starters, BeginAttempt(g)
  PROVE  [Camera!Next]_<<Held, Lives, Shown>>
<1>n. /\ cur \in Bridges /\ cur \in Nat /\ MaxBridges \in Nat /\ \A b \in Bridges : b \in Nat
      /\ pc \in [Starters -> {"off", "launched", "try1", "try2", "pausing", "givingUp"}]
  BY Numbers DEF IInv, Attempts, Bridges, Plain
<1>1. UNCHANGED <<connected, active>> /\ ~Locked
  BY DEF BeginAttempt, links
<1>2. CASE ~MayAttempt
  <2>1. UNCHANGED <<cur, started>> /\ \A h \in Starters : pc'[h] = pc[h] \/ pc'[h] = "off"
    BY <1>2, <1>n DEF BeginAttempt
  <2>2. ~Locked'
    BY <1>1, <2>1 DEF Locked
  <2> QED BY <1>1, <2>1, <2>2, Stutters
<1>3. CASE MayAttempt
  <2>1. pc'[g] \in {"try1", "try2"} /\ Locked'
    BY <1>3, <1>n DEF BeginAttempt, NextTry, Locked
  <2>2. started' = TRUE
    BY <1>3 DEF BeginAttempt
  <2>3. CASE cur' = cur /\ ~started
    BY <1>1, <2>1, <2>2, <2>3, Stutters
  <2>4. CASE cur' = cur + 1 /\ cur < MaxBridges
    <3>1. cur' \in Bridges /\ ~active /\ connected = {}
      BY <1>3, <1>n, <2>4 DEF Bridges, MayAttempt, Linked
    <3>2. Lives[cur'] = "unused"
      BY <1>n, <2>4, <3>1 DEF Lives, Life
    <3>3. Lives' = [d \in Bridges |-> IF d = cur' THEN "ready" ELSE IF d = cur THEN "spent" ELSE Lives[d]]
      <4>1. ASSUME NEW d \in Bridges
            PROVE  Life(d)' = IF d = cur' THEN "ready" ELSE IF d = cur THEN "spent" ELSE Life(d)
        BY <1>1, <1>n, <2>1, <2>2, <2>4, <3>1 DEF Life
      <4> QED BY <4>1 DEF Lives
    <3>4. Held[TheStream] = cur /\ Held' = [Held EXCEPT ![TheStream] = cur']
      BY DEF Held
    <3>5. Shown = {} /\ Shown' = {}
      BY <1>1, <3>1 DEF Shown
    <3>6. Camera!Take(TheStream, cur')
      BY <3>1, <3>2, <3>3, <3>4, <3>5 DEF Camera!Take
    <3> QED BY <3>1, <3>6 DEF Camera!Next
  <2> QED
    <3>1. IF pc[g] = "pausing" \/ started THEN cur < MaxBridges /\ cur' = cur + 1 ELSE cur' = cur
      BY <1>3, Zenon DEF BeginAttempt, NeedsNewBridge
    <3> QED BY <2>3, <2>4, <3>1
<1> QED BY <1>2, <1>3

LEMMA SuccessShows ==
  ASSUME IInv, Linked, NEW g \in Starters, AttemptSucceeds(g)
  PROVE  [Camera!Next]_<<Held, Lives, Shown>>
<1>n. cur \in Bridges /\ cur \in Nat /\ \A b \in Bridges : b \in Nat
  BY Numbers DEF IInv, Attempts, Bridges
<1>1. UNCHANGED <<cur, started>> /\ active' = TRUE /\ connected' = {cur} /\ Locked /\ started
  BY DEF AttemptSucceeds, Locked, Linked, IInv, Attempts
<1>2. CASE active
  <2>1. connected = {cur} /\ active' = active
    BY <1>1, <1>2 DEF Linked, IInv, Plain
  <2>2. \A b \in Bridges : Life(b)' = Life(b)
    BY <1>1, <1>n, <2>1 DEF Life
  <2> QED BY <1>1, <2>1, <2>2 DEF Held, Lives, Shown
<1>3. CASE ~active
  <2>1. connected = {}
    BY <1>3 DEF Linked
  <2>2. Lives' = [Lives EXCEPT ![cur] = "up"] /\ Lives[cur] = "ready"
    <3>1. ASSUME NEW b \in Bridges PROVE Life(b)' = IF b = cur THEN "up" ELSE Life(b)
      BY <1>1, <1>n, <2>1 DEF Life
    <3>2. Life(cur) = "ready"
      BY <1>1, <1>n, <2>1 DEF Life
    <3> QED BY <1>n, <3>1, <3>2 DEF Lives
  <2>3. Held[TheStream] = cur /\ Held' = Held /\ cur # None
    BY <1>1, <1>n, NoneAssumption DEF Held
  <2>4. Shown = {} /\ Shown' = {TheStream}
    BY <1>1, <1>3 DEF Shown
  <2>5. Camera!Show(TheStream)
    BY <2>2, <2>3, <2>4 DEF Camera!Show, Camera!Turn
  <2> QED BY <2>5 DEF Camera!Next
<1> QED BY <1>2, <1>3

LEMMA FailureSpends ==
  ASSUME IInv, Linked, NEW g \in Starters, AttemptFails(g)
  PROVE  [Camera!Next]_<<Held, Lives, Shown>>
<1>n. cur \in Bridges /\ cur \in Nat /\ \A b \in Bridges : b \in Nat
  BY Numbers DEF IInv, Attempts, Bridges
<1>1. UNCHANGED <<cur, started, active, connected>> /\ Locked /\ started
  BY DEF AttemptFails, links, Locked, IInv, Attempts
<1>2. CASE Locked'
  BY <1>1, <1>2, Stutters
<1>3. CASE active
  <2>1. \A b \in Bridges : Life(b)' = Life(b)
    BY <1>1, <1>3, <1>n DEF Life, Linked
  <2> QED BY <1>1, <2>1 DEF Held, Lives, Shown
<1>4. CASE ~active /\ ~Locked'
  <2>1. connected = {}
    BY <1>4 DEF Linked
  <2>2. Lives' = [Lives EXCEPT ![cur] = "spent"] /\ Lives[cur] = "ready"
    <3>1. ASSUME NEW b \in Bridges PROVE Life(b)' = IF b = cur THEN "spent" ELSE Life(b)
      BY <1>1, <1>4, <1>n, <2>1 DEF Life
    <3>2. Life(cur) = "ready"
      BY <1>1, <1>n, <2>1 DEF Life
    <3> QED BY <1>n, <3>1, <3>2 DEF Lives
  <2>3. Held[TheStream] = cur /\ Held' = Held /\ cur # None
    BY <1>1, <1>n, NoneAssumption DEF Held
  <2>4. Shown = {} /\ Shown' = {}
    BY <1>1, <1>4 DEF Shown
  <2>5. Camera!Fail(TheStream)
    BY <2>2, <2>3, <2>4 DEF Camera!Fail, Camera!Turn
  <2> QED BY <2>5 DEF Camera!Next
<1> QED BY <1>2, <1>3, <1>4

LEMMA CameraStep == ASSUME IInv, Linked, [Next]_vars PROVE [Camera!Next]_<<Held, Lives, Shown>>
<1>1. ASSUME UNCHANGED <<cur, connected, active, started, pc>>
      PROVE  [Camera!Next]_<<Held, Lives, Shown>>
  <2>1. Locked' = Locked
    BY <1>1 DEF Locked
  <2> QED BY <1>1, <2>1, Stutters
<1>2. ASSUME NEW c \in Clients, AddClient(c) PROVE [Camera!Next]_<<Held, Lives, Shown>>
  <2>1. UNCHANGED <<cur, connected, active, started>> /\ ~Locked
    BY <1>2 DEF AddClient, links
  <2>2. \A g \in Starters : pc'[g] = pc[g] \/ pc'[g] = "launched"
    BY <1>2 DEF AddClient, IInv, Plain
  <2>3. ~Locked'
    BY <2>1, <2>2 DEF Locked
  <2> QED BY <2>1, <2>3, Stutters
<1>3. ASSUME StopStream, ~Locked, UNCHANGED <<cur, started>>,
             \A h \in Starters : pc'[h] = pc[h] \/ pc'[h] = "off"
      PROVE  [Camera!Next]_<<Held, Lives, Shown>>
  <2>1. ~Locked'
    BY <1>3 DEF Locked
  <2> QED BY <1>3, <2>1, StopHides
<1>4. ASSUME NEW g \in Starters, GiveUp(g) PROVE [Camera!Next]_<<Held, Lives, Shown>>
  <2>1. \A h \in Starters : pc'[h] = pc[h] \/ pc'[h] = "off"
    BY <1>4 DEF GiveUp, IInv, Plain
  <2> QED BY <1>3, <1>4, <2>1 DEF GiveUp
<1>5. ASSUME BridgeError \/ Shutdown PROVE [Camera!Next]_<<Held, Lives, Shown>>
  BY <1>1, <1>3, <1>5 DEF BridgeError, Shutdown, links
<1>6. ASSUME NEW c \in Clients,
             \/ SetupTCP(c) \/ SetupUDP(c) \/ SetupBackchannel(c) \/ RefuseBackchannel(c)
             \/ Hangup(c) \/ RemoveClient(c) \/ DropDeadClient(c)
      PROVE  [Camera!Next]_<<Held, Lives, Shown>>
  BY <1>1, <1>6 DEF SetupTCP, SetupUDP, SetupBackchannel, RefuseBackchannel, Hangup, RemoveClient,
                    DropDeadClient, links, stream
<1>7. ASSUME RemoveStream \/ OtherProcess \/ UNCHANGED vars
      PROVE  [Camera!Next]_<<Held, Lives, Shown>>
  BY <1>1, <1>7 DEF RemoveStream, OtherProcess, vars, links, stream
<1> QED BY <1>2, <1>4, <1>5, <1>6, <1>7, AttemptTakes, SuccessShows, FailureSpends DEF Next

(* Whatever attempts, errors, shutdowns and hang-ups come together, the     *)
(* stream's bridges connect at most once each and one after the other, as   *)
(* CameraSession has it: what this model does to its stream's bridges is    *)
(* what RTSPServer does to those of each of its streams.                    *)
THEOREM BridgesConnectOnce == Spec => ImplementsCamera
<1>1. Init => Linked /\ Camera!Init
  <2> SUFFICES ASSUME Init PROVE Linked /\ Camera!Init
    OBVIOUS
  <2>1. cur = 1 /\ 1 \in Bridges /\ connected = {} /\ ~active /\ ~started
    BY Numbers DEF Init, Bridges
  <2>2. Linked
    BY <2>1 DEF Linked
  <2>3. Held = [i \in {TheStream} |-> 1] /\ Shown = {}
    BY <2>1 DEF Held, Shown
  <2>4. Lives = [b \in Bridges |-> IF \E i \in {TheStream} : Held[i] = b THEN "ready" ELSE "unused"]
    <3>1. ASSUME NEW b \in Bridges PROVE Life(b) = IF b = 1 THEN "ready" ELSE "unused"
      BY <2>1 DEF Life, Bridges
    <3> QED BY <2>3, <3>1 DEF Lives
  <2> QED BY <2>1, <2>2, <2>3, <2>4 DEF Camera!Init
<1>2. IInv /\ Linked /\ [Next]_vars => Linked' /\ [Camera!Next]_<<Held, Lives, Shown>>
  BY LinkedStep, CameraStep
<1> QED BY Invariant, <1>1, <1>2, PTL DEF Spec, ImplementsCamera, Camera!Spec
=============================================================================
