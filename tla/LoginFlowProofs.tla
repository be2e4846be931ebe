--------------------------- MODULE LoginFlowProofs ---------------------------
(***************************************************************************)
(* What holds of the config flow for any data centers, gateways, routing   *)
(* of countries, accounts and homes.                                       *)
(***************************************************************************)
EXTENDS LoginFlow, SequenceTheorems, TLAPS

\* The probe has not passed over the center of the account, and a flow is on
\* while a call of it is under way.
Probing ==
  /\ pc \in {"first", "send"} => \E i \in DOMAIN todo : todo[i] = Home[account]
  /\ pc \notin {"credentials", "code"} => kind # "none"
  /\ kind = "reauth" => target \in Accounts

\* The center that was found takes the login of the account, and a report that
\* the account is elsewhere stands only on the form of the code.
Found ==
  /\ pc = "send" => Accepts(Head(todo))
  /\ pc \in {"code", "complete", "info", "discover"} => Accepts(api)
  /\ error = "elsewhere" => pc = "code"

\* The client talks to the center whose host would be stored, and a session
\* that is going to be stored is of this login.
OneCenter ==
  /\ api = host
  /\ pc \in {"info", "discover"} => sid = [uid |-> account, at |-> host]

\* The lists that were asked before the one at hand if none showed a camera.
Early(h) == {"rooms2", "rooms1", "group"} \X (1 .. (h - 1))
Asked ==
  LET h == ask[2]
      all == Early(Homes + 1) \cup ({"relation"} \X (1 .. Homes))
  IN CASE ask[1] = "rooms2"   -> Early(h)
       [] ask[1] = "rooms1"   -> Early(h) \cup {<<"rooms2", h>>}
       [] ask[1] = "group"    -> Early(h) \cup {<<"rooms2", h>>, <<"rooms1", h>>}
       [] ask[1] = "relation" -> Early(Homes + 1) \cup ({"relation"} \X (1 .. (h - 1)))
       [] ask[1] = "devices"  -> all
       [] ask[1] = "done"     -> all \cup {<<"devices", 1>>}
       [] OTHER               -> {}
OneDeviceList == ask[1] = "devices" => ask[2] = 1
NothingSeen == ~failed /\ cameras = {} => \A l \in Asked : layout[l] = {}

\* The type invariant in three parts, for the steps that touch one of them.
FlowType ==
  /\ kind \in {"none", "setup", "reauth"} /\ target \in Accounts \cup {None}
  /\ pc \in {"credentials", "code", "first", "send", "complete", "info", "discover"}
  /\ account \in Accounts /\ right \in BOOLEAN
  /\ typed \in BOOLEAN /\ mailed \in [Accounts -> BOOLEAN] /\ refused \in BOOLEAN
ProbeType ==
  /\ todo \in Seq(Centers) /\ Len(todo) <= Len(ProbeOrder)
  /\ firstError \in Errors /\ error \in Errors
ClientType ==
  /\ api \in Centers /\ host \in Centers /\ sid \in Session \cup {None}
  /\ entries \in [Accounts -> Entry \cup {None}]

LEMMA TypeParts == TypeOK <=> DiscoveryOK /\ FlowType /\ ProbeType /\ ClientType
  BY DEF TypeOK, FlowType, ProbeType, ClientType

-----------------------------------------------------------------------------
\* The centers after the best guess are all the others.
LEMMA OthersType ==
  ASSUME NEW c \in Centers
  PROVE  /\ Others(c) \in Seq(Centers) /\ Len(Others(c)) = Len(ProbeOrder) - 1
         /\ \A d \in Centers : d # c => \E i \in DOMAIN Others(c) : Others(c)[i] = d
<1> DEFINE i == CHOOSE j \in DOMAIN ProbeOrder : ProbeOrder[j] = c
           n == Len(ProbeOrder)
           front == SubSeq(ProbeOrder, 1, i - 1)
           back == SubSeq(ProbeOrder, i + 1, n)
<1>1. i \in 1 .. n /\ ProbeOrder[i] = c /\ n \in Nat
  BY LoginAssumption
<1> HIDE DEF i
<1>2. front \in Seq(Centers) /\ Len(front) = i - 1 /\ \A k \in 1 .. (i - 1) : front[k] = ProbeOrder[k]
  <2>1. \A k \in 1 .. (i - 1) : ProbeOrder[k] \in Centers
    BY <1>1, LoginAssumption
  <2> QED BY <1>1, <2>1, SubSeqProperties
<1>3. back \in Seq(Centers) /\ Len(back) = n - i /\ \A k \in 1 .. (n - i) : back[k] = ProbeOrder[i + k]
  <2>1. \A k \in (i + 1) .. n : ProbeOrder[k] \in Centers
    BY <1>1, LoginAssumption
  <2> QED BY <1>1, <2>1, SubSeqProperties
<1>4. Others(c) = front \o back
  BY DEF Others, i
<1> HIDE DEF front, back
<1> DEFINE both == front \o back
<1>5. /\ both \in Seq(Centers) /\ Len(both) = n - 1 /\ DOMAIN both = 1 .. (n - 1)
      /\ \A k \in 1 .. (n - 1) : both[k] = IF k <= i - 1 THEN front[k] ELSE back[k - (i - 1)]
  <2>1. /\ both \in Seq(Centers) /\ Len(both) = Len(front) + Len(back)
        /\ \A k \in 1 .. Len(front) + Len(back) :
             both[k] = IF k <= Len(front) THEN front[k] ELSE back[k - Len(front)]
    BY <1>2, <1>3, ConcatProperties
  <2>2. DOMAIN both = 1 .. Len(both)
    BY <2>1, LenProperties
  <2> HIDE DEF both
  <2> QED BY <2>1, <2>2, <1>1, <1>2, <1>3
<1> HIDE DEF both, n
<1>6. ASSUME NEW d \in Centers, d # c
      PROVE  \E k \in DOMAIN both : both[k] = d
  <2>1. PICK j \in 1 .. n : ProbeOrder[j] = d
    BY LoginAssumption DEF n
  <2>2. j # i
    BY <2>1, <1>1, <1>6
  <2>3. CASE j < i
    <3>1. j \in DOMAIN both /\ both[j] = front[j]
      BY <2>3, <1>1, <1>5
    <3> QED BY <3>1, <2>1, <2>3, <1>1, <1>2
  <2>4. CASE j > i
    <3>1. j - 1 \in DOMAIN both /\ both[j - 1] = back[j - i]
      BY <2>4, <1>1, <1>5
    <3>2. back[j - i] = ProbeOrder[i + (j - i)]
      BY <2>4, <1>1, <1>3
    <3>3. i + (j - i) = j
      BY <1>1
    <3> QED BY <3>1, <3>2, <3>3, <2>1
  <2> QED BY <2>2, <2>3, <2>4, <1>1
<1> QED BY <1>4, <1>5, <1>6 DEF both, n

\* Whatever the country, every center is a candidate.
LEMMA CandidatesType ==
  ASSUME NEW country \in Countries
  PROVE  /\ LoginCandidates(country) \in Seq(Centers)
         /\ Len(LoginCandidates(country)) <= Len(ProbeOrder)
         /\ \A d \in Centers :
              \E i \in DOMAIN LoginCandidates(country) : LoginCandidates(country)[i] = d
<1>1. CASE Routing[country] = None
  BY <1>1, LoginAssumption DEF LoginCandidates
<1>2. CASE Routing[country] # None
  <2> DEFINE c == Routing[country]
             rest == Others(c)
  <2>1. c \in Centers
    BY <1>2, LoginAssumption
  <2>2. /\ rest \in Seq(Centers) /\ Len(rest) = Len(ProbeOrder) - 1
        /\ \A d \in Centers : d # c => \E i \in DOMAIN rest : rest[i] = d
    BY <2>1, OthersType
  <2>3. LoginCandidates(country) = <<c>> \o rest
    BY <1>2 DEF LoginCandidates
  <2> HIDE DEF c, rest
  <2> DEFINE all == <<c>> \o rest
  <2>4. /\ all \in Seq(Centers) /\ Len(all) = Len(rest) + 1 /\ DOMAIN all = 1 .. Len(rest) + 1
        /\ all[1] = c /\ \A i \in 1 .. Len(rest) : all[i + 1] = rest[i]
    <3>1. <<c>> \in Seq(Centers) /\ Len(<<c>>) = 1 /\ <<c>>[1] = c /\ Len(rest) \in Nat
      BY <2>1, <2>2
    <3>2. /\ all \in Seq(Centers) /\ Len(all) = 1 + Len(rest)
          /\ \A i \in 1 .. 1 + Len(rest) : all[i] = IF i <= 1 THEN <<c>>[i] ELSE rest[i - 1]
      BY <2>2, <3>1, ConcatProperties
    <3>3. DOMAIN all = 1 .. Len(all)
      BY <3>2, LenProperties
    <3> HIDE DEF all
    <3> QED BY <3>1, <3>2, <3>3
  <2> HIDE DEF all
  <2>5. Len(ProbeOrder) \in Nat
    BY LoginAssumption
  <2>6. ASSUME NEW d \in Centers
        PROVE  \E i \in DOMAIN all : all[i] = d
    <3>1. CASE d = c
      BY <3>1, <2>4, <2>2
    <3>2. CASE d # c
      <4>1. PICK i \in DOMAIN rest : rest[i] = d
        BY <3>2, <2>2
      <4>2. i \in 1 .. Len(rest) /\ Len(rest) \in Nat
        BY <4>1, <2>2, LenProperties
      <4>3. i + 1 \in DOMAIN all /\ all[i + 1] = rest[i]
        BY <4>2, <2>4
      <4> QED BY <4>1, <4>3
    <3> QED BY <3>1, <3>2
  <2> QED BY <2>2, <2>3, <2>4, <2>5, <2>6 DEF all
<1> QED BY <1>1, <1>2

-----------------------------------------------------------------------------
IInv == /\ TypeOK /\ Probing /\ OneCenter /\ OneDeviceList /\ NothingSeen
        /\ PasswordNotSpread /\ Found /\ EntryIsOneLogin

LEMMA InitInv == Init => IInv
<1> SUFFICES ASSUME Init PROVE IInv
  OBVIOUS
<1>1. ProbeOrder[1] \in Centers
  <2>1. Home[account] \in Centers
    BY LoginAssumption DEF Init
  <2>2. Len(ProbeOrder) \in Nat /\ DOMAIN ProbeOrder = 1 .. Len(ProbeOrder)
    BY LoginAssumption, LenProperties
  <2> QED BY <2>1, <2>2, LoginAssumption
<1>2. <<>> \in Seq(Centers) /\ Len(<<>>) = 0 /\ Len(ProbeOrder) \in Nat
  BY LoginAssumption
<1>3. ProbeType
  BY <1>2 DEF Init, ProbeType, Errors
<1>4. FlowType /\ ClientType /\ DiscoveryOK
  BY <1>1 DEF Init, FlowType, ClientType, DiscoveryInit, DiscoveryOK
<1>5. NothingSeen /\ OneDeviceList
  BY DEF Init, DiscoveryInit, NothingSeen, OneDeviceList, Asked, Idle
<1> QED
  BY <1>3, <1>4, <1>5, TypeParts DEF Init, IInv, Probing, OneCenter, PasswordNotSpread, Found, EntryIsOneLogin

\* A wrong password ends the probe.
LEMMA PasswordStep == IInv /\ [Next]_vars => PasswordNotSpread'
<1> SUFFICES ASSUME IInv, [Next]_vars PROVE PasswordNotSpread'
  OBVIOUS
<1> USE DEF IInv, PasswordNotSpread
<1>1. ASSUME NEW k \in {"setup", "reauth"}, NEW u \in Accounts \cup {None}, Begin(k, u) PROVE PasswordNotSpread'
  BY <1>1 DEF Begin, input, probe, client, discovery
<1>2. ASSUME NEW a \in Accounts, NEW good \in BOOLEAN, NEW c \in Countries, SubmitCredentials(a, good, c) PROVE PasswordNotSpread'
  BY <1>2 DEF SubmitCredentials, input, probe, client, discovery
<1>3. CASE FirstLogin
  BY <1>3 DEF FirstLogin, input, probe, client, discovery
<1>4. CASE SendCode
  BY <1>4 DEF SendCode, input, probe, client, discovery
<1>5. CASE Refuse
  BY <1>5 DEF Refuse, input, probe, client, discovery, IsWrongDataCenter
<1>6. CASE Lost
  BY <1>6 DEF Lost, input, probe, client, discovery
<1>7. ASSUME NEW ok \in BOOLEAN, SubmitCode(ok) PROVE PasswordNotSpread'
  BY <1>7 DEF SubmitCode, input, probe, client, discovery
<1>8. CASE CompleteLogin
  BY <1>8 DEF CompleteLogin, input, probe, client, discovery
<1>9. CASE RejectCode
  BY <1>9 DEF RejectCode, input, probe, client, discovery
<1>10. CASE UserInfo
  BY <1>10 DEF UserInfo, input, probe, client, discovery
<1>11. CASE DiscoverCameras
  BY <1>11 DEF DiscoverCameras, input, probe, client, discovery
<1>12. CASE CreateEntry
  BY <1>12 DEF CreateEntry, input, probe, client, discovery
<1>13. CASE Leave
  BY <1>13 DEF Leave, input, probe, client, discovery
<1>14. ASSUME NEW u \in Accounts, RemoveEntry(u) PROVE PasswordNotSpread'
  BY <1>14 DEF RemoveEntry, input, probe, client, discovery
<1>15. CASE UNCHANGED vars
  BY <1>15 DEF vars, input, probe, client, discovery
<1> QED BY <1>1, <1>2, <1>3, <1>4, <1>5, <1>6, <1>7, <1>8, <1>9, <1>10, <1>11, <1>12, <1>13, <1>14, <1>15 DEF Next

\* Every entry is stored with the session and host of its own login.
LEMMA EntryStep == IInv /\ [Next]_vars => EntryIsOneLogin'
<1> SUFFICES ASSUME IInv, [Next]_vars PROVE EntryIsOneLogin'
  OBVIOUS
<1> USE DEF IInv, EntryIsOneLogin
<1>1. ASSUME NEW k \in {"setup", "reauth"}, NEW u \in Accounts \cup {None}, Begin(k, u) PROVE EntryIsOneLogin'
  BY <1>1 DEF Begin, input, probe, client, discovery
<1>2. ASSUME NEW a \in Accounts, NEW good \in BOOLEAN, NEW c \in Countries, SubmitCredentials(a, good, c) PROVE EntryIsOneLogin'
  BY <1>2 DEF SubmitCredentials, input, probe, client, discovery
<1>3. CASE FirstLogin
  BY <1>3 DEF FirstLogin, input, probe, client, discovery
<1>4. CASE SendCode
  BY <1>4 DEF SendCode, input, probe, client, discovery
<1>5. CASE Refuse
  BY <1>5 DEF Refuse, input, probe, client, discovery
<1>6. CASE Lost
  BY <1>6 DEF Lost, input, probe, client, discovery
<1>7. ASSUME NEW ok \in BOOLEAN, SubmitCode(ok) PROVE EntryIsOneLogin'
  BY <1>7 DEF SubmitCode, input, probe, client, discovery
<1>8. CASE CompleteLogin
  <2>1. CASE kind = "setup"
    BY <1>8, <2>1 DEF CompleteLogin
  <2>2. CASE kind # "setup"
    <3>1. target \in Accounts /\ kind = "reauth" /\ account \in Accounts
      BY <1>8, <2>2 DEF CompleteLogin, Probing, TypeParts, TypeOK
    <3>2. PICK reported \in {Home[account]} \cup (IF api = Home[account] THEN {None} ELSE {}) : AdoptHost(reported)
      BY <1>8 DEF CompleteLogin
    <3>3. host' = Home[account]
      BY <3>1, <3>2, LoginAssumption DEF AdoptHost, OneCenter
    <3>4. entries' = [entries EXCEPT ![target] = [sid |-> sid', uid |-> account, host |-> host']]
      BY <1>8, <2>2 DEF CompleteLogin, StoredEntry
    <3>5. sid' = [uid |-> account, at |-> Home[account]]
      BY <1>8 DEF CompleteLogin
    <3> QED BY <3>1, <3>3, <3>4, <3>5 DEF TypeOK
  <2> QED BY <2>1, <2>2
<1>9. CASE RejectCode
  BY <1>9 DEF RejectCode, input, probe, client, discovery
<1>10. CASE UserInfo
  BY <1>10 DEF UserInfo, input, probe, client, discovery
<1>11. CASE DiscoverCameras
  BY <1>11 DEF DiscoverCameras, input, probe, client, discovery
<1>12. CASE CreateEntry
  BY <1>12 DEF CreateEntry, OneCenter, TypeOK
<1>13. CASE Leave
  BY <1>13 DEF Leave, input, probe, client, discovery
<1>14. ASSUME NEW u \in Accounts, RemoveEntry(u) PROVE EntryIsOneLogin'
  BY <1>14 DEF RemoveEntry, TypeOK
<1>15. CASE UNCHANGED vars
  BY <1>15 DEF vars, input, probe, client, discovery
<1> QED BY <1>1, <1>2, <1>3, <1>4, <1>5, <1>6, <1>7, <1>8, <1>9, <1>10, <1>11, <1>12, <1>13, <1>14, <1>15 DEF Next

\* The client and the host to be stored move together.
LEMMA OneCenterStep == IInv /\ [Next]_vars => OneCenter'
<1> SUFFICES ASSUME IInv, [Next]_vars PROVE OneCenter'
  OBVIOUS
<1> USE DEF IInv, OneCenter
<1>1. ASSUME NEW k \in {"setup", "reauth"}, NEW u \in Accounts \cup {None}, Begin(k, u) PROVE OneCenter'
  BY <1>1 DEF Begin, input, probe, client, discovery
<1>2. ASSUME NEW a \in Accounts, NEW good \in BOOLEAN, NEW c \in Countries, SubmitCredentials(a, good, c) PROVE OneCenter'
  BY <1>2 DEF SubmitCredentials, input, probe, client, discovery
<1>3. CASE FirstLogin
  BY <1>3 DEF FirstLogin, input, probe, client, discovery
<1>4. CASE SendCode
  BY <1>4 DEF SendCode
<1>5. CASE Refuse
  BY <1>5 DEF Refuse, input, probe, client, discovery
<1>6. CASE Lost
  BY <1>6 DEF Lost, input, probe, client, discovery
<1>7. ASSUME NEW ok \in BOOLEAN, SubmitCode(ok) PROVE OneCenter'
  BY <1>7 DEF SubmitCode, input, probe, client, discovery
<1>8. CASE CompleteLogin
  <2>1. PICK reported \in {Home[account]} \cup (IF api = Home[account] THEN {None} ELSE {}) : AdoptHost(reported)
    BY <1>8 DEF CompleteLogin
  <2>2. account \in Accounts
    BY DEF TypeOK
  <2>3. api' = Home[account] /\ host' = Home[account]
    BY <2>1, <2>2, LoginAssumption DEF AdoptHost
  <2>4. sid' = [uid |-> account, at |-> Home[account]] /\ account' = account /\ pc' \in {"info", "credentials"}
    BY <1>8 DEF CompleteLogin, input
  <2> QED BY <2>3, <2>4
<1>9. CASE RejectCode
  BY <1>9 DEF RejectCode, input, probe, client, discovery
<1>10. CASE UserInfo
  BY <1>10 DEF UserInfo, input, probe, client, discovery
<1>11. CASE DiscoverCameras
  BY <1>11 DEF DiscoverCameras, input, probe, client, discovery
<1>12. CASE CreateEntry
  BY <1>12 DEF CreateEntry, input, probe, client, discovery
<1>13. CASE Leave
  BY <1>13 DEF Leave, input, probe, client, discovery
<1>14. ASSUME NEW u \in Accounts, RemoveEntry(u) PROVE OneCenter'
  BY <1>14 DEF RemoveEntry, input, probe, client, discovery
<1>15. CASE UNCHANGED vars
  BY <1>15 DEF vars, input, probe, client, discovery
<1> QED BY <1>1, <1>2, <1>3, <1>4, <1>5, <1>6, <1>7, <1>8, <1>9, <1>10, <1>11, <1>12, <1>13, <1>14, <1>15 DEF Next

\* The center of the account stays among those left to probe.
LEMMA ProbingStep == IInv /\ [Next]_vars => Probing'
<1> SUFFICES ASSUME IInv, [Next]_vars PROVE Probing'
  OBVIOUS
<1> USE DEF IInv, Probing
<1>1. ASSUME NEW k \in {"setup", "reauth"}, NEW u \in Accounts \cup {None}, Begin(k, u) PROVE Probing'
  BY <1>1 DEF Begin, input, probe, client, discovery
<1>2. ASSUME NEW a \in Accounts, NEW good \in BOOLEAN, NEW c \in Countries, SubmitCredentials(a, good, c) PROVE Probing'
  <2>1. account' = a /\ todo' = LoginCandidates(c) /\ kind' = kind /\ target' = target
    BY <1>2 DEF SubmitCredentials
  <2>2. \E i \in DOMAIN todo' : todo'[i] = Home[account']
    BY <2>1, CandidatesType, LoginAssumption
  <2> QED BY <1>2, <2>1, <2>2 DEF SubmitCredentials
<1>3. CASE FirstLogin
  BY <1>3 DEF FirstLogin, input, probe, client, discovery
<1>4. CASE SendCode
  BY <1>4 DEF SendCode, input, probe, client, discovery
<1>5. CASE Refuse
  <2>1. PICK code \in Refusals(Head(todo)) :
          LET next == IsWrongDataCenter(code)
          IN  /\ todo' = IF next THEN Tail(todo) ELSE todo
              /\ pc' = IF next /\ Len(todo) > 1 THEN "first" ELSE "credentials"
    BY <1>5 DEF Refuse
  <2>2. account' = account /\ kind' = kind /\ target' = target /\ pc \in {"first", "send"}
    BY <1>5 DEF Refuse, input
  <2>3. CASE ~(IsWrongDataCenter(code) /\ Len(todo) > 1)
    BY <2>1, <2>2, <2>3
  <2>4. CASE IsWrongDataCenter(code) /\ Len(todo) > 1
    <3>1. PICK i \in DOMAIN todo : todo[i] = Home[account]
      BY <2>2
    <3>2. i \in 1 .. Len(todo) /\ todo \in Seq(Centers) /\ Len(todo) \in Nat /\ todo # <<>>
      BY <3>1, <2>4, LenProperties DEF TypeOK
    <3>3. Head(todo) # Home[account]
      BY <2>1, <2>4 DEF Refusals, Accepts, IsWrongDataCenter
    <3>4. i # 1
      BY <3>1, <3>2, <3>3
    <3>5. /\ Tail(todo) \in Seq(Centers) /\ Len(Tail(todo)) = Len(todo) - 1
          /\ \A j \in 1 .. Len(Tail(todo)) : Tail(todo)[j] = todo[j + 1]
      BY <3>2, HeadTailProperties
    <3>6. i - 1 \in DOMAIN Tail(todo) /\ Tail(todo)[i - 1] = Home[account]
      BY <3>1, <3>2, <3>4, <3>5, LenProperties
    <3> QED BY <2>1, <2>2, <2>4, <3>6
  <2> QED BY <2>3, <2>4
<1>6. CASE Lost
  BY <1>6 DEF Lost, input, probe, client, discovery
<1>7. ASSUME NEW ok \in BOOLEAN, SubmitCode(ok) PROVE Probing'
  BY <1>7 DEF SubmitCode, input, probe, client, discovery
<1>8. CASE CompleteLogin
  BY <1>8 DEF CompleteLogin, input, probe, client, discovery
<1>9. CASE RejectCode
  BY <1>9 DEF RejectCode, input, probe, client, discovery
<1>10. CASE UserInfo
  BY <1>10 DEF UserInfo, input, probe, client, discovery
<1>11. CASE DiscoverCameras
  BY <1>11 DEF DiscoverCameras, input, probe, client, discovery
<1>12. CASE CreateEntry
  BY <1>12 DEF CreateEntry, input, probe, client, discovery
<1>13. CASE Leave
  BY <1>13 DEF Leave, input, probe, client, discovery
<1>14. ASSUME NEW u \in Accounts, RemoveEntry(u) PROVE Probing'
  BY <1>14 DEF RemoveEntry, input, probe, client, discovery
<1>15. CASE UNCHANGED vars
  BY <1>15 DEF vars, input, probe, client, discovery
<1> QED BY <1>1, <1>2, <1>3, <1>4, <1>5, <1>6, <1>7, <1>8, <1>9, <1>10, <1>11, <1>12, <1>13, <1>14, <1>15 DEF Next

\* Only a center that does not own the account says it is not there.
LEMMA FoundStep == IInv /\ [Next]_vars => Found'
<1> SUFFICES ASSUME IInv, [Next]_vars PROVE Found'
  OBVIOUS
<1> USE DEF IInv, Found, Accepts
<1>1. ASSUME NEW k \in {"setup", "reauth"}, NEW u \in Accounts \cup {None}, Begin(k, u) PROVE Found'
  BY <1>1 DEF Begin, input, probe, client, discovery
<1>2. ASSUME NEW a \in Accounts, NEW good \in BOOLEAN, NEW c \in Countries, SubmitCredentials(a, good, c) PROVE Found'
  BY <1>2 DEF SubmitCredentials, input, probe, client, discovery
<1>3. CASE FirstLogin
  BY <1>3 DEF FirstLogin, input, probe, client, discovery
<1>4. CASE SendCode
  BY <1>4 DEF SendCode, input, probe, client, discovery
<1>5. CASE Refuse
  <2>1. PICK code \in Refusals(Head(todo)) :
          LET first == IF firstError = "none" THEN code ELSE firstError
              next  == IsWrongDataCenter(code)
          IN  IF next /\ Len(todo) > 1 THEN UNCHANGED error
              ELSE error' = IF next THEN first ELSE code
    BY <1>5 DEF Refuse
  <2>0. pc' \in {"first", "credentials"} /\ pc \in {"first", "send"} /\ error # "elsewhere"
    BY <1>5 DEF Refuse
  <2>2. CASE ~IsWrongDataCenter(code)
    BY <2>0, <2>1, <2>2 DEF IsWrongDataCenter
  <2>3. CASE IsWrongDataCenter(code)
    <3>1. Len(todo) > 1
      <4>1. PICK i \in DOMAIN todo : todo[i] = Home[account]
        BY <1>5 DEF Probing, Refuse
      <4>2. i \in 1 .. Len(todo) /\ todo \in Seq(Centers) /\ Len(todo) \in Nat
        BY <4>1, LenProperties DEF TypeOK
      <4>3. Head(todo) # Home[account]
        BY <2>1, <2>3 DEF Refusals, Accepts, IsWrongDataCenter
      <4> QED BY <4>1, <4>2, <4>3
    <3> QED BY <2>0, <2>1, <2>3, <3>1
  <2> QED BY <2>2, <2>3
<1>6. CASE Lost
  BY <1>6 DEF Lost, input, probe
<1>7. ASSUME NEW ok \in BOOLEAN, SubmitCode(ok) PROVE Found'
  BY <1>7 DEF SubmitCode, input, probe, client, discovery
<1>8. CASE CompleteLogin
  <2>1. PICK reported \in {Home[account]} \cup (IF api = Home[account] THEN {None} ELSE {}) : AdoptHost(reported)
    BY <1>8 DEF CompleteLogin
  <2>2. account \in Accounts /\ error # "elsewhere"
    BY <1>8 DEF TypeOK, CompleteLogin
  <2>3. api' = Home[account]
    BY <2>1, <2>2, LoginAssumption DEF AdoptHost
  <2>4. account' = account /\ error' = error /\ pc' \in {"info", "credentials"}
    BY <1>8 DEF CompleteLogin, input
  <2> QED BY <2>2, <2>3, <2>4
<1>9. CASE RejectCode
  BY <1>9 DEF RejectCode, input, probe, client, discovery
<1>10. CASE UserInfo
  BY <1>10 DEF UserInfo, input, probe, client, discovery
<1>11. CASE DiscoverCameras
  BY <1>11 DEF DiscoverCameras, input, probe, client, discovery
<1>12. CASE CreateEntry
  BY <1>12 DEF CreateEntry, input, probe, client, discovery
<1>13. CASE Leave
  BY <1>13 DEF Leave, input, probe, client, discovery
<1>14. ASSUME NEW u \in Accounts, RemoveEntry(u) PROVE Found'
  BY <1>14 DEF RemoveEntry, input, probe, client, discovery
<1>15. CASE UNCHANGED vars
  BY <1>15 DEF vars, input, probe, client, discovery
<1> QED BY <1>1, <1>2, <1>3, <1>4, <1>5, <1>6, <1>7, <1>8, <1>9, <1>10, <1>11, <1>12, <1>13, <1>14, <1>15 DEF Next

\* A list that shows nothing joins those asked before it.
LEMMA AskListStep ==
  ASSUME TypeOK, NothingSeen, OneDeviceList, NEW answered \in BOOLEAN, AskList(answered) PROVE NothingSeen'
<1> SUFFICES ASSUME ~failed', cameras' = {} PROVE \A l \in Asked' : layout'[l] = {}
  BY DEF NothingSeen
<1>1. /\ ask \in Lists /\ answered = TRUE /\ ~failed /\ layout' = layout
      /\ layout[ask] = {} /\ cameras = {} /\ ask' = FollowedBy(ask, {}, TRUE)
  BY DEF AskList, TypeOK, DiscoveryOK
<1>2. \A l \in Asked : layout[l] = {}
  BY <1>1 DEF NothingSeen
<1>3. PICK k \in Kinds, h \in 1 .. Homes : ask = <<k, h>>
  BY <1>1 DEF Lists
<1>4. Homes \in Nat /\ Homes >= 1
  BY DiscoveryAssumption
<1>5. Asked' \subseteq Asked \cup {ask}
  <2>1. CASE k = "rooms2"
    <3>1. ask' = <<"rooms1", h>>
      BY <1>1, <1>3, <2>1 DEF FollowedBy
    <3> QED BY <3>1, <1>3, <2>1 DEF Asked
  <2>2. CASE k = "rooms1"
    <3>1. ask' = <<"group", h>>
      BY <1>1, <1>3, <2>2 DEF FollowedBy
    <3> QED BY <3>1, <1>3, <2>2 DEF Asked
  <2>3. CASE k = "group"
    <3>1. Asked = Early(h) \cup {<<"rooms2", h>>, <<"rooms1", h>>}
      BY <1>3, <2>3 DEF Asked
    <3>2. Early(h + 1) \subseteq Asked \cup {ask}
      BY <3>1, <1>3, <1>4, <2>3 DEF Early
    <3>3. CASE h < Homes
      <4>1. ask' = <<"rooms2", h + 1>>
        BY <1>1, <1>3, <2>3, <3>3 DEF FollowedBy, NextHome
      <4> QED BY <4>1, <3>2 DEF Asked
    <3>4. CASE h = Homes
      <4>1. ask' = <<"relation", 1>>
        BY <1>1, <1>3, <2>3, <3>4 DEF FollowedBy, NextHome
      <4>2. Asked' = Early(Homes + 1) \cup ({"relation"} \X (1 .. 0))
        BY <4>1 DEF Asked
      <4> QED BY <4>2, <3>2, <3>4
    <3> QED BY <3>3, <3>4, <1>4
  <2>4. CASE k = "relation"
    <3>1. Asked = Early(Homes + 1) \cup ({"relation"} \X (1 .. (h - 1)))
      BY <1>3, <2>4 DEF Asked
    <3>2. {"relation"} \X (1 .. h) \subseteq Asked \cup {ask}
      BY <3>1, <1>3, <1>4, <2>4
    <3>3. CASE h < Homes
      <4>1. ask' = <<"relation", h + 1>>
        BY <1>1, <1>3, <2>4, <3>3 DEF FollowedBy
      <4>2. Asked' = Early(Homes + 1) \cup ({"relation"} \X (1 .. (h + 1 - 1)))
        BY <4>1 DEF Asked
      <4> QED BY <4>2, <3>1, <3>2, <1>3
    <3>4. CASE h = Homes
      <4>1. ask' = <<"devices", 1>>
        BY <1>1, <1>3, <2>4, <3>4 DEF FollowedBy
      <4>2. Asked' = Early(Homes + 1) \cup ({"relation"} \X (1 .. Homes))
        BY <4>1 DEF Asked
      <4> QED BY <4>2, <3>1, <3>2, <3>4
    <3> QED BY <3>3, <3>4, <1>4
  <2>5. CASE k = "devices"
    <3>1. ask' = Done
      BY <1>1, <1>3, <2>5 DEF FollowedBy
    <3>2. Asked' = Asked \cup {<<"devices", 1>>}
      BY <3>1, <1>3, <2>5 DEF Asked, Done
    <3>3. h = 1
      BY <1>1, <1>3, <2>5 DEF OneDeviceList
    <3> QED BY <3>2, <3>3, <1>3, <2>5
  <2> QED BY <2>1, <2>2, <2>3, <2>4, <2>5, <1>3 DEF Kinds
<1> QED BY <1>1, <1>2, <1>5

\* Nothing is learnt where the discovery rests.
LEMMA DiscoveryRests ==
  NothingSeen /\ OneDeviceList /\ UNCHANGED discovery => NothingSeen' /\ OneDeviceList'
  BY DEF NothingSeen, OneDeviceList, Asked, discovery

\* A discovery that starts anew has asked nothing.
LEMMA DiscoveryStarts == ask' = Idle => NothingSeen' /\ OneDeviceList'
  BY DEF NothingSeen, OneDeviceList, Asked, Idle

\* Home after home and list after list.
LEMMA DiscoverStep == TypeOK /\ NothingSeen /\ OneDeviceList /\ Discover => NothingSeen' /\ OneDeviceList'
<1> SUFFICES ASSUME TypeOK, NothingSeen, OneDeviceList, Discover PROVE NothingSeen' /\ OneDeviceList'
  OBVIOUS
<1>1. PICK answered \in BOOLEAN : GetHomes(answered) \/ AskList(answered)
  BY DEF Discover
<1>2. CASE GetHomes(answered)
  <2>1. ask' = <<"rooms2", 1>> \/ failed'
    BY <1>2 DEF GetHomes
  <2>2. ask' \in {<<"rooms2", 1>>, <<"devices", 1>>}
    BY <1>2 DEF GetHomes
  <2>3. ask' = <<"rooms2", 1>> => Asked' = {}
    BY DEF Asked, Early
  <2> QED BY <2>1, <2>2, <2>3 DEF NothingSeen, OneDeviceList
<1>3. CASE AskList(answered)
  <2>1. OneDeviceList'
    <3>1. PICK k \in Kinds, h \in 1 .. Homes : ask = <<k, h>>
      BY <1>3 DEF AskList, Lists
    <3>2. ask' = FollowedBy(<<k, h>>, cameras', answered)
      BY <3>1, <1>3 DEF AskList
    <3> QED BY <3>2 DEF FollowedBy, NextHome, OneDeviceList, Kinds, Done
  <2> QED BY <2>1, <1>3, AskListStep
<1> QED BY <1>1, <1>2, <1>3

\* What the discovery has asked showed no camera while none is found.
LEMMA SeenStep == IInv /\ [Next]_vars => NothingSeen' /\ OneDeviceList'
<1> SUFFICES ASSUME IInv, [Next]_vars PROVE NothingSeen' /\ OneDeviceList'
  OBVIOUS
<1> USE DEF IInv
<1>1. ASSUME NEW k \in {"setup", "reauth"}, NEW u \in Accounts \cup {None}, Begin(k, u) PROVE NothingSeen' /\ OneDeviceList'
  BY <1>1, DiscoveryStarts DEF Begin
<1>2. ASSUME NEW a \in Accounts, NEW good \in BOOLEAN, NEW c \in Countries, SubmitCredentials(a, good, c) PROVE NothingSeen' /\ OneDeviceList'
  BY <1>2, DiscoveryRests DEF SubmitCredentials
<1>3. CASE FirstLogin
  BY <1>3, DiscoveryRests DEF FirstLogin
<1>4. CASE SendCode
  BY <1>4, DiscoveryRests DEF SendCode
<1>5. CASE Refuse
  BY <1>5, DiscoveryRests DEF Refuse
<1>6. CASE Lost
  BY <1>6, DiscoveryRests DEF Lost
<1>7. ASSUME NEW ok \in BOOLEAN, SubmitCode(ok) PROVE NothingSeen' /\ OneDeviceList'
  BY <1>7, DiscoveryRests DEF SubmitCode
<1>8. CASE CompleteLogin
  BY <1>8, DiscoveryRests DEF CompleteLogin
<1>9. CASE RejectCode
  BY <1>9, DiscoveryRests DEF RejectCode
<1>10. CASE UserInfo
  BY <1>10, DiscoveryStarts DEF UserInfo
<1>11. CASE DiscoverCameras
  <2>1. CASE Discover
    BY <2>1, DiscoverStep
  <2>2. CASE ask' = Done /\ failed' = TRUE
    BY <2>2 DEF NothingSeen, OneDeviceList, Done
  <2> QED BY <1>11, <2>1, <2>2 DEF DiscoverCameras
<1>12. CASE CreateEntry
  BY <1>12, DiscoveryRests DEF CreateEntry
<1>13. CASE Leave
  BY <1>13, DiscoveryRests DEF Leave
<1>14. ASSUME NEW u \in Accounts, RemoveEntry(u) PROVE NothingSeen' /\ OneDeviceList'
  BY <1>14, DiscoveryRests DEF RemoveEntry
<1>15. CASE UNCHANGED vars
  BY <1>15, DiscoveryRests DEF vars
<1> QED BY <1>1, <1>2, <1>3, <1>4, <1>5, <1>6, <1>7, <1>8, <1>9, <1>10, <1>11, <1>12, <1>13, <1>14, <1>15 DEF Next

LEMMA TypePartsNext == (DiscoveryOK' /\ FlowType' /\ ProbeType' /\ ClientType') => TypeOK'
  BY DEF TypeOK, FlowType, ProbeType, ClientType

\* The discovery asks lists that exist and finds cameras that exist.
LEMMA DiscoverType == DiscoveryOK /\ Discover => DiscoveryOK'
<1> SUFFICES ASSUME DiscoveryOK, Discover PROVE DiscoveryOK'
  OBVIOUS
<1>1. PICK answered \in BOOLEAN : GetHomes(answered) \/ AskList(answered)
  BY DEF Discover
<1>2. Homes \in Nat /\ Homes >= 1
  BY DiscoveryAssumption
<1>3. CASE GetHomes(answered)
  <2>1. <<"rooms2", 1>> \in Lists /\ <<"devices", 1>> \in Lists
    BY <1>2 DEF Lists, Kinds
  <2> QED BY <1>3, <2>1 DEF GetHomes, DiscoveryOK
<1>4. CASE AskList(answered)
  <2>1. layout[ask] \subseteq Cameras /\ ask \in Lists
    BY <1>4, DiscoveryAssumption DEF AskList, DiscoveryOK
  <2>2. PICK k \in Kinds, h \in 1 .. Homes : ask = <<k, h>>
    BY <2>1 DEF Lists
  <2>3. \A j \in 1 .. Homes :
          /\ <<"rooms2", j>> \in Lists /\ <<"rooms1", j>> \in Lists /\ <<"group", j>> \in Lists
          /\ <<"relation", j>> \in Lists /\ <<"devices", j>> \in Lists
    BY DEF Lists, Kinds
  <2>4. 1 \in 1 .. Homes /\ (h < Homes => h + 1 \in 1 .. Homes)
    BY <1>2
  <2>5. NextHome(h, cameras') \in Lists \cup {Done}
    BY <2>3, <2>4 DEF NextHome
  <2> DEFINE after == NextHome(h, cameras')
  <2>6. FollowedBy(<<k, h>>, cameras', answered) \in
          {after, <<"rooms1", h>>, <<"group", h>>, <<"devices", 1>>, Done}
            \cup (IF h < Homes THEN {<<"relation", h + 1>>} ELSE {})
    BY DEF FollowedBy, Kinds
  <2>7. FollowedBy(<<k, h>>, cameras', answered) \in Lists \cup {Done}
    BY <2>3, <2>4, <2>5, <2>6
  <2> QED BY <1>4, <2>1, <2>2, <2>7 DEF AskList, DiscoveryOK
<1> QED BY <1>1, <1>3, <1>4

\* Every step keeps the types.
LEMMA TypeStep == IInv /\ [Next]_vars => TypeOK'
<1> SUFFICES ASSUME IInv, [Next]_vars PROVE DiscoveryOK' /\ FlowType' /\ ProbeType' /\ ClientType'
  BY TypePartsNext
<1> DiscoveryOK /\ FlowType /\ ProbeType /\ ClientType
  BY TypeParts DEF IInv
<1> USE DEF IInv
<1>1. ASSUME NEW k \in {"setup", "reauth"}, NEW u \in Accounts \cup {None}, Begin(k, u) PROVE DiscoveryOK' /\ FlowType' /\ ProbeType' /\ ClientType'
  BY <1>1 DEF Begin, FlowType, ProbeType, ClientType, DiscoveryOK, discovery, input, probe, client, Errors, Idle
<1>2. ASSUME NEW a \in Accounts, NEW good \in BOOLEAN, NEW c \in Countries, SubmitCredentials(a, good, c) PROVE DiscoveryOK' /\ FlowType' /\ ProbeType' /\ ClientType'
  <2>1. todo' \in Seq(Centers) /\ Len(todo') <= Len(ProbeOrder) /\ firstError' = "none" /\ error' = "none"
    BY <1>2, CandidatesType DEF SubmitCredentials
  <2>2. ProbeType'
    BY <2>1 DEF ProbeType, Errors
  <2> QED BY <1>2, <2>2 DEF SubmitCredentials, FlowType, ClientType, DiscoveryOK, discovery, client
<1>3. CASE FirstLogin
  BY <1>3 DEF FirstLogin, FlowType, ProbeType, ClientType, DiscoveryOK, discovery, input, probe, client
<1>4. CASE SendCode
  <2>1. Head(todo) \in Centers
    <3>1. todo # <<>> /\ todo \in Seq(Centers)
      BY <1>4 DEF SendCode, Probing, ProbeType
    <3> QED BY <3>1
  <2>2. mailed' \in [Accounts -> BOOLEAN]
    BY <1>4 DEF SendCode, FlowType
  <2> QED BY <1>4, <2>1, <2>2 DEF SendCode, FlowType, ProbeType, ClientType, DiscoveryOK, discovery, input, probe
<1>5. CASE Refuse
  <2>1. PICK code \in Refusals(Head(todo)) :
          LET first == IF firstError = "none" THEN code ELSE firstError
              next  == IsWrongDataCenter(code)
          IN  /\ firstError' = first
              /\ todo' = IF next THEN Tail(todo) ELSE todo
              /\ IF next /\ Len(todo) > 1
                   THEN pc' = "first" /\ UNCHANGED error
                   ELSE pc' = "credentials" /\ error' = IF next THEN first ELSE code
              /\ refused' = (refused \/ code = "password")
    BY <1>5 DEF Refuse
  <2>2. code \in Errors
    BY <2>1 DEF Refusals, Errors
  <2>3. todo' \in Seq(Centers) /\ Len(todo') <= Len(ProbeOrder)
    <3>1. todo # <<>> /\ todo \in Seq(Centers) /\ Len(todo) <= Len(ProbeOrder) /\ Len(ProbeOrder) \in Nat
      BY <1>5, LoginAssumption DEF Refuse, Probing, ProbeType
    <3>2. Tail(todo) \in Seq(Centers) /\ Len(Tail(todo)) = Len(todo) - 1 /\ Len(todo) \in Nat
      BY <3>1, HeadTailProperties, LenProperties
    <3> QED BY <2>1, <3>1, <3>2
  <2>4. firstError' \in Errors /\ error' \in Errors /\ pc' \in {"first", "credentials"}
    BY <2>1, <2>2 DEF ProbeType, Errors
  <2>5. refused' \in BOOLEAN
    BY <2>1 DEF FlowType
  <2> QED BY <1>5, <2>3, <2>4, <2>5 DEF Refuse, FlowType, ProbeType, ClientType, DiscoveryOK, discovery, input, client
<1>6. CASE Lost
  <2>1. sid' \in Session \cup {None}
    BY <1>6 DEF Lost, ClientType
  <2> QED BY <1>6, <2>1 DEF Lost, FlowType, ProbeType, ClientType, Errors, DiscoveryOK, discovery, input, probe
<1>7. ASSUME NEW ok \in BOOLEAN, SubmitCode(ok) PROVE DiscoveryOK' /\ FlowType' /\ ProbeType' /\ ClientType'
  BY <1>7 DEF SubmitCode, FlowType, ProbeType, ClientType, DiscoveryOK, discovery, input, probe, client, Errors
<1>8. CASE CompleteLogin
  <2>1. PICK reported \in {Home[account]} \cup (IF api = Home[account] THEN {None} ELSE {}) : AdoptHost(reported)
    BY <1>8 DEF CompleteLogin
  <2>2. account \in Accounts /\ Home[account] \in Centers
    BY LoginAssumption DEF FlowType
  <2>3. api' = Home[account] /\ host' = Home[account]
    BY <2>1, <2>2, LoginAssumption DEF AdoptHost, OneCenter
  <2>4. sid' \in Session
    BY <1>8, <2>2 DEF CompleteLogin, Session
  <2>5. mailed' \in [Accounts -> BOOLEAN]
    BY <1>8 DEF CompleteLogin, FlowType
  <2>6. entries' \in [Accounts -> Entry \cup {None}]
    <3>1. CASE kind = "setup"
      BY <1>8, <3>1 DEF CompleteLogin, ClientType
    <3>2. CASE kind # "setup"
      <4>1. StoredEntry(target) \in Entry
        BY <2>2, <2>3, <2>4 DEF StoredEntry, Entry
      <4>2. entries' = [entries EXCEPT ![target] = StoredEntry(target)]
        BY <1>8, <3>2 DEF CompleteLogin
      <4> QED BY <4>1, <4>2 DEF ClientType
    <3> QED BY <3>1, <3>2
  <2>7. kind' \in {kind, "none"} /\ pc' \in {"info", "credentials"}
    BY <1>8 DEF CompleteLogin
  <2>8. UNCHANGED <<target, input, probe, error, typed, refused, discovery>>
    BY <1>8 DEF CompleteLogin
  <2>9. FlowType'
    BY <2>5, <2>7, <2>8 DEF FlowType, input
  <2>10. DiscoveryOK' /\ ProbeType'
    BY <2>8 DEF ProbeType, DiscoveryOK, discovery, probe
  <2>11. ClientType'
    BY <2>2, <2>3, <2>4, <2>6 DEF ClientType
  <2> QED BY <2>9, <2>10, <2>11
<1>9. CASE RejectCode
  <2>1. error' \in Errors
    BY <1>9 DEF RejectCode, CodeFormErrors, Errors
  <2>2. FlowType' /\ ClientType' /\ DiscoveryOK'
    BY <1>9 DEF RejectCode, FlowType, ClientType, DiscoveryOK, discovery, input, client
  <2> QED BY <1>9, <2>1, <2>2 DEF RejectCode, ProbeType, probe
<1>10. CASE UserInfo
  <2>1. FlowType' /\ ClientType'
    BY <1>10 DEF UserInfo, FlowType, ClientType, input, client
  <2>2. ProbeType'
    BY <1>10 DEF UserInfo, ProbeType, Errors, CodeFormErrors, probe
  <2>3. DiscoveryOK'
    BY <1>10 DEF UserInfo, DiscoveryOK
  <2> QED BY <2>1, <2>2, <2>3
<1>11. CASE DiscoverCameras
  <2>1. DiscoveryOK'
    <3>1. CASE Discover
      BY <3>1, DiscoverType
    <3>2. CASE ask' = Done /\ cameras' = {} /\ failed' = TRUE /\ UNCHANGED layout
      BY <3>2 DEF DiscoveryOK
    <3> QED BY <1>11, <3>1, <3>2 DEF DiscoverCameras
  <2> QED BY <1>11, <2>1 DEF DiscoverCameras, FlowType, ProbeType, ClientType, input, probe, client
<1>12. CASE CreateEntry
  <2>1. entries' \in [Accounts -> Entry \cup {None}]
    <3>1. pc \in {"discover"} /\ account \in Accounts /\ host \in Centers
      BY <1>12 DEF CreateEntry, FlowType, ClientType
    <3>2. [sid |-> sid, uid |-> account, host |-> host] \in Entry
      BY <3>1 DEF OneCenter, Entry, Session
    <3> QED BY <1>12, <3>1, <3>2 DEF CreateEntry, ClientType
  <2> QED BY <1>12, <2>1 DEF CreateEntry, FlowType, ProbeType, ClientType, DiscoveryOK, discovery, input, probe, client
<1>13. CASE Leave
  BY <1>13 DEF Leave, FlowType, ProbeType, ClientType, DiscoveryOK, discovery, input, probe, client
<1>14. ASSUME NEW u \in Accounts, RemoveEntry(u) PROVE DiscoveryOK' /\ FlowType' /\ ProbeType' /\ ClientType'
  <2>1. entries' \in [Accounts -> Entry \cup {None}]
    BY <1>14 DEF RemoveEntry, ClientType
  <2> QED BY <1>14, <2>1 DEF RemoveEntry, FlowType, ProbeType, ClientType, DiscoveryOK, discovery, input, probe, client
<1>15. CASE UNCHANGED vars
  BY <1>15 DEF vars, FlowType, ProbeType, ClientType, DiscoveryOK, discovery, input, probe, client
<1> QED BY <1>1, <1>2, <1>3, <1>4, <1>5, <1>6, <1>7, <1>8, <1>9, <1>10, <1>11, <1>12, <1>13, <1>14, <1>15 DEF Next

LEMMA Inductive == IInv /\ [Next]_vars => IInv'
  BY TypeStep, ProbingStep, OneCenterStep, SeenStep, PasswordStep, FoundStep, EntryStep DEF IInv

LEMMA Invariant == Spec => []IInv
<1>1. IInv /\ [Next]_vars => IInv'
  BY Inductive
<1> QED BY InitInv, <1>1, PTL DEF Spec

(* Every variable of the flow keeps its type: no entry is written with     *)
(* half a session and no data center outside PROBE_ORDER is ever asked.    *)
THEOREM TypeCorrect == Spec => []TypeOK
<1>1. IInv => TypeOK
  BY DEF IInv
<1> QED BY Invariant, <1>1, PTL

(* PasswordNotSpread: a wrong password ends the probe of the data centers, *)
(* whatever the routing of the countries and the gateways.                 *)
THEOREM PasswordStaysHome == Spec => []PasswordNotSpread
<1>1. IInv => PasswordNotSpread
  BY DEF IInv
<1> QED BY Invariant, <1>1, PTL

(* ProbeFindsAccount: because every list of candidates names every center  *)
(* and only one that does not own the account passes it over, the probe    *)
(* ends at a center that takes the login and never reports the account as  *)
(* unknown; only the form of the code that follows may say so.             *)
THEOREM ProbeAlwaysFinds == Spec => []ProbeFindsAccount
<1>1. IInv => ProbeFindsAccount
  BY DEF IInv, Found, ProbeFindsAccount
<1> QED BY Invariant, <1>1, PTL

(* EntryIsOneLogin: session, user and API host of every stored entry are   *)
(* of one login, after a setup and after a reauthentication.               *)
THEOREM OneLoginPerEntry == Spec => []EntryIsOneLogin
<1>1. IInv => EntryIsOneLogin
  BY DEF IInv
<1> QED BY Invariant, <1>1, PTL

(* EmptyOnlyWhenNoneShown: for any number of homes and any lists, a        *)
(* discovery without an error that ends without a camera has asked every   *)
(* list.                                                                   *)
THEOREM EmptyMeansEmpty == Spec => []EmptyOnlyWhenNoneShown
<1>1. IInv => EmptyOnlyWhenNoneShown
  <2> SUFFICES ASSUME IInv, ask = Done, ~failed, cameras = {} PROVE Shown = {}
    BY DEF EmptyOnlyWhenNoneShown
  <2>1. \A l \in Asked : layout[l] = {}
    BY DEF IInv, NothingSeen
  <2>2. Homes \in Nat /\ Homes >= 1
    BY DiscoveryAssumption
  <2>3. \A i \in 1 .. Homes, m \in {"rooms2", "rooms1", "group"} : <<m, i>> \in Early(Homes + 1)
    BY <2>2 DEF Early
  <2>4. Asked = Early(Homes + 1) \cup ({"relation"} \X (1 .. Homes)) \cup {<<"devices", 1>>}
    BY DEF Asked, Done
  <2>5. ASSUME NEW l \in Lists, l[1] = "devices" => l[2] = 1 PROVE l \in Asked
    <3>1. PICK k \in Kinds, h \in 1 .. Homes : l = <<k, h>>
      BY DEF Lists
    <3>2. k \in {"rooms2", "rooms1", "group"} => <<k, h>> \in Early(Homes + 1)
      BY <2>3
    <3>3. k = "relation" => <<k, h>> \in {"relation"} \X (1 .. Homes)
      BY <3>1
    <3>4. k = "devices" => h = 1
      BY <3>1, <2>5
    <3>5. k = "devices" => l = <<"devices", 1>>
      BY <3>1, <3>4
    <3>6. k \in {"rooms2", "rooms1", "group"} \/ k = "relation" \/ k = "devices"
      BY DEF Kinds
    <3> QED BY <3>1, <3>2, <3>3, <3>5, <3>6, <2>4
  <2> QED BY <2>1, <2>5 DEF Shown
<1> QED BY Invariant, <1>1, PTL
=============================================================================
