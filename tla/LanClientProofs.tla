--------------------------- MODULE LanClientProofs ---------------------------
(***************************************************************************)
(* What holds of the LAN client for any camera, any protocol versions, any *)
(* heartbeat interval no longer than the data timeout, and blocking calls  *)
(* of any length that has a bound.                                         *)
(***************************************************************************)
EXTENDS LanClient, TLAPS

\* The flag, the socket and the place in the loop agree.
Link ==
  /\ pc \in {"top", "try", "scan", "beat", "raised", "garbled", "sleep", "end"}
  /\ connected \in BOOLEAN /\ socket \in {"none", "good", "dead"}
  /\ connected <=> socket # "none"
  /\ pc \in {"try", "scan", "sleep", "end"} => ~connected
  /\ pc \in {"beat", "raised", "garbled"} => connected

Numbers ==
  /\ failures \in 0..2 /\ unreadable \in 0..(MaxPayloadErrors - 1)
  /\ sinceData \in 0..(DataTimeout + 1) /\ sinceBeat \in 0..HeartbeatInterval
  /\ deadFor \in 0..Horizon
  /\ pushes \in 0..MaxPushes /\ attempts \in Nat /\ odd \in Nat

\* A version is at hand as long as one is being tried.
Data ==
  /\ task \in {"new", "running", "stopped"}
  /\ ip \in Addresses \cup {None}
  /\ announced \in Versions \cup {None} /\ version \in Versions \cup {None}
  /\ todo \in Seq(Versions) /\ cached \in BOOLEAN
  /\ up \in BOOLEAN /\ where \in Addresses /\ firmware \in Firmwares
  /\ command \in {"sending", "done", "fallback"}
  /\ pc = "try" => todo # <<>>

\* A dead session is no older than the last ping, until one is due; the receive that
\* ends in may take its time, and so may the ping that fails.
Dying ==
  /\ socket # "dead" => deadFor = 0
  /\ pc = "top" => deadFor <= sinceBeat /\ deadFor < HeartbeatInterval
  /\ pc \in {"beat", "garbled"} => deadFor < HeartbeatInterval + Longest
  /\ deadFor < HeartbeatInterval + 2 * Longest

\* Every attempt since the last pause or answer, except the last, has failed;
\* a session without an answer ends at its first ping, before its data is stale.
Pacing ==
  /\ attempts <= 2
  /\ pc = "top" /\ ~connected => attempts <= failures /\ attempts <= 1
  /\ pc \in {"try", "scan", "beat", "raised", "garbled"} => attempts <= failures + 1
  /\ pc = "top" /\ connected =>
       /\ attempts <= failures + 1
       /\ attempts = 0 \/ (sinceData <= sinceBeat /\ sinceBeat < HeartbeatInterval)

\* What the client counts as unreadable in a row was.
Counting == odd >= unreadable /\ (pc = "garbled" => odd = MaxPayloadErrors)

IInv == Link /\ Numbers /\ Data /\ Dying /\ Pacing /\ Counting

-----------------------------------------------------------------------------
LEMMA Bounds ==
  /\ Longest \in Nat /\ Longest >= 1 /\ \A d \in Durations : d \in Nat /\ d <= Longest
  /\ HeartbeatInterval \in Nat /\ HeartbeatInterval >= 1 /\ Horizon \in Nat
  /\ Horizon = HeartbeatInterval + 2 * Longest
  /\ DataTimeout \in Nat /\ HeartbeatInterval <= DataTimeout
  /\ MaxPayloadErrors \in Nat /\ MaxPayloadErrors >= 1 /\ MaxPushes \in Nat
<1>1. Longest \in Durations /\ \A d \in Durations : d <= Longest
  BY LanAssumption DEF Longest
<1> QED BY <1>1, LanAssumption, PolicyAssumption DEF Horizon

LEMMA CandidateVersions ==
  ASSUME NEW v
  PROVE  VersionCandidates(v) \in Seq(Versions) /\ VersionCandidates(v) # <<>>
  BY PolicyAssumption DEF VersionCandidates

LEMMA InitInv == Init => IInv
<1> SUFFICES ASSUME Init PROVE IInv
  OBVIOUS
<1>1. Link
  BY DEF Init, Link
<1>2. Dying
  BY Bounds DEF Init, Dying
<1>3. Pacing /\ Counting
  BY DEF Init, Pacing, Counting
<1>4. Numbers
  BY Bounds DEF Init, Numbers
<1>5. Data
  <2>1. <<>> \in Seq(Versions)
    OBVIOUS
  <2> QED BY <2>1 DEF Init, Data
<1> QED BY <1>1, <1>2, <1>3, <1>4, <1>5 DEF IInv

\* Every step keeps them in agreement.
LEMMA LinkStep == IInv /\ [Next]_vars => Link'
<1> SUFFICES ASSUME IInv, [Next]_vars PROVE Link'
  OBVIOUS
<1> USE DEF IInv, Link
<1>1. CASE Camera
  BY <1>1 DEF Camera, camera, found, trying, clocks, GoesAway, ComesBack, DropsSession, Break
<1>2. CASE Start
  BY <1>2 DEF Start, camera, found, trying, clocks
<1>3. CASE Stop
  BY <1>3 DEF Stop, camera, found, trying, clocks, Disconnect
<1>4. CASE SleepOver
  BY <1>4 DEF SleepOver, camera, found, trying, clocks
<1>5. CASE Connect
  BY <1>5 DEF Connect, camera, found, trying, clocks, AtMost
<1>6. CASE TryVersion
  BY <1>6 DEF TryVersion, camera, found, trying, clocks, Fresh, Failed, Waits, AtMost
<1>7. CASE ScanFinds
  BY <1>7 DEF ScanFinds, camera, found, trying, clocks
<1>8. CASE ScanMisses
  BY <1>8 DEF ScanMisses, camera, found, trying, clocks, Failed, Waits, AtMost
<1>9. CASE Stale
  BY <1>9 DEF Stale, camera, found, trying, clocks, Disconnect, DataStale
<1>10. ASSUME NEW d \in Durations, ReceiveNothing(d) PROVE Link'
  BY <1>10 DEF ReceiveNothing, camera, found, trying, clocks, Receiving, Passes, Keepalive, HeartbeatDue, DataStale, AtMost
<1>11. ASSUME NEW d \in Durations, ReceiveFrame(d) PROVE Link'
  BY <1>11 DEF ReceiveFrame, camera, found, trying, clocks, Receiving, Passes, Keepalive, HeartbeatDue, DataStale, AtMost
<1>12. ASSUME NEW d \in Durations, NEW lost \in BOOLEAN, ReceiveError(lost, d) PROVE Link'
  BY <1>12 DEF ReceiveError, camera, found, trying, clocks, Receiving, Passes, Keepalive, HeartbeatDue, DataStale, AtMost, ShouldReconnect
<1>13. CASE LoseSession
  BY <1>13 DEF LoseSession, camera, found, trying, clocks, Disconnect, Failed, Waits, AtMost
<1>14. ASSUME NEW d \in Durations, Beat(d) PROVE Link'
  BY <1>14 DEF Beat, camera, found, trying, clocks, AtMost
<1>15. CASE Command
  BY <1>15 DEF Command, camera, found, trying, clocks
<1>16. CASE Sent
  BY <1>16 DEF Sent, camera, found, trying, clocks
<1>17. CASE UNCHANGED vars
  BY <1>17 DEF vars, camera, found, trying, clocks
<1>18. ASSUME NEW d \in Durations, Raises(d) PROVE Link'
  BY <1>18 DEF Raises, camera, found, trying, clocks, Receiving, Passes, AtMost
<1> QED BY <1>1, <1>2, <1>3, <1>4, <1>5, <1>6, <1>7, <1>8, <1>9, <1>10, <1>11, <1>12, <1>13, <1>14, <1>15, <1>16, <1>17, <1>18 DEF Next, Receive, Heartbeat, Fails

\* The counters and clocks stay within their bounds.
LEMMA NumbersStep == IInv /\ [Next]_vars => Numbers'
<1> SUFFICES ASSUME IInv, [Next]_vars PROVE Numbers'
  OBVIOUS
<1> USE DEF IInv, Numbers, Link
<1>1. CASE Camera
  BY <1>1, Bounds DEF Camera, camera, found, trying, clocks, GoesAway, ComesBack, DropsSession, Break
<1>2. CASE Start
  BY <1>2, Bounds DEF Start, camera, found, trying, clocks
<1>3. CASE Stop
  BY <1>3, Bounds DEF Stop, camera, found, trying, clocks, Disconnect
<1>4. CASE SleepOver
  BY <1>4, Bounds DEF SleepOver, camera, found, trying, clocks
<1>5. CASE Connect
  BY <1>5, Bounds DEF Connect, camera, found, trying, clocks, AtMost
<1>6. CASE TryVersion
  BY <1>6, Bounds DEF TryVersion, camera, found, trying, clocks, Fresh, Failed, Waits, AtMost
<1>7. CASE ScanFinds
  BY <1>7, Bounds DEF ScanFinds, camera, found, trying, clocks
<1>8. CASE ScanMisses
  BY <1>8, Bounds DEF ScanMisses, camera, found, trying, clocks, Failed, Waits, AtMost
<1>9. CASE Stale
  BY <1>9, Bounds DEF Stale, camera, found, trying, clocks, Disconnect, DataStale
<1>10. ASSUME NEW d \in Durations, ReceiveNothing(d) PROVE Numbers'
  BY <1>10, Bounds DEF ReceiveNothing, camera, found, trying, clocks, Receiving, Passes, Keepalive, HeartbeatDue, DataStale, AtMost
<1>11. ASSUME NEW d \in Durations, ReceiveFrame(d) PROVE Numbers'
  BY <1>11, Bounds DEF ReceiveFrame, camera, found, trying, clocks, Receiving, Passes, Keepalive, HeartbeatDue, DataStale, AtMost
<1>12. ASSUME NEW d \in Durations, NEW lost \in BOOLEAN, ReceiveError(lost, d) PROVE Numbers'
  <2>1. /\ pc = "top" /\ connected /\ connected' = connected /\ socket' = socket /\ failures' = failures
        /\ sinceBeat' = AtMost(sinceBeat + d, HeartbeatInterval)
        /\ deadFor' = IF socket = "dead" THEN AtMost(deadFor + d, Horizon) ELSE deadFor
        /\ odd' = IF lost THEN odd ELSE AtMost(odd + 1, MaxPayloadErrors)
        /\ UNCHANGED <<attempts, pushes>>
    BY <1>12 DEF ReceiveError, Receiving, Passes
  <2>2. d \in Nat /\ d <= Longest
    BY Bounds
  <2>3. CASE ShouldReconnect(lost, unreadable + 1)
    <3>1. /\ UNCHANGED <<sinceData, unreadable>> /\ pc' = IF lost THEN "raised" ELSE "garbled"
          /\ lost \/ unreadable + 1 >= MaxPayloadErrors
      BY <1>12, <2>3 DEF ReceiveError, ShouldReconnect
    <3> QED BY <2>1, <2>2, <3>1, Bounds DEF AtMost
  <2>4. CASE ~ShouldReconnect(lost, unreadable + 1)
    <3>1. /\ sinceData' = 0 /\ unreadable' = unreadable + 1 /\ ~lost /\ ~(unreadable + 1 >= MaxPayloadErrors)
          /\ pc' = IF sinceBeat' >= HeartbeatInterval THEN "beat" ELSE "top"
      BY <1>12, <2>4 DEF ReceiveError, Keepalive, HeartbeatDue, ShouldReconnect
    <3> QED BY <2>1, <2>2, <3>1, Bounds DEF AtMost
  <2> QED BY <2>3, <2>4
<1>13. CASE LoseSession
  BY <1>13, Bounds DEF LoseSession, camera, found, trying, clocks, Disconnect, Failed, Waits, AtMost
<1>14. ASSUME NEW d \in Durations, Beat(d) PROVE Numbers'
  <2>1. d \in Nat
    BY Bounds
  <2>2. AtMost(d, DataTimeout + 1) \in 0..(DataTimeout + 1) /\ AtMost(d, HeartbeatInterval) \in 0..HeartbeatInterval
    BY <2>1, Bounds DEF AtMost
  <2> QED BY <1>14, <2>2 DEF Beat
<1>15. CASE Command
  BY <1>15, Bounds DEF Command, camera, found, trying, clocks
<1>16. CASE Sent
  BY <1>16, Bounds DEF Sent, camera, found, trying, clocks
<1>17. CASE UNCHANGED vars
  BY <1>17, Bounds DEF vars, camera, found, trying, clocks
<1>18. ASSUME NEW d \in Durations, Raises(d) PROVE Numbers'
  <2>1. d \in Nat /\ d <= Longest
    BY Bounds
  <2> QED BY <1>18, <2>1, Bounds DEF Raises, camera, found, trying, clocks, Receiving, Passes, AtMost
<1> QED BY <1>1, <1>2, <1>3, <1>4, <1>5, <1>6, <1>7, <1>8, <1>9, <1>10, <1>11, <1>12, <1>13, <1>14, <1>15, <1>16, <1>17, <1>18 DEF Next, Receive, Heartbeat, Fails

\* A dead session is found out at the next ping.
LEMMA DyingStep == IInv /\ [Next]_vars => Dying'
<1> SUFFICES ASSUME IInv, [Next]_vars PROVE Dying'
  OBVIOUS
<1> USE DEF IInv, Dying, Link, Numbers
<1>1. CASE Camera
  BY <1>1, Bounds DEF Camera, camera, found, trying, clocks, GoesAway, ComesBack, DropsSession, Break
<1>2. CASE Start
  BY <1>2, Bounds DEF Start, camera, found, trying, clocks
<1>3. CASE Stop
  BY <1>3, Bounds DEF Stop, camera, found, trying, clocks, Disconnect
<1>4. CASE SleepOver
  BY <1>4, Bounds DEF SleepOver, camera, found, trying, clocks
<1>5. CASE Connect
  BY <1>5, Bounds DEF Connect, camera, found, trying, clocks, AtMost
<1>6. CASE TryVersion
  BY <1>6, Bounds DEF TryVersion, camera, found, trying, clocks, Fresh, Failed, Waits, AtMost
<1>7. CASE ScanFinds
  BY <1>7, Bounds DEF ScanFinds, camera, found, trying, clocks
<1>8. CASE ScanMisses
  BY <1>8, Bounds DEF ScanMisses, camera, found, trying, clocks, Failed, Waits, AtMost
<1>9. CASE Stale
  BY <1>9, Bounds DEF Stale, camera, found, trying, clocks, Disconnect, DataStale
<1>10. ASSUME NEW d \in Durations, ReceiveNothing(d) PROVE Dying'
  BY <1>10, Bounds DEF ReceiveNothing, camera, found, trying, clocks, Receiving, Passes, Keepalive, HeartbeatDue, DataStale, AtMost
<1>11. ASSUME NEW d \in Durations, ReceiveFrame(d) PROVE Dying'
  BY <1>11, Bounds DEF ReceiveFrame, camera, found, trying, clocks, Receiving, Passes, Keepalive, HeartbeatDue, DataStale, AtMost
<1>12. ASSUME NEW d \in Durations, NEW lost \in BOOLEAN, ReceiveError(lost, d) PROVE Dying'
  <2>1. /\ pc = "top" /\ connected /\ connected' = connected /\ socket' = socket /\ failures' = failures
        /\ sinceBeat' = AtMost(sinceBeat + d, HeartbeatInterval)
        /\ deadFor' = IF socket = "dead" THEN AtMost(deadFor + d, Horizon) ELSE deadFor
        /\ odd' = IF lost THEN odd ELSE AtMost(odd + 1, MaxPayloadErrors)
        /\ UNCHANGED <<attempts, pushes>>
    BY <1>12 DEF ReceiveError, Receiving, Passes
  <2>2. d \in Nat /\ d <= Longest
    BY Bounds
  <2>3. CASE ShouldReconnect(lost, unreadable + 1)
    <3>1. /\ UNCHANGED <<sinceData, unreadable>> /\ pc' = IF lost THEN "raised" ELSE "garbled"
          /\ lost \/ unreadable + 1 >= MaxPayloadErrors
      BY <1>12, <2>3 DEF ReceiveError, ShouldReconnect
    <3> QED BY <2>1, <2>2, <3>1, Bounds DEF AtMost
  <2>4. CASE ~ShouldReconnect(lost, unreadable + 1)
    <3>1. /\ sinceData' = 0 /\ unreadable' = unreadable + 1 /\ ~lost /\ ~(unreadable + 1 >= MaxPayloadErrors)
          /\ pc' = IF sinceBeat' >= HeartbeatInterval THEN "beat" ELSE "top"
      BY <1>12, <2>4 DEF ReceiveError, Keepalive, HeartbeatDue, ShouldReconnect
    <3> QED BY <2>1, <2>2, <3>1, Bounds DEF AtMost
  <2> QED BY <2>3, <2>4
<1>13. CASE LoseSession
  BY <1>13, Bounds DEF LoseSession, camera, found, trying, clocks, Disconnect, Failed, Waits, AtMost
<1>14. ASSUME NEW d \in Durations, Beat(d) PROVE Dying'
  BY <1>14, Bounds DEF Beat, camera, found, trying, clocks, AtMost
<1>15. CASE Command
  BY <1>15, Bounds DEF Command, camera, found, trying, clocks
<1>16. CASE Sent
  BY <1>16, Bounds DEF Sent, camera, found, trying, clocks
<1>17. CASE UNCHANGED vars
  BY <1>17, Bounds DEF vars, camera, found, trying, clocks
<1>18. ASSUME NEW d \in Durations, Raises(d) PROVE Dying'
  <2>1. d \in Nat /\ d <= Longest
    BY Bounds
  <2> QED BY <1>18, <2>1, Bounds DEF Raises, camera, found, trying, clocks, Receiving, Passes, AtMost
<1> QED BY <1>1, <1>2, <1>3, <1>4, <1>5, <1>6, <1>7, <1>8, <1>9, <1>10, <1>11, <1>12, <1>13, <1>14, <1>15, <1>16, <1>17, <1>18 DEF Next, Receive, Heartbeat, Fails

\* An attempt is made after an answer, after a pause, or as the second one.
LEMMA PacingStep == IInv /\ [Next]_vars => Pacing'
<1> SUFFICES ASSUME IInv, [Next]_vars PROVE Pacing'
  OBVIOUS
<1> USE DEF IInv, Pacing, Link, Numbers
<1>1. CASE Camera
  BY <1>1, Bounds DEF Camera, camera, found, trying, clocks, GoesAway, ComesBack, DropsSession, Break
<1>2. CASE Start
  BY <1>2, Bounds DEF Start, camera, found, trying, clocks
<1>3. CASE Stop
  BY <1>3, Bounds DEF Stop, camera, found, trying, clocks, Disconnect
<1>4. CASE SleepOver
  BY <1>4, Bounds DEF SleepOver, camera, found, trying, clocks
<1>5. CASE Connect
  BY <1>5, Bounds DEF Connect, camera, found, trying, clocks, AtMost
<1>6. CASE TryVersion
  BY <1>6, Bounds DEF TryVersion, camera, found, trying, clocks, Fresh, Failed, Waits, AtMost
<1>7. CASE ScanFinds
  BY <1>7, Bounds DEF ScanFinds, camera, found, trying, clocks
<1>8. CASE ScanMisses
  BY <1>8, Bounds DEF ScanMisses, camera, found, trying, clocks, Failed, Waits, AtMost
<1>9. CASE Stale
  BY <1>9, Bounds DEF Stale, camera, found, trying, clocks, Disconnect, DataStale
<1>10. ASSUME NEW d \in Durations, ReceiveNothing(d) PROVE Pacing'
  BY <1>10, Bounds DEF ReceiveNothing, camera, found, trying, clocks, Receiving, Passes, Keepalive, HeartbeatDue, DataStale, AtMost
<1>11. ASSUME NEW d \in Durations, ReceiveFrame(d) PROVE Pacing'
  BY <1>11, Bounds DEF ReceiveFrame, camera, found, trying, clocks, Receiving, Passes, Keepalive, HeartbeatDue, DataStale, AtMost
<1>12. ASSUME NEW d \in Durations, NEW lost \in BOOLEAN, ReceiveError(lost, d) PROVE Pacing'
  <2>1. /\ pc = "top" /\ connected /\ connected' = connected /\ socket' = socket /\ failures' = failures
        /\ sinceBeat' = AtMost(sinceBeat + d, HeartbeatInterval)
        /\ deadFor' = IF socket = "dead" THEN AtMost(deadFor + d, Horizon) ELSE deadFor
        /\ odd' = IF lost THEN odd ELSE AtMost(odd + 1, MaxPayloadErrors)
        /\ UNCHANGED <<attempts, pushes>>
    BY <1>12 DEF ReceiveError, Receiving, Passes
  <2>2. d \in Nat /\ d <= Longest
    BY Bounds
  <2>3. CASE ShouldReconnect(lost, unreadable + 1)
    <3>1. /\ UNCHANGED <<sinceData, unreadable>> /\ pc' = IF lost THEN "raised" ELSE "garbled"
          /\ lost \/ unreadable + 1 >= MaxPayloadErrors
      BY <1>12, <2>3 DEF ReceiveError, ShouldReconnect
    <3> QED BY <2>1, <2>2, <3>1, Bounds DEF AtMost
  <2>4. CASE ~ShouldReconnect(lost, unreadable + 1)
    <3>1. /\ sinceData' = 0 /\ unreadable' = unreadable + 1 /\ ~lost /\ ~(unreadable + 1 >= MaxPayloadErrors)
          /\ pc' = IF sinceBeat' >= HeartbeatInterval THEN "beat" ELSE "top"
      BY <1>12, <2>4 DEF ReceiveError, Keepalive, HeartbeatDue, ShouldReconnect
    <3> QED BY <2>1, <2>2, <3>1, Bounds DEF AtMost
  <2> QED BY <2>3, <2>4
<1>13. CASE LoseSession
  BY <1>13, Bounds DEF LoseSession, camera, found, trying, clocks, Disconnect, Failed, Waits, AtMost
<1>14. ASSUME NEW d \in Durations, Beat(d) PROVE Pacing'
  BY <1>14, Bounds DEF Beat, camera, found, trying, clocks, AtMost
<1>15. CASE Command
  BY <1>15, Bounds DEF Command, camera, found, trying, clocks
<1>16. CASE Sent
  BY <1>16, Bounds DEF Sent, camera, found, trying, clocks
<1>17. CASE UNCHANGED vars
  BY <1>17, Bounds DEF vars, camera, found, trying, clocks
<1>18. ASSUME NEW d \in Durations, Raises(d) PROVE Pacing'
  <2>1. d \in Nat /\ d <= Longest
    BY Bounds
  <2> QED BY <1>18, <2>1, Bounds DEF Raises, camera, found, trying, clocks, Receiving, Passes, AtMost
<1> QED BY <1>1, <1>2, <1>3, <1>4, <1>5, <1>6, <1>7, <1>8, <1>9, <1>10, <1>11, <1>12, <1>13, <1>14, <1>15, <1>16, <1>17, <1>18 DEF Next, Receive, Heartbeat, Fails

\* Both counters go back to zero together.
LEMMA CountingStep == IInv /\ [Next]_vars => Counting'
<1> SUFFICES ASSUME IInv, [Next]_vars PROVE Counting'
  OBVIOUS
<1> USE DEF IInv, Counting, Numbers
<1>1. CASE Camera
  BY <1>1, Bounds DEF Camera, camera, found, trying, clocks, GoesAway, ComesBack, DropsSession, Break
<1>2. CASE Start
  BY <1>2, Bounds DEF Start, camera, found, trying, clocks
<1>3. CASE Stop
  BY <1>3, Bounds DEF Stop, camera, found, trying, clocks, Disconnect
<1>4. CASE SleepOver
  BY <1>4, Bounds DEF SleepOver, camera, found, trying, clocks
<1>5. CASE Connect
  BY <1>5, Bounds DEF Connect, camera, found, trying, clocks, AtMost
<1>6. CASE TryVersion
  BY <1>6, Bounds DEF TryVersion, camera, found, trying, clocks, Fresh, Failed, Waits, AtMost
<1>7. CASE ScanFinds
  BY <1>7, Bounds DEF ScanFinds, camera, found, trying, clocks
<1>8. CASE ScanMisses
  BY <1>8, Bounds DEF ScanMisses, camera, found, trying, clocks, Failed, Waits, AtMost
<1>9. CASE Stale
  BY <1>9, Bounds DEF Stale, camera, found, trying, clocks, Disconnect, DataStale
<1>10. ASSUME NEW d \in Durations, ReceiveNothing(d) PROVE Counting'
  BY <1>10, Bounds DEF ReceiveNothing, camera, found, trying, clocks, Receiving, Passes, Keepalive, HeartbeatDue, DataStale, AtMost
<1>11. ASSUME NEW d \in Durations, ReceiveFrame(d) PROVE Counting'
  BY <1>11, Bounds DEF ReceiveFrame, camera, found, trying, clocks, Receiving, Passes, Keepalive, HeartbeatDue, DataStale, AtMost
<1>12. ASSUME NEW d \in Durations, NEW lost \in BOOLEAN, ReceiveError(lost, d) PROVE Counting'
  <2>1. /\ pc = "top" /\ connected /\ connected' = connected /\ socket' = socket /\ failures' = failures
        /\ sinceBeat' = AtMost(sinceBeat + d, HeartbeatInterval)
        /\ deadFor' = IF socket = "dead" THEN AtMost(deadFor + d, Horizon) ELSE deadFor
        /\ odd' = IF lost THEN odd ELSE AtMost(odd + 1, MaxPayloadErrors)
        /\ UNCHANGED <<attempts, pushes>>
    BY <1>12 DEF ReceiveError, Receiving, Passes
  <2>2. d \in Nat /\ d <= Longest
    BY Bounds
  <2>3. CASE ShouldReconnect(lost, unreadable + 1)
    <3>1. /\ UNCHANGED <<sinceData, unreadable>> /\ pc' = IF lost THEN "raised" ELSE "garbled"
          /\ lost \/ unreadable + 1 >= MaxPayloadErrors
      BY <1>12, <2>3 DEF ReceiveError, ShouldReconnect
    <3> QED BY <2>1, <2>2, <3>1, Bounds DEF AtMost
  <2>4. CASE ~ShouldReconnect(lost, unreadable + 1)
    <3>1. /\ sinceData' = 0 /\ unreadable' = unreadable + 1 /\ ~lost /\ ~(unreadable + 1 >= MaxPayloadErrors)
          /\ pc' = IF sinceBeat' >= HeartbeatInterval THEN "beat" ELSE "top"
      BY <1>12, <2>4 DEF ReceiveError, Keepalive, HeartbeatDue, ShouldReconnect
    <3> QED BY <2>1, <2>2, <3>1, Bounds DEF AtMost
  <2> QED BY <2>3, <2>4
<1>13. CASE LoseSession
  BY <1>13, Bounds DEF LoseSession, camera, found, trying, clocks, Disconnect, Failed, Waits, AtMost
<1>14. ASSUME NEW d \in Durations, Beat(d) PROVE Counting'
  BY <1>14, Bounds DEF Beat, camera, found, trying, clocks, AtMost
<1>15. CASE Command
  BY <1>15, Bounds DEF Command, camera, found, trying, clocks
<1>16. CASE Sent
  BY <1>16, Bounds DEF Sent, camera, found, trying, clocks
<1>17. CASE UNCHANGED vars
  BY <1>17, Bounds DEF vars, camera, found, trying, clocks
<1>18. ASSUME NEW d \in Durations, Raises(d) PROVE Counting'
  <2>1. d \in Nat /\ d <= Longest
    BY Bounds
  <2> QED BY <1>18, <2>1, Bounds DEF Raises, camera, found, trying, clocks, Receiving, Passes, AtMost
<1> QED BY <1>1, <1>2, <1>3, <1>4, <1>5, <1>6, <1>7, <1>8, <1>9, <1>10, <1>11, <1>12, <1>13, <1>14, <1>15, <1>16, <1>17, <1>18 DEF Next, Receive, Heartbeat, Fails

\* Addresses and versions stem from the camera and the candidates.
LEMMA DataStep == IInv /\ [Next]_vars => Data'
<1> SUFFICES ASSUME IInv, [Next]_vars PROVE Data'
  OBVIOUS
<1> USE DEF IInv, Data, Link
<1>1. CASE Camera
  BY <1>1 DEF Camera, camera, found, trying, clocks, GoesAway, ComesBack, DropsSession, Break
<1>2. CASE Start
  BY <1>2 DEF Start, camera, found, trying, clocks
<1>3. CASE Stop
  BY <1>3 DEF Stop, camera, found, trying, clocks, Disconnect
<1>4. CASE SleepOver
  BY <1>4 DEF SleepOver, camera, found, trying, clocks
<1>5. CASE Connect
  BY <1>5, CandidateVersions DEF Connect, camera, found, trying, clocks
<1>6. CASE TryVersion
  <2>1. Head(todo) \in Versions /\ Tail(todo) \in Seq(Versions)
    BY <1>6 DEF TryVersion
  <2>2. todo' \in Seq(Versions) /\ version' \in Versions \cup {None}
    <3>1. CASE Answers(ip, Head(todo))
      <4>1. todo' = <<>> /\ version' = Head(todo)
        BY <1>6, <3>1 DEF TryVersion
      <4> QED BY <4>1, <2>1
    <3>2. CASE ~Answers(ip, Head(todo))
      <4>1. todo' = Tail(todo) /\ version' = version
        BY <1>6, <3>2 DEF TryVersion
      <4> QED BY <4>1, <2>1
    <3> QED BY <3>1, <3>2
  <2>3. ip' \in Addresses \cup {None} /\ (pc' = "try" => todo' # <<>>)
    BY <1>6 DEF TryVersion, Failed
  <2> QED BY <1>6, <2>2, <2>3 DEF TryVersion, camera
<1>7. CASE ScanFinds
  <2>1. announced' \in Versions \cup {None}
    BY <1>7, LanAssumption DEF ScanFinds
  <2> QED BY <1>7, <2>1, CandidateVersions DEF ScanFinds, camera
<1>8. CASE ScanMisses
  BY <1>8 DEF ScanMisses, camera, found, trying, clocks, Failed, Waits, AtMost
<1>9. CASE Stale
  BY <1>9 DEF Stale, camera, found, trying, clocks, Disconnect, DataStale
<1>10. ASSUME NEW d \in Durations, ReceiveNothing(d) PROVE Data'
  BY <1>10 DEF ReceiveNothing, camera, found, trying, clocks, Receiving, Passes, Keepalive, HeartbeatDue, DataStale, AtMost
<1>11. ASSUME NEW d \in Durations, ReceiveFrame(d) PROVE Data'
  BY <1>11 DEF ReceiveFrame, camera, found, trying, clocks, Receiving, Passes, Keepalive, HeartbeatDue, DataStale, AtMost
<1>12. ASSUME NEW d \in Durations, NEW lost \in BOOLEAN, ReceiveError(lost, d) PROVE Data'
  BY <1>12 DEF ReceiveError, camera, found, trying, clocks, Receiving, Passes, Keepalive, HeartbeatDue, DataStale, AtMost, ShouldReconnect
<1>13. CASE LoseSession
  BY <1>13 DEF LoseSession, camera, found, trying, clocks, Disconnect, Failed, Waits, AtMost
<1>14. ASSUME NEW d \in Durations, Beat(d) PROVE Data'
  BY <1>14 DEF Beat, camera, found, trying, clocks, AtMost
<1>15. CASE Command
  BY <1>15 DEF Command, camera, found, trying, clocks
<1>16. CASE Sent
  BY <1>16 DEF Sent, camera, found, trying, clocks
<1>17. CASE UNCHANGED vars
  BY <1>17 DEF vars, camera, found, trying, clocks
<1>18. ASSUME NEW d \in Durations, Raises(d) PROVE Data'
  BY <1>18 DEF Raises, camera, found, trying, clocks, Receiving, Passes, AtMost
<1> QED BY <1>1, <1>2, <1>3, <1>4, <1>5, <1>6, <1>7, <1>8, <1>9, <1>10, <1>11, <1>12, <1>13, <1>14, <1>15, <1>16, <1>17, <1>18 DEF Next, Receive, Heartbeat, Fails

\* The step of OddFramesForgiven.
Kept ==
  connected /\ ~connected' /\ socket = "good"
    => \/ pc = "raised"
       \/ pc = "garbled" /\ odd = MaxPayloadErrors
       \/ DataStale(sinceData)
       \/ task' = "stopped"

\* A good session is given up for a reason.
LEMMA DropStep == IInv /\ [Next]_vars => Kept
<1> SUFFICES ASSUME IInv, [Next]_vars PROVE Kept
  OBVIOUS
<1> USE DEF IInv, Link, Kept
<1>1. CASE Camera
  BY <1>1 DEF Camera, camera, found, trying, clocks, GoesAway, ComesBack, DropsSession, Break
<1>2. CASE Start
  BY <1>2 DEF Start, camera, found, trying, clocks
<1>3. CASE Stop
  BY <1>3 DEF Stop, camera, found, trying, clocks, Disconnect
<1>4. CASE SleepOver
  BY <1>4 DEF SleepOver, camera, found, trying, clocks
<1>5. CASE Connect
  BY <1>5 DEF Connect, camera, found, trying, clocks, AtMost
<1>6. CASE TryVersion
  BY <1>6 DEF TryVersion, camera, found, trying, clocks, Fresh, Failed, Waits, AtMost
<1>7. CASE ScanFinds
  BY <1>7 DEF ScanFinds, camera, found, trying, clocks
<1>8. CASE ScanMisses
  BY <1>8 DEF ScanMisses, camera, found, trying, clocks, Failed, Waits, AtMost
<1>9. CASE Stale
  BY <1>9 DEF Stale, camera, found, trying, clocks, Disconnect, DataStale
<1>10. ASSUME NEW d \in Durations, ReceiveNothing(d) PROVE Kept
  BY <1>10 DEF ReceiveNothing, camera, found, trying, clocks, Receiving, Passes, Keepalive, HeartbeatDue, DataStale, AtMost
<1>11. ASSUME NEW d \in Durations, ReceiveFrame(d) PROVE Kept
  BY <1>11 DEF ReceiveFrame, camera, found, trying, clocks, Receiving, Passes, Keepalive, HeartbeatDue, DataStale, AtMost
<1>12. ASSUME NEW d \in Durations, NEW lost \in BOOLEAN, ReceiveError(lost, d) PROVE Kept
  BY <1>12 DEF ReceiveError
<1>13. CASE LoseSession
  BY <1>13 DEF LoseSession, Counting
<1>14. ASSUME NEW d \in Durations, Beat(d) PROVE Kept
  BY <1>14 DEF Beat, camera, found, trying, clocks, AtMost
<1>15. CASE Command
  BY <1>15 DEF Command, camera, found, trying, clocks
<1>16. CASE Sent
  BY <1>16 DEF Sent, camera, found, trying, clocks
<1>17. CASE UNCHANGED vars
  BY <1>17 DEF vars
<1>18. ASSUME NEW d \in Durations, Raises(d) PROVE Kept
  BY <1>18 DEF Raises, camera, found, trying, clocks, Receiving, Passes, AtMost
<1> QED BY <1>1, <1>2, <1>3, <1>4, <1>5, <1>6, <1>7, <1>8, <1>9, <1>10, <1>11, <1>12, <1>13, <1>14, <1>15, <1>16, <1>17, <1>18 DEF Next, Receive, Heartbeat, Fails

\* Each step of the client is one of the session it promises, or none.
LEMMA SessionStep == IInv /\ [Next]_vars => [Session!Next]_<<task, connected, pushes>>
<1> SUFFICES ASSUME IInv, [Next]_vars PROVE [Session!Next]_<<task, connected, pushes>>
  OBVIOUS
<1> USE DEF IInv, Link, Session!Next, Session!Start, Session!Gain, Session!Lose, Session!Deliver, Session!Stop
<1>1. CASE Camera
  BY <1>1 DEF Camera, camera, found, trying, clocks, GoesAway, ComesBack, DropsSession, Break
<1>2. CASE Start
  BY <1>2 DEF Start, camera, found, trying, clocks
<1>3. CASE Stop
  BY <1>3 DEF Stop, camera, found, trying, clocks, Disconnect
<1>4. CASE SleepOver
  BY <1>4 DEF SleepOver, camera, found, trying, clocks
<1>5. CASE Connect
  BY <1>5 DEF Connect, camera, found, trying, clocks, AtMost
<1>6. CASE TryVersion
  BY <1>6 DEF TryVersion, camera, found, trying, clocks, Fresh, Failed, Waits, AtMost
<1>7. CASE ScanFinds
  BY <1>7 DEF ScanFinds, camera, found, trying, clocks
<1>8. CASE ScanMisses
  BY <1>8 DEF ScanMisses, camera, found, trying, clocks, Failed, Waits, AtMost
<1>9. CASE Stale
  BY <1>9 DEF Stale, camera, found, trying, clocks, Disconnect, DataStale
<1>10. ASSUME NEW d \in Durations, ReceiveNothing(d) PROVE [Session!Next]_<<task, connected, pushes>>
  BY <1>10 DEF ReceiveNothing, camera, found, trying, clocks, Receiving, Passes, Keepalive, HeartbeatDue, DataStale, AtMost
<1>11. ASSUME NEW d \in Durations, ReceiveFrame(d) PROVE [Session!Next]_<<task, connected, pushes>>
  BY <1>11 DEF ReceiveFrame, camera, found, trying, clocks, Receiving, Passes, Keepalive, HeartbeatDue, DataStale, AtMost
<1>12. ASSUME NEW d \in Durations, NEW lost \in BOOLEAN, ReceiveError(lost, d) PROVE [Session!Next]_<<task, connected, pushes>>
  BY <1>12 DEF ReceiveError, camera, found, trying, clocks, Receiving, Passes, Keepalive, HeartbeatDue, DataStale, AtMost, ShouldReconnect
<1>13. CASE LoseSession
  BY <1>13 DEF LoseSession, camera, found, trying, clocks, Disconnect, Failed, Waits, AtMost
<1>14. ASSUME NEW d \in Durations, Beat(d) PROVE [Session!Next]_<<task, connected, pushes>>
  BY <1>14 DEF Beat, camera, found, trying, clocks, AtMost
<1>15. CASE Command
  BY <1>15 DEF Command, camera, found, trying, clocks
<1>16. CASE Sent
  BY <1>16 DEF Sent, camera, found, trying, clocks
<1>17. CASE UNCHANGED vars
  BY <1>17 DEF vars
<1>18. ASSUME NEW d \in Durations, Raises(d) PROVE [Session!Next]_<<task, connected, pushes>>
  BY <1>18 DEF Raises, camera, found, trying, clocks, Receiving, Passes, AtMost
<1> QED BY <1>1, <1>2, <1>3, <1>4, <1>5, <1>6, <1>7, <1>8, <1>9, <1>10, <1>11, <1>12, <1>13, <1>14, <1>15, <1>16, <1>17, <1>18 DEF Next, Receive, Heartbeat, Fails

-----------------------------------------------------------------------------
LEMMA Inductive == IInv /\ [Next]_vars => IInv'
  BY LinkStep, NumbersStep, DataStep, DyingStep, PacingStep, CountingStep DEF IInv

LEMMA Invariant == Spec => []IInv
<1>1. IInv /\ [Next]_vars => IInv'
  BY Inductive
<1> QED BY InitInv, <1>1, PTL DEF Spec

(* The counters, clocks and candidates of the client keep their bounds.    *)
THEOREM TypeCorrect == Spec => []TypeOK
<1>1. IInv => TypeOK
  BY DEF IInv, Link, Numbers, Data, TypeOK
<1> QED BY Invariant, <1>1, PTL

(* DeadSessionNoticed, for any heartbeat interval and any longest call:    *)
(* while nothing arrives the age of a dead session never overtakes the     *)
(* time since the last ping; the receive in which the next falls due and   *)
(* the ping itself, which fails, each add one call to it.                  *)
THEOREM DeadSessionIsNoticed == Spec => []DeadSessionNoticed
<1>1. IInv => DeadSessionNoticed
  BY DEF IInv, Dying, DeadSessionNoticed
<1> QED BY Invariant, <1>1, PTL

(* Paced: the attempts since the last pause or answer never exceed the     *)
(* failures counted, save the one under way.                               *)
THEOREM MonitorIsPaced == Spec => []Paced
<1>1. IInv => Paced
  BY DEF IInv, Pacing, Paced
<1> QED BY Invariant, <1>1, PTL

(* OddFramesForgiven: for any number of tolerated frames, unreadable ones  *)
(* that were counted on earlier sessions never cost a session the camera   *)
(* keeps, nor do pings and receives in between; what is left are a call    *)
(* that fails, stale data and a stop.                                      *)
THEOREM OddFramesAreForgiven == Spec => OddFramesForgiven
<1>1. IInv /\ [Next]_vars => [Kept]_vars
  BY DropStep
<1>2. Kept => (connected /\ ~connected' /\ socket = "good"
       => \/ pc = "raised"
          \/ pc = "garbled" /\ odd = MaxPayloadErrors
          \/ DataStale(sinceData)
          \/ task' = "stopped")
  BY DEF Kept
<1> QED BY Invariant, <1>1, <1>2, PTL DEF Spec, OddFramesForgiven

(* ImplementsSession: the client implements LanSession, so what the        *)
(* coordinator relies on, a flag that is true only on a session and no     *)
(* push without one or after stop, holds of lan.py for any camera.         *)
THEOREM ClientImplementsSession == Spec => ImplementsSession
<1>1. Init => Session!Init
  BY DEF Init, Session!Init
<1>2. IInv /\ [Next]_vars => [Session!Next]_<<task, connected, pushes>>
  BY SessionStep
<1> QED BY Invariant, <1>1, <1>2, PTL DEF Spec, ImplementsSession, Session!Spec
=============================================================================
