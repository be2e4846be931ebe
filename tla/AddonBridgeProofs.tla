-------------------------- MODULE AddonBridgeProofs --------------------------
(***************************************************************************)
(* What holds of the configuration files and of the bridge that reads them *)
(* for any set of entries, number of changes, crashes and container        *)
(* starts; of the paths that the bridge gives to any list of cameras; and  *)
(* of the bridge's own files (CameraStore) for any set of accounts and     *)
(* commands.                                                               *)
(***************************************************************************)
EXTENDS AddonBridge, CameraStore, FiniteSetTheorems, SequenceTheorems, WellFoundedInduction, TLAPS

-----------------------------------------------------------------------------
(* The configuration files and the add-on.                                 *)

FileTypes ==
  /\ st \in [Entries -> Steps] /\ version \in [Entries -> Nat] /\ built \in [Entries -> Nat]
  /\ \A e \in Entries : version[e] <= MaxVersion
  /\ valid \in [Entries -> SUBSET Entries]
  /\ files \in [Entries -> Nat \cup {Absent, Half}]

BoxTypes ==
  /\ hash \in Nat \cup {Absent, Half} /\ served \in Nat \cup {Absent}
  /\ box \in {"off", "wait"} => hash = Absent
  /\ box \in {"off", "wait"} \/ path \in Entries \cup {Legacy}
  /\ bridge = "none" \/ box \in {"alive", "sleep", "reap"}
  /\ bridge \in {"none", "load"} => served = Absent
  /\ bridge \in {"verify", "up"} => served \in Nat

\* A leftover is in nobody's list, and the first setup that ends deletes it.
Leftover(f) == st[f] = "absent" /\ files[f] # Absent /\ f \notin undeleted
Leftovers ==
  /\ \A f \in Entries : Leftover(f) => \A e \in Entries : f \notin valid[e] /\ st[e] # "loaded"
  /\ legacy => \A e \in Entries : st[e] \notin {"prune", "loaded"}

\* Nothing older than v is, or is going to be, in the file of e.
Writing(e) == st[e] \in {"write", "half"}
Reached(e, v) == /\ v <= version[e]
                 /\ files[e] \in Nat => v <= files[e]
                 /\ Writing(e) => v <= built[e]

Growth == \A e \in Entries : /\ Writing(e) => built[e] <= version[e]
                             /\ files[e] \in Nat => Reached(e, files[e])

\* What was hashed and what was loaded were the content of the file, in that order.
Reading ==
  /\ path \in Entries => \A v \in Nat : v = hash \/ v = served => Reached(path, v)
  /\ path = Legacy => \A v \in Nat : v = hash \/ v = served => v = 0
  /\ hash \in Nat /\ served \in Nat => hash <= served

IInv == FileTypes /\ BoxTypes /\ Leftovers /\ Growth /\ Reading

-----------------------------------------------------------------------------
LEMMA InitInv == Init => IInv
<1> SUFFICES ASSUME Init PROVE IInv
  OBVIOUS
<1> USE FilesAssumption, AddonAssumption DEF Init, FilesInit
<1>1. FileTypes
  BY DEF FileTypes, Steps
<1>2. BoxTypes
  BY DEF BoxTypes
<1>3. Leftovers
  BY DEF Leftovers, Leftover
<1>4. Growth
  BY DEF Growth, Reached, Writing
<1>5. Reading
  BY DEF Reading
<1> QED BY <1>1, <1>2, <1>3, <1>4, <1>5 DEF IInv

\* Every step of the integration keeps the types.
LEMMA FileTypesStep == FileTypes /\ HomeAssistant => FileTypes'
<1> SUFFICES ASSUME FileTypes, HomeAssistant PROVE FileTypes'
  OBVIOUS
<1> USE DEF FileTypes, Steps
<1>1. CASE Crash
  BY <1>1, FilesAssumption DEF Crash, fileVars
<1>2. ASSUME NEW x \in Entries, AddEntry(x) PROVE FileTypes'
  BY <1>2, FilesAssumption DEF AddEntry, Go, fileVars
<1>3. ASSUME NEW x \in Entries, ChangeEntry(x) PROVE FileTypes'
  BY <1>3, FilesAssumption DEF ChangeEntry, Go, fileVars
<1>4. ASSUME NEW x \in Entries, SetupEntry(x) PROVE FileTypes'
  BY <1>4, FilesAssumption DEF SetupEntry, Go, fileVars
<1>5. ASSUME NEW x \in Entries, OpenFile(x) PROVE FileTypes'
  BY <1>5, FilesAssumption DEF OpenFile, Go, fileVars
<1>6. ASSUME NEW x \in Entries, WriteFile(x) PROVE FileTypes'
  BY <1>6, FilesAssumption DEF WriteFile, Go, fileVars
<1>7. ASSUME NEW x \in Entries, SetupFails(x) PROVE FileTypes'
  BY <1>7, FilesAssumption DEF SetupFails, Go, fileVars
<1>8. ASSUME NEW x \in Entries, ListEntries(x) PROVE FileTypes'
  BY <1>8, FilesAssumption DEF ListEntries, Go, fileVars, Live
<1>9. ASSUME NEW x \in Entries, Prune(x) PROVE FileTypes'
  BY <1>9, FilesAssumption DEF Prune, Go, fileVars
<1>10. ASSUME NEW x \in Entries, UnloadEntry(x) PROVE FileTypes'
  BY <1>10, FilesAssumption DEF UnloadEntry, Go, fileVars
<1>11. ASSUME NEW x \in Entries, RemoveEntry(x) PROVE FileTypes'
  BY <1>11, FilesAssumption DEF RemoveEntry, Go, fileVars
<1> QED BY <1>1, <1>2, <1>3, <1>4, <1>5, <1>6, <1>7, <1>8, <1>9, <1>10, <1>11 DEF HomeAssistant

\* No step leaves a file of an entry that is gone behind.
LEMMA LeftoversStep == FileTypes /\ Leftovers /\ HomeAssistant => Leftovers'
<1> SUFFICES ASSUME FileTypes /\ Leftovers, HomeAssistant PROVE Leftovers'
  OBVIOUS
<1> USE DEF FileTypes, Leftovers, Leftover
<1>1. CASE Crash
  BY <1>1 DEF Crash, fileVars, Live
<1>2. ASSUME NEW x \in Entries, AddEntry(x) PROVE Leftovers'
  BY <1>2 DEF AddEntry, Go, fileVars
<1>3. ASSUME NEW x \in Entries, ChangeEntry(x) PROVE Leftovers'
  BY <1>3 DEF ChangeEntry, Go, fileVars
<1>4. ASSUME NEW x \in Entries, SetupEntry(x) PROVE Leftovers'
  BY <1>4 DEF SetupEntry, Go, fileVars
<1>5. ASSUME NEW x \in Entries, OpenFile(x) PROVE Leftovers'
  BY <1>5 DEF OpenFile, Go, fileVars
<1>6. ASSUME NEW x \in Entries, WriteFile(x) PROVE Leftovers'
  BY <1>6 DEF WriteFile, Go, fileVars
<1>7. ASSUME NEW x \in Entries, SetupFails(x) PROVE Leftovers'
  BY <1>7 DEF SetupFails, Go, fileVars
<1>8. ASSUME NEW x \in Entries, ListEntries(x) PROVE Leftovers'
  BY <1>8 DEF ListEntries, Go, fileVars, Live
<1>9. ASSUME NEW x \in Entries, Prune(x) PROVE Leftovers'
  BY <1>9 DEF Prune, Go, fileVars, Orphans
<1>10. ASSUME NEW x \in Entries, UnloadEntry(x) PROVE Leftovers'
  BY <1>10 DEF UnloadEntry, Go, fileVars
<1>11. ASSUME NEW x \in Entries, RemoveEntry(x) PROVE Leftovers'
  BY <1>11 DEF RemoveEntry, Go, fileVars
<1> QED BY <1>1, <1>2, <1>3, <1>4, <1>5, <1>6, <1>7, <1>8, <1>9, <1>10, <1>11 DEF HomeAssistant

\* What a file has reached it does not fall behind of.
LEMMA ReachedStep == FileTypes /\ Growth /\ HomeAssistant => (\A e \in Entries : \A v \in Nat : Reached(e, v) => Reached(e, v)')
<1> SUFFICES ASSUME FileTypes /\ Growth, HomeAssistant PROVE (\A e \in Entries : \A v \in Nat : Reached(e, v) => Reached(e, v)')
  OBVIOUS
<1> USE DEF FileTypes, Growth, Reached, Writing
<1>1. CASE Crash
  BY <1>1, FilesAssumption DEF Crash, fileVars, Live
<1>2. ASSUME NEW x \in Entries, AddEntry(x) PROVE (\A e \in Entries : \A v \in Nat : Reached(e, v) => Reached(e, v)')
  BY <1>2, FilesAssumption DEF AddEntry, Go, fileVars
<1>3. ASSUME NEW x \in Entries, ChangeEntry(x) PROVE (\A e \in Entries : \A v \in Nat : Reached(e, v) => Reached(e, v)')
  BY <1>3, FilesAssumption DEF ChangeEntry, Go, fileVars, Live
<1>4. ASSUME NEW x \in Entries, SetupEntry(x) PROVE (\A e \in Entries : \A v \in Nat : Reached(e, v) => Reached(e, v)')
  BY <1>4, FilesAssumption DEF SetupEntry, Go, fileVars
<1>5. ASSUME NEW x \in Entries, OpenFile(x) PROVE (\A e \in Entries : \A v \in Nat : Reached(e, v) => Reached(e, v)')
  BY <1>5, FilesAssumption DEF OpenFile, Go, fileVars
<1>6. ASSUME NEW x \in Entries, WriteFile(x) PROVE (\A e \in Entries : \A v \in Nat : Reached(e, v) => Reached(e, v)')
  BY <1>6, FilesAssumption DEF WriteFile, Go, fileVars
<1>7. ASSUME NEW x \in Entries, SetupFails(x) PROVE (\A e \in Entries : \A v \in Nat : Reached(e, v) => Reached(e, v)')
  BY <1>7, FilesAssumption DEF SetupFails, Go, fileVars
<1>8. ASSUME NEW x \in Entries, ListEntries(x) PROVE (\A e \in Entries : \A v \in Nat : Reached(e, v) => Reached(e, v)')
  BY <1>8, FilesAssumption DEF ListEntries, Go, fileVars
<1>9. ASSUME NEW x \in Entries, Prune(x) PROVE (\A e \in Entries : \A v \in Nat : Reached(e, v) => Reached(e, v)')
  BY <1>9, FilesAssumption DEF Prune, Go, fileVars, Orphans
<1>10. ASSUME NEW x \in Entries, UnloadEntry(x) PROVE (\A e \in Entries : \A v \in Nat : Reached(e, v) => Reached(e, v)')
  BY <1>10, FilesAssumption DEF UnloadEntry, Go, fileVars
<1>11. ASSUME NEW x \in Entries, RemoveEntry(x) PROVE (\A e \in Entries : \A v \in Nat : Reached(e, v) => Reached(e, v)')
  BY <1>11, FilesAssumption DEF RemoveEntry, Go, fileVars
<1> QED BY <1>1, <1>2, <1>3, <1>4, <1>5, <1>6, <1>7, <1>8, <1>9, <1>10, <1>11 DEF HomeAssistant

\* A file is written with the newest data of its entry.
LEMMA GrowthStep == FileTypes /\ Growth /\ HomeAssistant => Growth'
<1> SUFFICES ASSUME FileTypes /\ Growth, HomeAssistant PROVE Growth'
  OBVIOUS
<1> USE DEF FileTypes, Growth, Reached, Writing
<1>1. CASE Crash
  BY <1>1, FilesAssumption DEF Crash, fileVars, Live
<1>2. ASSUME NEW x \in Entries, AddEntry(x) PROVE Growth'
  BY <1>2, FilesAssumption DEF AddEntry, Go, fileVars
<1>3. ASSUME NEW x \in Entries, ChangeEntry(x) PROVE Growth'
  BY <1>3, FilesAssumption DEF ChangeEntry, Go, fileVars, Live
<1>4. ASSUME NEW x \in Entries, SetupEntry(x) PROVE Growth'
  BY <1>4, FilesAssumption DEF SetupEntry, Go, fileVars
<1>5. ASSUME NEW x \in Entries, OpenFile(x) PROVE Growth'
  BY <1>5, FilesAssumption DEF OpenFile, Go, fileVars
<1>6. ASSUME NEW x \in Entries, WriteFile(x) PROVE Growth'
  BY <1>6, FilesAssumption DEF WriteFile, Go, fileVars
<1>7. ASSUME NEW x \in Entries, SetupFails(x) PROVE Growth'
  BY <1>7, FilesAssumption DEF SetupFails, Go, fileVars
<1>8. ASSUME NEW x \in Entries, ListEntries(x) PROVE Growth'
  BY <1>8, FilesAssumption DEF ListEntries, Go, fileVars
<1>9. ASSUME NEW x \in Entries, Prune(x) PROVE Growth'
  BY <1>9, FilesAssumption DEF Prune, Go, fileVars, Orphans
<1>10. ASSUME NEW x \in Entries, UnloadEntry(x) PROVE Growth'
  BY <1>10, FilesAssumption DEF UnloadEntry, Go, fileVars
<1>11. ASSUME NEW x \in Entries, RemoveEntry(x) PROVE Growth'
  BY <1>11, FilesAssumption DEF RemoveEntry, Go, fileVars
<1> QED BY <1>1, <1>2, <1>3, <1>4, <1>5, <1>6, <1>7, <1>8, <1>9, <1>10, <1>11 DEF HomeAssistant

\* What there is to be hashed and loaded.
LEMMA ContentType ==
  FileTypes => \A p \in Entries \cup {Legacy} : Content(p) \in Nat \cup {Absent, Half}
  BY DEF FileTypes, Content

\* The script keeps to its path, and the bridge to its script.
LEMMA BoxTypesStep == IInv /\ (Addon \/ StartContainer \/ StopContainer \/ BridgeFails) => BoxTypes'
<1> SUFFICES ASSUME IInv, Addon \/ StartContainer \/ StopContainer \/ BridgeFails PROVE BoxTypes'
  OBVIOUS
<1> USE DEF IInv, BoxTypes
<1>1. CASE StartContainer
  BY <1>1, ContentType DEF StartContainer, Off, haVars, fileVars
<1>2. CASE StopContainer
  BY <1>2, ContentType DEF StopContainer, Off, haVars, fileVars
<1>3. CASE PickConfig
  BY <1>3, ContentType DEF PickConfig, Off, haVars, fileVars
<1>4. CASE PickFails
  BY <1>4, ContentType DEF PickFails, Off, haVars, fileVars
<1>5. CASE HashConfig
  BY <1>5, ContentType DEF HashConfig, Off, haVars, fileVars
<1>6. CASE Launch
  BY <1>6, ContentType DEF Launch, Off, haVars, fileVars
<1>7. CASE CheckAlive
  BY <1>7, ContentType DEF CheckAlive, Off, haVars, fileVars
<1>8. CASE Unchanged
  BY <1>8, ContentType DEF Unchanged, Off, haVars, fileVars
<1>9. CASE KillBridge
  BY <1>9, ContentType DEF KillBridge, Off, haVars, fileVars
<1>10. CASE ExitOnError
  BY <1>10, ContentType DEF ExitOnError, Off, haVars, fileVars
<1>11. CASE Relaunch
  BY <1>11, ContentType DEF Relaunch, Off, haVars, fileVars
<1>12. CASE LoadConfig
  BY <1>12, ContentType DEF LoadConfig, Off, haVars, fileVars, Loads
<1>13. CASE LoadFails
  BY <1>13, ContentType DEF LoadFails, Off, haVars, fileVars
<1>14. CASE Serve
  BY <1>14, ContentType DEF Serve, Off, haVars, fileVars
<1>15. CASE BridgeFails
  BY <1>15, ContentType DEF BridgeFails, Off, haVars, fileVars
<1> QED BY <1>1, <1>2, <1>3, <1>4, <1>5, <1>6, <1>7, <1>8, <1>9, <1>10, <1>11, <1>12, <1>13, <1>14, <1>15 DEF Addon

\* The script hashes, and the bridge reads after it, what the file has reached.
LEMMA ReadingStep == IInv /\ (Addon \/ StartContainer \/ StopContainer \/ BridgeFails) => Reading'
<1> SUFFICES ASSUME IInv, Addon \/ StartContainer \/ StopContainer \/ BridgeFails PROVE Reading'
  OBVIOUS
<1> USE DEF IInv, BoxTypes, Reading, Reached, Writing
<1>1. CASE StartContainer
  BY <1>1, FilesAssumption DEF StartContainer, Off, haVars, fileVars
<1>2. CASE StopContainer
  BY <1>2, FilesAssumption DEF StopContainer, Off, haVars, fileVars
<1>3. CASE PickConfig
  BY <1>3, FilesAssumption DEF PickConfig, Off, haVars, fileVars
<1>4. CASE PickFails
  BY <1>4, FilesAssumption DEF PickFails, Off, haVars, fileVars
<1>5. CASE HashConfig
  <2>1. hash' = Content(path) /\ served' = Absent /\ path' = path /\ path \in Entries \cup {Legacy}
    BY <1>5 DEF HashConfig
  <2>2. UNCHANGED <<st, version, built, files>>
    BY <1>5 DEF HashConfig, haVars, fileVars
  <2> QED BY <2>1, <2>2, FilesAssumption, AddonAssumption DEF Content, Growth
<1>6. CASE Launch
  BY <1>6, FilesAssumption DEF Launch, Off, haVars, fileVars
<1>7. CASE CheckAlive
  BY <1>7, FilesAssumption DEF CheckAlive, Off, haVars, fileVars
<1>8. CASE Unchanged
  BY <1>8, FilesAssumption DEF Unchanged, Off, haVars, fileVars
<1>9. CASE KillBridge
  BY <1>9, FilesAssumption DEF KillBridge, Off, haVars, fileVars
<1>10. CASE ExitOnError
  BY <1>10, FilesAssumption DEF ExitOnError, Off, haVars, fileVars
<1>11. CASE Relaunch
  BY <1>11, FilesAssumption DEF Relaunch, Off, haVars, fileVars
<1>12. CASE LoadConfig
  <2>1. served' = Content(path) /\ hash' = hash /\ path' = path /\ path \in Entries \cup {Legacy}
    BY <1>12 DEF LoadConfig
  <2>2. UNCHANGED <<st, version, built, files>>
    BY <1>12 DEF LoadConfig, haVars, fileVars
  <2>3. Content(path) \in Nat
    BY <1>12, ContentType, <2>1 DEF LoadConfig, Loads
  <2>4. CASE path = Legacy
    <3>1. Content(path) = 0
      BY <2>3, <2>4, FilesAssumption DEF Content
    <3>2. \A v \in Nat : v = hash => v = 0
      BY <2>4
    <3> QED BY <2>1, <2>4, <3>1, <3>2, AddonAssumption
  <2>5. CASE path \in Entries
    <3>1. Content(path) = files[path] /\ path # Legacy
      BY <2>5, AddonAssumption DEF Content
    <3>2. Reached(path, files[path]) /\ files[path] \in Nat
      BY <2>3, <2>5, <3>1 DEF Growth
    <3>3. Reached(path, files[path])'
      BY <3>2, <2>1, <2>2
    <3>4. \A v \in Nat : v = hash => v <= files[path]
      BY <2>5, <3>2
    <3>5. served' = files[path] /\ path' \in Entries /\ path' # Legacy
      BY <2>1, <2>5, <3>1
    <3>6. \A v \in Nat : v = hash' \/ v = served' => Reached(path, v)'
      BY <2>1, <2>2, <2>5, <3>3, <3>5
    <3> QED BY <2>1, <3>2, <3>4, <3>5, <3>6
  <2> QED BY <2>1, <2>4, <2>5
<1>13. CASE LoadFails
  BY <1>13, FilesAssumption DEF LoadFails, Off, haVars, fileVars
<1>14. CASE Serve
  BY <1>14, FilesAssumption DEF Serve, Off, haVars, fileVars
<1>15. CASE BridgeFails
  BY <1>15, FilesAssumption DEF BridgeFails, Off, haVars, fileVars
<1> QED BY <1>1, <1>2, <1>3, <1>4, <1>5, <1>6, <1>7, <1>8, <1>9, <1>10, <1>11, <1>12, <1>13, <1>14, <1>15 DEF Addon

-----------------------------------------------------------------------------
LEMMA Inductive == IInv /\ [Next]_vars => IInv'
<1> SUFFICES ASSUME IInv, [Next]_vars PROVE IInv'
  OBVIOUS
<1>1. CASE HomeAssistant /\ UNCHANGED addonVars
  <2>1. FileTypes' /\ Leftovers' /\ Growth'
    BY <1>1, FileTypesStep, LeftoversStep, GrowthStep DEF IInv
  <2>2. \A e \in Entries : \A v \in Nat : Reached(e, v) => Reached(e, v)'
    BY <1>1, ReachedStep DEF IInv
  <2>3. UNCHANGED <<box, path, hash, bridge, served>>
    BY <1>1 DEF addonVars
  <2>4. BoxTypes'
    BY <2>3 DEF IInv, BoxTypes
  <2>5. Reading'
    BY <2>2, <2>3 DEF IInv, Reading
  <2> QED BY <2>1, <2>4, <2>5 DEF IInv
<1>2. CASE Addon \/ StartContainer \/ StopContainer \/ BridgeFails
  <2>1. UNCHANGED <<haVars, fileVars>>
    BY <1>2 DEF Addon, StartContainer, StopContainer, BridgeFails, PickConfig, PickFails, HashConfig, Launch,
      CheckAlive, Unchanged, KillBridge, ExitOnError, Relaunch, LoadConfig, LoadFails, Serve
  <2>2. FileTypes' /\ Leftovers' /\ Growth'
    BY <2>1 DEF IInv, FileTypes, Leftovers, Leftover, Growth, Reached, Writing, haVars, fileVars
  <2> QED BY <1>2, <2>2, BoxTypesStep, ReadingStep DEF IInv
<1>3. CASE UNCHANGED vars
  BY <1>3 DEF vars, haVars, fileVars, addonVars, IInv, FileTypes, BoxTypes, Leftovers, Leftover, Growth,
    Reading, Reached, Writing
<1> QED BY <1>1, <1>2, <1>3 DEF Next

LEMMA Invariant == Spec => []IInv
<1>1. IInv /\ [Next]_vars => IInv'
  BY Inductive
<1> QED BY InitInv, <1>1, PTL DEF Spec

(* SettledIsClean, for any number of entries: whatever crashed, was added  *)
(* or was removed while others were being set up, the list that a pruning  *)
(* goes by holds no entry whose file was left behind, so the setup that    *)
(* ends last has deleted every leftover it may delete.                     *)
THEOREM SettledFilesAreClean == Spec => []SettledIsClean
<1>1. IInv => SettledIsClean
  BY DEF IInv, Leftovers, Leftover, SettledIsClean, Live
<1> QED BY Invariant, <1>1, PTL

(* BehindIsNoticed, for any contents, equal ones among the versions too:   *)
(* versions only grow, and what was hashed, what was loaded and what the   *)
(* file has now are read in that order, so three that follow each other    *)
(* with the outer ones alike are two changes, the second of them setting   *)
(* back what was hashed; every other difference changes the hash.          *)
THEOREM ChangesAreNoticed == Spec => []BehindIsNoticed
<1>1. IInv => BehindIsNoticed
  <2> DEFINE now == Content(path)
  <2> SUFFICES ASSUME IInv, Behind, ~Changed(now) PROVE SetBack
    BY DEF BehindIsNoticed
  <2>1. path \in Entries \cup {Legacy} /\ served \in Nat /\ hash \in Nat \cup {Absent, Half}
    BY DEF IInv, BoxTypes, Behind
  <2>2. now \in Nat
    BY <2>1, ContentType DEF IInv, Behind
  <2>3. Md5(path, now) = Md5(path, hash) /\ JsonIn(path, now) # JsonIn(path, served)
    BY <2>2, FilesAssumption DEF Changed, Behind
  <2> HIDE DEF now
  <2>4. CASE path = Legacy
    BY <2>3, <2>4 DEF JsonIn
  <2>5. CASE path \in Entries
    <3>1. now = files[path] /\ path # Legacy
      BY <2>5, AddonAssumption DEF Content, now
    <3>2. /\ served <= now /\ (hash \in Nat => hash <= served)
          /\ now <= version[path] /\ version[path] \in Nat /\ version[path] <= MaxVersion
      BY <2>1, <2>2, <2>5, <3>1 DEF IInv, Reading, Reached, Growth, FileTypes
    <3>3. now \in Versions
      BY <2>2, <3>2, FilesAssumption DEF Versions
    <3>4. Md5(path, now) = JsonIn(path, now) /\ JsonIn(path, now) \notin {Absent, Half}
      BY <2>2, <2>5, <3>1, <3>3, FilesAssumption, JsonAssumption DEF Md5, JsonIn
    <3>5. hash \in Nat /\ JsonIn(path, now) = JsonIn(path, hash)
      BY <2>1, <2>3, <3>4 DEF Md5
    <3>6. hash # served /\ served # now
      BY <2>3, <3>5
    <3>7. hash < served /\ served < now
      BY <2>1, <2>2, <3>2, <3>5, <3>6
    <3> QED BY <3>7 DEF SetBack, now
  <2> QED BY <2>1, <2>4, <2>5
<1> QED BY Invariant, <1>1, PTL

-----------------------------------------------------------------------------
(* The paths of the cameras, by induction over the list.                   *)

\* Induction over the naturals, on sets: a set of naturals that is not empty has a
\* least element.
LEMMA LeastElement ==
  ASSUME NEW S \in SUBSET Nat, S # {}
  PROVE  \E n \in S : \A m \in S : n <= m
<1> DEFINE R == OpToRel(<, Nat)
<1>1. \E n \in S : \A m \in S : <<m, n>> \notin R
  <2>1. IsWellFoundedOn(R, Nat)
    BY NatLessThanWellFounded, Zenon
  <2> HIDE DEF R
  <2> QED BY <2>1, WFMin, Zenon
<1>2. \A n, m \in Nat : <<m, n>> \notin R => n <= m
  BY DEF OpToRel
<1> QED BY <1>1, <1>2

LEMMA Induction ==
  ASSUME NEW N \in Nat, NEW S, 0 \in S, \A n \in 1..N : n - 1 \in S => n \in S
  PROVE  \A n \in 0..N : n \in S
<1> SUFFICES ASSUME NEW k \in 0..N, k \notin S PROVE FALSE
  OBVIOUS
<1> DEFINE Out == {n \in 0..N : n \notin S}
<1>1. PICK m \in Out : \A n \in Out : m <= n
  <2>1. Out \in SUBSET Nat /\ Out # {}
    OBVIOUS
  <2> HIDE DEF Out
  <2> QED BY <2>1, LeastElement
<1>2. m \in 1..N /\ m - 1 \in 0..N /\ m - 1 \notin Out
  BY <1>1
<1> QED BY <1>1, <1>2

\* The recursion of AssignPaths is one: there is a function that satisfies it.
Routing(cams, n, out) ==
  out = [i \in 0..n |-> IF i = 0 THEN <<>> ELSE AddRoute(out[i - 1], cams[i])]

LEMMA RoutingExists ==
  ASSUME NEW cams, NEW N \in Nat
  PROVE  \E out : Routing(cams, N, out)
<1> DEFINE S == {n \in 0..N : \E out : Routing(cams, n, out)}
<1>1. 0 \in S
  <2> DEFINE out == [i \in 0..0 |-> <<>>]
  <2>1. out = [i \in 0..0 |-> IF i = 0 THEN <<>> ELSE AddRoute(out[i - 1], cams[i])]
    OBVIOUS
  <2> HIDE DEF out
  <2> QED BY <2>1 DEF Routing
<1>2. ASSUME NEW n \in 1..N, n - 1 \in S PROVE n \in S
  <2>1. PICK out : Routing(cams, n - 1, out)
    BY <1>2
  <2> DEFINE more == [i \in 0..n |-> IF i = n THEN AddRoute(out[n - 1], cams[n]) ELSE out[i]]
  <2>2. \A i \in 0..(n - 1) : out[i] = IF i = 0 THEN <<>> ELSE AddRoute(out[i - 1], cams[i])
    BY <2>1 DEF Routing
  <2>3. \A i \in 0..n : more[i] = IF i = 0 THEN <<>> ELSE AddRoute(more[i - 1], cams[i])
    BY <2>2
  <2>4. more = [i \in 0..n |-> more[i]]
    OBVIOUS
  <2> HIDE DEF more
  <2>5. Routing(cams, n, more)
    BY <2>3, <2>4 DEF Routing
  <2> QED BY <2>5
<1> HIDE DEF S
<1>3. N \in S
  BY <1>1, <1>2, Induction
<1> QED BY <1>3 DEF S

LEMMA AssignPathsRoutes ==
  ASSUME NEW cams, Len(cams) \in Nat
  PROVE  \E out : Routing(cams, Len(cams), out) /\ AssignPaths(cams) = out[Len(cams)]
<1> DEFINE out == CHOOSE o : o = [n \in 0..Len(cams) |-> IF n = 0 THEN <<>> ELSE AddRoute(o[n - 1], cams[n])]
<1>1. \E o : o = [n \in 0..Len(cams) |-> IF n = 0 THEN <<>> ELSE AddRoute(o[n - 1], cams[n])]
  BY RoutingExists DEF Routing
<1>2. out = [n \in 0..Len(cams) |-> IF n = 0 THEN <<>> ELSE AddRoute(out[n - 1], cams[n])]
  BY <1>1
<1>3. AssignPaths(cams) = out[Len(cams)]
  BY DEF AssignPaths
<1> HIDE DEF out
<1> QED BY <1>2, <1>3 DEF Routing

\* No two of the paths that are tried for a camera are the same.
LEMMA TriesDiffer ==
  ASSUME NEW cam \in Cameras
  PROVE  /\ Len(Numerals) \in Nat /\ DOMAIN Tries(cam) = 1..(Len(Numerals) + 2)
         /\ \A i \in DOMAIN Tries(cam) : Tries(cam)[i] \in Seq(STRING)
         /\ \A i, j \in DOMAIN Tries(cam) : i # j => Tries(cam)[i] # Tries(cam)[j]
<1> DEFINE base == Sanitized(cam)
           more == Suffixed(cam)
           n == Len(Numerals) + 2
<1>1. base \in Seq(STRING) /\ more \in Seq(STRING) /\ Len(more) = Len(base) + 1
  <2>1. cam.id \in STRING /\ cam.short \in STRING /\ cam.name \in Seq(STRING)
    BY DEF Cameras
  <2>2. base \in Seq(STRING)
    <3>1. <<cam.id>> \in Seq(STRING)
      BY <2>1
    <3> QED BY <2>1, <3>1 DEF Sanitized
  <2>3. more = Append(base, cam.short)
    BY DEF Suffixed
  <2> HIDE DEF base, more
  <2> QED BY <2>1, <2>2, <2>3
<1>2. /\ Len(Numerals) \in Nat /\ DOMAIN Numerals = 1..Len(Numerals)
      /\ \A i \in 1..Len(Numerals) : Numerals[i] \in STRING
  BY NumeralsAssumption
<1>3. DOMAIN Tries(cam) = 1..(Len(Numerals) + 2)
  BY DEF Tries
<1>4. /\ Tries(cam)[1] = base /\ Tries(cam)[2] = more
      /\ \A i \in 3..(Len(Numerals) + 2) : Tries(cam)[i] = Append(more, Numerals[i - 2])
  <2>1. 1 \in 1..n /\ 2 \in 1..n /\ \A i \in 3..n : i \in 1..n /\ i # 1 /\ i # 2
    BY <1>2
  <2> HIDE DEF n
  <2>2. Tries(cam) = [i \in 1..n |-> CASE i = 1 -> base
                                      [] i = 2 -> more
                                      [] OTHER -> Append(more, Numerals[i - 2])]
    BY DEF Tries, n
  <2> HIDE DEF base, more
  <2>3. \A i \in 1..n : Tries(cam)[i] = CASE i = 1 -> base
                                          [] i = 2 -> more
                                          [] OTHER -> Append(more, Numerals[i - 2])
    BY <2>2
  <2>4. \A i \in 3..n : Tries(cam)[i] = Append(more, Numerals[i - 2])
    BY <2>1, <2>3
  <2> QED BY <2>1, <2>3, <2>4 DEF n
<1> HIDE DEF base, more
<1>5. \A i \in 3..(Len(Numerals) + 2) :
        /\ Tries(cam)[i] \in Seq(STRING) /\ Len(Tries(cam)[i]) = Len(base) + 2
        /\ Tries(cam)[i][Len(base) + 2] = Numerals[i - 2]
  <2> SUFFICES ASSUME NEW i \in 3..(Len(Numerals) + 2)
               PROVE  /\ Tries(cam)[i] \in Seq(STRING) /\ Len(Tries(cam)[i]) = Len(base) + 2
                      /\ Tries(cam)[i][Len(base) + 2] = Numerals[i - 2]
    OBVIOUS
  <2>1. PICK x \in STRING : x = Numerals[i - 2]
    <3>1. i - 2 \in 1..Len(Numerals)
      BY <1>2
    <3> QED BY <1>2, <3>1
  <2>2. Tries(cam)[i] = Append(more, x)
    BY <1>4, <2>1
  <2>3. /\ Append(more, x) \in Seq(STRING) /\ Len(Append(more, x)) = Len(more) + 1
        /\ Append(more, x)[Len(more) + 1] = x
    BY <1>1, AppendProperties
  <2> QED BY <1>1, <2>1, <2>2, <2>3
<1>6. \A i, j \in 3..(Len(Numerals) + 2) : i # j => Tries(cam)[i] # Tries(cam)[j]
  <2>1. \A i, j \in 3..(Len(Numerals) + 2) : i # j => Numerals[i - 2] # Numerals[j - 2]
    BY <1>2, NumeralsAssumption
  <2> QED BY <1>5, <2>1
<1>7. Len(base) \in Nat
  BY <1>1
<1>8. \A i \in 1..(Len(Numerals) + 2) : i = 1 \/ i = 2 \/ i \in 3..(Len(Numerals) + 2)
  BY <1>2
<1>9. ASSUME NEW i \in 1..(Len(Numerals) + 2), NEW j \in 1..(Len(Numerals) + 2), i # j
      PROVE  Tries(cam)[i] # Tries(cam)[j]
  BY <1>1, <1>4, <1>5, <1>6, <1>7, <1>8, <1>9
<1> QED BY <1>1, <1>2, <1>3, <1>4, <1>5, <1>8, <1>9

LEMMA IntervalSize ==
  ASSUME NEW k \in Nat
  PROVE  IsFiniteSet(1..k) /\ Cardinality(1..k) = k
<1>1. IsFiniteSet(1..k) /\ Cardinality(1..k) = IF 1 > k THEN 0 ELSE k - 1 + 1
  BY FS_Interval
<1> QED BY <1>1

Routes == [id : STRING, path : Seq(STRING)]
Taken(routes) == {routes[i].path : i \in DOMAIN routes}

\* A camera gets a path that none of the routes before has, the plain one if it is free.
LEMMA FreePathIsFree ==
  ASSUME NEW cam \in Cameras, NEW routes \in Seq(Routes), Len(routes) < Len(Numerals) + 2
  PROVE  /\ FreePath(cam, Taken(routes)) \in Seq(STRING) \ Taken(routes)
         /\ FreePath(cam, Taken(routes)) = Sanitized(cam) \/ Sanitized(cam) \in Taken(routes)
<1> DEFINE t == Tries(cam)
           m == Len(routes)
           n == Len(Numerals) + 2
           taken == Taken(routes)
           Free == {i \in 1..n : t[i] \notin taken}
<1>1. /\ DOMAIN t = 1..n /\ n \in Nat /\ m \in Nat /\ m < n
      /\ \A i \in 1..n : t[i] \in Seq(STRING)
      /\ \A i, j \in 1..n : i # j => t[i] # t[j]
  BY TriesDiffer
<1>p. \A x \in taken : \E j \in 1..m : routes[j].path = x
  BY DEF Taken
<1>2. t[1] = Sanitized(cam)
  BY <1>1 DEF Tries
<1> HIDE DEF t, n, m, taken
<1>3. Free # {}
  <2> SUFFICES ASSUME Free = {} PROVE FALSE
    OBVIOUS
  <2> DEFINE f == [i \in 1..n |-> CHOOSE j \in 1..m : routes[j].path = t[i]]
  <2>0. m \in Nat /\ n \in Nat
    BY <1>1
  <2>1. \A i \in 1..n : f[i] \in 1..m /\ routes[f[i]].path = t[i]
    <3>1. \A i \in 1..n : \E j \in 1..m : routes[j].path = t[i]
      BY <1>p
    <3> QED BY <3>1
  <2>2. IsFiniteSet(1..n) /\ Cardinality(1..n) = n
    BY <2>0, IntervalSize
  <2>3. IsFiniteSet(1..m) /\ Cardinality(1..m) = m
    BY <2>0, IntervalSize
  <2>4. f \in [1..n -> 1..m]
    BY <2>1
  <2> HIDE DEF f
  <2>5. \E x, y \in 1..n : x # y /\ f[x] = f[y]
    <3>1. Cardinality(1..m) < Cardinality(1..n)
      BY <1>1, <2>2, <2>3
    <3> DEFINE A == 1..n
               B == 1..m
    <3>2. IsFiniteSet(A) /\ IsFiniteSet(B) /\ Cardinality(B) < Cardinality(A) /\ f \in [A -> B]
      BY <2>2, <2>3, <2>4, <3>1
    <3> HIDE DEF A, B
    <3>3. \E x, y \in A : x # y /\ f[x] = f[y]
      BY <3>2, FS_PigeonHole
    <3> QED BY <3>3 DEF A
  <2> QED BY <1>1, <2>1, <2>5
<1>4. PICK k \in Free : \A i \in Free : k <= i
  <2>1. Free \in SUBSET Nat
    BY <1>1
  <2> HIDE DEF Free
  <2> QED BY <1>3, <2>1, LeastElement
<1>5. k \in DOMAIN t /\ t[k] \notin taken /\ \A j \in 1..(k - 1) : t[j] \in taken
  BY <1>1, <1>4
<1>6. PICK c \in DOMAIN t : /\ FreePath(cam, taken) = t[c]
                            /\ t[c] \notin taken /\ \A j \in 1..(c - 1) : t[j] \in taken
  BY <1>5 DEF FreePath, t
<1>7. c = 1 \/ 1 \in 1..(c - 1)
  BY <1>1, <1>6
<1> QED BY <1>1, <1>2, <1>6, <1>7 DEF taken

\* One more camera leaves the routes there are, and gets one if it is due.
LEMMA AddRouteKeeps ==
  ASSUME NEW cams \in Seq(Cameras), Len(cams) <= Len(Numerals) + 2, NEW n \in 1..Len(cams),
         NEW routes \in Seq(Routes), Len(routes) <= n - 1, EachOnItsPath(cams, n - 1, routes)
  PROVE  LET more == AddRoute(routes, cams[n]) IN
         more \in Seq(Routes) /\ Len(more) <= n /\ EachOnItsPath(cams, n, more)
<1> DEFINE cam == cams[n]
           m == Len(routes)
<1>n. n \in Nat /\ n - 1 \in Nat /\ m \in Nat /\ DOMAIN routes = 1..m /\ Len(Numerals) \in Nat
  BY NumeralsAssumption
<1>c. cam \in Cameras /\ cam.id \in STRING
  <2>1. cam \in Cameras
    OBVIOUS
  <2> HIDE DEF cam
  <2> QED BY <2>1 DEF Cameras
<1>1. CASE Skipped(routes, cam)
  <2>1. AddRoute(routes, cam) = routes
    BY <1>1 DEF AddRoute
  <2>2. EachOnItsPath(cams, n, routes)
    <3>1. \A k \in 1..n : cams[k].id = "" \/ \E i \in DOMAIN routes : routes[i].id = cams[k].id
      <4>1. \A k \in 1..n : k = n \/ k \in 1..(n - 1)
        BY <1>n
      <4> QED BY <1>1, <4>1 DEF EachOnItsPath, Skipped
    <3>2. 1..(n - 1) \subseteq 1..n
      BY <1>n
    <3> QED BY <3>1, <3>2 DEF EachOnItsPath
  <2> QED BY <2>1, <2>2, <1>n
<1>2. CASE ~Skipped(routes, cam)
  <2> DEFINE taken == {routes[i].path : i \in DOMAIN routes}
             route == [id |-> cam.id, path |-> FreePath(cam, taken)]
             more == Append(routes, route)
  <2>1. AddRoute(routes, cam) = more
    BY <1>2 DEF AddRoute
  <2>2. /\ FreePath(cam, taken) \in Seq(STRING) /\ FreePath(cam, taken) \notin taken
        /\ FreePath(cam, taken) = Sanitized(cam) \/ Sanitized(cam) \in taken
    <3>1. m < Len(Numerals) + 2 /\ taken = Taken(routes)
      BY <1>n DEF Taken
    <3> HIDE DEF taken, cam
    <3> QED BY <1>c, <3>1, FreePathIsFree
  <2>3. route \in Routes
    BY <1>c, <2>2 DEF Routes
  <2> HIDE DEF route
  <2>4. /\ more \in Seq(Routes) /\ Len(more) = m + 1 /\ DOMAIN more = 1..(m + 1)
        /\ more[m + 1] = route /\ \A i \in 1..m : more[i] = routes[i]
    BY <1>n, <2>3
  <2> HIDE DEF more
  <2>5. \A i \in 1..m : routes[i].path # route.path /\ routes[i].id # route.id
    BY <1>n, <1>2, <2>2 DEF route, Skipped
  <2>6. \A i, j \in DOMAIN more : i # j => more[i].path # more[j].path /\ more[i].id # more[j].id
    <3>1. \A i, j \in 1..m : i # j => routes[i].path # routes[j].path /\ routes[i].id # routes[j].id
      BY <1>n DEF EachOnItsPath
    <3>2. \A i \in 1..(m + 1) : i = m + 1 \/ i \in 1..m
      BY <1>n
    <3> QED BY <2>4, <2>5, <3>1, <3>2
  <2>7. \A k \in 1..n : cams[k].id = "" \/ \E i \in DOMAIN more : more[i].id = cams[k].id
    <3>1. more[m + 1].id = cam.id /\ m + 1 \in DOMAIN more
      BY <1>n, <2>4 DEF route
    <3>2. \A k \in 1..(n - 1) : cams[k].id = "" \/ \E i \in 1..m : routes[i].id = cams[k].id
      BY <1>n DEF EachOnItsPath
    <3>3. \A k \in 1..n : k = n \/ k \in 1..(n - 1)
      BY <1>n
    <3>4. \A i \in 1..m : i \in DOMAIN more
      BY <1>n, <2>4
    <3> QED BY <2>4, <3>1, <3>2, <3>3, <3>4
  <2>8. ASSUME NEW i \in DOMAIN more
        PROVE  \E k \in 1..n :
                 /\ cams[k].id = more[i].id /\ \A l \in 1..(k - 1) : cams[l].id # cams[k].id
                 /\ \/ more[i].path = Sanitized(cams[k])
                    \/ \E j \in 1..(i - 1) : more[j].path = Sanitized(cams[k])
    <3>1. CASE i \in 1..m
      <4>1. PICK k \in 1..(n - 1) :
                 /\ cams[k].id = routes[i].id /\ \A l \in 1..(k - 1) : cams[l].id # cams[k].id
                 /\ \/ routes[i].path = Sanitized(cams[k])
                    \/ \E j \in 1..(i - 1) : routes[j].path = Sanitized(cams[k])
        BY <1>n, <3>1 DEF EachOnItsPath
      <4>2. k \in 1..n /\ \A j \in 1..(i - 1) : j \in 1..m
        BY <1>n, <3>1
      <4> QED BY <2>4, <3>1, <4>1, <4>2
    <3>2. CASE i = m + 1
      <4>1. \A l \in 1..(n - 1) : cams[l].id # cam.id
        <5>1. cam.id # "" /\ \A j \in DOMAIN routes : routes[j].id # cam.id
          BY <1>2 DEF Skipped
        <5>2. \A l \in 1..(n - 1) : cams[l].id = "" \/ \E j \in DOMAIN routes : routes[j].id = cams[l].id
          BY DEF EachOnItsPath
        <5> HIDE DEF cam
        <5> QED BY <5>1, <5>2
      <4>2. route.path = Sanitized(cam) \/ \E j \in 1..m : routes[j].path = Sanitized(cam)
        BY <1>n, <2>2 DEF route
      <4>3. n \in 1..n /\ more[i].id = cam.id /\ 1..(i - 1) = 1..m
        BY <1>n, <2>4, <3>2 DEF route
      <4> QED BY <2>4, <3>2, <4>1, <4>2, <4>3
    <3> QED BY <1>n, <2>4, <3>1, <3>2
  <2>9. EachOnItsPath(cams, n, more)
    BY <2>6, <2>7, <2>8 DEF EachOnItsPath
  <2> QED BY <1>n, <2>1, <2>4, <2>9
<1> QED BY <1>1, <1>2

\* By induction over the cameras: each is on a path of its own.
LEMMA PathsAreAssigned ==
  ASSUME NEW cams \in Seq(Cameras), Len(cams) <= Len(Numerals) + 2
  PROVE  EachOnItsPath(cams, Len(cams), AssignPaths(cams))
<1> DEFINE N == Len(cams)
<1>n. N \in Nat
  OBVIOUS
<1>1. PICK out : Routing(cams, N, out) /\ AssignPaths(cams) = out[N]
  BY <1>n, AssignPathsRoutes
<1> DEFINE Right(n) == out[n] \in Seq(Routes) /\ Len(out[n]) <= n /\ EachOnItsPath(cams, n, out[n])
           S == {n \in 0..N : Right(n)}
<1>2. 0 \in S
  <2>1. out[0] = <<>>
    BY <1>1, <1>n DEF Routing
  <2>2. <<>> \in Seq(Routes) /\ Len(<<>>) = 0 /\ DOMAIN <<>> = {} /\ 1..0 = {}
    OBVIOUS
  <2>3. EachOnItsPath(cams, 0, <<>>)
    BY <2>2 DEF EachOnItsPath
  <2>4. Right(0)
    BY <2>1, <2>2, <2>3
  <2> QED BY <2>4, <1>n
<1>3. ASSUME NEW n \in 1..N, n - 1 \in S PROVE n \in S
  <2>1. out[n] = AddRoute(out[n - 1], cams[n])
    BY <1>1, <1>n DEF Routing
  <2>2. Right(n - 1)
    BY <1>3
  <2>3. Right(n)
    BY <2>1, <2>2, AddRouteKeeps
  <2> QED BY <2>3
<1>4. N \in S
  <2>1. \A n \in 1..N : n - 1 \in S => n \in S
    BY <1>3
  <2> HIDE DEF S, N
  <2>2. \A n \in 0..N : n \in S
    BY <1>2, <2>1, <1>n, Induction, Zenon
  <2> QED BY <2>2, <1>n
<1> QED BY <1>1, <1>4

(* OneCameraPerPath, for any list of cameras, whatever their names and ids *)
(* and however many of them collide: the bridge lets no two share a path,  *)
(* leaves none out and serves none twice, and takes a camera off the plain *)
(* path only for an earlier one that has it.                               *)
THEOREM EachCameraHasItsPath == Spec => []OneCameraPerPath
<1>1. IInv => OneCameraPerPath
  <2> SUFFICES ASSUME IInv, bridge = "up"
               PROVE  EachOnItsPath(CamsIn(path, served), Len(CamsIn(path, served)),
                                    AssignPaths(CamsIn(path, served)))
    BY DEF OneCameraPerPath
  <2>1. path \in Entries \cup {Legacy} /\ served \in Nat
    BY DEF IInv, BoxTypes
  <2>2. CamsIn(path, served) \in Seq(Cameras) /\ Len(CamsIn(path, served)) <= Len(Numerals) + 2
    <3>1. CASE path = Legacy
      <4>1. (CHOOSE e \in Entries : TRUE) \in Entries /\ 0 \in Versions
        BY FilesAssumption, JsonAssumption DEF Versions
      <4> QED BY <3>1, <4>1, JsonAssumption DEF CamsIn, JsonIn
    <3>2. CASE path \in Entries
      <4>1. served <= version[path] /\ version[path] \in Nat /\ version[path] <= MaxVersion
        BY <2>1, <3>2 DEF IInv, Reading, Reached, FileTypes
      <4>2. served \in Versions
        BY <2>1, <4>1, FilesAssumption DEF Versions
      <4> QED BY <3>2, <4>2, AddonAssumption, JsonAssumption DEF CamsIn, JsonIn
    <3> QED BY <2>1, <3>1, <3>2
  <2> QED BY <2>2, PathsAreAssigned
<1> QED BY Invariant, <1>1, PTL

-----------------------------------------------------------------------------
(* The data directory.                                                     *)

\* Every list of these cameras was handed over for its user.
WholeLists(cameras) ==
  \A k \in Keys : LET devices == GetCamerasForUser(cameras, k)
                    IN  devices = {} \/ <<k, devices>> \in reports

\* These cameras are the lists last written.
UpToDate(cameras) == \A k \in Keys : GetCamerasForUser(cameras, k) = latest[k]

Snapshots ==
  \A p \in Process : Rewriting(p) =>
    WholeLists(proc[p].seen) /\ <<Key(p), proc[p].found>> \in reports

Undisturbed == ~disturbed =>
  /\ \A p, q \in Process : Rewriting(p) /\ Rewriting(q) => p = q
  /\ \A p \in Process : Rewriting(p) => UpToDate(proc[p].seen)
  /\ \A p \in Process : At(p, "rewrite") => registry = Empty
  /\ ~(\E p \in Process : At(p, "rewrite")) =>
       Readable(registry) /\ UpToDate(GetCameraRegistry(registry))

StoreInv == StoreTypeOK /\ WholeLists(GetCameraRegistry(registry)) /\ Snapshots /\ Undisturbed

\* What the constants and the files' values are.
LEMMA StoreValues ==
  /\ \A n \in Names : n.email \in Emails /\ userKey(n) \in Keys
  /\ \A n \in Names : \A a \in Emails : [name |-> n, account |-> a] \in User
  /\ \A u \in User : u.name \in Names /\ u.account \in Emails
  /\ (CHOOSE u \in User : TRUE) \in User
  <1>1. \A n \in Names : n.email \in Emails /\ userKey(n) \in Keys
    BY DEF Emails, Keys
  <1>2. \A n \in Names : \A a \in Emails : [name |-> n, account |-> a] \in User
    BY DEF User
  <1>3. \E u \in User : TRUE
    BY <1>1, <1>2, StoreAssumption
  <1>4. (CHOOSE u \in User : TRUE) \in User
    BY <1>3
  <1> QED  BY <1>1, <1>2, <1>4 DEF User

LEMMA FileValues ==
  ASSUME NEW X
  PROVE  /\ None \in File(X) /\ Empty \in File(X) /\ Garbled \in File(X)
         /\ \A x \in X : Whole(x) \in File(X)
         /\ \A file \in File(X) : IsWhole(file) => file.of \in X /\ file = Whole(file.of)
         /\ \A file \in File(X), x \in X : Written(file, x) \subseteq File(X)
  <1>1. /\ None \in File(X) /\ Empty \in File(X) /\ Garbled \in File(X)
        /\ \A x \in X : Whole(x) \in File(X)
    BY DEF File
  <1>2. ASSUME NEW file \in File(X), IsWhole(file)
        PROVE  file.of \in X /\ file = Whole(file.of)
    <2>1. file \notin {None, Empty, Garbled}
      BY <1>2 DEF None, Empty, Garbled, IsWhole
    <2>2. PICK x \in X : file = Whole(x)
      BY <2>1 DEF File
    <2> QED  BY <2>2 DEF Whole
  <1>3. \A file \in File(X), x \in X : Written(file, x) \subseteq File(X)
    BY <1>1 DEF Written
  <1> QED  BY <1>1, <1>2, <1>3

\* A whole file can be read, an empty or garbled one cannot.
LEMMA FileReads ==
  /\ \A x : /\ IsWhole(Whole(x)) /\ Readable(Whole(x))
            /\ GetCameraRegistry(Whole(x)) = x
  /\ \A x : Written(Empty, x) = {Whole(x)}
  /\ \A file, x : Written(file, x) \subseteq {Whole(x), Garbled}
  /\ ~Readable(Empty) /\ ~Readable(Garbled) /\ Readable(None)
  /\ \A file \in {None, Empty, Garbled} : ~IsWhole(file) /\ GetCameraRegistry(file) = {}
  BY DEF IsWhole, Whole, Readable, GetCameraRegistry, Written, Empty, Garbled, None

\* UpdateCamerasForUser replaces one user's list and leaves the others alone.
LEMMA ReplacesOneList ==
  ASSUME NEW cameras \in SUBSET Camera, NEW k \in Keys, NEW found \in SUBSET Device
  PROVE  /\ Replace(cameras, k, found) \in SUBSET Camera
         /\ GetCamerasForUser(Replace(cameras, k, found), k) = found
         /\ \A j \in Keys : j # k =>
              GetCamerasForUser(Replace(cameras, k, found), j) = GetCamerasForUser(cameras, j)
  <1>1. Replace(cameras, k, found) \in SUBSET Camera
    BY DEF Replace, Added, Camera
  <1>2. GetCamerasForUser(Replace(cameras, k, found), k) = found
    <2>1. {d \in Replace(cameras, k, found) : d.key = k} = Added(k, found)
      BY DEF Replace, Added
    <2>2. {c.device : c \in Added(k, found)} = found
      <3>1. ASSUME NEW d \in found PROVE d \in {c.device : c \in Added(k, found)}
        <4>1. [key |-> k, device |-> d] \in Added(k, found)
          BY DEF Added
        <4> QED  BY <4>1
      <3>2. ASSUME NEW c \in Added(k, found) PROVE c.device \in found
        BY DEF Added
      <3> QED  BY <3>1, <3>2
    <2> QED  BY <2>1, <2>2 DEF GetCamerasForUser
  <1>3. ASSUME NEW j \in Keys, j # k
        PROVE  GetCamerasForUser(Replace(cameras, k, found), j) = GetCamerasForUser(cameras, j)
    <2>1. {d \in Replace(cameras, k, found) : d.key = j} = {d \in cameras : d.key = j}
      BY <1>3 DEF Replace, Added
    <2> QED  BY <2>1 DEF GetCamerasForUser
  <1> QED  BY <1>1, <1>2, <1>3

\* Where a process goes on, and what it keeps there.
LEMMA IdleTyped ==
  Idle \in [pc : CommandSteps, user : User, queue : SUBSET User,
              found : SUBSET Device, seen : SUBSET Camera]
  BY StoreValues DEF Idle, CommandSteps

ProcType == [pc : CommandSteps, user : User, queue : SUBSET User,
             found : SUBSET Device, seen : SUBSET Camera]

LEMMA Moves ==
  ASSUME StoreTypeOK, NEW p \in Process
  PROVE  /\ Ends(p) => proc' \in [Process -> ProcType]
         /\ \A s \in CommandSteps : Becomes(p, s) => proc' \in [Process -> ProcType]
         /\ Continues(p) => proc' \in [Process -> ProcType]
         /\ Saved(p) => proc' \in [Process -> ProcType]
         /\ Key(p) \in Keys /\ proc[p] \in ProcType
  <1>0. proc \in [Process -> ProcType]
    BY DEF StoreTypeOK, ProcType
  <1>1. Ends(p) => proc' \in [Process -> ProcType]
    BY <1>0, IdleTyped DEF Ends, ProcType
  <1>2. \A s \in CommandSteps : Becomes(p, s) => proc' \in [Process -> ProcType]
    BY <1>0 DEF Becomes, ProcType
  <1>3. "next" \in CommandSteps /\ "load" \in CommandSteps
    BY DEF CommandSteps
  <1>4. Continues(p) => proc' \in [Process -> ProcType]
    BY <1>1, <1>2, <1>3 DEF Continues
  <1>5. Saved(p) => proc' \in [Process -> ProcType]
    BY <1>1, <1>2, <1>3 DEF Saved
  <1>6. Key(p) \in Keys
    BY <1>0, StoreValues DEF Key, ProcType
  <1> QED  BY <1>0, <1>1, <1>2, <1>4, <1>5, <1>6

LEMMA StartsTyped ==
  ASSUME StoreTypeOK, NEW p \in Process,
         NEW s \in CommandSteps, NEW u \in User, NEW fields \in ProcType, Starts(p, s, u, fields)
  PROVE  proc' \in [Process -> ProcType] /\ started' \in 0 .. MaxCommands
  <1>1. [fields EXCEPT !.pc = s, !.user = u] \in ProcType
    BY DEF ProcType
  <1>2. proc' \in [Process -> ProcType]
    BY <1>1 DEF Starts, StoreTypeOK, ProcType
  <1>3. started' \in 0 .. MaxCommands
    BY StoreAssumption DEF Starts, StoreTypeOK
  <1> QED  BY <1>2, <1>3

LEMMA ListedUsers ==
  ASSUME StoreTypeOK
  PROVE  ListUsers \subseteq User
  BY FileValues DEF StoreTypeOK, ListUsers

LEMMA CommandsTyped ==
  ASSUME StoreTypeOK, NEW p \in Process, Commands(p)
  PROVE  proc' \in [Process -> ProcType] /\ started' \in 0 .. MaxCommands
  <1>0. \A s \in {"login", "save", "unlink", "next"} : s \in CommandSteps
    BY DEF CommandSteps
  <1>1. Idle \in ProcType
    BY IdleTyped DEF ProcType
  <1>2. \A n \in Names : [name |-> n, account |-> n.email] \in User
    BY StoreValues
  <1>3. CASE \E n \in Names : runAddUser(p, n)
    BY <1>0, <1>1, <1>2, <1>3, StartsTyped DEF runAddUser
  <1>4. CASE \E n \in Names : runRefreshUser(p, n)
    BY <1>0, <1>1, <1>2, <1>4, StartsTyped DEF runRefreshUser
  <1>5. CASE \E n \in Names : runDirect(p, n)
    <2>1. PICK n \in Names, given \in SUBSET Device :
            Starts(p, "save", [name |-> n, account |-> n.email], [Idle EXCEPT !.found = given])
      BY <1>5 DEF runDirect
    <2>2. [Idle EXCEPT !.found = given] \in ProcType
      BY <1>1 DEF ProcType
    <2> QED  BY <1>0, <1>2, <2>1, <2>2, StartsTyped
  <1>6. CASE \E n \in Names : runRemoveUser(p, n)
    BY <1>0, <1>1, <1>2, <1>6, StartsTyped DEF runRemoveUser
  <1>7. CASE runRefreshCameras(p)
    <2>1. [Idle EXCEPT !.queue = ListUsers] \in ProcType
      BY <1>1, ListedUsers DEF ProcType
    <2>2. Idle.user \in User
      BY <1>1 DEF ProcType
    <2> QED  BY <1>0, <1>7, <2>1, <2>2, StartsTyped DEF runRefreshCameras
  <1> QED  BY <1>3, <1>4, <1>5, <1>6, <1>7 DEF Commands

\* A discovery finds devices of the cloud.
LEMMA Discovered ==
  ASSUME NEW a, NEW down
  PROVE  discoverCamerasForUser(a, down) \subseteq Device
  BY StoreAssumption DEF discoverCamerasForUser

LEMMA StoreTypesInit == ASSUME StoreInit PROVE StoreTypeOK
<1>1. userFile \in [Keys -> File(User)] /\ registry \in File(SUBSET Camera)
  BY FileValues DEF StoreInit
<1>2. proc \in [Process -> ProcType]
  BY IdleTyped DEF StoreInit, ProcType
<1>3. started \in 0 .. MaxCommands
  BY StoreAssumption DEF StoreInit
<1>4. /\ reports \subseteq Keys \X SUBSET Device
      /\ latest \in [Keys -> SUBSET Device] /\ disturbed \in BOOLEAN
  BY DEF StoreInit
<1> QED  BY <1>1, <1>2, <1>3, <1>4 DEF StoreTypeOK, ProcType

LEMMA StoreTypesNext == ASSUME StoreTypeOK, [StoreNext]_storeVars PROVE StoreTypeOK'
<1> DEFINE FileTyped == userFile' \in [Keys -> File(User)]
           RegistryTyped == registry' \in File(SUBSET Camera)
           ProcTyped == proc' \in [Process -> ProcType]
           HistoryTyped == /\ reports' \subseteq Keys \X SUBSET Device
                           /\ latest' \in [Keys -> SUBSET Device] /\ disturbed' \in BOOLEAN
           StartedTyped == started' \in 0 .. MaxCommands
<1>1. SUFFICES ASSUME StoreNext
               PROVE  FileTyped /\ RegistryTyped /\ ProcTyped /\ HistoryTyped /\ StartedTyped
  BY DEF StoreTypeOK, storeVars, ProcType
<1>2. PICK p \in Process :
        \/ Commands(p)
        \/ performPasswordAuthentication(p) \/ performQRAuthentication(p)
        \/ SaveUser(p) \/ StoreUser(p) \/ StoreLost(p) \/ RemoveUser(p)
        \/ DiscoverNext(p) \/ LoadRegistry(p) \/ RegistryFails(p)
        \/ OpenRegistry(p) \/ SaveCameraRegistry(p) \/ RewriteFails(p) \/ Killed(p)
  BY <1>1 DEF StoreNext
<1>3. /\ userFile \in [Keys -> File(User)] /\ registry \in File(SUBSET Camera)
      /\ proc \in [Process -> ProcType] /\ started \in 0 .. MaxCommands
      /\ reports \subseteq Keys \X SUBSET Device
      /\ latest \in [Keys -> SUBSET Device] /\ disturbed \in BOOLEAN
  BY DEF StoreTypeOK, ProcType
<1>4. proc[p] \in ProcType /\ Key(p) \in Keys
  BY Moves
<1>5. \A s \in {"save", "store", "lost", "load", "next", "open", "rewrite"} : s \in CommandSteps
  BY DEF CommandSteps
<1>6. CASE Commands(p)
  <2>1. UNCHANGED <<userFile, registry, reports, latest, disturbed>>
    BY <1>6 DEF Commands, runAddUser, runRefreshUser, runDirect, runRemoveUser,
                runRefreshCameras, Files, History
  <2> QED  BY <1>3, <1>6, <2>1, CommandsTyped
<1>7. ASSUME NEW account \in Emails, NEW success, LoggedIn(p, account, success)
      PROVE  FileTyped /\ RegistryTyped /\ ProcTyped /\ HistoryTyped /\ StartedTyped
  <2>1. UNCHANGED <<userFile, registry, started, reports, latest, disturbed>>
    BY <1>7 DEF LoggedIn, Files, History
  <2>2. ProcTyped
    <3>1. CASE ~success
      BY <1>7, <3>1, Moves DEF LoggedIn
    <3>2. CASE success
      <4>1. [proc[p] EXCEPT !.pc = "save", !.user.account = account] \in ProcType
        BY <1>4, <1>5 DEF ProcType, User
      <4>2. proc' = [proc EXCEPT ![p] = [proc[p] EXCEPT !.pc = "save", !.user.account = account]]
        BY <1>3, <1>7, <3>2 DEF LoggedIn
      <4> QED  BY <1>3, <4>1, <4>2
    <3> QED  BY <3>1, <3>2
  <2> QED  BY <1>3, <2>1, <2>2
<1>8. CASE performPasswordAuthentication(p)
  <2>1. proc[p].user.name.email \in Emails
    BY <1>4, StoreValues DEF ProcType
  <2> QED  BY <1>7, <1>8, <2>1 DEF performPasswordAuthentication
<1>9. CASE performQRAuthentication(p)
  BY <1>7, <1>9 DEF performQRAuthentication
<1>10. CASE SaveUser(p)
  <2>1. FileTyped
    BY <1>3, <1>10, FileValues DEF SaveUser
  <2> QED  BY <1>3, <1>5, <1>10, <2>1, Moves DEF SaveUser, History
<1>11. CASE StoreUser(p)
  <2>1. proc[p].user \in User /\ userFile[Key(p)] \in File(User)
    BY <1>3, <1>4 DEF ProcType
  <2>2. Written(userFile[Key(p)], proc[p].user) \subseteq File(User)
    BY <2>1, FileValues
  <2>3. FileTyped
    BY <1>3, <1>11, <2>2 DEF StoreUser
  <2> QED  BY <1>3, <1>11, <2>3, Moves DEF StoreUser, History
<1>12. CASE StoreLost(p)
  BY <1>3, <1>12, Moves DEF StoreLost, Files, History
<1>13. CASE RemoveUser(p)
  <2>1. FileTyped
    BY <1>3, <1>13, FileValues DEF RemoveUser
  <2>2. ASSUME NEW q \in Process, NEW s \in CommandSteps
        PROVE  [proc[q] EXCEPT !.pc = s] \in ProcType
    BY <1>3 DEF ProcType
  <2>3. ProcTyped
    BY <1>3, <1>5, <1>13, <2>2 DEF RemoveUser
  <2> QED  BY <1>3, <1>13, <2>1, <2>3 DEF RemoveUser, History
<1>14. CASE DiscoverNext(p)
  <2>1. PICK u \in proc[p].queue, down \in SUBSET Requests :
          proc' = [proc EXCEPT ![p] =
            IF GetAppInfo(down)
            THEN [proc[p] EXCEPT !.pc = "load", !.user = u, !.queue = proc[p].queue \ {u},
                                 !.found = discoverCamerasForUser(u.account, down)]
            ELSE IF proc[p].queue \ {u} = {} THEN Idle
                 ELSE [proc[p] EXCEPT !.queue = proc[p].queue \ {u}]]
    BY <1>3, <1>14 DEF DiscoverNext
  <2>2. u \in User /\ proc[p].queue \ {u} \subseteq User
    BY <1>4 DEF ProcType
  <2>3. [proc[p] EXCEPT !.pc = "load", !.user = u, !.queue = proc[p].queue \ {u},
                        !.found = discoverCamerasForUser(u.account, down)] \in ProcType
    BY <1>4, <1>5, <2>2, Discovered DEF ProcType
  <2>4. [proc[p] EXCEPT !.queue = proc[p].queue \ {u}] \in ProcType
    BY <1>4, <2>2 DEF ProcType
  <2>5. Idle \in ProcType
    BY IdleTyped DEF ProcType
  <2>6. ProcTyped
    BY <1>3, <2>1, <2>3, <2>4, <2>5
  <2> QED  BY <1>3, <1>14, <2>6 DEF DiscoverNext, Files, History
<1>15. CASE LoadRegistry(p)
  <2>1. GetCameraRegistry(registry) \in SUBSET Camera
    BY <1>3, FileValues DEF GetCameraRegistry
  <2>2. [proc[p] EXCEPT !.pc = "open", !.seen = GetCameraRegistry(registry)] \in ProcType
    BY <1>4, <1>5, <2>1 DEF ProcType
  <2>3. ProcTyped
    BY <1>3, <1>15, <2>2 DEF LoadRegistry
  <2>4. <<Key(p), proc[p].found>> \in Keys \X SUBSET Device
    BY <1>4 DEF ProcType
  <2>5. reports' \subseteq Keys \X SUBSET Device /\ disturbed' \in BOOLEAN
    BY <1>3, <1>15, <2>4 DEF LoadRegistry
  <2> QED  BY <1>3, <1>15, <2>3, <2>5 DEF LoadRegistry, Files
<1>16. CASE RegistryFails(p)
  BY <1>3, <1>16, Moves DEF RegistryFails, Files, History
<1>17. CASE OpenRegistry(p)
  BY <1>3, <1>5, <1>17, Moves, FileValues DEF OpenRegistry, History
<1>18. CASE SaveCameraRegistry(p)
  <2>1. Replace(proc[p].seen, Key(p), proc[p].found) \in SUBSET Camera
    BY <1>4, ReplacesOneList DEF ProcType
  <2>2. RegistryTyped
    BY <1>3, <1>18, <2>1, FileValues DEF SaveCameraRegistry
  <2>3. latest' \in [Keys -> SUBSET Device]
    BY <1>3, <1>4, <1>18 DEF SaveCameraRegistry, ProcType
  <2> QED  BY <1>3, <1>18, <2>2, <2>3, Moves DEF SaveCameraRegistry
<1>19. CASE RewriteFails(p)
  BY <1>3, <1>19, Moves DEF RewriteFails, Files
<1>20. CASE Killed(p)
  <2>1. disturbed' \in BOOLEAN
    BY <1>3, <1>20 DEF Killed
  <2> QED  BY <1>3, <1>20, <2>1, Moves DEF Killed, Files
<1> QED  BY <1>2, <1>6, <1>8, <1>9, <1>10, <1>11, <1>12, <1>13, <1>14, <1>15, <1>16, <1>17, <1>18,
            <1>19, <1>20

\* The lists of the registry come whole, and stay up to date unless disturbed.
LEMMA StoreInvInit == ASSUME StoreInit PROVE StoreInv
<1>1. StoreTypeOK
  BY StoreTypesInit
<1>2. \A p \in Process : proc[p].pc = "idle"
  BY DEF StoreInit, Idle
<1>3. GetCameraRegistry(registry) = {} /\ Readable(registry)
  BY FileReads DEF StoreInit
<1>4. \A k \in Keys : GetCamerasForUser({}, k) = {} /\ latest[k] = {}
  BY DEF GetCamerasForUser, StoreInit
<1>5. \A p \in Process : ~Rewriting(p) /\ ~At(p, "rewrite")
  BY <1>2 DEF Rewriting, At
<1>6. WholeLists(GetCameraRegistry(registry)) /\ UpToDate(GetCameraRegistry(registry))
  BY <1>3, <1>4 DEF WholeLists, UpToDate
<1> QED  BY <1>1, <1>3, <1>5, <1>6 DEF StoreInv, Snapshots, Undisturbed

\* A step that leaves the registry alone and starts no rewrite.
LEMMA Elsewhere ==
  ASSUME StoreInv, UNCHANGED <<registry, reports, latest>>,
         ~disturbed' => ~disturbed,
         \A q \in Process : Rewriting(q)' => Rewriting(q) /\ proc'[q] = proc[q],
         ~disturbed' => \A q \in Process : At(q, "rewrite") => At(q, "rewrite")'
  PROVE  WholeLists(GetCameraRegistry(registry))' /\ Snapshots' /\ Undisturbed'
<1>1. WholeLists(GetCameraRegistry(registry))'
  BY DEF StoreInv, WholeLists
<1>2. Snapshots'
  BY DEF StoreInv, Snapshots, WholeLists, Key
<1>3. Undisturbed'
  <2>1. SUFFICES ASSUME ~disturbed' PROVE Undisturbed'
    BY DEF Undisturbed
  <2>2. \A q \in Process : At(q, "rewrite")' <=> At(q, "rewrite")
    BY <2>1 DEF At, Rewriting
  <2>3. \A q, r \in Process : Rewriting(q)' /\ Rewriting(r)' => q = r
    BY <2>1 DEF StoreInv, Undisturbed
  <2>4. \A q \in Process : Rewriting(q)' => UpToDate(proc[q].seen)'
    BY <2>1 DEF StoreInv, Undisturbed, UpToDate
  <2>5. /\ \A q \in Process : At(q, "rewrite")' => registry' = Empty
        /\ ~(\E q \in Process : At(q, "rewrite")') =>
             Readable(registry)' /\ UpToDate(GetCameraRegistry(registry))'
    BY <2>1, <2>2 DEF StoreInv, Undisturbed, UpToDate
  <2> QED  BY <2>3, <2>4, <2>5 DEF Undisturbed
<1> QED  BY <1>1, <1>2, <1>3

\* Where the steps that leave the registry alone take a process.
LEMMA Calm ==
  ASSUME StoreTypeOK, NEW p \in Process,
         \/ Commands(p)
         \/ performPasswordAuthentication(p) \/ performQRAuthentication(p)
         \/ SaveUser(p) \/ StoreUser(p) \/ StoreLost(p) \/ RemoveUser(p)
         \/ DiscoverNext(p) \/ RegistryFails(p)
  PROVE  /\ UNCHANGED <<registry, reports, latest, disturbed>>
         /\ \A q \in Process : Rewriting(q)' => Rewriting(q) /\ proc'[q] = proc[q]
         /\ \A q \in Process : At(q, "rewrite") => At(q, "rewrite")'
<1>1. UNCHANGED <<registry, reports, latest, disturbed>>
  BY DEF Commands, runAddUser, runRefreshUser, runDirect, runRemoveUser, runRefreshCameras,
         performPasswordAuthentication, performQRAuthentication, LoggedIn, SaveUser, StoreUser,
         StoreLost, RemoveUser, DiscoverNext, RegistryFails, Files, History
<1> DEFINE Leaves(s) == /\ proc[p].pc \notin {"open", "rewrite"} /\ s.pc \notin {"open", "rewrite"}
                       /\ proc' = [proc EXCEPT ![p] = s]
           OnlyP == /\ ~Rewriting(p) /\ ~Rewriting(p)'
                    /\ \A q \in Process \ {p} : Rewriting(q)' => Rewriting(q) /\ proc'[q] = proc[q]
                    /\ \A q \in Process \ {p} : Rewriting(q) => proc'[q] = proc[q]
<1>2. proc \in [Process -> ProcType]
  BY DEF StoreTypeOK, ProcType
<1>0. SUFFICES OnlyP
  BY <1>1 DEF At, Rewriting
<1>3. ASSUME NEW s, Leaves(s) PROVE OnlyP
  BY <1>2, <1>3 DEF Rewriting
<1>4. Idle.pc = "idle"
  BY DEF Idle
<1>5. ASSUME NEW s \in CommandSteps \ {"open", "rewrite"}, proc[p].pc \notin {"open", "rewrite"}, Becomes(p, s)
      PROVE  OnlyP
  BY <1>2, <1>5 DEF Becomes, Rewriting, ProcType
<1>6. ASSUME proc[p].pc \notin {"open", "rewrite"}, Ends(p) PROVE OnlyP
  BY <1>3, <1>4, <1>6 DEF Ends
<1>7. \A s \in {"save", "store", "next", "load"} : s \in CommandSteps \ {"open", "rewrite"}
  BY DEF CommandSteps
<1>8. ASSUME NEW s \in {"login", "save", "unlink", "next"}, NEW u \in User, NEW fields \in ProcType,
             Starts(p, s, u, fields)
      PROVE  OnlyP
  <2>1. [fields EXCEPT !.pc = s, !.user = u].pc = s
    BY DEF ProcType
  <2> QED  BY <1>3, <1>8, <2>1 DEF Starts, At
<1>9. CASE Commands(p)
  <2>1. \A n \in Names : [name |-> n, account |-> n.email] \in User
    BY StoreValues
  <2>2. Idle \in ProcType
    BY IdleTyped DEF ProcType
  <2>3. Idle.user \in User
    BY <2>2 DEF ProcType
  <2>4. \A given \in SUBSET Device : [Idle EXCEPT !.found = given] \in ProcType
    BY <2>2 DEF ProcType
  <2>5. [Idle EXCEPT !.queue = ListUsers] \in ProcType
    BY <2>2, ListedUsers DEF ProcType
  <2>6. CASE \E n \in Names : runAddUser(p, n)
    BY <1>8, <2>1, <2>2, <2>6 DEF runAddUser
  <2>7. CASE \E n \in Names : runRefreshUser(p, n)
    BY <1>8, <2>1, <2>2, <2>7 DEF runRefreshUser
  <2>8. CASE \E n \in Names : runDirect(p, n)
    BY <1>8, <2>1, <2>4, <2>8 DEF runDirect
  <2>9. CASE \E n \in Names : runRemoveUser(p, n)
    BY <1>8, <2>1, <2>2, <2>9 DEF runRemoveUser
  <2>10. CASE runRefreshCameras(p)
    BY <1>8, <2>3, <2>5, <2>10 DEF runRefreshCameras
  <2> QED  BY <1>9, <2>6, <2>7, <2>8, <2>9, <2>10 DEF Commands
<1>10. CASE performPasswordAuthentication(p) \/ performQRAuthentication(p)
  <2>1. PICK account, success : LoggedIn(p, account, success)
    BY <1>10 DEF performPasswordAuthentication, performQRAuthentication
  <2>2. proc[p].pc = "login"
    BY <1>10 DEF performPasswordAuthentication, performQRAuthentication, At
  <2>3. CASE success
    <3>1. proc' = [proc EXCEPT ![p] = [proc[p] EXCEPT !.pc = "save", !.user.account = account]]
      BY <1>2, <2>1, <2>3 DEF LoggedIn
    <3>2. [proc[p] EXCEPT !.pc = "save", !.user.account = account].pc = "save"
      BY <1>2 DEF ProcType
    <3> QED  BY <1>3, <2>2, <3>1, <3>2
  <2>4. CASE ~success
    BY <1>6, <2>1, <2>2, <2>4 DEF LoggedIn
  <2> QED  BY <2>3, <2>4
<1>11. CASE SaveUser(p) \/ StoreUser(p) \/ StoreLost(p) \/ RegistryFails(p)
  <2>1. proc[p].pc \notin {"open", "rewrite"}
    BY <1>11 DEF SaveUser, StoreUser, StoreLost, RegistryFails, At
  <2>2. \/ Ends(p) \/ Becomes(p, "store") \/ Becomes(p, "load") \/ Becomes(p, "next")
    BY <1>11 DEF SaveUser, StoreUser, StoreLost, RegistryFails, Saved, Continues
  <2> QED  BY <1>5, <1>6, <1>7, <2>1, <2>2
<1>12. CASE RemoveUser(p)
  <2>1. proc[p].pc = "unlink" /\ proc'[p] = [proc[p] EXCEPT !.pc = "load"]
    BY <1>12 DEF RemoveUser, At
  <2>2. \A q \in Process \ {p} :
          (proc'[q] = proc[q]) \/ (proc[q].pc = "store" /\ proc'[q] = [proc[q] EXCEPT !.pc = "lost"])
    BY <1>12 DEF RemoveUser, At
  <2>3. \A q \in Process : proc[q] \in ProcType
    BY <1>2
  <2> QED  BY <2>1, <2>2, <2>3 DEF Rewriting, ProcType
<1>13. CASE DiscoverNext(p)
  <2>1. proc[p].pc = "next"
    BY <1>13 DEF DiscoverNext, At
  <2>2. PICK u \in proc[p].queue, down \in SUBSET Requests :
          proc' = [proc EXCEPT ![p] =
            IF GetAppInfo(down)
            THEN [proc[p] EXCEPT !.pc = "load", !.user = u, !.queue = proc[p].queue \ {u},
                                 !.found = discoverCamerasForUser(u.account, down)]
            ELSE IF proc[p].queue \ {u} = {} THEN Idle
                 ELSE [proc[p] EXCEPT !.queue = proc[p].queue \ {u}]]
    BY <1>2, <1>13 DEF DiscoverNext
  <2>3. /\ [proc[p] EXCEPT !.pc = "load", !.user = u, !.queue = proc[p].queue \ {u},
                           !.found = discoverCamerasForUser(u.account, down)].pc = "load"
        /\ [proc[p] EXCEPT !.queue = proc[p].queue \ {u}].pc = "next"
    BY <1>2, <2>1 DEF ProcType
  <2> QED  BY <1>3, <1>4, <2>1, <2>2, <2>3
<1> QED  BY <1>9, <1>10, <1>11, <1>12, <1>13

LEMMA Departs ==
  ASSUME StoreTypeOK, NEW p \in Process, Continues(p) \/ Ends(p)
  PROVE  ~Rewriting(p)' /\ \A q \in Process \ {p} : proc'[q] = proc[q]
<1>1. proc \in [Process -> ProcType]
  BY DEF StoreTypeOK, ProcType
<1>2. CASE Ends(p)
  BY <1>1, <1>2 DEF Ends, Idle, Rewriting
<1>3. CASE Becomes(p, "next")
  BY <1>1, <1>3 DEF Becomes, Rewriting, ProcType
<1> QED  BY <1>2, <1>3 DEF Continues

LEMMA LoadKeeps ==
  ASSUME StoreInv, NEW p \in Process, LoadRegistry(p)
  PROVE  WholeLists(GetCameraRegistry(registry))' /\ Snapshots' /\ Undisturbed'
<1> DEFINE content == GetCameraRegistry(registry)
<1>1. proc \in [Process -> ProcType]
  BY DEF StoreInv, StoreTypeOK, ProcType
<1>2. /\ proc'[p] = [proc[p] EXCEPT !.pc = "open", !.seen = content]
      /\ \A q \in Process \ {p} : proc'[q] = proc[q]
      /\ registry' = registry /\ latest' = latest
      /\ reports' = reports \cup {<<Key(p), proc[p].found>>}
      /\ disturbed' = (disturbed \/ \E q \in Process : Rewriting(q))
  BY <1>1 DEF LoadRegistry, Files
<1>3. /\ proc'[p].pc = "open" /\ proc'[p].seen = content
      /\ proc'[p].found = proc[p].found /\ proc'[p].user = proc[p].user
  BY <1>1, <1>2 DEF ProcType
<1>4. \A cameras : WholeLists(cameras) => WholeLists(cameras)'
  BY <1>2 DEF WholeLists
<1>5. WholeLists(content)'
  BY <1>2, <1>4 DEF StoreInv, WholeLists
<1>6. Snapshots'
  <2>1. SUFFICES ASSUME NEW q \in Process, Rewriting(q)'
                 PROVE  WholeLists(proc[q].seen)' /\ <<Key(q)', proc'[q].found>> \in reports'
    BY DEF Snapshots
  <2>2. CASE q = p
    BY <1>2, <1>3, <1>5, <2>2 DEF Key, WholeLists
  <2>3. CASE q # p
    <3>1. Rewriting(q) /\ Key(q)' = Key(q)
      BY <1>2, <2>1, <2>3 DEF Rewriting, Key
    <3>2. WholeLists(proc[q].seen) /\ <<Key(q), proc[q].found>> \in reports
      BY <3>1 DEF StoreInv, Snapshots
    <3> QED  BY <1>2, <2>3, <3>1, <3>2 DEF WholeLists
  <2> QED  BY <2>2, <2>3
<1>7. Undisturbed'
  <2>1. SUFFICES ASSUME ~disturbed' PROVE Undisturbed'
    BY DEF Undisturbed
  <2>2. ~disturbed /\ \A q \in Process : ~Rewriting(q)
    BY <1>2, <2>1
  <2>3. Readable(registry) /\ UpToDate(content)
    BY <2>2 DEF StoreInv, Undisturbed, Rewriting, At
  <2>4. \A q \in Process : Rewriting(q)' => q = p
    BY <1>2, <2>2 DEF Rewriting
  <2>5. \A q \in Process : ~At(q, "rewrite")'
    BY <1>2, <1>3, <2>2 DEF Rewriting, At
  <2>6. UpToDate(proc[p].seen)' /\ Readable(registry)' /\ UpToDate(content)'
    BY <1>2, <1>3, <2>3 DEF UpToDate
  <2> QED  BY <2>4, <2>5, <2>6 DEF Undisturbed
<1> QED  BY <1>5, <1>6, <1>7

LEMMA OpenKeeps ==
  ASSUME StoreInv, NEW p \in Process, OpenRegistry(p)
  PROVE  WholeLists(GetCameraRegistry(registry))' /\ Snapshots' /\ Undisturbed'
<1>1. proc \in [Process -> ProcType]
  BY DEF StoreInv, StoreTypeOK, ProcType
<1>2. /\ proc[p].pc = "open" /\ proc'[p] = [proc[p] EXCEPT !.pc = "rewrite"]
      /\ \A q \in Process \ {p} : proc'[q] = proc[q]
      /\ registry' = Empty /\ UNCHANGED <<reports, latest, disturbed>>
  BY <1>1 DEF OpenRegistry, Becomes, History, At
<1>3. \A q \in Process : /\ proc'[q].seen = proc[q].seen /\ proc'[q].found = proc[q].found
                         /\ proc'[q].user = proc[q].user
                         /\ Rewriting(q)' <=> Rewriting(q)
  <2>1. /\ proc'[p].seen = proc[p].seen /\ proc'[p].found = proc[p].found
        /\ proc'[p].user = proc[p].user /\ proc'[p].pc = "rewrite"
    BY <1>1, <1>2 DEF ProcType
  <2> QED  BY <1>2, <2>1 DEF Rewriting
<1>4. WholeLists(GetCameraRegistry(registry))'
  <2>1. GetCameraRegistry(registry)' = {}
    BY <1>2, FileReads
  <2> QED  BY <2>1 DEF WholeLists, GetCamerasForUser
<1>5. Snapshots'
  <2>1. \A q \in Process : Key(q)' = Key(q)
    BY <1>3 DEF Key
  <2> QED  BY <1>2, <1>3, <2>1 DEF StoreInv, Snapshots, WholeLists
<1>6. Undisturbed'
  <2>1. SUFFICES ASSUME ~disturbed' PROVE Undisturbed'
    BY DEF Undisturbed
  <2>2. \A q \in Process : Rewriting(q) => q = p
    BY <1>2, <2>1 DEF StoreInv, Undisturbed, Rewriting
  <2>3. \A q \in Process : Rewriting(q) => UpToDate(proc[q].seen)'
    BY <1>2, <1>3, <2>1 DEF StoreInv, Undisturbed, UpToDate
  <2>4. At(p, "rewrite")'
    BY <1>1, <1>2 DEF At, ProcType
  <2> QED  BY <1>2, <1>3, <2>2, <2>3, <2>4 DEF Undisturbed
<1> QED  BY <1>4, <1>5, <1>6

LEMMA SaveKeeps ==
  ASSUME StoreInv, NEW p \in Process, SaveCameraRegistry(p)
  PROVE  WholeLists(GetCameraRegistry(registry))' /\ Snapshots' /\ Undisturbed'
<1> DEFINE k == Key(p)
           new == Replace(proc[p].seen, k, proc[p].found)
<1>1. proc \in [Process -> ProcType] /\ k \in Keys
  BY Moves DEF StoreInv, StoreTypeOK, ProcType
<1>2. proc[p].seen \in SUBSET Camera /\ proc[p].found \in SUBSET Device
  BY <1>1 DEF ProcType
<1>3. /\ GetCamerasForUser(new, k) = proc[p].found
      /\ \A j \in Keys : j # k => GetCamerasForUser(new, j) = GetCamerasForUser(proc[p].seen, j)
  BY <1>1, <1>2, ReplacesOneList
<1>4. /\ Rewriting(p) /\ At(p, "rewrite") /\ reports' = reports /\ disturbed' = disturbed
      /\ latest' = [latest EXCEPT ![k] = proc[p].found]
      /\ registry' \in Written(registry, new)
  BY DEF SaveCameraRegistry, At, Rewriting
<1>5. WholeLists(new)
  <2>1. WholeLists(proc[p].seen) /\ <<k, proc[p].found>> \in reports
    BY <1>4 DEF StoreInv, Snapshots
  <2> QED  BY <1>3, <2>1 DEF WholeLists
<1>6. ~Rewriting(p)' /\ \A q \in Process \ {p} : proc'[q] = proc[q]
  BY Departs DEF StoreInv, SaveCameraRegistry
<1>7. WholeLists(GetCameraRegistry(registry))'
  <2>1. GetCameraRegistry(registry)' = new \/ GetCameraRegistry(registry)' = {}
    BY <1>4, FileReads
  <2>2. WholeLists({})
    BY DEF WholeLists, GetCamerasForUser
  <2> QED  BY <1>4, <1>5, <2>1, <2>2 DEF WholeLists
<1>8. Snapshots'
  <2>1. \A q \in Process : Rewriting(q)' => q # p /\ Rewriting(q) /\ Key(q)' = Key(q)
    BY <1>6 DEF Rewriting, Key
  <2> QED  BY <1>4, <1>6, <2>1 DEF StoreInv, Snapshots, WholeLists
<1>9. Undisturbed'
  <2>1. SUFFICES ASSUME ~disturbed' PROVE Undisturbed'
    BY DEF Undisturbed
  <2>2. \A q \in Process : ~Rewriting(q)'
    BY <1>4, <1>6, <2>1 DEF StoreInv, Undisturbed, Rewriting
  <2>3. registry = Empty /\ UpToDate(proc[p].seen)
    BY <1>4, <2>1 DEF StoreInv, Undisturbed
  <2>4. Readable(registry)' /\ GetCameraRegistry(registry)' = new
    BY <1>4, <2>3, FileReads
  <2>5. latest \in [Keys -> SUBSET Device]
    BY DEF StoreInv, StoreTypeOK
  <2>6. \A j \in Keys : GetCamerasForUser(new, j) = latest'[j]
    BY <1>1, <1>3, <1>4, <2>3, <2>5 DEF UpToDate
  <2>7. UpToDate(GetCameraRegistry(registry))'
    BY <2>4, <2>6 DEF UpToDate
  <2> QED  BY <2>2, <2>4, <2>7 DEF Undisturbed, Rewriting, At
<1> QED  BY <1>7, <1>8, <1>9

LEMMA StoreInvNext == ASSUME StoreInv, [StoreNext]_storeVars PROVE StoreInv'
<1>1. StoreTypeOK /\ StoreTypeOK'
  BY StoreTypesNext DEF StoreInv
<1>2. SUFFICES WholeLists(GetCameraRegistry(registry))' /\ Snapshots' /\ Undisturbed'
  BY <1>1 DEF StoreInv
<1>3. CASE UNCHANGED storeVars
  <2>1. UNCHANGED <<registry, proc, reports, latest, disturbed>>
    BY <1>3 DEF storeVars
  <2> QED  BY <2>1, Elsewhere DEF Rewriting, At
<1>4. CASE StoreNext
  <2>1. PICK p \in Process :
          \/ Commands(p)
          \/ performPasswordAuthentication(p) \/ performQRAuthentication(p)
          \/ SaveUser(p) \/ StoreUser(p) \/ StoreLost(p) \/ RemoveUser(p)
          \/ DiscoverNext(p) \/ LoadRegistry(p) \/ RegistryFails(p)
          \/ OpenRegistry(p) \/ SaveCameraRegistry(p) \/ RewriteFails(p) \/ Killed(p)
    BY <1>4 DEF StoreNext
  <2>2. CASE LoadRegistry(p)
    BY <2>2, LoadKeeps
  <2>3. CASE OpenRegistry(p)
    BY <2>3, OpenKeeps
  <2>4. CASE SaveCameraRegistry(p)
    BY <2>4, SaveKeeps
  <2>5. CASE RewriteFails(p) \/ Killed(p)
    <3>1. ~Rewriting(p)' /\ \A q \in Process \ {p} : proc'[q] = proc[q]
      BY <1>1, <2>5, Departs DEF RewriteFails, Killed
    <3>2. UNCHANGED <<registry, reports, latest>>
      BY <2>5 DEF RewriteFails, Killed, Files
    <3>3. ~disturbed' => ~disturbed /\ ~At(p, "rewrite")
      BY <2>5 DEF RewriteFails, Killed
    <3>4. \A q \in Process : Rewriting(q)' => Rewriting(q) /\ proc'[q] = proc[q]
      BY <3>1 DEF Rewriting
    <3>5. ~disturbed' => \A q \in Process : At(q, "rewrite") => At(q, "rewrite")'
      BY <3>1, <3>3 DEF At
    <3> QED  BY <3>2, <3>3, <3>4, <3>5, Elsewhere
  <2>6. CASE ~LoadRegistry(p) /\ ~OpenRegistry(p) /\ ~SaveCameraRegistry(p)
             /\ ~RewriteFails(p) /\ ~Killed(p)
    BY <1>1, <2>1, <2>6, Calm, Elsewhere
  <2> QED  BY <2>2, <2>3, <2>4, <2>5, <2>6
<1> QED  BY <1>3, <1>4

LEMMA StoreInvariant == StoreSpec => []StoreInv
  BY StoreInvInit, StoreInvNext, PTL DEF StoreSpec

(* The types of the data directory and of the commands that use it: what a *)
(* command reads from a file is a user, or a list of cameras.              *)
THEOREM StoreTypes == StoreSpec => []StoreTypeOK
<1>1. StoreInv => StoreTypeOK
  BY DEF StoreInv
<1> QED  BY <1>1, StoreInvariant, PTL

(* UpdateCamerasForUser, for any number of commands at a time: no list in  *)
(* cameras.json is a mixture of two, or the list of another key.           *)
THEOREM ListsComeWhole == StoreSpec => []WholeReports
<1>1. StoreInv => WholeReports
  BY DEF StoreInv, WholeLists, WholeReports, GetCameraRegistry
<1> QED  BY <1>1, StoreInvariant, PTL

(* UpdateCamerasForUser and removeCamerasForUser, for any number of        *)
(* commands, as long as none is overlapped or cut short: the registry is   *)
(* what its rewrites add up to, user by user.                              *)
THEOREM NoListIsLost == StoreSpec => []RewritesAddUp
<1>1. StoreInv => RewritesAddUp
  BY DEF StoreInv, Undisturbed, UpToDate, RewritesAddUp
<1> QED  BY <1>1, StoreInvariant, PTL
=============================================================================
