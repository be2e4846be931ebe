---------------------------- MODULE CameraStore ----------------------------
(***************************************************************************)
(* The bridge's data directory (pkg/storage/manager.go) and the commands   *)
(* that change it: auth add, refresh and remove, cameras refresh, and the  *)
(* direct and add-on commands, which store their account and cameras       *)
(* before they serve.  Each command is a process of its own; nothing locks *)
(* the files, os.WriteFile truncates before it writes, and a process may   *)
(* be killed at any point.  Which requests of a command the Tuya cloud     *)
(* answers is open.                                                        *)
(***************************************************************************)
EXTENDS Integers, FiniteSets, Sequences

CONSTANTS Process,
          Names,             \* the [region, email] that commands are given
          AvailableRegions,  \* the regions auth add and auth refresh accept
          Device,            \* the devices of the cloud, and those of them in
          CameraDevice,      \* the categories "sp" and "dghsxj"
          HomesOf,           \* the homes of an account, by its e-mail
          DevicesIn,         \* the devices in the rooms of a home
          SharedWith,        \* the devices shared with an account
          MaxRetries,        \* polls for a scanned QR code
          MaxCommands        \* bound: commands started

(* An e-mail is a sequence of characters; "_at_" counts as one.            *)
Emails == {n.email : n \in Names}
Home == DOMAIN DevicesIn

ASSUME StoreAssumption ==
  /\ Names # {} /\ \A n \in Names : n = [region |-> n.region, email |-> n.email]
  /\ CameraDevice \subseteq Device
  /\ DevicesIn \in [Home -> SUBSET Device]
  /\ HomesOf \in [Emails -> SUBSET Home] /\ SharedWith \in [Emails -> SUBSET Device]
  /\ MaxRetries \in Nat /\ MaxCommands \in Nat

Safe(c) == CASE c = "@" -> "_at_" [] c = "." -> "_" [] OTHER -> c
userKey(n) == <<n.region, [i \in DOMAIN n.email |-> Safe(n.email[i])]>>
Keys == {userKey(n) : n \in Names}

User == [name : Names, account : Emails]  \* UserSession: whose session is it?
Camera == [key : Keys, device : Device]   \* CameraInfo
None == [status |-> "none"]
Empty == [status |-> "empty"]             \* truncated, not yet written
Garbled == [status |-> "garbled"]         \* a short write over a longer one
Whole(x) == [status |-> "whole", of |-> x]
File(X) == {None, Empty, Garbled} \cup {Whole(x) : x \in X}
CommandSteps == {"idle", "login", "save", "store", "lost", "unlink", "next", "load", "open", "rewrite"}

VARIABLES userFile,  \* user_<key>.json
          registry,  \* cameras.json
          proc,      \* per process: its place and the locals of its command
          started,   \* commands started so far
          reports,   \* history: the camera lists handed over for a key,
          latest,    \*   the one last written for it, and whether a rewrite
          disturbed  \*   was ever overlapped by another or cut short
storeVars == <<userFile, registry, proc, started, reports, latest, disturbed>>

StoreTypeOK ==
  /\ userFile \in [Keys -> File(User)] /\ registry \in File(SUBSET Camera)
  /\ proc \in [Process -> [pc : CommandSteps, user : User, queue : SUBSET User,
                           found : SUBSET Device, seen : SUBSET Camera]]
  /\ started \in 0..MaxCommands
  /\ reports \subseteq Keys \X SUBSET Device
  /\ latest \in [Keys -> SUBSET Device] /\ disturbed \in BOOLEAN

Idle == [pc |-> "idle", user |-> CHOOSE u \in User : TRUE, queue |-> {}, found |-> {}, seen |-> {}]

StoreInit ==
  /\ userFile = [k \in Keys |-> None] /\ registry = None
  /\ proc = [p \in Process |-> Idle] /\ started = 0
  /\ reports = {} /\ latest = [k \in Keys |-> {}] /\ disturbed = FALSE

At(p, s) == proc[p].pc = s
Key(p) == userKey(proc[p].user.name)
Becomes(p, s) == proc' = [proc EXCEPT ![p].pc = s]
Ends(p) == proc' = [proc EXCEPT ![p] = Idle]
History == <<reports, latest, disturbed>>
Files == <<userFile, registry>>

(* os.WriteFile after its truncation: over what another process wrote      *)
(* meanwhile, a shorter text leaves the tail of the longer one.            *)
Written(file, x) == IF file = Empty THEN {Whole(x)} ELSE {Whole(x), Garbled}
(* GetUser: the stored user, none, or an error of the command.             *)
GetUser(n) == userFile[userKey(n)]
IsWhole(file) == file.status = "whole"
ListUsers == {userFile[k].of : k \in {k \in Keys : IsWhole(userFile[k])}}

(* GetCameraRegistry: a file that is not there is an empty registry.       *)
Readable(file) == file = None \/ IsWhole(file)
GetCameraRegistry(file) == IF IsWhole(file) THEN file.of ELSE {}
GetCamerasForUser(cameras, k) == {c.device : c \in {d \in cameras : d.key = k}}

Starts(p, s, u, fields) ==
  /\ At(p, "idle") /\ started < MaxCommands /\ started' = started + 1
  /\ proc' = [proc EXCEPT ![p] = [fields EXCEPT !.pc = s, !.user = u]]

(* auth add.  For a user who exists the operator has to agree.             *)
ValidEmail(e) == \A c \in {"@", "."} : \E i \in DOMAIN e : e[i] = c
runAddUser(p, n) ==
  /\ n.region \in AvailableRegions /\ ValidEmail(n.email)
  /\ Readable(GetUser(n))
  /\ Starts(p, "login", [name |-> n, account |-> n.email], Idle)
  /\ UNCHANGED <<Files, History>>

(* auth refresh                                                            *)
runRefreshUser(p, n) ==
  /\ n.region \in AvailableRegions /\ IsWhole(GetUser(n))
  /\ Starts(p, "login", [name |-> n, account |-> n.email], Idle)
  /\ UNCHANGED <<Files, History>>

(* The replies to a request; "lost" is any failure of transport or format. *)
(* A refused token is returned as nil without an error, and its use ends   *)
(* the program: a command that stops, like any other failure.              *)
Reply == {"granted", "refused", "lost"}
GetLoginToken(reply) == reply = "granted"
performLogin(reply) == reply = "granted"
PasswordLogin(token, login) == GetLoginToken(token) /\ performLogin(login)
GenerateQRCode(reply) == reply = "granted"
PollForLogin(replies) ==
  \E i \in 1..MaxRetries : replies[i] = "granted" /\ \A j \in 1..i-1 : replies[j] = "refused"

LoggedIn(p, account, success) ==
  /\ IF success THEN proc' = [proc EXCEPT ![p].pc = "save", ![p].user.account = account]
                ELSE Ends(p)
  /\ UNCHANGED <<Files, started, History>>

performPasswordAuthentication(p) ==
  /\ At(p, "login")
  /\ \E token, login \in Reply : LoggedIn(p, proc[p].user.name.email, PasswordLogin(token, login))

(* Whose phone scans the code is open; the operator may accept a stranger. *)
performQRAuthentication(p) ==
  /\ At(p, "login")
  /\ \E account \in Emails, qr \in Reply, replies \in [1..MaxRetries -> Reply], agrees \in BOOLEAN :
       LoggedIn(p, account, /\ GenerateQRCode(qr) /\ PollForLogin(replies)
                            /\ account = proc[p].user.name.email \/ agrees)

(* SaveUser: the truncation, and the write that follows.  It is to no      *)
(* avail when the disk is full or the file was removed in between; direct  *)
(* and the add-on command go on without it.                                *)
SaveUser(p) ==
  /\ At(p, "save")
  /\ userFile' = [userFile EXCEPT ![Key(p)] = Empty] /\ Becomes(p, "store")
  /\ UNCHANGED <<registry, started, History>>

Saved(p) == IF proc[p].found = {} THEN Ends(p) ELSE Becomes(p, "load")

StoreUser(p) ==
  /\ At(p, "store")
  /\ \E file \in Written(userFile[Key(p)], proc[p].user) : userFile' = [userFile EXCEPT ![Key(p)] = file]
  /\ Saved(p)
  /\ UNCHANGED <<registry, started, History>>

StoreLost(p) ==
  /\ At(p, "store") \/ At(p, "lost")
  /\ Saved(p)
  /\ UNCHANGED <<Files, started, History>>

(* direct, and the add-on command: an account and its cameras, as given.   *)
runDirect(p, n) ==
  /\ n.region \notin AvailableRegions
  /\ \E given \in SUBSET Device :
       given # {} /\ Starts(p, "save", [name |-> n, account |-> n.email], [Idle EXCEPT !.found = given])
  /\ UNCHANGED <<Files, History>>

(* auth remove, confirmed while others may change the files                *)
runRemoveUser(p, n) ==
  /\ IsWhole(GetUser(n))
  /\ Starts(p, "unlink", [name |-> n, account |-> n.email], Idle)
  /\ UNCHANGED <<Files, History>>

(* RemoveUser: the file first, then removeCamerasForUser                   *)
RemoveUser(p) ==
  /\ At(p, "unlink")
  /\ userFile' = [userFile EXCEPT ![Key(p)] = None]
  /\ proc' = [q \in Process |->
       IF q = p THEN [proc[p] EXCEPT !.pc = "load"]
       ELSE IF At(q, "store") /\ Key(q) = Key(p) THEN [proc[q] EXCEPT !.pc = "lost"] ELSE proc[q]]
  /\ UNCHANGED <<registry, started, History>>

(* cameras refresh: the users whose files can be read, one after another   *)
runRefreshCameras(p) ==
  /\ ListUsers # {}
  /\ Starts(p, "next", Idle.user, [Idle EXCEPT !.queue = ListUsers])
  /\ UNCHANGED <<Files, History>>

(* discoverCamerasForUser: the requests in down fail.  Without app info    *)
(* the user is skipped; without a list or a configuration the discovery    *)
(* goes on.                                                                *)
Requests == ({"app", "homes", "shared"} \X {"all"}) \cup ({"rooms"} \X Home) \cup ({"config"} \X Device)
GetAppInfo(down) == <<"app", "all">> \notin down
GetHomeList(a, down) == IF <<"homes", "all">> \in down THEN {} ELSE HomesOf[a]
GetRoomList(h, down) == IF <<"rooms", h>> \in down THEN {} ELSE DevicesIn[h]
GetSharedHomeList(a, down) == IF <<"shared", "all">> \in down THEN {} ELSE SharedWith[a]
GetWebRTCConfig(d, down) == <<"config", d>> \notin down

discoverCamerasForUser(a, down) ==
  LET devices == UNION {GetRoomList(h, down) : h \in GetHomeList(a, down)} \cup GetSharedHomeList(a, down)
  IN  {d \in devices \cap CameraDevice : GetWebRTCConfig(d, down)}

Continues(p) == IF proc[p].queue = {} THEN Ends(p) ELSE Becomes(p, "next")

DiscoverNext(p) ==
  /\ At(p, "next")
  /\ \E u \in proc[p].queue, down \in SUBSET Requests :
       LET rest == proc[p].queue \ {u} IN
       proc' = [proc EXCEPT ![p] =
         IF GetAppInfo(down)
         THEN [@ EXCEPT !.pc = "load", !.user = u, !.queue = rest,
                        !.found = discoverCamerasForUser(u.account, down)]
         ELSE IF rest = {} THEN Idle ELSE [@ EXCEPT !.queue = rest]]
  /\ UNCHANGED <<Files, started, History>>

(* UpdateCamerasForUser and removeCamerasForUser, which adds no cameras:   *)
(* read, filter, append, and SaveCameraRegistry: truncate and write.       *)
Rewriting(q) == proc[q].pc \in {"open", "rewrite"}
MayRead == Readable(registry)

LoadRegistry(p) ==
  /\ At(p, "load") /\ MayRead
  /\ proc' = [proc EXCEPT ![p].pc = "open", ![p].seen = GetCameraRegistry(registry)]
  /\ reports' = reports \cup {<<Key(p), proc[p].found>>}
  /\ disturbed' = (disturbed \/ \E q \in Process : Rewriting(q))
  /\ UNCHANGED <<Files, started, latest>>

RegistryFails(p) ==
  /\ At(p, "load") /\ ~MayRead /\ Continues(p)
  /\ UNCHANGED <<Files, started, History>>

Added(k, found) == {[key |-> k, device |-> d] : d \in found}
AppendAll(cameras, k, found) == cameras \cup Added(k, found)      \* mutants
ReplaceAll(cameras, k, found) == Added(k, found)
Replace(cameras, k, found) == {c \in cameras : c.key # k} \cup Added(k, found)

OpenRegistry(p) ==
  /\ At(p, "open")
  /\ registry' = Empty /\ Becomes(p, "rewrite")
  /\ UNCHANGED <<userFile, started, History>>

SaveCameraRegistry(p) ==
  /\ At(p, "rewrite")
  /\ registry' \in Written(registry, Replace(proc[p].seen, Key(p), proc[p].found))
  /\ latest' = [latest EXCEPT ![Key(p)] = proc[p].found]
  /\ Continues(p)
  /\ UNCHANGED <<userFile, started, reports, disturbed>>

RewriteFails(p) ==  \* a full disk
  /\ At(p, "rewrite")
  /\ Continues(p) /\ disturbed' = TRUE
  /\ UNCHANGED <<Files, started, reports, latest>>

(* The process is killed: the power, Ctrl-C, the container.                *)
Killed(p) ==
  /\ ~At(p, "idle") /\ Ends(p)
  /\ disturbed' = (disturbed \/ At(p, "rewrite"))
  /\ UNCHANGED <<Files, started, reports, latest>>

Commands(p) ==
  \/ \E n \in Names : \/ runAddUser(p, n) \/ runRefreshUser(p, n)
                      \/ runDirect(p, n) \/ runRemoveUser(p, n)
  \/ runRefreshCameras(p)

StoreNext == \E p \in Process :
  \/ Commands(p)
  \/ performPasswordAuthentication(p) \/ performQRAuthentication(p)
  \/ SaveUser(p) \/ StoreUser(p) \/ StoreLost(p) \/ RemoveUser(p)
  \/ DiscoverNext(p) \/ LoadRegistry(p) \/ RegistryFails(p)
  \/ OpenRegistry(p) \/ SaveCameraRegistry(p) \/ RewriteFails(p) \/ Killed(p)

StoreSpec == StoreInit /\ [][StoreNext]_storeVars

-----------------------------------------------------------------------------
(* However commands overlap, what the registry holds under a key is one    *)
(* list that UpdateCamerasForUser was handed under that key, or nothing:   *)
(* never a mixture of two discoveries, nor the list of another key.  Two   *)
(* e-mails that give the same file name share a key, and so their lists.   *)
WholeReports ==
  IsWhole(registry) =>
    \A k \in Keys : LET devices == GetCamerasForUser(registry.of, k)
                    IN  devices = {} \/ <<k, devices>> \in reports

(* As long as no rewrite of cameras.json was overlapped by another or cut  *)
(* short, the file can be read between the rewrites and holds for every    *)
(* user the last list written for him: no command loses another's cameras. *)
RewritesAddUp ==
  ~disturbed /\ ~(\E p \in Process : At(p, "rewrite")) =>
    /\ Readable(registry)
    /\ \A k \in Keys : GetCamerasForUser(GetCameraRegistry(registry), k) = latest[k]
=============================================================================
