----------------------------- MODULE AddonBridge -----------------------------
(***************************************************************************)
(* The add-on: run.sh, which waits for a configuration file, starts the    *)
(* bridge on it and watches it, and the bridge process (cmd/addon), next   *)
(* to the integration that writes, replaces and removes the files.  run.sh *)
(* runs under "set -e": a command that fails outside a condition ends it,  *)
(* and with it the container.                                              *)
(***************************************************************************)
EXTENDS ConfigFiles, RtspPaths

CONSTANTS Json,     \* Json[e][v]: what version v of entry e is written as; options
                    \* that are set back are written as before
          Legacy,   \* the path philips_avent_bridge.json
          HasOptions, \* /data/options.json exists, as it does under the Supervisor
          MaxStarts \* bound on the starts of the container

ASSUME AddonAssumption == Legacy \notin Entries /\ HasOptions \in BOOLEAN /\ MaxStarts \in Nat

\* An integration writes a file when it has an entry; no list outruns the numerals.
ASSUME JsonAssumption ==
  /\ Entries # {}
  /\ \A e \in Entries, v \in Versions :
       /\ Json[e][v].cameras \in Seq(Cameras)
       /\ Len(Json[e][v].cameras) <= Len(Numerals) + 2
       /\ Json[e][v] \notin {Absent, Half}

VARIABLES
  box,      \* "off", or where run.sh stands: "wait", "hash", "launch",
            \* "alive", "sleep", "reap"
  path,     \* CONFIG_PATH: an entry, Legacy or Absent
  hash,     \* CONFIG_HASH: the version that was hashed, Absent for ""; see Md5
  bridge,   \* "none", "load", "verify", "up", or how it ended: "ok" or "failed"
  served,   \* the version the bridge has loaded
  starts,
  told      \* the signal to stop has reached the run.sh that ended last

addonVars == <<box, path, hash, bridge, served, starts, told>>
vars == <<haVars, fileVars, addonVars>>

Content(p) == IF p = Legacy THEN IF legacy THEN 0 ELSE Absent ELSE files[p]

\* What is written, and what its hash tells apart: a version from another only if
\* they are written differently.
JsonIn(p, v) == IF p = Legacy THEN Json[CHOOSE e \in Entries : TRUE][0] ELSE Json[p][v]
Md5(p, x) == IF x \in {Absent, Half} THEN x ELSE JsonIn(p, x)

TypeOK ==
  /\ FilesOK
  /\ box \in {"off", "wait", "hash", "launch", "alive", "sleep", "reap"}
  /\ path \in Entries \cup {Legacy, Absent}
  /\ hash \in Versions \cup {Absent, Half}
  /\ bridge \in {"none", "load", "verify", "up", "ok", "failed"}
  /\ served \in Versions \cup {Absent} /\ starts \in 0..MaxStarts /\ told \in BOOLEAN
  /\ bridge # "none" => box \in {"alive", "sleep", "reap"} /\ path # Absent

Init ==
  /\ FilesInit
  /\ box = "off" /\ path = Absent /\ hash = Absent
  /\ bridge = "none" /\ served = Absent /\ starts = 0 /\ told = TRUE

-----------------------------------------------------------------------------
(* run.sh *)

\* ls -1t | head -1, then the legacy name
Finds(p) == IF recent # <<>> THEN p = recent[Len(recent)] ELSE legacy /\ p = Legacy

Off == /\ box' = "off" /\ path' = Absent /\ hash' = Absent
       /\ bridge' = "none" /\ served' = Absent

StartContainer ==
  /\ box = "off" /\ starts < MaxStarts /\ starts' = starts + 1 /\ box' = "wait"
  /\ told' = FALSE
  /\ UNCHANGED <<haVars, fileVars, path, hash, bridge, served>>

\* The signal reaches run.sh, which stops the bridge and leaves.
StopContainer ==
  /\ box # "off" /\ Off /\ told' = TRUE /\ UNCHANGED <<haVars, fileVars, starts>>

PickConfig ==
  /\ box = "wait" /\ box' = "hash"
  /\ \E p \in Entries \cup {Legacy} : Finds(p) /\ path' = p
  /\ UNCHANGED <<haVars, fileVars, hash, bridge, served, starts, told>>

\* The options end the wait as well, but then the assignment of a command that fails
\* ends run.sh before it tries them.
PickFails ==
  /\ box = "wait" /\ recent = <<>> /\ ~legacy /\ HasOptions /\ Off
  /\ UNCHANGED <<haVars, fileVars, starts, told>>

HashConfig ==
  /\ box = "hash" /\ hash' = Content(path) /\ box' = "launch"
  /\ UNCHANGED <<haVars, fileVars, path, bridge, served, starts, told>>

Launch ==
  /\ box = "launch" /\ bridge' = "load" /\ box' = "alive"
  /\ UNCHANGED <<haVars, fileVars, path, hash, served, starts, told>>

Ended == bridge \in {"ok", "failed"}

\* kill -0
CheckAlive ==
  /\ box = "alive" /\ box' = IF Ended THEN "reap" ELSE "sleep"
  /\ UNCHANGED <<haVars, fileVars, path, hash, bridge, served, starts, told>>

ChangedIfNewest(new) == new # Absent /\ Md5(path, new) # Md5(path, hash) /\ Finds(path)

Changed(new) == new # Absent /\ Md5(path, new) # Md5(path, hash)

Unchanged ==
  /\ box = "sleep" /\ ~Changed(Content(path)) /\ box' = "alive"
  /\ UNCHANGED <<haVars, fileVars, path, hash, bridge, served, starts, told>>

\* A bridge that is up has its signal handler installed and ends well; one that is
\* still starting is killed.
KillBridge ==
  /\ box = "sleep" /\ Changed(Content(path)) /\ ~Ended /\ box' = "reap"
  /\ bridge' = IF bridge = "up" THEN "ok" ELSE "failed"
  /\ UNCHANGED <<haVars, fileVars, path, hash, served, starts, told>>

\* kill fails when the bridge has ended meanwhile, wait when it ended badly.
ExitOnError ==
  /\ \/ box = "sleep" /\ Changed(Content(path)) /\ Ended
     \/ box = "reap" /\ bridge = "failed"
  /\ Off /\ UNCHANGED <<haVars, fileVars, starts, told>>

Relaunch ==
  /\ box = "reap" /\ bridge = "ok" /\ box' = "hash"
  /\ bridge' = "none" /\ served' = Absent
  /\ UNCHANGED <<haVars, fileVars, path, hash, starts, told>>

-----------------------------------------------------------------------------
(* cmd/addon *)

CamsIn(p, v) == JsonIn(p, v).cameras

\* loadConfig fails on a file that is gone or truncated; validateConfig asks for a
\* camera, and so does the check of what assignPaths leaves.
Loads == /\ Content(path) \notin {Absent, Half}
         /\ AssignPaths(CamsIn(path, Content(path))) # <<>>

LoadConfig ==
  /\ bridge = "load" /\ Loads
  /\ bridge' = "verify" /\ served' = Content(path)
  /\ UNCHANGED <<haVars, fileVars, box, path, hash, starts, told>>

LoadFails ==
  /\ bridge = "load" /\ ~Loads /\ bridge' = "failed"
  /\ UNCHANGED <<haVars, fileVars, box, path, hash, served, starts, told>>

\* The cloud accepts the session; then the cameras are served.
Serve ==
  /\ bridge = "verify" /\ bridge' = "up"
  /\ UNCHANGED <<haVars, fileVars, box, path, hash, served, starts, told>>

\* The cloud refuses the session or cannot be reached; the bridge crashes.
BridgeFails ==
  /\ bridge \in {"verify", "up"} /\ bridge' = "failed"
  /\ UNCHANGED <<haVars, fileVars, box, path, hash, served, starts, told>>

Addon == \/ PickConfig \/ PickFails \/ HashConfig \/ Launch \/ CheckAlive
         \/ Unchanged \/ KillBridge \/ ExitOnError \/ Relaunch
         \/ LoadConfig \/ LoadFails \/ Serve

Next ==
  \/ HomeAssistant /\ UNCHANGED addonVars
  \/ Addon \/ StartContainer \/ StopContainer \/ BridgeFails

Spec == Init /\ [][Next]_vars

-----------------------------------------------------------------------------
(* The bridge serves every camera that has an id, once and under a path of *)
(* its own, whatever their names and ids; a camera is off the plain path   *)
(* only if an earlier one has that.  This is the bridge's side: see        *)
(* UrlsMatch for that of Home Assistant.                                   *)
OneCameraPerPath ==
  bridge = "up" => LET cams == CamsIn(path, served) IN
                   EachOnItsPath(cams, Len(cams), AssignPaths(cams))

(* const.py:139, the two helpers "determine whether the integration's RTSP *)
(* URL matches the path the bridge serves": the URL of a camera in Home    *)
(* Assistant, always the plain path (camera.py:56), leads to that camera.  *)
UrlsMatch ==
  bridge = "up" => LET cams == CamsIn(path, served) routes == AssignPaths(cams) IN
    \A k \in DOMAIN cams, i \in DOMAIN routes :
      Sanitized(cams[k]) = routes[i].path => cams[k].id = routes[i].id

\* The bridge runs on something else than its file has.
Behind ==
  /\ bridge = "up" /\ box \in {"alive", "sleep"}
  /\ Content(path) \notin {Absent, Half}
  /\ JsonIn(path, Content(path)) # JsonIn(path, served)

\* A change came between the hash and the reading of the file, and another after it.
SetBack == hash < served /\ served < Content(path)

(* A bridge that is behind its file is going to be replaced: no single     *)
(* change is missed, also not one that comes between the hash, the start   *)
(* of the bridge and its reading of the file.  It takes one there and a    *)
(* second one that sets back what was hashed.                              *)
BehindIsNoticed == Behind => Changed(Content(path)) \/ SetBack

(* A bridge that is behind its file is always going to be replaced.        *)
AlwaysNoticed == Behind => Changed(Content(path))

(* run.sh:58, "Supervise the bridge here rather than exiting the           *)
(* container": where run.sh waits for a file (no options), it leaves only  *)
(* when it is told to.                                                     *)
StaysUp == box = "off" => told
=============================================================================
