----------------------------- MODULE ConfigFiles -----------------------------
(***************************************************************************)
(* The bridge configuration files that the integration keeps in the        *)
(* configuration directory of Home Assistant (__init__.py, payload.py),    *)
(* one per config entry.  Setup of an entry builds its configuration in    *)
(* the event loop and works on the files in executor threads, so that two  *)
(* entries, the removal of a third and a crash come between any two of     *)
(* its steps.  Home Assistant and its list of entries are external.        *)
(***************************************************************************)
EXTENDS Integers, Sequences, FiniteSets

CONSTANTS Entries,    \* every entry id ever minted
          MaxVersion, \* bound on the changes of one entry's data and options
          Changing,   \* bound: the entries that change
          MaxCrashes, \* bound on the restarts of Home Assistant
          Absent, Half \* no such file; a file that was truncated and not yet written

ASSUME FilesAssumption ==
  /\ MaxVersion \in Nat /\ MaxCrashes \in Nat
  /\ Absent \notin Nat \cup {Half} /\ Half \notin Nat

VARIABLES
  st,       \* st[e]: where entry e stands; see Steps
  version,  \* version[e]: how often its data and options have changed; a later
            \* version may say the same as an earlier one
  built,    \* built[e]: the version in the configuration being written
  valid,    \* valid[e]: the entries listed for the pruning that e does
  files,    \* files[e]: the version in e's file
  recent,   \* the files there are, the most recently written last
  legacy,   \* philips_avent_bridge.json exists
  used,     \* ids that were minted
  crashes,
  undeleted \* the files that a deletion was refused for and that are still there

haVars == <<st, version, built, valid, used, crashes>>
fileVars == <<files, recent, legacy, undeleted>>

Versions == 0..MaxVersion
Steps == {"absent", "created", "write", "half", "written", "prune", "loaded",
          "unlink"}
Live == {e \in Entries : st[e] # "absent"}

FilesOK ==
  /\ st \in [Entries -> Steps] /\ version \in [Entries -> Versions]
  /\ built \in [Entries -> Versions] /\ valid \in [Entries -> SUBSET Entries]
  /\ files \in [Entries -> Versions \cup {Absent, Half}]
  /\ recent \in Seq(Entries) /\ Len(recent) <= Cardinality(Entries)
  /\ \A e \in Entries : files[e] # Absent <=> \E i \in DOMAIN recent : recent[i] = e
  /\ legacy \in BOOLEAN /\ undeleted \subseteq Entries
  /\ used \subseteq Entries /\ crashes \in 0..MaxCrashes

\* Releases before the pruning left files of entries that are gone.
FilesInit ==
  /\ st = [e \in Entries |-> "absent"] /\ version = [e \in Entries |-> 0]
  /\ built = [e \in Entries |-> 0] /\ valid = [e \in Entries |-> {}]
  /\ used \in SUBSET Entries /\ legacy \in BOOLEAN
  /\ files = [e \in Entries |-> IF e \in used THEN 0 ELSE Absent]
  /\ recent \in [1..Cardinality(used) -> used]
  /\ \A e \in used : \E i \in DOMAIN recent : recent[i] = e
  /\ crashes = 0 /\ undeleted = {}

Go(e, step) == st' = [st EXCEPT ![e] = step]
Without(S) == SelectSeq(recent, LAMBDA f : f \notin S)

-----------------------------------------------------------------------------
(* Home Assistant: entries come, change and go.  It keeps the list of them *)
(* over a crash, after which it sets all of them up.                       *)

AddEntry(e) ==
  /\ e \notin used /\ used' = used \cup {e} /\ Go(e, "created")
  /\ UNCHANGED <<version, built, valid, crashes, fileVars>>

Crash ==
  /\ crashes < MaxCrashes /\ crashes' = crashes + 1
  /\ st' = [e \in Entries |-> IF e \in Live THEN "created" ELSE "absent"]
  /\ valid' = [e \in Entries |-> {}] /\ built' = [e \in Entries |-> 0]
  /\ UNCHANGED <<version, used, fileVars>>

\* A change of a loaded entry reloads it (_async_options_updated); the listener
\* is there only when the setup is over.
ChangeEntry(e) ==
  /\ e \in Live \cap Changing /\ st[e] # "unlink" /\ version[e] < MaxVersion
  /\ version' = [version EXCEPT ![e] = @ + 1]
  /\ IF st[e] = "loaded" THEN Go(e, "created") ELSE UNCHANGED st
  /\ UNCHANGED <<built, valid, used, crashes, fileVars>>

-----------------------------------------------------------------------------
(* async_setup_entry *)

\* Cameras are known and every first refresh went well: the configuration is built.
SetupEntry(e) ==
  /\ st[e] = "created" /\ Go(e, "write") /\ built' = [built EXCEPT ![e] = version[e]]
  /\ UNCHANGED <<version, valid, used, crashes, fileVars>>

\* Path.write_text truncates the file, then writes it.
OpenFile(e) ==
  /\ st[e] = "write" /\ Go(e, "half")
  /\ files' = [files EXCEPT ![e] = Half] /\ recent' = Append(Without({e}), e)
  /\ UNCHANGED <<version, built, valid, used, crashes, legacy, undeleted>>

WriteFile(e) ==
  /\ st[e] = "half" /\ Go(e, "written")
  /\ files' = [files EXCEPT ![e] = built[e]] /\ recent' = Append(Without({e}), e)
  /\ built' = [built EXCEPT ![e] = 0]
  /\ UNCHANGED <<version, valid, used, crashes, legacy, undeleted>>

\* An error of the file system ends the setup.
SetupFails(e) ==
  /\ st[e] \in {"half", "written"} /\ Go(e, "created")
  /\ built' = [built EXCEPT ![e] = 0]
  /\ UNCHANGED <<version, valid, used, crashes, fileVars>>

\* The legacy file goes, and what is listed then counts when the pruning runs.
ListEntries(e) ==
  /\ st[e] = "written" /\ Go(e, "prune")
  /\ legacy' = FALSE /\ valid' = [valid EXCEPT ![e] = Live]
  /\ UNCHANGED <<version, built, used, crashes, files, recent, undeleted>>

OwnOnly(e) == {}

\* orphan_bridge_configs
Orphans(e) == {f \in Entries : files[f] # Absent} \ valid[e]

\* _prune; a file that cannot be deleted is logged and left.
Prune(e) ==
  /\ st[e] = "prune" /\ Go(e, "loaded") /\ valid' = [valid EXCEPT ![e] = {}]
  /\ \E kept \in SUBSET Orphans(e) :
       /\ files' = [f \in Entries |-> IF f \in Orphans(e) \ kept THEN Absent ELSE files[f]]
       /\ recent' = Without(Orphans(e) \ kept)
       /\ undeleted' = (undeleted \ Orphans(e)) \cup kept
  /\ UNCHANGED <<version, built, used, crashes, legacy>>

-----------------------------------------------------------------------------
(* async_unload_entry, and async_remove_entry with the entry still listed. *)

UnloadEntry(e) ==
  /\ st[e] \in {"created", "loaded"} /\ Go(e, "unlink")
  /\ UNCHANGED <<version, built, valid, used, crashes, fileVars>>

RemoveEntry(e) ==
  /\ st[e] = "unlink" /\ Go(e, "absent")
  /\ \/ files' = [files EXCEPT ![e] = Absent] /\ recent' = Without({e})
        /\ undeleted' = undeleted \ {e}
     \/ files[e] # Absent /\ undeleted' = undeleted \cup {e} /\ UNCHANGED <<files, recent>>
  /\ UNCHANGED <<version, built, valid, used, crashes, legacy>>

HomeAssistant ==
  \/ Crash
  \/ \E e \in Entries :
       \/ AddEntry(e) \/ ChangeEntry(e) \/ SetupEntry(e) \/ OpenFile(e) \/ WriteFile(e)
       \/ SetupFails(e) \/ ListEntries(e) \/ Prune(e)
       \/ UnloadEntry(e) \/ RemoveEntry(e)

-----------------------------------------------------------------------------
(* Once every entry there is has been set up, whatever crashed, was        *)
(* removed or was added before, no file of an entry that is gone is left   *)
(* for the add-on to pick (#52), except one that the disk did not delete.  *)
SettledIsClean ==
  /\ Live # {} /\ \A e \in Live : st[e] = "loaded"
  => ~legacy /\ \A f \in Entries : files[f] # Absent => f \in Live \cup undeleted
=============================================================================
