----------------------------- MODULE StateFile -----------------------------
(***************************************************************************)
(* One state file of the daemon (sessions.json, peers.json,                *)
(* daemon_state.json, jobs.json): every change is made in memory and the   *)
(* whole store is then saved, under the store's lock, by                   *)
(* save_text_file_private.  The daemon may end, and a step of the save may *)
(* fail, at every point.  A store is known by the number of changes in it; *)
(* version 0 is the default, an absent file.                               *)
(***************************************************************************)
EXTENDS Integers

CONSTANTS Windows,      \* replace_file removes the target before the rename
          Quarantines,  \* load_store, as opposed to JobRegistry::load
          MayDamage,    \* the file may be damaged from outside, once
          MaxVersion, MaxCrashes

ASSUME FlagsAssumption == Windows \in BOOLEAN /\ Quarantines \in BOOLEAN /\ MayDamage \in BOOLEAN
ASSUME BoundsAssumption == MaxVersion \in Nat /\ MaxCrashes \in Nat

Corrupt == -1   \* a file that does not parse

PCs == {"down", "idle", "create", "write", "replace", "rename"}

VARIABLES pc,       \* where the daemon is; "down": not started
          mem,      \* the version in memory
          file,     \* the version in the file, or Corrupt
          acked,    \* the last version whose save was reported as done
          damage,   \* to the file: "none", "done", or "kept" (set aside)
          crashes

vars == <<pc, mem, file, acked, damage, crashes>>

TypeOK ==
  /\ pc \in PCs /\ mem \in Nat /\ file \in Nat \cup {Corrupt} /\ acked \in Nat
  /\ damage \in {"none", "done", "kept"} /\ crashes \in Nat

Init ==
  /\ pc = "down" /\ mem = 0 /\ file = 0 /\ acked = 0
  /\ damage = "none" /\ crashes = 0

(* A slip: the daemon starts with the default store.                       *)
LoadForgets ==
  /\ pc = "down"
  /\ pc' = "idle" /\ mem' = 0
  /\ IF file = Corrupt THEN file' = 0 /\ damage' = "kept" ELSE UNCHANGED <<file, damage>>
  /\ UNCHANGED <<acked, crashes>>

(* The daemon starts and loads the store.  A file that does not parse is   *)
(* set aside by load_store; the daemon does not start if that fails.       *)
Load ==
  /\ pc = "down"
  /\ \/ /\ file # Corrupt
        /\ pc' = "idle" /\ mem' = file
        /\ UNCHANGED <<file, damage>>
     \/ /\ file = Corrupt
        /\ pc' = "idle" /\ mem' = 0
        /\ IF Quarantines THEN file' = 0 /\ damage' = "kept" ELSE UNCHANGED <<file, damage>>
  /\ UNCHANGED <<acked, crashes>>

(* A change of the store.                                                  *)
Update ==
  /\ pc = "idle" /\ mem < MaxVersion
  /\ mem' = mem + 1
  /\ pc' = "create"
  /\ UNCHANGED <<file, acked, damage, crashes>>

(* The temporary file is created under a name of its own, then written and *)
(* synced.                                                                 *)
CreateTemp ==
  /\ pc = "create"
  /\ pc' = "write"
  /\ UNCHANGED <<mem, file, acked, damage, crashes>>

(* A slip: the text is written to the file itself.                         *)
WriteInPlace ==
  /\ pc = "write"
  /\ pc' = "replace"
  /\ file' = Corrupt
  /\ UNCHANGED <<mem, acked, damage, crashes>>

WriteTemp ==
  /\ pc = "write"
  /\ pc' = "replace"
  /\ UNCHANGED <<mem, file, acked, damage, crashes>>

(* replace_file.                                                           *)
RemoveTarget ==
  /\ pc = "replace"
  /\ pc' = "rename"
  /\ file' = IF Windows THEN 0 ELSE file
  /\ UNCHANGED <<mem, acked, damage, crashes>>

Rename ==
  /\ pc = "rename"
  /\ pc' = "idle"
  /\ file' = mem
  /\ acked' \in {mem, acked}     \* setting the permissions may fail
  /\ UNCHANGED <<mem, damage, crashes>>

(* A step of the save fails: an error to the caller, who keeps the change  *)
(* in memory.                                                              *)
SaveFails ==
  /\ pc \in {"create", "write", "replace", "rename"}
  /\ pc' = "idle"
  /\ UNCHANGED <<mem, file, acked, damage, crashes>>

(* The daemon ends; its memory is gone.                                    *)
Crash ==
  /\ pc # "down" /\ crashes < MaxCrashes
  /\ pc' = "down" /\ mem' = 0 /\ crashes' = crashes + 1
  /\ UNCHANGED <<file, acked, damage>>

(* External: the file is damaged while the daemon is down.                 *)
Damage ==
  /\ MayDamage /\ damage = "none" /\ pc = "down" /\ file # 0
  /\ file' = Corrupt /\ damage' = "done" /\ acked' = 0
  /\ UNCHANGED <<pc, mem, crashes>>

Next ==
  \/ Load \/ Update \/ CreateTemp \/ WriteTemp \/ RemoveTarget \/ Rename
  \/ SaveFails \/ Crash \/ Damage

Spec == Init /\ [][Next]_vars

-----------------------------------------------------------------------------
(* A save that was reported as done is never lost: the file holds that     *)
(* version or a later one, through every crash and failing save.           *)
Durable == (file \in Nat /\ file >= acked) \/ (damage = "done" /\ file = Corrupt)

(* load_store sets a damaged file aside before anything can replace it.    *)
CorruptKept == damage = "done" => file = Corrupt

(* Nothing that was in the file is lost: neither a save reported as done,  *)
(* nor a file that was damaged and is yet to be set aside.                 *)
NothingIsLost == Durable /\ CorruptKept

(* Readers of the file see complete versions that only advance; nothing    *)
(* but the damage from outside makes a file that does not parse.           *)
Cell == INSTANCE StateCell WITH cell <- file, damaged <- damage # "none"

(* The file implements the atomic cell.                                    *)
ImplementsCell == Cell!Spec

=============================================================================
