----------------------------- MODULE SelfUpdate -----------------------------
(***************************************************************************)
(* The daemon replaces its own binary: daemon_update stages the new one,   *)
(* writes and launches a switch script, and records that it waits for the  *)
(* restart; the script, a process of its own, backs the binary up, stops   *)
(* the service, copies the staged binary and starts the service, or puts   *)
(* the backup back; the daemon that starts records the outcome.  All       *)
(* requests are for the same staged binary, so that they share the files.  *)
(***************************************************************************)
EXTENDS Naturals, FiniteSets

CONSTANTS Requests,     \* concurrent daemon_update requests
          Hosts,        \* where the daemon may run, of
                        \* {"systemd", "user", "launchd", "windows"}
          MaxFails,     \* how many operations fail
          MaxCrashes    \* how often the daemon ends by itself

Binaries == {"old", "new", "torn"}
Updates  == {"idle", "pending", "staged", "failed", "restart_daemon", "healthy"}
Jobs     == {"none", "running", "waiting_retry", "healthy", "failed"}

RequestPCs == {"idle", "queue", "stage", "verify", "staged", "prepare", "switch", "launch",
               "restart", "wait", "fail", "fail_job", "answered"}
ScriptPCs  == {"none", "backup", "stop", "copy", "rollback", "start", "done"}

VARIABLES host,             \* one of Hosts
          upd, updFile,     \* daemon_state.json: update_state and update.state
          job, jobFile,     \* the job self-update:pending
          exe, backup,      \* the files of the service's binary and its backup
          run,              \* the binary that runs, or "down"
          boot,             \* start-up: "started", "reconcile", "up"
          wanted,           \* the service manager is to keep the service up
          ignored,          \* it did not do, or not in time, what the script asked
          req, script, fails, crashes

store == <<upd, updFile, job, jobFile>>
files == <<exe, backup>>
vars  == <<host, store, files, run, boot, wanted, ignored, req, script, fails, crashes>>

Update == [state : Updates, detail : Updates]

TypeOK ==
  /\ host \in Hosts
  /\ upd \in Update /\ updFile \in Update /\ job \in Jobs /\ jobFile \in Jobs
  /\ exe \in Binaries /\ backup \in Binaries \cup {"none"}
  /\ run \in {"old", "new", "down"} /\ boot \in {"started", "reconcile", "up"}
  /\ wanted \in BOOLEAN /\ ignored \in BOOLEAN
  /\ req \in [Requests -> RequestPCs] /\ script \in [Requests -> ScriptPCs]
  /\ fails \in 0..MaxFails /\ crashes \in 0..MaxCrashes

Idle == [state |-> "idle", detail |-> "idle"]

Init ==
  /\ host \in Hosts
  /\ upd = Idle /\ updFile = Idle /\ job = "none" /\ jobFile = "none"
  /\ exe = "old" /\ backup = "none" /\ run = "old" /\ boot = "up"
  /\ wanted = TRUE /\ ignored = FALSE
  /\ req = [r \in Requests |-> "idle"] /\ script = [r \in Requests |-> "none"]
  /\ fails = 0 /\ crashes = 0

(* Windows has a PowerShell script, the others a shell script.  It asks    *)
(* systemctl for the service of the system: it does not reach a unit of    *)
(* the user, and launchd has no systemctl.  systemd and launchd start a    *)
(* daemon that has ended again, and end what it has spawned with it; the   *)
(* Windows service is installed without recovery actions.                  *)
Windows     == host = "windows"
Reaches     == host \in {"systemd", "windows"}
KillsScript == ~Windows

Works == UNCHANGED fails
Fails == fails < MaxFails /\ fails' = fails + 1

-----------------------------------------------------------------------------
(* The stores: changed in memory, then saved; the caller goes on only if   *)
(* the save worked.                                                        *)
Goes(r, pc) == req' = [req EXCEPT ![r] = pc]

record_update(r, s, pc) ==
  /\ upd' = [state |-> s, detail |-> s]
  /\ \/ Works /\ updFile' = upd' /\ Goes(r, pc)
     \/ Fails /\ updFile' = updFile /\ Goes(r, "answered")
  /\ UNCHANGED <<job, jobFile>>

record_job(r, j, pc) ==
  /\ job' = j
  /\ \/ Works /\ jobFile' = j /\ Goes(r, pc)
     \/ Fails /\ jobFile' = jobFile /\ Goes(r, "answered")
  /\ UNCHANGED <<upd, updFile>>

(* An operation on files: it works or it does not.                         *)
Operation(r, pc) ==
  /\ \/ Works /\ Goes(r, pc)
     \/ Fails /\ Goes(r, "fail")
  /\ UNCHANGED store

(* The script is spawned; it begins with a pause of about a second.        *)
launch_update_switch(r) ==
  \/ /\ Works /\ Goes(r, "restart")
     /\ script' = [script EXCEPT ![r] = "backup"]
  \/ /\ Fails /\ Goes(r, "fail")
     /\ UNCHANGED script

(* daemon_update.                                                          *)
RequestStep(r) ==
  /\ run # "down"
  /\ \/ req[r] = "idle"    /\ record_update(r, "pending", "queue") /\ UNCHANGED script
     \/ req[r] = "queue"   /\ record_job(r, "running", "stage") /\ UNCHANGED script
     \/ req[r] = "stage"   /\ Operation(r, "verify") /\ UNCHANGED script
     \/ req[r] = "verify"  /\ record_job(r, "running", "staged") /\ UNCHANGED script
     \/ req[r] = "staged"  /\ record_update(r, "staged", "prepare") /\ UNCHANGED script
     \/ req[r] = "prepare" /\ Operation(r, "switch") /\ UNCHANGED script
     \/ req[r] = "switch"  /\ record_job(r, "running", "launch") /\ UNCHANGED script
     \/ req[r] = "launch"  /\ launch_update_switch(r) /\ UNCHANGED store
     \/ req[r] = "restart" /\ record_update(r, "restart_daemon", "wait") /\ UNCHANGED script
     \/ req[r] = "wait"    /\ record_job(r, "waiting_retry", "answered") /\ UNCHANGED script
     \/ req[r] = "fail"    /\ record_update(r, "failed", "fail_job") /\ UNCHANGED script
     \/ req[r] = "fail_job" /\ record_job(r, "failed", "answered") /\ UNCHANGED script
  /\ UNCHANGED <<host, files, run, boot, wanted, ignored, crashes>>

-----------------------------------------------------------------------------
(* The switch script.                                                      *)
At(r, pc)        == script[r] = pc
ScriptGoes(r, pc) == script' = [script EXCEPT ![r] = pc]

(* Linux and Windows refuse a copy onto a binary that runs, macOS does     *)
(* not; a copy that breaks off leaves a part of the file.                  *)
InUse == run # "down" /\ host # "launchd"
CopyTo(binary) == ~InUse /\ Works /\ exe' = binary
CopyFails == \/ InUse /\ Works /\ exe' = exe
             \/ ~InUse /\ Fails /\ exe' \in {exe, "torn"}

(* Under set -e a backup that fails ends the shell script; PowerShell      *)
(* jumps to the catch block.                                               *)
BackUp(r) ==
  /\ At(r, "backup")
  /\ \/ Works /\ backup' = exe /\ ScriptGoes(r, "stop")
     \/ Fails /\ UNCHANGED backup /\ ScriptGoes(r, IF Windows THEN "rollback" ELSE "done")
  /\ UNCHANGED <<store, exe, run, boot, wanted, ignored, req, crashes>>

(* The daemon's requests end with it; its memory is gone.                  *)
Ended == [r \in Requests |-> IF req[r] = "idle" THEN "idle" ELSE "answered"]

(* systemd ends all processes of the service's control group, the scripts  *)
(* included, as the installed unit sets no KillMode; launchd those of its  *)
(* process group.                                                          *)
Orphans ==
  [r \in Requests |-> IF KillsScript /\ script[r] # "none" THEN "done" ELSE script[r]]

(* systemctl returns when the service has stopped, and the script ends     *)
(* with it; sc.exe asks for the stop, and the script goes on after two     *)
(* seconds.  A stop that fails is ignored.                                 *)
Stop(r) ==
  /\ At(r, "stop")
  /\ \/ ~Reaches /\ Works /\ ScriptGoes(r, "copy") /\ UNCHANGED <<run, wanted, ignored, req>>
     \/ /\ host = "systemd" /\ Works
        /\ run' = "down" /\ wanted' = FALSE /\ req' = Ended /\ script' = Orphans
        /\ UNCHANGED ignored
     \/ /\ Windows /\ Works
        /\ wanted' = FALSE /\ ScriptGoes(r, "copy")
        /\ UNCHANGED <<run, ignored, req>>
     \/ /\ Reaches /\ Fails /\ ignored' = TRUE /\ ScriptGoes(r, "copy")
        /\ UNCHANGED <<run, wanted, req>>
  /\ UNCHANGED <<store, files, boot, crashes>>

(* The Windows service has been told to stop, and has not yet.             *)
Stopping == Windows /\ run # "down" /\ ~wanted

ServiceStops ==
  /\ Stopping
  /\ run' = "down" /\ req' = Ended
  /\ UNCHANGED <<host, store, files, boot, wanted, ignored, script, fails, crashes>>

Copy(r) ==
  /\ At(r, "copy")
  /\ \/ CopyTo("new") /\ ScriptGoes(r, "start")
     \/ CopyFails /\ ScriptGoes(r, "rollback")
  /\ ignored' = (ignored \/ Stopping)
  /\ UNCHANGED <<store, backup, run, boot, wanted, req, crashes>>

(* A slip: a failing copy starts the service again without the backup.     *)
RollbackSkipped(r) ==
  /\ At(r, "rollback")
  /\ ScriptGoes(r, "start")
  /\ UNCHANGED <<store, files, run, boot, wanted, ignored, req, fails, crashes>>

(* In PowerShell a restore that fails leaves the catch block.              *)
Rollback(r) ==
  /\ At(r, "rollback")
  /\ \/ backup = "none" /\ Works /\ UNCHANGED exe /\ ScriptGoes(r, "start")
     \/ backup # "none" /\ CopyTo(backup) /\ ScriptGoes(r, "start")
     \/ backup # "none" /\ CopyFails /\ ScriptGoes(r, IF Windows THEN "done" ELSE "start")
  /\ UNCHANGED <<store, backup, run, boot, wanted, ignored, req, crashes>>

(* A start that fails is ignored; a service that is being stopped cannot   *)
(* be started.                                                             *)
ServiceStart(r) ==
  /\ At(r, "start")
  /\ \/ Reaches /\ ~Stopping /\ Works /\ wanted' = TRUE /\ UNCHANGED ignored
     \/ ~Reaches /\ Works /\ UNCHANGED <<wanted, ignored>>
     \/ Reaches /\ (IF Stopping THEN Works ELSE Fails) /\ ignored' = TRUE /\ UNCHANGED wanted
  /\ ScriptGoes(r, "done")
  /\ UNCHANGED <<store, files, run, boot, req, crashes>>

ScriptStep(r) ==
  /\ BackUp(r) \/ Stop(r) \/ Copy(r) \/ Rollback(r) \/ ServiceStart(r)
  /\ UNCHANGED host

-----------------------------------------------------------------------------
(* External: the service manager starts the daemon, if its binary runs.    *)
Boot ==
  /\ run = "down" /\ wanted /\ exe # "torn"
  /\ run' = exe /\ boot' = "started"
  /\ upd' = updFile /\ job' = jobFile
  /\ UNCHANGED <<host, updFile, jobFile, files, wanted, ignored, req, script, fails, crashes>>

(* The daemon ends by itself.                                              *)
Ends == run' = "down" /\ req' = Ended /\ script' = Orphans /\ wanted' = (wanted /\ ~Windows)

(* run_daemon_inner returns when a save of the start-up fails.             *)
StartUpGoes(pc) == Works /\ boot' = pc /\ UNCHANGED <<run, req, script, wanted>>
StartUpFails == Fails /\ Ends /\ UNCHANGED boot

(* A slip: what was recorded before the restart is not looked at.          *)
RecordStartedIdle ==
  /\ run # "down" /\ boot = "started"
  /\ upd' = [upd EXCEPT !.state = "idle"]
  /\ \/ StartUpGoes("reconcile") /\ updFile' = upd'
     \/ StartUpFails /\ UNCHANGED updFile
  /\ UNCHANGED <<host, job, jobFile, files, ignored, crashes>>

(* record_daemon_started; requests are already served.                     *)
RecordStarted ==
  /\ run # "down" /\ boot = "started"
  /\ upd' = IF upd.state = "restart_daemon" THEN [state |-> "healthy", detail |-> "healthy"]
            ELSE [upd EXCEPT !.state = "idle"]
  /\ \/ StartUpGoes("reconcile") /\ updFile' = upd'
     \/ StartUpFails /\ UNCHANGED updFile
  /\ UNCHANGED <<host, job, jobFile, files, ignored, crashes>>

(* reconcile_daemon_update_job.                                            *)
ReconcileUpdate ==
  /\ run # "down" /\ boot = "reconcile"
  /\ IF "healthy" \in {upd.state, upd.detail} /\ job \in {"running", "waiting_retry"}
     THEN /\ job' = "healthy"
          /\ \/ StartUpGoes("up") /\ jobFile' = job'
             \/ StartUpFails /\ UNCHANGED jobFile
     ELSE StartUpGoes("up") /\ UNCHANGED <<job, jobFile>>
  /\ UNCHANGED <<host, upd, updFile, files, ignored, crashes>>

Crash ==
  /\ run # "down" /\ crashes < MaxCrashes
  /\ Ends /\ crashes' = crashes + 1
  /\ UNCHANGED <<host, store, files, boot, ignored, fails>>

Next ==
  \/ \E r \in Requests : RequestStep(r) \/ ScriptStep(r)
  \/ ServiceStops \/ Boot \/ RecordStarted \/ ReconcileUpdate \/ Crash

Spec == Init /\ [][Next]_vars

(* Requests, scripts, the service manager (a stop it was asked for         *)
(* included) and start-up go on.  (A request                               *)
(* is made or not: its first step is not fair.)                            *)
Fairness ==
  /\ \A r \in Requests : WF_vars(req[r] # "idle" /\ RequestStep(r)) /\ WF_vars(ScriptStep(r))
  /\ WF_vars(ServiceStops) /\ WF_vars(Boot) /\ WF_vars(RecordStarted) /\ WF_vars(ReconcileUpdate)

FairSpec == Spec /\ Fairness

-----------------------------------------------------------------------------
Switched == \A r \in Requests : script[r] \in {"none", "done"}

(* One operation that fails does not leave the service with a broken       *)
(* binary: once the scripts have ended, the binary is the old one or the   *)
(* new one, in full (if that is all that goes wrong: the service stopped   *)
(* in time, and the script did not end with the daemon).                   *)
BinaryComplete ==
  Switched /\ ~ignored /\ (KillsScript => crashes = 0) => exe # "torn"

(* A daemon is down and is to come back: on Windows by the script that is  *)
(* still at work, whether its copy works or not; elsewhere by the service  *)
(* manager, if it was not told to stop it (as under the systemd unit,      *)
(* whose stop ends the script as well) and the binary is complete.         *)
ToReturn ==
  /\ run = "down" /\ ~ignored
  /\ IF Windows THEN \E r \in Requests : script[r] \in {"copy", "rollback", "start"}
     ELSE wanted /\ exe # "torn"

(* It is up again, or what the script asked the service manager for was    *)
(* not done in time, which the script does not notice.                     *)
Returned == run # "down" \/ ignored

Quiet ==
  /\ Switched /\ run # "down" /\ boot = "up"
  /\ \A r \in Requests : req[r] \in {"idle", "answered"}

(* On Windows an update that is recorded as healthy put the new binary in  *)
(* place, if no operation failed and the service stopped in time: the      *)
(* daemon that starts takes the restart it waited for as the success of    *)
(* the script, whichever binary it runs.                                   *)
HealthyMeansNew ==
  Quiet /\ job = "healthy" /\ fails = 0 /\ ~ignored /\ Windows => exe = "new"

(* An update waits for the restart, and is to come to its end, unless an   *)
(* operation fails, the service does not stop in time or the daemon ends   *)
(* by itself.  Elsewhere than on Windows nothing restarts the daemon.      *)
Undisturbed == Windows /\ fails = 0 /\ crashes = 0 /\ ~ignored
Waits == job = "waiting_retry" /\ Undisturbed
WaitIsOver == job \in {"healthy", "failed"} \/ ~Undisturbed

=============================================================================
