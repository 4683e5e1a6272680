--------------------------- MODULE ServiceManager ---------------------------
(***************************************************************************)
(* The persistent daemon: the command that installs, repairs, removes,     *)
(* starts or stops it, on top of systemd, launchd, the Windows service     *)
(* control manager or the Windows task scheduler.                          *)
(*                                                                         *)
(* Definitions of the service are numbered by the command that wrote them. *)
(* `host` is the platform and the saved configuration (a version number).  *)
(* mgr[s] is the service of scope s: the definition in its file, the one   *)
(* the manager has loaded, whether the manager is to keep it running, and  *)
(* the definition its process was started from (0: none in each case).     *)
(* `cli` is the command under way.  Reports and messages are left out.     *)
(***************************************************************************)
EXTENDS Integers

CONSTANTS MaxCommands, MaxSaves, Faults

VARIABLES host, mgr, cli

serviceVars == <<host, mgr, cli>>

Scopes == {"system", "user"}
Platforms == {"linux", "macos", "windows"}

Idle == [pc |-> "idle", op |-> "none", scope |-> "user", admin |-> FALSE, elevate |-> FALSE, copy |-> FALSE,
         action |-> "none", gen |-> 0, snap |-> 0, base |-> 0, kept |-> FALSE, worker |-> FALSE,
         overtaken |-> FALSE, left |-> "none", result |-> "none"]

Torn == -1     \* a configuration file that was written in part
Contents == {Torn} \cup (0 .. MaxSaves)

Ops == {"none", "install", "ensure", "uninstall", "start", "stop"}

TypeOK ==
    /\ host \in [platform : Platforms, config : Contents, saves : 0 .. MaxSaves,
                 faults : 0 .. Faults]
    /\ mgr \in [Scopes -> [file : 0 .. MaxCommands, loaded : 0 .. MaxCommands, want : BOOLEAN,
                           proc : 0 .. MaxCommands, home : BOOLEAN]]
    /\ cli \in [pc : {"idle", "ask", "resolved", "save", "stage", "copy", "write", "load", "start",
                      "health", "undo", "remove", "control", "done"},
                op : Ops, scope : Scopes, admin : BOOLEAN, elevate : BOOLEAN, copy : BOOLEAN,
                action : {"none", "reuse", "start_or_repair", "install"},
                gen : 0 .. MaxCommands, snap : Contents,
                base : Contents, kept : BOOLEAN, worker : BOOLEAN, overtaken : BOOLEAN,
                left : {"none", "health", "restore"}, result : {"none", "ok", "failed"}]

NoService == [file |-> 0, loaded |-> 0, want |-> FALSE, proc |-> 0, home |-> FALSE]

Init ==
    /\ host \in [platform : Platforms, config : {0}, saves : {0}, faults : {0}]
    /\ mgr = [s \in Scopes |-> NoService]
    /\ cli = Idle

Manager(s) ==
    CASE host.platform = "linux" -> "systemd"
      [] host.platform = "macos" -> "launchd"
      [] host.platform = "windows" /\ s = "system" -> "scm"
      [] OTHER -> "schtasks"

-----------------------------------------------------------------------------
(* ServicePlan::new: the inventory is probed, a scope and an action chosen. *)

\* What the probe of a scope reports.  `systemctl show` prints an empty UnitFileState for a
\* unit it does not know, and any text but "not-found" counts as existing.
SystemdProbe(s) == [exists |-> TRUE, healthy |-> mgr[s].proc # 0]
LaunchdProbe(s) == [exists |-> mgr[s].loaded # 0 \/ mgr[s].file # 0, healthy |-> mgr[s].loaded # 0]
ScmProbe(s) == [exists |-> mgr[s].loaded # 0, healthy |-> mgr[s].proc # 0]
SchtasksProbe(s) == [exists |-> mgr[s].loaded # 0, healthy |-> mgr[s].proc # 0]

Probe(s) ==
    CASE Manager(s) = "systemd" -> SystemdProbe(s)
      [] Manager(s) = "launchd" -> LaunchdProbe(s)
      [] Manager(s) = "scm" -> ScmProbe(s)
      [] OTHER -> SchtasksProbe(s)

Exists(s) == Probe(s).exists
Healthy(s) == Probe(s).healthy

\* An explicit scope is taken as it is; otherwise the system service if one exists, then the
\* user's, then what the user may install.
select_scope(requested, admin) ==
    CASE requested # "auto" -> requested
      [] Exists("system") -> "system"
      [] Exists("user") -> "user"
      [] OTHER -> IF admin THEN "system" ELSE "user"

next_action(s) ==
    CASE Healthy(s) -> "reuse"
      [] Exists(s) /\ ~Healthy(s) -> "start_or_repair"
      [] OTHER -> "install"

\* A command is entered: its scope is resolved.  One that cannot read the configuration plans
\* from the defaults.
Enter(op, requested, admin, elevate, copy) ==
    /\ cli.pc = "idle"
    /\ cli.gen < MaxCommands
    /\ LET s == select_scope(requested, admin) IN
       cli' = [Idle EXCEPT !.pc = "resolved", !.op = op, !.scope = s, !.admin = admin,
                           !.elevate = elevate, !.copy = copy, !.action = next_action(s), !.gen = cli.gen + 1,
                           !.base = host.config]
    /\ UNCHANGED <<host, mgr>>

Finish(result) == cli' = [cli EXCEPT !.pc = "done", !.result = result]

\* The next command.
Again ==
    /\ cli.pc = "done"
    /\ cli' = [Idle EXCEPT !.gen = cli.gen]
    /\ UNCHANGED <<host, mgr>>

\* service_status_summary is ok when a daemon answers - any daemon, with any answer - or the
\* manager knows the service.
Answers == \E s \in Scopes : mgr[s].proc # 0

\* ensure_service, and install_or_repair_service up to the snapshot of the configuration.  A
\* daemon that does not answer in two seconds is taken for none.  On Windows a system install
\* or start that an ordinary user asks for with --elevate is left to an elevated worker.
LeftToWorker == Manager(cli.scope) = "scm" /\ cli.elevate /\ ~cli.admin

Dispatch ==
    /\ cli.pc = "resolved"
    /\ \/ /\ cli.op = "ensure"
          /\ Answers \/ mgr[cli.scope].loaded # 0 \/ cli.action = "reuse"
          /\ Finish("ok")
       \/ /\ \/ cli.op = "install"
             \/ cli.op = "ensure" /\ mgr[cli.scope].loaded = 0 /\ cli.action # "reuse"
          /\ IF LeftToWorker
             THEN cli' = [cli EXCEPT !.pc = "ask"]
             ELSE cli' = [cli EXCEPT !.pc = "save", !.snap = host.config]
       \/ /\ cli.op = "uninstall"
          /\ cli' = [cli EXCEPT !.pc = "remove"]
       \/ /\ cli.op \in {"start", "stop"}
          /\ cli' = [cli EXCEPT !.pc = IF cli.op = "start" /\ LeftToWorker THEN "ask" ELSE "control"]
    /\ UNCHANGED <<host, mgr>>

\* The user refuses (1223), or the worker's exit code tells a failure.
elevated_install_failed == Finish("failed")

\* The elevated worker plans anew, as administrator.
install_worker ==
    cli' = [cli EXCEPT !.pc = "resolved", !.op = "install", !.admin = TRUE, !.worker = TRUE, !.elevate = FALSE,
                       !.action = next_action("system"), !.base = host.config]

\* install_elevated.
Elevate ==
    /\ cli.pc = "ask"
    /\ elevated_install_failed \/ install_worker
    /\ UNCHANGED <<host, mgr>>

-----------------------------------------------------------------------------
(* install_or_repair_service.                                              *)

Save == /\ host.saves < MaxSaves
        /\ host' = [host EXCEPT !.saves = @ + 1, !.config = host.saves + 1]

\* The planned configuration replaces whatever the file holds by now.
SaveConfig ==
    /\ cli.pc = "save"
    /\ Save
    /\ cli' = [cli EXCEPT !.pc = "stage"]
    /\ UNCHANGED mgr

\* A process on Linux keeps its binary from being overwritten.
Busy == host.platform = "linux" /\ \E s \in Scopes : mgr[s].proc # 0 /\ mgr[s].home

\* stage_binary: prepare_install stops the service, on Windows only and with the rights to...
Stopped(s) == [mgr EXCEPT ![s].proc = 0, ![s].want = FALSE]

Stage ==
    /\ cli.pc = "stage"
    /\ Manager(cli.scope) = "scm" => cli.admin
    /\ mgr' = IF host.platform = "windows" THEN Stopped(cli.scope) ELSE mgr
    /\ cli' = [cli EXCEPT !.pc = "copy"]
    /\ UNCHANGED host

\* ... and install_binary copies the binary.
Copy ==
    /\ cli.pc = "copy"
    /\ ~(cli.copy /\ Busy)
    /\ cli' = [cli EXCEPT !.pc = "write"]
    /\ UNCHANGED <<host, mgr>>

WriteUnit(s) == mgr' = [mgr EXCEPT ![s].file = cli.gen]
WritePlist(s) == mgr' = [mgr EXCEPT ![s].file = cli.gen]
CreateService(s) == mgr' = [mgr EXCEPT ![s].loaded = cli.gen]
CreateTask(s) == mgr' = [mgr EXCEPT ![s].loaded = cli.gen]

\* The definition is written: a unit file or a plist, or the entry of the Windows manager.
\* A system definition needs root.
WriteDefinition ==
    LET s == cli.scope IN
    /\ cli.pc = "write"
    /\ cli.admin \/ s = "user"
    /\ CASE Manager(s) = "systemd" -> WriteUnit(s)
         [] Manager(s) = "launchd" -> WritePlist(s)
         [] Manager(s) = "scm" -> CreateService(s)
         [] OTHER -> CreateTask(s)
    /\ cli' = [cli EXCEPT !.pc = "load"]
    /\ UNCHANGED host

Started(m, s) == [m EXCEPT ![s].want = TRUE, ![s].proc = m[s].loaded,
                           ![s].home = IF cli.gen = m[s].loaded THEN cli.copy ELSE @]

\* daemon-reload.
Reload(s) == mgr' = [mgr EXCEPT ![s].loaded = mgr[s].file]

\* bootstrap refuses a label that is loaded and starts the others.
Bootstrap(s) == mgr[s].loaded = 0 /\ mgr' = Started([mgr EXCEPT ![s].loaded = mgr[s].file], s)

\* `kept`: a process of the old definition is left running.
LoadDefinition ==
    LET s == cli.scope IN
    /\ cli.pc = "load"
    /\ CASE Manager(s) = "systemd" -> Reload(s)
         [] Manager(s) = "launchd" -> Bootstrap(s)
         [] OTHER -> UNCHANGED mgr
    /\ cli' = [cli EXCEPT !.pc = "start", !.kept = Manager(s) = "systemd" /\ mgr[s].proc # 0]
    /\ UNCHANGED host

\* The service is enabled and started; a start of a service that runs does nothing.
StartInstalled ==
    LET s == cli.scope IN
    /\ cli.pc = "start"
    /\ mgr' = IF mgr[s].proc # 0 THEN [mgr EXCEPT ![s].want = TRUE] ELSE Started(mgr, s)
    /\ IF cli.worker THEN cli' = [cli EXCEPT !.pc = "health"] ELSE Finish("ok")
    /\ UNCHANGED host

\* wait_for_daemon_health, in the elevated worker only: polled until the daemon answers, or
\* for 90 seconds.  The install has then failed, but its configuration and its service are left.
Health ==
    /\ cli.pc = "health"
    /\ \/ Answers /\ Finish("ok")
       \/ cli' = [cli EXCEPT !.pc = "done", !.result = "failed", !.left = "health"]
    /\ UNCHANGED <<host, mgr>>

\* A step of the install fails: of its own accord, for want of rights, on a busy binary or on
\* a label that is loaded.  A service that does not stop in time may still stop.
Fail ==
    /\ cli.pc \in {"save", "stage", "copy", "write", "load", "start"}
    /\ \/ /\ host.faults < Faults
          /\ host' = [host EXCEPT !.faults = @ + 1]
       \/ /\ \/ cli.pc = "stage" /\ Manager(cli.scope) = "scm" /\ ~cli.admin
             \/ cli.pc = "copy" /\ cli.copy /\ Busy
             \/ cli.pc = "write" /\ ~cli.admin /\ cli.scope = "system"
             \/ cli.pc = "load" /\ Manager(cli.scope) = "launchd" /\ mgr[cli.scope].loaded # 0
          /\ UNCHANGED host
    /\ cli' = [cli EXCEPT !.pc = "undo"]
    /\ \/ UNCHANGED mgr
       \/ cli.pc = "stage" /\ host.platform = "windows" /\ mgr' = Stopped(cli.scope)

\* A slip: the configuration of a failed install stays.
RestoreNothing ==
    /\ cli.pc = "undo"
    /\ Finish("failed")
    /\ UNCHANGED <<host, mgr>>

\* restore_config_snapshot: the bytes read before the install are written back in place, which
\* may fail before or half way.
Restore ==
    /\ cli.pc = "undo"
    /\ \/ host' = [host EXCEPT !.config = cli.snap] /\ Finish("failed")
       \/ /\ host.faults < Faults
          /\ \E c \in {host.config, Torn} : host' = [host EXCEPT !.config = c, !.faults = @ + 1]
          /\ cli' = [cli EXCEPT !.pc = "done", !.result = "failed", !.left = "restore"]
    /\ UNCHANGED mgr

-----------------------------------------------------------------------------
(* Removal, start and stop.                                                *)

Gone(s) == [mgr EXCEPT ![s].file = 0, ![s].loaded = 0, ![s].want = FALSE, ![s].proc = 0]

\* DisableUnitFiles over D-Bus takes the place of `disable --now`, and a failure of either is
\* ignored, so the process may go on.
DisableUnitFiles(s) == {mgr, [mgr EXCEPT ![s].want = FALSE]}
SystemdUninstall(s) == \E m \in DisableUnitFiles(s) \cup {Gone(s)} : mgr' = [m EXCEPT ![s].file = 0]

\* A failed bootout is ignored.
LaunchdUninstall(s) == mgr' \in {Gone(s), [mgr EXCEPT ![s].file = 0]}

ScmUninstall(s) == mgr' = Gone(s)

\* The task is deleted and its process left.
SchtasksUninstall(s) == mgr[s].loaded # 0 /\ mgr' = [mgr EXCEPT ![s].loaded = 0, ![s].want = FALSE]

Uninstall ==
    LET s == cli.scope IN
    /\ cli.pc = "remove"
    /\ cli.admin \/ s = "user"
    /\ CASE Manager(s) = "systemd" -> SystemdUninstall(s)
         [] Manager(s) = "launchd" -> LaunchdUninstall(s)
         [] Manager(s) = "scm" -> ScmUninstall(s)
         [] OTHER -> SchtasksUninstall(s)
    /\ Finish("ok")
    /\ UNCHANGED host

\* start: kickstart -k replaces the process, the others leave one that runs.
SystemdStart(s) == mgr' = IF mgr[s].proc # 0 THEN mgr ELSE Started(mgr, s)
ScmStart(s) == mgr' = IF mgr[s].proc # 0 THEN mgr ELSE Started(mgr, s)
SchtasksStart(s) == mgr' = IF mgr[s].proc # 0 THEN mgr ELSE Started(mgr, s)
LaunchdStart(s) == mgr' = Started(mgr, s)
StartService(s) ==
    CASE Manager(s) = "systemd" -> SystemdStart(s)
      [] Manager(s) = "launchd" -> LaunchdStart(s)
      [] Manager(s) = "scm" -> ScmStart(s)
      [] OTHER -> SchtasksStart(s)

\* stop: a process that launchd has killed is one that it starts again.
SystemdStop(s) == mgr' = [mgr EXCEPT ![s].proc = 0, ![s].want = FALSE]
ScmStop(s) == mgr' = [mgr EXCEPT ![s].proc = 0, ![s].want = FALSE]
LaunchdStop(s) == mgr' = [mgr EXCEPT ![s].proc = 0]
StopService(s) ==
    CASE Manager(s) = "launchd" -> LaunchdStop(s)
      [] Manager(s) = "scm" -> ScmStop(s)
      [] OTHER -> SystemdStop(s)

Control ==
    /\ cli.pc = "control"
    /\ IF cli.op = "start" THEN mgr[cli.scope].loaded # 0 /\ StartService(cli.scope)
                           ELSE StopService(cli.scope)
    /\ Finish("ok")
    /\ UNCHANGED host

ControlFails ==
    /\ cli.pc \in {"remove", "control"}
    /\ \/ cli.op = "uninstall" /\ ~cli.admin /\ cli.scope = "system"
       \/ cli.op = "uninstall" /\ Manager(cli.scope) = "schtasks" /\ mgr[cli.scope].loaded = 0
       \/ cli.op = "start" /\ mgr[cli.scope].loaded = 0
    /\ Finish("failed")
    /\ UNCHANGED <<host, mgr>>

-----------------------------------------------------------------------------
(* What the host does meanwhile.                                           *)

\* The process ends.
Crash(s) ==
    /\ mgr[s].proc # 0
    /\ mgr' = [mgr EXCEPT ![s].proc = 0]
    /\ UNCHANGED <<host, cli>>

\* Restart=always, KeepAlive, automatic start at boot or logon.
Restart(s) ==
    /\ mgr[s].want /\ mgr[s].proc = 0 /\ mgr[s].loaded # 0
    /\ mgr' = [mgr EXCEPT ![s].proc = mgr[s].loaded]
    /\ UNCHANGED <<host, cli>>

\* A daemon that runs saves the configuration it has in memory: a rotated token, an adopted
\* peer.
DaemonSaves ==
    /\ \E s \in Scopes : mgr[s].proc # 0
    /\ Save
    /\ cli' = [cli EXCEPT !.overtaken = cli.pc # "idle"]
    /\ UNCHANGED mgr

Step ==
    \/ Dispatch \/ Elevate \/ SaveConfig \/ Stage \/ Copy \/ WriteDefinition \/ LoadDefinition
    \/ StartInstalled \/ Health \/ Fail \/ Restore \/ Uninstall \/ Control \/ ControlFails

ServiceNext ==
    \/ \E op \in Ops \ {"none"}, requested \in Scopes \cup {"auto"},
          admin, elevate, copy \in BOOLEAN :
          /\ op \notin {"install", "ensure"} => ~copy
          /\ elevate => host.platform = "windows" /\ ~admin /\ op \in {"install", "ensure", "start"}
          /\ Enter(op, requested, admin, elevate, copy)
    \/ Step \/ Again
    \/ \E s \in Scopes : Crash(s) \/ Restart(s)
    \/ DaemonSaves

Spec == Init /\ [][ServiceNext]_serviceVars

-----------------------------------------------------------------------------
(* Properties.                                                             *)

\* A command that fails leaves the configuration that it found, whichever step failed, unless
\* the daemon saved its own meanwhile or the write-back failed as well.  Only an install whose
\* daemon does not come to health leaves its own, and then with the definition that goes with it.
FailureKeepsConfig ==
    (cli.pc = "done" /\ cli.result = "failed" /\ ~cli.overtaken)
    => CASE cli.left = "none" -> host.config = cli.base
         [] cli.left = "health" -> host.config = host.saves /\ mgr[cli.scope].loaded = cli.gen
         [] OTHER -> TRUE

\* After an install that reports success, the service's process, if it runs, was started
\* from the definition just written - unless it ran when systemd reloaded its units, and the
\* start that follows does nothing.
InstalledIsRun ==
    (/\ cli.pc = "done" /\ cli.result = "ok" /\ cli.op \in {"install", "ensure"}
     /\ mgr[cli.scope].loaded = cli.gen /\ ~cli.kept)
    => mgr[cli.scope].proc \in {0, cli.gen}

=============================================================================
