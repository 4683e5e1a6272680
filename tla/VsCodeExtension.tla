---------------------------- MODULE VsCodeExtension ----------------------------
(***************************************************************************)
(* The VS Code extension, a client of the daemon: the controller of a      *)
(* window (apps/vscode-remote-proxy/src/extension.ts) and the one backend  *)
(* it drives through the command line (sshProxyKernelBackend.ts,           *)
(* sshProxyCli.ts).                                                        *)
(*                                                                         *)
(* JavaScript runs one callback at a time, so an action is what happens    *)
(* between two awaits.  A start, a stop and a refresh that are under way   *)
(* share the fields of the controller and of the backend, and what one of  *)
(* them has set another may have changed by the time it is resumed.        *)
(***************************************************************************)
EXTENDS Naturals, FiniteSets

CONSTANTS Hosts,      \* SSH hosts; a host is also the key of its workspace
          Starts,     \* at most this many starts at a time
          Stops,      \* at most this many stops at a time
          Windows,    \* the windows that are tried: settings and what is detected
          Threshold,  \* failed refreshes in a row that are taken for a failure
          MaxOps      \* bound on commands and on ticks of the monitor

VARIABLES win,     \* what the window and its settings say
          ext,     \* the fields of the controller and of the backend
          start,   \* the starts under way
          stop,    \* the stops under way
          probe,   \* the monitor, a diagnosis or an apply, at most one at a time
          daemon,  \* the session of each host in the daemon
          hist     \* bound and what the properties look back on

extVars == <<win, ext, start, stop, probe, daemon, hist>>

None == "none"
NoStart == [pc |-> "none", host |-> None, asks |-> FALSE]
NoStop == [pc |-> "none", host |-> None]
NoProbe == [pc |-> "none", host |-> None, counts |-> FALSE]

-----------------------------------------------------------------------------
(* What the settings decide. *)

planAutoStart == win.enabled /\ win.autoStart /\ win.kind = "ssh"

checkStartPreflight == win.enabled /\ (win.kind = "ssh" \/ win.known)

\* A configured executable is the only one; the default name stands for the
\* bundled binary and then for the one on the path.
resolveSshProxyExecutableCandidates ==
    CASE win.executable = "configured" -> {"configured"}
      [] win.executable = "default" /\ win.bundled -> {"bundled", "path"}
      [] OTHER -> {"path"}

findAvailableSshProxyCli ==
    \E c \in resolveSshProxyExecutableCandidates : c \in win.works

\* Where a local proxy is looked for, in the order of preference.
detectLocalProxy ==
    CASE win.mode = "manual" -> "manual" \in win.proxies
      [] win.mode = "env" -> "env" \in win.proxies
      [] OTHER -> win.proxies # {}

\* SshProxyCli.run: the exit of the process, a failure to start it and the time
\* limit, at which it is killed, race, and the first settles the promise.  The
\* command line also exits with 0 when the daemon cannot be reached, does not
\* let it in or fails at the request: what it prints then is `ok: false'.
run == {"answered", "refused", "failed"}

-----------------------------------------------------------------------------
Init ==
    /\ win \in Windows
    /\ ext = [applying |-> FALSE, status |-> "stopped", host |-> None,
              workspace |-> None, cli |-> FALSE, failures |-> 0, gone |-> FALSE]
    /\ start = [t \in Starts |-> NoStart]
    /\ stop = [k \in Stops |-> NoStop]
    /\ probe = NoProbe
    /\ daemon = [h \in Hosts |-> "none"]
    /\ hist = [ops |-> 0, overlap |-> FALSE, fault |-> FALSE, up |-> None,
               stopped |-> FALSE, known |-> win.known]

Starting == \E t \in Starts : start[t].pc # "none"
Stopping == \E k \in Stops : stop[k].pc # "none"
Probing == probe.pc # "none"

Op == ~ext.gone /\ hist.ops < MaxOps

\* Every command and tick begins with this: what is under way beside it.
Count(mine) ==
    hist' = [hist EXCEPT
        !.ops = @ + 1, !.stopped = (mine = "stop" /\ ext.status = "running"
                                    /\ ~Starting),
        !.overlap = \/ @
                    \/ mine \in {"stop", "restart"} /\ (Starting \/ Probing)
                    \/ mine \in {"start", "probe"} /\ Stopping
                    \/ mine = "restart"]

-----------------------------------------------------------------------------
(* The part of a start and of a stop that runs at once. *)

Begins(e) == ~e.applying /\ checkStartPreflight

\* start up to its first await: with the host in the authority of the window
\* resolveSshHost does not wait, and the start is the only one from then on.
StartInto(t, e, asks) ==
    /\ start[t].pc = "none"
    /\ IF ~Begins(e) THEN ext' = e /\ UNCHANGED start
       ELSE IF win.known
       THEN /\ ext' = [e EXCEPT !.applying = TRUE]
            /\ start' = [start EXCEPT ![t] = [pc |-> "detect", host |-> win.host,
                                              asks |-> asks]]
       ELSE /\ ext' = e
            /\ start' = [start EXCEPT ![t] = [pc |-> "resolve", host |-> None,
                                              asks |-> asks]]

Cleared(e) == [e EXCEPT !.host = None, !.workspace = None, !.cli = FALSE,
                        !.status = "stopped"]

\* stop up to its first await: `down` is sent for the workspace of the moment;
\* without one, or without a command line, the fields are cleared at once.
StopSends(e) == (e.workspace # None \/ e.host # None) /\ e.cli

StopInto(k, e) ==
    /\ stop[k].pc = "none"
    /\ stop' = IF StopSends(e)
               THEN [stop EXCEPT ![k] = [pc |-> "down",
                        host |-> IF e.workspace # None THEN e.workspace ELSE e.host]]
               ELSE stop

AfterStop(e) == IF StopSends(e) THEN e ELSE Cleared(e)

-----------------------------------------------------------------------------
(* Commands, settings, and the monitor. *)

Start(t) ==
    /\ Op
    /\ StartInto(t, ext, TRUE)
    /\ Count("start")
    /\ UNCHANGED <<win, stop, probe, daemon>>

\* activate.
maybeAutoStart(t) ==
    /\ Op /\ hist.ops = 0 /\ planAutoStart
    /\ StartInto(t, ext, FALSE)
    /\ Count("start")
    /\ UNCHANGED <<win, stop, probe, daemon>>

\* stopForwarder does not await the backend's stop.  A cleanup of the remote
\* is a stop, and so is a window that is closed.
Stop(k) ==
    /\ Op
    /\ StopInto(k, ext)
    /\ ext' \in {AfterStop(ext), [AfterStop(ext) EXCEPT !.gone = TRUE]}
    /\ Count("stop")
    /\ UNCHANGED <<win, start, probe, daemon>>

\* The start follows the stop at once, with `down` still under way.
RestartInto(t, k, asks) ==
    /\ StopInto(k, ext)
    /\ StartInto(t, AfterStop(ext), asks)
    /\ Count("restart")

Restart(t, k) ==
    /\ Op
    /\ RestartInto(t, k, TRUE)
    /\ UNCHANGED <<win, probe, daemon>>

onConfigChanged(k) ==
    /\ Op
    /\ win' = [win EXCEPT !.enabled = ~@]
    /\ IF win.enabled
       THEN StopInto(k, ext) /\ ext' = AfterStop(ext) /\ Count("stop")
       ELSE Count("config") /\ UNCHANGED <<stop, ext>>
    /\ UNCHANGED <<start, probe, daemon>>

\* The window is connected to another host.
HostChanges ==
    /\ Op
    /\ \E h \in Hosts : win.host # h /\ win' = [win EXCEPT !.host = h]
    /\ Count("config")
    /\ UNCHANGED <<ext, start, stop, probe, daemon>>

\* refreshStatus up to its await.
RefreshInto(counts) ==
    IF ext.cli /\ ext.host # None
    THEN probe' = [pc |-> "status", counts |-> counts,
                   host |-> IF ext.workspace # None THEN ext.workspace
                            ELSE ext.host]
    ELSE probe' = NoProbe

\* diagnose, and applySettingsOnly after its own command.
Diagnose ==
    /\ Op /\ ~Probing
    /\ RefreshInto(FALSE)
    /\ Count("probe")
    /\ UNCHANGED <<win, ext, start, stop, daemon>>

\* The host the window is connected to and the host of the proxy.
CompareHost(t, k) ==
    IF win.host = None \/ ext.host = None \/ win.host = ext.host
    THEN RefreshInto(TRUE) /\ Count("probe") /\ UNCHANGED <<ext, start, stop>>
    ELSE RestartInto(t, k, FALSE) /\ probe' = NoProbe

\* monitorHostChange, from the timer or when the window gets the focus, up to
\* the first await, which is in resolveSshHost unless it need not wait.
monitorHostChange(t, k) ==
    /\ Op /\ ~Probing
    /\ ~ext.applying /\ ext.status = "running" /\ planAutoStart
    /\ IF win.restarts /\ win.known THEN CompareHost(t, k)
       ELSE /\ IF win.restarts THEN probe' = [NoProbe EXCEPT !.pc = "compare"]
               ELSE RefreshInto(TRUE)
            /\ Count("probe")
            /\ UNCHANGED <<ext, start, stop>>
    /\ UNCHANGED <<win, daemon>>

\* The host is found; the tests made before the await are not repeated.
MonitorResumes(t, k) ==
    /\ probe.pc = "compare"
    /\ CompareHost(t, k)
    /\ UNCHANGED <<win, daemon>>

\* recordHealthCheckFailure: the threshold is reached.
shouldRestart == ext.failures + 1 >= Threshold

\* The answer to `vscode status`, or none in ten seconds.  One without a job
\* changes nothing, and is an answer.
refreshStatus ==
    /\ probe.pc = "status"
    /\ \E r \in run : ext' =
         IF r = "answered"
         THEN [ext EXCEPT
             !.status = CASE daemon[probe.host] \in {"failed", "cancelled"} -> "failed"
                          [] daemon[probe.host] = "waiting_retry" -> "starting"
                          [] daemon[probe.host] = "healthy" -> "running"
                          [] OTHER -> @,
             !.failures = IF probe.counts THEN 0 ELSE @]
         ELSE IF ~probe.counts THEN ext
         ELSE IF r = "refused" THEN [ext EXCEPT !.failures = 0]
         ELSE IF shouldRestart
         THEN [ext EXCEPT !.status = "failed", !.failures = 0]
         ELSE [ext EXCEPT !.failures = @ + 1]
    /\ probe' = NoProbe
    /\ UNCHANGED <<win, start, stop, daemon, hist>>

-----------------------------------------------------------------------------
(* A start after its first await. *)

At(t, pc) == start[t].pc = pc
Goes(t, pc) == start' = [start EXCEPT ![t].pc = pc]
Ends(t) == start' = [start EXCEPT ![t] = NoStart]

\* The end of the `try`: of a start that failed.
Failed(t) ==
    /\ ext' = [ext EXCEPT !.status = "failed", !.applying = FALSE]
    /\ Ends(t)

\* resolveSshHost has looked at the running ssh commands and at VS Code's
\* storage.  If nothing was found the user is asked, by a start that asks
\* within it, by another with a message whose answer begins a new start.
resolveSshHost(t) ==
    /\ At(t, "resolve")
    /\ \/ /\ win.host # None
          /\ start' = [start EXCEPT ![t].pc = "detect", ![t].host = win.host]
          /\ ext' = [ext EXCEPT !.applying = TRUE]
          /\ UNCHANGED win
       \/ /\ win.host = None
          /\ \/ Ends(t) /\ UNCHANGED <<win, ext>>
             \/ \E h \in Hosts :
                  /\ win' = [win EXCEPT !.host = h, !.known = TRUE]
                  /\ IF start[t].asks \/ Begins(ext)
                     THEN /\ start' = [start EXCEPT ![t].pc = "detect",
                                                    ![t].host = h]
                          /\ ext' = [ext EXCEPT !.applying = TRUE]
                     ELSE Ends(t) /\ UNCHANGED ext
    /\ UNCHANGED <<stop, probe, daemon, hist>>

\* The local proxy is found and the backend's start is entered, or the user is
\* told and asked what to do.
Detect(t) ==
    /\ At(t, "detect")
    /\ IF detectLocalProxy
       THEN /\ ext' = [ext EXCEPT !.status = "starting", !.host = start[t].host,
                                  !.workspace = start[t].host]
            /\ Goes(t, "cli")
       ELSE Goes(t, "told") /\ UNCHANGED ext
    /\ UNCHANGED <<win, stop, probe, daemon, hist>>

\* The user closes the message.
Told(t) ==
    /\ At(t, "told")
    /\ ext' = [ext EXCEPT !.applying = FALSE]
    /\ Ends(t)
    /\ UNCHANGED <<win, stop, probe, daemon, hist>>

\* A slip: the command line that was found is not kept for the stop.
availableCliForgotten(t) ==
    /\ At(t, "cli")
    /\ IF findAvailableSshProxyCli THEN Goes(t, "up") /\ UNCHANGED ext
       ELSE Failed(t)
    /\ UNCHANGED <<win, stop, probe, daemon, hist>>

availableCli(t) ==
    /\ At(t, "cli")
    /\ IF findAvailableSshProxyCli
       THEN ext' = [ext EXCEPT !.cli = TRUE] /\ Goes(t, "up")
       ELSE Failed(t)
    /\ UNCHANGED <<win, stop, probe, daemon, hist>>

\* `vscode up`: the daemon takes the session on or refuses, or the command
\* fails or is killed after a minute, with the session begun or not.
Up(t) ==
    LET h == start[t].host
        taken == [daemon EXCEPT ![h] = IF @ \in {"none", "failed", "cancelled"}
                                       THEN "pending" ELSE @]
    IN
    /\ At(t, "up")
    /\ \E r \in run :
         \/ /\ r = "answered" /\ daemon' = taken /\ Goes(t, "wait")
            /\ hist' = [hist EXCEPT !.up = h]
            /\ UNCHANGED ext
         \/ /\ r = "refused" /\ Goes(t, "refused")
            /\ UNCHANGED <<ext, daemon, hist>>
         \/ /\ r = "failed" /\ daemon' \in {daemon, taken} /\ Failed(t)
            /\ hist' = [hist EXCEPT !.up = h, !.fault = TRUE]
    /\ UNCHANGED <<win, stop, probe>>

\* handleStartFailure: a start that asks waits for the user's choice.
handleStartFailure(t) ==
    /\ At(t, "refused")
    /\ IF start[t].asks
       THEN /\ ext' = [ext EXCEPT !.status = "failed"]
            /\ Goes(t, "choice")
       ELSE Failed(t)
    /\ UNCHANGED <<win, stop, probe, daemon, hist>>

\* installDaemonWithElevation succeeds and the start is made again, or the user
\* does something else.
Choose(t) ==
    /\ At(t, "choice")
    /\ \/ /\ checkStartPreflight
          /\ start' = [start EXCEPT ![t] =
                IF win.known
                THEN [pc |-> "detect", host |-> win.host, asks |-> FALSE]
                ELSE [pc |-> "resolve", host |-> None, asks |-> FALSE]]
          /\ ext' = [ext EXCEPT !.applying = win.known]
       \/ Ends(t) /\ ext' = [ext EXCEPT !.applying = FALSE]
    /\ UNCHANGED <<win, stop, probe, daemon, hist>>

\* A slip: the loop has no deadline.
waitForever(t) ==
    LET state == daemon[start[t].host] IN
    /\ At(t, "wait")
    /\ \/ /\ state = "healthy"
          /\ ext' = [ext EXCEPT !.status = "running", !.applying = FALSE,
                                !.workspace = start[t].host, !.failures = 0]
          /\ Ends(t)
       \/ state = "failed" /\ Failed(t)
    /\ UNCHANGED <<win, stop, probe, daemon, hist>>

\* waitForProxySessionReadiness, and applyRouteState, which sets the proxy and
\* its route again but neither the host nor the command line.
waitForProxySessionReadiness(t) ==
    LET state == daemon[start[t].host] IN
    /\ At(t, "wait")
    /\ \/ /\ state = "healthy"
          /\ ext' = [ext EXCEPT !.status = "running", !.applying = FALSE,
                                !.workspace = start[t].host, !.failures = 0]
          /\ Ends(t)
       \/ /\ state = "waiting_retry" /\ ext.status # "starting"
          /\ ext' = [ext EXCEPT !.status = "starting"]
          /\ UNCHANGED start
       \/ Failed(t)
    /\ UNCHANGED <<win, stop, probe, daemon, hist>>

-----------------------------------------------------------------------------
(* A stop after its first await, and the daemon. *)

\* `down` is done by the daemon, or refused, or fails or is killed after
\* fifteen seconds, done or not.  Nobody looks at `ok'.
Down(k) ==
    LET done == [daemon EXCEPT ![stop[k].host] = IF @ = "none" THEN @ ELSE "cancelled"]
    IN
    /\ stop[k].pc = "down"
    /\ \E r \in run :
         /\ daemon' \in CASE r = "answered" -> {done}
                          [] r = "refused" -> {daemon}
                          [] r = "failed" -> {daemon, done}
         /\ hist' = [hist EXCEPT !.fault = @ \/ r # "answered"]
    /\ stop' = [stop EXCEPT ![k].pc = "clear"]
    /\ UNCHANGED <<win, ext, start, probe>>

\* Whatever has been set meanwhile is cleared.
Clear(k) ==
    /\ stop[k].pc = "clear"
    /\ ext' = Cleared(ext)
    /\ stop' = [stop EXCEPT ![k] = NoStop]
    /\ UNCHANGED <<win, start, probe, daemon, hist>>

\* The daemon's job of the session.  (One that is still at work when the
\* session is cancelled is in ProxySession.)
SessionMoves(h) ==
    /\ daemon[h] \notin {"none", "cancelled"}
    /\ \E state \in {"healthy", "waiting_retry", "failed"} :
         daemon' = [daemon EXCEPT ![h] = state]
    /\ UNCHANGED <<win, ext, start, stop, probe, hist>>

StartStep(t) ==
    \/ Detect(t) \/ availableCli(t) \/ Up(t) \/ handleStartFailure(t)
    \/ waitForProxySessionReadiness(t)

ExtNext ==
    \/ \E t \in Starts : \/ Start(t) \/ maybeAutoStart(t) \/ resolveSshHost(t)
                         \/ StartStep(t) \/ Told(t) \/ Choose(t)
    \/ \E k \in Stops : Stop(k) \/ onConfigChanged(k) \/ Down(k) \/ Clear(k)
    \/ \E t \in Starts, k \in Stops : Restart(t, k) \/ monitorHostChange(t, k)
                                      \/ MonitorResumes(t, k)
    \/ HostChanges \/ Diagnose \/ refreshStatus
    \/ \E h \in Hosts : SessionMoves(h)

\* Every command is given a time limit, and node resumes what is ready; a user
\* need not answer, nor the window find its host.
Spec == /\ Init /\ [][ExtNext]_extVars
        /\ \A t \in Starts : WF_extVars(StartStep(t))

-----------------------------------------------------------------------------
TypeOK ==
    /\ ext \in [applying : BOOLEAN, host : Hosts \cup {None},
                status : {"stopped", "starting", "running", "failed"},
                workspace : Hosts \cup {None}, cli : BOOLEAN,
                failures : 0..(Threshold - 1), gone : BOOLEAN]
    /\ start \in [Starts -> [pc : {"none", "resolve", "detect", "told", "cli",
                                   "up", "refused", "choice", "wait"},
                             host : Hosts \cup {None}, asks : BOOLEAN]]
    /\ stop \in [Stops -> [pc : {"none", "down", "clear"},
                           host : Hosts \cup {None}]]
    /\ probe.pc \in {"none", "compare", "status"}

\* In a window whose authority names the host, `applying` keeps a second start
\* out, whichever commands, ticks and host changes fall between the awaits of
\* the first (extension.ts, start).
OneStart ==
    hist.known => Cardinality({t \in Starts : start[t].pc # "none"}) <= 1

\* A Stop given to a running proxy takes the session down that was last
\* brought up, unless a command failed or answered that it was not done, which
\* stop does not look at, or a start or a refresh was under way while something
\* was being stopped (sshProxyKernelBackend.ts, stop).
Quiet == ~Starting /\ ~Stopping /\ ~Probing
StopTakesDown ==
    Quiet /\ hist.stopped /\ ~hist.fault /\ ~hist.overlap
    => hist.up = None \/ daemon[hist.up] = "cancelled"

\* A start is under way by itself, and keeps the later ones out (extension.ts,
\* start and its `finally`); it is over, or waits for the user.
UnderWay(t) == start[t].pc \in {"detect", "cli", "up", "refused", "wait"}
Resting(t)  == start[t].pc \in {"none", "told", "choice"}
=============================================================================
