------------------------------ MODULE RemoteSetup ------------------------------
(***************************************************************************)
(* The remote setup of VS Code on one SSH target: the machine settings,    *)
(* server-env-setup, the Git configuration and the status file, written    *)
(* when a session is ready (or by `vscode apply-settings`) and cleaned up  *)
(* when it goes down: crates/ssh-proxy/src/node_daemon/remote_setup.rs,    *)
(* remote_setup/, proxy_session/apply_settings.rs and the part of          *)
(* crates/ssh-proxy-deploy that builds the contents and the scripts.       *)
(*                                                                         *)
(* Every file is read over SSH, patched locally and written back, and the  *)
(* workspaces that use one target share all of them but the Git            *)
(* configuration of the workspace.                                         *)
(***************************************************************************)
EXTENDS Naturals, Sequences, FiniteSets

CONSTANTS Sessions,  \* workspaces with a session on the target; also their URLs
          Policies,  \* the apply policies that are tried
          MaxOps,    \* bound on applies and cleanups
          MaxFails   \* bound on SSH calls that fail or lose their connection

VARIABLES home,  \* the files in the remote user's home directory
          ses,   \* what is done for each session, and the status recorded
          hist   \* bound and what the properties look back on

setupVars == <<home, ses, hist>>

None == "none"
User == "user"

\* Contents: a setting is absent, the user's own, or some session's URL. A
\* settings file that is not JSON, even without comments, parses as empty.
Setting == {None, User} \cup Sessions
NoSettings == [kind |-> "absent", proxy |-> None, term |-> None,
               foreign |-> FALSE]
Lines == {"user", "begin", "end"} \cup Sessions

ToSet(s) == {s[i] : i \in DOMAIN s}

parse_settings_object(f) == IF f.kind = "json" THEN f ELSE NoSettings

-----------------------------------------------------------------------------
(* The contents that are written. *)

\* build_remote_setup_payload: the keys the payload sets.
Payload(p) == {"proxy"} \cup (IF p.terminal THEN {"term"} ELSE {})

\* The values of the payload are put over what is there.
MergeSettings(f, s, p) ==
    [parse_settings_object(f) EXCEPT
        !.kind = "json",
        !.proxy = IF "proxy" \in Payload(p) THEN s ELSE @,
        !.term = IF "term" \in Payload(p) THEN s ELSE @]

\* The managed keys go, whoever set them; a terminal environment keeps the
\* variables that are not proxy variables.
CleanSettings(f) ==
    [parse_settings_object(f) EXCEPT !.kind = "json", !.proxy = None,
                                     !.term = None]

strip_managed_server_env_block(lines) ==
    LET Skipped[i \in 0..Len(lines)] ==
            IF i = 0 THEN FALSE
            ELSE IF lines[i] = "begin" THEN TRUE
            ELSE IF lines[i] = "end" THEN FALSE
            ELSE Skipped[i - 1]
        Kept == {i \in DOMAIN lines :
                    lines[i] \notin {"begin", "end"} /\ ~Skipped[i]}
    IN  [j \in 1..Cardinality(Kept) |->
            lines[CHOOSE i \in Kept : Cardinality({k \in Kept : k <= i}) = j]]

build_server_env_setup_content(lines, s) ==
    strip_managed_server_env_block(lines) \o <<"begin", s, "end">>

\* apply_git_proxy_config and cleanup_git_proxy_config: the proxy of the
\* scopes becomes the value, whatever it was.
SetGit(git, s, scopes, value) ==
    [global |-> IF "global" \in scopes THEN value ELSE git.global,
     workspace |-> [git.workspace EXCEPT
                       ![s] = IF "workspace" \in scopes THEN value ELSE @]]

\* The intents sent to the helper, the global one first.
GitIntents(p) == SelectSeq(<<"global", "workspace">>,
                           LAMBDA scope : IF scope = "global" THEN p.gitGlobal
                                          ELSE p.gitWorkspace)

\* run_remote_admin_intents: an intent may fail, with those before it carried
\* out and those after it not tried. The scopes that were changed:
run_remote_admin_intents(intents) ==
    {ToSet(SubSeq(intents, 1, n)) : n \in 0..Len(intents)}

-----------------------------------------------------------------------------
(* The steps of an apply and of a cleanup. *)

ApplySteps == <<"probe", "readSettings", "writeSettings", "readEnv",
                "writeEnv", "git", "gitScript", "status", "applied">>
CleanSteps == <<"cleanRead", "cleanWrite", "cleanGit", "cleanScript",
                "cleaned">>

Wanted(p, step) ==
    CASE step = "probe" -> p.verify
      [] step \in {"readSettings", "writeSettings"} -> p.settings
      [] step \in {"readEnv", "writeEnv"} -> p.env
      [] step \in {"git", "gitScript", "cleanGit"} -> GitIntents(p) # <<>>
      [] step = "status" -> p.status
      [] OTHER -> TRUE

\* The next step the policy asks for, at index i or later.
StepFrom(p, steps, i) ==
    steps[CHOOSE j \in i..Len(steps) :
            /\ Wanted(p, steps[j])
            /\ \A k \in i..(j - 1) : ~Wanted(p, steps[k])]

After(p, step) ==
    IF \E i \in DOMAIN ApplySteps : ApplySteps[i] = step
    THEN StepFrom(p, ApplySteps, 1 + CHOOSE i \in DOMAIN ApplySteps :
                                        ApplySteps[i] = step)
    ELSE StepFrom(p, CleanSteps, 1 + CHOOSE i \in DOMAIN CleanSteps :
                                        CleanSteps[i] = step)

Resting == {"idle", "applied", "cleaned", "failed"}
Busy(s) == ses[s].pc \notin Resting

\* The session is at one of these steps over a connection that holds.
At(s, steps) == ses[s].pc \in steps /\ ~ses[s].dead

Go(s, changes) == ses' = [ses EXCEPT ![s] = changes]
Next_step(s) == [ses[s] EXCEPT !.pc = After(ses[s].policy, @),
                               !.seen = NoSettings, !.lines = <<>>]

-----------------------------------------------------------------------------
\* The target as the user left it: new, or with settings and lines of their
\* own, a proxy of their own among them.
Init ==
    /\ \E kind \in {"absent", "json", "broken"} :
         LET own == IF kind = "absent" THEN None ELSE User IN
         home = [settings |-> [kind |-> kind, term |-> None,
                               proxy |-> IF kind = "json" THEN own ELSE None,
                               foreign |-> kind # "absent"],
                 env |-> IF kind = "absent" THEN <<>> ELSE <<"user">>,
                 git |-> [global |-> own, workspace |-> [s \in Sessions |-> None]],
                 status |-> None]
    /\ ses \in [Sessions -> {[policy |-> p, pc |-> "idle", seen |-> NoSettings,
                              lines |-> <<>>, gitDone |-> FALSE, dead |-> FALSE,
                              setup |-> "pending", alone |-> FALSE] :
                                p \in Policies}]
    /\ hist = [ops |-> 0, fails |-> 0, was |-> home, cut |-> {}, torn |-> FALSE]

Overlap(s) ==
    [t \in Sessions |->
        IF t = s THEN ses[t] ELSE [ses[t] EXCEPT !.alone = FALSE]]

\* apply_remote_settings: the status is "running" while it lasts.
BeginApply(s) ==
    /\ ~Busy(s) /\ hist.ops < MaxOps
    /\ ses' = [Overlap(s) EXCEPT ![s].setup = "running", ![s].dead = FALSE,
                  ![s].alone = \A t \in Sessions \ {s} : ~Busy(t),
                  ![s].pc = StepFrom(ses[s].policy, ApplySteps, 1)]
    /\ hist' = [hist EXCEPT !.ops = @ + 1]
    /\ UNCHANGED home

\* proxy_session_down: the cleanup runs whatever was applied.
BeginClean(s) ==
    /\ ~Busy(s) /\ hist.ops < MaxOps
    /\ ses' = [Overlap(s) EXCEPT ![s].pc = "cleanRead", ![s].gitDone = FALSE, ![s].dead = FALSE,
                  ![s].alone = \A t \in Sessions \ {s} : ~Busy(t)]
    /\ hist' = [hist EXCEPT !.ops = @ + 1]
    /\ UNCHANGED home

\* Any SSH call of either may fail, and the rest is not tried.  A call over a connection that is
\* lost does.
Fail(s) ==
    /\ Busy(s) /\ (ses[s].dead \/ hist.fails < MaxFails)
    /\ Go(s, [ses[s] EXCEPT !.pc = "failed", !.seen = NoSettings,
                 !.lines = <<>>,
                 !.setup = IF @ = "running" THEN "failed" ELSE @])
    /\ hist' = [hist EXCEPT !.fails = IF ses[s].dead THEN @ ELSE @ + 1]
    /\ UNCHANGED home

\* wait_remote_port_ready found the route's own listener.
Probe(s) ==
    /\ At(s, {"probe"})
    /\ Go(s, Next_step(s))
    /\ UNCHANGED <<home, hist>>

ReadSettings(s) ==
    /\ At(s, {"readSettings", "cleanRead"})
    /\ Go(s, [Next_step(s) EXCEPT !.seen = home.settings])
    /\ UNCHANGED <<home, hist>>

\* A slip: the settings are written without what the file had.
WriteSettingsOver(s) ==
    /\ At(s, {"writeSettings"})
    /\ home' = [home EXCEPT !.settings =
                   MergeSettings(NoSettings, s, ses[s].policy)]
    /\ Go(s, Next_step(s))
    /\ UNCHANGED hist

WriteSettings(s) ==
    /\ At(s, {"writeSettings"})
    /\ home' = [home EXCEPT !.settings =
                   MergeSettings(ses[s].seen, s, ses[s].policy)]
    /\ Go(s, Next_step(s))
    /\ UNCHANGED hist

ReadEnv(s) ==
    /\ At(s, {"readEnv"})
    /\ Go(s, [Next_step(s) EXCEPT !.lines = home.env])
    /\ UNCHANGED <<home, hist>>

WriteEnv(s) ==
    /\ At(s, {"writeEnv"})
    /\ home' = [home EXCEPT !.env =
                   build_server_env_setup_content(ses[s].lines, s)]
    /\ Go(s, Next_step(s))
    /\ hist' = [hist EXCEPT !.torn = FALSE]

\* The helper replaces what is there, so it is asked only when the policy says
\* so. When it fails the script is run over what it did.
ApplyGit(s) ==
    LET p == ses[s].policy IN
    /\ At(s, {"git"})
    /\ \E done \in IF p.force THEN run_remote_admin_intents(GitIntents(p))
                              ELSE {{}} :
         /\ home' = [home EXCEPT !.git = SetGit(@, s, done, s)]
         /\ Go(s, IF done = ToSet(GitIntents(p))
                  THEN [ses[s] EXCEPT !.pc = After(p, "gitScript")]
                  ELSE Next_step(s))
    /\ UNCHANGED hist

\* build_git_config_script: without git on the host, or with a workspace that
\* is no work tree, nothing is done, and a failure of the global scope is
\* passed over. Only the workspace's failure, the last command, is an error,
\* which is Fail.
GitScript(s) ==
    /\ At(s, {"gitScript"})
    /\ \E done \in SUBSET ToSet(GitIntents(ses[s].policy)) :
         home' = [home EXCEPT !.git = SetGit(@, s, done, s)]
    /\ Go(s, Next_step(s))
    /\ UNCHANGED hist

\* The last write of an apply, and the status recorded for it.
WriteStatus(s) ==
    /\ At(s, {"status"})
    /\ home' = [home EXCEPT !.status = s]
    /\ Go(s, Next_step(s))
    /\ UNCHANGED hist

Record(s) ==
    /\ ses[s].pc = "applied" /\ ses[s].setup = "running"
    /\ Go(s, [ses[s] EXCEPT !.setup = "applied"])
    /\ UNCHANGED <<home, hist>>

\* No file, nothing to clean.
CleanWrite(s) ==
    /\ At(s, {"cleanWrite"})
    /\ home' = [home EXCEPT !.settings = IF ses[s].seen.kind = "absent"
                                         THEN @ ELSE CleanSettings(ses[s].seen)]
    /\ Go(s, Next_step(s))
    /\ UNCHANGED hist

\* The helper removes the values of the scopes the policy names.
CleanGit(s) ==
    LET intents == GitIntents(ses[s].policy) IN
    /\ At(s, {"cleanGit"})
    /\ \E done \in run_remote_admin_intents(intents) :
         /\ home' = [home EXCEPT !.git = SetGit(@, s, done, None)]
         /\ Go(s, [Next_step(s) EXCEPT !.gitDone = (done = ToSet(intents))])
    /\ UNCHANGED hist

\* build_cleanup_script_with_git: the Git part is in the script unless the
\* helper has done it, also when the policy names no Git scope. Without git on
\* the host it does nothing, and its failures are passed over.
ScriptUnsets(s) == IF ses[s].gitDone THEN {{}} ELSE SUBSET {"global", "workspace"}

CleanScript(s) ==
    /\ At(s, {"cleanScript"})
    /\ \E done \in ScriptUnsets(s) :
         home' = [home EXCEPT !.git = SetGit(@, s, done, None), !.status = None,
                              !.env = strip_managed_server_env_block(@)]
    /\ Go(s, Next_step(s))
    /\ hist' = [hist EXCEPT !.torn = FALSE]

-----------------------------------------------------------------------------
(* A connection that is lost during a command.  The command has not begun, *)
(* has ended or is cut: the file is moved into place with the part of it   *)
(* that came, and a script has run up to some line.  No exit status came,  *)
(* which is taken for success (exec_capture, exec_upload).                 *)

CutSettings(s, new) ==
    {home, [home EXCEPT !.settings = new],
           [home EXCEPT !.settings = [NoSettings EXCEPT !.kind = "broken"]]}

CutEnv(s) ==
    LET new == build_server_env_setup_content(ses[s].lines, s) IN
    {home} \cup {[home EXCEPT !.env = SubSeq(new, 1, n)] : n \in 0..Len(new)}

CutGit(s) ==
    {[home EXCEPT !.git = SetGit(@, s, done, s)] :
        done \in SUBSET ToSet(GitIntents(ses[s].policy))}

CutClean(s) ==
    {[home EXCEPT !.git = SetGit(@, s, done, None)] : done \in ScriptUnsets(s)}
    \cup {[home EXCEPT !.git = SetGit(@, s, done, None), !.status = None, !.env = e] :
              done \in ScriptUnsets(s), e \in {home.env, strip_managed_server_env_block(home.env)}}

Cut(s) ==
    /\ At(s, {"writeSettings", "cleanWrite", "writeEnv", "gitScript", "status", "cleanScript"})
    /\ hist.fails < MaxFails
    /\ home' \in
         CASE ses[s].pc = "writeSettings" -> CutSettings(s, MergeSettings(ses[s].seen, s, ses[s].policy))
           [] ses[s].pc = "cleanWrite" -> IF ses[s].seen.kind = "absent" THEN {home}
                                          ELSE CutSettings(s, CleanSettings(ses[s].seen))
           [] ses[s].pc = "writeEnv" -> CutEnv(s)
           [] ses[s].pc = "gitScript" -> CutGit(s)
           [] ses[s].pc = "status" -> {home, [home EXCEPT !.status = s], [home EXCEPT !.status = "broken"]}
           [] OTHER -> CutClean(s)
    /\ Go(s, [Next_step(s) EXCEPT !.dead = TRUE])
    /\ hist' = [hist EXCEPT !.fails = @ + 1,
                   !.cut = @ \cup {IF ses[s].pc = "writeEnv" THEN "env" ELSE "settings"},
                   !.torn = @ \/ ses[s].pc = "writeEnv"]

SetupNext ==
    \E s \in Sessions :
        \/ BeginApply(s) \/ BeginClean(s) \/ Fail(s) \/ Probe(s)
        \/ ReadSettings(s) \/ WriteSettings(s) \/ ReadEnv(s) \/ WriteEnv(s)
        \/ ApplyGit(s) \/ GitScript(s) \/ WriteStatus(s) \/ Record(s)
        \/ CleanWrite(s) \/ CleanGit(s) \/ CleanScript(s) \/ Cut(s)

Spec == Init /\ [][SetupNext]_setupVars

-----------------------------------------------------------------------------
Steps == Resting \cup ToSet(ApplySteps) \cup ToSet(CleanSteps)

TypeOK ==
    /\ home.settings \in [kind : {"absent", "json", "broken"},
                          proxy : Setting, term : Setting, foreign : BOOLEAN]
    /\ home.env \in Seq(Lines)
    /\ home.git \in [global : Setting, workspace : [Sessions -> Setting]]
    /\ home.status \in {None, "broken"} \cup Sessions
    /\ \A s \in Sessions :
         /\ ses[s].pc \in Steps
         /\ ses[s].setup \in {"pending", "running", "applied", "failed"}

\* However the applies and cleanups of several workspaces interleave and fail,
\* server-env-setup holds at most one managed block, and it is complete
\* (remote_setup_scripts.rs, build_server_env_setup_content and the awk of
\* the cleanup script). A write that lost its connection may leave part of a
\* block, until the next one.
OneBlock ==
    LET at(line) == {i \in DOMAIN home.env : home.env[i] = line} IN
    /\ Cardinality(at("begin")) <= 1
    /\ ~hist.torn => /\ Cardinality(at("begin")) = Cardinality(at("end"))
                     /\ \A i \in at("begin"), j \in at("end") : j = i + 2

\* What the user has in the files besides proxy settings survives every
\* interleaving: their lines of server-env-setup, and the other keys of a
\* settings file that can be parsed (apply_remote_machine_settings merges),
\* unless a write of that file lost its connection.
UserContentKept ==
    /\ "env" \notin hist.cut => SelectSeq(home.env, LAMBDA l : l = "user") =
                                   SelectSeq(hist.was.env, LAMBDA l : l = "user")
    /\ hist.was.settings.kind # "broken" /\ "settings" \notin hist.cut =>
           home.settings.foreign = hist.was.settings.foreign

\* A session whose setup is recorded as applied over a connection that held,
\* and during and since which nobody else worked on the target, has its URL in every file its policy
\* names (apply_settings.rs, RemoteSetupStatus::applied).
AppliedInPlace ==
    \A s \in Sessions :
        LET p == ses[s].policy IN
        ses[s].setup = "applied" /\ ses[s].pc = "applied" /\ ses[s].alone /\ ~ses[s].dead =>
            /\ p.settings => home.settings.proxy = s
            /\ p.settings /\ p.terminal => home.settings.term = s
            /\ p.env => SelectSeq(home.env, LAMBDA l : l \in Sessions) = <<s>>
            /\ p.status => home.status = s

\* After a cleanup that succeeded over a connection that held, with nobody
\* else at work on the target, nothing of any session is left in the shared
\* files, and nothing of this one in the Git configuration where the helper
\* cleaned it (cleanup_remote_settings).
CleanedIsGone ==
    \A s \in Sessions :
        ses[s].pc = "cleaned" /\ ses[s].alone /\ ~ses[s].dead =>
            /\ home.settings.proxy \notin Sessions
            /\ home.settings.term \notin Sessions
            /\ \A i \in DOMAIN home.env : home.env[i] = "user"
            /\ home.status = None
            /\ ses[s].gitDone => home.git.global # s /\ home.git.workspace[s] # s

\* "`down` stops the route and applies cleanup according to the session
\* policy": a cleanup leaves alone the Git proxy the user has set when no
\* session's policy touches Git (executor.rs, cleanup_remote_settings).
CleanupFollowsPolicy ==
    (\A s \in Sessions : ~ses[s].policy.gitGlobal) =>
        home.git.global = hist.was.git.global

-----------------------------------------------------------------------------
(* For an instance in which no session's policy touches Git.               *)
WithoutGit ==
  { [verify |-> FALSE, settings |-> TRUE, terminal |-> FALSE, env |-> TRUE, gitGlobal |-> FALSE,
     gitWorkspace |-> FALSE, status |-> TRUE, force |-> TRUE] }
=============================================================================
