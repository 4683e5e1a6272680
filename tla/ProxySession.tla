---------------------------- MODULE ProxySession ----------------------------
(***************************************************************************)
(* The proxy session of one workspace (node_daemon/proxy_session.rs and    *)
(* proxy_session/): the control requests ensure_proxy_session and          *)
(* proxy_session_down, the job tasks they spawn, the reconciliation at     *)
(* start-up, and the records of the job and of the session in jobs.json    *)
(* and sessions.json.                                                      *)
(*                                                                         *)
(* Job, session and route ids are functions of the workspace, so one job,  *)
(* one session and one route stand for a workspace.  Each step below is    *)
(* one critical section of the job registry, of the session store or of    *)
(* the route table; a record is changed in memory and then saved, and a    *)
(* save that fails leaves the change in memory.  The route table acts one  *)
(* request at a time, which RouteRegistry shows of its implementation.     *)
(***************************************************************************)
EXTENDS Naturals

CONSTANTS Clients,     \* control requests that may be in progress together
          Runners,     \* job tasks alive together (a bound)
          Specs,       \* what ensure_proxy_session is asked for
          Operations,  \* the requests clients make: "ensure", "down"
          Locals,      \* the part of a specification a route is compared on
          LastPort,    \* ports are candidates 1..LastPort, 1 is preferred
          SaveMayFail, \* whether a save of a store may fail
          PeerMayAge,  \* whether the peer may come to need an update
          MaxCrashes   \* a bound on the restarts of the daemon

Modes == {"reverse_link", "auto"}

(* connect_mode, local_proxy with the other compared fields, auto_pick and *)
(* apply_policy.verify_remote_port.                                        *)
Spec0 == [mode : Modes, local : Locals, auto : BOOLEAN, verify : BOOLEAN]

ASSUME SpecsAssumption == Specs \subseteq Spec0 /\ Specs # {}
ASSUME PortAssumption  == LastPort \in Nat \ {0}
ASSUME FlagAssumption  == /\ SaveMayFail \in BOOLEAN /\ PeerMayAge \in BOOLEAN
                          /\ Operations \subseteq {"ensure", "down"} /\ MaxCrashes \in Nat

Ports == 1..LastPort

candidates(spec) == IF spec.auto THEN Ports ELSE {1}

States     == {"none", "queued", "running", "waiting_retry", "healthy", "failed", "cancelled"}
Unfinished == {"queued", "running", "waiting_retry"}
Terminal   == {"healthy", "failed", "cancelled"}

(* Of the blockers only two are ever compared; "other" is any of the rest. *)
Blockers == {"none", "route_not_running", "remote_port_conflict", "other"}

(* A job: its state, its blocker and the port of its remote_url (0: none). *)
Job == [state : States, blocker : Blockers, port : Ports \cup {0}]

JobOf(s, b, p) == [state |-> s, blocker |-> b, port |-> p]
NoJob == JobOf("none", "none", 0)

(* A session: state and blocker copied from a job, the specification and   *)
(* port it was recorded with, and the port of its remote_url.  (The fields *)
(* remote_setup and handoff_probe only appear in answers.)                 *)
Session == [state : States, blocker : Blockers, local : Locals, verify : BOOLEAN,
            port : Ports \cup {0}, url : Ports \cup {0}]

AnySpec == CHOOSE s \in Specs : TRUE

NoSession == [state |-> "none", blocker |-> "none", local |-> AnySpec.local,
              verify |-> AnySpec.verify, port |-> 0, url |-> 0]

Route == [port : Ports, local : Locals]

RunnerPCs == {"off", "resolve", "peer_waiting", "bootstrap", "peer_ready", "start", "conflict",
              "repair", "restart", "accept", "accepted", "wait", "verify", "handoff",
              "probe_conflict", "port_conflict", "next_port", "apply", "applying", "monitor",
              "setup_failed", "setup_status", "healthy", "failed", "task_failed", "hung"}

ClientPCs == {"idle", "lookup", "live", "match", "peer", "reuse", "queue", "record",
              "stop", "clean", "cancel", "cancel_session"}

BootPCs == {"read", "check", "mark", "get", "save", "done"}

VARIABLES job, jobFile,     \* the job: in memory and in jobs.json
          sess, sessFile,   \* the session: in memory and in sessions.json
          route,            \* the registered route of this id, if any
          remote,           \* the port remote settings point to (0: cleaned)
          peerStale,        \* peers.json: update_required of the peer
          runner, client, boot, crashes

store == <<job, jobFile, sess, sessFile>>
vars  == <<job, jobFile, sess, sessFile, route, remote, peerStale, runner, client, boot, crashes>>

Runner == [pc : RunnerPCs, spec : Specs, port : Ports, pend : Job]
Client == [pc : ClientPCs, spec : Specs, job : Job]
Boot   == [pc : BootPCs, sess : Session, job : Job]

Off  == [pc |-> "off", spec |-> AnySpec, port |-> 1, pend |-> NoJob]
Idle == [pc |-> "idle", spec |-> AnySpec, job |-> NoJob]

TypeOK ==
  /\ job \in Job /\ jobFile \in Job /\ sess \in Session /\ sessFile \in Session
  /\ route \subseteq Route /\ remote \in Ports \cup {0} /\ peerStale \in BOOLEAN
  /\ runner \in [Runners -> Runner] /\ client \in [Clients -> Client] /\ boot \in Boot
  /\ crashes \in Nat

Booting == [pc |-> "read", sess |-> NoSession, job |-> NoJob]

(* The first start-up is over: there was no session to reconcile.          *)
Init ==
  /\ job = NoJob /\ jobFile = NoJob /\ sess = NoSession /\ sessFile = NoSession
  /\ route = {} /\ remote = 0 /\ peerStale = FALSE /\ crashes = 0
  /\ runner = [r \in Runners |-> Off] /\ client = [c \in Clients |-> Idle]
  /\ boot = [Booting EXCEPT !.pc = "done"]

-----------------------------------------------------------------------------
(* The stores.                                                             *)
Saves == IF SaveMayFail THEN BOOLEAN ELSE {TRUE}

upsert_job(j, ok) == job' = j /\ jobFile' = IF ok THEN j ELSE jobFile

put_session(s, ok) == sess' = s /\ sessFile' = IF ok THEN s ELSE sessFile

(* update_proxy_session_record_from_job, on a new record if there is none. *)
FromJob(spec, port, j) ==
  [state |-> j.state, blocker |-> j.blocker, local |-> spec.local, verify |-> spec.verify,
   port |-> port, url |-> IF j.port = 0 THEN port ELSE j.port]

(* stop_route: a missing route is an error that every caller here ignores. *)
StopRoute == route' = {}

-----------------------------------------------------------------------------
(* A slip: a job that waits for a retry is taken for a finished one.       *)
reusable_unless_waiting(j, live) ==
  \/ j.state \in {"queued", "running"}
  \/ j.state = "healthy" /\ live

(* ensure_proxy_session: an existing job is reused when it is not finished *)
(* or its route is live, the recorded session matches, and the peer is     *)
(* current.  The four are read one after the other.                        *)
reusable_proxy_session_job(j, live) ==
  \/ j.state \in {"queued", "running"}
  \/ j.state = "waiting_retry" /\ j.blocker # "route_not_running"
  \/ j.state = "healthy" /\ live

(* proxy_session_specs_match on the specification that to_spec rebuilds:   *)
(* its connect mode is always ReverseLink, its port the recorded one.      *)
specs_match(s, spec) ==
  /\ spec.mode = "reverse_link"
  /\ s.local = spec.local /\ s.verify = spec.verify
  /\ s.port = 1 \/ (spec.auto /\ s.port \in candidates(spec))

ClientGoes(c, pc) == client' = [client EXCEPT ![c] = [@ EXCEPT !.pc = pc]]
Answered(c)       == client' = [client EXCEPT ![c] = Idle]

ensure_proxy_session(c) ==
  /\ client[c].pc = "idle" /\ "ensure" \in Operations
  /\ \E spec \in Specs :
       client' = [client EXCEPT ![c] = [pc |-> "lookup", spec |-> spec, job |-> NoJob]]
  /\ UNCHANGED <<store, route, remote, peerStale, runner, boot, crashes>>

EnsureLookup(c) ==
  /\ client[c].pc = "lookup"
  /\ client' = [client EXCEPT ![c] =
       [@ EXCEPT !.job = job, !.pc = IF job = NoJob THEN "queue" ELSE "live"]]
  /\ UNCHANGED <<store, route, remote, peerStale, runner, boot, crashes>>

EnsureLive(c) ==
  /\ client[c].pc = "live"
  /\ ClientGoes(c, IF reusable_proxy_session_job(client[c].job, route # {})
                   THEN "match" ELSE "queue")
  /\ UNCHANGED <<store, route, remote, peerStale, runner, boot, crashes>>

EnsureMatch(c) ==
  /\ client[c].pc = "match"
  /\ ClientGoes(c, IF sess # NoSession /\ specs_match(sess, client[c].spec)
                   THEN "peer" ELSE "queue")
  /\ UNCHANGED <<store, route, remote, peerStale, runner, boot, crashes>>

EnsurePeer(c) ==
  /\ client[c].pc = "peer"
  /\ ClientGoes(c, IF peerStale THEN "queue" ELSE "reuse")
  /\ UNCHANGED <<store, route, remote, peerStale, runner, boot, crashes>>

(* The session is recorded again from the job that was read at the start.  *)
EnsureReuse(c) ==
  /\ client[c].pc = "reuse"
  /\ \E ok \in Saves : put_session(FromJob(client[c].spec, 1, client[c].job), ok)
  /\ Answered(c)
  /\ UNCHANGED <<job, jobFile, route, remote, peerStale, runner, boot, crashes>>

(* A new job replaces whatever the registry holds under this id.           *)
EnsureQueue(c) ==
  /\ client[c].pc = "queue"
  /\ LET j == JobOf("queued", "none", 1) IN
     \E ok \in Saves :
       /\ upsert_job(j, ok)
       /\ IF ok THEN client' = [client EXCEPT ![c] = [@ EXCEPT !.pc = "record", !.job = j]]
                ELSE Answered(c)
  /\ UNCHANGED <<sess, sessFile, route, remote, peerStale, runner, boot, crashes>>

Active(r) == runner[r].pc # "off" \/ runner[r].pend # NoJob

(* A task that hangs leaves its place to another.                          *)
Hangs(r) == runner[r].pc = "hung" /\ runner[r].pend = NoJob

Started(spec) == [pc |-> "resolve", spec |-> spec, port |-> 1, pend |-> NoJob]

(* The session is recorded and the job task is spawned; if the record      *)
(* cannot be saved no task is.                                             *)
EnsureRecord(c) ==
  /\ client[c].pc = "record"
  /\ \E ok \in Saves, r \in Runners :
       /\ ~Active(r) \/ Hangs(r)
       /\ put_session(FromJob(client[c].spec, 1, client[c].job), ok)
       /\ runner' = IF ok THEN [runner EXCEPT ![r] = Started(client[c].spec)] ELSE runner
  /\ Answered(c)
  /\ UNCHANGED <<job, jobFile, route, remote, peerStale, boot, crashes>>

-----------------------------------------------------------------------------
(* proxy_session_down: stop the route, clean the remote settings, record   *)
(* the job and then the session as cancelled.  A job task is left alone.   *)
proxy_session_down(c) ==
  /\ client[c].pc = "idle" /\ "down" \in Operations
  /\ ClientGoes(c, "stop")
  /\ UNCHANGED <<store, route, remote, peerStale, runner, boot, crashes>>

DownStop(c) ==
  /\ client[c].pc = "stop"
  /\ StopRoute
  /\ ClientGoes(c, "clean")
  /\ UNCHANGED <<store, remote, peerStale, runner, boot, crashes>>

(* A cleanup that fails is reported in the answer, and down goes on; but   *)
(* the commands of the cleanup have no time limit, and of a request whose  *)
(* command never returns nothing more is seen.                             *)
DownClean(c) ==
  /\ client[c].pc = "clean"
  /\ remote' \in {0, remote}
  /\ ClientGoes(c, "cancel") \/ Answered(c)
  /\ UNCHANGED <<store, route, peerStale, runner, boot, crashes>>

DownCancel(c) ==
  /\ client[c].pc = "cancel"
  /\ \E ok \in Saves : /\ upsert_job(JobOf("cancelled", "none", 0), ok)
                       /\ IF ok THEN ClientGoes(c, "cancel_session") ELSE Answered(c)
  /\ UNCHANGED <<sess, sessFile, route, remote, peerStale, runner, boot, crashes>>

DownSession(c) ==
  /\ client[c].pc = "cancel_session"
  /\ \E ok \in Saves :
       put_session(IF sess = NoSession THEN sess ELSE [sess EXCEPT !.state = "cancelled"], ok)
  /\ Answered(c)
  /\ UNCHANGED <<job, jobFile, route, remote, peerStale, runner, boot, crashes>>

-----------------------------------------------------------------------------
(* The job task.  It records a job, then copies it into the session; what  *)
(* it has yet to copy is `pend'.  Records of the same state that follow    *)
(* each other with nothing in between are one step, and what the peer or   *)
(* the remote host answers is chosen with the record before it.  The       *)
(* commands that ensure the peer, apply the settings and start a host on   *)
(* the peer have no time limit: a task with one that never returns hangs.  *)
At(r, pc) == runner[r].pc = pc /\ runner[r].pend = NoJob

Goes(r, pc) == runner' = [runner EXCEPT ![r] = [@ EXCEPT !.pc = pc]]

(* run_proxy_session_job fails as a whole when a record cannot be saved.   *)
Record(r, j, pc) ==
  \E ok \in Saves :
    /\ upsert_job(j, ok)
    /\ runner' = [runner EXCEPT ![r] = IF ok THEN [@ EXCEPT !.pc = pc, !.pend = j]
                                       ELSE [@ EXCEPT !.pc = "task_failed"]]
    /\ UNCHANGED <<sess, sessFile>>

(* The events of the peer lifecycle only log a record that is not saved.   *)
EventLost(r, j, pc) ==
  /\ SaveMayFail
  /\ upsert_job(j, FALSE)
  /\ Goes(r, pc)
  /\ UNCHANGED <<sess, sessFile>>

Running(r) == JobOf("running", "none", runner[r].port)
Waiting(r) == JobOf("waiting_retry", "none", runner[r].port)
Failed(r)  == JobOf("failed", "other", runner[r].port)

(* Where a task is after an event of the peer lifecycle.                   *)
AfterEvent == {"peer_ready", "peer_waiting", "failed", "hung"}

(* The second half of every record.  Before "handoff", "apply" and         *)
(* "applying" the session is saved once more, with the state of the probe  *)
(* or of the remote setup.                                                 *)
RunnerCopies(r) ==
  LET here  == runner[r].pc
      event == here \in AfterEvent /\ runner[r].pend.state = "running"
  IN
  /\ runner[r].pend # NoJob
  /\ \E ok, status_ok \in Saves :
       /\ put_session(FromJob(runner[r].spec, runner[r].port, runner[r].pend), ok)
       /\ runner' = [runner EXCEPT ![r] = [@ EXCEPT !.pend = NoJob,
            !.pc = IF \/ ok /\ (status_ok \/ here \notin {"handoff", "apply", "applying"})
                      \/ event /\ status_ok
                   THEN here ELSE "task_failed"]]
  /\ UNCHANGED <<job, jobFile, route, remote, peerStale, client, boot, crashes>>

(* An event of the peer lifecycle.  The record of the peer that goes with  *)
(* it clears update_required, unless that of the job or of the session is  *)
(* not saved.                                                              *)
PeerEvent(r, pc) ==
  \/ /\ Record(r, Running(r), pc)
     /\ peerStale' \in IF SaveMayFail THEN {FALSE, peerStale} ELSE {FALSE}
  \/ EventLost(r, Running(r), pc) /\ UNCHANGED peerStale

(* The specification is validated and the peer ensured, by                 *)
(* run_remote_peer_ensure_job: its descriptor is adopted, or it is         *)
(* installed, which may fail.                                              *)
RunnerPrepares(r) ==
  /\ \/ /\ At(r, "resolve")
        /\ \/ Record(r, Running(r), "failed") /\ UNCHANGED peerStale
           \/ SaveMayFail /\ Record(r, Running(r), "task_failed") /\ UNCHANGED peerStale
           \/ \E pc \in {"peer_ready", "peer_waiting", "hung"} : PeerEvent(r, pc)
     \/ At(r, "peer_waiting") /\ Record(r, Waiting(r), "bootstrap") /\ UNCHANGED peerStale
     \/ At(r, "bootstrap") /\ \E pc \in {"peer_ready", "failed", "hung"} : PeerEvent(r, pc)
     \/ At(r, "peer_ready") /\ Record(r, Running(r), "start") /\ peerStale' = FALSE
  /\ UNCHANGED <<route, remote, client, boot, crashes>>

(* A slip: the failure is only logged.                                     *)
RunnerDropsFailure(r) ==
  /\ At(r, "failed")
  /\ Goes(r, "off")
  /\ UNCHANGED <<store, route, remote, peerStale, client, boot, crashes>>

(* The end of an attempt that is not repeated: an invalid specification, a *)
(* peer, which is recorded as failed, a route or handoff that failed.      *)
RunnerRecordsFailure(r) ==
  /\ At(r, "failed")
  /\ Record(r, Failed(r), "off")
  /\ peerStale' \in {FALSE, peerStale}
  /\ UNCHANGED <<route, remote, client, boot, crashes>>

RouteOf(r) == [port |-> runner[r].port, local |-> runner[r].spec.local]

(* handle_route_intent: the route is started, reused, refused for another  *)
(* specification under its id, or refused for another reason.  A direct    *)
(* plan, chosen in mode auto, starts a host on the peer and no route here. *)
RouteIntent(r, different) ==
  \/ route \in {{}, {RouteOf(r)}} /\ route' = {RouteOf(r)} /\ Goes(r, "accept")
  \/ route # {} /\ route # {RouteOf(r)} /\ Goes(r, different) /\ UNCHANGED route
  \/ Goes(r, "failed") /\ UNCHANGED route
  \/ runner[r].spec.mode = "auto" /\ UNCHANGED route /\ (Goes(r, "accept") \/ Goes(r, "hung"))

(* run_proxy_session_route_attempt: a route of another specification is    *)
(* stopped and the intent is tried once more.                              *)
RunnerStarts(r) ==
  /\ \/ At(r, "start") /\ RouteIntent(r, "conflict") /\ UNCHANGED store
     \/ At(r, "conflict") /\ Record(r, Waiting(r), "repair") /\ UNCHANGED route
     \/ At(r, "repair") /\ StopRoute /\ Goes(r, "restart") /\ UNCHANGED store
     \/ At(r, "restart") /\ RouteIntent(r, "failed") /\ UNCHANGED store
  /\ UNCHANGED <<remote, peerStale, client, boot, crashes>>

(* record_route_intent_accepted copies into the session the job it reads   *)
(* back from the registry, which another task may have replaced.           *)
RunnerAccepts(r) ==
  /\ \/ /\ At(r, "accept")
        /\ \E ok \in Saves : /\ upsert_job(Running(r), ok)
                             /\ Goes(r, IF ok THEN "accepted" ELSE "task_failed")
     \/ /\ At(r, "accepted")
        /\ runner' = [runner EXCEPT ![r] = [@ EXCEPT !.pc = "wait", !.pend = job]]
        /\ UNCHANGED <<job, jobFile>>
  /\ UNCHANGED <<sess, sessFile, route, remote, peerStale, client, boot, crashes>>

(* wait_for_proxy_route_ready polls the route of this id until it is up or *)
(* 90 s have passed, then verifies the remote port unless the policy skips *)
(* that.  (The branch for a failed route is never taken: a supervisor      *)
(* reports starting, running or restarting.)                               *)
RunnerWaits(r) ==
  /\ \/ At(r, "wait") /\ route # {} /\ Goes(r, "verify") /\ UNCHANGED store
     \/ At(r, "wait") /\ Record(r, Failed(r), "off")
     \/ At(r, "verify") /\ Record(r, Running(r), IF runner[r].spec.verify THEN "handoff"
                                                 ELSE "apply")
     \/ At(r, "handoff")
        /\ \E pc \in {"apply", "probe_conflict", "failed"} : Record(r, Waiting(r), pc)
     \/ At(r, "probe_conflict")
        /\ Record(r, [Failed(r) EXCEPT !.blocker = "remote_port_conflict"],
                  IF runner[r].spec.auto THEN "port_conflict" ELSE "off")
  /\ UNCHANGED <<route, remote, peerStale, client, boot, crashes>>

(* A conflicting port: the route is stopped and the next candidate tried,  *)
(* as long as ports are picked automatically and one is left.              *)
RunnerPorts(r) ==
  LET last == runner[r].port = LastPort IN
  /\ \/ At(r, "port_conflict") /\ ~last /\ StopRoute /\ UNCHANGED store
        /\ runner' = [runner EXCEPT ![r] = [@ EXCEPT !.pc = "next_port", !.port = @ + 1]]
     \/ At(r, "port_conflict") /\ last /\ Record(r, Failed(r), "off") /\ UNCHANGED route
     \/ At(r, "next_port") /\ Record(r, Waiting(r), "start") /\ UNCHANGED route
  /\ UNCHANGED <<remote, peerStale, client, boot, crashes>>

(* The remote settings are applied, partly or fully, and the job is        *)
(* recorded healthy only when all of them were.                            *)
RunnerApplies(r) ==
  /\ \/ At(r, "apply") /\ Record(r, Running(r), "applying") /\ UNCHANGED remote
     \/ At(r, "applying") /\ remote' = runner[r].port /\ UNCHANGED store
        /\ \E ok \in Saves : Goes(r, IF ok THEN "monitor" ELSE "task_failed")
     \/ At(r, "applying") /\ remote' \in {runner[r].port, remote} /\ UNCHANGED store
        /\ \E pc \in {"setup_failed", "hung"} : Goes(r, pc)
     \/ At(r, "setup_failed") /\ Record(r, Failed(r), "setup_status") /\ UNCHANGED remote
     \/ At(r, "setup_status") /\ UNCHANGED <<store, remote>>
        /\ \E ok \in Saves : Goes(r, IF ok THEN "off" ELSE "task_failed")
     \/ At(r, "monitor") /\ Record(r, Running(r), "healthy") /\ UNCHANGED remote
     \/ At(r, "healthy") /\ Record(r, JobOf("healthy", "none", runner[r].port), "off")
        /\ UNCHANGED remote
  /\ UNCHANGED <<route, peerStale, client, boot, crashes>>

(* A task that ends with an error records the job, and not the session.    *)
RunnerFails(r) ==
  /\ At(r, "task_failed")
  /\ \E ok \in Saves : upsert_job(Failed(r), ok)
  /\ Goes(r, "off")
  /\ UNCHANGED <<sess, sessFile, route, remote, peerStale, client, boot, crashes>>

-----------------------------------------------------------------------------
(* reconcile_proxy_sessions, at start-up and while requests are served: an *)
(* unfinished session, or a healthy one without a live route, has its job  *)
(* set back to waiting_retry.  An error here ends the daemon (Restart).    *)
BootGoes(pc) == boot' = [boot EXCEPT !.pc = pc]

(* A slip: a session recorded healthy is adopted without a look at its     *)
(* route.                                                                  *)
ReconcileAdopts ==
  /\ boot.pc = "check"
  /\ BootGoes("done")
  /\ UNCHANGED <<store, route, remote, peerStale, runner, client, crashes>>

ReconcileRead ==
  /\ boot.pc = "read"
  /\ boot' = [boot EXCEPT !.sess = sess,
        !.pc = IF sess.state \in Unfinished THEN "mark"
               ELSE IF sess.state = "healthy" THEN "check" ELSE "done"]
  /\ UNCHANGED <<store, route, remote, peerStale, runner, client, crashes>>

ReconcileCheck ==
  /\ boot.pc = "check"
  /\ BootGoes(IF route = {} THEN "mark" ELSE "done")
  /\ UNCHANGED <<store, route, remote, peerStale, runner, client, crashes>>

ReconcileMark ==
  /\ boot.pc = "mark"
  /\ upsert_job(JobOf("waiting_retry",
                      IF boot.sess.state = "healthy" THEN "route_not_running" ELSE "none",
                      boot.sess.url), TRUE)
  /\ BootGoes("get")
  /\ UNCHANGED <<sess, sessFile, route, remote, peerStale, runner, client, crashes>>

ReconcileGet ==
  /\ boot.pc = "get"
  /\ boot' = [boot EXCEPT !.pc = "save", !.job = job]
  /\ UNCHANGED <<store, route, remote, peerStale, runner, client, crashes>>

ReconcileSave ==
  /\ boot.pc = "save"
  /\ put_session(FromJob(boot.sess, boot.sess.port, boot.job), TRUE)
  /\ boot' = [Booting EXCEPT !.pc = "done"]
  /\ UNCHANGED <<job, jobFile, route, remote, peerStale, runner, client, crashes>>

Reconcile == ReconcileRead \/ ReconcileCheck \/ ReconcileMark \/ ReconcileGet \/ ReconcileSave

(* The daemon ends and is started again: the routes of proxy sessions are  *)
(* volatile, the stores are loaded from their files.                       *)
Restart ==
  /\ crashes < MaxCrashes
  /\ crashes' = crashes + 1
  /\ job' = jobFile /\ sess' = sessFile /\ route' = {}
  /\ runner' = [r \in Runners |-> Off] /\ client' = [c \in Clients |-> Idle] /\ boot' = Booting
  /\ UNCHANGED <<jobFile, sessFile, remote, peerStale>>

(* A refresh of the peer finds that it needs an update.                    *)
PeerAges ==
  /\ PeerMayAge /\ ~peerStale
  /\ peerStale' = TRUE
  /\ UNCHANGED <<store, route, remote, runner, client, boot, crashes>>

ClientStep(c) ==
  \/ EnsureLookup(c) \/ EnsureLive(c) \/ EnsureMatch(c) \/ EnsurePeer(c)
  \/ EnsureReuse(c) \/ EnsureQueue(c) \/ EnsureRecord(c)
  \/ DownStop(c) \/ DownClean(c) \/ DownCancel(c) \/ DownSession(c)

RunnerStep(r) ==
  \/ RunnerCopies(r) \/ RunnerPrepares(r) \/ RunnerRecordsFailure(r) \/ RunnerStarts(r)
  \/ RunnerAccepts(r) \/ RunnerWaits(r) \/ RunnerPorts(r) \/ RunnerApplies(r) \/ RunnerFails(r)

Next ==
  \/ \E c \in Clients : ensure_proxy_session(c) \/ proxy_session_down(c) \/ ClientStep(c)
  \/ \E r \in Runners : RunnerStep(r)
  \/ Reconcile
  \/ Restart
  \/ PeerAges

Spec == Init /\ [][Next]_vars

(* The runtime runs every task that can take a step, and start-up runs to  *)
(* its end.  (A command that never returns is the pc "hung", from which no *)
(* step leads.)  Nobody has to make requests.                              *)
Fairness ==
  /\ \A c \in Clients : WF_vars(ClientStep(c))
  /\ \A r \in Runners : WF_vars(RunnerStep(r))
  /\ WF_vars(Reconcile)

FairSpec == Spec /\ Fairness

(* The same with clients that ask for the session again and again, as the  *)
(* next_action rerun_ensure_proxy_session of a waiting job tells them to.  *)
RepeatSpec == FairSpec /\ \A c \in Clients : WF_vars(ensure_proxy_session(c))

-----------------------------------------------------------------------------
Quiet ==
  /\ boot.pc = "done"
  /\ \A c \in Clients : client[c].pc = "idle"
  /\ \A r \in Runners : ~Active(r)

(* Whatever runs can be found: while a job task is alive, or a route of    *)
(* the session is registered, there is a session record by which           *)
(* proxy_session_down and the reconciliation find them.                    *)
Findable == route # {} \/ (\E r \in Runners : Active(r)) => sess # NoSession

AtWork(r) == runner[r].pc \notin {"off", "setup_status"}

(* A client that repeats ensure_proxy_session, one request after another   *)
(* and always for the same fixed port, never gets a second job task for    *)
(* its session: as long as one is at work, its job is reused.  (A task     *)
(* that only has its last record to copy into the session is at its end.   *)
(* After a restart, reconcile_proxy_sessions may set the job of a task     *)
(* aside that was spawned before it came to the session.)                  *)
OneRunner ==
  crashes = 0 => \A q, r \in Runners : AtWork(q) /\ AtWork(r) => q = r

(* A job task never leaves the route of a candidate port it has given up   *)
(* behind: the route registered under its id is on the port it is trying   *)
(* now, or on a higher one that an earlier task found.                     *)
NoAbandonedRoute ==
  \A r \in Runners : runner[r].pc # "off" => \A x \in route : x.port >= runner[r].port

(* From the accepted intent to the healthy record, a job task for a        *)
(* reverse link that is the only one has its own route registered, not one *)
(* to the local proxy of an earlier request left running under its id.     *)
ServesItsRoute ==
  \A r \in Runners :
    runner[r].pc \in {"accept", "accepted", "wait", "verify", "handoff", "apply", "applying",
                     "monitor", "healthy"} /\ runner[r].spec.mode = "reverse_link"
      => route = {RouteOf(r)}

(* When nothing is in progress, a session that is recorded healthy has its *)
(* route, on the port its remote_url names and the remote settings point   *)
(* to: a restart in between, at any point, does not leave it recorded      *)
(* healthy without one.                                                    *)
HealthyHasRoute ==
  Quiet /\ sess.state = "healthy" =>
    route = {[port |-> sess.url, local |-> sess.local]} /\ remote = sess.url

(* When nothing is in progress, a session that proxy_session_down recorded *)
(* as cancelled has no route any more.                                     *)
CancelledHasNoRoute == Quiet /\ job.state = "cancelled" => route = {}

(* A job task brings its job to an end, healthy, failed or cancelled, with *)
(* other tasks and requests at work on the same job, hanging ones among    *)
(* them, unless a remote command of its own never returns.                 *)
TasksEnd == \A r \in Runners : AtWork(r) ~> (job.state \in Terminal \/ runner[r].pc = "hung")

(* Start-up resumes an unfinished job: after a restart and its             *)
(* reconciliation, the job comes to an end, unless a task for it hangs.    *)
Resumes == crashes > 0 /\ boot.pc = "done" /\ job.state \in Unfinished
             ~> job.state \in Terminal \/ \E r \in Runners : runner[r].pc = "hung"

-----------------------------------------------------------------------------
(* Requests for the instances that TLC checks.                             *)
SpecOf(m, l, a, v) == [mode |-> m, local |-> l, auto |-> a, verify |-> v]

(* One client's request, a fixed port that is verified.                    *)
FixedSpec == { SpecOf("reverse_link", "x", FALSE, TRUE) }

(* No verification, so that the run is short.                              *)
PlainSpec == { SpecOf("reverse_link", "x", FALSE, FALSE) }
=============================================================================
