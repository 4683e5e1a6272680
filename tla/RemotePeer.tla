----------------------------- MODULE RemotePeer -----------------------------
(***************************************************************************)
(* The persistent peer of one remote host, as the daemon installs, adopts  *)
(* and records it (node_daemon/remote_peer.rs, node_daemon/peers.rs and    *)
(* deploy/): the jobs of remote_peer_ensure, _repair and _update, the same *)
(* work on behalf of a proxy session, and the requests peer_bootstrap,     *)
(* peer_refresh, peer_rotate_token and peer_forget.                        *)
(*                                                                         *)
(* Four records have to agree: the profile in config.toml with the token   *)
(* of the peer, the peer in peers.json, the job in jobs.json, and the      *)
(* service on the remote host, which accepts one token on one port.  Every *)
(* operation                                                               *)
(* reads the token under the lock of the configuration, works on the host  *)
(* without it, and takes it again to record what it did.  A record is      *)
(* changed in memory and then saved; a save that fails leaves the change   *)
(* in memory.                                                              *)
(***************************************************************************)
EXTENDS Naturals

CONSTANTS Ops,         \* operations that may be in progress together
          Ports,       \* ports of the remote host, by the one for its control
          DefaultPort,
          Scenarios,   \* what may happen together
          MaxRequests, \* a bound on the requests
          MaxCrashes   \* a bound on the restarts of the daemon

Kinds  == {"ensure", "attached", "session", "bootstrap", "refresh", "rotate"}
Stores == {"config", "jobs", "peers", "sessions"}

(* The operations clients ask for and how many, the stores whose saves may *)
(* fail, and the restarts.                                                 *)
Scenario == [kinds : SUBSET Kinds, requests : 0..MaxRequests, faults : SUBSET Stores,
             crashes : 0..MaxCrashes]

ASSUME PortAssumption == Ports \subseteq Nat /\ DefaultPort \in Ports
ASSUME BoundAssumption == MaxRequests \in Nat /\ MaxCrashes \in Nat /\ Scenarios \subseteq Scenario

(* Tokens in the order they were generated; a request generates at most    *)
(* one, and 0 is none.                                                     *)
Tokens == 0..(MaxRequests + 1)

JobStates  == {"none", "queued", "running", "waiting_retry", "healthy", "failed"}
Terminal   == {"healthy", "failed"}
PeerStates == {"none", "running", "healthy", "failed"}
Versions   == {"none", "old", "new"}

(* The profile: its token and the port of the peer.                        *)
Profile == [tok : Tokens, port : Ports]

(* A port of the host: the token on the command line of the service there  *)
(* (0: none), token and version of the daemon that runs (0: none does),    *)
(* and whether it survived the last command to restart it.  Of the files   *)
(* that the installation writes, the daemon reads the token of config.toml *)
(* only if there is none on its command line, and there is always one.     *)
Service == [svc : Tokens, tok : Tokens, ver : Versions, kept : BOOLEAN]
NoService == [svc |-> 0, tok |-> 0, ver |-> "none", kept |-> FALSE]

(* The host: the installed binary, whether its supervisor is nohup, with   *)
(* files for every port, or a service manager with one service, and what   *)
(* is on each port.                                                        *)
Remote == [bin : Versions, nohup : BOOLEAN, at : [Ports -> Service]]

PCs == {"off", "queue", "inspect", "descriptor", "waiting", "phases", "defaults", "upload",
        "service", "probe", "answered", "profile", "record", "finish", "fail", "task_failed",
        "rotate", "hung"}

(* An operation: half tells that its job is recorded and the peer is not   *)
(* yet; calm that nothing else has touched the peer since it began.        *)
Op == [kind : Kinds, pc : PCs, half : BOOLEAN, tok : Tokens, port : Ports, calm : BOOLEAN]

VARIABLES profile, profileFile, job, jobFile, peer, peerFile,
          scene,                \* what may happen in this behaviour
          remote, late,         \* the remote host, install commands given up
          op, tokens, requests, crashes,
          clean,                \* whether the last job to end healthy was calm
          overwritten           \* whether a session has worked on the peer since

config == <<profile, profileFile>>
jobs   == <<job, jobFile>>
peers  == <<peer, peerFile>>
world  == <<scene, remote, late>>
counts == <<tokens, requests, crashes>>
ended  == <<clean, overwritten>>
vars   == <<config, jobs, peers, world, op, counts, ended>>

Off == [kind |-> "ensure", pc |-> "off", half |-> FALSE, tok |-> 0, port |-> DefaultPort,
        calm |-> TRUE]

TypeOK ==
  /\ profile \in Profile /\ profileFile \in Profile
  /\ job \in JobStates /\ jobFile \in JobStates /\ peer \in PeerStates /\ peerFile \in PeerStates
  /\ scene \in Scenarios /\ remote \in Remote /\ late \subseteq Tokens \X Ports
  /\ op \in [Ops -> Op] /\ tokens \in Tokens /\ requests \in 0..MaxRequests
  /\ crashes \in 0..MaxCrashes /\ clean \in BOOLEAN /\ overwritten \in BOOLEAN

(* No peer, one of an earlier version that is recorded, or one that was    *)
(* installed from somewhere else.                                          *)
Init ==
  /\ LET none == [p \in Ports |-> NoService]
         there == [none EXCEPT ![DefaultPort] =
                     [svc |-> 1, tok |-> 1, ver |-> "old", kept |-> FALSE]]
         known == [tok |-> 1, port |-> DefaultPort]
         unknown == [tok |-> 0, port |-> DefaultPort] IN
     \/ remote \in [bin : {"none"}, nohup : BOOLEAN, at : {none}] /\ profile = unknown
     \/ remote \in [bin : {"old"}, nohup : BOOLEAN, at : {there}] /\ profile \in {known, unknown}
  /\ profileFile = profile /\ job = "none" /\ jobFile = "none" /\ peer = "none" /\ peerFile = "none"
  /\ scene \in Scenarios /\ late = {} /\ op = [o \in Ops |-> Off]
  /\ tokens = 1 /\ requests = 0 /\ crashes = 0 /\ clean = TRUE /\ overwritten = FALSE

-----------------------------------------------------------------------------
(* The stores.                                                             *)
Saves(store) == IF store \in scene.faults THEN BOOLEAN ELSE {TRUE}

PutJob(s, ok)     == job' = s /\ jobFile' = IF ok THEN s ELSE jobFile
PutPeer(s, ok)    == peer' = s /\ peerFile' = IF ok THEN s ELSE peerFile
PutProfile(p, ok) == profile' = p /\ profileFile' = IF ok THEN p ELSE profileFile

Goes(o, pc) == op' = [op EXCEPT ![o] = CASE pc = "off" -> Off
                                         [] pc = "hung" -> [Off EXCEPT !.pc = pc]
                                         [] OTHER -> [@ EXCEPT !.pc = pc, !.half = FALSE]]
Half(o)     == op' = [op EXCEPT ![o].half = TRUE]

At(o, pc) == op[o].pc = pc
Active(o) == op[o].pc \notin {"off", "hung"}

(* run_remote_peer_ensure_job works for a job of its own, for one that came*)
(* with a session, or for the job of a session.                            *)
Ensures(o) == op[o].kind \in {"ensure", "attached", "session"}
HasSpec(o) == op[o].kind \in {"attached", "session"}
OwnJob(o)  == op[o].kind \in {"ensure", "attached"}

(* An operation on the peer begins: it reads the token and the port of the *)
(* profile, and disturbs whatever is in progress.                          *)
Begins(o, kind, pc) ==
  op' = [p \in Ops |->
    IF p = o THEN [kind |-> kind, pc |-> pc, half |-> FALSE,
                   tok |-> profile.tok, port |-> profile.port,
                   calm |-> \A q \in Ops : ~Active(q)]
    ELSE IF ~Active(p) THEN op[p] ELSE [op[p] EXCEPT !.calm = FALSE]]

Asked(o, kind) ==
  /\ kind \in scene.kinds /\ requests < scene.requests
  /\ At(o, "off") /\ o = CHOOSE p \in Ops : At(p, "off")   \* any free slot will do
  /\ requests' = requests + 1

(* accept_remote_peer_job and bootstrap_peer save the configuration when   *)
(* they have read it.  Only a forced bootstrap goes on with a peer that is *)
(* recorded, and only an ensure that is not forced adopts one: force is a  *)
(* choice of the client, made here where it is looked at.                  *)
accept_remote_peer_job(o) ==
  /\ \E kind \in {"ensure", "attached"}, ok \in Saves("config") :
       /\ Asked(o, kind)
       /\ PutProfile(profile, ok)
       /\ IF ok THEN Begins(o, kind, "queue") ELSE UNCHANGED op
  /\ UNCHANGED <<jobs, peers, world, tokens, crashes, ended>>

(* The task of a session ensures the peer in the course of its own job.    *)
ensure_remote_peer_for_proxy_session(o) ==
  /\ Asked(o, "session")
  /\ \E ok \in Saves("config") :
       /\ PutProfile(profile, ok)
       /\ IF ok THEN Begins(o, "session", "inspect") ELSE UNCHANGED op
  /\ overwritten' = (overwritten \/ jobFile = "healthy")
  /\ UNCHANGED <<jobs, peers, world, tokens, crashes, clean>>

bootstrap_peer(o) ==
  /\ Asked(o, "bootstrap")
  /\ \E ok \in Saves("config") :
       /\ PutProfile(profile, ok)
       /\ IF ok THEN Begins(o, "bootstrap", "defaults") ELSE UNCHANGED op
  /\ UNCHANGED <<jobs, peers, world, tokens, crashes, ended>>

refresh_peer(o) ==
  /\ Asked(o, "refresh")
  /\ Begins(o, "refresh", "descriptor")
  /\ UNCHANGED <<config, jobs, peers, world, tokens, crashes, ended>>

rotate_peer_token(o) ==
  /\ Asked(o, "rotate")
  /\ Begins(o, "rotate", "rotate")
  /\ UNCHANGED <<config, jobs, peers, world, tokens, crashes, ended>>

(* The peer record of the configuration goes (it is in PeerRecords); the   *)
(* profile with its token stays, and is saved with the rest.               *)
forget_peer ==
  /\ \E ok \in Saves("config") : PutProfile(profile, ok)
  /\ UNCHANGED <<jobs, peers, world, op, counts, ended>>

-----------------------------------------------------------------------------
(* The job task.  There is no look at a job that is already at work.       *)
Queue(o) ==
  /\ At(o, "queue")
  /\ \E ok \in Saves("jobs") : PutJob("queued", ok) /\ Goes(o, IF ok THEN "inspect" ELSE "off")
  /\ UNCHANGED <<config, peers, world, counts, ended>>

(* A record of the job, and of the session if there is one, goes before    *)
(* that of the peer; a session's job is not modelled here.                 *)
JobFirst(o, s, fails) ==
  /\ \E ok \in Saves("jobs"), noted \in IF HasSpec(o) THEN Saves("sessions") ELSE {TRUE} :
       /\ IF OwnJob(o) THEN PutJob(s, ok) ELSE UNCHANGED jobs
       /\ IF ok /\ noted THEN Half(o) ELSE Goes(o, fails)
  /\ UNCHANGED peers

(* Where an error of the task leads: the caller records it in its job.     *)
Failing(o) == IF OwnJob(o) THEN "task_failed" ELSE "off"

(* remote_peer_phase: the job and then the peer are recorded, and an error *)
(* is only logged.  The four phases before the installation are one event. *)
AfterEvent == [inspect |-> "descriptor", phases |-> "defaults", answered |-> "profile"]

remote_peer_phase(o) ==
  /\ op[o].pc \in DOMAIN AfterEvent
  /\ IF op[o].half
     THEN /\ \E ok \in Saves("peers") : PutPeer("running", ok)
          /\ Goes(o, AfterEvent[op[o].pc]) /\ UNCHANGED jobs
     ELSE JobFirst(o, "running", AfterEvent[op[o].pc])
  /\ UNCHANGED <<config, world, counts, ended>>

(* The daemon on the port of the operation accepts its token.              *)
There(o) == remote.at[op[o].port]
Accepted(o) == There(o).tok # 0 /\ There(o).tok = op[o].tok

(* A command on the host has no time limit, except the installation of the *)
(* service: it fails, or it never returns.  (It matters to the job that is *)
(* to end; of other operations nothing more is to be seen.)                *)
Lost(o, pc) == Goes(o, pc) \/ Goes(o, IF op[o].kind = "ensure" THEN "hung" ELSE "off")

(* refresh_remote_peer_descriptor: answered to the token that is in use,   *)
(* or failed for whatever reason.  A job adopts a peer of this version     *)
(* unless it is forced to install.                                         *)

refresh_remote_peer_descriptor(o) ==
  /\ At(o, "descriptor")
  /\ \/ /\ Accepted(o)
        /\ Ensures(o) => There(o).ver = "new"
        /\ Goes(o, "profile")
     \/ Lost(o, IF Ensures(o) THEN "waiting" ELSE "off")
  /\ UNCHANGED <<config, jobs, peers, world, counts, ended>>

(* record_peer_waiting: the peer keeps its state; without one there is no  *)
(* record to save.                                                         *)
record_peer_waiting(o) ==
  /\ At(o, "waiting")
  /\ IF op[o].half
     THEN /\ \E ok \in Saves("peers") :
               /\ IF peer = "none" THEN UNCHANGED peers ELSE PutPeer(peer, ok)
               /\ Goes(o, IF ok \/ peer = "none" THEN "phases" ELSE Failing(o))
          /\ UNCHANGED jobs
     ELSE JobFirst(o, "waiting_retry", Failing(o))
  /\ UNCHANGED <<config, world, counts, ended>>

-----------------------------------------------------------------------------
(* install_remote, of a job or of a bootstrap.                             *)
FailedAt(o) == IF Ensures(o) THEN "fail" ELSE "off"
InstallFails(o) == Goes(o, FailedAt(o))

(* Without a recorded token a new one is generated.  The host picks the    *)
(* port: the one asked for, or when something listens there a later one    *)
(* where nothing does.  (It takes a port for free if it has neither ss nor *)
(* netstat, and on Windows.)                                               *)
Free(p) == remote.at[p].tok = 0

apply_remote_auto_defaults(o) ==
  /\ At(o, "defaults")
  /\ \/ /\ tokens' = IF op[o].tok = 0 THEN tokens + 1 ELSE tokens
        /\ \E p \in Ports :
             /\ p = op[o].port \/ (p > op[o].port /\ Free(p) /\ ~Free(op[o].port))
             /\ op' = [op EXCEPT ![o].pc = "upload", ![o].port = p,
                                 ![o].tok = IF op[o].tok = 0 THEN tokens + 1 ELSE op[o].tok]
     \/ Lost(o, FailedAt(o)) /\ UNCHANGED tokens
  /\ UNCHANGED <<config, jobs, peers, world, requests, crashes, ended>>

(* The binary is replaced by a rename, or is there already.                *)
upload_helper(o) ==
  /\ At(o, "upload")
  /\ \/ remote' = [remote EXCEPT !.bin = "new"] /\ Goes(o, "service")
     \/ Lost(o, FailedAt(o)) /\ UNCHANGED remote
  /\ UNCHANGED <<config, jobs, peers, scene, late, counts, ended>>

(* What the install command may leave behind on its port: the service with *)
(* a new command line, running, or not running.  A service manager has one *)
(* service, and takes it from another port; nohup leaves what is there     *)
(* alone.  At its own port the old daemon may survive the restart, since   *)
(* the stop script removes the pid file of a child that the supervisor has *)
(* just started again.                                                     *)
Put(p, service) ==
  [remote EXCEPT !.at = [q \in Ports |-> IF q = p THEN service
                                        ELSE IF remote.nohup THEN remote.at[q] ELSE NoService]]
Restarted(p, t) == Put(p, [svc |-> t, tok |-> t, ver |-> remote.bin, kept |-> FALSE])
Down(p, t)      == Put(p, [svc |-> t, tok |-> 0, ver |-> "none", kept |-> FALSE])
Kept(p, t)      == Put(p, [remote.at[p] EXCEPT !.svc = t, !.kept = remote.at[p].tok # 0])
Installed(p, t) == {Restarted(p, t), Down(p, t), Kept(p, t)}

(* install_remote_service: a command that is not over after 60 s is given  *)
(* up here and goes on there.                                              *)
install_remote_service(o) ==
  LET p == op[o].port t == op[o].tok IN
  /\ At(o, "service")
  /\ \/ /\ remote' \in Installed(p, t)
        /\ Goes(o, "probe") /\ UNCHANGED late
     \/ /\ remote' \in {remote} \cup Installed(p, t)
        /\ InstallFails(o) /\ UNCHANGED late
     \/ late' = late \cup {<<t, p>>} /\ InstallFails(o) /\ UNCHANGED remote
  /\ UNCHANGED <<config, jobs, peers, scene, counts, ended>>

wait_remote_peer_descriptor(o) ==
  /\ At(o, "probe")
  /\ \/ Accepted(o) /\ Goes(o, IF Ensures(o) THEN "answered" ELSE "profile")
     \/ Lost(o, FailedAt(o))
  /\ UNCHANGED <<config, jobs, peers, world, counts, ended>>

-----------------------------------------------------------------------------
(* The profile is recorded by every operation that got its answer.         *)
record_remote_profile(o) ==
  /\ At(o, "profile")
  /\ \E ok \in Saves("config") :
       /\ PutProfile([tok |-> IF op[o].tok = 0 THEN profile.tok ELSE op[o].tok,
                      port |-> op[o].port], ok)
       /\ Goes(o, IF ~Ensures(o) THEN "off" ELSE IF ok THEN "record" ELSE Failing(o))
  /\ UNCHANGED <<jobs, peers, world, counts, ended>>

(* A slip: a peer that cannot be saved is only logged.                     *)
record_installed_peer_unsaved(o) ==
  /\ At(o, "record")
  /\ IF op[o].half
     THEN /\ \E ok \in Saves("peers") : PutPeer("healthy", ok)
          /\ Goes(o, "finish") /\ UNCHANGED jobs
     ELSE JobFirst(o, "running", Failing(o))
  /\ UNCHANGED <<config, world, counts, ended>>

(* record_installed_peer and record_refreshed_peer: the job, the peer, and *)
(* at last the job as healthy.                                             *)
record_installed_peer(o) ==
  /\ At(o, "record")
  /\ IF op[o].half
     THEN /\ \E ok \in Saves("peers") :
               PutPeer("healthy", ok) /\ Goes(o, IF ok THEN "finish" ELSE Failing(o))
          /\ UNCHANGED jobs
     ELSE JobFirst(o, "running", Failing(o))
  /\ UNCHANGED <<config, world, counts, ended>>

(* With a session the job is not at its end yet: it stays as it is.        *)
finish_direct_remote_peer_job(o) ==
  /\ At(o, "finish")
  /\ \/ HasSpec(o) /\ Goes(o, "off") /\ UNCHANGED <<jobs, ended>>
     \/ /\ ~HasSpec(o)
        /\ \E ok \in Saves("jobs") :
             /\ PutJob("healthy", ok)
             /\ clean' = IF ok THEN op[o].calm ELSE clean
             /\ overwritten' = (overwritten /\ ~ok)
             /\ Goes(o, IF ok THEN "off" ELSE "task_failed")
  /\ UNCHANGED <<config, peers, world, counts>>

(* The installation failed: the job and then the peer.                     *)
ensure_failed(o) ==
  /\ At(o, "fail")
  /\ IF op[o].half
     THEN /\ \E ok \in Saves("peers") :
               PutPeer("failed", ok) /\ Goes(o, IF ok THEN "off" ELSE Failing(o))
          /\ UNCHANGED jobs
     ELSE JobFirst(o, "failed", Failing(o))
  /\ UNCHANGED <<config, world, counts, ended>>


(* A task that ends with an error records the job, and not the peer.       *)
job_task_failed(o) ==
  /\ At(o, "task_failed")
  /\ \E ok \in Saves("jobs") : PutJob("failed", ok)
  /\ Goes(o, "off")
  /\ UNCHANGED <<config, peers, world, counts, ended>>

(* rotate_remote_peer_token: the daemon of the peer changes its token in   *)
(* memory and in its config.toml, not on its command line.  Its answer may *)
(* get lost.                                                               *)
rotate_remote_peer_token(o) ==
  /\ At(o, "rotate")
  /\ \/ /\ Accepted(o)
        /\ tokens' = tokens + 1
        /\ remote' = [remote EXCEPT !.at[op[o].port].tok = tokens + 1]
        /\ \/ op' = [op EXCEPT ![o] = [@ EXCEPT !.pc = "profile", !.tok = tokens + 1]]
           \/ Lost(o, "off")
     \/ Lost(o, "off") /\ UNCHANGED <<remote, tokens>>
  /\ UNCHANGED <<config, jobs, peers, scene, late, requests, crashes, ended>>

-----------------------------------------------------------------------------
(* The remote host.  A change of the token that is in use disturbs the     *)
(* operations in progress on that port.                                    *)
Disturbs ==
  op' = [o \in Ops |-> IF Active(o) /\ There(o).tok \notin {0, remote'.at[op[o].port].tok}
                       THEN [op[o] EXCEPT !.calm = FALSE] ELSE op[o]]

(* The service manager starts a daemon again.                              *)
PeerRestarts ==
  /\ \E p \in Ports :
       /\ remote.at[p].svc # 0
       /\ remote' = [remote EXCEPT !.at[p] = Restarted(p, @.svc).at[p]]
  /\ Disturbs
  /\ UNCHANGED <<config, jobs, peers, scene, late, counts, ended>>

(* An install command that was given up comes to its end.                  *)
LateInstall ==
  /\ \E c \in late : remote' = Restarted(c[2], c[1]) /\ late' = late \ {c}
  /\ Disturbs
  /\ UNCHANGED <<config, jobs, peers, scene, counts, ended>>

Older(v) == IF v = "new" THEN "old" ELSE v
Aged == [remote EXCEPT !.bin = Older(@),
                       !.at = [p \in Ports |-> [remote.at[p] EXCEPT !.ver = Older(@)]]]

(* The daemon ends at any point and is started again, of a later version   *)
(* perhaps.  Jobs of peers are not reconciled.                             *)
Restart ==
  /\ crashes < scene.crashes
  /\ crashes' = crashes + 1
  /\ profile' = profileFile /\ job' = jobFile /\ peer' = peerFile
  /\ remote' \in {remote, Aged}
  /\ late' = late \cup {<<op[o].tok, op[o].port>> : o \in {p \in Ops : op[p].pc = "service"}}
  /\ op' = [o \in Ops |-> Off]
  /\ UNCHANGED <<profileFile, jobFile, peerFile, scene, tokens, requests, ended>>

OpStep(o) ==
  \/ Queue(o) \/ remote_peer_phase(o) \/ refresh_remote_peer_descriptor(o)
  \/ record_peer_waiting(o) \/ apply_remote_auto_defaults(o) \/ upload_helper(o)
  \/ install_remote_service(o) \/ wait_remote_peer_descriptor(o) \/ record_remote_profile(o)
  \/ record_installed_peer(o) \/ finish_direct_remote_peer_job(o) \/ ensure_failed(o)
  \/ job_task_failed(o) \/ rotate_remote_peer_token(o)

Next ==
  \/ \E o \in Ops :
       \/ accept_remote_peer_job(o) \/ ensure_remote_peer_for_proxy_session(o)
       \/ bootstrap_peer(o) \/ refresh_peer(o) \/ rotate_peer_token(o) \/ OpStep(o)
  \/ forget_peer
  \/ PeerRestarts
  \/ LateInstall
  \/ Restart

Spec == Init /\ [][Next]_vars

(* The runtime runs every task.  (A command that never returns is the pc   *)
(* "hung", from which no step leads.)                                      *)
Fairness == \A o \in Ops : WF_vars(OpStep(o))

FairSpec == Spec /\ Fairness

-----------------------------------------------------------------------------
(* Running the job repairs: when nothing else has touched the peer while   *)
(* it ran, a job about to end well, its own or a session's, has left the   *)
(* port and the token in the profile that the daemon of the peer accepts,  *)
(* the peer healthy, and a daemon of this version unless the old one       *)
(* survived its restart, whatever was left behind before by restarts, lost *)
(* answers, late commands and operations that raced.                       *)
Settled ==
  \A o \in Ops :
    op[o].pc = "finish" /\ op[o].calm =>
      LET there == remote.at[profile.port] IN
      /\ profile.tok = there.tok /\ peer = "healthy"
      /\ ~there.kept => there.ver = "new"

(* What jobs.json says has happened can be found in the other files: with  *)
(* a job that was recorded healthy, undisturbed, config.toml has a token   *)
(* and peers.json a healthy peer, at every moment the daemon may end.  (A  *)
(* session that has worked on the peer since may have recorded it as       *)
(* running or failed, and leaves the job as it is.)                        *)
HealthyIsRecorded ==
  clean /\ jobFile = "healthy" =>
    profileFile.tok # 0 /\ (peerFile = "healthy" \/ overwritten)

(* What a job says it has done is true of the peer and is in the files.    *)
RecordsAgree == TypeOK /\ Settled /\ HealthyIsRecorded

(* A job task that runs and has not recorded its end yet.                  *)
AtWork(o) ==
  /\ op[o].kind = "ensure" /\ op[o].pc \notin {"off", "queue"}
  /\ ~(At(o, "fail") /\ op[o].half)


-----------------------------------------------------------------------------
(* The scenarios of the run: any two operations together; each alone with  *)
(* every save open to failure, with and without a restart; two jobs, the   *)
(* second after a restart perhaps; a job and a session that overwrites     *)
(* what it recorded, with saves that fail.                                 *)
PeerScenarios ==
  [kinds : {Kinds}, requests : {1}, faults : {Stores}, crashes : {0, 1}] \cup
  {[kinds |-> Kinds, requests |-> 2, faults |-> {}, crashes |-> 0],
   [kinds |-> {"ensure"}, requests |-> 2, faults |-> {}, crashes |-> 1],
   [kinds |-> {"ensure", "session"}, requests |-> 2, faults |-> {"peers"}, crashes |-> 0]}

=============================================================================
