------------------------------ MODULE Records -------------------------------
(***************************************************************************)
(* What the daemon keeps, and what it writes on the machines it manages.   *)
(* One behaviour is one of these components at work, chosen by kind: a     *)
(* store of the daemon (StateFile) and the jobs in it (JobStore), the      *)
(* service definition and configuration of the host (ServiceManager), the  *)
(* helper binary (HelperUpload) and the settings (RemoteSetup) of a remote *)
(* host, the records of a peer (PeerRecords) and of a route that is being  *)
(* decided (RouteIntent), the keys of an SSH chain (SshClient), the frames *)
(* of a connection (FrameCodec), the listener of a reverse link            *)
(* (ReverseLink).  They share no state that the code guards together; the  *)
(* stores keep their first state while another component is at work.       *)
(***************************************************************************)
EXTENDS Stores, HostRecords

CONSTANTS Sessions, Policies, MaxSetups, MaxFails, Operators, MaxToken, MaxChanges, MaxOps,
          LocalBuild, Builds, Intents, Cases, MaxString, MaxFrame, MaxSent, MaxHeader

VARIABLES
  kind,
  setupHome, setupSes, setupHist,
  peerRemote, peerLocal, peerOp, peerHist,
  intentConfig, intentPeer, intentIntent, intentHist,
  codecSent, codecLink, codecGot, codecRd

Setup == INSTANCE RemoteSetup WITH home <- setupHome, ses <- setupSes, hist <- setupHist,
          MaxOps <- MaxSetups

Peer == INSTANCE PeerRecords WITH remote <- peerRemote, local <- peerLocal, op <- peerOp,
          hist <- peerHist

Route == INSTANCE RouteIntent WITH config <- intentConfig, peer <- intentPeer,
          intent <- intentIntent, hist <- intentHist

Codec == INSTANCE FrameCodec WITH sent <- codecSent, link <- codecLink, got <- codecGot,
          rd <- codecRd

setupVars == <<setupHome, setupSes, setupHist>>
peerVars == <<peerRemote, peerLocal, peerOp, peerHist>>
intentVars == <<intentConfig, intentPeer, intentIntent, intentHist>>
codecVars == <<codecSent, codecLink, codecGot, codecRd>>
others == <<jobsVars, serviceVars, uploadVars, setupVars, peerVars, intentVars, sshVars, codecVars,
            reverseVars>>
allVars == <<kind, vars, others>>

(* What a component that is not at work is. *)
Unused == "unused"
UnusedBut(k) ==
  /\ k # "jobs" => jobsStore = Unused /\ jobsClock = Unused
  /\ k # "service" => serviceHost = Unused /\ serviceMgr = Unused /\ serviceCli = Unused
  /\ k # "upload" => uploadRemote = Unused /\ uploadPath = Unused /\ uploadUp = Unused /\
                     uploadBegun = Unused
  /\ k # "setup" => setupHome = Unused /\ setupSes = Unused /\ setupHist = Unused
  /\ k # "peer" => peerRemote = Unused /\ peerLocal = Unused /\ peerOp = Unused /\
                   peerHist = Unused
  /\ k # "intent" => intentConfig = Unused /\ intentPeer = Unused /\ intentIntent = Unused /\
                     intentHist = Unused
  /\ k # "ssh" => sshWant = Unused /\ sshConn = Unused
  /\ k # "codec" => codecSent = Unused /\ codecLink = Unused /\ codecGot = Unused /\
                    codecRd = Unused
  /\ k # "reverse" => reverseLink = Unused /\ reverseHelper = Unused

RecordsInit ==
  \/ kind = "file" /\ Init /\ UnusedBut(kind)
  \/ kind = "jobs" /\ Init /\ Jobs!Init /\ UnusedBut(kind)
  \/ kind = "service" /\ Init /\ Service!Init /\ UnusedBut(kind)
  \/ kind = "upload" /\ Init /\ Upload!Init /\ UnusedBut(kind)
  \/ kind = "setup" /\ Init /\ Setup!Init /\ UnusedBut(kind)
  \/ kind = "peer" /\ Init /\ Peer!Init /\ UnusedBut(kind)
  \/ kind = "intent" /\ Init /\ Route!Init /\ UnusedBut(kind)
  \/ kind = "ssh" /\ Init /\ Ssh!Init /\ UnusedBut(kind)
  \/ kind = "codec" /\ Init /\ Codec!Init /\ UnusedBut(kind)
  \/ kind = "reverse" /\ Init /\ Reverse!Init /\ UnusedBut(kind)

RecordsNext ==
  \/ kind = "file" /\ Next /\ UNCHANGED <<kind, others>>
  \/ kind = "jobs" /\ Jobs!JobNext /\ UNCHANGED <<kind, vars, serviceVars, uploadVars, setupVars,
      peerVars, intentVars, sshVars, codecVars, reverseVars>>
  \/ kind = "service" /\ Service!ServiceNext /\ UNCHANGED <<kind, vars, jobsVars, uploadVars,
      setupVars, peerVars, intentVars, sshVars, codecVars, reverseVars>>
  \/ kind = "upload" /\ Upload!Next /\ UNCHANGED <<kind, vars, jobsVars, serviceVars, setupVars,
      peerVars, intentVars, sshVars, codecVars, reverseVars>>
  \/ kind = "setup" /\ Setup!SetupNext /\ UNCHANGED <<kind, vars, jobsVars, serviceVars,
      uploadVars, peerVars, intentVars, sshVars, codecVars, reverseVars>>
  \/ kind = "peer" /\ Peer!PeerNext /\ UNCHANGED <<kind, vars, jobsVars, serviceVars, uploadVars,
      setupVars, intentVars, sshVars, codecVars, reverseVars>>
  \/ kind = "intent" /\ Route!IntentNext /\ UNCHANGED <<kind, vars, jobsVars, serviceVars,
      uploadVars, setupVars, peerVars, sshVars, codecVars, reverseVars>>
  \/ kind = "ssh" /\ Ssh!Next /\ UNCHANGED <<kind, vars, jobsVars, serviceVars, uploadVars,
      setupVars, peerVars, intentVars, codecVars, reverseVars>>
  \/ kind = "codec" /\ Codec!Next /\ UNCHANGED <<kind, vars, jobsVars, serviceVars, uploadVars,
      setupVars, peerVars, intentVars, sshVars, reverseVars>>
  \/ kind = "reverse" /\ Reverse!ReverseNext /\ UNCHANGED <<kind, vars, jobsVars, serviceVars,
      uploadVars, setupVars, peerVars, intentVars, sshVars, codecVars>>

RecordsSpec == RecordsInit /\ [][RecordsNext]_allVars

-----------------------------------------------------------------------------
(* JobStore: an acknowledged job that has not ended survives restarts and  *)
(* failed saves of jobs.json, and a job is removed only when the terminal  *)
(* jobs are too many, the oldest first.                                    *)
JobsAreKept ==
  [][kind = "jobs" => Jobs!TypeOK' /\ Jobs!AckedSurvives' /\ Jobs!PrunesOldestTerminal]_allVars

(* ServiceManager: an install or repair that fails leaves the              *)
(* configuration it found, unless the daemon saved its own meanwhile or    *)
(* the write-back failed; one whose daemon does not come to health leaves  *)
(* its own, with its definition; and after one that succeeded a process of *)
(* the service runs the definition just written, unless it ran through a   *)
(* reload.                                                                 *)
InstallIsTrue ==
  kind = "service" => Service!TypeOK /\ Service!FailureKeepsConfig /\ Service!InstalledIsRun

(* HelperUpload: on a unix host an upload reports success only when the    *)
(* whole helper is in place, whatever other uploads do or left behind.     *)
UploadedIsWhole == [][kind = "upload" => Upload!TypeOK' /\ Upload!UploadedIsWhole]_allVars

(* RemoteSetup: however applies, cleanups and failures of two workspaces   *)
(* interleave, server-env-setup holds at most one managed block, and       *)
(* unless a connection was lost in the middle of a write, a complete one,  *)
(* and the user's own lines and keys survive.  With nobody else at work    *)
(* since, over a connection that held, a session recorded as applied has   *)
(* its URL in every file its policy names, and a cleanup leaves nothing in *)
(* shared files.                                                           *)
RemoteFilesAreSound ==
  kind = "setup" => /\ Setup!TypeOK /\ Setup!OneBlock /\ Setup!UserContentKept
                    /\ Setup!AppliedInPlace /\ Setup!CleanedIsGone

(* PeerRecords: once a descriptor is recorded, peer diff advises no        *)
(* further refresh, and after a rotation or a bootstrap nothing at all;    *)
(* where it finds nothing to do, peer reconcile finds no problem; and      *)
(* operations that do not overlap and whose answers arrive never leave the *)
(* profile with a token the peer refuses.  The reports agree on whether a  *)
(* peer's binary can be talked to, and following their advice settles it.  *)
PeerRecordsAgree ==
  kind = "peer" => /\ Peer!TypeOK /\ Peer!AdviceSettles /\ Peer!ReconcileAgrees
                   /\ Peer!TokenOnRecordWorks /\ Peer!JudgesAgree /\ Peer!AdviceWorks

(* RouteIntent: a transport named on the command line is the one started,  *)
(* whatever the preflight, an adopted or a bootstrapped peer say.  A route *)
(* falls back to ssh-native exactly when its transport was the daemon's    *)
(* choice and the last preflight found a direct endpoint dead and none     *)
(* alive.  The plan shown agrees with the started route, which carries the *)
(* token of the last bootstrap unless another intent is on the alias.      *)
RouteIsAsDecided ==
  kind = "intent" => /\ Route!TypeOK /\ Route!CliChoiceKept /\ Route!FallbackIsEarned
                     /\ Route!PlanTellsTheRoute /\ Route!BootstrapTokenUsed

(* SshClient: along a chain of jump hosts a session is open only to a host *)
(* whose key is known, was learned with permission for that host, or is    *)
(* not to be checked: by the command, by its own section or the target's,  *)
(* or for want of a known_hosts of its own.                                *)
KeysAreChecked == kind = "ssh" => Ssh!TypeOK /\ Ssh!KeysAreChecked

(* FrameCodec: however the stream is cut, the reader returns the frames    *)
(* sent, unchanged and in order, and fails only on a frame that the end    *)
(* tore; a stream header that is written is read back, but for the one     *)
(* length that the u16 does not hold.                                      *)
FramesSurvive == kind = "codec" => Codec!TypeOK /\ Codec!FramesSurvive /\ Codec!HeaderSurvives

(* ReverseLink: at most one helper holds the listener, and one that serves *)
(* is that of the current link, however links overlap their predecessors'  *)
(* ends and whichever helpers a timed-out attempt has left; and the delay  *)
(* before a reconnect is the first one doubled for each failure in a row,  *)
(* up to the maximum.                                                      *)
OneListener == kind = "reverse" => Reverse!TypeOK /\ Reverse!OneListener /\ Reverse!DelayDoubles
=============================================================================
