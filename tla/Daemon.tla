------------------------------- MODULE Daemon -------------------------------
(***************************************************************************)
(* The daemon's table of routes (RouteRegistry) and the session of a       *)
(* workspace that is built on it (ProxySession), each with its own         *)
(* requests.  A session is checked twice: with a restart at any point, and *)
(* with two different requests for the workspace, ports picked             *)
(* automatically, failing saves and a peer that ages.  One behaviour is    *)
(* one of the three, chosen by kind; the table keeps its first state in    *)
(* the other two, where ProxySession takes it for one that acts            *)
(* atomically.                                                             *)
(***************************************************************************)
EXTENDS RouteRegistry

CONSTANTS SessionClients, Runners, OneRunnerAtMost, FixedSpecs, MixedSpecs

VARIABLES
  kind,
  sessionJob, sessionJobFile, sessionSess, sessionSessFile, sessionRoute, sessionRemote,
  sessionPeerStale, sessionRunner, sessionClient, sessionBoot, sessionCrashes

Crash == INSTANCE ProxySession WITH job <- sessionJob, jobFile <- sessionJobFile,
          sess <- sessionSess, sessFile <- sessionSessFile, route <- sessionRoute,
          remote <- sessionRemote, peerStale <- sessionPeerStale, runner <- sessionRunner,
          client <- sessionClient, boot <- sessionBoot, crashes <- sessionCrashes,
          Clients <- SessionClients, Operations <- {"ensure"}, Specs <- FixedSpecs, Locals <- {"x"},
          LastPort <- 1, SaveMayFail <- FALSE, PeerMayAge <- FALSE, MaxCrashes <- 1

Mixed == INSTANCE ProxySession WITH job <- sessionJob, jobFile <- sessionJobFile,
          sess <- sessionSess, sessFile <- sessionSessFile, route <- sessionRoute,
          remote <- sessionRemote, peerStale <- sessionPeerStale, runner <- sessionRunner,
          client <- sessionClient, boot <- sessionBoot, crashes <- sessionCrashes,
          Clients <- SessionClients, Operations <- {"ensure"}, Runners <- OneRunnerAtMost,
          Specs <- MixedSpecs, Locals <- {"x", "y"}, LastPort <- 2, SaveMayFail <- TRUE,
          PeerMayAge <- TRUE, MaxCrashes <- 0

sessionVars == <<sessionJob, sessionJobFile, sessionSess, sessionSessFile, sessionRoute,
                 sessionRemote, sessionPeerStale, sessionRunner, sessionClient, sessionBoot,
                 sessionCrashes>>
others == <<sessionVars>>
allVars == <<kind, vars, others>>

(* What a component that is not at work is. *)
Unused == "unused"
UnusedBut(k) ==
  /\ k = "routes" => sessionJob = Unused /\ sessionJobFile = Unused /\ sessionSess = Unused /\
                     sessionSessFile = Unused /\ sessionRoute = Unused /\ sessionRemote = Unused /\
                     sessionPeerStale = Unused /\ sessionRunner = Unused /\ sessionClient = Unused /\
                     sessionBoot = Unused /\ sessionCrashes = Unused

DaemonInit ==
  \/ kind = "routes" /\ Init /\ UnusedBut(kind)
  \/ kind = "crash" /\ Init /\ Crash!Init /\ UnusedBut(kind)
  \/ kind = "mixed" /\ Init /\ Mixed!Init /\ UnusedBut(kind)

DaemonNext ==
  \/ kind = "routes" /\ Next /\ UNCHANGED <<kind, others>>
  \/ kind = "crash" /\ Crash!Next /\ UNCHANGED <<kind, vars>>
  \/ kind = "mixed" /\ Mixed!Next /\ UNCHANGED <<kind, vars>>

DaemonSpec == DaemonInit /\ [][DaemonNext]_allVars

-----------------------------------------------------------------------------
(* ProxySession: before a restart, a repeated ensure never gets a second   *)
(* task, at whatever point of the first one's life it comes.               *)
OneRunner == kind = "crash" => Crash!TypeOK /\ Crash!OneRunner

(* ProxySession: records, job task and route agree.  The session of a      *)
(* running task or of a running route is on record throughout; neither     *)
(* start-up reconciliation nor the requests that race it leave it recorded *)
(* as healthy without its route; the route of a port that the task has     *)
(* given up is gone; and a task repairs a route that conflicts with its    *)
(* request, and serves its own.                                            *)
SessionAndRouteAgree ==
  /\ kind = "crash" => Crash!Findable /\ Crash!HealthyHasRoute
  /\ kind = "mixed" => /\ Mixed!TypeOK /\ Mixed!Findable
                       /\ Mixed!NoAbandonedRoute /\ Mixed!ServesItsRoute
=============================================================================
