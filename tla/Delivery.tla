------------------------------ MODULE Delivery ------------------------------
(***************************************************************************)
(* Work of the daemon that must come to an end.  One behaviour is one of   *)
(* these components at work, chosen by kind: the streams of a bridge       *)
(* (SpxBridge, in one of its setups) and the update of the daemon          *)
(* (SelfUpdate).  They share no state that the code guards together; the   *)
(* streams keep their first state while the other is at work.              *)
(***************************************************************************)
EXTENDS SpxBridge

CONSTANTS UpdateRequests, Hosts, MaxFails, MaxRestarts

ASSUME UpdateAssumption ==
  Hosts \subseteq {"systemd", "user", "launchd", "windows"} /\ MaxFails \in Nat /\ MaxRestarts \in Nat

VARIABLES
  kind,
  updateHost, updateUpd, updateUpdFile, updateJob, updateJobFile, updateExe, updateBackup,
  updateRun, updateBoot, updateWanted, updateIgnored, updateReq, updateScript, updateFails,
  updateCrashes

Updater == INSTANCE SelfUpdate WITH host <- updateHost, upd <- updateUpd, updFile <- updateUpdFile,
          job <- updateJob, jobFile <- updateJobFile, exe <- updateExe, backup <- updateBackup,
          run <- updateRun, boot <- updateBoot, wanted <- updateWanted, ignored <- updateIgnored, req <- updateReq,
          script <- updateScript, fails <- updateFails, crashes <- updateCrashes,
          Requests <- UpdateRequests, MaxCrashes <- MaxRestarts

updateVars == <<updateHost, updateUpd, updateUpdFile, updateJob, updateJobFile, updateExe,
                updateBackup, updateRun, updateBoot, updateWanted, updateIgnored, updateReq,
                updateScript, updateFails, updateCrashes>>
allVars == <<kind, bridgeVars, updateVars>>

(* What the update is while the streams are at work.                       *)
Unused == "unused"
NoUpdate ==
  /\ updateHost = Unused /\ updateUpd = Unused /\ updateUpdFile = Unused /\ updateJob = Unused
  /\ updateJobFile = Unused /\ updateExe = Unused /\ updateBackup = Unused /\ updateRun = Unused
  /\ updateBoot = Unused /\ updateWanted = Unused /\ updateIgnored = Unused
  /\ updateReq = Unused /\ updateScript = Unused
  /\ updateFails = Unused /\ updateCrashes = Unused

DeliveryInit ==
  /\ BridgeInit
  /\ \/ kind = "bridge" /\ setup.opened # {} /\ NoUpdate
     \/ kind = "update" /\ setup.opened = {} /\ Updater!Init

DeliveryNext ==
  \/ kind = "bridge" /\ BridgeNext /\ UNCHANGED <<kind, updateVars>>
  \/ kind = "update" /\ Updater!Next /\ UNCHANGED <<kind, bridgeVars>>

(* The fairness of each component, while it is at work. *)
DeliveryFairness ==
  /\ BridgeFairness
  /\ \A r \in UpdateRequests :
       /\ WF_updateVars(kind = "update" /\ updateReq[r] # "idle" /\ Updater!RequestStep(r))
       /\ WF_updateVars(kind = "update" /\ Updater!ScriptStep(r))
  /\ WF_updateVars(kind = "update" /\ Updater!ServiceStops)
  /\ WF_updateVars(kind = "update" /\ Updater!Boot)
  /\ WF_updateVars(kind = "update" /\ Updater!RecordStarted)
  /\ WF_updateVars(kind = "update" /\ Updater!ReconcileUpdate)

DeliverySpec == DeliveryInit /\ [][DeliveryNext]_allVars /\ DeliveryFairness

-----------------------------------------------------------------------------
(* SpxBridge: what an end point receives is the beginning of what was      *)
(* sent, in order; the end of a stream is not reported before its last     *)
(* chunk; and the two sides agree about who is left.                       *)
Delivered == BridgeTypeOK /\ InOrder /\ EndIsComplete /\ SidesAgree

(* SpxBridge: when the connection is lost every stream ends, unless its    *)
(* client does not read; and a client that does not read holds the reader  *)
(* for all streams only until the timeout, so that the open of the other   *)
(* stream is answered.                                                     *)
StreamsAreServed == StreamsEnd /\ OpensAreAnswered

(* SelfUpdate: one operation that fails leaves the service with a complete *)
(* binary once the scripts have ended, and an update recorded as healthy   *)
(* on Windows, without a failure and with a stop in time, put the new      *)
(* binary in place.                                                        *)
UpdateIsWhole ==
  kind = "update" => Updater!TypeOK /\ Updater!BinaryComplete /\ Updater!HealthyMeansNew

(* SelfUpdate: a daemon that the Windows script has taken down comes back  *)
(* whether the copy worked or not, unless the service manager did not do   *)
(* in time what the script asked for; elsewhere one that ended by itself   *)
(* does, if its binary is complete; and an update that waits for the       *)
(* restart comes to its end on Windows, unless it is disturbed.            *)
UpdateEnds ==
  /\ kind = "update" /\ Updater!ToReturn ~> (kind = "update" => Updater!Returned)
  /\ kind = "update" /\ Updater!Waits ~> (kind = "update" => Updater!WaitIsOver)

-----------------------------------------------------------------------------
(* The setups of the model: one stream with every fault; two streams over  *)
(* the smallest channels, whose targets send and whose clients may stop    *)
(* reading; and no stream, for the update.                                 *)
EveryFault ==
  [opened |-> {CHOOSE i \in StreamIds : TRUE}, wire |-> 2, chan |-> 1, clientChunks |-> 2, targetChunks |-> 3,
   breaks |-> TRUE, stalls |-> {"client", "target"}, expires |-> TRUE, leaves |-> TRUE]
SlowClients ==
  [opened |-> StreamIds, wire |-> 1, chan |-> 1, clientChunks |-> 0, targetChunks |-> 2,
   breaks |-> FALSE, stalls |-> {"client"}, expires |-> FALSE, leaves |-> FALSE]
MCSetups == {EveryFault, SlowClients, [SlowClients EXCEPT !.opened = {}]}
=============================================================================
