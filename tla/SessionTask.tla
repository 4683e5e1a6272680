---------------------------- MODULE SessionTask ----------------------------
(***************************************************************************)
(* The job task of a proxy session and the probing of the remote port that *)
(* it waits for, under fair scheduling: both come to an end.  One          *)
(* behaviour is the session (ProxySession, where the probing is one step)  *)
(* or one probing (Handoff), chosen by kind; the session keeps its first   *)
(* state while a probing is at work.                                       *)
(***************************************************************************)
EXTENDS ProxySession

CONSTANTS Budget, InitialDelay, DelayCap, ProbeTimeout

VARIABLES kind, probePort, probeProbe

Probing == INSTANCE Handoff WITH port <- probePort, probe <- probeProbe

probeVars == <<probePort, probeProbe>>
allVars == <<kind, vars, probeVars>>

(* What a probing that is not at work is. *)
Unused == "unused"

TaskInit ==
  \/ kind = "session" /\ Init /\ probePort = Unused /\ probeProbe = Unused
  \/ kind = "probe" /\ Init /\ Probing!Init

TaskNext ==
  \/ kind = "session" /\ Next /\ UNCHANGED <<kind, probeVars>>
  \/ kind = "probe" /\ Probing!HandoffNext /\ UNCHANGED <<kind, vars>>

(* The fairness of each component, while it is at work. *)
TaskFairness ==
  /\ \A c \in Clients : WF_vars(kind = "session" /\ ClientStep(c))
  /\ \A r \in Runners : WF_vars(kind = "session" /\ RunnerStep(r))
  /\ WF_vars(kind = "session" /\ Reconcile)
  /\ WF_probeVars(kind = "probe" /\ Probing!Step)

TaskSpec == TaskInit /\ [][TaskNext]_allVars /\ TaskFairness

-----------------------------------------------------------------------------
(* Handoff: the probing ends, whatever happens to the port.  Only a        *)
(* listener of another kind ends it before its budget, which it never      *)
(* outlasts by more than one attempt.                                      *)
ProbeKeepsItsBudget ==
  /\ [](kind = "probe" => Probing!TypeOK /\ Probing!UsesItsBudget)
  /\ <>(kind = "probe" => Probing!ProbeIsOver)
=============================================================================
