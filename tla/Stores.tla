------------------------------- MODULE Stores -------------------------------
(***************************************************************************)
(* The components of Records that the daemon keeps for itself: a store     *)
(* (StateFile), the jobs in it (JobStore), and the listener of a reverse   *)
(* link (ReverseLink), with the state that each has there.                 *)
(***************************************************************************)
EXTENDS StateFile, FiniteSets

CONSTANTS JobIds, MaxTerminal, MaxClock, MaxAttempts, BaseDelay, MaxDelay

ASSUME JobConstants ==
  /\ IsFiniteSet(JobIds) /\ JobIds \subseteq Int
  /\ MaxTerminal \in Nat /\ MaxClock \in Nat
ASSUME ReverseConstants == MaxAttempts \in Nat /\ BaseDelay \in Nat /\ MaxDelay \in Nat

(* What the powers of two are: the provers do not know exponentiation.     *)
ASSUME PowersOfTwo ==
  2 ^ 0 = 1 /\ \A n \in 0 .. MaxAttempts : 2 ^ n \in Nat /\ 2 ^ (n + 1) = 2 * 2 ^ n

VARIABLES jobsStore, jobsClock, reverseLink, reverseHelper

Jobs == INSTANCE JobStore WITH store <- jobsStore, clock <- jobsClock

Reverse == INSTANCE ReverseLink WITH link <- reverseLink, helper <- reverseHelper

jobsVars == <<jobsStore, jobsClock>>
reverseVars == <<reverseLink, reverseHelper>>
=============================================================================
