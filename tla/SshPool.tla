------------------------------ MODULE SshPool ------------------------------
(***************************************************************************)
(* The ssh-native transport of a forward route: SSH sessions that are      *)
(* opened on demand and shared by the tunnels of clients (ssh_native.rs,   *)
(* scheduler.rs, metrics_guard.rs, open_tunnel_ssh_native of socks.rs).    *)
(* The mutex of the sessions is held while a session connects.  A session  *)
(* whose connection has ended stays in the pool.                           *)
(***************************************************************************)
EXTENDS Naturals, Sequences, FiniteSets

CONSTANTS SshClients,
          PoolSizes,     \* of ssh_session_pool_size
          MaxOpens,      \* tunnels that clients ask for
          SshNoise       \* what latencies add to a score at most

Nobody == "nobody"

\* Latencies add at most 10 000 to a score, which is what one channel weighs.
ASSUME SshAssumption ==
  /\ IsFiniteSet(SshClients) /\ Nobody \notin SshClients
  /\ PoolSizes \subseteq Nat \ {0} /\ MaxOpens \in Nat /\ SshNoise \in Nat /\ SshNoise <= 10000

VARIABLES
  sshSize,    \* pool_size
  sessions,   \* in the order in which they were pushed
  channels,   \* active_ssh_channels
  lock,       \* holder of the mutex of the sessions
  sshClient,  \* where a tunnel is, and the session it has
  sshOpens

sshVars == <<sshSize, sessions, channels, lock, sshClient, sshOpens>>

(* active_channels, open_failures, error_closes of a session, whether its  *)
(* last failure is in the recent window, and whether its connection lives. *)
Session == [active : 0..MaxOpens, failures : 0..MaxOpens, errors : 0..MaxOpens, recent : BOOLEAN, alive : BOOLEAN]
Fresh   == [active |-> 0, failures |-> 0, errors |-> 0, recent |-> FALSE, alive |-> TRUE]
Out     == [pc |-> "idle", session |-> 0]

SshTypeOK ==
  /\ sshSize \in PoolSizes /\ sessions \in Seq(Session) /\ channels \in 0..MaxOpens
  /\ lock \in SshClients \cup {Nobody} /\ sshOpens \in 0..MaxOpens
  /\ sshClient \in [SshClients -> [pc : {"idle", "lock", "held", "connect", "open", "reply", "relay"}, session : 0..MaxOpens]]

SshInit ==
  /\ sshSize \in PoolSizes /\ sessions = <<>> /\ channels = 0 /\ lock = Nobody
  /\ sshClient = [c \in SshClients |-> Out] /\ sshOpens = 0

-----------------------------------------------------------------------------
(* The scheduler.                                                          *)
GrowthMinActive == 2      \* SSH_SESSION_GROWTH_MIN_ACTIVE_CHANNELS

should_open_new_session(n, m) == n = 0 \/ (n < sshSize /\ m >= GrowthMinActive)

min_active ==
  IF sessions = <<>> THEN 0
  ELSE CHOOSE n \in {sessions[i].active : i \in DOMAIN sessions} : \A i \in DOMAIN sessions : n <= sessions[i].active

\* A slip: a failure counts as one more, however recent.
ScoreWithoutRecent(s) == s.active * 10000 + s.failures * 1000 + s.errors * 750

(* The parts of the score that are counts; a recent failure costs at least *)
(* 10 000, and Noise stands for the two latencies, 5 000 each at most.     *)
(* The bytes that a session has ever carried, one for every MiB, are left  *)
(* out: they matter beyond a GiB.                                          *)
calculate_session_score(s) ==
  s.active * 10000 + s.failures * 1000 + s.errors * 750 + (IF s.recent THEN 10000 ELSE 0)

SshPreferred == {i \in DOMAIN sessions : \A j \in DOMAIN sessions :
                calculate_session_score(sessions[i]) <= calculate_session_score(sessions[j]) + SshNoise}

-----------------------------------------------------------------------------
(* open_tunnel_ssh_native and State::open_stream.                          *)
SshAccept(c) ==
  /\ sshClient[c].pc = "idle" /\ sshOpens < MaxOpens /\ sshOpens' = sshOpens + 1
  /\ sshClient' = [sshClient EXCEPT ![c].pc = "lock"]
  /\ UNCHANGED <<sshSize, sessions, channels, lock>>

Lock(c) ==
  /\ sshClient[c].pc = "lock" /\ lock = Nobody /\ lock' = c
  /\ sshClient' = [sshClient EXCEPT ![c].pc =
                  IF should_open_new_session(Len(sessions), min_active) THEN "connect" ELSE "held"]
  /\ UNCHANGED <<sshSize, sessions, channels, sshOpens>>

(* acquire_session_channel; the mutex is released with the return. *)
Acquire(c, i, ss) ==
  /\ sessions' = [ss EXCEPT ![i].active = @ + 1] /\ channels' = channels + 1
  /\ sshClient' = [sshClient EXCEPT ![c] = [pc |-> "open", session |-> i]] /\ lock' = Nobody

SshConnect(c) ==
  /\ sshClient[c].pc = "connect"
  /\ \/ Acquire(c, Len(sessions) + 1, Append(sessions, Fresh))
     \/ sshClient' = [sshClient EXCEPT ![c] = Out] /\ lock' = Nobody /\ UNCHANGED <<sessions, channels>>
  /\ UNCHANGED <<sshSize, sshOpens>>

Choose(c) ==
  /\ sshClient[c].pc = "held" /\ \E i \in SshPreferred : Acquire(c, i, sessions)
  /\ UNCHANGED <<sshSize, sshOpens>>

(* A channel is given back once: by the guard while it is armed, then by   *)
(* the stream.                                                             *)
Release(c, s) ==
  /\ sshClient' = [sshClient EXCEPT ![c] = Out] /\ channels' = channels - 1
  /\ sessions' = [sessions EXCEPT ![sshClient[c].session] = [s EXCEPT !.active = @ - 1]]

(* direct_tcpip_stream with its timeout; a failure is recorded, and the    *)
(* armed guard releases the channel.                                       *)
OpenFails(c) ==
  /\ sshClient[c].pc = "open"
  /\ Release(c, [sessions[sshClient[c].session] EXCEPT !.failures = @ + 1, !.recent = TRUE])
  /\ UNCHANGED <<sshSize, lock, sshOpens>>

\* A slip: the guard of the open is not disarmed, so the channel is released here and by the stream.
OpenOkArmed(c) ==
  /\ sshClient[c].pc = "open" /\ sessions[sshClient[c].session].alive
  /\ sshClient' = [sshClient EXCEPT ![c].pc = "reply"]
  /\ sessions' = [sessions EXCEPT ![sshClient[c].session].active = IF @ = 0 THEN 0 ELSE @ - 1]
  /\ UNCHANGED <<sshSize, channels, lock, sshOpens>>

OpenOk(c) ==
  /\ sshClient[c].pc = "open" /\ sessions[sshClient[c].session].alive
  /\ sshClient' = [sshClient EXCEPT ![c].pc = "reply"]
  /\ UNCHANGED <<sshSize, sessions, channels, lock, sshOpens>>

(* A reply that fails drops the stream, which records an error. *)
SshReply(c) ==
  /\ sshClient[c].pc = "reply"
  /\ \/ sshClient' = [sshClient EXCEPT ![c].pc = "relay"] /\ UNCHANGED <<sessions, channels>>
     \/ Release(c, [sessions[sshClient[c].session] EXCEPT !.errors = @ + 1])
  /\ UNCHANGED <<sshSize, lock, sshOpens>>

(* relay_ssh_native_tcp: a graceful close, or an error. *)
SshRelayEnds(c) ==
  /\ sshClient[c].pc = "relay"
  /\ \E n \in {0, 1} : Release(c, [sessions[sshClient[c].session] EXCEPT !.errors = @ + n])
  /\ UNCHANGED <<sshSize, lock, sshOpens>>

(* The connection of a session ends; nothing takes it out of the pool.     *)
SessionDies(i) ==
  /\ i \in DOMAIN sessions /\ sessions[i].alive /\ sessions' = [sessions EXCEPT ![i].alive = FALSE]
  /\ UNCHANGED <<sshSize, channels, lock, sshClient, sshOpens>>

(* RECENT_FAILURE_WINDOW_MS passes. *)
FailureAges(i) ==
  /\ i \in DOMAIN sessions /\ sessions[i].recent /\ sessions' = [sessions EXCEPT ![i].recent = FALSE]
  /\ UNCHANGED <<sshSize, channels, lock, sshClient, sshOpens>>

SshTunnel(c) == Lock(c) \/ SshConnect(c) \/ Choose(c) \/ OpenFails(c) \/ OpenOk(c) \/ SshReply(c)

SshNext ==
  \/ \E c \in SshClients : SshAccept(c) \/ SshTunnel(c) \/ SshRelayEnds(c)
  \/ \E i \in DOMAIN sessions : SessionDies(i) \/ FailureAges(i)

SshSpec == SshInit /\ [][SshNext]_sshVars

-----------------------------------------------------------------------------
Holders(i) == {c \in SshClients : sshClient[c].session = i}

(* The counters by which the pool grows and chooses are exact at every     *)
(* moment: a channel counts from its acquisition until its guard or its    *)
(* stream is dropped, once.                                                *)
ChannelsExact ==
  /\ \A i \in DOMAIN sessions : sessions[i].active = Cardinality(Holders(i))
  /\ channels = Cardinality({c \in SshClients : sshClient[c].session # 0})

(* Concurrent opens never take the pool past its size: the check and the   *)
(* push are under one mutex.                                               *)
PoolCapped == Len(sessions) <= sshSize

(* A recently failed session is not taken while another session is idle    *)
(* and without failures, unless that one has carried a GiB: the penalty    *)
(* outweighs the latencies.                                                *)
AvoidsRecentFailure ==
  \A c \in SshClients, i \in DOMAIN sessions :
       sshClient[c].pc = "held" /\ sshClient'[c].session = i /\ sessions[i].recent =>
         ~\E j \in DOMAIN sessions : sessions[j] = [Fresh EXCEPT !.alive = sessions[j].alive]
=============================================================================
