------------------------------ MODULE QuicPool ------------------------------
(***************************************************************************)
(* The quic-native transport of a forward route.  A pass of the supervisor *)
(* connects a pool of QUIC connections, publishes it in the StateSlot and  *)
(* serves clients until it is told to stop (runtime.rs, listener.rs).      *)
(* Every connection has a control loop with pings (control_loop.rs); every *)
(* client is one flow on one connection (open_stream, stream.rs).          *)
(***************************************************************************)
EXTENDS Naturals, Sequences, FiniteSets

CONSTANTS QuicClients,
          MaxWorkers,    \* connections that the passes of the supervisor may make
          MaxFlows,      \* flows that clients ask for
          MaxQuiet,      \* ticks without a pong, over all workers
          QuicNoise      \* what failures, resets, backpressure and latency add to a score at most

ASSUME QuicAssumption == IsFiniteSet(QuicClients) /\ {MaxWorkers, MaxFlows, MaxQuiet, QuicNoise} \subseteq Nat

VARIABLES
  quicSize,    \* transport_pool_size
  quicPass,    \* the last pass, and what it is doing
  current,     \* StateSlot::current: a pass, or 0
  worker,      \* every connection that was made, oldest first
  quicActive,  \* State::active_quic_flows of every pass
  flow,        \* what every client's flow is doing
  flows

quicVars == <<quicSize, quicPass, current, worker, quicActive, flow, flows>>

(* age counts ticks since the ping that is pending was sent, quiet ticks   *)
(* since the last pong; wire is what the control stream carries.           *)
Worker == [pass : 1..MaxWorkers, alive : BOOLEAN, loop : BOOLEAN, degraded : BOOLEAN, pending : BOOLEAN,
           age : 0..4, quiet : 0..5, wire : {"none", "asked", "torn"},
           flows : 0..MaxFlows]
Connected(p) == [pass |-> p, alive |-> TRUE, loop |-> TRUE, degraded |-> FALSE, pending |-> FALSE,
                 age |-> 0, quiet |-> 0, wire |-> "none", flows |-> 0]

Flow == [pc : {"idle", "opening", "header", "relay", "closing"}, w : 0..MaxWorkers]
NoFlow == [pc |-> "idle", w |-> 0]

QuicTypeOK ==
  /\ quicSize \in 1..MaxWorkers /\ quicPass \in [n : 0..MaxWorkers, pc : {"off", "connect", "bind", "serve", "clear"}] /\ current \in 0..MaxWorkers
  /\ worker \in Seq(Worker) /\ quicActive \in [1..MaxWorkers -> 0..MaxFlows]
  /\ flow \in [QuicClients -> Flow] /\ flows \in 0..MaxFlows

QuicInit ==
  /\ quicSize \in 1..MaxWorkers /\ quicPass = [n |-> 0, pc |-> "off"] /\ current = 0 /\ worker = <<>>
  /\ quicActive = [p \in 1..MaxWorkers |-> 0] /\ flow = [c \in QuicClients |-> NoFlow] /\ flows = 0

Pool(p) == {i \in DOMAIN worker : worker[i].pass = p}

-----------------------------------------------------------------------------
(* run_with_slot: State::connect, set_current, run_with_state,             *)
(* clear_current.                                                          *)
QuicBegin ==
  /\ quicPass.pc = "off" /\ (quicPass.n + 1) * quicSize <= MaxWorkers /\ quicPass' = [n |-> quicPass.n + 1, pc |-> "connect"]
  /\ UNCHANGED <<quicSize, current, worker, quicActive, flow, flows>>

(* connect_worker; a failure ends the pass if there is no worker yet, and  *)
(* a later one leaves a partial pool.                                      *)
QuicConnect ==
  /\ quicPass.pc = "connect" /\ Cardinality(Pool(quicPass.n)) < quicSize
  /\ \/ worker' = Append(worker, Connected(quicPass.n)) /\ UNCHANGED <<quicPass, current>>
     \/ Pool(quicPass.n) = {} /\ quicPass' = [quicPass EXCEPT !.pc = "off"] /\ UNCHANGED <<worker, current>>
     \/ Pool(quicPass.n) # {} /\ quicPass' = [quicPass EXCEPT !.pc = "bind"] /\ current' = quicPass.n /\ UNCHANGED worker
  /\ UNCHANGED <<quicSize, quicActive, flow, flows>>

QuicPublish ==
  /\ quicPass.pc = "connect" /\ Cardinality(Pool(quicPass.n)) = quicSize
  /\ quicPass' = [quicPass EXCEPT !.pc = "bind"] /\ current' = quicPass.n
  /\ UNCHANGED <<quicSize, worker, quicActive, flow, flows>>

QuicBind ==
  /\ quicPass.pc = "bind" /\ \E pc \in {"serve", "clear"} : quicPass' = [quicPass EXCEPT !.pc = pc]
  /\ UNCHANGED <<quicSize, current, worker, quicActive, flow, flows>>

(* A shutdown request or an error of accept; a degraded control stream is  *)
(* no reason to end.                                                       *)
QuicServeEnds ==
  /\ quicPass.pc = "serve" /\ quicPass' = [quicPass EXCEPT !.pc = "clear"]
  /\ UNCHANGED <<quicSize, current, worker, quicActive, flow, flows>>

ClearCurrent ==
  /\ quicPass.pc = "clear" /\ quicPass' = [quicPass EXCEPT !.pc = "off"]
  /\ current' = IF current = quicPass.n THEN 0 ELSE current
  /\ UNCHANGED <<quicSize, worker, quicActive, flow, flows>>

-----------------------------------------------------------------------------
(* run_control_loop and run_native_quic_control_loop.  The loops of a pass *)
(* that has ended go on.                                                   *)
TimeoutTicks == 3      \* CONTROL_KEEPALIVE_TIMEOUT / CONTROL_KEEPALIVE_INTERVAL

SetWorker(i, r) == worker' = [worker EXCEPT ![i] = r] /\ UNCHANGED <<quicSize, quicPass, current, quicActive, flow, flows>>
Degrade(r)      == [r EXCEPT !.degraded = TRUE, !.loop = FALSE, !.quiet = 0,
                                  !.wire = IF @ = "torn" THEN @ ELSE "none"]
Quiet           == LET upto[i \in 0..Len(worker)] == IF i = 0 THEN 0 ELSE upto[i - 1] + worker[i].quiet
                   IN  upto[Len(worker)]

(* One tick.  The ping is stamped after its tick, so that the third tick   *)
(* after it may find it a little younger than the timeout.  A tick drops   *)
(* the read of a frame, and tears one that has arrived in part.            *)
Tick(i) ==
  /\ i \in DOMAIN worker /\ worker[i].loop /\ Quiet < MaxQuiet
  /\ \E wire \in {worker[i].wire} \cup {"torn" : x \in {"asked"} \cap {worker[i].wire}} :
     LET r == [worker[i] EXCEPT !.age = @ + (IF worker[i].pending THEN 1 ELSE 0), !.quiet = @ + 1, !.wire = wire]
     IN \/ r.pending /\ r.age >= TimeoutTicks /\ SetWorker(i, Degrade(r))
        \/ r.pending /\ r.age <= TimeoutTicks /\ SetWorker(i, r)
        \/ ~r.pending /\ SetWorker(i, [r EXCEPT !.pending = TRUE, !.age = 0, !.wire = IF r.alive THEN "asked" ELSE @])
        \/ ~r.pending /\ ~r.alive /\ SetWorker(i, Degrade(r))

(* The loop of the far node answers, and the pong is read. *)
PongArrives(i) ==
  /\ i \in DOMAIN worker /\ worker[i].loop /\ worker[i].alive /\ worker[i].wire = "asked"
  /\ SetWorker(i, [worker[i] EXCEPT !.wire = "none", !.pending = FALSE, !.age = 0, !.quiet = 0])

(* The read fails: the connection is lost, or the rest of a torn frame has *)
(* no magic.                                                               *)
ReadFails(i) ==
  /\ i \in DOMAIN worker /\ worker[i].loop /\ (~worker[i].alive \/ worker[i].wire = "torn")
  /\ SetWorker(i, Degrade(worker[i]))

ConnectionDies(i) ==
  /\ i \in DOMAIN worker /\ worker[i].alive /\ SetWorker(i, [worker[i] EXCEPT !.alive = FALSE])

-----------------------------------------------------------------------------
(* open_stream with select_worker.                                         *)
quic_worker_score(r) ==
  r.flows * 10000 + (IF r.degraded THEN 1000000 ELSE 0)

QuicPreferred(p) == {i \in Pool(p) : \A j \in Pool(p) : quic_worker_score(worker[i]) <= quic_worker_score(worker[j]) + QuicNoise}

SetFlow(c, f) == flow' = [flow EXCEPT ![c] = f]

QuicAccept(c) ==
  /\ quicPass.pc = "serve" /\ flow[c].pc = "idle" /\ flows < MaxFlows /\ flows' = flows + 1
  /\ \E i \in QuicPreferred(quicPass.n) : SetFlow(c, [NoFlow EXCEPT !.pc = "opening", !.w = i])
  /\ UNCHANGED <<quicSize, quicPass, current, worker, quicActive>>

(* open_bi; a stream that was opened is counted by its worker and by the   *)
(* state.                                                                  *)
OpenBi(c) ==
  /\ flow[c].pc = "opening"
  /\ LET i == flow[c].w IN
       \/ /\ worker[i].alive /\ worker' = [worker EXCEPT ![i].flows = @ + 1]
          /\ quicActive' = [quicActive EXCEPT ![worker[i].pass] = @ + 1]
          /\ SetFlow(c, [flow[c] EXCEPT !.pc = "header"])
       \/ SetFlow(c, NoFlow) /\ UNCHANGED <<worker, quicActive>>
  /\ UNCHANGED <<quicSize, quicPass, current, flows>>

(* record_flow_closed: the count does not go below 0. *)
Uncount(i) == worker' = [worker EXCEPT ![i].flows = IF @ = 0 THEN 0 ELSE @ - 1]

DropState(c) == quicActive' = [quicActive EXCEPT ![worker[flow[c].w].pass] = IF @ = 0 THEN 0 ELSE @ - 1]

(* The header, then the reply to the client and the initial bytes.  A      *)
(* failure or a timeout of the header counts the flow out; a later failure *)
(* drops the stream, which resets it: the counts are the same.             *)
Header(c) ==
  /\ flow[c].pc = "header"
  /\ \/ SetFlow(c, [flow[c] EXCEPT !.pc = "relay"]) /\ UNCHANGED <<worker, quicActive>>
     \/ Uncount(flow[c].w) /\ DropState(c) /\ SetFlow(c, NoFlow)
  /\ UNCHANGED <<quicSize, quicPass, current, flows>>

(* The relay ends with finish or with reset, which count the flow out of   *)
(* its worker; the lock of the close reason is awaited before the drop.    *)
QuicRelayEnds(c) ==
  /\ flow[c].pc = "relay" /\ SetFlow(c, [flow[c] EXCEPT !.pc = "closing"]) /\ Uncount(flow[c].w)
  /\ UNCHANGED <<quicSize, quicPass, current, quicActive, flows>>

DropStream(c) ==
  /\ flow[c].pc = "closing" /\ DropState(c) /\ SetFlow(c, NoFlow)
  /\ UNCHANGED <<quicSize, quicPass, current, worker, flows>>

QuicNext ==
  \/ QuicBegin \/ QuicConnect \/ QuicPublish \/ QuicBind \/ QuicServeEnds \/ ClearCurrent
  \/ \E i \in 1..MaxWorkers :
       Tick(i) \/ PongArrives(i) \/ ReadFails(i) \/ ConnectionDies(i)
  \/ \E c \in QuicClients :
       QuicAccept(c) \/ OpenBi(c) \/ Header(c) \/ QuicRelayEnds(c) \/ DropStream(c)

QuicSpec == QuicInit /\ [][QuicNext]_quicVars

-----------------------------------------------------------------------------
(* The load by which workers are chosen, and the count that the status     *)
(* reports, are exact: a flow counts at its worker until it is finished,   *)
(* reset or dropped, whichever comes first, and at its state until the     *)
(* drop.                                                                   *)
FlowsExact ==
  /\ \A i \in DOMAIN worker :
       worker[i].flows = Cardinality({c \in QuicClients : flow[c].w = i /\ flow[c].pc \in {"header", "relay"}})
  /\ \A p \in 1..MaxWorkers :
       quicActive[p] = Cardinality({c \in QuicClients : flow[c].w \in Pool(p) /\ flow[c].pc \notin {"idle", "opening"}})

(* A control stream on which pongs stop is given up by the fifth tick: the *)
(* ping that is pending keeps its time.                                    *)
SilenceIsNoticed == \A i \in DOMAIN worker : worker[i].loop => worker[i].quiet <= 4

(* A worker is marked degraded for a reason: its connection is lost, a     *)
(* frame was torn by a tick, or a ping stayed unanswered for three ticks.  *)
DegradedHasCause ==
  \A i \in DOMAIN worker : worker[i].degraded =>
    ~worker[i].alive \/ worker[i].wire = "torn" \/ (worker[i].pending /\ worker[i].age >= 3)

(* A flow goes to a degraded worker only when the whole pool is degraded.  *)
QuicPrefersHealthy ==
  \A c \in QuicClients : flow[c].pc = "idle" /\ flow'[c].pc = "opening" /\ worker[flow'[c].w].degraded =>
       \A i \in Pool(quicPass.n) : worker[i].degraded

(* The slot shows the pass that serves, and no pass that has returned.     *)
SlotShowsServing == (quicPass.pc = "serve" => current = quicPass.n) /\ (quicPass.pc = "off" => current = 0)
=============================================================================
