------------------------------ MODULE PoolProofs -----------------------------
(***************************************************************************)
(* The SPX bridges (SpxPool) and the QUIC connections (QuicPool) of a      *)
(* route: what can leave a client waiting for a bridge, what the pools     *)
(* report and count, and the worker a flow is given, for every set of      *)
(* clients and every number of bridges, workers and flows.                 *)
(***************************************************************************)
EXTENDS SpxPool, QuicPool, Integers, TLAPS

-----------------------------------------------------------------------------
(* Clients that wait.                                                      *)

TaskRec   == [pc : TaskPCs, gen : Nat]
ClientRec == [pc : ClientPCs, slot : Nat, gen : Nat]

\* Places of a worker whose bridge is not in its slot, of one whose bridge is, and of a client
\* that found none.
Without == {"none", "connect", "publish", "backoff", "done"}
Offered == {"arm", "gap", "live"}
Waiting == {"gap", "armed", "loaded", "wait"}

WorkerShape ==
  /\ size \in Slots /\ pass \in 0..MaxLoad /\ opens \in Nat /\ generation \in Nat
  /\ slot \in [Slots -> Nat] /\ connected \in [Slots -> BOOLEAN]
  /\ task \in [Passes \X Slots -> TaskRec]

\* What a worker's place says of its slot, as long as the slot has one worker.
Local(r, sl, con) ==
  /\ r.pc \in Without => sl = 0
  /\ r.pc \in Offered \cup {"publish"} => con
  /\ r.pc \in Offered => sl = r.gen

Future == \A t \in Passes \X Slots : t[1] > pass => task[t].pc = "none"
Before == pass = 0 => \A s \in Slots : slot[s] = 0
First  == pass = 1 => \A s \in Slots : Local(task[<<1, s>>], slot[s], connected[s])

WorkerInv == WorkerShape /\ Future /\ Before /\ First

ClientShape == /\ client \in [Clients -> ClientRec]
               /\ sd \in {"no", "stored", "woke", "done"}

\* OnlyTheGapStrands, for every client that has looked and not found: the missed bridge is on
\* record from the gap on, and not only when the client finally waits.
Gap == pass = 1 /\ Available # {} => \A c \in Clients : client[c].pc \in Waiting => c \in missed

IInv == WorkerInv /\ ClientShape /\ Gap /\ ShutdownFreesClients

-----------------------------------------------------------------------------
\* A worker goes to another place, with what it does to its slot.
LEMMA WorkerStep ==
  ASSUME WorkerInv, NEW t \in Passes \X Slots, task[t].pc # "none",
         NEW STATE r, r \in TaskRec, NEW STATE x, x \in Nat, NEW STATE b, b \in BOOLEAN,
         task' = [task EXCEPT ![t] = r], slot' = [slot EXCEPT ![t[2]] = x],
         connected' = [connected EXCEPT ![t[2]] = b],
         generation' \in Nat, UNCHANGED <<size, pass, opens>>,
         pass = 1 => Local(r, x, b)
  PROVE  WorkerInv'
  <1>1. t[1] \in Passes /\ t[2] \in Slots /\ t = <<t[1], t[2]>> /\ t[1] <= pass
    BY DEF WorkerInv, WorkerShape, Future, Passes
  <1>2. WorkerShape'
    BY <1>1, Zenon DEF WorkerInv, WorkerShape
  <1>3. \A u \in Passes \X Slots : task'[u] = IF u = t THEN r ELSE task[u]
    BY Zenon DEF WorkerInv, WorkerShape
  <1>4. Future'
    BY <1>1, <1>3 DEF WorkerInv, Future
  <1>5. pass >= 1
    BY <1>1, PoolBounds DEF Passes, WorkerInv, WorkerShape
  <1>6. Before'
    BY <1>5 DEF Before
  <1>7. First'
    <2> SUFFICES ASSUME pass = 1, NEW s \in Slots
                 PROVE  Local(task[<<1, s>>], slot[s], connected[s])'
      BY Zenon DEF First
    <2>1. t[1] = 1 /\ <<1, s>> \in Passes \X Slots
      BY <1>1 DEF Passes
    <2>2. CASE s = t[2]
      <3>1. task'[<<1, s>>] = r /\ slot'[s] = x /\ connected'[s] = b
        BY <1>1, <1>3, <2>1, <2>2, Zenon DEF WorkerInv, WorkerShape
      <3> QED BY <3>1, Zenon DEF Local
    <2>3. CASE s # t[2]
      <3>1. task'[<<1, s>>] = task[<<1, s>>] /\ slot'[s] = slot[s] /\ connected'[s] = connected[s]
        BY <1>1, <1>3, <2>1, <2>3 DEF WorkerInv, WorkerShape
      <3>2. Local(task[<<1, s>>], slot[s], connected[s])
        BY Zenon DEF WorkerInv, First
      <3> QED BY <3>1, <3>2, Zenon DEF Local
    <2> QED BY <2>2, <2>3, Zenon
  <1> QED BY <1>2, <1>4, <1>6, <1>7, Zenon DEF WorkerInv

\* A step of a worker keeps what the workers' places say of the slots.
LEMMA ManageWorkers ==
  ASSUME WorkerInv, NEW t \in Passes \X Slots, Manage(t) PROVE WorkerInv'
  <1>0. /\ t[1] \in Passes /\ t[2] \in Slots /\ task[t] \in TaskRec /\ task[t].gen \in Nat
        /\ task[t] = [pc |-> task[t].pc, gen |-> task[t].gen]
        /\ slot[t[2]] \in Nat /\ connected[t[2]] \in BOOLEAN
        /\ pass = 1 /\ task[t].pc # "none" => Local(task[t], slot[t[2]], connected[t[2]])
    <2>1. t[1] \in Passes /\ t[2] \in Slots /\ t = <<t[1], t[2]>> /\ task[t] \in TaskRec
      BY DEF WorkerInv, WorkerShape
    <2>2. task[t] = [pc |-> task[t].pc, gen |-> task[t].gen] /\ task[t].gen \in Nat
      BY <2>1, Zenon DEF TaskRec
    <2>3. slot[t[2]] \in Nat /\ connected[t[2]] \in BOOLEAN
      BY <2>1, Zenon DEF WorkerInv, WorkerShape
    <2>4. ASSUME pass = 1, task[t].pc # "none" PROVE t = <<1, t[2]>>
      BY <2>1, <2>4, PoolBounds DEF WorkerInv, Future, Passes
    <2>5. pass = 1 /\ task[t].pc # "none" => Local(task[t], slot[t[2]], connected[t[2]])
      BY <2>1, <2>4, Zenon DEF WorkerInv, First
    <2> QED BY <2>1, <2>2, <2>3, <2>5, Zenon
  <1>a. ASSUME NEW STATE p, Goto(t, p) PROVE task' = [task EXCEPT ![t] = [pc |-> p, gen |-> task[t].gen]]
    <2>1. [task[t] EXCEPT !.pc = p] = [pc |-> p, gen |-> task[t].gen]
      BY <1>0
    <2>2. task' = [task EXCEPT ![t] = [task[t] EXCEPT !.pc = p]]
      BY <1>a, Zenon DEF Goto
    <2> QED BY <2>1, <2>2, Zenon
  <1>b. slot = [slot EXCEPT ![t[2]] = slot[t[2]]] /\ connected = [connected EXCEPT ![t[2]] = connected[t[2]]]
    BY Zenon DEF WorkerInv, WorkerShape
  <1>1. ASSUME ConnectOk(t) PROVE WorkerInv'
    <2> DEFINE r == [pc |-> "publish", gen |-> generation + 1]
    <2>1. task[t].pc # "none" /\ r \in TaskRec
      BY <1>0, <1>1 DEF ConnectOk, TaskRec, TaskPCs, WorkerInv, WorkerShape
    <2>2. /\ task' = [task EXCEPT ![t] = r] /\ slot' = [slot EXCEPT ![t[2]] = slot[t[2]]]
          /\ connected' = [connected EXCEPT ![t[2]] = TRUE]
      BY <1>a, <1>b, <1>1, Zenon DEF ConnectOk, pool
    <2>3. /\ slot[t[2]] \in Nat /\ TRUE \in BOOLEAN /\ generation' \in Nat
          /\ UNCHANGED <<size, pass, opens>>
      BY <1>0, <1>1 DEF ConnectOk, pool, tunnels, WorkerInv, WorkerShape
    <2>4. pass = 1 => Local(r, slot[t[2]], TRUE)
      BY <1>0, <1>1, Zenon DEF ConnectOk, Local, Without, Offered, WorkerInv, WorkerShape
    <2> HIDE DEF r
    <2> QED BY <2>1, <2>2, <2>3, <2>4, WorkerStep, Zenon
  <1>2. ASSUME ConnectFails(t) PROVE WorkerInv'
    <2> DEFINE r == [pc |-> "clear", gen |-> task[t].gen]
    <2>1. task[t].pc # "none" /\ r \in TaskRec
      BY <1>0, <1>2, Zenon DEF ConnectFails, TaskRec, TaskPCs, Goto
    <2>2. /\ task' = [task EXCEPT ![t] = r] /\ slot' = [slot EXCEPT ![t[2]] = slot[t[2]]]
          /\ connected' = [connected EXCEPT ![t[2]] = FALSE]
      BY <1>a, <1>b, <1>2, Zenon DEF ConnectFails, pool
    <2>3. /\ slot[t[2]] \in Nat /\ FALSE \in BOOLEAN /\ generation' \in Nat
          /\ UNCHANGED <<size, pass, opens>>
      BY <1>0, <1>2, Zenon DEF ConnectFails, pool, tunnels, WorkerInv, WorkerShape, Goto, TaskRec
    <2>4. pass = 1 => Local(r, slot[t[2]], FALSE)
      BY <1>0, <1>2, Zenon DEF ConnectFails, Local, Without, Offered, Goto, TaskRec
    <2> HIDE DEF r
    <2> QED BY <2>1, <2>2, <2>3, <2>4, WorkerStep, Zenon
  <1>3. ASSUME Publish(t) PROVE WorkerInv'
    <2> DEFINE r == [pc |-> "arm", gen |-> task[t].gen]
    <2>1. task[t].pc # "none" /\ r \in TaskRec
      BY <1>0, <1>3, Zenon DEF Publish, TaskRec, TaskPCs, Goto
    <2>2. /\ task' = [task EXCEPT ![t] = r] /\ slot' = [slot EXCEPT ![t[2]] = task[t].gen]
          /\ connected' = [connected EXCEPT ![t[2]] = connected[t[2]]]
      BY <1>a, <1>b, <1>3, Zenon DEF Publish, pool
    <2>3. /\ task[t].gen \in Nat /\ connected[t[2]] \in BOOLEAN /\ generation' \in Nat
          /\ UNCHANGED <<size, pass, opens>>
      BY <1>0, <1>3, Zenon DEF Publish, pool, tunnels, WorkerInv, WorkerShape, Goto, TaskRec
    <2>4. pass = 1 => Local(r, task[t].gen, connected[t[2]])
      BY <1>0, <1>3, Zenon DEF Publish, Local, Without, Offered, Goto, TaskRec
    <2> HIDE DEF r
    <2> QED BY <2>1, <2>2, <2>3, <2>4, WorkerStep, Zenon
  <1>4. ASSUME Watch(t) PROVE WorkerInv'
    <2> DEFINE r == [pc |-> IF task[t].pc = "gap" THEN "live" ELSE IF Stopping THEN "withdraw" ELSE "gap", gen |-> task[t].gen]
    <2>1. task[t].pc # "none" /\ r \in TaskRec
      BY <1>0, <1>4, Zenon DEF Watch, TaskRec, TaskPCs, Goto
    <2>2. /\ task' = [task EXCEPT ![t] = r] /\ slot' = [slot EXCEPT ![t[2]] = slot[t[2]]]
          /\ connected' = [connected EXCEPT ![t[2]] = connected[t[2]]]
      BY <1>a, <1>b, <1>4, Zenon DEF Watch, pool
    <2>3. /\ slot[t[2]] \in Nat /\ connected[t[2]] \in BOOLEAN /\ generation' \in Nat
          /\ UNCHANGED <<size, pass, opens>>
      BY <1>0, <1>4, Zenon DEF Watch, pool, tunnels, WorkerInv, WorkerShape, Goto, TaskRec
    <2>4. pass = 1 => Local(r, slot[t[2]], connected[t[2]])
      BY <1>0, <1>4, Zenon DEF Watch, Local, Without, Offered, Goto, TaskRec
    <2> HIDE DEF r
    <2> QED BY <2>1, <2>2, <2>3, <2>4, WorkerStep, Zenon
  <1>5. ASSUME Notice(t) PROVE WorkerInv'
    <2> DEFINE r == [pc |-> "withdraw", gen |-> task[t].gen]
    <2>1. task[t].pc # "none" /\ r \in TaskRec
      BY <1>0, <1>5, Zenon DEF Notice, TaskRec, TaskPCs, Goto
    <2>2. /\ task' = [task EXCEPT ![t] = r] /\ slot' = [slot EXCEPT ![t[2]] = slot[t[2]]]
          /\ connected' = [connected EXCEPT ![t[2]] = connected[t[2]]]
      BY <1>a, <1>b, <1>5, Zenon DEF Notice, pool
    <2>3. /\ slot[t[2]] \in Nat /\ connected[t[2]] \in BOOLEAN /\ generation' \in Nat
          /\ UNCHANGED <<size, pass, opens>>
      BY <1>0, <1>5, Zenon DEF Notice, pool, tunnels, WorkerInv, WorkerShape, Goto, TaskRec
    <2>4. pass = 1 => Local(r, slot[t[2]], connected[t[2]])
      BY <1>0, <1>5, Zenon DEF Notice, Local, Without, Offered, Goto, TaskRec
    <2> HIDE DEF r
    <2> QED BY <2>1, <2>2, <2>3, <2>4, WorkerStep, Zenon
  <1>6. ASSUME RecordDisconnected(t) PROVE WorkerInv'
    <2> DEFINE r == [pc |-> "clear", gen |-> task[t].gen]
    <2>1. task[t].pc # "none" /\ r \in TaskRec
      BY <1>0, <1>6, Zenon DEF RecordDisconnected, TaskRec, TaskPCs, Goto
    <2>2. /\ task' = [task EXCEPT ![t] = r] /\ slot' = [slot EXCEPT ![t[2]] = slot[t[2]]]
          /\ connected' = [connected EXCEPT ![t[2]] = FALSE]
      BY <1>a, <1>b, <1>6, Zenon DEF RecordDisconnected, pool
    <2>3. /\ slot[t[2]] \in Nat /\ FALSE \in BOOLEAN /\ generation' \in Nat
          /\ UNCHANGED <<size, pass, opens>>
      BY <1>0, <1>6, Zenon DEF RecordDisconnected, pool, tunnels, WorkerInv, WorkerShape, Goto, TaskRec
    <2>4. pass = 1 => Local(r, slot[t[2]], FALSE)
      BY <1>0, <1>6, Zenon DEF RecordDisconnected, Local, Without, Offered, Goto, TaskRec
    <2> HIDE DEF r
    <2> QED BY <2>1, <2>2, <2>3, <2>4, WorkerStep, Zenon
  <1>7. ASSUME Clear(t) PROVE WorkerInv'
    <2> DEFINE r == [pc |-> IF reconnect THEN "backoff" ELSE "done", gen |-> 0]
    <2>1. task[t].pc # "none" /\ r \in TaskRec
      BY <1>0, <1>7, Zenon DEF Clear, TaskRec, TaskPCs
    <2>2. /\ task' = [task EXCEPT ![t] = r] /\ slot' = [slot EXCEPT ![t[2]] = 0]
          /\ connected' = [connected EXCEPT ![t[2]] = connected[t[2]]]
      BY <1>a, <1>b, <1>7, Zenon DEF Clear, pool
    <2>3. /\ 0 \in Nat /\ connected[t[2]] \in BOOLEAN /\ generation' \in Nat
          /\ UNCHANGED <<size, pass, opens>>
      BY <1>0, <1>7, Zenon DEF Clear, pool, tunnels, WorkerInv, WorkerShape, TaskRec
    <2>4. pass = 1 => Local(r, 0, connected[t[2]])
      BY <1>0, <1>7, Zenon DEF Clear, Local, Without, Offered, TaskRec
    <2> HIDE DEF r
    <2> QED BY <2>1, <2>2, <2>3, <2>4, WorkerStep, Zenon
  <1>8. ASSUME Backoff(t) PROVE WorkerInv'
    <2> DEFINE r == [pc |-> Top, gen |-> task[t].gen]
    <2>1. task[t].pc # "none" /\ r \in TaskRec
      BY <1>0, <1>8, Zenon DEF Backoff, TaskRec, TaskPCs, Goto, Top
    <2>2. /\ task' = [task EXCEPT ![t] = r] /\ slot' = [slot EXCEPT ![t[2]] = slot[t[2]]]
          /\ connected' = [connected EXCEPT ![t[2]] = connected[t[2]]]
      BY <1>a, <1>b, <1>8, Zenon DEF Backoff, pool, Top
    <2>3. /\ slot[t[2]] \in Nat /\ connected[t[2]] \in BOOLEAN /\ generation' \in Nat
          /\ UNCHANGED <<size, pass, opens>>
      BY <1>0, <1>8, Zenon DEF Backoff, pool, tunnels, WorkerInv, WorkerShape, Goto, Top, TaskRec
    <2>4. pass = 1 => Local(r, slot[t[2]], connected[t[2]])
      BY <1>0, <1>8, Zenon DEF Backoff, Local, Without, Offered, Goto, Top, TaskRec
    <2> HIDE DEF r
    <2> QED BY <2>1, <2>2, <2>3, <2>4, WorkerStep, Zenon
  <1> QED BY <1>1, <1>2, <1>3, <1>4, <1>5, <1>6, <1>7, <1>8, Zenon DEF Manage

\* Steps that leave workers and slots alone.
LEMMA WorkersStill ==
  ASSUME WorkerInv, UNCHANGED <<size, pass, generation, slot, connected, task>>, opens' \in Nat
  PROVE  WorkerInv'
  BY Zenon DEF WorkerInv, WorkerShape, Future, Before, First, Local

\* No step, of a worker or of anybody else, breaks the workers' part of the invariant.
LEMMA WorkersNext == ASSUME WorkerInv, [Next]_vars PROVE WorkerInv'
  <1>0. opens \in Nat
    BY Zenon DEF WorkerInv, WorkerShape
  <1>1. CASE Begin
    <2>1. size \in Nat /\ size >= 1 /\ pass \in Nat /\ opens \in Nat /\ MaxLoad \in Nat
      BY PoolBounds DEF WorkerInv, WorkerShape, Slots
    <2>2. /\ opens + (pass + 1) * size <= MaxLoad /\ pass' = pass + 1
          /\ task' = [t \in Passes \X Slots |->
                        IF t[1] = pass + 1 /\ t[2] <= size THEN [pc |-> Top, gen |-> 0] ELSE task[t]]
          /\ UNCHANGED <<size, slot, connected, generation, opens>>
      BY <1>1, Zenon DEF Begin, pool, tunnels
    <2>3. pass + 1 <= (pass + 1) * size
      BY <2>1, SMTT(30)
    <2>4. (pass + 1) * size \in Nat
      BY <2>1
    <2>5. pass' \in 0..MaxLoad
      BY <2>1, <2>2, <2>3, <2>4
    <2>6. [pc |-> Top, gen |-> 0] \in TaskRec /\ Top \in Without
      BY Zenon DEF Top, TaskRec, TaskPCs, Without
    <2>7. WorkerShape'
      BY <2>2, <2>5, <2>6, Zenon DEF WorkerInv, WorkerShape
    <2>8. Future'
      BY <2>1, <2>2, PoolBounds DEF WorkerInv, Future, Passes
    <2>9. Before'
      BY <2>1, <2>2 DEF Before
    <2>10. First'
      <3> SUFFICES ASSUME pass' = 1, NEW s \in Slots PROVE Local(task[<<1, s>>], slot[s], connected[s])'
        BY Zenon DEF First
      <3>1. pass = 0 /\ slot[s] = 0 /\ slot'[s] = 0 /\ <<1, s>> \in Passes \X Slots
        BY <2>1, <2>2, <2>5 DEF WorkerInv, Before, Passes
      <3>2. task[<<1, s>>].pc = "none"
        BY <3>1 DEF WorkerInv, Future
      <3>3. task'[<<1, s>>].pc \in {Top, "none"}
        BY <2>2, <3>1, <3>2, Zenon
      <3>4. task'[<<1, s>>].pc \in {"connect", "done", "none"}
        BY <3>3, Zenon DEF Top
      <3> QED BY <3>1, <3>4, Zenon DEF Local, Without, Offered
    <2> QED BY <2>7, <2>8, <2>9, <2>10, Zenon DEF WorkerInv
  <1>2. CASE InitialBridge \/ Bind \/ ServeEnds
    BY <1>0, <1>2, WorkersStill, Zenon DEF InitialBridge, Bind, ServeEnds, pool, tunnels
  <1>3. CASE ShutdownStore \/ ShutdownNotify
    BY <1>0, <1>3, WorkersStill, Zenon DEF ShutdownStore, ShutdownNotify, pool, tunnels
  <1>4. CASE ShutdownWake
    <2>1. /\ task' = [t \in Passes \X Slots |->
                        IF task[t].pc = "live" THEN [task[t] EXCEPT !.pc = "withdraw"] ELSE task[t]]
          /\ UNCHANGED <<size, pass, generation, slot, connected, opens>>
      BY <1>4, Zenon DEF ShutdownWake, pool
    <2>2. ASSUME NEW t \in Passes \X Slots
          PROVE  /\ task'[t] \in TaskRec
                 /\ task'[t] = task[t] \/ (task[t].pc = "live" /\ task'[t].pc = "withdraw")
      <3>1. task[t] \in TaskRec
        BY Zenon DEF WorkerInv, WorkerShape
      <3>2. [task[t] EXCEPT !.pc = "withdraw"] \in TaskRec /\ [task[t] EXCEPT !.pc = "withdraw"].pc = "withdraw"
        BY <3>1, Zenon DEF TaskRec, TaskPCs
      <3> QED BY <2>1, <3>1, <3>2, Zenon
    <2>3. task' \in [Passes \X Slots -> TaskRec]
      BY <2>1, <2>2, Zenon
    <2>4. WorkerShape' /\ Before'
      BY <2>1, <2>3, Zenon DEF WorkerInv, WorkerShape, Before
    <2>5. Future'
      BY <2>1, <2>2, Zenon DEF WorkerInv, Future
    <2>6. First'
      <3> SUFFICES ASSUME pass = 1, NEW s \in Slots PROVE Local(task[<<1, s>>], slot[s], connected[s])'
        BY <2>1, Zenon DEF First
      <3>1. <<1, s>> \in Passes \X Slots /\ Local(task[<<1, s>>], slot[s], connected[s])
        BY PoolBounds DEF WorkerInv, WorkerShape, First, Passes
      <3>2. task'[<<1, s>>] = task[<<1, s>>] \/ task'[<<1, s>>].pc = "withdraw"
        BY <2>2, <3>1, Zenon
      <3> QED BY <2>1, <3>1, <3>2, Zenon DEF Local, Without, Offered
    <2> QED BY <2>4, <2>5, <2>6, Zenon DEF WorkerInv
  <1>5. ASSUME NEW t \in Passes \X Slots, Manage(t) PROVE WorkerInv'
    BY <1>5, ManageWorkers, Zenon
  <1>6. ASSUME NEW g \in Gens, LinkEnds(g) PROVE WorkerInv'
    BY <1>0, <1>6, WorkersStill, Zenon DEF LinkEnds, pool, tunnels
  <1>7. ASSUME NEW c \in Clients, Accept(c) \/ Tunnel(c) \/ RelayEnds(c) PROVE WorkerInv'
    <2>1. CASE Accept(c)
      BY <1>0, <2>1, WorkersStill DEF Accept, pool
    <2>2. CASE Look(c) \/ Await(c) \/ Open(c)
      BY <1>0, <2>2, WorkersStill, Zenon DEF Look, Await, Open, pool
    <2>3. CASE Reply(c) \/ RelayEnds(c)
      BY <1>0, <2>3, WorkersStill, Zenon DEF Reply, RelayEnds, pool
    <2> QED BY <1>7, <2>1, <2>2, <2>3, Zenon DEF Tunnel
  <1>8. CASE UNCHANGED vars
    BY <1>0, <1>8, WorkersStill, Zenon DEF vars, pool, tunnels
  <1> QED BY <1>1, <1>2, <1>3, <1>4, <1>5, <1>6, <1>7, <1>8, Zenon DEF Next, Runner, Shutdown

-----------------------------------------------------------------------------
\* No client begins to wait, none that waits loses its record, no bridge becomes available.
LEMMA GapStill ==
  ASSUME Gap, pass' = 1 => pass = 1 /\ Available' \subseteq Available,
         \A c \in Clients : client'[c].pc \in Waiting => client[c].pc \in Waiting,
         \A c \in Clients : client'[c].pc \in Waiting /\ c \in missed => c \in missed'
  PROVE  Gap'
  BY Zenon DEF Gap

\* Notification: who is registered looks again, the others stay where they are.
LEMMA Notified ==
  ASSUME ClientShape, NotifyWaiters
  PROVE  /\ client' \in [Clients -> ClientRec]
         /\ \A c \in Clients : client'[c].pc = IF client[c].pc \in Registered THEN "look" ELSE client[c].pc
  <1>1. client' = [c \in Clients |-> IF client[c].pc \in Registered THEN [client[c] EXCEPT !.pc = "look"]
                                                                   ELSE client[c]]
    BY Zenon DEF NotifyWaiters, Awake
  <1>2. ASSUME NEW c \in Clients
        PROVE  [client[c] EXCEPT !.pc = "look"] \in ClientRec /\ [client[c] EXCEPT !.pc = "look"].pc = "look"
    <2>1. client[c] \in ClientRec
      BY Zenon DEF ClientShape
    <2> QED BY <2>1, Zenon DEF ClientRec, ClientPCs
  <1> QED BY <1>1, <1>2, Zenon DEF ClientShape

\* One client goes to another place.
LEMMA Moved ==
  ASSUME ClientShape, NEW c \in Clients, NEW STATE q, q \in ClientPCs,
         Step(c, q) \/ (client' = [client EXCEPT ![c] = Off] /\ q = "idle")
  PROVE  /\ client' \in [Clients -> ClientRec]
         /\ \A d \in Clients : client'[d].pc = IF d = c THEN q ELSE client[d].pc
  <1>1. client[c] \in ClientRec
    BY Zenon DEF ClientShape
  <1>2. [client[c] EXCEPT !.pc = q] \in ClientRec /\ [client[c] EXCEPT !.pc = q].pc = q
    BY <1>1, Zenon DEF ClientRec
  <1>3. Off \in ClientRec /\ Off.pc = "idle"
    BY Zenon DEF Off, ClientRec, ClientPCs
  <1>4. CASE Step(c, q)
    <2>1. client' = [client EXCEPT ![c] = [client[c] EXCEPT !.pc = q]]
      BY <1>4, Zenon DEF Step
    <2> QED BY <1>2, <2>1, Zenon DEF ClientShape
  <1>5. CASE client' = [client EXCEPT ![c] = Off] /\ q = "idle"
    BY <1>3, <1>5, Zenon DEF ClientShape
  <1> QED BY <1>4, <1>5, Zenon

\* A step of one client that leaves the slots alone and starts no wait.
LEMMA OneMoved ==
  ASSUME IInv, NEW c \in Clients, NEW STATE q, q \in ClientPCs,
         Step(c, q) \/ (client' = [client EXCEPT ![c] = Off] /\ q = "idle"),
         q \in Waiting => client[c].pc \in Waiting,
         q \in {"loaded", "wait"} => sd # "done",
         UNCHANGED <<pass, sd, slot, connected>>, missed' = missed
  PROVE  ClientShape' /\ Gap' /\ ShutdownFreesClients'
  <1>1. /\ client' \in [Clients -> ClientRec]
        /\ \A d \in Clients : client'[d].pc = IF d = c THEN q ELSE client[d].pc
    BY Moved, Zenon DEF IInv
  <1>2. Available' = Available
    BY Zenon DEF Available
  <1>3. Gap'
    BY <1>1, <1>2, GapStill, Zenon DEF IInv
  <1> QED BY <1>1, <1>3, Zenon DEF IInv, ClientShape, ShutdownFreesClients

\* The clients are where they were.
LEMMA ClientsStill ==
  ASSUME IInv, UNCHANGED client, missed' = missed, sd' \in {"no", "stored", "woke", "done"},
         sd' = "done" => sd = "done",
         pass' = 1 => (pass = 1 /\ Available' \subseteq Available) \/ Available' = {}
  PROVE  ClientShape' /\ Gap' /\ ShutdownFreesClients'
  <1>1. Gap'
    BY Zenon DEF IInv, Gap
  <1> QED BY <1>1, Zenon DEF IInv, ClientShape, ShutdownFreesClients

\* What the steps of the workers do to the clients.
LEMMA ManageClients ==
  ASSUME IInv, NEW t \in Passes \X Slots, Manage(t)
  PROVE  ClientShape' /\ Gap' /\ ShutdownFreesClients'
  <1>0. /\ t[2] \in Slots /\ slot \in [Slots -> Nat] /\ connected \in [Slots -> BOOLEAN]
        /\ sd \in {"no", "stored", "woke", "done"}
    BY Zenon DEF IInv, WorkerInv, WorkerShape, ClientShape
  <1>1. CASE ConnectOk(t)
    <2>1. /\ task[t].pc = "connect" /\ connected' = [connected EXCEPT ![t[2]] = TRUE]
          /\ UNCHANGED <<pass, sd, slot, client, missed>>
      BY <1>1, Zenon DEF ConnectOk, tunnels
    <2>2. pass = 1 => slot[t[2]] = 0
      <3> SUFFICES ASSUME pass = 1 PROVE slot[t[2]] = 0
        BY Zenon
      <3>1. t[1] \in Passes /\ t = <<t[1], t[2]>>
        OBVIOUS
      <3>2. t[1] = 1
        BY <2>1, <3>1, PoolBounds DEF IInv, WorkerInv, Future, Passes
      <3> QED BY <1>0, <2>1, <3>1, <3>2, Zenon DEF IInv, WorkerInv, First, Local, Without
    <2>3. pass = 1 => Available' \subseteq Available
      BY <1>0, <2>1, <2>2, Zenon DEF Available
    <2> QED BY <1>0, <2>1, <2>3, ClientsStill, Zenon
  <1>2. CASE ConnectFails(t) \/ RecordDisconnected(t)
    <2>1. /\ connected' = [connected EXCEPT ![t[2]] = FALSE]
          /\ UNCHANGED <<pass, sd, slot, client, missed>>
      BY <1>2, Zenon DEF ConnectFails, RecordDisconnected, tunnels
    <2>2. Available' \subseteq Available
      BY <1>0, <2>1, Zenon DEF Available
    <2> QED BY <1>0, <2>1, <2>2, ClientsStill, Zenon
  <1>3. CASE Publish(t)
    <2>1. NotifyWaiters /\ missed' = missed \cup InGap /\ UNCHANGED sd
      BY <1>3, Zenon DEF Publish
    <2>2. /\ client' \in [Clients -> ClientRec]
          /\ \A c \in Clients : client'[c].pc = IF client[c].pc \in Registered THEN "look" ELSE client[c].pc
      BY <2>1, Notified, Zenon DEF IInv
    <2>3. \A c \in Clients : client'[c].pc \in Waiting => c \in InGap
      BY <2>2, Zenon DEF Waiting, Registered, InGap
    <2>4. Gap'
      BY <2>1, <2>3, Zenon DEF Gap
    <2>5. ShutdownFreesClients'
      BY <2>1, <2>2, Zenon DEF IInv, ShutdownFreesClients
    <2> QED BY <1>0, <2>1, <2>2, <2>4, <2>5, Zenon DEF ClientShape
  <1>4. CASE Watch(t) \/ Notice(t) \/ Backoff(t)
    <2>1. UNCHANGED <<pass, sd, slot, connected, client, missed>>
      BY <1>4, Zenon DEF Watch, Notice, Backoff, pool, tunnels, past
    <2>2. Available' = Available
      BY <2>1, Zenon DEF Available
    <2> QED BY <1>0, <2>1, <2>2, ClientsStill, Zenon
  <1>5. CASE Clear(t)
    <2>1. /\ NotifyWaiters /\ slot' = [slot EXCEPT ![t[2]] = 0]
          /\ UNCHANGED <<pass, sd, connected, missed>>
      BY <1>5, Zenon DEF Clear, past
    <2>2. /\ client' \in [Clients -> ClientRec]
          /\ \A c \in Clients : client'[c].pc = IF client[c].pc \in Registered THEN "look" ELSE client[c].pc
      BY <2>1, Notified, Zenon DEF IInv
    <2>3. Available' \subseteq Available
      BY <1>0, <2>1, Zenon DEF Available
    <2>4. \A c \in Clients : client'[c].pc \in Waiting => client[c].pc \in Waiting
      BY <2>2, Zenon DEF Waiting
    <2>5. Gap'
      BY <2>1, <2>3, <2>4, GapStill, Zenon DEF IInv
    <2>6. ShutdownFreesClients'
      BY <2>1, <2>2, Zenon DEF IInv, ShutdownFreesClients
    <2> QED BY <1>0, <2>1, <2>2, <2>5, <2>6, Zenon DEF ClientShape
  <1> QED BY <1>1, <1>2, <1>3, <1>4, <1>5, Zenon DEF Manage

\* The pool starts with empty slots and no clients.
LEMMA InitIInv == Init => IInv
  <1> SUFFICES ASSUME Init PROVE IInv
    BY Zenon
  <1>1. WorkerShape
    BY PoolBounds DEF Init, WorkerShape, TaskRec, TaskPCs
  <1>2. Future /\ Before /\ First
    BY DEF Init, Future, Before, First
  <1>3. ClientShape /\ ShutdownFreesClients
    BY Zenon DEF Init, ClientShape, ClientRec, ClientPCs, Off, ShutdownFreesClients
  <1>4. Gap
    BY DEF Init, Gap
  <1> QED BY <1>1, <1>2, <1>3, <1>4, Zenon DEF IInv, WorkerInv

\* Every step keeps the invariant; the workers' part is WorkersNext.
LEMMA NextIInv == IInv /\ [Next]_vars => IInv'
  <1> SUFFICES ASSUME IInv, [Next]_vars PROVE IInv'
    BY Zenon
  <1>w. WorkerInv'
    BY WorkersNext, Zenon DEF IInv
  <1> SUFFICES ClientShape' /\ Gap' /\ ShutdownFreesClients'
    BY <1>w, Zenon DEF IInv
  <1>0. sd \in {"no", "stored", "woke", "done"} /\ client \in [Clients -> ClientRec]
    BY Zenon DEF IInv, ClientShape
  <1>1. CASE Begin
    <2>1. pass' = pass + 1 /\ UNCHANGED <<sd, slot, connected, client, missed>>
      BY <1>1, Zenon DEF Begin, pool, tunnels, past
    <2>2. Available' = Available
      BY <2>1, Zenon DEF Available
    <2>3. pass' = 1 => Available = {}
      BY <2>1, PoolBounds DEF IInv, WorkerInv, WorkerShape, Before, Available
    <2> QED BY <1>0, <2>1, <2>2, <2>3, ClientsStill, Zenon
  <1>2. CASE InitialBridge \/ Bind \/ ServeEnds
    <2>1. UNCHANGED <<pass, sd, slot, connected, client, missed>>
      BY <1>2, Zenon DEF InitialBridge, Bind, ServeEnds, pool, tunnels, past
    <2>2. Available' = Available
      BY <2>1, Zenon DEF Available
    <2> QED BY <1>0, <2>1, <2>2, ClientsStill, Zenon
  <1>3. CASE ShutdownStore
    <2>1. sd' = "stored" /\ UNCHANGED <<pass, slot, connected, client, missed>>
      BY <1>3, Zenon DEF ShutdownStore, pool, tunnels, past
    <2>2. Available' = Available
      BY <2>1, Zenon DEF Available
    <2> QED BY <2>1, <2>2, ClientsStill, Zenon
  <1>4. CASE ShutdownWake
    <2>1. /\ sd' = "woke" /\ UNCHANGED <<pass, slot, connected, missed>>
          /\ client' = [c \in Clients |-> IF client[c].pc = "wait" THEN Off ELSE client[c]]
      BY <1>4, Zenon DEF ShutdownWake, pool, past
    <2>2. Off \in ClientRec /\ Off.pc = "idle"
      BY Zenon DEF Off, ClientRec, ClientPCs
    <2>3. /\ client' \in [Clients -> ClientRec]
          /\ \A c \in Clients : client'[c].pc \in Waiting => client[c].pc \in Waiting
      BY <1>0, <2>1, <2>2, Zenon DEF Waiting
    <2>4. Available' = Available
      BY <2>1, Zenon DEF Available
    <2>5. Gap'
      BY <2>1, <2>3, <2>4, GapStill, Zenon DEF IInv
    <2> QED BY <2>1, <2>3, <2>5, Zenon DEF ClientShape, ShutdownFreesClients
  <1>5. CASE ShutdownNotify
    <2>1. sd' = "done" /\ NotifyWaiters /\ UNCHANGED <<pass, slot, connected, missed>>
      BY <1>5, Zenon DEF ShutdownNotify, pool, past
    <2>2. /\ client' \in [Clients -> ClientRec]
          /\ \A c \in Clients : client'[c].pc = IF client[c].pc \in Registered THEN "look" ELSE client[c].pc
      BY <2>1, Notified, Zenon DEF IInv
    <2>3. \A c \in Clients : client'[c].pc \in Waiting => client[c].pc \in Waiting
      BY <2>2, Zenon DEF Waiting
    <2>4. Available' = Available
      BY <2>1, Zenon DEF Available
    <2>5. Gap'
      BY <2>1, <2>3, <2>4, GapStill, Zenon DEF IInv
    <2>6. ShutdownFreesClients'
      BY <2>2, Zenon DEF ShutdownFreesClients, Registered
    <2> QED BY <2>1, <2>2, <2>5, <2>6, Zenon DEF ClientShape
  <1>6. ASSUME NEW t \in Passes \X Slots, Manage(t) PROVE ClientShape' /\ Gap' /\ ShutdownFreesClients'
    BY <1>6, ManageClients, Zenon
  <1>7. ASSUME NEW g \in Gens, LinkEnds(g) PROVE ClientShape' /\ Gap' /\ ShutdownFreesClients'
    <2>1. UNCHANGED <<pass, sd, slot, connected, client, missed>>
      BY <1>7, Zenon DEF LinkEnds, pool, tunnels, past
    <2>2. Available' = Available
      BY <2>1, Zenon DEF Available
    <2> QED BY <1>0, <2>1, <2>2, ClientsStill, Zenon
  <1>8. ASSUME NEW c \in Clients, Accept(c) PROVE ClientShape' /\ Gap' /\ ShutdownFreesClients'
    <2>1. Step(c, "look") /\ UNCHANGED <<pass, sd, slot, connected, missed>>
      BY <1>8, Zenon DEF Accept, pool, past
    <2> QED BY <2>1, OneMoved, Zenon DEF ClientPCs, Waiting
  <1>9. ASSUME NEW c \in Clients, Look(c) PROVE ClientShape' /\ Gap' /\ ShutdownFreesClients'
    <2>1. missed' = missed \ {c} /\ UNCHANGED <<pass, sd, slot, connected>> /\ client[c].pc = "look"
      BY <1>9, Zenon DEF Look, pool
    <2>2. Available' = Available
      BY <2>1, Zenon DEF Available
    <2>3. \/ \E s \in LeastBusy : client' = [client EXCEPT ![c] = [pc |-> "open", slot |-> s, gen |-> slot[s]]]
          \/ /\ Available = {}
             /\ client' = [client EXCEPT ![c] = IF reconnect THEN [Off EXCEPT !.pc = "gap"] ELSE Off]
      BY <1>9, Zenon DEF Look
    <2>4. ASSUME NEW s \in LeastBusy, client' = [client EXCEPT ![c] = [pc |-> "open", slot |-> s, gen |-> slot[s]]]
          PROVE  ClientShape' /\ Gap' /\ ShutdownFreesClients'
      <3>1. s \in Nat /\ slot[s] \in Nat
        BY PoolBounds DEF LeastBusy, Available, Slots, IInv, WorkerInv, WorkerShape
      <3>2. [pc |-> "open", slot |-> s, gen |-> slot[s]] \in ClientRec
        BY <3>1, Zenon DEF ClientRec, ClientPCs
      <3>3. /\ client' \in [Clients -> ClientRec] /\ client'[c].pc = "open"
            /\ \A d \in Clients : d # c => client'[d] = client[d]
        BY <1>0, <2>4, <3>2, Zenon
      <3>4. Gap'
        BY <2>1, <2>2, <3>3, GapStill, Zenon DEF IInv, Waiting
      <3> QED BY <1>0, <2>1, <3>3, <3>4, Zenon DEF IInv, ClientShape, ShutdownFreesClients
    <2>5. CASE /\ Available = {}
               /\ client' = [client EXCEPT ![c] = IF reconnect THEN [Off EXCEPT !.pc = "gap"] ELSE Off]
      <3>1. /\ Off \in ClientRec /\ Off.pc = "idle"
            /\ [Off EXCEPT !.pc = "gap"] \in ClientRec /\ [Off EXCEPT !.pc = "gap"].pc = "gap"
        BY Zenon DEF Off, ClientRec, ClientPCs
      <3>2. /\ client' \in [Clients -> ClientRec] /\ client'[c].pc \in {"idle", "gap"}
            /\ \A d \in Clients : d # c => client'[d] = client[d]
        BY <1>0, <2>5, <3>1, Zenon
      <3>3. Gap'
        BY <2>2, <2>5, Zenon DEF Gap
      <3> QED BY <1>0, <2>1, <3>2, <3>3, Zenon DEF IInv, ClientShape, ShutdownFreesClients
    <2> QED BY <2>3, <2>4, <2>5, Zenon
  <1>10. ASSUME NEW c \in Clients, Await(c) PROVE ClientShape' /\ Gap' /\ ShutdownFreesClients'
    <2>1. UNCHANGED <<pass, sd, slot, connected, missed>>
      BY <1>10, Zenon DEF Await, pool, past
    <2>2. CASE client[c].pc = "gap" /\ Step(c, "armed")
      BY <2>1, <2>2, OneMoved, Zenon DEF ClientPCs, Waiting
    <2>3. CASE client[c].pc = "armed" /\ Stopping /\ client' = [client EXCEPT ![c] = Off]
      BY <2>1, <2>3, OneMoved, Zenon DEF ClientPCs, Waiting
    <2>4. CASE client[c].pc = "armed" /\ ~Stopping /\ Step(c, "loaded")
      <3>1. sd # "done"
        BY <2>4, Zenon DEF Stopping
      <3> QED BY <2>1, <2>4, <3>1, OneMoved, Zenon DEF ClientPCs, Waiting
    <2>5. CASE client[c].pc = "loaded" /\ Step(c, "wait")
      <3>1. sd # "done"
        BY <2>5, Zenon DEF IInv, ShutdownFreesClients
      <3> QED BY <2>1, <2>5, <3>1, OneMoved, Zenon DEF ClientPCs, Waiting
    <2> QED BY <1>10, <2>2, <2>3, <2>4, <2>5, Zenon DEF Await
  <1>11. ASSUME NEW c \in Clients, Open(c) \/ Reply(c) \/ RelayEnds(c)
         PROVE  ClientShape' /\ Gap' /\ ShutdownFreesClients'
    <2>1. UNCHANGED <<pass, sd, slot, connected, missed>>
      BY <1>11, Zenon DEF Open, Reply, RelayEnds, pool, past
    <2>2. client' = [client EXCEPT ![c] = Off] \/ Step(c, "reply") \/ Step(c, "relay")
      BY <1>11, Zenon DEF Open, Reply, RelayEnds
    <2>3. CASE client' = [client EXCEPT ![c] = Off]
      BY <2>1, <2>3, OneMoved, Zenon DEF ClientPCs, Waiting
    <2>4. CASE Step(c, "reply")
      BY <2>1, <2>4, OneMoved, Zenon DEF ClientPCs, Waiting
    <2>5. CASE Step(c, "relay")
      BY <2>1, <2>5, OneMoved, Zenon DEF ClientPCs, Waiting
    <2> QED BY <2>2, <2>3, <2>4, <2>5, Zenon
  <1>12. CASE UNCHANGED vars
    <2>1. UNCHANGED <<pass, sd, slot, connected, client, missed>>
      BY <1>12, Zenon DEF vars, pool, tunnels, past
    <2>2. Available' = Available
      BY <2>1, Zenon DEF Available
    <2> QED BY <1>0, <2>1, <2>2, ClientsStill, Zenon
  <1> QED BY <1>1, <1>2, <1>3, <1>4, <1>5, <1>6, <1>7, <1>8, <1>9, <1>10, <1>11, <1>12, Zenon
          DEF Next, Runner, Shutdown, Tunnel

\* For every set of clients, pool size and bound: with the workers of one pass, a client that
\* waits although a bridge is available missed it between its look and its registration.  No
\* other order of connecting, publishing and waiting strands one (SharedState::bridge).
THEOREM OnlyOneGap == Spec => []OnlyTheGapStrands
  <1>1. IInv => OnlyTheGapStrands
    BY Zenon DEF IInv, Gap, OnlyTheGapStrands, Waiting
  <1> QED BY InitIInv, NextIInv, <1>1, PTL DEF Spec

\* In the first pass, a bridge that its worker watches is in its slot and the worker is marked
\* as connected: a client that looks will find it (set_bridge, record_bridge_connected).
THEOREM WatchedIsOffered == Spec => []LiveIsOffered
  <1>1. IInv => LiveIsOffered
    BY Zenon DEF IInv, WorkerInv, First, Local, LiveIsOffered, Offered
  <1> QED BY InitIInv, NextIInv, <1>1, PTL DEF Spec

\* After request_shutdown has stored its flag and told both notifications, no client waits for
\* a bridge, nor will one: the flag is read after the registration.
THEOREM ShutdownReleases == Spec => []ShutdownFreesClients
  <1>1. IInv => ShutdownFreesClients
    BY Zenon DEF IInv
  <1> QED BY InitIInv, NextIInv, <1>1, PTL DEF Spec

INSTANCE FiniteSetTheorems

-----------------------------------------------------------------------------
(* What the SPX pool reports: the types, the offers and the counts.            *)

TaskType   == [pc : TaskPCs, gen : Gens \cup {0}]
ClientType == [pc : ClientPCs, slot : Slots \cup {0}, gen : Gens \cup {0}]
Streaming  == {"reply", "relay"}

\* TypeOK without the bound of the two counts, which is a matter of SpxLoads.
SpxShape ==
  /\ size \in Slots /\ reconnect \in BOOLEAN /\ pass \in 0..MaxLoad
  /\ runner \in {"returned", "initial", "bind", "serving"} /\ sd \in {"no", "stored", "woke", "done"}
  /\ slot \in [Slots -> Gens \cup {0}] /\ generation \in 0..MaxConnects /\ failed \in 0..MaxConnects
  /\ connected \in [Slots -> BOOLEAN]
  /\ active \in [Slots -> Nat] /\ leaked \in [Slots -> Nat]
  /\ task \in [Passes \X Slots -> TaskType] /\ up \subseteq Gens
  /\ client \in [Clients -> ClientType]
  /\ opens \in 0..MaxLoad /\ missed \subseteq Clients
  /\ \A c \in Clients : client[c].pc \in {"open"} \cup Streaming => client[c].slot \in Slots

StreamsAt(s) == {c \in Clients : client[c].pc \in Streaming /\ client[c].slot = s}
Opening      == {c \in Clients : client[c].pc \notin {"idle"} \cup Streaming}
Underway      == {c \in Clients : client[c].pc # "idle"}

\* A slot counts no more than its streams and its failed replies, and both are tunnels that
\* clients have asked for.
SpxLoads ==
  \A s \in Slots : /\ active[s] <= leaked[s] + Cardinality(StreamsAt(s))
                   /\ active[s] + Cardinality(Opening) <= opens
                   /\ leaked[s] + Cardinality(Underway) <= opens

\* A step by which no client takes up or ends a stream and none begins.
SameStreams ==
  \A c \in Clients :
    /\ client'[c].pc \in Streaming <=> client[c].pc \in Streaming
    /\ client[c].pc \in Streaming => client'[c].slot = client[c].slot
    /\ client'[c].pc # "idle" => client[c].pc # "idle"

\* A step by which no slot counts more.
CountsKept ==
  \A s \in Slots : (active'[s] = active[s] /\ leaked'[s] = leaked[s]) \/ (active'[s] = 0 /\ leaked'[s] = 0)

SpxInv == SpxShape /\ OfferIsWatched /\ Future /\ SpxLoads

LEMMA Sizes ==
  ASSUME NEW S \in SUBSET Clients
  PROVE  /\ IsFiniteSet(S) /\ Cardinality(S) \in Nat
         /\ \A T \in SUBSET S : Cardinality(T) <= Cardinality(S)
         /\ \A c \in Clients : c \notin S => Cardinality(S \cup {c}) = Cardinality(S) + 1
         /\ \A c \in Clients : c \in S => Cardinality(S \ {c}) = Cardinality(S) - 1
  <1>1. IsFiniteSet(S)
    BY FS_Subset, PoolBounds, Zenon
  <1>2. Cardinality(S) \in Nat
    BY <1>1, FS_CardinalityType, Zenon
  <1>3. \A T \in SUBSET S : Cardinality(T) <= Cardinality(S)
    BY <1>1, FS_Subset, Zenon
  <1>4. ASSUME NEW c \in Clients, c \notin S PROVE Cardinality(S \cup {c}) = Cardinality(S) + 1
    BY <1>1, <1>4, FS_AddElement, Zenon
  <1>5. ASSUME NEW c \in Clients, c \in S PROVE Cardinality(S \ {c}) = Cardinality(S) - 1
    BY <1>1, <1>5, FS_RemoveElement, Zenon
  <1> QED BY <1>1, <1>2, <1>3, <1>4, <1>5, Zenon

LEMMA SpxSets == /\ Opening \in SUBSET Clients /\ Underway \in SUBSET Clients /\ \A s : StreamsAt(s) \in SUBSET Clients
  BY Zenon DEF Opening, Underway, StreamsAt

\* No client takes up or ends a stream, none begins, and no slot counts more.
LEMMA LoadsStay ==
  ASSUME SpxShape, SpxShape', SpxLoads, opens' = opens, SameStreams, CountsKept
  PROVE  SpxLoads'
  <1>1. Opening' \in SUBSET Opening /\ Underway' \in SUBSET Underway /\ \A s : StreamsAt(s)' = StreamsAt(s)
    BY Zenon DEF Opening, Underway, StreamsAt, SameStreams
  <1>2. /\ Cardinality(Opening') <= Cardinality(Opening) /\ Cardinality(Opening') \in Nat /\ Cardinality(Opening) \in Nat
        /\ Cardinality(Underway') <= Cardinality(Underway) /\ Cardinality(Underway') \in Nat /\ Cardinality(Underway) \in Nat
    <2>1. Opening' \in SUBSET Clients /\ Underway' \in SUBSET Clients
      BY <1>1, SpxSets, Zenon
    <2> QED BY <1>1, <2>1, SpxSets, Sizes, Zenon
  <1> SUFFICES ASSUME NEW s \in Slots
               PROVE  /\ active'[s] <= leaked'[s] + Cardinality(StreamsAt(s)')
                      /\ active'[s] + Cardinality(Opening') <= opens'
                      /\ leaked'[s] + Cardinality(Underway') <= opens'
    BY Zenon DEF SpxLoads
  <1>3. /\ active[s] <= leaked[s] + Cardinality(StreamsAt(s))
        /\ active[s] + Cardinality(Opening) <= opens /\ leaked[s] + Cardinality(Underway) <= opens
    BY Zenon DEF SpxLoads
  <1>4. active[s] \in Nat /\ leaked[s] \in Nat /\ opens \in Nat /\ Cardinality(StreamsAt(s)) \in Nat
    BY SpxSets, Sizes, PoolBounds DEF SpxShape
  <1>5. StreamsAt(s)' = StreamsAt(s)
    BY <1>1, Zenon
  <1> QED BY <1>2, <1>3, <1>4, <1>5 DEF CountsKept

\* A worker that goes to another place is a worker.
LEMMA GotoType ==
  ASSUME SpxShape, NEW t \in Passes \X Slots, NEW q \in TaskPCs, Goto(t, q)
  PROVE  task' \in [Passes \X Slots -> TaskType]
  BY DEF SpxShape, Goto, TaskType

LEMMA CountsType ==
  ASSUME SpxShape, NEW t \in Passes \X Slots
  PROVE  /\ [active EXCEPT ![t[2]] = 0] \in [Slots -> Nat] /\ [leaked EXCEPT ![t[2]] = 0] \in [Slots -> Nat]
         /\ \A b \in BOOLEAN : [connected EXCEPT ![t[2]] = b] \in [Slots -> BOOLEAN]
         /\ \A g \in Gens \cup {0} : [slot EXCEPT ![t[2]] = g] \in [Slots -> Gens \cup {0}]
         /\ t[2] \in Slots /\ task[t] \in TaskType /\ task[t].gen \in Gens \cup {0}
  BY Zenon DEF SpxShape, TaskType

\* Who is told to look again is a client, and streams as little as before.
LEMMA Told ==
  ASSUME SpxShape, NotifyWaiters
  PROVE  /\ client' \in [Clients -> ClientType] /\ SameStreams
         /\ \A c \in Clients : client'[c].pc \in {"open"} \cup Streaming => client'[c].slot \in Slots
  <1> DEFINE cs == {c \in Clients : client[c].pc \in Registered}
  <1>1. client' = [c \in Clients |-> IF c \in cs THEN [client[c] EXCEPT !.pc = "look"] ELSE client[c]]
    BY Zenon DEF NotifyWaiters, Awake
  <1>2. ASSUME NEW c \in Clients
        PROVE  /\ client'[c] \in ClientType
               /\ client'[c].pc \in Streaming <=> client[c].pc \in Streaming
               /\ client[c].pc \in Streaming => client'[c].slot = client[c].slot
               /\ client'[c].pc # "idle" => client[c].pc # "idle"
               /\ client'[c].pc \in {"open"} \cup Streaming => client'[c].slot \in Slots
    <2>1. client[c] \in ClientType
      BY Zenon DEF SpxShape
    <2>2. CASE c \in cs
      <3>1. client'[c] = [client[c] EXCEPT !.pc = "look"] /\ client[c].pc \in Registered
        BY <1>1, <2>2, Zenon
      <3>2. client'[c] \in ClientType /\ client'[c].pc = "look"
        BY <2>1, <3>1, Zenon DEF ClientType, ClientPCs
      <3> QED BY <3>1, <3>2, Zenon DEF Registered, Streaming
    <2>3. CASE c \notin cs
      <3>1. client'[c] = client[c]
        BY <1>1, <2>3, Zenon
      <3> QED BY <2>1, <3>1, Zenon DEF SpxShape
    <2> QED BY <2>2, <2>3, Zenon
  <1>3. client' \in [Clients -> ClientType]
    BY <1>1, <1>2, Zenon
  <1> QED BY <1>2, <1>3, Zenon DEF SameStreams

\* A step of a worker.
LEMMA ManageKeeps ==
  ASSUME SpxShape, SpxLoads, NEW t \in Passes \X Slots, Manage(t)
  PROVE  SpxShape' /\ SpxLoads'
  <1>1. opens' = opens
    BY Zenon DEF Manage, ConnectOk, ConnectFails, Publish, Watch, Notice, RecordDisconnected, Clear, Backoff, tunnels
  <1>2. client' = client \/ NotifyWaiters
    BY Zenon DEF Manage, ConnectOk, ConnectFails, Publish, Watch, Notice, RecordDisconnected, Clear, Backoff, tunnels
  <1>3. /\ SameStreams /\ client' \in [Clients -> ClientType]
        /\ \A c \in Clients : client'[c].pc \in {"open"} \cup Streaming => client'[c].slot \in Slots
    BY <1>2, Told, Zenon DEF SpxShape, SameStreams
  <1>4. \/ active' = active /\ leaked' = leaked
        \/ active' = [active EXCEPT ![t[2]] = 0] /\ leaked' = [leaked EXCEPT ![t[2]] = 0]
    BY Zenon DEF Manage, ConnectOk, ConnectFails, Publish, Watch, Notice, RecordDisconnected, Clear, Backoff, pool, past, Count
  <1>5. CountsKept /\ active' \in [Slots -> Nat] /\ leaked' \in [Slots -> Nat]
    BY <1>4, CountsType DEF SpxShape, CountsKept
  <1>6. ASSUME task' \in [Passes \X Slots -> TaskType], slot' \in [Slots -> Gens \cup {0}],
               connected' \in [Slots -> BOOLEAN], generation' \in 0..MaxConnects, failed' \in 0..MaxConnects,
               up' \subseteq Gens, missed' \subseteq Clients, UNCHANGED <<size, reconnect, pass, runner, sd>>
        PROVE  SpxShape' /\ SpxLoads'
    <2>1. SpxShape'
      BY <1>1, <1>3, <1>5, <1>6, Zenon DEF SpxShape
    <2>2. SpxLoads'
      BY <1>1, <1>3, <1>5, <2>1, LoadsStay, Zenon
    <2> QED BY <2>1, <2>2, Zenon
  <1>7. /\ generation \in 0..MaxConnects /\ failed \in 0..MaxConnects /\ MaxConnects \in Nat
        /\ up \subseteq Gens /\ missed \subseteq Clients
        /\ slot \in [Slots -> Gens \cup {0}] /\ connected \in [Slots -> BOOLEAN]
    BY PoolBounds, Zenon DEF SpxShape
  <1>8. CASE ConnectOk(t)
    <2>1. /\ generation + failed < MaxConnects /\ generation' = generation + 1 /\ up' = up \cup {generation + 1}
          /\ task' = [task EXCEPT ![t] = [pc |-> "publish", gen |-> generation + 1]]
          /\ connected' = [connected EXCEPT ![t[2]] = TRUE]
          /\ UNCHANGED <<size, reconnect, pass, runner, sd, slot, failed, missed>>
      BY <1>8, Zenon DEF ConnectOk
    <2>2. generation + 1 \in Gens /\ generation' \in 0..MaxConnects
      BY <1>7, <2>1 DEF Gens
    <2>3. [pc |-> "publish", gen |-> generation + 1] \in TaskType
      BY <2>2, Zenon DEF TaskType, TaskPCs
    <2>4. task' \in [Passes \X Slots -> TaskType]
      BY <2>1, <2>3, Zenon DEF SpxShape
    <2> QED BY <1>6, <1>7, <2>1, <2>2, <2>4, CountsType, Zenon
  <1>9. CASE ConnectFails(t)
    <2>1. /\ generation + failed < MaxConnects /\ failed' = failed + 1 /\ Goto(t, "clear")
          /\ connected' = [connected EXCEPT ![t[2]] = FALSE]
          /\ UNCHANGED <<size, reconnect, pass, runner, sd, slot, generation, up, missed>>
      BY <1>9, Zenon DEF ConnectFails
    <2>2. failed' \in 0..MaxConnects
      BY <1>7, <2>1
    <2> QED BY <1>6, <1>7, <2>1, <2>2, CountsType, GotoType, Zenon DEF TaskPCs
  <1>10. CASE Publish(t)
    <2>1. /\ Goto(t, "arm") /\ slot' = [slot EXCEPT ![t[2]] = task[t].gen] /\ missed' = missed \cup InGap
          /\ UNCHANGED <<size, reconnect, pass, runner, sd, connected, generation, failed, up>>
      BY <1>10, Zenon DEF Publish
    <2> QED BY <1>6, <1>7, <2>1, CountsType, GotoType, Zenon DEF TaskPCs, InGap
  <1>11. CASE Watch(t)
    <2>1. \E q \in {"withdraw", "gap", "live"} : Goto(t, q)
      BY <1>11, Zenon DEF Watch
    <2> QED BY <1>6, <1>7, <1>11, <2>1, GotoType, Zenon DEF TaskPCs, Watch, pool, past
  <1>12. CASE Notice(t)
    BY <1>6, <1>7, <1>12, GotoType, Zenon DEF TaskPCs, Notice, pool, past
  <1>13. CASE RecordDisconnected(t)
    BY <1>6, <1>7, <1>13, CountsType, GotoType, Zenon DEF TaskPCs, RecordDisconnected
  <1>14. CASE Clear(t)
    <2> DEFINE q == IF reconnect THEN "backoff" ELSE "done"
    <2>1. /\ slot' = [slot EXCEPT ![t[2]] = 0] /\ task' = [task EXCEPT ![t] = [pc |-> q, gen |-> 0]]
          /\ UNCHANGED <<size, reconnect, pass, runner, sd, connected, generation, failed, up, missed>>
      BY <1>14, Zenon DEF Clear, past
    <2>2. q \in TaskPCs
      BY Zenon DEF TaskPCs
    <2> HIDE DEF q
    <2>3. [pc |-> q, gen |-> 0] \in TaskType
      BY <2>2, Zenon DEF TaskType
    <2>4. task' \in [Passes \X Slots -> TaskType]
      BY <2>1, <2>3, Zenon DEF SpxShape
    <2> QED BY <1>6, <1>7, <2>1, <2>4, CountsType, Zenon
  <1>15. CASE Backoff(t)
    <2>1. \E q \in {"done", "connect"} : Goto(t, q)
      BY <1>15, Zenon DEF Backoff, Top
    <2> QED BY <1>6, <1>7, <1>15, <2>1, GotoType, Zenon DEF TaskPCs, Backoff, pool, past
  <1> QED BY <1>8, <1>9, <1>10, <1>11, <1>12, <1>13, <1>14, <1>15, Zenon DEF Manage

\* The counts of a step by which one client becomes q.
LEMMA OneClient ==
  ASSUME SpxShape, NEW c \in Clients, NEW q \in ClientType, client' = [client EXCEPT ![c] = q]
  PROVE  /\ client' \in [Clients -> ClientType] /\ client'[c] = q
         /\ \A d \in Clients : d # c => client'[d] = client[d]
  BY Zenon DEF SpxShape

LEMMA OneStep ==
  ASSUME SpxShape, NEW c \in Clients, NEW p \in ClientPCs, Step(c, p)
  PROVE  /\ [client[c] EXCEPT !.pc = p] \in ClientType
         /\ client' = [client EXCEPT ![c] = [client[c] EXCEPT !.pc = p]]
         /\ [client[c] EXCEPT !.pc = p].pc = p /\ [client[c] EXCEPT !.pc = p].slot = client[c].slot
  <1>1. client[c] \in ClientType
    BY Zenon DEF SpxShape
  <1>2. client' = [client EXCEPT ![c] = [client[c] EXCEPT !.pc = p]]
    BY Zenon DEF Step, SpxShape
  <1> QED BY <1>1, <1>2, Zenon DEF ClientType

\* How the three counts of clients change with one client.
CountsAfter(c, q) ==
  /\ Cardinality(Opening) \in Nat /\ Cardinality(Underway) \in Nat
  /\ Cardinality(Opening') = Cardinality(Opening)
       + (IF q.pc \notin {"idle"} \cup Streaming THEN 1 ELSE 0) - (IF client[c].pc \notin {"idle"} \cup Streaming THEN 1 ELSE 0)
  /\ Cardinality(Underway') = Cardinality(Underway)
       + (IF q.pc # "idle" THEN 1 ELSE 0) - (IF client[c].pc # "idle" THEN 1 ELSE 0)
  /\ \A s \in Slots :
       /\ Cardinality(StreamsAt(s)) \in Nat
       /\ Cardinality(StreamsAt(s)') = Cardinality(StreamsAt(s))
            + (IF q.pc \in Streaming /\ q.slot = s THEN 1 ELSE 0)
            - (IF client[c].pc \in Streaming /\ client[c].slot = s THEN 1 ELSE 0)

LEMMA CountOne ==
  ASSUME SpxShape, NEW c \in Clients, NEW q \in ClientType, client' = [client EXCEPT ![c] = q]
  PROVE  CountsAfter(c, q)
  <1>1. client'[c] = q /\ \A d \in Clients : d # c => client'[d] = client[d]
    BY OneClient, Zenon
  <1>2. ASSUME NEW S \in SUBSET Clients, NEW R \in SUBSET Clients, R \ {c} = S \ {c}
        PROVE  /\ Cardinality(S) \in Nat
               /\ Cardinality(R) = Cardinality(S) + (IF c \in R THEN 1 ELSE 0) - (IF c \in S THEN 1 ELSE 0)
    <2>1. Cardinality(S) \in Nat /\ Cardinality(R) \in Nat /\ Cardinality(S \ {c}) \in Nat
      BY Sizes, Zenon
    <2>2. CASE c \in R /\ c \in S
      <3>1. R = S
        BY <1>2, <2>2
      <3> QED BY <2>1, <2>2, <3>1
    <2>3. CASE c \notin R /\ c \notin S
      <3>1. R = S
        BY <1>2, <2>3
      <3> QED BY <2>1, <2>3, <3>1
    <2>4. CASE c \in R /\ c \notin S
      <3>1. R = S \cup {c}
        BY <1>2, <2>4, Zenon
      <3>2. Cardinality(S \cup {c}) = Cardinality(S) + 1
        BY <2>4, Sizes, Zenon
      <3> QED BY <2>1, <2>4, <3>1, <3>2
    <2>5. CASE c \notin R /\ c \in S
      <3>1. R = S \ {c}
        BY <1>2, <2>5, Zenon
      <3>2. Cardinality(S \ {c}) = Cardinality(S) - 1
        BY <2>5, Sizes, Zenon
      <3> QED BY <2>1, <2>5, <3>1, <3>2
    <2> QED BY <2>2, <2>3, <2>4, <2>5, Zenon
  <1>3. /\ Opening \in SUBSET Clients /\ Opening' \in SUBSET Clients /\ Opening' \ {c} = Opening \ {c}
        /\ c \in Opening' <=> q.pc \notin {"idle"} \cup Streaming
        /\ c \in Opening <=> client[c].pc \notin {"idle"} \cup Streaming
    BY <1>1, Zenon DEF Opening
  <1>4. /\ Underway \in SUBSET Clients /\ Underway' \in SUBSET Clients /\ Underway' \ {c} = Underway \ {c}
        /\ c \in Underway' <=> q.pc # "idle"
        /\ c \in Underway <=> client[c].pc # "idle"
    BY <1>1, Zenon DEF Underway
  <1>5. ASSUME NEW s \in Slots
        PROVE  /\ Cardinality(StreamsAt(s)) \in Nat
               /\ Cardinality(StreamsAt(s)') = Cardinality(StreamsAt(s))
                   + (IF q.pc \in Streaming /\ q.slot = s THEN 1 ELSE 0)
                   - (IF client[c].pc \in Streaming /\ client[c].slot = s THEN 1 ELSE 0)
    <2>1. /\ StreamsAt(s) \in SUBSET Clients /\ StreamsAt(s)' \in SUBSET Clients /\ StreamsAt(s)' \ {c} = StreamsAt(s) \ {c}
          /\ c \in StreamsAt(s)' <=> (q.pc \in Streaming /\ q.slot = s)
          /\ c \in StreamsAt(s) <=> (client[c].pc \in Streaming /\ client[c].slot = s)
      BY <1>1, Zenon DEF StreamsAt
    <2>2. /\ Cardinality(StreamsAt(s)) \in Nat
          /\ Cardinality(StreamsAt(s)') = Cardinality(StreamsAt(s)) + (IF c \in StreamsAt(s)' THEN 1 ELSE 0) - (IF c \in StreamsAt(s) THEN 1 ELSE 0)
      BY <1>2, <2>1, Zenon
    <2> QED BY <2>1, <2>2, Zenon
  <1>6. /\ Cardinality(Opening) \in Nat
        /\ Cardinality(Opening') = Cardinality(Opening) + (IF c \in Opening' THEN 1 ELSE 0) - (IF c \in Opening THEN 1 ELSE 0)
    BY <1>2, <1>3, Zenon
  <1>7. /\ Cardinality(Underway) \in Nat
        /\ Cardinality(Underway') = Cardinality(Underway) + (IF c \in Underway' THEN 1 ELSE 0) - (IF c \in Underway THEN 1 ELSE 0)
    BY <1>2, <1>4, Zenon
  <1> QED BY <1>3, <1>4, <1>5, <1>6, <1>7, Zenon DEF CountsAfter

\* What a step of one client leaves alone.
AlongClient == UNCHANGED <<size, reconnect, pass, runner, sd, slot, connected, generation, failed, task, up>>

LEMMA ClientGoes ==
  ASSUME SpxShape, NEW c \in Clients, NEW q \in ClientType, client' = [client EXCEPT ![c] = q], AlongClient,
         q.pc \in {"open"} \cup Streaming => q.slot \in Slots,
         active' \in [Slots -> Nat], leaked' \in [Slots -> Nat], opens' \in 0..MaxLoad, missed' \subseteq Clients
  PROVE  SpxShape'
  <1>1. /\ client' \in [Clients -> ClientType] /\ client'[c] = q
        /\ \A d \in Clients : d # c => client'[d] = client[d]
    BY OneClient, Zenon
  <1>2. \A d \in Clients : client'[d].pc \in {"open"} \cup Streaming => client'[d].slot \in Slots
    BY <1>1, Zenon DEF SpxShape
  <1> QED BY <1>1, <1>2, Zenon DEF SpxShape, AlongClient

\* A client that only looks or leaves: no stream begins, and nothing is counted.
LEMMA QuietClient ==
  ASSUME SpxShape, SpxLoads, NEW c \in Clients, NEW q \in ClientType, client' = [client EXCEPT ![c] = q], AlongClient,
         client[c].pc \notin {"idle"} \cup Streaming, q.pc \notin Streaming, q.pc = "open" => q.slot \in Slots,
         UNCHANGED <<active, leaked, opens>>, missed' \subseteq Clients
  PROVE  SpxShape' /\ SpxLoads'
  <1>1. SpxShape'
    BY ClientGoes, Zenon DEF SpxShape
  <1>2. client'[c] = q /\ \A d \in Clients : d # c => client'[d] = client[d]
    BY OneClient, Zenon
  <1>3. SameStreams
    BY <1>2, Zenon DEF SameStreams
  <1>4. CountsKept
    BY Zenon DEF CountsKept
  <1> QED BY <1>1, <1>3, <1>4, LoadsStay, Zenon

LEMMA ClientsKeep ==
  ASSUME SpxShape, SpxLoads, NEW c \in Clients, Accept(c) \/ Tunnel(c) \/ RelayEnds(c)
  PROVE  SpxShape' /\ SpxLoads'
  <1>1. /\ Off \in ClientType /\ Off.pc = "idle" /\ client[c] \in ClientType
        /\ active \in [Slots -> Nat] /\ leaked \in [Slots -> Nat] /\ opens \in 0..MaxLoad /\ opens \in Nat /\ MaxLoad \in Nat
        /\ missed \subseteq Clients /\ pass * size \in Nat
    <2>1. pass \in Nat /\ size \in Nat
      BY PoolBounds DEF SpxShape, Slots
    <2>2. pass * size \in Nat
      BY <2>1
    <2> QED BY <2>2, PoolBounds DEF SpxShape, Off, ClientType, ClientPCs
  <1>2. \A s \in Slots : /\ active[s] \in Nat /\ leaked[s] \in Nat
                         /\ active[s] <= leaked[s] + Cardinality(StreamsAt(s))
                         /\ active[s] + Cardinality(Opening) <= opens
                         /\ leaked[s] + Cardinality(Underway) <= opens
    BY <1>1, Zenon DEF SpxLoads
  <1>3. CASE Accept(c)
    <2> DEFINE q == [client[c] EXCEPT !.pc = "look"]
    <2>1. client[c].pc = "idle" /\ opens + pass * size < MaxLoad /\ opens' = opens + 1 /\ Step(c, "look")
      BY <1>3, Zenon DEF Accept
    <2>2. q \in ClientType /\ client' = [client EXCEPT ![c] = q] /\ q.pc = "look"
      BY <2>1, OneStep, Zenon DEF ClientPCs
    <2> HIDE DEF q
    <2>3. AlongClient /\ UNCHANGED <<active, leaked, missed>>
      BY <1>3, Zenon DEF Accept, AlongClient, pool, past
    <2>4. opens' \in 0..MaxLoad
      BY <1>1, <2>1
    <2>5. SpxShape'
      BY <1>1, <2>2, <2>3, <2>4, ClientGoes, Zenon DEF Streaming
    <2>6. /\ Cardinality(Opening) \in Nat /\ Cardinality(Underway) \in Nat
          /\ Cardinality(Opening') = Cardinality(Opening) + 1 /\ Cardinality(Underway') = Cardinality(Underway) + 1
          /\ \A s \in Slots : Cardinality(StreamsAt(s)) \in Nat /\ Cardinality(StreamsAt(s)') = Cardinality(StreamsAt(s))
      <3>1. CountsAfter(c, q)
        BY <2>2, CountOne, Zenon
      <3> QED BY <2>1, <2>2, <3>1 DEF CountsAfter, Streaming
    <2>7. SpxLoads'
      BY <1>1, <1>2, <2>1, <2>3, <2>6 DEF SpxLoads
    <2> QED BY <2>5, <2>7, Zenon
  <1>4. CASE Look(c)
    <2>1. client[c].pc = "look" /\ AlongClient /\ UNCHANGED <<active, leaked, opens>> /\ missed' \subseteq Clients
      BY <1>1, <1>4, Zenon DEF Look, AlongClient, pool
    <2>2. \E q \in ClientType : client' = [client EXCEPT ![c] = q] /\ q.pc \notin Streaming /\ (q.pc = "open" => q.slot \in Slots)
      <3>1. CASE \E s \in LeastBusy : client' = [client EXCEPT ![c] = [pc |-> "open", slot |-> s, gen |-> slot[s]]]
        <4>1. PICK s \in Slots : client' = [client EXCEPT ![c] = [pc |-> "open", slot |-> s, gen |-> slot[s]]]
          BY <3>1, Zenon DEF LeastBusy, Available
        <4> DEFINE q == [pc |-> "open", slot |-> s, gen |-> slot[s]]
        <4>2. q \in ClientType /\ q.pc = "open" /\ q.slot = s
          BY Zenon DEF ClientType, ClientPCs, SpxShape
        <4> HIDE DEF q
        <4>3. client' = [client EXCEPT ![c] = q]
          BY <4>1, Zenon DEF q
        <4> QED BY <4>2, <4>3, Zenon DEF Streaming
      <3>2. CASE client' = [client EXCEPT ![c] = IF reconnect THEN [Off EXCEPT !.pc = "gap"] ELSE Off]
        <4> DEFINE q == IF reconnect THEN [Off EXCEPT !.pc = "gap"] ELSE Off
        <4>1. q \in ClientType /\ q.pc \in {"gap", "idle"}
          BY Zenon DEF ClientType, ClientPCs, Off
        <4> HIDE DEF q
        <4>2. client' = [client EXCEPT ![c] = q]
          BY <3>2, Zenon DEF q
        <4> QED BY <4>1, <4>2, Zenon DEF Streaming
      <3> QED BY <1>4, <3>1, <3>2, Zenon DEF Look
    <2> QED BY <2>1, <2>2, QuietClient, Zenon DEF Streaming
  <1>5. CASE Await(c)
    <2>1. client[c].pc \in {"gap", "armed", "loaded"} /\ AlongClient /\ UNCHANGED <<active, leaked, opens>> /\ missed' \subseteq Clients
      BY <1>1, <1>5, Zenon DEF Await, AlongClient, pool, past
    <2>2. \E q \in ClientType : client' = [client EXCEPT ![c] = q] /\ q.pc \notin {"open"} \cup Streaming
      <3>1. client' = [client EXCEPT ![c] = Off] \/ \E p \in {"armed", "loaded", "wait"} : Step(c, p)
        BY <1>5, Zenon DEF Await
      <3>2. CASE client' = [client EXCEPT ![c] = Off]
        BY <1>1, <3>2, Zenon DEF Streaming
      <3>3. ASSUME NEW p \in {"armed", "loaded", "wait"}, Step(c, p)
            PROVE  \E q \in ClientType : client' = [client EXCEPT ![c] = q] /\ q.pc \notin {"open"} \cup Streaming
        <4> DEFINE q == [client[c] EXCEPT !.pc = p]
        <4>0. p \in ClientPCs
          BY Zenon DEF ClientPCs
        <4>1. q \in ClientType /\ client' = [client EXCEPT ![c] = q] /\ q.pc = p
          BY <3>3, <4>0, OneStep, Zenon
        <4> HIDE DEF q
        <4> QED BY <4>1, Zenon DEF Streaming
      <3> QED BY <3>1, <3>2, <3>3, Zenon
    <2> QED BY <2>1, <2>2, QuietClient, Zenon DEF Streaming
  <1>6. CASE Open(c)
    <2>1. client[c].pc = "open" /\ AlongClient /\ UNCHANGED <<leaked, opens, missed>> /\ client[c].slot \in Slots
      BY <1>6, Zenon DEF Open, AlongClient, past, SpxShape
    <2>2. CASE client' = [client EXCEPT ![c] = Off] /\ UNCHANGED active
      BY <1>1, <2>1, <2>2, QuietClient, Zenon DEF Streaming
    <2>3. CASE Step(c, "reply") /\ Count(client[c].slot, active[client[c].slot] + 1)
      <3> DEFINE q == [client[c] EXCEPT !.pc = "reply"] k == client[c].slot
      <3>1. q \in ClientType /\ client' = [client EXCEPT ![c] = q] /\ q.pc = "reply" /\ q.slot = k
        BY <2>3, OneStep, Zenon DEF ClientPCs
      <3> HIDE DEF q
      <3>2. active' = [active EXCEPT ![k] = active[k] + 1]
        BY <2>3, Zenon DEF Count
      <3>3. k \in Slots
        BY <2>1, Zenon
      <3>4. SpxShape'
        <4>1. active' \in [Slots -> Nat]
          BY <1>1, <3>2, <3>3
        <4> QED BY <1>1, <2>1, <3>1, <3>3, <4>1, ClientGoes, Zenon
      <3>5. /\ Cardinality(Opening) \in Nat /\ Cardinality(Underway) \in Nat
            /\ Cardinality(Opening') = Cardinality(Opening) - 1 /\ Cardinality(Underway') = Cardinality(Underway)
            /\ \A s \in Slots : /\ Cardinality(StreamsAt(s)) \in Nat
                               /\ Cardinality(StreamsAt(s)') = Cardinality(StreamsAt(s)) + (IF s = k THEN 1 ELSE 0)
        <4>1. CountsAfter(c, q)
          BY <3>1, CountOne, Zenon
        <4> QED BY <2>1, <3>1, <4>1 DEF CountsAfter, Streaming
      <3> HIDE DEF k
      <3>6. SpxLoads'
        BY <1>1, <1>2, <2>1, <3>2, <3>3, <3>5 DEF SpxLoads
      <3> QED BY <3>4, <3>6, Zenon
    <2> QED BY <1>6, <2>2, <2>3, Zenon DEF Open
  <1>7. CASE Reply(c)
    <2>1. client[c].pc = "reply" /\ AlongClient /\ UNCHANGED <<active, opens, missed>> /\ client[c].slot \in Slots
      BY <1>7, Zenon DEF Reply, AlongClient, pool, SpxShape, Streaming
    <2>2. CASE Step(c, "relay") /\ UNCHANGED leaked
      <3> DEFINE q == [client[c] EXCEPT !.pc = "relay"]
      <3>1. q \in ClientType /\ client' = [client EXCEPT ![c] = q] /\ q.pc = "relay" /\ q.slot = client[c].slot
        BY <2>2, OneStep, Zenon DEF ClientPCs
      <3> HIDE DEF q
      <3>2. SpxShape'
        BY <1>1, <2>1, <2>2, <3>1, ClientGoes, Zenon
      <3>3. client'[c] = q /\ \A d \in Clients : d # c => client'[d] = client[d]
        BY <3>1, OneClient, Zenon
      <3>4. SameStreams
        BY <2>1, <3>1, <3>3, Zenon DEF SameStreams, Streaming
      <3>5. CountsKept
        BY <2>1, <2>2, Zenon DEF CountsKept
      <3> QED BY <2>1, <3>2, <3>4, <3>5, LoadsStay, Zenon
    <2>3. CASE client' = [client EXCEPT ![c] = Off] /\ leaked' = [leaked EXCEPT ![client[c].slot] = @ + 1]
      <3> DEFINE k == client[c].slot
      <3>1. k \in Slots /\ leaked' = [leaked EXCEPT ![k] = leaked[k] + 1]
        BY <2>1, <2>3, Zenon
      <3>2. SpxShape'
        <4>1. leaked' \in [Slots -> Nat]
          BY <1>1, <3>1
        <4> QED BY <1>1, <2>1, <2>3, <4>1, ClientGoes, Zenon DEF Streaming
      <3>3. /\ Cardinality(Opening) \in Nat /\ Cardinality(Underway) \in Nat
            /\ Cardinality(Opening') = Cardinality(Opening) /\ Cardinality(Underway') = Cardinality(Underway) - 1
            /\ \A s \in Slots : /\ Cardinality(StreamsAt(s)) \in Nat
                               /\ Cardinality(StreamsAt(s)') = Cardinality(StreamsAt(s)) - (IF s = k THEN 1 ELSE 0)
        <4>1. CountsAfter(c, Off)
          BY <1>1, <2>3, CountOne, Zenon
        <4> QED BY <1>1, <2>1, <4>1 DEF CountsAfter, Streaming
      <3> HIDE DEF k
      <3>4. SpxLoads'
        BY <1>1, <1>2, <2>1, <3>1, <3>3 DEF SpxLoads
      <3> QED BY <3>2, <3>4, Zenon
    <2> QED BY <1>7, <2>2, <2>3, Zenon DEF Reply
  <1>8. CASE RelayEnds(c)
    <2> DEFINE k == client[c].slot n == IF active[k] = 0 THEN 0 ELSE active[k] - 1
    <2>1. /\ client[c].pc = "relay" /\ AlongClient /\ UNCHANGED <<leaked, opens, missed>> /\ k \in Slots
          /\ client' = [client EXCEPT ![c] = Off] /\ active' = [active EXCEPT ![k] = n]
      BY <1>8, Zenon DEF RelayEnds, AlongClient, past, SpxShape, Streaming, Count
    <2>2. active[k] \in Nat /\ n \in Nat
      BY <1>2, <2>1
    <2>3. n <= active[k] /\ (n = active[k] - 1 \/ n = 0)
      BY <2>2
    <2> HIDE DEF n
    <2>4. SpxShape'
      BY <1>1, <2>1, <2>2, ClientGoes, Zenon DEF Streaming
    <2>5. /\ Cardinality(Opening) \in Nat /\ Cardinality(Underway) \in Nat
          /\ Cardinality(Opening') = Cardinality(Opening) /\ Cardinality(Underway') = Cardinality(Underway) - 1
          /\ \A s \in Slots : /\ Cardinality(StreamsAt(s)) \in Nat
                             /\ Cardinality(StreamsAt(s)') = Cardinality(StreamsAt(s)) - (IF s = k THEN 1 ELSE 0)
      <3>1. CountsAfter(c, Off)
        BY <1>1, <2>1, CountOne, Zenon
      <3> QED BY <1>1, <2>1, <3>1 DEF CountsAfter, Streaming
    <2>6. \A s \in Slots : Cardinality(StreamsAt(s)') \in Nat
      BY Sizes, Zenon DEF StreamsAt
    <2> HIDE DEF k
    <2>7. SpxLoads'
      <3> SUFFICES ASSUME NEW s \in Slots
                   PROVE  /\ active'[s] <= leaked[s] + Cardinality(StreamsAt(s)')
                          /\ active'[s] + Cardinality(Opening') <= opens
                          /\ leaked[s] + Cardinality(Underway') <= opens
        BY <2>1, Zenon DEF SpxLoads
      <3>1. CASE s = k
        BY <1>1, <1>2, <2>1, <2>2, <2>3, <2>5, <2>6, <3>1
      <3>2. CASE s # k
        BY <1>1, <1>2, <2>1, <2>5, <3>2
      <3> QED BY <3>1, <3>2, Zenon
    <2> QED BY <2>4, <2>7, Zenon
  <1> QED BY <1>3, <1>4, <1>5, <1>6, <1>7, <1>8, Zenon DEF Tunnel

\* A step after which whoever watched a bridge watches it still, but perhaps worker u.
StillWatched(u) ==
  \A t \in Passes \X Slots : t # u /\ Watching(t) => Watching(t)' /\ task'[t].gen = task[t].gen

LEMMA WatchedStays ==
  ASSUME SpxShape, OfferIsWatched, slot' = slot, StillWatched(<<>>)
  PROVE  OfferIsWatched'
  <1> SUFFICES ASSUME NEW s \in Slots, slot'[s] # 0
               PROVE  \E p \in Passes : task'[p, s].gen = slot'[s] /\ Watching(<<p, s>>)'
    BY Zenon DEF OfferIsWatched, Watching
  <1>1. PICK p \in Passes : task[p, s].gen = slot[s] /\ Watching(<<p, s>>)
    BY Zenon DEF OfferIsWatched
  <1>2. <<p, s>> \in Passes \X Slots /\ <<p, s>> # <<>>
    BY Zenon
  <1>3. Watching(<<p, s>>)' /\ task'[p, s].gen = task[p, s].gen
    BY <1>1, <1>2, Zenon DEF StillWatched, Watching
  <1> QED BY <1>1, <1>3, Zenon

\* Of the slots that worker u does not serve.
LEMMA WatchedBut ==
  ASSUME SpxShape, OfferIsWatched, NEW u \in Passes \X Slots, StillWatched(u),
         NEW s \in Slots, s # u[2], slot'[s] = slot[s], slot'[s] # 0
  PROVE  \E p \in Passes : task'[p, s].gen = slot'[s] /\ task'[p, s].pc \in {"arm", "gap", "live", "withdraw", "clear"}
  <1>1. PICK p \in Passes : task[p, s].gen = slot[s] /\ Watching(<<p, s>>)
    BY Zenon DEF OfferIsWatched
  <1>2. <<p, s>> \in Passes \X Slots /\ <<p, s>> # u
    OBVIOUS
  <1>3. Watching(<<p, s>>)' /\ task'[p, s].gen = task[p, s].gen
    BY <1>1, <1>2, Zenon DEF StillWatched, Watching
  <1> QED BY <1>1, <1>3, Zenon DEF Watching

\* A worker that goes from one place to another, and watches after it if it did before.
LEMMA GotoWatches ==
  ASSUME SpxShape, NEW t \in Passes \X Slots, NEW q \in TaskPCs, Goto(t, q),
         Watching(t) => q \in {"arm", "gap", "live", "withdraw", "clear"}
  PROVE  /\ StillWatched(<<>>) /\ task'[t].pc = q /\ task'[t].gen = task[t].gen
         /\ \A u \in Passes \X Slots : u # t => task'[u] = task[u]
  <1>1. task[t] \in TaskType /\ task \in [Passes \X Slots -> TaskType]
    BY Zenon DEF SpxShape
  <1>2. task'[t] = [task[t] EXCEPT !.pc = q] /\ \A u \in Passes \X Slots : u # t => task'[u] = task[u]
    BY <1>1, Zenon DEF Goto
  <1>3. task'[t].pc = q /\ task'[t].gen = task[t].gen
    BY <1>1, <1>2, Zenon DEF TaskType
  <1> QED BY <1>2, <1>3, Zenon DEF StillWatched, Watching

\* A step of a worker of a pass that has begun.
LEMMA ManageWatches ==
  ASSUME SpxShape, OfferIsWatched, Future, NEW t \in Passes \X Slots, Manage(t)
  PROVE  OfferIsWatched' /\ Future'
  <1>1. task[t].pc # "none" /\ pass' = pass /\ ~(t[1] > pass)
    BY Zenon DEF Manage, ConnectOk, ConnectFails, Publish, Watch, Notice, RecordDisconnected, Clear, Backoff, Future
  <1>2. ASSUME \A u \in Passes \X Slots : u # t => task'[u] = task[u]
        PROVE  Future'
    BY <1>1, <1>2, Zenon DEF Future
  <1>3. ASSUME NEW q \in TaskPCs, Goto(t, q), slot' = slot,
               Watching(t) => q \in {"arm", "gap", "live", "withdraw", "clear"}
        PROVE  OfferIsWatched' /\ Future'
    BY <1>2, <1>3, GotoWatches, WatchedStays, Zenon
  <1>4. CASE ConnectOk(t)
    <2>1. task[t].pc = "connect" /\ slot' = slot /\ \A u \in Passes \X Slots : u # t => task'[u] = task[u]
      BY <1>4, Zenon DEF ConnectOk, SpxShape
    <2>2. StillWatched(<<>>)
      BY <2>1, Zenon DEF StillWatched, Watching
    <2> QED BY <1>2, <2>1, <2>2, WatchedStays, Zenon
  <1>5. CASE ConnectFails(t)
    BY <1>3, <1>5, Zenon DEF ConnectFails, TaskPCs, Watching
  <1>6. CASE Publish(t)
    <2>1. task[t].pc = "publish" /\ Goto(t, "arm") /\ slot' = [slot EXCEPT ![t[2]] = task[t].gen] /\ "arm" \in TaskPCs
      BY <1>6, Zenon DEF Publish, TaskPCs
    <2>2. /\ StillWatched(<<>>) /\ task'[t].pc = "arm" /\ task'[t].gen = task[t].gen
          /\ \A u \in Passes \X Slots : u # t => task'[u] = task[u]
      BY <2>1, GotoWatches, Zenon DEF Watching
    <2>3. StillWatched(t)
      BY <2>2 DEF StillWatched
    <2>4. ASSUME NEW s \in Slots, slot'[s] # 0
          PROVE  \E p \in Passes : task'[p, s].gen = slot'[s] /\ task'[p, s].pc \in {"arm", "gap", "live", "withdraw", "clear"}
      <3>1. CASE s = t[2]
        <4>1. t[1] \in Passes /\ t = <<t[1], s>> /\ slot'[s] = task[t].gen
          BY <2>1, <3>1 DEF SpxShape
        <4>2. task'[t[1], s].gen = slot'[s] /\ task'[t[1], s].pc = "arm"
          BY <2>2, <4>1, Zenon
        <4> QED BY <4>1, <4>2, Zenon
      <3>2. CASE s # t[2]
        BY <2>1, <2>3, <2>4, <3>2, WatchedBut, Zenon DEF SpxShape
      <3> QED BY <3>1, <3>2, Zenon
    <2> QED BY <1>2, <2>2, <2>4, Zenon DEF OfferIsWatched, Watching
  <1>7. CASE Watch(t)
    <2>1. \E q \in {"withdraw", "gap", "live"} : Goto(t, q)
      BY <1>7, Zenon DEF Watch
    <2> QED BY <1>3, <1>7, <2>1, Zenon DEF Watch, TaskPCs, pool
  <1>8. CASE Notice(t)
    BY <1>3, <1>8, Zenon DEF Notice, TaskPCs, pool
  <1>9. CASE RecordDisconnected(t)
    BY <1>3, <1>9, Zenon DEF RecordDisconnected, TaskPCs
  <1>10. CASE Clear(t)
    <2> DEFINE q == IF reconnect THEN "backoff" ELSE "done"
    <2>1. slot' = [slot EXCEPT ![t[2]] = 0] /\ task' = [task EXCEPT ![t] = [pc |-> q, gen |-> 0]]
      BY <1>10, Zenon DEF Clear
    <2> HIDE DEF q
    <2>2. \A u \in Passes \X Slots : u # t => task'[u] = task[u]
      BY <2>1, Zenon DEF SpxShape
    <2>3. StillWatched(t)
      BY <2>2, Zenon DEF StillWatched, Watching
    <2>4. ASSUME NEW s \in Slots, slot'[s] # 0
          PROVE  \E p \in Passes : task'[p, s].gen = slot'[s] /\ task'[p, s].pc \in {"arm", "gap", "live", "withdraw", "clear"}
      <3>1. s # t[2] /\ slot'[s] = slot[s]
        BY <2>1, <2>4, Zenon DEF SpxShape
      <3> QED BY <2>3, <2>4, <3>1, WatchedBut, Zenon
    <2> QED BY <1>2, <2>2, <2>4, Zenon DEF OfferIsWatched, Watching
  <1>11. CASE Backoff(t)
    <2>1. \E q \in {"done", "connect"} : Goto(t, q)
      BY <1>11, Zenon DEF Backoff, Top
    <2> QED BY <1>3, <1>11, <2>1, Zenon DEF Backoff, TaskPCs, Watching, pool
  <1> QED BY <1>4, <1>5, <1>6, <1>7, <1>8, <1>9, <1>10, <1>11, Zenon DEF Manage

LEMMA SpxInitially ==
  ASSUME Init
  PROVE  SpxInv
  <1>1. 0 \in 0..MaxLoad /\ 0 \in 0..MaxConnects
    BY PoolBounds
  <1>2. [pc |-> "none", gen |-> 0] \in TaskType /\ Off \in ClientType /\ Off.pc = "idle"
    BY Zenon DEF TaskType, TaskPCs, ClientType, ClientPCs, Off
  <1>3. /\ task \in [Passes \X Slots -> TaskType] /\ client \in [Clients -> ClientType]
        /\ \A c \in Clients : client[c].pc = "idle"
    BY <1>2, Zenon DEF Init
  <1>4. SpxShape
    BY <1>1, <1>3, Zenon DEF Init, SpxShape, Streaming
  <1>5. OfferIsWatched /\ Future
    BY Zenon DEF Init, OfferIsWatched, Future
  <1>6. Opening = {} /\ Underway = {} /\ \A s : StreamsAt(s) = {}
    BY <1>3, Zenon DEF Opening, Underway, StreamsAt, Streaming
  <1>7. SpxLoads
    <2>1. Cardinality({}) = 0
      BY FS_EmptySet, Zenon
    <2>2. \A s \in Slots : active[s] = 0 /\ leaked[s] = 0
      BY Zenon DEF Init
    <2>3. opens = 0
      BY Zenon DEF Init
    <2> QED BY <1>6, <2>1, <2>2, <2>3 DEF SpxLoads
  <1> QED BY <1>4, <1>5, <1>7, Zenon DEF SpxInv

\* A step that leaves the workers, the slots, the clients and the counts alone.
LEMMA SpxAside ==
  ASSUME SpxInv, UNCHANGED <<slot, task, pass, active, leaked, opens, client>>, SpxShape'
  PROVE  SpxInv'
  <1>1. OfferIsWatched' /\ Future'
    BY Zenon DEF SpxInv, OfferIsWatched, Future, Watching
  <1>2. SameStreams /\ CountsKept
    BY Zenon DEF SameStreams, CountsKept
  <1>3. SpxLoads'
    BY <1>2, LoadsStay, Zenon DEF SpxInv
  <1> QED BY <1>1, <1>3, Zenon DEF SpxInv

LEMMA SpxSteps ==
  ASSUME SpxInv, [Next]_vars
  PROVE  SpxInv'
  <1> USE DEF SpxInv
  <1>1. /\ pass \in Nat /\ size \in Nat /\ 1 <= size /\ MaxLoad \in Nat /\ opens \in Nat
    BY PoolBounds DEF SpxShape, Slots
  <1>2. CASE Begin
    <2>1. /\ opens + (pass + 1) * size <= MaxLoad /\ pass' = pass + 1
          /\ task' = [t \in Passes \X Slots |->
                       IF t[1] = pass + 1 /\ t[2] <= size THEN [pc |-> Top, gen |-> 0] ELSE task[t]]
          /\ runner' \in {"bind", "initial"}
          /\ UNCHANGED <<size, reconnect, sd, slot, connected, active, generation, failed, up, client, opens, missed, leaked>>
      BY <1>2, Zenon DEF Begin, pool, tunnels, past
    <2>2. pass' \in 0..MaxLoad
      <3>1. \A a, b \in Nat : 1 <= b => a <= a * b
        BY SMT
      <3>2. pass + 1 <= (pass + 1) * size /\ (pass + 1) * size \in Nat
        BY <1>1, <3>1
      <3>3. pass + 1 <= MaxLoad
        <4> DEFINE m == (pass + 1) * size
        <4>1. opens + m <= MaxLoad /\ pass + 1 <= m /\ m \in Nat
          BY <2>1, <3>2, Zenon
        <4> HIDE DEF m
        <4> QED BY <1>1, <4>1
      <3> QED BY <1>1, <2>1, <3>3
    <2>3. [pc |-> Top, gen |-> 0] \in TaskType
      BY Zenon DEF Top, TaskType, TaskPCs
    <2>4. task' \in [Passes \X Slots -> TaskType]
      BY <2>1, <2>3, Zenon DEF SpxShape
    <2>5. SpxShape'
      BY <2>1, <2>2, <2>4, Zenon DEF SpxShape
    <2>6. \A t \in Passes \X Slots : t[1] # pass + 1 => task'[t] = task[t]
      BY <2>1, Zenon
    <2>7. \A t \in Passes \X Slots : t[1] = pass + 1 => task[t].pc = "none"
      BY <1>1 DEF Future
    <2>8. StillWatched(<<>>)
      BY <2>6, <2>7, Zenon DEF StillWatched, Watching
    <2>9. OfferIsWatched'
      BY <2>1, <2>8, WatchedStays, Zenon
    <2>10. Future'
      <3>1. \A t \in Passes \X Slots : t[1] \in Nat
        BY DEF Passes
      <3> QED BY <1>1, <2>1, <2>6, <3>1 DEF Future
    <2>11. SameStreams /\ CountsKept
      BY <2>1, Zenon DEF SameStreams, CountsKept
    <2>12. SpxLoads'
      BY <2>1, <2>5, <2>11, LoadsStay, Zenon
    <2> QED BY <2>5, <2>9, <2>10, <2>12, Zenon
  <1>3. CASE InitialBridge
    <2>1. SpxShape'
      BY <1>3, Zenon DEF InitialBridge, SpxShape, pool, tunnels, past
    <2> QED BY <1>3, <2>1, SpxAside, Zenon DEF InitialBridge, pool, tunnels, past
  <1>4. CASE Bind
    <2>1. SpxShape'
      BY <1>4, Zenon DEF Bind, SpxShape, pool, tunnels, past
    <2> QED BY <1>4, <2>1, SpxAside, Zenon DEF Bind, pool, tunnels, past
  <1>5. CASE ServeEnds
    <2>1. SpxShape'
      BY <1>5, Zenon DEF ServeEnds, SpxShape, pool, tunnels, past
    <2> QED BY <1>5, <2>1, SpxAside, Zenon DEF ServeEnds, pool, tunnels, past
  <1>6. CASE ShutdownStore
    <2>1. SpxShape'
      BY <1>6, Zenon DEF ShutdownStore, SpxShape, pool, tunnels, past
    <2> QED BY <1>6, <2>1, SpxAside, Zenon DEF ShutdownStore, pool, tunnels, past
  <1>7. CASE ShutdownWake
    <2>1. /\ sd' = "woke"
          /\ client' = [c \in Clients |-> IF client[c].pc = "wait" THEN Off ELSE client[c]]
          /\ task' = [t \in Passes \X Slots |->
                       IF task[t].pc = "live" THEN [task[t] EXCEPT !.pc = "withdraw"] ELSE task[t]]
          /\ UNCHANGED <<size, reconnect, pass, runner, slot, connected, active, generation, failed, up, opens, missed, leaked>>
      BY <1>7, Zenon DEF ShutdownWake, pool, past
    <2>2. ASSUME NEW t \in Passes \X Slots
          PROVE  /\ task'[t] \in TaskType /\ task'[t].gen = task[t].gen
                 /\ task'[t].pc = IF task[t].pc = "live" THEN "withdraw" ELSE task[t].pc
      <3>1. task[t] \in TaskType
        BY Zenon DEF SpxShape
      <3>2. [task[t] EXCEPT !.pc = "withdraw"] \in TaskType
        BY <3>1, Zenon DEF TaskType, TaskPCs
      <3> QED BY <2>1, <3>1, <3>2, Zenon DEF TaskType
    <2>3. task' \in [Passes \X Slots -> TaskType]
      BY <2>1, <2>2, Zenon
    <2>4. Off \in ClientType /\ Off.pc = "idle"
      BY Zenon DEF Off, ClientType, ClientPCs
    <2>5. \A c \in Clients : client'[c] = IF client[c].pc = "wait" THEN Off ELSE client[c]
      BY <2>1, Zenon
    <2>6. /\ client' \in [Clients -> ClientType]
          /\ \A c \in Clients : client'[c].pc \in {"open"} \cup Streaming => client'[c].slot \in Slots
      BY <2>1, <2>4, <2>5, Zenon DEF SpxShape, Streaming
    <2>7. SpxShape'
      BY <2>1, <2>3, <2>6, Zenon DEF SpxShape
    <2>8. StillWatched(<<>>)
      BY <2>2, Zenon DEF StillWatched, Watching
    <2>9. OfferIsWatched' /\ Future'
      BY <2>1, <2>2, <2>8, WatchedStays, Zenon DEF Future
    <2>10. SameStreams /\ CountsKept
      BY <2>1, <2>4, <2>5, Zenon DEF SameStreams, CountsKept, Streaming
    <2>11. SpxLoads'
      BY <2>1, <2>7, <2>10, LoadsStay, Zenon
    <2> QED BY <2>7, <2>9, <2>11, Zenon
  <1>8. CASE ShutdownNotify
    <2>1. /\ sd' = "done" /\ NotifyWaiters
          /\ UNCHANGED <<size, reconnect, pass, runner, slot, connected, active, generation, failed, task, up, opens, missed, leaked>>
      BY <1>8, Zenon DEF ShutdownNotify, pool, past
    <2>2. /\ client' \in [Clients -> ClientType] /\ SameStreams
          /\ \A c \in Clients : client'[c].pc \in {"open"} \cup Streaming => client'[c].slot \in Slots
      BY <2>1, Told, Zenon
    <2>3. SpxShape'
      BY <2>1, <2>2, Zenon DEF SpxShape
    <2>4. OfferIsWatched' /\ Future' /\ CountsKept
      BY <2>1, Zenon DEF OfferIsWatched, Future, Watching, CountsKept
    <2>5. SpxLoads'
      BY <2>1, <2>2, <2>3, <2>4, LoadsStay, Zenon
    <2> QED BY <2>3, <2>4, <2>5, Zenon
  <1>9. CASE \E t \in Passes \X Slots : Manage(t)
    BY <1>9, ManageKeeps, ManageWatches, Zenon
  <1>10. CASE \E g \in Gens : LinkEnds(g)
    <2>1. SpxShape'
      BY <1>10, Zenon DEF LinkEnds, SpxShape, pool, tunnels, past
    <2> QED BY <1>10, <2>1, SpxAside, Zenon DEF LinkEnds, pool, tunnels, past
  <1>11. CASE \E c \in Clients : Accept(c) \/ Tunnel(c) \/ RelayEnds(c)
    <2>1. SpxShape' /\ SpxLoads'
      BY <1>11, ClientsKeep, Zenon
    <2>2. UNCHANGED <<slot, task, pass>>
      BY <1>11, Zenon DEF Accept, Tunnel, Look, Await, Open, Reply, RelayEnds, pool
    <2>3. OfferIsWatched' /\ Future'
      BY <2>2, Zenon DEF OfferIsWatched, Future, Watching
    <2> QED BY <2>1, <2>3, Zenon
  <1>12. CASE UNCHANGED vars
    <2>1. SpxShape'
      BY <1>12, Zenon DEF vars, SpxShape, pool, tunnels, past
    <2> QED BY <1>12, <2>1, SpxAside, Zenon DEF vars, pool, tunnels, past
  <1> QED BY <1>2, <1>3, <1>4, <1>5, <1>6, <1>7, <1>8, <1>9, <1>10, <1>11, <1>12, Zenon DEF Next, Runner, Shutdown

LEMMA SpxEnough ==
  ASSUME SpxInv
  PROVE  TypeOK /\ CountIsBounded /\ OfferIsWatched /\ HealthyServes
  <1>1. CountIsBounded
    BY Zenon DEF SpxInv, SpxLoads, CountIsBounded, StreamsAt, Streaming
  <1>2. TypeOK
    <2>1. ASSUME NEW s \in Slots PROVE active[s] \in 0..MaxLoad /\ leaked[s] \in 0..MaxLoad
      <3>1. /\ active[s] \in Nat /\ leaked[s] \in Nat /\ opens \in Nat /\ opens <= MaxLoad /\ MaxLoad \in Nat
            /\ Cardinality(Opening) \in Nat /\ Cardinality(Underway) \in Nat
            /\ active[s] + Cardinality(Opening) <= opens /\ leaked[s] + Cardinality(Underway) <= opens
        BY SpxSets, Sizes, PoolBounds DEF SpxInv, SpxShape, SpxLoads
      <3> QED BY <3>1
    <2>2. active \in [Slots -> 0..MaxLoad] /\ leaked \in [Slots -> 0..MaxLoad]
      BY <2>1, Zenon DEF SpxInv, SpxShape
    <2> QED BY <2>2, Zenon DEF SpxInv, SpxShape, TypeOK, TaskType, ClientType
  <1>3. HealthyServes
    <2> SUFFICES ASSUME control_health = "healthy" PROVE Available # {}
      BY Zenon DEF HealthyServes
    <2>1. ActiveBridges # {} /\ pool_degraded_reason = "none"
      BY Zenon DEF control_health
    <2>2. Workers("unavailable") = {}
      BY <2>1, Zenon DEF pool_degraded_reason
    <2>3. PICK s \in Slots : slot[s] # 0
      BY <2>1, Zenon DEF ActiveBridges
    <2>4. PICK p \in Passes : task[<<p, s>>].pc # "none"
      BY <2>3, Zenon DEF SpxInv, OfferIsWatched, Watching
    <2>5. health_state(s) # "unavailable"
      BY <2>2, Zenon DEF Workers
    <2>6. connected[s]
      BY <2>4, <2>5, Zenon DEF health_state
    <2> QED BY <2>3, <2>6, Zenon DEF Available
  <1> QED BY <1>1, <1>2, <1>3, Zenon DEF SpxInv

INSTANCE SequenceTheorems

-----------------------------------------------------------------------------
(* The QUIC connections.                                                   *)

\* A ping that is pending keeps its time, a worker that is marked has a cause, and its loop has
\* ended.
Watched(r) ==
  /\ r \in Worker
  /\ r.loop => IF r.pending THEN r.age <= 3 /\ r.quiet <= r.age + 1 ELSE r.age = 0 /\ r.quiet = 0
  /\ r.degraded => ~r.loop /\ (~r.alive \/ r.wire = "torn" \/ (r.pending /\ r.age >= 3))

QuicShape ==
  /\ quicSize \in 1..MaxWorkers /\ quicPass \in [n : 0..MaxWorkers, pc : {"off", "connect", "bind", "serve", "clear"}]
  /\ worker \in Seq(Worker) /\ quicActive \in [1..MaxWorkers -> 0..MaxFlows]
  /\ flow \in [QuicClients -> Flow] /\ flows \in 0..MaxFlows
  /\ \A i \in 1..Len(worker) : Watched(worker[i]) /\ worker[i].pass <= quicPass.n

\* The slot shows a pass from the moment its pool is connected until it is cleared.
QuicSlot == current = IF quicPass.pc \in {"bind", "serve", "clear"} THEN quicPass.n ELSE 0

\* The passes before the current one made size workers each at most.
QuicRoom ==
  /\ quicPass.n = 0 => worker = <<>> /\ quicPass.pc = "off"
  /\ quicPass.n > 0 => /\ quicPass.n * quicSize <= MaxWorkers /\ Cardinality(Pool(quicPass.n)) <= quicSize
                   /\ Len(worker) + quicSize <= quicPass.n * quicSize + Cardinality(Pool(quicPass.n))

\* A flow has a worker from its choice to its drop.
QuicFlows == \A c \in QuicClients : IF flow[c].pc = "idle" THEN flow[c].w = 0 ELSE flow[c].w \in 1..Len(worker)

AtWorker(i) == {c \in QuicClients : flow[c].w = i /\ flow[c].pc \in {"header", "relay"}}
AtState(p)  == {c \in QuicClients : flow[c].w \in Pool(p) /\ flow[c].pc \notin {"idle", "opening"}}
Busy        == {c \in QuicClients : flow[c].pc # "idle"}

QuicExact ==
  /\ \A i \in 1..Len(worker) : worker[i].flows = Cardinality(AtWorker(i))
  /\ \A p \in 1..MaxWorkers : quicActive[p] = Cardinality(AtState(p))
  /\ Cardinality(Busy) <= flows

QuicInv == QuicShape /\ QuicSlot /\ QuicRoom /\ QuicFlows /\ QuicExact

\* What one more or one less member does to a count of flows.
LEMMA QuicCounts ==
  ASSUME NEW S \in SUBSET QuicClients
  PROVE  /\ IsFiniteSet(S) /\ Cardinality(S) \in Nat
         /\ \A c \in QuicClients : c \notin S => Cardinality(S \cup {c}) = Cardinality(S) + 1
         /\ \A c \in QuicClients : c \in S => Cardinality(S \ {c}) = Cardinality(S) - 1 /\ Cardinality(S) > 0
  <1>1. IsFiniteSet(S)
    BY FS_Subset, QuicAssumption, Zenon
  <1>2. Cardinality(S) \in Nat
    BY <1>1, FS_CardinalityType, Zenon
  <1>3. ASSUME NEW c \in QuicClients, c \notin S PROVE Cardinality(S \cup {c}) = Cardinality(S) + 1
    BY <1>1, <1>3, FS_AddElement, Zenon
  <1>4. ASSUME NEW c \in QuicClients, c \in S PROVE Cardinality(S \ {c}) = Cardinality(S) - 1 /\ Cardinality(S) > 0
    <2>1. Cardinality(S \ {c}) = Cardinality(S) - 1
      BY <1>1, <1>4, FS_RemoveElement, Zenon
    <2>2. IsFiniteSet(S \ {c}) /\ Cardinality(S \ {c}) \in Nat
      BY <1>1, FS_Subset, FS_CardinalityType, Zenon
    <2> QED BY <1>2, <2>1, <2>2
  <1> QED BY <1>1, <1>2, <1>3, <1>4, Zenon

LEMMA QuicWorkers ==
  ASSUME QuicInv
  PROVE  /\ worker \in Seq(Worker) /\ Len(worker) \in Nat /\ DOMAIN worker = 1..Len(worker)
         /\ \A i \in 1..Len(worker) : worker[i] \in Worker /\ Watched(worker[i])
         /\ Len(worker) <= MaxWorkers
  <1>1. /\ worker \in Seq(Worker) /\ Len(worker) \in Nat /\ DOMAIN worker = 1..Len(worker)
        /\ \A i \in 1..Len(worker) : worker[i] \in Worker /\ Watched(worker[i])
    BY LenProperties DEF QuicInv, QuicShape
  <1>2. Len(worker) <= MaxWorkers
    <2>1. quicSize \in Nat /\ quicPass.n \in Nat /\ MaxWorkers \in Nat
      BY QuicAssumption DEF QuicInv, QuicShape
    <2>2. CASE quicPass.n = 0
      BY <2>1, <2>2 DEF QuicInv, QuicRoom
    <2>3. CASE quicPass.n > 0
      <3> DEFINE k == quicPass.n * quicSize
                 m == Cardinality(Pool(quicPass.n))
      <3>1. k <= MaxWorkers /\ m <= quicSize /\ Len(worker) + quicSize <= k + m
        BY <2>3, Zenon DEF QuicInv, QuicRoom
      <3>2. k \in Nat
        BY <2>1
      <3>3. m \in Nat
        <4>1. IsFiniteSet(Pool(quicPass.n))
          <5>1. Pool(quicPass.n) \subseteq 1..Len(worker)
            BY <1>1, Zenon DEF Pool
          <5>2. IsFiniteSet(1..Len(worker))
            BY <1>1, FS_Interval
          <5> QED BY <5>1, <5>2, FS_Subset, Zenon
        <4> QED BY <4>1, FS_CardinalityType, Zenon
      <3> HIDE DEF k, m
      <3> QED BY <1>1, <2>1, <3>1, <3>2, <3>3
    <2> QED BY <2>1, <2>2, <2>3
  <1> QED BY <1>1, <1>2, Zenon

LEMMA QuicPools == ASSUME QuicInv, NEW p PROVE IsFiniteSet(Pool(p))
  <1>1. Pool(p) \subseteq 1..Len(worker)
    BY QuicWorkers, Zenon DEF Pool
  <1>2. IsFiniteSet(1..Len(worker))
    BY FS_Interval, QuicWorkers
  <1> QED BY <1>1, <1>2, FS_Subset, Zenon

\* A worker changes and its pass and its flows do not: a step of its control loop, or the end of
\* its connection.
LEMMA QuicWorkerChanges ==
  ASSUME QuicInv, NEW i \in 1..Len(worker), NEW STATE r, Watched(r),
         r.pass = worker[i].pass, r.flows = worker[i].flows,
         worker' = [worker EXCEPT ![i] = r], UNCHANGED <<quicSize, quicPass, current, quicActive, flow, flows>>
  PROVE  QuicInv'
  <1>1. worker \in Seq(Worker) /\ r \in Worker /\ DOMAIN worker = 1..Len(worker)
    BY QuicWorkers, Zenon DEF Watched
  <1>2. /\ worker' \in Seq(Worker) /\ Len(worker') = Len(worker)
        /\ \A k \in 1..Len(worker) : worker'[k] = IF k = i THEN r ELSE worker[k]
    BY <1>1, ExceptSeq
  <1>3. DOMAIN worker' = 1..Len(worker)
    BY <1>2, LenProperties, Zenon
  <1>4. \A k \in 1..Len(worker) : worker'[k].pass = worker[k].pass /\ worker'[k].flows = worker[k].flows
    BY <1>2, Zenon
  <1>5. \A p : Pool(p)' = Pool(p)
    BY <1>1, <1>3, <1>4, Zenon DEF Pool
  <1>6. \A p : AtState(p)' = AtState(p) /\ AtWorker(p)' = AtWorker(p)
    BY <1>5, Zenon DEF AtState, AtWorker
  <1>7. Busy' = Busy
    BY Zenon DEF Busy
  <1>8. QuicShape'
    BY <1>2, <1>4, Zenon DEF QuicInv, QuicShape
  <1>9. worker = <<>> => worker' = <<>>
    BY <1>1
  <1>10. QuicSlot' /\ QuicRoom' /\ QuicFlows'
    BY <1>2, <1>5, <1>9, Zenon DEF QuicInv, QuicSlot, QuicRoom, QuicFlows
  <1>11. QuicExact'
    BY <1>2, <1>4, <1>6, <1>7, Zenon DEF QuicInv, QuicExact
  <1> QED BY <1>8, <1>10, <1>11, Zenon DEF QuicInv

\* What Degrade leaves, and that it gives a cause where there is one.
LEMMA QuicDegraded ==
  ASSUME NEW r \in Worker, ~r.alive \/ r.wire = "torn" \/ (r.pending /\ r.age >= 3)
  PROVE  Watched(Degrade(r)) /\ Degrade(r).pass = r.pass /\ Degrade(r).flows = r.flows
  <1> DEFINE w == IF r.wire = "torn" THEN r.wire ELSE "none"
             d == [pass |-> r.pass, alive |-> r.alive, loop |-> FALSE, degraded |-> TRUE, pending |-> r.pending,
                   age |-> r.age, quiet |-> 0, wire |-> w, flows |-> r.flows]
  <1>1. w \in {"none", "asked", "torn"} /\ (r.wire = "torn" => w = "torn")
    BY Zenon
  <1>2. Degrade(r) = d
    <2>1. r = [pass |-> r.pass, alive |-> r.alive, loop |-> r.loop, degraded |-> r.degraded, pending |-> r.pending,
               age |-> r.age, quiet |-> r.quiet, wire |-> r.wire, flows |-> r.flows]
      BY Zenon DEF Worker
    <2>2. Degrade(r) = [r EXCEPT !.degraded = TRUE, !.loop = FALSE, !.quiet = 0, !.wire = w]
      BY Zenon DEF Degrade
    <2> HIDE DEF w
    <2> QED BY <2>1, <2>2, Zenon
  <1> HIDE DEF w
  <1>3. d \in Worker
    BY <1>1 DEF Worker
  <1>4. Watched(d)
    BY <1>1, <1>3, Zenon DEF Watched
  <1> QED BY <1>2, <1>4

LEMMA QuicTick == ASSUME QuicInv, NEW i \in 1..MaxWorkers, Tick(i) PROVE QuicInv'
  <1> DEFINE o == worker[i]
  <1>1. i \in 1..Len(worker) /\ o \in Worker /\ o.loop /\ Watched(o)
    BY QuicWorkers, Zenon DEF Tick
  <1>2. PICK wire \in {worker[i].wire} \cup {"torn" : x \in {"asked"} \cap {worker[i].wire}} :
          LET r == [worker[i] EXCEPT !.age = @ + (IF worker[i].pending THEN 1 ELSE 0), !.quiet = @ + 1, !.wire = wire]
          IN \/ r.pending /\ r.age >= TimeoutTicks /\ SetWorker(i, Degrade(r))
             \/ r.pending /\ r.age <= TimeoutTicks /\ SetWorker(i, r)
             \/ ~r.pending /\ SetWorker(i, [r EXCEPT !.pending = TRUE, !.age = 0, !.wire = IF r.alive THEN "asked" ELSE @])
             \/ ~r.pending /\ ~r.alive /\ SetWorker(i, Degrade(r))
    BY Zenon DEF Tick
  <1> DEFINE a == o.age + (IF o.pending THEN 1 ELSE 0)
             r == [worker[i] EXCEPT !.age = @ + (IF worker[i].pending THEN 1 ELSE 0), !.quiet = @ + 1, !.wire = wire]
             s == [pass |-> o.pass, alive |-> o.alive, loop |-> o.loop, degraded |-> o.degraded, pending |-> o.pending,
                   age |-> a, quiet |-> o.quiet + 1, wire |-> wire, flows |-> o.flows]
  <1>3. wire \in {"none", "asked", "torn"}
    BY <1>1, Zenon DEF Worker
  <1>4. r = s
    <2>1. o = [pass |-> o.pass, alive |-> o.alive, loop |-> o.loop, degraded |-> o.degraded, pending |-> o.pending,
               age |-> o.age, quiet |-> o.quiet, wire |-> o.wire, flows |-> o.flows]
      BY <1>1, Zenon DEF Worker
    <2>2. r = [o EXCEPT !.age = a, !.quiet = o.quiet + 1, !.wire = wire]
      BY Zenon
    <2> HIDE DEF a, o, r
    <2> QED BY <2>1, <2>2, Zenon
  <1>5. a \in 0..4 /\ o.quiet + 1 \in 0..5 /\ (~o.pending => a = 0 /\ o.quiet = 0)
        /\ (o.pending => o.quiet <= a) /\ ~o.degraded /\ o.quiet \in Nat
    BY <1>1 DEF Watched, Worker
  <1> HIDE DEF a
  <1>6. s \in Worker /\ s.pass = o.pass /\ s.flows = o.flows /\ (s.pending <=> o.pending) /\ s.age = a /\ (s.alive <=> o.alive)
        /\ s.quiet = o.quiet + 1 /\ ~s.degraded /\ s.wire = wire
    BY <1>1, <1>3, <1>5, Zenon DEF Worker
  <1>7. CASE s.pending /\ s.age >= TimeoutTicks /\ SetWorker(i, Degrade(s))
    <2>1. /\ Watched(Degrade(s)) /\ Degrade(s).pass = s.pass /\ Degrade(s).flows = s.flows
      BY <1>6, <1>7, QuicDegraded, Zenon DEF TimeoutTicks
    <2> QED BY <1>1, <1>6, <1>7, <2>1, QuicWorkerChanges, Zenon DEF SetWorker
  <1>8. CASE s.pending /\ s.age <= TimeoutTicks /\ SetWorker(i, s)
    <2> HIDE DEF s
    <2>1. Watched(s)
      BY <1>5, <1>6, <1>8 DEF Watched, TimeoutTicks
    <2> QED BY <1>1, <1>6, <1>8, <2>1, QuicWorkerChanges, Zenon DEF SetWorker
  <1>9. CASE ~s.pending /\ SetWorker(i, [s EXCEPT !.pending = TRUE, !.age = 0, !.wire = IF s.alive THEN "asked" ELSE @])
    <2> DEFINE w == IF s.alive THEN "asked" ELSE wire
               t == [pass |-> o.pass, alive |-> o.alive, loop |-> o.loop, degraded |-> o.degraded, pending |-> TRUE,
                     age |-> 0, quiet |-> o.quiet + 1, wire |-> w, flows |-> o.flows]
               e == [s EXCEPT !.pending = TRUE, !.age = 0, !.wire = IF s.alive THEN "asked" ELSE @]
    <2>1. e = t
      <3>1. e = [s EXCEPT !.pending = TRUE, !.age = 0, !.wire = w]
        BY Zenon
      <3>2. s = [pass |-> o.pass, alive |-> o.alive, loop |-> o.loop, degraded |-> o.degraded, pending |-> o.pending,
                 age |-> a, quiet |-> o.quiet + 1, wire |-> wire, flows |-> o.flows]
        BY Zenon
      <3> HIDE DEF w, s, o, a, e
      <3> QED BY <3>1, <3>2, Zenon
    <2>2. w \in {"none", "asked", "torn"}
      BY <1>3, Zenon
    <2> HIDE DEF w
    <2>3. t \in Worker /\ t.pass = o.pass /\ t.flows = o.flows
      BY <1>1, <1>5, <2>2 DEF Worker
    <2>4. Watched(t)
      BY <1>5, <1>6, <1>9, <2>3 DEF Watched
    <2> QED BY <1>1, <1>9, <2>1, <2>3, <2>4, QuicWorkerChanges, Zenon DEF SetWorker
  <1>10. CASE ~s.pending /\ ~s.alive /\ SetWorker(i, Degrade(s))
    <2>1. /\ Watched(Degrade(s)) /\ Degrade(s).pass = s.pass /\ Degrade(s).flows = s.flows
      BY <1>6, <1>10, QuicDegraded, Zenon
    <2> QED BY <1>1, <1>6, <1>10, <2>1, QuicWorkerChanges, Zenon DEF SetWorker
  <1> QED BY <1>2, <1>4, <1>7, <1>8, <1>9, <1>10, Zenon

LEMMA QuicLoop ==
  ASSUME QuicInv, NEW i \in 1..MaxWorkers, PongArrives(i) \/ ReadFails(i) \/ ConnectionDies(i) PROVE QuicInv'
  <1> DEFINE o == worker[i]
  <1>1. i \in 1..Len(worker) /\ o \in Worker /\ Watched(o)
    BY QuicWorkers, Zenon DEF PongArrives, ReadFails, ConnectionDies
  <1>2. CASE PongArrives(i)
    <2> DEFINE r == [worker[i] EXCEPT !.wire = "none", !.pending = FALSE, !.age = 0, !.quiet = 0]
               d == [pass |-> o.pass, alive |-> o.alive, loop |-> o.loop, degraded |-> o.degraded, pending |-> FALSE,
                     age |-> 0, quiet |-> 0, wire |-> "none", flows |-> o.flows]
    <2>0. r = d
      <3>1. o = [pass |-> o.pass, alive |-> o.alive, loop |-> o.loop, degraded |-> o.degraded, pending |-> o.pending,
                 age |-> o.age, quiet |-> o.quiet, wire |-> o.wire, flows |-> o.flows]
        BY <1>1, Zenon DEF Worker
      <3>2. r = [o EXCEPT !.wire = "none", !.pending = FALSE, !.age = 0, !.quiet = 0]
        BY Zenon
      <3> HIDE DEF o, r
      <3> QED BY <3>1, <3>2, Zenon
    <2>1. d \in Worker /\ d.pass = o.pass /\ d.flows = o.flows /\ (d.degraded <=> o.degraded) /\ ~d.pending
          /\ d.age = 0 /\ d.quiet = 0
      BY <1>1 DEF Worker
    <2>2. SetWorker(i, r) /\ ~o.degraded
      BY <1>1, <1>2, Zenon DEF PongArrives, Watched
    <2> HIDE DEF r, d
    <2>3. Watched(d)
      BY <2>1, <2>2, Zenon DEF Watched
    <2> QED BY <1>1, <2>0, <2>1, <2>2, <2>3, QuicWorkerChanges, Zenon DEF SetWorker
  <1>3. CASE ReadFails(i)
    <2>1. Watched(Degrade(o)) /\ Degrade(o).pass = o.pass /\ Degrade(o).flows = o.flows
      BY <1>1, <1>3, QuicDegraded, Zenon DEF ReadFails
    <2> QED BY <1>1, <1>3, <2>1, QuicWorkerChanges, Zenon DEF SetWorker, ReadFails
  <1>4. CASE ConnectionDies(i)
    <2> DEFINE r == [worker[i] EXCEPT !.alive = FALSE]
    <2>1. /\ r \in Worker /\ r.pass = o.pass /\ r.flows = o.flows /\ r.degraded = o.degraded /\ r.pending = o.pending
          /\ r.age = o.age /\ r.quiet = o.quiet /\ ~r.alive /\ r.loop = o.loop
      BY <1>1, Zenon DEF Worker
    <2>2. SetWorker(i, r)
      BY <1>4, Zenon DEF ConnectionDies
    <2> HIDE DEF r
    <2>3. Watched(r)
      BY <1>1, <2>1, Zenon DEF Watched
    <2> QED BY <1>1, <2>1, <2>2, <2>3, QuicWorkerChanges, Zenon DEF SetWorker
  <1> QED BY <1>2, <1>3, <1>4, Zenon

\* The pass goes on with its pool as it is.
LEMMA QuicPassMoves ==
  ASSUME QuicInv, quicPass.pc # "off", NEW STATE q, q \in {"off", "bind", "serve", "clear"},
         quicPass' = [quicPass EXCEPT !.pc = q], current' = IF q = "off" THEN 0 ELSE quicPass.n,
         UNCHANGED <<quicSize, worker, quicActive, flow, flows>>
  PROVE  QuicInv'
  <1>1. /\ quicPass' \in [n : 0..MaxWorkers, pc : {"off", "connect", "bind", "serve", "clear"}]
        /\ quicPass'.n = quicPass.n /\ quicPass'.pc = q /\ quicPass.n \in Nat
    BY QuicAssumption DEF QuicInv, QuicShape
  <1>2. \A x : Pool(x)' = Pool(x) /\ AtState(x)' = AtState(x) /\ AtWorker(x)' = AtWorker(x)
    BY Zenon DEF Pool, AtState, AtWorker
  <1>3. Busy' = Busy
    BY Zenon DEF Busy
  <1>4. QuicShape' /\ QuicSlot' /\ QuicFlows'
    BY <1>1, Zenon DEF QuicInv, QuicShape, QuicSlot, QuicFlows
  <1>5. QuicRoom'
    BY <1>1, <1>2, Zenon DEF QuicInv, QuicRoom
  <1>6. QuicExact'
    BY <1>2, <1>3, Zenon DEF QuicInv, QuicExact
  <1> QED BY <1>4, <1>5, <1>6, Zenon DEF QuicInv

\* No worker is of a later pass than the current one.
LEMMA QuicPasses == ASSUME QuicInv PROVE \A i \in 1..Len(worker) : worker[i].pass \in Int /\ worker[i].pass <= quicPass.n
  <1>1. \A w \in Worker : w.pass \in Int
    BY DEF Worker
  <1>2. \A i \in 1..Len(worker) : worker[i] \in Worker /\ worker[i].pass <= quicPass.n
    BY QuicWorkers, Zenon DEF QuicInv, QuicShape
  <1> QED BY <1>1, <1>2, Zenon

\* A pass begins with an empty pool.
LEMMA QuicBegins == ASSUME QuicInv, QuicBegin PROVE QuicInv'
  <1>1. /\ quicPass.pc = "off" /\ (quicPass.n + 1) * quicSize <= MaxWorkers /\ quicPass' = [n |-> quicPass.n + 1, pc |-> "connect"]
        /\ UNCHANGED <<quicSize, current, worker, quicActive, flow, flows>>
    BY Zenon DEF QuicBegin
  <1>2. quicPass.n \in Nat /\ quicSize \in Nat /\ quicSize >= 1 /\ MaxWorkers \in Nat
    BY QuicAssumption DEF QuicInv, QuicShape
  <1>3. (quicPass.n + 1) * quicSize = quicPass.n * quicSize + quicSize /\ quicPass.n * quicSize \in Nat /\ quicPass.n * quicSize >= quicPass.n
    BY <1>2
  <1>4. Pool(quicPass.n + 1) = {} /\ \A x : Pool(x)' = Pool(x)
    <2>1. \A i \in 1..Len(worker) : worker[i].pass \in Int /\ worker[i].pass <= quicPass.n
      BY QuicPasses, Zenon
    <2>2. Pool(quicPass.n + 1) = {}
      BY <1>2, <2>1, QuicWorkers DEF Pool
    <2> QED BY <1>1, <2>2, Zenon DEF Pool
  <1>5. Cardinality(Pool(quicPass.n + 1)) = 0
    BY <1>4, FS_EmptySet, Zenon
  <1>6. Len(worker) <= quicPass.n * quicSize
    <2>1. CASE quicPass.n = 0
      BY <1>2, <2>1 DEF QuicInv, QuicRoom
    <2>2. CASE quicPass.n > 0
      <3> DEFINE k == quicPass.n * quicSize
                 m == Cardinality(Pool(quicPass.n))
      <3>1. m <= quicSize /\ Len(worker) + quicSize <= k + m
        BY <2>2, Zenon DEF QuicInv, QuicRoom
      <3>2. m \in Nat
        BY FS_CardinalityType, QuicPools, Zenon
      <3> HIDE DEF k, m
      <3>3. k \in Nat
        BY <1>3, Zenon DEF k
      <3>4. Len(worker) <= k
        BY <1>2, <3>1, <3>2, <3>3, QuicWorkers
      <3> QED BY <3>4, Zenon DEF k
    <2> QED BY <1>2, <2>1, <2>2
  <1>7. quicPass'.n = quicPass.n + 1 /\ quicPass'.pc = "connect" /\ quicPass'.n <= MaxWorkers
    <2> DEFINE k == quicPass.n * quicSize
    <2>1. k + quicSize <= MaxWorkers /\ k \in Nat /\ k >= quicPass.n
      BY <1>1, <1>3, Zenon
    <2> HIDE DEF k
    <2> QED BY <1>1, <1>2, <2>1
  <1>8. QuicRoom'
    <2> DEFINE k == quicPass.n * quicSize
               m == (quicPass.n + 1) * quicSize
    <2>1. m <= MaxWorkers /\ m = k + quicSize /\ Len(worker) <= k /\ k \in Nat
      BY <1>1, <1>3, <1>6, Zenon
    <2>2. quicPass'.n * quicSize' = m /\ Pool(quicPass.n)' = Pool(quicPass.n + 1)
      BY <1>1, <1>7, Zenon DEF Pool
    <2> HIDE DEF k, m
    <2>3. Len(worker) + quicSize <= m + 0 /\ 0 <= quicSize
      BY <1>2, <2>1, QuicWorkers
    <2> QED BY <1>1, <1>2, <1>5, <1>7, <2>1, <2>2, <2>3 DEF QuicRoom
  <1>9. QuicShape' /\ QuicSlot' /\ QuicFlows'
    <2>1. quicPass' \in [n : 0..MaxWorkers, pc : {"off", "connect", "bind", "serve", "clear"}]
      BY <1>1, <1>2, <1>7
    <2>2. \A i \in 1..Len(worker) : worker[i].pass \in Int /\ worker[i].pass <= quicPass.n
      BY QuicPasses, Zenon
    <2>3. \A i \in 1..Len(worker) : worker[i].pass <= quicPass'.n
      BY <1>2, <1>7, <2>2
    <2> QED BY <1>1, <1>7, <2>1, <2>3, Zenon DEF QuicInv, QuicShape, QuicSlot, QuicFlows
  <1>10. QuicExact'
    <2>1. \A x : AtState(x)' = AtState(x) /\ AtWorker(x)' = AtWorker(x)
      BY <1>1, <1>4, Zenon DEF AtState, AtWorker
    <2>2. Busy' = Busy
      BY <1>1, Zenon DEF Busy
    <2> QED BY <1>1, <2>1, <2>2, Zenon DEF QuicInv, QuicExact
  <1> QED BY <1>8, <1>9, <1>10, Zenon DEF QuicInv

\* A worker joins the pool of the pass, with no flow at it.
LEMMA QuicJoins ==
  ASSUME QuicInv, quicPass.pc = "connect", Cardinality(Pool(quicPass.n)) < quicSize, worker' = Append(worker, Connected(quicPass.n)),
         UNCHANGED <<quicSize, quicPass, current, quicActive, flow, flows>>
  PROVE  QuicInv'
  <1> DEFINE r == Connected(quicPass.n)
             l == Len(worker) + 1
  <1>1. quicPass.n \in 1..MaxWorkers /\ quicSize \in Nat /\ MaxFlows \in Nat
    BY QuicAssumption DEF QuicInv, QuicShape, QuicRoom
  <1>2. r \in Worker /\ Watched(r) /\ r.pass = quicPass.n /\ r.flows = 0
    BY <1>1 DEF Connected, Worker, Watched
  <1> HIDE DEF r
  <1>3. /\ worker' \in Seq(Worker) /\ Len(worker') = l /\ worker'[l] = r
        /\ \A k \in 1..Len(worker) : worker'[k] = worker[k]
    BY <1>2, QuicWorkers, AppendProperties DEF r
  <1>4. DOMAIN worker' = 1..l /\ l \in Nat /\ Len(worker) \in Nat
    BY <1>3, LenProperties, QuicWorkers, Zenon
  <1>5. \A x : Pool(x)' = IF x = quicPass.n THEN Pool(x) \cup {l} ELSE Pool(x)
    BY <1>2, <1>3, <1>4, QuicWorkers DEF Pool
  <1>6. \A c \in QuicClients : flow[c].w # l
    <2>1. \A c \in QuicClients : flow[c].w \in 0..Len(worker)
      BY <1>4 DEF QuicInv, QuicFlows
    <2> QED BY <1>4, <2>1
  <1>7. AtWorker(l) = {} /\ Cardinality(AtWorker(l)) = 0
    BY <1>6, FS_EmptySet, Zenon DEF AtWorker
  <1>8. \A x : AtState(x)' = AtState(x) /\ AtWorker(x)' = AtWorker(x)
    BY <1>5, <1>6, Zenon DEF AtState, AtWorker
  <1>9. Busy' = Busy
    BY Zenon DEF Busy
  <1>10. QuicShape'
    BY <1>1, <1>2, <1>3, <1>4 DEF QuicInv, QuicShape
  <1>11. QuicSlot' /\ QuicFlows'
    BY <1>3, <1>4 DEF QuicInv, QuicSlot, QuicFlows
  <1>12. QuicExact'
    BY <1>2, <1>3, <1>4, <1>7, <1>8, <1>9 DEF QuicInv, QuicExact
  <1>13. QuicRoom'
    <2> DEFINE k == quicPass.n * quicSize
               m == Cardinality(Pool(quicPass.n))
    <2>1. k <= MaxWorkers /\ Len(worker) + quicSize <= k + m /\ m < quicSize
      BY <1>1 DEF QuicInv, QuicRoom
    <2>2. m \in Nat /\ Cardinality(Pool(quicPass.n) \cup {l}) = m + 1
      <3>1. l \notin Pool(quicPass.n)
        BY <1>4, QuicWorkers DEF Pool
      <3> QED BY <3>1, QuicPools, FS_CardinalityType, FS_AddElement, Zenon
    <2>3. k \in Nat
      BY <1>1
    <2>4. Pool(quicPass.n)' = Pool(quicPass.n) \cup {l}
      BY <1>2, <1>3, <1>4, QuicWorkers DEF Pool
    <2>5. quicPass'.n * quicSize' = k
      BY Zenon
    <2> HIDE DEF k, m
    <2>6. l + quicSize <= k + (m + 1) /\ m + 1 <= quicSize
      BY <1>1, <1>4, <2>1, <2>2, <2>3
    <2> QED BY <1>1, <1>3, <2>1, <2>2, <2>4, <2>5, <2>6 DEF QuicRoom
  <1> QED BY <1>10, <1>11, <1>12, <1>13, Zenon DEF QuicInv

One(b) == IF b THEN 1 ELSE 0

\* A count of flows when one flow alone may enter or leave it.
LEMMA QuicShift ==
  ASSUME NEW S \in SUBSET QuicClients, NEW T \in SUBSET QuicClients, NEW c \in QuicClients, \A d \in QuicClients \ {c} : d \in S <=> d \in T
  PROVE  Cardinality(T) = Cardinality(S) + One(c \in T) - One(c \in S) /\ Cardinality(S) \in Nat
  <1>1. Cardinality(S) \in Nat
    BY QuicCounts, Zenon
  <1>2. CASE (c \in S) <=> (c \in T)
    <2>1. S = T
      BY <1>2
    <2> QED BY <1>1, <2>1 DEF One
  <1>3. CASE c \in S /\ c \notin T
    <2>1. T = S \ {c}
      BY <1>3, Zenon
    <2> QED BY <1>1, <1>3, <2>1, QuicCounts DEF One
  <1>4. CASE c \notin S /\ c \in T
    <2>1. T = S \cup {c}
      BY <1>4, Zenon
    <2> QED BY <1>1, <1>4, <2>1, QuicCounts DEF One
  <1> QED BY <1>2, <1>3, <1>4, Zenon

\* A flow becomes f, and m and n are the counts of its worker i and of its state.
FlowMoves(c, i, f, m, n) ==
  /\ f \in Flow /\ flow' = [flow EXCEPT ![c] = f] /\ (flow[c].pc # "idle" => flow[c].w = i)
  /\ IF f.pc = "idle" THEN f.w = 0 ELSE f.w = i
  /\ worker' = [worker EXCEPT ![i].flows = m]
  /\ m = worker[i].flows + One(f.pc \in {"header", "relay"}) - One(flow[c].pc \in {"header", "relay"})
  /\ quicActive' = [quicActive EXCEPT ![worker[i].pass] = n]
  /\ n = quicActive[worker[i].pass] + One(f.pc \notin {"idle", "opening"}) - One(flow[c].pc \notin {"idle", "opening"})
  /\ flows' \in 0..MaxFlows /\ flows' >= flows + One(f.pc # "idle") - One(flow[c].pc # "idle")
  /\ UNCHANGED <<quicSize, quicPass, current>>

\* The counts are exact again.
LEMMA QuicFlowMoves ==
  ASSUME QuicInv, NEW c \in QuicClients, NEW i \in 1..Len(worker), NEW STATE f, NEW STATE m, NEW STATE n,
         FlowMoves(c, i, f, m, n)
  PROVE  QuicInv'
  <1>0. /\ f \in Flow /\ flow' = [flow EXCEPT ![c] = f] /\ (flow[c].pc # "idle" => flow[c].w = i)
        /\ IF f.pc = "idle" THEN f.w = 0 ELSE f.w = i
        /\ worker' = [worker EXCEPT ![i].flows = m]
        /\ m = worker[i].flows + One(f.pc \in {"header", "relay"}) - One(flow[c].pc \in {"header", "relay"})
        /\ quicActive' = [quicActive EXCEPT ![worker[i].pass] = n]
        /\ n = quicActive[worker[i].pass] + One(f.pc \notin {"idle", "opening"}) - One(flow[c].pc \notin {"idle", "opening"})
        /\ flows' \in 0..MaxFlows /\ flows' >= flows + One(f.pc # "idle") - One(flow[c].pc # "idle")
        /\ UNCHANGED <<quicSize, quicPass, current>>
    BY Zenon DEF FlowMoves
  <1> USE <1>0
  <1> DEFINE r == [worker[i] EXCEPT !.flows = m]
             P == worker[i].pass
  <1>1. worker[i] \in Worker /\ P \in 1..MaxWorkers /\ worker[i].flows \in Nat /\ quicActive[P] \in Nat /\ flows \in Nat
    <2>1. worker[i] \in Worker
      BY QuicWorkers, Zenon
    <2>2. P \in 1..MaxWorkers /\ worker[i].flows \in Nat
      BY <2>1, QuicAssumption DEF Worker
    <2> HIDE DEF P
    <2>3. quicActive[P] \in 0..MaxFlows /\ flows \in 0..MaxFlows
      BY <2>2, Zenon DEF QuicInv, QuicShape
    <2> QED BY <2>1, <2>2, <2>3, QuicAssumption
  <1>2. /\ flow' \in [QuicClients -> Flow] /\ flow'[c] = f /\ \A d \in QuicClients \ {c} : flow'[d] = flow[d]
    BY Zenon DEF QuicInv, QuicShape
  <1>3. \A d \in QuicClients : IF flow'[d].pc = "idle" THEN flow'[d].w = 0 ELSE flow'[d].w \in 1..Len(worker)
    BY <1>2, Zenon DEF QuicInv, QuicFlows
  <1>4. worker' = [worker EXCEPT ![i] = r]
    BY Zenon
  <1>5. /\ DOMAIN worker' = 1..Len(worker) /\ worker'[i] = r
        /\ \A k \in 1..Len(worker) : k # i => worker'[k] = worker[k]
    BY <1>4, QuicWorkers, Zenon
  <1>6. r.pass = P /\ r.flows = m
    BY <1>1, Zenon DEF Worker
  <1> HIDE DEF r
  <1>7. \A x : Pool(x)' = Pool(x)
    BY <1>5, <1>6, QuicWorkers DEF Pool
  <1>8. \A x : Pool(x) \subseteq 1..Len(worker) /\ (i \in Pool(x) <=> x = P) /\ 0 \notin Pool(x)
    BY QuicWorkers DEF Pool
  <1>9. \A k : AtWorker(k) \subseteq QuicClients /\ AtState(k) \subseteq QuicClients
    BY Zenon DEF AtWorker, AtState
  <1>10. Busy \subseteq QuicClients /\ Busy' \subseteq QuicClients
    BY Zenon DEF Busy
  <1>11. m = Cardinality({d \in QuicClients : flow'[d].w = i /\ flow'[d].pc \in {"header", "relay"}})
    <2> DEFINE T == {d \in QuicClients : flow'[d].w = i /\ flow'[d].pc \in {"header", "relay"}}
    <2>1. \A d \in QuicClients \ {c} : d \in AtWorker(i) <=> d \in T
      BY <1>2, Zenon DEF AtWorker
    <2>2. (c \in T <=> f.pc \in {"header", "relay"}) /\ (c \in AtWorker(i) <=> flow[c].pc \in {"header", "relay"})
      BY <1>2, Zenon DEF AtWorker
    <2>3. worker[i].flows = Cardinality(AtWorker(i))
      BY Zenon DEF QuicInv, QuicExact
    <2>4. Cardinality(T) = Cardinality(AtWorker(i)) + One(c \in T) - One(c \in AtWorker(i))
      BY <1>9, <2>1, QuicShift
    <2> QED BY <2>2, <2>3, <2>4, Zenon DEF One
  <1>12. n = Cardinality({d \in QuicClients : flow'[d].w \in Pool(P) /\ flow'[d].pc \notin {"idle", "opening"}})
    <2> DEFINE T == {d \in QuicClients : flow'[d].w \in Pool(P) /\ flow'[d].pc \notin {"idle", "opening"}}
    <2>1. \A d \in QuicClients \ {c} : d \in AtState(P) <=> d \in T
      BY <1>2, Zenon DEF AtState
    <2>2. (c \in T <=> f.pc \notin {"idle", "opening"}) /\ (c \in AtState(P) <=> flow[c].pc \notin {"idle", "opening"})
      BY <1>2, <1>8 DEF AtState
    <2>3. quicActive[P] = Cardinality(AtState(P))
      BY <1>1, Zenon DEF QuicInv, QuicExact
    <2>4. Cardinality(T) = Cardinality(AtState(P)) + One(c \in T) - One(c \in AtState(P))
      BY <1>9, <2>1, QuicShift
    <2> QED BY <2>2, <2>3, <2>4, Zenon DEF One
  <1>13. Cardinality(Busy') <= flows'
    <2>1. \A d \in QuicClients \ {c} : d \in Busy <=> d \in Busy'
      BY <1>2, Zenon DEF Busy
    <2>2. (c \in Busy' <=> f.pc # "idle") /\ (c \in Busy <=> flow[c].pc # "idle")
      BY <1>2, Zenon DEF Busy
    <2>3. Cardinality(Busy') = Cardinality(Busy) + One(c \in Busy') - One(c \in Busy) /\ Cardinality(Busy) \in Nat
      BY <1>10, <2>1, QuicShift, Zenon
    <2>4. Cardinality(Busy) <= flows
      BY Zenon DEF QuicInv, QuicExact
    <2> QED BY <1>1, <2>2, <2>3, <2>4, QuicAssumption DEF One
  <1>14. \A S \in SUBSET Busy' : Cardinality(S) \in 0..MaxFlows
    <2> SUFFICES ASSUME NEW S \in SUBSET Busy' PROVE Cardinality(S) \in 0..MaxFlows
      BY Zenon
    <2>1. S \in SUBSET QuicClients /\ IsFiniteSet(Busy') /\ Cardinality(Busy') \in Nat
      BY <1>10, QuicCounts, Zenon
    <2>2. Cardinality(S) \in Nat
      BY <2>1, QuicCounts, Zenon
    <2>3. Cardinality(S) <= Cardinality(Busy')
      BY <2>1, FS_Subset, Zenon
    <2> QED BY <1>13, <2>1, <2>2, <2>3, QuicAssumption
  <1>15. m \in 0..MaxFlows /\ n \in 0..MaxFlows
    <2>1. {d \in QuicClients : flow'[d].w = i /\ flow'[d].pc \in {"header", "relay"}} \subseteq Busy'
      BY Zenon DEF Busy
    <2>2. {d \in QuicClients : flow'[d].w \in Pool(P) /\ flow'[d].pc \notin {"idle", "opening"}} \subseteq Busy'
      BY Zenon DEF Busy
    <2> QED BY <1>11, <1>12, <1>14, <2>1, <2>2, Zenon
  <1>16. r \in Worker /\ Watched(r)
    <2>1. Watched(worker[i])
      BY QuicWorkers, Zenon
    <2> DEFINE o == worker[i]
               d == [pass |-> o.pass, alive |-> o.alive, loop |-> o.loop, degraded |-> o.degraded, pending |-> o.pending,
                     age |-> o.age, quiet |-> o.quiet, wire |-> o.wire, flows |-> m]
    <2>2. o = [pass |-> o.pass, alive |-> o.alive, loop |-> o.loop, degraded |-> o.degraded, pending |-> o.pending,
               age |-> o.age, quiet |-> o.quiet, wire |-> o.wire, flows |-> o.flows]
      BY <1>1, Zenon DEF Worker
    <2>3. r = [o EXCEPT !.flows = m]
      BY Zenon DEF r
    <2> HIDE DEF o
    <2>4. r = d
      BY <2>2, <2>3, Zenon
    <2>5. d \in Worker
      BY <1>1, <1>15, Zenon DEF Worker, o
    <2>6. Watched(d)
      BY <2>1, <2>5, Zenon DEF Watched, o
    <2> QED BY <2>4, <2>5, <2>6, Zenon
  <1>17. worker' \in Seq(Worker) /\ Len(worker') = Len(worker)
    BY <1>4, <1>16, QuicWorkers, ExceptSeq
  <1>18. quicActive' \in [1..MaxWorkers -> 0..MaxFlows] /\ quicActive'[P] = n /\ \A x \in 1..MaxWorkers : x # P => quicActive'[x] = quicActive[x]
    BY <1>1, <1>15, Zenon DEF QuicInv, QuicShape
  <1>19. QuicShape'
    <2>1. \A k \in 1..Len(worker) : Watched(worker'[k]) /\ worker'[k].pass <= quicPass.n
      BY <1>5, <1>6, <1>16, QuicWorkers, Zenon DEF QuicInv, QuicShape
    <2> QED BY <1>2, <1>17, <1>18, <2>1, Zenon DEF QuicInv, QuicShape
  <1>20. QuicSlot' /\ QuicFlows'
    BY <1>3, <1>17, Zenon DEF QuicInv, QuicSlot, QuicFlows
  <1>21. QuicRoom'
    <2>1. Pool(quicPass.n)' = Pool(quicPass.n)
      BY <1>7, Zenon
    <2>2. worker = <<>> => worker' = <<>>
      BY <1>4
    <2> QED BY <1>17, <2>1, <2>2, Zenon DEF QuicInv, QuicRoom
  <1>22. \A k \in 1..Len(worker) : worker'[k].flows = Cardinality(AtWorker(k)')
    <2> SUFFICES ASSUME NEW k \in 1..Len(worker) PROVE worker'[k].flows = Cardinality(AtWorker(k)')
      BY Zenon
    <2>1. CASE k = i
      <3>1. AtWorker(k)' = {d \in QuicClients : flow'[d].w = i /\ flow'[d].pc \in {"header", "relay"}}
        BY <2>1, Zenon DEF AtWorker
      <3> QED BY <1>5, <1>6, <1>11, <2>1, <3>1, Zenon
    <2>2. CASE k # i
      <3>1. \A d \in QuicClients : d \in AtWorker(k)' <=> d \in AtWorker(k)
        BY <1>2, <1>8, <2>2 DEF AtWorker, QuicInv, QuicFlows
      <3>2. AtWorker(k)' = AtWorker(k)
        BY <3>1, Zenon DEF AtWorker
      <3> QED BY <1>5, <2>2, <3>2, Zenon DEF QuicInv, QuicExact
    <2> QED BY <2>1, <2>2, Zenon
  <1>23. \A x \in 1..MaxWorkers : quicActive'[x] = Cardinality(AtState(x)')
    <2> SUFFICES ASSUME NEW x \in 1..MaxWorkers PROVE quicActive'[x] = Cardinality(AtState(x)')
      BY Zenon
    <2>1. CASE x = P
      <3>1. AtState(x)' = {d \in QuicClients : flow'[d].w \in Pool(P) /\ flow'[d].pc \notin {"idle", "opening"}}
        BY <1>7, <2>1, Zenon DEF AtState
      <3> QED BY <1>12, <1>18, <2>1, <3>1, Zenon
    <2>2. CASE x # P
      <3>1. \A d \in QuicClients : d \in AtState(x)' <=> d \in AtState(x)
        BY <1>2, <1>7, <1>8, <2>2 DEF AtState, QuicInv, QuicFlows
      <3>2. AtState(x)' = AtState(x)
        BY <3>1, Zenon DEF AtState
      <3> QED BY <1>18, <2>2, <3>2, Zenon DEF QuicInv, QuicExact
    <2> QED BY <2>1, <2>2, Zenon
  <1>24. QuicExact'
    BY <1>13, <1>17, <1>22, <1>23, Zenon DEF QuicExact
  <1> QED BY <1>19, <1>20, <1>21, <1>24, Zenon DEF QuicInv

\* A flow in a state that counts has made the counts positive.
LEMMA QuicCounted ==
  ASSUME QuicInv, NEW c \in QuicClients, flow[c].pc # "idle"
  PROVE  /\ flow[c].w \in 1..Len(worker) /\ worker[flow[c].w] \in Worker
         /\ worker[flow[c].w].pass \in 1..MaxWorkers
         /\ worker[flow[c].w].flows \in Nat /\ quicActive[worker[flow[c].w].pass] \in Nat
         /\ flow[c].pc \in {"header", "relay"} => worker[flow[c].w].flows > 0
         /\ flow[c].pc # "opening" => quicActive[worker[flow[c].w].pass] > 0
  <1> DEFINE i == flow[c].w
             P == worker[i].pass
  <1>1. i \in 1..Len(worker) /\ worker[i] \in Worker
    BY QuicWorkers, Zenon DEF QuicInv, QuicFlows
  <1>2. P \in 1..MaxWorkers /\ worker[i].flows \in Nat
    BY <1>1, QuicAssumption DEF Worker
  <1>3. quicActive[P] \in Nat
    <2> HIDE DEF P
    <2>1. quicActive[P] \in 0..MaxFlows
      BY <1>2, Zenon DEF QuicInv, QuicShape
    <2> QED BY <2>1, QuicAssumption
  <1>4. ASSUME flow[c].pc \in {"header", "relay"} PROVE worker[i].flows > 0
    <2>1. c \in AtWorker(i) /\ AtWorker(i) \subseteq QuicClients
      BY <1>4, Zenon DEF AtWorker
    <2> QED BY <1>1, <2>1, QuicCounts, Zenon DEF QuicInv, QuicExact
  <1>5. ASSUME flow[c].pc # "opening" PROVE quicActive[P] > 0
    <2>1. c \in AtState(P) /\ AtState(P) \subseteq QuicClients
      BY <1>1, <1>5, QuicWorkers, Zenon DEF AtState, Pool
    <2> QED BY <1>2, <2>1, QuicCounts, Zenon DEF QuicInv, QuicExact
  <1> QED BY <1>1, <1>2, <1>3, <1>4, <1>5, Zenon

LEMMA QuicCountTypes ==
  ASSUME QuicInv, NEW i \in 1..Len(worker) PROVE worker[i].flows \in Nat /\ quicActive[worker[i].pass] \in Nat
  <1>1. worker[i].pass \in 1..MaxWorkers /\ worker[i].flows \in Nat
    BY QuicWorkers, QuicAssumption DEF Worker
  <1>2. quicActive[worker[i].pass] \in 0..MaxFlows
    BY <1>1, Zenon DEF QuicInv, QuicShape
  <1> QED BY <1>1, <1>2, QuicAssumption

LEMMA QuicNoFlow == NoFlow \in Flow /\ NoFlow.pc = "idle" /\ NoFlow.w = 0
  BY QuicAssumption DEF NoFlow, Flow

LEMMA QuicFlowSteps ==
  ASSUME QuicInv, NEW c \in QuicClients,
         QuicAccept(c) \/ OpenBi(c) \/ Header(c) \/ QuicRelayEnds(c) \/ DropStream(c)
  PROVE  QuicInv'
  <1>1. /\ flow[c] \in Flow /\ flows \in 0..MaxFlows /\ MaxFlows \in Nat /\ MaxWorkers \in Nat
        /\ flow[c].pc = "idle" => flow[c].w = 0
    BY QuicAssumption, Zenon DEF QuicInv, QuicShape, QuicFlows
  <1>2. \A i \in 1..Len(worker) : /\ worker = [worker EXCEPT ![i].flows = worker[i].flows]
                                 /\ quicActive = [quicActive EXCEPT ![worker[i].pass] = quicActive[worker[i].pass]]
    <2> SUFFICES ASSUME NEW i \in 1..Len(worker)
                 PROVE  /\ worker = [worker EXCEPT ![i].flows = worker[i].flows]
                        /\ quicActive = [quicActive EXCEPT ![worker[i].pass] = quicActive[worker[i].pass]]
      BY Zenon
    <2>1. worker[i] \in Worker /\ i \in DOMAIN worker
      BY QuicWorkers, Zenon
    <2>2. worker[i] = [worker[i] EXCEPT !.flows = worker[i].flows]
      BY <2>1, Zenon DEF Worker
    <2>3. worker = [worker EXCEPT ![i] = worker[i]]
      BY <2>1, QuicWorkers
    <2>4. quicActive = [quicActive EXCEPT ![worker[i].pass] = quicActive[worker[i].pass]]
      BY <2>1, Zenon DEF QuicInv, QuicShape
    <2> QED BY <2>2, <2>3, <2>4, Zenon
  <1>a. ASSUME NEW i \in 1..Len(worker)
        PROVE  worker[i].flows \in Nat /\ quicActive[worker[i].pass] \in Nat
    BY QuicCountTypes, Zenon
  <1>3. CASE QuicAccept(c)
    <2>1. PICK i \in QuicPreferred(quicPass.n) : SetFlow(c, [NoFlow EXCEPT !.pc = "opening", !.w = i])
      BY <1>3, Zenon DEF QuicAccept
    <2> DEFINE f == [NoFlow EXCEPT !.pc = "opening", !.w = i]
    <2>2. i \in 1..Len(worker) /\ i \in 0..MaxWorkers
      BY <1>1, QuicWorkers DEF QuicPreferred, Pool
    <2>3. f \in Flow /\ f.pc = "opening" /\ f.w = i
      BY <2>2, QuicNoFlow, Zenon DEF Flow
    <2>4. flow' = [flow EXCEPT ![c] = f]
      BY <2>1, Zenon DEF SetFlow
    <2>5. flow[c].pc = "idle" /\ flows' = flows + 1 /\ flows < MaxFlows /\ UNCHANGED <<quicSize, quicPass, current, worker, quicActive>>
      BY <1>3, Zenon DEF QuicAccept
    <2> HIDE DEF f
    <2>6. FlowMoves(c, i, f, worker[i].flows, quicActive[worker[i].pass])
      BY <1>1, <1>2, <1>a, <2>2, <2>3, <2>4, <2>5 DEF One, FlowMoves
    <2> QED BY <2>2, <2>6, QuicFlowMoves, Zenon
  <1> DEFINE i == flow[c].w
             w == worker[i].flows
             P == worker[i].pass
             a == quicActive[P]
  <1>b. ASSUME flow[c].pc # "idle"
        PROVE  /\ i \in 1..Len(worker) /\ w \in Nat /\ a \in Nat
               /\ flow[c].pc \in {"header", "relay"} => w > 0
               /\ flow[c].pc # "opening" => a > 0
               /\ worker = [worker EXCEPT ![i].flows = w] /\ quicActive = [quicActive EXCEPT ![P] = a]
    BY <1>2, <1>b, QuicCounted, Zenon
  <1>c. ASSUME NEW q \in {"header", "relay", "closing"}
        PROVE  /\ [flow[c] EXCEPT !.pc = q] \in Flow /\ [flow[c] EXCEPT !.pc = q].pc = q
               /\ [flow[c] EXCEPT !.pc = q].w = i
    BY <1>1, Zenon DEF Flow
  <1>d. ASSUME flow[c].pc \in {"header", "relay"}, Uncount(i)
        PROVE  worker' = [worker EXCEPT ![i].flows = w - 1]
    <2> DEFINE u == IF w = 0 THEN 0 ELSE w - 1
    <2>1. worker' = [worker EXCEPT ![i].flows = u]
      BY <1>d, Zenon DEF Uncount
    <2>2. u = w - 1
      BY <1>b, <1>d
    <2> HIDE DEF u
    <2> QED BY <2>1, <2>2, Zenon
  <1>e. ASSUME flow[c].pc \notin {"idle", "opening"}, DropState(c)
        PROVE  quicActive' = [quicActive EXCEPT ![P] = a - 1]
    <2> DEFINE u == IF a = 0 THEN 0 ELSE a - 1
    <2>1. quicActive' = [quicActive EXCEPT ![P] = u]
      BY <1>e, Zenon DEF DropState
    <2>2. u = a - 1
      BY <1>b, <1>e
    <2> HIDE DEF u
    <2> QED BY <2>1, <2>2, Zenon
  <1>4. CASE OpenBi(c)
    <2>1. flow[c].pc = "opening" /\ UNCHANGED <<quicSize, quicPass, current, flows>>
      BY <1>4, Zenon DEF OpenBi
    <2>2. CASE /\ worker[i].alive /\ worker' = [worker EXCEPT ![i].flows = @ + 1]
               /\ quicActive' = [quicActive EXCEPT ![worker[i].pass] = @ + 1]
               /\ SetFlow(c, [flow[c] EXCEPT !.pc = "header"])
      <3> DEFINE f == [flow[c] EXCEPT !.pc = "header"]
      <3>1. f \in Flow /\ f.pc = "header" /\ f.w = i
        BY <1>c, Zenon
      <3>2. flow' = [flow EXCEPT ![c] = f] /\ worker' = [worker EXCEPT ![i].flows = w + 1] /\ quicActive' = [quicActive EXCEPT ![P] = a + 1]
        BY <2>2, Zenon DEF SetFlow
      <3> HIDE DEF f, w, a
      <3>3. FlowMoves(c, i, f, w + 1, a + 1)
        BY <1>1, <1>b, <2>1, <3>1, <3>2 DEF One, FlowMoves, w, a
      <3> QED BY <1>b, <2>1, <3>3, QuicFlowMoves, Zenon
    <2>3. CASE SetFlow(c, NoFlow) /\ UNCHANGED <<worker, quicActive>>
      <3>1. FlowMoves(c, i, NoFlow, w, a)
        BY <1>1, <1>b, <2>1, <2>3, QuicNoFlow DEF One, FlowMoves, SetFlow
      <3> QED BY <1>b, <2>1, <3>1, QuicFlowMoves, Zenon
    <2> QED BY <1>4, <2>2, <2>3, Zenon DEF OpenBi
  <1>5. CASE Header(c)
    <2>1. flow[c].pc = "header" /\ UNCHANGED <<quicSize, quicPass, current, flows>>
      BY <1>5, Zenon DEF Header
    <2>2. CASE SetFlow(c, [flow[c] EXCEPT !.pc = "relay"]) /\ UNCHANGED <<worker, quicActive>>
      <3> DEFINE f == [flow[c] EXCEPT !.pc = "relay"]
      <3>1. f \in Flow /\ f.pc = "relay" /\ f.w = i
        BY <1>c, Zenon
      <3>2. flow' = [flow EXCEPT ![c] = f]
        BY <2>2, Zenon DEF SetFlow
      <3> HIDE DEF f
      <3>3. FlowMoves(c, i, f, w, a)
        BY <1>1, <1>b, <2>1, <2>2, <3>1, <3>2 DEF One, FlowMoves
      <3> QED BY <1>b, <2>1, <3>3, QuicFlowMoves, Zenon
    <2>3. CASE Uncount(flow[c].w) /\ DropState(c) /\ SetFlow(c, NoFlow)
      <3>1. worker' = [worker EXCEPT ![i].flows = w - 1]
        BY <1>d, <2>1, <2>3, Zenon
      <3>2. quicActive' = [quicActive EXCEPT ![P] = a - 1]
        BY <1>e, <2>1, <2>3, Zenon
      <3>3. FlowMoves(c, i, NoFlow, w - 1, a - 1)
        BY <1>1, <1>b, <2>1, <2>3, <3>1, <3>2, QuicNoFlow DEF One, FlowMoves, SetFlow
      <3> QED BY <1>b, <2>1, <3>3, QuicFlowMoves, Zenon
    <2> QED BY <1>5, <2>2, <2>3, Zenon DEF Header
  <1>6. CASE QuicRelayEnds(c)
    <2> DEFINE f == [flow[c] EXCEPT !.pc = "closing"]
    <2>1. flow[c].pc = "relay" /\ flow' = [flow EXCEPT ![c] = f] /\ UNCHANGED <<quicSize, quicPass, current, quicActive, flows>>
      BY <1>6, Zenon DEF QuicRelayEnds, SetFlow
    <2>2. worker' = [worker EXCEPT ![i].flows = w - 1]
      BY <1>6, <1>d, <2>1, Zenon DEF QuicRelayEnds
    <2>3. f \in Flow /\ f.pc = "closing" /\ f.w = i
      BY <1>c, Zenon
    <2> HIDE DEF f
    <2>4. FlowMoves(c, i, f, w - 1, a)
      BY <1>1, <1>b, <2>1, <2>2, <2>3 DEF One, FlowMoves
    <2> QED BY <1>b, <2>1, <2>4, QuicFlowMoves, Zenon
  <1>7. CASE DropStream(c)
    <2>1. flow[c].pc = "closing" /\ SetFlow(c, NoFlow) /\ UNCHANGED <<quicSize, quicPass, current, worker, flows>>
      BY <1>7, Zenon DEF DropStream
    <2>2. quicActive' = [quicActive EXCEPT ![P] = a - 1]
      BY <1>7, <1>e, <2>1, Zenon DEF DropStream
    <2>3. FlowMoves(c, i, NoFlow, w, a - 1)
      BY <1>1, <1>b, <2>1, <2>2, QuicNoFlow DEF One, FlowMoves, SetFlow
    <2> QED BY <1>b, <2>1, <2>3, QuicFlowMoves, Zenon
  <1> QED BY <1>3, <1>4, <1>5, <1>6, <1>7, Zenon

\* No worker, no flow.
LEMMA QuicInitially == QuicInit => QuicInv
  <1> SUFFICES ASSUME QuicInit PROVE QuicInv
    BY Zenon
  <1>1. /\ quicSize \in 1..MaxWorkers /\ quicPass = [n |-> 0, pc |-> "off"] /\ current = 0 /\ worker = <<>>
        /\ quicActive = [p \in 1..MaxWorkers |-> 0] /\ flow = [c \in QuicClients |-> NoFlow] /\ flows = 0
    BY Zenon DEF QuicInit
  <1>2. QuicShape /\ QuicSlot /\ QuicRoom /\ QuicFlows
    BY <1>1, QuicNoFlow, QuicAssumption DEF QuicShape, QuicSlot, QuicRoom, QuicFlows
  <1>3. Busy = {} /\ \A p : AtState(p) = {}
    BY <1>1, QuicNoFlow, Zenon DEF Busy, AtState
  <1>4. 1..Len(worker) = {} /\ \A p \in 1..MaxWorkers : quicActive[p] = 0
    BY <1>1
  <1>5. Cardinality(Busy) = 0 /\ \A p : Cardinality(AtState(p)) = 0
    BY <1>3, FS_EmptySet, Zenon
  <1>6. QuicExact
    BY <1>1, <1>4, <1>5 DEF QuicExact
  <1> QED BY <1>2, <1>6, Zenon DEF QuicInv

\* Every step of a pass, of a control loop and of a flow keeps the invariant.
LEMMA QuicSteps == QuicInv /\ [QuicNext]_quicVars => QuicInv'
  <1> SUFFICES ASSUME QuicInv, [QuicNext]_quicVars PROVE QuicInv'
    BY Zenon
  <1>1. CASE QuicConnect
    <2>1. quicPass.pc = "connect" /\ Cardinality(Pool(quicPass.n)) < quicSize /\ UNCHANGED <<quicSize, quicActive, flow, flows>>
      BY <1>1, Zenon DEF QuicConnect
    <2>2. CASE worker' = Append(worker, Connected(quicPass.n)) /\ UNCHANGED <<quicPass, current>>
      BY <2>1, <2>2, QuicJoins, Zenon
    <2>3. CASE quicPass' = [quicPass EXCEPT !.pc = "off"] /\ UNCHANGED <<worker, current>>
      <3>1. current = 0
        BY <2>1, Zenon DEF QuicInv, QuicSlot
      <3> QED BY <2>1, <2>3, <3>1, QuicPassMoves, Zenon
    <2>4. CASE quicPass' = [quicPass EXCEPT !.pc = "bind"] /\ current' = quicPass.n /\ UNCHANGED worker
      BY <2>1, <2>4, QuicPassMoves, Zenon
    <2> QED BY <1>1, <2>2, <2>3, <2>4, Zenon DEF QuicConnect
  <1>2. CASE QuicPublish
    BY <1>2, QuicPassMoves, Zenon DEF QuicPublish
  <1>3. CASE QuicBind
    <2>1. PICK q \in {"serve", "clear"} : quicPass' = [quicPass EXCEPT !.pc = q]
      BY <1>3, Zenon DEF QuicBind
    <2>2. quicPass.pc = "bind" /\ current = quicPass.n /\ UNCHANGED <<quicSize, current, worker, quicActive, flow, flows>>
      BY <1>3, Zenon DEF QuicBind, QuicInv, QuicSlot
    <2> QED BY <2>1, <2>2, QuicPassMoves, Zenon
  <1>4. CASE QuicServeEnds
    <2>1. quicPass.pc = "serve" /\ current = quicPass.n /\ UNCHANGED <<quicSize, current, worker, quicActive, flow, flows>>
      BY <1>4, Zenon DEF QuicServeEnds, QuicInv, QuicSlot
    <2> QED BY <1>4, <2>1, QuicPassMoves, Zenon DEF QuicServeEnds
  <1>5. CASE ClearCurrent
    <2>1. quicPass.pc = "clear" /\ current = quicPass.n /\ current' = 0
      BY <1>5, Zenon DEF ClearCurrent, QuicInv, QuicSlot
    <2> QED BY <1>5, <2>1, QuicPassMoves, Zenon DEF ClearCurrent
  <1>6. CASE UNCHANGED quicVars
    <2>1. UNCHANGED <<quicSize, quicPass, current, worker, quicActive, flow, flows>>
      BY <1>6, Zenon DEF quicVars
    <2>2. QuicShape' /\ QuicSlot' /\ QuicFlows'
      BY <2>1, Zenon DEF QuicInv, QuicShape, QuicSlot, QuicFlows
    <2>3. QuicRoom'
      BY <2>1, Zenon DEF QuicInv, QuicRoom, Pool
    <2>4. QuicExact'
      BY <2>1, Zenon DEF QuicInv, QuicExact, AtWorker, AtState, Busy, Pool
    <2> QED BY <2>2, <2>3, <2>4, Zenon DEF QuicInv
  <1> QED BY <1>1, <1>2, <1>3, <1>4, <1>5, <1>6, QuicBegins, QuicTick, QuicLoop, QuicFlowSteps, Zenon DEF QuicNext

\* What the invariant says in the terms of QuicPool.
LEMMA QuicEnough ==
  QuicInv => QuicTypeOK /\ FlowsExact /\ SilenceIsNoticed /\ DegradedHasCause /\ SlotShowsServing
  <1> SUFFICES ASSUME QuicInv PROVE QuicTypeOK /\ FlowsExact /\ SilenceIsNoticed /\ DegradedHasCause /\ SlotShowsServing
    BY Zenon
  <1>1. QuicTypeOK
    BY QuicAssumption DEF QuicInv, QuicShape, QuicSlot, QuicTypeOK
  <1>2. FlowsExact
    BY QuicWorkers, Zenon DEF QuicInv, QuicExact, FlowsExact, AtWorker, AtState
  <1>3. SilenceIsNoticed
    <2> SUFFICES ASSUME NEW i \in 1..Len(worker), worker[i].loop PROVE worker[i].quiet <= 4
      BY QuicWorkers, Zenon DEF SilenceIsNoticed
    <2>1. Watched(worker[i]) /\ worker[i].quiet \in 0..5 /\ worker[i].age \in 0..4
      BY QuicWorkers, Zenon DEF Worker
    <2> QED BY <2>1 DEF Watched
  <1>4. DegradedHasCause
    BY QuicWorkers, Zenon DEF DegradedHasCause, Watched
  <1>5. SlotShowsServing
    BY Zenon DEF QuicInv, QuicSlot, SlotShowsServing
  <1> QED BY <1>1, <1>2, <1>3, <1>4, <1>5, Zenon

\* While all the flows of a worker and the noise of its latency cost less than its being degraded.
FewFlows == QuicNoise \in Nat /\ MaxFlows * 10000 + QuicNoise < 1000000

\* A degraded worker costs more than any load within the bound and any noise.
LEMMA QuicPrefers ==
  ASSUME QuicInv, [QuicNext]_quicVars, FewFlows PROVE QuicPrefersHealthy
  <1> SUFFICES ASSUME NEW c \in QuicClients, flow[c].pc = "idle", flow'[c].pc = "opening", worker[flow'[c].w].degraded,
                      NEW j \in Pool(quicPass.n)
               PROVE  worker[j].degraded
    BY Zenon DEF QuicPrefersHealthy
  <1>1. flow \in [QuicClients -> Flow]
    BY Zenon DEF QuicInv, QuicShape
  <1>2. QuicAccept(c)
    <2>1. CASE UNCHANGED flow
      BY <2>1, Zenon
    <2>2. ASSUME NEW d \in QuicClients, NEW q \in {"header", "relay", "closing"}, SetFlow(d, [flow[d] EXCEPT !.pc = q]) PROVE FALSE
      <3> DEFINE f == [flow[d] EXCEPT !.pc = q]
      <3>1. f \in Flow /\ f.pc = q
        BY <1>1, Zenon DEF Flow
      <3>2. flow' = [flow EXCEPT ![d] = f]
        BY <2>2, Zenon DEF SetFlow
      <3> HIDE DEF f
      <3> QED BY <1>1, <3>1, <3>2, Zenon
    <2>a. ASSUME NEW d \in QuicClients, SetFlow(d, NoFlow) PROVE FALSE
      BY <1>1, <2>a, QuicNoFlow, Zenon DEF SetFlow
    <2>3. ASSUME NEW d \in QuicClients, OpenBi(d) PROVE FALSE
      BY <2>2, <2>3, <2>a, Zenon DEF OpenBi
    <2>4. ASSUME NEW d \in QuicClients, Header(d) PROVE FALSE
      BY <2>2, <2>4, <2>a, Zenon DEF Header
    <2>5. ASSUME NEW d \in QuicClients, QuicRelayEnds(d) PROVE FALSE
      BY <2>2, <2>5, Zenon DEF QuicRelayEnds
    <2>6. ASSUME NEW d \in QuicClients, DropStream(d) PROVE FALSE
      BY <2>6, <2>a, Zenon DEF DropStream
    <2>7. ASSUME NEW d \in QuicClients, d # c, QuicAccept(d) PROVE FALSE
      BY <1>1, <2>7, Zenon DEF QuicAccept, SetFlow
    <2>8. ASSUME NEW i, Tick(i) \/ PongArrives(i) \/ ReadFails(i) \/ ConnectionDies(i) PROVE UNCHANGED flow
      BY <2>8, Zenon DEF Tick, PongArrives, ReadFails, ConnectionDies, SetWorker
    <2> QED BY <2>1, <2>3, <2>4, <2>5, <2>6, <2>7, <2>8, Zenon
            DEF QuicNext, QuicBegin, QuicConnect, QuicPublish, QuicBind, QuicServeEnds, ClearCurrent, quicVars
  <1>3. PICK i \in QuicPreferred(quicPass.n) : SetFlow(c, [NoFlow EXCEPT !.pc = "opening", !.w = i])
    BY <1>2, Zenon DEF QuicAccept
  <1>4. flow'[c].w = i
    <2>1. [NoFlow EXCEPT !.pc = "opening", !.w = i].w = i
      BY Zenon DEF NoFlow
    <2> QED BY <1>1, <1>3, <2>1, Zenon DEF SetFlow
  <1>5. quic_worker_score(worker[i]) <= quic_worker_score(worker[j]) + QuicNoise /\ i \in Pool(quicPass.n)
    BY Zenon DEF QuicPreferred
  <1>6. i \in 1..Len(worker) /\ j \in 1..Len(worker)
    BY <1>5, QuicWorkers, Zenon DEF Pool
  <1>7. worker[i].flows \in 0..MaxFlows /\ worker[j].flows \in 0..MaxFlows /\ worker[j].degraded \in BOOLEAN
    BY <1>6, QuicWorkers, Zenon DEF Worker
  <1> QED BY <1>4, <1>5, <1>7, QuicAssumption, SMT DEF quic_worker_score, FewFlows
=============================================================================
