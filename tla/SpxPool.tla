------------------------------ MODULE SpxPool ------------------------------
(***************************************************************************)
(* The SPX data plane of a forward route: run_with_state with the pool of  *)
(* bridges that its manager keeps connected (controller.rs, runner.rs,     *)
(* bridge_manager.rs) and the clients that open tunnels through the pool   *)
(* (open_tunnel of socks.rs).  The supervisor of the route calls           *)
(* run_with_state again with the same SharedState when it returns; the     *)
(* workers of the earlier pass are not stopped by its return.  A bridge is *)
(* the generation number it was given, 0 is none.                          *)
(***************************************************************************)
EXTENDS Naturals, FiniteSets

CONSTANTS Clients,
          MaxSlots,      \* largest transport_pool_size
          MaxConnects,   \* attempts to connect that end
          MaxLoad        \* worker tasks, over all passes of the supervisor, and tunnels together

ASSUME PoolBounds == {MaxSlots, MaxConnects, MaxLoad} \subseteq Nat /\ IsFiniteSet(Clients)

Slots  == 1..MaxSlots
Passes == 1..MaxLoad
Gens   == 1..MaxConnects

VARIABLES
  size, reconnect,   \* transport_pool_size and !no_reconnect of the route
  pass, runner,      \* passes begun by the supervisor, and where the current one is
  sd,                \* request_shutdown: "no", "stored", "woke", "done"
  slot,              \* bridge_slots: the bridge a slot offers
  connected,         \* of bridge_workers
  active,            \* active_streams of bridge_worker_counters
  generation, failed,
  task,              \* run_worker, by pass and slot
  up,                \* bridges whose lifecycle has not ended
  client, opens,     \* the tunnels of clients
  missed, leaked     \* history: a bridge published in the gap before a client registered;
                     \* streams counted at a slot whose end will not be counted

pool    == <<slot, connected, active, generation, failed>>
tunnels == <<client, opens>>
past    == <<missed, leaked>>
vars    == <<size, reconnect, pass, runner, sd, pool, task, up, tunnels, past>>

TaskPCs   == {"none", "connect", "publish", "arm", "gap", "live",
              "withdraw", "clear", "backoff", "done"}
ClientPCs == {"idle", "look", "gap", "armed", "loaded", "wait", "open", "reply", "relay"}

TypeOK ==
  /\ size \in Slots /\ reconnect \in BOOLEAN /\ pass \in 0..MaxLoad
  /\ runner \in {"returned", "initial", "bind", "serving"} /\ sd \in {"no", "stored", "woke", "done"}
  /\ slot \in [Slots -> Gens \cup {0}] /\ generation \in 0..MaxConnects /\ failed \in 0..MaxConnects
  /\ connected \in [Slots -> BOOLEAN]
  /\ active \in [Slots -> 0..MaxLoad] /\ leaked \in [Slots -> 0..MaxLoad]
  /\ task \in [Passes \X Slots -> [pc : TaskPCs, gen : Gens \cup {0}]] /\ up \subseteq Gens
  /\ client \in [Clients -> [pc : ClientPCs, slot : Slots \cup {0}, gen : Gens \cup {0}]]
  /\ opens \in 0..MaxLoad /\ missed \subseteq Clients

Off == [pc |-> "idle", slot |-> 0, gen |-> 0]

Init ==
  /\ size \in Slots /\ reconnect \in BOOLEAN
  /\ pass = 0 /\ runner = "returned" /\ sd = "no"
  /\ slot = [s \in Slots |-> 0] /\ connected = [s \in Slots |-> FALSE]
  /\ active = [s \in Slots |-> 0] /\ generation = 0 /\ failed = 0
  /\ task = [t \in Passes \X Slots |-> [pc |-> "none", gen |-> 0]] /\ up = {}
  /\ client = [c \in Clients |-> Off] /\ opens = 0
  /\ missed = {} /\ leaked = [s \in Slots |-> 0]

Stopping      == sd # "no"
Top           == IF Stopping THEN "done" ELSE "connect"   \* of the loop of run_worker
Goto(t, p)    == task' = [task EXCEPT ![t].pc = p]
Step(c, p)    == client' = [client EXCEPT ![c].pc = p]
Count(s, n)   == active' = [active EXCEPT ![s] = n]
ActiveBridges == {s \in Slots : slot[s] # 0}

(* notify_waiters of `notify`: who registered looks again; who is between  *)
(* its look and its registration is not told.                              *)
Registered       == {"armed", "loaded", "wait"}
Awake(cs)        == [c \in Clients |-> IF c \in cs THEN [client[c] EXCEPT !.pc = "look"] ELSE client[c]]
NotifyWaiters    == client' = Awake({c \in Clients : client[c].pc \in Registered})
InGap            == {c \in Clients : client[c].pc = "gap"}

-----------------------------------------------------------------------------
(* run_with_state.  Only the supervisor of the daemon calls it again, and   *)
(* the routes of the daemon have no control listener to shut them down.     *)
Begin ==
  /\ runner = "returned" /\ sd = "no" /\ opens + (pass + 1) * size <= MaxLoad
  /\ pass' = pass + 1
  /\ task' = [t \in Passes \X Slots |->
                IF t[1] = pass + 1 /\ t[2] <= size THEN [pc |-> Top, gen |-> 0] ELSE task[t]]
  /\ runner' = IF reconnect THEN "bind" ELSE "initial"
  /\ UNCHANGED <<size, reconnect, sd, pool, up, tunnels, past>>

(* wait_for_initial_bridge: the timeout bounds what the notifications miss. *)
InitialBridge ==
  /\ runner = "initial"
  /\ \/ ActiveBridges # {} /\ runner' = "bind"
     \/ ActiveBridges = {} /\ failed >= size /\ runner' = "returned"
     \/ ActiveBridges = {} /\ Stopping /\ runner' = "returned"
     \/ runner' = "returned"        \* timed out
  /\ UNCHANGED <<size, reconnect, pass, sd, pool, task, up, tunnels, past>>

Bind ==
  /\ runner = "bind" /\ runner' \in {"serving", "returned"}
  /\ UNCHANGED <<size, reconnect, pass, sd, pool, task, up, tunnels, past>>

(* The accept loop ends on a failed accept or on shutdown. *)
ServeEnds ==
  /\ runner = "serving" /\ runner' = "returned"
  /\ UNCHANGED <<size, reconnect, pass, sd, pool, task, up, tunnels, past>>

-----------------------------------------------------------------------------
(* run_worker.  A step ends where another task can run and could tell.     *)
(* record_bridge_failed; refused, or timed out. *)
ConnectFails(t) ==
  /\ task[t].pc = "connect" /\ generation + failed < MaxConnects
  /\ failed' = failed + 1 /\ Goto(t, "clear")
  /\ connected' = [connected EXCEPT ![t[2]] = FALSE]
  /\ Count(t[2], 0) /\ leaked' = [leaked EXCEPT ![t[2]] = 0]
  /\ UNCHANGED <<size, reconnect, pass, runner, sd, slot, generation, up, tunnels, missed>>

(* The generation and record_bridge_connected; nobody reads between them.  *)
ConnectOk(t) ==
  /\ task[t].pc = "connect" /\ generation + failed < MaxConnects
  /\ generation' = generation + 1 /\ up' = up \cup {generation + 1}
  /\ task' = [task EXCEPT ![t] = [pc |-> "publish", gen |-> generation + 1]]
  /\ connected' = [connected EXCEPT ![t[2]] = TRUE]
  /\ Count(t[2], 0) /\ leaked' = [leaked EXCEPT ![t[2]] = 0]
  /\ UNCHANGED <<size, reconnect, pass, runner, sd, slot, failed, tunnels, missed>>

\* A slip: set_bridge does not tell those who wait.
PublishSilently(t) ==
  /\ task[t].pc = "publish" /\ Goto(t, "arm")
  /\ slot' = [slot EXCEPT ![t[2]] = task[t].gen] /\ missed' = missed \cup InGap
  /\ UNCHANGED <<size, reconnect, pass, runner, sd, connected, active, generation, failed, up, tunnels, leaked>>

(* set_bridge(Some). *)
Publish(t) ==
  /\ task[t].pc = "publish" /\ Goto(t, "arm")
  /\ slot' = [slot EXCEPT ![t[2]] = task[t].gen] /\ NotifyWaiters /\ missed' = missed \cup InGap
  /\ UNCHANGED <<size, reconnect, pass, runner, sd, connected, active, generation, failed, up, opens, leaked>>

(* select! of the bridge's lifecycle and shutdown_notified, which reads    *)
(* the flag before it registers.                                           *)
Watch(t) ==
  /\ \/ task[t].pc = "arm" /\ Goto(t, IF Stopping THEN "withdraw" ELSE "gap")
     \/ task[t].pc = "gap" /\ Goto(t, "live")
  /\ UNCHANGED <<size, reconnect, pass, runner, sd, pool, up, tunnels, past>>

LinkEnds(g) ==
  /\ g \in up /\ up' = up \ {g}
  /\ UNCHANGED <<size, reconnect, pass, runner, sd, pool, task, tunnels, past>>

Notice(t) ==
  /\ task[t].pc = "live" /\ task[t].gen \notin up /\ Goto(t, "withdraw")
  /\ UNCHANGED <<size, reconnect, pass, runner, sd, pool, up, tunnels, past>>

(* record_bridge_disconnected. *)
RecordDisconnected(t) ==
  /\ task[t].pc = "withdraw" /\ Goto(t, "clear")
  /\ connected' = [connected EXCEPT ![t[2]] = FALSE]
  /\ Count(t[2], 0) /\ leaked' = [leaked EXCEPT ![t[2]] = 0]
  /\ UNCHANGED <<size, reconnect, pass, runner, sd, slot, generation, failed, up, tunnels, missed>>

\* A slip: a worker that stops for good leaves its bridge in the slot.
ClearUnlessDone(t) ==
  /\ task[t].pc = "clear"
  /\ slot' = [slot EXCEPT ![t[2]] = IF reconnect THEN 0 ELSE slot[t[2]]]
  /\ task' = [task EXCEPT ![t] = [pc |-> IF reconnect THEN "backoff" ELSE "done", gen |-> 0]]
  /\ NotifyWaiters /\ missed' = missed
  /\ UNCHANGED <<size, reconnect, pass, runner, sd, connected, active, generation, failed, up, opens, leaked>>

(* set_bridge(None); without reconnect the worker ends, and with it the    *)
(* bridge that it owns.                                                    *)
Clear(t) ==
  /\ task[t].pc = "clear" /\ slot' = [slot EXCEPT ![t[2]] = 0]
  /\ task' = [task EXCEPT ![t] = [pc |-> IF reconnect THEN "backoff" ELSE "done", gen |-> 0]]
  /\ NotifyWaiters
  /\ UNCHANGED <<size, reconnect, pass, runner, sd, connected, active, generation, failed, up, opens, past>>

(* The sleep ends, or the shutdown is noticed during it. *)
Backoff(t) ==
  /\ task[t].pc = "backoff" /\ Goto(t, Top)
  /\ UNCHANGED <<size, reconnect, pass, runner, sd, pool, up, tunnels, past>>

-----------------------------------------------------------------------------
(* request_shutdown: the flag, then shutdown_notify, then notify.  Its one  *)
(* caller is the control listener of a stand-alone proxy.                   *)
ShutdownStore ==
  /\ sd = "no" /\ pass = 1 /\ runner \in {"bind", "serving"} /\ sd' = "stored"
  /\ UNCHANGED <<size, reconnect, pass, runner, pool, task, up, tunnels, past>>

(* A client that waits for both leaves with an error; a worker withdraws.  *)
ShutdownWake ==
  /\ sd = "stored" /\ sd' = "woke"
  /\ client' = [c \in Clients |-> IF client[c].pc = "wait" THEN Off ELSE client[c]]
  /\ task' = [t \in Passes \X Slots |->
                IF task[t].pc = "live" THEN [task[t] EXCEPT !.pc = "withdraw"] ELSE task[t]]
  /\ UNCHANGED <<size, reconnect, pass, runner, pool, up, opens, past>>

\* A slip: only shutdown_notify is told.
ShutdownNotifyOnce ==
  /\ sd = "woke" /\ sd' = "done"
  /\ UNCHANGED <<size, reconnect, pass, runner, pool, task, up, tunnels, past>>

ShutdownNotify ==
  /\ sd = "woke" /\ sd' = "done" /\ NotifyWaiters
  /\ UNCHANGED <<size, reconnect, pass, runner, pool, task, up, opens, past>>

-----------------------------------------------------------------------------
(* open_tunnel.                                                            *)
Available  == {s \in Slots : slot[s] # 0 /\ connected[s]}
LeastBusy  == {s \in Available : \A r \in Available : active[s] <= active[r]}

Accept(c) ==
  /\ runner = "serving" /\ client[c].pc = "idle" /\ opens + pass * size < MaxLoad
  /\ opens' = opens + 1 /\ Step(c, "look")
  /\ UNCHANGED <<size, reconnect, pass, runner, sd, pool, task, up, past>>

(* bridge(): a look under the locks; next_bridge rotates among the least   *)
(* busy slots, here any of them.                                           *)
Look(c) ==
  /\ client[c].pc = "look" /\ missed' = missed \ {c}
  /\ \/ \E s \in LeastBusy : client' = [client EXCEPT ![c] = [pc |-> "open", slot |-> s, gen |-> slot[s]]]
     \/ /\ Available = {}
        /\ client' = [client EXCEPT ![c] = IF reconnect THEN [Off EXCEPT !.pc = "gap"] ELSE Off]
  /\ UNCHANGED <<size, reconnect, pass, runner, sd, pool, task, up, opens, leaked>>

(* select! of notified(), registered first, and shutdown_notified. *)
Await(c) ==
  /\ \/ client[c].pc = "gap" /\ Step(c, "armed")
     \/ client[c].pc = "armed" /\ (IF Stopping THEN client' = [client EXCEPT ![c] = Off] ELSE Step(c, "loaded"))
     \/ client[c].pc = "loaded" /\ Step(c, "wait")
  /\ UNCHANGED <<size, reconnect, pass, runner, sd, pool, task, up, opens, past>>

(* open_tcp through the chosen bridge; counted at the slot, whatever       *)
(* bridge the slot has by then.                                            *)
Open(c) ==
  /\ client[c].pc = "open"
  /\ \/ client' = [client EXCEPT ![c] = Off] /\ UNCHANGED active
     \/ client[c].gen \in up /\ Step(c, "reply") /\ Count(client[c].slot, active[client[c].slot] + 1)
  /\ UNCHANGED <<size, reconnect, pass, runner, sd, slot, connected, generation, failed, task, up, opens, past>>

(* The reply to the client; when it fails the function returns at once. *)
Reply(c) ==
  /\ client[c].pc = "reply"
  /\ \/ Step(c, "relay") /\ UNCHANGED leaked
     \/ client' = [client EXCEPT ![c] = Off] /\ leaked' = [leaked EXCEPT ![client[c].slot] = @ + 1]
  /\ UNCHANGED <<size, reconnect, pass, runner, sd, pool, task, up, opens, missed>>

RelayEnds(c) ==
  /\ client[c].pc = "relay" /\ client' = [client EXCEPT ![c] = Off]
  /\ LET s == client[c].slot IN Count(s, IF active[s] = 0 THEN 0 ELSE active[s] - 1)
  /\ UNCHANGED <<size, reconnect, pass, runner, sd, slot, connected, generation, failed, task, up, opens, past>>

-----------------------------------------------------------------------------
(* The status report (status_value).  A worker that is not connected after *)
(* its first attempt is reconnecting or degraded.                          *)
health_state(s) ==
  CASE connected[s] -> "connected"
    [] ~connected[s] /\ (\E p \in Passes : task[p, s].pc # "none") -> "unavailable"
    [] OTHER -> "idle"

Workers(h) == {s \in Slots : health_state(s) = h}

pool_degraded_reason ==
  CASE Workers("unavailable") = {} -> "none"
    [] Workers("unavailable") # {} /\ Workers("connected") = {} -> "all_workers_unavailable"
    [] OTHER -> "partial_pool_degraded"

control_health ==
  CASE ActiveBridges # {} /\ pool_degraded_reason = "none" -> "healthy"
    [] ActiveBridges # {} /\ pool_degraded_reason # "none" -> "degraded"
    [] ActiveBridges = {} /\ reconnect -> "reconnecting"
    [] OTHER -> "disconnected"

-----------------------------------------------------------------------------
Manage(t) == \/ ConnectOk(t) \/ ConnectFails(t) \/ Publish(t)
             \/ Watch(t) \/ Notice(t) \/ RecordDisconnected(t) \/ Clear(t) \/ Backoff(t)
Tunnel(c) == Look(c) \/ Await(c) \/ Open(c) \/ Reply(c)
Runner    == Begin \/ InitialBridge \/ Bind \/ ServeEnds
Shutdown  == ShutdownStore \/ ShutdownWake \/ ShutdownNotify

Next ==
  \/ Runner \/ Shutdown
  \/ \E t \in Passes \X Slots : Manage(t)
  \/ \E g \in Gens : LinkEnds(g)
  \/ \E c \in Clients : Accept(c) \/ Tunnel(c) \/ RelayEnds(c)

Spec == Init /\ [][Next]_vars

-----------------------------------------------------------------------------
Watching(t) == task[t].pc \in {"arm", "gap", "live", "withdraw", "clear"}

(* With the workers of one pass, a client that waits although a bridge is  *)
(* offered has missed that bridge between its look and its registration;   *)
(* there is no other way to be left waiting: bridge() and the order of     *)
(* record_bridge_connected and set_bridge.                                 *)
OnlyTheGapStrands ==
  pass = 1 /\ Available # {} => \A c \in Clients : client[c].pc = "wait" => c \in missed

(* The stream count by which a slot is chosen exceeds the streams of the   *)
(* slot by no more than the failed replies since the count was last reset. *)
CountIsBounded ==
  \A s \in Slots :
    active[s] <= leaked[s] + Cardinality({c \in Clients : client[c].pc \in {"reply", "relay"} /\ client[c].slot = s})

(* Whatever bridge a slot offers, a worker of some pass watches it and     *)
(* will withdraw it; passes overlap on one SharedState.                    *)
OfferIsWatched ==
  \A s \in Slots : slot[s] # 0 => \E p \in Passes : task[p, s].gen = slot[s] /\ Watching(<<p, s>>)

(* In the first pass a worker's living bridge is offered as long as the    *)
(* worker waits for its end.  A later pass loses this: a worker of an      *)
(* earlier pass clears the slot that it shares.                            *)
LiveIsOffered ==
  pass = 1 => \A s \in Slots : task[1, s].pc \in {"arm", "gap", "live"} =>
                slot[s] = task[1, s].gen /\ connected[s]

(* Once a shutdown has told everybody, no client waits in bridge(): the    *)
(* flag and the second notification leave no gap for a client.             *)
ShutdownFreesClients == sd = "done" => \A c \in Clients : client[c].pc \notin {"loaded", "wait"}

(* A route that reports a healthy link has a bridge for the next client,   *)
(* whatever its workers are in the middle of: status_value and bridge()    *)
(* read the slots and the workers at different times in their changes.     *)
HealthyServes == control_health = "healthy" => Available # {}
=============================================================================
