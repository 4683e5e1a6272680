--------------------------- MODULE RouteRegistry ---------------------------
(***************************************************************************)
(* The daemon's table of routes (node_daemon/routes.rs), its supervisor    *)
(* tasks and its store routes.json (node_daemon/routes/store.rs).          *)
(*                                                                         *)
(* Every control request runs in a task of its own, and the mutex around   *)
(* the table is released between the two checks of a start, while a        *)
(* stopped task is waited for, and between the snapshot of the table and   *)
(* the write of the file.  Each step below is one critical section.        *)
(* Routes are restored at start-up while requests are already accepted.    *)
(***************************************************************************)
EXTENDS RouteConflict, Naturals

CONSTANTS Ids,         \* route ids
          Clients,     \* requests that may be in progress at the same time
          Restorer,    \* the start-up step that restores routes.json
          Tasks,       \* handles of supervisor tasks (a bound on those alive)
          Requests,    \* what clients may ask route_start for
          SaveMayFail, \* whether a write of routes.json may fail
          MaxCrashes   \* a bound on the daemon's restarts

Procs   == Clients \cup {Restorer}
Request == [id : Ids, spec : RouteSpecs, persist : BOOLEAN]
Stored  == [id : Ids, spec : RouteSpecs]
Entry   == [id : Ids, spec : RouteSpecs, persist : BOOLEAN, task : Tasks]

ASSUME RequestsAssumption == Requests \subseteq Request /\ Requests # {}
ASSUME TasksAssumption    == Tasks # {}
ASSUME RestorerAssumption == Restorer \notin Clients
ASSUME BoundAssumption    == SaveMayFail \in BOOLEAN /\ MaxCrashes \in Nat

VARIABLES routes,   \* NodeManager.routes: the registered routes
          status,   \* of each task: "live", "aborted" or "finished"
          proc,     \* the request, or the restore, each process carries out
          todo,     \* the stored routes still to restore
          file,     \* routes.json
          crashes

vars == <<routes, status, proc, todo, file, crashes>>

PCs == {"idle", "check", "insert", "snapshot", "write", "stopping", "abort", "join",
        "read", "next"}
Ops == {"start", "stop", "restart", "restore"}

(* A process: its place, its operation, the route it is about, the task    *)
(* handle it took out of the table, the snapshot it is about to write.     *)
Proc == [pc : PCs, op : Ops, req : Request, task : Tasks, snap : SUBSET Stored]

AnyRequest == CHOOSE q \in Requests : TRUE
AnyTask    == CHOOSE t \in Tasks : TRUE

At(p, where) ==
  [pc |-> where, op |-> IF p = Restorer THEN "restore" ELSE "start",
   req |-> AnyRequest, task |-> AnyTask, snap |-> {}]

(* The request has been answered, or the restore goes on with the next one.*)
Done(p) == At(p, IF p = Restorer THEN "next" ELSE "idle")

TypeOK ==
  /\ routes \subseteq Entry
  /\ status \in [Tasks -> {"live", "aborted", "finished"}]
  /\ proc \in [Procs -> Proc]
  /\ todo \subseteq Stored
  /\ file \subseteq Stored
  /\ crashes \in Nat

Boot == [p \in Procs |-> At(p, IF p = Restorer THEN "read" ELSE "idle")]

Init ==
  /\ routes = {} /\ status = [t \in Tasks |-> "finished"]
  /\ proc = Boot /\ todo = {} /\ file = {} /\ crashes = 0

-----------------------------------------------------------------------------
(* The table after retain(|task| !task.handle.is_finished()).              *)
Live == {r \in routes : status[r.task] # "finished"}

Registered(id) == {r \in Live : r.id = id}

Owner(s) == {r \in Live : route_reserves_listener(r.spec, s)}

(* A process holds the handle of a task it has removed from the table.     *)
Holding(p) == proc[p].pc \in {"abort", "join", "stopping"}

(* A handle nobody refers to stands for a task yet to be spawned.          *)
Spawnable == {t \in Tasks : /\ status[t] = "finished"
                            /\ \A r \in Live : r.task # t
                            /\ \A p \in Procs : Holding(p) => proc[p].task # t}

(* After start_route_spec: a restore never saves, the others save when     *)
(* the table of persistent routes may have changed.                        *)
AfterStart(p, save) ==
  IF save /\ proc[p].op # "restore" THEN [proc[p] EXCEPT !.pc = "snapshot"] ELSE Done(p)

(* A slip: a reused route takes over the persistence of the new request.   *)
ReuseOverwrites(p) ==
  LET q == proc[p].req IN
  \E r \in Registered(q.id) :
    /\ route_matches(r.spec, q.spec)
    /\ routes' = (Live \ {r}) \cup {[r EXCEPT !.persist = q.persist]}
    /\ proc' = [proc EXCEPT ![p] = AfterStart(p, q.persist)]

(* The route is registered with the same specification: reuse its task.    *)
Reuse(p) ==
  LET q == proc[p].req IN
  \E r \in Registered(q.id) :
    /\ route_matches(r.spec, q.spec)
    /\ routes' = (Live \ {r}) \cup {[r EXCEPT !.persist = @ \/ q.persist]}
    /\ proc' = [proc EXCEPT ![p] =
         AfterStart(p, q.persist /\ (~r.persist \/ proc[p].op = "restart"))]

(* Refused: another specification under this id, a listener that is taken, *)
(* or, for a forward route, a port the operating system will not bind.     *)
Refuse(p) ==
  LET q == proc[p].req IN
  /\ \/ \E r \in Registered(q.id) : ~route_matches(r.spec, q.spec)
     \/ Registered(q.id) = {} /\ Owner(q.spec) # {}
     \/ Registered(q.id) = {} /\ q.spec.direction = "forward"
  /\ routes' = Live
  /\ proc' = [proc EXCEPT ![p] = Done(p)]

CanStart(p) == Registered(proc[p].req.id) = {} /\ Owner(proc[p].req.spec) = {}

(* First critical section of start_route_spec: nothing is registered yet.  *)
StartCheck(p) ==
  /\ proc[p].pc = "check"
  /\ \/ Reuse(p)
     \/ Refuse(p)
     \/ /\ CanStart(p)
        /\ routes' = Live
        /\ proc' = [proc EXCEPT ![p] = [@ EXCEPT !.pc = "insert"]]
  /\ UNCHANGED <<status, todo, file, crashes>>

Spawn(p) ==
  LET q == proc[p].req IN
  \E t \in Spawnable :
    /\ routes' = {r \in Live : r.id # q.id}
                 \cup {[id |-> q.id, spec |-> q.spec, persist |-> q.persist, task |-> t]}
    /\ status' = [status EXCEPT ![t] = "live"]
    /\ proc' = [proc EXCEPT ![p] = AfterStart(p, q.persist)]

(* A slip: the second critical section trusts the checks of the first.     *)
InsertUnchecked(p) == proc[p].pc = "insert" /\ Spawn(p) /\ UNCHANGED <<todo, file, crashes>>

(* A slip: the second critical section only looks for its own id.          *)
InsertIfIdFree(p) ==
  /\ proc[p].pc = "insert"
  /\ \/ Reuse(p) /\ UNCHANGED status
     \/ Refuse(p) /\ UNCHANGED status
     \/ Registered(proc[p].req.id) = {} /\ Spawn(p)
  /\ UNCHANGED <<todo, file, crashes>>

(* Second critical section: the same checks once more, then the supervisor *)
(* is spawned and the route is inserted.                                   *)
StartInsert(p) ==
  /\ proc[p].pc = "insert"
  /\ \/ Reuse(p) /\ UNCHANGED status
     \/ Refuse(p) /\ UNCHANGED status
     \/ CanStart(p) /\ Spawn(p)
  /\ UNCHANGED <<todo, file, crashes>>

-----------------------------------------------------------------------------
(* A client asks for a route.                                              *)
start_route(c) ==
  /\ proc[c].pc = "idle"
  /\ \E q \in Requests :
       proc' = [proc EXCEPT ![c] = [@ EXCEPT !.pc = "check", !.op = "start", !.req = q]]
  /\ UNCHANGED <<routes, status, todo, file, crashes>>

(* The handle of a task that may already have finished by itself.          *)
Aborted(t) == [status EXCEPT ![t] = IF @ = "live" THEN "aborted" ELSE @]

RequestOf(r) == [id |-> r.id, spec |-> r.spec, persist |-> r.persist]

(* stop_route removes the route and aborts its task in one critical        *)
(* section.  A route that is not in the table is an error without effect.  *)
stop_route(c) ==
  /\ proc[c].pc = "idle"
  /\ \E r \in routes :
       /\ routes' = routes \ {r}
       /\ status' = Aborted(r.task)
       /\ proc' = [proc EXCEPT ![c] = [@ EXCEPT !.pc = "stopping", !.op = "stop",
                                                !.req = RequestOf(r), !.task = r.task]]
  /\ UNCHANGED <<todo, file, crashes>>

(* The stopped task has finished, or two seconds have passed.              *)
StopWaited(c) ==
  /\ proc[c].pc = "stopping"
  /\ proc' = [proc EXCEPT ![c] = IF @.req.persist THEN [@ EXCEPT !.pc = "snapshot"]
                                 ELSE Done(c)]
  /\ UNCHANGED <<routes, status, todo, file, crashes>>

(* restart_route takes the route out of the table, then aborts its task,   *)
(* waits for it without a limit, and starts the same specification again.  *)
restart_route(c) ==
  /\ proc[c].pc = "idle"
  /\ \E r \in routes :
       /\ routes' = routes \ {r}
       /\ proc' = [proc EXCEPT ![c] = [@ EXCEPT !.pc = "abort", !.op = "restart",
                                                !.req = RequestOf(r), !.task = r.task]]
  /\ UNCHANGED <<status, todo, file, crashes>>

(* A slip: the task is waited for without having been aborted.             *)
RestartNoAbort(c) ==
  /\ proc[c].pc = "abort"
  /\ proc' = [proc EXCEPT ![c] = [@ EXCEPT !.pc = "join"]]
  /\ UNCHANGED <<routes, status, todo, file, crashes>>

RestartAbort(c) ==
  /\ proc[c].pc = "abort"
  /\ status' = Aborted(proc[c].task)
  /\ proc' = [proc EXCEPT ![c] = [@ EXCEPT !.pc = "join"]]
  /\ UNCHANGED <<routes, todo, file, crashes>>

RestartJoined(c) ==
  /\ proc[c].pc = "join"
  /\ status[proc[c].task] = "finished"
  /\ proc' = [proc EXCEPT ![c] = [@ EXCEPT !.pc = "check"]]
  /\ UNCHANGED <<routes, status, todo, file, crashes>>

(* A slip: the snapshot takes every route, the volatile ones included.     *)
SnapshotOfAll == {[id |-> r.id, spec |-> r.spec] : r \in routes}

PersistentRoutes == {[id |-> r.id, spec |-> r.spec] : r \in {e \in routes : e.persist}}

(* save_routes copies the persistent routes under the lock and writes the  *)
(* file after releasing it.                                                *)
SaveSnapshot(c) ==
  /\ proc[c].pc = "snapshot"
  /\ proc' = [proc EXCEPT ![c] = [@ EXCEPT !.pc = "write", !.snap = PersistentRoutes]]
  /\ UNCHANGED <<routes, status, todo, file, crashes>>

SaveWrite(c) ==
  /\ proc[c].pc = "write"
  /\ \/ file' = proc[c].snap
     \/ SaveMayFail /\ file' = file
  /\ proc' = [proc EXCEPT ![c] = Done(c)]
  /\ UNCHANGED <<routes, status, todo, crashes>>

-----------------------------------------------------------------------------
(* restore_routes reads the whole file once; an unreadable file restores   *)
(* nothing.  The routes are then started one by one.                       *)
RestoreRead ==
  /\ proc[Restorer].pc = "read"
  /\ todo' \in {file, {}}
  /\ proc' = [proc EXCEPT ![Restorer] = Done(Restorer)]
  /\ UNCHANGED <<routes, status, file, crashes>>

RestoreNext ==
  /\ proc[Restorer].pc = "next"
  /\ \E e \in todo :
       /\ todo' = todo \ {e}
       /\ proc' = [proc EXCEPT ![Restorer] = [@ EXCEPT !.pc = "check",
            !.req = [id |-> e.id, spec |-> e.spec, persist |-> TRUE]]]
  /\ UNCHANGED <<routes, status, file, crashes>>

(* A supervisor restarts its route forever; it ends when it is aborted, or *)
(* by a panic while its route is still registered.                         *)
TaskEnds(t) ==
  /\ status[t] = "aborted"
  /\ status' = [status EXCEPT ![t] = "finished"]
  /\ UNCHANGED <<routes, proc, todo, file, crashes>>

TaskPanics(t) ==
  /\ status[t] = "live"
  /\ status' = [status EXCEPT ![t] = "finished"]
  /\ UNCHANGED <<routes, proc, todo, file, crashes>>

(* The process dies and is started again: memory is lost, the file stays.  *)
Restart ==
  /\ crashes < MaxCrashes
  /\ crashes' = crashes + 1
  /\ routes' = {} /\ status' = [t \in Tasks |-> "finished"]
  /\ proc' = Boot /\ todo' = {}
  /\ UNCHANGED file

ClientStep(c) ==
  \/ StartCheck(c) \/ StartInsert(c)
  \/ StopWaited(c) \/ RestartAbort(c) \/ RestartJoined(c)
  \/ SaveSnapshot(c) \/ SaveWrite(c)

RestoreStep == RestoreRead \/ RestoreNext \/ StartCheck(Restorer) \/ StartInsert(Restorer)

Next ==
  \/ \E c \in Clients : start_route(c) \/ stop_route(c) \/ restart_route(c) \/ ClientStep(c)
  \/ RestoreStep
  \/ \E t \in Tasks : TaskEnds(t) \/ TaskPanics(t)
  \/ Restart

Spec == Init /\ [][Next]_vars

(* The runtime schedules every task that can take a step, an aborted task  *)
(* ends at its next suspension point, and the mutex is granted in order of *)
(* arrival (strong fairness: a free handle in Tasks may come and go).      *)
(* Nobody has to send requests, stop routes or crash.                      *)
Fairness ==
  /\ \A c \in Clients : WF_vars(ClientStep(c))
  /\ WF_vars(RestoreStep)
  /\ \A p \in Procs : SF_vars(StartInsert(p))
  /\ \A t \in Tasks : WF_vars(TaskEnds(t))

FairSpec == Spec /\ Fairness

-----------------------------------------------------------------------------
Exclusive(R) ==
  \A a, b \in R : /\ a.id = b.id => a = b
                  /\ a.id # b.id => ~route_reserves_listener(a.spec, b.spec)

(* No two registered routes share an id or a listener, although the table  *)
(* is unlocked between the checks of start_route_spec and its insertion.   *)
ListenerExclusive == Exclusive(routes)

(* The routes of routes.json do not exclude each other: whatever order     *)
(* restore_routes starts them in, none is refused because of another.      *)
FileExclusive == Exclusive(file)

(* Every supervisor that runs is answered for.  Exactly one registered     *)
(* route has its handle, or a restart_route took the handle out of the     *)
(* table and has yet to abort it.  (Dropping a tokio JoinHandle detaches   *)
(* the task: a supervisor whose handle is lost could never be stopped.)    *)
Supervised ==
  /\ \A t \in Tasks : status[t] = "live" =>
       \/ \E r \in routes : r.task = t
       \/ \E p \in Procs : proc[p].pc = "abort" /\ proc[p].task = t
  /\ \A r \in routes : /\ status[r.task] # "aborted"
                       /\ \A s \in routes : r.task = s.task => r = s
                       /\ \A p \in Procs : Holding(p) => proc[p].task # r.task

(* A route reaches routes.json only when some client asked for it to be    *)
(* persistent; the identity files of a reverse route may be other ones,    *)
(* since a reused route keeps the specification it was started with.       *)
AskedPersistent(e) ==
  \E q \in Requests : q.persist /\ q.id = e.id /\ route_specs_match_values(q.spec, e.spec)

NoVolatileStored == \A e \in file : AskedPersistent(e)

(* routes.json, written from a copy of the table that was taken before the *)
(* table was unlocked, can be restored as a whole and holds no route that  *)
(* was meant to last only as long as its session.                          *)
FileIsSound == TypeOK /\ FileExclusive /\ NoVolatileStored

(* Reusing a running route may make it persistent and never the reverse.   *)
PersistSticky ==
  [][\A r \in Live : \A s \in routes' :
       r.id = s.id /\ r.task = s.task /\ r.persist => s.persist]_vars

(* Start-up has come to the end of routes.json.                            *)
Restored == proc[Restorer].pc = "next" /\ todo = {}

(* Every request is answered: start, stop and restart all return, the      *)
(* unlimited wait of restart_route for its aborted task included, and      *)
(* start-up comes to the end of routes.json.                               *)
RequestsAnswered ==
  /\ \A c \in Clients : proc[c].pc # "idle" ~> proc[c].pc = "idle"
  /\ ~Restored ~> Restored

(* The table as its users see it.                                          *)
Table == INSTANCE RouteTable WITH table <- {RequestOf(r) : r \in routes}

(* Every step of the registry is a step of the one-at-a-time route table,  *)
(* or does not change it.                                                  *)
ImplementsTable == Table!Spec

=============================================================================
