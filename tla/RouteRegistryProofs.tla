------------------------ MODULE RouteRegistryProofs ------------------------
(***************************************************************************)
(* Proofs about RouteRegistry for any sets of ids, clients, tasks and      *)
(* requests and any number of crashes.                                     *)
(*                                                                         *)
(* ListenerExclusive and Supervised are inductive with the type invariant. *)
(* FileExclusive needs the snapshots of saves in progress to be exclusive, *)
(* NoVolatileStored needs every persistent route, snapshot, stored route   *)
(* and pending request to have been asked for.                             *)
(***************************************************************************)
EXTENDS RouteRegistry, TLAPS

SnapExclusive == \A p \in Procs : Exclusive(proc[p].snap)

Asked ==
  /\ \A r \in routes : r.persist => AskedPersistent(r)
  /\ \A e \in file \cup todo : AskedPersistent(e)
  /\ \A p \in Procs : /\ proc[p].req.persist => AskedPersistent(proc[p].req)
                      /\ \A e \in proc[p].snap : AskedPersistent(e)

-----------------------------------------------------------------------------
(* The defaults of an idle process are of the right type.                  *)
LEMMA Defaults == AnyRequest \in Requests /\ AnyRequest \in Request /\ AnyTask \in Tasks
  BY RequestsAssumption, TasksAssumption DEF AnyRequest, AnyTask

(* A process record is typed wherever the process is.                      *)
LEMMA AtType == \A p \in Procs, w \in PCs : At(p, w) \in Proc
  BY Defaults DEF At, Proc, Ops

(* A process whose request has been answered is typed.                     *)
LEMMA DoneType == \A p \in Procs : Done(p) \in Proc
  BY AtType DEF Done, PCs

(* After a start of the daemon every process is typed.                     *)
LEMMA BootType == Boot \in [Procs -> Proc]
  BY AtType DEF Boot, PCs

(* A process that leaves start_route_spec is typed.                        *)
LEMMA AfterStartType ==
  ASSUME TypeOK, NEW p \in Procs, NEW save \in BOOLEAN
  PROVE  AfterStart(p, save) \in Proc
  BY DoneType DEF AfterStart, TypeOK, Proc, PCs

(* The table is typed after each of the three outcomes of a start.         *)
LEMMA ReuseType ==
  ASSUME TypeOK, NEW p \in Procs, Reuse(p)
  PROVE  routes' \subseteq Entry /\ proc' \in [Procs -> Proc]
<1> DEFINE q == proc[p].req
<1>1. PICK r \in Registered(q.id) :
        /\ routes' = (Live \ {r}) \cup {[r EXCEPT !.persist = @ \/ q.persist]}
        /\ proc' = [proc EXCEPT ![p] =
             AfterStart(p, q.persist /\ (~r.persist \/ proc[p].op = "restart"))]
  BY Zenon DEF Reuse
<1>2. q \in Request /\ r \in Entry
  BY DEF TypeOK, Proc, Registered, Live
<1>3. [r EXCEPT !.persist = @ \/ q.persist] \in Entry
  BY <1>2 DEF Entry, Request
<1>4. routes' \subseteq Entry
  BY <1>1, <1>3 DEF TypeOK, Live
<1>5. (q.persist /\ (~r.persist \/ proc[p].op = "restart")) \in BOOLEAN
  OBVIOUS
<1>6. AfterStart(p, q.persist /\ (~r.persist \/ proc[p].op = "restart")) \in Proc
  BY <1>5, AfterStartType, Zenon
<1> QED BY <1>1, <1>4, <1>6 DEF TypeOK

(* A refused start leaves table and processes typed.                       *)
LEMMA RefuseType ==
  ASSUME TypeOK, NEW p \in Procs, Refuse(p)
  PROVE  routes' \subseteq Entry /\ proc' \in [Procs -> Proc]
  BY DoneType DEF TypeOK, Refuse, Live

(* A started route is a typed entry of the table.                          *)
LEMMA SpawnType ==
  ASSUME TypeOK, NEW p \in Procs, Spawn(p)
  PROVE  /\ routes' \subseteq Entry /\ proc' \in [Procs -> Proc]
         /\ status' \in [Tasks -> {"live", "aborted", "finished"}]
<1> DEFINE q == proc[p].req
<1>1. PICK t \in Spawnable :
        /\ routes' = {r \in Live : r.id # q.id}
             \cup {[id |-> q.id, spec |-> q.spec, persist |-> q.persist, task |-> t]}
        /\ status' = [status EXCEPT ![t] = "live"]
        /\ proc' = [proc EXCEPT ![p] = AfterStart(p, q.persist)]
  BY Zenon DEF Spawn
<1>2. q \in Request /\ t \in Tasks
  BY DEF TypeOK, Proc, Spawnable
<1>3. AfterStart(p, q.persist) \in Proc
  BY <1>2, AfterStartType DEF Request
<1> QED BY <1>1, <1>2, <1>3 DEF TypeOK, Live, Entry, Request

(* What restart_route starts again is a typed request.                     *)
LEMMA RequestOfType == ASSUME NEW r \in Entry PROVE RequestOf(r) \in Request
  BY DEF RequestOf, Entry, Request

(* Aborting a task leaves every task with a status.                        *)
LEMMA AbortedType ==
  ASSUME TypeOK, NEW t \in Tasks
  PROVE  Aborted(t) \in [Tasks -> {"live", "aborted", "finished"}]
  BY DEF Aborted, TypeOK

(* The snapshot that save_routes takes is a typed file.                    *)
LEMMA PersistentType == ASSUME TypeOK PROVE PersistentRoutes \subseteq Stored
  BY DEF PersistentRoutes, TypeOK, Entry, Stored

-----------------------------------------------------------------------------
(* Every step keeps the variables in their types.                          *)
LEMMA TypeStep == TypeOK /\ [Next]_vars => TypeOK'
<1> SUFFICES ASSUME TypeOK, [Next]_vars PROVE TypeOK'
  OBVIOUS
<1> USE DEF Procs
<1>1. ASSUME NEW p \in Procs, StartCheck(p) PROVE TypeOK'
  <2>1. CASE Reuse(p)
    BY <1>1, <2>1, ReuseType DEF StartCheck, TypeOK
  <2>2. CASE Refuse(p)
    BY <1>1, <2>2, RefuseType DEF StartCheck, TypeOK
  <2>3. CASE routes' = Live /\ proc' = [proc EXCEPT ![p] = [@ EXCEPT !.pc = "insert"]]
    BY <1>1, <2>3 DEF StartCheck, TypeOK, Live, Proc, PCs
  <2> QED BY <1>1, <2>1, <2>2, <2>3 DEF StartCheck
<1>2. ASSUME NEW p \in Procs, StartInsert(p) PROVE TypeOK'
  <2>1. CASE Reuse(p) /\ UNCHANGED status
    BY <1>2, <2>1, ReuseType DEF StartInsert, TypeOK
  <2>2. CASE Refuse(p) /\ UNCHANGED status
    BY <1>2, <2>2, RefuseType DEF StartInsert, TypeOK
  <2>3. CASE Spawn(p)
    BY <1>2, <2>3, SpawnType DEF StartInsert, TypeOK
  <2> QED BY <1>2, <2>1, <2>2, <2>3 DEF StartInsert
<1>3. ASSUME NEW c \in Clients, start_route(c) PROVE TypeOK'
  <2>1. PICK q \in Requests :
          proc' = [proc EXCEPT ![c] = [@ EXCEPT !.pc = "check", !.op = "start", !.req = q]]
    BY <1>3, Zenon DEF start_route
  <2>2. q \in Request
    BY RequestsAssumption
  <2>3. proc' \in [Procs -> Proc]
    BY <2>1, <2>2, ZenonT(30) DEF TypeOK, Proc, PCs, Ops
  <2> QED BY <1>3, <2>3 DEF start_route, TypeOK
<1>4. ASSUME NEW c \in Clients, stop_route(c) PROVE TypeOK'
  <2>1. PICK r \in routes : /\ routes' = routes \ {r} /\ status' = Aborted(r.task)
                            /\ proc' = [proc EXCEPT ![c] = [@ EXCEPT !.pc = "stopping", !.op = "stop",
                                 !.req = RequestOf(r), !.task = r.task]]
    BY <1>4, Zenon DEF stop_route
  <2>2. r \in Entry /\ r.task \in Tasks /\ RequestOf(r) \in Request
    BY RequestOfType DEF TypeOK, Entry
  <2>3. status' \in [Tasks -> {"live", "aborted", "finished"}]
    BY <2>1, <2>2, AbortedType
  <2>4. proc' \in [Procs -> Proc]
    BY <2>1, <2>2, Zenon DEF TypeOK, Proc, PCs, Ops
  <2> QED BY <1>4, <2>1, <2>3, <2>4 DEF stop_route, TypeOK
<1>5. ASSUME NEW c \in Clients, restart_route(c) PROVE TypeOK'
  <2>1. PICK r \in routes : /\ routes' = routes \ {r}
                            /\ proc' = [proc EXCEPT ![c] = [@ EXCEPT !.pc = "abort", !.op = "restart",
                                 !.req = RequestOf(r), !.task = r.task]]
    BY <1>5, Zenon DEF restart_route
  <2>2. r \in Entry /\ r.task \in Tasks /\ RequestOf(r) \in Request
    BY RequestOfType DEF TypeOK, Entry
  <2>3. proc' \in [Procs -> Proc]
    BY <2>1, <2>2, ZenonT(30) DEF TypeOK, Proc, PCs, Ops
  <2> QED BY <1>5, <2>1, <2>3 DEF restart_route, TypeOK
<1>6. ASSUME NEW c \in Clients, StopWaited(c) PROVE TypeOK'
  BY <1>6, DoneType DEF StopWaited, TypeOK, Proc, PCs
<1>7. ASSUME NEW c \in Clients, RestartAbort(c) PROVE TypeOK'
  BY <1>7, AbortedType, Zenon DEF RestartAbort, TypeOK, Proc, PCs
<1>8. ASSUME NEW c \in Clients, RestartJoined(c) PROVE TypeOK'
  BY <1>8 DEF RestartJoined, TypeOK, Proc, PCs
<1>9. ASSUME NEW c \in Clients, SaveSnapshot(c) PROVE TypeOK'
  BY <1>9, PersistentType, Zenon DEF SaveSnapshot, TypeOK, Proc, PCs
<1>10. ASSUME NEW c \in Clients, SaveWrite(c) PROVE TypeOK'
  BY <1>10, DoneType DEF SaveWrite, TypeOK, Proc
<1>11. CASE RestoreRead
  BY <1>11, DoneType DEF RestoreRead, TypeOK
<1>12. CASE RestoreNext
  <2>1. PICK e \in todo :
          /\ todo' = todo \ {e}
          /\ proc' = [proc EXCEPT ![Restorer] = [@ EXCEPT !.pc = "check",
               !.req = [id |-> e.id, spec |-> e.spec, persist |-> TRUE]]]
    BY <1>12, Zenon DEF RestoreNext
  <2>2. [id |-> e.id, spec |-> e.spec, persist |-> TRUE] \in Request
    BY DEF TypeOK, Stored, Request
  <2>3. proc' \in [Procs -> Proc]
    BY <2>1, <2>2, ZenonT(30) DEF TypeOK, Proc, PCs
  <2> QED BY <1>12, <2>1, <2>3 DEF RestoreNext, TypeOK
<1>13. ASSUME NEW t \in Tasks, TaskEnds(t) \/ TaskPanics(t) PROVE TypeOK'
  BY <1>13 DEF TaskEnds, TaskPanics, TypeOK
<1>14. CASE Restart
  BY <1>14, BootType DEF Restart, TypeOK
<1>15. CASE UNCHANGED vars
  BY <1>15 DEF vars, TypeOK
<1> QED
  BY <1>1, <1>2, <1>3, <1>4, <1>5, <1>6, <1>7, <1>8, <1>9, <1>10, <1>11, <1>12, <1>13,
     <1>14, <1>15 DEF Next, ClientStep, RestoreStep

(* The type invariant: every variable of the registry keeps its type.      *)
THEOREM TypeCorrect == Spec => []TypeOK
<1>1. Init => TypeOK
  BY BootType DEF Init, TypeOK
<1> QED BY <1>1, TypeStep, PTL DEF Spec

-----------------------------------------------------------------------------
(* Fewer routes stay exclusive.                                            *)
LEMMA ExclusiveSubset ==
  ASSUME NEW R, NEW S, Exclusive(R), S \subseteq R PROVE Exclusive(S)
  BY DEF Exclusive

(* A reused route changes neither the ids nor the listeners.               *)
LEMMA ReuseExclusive ==
  ASSUME TypeOK, ListenerExclusive, NEW p \in Procs, Reuse(p) PROVE ListenerExclusive'
<1> DEFINE q == proc[p].req
<1>1. PICK r \in Registered(q.id) :
        routes' = (Live \ {r}) \cup {[r EXCEPT !.persist = @ \/ q.persist]}
  BY DEF Reuse
<1> DEFINE n == [r EXCEPT !.persist = @ \/ q.persist]
<1>2. r \in routes /\ r \in Entry /\ n.id = r.id /\ n.spec = r.spec
  BY DEF Registered, Live, TypeOK, Entry
<1>3. \A a \in Live \ {r} : a \in routes /\ a.id # r.id
  BY <1>2 DEF Live, ListenerExclusive, Exclusive
<1>4. ASSUME NEW a \in routes', NEW b \in routes'
      PROVE  /\ a.id = b.id => a = b
             /\ a.id # b.id => ~route_reserves_listener(a.spec, b.spec)
  <2> HIDE DEF n
  <2>1. CASE a = n /\ b = n
    BY <2>1
  <2>2. CASE a = n /\ b \in Live \ {r}
    BY <2>2, <1>2, <1>3 DEF ListenerExclusive, Exclusive
  <2>3. CASE a \in Live \ {r} /\ b = n
    BY <2>3, <1>2, <1>3 DEF ListenerExclusive, Exclusive
  <2>4. CASE a \in Live \ {r} /\ b \in Live \ {r}
    BY <2>4, <1>3 DEF ListenerExclusive, Exclusive
  <2> QED BY <1>1, <2>1, <2>2, <2>3, <2>4 DEF n
<1> QED BY <1>4 DEF ListenerExclusive, Exclusive

(* A route started after both checks excludes no other.                    *)
LEMMA SpawnExclusive ==
  ASSUME TypeOK, ListenerExclusive, NEW p \in Procs, CanStart(p), Spawn(p)
  PROVE  ListenerExclusive'
<1> DEFINE q == proc[p].req
<1>1. PICK t \in Spawnable :
        routes' = {r \in Live : r.id # q.id}
          \cup {[id |-> q.id, spec |-> q.spec, persist |-> q.persist, task |-> t]}
  BY DEF Spawn
<1> DEFINE n == [id |-> q.id, spec |-> q.spec, persist |-> q.persist, task |-> t]
           K == {r \in Live : r.id # q.id}
<1>2. n.id = q.id /\ n.spec = q.spec
  OBVIOUS
<1>3. \A a \in K : a \in routes /\ a.id # q.id /\ ~route_reserves_listener(a.spec, q.spec)
  BY DEF CanStart, Owner, Live
<1>4. ASSUME NEW a \in routes', NEW b \in routes'
      PROVE  /\ a.id = b.id => a = b
             /\ a.id # b.id => ~route_reserves_listener(a.spec, b.spec)
  <2>0. a \in K \cup {n} /\ b \in K \cup {n}
    BY <1>1
  <2> HIDE DEF n, K, q
  <2>1. CASE a = n /\ b = n
    BY <2>1
  <2>2. CASE a = n /\ b \in K
    BY <2>2, <1>2, <1>3 DEF route_reserves_listener
  <2>3. CASE a \in K /\ b = n
    BY <2>3, <1>2, <1>3
  <2>4. CASE a \in K /\ b \in K
    BY <2>4, <1>3 DEF ListenerExclusive, Exclusive
  <2> QED BY <2>0, <2>1, <2>2, <2>3, <2>4
<1> QED BY <1>4 DEF ListenerExclusive, Exclusive

(* The table stays exclusive: the second critical section of a start       *)
(* checks again, every other step only takes routes away.                  *)
LEMMA ExclusiveStep == TypeOK /\ ListenerExclusive /\ [Next]_vars => ListenerExclusive'
<1> SUFFICES ASSUME TypeOK, ListenerExclusive, [Next]_vars PROVE ListenerExclusive'
  OBVIOUS
<1> USE DEF Procs
<1>0. ASSUME routes' \subseteq routes PROVE ListenerExclusive'
  BY <1>0, ExclusiveSubset DEF ListenerExclusive, Exclusive
<1>1. ASSUME NEW p \in Procs, StartCheck(p) PROVE ListenerExclusive'
  BY <1>1, <1>0, ReuseExclusive DEF StartCheck, Refuse, Live
<1>2. ASSUME NEW p \in Procs, StartInsert(p) PROVE ListenerExclusive'
  BY <1>2, <1>0, ReuseExclusive, SpawnExclusive DEF StartInsert, Refuse, Live
<1>3. ASSUME NEW c \in Clients, start_route(c) \/ stop_route(c) \/ restart_route(c)
      PROVE ListenerExclusive'
  BY <1>3, <1>0, Zenon DEF start_route, stop_route, restart_route
<1>4. ASSUME NEW c \in Clients,
             \/ StopWaited(c) \/ RestartAbort(c) \/ RestartJoined(c)
             \/ SaveSnapshot(c) \/ SaveWrite(c)
      PROVE ListenerExclusive'
  BY <1>4, <1>0 DEF StopWaited, RestartAbort, RestartJoined, SaveSnapshot, SaveWrite
<1>5. CASE RestoreRead \/ RestoreNext
  BY <1>5, <1>0, Zenon DEF RestoreRead, RestoreNext
<1>6. ASSUME NEW t \in Tasks, TaskEnds(t) \/ TaskPanics(t) PROVE ListenerExclusive'
  BY <1>6, <1>0 DEF TaskEnds, TaskPanics
<1>7. CASE Restart \/ UNCHANGED vars
  BY <1>7, <1>0 DEF Restart, vars
<1> QED
  BY <1>1, <1>2, <1>3, <1>4, <1>5, <1>6, <1>7 DEF Next, ClientStep, RestoreStep

(* No two registered routes ever share an id or a listener: the recheck of *)
(* start_route_spec closes the gap between its two critical sections.      *)
THEOREM ListenersAreExclusive == Spec => []ListenerExclusive
<1>1. Init => TypeOK /\ ListenerExclusive
  BY BootType DEF Init, TypeOK, ListenerExclusive, Exclusive
<1>2. TypeOK /\ ListenerExclusive /\ [Next]_vars => (TypeOK /\ ListenerExclusive)'
  BY TypeStep, ExclusiveStep
<1> QED BY <1>1, <1>2, PTL DEF Spec

-----------------------------------------------------------------------------
(* A process that has finished a start holds no handle.                    *)
LEMMA AfterStartFree ==
  ASSUME TypeOK, NEW p \in Procs, NEW save
  PROVE  /\ AfterStart(p, save).pc \in {"snapshot", "idle", "next"}
         /\ Done(p).pc \in {"idle", "next"}
<1>1. Done(p).pc \in {"idle", "next"}
  BY DEF Done, At
<1>2. [proc[p] EXCEPT !.pc = "snapshot"].pc = "snapshot"
  BY DEF TypeOK, Proc
<1> QED BY <1>1, <1>2 DEF AfterStart

(* Supervised is kept when the table loses only routes of finished tasks,  *)
(* no task changes, and no process lets go of a handle it has to abort.    *)
LEMMA SupervisedKept ==
  ASSUME Supervised, TypeOK, status' = status,
         \A r \in Live : r \in routes',
         routes' \subseteq routes,
         \A x \in Procs : proc'[x] = proc[x]
           \/ (proc[x].pc # "abort" /\ proc'[x].pc \notin {"abort", "join", "stopping"})
  PROVE  Supervised'
<1>1. ASSUME NEW t \in Tasks, status'[t] = "live"
      PROVE  \/ \E r \in routes' : r.task = t
             \/ \E x \in Procs : proc'[x].pc = "abort" /\ proc'[x].task = t
  <2>1. CASE \E r \in routes : r.task = t
    BY <1>1, <2>1 DEF Live
  <2>2. CASE \E x \in Procs : proc[x].pc = "abort" /\ proc[x].task = t
    BY <2>2
  <2> QED BY <1>1, <2>1, <2>2 DEF Supervised
<1>2. ASSUME NEW r \in routes'
      PROVE  /\ status'[r.task] # "aborted"
             /\ \A s \in routes' : r.task = s.task => r = s
             /\ \A x \in Procs : proc'[x].pc \in {"abort", "join", "stopping"}
                                    => proc'[x].task # r.task
  BY <1>2 DEF Supervised, Holding
<1> QED BY <1>1, <1>2 DEF Supervised, Holding

(* Reusing a route loses no task handle.                                   *)
LEMMA ReuseSupervised ==
  ASSUME TypeOK, Supervised, NEW p \in Procs, proc[p].pc \in {"check", "insert"},
         Reuse(p), status' = status
  PROVE  Supervised'
<1> DEFINE q == proc[p].req
<1>1. PICK r \in Registered(q.id) :
        /\ routes' = (Live \ {r}) \cup {[r EXCEPT !.persist = @ \/ q.persist]}
        /\ proc' = [proc EXCEPT ![p] =
             AfterStart(p, q.persist /\ (~r.persist \/ proc[p].op = "restart"))]
  BY Zenon DEF Reuse
<1> DEFINE n == [r EXCEPT !.persist = @ \/ q.persist]
<1>2. r \in Live /\ r \in routes /\ r \in Entry /\ n.task = r.task
  BY DEF Registered, Live, TypeOK, Entry
<1>3. \A x \in Procs : \/ proc'[x] = proc[x]
                        \/ /\ proc[x].pc \notin {"abort", "join", "stopping"}
                           /\ proc'[x].pc \notin {"abort", "join", "stopping"}
  BY <1>1, AfterStartFree DEF TypeOK
<1>4. routes' = (Live \ {r}) \cup {n} /\ Live \subseteq routes
  BY <1>1 DEF Live
<1> HIDE DEF n
<1>5. ASSUME NEW t \in Tasks, status'[t] = "live"
      PROVE  \/ \E s \in routes' : s.task = t
             \/ \E x \in Procs : proc'[x].pc = "abort" /\ proc'[x].task = t
  <2>1. CASE \E s \in routes : s.task = t
    <3>1. PICK s \in routes : s.task = t
      BY <2>1
    <3>2. s \in Live
      BY <1>5, <3>1 DEF Live
    <3> QED BY <1>2, <1>4, <3>1, <3>2
  <2>2. CASE \E x \in Procs : proc[x].pc = "abort" /\ proc[x].task = t
    BY <2>2, <1>3
  <2> QED BY <1>5, <2>1, <2>2 DEF Supervised
<1>6. ASSUME NEW s \in routes'
      PROVE  /\ status'[s.task] # "aborted"
             /\ \A u \in routes' : s.task = u.task => s = u
             /\ \A x \in Procs : proc'[x].pc \in {"abort", "join", "stopping"}
                                    => proc'[x].task # s.task
  <2>1. PICK o \in routes : o.task = s.task /\ (s = o \/ (s = n /\ o = r))
    BY <1>2, <1>4
  <2>2. \A u \in routes' : s.task = u.task => s = u
    BY <1>2, <1>4 DEF Supervised
  <2>3. \A x \in Procs : proc'[x].pc \in {"abort", "join", "stopping"}
                            => proc'[x].task # s.task
    BY <1>3, <2>1 DEF Supervised, Holding
  <2> QED BY <2>1, <2>2, <2>3 DEF Supervised
<1> QED BY <1>5, <1>6 DEF Supervised, Holding

(* The handle of a new task is in the table, and nowhere else.             *)
LEMMA SpawnSupervised ==
  ASSUME TypeOK, Supervised, NEW p \in Procs, proc[p].pc = "insert", CanStart(p), Spawn(p)
  PROVE  Supervised'
<1> DEFINE q == proc[p].req
<1>1. PICK t \in Spawnable :
        /\ routes' = {r \in Live : r.id # q.id}
             \cup {[id |-> q.id, spec |-> q.spec, persist |-> q.persist, task |-> t]}
        /\ status' = [status EXCEPT ![t] = "live"]
        /\ proc' = [proc EXCEPT ![p] = AfterStart(p, q.persist)]
  BY Zenon DEF Spawn
<1> DEFINE n == [id |-> q.id, spec |-> q.spec, persist |-> q.persist, task |-> t]
<1>2. n.task = t /\ t \in Tasks /\ \A r \in Live : r \in routes /\ r.task # t /\ r.task \in Tasks
  BY DEF Spawnable, Live, TypeOK, Entry
<1>3. routes' = Live \cup {n}
  BY <1>1 DEF CanStart, Registered
<1>4. \A x \in Procs : \/ proc'[x] = proc[x]
                        \/ /\ proc[x].pc \notin {"abort", "join", "stopping"}
                           /\ proc'[x].pc \notin {"abort", "join", "stopping"}
  BY <1>1, AfterStartFree DEF TypeOK
<1>5. \A u \in Tasks : status'[u] = IF u = t THEN "live" ELSE status[u]
  BY <1>1, <1>2 DEF TypeOK
<1> HIDE DEF n
<1>6. ASSUME NEW u \in Tasks, status'[u] = "live"
      PROVE  \/ \E s \in routes' : s.task = u
             \/ \E x \in Procs : proc'[x].pc = "abort" /\ proc'[x].task = u
  <2>1. CASE u = t
    BY <2>1, <1>2, <1>3
  <2>2. CASE u # t
    <3>1. status[u] = "live"
      BY <1>5, <1>6, <2>2
    <3>2. CASE \E s \in routes : s.task = u
      <4>1. PICK s \in routes : s.task = u
        BY <3>2
      <4>2. s \in Live
        BY <3>1, <4>1 DEF Live
      <4> QED BY <1>3, <4>1, <4>2
    <3>3. CASE \E x \in Procs : proc[x].pc = "abort" /\ proc[x].task = u
      BY <3>3, <1>4
    <3> QED BY <3>1, <3>2, <3>3 DEF Supervised
  <2> QED BY <2>1, <2>2
<1>7. ASSUME NEW s \in routes'
      PROVE  /\ status'[s.task] # "aborted"
             /\ \A u \in routes' : s.task = u.task => s = u
             /\ \A x \in Procs : proc'[x].pc \in {"abort", "join", "stopping"}
                                    => proc'[x].task # s.task
  <2>1. CASE s = n
    BY <2>1, <1>2, <1>3, <1>4, <1>5 DEF Spawnable, Holding
  <2>2. CASE s \in Live
    BY <2>2, <1>2, <1>3, <1>4, <1>5 DEF Supervised, Holding
  <2> QED BY <1>3, <2>1, <2>2
<1> QED BY <1>6, <1>7 DEF Supervised, Holding

(* Every step leaves each running supervisor with somebody who answers for *)
(* it: the table, or the restart that is about to abort it.                *)
LEMMA SupervisedStep == TypeOK /\ Supervised /\ [Next]_vars => Supervised'
<1> SUFFICES ASSUME TypeOK, Supervised, [Next]_vars PROVE Supervised'
  OBVIOUS
<1> USE DEF Procs
<1>1. ASSUME NEW p \in Procs, StartCheck(p) PROVE Supervised'
  <2>1. CASE Reuse(p)
    BY <1>1, <2>1, ReuseSupervised DEF StartCheck
  <2>2. CASE Refuse(p)
    <3>1. \A x \in Procs : \/ proc'[x] = proc[x]
                            \/ /\ proc[x].pc # "abort"
                               /\ proc'[x].pc \notin {"abort", "join", "stopping"}
      BY <1>1, <2>2, AfterStartFree DEF StartCheck, Refuse, TypeOK
    <3> QED BY <1>1, <2>2, <3>1, SupervisedKept DEF StartCheck, Refuse, Live
  <2>3. CASE routes' = Live /\ proc' = [proc EXCEPT ![p] = [@ EXCEPT !.pc = "insert"]]
    <3>1. \A x \in Procs : \/ proc'[x] = proc[x]
                            \/ /\ proc[x].pc # "abort"
                               /\ proc'[x].pc \notin {"abort", "join", "stopping"}
      BY <1>1, <2>3 DEF StartCheck, TypeOK, Proc
    <3> QED BY <1>1, <2>3, <3>1, SupervisedKept DEF StartCheck, Live
  <2> QED BY <1>1, <2>1, <2>2, <2>3 DEF StartCheck
<1>2. ASSUME NEW p \in Procs, StartInsert(p) PROVE Supervised'
  <2>1. CASE Reuse(p) /\ UNCHANGED status
    BY <1>2, <2>1, ReuseSupervised DEF StartInsert
  <2>2. CASE Refuse(p) /\ UNCHANGED status
    <3>1. \A x \in Procs : \/ proc'[x] = proc[x]
                            \/ /\ proc[x].pc # "abort"
                               /\ proc'[x].pc \notin {"abort", "join", "stopping"}
      BY <1>2, <2>2, AfterStartFree DEF StartInsert, Refuse, TypeOK
    <3> QED BY <1>2, <2>2, <3>1, SupervisedKept DEF Refuse, Live
  <2>3. CASE CanStart(p) /\ Spawn(p)
    BY <1>2, <2>3, SpawnSupervised DEF StartInsert
  <2> QED BY <1>2, <2>1, <2>2, <2>3 DEF StartInsert
<1>3. ASSUME NEW c \in Clients, start_route(c) PROVE Supervised'
  <2>1. PICK q \in Requests :
          proc' = [proc EXCEPT ![c] = [@ EXCEPT !.pc = "check", !.op = "start", !.req = q]]
    BY <1>3, Zenon DEF start_route
  <2>2. \A x \in Procs : \/ proc'[x] = proc[x]
                          \/ /\ proc[x].pc # "abort"
                             /\ proc'[x].pc \notin {"abort", "join", "stopping"}
    BY <1>3, <2>1 DEF start_route, TypeOK, Proc
  <2> QED BY <1>3, <2>2, SupervisedKept DEF start_route, Live
<1>4. ASSUME NEW c \in Clients, stop_route(c) PROVE Supervised'
  <2>1. PICK r \in routes : /\ routes' = routes \ {r} /\ status' = Aborted(r.task)
          /\ proc' = [proc EXCEPT ![c] = [@ EXCEPT !.pc = "stopping", !.op = "stop",
                                                   !.req = RequestOf(r), !.task = r.task]]
    BY <1>4, Zenon DEF stop_route
  <2>2. r.task \in Tasks /\ \A s \in routes : s.task \in Tasks
    BY DEF TypeOK, Entry
  <2>3. /\ \A t \in Tasks : t # r.task => status'[t] = status[t]
        /\ status'[r.task] # "live"
    BY <2>1, <2>2 DEF Aborted, TypeOK
  <2>4. \A x \in Procs : IF x = c THEN proc'[x].pc = "stopping" /\ proc'[x].task = r.task
                          ELSE proc'[x] = proc[x]
    BY <2>1 DEF TypeOK, Proc
  <2>5. proc[c].pc # "abort"
    BY <1>4 DEF stop_route
  <2>6. ASSUME NEW t \in Tasks, status'[t] = "live"
        PROVE  \/ \E s \in routes' : s.task = t
               \/ \E x \in Procs : proc'[x].pc = "abort" /\ proc'[x].task = t
    BY <2>1, <2>3, <2>4, <2>5, <2>6 DEF Supervised
  <2>7. ASSUME NEW s \in routes'
        PROVE  /\ s.task # r.task
               /\ status'[s.task] # "aborted"
               /\ \A u \in routes' : s.task = u.task => s = u
               /\ \A x \in Procs : proc'[x].pc \in {"abort", "join", "stopping"}
                                      => proc'[x].task # s.task
    BY <2>1, <2>2, <2>3, <2>4, <2>7 DEF Supervised, Holding
  <2> QED BY <2>6, <2>7 DEF Supervised, Holding
<1>5. ASSUME NEW c \in Clients, restart_route(c) PROVE Supervised'
  <2>1. PICK r \in routes : /\ routes' = routes \ {r} /\ status' = status
          /\ proc' = [proc EXCEPT ![c] = [@ EXCEPT !.pc = "abort", !.op = "restart",
                                                   !.req = RequestOf(r), !.task = r.task]]
    BY <1>5, Zenon DEF restart_route
  <2>2. \A x \in Procs : IF x = c THEN proc'[x].pc = "abort" /\ proc'[x].task = r.task
                          ELSE proc'[x] = proc[x]
    BY <2>1 DEF TypeOK, Proc
  <2>3. proc[c].pc # "abort"
    BY <1>5 DEF restart_route
  <2>4. ASSUME NEW t \in Tasks, status'[t] = "live"
        PROVE  \/ \E s \in routes' : s.task = t
               \/ \E x \in Procs : proc'[x].pc = "abort" /\ proc'[x].task = t
    BY <2>1, <2>2, <2>3, <2>4 DEF Supervised
  <2>5. ASSUME NEW s \in routes'
        PROVE  /\ s.task # r.task
               /\ status'[s.task] # "aborted"
               /\ \A u \in routes' : s.task = u.task => s = u
               /\ \A x \in Procs : proc'[x].pc \in {"abort", "join", "stopping"}
                                      => proc'[x].task # s.task
    BY <2>1, <2>2, <2>5 DEF Supervised, Holding
  <2> QED BY <2>4, <2>5 DEF Supervised, Holding
<1>6. ASSUME NEW c \in Clients, StopWaited(c) PROVE Supervised'
  <2>1. \A x \in Procs : \/ proc'[x] = proc[x]
                          \/ /\ proc[x].pc # "abort"
                             /\ proc'[x].pc \notin {"abort", "join", "stopping"}
    BY <1>6, AfterStartFree DEF StopWaited, TypeOK, Proc
  <2> QED BY <1>6, <2>1, SupervisedKept DEF StopWaited, Live
<1>7. ASSUME NEW c \in Clients, RestartAbort(c) PROVE Supervised'
  <2> DEFINE h == proc[c].task
  <2>1. h \in Tasks /\ \A s \in routes : s.task \in Tasks /\ s.task # h
    BY <1>7 DEF RestartAbort, TypeOK, Proc, Entry, Supervised, Holding
  <2>2. /\ \A t \in Tasks : t # h => status'[t] = status[t]
        /\ status'[h] # "live"
    BY <1>7, <2>1 DEF RestartAbort, Aborted, TypeOK
  <2>3. \A x \in Procs : IF x = c THEN proc'[x].pc = "join" /\ proc'[x].task = h
                          ELSE proc'[x] = proc[x]
    BY <1>7 DEF RestartAbort, TypeOK, Proc
  <2>4. routes' = routes /\ proc[c].pc = "abort"
    BY <1>7 DEF RestartAbort
  <2> HIDE DEF h
  <2>5. ASSUME NEW t \in Tasks, status'[t] = "live"
        PROVE  \/ \E s \in routes' : s.task = t
               \/ \E x \in Procs : proc'[x].pc = "abort" /\ proc'[x].task = t
    BY <2>2, <2>3, <2>4, <2>5 DEF Supervised, h
  <2>6. ASSUME NEW s \in routes'
        PROVE  /\ status'[s.task] # "aborted"
               /\ \A u \in routes' : s.task = u.task => s = u
               /\ \A x \in Procs : proc'[x].pc \in {"abort", "join", "stopping"}
                                      => proc'[x].task # s.task
    BY <2>1, <2>2, <2>3, <2>4, <2>6 DEF Supervised, Holding
  <2> QED BY <2>5, <2>6 DEF Supervised, Holding
<1>8. ASSUME NEW c \in Clients, RestartJoined(c) \/ SaveSnapshot(c) \/ SaveWrite(c)
      PROVE  Supervised'
  <2>1. \A x \in Procs : \/ proc'[x] = proc[x]
                          \/ /\ proc[x].pc # "abort"
                             /\ proc'[x].pc \notin {"abort", "join", "stopping"}
    BY <1>8, AfterStartFree, Zenon DEF RestartJoined, SaveSnapshot, SaveWrite, TypeOK, Proc
  <2> QED BY <1>8, <2>1, SupervisedKept DEF RestartJoined, SaveSnapshot, SaveWrite, Live
<1>9. CASE RestoreRead \/ RestoreNext
  <2>1. \A x \in Procs : \/ proc'[x] = proc[x]
                          \/ /\ proc[x].pc # "abort"
                             /\ proc'[x].pc \notin {"abort", "join", "stopping"}
    BY <1>9, AfterStartFree, ZenonT(30) DEF RestoreRead, RestoreNext, TypeOK, Proc
  <2> QED BY <1>9, <2>1, SupervisedKept, Zenon DEF RestoreRead, RestoreNext, Live
<1>10. ASSUME NEW t \in Tasks, TaskEnds(t) \/ TaskPanics(t) PROVE Supervised'
  <2>1. /\ routes' = routes /\ proc' = proc
        /\ \A u \in Tasks : status'[u] = status[u] \/ status'[u] = "finished"
    BY <1>10 DEF TaskEnds, TaskPanics, TypeOK
  <2>2. \A s \in routes : s.task \in Tasks
    BY DEF TypeOK, Entry
  <2> QED BY <2>1, <2>2 DEF Supervised, Holding
<1>11. CASE Restart
  <2>1. /\ routes' = {} /\ \A t \in Tasks : status'[t] = "finished"
    BY <1>11 DEF Restart
  <2> QED BY <2>1 DEF Supervised
<1>12. CASE UNCHANGED vars
  BY <1>12 DEF vars, Supervised, Holding
<1> QED
  BY <1>1, <1>2, <1>3, <1>4, <1>5, <1>6, <1>7, <1>8, <1>9, <1>10, <1>11, <1>12
  DEF Next, ClientStep, RestoreStep

(* No supervisor task is ever orphaned, nor stopped behind the table's     *)
(* back, in any interleaving of starts, stops, restarts and crashes.       *)
THEOREM SupervisorsAnswered == Spec => []Supervised
<1>1. Init => TypeOK /\ Supervised
  BY BootType DEF Init, TypeOK, Supervised
<1>2. TypeOK /\ Supervised /\ [Next]_vars => (TypeOK /\ Supervised)'
  BY TypeStep, SupervisedStep
<1> QED BY <1>1, <1>2, PTL DEF Spec

-----------------------------------------------------------------------------
(* A start leaves the snapshots of the other processes, and ends with the  *)
(* snapshot it had or an empty one.                                        *)
LEMMA StartSnap ==
  ASSUME TypeOK, NEW p \in Procs, StartCheck(p) \/ StartInsert(p)
  PROVE  \A x \in Procs : proc'[x].snap = proc[x].snap \/ proc'[x].snap = {}
<1>1. Done(p).snap = {}
  BY DEF Done, At
<1>2. \A save : AfterStart(p, save).snap \in {proc[p].snap, {}}
  BY <1>1 DEF AfterStart, TypeOK, Proc
<1>3. CASE Reuse(p)
  BY <1>2, <1>3 DEF Reuse, TypeOK
<1>4. CASE Refuse(p)
  BY <1>1, <1>4 DEF Refuse, TypeOK
<1>5. CASE proc' = [proc EXCEPT ![p] = [@ EXCEPT !.pc = "insert"]]
  BY <1>5 DEF TypeOK, Proc
<1>6. CASE Spawn(p)
  BY <1>2, <1>6 DEF Spawn, TypeOK
<1> QED BY <1>3, <1>4, <1>5, <1>6 DEF StartCheck, StartInsert

(* What a step may put into a snapshot: the persistent routes, or nothing. *)
LEMMA SnapStep ==
  ASSUME TypeOK, [Next]_vars
  PROVE  \A x \in Procs : proc'[x].snap \in {proc[x].snap, {}, PersistentRoutes}
<1> USE DEF Procs
<1>1. ASSUME NEW p \in Procs, StartCheck(p) \/ StartInsert(p)
      PROVE  \A x \in Procs : proc'[x].snap \in {proc[x].snap, {}}
  BY <1>1, StartSnap
<1>2. ASSUME NEW c \in Clients, start_route(c) \/ stop_route(c) \/ restart_route(c)
      PROVE  \A x \in Procs : proc'[x].snap = proc[x].snap
  <2>1. CASE start_route(c)
    <3>1. PICK q \in Requests : proc' =
            [proc EXCEPT ![c] = [@ EXCEPT !.pc = "check", !.op = "start", !.req = q]]
      BY <2>1, Zenon DEF start_route
    <3> QED BY <3>1 DEF TypeOK, Proc
  <2>2. CASE stop_route(c)
    <3>1. PICK r \in routes : proc' =
            [proc EXCEPT ![c] = [@ EXCEPT !.pc = "stopping", !.op = "stop",
                                          !.req = RequestOf(r), !.task = r.task]]
      BY <2>2, Zenon DEF stop_route
    <3> QED BY <3>1 DEF TypeOK, Proc
  <2>3. CASE restart_route(c)
    <3>1. PICK r \in routes : proc' =
            [proc EXCEPT ![c] = [@ EXCEPT !.pc = "abort", !.op = "restart",
                                          !.req = RequestOf(r), !.task = r.task]]
      BY <2>3, Zenon DEF restart_route
    <3> QED BY <3>1 DEF TypeOK, Proc
  <2> QED BY <1>2, <2>1, <2>2, <2>3
<1>3. ASSUME NEW c \in Clients, RestartAbort(c) \/ RestartJoined(c)
      PROVE  \A x \in Procs : proc'[x].snap = proc[x].snap
  BY <1>3 DEF RestartAbort, RestartJoined, TypeOK, Proc
<1>4. ASSUME NEW c \in Clients, StopWaited(c) \/ SaveWrite(c)
      PROVE  \A x \in Procs : proc'[x].snap \in {proc[x].snap, {}}
  BY <1>4 DEF StopWaited, SaveWrite, TypeOK, Proc, Done, At
<1>5. ASSUME NEW c \in Clients, SaveSnapshot(c)
      PROVE  \A x \in Procs : proc'[x].snap \in {proc[x].snap, PersistentRoutes}
  BY <1>5 DEF SaveSnapshot, TypeOK, Proc
<1>6. ASSUME RestoreRead \/ RestoreNext
      PROVE  \A x \in Procs : proc'[x].snap \in {proc[x].snap, {}}
  <2>1. CASE RestoreRead
    BY <2>1 DEF RestoreRead, TypeOK, Done, At
  <2>2. CASE RestoreNext
    <3>1. PICK e \in todo : proc' = [proc EXCEPT ![Restorer] = [@ EXCEPT !.pc = "check",
            !.req = [id |-> e.id, spec |-> e.spec, persist |-> TRUE]]]
      BY <2>2, Zenon DEF RestoreNext
    <3> QED BY <3>1 DEF TypeOK, Proc
  <2> QED BY <1>6, <2>1, <2>2
<1>7. ASSUME NEW t \in Tasks, TaskEnds(t) \/ TaskPanics(t) PROVE proc' = proc
  BY <1>7 DEF TaskEnds, TaskPanics
<1>8. ASSUME Restart PROVE \A x \in Procs : proc'[x].snap = {}
  BY <1>8 DEF Restart, Boot, At
<1>9. CASE UNCHANGED vars
  BY <1>9 DEF vars
<1> QED
  BY <1>1, <1>2, <1>3, <1>4, <1>5, <1>6, <1>7, <1>8, <1>9 DEF Next, ClientStep, RestoreStep

(* routes.json changes only to a snapshot that was taken earlier.          *)
LEMMA FileStep ==
  ASSUME [Next]_vars PROVE file' = file \/ \E c \in Procs : file' = proc[c].snap
<1> USE DEF Procs
<1>1. ASSUME NEW p \in Procs, StartCheck(p) \/ StartInsert(p) PROVE file' = file
  BY <1>1 DEF StartCheck, StartInsert
<1>2. ASSUME NEW c \in Clients, \/ start_route(c) \/ stop_route(c) \/ restart_route(c)
                                \/ StopWaited(c) \/ RestartAbort(c) \/ RestartJoined(c)
                                \/ SaveSnapshot(c)
      PROVE  file' = file
  BY <1>2, Zenon DEF start_route, stop_route, restart_route, StopWaited, RestartAbort,
              RestartJoined, SaveSnapshot
<1>3. ASSUME NEW c \in Clients, SaveWrite(c) PROVE file' = file \/ file' = proc[c].snap
  BY <1>3 DEF SaveWrite
<1>4. ASSUME RestoreRead \/ RestoreNext \/ Restart \/ UNCHANGED vars PROVE file' = file
  BY <1>4, Zenon DEF RestoreRead, RestoreNext, Restart, vars
<1>5. ASSUME NEW t \in Tasks, TaskEnds(t) \/ TaskPanics(t) PROVE file' = file
  BY <1>5 DEF TaskEnds, TaskPanics
<1> QED BY <1>1, <1>2, <1>3, <1>4, <1>5 DEF Next, ClientStep, RestoreStep

(* A snapshot of an exclusive table is exclusive.                          *)
LEMMA PersistentExclusive ==
  ASSUME ListenerExclusive PROVE Exclusive(PersistentRoutes)
<1>1. ASSUME NEW a \in PersistentRoutes, NEW b \in PersistentRoutes
      PROVE  /\ a.id = b.id => a = b
             /\ a.id # b.id => ~route_reserves_listener(a.spec, b.spec)
  <2>1. PICK r \in routes : a = [id |-> r.id, spec |-> r.spec]
    BY DEF PersistentRoutes
  <2>2. PICK s \in routes : b = [id |-> s.id, spec |-> s.spec]
    BY DEF PersistentRoutes
  <2>3. a.id = r.id /\ a.spec = r.spec /\ b.id = s.id /\ b.spec = s.spec
    BY <2>1, <2>2
  <2>4. r.id = s.id => r = s
    BY DEF ListenerExclusive, Exclusive
  <2>5. r.id # s.id => ~route_reserves_listener(r.spec, s.spec)
    BY DEF ListenerExclusive, Exclusive
  <2> QED BY <2>1, <2>2, <2>3, <2>4, <2>5
<1> QED BY <1>1 DEF Exclusive

(* Whatever the order of the writes, the routes of routes.json never       *)
(* exclude each other: each write is a snapshot of an exclusive table.     *)
THEOREM StoreIsExclusive == Spec => []FileExclusive
<1> DEFINE I == TypeOK /\ ListenerExclusive /\ SnapExclusive /\ FileExclusive
<1>1. Init => I
  BY BootType DEF Init, TypeOK, ListenerExclusive, SnapExclusive, FileExclusive, Exclusive,
                  Boot, At
<1>2. I /\ [Next]_vars => I'
  <2> SUFFICES ASSUME I, [Next]_vars PROVE I'
    OBVIOUS
  <2>1. TypeOK' /\ ListenerExclusive'
    BY TypeStep, ExclusiveStep
  <2>2. Exclusive({})
    BY DEF Exclusive
  <2>3. \A x \in Procs : Exclusive(proc'[x].snap)
    BY <2>2, SnapStep, PersistentExclusive, Zenon DEF SnapExclusive
  <2>4. SnapExclusive'
    BY <2>3 DEF SnapExclusive, Exclusive
  <2>5. Exclusive(file')
    BY FileStep DEF SnapExclusive, FileExclusive
  <2>6. FileExclusive'
    BY <2>5 DEF FileExclusive, Exclusive
  <2> QED BY <2>1, <2>4, <2>6
<1> QED BY <1>1, <1>2, PTL DEF Spec

-----------------------------------------------------------------------------
(* Being asked for depends only on the id and on what routes are compared  *)
(* by, and a request asks for itself.                                      *)
LEMMA AskedSame ==
  ASSUME NEW a, NEW b, AskedPersistent(a), a.id = b.id,
         route_specs_match_values(a.spec, b.spec)
  PROVE  AskedPersistent(b)
  BY DEF AskedPersistent, route_specs_match_values

(* A request for a persistent route asks for itself.                       *)
LEMMA AskedByRequest ==
  ASSUME NEW q \in Requests, q.persist PROVE AskedPersistent(q)
  BY DEF AskedPersistent, route_specs_match_values

(* Where the request of a process comes from: it is kept, a client sends   *)
(* it, it is that of a registered route, or it is read from the file.      *)
LEMMA ReqStep ==
  ASSUME TypeOK, [Next]_vars
  PROVE  \A x \in Procs :
           \/ proc'[x].req = proc[x].req
           \/ proc'[x].req \in Requests
           \/ \E r \in routes : proc'[x].req = RequestOf(r)
           \/ \E e \in todo : proc'[x].req = [id |-> e.id, spec |-> e.spec, persist |-> TRUE]
<1> USE DEF Procs
<1>0. \A p \in Procs : \A save : /\ Done(p).req \in Requests
                                  /\ AfterStart(p, save).req \in Requests \cup {proc[p].req}
  <2>1. \A p \in Procs : Done(p).req \in Requests
    BY Defaults DEF Done, At
  <2> QED BY <2>1 DEF AfterStart, TypeOK, Proc
<1>1. ASSUME NEW p \in Procs, StartCheck(p) \/ StartInsert(p)
      PROVE  \A x \in Procs : proc'[x].req = proc[x].req \/ proc'[x].req \in Requests
  <2>1. CASE Reuse(p)
    BY <2>1, <1>0 DEF Reuse, TypeOK
  <2>2. CASE Refuse(p)
    BY <2>2, <1>0 DEF Refuse, TypeOK
  <2>3. CASE proc' = [proc EXCEPT ![p] = [@ EXCEPT !.pc = "insert"]]
    BY <2>3 DEF TypeOK, Proc
  <2>4. CASE Spawn(p)
    BY <2>4, <1>0 DEF Spawn, TypeOK
  <2> QED BY <1>1, <2>1, <2>2, <2>3, <2>4 DEF StartCheck, StartInsert
<1>2. ASSUME NEW c \in Clients, start_route(c)
      PROVE  \A x \in Procs : proc'[x].req = proc[x].req \/ proc'[x].req \in Requests
  <2>1. PICK q \in Requests :
          proc' = [proc EXCEPT ![c] = [@ EXCEPT !.pc = "check", !.op = "start", !.req = q]]
    BY <1>2, Zenon DEF start_route
  <2> QED BY <2>1 DEF TypeOK, Proc
<1>3. ASSUME NEW c \in Clients, stop_route(c) \/ restart_route(c)
      PROVE  \A x \in Procs : \/ proc'[x].req = proc[x].req
                              \/ \E r \in routes : proc'[x].req = RequestOf(r)
  <2>1. CASE stop_route(c)
    <3>1. PICK r \in routes : proc' =
            [proc EXCEPT ![c] = [@ EXCEPT !.pc = "stopping", !.op = "stop",
                                          !.req = RequestOf(r), !.task = r.task]]
      BY <2>1, Zenon DEF stop_route
    <3> QED BY <3>1 DEF TypeOK, Proc
  <2>2. CASE restart_route(c)
    <3>1. PICK r \in routes : proc' =
            [proc EXCEPT ![c] = [@ EXCEPT !.pc = "abort", !.op = "restart",
                                          !.req = RequestOf(r), !.task = r.task]]
      BY <2>2, Zenon DEF restart_route
    <3> QED BY <3>1 DEF TypeOK, Proc
  <2> QED BY <1>3, <2>1, <2>2
<1>4. ASSUME NEW c \in Clients, \/ StopWaited(c) \/ RestartAbort(c) \/ RestartJoined(c)
                                \/ SaveSnapshot(c) \/ SaveWrite(c)
      PROVE  \A x \in Procs : proc'[x].req = proc[x].req \/ proc'[x].req \in Requests
  <2>1. CASE StopWaited(c) \/ SaveWrite(c)
    <3>1. \/ proc' = [proc EXCEPT ![c] = [@ EXCEPT !.pc = "snapshot"]]
          \/ proc' = [proc EXCEPT ![c] = Done(c)]
      BY <2>1 DEF StopWaited, SaveWrite
    <3> QED BY <3>1, <1>0 DEF TypeOK, Proc
  <2>2. CASE RestartAbort(c) \/ RestartJoined(c)
    BY <2>2 DEF RestartAbort, RestartJoined, TypeOK, Proc
  <2>3. CASE SaveSnapshot(c)
    BY <2>3 DEF SaveSnapshot, TypeOK, Proc
  <2> QED BY <1>4, <2>1, <2>2, <2>3
<1>5. CASE RestoreRead
  BY <1>5, <1>0, Zenon DEF RestoreRead, TypeOK
<1>6. CASE RestoreNext
  <2>1. PICK e \in todo : proc' = [proc EXCEPT ![Restorer] = [@ EXCEPT !.pc = "check",
          !.req = [id |-> e.id, spec |-> e.spec, persist |-> TRUE]]]
    BY <1>6, Zenon DEF RestoreNext
  <2> QED BY <2>1, Zenon DEF TypeOK, Proc
<1>7. ASSUME NEW t \in Tasks, TaskEnds(t) \/ TaskPanics(t) PROVE proc' = proc
  BY <1>7 DEF TaskEnds, TaskPanics
<1>8. ASSUME Restart PROVE \A x \in Procs : proc'[x].req \in Requests
  BY <1>8, Defaults DEF Restart, Boot, At
<1>9. CASE UNCHANGED vars
  BY <1>9 DEF vars
<1> QED
  BY <1>1, <1>2, <1>3, <1>4, <1>5, <1>6, <1>7, <1>8, <1>9, SMTT(30) DEF Next, ClientStep, RestoreStep

(* Where a registered route comes from: it was there, it is an old one     *)
(* reused for a matching request, or it is spawned for a request.          *)
LEMMA RouteStep ==
  ASSUME TypeOK, [Next]_vars, NEW n \in routes'
  PROVE  \/ n \in routes
         \/ \E p \in Procs, r \in routes :
              /\ r.id = proc[p].req.id /\ route_matches(r.spec, proc[p].req.spec)
              /\ n.id = r.id /\ n.spec = r.spec /\ n.persist = (r.persist \/ proc[p].req.persist)
         \/ \E p \in Procs : Spawn(p) /\ RequestOf(n) = RequestOf(proc[p].req)
<1> USE DEF Procs
<1>1. ASSUME NEW p \in Procs, Reuse(p)
      PROVE  \/ n \in routes
             \/ \E r \in routes :
                  /\ r.id = proc[p].req.id /\ route_matches(r.spec, proc[p].req.spec)
                  /\ n.id = r.id /\ n.spec = r.spec
                  /\ n.persist = (r.persist \/ proc[p].req.persist)
  <2>1. PICK r \in Registered(proc[p].req.id) :
          /\ route_matches(r.spec, proc[p].req.spec)
          /\ routes' = (Live \ {r}) \cup {[r EXCEPT !.persist = @ \/ proc[p].req.persist]}
    BY <1>1 DEF Reuse
  <2>2. r \in routes /\ r.id = proc[p].req.id /\ r \in Entry
    BY DEF Registered, Live, TypeOK
  <2> DEFINE m == [r EXCEPT !.persist = @ \/ proc[p].req.persist]
  <2>3. m.id = r.id /\ m.spec = r.spec /\ m.persist = (r.persist \/ proc[p].req.persist)
    BY <2>2 DEF Entry
  <2>4. n \in routes \/ n = m
    BY <2>1 DEF Live
  <2> QED BY <2>1, <2>2, <2>3, <2>4, Zenon
<1>2. ASSUME NEW p \in Procs, Spawn(p)
      PROVE  n \in routes \/ RequestOf(n) = RequestOf(proc[p].req)
  BY <1>2 DEF Spawn, Live, RequestOf
<1>3. ASSUME NEW p \in Procs, StartCheck(p) \/ StartInsert(p), ~Reuse(p), ~Spawn(p)
      PROVE  n \in routes
  BY <1>3 DEF StartCheck, StartInsert, Refuse, Live
<1>4. ASSUME NEW c \in Clients, \/ start_route(c) \/ stop_route(c) \/ restart_route(c)
                                \/ StopWaited(c) \/ RestartAbort(c) \/ RestartJoined(c)
                                \/ SaveSnapshot(c) \/ SaveWrite(c)
      PROVE  n \in routes
  BY <1>4, Zenon DEF start_route, stop_route, restart_route, StopWaited, RestartAbort,
              RestartJoined, SaveSnapshot, SaveWrite
<1>5. ASSUME RestoreRead \/ RestoreNext \/ Restart \/ UNCHANGED vars PROVE n \in routes
  BY <1>5, Zenon DEF RestoreRead, RestoreNext, Restart, vars
<1>6. ASSUME NEW t \in Tasks, TaskEnds(t) \/ TaskPanics(t) PROVE n \in routes
  BY <1>6 DEF TaskEnds, TaskPanics
<1> QED BY <1>1, <1>2, <1>3, <1>4, <1>5, <1>6 DEF Next, ClientStep, RestoreStep

(* The stored routes still to be restored come from the file.              *)
LEMMA TodoStep ==
  ASSUME [Next]_vars PROVE todo' \subseteq file \cup todo
<1> USE DEF Procs
<1>1. ASSUME NEW p \in Procs, StartCheck(p) \/ StartInsert(p) PROVE todo' = todo
  BY <1>1 DEF StartCheck, StartInsert
<1>2. ASSUME NEW c \in Clients, \/ start_route(c) \/ stop_route(c) \/ restart_route(c)
                                \/ StopWaited(c) \/ RestartAbort(c) \/ RestartJoined(c)
                                \/ SaveSnapshot(c) \/ SaveWrite(c)
      PROVE  todo' = todo
  BY <1>2, Zenon DEF start_route, stop_route, restart_route, StopWaited, RestartAbort,
              RestartJoined, SaveSnapshot, SaveWrite
<1>3. ASSUME RestoreRead \/ RestoreNext \/ Restart \/ UNCHANGED vars
      PROVE  todo' \subseteq file \cup todo
  BY <1>3, Zenon DEF RestoreRead, RestoreNext, Restart, vars
<1>4. ASSUME NEW t \in Tasks, TaskEnds(t) \/ TaskPanics(t) PROVE todo' = todo
  BY <1>4, SMTT(30) DEF TaskEnds, TaskPanics
<1> QED BY <1>1, <1>2, <1>3, <1>4 DEF Next, ClientStep, RestoreStep

(* Asked is inductive: persistence only ever comes from a client's request.*)
LEMMA AskedStep == TypeOK /\ Asked /\ [Next]_vars => Asked'
<1> SUFFICES ASSUME TypeOK, Asked, [Next]_vars PROVE Asked'
  OBVIOUS
<1>1. ASSUME NEW n \in routes', n.persist PROVE AskedPersistent(n)
  <2>1. CASE n \in routes
    BY <1>1, <2>1 DEF Asked
  <2>2. ASSUME NEW p \in Procs, NEW r \in routes,
               r.id = proc[p].req.id, route_matches(r.spec, proc[p].req.spec),
               n.id = r.id, n.spec = r.spec, n.persist = (r.persist \/ proc[p].req.persist)
        PROVE  AskedPersistent(n)
    <3>1. CASE r.persist
      <4>1. AskedPersistent(r) /\ route_specs_match_values(r.spec, n.spec)
        BY <2>2, <3>1 DEF Asked, route_specs_match_values
      <4> QED BY <2>2, <4>1, AskedSame
    <3>2. CASE proc[p].req.persist
      <4>1. AskedPersistent(proc[p].req)
        BY <3>2 DEF Asked
      <4>2. route_specs_match_values(proc[p].req.spec, n.spec)
        BY <2>2 DEF route_matches, route_specs_match_values
      <4> QED BY <2>2, <4>1, <4>2, AskedSame
    <3> QED BY <1>1, <2>2, <3>1, <3>2, Zenon
  <2>3. ASSUME NEW p \in Procs, RequestOf(n) = RequestOf(proc[p].req)
        PROVE  AskedPersistent(n)
    <3>1. n.id = proc[p].req.id /\ n.spec = proc[p].req.spec /\ n.persist = proc[p].req.persist
      BY <2>3 DEF RequestOf
    <3>2. AskedPersistent(proc[p].req)
      BY <1>1, <3>1 DEF Asked
    <3> QED BY <3>1, <3>2 DEF AskedPersistent
  <2> QED BY <2>1, <2>2, <2>3, RouteStep
<1>2. \A e \in PersistentRoutes : AskedPersistent(e)
  <2>1. ASSUME NEW r \in routes, r.persist
        PROVE  AskedPersistent([id |-> r.id, spec |-> r.spec])
    <3>1. AskedPersistent(r)
      BY <2>1 DEF Asked
    <3> QED BY <3>1 DEF AskedPersistent
  <2> QED BY <2>1 DEF PersistentRoutes
<1>3. \A p \in Procs : \A e \in proc'[p].snap : AskedPersistent(e)
  BY <1>2, SnapStep DEF Asked
<1>4. \A e \in file' : AskedPersistent(e)
  BY FileStep DEF Asked
<1>5. \A e \in todo' : AskedPersistent(e)
  BY TodoStep DEF Asked
<1>6. ASSUME NEW p \in Procs, proc'[p].req.persist PROVE AskedPersistent(proc'[p].req)
  <2>1. CASE proc'[p].req = proc[p].req
    BY <1>6, <2>1 DEF Asked
  <2>2. CASE proc'[p].req \in Requests
    BY <1>6, <2>2, AskedByRequest
  <2>3. ASSUME NEW r \in routes, proc'[p].req = RequestOf(r)
        PROVE  AskedPersistent(proc'[p].req)
    <3>1. r.persist /\ proc'[p].req.id = r.id /\ proc'[p].req.spec = r.spec
      BY <1>6, <2>3 DEF RequestOf
    <3>2. AskedPersistent(r)
      BY <3>1 DEF Asked
    <3> QED BY <3>1, <3>2 DEF AskedPersistent
  <2>4. ASSUME NEW e \in todo,
               proc'[p].req = [id |-> e.id, spec |-> e.spec, persist |-> TRUE]
        PROVE  AskedPersistent(proc'[p].req)
    <3>1. proc'[p].req.id = e.id /\ proc'[p].req.spec = e.spec
      BY <2>4
    <3>2. AskedPersistent(e)
      BY DEF Asked
    <3> QED BY <3>1, <3>2 DEF AskedPersistent
  <2> QED BY <2>1, <2>2, <2>3, <2>4, ReqStep, Zenon
<1> QED BY <1>1, <1>3, <1>4, <1>5, <1>6 DEF Asked, AskedPersistent

(* A volatile route, such as that of a proxy session, never reaches        *)
(* routes.json, nor does a route nobody asked to persist.                  *)
THEOREM VolatileNeverStored == Spec => []NoVolatileStored
<1>1. Init => TypeOK /\ Asked
  <2> SUFFICES ASSUME Init PROVE TypeOK /\ Asked
    OBVIOUS
  <2>1. TypeOK
    BY BootType DEF Init, TypeOK
  <2>2. \A p \in Procs : proc[p].req \in Requests /\ proc[p].snap = {}
    BY Defaults DEF Init, Boot, At
  <2>3. \A p \in Procs : proc[p].req.persist => AskedPersistent(proc[p].req)
    BY <2>2, AskedByRequest
  <2> QED BY <2>1, <2>2, <2>3 DEF Init, Asked
<1>2. TypeOK /\ Asked /\ [Next]_vars => (TypeOK /\ Asked)'
  BY TypeStep, AskedStep
<1>3. Asked => NoVolatileStored
  BY DEF Asked, NoVolatileStored
<1> QED BY <1>1, <1>2, <1>3, PTL DEF Spec

(* What a restart finds in routes.json can be restored as a whole, and is  *)
(* what somebody asked to persist, although saves write a copy of the      *)
(* table that was taken before the table was unlocked.                     *)
THEOREM FileIsAlwaysSound == Spec => []FileIsSound
<1>1. TypeOK /\ FileExclusive /\ NoVolatileStored => FileIsSound
  BY DEF FileIsSound
<1> QED BY TypeCorrect, StoreIsExclusive, VolatileNeverStored, <1>1, PTL

-----------------------------------------------------------------------------
(* The rows of the abstract table.                                         *)
Rows(R) == {RequestOf(r) : r \in R}

(* Losing routes is a Remove of the abstract table.                        *)
LEMMA RemoveStep == ASSUME routes' \subseteq routes PROVE Table!Next
<1>1. Rows(routes') \subseteq Rows(routes)
  BY DEF Rows
<1>2. Table!Remove
  BY <1>1 DEF Table!Remove, Rows, RequestOf
<1> QED BY <1>2 DEF Table!Next

(* Reusing a route is a Persist, or a Remove of the routes that ended.     *)
LEMMA ReuseStep ==
  ASSUME TypeOK, ListenerExclusive, NEW p \in Procs, Reuse(p) PROVE Table!Next
<1> DEFINE q == proc[p].req
<1>1. PICK r \in Registered(q.id) :
        routes' = (Live \ {r}) \cup {[r EXCEPT !.persist = @ \/ q.persist]}
  BY DEF Reuse
<1>2. r \in Live /\ r \in routes /\ r \in Entry /\ q \in Request /\ Live \subseteq routes
  BY DEF Registered, Live, TypeOK, Proc
<1> DEFINE n == [r EXCEPT !.persist = @ \/ q.persist]
<1>3. CASE ~q.persist
  <2>1. n = r
    BY <1>2, <1>3 DEF Entry, Request
  <2> QED BY <1>1, <1>2, <2>1, RemoveStep
<1>4. CASE q.persist
  <2> DEFINE kept == Rows(Live \ {r})
             old  == RequestOf(r)
  <2>1. RequestOf(n) = [id |-> old.id, spec |-> old.spec, persist |-> TRUE]
    <3>1. (r.persist \/ q.persist) = TRUE
      BY <1>4
    <3>2. n.id = r.id /\ n.spec = r.spec /\ n.persist = TRUE
      BY <1>2, <3>1, Zenon DEF Entry
    <3> HIDE DEF n
    <3> QED BY <3>2, Zenon DEF RequestOf
  <2>2. Rows(routes') = kept \cup {[id |-> old.id, spec |-> old.spec, persist |-> TRUE]}
    BY <1>1, <2>1, Zenon DEF Rows
  <2>3. kept \in SUBSET Rows(routes) /\ old \in Rows(routes)
    BY <1>2 DEF Rows
  <2>4. \A a \in kept : a.id # old.id
    <3>1. ASSUME NEW s \in Live \ {r} PROVE RequestOf(s).id # old.id
      BY <1>2 DEF ListenerExclusive, Exclusive, RequestOf
    <3> QED BY <3>1 DEF Rows
  <2> HIDE DEF kept, old
  <2>5. Table!Persist
    BY <2>2, <2>3, <2>4, Zenon DEF Table!Persist, Rows, RequestOf
  <2> QED BY <2>5 DEF Table!Next
<1> QED BY <1>3, <1>4

(* Spawning a supervisor is an Add: the checks were made in the same       *)
(* critical section.                                                       *)
LEMMA SpawnStep ==
  ASSUME TypeOK, NEW p \in Procs, CanStart(p), Spawn(p) PROVE Table!Next
<1> DEFINE q == proc[p].req
<1>1. PICK t \in Spawnable :
        routes' = {r \in Live : r.id # q.id}
          \cup {[id |-> q.id, spec |-> q.spec, persist |-> q.persist, task |-> t]}
  BY DEF Spawn
<1> DEFINE n    == [id |-> q.id, spec |-> q.spec, persist |-> q.persist, task |-> t]
           K    == {r \in Live : r.id # q.id}
           kept == Rows(K)
           new  == RequestOf(n)
<1>2. q \in Request
  BY DEF TypeOK, Proc
<1>3. new \in Table!Row /\ new.id = q.id /\ new.spec = q.spec
  BY <1>2 DEF RequestOf, Request, Table!Row, RouteSpecs, Directions, Table!RouteSpecs,
              Table!Directions
<1>4. Rows(routes') = kept \cup {new}
  BY <1>1 DEF Rows
<1>5. kept \in SUBSET Rows(routes)
  BY DEF Rows, Live
<1>6. \A a \in kept : a.id # new.id /\ ~route_reserves_listener(a.spec, new.spec)
  <2>1. ASSUME NEW s \in K
        PROVE  /\ RequestOf(s).id # new.id
               /\ ~route_reserves_listener(RequestOf(s).spec, new.spec)
    <3>1. s.id # q.id /\ ~route_reserves_listener(s.spec, q.spec)
      BY DEF CanStart, Owner
    <3>2. RequestOf(s).id = s.id /\ RequestOf(s).spec = s.spec
      BY DEF RequestOf
    <3> QED BY <1>3, <3>1, <3>2
  <2> QED BY <2>1, SMTT(30) DEF Rows
<1> HIDE DEF kept, new
<1>7. Table!Add
  BY <1>3, <1>4, <1>5, <1>6, SMTT(30)
  DEF Table!Add, Rows, RequestOf, route_reserves_listener, Table!route_reserves_listener
<1> QED BY <1>7 DEF Table!Next

(* Every step of the registry is a step of the abstract table.             *)
LEMMA TableStep == TypeOK /\ ListenerExclusive /\ [Next]_vars => Table!Next
<1> SUFFICES ASSUME TypeOK, ListenerExclusive, [Next]_vars PROVE Table!Next
  OBVIOUS
<1> USE DEF Procs
<1>1. ASSUME NEW p \in Procs, StartCheck(p) PROVE Table!Next
  BY <1>1, RemoveStep, ReuseStep DEF StartCheck, Refuse, Live
<1>2. ASSUME NEW p \in Procs, StartInsert(p) PROVE Table!Next
  BY <1>2, RemoveStep, ReuseStep, SpawnStep DEF StartInsert, Refuse, Live
<1>3. ASSUME NEW c \in Clients, \/ start_route(c) \/ stop_route(c) \/ restart_route(c)
                                \/ StopWaited(c) \/ RestartAbort(c) \/ RestartJoined(c)
                                \/ SaveSnapshot(c) \/ SaveWrite(c)
      PROVE  routes' \subseteq routes
  BY <1>3, Zenon DEF start_route, stop_route, restart_route, StopWaited, RestartAbort,
              RestartJoined, SaveSnapshot, SaveWrite
<1>4. ASSUME RestoreRead \/ RestoreNext \/ Restart \/ UNCHANGED vars
      PROVE  routes' \subseteq routes
  BY <1>4, Zenon DEF RestoreRead, RestoreNext, Restart, vars
<1>5. ASSUME NEW t \in Tasks, TaskEnds(t) \/ TaskPanics(t) PROVE routes' \subseteq routes
  BY <1>5 DEF TaskEnds, TaskPanics
<1> QED
  BY <1>1, <1>2, <1>3, <1>4, <1>5, RemoveStep DEF Next, ClientStep, RestoreStep

(* The registry, with its unlocked gaps, its tasks and its crashes,        *)
(* implements the one-at-a-time table of RouteTable.                       *)
THEOREM RegistryImplementsTable == Spec => ImplementsTable
<1>1. Init => Table!Init
  BY DEF Init, Table!Init
<1>2. Init => TypeOK /\ ListenerExclusive
  BY BootType DEF Init, TypeOK, ListenerExclusive, Exclusive
<1>3. TypeOK /\ ListenerExclusive /\ [Next]_vars => (TypeOK /\ ListenerExclusive)'
  BY TypeStep, ExclusiveStep
<1> QED BY <1>1, <1>2, <1>3, TableStep, PTL DEF Spec, ImplementsTable, Table!Spec

(* Reusing a running route never makes it volatile again.                  *)
THEOREM PersistenceIsSticky == Spec => PersistSticky
<1> DEFINE Sticky == \A r \in Live : \A s \in routes' :
                       r.id = s.id /\ r.task = s.task /\ r.persist => s.persist
<1>1. Init => TypeOK /\ ListenerExclusive
  BY BootType DEF Init, TypeOK, ListenerExclusive, Exclusive
<1>2. TypeOK /\ ListenerExclusive /\ [Next]_vars => (TypeOK /\ ListenerExclusive)'
  BY TypeStep, ExclusiveStep
<1>3. TypeOK /\ ListenerExclusive /\ [Next]_vars => Sticky
  <2> SUFFICES ASSUME TypeOK, ListenerExclusive, [Next]_vars,
                      NEW r \in Live, NEW s \in routes',
                      r.id = s.id, r.task = s.task, r.persist
               PROVE  s.persist
    OBVIOUS
  <2>1. CASE s \in routes
    BY <2>1 DEF Live, ListenerExclusive, Exclusive
  <2>2. ASSUME NEW p \in Procs, NEW o \in routes, s.id = o.id,
               s.persist = (o.persist \/ proc[p].req.persist)
        PROVE  s.persist
    <3>1. o = r
      BY <2>2, SMTT(30) DEF Live, ListenerExclusive, Exclusive
    <3> QED BY <2>2, <3>1, Zenon
  <2>3. ASSUME NEW p \in Procs, Spawn(p) PROVE s \in routes
    BY <2>3 DEF Spawn, Spawnable, Live
  <2> QED BY <2>1, <2>2, <2>3, RouteStep
<1> QED BY <1>1, <1>2, <1>3, PTL DEF Spec, PersistSticky

=============================================================================
