------------------------------ MODULE JobStore ------------------------------
(***************************************************************************)
(* The daemon's registry of jobs: a map kept in memory, pruned of its      *)
(* oldest terminal jobs and saved whole at every upsert; read back when    *)
(* the daemon starts.                                                      *)
(*                                                                         *)
(* store.mem and store.disk map every id to its record: "none", "live"     *)
(* (queued, running, waiting for a retry) or "terminal" (healthy, failed,  *)
(* cancelled), with the second of its last update.  disk.readable is FALSE *)
(* once the file is damaged.  `acked` holds the live jobs of which an      *)
(* upsert has returned Ok.  Event texts are left out.                      *)
(***************************************************************************)
EXTENDS Integers, FiniteSets

CONSTANTS JobIds, MaxTerminal, MaxClock

VARIABLES store, clock

jobVars == <<store, clock>>

Absent == [state |-> "none", at |-> 0]
Records == [state : {"none", "live", "terminal"}, at : 0 .. MaxClock]
Empty == [j \in JobIds |-> Absent]

TypeOK ==
    /\ store \in [mem : [JobIds -> Records], disk : [JobIds -> Records], readable : BOOLEAN,
                  acked : SUBSET JobIds, up : BOOLEAN]
    /\ clock \in 0 .. MaxClock

Init ==
    /\ store = [mem |-> Empty, disk |-> Empty, readable |-> TRUE, acked |-> {}, up |-> TRUE]
    /\ clock = 0

Terminal(m) == {j \in JobIds : m[j].state = "terminal"}
Live(m) == {j \in JobIds : m[j].state = "live"}

\* sort_by_key is stable over the map's order, here the order of the ids.
Older(m, i, j) == m[i].at < m[j].at \/ (m[i].at = m[j].at /\ i < j)

\* prune_store: the first of the terminal jobs in the order of their last update go, so that
\* MaxTerminal stay.
prune_store(m) ==
    LET old == {j \in Terminal(m) :
                    Cardinality({i \in Terminal(m) : Older(m, j, i)}) >= MaxTerminal}
    IN [j \in JobIds |-> IF j \in old THEN Absent ELSE m[j]]

\* A slip: the map is saved as it was before the insertion.
UpsertSavedEarly(j, state) ==
    LET m == prune_store([store.mem EXCEPT ![j] = [state |-> state, at |-> clock]]) IN
    /\ store.up
    /\ store' = [store EXCEPT !.mem = m, !.disk = store.mem, !.readable = TRUE,
                    !.acked = IF state = "live" THEN @ \cup {j} ELSE @ \ {j}]
    /\ UNCHANGED clock

\* upsert under the lock: insert, prune, save.  A save that fails leaves the memory changed
\* and the caller with an error.
Upsert(j, state) ==
    LET m == prune_store([store.mem EXCEPT ![j] = [state |-> state, at |-> clock]]) IN
    /\ store.up
    /\ \/ store' = [store EXCEPT !.mem = m, !.disk = m, !.readable = TRUE,
                       !.acked = IF state = "live" THEN @ \cup {j} ELSE @ \ {j}]
       \/ store' = [store EXCEPT !.mem = m,
                       !.acked = IF state = "live" THEN @ ELSE @ \ {j}]
    /\ UNCHANGED clock

\* The process ends.
Stop ==
    /\ store.up
    /\ store' = [store EXCEPT !.up = FALSE, !.mem = Empty]
    /\ UNCHANGED clock

\* The file is damaged while no daemon runs.
Damage ==
    /\ ~store.up
    /\ store' = [store EXCEPT !.readable = FALSE]
    /\ UNCHANGED clock

\* load: a file that cannot be read or parsed is an empty registry, which the next upsert
\* saves over it.
Load ==
    /\ ~store.up
    /\ store' = [store EXCEPT !.up = TRUE,
                    !.mem = IF store.readable THEN store.disk ELSE Empty,
                    !.acked = IF store.readable THEN @ ELSE {}]
    /\ UNCHANGED clock

Tick == clock < MaxClock /\ clock' = clock + 1 /\ UNCHANGED store

JobNext ==
    \/ \E j \in JobIds, state \in {"live", "terminal"} : Upsert(j, state)
    \/ Stop \/ Damage \/ Load \/ Tick

Spec == Init /\ [][JobNext]_jobVars

-----------------------------------------------------------------------------
\* A job that was acknowledged and has not ended is in the registry of a running daemon,
\* whatever restarts and failed saves came between, unless the file was unreadable.
AckedSurvives == store.up => store.acked \subseteq Live(store.mem)

\* A job leaves the registry of a running daemon only to make room: MaxTerminal terminal jobs
\* stay, none of them updated before it.  A job that has just been updated leaves only if
\* all those were updated in the same second.
PrunesOldestTerminal ==
    (store.up /\ store'.up) =>
         \A j \in JobIds :
            (store.mem[j].state # "none" /\ store'.mem[j].state = "none")
            => /\ Cardinality(Terminal(store'.mem)) = MaxTerminal
               /\ \A i \in Terminal(store'.mem) :
                    store'.mem[i].at >= IF j \in Live(store.mem) THEN clock
                                        ELSE store.mem[j].at
=============================================================================
