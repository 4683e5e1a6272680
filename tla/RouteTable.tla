----------------------------- MODULE RouteTable -----------------------------
(***************************************************************************)
(* What the route table promises its users, whatever the interleaving: it  *)
(* changes one route at a time, a route is added only while its id and its *)
(* listener are free, a route that is there may be made persistent, and    *)
(* routes of ended tasks drop out.                                         *)
(***************************************************************************)
EXTENDS RouteConflict

CONSTANT Ids

VARIABLE table   \* the registered routes: id, spec and persist

Row == [id : Ids, spec : RouteSpecs, persist : BOOLEAN]

Init == table = {}

(* Rows may disappear at any time: a route is stopped, its task ends, or   *)
(* the daemon restarts.                                                    *)
Remove == table' \in SUBSET table

(* A row is added to what is left of the table.                            *)
Add ==
  \E kept \in SUBSET table, new \in Row :
    /\ \A r \in kept : r.id # new.id /\ ~route_reserves_listener(r.spec, new.spec)
    /\ table' = kept \cup {new}

Persist ==
  \E kept \in SUBSET table, old \in table :
    /\ \A r \in kept : r.id # old.id
    /\ table' = kept \cup {[id |-> old.id, spec |-> old.spec, persist |-> TRUE]}

Next == Remove \/ Add \/ Persist

Spec == Init /\ [][Next]_table

=============================================================================
