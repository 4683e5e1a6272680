--------------------------- MODULE RouteConflict ---------------------------
(***************************************************************************)
(* The route conflict policy of the crate ssh-proxy-route: when two route  *)
(* requests mean the same route, and when a registered route owns the      *)
(* listener a new one asks for.                                            *)
(*                                                                         *)
(* A specification is a record.  `direction' is "forward" or "reverse",    *)
(* `listen' the socket address, `peer' the SSH target, `identity' the list *)
(* of SSH identity files, and `args' stands for every other argument.      *)
(***************************************************************************)
CONSTANTS Listens, Peers, Identities, Args

Directions == {"forward", "reverse"}

RouteSpecs == [direction : Directions, listen : Listens, peer : Peers,
               identity : Identities, args : Args]

(* The part of a specification two routes are compared on: a reverse route *)
(* is compared without its identity files.                                 *)
normalized_route_spec(s) ==
  [direction |-> s.direction, listen |-> s.listen, peer |-> s.peer, args |-> s.args,
   identity  |-> IF s.direction = "reverse" THEN {} ELSE {s.identity}]

route_specs_match_values(s, t) == normalized_route_spec(s) = normalized_route_spec(t)

route_matches(s, t) ==
  /\ s.direction = t.direction
  /\ s.listen = t.listen
  /\ s.peer = t.peer
  /\ route_specs_match_values(s, t)

(* A registered route s owns the listener the candidate t asks for.  A     *)
(* forward listener is local, a reverse listener belongs to the peer.      *)
route_reserves_listener(s, t) ==
  /\ s.direction = t.direction
  /\ s.listen = t.listen
  /\ t.direction = "forward" \/ s.peer = t.peer

=============================================================================
