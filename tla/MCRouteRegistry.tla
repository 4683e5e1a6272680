-------------------------- MODULE MCRouteRegistry --------------------------
(* The instance of RouteRegistry for TLC.                                    *)
EXTENDS RouteRegistry

SpecOf(d, l, p, i) == [direction |-> d, listen |-> l, peer |-> p, identity |-> i, args |-> "a"]

Req(i, s, b) == [id |-> i, spec |-> s, persist |-> b]

(* Reverse routes: one address on two peers, two identities of one route,  *)
(* a route asked for both volatile and persistent.                         *)
ReverseRequests ==
  { Req("r1", SpecOf("reverse", "l1", "p1", "k1"), FALSE),
    Req("r1", SpecOf("reverse", "l1", "p1", "k2"), TRUE),
    Req("r2", SpecOf("reverse", "l1", "p1", "k1"), FALSE),
    Req("r2", SpecOf("reverse", "l1", "p2", "k1"), FALSE) }

=============================================================================
