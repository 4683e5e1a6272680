------------------------------ MODULE MCDaemon ------------------------------
(* The instance of Daemon for TLC.                                         *)
EXTENDS Daemon, TLC

RouteOf(p) == [direction |-> "forward", listen |-> "l1", peer |-> p, identity |-> "k1", args |-> "a"]

Req(i, p, b) == [id |-> i, spec |-> RouteOf(p), persist |-> b]

(* Forward routes: one listener asked for through two peers under two ids, *)
(* one of the routes both persistent and volatile.                         *)
ForwardRequests == { Req("r1", "p1", TRUE), Req("r2", "p2", TRUE), Req("r1", "p1", FALSE) }

SessionOf(m, l, a, v) == [mode |-> m, local |-> l, auto |-> a, verify |-> v]

(* One client's request, a fixed port that is verified.                    *)
Fixed == { SessionOf("reverse_link", "x", FALSE, TRUE) }

(* Two requests of one workspace for different local proxies: that of the  *)
(* defaults, mode auto with ports picked automatically, and a fixed one.   *)
MixedRequests ==
  { SessionOf("auto", "x", TRUE, TRUE), SessionOf("reverse_link", "y", FALSE, FALSE) }

(* Clients, task handles and job tasks are interchangeable.                *)
Sym == Permutations(Clients) \cup Permutations(Tasks) \cup Permutations(Runners)

=============================================================================
