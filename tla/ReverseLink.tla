----------------------------- MODULE ReverseLink -----------------------------
(***************************************************************************)
(* `ssh_proxy reverse`: the loop that opens a helper on the SSH host, is   *)
(* its egress for as long as the transport lasts, and tries again after a  *)
(* delay that doubles up to a maximum.                                     *)
(*                                                                         *)
(* link.pc is where the loop is; helper[h] is the process the h-th attempt *)
(* started on the host, which binds the listener or fails, and ends once   *)
(* its input does.  A "deaf" helper is one whose connection broke without  *)
(* the host noticing yet: it keeps the listener.  A "late" one has lost    *)
(* its connection before it came to bind, which it still does.             *)
(***************************************************************************)
EXTENDS Integers, FiniteSets

CONSTANTS MaxAttempts, BaseDelay, MaxDelay

\* reconnect_max_delay_secs, but never below the first delay.
max_delay == IF MaxDelay > BaseDelay THEN MaxDelay ELSE BaseDelay

VARIABLES link, helper

reverseVars == <<link, helper>>

Attempts == 1 .. MaxAttempts
MinOf(a, b) == IF a < b THEN a ELSE b

TypeOK ==
    /\ link \in [pc : {"connect", "serving", "retry", "ended"}, delay : 0 .. max_delay,
                 n : 0 .. MaxAttempts, reconnect : BOOLEAN, failures : 0 .. MaxAttempts]
    /\ helper \in [Attempts -> {"none", "starting", "late", "listening", "deaf", "gone"}]

Init ==
    /\ link \in [pc : {"connect"}, delay : {BaseDelay}, n : {0}, reconnect : BOOLEAN,
                 failures : {0}]
    /\ helper = [h \in Attempts |-> "none"]

\* open_remote_reverse_socks within the timeout: the helper is started and the delay is reset.
\* Nothing waits for the helper's listener.
Open ==
    /\ link.pc = "connect" /\ link.n < MaxAttempts
    /\ link' = [link EXCEPT !.pc = "serving", !.delay = BaseDelay, !.n = @ + 1, !.failures = 0]
    /\ helper' = [helper EXCEPT ![link.n + 1] = "starting"]

AfterFailure(l) ==
    [l EXCEPT !.pc = IF l.reconnect THEN "retry" ELSE "ended", !.failures = @ + 1]

\* The connection is refused or takes longer than the timeout, which drops the connection: the
\* helper may have been started by then.
OpenFails ==
    /\ link.pc = "connect" /\ link.n < MaxAttempts
    /\ link' = AfterFailure([link EXCEPT !.n = @ + 1])
    /\ \E s \in {"none", "late"} : helper' = [helper EXCEPT ![link.n + 1] = s]

\* A slip: a loop that was told of an end leaves the helper with its input open.
TransportEndsDeaf ==
    /\ link.pc = "serving"
    /\ link' = AfterFailure(link)
    /\ UNCHANGED helper

\* The helper binds, or finds the address taken and ends.  It binds before it looks at its input.
HelperBinds(h) ==
    /\ helper[h] \in {"starting", "late"}
    /\ helper' = [helper EXCEPT ![h] =
                    CASE \E g \in Attempts : helper[g] \in {"listening", "deaf"} -> "gone"
                      [] OTHER -> IF @ = "late" THEN "deaf" ELSE "listening"]
    /\ UNCHANGED link

\* The transport ends: the helper is gone, or the connection broke.  In the second case the
\* helper lives on until the host notices.
TransportEnds ==
    /\ link.pc = "serving"
    /\ \/ helper[link.n] = "gone" /\ UNCHANGED helper
       \/ /\ helper[link.n] \in {"starting", "listening"}
          /\ helper' = [helper EXCEPT ![link.n] = IF @ = "listening" THEN "deaf" ELSE "late"]
    /\ link' = AfterFailure(link)

\* Its input ends at last and the helper leaves its loop.
HelperEnds(h) ==
    /\ helper[h] = "deaf"
    /\ helper' = [helper EXCEPT ![h] = "gone"]
    /\ UNCHANGED link

\* The sleep, then the delay of the next failure.
Sleep ==
    /\ link.pc = "retry"
    /\ link' = [link EXCEPT !.pc = "connect", !.delay = MinOf(link.delay * 2, max_delay)]
    /\ UNCHANGED helper

ReverseNext ==
    \/ Open \/ OpenFails \/ TransportEnds \/ Sleep
    \/ \E h \in Attempts : HelperBinds(h) \/ HelperEnds(h)

Spec == Init /\ [][ReverseNext]_reverseVars

-----------------------------------------------------------------------------
\* Before the loop sleeps, its delay is the first one doubled once for every attempt that
\* failed in a row before the last, up to the maximum: an attempt that opened starts over.
DelayDoubles ==
    link.pc = "retry"
    => link.delay = MinOf(BaseDelay * 2 ^ (link.failures - 1), max_delay)

\* At most one helper holds the listener on the host, and a link is not served by a helper
\* while the one of an earlier connection still holds it.
OneListener ==
    /\ Cardinality({h \in Attempts : helper[h] \in {"listening", "deaf"}}) <= 1
    /\ \A h \in Attempts : helper[h] = "listening" => link.pc = "serving" /\ h = link.n
=============================================================================
