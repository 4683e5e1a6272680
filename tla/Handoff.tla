-------------------------------- MODULE Handoff --------------------------------
(***************************************************************************)
(* The readiness probe of a reverse route's remote port, run before the    *)
(* remote settings name that port: wait_remote_port_ready of               *)
(* crates/ssh-proxy/src/node_daemon/handoff.rs. Time is counted in units   *)
(* of the first delay (250 ms).                                            *)
(***************************************************************************)
EXTENDS Naturals

CONSTANTS Budget,        \* what the caller allows for the probing
          InitialDelay,  \* INITIAL_DELAY
          DelayCap,      \* MAX_DELAY
          ProbeTimeout   \* PROBE_TIMEOUT, of the connection and of the answer

VARIABLES port,   \* who listens on the remote port
          probe   \* the probing task

handoffVars == <<port, probe>>

Least(a, b) == IF a < b THEN a ELSE b

\* "slow" is the route's listener taking longer than the timeout.
Ports == {"closed", "filtered", "proxy", "slow", "foreign"}

\* What the text of the error is recognised as. The time-out of the
\* fingerprint names the fingerprint, the one of the connection names nothing
\* that is looked for.
classify_probe_error(p) ==
    CASE p = "closed" -> "remote_port_refused"
      [] p \in {"foreign", "slow"} -> "remote_port_conflict"
      [] p = "filtered" -> "ssh_direct_tcpip_failed"

terminal_probe_failure(class) == class = "remote_port_conflict"

\* How long one attempt takes.
Took(p) ==
    CASE p = "filtered" -> {ProbeTimeout}
      [] p = "slow" -> ProbeTimeout..(2 * ProbeTimeout)
      [] p \in {"proxy", "foreign"} -> {0, 1, 2 * ProbeTimeout}
      [] p = "closed" -> {0, 1}

Init ==
    /\ port \in Ports
    /\ probe = [pc |-> "connect", attempts |-> 0, delay |-> InitialDelay,
                elapsed |-> 0, blocker |-> "none", met |-> {}]

\* The SSH connection, within min(15 s, budget); it is not part of the budget.
Connected ==
    /\ probe.pc = "connect"
    /\ probe' = [probe EXCEPT !.pc = "try"]
    /\ UNCHANGED port

ConnectFails ==
    /\ probe.pc = "connect"
    /\ probe' = [probe EXCEPT !.pc = "failed",
                              !.blocker = "ssh_direct_tcpip_failed"]
    /\ UNCHANGED port

\* One turn of the loop up to the sleep: connect and compare the fingerprint.
Attempt ==
    /\ probe.pc = "try"
    /\ \E t \in Took(port) :
         LET now == probe.elapsed + t
             tried == [probe EXCEPT !.attempts = @ + 1, !.elapsed = now,
                                    !.met = @ \cup {port}]
             class == classify_probe_error(port)
         IN  probe' = IF port = "proxy"
                      THEN [tried EXCEPT !.pc = "ready"]
                      ELSE IF terminal_probe_failure(class) \/ now >= Budget
                      THEN [tried EXCEPT !.pc = "failed", !.blocker = class]
                      ELSE [tried EXCEPT !.pc = "sleep"]
    /\ UNCHANGED port

\* A slip: the elapsed time starts again with each attempt.
SleepAnew ==
    /\ probe.pc = "sleep"
    /\ probe' = [probe EXCEPT !.pc = "try", !.elapsed = 0, !.attempts = 0,
                              !.delay = Least(2 * @, DelayCap)]
    /\ UNCHANGED port

\* The sleep, and the next delay.
Sleep ==
    /\ probe.pc = "sleep"
    /\ probe' = [probe EXCEPT !.pc = "try",
                     !.elapsed = @ + Least(probe.delay, Budget - @),
                     !.delay = Least(2 * @, DelayCap)]
    /\ UNCHANGED port

\* The route comes up, goes away, or something else takes the port.
PortChanges ==
    /\ port' \in Ports \ {port}
    /\ probe.pc \notin {"ready", "failed"}
    /\ UNCHANGED probe

Step == Connected \/ ConnectFails \/ Attempt \/ Sleep
HandoffNext == Step \/ PortChanges
Spec == Init /\ [][HandoffNext]_handoffVars /\ WF_handoffVars(Step)

-----------------------------------------------------------------------------
TypeOK ==
    /\ port \in Ports
    /\ probe.pc \in {"connect", "try", "sleep", "ready", "failed"}
    /\ probe.attempts \in 0..(2 + Budget)
    /\ probe.delay \in InitialDelay..DelayCap
    /\ probe.elapsed \in Nat
    /\ probe.met \subseteq Ports

\* Only a listener of another kind ends the probing before its budget, and it
\* never outlasts the budget by more than one attempt
\* (only_protocol_conflicts_fail_fast, and the sleep cut to what is left).
UsesItsBudget ==
    /\ probe.elapsed <= Budget + 2 * ProbeTimeout
    /\ probe.pc = "failed" /\ probe.attempts > 0
            /\ probe.met \subseteq {"closed", "filtered"} =>
           probe.elapsed >= Budget

\* The probing is over (apply_settings and route_ready wait for it).
ProbeIsOver == probe.pc \in {"ready", "failed"}

=============================================================================
