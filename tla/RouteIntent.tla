------------------------------ MODULE RouteIntent ------------------------------
(***************************************************************************)
(* From `ssh_proxy route ...` to a started route: which transport the      *)
(* daemon selects, how a preflight of the direct endpoints may overrule    *)
(* it, when the peer is adopted or bootstrapped first, and the plan the    *)
(* user is shown (crates/ssh-proxy-route/src, crates/ssh-proxy/src/route   *)
(* and node_daemon/peers/route_intent.rs).                                 *)
(*                                                                         *)
(* Every intent is a task of the daemon.  It works on copies of the shared *)
(* configuration, which another intent on the same alias may change while  *)
(* this one is probing or talking to the peer.                             *)
(***************************************************************************)
EXTENDS Naturals, FiniteSets, Sequences

CONSTANTS Intents,   \* the intents the daemon is handed
          Cases,     \* the situations: configuration, peer and what is asked
          MaxToken   \* bound on the tokens ever made for the peer

VARIABLES config,  \* the daemon's configuration, for the one alias
          peer,    \* the remote machine
          intent,  \* the tasks
          hist     \* what the properties look back on

intentVars == <<config, peer, intent, hist>>

None == "none"
NoToken == 0

\* Addresses: whose machine, and whether only that machine can reach it.
Loopback == {"hereLoop", "thereLoop"}
First(s, d) == IF \A n \in DOMAIN s : s[n] = None THEN d
               ELSE s[CHOOSE n \in DOMAIN s :
                          s[n] # None /\ \A k \in 1..(n - 1) : s[k] = None]
FirstToken(s) == IF \A n \in DOMAIN s : s[n] = NoToken THEN NoToken
                 ELSE s[CHOOSE n \in DOMAIN s :
                            s[n] # NoToken
                                /\ \A k \in 1..(n - 1) : s[k] = NoToken]

Modes == {"auto", "ssh-native", "quic-native", "quic", "tls-tcp", "plain-tcp",
          "ssh-exec", "ssh-direct-tcpip"}

-----------------------------------------------------------------------------
(* Which transport. *)

persistent_peer_ready(p) ==
    p.path /\ p.control /\ (p.tcp # None \/ p.tls # None \/ p.quic # None)

plain_tcp_auto_source(a, c, default) ==
    IF a.plain THEN "cli"
    ELSE IF c.profile.plain THEN "profile"
    ELSE IF c.defaults.plain THEN "benchmark-tuned default"
    ELSE default

Selected(t, s) == [transport |-> t, source |-> s]

\* The order of precedence; a value that does not parse is an error.
transport_selection_policy(a, c, quic, tls, plain) ==
    LET wish == c.profile.transport
        fall == c.defaults.transport
    IN  IF a.transport # "auto" THEN Selected(a.transport, "cli")
        ELSE IF wish # None /\ wish \notin Modes THEN Selected(None, "error")
        ELSE IF wish \notin {None, "auto"} THEN Selected(wish, "profile")
        ELSE IF tls # None THEN Selected("tls-tcp", "topology")
        ELSE IF quic # None THEN Selected("quic", "topology")
        ELSE IF fall # None /\ fall \notin Modes THEN Selected(None, "error")
        ELSE IF fall \notin {None, "auto", "plain-tcp"}
             THEN Selected(fall, "defaults")
        ELSE IF plain
             THEN Selected("plain-tcp",
                           plain_tcp_auto_source(a, c,
                               IF fall = "plain-tcp"
                               THEN "benchmark-tuned default" ELSE "cli"))
        ELSE IF persistent_peer_ready(c.peer)
             THEN Selected("ssh-direct-tcpip", "peer-default")
        ELSE Selected("ssh-native", "topology")

direct_transport_policy(t) ==
    CASE t = "tls-tcp" -> "production_direct"
      [] t = "plain-tcp" -> "lab_baseline"
      [] t \in {"quic", "quic-native"} -> "experimental"
      [] OTHER -> None

tls_peer_auth_mode(f) ==
    IF f.transport # "tls-tcp" THEN None
    ELSE IF f.cert /\ f.key THEN "mutual_tls"
    ELSE IF ~f.cert /\ ~f.key THEN "server_auth"
    ELSE "invalid_client_auth_config"

ssh_mode_name(t) ==
    CASE t = "ssh-native" -> "native-direct-tcpip"
      [] t = "ssh-direct-tcpip" -> "spx-over-ssh-direct"
      [] t = "ssh-exec" -> "ssh-exec-helper"
      [] OTHER -> None

ssh_data_plane_reason(t, source) ==
    CASE t \notin {"ssh-native", "ssh-direct-tcpip", "ssh-exec"} -> None
      [] source \in {"cli", "profile"} -> "explicit_user_choice"
      [] t = "ssh-native" -> "simple_egress"
      [] t = "ssh-direct-tcpip" -> "daemon_policy_required"
      [] OTHER -> "ssh_exec_compatibility"

-----------------------------------------------------------------------------
(* How many workers: 0 is a size nobody has set. *)

AtLeastOne(n) == IF n = 0 THEN 1 ELSE n
Sized(n, s) == [size |-> n, source |-> s]

workload_hint_policy(a, c) ==
    First(<<a.hint, c.profile.hint, c.defaults.hint>>,
          IF a.tcpTarget THEN "large" ELSE "concurrent")

plan_transport_pool(a, c) ==
    IF a.pool.set THEN Sized(AtLeastOne(a.pool.size), "command-line")
    ELSE IF c.profile.pool.set
         THEN Sized(AtLeastOne(c.profile.pool.size), "profile")
    ELSE IF c.defaults.pool.set
         THEN Sized(AtLeastOne(c.defaults.pool.size), "defaults")
    ELSE Sized(IF workload_hint_policy(a, c) = "large" \/ a.tcpTarget
               THEN 1 ELSE 4, "implicit")

plan_ssh_session_pool(a, c) ==
    IF a.sshPool.set THEN Sized(AtLeastOne(a.sshPool.size), "command-line")
    ELSE IF c.profile.sshPool.set
         THEN Sized(AtLeastOne(c.profile.sshPool.size), "profile")
    ELSE IF c.defaults.sshPool.set
         THEN Sized(IF c.defaults.sshPool.size > 2 THEN 2
                    ELSE AtLeastOne(c.defaults.sshPool.size), "defaults")
    ELSE Sized(IF a.tcpTarget THEN 1 ELSE 2, "implicit")

-----------------------------------------------------------------------------
(* The task handed to the route registry. *)

NoProbes == [p \in {} |-> None]

route_runtime(a, c) == [pool |-> plan_transport_pool(a, c),
                        sshPool |-> plan_ssh_session_pool(a, c)]

node_forward_from_route(a, c) ==
    LET tcp   == First(<<a.tcp, c.profile.tcp, c.defaults.tcp>>, "thereLoop")
        quic  == First(<<a.quic, c.profile.quic, c.defaults.quic>>, None)
        tls   == First(<<a.tls, c.profile.tls, c.defaults.tls>>, None)
        plain == a.plain \/ c.profile.plain \/ c.defaults.plain
        sel   == transport_selection_policy(a, c, quic, tls, plain)
    IN  [transport |-> sel.transport, source |-> sel.source,
         tcp |-> tcp, quic |-> quic, tls |-> tls, plain |-> plain,
         ca |-> c.profile.ca, cert |-> c.profile.cert, key |-> c.profile.key,
         token |-> FirstToken(<<a.token, c.profile.token>>),
         pool |-> route_runtime(a, c).pool,
         sshPool |-> route_runtime(a, c).sshPool,
         recommended |-> FALSE]

\* A route the peer owns: the peer is told to dial this machine.
remote_direct_host_args(a, c, localPeer) ==
    LET f == [node_forward_from_route(a, c) EXCEPT !.tcp = localPeer,
                                                   !.token = c.token]
    IN  IF f.quic # None \/ f.tls # None \/ f.source = "error" THEN f
        ELSE [f EXCEPT !.plain = a.plain,
                       !.transport = IF a.plain THEN "plain-tcp" ELSE "auto",
                       !.source = IF a.plain THEN "cli" ELSE "topology"]

selected_endpoint(f) ==
    CASE f.transport \in {"quic", "quic-native"} -> f.quic
      [] f.transport = "tls-tcp" -> f.tls
      [] f.transport \in {"plain-tcp", "ssh-direct-tcpip"} -> f.tcp
      [] OTHER -> None

-----------------------------------------------------------------------------
(* The preflight. *)

\* What a probe of one direct endpoint may report: not probed, or an answer.
probe_tcp_endpoint(addr) == IF addr \in Loopback THEN {None} ELSE {"up", "down"}

probe_quic_endpoint(f) ==
    IF f.quic \in Loopback \/ ~f.ca \/ f.cert \/ f.key THEN {None}
    ELSE {"up", "down"}

transport_candidates(f) ==
    (IF f.quic # None THEN {"quic"} ELSE {})
        \cup (IF f.tls # None THEN {"tls-tcp"} ELSE {})
        \cup (IF f.plain THEN {"plain-tcp"} ELSE {})

Outcomes(f, p) == CASE p = "quic" -> probe_quic_endpoint(f)
                    [] p = "tls-tcp" -> probe_tcp_endpoint(f.tls)
                    [] p = "plain-tcp" -> probe_tcp_endpoint(f.tcp)

Probes(f) == {r \in [transport_candidates(f) -> {None, "up", "down"}] :
                  \A p \in transport_candidates(f) : r[p] \in Outcomes(f, p)}

candidate_failures(r) == {p \in DOMAIN r : r[p] = "down"}
Reached(r) == {p \in DOMAIN r : r[p] = "up"}

\* A slip: one dead endpoint is enough.
preflight_any_failure(r) == candidate_failures(r) # {}

\* Recommends ssh-native when a direct endpoint failed and none answered.
decide_route_preflight(r) == candidate_failures(r) # {} /\ Reached(r) = {}

\* The preflight overrules only what the daemon has selected by itself.
decide_route_fallback(f) ==
    /\ f.recommended
    /\ \/ f.transport = "auto"
       \/ f.source \in {"topology", "benchmark-tuned default"}

-----------------------------------------------------------------------------
(* The plan shown to the user and the metadata of the started route. *)

ssh_session_pool_report(f) ==
    IF f.transport = "ssh-native" THEN f.sshPool ELSE Sized(0, None)

explicit_user_override(source) == source \in {"cli", "profile"}

route_topology_class(f, r, jump) ==
    IF Reached(r) # {} THEN "direct-reachable"
    ELSE IF decide_route_preflight(r) THEN "ssh-only"
    ELSE IF transport_candidates(f) = {} THEN "ssh-reachable"
    ELSE IF jump THEN "mixed" ELSE "unknown-direct"

Plan(mode, owner, f, class) ==
    [mode |-> mode, owner |-> owner, transport |-> f.transport,
     source |-> f.source, policy |-> direct_transport_policy(f.transport),
     auth |-> tls_peer_auth_mode(f), sshMode |-> ssh_mode_name(f.transport),
     dataPlane |-> ssh_data_plane_reason(f.transport, f.source),
     sshPool |-> ssh_session_pool_report(f), pool |-> f.pool, class |-> class,
     override |-> explicit_user_override(f.source), reason |-> FALSE]

local_uses_remote_plan(f, r, jump) ==
    Plan("local-forward", "local", f, route_topology_class(f, r, jump))

remote_uses_local_direct_plan(f, jump) ==
    Plan("direct", "remote", f, route_topology_class(f, NoProbes, jump))

\* The task of a reverse link has no endpoint to choose and no pool to size.
node_reverse_from_route ==
    [transport |-> "ssh-reverse-link", source |-> None, tcp |-> None,
     quic |-> None, tls |-> None, plain |-> FALSE, ca |-> FALSE,
     cert |-> FALSE, key |-> FALSE, token |-> NoToken,
     pool |-> Sized(1, "fixed"), sshPool |-> Sized(0, None),
     recommended |-> FALSE]

remote_uses_local_reverse_link_plan(reason) ==
    [Plan("reverse-link", "local", node_reverse_from_route, "ssh-reachable")
        EXCEPT !.reason = reason]

\* direct_transport_policy and tls_peer_auth_mode stay as they were.
apply_to_plan(plan, f) ==
    [plan EXCEPT !.transport = f.transport, !.source = f.source,
                 !.override = explicit_user_override(f.source),
                 !.sshMode = ssh_mode_name(f.transport),
                 !.dataPlane = ssh_data_plane_reason(f.transport, f.source),
                 !.sshPool = ssh_session_pool_report(f), !.reason = TRUE]

forward_route_runtime_context(f) ==
    [transport |-> f.transport, source |-> f.source,
     policy |-> direct_transport_policy(f.transport),
     auth |-> tls_peer_auth_mode(f), sshMode |-> ssh_mode_name(f.transport),
     dataPlane |-> ssh_data_plane_reason(f.transport, f.source),
     endpoint |-> selected_endpoint(f), sshPool |-> ssh_session_pool_report(f),
     pool |-> f.pool, recommended |-> f.recommended]

to_metadata_value(c) ==
    [shown |-> c, override |-> explicit_user_override(c.source),
     class |-> IF c.recommended THEN "ssh-only" ELSE "runtime-materialized"]

-----------------------------------------------------------------------------
(* The tasks. *)

Idle == [pc |-> "new", pass |-> 1, args |-> None, forward |-> node_reverse_from_route,
         plan |-> remote_uses_local_reverse_link_plan(FALSE), here |-> None,
         token |-> NoToken, result |-> [tls |-> None, quic |-> None],
         probes |-> NoProbes, request |-> FALSE]

Init ==
    \E c \in Cases :
        /\ config = c.config
        /\ peer = c.peer
        /\ intent = [i \in Intents |->
                        IF i \in DOMAIN c.asked
                        THEN [Idle EXCEPT !.args = c.asked[i]]
                        ELSE [Idle EXCEPT !.pc = "absent"]]
        /\ hist = [tokens |-> IF c.peer.token > c.config.profile.token
                              THEN c.peer.token ELSE c.config.profile.token,
                   installs |-> [i \in Intents |-> 0],
                   shared |-> FALSE]

Args(i) == intent[i].args
At(i, pc) == intent[i].pc = pc
Moves(i, t) == intent' = [intent EXCEPT ![i] = t]

resolve_remote_use_local_peer(a) ==
    IF a.localPeer # None THEN a.localPeer
    ELSE IF config.listen \in {None} \cup Loopback THEN None
    ELSE config.listen

decide_remote_use(a) ==
    LET here == resolve_remote_use_local_peer(a)
    IN  CASE a.connect = "reverse-link" -> "reverse-link"
          [] here # None -> "direct"
          [] a.connect = "auto" -> "reverse-link"
          [] OTHER -> "error"

install_args_from_route(a, c) == FirstToken(<<a.token, c.profile.token>>)

\* Build the task and the plan from the configuration as it is now; the
\* probes follow.
BuildForward(i, t) ==
    LET f == node_forward_from_route(t.args, config)
    IN  IF f.source = "error" THEN Moves(i, [t EXCEPT !.pc = "failed"])
        ELSE Moves(i, [t EXCEPT !.pc = "probe", !.forward = f])

\* The route is handed to the registry, with a reason when it fell back.
Started(t, reason) == [t EXCEPT !.pc = "done", !.request = reason]

\* handle_route_intent up to its first await.
Begin(i) ==
    /\ At(i, "new")
    /\ LET a == Args(i)
           t == intent[i]
           use == decide_remote_use(a)
       IN  CASE a.direction = "local-uses-remote" -> BuildForward(i, t)
             [] a.direction = "remote-uses-local" /\ use = "error" ->
                    Moves(i, [t EXCEPT !.pc = "failed"])
             [] a.direction = "remote-uses-local" /\ use = "direct" ->
                    Moves(i, [t EXCEPT
                        !.pc = "ensure",
                        !.here = resolve_remote_use_local_peer(a)])
             [] OTHER ->
                    Moves(i, [Started(t, TRUE) EXCEPT
                        !.plan = remote_uses_local_reverse_link_plan(TRUE)])
    /\ UNCHANGED <<config, peer, hist>>

\* The probes have answered: decide, and start the route unless the peer has
\* to be there first.
Probe(i) ==
    /\ At(i, "probe")
    /\ \E r \in Probes(intent[i].forward) :
          LET t     == intent[i]
              f     == [t.forward EXCEPT
                           !.recommended = decide_route_preflight(r)]
              falls == decide_route_fallback(f)
              g     == IF falls THEN [f EXCEPT !.transport = "ssh-native",
                                               !.source = "route-preflight"]
                       ELSE f
              shown == local_uses_remote_plan(f, r, t.args.jump)
              plan  == IF falls THEN apply_to_plan(shown, g) ELSE shown
              next  == [t EXCEPT !.forward = g, !.plan = plan, !.probes = r]
          IN  Moves(i, IF t.pass = 1 /\ g.transport # "ssh-native"
                       THEN [next EXCEPT !.pc = "ensure"]
                       ELSE Started(next, falls))
    /\ UNCHANGED <<config, peer, hist>>

\* What ensure_peer_for_route returns to.
AfterEnsure(t) == [t EXCEPT !.pc = IF t.args.direction = "local-uses-remote"
                                   THEN "again" ELSE "host"]

\* The peer is on record: nothing to do.  Otherwise this daemon's own
\* identity is completed and the arguments of the SSH round trip are taken.
Ensure(i) ==
    /\ At(i, "ensure")
    /\ LET t == intent[i]
       IN  IF persistent_peer_ready(config.peer)
           THEN Moves(i, AfterEnsure(t)) /\ UNCHANGED config
           ELSE /\ config' = [config EXCEPT
                       !.listen = IF @ = None THEN config.transport ELSE @,
                       !.token = IF @ = NoToken THEN MaxToken + 1 ELSE @]
                /\ Moves(i, [t EXCEPT
                       !.pc = "adopt",
                       !.token = install_args_from_route(t.args, config)])
    /\ UNCHANGED <<peer, hist>>

\* Ask the peer for its descriptor over SSH.
Adopt(i) ==
    /\ At(i, "adopt")
    /\ LET t == intent[i]
       IN  \/ /\ peer.installed
              /\ peer.token \in {NoToken, t.token}
              /\ Moves(i, [t EXCEPT !.pc = "record",
                                    !.result = [tls |-> peer.tls,
                                                quic |-> peer.quic]])
           \/ Moves(i, [t EXCEPT !.pc = "install"])
    /\ UNCHANGED <<config, peer, hist>>

\* Bootstrap: a token is made if none is known, the peer's files are
\* replaced and its service is started again.
Install(i) ==
    /\ At(i, "install")
    /\ LET t     == intent[i]
           fresh == t.token = NoToken
           token == IF fresh THEN hist.tokens + 1 ELSE t.token
       IN  \/ /\ fresh => hist.tokens < MaxToken
              /\ peer' = [peer EXCEPT !.installed = TRUE, !.token = token]
              /\ hist' = [hist EXCEPT
                     !.tokens = IF fresh THEN @ + 1 ELSE @,
                     !.installs[i] = 1,
                     !.shared = @ \/ \E j \in Intents \ {i} :
                                 intent[j].pc \notin {"absent", "new", "failed"}]
              /\ Moves(i, [t EXCEPT !.pc = "record", !.token = token,
                                    !.result = [tls |-> peer.tls,
                                                quic |-> peer.quic]])
           \/ /\ Moves(i, [t EXCEPT !.pc = "failed"])
              /\ UNCHANGED <<peer, hist>>
    /\ UNCHANGED config

\* What adoption and bootstrap leave in the configuration.
record_profile(c, t) ==
    [c EXCEPT !.profile.tls = t.result.tls, !.profile.quic = t.result.quic,
              !.profile.transport = "auto", !.profile.tcp = "thereLoop",
              !.profile.token = IF t.token = NoToken THEN @ ELSE t.token,
              !.peer = [path |-> TRUE, control |-> TRUE, tcp |-> "thereLoop",
                        tls |-> t.result.tls, quic |-> t.result.quic]]

\* The change is made in memory; saving it may fail, which ends the intent.
Record(i) ==
    /\ At(i, "record")
    /\ config' = record_profile(config, intent[i])
    /\ \/ Moves(i, AfterEnsure(intent[i]))
       \/ Moves(i, [intent[i] EXCEPT !.pc = "failed"])
    /\ UNCHANGED <<peer, hist>>

\* With the peer on record the task, the plan and the probes are made anew.
Again(i) ==
    /\ At(i, "again")
    /\ BuildForward(i, [intent[i] EXCEPT !.pass = 2])
    /\ UNCHANGED <<config, peer, hist>>

\* The peer is told to start the route it owns; the request may fail.
Host(i) ==
    /\ At(i, "host")
    /\ LET c == [config EXCEPT !.token = IF @ = NoToken THEN MaxToken + 1
                                         ELSE @]
           f == remote_direct_host_args(Args(i), c, intent[i].here)
       IN  /\ config' = c
           /\ \/ /\ f.source # "error"
                 /\ Moves(i, [Started(intent[i], FALSE) EXCEPT
                        !.forward = f,
                        !.plan = remote_uses_local_direct_plan(f, Args(i).jump)])
              \/ Moves(i, [intent[i] EXCEPT !.pc = "failed"])
    /\ UNCHANGED <<peer, hist>>

IntentStep(i) == \/ Begin(i) \/ Probe(i) \/ Ensure(i) \/ Adopt(i) \/ Install(i)
                 \/ Record(i) \/ Again(i) \/ Host(i)

IntentNext == \E i \in Intents : IntentStep(i)

Spec == Init /\ [][IntentNext]_intentVars

-----------------------------------------------------------------------------
TypeOK ==
    \A i \in Intents :
        /\ intent[i].pc \in {"absent", "new", "probe", "ensure", "adopt",
                             "install", "record", "again", "host", "done", "failed"}
        /\ intent[i].forward.pool.size >= 1
        /\ intent[i].forward.transport \in Modes \cup {"ssh-reverse-link"}

Done(i) == At(i, "done")
Forwards(i) == Done(i) /\ Args(i).direction = "local-uses-remote"

\* What the user names on the command line is what is started: neither the
\* preflight nor the peer adopted or bootstrapped on the way (which rewrites
\* the profile) changes a transport given with --remote-transport
\* (decision.rs transport_selection_policy, preflight.rs may_override).
CliChoiceKept ==
    \A i \in Intents :
        Forwards(i) /\ Args(i).transport # "auto" =>
            /\ intent[i].forward.transport = Args(i).transport
            /\ intent[i].forward.source = "cli"
            /\ ~intent[i].request

\* A route falls back to ssh-native exactly when the daemon chose the
\* transport by itself and the last preflight found a direct endpoint dead
\* and none alive; the reason is handed on with the route in that case only.
FallbackIsEarned ==
    \A i \in Intents :
        Forwards(i) =>
            LET t == intent[i]
            IN  /\ t.request <=> t.forward.source = "route-preflight"
                /\ t.request => /\ t.forward.transport = "ssh-native"
                                /\ \E p \in DOMAIN t.probes : t.probes[p] = "down"
                                /\ \A p \in DOMAIN t.probes : t.probes[p] # "up"
                /\ t.forward.source \in {"topology", "benchmark-tuned default"}
                       => \/ \E p \in DOMAIN t.probes : t.probes[p] = "up"
                          \/ \A p \in DOMAIN t.probes : t.probes[p] # "down"

\* The plan the user is shown, changed in place by a fallback, says of the
\* transport, its origin, the SSH mode and the pools what the metadata
\* computed from the started task says (preflight.rs apply_to_plan against
\* runtime_decision.rs).  The direct policy is stale after a fallback.
PlanTellsTheRoute ==
    \A i \in Intents :
        Forwards(i) =>
            LET p == intent[i].plan
                v == to_metadata_value(
                         forward_route_runtime_context(intent[i].forward))
                m == v.shown
            IN  /\ <<p.transport, p.source, p.sshMode, p.dataPlane>>
                       = <<m.transport, m.source, m.sshMode, m.dataPlane>>
                /\ <<p.sshPool, p.pool, p.override>>
                       = <<m.sshPool, m.pool, v.override>>
                /\ p.reason <=> intent[i].request
                /\ ~p.reason => p.policy = m.policy /\ p.auth = m.auth
                /\ p.class = "ssh-only" => v.class = "ssh-only"

\* A route that was started after this daemon bootstrapped the peer, with no
\* other intent on the alias meanwhile, carries the token the peer now
\* takes: the second pass reads what the bootstrap recorded
\* (route_intent.rs, profile_record.rs).
BootstrapTokenUsed ==
    \A i \in Intents :
        Forwards(i) /\ hist.installs[i] = 1 /\ ~hist.shared =>
            intent[i].forward.token = peer.token

=============================================================================
