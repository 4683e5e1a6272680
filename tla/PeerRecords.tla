------------------------------ MODULE PeerRecords ------------------------------
(***************************************************************************)
(* What the daemon remembers of one remote peer, and how refresh, diff,    *)
(* reconcile, token rotation and bootstrap keep it in step with the peer:  *)
(* crates/ssh-proxy/src/node_daemon/peers.rs and peers/, and the part of   *)
(* deploy/ that asks the peer over SSH and records its answer.             *)
(*                                                                         *)
(* Every operation reads the configuration under its lock, lets go of the  *)
(* lock for the SSH round trip and takes it again to write what it has     *)
(* learnt, so two operations on one alias interleave.                      *)
(***************************************************************************)
EXTENDS Naturals, FiniteSets

CONSTANTS Operators,   \* the control connections that run peer operations
          MaxToken,    \* bound on the tokens ever made
          MaxChanges,  \* bound on changes made at the peer by somebody else
          MaxOps,      \* bound on the operations started
          LocalBuild,  \* what this binary speaks: a record like a descriptor's
          Builds       \* what a peer's binary may advertise

VARIABLES remote,  \* the peer's daemon: what its descriptor shows, its token
          local,   \* the two records of the alias: peers[alias], profiles[alias]
          op,      \* what each control connection is doing
          hist     \* bounds and what the properties look back on

peerVars == <<remote, local, op, hist>>

\* None stands for an absent field; addresses and identities are numbers.
None == 0
DefaultTcp == 9

Meta(s, g) == [scope |-> s, gen |-> g]
NoMeta == Meta("null", None)

\* What a binary says of itself: its version, the versions of its control API
\* and of its peer protocol, and its features.
NoBuild == [version |-> None, control |-> None, proto |-> None, features |-> {}]

NoDescriptor == [node |-> None, tcp |-> None, tls |-> None, protocols |-> {},
                 token |-> FALSE, meta |-> NoMeta, build |-> NoBuild]
NoRecord == [recorded |-> FALSE, node |-> None, tcp |-> None, tls |-> None,
             protocols |-> {}, token |-> None, meta |-> NoMeta,
             build |-> NoBuild]
NoProfile == [recorded |-> FALSE, tcp |-> None, tls |-> None, token |-> None]
NoArgs == [tcp |-> DefaultTcp, tls |-> None, token |-> None]
Idle == [kind |-> "idle", pc |-> "start", args |-> NoArgs,
         desc |-> NoDescriptor, meta |-> NoMeta, alone |-> TRUE]

-----------------------------------------------------------------------------
(* The peer's side. *)

transport_protocols(tls, tcp) ==
    (IF tls # None THEN {"tls-tcp"} ELSE {})
        \cup (IF tcp # None THEN {"plain-tcp"} ELSE {})

descriptor_value ==
    [node |-> remote.node, tcp |-> remote.tcp, tls |-> remote.tls,
     protocols |-> transport_protocols(remote.tls, remote.tcp),
     token |-> remote.token # None, meta |-> remote.meta,
     build |-> remote.build]

Accepts(token) == remote.token = None \/ token = remote.token

-----------------------------------------------------------------------------
(* What an operation takes from the configuration and from the answer. *)

install_args(l) ==
    [NoArgs EXCEPT !.tcp = IF l.profile.tcp = None THEN DefaultTcp
                           ELSE l.profile.tcp,
                   !.token = l.profile.token]

apply_descriptor(args, d) ==
    [args EXCEPT !.tcp = IF d.tcp = None THEN @ ELSE d.tcp,
                 !.tls = IF d.tls = None THEN @ ELSE d.tls]

remote_descriptor_protocols(args) ==
    {"plain-tcp"} \cup (IF args.tls # None THEN {"tls-tcp"} ELSE {})

descriptor_protocols(d, args) ==
    IF d.protocols = {} THEN remote_descriptor_protocols(args)
    ELSE d.protocols

\* What is not in the answer is taken from the record, or from this binary.
OrElse(b, known) ==
    [version |-> IF b.version = None THEN known.version ELSE b.version,
     control |-> IF b.control = None THEN known.control ELSE b.control,
     proto |-> IF b.proto = None THEN known.proto ELSE b.proto,
     features |-> IF b.features = {} THEN known.features ELSE b.features]

\* The profile half of every record_remote_*_profile.
ProfileOf(profile, args) ==
    [recorded |-> TRUE, tcp |-> args.tcp, tls |-> args.tls,
     token |-> IF args.token = None THEN profile.token ELSE args.token]

record_remote_descriptor_profile(l, args, d) ==
    [profile |-> ProfileOf(l.profile, args),
     peer |-> [recorded |-> TRUE, node |-> d.node, tcp |-> args.tcp,
               tls |-> args.tls, protocols |-> descriptor_protocols(d, args),
               token |-> args.token,
               meta |-> IF d.meta # NoMeta THEN d.meta
                        ELSE IF args.token # None THEN Meta("peer", 1)
                        ELSE NoMeta,
               build |-> d.build]]

\* After a bootstrap: what the descriptor leaves out is this binary's own.
record_remote_install_profile(l, args, d) ==
    LET known == record_remote_descriptor_profile(l, args, d) IN
    [known EXCEPT !.peer.build = OrElse(d.build, LocalBuild)]

\* A slip: a token the profile already has is kept over the rotated one.
record_rotation_peer_only(l, args, d, meta) ==
    [profile |-> [ProfileOf(l.profile, args) EXCEPT
                     !.token = IF l.profile.token = None THEN @
                               ELSE l.profile.token],
     peer |-> [recorded |-> TRUE,
               node |-> IF d.node = None THEN l.peer.node ELSE d.node,
               tcp |-> args.tcp, tls |-> args.tls,
               protocols |-> descriptor_protocols(d, args),
               token |-> args.token, meta |-> meta,
               build |-> OrElse(d.build, l.peer.build)]]

\* A rotation whose second question went unanswered keeps the identity it
\* had, and takes the endpoints from the arguments alone.
apply_remote_token_rotation_profile(l, args, d, meta) ==
    [profile |-> ProfileOf(l.profile, args),
     peer |-> [recorded |-> TRUE,
               node |-> IF d.node = None THEN l.peer.node ELSE d.node,
               tcp |-> args.tcp, tls |-> args.tls,
               protocols |-> descriptor_protocols(d, args),
               token |-> args.token, meta |-> meta,
               build |-> OrElse(d.build, l.peer.build)]]

-----------------------------------------------------------------------------
(* Whether this binary and a peer's understand each other: the version      *)
(* check of a descriptor or a record, and the health report of a record.    *)

compare_dotted_versions(left, right) ==
    CASE left = None \/ right = None -> "unknown"
      [] left = right -> "equal"
      [] left < right -> "less"
      [] OTHER -> "greater"

\* The checks, each by its severity.
control_api_check(b) ==
    IF b.control # None /\ b.control <= LocalBuild.control THEN "info" ELSE "error"
peer_protocol_check(b) == IF b.proto = LocalBuild.proto THEN "info" ELSE "error"
missing_features(b) == LocalBuild.features \ b.features
feature_check(b) == IF missing_features(b) = {} THEN "info" ELSE "error"
binary_version_check(b) ==
    IF compare_dotted_versions(LocalBuild.version, b.version) = "equal"
    THEN "info" ELSE "warning"

compatible(b) ==
    "error" \notin {control_api_check(b), peer_protocol_check(b),
                   feature_check(b), binary_version_check(b)}

\* A remote that speaks a later version of either protocol.
Ahead(b) == b.control > LocalBuild.control \/ b.proto > LocalBuild.proto

service_compatibility_next_action(b) ==
    CASE ~compatible(b) -> IF Ahead(b) THEN "upgrade-local" ELSE "peer-refresh"
      [] compare_dotted_versions(LocalBuild.version, b.version) = "greater" ->
            "peer-bootstrap --force"
      [] OTHER -> "none"

version_next_action(b) ==
    LET order == compare_dotted_versions(LocalBuild.version, b.version) IN
    CASE Ahead(b) -> "upgrade-local"
      [] \/ b.control = None \/ b.proto = None \/ b.proto < LocalBuild.proto
         \/ missing_features(b) # {} -> "peer-bootstrap --force"
      [] OTHER -> CASE order = "greater" -> "peer-bootstrap --force"
                    [] order = "less" -> "upgrade-local"
                    [] OTHER -> "none"

version_status(b) ==
    LET order == compare_dotted_versions(LocalBuild.version, b.version)
        action == version_next_action(b) IN
    CASE ~compatible(b) -> "incompatible"
      [] order = "equal" -> "compatible"
      [] order = "greater" /\ action = "peer-bootstrap --force" ->
            "compatible-upgrade-remote"
      [] order = "less" /\ action = "upgrade-local" -> "compatible-upgrade-local"
      [] OTHER -> "compatible-version-unknown"

peer_version_check_report(b) ==
    [compatible |-> compatible(b), status |-> version_status(b),
     next |-> version_next_action(b)]
unrecorded_peer_version_check_report ==
    [compatible |-> FALSE, status |-> "unrecorded", next |-> "peer-bootstrap"]
peer_compatibility_report(b) ==
    [ok |-> compatible(b), next |-> service_compatibility_next_action(b)]

\* The classification of the protocol crate, which decides the same question
\* by a cascade of its own.
classify_protocol_compatibility(b) ==
    CASE b.control > LocalBuild.control -> "upgrade-local"
      [] b.proto > LocalBuild.proto -> "upgrade-local"
      [] b.control = None \/ b.proto = None -> "upgrade-remote"
      [] b.proto # LocalBuild.proto -> "upgrade-remote"
      [] missing_features(b) # {} -> "incompatible"
      [] OTHER -> "compatible"

\* The check of a fresh descriptor, and that of the record a route plan shows.
build_peer_version_check(d) == peer_version_check_report(d.build)
build_saved_peer_version_check(l) ==
    IF l.peer.recorded THEN peer_version_check_report(l.peer.build)
    ELSE unrecorded_peer_version_check_report

\* An address that is not configured is no fault; one that is gets probed,
\* by a connection from this machine: here is the set of the addresses that
\* a connection from here opens, whoever listens there.
endpoint_health_report(configured, reachable) == configured => reachable
tcp_listener_health(addr, here) ==
    endpoint_health_report(addr # None, addr \in here)

\* Every record has a control endpoint.
peer_health(peer, here) ==
    /\ peer.recorded
    /\ tcp_listener_health(peer.tcp, here)
    /\ tcp_listener_health(peer.tls, here)
    /\ peer_compatibility_report(peer.build).ok

-----------------------------------------------------------------------------
(* The dry runs: diff and reconcile. *)

\* The fields of build_peer_diff that differ, by the action it advises.
RefreshDiffs(l, args, d) ==
    {f \in {"peer.recorded", "profile.recorded", "peer.node_id",
            "peer.version", "peer.transport", "peer.tls_transport",
            "peer.transport_protocols", "profile.remote_tcp",
            "profile.remote_tls"} :
        CASE f = "peer.recorded" -> ~l.peer.recorded
          [] f = "profile.recorded" -> ~l.profile.recorded
          [] f = "peer.node_id" -> l.peer.node # d.node
          [] f = "peer.version" -> l.peer.build.version # d.build.version
          [] f = "peer.transport" -> l.peer.tcp # args.tcp
          [] f = "peer.tls_transport" -> l.peer.tls # args.tls
          [] f = "peer.transport_protocols" ->
                l.peer.protocols # descriptor_protocols(d, args)
          [] f = "profile.remote_tcp" -> l.profile.tcp # args.tcp
          [] f = "profile.remote_tls" -> l.profile.tls # args.tls}

RotateDiffs(l, d) ==
    {f \in {"auth.token", "auth.token_scope", "auth.token_generation",
            "profile.remote_token"} :
        CASE f = "auth.token" -> (l.peer.token # None) # d.token
          [] f = "auth.token_scope" -> l.peer.meta.scope # d.meta.scope
          [] f = "auth.token_generation" -> l.peer.meta.gen # d.meta.gen
          [] f = "profile.remote_token" -> (l.profile.token # None) # d.token}

next_peer_diff_action(l, args, d) ==
    IF RefreshDiffs(l, args, d) # {} THEN "peer-refresh"
    ELSE IF RotateDiffs(l, d) # {} THEN "peer-rotate-token"
    ELSE "none"

build_peer_reconcile(l, d) ==
    (IF ~l.peer.recorded \/ ~l.profile.recorded
     THEN {"missing_local_record"} ELSE {})
        \cup (IF l.peer.node # None /\ d.node # None /\ l.peer.node # d.node
              THEN {"stale_remote_record"} ELSE {})
        \cup (IF build_peer_version_check(d).status # "compatible"
              THEN {"version_mismatch"} ELSE {})
        \cup (IF \/ (l.peer.token # None) # d.token
                 \/ l.peer.meta # NoMeta /\ d.meta # NoMeta
                        /\ l.peer.meta.gen # d.meta.gen
              THEN {"token_mismatch"} ELSE {})

-----------------------------------------------------------------------------
\* The peer starts with or without a token, and with a token handed to it on
\* its command line it has no metadata for it; the alias starts unknown.
Init ==
    /\ remote \in [node : {1}, tcp : {None, 1}, tls : {None, 1},
                   token : {None, 1}, meta : {NoMeta, Meta("daemon", 1)},
                   build : Builds]
    /\ remote.meta # NoMeta => remote.token # None
    /\ local = [peer |-> NoRecord, profile |-> NoProfile]
    /\ op = [o \in Operators |-> Idle]
    /\ hist = [made |-> 1, changes |-> 0, ops |-> 0,
               fresh |-> "no", apart |-> remote.token # None]

Busy(o) == op[o].kind # "idle"
Others(o) == {p \in Operators \ {o} : Busy(p)}

Learn(o, f) == op' = [op EXCEPT ![o] = f]

\* A command starts: the lock is held only to read the arguments.
Start(o) ==
    /\ ~Busy(o) /\ hist.ops < MaxOps
    /\ \E k \in {"refresh", "rotate", "bootstrap"} :
         op' = [p \in Operators |->
                  IF p = o
                  THEN [Idle EXCEPT !.kind = k, !.args = install_args(local),
                                    !.alone = Others(o) = {}]
                  ELSE IF Busy(p) THEN [op[p] EXCEPT !.alone = FALSE]
                  ELSE op[p]]
    /\ hist' = [hist EXCEPT !.ops = @ + 1]
    /\ UNCHANGED <<remote, local>>

\* refresh_remote_peer_descriptor over SSH.
AskDescriptor(o) ==
    /\ op[o].kind = "refresh" /\ op[o].pc = "start"
    /\ IF Accepts(op[o].args.token)
       THEN Learn(o, [op[o] EXCEPT !.pc = "record", !.desc = descriptor_value,
                         !.args = apply_descriptor(@, descriptor_value)])
       ELSE Learn(o, Idle)
    /\ UNCHANGED <<remote, local, hist>>

\* rotate_remote_peer_token: the peer's own daemon makes the token. The new
\* token may be made and the answer lost.
AskRotate(o) ==
    /\ op[o].kind = "rotate" /\ op[o].pc = "start"
    /\ \/ /\ ~Accepts(op[o].args.token)
          /\ Learn(o, Idle)
          /\ UNCHANGED <<remote, hist>>
       \/ /\ Accepts(op[o].args.token) /\ hist.made < MaxToken
          /\ LET meta == Meta("daemon", remote.meta.gen + 1)
                 token == hist.made + 1 IN
             /\ remote' = [remote EXCEPT !.token = token, !.meta = meta]
             /\ \/ /\ Learn(o, [op[o] EXCEPT !.pc = "descriptor",
                                    !.args.token = token, !.meta = meta])
                   /\ hist' = [hist EXCEPT !.made = token, !.fresh = "no",
                                   !.apart = @ \/ ~op[o].alone]
                \/ /\ Learn(o, Idle)
                   /\ hist' = [hist EXCEPT !.made = token, !.fresh = "no",
                                   !.apart = TRUE]
    /\ UNCHANGED local

\* The descriptor is asked for again with the new token; no answer, or one
\* that is not a descriptor, is not an error.
AskAfterRotation(o) ==
    /\ op[o].kind = "rotate" /\ op[o].pc = "descriptor"
    /\ \/ Learn(o, [op[o] EXCEPT !.pc = "record"])
       \/ /\ Accepts(op[o].args.token)
          /\ Learn(o, [op[o] EXCEPT !.pc = "record", !.desc = descriptor_value,
                          !.args = apply_descriptor(@, descriptor_value)])
    /\ UNCHANGED <<remote, local, hist>>

\* install_remote: peer_is_route_ready answers at once without --force. The
\* configuration written to the peer has the profile's token, or a new one,
\* and its first generation; this binary is uploaded and the service is
\* restarted on both without TLS.
Install(o) ==
    /\ op[o].kind = "bootstrap" /\ op[o].pc = "start"
    /\ LET fresh == op[o].args.token = None
           token == IF fresh THEN hist.made + 1 ELSE op[o].args.token IN
       /\ fresh => hist.made < MaxToken
       /\ remote' = [remote EXCEPT !.tcp = op[o].args.tcp, !.tls = None,
                         !.token = token, !.meta = Meta("daemon", 1),
                         !.build = LocalBuild]
       /\ \/ /\ Learn(o, [op[o] EXCEPT !.pc = "descriptor",
                              !.args.token = token])
             /\ hist' = [hist EXCEPT !.made = IF fresh THEN token ELSE @,
                             !.fresh = "no", !.apart = ~op[o].alone]
          \/ /\ Learn(o, Idle)
             /\ hist' = [hist EXCEPT !.made = IF fresh THEN token ELSE @,
                             !.fresh = "no", !.apart = TRUE]
    /\ UNCHANGED local

\* wait_remote_peer_descriptor: an answer within the deadline, or no record.
AwaitDescriptor(o) ==
    /\ op[o].kind = "bootstrap" /\ op[o].pc = "descriptor"
    /\ \/ /\ Accepts(op[o].args.token)
          /\ Learn(o, [op[o] EXCEPT !.pc = "record", !.desc = descriptor_value,
                          !.args = apply_descriptor(@, descriptor_value)])
          /\ UNCHANGED hist
       \/ /\ Learn(o, Idle)
          /\ hist' = [hist EXCEPT !.apart = TRUE]
    /\ UNCHANGED <<remote, local>>

\* The lock is taken again and the answer recorded, over whatever is there.
Record(o) ==
    LET d == op[o].desc args == op[o].args IN
    /\ op[o].pc = "record"
    /\ local' = CASE op[o].kind = "rotate" ->
                       apply_remote_token_rotation_profile(local, args, d,
                                                           op[o].meta)
                  [] op[o].kind = "bootstrap" ->
                       record_remote_install_profile(local, args, d)
                  [] OTHER -> record_remote_descriptor_profile(local, args, d)
    /\ hist' = [hist EXCEPT
                   !.fresh = IF d = descriptor_value THEN op[o].kind ELSE "no",
                   !.apart = @ \/ (/\ args.token \notin {None, remote.token}
                                   /\ ~op[o].alone)]
    /\ Learn(o, Idle)
    /\ UNCHANGED remote

\* peer_forget: the peer record goes, the profile stays.
Forget ==
    /\ local.peer.recorded
    /\ local' = [local EXCEPT !.peer = NoRecord]
    /\ hist' = [hist EXCEPT !.fresh = "no"]
    /\ UNCHANGED <<remote, op>>

\* Somebody at the peer moves its listeners, gives it another identity,
\* replaces its binary, or rotates its token there.
RemoteChanges ==
    /\ hist.changes < MaxChanges
    /\ \/ /\ remote' \in {[remote EXCEPT !.tcp = a, !.tls = b, !.node = n] :
                            a \in {None, 2}, b \in {None, 1}, n \in {1, 2}}
          /\ remote' # remote
          /\ hist' = [hist EXCEPT !.changes = @ + 1, !.fresh = "no"]
       \/ /\ remote' \in {[remote EXCEPT !.build = b] : b \in Builds \ {remote.build}}
          /\ hist' = [hist EXCEPT !.changes = @ + 1, !.fresh = "no"]
       \/ /\ hist.made < MaxToken
          /\ remote' = [remote EXCEPT !.token = hist.made + 1,
                            !.meta = Meta("daemon", remote.meta.gen + 1)]
          /\ hist' = [hist EXCEPT !.changes = @ + 1, !.made = @ + 1,
                          !.fresh = "no", !.apart = TRUE]
    /\ UNCHANGED <<local, op>>

PeerNext ==
    \/ \E o \in Operators :
         \/ Start(o) \/ AskDescriptor(o) \/ AskRotate(o)
         \/ AskAfterRotation(o) \/ Install(o) \/ AwaitDescriptor(o)
         \/ Record(o)
    \/ Forget \/ RemoteChanges

Spec == Init /\ [][PeerNext]_peerVars

-----------------------------------------------------------------------------
Addr == {None, 1, 2, DefaultTcp}
Tokens == 0..MaxToken
Metas == [scope : {"null", "peer", "daemon"}, gen : 0..(MaxToken + 1)]

TypeOK ==
    /\ remote \in [node : {1, 2}, tcp : Addr, tls : {None, 1}, token : Tokens,
                   meta : Metas, build : Builds]
    /\ local.peer.token \in Tokens /\ local.peer.meta \in Metas
    /\ local.peer.tcp \in Addr /\ local.profile.tcp \in Addr
    /\ local.profile.token \in Tokens
    /\ \A o \in Operators :
         /\ op[o].kind \in {"idle", "refresh", "rotate", "bootstrap"}
         /\ op[o].pc \in {"start", "descriptor", "record"}
         /\ op[o].args \in [tcp : Addr, tls : {None, 1}, token : Tokens]
    /\ hist.fresh \in {"no", "refresh", "rotate", "bootstrap"}

\* What a diff asked for now would read and compare.
ArgsNow == apply_descriptor(install_args(local), descriptor_value)
ActionNow == next_peer_diff_action(local, ArgsNow, descriptor_value)

\* The advice settles: once a descriptor has been recorded and neither side
\* has changed since, `peer diff` never advises another refresh, and after a
\* rotation or a bootstrap it advises nothing at all
\* (peers/reconciliation.rs, next_peer_diff_action).
AdviceSettles ==
    /\ hist.fresh # "no" => ActionNow # "peer-refresh"
    /\ hist.fresh \in {"rotate", "bootstrap"} => ActionNow = "none"

\* `peer diff` and `peer reconcile` agree: where the diff finds nothing to
\* do, reconcile finds no missing or stale record and no token mismatch; a
\* binary of another version is all it may object to.
ReconcileAgrees ==
    ActionNow = "none" =>
        build_peer_reconcile(local, descriptor_value) \subseteq {"version_mismatch"}

\* Three functions judge a peer's binary (the version check, the health
\* report, the classification of the protocol crate) and never differ on
\* whether it can be talked to, nor on which side is to be upgraded; and a
\* check that finds nothing to say advises nothing.
JudgesAgree ==
    \A b \in {remote.build, local.peer.build} :
      LET check == peer_version_check_report(b)
          report == peer_compatibility_report(b)
          class == classify_protocol_compatibility(b) IN
      /\ check.compatible = report.ok
      /\ check.compatible <=> class = "compatible"
      /\ ~check.compatible =>
            /\ check.next = "upgrade-local" <=> class = "upgrade-local"
            /\ report.next = "upgrade-local" <=> class = "upgrade-local"
            /\ check.next # "none" /\ report.next # "none"
      /\ check.status = "compatible" => check.next = "none" /\ report.next = "none"

\* The advice of the reports works.  After a refresh that nothing overtook,
\* the record is judged as the peer itself would be, and whatever this machine
\* reaches, a record is healthy only if it reaches every listener the peer
\* has and the peer's binary can be talked to (for a peer with a plain
\* listener: exactly then); after a bootstrap whose binary is still there,
\* nothing is left to advise.
AdviceWorks ==
    LET check == build_saved_peer_version_check(local) IN
    /\ hist.fresh = "refresh" =>
          /\ check = build_peer_version_check(descriptor_value)
          /\ \A here \in SUBSET (Addr \ {None}) :
               LET reached == /\ {remote.tcp, remote.tls} \ {None} \subseteq here
                              /\ compatible(remote.build) IN
               /\ peer_health(local.peer, here) => reached
               /\ remote.tcp # None /\ reached => peer_health(local.peer, here)
    /\ hist.fresh = "bootstrap" /\ remote.build = LocalBuild =>
          check.status = "compatible" /\ check.next = "none"

\* Nobody is locked out: as long as the peer's token is changed through this
\* daemon only, one operation at a time and with every answer received, the
\* token on record is the one the peer asks for.
TokenOnRecordWorks ==
    ~hist.apart /\ (\A o \in Operators : ~Busy(o)) /\ remote.token # None =>
        local.profile.token = remote.token

=============================================================================
