----------------------------- MODULE MCRecords ------------------------------
(* The instance of Records for TLC.                                        *)
EXTENDS Records

(* RemoteSetup: every file applied, and the two that matter most.          *)
Policy(all) ==
  [verify |-> all, settings |-> TRUE, terminal |-> all, env |-> TRUE, gitGlobal |-> all,
   gitWorkspace |-> all, status |-> TRUE, force |-> TRUE]
SetupPolicies == {Policy(b) : b \in BOOLEAN}

(* PeerRecords: this binary, an older one, one of the next protocol, and   *)
(* one that says little of itself.                                         *)
ThisBuild   == [version |-> 2, control |-> 2, proto |-> 2, features |-> {"frames", "tcp"}]
OlderBuild  == [ThisBuild EXCEPT !.version = 1]
NextBuild   == [ThisBuild EXCEPT !.version = 3, !.control = 3, !.proto = 3]
BareBuild   == [version |-> 1, control |-> 0, proto |-> 1, features |-> {"frames"}]
PeerBuilds  == {ThisBuild, OlderBuild, NextBuild, BareBuild}

(* SshClient: the settings of a section, one at a time.                    *)
Plain == [strict |-> "yes", file |-> "none"]
SshSections ==
  {Plain, [Plain EXCEPT !.strict = "accept-new"], [Plain EXCEPT !.strict = "no"],
   [Plain EXCEPT !.file = "null"], [Plain EXCEPT !.file = "file"]}

(* RouteIntent: what may be asked, what is configured, what is there.      *)
Unset  == [set |-> FALSE, size |-> 0]
Set(n) == [set |-> TRUE, size |-> n]

Ask ==
  [direction |-> "local-uses-remote", transport |-> "auto", plain |-> FALSE, tcpTarget |-> FALSE,
   tcp |-> "none", quic |-> "none", tls |-> "none", token |-> 0, connect |-> "auto",
   localPeer |-> "none", hint |-> "none", pool |-> Unset, sshPool |-> Unset, jump |-> FALSE]
Back == [Ask EXCEPT !.direction = "remote-uses-local"]

Profile ==
  [transport |-> "none", plain |-> FALSE, tcp |-> "none", quic |-> "none", tls |-> "none",
   ca |-> FALSE, cert |-> FALSE, key |-> FALSE, token |-> 0, hint |-> "none",
   pool |-> Unset, sshPool |-> Unset]
NoPeer == [path |-> FALSE, control |-> FALSE, tcp |-> "none", tls |-> "none", quic |-> "none"]
Known  == [NoPeer EXCEPT !.path = TRUE, !.control = TRUE, !.tcp = "thereLoop"]
Config ==
  [profile |-> Profile, defaults |-> Profile, peer |-> NoPeer, listen |-> "none",
   transport |-> "here", token |-> 0]

Configs ==
  { Config,
    [Config EXCEPT !.profile.transport = "ssh-direct-tcpip", !.profile.sshPool = Set(4),
                   !.listen = "hereLoop"],
    [Config EXCEPT !.profile.transport = "shell-magic", !.defaults.transport = "shell-magic"],
    [Config EXCEPT !.profile.tls = "there", !.profile.quic = "there", !.profile.ca = TRUE,
                   !.profile.cert = TRUE, !.defaults.sshPool = Set(3), !.profile.token = 1],
    [Config EXCEPT !.defaults.transport = "plain-tcp", !.defaults.plain = TRUE,
                   !.defaults.tcp = "there", !.profile.pool = Set(2), !.listen = "here"],
    [Config EXCEPT !.defaults.transport = "ssh-exec", !.defaults.pool = Set(3)],
    [Config EXCEPT !.profile.plain = TRUE, !.peer = Known],
    [Config EXCEPT !.peer = Known, !.profile.tcp = "thereLoop", !.profile.token = 1],
    [Config EXCEPT !.profile.quic = "there", !.profile.ca = TRUE, !.profile.hint = "large"] }

Away  == [installed |-> FALSE, token |-> 0, tls |-> "none", quic |-> "none"]
Peers ==
  { Away,
    [Away EXCEPT !.installed = TRUE, !.token = 1, !.tls = "there", !.quic = "there"],
    [Away EXCEPT !.installed = TRUE, !.tls = "thereLoop"] }

TlsNamed    == [Ask EXCEPT !.transport = "tls-tcp", !.tls = "there", !.sshPool = Set(0)]
BothThrough == [Ask EXCEPT !.quic = "there", !.tls = "thereLoop", !.jump = TRUE]
Asks ==
  { Ask, TlsNamed, BothThrough,
    [Ask EXCEPT !.plain = TRUE, !.tcp = "there", !.tcpTarget = TRUE],
    [Ask EXCEPT !.transport = "ssh-exec", !.token = 1, !.pool = Set(0)],
    Back,
    [Back EXCEPT !.localPeer = "here", !.plain = TRUE],
    [Back EXCEPT !.connect = "direct"],
    [Back EXCEPT !.connect = "reverse-link"] }

(* One intent in every situation, and two on one alias nobody configured.  *)
RouteCases ==
  {[config |-> c, peer |-> p, asked |-> [i \in {"i1"} |-> a]] : c \in Configs, p \in Peers, a \in Asks}
  \cup
  {[config |-> Config, peer |-> p, asked |-> [i \in {"i1", "i2"} |-> IF i = "i1" THEN a ELSE b]] :
     p \in Peers, a \in {TlsNamed, BothThrough}, b \in Asks}

=============================================================================
