----------------------------- MODULE SshClient -----------------------------
(***************************************************************************)
(* The Rust SSH client (ssh-proxy-ssh: client.rs, auth.rs): a connection   *)
(* through a chain of jump hosts.  Each session is opened over the one     *)
(* before it, checks the host key and authenticates.                       *)
(***************************************************************************)
EXTENDS Naturals

CONSTANTS MaxHops,    \* sessions of a chain, the target's included
          Sections    \* what the sections of the configuration, or the -o options, may say

VARIABLES
  want,   \* the resolved command: the flags, the SSH configuration, the keys that hosts have
  conn    \* Client::connect: the hop it is at, what is learned, and the sessions that are open

vars == <<want, conn>>

Hops     == 1..MaxHops
Keys     == {"known", "unknown", "changed"}     \* what the known_hosts file of a host says of its key
Flags    == [accept_new : BOOLEAN, insecure : BOOLEAN, null : BOOLEAN]     \* null: known_hosts is the null device
Settings == [strict : {"yes", "accept-new", "no"},     \* StrictHostKeyChecking
             file   : {"none", "null", "file"}]        \* UserKnownHostsFile
Plain    == [strict |-> "yes", file |-> "none"]
Steps    == {"dial", "key", "agent", "files", "none", "ready", "failed"}

TypeOK ==
  /\ want \in [hops : Hops, flags : Flags, option : Sections, config : [Hops -> Sections], key : [Hops -> Keys]]
  /\ conn \in [at : Hops, step : Steps, open : SUBSET Hops, learned : SUBSET Hops]

Init ==
  /\ want \in [hops : Hops, flags : Flags, option : Sections, config : [Hops -> Sections], key : [Hops -> Keys]]
  /\ \A h \in Hops : h > want.hops => want.config[h] = Plain /\ want.key[h] = "known"
  /\ want.option # Plain => want.flags = [accept_new |-> FALSE, insecure |-> FALSE, null |-> FALSE]
  /\ conn = [at |-> 1, step |-> "dial", open |-> {}, learned |-> {}]

-----------------------------------------------------------------------------
(* apply_config: the section of the SSH configuration that matches a host. *)
apply_config(f, s) ==
  [accept_new |-> f.accept_new \/ s.strict \in {"accept-new", "no"},
   insecure   |-> f.insecure \/ s.strict = "no",
   null       |-> s.file = "null" \/ (s.file = "none" /\ (f.null \/ s.strict = "no"))]

(* -o StrictHostKeyChecking=... and -o UserKnownHostsFile=... do the same. *)
apply_o_option(f, o) == apply_config(f, o)

(* resolve_target: the flags of the command, its section, its -o options.  *)
CommandFlags == [want.flags EXCEPT !.accept_new = @ \/ want.flags.insecure, !.null = @ \/ want.flags.insecure]
TargetFlags == apply_o_option(apply_config(CommandFlags, want.config[want.hops]), want.option)

(* resolve_jumps: a jump host starts from the flags that the target has    *)
(* come to, but from the known_hosts of the command; then its section.     *)
JumpFlags == [TargetFlags EXCEPT !.null = CommandFlags.null]

\* A slip: a jump host starts from what the hop before it has.
resolve_carries(h) ==
  LET carried[g \in 0..MaxHops] == IF g = 0 THEN JumpFlags ELSE apply_config(carried[g - 1], want.config[g])
  IN IF h = want.hops THEN TargetFlags ELSE carried[h]

resolve(h) == IF h = want.hops THEN TargetFlags ELSE apply_config(JumpFlags, want.config[h])

-----------------------------------------------------------------------------
(* Client::connect, one hop after the other.                               *)
To(s) == conn' = [conn EXCEPT !.step = s]
Fails == conn' = [conn EXCEPT !.step = "failed", !.open = {}]
Below == conn.at = 1 \/ conn.at - 1 \in conn.open

(* connect_tcp_session, or open_direct_stream over the session before. *)
Dial == conn.step = "dial" /\ UNCHANGED want /\ ((Below /\ To("key")) \/ Fails)

(* check_server_key: nothing is checked where the host is not to be        *)
(* checked or its known_hosts is the null device; a key cannot always be   *)
(* learned.                                                                *)
CheckServerKey ==
  /\ conn.step = "key" /\ UNCHANGED want
  /\ LET f == resolve(conn.at)
         k == want.key[conn.at]
         unchecked == f.insecure \/ f.null
     IN \/ (unchecked \/ k = "known") /\ To("agent")
        \/ ~unchecked /\ k = "unknown" /\ f.accept_new
           /\ conn' = [conn EXCEPT !.learned = @ \cup {conn.at}, !.step = "agent"]
        \/ ~unchecked /\ k # "known" /\ Fails

(* The next session is opened over this one, which stays in `_parents`.    *)
Authenticated ==
  /\ Below
  /\ conn' = [conn EXCEPT !.open = @ \cup {conn.at}, !.at = IF @ < want.hops THEN @ + 1 ELSE @,
                          !.step = IF conn.at < want.hops THEN "dial" ELSE "ready"]

(* authenticate: the agents, the identity files, then no credentials.  An  *)
(* agent that answers with an error ends it on unix.                       *)
TryAgent == conn.step = "agent" /\ UNCHANGED want /\ (Authenticated \/ To("files") \/ Fails)
TryFiles == conn.step = "files" /\ UNCHANGED want /\ (Authenticated \/ To("none"))
TryNone  == conn.step = "none" /\ UNCHANGED want /\ (Authenticated \/ Fails)

(* A session ends, and with it those that were opened over it. *)
SessionEnds(h) ==
  /\ h \in conn.open /\ UNCHANGED want
  /\ conn' = [conn EXCEPT !.open = @ \ (h..MaxHops), !.step = IF @ = "ready" THEN "failed" ELSE @]

Next == Dial \/ CheckServerKey \/ TryAgent \/ TryFiles \/ TryNone \/ \E h \in Hops : SessionEnds(h)
Spec == Init /\ [][Next]_vars

-----------------------------------------------------------------------------
Asked(h, values) ==
  want.option.strict \in values \/ want.config[h].strict \in values \/ want.config[want.hops].strict \in values

(* No known_hosts for h: its own section says so, or nothing that is       *)
(* nearer to it does and the command or, for the target, an -o option      *)
(* does.  The section and the options of the target do not count for a     *)
(* jump host.                                                              *)
NoKnownHosts(h) ==
  \/ want.config[h].file = "null" /\ (h = want.hops => want.option.file # "file")
  \/ h = want.hops /\ want.option.file = "null"
  \/ want.flags.null /\ want.config[h].file # "file" /\ (h = want.hops => want.option.file # "file")

(* A session is open only to a host whose key is known, was learned with   *)
(* the permission of the command or of a section for this host or the      *)
(* target, or is not to be checked by one of these or for want of a        *)
(* known_hosts of its own: no section of another jump host counts, and a   *)
(* changed key is never learned.                                           *)
KeysAreChecked ==
  \A h \in conn.open :
    \/ want.key[h] = "known"
    \/ want.flags.insecure \/ Asked(h, {"no"}) \/ NoKnownHosts(h)
    \/ want.key[h] = "unknown" /\ h \in conn.learned /\ (want.flags.accept_new \/ Asked(h, {"accept-new"}))
=============================================================================
