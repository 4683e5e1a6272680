------------------------------- MODULE PeerDial -------------------------------
(***************************************************************************)
(* A client opens the remote helper of a peer node: open_remote_helper of   *)
(* remote_helper/client.rs on one side, the transport listeners of          *)
(* server.rs on the other, and the SPX1 handshake of peer_transport.rs      *)
(* between them.  The automatic mode walks the candidates until one opens;  *)
(* every candidate that reaches the node starts a task there, which the     *)
(* client may have left by the time it answers.                             *)
(*                                                                         *)
(* Addresses, certificates and tokens are what the code tests of them:      *)
(* given or not, equal or not.  The network may refuse or delay anything    *)
(* (`calm' remembers that it did not).  What runs over the opened           *)
(* transport is SpxBridge.                                                  *)
(***************************************************************************)
EXTENDS Naturals, Sequences

VARIABLES
  intent,   \* RemoteHelperOpenIntent
  node,     \* what the peer listens on and expects
  dial,     \* open_remote_helper: where it is and what it tried
  task      \* the node's task for the connection of each protocol

dialVars == <<intent, node, dial, task>>

Protocols == {"quic", "tls-tcp", "tcp", "ssh-direct", "ssh-exec"}
Modes     == {"auto", "ssh-native", "quic-native"} \cup Protocols
Tokens    == {"none", "t1", "t2"}
LocalVersion == 1

Intents == [mode : Modes, quic : BOOLEAN, tls : BOOLEAN, ca : BOOLEAN,
            cert : BOOLEAN, key : BOOLEAN, plain : BOOLEAN, token : {"none", "t1"}]
Listens == {{"plain"}, {"plain", "tls"}, {"plain", "tls", "quic"}}
Nodes   == [listens : Listens, token : Tokens,
            version : {LocalVersion, LocalVersion + 1}, client_ca : BOOLEAN]

Idle == [pc |-> "none", expects |-> "none", accepted |-> "none", sent |-> FALSE, cut |-> FALSE]

(* An intent holds only what its mode reads. *)
Relevant(i) ==
  /\ i.quic => i.mode \in {"auto", "quic"}
  /\ i.tls => i.mode \in {"auto", "tls-tcp"}
  /\ (i.ca \/ i.cert \/ i.key) => i.quic \/ i.tls
  /\ i.cert => i.ca
  /\ i.key => i.cert      \* alone, it is refused the way a certificate alone is
  /\ i.plain => i.mode = "auto"
  /\ i.token # "none" => i.mode \in {"auto", "tcp", "ssh-direct"}

(* A CA for the clients and a token are looked at by different listeners,  *)
(* and another version is refused by each: they are not combined.          *)
Init ==
  /\ intent \in {i \in Intents : Relevant(i)}
  /\ node \in {n \in Nodes :
                /\ n.token # "t2"
                /\ n.client_ca => "tls" \in n.listens /\ n.token = "none"
                /\ n.version # LocalVersion =>
                     n.token = "none" /\ ~n.client_ca /\ "quic" \in n.listens}
  /\ dial = [pc |-> "start", proto |-> "none", left |-> <<>>, failures |-> <<>>, calm |-> TRUE]
  /\ task = [p \in Protocols |-> Idle]

-----------------------------------------------------------------------------
(***************************************************************************)
(* The candidates.  In automatic mode the hints always hold an address and  *)
(* an SSH connection is always available, so that the list differs only by  *)
(* the plain TCP candidate.                                                 *)
(***************************************************************************)
auto_candidates ==
  <<"quic", "tls-tcp">> \o (IF intent.plain THEN <<"tcp">> ELSE <<>>) \o <<"ssh-direct">>

candidate_protocols == IF intent.mode = "auto" THEN auto_candidates ELSE <<intent.mode>>

(* Candidates the automatic mode passes over without an attempt. *)
Skipped(p) ==
  /\ intent.mode = "auto"
  /\ \/ p = "quic" /\ ~intent.quic
     \/ p = "tls-tcp" /\ ~intent.tls
     \/ p = "tcp" /\ ~intent.plain

(* What open_quic_transport and open_tls_transport ask of the intent. *)
UsableQuic == intent.quic /\ intent.ca /\ ~intent.cert /\ ~intent.key
UsableTls  == intent.tls /\ intent.ca /\ intent.cert = intent.key
Usable(p)  == CASE p = "quic" -> UsableQuic [] p = "tls-tcp" -> UsableTls [] OTHER -> TRUE

Listener(p) == CASE p = "quic" -> "quic" [] p = "tls-tcp" -> "tls" [] OTHER -> "plain"

(* The listeners: the protocols each offers server_handshake, and whether  *)
(* it asks for the token first.                                            *)
PlainListener == [supported |-> <<"ssh-direct", "tcp">>, expects |-> node.token]
TlsListener   == [supported |-> <<"tls-tcp">>, expects |-> "none"]
QuicListener  == [supported |-> <<"quic-native", "quic">>, expects |-> "none"]
Offer(p) == CASE Listener(p) = "plain" -> PlainListener [] Listener(p) = "tls" -> TlsListener [] OTHER -> QuicListener

(* A listener with a CA for its clients refuses those without certificate. *)
client_auth(p) == p = "tls-tcp" /\ node.client_ca => intent.cert

select_supported_protocol(requested, supported) ==
  IF \E i \in 1..Len(supported) : supported[i] = requested THEN requested ELSE "none"

-----------------------------------------------------------------------------
(* The client.  The loop over the candidates waits for nothing between two *)
(* attempts: d is the dial as it enters the next round.                    *)
Next_candidate(d) ==
  LET left == SelectSeq(d.left, LAMBDA p : ~Skipped(p)) IN
  IF left = <<>> THEN [d EXCEPT !.pc = "failed", !.proto = "none", !.left = left]
  ELSE [d EXCEPT !.pc = "connect", !.proto = Head(left), !.left = Tail(left)]

Begin ==
  /\ dial.pc = "start"
  /\ dial' = IF intent.mode \in {"ssh-native", "quic-native"}
               THEN [dial EXCEPT !.pc = "failed"]
               ELSE Next_candidate([dial EXCEPT !.left = candidate_protocols])
  /\ UNCHANGED <<intent, node, task>>

(* The attempt has failed: the stream is dropped, the next one is tried.   *)
Fail(calm) ==
  dial' = Next_candidate([dial EXCEPT !.calm = dial.calm /\ calm,
                                      !.failures = Append(@, dial.proto)])

(* connect_tcp_with_timeout, the QUIC connection, the SSH channel, the TLS *)
(* handshake, each with a time limit.  A helper over SSH exec has none and *)
(* no handshake: its upload and its command may never return.              *)
Connect ==
  LET p == dial.proto IN
  /\ dial.pc = "connect"
  /\ \/ Fail(~Usable(p) \/ Listener(p) \notin node.listens) /\ task' = task
     \/ ~client_auth(p) /\ Fail(TRUE) /\ task' = task
     \/ /\ p = "ssh-exec"
        /\ dial' \in {[dial EXCEPT !.pc = pc] : pc \in {"opened", "hung"}} /\ task' = task
     \/ /\ p # "ssh-exec" /\ Usable(p) /\ Listener(p) \in node.listens /\ client_auth(p)
        /\ dial' = [dial EXCEPT !.pc = "hello"]
        /\ task' = [task EXCEPT ![p] = [@ EXCEPT !.pc = "token", !.expects = Offer(p).expects]]
  /\ UNCHANGED <<intent, node>>

(* send_transport_token and the write of the hello wait for nobody. *)
SendHello ==
  /\ dial.pc = "hello" /\ dial' = [dial EXCEPT !.pc = "welcome"]
  /\ task' = [task EXCEPT ![dial.proto].sent = TRUE]
  /\ UNCHANGED <<intent, node>>

Joined(p) == dial.proto = p /\ dial.pc \in {"hello", "welcome", "opened"}
(* Whether the client puts a token before its hello. *)
Prefix(p) == IF Listener(p) = "plain" THEN intent.token ELSE "none"

(* A slip: any welcome opens the transport. *)
ReadWelcomeAny ==
  /\ dial.pc = "welcome" /\ task[dial.proto].pc \in {"serving", "refused", "ended"}
  /\ IF task[dial.proto].pc \in {"serving", "refused"} THEN dial' = [dial EXCEPT !.pc = "opened"] ELSE Fail(TRUE)
  /\ UNCHANGED <<intent, node, task>>

(* client_handshake reads the welcome, or the end of the stream. *)
ReadWelcome ==
  /\ dial.pc = "welcome" /\ task[dial.proto].pc \in {"serving", "refused", "ended"}
  /\ IF /\ task[dial.proto].pc # "ended" /\ node.version = LocalVersion
        /\ task[dial.proto].accepted = dial.proto
       THEN dial' = [dial EXCEPT !.pc = "opened"]
       ELSE Fail(task[dial.proto].pc # "ended" \/ Prefix(dial.proto) # task[dial.proto].expects)
  /\ UNCHANGED <<intent, node, task>>

(* with_handshake_timeout on the write of the hello or the read. *)
HandshakeTimeout ==
  /\ dial.pc \in {"hello", "welcome"}
  /\ Fail(dial.pc = "welcome" /\ Prefix(dial.proto) = "none" /\ task[dial.proto].expects # "none")
  /\ UNCHANGED <<intent, node, task>>

-----------------------------------------------------------------------------
(* The node's task for the connection of protocol p. *)
Becomes(p, pc) == /\ task' = [task EXCEPT ![p].pc = pc] /\ UNCHANGED <<intent, node, dial>>

(* verify_token, which has no time limit: without the token it expects it  *)
(* takes the hello for a length and waits for more.                        *)
VerifyToken(p) ==
  /\ task[p].pc = "token"
  /\ \/ task[p].expects = "none" /\ Becomes(p, "hello")
     \/ /\ task[p].expects # "none" /\ task[p].sent /\ Prefix(p) # "none"
        /\ Becomes(p, IF Prefix(p) = task[p].expects THEN "hello" ELSE "ended")

(* server_handshake: a token nobody asked for is a wrong magic. *)
ServerHandshake(p) ==
  LET accepted == IF node.version = LocalVersion
                    THEN select_supported_protocol(p, Offer(p).supported) ELSE "none"
  IN
  /\ task[p].pc = "hello" /\ task[p].sent
  /\ IF task[p].expects # Prefix(p) THEN Becomes(p, "ended")
     ELSE /\ task' = [task EXCEPT ![p].accepted = accepted,
                                  ![p].pc = IF accepted = "none" THEN "refused" ELSE "serving"]
          /\ UNCHANGED <<intent, node, dial>>

(* Where a task waits without a time limit: in verify_token, and for the   *)
(* frames of an open transport.                                            *)
Unlimited(p) == task[p].pc = "serving" \/ (task[p].pc = "token" /\ task[p].expects # "none")

(* It waits there for the end of a stream that was lost. *)
Stranded(p) == task[p].cut /\ Unlimited(p)


(* The task sees the end of the stream, if the network brings it; a        *)
(* handshake also ends on its own after HANDSHAKE_TIMEOUT, a refused one   *)
(* after its welcome.                                                      *)
Leave(p) ==
  /\ \/ task[p].pc \in {"token", "hello", "serving"} /\ ~Joined(p) /\ ~Stranded(p)
     \/ task[p].pc = "refused" /\ (dial.proto = p => dial.pc # "welcome")
  /\ Becomes(p, "ended")

(* The network loses the end of a stream that the client has given up.  A  *)
(* QUIC connection notices by its idle timeout, a TCP connection does not. *)
LoseEnd(p) ==
  /\ Unlimited(p) /\ ~Joined(p) /\ ~task[p].cut /\ p # "quic"
  /\ task' = [task EXCEPT ![p].cut = TRUE]
  /\ UNCHANGED <<intent, node, dial>>

ServerTimeout(p) ==
  /\ task[p].pc = "hello" /\ Joined(p)
  /\ task' = [task EXCEPT ![p].pc = "ended"] /\ dial' = [dial EXCEPT !.calm = FALSE]
  /\ UNCHANGED <<intent, node>>

(* token_rotate on the node: later tasks expect the new token. *)
RotateToken ==
  /\ node.token = "t1" /\ dial.pc # "start"
  /\ node' = [node EXCEPT !.token = "t2"] /\ dial' = [dial EXCEPT !.calm = FALSE]
  /\ UNCHANGED <<intent, task>>

Server(p) == \/ VerifyToken(p) \/ ServerHandshake(p) \/ Leave(p) \/ ServerTimeout(p)

Client == \/ Begin \/ Connect \/ SendHello \/ ReadWelcome \/ HandshakeTimeout

Next == Client \/ RotateToken \/ \E p \in Protocols : Server(p) \/ LoseEnd(p)

(* Both sides are tasks of a runtime, and every wait the code bounds ends. *)
(* A helper over SSH exec has no task of the node.                         *)
Spec == /\ Init /\ [][Next]_dialVars
        /\ WF_dialVars(Client) /\ \A p \in Protocols \ {"ssh-exec"} : WF_dialVars(Server(p))

-----------------------------------------------------------------------------
(* The shape of the state. *)
TypeOK ==
  /\ intent \in Intents /\ node \in Nodes
  /\ dial.pc \in {"start", "connect", "hello", "welcome", "opened", "failed", "hung"}
  /\ dial.proto \in Protocols \cup {"none"}
  /\ task \in [Protocols -> [pc : {"none", "token", "hello", "refused", "serving", "ended"},
                             expects : Tokens, accepted : Protocols \cup {"none"},
                             sent : BOOLEAN, cut : BOOLEAN]]

(* A transport the client holds for open is served: the node's task speaks *)
(* the same version, accepted the very protocol the client asked for, got  *)
(* the token it expected when it began, and waits for frames.              *)
OpenedIsServed ==
  dial.pc = "opened" /\ dial.proto # "ssh-exec"
    => LET t == task[dial.proto] IN
       /\ t.pc = "serving" /\ t.accepted = dial.proto
       /\ node.version = LocalVersion /\ t.expects = Prefix(dial.proto)

(* Whether the node would serve p to this client, said without the steps.  *)
Serves(p) ==
  /\ Usable(p) /\ Listener(p) \in node.listens /\ node.version = LocalVersion
  /\ Listener(p) = "plain" => intent.token = node.token
  /\ p = "tls-tcp" /\ node.client_ca => intent.cert

(* The automatic mode finds a way when there is one: if no wait ran out    *)
(* and the network refused nothing, then a dial that failed had no         *)
(* candidate the node would have served.                                   *)
AutoFindsAWay ==
  dial.pc = "failed" /\ dial.calm /\ intent.mode = "auto"
    => /\ ~Serves("ssh-direct") /\ ~Serves("quic") /\ ~Serves("tls-tcp")
       /\ intent.plain => ~Serves("tcp")

(* A dial has ended.  Only a helper over SSH exec may keep it for ever.    *)
DialIsOver == dial.pc \in {"opened", "failed"} \/ (dial.pc = "hung" /\ dial.proto = "ssh-exec")

(* The node is left with no task of a connection the client gave up, but   *)
(* for those that the network strands.                                     *)
OthersLeft == \A p \in Protocols : Joined(p) \/ task[p].pc \in {"none", "ended"} \/ Stranded(p)
=============================================================================
