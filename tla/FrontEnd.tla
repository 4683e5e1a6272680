------------------------------ MODULE FrontEnd ------------------------------
(***************************************************************************)
(* One client connection of a forward route, from the peek at its first    *)
(* byte to its end: the SOCKS5, HTTP and fixed-target front ends           *)
(* (socks.rs, tunnel.rs, socks5.rs, http.rs), the answer to the client,    *)
(* and the relay of an SPX tunnel with the rewritten response of a plain   *)
(* HTTP request (relay.rs).  A response is the lengths that matter: its    *)
(* head, its framing and the bytes of its body; it arrives in chunks of    *)
(* any size.                                                               *)
(***************************************************************************)
EXTENDS Integers, Sequences

CONSTANTS MaxHead, MaxBody,   \* longest head and body of a response
          HeaderLimit,        \* HTTP_RESPONSE_HEADER_LIMIT
          DataChunk           \* TCP_DATA_CHUNK

ASSUME FrontAssumption == MaxHead \in Nat \ {0} /\ {MaxBody, HeaderLimit, DataChunk} \subseteq Nat

VARIABLES
  backend,   \* TunnelBackend of the route
  request,   \* what the client asks for
  pc,
  told,      \* what the client was answered
  resp,      \* the origin's response
  at,        \* bytes of the response that have arrived
  state,     \* HttpForwardResponseState, with the length of its buffer or what remains
  out,       \* what was written to the client: the head, and bytes of the body
  end,       \* how the relay ended
  udp        \* of a UDP association: the uplink task runs, and where replies go

frontVars == <<backend, request, pc, told, resp, at, state, out, end, udp>>

Requests == {"fixed", "socks_bad", "socks_auth", "socks_connect", "socks_udp", "socks_bind", "http_bad", "http_connect", "http_forward"}
Framing  == {"length", "chunked", "close"}
Response == [head : 1..MaxHead, status : {"ok", "nobody", "bad"}, framing : Framing, length : 0..MaxBody, body : 0..MaxBody]
NoResponse == [head |-> 1, status |-> "ok", framing |-> "close", length |-> 0, body |-> 0]
Heading(n)   == [mode |-> "head", n |-> n]
Mode(m, n)   == [mode |-> m, n |-> n]

FrontTypeOK ==
  /\ backend \in {"spx", "ssh", "quic"} /\ request \in Requests /\ resp \in Response /\ at \in 0..(MaxHead + MaxBody)
  /\ pc \in {"start", "open", "answer", "relay", "udp", "ended"}
  /\ told \in Seq({"no_method", "success", "unreachable", "unsupported", "200", "400", "502", "udp"})
  /\ udp \in [up : BOOLEAN, addr : {"peer", "a", "b"}]
  /\ state \in [mode : {"head", "done"} \cup Framing, n : 0..(MaxHead + MaxBody)]
  /\ out \in [head : BOOLEAN, body : 0..MaxBody]
  /\ end \in {"none", "refused", "too_large", "bad", "done", "eof", "idle", "client", "silent", "raw"}

FrontInit ==
  /\ backend \in {"spx", "ssh", "quic"} /\ request \in Requests /\ pc = "start" /\ told = <<>>
  /\ resp \in (IF request = "http_forward" /\ backend = "spx" THEN Response ELSE {NoResponse}) /\ at = 0 /\ state = Heading(0) /\ out = [head |-> FALSE, body |-> 0] /\ end = "none"
  /\ udp = [up |-> TRUE, addr |-> "peer"]

Tell(a) == told' = Append(told, a)
relay   == <<resp, at, state, out>>

-----------------------------------------------------------------------------
(* handle_client and its variants: what a request leads to.                *)
Refuse(a) == pc' = "ended" /\ end' = "refused" /\ Tell(a)
Drop      == pc' = "ended" /\ end' = "silent" /\ UNCHANGED told
ToOpen    == pc' = "open" /\ UNCHANGED <<told, end>>

Handle ==
  /\ pc = "start"
  /\ \/ request = "fixed" /\ ToOpen
     \/ request = "socks_bad" /\ Drop
     \/ request = "socks_auth" /\ Refuse("no_method")
     \/ request = "socks_connect" /\ ToOpen
     \/ request = "socks_udp" /\ backend = "spx" /\ pc' = "udp" /\ Tell("udp") /\ UNCHANGED end
     \/ request = "socks_udp" /\ backend = "spx" /\ Drop
     \/ request = "socks_udp" /\ backend # "spx" /\ Refuse("unsupported")
     \/ request = "socks_bind" /\ Refuse("unsupported")
     \/ request = "http_bad" /\ Refuse("400")
     \/ request \in {"http_connect", "http_forward"} /\ ToOpen
  /\ UNCHANGED <<backend, request, relay, udp>>

(* TunnelResponse of a request, and the answers it stands for.             *)
TunnelResponse == [fixed |-> "None", socks_connect |-> "SocksSuccess", http_connect |-> "HttpConnect", http_forward |-> "None"]
OpenError(r)   == IF r = "SocksSuccess" THEN "unreachable" ELSE "502"

(* open_tunnel: the tunnel opens, or write_tunnel_open_error.              *)
OpenTunnel ==
  /\ pc = "open"
  /\ \/ pc' = "answer" /\ UNCHANGED <<told, end>>
     \/ Refuse(OpenError(TunnelResponse[request]))
  /\ UNCHANGED <<backend, request, relay, udp>>

(* The answer; a client that is gone by then ends the tunnel.              *)
Answer ==
  /\ pc = "answer"
  /\ \/ /\ pc' = "relay" /\ UNCHANGED end
        /\ told' = CASE TunnelResponse[request] = "SocksSuccess" -> Append(told, "success")
                     [] TunnelResponse[request] = "HttpConnect" -> Append(told, "200")
                     [] OTHER -> told
     \/ TunnelResponse[request] # "None" /\ Drop
  /\ UNCHANGED <<backend, request, relay, udp>>

-----------------------------------------------------------------------------
(* handle_udp_associate: two tasks share the address of the last sender.   *)
(* A datagram that does not parse ends the task that reads the socket, and *)
(* the association lives on.                                               *)
Datagram ==
  /\ pc = "udp" /\ udp.up
  /\ \E from \in {"a", "b"}, parses \in BOOLEAN : udp' = [udp EXCEPT !.addr = from, !.up = parses]
  /\ UNCHANGED <<backend, request, pc, told, relay, end>>

-----------------------------------------------------------------------------
(* The relay.  RelayMode::HttpForward is rewritten by the SPX backend; the *)
(* others copy bytes both ways.                                            *)
Rewrites == request = "http_forward" /\ backend = "spx"

(* rewrite_response_head_for_proxy_close and from_body_mode.               *)
AfterHead ==
  IF resp.status # "ok" \/ (resp.framing = "length" /\ resp.length = 0) THEN Mode("done", 0)
  ELSE Mode(resp.framing, IF resp.framing = "length" THEN resp.length ELSE 0)

\* A slip: the whole chunk is written, and what remains is counted from it.
BodyChunkWhole(s, n) ==
  CASE s.mode = "length" -> <<IF s.n <= n THEN Mode("done", 0) ELSE Mode("length", s.n - n), n>>
    [] s.mode \in {"chunked", "close"} -> <<s, n>>
    [] OTHER -> <<s, 0>>

(* write_http_forward_body_chunk: the new state and the bytes written.     *)
BodyChunk(s, n) ==
  LET take == IF s.n < n THEN s.n ELSE n IN
  CASE s.mode = "length" -> <<IF s.n = take THEN Mode("done", 0) ELSE Mode("length", s.n - take), take>>
    [] s.mode \in {"chunked", "close"} -> <<s, n>>
    [] OTHER -> <<s, 0>>

(* write_http_forward_response_chunk: the limit is compared with all that  *)
(* is buffered, the body that came with the head included.                 *)
ResponseChunk(n) ==
  LET buffered == state.n + n
      whole    == buffered <= HeaderLimit /\ buffered >= resp.head
      body     == IF buffered > resp.head THEN buffered - resp.head ELSE 0
      r        == IF state.mode = "head" THEN BodyChunk(AfterHead, body) ELSE BodyChunk(state, n)
  IN \/ /\ state.mode = "head" /\ buffered > HeaderLimit
        /\ end' = "too_large" /\ pc' = "ended" /\ UNCHANGED <<state, out>>
     \/ /\ state.mode = "head" /\ buffered <= HeaderLimit /\ buffered < resp.head
        /\ state' = Heading(buffered) /\ UNCHANGED <<out, end, pc>>
     \/ /\ state.mode = "head" /\ whole /\ resp.status = "bad"
        /\ end' = "bad" /\ pc' = "ended" /\ UNCHANGED <<state, out>>
     \/ /\ state.mode # "head" \/ (whole /\ resp.status # "bad")
        /\ state' = r[1] /\ out' = [head |-> TRUE, body |-> out.body + r[2]]
        /\ IF r[1].mode = "done" THEN end' = "done" /\ pc' = "ended" ELSE UNCHANGED <<end, pc>>

Arrived == resp.head + resp.body - at

Receive ==
  /\ pc = "relay" /\ Rewrites
  /\ \E n \in 1..DataChunk : n <= Arrived /\ at' = at + n /\ ResponseChunk(n)
  /\ UNCHANGED <<backend, request, told, resp, udp>>

(* The stream ends after all that arrives has been delivered: a bridge     *)
(* that is lost looks like an origin that closes early.  A                 *)
(* close-delimited body also ends when nothing comes for 750 ms.  The end  *)
(* of the client's half ends an SPX relay, or an association, at once; the *)
(* other backends wait for both halves.                                    *)
Finish(how) == pc' = "ended" /\ end' = how /\ UNCHANGED <<backend, request, told, relay, udp>>
RemoteEof   == pc = "relay" /\ Rewrites /\ Arrived = 0 /\ Finish("eof")
IdleClose   == pc = "relay" /\ Rewrites /\ state.mode = "close" /\ Finish("idle")
ClientEof   == pc \in {"relay", "udp"} /\ backend = "spx" /\ Finish("client")
RawEnds     == pc = "relay" /\ ~Rewrites /\ Finish("raw")

FrontNext == Handle \/ OpenTunnel \/ Answer \/ Datagram \/ Receive \/ RemoteEof \/ IdleClose \/ ClientEof \/ RawEnds

FrontSpec == FrontInit /\ [][FrontNext]_frontVars

-----------------------------------------------------------------------------
(* However its bytes were cut into chunks, a response with a length is     *)
(* handed on with exactly that many bytes of body, or with all there were  *)
(* when the origin closed early.                                           *)
LengthIsExact ==
  end \in {"done", "eof"} /\ out.head /\ resp.status = "ok" /\ resp.framing = "length" =>
    out.body = IF resp.body < resp.length THEN resp.body ELSE resp.length

(* A body without a length is complete unless the idle timeout or the      *)
(* client cut it.                                                          *)
OpenBodyIsComplete ==
  end \in {"done", "eof"} /\ out.head /\ resp.status = "ok" /\ resp.framing # "length" => out.body = resp.body

(* The client is answered once before the relay and never during it, and   *)
(* who was refused gets no tunnel.                                         *)
AnsweredOnce ==
  /\ Len(told) <= 1
  /\ pc = "relay" => told = <<>> \/ told[1] \in {"success", "200"}
  /\ end = "refused" => told # <<>> /\ told[1] \notin {"success", "200"}

=============================================================================
