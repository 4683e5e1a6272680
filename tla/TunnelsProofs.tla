---------------------------- MODULE TunnelsProofs ----------------------------
(***************************************************************************)
(* One client connection of a route (FrontEnd), and the SSH sessions that  *)
(* carry the tunnels of such clients (SshPool), for every set of clients,  *)
(* every size of the pool and every length of a response.                  *)
(***************************************************************************)
EXTENDS SshPool, FrontEnd, FiniteSetTheorems, SequenceTheorems, TLAPS

-----------------------------------------------------------------------------
(* A client connection.                                                    *)

Answers  == {"no_method", "success", "unreachable", "unsupported", "200", "400", "502", "udp"}
Tunneled == {"fixed", "socks_connect", "http_connect", "http_forward"}

\* Nothing is told before the tunnel is open, and a refusal is the end.
FrontTold ==
  /\ pc \in {"start", "open", "answer"} => told = <<>>
  /\ pc \in {"open", "answer", "relay"} => request \in Tunneled
  /\ pc # "ended" => end = "none"
  /\ told = <<>> \/ \E a \in Answers : told = <<a>>
  /\ pc = "relay" => told = <<>> \/ told[1] \in {"success", "200"}
  /\ end = "refused" => told # <<>> /\ told[1] \notin {"success", "200"}

\* The bytes of the head are held back until it is whole; then the client has the bytes of the
\* body that have arrived, up to the length.
FrontBody ==
  /\ at <= resp.head + resp.body
  /\ \/ /\ state.mode = "head" /\ ~out.head /\ out.body = 0 /\ end # "done"
        /\ pc # "ended" => state.n = at /\ at < resp.head
     \/ /\ state.mode = "length" /\ resp.framing = "length" /\ resp.status = "ok" /\ end # "done"
        /\ out.head /\ at = resp.head + out.body /\ resp.length = state.n + out.body /\ state.n > 0
     \/ /\ state.mode \in {"chunked", "close"} /\ resp.framing = state.mode /\ resp.status = "ok" /\ end # "done"
        /\ out.head /\ at = resp.head + out.body
     \/ /\ state.mode = "done" /\ out.head /\ pc = "ended" /\ end = "done"
        /\ resp.status = "ok" => resp.framing = "length" /\ out.body = resp.length /\ resp.length <= resp.body
  /\ end = "eof" => at = resp.head + resp.body

FrontInv == FrontTypeOK /\ FrontTold /\ FrontBody

LEMMA FrontInitially == FrontInit => FrontInv
  <1> SUFFICES ASSUME FrontInit PROVE FrontInv
    BY Zenon
  <1>1. resp \in Response
    <2>1. NoResponse \in Response
      BY FrontAssumption DEF NoResponse, Response, Framing
    <2> QED BY <2>1, Zenon DEF FrontInit
  <1>2. at = 0 /\ state = [mode |-> "head", n |-> 0] /\ out = [head |-> FALSE, body |-> 0] /\ end = "none" /\ pc = "start"
        /\ told = <<>>
    BY Zenon DEF FrontInit, Heading
  <1>3. FrontTypeOK
    <2>1. state \in [mode : {"head", "done"} \cup Framing, n : 0..(MaxHead + MaxBody)]
      BY <1>2, FrontAssumption
    <2>2. out \in [head : BOOLEAN, body : 0..MaxBody] /\ at \in 0..(MaxHead + MaxBody)
      BY <1>2, FrontAssumption
    <2>3. udp \in [up : BOOLEAN, addr : {"peer", "a", "b"}]
      BY Zenon DEF FrontInit
    <2>4. told \in Seq({"no_method", "success", "unreachable", "unsupported", "200", "400", "502", "udp"})
      BY <1>2
    <2> QED BY <1>1, <1>2, <2>1, <2>2, <2>3, <2>4, Zenon DEF FrontTypeOK, FrontInit
  <1>4. FrontTold
    BY <1>2, Zenon DEF FrontTold
  <1>5. resp.head \in Nat /\ resp.head >= 1 /\ resp.body \in Nat
    BY <1>1, FrontAssumption DEF Response
  <1>6. FrontBody
    BY <1>2, <1>5 DEF FrontBody
  <1> QED BY <1>3, <1>4, <1>6, Zenon DEF FrontInv

\* What the parts of a response and of the relay are.
LEMMA FrontTypes ==
  ASSUME FrontTypeOK
  PROVE  /\ resp.head \in 1..MaxHead /\ resp.body \in 0..MaxBody /\ resp.length \in 0..MaxBody
         /\ resp.status \in {"ok", "nobody", "bad"} /\ resp.framing \in {"length", "chunked", "close"}
         /\ state.mode \in {"head", "done", "length", "chunked", "close"} /\ state.n \in Nat
         /\ out.head \in BOOLEAN /\ out.body \in 0..MaxBody /\ at \in Nat
         /\ MaxHead \in Nat /\ MaxBody \in Nat /\ HeaderLimit \in Nat
  BY FrontAssumption DEF FrontTypeOK, Response, Framing

\* An answer is added to none.
LEMMA FrontTells ==
  ASSUME told = <<>>, NEW a \in Answers, Tell(a)
  PROVE  /\ told' = <<a>> /\ told'[1] = a
         /\ told' \in Seq({"no_method", "success", "unreachable", "unsupported", "200", "400", "502", "udp"})
  BY DEF Tell, Answers

\* A step that leaves the relay alone, and does not end it by the count of its bytes.
LEMMA FrontBodyStays ==
  ASSUME FrontInv, pc # "ended", UNCHANGED <<resp, at, state, out>>,
         end' \in {"none", "refused", "idle", "client", "silent", "raw", "eof"},
         end' = "eof" => at = resp.head + resp.body
  PROVE  FrontBody'
  <1>1. FrontBody /\ end = "none" /\ state.mode # "done"
    BY Zenon DEF FrontInv, FrontTold, FrontBody
  <1> QED BY <1>1, Zenon DEF FrontBody

\* A step before the relay, or its end: what is told and the place change, the relay does not.
LEMMA FrontMoves ==
  ASSUME FrontInv, pc # "ended", UNCHANGED <<backend, request, resp, at, state, out, udp>>,
         told' \in Seq(Answers), pc' \in {"start", "open", "answer", "relay", "udp", "ended"},
         end' \in {"none", "refused", "idle", "client", "silent", "raw", "eof"},
         end' = "eof" => at = resp.head + resp.body, FrontTold'
  PROVE  FrontInv'
  <1>1. FrontBody'
    BY FrontBodyStays, Zenon
  <1>2. FrontTypeOK'
    BY DEF FrontInv, FrontTypeOK, Answers
  <1> QED BY <1>1, <1>2, Zenon DEF FrontInv

LEMMA FrontHandle == ASSUME FrontInv, Handle PROVE FrontInv'
  <1>1. pc = "start" /\ told = <<>> /\ end = "none" /\ UNCHANGED <<backend, request, resp, at, state, out, udp>>
    BY Zenon DEF Handle, relay, FrontInv, FrontTold
  <1>2. told \in Seq(Answers)
    BY <1>1
  <1>3. ASSUME NEW a \in Answers, Tell(a) PROVE told' = <<a>> /\ told'[1] = a /\ told' \in Seq(Answers) /\ told' # <<>>
    BY <1>1, <1>3, FrontTells DEF Answers
  <1>4. CASE ToOpen /\ request \in Tunneled
    <2>1. pc' = "open" /\ told' = told /\ end' = end
      BY <1>4, Zenon DEF ToOpen
    <2>2. FrontTold'
      BY <1>1, <1>4, <2>1, Zenon DEF FrontTold
    <2> QED BY <1>1, <1>2, <2>1, <2>2, FrontMoves, Zenon
  <1>5. CASE Drop
    <2>1. pc' = "ended" /\ told' = told /\ end' = "silent"
      BY <1>5, Zenon DEF Drop
    <2>2. FrontTold'
      BY <1>1, <2>1, Zenon DEF FrontTold
    <2> QED BY <1>1, <1>2, <2>1, <2>2, FrontMoves, Zenon
  <1>6. ASSUME NEW a \in {"no_method", "unsupported", "400"}, Refuse(a) PROVE FrontInv'
    <2>1. pc' = "ended" /\ end' = "refused" /\ Tell(a) /\ a \in Answers
      BY <1>6, Zenon DEF Refuse, Answers
    <2>2. told' = <<a>> /\ told'[1] = a /\ told' \in Seq(Answers) /\ told' # <<>>
      BY <1>3, <2>1, Zenon
    <2>3. FrontTold'
      BY <1>1, <2>1, <2>2, Zenon DEF FrontTold
    <2> QED BY <1>1, <2>1, <2>2, <2>3, FrontMoves, Zenon
  <1>7. CASE pc' = "udp" /\ Tell("udp") /\ UNCHANGED end
    <2>1. "udp" \in Answers
      BY Zenon DEF Answers
    <2>2. told' = <<"udp">> /\ told'[1] = "udp" /\ told' \in Seq(Answers) /\ told' # <<>>
      BY <1>3, <1>7, <2>1, Zenon
    <2>3. FrontTold'
      BY <1>1, <1>7, <2>1, <2>2, Zenon DEF FrontTold
    <2> QED BY <1>1, <1>7, <2>2, <2>3, FrontMoves, Zenon
  <1> QED BY <1>4, <1>5, <1>6, <1>7, Zenon DEF Handle, Tunneled

LEMMA FrontOpens == ASSUME FrontInv, OpenTunnel PROVE FrontInv'
  <1>1. /\ pc = "open" /\ told = <<>> /\ end = "none" /\ request \in Tunneled
        /\ UNCHANGED <<backend, request, resp, at, state, out, udp>>
    BY Zenon DEF OpenTunnel, relay, FrontInv, FrontTold
  <1>2. told \in Seq(Answers)
    BY <1>1
  <1>3. CASE pc' = "answer" /\ UNCHANGED <<told, end>>
    <2>1. FrontTold'
      BY <1>1, <1>3, Zenon DEF FrontTold
    <2> QED BY <1>1, <1>2, <1>3, <2>1, FrontMoves, Zenon
  <1>4. ASSUME NEW a, Refuse(a), a \in {"unreachable", "502"} PROVE FrontInv'
    <2>1. pc' = "ended" /\ end' = "refused" /\ Tell(a) /\ a \in Answers
      BY <1>4, Zenon DEF Refuse, Answers
    <2>2. told' = <<a>> /\ told'[1] = a /\ told' \in Seq(Answers) /\ told' # <<>>
      BY <1>1, <2>1, FrontTells DEF Answers
    <2>3. FrontTold'
      BY <1>1, <1>4, <2>1, <2>2, Zenon DEF FrontTold
    <2> QED BY <1>1, <2>1, <2>2, <2>3, FrontMoves, Zenon
  <1>5. OpenError(TunnelResponse[request]) \in {"unreachable", "502"}
    BY Zenon DEF OpenError
  <1> QED BY <1>3, <1>4, <1>5, Zenon DEF OpenTunnel

LEMMA FrontAnswers == ASSUME FrontInv, Answer PROVE FrontInv'
  <1>1. /\ pc = "answer" /\ told = <<>> /\ end = "none" /\ request \in Tunneled
        /\ UNCHANGED <<backend, request, resp, at, state, out, udp>>
    BY Zenon DEF Answer, relay, FrontInv, FrontTold
  <1>2. told \in Seq(Answers)
    BY <1>1
  <1>3. CASE Drop
    <2>1. pc' = "ended" /\ told' = told /\ end' = "silent"
      BY <1>3, Zenon DEF Drop
    <2>2. FrontTold'
      BY <1>1, <2>1, Zenon DEF FrontTold
    <2> QED BY <1>1, <1>2, <2>1, <2>2, FrontMoves, Zenon
  <1>4. CASE /\ pc' = "relay" /\ UNCHANGED end
             /\ told' \in {Append(told, "success"), Append(told, "200"), told}
    <2>1. told' \in {<<"success">>, <<"200">>, <<>>}
      <3>1. Append(<<>>, "success") = <<"success">> /\ Append(<<>>, "200") = <<"200">>
        OBVIOUS
      <3> QED BY <1>1, <1>4, <3>1, Zenon
    <2>2. told' \in Seq(Answers) /\ (told' = <<>> \/ told'[1] \in {"success", "200"})
      <3>1. CASE told' = <<>>
        BY <3>1
      <3>2. ASSUME NEW a \in {"success", "200"}, told' = <<a>>
            PROVE  told' \in Seq(Answers) /\ told'[1] \in {"success", "200"}
        <4>1. a \in Answers
          BY Zenon DEF Answers
        <4> QED BY <3>2, <4>1
      <3> QED BY <2>1, <3>1, <3>2, Zenon
    <2>3. told' = <<>> \/ \E a \in Answers : told' = <<a>>
      BY <2>1, Zenon DEF Answers
    <2>4. FrontTold'
      BY <1>1, <1>4, <2>2, <2>3, Zenon DEF FrontTold
    <2> QED BY <1>1, <1>4, <2>2, <2>4, FrontMoves, Zenon
  <1>5. (told' = CASE TunnelResponse[request] = "SocksSuccess" -> Append(told, "success")
                   [] TunnelResponse[request] = "HttpConnect" -> Append(told, "200")
                   [] OTHER -> told) => told' \in {Append(told, "success"), Append(told, "200"), told}
    BY Zenon
  <1> QED BY <1>3, <1>4, <1>5, Zenon DEF Answer

LEMMA FrontDatagram == ASSUME FrontInv, Datagram PROVE FrontInv'
  <1>1. pc = "udp" /\ UNCHANGED <<backend, request, pc, told, resp, at, state, out, end>>
    BY Zenon DEF Datagram, relay
  <1>2. PICK a \in {"a", "b"}, b \in BOOLEAN : udp' = [udp EXCEPT !.addr = a, !.up = b]
    BY Zenon DEF Datagram
  <1>3. udp' \in [up : BOOLEAN, addr : {"peer", "a", "b"}]
    BY <1>2, Zenon DEF FrontInv, FrontTypeOK
  <1>4. FrontTypeOK'
    BY <1>1, <1>3, Zenon DEF FrontInv, FrontTypeOK
  <1>5. FrontTold' /\ FrontBody'
    BY <1>1, Zenon DEF FrontInv, FrontTold, FrontBody
  <1> QED BY <1>4, <1>5, Zenon DEF FrontInv

LEMMA FrontFinishes == ASSUME FrontInv, RemoteEof \/ IdleClose \/ ClientEof \/ RawEnds PROVE FrontInv'
  <1>1. PICK how \in {"eof", "idle", "client", "raw"} : Finish(how)
    BY Zenon DEF RemoteEof, IdleClose, ClientEof, RawEnds
  <1>2. /\ pc # "ended" /\ pc' = "ended" /\ end' = how
        /\ UNCHANGED <<backend, request, told, resp, at, state, out, udp>>
    BY <1>1, Zenon DEF RemoteEof, IdleClose, ClientEof, RawEnds, Finish, relay
  <1>3. end' = "eof" => at = resp.head + resp.body
    <2> SUFFICES ASSUME end' = "eof" PROVE at = resp.head + resp.body
      BY Zenon
    <2>1. Arrived = 0
      BY Zenon DEF RemoteEof, IdleClose, ClientEof, RawEnds, Finish
    <2> QED BY <2>1, FrontTypes, FrontAssumption DEF Arrived, FrontInv
  <1>4. told' \in Seq(Answers)
    BY <1>2, Zenon DEF FrontInv, FrontTypeOK, Answers
  <1>5. FrontTold'
    BY <1>2, Zenon DEF FrontInv, FrontTold
  <1> QED BY <1>2, <1>3, <1>4, <1>5, FrontMoves, Zenon

\* What the body of a chunk does to the state and what is written of it, for a state s and the n
\* bytes of the chunk.
LEMMA FrontChunk ==
  ASSUME NEW m \in {"done", "length", "chunked", "close"}, NEW k \in Nat, NEW n \in Nat
  PROVE  LET b == BodyChunk([mode |-> m, n |-> k], n) IN
           /\ b[1].mode \in {"done", "length", "chunked", "close"} /\ b[1].n \in Nat /\ b[2] \in Nat
           /\ b[1] = [mode |-> b[1].mode, n |-> b[1].n] /\ b[2] <= n
           /\ m = "done" => b[1].mode = "done" /\ b[2] = 0
           /\ m = "length" /\ n < k => b[1].mode = "length" /\ b[1].n = k - n /\ b[2] = n
           /\ m = "length" /\ n >= k => b[1].mode = "done" /\ b[2] = k
           /\ m \in {"chunked", "close"} => b[1].mode = m /\ b[2] = n
           /\ b[1].n <= k
  BY DEF BodyChunk, Mode

LEMMA FrontReceives == ASSUME FrontInv, Receive PROVE FrontInv'
  <1>1. PICK n \in 1..DataChunk : n <= Arrived /\ at' = at + n /\ ResponseChunk(n)
    BY Zenon DEF Receive
  <1>2. pc = "relay" /\ end = "none" /\ UNCHANGED <<backend, request, told, resp, udp>>
    BY Zenon DEF Receive, FrontInv, FrontTold
  <1> DEFINE H == resp.head
             B == resp.body
             L == resp.length
  <1>3. /\ H \in 1..MaxHead /\ B \in 0..MaxBody /\ L \in 0..MaxBody /\ n \in Nat /\ n >= 1 /\ at \in Nat
        /\ MaxHead \in Nat /\ MaxBody \in Nat /\ out.body \in Nat /\ state.n \in Nat /\ HeaderLimit \in Nat
        /\ resp.status \in {"ok", "nobody", "bad"} /\ resp.framing \in {"length", "chunked", "close"}
    BY <1>1, FrontTypes, FrontAssumption DEF FrontInv
  <1>4. at' \in Nat /\ at' <= H + B /\ at' = at + n
    BY <1>1, <1>3 DEF Arrived
  <1>5. FrontBody /\ state.mode # "done"
    BY <1>2, Zenon DEF FrontInv, FrontBody
  <1>6. FrontTold' /\ FrontTypeOK' /\ FrontBody' => FrontInv'
    BY Zenon DEF FrontInv
  \* The place and the end are those of a relay that goes on, or of an end of its bytes.
  <1>7. ASSUME (pc' = pc /\ end' = end) \/ (pc' = "ended" /\ end' \in {"too_large", "bad", "done"}) PROVE FrontTold'
    BY <1>2, <1>7, Zenon DEF FrontInv, FrontTold
  <1>8. ASSUME state' \in [mode : {"head", "done"} \cup Framing, n : 0..(MaxHead + MaxBody)],
               out' \in [head : BOOLEAN, body : 0..MaxBody],
               (pc' = pc /\ end' = end) \/ (pc' = "ended" /\ end' \in {"too_large", "bad", "done"})
        PROVE  FrontTypeOK'
    <2>1. at' \in 0..(MaxHead + MaxBody)
      BY <1>3, <1>4
    <2> QED BY <1>2, <1>8, <2>1, Zenon DEF FrontInv, FrontTypeOK
  \* The head is too large, or it cannot be rewritten.
  <1>9. CASE state.mode = "head" /\ end' \in {"too_large", "bad"} /\ pc' = "ended" /\ UNCHANGED <<state, out>>
    <2>1. FrontTold'
      BY <1>7, <1>9, Zenon
    <2>2. FrontTypeOK'
      BY <1>8, <1>9, Zenon DEF FrontInv, FrontTypeOK
    <2>3. FrontBody'
      BY <1>2, <1>4, <1>5, <1>9, Zenon DEF FrontBody
    <2> QED BY <1>6, <2>1, <2>2, <2>3
  \* More of the head.
  <1>10. CASE state.mode = "head" /\ state.n + n < H /\ state' = Heading(state.n + n) /\ UNCHANGED <<out, end, pc>>
    <2>1. state.n = at /\ at < H /\ ~out.head /\ out.body = 0
      BY <1>2, <1>5, <1>10, Zenon DEF FrontBody
    <2>2. state' = [mode |-> "head", n |-> at']
      BY <1>4, <1>10, <2>1, Zenon DEF Heading
    <2>3. state'.mode = "head" /\ state'.n = at' /\ at' < H
      BY <1>4, <1>10, <2>1, <2>2
    <2>4. FrontTold'
      BY <1>7, <1>10, Zenon
    <2>5. state' \in [mode : {"head", "done"} \cup Framing, n : 0..(MaxHead + MaxBody)]
      BY <1>3, <1>4, <2>2
    <2>6. FrontTypeOK'
      BY <1>8, <1>10, <2>5, Zenon DEF FrontInv, FrontTypeOK
    <2>7. FrontBody'
      BY <1>2, <1>4, <1>5, <1>10, <2>1, <2>3, Zenon DEF FrontBody
    <2> QED BY <1>6, <2>4, <2>6, <2>7
  \* Bytes of the body, from a state of m with k to come, x of them in this chunk.
  <1>11. ASSUME NEW STATE m, NEW STATE k, NEW STATE x, m \in {"done", "length", "chunked", "close"}, k \in Nat, x \in Nat,
                k <= MaxHead + MaxBody, state' = BodyChunk([mode |-> m, n |-> k], x)[1],
                out' = [head |-> TRUE, body |-> out.body + BodyChunk([mode |-> m, n |-> k], x)[2]],
                IF state'.mode = "done" THEN end' = "done" /\ pc' = "ended" ELSE UNCHANGED <<end, pc>>,
                at' = H + out.body + x,
                m = "done" /\ resp.status = "ok" => resp.framing = "length" /\ L = out.body,
                m # "done" => resp.status = "ok" /\ resp.framing = m,
                m = "length" => L = k + out.body /\ k > 0
         PROVE  FrontInv'
    <2> DEFINE b == BodyChunk([mode |-> m, n |-> k], x)
    <2>1. /\ b[1].mode \in {"done", "length", "chunked", "close"} /\ b[1].n \in Nat /\ b[2] \in Nat
          /\ b[1] = [mode |-> b[1].mode, n |-> b[1].n] /\ b[2] <= x
          /\ m = "done" => b[1].mode = "done" /\ b[2] = 0
          /\ m = "length" /\ x < k => b[1].mode = "length" /\ b[1].n = k - x /\ b[2] = x
          /\ m = "length" /\ x >= k => b[1].mode = "done" /\ b[2] = k
          /\ m \in {"chunked", "close"} => b[1].mode = m /\ b[2] = x
          /\ b[1].n <= k
      BY <1>11, FrontChunk
    <2>2. state' = b[1] /\ out' = [head |-> TRUE, body |-> out.body + b[2]] /\ out'.head /\ out'.body = out.body + b[2]
      BY <1>11, Zenon
    <2> HIDE DEF b
    <2>3. (pc' = pc /\ end' = end) \/ (pc' = "ended" /\ end' \in {"too_large", "bad", "done"})
      BY <1>11, Zenon
    <2>4. FrontTold'
      BY <1>7, <2>3, Zenon
    <2>5. out.body + b[2] <= MaxBody
      BY <1>3, <1>4, <1>11, <2>1
    <2>6. out' \in [head : BOOLEAN, body : 0..MaxBody]
      BY <1>3, <2>1, <2>2, <2>5
    <2>7. b[1] \in [mode : {"head", "done"} \cup Framing, n : 0..(MaxHead + MaxBody)]
      BY <1>3, <1>11, <2>1 DEF Framing
    <2>8. FrontTypeOK'
      BY <1>8, <2>2, <2>3, <2>6, <2>7, Zenon
    <2>9. end # "done" /\ end' # "eof"
      BY <1>2, <1>11, Zenon
    <2>10. FrontBody'
      <3>1. CASE m = "done"
        BY <1>2, <1>3, <1>4, <1>11, <2>1, <2>2, <2>9, <3>1 DEF FrontBody
      <3>2. CASE m = "length" /\ x < k
        <4>1. state'.n > 0 /\ L = state'.n + out'.body /\ at' = H + out'.body
          BY <1>3, <1>4, <1>11, <2>1, <2>2, <3>2
        <4> QED BY <1>2, <1>3, <1>4, <1>11, <2>1, <2>2, <2>9, <3>2, <4>1, Zenon DEF FrontBody
      <3>3. CASE m = "length" /\ x >= k
        <4>1. out'.body = L /\ L <= B
          BY <1>3, <1>4, <1>11, <2>1, <2>2, <3>3
        <4> QED BY <1>2, <1>3, <1>4, <1>11, <2>1, <2>2, <2>9, <3>3, <4>1, Zenon DEF FrontBody
      <3>4. CASE m \in {"chunked", "close"}
        BY <1>2, <1>3, <1>4, <1>11, <2>1, <2>2, <2>9, <3>4 DEF FrontBody
      <3> QED BY <1>3, <1>11, <3>1, <3>2, <3>3, <3>4
    <2> QED BY <1>6, <2>4, <2>8, <2>10
  \* The head is whole, and the chunk may hold the first bytes of the body.
  <1>12. CASE /\ state.mode = "head" /\ state.n + n >= H /\ resp.status # "bad"
              /\ LET r == BodyChunk(AfterHead, IF state.n + n > H THEN state.n + n - H ELSE 0)
                 IN  /\ state' = r[1] /\ out' = [head |-> TRUE, body |-> out.body + r[2]]
                     /\ IF r[1].mode = "done" THEN end' = "done" /\ pc' = "ended" ELSE UNCHANGED <<end, pc>>
    <2> DEFINE x == IF state.n + n > H THEN state.n + n - H ELSE 0
               m == IF resp.status # "ok" \/ (resp.framing = "length" /\ L = 0) THEN "done" ELSE resp.framing
               k == IF m = "length" THEN L ELSE 0
    <2>1. state.n = at /\ at < H /\ out.body = 0
      BY <1>2, <1>5, <1>12, Zenon DEF FrontBody
    <2>2. x \in Nat /\ at' = H + out.body + x
      BY <1>3, <1>4, <1>12, <2>1
    <2>3. AfterHead = [mode |-> m, n |-> k]
      BY <1>3, Zenon DEF AfterHead, Mode
    <2>4. m \in {"done", "length", "chunked", "close"} /\ k \in Nat /\ k <= MaxHead + MaxBody
      BY <1>3
    <2>5. /\ m = "done" /\ resp.status = "ok" => resp.framing = "length" /\ L = out.body
          /\ m # "done" => resp.status = "ok" /\ resp.framing = m
          /\ m = "length" => L = k + out.body /\ k > 0
      BY <1>3, <2>1
    <2> HIDE DEF m, k
    <2>6. /\ state' = BodyChunk([mode |-> m, n |-> k], x)[1]
          /\ out' = [head |-> TRUE, body |-> out.body + BodyChunk([mode |-> m, n |-> k], x)[2]]
          /\ IF state'.mode = "done" THEN end' = "done" /\ pc' = "ended" ELSE UNCHANGED <<end, pc>>
      BY <1>12, <2>3, Zenon
    <2> HIDE DEF x
    <2> QED BY <1>11, <2>2, <2>4, <2>5, <2>6
  \* The head was whole before.
  <1>13. CASE /\ state.mode # "head" /\ state' = BodyChunk(state, n)[1]
              /\ out' = [head |-> TRUE, body |-> out.body + BodyChunk(state, n)[2]]
              /\ IF BodyChunk(state, n)[1].mode = "done" THEN end' = "done" /\ pc' = "ended" ELSE UNCHANGED <<end, pc>>
    <2> DEFINE m == state.mode
               k == state.n
    <2>1. state = [mode |-> m, n |-> k]
      BY Zenon DEF FrontInv, FrontTypeOK
    <2>2. m \in {"length", "chunked", "close"} /\ k \in Nat
      BY <1>5, <1>13, FrontTypes, Zenon DEF FrontInv
    <2>3. at = H + out.body /\ resp.status = "ok" /\ resp.framing = m /\ (m = "length" => L = k + out.body /\ k > 0)
      BY <1>5, <1>13, <2>2, Zenon DEF FrontBody
    <2>4. at' = H + out.body + n
      BY <1>3, <1>4, <2>3, Zenon
    <2> HIDE DEF m, k
    <2>5. /\ state' = BodyChunk([mode |-> m, n |-> k], n)[1]
          /\ out' = [head |-> TRUE, body |-> out.body + BodyChunk([mode |-> m, n |-> k], n)[2]]
          /\ IF state'.mode = "done" THEN end' = "done" /\ pc' = "ended" ELSE UNCHANGED <<end, pc>>
      BY <1>13, <2>1, Zenon
    <2>6. k <= MaxHead + MaxBody
      BY <1>3 DEF FrontInv, FrontTypeOK, k
    <2> QED BY <1>3, <1>11, <2>2, <2>3, <2>4, <2>5, <2>6
  <1> QED BY <1>1, <1>3, <1>9, <1>10, <1>12, <1>13 DEF ResponseChunk

LEMMA FrontSteps == FrontInv /\ [FrontNext]_frontVars => FrontInv'
  <1> SUFFICES ASSUME FrontInv, [FrontNext]_frontVars PROVE FrontInv'
    BY Zenon
  <1>1. CASE UNCHANGED frontVars
    BY <1>1 DEF frontVars, FrontInv, FrontTypeOK, FrontTold, FrontBody
  <1> QED BY <1>1, FrontHandle, FrontOpens, FrontAnswers, FrontDatagram, FrontReceives, FrontFinishes, Zenon DEF FrontNext

LEMMA FrontEnough == FrontInv => FrontTypeOK /\ AnsweredOnce /\ LengthIsExact /\ OpenBodyIsComplete
  <1> SUFFICES ASSUME FrontInv PROVE FrontTypeOK /\ AnsweredOnce /\ LengthIsExact /\ OpenBodyIsComplete
    BY Zenon
  <1>1. FrontTypeOK /\ FrontTold /\ FrontBody
    BY Zenon DEF FrontInv
  <1>2. Len(told) <= 1
    BY <1>1 DEF FrontTold
  <1>3. AnsweredOnce
    BY <1>1, <1>2, Zenon DEF FrontTold, AnsweredOnce
  <1>4. LengthIsExact
    BY <1>1, FrontTypes DEF FrontBody, LengthIsExact
  <1>5. OpenBodyIsComplete
    BY <1>1, FrontTypes DEF FrontBody, OpenBodyIsComplete
  <1> QED BY <1>1, <1>3, <1>4, <1>5, Zenon

-----------------------------------------------------------------------------
(* The pool of SSH sessions.                                               *)

\* A session without the bounds that model checking puts on its counters.
AnySession == [active : Int, failures : Int, errors : Int, recent : BOOLEAN, alive : BOOLEAN]
SshHolding    == {"open", "reply", "relay"}
SshShape ==
  /\ sshSize \in PoolSizes /\ sessions \in Seq(AnySession) /\ channels \in Int
  /\ sshClient \in [SshClients -> [pc : {"idle", "lock", "held", "connect"} \cup SshHolding, session : Nat]]

\* The mutex of the sessions is held from the look at the pool until the session is pushed.
SshMutex == \A c \in SshClients : sshClient[c].pc \in {"held", "connect"} => lock = c

\* Who connects has found room, and the mutex keeps it.
SshRoom == \A c \in SshClients : sshClient[c].pc = "connect" => Len(sessions) < sshSize

\* A tunnel has a session exactly while it holds a channel.
SshOwned ==
  \A c \in SshClients : /\ sshClient[c].session <= Len(sessions)
                     /\ sshClient[c].pc \in SshHolding <=> sshClient[c].session # 0

SshPart == SshShape /\ SshMutex /\ SshRoom /\ SshOwned /\ PoolCapped /\ ChannelsExact

SshHolder == {c \in SshClients : sshClient[c].session # 0}

SameFaults(s, e) == e.failures = s.failures /\ e.errors = s.errors /\ (e.recent => s.recent)

\* The pool with one more session.
LEMMA SshGrown ==
  ASSUME NEW s \in Seq(AnySession)
  PROVE  LET t == Append(s, Fresh) IN
           /\ t \in Seq(AnySession) /\ Len(t) = Len(s) + 1
           /\ \A k \in 1..Len(s) : t[k] = s[k]
           /\ t[Len(s) + 1] = Fresh
  <1>1. Fresh \in AnySession
    BY DEF Fresh, AnySession
  <1> QED BY <1>1, AppendProperties

\* What one more or one less member does to a count of clients.
LEMMA SshCounts ==
  ASSUME NEW S \in SUBSET SshClients, NEW c \in SshClients
  PROVE  /\ Cardinality(S) \in Int
         /\ c \notin S => Cardinality(S \cup {c}) = Cardinality(S) + 1
         /\ c \in S => Cardinality(S \ {c}) = Cardinality(S) - 1
  <1>1. IsFiniteSet(S)
    BY FS_Subset, SshAssumption
  <1>2. Cardinality(S) \in Nat
    BY <1>1, FS_CardinalityType, Zenon
  <1>3. c \notin S => Cardinality(S \cup {c}) = Cardinality(S) + 1
    BY <1>1, FS_AddElement, Zenon
  <1>4. c \in S => Cardinality(S \ {c}) = Cardinality(S) - 1
    BY <1>1, FS_RemoveElement, Zenon
  <1> QED BY <1>2, <1>3, <1>4

\* A session with one channel more.
LEMMA SshCountedUp ==
  ASSUME NEW s \in AnySession
  PROVE  LET e == [s EXCEPT !.active = @ + 1] IN e \in AnySession /\ e.active = s.active + 1 /\ SameFaults(s, e)
  BY DEF AnySession, SameFaults

\* A session whose flags or failures change has the channels it had.
LEMMA SshFailed ==
  ASSUME NEW s \in AnySession
  PROVE  LET e == [s EXCEPT !.failures = @ + 1, !.recent = TRUE] IN
           e \in AnySession /\ e.active = s.active /\ e.failures = s.failures + 1 /\ e.errors = s.errors
  <1> DEFINE f == [s EXCEPT !.failures = @ + 1]
             e == [s EXCEPT !.failures = @ + 1, !.recent = TRUE]
  <1>1. f \in AnySession /\ f.active = s.active /\ f.failures = s.failures + 1 /\ f.errors = s.errors
    BY DEF AnySession
  <1>2. e = [f EXCEPT !.recent = TRUE]
    BY Zenon
  <1> HIDE DEF f
  <1> DEFINE g == [f EXCEPT !.recent = TRUE]
  <1>3. g \in AnySession /\ g.active = f.active /\ g.failures = f.failures /\ g.errors = f.errors
    BY <1>1, Zenon DEF AnySession
  <1> QED BY <1>1, <1>2, <1>3, Zenon

\* The same for the record of a session whose channel failed to open.
LEMMA SshErred ==
  ASSUME NEW s \in AnySession, NEW n \in {0, 1}
  PROVE  LET e == [s EXCEPT !.errors = @ + n] IN
           /\ e \in AnySession /\ e.active = s.active
           /\ e.failures = s.failures /\ e.errors = s.errors + n /\ (e.recent <=> s.recent)
  BY DEF AnySession

\* The same when a session's flags change.
LEMMA SshFlagged ==
  ASSUME NEW s \in AnySession
  PROVE  /\ LET e == [s EXCEPT !.alive = FALSE] IN e \in AnySession /\ e.active = s.active /\ SameFaults(s, e)
         /\ LET e == [s EXCEPT !.recent = FALSE] IN e \in AnySession /\ e.active = s.active /\ SameFaults(s, e)
  BY Zenon DEF AnySession, SameFaults

\* acquire_session_channel keeps the counts exact and the pool within its size, whether the
\* session has just been pushed or was there before.
LEMMA SshAcquires ==
  ASSUME SshPart, NEW c \in SshClients, sshClient[c].pc \in {"held", "connect"},
         NEW STATE ss, ss \in Seq(AnySession), NEW STATE i, i \in 1..Len(ss),
         Len(sessions) <= Len(ss), Len(ss) <= sshSize,
         \A k \in 1..Len(ss) : ss[k].active = Cardinality(Holders(k)),
         Acquire(c, i, ss), sshSize' = sshSize
  PROVE  SshPart'
  <1> DEFINE e == [ss[i] EXCEPT !.active = @ + 1]
  <1>1. ss[i] \in AnySession /\ e \in AnySession /\ e.active = ss[i].active + 1
    <2>1. ss[i] \in AnySession
      BY LenProperties, Zenon
    <2> QED BY <2>1, SshCountedUp, Zenon
  <1>2. /\ sessions' \in Seq(AnySession) /\ Len(sessions') = Len(ss)
        /\ \A k \in 1..Len(ss) : sessions'[k] = IF k = i THEN e ELSE ss[k]
    <2>1. sessions' = [ss EXCEPT ![i] = e]
      BY Zenon DEF Acquire
    <2> HIDE DEF e
    <2> QED BY <1>1, <2>1, ExceptSeq
  <1> HIDE DEF e
  <1>3. /\ sshClient'[c] = [pc |-> "open", session |-> i]
        /\ \A d \in SshClients : d # c => sshClient'[d] = sshClient[d]
        /\ sshClient' \in [SshClients -> [pc : {"idle", "lock", "held", "connect"} \cup SshHolding, session : Nat]]
    BY DEF Acquire, SshPart, SshShape, SshHolding
  <1>4. sshClient[c].session = 0 /\ channels' = channels + 1
    BY Zenon DEF Acquire, SshPart, SshOwned, SshHolding
  <1>5. Len(ss) \in Nat /\ Len(sessions) \in Nat /\ sshSize \in Nat
    BY LenProperties, SshAssumption DEF SshPart, SshShape
  <1>6. SshShape'
    BY <1>2, <1>3, <1>4 DEF SshPart, SshShape
  <1>7. \A d \in SshClients : d # c => sshClient[d].pc \notin {"held", "connect"}
    BY Zenon DEF SshPart, SshMutex
  <1>8. SshMutex' /\ SshRoom'
    BY <1>3, <1>7 DEF SshMutex, SshRoom
  <1>9. SshOwned'
    <2> SUFFICES ASSUME NEW d \in SshClients
                 PROVE  /\ sshClient'[d].session <= Len(sessions')
                        /\ sshClient'[d].pc \in SshHolding <=> sshClient'[d].session # 0
      BY Zenon DEF SshOwned
    <2>1. CASE d = c
      BY <1>2, <1>3, <1>5, <2>1 DEF SshHolding
    <2>2. CASE d # c
      <3>1. /\ sshClient[d].session <= Len(sessions) /\ sshClient[d].session \in Nat
            /\ sshClient[d].pc \in SshHolding <=> sshClient[d].session # 0
        BY DEF SshPart, SshOwned, SshShape
      <3> QED BY <1>2, <1>3, <1>5, <2>2, <3>1
    <2> QED BY <2>1, <2>2, Zenon
  <1>10. \A k \in 1..Len(ss) : sessions'[k].active = Cardinality(Holders(k)')
    <2> SUFFICES ASSUME NEW k \in 1..Len(ss)
                 PROVE  sessions'[k].active = Cardinality(Holders(k)')
      BY Zenon
    <2>1. CASE k = i
      <3>1. Holders(k)' = Holders(k) \cup {c} /\ c \notin Holders(k)
        BY <1>3, <1>4, <1>5, <2>1 DEF Holders
      <3>2. Holders(k) \subseteq SshClients
        BY Zenon DEF Holders
      <3> QED BY <1>1, <1>2, <2>1, <3>1, <3>2, SshCounts
    <2>2. CASE k # i
      <3>1. Holders(k)' = Holders(k)
        <4>1. \A d \in SshClients : sshClient'[d].session = k <=> sshClient[d].session = k
          BY <1>3, <1>4, <2>2
        <4> QED BY <4>1, Zenon DEF Holders
      <3> QED BY <1>2, <2>2, <3>1, Zenon
    <2> QED BY <2>1, <2>2, Zenon
  <1>11. channels' = Cardinality(SshHolder')
    <2>1. SshHolder' = SshHolder \cup {c} /\ c \notin SshHolder /\ SshHolder \subseteq SshClients
      BY <1>3, <1>4, <1>5 DEF SshHolder
    <2> QED BY <1>4, <2>1, SshCounts, Zenon DEF SshPart, ChannelsExact, SshHolder
  <1>12. DOMAIN sessions' = 1..Len(ss)
    BY <1>2, LenProperties, Zenon
  <1>13. PoolCapped' /\ ChannelsExact'
    BY <1>2, <1>10, <1>11, <1>12, Zenon DEF PoolCapped, ChannelsExact, SshHolder
  <1> QED BY <1>6, <1>8, <1>9, <1>13, Zenon DEF SshPart

\* A channel that is given back, by the guard or by the stream, is counted down once, at the
\* session it was taken from.
LEMMA SshReleases ==
  ASSUME SshPart, NEW c \in SshClients, sshClient[c].pc \in SshHolding,
         NEW STATE s, s \in AnySession, s.active = sessions[sshClient[c].session].active,
         Release(c, s), UNCHANGED <<sshSize, lock>>
  PROVE  SshPart'
  <1> DEFINE i == sshClient[c].session
             e == [s EXCEPT !.active = @ - 1]
  <1>1. e \in AnySession /\ e.active = s.active - 1
    BY DEF AnySession
  <1>2. i \in 1..Len(sessions) /\ sessions \in Seq(AnySession) /\ Len(sessions) \in Nat
    BY LenProperties DEF SshPart, SshOwned, SshShape
  <1>3. /\ sessions' \in Seq(AnySession) /\ Len(sessions') = Len(sessions)
        /\ \A k \in 1..Len(sessions) : sessions'[k] = IF k = i THEN e ELSE sessions[k]
    <2>1. sessions' = [sessions EXCEPT ![i] = e]
      BY Zenon DEF Release
    <2> HIDE DEF e, i
    <2> QED BY <1>1, <1>2, <2>1, ExceptSeq
  <1>4. /\ sshClient'[c] = [pc |-> "idle", session |-> 0] /\ channels' = channels - 1
        /\ \A d \in SshClients : d # c => sshClient'[d] = sshClient[d]
        /\ sshClient' \in [SshClients -> [pc : {"idle", "lock", "held", "connect"} \cup SshHolding, session : Nat]]
    BY Zenon DEF Release, Out, SshPart, SshShape, SshHolding
  <1> HIDE DEF e
  <1>5. SshShape'
    BY <1>3, <1>4 DEF SshPart, SshShape
  <1>6. SshMutex' /\ SshRoom'
    <2>1. \A d \in SshClients : sshClient'[d].pc \in {"held", "connect"} => sshClient'[d].pc = sshClient[d].pc
      BY <1>4
    <2> QED BY <1>3, <2>1, Zenon DEF SshPart, SshMutex, SshRoom
  <1>7. SshOwned'
    BY <1>2, <1>3, <1>4 DEF SshPart, SshOwned, SshHolding
  <1>8. \A k \in 1..Len(sessions) : sessions'[k].active = Cardinality(Holders(k)')
    <2> SUFFICES ASSUME NEW k \in 1..Len(sessions)
                 PROVE  sessions'[k].active = Cardinality(Holders(k)')
      BY Zenon
    <2>1. sessions[k].active = Cardinality(Holders(k)) /\ Holders(k) \subseteq SshClients
      BY <1>2, LenProperties, Zenon DEF SshPart, ChannelsExact, Holders
    <2>2. CASE k = i
      <3>1. Holders(k)' = Holders(k) \ {c} /\ c \in Holders(k)
        BY <1>2, <1>4, <2>2 DEF Holders
      <3> QED BY <1>1, <1>3, <2>1, <2>2, <3>1, SshCounts
    <2>3. CASE k # i
      <3>1. Holders(k)' = Holders(k)
        BY <1>2, <1>4, <2>3 DEF Holders
      <3> QED BY <1>3, <2>1, <2>3, <3>1, Zenon
    <2> QED BY <2>2, <2>3, Zenon
  <1>9. channels' = Cardinality(SshHolder')
    <2>1. SshHolder' = SshHolder \ {c} /\ c \in SshHolder /\ SshHolder \subseteq SshClients
      BY <1>2, <1>4 DEF SshHolder
    <2> QED BY <1>4, <2>1, SshCounts, Zenon DEF SshPart, ChannelsExact, SshHolder
  <1>10. DOMAIN sessions' = 1..Len(sessions)
    BY <1>3, LenProperties, Zenon
  <1>11. PoolCapped' /\ ChannelsExact'
    BY <1>3, <1>8, <1>9, <1>10, Zenon DEF SshPart, PoolCapped, ChannelsExact, SshHolder
  <1> QED BY <1>5, <1>6, <1>7, <1>11, Zenon DEF SshPart

\* A step that takes and gives back no channel leaves the counts as they are.
LEMMA SshNoChannel ==
  ASSUME SshPart, sessions' \in Seq(AnySession), Len(sessions') = Len(sessions),
         \A k \in 1..Len(sessions) : sessions'[k].active = sessions[k].active,
         \A d \in SshClients : sshClient'[d].session = sshClient[d].session,
         UNCHANGED <<sshSize, channels>>
  PROVE  PoolCapped' /\ ChannelsExact'
  <1>1. \A k : Holders(k)' = Holders(k)
    BY Zenon DEF Holders
  <1>2. SshHolder' = SshHolder
    BY Zenon DEF SshHolder
  <1>3. DOMAIN sessions' = 1..Len(sessions) /\ DOMAIN sessions = 1..Len(sessions)
    BY LenProperties, Zenon DEF SshPart, SshShape
  <1> QED BY <1>1, <1>2, <1>3, Zenon DEF SshPart, PoolCapped, ChannelsExact, SshHolder

\* A tunnel goes on without the sessions: only its place changes.
LEMMA SshTunnelMoves ==
  ASSUME SshPart, NEW c \in SshClients, NEW STATE p, p \in {"idle", "lock", "held", "connect"} \cup SshHolding,
         sshClient' = [sshClient EXCEPT ![c].pc = p],
         p \in SshHolding <=> sshClient[c].pc \in SshHolding,
         UNCHANGED <<sshSize, sessions, channels>>, SshMutex', SshRoom'
  PROVE  SshPart'
  <1>1. /\ sshClient' \in [SshClients -> [pc : {"idle", "lock", "held", "connect"} \cup SshHolding, session : Nat]]
        /\ \A d \in SshClients : sshClient'[d].session = sshClient[d].session
        /\ \A d \in SshClients : sshClient'[d].pc = IF d = c THEN p ELSE sshClient[d].pc
    BY Zenon DEF SshPart, SshShape
  <1>2. SshShape'
    BY <1>1, Zenon DEF SshPart, SshShape
  <1>3. SshOwned'
    BY <1>1, Zenon DEF SshPart, SshOwned
  <1>4. PoolCapped' /\ ChannelsExact'
    BY <1>1, SshNoChannel, Zenon DEF SshPart, SshShape
  <1> QED BY <1>2, <1>3, <1>4, Zenon DEF SshPart

\* A session dies or its failure ages: no count depends on that.
LEMMA SshSessionChanges ==
  ASSUME SshPart, NEW STATE i, i \in 1..Len(sessions), NEW STATE e, e \in AnySession,
         e.active = sessions[i].active, sessions' = [sessions EXCEPT ![i] = e],
         UNCHANGED <<sshSize, channels, lock, sshClient>>
  PROVE  SshPart'
  <1>1. sessions \in Seq(AnySession)
    BY Zenon DEF SshPart, SshShape
  <1>2. /\ sessions' \in Seq(AnySession) /\ Len(sessions') = Len(sessions)
        /\ \A k \in 1..Len(sessions) : sessions'[k] = IF k = i THEN e ELSE sessions[k]
    BY <1>1, ExceptSeq
  <1>3. PoolCapped' /\ ChannelsExact'
    BY <1>2, SshNoChannel, Zenon
  <1>4. SshShape' /\ SshMutex' /\ SshRoom' /\ SshOwned'
    BY <1>2, Zenon DEF SshPart, SshShape, SshMutex, SshRoom, SshOwned
  <1> QED BY <1>3, <1>4, Zenon DEF SshPart

\* The pool starts empty, with nobody holding its lock.
LEMMA SshPartInit == SshInit => SshPart
  <1> SUFFICES ASSUME SshInit PROVE SshPart
    BY Zenon
  <1>1. sessions \in Seq(AnySession) /\ Len(sessions) = 0 /\ DOMAIN sessions = {}
    BY DEF SshInit
  <1>2. sshClient = [c \in SshClients |-> [pc |-> "idle", session |-> 0]] /\ channels = 0 /\ sshSize \in PoolSizes
    BY Zenon DEF SshInit, Out
  <1>3. SshShape /\ SshMutex /\ SshRoom /\ SshOwned /\ PoolCapped
    BY <1>1, <1>2, SshAssumption DEF SshShape, SshMutex, SshRoom, SshOwned, PoolCapped, SshHolding
  <1>4. {c \in SshClients : sshClient[c].session # 0} = {}
    BY <1>2, Zenon
  <1>5. ChannelsExact
    BY <1>1, <1>2, <1>4, FS_EmptySet, Zenon DEF ChannelsExact
  <1> QED BY <1>3, <1>5, Zenon DEF SshPart

\* Every step of a client or of a session keeps the invariant.
LEMMA SshPartNext == SshPart /\ [SshNext]_sshVars => SshPart'
  <1> SUFFICES ASSUME SshPart, [SshNext]_sshVars PROVE SshPart'
    BY Zenon
  <1>0. /\ sessions \in Seq(AnySession) /\ Len(sessions) \in Nat /\ sshSize \in Nat \ {0}
        /\ DOMAIN sessions = 1..Len(sessions) /\ \A k \in 1..Len(sessions) : sessions[k] \in AnySession
    BY LenProperties, SshAssumption DEF SshPart, SshShape
  <1>1. ASSUME NEW c \in SshClients, SshAccept(c) PROVE SshPart'
    <2>1. sshClient[c].pc = "idle" /\ sshClient' = [sshClient EXCEPT ![c].pc = "lock"]
          /\ UNCHANGED <<sshSize, sessions, channels, lock>>
      BY <1>1, Zenon DEF SshAccept
    <2>2. \A d \in SshClients : sshClient'[d].pc \in {"held", "connect"} => sshClient'[d].pc = sshClient[d].pc
      BY <2>1, Zenon DEF SshPart, SshShape
    <2>3. SshMutex' /\ SshRoom'
      BY <2>1, <2>2, Zenon DEF SshPart, SshMutex, SshRoom
    <2> QED BY <2>1, <2>3, SshTunnelMoves, Zenon DEF SshHolding
  <1>2. ASSUME NEW c \in SshClients, Lock(c) PROVE SshPart'
    <2> DEFINE p == IF should_open_new_session(Len(sessions), min_active) THEN "connect" ELSE "held"
    <2>1. /\ sshClient[c].pc = "lock" /\ lock = Nobody /\ lock' = c
          /\ sshClient' = [sshClient EXCEPT ![c].pc = p] /\ UNCHANGED <<sshSize, sessions, channels>>
      BY <1>2, Zenon DEF Lock
    <2>2. p \in {"connect", "held"} /\ (p = "connect" => Len(sessions) < sshSize)
      BY <1>0 DEF should_open_new_session
    <2> HIDE DEF p
    <2>3. \A d \in SshClients : sshClient'[d].pc = IF d = c THEN p ELSE sshClient[d].pc
      BY <2>1, Zenon DEF SshPart, SshShape
    <2>4. \A d \in SshClients : sshClient[d].pc \notin {"held", "connect"}
      BY <2>1, SshAssumption DEF SshPart, SshMutex, Nobody
    <2>5. SshMutex' /\ SshRoom'
      BY <2>1, <2>2, <2>3, <2>4, Zenon DEF SshMutex, SshRoom
    <2> QED BY <2>1, <2>2, <2>5, SshTunnelMoves, Zenon DEF SshHolding
  <1>3. ASSUME NEW c \in SshClients, SshConnect(c) PROVE SshPart'
    <2>1. CASE Acquire(c, Len(sessions) + 1, Append(sessions, Fresh))
      <3> DEFINE ss == Append(sessions, Fresh)
      <3>1. /\ ss \in Seq(AnySession) /\ Len(ss) = Len(sessions) + 1
            /\ \A k \in 1..Len(sessions) : ss[k] = sessions[k]
            /\ ss[Len(sessions) + 1] = Fresh
        BY <1>0, SshGrown, Zenon
      <3>2. sshClient[c].pc = "connect" /\ Len(sessions) < sshSize /\ sshSize' = sshSize
        BY <1>3, Zenon DEF SshConnect, SshPart, SshRoom
      <3>3. Holders(Len(sessions) + 1) = {}
        BY <1>0 DEF SshPart, SshOwned, SshShape, Holders
      <3>4. Fresh.active = Cardinality(Holders(Len(sessions) + 1))
        BY <3>3, FS_EmptySet, Zenon DEF Fresh
      <3> HIDE DEF ss
      <3>5. \A k \in 1..Len(ss) : ss[k].active = Cardinality(Holders(k))
        BY <1>0, <3>1, <3>4 DEF SshPart, ChannelsExact
      <3>6. Len(sessions) + 1 \in 1..Len(ss) /\ Len(sessions) <= Len(ss) /\ Len(ss) <= sshSize
        BY <1>0, <3>1, <3>2
      <3> QED BY <2>1, <3>1, <3>2, <3>5, <3>6, SshAcquires, Zenon DEF ss
    <2>2. CASE /\ sshClient' = [sshClient EXCEPT ![c] = Out] /\ lock' = Nobody
               /\ UNCHANGED <<sessions, channels>>
      <3>1. sshClient[c].pc = "connect" /\ sshClient[c].session = 0 /\ sshSize' = sshSize
        BY <1>3, Zenon DEF SshConnect, SshPart, SshOwned, SshHolding
      <3>2. /\ sshClient' \in [SshClients -> [pc : {"idle", "lock", "held", "connect"} \cup SshHolding, session : Nat]]
            /\ sshClient'[c] = [pc |-> "idle", session |-> 0]
            /\ \A d \in SshClients : d # c => sshClient'[d] = sshClient[d]
        BY <2>2, Zenon DEF SshPart, SshShape, Out, SshHolding
      <3>3. \A d \in SshClients : sshClient'[d].pc \notin {"held", "connect"}
        BY <3>1, <3>2 DEF SshPart, SshMutex
      <3>4. SshShape' /\ SshMutex' /\ SshRoom'
        BY <2>2, <3>1, <3>2, <3>3, Zenon DEF SshPart, SshShape, SshMutex, SshRoom
      <3>5. SshOwned'
        BY <1>0, <2>2, <3>2 DEF SshPart, SshOwned, SshHolding
      <3>6. PoolCapped' /\ ChannelsExact'
        BY <1>0, <2>2, <3>1, <3>2, SshNoChannel
      <3> QED BY <3>4, <3>5, <3>6, Zenon DEF SshPart
    <2> QED BY <1>3, <2>1, <2>2, Zenon DEF SshConnect
  <1>4. ASSUME NEW c \in SshClients, Choose(c) PROVE SshPart'
    <2>1. PICK i \in SshPreferred : Acquire(c, i, sessions)
      BY <1>4, Zenon DEF Choose
    <2>2. sshClient[c].pc = "held" /\ sshSize' = sshSize /\ i \in 1..Len(sessions)
      BY <1>0, <1>4, Zenon DEF Choose, SshPreferred
    <2>3. /\ \A k \in 1..Len(sessions) : sessions[k].active = Cardinality(Holders(k))
          /\ Len(sessions) <= sshSize
      BY <1>0, Zenon DEF SshPart, ChannelsExact, PoolCapped
    <2> QED BY <1>0, <2>1, <2>2, <2>3, SshAcquires
  <1>5. ASSUME NEW c \in SshClients, sshClient[c].pc \in SshHolding
        PROVE  sessions[sshClient[c].session] \in AnySession
    BY <1>0, <1>5 DEF SshPart, SshOwned, SshShape
  <1>6. ASSUME NEW c \in SshClients, OpenFails(c) PROVE SshPart'
    <2> DEFINE r == sessions[sshClient[c].session]
               s == [r EXCEPT !.failures = @ + 1, !.recent = TRUE]
    <2>1. sshClient[c].pc \in SshHolding /\ Release(c, s) /\ UNCHANGED <<sshSize, lock>>
      BY <1>6, Zenon DEF OpenFails, SshHolding
    <2>2. s \in AnySession /\ s.active = r.active
      BY <1>5, <2>1, SshFailed, Zenon
    <2> HIDE DEF s
    <2> QED BY <2>1, <2>2, SshReleases, Zenon
  <1>7. ASSUME NEW c \in SshClients, OpenOk(c) PROVE SshPart'
    <2>1. sshClient[c].pc = "open" /\ sshClient' = [sshClient EXCEPT ![c].pc = "reply"]
          /\ UNCHANGED <<sshSize, sessions, channels, lock>>
      BY <1>7, Zenon DEF OpenOk
    <2>2. \A d \in SshClients : sshClient'[d].pc \in {"held", "connect"} => sshClient'[d].pc = sshClient[d].pc
      BY <2>1, Zenon DEF SshPart, SshShape
    <2>3. SshMutex' /\ SshRoom'
      BY <2>1, <2>2, Zenon DEF SshPart, SshMutex, SshRoom
    <2> QED BY <2>1, <2>3, SshTunnelMoves, Zenon DEF SshHolding
  <1>8. ASSUME NEW c \in SshClients, NEW n \in {0, 1}, sshClient[c].pc \in SshHolding, UNCHANGED <<sshSize, lock>>,
               Release(c, [sessions[sshClient[c].session] EXCEPT !.errors = @ + n])
        PROVE  SshPart'
    <2> DEFINE r == sessions[sshClient[c].session]
               s == [r EXCEPT !.errors = @ + n]
    <2>1. s \in AnySession /\ s.active = r.active
      BY <1>5, <1>8, SshErred, Zenon
    <2> HIDE DEF s
    <2> QED BY <1>8, <2>1, SshReleases, Zenon DEF s
  <1>9. ASSUME NEW c \in SshClients, SshReply(c) PROVE SshPart'
    <2>1. sshClient[c].pc = "reply" /\ UNCHANGED <<sshSize, lock>>
      BY <1>9, Zenon DEF SshReply
    <2>2. CASE sshClient' = [sshClient EXCEPT ![c].pc = "relay"] /\ UNCHANGED <<sessions, channels>>
      <3>1. \A d \in SshClients : sshClient'[d].pc \in {"held", "connect"} => sshClient'[d].pc = sshClient[d].pc
        BY <2>2, Zenon DEF SshPart, SshShape
      <3>2. SshMutex' /\ SshRoom'
        BY <2>1, <2>2, <3>1, Zenon DEF SshPart, SshMutex, SshRoom
      <3> QED BY <2>1, <2>2, <3>2, SshTunnelMoves, Zenon DEF SshHolding
    <2>3. CASE Release(c, [sessions[sshClient[c].session] EXCEPT !.errors = @ + 1])
      BY <1>8, <2>1, <2>3, Zenon DEF SshHolding
    <2> QED BY <1>9, <2>2, <2>3, Zenon DEF SshReply
  <1>10. ASSUME NEW c \in SshClients, SshRelayEnds(c) PROVE SshPart'
    BY <1>8, <1>10, Zenon DEF SshRelayEnds, SshHolding
  <1>11. ASSUME NEW i, SessionDies(i) PROVE SshPart'
    <2> DEFINE e == [sessions[i] EXCEPT !.alive = FALSE]
    <2>1. i \in 1..Len(sessions) /\ sessions' = [sessions EXCEPT ![i] = e]
          /\ UNCHANGED <<sshSize, channels, lock, sshClient>>
      BY <1>0, <1>11, Zenon DEF SessionDies
    <2>2. e \in AnySession /\ e.active = sessions[i].active
      BY <1>0, <2>1, SshFlagged, Zenon
    <2> HIDE DEF e
    <2> QED BY <2>1, <2>2, SshSessionChanges, Zenon
  <1>12. ASSUME NEW i, FailureAges(i) PROVE SshPart'
    <2> DEFINE e == [sessions[i] EXCEPT !.recent = FALSE]
    <2>1. i \in 1..Len(sessions) /\ sessions' = [sessions EXCEPT ![i] = e]
          /\ UNCHANGED <<sshSize, channels, lock, sshClient>>
      BY <1>0, <1>12, Zenon DEF FailureAges
    <2>2. e \in AnySession /\ e.active = sessions[i].active
      BY <1>0, <2>1, SshFlagged, Zenon
    <2> HIDE DEF e
    <2> QED BY <2>1, <2>2, SshSessionChanges, Zenon
  <1>13. CASE UNCHANGED sshVars
    BY <1>13, Zenon DEF sshVars, SshPart, SshShape, SshMutex, SshRoom, SshOwned, PoolCapped, ChannelsExact, Holders
  <1> QED BY <1>1, <1>2, <1>3, <1>4, <1>6, <1>7, <1>9, <1>10, <1>11, <1>12, <1>13, Zenon DEF SshNext, SshTunnel

-----------------------------------------------------------------------------
\* Every tunnel that a client has asked for pushes a session, fails or errs at most once.
SshUnderway == {c \in SshClients : sshClient[c].pc # "idle"}
SshWaiting  == {c \in SshClients : sshClient[c].pc \in {"lock", "held", "connect"}}
SshTally ==
  /\ lock \in SshClients \cup {Nobody} /\ sshOpens \in 0..MaxOpens
  /\ Cardinality(SshUnderway) <= sshOpens /\ Len(sessions) + Cardinality(SshWaiting) <= sshOpens
  /\ \A i \in 1..Len(sessions) :
       /\ sessions[i].failures \in Nat /\ sessions[i].errors \in Nat
       /\ sessions[i].recent => sessions[i].failures >= 1
       /\ sessions[i].failures + sessions[i].errors + Cardinality(SshUnderway) <= sshOpens

\* How the two counts change when one client goes from place p to place q.
SshCounted(p, q) ==
  /\ Cardinality(SshUnderway) \in Nat /\ Cardinality(SshWaiting) \in Nat
  /\ Cardinality(SshUnderway)' = Cardinality(SshUnderway) + (IF q # "idle" THEN 1 ELSE 0) - (IF p # "idle" THEN 1 ELSE 0)
  /\ Cardinality(SshWaiting)' = Cardinality(SshWaiting)
       + (IF q \in {"lock", "held", "connect"} THEN 1 ELSE 0) - (IF p \in {"lock", "held", "connect"} THEN 1 ELSE 0)

LEMMA SshCountOne ==
  ASSUME SshPart, NEW c \in SshClients, \A d \in SshClients : d # c => sshClient'[d] = sshClient[d]
  PROVE  SshCounted(sshClient[c].pc, sshClient'[c].pc)
  <1>2. ASSUME NEW S \in SUBSET SshClients, NEW R \in SUBSET SshClients, R \ {c} = S \ {c}
        PROVE  /\ Cardinality(S) \in Nat
               /\ Cardinality(R) = Cardinality(S) + (IF c \in R THEN 1 ELSE 0) - (IF c \in S THEN 1 ELSE 0)
    <2>1. Cardinality(S) \in Nat /\ Cardinality(R) \in Int
      BY FS_Subset, FS_CardinalityType, SshAssumption, SshCounts
    <2>2. CASE c \in R /\ c \in S
      <3>1. R = S
        BY <1>2, <2>2
      <3> QED BY <2>1, <2>2, <3>1
    <2>3. CASE c \notin R /\ c \notin S
      <3>1. R = S
        BY <1>2, <2>3
      <3> QED BY <2>1, <2>3, <3>1
    <2>4. CASE c \in R /\ c \notin S
      <3>1. R = S \cup {c}
        BY <1>2, <2>4, Zenon
      <3>2. Cardinality(S \cup {c}) = Cardinality(S) + 1
        BY <2>4, SshCounts, Zenon
      <3> QED BY <2>1, <2>4, <3>1, <3>2
    <2>5. CASE c \notin R /\ c \in S
      <3>1. R = S \ {c}
        BY <1>2, <2>5, Zenon
      <3>2. Cardinality(S \ {c}) = Cardinality(S) - 1
        BY <2>5, SshCounts, Zenon
      <3> QED BY <2>1, <2>5, <3>1, <3>2
    <2> QED BY <2>2, <2>3, <2>4, <2>5
  <1>3. /\ SshUnderway \in SUBSET SshClients /\ SshUnderway' \in SUBSET SshClients /\ SshUnderway' \ {c} = SshUnderway \ {c}
        /\ c \in SshUnderway' <=> sshClient'[c].pc # "idle"
        /\ c \in SshUnderway <=> sshClient[c].pc # "idle"
    BY Zenon DEF SshUnderway
  <1>4. /\ SshWaiting \in SUBSET SshClients /\ SshWaiting' \in SUBSET SshClients /\ SshWaiting' \ {c} = SshWaiting \ {c}
        /\ c \in SshWaiting' <=> sshClient'[c].pc \in {"lock", "held", "connect"}
        /\ c \in SshWaiting <=> sshClient[c].pc \in {"lock", "held", "connect"}
    BY Zenon DEF SshWaiting
  <1>6. /\ Cardinality(SshUnderway) \in Nat
        /\ Cardinality(SshUnderway') = Cardinality(SshUnderway) + (IF c \in SshUnderway' THEN 1 ELSE 0) - (IF c \in SshUnderway THEN 1 ELSE 0)
    BY <1>2, <1>3, Zenon
  <1>7. /\ Cardinality(SshWaiting) \in Nat
        /\ Cardinality(SshWaiting') = Cardinality(SshWaiting) + (IF c \in SshWaiting' THEN 1 ELSE 0) - (IF c \in SshWaiting THEN 1 ELSE 0)
    BY <1>2, <1>4, Zenon
  <1> QED BY <1>3, <1>4, <1>6, <1>7, Zenon DEF SshCounted

\* A step of a tunnel that is under way by which no session fails or errs.
LEMMA SshTallyStays ==
  ASSUME SshPart, SshTally, NEW c \in SshClients, \A d \in SshClients : d # c => sshClient'[d] = sshClient[d],
         sshClient[c].pc # "idle",
         sshClient'[c].pc \in {"lock", "held", "connect"} => sshClient[c].pc \in {"lock", "held", "connect"},
         lock' \in SshClients \cup {Nobody}, sshOpens' = sshOpens, Len(sessions') = Len(sessions),
         \A i \in 1..Len(sessions) : SameFaults(sessions[i], sessions'[i])
  PROVE  SshTally'
  <1>1. SshCounted(sshClient[c].pc, sshClient'[c].pc)
    BY SshCountOne, Zenon
  <1>2. /\ Cardinality(SshUnderway) \in Nat /\ Cardinality(SshWaiting) \in Nat
        /\ Cardinality(SshUnderway)' \in Int /\ Cardinality(SshWaiting)' \in Int
        /\ Cardinality(SshUnderway)' <= Cardinality(SshUnderway) /\ Cardinality(SshWaiting)' <= Cardinality(SshWaiting)
    BY <1>1 DEF SshCounted
  <1>3. Len(sessions) \in Nat /\ sshOpens \in Nat
    BY LenProperties, SshAssumption DEF SshTally, SshPart, SshShape
  <1>4. ASSUME NEW i \in 1..Len(sessions)
        PROVE  /\ sessions'[i].failures \in Nat /\ sessions'[i].errors \in Nat
               /\ sessions'[i].recent => sessions'[i].failures >= 1
               /\ sessions'[i].failures + sessions'[i].errors + Cardinality(SshUnderway)' <= sshOpens
    <2>1. /\ sessions'[i].failures = sessions[i].failures /\ sessions'[i].errors = sessions[i].errors
          /\ sessions'[i].recent => sessions[i].recent
      BY Zenon DEF SameFaults
    <2>2. /\ sessions[i].failures \in Nat /\ sessions[i].errors \in Nat
          /\ sessions[i].recent => sessions[i].failures >= 1
          /\ sessions[i].failures + sessions[i].errors + Cardinality(SshUnderway) <= sshOpens
      BY Zenon DEF SshTally
    <2> QED BY <1>2, <1>3, <2>1, <2>2
  <1>5. Cardinality(SshUnderway)' <= sshOpens /\ Len(sessions) + Cardinality(SshWaiting)' <= sshOpens
    BY <1>2, <1>3 DEF SshTally
  <1> QED BY <1>4, <1>5, Zenon DEF SshTally

\* A tunnel that ends, with or without a fault, is one tunnel less.
LEMMA SshTallyReleases ==
  ASSUME SshPart, SshTally, NEW c \in SshClients, sshClient[c].pc \in SshHolding,
         NEW STATE s, s \in AnySession, s.failures \in Nat, s.errors \in Nat, s.recent => s.failures >= 1,
         s.failures + s.errors <= sessions[sshClient[c].session].failures + sessions[sshClient[c].session].errors + 1,
         Release(c, s), UNCHANGED <<lock, sshOpens>>
  PROVE  SshTally'
  <1> DEFINE i == sshClient[c].session
             e == [s EXCEPT !.active = @ - 1]
  <1>1. e \in AnySession /\ e.failures = s.failures /\ e.errors = s.errors /\ (e.recent <=> s.recent)
    BY DEF AnySession
  <1>2. i \in 1..Len(sessions) /\ sessions \in Seq(AnySession) /\ Len(sessions) \in Nat /\ sshOpens \in Nat
    <2>1. i \in 1..Len(sessions) /\ sessions \in Seq(AnySession) /\ Len(sessions) \in Nat
      BY LenProperties DEF SshPart, SshOwned, SshShape
    <2>2. sshOpens \in Nat
      BY SshAssumption DEF SshTally
    <2> QED BY <2>1, <2>2, Zenon
  <1>3. /\ Len(sessions') = Len(sessions)
        /\ \A k \in 1..Len(sessions) : sessions'[k] = IF k = i THEN e ELSE sessions[k]
    <2>1. sessions' = [sessions EXCEPT ![i] = e]
      BY Zenon DEF Release
    <2> HIDE DEF e, i
    <2> QED BY <1>1, <1>2, <2>1, ExceptSeq
  <1>4. sshClient'[c].pc = "idle" /\ \A d \in SshClients : d # c => sshClient'[d] = sshClient[d]
    BY Zenon DEF Release, Out, SshPart, SshShape
  <1> HIDE DEF e
  <1>5. SshCounted(sshClient[c].pc, "idle")
    BY <1>4, SshCountOne, Zenon
  <1>6. /\ Cardinality(SshUnderway) \in Nat /\ Cardinality(SshWaiting) \in Nat
        /\ Cardinality(SshUnderway)' = Cardinality(SshUnderway) - 1 /\ Cardinality(SshWaiting)' = Cardinality(SshWaiting)
    BY <1>4, <1>5 DEF SshCounted, SshHolding
  <1>7. ASSUME NEW k \in 1..Len(sessions)
        PROVE  /\ sessions'[k].failures \in Nat /\ sessions'[k].errors \in Nat
               /\ sessions'[k].recent => sessions'[k].failures >= 1
               /\ sessions'[k].failures + sessions'[k].errors + Cardinality(SshUnderway)' <= sshOpens
    <2>1. /\ sessions[k].failures \in Nat /\ sessions[k].errors \in Nat
          /\ sessions[k].recent => sessions[k].failures >= 1
          /\ sessions[k].failures + sessions[k].errors + Cardinality(SshUnderway) <= sshOpens
      BY Zenon DEF SshTally
    <2>2. CASE k = i
      <3>1. sessions'[k] = e
        BY <1>3, <2>2, Zenon
      <3>2. /\ s.failures + s.errors <= sessions[k].failures + sessions[k].errors + 1
            /\ s.failures \in Nat /\ s.errors \in Nat /\ (s.recent => s.failures >= 1)
        BY <2>2, Zenon
      <3>3. /\ sessions'[k].failures = s.failures /\ sessions'[k].errors = s.errors
            /\ sessions'[k].recent => s.recent
        BY <1>1, <3>1, Zenon
      <3>4. s.failures + s.errors + Cardinality(SshUnderway)' <= sshOpens
        <4> DEFINE n == Cardinality(SshUnderway)
                   m == Cardinality(SshUnderway)'
                   a == s.failures
                   b == s.errors
                   x == sessions[k].failures
                   y == sessions[k].errors
        <4>1. /\ n \in Nat /\ m = n - 1 /\ a \in Nat /\ b \in Nat /\ x \in Nat /\ y \in Nat
              /\ sshOpens \in Nat /\ x + y + n <= sshOpens /\ a + b <= x + y + 1
          BY <1>2, <1>6, <2>1, <3>2, Zenon
        <4> HIDE DEF n, m, a, b, x, y
        <4>2. a + b + m <= sshOpens
          BY <4>1
        <4> QED BY <4>2, Zenon DEF m, a, b
      <3> QED BY <3>2, <3>3, <3>4, Zenon
    <2>3. CASE k # i
      <3>1. sessions'[k] = sessions[k]
        BY <1>3, <2>3, Zenon
      <3> QED BY <1>2, <1>6, <2>1, <3>1
    <2> QED BY <2>2, <2>3, Zenon
  <1>8. Cardinality(SshUnderway)' <= sshOpens /\ Len(sessions) + Cardinality(SshWaiting)' <= sshOpens
    BY <1>2, <1>6 DEF SshTally
  <1> QED BY <1>3, <1>7, <1>8, Zenon DEF SshTally

LEMMA SshTallyInit == SshInit => SshTally
  <1> SUFFICES ASSUME SshInit PROVE SshTally
    BY Zenon
  <1>1. SshUnderway = {} /\ SshWaiting = {}
    BY Zenon DEF SshInit, Out, SshUnderway, SshWaiting
  <1>2. Cardinality({}) = 0 /\ Len(<<>>) = 0
    BY FS_EmptySet, Zenon
  <1> QED BY <1>1, <1>2, SshAssumption DEF SshInit, SshTally

LEMMA SshTallyNext == SshPart /\ SshTally /\ [SshNext]_sshVars => SshTally'
  <1> SUFFICES ASSUME SshPart, SshTally, [SshNext]_sshVars PROVE SshTally'
    BY Zenon
  <1>0. /\ sessions \in Seq(AnySession) /\ Len(sessions) \in Nat /\ sshOpens \in Nat /\ MaxOpens \in Nat
        /\ DOMAIN sessions = 1..Len(sessions) /\ \A k \in 1..Len(sessions) : sessions[k] \in AnySession
        /\ lock \in SshClients \cup {Nobody}
    BY LenProperties, SshAssumption DEF SshPart, SshShape, SshTally
  <1>1. ASSUME NEW c \in SshClients, NEW q \in {"lock", "held", "connect"} \cup SshHolding, sshClient' = [sshClient EXCEPT ![c].pc = q]
        PROVE  sshClient'[c].pc = q /\ \A d \in SshClients : d # c => sshClient'[d] = sshClient[d]
    BY <1>1, Zenon DEF SshPart, SshShape
  <1>2. \A k \in 1..Len(sessions) : SameFaults(sessions[k], sessions[k])
    BY Zenon DEF SameFaults
  <1>3. ASSUME NEW c \in SshClients, SshAccept(c) PROVE SshTally'
    <2>1. /\ sshClient[c].pc = "idle" /\ sshOpens < MaxOpens /\ sshOpens' = sshOpens + 1
          /\ sshClient' = [sshClient EXCEPT ![c].pc = "lock"] /\ UNCHANGED <<sessions, lock>>
      BY <1>3, Zenon DEF SshAccept
    <2>2. sshClient'[c].pc = "lock" /\ \A d \in SshClients : d # c => sshClient'[d] = sshClient[d]
      BY <1>1, <2>1, Zenon
    <2>3. SshCounted(sshClient[c].pc, sshClient'[c].pc)
      BY <2>2, SshCountOne, Zenon
    <2>4. /\ Cardinality(SshUnderway) \in Nat /\ Cardinality(SshWaiting) \in Nat
          /\ Cardinality(SshUnderway)' = Cardinality(SshUnderway) + 1 /\ Cardinality(SshWaiting)' = Cardinality(SshWaiting) + 1
      BY <2>1, <2>2, <2>3 DEF SshCounted
    <2>5. ASSUME NEW k \in 1..Len(sessions)
          PROVE  /\ sessions[k].failures \in Nat /\ sessions[k].errors \in Nat
                 /\ sessions[k].recent => sessions[k].failures >= 1
                 /\ sessions[k].failures + sessions[k].errors + Cardinality(SshUnderway)' <= sshOpens + 1
      BY <1>0, <2>4 DEF SshTally
    <2>6. Cardinality(SshUnderway)' <= sshOpens + 1 /\ Len(sessions) + Cardinality(SshWaiting)' <= sshOpens + 1
      BY <1>0, <2>4 DEF SshTally
    <2> QED BY <1>0, <2>1, <2>5, <2>6 DEF SshTally
  <1>4. ASSUME NEW c \in SshClients, Lock(c) PROVE SshTally'
    <2> DEFINE q == IF should_open_new_session(Len(sessions), min_active) THEN "connect" ELSE "held"
    <2>1. sshClient[c].pc = "lock" /\ lock' = c /\ sshClient' = [sshClient EXCEPT ![c].pc = q] /\ UNCHANGED <<sessions, sshOpens>>
      BY <1>4, Zenon DEF Lock
    <2>2. q \in {"connect", "held"}
      BY Zenon
    <2> HIDE DEF q
    <2>3. sshClient'[c].pc = q /\ \A d \in SshClients : d # c => sshClient'[d] = sshClient[d]
      BY <1>1, <2>1, <2>2, Zenon
    <2> QED BY <1>2, <2>1, <2>2, <2>3, SshTallyStays, Zenon
  <1>5. ASSUME NEW c \in SshClients, NEW STATE ss, ss \in Seq(AnySession), NEW STATE i, i \in 1..Len(ss), Acquire(c, i, ss)
        PROVE  /\ Len(sessions') = Len(ss) /\ \A k \in 1..Len(ss) : SameFaults(ss[k], sessions'[k])
               /\ sshClient'[c].pc = "open" /\ \A d \in SshClients : d # c => sshClient'[d] = sshClient[d]
    <2> DEFINE e == [ss[i] EXCEPT !.active = @ + 1]
    <2>1. e \in AnySession /\ SameFaults(ss[i], e)
      <3>1. ss[i] \in AnySession
        BY <1>5, LenProperties, Zenon
      <3> QED BY <3>1, SshCountedUp, Zenon
    <2>2. sessions' = [ss EXCEPT ![i] = e]
      BY <1>5, Zenon DEF Acquire
    <2> HIDE DEF e
    <2>3. Len(sessions') = Len(ss) /\ \A k \in 1..Len(ss) : sessions'[k] = IF k = i THEN e ELSE ss[k]
      BY <1>5, <2>1, <2>2, ExceptSeq
    <2>4. \A k \in 1..Len(ss) : SameFaults(ss[k], sessions'[k])
      BY <2>1, <2>3, Zenon DEF SameFaults
    <2>5. sshClient'[c].pc = "open" /\ \A d \in SshClients : d # c => sshClient'[d] = sshClient[d]
      BY <1>5, Zenon DEF Acquire, SshPart, SshShape
    <2> QED BY <2>3, <2>4, <2>5, Zenon
  <1>6. ASSUME NEW c \in SshClients, SshConnect(c) PROVE SshTally'
    <2>1. sshClient[c].pc = "connect" /\ sshOpens' = sshOpens /\ lock' = Nobody
      BY <1>6, Zenon DEF SshConnect, Acquire
    <2>2. CASE Acquire(c, Len(sessions) + 1, Append(sessions, Fresh))
      <3> DEFINE ss == Append(sessions, Fresh)
      <3>1. /\ ss \in Seq(AnySession) /\ Len(ss) = Len(sessions) + 1
            /\ \A k \in 1..Len(sessions) : ss[k] = sessions[k]
            /\ ss[Len(sessions) + 1] = Fresh
        BY <1>0, SshGrown, Zenon
      <3>2. Acquire(c, Len(sessions) + 1, ss) /\ Len(sessions) + 1 \in 1..Len(ss)
        BY <1>0, <2>2, <3>1
      <3> HIDE DEF ss
      <3>3. /\ Len(sessions') = Len(ss) /\ \A k \in 1..Len(ss) : SameFaults(ss[k], sessions'[k])
            /\ sshClient'[c].pc = "open" /\ \A d \in SshClients : d # c => sshClient'[d] = sshClient[d]
        BY <1>5, <3>1, <3>2, Zenon
      <3>4. SshCounted(sshClient[c].pc, sshClient'[c].pc)
        BY <3>3, SshCountOne, Zenon
      <3>5. /\ Cardinality(SshUnderway) \in Nat /\ Cardinality(SshWaiting) \in Nat
            /\ Cardinality(SshUnderway)' = Cardinality(SshUnderway) /\ Cardinality(SshWaiting)' = Cardinality(SshWaiting) - 1
        BY <2>1, <3>3, <3>4 DEF SshCounted
      <3>6. ASSUME NEW k \in 1..Len(ss)
            PROVE  /\ sessions'[k].failures \in Nat /\ sessions'[k].errors \in Nat
                   /\ sessions'[k].recent => sessions'[k].failures >= 1
                   /\ sessions'[k].failures + sessions'[k].errors + Cardinality(SshUnderway)' <= sshOpens
        <4>1. /\ ss[k].failures \in Nat /\ ss[k].errors \in Nat
              /\ ss[k].recent => ss[k].failures >= 1
              /\ ss[k].failures + ss[k].errors + Cardinality(SshUnderway) <= sshOpens
          <5>1. CASE k \in 1..Len(sessions)
            BY <3>1, <5>1, Zenon DEF SshTally
          <5>2. CASE k = Len(sessions) + 1
            <6>1. ss[k].failures = 0 /\ ss[k].errors = 0 /\ ~ss[k].recent
              BY <3>1, <5>2 DEF Fresh
            <6> QED BY <1>0, <3>5, <6>1 DEF SshTally
          <5> QED BY <1>0, <3>1, <5>1, <5>2
        <4> QED BY <3>3, <3>5, <4>1, Zenon DEF SameFaults
      <3>7. Cardinality(SshUnderway)' <= sshOpens /\ Len(sessions') + Cardinality(SshWaiting)' <= sshOpens
        BY <1>0, <3>1, <3>3, <3>5 DEF SshTally
      <3> QED BY <2>1, <3>3, <3>6, <3>7, Zenon DEF SshTally
    <2>3. CASE sshClient' = [sshClient EXCEPT ![c] = Out] /\ UNCHANGED sessions
      <3>1. sshClient'[c].pc = "idle" /\ \A d \in SshClients : d # c => sshClient'[d] = sshClient[d]
        BY <2>3, Zenon DEF Out, SshPart, SshShape
      <3> QED BY <1>2, <2>1, <2>3, <3>1, SshTallyStays, Zenon
    <2> QED BY <1>6, <2>2, <2>3, Zenon DEF SshConnect
  <1>7. ASSUME NEW c \in SshClients, Choose(c) PROVE SshTally'
    <2>1. PICK i \in SshPreferred : Acquire(c, i, sessions)
      BY <1>7, Zenon DEF Choose
    <2>2. sshClient[c].pc = "held" /\ sshOpens' = sshOpens /\ lock' = Nobody /\ i \in 1..Len(sessions)
      BY <1>0, <1>7, <2>1, Zenon DEF Choose, SshPreferred, Acquire
    <2>3. /\ Len(sessions') = Len(sessions) /\ \A k \in 1..Len(sessions) : SameFaults(sessions[k], sessions'[k])
          /\ sshClient'[c].pc = "open" /\ \A d \in SshClients : d # c => sshClient'[d] = sshClient[d]
      BY <1>0, <1>5, <2>1, <2>2, Zenon
    <2> QED BY <2>2, <2>3, SshTallyStays, Zenon
  <1>8. ASSUME NEW c \in SshClients, sshClient[c].pc \in SshHolding
        PROVE  /\ sshClient[c].session \in 1..Len(sessions) /\ sessions[sshClient[c].session] \in AnySession
               /\ sessions[sshClient[c].session].failures \in Nat /\ sessions[sshClient[c].session].errors \in Nat
               /\ sessions[sshClient[c].session].recent => sessions[sshClient[c].session].failures >= 1
    <2>1. sshClient[c].session \in 1..Len(sessions)
      BY <1>0, <1>8 DEF SshPart, SshOwned, SshShape
    <2> QED BY <1>0, <2>1, Zenon DEF SshTally
  <1>9. ASSUME NEW c \in SshClients, OpenFails(c) PROVE SshTally'
    <2> DEFINE r == sessions[sshClient[c].session]
               s == [r EXCEPT !.failures = @ + 1, !.recent = TRUE]
    <2>1. sshClient[c].pc \in SshHolding /\ Release(c, s) /\ UNCHANGED <<lock, sshOpens>>
      BY <1>9, Zenon DEF OpenFails, SshHolding
    <2>2. r \in AnySession /\ r.failures \in Nat /\ r.errors \in Nat
      BY <1>8, <2>1, Zenon
    <2>3. s \in AnySession /\ s.failures = r.failures + 1 /\ s.errors = r.errors
      BY <2>2, SshFailed, Zenon
    <2> HIDE DEF s
    <2>4. s.failures \in Nat /\ s.errors \in Nat /\ s.failures >= 1 /\ s.failures + s.errors <= r.failures + r.errors + 1
      BY <2>2, <2>3
    <2> QED BY <2>1, <2>3, <2>4, SshTallyReleases, Zenon
  <1>10. ASSUME NEW c \in SshClients, OpenOk(c) PROVE SshTally'
    <2>1. sshClient[c].pc = "open" /\ sshClient' = [sshClient EXCEPT ![c].pc = "reply"] /\ UNCHANGED <<sessions, lock, sshOpens>>
      BY <1>10, Zenon DEF OpenOk
    <2>2. sshClient'[c].pc = "reply" /\ \A d \in SshClients : d # c => sshClient'[d] = sshClient[d]
      BY <1>1, <2>1, Zenon DEF SshHolding
    <2> QED BY <1>0, <1>2, <2>1, <2>2, SshTallyStays, Zenon
  <1>11. ASSUME NEW c \in SshClients, NEW n \in {0, 1}, sshClient[c].pc \in SshHolding, UNCHANGED <<lock, sshOpens>>,
                Release(c, [sessions[sshClient[c].session] EXCEPT !.errors = @ + n])
         PROVE  SshTally'
    <2> DEFINE r == sessions[sshClient[c].session]
               s == [r EXCEPT !.errors = @ + n]
    <2>1. r \in AnySession /\ r.failures \in Nat /\ r.errors \in Nat /\ (r.recent => r.failures >= 1)
      BY <1>8, <1>11, Zenon
    <2>2. s \in AnySession /\ s.failures = r.failures /\ s.errors = r.errors + n /\ (s.recent <=> r.recent)
      BY <2>1, SshErred, Zenon
    <2>3. Release(c, s)
      BY <1>11, Zenon
    <2> HIDE DEF s
    <2>4. /\ s.failures \in Nat /\ s.errors \in Nat /\ (s.recent => s.failures >= 1)
          /\ s.failures + s.errors <= r.failures + r.errors + 1
      BY <2>1, <2>2
    <2> QED BY <1>11, <2>2, <2>3, <2>4, SshTallyReleases, Zenon
  <1>12. ASSUME NEW c \in SshClients, SshReply(c) PROVE SshTally'
    <2>1. sshClient[c].pc = "reply" /\ UNCHANGED <<lock, sshOpens>>
      BY <1>12, Zenon DEF SshReply
    <2>2. CASE sshClient' = [sshClient EXCEPT ![c].pc = "relay"] /\ UNCHANGED <<sessions, channels>>
      <3>1. sshClient'[c].pc = "relay" /\ \A d \in SshClients : d # c => sshClient'[d] = sshClient[d]
        BY <1>1, <2>2, Zenon DEF SshHolding
      <3> QED BY <1>0, <1>2, <2>1, <2>2, <3>1, SshTallyStays, Zenon
    <2>3. CASE Release(c, [sessions[sshClient[c].session] EXCEPT !.errors = @ + 1])
      BY <1>11, <2>1, <2>3, Zenon DEF SshHolding
    <2> QED BY <1>12, <2>2, <2>3, Zenon DEF SshReply
  <1>13. ASSUME NEW c \in SshClients, SshRelayEnds(c) PROVE SshTally'
    BY <1>11, <1>13, Zenon DEF SshRelayEnds, SshHolding
  <1>14. ASSUME NEW STATE i, i \in 1..Len(sessions), NEW STATE e, e \in AnySession, SameFaults(sessions[i], e),
                sessions' = [sessions EXCEPT ![i] = e], UNCHANGED <<lock, sshClient, sshOpens>>
         PROVE  SshTally'
    <2>1. Len(sessions') = Len(sessions) /\ \A k \in 1..Len(sessions) : sessions'[k] = IF k = i THEN e ELSE sessions[k]
      BY <1>0, <1>14, ExceptSeq, Zenon
    <2>2. SshUnderway' = SshUnderway /\ SshWaiting' = SshWaiting
      BY <1>14, Zenon DEF SshUnderway, SshWaiting
    <2>3. \A k \in 1..Len(sessions) : SameFaults(sessions[k], sessions'[k])
      BY <1>2, <1>14, <2>1, Zenon
    <2> QED BY <1>14, <2>1, <2>2, <2>3, Zenon DEF SshTally, SameFaults
  <1>15. ASSUME NEW i \in DOMAIN sessions, SessionDies(i) PROVE SshTally'
    <2> DEFINE e == [sessions[i] EXCEPT !.alive = FALSE]
    <2>1. i \in 1..Len(sessions) /\ sessions' = [sessions EXCEPT ![i] = e] /\ UNCHANGED <<lock, sshClient, sshOpens>>
      BY <1>0, <1>15, Zenon DEF SessionDies
    <2>2. e \in AnySession /\ SameFaults(sessions[i], e)
      BY <1>0, <2>1, SshFlagged, Zenon
    <2> HIDE DEF e
    <2> QED BY <1>14, <2>1, <2>2, Zenon
  <1>16. ASSUME NEW i \in DOMAIN sessions, FailureAges(i) PROVE SshTally'
    <2> DEFINE e == [sessions[i] EXCEPT !.recent = FALSE]
    <2>1. i \in 1..Len(sessions) /\ sessions' = [sessions EXCEPT ![i] = e] /\ UNCHANGED <<lock, sshClient, sshOpens>>
      BY <1>0, <1>16, Zenon DEF FailureAges
    <2>2. e \in AnySession /\ SameFaults(sessions[i], e)
      BY <1>0, <2>1, SshFlagged, Zenon
    <2> HIDE DEF e
    <2> QED BY <1>14, <2>1, <2>2, Zenon
  <1>17. CASE UNCHANGED sshVars
    BY <1>17, Zenon DEF sshVars, SshTally, SshUnderway, SshWaiting
  <1> QED BY <1>3, <1>4, <1>6, <1>7, <1>9, <1>10, <1>12, <1>13, <1>15, <1>16, <1>17, Zenon DEF SshNext, SshTunnel

\* What holds of the pool in every state: the counts, the mutex and the tally.
SshInv == SshPart /\ SshTally

\* It holds of an empty pool,
LEMMA SshInitially == SshInit => SshInv
  BY SshPartInit, SshTallyInit, Zenon DEF SshInv

\* every step of a tunnel or a session keeps it,
LEMMA SshSteps == SshInv /\ [SshNext]_sshVars => SshInv'
  BY SshPartNext, SshTallyNext, Zenon DEF SshInv

\* and it says what SshPool promises.
LEMMA SshEnough ==
  ASSUME SshInv
  PROVE  SshTypeOK /\ ChannelsExact /\ PoolCapped
  <1>1. /\ sessions \in Seq(AnySession) /\ Len(sessions) \in Nat /\ DOMAIN sessions = 1..Len(sessions)
        /\ \A k \in 1..Len(sessions) : sessions[k] \in AnySession
    BY LenProperties DEF SshInv, SshPart, SshShape
  <1>2. sshOpens \in Nat /\ sshOpens <= MaxOpens /\ MaxOpens \in Nat
    BY SshAssumption DEF SshInv, SshTally
  <1>3. ASSUME NEW S \in SUBSET SshUnderway PROVE Cardinality(S) \in 0..MaxOpens
    <2>1. IsFiniteSet(SshUnderway)
      BY FS_Subset, SshAssumption DEF SshUnderway
    <2>2. Cardinality(S) \in Nat /\ Cardinality(S) <= Cardinality(SshUnderway) /\ Cardinality(SshUnderway) \in Nat
      BY <2>1, FS_Subset, FS_CardinalityType, Zenon
    <2>3. Cardinality(SshUnderway) <= sshOpens
      BY Zenon DEF SshInv, SshTally
    <2> QED BY <1>2, <2>2, <2>3
  <1>4. \A c \in SshClients : sshClient[c].session # 0 => sshClient[c].pc # "idle"
    BY Zenon DEF SshInv, SshPart, SshOwned, SshHolding
  <1>5. ASSUME NEW k \in 1..Len(sessions) PROVE sessions[k] \in Session
    <2>1. Holders(k) \in SUBSET SshUnderway
      BY <1>1, <1>4 DEF Holders, SshUnderway
    <2>2. sessions[k].active \in 0..MaxOpens
      BY <1>1, <1>3, <2>1, Zenon DEF SshInv, SshPart, ChannelsExact
    <2>3. sessions[k].failures \in 0..MaxOpens /\ sessions[k].errors \in 0..MaxOpens
      <3>1. /\ sessions[k].failures \in Nat /\ sessions[k].errors \in Nat
            /\ sessions[k].failures + sessions[k].errors + Cardinality(SshUnderway) <= sshOpens
        BY Zenon DEF SshInv, SshTally
      <3>2. Cardinality(SshUnderway) \in Nat
        BY <1>2, <1>3
      <3> QED BY <1>2, <3>1, <3>2
    <2> QED BY <1>1, <2>2, <2>3, Zenon DEF AnySession, Session
  <1>6. sessions \in Seq(Session)
    <2>1. sessions \in [1..Len(sessions) -> Session]
      BY <1>1, <1>5, LenProperties, Zenon
    <2> QED BY <1>1, <2>1, SeqDef
  <1>7. channels \in 0..MaxOpens
    <2>1. SshHolder \in SUBSET SshUnderway
      BY <1>4, Zenon DEF SshHolder, SshUnderway
    <2>2. channels = Cardinality(SshHolder)
      BY Zenon DEF SshInv, SshPart, ChannelsExact, SshHolder
    <2> QED BY <1>3, <2>1, <2>2, Zenon
  <1>8. sshClient \in [SshClients -> [pc : {"idle", "lock", "held", "connect", "open", "reply", "relay"}, session : 0..MaxOpens]]
    <2>1. Len(sessions) <= MaxOpens
      <3>1. SshWaiting \in SUBSET SshUnderway
        BY Zenon DEF SshWaiting, SshUnderway
      <3>2. Cardinality(SshWaiting) \in Nat
        BY <1>2, <1>3, <3>1
      <3>3. Len(sessions) + Cardinality(SshWaiting) <= sshOpens
        BY Zenon DEF SshInv, SshTally
      <3> QED BY <1>1, <1>2, <3>2, <3>3
    <2>2. ASSUME NEW c \in SshClients
          PROVE  sshClient[c] \in [pc : {"idle", "lock", "held", "connect", "open", "reply", "relay"}, session : 0..MaxOpens]
      <3>1. /\ sshClient[c] \in [pc : {"idle", "lock", "held", "connect"} \cup SshHolding, session : Nat]
            /\ sshClient[c].session <= Len(sessions)
        BY DEF SshInv, SshPart, SshShape, SshOwned
      <3>2. sshClient[c].session \in 0..MaxOpens
        BY <1>1, <1>2, <2>1, <3>1
      <3> QED BY <3>1, <3>2, Zenon DEF SshHolding
    <2> QED BY <2>2, Zenon DEF SshInv, SshPart, SshShape
  <1> QED BY <1>6, <1>7, <1>8, Zenon DEF SshTypeOK, SshInv, SshPart, SshTally, SshShape

\* A recent failure costs more than latencies can make up for.
LEMMA SshAvoids ==
  ASSUME SshInv, [SshNext]_sshVars
  PROVE  AvoidsRecentFailure
  <1> SUFFICES ASSUME NEW c \in SshClients, NEW i \in DOMAIN sessions, sshClient[c].pc = "held",
                      sshClient'[c].session = i, sessions[i].recent,
                      NEW j \in DOMAIN sessions, sessions[j] = [Fresh EXCEPT !.alive = sessions[j].alive]
               PROVE  FALSE
    BY Zenon DEF AvoidsRecentFailure
  <1>1. DOMAIN sessions = 1..Len(sessions) /\ sshClient[c].session = 0 /\ sshClient \in [SshClients -> [pc : {"idle", "lock", "held", "connect"} \cup SshHolding, session : Nat]]
    BY LenProperties, Zenon DEF SshInv, SshPart, SshShape, SshOwned, SshHolding
  <1>2. sshClient'[c] # sshClient[c]
    BY <1>1
  <1>3. \A d \in SshClients : SshAccept(d) \/ SshTunnel(d) \/ SshRelayEnds(d) => d = c
    BY <1>1, <1>2 DEF SshAccept, SshTunnel, Lock, SshConnect, Choose, OpenFails, OpenOk, SshReply, SshRelayEnds, Acquire, Release
  <1>4. Choose(c)
    <2>1. sshClient' # sshClient
      BY <1>2, Zenon
    <2>2. SshAccept(c) \/ SshTunnel(c) \/ SshRelayEnds(c)
      BY <1>3, <2>1, Zenon DEF SshNext, sshVars, SessionDies, FailureAges
    <2> QED BY <2>2, Zenon DEF SshAccept, SshTunnel, Lock, SshConnect, OpenFails, OpenOk, SshReply, SshRelayEnds
  <1>5. i \in SshPreferred
    <2>1. PICK k \in SshPreferred : Acquire(c, k, sessions)
      BY <1>4, Zenon DEF Choose
    <2>2. sshClient'[c].session = k
      BY <1>1, <2>1, Zenon DEF Acquire
    <2> QED BY <2>1, <2>2, Zenon
  <1>6. calculate_session_score(sessions[i]) <= calculate_session_score(sessions[j]) + SshNoise
    BY <1>5, Zenon DEF SshPreferred
  <1>7. sessions[j].active = 0 /\ sessions[j].failures = 0 /\ sessions[j].errors = 0 /\ ~sessions[j].recent
    BY DEF Fresh
  <1>8. sessions[i].failures \in Nat /\ sessions[i].errors \in Nat /\ sessions[i].failures >= 1
    BY <1>1, Zenon DEF SshInv, SshTally
  <1>9. sessions[i].active \in Nat
    <2>1. sessions \in Seq(Session)
      BY SshEnough, Zenon DEF SshTypeOK
    <2>2. sessions[i] \in Session
      BY <1>1, <2>1, LenProperties
    <2> QED BY <2>2, SshAssumption DEF Session
  <1>10. calculate_session_score(sessions[j]) = 0
    BY <1>7, SMT DEF calculate_session_score
  <1>11. calculate_session_score(sessions[i]) >= 11000 /\ calculate_session_score(sessions[i]) \in Nat
    BY <1>8, <1>9, SMT DEF calculate_session_score
  <1>12. SshNoise \in Nat /\ SshNoise <= 10000
    BY SshAssumption, SMT
  <1>13. calculate_session_score(sessions[i]) <= SshNoise
    BY <1>6, <1>10, <1>12, SMT
  <1> HIDE DEF calculate_session_score
  <1> QED BY <1>11, <1>12, <1>13, SMT

\* For every finite set of clients and all pool sizes above zero: every session counts exactly
\* the tunnels that hold a channel of it, and the pool their sum (acquire_session_channel, the
\* guard of an open and the drop of a stream).
THEOREM CountsAreExact == SshSpec => []ChannelsExact
  <1>1. SshInv => ChannelsExact
    BY SshEnough, Zenon
  <1> QED BY SshInitially, SshSteps, <1>1, PTL DEF SshSpec

\* Under the same assumptions the pool never has more sessions than its size: the mutex is held
\* while a session connects (State::session).
THEOREM PoolKeepsToItsSize == SshSpec => []PoolCapped
  <1>1. SshInv => PoolCapped
    BY SshEnough, Zenon
  <1> QED BY SshInitially, SshSteps, <1>1, PTL DEF SshSpec
=============================================================================
