----------------------------- MODULE SpxBridge -----------------------------
(***************************************************************************)
(* TCP streams over one SPX bridge.  The controller (bridge.rs with the    *)
(* relay of socks/relay.rs) and the remote helper (remote.rs) exchange     *)
(* frames over one connection; each side keeps a table of streams, a       *)
(* reader that serves all streams in turn, and two tasks per stream that   *)
(* end together.  A chunk of data is its number in its stream.             *)
(***************************************************************************)
EXTENDS Naturals, Sequences

CONSTANTS StreamIds,    \* streams; next_id never repeats one of them
          Setups        \* what a bridge is made for

(* The streams that are opened; how many frames a frame channel and the    *)
(* connection hold; TCP_STREAM_CHANNEL_CAPACITY; how many chunks a client  *)
(* and a target send; whether the connection may break; who may stop       *)
(* reading; whether an open may take longer than its timeout; whether a    *)
(* client may leave before it is answered.                                 *)
ASSUME SetupsAssumption ==
  Setups \subseteq [opened : SUBSET StreamIds, wire : Nat \ {0}, chan : Nat \ {0},
                    clientChunks : Nat, targetChunks : Nat, breaks : BOOLEAN,
                    stalls : SUBSET {"client", "target"}, expires : BOOLEAN, leaves : BOOLEAN]

LocalPCs  == {"idle", "register", "send", "wait", "undo", "failed", "relay", "closing", "done", "left"}
RemotePCs == {"none", "connect", "refused", "result", "open", "closing", "ended"}
Frames    == [kind : {"open", "ok", "refuse", "close"}, id : StreamIds]
               \cup [kind : {"data"}, id : StreamIds, n : Nat]

VARIABLES
  setup,                  \* one of Setups
  conn,                   \* of the controller: "up", then "drain", "clear", "abort", "down"
  up, down,               \* frames to the remote, and to the controller
  stuck, rstuck,          \* streams that the readers have given up and not yet closed
  cut,                    \* streams that were given up: history, read by no action
  pc, pending, result, lstreams, lchan,   \* the controller's streams
  rpc, rstreams, rchan,                   \* the remote's streams
  sent, got, eof,         \* of the client: chunks sent, received, and the end of stream
  tsent, tgot, teof       \* of the target

WireSize     == setup.wire
ChanSize     == setup.chan
ClientChunks == setup.clientChunks
TargetChunks == setup.targetChunks
MayBreak     == setup.breaks
Stalls       == setup.stalls
MayExpire    == setup.expires
MayLeave     == setup.leaves

wires   == <<up, down>>
readers == <<stuck, rstuck, cut>>
locals  == <<pc, pending, result, lstreams, lchan>>
remotes == <<rpc, rstreams, rchan>>
clients == <<sent, got, eof>>
targets == <<tsent, tgot, teof>>
bridgeVars == <<setup, conn, wires, readers, locals, remotes, clients, targets>>

BridgeTypeOK ==
  /\ setup \in Setups
  /\ conn \in {"up", "drain", "clear", "abort", "down"}
  /\ up \in Seq(Frames) /\ Len(up) <= WireSize /\ down \in Seq(Frames) /\ Len(down) <= WireSize
  /\ stuck \subseteq StreamIds /\ rstuck \subseteq StreamIds /\ cut \subseteq StreamIds
  /\ pc \in [StreamIds -> LocalPCs] /\ pending \subseteq StreamIds /\ lstreams \subseteq StreamIds
  /\ result \in [StreamIds -> {"none", "ok", "err"}]
  /\ rpc \in [StreamIds -> RemotePCs] /\ rstreams \subseteq StreamIds
  /\ \A c \in {lchan, rchan} : c \in [StreamIds -> Seq(Nat)] /\ \A i \in StreamIds : Len(c[i]) <= ChanSize
  /\ sent \in [StreamIds -> Nat] /\ tsent \in [StreamIds -> Nat]
  /\ \A i \in StreamIds : sent[i] <= ClientChunks /\ tsent[i] <= TargetChunks
  /\ got \in [StreamIds -> Seq(Nat)] /\ tgot \in [StreamIds -> Seq(Nat)]
  /\ eof \in [StreamIds -> BOOLEAN] /\ teof \in [StreamIds -> BOOLEAN]

All(v) == [i \in StreamIds |-> v]

BridgeInit ==
  /\ setup \in Setups
  /\ conn = "up" /\ up = <<>> /\ down = <<>> /\ stuck = {} /\ rstuck = {} /\ cut = {}
  /\ pc = All("idle") /\ pending = {} /\ result = All("none") /\ lstreams = {} /\ lchan = All(<<>>)
  /\ rpc = All("none") /\ rstreams = {} /\ rchan = All(<<>>)
  /\ sent = All(0) /\ got = All(<<>>) /\ eof = All(FALSE)
  /\ tsent = All(0) /\ tgot = All(<<>>) /\ teof = All(FALSE)

-----------------------------------------------------------------------------
(* Channels of frames.  A send waits for room; it fails once the writer    *)
(* task is gone.                                                           *)
Frame(k, i)   == [kind |-> k, id |-> i]
Data(i, n)    == [kind |-> "data", id |-> i, n |-> n]
WriterUp      == conn \in {"up", "drain", "clear", "abort"}
SendUp(f)     == /\ WriterUp /\ (conn = "up" => Len(up) < WireSize)
                 /\ up' = IF conn = "up" THEN Append(up, f) ELSE up
SendUpFails   == conn # "up" /\ UNCHANGED up
SendDown(f)   == \/ conn = "up" /\ Len(down) < WireSize /\ down' = Append(down, f)
                 \/ conn # "up" /\ UNCHANGED down     \* the error is ignored

Goes(i, l)  == pc' = [pc EXCEPT ![i] = l]
RGoes(i, l) == rpc' = [rpc EXCEPT ![i] = l]

-----------------------------------------------------------------------------
(* open_tcp.                                                               *)
OpenPending(i) ==
  /\ pc[i] = "idle" /\ i \in setup.opened
  /\ Goes(i, "register") /\ pending' = pending \cup {i}
  /\ UNCHANGED <<setup, conn, wires, readers, result, lstreams, lchan, remotes, clients, targets>>

OpenRegister(i) ==
  /\ pc[i] = "register"
  /\ Goes(i, "send") /\ lstreams' = lstreams \cup {i}
  /\ UNCHANGED <<setup, conn, wires, readers, pending, result, lchan, remotes, clients, targets>>

OpenSend(i) ==
  /\ pc[i] = "send"
  /\ \/ SendUp(Frame("open", i)) /\ Goes(i, "wait")
     \/ SendUpFails /\ Goes(i, "undo")
  /\ UNCHANGED <<setup, conn, down, readers, pending, result, lstreams, lchan, remotes, clients, targets>>

(* The result is there; a client that has left is not told, and the flow   *)
(* is dropped.                                                             *)
OpenResult(i) ==
  /\ pc[i] = "wait"
  /\ \/ result[i] = "ok" /\ Goes(i, "relay") /\ UNCHANGED cut
     \/ result[i] = "ok" /\ MayLeave /\ Goes(i, "left") /\ cut' = cut \cup {i}
     \/ result[i] = "err" /\ Goes(i, "undo") /\ UNCHANGED cut
  /\ UNCHANGED <<setup, conn, wires, stuck, rstuck, pending, result, lstreams, lchan, remotes, clients, targets>>

(* OPEN_TCP_TIMEOUT passes: the remote is slow, or the open came between   *)
(* the end of the reader and the end of the writer.                        *)
OpenTimeout(i) ==
  /\ pc[i] = "wait" /\ result[i] = "none"
  /\ MayExpire \/ conn # "up"
  /\ Goes(i, "undo") /\ cut' = cut \cup {i}
  /\ UNCHANGED <<setup, conn, wires, stuck, rstuck, pending, result, lstreams, lchan, remotes, clients, targets>>

(* A slip: the stream stays registered.                                    *)
OpenUndoPending(i) ==
  /\ pc[i] = "undo"
  /\ Goes(i, "failed") /\ pending' = pending \ {i}
  /\ UNCHANGED <<setup, conn, wires, readers, result, lstreams, lchan, remotes, clients, targets>>

OpenUndo(i) ==
  /\ pc[i] = "undo"
  /\ Goes(i, "failed") /\ pending' = pending \ {i} /\ lstreams' = lstreams \ {i}
  /\ UNCHANGED <<setup, conn, wires, readers, result, lchan, remotes, clients, targets>>

OpenStep(i) ==
  OpenPending(i) \/ OpenRegister(i) \/ OpenSend(i) \/ OpenResult(i) \/ OpenTimeout(i) \/ OpenUndo(i)

-----------------------------------------------------------------------------
(* relay_spx_tcp: client_to_remote and remote_to_client; the end of one    *)
(* aborts the other.                                                       *)
ClientSend(i) ==
  /\ pc[i] = "relay" /\ sent[i] < ClientChunks
  /\ \/ SendUp(Data(i, sent[i] + 1)) /\ sent' = [sent EXCEPT ![i] = @ + 1] /\ UNCHANGED pc
     \/ SendUpFails /\ Goes(i, "closing") /\ UNCHANGED sent
  /\ UNCHANGED <<setup, conn, down, readers, pending, result, lstreams, lchan, remotes, got, eof, targets>>

ClientEnds(i) ==
  /\ pc[i] = "relay"
  /\ Goes(i, "closing")
  /\ UNCHANGED <<setup, conn, wires, readers, pending, result, lstreams, lchan, remotes, clients, targets>>

ClientReceives(i) ==
  /\ pc[i] = "relay" /\ lchan[i] # <<>>
  /\ got' = [got EXCEPT ![i] = Append(@, Head(lchan[i]))]
  /\ lchan' = [lchan EXCEPT ![i] = Tail(@)]
  /\ UNCHANGED <<setup, conn, wires, readers, pc, pending, result, lstreams, remotes, sent, eof, targets>>

(* A slip: the end of the stream overtakes what is queued.                 *)
ClientShutdownEarly(i) ==
  /\ pc[i] = "relay" /\ i \notin lstreams
  /\ eof' = [eof EXCEPT ![i] = TRUE] /\ Goes(i, "closing")
  /\ UNCHANGED <<setup, conn, wires, readers, pending, result, lstreams, lchan, remotes, sent, got, targets>>

(* The sender is gone and the channel is empty: the client's stream is     *)
(* shut down.                                                              *)
ClientShutdown(i) ==
  /\ pc[i] = "relay" /\ lchan[i] = <<>> /\ i \notin lstreams
  /\ eof' = [eof EXCEPT ![i] = TRUE] /\ Goes(i, "closing")
  /\ UNCHANGED <<setup, conn, wires, readers, pending, result, lstreams, lchan, remotes, sent, got, targets>>

RelayClose(i) ==
  /\ pc[i] = "closing"
  /\ SendUp(Frame("close", i)) \/ SendUpFails
  /\ Goes(i, "done") /\ lstreams' = lstreams \ {i}
  /\ UNCHANGED <<setup, conn, down, readers, pending, result, lchan, remotes, clients, targets>>

-----------------------------------------------------------------------------
(* The reader of the controller.  It waits for room in a stream's channel  *)
(* with the frames of all other streams behind it.                         *)
Reads(k) == conn = "up" /\ stuck = {} /\ down # <<>> /\ Head(down).kind = k
LocalListens(i) == pc[i] \in {"send", "wait", "relay"}    \* the receiver exists

ReadResult ==
  \E k \in {"ok", "refuse"} :
    LET i == Head(down).id IN
    /\ Reads(k)
    /\ down' = Tail(down)
    /\ result' = IF i \in pending THEN [result EXCEPT ![i] = IF k = "ok" THEN "ok" ELSE "err"] ELSE result
    /\ pending' = pending \ {i}
    /\ UNCHANGED <<setup, conn, up, readers, pc, lstreams, lchan, remotes, clients, targets>>

ReadData ==
  LET i == Head(down).id IN
  /\ Reads("data")
  /\ i \in lstreams /\ LocalListens(i) => Len(lchan[i]) < ChanSize
  /\ down' = Tail(down)
  /\ lchan' = IF i \in lstreams /\ LocalListens(i)
              THEN [lchan EXCEPT ![i] = Append(@, Head(down).n)] ELSE lchan
  /\ lstreams' = IF LocalListens(i) THEN lstreams ELSE lstreams \ {i}
  /\ UNCHANGED <<setup, conn, up, readers, pc, pending, result, remotes, clients, targets>>

(* A slip: the timeout is counted and the reader waits on.                 *)
ReadDataWaitsOn ==
  LET i == Head(down).id IN
  /\ "client" \in Stalls /\ Reads("data")
  /\ i \in lstreams /\ LocalListens(i) /\ Len(lchan[i]) = ChanSize
  /\ UNCHANGED bridgeVars

(* TCP_STREAM_BACKPRESSURE_TIMEOUT: the stream is dropped, and the reader  *)
(* waits for room to tell the remote.                                      *)
ReadDataTimeout ==
  LET i == Head(down).id IN
  /\ "client" \in Stalls /\ Reads("data")
  /\ i \in lstreams /\ LocalListens(i) /\ Len(lchan[i]) = ChanSize
  /\ down' = Tail(down)
  /\ lstreams' = lstreams \ {i} /\ stuck' = {i} /\ cut' = cut \cup {i}
  /\ UNCHANGED <<setup, conn, up, rstuck, pc, pending, result, lchan, remotes, clients, targets>>

ReadDataGivesUp ==
  \E i \in stuck :
    /\ conn = "up" /\ SendUp(Frame("close", i))
    /\ stuck' = {}
    /\ UNCHANGED <<setup, conn, down, rstuck, cut, locals, remotes, clients, targets>>

ReadClose ==
  LET i == Head(down).id IN
  /\ Reads("close")
  /\ down' = Tail(down)
  /\ lstreams' = lstreams \ {i}
  /\ result' = IF i \in pending THEN [result EXCEPT ![i] = "err"] ELSE result
  /\ pending' = pending \ {i}
  /\ UNCHANGED <<setup, conn, up, readers, pc, lchan, remotes, clients, targets>>

Reader == ReadResult \/ ReadData \/ ReadDataTimeout \/ ReadDataGivesUp \/ ReadClose

-----------------------------------------------------------------------------
(* The connection breaks: the frames on it are lost.  The lifecycle task   *)
(* answers the pending opens, drops the streams, and ends the writer.      *)
Break ==
  /\ MayBreak /\ conn = "up"
  /\ conn' = "drain" /\ up' = <<>> /\ down' = <<>> /\ stuck' = {} /\ rstuck' = {}
  /\ UNCHANGED <<setup, cut, locals, remotes, clients, targets>>

Lifecycle ==
  /\ \/ conn = "drain" /\ conn' = "clear" /\ pending' = {} /\ UNCHANGED lstreams
        /\ result' = [i \in StreamIds |-> IF i \in pending THEN "err" ELSE result[i]]
     \/ conn = "clear" /\ conn' = "abort" /\ lstreams' = {} /\ UNCHANGED <<pending, result>>
     \/ conn = "abort" /\ conn' = "down" /\ UNCHANGED <<pending, result, lstreams>>
  /\ UNCHANGED <<setup, wires, readers, pc, lchan, remotes, clients, targets>>

-----------------------------------------------------------------------------
(* run_transport_with_egress_proxy: the reader of the remote.              *)
RReads(k) == conn = "up" /\ rstuck = {} /\ up # <<>> /\ Head(up).kind = k
RListens(i) == rpc[i] \in {"result", "open"}

RemoteReadOpen ==
  /\ RReads("open")
  /\ up' = Tail(up) /\ RGoes(Head(up).id, "connect")
  /\ UNCHANGED <<setup, conn, down, readers, locals, rstreams, rchan, clients, targets>>

RemoteReadData ==
  LET i == Head(up).id IN
  /\ RReads("data")
  /\ i \in rstreams /\ RListens(i) => Len(rchan[i]) < ChanSize
  /\ up' = Tail(up)
  /\ rchan' = IF i \in rstreams /\ RListens(i) THEN [rchan EXCEPT ![i] = Append(@, Head(up).n)] ELSE rchan
  /\ rstreams' = IF RListens(i) THEN rstreams ELSE rstreams \ {i}
  /\ UNCHANGED <<setup, conn, down, readers, locals, rpc, clients, targets>>

RemoteReadDataTimeout ==
  LET i == Head(up).id IN
  /\ "target" \in Stalls /\ RReads("data")
  /\ i \in rstreams /\ RListens(i) /\ Len(rchan[i]) = ChanSize
  /\ up' = Tail(up)
  /\ rstreams' = rstreams \ {i} /\ rstuck' = {i} /\ cut' = cut \cup {i}
  /\ UNCHANGED <<setup, conn, down, stuck, locals, rpc, rchan, clients, targets>>

RemoteReadDataGivesUp ==
  \E i \in rstuck :
    /\ conn = "up" /\ SendDown(Frame("close", i))
    /\ rstuck' = {}
    /\ UNCHANGED <<setup, conn, up, stuck, cut, locals, remotes, clients, targets>>

RemoteReadClose ==
  /\ RReads("close")
  /\ up' = Tail(up) /\ rstreams' = rstreams \ {Head(up).id}
  /\ UNCHANGED <<setup, conn, down, readers, locals, rpc, rchan, clients, targets>>

RemoteReader ==
  RemoteReadOpen \/ RemoteReadData \/ RemoteReadDataTimeout \/ RemoteReadDataGivesUp \/ RemoteReadClose

(* handle_open_tcp.                                                        *)
Connect(i) ==
  /\ rpc[i] = "connect"
  /\ \/ RGoes(i, "result") /\ rstreams' = rstreams \cup {i}
     \/ RGoes(i, "refused") /\ UNCHANGED rstreams
  /\ UNCHANGED <<setup, conn, wires, readers, locals, rchan, clients, targets>>

SendResult(i) ==
  /\ \/ rpc[i] = "result" /\ SendDown(Frame("ok", i)) /\ RGoes(i, "open")
     \/ rpc[i] = "refused" /\ SendDown(Frame("refuse", i)) /\ RGoes(i, "ended")
  /\ UNCHANGED <<setup, conn, up, readers, locals, rstreams, rchan, clients, targets>>

TargetSends(i) ==
  /\ rpc[i] = "open" /\ tsent[i] < TargetChunks
  /\ SendDown(Data(i, tsent[i] + 1)) /\ tsent' = [tsent EXCEPT ![i] = @ + 1]
  /\ UNCHANGED <<setup, conn, up, readers, locals, remotes, clients, tgot, teof>>

TargetEnds(i) ==
  /\ rpc[i] = "open"
  /\ RGoes(i, "closing")
  /\ UNCHANGED <<setup, conn, wires, readers, locals, rstreams, rchan, clients, targets>>

TargetReceives(i) ==
  /\ rpc[i] = "open" /\ rchan[i] # <<>>
  /\ tgot' = [tgot EXCEPT ![i] = Append(@, Head(rchan[i]))]
  /\ rchan' = [rchan EXCEPT ![i] = Tail(@)]
  /\ UNCHANGED <<setup, conn, wires, readers, locals, rpc, rstreams, clients, tsent, teof>>

TargetShutdown(i) ==
  /\ rpc[i] = "open" /\ rchan[i] = <<>> /\ i \notin rstreams
  /\ teof' = [teof EXCEPT ![i] = TRUE] /\ RGoes(i, "closing")
  /\ UNCHANGED <<setup, conn, wires, readers, locals, rstreams, rchan, clients, tsent, tgot>>

RemoteClose(i) ==
  /\ rpc[i] = "closing"
  /\ SendDown(Frame("close", i))
  /\ RGoes(i, "ended") /\ rstreams' = rstreams \ {i}
  /\ UNCHANGED <<setup, conn, up, readers, locals, rchan, clients, targets>>

RemoteStep(i) == Connect(i) \/ SendResult(i) \/ TargetShutdown(i) \/ RemoteClose(i)

BridgeNext ==
  \/ Reader \/ RemoteReader \/ Break \/ Lifecycle
  \/ \E i \in StreamIds :
       \/ OpenStep(i) \/ RemoteStep(i)
       \/ ClientSend(i) \/ ClientEnds(i) \/ ClientReceives(i) \/ ClientShutdown(i) \/ RelayClose(i)
       \/ TargetSends(i) \/ TargetEnds(i) \/ TargetReceives(i)

BridgeSpec == BridgeInit /\ [][BridgeNext]_bridgeVars

(* The tasks run; clients and targets send and end as they like, and read  *)
(* unless they may stall.                                                  *)
BridgeFairness ==
  /\ WF_bridgeVars(Reader) /\ WF_bridgeVars(RemoteReader) /\ WF_bridgeVars(Lifecycle)
  /\ \A i \in StreamIds :
       /\ WF_bridgeVars(pc[i] # "idle" /\ OpenStep(i)) /\ WF_bridgeVars(RemoteStep(i))
       /\ WF_bridgeVars(ClientShutdown(i)) /\ WF_bridgeVars(RelayClose(i))
       /\ WF_bridgeVars("client" \notin Stalls /\ ClientReceives(i))
       /\ WF_bridgeVars("target" \notin Stalls /\ TargetReceives(i))

-----------------------------------------------------------------------------
IsPrefixOfAll(s) == \A k \in DOMAIN s : s[k] = k

(* What an end point receives is the beginning of what the other one sent, *)
(* in order and without a gap, whatever is refused, timed out or cut off.  *)
InOrder == \A i \in StreamIds : IsPrefixOfAll(got[i]) /\ IsPrefixOfAll(tgot[i])

(* The end of a stream is not reported before its last chunk: as long as   *)
(* the connection lasts and the stream was not given up, a client that     *)
(* sees the end has all that the target sent, and a target all that the    *)
(* client sent.                                                            *)
EndIsComplete ==
  conn = "up" =>
    \A i \in StreamIds \ cut :
      /\ eof[i] => Len(got[i]) = tsent[i]
      /\ teof[i] => Len(tgot[i]) = sent[i]

(* A stream that failed to open, or that was closed, is in no table of the *)
(* controller any more.                                                    *)
NothingKept == \A i \in StreamIds : pc[i] \in {"failed", "done"} => i \notin pending \cup lstreams

(* The two sides agree about who is left: once no frame is under way, a    *)
(* connection to a target belongs to a relay, and a relay has one.  (Not   *)
(* so for an open that timed out and for a client that has left: neither   *)
(* sends a Close.)                                                         *)
SidesAgree ==
  conn = "up" /\ up = <<>> /\ down = <<>> /\ stuck = {} /\ rstuck = {} =>
    \A i \in StreamIds \ cut :
      /\ rpc[i] = "open" /\ i \in rstreams => pc[i] \in {"wait", "relay", "closing"}
      /\ pc[i] = "relay" /\ i \in lstreams => rpc[i] \in {"open", "closing"}

(* A client that does not read holds the reader for all streams only until *)
(* the timeout: the open of another stream is answered, if the targets     *)
(* read.                                                                   *)
OpensAreAnswered ==
  \A i \in StreamIds : "target" \notin Stalls /\ pc[i] = "wait" ~> pc[i] # "wait"

(* When the connection is lost every stream of the controller ends, unless *)
(* its client does not read.                                               *)
StreamsEnd ==
  \A i \in StreamIds : conn # "up" /\ pc[i] # "idle" ~>
                   pc[i] \in {"failed", "done", "left"} \/ (pc[i] = "relay" /\ lchan[i] # <<>>)

=============================================================================
