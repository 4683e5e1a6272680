------------------------------ MODULE QuicFlow ------------------------------
(***************************************************************************)
(* One flow of the quic-native transport, from the client's relay          *)
(* (relay_quic_native_tcp, relay.rs) to the handler of the far node        *)
(* (handle_native_quic_stream, quic_transport.rs), with the first-byte     *)
(* watchdog of each end.  Time passes only as the end of a watchdog's      *)
(* sleep.                                                                  *)
(***************************************************************************)
EXTENDS Naturals

CONSTANT MaxChunks     \* chunks that the target sends back

VARIABLES
  near,    \* the client's end
  first,   \* first_byte_recorded of the client's end
  dog,     \* its watchdog: "off", "armed", then "sent", or "gone" with cancel_tx dropped
  far,     \* the far handler
  fdog,    \* its watchdog
  sent,    \* chunks that the target has sent, and those that reached the client
  got,
  end      \* why the client's end was closed

vars == <<near, first, dog, far, fdog, sent, got, end>>

Dog == {"off", "armed", "sent", "gone"}

TypeOK ==
  /\ near \in {"initial", "relay", "ended"} /\ far \in {"header", "egress", "relay", "done", "reset"}
  /\ first \in BOOLEAN /\ dog \in Dog /\ fdog \in Dog /\ sent \in 0..MaxChunks /\ got \in 0..MaxChunks
  /\ end \in {"none", "completed", "failed", "first_byte"}

Init ==
  /\ near = "initial" /\ first = FALSE /\ dog = "off" /\ far = "header" /\ fdog = "off"
  /\ sent = 0 /\ got = 0 /\ end = "none"

-----------------------------------------------------------------------------
(* The initial bytes of the client are written, or fail or time out.       *)
Initial ==
  /\ near = "initial"
  /\ \/ near' = "relay" /\ dog' = "armed" /\ UNCHANGED end
     \/ near' = "ended" /\ end' = "failed" /\ UNCHANGED dog
  /\ UNCHANGED <<first, far, fdog, sent, got>>

Receive ==
  /\ near = "relay" /\ got < sent /\ got' = got + 1 /\ first' = TRUE
  /\ UNCHANGED <<near, dog, far, fdog, sent, end>>

(* The sleep is over: the watchdog sends if there was no byte, and ends.   *)
Watchdog(recorded) == IF recorded THEN "gone" ELSE "sent"

NearTimeout ==
  /\ dog = "armed" /\ dog' = Watchdog(first) /\ UNCHANGED <<near, first, far, fdog, sent, got, end>>

EndNear(why) ==
  /\ near = "relay" /\ near' = "ended" /\ end' = why
  /\ dog' = IF dog = "armed" THEN "off" ELSE dog      \* watchdog.abort()
  /\ UNCHANGED <<first, far, fdog, sent, got>>

(* The copy completes when the far end has closed and all is delivered; it *)
(* fails on a reset, or by the client.                                     *)
CopyEnds == (far = "done" /\ got = sent /\ EndNear("completed")) \/ EndNear("failed")

(* cancel_rx.changed(): a value was sent, or the sender is gone.           *)
Cancelled == dog \in {"sent", "gone"} /\ EndNear("first_byte")

-----------------------------------------------------------------------------
(* The header is read in time and belongs to the route, or not; then the   *)
(* egress connection is made in time, or not.                              *)
FarHeader ==
  /\ far = "header" /\ far' \in {"egress", "done", "reset"}
  /\ UNCHANGED <<near, first, dog, fdog, sent, got, end>>

FarEgress ==
  /\ far = "egress"
  /\ \/ far' = "relay" /\ fdog' = "armed"
     \/ far' \in {"done", "reset"} /\ UNCHANGED fdog
  /\ UNCHANGED <<near, first, dog, sent, got, end>>

TargetSends == far = "relay" /\ sent < MaxChunks /\ sent' = sent + 1 /\ UNCHANGED <<near, first, dog, far, fdog, got, end>>

(* The stream has delivered the header, so its first byte is recorded.     *)
FarTimeout == fdog = "armed" /\ fdog' = Watchdog(TRUE) /\ UNCHANGED <<near, first, dog, far, sent, got, end>>

FarEnds ==
  /\ far = "relay" /\ fdog' = "off"
  /\ \/ far' \in {"done", "reset"}
     \/ fdog \in {"sent", "gone"} /\ far' = "reset"
  /\ UNCHANGED <<near, first, dog, sent, got, end>>

Next ==
  \/ Initial \/ Receive \/ NearTimeout \/ CopyEnds \/ Cancelled
  \/ FarHeader \/ FarEgress \/ TargetSends \/ FarTimeout \/ FarEnds

Spec == Init /\ [][Next]_vars

-----------------------------------------------------------------------------
(* The first-byte timeout ends a relay only if its time ran out without a  *)
(* byte from the far end, and the watchdog said so.  "A long streamed TCP  *)
(* connection" of 30 s is a workload of the transport matrix               *)
(* (docs/testing.md:183-184 and 204), twice the timeout.                   *)
OnlySilenceTimesOut == end = "first_byte" => dog = "sent"
=============================================================================
