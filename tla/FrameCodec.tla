------------------------------ MODULE FrameCodec ------------------------------
(***************************************************************************)
(* The SPX frame format (protocol.rs) on a byte stream: write_frame_batch   *)
(* puts frames on a stream that takes any number of bytes at a time, and    *)
(* FrameReader takes them off it in pieces of any size, until the stream    *)
(* ends anywhere.                                                           *)
(*                                                                         *)
(* Scale: a byte holds 0..MaxFrame, and every u16 and u32 is one byte, so   *)
(* that the 9 bytes of a frame's header are 3.  The bounds keep their       *)
(* order: the longest string (MaxString for u16::MAX) is shorter than the   *)
(* longest frame (MaxFrame for MAX_FRAME).                                  *)
(***************************************************************************)
EXTENDS Naturals, Sequences

CONSTANTS MaxString, MaxFrame, MaxSent,
          MaxHeader   \* MAX_STREAM_HEADER, one more than a u16 holds

VARIABLES
  sent,   \* frames given to the writer, in order
  link,   \* out: bytes of the frame being written; wire: bytes under way; up: the writer
  got,    \* frames the reader returned
  rd      \* the reader: part it has read, and how it ended

codecVars == <<sent, link, got, rd>>

HeaderLen == 3
None == <<>>
Some(s) == <<s>>

Strings == UNION {[1..n -> {1}] : n \in 0..(MaxString + 1)}
Frames ==
  [ty : {1}, id : {1}, host : Strings, port : {0, 1}, egress : {None} \cup {Some(s) : s \in {<<>>, <<1>>}}]
    \cup [ty : {2}, id : {1}, ok : {0, 1}, message : Strings]
    \cup [ty : {3}, id : {0, 1}, data : UNION {[1..n -> {1}] : n \in {0, 2, MaxFrame, MaxFrame + 1}}]
    \cup [ty : {4}, id : {1}, message : Strings] \cup [ty : {6}, id : {0}, message : {<<1>>}]
    \cup [ty : {5}, id : {1}, host : {<<>>, <<1>>}, port : {1}, data : {<<>>, <<1>>, <<0, 1>>}]

Init ==
  /\ sent = <<>> /\ got = <<>>
  /\ link = [out |-> <<>>, wire |-> <<>>, up |-> TRUE]
  /\ rd = [part |-> <<>>, end |-> "none"]

-----------------------------------------------------------------------------
(***************************************************************************)
(* Encoding.  A string too long for its length, or a payload too long for   *)
(* a frame, is an error: None.                                              *)
(***************************************************************************)
Join(a, b) == IF a = None \/ b = None THEN None ELSE Some(a[1] \o b[1])

write_string(s) == IF Len(s) > MaxString THEN None ELSE Some(<<Len(s)>> \o s)

encode_into(f) ==
  CASE f.ty = 1 -> Join(Join(write_string(f.host), Some(<<f.port>>)),
                        IF f.egress = None THEN Some(<<0>>)
                          ELSE Join(Some(<<1>>), write_string(f.egress[1])))
    [] f.ty = 2 -> Join(Some(<<f.ok>>), write_string(f.message))
    [] f.ty = 3 -> Some(f.data)
    [] f.ty \in {4, 6} -> write_string(f.message)
    [] OTHER    -> Join(write_string(f.host), Some(<<f.port, Len(f.data)>> \o f.data))

write_payload(f) ==
  LET payload == encode_into(f) IN
  IF payload = None \/ Len(payload[1]) > MaxFrame THEN None
    ELSE Some(<<f.ty, f.id, Len(payload[1])>> \o payload[1])

-----------------------------------------------------------------------------
(***************************************************************************)
(* Decoding, with the cursor of the source: Str(b, i) is the string whose   *)
(* length is at i, After(b, i) the position behind it.                      *)
(***************************************************************************)
Fits(b, i)  == i <= Len(b) /\ i + b[i] <= Len(b)
Str(b, i)   == SubSeq(b, i + 1, i + b[i])
After(b, i) == i + b[i] + 1

(* A slip: an egress proxy is taken for absent unless bytes follow its length. *)
decode_egress_short(b, i) ==
  IF i > Len(b) \/ b[i] = 0 \/ i + 1 >= Len(b) THEN Some(None)
    ELSE IF Fits(b, i + 1) /\ After(b, i + 1) = Len(b) + 1 THEN Some(Some(Str(b, i + 1))) ELSE None

(* The egress proxy of an OpenTcp, which older peers leave out. *)
decode_egress(b, i) ==
  IF i > Len(b) THEN Some(None)
  ELSE IF b[i] = 0 THEN (IF i = Len(b) THEN Some(None) ELSE None)
  ELSE IF Fits(b, i + 1) /\ After(b, i + 1) = Len(b) + 1 THEN Some(Some(Str(b, i + 1))) ELSE None

decode(ty, id, b) ==
  CASE ty = 1 -> IF ~Fits(b, 1) \/ After(b, 1) > Len(b) THEN None
                   ELSE LET e == decode_egress(b, After(b, 1) + 1) IN
                        IF e = None THEN None
                          ELSE Some([ty |-> 1, id |-> id, host |-> Str(b, 1), port |-> b[After(b, 1)], egress |-> e[1]])
    [] ty = 2 -> IF Len(b) < 2 \/ ~Fits(b, 2) \/ After(b, 2) # Len(b) + 1 THEN None
                   ELSE Some([ty |-> 2, id |-> id, ok |-> IF b[1] # 0 THEN 1 ELSE 0, message |-> Str(b, 2)])
    [] ty = 3 -> Some([ty |-> 3, id |-> id, data |-> b])
    [] ty \in {4, 6} -> IF ~Fits(b, 1) \/ After(b, 1) # Len(b) + 1 THEN None
                   ELSE Some([ty |-> ty, id |-> id, message |-> Str(b, 1)])
    [] ty = 5 -> LET i == After(b, 1) IN
                 IF ~Fits(b, 1) \/ ~Fits(b, i + 1) \/ After(b, i + 1) # Len(b) + 1 THEN None
                   ELSE Some([ty |-> 5, id |-> id, host |-> Str(b, 1), port |-> b[i], data |-> Str(b, i + 1)])
    [] OTHER  -> None

-----------------------------------------------------------------------------
(***************************************************************************)
(* The header of a QUIC-native stream (stream_header.rs), by its lengths:   *)
(* the body is FixedBody bytes, three strings, and its own length in a u16. *)
(***************************************************************************)
FixedBody == 2
Headers == [route : 0..MaxString, host : 0..MaxString, egress : 0..MaxString]
BodyLen(h) == FixedBody + h.route + h.host + h.egress

encode_header(h) ==
  IF BodyLen(h) > MaxHeader THEN None ELSE Some([len |-> BodyLen(h) % MaxHeader, body |-> h])

(* The reader takes len bytes and must find the whole header in them. *)
decode_header(e) == IF e.len = BodyLen(e.body) THEN Some(e.body) ELSE None

-----------------------------------------------------------------------------
(* The writer takes the next frame; one it cannot encode ends it. *)
Send(f) ==
  /\ link.up /\ link.out = <<>> /\ Len(sent) < MaxSent
  /\ LET b == write_payload(f) IN
     IF b = None THEN link' = [link EXCEPT !.up = FALSE] /\ sent' = sent
       ELSE link' = [link EXCEPT !.out = b[1]] /\ sent' = Append(sent, f)
  /\ UNCHANGED <<got, rd>>

(* write_all_vectored_payload: the stream takes n of the remaining bytes. *)
Write(n) ==
  /\ n <= Len(link.out)
  /\ link' = [link EXCEPT !.wire = @ \o SubSeq(link.out, 1, n), !.out = SubSeq(@, n + 1, Len(@))]
  /\ UNCHANGED <<sent, got, rd>>

(* What read_exact still waits for. *)
Wanted(part) == IF Len(part) < HeaderLen THEN HeaderLen - Len(part)
                ELSE HeaderLen + part[HeaderLen] - Len(part)

(* FrameReader takes n bytes, never more than it waits for; a frame that   *)
(* is complete is decoded.                                                 *)
Read(n) ==
  LET part == rd.part \o SubSeq(link.wire, 1, n)
      frame == decode(part[1], part[2], SubSeq(part, HeaderLen + 1, Len(part)))
  IN
  /\ rd.end = "none" /\ n <= Len(link.wire) /\ n <= Wanted(rd.part)
  /\ link' = [link EXCEPT !.wire = SubSeq(@, n + 1, Len(@))]
  /\ IF Len(part) < HeaderLen \/ (Len(part) = HeaderLen /\ part[HeaderLen] # 0) \/ Wanted(part) > 0
       THEN rd' = [rd EXCEPT !.part = part] /\ got' = got
       ELSE IF frame = None THEN rd' = [rd EXCEPT !.end = "error"] /\ got' = got
       ELSE rd' = [rd EXCEPT !.part = <<>>] /\ got' = got \o frame
  /\ UNCHANGED sent

(* The stream ends: inside a header the reader reports a clean end. *)
Eof ==
  /\ rd.end = "none" /\ link.wire = <<>>
  /\ rd' = [rd EXCEPT !.end = IF Len(rd.part) < HeaderLen THEN "eof" ELSE "error"]
  /\ link' = [link EXCEPT !.up = FALSE, !.out = <<>>]
  /\ UNCHANGED <<sent, got>>

Next ==
  \/ \E f \in Frames : Send(f)
  \/ \E n \in 1..(HeaderLen + MaxFrame) : Write(n) \/ Read(n)
  \/ Eof

Spec == Init /\ [][Next]_codecVars

-----------------------------------------------------------------------------
(* The shape of the state. *)
TypeOK ==
  /\ Len(sent) <= MaxSent /\ link.up \in BOOLEAN
  /\ rd.end \in {"none", "eof", "error"}
  /\ \A i \in 1..Len(rd.part) : rd.part[i] \in 0..(MaxFrame + 1)

(* However the stream is cut into pieces and wherever it ends, the reader  *)
(* returns the frames that were sent, whole, unchanged and in order; none  *)
(* of what the writer sends is undecodable, so that it fails only on a     *)
(* frame the end of the stream tore.                                       *)
FramesSurvive ==
  /\ Len(got) <= Len(sent) /\ got = SubSeq(sent, 1, Len(got))
  /\ rd.end = "error" => ~link.up /\ Len(got) < Len(sent)

(* A header that is written is read back, but for the one length the check *)
(* admits and the u16 does not hold: a body of exactly MaxHeader bytes     *)
(* leaves with the length 0 and is refused on the other side.              *)
HeaderSurvives ==
  \A h \in Headers : encode_header(h) # None =>
    decode_header(encode_header(h)[1]) = IF BodyLen(h) = MaxHeader THEN None ELSE Some(h)
=============================================================================
