---------------------------- MODULE DeliveryProofs ----------------------------
(***************************************************************************)
(* The streams of a bridge: nothing is lost, repeated or reordered, no     *)
(* stream ends early, both sides agree about who is left, and no table     *)
(* keeps a stream that has ended, for every set of streams and every       *)
(* setup.                                                                  *)
(***************************************************************************)
EXTENDS Delivery, TLAPS

(* What the frames of stream i on wire w say.  Has: one of them is of that *)
(* kind.  Feed: its chunks are lo + 1 .. hi, each there, in order.  Ends:  *)
(* nothing follows its Close.  OneOpen: its Open is there once at most.    *)
OfData(f, i) == f.kind = "data" /\ f.id = i
Has(w, k, i) == \E j \in 1..Len(w) : w[j].kind = k /\ w[j].id = i
NoData(w, i) == \A j \in 1..Len(w) : ~OfData(w[j], i)
Feed(w, i, lo, hi) ==
  /\ lo <= hi
  /\ \A j \in 1..Len(w) : OfData(w[j], i) => lo < w[j].n /\ w[j].n <= hi
  /\ \A j, k \in 1..Len(w) : j < k /\ OfData(w[j], i) /\ OfData(w[k], i) => w[j].n < w[k].n
  /\ \A n \in (lo + 1)..hi : \E j \in 1..Len(w) : OfData(w[j], i) /\ w[j].n = n
Ends(w, i) ==
  \A j, k \in 1..Len(w) : j < k /\ w[j].kind = "close" /\ w[j].id = i => ~OfData(w[k], i)
OneOpen(w, i) ==
  \A j, k \in 1..Len(w) : w[j].kind = "open" /\ w[j].id = i /\ w[k].kind = "open" /\ w[k].id = i => j = k

(* What was received, and what is queued behind it, are 1, 2, 3 ...        *)
Chained(received, queue) ==
  /\ IsPrefixOfAll(received)
  /\ \A k \in 1..Len(queue) : queue[k] = Len(received) + k

Early  == {"idle", "register", "send"}
Live   == {"open", "closing", "ended"}
Taken(i)  == Len(got[i]) + Len(lchan[i])
TTaken(i) == Len(tgot[i]) + Len(rchan[i])

(* Whatever becomes of the connection: a stream before its Open is fresh   *)
(* on both sides, one that is not connected is fresh at the target, and    *)
(* the relay begins with the remote's answer; a pending open ends before   *)
(* the relay begins, as its result and its place in pending exclude each   *)
(* other; and who failed or is done is in no table.                        *)
Progress(i) ==
  /\ Chained(got[i], lchan[i]) /\ Chained(tgot[i], rchan[i])
  /\ pc[i] \in Early => rpc[i] = "none" /\ got[i] = <<>> /\ lchan[i] = <<>>
  /\ rpc[i] \notin Live => tsent[i] = 0 /\ tgot[i] = <<>> /\ rchan[i] = <<>> /\ sent[i] = 0
                           /\ result[i] # "ok" /\ i \notin rstuck
                           /\ pc[i] \notin {"relay", "closing", "done", "left"}
  /\ pc[i] = "idle" => result[i] = "none" /\ i \notin pending
  /\ result[i] # "none" => i \notin pending
  /\ pc[i] = "relay" => result[i] = "ok"
  /\ pc[i] \in {"closing", "left", "failed", "done"} => i \notin pending
  /\ pc[i] \in {"failed", "done"} => i \notin lstreams
  /\ i \in stuck \cup rstuck => i \in cut
  /\ eof[i] => pc[i] \in {"closing", "done"}
  /\ teof[i] => rpc[i] \in {"closing", "ended"}

(* What is on the wires while the connection is up.                        *)
OnWires(i) ==
  /\ OneOpen(up, i)
  /\ Has(up, "open", i) => rpc[i] = "none" /\ pc[i] \notin Early
  /\ rpc[i] \notin Live => NoData(up, i) /\ NoData(down, i) /\ ~Has(down, "ok", i) /\ ~Has(down, "close", i)
  /\ rpc[i] # "ended" => ~Has(down, "refuse", i)
  /\ i \in lstreams /\ LocalListens(i) => Feed(down, i, Taken(i), tsent[i])
  /\ i \in rstreams /\ RListens(i) => Feed(up, i, TTaken(i), sent[i])

(* A stream that was not given up: a Close is the last of a stream, who    *)
(* lost its place in a table has all that was sent, and the other side has *)
(* ended.                                                                  *)
Closing(i) ==
  /\ Ends(up, i) /\ Ends(down, i)
  /\ Has(down, "close", i) => rpc[i] = "ended"
  /\ Has(up, "close", i) => pc[i] = "done"
  /\ pc[i] \in {"wait", "relay"} /\ i \notin lstreams => Taken(i) = tsent[i] /\ rpc[i] = "ended"
  /\ RListens(i) /\ i \notin rstreams => TTaken(i) = sent[i] /\ pc[i] = "done"
  /\ eof[i] => Len(got[i]) = tsent[i] /\ rpc[i] = "ended"
  /\ teof[i] => Len(tgot[i]) = sent[i] /\ pc[i] = "done"

(* And who is left knows of the other, or a Close is under way.            *)
Agreement(i) ==
  /\ Has(up, "open", i) \/ rpc[i] = "connect" => pc[i] = "wait"
  /\ result[i] = "err" => rpc[i] = "ended"
  /\ RListens(i) /\ i \in rstreams => pc[i] \in {"wait", "relay", "closing"} \/ Has(up, "close", i)
  /\ rpc[i] = "ended" /\ i \in lstreams /\ pc[i] \in {"wait", "relay"}
       /\ (result[i] = "ok" \/ Has(down, "ok", i)) => Has(down, "close", i)

Stream(i) ==
  /\ Progress(i)
  /\ conn = "up" => /\ pc[i] = "send" => i \in lstreams
                    /\ OnWires(i)
                    /\ i \notin cut => Closing(i) /\ Agreement(i)

DeliveryInv == BridgeTypeOK /\ \A i \in StreamIds : Stream(i)

(* Two wires are the same to stream i.                                     *)
Kinds == {"open", "ok", "refuse", "close"}
SameFrames(w, v, i) ==
  /\ \A k \in Kinds : Has(v, k, i) <=> Has(w, k, i)
  /\ NoData(w, i) => NoData(v, i)
  /\ \A lo, hi \in Nat : Feed(w, i, lo, hi) => Feed(v, i, lo, hi)
  /\ Ends(w, i) => Ends(v, i)
  /\ OneOpen(w, i) => OneOpen(v, i)

(* A frame of stream i that is no chunk is appended.                       *)
Adds(w, v, k, i) ==
  /\ \A l \in Kinds : Has(v, l, i) <=> (l = k \/ Has(w, l, i))
  /\ NoData(w, i) => NoData(v, i)
  /\ \A lo, hi \in Nat : Feed(w, i, lo, hi) => Feed(v, i, lo, hi)
  /\ Ends(w, i) => Ends(v, i)
  /\ OneOpen(w, i) /\ (k = "open" => ~Has(w, "open", i)) => OneOpen(v, i)

(* The next chunk of stream i is appended.                                 *)
Feeds(w, v, i) ==
  /\ \A k \in Kinds : Has(v, k, i) <=> Has(w, k, i)
  /\ OneOpen(w, i) => OneOpen(v, i)
  /\ Ends(w, i) /\ ~Has(w, "close", i) => Ends(v, i)

(* A frame of stream i that is no chunk is taken off.                      *)
Drops(w, v, k, i) ==
  /\ Has(w, k, i)
  /\ \A l \in Kinds : Has(v, l, i) => Has(w, l, i)
  /\ \A l \in Kinds \ {k} : Has(w, l, i) => Has(v, l, i)
  /\ NoData(w, i) => NoData(v, i)
  /\ \A lo, hi \in Nat : Feed(w, i, lo, hi) => Feed(v, i, lo, hi)
  /\ Ends(w, i) => Ends(v, i) /\ (k = "close" => NoData(w, i))
  /\ OneOpen(w, i) => OneOpen(v, i) /\ (k = "open" => ~Has(v, "open", i))

(* A chunk of stream i is taken off: it is the one that is due.            *)
Eats(w, v, n, i) ==
  /\ ~NoData(w, i)
  /\ \A k \in Kinds : Has(v, k, i) <=> Has(w, k, i)
  /\ \A lo, hi \in Nat : Feed(w, i, lo, hi) => n = lo + 1 /\ n <= hi /\ Feed(v, i, lo + 1, hi)
  /\ Ends(w, i) => Ends(v, i)
  /\ OneOpen(w, i) => OneOpen(v, i)

(* What Append and Tail do to a wire.                                      *)
LEMMA Appended ==
  ASSUME NEW w \in Seq(Frames), NEW f \in Frames
  PROVE  /\ Append(w, f) \in Seq(Frames) /\ Len(w) \in Nat
         /\ Len(Append(w, f)) = Len(w) + 1 /\ Append(w, f)[Len(w) + 1] = f
         /\ \A j \in 1..Len(w) : Append(w, f)[j] = w[j]
  OBVIOUS

LEMMA TakenOff ==
  ASSUME NEW w \in Seq(Frames), w # <<>>
  PROVE  /\ Tail(w) \in Seq(Frames) /\ Len(w) \in Nat /\ Len(w) >= 1
         /\ Len(Tail(w)) = Len(w) - 1 /\ w[1] = Head(w) /\ Head(w) \in Frames
         /\ \A j \in 1..Len(Tail(w)) : Tail(w)[j] = w[j + 1]
  OBVIOUS

(* A chunk is its number.                                                  *)
LEMMA ChunksAreNumbers ==
  ASSUME NEW w \in Seq(Frames), NEW i
  PROVE  \A j \in 1..Len(w) : OfData(w[j], i) => w[j].n \in Nat
  BY DEF OfData, Frames

(* A frame of another stream changes nothing for stream i.                 *)
LEMMA OthersAppended ==
  ASSUME NEW w \in Seq(Frames), NEW f \in Frames, NEW i, f.id # i
  PROVE  SameFrames(w, Append(w, f), i)
<1> DEFINE v == Append(w, f)
<1>1. /\ Len(w) \in Nat /\ Len(v) = Len(w) + 1 /\ v[Len(w) + 1] = f
      /\ \A j \in 1..Len(w) : v[j] = w[j]
  BY Appended
<1> HIDE DEF v
<1>2. \A j \in 1..Len(v) : j \in 1..Len(w) \/ v[j].id # i
  BY <1>1
<1>3. \A j \in 1..Len(w) : j \in 1..Len(v)
  BY <1>1
<1>4. \A k \in Kinds : Has(v, k, i) <=> Has(w, k, i)
  BY <1>1, <1>2, <1>3 DEF Has
<1>5. NoData(w, i) => NoData(v, i)
  BY <1>1, <1>2 DEF NoData, OfData
<1>6. ASSUME NEW lo \in Nat, NEW hi \in Nat, Feed(w, i, lo, hi) PROVE Feed(v, i, lo, hi)
  BY <1>1, <1>2, <1>3, <1>6, Zenon DEF Feed, OfData
<1>7. Ends(w, i) => Ends(v, i)
  BY <1>1, <1>2 DEF Ends, OfData
<1>8. OneOpen(w, i) => OneOpen(v, i)
  BY <1>1, <1>2 DEF OneOpen
<1> QED BY <1>4, <1>5, <1>6, <1>7, <1>8 DEF SameFrames, v

LEMMA OthersTakenOff ==
  ASSUME NEW w \in Seq(Frames), w # <<>>, NEW i, Head(w).id # i
  PROVE  SameFrames(w, Tail(w), i)
<1> DEFINE v == Tail(w)
<1>1. /\ Len(w) \in Nat /\ Len(w) >= 1 /\ Len(v) = Len(w) - 1 /\ w[1].id # i
      /\ \A j \in 1..Len(v) : v[j] = w[j + 1]
  BY TakenOff
<1> HIDE DEF v
<1>2. \A j \in 1..Len(w) : (j - 1 \in 1..Len(v) /\ v[j - 1] = w[j]) \/ w[j].id # i
  BY <1>1
<1>3. \A j \in 1..Len(v) : j + 1 \in 1..Len(w)
  BY <1>1
<1>4. \A k \in Kinds : Has(v, k, i) <=> Has(w, k, i)
  BY <1>1, <1>2, <1>3, Zenon DEF Has
<1>5. NoData(w, i) => NoData(v, i)
  BY <1>1, <1>3 DEF NoData, OfData
<1>6. ASSUME NEW lo \in Nat, NEW hi \in Nat, Feed(w, i, lo, hi) PROVE Feed(v, i, lo, hi)
  <2>1. \A j \in 1..Len(v) : OfData(v[j], i) => lo < v[j].n /\ v[j].n <= hi
    BY <1>1, <1>3, <1>6, SMTT(30) DEF Feed
  <2>2. \A j, k \in 1..Len(v) : j < k /\ OfData(v[j], i) /\ OfData(v[k], i) => v[j].n < v[k].n
    BY <1>1, <1>3, <1>6 DEF Feed
  <2>3. ASSUME NEW n \in (lo + 1)..hi PROVE \E j \in 1..Len(v) : OfData(v[j], i) /\ v[j].n = n
    <3>1. PICK j \in 1..Len(w) : OfData(w[j], i) /\ w[j].n = n
      BY <1>6 DEF Feed
    <3> QED BY <1>2, <3>1 DEF OfData
  <2> QED BY <1>6, <2>1, <2>2, <2>3 DEF Feed
<1>7. Ends(w, i) => Ends(v, i)
  BY <1>1, <1>3 DEF Ends
<1>8. \A j, k \in 1..Len(v) : j + 1 = k + 1 => j = k
  BY <1>1
<1>9. OneOpen(w, i) => OneOpen(v, i)
  BY <1>1, <1>3, <1>8 DEF OneOpen
<1> QED BY <1>4, <1>5, <1>6, <1>7, <1>9 DEF SameFrames, v

(* A wire that nobody touches.                                             *)
LEMMA WireStays == ASSUME NEW w, NEW i PROVE SameFrames(w, w, i)
  BY DEF SameFrames

(* The frames of a stream that are no chunks: send_frame and reader_loop.  *)
LEMMA FrameAppended ==
  ASSUME NEW w \in Seq(Frames), NEW k \in Kinds, NEW i \in StreamIds
  PROVE  Adds(w, Append(w, Frame(k, i)), k, i)
<1> DEFINE v == Append(w, Frame(k, i))
<1>0. Frame(k, i) \in Frames /\ Frame(k, i).kind = k /\ Frame(k, i).id = i /\ k # "data"
  BY DEF Frame, Frames, Kinds
<1>1. /\ Len(w) \in Nat /\ Len(v) = Len(w) + 1 /\ v[Len(w) + 1].kind = k /\ v[Len(w) + 1].id = i
      /\ \A j \in 1..Len(w) : v[j] = w[j]
  BY <1>0, Appended
<1> HIDE DEF v
<1>2. \A j \in 1..Len(v) : j \in 1..Len(w) \/ (j = Len(w) + 1 /\ ~OfData(v[j], i))
  BY <1>0, <1>1 DEF OfData
<1>3. \A j \in 1..Len(w) : j \in 1..Len(v)
  BY <1>1
<1>4. \A l \in Kinds : Has(v, l, i) <=> (l = k \/ Has(w, l, i))
  <2>1. Len(w) + 1 \in 1..Len(v)
    BY <1>1
  <2> QED BY <1>1, <1>2, <1>3, <2>1 DEF Has
<1>5. NoData(w, i) => NoData(v, i)
  BY <1>1, <1>2 DEF NoData
<1>6. ASSUME NEW lo \in Nat, NEW hi \in Nat, Feed(w, i, lo, hi) PROVE Feed(v, i, lo, hi)
  BY <1>1, <1>2, <1>3, <1>6 DEF Feed
<1>7. Ends(w, i) => Ends(v, i)
  BY <1>1, <1>2 DEF Ends
<1>8. OneOpen(w, i) /\ (k = "open" => ~Has(w, "open", i)) => OneOpen(v, i)
  BY <1>1, <1>2 DEF OneOpen, Has
<1> QED BY <1>4, <1>5, <1>6, <1>7, <1>8 DEF Adds, v

LEMMA FrameTakenOff ==
  ASSUME NEW w \in Seq(Frames), w # <<>>, NEW k \in Kinds, NEW i, Head(w).kind = k, Head(w).id = i
  PROVE  Drops(w, Tail(w), k, i)
<1> DEFINE v == Tail(w)
<1>1. /\ Len(w) \in Nat /\ Len(w) >= 1 /\ Len(v) = Len(w) - 1 /\ w[1].id = i /\ w[1].kind = k
      /\ \A j \in 1..Len(v) : v[j] = w[j + 1]
  BY TakenOff
<1> HIDE DEF v
<1>0. ~OfData(w[1], i) /\ 1 \in 1..Len(w)
  BY <1>1 DEF OfData, Kinds
<1>2. \A j \in 1..Len(w) : (j - 1 \in 1..Len(v) /\ v[j - 1] = w[j]) \/ j = 1
  BY <1>1
<1>3. \A j \in 1..Len(v) : j + 1 \in 1..Len(w) /\ 1 < j + 1
  BY <1>1
<1>4. \A l \in Kinds : Has(v, l, i) => Has(w, l, i)
  BY <1>1, <1>3 DEF Has
<1>5. Has(w, k, i) /\ \A l \in Kinds \ {k} : Has(w, l, i) => Has(v, l, i)
  BY <1>0, <1>1, <1>2 DEF Has
<1>6. NoData(w, i) => NoData(v, i)
  BY <1>1, <1>3 DEF NoData
<1>7. ASSUME NEW lo \in Nat, NEW hi \in Nat, Feed(w, i, lo, hi) PROVE Feed(v, i, lo, hi)
  <2>1. \A j \in 1..Len(v) : OfData(v[j], i) => lo < v[j].n /\ v[j].n <= hi
    BY <1>1, <1>3, <1>7, SMTT(30) DEF Feed
  <2>2. \A j, l \in 1..Len(v) : j < l /\ OfData(v[j], i) /\ OfData(v[l], i) => v[j].n < v[l].n
    BY <1>1, <1>3, <1>7 DEF Feed
  <2>3. ASSUME NEW n \in (lo + 1)..hi PROVE \E j \in 1..Len(v) : OfData(v[j], i) /\ v[j].n = n
    <3>1. PICK j \in 1..Len(w) : OfData(w[j], i) /\ w[j].n = n
      BY <1>7 DEF Feed
    <3> QED BY <1>0, <1>2, <3>1, Zenon
  <2> QED BY <1>7, <2>1, <2>2, <2>3 DEF Feed
<1>8. Ends(w, i) => Ends(v, i)
  BY <1>1, <1>3 DEF Ends
<1>9. Ends(w, i) /\ k = "close" => NoData(w, i)
  BY <1>0, <1>1 DEF Ends, NoData
<1>10. OneOpen(w, i) => OneOpen(v, i) /\ (k = "open" => ~Has(v, "open", i))
  <2>1. \A j, l \in 1..Len(v) : j + 1 = l + 1 => j = l
    BY <1>1
  <2>2. OneOpen(w, i) => OneOpen(v, i)
    BY <1>1, <1>3, <2>1 DEF OneOpen
  <2>3. ASSUME OneOpen(w, i), k = "open", NEW j \in 1..Len(v), v[j].kind = "open", v[j].id = i PROVE FALSE
    <3>1. j + 1 \in 1..Len(w) /\ j + 1 # 1 /\ w[j + 1].kind = "open" /\ w[j + 1].id = i
      BY <1>1, <1>3, <2>3
    <3> QED BY <1>0, <1>1, <2>3, <3>1 DEF OneOpen
  <2> QED BY <2>2, <2>3 DEF Has
<1> QED BY <1>4, <1>5, <1>6, <1>7, <1>8, <1>9, <1>10 DEF Drops, v

(* The chunks of a stream.                                                 *)
LEMMA ChunkAppended ==
  ASSUME NEW w \in Seq(Frames), NEW i \in StreamIds, NEW n \in Nat
  PROVE  /\ Feeds(w, Append(w, Data(i, n + 1)), i)
         /\ \A lo \in Nat : Feed(w, i, lo, n) => Feed(Append(w, Data(i, n + 1)), i, lo, n + 1)
<1> DEFINE f == Data(i, n + 1)
           v == Append(w, f)
<1>0. f \in Frames /\ f.kind = "data" /\ f.id = i /\ f.n = n + 1
  BY DEF Data, Frames
<1> HIDE DEF f
<1>1. /\ Len(w) \in Nat /\ Len(v) = Len(w) + 1 /\ v[Len(w) + 1] = f
      /\ \A j \in 1..Len(w) : v[j] = w[j]
  BY <1>0, Appended
<1> HIDE DEF v
<1>2. \A j \in 1..Len(v) : j \in 1..Len(w) \/ j = Len(w) + 1
  BY <1>1
<1>3. \A j \in 1..Len(w) : j \in 1..Len(v) /\ j < Len(w) + 1
  BY <1>1
<1>4. \A k \in Kinds : Has(v, k, i) <=> Has(w, k, i)
  BY <1>0, <1>1, <1>2, <1>3 DEF Has, Kinds
<1>5. OneOpen(w, i) => OneOpen(v, i)
  BY <1>0, <1>1, <1>2 DEF OneOpen
<1>6. Ends(w, i) /\ ~Has(w, "close", i) => Ends(v, i)
  BY <1>0, <1>1, <1>2 DEF Ends, Has, OfData
<1>7. ASSUME NEW lo \in Nat, Feed(w, i, lo, n) PROVE Feed(v, i, lo, n + 1)
  <2>0. \A j \in 1..Len(w) : OfData(w[j], i) => w[j].n \in Nat
    BY ChunksAreNumbers
  <2>1. \A j \in 1..Len(v) : OfData(v[j], i) => lo < v[j].n /\ v[j].n <= n + 1
    BY <1>0, <1>1, <1>2, <1>7, <2>0 DEF Feed
  <2>2. \A j, l \in 1..Len(v) : j < l /\ OfData(v[j], i) /\ OfData(v[l], i) => v[j].n < v[l].n
    <3> TAKE j, l \in 1..Len(v)
    <3> HAVE j < l /\ OfData(v[j], i) /\ OfData(v[l], i)
    <3>1. j \in 1..Len(w)
      BY <1>1
    <3>2. CASE l \in 1..Len(w)
      BY <1>1, <1>7, <3>1, <3>2 DEF Feed
    <3>3. CASE l = Len(w) + 1
      BY <1>0, <1>1, <1>7, <2>0, <3>1, <3>3 DEF Feed
    <3> QED BY <1>2, <3>2, <3>3
  <2>3. \A m \in (lo + 1)..(n + 1) : \E j \in 1..Len(v) : OfData(v[j], i) /\ v[j].n = m
    <3> TAKE m \in (lo + 1)..(n + 1)
    <3>1. CASE m = n + 1
      BY <1>0, <1>1, <3>1 DEF OfData
    <3>2. CASE m \in (lo + 1)..n
      BY <1>1, <1>3, <1>7, <3>2 DEF Feed
    <3> QED BY <3>1, <3>2
  <2> QED BY <1>7, <2>1, <2>2, <2>3 DEF Feed
<1> QED BY <1>4, <1>5, <1>6, <1>7 DEF Feeds, v, f

LEMMA ChunkTakenOff ==
  ASSUME NEW w \in Seq(Frames), w # <<>>, NEW i, Head(w).kind = "data", Head(w).id = i
  PROVE  Eats(w, Tail(w), Head(w).n, i) /\ Head(w).n \in Nat
<1> DEFINE v == Tail(w)
           n == Head(w).n
<1>1. /\ Len(w) \in Nat /\ Len(w) >= 1 /\ Len(v) = Len(w) - 1
      /\ \A j \in 1..Len(v) : v[j] = w[j + 1]
  BY TakenOff
<1>0. n \in Nat /\ OfData(w[1], i) /\ w[1].n = n /\ 1 \in 1..Len(w)
  BY <1>1, TakenOff DEF OfData, Frames
<1> HIDE DEF v, n
<1>2. \A j \in 1..Len(w) : (j - 1 \in 1..Len(v) /\ v[j - 1] = w[j]) \/ j = 1
  BY <1>1
<1>3. \A j \in 1..Len(v) : j + 1 \in 1..Len(w) /\ 1 < j + 1
  BY <1>1
<1>4. \A k \in Kinds : Has(v, k, i) <=> Has(w, k, i)
  <2>1. \A k \in Kinds : w[1].kind # k
    BY <1>0 DEF OfData, Kinds
  <2> QED BY <1>1, <1>2, <1>3, <2>1 DEF Has
<1>5. ASSUME NEW lo \in Nat, NEW hi \in Nat, Feed(w, i, lo, hi)
      PROVE  n = lo + 1 /\ n <= hi /\ Feed(v, i, lo + 1, hi)
  <2>0. \A j \in 1..Len(w) : OfData(w[j], i) => w[j].n \in Nat
    BY ChunksAreNumbers
  <2>1. lo < n /\ n <= hi
    BY <1>0, <1>5 DEF Feed
  <2>2. PICK j \in 1..Len(w) : OfData(w[j], i) /\ w[j].n = lo + 1
    BY <1>5, <2>1, <1>0, lo + 1 \in (lo + 1)..hi DEF Feed
  <2>3. n = lo + 1
    <3>1. j # 1 => n < lo + 1
      BY <1>0, <1>1, <1>5, <2>2 DEF Feed
    <3> QED BY <1>0, <2>1, <2>2, <3>1
  <2>4. \A k \in 1..Len(v) : OfData(v[k], i) => lo + 1 < v[k].n /\ v[k].n <= hi
    <3> TAKE k \in 1..Len(v)
    <3> HAVE OfData(v[k], i)
    <3>1. k + 1 \in 1..Len(w) /\ 1 < k + 1 /\ v[k] = w[k + 1]
      BY <1>1, <1>3
    <3> QED BY <1>0, <1>5, <2>0, <2>3, <3>1 DEF Feed
  <2>5. \A k, l \in 1..Len(v) : k < l /\ OfData(v[k], i) /\ OfData(v[l], i) => v[k].n < v[l].n
    <3> TAKE k, l \in 1..Len(v)
    <3> HAVE k < l /\ OfData(v[k], i) /\ OfData(v[l], i)
    <3>1. /\ k + 1 \in 1..Len(w) /\ v[k] = w[k + 1]
          /\ l + 1 \in 1..Len(w) /\ v[l] = w[l + 1] /\ k + 1 < l + 1
      BY <1>1, <1>3
    <3> QED BY <1>5, <3>1 DEF Feed
  <2>6. ASSUME NEW m \in (lo + 1 + 1)..hi PROVE \E k \in 1..Len(v) : OfData(v[k], i) /\ v[k].n = m
    <3>1. m \in (lo + 1)..hi /\ m # n
      BY <2>3
    <3>2. PICK k \in 1..Len(w) : OfData(w[k], i) /\ w[k].n = m
      BY <1>5, <3>1 DEF Feed
    <3> QED BY <1>0, <1>2, <3>1, <3>2
  <2> QED BY <2>1, <2>3, <2>4, <2>5, <2>6 DEF Feed
<1>6. Ends(w, i) => Ends(v, i)
  BY <1>1, <1>3 DEF Ends
<1>7. OneOpen(w, i) => OneOpen(v, i)
  <2> SUFFICES ASSUME OneOpen(w, i), NEW j \in 1..Len(v), NEW l \in 1..Len(v),
                      v[j].kind = "open", v[j].id = i, v[l].kind = "open", v[l].id = i
               PROVE  j = l
    BY Zenon DEF OneOpen
  <2>1. j + 1 \in 1..Len(w) /\ v[j] = w[j + 1] /\ l + 1 \in 1..Len(w) /\ v[l] = w[l + 1]
    BY <1>1, <1>3
  <2>2. j + 1 = l + 1
    BY <2>1, Zenon DEF OneOpen
  <2> QED BY <2>2
<1>8. ~NoData(w, i)
  BY <1>0 DEF NoData
<1> QED BY <1>0, <1>4, <1>5, <1>6, <1>7, <1>8 DEF Eats, v, n

(* A stream without chunks on the wire has had all of them.                *)
LEMMA FeedIsOver ==
  ASSUME NEW w, NEW i, NEW lo \in Nat, NEW hi \in Nat, NoData(w, i)
  PROVE  Feed(w, i, lo, hi) <=> lo = hi
<1>1. ASSUME Feed(w, i, lo, hi), lo < hi PROVE FALSE
  BY <1>1, lo + 1 \in (lo + 1)..hi DEF Feed, NoData
<1>2. ASSUME lo = hi PROVE Feed(w, i, lo, hi)
  BY <1>2 DEF Feed, NoData
<1> QED BY <1>1, <1>2 DEF Feed

(* The two ends of a channel: what is queued is the next to come, and the  *)
(* first that is queued is the next to be received.                        *)
LEMMA ChannelQueues ==
  ASSUME NEW r \in Seq(Nat), NEW q \in Seq(Nat), Chained(r, q)
  PROVE  /\ Chained(r, Append(q, Len(r) + Len(q) + 1))
         /\ Len(Append(q, Len(r) + Len(q) + 1)) = Len(q) + 1
         /\ Append(q, Len(r) + Len(q) + 1) \in Seq(Nat)
         /\ Len(r) + Len(Append(q, Len(r) + Len(q) + 1)) = Len(r) + Len(q) + 1
<1> DEFINE n == Len(r) + Len(q) + 1
           p == Append(q, n)
<1>1. n \in Nat /\ Len(r) \in Nat /\ Len(q) \in Nat /\ n = Len(r) + (Len(q) + 1)
  OBVIOUS
<1>2. p \in Seq(Nat) /\ Len(p) = Len(q) + 1 /\ p[Len(q) + 1] = n /\ \A k \in 1..Len(q) : p[k] = q[k]
  BY <1>1
<1> HIDE DEF n, p
<1>3. \A k \in 1..Len(p) : k \in 1..Len(q) \/ k = Len(q) + 1
  BY <1>1, <1>2
<1>4. \A k \in 1..Len(p) : p[k] = Len(r) + k
  BY <1>1, <1>2, <1>3, Zenon DEF Chained
<1>5. Len(r) + Len(p) = Len(r) + Len(q) + 1
  BY <1>1, <1>2
<1> QED BY <1>2, <1>4, <1>5 DEF Chained, n, p

LEMMA ChannelDelivers ==
  ASSUME NEW r \in Seq(Nat), NEW q \in Seq(Nat), Chained(r, q), q # <<>>
  PROVE  /\ Chained(Append(r, Head(q)), Tail(q))
         /\ Len(Append(r, Head(q))) + Len(Tail(q)) = Len(r) + Len(q)
<1>1. Head(q) = Len(r) + 1 /\ Len(q) >= 1
  BY DEF Chained
<1>2. Len(Append(r, Head(q))) = Len(r) + 1 /\ Len(Tail(q)) = Len(q) - 1
  OBVIOUS
<1>3. \A k \in 1..Len(Tail(q)) : Tail(q)[k] = q[k + 1] /\ k + 1 \in 1..Len(q)
  BY <1>1
<1>4. IsPrefixOfAll(Append(r, Head(q)))
  BY <1>1 DEF Chained, IsPrefixOfAll
<1>5. \A k \in 1..Len(Tail(q)) : Tail(q)[k] = Len(Append(r, Head(q))) + k
  BY <1>2, <1>3 DEF Chained
<1> QED BY <1>2, <1>4, <1>5 DEF Chained

(* The frames that the two sides send, and the room they wait for.         *)
LEMMA Sent ==
  ASSUME BridgeTypeOK, NEW f \in Frames
  PROVE  /\ SendUp(f) /\ conn' = conn /\ setup' = setup => up' \in Seq(Frames) /\ Len(up') <= WireSize'
         /\ SendDown(f) /\ conn' = conn /\ setup' = setup => down' \in Seq(Frames) /\ Len(down') <= WireSize'
<1>1. setup.wire \in Nat
  BY SetupsAssumption DEF BridgeTypeOK
<1>2. /\ up \in Seq(Frames) /\ Len(up) <= setup.wire
      /\ down \in Seq(Frames) /\ Len(down) <= setup.wire
  BY DEF BridgeTypeOK, WireSize
<1>3. \A w \in Seq(Frames) : Append(w, f) \in Seq(Frames) /\ Len(Append(w, f)) = Len(w) + 1 /\ Len(w) \in Nat
  BY Appended
<1>4. ASSUME SendUp(f), conn' = conn, setup' = setup PROVE up' \in Seq(Frames) /\ Len(up') <= setup.wire
  <2>1. CASE conn = "up"
    BY <1>1, <1>2, <1>3, <1>4, <2>1 DEF SendUp, WireSize
  <2>2. CASE conn # "up"
    BY <1>2, <1>4, <2>2 DEF SendUp
  <2> QED BY <2>1, <2>2
<1>5. ASSUME SendDown(f), conn' = conn, setup' = setup PROVE down' \in Seq(Frames) /\ Len(down') <= setup.wire
  <2>1. CASE conn = "up"
    BY <1>1, <1>2, <1>3, <1>5, <2>1 DEF SendDown, WireSize
  <2>2. CASE conn # "up"
    BY <1>2, <1>5, <2>2 DEF SendDown
  <2> QED BY <2>1, <2>2
<1> QED BY <1>4, <1>5 DEF WireSize

LEMMA FramesAreFrames ==
  ASSUME NEW i \in StreamIds
  PROVE  /\ \A k \in Kinds : Frame(k, i) \in Frames /\ Frame(k, i).id = i
         /\ \A n \in Nat : Data(i, n) \in Frames /\ Data(i, n).id = i
  BY DEF Frame, Data, Frames, Kinds

(* What a wire loses at its head.                                          *)
LEMMA Read ==
  ASSUME BridgeTypeOK, setup' = setup
  PROVE  /\ down # <<>> /\ down' = Tail(down) => down' \in Seq(Frames) /\ Len(down') <= WireSize' /\ Head(down).id \in StreamIds
         /\ up # <<>> /\ up' = Tail(up) => up' \in Seq(Frames) /\ Len(up') <= WireSize' /\ Head(up).id \in StreamIds
<1>1. setup.wire \in Nat
  BY SetupsAssumption DEF BridgeTypeOK
<1>2. \A f \in Frames : f.id \in StreamIds
  BY DEF Frames
<1>3. \A w \in Seq(Frames) : w # <<>> =>
        Tail(w) \in Seq(Frames) /\ Len(Tail(w)) = Len(w) - 1 /\ Len(w) \in Nat /\ Head(w) \in Frames
  BY TakenOff
<1>4. /\ up \in Seq(Frames) /\ Len(up) <= setup.wire
      /\ down \in Seq(Frames) /\ Len(down) <= setup.wire
  BY DEF BridgeTypeOK, WireSize
<1>5. ASSUME down # <<>>, down' = Tail(down)
      PROVE  down' \in Seq(Frames) /\ Len(down') <= setup.wire /\ Head(down).id \in StreamIds
  BY <1>1, <1>2, <1>3, <1>4, <1>5
<1>6. ASSUME up # <<>>, up' = Tail(up)
      PROVE  up' \in Seq(Frames) /\ Len(up') <= setup.wire /\ Head(up).id \in StreamIds
  BY <1>1, <1>2, <1>3, <1>4, <1>6
<1> QED BY <1>5, <1>6 DEF WireSize

(* The type invariant in parts: what a step leaves alone keeps its type.   *)
WireTypes ==
  /\ setup \in Setups /\ conn \in {"up", "drain", "clear", "abort", "down"}
  /\ up \in Seq(Frames) /\ Len(up) <= WireSize /\ down \in Seq(Frames) /\ Len(down) <= WireSize
  /\ stuck \subseteq StreamIds /\ rstuck \subseteq StreamIds /\ cut \subseteq StreamIds
TableTypes ==
  /\ pc \in [StreamIds -> LocalPCs] /\ pending \subseteq StreamIds /\ lstreams \subseteq StreamIds
  /\ result \in [StreamIds -> {"none", "ok", "err"}]
  /\ rpc \in [StreamIds -> RemotePCs] /\ rstreams \subseteq StreamIds
  /\ eof \in [StreamIds -> BOOLEAN] /\ teof \in [StreamIds -> BOOLEAN]
ChunkTypes ==
  /\ lchan \in [StreamIds -> Seq(Nat)] /\ rchan \in [StreamIds -> Seq(Nat)]
  /\ got \in [StreamIds -> Seq(Nat)] /\ tgot \in [StreamIds -> Seq(Nat)]
  /\ sent \in [StreamIds -> Nat] /\ tsent \in [StreamIds -> Nat]
  /\ \A i \in StreamIds : /\ Len(lchan[i]) <= ChanSize /\ Len(rchan[i]) <= ChanSize
                          /\ sent[i] <= ClientChunks /\ tsent[i] <= TargetChunks

LEMMA TypesFromParts == WireTypes' /\ TableTypes' /\ ChunkTypes' => BridgeTypeOK'
  BY DEF BridgeTypeOK, WireTypes, TableTypes, ChunkTypes

LEMMA TypesInParts == BridgeTypeOK <=> WireTypes /\ TableTypes /\ ChunkTypes
  BY Zenon DEF BridgeTypeOK, WireTypes, TableTypes, ChunkTypes

(* The channel of a stream: one chunk more, or one less.                   *)
LEMMA ChannelTypes ==
  ASSUME NEW q \in Seq(Nat)
  PROVE  /\ Len(q) \in Nat
         /\ \A n \in Nat : Append(q, n) \in Seq(Nat) /\ Len(Append(q, n)) = Len(q) + 1
         /\ q # <<>> => Head(q) \in Nat /\ Tail(q) \in Seq(Nat) /\ Len(Tail(q)) = Len(q) - 1
  OBVIOUS

(* open_tcp keeps the types.                                            *)
LEMMA OpenTypes ==
  ASSUME BridgeTypeOK, NEW i \in StreamIds, OpenStep(i)
  PROVE  BridgeTypeOK'
<1>0. /\ WireTypes /\ TableTypes /\ ChunkTypes
      /\ setup.chan \in Nat /\ setup.wire \in Nat /\ setup.clientChunks \in Nat /\ setup.targetChunks \in Nat
  BY TypesInParts, SetupsAssumption, Zenon DEF WireTypes
<1>1. CASE OpenPending(i)
  BY <1>0, <1>1, TypesFromParts, Zenon DEF WireTypes, TableTypes, ChunkTypes, OpenPending, Goes, wires, readers, remotes, clients, targets, WireSize, LocalPCs, RemotePCs, ChanSize, ClientChunks, TargetChunks
<1>2. CASE OpenRegister(i)
  BY <1>0, <1>2, TypesFromParts, Zenon DEF WireTypes, TableTypes, ChunkTypes, OpenRegister, Goes, wires, readers, remotes, clients, targets, WireSize, LocalPCs, RemotePCs, ChanSize, ClientChunks, TargetChunks
<1>3. CASE OpenSend(i)
  BY <1>0, <1>3, FramesAreFrames, Sent, TypesFromParts, Zenon DEF WireTypes, TableTypes, ChunkTypes, OpenSend, Goes, readers, remotes, clients, targets, Kinds, SendUpFails, WireSize, LocalPCs, RemotePCs, ChanSize, ClientChunks, TargetChunks
<1>4. CASE OpenResult(i)
  BY <1>0, <1>4, TypesFromParts, Zenon DEF WireTypes, TableTypes, ChunkTypes, OpenResult, Goes, wires, remotes, clients, targets, WireSize, LocalPCs, RemotePCs, ChanSize, ClientChunks, TargetChunks
<1>5. CASE OpenTimeout(i)
  BY <1>0, <1>5, TypesFromParts, Zenon DEF WireTypes, TableTypes, ChunkTypes, OpenTimeout, Goes, wires, remotes, clients, targets, WireSize, LocalPCs, RemotePCs, ChanSize, ClientChunks, TargetChunks
<1>6. CASE OpenUndo(i)
  BY <1>0, <1>6, TypesFromParts, Zenon DEF WireTypes, TableTypes, ChunkTypes, OpenUndo, Goes, wires, readers, remotes, clients, targets, WireSize, LocalPCs, RemotePCs, ChanSize, ClientChunks, TargetChunks
<1> QED BY <1>1, <1>2, <1>3, <1>4, <1>5, <1>6, Zenon DEF OpenStep

(* relay_spx_tcp keeps the types.                                       *)
LEMMA RelayTypes ==
  ASSUME BridgeTypeOK, NEW i \in StreamIds, 
         \/ ClientSend(i) \/ ClientEnds(i) \/ ClientReceives(i) \/ ClientShutdown(i) \/ RelayClose(i)
  PROVE  BridgeTypeOK'
<1>0. /\ WireTypes /\ TableTypes /\ ChunkTypes
      /\ setup.chan \in Nat /\ setup.wire \in Nat /\ setup.clientChunks \in Nat /\ setup.targetChunks \in Nat
  BY TypesInParts, SetupsAssumption, Zenon DEF WireTypes
<1>1. CASE ClientSend(i)
  <2>1. WireTypes'
    BY <1>0, <1>1, FramesAreFrames, Sent, SMTT(30) DEF WireTypes, TableTypes, ChunkTypes, ClientSend, Goes, readers, remotes, targets, Kinds, SendUpFails, WireSize
  <2>2. TableTypes'
    BY <1>0, <1>1, Zenon DEF TableTypes, LocalPCs, RemotePCs, ClientSend, Goes, readers, remotes, targets
  <2>3. ChunkTypes'
    <3>1. sent[i] \in Nat /\ sent[i] + 1 <= setup.clientChunks
      BY <1>0, <1>1, SMT DEF ChunkTypes, ClientChunks, ClientSend
    <3>2. sent' \in [StreamIds -> Nat] /\ \A j \in StreamIds : sent'[j] <= setup.clientChunks
      <4>1. sent' = [sent EXCEPT ![i] = sent[i] + 1] \/ sent' = sent
        BY <1>1, Zenon DEF ClientSend
      <4>2. sent \in [StreamIds -> Nat] /\ \A j \in StreamIds : sent[j] <= setup.clientChunks
        BY <1>0, Zenon DEF ChunkTypes, ClientChunks
      <4> QED BY <3>1, <4>1, <4>2
    <3> QED BY <1>0, <1>1, <3>2, Zenon DEF ChunkTypes, ChanSize, ClientChunks, TargetChunks, ClientSend, readers, remotes, targets
  <2> QED BY <2>1, <2>2, <2>3, TypesFromParts
<1>2. CASE ClientEnds(i)
  BY <1>0, <1>2, TypesFromParts, Zenon DEF WireTypes, TableTypes, ChunkTypes, ClientEnds, Goes, wires, readers, remotes, clients, targets, WireSize, LocalPCs, RemotePCs, ChanSize, ClientChunks, TargetChunks
<1>3. CASE ClientReceives(i)
  <2>1. WireTypes'
    BY <1>0, <1>3, TypesInParts, Zenon DEF WireTypes, TableTypes, ChunkTypes, ClientReceives, wires, readers, remotes, targets, WireSize
  <2>2. TableTypes'
    BY <1>0, <1>3, Zenon DEF TableTypes, LocalPCs, RemotePCs, ClientReceives, wires, readers, remotes, targets
  <2>3. ChunkTypes'
    <3>1. /\ lchan[i] \in Seq(Nat) /\ lchan[i] # <<>> /\ got[i] \in Seq(Nat) /\ Len(lchan[i]) <= setup.chan
      BY <1>0, <1>3, Zenon DEF ChunkTypes, ChanSize, ClientReceives
    <3>2. /\ Append(got[i], Head(lchan[i])) \in Seq(Nat) /\ Tail(lchan[i]) \in Seq(Nat) /\ Len(Tail(lchan[i])) <= setup.chan
      BY <1>0, <3>1, ChannelTypes
    <3> QED BY <1>0, <1>3, <3>2, Zenon DEF ChunkTypes, ChanSize, ClientChunks, TargetChunks, ClientReceives, wires, readers, remotes, targets
  <2> QED BY <2>1, <2>2, <2>3, TypesFromParts
<1>4. CASE ClientShutdown(i)
  BY <1>0, <1>4, TypesFromParts, Zenon DEF WireTypes, TableTypes, ChunkTypes, ClientShutdown, Goes, wires, readers, remotes, targets, WireSize, LocalPCs, RemotePCs, ChanSize, ClientChunks, TargetChunks
<1>5. CASE RelayClose(i)
  BY <1>0, <1>5, FramesAreFrames, Sent, TypesFromParts, Zenon DEF WireTypes, TableTypes, ChunkTypes, RelayClose, Goes, readers, remotes, clients, targets, Kinds, SendUpFails, WireSize, LocalPCs, RemotePCs, ChanSize, ClientChunks, TargetChunks
<1> QED BY <1>1, <1>2, <1>3, <1>4, <1>5

(* reader_loop, and the loss of the connection keeps the types.         *)
LEMMA ReaderTypes ==
  ASSUME BridgeTypeOK, Reader \/ Break \/ Lifecycle
  PROVE  BridgeTypeOK'
<1>0. /\ WireTypes /\ TableTypes /\ ChunkTypes
      /\ setup.chan \in Nat /\ setup.wire \in Nat /\ setup.clientChunks \in Nat /\ setup.targetChunks \in Nat
  BY TypesInParts, SetupsAssumption, Zenon DEF WireTypes
<1>1. CASE ReadResult
  BY <1>0, <1>1, Read, TypesFromParts, Zenon DEF WireTypes, TableTypes, ChunkTypes, ReadResult, Reads, readers, remotes, clients, targets, WireSize, LocalPCs, RemotePCs, ChanSize, ClientChunks, TargetChunks
<1>2. CASE ReadData
  <2>1. WireTypes'
    BY <1>0, <1>2, Read, Zenon DEF WireTypes, TableTypes, ChunkTypes, ReadData, Reads, readers, remotes, clients, targets, WireSize
  <2>2. TableTypes'
    BY <1>0, <1>2, Read, Zenon DEF TableTypes, LocalPCs, RemotePCs, ReadData, Reads, readers, remotes, clients, targets
  <2>3. ChunkTypes'
    <3> DEFINE i == Head(down).id
    <3>1. i \in StreamIds /\ Head(down).n \in Nat
      BY <1>0, <1>2, Read, ChunkTakenOff, Zenon DEF WireTypes, ReadData, Reads
    <3>2. ASSUME Len(lchan[i]) < setup.chan
          PROVE  Append(lchan[i], Head(down).n) \in Seq(Nat) /\ Len(Append(lchan[i], Head(down).n)) <= setup.chan
      BY <1>0, <3>1, <3>2, ChannelTypes, SMT DEF ChunkTypes
    <3> QED BY <1>0, <1>2, <3>1, <3>2, Zenon DEF ChunkTypes, ChanSize, ClientChunks, TargetChunks, ReadData, Reads, readers, remotes, clients, targets
  <2> QED BY <2>1, <2>2, <2>3, TypesFromParts
<1>3. CASE ReadDataTimeout
  BY <1>0, <1>3, Read, TypesFromParts, Zenon DEF WireTypes, TableTypes, ChunkTypes, ReadDataTimeout, Reads, remotes, clients, targets, WireSize, LocalPCs, RemotePCs, ChanSize, ClientChunks, TargetChunks
<1>4. CASE ReadDataGivesUp
  BY <1>0, <1>4, FramesAreFrames, Sent, TypesFromParts, Zenon DEF WireTypes, TableTypes, ChunkTypes, ReadDataGivesUp, locals, remotes, clients, targets, Kinds, WireSize, LocalPCs, RemotePCs, ChanSize, ClientChunks, TargetChunks
<1>5. CASE ReadClose
  BY <1>0, <1>5, Read, TypesFromParts, Zenon DEF WireTypes, TableTypes, ChunkTypes, ReadClose, Reads, readers, remotes, clients, targets, WireSize, LocalPCs, RemotePCs, ChanSize, ClientChunks, TargetChunks
<1>6. CASE Break
  BY <1>0, <1>6, TypesFromParts, SMT DEF WireTypes, TableTypes, ChunkTypes, Break, locals, remotes, clients, targets, WireSize, LocalPCs, RemotePCs, ChanSize, ClientChunks, TargetChunks
<1>7. CASE Lifecycle
  BY <1>0, <1>7, TypesFromParts, Zenon DEF WireTypes, TableTypes, ChunkTypes, Lifecycle, wires, readers, remotes, clients, targets, WireSize, LocalPCs, RemotePCs, ChanSize, ClientChunks, TargetChunks
<1> QED BY <1>1, <1>2, <1>3, <1>4, <1>5, <1>6, <1>7, Zenon DEF Reader

(* run_transport_with_egress_proxy keeps the types.                     *)
LEMMA RemoteReaderTypes ==
  ASSUME BridgeTypeOK, RemoteReader
  PROVE  BridgeTypeOK'
<1>0. /\ WireTypes /\ TableTypes /\ ChunkTypes
      /\ setup.chan \in Nat /\ setup.wire \in Nat /\ setup.clientChunks \in Nat /\ setup.targetChunks \in Nat
  BY TypesInParts, SetupsAssumption, Zenon DEF WireTypes
<1>1. CASE RemoteReadOpen
  BY <1>0, <1>1, Read, TypesFromParts, Zenon DEF WireTypes, TableTypes, ChunkTypes, RemoteReadOpen, RReads, RGoes, readers, locals, clients, targets, WireSize, LocalPCs, RemotePCs, ChanSize, ClientChunks, TargetChunks
<1>2. CASE RemoteReadData
  <2>1. WireTypes'
    BY <1>0, <1>2, Read, Zenon DEF WireTypes, TableTypes, ChunkTypes, RemoteReadData, RReads, readers, locals, clients, targets, WireSize
  <2>2. TableTypes'
    BY <1>0, <1>2, Read, Zenon DEF TableTypes, LocalPCs, RemotePCs, RemoteReadData, RReads, readers, locals, clients, targets
  <2>3. ChunkTypes'
    <3> DEFINE i == Head(up).id
    <3>1. i \in StreamIds /\ Head(up).n \in Nat
      BY <1>0, <1>2, Read, ChunkTakenOff, Zenon DEF WireTypes, RemoteReadData, RReads
    <3>2. ASSUME Len(rchan[i]) < setup.chan
          PROVE  Append(rchan[i], Head(up).n) \in Seq(Nat) /\ Len(Append(rchan[i], Head(up).n)) <= setup.chan
      BY <1>0, <3>1, <3>2, ChannelTypes, SMT DEF ChunkTypes
    <3> QED BY <1>0, <1>2, <3>1, <3>2, Zenon DEF ChunkTypes, ChanSize, ClientChunks, TargetChunks, RemoteReadData, RReads, readers, locals, clients, targets
  <2> QED BY <2>1, <2>2, <2>3, TypesFromParts
<1>3. CASE RemoteReadDataTimeout
  BY <1>0, <1>3, Read, TypesFromParts, Zenon DEF WireTypes, TableTypes, ChunkTypes, RemoteReadDataTimeout, RReads, locals, clients, targets, WireSize, LocalPCs, RemotePCs, ChanSize, ClientChunks, TargetChunks
<1>4. CASE RemoteReadDataGivesUp
  BY <1>0, <1>4, FramesAreFrames, Sent, TypesFromParts, Zenon DEF WireTypes, TableTypes, ChunkTypes, RemoteReadDataGivesUp, locals, remotes, clients, targets, Kinds, WireSize, LocalPCs, RemotePCs, ChanSize, ClientChunks, TargetChunks
<1>5. CASE RemoteReadClose
  BY <1>0, <1>5, Read, TypesFromParts, Zenon DEF WireTypes, TableTypes, ChunkTypes, RemoteReadClose, RReads, readers, locals, clients, targets, WireSize, LocalPCs, RemotePCs, ChanSize, ClientChunks, TargetChunks
<1> QED BY <1>1, <1>2, <1>3, <1>4, <1>5, Zenon DEF RemoteReader

(* handle_open_tcp keeps the types.                                     *)
LEMMA TargetTypes ==
  ASSUME BridgeTypeOK, NEW i \in StreamIds, 
         \/ RemoteStep(i) \/ TargetSends(i) \/ TargetEnds(i) \/ TargetReceives(i)
  PROVE  BridgeTypeOK'
<1>0. /\ WireTypes /\ TableTypes /\ ChunkTypes
      /\ setup.chan \in Nat /\ setup.wire \in Nat /\ setup.clientChunks \in Nat /\ setup.targetChunks \in Nat
  BY TypesInParts, SetupsAssumption, Zenon DEF WireTypes
<1>1. CASE Connect(i)
  BY <1>0, <1>1, TypesFromParts, Zenon DEF WireTypes, TableTypes, ChunkTypes, Connect, RGoes, wires, readers, locals, clients, targets, WireSize, LocalPCs, RemotePCs, ChanSize, ClientChunks, TargetChunks
<1>2. CASE SendResult(i)
  BY <1>0, <1>2, FramesAreFrames, Sent, TypesFromParts, Zenon DEF WireTypes, TableTypes, ChunkTypes, SendResult, RGoes, readers, locals, clients, targets, Kinds, WireSize, LocalPCs, RemotePCs, ChanSize, ClientChunks, TargetChunks
<1>3. CASE TargetShutdown(i)
  BY <1>0, <1>3, TypesFromParts, Zenon DEF WireTypes, TableTypes, ChunkTypes, TargetShutdown, RGoes, wires, readers, locals, clients, WireSize, LocalPCs, RemotePCs, ChanSize, ClientChunks, TargetChunks
<1>4. CASE RemoteClose(i)
  BY <1>0, <1>4, FramesAreFrames, Sent, TypesFromParts, Zenon DEF WireTypes, TableTypes, ChunkTypes, RemoteClose, RGoes, readers, locals, clients, targets, Kinds, WireSize, LocalPCs, RemotePCs, ChanSize, ClientChunks, TargetChunks
<1>5. CASE TargetSends(i)
  <2>1. WireTypes'
    BY <1>0, <1>5, FramesAreFrames, Sent, SMT DEF WireTypes, TableTypes, ChunkTypes, TargetSends, readers, locals, remotes, clients, Kinds, WireSize
  <2>2. TableTypes'
    BY <1>0, <1>5, Zenon DEF TableTypes, LocalPCs, RemotePCs, TargetSends, readers, locals, remotes, clients
  <2>3. ChunkTypes'
    <3>1. tsent[i] \in Nat /\ tsent[i] + 1 <= setup.targetChunks
      BY <1>0, <1>5, SMT DEF ChunkTypes, TargetChunks, TargetSends
    <3>2. tsent' \in [StreamIds -> Nat] /\ \A j \in StreamIds : tsent'[j] <= setup.targetChunks
      <4>1. tsent' = [tsent EXCEPT ![i] = tsent[i] + 1]
        BY <1>5, Zenon DEF TargetSends
      <4>2. tsent \in [StreamIds -> Nat] /\ \A j \in StreamIds : tsent[j] <= setup.targetChunks
        BY <1>0, Zenon DEF ChunkTypes, TargetChunks
      <4> QED BY <3>1, <4>1, <4>2
    <3> QED BY <1>0, <1>5, <3>2, Zenon DEF ChunkTypes, ChanSize, ClientChunks, TargetChunks, TargetSends, readers, locals, remotes, clients
  <2> QED BY <2>1, <2>2, <2>3, TypesFromParts
<1>6. CASE TargetEnds(i)
  BY <1>0, <1>6, TypesFromParts, Zenon DEF WireTypes, TableTypes, ChunkTypes, TargetEnds, RGoes, wires, readers, locals, clients, targets, WireSize, LocalPCs, RemotePCs, ChanSize, ClientChunks, TargetChunks
<1>7. CASE TargetReceives(i)
  <2>1. WireTypes'
    BY <1>0, <1>7, TypesInParts, Zenon DEF WireTypes, TableTypes, ChunkTypes, TargetReceives, wires, readers, locals, clients, WireSize
  <2>2. TableTypes'
    BY <1>0, <1>7, Zenon DEF TableTypes, LocalPCs, RemotePCs, TargetReceives, wires, readers, locals, clients
  <2>3. ChunkTypes'
    <3>1. /\ rchan[i] \in Seq(Nat) /\ rchan[i] # <<>> /\ tgot[i] \in Seq(Nat) /\ Len(rchan[i]) <= setup.chan
      BY <1>0, <1>7, Zenon DEF ChunkTypes, ChanSize, TargetReceives
    <3>2. /\ Append(tgot[i], Head(rchan[i])) \in Seq(Nat) /\ Tail(rchan[i]) \in Seq(Nat) /\ Len(Tail(rchan[i])) <= setup.chan
      BY <1>0, <3>1, ChannelTypes
    <3> QED BY <1>0, <1>7, <3>2, Zenon DEF ChunkTypes, ChanSize, ClientChunks, TargetChunks, TargetReceives, wires, readers, locals, clients
  <2> QED BY <2>1, <2>2, <2>3, TypesFromParts
<1> QED BY <1>1, <1>2, <1>3, <1>4, <1>5, <1>6, <1>7, Zenon DEF RemoteStep

-----------------------------------------------------------------------------
(* A step that leaves stream i alone: its row in every table, and its      *)
(* frames.                                                                 *)
Still(i) ==
  /\ conn' = conn /\ pc'[i] = pc[i] /\ result'[i] = result[i] /\ rpc'[i] = rpc[i]
  /\ lchan'[i] = lchan[i] /\ rchan'[i] = rchan[i] /\ sent'[i] = sent[i] /\ tsent'[i] = tsent[i]
  /\ got'[i] = got[i] /\ tgot'[i] = tgot[i] /\ eof'[i] = eof[i] /\ teof'[i] = teof[i]
  /\ (i \in pending') <=> (i \in pending)
  /\ (i \in lstreams') <=> (i \in lstreams)
  /\ (i \in rstreams') <=> (i \in rstreams)
  /\ (i \in cut') <=> (i \in cut)
  /\ (i \in stuck' => i \in stuck) /\ (i \in rstuck' => i \in rstuck)
Apart(i) == Still(i) /\ SameFrames(up, up', i) /\ SameFrames(down, down', i)

(* The numbers of a stream are numbers.                                    *)
LEMMA Numbers ==
  ASSUME BridgeTypeOK, NEW i \in StreamIds
  PROVE  /\ Taken(i) \in Nat /\ TTaken(i) \in Nat /\ sent[i] \in Nat /\ tsent[i] \in Nat
         /\ Len(got[i]) \in Nat /\ Len(lchan[i]) \in Nat /\ Len(tgot[i]) \in Nat /\ Len(rchan[i]) \in Nat
  BY SMT DEF BridgeTypeOK, Taken, TTaken

(* What holds of a stream holds on, when the step is another stream's.     *)
LEMMA ApartKeeps ==
  ASSUME BridgeTypeOK, NEW i \in StreamIds, Stream(i), Apart(i)
  PROVE  Stream(i)'
<1>0. /\ Taken(i) \in Nat /\ TTaken(i) \in Nat /\ sent[i] \in Nat /\ tsent[i] \in Nat
      /\ Taken(i)' = Taken(i) /\ TTaken(i)' = TTaken(i)
      /\ LocalListens(i)' = LocalListens(i) /\ RListens(i)' = RListens(i)
  BY Numbers, Zenon DEF Apart, Still, Taken, TTaken, LocalListens, RListens
<1>1. Progress(i)'
  BY Zenon DEF Stream, Apart, Still, Progress
<1>2. ASSUME conn = "up" PROVE OnWires(i)'
  BY <1>0, <1>2, Zenon DEF Stream, Apart, Still, OnWires, SameFrames, Kinds
<1>3. ASSUME conn = "up", i \notin cut PROVE Closing(i)'
  BY <1>0, <1>3, Zenon DEF Stream, Apart, Still, Closing, SameFrames, Kinds
<1>4. ASSUME conn = "up", i \notin cut PROVE Agreement(i)'
  BY <1>0, <1>4, Zenon DEF Stream, Apart, Still, Agreement, SameFrames, Kinds
<1> QED BY <1>1, <1>2, <1>3, <1>4, Zenon DEF Stream, Apart, Still

(* The effect of a frame on its own stream, and on the others.             *)
LEMMA SentUp ==
  ASSUME BridgeTypeOK, NEW a \in StreamIds
  PROVE  /\ \A k \in Kinds : SendUp(Frame(k, a)) \/ SendUpFails =>
              /\ conn = "up" => Adds(up, up', k, a)
              /\ \A i \in StreamIds \ {a} : SameFrames(up, up', i)
         /\ \A n \in Nat : SendUp(Data(a, n + 1)) \/ SendUpFails =>
              /\ conn = "up" => /\ Feeds(up, up', a)
                                /\ \A lo \in Nat : Feed(up, a, lo, n) => Feed(up', a, lo, n + 1)
              /\ \A i \in StreamIds \ {a} : SameFrames(up, up', i)
<1>0. up \in Seq(Frames)
  BY Zenon DEF BridgeTypeOK
<1>1. ASSUME NEW k \in Kinds, SendUp(Frame(k, a)) \/ SendUpFails
      PROVE  /\ conn = "up" => Adds(up, up', k, a)
             /\ \A i \in StreamIds \ {a} : SameFrames(up, up', i)
  <2>1. CASE up' = Append(up, Frame(k, a))
    BY <1>0, <2>1, FrameAppended, OthersAppended, FramesAreFrames
  <2>2. CASE conn # "up" /\ up' = up
    BY <2>2, WireStays
  <2> QED BY <1>1, <2>1, <2>2, Zenon DEF SendUp, SendUpFails
<1>2. ASSUME NEW n \in Nat, SendUp(Data(a, n + 1)) \/ SendUpFails
      PROVE  /\ conn = "up" => /\ Feeds(up, up', a)
                               /\ \A lo \in Nat : Feed(up, a, lo, n) => Feed(up', a, lo, n + 1)
             /\ \A i \in StreamIds \ {a} : SameFrames(up, up', i)
  <2>1. CASE up' = Append(up, Data(a, n + 1))
    <3>1. /\ Feeds(up, up', a)
          /\ \A lo \in Nat : Feed(up, a, lo, n) => Feed(up', a, lo, n + 1)
      BY <1>0, <2>1, ChunkAppended, Zenon
    <3>2. Data(a, n + 1) \in Frames /\ Data(a, n + 1).id = a
      BY FramesAreFrames
    <3>3. \A i \in StreamIds \ {a} : SameFrames(up, up', i)
      BY <1>0, <2>1, <3>2, OthersAppended
    <3> QED BY <3>1, <3>3
  <2>2. CASE conn # "up" /\ up' = up
    BY <2>2, WireStays
  <2> QED BY <1>2, <2>1, <2>2, Zenon DEF SendUp, SendUpFails
<1> QED BY <1>1, <1>2

LEMMA SentDown ==
  ASSUME BridgeTypeOK, NEW a \in StreamIds
  PROVE  /\ \A k \in Kinds : SendDown(Frame(k, a)) =>
              /\ conn = "up" => Adds(down, down', k, a)
              /\ \A i \in StreamIds \ {a} : SameFrames(down, down', i)
         /\ \A n \in Nat : SendDown(Data(a, n + 1)) =>
              /\ conn = "up" => /\ Feeds(down, down', a)
                                /\ \A lo \in Nat : Feed(down, a, lo, n) => Feed(down', a, lo, n + 1)
              /\ \A i \in StreamIds \ {a} : SameFrames(down, down', i)
<1>0. down \in Seq(Frames)
  BY Zenon DEF BridgeTypeOK
<1>1. ASSUME NEW k \in Kinds, SendDown(Frame(k, a))
      PROVE  /\ conn = "up" => Adds(down, down', k, a)
             /\ \A i \in StreamIds \ {a} : SameFrames(down, down', i)
  <2>1. CASE down' = Append(down, Frame(k, a))
    BY <1>0, <2>1, FrameAppended, OthersAppended, FramesAreFrames
  <2>2. CASE conn # "up" /\ down' = down
    BY <2>2, WireStays
  <2> QED BY <1>1, <2>1, <2>2, Zenon DEF SendDown
<1>2. ASSUME NEW n \in Nat, SendDown(Data(a, n + 1))
      PROVE  /\ conn = "up" => /\ Feeds(down, down', a)
                               /\ \A lo \in Nat : Feed(down, a, lo, n) => Feed(down', a, lo, n + 1)
             /\ \A i \in StreamIds \ {a} : SameFrames(down, down', i)
  <2>1. CASE down' = Append(down, Data(a, n + 1))
    <3>1. /\ Feeds(down, down', a)
          /\ \A lo \in Nat : Feed(down, a, lo, n) => Feed(down', a, lo, n + 1)
      BY <1>0, <2>1, ChunkAppended, Zenon
    <3>2. Data(a, n + 1) \in Frames /\ Data(a, n + 1).id = a
      BY FramesAreFrames
    <3>3. \A i \in StreamIds \ {a} : SameFrames(down, down', i)
      BY <1>0, <2>1, <3>2, OthersAppended
    <3> QED BY <3>1, <3>3
  <2>2. CASE conn # "up" /\ down' = down
    BY <2>2, WireStays
  <2> QED BY <1>2, <2>1, <2>2, Zenon DEF SendDown
<1> QED BY <1>1, <1>2

LEMMA TookOff ==
  ASSUME NEW w \in Seq(Frames), w # <<>>
  PROVE  /\ Head(w).id \in StreamIds
         /\ \A k \in Kinds : Head(w).kind = k => Drops(w, Tail(w), k, Head(w).id)
         /\ Head(w).kind = "data" => Eats(w, Tail(w), Head(w).n, Head(w).id) /\ Head(w).n \in Nat
         /\ \A i \in StreamIds \ {Head(w).id} : SameFrames(w, Tail(w), i)
<1>1. Head(w).id \in StreamIds
  BY TakenOff, Zenon DEF Frames
<1> QED BY <1>1, FrameTakenOff, ChunkTakenOff, OthersTakenOff

(* open_tcp keeps what holds of its stream.                                *)
LEMMA OpenKeeps ==
  ASSUME BridgeTypeOK, NEW a \in StreamIds, Stream(a), OpenStep(a)
  PROVE  Stream(a)' /\ \A i \in StreamIds \ {a} : Apart(i)
<1>0. /\ TableTypes /\ ChunkTypes /\ Taken(a) \in Nat /\ TTaken(a) \in Nat /\ sent[a] \in Nat /\ tsent[a] \in Nat
      /\ Len(got[a]) \in Nat /\ Len(lchan[a]) \in Nat /\ Len(tgot[a]) \in Nat /\ Len(rchan[a]) \in Nat
  BY TypesInParts, Numbers
<1>1. CASE OpenPending(a)
  <2>1. up' = up /\ down' = down
    BY <1>0, <1>1, Zenon DEF OpenPending, wires
  <2>2. \A i \in StreamIds \ {a} : Apart(i)
    BY <1>0, <1>1, <2>1, WireStays, Zenon DEF TableTypes, ChunkTypes, Apart, Still, OpenPending, Goes, wires, readers, remotes, clients, targets
  <2>3. Stream(a)'
    BY <1>0, <1>1, <2>1, Zenon DEF TableTypes, ChunkTypes, Stream, Progress, OnWires, Closing, Agreement, Early, Live, Kinds, Taken, TTaken, LocalListens, RListens, OpenPending, Goes, wires, readers, remotes, clients, targets
  <2> QED BY <2>2, <2>3
<1>2. CASE OpenRegister(a)
  <2>1. up' = up /\ down' = down
    BY <1>0, <1>2, Zenon DEF OpenRegister, wires
  <2>2. \A i \in StreamIds \ {a} : Apart(i)
    BY <1>0, <1>2, <2>1, WireStays, Zenon DEF TableTypes, ChunkTypes, Apart, Still, OpenRegister, Goes, wires, readers, remotes, clients, targets
  <2>3. Stream(a)'
    <3>1. Progress(a)'
      BY <1>0, <1>2, <2>1, FeedIsOver, Zenon DEF TableTypes, ChunkTypes, Stream, Progress, Early, Live, Kinds, Taken, TTaken, LocalListens, RListens, OpenRegister, Goes, wires, readers, remotes, clients, targets
    <3>2. conn' = "up" => (pc'[a] = "send" => a \in lstreams') /\ OnWires(a)'
      BY <1>0, <1>2, <2>1, FeedIsOver, SMTT(30) DEF TableTypes, ChunkTypes, Stream, Progress, OnWires, Early, Live, Kinds, Taken, TTaken, LocalListens, RListens, OpenRegister, Goes, wires, readers, remotes, clients, targets
    <3>3. conn' = "up" /\ a \notin cut' => Closing(a)'
      BY <1>0, <1>2, <2>1, FeedIsOver, SMTT(30) DEF TableTypes, ChunkTypes, Stream, Progress, OnWires, Closing, Agreement, Early, Live, Kinds, Taken, TTaken, LocalListens, RListens, OpenRegister, Goes, wires, readers, remotes, clients, targets
    <3>4. conn' = "up" /\ a \notin cut' => Agreement(a)'
      BY <1>0, <1>2, <2>1, FeedIsOver, ZenonT(30) DEF TableTypes, ChunkTypes, Stream, Progress, OnWires, Closing, Agreement, Early, Live, Kinds, Taken, TTaken, LocalListens, RListens, OpenRegister, Goes, wires, readers, remotes, clients, targets
    <3> QED BY <3>1, <3>2, <3>3, <3>4, Zenon DEF Stream
  <2> QED BY <2>2, <2>3
<1>3. CASE OpenSend(a)
  <2>1. (conn = "up" => Adds(up, up', "open", a)) /\ down' = down /\ \A i \in StreamIds \ {a} : SameFrames(up, up', i)
    BY <1>0, <1>3, SentUp, Zenon DEF OpenSend, Kinds
  <2>2. \A i \in StreamIds \ {a} : Apart(i)
    <3>1. \A i \in StreamIds \ {a} : Still(i)
      BY <1>0, <1>3, Zenon DEF TableTypes, ChunkTypes, Still, OpenSend, Goes, readers, remotes, clients, targets
    <3> QED BY <2>1, <3>1, WireStays, Zenon DEF Apart
  <2>3. Stream(a)'
    BY <1>0, <1>3, <2>1, Zenon DEF TableTypes, ChunkTypes, Stream, Progress, OnWires, Closing, Agreement, Early, Live, Kinds, Taken, TTaken, LocalListens, RListens, OpenSend, Goes, readers, remotes, clients, targets, Adds, SendUpFails
  <2> QED BY <2>2, <2>3
<1>4. CASE OpenResult(a)
  <2>1. up' = up /\ down' = down
    BY <1>0, <1>4, Zenon DEF OpenResult, wires
  <2>2. \A i \in StreamIds \ {a} : Apart(i)
    <3>1. \A i \in StreamIds \ {a} : Still(i)
      BY <1>0, <1>4, Zenon DEF TableTypes, ChunkTypes, Still, OpenResult, Goes, wires, remotes, clients, targets
    <3> QED BY <2>1, <3>1, WireStays, Zenon DEF Apart
  <2>3. Stream(a)'
    BY <1>0, <1>4, <2>1, Zenon DEF TableTypes, ChunkTypes, Stream, Progress, OnWires, Closing, Agreement, Early, Live, Kinds, Taken, TTaken, LocalListens, RListens, OpenResult, Goes, wires, remotes, clients, targets
  <2> QED BY <2>2, <2>3
<1>5. CASE OpenTimeout(a)
  <2>1. up' = up /\ down' = down
    BY <1>0, <1>5, Zenon DEF OpenTimeout, wires
  <2>2. \A i \in StreamIds \ {a} : Apart(i)
    BY <1>0, <1>5, <2>1, WireStays, Zenon DEF TableTypes, ChunkTypes, Apart, Still, OpenTimeout, Goes, wires, remotes, clients, targets
  <2>3. Stream(a)'
    BY <1>0, <1>5, <2>1, Zenon DEF TableTypes, ChunkTypes, Stream, Progress, OnWires, Closing, Agreement, Early, Live, Kinds, Taken, TTaken, LocalListens, RListens, OpenTimeout, Goes, wires, remotes, clients, targets
  <2> QED BY <2>2, <2>3
<1>6. CASE OpenUndo(a)
  <2>1. up' = up /\ down' = down
    BY <1>0, <1>6, Zenon DEF OpenUndo, wires
  <2>2. \A i \in StreamIds \ {a} : Apart(i)
    BY <1>0, <1>6, <2>1, WireStays, Zenon DEF TableTypes, ChunkTypes, Apart, Still, OpenUndo, Goes, wires, readers, remotes, clients, targets
  <2>3. Stream(a)'
    BY <1>0, <1>6, <2>1, Zenon DEF TableTypes, ChunkTypes, Stream, Progress, OnWires, Closing, Agreement, Early, Live, Kinds, Taken, TTaken, LocalListens, RListens, OpenUndo, Goes, wires, readers, remotes, clients, targets
  <2> QED BY <2>2, <2>3
<1> QED BY <1>1, <1>2, <1>3, <1>4, <1>5, <1>6, Zenon DEF OpenStep

(* relay_spx_tcp keeps it.                                                 *)
LEMMA RelayKeeps ==
  ASSUME BridgeTypeOK, NEW a \in StreamIds, Stream(a), 
         ClientSend(a) \/ ClientEnds(a) \/ ClientReceives(a) \/ ClientShutdown(a) \/ RelayClose(a)
  PROVE  Stream(a)' /\ \A i \in StreamIds \ {a} : Apart(i)
<1>0. /\ TableTypes /\ ChunkTypes /\ Taken(a) \in Nat /\ TTaken(a) \in Nat /\ sent[a] \in Nat /\ tsent[a] \in Nat
      /\ Len(got[a]) \in Nat /\ Len(lchan[a]) \in Nat /\ Len(tgot[a]) \in Nat /\ Len(rchan[a]) \in Nat
  BY TypesInParts, Numbers
<1>1. CASE ClientSend(a)
  <2>1. /\ conn = "up" => /\ Feeds(up, up', a) /\ sent'[a] = sent[a] + 1 /\ pc' = pc
                           /\ \A lo \in Nat : Feed(up, a, lo, sent[a]) => Feed(up', a, lo, sent[a] + 1)
        /\ down' = down /\ \A i \in StreamIds \ {a} : SameFrames(up, up', i)
    BY <1>0, <1>1, SentUp, Zenon DEF ClientSend, ChunkTypes, SendUpFails
  <2>2. \A i \in StreamIds \ {a} : Apart(i)
    <3>1. \A i \in StreamIds \ {a} : Still(i)
      BY <1>0, <1>1, Zenon DEF TableTypes, ChunkTypes, Still, ClientSend, Goes, readers, remotes, targets
    <3> QED BY <2>1, <3>1, WireStays, Zenon DEF Apart
  <2>3. Stream(a)'
    BY <1>0, <1>1, <2>1, Zenon DEF TableTypes, ChunkTypes, Stream, Progress, OnWires, Closing, Agreement, Early, Live, Kinds, Taken, TTaken, LocalListens, RListens, ClientSend, Goes, readers, remotes, targets, Feeds
  <2> QED BY <2>2, <2>3
<1>2. CASE ClientEnds(a)
  <2>1. up' = up /\ down' = down
    BY <1>0, <1>2, Zenon DEF ClientEnds, wires
  <2>2. \A i \in StreamIds \ {a} : Apart(i)
    BY <1>0, <1>2, <2>1, WireStays, Zenon DEF TableTypes, ChunkTypes, Apart, Still, ClientEnds, Goes, wires, readers, remotes, clients, targets
  <2>3. Stream(a)'
    BY <1>0, <1>2, <2>1, Zenon DEF TableTypes, ChunkTypes, Stream, Progress, OnWires, Closing, Agreement, Early, Live, Kinds, Taken, TTaken, LocalListens, RListens, ClientEnds, Goes, wires, readers, remotes, clients, targets
  <2> QED BY <2>2, <2>3
<1>3. CASE ClientReceives(a)
  <2>1. up' = up /\ down' = down
    BY <1>0, <1>3, Zenon DEF ClientReceives, wires
  <2>2. \A i \in StreamIds \ {a} : Apart(i)
    BY <1>0, <1>3, <2>1, WireStays, Zenon DEF TableTypes, ChunkTypes, Apart, Still, ClientReceives, wires, readers, remotes, targets
  <2>3. Stream(a)'
    BY <1>0, <1>3, <2>1, ChannelDelivers, Zenon DEF TableTypes, ChunkTypes, Stream, Progress, OnWires, Closing, Agreement, Early, Live, Kinds, Taken, TTaken, LocalListens, RListens, ClientReceives, wires, readers, remotes, targets
  <2> QED BY <2>2, <2>3
<1>4. CASE ClientShutdown(a)
  <2>1. up' = up /\ down' = down
    BY <1>0, <1>4, Zenon DEF ClientShutdown, wires
  <2>2. \A i \in StreamIds \ {a} : Apart(i)
    BY <1>0, <1>4, <2>1, WireStays, Zenon DEF TableTypes, ChunkTypes, Apart, Still, ClientShutdown, Goes, wires, readers, remotes, targets
  <2>3. Stream(a)'
    <3>1. Progress(a)'
      BY <1>0, <1>4, <2>1, Zenon DEF TableTypes, ChunkTypes, Stream, Progress, Early, Live, Kinds, Taken, TTaken, LocalListens, RListens, ClientShutdown, Goes, wires, readers, remotes, targets
    <3>2. conn' = "up" => (pc'[a] = "send" => a \in lstreams') /\ OnWires(a)'
      BY <1>0, <1>4, <2>1, ZenonT(30) DEF TableTypes, ChunkTypes, Stream, Progress, OnWires, Early, Live, Kinds, Taken, TTaken, LocalListens, RListens, ClientShutdown, Goes, wires, readers, remotes, targets
    <3>3. conn' = "up" /\ a \notin cut' => Closing(a)'
      BY <1>0, <1>4, <2>1, SMTT(30) DEF TableTypes, ChunkTypes, Stream, Progress, OnWires, Closing, Agreement, Early, Live, Kinds, Taken, TTaken, LocalListens, RListens, ClientShutdown, Goes, wires, readers, remotes, targets
    <3>4. conn' = "up" /\ a \notin cut' => Agreement(a)'
      BY <1>0, <1>4, <2>1, Zenon DEF TableTypes, ChunkTypes, Stream, Progress, OnWires, Closing, Agreement, Early, Live, Kinds, Taken, TTaken, LocalListens, RListens, ClientShutdown, Goes, wires, readers, remotes, targets
    <3> QED BY <3>1, <3>2, <3>3, <3>4, Zenon DEF Stream
  <2> QED BY <2>2, <2>3
<1>5. CASE RelayClose(a)
  <2>1. (conn = "up" => Adds(up, up', "close", a)) /\ down' = down /\ \A i \in StreamIds \ {a} : SameFrames(up, up', i)
    BY <1>0, <1>5, SentUp, Zenon DEF RelayClose, Kinds
  <2>2. \A i \in StreamIds \ {a} : Apart(i)
    BY <1>0, <1>5, <2>1, WireStays, ZenonT(30) DEF TableTypes, ChunkTypes, Apart, Still, RelayClose, Goes, readers, remotes, clients, targets
  <2>3. Stream(a)'
    BY <1>0, <1>5, <2>1, Zenon DEF TableTypes, ChunkTypes, Stream, Progress, OnWires, Closing, Agreement, Early, Live, Kinds, Taken, TTaken, LocalListens, RListens, RelayClose, Goes, readers, remotes, clients, targets, Adds
  <2> QED BY <2>2, <2>3
<1> QED BY <1>1, <1>2, <1>3, <1>4, <1>5

(* handle_open_tcp keeps it.                                               *)
LEMMA TargetKeeps ==
  ASSUME BridgeTypeOK, NEW a \in StreamIds, Stream(a), 
         RemoteStep(a) \/ TargetSends(a) \/ TargetEnds(a) \/ TargetReceives(a)
  PROVE  Stream(a)' /\ \A i \in StreamIds \ {a} : Apart(i)
<1>0. /\ TableTypes /\ ChunkTypes /\ Taken(a) \in Nat /\ TTaken(a) \in Nat /\ sent[a] \in Nat /\ tsent[a] \in Nat
      /\ Len(got[a]) \in Nat /\ Len(lchan[a]) \in Nat /\ Len(tgot[a]) \in Nat /\ Len(rchan[a]) \in Nat
  BY TypesInParts, Numbers, Zenon
<1>1. CASE Connect(a)
  <2>1. up' = up /\ down' = down
    BY <1>0, <1>1, Zenon DEF Connect, wires
  <2>2. \A i \in StreamIds \ {a} : Apart(i)
    <3>1. \A i \in StreamIds \ {a} : Still(i)
      BY <1>0, <1>1, Zenon DEF TableTypes, ChunkTypes, Still, Connect, RGoes, wires, readers, locals, clients, targets
    <3> QED BY <2>1, <3>1, WireStays, Zenon DEF Apart
  <2>3. Stream(a)'
    <3>1. Progress(a)'
      BY <1>0, <1>1, <2>1, FeedIsOver, Zenon DEF TableTypes, ChunkTypes, Stream, Progress, Early, Live, Kinds, Taken, TTaken, LocalListens, RListens, Connect, RGoes, wires, readers, locals, clients, targets
    <3>2. conn' = "up" => (pc'[a] = "send" => a \in lstreams') /\ OnWires(a)'
      BY <1>0, <1>1, <2>1, FeedIsOver, SMTT(30) DEF TableTypes, ChunkTypes, Stream, Progress, OnWires, Early, Live, Kinds, Taken, TTaken, LocalListens, RListens, Connect, RGoes, wires, readers, locals, clients, targets
    <3>3. conn' = "up" /\ a \notin cut' => Closing(a)'
      BY <1>0, <1>1, <2>1, FeedIsOver, SMTT(30) DEF TableTypes, ChunkTypes, Stream, Progress, OnWires, Closing, Agreement, Early, Live, Kinds, Taken, TTaken, LocalListens, RListens, Connect, RGoes, wires, readers, locals, clients, targets
    <3>4. conn' = "up" /\ a \notin cut' => Agreement(a)'
      BY <1>0, <1>1, <2>1, FeedIsOver, SMTT(30) DEF TableTypes, ChunkTypes, Stream, Progress, OnWires, Closing, Agreement, Early, Live, Kinds, Taken, TTaken, LocalListens, RListens, Connect, RGoes, wires, readers, locals, clients, targets
    <3> QED BY <3>1, <3>2, <3>3, <3>4, Zenon DEF Stream
  <2> QED BY <2>2, <2>3
<1>2. CASE SendResult(a)
  <2>1. /\ rpc[a] = "result" /\ conn = "up" => Adds(down, down', "ok", a)
        /\ rpc[a] = "refused" /\ conn = "up" => Adds(down, down', "refuse", a)
        /\ up' = up /\ \A i \in StreamIds \ {a} : SameFrames(down, down', i)
    BY <1>0, <1>2, SentDown, Zenon DEF SendResult, Kinds
  <2>2. \A i \in StreamIds \ {a} : Apart(i)
    <3>1. \A i \in StreamIds \ {a} : Still(i)
      BY <1>0, <1>2, Zenon DEF TableTypes, ChunkTypes, Still, SendResult, RGoes, readers, locals, clients, targets
    <3> QED BY <2>1, <3>1, WireStays, Zenon DEF Apart
  <2>3. Stream(a)'
    BY <1>0, <1>2, <2>1, Zenon DEF TableTypes, ChunkTypes, Stream, Progress, OnWires, Closing, Agreement, Early, Live, Kinds, Taken, TTaken, LocalListens, RListens, SendResult, RGoes, readers, locals, clients, targets, Adds
  <2> QED BY <2>2, <2>3
<1>3. CASE TargetShutdown(a)
  <2>1. up' = up /\ down' = down
    BY <1>0, <1>3, Zenon DEF TargetShutdown, wires
  <2>2. \A i \in StreamIds \ {a} : Apart(i)
    BY <1>0, <1>3, <2>1, WireStays, Zenon DEF TableTypes, ChunkTypes, Apart, Still, TargetShutdown, RGoes, wires, readers, locals, clients
  <2>3. Stream(a)'
    <3>1. Progress(a)'
      BY <1>0, <1>3, <2>1, Zenon DEF TableTypes, ChunkTypes, Stream, Progress, Early, Live, Kinds, Taken, TTaken, LocalListens, RListens, TargetShutdown, RGoes, wires, readers, locals, clients
    <3>2. conn' = "up" => (pc'[a] = "send" => a \in lstreams') /\ OnWires(a)'
      BY <1>0, <1>3, <2>1, ZenonT(30) DEF TableTypes, ChunkTypes, Stream, Progress, OnWires, Early, Live, Kinds, Taken, TTaken, LocalListens, RListens, TargetShutdown, RGoes, wires, readers, locals, clients
    <3>3. conn' = "up" /\ a \notin cut' => Closing(a)'
      BY <1>0, <1>3, <2>1, SMTT(30) DEF TableTypes, ChunkTypes, Stream, Progress, OnWires, Closing, Agreement, Early, Live, Kinds, Taken, TTaken, LocalListens, RListens, TargetShutdown, RGoes, wires, readers, locals, clients
    <3>4. conn' = "up" /\ a \notin cut' => Agreement(a)'
      BY <1>0, <1>3, <2>1, Zenon DEF TableTypes, ChunkTypes, Stream, Progress, OnWires, Closing, Agreement, Early, Live, Kinds, Taken, TTaken, LocalListens, RListens, TargetShutdown, RGoes, wires, readers, locals, clients
    <3> QED BY <3>1, <3>2, <3>3, <3>4, Zenon DEF Stream
  <2> QED BY <2>2, <2>3
<1>4. CASE RemoteClose(a)
  <2>1. (conn = "up" => Adds(down, down', "close", a)) /\ up' = up /\ \A i \in StreamIds \ {a} : SameFrames(down, down', i)
    BY <1>0, <1>4, SentDown, Zenon DEF RemoteClose, Kinds
  <2>2. \A i \in StreamIds \ {a} : Apart(i)
    BY <1>0, <1>4, <2>1, WireStays, Zenon DEF TableTypes, ChunkTypes, Apart, Still, RemoteClose, RGoes, readers, locals, clients, targets
  <2>3. Stream(a)'
    BY <1>0, <1>4, <2>1, Zenon DEF TableTypes, ChunkTypes, Stream, Progress, OnWires, Closing, Agreement, Early, Live, Kinds, Taken, TTaken, LocalListens, RListens, RemoteClose, RGoes, readers, locals, clients, targets, Adds
  <2> QED BY <2>2, <2>3
<1>5. CASE TargetSends(a)
  <2>1. /\ conn = "up" => /\ Feeds(down, down', a)
                           /\ \A lo \in Nat : Feed(down, a, lo, tsent[a]) => Feed(down', a, lo, tsent[a] + 1)
        /\ up' = up /\ \A i \in StreamIds \ {a} : SameFrames(down, down', i)
    BY <1>0, <1>5, SentDown, Zenon DEF TargetSends
  <2>2. \A i \in StreamIds \ {a} : Apart(i)
    BY <1>0, <1>5, <2>1, WireStays, Zenon DEF TableTypes, ChunkTypes, Apart, Still, TargetSends, readers, locals, remotes, clients
  <2>3. Stream(a)'
    BY <1>0, <1>5, <2>1, Zenon DEF TableTypes, ChunkTypes, Stream, Progress, OnWires, Closing, Agreement, Early, Live, Kinds, Taken, TTaken, LocalListens, RListens, TargetSends, readers, locals, remotes, clients, Feeds
  <2> QED BY <2>2, <2>3
<1>6. CASE TargetEnds(a)
  <2>1. up' = up /\ down' = down
    BY <1>0, <1>6, Zenon DEF TargetEnds, wires
  <2>2. \A i \in StreamIds \ {a} : Apart(i)
    BY <1>0, <1>6, <2>1, WireStays, Zenon DEF TableTypes, ChunkTypes, Apart, Still, TargetEnds, RGoes, wires, readers, locals, clients, targets
  <2>3. Stream(a)'
    BY <1>0, <1>6, <2>1, Zenon DEF TableTypes, ChunkTypes, Stream, Progress, OnWires, Closing, Agreement, Early, Live, Kinds, Taken, TTaken, LocalListens, RListens, TargetEnds, RGoes, wires, readers, locals, clients, targets
  <2> QED BY <2>2, <2>3
<1>7. CASE TargetReceives(a)
  <2>1. up' = up /\ down' = down
    BY <1>0, <1>7, Zenon DEF TargetReceives, wires
  <2>2. \A i \in StreamIds \ {a} : Apart(i)
    BY <1>0, <1>7, <2>1, WireStays, ZenonT(30) DEF TableTypes, ChunkTypes, Apart, Still, TargetReceives, wires, readers, locals, clients
  <2>3. Stream(a)'
    <3>1. Progress(a)'
      BY <1>0, <1>7, <2>1, ChannelDelivers, Zenon DEF TableTypes, ChunkTypes, Stream, Progress, Early, Live, Kinds, Taken, TTaken, LocalListens, RListens, TargetReceives, wires, readers, locals, clients
    <3>2. conn' = "up" => (pc'[a] = "send" => a \in lstreams') /\ OnWires(a)'
      BY <1>0, <1>7, <2>1, ChannelDelivers, SMTT(30) DEF TableTypes, ChunkTypes, Stream, Progress, OnWires, Early, Live, Kinds, Taken, TTaken, LocalListens, RListens, TargetReceives, wires, readers, locals, clients
    <3>3. conn' = "up" /\ a \notin cut' => Closing(a)'
      BY <1>0, <1>7, <2>1, ChannelDelivers, SMTT(30) DEF TableTypes, ChunkTypes, Stream, Progress, OnWires, Closing, Agreement, Early, Live, Kinds, Taken, TTaken, LocalListens, RListens, TargetReceives, wires, readers, locals, clients
    <3>4. conn' = "up" /\ a \notin cut' => Agreement(a)'
      BY <1>0, <1>7, <2>1, ChannelDelivers, Zenon DEF TableTypes, ChunkTypes, Stream, Progress, OnWires, Closing, Agreement, Early, Live, Kinds, Taken, TTaken, LocalListens, RListens, TargetReceives, wires, readers, locals, clients
    <3> QED BY <3>1, <3>2, <3>3, <3>4, Zenon DEF Stream
  <2> QED BY <2>2, <2>3
<1> QED BY <1>1, <1>2, <1>3, <1>4, <1>5, <1>6, <1>7, Zenon DEF RemoteStep

(* reader_loop keeps what holds of all streams.                            *)
LEMMA ReaderKeeps ==
  ASSUME BridgeTypeOK, \A i \in StreamIds : Stream(i), Reader
  PROVE  \A i \in StreamIds : Stream(i)'
<1>0. WireTypes
  BY TypesInParts
<1>1. CASE ReadResult
  <2>9. PICK a \in StreamIds : a = Head(down).id
    BY <1>0, <1>1, TookOff, Zenon DEF WireTypes, ReadResult, Reads
  <2>8. a \in StreamIds /\ a = Head(down).id /\ Stream(a) /\ conn = "up" /\ conn' = conn
    BY <1>1, <2>9, Zenon DEF ReadResult, Reads
  <2>0. /\ TableTypes /\ ChunkTypes /\ Taken(a) \in Nat /\ TTaken(a) \in Nat /\ sent[a] \in Nat /\ tsent[a] \in Nat
        /\ Len(got[a]) \in Nat /\ Len(lchan[a]) \in Nat /\ Len(tgot[a]) \in Nat /\ Len(rchan[a]) \in Nat
    BY <2>8, TypesInParts, Numbers
  <2>1. /\ \E k \in {"ok", "refuse"} :
             /\ Drops(down, down', k, a)
             /\ result' = IF a \in pending THEN [result EXCEPT ![a] = IF k = "ok" THEN "ok" ELSE "err"] ELSE result
        /\ pending' = pending \ {a}
        /\ up' = up /\ \A i \in StreamIds \ {a} : SameFrames(down, down', i)
    BY <1>0, <1>1, <2>9, TookOff, Zenon DEF WireTypes, ReadResult, Reads, Kinds
  <2>2. \A i \in StreamIds \ {a} : Apart(i)
    BY <1>1, <2>8, <2>0, <2>1, WireStays, Zenon DEF TableTypes, ChunkTypes, Apart, Still, ReadResult, Reads, readers, remotes, clients, targets
  <2>3. Progress(a)'
    BY <1>1, <2>8, <2>0, <2>1, Zenon DEF TableTypes, ChunkTypes, Stream, Progress, OnWires, Early, Live, Kinds, Taken, TTaken, LocalListens, RListens, ReadResult, Reads, readers, remotes, clients, targets, Drops
  <2>4. (pc'[a] = "send" => a \in lstreams') /\ OnWires(a)'
    BY <1>1, <2>8, <2>0, <2>1, Zenon DEF TableTypes, ChunkTypes, Stream, Progress, OnWires, Early, Live, Kinds, Taken, TTaken, LocalListens, RListens, ReadResult, Reads, readers, remotes, clients, targets, Drops
  <2>5. a \notin cut' => Closing(a)'
    BY <1>1, <2>8, <2>0, <2>1, Zenon DEF TableTypes, ChunkTypes, Stream, Progress, OnWires, Closing, Agreement, Early, Live, Kinds, Taken, TTaken, LocalListens, RListens, ReadResult, Reads, readers, remotes, clients, targets, Drops
  <2>6. a \notin cut' => Agreement(a)'
    <3>1. PICK k \in {"ok", "refuse"} :
            /\ Drops(down, down', k, a)
            /\ result' = IF a \in pending THEN [result EXCEPT ![a] = IF k = "ok" THEN "ok" ELSE "err"] ELSE result
      BY <2>1, Zenon
    <3>2. CASE k = "ok"
      BY <1>1, <2>8, <2>0, <2>1, <3>1, <3>2, Zenon DEF TableTypes, ChunkTypes, Stream, Progress, OnWires, Closing, Agreement, Early, Live, Kinds, Taken, TTaken, LocalListens, RListens, ReadResult, Reads, readers, remotes, clients, targets, Drops
    <3>3. CASE k = "refuse"
      BY <1>1, <2>8, <2>0, <2>1, <3>1, <3>3, Zenon DEF TableTypes, ChunkTypes, Stream, Progress, OnWires, Closing, Agreement, Early, Live, Kinds, Taken, TTaken, LocalListens, RListens, ReadResult, Reads, readers, remotes, clients, targets, Drops
    <3> QED BY <3>2, <3>3
  <2>7. Stream(a)'
    BY <2>3, <2>4, <2>5, <2>6, Zenon DEF Stream
  <2> QED BY <2>2, <2>7, ApartKeeps
<1>2. CASE ReadData
  <2>9. PICK a \in StreamIds : a = Head(down).id
    BY <1>0, <1>2, TookOff, Zenon DEF WireTypes, ReadData, Reads
  <2>8. a \in StreamIds /\ a = Head(down).id /\ Stream(a) /\ conn = "up" /\ conn' = conn
    BY <1>2, <2>9, Zenon DEF ReadData, Reads
  <2>0. /\ TableTypes /\ ChunkTypes /\ Taken(a) \in Nat /\ TTaken(a) \in Nat /\ sent[a] \in Nat /\ tsent[a] \in Nat
        /\ Len(got[a]) \in Nat /\ Len(lchan[a]) \in Nat /\ Len(tgot[a]) \in Nat /\ Len(rchan[a]) \in Nat
    BY <2>8, TypesInParts, Numbers
  <2>1. /\ Eats(down, down', Head(down).n, a) /\ Head(down).n \in Nat
        /\ up' = up /\ \A i \in StreamIds \ {a} : SameFrames(down, down', i)
    BY <1>0, <1>2, <2>9, TookOff, Zenon DEF WireTypes, ReadData, Reads
  <2>10. ASSUME a \in lstreams, LocalListens(a)
         PROVE  /\ Feed(down', a, Taken(a)', tsent'[a])
                /\ lchan'[a] = Append(lchan[a], Len(got[a]) + Len(lchan[a]) + 1)
                /\ Len(lchan'[a]) = Len(lchan[a]) + 1 /\ Chained(got[a], lchan'[a])
    <3>1. Feed(down, a, Taken(a), tsent[a]) /\ Chained(got[a], lchan[a])
      BY <2>8, <2>10, Zenon DEF Stream, OnWires, Progress
    <3>2. Head(down).n = Len(got[a]) + Len(lchan[a]) + 1 /\ Feed(down', a, Taken(a) + 1, tsent[a])
      BY <2>0, <2>1, <3>1, Zenon DEF Eats, Taken
    <3>3. lchan'[a] = Append(lchan[a], Len(got[a]) + Len(lchan[a]) + 1)
      BY <1>2, <2>0, <2>8, <2>10, <3>2, Zenon DEF ChunkTypes, ReadData
    <3>4. /\ Len(lchan'[a]) = Len(lchan[a]) + 1 /\ Chained(got[a], lchan'[a])
          /\ Len(got[a]) + Len(lchan'[a]) = Len(got[a]) + Len(lchan[a]) + 1
      <4> DEFINE q == Append(lchan[a], Len(got[a]) + Len(lchan[a]) + 1)
      <4>1. got[a] \in Seq(Nat) /\ lchan[a] \in Seq(Nat)
        BY <2>0, <2>8, Zenon DEF ChunkTypes
      <4>2. /\ Len(q) = Len(lchan[a]) + 1 /\ Chained(got[a], q)
            /\ Len(got[a]) + Len(q) = Len(got[a]) + Len(lchan[a]) + 1
        BY <3>1, <4>1, ChannelQueues, Zenon
      <4> HIDE DEF q
      <4> QED BY <3>3, <4>2, Zenon DEF q
    <3>5. got'[a] = got[a] /\ tsent' = tsent
      BY <1>2, Zenon DEF ReadData, clients, targets
    <3>6. Taken(a)' = Taken(a) + 1
      BY <3>4, <3>5, Zenon DEF Taken
    <3> QED BY <3>2, <3>3, <3>4, <3>5, <3>6, Zenon
  <2>2. \A i \in StreamIds \ {a} : Apart(i)
    <3>1. \A i \in StreamIds \ {a} : Still(i)
      BY <1>2, <2>8, <2>0, Zenon DEF TableTypes, ChunkTypes, Still, ReadData, Reads, readers, remotes, clients, targets
    <3> QED BY <2>1, <3>1, WireStays, Zenon DEF Apart
  <2>3. Stream(a)'
    BY <1>2, <2>8, <2>0, <2>1, <2>10, ZenonT(30) DEF TableTypes, ChunkTypes, Stream, Progress, OnWires, Closing, Agreement, Early, Live, Kinds, Taken, TTaken, LocalListens, RListens, ReadData, Reads, readers, remotes, clients, targets, Eats
  <2> QED BY <2>2, <2>3, ApartKeeps
<1>3. CASE ReadDataTimeout
  <2>9. PICK a \in StreamIds : a = Head(down).id
    BY <1>0, <1>3, TookOff, Zenon DEF WireTypes, ReadDataTimeout, Reads
  <2>8. a \in StreamIds /\ a = Head(down).id /\ Stream(a) /\ conn = "up" /\ conn' = conn
    BY <1>3, <2>9, Zenon DEF ReadDataTimeout, Reads
  <2>0. /\ TableTypes /\ ChunkTypes /\ Taken(a) \in Nat /\ TTaken(a) \in Nat /\ sent[a] \in Nat /\ tsent[a] \in Nat
        /\ Len(got[a]) \in Nat /\ Len(lchan[a]) \in Nat /\ Len(tgot[a]) \in Nat /\ Len(rchan[a]) \in Nat
    BY <2>8, TypesInParts, Numbers
  <2>1. /\ Eats(down, down', Head(down).n, a) /\ Head(down).n \in Nat
        /\ up' = up /\ \A i \in StreamIds \ {a} : SameFrames(down, down', i)
    BY <1>0, <1>3, <2>9, TookOff, Zenon DEF WireTypes, ReadDataTimeout, Reads
  <2>2. \A i \in StreamIds \ {a} : Apart(i)
    <3>1. \A i \in StreamIds \ {a} : Still(i)
      BY <1>3, <2>8, <2>0, Zenon DEF TableTypes, ChunkTypes, Still, ReadDataTimeout, Reads, remotes, clients, targets
    <3> QED BY <2>1, <3>1, WireStays, Zenon DEF Apart
  <2>3. Stream(a)'
    BY <1>3, <2>8, <2>0, <2>1, Zenon DEF TableTypes, ChunkTypes, Stream, Progress, OnWires, Closing, Agreement, Early, Live, Kinds, Taken, TTaken, LocalListens, RListens, ReadDataTimeout, Reads, remotes, clients, targets, Eats
  <2> QED BY <2>2, <2>3, ApartKeeps
<1>4. CASE ReadDataGivesUp
  <2>9. PICK a \in stuck : conn = "up" /\ SendUp(Frame("close", a)) /\ stuck' = {}
    BY <1>4, Zenon DEF ReadDataGivesUp
  <2>8. a \in StreamIds /\ Stream(a) /\ conn = "up" /\ conn' = conn /\ a \in stuck /\ stuck' = {}
    BY <1>0, <1>4, <2>9, Zenon DEF WireTypes, ReadDataGivesUp
  <2>0. /\ TableTypes /\ ChunkTypes /\ Taken(a) \in Nat /\ TTaken(a) \in Nat /\ sent[a] \in Nat /\ tsent[a] \in Nat
        /\ Len(got[a]) \in Nat /\ Len(lchan[a]) \in Nat /\ Len(tgot[a]) \in Nat /\ Len(rchan[a]) \in Nat
    BY <2>8, TypesInParts, Numbers
  <2>1. /\ Adds(up, up', "close", a) /\ down' = down
        /\ \A i \in StreamIds \ {a} : SameFrames(up, up', i)
    BY <1>4, <2>9, <2>8, SentUp, Zenon DEF ReadDataGivesUp, Kinds
  <2>2. \A i \in StreamIds \ {a} : Apart(i)
    BY <1>4, <2>8, <2>0, <2>1, WireStays, Zenon DEF TableTypes, ChunkTypes, Apart, Still, ReadDataGivesUp, locals, remotes, clients, targets
  <2>3. Stream(a)'
    BY <1>4, <2>8, <2>0, <2>1, Zenon DEF TableTypes, ChunkTypes, Stream, Progress, OnWires, Closing, Agreement, Early, Live, Kinds, Taken, TTaken, LocalListens, RListens, ReadDataGivesUp, locals, remotes, clients, targets, Adds
  <2> QED BY <2>2, <2>3, ApartKeeps
<1>5. CASE ReadClose
  <2>9. PICK a \in StreamIds : a = Head(down).id
    BY <1>0, <1>5, TookOff, Zenon DEF WireTypes, ReadClose, Reads
  <2>8. a \in StreamIds /\ a = Head(down).id /\ Stream(a) /\ conn = "up" /\ conn' = conn
    BY <1>5, <2>9, Zenon DEF ReadClose, Reads
  <2>0. /\ TableTypes /\ ChunkTypes /\ Taken(a) \in Nat /\ TTaken(a) \in Nat /\ sent[a] \in Nat /\ tsent[a] \in Nat
        /\ Len(got[a]) \in Nat /\ Len(lchan[a]) \in Nat /\ Len(tgot[a]) \in Nat /\ Len(rchan[a]) \in Nat
    BY <2>8, TypesInParts, Numbers
  <2>1. /\ Drops(down, down', "close", a)
        /\ up' = up /\ \A i \in StreamIds \ {a} : SameFrames(down, down', i)
    BY <1>0, <1>5, <2>9, TookOff, Zenon DEF WireTypes, ReadClose, Reads, Kinds
  <2>10. ASSUME a \notin cut, a \in lstreams, LocalListens(a) PROVE Taken(a) = tsent[a]
    <3>1. NoData(down, a) /\ Feed(down, a, Taken(a), tsent[a])
      BY <2>1, <2>8, <2>10, Zenon DEF Stream, OnWires, Closing, Drops
    <3> QED BY <2>0, <3>1, FeedIsOver
  <2>2. \A i \in StreamIds \ {a} : Apart(i)
    <3>1. \A i \in StreamIds \ {a} : Still(i)
      BY <1>5, <2>8, <2>0, Zenon DEF TableTypes, ChunkTypes, Still, ReadClose, Reads, readers, remotes, clients, targets
    <3> QED BY <2>1, <3>1, WireStays, Zenon DEF Apart
  <2>3. Progress(a)'
    BY <1>5, <2>8, <2>0, <2>1, Zenon DEF TableTypes, ChunkTypes, Stream, Progress, OnWires, Early, Live, Kinds, Taken, TTaken, LocalListens, RListens, ReadClose, Reads, readers, remotes, clients, targets, Drops
  <2>4. (pc'[a] = "send" => a \in lstreams') /\ OnWires(a)'
    BY <1>5, <2>8, <2>0, <2>1, Zenon DEF TableTypes, ChunkTypes, Stream, Progress, OnWires, Early, Live, Kinds, Taken, TTaken, LocalListens, RListens, ReadClose, Reads, readers, remotes, clients, targets, Drops
  <2>5. a \notin cut' => Closing(a)'
    BY <1>5, <2>8, <2>0, <2>1, <2>10, Zenon DEF TableTypes, ChunkTypes, Stream, Progress, OnWires, Closing, Agreement, Early, Live, Kinds, Taken, TTaken, LocalListens, RListens, ReadClose, Reads, readers, remotes, clients, targets, Drops
  <2>6. a \notin cut' => Agreement(a)'
    BY <1>5, <2>8, <2>0, <2>1, Zenon DEF TableTypes, ChunkTypes, Stream, Progress, OnWires, Closing, Agreement, Early, Live, Kinds, Taken, TTaken, LocalListens, RListens, ReadClose, Reads, readers, remotes, clients, targets, Drops
  <2>7. Stream(a)'
    BY <2>3, <2>4, <2>5, <2>6, Zenon DEF Stream
  <2> QED BY <2>2, <2>7, ApartKeeps
<1> QED BY <1>1, <1>2, <1>3, <1>4, <1>5, Zenon DEF Reader

(* So does the reader of the remote.                                       *)
LEMMA RemoteReaderKeeps ==
  ASSUME BridgeTypeOK, \A i \in StreamIds : Stream(i), RemoteReader
  PROVE  \A i \in StreamIds : Stream(i)'
<1>0. WireTypes
  BY TypesInParts
<1>1. CASE RemoteReadOpen
  <2>9. PICK a \in StreamIds : a = Head(up).id
    BY <1>0, <1>1, TookOff, Zenon DEF WireTypes, RemoteReadOpen, RReads
  <2>8. a \in StreamIds /\ a = Head(up).id /\ Stream(a) /\ conn = "up" /\ conn' = conn
    BY <1>1, <2>9, Zenon DEF RemoteReadOpen, RReads
  <2>0. /\ TableTypes /\ ChunkTypes /\ Taken(a) \in Nat /\ TTaken(a) \in Nat /\ sent[a] \in Nat /\ tsent[a] \in Nat
        /\ Len(got[a]) \in Nat /\ Len(lchan[a]) \in Nat /\ Len(tgot[a]) \in Nat /\ Len(rchan[a]) \in Nat
    BY <2>8, TypesInParts, Numbers
  <2>1. /\ Drops(up, up', "open", a)
        /\ down' = down /\ \A i \in StreamIds \ {a} : SameFrames(up, up', i)
    BY <1>0, <1>1, <2>9, TookOff, Zenon DEF WireTypes, RemoteReadOpen, RReads, Kinds
  <2>2. \A i \in StreamIds \ {a} : Apart(i)
    <3>1. \A i \in StreamIds \ {a} : Still(i)
      BY <1>1, <2>8, <2>0, Zenon DEF TableTypes, ChunkTypes, Still, RemoteReadOpen, RReads, RGoes, readers, locals, clients, targets
    <3> QED BY <2>1, <3>1, WireStays, Zenon DEF Apart
  <2>3. Stream(a)'
    BY <1>1, <2>8, <2>0, <2>1, Zenon DEF TableTypes, ChunkTypes, Stream, Progress, OnWires, Closing, Agreement, Early, Live, Kinds, Taken, TTaken, LocalListens, RListens, RemoteReadOpen, RReads, RGoes, readers, locals, clients, targets, Drops
  <2> QED BY <2>2, <2>3, ApartKeeps
<1>2. CASE RemoteReadData
  <2>9. PICK a \in StreamIds : a = Head(up).id
    BY <1>0, <1>2, TookOff, Zenon DEF WireTypes, RemoteReadData, RReads
  <2>8. a \in StreamIds /\ a = Head(up).id /\ Stream(a) /\ conn = "up" /\ conn' = conn
    BY <1>2, <2>9, Zenon DEF RemoteReadData, RReads
  <2>0. /\ TableTypes /\ ChunkTypes /\ Taken(a) \in Nat /\ TTaken(a) \in Nat /\ sent[a] \in Nat /\ tsent[a] \in Nat
        /\ Len(got[a]) \in Nat /\ Len(lchan[a]) \in Nat /\ Len(tgot[a]) \in Nat /\ Len(rchan[a]) \in Nat
    BY <2>8, TypesInParts, Numbers
  <2>1. /\ Eats(up, up', Head(up).n, a) /\ Head(up).n \in Nat
        /\ down' = down /\ \A i \in StreamIds \ {a} : SameFrames(up, up', i)
    BY <1>0, <1>2, <2>9, TookOff, Zenon DEF WireTypes, RemoteReadData, RReads
  <2>10. ASSUME a \in rstreams, RListens(a)
         PROVE  /\ Feed(up', a, TTaken(a)', sent'[a])
                /\ rchan'[a] = Append(rchan[a], Len(tgot[a]) + Len(rchan[a]) + 1)
                /\ Len(rchan'[a]) = Len(rchan[a]) + 1 /\ Chained(tgot[a], rchan'[a])
    <3>1. Feed(up, a, TTaken(a), sent[a]) /\ Chained(tgot[a], rchan[a])
      BY <2>8, <2>10, Zenon DEF Stream, OnWires, Progress
    <3>2. Head(up).n = Len(tgot[a]) + Len(rchan[a]) + 1 /\ Feed(up', a, TTaken(a) + 1, sent[a])
      BY <2>0, <2>1, <3>1, Zenon DEF Eats, TTaken
    <3>3. rchan'[a] = Append(rchan[a], Len(tgot[a]) + Len(rchan[a]) + 1)
      BY <1>2, <2>0, <2>8, <2>10, <3>2, Zenon DEF ChunkTypes, RemoteReadData
    <3>4. /\ Len(rchan'[a]) = Len(rchan[a]) + 1 /\ Chained(tgot[a], rchan'[a])
          /\ Len(tgot[a]) + Len(rchan'[a]) = Len(tgot[a]) + Len(rchan[a]) + 1
      <4> DEFINE q == Append(rchan[a], Len(tgot[a]) + Len(rchan[a]) + 1)
      <4>1. tgot[a] \in Seq(Nat) /\ rchan[a] \in Seq(Nat)
        BY <2>0, <2>8, Zenon DEF ChunkTypes
      <4>2. /\ Len(q) = Len(rchan[a]) + 1 /\ Chained(tgot[a], q)
            /\ Len(tgot[a]) + Len(q) = Len(tgot[a]) + Len(rchan[a]) + 1
        BY <3>1, <4>1, ChannelQueues, Zenon
      <4> HIDE DEF q
      <4> QED BY <3>3, <4>2, Zenon DEF q
    <3>5. tgot'[a] = tgot[a] /\ sent' = sent
      BY <1>2, Zenon DEF RemoteReadData, clients, targets
    <3>6. TTaken(a)' = TTaken(a) + 1
      BY <3>4, <3>5, Zenon DEF TTaken
    <3> QED BY <3>2, <3>3, <3>4, <3>5, <3>6, Zenon
  <2>2. \A i \in StreamIds \ {a} : Apart(i)
    <3>1. \A i \in StreamIds \ {a} : Still(i)
      BY <1>2, <2>8, <2>0, Zenon DEF TableTypes, ChunkTypes, Still, RemoteReadData, RReads, readers, locals, clients, targets
    <3> QED BY <2>1, <3>1, WireStays, Zenon DEF Apart
  <2>3. Stream(a)'
    BY <1>2, <2>8, <2>0, <2>1, <2>10, ZenonT(30) DEF TableTypes, ChunkTypes, Stream, Progress, OnWires, Closing, Agreement, Early, Live, Kinds, Taken, TTaken, LocalListens, RListens, RemoteReadData, RReads, readers, locals, clients, targets, Eats
  <2> QED BY <2>2, <2>3, ApartKeeps
<1>3. CASE RemoteReadDataTimeout
  <2>9. PICK a \in StreamIds : a = Head(up).id
    BY <1>0, <1>3, TookOff, Zenon DEF WireTypes, RemoteReadDataTimeout, RReads
  <2>8. a \in StreamIds /\ a = Head(up).id /\ Stream(a) /\ conn = "up" /\ conn' = conn
    BY <1>3, <2>9, Zenon DEF RemoteReadDataTimeout, RReads
  <2>0. /\ TableTypes /\ ChunkTypes /\ Taken(a) \in Nat /\ TTaken(a) \in Nat /\ sent[a] \in Nat /\ tsent[a] \in Nat
        /\ Len(got[a]) \in Nat /\ Len(lchan[a]) \in Nat /\ Len(tgot[a]) \in Nat /\ Len(rchan[a]) \in Nat
    BY <2>8, TypesInParts, Numbers
  <2>1. /\ Eats(up, up', Head(up).n, a) /\ Head(up).n \in Nat
        /\ down' = down /\ \A i \in StreamIds \ {a} : SameFrames(up, up', i)
    BY <1>0, <1>3, <2>9, TookOff, Zenon DEF WireTypes, RemoteReadDataTimeout, RReads
  <2>2. \A i \in StreamIds \ {a} : Apart(i)
    <3>1. \A i \in StreamIds \ {a} : Still(i)
      BY <1>3, <2>8, <2>0, Zenon DEF TableTypes, ChunkTypes, Still, RemoteReadDataTimeout, RReads, locals, clients, targets
    <3> QED BY <2>1, <3>1, WireStays, Zenon DEF Apart
  <2>3. Stream(a)'
    BY <1>3, <2>8, <2>0, <2>1, Zenon DEF TableTypes, ChunkTypes, Stream, Progress, OnWires, Closing, Agreement, Early, Live, Kinds, Taken, TTaken, LocalListens, RListens, RemoteReadDataTimeout, RReads, locals, clients, targets, Eats
  <2> QED BY <2>2, <2>3, ApartKeeps
<1>4. CASE RemoteReadDataGivesUp
  <2>9. PICK a \in rstuck : conn = "up" /\ SendDown(Frame("close", a)) /\ rstuck' = {}
    BY <1>4, Zenon DEF RemoteReadDataGivesUp
  <2>8. a \in StreamIds /\ Stream(a) /\ conn = "up" /\ conn' = conn /\ a \in rstuck /\ rstuck' = {}
    BY <1>0, <1>4, <2>9, Zenon DEF WireTypes, RemoteReadDataGivesUp
  <2>0. /\ TableTypes /\ ChunkTypes /\ Taken(a) \in Nat /\ TTaken(a) \in Nat /\ sent[a] \in Nat /\ tsent[a] \in Nat
        /\ Len(got[a]) \in Nat /\ Len(lchan[a]) \in Nat /\ Len(tgot[a]) \in Nat /\ Len(rchan[a]) \in Nat
    BY <2>8, TypesInParts, Numbers
  <2>1. /\ Adds(down, down', "close", a) /\ up' = up
        /\ \A i \in StreamIds \ {a} : SameFrames(down, down', i)
    BY <1>4, <2>9, <2>8, SentDown, Zenon DEF RemoteReadDataGivesUp, Kinds
  <2>2. \A i \in StreamIds \ {a} : Apart(i)
    BY <1>4, <2>8, <2>0, <2>1, WireStays, Zenon DEF TableTypes, ChunkTypes, Apart, Still, RemoteReadDataGivesUp, locals, remotes, clients, targets
  <2>3. Progress(a)'
    <3>1. Progress(a)
      BY <2>8, Zenon DEF Stream
    <3> QED BY <1>4, <2>8, <3>1, Zenon DEF Progress, RemoteReadDataGivesUp, locals, remotes, clients, targets
  <2>4. (pc'[a] = "send" => a \in lstreams') /\ OnWires(a)'
    BY <1>4, <2>8, <2>0, <2>1, Zenon DEF TableTypes, ChunkTypes, Stream, Progress, OnWires, Early, Live, Kinds, Taken, TTaken, LocalListens, RListens, RemoteReadDataGivesUp, locals, remotes, clients, targets, Adds
  <2>5. a \notin cut' => Closing(a)' /\ Agreement(a)'
    BY <1>4, <2>8, <2>0, <2>1, Zenon DEF TableTypes, ChunkTypes, Stream, Progress, OnWires, Closing, Agreement, Early, Live, Kinds, Taken, TTaken, LocalListens, RListens, RemoteReadDataGivesUp, locals, remotes, clients, targets, Adds
  <2>6. Stream(a)'
    BY <2>3, <2>4, <2>5, Zenon DEF Stream
  <2> QED BY <2>2, <2>6, ApartKeeps
<1>5. CASE RemoteReadClose
  <2>9. PICK a \in StreamIds : a = Head(up).id
    BY <1>0, <1>5, TookOff, Zenon DEF WireTypes, RemoteReadClose, RReads
  <2>8. a \in StreamIds /\ a = Head(up).id /\ Stream(a) /\ conn = "up" /\ conn' = conn
    BY <1>5, <2>9, Zenon DEF RemoteReadClose, RReads
  <2>0. /\ TableTypes /\ ChunkTypes /\ Taken(a) \in Nat /\ TTaken(a) \in Nat /\ sent[a] \in Nat /\ tsent[a] \in Nat
        /\ Len(got[a]) \in Nat /\ Len(lchan[a]) \in Nat /\ Len(tgot[a]) \in Nat /\ Len(rchan[a]) \in Nat
    BY <2>8, TypesInParts, Numbers
  <2>1. /\ Drops(up, up', "close", a)
        /\ down' = down /\ \A i \in StreamIds \ {a} : SameFrames(up, up', i)
    BY <1>0, <1>5, <2>9, TookOff, Zenon DEF WireTypes, RemoteReadClose, RReads, Kinds
  <2>10. ASSUME a \notin cut, a \in rstreams, RListens(a) PROVE TTaken(a) = sent[a]
    <3>1. NoData(up, a) /\ Feed(up, a, TTaken(a), sent[a])
      BY <2>1, <2>8, <2>10, Zenon DEF Stream, OnWires, Closing, Drops
    <3> QED BY <2>0, <3>1, FeedIsOver
  <2>2. \A i \in StreamIds \ {a} : Apart(i)
    <3>1. \A i \in StreamIds \ {a} : Still(i)
      BY <1>5, <2>8, <2>0, Zenon DEF TableTypes, ChunkTypes, Still, RemoteReadClose, RReads, readers, locals, clients, targets
    <3> QED BY <2>1, <3>1, WireStays, Zenon DEF Apart
  <2>3. Progress(a)'
    BY <1>5, <2>8, <2>0, <2>1, Zenon DEF TableTypes, ChunkTypes, Stream, Progress, OnWires, Early, Live, Kinds, Taken, TTaken, LocalListens, RListens, RemoteReadClose, RReads, readers, locals, clients, targets, Drops
  <2>4. (pc'[a] = "send" => a \in lstreams') /\ OnWires(a)'
    BY <1>5, <2>8, <2>0, <2>1, Zenon DEF TableTypes, ChunkTypes, Stream, Progress, OnWires, Early, Live, Kinds, Taken, TTaken, LocalListens, RListens, RemoteReadClose, RReads, readers, locals, clients, targets, Drops
  <2>5. a \notin cut' => Closing(a)'
    BY <1>5, <2>8, <2>0, <2>1, <2>10, Zenon DEF TableTypes, ChunkTypes, Stream, Progress, OnWires, Closing, Agreement, Early, Live, Kinds, Taken, TTaken, LocalListens, RListens, RemoteReadClose, RReads, readers, locals, clients, targets, Drops
  <2>6. a \notin cut' => Agreement(a)'
    BY <1>5, <2>8, <2>0, <2>1, Zenon DEF TableTypes, ChunkTypes, Stream, Progress, OnWires, Closing, Agreement, Early, Live, Kinds, Taken, TTaken, LocalListens, RListens, RemoteReadClose, RReads, readers, locals, clients, targets, Drops
  <2>7. Stream(a)'
    BY <2>3, <2>4, <2>5, <2>6, Zenon DEF Stream
  <2> QED BY <2>2, <2>7, ApartKeeps
<1> QED BY <1>1, <1>2, <1>3, <1>4, <1>5, Zenon DEF RemoteReader

(* When the connection is lost, what remains is what does not depend on    *)
(* it; the lifecycle task answers the pending opens and clears the table.  *)
LEMMA LossKeeps ==
  ASSUME BridgeTypeOK, \A i \in StreamIds : Stream(i), Break \/ Lifecycle
  PROVE  \A i \in StreamIds : Stream(i)'
<1>0. TableTypes
  BY TypesInParts
<1>1. CASE Break
  BY <1>0, <1>1, Zenon DEF Break, Stream, Progress, locals, remotes, clients, targets
<1>2. CASE Lifecycle
  <2>1. conn' # "up"
    BY <1>2, Zenon DEF Lifecycle
  <2>2. \A i \in StreamIds : Progress(i)'
    BY <1>0, <1>2, Zenon DEF TableTypes, Stream, Progress, Lifecycle, wires, readers, remotes, clients, targets
  <2> QED BY <2>1, <2>2, Zenon DEF Stream
<1> QED BY <1>1, <1>2

-----------------------------------------------------------------------------
(* A new bridge (connect_io) has empty tables and no frame on its way.     *)
LEMMA DeliveryInitially == BridgeInit => DeliveryInv
<1> SUFFICES ASSUME BridgeInit PROVE DeliveryInv
  OBVIOUS
<1>0. setup.wire \in Nat /\ setup.chan \in Nat /\ setup.clientChunks \in Nat /\ setup.targetChunks \in Nat
  BY SetupsAssumption, Zenon DEF BridgeInit
<1>1. BridgeTypeOK
  BY <1>0, SMT DEF BridgeInit, BridgeTypeOK, All, LocalPCs, RemotePCs, WireSize, ChanSize, ClientChunks, TargetChunks
<1>2. \A i \in StreamIds : Progress(i)
  <2>1. Chained(<<>>, <<>>)
    BY SMT DEF Chained, IsPrefixOfAll
  <2> QED BY <2>1, Zenon DEF BridgeInit, All, Progress, Early, Live
<1>3. \A i \in StreamIds : OnWires(i) /\ Closing(i) /\ Agreement(i)
  <2>1. \A i : OneOpen(<<>>, i) /\ NoData(<<>>, i) /\ Ends(<<>>, i) /\ \A k : ~Has(<<>>, k, i)
    BY SMT DEF OneOpen, NoData, Ends, Has
  <2> QED BY <2>1, Zenon DEF BridgeInit, All, OnWires, Closing, Agreement, LocalListens, RListens
<1>4. \A i \in StreamIds : pc[i] # "send"
  BY Zenon DEF BridgeInit, All
<1> QED BY <1>1, <1>2, <1>3, <1>4, Zenon DEF DeliveryInv, Stream

(* Every step of the bridge keeps the invariant.                           *)
LEMMA BridgeStepKeeps == DeliveryInv /\ BridgeNext => DeliveryInv'
<1> SUFFICES ASSUME DeliveryInv, BridgeNext PROVE DeliveryInv'
  OBVIOUS
<1>0. BridgeTypeOK /\ \A i \in StreamIds : Stream(i)
  BY Zenon DEF DeliveryInv
<1>1. CASE Reader
  BY <1>0, <1>1, ReaderTypes, ReaderKeeps, Zenon DEF DeliveryInv
<1>2. CASE Break \/ Lifecycle
  BY <1>0, <1>2, ReaderTypes, LossKeeps, Zenon DEF DeliveryInv
<1>3. CASE RemoteReader
  BY <1>0, <1>3, RemoteReaderTypes, RemoteReaderKeeps, Zenon DEF DeliveryInv
<1>4. ASSUME NEW a \in StreamIds, OpenStep(a) PROVE DeliveryInv'
  BY <1>0, <1>4, OpenTypes, OpenKeeps, ApartKeeps, Zenon DEF DeliveryInv
<1>5. ASSUME NEW a \in StreamIds,
             ClientSend(a) \/ ClientEnds(a) \/ ClientReceives(a) \/ ClientShutdown(a) \/ RelayClose(a)
      PROVE  DeliveryInv'
  BY <1>0, <1>5, RelayTypes, RelayKeeps, ApartKeeps, Zenon DEF DeliveryInv
<1>6. ASSUME NEW a \in StreamIds, RemoteStep(a) \/ TargetSends(a) \/ TargetEnds(a) \/ TargetReceives(a)
      PROVE  DeliveryInv'
  BY <1>0, <1>6, TargetTypes, TargetKeeps, ApartKeeps, Zenon DEF DeliveryInv
<1> QED BY <1>1, <1>2, <1>3, <1>4, <1>5, <1>6, Zenon DEF BridgeNext

(* While the daemon updates itself nothing happens on a bridge.            *)
LEMMA DeliverySteps == DeliveryInv /\ [DeliveryNext]_allVars => DeliveryInv'
<1> SUFFICES ASSUME DeliveryInv, [DeliveryNext]_allVars PROVE DeliveryInv'
  OBVIOUS
<1>1. CASE BridgeNext
  BY <1>1, BridgeStepKeeps
<1>2. CASE UNCHANGED bridgeVars
  <2>1. UNCHANGED <<setup, conn, up, down, stuck, rstuck, cut, pc, pending, result, lstreams, lchan, rpc,
                    rstreams, rchan, sent, got, eof, tsent, tgot, teof>>
    BY <1>2, Zenon DEF bridgeVars, wires, readers, locals, remotes, clients, targets
  <2>2. BridgeTypeOK'
    BY <2>1, Zenon DEF DeliveryInv, BridgeTypeOK, WireSize, ChanSize, ClientChunks, TargetChunks
  <2>3. \A i \in StreamIds : Apart(i)
    BY <2>1, WireStays, Zenon DEF Apart, Still
  <2> QED BY <2>2, <2>3, ApartKeeps, Zenon DEF DeliveryInv
<1> QED BY <1>1, <1>2, Zenon DEF DeliveryNext, allVars

(* The invariant is enough.                                                *)
LEMMA DeliveryEnough == DeliveryInv => Delivered /\ NothingKept
<1> SUFFICES ASSUME DeliveryInv PROVE Delivered /\ NothingKept
  OBVIOUS
<1>1. InOrder
  BY Zenon DEF DeliveryInv, Stream, Progress, Chained, InOrder
<1>2. EndIsComplete
  BY Zenon DEF DeliveryInv, Stream, Closing, EndIsComplete
<1>3. ASSUME conn = "up", up = <<>>, down = <<>>, NEW i \in StreamIds \ cut
      PROVE  /\ rpc[i] = "open" /\ i \in rstreams => pc[i] \in {"wait", "relay", "closing"}
             /\ pc[i] = "relay" /\ i \in lstreams => rpc[i] \in {"open", "closing"}
  <2>1. ~Has(up, "close", i) /\ ~Has(down, "close", i)
    BY <1>3, SMT DEF Has
  <2>2. Progress(i) /\ Agreement(i)
    BY <1>3, Zenon DEF DeliveryInv, Stream
  <2>3. rpc[i] \in RemotePCs
    BY Zenon DEF DeliveryInv, BridgeTypeOK
  <2> QED BY <2>1, <2>2, <2>3, Zenon DEF Progress, Agreement, RListens, Live
<1>4. NothingKept
  BY Zenon DEF DeliveryInv, Stream, Progress, NothingKept
<1> QED BY <1>1, <1>2, <1>3, <1>4, Zenon DEF Delivered, SidesAgree, DeliveryInv

(* What an end point receives is the beginning of what the other one sent, *)
(* in order; the end of a stream is not reported before its last chunk;    *)
(* and once no frame is under way the two sides agree about who is left:   *)
(* for any number of streams, any size of the channels, and whatever is    *)
(* refused, timed out, stalled or broken.                                  *)
THEOREM StreamsAreDelivered == DeliverySpec => []Delivered
<1>1. DeliveryInit => DeliveryInv
  BY DeliveryInitially, Zenon DEF DeliveryInit
<1> QED BY <1>1, DeliverySteps, DeliveryEnough, PTL DEF DeliverySpec

(* A stream that failed to open, or was closed, is in no table of the      *)
(* controller: not after a timeout, not after the connection was lost in   *)
(* the middle of open_tcp, not after a late result.                        *)
THEOREM TablesAreClean == DeliverySpec => []NothingKept
<1>1. DeliveryInit => DeliveryInv
  BY DeliveryInitially, Zenon DEF DeliveryInit
<1> QED BY <1>1, DeliverySteps, DeliveryEnough, PTL DEF DeliverySpec
=============================================================================
