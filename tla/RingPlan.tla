------------------------------- MODULE RingPlan -------------------------------
(***************************************************************************)
(* How the ring back end (mlx/distributed/ring/ring.cpp) splits a call into  *)
(* parts that run at the same time, and a part into packets to send and to   *)
(* receive.  A range is <<lo, hi>>: the elements lo + 1..hi of the buffer.   *)
(* Sizes are in elements; the thresholds of the code are constants.          *)
(***************************************************************************)
EXTENDS Integers, Sequences

CONSTANTS
  Size,       \* size_
  Links,      \* sockets to each neighbour
  MinBuffer,  \* 32768, the least BUFFER_SIZE
  MaxBuffer,  \* ALL_SUM_SIZE / sizeof(T)
  MinSend,    \* min_send_size
  MinChunk    \* 1024, the least a socket is given by send and recv

(* The last conjunct: no part of an all reduce is empty.  Its parts are two  *)
(* to a link at most, and min_send_size is 262144 bytes.                     *)
ASSUME RingPlanAssumption ==
  /\ Size \in Nat \ {0, 1}
  /\ {Links, MinBuffer, MaxBuffer, MinSend, MinChunk} \subseteq Nat \ {0}
  /\ MinBuffer <= MaxBuffer
  /\ 2 * Links - 1 <= Size * MinSend

Smaller(a, b) == IF a < b THEN a ELSE b
Larger(a, b) == IF a < b THEN b ELSE a
CeilDiv(a, b) == (a + b - 1) \div b

Right(r) == (r + 1) % Size
Left(r) == (r + Size - 1) % Size
Other(side) == IF side = "left" THEN "right" ELSE "left"

(* The segment rank r sends at step k of a walk around the ring, and the one *)
(* it receives.  A wrong variant, for the mutants of PROJECT.json.           *)
SendSegment(r, direction, k) == (r + direction * k) % Size
RecvSegmentLate(r, direction, k) == (r + direction * k) % Size
RecvSegment(r, direction, k) == (r + direction * (k + 1)) % Size

SegmentSize(n) == CeilDiv(n, Size)
BufferSize(n) ==
  Larger(MinBuffer, Smaller(MaxBuffer, SegmentSize(n) \div 2))
Packets(n) == CeilDiv(SegmentSize(n), BufferSize(n))

(* Packet j of a segment of n elements that start behind the first `offset`. *)
Packet(segment, j, n, offset) ==
  LET start == segment * SegmentSize(n)
      stop == Smaller(start + SegmentSize(n), n)
      Cut(at) == offset + Smaller(at, stop)
  IN  <<Cut(start + j * BufferSize(n)), Cut(start + (j + 1) * BufferSize(n))>>

(* The part of all_reduce_impl: twice around the ring, packet by packet.     *)
(* What arrives in the first round is reduced into the data, a packet later  *)
(* than it is asked for when segments have several.                          *)
ReducePart(r, n, offset, direction, link) ==
  LET count == 2 * (Size - 1) * Packets(n)
      Step(i) == (i - 1) \div Packets(n)
      Ranges(Segment(_, _, _)) ==
        [i \in 1..count |->
           Packet(Segment(r, direction, Step(i)), (i - 1) % Packets(n), n, offset)]
  IN  [side |-> IF direction < 0 THEN "right" ELSE "left", link |-> link,
       sends |-> Ranges(SendSegment), recvs |-> Ranges(RecvSegment),
       reduced |-> count \div 2, lag |-> IF Packets(n) > 1 THEN 1 ELSE 0]

(* The parts of all_reduce: a short input is padded to one element a rank.   *)
ReduceCount(n) == Larger(1, Smaller(2 * Links, n \div (Size * MinSend)))
ReduceParts(r, n) ==
  LET count == ReduceCount(n)
      step == CeilDiv(n, count)
  IN  IF n < Size
      THEN <<ReducePart(r, Size, 0, -1, 0)>>
      ELSE [p \in 1..count |->
              ReducePart(r, Smaller(n, p * step) - (p - 1) * step,
                         (p - 1) * step, IF p % 2 = 0 THEN -1 ELSE 1,
                         (p - 1) \div 2)]

(* The parts of all_gather, and its walk around the ring.                    *)
GatherParts(r, n) ==
  LET count == Larger(1, Smaller(2 * Links, n \div MinSend))
      per == CeilDiv(n, count)
      Range(segment, p) ==
        <<segment * n + (p - 1) * per,
          segment * n + Smaller(n, p * per)>>
      Part(p, direction) ==
        [side |-> IF direction < 0 THEN "right" ELSE "left", link |-> (p - 1) \div 2,
         sends |-> [k \in 1..(Size - 1) |-> Range(SendSegment(r, direction, k - 1), p)],
         recvs |-> [k \in 1..(Size - 1) |-> Range(RecvSegment(r, direction, k - 1), p)],
         reduced |-> 0, lag |-> 0]
  IN  [p \in 1..count |-> Part(p, IF p % 2 = 0 THEN -1 ELSE 1)]

(* The chunks of send and of recv, one for each socket; with two ranks the   *)
(* sender's right is the receiver's left.                                    *)
Chunks(n) ==
  LET per == Larger(MinChunk, CeilDiv(n, Links))
  IN  [i \in 1..Smaller(Links, CeilDiv(n, per)) |->
         <<(i - 1) * per, Smaller(n, i * per)>>]

Alone(side, link, sends, recvs) ==
  [side |-> side, link |-> link, sends |-> sends, recvs |-> recvs,
   reduced |-> 0, lag |-> 0]

SendParts(r, dst, n) ==
  LET side == IF dst = Right(r) THEN "right" ELSE "left"
  IN  [i \in DOMAIN Chunks(n) |-> Alone(side, i - 1, <<Chunks(n)[i]>>, <<<<0, 0>>>>)]

RecvParts(r, src, n) ==
  LET side == IF src = Left(r) THEN "left" ELSE "right"
  IN  [i \in DOMAIN Chunks(n) |->
         Alone(Other(side), i - 1, <<<<0, 0>>>>, <<Chunks(n)[i]>>)]

=============================================================================
