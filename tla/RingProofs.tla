------------------------------ MODULE RingProofs ------------------------------
(***************************************************************************)
(* For rings of any size, any number of links, any thresholds and calls of   *)
(* any length: a packet that arrives does not overwrite one that waits to be *)
(* reduced, and what a queued send has still to read stays as it is.         *)
(*                                                                         *)
(* The second half is what CollectiveProofs needs of the plans of the calls, *)
(* one kind after another (Fed: what a packet brings is what the neighbour   *)
(* has added up by then; Yields: what has been added up at the end is what   *)
(* the call returns), and of the queues of the sockets (Lane) and the        *)
(* connections (Flow): how far into a plan they have come, and in which      *)
(* order.                                                                    *)
(***************************************************************************)
EXTENDS RingInvariant, SequenceTheorems, FiniteSetTheorems, TLAPS

-----------------------------------------------------------------------------
(* Division.                                                                 *)
LEMMA Quotient ==
  ASSUME NEW a \in Int, NEW b \in Nat \ {0}
  PROVE  /\ a \div b \in Int
         /\ b * (a \div b) <= a
         /\ a < b * (a \div b) + b
  <1>1. a \div b \in Int
    OBVIOUS
  <1>2. b * (a \div b) <= a
    OBVIOUS
  <1>3. a < b * (a \div b) + b
    OBVIOUS
  <1> QED
    BY <1>1, <1>2, <1>3

LEMMA Remainder ==
  ASSUME NEW a \in Int, NEW b \in Nat \ {0}, NEW q \in Int, NEW r \in Nat, r < b, a = b * q + r
  PROVE  a % b = r
  OBVIOUS

(* Two neighbours have different remainders.                                 *)
LEMMA RemainderNext ==
  ASSUME NEW x \in Int, NEW b \in Nat, b > 1
  PROVE  x % b # (x + 1) % b
  <1>1. PICK q : q = x \div b
    OBVIOUS
  <1>2. q \in Int /\ b * q <= x /\ x < b * q + b
    BY <1>1, Quotient
  <1>3. PICK m : m = b * q
    OBVIOUS
  <1>4. m \in Int
    BY <1>2, <1>3
  <1>5. PICK r : r = x - m
    OBVIOUS
  <1>6. r \in Nat /\ r < b /\ x = b * q + r
    BY <1>2, <1>3, <1>4, <1>5
  <1>7. x % b = r
    BY <1>2, <1>6, Remainder
  <1>8. CASE r + 1 < b
    <2>1. x + 1 = b * q + (r + 1)
      BY <1>3, <1>4, <1>6
    <2>2. x + 1 \in Int /\ r + 1 \in Nat /\ b \in Nat \ {0}
      BY <1>6
    <2>3. (x + 1) % b = r + 1
      BY <1>2, <1>8, <2>1, <2>2, Remainder
    <2> QED
      BY <1>6, <1>7, <2>3
  <1>9. CASE ~ (r + 1 < b)
    <2>1. r + 1 = b
      BY <1>6, <1>9
    <2>2. b * (q + 1) = b * q + b
      BY <1>2
    <2>3. x + 1 = b * (q + 1) + 0
      BY <1>3, <1>4, <1>6, <2>1, <2>2
    <2>4. x + 1 \in Int /\ q + 1 \in Int /\ b \in Nat \ {0}
      BY <1>2
    <2>5. (x + 1) % b = 0
      BY <2>3, <2>4, Remainder
    <2> QED
      BY <1>6, <1>7, <2>1, <2>5
  <1> QED
    BY <1>8, <1>9

LEMMA CeilDivIs ==
  ASSUME NEW a \in Nat \ {0}, NEW b \in Nat \ {0}
  PROVE  CeilDiv(a, b) \in Nat \ {0}
  <1>1. PICK m, q : m = a + b - 1 /\ q = m \div b
    OBVIOUS
  <1>2. m \in Nat /\ m >= b
    BY <1>1
  <1>3. q \in Int /\ m < b * q + b
    BY <1>1, <1>2, Quotient
  <1>4. q > 0
    <2>1. SUFFICES ASSUME q <= 0 PROVE FALSE
      BY <1>3
    <2>2. b * q <= 0
      BY <1>3, <2>1
    <2>3. PICK p : p = b * q
      OBVIOUS
    <2>4. p \in Int /\ p <= 0 /\ m < p + b
      BY <1>3, <2>2, <2>3
    <2> QED
      BY <1>2, <2>4
  <1> QED
    BY <1>1, <1>3, <1>4 DEF CeilDiv

(* Blocks of equal length that follow one another have no element in common. *)
LEMMA Blocks ==
  ASSUME NEW a \in Nat, NEW b \in Nat, a # b, NEW c \in Nat, NEW x \in Int,
         a * c < x, x <= (a + 1) * c
  PROVE  ~ (b * c < x /\ x <= (b + 1) * c)
  <1>1. PICK u, v, s, t : u = a * c /\ v = (a + 1) * c /\ s = b * c /\ t = (b + 1) * c
    OBVIOUS
  <1>2. u \in Nat /\ v \in Nat /\ s \in Nat /\ t \in Nat
    BY <1>1
  <1>3. CASE a < b
    <2>1. (a + 1) * c <= b * c
      BY <1>3
    <2> QED
      BY <1>1, <1>2, <2>1
  <1>4. CASE b < a
    <2>1. (b + 1) * c <= a * c
      BY <1>4
    <2> QED
      BY <1>1, <1>2, <2>1
  <1> QED
    BY <1>3, <1>4

-----------------------------------------------------------------------------
(* What the state machine needs of a plan: in every part as many sends as    *)
(* receives, more than the lag, within the data; and a send has no element   *)
(* in common with a receive of another part, nor with one of its own part    *)
(* that can be under way at the same time.                                   *)
Within(range, L) == range[1] \in Nat /\ range[2] \in Nat /\ range[2] <= L

Whole(mine, L) ==
  /\ mine.lag \in {0, 1} /\ mine.reduced \in Nat
  /\ Len(mine.sends) \in Nat /\ Len(mine.sends) > mine.lag
  /\ Len(mine.recvs) = Len(mine.sends)
  /\ \A k \in 1..Len(mine.sends) : Within(mine.sends[k], L) /\ Within(mine.recvs[k], L)

Apart(x, y) == \A e \in Int : ~ (e \in (x[1] + 1)..x[2] /\ e \in (y[1] + 1)..y[2])

Near(k, j, lag) == k - j <= lag /\ j - k <= lag

PlanRight(P, L) ==
  /\ DOMAIN P \subseteq Nat
  /\ \A p \in DOMAIN P : Whole(P[p], L)
  /\ \A p, q \in DOMAIN P : \A k \in 1..Len(P[p].sends), j \in 1..Len(P[q].recvs) :
       (p = q => Near(k, j, P[p].lag)) => Apart(P[p].sends[k], P[q].recvs[j])

LEMMA WholeMore ==
  ASSUME NEW mine, NEW L \in Nat, NEW M \in Nat, L <= M, Whole(mine, L)
  PROVE  Whole(mine, M)
  <1>1. \A range : Within(range, L) => Within(range, M)
    BY DEF Within
  <1> QED
    BY <1>1 DEF Whole

LEMMA Sizes ==
  ASSUME NEW n \in Nat \ {0}
  PROVE  /\ SegmentSize(n) \in Nat \ {0}
         /\ BufferSize(n) \in Nat \ {0}
         /\ Packets(n) \in Nat \ {0}
  <1>1. SegmentSize(n) \in Nat \ {0}
    <2>1. Size \in Nat \ {0}
      BY RingPlanAssumption
    <2> QED
      BY <2>1, CeilDivIs DEF SegmentSize
  <1>2. PICK S : S = SegmentSize(n)
    OBVIOUS
  <1>3. PICK h : h = S \div 2
    OBVIOUS
  <1>4. h \in Int
    BY <1>1, <1>2, <1>3
  <1>5. MinBuffer \in Nat \ {0} /\ MaxBuffer \in Nat \ {0}
    BY RingPlanAssumption
  <1>6. BufferSize(n) = Larger(MinBuffer, Smaller(MaxBuffer, h))
    BY <1>2, <1>3 DEF BufferSize
  <1>7. BufferSize(n) \in Nat \ {0}
    BY <1>4, <1>5, <1>6 DEF Larger, Smaller
  <1> QED
    BY <1>1, <1>7, CeilDivIs DEF Packets

LEMMA PacketIs ==
  ASSUME NEW segment \in Nat, NEW j \in Nat, NEW n \in Nat \ {0}, NEW offset \in Nat
  PROVE  /\ Within(Packet(segment, j, n, offset), offset + n)
         /\ \A e \in Int : e \in (Packet(segment, j, n, offset)[1] + 1)..Packet(segment, j, n, offset)[2] =>
              /\ offset < e /\ e <= offset + n
              /\ segment * SegmentSize(n) < e - offset
              /\ e - offset <= (segment + 1) * SegmentSize(n)
              /\ j * BufferSize(n) < e - offset - segment * SegmentSize(n)
              /\ e - offset - segment * SegmentSize(n) <= (j + 1) * BufferSize(n)
  <1>1. PICK S, B : S = SegmentSize(n) /\ B = BufferSize(n)
    OBVIOUS
  <1>2. S \in Nat \ {0} /\ B \in Nat \ {0}
    BY <1>1, Sizes
  <1>3. PICK start, low, high : start = segment * S /\ low = j * B /\ high = (j + 1) * B
    OBVIOUS
  <1>4. start \in Nat /\ low \in Nat /\ high \in Nat
    BY <1>2, <1>3
  <1>5. (segment + 1) * S = start + S
    BY <1>2, <1>3
  <1>6. PICK stop, x, y : /\ stop = Smaller(start + S, n)
                          /\ x = offset + Smaller(start + low, stop)
                          /\ y = offset + Smaller(start + high, stop)
    OBVIOUS
  <1>7. Packet(segment, j, n, offset) = <<x, y>>
    BY <1>1, <1>3, <1>6 DEF Packet
  <1>8. stop \in Nat /\ stop <= start + S /\ stop <= n
    BY <1>2, <1>4, <1>6 DEF Smaller
  <1>9. x \in Nat /\ (x = offset + start + low \/ x = offset + stop)
    BY <1>4, <1>6, <1>8 DEF Smaller
  <1>10. y \in Nat /\ y <= offset + stop /\ y <= offset + start + high
    BY <1>4, <1>6, <1>8 DEF Smaller
  <1>11. y <= offset + n
    BY <1>8, <1>10
  <1>12. ASSUME NEW e \in Int, e \in (x + 1)..y
         PROVE  /\ offset < e /\ e <= offset + n
                /\ start < e - offset
                /\ e - offset <= start + S
                /\ low < e - offset - start
                /\ e - offset - start <= high
    <2>1. x < e /\ e <= y
      BY <1>9, <1>10, <1>12
    <2>2. x = offset + start + low
      BY <1>8, <1>9, <1>10, <2>1
    <2> QED
      BY <1>2, <1>4, <1>8, <1>10, <1>11, <2>1, <2>2
  <1> QED
    BY <1>1, <1>3, <1>5, <1>7, <1>9, <1>10, <1>11, <1>12 DEF Within

Inside(range, lo, hi) == \A e \in Int : e \in (range[1] + 1)..range[2] => lo < e /\ e <= hi

LEMMA InsideMore ==
  ASSUME NEW range, NEW lo \in Int, NEW hi \in Int, NEW most \in Int, hi <= most,
         Inside(range, lo, hi)
  PROVE  Inside(range, lo, most)
  BY DEF Inside

(* Blocks of b elements within segments of n.                                *)
LEMMA Grid ==
  ASSUME NEW s \in Nat, NEW t \in Nat, NEW j \in Nat, NEW k \in Nat, s # t \/ j # k,
         NEW n \in Nat, NEW b \in Nat, NEW x \in Int,
         s * n < x, x <= (s + 1) * n, j * b < x - s * n, x - s * n <= (j + 1) * b,
         t * n < x, x <= (t + 1) * n, k * b < x - t * n, x - t * n <= (k + 1) * b
  PROVE  FALSE
  <1>1. CASE s # t
    BY <1>1, Blocks
  <1>2. CASE s = t
    <2>1. PICK m, y : m = s * n /\ y = x - m
      OBVIOUS
    <2>2. m \in Nat /\ y \in Int /\ j # k
      BY <1>2, <2>1
    <2>3. j * b < y /\ y <= (j + 1) * b /\ k * b < y /\ y <= (k + 1) * b
      BY <1>2, <2>1
    <2> QED
      BY <2>2, <2>3, Blocks
  <1> QED
    BY <1>1, <1>2

(* Neither round of a part sends what it receives at the same time.          *)
LEMMA PacketsApart ==
  ASSUME NEW n \in Nat \ {0}, NEW offset \in Nat, NEW s \in Nat, NEW t \in Nat, NEW j \in Nat, NEW k \in Nat,
         s # t \/ j # k
  PROVE  Apart(Packet(s, j, n, offset), Packet(t, k, n, offset))
  <1> SUFFICES ASSUME NEW e \in Int,
                      e \in (Packet(s, j, n, offset)[1] + 1)..Packet(s, j, n, offset)[2],
                      e \in (Packet(t, k, n, offset)[1] + 1)..Packet(t, k, n, offset)[2]
               PROVE  FALSE
    BY DEF Apart
  <1>1. PICK S, B, x : S = SegmentSize(n) /\ B = BufferSize(n) /\ x = e - offset
    OBVIOUS
  <1>2. S \in Nat /\ B \in Nat /\ x \in Int
    BY <1>1, Sizes
  <1>3. /\ s * S < x /\ x <= (s + 1) * S
        /\ j * B < x - s * S /\ x - s * S <= (j + 1) * B
    BY <1>1, PacketIs
  <1>4. /\ t * S < x /\ x <= (t + 1) * S
        /\ k * B < x - t * S /\ x - t * S <= (k + 1) * B
    BY <1>1, PacketIs
  <1> QED
    BY <1>2, <1>3, <1>4, Grid

(* At no step of its walk does a rank send the segment that it receives.     *)
LEMMA SegmentsDiffer ==
  ASSUME NEW r \in Int, NEW d \in {-1, 1}, NEW q \in Int
  PROVE  /\ SendSegment(r, d, q) \in 0..(Size - 1)
         /\ RecvSegment(r, d, q) \in 0..(Size - 1)
         /\ SendSegment(r, d, q) # RecvSegment(r, d, q)
  <1>1. Size \in Nat /\ Size > 1
    BY RingPlanAssumption
  <1>2. PICK x, y : x = r + d * q /\ y = r + d * (q + 1)
    OBVIOUS
  <1>3. SendSegment(r, d, q) = x % Size /\ RecvSegment(r, d, q) = y % Size
    BY <1>2 DEF SendSegment, RecvSegment
  <1>4. x \in Int /\ y \in Int /\ (y = x + 1 \/ x = y + 1)
    <2>1. CASE d = 1
      BY <1>2, <2>1
    <2>2. CASE d = -1
      BY <1>2, <2>2
    <2> QED
      BY <2>1, <2>2
  <1>5. x % Size \in 0..(Size - 1) /\ y % Size \in 0..(Size - 1)
    BY <1>1, <1>4
  <1>6. x % Size # y % Size
    <2>1. CASE y = x + 1
      BY <1>1, <1>4, <2>1, RemainderNext
    <2>2. CASE x = y + 1
      BY <1>1, <1>4, <2>2, RemainderNext
    <2> QED
      BY <1>4, <2>1, <2>2
  <1> QED
    BY <1>3, <1>5, <1>6

LEMMA ReducePartIs ==
  ASSUME NEW r \in Int, NEW n \in Nat \ {0}, NEW offset \in Nat, NEW d \in {-1, 1}, NEW link,
         NEW mine, mine = ReducePart(r, n, offset, d, link)
  PROVE  /\ Whole(mine, offset + n)
         /\ \A k \in 1..Len(mine.sends) :
              Inside(mine.sends[k], offset, offset + n) /\ Inside(mine.recvs[k], offset, offset + n)
         /\ \A k, j \in 1..Len(mine.sends) :
              Near(k, j, mine.lag) => Apart(mine.sends[k], mine.recvs[j])
  <1>1. PICK P, count : P = Packets(n) /\ count = 2 * (Size - 1) * P
    OBVIOUS
  <1>2. P \in Nat \ {0} /\ Size \in Nat /\ Size > 1
    BY <1>1, Sizes, RingPlanAssumption
  <1>3. count \in Nat /\ count > 1
    <2>1. PICK u : u = (Size - 1) * P
      OBVIOUS
    <2>2. u \in Nat /\ u >= 1
      <3>1. PICK v : v = Size - 1
        OBVIOUS
      <3>2. v \in Nat \ {0}
        BY <1>2, <3>1
      <3>3. v * P \in Nat \ {0}
        BY <1>2, <3>2
      <3> QED
        BY <2>1, <3>1, <3>3
    <2>3. count = 2 * u
      <3>1. PICK v : v = Size - 1
        OBVIOUS
      <3>2. v \in Nat
        BY <1>2, <3>1
      <3>3. 2 * v * P = 2 * (v * P)
        BY <1>2, <3>2
      <3> QED
        BY <1>1, <2>1, <3>1, <3>3
    <2> QED
      BY <2>2, <2>3
  <1>4. /\ mine.sends = [i \in 1..count |->
              Packet(SendSegment(r, d, (i - 1) \div P), (i - 1) % P, n, offset)]
        /\ mine.recvs = [i \in 1..count |->
              Packet(RecvSegment(r, d, (i - 1) \div P), (i - 1) % P, n, offset)]
        /\ mine.reduced = count \div 2
        /\ mine.lag = IF P > 1 THEN 1 ELSE 0
    BY <1>1 DEF ReducePart
  <1>5. Len(mine.sends) = count /\ Len(mine.recvs) = count
    BY <1>3, <1>4
  <1>6. \A i \in 1..count :
          /\ mine.sends[i] = Packet(SendSegment(r, d, (i - 1) \div P), (i - 1) % P, n, offset)
          /\ mine.recvs[i] = Packet(RecvSegment(r, d, (i - 1) \div P), (i - 1) % P, n, offset)
    BY <1>4
  <1>7. ASSUME NEW i \in 1..count
        PROVE  /\ (i - 1) \div P \in Int /\ (i - 1) % P \in Nat
               /\ SendSegment(r, d, (i - 1) \div P) \in Nat
               /\ RecvSegment(r, d, (i - 1) \div P) \in Nat
    <2>1. i - 1 \in Int
      BY <1>3
    <2>2. PICK q : q = (i - 1) \div P
      OBVIOUS
    <2>3. q \in Int
      BY <1>2, <2>1, <2>2, Quotient
    <2>4. (i - 1) % P \in Nat
      BY <1>2, <2>1
    <2>5. SendSegment(r, d, q) \in 0..(Size - 1) /\ RecvSegment(r, d, q) \in 0..(Size - 1)
      BY <2>3, SegmentsDiffer
    <2> QED
      BY <1>2, <2>2, <2>3, <2>4, <2>5
  <1>8. ASSUME NEW k \in 1..count
        PROVE  /\ Within(mine.sends[k], offset + n) /\ Within(mine.recvs[k], offset + n)
               /\ Inside(mine.sends[k], offset, offset + n) /\ Inside(mine.recvs[k], offset, offset + n)
    <2>1. PICK s, t, j : /\ s = SendSegment(r, d, (k - 1) \div P)
                         /\ t = RecvSegment(r, d, (k - 1) \div P)
                         /\ j = (k - 1) % P
      OBVIOUS
    <2>2. s \in Nat /\ t \in Nat /\ j \in Nat
      BY <1>7, <2>1
    <2>3. mine.sends[k] = Packet(s, j, n, offset) /\ mine.recvs[k] = Packet(t, j, n, offset)
      BY <1>6, <2>1
    <2> QED
      BY <2>2, <2>3, PacketIs DEF Inside
  <1>9. ASSUME NEW k \in 1..count, NEW j \in 1..count, Near(k, j, mine.lag)
        PROVE  Apart(mine.sends[k], mine.recvs[j])
    <2>1. PICK s, t, x, y : /\ s = SendSegment(r, d, (k - 1) \div P)
                            /\ t = RecvSegment(r, d, (j - 1) \div P)
                            /\ x = (k - 1) % P
                            /\ y = (j - 1) % P
      OBVIOUS
    <2>2. s \in Nat /\ t \in Nat /\ x \in Nat /\ y \in Nat
      BY <1>7, <2>1
    <2>3. mine.sends[k] = Packet(s, x, n, offset) /\ mine.recvs[j] = Packet(t, y, n, offset)
      BY <1>6, <2>1
    <2>4. s # t \/ x # y
      <3>1. CASE k = j
        <4>1. PICK q : q = (k - 1) \div P
          OBVIOUS
        <4>2. q \in Int
          BY <1>7, <4>1
        <4> QED
          BY <2>1, <3>1, <4>1, <4>2, SegmentsDiffer
      <3>2. CASE k # j
        <4>1. P > 1 /\ (k = j + 1 \/ j = k + 1)
          <5>1. PICK lag : lag = mine.lag
            OBVIOUS
          <5>2. lag = IF P > 1 THEN 1 ELSE 0
            BY <1>4, <5>1
          <5>3. k - j <= lag /\ j - k <= lag
            BY <1>9, <5>1 DEF Near
          <5> QED
            BY <1>3, <3>2, <5>2, <5>3
        <4>2. CASE k = j + 1
          <5>1. j - 1 \in Int /\ k - 1 = (j - 1) + 1
            BY <1>3, <4>2
          <5> QED
            BY <1>2, <2>1, <4>1, <5>1, RemainderNext
        <4>3. CASE j = k + 1
          <5>1. k - 1 \in Int /\ j - 1 = (k - 1) + 1
            BY <1>3, <4>3
          <5> QED
            BY <1>2, <2>1, <4>1, <5>1, RemainderNext
        <4> QED
          BY <4>1, <4>2, <4>3
      <3> QED
        BY <3>1, <3>2
    <2>5. Apart(Packet(s, x, n, offset), Packet(t, y, n, offset))
      BY <2>2, <2>4, PacketsApart
    <2> QED
      BY <2>3, <2>5
  <1>10. mine.lag \in {0, 1} /\ mine.reduced \in Nat /\ count > mine.lag
    <2>1. PICK h : h = count \div 2
      OBVIOUS
    <2>2. h \in Nat
      BY <1>3, <2>1
    <2> QED
      BY <1>3, <1>4, <2>1, <2>2
  <1> QED
    BY <1>3, <1>5, <1>8, <1>9, <1>10 DEF Whole

-----------------------------------------------------------------------------
(* The parts of every kind of call.                                          *)
LEMMA CountIs ==
  ASSUME NEW n \in Nat, n >= Size
  PROVE  /\ ReduceCount(n) \in Nat \ {0}
         /\ (ReduceCount(n) - 1) * CeilDiv(n, ReduceCount(n)) < n
  <1>1. PICK c, M, f : c = ReduceCount(n) /\ M = Size * MinSend /\ f = n \div M
    OBVIOUS
  <1>2. Size \in Nat /\ Size > 1 /\ Links \in Nat \ {0} /\ MinSend \in Nat \ {0}
    BY RingPlanAssumption
  <1>3. M \in Nat \ {0}
    BY <1>1, <1>2
  <1>4. f \in Int /\ M * f <= n
    <2>1. n \in Int /\ f = n \div M
      BY <1>1
    <2>2. n \div M \in Int /\ M * (n \div M) <= n
      BY <1>3, <2>1, Quotient
    <2> QED
      BY <2>1, <2>2
  <1>5. c = Larger(1, Smaller(2 * Links, f))
    BY <1>1 DEF ReduceCount
  <1>6. c \in Nat \ {0} /\ (c = 1 \/ (c <= f /\ c <= 2 * Links))
    BY <1>2, <1>4, <1>5 DEF Larger, Smaller
  <1>7. PICK m, s : m = n + c - 1 /\ s = m \div c
    OBVIOUS
  <1>8. n > 0 /\ m \in Nat
    BY <1>2, <1>6, <1>7
  <1>9. s \in Int /\ c * s <= m /\ m < c * s + c
    BY <1>6, <1>7, <1>8, Quotient
  <1>10. CeilDiv(n, c) = s
    BY <1>7 DEF CeilDiv
  <1>11. (c - 1) * s < n
    <2>1. CASE c = 1
      <3>1. (c - 1) * s = 0
        BY <1>9, <2>1
      <3> QED
        BY <1>8, <3>1
    <2>2. CASE c # 1
      <3>1. c <= f /\ c <= M + 1
        BY <1>1, <1>2, <1>3, <1>4, <1>6, <2>2, RingPlanAssumption
      <3>2. M * c <= n
        <4>1. M * c <= M * f
          BY <1>3, <1>4, <1>6, <3>1
        <4>2. PICK u, v : u = M * c /\ v = M * f
          OBVIOUS
        <4>3. u \in Int /\ v \in Int
          BY <1>3, <1>4, <1>6, <4>2
        <4> QED
          BY <1>4, <4>1, <4>2, <4>3
      <3>3. (c - 1) * c <= n
        <4>1. PICK d : d = c - 1
          OBVIOUS
        <4>2. d \in Nat /\ d <= M
          BY <1>3, <1>6, <3>1, <4>1
        <4>3. d * c <= M * c
          BY <1>3, <1>6, <4>2
        <4>4. PICK u, v : u = d * c /\ v = M * c
          OBVIOUS
        <4>5. u \in Int /\ v \in Int
          BY <1>3, <1>6, <4>2, <4>4
        <4> QED
          BY <3>2, <4>1, <4>3, <4>4, <4>5
      <3>4. PICK u : u = c * s
        OBVIOUS
      <3>5. u \in Int /\ (c - 1) * s = u - s
        BY <1>6, <1>9, <3>4
      <3>6. u <= n + c - 1 /\ n <= u
        BY <1>6, <1>7, <1>8, <1>9, <3>4, <3>5
      <3>7. CASE s >= c
        BY <1>6, <1>9, <3>5, <3>6, <3>7
      <3>8. CASE s = c - 1
        <4>1. u = (c - 1) * c
          BY <1>6, <3>4, <3>8
        <4>2. PICK v : v = (c - 1) * c
          OBVIOUS
        <4>3. v <= n /\ u = v
          BY <3>3, <4>1, <4>2
        <4>4. s > 0
          BY <1>6, <2>2, <3>8
        <4> QED
          BY <1>9, <3>5, <3>6, <4>3, <4>4
      <3>9. s >= c - 1
        <4>1. SUFFICES ASSUME s <= c - 2 PROVE FALSE
          BY <1>6, <1>9
        <4>2. c * s <= c * (c - 2)
          BY <1>6, <1>9, <4>1
        <4>3. c * (c - 2) = c * c - 2 * c /\ (c - 1) * c = c * c - c
          BY <1>6
        <4>4. PICK v : v = c * c
          OBVIOUS
        <4>5. v \in Int
          BY <1>6, <4>4
        <4>6. u <= v - 2 * c /\ v - c <= n
          BY <3>3, <3>4, <4>2, <4>3, <4>4
        <4> QED
          BY <1>6, <3>5, <3>6, <4>5, <4>6
      <3> QED
        BY <1>6, <1>9, <3>7, <3>8, <3>9
    <2> QED
      BY <2>1, <2>2
  <1> QED
    BY <1>1, <1>6, <1>10, <1>11

LEMMA ReducePartsRight ==
  ASSUME NEW r \in Int, NEW n \in Nat \ {0}
  PROVE  PlanRight(ReduceParts(r, n), Larger(n, Size))
  <1>1. Size \in Nat /\ Size > 1
    BY RingPlanAssumption
  <1>2. CASE n < Size
    <2>1. PICK mine : mine = ReducePart(r, Size, 0, -1, 0)
      OBVIOUS
    <2>2. Size \in Nat \ {0} /\ 0 \in Nat /\ -1 \in {-1, 1}
      BY <1>1
    <2>3. /\ Whole(mine, 0 + Size)
          /\ \A k, j \in 1..Len(mine.sends) :
               Near(k, j, mine.lag) => Apart(mine.sends[k], mine.recvs[j])
      BY <2>1, <2>2, ReducePartIs
    <2>4. ReduceParts(r, n) = <<mine>>
      BY <1>2, <2>1 DEF ReduceParts
    <2>5. 0 + Size = Size /\ Larger(n, Size) = Size
      BY <1>1, <1>2 DEF Larger
    <2>6. Whole(mine, Size)
      BY <2>3, <2>5
    <2>7. Len(mine.recvs) = Len(mine.sends)
      BY <2>6 DEF Whole
    <2>8. DOMAIN <<mine>> = {1} /\ <<mine>>[1] = mine
      OBVIOUS
    <2> QED
      BY <2>3, <2>4, <2>5, <2>6, <2>7, <2>8 DEF PlanRight
  <1>3. CASE n >= Size
    <2>1. PICK P, c, s : P = ReduceParts(r, n) /\ c = ReduceCount(n) /\ s = CeilDiv(n, c)
      OBVIOUS
    <2>2. c \in Nat \ {0} /\ (c - 1) * s < n
      BY <1>3, <2>1, CountIs
    <2>3. s \in Nat \ {0}
      BY <2>1, <2>2, CeilDivIs
    <2>4. DOMAIN P = 1..c
      BY <1>1, <1>3, <2>1 DEF ReduceParts
    <2>5. \A p \in 1..c :
            P[p] = ReducePart(r, Smaller(n, p * s) - (p - 1) * s, (p - 1) * s,
                              IF p % 2 = 0 THEN -1 ELSE 1, (p - 1) \div 2)
      BY <1>1, <1>3, <2>1 DEF ReduceParts
    <2>6. ASSUME NEW p \in 1..c
          PROVE  /\ Whole(P[p], n)
                 /\ \A k \in 1..Len(P[p].sends) :
                      /\ Inside(P[p].sends[k], (p - 1) * s, p * s)
                      /\ Inside(P[p].recvs[k], (p - 1) * s, p * s)
                 /\ \A k, j \in 1..Len(P[p].sends) :
                      Near(k, j, P[p].lag) => Apart(P[p].sends[k], P[p].recvs[j])
      <3>1. PICK x, y, z, d, link :
              /\ x = (p - 1) * s /\ y = p * s /\ z = Smaller(n, y) - x
              /\ d = (IF p % 2 = 0 THEN -1 ELSE 1) /\ link = (p - 1) \div 2
        OBVIOUS
      <3>2. x \in Nat /\ y \in Nat /\ y = x + s
        BY <2>2, <2>3, <3>1
      <3>3. x < n
        <4>1. (p - 1) * s <= (c - 1) * s
          BY <2>2, <2>3
        <4>2. PICK w : w = (c - 1) * s
          OBVIOUS
        <4>3. w \in Nat
          BY <2>2, <2>3, <4>2
        <4> QED
          BY <2>2, <3>1, <3>2, <4>1, <4>2, <4>3
      <3>4. z \in Nat \ {0} /\ x + z <= n /\ x + z <= y
        BY <2>3, <3>1, <3>2, <3>3 DEF Smaller
      <3>5. d \in {-1, 1} /\ P[p] = ReducePart(r, z, x, d, link)
        BY <2>5, <3>1
      <3>6. /\ Whole(P[p], x + z)
            /\ \A k \in 1..Len(P[p].sends) :
                 Inside(P[p].sends[k], x, x + z) /\ Inside(P[p].recvs[k], x, x + z)
            /\ \A k, j \in 1..Len(P[p].sends) :
                 Near(k, j, P[p].lag) => Apart(P[p].sends[k], P[p].recvs[j])
        BY <3>2, <3>4, <3>5, ReducePartIs
      <3>7. Whole(P[p], n)
        <4>1. x + z \in Nat /\ n \in Nat /\ x + z <= n
          BY <3>2, <3>4
        <4> QED
          BY <3>6, <4>1, WholeMore
      <3>8. \A k \in 1..Len(P[p].sends) :
              Inside(P[p].sends[k], x, y) /\ Inside(P[p].recvs[k], x, y)
        <4>1. x \in Int /\ x + z \in Int /\ y \in Int /\ x + z <= y
          BY <3>2, <3>4
        <4> QED
          BY <3>6, <4>1, InsideMore
      <3> QED
        BY <3>1, <3>6, <3>7, <3>8
    <2>7. ASSUME NEW p \in 1..c, NEW q \in 1..c,
                 NEW k \in 1..Len(P[p].sends), NEW j \in 1..Len(P[q].recvs),
                 p = q => Near(k, j, P[p].lag)
          PROVE  Apart(P[p].sends[k], P[q].recvs[j])
      <3>1. Whole(P[q], n)
        BY <2>6
      <3>2. j \in 1..Len(P[q].sends)
        BY <3>1 DEF Whole
      <3>3. CASE p = q
        BY <2>6, <2>7, <3>2, <3>3
      <3>4. CASE p # q
        <4>1. PICK a, b : a = p - 1 /\ b = q - 1
          OBVIOUS
        <4>2. a \in Nat /\ b \in Nat /\ a # b /\ a + 1 = p /\ b + 1 = q
          BY <2>2, <3>4, <4>1
        <4>3. Inside(P[p].sends[k], a * s, p * s) /\ Inside(P[q].recvs[j], b * s, q * s)
          BY <2>6, <3>2, <4>1
        <4>4. SUFFICES ASSUME NEW e \in Int,
                              e \in (P[p].sends[k][1] + 1)..P[p].sends[k][2],
                              e \in (P[q].recvs[j][1] + 1)..P[q].recvs[j][2]
                       PROVE  FALSE
          BY DEF Apart
        <4>5. a * s < e /\ e <= (a + 1) * s /\ b * s < e /\ e <= (b + 1) * s
          BY <4>2, <4>3, <4>4 DEF Inside
        <4>6. s \in Nat
          BY <2>3
        <4> QED
          BY <4>2, <4>5, <4>6, Blocks
      <3> QED
        BY <3>3, <3>4
    <2>8. Larger(n, Size) = n
      BY <1>1, <1>3 DEF Larger
    <2> QED
      <3>1. DOMAIN P \subseteq Nat
        BY <2>2, <2>4
      <3>2. \A p \in DOMAIN P : Whole(P[p], n)
        BY <2>4, <2>6
      <3>3. \A p, q \in DOMAIN P : \A k \in 1..Len(P[p].sends), j \in 1..Len(P[q].recvs) :
              (p = q => Near(k, j, P[p].lag)) => Apart(P[p].sends[k], P[q].recvs[j])
        BY <2>4, <2>7
      <3> QED
        BY <2>1, <2>8, <3>1, <3>2, <3>3 DEF PlanRight
  <1> QED
    BY <1>1, <1>2, <1>3

LEMMA GatherPartsRight ==
  ASSUME NEW r \in Int, NEW n \in Nat \ {0}
  PROVE  PlanRight(GatherParts(r, n), Size * n)
  <1>1. Size \in Nat /\ Size > 1 /\ Links \in Nat \ {0} /\ MinSend \in Nat \ {0}
    BY RingPlanAssumption
  <1>2. PICK c, per, P : /\ c = Larger(1, Smaller(2 * Links, n \div MinSend))
                         /\ per = CeilDiv(n, c)
                         /\ P = GatherParts(r, n)
    OBVIOUS
  <1>3. c \in Nat \ {0}
    <2>1. PICK f : f = n \div MinSend
      OBVIOUS
    <2>2. f \in Int
      BY <1>1, <2>1, Quotient
    <2>3. c = Larger(1, Smaller(2 * Links, f))
      BY <1>2, <2>1
    <2> QED
      BY <1>1, <2>2, <2>3 DEF Larger, Smaller
  <1>4. per \in Nat \ {0}
    BY <1>2, <1>3, CeilDivIs
  <1> DEFINE Piece(s, p) == <<s * n + (p - 1) * per, s * n + Smaller(n, p * per)>>
             D(p) == IF p % 2 = 0 THEN -1 ELSE 1
  <1>5. DOMAIN P = 1..c
    BY <1>2 DEF GatherParts
  <1>6. \A p \in 1..c :
          /\ P[p].sends = [k \in 1..(Size - 1) |-> Piece(SendSegment(r, D(p), k - 1), p)]
          /\ P[p].recvs = [k \in 1..(Size - 1) |-> Piece(RecvSegment(r, D(p), k - 1), p)]
          /\ P[p].reduced = 0 /\ P[p].lag = 0
    BY <1>2 DEF GatherParts
  <1>7. \A p \in 1..c : D(p) \in {-1, 1}
    OBVIOUS
  <1>8. ASSUME NEW p \in 1..c
        PROVE  Len(P[p].sends) = Size - 1 /\ Len(P[p].recvs) = Size - 1
    <2>1. PICK m, d : m = Size - 1 /\ d = D(p)
      OBVIOUS
    <2>2. m \in Nat
      BY <1>1, <2>1
    <2>3. /\ P[p].sends = [k \in 1..m |-> Piece(SendSegment(r, d, k - 1), p)]
          /\ P[p].recvs = [k \in 1..m |-> Piece(RecvSegment(r, d, k - 1), p)]
      BY <1>6, <2>1
    <2> HIDE DEF Piece, D
    <2> QED
      BY <2>1, <2>2, <2>3
  <1>9. ASSUME NEW p \in 1..c, NEW k \in 1..(Size - 1)
        PROVE  \E s, t \in 0..(Size - 1) :
                 s # t /\ P[p].sends[k] = Piece(s, p) /\ P[p].recvs[k] = Piece(t, p)
    <2>1. PICK q : q = k - 1
      OBVIOUS
    <2>2. q \in Int
      BY <1>1, <2>1
    <2>3. P[p].sends[k] = Piece(SendSegment(r, D(p), q), p)
      BY <1>6, <2>1
    <2>4. P[p].recvs[k] = Piece(RecvSegment(r, D(p), q), p)
      BY <1>6, <2>1
    <2>5. /\ SendSegment(r, D(p), q) \in 0..(Size - 1)
          /\ RecvSegment(r, D(p), q) \in 0..(Size - 1)
          /\ SendSegment(r, D(p), q) # RecvSegment(r, D(p), q)
      BY <1>7, <2>2, SegmentsDiffer
    <2> HIDE DEF Piece, D
    <2> QED
      BY <2>3, <2>4, <2>5
  <1>10. ASSUME NEW s \in 0..(Size - 1), NEW p \in 1..c
         PROVE  /\ Within(Piece(s, p), Size * n)
                /\ \A e \in Int : e \in (Piece(s, p)[1] + 1)..Piece(s, p)[2] =>
                     /\ s * n < e /\ e <= (s + 1) * n
                     /\ (p - 1) * per < e - s * n /\ e - s * n <= p * per
    <2>1. PICK m, x, y, z, M : /\ m = s * n /\ x = (p - 1) * per /\ y = p * per
                               /\ z = Smaller(n, y) /\ M = Size * n
      OBVIOUS
    <2>2. s \in Nat /\ m \in Nat /\ x \in Nat /\ y \in Nat
      BY <1>1, <1>3, <1>4, <2>1
    <2>3. m + n <= M /\ (s + 1) * n = m + n
      <3>1. (s + 1) * n <= Size * n
        BY <1>1, <2>2
      <3>2. (s + 1) * n = m + n
        BY <2>1, <2>2
      <3> QED
        BY <2>1, <3>1, <3>2
    <2>4. M \in Nat
      BY <1>1, <2>1
    <2>5. z \in Nat /\ z <= n /\ z <= y
      BY <2>1, <2>2 DEF Smaller
    <2>6. Piece(s, p) = <<m + x, m + z>>
      BY <2>1
    <2>7. m + x \in Nat /\ m + z \in Nat /\ m + z <= M
      BY <2>2, <2>3, <2>4, <2>5
    <2>8. \A e \in Int : e \in (m + x + 1)..(m + z) =>
            m < e /\ e <= m + n /\ x < e - m /\ e - m <= y
      BY <2>2, <2>5, <2>7
    <2> QED
      BY <2>1, <2>3, <2>6, <2>7, <2>8 DEF Within
  <1>11. ASSUME NEW s \in 0..(Size - 1), NEW t \in 0..(Size - 1), NEW p \in 1..c, NEW q \in 1..c,
                s # t \/ p # q
         PROVE  Apart(Piece(s, p), Piece(t, q))
    <2>1. PICK a, b : a = p - 1 /\ b = q - 1
      OBVIOUS
    <2>2. a \in Nat /\ b \in Nat /\ a + 1 = p /\ b + 1 = q /\ (s # t \/ a # b) /\ s \in Nat /\ t \in Nat
      BY <1>1, <1>3, <1>11, <2>1
    <2>3. SUFFICES ASSUME NEW e \in Int,
                          e \in (Piece(s, p)[1] + 1)..Piece(s, p)[2],
                          e \in (Piece(t, q)[1] + 1)..Piece(t, q)[2]
                   PROVE  FALSE
      BY DEF Apart
    <2> HIDE DEF Piece
    <2>4. /\ s * n < e /\ e <= (s + 1) * n
          /\ a * per < e - s * n /\ e - s * n <= (a + 1) * per
      BY <1>10, <2>1, <2>2, <2>3
    <2>5. /\ t * n < e /\ e <= (t + 1) * n
          /\ b * per < e - t * n /\ e - t * n <= (b + 1) * per
      BY <1>10, <2>1, <2>2, <2>3
    <2>6. n \in Nat /\ per \in Nat
      BY <1>4
    <2> QED
      BY <2>2, <2>4, <2>5, <2>6, Grid
  <1> HIDE DEF Piece, D
  <1>12. ASSUME NEW p \in 1..c
         PROVE  Whole(P[p], Size * n)
    <2>1. \A k \in 1..(Size - 1) : Within(P[p].sends[k], Size * n) /\ Within(P[p].recvs[k], Size * n)
      BY <1>9, <1>10
    <2>2. Size - 1 \in Nat /\ Size - 1 > 0
      BY <1>1
    <2>3. P[p].reduced = 0 /\ P[p].lag = 0
      BY <1>6
    <2> QED
      BY <1>8, <2>1, <2>2, <2>3 DEF Whole
  <1>13. ASSUME NEW p \in 1..c, NEW q \in 1..c,
                NEW k \in 1..Len(P[p].sends), NEW j \in 1..Len(P[q].recvs),
                p = q => Near(k, j, P[p].lag)
         PROVE  Apart(P[p].sends[k], P[q].recvs[j])
    <2>1. k \in 1..(Size - 1) /\ j \in 1..(Size - 1)
      BY <1>8
    <2>2. CASE p = q
      <3>1. k = j
        <4>1. k - j <= 0 /\ j - k <= 0
          BY <1>6, <1>13, <2>2 DEF Near
        <4> QED
          BY <1>1, <2>1, <4>1
      <3> QED
        BY <1>9, <1>11, <2>1, <2>2, <3>1
    <2>3. CASE p # q
      <3>1. PICK s \in 0..(Size - 1) : P[p].sends[k] = Piece(s, p)
        BY <1>9, <2>1
      <3>2. PICK t \in 0..(Size - 1) : P[q].recvs[j] = Piece(t, q)
        BY <1>9, <2>1
      <3> QED
        BY <1>11, <2>3, <3>1, <3>2
    <2> QED
      BY <2>2, <2>3
  <1>14. DOMAIN P \subseteq Nat
    BY <1>3, <1>5
  <1>15. \A p \in DOMAIN P : Whole(P[p], Size * n)
    BY <1>5, <1>12
  <1>16. \A p, q \in DOMAIN P : \A k \in 1..Len(P[p].sends), j \in 1..Len(P[q].recvs) :
           (p = q => Near(k, j, P[p].lag)) => Apart(P[p].sends[k], P[q].recvs[j])
    BY <1>5, <1>13
  <1> QED
    BY <1>2, <1>14, <1>15, <1>16 DEF PlanRight

LEMMA ChunksAre ==
  ASSUME NEW n \in Nat \ {0}
  PROVE  /\ DOMAIN Chunks(n) \subseteq Nat
         /\ \A i \in DOMAIN Chunks(n) : Within(Chunks(n)[i], n)
  <1>1. Links \in Nat \ {0} /\ MinChunk \in Nat \ {0}
    BY RingPlanAssumption
  <1>2. PICK m, per : m = CeilDiv(n, Links) /\ per = Larger(MinChunk, m)
    OBVIOUS
  <1>3. m \in Nat \ {0}
    BY <1>1, <1>2, CeilDivIs
  <1>4. per \in Nat \ {0}
    BY <1>1, <1>2, <1>3 DEF Larger
  <1>5. PICK u, w : u = CeilDiv(n, per) /\ w = Smaller(Links, u)
    OBVIOUS
  <1>6. u \in Nat \ {0}
    BY <1>4, <1>5, CeilDivIs
  <1>7. w \in Nat
    BY <1>1, <1>5, <1>6 DEF Smaller
  <1>8. Chunks(n) = [i \in 1..w |-> <<(i - 1) * per, Smaller(n, i * per)>>]
    BY <1>2, <1>5 DEF Chunks
  <1>9. ASSUME NEW i \in 1..w
        PROVE  Within(<<(i - 1) * per, Smaller(n, i * per)>>, n)
    <2>1. PICK x, y : x = (i - 1) * per /\ y = i * per
      OBVIOUS
    <2>2. x \in Nat /\ y \in Nat
      BY <1>4, <1>7, <2>1
    <2>3. Smaller(n, y) \in Nat /\ Smaller(n, y) <= n
      BY <2>2 DEF Smaller
    <2> QED
      BY <2>1, <2>2, <2>3 DEF Within
  <1> QED
    BY <1>7, <1>8, <1>9

LEMMA AloneIs ==
  ASSUME NEW side, NEW link, NEW x, NEW y, NEW L \in Nat, Within(x, L), Within(y, L),
         NEW mine, mine = Alone(side, link, <<x>>, <<y>>)
  PROVE  /\ Whole(mine, L) /\ Len(mine.sends) = 1 /\ Len(mine.recvs) = 1
         /\ mine.sends[1] = x /\ mine.recvs[1] = y
  <1>1. mine.sends = <<x>> /\ mine.recvs = <<y>> /\ mine.lag = 0 /\ mine.reduced = 0
    BY DEF Alone
  <1>2. Len(<<x>>) = 1 /\ Len(<<y>>) = 1 /\ <<x>>[1] = x /\ <<y>>[1] = y
    OBVIOUS
  <1>3. \A k \in 1..1 : k = 1
    OBVIOUS
  <1>4. \A k \in 1..1 : Within(<<x>>[k], L) /\ Within(<<y>>[k], L)
    BY <1>2, <1>3
  <1>5. 1 > 0 /\ 1 \in Nat /\ 0 \in {0, 1} /\ 0 \in Nat
    OBVIOUS
  <1> QED
    BY <1>1, <1>2, <1>4, <1>5 DEF Whole

Nothing == <<0, 0>>

LEMMA AloneRight ==
  ASSUME NEW P, DOMAIN P \subseteq Nat, NEW L,
         \A i \in DOMAIN P :
           Whole(P[i], L) /\ Len(P[i].sends) = 1 /\ Len(P[i].recvs) = 1,
         \/ \A i \in DOMAIN P : P[i].sends[1] = Nothing
         \/ \A i \in DOMAIN P : P[i].recvs[1] = Nothing
  PROVE  PlanRight(P, L)
  <1>1. \A x : Apart(x, Nothing) /\ Apart(Nothing, x)
    BY DEF Apart, Nothing
  <1>2. ASSUME NEW p \in DOMAIN P, NEW q \in DOMAIN P,
               NEW k \in 1..Len(P[p].sends), NEW j \in 1..Len(P[q].recvs)
        PROVE  Apart(P[p].sends[k], P[q].recvs[j])
    <2>1. k \in 1..1 /\ j \in 1..1
      BY <1>2
    <2>2. k = 1 /\ j = 1
      BY <2>1
    <2> QED
      BY <1>1, <2>2
  <1> QED
    BY <1>2 DEF PlanRight

LEMMA SendPartsRight ==
  ASSUME NEW r, NEW other, NEW n \in Nat \ {0}
  PROVE  PlanRight(SendParts(r, other, n), n) /\ PlanRight(RecvParts(r, other, n), n)
  <1>1. PICK C, I : C = Chunks(n) /\ I = DOMAIN C
    OBVIOUS
  <1>2. I \subseteq Nat /\ \A i \in I : Within(C[i], n)
    BY <1>1, ChunksAre
  <1>3. Within(Nothing, n) /\ n \in Nat
    BY DEF Within, Nothing
  <1>4. PlanRight(SendParts(r, other, n), n)
    <2>1. PICK P, side : P = SendParts(r, other, n) /\ side = IF other = Right(r) THEN "right" ELSE "left"
      OBVIOUS
    <2>2. P = [i \in I |-> Alone(side, i - 1, <<C[i]>>, <<Nothing>>)]
      BY <1>1, <2>1 DEF SendParts, Nothing
    <2>3. DOMAIN P = I
      BY <2>2
    <2>4. ASSUME NEW i \in I
          PROVE  /\ Whole(P[i], n) /\ Len(P[i].sends) = 1 /\ Len(P[i].recvs) = 1
                 /\ P[i].recvs[1] = Nothing
      <3>1. P[i] = Alone(side, i - 1, <<C[i]>>, <<Nothing>>)
        BY <2>2
      <3>2. Within(C[i], n)
        BY <1>2
      <3> QED
        BY <1>3, <3>1, <3>2, AloneIs
    <2>5. PlanRight(P, n)
      BY <1>2, <2>3, <2>4, AloneRight
    <2> QED
      BY <2>1, <2>5
  <1>5. PlanRight(RecvParts(r, other, n), n)
    <2>1. PICK P, side : P = RecvParts(r, other, n) /\ side = Other(IF other = Left(r) THEN "left" ELSE "right")
      OBVIOUS
    <2>2. P = [i \in I |-> Alone(side, i - 1, <<Nothing>>, <<C[i]>>)]
      BY <1>1, <2>1 DEF RecvParts, Nothing
    <2>3. DOMAIN P = I
      BY <2>2
    <2>4. ASSUME NEW i \in I
          PROVE  /\ Whole(P[i], n) /\ Len(P[i].sends) = 1 /\ Len(P[i].recvs) = 1
                 /\ P[i].sends[1] = Nothing
      <3>1. P[i] = Alone(side, i - 1, <<Nothing>>, <<C[i]>>)
        BY <2>2
      <3>2. Within(C[i], n)
        BY <1>2
      <3> QED
        BY <1>3, <3>1, <3>2, AloneIs
    <2>5. PlanRight(P, n)
      BY <1>2, <2>3, <2>4, AloneRight
    <2> QED
      BY <2>1, <2>5
  <1> QED
    BY <1>4, <1>5

-----------------------------------------------------------------------------
(* Sequences of whatever values.                                             *)
IsSeq(x) == \E V : x \in Seq(V)

LEMMA SeqIs ==
  ASSUME NEW x, IsSeq(x)
  PROVE  Len(x) \in Nat /\ DOMAIN x = 1..Len(x)
  BY DEF IsSeq

LEMMA SeqMade ==
  ASSUME NEW n \in Nat, NEW f, f = [e \in 1..n |-> f[e]]
  PROVE  IsSeq(f) /\ Len(f) = n
  <1>1. f \in [1..n -> {f[e] : e \in 1..n}]
    OBVIOUS
  <1>2. PICK V : V = {f[e] : e \in 1..n}
    OBVIOUS
  <1>3. f \in Seq(V) /\ Len(f) = n
    BY <1>1, <1>2
  <1> QED
    BY <1>3 DEF IsSeq

LEMMA SeqJoin ==
  ASSUME NEW x, NEW y, IsSeq(x), IsSeq(y)
  PROVE  IsSeq(x \o y) /\ Len(x \o y) = Len(x) + Len(y)
  <1>1. PICK V : x \in Seq(V)
    BY DEF IsSeq
  <1>2. PICK W : y \in Seq(W)
    BY DEF IsSeq
  <1>3. PICK U : U = V \cup W
    OBVIOUS
  <1>4. V \subseteq U /\ W \subseteq U
    BY <1>3
  <1>5. x \in Seq(U) /\ y \in Seq(U)
    BY <1>1, <1>2, <1>4, SeqMonotonic
  <1>6. x \o y \in Seq(U) /\ Len(x \o y) = Len(x) + Len(y)
    BY <1>5, ConcatProperties
  <1> QED
    BY <1>6 DEF IsSeq

LEMMA SeqCut ==
  ASSUME NEW x, IsSeq(x), NEW m \in Int, NEW n \in Int, 1 <= m, n <= Len(x)
  PROVE  IsSeq(SubSeq(x, m, n))
  <1>1. PICK V : x \in Seq(V)
    BY DEF IsSeq
  <1>2. \A i \in m..n : x[i] \in V
    <2>1. Len(x) \in Nat
      BY <1>1
    <2>2. \A i \in m..n : i \in 1..Len(x)
      BY <2>1
    <2> QED
      BY <1>1, <2>2, ElementOfSeq
  <1>3. SubSeq(x, m, n) \in Seq(V)
    BY <1>2, SubSeqProperties
  <1> QED
    BY <1>3 DEF IsSeq

LEMMA CallIs ==
  ASSUME NEW c \in 1..Len(Calls)
  PROVE  /\ Calls[c].n \in Nat \ {0}
         /\ Calls[c].kind \in {"all_reduce", "all_gather", "send"}
  <1>1. Calls[c] \in [kind : {"all_reduce", "all_gather", "send"},
                      n : Nat \ {0}, src : Rank, dst : Rank]
    BY RingAssumption, ElementOfSeq
  <1> QED
    BY <1>1

(* The parts of a call stay within the buffer that is prepared for it.       *)
LEMMA PreparedIs ==
  ASSUME NEW c \in 1..Len(Calls), NEW r \in Rank, Takes(c, r)
  PROVE  IsSeq(Prepared(c, r)) /\ PlanRight(Parts(c, r), Len(Prepared(c, r)))
  <1>1. PICK n : n = Calls[c].n
    OBVIOUS
  <1>2. n \in Nat \ {0} /\ Calls[c].kind \in {"all_reduce", "all_gather", "send"}
    BY <1>1, CallIs
  <1>3. Size \in Nat /\ Size > 1 /\ r \in Int /\ 0 <= r /\ r <= Size - 1
    BY RingPlanAssumption DEF Rank
  <1>4. ASSUME NEW m \in Nat
        PROVE  IsSeq(Blank(m)) /\ Len(Blank(m)) = m
    BY SeqMade DEF Blank
  <1>5. IsSeq(Input(c, r)) /\ Len(Input(c, r)) = n
    <2>1. n \in Nat
      BY <1>2
    <2>2. PICK f : f = Input(c, r)
      OBVIOUS
    <2>3. f = [e \in 1..n |-> f[e]]
      BY <1>1, <2>2 DEF Input
    <2>4. IsSeq(f) /\ Len(f) = n
      BY <2>1, <2>3, SeqMade
    <2> QED
      BY <2>2, <2>4
  <1>6. CASE Calls[c].kind = "all_reduce"
    <2>1. PICK m : m = Larger(0, Size - n)
      OBVIOUS
    <2>2. m \in Nat /\ n + m = Larger(n, Size)
      <3>1. n \in Int /\ Size \in Int
        BY <1>2, <1>3
      <3>2. m = IF 0 < Size - n THEN Size - n ELSE 0
        BY <2>1 DEF Larger
      <3>3. Larger(n, Size) = IF n < Size THEN Size ELSE n
        BY DEF Larger
      <3> QED
        BY <3>1, <3>2, <3>3
    <2>3. Prepared(c, r) = Input(c, r) \o Blank(Larger(0, Size - Calls[c].n))
      BY <1>6 DEF Prepared
    <2>4. IsSeq(Prepared(c, r)) /\ Len(Prepared(c, r)) = n + m
      <3>1. PICK x, y : x = Input(c, r) /\ y = Blank(m)
        OBVIOUS
      <3>2. IsSeq(x) /\ Len(x) = n /\ IsSeq(y) /\ Len(y) = m
        BY <1>4, <1>5, <2>2, <3>1
      <3>3. Prepared(c, r) = x \o y
        BY <1>1, <2>1, <2>3, <3>1, Zenon
      <3>4. IsSeq(x \o y) /\ Len(x \o y) = Len(x) + Len(y)
        BY <3>2, SeqJoin
      <3> QED
        BY <3>2, <3>3, <3>4
    <2>5. Parts(c, r) = ReduceParts(r, n)
      BY <1>1, <1>6 DEF Parts
    <2> QED
      BY <1>2, <1>3, <2>2, <2>4, <2>5, ReducePartsRight
  <1>7. CASE Calls[c].kind = "all_gather"
    <2>1. PICK x, y, v, w : x = r * n /\ y = (Size - 1 - r) * n /\ v = Blank(x) /\ w = Blank(y)
      OBVIOUS
    <2>2. x \in Nat
      BY <1>2, <1>3, <2>1
    <2>3. y \in Nat
      <3>1. PICK q : q = Size - 1 - r
        OBVIOUS
      <3>2. q \in Nat
        BY <1>3, <3>1
      <3> QED
        BY <1>2, <2>1, <3>1, <3>2
    <2>4. x + n + y = Size * n
      <3>1. PICK q : q = Size * n
        OBVIOUS
      <3>2. q \in Nat /\ n \in Nat
        BY <1>2, <1>3, <3>1
      <3>3. (Size - 1 - r) * n = Size * n - n - r * n
        BY <1>2, <1>3
      <3>4. y = q - n - x
        BY <2>1, <3>1, <3>3
      <3>5. x + n + y = q
        BY <2>2, <3>2, <3>4
      <3> QED
        BY <3>1, <3>5
    <2>5. Prepared(c, r) = v \o Input(c, r) \o w
      <3>1. Calls[c].kind # "all_reduce"
        BY <1>7
      <3>2. Prepared(c, r) = Blank(r * Calls[c].n) \o Input(c, r) \o Blank((Size - 1 - r) * Calls[c].n)
        BY <1>7, <3>1 DEF Prepared
      <3> QED
        BY <1>1, <2>1, <3>2, Zenon
    <2>6. IsSeq(v) /\ Len(v) = x /\ IsSeq(w) /\ Len(w) = y
      BY <1>4, <2>1, <2>2, <2>3
    <2>7. IsSeq(v \o Input(c, r)) /\ Len(v \o Input(c, r)) = x + n
      BY <1>5, <2>6, SeqJoin
    <2>8. IsSeq(Prepared(c, r)) /\ Len(Prepared(c, r)) = x + n + y
      BY <2>5, <2>6, <2>7, SeqJoin
    <2>9. Parts(c, r) = GatherParts(r, n)
      BY <1>1, <1>7 DEF Parts
    <2>10. PlanRight(GatherParts(r, n), Size * n)
      BY <1>2, <1>3, GatherPartsRight
    <2> QED
      BY <2>4, <2>8, <2>9, <2>10
  <1>8. CASE Calls[c].kind = "send"
    <2>1. Prepared(c, r) = Input(c, r) \/ Prepared(c, r) = Blank(n)
      BY <1>1, <1>8 DEF Prepared
    <2>2. n \in Nat
      BY <1>2
    <2>3. IsSeq(Prepared(c, r)) /\ Len(Prepared(c, r)) = n
      BY <1>4, <1>5, <2>1, <2>2
    <2>4. \E other : Parts(c, r) = SendParts(r, other, n) \/ Parts(c, r) = RecvParts(r, other, n)
      BY <1>1, <1>8 DEF Parts
    <2> QED
      BY <1>2, <2>3, <2>4, SendPartsRight
  <1> QED
    BY <1>2, <1>6, <1>7, <1>8

-----------------------------------------------------------------------------
(* The queues of the sockets.                                                *)
Task == [part : Nat, step : Nat, place : {0, 1, InPlace}, lo : Nat, hi : Int]

NewTask(p, i, place, range) ==
  [part |-> p, step |-> i, place |-> place, lo |-> range[1], hi |-> range[2]]

Grown(more, queue, task) ==
  /\ more \in Seq(Task)
  /\ \A k \in DOMAIN more : (k \in DOMAIN queue /\ more[k] = queue[k]) \/ more[k] = task

LEMMA QueuedIs ==
  ASSUME NEW queue \in Seq(Task), NEW p \in Nat, NEW i \in Nat, NEW place \in {0, 1, InPlace},
         NEW range, range[1] \in Nat, range[2] \in Int
  PROVE  Grown(Queued(queue, p, i, place, range), queue, NewTask(p, i, place, range))
  <1>1. PICK task, more : /\ task = NewTask(p, i, place, range)
                          /\ more = Queued(queue, p, i, place, range)
    OBVIOUS
  <1>2. task \in Task
    BY <1>1 DEF Task, NewTask
  <1>3. CASE range[1] = range[2]
    BY <1>1, <1>3 DEF Queued, Grown
  <1>4. CASE range[1] # range[2]
    <2>1. more = Append(queue, task)
      BY <1>1, <1>4 DEF Queued, NewTask
    <2>2. Len(queue) \in Nat /\ DOMAIN queue = 1..Len(queue)
      BY LenProperties
    <2>3. /\ more \in Seq(Task) /\ Len(more) = Len(queue) + 1
          /\ \A k \in 1..Len(queue) : more[k] = queue[k]
          /\ more[Len(queue) + 1] = task
      BY <1>2, <2>1, AppendProperties
    <2>4. DOMAIN more = 1..(Len(queue) + 1)
      BY <2>3
    <2>5. ASSUME NEW k \in DOMAIN more
          PROVE  (k \in DOMAIN queue /\ more[k] = queue[k]) \/ more[k] = task
      <3>1. k \in 1..Len(queue) \/ k = Len(queue) + 1
        BY <2>2, <2>4
      <3> QED
        BY <2>2, <2>3, <3>1
    <2> QED
      BY <1>1, <2>3, <2>5 DEF Grown
  <1> QED
    BY <1>3, <1>4

Shrunk(left, queue) ==
  /\ left \in Seq(Task)
  /\ \A k \in DOMAIN left : \E m \in DOMAIN queue :
       /\ left[k].part = queue[m].part /\ left[k].step = queue[m].step
       /\ left[k].place = queue[m].place /\ left[k].hi = queue[m].hi
       /\ queue[m].lo <= left[k].lo

LEMMA RestIs ==
  ASSUME NEW queue \in Seq(Task), queue # <<>>, NEW n \in Nat
  PROVE  Shrunk(Rest(queue, n), queue)
  <1>0. PICK left : left = Rest(queue, n)
    OBVIOUS
  <1>1. Len(queue) \in Nat /\ Len(queue) > 0 /\ DOMAIN queue = 1..Len(queue)
    BY EmptySeq, LenProperties
  <1>2. \A m \in 1..Len(queue) : queue[m] \in Task
    BY ElementOfSeq
  <1>3. CASE Head(queue).lo + n = Head(queue).hi
    <2>1. left = Tail(queue)
      BY <1>0, <1>3 DEF Rest
    <2>2. /\ left \in Seq(Task) /\ Len(left) = Len(queue) - 1
          /\ \A k \in 1..Len(left) : left[k] = queue[k + 1]
      BY <2>1, HeadTailProperties
    <2>3. ASSUME NEW k \in DOMAIN left
          PROVE  k + 1 \in DOMAIN queue /\ left[k] = queue[k + 1] /\ queue[k + 1] \in Task
      <3>1. k \in 1..(Len(queue) - 1)
        BY <2>2
      <3>2. k + 1 \in 1..Len(queue)
        BY <1>1, <3>1
      <3> QED
        BY <1>1, <1>2, <2>2, <3>1, <3>2
    <2>4. \A t \in Task : t.lo <= t.lo
      BY DEF Task
    <2> QED
      BY <1>0, <2>2, <2>3, <2>4 DEF Shrunk
  <1>4. CASE Head(queue).lo + n # Head(queue).hi
    <2>1. PICK t : t = queue[1]
      OBVIOUS
    <2>2. t \in Task /\ 1 \in DOMAIN queue
      BY <1>1, <1>2, <2>1
    <2>3. left = [queue EXCEPT ![1].lo = @ + n]
      BY <1>0, <1>4 DEF Rest
    <2>4. PICK u : u = [t EXCEPT !.lo = t.lo + n]
      OBVIOUS
    <2>5. left = [queue EXCEPT ![1] = u]
      BY <2>1, <2>3, <2>4
    <2>6. u \in Task /\ u.part = t.part /\ u.step = t.step /\ u.place = t.place /\ u.hi = t.hi
          /\ t.lo <= u.lo
      <3>1. /\ t.part \in Nat /\ t.step \in Nat /\ t.place \in {0, 1, InPlace}
            /\ t.lo \in Nat /\ t.hi \in Int
        BY <2>2 DEF Task
      <3>2. u = [part |-> t.part, step |-> t.step, place |-> t.place,
                 lo |-> t.lo + n, hi |-> t.hi]
        BY <2>2, <2>4 DEF Task
      <3>3. t.lo + n \in Nat /\ t.lo <= t.lo + n
        BY <3>1
      <3> QED
        BY <3>1, <3>2, <3>3 DEF Task
    <2>7. /\ left \in Seq(Task) /\ Len(left) = Len(queue)
          /\ \A k \in 1..Len(queue) : left[k] = IF k = 1 THEN u ELSE queue[k]
      BY <1>1, <2>5, <2>6, ExceptSeq
    <2>8. DOMAIN left = DOMAIN queue
      BY <1>1, <2>7
    <2>9. ASSUME NEW k \in DOMAIN left
          PROVE  /\ left[k].part = queue[k].part /\ left[k].step = queue[k].step
                 /\ left[k].place = queue[k].place /\ left[k].hi = queue[k].hi
                 /\ queue[k].lo <= left[k].lo
      <3>1. CASE k = 1
        BY <1>1, <2>1, <2>6, <2>7, <2>8, <3>1
      <3>2. CASE k # 1
        <4>1. left[k] = queue[k] /\ queue[k] \in Task
          BY <1>1, <1>2, <2>7, <2>8, <3>2
        <4>2. queue[k].lo \in Nat
          BY <4>1 DEF Task
        <4>3. queue[k].lo <= queue[k].lo
          BY <4>2
        <4> QED
          BY <4>1, <4>3
      <3> QED
        BY <3>1, <3>2
    <2> QED
      BY <1>0, <2>7, <2>8, <2>9 DEF Shrunk
  <1> QED
    BY <1>3, <1>4

-----------------------------------------------------------------------------
(* The invariant.  A part has only the tasks of its last packets queued, on  *)
(* its own sockets; how far back those reach depends on its phase.           *)
Progress == [i : Nat, phase : {"post", "await", "last", "done"}]

Open(now, lag, step) ==
  \/ now.phase = "post" /\ now.i - lag <= step /\ step < now.i
  \/ now.phase = "await" /\ now.i - lag <= step /\ step <= now.i
  \/ now.phase = "last" /\ now.i - lag < step /\ step <= now.i

Advances(now, mine) ==
  /\ now \in Progress
  /\ now.i \in 1..Len(mine.sends)
  /\ now.phase \in {"await", "last"} => now.i > mine.lag
  /\ now.phase = "last" => now.i = Len(mine.sends)

(* Of the plan P and the progress Q of a rank whose buffer is D.             *)
RankRight(D, P, Q) ==
  /\ IsSeq(D) /\ PlanRight(P, Len(D))
  /\ Q = [p \in DOMAIN P |-> Q[p]]
  /\ \A p \in DOMAIN P : Advances(Q[p], P[p])

Current(t, P, Q) ==
  /\ t.part \in DOMAIN P
  /\ t.step \in 1..Len(P[t.part].sends)
  /\ Open(Q[t.part], P[t.part].lag, t.step)

Rests(t, range) == range[1] <= t.lo /\ t.hi = range[2]

SendRight(s, t, P, Q) ==
  /\ Current(t, P, Q)
  /\ s = <<s[1], P[t.part].side, P[t.part].link>>
  /\ Rests(t, P[t.part].sends[t.step])

RecvRight(s, t, P, Q) ==
  /\ Current(t, P, Q)
  /\ s = <<s[1], Other(P[t.part].side), P[t.part].link>>
  /\ IF t.place = InPlace THEN Rests(t, P[t.part].recvs[t.step])
     ELSE t.place = Place(t.step)

SendsRight(s, queue, P, Q) ==
  queue \in Seq(Task) /\ \A k \in DOMAIN queue : SendRight(s, queue[k], P, Q)

RecvsRight(s, queue, P, Q) ==
  queue \in Seq(Task) /\ \A k \in DOMAIN queue : RecvRight(s, queue[k], P, Q)

Tables ==
  /\ call \in [Rank -> Nat] /\ \A r \in Rank : call[r] <= Len(Calls)
  /\ data = [r \in Rank |-> data[r]]
  /\ plan = [r \in Rank |-> plan[r]]
  /\ part = [r \in Rank |-> part[r]]
  /\ sends = [s \in Socket |-> sends[s]]
  /\ recvs = [s \in Socket |-> recvs[s]]
  /\ wire = [s \in Socket |-> wire[s]]

RInv ==
  /\ Tables
  /\ \A r \in Rank : RankRight(data[r], plan[r], part[r])
  /\ \A s \in Socket :
       /\ SendsRight(s, sends[s], plan[s[1]], part[s[1]])
       /\ RecvsRight(s, recvs[s], plan[s[1]], part[s[1]])
       /\ IsSeq(wire[s])

LEMMA SocketIs ==
  ASSUME NEW s \in Socket
  PROVE  s[1] \in Rank
  BY DEF Socket

LEMMA RInit == Init => RInv
  <1> SUFFICES ASSUME Init PROVE RInv
    OBVIOUS
  <1>1. Tables
    <2>1. Len(Calls) \in Nat
      BY RingAssumption, LenProperties
    <2> QED
      BY <2>1 DEF Init, Tables
  <1>2. IsSeq(<<>>) /\ Len(<<>>) = 0
    <2>1. <<>> \in Seq({})
      OBVIOUS
    <2> QED
      BY <2>1 DEF IsSeq
  <1>3. DOMAIN <<>> = {}
    OBVIOUS
  <1>4. RankRight(<<>>, <<>>, <<>>)
    <2>1. PlanRight(<<>>, 0)
      BY <1>3 DEF PlanRight
    <2>2. <<>> = [p \in DOMAIN <<>> |-> <<>>[p]]
      BY <1>3
    <2> QED
      BY <1>2, <1>3, <2>1, <2>2 DEF RankRight
  <1>5. <<>> \in Seq(Task)
    OBVIOUS
  <1>6. ASSUME NEW s \in Socket
        PROVE  /\ SendsRight(s, sends[s], plan[s[1]], part[s[1]])
               /\ RecvsRight(s, recvs[s], plan[s[1]], part[s[1]])
               /\ IsSeq(wire[s])
    <2>1. sends[s] = <<>> /\ recvs[s] = <<>> /\ wire[s] = <<>>
      BY DEF Init
    <2> QED
      BY <1>2, <1>3, <1>5, <2>1 DEF SendsRight, RecvsRight
  <1>7. \A r \in Rank : data[r] = <<>> /\ plan[r] = <<>> /\ part[r] = <<>>
    BY DEF Init
  <1> QED
    BY <1>1, <1>4, <1>6, <1>7 DEF RInv

(* What has to be shown of a step of rank r.                                 *)
LEMMA OneRank ==
  ASSUME RInv, NEW r \in Rank, Tables',
         \A q \in Rank \ {r} : data'[q] = data[q] /\ plan'[q] = plan[q] /\ part'[q] = part[q],
         \A s \in Socket : s[1] # r => sends'[s] = sends[s] /\ recvs'[s] = recvs[s],
         RankRight(data'[r], plan'[r], part'[r]),
         \A s \in Socket : s[1] = r =>
           /\ SendsRight(s, sends'[s], plan'[r], part'[r])
           /\ RecvsRight(s, recvs'[s], plan'[r], part'[r]),
         \A s \in Socket : IsSeq(wire'[s])
  PROVE  RInv'
  <1>1. ASSUME NEW q \in Rank
        PROVE  RankRight(data'[q], plan'[q], part'[q])
    BY DEF RInv
  <1>2. ASSUME NEW s \in Socket
        PROVE  /\ SendsRight(s, sends'[s], plan'[s[1]], part'[s[1]])
               /\ RecvsRight(s, recvs'[s], plan'[s[1]], part'[s[1]])
    <2>1. CASE s[1] = r
      BY <2>1
    <2>2. CASE s[1] # r
      <3>1. s[1] \in Rank \ {r}
        BY <2>2, SocketIs
      <3>2. /\ SendsRight(s, sends[s], plan[s[1]], part[s[1]])
            /\ RecvsRight(s, recvs[s], plan[s[1]], part[s[1]])
        BY DEF RInv
      <3> QED
        BY <2>2, <3>1, <3>2
    <2> QED
      BY <2>1, <2>2
  <1> QED
    BY <1>1, <1>2 DEF RInv

(* A part of a rank goes on.                                                 *)
LEMMA PartSet ==
  ASSUME RInv, NEW r \in Rank, NEW p \in DOMAIN part[r], NEW now,
         part' = [part EXCEPT ![r][p] = now]
  PROVE  /\ p \in DOMAIN plan[r]
         /\ part' = [q \in Rank |-> part'[q]]
         /\ \A q \in Rank \ {r} : part'[q] = part[q]
         /\ part'[r] = [x \in DOMAIN plan[r] |-> part'[r][x]]
         /\ part'[r][p] = now
         /\ \A x \in DOMAIN plan[r] : x # p => part'[r][x] = part[r][x]
  <1>1. part = [q \in Rank |-> part[q]]
    BY DEF RInv, Tables
  <1>2. part[r] = [x \in DOMAIN plan[r] |-> part[r][x]]
    BY DEF RInv, RankRight
  <1>3. PICK Q : Q = [part[r] EXCEPT ![p] = now]
    OBVIOUS
  <1>4. part' = [part EXCEPT ![r] = Q]
    BY <1>3
  <1>5. part'[r] = Q
    BY <1>1, <1>4
  <1>6. part' = [q \in Rank |-> part'[q]] /\ \A q \in Rank \ {r} : part'[q] = part[q]
    BY <1>1, <1>4
  <1>7. p \in DOMAIN plan[r]
    BY <1>2
  <1>8. Q = [x \in DOMAIN plan[r] |-> Q[x]] /\ Q[p] = now
    BY <1>2, <1>3, <1>7
  <1>9. \A x \in DOMAIN plan[r] : x # p => Q[x] = part[r][x]
    BY <1>2, <1>3
  <1> QED
    BY <1>5, <1>6, <1>7, <1>8, <1>9

LEMMA RankAdvances ==
  ASSUME NEW D, NEW E, NEW P, NEW Q, NEW R, NEW p \in DOMAIN P, RankRight(D, P, Q),
         R = [x \in DOMAIN P |-> R[x]], \A x \in DOMAIN P : x # p => R[x] = Q[x],
         Advances(R[p], P[p]), IsSeq(E), Len(E) = Len(D)
  PROVE  RankRight(E, P, R)
  <1>1. \A x \in DOMAIN P : Advances(R[x], P[x])
    BY DEF RankRight
  <1> QED
    BY <1>1 DEF RankRight

LEMMA TasksCarried ==
  ASSUME NEW s, NEW queue, NEW P, NEW Q, NEW R, NEW p,
         \A x \in DOMAIN P : x # p => R[x] = Q[x],
         \A k \in DOMAIN queue : queue[k].part = p /\ Current(queue[k], P, Q) =>
           Open(R[p], P[p].lag, queue[k].step)
  PROVE  /\ SendsRight(s, queue, P, Q) => SendsRight(s, queue, P, R)
         /\ RecvsRight(s, queue, P, Q) => RecvsRight(s, queue, P, R)
  <1>1. ASSUME NEW k \in DOMAIN queue, Current(queue[k], P, Q)
        PROVE  Current(queue[k], P, R)
    <2>1. CASE queue[k].part = p
      BY <1>1, <2>1 DEF Current
    <2>2. CASE queue[k].part # p
      BY <1>1, <2>2 DEF Current
    <2> QED
      BY <2>1, <2>2
  <1>2. ASSUME SendsRight(s, queue, P, Q)
        PROVE  SendsRight(s, queue, P, R)
    BY <1>1, <1>2 DEF SendsRight, SendRight
  <1>3. ASSUME RecvsRight(s, queue, P, Q)
        PROVE  RecvsRight(s, queue, P, R)
    BY <1>1, <1>3 DEF RecvsRight, RecvRight
  <1> QED
    BY <1>2, <1>3

LEMMA PostKeeps ==
  ASSUME RInv, NEW r \in Rank, NEW p \in DOMAIN part[r], Post(r, p)
  PROVE  RInv'
  <1>1. PICK P, Q, mine, i, lag, range, now :
          /\ P = plan[r] /\ Q = part[r] /\ mine = P[p] /\ i = Q[p].i /\ lag = mine.lag
          /\ range = mine.recvs[i]
          /\ now = IF i > lag THEN [i |-> i, phase |-> "await"] ELSE [i |-> i + 1, phase |-> "post"]
    OBVIOUS
  <1>2. /\ Q[p].phase = "post"
        /\ part' = [part EXCEPT ![r][p] = now]
        /\ UNCHANGED <<call, data, plan, wire>>
    BY <1>1 DEF Post
  <1>3. /\ p \in DOMAIN P
        /\ part' = [q \in Rank |-> part'[q]]
        /\ \A q \in Rank \ {r} : part'[q] = part[q]
        /\ part'[r] = [x \in DOMAIN P |-> part'[r][x]]
        /\ part'[r][p] = now
        /\ \A x \in DOMAIN P : x # p => part'[r][x] = Q[x]
    <2>1. /\ p \in DOMAIN plan[r]
          /\ part' = [q \in Rank |-> part'[q]]
          /\ \A q \in Rank \ {r} : part'[q] = part[q]
          /\ part'[r] = [x \in DOMAIN plan[r] |-> part'[r][x]]
          /\ part'[r][p] = now
          /\ \A x \in DOMAIN plan[r] : x # p => part'[r][x] = part[r][x]
      BY <1>2, PartSet
    <2> QED
      BY <1>1, <2>1
  <1>4. RankRight(data[r], P, Q)
    BY <1>1 DEF RInv
  <1>5. Advances(Q[p], mine) /\ Whole(mine, Len(data[r])) /\ p \in Nat
    BY <1>1, <1>3, <1>4 DEF RankRight, PlanRight
  <1>6. PICK N : N = Len(mine.sends)
    OBVIOUS
  <1>7. N \in Nat /\ i \in 1..N /\ lag \in {0, 1} /\ N > lag
    BY <1>1, <1>5, <1>6 DEF Advances, Whole
  <1>8. Advances(now, mine)
    <2>1. now.i \in 1..N /\ now \in Progress
      BY <1>1, <1>7 DEF Progress
    <2>2. now.phase \in {"await", "last"} => now.i > lag
      BY <1>1, <1>7
    <2>3. now.phase # "last"
      BY <1>1
    <2> QED
      BY <1>1, <1>6, <2>1, <2>2, <2>3 DEF Advances
  <1>9. /\ Within(mine.sends[i], Len(data[r])) /\ Within(mine.recvs[i], Len(data[r]))
    BY <1>5, <1>6, <1>7 DEF Whole
  <1>10. Open(now, lag, i)
    BY <1>1, <1>7 DEF Open
  <1>11. ASSUME NEW step \in Int, step >= 1, Open(Q[p], lag, step)
         PROVE  Open(now, lag, step)
    <2>1. i - lag <= step /\ step < i
      BY <1>1, <1>2, <1>11 DEF Open
    <2> QED
      BY <1>1, <1>7, <1>11, <2>1 DEF Open
  <1>12. ASSUME NEW t, Current(t, P, Q), t.part = p
         PROVE  Open(now, lag, t.step)
    <2>1. t.step \in 1..N /\ Open(Q[p], lag, t.step)
      BY <1>1, <1>6, <1>12 DEF Current
    <2>2. t.step \in Int /\ t.step >= 1
      BY <1>7, <2>1
    <2> QED
      BY <1>11, <2>1, <2>2
  <1>13. RankRight(data'[r], plan'[r], part'[r])
    <2>1. IsSeq(data[r])
      BY <1>4 DEF RankRight
    <2>2. Advances(part'[r][p], P[p])
      BY <1>1, <1>3, <1>8
    <2>3. RankRight(data[r], P, part'[r])
      BY <1>3, <1>4, <2>1, <2>2, RankAdvances
    <2> QED
      BY <1>1, <1>2, <2>3
  <1>14. ASSUME NEW s \in Socket, s[1] = r
         PROVE  SendsRight(s, sends[s], P, part'[r]) /\ RecvsRight(s, recvs[s], P, part'[r])
    <2>1. SendsRight(s, sends[s], P, Q) /\ RecvsRight(s, recvs[s], P, Q)
      BY <1>1, <1>14 DEF RInv
    <2>2. PICK R, u, v : R = part'[r] /\ u = sends[s] /\ v = recvs[s]
      OBVIOUS
    <2>3. \A x \in DOMAIN P : x # p => R[x] = Q[x]
      BY <1>3, <2>2
    <2>4. \A k \in DOMAIN u : u[k].part = p /\ Current(u[k], P, Q) => Open(R[p], P[p].lag, u[k].step)
      BY <1>1, <1>3, <1>12, <2>2
    <2>5. \A k \in DOMAIN v : v[k].part = p /\ Current(v[k], P, Q) => Open(R[p], P[p].lag, v[k].step)
      BY <1>1, <1>3, <1>12, <2>2
    <2>6. SendsRight(s, u, P, Q) => SendsRight(s, u, P, R)
      BY <2>3, <2>4, TasksCarried
    <2>7. RecvsRight(s, v, P, Q) => RecvsRight(s, v, P, R)
      BY <2>3, <2>5, TasksCarried
    <2> QED
      BY <2>1, <2>2, <2>6, <2>7
  <1>15. ASSUME NEW t, t.part = p, t.step = i
         PROVE  Current(t, P, part'[r])
    BY <1>1, <1>3, <1>6, <1>7, <1>10, <1>15 DEF Current
  <1>16. /\ sends = [s \in Socket |-> sends[s]] /\ recvs = [s \in Socket |-> recvs[s]]
    BY DEF RInv, Tables
  <1>17. /\ sends' = [sends EXCEPT ![SendSocket(r, p)] = Queued(@, p, i, InPlace, mine.sends[i])]
         /\ recvs' = [recvs EXCEPT ![RecvSocket(r, p)] =
              IF i <= mine.reduced
              THEN Queued(@, p, i, Place(i), <<0, range[2] - range[1]>>)
              ELSE Queued(@, p, i, InPlace, range)]
    BY <1>1 DEF Post
  <1>18. /\ SendSocket(r, p) = <<r, P[p].side, P[p].link>>
         /\ RecvSocket(r, p) = <<r, Other(P[p].side), P[p].link>>
    BY <1>1 DEF SendSocket, RecvSocket
  <1>19. /\ sends' = [s \in Socket |-> sends'[s]]
         /\ \A s \in Socket : s # SendSocket(r, p) => sends'[s] = sends[s]
         /\ SendSocket(r, p) \in Socket =>
              sends'[SendSocket(r, p)] = Queued(sends[SendSocket(r, p)], p, i, InPlace, mine.sends[i])
    BY <1>16, <1>17
  <1>20. /\ recvs' = [s \in Socket |-> recvs'[s]]
         /\ \A s \in Socket : s # RecvSocket(r, p) => recvs'[s] = recvs[s]
         /\ RecvSocket(r, p) \in Socket =>
              recvs'[RecvSocket(r, p)] =
                IF i <= mine.reduced
                THEN Queued(recvs[RecvSocket(r, p)], p, i, Place(i), <<0, range[2] - range[1]>>)
                ELSE Queued(recvs[RecvSocket(r, p)], p, i, InPlace, range)
    BY <1>16, <1>17
  <1>21. Tables'
    BY <1>2, <1>3, <1>19, <1>20 DEF RInv, Tables
  <1>22. ASSUME NEW s \in Socket, s[1] = r
         PROVE  SendsRight(s, sends'[s], P, part'[r])
    <2>1. CASE s # SendSocket(r, p)
      BY <1>14, <1>19, <1>22, <2>1
    <2>2. CASE s = SendSocket(r, p)
      <3>1. PICK more : more = sends'[s]
        OBVIOUS
      <3>2. more = Queued(sends[s], p, i, InPlace, mine.sends[i])
        BY <1>19, <2>2, <3>1
      <3>3. SendsRight(s, sends[s], P, part'[r])
        BY <1>14, <1>22
      <3>4. sends[s] \in Seq(Task)
        BY <3>3 DEF SendsRight
      <3>5. /\ p \in Nat /\ i \in Nat /\ InPlace \in {0, 1, InPlace}
            /\ mine.sends[i][1] \in Nat /\ mine.sends[i][2] \in Int
        BY <1>5, <1>7, <1>9 DEF Within
      <3>6. /\ more \in Seq(Task)
            /\ \A k \in DOMAIN more :
                 \/ k \in DOMAIN sends[s] /\ more[k] = sends[s][k]
                 \/ more[k] = NewTask(p, i, InPlace, mine.sends[i])
        <4>1. PICK u, x : u = sends[s] /\ x = mine.sends[i]
          OBVIOUS
        <4>2. u \in Seq(Task) /\ x[1] \in Nat /\ x[2] \in Int /\ more = Queued(u, p, i, InPlace, x)
          BY <3>2, <3>4, <3>5, <4>1
        <4>3. Grown(Queued(u, p, i, InPlace, x), u, NewTask(p, i, InPlace, x))
          <5>1. p \in Nat /\ i \in Nat /\ InPlace \in {0, 1, InPlace}
            BY <3>5
          <5> QED
            BY <4>2, <5>1, QueuedIs
        <4> QED
          BY <4>1, <4>2, <4>3 DEF Grown
      <3>7. ASSUME NEW k \in DOMAIN more
            PROVE  SendRight(s, more[k], P, part'[r])
        <4>1. CASE k \in DOMAIN sends[s] /\ more[k] = sends[s][k]
          BY <3>3, <4>1 DEF SendsRight
        <4>2. CASE more[k] = NewTask(p, i, InPlace, mine.sends[i])
          <5>1. PICK t : t = more[k]
            OBVIOUS
          <5>2. /\ t.part = p /\ t.step = i
                /\ t.lo = mine.sends[i][1] /\ t.hi = mine.sends[i][2]
            BY <4>2, <5>1 DEF NewTask
          <5>3. Current(t, P, part'[r])
            BY <1>15, <5>2
          <5>4. Rests(t, P[t.part].sends[t.step])
            <6>1. PICK x : x = mine.sends[i]
              OBVIOUS
            <6>2. P[t.part].sends[t.step] = x
              BY <1>1, <5>2, <6>1
            <6>3. x[1] \in Nat /\ t.lo = x[1] /\ t.hi = x[2]
              BY <3>5, <5>2, <6>1
            <6>4. Rests(t, x)
              BY <6>3 DEF Rests
            <6> QED
              BY <6>2, <6>4
          <5>5. s = <<s[1], P[t.part].side, P[t.part].link>>
            BY <1>18, <2>2, <5>2
          <5> QED
            BY <5>1, <5>3, <5>4, <5>5 DEF SendRight
        <4> QED
          BY <3>6, <4>1, <4>2
      <3> QED
        BY <3>1, <3>6, <3>7 DEF SendsRight
    <2> QED
      BY <2>1, <2>2
  <1>23. ASSUME NEW s \in Socket, s[1] = r
         PROVE  RecvsRight(s, recvs'[s], P, part'[r])
    <2>1. CASE s # RecvSocket(r, p)
      BY <1>14, <1>20, <1>23, <2>1
    <2>2. CASE s = RecvSocket(r, p)
      <3>1. PICK more, place, rest :
              /\ more = recvs'[s]
              /\ place = IF i <= mine.reduced THEN Place(i) ELSE InPlace
              /\ rest = IF i <= mine.reduced THEN <<0, range[2] - range[1]>> ELSE range
        OBVIOUS
      <3>2. more = Queued(recvs[s], p, i, place, rest)
        BY <1>20, <2>2, <3>1
      <3>3. RecvsRight(s, recvs[s], P, part'[r])
        BY <1>14, <1>23
      <3>4. recvs[s] \in Seq(Task)
        BY <3>3 DEF RecvsRight
      <3>5. Place(i) \in {0, 1}
        BY <1>7 DEF Place
      <3>6. /\ p \in Nat /\ i \in Nat /\ place \in {0, 1, InPlace}
            /\ rest[1] \in Nat /\ rest[2] \in Int
        <4>1. range[1] \in Nat /\ range[2] \in Nat
          BY <1>1, <1>9 DEF Within
        <4>2. CASE i <= mine.reduced
          <5>1. place = Place(i) /\ rest = <<0, range[2] - range[1]>>
            BY <3>1, <4>2
          <5>2. rest[1] = 0 /\ rest[2] = range[2] - range[1]
            BY <5>1
          <5> QED
            BY <1>5, <1>7, <3>5, <4>1, <5>1, <5>2
        <4>3. CASE ~ (i <= mine.reduced)
          BY <1>5, <1>7, <3>1, <4>1, <4>3
        <4> QED
          BY <4>2, <4>3
      <3>7. /\ more \in Seq(Task)
            /\ \A k \in DOMAIN more :
                 \/ k \in DOMAIN recvs[s] /\ more[k] = recvs[s][k]
                 \/ more[k] = NewTask(p, i, place, rest)
        <4>1. PICK u : u = recvs[s]
          OBVIOUS
        <4>2. u \in Seq(Task) /\ more = Queued(u, p, i, place, rest)
          BY <3>2, <3>4, <4>1
        <4>3. Grown(Queued(u, p, i, place, rest), u, NewTask(p, i, place, rest))
          BY <3>6, <4>2, QueuedIs
        <4> QED
          BY <4>1, <4>2, <4>3 DEF Grown
      <3>8. ASSUME NEW k \in DOMAIN more
            PROVE  RecvRight(s, more[k], P, part'[r])
        <4>1. CASE k \in DOMAIN recvs[s] /\ more[k] = recvs[s][k]
          BY <3>3, <4>1 DEF RecvsRight
        <4>2. CASE more[k] = NewTask(p, i, place, rest)
          <5>1. PICK t : t = more[k]
            OBVIOUS
          <5>2. /\ t.part = p /\ t.step = i /\ t.place = place
                /\ t.lo = rest[1] /\ t.hi = rest[2]
            BY <4>2, <5>1 DEF NewTask
          <5>3. Current(t, P, part'[r])
            BY <1>15, <5>2
          <5>4. IF t.place = InPlace THEN Rests(t, P[t.part].recvs[t.step])
                ELSE t.place = Place(t.step)
            <6>1. CASE i <= mine.reduced
              <7>1. place = Place(i) /\ place # InPlace
                BY <3>1, <3>5, <6>1 DEF InPlace
              <7> QED
                BY <5>2, <7>1
            <6>2. CASE ~ (i <= mine.reduced)
              <7>1. place = InPlace /\ rest = range
                BY <3>1, <6>2
              <7>2. rest[1] <= rest[1]
                BY <3>6
              <7>3. Rests(t, range)
                BY <5>2, <7>1, <7>2 DEF Rests
              <7> QED
                BY <1>1, <5>2, <7>1, <7>3
            <6> QED
              BY <6>1, <6>2
          <5>5. s = <<s[1], Other(P[t.part].side), P[t.part].link>>
            BY <1>18, <2>2, <5>2
          <5> QED
            BY <5>1, <5>3, <5>4, <5>5 DEF RecvRight
        <4> QED
          BY <3>7, <4>1, <4>2
      <3> QED
        BY <3>1, <3>7, <3>8 DEF RecvsRight
    <2> QED
      BY <2>1, <2>2
  <1>24. \A q \in Rank \ {r} : data'[q] = data[q] /\ plan'[q] = plan[q] /\ part'[q] = part[q]
    BY <1>2, <1>3
  <1>25. \A s \in Socket : s[1] # r => sends'[s] = sends[s] /\ recvs'[s] = recvs[s]
    BY <1>18, <1>19, <1>20
  <1>26. \A s \in Socket : IsSeq(wire'[s])
    BY <1>2 DEF RInv
  <1>27. \A s \in Socket : s[1] = r =>
           /\ SendsRight(s, sends'[s], plan'[r], part'[r])
           /\ RecvsRight(s, recvs'[s], plan'[r], part'[r])
    BY <1>1, <1>2, <1>22, <1>23
  <1> QED
    BY <1>13, <1>21, <1>24, <1>25, <1>26, <1>27, OneRank

(* A future that is ready has no task left on any socket.                    *)
LEMMA NoneAt ==
  ASSUME RInv, NEW r \in Rank, NEW p, NEW j,
         Ready(sends[SendSocket(r, p)], p, j), Ready(recvs[RecvSocket(r, p)], p, j),
         NEW s \in Socket, s[1] = r
  PROVE  Ready(sends[s], p, j) /\ Ready(recvs[s], p, j)
  <1>1. SendsRight(s, sends[s], plan[r], part[r]) /\ RecvsRight(s, recvs[s], plan[r], part[r])
    BY DEF RInv
  <1>2. ASSUME NEW k \in DOMAIN sends[s], sends[s][k].part = p
        PROVE  sends[s][k].step # j
    <2>1. s = <<s[1], plan[r][p].side, plan[r][p].link>>
      BY <1>1, <1>2 DEF SendsRight, SendRight
    <2>2. s = SendSocket(r, p)
      BY <2>1 DEF SendSocket
    <2> QED
      BY <1>2, <2>2 DEF Ready
  <1>3. ASSUME NEW k \in DOMAIN recvs[s], recvs[s][k].part = p
        PROVE  recvs[s][k].step # j
    <2>1. s = <<s[1], Other(plan[r][p].side), plan[r][p].link>>
      BY <1>1, <1>3 DEF RecvsRight, RecvRight
    <2>2. s = RecvSocket(r, p)
      BY <2>1 DEF RecvSocket
    <2> QED
      BY <1>3, <2>2 DEF Ready
  <1> QED
    BY <1>2, <1>3 DEF Ready

(* What has to be shown when a part has waited for packet j.                 *)
LEMMA Waited ==
  ASSUME RInv, NEW r \in Rank, NEW p \in DOMAIN part[r], NEW j, NEW now,
         Ready(sends[SendSocket(r, p)], p, j), Ready(recvs[RecvSocket(r, p)], p, j),
         part' = [part EXCEPT ![r][p] = now],
         UNCHANGED <<call, plan, sends, recvs, wire>>,
         data' = [q \in Rank |-> data'[q]], \A q \in Rank \ {r} : data'[q] = data[q],
         IsSeq(data'[r]), Len(data'[r]) = Len(data[r]),
         Advances(now, plan[r][p]),
         \A step \in Nat : Open(part[r][p], plan[r][p].lag, step) /\ step # j =>
                             Open(now, plan[r][p].lag, step)
  PROVE  RInv'
  <1>1. /\ p \in DOMAIN plan[r]
        /\ part' = [q \in Rank |-> part'[q]]
        /\ \A q \in Rank \ {r} : part'[q] = part[q]
        /\ part'[r] = [x \in DOMAIN plan[r] |-> part'[r][x]]
        /\ part'[r][p] = now
        /\ \A x \in DOMAIN plan[r] : x # p => part'[r][x] = part[r][x]
    BY PartSet
  <1>2. PICK P, Q, R, D, E : /\ P = plan[r] /\ Q = part[r] /\ R = part'[r]
                             /\ D = data[r] /\ E = data'[r]
    OBVIOUS
  <1>3. RankRight(D, P, Q)
    BY <1>2 DEF RInv
  <1>4. \A x \in DOMAIN P : x # p => R[x] = Q[x]
    BY <1>1, <1>2
  <1>5. RankRight(E, P, R)
    <2>1. p \in DOMAIN P /\ R = [x \in DOMAIN P |-> R[x]] /\ Advances(R[p], P[p]) /\ IsSeq(E) /\ Len(E) = Len(D)
      BY <1>1, <1>2
    <2> QED
      BY <1>3, <1>4, <2>1, RankAdvances
  <1>6. ASSUME NEW t, Current(t, P, Q), t.part = p, t.step # j
        PROVE  Open(R[p], P[p].lag, t.step)
    <2>1. t.step \in Nat
      <3>1. t.step \in 1..Len(P[p].sends)
        BY <1>6 DEF Current
      <3>2. Whole(P[p], Len(D))
        BY <1>1, <1>2, <1>3 DEF RankRight, PlanRight
      <3> QED
        BY <3>1, <3>2 DEF Whole
    <2>2. Open(Q[p], P[p].lag, t.step)
      BY <1>6 DEF Current
    <2> QED
      BY <1>1, <1>2, <1>6, <2>1, <2>2
  <1>7. ASSUME NEW s \in Socket, s[1] = r
        PROVE  SendsRight(s, sends[s], P, R) /\ RecvsRight(s, recvs[s], P, R)
    <2>1. PICK u, v : u = sends[s] /\ v = recvs[s]
      OBVIOUS
    <2>2. SendsRight(s, u, P, Q) /\ RecvsRight(s, v, P, Q)
      BY <1>2, <1>7, <2>1 DEF RInv
    <2>3. /\ \A k \in DOMAIN u : u[k].part = p => u[k].step # j
          /\ \A k \in DOMAIN v : v[k].part = p => v[k].step # j
      <3>1. Ready(sends[s], p, j) /\ Ready(recvs[s], p, j)
        BY <1>7, NoneAt
      <3> QED
        BY <2>1, <3>1 DEF Ready
    <2>4. \A k \in DOMAIN u : u[k].part = p /\ Current(u[k], P, Q) => Open(R[p], P[p].lag, u[k].step)
      BY <1>6, <2>3
    <2>5. \A k \in DOMAIN v : v[k].part = p /\ Current(v[k], P, Q) => Open(R[p], P[p].lag, v[k].step)
      BY <1>6, <2>3
    <2>6. SendsRight(s, u, P, Q) => SendsRight(s, u, P, R)
      BY <1>4, <2>4, TasksCarried
    <2>7. RecvsRight(s, v, P, Q) => RecvsRight(s, v, P, R)
      BY <1>4, <2>5, TasksCarried
    <2> QED
      BY <2>1, <2>2, <2>6, <2>7
  <1>8. Tables'
    BY <1>1 DEF RInv, Tables
  <1>9. \A q \in Rank \ {r} : data'[q] = data[q] /\ plan'[q] = plan[q] /\ part'[q] = part[q]
    BY <1>1
  <1>10. \A s \in Socket : s[1] # r => sends'[s] = sends[s] /\ recvs'[s] = recvs[s]
    OBVIOUS
  <1>11. RankRight(data'[r], plan'[r], part'[r])
    BY <1>2, <1>5
  <1>12. \A s \in Socket : s[1] = r =>
           /\ SendsRight(s, sends'[s], plan'[r], part'[r])
           /\ RecvsRight(s, recvs'[s], plan'[r], part'[r])
    BY <1>2, <1>7
  <1>13. \A s \in Socket : IsSeq(wire'[s])
    BY DEF RInv
  <1> QED
    BY <1>8, <1>9, <1>10, <1>11, <1>12, <1>13, OneRank

LEMMA ReducedIs ==
  ASSUME NEW r, NEW p, NEW j, IsSeq(data[r])
  PROVE  IsSeq(Reduced(r, p, j)) /\ Len(Reduced(r, p, j)) = Len(data[r])
  <1>1. PICK n, f : n = Len(data[r]) /\ f = Reduced(r, p, j)
    OBVIOUS
  <1>2. n \in Nat /\ DOMAIN data[r] = 1..n
    BY <1>1, SeqIs
  <1>3. f = [e \in 1..n |-> f[e]]
    BY <1>1, <1>2 DEF Reduced
  <1>4. IsSeq(f) /\ Len(f) = n
    BY <1>2, <1>3, SeqMade
  <1> QED
    BY <1>1, <1>4

LEMMA AwaitKeeps ==
  ASSUME RInv, NEW r \in Rank, NEW p \in DOMAIN part[r], Await(r, p)
  PROVE  RInv'
  <1>1. PICK mine, i, lag, j, now :
          /\ mine = plan[r][p] /\ i = part[r][p].i /\ lag = mine.lag /\ j = i - mine.lag
          /\ now = IF i = Len(mine.sends) THEN [i |-> i, phase |-> "last"]
                   ELSE [i |-> i + 1, phase |-> "post"]
    OBVIOUS
  <1>2. /\ part[r][p].phase = "await"
        /\ Ready(sends[SendSocket(r, p)], p, j)
        /\ Ready(recvs[RecvSocket(r, p)], p, j)
        /\ data' = [data EXCEPT ![r] = IF j <= mine.reduced THEN Reduced(r, p, j) ELSE @]
        /\ part' = [part EXCEPT ![r][p] = now]
        /\ UNCHANGED <<call, plan, sends, recvs, wire>>
    BY <1>1 DEF Await
  <1>3. RankRight(data[r], plan[r], part[r])
    BY DEF RInv
  <1>4. p \in DOMAIN plan[r]
    BY <1>3 DEF RankRight
  <1>5. Advances(part[r][p], mine) /\ Whole(mine, Len(data[r])) /\ IsSeq(data[r])
    BY <1>1, <1>3, <1>4 DEF RankRight, PlanRight
  <1>6. PICK N : N = Len(mine.sends)
    OBVIOUS
  <1>7. N \in Nat /\ i \in 1..N /\ lag \in {0, 1} /\ i > lag
    BY <1>1, <1>2, <1>5, <1>6 DEF Advances, Whole
  <1>8. Advances(now, mine)
    <2>1. CASE i = N
      <3>1. now.i = i /\ now.phase = "last"
        BY <1>1, <1>6, <2>1
      <3>2. now \in Progress
        BY <1>1, <1>6, <1>7, <2>1 DEF Progress
      <3> QED
        BY <1>1, <1>6, <1>7, <2>1, <3>1, <3>2 DEF Advances
    <2>2. CASE i # N
      <3>1. now.i = i + 1 /\ now.phase = "post"
        BY <1>1, <1>6, <2>2
      <3>2. now \in Progress
        BY <1>1, <1>6, <1>7, <2>2 DEF Progress
      <3>3. i + 1 \in 1..N
        BY <1>7, <2>2
      <3> QED
        BY <1>6, <3>1, <3>2, <3>3 DEF Advances
    <2> QED
      BY <2>1, <2>2
  <1>9. ASSUME NEW step \in Nat, Open(part[r][p], lag, step), step # j
        PROVE  Open(now, lag, step)
    <2>1. i - lag <= step /\ step <= i
      BY <1>1, <1>2, <1>9 DEF Open
    <2>2. i - lag < step
      BY <1>1, <1>7, <1>9, <2>1
    <2>3. i + 1 - lag <= step /\ step < i + 1
      BY <1>7, <2>1, <2>2
    <2>4. CASE i = Len(mine.sends)
      <3>1. now.phase = "last" /\ now.i = i
        BY <1>1, <2>4
      <3> QED
        BY <2>1, <2>2, <3>1 DEF Open
    <2>5. CASE i # Len(mine.sends)
      <3>1. now.phase = "post" /\ now.i = i + 1
        BY <1>1, <2>5
      <3> QED
        BY <1>7, <2>3, <3>1 DEF Open
    <2> QED
      BY <2>4, <2>5
  <1>10. data = [q \in Rank |-> data[q]]
    BY DEF RInv, Tables
  <1>11. /\ data' = [q \in Rank |-> data'[q]]
         /\ \A q \in Rank \ {r} : data'[q] = data[q]
         /\ data'[r] = IF j <= mine.reduced THEN Reduced(r, p, j) ELSE data[r]
    BY <1>2, <1>10
  <1>12. IsSeq(data'[r]) /\ Len(data'[r]) = Len(data[r])
    BY <1>5, <1>11, ReducedIs
  <1>13. Advances(now, plan[r][p])
    BY <1>1, <1>8
  <1>14. \A step \in Nat : Open(part[r][p], plan[r][p].lag, step) /\ step # j =>
                             Open(now, plan[r][p].lag, step)
    BY <1>1, <1>9
  <1>15. /\ data' = [q \in Rank |-> data'[q]]
         /\ \A q \in Rank \ {r} : data'[q] = data[q]
    BY <1>11
  <1> QED
    BY <1>2, <1>12, <1>13, <1>14, <1>15, Waited

LEMMA LastKeeps ==
  ASSUME RInv, NEW r \in Rank, NEW p \in DOMAIN part[r], Last(r, p)
  PROVE  RInv'
  <1>1. PICK old, i, now : old = part[r][p] /\ i = old.i /\ now = [old EXCEPT !.phase = "done"]
    OBVIOUS
  <1>2. /\ old.phase = "last"
        /\ Ready(sends[SendSocket(r, p)], p, i)
        /\ Ready(recvs[RecvSocket(r, p)], p, i)
        /\ part' = [part EXCEPT ![r][p].phase = "done"]
        /\ UNCHANGED <<call, data, received, plan, sends, recvs, wire>>
    BY <1>1 DEF Last
  <1>3. RankRight(data[r], plan[r], part[r])
    BY DEF RInv
  <1>4. p \in DOMAIN plan[r]
    BY <1>3 DEF RankRight
  <1>5. Advances(old, plan[r][p]) /\ Whole(plan[r][p], Len(data[r])) /\ IsSeq(data[r])
    BY <1>1, <1>3, <1>4 DEF RankRight, PlanRight
  <1>6. now \in Progress /\ now.i = i /\ now.phase = "done"
    BY <1>1, <1>5 DEF Advances, Progress
  <1>7. part' = [part EXCEPT ![r][p] = now]
    BY <1>1, <1>2
  <1>8. Advances(now, plan[r][p])
    BY <1>1, <1>5, <1>6 DEF Advances
  <1>9. PICK lag : lag = plan[r][p].lag
    OBVIOUS
  <1>10. i \in Nat /\ lag \in {0, 1}
    BY <1>1, <1>5, <1>9 DEF Advances, Whole, Progress
  <1>11. ASSUME NEW step \in Nat, Open(part[r][p], lag, step), step # i
         PROVE  Open(now, lag, step)
    <2>1. i - lag < step /\ step <= i
      BY <1>1, <1>2, <1>11 DEF Open
    <2> QED
      BY <1>10, <1>11, <2>1
  <1>12. data = [q \in Rank |-> data[q]]
    BY DEF RInv, Tables
  <1>13. /\ UNCHANGED <<call, plan, sends, recvs, wire>>
         /\ data' = [q \in Rank |-> data'[q]]
         /\ \A q \in Rank \ {r} : data'[q] = data[q]
         /\ IsSeq(data'[r]) /\ Len(data'[r]) = Len(data[r])
    BY <1>2, <1>5, <1>12
  <1>14. \A step \in Nat : Open(part[r][p], plan[r][p].lag, step) /\ step # i =>
                             Open(now, plan[r][p].lag, step)
    BY <1>9, <1>11
  <1>15. Ready(sends[SendSocket(r, p)], p, i) /\ Ready(recvs[RecvSocket(r, p)], p, i)
    BY <1>2
  <1> QED
    BY <1>7, <1>8, <1>13, <1>14, <1>15, Waited

(* Nothing is queued of a call that has returned.                            *)
LEMMA NoTasks ==
  ASSUME RInv, NEW s \in Socket, Returned(s[1])
  PROVE  DOMAIN sends[s] = {} /\ DOMAIN recvs[s] = {}
  <1>1. PICK P, Q : P = plan[s[1]] /\ Q = part[s[1]]
    OBVIOUS
  <1>2. s[1] \in Rank
    BY SocketIs
  <1>3. RankRight(data[s[1]], P, Q) /\ SendsRight(s, sends[s], P, Q) /\ RecvsRight(s, recvs[s], P, Q)
    BY <1>1, <1>2 DEF RInv
  <1>4. \A p \in DOMAIN P : Q[p].phase = "done"
    BY <1>1, <1>3 DEF Returned, RankRight
  <1>5. ASSUME NEW t, Current(t, P, Q)
        PROVE  FALSE
    BY <1>4, <1>5 DEF Current, Open
  <1> QED
    BY <1>3, <1>5 DEF SendsRight, RecvsRight, SendRight, RecvRight

LEMMA BeginKeeps ==
  ASSUME RInv, NEW r \in Rank, Begin(r)
  PROVE  RInv'
  <1>1. PICK c, D, P, Q : c = call[r] + 1 /\ D = data'[r] /\ P = plan'[r] /\ Q = part'[r]
    OBVIOUS
  <1>2. Tables
    BY DEF RInv
  <1>3. Len(Calls) \in Nat
    BY RingAssumption, LenProperties
  <1>4. call[r] \in Nat /\ call[r] < Len(Calls) /\ Returned(r)
    BY <1>2 DEF Begin, Tables
  <1>5. call' = [call EXCEPT ![r] = c] /\ call'[r] = c
    BY <1>1, <1>2 DEF Begin, Tables
  <1>6. c \in 1..Len(Calls)
    BY <1>1, <1>3, <1>4
  <1>7. /\ data' = [data EXCEPT ![r] = IF Takes(c, r) THEN Prepared(c, r) ELSE <<>>]
        /\ plan' = [plan EXCEPT ![r] = Parts(c, r)]
        /\ part' = [part EXCEPT ![r] = [p \in DOMAIN plan'[r] |-> [i |-> 1, phase |-> "post"]]]
        /\ UNCHANGED <<sends, recvs, wire>>
    BY <1>5 DEF Begin
  <1>8. /\ D = IF Takes(c, r) THEN Prepared(c, r) ELSE <<>>
        /\ P = Parts(c, r)
        /\ Q = [p \in DOMAIN P |-> [i |-> 1, phase |-> "post"]]
    BY <1>1, <1>2, <1>7 DEF Tables
  <1>9. IsSeq(D) /\ PlanRight(P, Len(D))
    <2>1. CASE Takes(c, r)
      BY <1>6, <1>8, <2>1, PreparedIs
    <2>2. CASE ~ Takes(c, r)
      <3>1. D = <<>> /\ P = <<>>
        BY <1>8, <2>2 DEF Parts, Takes
      <3>2. <<>> \in Seq({}) /\ Len(<<>>) = 0 /\ DOMAIN <<>> = {}
        OBVIOUS
      <3>3. IsSeq(D)
        BY <3>1, <3>2 DEF IsSeq
      <3> QED
        BY <3>1, <3>2, <3>3 DEF PlanRight
    <2> QED
      BY <2>1, <2>2
  <1>10. ASSUME NEW p \in DOMAIN P
         PROVE  Advances(Q[p], P[p])
    <2>1. Whole(P[p], Len(D))
      BY <1>9 DEF PlanRight
    <2>2. Len(P[p].sends) \in Nat /\ Len(P[p].sends) > 0
      BY <2>1 DEF Whole
    <2>3. Q[p] = [i |-> 1, phase |-> "post"]
      BY <1>8
    <2>4. Q[p] \in Progress
      BY <2>3 DEF Progress
    <2> QED
      BY <2>2, <2>3, <2>4 DEF Advances
  <1>11. RankRight(D, P, Q)
    BY <1>8, <1>9, <1>10 DEF RankRight
  <1>12. ASSUME NEW s \in Socket, s[1] = r
         PROVE  SendsRight(s, sends[s], P, Q) /\ RecvsRight(s, recvs[s], P, Q)
    <2>1. Returned(s[1])
      BY <1>4, <1>12
    <2>2. DOMAIN sends[s] = {} /\ DOMAIN recvs[s] = {}
      BY <2>1, NoTasks
    <2>3. sends[s] \in Seq(Task) /\ recvs[s] \in Seq(Task)
      BY DEF RInv, SendsRight, RecvsRight
    <2> QED
      BY <2>2, <2>3 DEF SendsRight, RecvsRight
  <1>13. Tables'
    <2>1. call' \in [Rank -> Nat] /\ \A q \in Rank : call'[q] <= Len(Calls)
      BY <1>2, <1>3, <1>5, <1>6 DEF Tables
    <2>2. /\ data' = [q \in Rank |-> data'[q]] /\ plan' = [q \in Rank |-> plan'[q]]
          /\ part' = [q \in Rank |-> part'[q]]
      BY <1>2, <1>7 DEF Tables
    <2> QED
      BY <1>2, <1>7, <2>1, <2>2 DEF Tables
  <1>14. \A q \in Rank \ {r} : data'[q] = data[q] /\ plan'[q] = plan[q] /\ part'[q] = part[q]
    BY <1>2, <1>7 DEF Tables
  <1>15. \A s \in Socket : s[1] # r => sends'[s] = sends[s] /\ recvs'[s] = recvs[s]
    BY <1>7
  <1>16. RankRight(data'[r], plan'[r], part'[r])
    BY <1>1, <1>11
  <1>17. \A s \in Socket : s[1] = r =>
           /\ SendsRight(s, sends'[s], plan'[r], part'[r])
           /\ RecvsRight(s, recvs'[s], plan'[r], part'[r])
    BY <1>1, <1>7, <1>12
  <1>18. \A s \in Socket : IsSeq(wire'[s])
    BY <1>7 DEF RInv
  <1> QED
    BY <1>13, <1>14, <1>15, <1>16, <1>17, <1>18, OneRank

LEMMA RestRight ==
  ASSUME NEW s, NEW queue \in Seq(Task), queue # <<>>, NEW n \in Nat, NEW P, NEW Q, NEW L,
         \A p \in DOMAIN P : Whole(P[p], L)
  PROVE  /\ SendsRight(s, queue, P, Q) => SendsRight(s, Rest(queue, n), P, Q)
         /\ RecvsRight(s, queue, P, Q) => RecvsRight(s, Rest(queue, n), P, Q)
  <1>1. PICK left : left = Rest(queue, n)
    OBVIOUS
  <1>2. Shrunk(left, queue)
    BY <1>1, RestIs
  <1>3. left \in Seq(Task)
    BY <1>2 DEF Shrunk
  <1>4. ASSUME NEW k \in DOMAIN left
        PROVE  /\ SendsRight(s, queue, P, Q) => SendRight(s, left[k], P, Q)
               /\ RecvsRight(s, queue, P, Q) => RecvRight(s, left[k], P, Q)
    <2>1. PICK m \in DOMAIN queue :
            /\ left[k].part = queue[m].part /\ left[k].step = queue[m].step
            /\ left[k].place = queue[m].place /\ left[k].hi = queue[m].hi
            /\ queue[m].lo <= left[k].lo
      BY <1>2 DEF Shrunk
    <2>2. PICK t, u : t = left[k] /\ u = queue[m]
      OBVIOUS
    <2>3. t \in Task /\ u \in Task
      <3>1. DOMAIN left = 1..Len(left) /\ DOMAIN queue = 1..Len(queue)
        BY <1>3, LenProperties
      <3> QED
        BY <1>3, <2>2, <3>1, ElementOfSeq
    <2>4. /\ t.part = u.part /\ t.step = u.step /\ t.place = u.place /\ t.hi = u.hi
          /\ u.lo <= t.lo /\ t.lo \in Nat /\ u.lo \in Nat
      BY <2>1, <2>2, <2>3 DEF Task
    <2>5. Current(u, P, Q) => Current(t, P, Q)
      BY <2>4 DEF Current
    <2>6. ASSUME Current(u, P, Q)
          PROVE  /\ P[u.part].sends[u.step][1] \in Nat
                 /\ P[u.part].recvs[u.step][1] \in Nat
      BY <2>6 DEF Current, Whole, Within
    <2>7. ASSUME NEW range, range[1] \in Nat, Rests(u, range)
          PROVE  Rests(t, range)
      BY <2>4, <2>7 DEF Rests
    <2>8. ASSUME SendRight(s, u, P, Q)
          PROVE  SendRight(s, t, P, Q)
      BY <2>4, <2>5, <2>6, <2>7, <2>8 DEF SendRight
    <2>9. ASSUME RecvRight(s, u, P, Q)
          PROVE  RecvRight(s, t, P, Q)
      BY <2>4, <2>5, <2>6, <2>7, <2>9 DEF RecvRight
    <2> QED
      BY <2>2, <2>8, <2>9 DEF SendsRight, RecvsRight
  <1> QED
    BY <1>1, <1>3, <1>4 DEF SendsRight, RecvsRight

(* The first task of a socket: what is left of it lies within the buffer.    *)
LEMMA HeadIs ==
  ASSUME NEW queue \in Seq(Task), queue # <<>>
  PROVE  Head(queue) \in Task /\ 1 \in DOMAIN queue /\ Head(queue) = queue[1]
  BY HeadTailProperties, EmptySeq, LenProperties

LEMMA SendKeeps ==
  ASSUME RInv, NEW s \in Socket, Send(s)
  PROVE  RInv'
  <1>1. PICK r, P, Q, D : r = s[1] /\ P = plan[r] /\ Q = part[r] /\ D = data[r]
    OBVIOUS
  <1>2. r \in Rank
    BY <1>1, SocketIs
  <1>3. RankRight(D, P, Q) /\ SendsRight(s, sends[s], P, Q)
    BY <1>1, <1>2 DEF RInv
  <1>4. PICK task : task = Head(sends[s])
    OBVIOUS
  <1>5. sends[s] # <<>> /\ UNCHANGED <<call, data, received, plan, part, recvs>>
    BY DEF Send, threads
  <1>6. task \in Task /\ 1 \in DOMAIN sends[s] /\ task = sends[s][1]
    BY <1>3, <1>4, <1>5, HeadIs DEF SendsRight
  <1>7. PICK n \in 1..(task.hi - task.lo) :
          /\ wire' = [wire EXCEPT ![Peer(s)] = @ \o SubSeq(data[s[1]], task.lo + 1, task.lo + n)]
          /\ sends' = [sends EXCEPT ![s] = Rest(@, n)]
    BY <1>4 DEF Send
  <1>8. task.lo \in Nat /\ task.hi \in Int
    BY <1>6 DEF Task
  <1>9. n \in Nat /\ n >= 1 /\ task.lo + n <= task.hi
    BY <1>7, <1>8
  <1>10. SendRight(s, task, P, Q)
    BY <1>3, <1>6 DEF SendsRight
  <1>11. IsSeq(D) /\ \A p \in DOMAIN P : Whole(P[p], Len(D))
    BY <1>3 DEF RankRight, PlanRight
  <1>12. Len(D) \in Nat
    BY <1>11, SeqIs
  <1>13. task.hi <= Len(D)
    BY <1>10, <1>11 DEF SendRight, Current, Rests, Whole, Within
  <1>14. IsSeq(SubSeq(D, task.lo + 1, task.lo + n))
    <2>1. PICK a, b : a = task.lo + 1 /\ b = task.lo + n
      OBVIOUS
    <2>2. a \in Int /\ b \in Int /\ 1 <= a /\ b <= Len(D)
      BY <1>8, <1>9, <1>12, <1>13, <2>1
    <2> QED
      BY <1>11, <2>1, <2>2, SeqCut
  <1>15. /\ wire = [x \in Socket |-> wire[x]] /\ sends = [x \in Socket |-> sends[x]]
    BY DEF RInv, Tables
  <1>16. ASSUME NEW x \in Socket
         PROVE  IsSeq(wire'[x])
    <2>1. IsSeq(wire[x])
      BY DEF RInv
    <2>2. CASE x = Peer(s)
      <3>1. PICK u, v : u = wire[x] /\ v = SubSeq(D, task.lo + 1, task.lo + n)
        OBVIOUS
      <3>2. wire'[x] = u \o v
        BY <1>1, <1>7, <1>15, <2>2, <3>1
      <3>3. IsSeq(u \o v)
        BY <1>14, <2>1, <3>1, SeqJoin
      <3> QED
        BY <3>2, <3>3
    <2>3. CASE x # Peer(s)
      BY <1>7, <1>15, <2>1, <2>3
    <2> QED
      BY <2>2, <2>3
  <1>17. /\ sends'[s] = Rest(sends[s], n)
         /\ \A x \in Socket : x # s => sends'[x] = sends[x]
         /\ sends' = [x \in Socket |-> sends'[x]] /\ wire' = [x \in Socket |-> wire'[x]]
    BY <1>7, <1>15
  <1>18. SendsRight(s, sends'[s], P, Q)
    <2>1. PICK queue : queue = sends[s]
      OBVIOUS
    <2>2. queue \in Seq(Task) /\ queue # <<>> /\ SendsRight(s, queue, P, Q)
      BY <1>3, <1>5, <2>1 DEF SendsRight
    <2>3. SendsRight(s, Rest(queue, n), P, Q)
      BY <1>9, <1>11, <2>2, RestRight
    <2> QED
      BY <1>17, <2>1, <2>3
  <1>19. Tables'
    BY <1>5, <1>17 DEF RInv, Tables
  <1>20. \A q \in Rank \ {r} : data'[q] = data[q] /\ plan'[q] = plan[q] /\ part'[q] = part[q]
    BY <1>5
  <1>21. \A x \in Socket : x[1] # r => sends'[x] = sends[x] /\ recvs'[x] = recvs[x]
    BY <1>1, <1>5, <1>17
  <1>22. RankRight(data'[r], plan'[r], part'[r])
    BY <1>1, <1>3, <1>5
  <1>23. ASSUME NEW x \in Socket, x[1] = r
         PROVE  /\ SendsRight(x, sends'[x], plan'[r], part'[r])
                /\ RecvsRight(x, recvs'[x], plan'[r], part'[r])
    <2>1. SendsRight(x, sends[x], P, Q) /\ RecvsRight(x, recvs[x], P, Q)
      BY <1>1, <1>23 DEF RInv
    <2>2. SendsRight(x, sends'[x], P, Q)
      BY <1>17, <1>18, <2>1
    <2> QED
      BY <1>1, <1>5, <2>1, <2>2
  <1>24. \A x \in Socket : IsSeq(wire'[x])
    BY <1>16
  <1>25. \A x \in Socket : x[1] = r =>
           /\ SendsRight(x, sends'[x], plan'[r], part'[r])
           /\ RecvsRight(x, recvs'[x], plan'[r], part'[r])
    BY <1>23
  <1> QED
    BY <1>2, <1>19, <1>20, <1>21, <1>22, <1>24, <1>25, OneRank

(* What a step of the receiving thread of socket s does.                     *)
LEMMA RecvIs ==
  ASSUME RInv, NEW s \in Socket, Recv(s)
  PROVE  \E n \in Nat :
           /\ recvs[s] # <<>>
           /\ n <= Head(recvs[s]).hi - Head(recvs[s]).lo /\ n <= Len(wire[s])
           /\ wire' = [wire EXCEPT ![s] = SubSeq(wire[s], n + 1, Len(wire[s]))]
           /\ recvs' = [recvs EXCEPT ![s] = Rest(recvs[s], n)]
           /\ IF Head(recvs[s]).place = InPlace
              THEN data' = [data EXCEPT ![s[1]] = [e \in DOMAIN data[s[1]] |->
                     IF e \in (Head(recvs[s]).lo + 1)..(Head(recvs[s]).lo + n)
                     THEN wire[s][e - Head(recvs[s]).lo] ELSE data[s[1]][e]]]
              ELSE data' = data
           /\ UNCHANGED <<call, plan, part, sends>>
  <1>1. PICK task, most : task = Head(recvs[s]) /\ most = Smaller(task.hi - task.lo, Len(wire[s]))
    OBVIOUS
  <1>2. recvs[s] # <<>> /\ UNCHANGED <<call, plan, part, sends>>
    BY DEF Recv
  <1>3. recvs[s] \in Seq(Task) /\ IsSeq(wire[s])
    BY DEF RInv, RecvsRight
  <1>4. task.lo \in Nat /\ task.hi \in Int
    <2>1. task \in Task
      BY <1>1, <1>2, <1>3, HeadIs
    <2> QED
      BY <2>1 DEF Task
  <1>5. Len(wire[s]) \in Nat
    BY <1>3, SeqIs
  <1>6. most \in Int /\ most <= task.hi - task.lo /\ most <= Len(wire[s])
    <2>1. PICK d, l : d = task.hi - task.lo /\ l = Len(wire[s])
      OBVIOUS
    <2>2. d \in Int /\ l \in Int /\ most = Smaller(d, l)
      BY <1>1, <1>4, <1>5, <2>1
    <2>3. most \in Int /\ most <= d /\ most <= l
      BY <2>2 DEF Smaller
    <2> QED
      BY <2>1, <2>3
  <1>7. PICK n \in 1..most :
          /\ wire' = [wire EXCEPT ![s] = SubSeq(@, n + 1, Len(@))]
          /\ recvs' = [recvs EXCEPT ![s] = Rest(@, n)]
          /\ IF task.place = InPlace
             THEN data' = [data EXCEPT ![s[1]] = [e \in DOMAIN @ |->
                    IF e \in (task.lo + 1)..(task.lo + n)
                    THEN wire[s][e - task.lo] ELSE @[e]]]
             ELSE data' = data
    BY <1>1, ZenonT(30) DEF Recv
  <1>8. n \in Nat /\ n <= task.hi - task.lo /\ n <= Len(wire[s])
    BY <1>4, <1>5, <1>6, <1>7
  <1> QED
    BY <1>1, <1>2, <1>7, <1>8

LEMMA RecvKeeps ==
  ASSUME RInv, NEW s \in Socket, Recv(s)
  PROVE  RInv'
  <1>1. PICK r, P, Q, D, task, queue :
          /\ r = s[1] /\ P = plan[r] /\ Q = part[r] /\ D = data[r]
          /\ task = Head(recvs[s]) /\ queue = recvs[s]
    OBVIOUS
  <1>2. r \in Rank
    BY <1>1, SocketIs
  <1>3. RankRight(D, P, Q) /\ RecvsRight(s, queue, P, Q) /\ IsSeq(wire[s])
    BY <1>1, <1>2 DEF RInv
  <1>4. PICK n \in Nat :
          /\ queue # <<>>
          /\ n <= Len(wire[s])
          /\ wire' = [wire EXCEPT ![s] = SubSeq(wire[s], n + 1, Len(wire[s]))]
          /\ recvs' = [recvs EXCEPT ![s] = Rest(queue, n)]
          /\ IF task.place = InPlace
             THEN data' = [data EXCEPT ![r] = [e \in DOMAIN D |->
                    IF e \in (task.lo + 1)..(task.lo + n) THEN wire[s][e - task.lo] ELSE D[e]]]
             ELSE data' = data
          /\ UNCHANGED <<call, plan, part, sends>>
    BY <1>1, RecvIs
  <1>5. /\ data = [q \in Rank |-> data[q]] /\ wire = [x \in Socket |-> wire[x]]
        /\ recvs = [x \in Socket |-> recvs[x]]
    BY DEF RInv, Tables
  <1>6. IsSeq(D) /\ \A p \in DOMAIN P : Whole(P[p], Len(D))
    BY <1>3 DEF RankRight, PlanRight
  <1>7. /\ data' = [q \in Rank |-> data'[q]]
        /\ \A q \in Rank \ {r} : data'[q] = data[q]
    BY <1>4, <1>5
  <1>8. IsSeq(data'[r]) /\ Len(data'[r]) = Len(D)
    <2>1. CASE task.place = InPlace
      <3>1. PICK l, f : l = Len(D) /\ f = data'[r]
        OBVIOUS
      <3>2. l \in Nat /\ DOMAIN D = 1..l
        BY <1>6, <3>1, SeqIs
      <3>3. f = [e \in 1..l |->
                   IF e \in (task.lo + 1)..(task.lo + n) THEN wire[s][e - task.lo] ELSE D[e]]
        BY <1>2, <1>4, <1>5, <2>1, <3>1, <3>2
      <3>4. f = [e \in 1..l |-> f[e]]
        BY <3>3
      <3>5. IsSeq(f) /\ Len(f) = l
        BY <3>2, <3>4, SeqMade
      <3> QED
        BY <3>1, <3>5
    <2>2. CASE task.place # InPlace
      BY <1>1, <1>4, <1>6, <2>2
    <2> QED
      BY <2>1, <2>2
  <1>9. RankRight(data'[r], plan'[r], part'[r])
    <2>1. RankRight(data'[r], P, Q)
      BY <1>3, <1>8 DEF RankRight
    <2> QED
      BY <1>1, <1>4, <2>1
  <1>10. /\ recvs'[s] = Rest(queue, n)
         /\ \A x \in Socket : x # s => recvs'[x] = recvs[x]
         /\ recvs' = [x \in Socket |-> recvs'[x]] /\ wire' = [x \in Socket |-> wire'[x]]
    BY <1>4, <1>5
  <1>11. ASSUME NEW x \in Socket
         PROVE  IsSeq(wire'[x])
    <2>1. CASE x = s
      <3>1. PICK u, l : u = wire[s] /\ l = Len(u)
        OBVIOUS
      <3>2. IsSeq(u) /\ l \in Nat
        BY <1>3, <3>1, SeqIs
      <3>3. n + 1 \in Int /\ l \in Int /\ 1 <= n + 1 /\ l <= Len(u)
        BY <3>1, <3>2
      <3>4. IsSeq(SubSeq(u, n + 1, l))
        BY <3>2, <3>3, SeqCut
      <3> QED
        BY <1>4, <1>5, <2>1, <3>1, <3>4
    <2>2. CASE x # s
      BY <1>4, <1>5, <2>2 DEF RInv
    <2> QED
      BY <2>1, <2>2
  <1>12. RecvsRight(s, recvs'[s], P, Q)
    <2>1. queue \in Seq(Task) /\ queue # <<>>
      BY <1>3, <1>4 DEF RecvsRight
    <2>2. RecvsRight(s, Rest(queue, n), P, Q)
      BY <1>3, <1>6, <2>1, RestRight
    <2> QED
      BY <1>10, <2>2
  <1>13. Tables'
    BY <1>4, <1>7, <1>10 DEF RInv, Tables
  <1>14. \A q \in Rank \ {r} : data'[q] = data[q] /\ plan'[q] = plan[q] /\ part'[q] = part[q]
    BY <1>4, <1>7
  <1>15. \A x \in Socket : x[1] # r => sends'[x] = sends[x] /\ recvs'[x] = recvs[x]
    BY <1>1, <1>4, <1>10
  <1>16. ASSUME NEW x \in Socket, x[1] = r
         PROVE  /\ SendsRight(x, sends'[x], plan'[r], part'[r])
                /\ RecvsRight(x, recvs'[x], plan'[r], part'[r])
    <2>1. SendsRight(x, sends[x], P, Q) /\ RecvsRight(x, recvs[x], P, Q)
      BY <1>1, <1>16 DEF RInv
    <2>2. RecvsRight(x, recvs'[x], P, Q)
      BY <1>10, <1>12, <2>1
    <2> QED
      BY <1>1, <1>4, <2>1, <2>2
  <1>17. \A x \in Socket : IsSeq(wire'[x])
    BY <1>11
  <1>18. \A x \in Socket : x[1] = r =>
           /\ SendsRight(x, sends'[x], plan'[r], part'[r])
           /\ RecvsRight(x, recvs'[x], plan'[r], part'[r])
    BY <1>16
  <1> QED
    BY <1>2, <1>9, <1>13, <1>14, <1>15, <1>17, <1>18, OneRank

LEMMA RNext == RInv /\ [Next]_vars => RInv'
  <1> SUFFICES ASSUME RInv, [Next]_vars PROVE RInv'
    OBVIOUS
  <1>1. ASSUME NEW r \in Rank, Begin(r)
        PROVE  RInv'
    BY <1>1, BeginKeeps
  <1>2. ASSUME NEW r \in Rank, NEW p \in DOMAIN part[r], Post(r, p)
        PROVE  RInv'
    BY <1>2, PostKeeps
  <1>3. ASSUME NEW r \in Rank, NEW p \in DOMAIN part[r], Await(r, p)
        PROVE  RInv'
    BY <1>3, AwaitKeeps
  <1>4. ASSUME NEW r \in Rank, NEW p \in DOMAIN part[r], Last(r, p)
        PROVE  RInv'
    BY <1>4, LastKeeps
  <1>5. ASSUME NEW s \in Socket, Send(s)
        PROVE  RInv'
    BY <1>5, SendKeeps
  <1>6. ASSUME NEW s \in Socket, Recv(s)
        PROVE  RInv'
    BY <1>6, RecvKeeps
  <1>7. CASE UNCHANGED vars
    BY <1>7 DEF RInv, Tables, vars, threads
  <1> QED
    BY <1>1, <1>2, <1>3, <1>4, <1>5, <1>6, <1>7 DEF Next

-----------------------------------------------------------------------------
(* Two receive buffers suffice: a packet that is under way lags behind a     *)
(* packet that waits to be reduced by one at most, and then is the other's.  *)
LEMMA TwoSuffice == RInv => TwoBuffersSuffice
  <1> SUFFICES ASSUME RInv, NEW s \in Socket, NEW k \in DOMAIN recvs[s],
                      NEW task, task = recvs[s][k],
                      NEW mine, mine = plan[s[1]][task.part],
                      NEW now, now = part[s[1]][task.part],
                      task.place # InPlace,
                      NEW j \in Larger(1, now.i - mine.lag)..(task.step - 1)
               PROVE  Place(j) # task.place
    BY DEF TwoBuffersSuffice
  <1>1. PICK P, Q : P = plan[s[1]] /\ Q = part[s[1]]
    OBVIOUS
  <1>2. s[1] \in Rank
    BY SocketIs
  <1>3. RankRight(data[s[1]], P, Q) /\ RecvRight(s, task, P, Q) /\ task \in Task
    <2>1. RankRight(data[s[1]], P, Q) /\ RecvsRight(s, recvs[s], P, Q)
      BY <1>1, <1>2 DEF RInv
    <2>2. recvs[s] \in Seq(Task) /\ RecvRight(s, task, P, Q)
      BY <2>1 DEF RecvsRight
    <2>3. k \in 1..Len(recvs[s])
      BY <2>2, LenProperties
    <2> QED
      BY <2>1, <2>2, <2>3, ElementOfSeq
  <1>4. task.place = Place(task.step) /\ Open(now, mine.lag, task.step) /\ task.part \in DOMAIN P
    BY <1>1, <1>3 DEF RecvRight, Current
  <1>5. PICK i, lag, step : i = now.i /\ lag = mine.lag /\ step = task.step
    OBVIOUS
  <1>6. i \in Nat /\ lag \in {0, 1} /\ step \in Nat
    BY <1>1, <1>3, <1>4, <1>5 DEF RankRight, PlanRight, Whole, Advances, Progress, Task
  <1>7. step <= i
    <2>1. step < i \/ step <= i
      BY <1>4, <1>5 DEF Open
    <2> QED
      BY <1>6, <2>1
  <1>8. Larger(1, i - lag) \in Nat /\ Larger(1, i - lag) >= i - lag
    BY <1>6 DEF Larger
  <1>9. j \in Int /\ j >= i - lag /\ j <= step - 1
    <2>1. PICK m : m = Larger(1, i - lag)
      OBVIOUS
    <2>2. m \in Nat /\ m >= i - lag /\ j \in m..(step - 1)
      BY <1>5, <1>8, <2>1
    <2> QED
      BY <1>6, <2>2
  <1>10. step = j + 1
    BY <1>6, <1>7, <1>9
  <1>11. j % 2 # (j + 1) % 2
    BY <1>9, RemainderNext
  <1> QED
    BY <1>4, <1>5, <1>10, <1>11 DEF Place

(* A packet does not overwrite one that waits to be reduced (recv_buffers of *)
(* all_reduce_impl).                                                         *)
THEOREM TwoBuffers == Spec => []TwoBuffersSuffice
  <1>1. Spec => []RInv
    BY RInit, RNext, PTL DEF Spec
  <1> QED
    BY <1>1, TwoSuffice, PTL

-----------------------------------------------------------------------------
(* What is queued to be sent stays as it is.                                 *)
LEMMA SendIs ==
  ASSUME RInv, NEW s \in Socket, NEW k \in DOMAIN sends[s], NEW task, task = sends[s][k],
         NEW P, P = plan[s[1]], NEW e, e \in (task.lo + 1)..task.hi
  PROVE  /\ SendRight(s, task, P, part[s[1]])
         /\ e \in Int
         /\ e \in (P[task.part].sends[task.step][1] + 1)..P[task.part].sends[task.step][2]
         /\ e \in DOMAIN data[s[1]]
  <1>1. s[1] \in Rank
    BY SocketIs
  <1>2. PICK D : D = data[s[1]]
    OBVIOUS
  <1>3. RankRight(D, P, part[s[1]]) /\ SendsRight(s, sends[s], P, part[s[1]])
    BY <1>1, <1>2 DEF RInv
  <1>4. SendRight(s, task, P, part[s[1]]) /\ sends[s] \in Seq(Task)
    BY <1>3 DEF SendsRight
  <1>5. task \in Task
    <2>1. k \in 1..Len(sends[s])
      BY <1>4, LenProperties
    <2> QED
      BY <1>4, <2>1, ElementOfSeq
  <1>6. PICK range : range = P[task.part].sends[task.step]
    OBVIOUS
  <1>7. range[1] <= task.lo /\ task.hi = range[2]
    BY <1>4, <1>6 DEF SendRight, Rests
  <1>8. Within(range, Len(D)) /\ IsSeq(D)
    BY <1>3, <1>4, <1>6 DEF SendRight, Current, RankRight, PlanRight, Whole
  <1>9. range[1] \in Nat /\ range[2] \in Nat /\ range[2] <= Len(D)
    BY <1>8 DEF Within
  <1>10. task.lo \in Nat /\ task.hi \in Int
    BY <1>5 DEF Task
  <1>11. e \in Int /\ task.lo < e /\ e <= task.hi
    BY <1>10
  <1>12. e \in (range[1] + 1)..range[2]
    BY <1>7, <1>9, <1>10, <1>11
  <1>13. Len(D) \in Nat /\ DOMAIN D = 1..Len(D)
    BY <1>8, SeqIs
  <1>14. e \in DOMAIN D
    BY <1>7, <1>9, <1>10, <1>11, <1>13
  <1> QED
    BY <1>2, <1>4, <1>6, <1>11, <1>12, <1>14

Stable ==
  \A s \in Socket : \A k \in DOMAIN sends[s] :
    \A e \in (sends[s][k].lo + 1)..sends[s][k].hi :
      data'[s[1]][e] = data[s[1]][e]

(* Packet j of part p is reduced when the packets from j on are open.        *)
LEMMA AwaitStable ==
  ASSUME RInv, NEW r \in Rank, NEW p \in DOMAIN part[r], Await(r, p)
  PROVE  Stable
  <1> SUFFICES ASSUME NEW s \in Socket, NEW k \in DOMAIN sends[s],
                      NEW e \in (sends[s][k].lo + 1)..sends[s][k].hi
               PROVE  data'[s[1]][e] = data[s[1]][e]
    BY DEF Stable
  <1>1. PICK P, Q, D, mine, i, lag, j, task :
          /\ P = plan[r] /\ Q = part[r] /\ D = data[r] /\ mine = P[p] /\ i = Q[p].i
          /\ lag = mine.lag /\ j = i - lag /\ task = sends[s][k]
    OBVIOUS
  <1>2. /\ Q[p].phase = "await"
        /\ data' = [data EXCEPT ![r] = IF j <= mine.reduced THEN Reduced(r, p, j) ELSE @]
    BY <1>1 DEF Await
  <1>3. data = [q \in Rank |-> data[q]]
    BY DEF RInv, Tables
  <1>4. CASE s[1] # r
    BY <1>2, <1>3, <1>4, SocketIs
  <1>5. CASE s[1] = r
    <2>1. /\ SendRight(s, task, P, Q)
          /\ e \in Int
          /\ e \in (P[task.part].sends[task.step][1] + 1)..P[task.part].sends[task.step][2]
          /\ e \in DOMAIN D
      BY <1>1, <1>5, SendIs
    <2>2. RankRight(D, P, Q)
      BY <1>1 DEF RInv
    <2>3. p \in DOMAIN P
      BY <1>1, <2>2 DEF RankRight
    <2>4. Advances(Q[p], mine) /\ Whole(mine, Len(D)) /\ PlanRight(P, Len(D))
      BY <1>1, <2>2, <2>3 DEF RankRight, PlanRight
    <2>5. PICK N : N = Len(mine.recvs)
      OBVIOUS
    <2>6. N \in Nat /\ i \in 1..N /\ lag \in {0, 1} /\ i > lag
      BY <1>1, <1>2, <2>4, <2>5 DEF Advances, Whole
    <2>7. j \in 1..N
      BY <1>1, <2>6
    <2>8. task.part \in DOMAIN P /\ task.step \in 1..Len(P[task.part].sends)
          /\ Open(Q[task.part], P[task.part].lag, task.step)
      BY <2>1 DEF SendRight, Current
    <2>9. ASSUME task.part = p
          PROVE  Near(task.step, j, lag)
      <3>1. i - lag <= task.step /\ task.step <= i
        BY <1>1, <1>2, <2>8, <2>9 DEF Open
      <3>2. task.step \in Int
        BY <1>1, <2>4, <2>8, <2>9 DEF Whole
      <3>3. task.step - j <= lag /\ j - task.step <= lag
        BY <1>1, <2>6, <3>1, <3>2
      <3> QED
        BY <3>3 DEF Near
    <2>10. Apart(P[task.part].sends[task.step], P[p].recvs[j])
      BY <1>1, <2>3, <2>4, <2>5, <2>7, <2>8, <2>9 DEF PlanRight
    <2>11. e \notin (mine.recvs[j][1] + 1)..mine.recvs[j][2]
      BY <1>1, <2>1, <2>10 DEF Apart
    <2>12. CASE j <= mine.reduced
      <3>1. data'[r] = Reduced(r, p, j)
        BY <1>2, <1>3, <2>12
      <3>2. Reduced(r, p, j)[e] = D[e]
        BY <1>1, <2>1, <2>11 DEF Reduced
      <3> QED
        BY <1>1, <1>5, <3>1, <3>2
    <2>13. CASE ~ (j <= mine.reduced)
      BY <1>2, <1>3, <1>5, <2>13
    <2> QED
      BY <2>12, <2>13
  <1> QED
    BY <1>4, <1>5

LEMMA OpenNear ==
  ASSUME NEW now, now.i \in Nat, NEW lag \in {0, 1}, NEW k \in Int, NEW j \in Int,
         Open(now, lag, k), Open(now, lag, j)
  PROVE  Near(k, j, lag)
  <1>1. PICK i : i = now.i
    OBVIOUS
  <1>2. i \in Nat
    BY <1>1
  <1>3. CASE now.phase = "post"
    <2>1. i - lag <= k /\ k < i /\ i - lag <= j /\ j < i
      BY <1>1, <1>3 DEF Open
    <2> QED
      BY <1>2, <2>1 DEF Near
  <1>4. CASE now.phase = "await"
    <2>1. i - lag <= k /\ k <= i /\ i - lag <= j /\ j <= i
      BY <1>1, <1>4 DEF Open
    <2> QED
      BY <1>2, <2>1 DEF Near
  <1>5. CASE now.phase = "last"
    <2>1. i - lag < k /\ k <= i /\ i - lag < j /\ j <= i
      BY <1>1, <1>5 DEF Open
    <2> QED
      BY <1>2, <2>1 DEF Near
  <1> QED
    BY <1>3, <1>4, <1>5 DEF Open

LEMMA RecvStable ==
  ASSUME RInv, NEW x \in Socket, Recv(x)
  PROVE  Stable
  <1> SUFFICES ASSUME NEW s \in Socket, NEW k \in DOMAIN sends[s],
                      NEW e \in (sends[s][k].lo + 1)..sends[s][k].hi
               PROVE  data'[s[1]][e] = data[s[1]][e]
    BY DEF Stable
  <1>1. PICK r, P, Q, D, task, queue, mine :
          /\ r = x[1] /\ P = plan[r] /\ Q = part[r] /\ D = data[r]
          /\ queue = recvs[x] /\ task = Head(queue) /\ mine = sends[s][k]
    OBVIOUS
  <1>2. r \in Rank
    BY <1>1, SocketIs
  <1>3. RankRight(D, P, Q) /\ RecvsRight(x, queue, P, Q)
    BY <1>1, <1>2 DEF RInv
  <1>4. PICK n \in Nat :
          /\ queue # <<>>
          /\ n <= task.hi - task.lo
          /\ IF task.place = InPlace
             THEN data' = [data EXCEPT ![r] = [y \in DOMAIN D |->
                    IF y \in (task.lo + 1)..(task.lo + n) THEN wire[x][y - task.lo] ELSE D[y]]]
             ELSE data' = data
    BY <1>1, RecvIs
  <1>5. data = [q \in Rank |-> data[q]]
    BY DEF RInv, Tables
  <1>6. CASE task.place # InPlace
    BY <1>4, <1>6
  <1>7. CASE s[1] # r
    BY <1>4, <1>5, <1>7, SocketIs
  <1>8. CASE task.place = InPlace /\ s[1] = r
    <2>1. /\ SendRight(s, mine, P, Q)
          /\ e \in Int
          /\ e \in (P[mine.part].sends[mine.step][1] + 1)..P[mine.part].sends[mine.step][2]
          /\ e \in DOMAIN D
      BY <1>1, <1>8, SendIs
    <2>2. task \in Task /\ RecvRight(x, task, P, Q)
      <3>1. queue \in Seq(Task)
        BY <1>3 DEF RecvsRight
      <3>2. task \in Task /\ 1 \in DOMAIN queue /\ task = queue[1]
        BY <1>1, <1>4, <3>1, HeadIs
      <3> QED
        BY <1>3, <3>2 DEF RecvsRight
    <2>3. PICK p, q, i, j, lag, range :
            /\ p = mine.part /\ q = task.part /\ i = mine.step /\ j = task.step /\ lag = P[p].lag
            /\ range = P[q].recvs[j]
      OBVIOUS
    <2>4. /\ p \in DOMAIN P /\ i \in 1..Len(P[p].sends) /\ Open(Q[p], lag, i)
          /\ q \in DOMAIN P /\ j \in 1..Len(P[q].sends) /\ Open(Q[q], P[q].lag, j)
      BY <2>1, <2>2, <2>3 DEF SendRight, RecvRight, Current
    <2>5. PlanRight(P, Len(D)) /\ Whole(P[p], Len(D)) /\ Whole(P[q], Len(D)) /\ Advances(Q[p], P[p])
      BY <1>3, <2>4 DEF RankRight, PlanRight
    <2>6. j \in 1..Len(P[q].recvs)
      BY <2>4, <2>5 DEF Whole
    <2>7. ASSUME p = q
          PROVE  Near(i, j, lag)
      <3>1. i \in Int /\ j \in Int /\ lag \in {0, 1}
        BY <2>3, <2>4, <2>5 DEF Whole
      <3>2. Q[p].i \in Nat
        BY <2>5 DEF Advances, Progress
      <3>3. Open(Q[p], lag, i) /\ Open(Q[p], lag, j)
        BY <2>3, <2>4, <2>7
      <3> QED
        BY <3>1, <3>2, <3>3, OpenNear
    <2>8. Apart(P[p].sends[i], P[q].recvs[j])
      BY <2>3, <2>4, <2>5, <2>6, <2>7 DEF PlanRight
    <2>9. e \notin (range[1] + 1)..range[2]
      BY <2>1, <2>3, <2>8 DEF Apart
    <2>10. range[1] \in Nat /\ range[2] \in Nat /\ range[1] <= task.lo /\ task.hi = range[2]
      <3>1. Within(range, Len(D))
        BY <2>3, <2>4, <2>5 DEF Whole
      <3>2. Rests(task, range)
        BY <1>8, <2>2, <2>3 DEF RecvRight
      <3> QED
        BY <3>1, <3>2 DEF Within, Rests
    <2>11. task.lo \in Nat /\ task.hi \in Int
      BY <2>2 DEF Task
    <2>12. e \notin (task.lo + 1)..(task.lo + n)
      BY <1>4, <2>1, <2>9, <2>10, <2>11
    <2>13. data'[r] = [y \in DOMAIN D |->
             IF y \in (task.lo + 1)..(task.lo + n) THEN wire[x][y - task.lo] ELSE D[y]]
      BY <1>2, <1>4, <1>5, <1>8
    <2>14. data'[r][e] = D[e]
      BY <2>1, <2>12, <2>13
    <2> QED
      BY <1>1, <1>8, <2>14
  <1> QED
    BY <1>6, <1>7, <1>8

LEMMA NextStable == RInv /\ Next => Stable
  <1> SUFFICES ASSUME RInv, Next PROVE Stable
    OBVIOUS
  <1>1. ASSUME data' = data
        PROVE  Stable
    BY <1>1 DEF Stable
  <1>2. ASSUME NEW r \in Rank, Begin(r)
        PROVE  Stable
    <2>1. data' = [data EXCEPT ![r] = IF Takes(call'[r], r) THEN Prepared(call'[r], r) ELSE <<>>]
      BY <1>2 DEF Begin
    <2>2. data = [q \in Rank |-> data[q]]
      BY DEF RInv, Tables
    <2>3. \A q \in Rank : q # r => data'[q] = data[q]
      BY <2>1, <2>2
    <2>4. ASSUME NEW s \in Socket, s[1] = r
          PROVE  DOMAIN sends[s] = {}
      <3>1. Returned(s[1])
        BY <1>2, <2>4 DEF Begin
      <3> QED
        BY <3>1, NoTasks
    <2> QED
      BY <2>3, <2>4, SocketIs DEF Stable
  <1>3. ASSUME NEW r \in Rank, NEW p \in DOMAIN part[r], Post(r, p) \/ Last(r, p)
        PROVE  Stable
    <2>1. data' = data
      BY <1>3 DEF Post, Last
    <2> QED
      BY <1>1, <2>1
  <1>4. ASSUME NEW r \in Rank, NEW p \in DOMAIN part[r], Await(r, p)
        PROVE  Stable
    BY <1>4, AwaitStable
  <1>5. ASSUME NEW s \in Socket, Send(s)
        PROVE  Stable
    <2>1. data' = data
      BY <1>5 DEF Send, threads
    <2> QED
      BY <1>1, <2>1
  <1>6. ASSUME NEW s \in Socket, Recv(s)
        PROVE  Stable
    BY <1>6, RecvStable
  <1> QED
    BY <1>2, <1>3, <1>4, <1>5, <1>6 DEF Next

(* What a queued send has still to read stays as it is, while its part goes  *)
(* on, while packets arrive and while the other parts of the call do the     *)
(* same (SocketThread::worker, all_reduce_impl).                             *)
THEOREM QueuedSendsAreStable == Spec => SendsStable
  <1>1. Spec => []RInv
    BY RInit, RNext, PTL DEF Spec
  <1>2. RInv /\ [Next]_vars => [Stable]_vars
    BY NextStable
  <1>3. Spec => [][Stable]_vars
    BY <1>1, <1>2, PTL DEF Spec
  <1> QED
    BY <1>3 DEF SendsStable, Stable

(* A set of natural numbers has a least one.                                 *)
LEMMA Least ==
  ASSUME NEW T, T \subseteq Nat, T # {}
  PROVE  \E x \in T : \A y \in T : x <= y
  <1>1. PICK n \in T : TRUE
    OBVIOUS
  <1>2. PICK S, B : S = 0..n /\ B = {0..y : y \in {z \in T : z <= n}}
    OBVIOUS
  <1>3. n \in Nat /\ IsFiniteSet(S)
    BY <1>2, FS_Interval
  <1>4. FiniteSubsetsOf(S) = SUBSET S
    BY <1>3, FS_FiniteSubsetsOfFinite
  <1>5. IsWellFoundedOn(StrictSubsetOrdering(S), SUBSET S)
    BY <1>3, <1>4, FS_StrictSubsetOrderingWellFounded
  <1>6. B \subseteq SUBSET S /\ B # {}
    <2>1. ASSUME NEW y \in T, y <= n
          PROVE  0..y \subseteq S
      BY <1>2, <1>3, <2>1
    <2>2. 0..n \in B
      BY <1>2, <1>3
    <2> QED
      BY <1>2, <2>1, <2>2
  <1>7. PICK u \in B : \A v \in B : ~ (<<v, u>> \in StrictSubsetOrdering(S))
    BY <1>5, <1>6, WFMin
  <1>8. PICK x \in T : x <= n /\ u = 0..x
    BY <1>2
  <1>9. ASSUME NEW y \in T, y < x
        PROVE  FALSE
    <2>1. x \in Nat /\ y \in Nat /\ y <= n
      BY <1>3, <1>8, <1>9
    <2>2. 0..y \in B
      BY <1>2, <2>1
    <2>3. 0..y \subseteq 0..x /\ x \in 0..x /\ x \notin 0..y
      BY <1>9, <2>1
    <2>4. <<0..y, u>> \in StrictSubsetOrdering(S)
      BY <1>6, <1>8, <2>2, <2>3 DEF StrictSubsetOrdering
    <2> QED
      BY <1>7, <2>2, <2>4
  <1>10. \A y \in T : x <= y
    BY <1>9
  <1> QED
    BY <1>10

(* Remainders around the ring.                                               *)
LEMMA RemainderMore ==
  ASSUME NEW x \in Int, NEW b \in Nat, b > 1
  PROVE  /\ \A m \in 1..(b - 1) : x % b # (x + m) % b
         /\ (x + b) % b = x % b
         /\ (x - b) % b = x % b
  <1>1. PICK q : q = x \div b
    OBVIOUS
  <1>2. q \in Int /\ b * q <= x /\ x < b * q + b
    BY <1>1, Quotient
  <1>3. PICK z, r : z = b * q /\ r = x - z
    OBVIOUS
  <1>4. z \in Int /\ r \in Nat /\ r < b /\ x = b * q + r /\ b \in Nat \ {0}
    BY <1>2, <1>3
  <1>5. x % b = r
    BY <1>2, <1>4, Remainder
  <1>6. b * (q + 1) = z + b /\ b * (q - 1) = z - b
    BY <1>2, <1>3
  <1>7. (x + b) % b = r
    <2>1. x + b = b * (q + 1) + r /\ q + 1 \in Int /\ x + b \in Int
      BY <1>2, <1>3, <1>4, <1>6
    <2> QED
      BY <1>4, <2>1, Remainder
  <1>8. (x - b) % b = r
    <2>1. x - b = b * (q - 1) + r /\ q - 1 \in Int /\ x - b \in Int
      BY <1>2, <1>3, <1>4, <1>6
    <2> QED
      BY <1>4, <2>1, Remainder
  <1>9. ASSUME NEW m \in 1..(b - 1)
        PROVE  (x + m) % b # r
    <2>1. CASE r + m < b
      <3>1. x + m = b * q + (r + m) /\ r + m \in Nat /\ x + m \in Int
        BY <1>3, <1>4
      <3>2. (x + m) % b = r + m
        BY <1>2, <1>4, <2>1, <3>1, Remainder
      <3> QED
        BY <1>4, <1>9, <3>2
    <2>2. CASE ~ (r + m < b)
      <3>0. PICK w : w = b * (q + 1)
        OBVIOUS
      <3>3. w = z + b /\ x = z + r /\ m \in Nat /\ 0 < m /\ m < b
        BY <1>3, <1>4, <1>6, <3>0
      <3>4. x + m = w + (r + m - b) /\ r + m - b \in Nat /\ r + m - b < b /\ x + m \in Int
        BY <1>4, <2>2, <3>3
      <3>1. x + m = b * (q + 1) + (r + m - b) /\ r + m - b \in Nat /\ r + m - b < b /\ x + m \in Int
        BY <3>0, <3>4
      <3>5. PICK y, h, k : y = x + m /\ h = q + 1 /\ k = r + m - b
        OBVIOUS
      <3>6. y \in Int /\ h \in Int /\ k \in Nat /\ k < b /\ y = b * h + k
        BY <1>2, <3>1, <3>5
      <3>2. (x + m) % b = r + m - b
        BY <1>4, <3>5, <3>6, Remainder
      <3> QED
        BY <1>4, <1>9, <3>2
    <2> QED
      BY <2>1, <2>2
  <1> QED
    BY <1>5, <1>7, <1>8, <1>9

(* Any b numbers in a row have every remainder.                              *)
LEMMA RemainderSome ==
  ASSUME NEW x \in Int, NEW b \in Nat, b > 1, NEW g \in 0..(b - 1)
  PROVE  \E m \in 0..(b - 1) : (x + m) % b = g
  <1>1. PICK q : q = x \div b
    OBVIOUS
  <1>2. q \in Int /\ b * q <= x /\ x < b * q + b
    BY <1>1, Quotient
  <1>3. PICK z, r : z = b * q /\ r = x - z
    OBVIOUS
  <1>4. z \in Int /\ r \in Nat /\ r < b /\ b \in Nat \ {0} /\ g \in Nat /\ g < b
    BY <1>2, <1>3
  <1>5. b * (q + 1) = z + b
    BY <1>2, <1>3
  <1>6. CASE r <= g
    <2>1. g - r \in 0..(b - 1) /\ x + (g - r) = b * q + g /\ x + (g - r) \in Int
      BY <1>3, <1>4, <1>6
    <2>2. (x + (g - r)) % b = g
      BY <1>2, <1>4, <2>1, Remainder
    <2> QED
      BY <2>1, <2>2
  <1>7. CASE ~ (r <= g)
    <2>1. g - r + b \in 0..(b - 1) /\ x + (g - r + b) = b * (q + 1) + g /\ x + (g - r + b) \in Int /\ q + 1 \in Int
      BY <1>2, <1>3, <1>4, <1>5, <1>7
    <2>2. (x + (g - r + b)) % b = g
      BY <1>4, <2>1, Remainder
    <2> QED
      BY <2>1, <2>2
  <1> QED
    BY <1>6, <1>7

(* The remainder is all that counts of a summand.                            *)
LEMMA RemainderIn ==
  ASSUME NEW x \in Int, NEW b \in Nat, b > 1, NEW m \in Int
  PROVE  ((x % b) + m) % b = (x + m) % b
  <1>1. PICK q, w : q = x \div b /\ w = b * q
    OBVIOUS
  <1>2. q \in Int /\ b * q <= x /\ x < b * q + b /\ w \in Int
    BY <1>1, Quotient
  <1>3. x = b * q + (x - w) /\ x - w \in Nat /\ x - w < b /\ b \in Nat \ {0}
    BY <1>1, <1>2
  <1>4. x % b = x - w
    BY <1>2, <1>3, Remainder
  <1>5. PICK u, h, v : u = x + m /\ h = u \div b /\ v = b * h
    OBVIOUS
  <1>6. u \in Int /\ h \in Int /\ v \in Int /\ v <= u /\ u < v + b
    BY <1>3, <1>5, Quotient
  <1>7. u % b = u - v
    <2>1. u = b * h + (u - v) /\ u - v \in Nat /\ u - v < b
      BY <1>3, <1>5, <1>6
    <2> QED
      BY <1>3, <1>6, <2>1, Remainder
  <1>8. (x % b) + m = u - w /\ u - w \in Int
    BY <1>2, <1>4, <1>5, <1>6
  <1>9. b * (h - q) = v - w
    BY <1>1, <1>2, <1>3, <1>5, <1>6
  <1>10. u - w = b * (h - q) + (u - v) /\ h - q \in Int /\ u - v \in Nat /\ u - v < b
    BY <1>2, <1>6, <1>9
  <1>11. (u - w) % b = u - v
    BY <1>3, <1>8, <1>10, Remainder
  <1> QED
    BY <1>5, <1>7, <1>8, <1>11

(* Rank r is the left neighbour of its right neighbour, and conversely.      *)
LEMMA Neighbours ==
  ASSUME NEW r \in Rank
  PROVE  /\ Right(r) \in Rank /\ Left(r) \in Rank /\ Right(r) # r /\ Left(r) # r
         /\ Left(Right(r)) = r /\ Right(Left(r)) = r
         /\ \A m \in Int : (Right(r) + m) % Size = (r + m + 1) % Size
         /\ \A m \in Int : (Left(r) + m) % Size = (r + m - 1) % Size
  <1>1. Size \in Nat /\ Size > 1 /\ r \in Nat /\ r < Size
    BY RingPlanAssumption DEF Rank
  <1>2. Right(r) = (r + 1) % Size /\ Left(r) = (r + Size - 1) % Size
    BY DEF Right, Left
  <1>3. r % Size = r
    BY <1>1
  <1>4. (r + Size - 1) % Size = (r - 1) % Size
    <2>1. PICK y : y = r - 1
      OBVIOUS
    <2>2. y \in Int /\ y + Size = r + Size - 1
      BY <1>1, <2>1
    <2>3. (y + Size) % Size = y % Size
      BY <1>1, <2>2, RemainderMore
    <2> QED
      BY <2>1, <2>2, <2>3
  <1>5. ASSUME NEW m \in Int
        PROVE  /\ (Right(r) + m) % Size = (r + m + 1) % Size
               /\ (Left(r) + m) % Size = (r + m - 1) % Size
    <2>1. r + 1 \in Int /\ r - 1 \in Int
      BY <1>1
    <2>2. (((r + 1) % Size) + m) % Size = (r + 1 + m) % Size
      BY <1>1, <2>1, RemainderIn
    <2>3. (((r - 1) % Size) + m) % Size = (r - 1 + m) % Size
      BY <1>1, <2>1, RemainderIn
    <2>4. r + 1 + m = r + m + 1 /\ r - 1 + m = r + m - 1
      BY <1>1
    <2> QED
      BY <1>2, <1>4, <2>2, <2>3, <2>4
  <1>6. Left(Right(r)) = r
    <2>1. Left(Right(r)) = (Right(r) + Size - 1) % Size
      BY DEF Left
    <2>2. Right(r) \in Int
      BY <1>1, <1>2
    <2>3. Right(r) + Size - 1 = Right(r) + (Size - 1) /\ Size - 1 \in Int
      BY <1>1, <2>2
    <2>4. (Right(r) + (Size - 1)) % Size = (r + (Size - 1) + 1) % Size
      BY <1>5, <2>3
    <2>5. r + (Size - 1) + 1 = r + Size
      BY <1>1
    <2>7. r \in Int
      BY <1>1
    <2>6. (r + Size) % Size = r % Size
      BY <1>1, <2>7, RemainderMore
    <2> QED
      BY <1>3, <2>1, <2>3, <2>4, <2>5, <2>6
  <1>7. Right(Left(r)) = r
    <2>1. Right(Left(r)) = (Left(r) + 1) % Size
      BY DEF Right
    <2>2. (Left(r) + 1) % Size = (r + 1 - 1) % Size
      BY <1>5
    <2>3. r + 1 - 1 = r
      BY <1>1
    <2> QED
      BY <1>3, <2>1, <2>2, <2>3
  <1>8. Right(r) \in Rank /\ Left(r) \in Rank
    BY <1>1, <1>2 DEF Rank
  <1>11. r \in Int
    BY <1>1
  <1>9. Right(r) # r
    BY <1>1, <1>2, <1>3, <1>11, RemainderNext
  <1>10. Left(r) # r
    <2>1. r - 1 \in Int
      BY <1>1
    <2>2. (r - 1) % Size # (r - 1 + 1) % Size
      BY <1>1, <2>1, RemainderNext
    <2>3. r - 1 + 1 = r
      BY <1>1
    <2> QED
      BY <1>2, <1>3, <1>4, <2>2, <2>3
  <1> QED
    BY <1>5, <1>6, <1>7, <1>8, <1>9, <1>10

Way(side) == IF side = "right" THEN -1 ELSE 1

LEMMA WalkIs ==
  ASSUME NEW r \in Rank, NEW side, NEW t \in Nat
  PROVE  /\ Walk(r, side, t) = {(r + Way(side) * m) % Size : m \in 0..t}
         /\ Walk(r, side, t) \subseteq Rank
         /\ Walk(r, side, 0) = {r}
  <1>1. Size \in Nat /\ Size > 1 /\ r \in Nat /\ r < Size
    BY RingPlanAssumption DEF Rank
  <1>2. Way(side) \in {-1, 1}
    BY DEF Way
  <1>3. \A m \in Nat : r + Way(side) * m \in Int
    BY <1>1, <1>2
  <1>4. \A x \in Int : x % Size \in 0..(Size - 1)
    BY <1>1
  <1>5. Walk(r, side, t) = {(r + Way(side) * m) % Size : m \in 0..t}
    BY DEF Walk, Way
  <1>6. \A m \in 0..t : (r + Way(side) * m) % Size \in Rank
    BY <1>3, <1>4 DEF Rank
  <1>7. Walk(r, side, 0) = {r}
    <2>1. Walk(r, side, 0) = {(r + Way(side) * m) % Size : m \in 0..0}
      BY DEF Walk, Way
    <2>2. \A m \in 0..0 : m = 0
      OBVIOUS
    <2>3. r + Way(side) * 0 = r /\ r % Size = r
      BY <1>1, <1>2
    <2>4. 0 \in 0..0
      OBVIOUS
    <2>5. {(r + Way(side) * m) % Size : m \in 0..0} = {(r + Way(side) * 0) % Size}
      BY <2>2, <2>4
    <2> QED
      BY <2>1, <2>3, <2>5
  <1> QED
    BY <1>5, <1>6, <1>7

LEMMA FromIs ==
  ASSUME NEW r \in Rank, NEW side
  PROVE  /\ From(r, side) \in Rank
         /\ \A m \in Int : (From(r, side) + m) % Size = (r + Way(side) + m) % Size
  <1>1. CASE side = "right"
    <2>1. ASSUME NEW m \in Int
          PROVE  (Left(r) + m) % Size = (r - 1 + m) % Size
      <3>1. r + m - 1 = r - 1 + m
        BY DEF Rank
      <3> QED
        BY <3>1, Neighbours
    <2>2. r + (-1) = r - 1
      BY DEF Rank
    <2> QED
      BY <1>1, <2>1, <2>2, Neighbours DEF From, Way
  <1>2. CASE side # "right"
    <2>1. ASSUME NEW m \in Int
          PROVE  (Right(r) + m) % Size = (r + 1 + m) % Size
      <3>1. r + m + 1 = r + 1 + m
        BY DEF Rank
      <3> QED
        BY <3>1, Neighbours
    <2> QED
      BY <1>2, <2>1, Neighbours DEF From, Way
  <1> QED
    BY <1>1, <1>2

LEMMA WalkGrows ==
  ASSUME NEW r \in Rank, NEW side, NEW t \in Nat, NEW u \in 0..t
  PROVE  Walk(r, side, u) \subseteq Walk(r, side, t)
  <1>1. 0..u \subseteq 0..t
    OBVIOUS
  <1>2. u \in Nat
    OBVIOUS
  <1>3. /\ Walk(r, side, t) = {(r + Way(side) * m) % Size : m \in 0..t}
        /\ Walk(r, side, u) = {(r + Way(side) * m) % Size : m \in 0..u}
    BY <1>2, WalkIs
  <1> QED
    BY <1>1, <1>3

(* A walk of one step more, from the rank in front.                          *)
LEMMA WalkOn ==
  ASSUME NEW r \in Rank, NEW side, NEW t \in Nat
  PROVE  Walk(r, side, t + 1) = {r} \cup Walk(From(r, side), side, t)
  <1>1. PICK l, d : l = From(r, side) /\ d = Way(side)
    OBVIOUS
  <1>2. Size \in Nat /\ Size > 1 /\ r \in Nat /\ r < Size /\ d \in {-1, 1}
    BY <1>1, RingPlanAssumption DEF Rank, Way
  <1>3. l \in Rank /\ \A m \in Int : (l + m) % Size = (r + d + m) % Size
    BY <1>1, FromIs
  <1>4. t + 1 \in Nat
    OBVIOUS
  <1>5. Walk(r, side, t + 1) = {(r + d * m) % Size : m \in 0..(t + 1)}
    BY <1>1, <1>4, WalkIs
  <1>6. Walk(l, side, t) = {(l + d * m) % Size : m \in 0..t}
    BY <1>1, <1>3, WalkIs
  <1>7. ASSUME NEW m \in 0..t
        PROVE  (l + d * m) % Size = (r + d * (m + 1)) % Size
    <2>1. d * m \in Int
      BY <1>2
    <2>2. r + d + d * m = r + d * (m + 1)
      BY <1>2
    <2> QED
      BY <1>3, <2>1, <2>2
  <1>8. (r + d * 0) % Size = r
    <2>1. d * 0 = 0 /\ r + 0 = r /\ r % Size = r
      BY <1>2
    <2> QED
      BY <2>1
  <1>9. ASSUME NEW q \in Walk(r, side, t + 1)
        PROVE  q \in {r} \cup Walk(l, side, t)
    <2>1. PICK m \in 0..(t + 1) : q = (r + d * m) % Size
      BY <1>5
    <2>2. CASE m = 0
      BY <1>8, <2>1, <2>2
    <2>3. CASE m # 0
      <3>1. m - 1 \in 0..t /\ (m - 1) + 1 = m
        BY <2>1, <2>3
      <3>2. q = (l + d * (m - 1)) % Size
        BY <1>7, <2>1, <3>1
      <3> QED
        BY <1>6, <3>1, <3>2
    <2> QED
      BY <2>2, <2>3
  <1>10. ASSUME NEW q \in Walk(l, side, t)
         PROVE  q \in Walk(r, side, t + 1)
    <2>1. PICK m \in 0..t : q = (l + d * m) % Size
      BY <1>6
    <2>2. m + 1 \in 0..(t + 1) /\ q = (r + d * (m + 1)) % Size
      BY <1>7, <2>1
    <2> QED
      BY <1>5, <2>2
  <1>11. r \in Walk(r, side, t + 1)
    <2>1. 0 \in 0..(t + 1)
      OBVIOUS
    <2> QED
      BY <1>5, <1>8, <2>1
  <1> QED
    BY <1>1, <1>9, <1>10, <1>11

LEMMA WalkApart ==
  ASSUME NEW r \in Rank, NEW side, NEW t \in Nat, t < Size - 1
  PROVE  r \notin Walk(From(r, side), side, t)
  <1>1. PICK l, d : l = From(r, side) /\ d = Way(side)
    OBVIOUS
  <1>2. Size \in Nat /\ Size > 1 /\ r \in Nat /\ r < Size /\ d \in {-1, 1}
    BY <1>1, RingPlanAssumption DEF Rank, Way
  <1>3. l \in Rank /\ \A m \in Int : (l + m) % Size = (r + d + m) % Size
    BY <1>1, FromIs
  <1>4. Walk(l, side, t) = {(l + d * m) % Size : m \in 0..t}
    BY <1>1, <1>3, WalkIs
  <1>5. ASSUME NEW m \in 0..t
        PROVE  (l + d * m) % Size # r
    <2>1. d * m \in Int /\ m \in Nat /\ m + 1 \in 1..(Size - 1)
      BY <1>2
    <2>2. (l + d * m) % Size = (r + d + d * m) % Size
      BY <1>3, <2>1
    <2>3. r % Size = r /\ r \in Int
      BY <1>2
    <2>4. CASE d = 1
      <3>1. r + d + d * m = r + (m + 1)
        BY <1>2, <2>1, <2>4
      <3>2. r % Size # (r + (m + 1)) % Size
        BY <1>2, <2>1, <2>3, RemainderMore
      <3> QED
        BY <2>2, <2>3, <3>1, <3>2
    <2>5. CASE d = -1
      <3>1. PICK x : x = r - (m + 1)
        OBVIOUS
      <3>2. r + d + d * m = x /\ x \in Int /\ x + (m + 1) = r
        BY <1>2, <2>1, <2>5, <3>1
      <3>3. x % Size # (x + (m + 1)) % Size
        BY <1>2, <2>1, <3>2, RemainderMore
      <3> QED
        BY <2>2, <2>3, <3>2, <3>3
    <2> QED
      BY <1>2, <2>4, <2>5
  <1> QED
    BY <1>1, <1>4, <1>5

(* All around the ring.                                                      *)
LEMMA WalkAll ==
  ASSUME NEW r \in Rank, NEW side, NEW t \in Nat, t >= Size - 1
  PROVE  Walk(r, side, t) = Rank
  <1>1. PICK d : d = Way(side)
    OBVIOUS
  <1>2. Size \in Nat /\ Size > 1 /\ r \in Nat /\ r < Size /\ d \in {-1, 1}
    BY <1>1, RingPlanAssumption DEF Rank, Way
  <1>3. Walk(r, side, t) = {(r + d * m) % Size : m \in 0..t} /\ Walk(r, side, t) \subseteq Rank
    BY <1>1, WalkIs
  <1>4. ASSUME NEW g \in Rank
        PROVE  \E m \in 0..t : (r + d * m) % Size = g
    <2>1. g \in 0..(Size - 1)
      BY DEF Rank
    <2>2. CASE d = 1
      <3>0. r \in Int
        BY <1>2
      <3>1. PICK m \in 0..(Size - 1) : (r + m) % Size = g
        BY <1>2, <2>1, <3>0, RemainderSome
      <3>2. m \in 0..t /\ r + d * m = r + m
        BY <1>2, <2>2, <3>1
      <3> QED
        BY <3>1, <3>2
    <2>3. CASE d = -1
      <3>1. PICK x : x = r - (Size - 1)
        OBVIOUS
      <3>2. x \in Int
        BY <1>2, <3>1
      <3>3. PICK m \in 0..(Size - 1) : (x + m) % Size = g
        BY <1>2, <2>1, <3>2, RemainderSome
      <3>4. PICK k : k = Size - 1 - m
        OBVIOUS
      <3>5. k \in 0..t /\ r + d * k = x + m
        BY <1>2, <2>3, <3>1, <3>3, <3>4
      <3> QED
        BY <3>3, <3>5
    <2> QED
      BY <1>2, <2>2, <2>3
  <1> QED
    BY <1>3, <1>4

(* Contributions of different ranks add up.                                  *)
LEMMA SummedTogether ==
  ASSUME NEW c, NEW A, NEW B, NEW e, A \cap B = {}
  PROVE  Summed(c, A, e) (+) Summed(c, B, e) = Summed(c, A \cup B, e)
  <1>1. PICK f : f = [q \in A \cup B |-> <<c, q, e>>]
    OBVIOUS
  <1>2. PICK S, T, U : /\ S = {<<c, q, e>> : q \in A} /\ T = {<<c, q, e>> : q \in B}
                       /\ U = {<<c, q, e>> : q \in A \cup B}
    OBVIOUS
  <1>3. U = S \cup T /\ S \cap T = {}
    <2>1. \A p, q : <<c, p, e>> = <<c, q, e>> => p = q
      OBVIOUS
    <2> QED
      BY <1>2, <2>1
  <1>4. SetToBag(S) (+) SetToBag(T) = SetToBag(U)
    <2>1. /\ SetToBag(S) = [x \in S |-> 1] /\ SetToBag(T) = [x \in T |-> 1]
          /\ SetToBag(U) = [x \in U |-> 1]
      BY DEF SetToBag
    <2>2. PICK s, u : s = SetToBag(S) /\ u = SetToBag(T)
      OBVIOUS
    <2>3. DOMAIN s = S /\ DOMAIN u = T /\ (\A x \in S : s[x] = 1) /\ (\A x \in T : u[x] = 1)
      BY <2>1, <2>2
    <2>4. s (+) u = [x \in S \cup T |-> (IF x \in S THEN s[x] ELSE 0) + (IF x \in T THEN u[x] ELSE 0)]
      BY <2>3 DEF \oplus
    <2>5. \A x \in S \cup T : (IF x \in S THEN s[x] ELSE 0) + (IF x \in T THEN u[x] ELSE 0) = 1
      BY <1>3, <2>3
    <2> QED
      BY <1>3, <2>1, <2>2, <2>4, <2>5
  <1>5. EmptyBag (+) EmptyBag = EmptyBag
    <2>1. DOMAIN EmptyBag = {}
      BY DEF EmptyBag, SetToBag
    <2>2. EmptyBag = [x \in {} |-> 1]
      BY DEF EmptyBag, SetToBag
    <2> QED
      BY <2>1, <2>2 DEF \oplus
  <1> QED
    BY <1>2, <1>4, <1>5 DEF Summed

LEMMA QuotientIs ==
  ASSUME NEW a \in Int, NEW b \in Nat \ {0}, NEW q \in Int, NEW r \in Nat, r < b, a = b * q + r
  PROVE  a \div b = q
  <1>1. PICK h : h = a \div b
    OBVIOUS
  <1>2. h \in Int /\ b * h <= a /\ a < b * h + b
    BY <1>1, Quotient
  <1>3. PICK u, v : u = b * h /\ v = b * q
    OBVIOUS
  <1>4. u \in Int /\ v \in Int /\ u <= v + r /\ v + r < u + b
    BY <1>2, <1>3
  <1>5. CASE h < q
    <2>1. b * (h + 1) <= b * q
      BY <1>2, <1>5
    <2>2. b * (h + 1) = u + b
      BY <1>2, <1>3
    <2> QED
      BY <1>3, <1>4, <2>1, <2>2
  <1>6. CASE q < h
    <2>1. b * (q + 1) <= b * h
      BY <1>2, <1>6
    <2>2. b * (q + 1) = v + b
      BY <1>3
    <2> QED
      BY <1>3, <1>4, <2>1, <2>2
  <1> QED
    BY <1>1, <1>2, <1>5, <1>6

(* Step k is packet j of the segment of the t-th turn, of b packets each.    *)
LEMMA TurnOf ==
  ASSUME NEW k \in Nat \ {0}, NEW b \in Nat \ {0}
  PROVE  /\ (k - 1) \div b \in Nat
         /\ (k - 1) % b \in 0..(b - 1)
         /\ k = b * ((k - 1) \div b) + ((k - 1) % b) + 1
         /\ \A m \in Nat : k <= b * m <=> (k - 1) \div b < m
  <1>1. PICK q, x, z : q = (k - 1) \div b /\ x = k - 1 /\ z = b * q
    OBVIOUS
  <1>2. x \in Int /\ q \in Int /\ z \in Int /\ z <= x /\ x < z + b /\ x >= 0
    <2>1. x \in Int /\ q = x \div b
      BY <1>1
    <2>2. q \in Int /\ b * q <= x /\ x < b * q + b
      BY <2>1, Quotient
    <2> QED
      BY <1>1, <2>1, <2>2
  <1>3. x % b = x - z
    <2>1. x = b * q + (x - z) /\ x - z \in Nat /\ x - z < b
      BY <1>1, <1>2
    <2> QED
      BY <1>2, <2>1, Remainder
  <1>4. q \in Nat
    <2>1. SUFFICES ASSUME q <= -1 PROVE FALSE
      BY <1>2
    <2>2. b * q <= b * (-1) /\ b * (-1) = -b
      BY <1>2, <2>1
    <2> QED
      BY <1>1, <1>2, <2>2
  <1>5. ASSUME NEW m \in Nat
        PROVE  k <= b * m <=> q < m
    <2>1. PICK w : w = b * m
      OBVIOUS
    <2>2. w \in Nat
      BY <2>1
    <2>3. CASE q < m
      <3>1. b * (q + 1) <= b * m
        BY <1>4, <2>3
      <3>2. b * (q + 1) = z + b
        BY <1>1, <1>4
      <3>3. k <= w
        BY <1>1, <1>2, <2>1, <2>2, <3>1, <3>2
      <3> QED
        BY <2>1, <2>3, <3>3
    <2>4. CASE ~ (q < m)
      <3>1. b * m <= b * q
        BY <1>4, <2>4
      <3>2. ~ (k <= w)
        BY <1>1, <1>2, <2>1, <2>2, <3>1
      <3> QED
        BY <2>1, <2>4, <3>2
    <2> QED
      BY <2>3, <2>4
  <1>6. x - z \in 0..(b - 1) /\ k = z + (x - z) + 1
    BY <1>1, <1>2
  <1>7. k = b * q + (x % b) + 1 /\ x % b \in 0..(b - 1)
    BY <1>1, <1>3, <1>6
  <1> QED
    BY <1>1, <1>4, <1>5, <1>7

LEMMA StepOf ==
  ASSUME NEW b \in Nat \ {0}, NEW t \in Nat, NEW j \in Nat, j < b, NEW k \in Int, k = b * t + j + 1
  PROVE  /\ k \in Nat \ {0}
         /\ (k - 1) \div b = t
         /\ (k - 1) % b = j
  <1>1. PICK z : z = b * t
    OBVIOUS
  <1>2. z \in Nat /\ j \in Nat /\ j < b
    BY <1>1
  <1>3. PICK x : x = k - 1
    OBVIOUS
  <1>4. k \in Nat \ {0} /\ x \in Int /\ x = b * t + j
    BY <1>1, <1>2, <1>3
  <1>5. x \div b = t
    BY <1>2, <1>4, QuotientIs
  <1>6. x % b = j
    BY <1>2, <1>4, Remainder
  <1> QED
    BY <1>3, <1>4, <1>5, <1>6

(* What is divided with CeilDiv is covered.                                  *)
LEMMA CeilDivCovers ==
  ASSUME NEW a \in Nat \ {0}, NEW b \in Nat \ {0}
  PROVE  a <= b * CeilDiv(a, b)
  <1>1. PICK m, q, z : m = a + b - 1 /\ q = m \div b /\ z = b * q
    OBVIOUS
  <1>2. m \in Int
    BY <1>1
  <1>3. q \in Int /\ m < b * q + b
    BY <1>1, <1>2, Quotient
  <1>4. z \in Int
    BY <1>1, <1>3
  <1>5. CeilDiv(a, b) = q
    BY <1>1 DEF CeilDiv
  <1> QED
    BY <1>1, <1>3, <1>4, <1>5

(* Every element of a segment is in one of its packets.                      *)
LEMMA PacketSome ==
  ASSUME NEW n \in Nat \ {0}, NEW offset \in Nat, NEW e \in Int, offset < e, e <= offset + n
  PROVE  \E g \in Rank : \E j \in 0..(Packets(n) - 1) : e \in Covers(Packet(g, j, n, offset))
  <1>1. PICK S, B, P, x : /\ S = SegmentSize(n) /\ B = BufferSize(n) /\ P = Packets(n)
                          /\ x = e - offset
    OBVIOUS
  <1>2. S \in Nat \ {0} /\ B \in Nat \ {0} /\ P \in Nat \ {0} /\ x \in Nat \ {0} /\ x <= n
    BY <1>1, Sizes
  <1>3. Size \in Nat \ {0}
    BY RingPlanAssumption
  <1>4. n <= Size * S
    BY <1>1, <1>3, CeilDivCovers DEF SegmentSize
  <1>5. S <= B * P
    <2>1. P = CeilDiv(S, B)
      BY <1>1 DEF Packets
    <2> QED
      BY <1>2, <2>1, CeilDivCovers
  <1>6. PICK g, y, u : g = (x - 1) \div S /\ y = (x - 1) % S /\ u = S * g
    OBVIOUS
  <1>7. g \in Nat /\ y \in 0..(S - 1) /\ x = u + y + 1 /\ (x <= S * Size <=> g < Size)
    BY <1>2, <1>3, <1>6, TurnOf
  <1>8. g \in Rank
    <2>1. S * Size = Size * S
      BY <1>2, <1>3
    <2>2. PICK w : w = S * Size
      OBVIOUS
    <2>3. w \in Nat /\ n <= w
      BY <1>2, <1>3, <1>4, <2>1, <2>2
    <2>4. x <= S * Size
      BY <1>2, <2>2, <2>3
    <2> QED
      BY <1>3, <1>7, <2>4 DEF Rank
  <1>9. PICK v : v = y + 1
    OBVIOUS
  <1>10. v \in Nat \ {0} /\ v <= S /\ x = u + v /\ u \in Nat
    BY <1>2, <1>6, <1>7, <1>9
  <1>11. PICK j, z, h : j = (v - 1) \div B /\ z = (v - 1) % B /\ h = B * j
    OBVIOUS
  <1>12. j \in Nat /\ z \in 0..(B - 1) /\ v = h + z + 1 /\ (v <= B * P <=> j < P)
    BY <1>2, <1>10, <1>11, TurnOf
  <1>13. j \in 0..(P - 1)
    <2>1. PICK w : w = B * P
      OBVIOUS
    <2>2. w \in Nat /\ S <= w
      BY <1>2, <1>5, <2>1
    <2>3. v <= B * P
      BY <1>2, <1>10, <2>1, <2>2
    <2> QED
      BY <1>2, <1>12, <2>3
  <1>14. g * S = u /\ j * B = h /\ (j + 1) * B = h + B /\ h \in Nat
    BY <1>2, <1>6, <1>7, <1>11, <1>12
  <1>15. PICK stop, lo, hi : /\ stop = Smaller(u + S, n)
                             /\ lo = offset + Smaller(u + h, stop)
                             /\ hi = offset + Smaller(u + (h + B), stop)
    OBVIOUS
  <1>16. Packet(g, j, n, offset) = <<lo, hi>>
    BY <1>1, <1>14, <1>15 DEF Packet
  <1>17. x <= stop /\ u + h < x /\ x <= u + (h + B) /\ stop \in Nat
    BY <1>2, <1>10, <1>12, <1>14, <1>15 DEF Smaller
  <1>18. lo \in Int /\ hi \in Int /\ lo < e /\ e <= hi
    <2>1. Smaller(u + h, stop) = u + h
      BY <1>2, <1>10, <1>14, <1>17 DEF Smaller
    <2>2. Smaller(u + (h + B), stop) \in Nat /\ x <= Smaller(u + (h + B), stop)
      BY <1>2, <1>10, <1>14, <1>17 DEF Smaller
    <2> QED
      BY <1>1, <1>2, <1>10, <1>14, <1>15, <1>17, <2>1, <2>2
  <1>19. e \in Covers(<<lo, hi>>)
    BY <1>18 DEF Covers
  <1> QED
    BY <1>1, <1>8, <1>13, <1>16, <1>19

(* ... and in no other packet.                                               *)
LEMMA PacketOne ==
  ASSUME NEW n \in Nat \ {0}, NEW offset \in Nat, NEW s \in Nat, NEW t \in Nat, NEW j \in Nat, NEW k \in Nat,
         NEW e, e \in Covers(Packet(s, j, n, offset)), e \in Covers(Packet(t, k, n, offset))
  PROVE  s = t /\ j = k
  <1>1. e \in Int
    <2>1. Within(Packet(s, j, n, offset), offset + n)
      BY PacketIs
    <2> QED
      BY <2>1 DEF Covers, Within
  <1>2. ~ Apart(Packet(s, j, n, offset), Packet(t, k, n, offset))
    BY <1>1 DEF Apart, Covers
  <1> QED
    BY <1>2, PacketsApart

LEMMA ProductIs ==
  ASSUME NEW a \in Nat, NEW b \in Nat
  PROVE  a * b \in Nat
  OBVIOUS

(* The part of an all reduce, step by step.                                  *)
Turns(mine, r, n, offset, d, P) ==
  \A k \in 1..Len(mine.sends) :
    /\ mine.sends[k] = Packet(SendSegment(r, d, (k - 1) \div P), (k - 1) % P, n, offset)
    /\ mine.recvs[k] = Packet(RecvSegment(r, d, (k - 1) \div P), (k - 1) % P, n, offset)

LEMMA ReducePlan ==
  ASSUME NEW r \in Int, NEW n \in Nat \ {0}, NEW offset \in Nat, NEW d \in {-1, 1}, NEW link,
         NEW mine, mine = ReducePart(r, n, offset, d, link), NEW P, P = Packets(n)
  PROVE  /\ P \in Nat \ {0}
         /\ Len(mine.sends) = P * (2 * (Size - 1)) /\ Len(mine.recvs) = P * (2 * (Size - 1))
         /\ mine.reduced = P * (Size - 1)
         /\ mine.reduced \div (Size - 1) = P
         /\ mine.lag = IF P > 1 THEN 1 ELSE 0
         /\ Way(mine.side) = d /\ mine.link = link /\ mine.side \in {"left", "right"}
         /\ Turns(mine, r, n, offset, d, P)
  <1>1. P \in Nat \ {0} /\ Size \in Nat /\ Size > 1
    BY Sizes, RingPlanAssumption
  <1>2. PICK count : count = 2 * (Size - 1) * P
    OBVIOUS
  <1>3. PICK v, u : v = Size - 1 /\ u = P * v
    OBVIOUS
  <1>4. v \in Nat \ {0} /\ u \in Nat
    BY <1>1, <1>3
  <1>5. count = P * (2 * v) /\ count = 2 * u /\ count \in Nat
    <2>1. 2 * v * P = P * (2 * v) /\ 2 * v * P = 2 * (P * v)
      BY <1>1, <1>4
    <2> QED
      BY <1>2, <1>3, <1>4, <2>1
  <1>6. count \div 2 = u
    <2>1. count = 2 * u + 0 /\ count \in Int /\ 0 \in Nat /\ 0 < 2 /\ 2 \in Nat \ {0} /\ u \in Int
      BY <1>4, <1>5
    <2> QED
      BY <2>1, QuotientIs
  <1>7. u \div v = P
    <2>1. v * P = u
      BY <1>1, <1>3, <1>4
    <2>2. u = v * P + 0 /\ u \in Int /\ 0 \in Nat /\ 0 < v /\ P \in Int
      BY <1>1, <1>4, <2>1
    <2> QED
      BY <1>4, <2>2, QuotientIs
  <1>8. /\ mine.sends = [i \in 1..count |->
              Packet(SendSegment(r, d, (i - 1) \div P), (i - 1) % P, n, offset)]
        /\ mine.recvs = [i \in 1..count |->
              Packet(RecvSegment(r, d, (i - 1) \div P), (i - 1) % P, n, offset)]
        /\ mine.reduced = count \div 2
        /\ mine.lag = (IF P > 1 THEN 1 ELSE 0)
        /\ mine.side = (IF d < 0 THEN "right" ELSE "left")
        /\ mine.link = link
    BY <1>2 DEF ReducePart
  <1>9. Len(mine.sends) = count /\ Len(mine.recvs) = count
    BY <1>5, <1>8
  <1>10. Way(mine.side) = d /\ mine.side \in {"left", "right"}
    <2>1. CASE d = 1
      BY <1>8, <2>1 DEF Way
    <2>2. CASE d = -1
      BY <1>8, <2>2 DEF Way
    <2> QED
      BY <2>1, <2>2
  <1>11. ASSUME NEW k \in 1..count
         PROVE  /\ mine.sends[k] = Packet(SendSegment(r, d, (k - 1) \div P), (k - 1) % P, n, offset)
                /\ mine.recvs[k] = Packet(RecvSegment(r, d, (k - 1) \div P), (k - 1) % P, n, offset)
    BY <1>8
  <1>12. count = P * (2 * (Size - 1)) /\ u = P * (Size - 1)
    BY <1>3, <1>5
  <1>13. mine.reduced = u /\ mine.reduced \div (Size - 1) = P
    BY <1>3, <1>6, <1>7, <1>8
  <1> QED
    BY <1>1, <1>8, <1>9, <1>10, <1>11, <1>12, <1>13 DEF Turns

StepAt(mine, r, n, offset, d, P, k, t, j) ==
  /\ t \in Nat /\ t < 2 * (Size - 1) /\ j \in 0..(P - 1) /\ k = P * t + j + 1
  /\ k <= mine.reduced <=> t < Size - 1
  /\ WalkStep(mine, k) = t
  /\ SendSegment(r, d, t) \in Rank /\ RecvSegment(r, d, t) \in Rank
  /\ mine.sends[k] = Packet(SendSegment(r, d, t), j, n, offset)
  /\ mine.recvs[k] = Packet(RecvSegment(r, d, t), j, n, offset)

LEMMA ReduceStep ==
  ASSUME NEW r \in Int, NEW n \in Nat \ {0}, NEW offset \in Nat, NEW d \in {-1, 1}, NEW link,
         NEW mine, mine = ReducePart(r, n, offset, d, link), NEW P, P = Packets(n),
         NEW k \in 1..Len(mine.sends), NEW t, t = (k - 1) \div P, NEW j, j = (k - 1) % P
  PROVE  StepAt(mine, r, n, offset, d, P, k, t, j)
  <1>0. /\ P \in Nat \ {0}
        /\ Len(mine.sends) = P * (2 * (Size - 1))
        /\ mine.reduced = P * (Size - 1)
        /\ mine.reduced \div (Size - 1) = P
        /\ Turns(mine, r, n, offset, d, P)
    BY ReducePlan
  <1>1. /\ P \in Nat \ {0}
        /\ Len(mine.sends) = P * (2 * (Size - 1))
        /\ mine.reduced = P * (Size - 1)
        /\ mine.reduced \div (Size - 1) = P
        /\ mine.sends[k] = Packet(SendSegment(r, d, t), j, n, offset)
        /\ mine.recvs[k] = Packet(RecvSegment(r, d, t), j, n, offset)
    BY <1>0 DEF Turns
  <1>2. Size \in Nat /\ Size > 1 /\ 2 * (Size - 1) \in Nat /\ Size - 1 \in Nat
    BY RingPlanAssumption
  <1>3. PICK L : L = Len(mine.sends)
    OBVIOUS
  <1>4. L \in Nat
    <2>1. PICK w : w = 2 * (Size - 1)
      OBVIOUS
    <2>3. P \in Nat /\ w \in Nat
      BY <1>1, <1>2, <2>1
    <2>2. P * w \in Nat
      BY <2>3, ProductIs
    <2> QED
      BY <1>1, <1>3, <2>1, <2>2
  <1>5. k \in Nat \ {0} /\ k <= L
    BY <1>3, <1>4
  <1>6. /\ t \in Nat /\ j \in 0..(P - 1) /\ k = P * t + j + 1
        /\ \A m \in Nat : k <= P * m <=> t < m
    BY <1>1, <1>5, TurnOf
  <1>7. t < 2 * (Size - 1)
    BY <1>1, <1>2, <1>3, <1>5, <1>6
  <1>8. k <= mine.reduced <=> t < Size - 1
    BY <1>1, <1>2, <1>6
  <1>9. WalkStep(mine, k) = t
    BY <1>1 DEF WalkStep
  <1>10. SendSegment(r, d, t) \in Rank /\ RecvSegment(r, d, t) \in Rank
    <2>1. t \in Int
      BY <1>6
    <2> QED
      BY <2>1, SegmentsDiffer DEF Rank
  <1> QED
    BY <1>1, <1>6, <1>7, <1>8, <1>9, <1>10 DEF StepAt

LEMMA ReduceStepAt ==
  ASSUME NEW r \in Int, NEW n \in Nat \ {0}, NEW offset \in Nat, NEW d \in {-1, 1}, NEW link,
         NEW mine, mine = ReducePart(r, n, offset, d, link), NEW P, P = Packets(n),
         NEW k \in 1..Len(mine.sends)
  PROVE  \E t, j : t = (k - 1) \div P /\ j = (k - 1) % P /\ StepAt(mine, r, n, offset, d, P, k, t, j)
  <1>1. PICK t, j : t = (k - 1) \div P /\ j = (k - 1) % P
    OBVIOUS
  <1>2. t = (k - 1) \div P /\ j = (k - 1) % P
    BY <1>1
  <1>3. StepAt(mine, r, n, offset, d, P, k, t, j)
    BY <1>2, ReduceStep
  <1> QED
    BY <1>1, <1>3

StepIs(b, t, j, k) == k \in Nat \ {0} /\ (k - 1) \div b = t /\ (k - 1) % b = j

LEMMA StepOfAny ==
  ASSUME NEW b \in Nat \ {0}, NEW t \in Nat, NEW j \in Nat, j < b, NEW k \in Int, k = b * t + j + 1
  PROVE  StepIs(b, t, j, k)
  BY StepOf DEF StepIs

LEMMA ReduceStepOf ==
  ASSUME NEW r \in Int, NEW n \in Nat \ {0}, NEW offset \in Nat, NEW d \in {-1, 1}, NEW link,
         NEW mine, mine = ReducePart(r, n, offset, d, link), NEW P, P = Packets(n),
         NEW t \in Nat, t < 2 * (Size - 1), NEW j \in 0..(P - 1), NEW k, k = P * t + j + 1
  PROVE  /\ k \in 1..Len(mine.sends)
         /\ t = (k - 1) \div P /\ j = (k - 1) % P
  <1>1. /\ P \in Nat \ {0} /\ Len(mine.sends) = P * (2 * (Size - 1))
    BY ReducePlan
  <1>2. Size \in Nat /\ Size > 1 /\ 2 * (Size - 1) \in Nat
    BY RingPlanAssumption
  <1>0. P \in Nat \ {0}
    BY <1>1
  <1>7. k \in Int /\ j \in Nat /\ j < P
    BY <1>0
  <1>3. k \in Nat \ {0} /\ (k - 1) \div P = t /\ (k - 1) % P = j
    <2>1. PICK b, x : b = P /\ x = k
      OBVIOUS
    <2>2. b \in Nat \ {0} /\ x \in Int /\ t \in Nat /\ j \in Nat /\ j < b
      BY <1>0, <1>7, <2>1
    <2>3. x = b * t + j + 1
      BY <2>1
    <2>4. StepIs(b, t, j, x)
      BY <2>2, <2>3, StepOfAny
    <2> QED
      BY <2>1, <2>4 DEF StepIs
  <1>4. \A m \in Nat : k <= P * m <=> (k - 1) \div P < m
    BY <1>0, <1>3, TurnOf
  <1>5. k <= P * (2 * (Size - 1))
    BY <1>2, <1>3, <1>4
  <1>6. Len(mine.sends) \in Nat
    <2>1. PICK w : w = 2 * (Size - 1)
      OBVIOUS
    <2>3. P \in Nat /\ w \in Nat
      BY <1>1, <1>2, <2>1
    <2>2. P * w \in Nat
      BY <2>3, ProductIs
    <2> QED
      BY <1>1, <2>1, <2>2
  <1> QED
    BY <1>1, <1>3, <1>5, <1>6

(* Which steps receive an element.                                           *)
LEMMA ReduceCovering ==
  ASSUME NEW r \in Int, NEW n \in Nat \ {0}, NEW offset \in Nat, NEW d \in {-1, 1}, NEW link,
         NEW mine, mine = ReducePart(r, n, offset, d, link), NEW P, P = Packets(n),
         NEW g \in Rank, NEW j \in 0..(P - 1), NEW e, e \in Covers(Packet(g, j, n, offset)),
         NEW k \in 1..Len(mine.sends)
  PROVE  k \in Covering(mine, e) <=> RecvSegment(r, d, (k - 1) \div P) = g /\ (k - 1) % P = j
  <1>1. PICK t, i : t = (k - 1) \div P /\ i = (k - 1) % P
    OBVIOUS
  <1>2. /\ i \in 0..(P - 1) /\ RecvSegment(r, d, t) \in Rank
        /\ mine.recvs[k] = Packet(RecvSegment(r, d, t), i, n, offset)
    <2>1. t = (k - 1) \div P /\ i = (k - 1) % P
      BY <1>1
    <2>2. StepAt(mine, r, n, offset, d, P, k, t, i)
      BY <2>1, ReduceStep
    <2> QED
      BY <2>2 DEF StepAt
  <1>3. P \in Nat \ {0} /\ Len(mine.sends) = Len(mine.recvs)
    BY ReducePlan
  <1>4. PICK s : s = RecvSegment(r, d, t)
    OBVIOUS
  <1>5. s \in Nat /\ g \in Nat /\ i \in Nat /\ j \in Nat
    BY <1>2, <1>3, <1>4, RingPlanAssumption DEF Rank
  <1>6. e \in Covers(Packet(s, i, n, offset)) <=> s = g /\ i = j
    BY <1>5, PacketOne
  <1>7. k \in Covering(mine, e) <=> e \in Covers(Packet(s, i, n, offset))
    BY <1>2, <1>3, <1>4 DEF Covering
  <1> QED
    BY <1>1, <1>4, <1>6, <1>7

(* In one round no segment comes twice.                                      *)
LEMMA SegmentOnce ==
  ASSUME NEW r \in Int, NEW d \in {-1, 1}, NEW t \in Nat, NEW u \in Nat, u < t, t - u < Size
  PROVE  RecvSegment(r, d, u) # RecvSegment(r, d, t)
  <1>1. Size \in Nat /\ Size > 1
    BY RingPlanAssumption
  <1>2. PICK m, x, y : m = t - u /\ x = r + d * (u + 1) /\ y = r + d * (t + 1)
    OBVIOUS
  <1>3. m \in 1..(Size - 1) /\ x \in Int /\ y \in Int
    BY <1>1, <1>2
  <1>4. x % Size # y % Size
    <2>1. CASE d = 1
      <3>1. y = x + m
        BY <1>2, <2>1
      <3> QED
        BY <1>1, <1>3, <3>1, RemainderMore
    <2>2. CASE d = -1
      <3>1. x = y + m
        BY <1>2, <2>2
      <3> QED
        BY <1>1, <1>3, <3>1, RemainderMore
    <2> QED
      BY <2>1, <2>2
  <1> QED
    BY <1>2, <1>4 DEF RecvSegment

-----------------------------------------------------------------------------
(* The pieces of a call's buffer that its parts work on: the same pieces on  *)
(* every rank, apart, and nothing left over.                                 *)
Layout == [n : Nat \ {0}, offset : Nat, d : {-1, 1}, link : 0..(Links - 1)]

In(f, e) == f.offset < e /\ e <= f.offset + f.n

LaidOut(F, C, L, n) ==
  /\ C \in Nat \ {0} /\ C <= 2 * Links
  /\ \A p \in 1..C : F[p] \in Layout /\ F[p].offset + F[p].n <= L
  /\ \A p, q \in 1..C : F[p].d = F[q].d /\ F[p].link = F[q].link => p = q
  /\ \A p, q \in 1..C : \A e \in Int : In(F[p], e) /\ In(F[q], e) => p = q
  /\ \A e \in 1..n : \E p \in 1..C : In(F[p], e)

LEMMA LinkIs ==
  ASSUME NEW p \in Nat \ {0}
  PROVE  /\ (p - 1) \div 2 \in Nat
         /\ p <= 2 * Links => (p - 1) \div 2 <= Links - 1
         /\ \A q \in Nat \ {0} : (p - 1) \div 2 = (q - 1) \div 2 /\ (p % 2 = 0 <=> q % 2 = 0) => p = q
  BY RingPlanAssumption

ReduceBy(n, C, F) ==
  /\ LaidOut(F, C, Larger(n, Size), n)
  /\ \A r : ReduceParts(r, n) =
       [p \in 1..C |-> ReducePart(r, F[p].n, F[p].offset, F[p].d, F[p].link)]

LEMMA ReduceLayout ==
  ASSUME NEW n \in Nat \ {0}
  PROVE  \E C, F : ReduceBy(n, C, F)
  <1>1. Size \in Nat /\ Size > 1 /\ Links \in Nat \ {0}
    BY RingPlanAssumption
  <1>2. CASE n < Size
    <2>1. PICK F : F = [p \in 1..1 |-> [n |-> Size, offset |-> 0, d |-> -1, link |-> 0]]
      OBVIOUS
    <2>2. \A p \in 1..1 : p = 1
      OBVIOUS
    <2>3. F[1] = [n |-> Size, offset |-> 0, d |-> -1, link |-> 0] /\ 1 \in 1..1
      BY <2>1
    <2>4. F[1] \in Layout /\ F[1].offset + F[1].n <= Larger(n, Size)
      BY <1>1, <1>2, <2>3 DEF Layout, Larger
    <2>5. \A e \in 1..n : In(F[1], e)
      BY <1>1, <1>2, <2>3 DEF In
    <2>6. LaidOut(F, 1, Larger(n, Size), n)
      BY <1>1, <2>2, <2>3, <2>4, <2>5 DEF LaidOut
    <2>7. ASSUME NEW r
          PROVE  ReduceParts(r, n) =
                   [p \in 1..1 |-> ReducePart(r, F[p].n, F[p].offset, F[p].d, F[p].link)]
      <3>1. PICK mine : mine = ReducePart(r, Size, 0, -1, 0)
        OBVIOUS
      <3>2. ReduceParts(r, n) = <<mine>>
        BY <1>2, <3>1 DEF ReduceParts
      <3>3. PICK X : X = [p \in 1..1 |-> mine]
        OBVIOUS
      <3>6. <<mine>> = X
        BY <3>3
      <3>4. \A p \in 1..1 : ReducePart(r, F[p].n, F[p].offset, F[p].d, F[p].link) = mine
        BY <2>2, <2>3, <3>1
      <3>5. X =
              [p \in 1..1 |-> ReducePart(r, F[p].n, F[p].offset, F[p].d, F[p].link)]
        BY <3>3, <3>4, Zenon
      <3> QED
        BY <3>2, <3>5, <3>6, Zenon
    <2>8. PICK C : C = 1
      OBVIOUS
    <2>9. LaidOut(F, C, Larger(n, Size), n)
      BY <2>6, <2>8, Zenon
    <2>10. \A r : ReduceParts(r, n) =
                    [p \in 1..C |-> ReducePart(r, F[p].n, F[p].offset, F[p].d, F[p].link)]
      BY <2>7, <2>8, Zenon
    <2>11. ReduceBy(n, C, F)
      BY <2>9, <2>10 DEF ReduceBy
    <2> QED
      BY <2>11
  <1>3. CASE n >= Size
    <2>1. PICK c, s : c = ReduceCount(n) /\ s = CeilDiv(n, c)
      OBVIOUS
    <2>2. c \in Nat \ {0} /\ (c - 1) * s < n
      BY <1>3, <2>1, CountIs
    <2>3. s \in Nat \ {0} /\ n <= c * s
      BY <2>1, <2>2, CeilDivIs, CeilDivCovers
    <2>4. c <= 2 * Links
      <3>1. PICK f : f = n \div (Size * MinSend)
        OBVIOUS
      <3>2. f \in Int
        <4>1. PICK M : M = Size * MinSend
          OBVIOUS
        <4>2. M \in Nat \ {0}
          BY <4>1, RingPlanAssumption
        <4> QED
          BY <3>1, <4>1, <4>2, Quotient
      <3>3. c = Larger(1, Smaller(2 * Links, f))
        BY <2>1, <3>1 DEF ReduceCount
      <3> QED
        BY <1>1, <3>2, <3>3 DEF Larger, Smaller
    <2>5. PICK F : F = [p \in 1..c |->
                     [n |-> Smaller(n, p * s) - (p - 1) * s, offset |-> (p - 1) * s,
                      d |-> IF p % 2 = 0 THEN -1 ELSE 1, link |-> (p - 1) \div 2]]
      OBVIOUS
    <2>6. ASSUME NEW p \in 1..c
          PROVE  /\ F[p] \in Layout /\ F[p].offset + F[p].n <= n
                 /\ F[p].n = Smaller(n, p * s) - (p - 1) * s /\ F[p].offset = (p - 1) * s
                 /\ F[p].offset + F[p].n <= ((p - 1) + 1) * s
                 /\ F[p].d = (IF p % 2 = 0 THEN -1 ELSE 1) /\ F[p].link = (p - 1) \div 2
                 /\ \A e \in Int : e <= n /\ (p - 1) * s < e /\ e <= p * s => In(F[p], e)
      <3>1. PICK x, y, z, d, link :
              /\ x = (p - 1) * s /\ y = p * s /\ z = Smaller(n, y) - x
              /\ d = (IF p % 2 = 0 THEN -1 ELSE 1) /\ link = (p - 1) \div 2
        OBVIOUS
      <3>2. x \in Nat /\ y \in Nat /\ y = x + s /\ ((p - 1) + 1) * s = y
        BY <2>2, <2>3, <3>1
      <3>3. x < n
        <4>1. (p - 1) * s <= (c - 1) * s
          BY <2>2, <2>3
        <4>2. PICK w : w = (c - 1) * s
          OBVIOUS
        <4>3. w \in Nat
          BY <2>2, <2>3, <4>2
        <4> QED
          BY <2>2, <3>1, <3>2, <4>1, <4>2, <4>3
      <3>4. z \in Nat \ {0} /\ x + z <= n /\ x + z <= y /\ (x + z = n \/ x + z = y)
        BY <2>3, <3>1, <3>2, <3>3 DEF Smaller
      <3>5. d \in {-1, 1} /\ link \in 0..(Links - 1)
        <4>1. link \in Nat /\ link <= Links - 1
          BY <1>1, <2>2, <2>4, <3>1, LinkIs
        <4> QED
          BY <1>1, <3>1, <4>1
      <3>6. F[p] = [n |-> z, offset |-> x, d |-> d, link |-> link]
        BY <2>5, <3>1
      <3>7. F[p] \in Layout
        BY <3>2, <3>4, <3>5, <3>6 DEF Layout
      <3>8. \A e \in Int : e <= n /\ x < e /\ e <= y => In(F[p], e)
        BY <3>2, <3>4, <3>6 DEF In
      <3> QED
        BY <3>1, <3>2, <3>4, <3>6, <3>7, <3>8
    <2>7. ASSUME NEW p \in 1..c, NEW q \in 1..c, F[p].d = F[q].d /\ F[p].link = F[q].link
          PROVE  p = q
      <3>1. (p - 1) \div 2 = (q - 1) \div 2 /\ (p % 2 = 0 <=> q % 2 = 0)
        BY <2>6, <2>7
      <3>2. p \in Nat \ {0} /\ q \in Nat \ {0}
        BY <2>2
      <3> QED
        BY <3>1, <3>2, LinkIs
    <2>8. ASSUME NEW p \in 1..c, NEW q \in 1..c, NEW e \in Int, In(F[p], e), In(F[q], e), p # q
          PROVE  FALSE
      <3>1. PICK a, b : a = p - 1 /\ b = q - 1
        OBVIOUS
      <3>2. a \in Nat /\ b \in Nat /\ a # b
        BY <2>2, <2>8, <3>1
      <3>3. a * s < e /\ e <= (a + 1) * s
        <4>1. PICK u, v, o, m : u = a * s /\ v = (a + 1) * s /\ o = F[p].offset /\ m = F[p].n
          OBVIOUS
        <4>2. o = u /\ o + m <= v /\ o \in Nat /\ m \in Nat
          BY <2>6, <3>1, <4>1 DEF Layout
        <4>3. v \in Int
          BY <2>3, <3>2, <4>1
        <4> QED
          BY <2>8, <4>1, <4>2, <4>3 DEF In
      <3>4. b * s < e /\ e <= (b + 1) * s
        <4>1. PICK u, v, o, m : u = b * s /\ v = (b + 1) * s /\ o = F[q].offset /\ m = F[q].n
          OBVIOUS
        <4>2. o = u /\ o + m <= v /\ o \in Nat /\ m \in Nat
          BY <2>6, <3>1, <4>1 DEF Layout
        <4>3. v \in Int
          BY <2>3, <3>2, <4>1
        <4> QED
          BY <2>8, <4>1, <4>2, <4>3 DEF In
      <3> QED
        BY <2>3, <3>2, <3>3, <3>4, Blocks
    <2>9. ASSUME NEW e \in 1..n
          PROVE  \E p \in 1..c : In(F[p], e)
      <3>1. PICK q, y, u : q = (e - 1) \div s /\ y = (e - 1) % s /\ u = s * q
        OBVIOUS
      <3>2. q \in Nat /\ y \in 0..(s - 1) /\ e = u + y + 1 /\ (e <= s * c <=> q < c)
        BY <2>2, <2>3, <3>1, TurnOf
      <3>3. PICK w : w = c * s
        OBVIOUS
      <3>4. w \in Nat /\ s * c = w
        BY <2>2, <2>3, <3>3
      <3>5. q < c
        BY <2>3, <3>2, <3>3, <3>4
      <3>6. PICK p : p = q + 1
        OBVIOUS
      <3>7. p \in 1..c /\ (p - 1) * s = u /\ p * s = u + s /\ u \in Nat
        BY <2>2, <2>3, <3>1, <3>2, <3>5, <3>6
      <3>8. e \in Int /\ e <= n /\ (p - 1) * s < e /\ e <= p * s
        BY <2>3, <3>2, <3>7
      <3>9. \A x \in Int : x <= n /\ (p - 1) * s < x /\ x <= p * s => In(F[p], x)
        BY <2>6, <3>7, Zenon
      <3> QED
        BY <3>7, <3>8, <3>9, Zenon
    <2>10. Larger(n, Size) = n
      BY <1>1, <1>3 DEF Larger
    <2>11. LaidOut(F, c, Larger(n, Size), n)
      <3>1. \A p \in 1..c : F[p] \in Layout /\ F[p].offset + F[p].n <= Larger(n, Size)
        BY <2>6, <2>10
      <3>2. c \in Nat \ {0} /\ c <= 2 * Links
        BY <2>2, <2>4
      <3> QED
        BY <2>7, <2>8, <2>9, <3>1, <3>2 DEF LaidOut
    <2>12. ASSUME NEW r
           PROVE  ReduceParts(r, n) =
                    [p \in 1..c |-> ReducePart(r, F[p].n, F[p].offset, F[p].d, F[p].link)]
      <3>1. ReduceParts(r, n) = [p \in 1..c |->
              ReducePart(r, Smaller(n, p * s) - (p - 1) * s, (p - 1) * s,
                         IF p % 2 = 0 THEN -1 ELSE 1, (p - 1) \div 2)]
        BY <1>1, <1>3, <2>1 DEF ReduceParts
      <3>3. \A p \in 1..c :
              ReducePart(r, Smaller(n, p * s) - (p - 1) * s, (p - 1) * s,
                         IF p % 2 = 0 THEN -1 ELSE 1, (p - 1) \div 2)
                = ReducePart(r, F[p].n, F[p].offset, F[p].d, F[p].link)
        BY <2>6, Zenon
      <3> QED
        BY <3>1, <3>3, Zenon
    <2>13. ReduceBy(n, c, F)
      BY <2>11, <2>12 DEF ReduceBy
    <2> QED
      BY <2>13
  <1> QED
    BY <1>1, <1>2, <1>3

-----------------------------------------------------------------------------
(* Segments on the way around the ring.                                      *)
LEMMA SegmentFrom ==
  ASSUME NEW r \in Rank, NEW d \in {-1, 1}, NEW side, Way(side) = d, NEW t \in Int
  PROVE  /\ SendSegment(From(r, side), d, t) = RecvSegment(r, d, t)
         /\ SendSegment(r, d, t) = RecvSegment(r, d, t - 1)
         /\ SendSegment(r, d, 0) = r
  <1>1. PICK m : m = d * t
    OBVIOUS
  <1>2. m \in Int
    BY <1>1
  <1>3. (From(r, side) + m) % Size = (r + d + m) % Size
    BY <1>2, FromIs
  <1>4. r + d * (t + 1) = r + d + m
    BY <1>1 DEF Rank
  <1>5. d * ((t - 1) + 1) = d * t
    OBVIOUS
  <1>6. (r + d * 0) % Size = r
    <2>1. r + d * 0 = r
      BY DEF Rank
    <2>2. r % Size = r
      BY RingPlanAssumption DEF Rank
    <2> QED
      BY <2>1, <2>2
  <1> QED
    BY <1>1, <1>3, <1>4, <1>5, <1>6 DEF SendSegment, RecvSegment

LEMMA NotOwn ==
  ASSUME NEW r \in Rank, NEW d \in {-1, 1}, NEW u \in Nat, u < Size - 1
  PROVE  RecvSegment(r, d, u) # r
  <1>1. PICK m, x : m = u + 1 /\ x = r + d * m
    OBVIOUS
  <1>2. Size \in Nat /\ Size > 1 /\ m \in 1..(Size - 1) /\ r \in Int /\ r % Size = r
    BY <1>1, RingPlanAssumption DEF Rank
  <1>3. CASE d = 1
    <2>1. x = r + m
      BY <1>1, <1>2, <1>3
    <2>2. r % Size # (r + m) % Size
      BY <1>2, RemainderMore
    <2> QED
      BY <1>1, <1>2, <2>1, <2>2 DEF RecvSegment
  <1>4. CASE d = -1
    <2>1. x \in Int /\ x + m = r
      BY <1>1, <1>2, <1>4
    <2>2. x % Size # (x + m) % Size
      BY <1>2, <2>1, RemainderMore
    <2> QED
      BY <1>1, <1>2, <2>1, <2>2 DEF RecvSegment
  <1> QED
    BY <1>3, <1>4

LEMMA SegmentSome ==
  ASSUME NEW r \in Rank, NEW d \in {-1, 1}, NEW g \in Rank
  PROVE  \E t \in 0..(Size - 1) : SendSegment(r, d, t) = g
  <1>1. PICK side : side = IF d = 1 THEN "left" ELSE "right"
    OBVIOUS
  <1>2. Way(side) = d
    BY <1>1 DEF Way
  <1>3. Size - 1 \in Nat /\ Size - 1 >= Size - 1
    BY RingPlanAssumption
  <1>4. g \in Walk(r, side, Size - 1)
    BY <1>3, WalkAll
  <1>5. \E m \in 0..(Size - 1) : g = (r + d * m) % Size
    BY <1>2, <1>3, <1>4, WalkIs
  <1> QED
    BY <1>5 DEF SendSegment

-----------------------------------------------------------------------------
(* A part of an all reduce: the sizes of its packets and of its rounds.      *)
LEMMA PacketSize ==
  ASSUME NEW g \in Nat, NEW j \in Nat, NEW n \in Nat \ {0}, NEW offset \in Nat,
         NEW range, range = Packet(g, j, n, offset)
  PROVE  range[2] - range[1] <= MaxBuffer
  <1>1. PICK S, B, h : S = SegmentSize(n) /\ B = BufferSize(n) /\ h = S \div 2
    OBVIOUS
  <1>2. S \in Nat \ {0} /\ B \in Nat \ {0} /\ h \in Int
    BY <1>1, Sizes
  <1>3. B <= MaxBuffer
    BY <1>1, <1>2, RingPlanAssumption DEF BufferSize, Larger, Smaller
  <1>4. PICK start, low : start = g * S /\ low = j * B
    OBVIOUS
  <1>5. start \in Nat /\ low \in Nat /\ (j + 1) * B = low + B
    BY <1>2, <1>4
  <1>6. PICK stop, x, y : /\ stop = Smaller(start + S, n)
                          /\ x = Smaller(start + low, stop)
                          /\ y = Smaller(start + (low + B), stop)
    OBVIOUS
  <1>7. range = <<offset + x, offset + y>>
    BY <1>1, <1>4, <1>5, <1>6 DEF Packet
  <1>8. stop \in Nat /\ x \in Nat /\ y \in Nat /\ y <= x + B
    BY <1>2, <1>5, <1>6 DEF Smaller
  <1>9. MaxBuffer \in Nat
    BY RingPlanAssumption
  <1> QED
    BY <1>2, <1>3, <1>7, <1>8, <1>9

LEMMA ReduceRounds ==
  ASSUME NEW r \in Int, NEW n \in Nat \ {0}, NEW offset \in Nat, NEW d \in {-1, 1}, NEW link,
         NEW mine, mine = ReducePart(r, n, offset, d, link)
  PROVE  /\ mine.reduced + mine.lag < Len(mine.sends)
         /\ \A k \in 1..Len(mine.recvs) : mine.recvs[k][2] - mine.recvs[k][1] <= MaxBuffer
         /\ \A i, j \in 1..Len(mine.recvs) :
              i # j /\ Near(i, j, mine.lag) => Apart(mine.recvs[i], mine.recvs[j])
  <1>0. PICK P : P = Packets(n)
    OBVIOUS
  <1>1. PICK v, u, w : v = Size - 1 /\ w = 2 * (Size - 1) /\ u = P * v
    OBVIOUS
  <1>2. /\ P \in Nat \ {0} /\ Len(mine.sends) = P * w /\ Len(mine.recvs) = P * w
        /\ mine.reduced = u /\ mine.lag = IF P > 1 THEN 1 ELSE 0
    <2>1. /\ P \in Nat \ {0} /\ Len(mine.sends) = P * (2 * (Size - 1))
          /\ Len(mine.recvs) = P * (2 * (Size - 1))
          /\ mine.reduced = P * (Size - 1) /\ mine.lag = IF P > 1 THEN 1 ELSE 0
      BY <1>0, ReducePlan
    <2> QED
      BY <1>1, <2>1
  <1>3. v \in Nat \ {0} /\ w = 2 * v
    BY <1>1, RingPlanAssumption
  <1>4. P * w = 2 * u /\ u \in Nat /\ P <= u
    <2>1. P * (2 * v) = 2 * (P * v)
      BY <1>2, <1>3
    <2>2. P * 1 <= P * v
      BY <1>2, <1>3
    <2>3. PICK x, y, z : x = P * w /\ y = P * (2 * v) /\ z = P * v
      OBVIOUS
    <2>4. z \in Nat
      BY <1>2, <1>3, <2>3
    <2>5. y = 2 * z /\ P <= z
      BY <1>2, <2>1, <2>2, <2>3
    <2> QED
      BY <1>1, <1>3, <2>3, <2>4, <2>5
  <1>5. mine.reduced + mine.lag < Len(mine.sends)
    BY <1>2, <1>4
  <1>6. Len(mine.sends) = Len(mine.recvs)
    BY <1>2
  <1>7. ASSUME NEW k \in 1..Len(mine.recvs)
        PROVE  \E g \in Rank : mine.recvs[k] = Packet(g, (k - 1) % P, n, offset) /\ (k - 1) % P \in Nat
    <2>1. k \in 1..Len(mine.sends)
      BY <1>6
    <2>2. PICK t, j : t = (k - 1) \div P /\ j = (k - 1) % P /\ StepAt(mine, r, n, offset, d, P, k, t, j)
      BY <1>0, <2>1, ReduceStepAt
    <2>3. j \in 0..(P - 1) /\ RecvSegment(r, d, t) \in Rank
          /\ mine.recvs[k] = Packet(RecvSegment(r, d, t), j, n, offset)
      BY <2>2 DEF StepAt
    <2> QED
      BY <1>2, <2>2, <2>3
  <1>8. ASSUME NEW k \in 1..Len(mine.recvs)
        PROVE  mine.recvs[k][2] - mine.recvs[k][1] <= MaxBuffer
    <2>1. PICK g \in Rank : mine.recvs[k] = Packet(g, (k - 1) % P, n, offset) /\ (k - 1) % P \in Nat
      BY <1>7
    <2>2. PICK j : j = (k - 1) % P
      OBVIOUS
    <2>3. j \in Nat /\ g \in Nat /\ mine.recvs[k] = Packet(g, j, n, offset)
      BY <2>1, <2>2, RingPlanAssumption DEF Rank
    <2> QED
      BY <2>3, PacketSize
  <1>9. ASSUME NEW i \in 1..Len(mine.recvs), NEW j \in 1..Len(mine.recvs), i # j, Near(i, j, mine.lag)
        PROVE  Apart(mine.recvs[i], mine.recvs[j])
    <2>1. PICK g \in Rank : mine.recvs[i] = Packet(g, (i - 1) % P, n, offset) /\ (i - 1) % P \in Nat
      BY <1>7
    <2>2. PICK h \in Rank : mine.recvs[j] = Packet(h, (j - 1) % P, n, offset) /\ (j - 1) % P \in Nat
      BY <1>7
    <2>3. PICK x, y, a, b : x = (i - 1) % P /\ y = (j - 1) % P /\ a = i - 1 /\ b = j - 1
      OBVIOUS
    <2>4. x \in Nat /\ y \in Nat /\ g \in Nat /\ h \in Nat
      BY <2>1, <2>2, <2>3, RingPlanAssumption DEF Rank
    <2>5. PICK m : m = Len(mine.recvs)
      OBVIOUS
    <2>6. m \in Nat
      BY <1>2, <1>4, <2>5
    <2>7. P > 1 /\ a \in Int /\ b \in Int /\ (a = b + 1 \/ b = a + 1)
      <3>1. PICK lag : lag = mine.lag
        OBVIOUS
      <3>2. lag = IF P > 1 THEN 1 ELSE 0
        BY <1>2, <3>1
      <3>3. i - j <= lag /\ j - i <= lag
        BY <1>9, <3>1 DEF Near
      <3> QED
        BY <1>9, <2>3, <2>5, <2>6, <3>2, <3>3
    <2>8. x # y
      <3>1. CASE a = b + 1
        <4>1. b % P # (b + 1) % P
          BY <1>2, <2>7, RemainderNext
        <4> QED
          BY <2>3, <3>1, <4>1
      <3>2. CASE b = a + 1
        <4>1. a % P # (a + 1) % P
          BY <1>2, <2>7, RemainderNext
        <4> QED
          BY <2>3, <3>2, <4>1
      <3> QED
        BY <2>7, <3>1, <3>2
    <2>9. Apart(Packet(g, x, n, offset), Packet(h, y, n, offset))
      BY <2>4, <2>8, PacketsApart
    <2> QED
      BY <2>1, <2>2, <2>3, <2>9
  <1> QED
    BY <1>5, <1>8, <1>9

-----------------------------------------------------------------------------
(* What a part of an all reduce sends and holds.                             *)
LEMMA ReduceMate ==
  ASSUME NEW r \in Rank, NEW n \in Nat \ {0}, NEW offset \in Nat, NEW d \in {-1, 1}, NEW link,
         NEW mine, mine = ReducePart(r, n, offset, d, link),
         NEW l, l = From(r, mine.side),
         NEW theirs, theirs = ReducePart(l, n, offset, d, link),
         NEW k \in 1..Len(mine.sends)
  PROVE  /\ l \in Rank /\ mine.side \in {"left", "right"} /\ mine.link = link
         /\ theirs.side = mine.side /\ theirs.link = link
         /\ Len(theirs.sends) = Len(mine.sends) /\ Len(theirs.recvs) = Len(mine.sends)
         /\ Len(mine.recvs) = Len(mine.sends)
         /\ theirs.sends[k] = mine.recvs[k]
  <1>1. PICK P : P = Packets(n)
    OBVIOUS
  <1>2. l \in Rank
    BY FromIs
  <1>3. r \in Int /\ l \in Int
    BY <1>2, RingPlanAssumption DEF Rank
  <1>4. /\ Len(mine.sends) = P * (2 * (Size - 1)) /\ Len(mine.recvs) = P * (2 * (Size - 1))
        /\ Way(mine.side) = d /\ mine.link = link /\ mine.side \in {"left", "right"}
    BY <1>1, <1>3, ReducePlan
  <1>5. /\ Len(theirs.sends) = P * (2 * (Size - 1)) /\ Len(theirs.recvs) = P * (2 * (Size - 1))
        /\ Way(theirs.side) = d /\ theirs.link = link /\ theirs.side \in {"left", "right"}
    BY <1>1, <1>3, ReducePlan
  <1>6. theirs.side = mine.side
    BY <1>4, <1>5 DEF Way
  <1>7. k \in 1..Len(theirs.sends) /\ Len(theirs.sends) = Len(mine.sends)
    BY <1>4, <1>5
  <1>8. PICK t, j : t = (k - 1) \div P /\ j = (k - 1) % P
    OBVIOUS
  <1>9. t = (k - 1) \div P /\ j = (k - 1) % P
    BY <1>8
  <1>10. StepAt(mine, r, n, offset, d, P, k, t, j) /\ StepAt(theirs, l, n, offset, d, P, k, t, j)
    <2>1. StepAt(mine, r, n, offset, d, P, k, t, j)
      BY <1>1, <1>3, <1>9, ReduceStep
    <2>2. StepAt(theirs, l, n, offset, d, P, k, t, j)
      BY <1>1, <1>3, <1>7, <1>9, ReduceStep
    <2> QED
      BY <2>1, <2>2
  <1>11. mine.recvs[k] = Packet(RecvSegment(r, d, t), j, n, offset) /\ t \in Int
    BY <1>10 DEF StepAt
  <1>12. theirs.sends[k] = Packet(SendSegment(l, d, t), j, n, offset)
    BY <1>10 DEF StepAt
  <1>13. SendSegment(l, d, t) = RecvSegment(r, d, t)
    BY <1>4, <1>11, SegmentFrom
  <1> QED
    BY <1>2, <1>4, <1>5, <1>6, <1>7, <1>11, <1>12, <1>13

(* The steps that receive an element, by the turns of the walk.              *)
LEMMA ReduceCovers ==
  ASSUME NEW r \in Rank, NEW n \in Nat \ {0}, NEW offset \in Nat, NEW d \in {-1, 1}, NEW link,
         NEW mine, mine = ReducePart(r, n, offset, d, link), NEW P, P = Packets(n),
         NEW g \in Rank, NEW j \in 0..(P - 1), NEW e, e \in Covers(Packet(g, j, n, offset))
  PROVE  /\ \A k \in Covering(mine, e) :
              \E t \in Nat : /\ t < 2 * (Size - 1) /\ k = P * t + j + 1 /\ WalkStep(mine, k) = t
                             /\ RecvSegment(r, d, t) = g
         /\ \A t \in Nat : t < 2 * (Size - 1) /\ RecvSegment(r, d, t) = g =>
              P * t + j + 1 \in Covering(mine, e) /\ WalkStep(mine, P * t + j + 1) = t
  <1>1. r \in Int
    BY RingPlanAssumption DEF Rank
  <1>2. P \in Nat \ {0} /\ Len(mine.sends) = Len(mine.recvs)
    BY <1>1, ReducePlan
  <1>3. ASSUME NEW k \in Covering(mine, e)
        PROVE  \E t \in Nat : /\ t < 2 * (Size - 1) /\ k = P * t + j + 1 /\ WalkStep(mine, k) = t
                              /\ RecvSegment(r, d, t) = g
    <2>1. k \in 1..Len(mine.sends)
      BY <1>2 DEF Covering
    <2>2. PICK t, i : t = (k - 1) \div P /\ i = (k - 1) % P /\ StepAt(mine, r, n, offset, d, P, k, t, i)
      BY <1>1, <2>1, ReduceStepAt
    <2>3. RecvSegment(r, d, (k - 1) \div P) = g /\ (k - 1) % P = j
      BY <1>1, <2>1, ReduceCovering
    <2>4. RecvSegment(r, d, t) = g /\ i = j
      BY <2>2, <2>3
    <2> QED
      BY <2>2, <2>4 DEF StepAt
  <1>4. ASSUME NEW t \in Nat, t < 2 * (Size - 1), RecvSegment(r, d, t) = g
        PROVE  P * t + j + 1 \in Covering(mine, e) /\ WalkStep(mine, P * t + j + 1) = t
    <2>1. PICK k : k = P * t + j + 1
      OBVIOUS
    <2>2. /\ k \in 1..Len(mine.sends)
          /\ t = (k - 1) \div P /\ j = (k - 1) % P
      BY <1>1, <1>4, <2>1, ReduceStepOf
    <2>3. StepAt(mine, r, n, offset, d, P, k, t, j)
      BY <1>1, <2>2, ReduceStep
    <2>4. k \in Covering(mine, e)
      BY <1>2, <1>4, <2>2, <2>3 DEF StepAt, Covering
    <2> QED
      BY <2>1, <2>3, <2>4 DEF StepAt
  <1> QED
    BY <1>3, <1>4

LEMMA WalkTogether ==
  ASSUME NEW r, NEW mine, NEW T, NEW A, NEW k \in T,
         Walk(r, mine.side, WalkStep(mine, k) + 1) = A,
         \A j \in T : Walk(r, mine.side, WalkStep(mine, j) + 1) \subseteq A
  PROVE  UNION {Walk(r, mine.side, WalkStep(mine, j) + 1) : j \in T} = A
  OBVIOUS

(* The first time that an element comes around.                              *)
LEMMA ReduceFirst ==
  ASSUME NEW r \in Rank, NEW n \in Nat \ {0}, NEW offset \in Nat, NEW d \in {-1, 1}, NEW link,
         NEW mine, mine = ReducePart(r, n, offset, d, link),
         NEW k \in 1..Len(mine.recvs), k <= mine.reduced, NEW e \in Covers(mine.recvs[k]),
         NEW i \in Covering(mine, e)
  PROVE  ~ (i < k)
  <1>1. PICK P : P = Packets(n)
    OBVIOUS
  <1>2. r \in Int
    BY RingPlanAssumption DEF Rank
  <1>3. P \in Nat \ {0} /\ Len(mine.sends) = Len(mine.recvs)
    BY <1>1, <1>2, ReducePlan
  <1>4. PICK t, j : t = (k - 1) \div P /\ j = (k - 1) % P
    OBVIOUS
  <1>5. t = (k - 1) \div P /\ j = (k - 1) % P
    BY <1>4
  <1>6. StepAt(mine, r, n, offset, d, P, k, t, j)
    BY <1>1, <1>2, <1>3, <1>5, ReduceStep
  <1>7. PICK g : g = RecvSegment(r, d, t)
    OBVIOUS
  <1>8. /\ t \in Nat /\ t < Size - 1 /\ k = P * t + j + 1 /\ j \in 0..(P - 1)
        /\ g \in Rank /\ e \in Covers(Packet(g, j, n, offset))
    BY <1>6, <1>7 DEF StepAt
  <1>9. PICK u \in Nat : u < 2 * (Size - 1) /\ i = P * u + j + 1 /\ RecvSegment(r, d, u) = g
    BY <1>1, <1>8, ReduceCovers
  <1>10. SUFFICES ASSUME i < k PROVE FALSE
    OBVIOUS
  <1>11. u < t
    <2>1. SUFFICES ASSUME t <= u PROVE FALSE
      BY <1>8
    <2>2. P * t <= P * u
      BY <1>3, <1>8, <2>1
    <2>3. PICK x, y : x = P * t /\ y = P * u
      OBVIOUS
    <2>4. x \in Nat /\ y \in Nat
      BY <1>3, <1>8, <2>3
    <2>5. k = x + j + 1 /\ i = y + j + 1 /\ x <= y /\ j \in Int
      BY <1>3, <1>8, <1>9, <2>2, <2>3
    <2> QED
      BY <1>10, <2>4, <2>5
  <1>12. t - u < Size
    BY <1>8, RingPlanAssumption
  <1> QED
    BY <1>2, <1>7, <1>8, <1>9, <1>11, <1>12, SegmentOnce

(* An element as it goes out has been around as far as the walk has come.    *)
CarriedFar(c, r, mine, k, e) ==
  /\ WalkStep(mine, k) \in Nat
  /\ k <= mine.reduced <=> WalkStep(mine, k) < Size - 1
  /\ Carried(c, r, mine, k, e) = Summed(c, Walk(r, mine.side, WalkStep(mine, k)), e)

LEMMA ReduceCarried ==
  ASSUME NEW c, Calls[c].kind = "all_reduce",
         NEW r \in Rank, NEW n \in Nat \ {0}, NEW offset \in Nat, NEW d \in {-1, 1}, NEW link,
         NEW mine, mine = ReducePart(r, n, offset, d, link),
         NEW k \in 1..Len(mine.sends), NEW e \in Covers(mine.sends[k]),
         Prepared(c, r)[e] = Summed(c, {r}, e)
  PROVE  CarriedFar(c, r, mine, k, e)
  <1>1. PICK P : P = Packets(n)
    OBVIOUS
  <1>2. r \in Int
    BY RingPlanAssumption DEF Rank
  <1>3. /\ P \in Nat \ {0} /\ mine.lag = (IF P > 1 THEN 1 ELSE 0) /\ Way(mine.side) = d
    BY <1>1, <1>2, ReducePlan
  <1>4. PICK t, j : t = (k - 1) \div P /\ j = (k - 1) % P
    OBVIOUS
  <1>5. t = (k - 1) \div P /\ j = (k - 1) % P
    BY <1>4
  <1>6. StepAt(mine, r, n, offset, d, P, k, t, j)
    BY <1>1, <1>2, <1>5, ReduceStep
  <1>7. PICK g : g = SendSegment(r, d, t)
    OBVIOUS
  <1>8. /\ t \in Nat /\ t < 2 * (Size - 1) /\ k = P * t + j + 1 /\ j \in 0..(P - 1)
        /\ g \in Rank /\ e \in Covers(Packet(g, j, n, offset))
        /\ WalkStep(mine, k) = t /\ (k <= mine.reduced <=> t < Size - 1)
    BY <1>6, <1>7 DEF StepAt
  <1>9. PICK T : T = {i \in Covering(mine, e) : i < k - mine.lag}
    OBVIOUS
  <1>10. ASSUME NEW i \in T
         PROVE  \E u \in Nat : /\ u < t /\ WalkStep(mine, i) = u /\ RecvSegment(r, d, u) = g
    <2>1. PICK u \in Nat : /\ u < 2 * (Size - 1) /\ i = P * u + j + 1 /\ RecvSegment(r, d, u) = g
                           /\ WalkStep(mine, i) = u
      BY <1>1, <1>8, <1>9, ReduceCovers
    <2>2. u < t
      <3>1. SUFFICES ASSUME t <= u PROVE FALSE
        BY <1>8
      <3>2. P * t <= P * u
        BY <1>3, <1>8, <3>1
      <3>3. PICK x, y, lag : x = P * t /\ y = P * u /\ lag = mine.lag
        OBVIOUS
      <3>4. x \in Nat /\ y \in Nat /\ lag \in {0, 1}
        BY <1>3, <1>8, <3>3
      <3>5. i < k - lag
        BY <1>9, <3>3
      <3>6. k = x + j + 1 /\ i = y + j + 1 /\ x <= y /\ j \in Int
        BY <1>3, <1>8, <2>1, <3>2, <3>3
      <3> QED
        BY <3>4, <3>5, <3>6
    <2> QED
      BY <2>1, <2>2
  <1>11. CASE t = 0
    <2>1. T = {}
      BY <1>10, <1>11
    <2>2. Carried(c, r, mine, k, e) = Prepared(c, r)[e]
      BY <1>9, <2>1 DEF Carried, Held
    <2>3. Walk(r, mine.side, 0) = {r}
      BY WalkIs
    <2> QED
      BY <1>8, <1>11, <2>2, <2>3 DEF CarriedFar
  <1>12. CASE t # 0
    <2>1. PICK u, i : u = t - 1 /\ i = P * u + j + 1
      OBVIOUS
    <2>2. u \in Nat /\ u < 2 * (Size - 1) /\ u + 1 = t
      BY <1>8, <1>12, <2>1, RingPlanAssumption
    <2>3. RecvSegment(r, d, u) = g
      <3>1. t \in Int
        BY <1>8
      <3> QED
        BY <1>3, <1>7, <2>1, <3>1, SegmentFrom
    <2>4. i \in Covering(mine, e) /\ WalkStep(mine, i) = u
      BY <1>1, <1>8, <2>1, <2>2, <2>3, ReduceCovers
    <2>5. i < k - mine.lag
      <3>1. P * t = P * u + P
        BY <1>3, <2>2
      <3>2. PICK x, y, lag : x = P * t /\ y = P * u /\ lag = mine.lag
        OBVIOUS
      <3>3. x \in Nat /\ y \in Nat /\ lag = (IF P > 1 THEN 1 ELSE 0)
        BY <1>3, <1>8, <2>2, <3>2
      <3>4. y + j + 1 < (x + j + 1) - lag
        BY <1>3, <1>8, <3>1, <3>2, <3>3
      <3> QED
        BY <1>8, <2>1, <3>2, <3>4
    <2>6. i \in T
      BY <1>9, <2>4, <2>5
    <2>7. ASSUME NEW m \in T
          PROVE  Walk(r, mine.side, WalkStep(mine, m) + 1) \subseteq Walk(r, mine.side, t)
      <3>1. PICK v \in Nat : v < t /\ WalkStep(mine, m) = v
        BY <1>10
      <3>2. v + 1 \in 0..t
        BY <1>8, <3>1
      <3> QED
        BY <1>8, <3>1, <3>2, WalkGrows
    <2>8. Walk(r, mine.side, WalkStep(mine, i) + 1) = Walk(r, mine.side, t)
      BY <2>2, <2>4
    <2>9. UNION {Walk(r, mine.side, WalkStep(mine, m) + 1) : m \in T} = Walk(r, mine.side, t)
      BY <2>6, <2>7, <2>8, WalkTogether
    <2>10. Held(c, r, mine, T, e) = Summed(c, Walk(r, mine.side, t), e)
      BY <2>6, <2>9 DEF Held
    <2> QED
      BY <1>8, <1>9, <2>10 DEF Carried, CarriedFar
  <1> QED
    BY <1>8, <1>11, <1>12

(* What arrives completes what is there.                                     *)
HeldNext(c, r, l, mine, theirs, k, e) ==
  LET T == {i \in Covering(mine, e) : i < k} IN
  /\ k <= mine.reduced =>
       Held(c, r, mine, T, e) (+) Carried(c, l, theirs, k, e) = Held(c, r, mine, T \cup {k}, e)
  /\ ~ (k <= mine.reduced) =>
       Carried(c, l, theirs, k, e) = Held(c, r, mine, T \cup {k}, e)

(* A packet that arrives adds what the rank it comes from has.               *)
LEMMA ReduceHeld ==
  ASSUME NEW c, Calls[c].kind = "all_reduce",
         NEW r \in Rank, NEW n \in Nat \ {0}, NEW offset \in Nat, NEW d \in {-1, 1}, NEW link,
         NEW mine, mine = ReducePart(r, n, offset, d, link),
         NEW l, l = From(r, mine.side),
         NEW theirs, theirs = ReducePart(l, n, offset, d, link),
         NEW k \in 1..Len(mine.recvs), NEW e \in Covers(mine.recvs[k]),
         Prepared(c, r)[e] = Summed(c, {r}, e), Prepared(c, l)[e] = Summed(c, {l}, e)
  PROVE  HeldNext(c, r, l, mine, theirs, k, e)
  <1>13. PICK T : T = {i \in Covering(mine, e) : i < k}
    OBVIOUS
  <1>1. PICK P : P = Packets(n)
    OBVIOUS
  <1>2. r \in Int /\ l \in Rank /\ l \in Int
    BY FromIs, RingPlanAssumption DEF Rank
  <1>3. P \in Nat \ {0} /\ Len(mine.sends) = Len(mine.recvs)
    BY <1>1, <1>2, ReducePlan
  <1>4. /\ theirs.side = mine.side /\ Len(theirs.sends) = Len(mine.sends)
        /\ theirs.sends[k] = mine.recvs[k]
    BY <1>3, ReduceMate
  <1>5. PICK t : t = WalkStep(mine, k)
    OBVIOUS
  <1>6. WalkStep(theirs, k) = t
    <2>1. mine.reduced \div (Size - 1) = P /\ theirs.reduced \div (Size - 1) = P
      BY <1>1, <1>2, ReducePlan
    <2> QED
      BY <1>5, <2>1 DEF WalkStep
  <1>7. /\ t \in Nat /\ (k <= theirs.reduced <=> t < Size - 1)
        /\ Carried(c, l, theirs, k, e) = Summed(c, Walk(l, mine.side, t), e)
    <2>1. k \in 1..Len(theirs.sends) /\ e \in Covers(theirs.sends[k])
      BY <1>3, <1>4
    <2>2. CarriedFar(c, l, theirs, k, e)
      BY <1>2, <2>1, ReduceCarried
    <2> QED
      BY <1>4, <1>6, <2>2 DEF CarriedFar
  <1>8. theirs.reduced = mine.reduced
    <2>1. mine.reduced = P * (Size - 1) /\ theirs.reduced = P * (Size - 1)
      BY <1>1, <1>2, ReducePlan
    <2> QED
      BY <2>1
  <1>9. PICK A : A = Walk(r, mine.side, t + 1)
    OBVIOUS
  <1>10. A = {r} \cup Walk(l, mine.side, t)
    BY <1>7, <1>9, WalkOn
  <1>11. CASE k <= mine.reduced
    <2>1. T = {}
      BY <1>11, <1>13, ReduceFirst
    <2>2. Held(c, r, mine, T, e) = Summed(c, {r}, e)
      BY <2>1 DEF Held
    <2>3. r \notin Walk(l, mine.side, t)
      BY <1>7, <1>8, <1>11, WalkApart
    <2>4. Summed(c, {r}, e) (+) Summed(c, Walk(l, mine.side, t), e) = Summed(c, A, e)
      <3>1. {r} \cap Walk(l, mine.side, t) = {}
        BY <2>3
      <3> QED
        BY <1>10, <3>1, SummedTogether
    <2>5. UNION {Walk(r, mine.side, WalkStep(mine, i) + 1) : i \in T \cup {k}} = A
      BY <1>5, <1>9, <2>1
    <2>6. Held(c, r, mine, T \cup {k}, e) = Summed(c, A, e)
      BY <2>5 DEF Held
    <2>7. Held(c, r, mine, T, e) (+) Carried(c, l, theirs, k, e) = Held(c, r, mine, T \cup {k}, e)
      BY <1>7, <2>2, <2>4, <2>6
    <2> QED
      BY <1>11, <1>13, <2>7 DEF HeldNext
  <1>12. CASE ~ (k <= mine.reduced)
    <2>1. t >= Size - 1 /\ t + 1 >= Size - 1 /\ t + 1 \in Nat
      BY <1>7, <1>8, <1>12, RingPlanAssumption
    <2>2. Walk(l, mine.side, t) = Rank /\ A = Rank
      BY <1>2, <1>7, <1>9, <2>1, WalkAll
    <2>3. ASSUME NEW i \in T \cup {k}
          PROVE  Walk(r, mine.side, WalkStep(mine, i) + 1) \subseteq Rank
      <3>1. i \in 1..Len(mine.sends)
        BY <1>3, <1>13 DEF Covering
      <3>2. PICK u, j : u = (i - 1) \div P /\ j = (i - 1) % P /\ StepAt(mine, r, n, offset, d, P, i, u, j)
        BY <1>1, <1>2, <3>1, ReduceStepAt
      <3>3. WalkStep(mine, i) \in Nat
        BY <3>2 DEF StepAt
      <3>4. WalkStep(mine, i) + 1 \in Nat
        BY <3>3
      <3> QED
        BY <3>4, WalkIs
    <2>4. UNION {Walk(r, mine.side, WalkStep(mine, i) + 1) : i \in T \cup {k}} = Rank
      <3>1. Walk(r, mine.side, WalkStep(mine, k) + 1) = Rank /\ k \in T \cup {k}
        BY <1>5, <1>9, <2>2
      <3> QED
        BY <2>3, <3>1, WalkTogether
    <2>5. Held(c, r, mine, T \cup {k}, e) = Summed(c, Rank, e)
      BY <2>4 DEF Held
    <2>6. Carried(c, l, theirs, k, e) = Held(c, r, mine, T \cup {k}, e)
      BY <1>7, <2>2, <2>5
    <2> QED
      BY <1>12, <1>13, <2>6 DEF HeldNext
  <1> QED
    BY <1>11, <1>12

(* The elements that a part of an all reduce moves, and what becomes of them.*)
LEMMA ReduceMoves ==
  ASSUME NEW r \in Rank, NEW n \in Nat \ {0}, NEW offset \in Nat, NEW d \in {-1, 1}, NEW link,
         NEW mine, mine = ReducePart(r, n, offset, d, link), NEW e \in Int
  PROVE  Concerns(mine, e) <=> offset < e /\ e <= offset + n
  <1>1. PICK P : P = Packets(n)
    OBVIOUS
  <1>2. r \in Int
    BY RingPlanAssumption DEF Rank
  <1>3. /\ P \in Nat \ {0} /\ Len(mine.sends) = P * (2 * (Size - 1))
        /\ Len(mine.sends) = Len(mine.recvs)
    BY <1>1, <1>2, ReducePlan
  <1>4. ASSUME Concerns(mine, e)
        PROVE  offset < e /\ e <= offset + n
    <2>1. PICK k \in 1..Len(mine.sends) : e \in Covers(mine.sends[k]) \/ e \in Covers(mine.recvs[k])
      BY <1>4 DEF Concerns
    <2>2. Inside(mine.sends[k], offset, offset + n) /\ Inside(mine.recvs[k], offset, offset + n)
      BY <1>2, ReducePartIs
    <2> QED
      BY <2>1, <2>2 DEF Inside, Covers
  <1>5. ASSUME offset < e, e <= offset + n
        PROVE  Concerns(mine, e)
    <2>1. PICK g \in Rank : \E j \in 0..(P - 1) : e \in Covers(Packet(g, j, n, offset))
      BY <1>1, <1>5, PacketSome
    <2>2. PICK j \in 0..(P - 1) : e \in Covers(Packet(g, j, n, offset))
      BY <2>1
    <2>3. PICK t \in 0..(Size - 1) : SendSegment(r, d, t) = g
      BY SegmentSome
    <2>4. t \in Nat /\ t < 2 * (Size - 1)
      BY <2>3, RingPlanAssumption
    <2>5. PICK k : k = P * t + j + 1
      OBVIOUS
    <2>6. k \in 1..Len(mine.sends) /\ t = (k - 1) \div P /\ j = (k - 1) % P
      BY <1>1, <1>2, <2>4, <2>5, ReduceStepOf
    <2>7. StepAt(mine, r, n, offset, d, P, k, t, j)
      BY <1>1, <1>2, <2>6, ReduceStep
    <2>8. e \in Covers(mine.sends[k])
      BY <2>2, <2>3, <2>7 DEF StepAt
    <2> QED
      BY <2>6, <2>8 DEF Concerns
  <1> QED
    BY <1>4, <1>5

LEMMA ReduceAll ==
  ASSUME NEW c, Calls[c].kind = "all_reduce",
         NEW r \in Rank, NEW n \in Nat \ {0}, NEW offset \in Nat, NEW d \in {-1, 1}, NEW link,
         NEW mine, mine = ReducePart(r, n, offset, d, link),
         NEW e \in Int, offset < e, e <= offset + n
  PROVE  Held(c, r, mine, Covering(mine, e), e) = Summed(c, Rank, e)
  <1>1. PICK P : P = Packets(n)
    OBVIOUS
  <1>2. r \in Int /\ Size \in Nat /\ Size > 1
    BY RingPlanAssumption DEF Rank
  <1>3. P \in Nat \ {0}
    BY <1>1, Sizes
  <1>4. PICK g \in Rank : \E j \in 0..(P - 1) : e \in Covers(Packet(g, j, n, offset))
    BY <1>1, PacketSome
  <1>5. PICK j \in 0..(P - 1) : e \in Covers(Packet(g, j, n, offset))
    BY <1>4
  <1>6. PICK m \in 0..(Size - 1) : SendSegment(r, d, m) = g
    BY SegmentSome
  <1>7. \E t \in Nat : t >= Size - 2 /\ t < 2 * (Size - 1) /\ RecvSegment(r, d, t) = g
    <2>1. CASE m = Size - 1
      <3>1. RecvSegment(r, d, Size - 2) = g
        <4>1. r + d * ((Size - 2) + 1) = r + d * m
          BY <1>2, <2>1
        <4> QED
          BY <1>6, <4>1 DEF SendSegment, RecvSegment
      <3> QED
        BY <1>2, <3>1
    <2>2. CASE m # Size - 1
      <3>1. PICK t, x : t = m + Size - 1 /\ x = r + d * m
        OBVIOUS
      <3>2. t \in Nat /\ t >= Size - 2 /\ t < 2 * (Size - 1) /\ x \in Int
        BY <1>2, <1>6, <2>2, <3>1
      <3>3. (r + d * (t + 1)) % Size = x % Size
        <4>1. CASE d = 1
          <5>1. r + d * (t + 1) = x + Size
            BY <1>2, <1>6, <3>1, <4>1
          <5>2. (x + Size) % Size = x % Size
            BY <1>2, <3>2, RemainderMore
          <5> QED
            BY <5>1, <5>2
        <4>2. CASE d = -1
          <5>1. r + d * (t + 1) = x - Size
            BY <1>2, <1>6, <3>1, <4>2
          <5>2. (x - Size) % Size = x % Size
            BY <1>2, <3>2, RemainderMore
          <5> QED
            BY <5>1, <5>2
        <4> QED
          BY <4>1, <4>2
      <3>4. RecvSegment(r, d, t) = g
        BY <1>6, <3>1, <3>3 DEF SendSegment, RecvSegment
      <3> QED
        BY <3>2, <3>4
    <2> QED
      BY <2>1, <2>2
  <1>8. PICK t \in Nat : t >= Size - 2 /\ t < 2 * (Size - 1) /\ RecvSegment(r, d, t) = g
    BY <1>7
  <1>9. PICK k : k = P * t + j + 1
    OBVIOUS
  <1>10. k \in Covering(mine, e) /\ WalkStep(mine, k) = t
    BY <1>1, <1>5, <1>8, <1>9, ReduceCovers
  <1>11. Walk(r, mine.side, WalkStep(mine, k) + 1) = Rank
    <2>1. t + 1 \in Nat /\ t + 1 >= Size - 1
      BY <1>2, <1>8
    <2> QED
      BY <1>10, <2>1, WalkAll
  <1>12. ASSUME NEW i \in Covering(mine, e)
         PROVE  Walk(r, mine.side, WalkStep(mine, i) + 1) \subseteq Rank
    <2>1. PICK u \in Nat : WalkStep(mine, i) = u
      BY <1>1, <1>5, ReduceCovers
    <2>2. u + 1 \in Nat
      OBVIOUS
    <2> QED
      BY <2>1, <2>2, WalkIs
  <1>13. UNION {Walk(r, mine.side, WalkStep(mine, i) + 1) : i \in Covering(mine, e)} = Rank
    BY <1>10, <1>11, <1>12, WalkTogether
  <1> QED
    BY <1>10, <1>13 DEF Held

-----------------------------------------------------------------------------
(* The parts of an all gather: of every segment, each part moves the same    *)
(* stretch.                                                                  *)
Stretch == [lo : Nat, hi : Nat, d : {-1, 1}, link : 0..(Links - 1)]

GatherPart(r, n, f) ==
  [side |-> IF f.d < 0 THEN "right" ELSE "left", link |-> f.link,
   sends |-> [k \in 1..(Size - 1) |->
     <<SendSegment(r, f.d, k - 1) * n + f.lo, SendSegment(r, f.d, k - 1) * n + f.hi>>],
   recvs |-> [k \in 1..(Size - 1) |->
     <<RecvSegment(r, f.d, k - 1) * n + f.lo, RecvSegment(r, f.d, k - 1) * n + f.hi>>],
   reduced |-> 0, lag |-> 0]

Stretched(F, C, n) ==
  /\ C \in Nat \ {0} /\ C <= 2 * Links
  /\ \A p \in 1..C : F[p] \in Stretch /\ F[p].hi <= n
  /\ \A p, q \in 1..C : F[p].d = F[q].d /\ F[p].link = F[q].link => p = q
  /\ \A p, q \in 1..C : \A y \in Int :
       F[p].lo < y /\ y <= F[p].hi /\ F[q].lo < y /\ y <= F[q].hi => p = q
  /\ \A y \in 1..n : \E p \in 1..C : F[p].lo < y /\ y <= F[p].hi

LEMMA GatherLayout ==
  ASSUME NEW n \in Nat \ {0}
  PROVE  \E C, F :
           /\ Stretched(F, C, n)
           /\ \A r : GatherParts(r, n) = [p \in 1..C |-> GatherPart(r, n, F[p])]
  <1>1. Size \in Nat /\ Size > 1 /\ Links \in Nat \ {0} /\ MinSend \in Nat \ {0}
    BY RingPlanAssumption
  <1>2. PICK c, s : c = Larger(1, Smaller(2 * Links, n \div MinSend)) /\ s = CeilDiv(n, c)
    OBVIOUS
  <1>3. c \in Nat \ {0} /\ c <= 2 * Links
    <2>1. PICK f : f = n \div MinSend
      OBVIOUS
    <2>2. f \in Int
      BY <1>1, <2>1, Quotient
    <2>3. c = Larger(1, Smaller(2 * Links, f))
      BY <1>2, <2>1
    <2> QED
      BY <1>1, <2>2, <2>3 DEF Larger, Smaller
  <1>4. s \in Nat \ {0} /\ n <= c * s
    BY <1>2, <1>3, CeilDivIs, CeilDivCovers
  <1>5. PICK F : F = [p \in 1..c |->
                  [lo |-> (p - 1) * s, hi |-> Smaller(n, p * s),
                   d |-> IF p % 2 = 0 THEN -1 ELSE 1, link |-> (p - 1) \div 2]]
    OBVIOUS
  <1>6. ASSUME NEW p \in 1..c
        PROVE  /\ F[p] \in Stretch /\ F[p].hi <= n /\ F[p].hi <= p * s
               /\ F[p].lo = (p - 1) * s /\ F[p].hi = Smaller(n, p * s)
               /\ F[p].d = (IF p % 2 = 0 THEN -1 ELSE 1) /\ F[p].link = (p - 1) \div 2
    <2>1. PICK x, y, z, d, link :
            /\ x = (p - 1) * s /\ y = p * s /\ z = Smaller(n, y)
            /\ d = (IF p % 2 = 0 THEN -1 ELSE 1) /\ link = (p - 1) \div 2
      OBVIOUS
    <2>2. x \in Nat /\ y \in Nat
      BY <1>3, <1>4, <2>1
    <2>3. z \in Nat /\ z <= n /\ z <= y
      BY <2>1, <2>2 DEF Smaller
    <2>4. d \in {-1, 1} /\ link \in 0..(Links - 1)
      <3>1. link \in Nat /\ link <= Links - 1
        BY <1>1, <1>3, <2>1, LinkIs
      <3> QED
        BY <1>1, <2>1, <3>1
    <2>5. F[p] = [lo |-> x, hi |-> z, d |-> d, link |-> link]
      BY <1>5, <2>1
    <2>6. F[p] \in Stretch
      BY <2>2, <2>3, <2>4, <2>5 DEF Stretch
    <2> QED
      BY <2>1, <2>3, <2>5, <2>6
  <1>7. ASSUME NEW p \in 1..c, NEW q \in 1..c, F[p].d = F[q].d /\ F[p].link = F[q].link
        PROVE  p = q
    <2>1. (p - 1) \div 2 = (q - 1) \div 2 /\ (p % 2 = 0 <=> q % 2 = 0)
      BY <1>6, <1>7
    <2>2. p \in Nat \ {0} /\ q \in Nat \ {0}
      BY <1>3
    <2> QED
      BY <2>1, <2>2, LinkIs
  <1>8. ASSUME NEW p \in 1..c, NEW q \in 1..c, NEW y \in Int, p # q,
               F[p].lo < y, y <= F[p].hi, F[q].lo < y, y <= F[q].hi
        PROVE  FALSE
    <2>1. PICK a, b : a = p - 1 /\ b = q - 1
      OBVIOUS
    <2>2. a \in Nat /\ b \in Nat /\ a # b /\ p = a + 1 /\ q = b + 1
      BY <1>3, <1>8, <2>1
    <2>3. a * s < y /\ b * s < y
      BY <1>6, <1>8, <2>1
    <2>4. y <= (a + 1) * s
      <3>1. PICK h, w : h = F[p].hi /\ w = p * s
        OBVIOUS
      <3>2. h \in Nat /\ h <= w /\ y <= h /\ w \in Int
        BY <1>3, <1>4, <1>6, <1>8, <3>1 DEF Stretch
      <3> QED
        BY <2>2, <3>1, <3>2
    <2>5. y <= (b + 1) * s
      <3>1. PICK h, w : h = F[q].hi /\ w = q * s
        OBVIOUS
      <3>2. h \in Nat /\ h <= w /\ y <= h /\ w \in Int
        BY <1>3, <1>4, <1>6, <1>8, <3>1 DEF Stretch
      <3> QED
        BY <2>2, <3>1, <3>2
    <2>6. s \in Nat
      BY <1>4
    <2> QED
      BY <2>2, <2>3, <2>4, <2>5, <2>6, Blocks
  <1>9. ASSUME NEW y \in 1..n
        PROVE  \E p \in 1..c : F[p].lo < y /\ y <= F[p].hi
    <2>1. PICK q, z, u : q = (y - 1) \div s /\ z = (y - 1) % s /\ u = s * q
      OBVIOUS
    <2>2. q \in Nat /\ z \in 0..(s - 1) /\ y = u + z + 1 /\ (y <= s * c <=> q < c)
      <3>1. y \in Nat \ {0} /\ s \in Nat \ {0} /\ c \in Nat
        BY <1>3, <1>4
      <3> QED
        BY <2>1, <3>1, TurnOf
    <2>3. PICK w : w = c * s
      OBVIOUS
    <2>4. w \in Nat /\ s * c = w
      BY <1>3, <1>4, <2>3
    <2>5. q < c
      BY <1>4, <2>2, <2>3, <2>4
    <2>6. PICK p : p = q + 1
      OBVIOUS
    <2>7. p \in 1..c /\ (p - 1) * s = u /\ p * s = u + s /\ u \in Nat
      BY <1>3, <1>4, <2>1, <2>2, <2>5, <2>6
    <2>8. y <= n /\ u < y /\ y <= u + s
      BY <1>4, <2>2, <2>7
    <2>9. y <= Smaller(n, u + s)
      BY <2>8 DEF Smaller
    <2>10. F[p].lo = u /\ F[p].hi = Smaller(n, u + s)
      BY <1>6, <2>7
    <2> QED
      BY <2>7, <2>8, <2>9, <2>10
  <1>10. Stretched(F, c, n)
    <2>1. \A p \in 1..c : F[p] \in Stretch /\ F[p].hi <= n
      BY <1>6
    <2> QED
      BY <1>3, <1>7, <1>8, <1>9, <2>1 DEF Stretched
  <1>11. ASSUME NEW r
         PROVE  GatherParts(r, n) = [p \in 1..c |-> GatherPart(r, n, F[p])]
    <2> DEFINE D(p) == IF p % 2 = 0 THEN -1 ELSE 1
               Whole1(p) ==
                 [side |-> IF D(p) < 0 THEN "right" ELSE "left", link |-> (p - 1) \div 2,
                  sends |-> [k \in 1..(Size - 1) |->
                    <<SendSegment(r, D(p), k - 1) * n + (p - 1) * s,
                      SendSegment(r, D(p), k - 1) * n + Smaller(n, p * s)>>],
                  recvs |-> [k \in 1..(Size - 1) |->
                    <<RecvSegment(r, D(p), k - 1) * n + (p - 1) * s,
                      RecvSegment(r, D(p), k - 1) * n + Smaller(n, p * s)>>],
                  reduced |-> 0, lag |-> 0]
    <2>1. GatherParts(r, n) = [p \in 1..c |-> Whole1(p)]
      BY <1>2 DEF GatherParts
    <2>2. ASSUME NEW p \in 1..c
          PROVE  Whole1(p) = GatherPart(r, n, F[p])
      <3>1. /\ F[p].lo = (p - 1) * s /\ F[p].hi = Smaller(n, p * s)
            /\ F[p].d = D(p) /\ F[p].link = (p - 1) \div 2
        BY <1>6
      <3> QED
        BY <3>1, Zenon DEF GatherPart
    <2> HIDE DEF Whole1
    <2> QED
      BY <2>1, <2>2, Zenon
  <1> QED
    BY <1>10, <1>11

-----------------------------------------------------------------------------
(* The buffers as they are prepared, element by element.                     *)
Joined(z, x, y, a, b) ==
  /\ IsSeq(z) /\ Len(z) = a + b /\ a \in Nat /\ b \in Nat
  /\ \A i \in 1..a : z[i] = x[i]
  /\ \A i \in 1..b : z[a + i] = y[i]

LEMMA SeqAt ==
  ASSUME NEW x, NEW y, IsSeq(x), IsSeq(y), NEW a, a = Len(x), NEW b, b = Len(y), NEW z, z = x \o y
  PROVE  Joined(z, x, y, a, b)
  <1>1. PICK V : x \in Seq(V)
    BY DEF IsSeq
  <1>2. PICK W : y \in Seq(W)
    BY DEF IsSeq
  <1>3. PICK U : U = V \cup W
    OBVIOUS
  <1>4. V \subseteq U /\ W \subseteq U
    BY <1>3
  <1>5. x \in Seq(U) /\ y \in Seq(U)
    BY <1>1, <1>2, <1>4, SeqMonotonic
  <1>6. a \in Nat /\ b \in Nat
    BY <1>5
  <1>7. /\ Len(z) = a + b
        /\ \A i \in 1..(a + b) : z[i] = IF i <= a THEN x[i] ELSE y[i - a]
    <2>1. /\ Len(x \o y) = Len(x) + Len(y)
          /\ \A i \in 1..(Len(x) + Len(y)) : (x \o y)[i] = IF i <= Len(x) THEN x[i] ELSE y[i - Len(x)]
      BY <1>5, ConcatProperties
    <2> QED
      BY <2>1
  <1>8. IsSeq(z)
    BY SeqJoin
  <1>9. \A i \in 1..a : i \in 1..(a + b) /\ i <= a
    BY <1>6
  <1>10. \A i \in 1..b : a + i \in 1..(a + b) /\ ~ (a + i <= a) /\ (a + i) - a = i
    BY <1>6
  <1>11. \A i \in 1..b : z[a + i] = y[i]
    <2>1. ASSUME NEW i \in 1..b
          PROVE  z[a + i] = y[i]
      <3>1. PICK m : m = a + i
        OBVIOUS
      <3>2. m \in 1..(a + b) /\ ~ (m <= a) /\ m - a = i
        BY <1>10, <3>1
      <3>3. z[m] = y[m - a]
        BY <1>7, <3>2
      <3> QED
        BY <3>1, <3>2, <3>3
    <2> QED
      BY <2>1
  <1> QED
    BY <1>6, <1>7, <1>8, <1>9, <1>11 DEF Joined

LEMMA BlankIs ==
  ASSUME NEW m \in Nat
  PROVE  IsSeq(Blank(m)) /\ Len(Blank(m)) = m /\ \A e \in 1..m : Blank(m)[e] = EmptyBag
  BY SeqMade DEF Blank

LEMMA InputIs ==
  ASSUME NEW c \in 1..Len(Calls), NEW r, NEW n, n = Calls[c].n
  PROVE  /\ IsSeq(Input(c, r)) /\ Len(Input(c, r)) = n
         /\ \A e \in 1..n : Input(c, r)[e] = SetToBag({<<c, r, e>>})
  <1>1. n \in Nat
    BY CallIs
  <1>2. PICK f : f = Input(c, r)
    OBVIOUS
  <1>3. f = [e \in 1..n |-> f[e]] /\ \A e \in 1..n : f[e] = SetToBag({<<c, r, e>>})
    BY <1>2 DEF Input
  <1>4. IsSeq(f) /\ Len(f) = n
    BY <1>1, <1>3, SeqMade
  <1> QED
    BY <1>2, <1>3, <1>4

LEMMA ReducePrepared ==
  ASSUME NEW c \in 1..Len(Calls), NEW r \in Rank, Calls[c].kind = "all_reduce", NEW n, n = Calls[c].n
  PROVE  /\ Len(Prepared(c, r)) = Larger(n, Size)
         /\ \A e \in 1..Larger(n, Size) : Prepared(c, r)[e] = Summed(c, {r}, e)
  <1>1. n \in Nat \ {0} /\ Size \in Nat
    BY CallIs, RingPlanAssumption
  <1>2. PICK m, x, y : m = Larger(0, Size - n) /\ x = Input(c, r) /\ y = Blank(m)
    OBVIOUS
  <1>3. m \in Nat /\ n + m = Larger(n, Size)
    <2>1. m = IF 0 < Size - n THEN Size - n ELSE 0
      BY <1>2 DEF Larger
    <2>2. Larger(n, Size) = IF n < Size THEN Size ELSE n
      BY DEF Larger
    <2> QED
      BY <1>1, <2>1, <2>2
  <1>4. /\ IsSeq(x) /\ Len(x) = n /\ \A e \in 1..n : x[e] = SetToBag({<<c, r, e>>})
        /\ IsSeq(y) /\ Len(y) = m /\ \A e \in 1..m : y[e] = EmptyBag
    BY <1>2, <1>3, BlankIs, InputIs
  <1>5. Prepared(c, r) = x \o y
    <2>1. Prepared(c, r) = Input(c, r) \o Blank(Larger(0, Size - Calls[c].n))
      BY DEF Prepared
    <2> QED
      BY <1>2, <2>1, Zenon
  <1>6. PICK z : z = Prepared(c, r)
    OBVIOUS
  <1>8. Joined(z, x, y, n, m)
    BY <1>4, <1>5, <1>6, SeqAt
  <1>7. ASSUME NEW e \in 1..(n + m)
        PROVE  z[e] = Summed(c, {r}, e)
    <2>1. {<<c, q, e>> : q \in {r}} = {<<c, r, e>>}
      OBVIOUS
    <2>2. CASE e <= n
      <3>1. e \in 1..n
        BY <1>1, <1>3, <2>2
      <3>2. z[e] = SetToBag({<<c, r, e>>})
        BY <1>4, <1>8, <3>1 DEF Joined
      <3> QED
        BY <2>1, <2>2, <3>2 DEF Summed
    <2>3. CASE ~ (e <= n)
      <3>1. e - n \in 1..m /\ n + (e - n) = e
        BY <1>1, <1>3, <2>3
      <3>2. z[n + (e - n)] = y[e - n] /\ y[e - n] = EmptyBag
        BY <1>4, <1>8, <3>1 DEF Joined
      <3> QED
        BY <2>3, <3>1, <3>2 DEF Summed
    <2> QED
      BY <2>2, <2>3
  <1> QED
    BY <1>3, <1>6, <1>7, <1>8 DEF Joined

LEMMA GatherPrepared ==
  ASSUME NEW c \in 1..Len(Calls), NEW r \in Rank, Calls[c].kind = "all_gather", NEW n, n = Calls[c].n
  PROVE  /\ Len(Prepared(c, r)) = Size * n
         /\ \A y \in 1..n : Prepared(c, r)[r * n + y] = SetToBag({<<c, r, y>>})
         /\ \A e \in 1..(Size * n) : Prepared(c, r)[e] = EmptyBag \/ \E y \in 1..n : e = r * n + y
  <1>1. n \in Nat \ {0} /\ Size \in Nat /\ Size > 1 /\ r \in Nat /\ r <= Size - 1
    BY CallIs, RingPlanAssumption DEF Rank
  <1>2. PICK a, b : a = r * n /\ b = (Size - 1 - r) * n
    OBVIOUS
  <1>3. a \in Nat
    BY <1>1, <1>2
  <1>4. b \in Nat
    <2>1. PICK q : q = Size - 1 - r
      OBVIOUS
    <2>2. q \in Nat
      BY <1>1, <2>1
    <2> QED
      BY <1>1, <1>2, <2>1, <2>2
  <1>5. a + n + b = Size * n
    <2>1. PICK q : q = Size * n
      OBVIOUS
    <2>2. q \in Nat /\ n \in Nat
      BY <1>1, <2>1
    <2>3. (Size - 1 - r) * n = Size * n - n - r * n
      BY <1>1
    <2> QED
      BY <1>2, <1>3, <2>1, <2>2, <2>3
  <1>6. PICK u, v, w : u = Blank(a) /\ v = Input(c, r) /\ w = Blank(b)
    OBVIOUS
  <1>7. Prepared(c, r) = u \o v \o w
    <2>1. Calls[c].kind # "all_reduce"
      OBVIOUS
    <2>2. Prepared(c, r) = Blank(r * Calls[c].n) \o Input(c, r) \o Blank((Size - 1 - r) * Calls[c].n)
      BY <2>1 DEF Prepared
    <2> QED
      BY <1>2, <1>6, <2>2, Zenon
  <1>8. /\ IsSeq(u) /\ Len(u) = a /\ \A e \in 1..a : u[e] = EmptyBag
        /\ IsSeq(w) /\ Len(w) = b /\ \A e \in 1..b : w[e] = EmptyBag
        /\ IsSeq(v) /\ Len(v) = n /\ \A e \in 1..n : v[e] = SetToBag({<<c, r, e>>})
    BY <1>3, <1>4, <1>6, BlankIs, InputIs
  <1>9. PICK x, z : x = u \o v /\ z = Prepared(c, r)
    OBVIOUS
  <1>10. Joined(x, u, v, a, n)
    BY <1>8, <1>9, SeqAt
  <1>14. PICK m : m = a + n
    OBVIOUS
  <1>11. Joined(z, x, w, m, b)
    <2>1. IsSeq(x) /\ Len(x) = m
      BY <1>10, <1>14 DEF Joined
    <2>2. z = x \o w
      BY <1>7, <1>9
    <2> QED
      BY <1>8, <2>1, <2>2, SeqAt
  <1>12. ASSUME NEW y \in 1..n
         PROVE  z[a + y] = SetToBag({<<c, r, y>>})
    <2>1. PICK i : i = a + y
      OBVIOUS
    <2>2. i \in 1..m
      BY <1>1, <1>3, <1>14, <2>1
    <2>3. z[i] = x[i]
      BY <1>11, <2>2 DEF Joined
    <2>4. x[i] = v[y]
      BY <1>10, <2>1 DEF Joined
    <2> QED
      BY <1>8, <2>1, <2>3, <2>4
  <1>13. ASSUME NEW e \in 1..(m + b)
         PROVE  z[e] = EmptyBag \/ \E y \in 1..n : e = a + y
    <2>0. e \in Nat /\ m \in Nat /\ e >= 1 /\ e <= m + b
      <3>1. n \in Nat
        BY <1>1
      <3>2. m \in Nat
        BY <1>3, <1>14, <3>1
      <3> QED
        BY <1>4, <3>2
    <2>1. CASE e <= a
      <3>1. e \in 1..a /\ e \in 1..m
        BY <1>1, <1>3, <1>14, <2>0, <2>1
      <3>2. z[e] = x[e] /\ x[e] = u[e]
        BY <1>10, <1>11, <3>1 DEF Joined
      <3> QED
        BY <1>8, <3>1, <3>2
    <2>2. CASE a < e /\ e <= m
      <3>1. e - a \in 1..n /\ e = a + (e - a)
        BY <1>1, <1>3, <1>14, <2>0, <2>2
      <3> QED
        BY <3>1
    <2>3. CASE m < e
      <3>1. PICK i : i = e - m
        OBVIOUS
      <3>2. i \in 1..b /\ e = m + i
        BY <1>4, <2>0, <2>3, <3>1
      <3>3. z[m + i] = w[i] /\ w[i] = EmptyBag
        BY <1>8, <1>11, <3>2 DEF Joined
      <3> QED
        BY <3>2, <3>3
    <2> QED
      BY <1>3, <1>14, <2>0, <2>1, <2>2, <2>3
  <1>15. m + b = Size * n /\ Len(z) = m + b
    BY <1>5, <1>11, <1>14 DEF Joined
  <1> QED
    BY <1>2, <1>9, <1>12, <1>13, <1>15

-----------------------------------------------------------------------------
(* Places in the buffer of an all gather.                                    *)
LEMMA PlaceIs ==
  ASSUME NEW n \in Nat \ {0}, NEW s \in Nat, NEW y \in 1..n, NEW e, e = s * n + y
  PROVE  e \in Nat \ {0} /\ (e - 1) \div n = s /\ ((e - 1) % n) + 1 = y
  <1>1. PICK j : j = y - 1
    OBVIOUS
  <1>2. s * n \in Nat /\ s * n = n * s /\ j \in Nat /\ j < n
    BY <1>1
  <1>3. PICK z : z = n * s
    OBVIOUS
  <1>4. e \in Int /\ e = n * s + j + 1
    BY <1>1, <1>2, <1>3
  <1>5. StepIs(n, s, j, e)
    BY <1>2, <1>4, StepOfAny
  <1>6. j + 1 = y
    BY <1>1
  <1> QED
    BY <1>5, <1>6 DEF StepIs

Placed(n, s, y, e) == e \in Nat \ {0} /\ (e - 1) \div n = s /\ ((e - 1) % n) + 1 = y

LEMMA PlacedIs ==
  ASSUME NEW n \in Nat \ {0}, NEW s \in Nat, NEW y \in 1..n
  PROVE  Placed(n, s, y, s * n + y)
  BY PlaceIs DEF Placed

LEMMA PlaceOne ==
  ASSUME NEW n \in Nat \ {0}, NEW s \in Nat, NEW y \in 1..n, NEW t \in Nat, NEW z \in 1..n,
         NEW e, e = s * n + y, e = t * n + z
  PROVE  s = t /\ y = z
  <1>1. (e - 1) \div n = s /\ ((e - 1) % n) + 1 = y
    BY PlaceIs
  <1>2. (e - 1) \div n = t /\ ((e - 1) % n) + 1 = z
    BY PlaceIs
  <1> QED
    BY <1>1, <1>2

LEMMA PlaceSome ==
  ASSUME NEW n \in Nat \ {0}, NEW e \in 1..(Size * n)
  PROVE  \E s \in Rank : \E y \in 1..n : e = s * n + y
  <1>1. Size \in Nat /\ Size > 1
    BY RingPlanAssumption
  <1>2. e \in Nat \ {0}
    <2>1. PICK w : w = Size * n
      OBVIOUS
    <2>2. w \in Nat
      BY <1>1, <2>1
    <2> QED
      BY <2>1, <2>2
  <1>3. PICK s, j : s = (e - 1) \div n /\ j = (e - 1) % n
    OBVIOUS
  <1>4. s \in Nat /\ j \in 0..(n - 1) /\ e = n * s + j + 1 /\ (e <= n * Size <=> s < Size)
    BY <1>1, <1>2, <1>3, TurnOf
  <1>5. s < Size
    <2>1. n * Size = Size * n
      BY <1>1
    <2>2. PICK w : w = Size * n
      OBVIOUS
    <2>3. w \in Nat /\ e <= w
      BY <1>1, <2>2
    <2> QED
      BY <1>4, <2>1, <2>2, <2>3
  <1>6. PICK y, u : y = j + 1 /\ u = n * s
    OBVIOUS
  <1>7. y \in 1..n /\ e = u + y /\ u \in Nat /\ s * n = u /\ s \in Rank
    BY <1>1, <1>4, <1>5, <1>6 DEF Rank
  <1>8. e = s * n + y
    BY <1>7
  <1> QED
    BY <1>7, <1>8

LEMMA GroupBags ==
  ASSUME NEW S
  PROVE  Group!SetToBag(S) = SetToBag(S)
  BY DEF Group!SetToBag, SetToBag

LEMMA PlaceIn ==
  ASSUME NEW n \in Nat \ {0}, NEW S \in Nat, NEW g \in Nat, g < S, NEW y \in 1..n
  PROVE  g * n + y \in 1..(S * n)
  <1>1. PICK v : v = g + 1
    OBVIOUS
  <1>2. v \in Nat /\ v <= S
    BY <1>1
  <1>3. v * n <= S * n
    BY <1>2
  <1>4. v * n = g * n + n
    BY <1>1
  <1>5. PICK u, w : u = g * n /\ w = S * n
    OBVIOUS
  <1>6. u \in Nat /\ w \in Nat
    BY <1>5
  <1>7. u + n <= w
    BY <1>3, <1>4, <1>5
  <1>8. u + y \in 1..w
    BY <1>6, <1>7
  <1> QED
    BY <1>5, <1>8

LEMMA RankIs == \A g \in Rank : g \in Nat /\ g < Size
  BY RingPlanAssumption DEF Rank

GatheredAt(c, r, n, g, y, e) ==
  e \in 1..(Size * n) /\ Group!Returned(c, r)[e] = SetToBag({<<c, g, y>>})

LEMMA GatherReturned ==
  ASSUME NEW c \in 1..Len(Calls), Calls[c].kind = "all_gather", NEW n, n = Calls[c].n, NEW r,
         NEW g \in Rank, NEW y \in 1..n, NEW e, e = g * n + y
  PROVE  GatheredAt(c, r, n, g, y, e)
  <1>1. n \in Nat \ {0}
    BY CallIs
  <1>7. Size \in Nat
    BY RingPlanAssumption
  <1>8. g \in Nat /\ g < Size
    BY RankIs
  <1>2. e \in Nat \ {0} /\ (e - 1) \div n = g /\ ((e - 1) % n) + 1 = y
    <2>1. Placed(n, g, y, g * n + y)
      BY <1>1, <1>8, PlacedIs
    <2> QED
      BY <2>1 DEF Placed
  <1>3. e \in 1..(Size * n)
    <2>1. g * n + y \in 1..(Size * n)
      BY <1>1, <1>7, <1>8, PlaceIn
    <2> QED
      BY <2>1
  <1>4. Group!Returned(c, r) =
          [x \in 1..(Size * n) |-> Group!Input(c, (x - 1) \div n)[((x - 1) % n) + 1]]
    <2>1. Calls[c].kind # "all_reduce"
      OBVIOUS
    <2> QED
      BY <2>1 DEF Group!Returned
  <1>5. Group!Returned(c, r)[e] = Group!Input(c, (e - 1) \div n)[((e - 1) % n) + 1]
    BY <1>3, <1>4
  <1>6. Group!Input(c, g)[y] = SetToBag({<<c, g, y>>})
    <2>1. Group!Input(c, g) = [x \in 1..n |-> Group!SetToBag({<<c, g, x>>})]
      BY DEF Group!Input
    <2> QED
      BY <2>1, GroupBags
  <1> QED
    BY <1>2, <1>3, <1>5, <1>6 DEF GatheredAt

-----------------------------------------------------------------------------
(* A part of an all gather.                                                  *)
StretchOf(n, f, s, e) == \E y \in 1..n : e = s * n + y /\ f.lo < y /\ y <= f.hi

LEMMA StretchIs ==
  ASSUME NEW n \in Nat \ {0}, NEW f \in Stretch, f.hi <= n, NEW s \in Nat, NEW e,
         NEW range, range = <<s * n + f.lo, s * n + f.hi>>
  PROVE  e \in Covers(range) <=> StretchOf(n, f, s, e)
  <1>1. PICK u, lo, hi : u = s * n /\ lo = f.lo /\ hi = f.hi
    OBVIOUS
  <1>2. u \in Nat /\ lo \in Nat /\ hi \in Nat /\ hi <= n
    BY <1>1 DEF Stretch
  <1>3. range = <<u + lo, u + hi>>
    BY <1>1
  <1>4. Covers(range) = (u + lo + 1)..(u + hi)
    BY <1>3 DEF Covers
  <1>5. ASSUME e \in (u + lo + 1)..(u + hi)
        PROVE  \E y \in 1..n : e = u + y /\ lo < y /\ y <= hi
    <2>1. PICK y : y = e - u
      OBVIOUS
    <2>2. y \in 1..n /\ e = u + y /\ lo < y /\ y <= hi
      BY <1>2, <1>5, <2>1
    <2> QED
      BY <2>2
  <1>6. ASSUME NEW y \in 1..n, e = u + y, lo < y, y <= hi
        PROVE  e \in (u + lo + 1)..(u + hi)
    BY <1>2, <1>6
  <1> QED
    BY <1>1, <1>4, <1>5, <1>6 DEF StretchOf

GatherAt(mine, r, n, f) ==
  /\ Len(mine.sends) = Size - 1 /\ Len(mine.recvs) = Size - 1
  /\ mine.reduced = 0 /\ mine.lag = 0
  /\ mine.side \in {"left", "right"} /\ Way(mine.side) = f.d /\ mine.link = f.link
  /\ \A k \in 1..(Size - 1) :
       /\ SendSegment(r, f.d, k - 1) \in Rank /\ RecvSegment(r, f.d, k - 1) \in Rank
       /\ \A e : e \in Covers(mine.sends[k]) <=> StretchOf(n, f, SendSegment(r, f.d, k - 1), e)
       /\ \A e : e \in Covers(mine.recvs[k]) <=> StretchOf(n, f, RecvSegment(r, f.d, k - 1), e)
       /\ mine.sends[k] =
            <<SendSegment(r, f.d, k - 1) * n + f.lo, SendSegment(r, f.d, k - 1) * n + f.hi>>
       /\ mine.recvs[k] =
            <<RecvSegment(r, f.d, k - 1) * n + f.lo, RecvSegment(r, f.d, k - 1) * n + f.hi>>

LEMMA GatherPlan ==
  ASSUME NEW r \in Rank, NEW n \in Nat \ {0}, NEW f \in Stretch, f.hi <= n,
         NEW mine, mine = GatherPart(r, n, f)
  PROVE  GatherAt(mine, r, n, f)
  <1>1. PICK d, m : d = f.d /\ m = Size - 1
    OBVIOUS
  <1>2. m \in Nat /\ d \in {-1, 1} /\ r \in Int
    BY <1>1, RingPlanAssumption DEF Stretch, Rank
  <1>3. /\ mine.sends = [k \in 1..m |-> <<SendSegment(r, d, k - 1) * n + f.lo, SendSegment(r, d, k - 1) * n + f.hi>>]
        /\ mine.recvs = [k \in 1..m |-> <<RecvSegment(r, d, k - 1) * n + f.lo, RecvSegment(r, d, k - 1) * n + f.hi>>]
        /\ mine.reduced = 0 /\ mine.lag = 0 /\ mine.link = f.link
        /\ mine.side = (IF d < 0 THEN "right" ELSE "left")
    BY <1>1 DEF GatherPart
  <1>4. Len(mine.sends) = m /\ Len(mine.recvs) = m
    BY <1>2, <1>3
  <1>5. mine.side \in {"left", "right"} /\ Way(mine.side) = d
    <2>1. CASE d = 1
      BY <1>3, <2>1 DEF Way
    <2>2. CASE d = -1
      BY <1>3, <2>2 DEF Way
    <2> QED
      BY <1>2, <2>1, <2>2
  <1>6. ASSUME NEW k \in 1..m
        PROVE  /\ SendSegment(r, d, k - 1) \in Rank /\ RecvSegment(r, d, k - 1) \in Rank
               /\ \A e : e \in Covers(mine.sends[k]) <=> StretchOf(n, f, SendSegment(r, d, k - 1), e)
               /\ \A e : e \in Covers(mine.recvs[k]) <=> StretchOf(n, f, RecvSegment(r, d, k - 1), e)
               /\ mine.sends[k] =
                    <<SendSegment(r, d, k - 1) * n + f.lo, SendSegment(r, d, k - 1) * n + f.hi>>
               /\ mine.recvs[k] =
                    <<RecvSegment(r, d, k - 1) * n + f.lo, RecvSegment(r, d, k - 1) * n + f.hi>>
    <2>1. k - 1 \in Int
      BY <1>2
    <2>2. PICK s, t : s = SendSegment(r, d, k - 1) /\ t = RecvSegment(r, d, k - 1)
      OBVIOUS
    <2>3. s \in Rank /\ t \in Rank
      BY <1>2, <2>1, <2>2, SegmentsDiffer DEF Rank
    <2>4. s \in Nat /\ t \in Nat
      BY <2>3, RingPlanAssumption DEF Rank
    <2>5. mine.sends[k] = <<s * n + f.lo, s * n + f.hi>> /\ mine.recvs[k] = <<t * n + f.lo, t * n + f.hi>>
      BY <1>3, <2>2
    <2>6. /\ \A e : e \in Covers(mine.sends[k]) <=> StretchOf(n, f, s, e)
          /\ \A e : e \in Covers(mine.recvs[k]) <=> StretchOf(n, f, t, e)
      BY <2>4, <2>5, StretchIs
    <2> QED
      BY <2>2, <2>3, <2>5, <2>6
  <1> QED
    BY <1>1, <1>3, <1>4, <1>5, <1>6 DEF GatherAt

-----------------------------------------------------------------------------
(* What the state machine needs of the parts of a call beside PlanRight: a   *)
(* socket is used by one part, an element of the buffer is moved by one      *)
(* part, and a packet fits into a receive buffer.                            *)
PartFits(mine) ==
  /\ mine.side \in {"left", "right"} /\ mine.link \in 0..(Links - 1)
  /\ mine.reduced = 0 \/ mine.reduced + mine.lag < Len(mine.sends)
  /\ \A k \in 1..mine.reduced : mine.recvs[k][2] - mine.recvs[k][1] <= MaxBuffer
  /\ \A i, j \in 1..Len(mine.recvs) :
       i # j /\ Near(i, j, mine.lag) => Apart(mine.recvs[i], mine.recvs[j])

Fits(P) ==
  /\ P = [p \in DOMAIN P |-> P[p]] /\ DOMAIN P \subseteq 1..(2 * Links)
  /\ \A p \in DOMAIN P : PartFits(P[p])
  /\ \A p, q \in DOMAIN P : P[p].side = P[q].side /\ P[p].link = P[q].link => p = q
  /\ \A p, q \in DOMAIN P : \A e \in Int : Concerns(P[p], e) /\ Concerns(P[q], e) => p = q

(* What a part receives is what the same part of its neighbour sends.        *)
MateOf(mine, theirs) ==
  /\ theirs.side = mine.side /\ theirs.link = mine.link
  /\ Len(theirs.sends) = Len(mine.sends) /\ Len(theirs.recvs) = Len(mine.sends)
  /\ Len(mine.recvs) = Len(mine.sends)
  /\ \A k \in 1..Len(mine.sends) : theirs.sends[k] = mine.recvs[k]

LEMMA GatherMate ==
  ASSUME NEW r \in Rank, NEW n \in Nat \ {0}, NEW f \in Stretch, f.hi <= n,
         NEW mine, mine = GatherPart(r, n, f),
         NEW l, l = From(r, mine.side),
         NEW theirs, theirs = GatherPart(l, n, f)
  PROVE  l \in Rank /\ MateOf(mine, theirs)
  <1>8. GatherAt(mine, r, n, f)
    BY GatherPlan
  <1>1. /\ Len(mine.sends) = Size - 1 /\ Len(mine.recvs) = Size - 1
        /\ mine.side \in {"left", "right"} /\ Way(mine.side) = f.d /\ mine.link = f.link
    BY <1>8 DEF GatherAt
  <1>7. \A k \in 1..(Size - 1) : mine.recvs[k] =
          <<RecvSegment(r, f.d, k - 1) * n + f.lo, RecvSegment(r, f.d, k - 1) * n + f.hi>>
    BY <1>8 DEF GatherAt
  <1>2. l \in Rank
    BY FromIs
  <1>9. GatherAt(theirs, l, n, f)
    BY <1>2, GatherPlan
  <1>3. /\ Len(theirs.sends) = Size - 1 /\ Len(theirs.recvs) = Size - 1 /\ theirs.link = f.link
        /\ \A k \in 1..(Size - 1) : theirs.sends[k] =
             <<SendSegment(l, f.d, k - 1) * n + f.lo, SendSegment(l, f.d, k - 1) * n + f.hi>>
    BY <1>9 DEF GatherAt
  <1>4. theirs.side = mine.side
    BY DEF GatherPart
  <1>5. f.d \in {-1, 1}
    BY DEF Stretch
  <1>6. ASSUME NEW k \in 1..(Size - 1)
        PROVE  theirs.sends[k] = mine.recvs[k]
    <2>1. k - 1 \in Int
      OBVIOUS
    <2>2. SendSegment(l, f.d, k - 1) = RecvSegment(r, f.d, k - 1)
      BY <1>1, <1>5, <2>1, SegmentFrom
    <2> QED
      BY <1>1, <1>3, <1>7, <2>2
  <1> QED
    BY <1>1, <1>2, <1>3, <1>4, <1>6 DEF MateOf

(* An element belongs to one stretch of one segment.                         *)
LEMMA GatherConcerns ==
  ASSUME NEW r \in Rank, NEW n \in Nat \ {0}, NEW f \in Stretch, f.hi <= n,
         NEW mine, mine = GatherPart(r, n, f), NEW e, Concerns(mine, e)
  PROVE  \E s \in Nat : StretchOf(n, f, s, e)
  <1>4. GatherAt(mine, r, n, f)
    BY GatherPlan
  <1>1. /\ Len(mine.sends) = Size - 1
        /\ \A k \in 1..(Size - 1) :
             /\ SendSegment(r, f.d, k - 1) \in Rank /\ RecvSegment(r, f.d, k - 1) \in Rank
             /\ e \in Covers(mine.sends[k]) <=> StretchOf(n, f, SendSegment(r, f.d, k - 1), e)
             /\ e \in Covers(mine.recvs[k]) <=> StretchOf(n, f, RecvSegment(r, f.d, k - 1), e)
    BY <1>4 DEF GatherAt
  <1>2. PICK k \in 1..(Size - 1) : e \in Covers(mine.sends[k]) \cup Covers(mine.recvs[k])
    BY <1>1 DEF Concerns
  <1>3. SendSegment(r, f.d, k - 1) \in Nat /\ RecvSegment(r, f.d, k - 1) \in Nat
    BY <1>1, <1>2, RankIs
  <1> QED
    BY <1>1, <1>2, <1>3

LEMMA StretchOne ==
  ASSUME NEW n \in Nat \ {0}, NEW C, NEW F, Stretched(F, C, n), NEW p \in 1..C, NEW q \in 1..C,
         NEW s \in Nat, NEW t \in Nat, NEW e, StretchOf(n, F[p], s, e), StretchOf(n, F[q], t, e)
  PROVE  s = t /\ p = q
  <1>1. PICK y \in 1..n : e = s * n + y /\ F[p].lo < y /\ y <= F[p].hi
    BY DEF StretchOf
  <1>2. PICK z \in 1..n : e = t * n + z /\ F[q].lo < z /\ z <= F[q].hi
    BY DEF StretchOf
  <1>3. s = t /\ y = z
    BY <1>1, <1>2, PlaceOne
  <1>4. p = q
    <2>1. y \in Int /\ F[p].lo < y /\ y <= F[p].hi /\ F[q].lo < y /\ y <= F[q].hi
      BY <1>1, <1>2, <1>3
    <2> QED
      BY <2>1 DEF Stretched
  <1> QED
    BY <1>3, <1>4

(* An element is on the way of one segment only.                             *)
LEMMA StretchSame ==
  ASSUME NEW n \in Nat \ {0}, NEW f, NEW s \in Nat, NEW t \in Nat, NEW e,
         StretchOf(n, f, s, e), StretchOf(n, f, t, e)
  PROVE  s = t
  <1>1. PICK y \in 1..n : e = s * n + y
    BY DEF StretchOf
  <1>2. PICK z \in 1..n : e = t * n + z
    BY DEF StretchOf
  <1> QED
    BY <1>1, <1>2, PlaceOne

OwnIs(c, q, r, e) == Prepared(c, r)[e] = Group!Returned(c, q)[e]

LEMMA GatherValue ==
  ASSUME NEW c \in 1..Len(Calls), Calls[c].kind = "all_gather", NEW n, n = Calls[c].n,
         NEW q, NEW r \in Rank, NEW f, NEW e, StretchOf(n, f, r, e)
  PROVE  OwnIs(c, q, r, e)
  <1>1. PICK y \in 1..n : e = r * n + y
    BY DEF StretchOf
  <1>2. Group!Returned(c, q)[e] = SetToBag({<<c, r, y>>})
    <2>1. GatheredAt(c, q, n, r, y, e)
      BY <1>1, GatherReturned
    <2> QED
      BY <2>1 DEF GatheredAt
  <1>3. Prepared(c, r)[e] = SetToBag({<<c, r, y>>})
    BY <1>1, GatherPrepared
  <1> QED
    BY <1>2, <1>3 DEF OwnIs

LEMMA HeldGathered ==
  ASSUME NEW c, Calls[c].kind = "all_gather", NEW r, NEW mine, NEW T, T # {}, NEW e
  PROVE  Held(c, r, mine, T, e) = Group!Returned(c, r)[e]
  <1>1. Calls[c].kind # "all_reduce"
    OBVIOUS
  <1> QED
    BY <1>1 DEF Held

LEMMA GatherSame ==
  ASSUME NEW c, Calls[c].kind = "all_gather", NEW r, NEW q
  PROVE  Group!Returned(c, r) = Group!Returned(c, q)
  <1>1. Calls[c].kind # "all_reduce"
    OBVIOUS
  <1> QED
    BY <1>1 DEF Group!Returned

(* An element that has not come around is a rank's own when it is sent.      *)
LEMMA GatherCarried ==
  ASSUME NEW c \in 1..Len(Calls), Calls[c].kind = "all_gather", NEW n, n = Calls[c].n,
         NEW r \in Rank, NEW f \in Stretch, f.hi <= n, NEW mine, mine = GatherPart(r, n, f),
         NEW k \in 1..Len(mine.sends), NEW e \in Covers(mine.sends[k]), NEW q
  PROVE  Carried(c, r, mine, k, e) = Group!Returned(c, q)[e]
  <1>1. n \in Nat \ {0} /\ Size \in Nat
    BY CallIs, RingPlanAssumption
  <1>2. GatherAt(mine, r, n, f)
    BY <1>1, GatherPlan
  <1>3. /\ Len(mine.sends) = Size - 1 /\ Len(mine.recvs) = Size - 1 /\ mine.lag = 0
        /\ mine.side \in {"left", "right"} /\ Way(mine.side) = f.d
    BY <1>2 DEF GatherAt
  <1>4. k \in 1..(Size - 1) /\ k \in Int
    BY <1>1, <1>3
  <1>5. StretchOf(n, f, SendSegment(r, f.d, k - 1), e)
    BY <1>2, <1>4 DEF GatherAt
  <1>6. PICK T : T = {j \in Covering(mine, e) : j < k - mine.lag}
    OBVIOUS
  <1>7. Carried(c, r, mine, k, e) = Held(c, r, mine, T, e)
    BY <1>6 DEF Carried
  <1>8. CASE T # {}
    BY <1>7, <1>8, HeldGathered, GatherSame
  <1>9. CASE T = {}
    <2>1. Held(c, r, mine, T, e) = Prepared(c, r)[e]
      BY <1>9 DEF Held
    <2>2. f.d \in {-1, 1}
      BY DEF Stretch
    <2>3. k = 1
      <3> SUFFICES ASSUME k # 1 PROVE FALSE
        OBVIOUS
      <3>1. PICK j : j = k - 1
        OBVIOUS
      <3>2. j \in 1..(Size - 1) /\ j < k /\ j \in Int
        BY <1>1, <1>4, <3>1
      <3>3. SendSegment(r, f.d, j) = RecvSegment(r, f.d, j - 1)
        BY <1>3, <2>2, <3>2, SegmentFrom
      <3>4. StretchOf(n, f, RecvSegment(r, f.d, j - 1), e)
        BY <1>5, <3>1, <3>3
      <3>5. e \in Covers(mine.recvs[j])
        BY <1>2, <3>2, <3>4 DEF GatherAt
      <3>6. j \in Covering(mine, e)
        BY <1>3, <3>2, <3>5 DEF Covering
      <3>7. j < k - mine.lag
        BY <1>3, <1>4, <3>1
      <3> QED
        BY <1>6, <1>9, <3>6, <3>7
    <2>4. SendSegment(r, f.d, 0) = r
      BY <1>3, <2>2, SegmentFrom
    <2>5. StretchOf(n, f, r, e)
      <3>1. k - 1 = 0
        BY <2>3
      <3> QED
        BY <1>5, <2>4, <3>1
    <2>6. OwnIs(c, q, r, e)
      BY <2>5, GatherValue
    <2> QED
      BY <1>7, <2>1, <2>6 DEF OwnIs
  <1> QED
    BY <1>8, <1>9

LEMMA GatherHeld ==
  ASSUME NEW c \in 1..Len(Calls), Calls[c].kind = "all_gather", NEW n, n = Calls[c].n,
         NEW r \in Rank, NEW f \in Stretch, f.hi <= n, NEW mine, mine = GatherPart(r, n, f),
         NEW l, l = From(r, mine.side),
         NEW theirs, theirs = GatherPart(l, n, f),
         NEW k \in 1..Len(mine.recvs), NEW e \in Covers(mine.recvs[k])
  PROVE  HeldNext(c, r, l, mine, theirs, k, e)
  <1>1. n \in Nat \ {0} /\ Size \in Nat
    BY CallIs, RingPlanAssumption
  <1>2. GatherAt(mine, r, n, f)
    BY <1>1, GatherPlan
  <1>3. mine.reduced = 0 /\ Len(mine.recvs) = Size - 1
    BY <1>2 DEF GatherAt
  <1>4. k \in Int /\ k > 0
    BY <1>1, <1>3
  <1>5. l \in Rank /\ MateOf(mine, theirs)
    BY <1>1, GatherMate
  <1>6. k \in 1..Len(theirs.sends) /\ e \in Covers(theirs.sends[k])
    BY <1>5 DEF MateOf
  <1>7. Carried(c, l, theirs, k, e) = Group!Returned(c, r)[e]
    BY <1>5, <1>6, GatherCarried
  <1>8. PICK T : T = {i \in Covering(mine, e) : i < k}
    OBVIOUS
  <1>9. Held(c, r, mine, T \cup {k}, e) = Group!Returned(c, r)[e]
    BY HeldGathered
  <1>10. ~ (k <= mine.reduced)
    BY <1>3, <1>4
  <1> QED
    BY <1>7, <1>8, <1>9, <1>10 DEF HeldNext

(* Every element comes around, but for a rank's own, which goes out.         *)
LEMMA GatherAll ==
  ASSUME NEW c \in 1..Len(Calls), Calls[c].kind = "all_gather", NEW n, n = Calls[c].n,
         NEW r \in Rank, NEW f \in Stretch, f.hi <= n, NEW mine, mine = GatherPart(r, n, f),
         NEW s \in Rank, NEW e, StretchOf(n, f, s, e)
  PROVE  /\ Concerns(mine, e)
         /\ Held(c, r, mine, Covering(mine, e), e) = Group!Returned(c, r)[e]
  <1>1. n \in Nat \ {0} /\ Size \in Nat /\ Size > 1
    BY CallIs, RingPlanAssumption
  <1>2. GatherAt(mine, r, n, f)
    BY <1>1, GatherPlan
  <1>3. /\ Len(mine.sends) = Size - 1 /\ Len(mine.recvs) = Size - 1
        /\ mine.side \in {"left", "right"} /\ Way(mine.side) = f.d
    BY <1>2 DEF GatherAt
  <1>4. f.d \in {-1, 1}
    BY DEF Stretch
  <1>5. PICK t \in 0..(Size - 1) : SendSegment(r, f.d, t) = s
    BY <1>4, SegmentSome
  <1>6. CASE t = 0
    <2>1. s = r
      BY <1>3, <1>4, <1>5, <1>6, SegmentFrom
    <2>2. PICK k : k = 1
      OBVIOUS
    <2>3. k \in 1..(Size - 1) /\ k - 1 = t
      BY <1>1, <1>6, <2>2
    <2>4. e \in Covers(mine.sends[k])
      BY <1>2, <1>5, <2>3 DEF GatherAt
    <2>5. Concerns(mine, e)
      BY <1>3, <2>3, <2>4 DEF Concerns
    <2>6. CASE Covering(mine, e) # {}
      BY <2>5, <2>6, HeldGathered
    <2>7. CASE Covering(mine, e) = {}
      <3>1. Held(c, r, mine, Covering(mine, e), e) = Prepared(c, r)[e]
        BY <2>7 DEF Held
      <3>2. StretchOf(n, f, r, e)
        BY <2>1
      <3>3. OwnIs(c, r, r, e)
        BY <3>2, GatherValue
      <3> QED
        BY <2>5, <3>1, <3>3 DEF OwnIs
    <2> QED
      BY <2>6, <2>7
  <1>7. CASE t # 0
    <2>1. t \in 1..(Size - 1) /\ t \in Int
      BY <1>1, <1>7
    <2>2. RecvSegment(r, f.d, t - 1) = s
      BY <1>3, <1>4, <1>5, <2>1, SegmentFrom
    <2>3. e \in Covers(mine.recvs[t])
      BY <1>2, <2>1, <2>2 DEF GatherAt
    <2>4. Concerns(mine, e) /\ t \in Covering(mine, e)
      BY <1>3, <2>1, <2>3 DEF Concerns, Covering
    <2> QED
      BY <2>4, HeldGathered
  <1> QED
    BY <1>6, <1>7

-----------------------------------------------------------------------------
(* The parts of every kind of call fit.                                      *)
LEMMA ReduceSides ==
  ASSUME NEW r \in Int, NEW n \in Nat \ {0}, NEW f \in Layout,
         NEW mine, mine = ReducePart(r, f.n, f.offset, f.d, f.link)
  PROVE  PartFits(mine) /\ Way(mine.side) = f.d /\ mine.link = f.link
  <1>1. PICK m, offset, d, link : m = f.n /\ offset = f.offset /\ d = f.d /\ link = f.link
    OBVIOUS
  <1>2. m \in Nat \ {0} /\ offset \in Nat /\ d \in {-1, 1} /\ link \in 0..(Links - 1)
    BY <1>1 DEF Layout
  <1>3. mine = ReducePart(r, m, offset, d, link)
    BY <1>1
  <1>4. PICK P : P = Packets(m)
    OBVIOUS
  <1>5. /\ P \in Nat \ {0} /\ mine.reduced = P * (Size - 1) /\ Len(mine.recvs) = P * (2 * (Size - 1))
        /\ Way(mine.side) = d /\ mine.link = link /\ mine.side \in {"left", "right"}
    BY <1>2, <1>3, <1>4, ReducePlan
  <1>6. /\ mine.reduced + mine.lag < Len(mine.sends)
        /\ \A k \in 1..Len(mine.recvs) : mine.recvs[k][2] - mine.recvs[k][1] <= MaxBuffer
        /\ \A i, j \in 1..Len(mine.recvs) :
             i # j /\ Near(i, j, mine.lag) => Apart(mine.recvs[i], mine.recvs[j])
    BY <1>2, <1>3, ReduceRounds
  <1>7. mine.reduced <= Len(mine.recvs) /\ Len(mine.recvs) \in Int /\ mine.reduced \in Int
    <2>1. PICK u, s : u = P * s /\ s = Size - 1
      OBVIOUS
    <2>2. s \in Nat /\ u \in Nat
      BY <1>5, <2>1, RingPlanAssumption, ProductIs
    <2>3. P * (2 * s) = 2 * u
      BY <1>5, <2>1, <2>2
    <2>4. mine.reduced = u /\ Len(mine.recvs) = 2 * u
      BY <1>5, <2>1, <2>3
    <2> QED
      BY <2>2, <2>4
  <1>8. \A k \in 1..mine.reduced : mine.recvs[k][2] - mine.recvs[k][1] <= MaxBuffer
    BY <1>6, <1>7
  <1> QED
    BY <1>1, <1>2, <1>5, <1>6, <1>8 DEF PartFits

LEMMA WayIs ==
  ASSUME NEW x \in {"left", "right"}, NEW y \in {"left", "right"}, Way(x) = Way(y)
  PROVE  x = y
  BY DEF Way

LEMMA ReduceFits ==
  ASSUME NEW r \in Rank, NEW n \in Nat \ {0}
  PROVE  Fits(ReduceParts(r, n)) /\ DOMAIN ReduceParts(r, n) # {}
  <1>10. PICK C, F : ReduceBy(n, C, F)
    BY ReduceLayout
  <1>1. /\ LaidOut(F, C, Larger(n, Size), n)
        /\ \A q : ReduceParts(q, n) =
             [p \in 1..C |-> ReducePart(q, F[p].n, F[p].offset, F[p].d, F[p].link)]
    BY <1>10 DEF ReduceBy
  <1>2. PICK P : P = ReduceParts(r, n)
    OBVIOUS
  <1>3. P = [p \in 1..C |-> ReducePart(r, F[p].n, F[p].offset, F[p].d, F[p].link)]
    BY <1>1, <1>2
  <1>4. DOMAIN P = 1..C /\ P = [p \in DOMAIN P |-> P[p]] /\ C \in Nat \ {0} /\ C <= 2 * Links
    BY <1>1, <1>3 DEF LaidOut
  <1>5. r \in Int /\ Links \in Nat
    BY RankIs, RingPlanAssumption
  <1>6. ASSUME NEW p \in 1..C
        PROVE  /\ PartFits(P[p]) /\ Way(P[p].side) = F[p].d /\ P[p].link = F[p].link
               /\ P[p].side \in {"left", "right"}
               /\ \A e \in Int : Concerns(P[p], e) => In(F[p], e)
    <2>1. PICK f : f = F[p]
      OBVIOUS
    <2>2. f \in Layout /\ P[p] = ReducePart(r, f.n, f.offset, f.d, f.link)
      BY <1>1, <1>3, <2>1 DEF LaidOut
    <2>3. PartFits(P[p]) /\ Way(P[p].side) = f.d /\ P[p].link = f.link
      BY <1>5, <2>2, ReduceSides
    <2>4. f.n \in Nat \ {0} /\ f.offset \in Nat /\ f.d \in {-1, 1}
      BY <2>2 DEF Layout
    <2>5. \A e \in Int : Concerns(P[p], e) => In(f, e)
      BY <2>2, <2>4, ReduceMoves DEF In
    <2> QED
      BY <2>1, <2>3, <2>5 DEF PartFits
  <1>7. ASSUME NEW p \in 1..C, NEW q \in 1..C, P[p].side = P[q].side, P[p].link = P[q].link
        PROVE  p = q
    <2>1. F[p].d = F[q].d /\ F[p].link = F[q].link
      BY <1>6, <1>7
    <2> QED
      BY <1>1, <2>1 DEF LaidOut
  <1>8. ASSUME NEW p \in 1..C, NEW q \in 1..C, NEW e \in Int, Concerns(P[p], e), Concerns(P[q], e)
        PROVE  p = q
    <2>1. In(F[p], e) /\ In(F[q], e)
      BY <1>6, <1>8
    <2> QED
      BY <1>1, <2>1 DEF LaidOut
  <1>9. 1..C \subseteq 1..(2 * Links) /\ 1 \in 1..C
    BY <1>4, <1>5
  <1> QED
    BY <1>2, <1>4, <1>6, <1>7, <1>8, <1>9 DEF Fits

LEMMA GatherSides ==
  ASSUME NEW r \in Rank, NEW n \in Nat \ {0}, NEW f \in Stretch, f.hi <= n,
         NEW mine, mine = GatherPart(r, n, f)
  PROVE  PartFits(mine) /\ Way(mine.side) = f.d /\ mine.link = f.link
  <1>1. GatherAt(mine, r, n, f)
    BY GatherPlan
  <1>2. /\ mine.reduced = 0 /\ mine.lag = 0 /\ Len(mine.recvs) = Size - 1
        /\ mine.side \in {"left", "right"} /\ Way(mine.side) = f.d /\ mine.link = f.link
    BY <1>1 DEF GatherAt
  <1>3. mine.link \in 0..(Links - 1)
    BY <1>2 DEF Stretch
  <1>4. \A k \in 1..mine.reduced : mine.recvs[k][2] - mine.recvs[k][1] <= MaxBuffer
    BY <1>2
  <1>5. ASSUME NEW i \in 1..Len(mine.recvs), NEW j \in 1..Len(mine.recvs), i # j
        PROVE  ~ Near(i, j, mine.lag)
    <2>1. i \in Int /\ j \in Int
      BY <1>2, RingPlanAssumption
    <2> QED
      BY <1>2, <1>5, <2>1 DEF Near
  <1> QED
    BY <1>2, <1>3, <1>4, <1>5 DEF PartFits

LEMMA GatherFits ==
  ASSUME NEW r \in Rank, NEW n \in Nat \ {0}
  PROVE  Fits(GatherParts(r, n)) /\ DOMAIN GatherParts(r, n) # {}
  <1>1. PICK C, F : /\ Stretched(F, C, n)
                    /\ \A q : GatherParts(q, n) = [p \in 1..C |-> GatherPart(q, n, F[p])]
    BY GatherLayout
  <1>2. PICK P : P = GatherParts(r, n)
    OBVIOUS
  <1>3. P = [p \in 1..C |-> GatherPart(r, n, F[p])]
    BY <1>1, <1>2
  <1>4. DOMAIN P = 1..C /\ P = [p \in DOMAIN P |-> P[p]] /\ C \in Nat \ {0} /\ C <= 2 * Links
    BY <1>1, <1>3 DEF Stretched
  <1>5. Links \in Nat
    BY RingPlanAssumption
  <1>6. ASSUME NEW p \in 1..C
        PROVE  /\ PartFits(P[p]) /\ Way(P[p].side) = F[p].d /\ P[p].link = F[p].link
               /\ \A e \in Int : Concerns(P[p], e) => \E s \in Nat : StretchOf(n, F[p], s, e)
    <2>1. PICK f : f = F[p]
      OBVIOUS
    <2>2. f \in Stretch /\ f.hi <= n /\ P[p] = GatherPart(r, n, f)
      BY <1>1, <1>3, <2>1 DEF Stretched
    <2>3. PartFits(P[p]) /\ Way(P[p].side) = f.d /\ P[p].link = f.link
      BY <2>2, GatherSides
    <2>4. \A e \in Int : Concerns(P[p], e) => \E s \in Nat : StretchOf(n, f, s, e)
      BY <2>2, GatherConcerns
    <2> QED
      BY <2>1, <2>3, <2>4
  <1>7. ASSUME NEW p \in 1..C, NEW q \in 1..C, P[p].side = P[q].side, P[p].link = P[q].link
        PROVE  p = q
    <2>1. F[p].d = F[q].d /\ F[p].link = F[q].link
      BY <1>6, <1>7
    <2> QED
      BY <1>1, <2>1 DEF Stretched
  <1>8. ASSUME NEW p \in 1..C, NEW q \in 1..C, NEW e \in Int, Concerns(P[p], e), Concerns(P[q], e)
        PROVE  p = q
    <2>1. PICK s \in Nat : StretchOf(n, F[p], s, e)
      BY <1>6, <1>8
    <2>2. PICK t \in Nat : StretchOf(n, F[q], t, e)
      BY <1>6, <1>8
    <2> QED
      BY <1>1, <2>1, <2>2, StretchOne
  <1>9. 1..C \subseteq 1..(2 * Links) /\ 1 \in 1..C
    BY <1>4, <1>5
  <1> QED
    BY <1>2, <1>4, <1>6, <1>7, <1>8, <1>9 DEF Fits

(* The chunks of a send, in a row and nothing left over.                     *)
ChunksIn(n, C, per) ==
  /\ C \in Nat \ {0} /\ C <= Links /\ per \in Nat /\ n <= C * per
  /\ Chunks(n) = [i \in 1..C |-> <<(i - 1) * per, Smaller(n, i * per)>>]

LEMMA ChunksOf ==
  ASSUME NEW n \in Nat \ {0}
  PROVE  \E C, per : ChunksIn(n, C, per)
  <1>1. Links \in Nat \ {0} /\ MinChunk \in Nat \ {0}
    BY RingPlanAssumption
  <1>2. PICK a : a = CeilDiv(n, Links)
    OBVIOUS
  <1>3. a \in Nat \ {0} /\ n <= Links * a
    BY <1>1, <1>2, CeilDivIs, CeilDivCovers
  <1>4. PICK per : per = Larger(MinChunk, a)
    OBVIOUS
  <1>5. per \in Nat \ {0} /\ a <= per
    BY <1>1, <1>3, <1>4 DEF Larger
  <1>6. PICK b : b = CeilDiv(n, per)
    OBVIOUS
  <1>7. b \in Nat \ {0} /\ n <= per * b
    BY <1>5, <1>6, CeilDivIs, CeilDivCovers
  <1>8. PICK C : C = Smaller(Links, b)
    OBVIOUS
  <1>9. C \in Nat \ {0} /\ C <= Links /\ (C = Links \/ C = b)
    BY <1>1, <1>7, <1>8 DEF Smaller
  <1>10. n <= C * per
    <2>1. Links * a <= Links * per
      BY <1>1, <1>3, <1>5
    <2>2. n <= Links * per
      <3>1. PICK u, v : u = Links * a /\ v = Links * per
        OBVIOUS
      <3>2. u \in Int /\ v \in Int
        BY <1>1, <1>3, <1>5, <3>1
      <3> QED
        BY <1>3, <2>1, <3>1, <3>2
    <2>3. n <= b * per
      BY <1>5, <1>7
    <2> QED
      BY <1>9, <2>2, <2>3
  <1>11. Chunks(n) = [i \in 1..C |-> <<(i - 1) * per, Smaller(n, i * per)>>]
    BY <1>2, <1>4, <1>6, <1>8 DEF Chunks
  <1> QED
    BY <1>5, <1>9, <1>10, <1>11 DEF ChunksIn

LEMMA ChunkOne ==
  ASSUME NEW n \in Nat \ {0}, NEW i \in DOMAIN Chunks(n), NEW j \in DOMAIN Chunks(n), NEW e \in Int,
         e \in Covers(Chunks(n)[i]), e \in Covers(Chunks(n)[j])
  PROVE  i = j
  <1>1. PICK C, per : ChunksIn(n, C, per)
    BY ChunksOf
  <1>2. /\ C \in Nat /\ per \in Nat
        /\ Chunks(n) = [k \in 1..C |-> <<(k - 1) * per, Smaller(n, k * per)>>]
    BY <1>1 DEF ChunksIn
  <1>3. i \in 1..C /\ j \in 1..C
    BY <1>2
  <1>4. ASSUME NEW k \in 1..C, e \in Covers(Chunks(n)[k])
        PROVE  (k - 1) * per < e /\ e <= ((k - 1) + 1) * per
    <2>1. PICK u, v : u = (k - 1) * per /\ v = k * per
      OBVIOUS
    <2>2. Chunks(n)[k] = <<u, Smaller(n, v)>>
      BY <1>2, <2>1
    <2>3. u \in Int /\ v \in Int
      BY <1>2, <2>1
    <2>4. u < e /\ e <= v
      BY <1>4, <2>2, <2>3 DEF Covers, Smaller
    <2>5. (k - 1) + 1 = k
      BY <1>2
    <2> QED
      BY <2>1, <2>4, <2>5
  <1>5. PICK a, b : a = i - 1 /\ b = j - 1
    OBVIOUS
  <1>6. a \in Nat /\ b \in Nat /\ (i = j <=> a = b)
    BY <1>2, <1>3, <1>5
  <1>7. a * per < e /\ e <= (a + 1) * per /\ b * per < e /\ e <= (b + 1) * per
    BY <1>3, <1>4, <1>5
  <1> QED
    BY <1>2, <1>6, <1>7, Blocks

LEMMA ChunkSome ==
  ASSUME NEW n \in Nat \ {0}, NEW e \in 1..n
  PROVE  \E i \in DOMAIN Chunks(n) : e \in Covers(Chunks(n)[i])
  <1>1. PICK C, per : ChunksIn(n, C, per)
    BY ChunksOf
  <1>2. /\ C \in Nat \ {0} /\ per \in Nat /\ n <= C * per
        /\ Chunks(n) = [k \in 1..C |-> <<(k - 1) * per, Smaller(n, k * per)>>]
    BY <1>1 DEF ChunksIn
  <1>3. PICK w : w = C * per
    OBVIOUS
  <1>4. w \in Int /\ n <= w
    BY <1>2, <1>3
  <1>5. per # 0
    <2> SUFFICES ASSUME per = 0 PROVE FALSE
      OBVIOUS
    <2>1. w = 0
      BY <1>2, <1>3
    <2> QED
      BY <1>4, <2>1
  <1>6. PICK t, j : t = (e - 1) \div per /\ j = (e - 1) % per
    OBVIOUS
  <1>7. /\ t \in Nat /\ j \in 0..(per - 1) /\ e = per * t + j + 1
        /\ e <= per * C <=> t < C
    <2>1. e \in Nat \ {0} /\ per \in Nat \ {0} /\ C \in Nat
      BY <1>2, <1>5
    <2> QED
      BY <1>6, <2>1, TurnOf
  <1>8. t < C
    <2>1. per * C = w
      BY <1>2, <1>3
    <2>2. e <= w
      BY <1>4
    <2> QED
      BY <1>7, <2>1, <2>2
  <1>9. PICK i, u, v : i = t + 1 /\ u = t * per /\ v = (t + 1) * per
    OBVIOUS
  <1>10. i \in 1..C /\ i - 1 = t
    BY <1>2, <1>7, <1>8, <1>9
  <1>11. u \in Int /\ v = u + per /\ per * t = u
    BY <1>2, <1>7, <1>9
  <1>12. e = u + j + 1 /\ u < e /\ e <= v
    BY <1>2, <1>7, <1>11
  <1>13. Chunks(n)[i] = <<u, Smaller(n, v)>>
    BY <1>2, <1>9, <1>10
  <1>14. e \in Covers(Chunks(n)[i])
    BY <1>11, <1>12, <1>13 DEF Covers, Smaller
  <1> QED
    BY <1>2, <1>10, <1>14

-----------------------------------------------------------------------------
(* The parts of a send, on either end.                                       *)
AlonePart(mine, n, i, side) ==
  /\ mine.side = side /\ mine.link = i - 1 /\ mine.reduced = 0 /\ mine.lag = 0
  /\ Len(mine.sends) = 1 /\ Len(mine.recvs) = 1

Toward(r, dst) == IF dst = Right(r) THEN "right" ELSE "left"

LEMMA SendPart ==
  ASSUME NEW r, NEW dst, NEW n \in Nat \ {0}, NEW P, P = SendParts(r, dst, n)
  PROVE  /\ P = [i \in DOMAIN Chunks(n) |-> P[i]]
         /\ \A i \in DOMAIN Chunks(n) :
              /\ AlonePart(P[i], n, i, Toward(r, dst))
              /\ P[i].sends[1] = Chunks(n)[i] /\ P[i].recvs[1] = <<0, 0>>
  <1>1. P = [i \in DOMAIN Chunks(n) |-> Alone(Toward(r, dst), i - 1, <<Chunks(n)[i]>>, <<<<0, 0>>>>)]
    BY DEF SendParts, Toward
  <1>2. ASSUME NEW i \in DOMAIN Chunks(n)
        PROVE  /\ AlonePart(P[i], n, i, Toward(r, dst))
               /\ P[i].sends[1] = Chunks(n)[i] /\ P[i].recvs[1] = <<0, 0>>
    <2>1. P[i] = Alone(Toward(r, dst), i - 1, <<Chunks(n)[i]>>, <<<<0, 0>>>>)
      BY <1>1
    <2> QED
      BY <2>1 DEF AlonePart, Alone
  <1> QED
    BY <1>1, <1>2

LEMMA RecvPart ==
  ASSUME NEW r, NEW src, NEW n \in Nat \ {0}, NEW P, P = RecvParts(r, src, n)
  PROVE  /\ P = [i \in DOMAIN Chunks(n) |-> P[i]]
         /\ \A i \in DOMAIN Chunks(n) :
              /\ AlonePart(P[i], n, i, IF src = Left(r) THEN "right" ELSE "left")
              /\ P[i].sends[1] = <<0, 0>> /\ P[i].recvs[1] = Chunks(n)[i]
  <1>1. PICK side : side = IF src = Left(r) THEN "left" ELSE "right"
    OBVIOUS
  <1>2. P = [i \in DOMAIN Chunks(n) |-> Alone(Other(side), i - 1, <<<<0, 0>>>>, <<Chunks(n)[i]>>)]
    BY <1>1 DEF RecvParts
  <1>3. Other(side) = IF src = Left(r) THEN "right" ELSE "left"
    BY <1>1 DEF Other
  <1>4. ASSUME NEW i \in DOMAIN Chunks(n)
        PROVE  /\ AlonePart(P[i], n, i, Other(side))
               /\ P[i].sends[1] = <<0, 0>> /\ P[i].recvs[1] = Chunks(n)[i]
    <2>1. P[i] = Alone(Other(side), i - 1, <<<<0, 0>>>>, <<Chunks(n)[i]>>)
      BY <1>2
    <2> QED
      BY <2>1 DEF AlonePart, Alone
  <1> QED
    BY <1>2, <1>3, <1>4

LEMMA AloneFits ==
  ASSUME NEW n \in Nat \ {0}, NEW P, NEW side \in {"left", "right"},
         P = [i \in DOMAIN Chunks(n) |-> P[i]],
         \A i \in DOMAIN Chunks(n) : AlonePart(P[i], n, i, side),
         \A i \in DOMAIN Chunks(n) : \A e \in Int :
           Concerns(P[i], e) => e \in Covers(Chunks(n)[i])
  PROVE  Fits(P) /\ DOMAIN P # {}
  <1>1. PICK C, per : ChunksIn(n, C, per)
    BY ChunksOf
  <1>2. DOMAIN P = 1..C /\ DOMAIN Chunks(n) = 1..C /\ C \in Nat \ {0} /\ C <= Links
    BY <1>1 DEF ChunksIn
  <1>3. Links \in Nat /\ P = [p \in DOMAIN P |-> P[p]]
    BY <1>2, RingPlanAssumption
  <1>4. DOMAIN P \subseteq 1..(2 * Links) /\ 1 \in DOMAIN P
    BY <1>2, <1>3
  <1>5. ASSUME NEW p \in DOMAIN P
        PROVE  PartFits(P[p]) /\ P[p].link = p - 1
    <2>1. /\ P[p].side = side /\ P[p].link = p - 1 /\ P[p].reduced = 0 /\ Len(P[p].recvs) = 1
      BY <1>2 DEF AlonePart
    <2>2. p - 1 \in 0..(Links - 1)
      BY <1>2, <1>3
    <2>3. \A k \in 1..P[p].reduced : P[p].recvs[k][2] - P[p].recvs[k][1] <= MaxBuffer
      BY <2>1
    <2>4. \A i, j \in 1..Len(P[p].recvs) :
            i # j /\ Near(i, j, P[p].lag) => Apart(P[p].recvs[i], P[p].recvs[j])
      <3>1. 1..Len(P[p].recvs) = 1..1
        BY <2>1
      <3>2. \A i, j \in 1..1 : i = j
        OBVIOUS
      <3> QED
        BY <3>1, <3>2
    <2> QED
      BY <2>1, <2>2, <2>3, <2>4 DEF PartFits
  <1>6. \A p, q \in DOMAIN P : P[p].link = P[q].link => p = q
    BY <1>2, <1>5
  <1>7. ASSUME NEW p \in DOMAIN P, NEW q \in DOMAIN P, NEW e \in Int, Concerns(P[p], e), Concerns(P[q], e)
        PROVE  p = q
    BY <1>2, <1>7, ChunkOne
  <1> QED
    BY <1>3, <1>4, <1>5, <1>6, <1>7 DEF Fits

LEMMA AloneConcerns ==
  ASSUME NEW mine, NEW n, NEW i, NEW side, AlonePart(mine, n, i, side), NEW e
  PROVE  Concerns(mine, e) <=> e \in Covers(mine.sends[1]) \cup Covers(mine.recvs[1])
  BY DEF Concerns, AlonePart

LEMMA NothingCovers == Covers(<<0, 0>>) = {}
  BY DEF Covers

LEMMA SendFits ==
  ASSUME NEW r, NEW other, NEW n \in Nat \ {0}
  PROVE  /\ Fits(SendParts(r, other, n)) /\ DOMAIN SendParts(r, other, n) # {}
         /\ Fits(RecvParts(r, other, n)) /\ DOMAIN RecvParts(r, other, n) # {}
  <1>1. PICK P : P = SendParts(r, other, n)
    OBVIOUS
  <1>2. /\ P = [i \in DOMAIN Chunks(n) |-> P[i]]
        /\ \A i \in DOMAIN Chunks(n) :
             /\ AlonePart(P[i], n, i, Toward(r, other))
             /\ P[i].sends[1] = Chunks(n)[i] /\ P[i].recvs[1] = <<0, 0>>
    BY <1>1, SendPart
  <1>3. \A i \in DOMAIN Chunks(n) : \A e \in Int : Concerns(P[i], e) => e \in Covers(Chunks(n)[i])
    BY <1>2, AloneConcerns, NothingCovers
  <1>4. Toward(r, other) \in {"left", "right"}
    BY DEF Toward
  <1>5. Fits(P) /\ DOMAIN P # {}
    BY <1>2, <1>3, <1>4, AloneFits
  <1>6. PICK Q : Q = RecvParts(r, other, n)
    OBVIOUS
  <1>7. PICK side : side = IF other = Left(r) THEN "right" ELSE "left"
    OBVIOUS
  <1>8. /\ Q = [i \in DOMAIN Chunks(n) |-> Q[i]]
        /\ \A i \in DOMAIN Chunks(n) :
             /\ AlonePart(Q[i], n, i, side)
             /\ Q[i].sends[1] = <<0, 0>> /\ Q[i].recvs[1] = Chunks(n)[i]
    BY <1>6, <1>7, RecvPart
  <1>9. \A i \in DOMAIN Chunks(n) : \A e \in Int : Concerns(Q[i], e) => e \in Covers(Chunks(n)[i])
    BY <1>8, AloneConcerns, NothingCovers
  <1>10. side \in {"left", "right"}
    BY <1>7
  <1>11. Fits(Q) /\ DOMAIN Q # {}
    BY <1>8, <1>9, <1>10, AloneFits
  <1> QED
    BY <1>1, <1>5, <1>6, <1>11

-----------------------------------------------------------------------------
(* What the state machine needs of a call.                                   *)
Toll(r, side) == IF side = "right" THEN Right(r) ELSE Left(r)

LEMMA ToAndFrom ==
  ASSUME NEW r \in Rank, NEW side
  PROVE  /\ Toll(r, side) \in Rank /\ From(r, side) \in Rank
         /\ From(Toll(r, side), side) = r /\ Toll(From(r, side), side) = r
  BY Neighbours DEF Toll, From

Fed(c, r, p, k, e) ==
  LET mine == Parts(c, r)[p]
      l == From(r, mine.side)
      theirs == Parts(c, l)[p]
  IN  /\ l \in Rank /\ p \in DOMAIN Parts(c, l)
      /\ theirs.side = mine.side /\ theirs.link = mine.link
      /\ k \in 1..Len(theirs.sends) /\ theirs.sends[k] = mine.recvs[k]
      /\ HeldNext(c, r, l, mine, theirs, k, e)

Feeds(c, l, p, k) ==
  LET theirs == Parts(c, l)[p]
      r == Toll(l, theirs.side)
      mine == Parts(c, r)[p]
  IN  /\ r \in Rank /\ p \in DOMAIN Parts(c, r)
      /\ theirs.side = mine.side /\ theirs.link = mine.link
      /\ k \in 1..Len(mine.recvs) /\ theirs.sends[k] = mine.recvs[k]

ResultLength(c) == Calls[c].n * (IF Calls[c].kind = "all_gather" THEN Size ELSE 1)

Yields(c, r) ==
  /\ Group!Returned(c, r) = [e \in 1..ResultLength(c) |-> Group!Returned(c, r)[e]]
  /\ ResultLength(c) \in Nat \ {0}
  /\ ResultLength(c) <= Len(Prepared(c, r))
  /\ \A e \in 1..ResultLength(c) : \E p \in DOMAIN Parts(c, r) :
       /\ Concerns(Parts(c, r)[p], e)
       /\ Held(c, r, Parts(c, r)[p], Covering(Parts(c, r)[p], e), e) = Group!Returned(c, r)[e]

Wants(c, r) ==
  \A q \in Group!Needed(c, r) : \E e \in 1..ResultLength(c) :
    \E x \in DOMAIN Group!Returned(c, r)[e] : x[1] = c /\ x[2] = q

-----------------------------------------------------------------------------
ReduceLaid(c, n, C, F) ==
  /\ LaidOut(F, C, Larger(n, Size), n)
  /\ \A r : Parts(c, r) =
       [p \in 1..C |-> ReducePart(r, F[p].n, F[p].offset, F[p].d, F[p].link)]

LEMMA ReduceParted ==
  ASSUME NEW c \in 1..Len(Calls), Calls[c].kind = "all_reduce", NEW n, n = Calls[c].n
  PROVE  \E C, F : ReduceLaid(c, n, C, F)
  <1>1. n \in Nat \ {0}
    BY CallIs
  <1>2. ASSUME NEW r
        PROVE  Parts(c, r) = ReduceParts(r, n)
    <2>1. Takes(c, r)
      BY DEF Takes
    <2> QED
      BY <2>1 DEF Parts
  <1>3. PICK C, F : ReduceBy(n, C, F)
    BY <1>1, ReduceLayout
  <1> QED
    <2>1. /\ LaidOut(F, C, Larger(n, Size), n)
          /\ \A r : ReduceParts(r, n) =
               [p \in 1..C |-> ReducePart(r, F[p].n, F[p].offset, F[p].d, F[p].link)]
      BY <1>3 DEF ReduceBy
    <2>2. \A r : Parts(c, r) =
             [p \in 1..C |-> ReducePart(r, F[p].n, F[p].offset, F[p].d, F[p].link)]
      BY <1>2, <2>1, Zenon
    <2> QED
      BY <2>1, <2>2 DEF ReduceLaid

Steps(n) == Packets(n) * (2 * (Size - 1))

LEMMA ReduceLength ==
  ASSUME NEW r \in Rank, NEW n \in Nat \ {0}, NEW offset \in Nat, NEW d \in {-1, 1}, NEW link,
         NEW mine, mine = ReducePart(r, n, offset, d, link)
  PROVE  Len(mine.sends) = Steps(n) /\ Len(mine.recvs) = Steps(n)
  <1>1. r \in Int
    BY RankIs
  <1> QED
    BY <1>1, ReducePlan DEF Steps

LEMMA ReduceMates ==
  ASSUME NEW r \in Rank, NEW n \in Nat \ {0}, NEW offset \in Nat, NEW d \in {-1, 1}, NEW link,
         NEW mine, mine = ReducePart(r, n, offset, d, link),
         NEW l, l = From(r, mine.side),
         NEW theirs, theirs = ReducePart(l, n, offset, d, link)
  PROVE  l \in Rank /\ MateOf(mine, theirs)
  <1>1. l \in Rank
    BY FromIs
  <1>2. theirs.side = mine.side /\ theirs.link = mine.link
    BY DEF ReducePart
  <1>3. Len(mine.sends) = Steps(n) /\ Len(mine.recvs) = Steps(n)
    BY ReduceLength
  <1>4. Len(theirs.sends) = Steps(n) /\ Len(theirs.recvs) = Steps(n)
    BY <1>1, ReduceLength
  <1>5. ASSUME NEW k \in 1..Len(mine.sends)
        PROVE  theirs.sends[k] = mine.recvs[k]
    BY ReduceMate
  <1> QED
    BY <1>1, <1>2, <1>3, <1>4, <1>5 DEF MateOf

LEMMA ReduceStart ==
  ASSUME NEW c \in 1..Len(Calls), Calls[c].kind = "all_reduce", NEW n, n = Calls[c].n,
         NEW r \in Rank, NEW f \in Layout, f.offset + f.n <= Larger(n, Size), NEW e \in Int, In(f, e)
  PROVE  Prepared(c, r)[e] = Summed(c, {r}, e)
  <1>1. n \in Nat /\ Size \in Nat
    BY CallIs, RingPlanAssumption
  <1>2. PICK L : L = Larger(n, Size)
    OBVIOUS
  <1>3. L \in Nat
    BY <1>1, <1>2 DEF Larger
  <1>4. e \in 1..L
    BY <1>2, <1>3 DEF In, Layout
  <1> QED
    BY <1>2, <1>4, ReducePrepared

LEMMA ReduceFed ==
  ASSUME NEW c \in 1..Len(Calls), Calls[c].kind = "all_reduce",
         NEW r \in Rank, NEW p \in DOMAIN Parts(c, r),
         NEW k \in 1..Len(Parts(c, r)[p].recvs), NEW e \in Covers(Parts(c, r)[p].recvs[k])
  PROVE  Fed(c, r, p, k, e)
  <1>1. PICK n : n = Calls[c].n
    OBVIOUS
  <1>21. PICK C, F : ReduceLaid(c, n, C, F)
    BY <1>1, ReduceParted
  <1>2. /\ LaidOut(F, C, Larger(n, Size), n)
        /\ \A q : Parts(c, q) =
             [x \in 1..C |-> ReducePart(q, F[x].n, F[x].offset, F[x].d, F[x].link)]
    BY <1>21 DEF ReduceLaid
  <1>3. PICK f, m, offset, d, link :
          f = F[p] /\ m = f.n /\ offset = f.offset /\ d = f.d /\ link = f.link
    OBVIOUS
  <1>4. p \in 1..C
    BY <1>2
  <1>5. f \in Layout /\ f.offset + f.n <= Larger(n, Size)
    BY <1>2, <1>3, <1>4 DEF LaidOut
  <1>6. m \in Nat \ {0} /\ offset \in Nat /\ d \in {-1, 1}
    BY <1>3, <1>5 DEF Layout
  <1>7. PICK mine : mine = Parts(c, r)[p]
    OBVIOUS
  <1>8. PICK l : l = From(r, mine.side)
    OBVIOUS
  <1>9. PICK theirs : theirs = Parts(c, l)[p]
    OBVIOUS
  <1>10. mine = ReducePart(r, m, offset, d, link) /\ theirs = ReducePart(l, m, offset, d, link)
    BY <1>2, <1>3, <1>4, <1>7, <1>9
  <1>11. l \in Rank /\ MateOf(mine, theirs)
    BY <1>6, <1>8, <1>10, ReduceMates
  <1>12. Len(mine.recvs) = Len(mine.sends)
    BY <1>11 DEF MateOf
  <1>13. k \in 1..Len(mine.recvs) /\ e \in Covers(mine.recvs[k])
    BY <1>7
  <1>14. k \in 1..Len(mine.sends)
    BY <1>12, <1>13
  <1>15. p \in DOMAIN Parts(c, l)
    BY <1>2, <1>4
  <1>16. e \in Int
    BY <1>13 DEF Covers
  <1>17. In(f, e)
    <2>1. Concerns(mine, e)
      BY <1>12, <1>13 DEF Concerns
    <2>2. offset < e /\ e <= offset + m
      BY <1>6, <1>10, <1>16, <2>1, ReduceMoves
    <2> QED
      BY <1>3, <2>2 DEF In
  <1>18. Prepared(c, r)[e] = Summed(c, {r}, e)
    BY <1>1, <1>5, <1>16, <1>17, ReduceStart
  <1>19. Prepared(c, l)[e] = Summed(c, {l}, e)
    BY <1>1, <1>5, <1>11, <1>16, <1>17, ReduceStart
  <1>20. HeldNext(c, r, l, mine, theirs, k, e)
    BY <1>6, <1>8, <1>10, <1>13, <1>18, <1>19, ReduceHeld
  <1> QED
    BY <1>7, <1>8, <1>9, <1>11, <1>14, <1>15, <1>20 DEF Fed, MateOf

LEMMA ReduceFeeds ==
  ASSUME NEW c \in 1..Len(Calls), Calls[c].kind = "all_reduce",
         NEW l \in Rank, NEW p \in DOMAIN Parts(c, l),
         NEW k \in 1..Len(Parts(c, l)[p].sends)
  PROVE  Feeds(c, l, p, k)
  <1>1. PICK n : n = Calls[c].n
    OBVIOUS
  <1>21. PICK C, F : ReduceLaid(c, n, C, F)
    BY <1>1, ReduceParted
  <1>2. /\ LaidOut(F, C, Larger(n, Size), n)
        /\ \A q : Parts(c, q) =
             [x \in 1..C |-> ReducePart(q, F[x].n, F[x].offset, F[x].d, F[x].link)]
    BY <1>21 DEF ReduceLaid
  <1>3. PICK f, m, offset, d, link :
          f = F[p] /\ m = f.n /\ offset = f.offset /\ d = f.d /\ link = f.link
    OBVIOUS
  <1>4. p \in 1..C
    BY <1>2
  <1>5. f \in Layout
    BY <1>2, <1>3, <1>4 DEF LaidOut
  <1>6. m \in Nat \ {0} /\ offset \in Nat /\ d \in {-1, 1}
    BY <1>3, <1>5 DEF Layout
  <1>7. PICK theirs : theirs = Parts(c, l)[p]
    OBVIOUS
  <1>8. PICK r : r = Toll(l, theirs.side)
    OBVIOUS
  <1>9. PICK mine : mine = Parts(c, r)[p]
    OBVIOUS
  <1>10. mine = ReducePart(r, m, offset, d, link) /\ theirs = ReducePart(l, m, offset, d, link)
    BY <1>2, <1>3, <1>4, <1>7, <1>9
  <1>11. r \in Rank /\ From(r, theirs.side) = l
    BY <1>8, ToAndFrom
  <1>12. mine.side = theirs.side
    BY <1>10 DEF ReducePart
  <1>13. Len(mine.sends) = Len(theirs.sends) /\ MateOf(mine, theirs)
    <2>1. l = From(r, mine.side)
      BY <1>11, <1>12
    <2>2. MateOf(mine, theirs)
      BY <1>6, <1>10, <1>11, <2>1, ReduceMates
    <2> QED
      BY <2>2 DEF MateOf
  <1>14. k \in 1..Len(mine.sends)
    BY <1>7, <1>13
  <1>15. /\ mine.link = theirs.link
         /\ Len(mine.recvs) = Len(mine.sends) /\ theirs.sends[k] = mine.recvs[k]
    BY <1>13, <1>14 DEF MateOf
  <1>16. p \in DOMAIN Parts(c, r)
    BY <1>2, <1>4
  <1> QED
    BY <1>7, <1>8, <1>9, <1>11, <1>12, <1>14, <1>15, <1>16 DEF Feeds

LEMMA ReduceYields ==
  ASSUME NEW c \in 1..Len(Calls), Calls[c].kind = "all_reduce", NEW r \in Rank
  PROVE  Yields(c, r) /\ Wants(c, r)
  <1>1. PICK n : n = Calls[c].n
    OBVIOUS
  <1>2. n \in Nat \ {0} /\ Size \in Nat /\ ResultLength(c) = n
    BY <1>1, CallIs, RingPlanAssumption DEF ResultLength
  <1>9. PICK C, F : ReduceLaid(c, n, C, F)
    BY <1>1, ReduceParted
  <1>3. /\ LaidOut(F, C, Larger(n, Size), n)
        /\ \A q : Parts(c, q) =
             [x \in 1..C |-> ReducePart(q, F[x].n, F[x].offset, F[x].d, F[x].link)]
    BY <1>9 DEF ReduceLaid
  <1>4. /\ Group!Returned(c, r) = [e \in 1..n |-> Group!Returned(c, r)[e]]
        /\ \A e \in 1..n : Group!Returned(c, r)[e] = SetToBag({<<c, q, e>> : q \in Rank})
    <2>1. Group!Returned(c, r) = [e \in 1..n |-> Group!SetToBag({<<c, q, e>> : q \in Group!Rank})]
      BY <1>1 DEF Group!Returned
    <2>2. Group!Rank = Rank
      BY DEF Group!Rank, Rank
    <2>3. ASSUME NEW e \in 1..n
          PROVE  Group!Returned(c, r)[e] = SetToBag({<<c, q, e>> : q \in Rank})
      BY <2>1, <2>2, GroupBags
    <2> QED
      BY <2>1, <2>3
  <1>5. n <= Len(Prepared(c, r))
    <2>1. Len(Prepared(c, r)) = Larger(n, Size)
      BY <1>1, ReducePrepared
    <2> QED
      BY <1>2, <2>1 DEF Larger
  <1>6. ASSUME NEW e \in 1..n
        PROVE  \E p \in DOMAIN Parts(c, r) :
                 /\ Concerns(Parts(c, r)[p], e)
                 /\ Held(c, r, Parts(c, r)[p], Covering(Parts(c, r)[p], e), e) = Group!Returned(c, r)[e]
    <2>1. PICK p \in 1..C : In(F[p], e)
      BY <1>3 DEF LaidOut
    <2>2. PICK f, m, offset, d, link :
            f = F[p] /\ m = f.n /\ offset = f.offset /\ d = f.d /\ link = f.link
      OBVIOUS
    <2>3. f \in Layout
      BY <1>3, <2>2 DEF LaidOut
    <2>4. m \in Nat \ {0} /\ offset \in Nat /\ d \in {-1, 1} /\ e \in Int
      BY <1>2, <2>2, <2>3 DEF Layout
    <2>5. offset < e /\ e <= offset + m
      BY <2>1, <2>2 DEF In
    <2>6. PICK mine : mine = Parts(c, r)[p]
      OBVIOUS
    <2>7. mine = ReducePart(r, m, offset, d, link)
      BY <1>3, <2>2, <2>6
    <2>8. Concerns(mine, e)
      BY <2>4, <2>5, <2>7, ReduceMoves
    <2>9. Held(c, r, mine, Covering(mine, e), e) = Summed(c, Rank, e)
      BY <2>4, <2>5, <2>7, ReduceAll
    <2>10. Summed(c, Rank, e) = Group!Returned(c, r)[e]
      <3>1. e <= Calls[c].n
        BY <1>1, <1>2
      <3>2. Summed(c, Rank, e) = SetToBag({<<c, q, e>> : q \in Rank})
        BY <3>1 DEF Summed
      <3> QED
        BY <1>4, <3>2
    <2>11. p \in DOMAIN Parts(c, r)
      BY <1>3
    <2> QED
      BY <2>6, <2>8, <2>9, <2>10, <2>11
  <1>7. ASSUME NEW q \in Group!Needed(c, r)
        PROVE  \E e \in 1..n : \E x \in DOMAIN Group!Returned(c, r)[e] : x[1] = c /\ x[2] = q
    <2>1. q \in Rank
      BY <1>7 DEF Group!Needed, Group!Rank, Rank
    <2>2. PICK e : e = 1
      OBVIOUS
    <2>3. e \in 1..n
      BY <1>2, <2>2
    <2>4. Group!Returned(c, r)[e] = SetToBag({<<c, g, e>> : g \in Rank})
      BY <1>4, <2>3
    <2>5. <<c, q, e>> \in DOMAIN Group!Returned(c, r)[e]
      BY <2>1, <2>4 DEF SetToBag
    <2>6. <<c, q, e>>[1] = c /\ <<c, q, e>>[2] = q
      OBVIOUS
    <2> QED
      BY <2>3, <2>5, <2>6
  <1>8. Group!Returned(c, r) = [e \in 1..n |-> Group!Returned(c, r)[e]]
    BY <1>4
  <1> QED
    BY <1>2, <1>5, <1>6, <1>7, <1>8 DEF Yields, Wants

GatherLaid(c, n, C, F) ==
  /\ Stretched(F, C, n)
  /\ \A r : Parts(c, r) = [p \in 1..C |-> GatherPart(r, n, F[p])]

LEMMA GatherParted ==
  ASSUME NEW c \in 1..Len(Calls), Calls[c].kind = "all_gather", NEW n, n = Calls[c].n
  PROVE  \E C, F : GatherLaid(c, n, C, F)
  <1>1. n \in Nat \ {0}
    BY CallIs
  <1>2. ASSUME NEW r
        PROVE  Parts(c, r) = GatherParts(r, n)
    <2>1. Takes(c, r) /\ Calls[c].kind # "all_reduce"
      BY DEF Takes
    <2> QED
      BY <2>1 DEF Parts
  <1>3. PICK C, F : /\ Stretched(F, C, n)
                    /\ \A q : GatherParts(q, n) = [p \in 1..C |-> GatherPart(q, n, F[p])]
    BY <1>1, GatherLayout
  <1>4. \A r : Parts(c, r) = [p \in 1..C |-> GatherPart(r, n, F[p])]
    BY <1>2, <1>3, Zenon
  <1> QED
    BY <1>3, <1>4 DEF GatherLaid

LEMMA GatherFed ==
  ASSUME NEW c \in 1..Len(Calls), Calls[c].kind = "all_gather",
         NEW r \in Rank, NEW p \in DOMAIN Parts(c, r),
         NEW k \in 1..Len(Parts(c, r)[p].recvs), NEW e \in Covers(Parts(c, r)[p].recvs[k])
  PROVE  Fed(c, r, p, k, e)
  <1>1. PICK n : n = Calls[c].n
    OBVIOUS
  <1>2. PICK C, F : GatherLaid(c, n, C, F)
    BY <1>1, GatherParted
  <1>3. /\ Stretched(F, C, n)
        /\ \A q : Parts(c, q) = [x \in 1..C |-> GatherPart(q, n, F[x])]
    BY <1>2 DEF GatherLaid
  <1>4. p \in 1..C
    BY <1>3
  <1>5. PICK f : f = F[p]
    OBVIOUS
  <1>6. f \in Stretch /\ f.hi <= n /\ n \in Nat \ {0}
    BY <1>1, <1>3, <1>4, <1>5, CallIs DEF Stretched
  <1>7. PICK mine : mine = Parts(c, r)[p]
    OBVIOUS
  <1>8. PICK l : l = From(r, mine.side)
    OBVIOUS
  <1>9. PICK theirs : theirs = Parts(c, l)[p]
    OBVIOUS
  <1>10. mine = GatherPart(r, n, f) /\ theirs = GatherPart(l, n, f)
    BY <1>3, <1>4, <1>5, <1>7, <1>9
  <1>11. l \in Rank /\ MateOf(mine, theirs)
    BY <1>6, <1>8, <1>10, GatherMate
  <1>12. k \in 1..Len(mine.recvs) /\ e \in Covers(mine.recvs[k])
    BY <1>7
  <1>13. HeldNext(c, r, l, mine, theirs, k, e)
    BY <1>1, <1>6, <1>8, <1>10, <1>12, GatherHeld
  <1>14. p \in DOMAIN Parts(c, l)
    BY <1>3, <1>4
  <1> QED
    BY <1>7, <1>8, <1>9, <1>11, <1>12, <1>13, <1>14 DEF Fed, MateOf

LEMMA GatherFeeds ==
  ASSUME NEW c \in 1..Len(Calls), Calls[c].kind = "all_gather",
         NEW l \in Rank, NEW p \in DOMAIN Parts(c, l),
         NEW k \in 1..Len(Parts(c, l)[p].sends)
  PROVE  Feeds(c, l, p, k)
  <1>1. PICK n : n = Calls[c].n
    OBVIOUS
  <1>2. PICK C, F : GatherLaid(c, n, C, F)
    BY <1>1, GatherParted
  <1>3. /\ Stretched(F, C, n)
        /\ \A q : Parts(c, q) = [x \in 1..C |-> GatherPart(q, n, F[x])]
    BY <1>2 DEF GatherLaid
  <1>4. p \in 1..C
    BY <1>3
  <1>5. PICK f : f = F[p]
    OBVIOUS
  <1>6. f \in Stretch /\ f.hi <= n /\ n \in Nat \ {0}
    BY <1>1, <1>3, <1>4, <1>5, CallIs DEF Stretched
  <1>7. PICK theirs : theirs = Parts(c, l)[p]
    OBVIOUS
  <1>8. PICK r : r = Toll(l, theirs.side)
    OBVIOUS
  <1>9. PICK mine : mine = Parts(c, r)[p]
    OBVIOUS
  <1>10. mine = GatherPart(r, n, f) /\ theirs = GatherPart(l, n, f)
    BY <1>3, <1>4, <1>5, <1>7, <1>9
  <1>11. r \in Rank /\ From(r, theirs.side) = l
    BY <1>8, ToAndFrom
  <1>12. mine.side = theirs.side
    BY <1>10 DEF GatherPart
  <1>13. MateOf(mine, theirs)
    <2>1. l = From(r, mine.side)
      BY <1>11, <1>12
    <2> QED
      BY <1>6, <1>10, <1>11, <2>1, GatherMate
  <1>14. k \in 1..Len(theirs.sends)
    BY <1>7
  <1>15. p \in DOMAIN Parts(c, r)
    BY <1>3, <1>4
  <1> QED
    BY <1>7, <1>8, <1>9, <1>11, <1>13, <1>14, <1>15 DEF Feeds, MateOf

LEMMA GatherYields ==
  ASSUME NEW c \in 1..Len(Calls), Calls[c].kind = "all_gather", NEW r \in Rank
  PROVE  Yields(c, r) /\ Wants(c, r)
  <1>1. PICK n : n = Calls[c].n
    OBVIOUS
  <1>2. n \in Nat \ {0} /\ Size \in Nat \ {0}
    BY <1>1, CallIs, RingPlanAssumption
  <1>3. PICK C, F : GatherLaid(c, n, C, F)
    BY <1>1, GatherParted
  <1>4. /\ Stretched(F, C, n)
        /\ \A q : Parts(c, q) = [x \in 1..C |-> GatherPart(q, n, F[x])]
    BY <1>3 DEF GatherLaid
  <1>5. PICK w : w = Size * n
    OBVIOUS
  <1>6. w \in Nat \ {0}
    BY <1>2, <1>5
  <1>7. ResultLength(c) = w
    <2>1. ResultLength(c) = n * Size
      BY <1>1 DEF ResultLength
    <2> QED
      BY <1>2, <1>5, <2>1
  <1>8. Group!Returned(c, r) = [e \in 1..w |-> Group!Returned(c, r)[e]]
    <2>1. Calls[c].kind # "all_reduce"
      OBVIOUS
    <2>2. Group!Returned(c, r) =
            [x \in 1..(Size * n) |-> Group!Input(c, (x - 1) \div n)[((x - 1) % n) + 1]]
      BY <1>1, <2>1 DEF Group!Returned
    <2> QED
      BY <1>5, <2>2
  <1>9. Len(Prepared(c, r)) = w
    BY <1>1, <1>5, GatherPrepared
  <1>10. ASSUME NEW e \in 1..w
         PROVE  \E p \in DOMAIN Parts(c, r) :
                  /\ Concerns(Parts(c, r)[p], e)
                  /\ Held(c, r, Parts(c, r)[p], Covering(Parts(c, r)[p], e), e) = Group!Returned(c, r)[e]
    <2>1. PICK s \in Rank : \E y \in 1..n : e = s * n + y
      BY <1>2, <1>5, PlaceSome
    <2>2. PICK y \in 1..n : e = s * n + y
      BY <2>1
    <2>3. PICK p \in 1..C : F[p].lo < y /\ y <= F[p].hi
      BY <1>4 DEF Stretched
    <2>4. PICK f : f = F[p]
      OBVIOUS
    <2>5. f \in Stretch /\ f.hi <= n
      BY <1>4, <2>4 DEF Stretched
    <2>6. StretchOf(n, f, s, e)
      BY <2>2, <2>3, <2>4 DEF StretchOf
    <2>7. PICK mine : mine = Parts(c, r)[p]
      OBVIOUS
    <2>8. mine = GatherPart(r, n, f)
      BY <1>4, <2>4, <2>7
    <2>9. Concerns(mine, e) /\ Held(c, r, mine, Covering(mine, e), e) = Group!Returned(c, r)[e]
      BY <1>1, <2>5, <2>6, <2>8, GatherAll
    <2>10. p \in DOMAIN Parts(c, r)
      BY <1>4
    <2> QED
      BY <2>7, <2>9, <2>10
  <1>11. ASSUME NEW q \in Group!Needed(c, r)
         PROVE  \E e \in 1..w : \E x \in DOMAIN Group!Returned(c, r)[e] : x[1] = c /\ x[2] = q
    <2>1. q \in Rank
      BY <1>11 DEF Group!Needed, Group!Rank, Rank
    <2>7. 1 \in 1..n
      BY <1>2
    <2>3. PICK y : y \in 1..n
      BY <2>7
    <2>2. PICK e : e = q * n + y
      OBVIOUS
    <2>4. e \in 1..(Size * n) /\ Group!Returned(c, r)[e] = SetToBag({<<c, q, y>>})
      <3>1. GatheredAt(c, r, n, q, y, e)
        BY <1>1, <2>1, <2>2, <2>3, GatherReturned
      <3> QED
        BY <3>1 DEF GatheredAt
    <2>5. <<c, q, y>> \in DOMAIN Group!Returned(c, r)[e]
      BY <2>4 DEF SetToBag
    <2>6. <<c, q, y>>[1] = c /\ <<c, q, y>>[2] = q
      OBVIOUS
    <2> QED
      BY <1>5, <2>4, <2>5, <2>6
  <1>12. w <= Len(Prepared(c, r))
    BY <1>6, <1>9
  <1> QED
    BY <1>6, <1>7, <1>8, <1>10, <1>11, <1>12 DEF Yields, Wants

(* The two ends of a send.                                                   *)
Between(src, dst) == IF dst = Right(src) THEN "right" ELSE "left"

Ends(c, src, dst, n) ==
  /\ src \in Rank /\ dst \in Rank /\ src # dst
  /\ From(dst, Between(src, dst)) = src /\ Toll(src, Between(src, dst)) = dst
  /\ \A r : r # src /\ r # dst => ~ Takes(c, r) /\ Parts(c, r) = <<>>
  /\ Parts(c, src) = SendParts(src, dst, n) /\ Parts(c, dst) = RecvParts(dst, src, n)
  /\ DOMAIN Parts(c, src) = DOMAIN Chunks(n) /\ DOMAIN Parts(c, dst) = DOMAIN Chunks(n)
  /\ \A i \in DOMAIN Chunks(n) :
       /\ AlonePart(Parts(c, src)[i], n, i, Between(src, dst))
       /\ AlonePart(Parts(c, dst)[i], n, i, Between(src, dst))
       /\ Parts(c, src)[i].sends[1] = Chunks(n)[i] /\ Parts(c, src)[i].recvs[1] = <<0, 0>>
       /\ Parts(c, dst)[i].sends[1] = <<0, 0>> /\ Parts(c, dst)[i].recvs[1] = Chunks(n)[i]

LEMMA SendEnds ==
  ASSUME NEW c \in 1..Len(Calls), Calls[c].kind = "send", NEW n, n = Calls[c].n,
         NEW src, src = Calls[c].src, NEW dst, dst = Calls[c].dst
  PROVE  Ends(c, src, dst, n)
  <1>1. n \in Nat \ {0}
    BY CallIs
  <1>2. src \in Rank /\ dst \in Rank /\ dst \in {Left(src), Right(src)}
    <2>1. Calls[c] \in [kind : {"all_reduce", "all_gather", "send"}, n : Nat \ {0}, src : Rank, dst : Rank]
      BY RingAssumption, ElementOfSeq
    <2>2. DOMAIN Calls = 1..Len(Calls)
      BY RingAssumption, LenProperties
    <2> QED
      BY <2>1, <2>2, RingAssumption
  <1>3. /\ src # dst /\ Left(Right(src)) = src /\ Right(Left(src)) = src
        /\ Left(Right(dst)) = dst /\ Right(Left(dst)) = dst
    BY <1>2, Neighbours
  <1>4. PICK side : side = Between(src, dst)
    OBVIOUS
  <1>5. From(dst, side) = src /\ Toll(src, side) = dst
    BY <1>2, <1>3, <1>4 DEF Between, From, Toll
  <1>6. (IF src = Left(dst) THEN "right" ELSE "left") = side /\ Toward(src, dst) = side
    BY <1>2, <1>3, <1>4 DEF Between, Toward
  <1>7. ASSUME NEW r, r # src, r # dst
        PROVE  ~ Takes(c, r) /\ Parts(c, r) = <<>>
    <2>1. ~ Takes(c, r)
      BY <1>7 DEF Takes
    <2>2. Calls[c].kind # "all_reduce" /\ Calls[c].kind # "all_gather" /\ r # Calls[c].src
      BY <1>7
    <2>3. Parts(c, r) = <<>>
      BY <2>1, <2>2 DEF Parts
    <2> QED
      BY <2>1, <2>3
  <1>8. Takes(c, src) /\ Takes(c, dst)
    BY DEF Takes
  <1>9. Parts(c, src) = SendParts(src, dst, n)
    BY <1>8 DEF Parts
  <1>10. Parts(c, dst) = RecvParts(dst, src, n)
    BY <1>3, <1>8 DEF Parts
  <1>11. PICK P : P = SendParts(src, dst, n)
    OBVIOUS
  <1>12. PICK Q : Q = RecvParts(dst, src, n)
    OBVIOUS
  <1>13. /\ P = [i \in DOMAIN Chunks(n) |-> P[i]]
         /\ \A i \in DOMAIN Chunks(n) :
              /\ AlonePart(P[i], n, i, Toward(src, dst))
              /\ P[i].sends[1] = Chunks(n)[i] /\ P[i].recvs[1] = <<0, 0>>
    BY <1>1, <1>11, SendPart
  <1>14. /\ Q = [i \in DOMAIN Chunks(n) |-> Q[i]]
         /\ \A i \in DOMAIN Chunks(n) :
              /\ AlonePart(Q[i], n, i, IF src = Left(dst) THEN "right" ELSE "left")
              /\ Q[i].sends[1] = <<0, 0>> /\ Q[i].recvs[1] = Chunks(n)[i]
    BY <1>1, <1>12, RecvPart
  <1>15. DOMAIN P = DOMAIN Chunks(n) /\ DOMAIN Q = DOMAIN Chunks(n)
    BY <1>13, <1>14
  <1>16. \A i \in DOMAIN Chunks(n) : AlonePart(P[i], n, i, side) /\ AlonePart(Q[i], n, i, side)
    BY <1>6, <1>13, <1>14
  <1>17. Parts(c, src) = P /\ Parts(c, dst) = Q
    BY <1>9, <1>10, <1>11, <1>12
  <1>18. \A i \in DOMAIN Chunks(n) :
           /\ AlonePart(P[i], n, i, side) /\ AlonePart(Q[i], n, i, side)
           /\ P[i].sends[1] = Chunks(n)[i] /\ P[i].recvs[1] = <<0, 0>>
           /\ Q[i].sends[1] = <<0, 0>> /\ Q[i].recvs[1] = Chunks(n)[i]
    BY <1>13, <1>14, <1>16
  <1> QED
    BY <1>2, <1>3, <1>4, <1>5, <1>7, <1>9, <1>10, <1>15, <1>17, <1>18 DEF Ends

SentAs(c, src, n, r) ==
  /\ Group!Returned(c, r) = [e \in 1..n |-> SetToBag({<<c, src, e>>})]
  /\ Prepared(c, src) = [e \in 1..n |-> SetToBag({<<c, src, e>>})]

LEMMA SendReturned ==
  ASSUME NEW c, Calls[c].kind = "send", NEW src, src = Calls[c].src, NEW n, n = Calls[c].n, NEW r
  PROVE  SentAs(c, src, n, r)
  <1>1. Calls[c].kind # "all_reduce" /\ Calls[c].kind # "all_gather"
    OBVIOUS
  <1>2. Group!Returned(c, r) = Group!Input(c, src)
    BY <1>1 DEF Group!Returned
  <1>3. Group!Input(c, src) = [e \in 1..n |-> SetToBag({<<c, src, e>>})]
    <2>1. \A e \in 1..n : Group!SetToBag({<<c, src, e>>}) = SetToBag({<<c, src, e>>})
      BY GroupBags
    <2>2. Group!Input(c, src) = [e \in 1..n |-> Group!SetToBag({<<c, src, e>>})]
      BY DEF Group!Input
    <2> QED
      BY <2>1, <2>2
  <1>4. Prepared(c, src) = Input(c, src)
    BY <1>1 DEF Prepared
  <1> QED
    BY <1>2, <1>3, <1>4 DEF Input, SentAs

(* What has arrived of a send, or is there from the beginning.               *)
LEMMA SendHeld ==
  ASSUME NEW c, Calls[c].kind = "send", NEW src, src = Calls[c].src, NEW r, NEW mine, NEW T, NEW e,
         T # {} \/ r = src
  PROVE  Held(c, r, mine, T, e) = Group!Returned(c, r)[e]
  <1>1. Calls[c].kind # "all_reduce"
    OBVIOUS
  <1>2. CASE T # {}
    BY <1>1, <1>2 DEF Held
  <1>3. CASE T = {} /\ r = src
    <2>1. Held(c, r, mine, T, e) = Prepared(c, src)[e]
      BY <1>3 DEF Held
    <2>2. Prepared(c, src) = Group!Returned(c, r)
      BY SendReturned DEF SentAs
    <2> QED
      BY <2>1, <2>2
  <1> QED
    BY <1>2, <1>3

LEMMA SendFed ==
  ASSUME NEW c \in 1..Len(Calls), Calls[c].kind = "send",
         NEW r \in Rank, NEW p \in DOMAIN Parts(c, r),
         NEW k \in 1..Len(Parts(c, r)[p].recvs), NEW e \in Covers(Parts(c, r)[p].recvs[k])
  PROVE  Fed(c, r, p, k, e)
  <1>1. PICK n, src, dst : n = Calls[c].n /\ src = Calls[c].src /\ dst = Calls[c].dst
    OBVIOUS
  <1>2. Ends(c, src, dst, n)
    BY <1>1, SendEnds
  <1>3. r = src \/ r = dst
    <2> SUFFICES ASSUME r # src, r # dst PROVE FALSE
      OBVIOUS
    <2>1. Parts(c, r) = <<>>
      BY <1>2 DEF Ends
    <2> QED
      BY <2>1
  <1>4. PICK mine : mine = Parts(c, r)[p]
    OBVIOUS
  <1>5. p \in DOMAIN Chunks(n) /\ AlonePart(mine, n, p, Between(src, dst))
    BY <1>2, <1>3, <1>4 DEF Ends
  <1>6. k = 1
    BY <1>4, <1>5 DEF AlonePart
  <1>7. r = dst
    <2> SUFFICES ASSUME r = src PROVE FALSE
      BY <1>3
    <2>1. mine.recvs[1] = <<0, 0>>
      BY <1>2, <1>4, <1>5 DEF Ends
    <2> QED
      BY <1>4, <1>6, <2>1, NothingCovers
  <1>8. PICK l : l = From(r, mine.side)
    OBVIOUS
  <1>9. l = src /\ l \in Rank
    BY <1>2, <1>5, <1>7, <1>8 DEF Ends, AlonePart
  <1>10. PICK theirs : theirs = Parts(c, l)[p]
    OBVIOUS
  <1>11. /\ p \in DOMAIN Parts(c, l) /\ AlonePart(theirs, n, p, Between(src, dst))
         /\ theirs.sends[1] = mine.recvs[1]
    BY <1>2, <1>4, <1>5, <1>7, <1>9, <1>10 DEF Ends
  <1>12. theirs.side = mine.side /\ theirs.link = mine.link /\ k \in 1..Len(theirs.sends)
    BY <1>5, <1>6, <1>11 DEF AlonePart
  <1>13. HeldNext(c, r, l, mine, theirs, k, e)
    <2>1. PICK T : T = {i \in Covering(mine, e) : i < k}
      OBVIOUS
    <2>2. Held(c, r, mine, T \cup {k}, e) = Group!Returned(c, r)[e]
      BY <1>1, SendHeld
    <2>3. Carried(c, l, theirs, k, e) = Group!Returned(c, l)[e]
      BY <1>1, <1>9, SendHeld DEF Carried
    <2>4. Group!Returned(c, l) = Group!Returned(c, r)
      <3>1. SentAs(c, src, n, l) /\ SentAs(c, src, n, r)
        BY <1>1, SendReturned
      <3> QED
        BY <3>1 DEF SentAs
    <2>5. ~ (k <= mine.reduced)
      BY <1>5, <1>6 DEF AlonePart
    <2> QED
      BY <2>1, <2>2, <2>3, <2>4, <2>5 DEF HeldNext
  <1> QED
    BY <1>4, <1>6, <1>8, <1>9, <1>10, <1>11, <1>12, <1>13 DEF Fed

LEMMA SendFeeds ==
  ASSUME NEW c \in 1..Len(Calls), Calls[c].kind = "send",
         NEW l \in Rank, NEW p \in DOMAIN Parts(c, l),
         NEW k \in 1..Len(Parts(c, l)[p].sends), NEW e \in Covers(Parts(c, l)[p].sends[k])
  PROVE  Feeds(c, l, p, k)
  <1>1. PICK n, src, dst : n = Calls[c].n /\ src = Calls[c].src /\ dst = Calls[c].dst
    OBVIOUS
  <1>2. Ends(c, src, dst, n)
    BY <1>1, SendEnds
  <1>3. l = src \/ l = dst
    <2> SUFFICES ASSUME l # src, l # dst PROVE FALSE
      OBVIOUS
    <2>1. Parts(c, l) = <<>>
      BY <1>2 DEF Ends
    <2> QED
      BY <2>1
  <1>4. PICK theirs : theirs = Parts(c, l)[p]
    OBVIOUS
  <1>5. p \in DOMAIN Chunks(n) /\ AlonePart(theirs, n, p, Between(src, dst))
    BY <1>2, <1>3, <1>4 DEF Ends
  <1>6. k = 1
    BY <1>4, <1>5 DEF AlonePart
  <1>7. l = src
    <2> SUFFICES ASSUME l = dst PROVE FALSE
      BY <1>3
    <2>1. theirs.sends[1] = <<0, 0>>
      BY <1>2, <1>4, <1>5 DEF Ends
    <2> QED
      BY <1>4, <1>6, <2>1, NothingCovers
  <1>8. PICK r : r = Toll(l, theirs.side)
    OBVIOUS
  <1>9. r = dst /\ r \in Rank
    BY <1>2, <1>5, <1>7, <1>8 DEF Ends, AlonePart
  <1>10. PICK mine : mine = Parts(c, r)[p]
    OBVIOUS
  <1>11. /\ p \in DOMAIN Parts(c, r) /\ AlonePart(mine, n, p, Between(src, dst))
         /\ theirs.sends[1] = mine.recvs[1]
    BY <1>2, <1>4, <1>5, <1>7, <1>9, <1>10 DEF Ends
  <1>12. theirs.side = mine.side /\ theirs.link = mine.link /\ k \in 1..Len(mine.recvs)
    BY <1>5, <1>6, <1>11 DEF AlonePart
  <1> QED
    BY <1>4, <1>6, <1>8, <1>9, <1>10, <1>11, <1>12 DEF Feeds

LEMMA SendYields ==
  ASSUME NEW c \in 1..Len(Calls), Calls[c].kind = "send", NEW r \in Rank, Takes(c, r)
  PROVE  Yields(c, r) /\ Wants(c, r)
  <1>1. PICK n, src, dst : n = Calls[c].n /\ src = Calls[c].src /\ dst = Calls[c].dst
    OBVIOUS
  <1>2. n \in Nat \ {0} /\ ResultLength(c) = n
    BY <1>1, CallIs DEF ResultLength
  <1>3. Ends(c, src, dst, n)
    BY <1>1, SendEnds
  <1>4. r = src \/ r = dst
    BY <1>1 DEF Takes
  <1>5. /\ Group!Returned(c, r) = [e \in 1..n |-> SetToBag({<<c, src, e>>})]
        /\ Prepared(c, src) = [e \in 1..n |-> SetToBag({<<c, src, e>>})]
    <2>1. SentAs(c, src, n, r)
      BY <1>1, SendReturned
    <2> QED
      BY <2>1 DEF SentAs
  <1>6. n <= Len(Prepared(c, r))
    <2>1. CASE r = src
      BY <1>2, <1>5, <2>1
    <2>2. CASE r # src
      <3>1. Prepared(c, r) = Blank(n)
        <4>1. Calls[c].kind # "all_reduce" /\ Calls[c].kind # "all_gather"
          OBVIOUS
        <4> QED
          BY <1>1, <2>2, <4>1 DEF Prepared
      <3> QED
        BY <1>2, <3>1, BlankIs
    <2> QED
      BY <2>1, <2>2
  <1>7. ASSUME NEW e \in 1..n
        PROVE  \E p \in DOMAIN Parts(c, r) :
                 /\ Concerns(Parts(c, r)[p], e)
                 /\ Held(c, r, Parts(c, r)[p], Covering(Parts(c, r)[p], e), e) = Group!Returned(c, r)[e]
    <2>1. PICK p \in DOMAIN Chunks(n) : e \in Covers(Chunks(n)[p])
      BY <1>2, ChunkSome
    <2>2. PICK mine : mine = Parts(c, r)[p]
      OBVIOUS
    <2>3. p \in DOMAIN Parts(c, r) /\ AlonePart(mine, n, p, Between(src, dst))
      BY <1>3, <1>4, <2>1, <2>2 DEF Ends
    <2>4. e \in Covers(mine.sends[1]) \cup Covers(mine.recvs[1])
      BY <1>3, <1>4, <2>1, <2>2 DEF Ends
    <2>5. Concerns(mine, e)
      BY <2>3, <2>4, AloneConcerns
    <2>6. Covering(mine, e) # {} \/ r = src
      <3> SUFFICES ASSUME r # src PROVE Covering(mine, e) # {}
        OBVIOUS
      <3>1. mine.recvs[1] = Chunks(n)[p]
        BY <1>3, <1>4, <2>1, <2>2 DEF Ends
      <3>2. 1 \in 1..Len(mine.recvs)
        BY <2>3 DEF AlonePart
      <3> QED
        BY <2>1, <3>1, <3>2 DEF Covering
    <2>7. Held(c, r, mine, Covering(mine, e), e) = Group!Returned(c, r)[e]
      BY <1>1, <2>6, SendHeld
    <2> QED
      BY <2>2, <2>3, <2>5, <2>7
  <1>8. ASSUME NEW q \in Group!Needed(c, r)
        PROVE  \E e \in 1..n : \E x \in DOMAIN Group!Returned(c, r)[e] : x[1] = c /\ x[2] = q
    <2>1. q = src
      BY <1>1, <1>8 DEF Group!Needed
    <2>2. 1 \in 1..n
      BY <1>2
    <2>3. PICK e \in 1..n : TRUE
      BY <2>2
    <2>4. Group!Returned(c, r)[e] = SetToBag({<<c, src, e>>})
      BY <1>5
    <2>5. <<c, src, e>> \in DOMAIN Group!Returned(c, r)[e]
      BY <2>4 DEF SetToBag
    <2>6. <<c, src, e>>[1] = c /\ <<c, src, e>>[2] = src
      OBVIOUS
    <2> QED
      BY <2>1, <2>5, <2>6
  <1>9. Group!Returned(c, r) = [e \in 1..n |-> Group!Returned(c, r)[e]]
    BY <1>5
  <1> QED
    BY <1>2, <1>6, <1>7, <1>8, <1>9 DEF Yields, Wants

-----------------------------------------------------------------------------
(* Every call.                                                               *)
LEMMA SendCallFits ==
  ASSUME NEW c \in 1..Len(Calls), Calls[c].kind = "send", NEW r \in Rank
  PROVE  Fits(Parts(c, r)) /\ (Takes(c, r) => DOMAIN Parts(c, r) # {})
  <1>1. PICK n, src, dst : n = Calls[c].n /\ src = Calls[c].src /\ dst = Calls[c].dst
    OBVIOUS
  <1>2. Ends(c, src, dst, n) /\ n \in Nat \ {0}
    BY <1>1, SendEnds, CallIs
  <1>3. CASE r = src
    BY <1>2, <1>3, SendFits DEF Ends
  <1>4. CASE r = dst
    BY <1>2, <1>4, SendFits DEF Ends
  <1>5. CASE r # src /\ r # dst
    <2>1. Parts(c, r) = <<>> /\ ~ Takes(c, r)
      BY <1>2, <1>5 DEF Ends
    <2>2. Fits(<<>>)
      <3>1. DOMAIN <<>> = {}
        OBVIOUS
      <3>2. <<>> = [p \in DOMAIN <<>> |-> <<>>[p]]
        OBVIOUS
      <3> QED
        BY <3>1, <3>2 DEF Fits
    <2> QED
      BY <2>1, <2>2
  <1> QED
    BY <1>3, <1>4, <1>5

LEMMA CallFits ==
  ASSUME NEW c \in 1..Len(Calls), NEW r \in Rank
  PROVE  Fits(Parts(c, r)) /\ (Takes(c, r) => DOMAIN Parts(c, r) # {})
  <1>1. PICK n : n = Calls[c].n
    OBVIOUS
  <1>2. n \in Nat \ {0} /\ Calls[c].kind \in {"all_reduce", "all_gather", "send"}
    BY <1>1, CallIs
  <1>3. CASE Calls[c].kind = "all_reduce"
    <2>1. Takes(c, r)
      BY <1>3 DEF Takes
    <2>2. Parts(c, r) = ReduceParts(r, n)
      BY <1>1, <1>3, <2>1 DEF Parts
    <2> QED
      BY <1>2, <2>2, ReduceFits
  <1>4. CASE Calls[c].kind = "all_gather"
    <2>1. Takes(c, r) /\ Calls[c].kind # "all_reduce"
      BY <1>4 DEF Takes
    <2>2. Parts(c, r) = GatherParts(r, n)
      BY <1>1, <1>4, <2>1 DEF Parts
    <2> QED
      BY <1>2, <2>2, GatherFits
  <1>5. CASE Calls[c].kind = "send"
    BY <1>5, SendCallFits
  <1> QED
    BY <1>2, <1>3, <1>4, <1>5

LEMMA CallFed ==
  ASSUME NEW c \in 1..Len(Calls), NEW r \in Rank, NEW p \in DOMAIN Parts(c, r),
         NEW k \in 1..Len(Parts(c, r)[p].recvs), NEW e \in Covers(Parts(c, r)[p].recvs[k])
  PROVE  Fed(c, r, p, k, e)
  <1>1. Calls[c].kind \in {"all_reduce", "all_gather", "send"}
    BY CallIs
  <1> QED
    BY <1>1, ReduceFed, GatherFed, SendFed

LEMMA CallFeeds ==
  ASSUME NEW c \in 1..Len(Calls), NEW l \in Rank, NEW p \in DOMAIN Parts(c, l),
         NEW k \in 1..Len(Parts(c, l)[p].sends), NEW e \in Covers(Parts(c, l)[p].sends[k])
  PROVE  Feeds(c, l, p, k)
  <1>1. Calls[c].kind \in {"all_reduce", "all_gather", "send"}
    BY CallIs
  <1> QED
    BY <1>1, ReduceFeeds, GatherFeeds, SendFeeds

LEMMA CallYields ==
  ASSUME NEW c \in 1..Len(Calls), NEW r \in Rank, Takes(c, r)
  PROVE  Yields(c, r) /\ Wants(c, r)
  <1>1. Calls[c].kind \in {"all_reduce", "all_gather", "send"}
    BY CallIs
  <1> QED
    BY <1>1, ReduceYields, GatherYields, SendYields

(* A rank has nothing but its own when a call begins.                        *)
Own(c, r, b) == \A x \in DOMAIN b : x[1] = c /\ x[2] = r

LEMMA OwnOne ==
  ASSUME NEW c, NEW r, NEW e
  PROVE  Own(c, r, SetToBag({<<c, r, e>>})) /\ Own(c, r, EmptyBag)
  <1>1. DOMAIN SetToBag({<<c, r, e>>}) = {<<c, r, e>>} /\ DOMAIN EmptyBag = {}
    BY DEF SetToBag, EmptyBag
  <1>2. <<c, r, e>>[1] = c /\ <<c, r, e>>[2] = r
    OBVIOUS
  <1> QED
    BY <1>1, <1>2 DEF Own

LEMMA CallOwn ==
  ASSUME NEW c \in 1..Len(Calls), NEW r \in Rank, Takes(c, r), NEW e \in 1..Len(Prepared(c, r))
  PROVE  Own(c, r, Prepared(c, r)[e])
  <1>1. PICK n : n = Calls[c].n
    OBVIOUS
  <1>2. n \in Nat \ {0} /\ Calls[c].kind \in {"all_reduce", "all_gather", "send"}
    BY <1>1, CallIs
  <1>3. CASE Calls[c].kind = "all_reduce"
    <2>1. Prepared(c, r)[e] = Summed(c, {r}, e)
      <3>1. /\ Len(Prepared(c, r)) = Larger(n, Size)
            /\ \A x \in 1..Larger(n, Size) : Prepared(c, r)[x] = Summed(c, {r}, x)
        BY <1>1, <1>3, ReducePrepared
      <3> QED
        BY <3>1
    <2>2. {<<c, q, e>> : q \in {r}} = {<<c, r, e>>}
      OBVIOUS
    <2>3. Prepared(c, r)[e] = SetToBag({<<c, r, e>>}) \/ Prepared(c, r)[e] = EmptyBag
      BY <2>1, <2>2 DEF Summed
    <2> QED
      BY <2>3, OwnOne
  <1>4. CASE Calls[c].kind = "all_gather"
    <2>1. /\ Len(Prepared(c, r)) = Size * n
          /\ \A y \in 1..n : Prepared(c, r)[r * n + y] = SetToBag({<<c, r, y>>})
          /\ \A x \in 1..(Size * n) : Prepared(c, r)[x] = EmptyBag \/ \E y \in 1..n : x = r * n + y
      BY <1>1, <1>4, GatherPrepared
    <2>2. Prepared(c, r)[e] = EmptyBag \/ \E y \in 1..n : Prepared(c, r)[e] = SetToBag({<<c, r, y>>})
      BY <2>1
    <2> QED
      BY <2>2, OwnOne
  <1>5. CASE Calls[c].kind = "send"
    <2>1. Calls[c].kind # "all_reduce" /\ Calls[c].kind # "all_gather"
      BY <1>5
    <2>2. CASE r = Calls[c].src
      <3>1. Prepared(c, r) = Input(c, r)
        BY <1>5, <2>1, <2>2 DEF Prepared
      <3> QED
        <4>1. Len(Input(c, r)) = n /\ \A x \in 1..n : Input(c, r)[x] = SetToBag({<<c, r, x>>})
          BY <1>1, InputIs
        <4>2. Prepared(c, r)[e] = SetToBag({<<c, r, e>>})
          BY <3>1, <4>1
        <4> QED
          BY <4>2, OwnOne
    <2>3. CASE r # Calls[c].src
      <3>1. Prepared(c, r) = Blank(n)
        BY <1>1, <1>5, <2>1, <2>3 DEF Prepared
      <3> QED
        BY <1>2, <3>1, BlankIs, OwnOne
    <2> QED
      BY <2>2, <2>3
  <1> QED
    BY <1>2, <1>3, <1>4, <1>5

-----------------------------------------------------------------------------
(* Queues, task by task.                                                     *)
AppendAt(more, queue, t) ==
  /\ more \in Seq(Task) /\ Len(queue) \in Nat /\ DOMAIN queue = 1..Len(queue)
  /\ DOMAIN more = 1..(Len(queue) + 1)
  /\ \A k \in 1..Len(queue) : more[k] = queue[k]
  /\ more[Len(queue) + 1] = t

LEMMA AppendIs ==
  ASSUME NEW queue \in Seq(Task), NEW t \in Task, NEW more, more = Append(queue, t)
  PROVE  AppendAt(more, queue, t)
  <1>1. Len(queue) \in Nat /\ DOMAIN queue = 1..Len(queue)
    BY LenProperties
  <1>2. /\ more \in Seq(Task) /\ Len(more) = Len(queue) + 1
        /\ \A k \in 1..Len(queue) : more[k] = queue[k]
        /\ more[Len(queue) + 1] = t
    BY AppendProperties
  <1>3. DOMAIN more = 1..Len(more)
    BY <1>2, LenProperties
  <1> QED
    BY <1>1, <1>2, <1>3 DEF AppendAt

RestAt(left, queue, n) ==
  /\ left \in Seq(Task)
  /\ Len(queue) \in Nat \ {0} /\ DOMAIN queue = 1..Len(queue)
  /\ queue[1] \in Task
  /\ \/ /\ queue[1].lo + n = queue[1].hi
        /\ DOMAIN left = 1..(Len(queue) - 1)
        /\ \A k \in 1..(Len(queue) - 1) : left[k] = queue[k + 1]
     \/ /\ queue[1].lo + n # queue[1].hi
        /\ DOMAIN left = 1..Len(queue)
        /\ left[1] = [queue[1] EXCEPT !.lo = queue[1].lo + n]
        /\ \A k \in 2..Len(queue) : left[k] = queue[k]

LEMMA RestOf ==
  ASSUME NEW queue \in Seq(Task), queue # <<>>, NEW n \in Nat, NEW left, left = Rest(queue, n)
  PROVE  RestAt(left, queue, n)
  <1>1. Len(queue) \in Nat \ {0} /\ DOMAIN queue = 1..Len(queue)
    BY EmptySeq, LenProperties
  <1>2. queue[1] \in Task /\ Head(queue) = queue[1]
    BY <1>1, HeadIs
  <1>3. left \in Seq(Task)
    BY RestIs DEF Shrunk
  <1>4. CASE queue[1].lo + n = queue[1].hi
    <2>1. left = Tail(queue)
      BY <1>2, <1>4 DEF Rest
    <2>2. Len(left) = Len(queue) - 1 /\ \A k \in 1..Len(left) : left[k] = queue[k + 1]
      BY <2>1, HeadTailProperties
    <2>3. DOMAIN left = 1..Len(left)
      BY <1>3, LenProperties
    <2> QED
      BY <1>1, <1>2, <1>3, <1>4, <2>2, <2>3 DEF RestAt
  <1>5. CASE queue[1].lo + n # queue[1].hi
    <2>1. left = [queue EXCEPT ![1].lo = @ + n]
      BY <1>2, <1>5 DEF Rest
    <2>2. PICK u : u = [queue[1] EXCEPT !.lo = queue[1].lo + n]
      OBVIOUS
    <2>3. left = [queue EXCEPT ![1] = u]
      BY <2>1, <2>2
    <2>4. DOMAIN left = DOMAIN queue
      BY <2>3
    <2>5. left[1] = u /\ \A k \in 2..Len(queue) : left[k] = queue[k]
      BY <1>1, <2>3
    <2> QED
      BY <1>1, <1>2, <1>3, <1>5, <2>2, <2>4, <2>5 DEF RestAt
  <1> QED
    BY <1>4, <1>5

(* Every task of the rest is one of before, but the first has moved on.      *)
LEMMA RestEach ==
  ASSUME NEW left, NEW queue \in Seq(Task), NEW n \in Nat, RestAt(left, queue, n), NEW k \in DOMAIN left
  PROVE  \E m \in DOMAIN queue :
           /\ k <= m /\ (k > 1 => m > 1) /\ k \in Nat /\ m \in Nat
           /\ left[k].part = queue[m].part /\ left[k].step = queue[m].step
           /\ left[k].place = queue[m].place /\ left[k].hi = queue[m].hi
           /\ IF m = 1 THEN left[k].lo = queue[1].lo + n ELSE left[k].lo = queue[m].lo
  <1>1. Len(queue) \in Nat \ {0} /\ DOMAIN queue = 1..Len(queue) /\ queue[1] \in Task
    BY DEF RestAt
  <1>2. CASE queue[1].lo + n = queue[1].hi
    <2>1. k \in 1..(Len(queue) - 1) /\ left[k] = queue[k + 1]
      BY <1>2 DEF RestAt
    <2>2. PICK m : m = k + 1
      OBVIOUS
    <2>3. m \in 1..Len(queue) /\ k <= m /\ m > 1 /\ k \in Nat /\ m \in Nat /\ m # 1
      BY <1>1, <2>1, <2>2
    <2> QED
      BY <1>1, <2>1, <2>2, <2>3
  <1>3. CASE queue[1].lo + n # queue[1].hi
    <2>1. k \in 1..Len(queue) /\ k \in Nat
      BY <1>1, <1>3 DEF RestAt
    <2>2. CASE k = 1
      <3>1. left[1] = [queue[1] EXCEPT !.lo = queue[1].lo + n]
        BY <1>3 DEF RestAt
      <3>2. /\ left[1].part = queue[1].part /\ left[1].step = queue[1].step
            /\ left[1].place = queue[1].place /\ left[1].hi = queue[1].hi
            /\ left[1].lo = queue[1].lo + n
        BY <1>1, <3>1 DEF Task
      <3> QED
        BY <1>1, <2>1, <2>2, <3>2
    <2>3. CASE k # 1
      <3>1. k \in 2..Len(queue)
        BY <1>1, <2>1, <2>3
      <3>2. left[k] = queue[k]
        BY <1>3, <3>1 DEF RestAt
      <3> QED
        BY <1>1, <2>1, <2>3, <3>2
    <2> QED
      BY <2>2, <2>3
  <1> QED
    BY <1>2, <1>3

(* ... and they are in the same order.                                       *)
LEMMA RestOrdered ==
  ASSUME NEW left, NEW queue \in Seq(Task), NEW n \in Nat, RestAt(left, queue, n), Ordered(queue)
  PROVE  Ordered(left)
  <1> SUFFICES ASSUME NEW j \in DOMAIN left, NEW k \in DOMAIN left, j < k
               PROVE  left[j].step < left[k].step
    BY DEF Ordered
  <1>1. Len(queue) \in Nat \ {0} /\ DOMAIN queue = 1..Len(queue) /\ queue[1] \in Task
    BY DEF RestAt
  <1>2. CASE queue[1].lo + n = queue[1].hi
    <2>1. /\ j \in 1..(Len(queue) - 1) /\ left[j] = queue[j + 1]
          /\ k \in 1..(Len(queue) - 1) /\ left[k] = queue[k + 1]
      BY <1>2 DEF RestAt
    <2>2. PICK x, y : x = j + 1 /\ y = k + 1
      OBVIOUS
    <2>3. x \in 1..Len(queue) /\ y \in 1..Len(queue) /\ x < y
      BY <1>1, <2>1, <2>2
    <2> QED
      BY <1>1, <2>1, <2>2, <2>3 DEF Ordered
  <1>3. CASE queue[1].lo + n # queue[1].hi
    <2>1. DOMAIN left = 1..Len(queue)
      BY <1>3 DEF RestAt
    <2>2. ASSUME NEW i \in 1..Len(queue)
          PROVE  left[i].step = queue[i].step
      <3>1. CASE i = 1
        <4>1. left[1] = [queue[1] EXCEPT !.lo = queue[1].lo + n]
          BY <1>3 DEF RestAt
        <4> QED
          BY <1>1, <3>1, <4>1 DEF Task
      <3>2. CASE i # 1
        <4>1. i \in 2..Len(queue)
          BY <1>1, <3>2
        <4> QED
          BY <1>3, <4>1 DEF RestAt
      <3> QED
        BY <3>1, <3>2
    <2> QED
      BY <1>1, <2>1, <2>2 DEF Ordered
  <1> QED
    BY <1>2, <1>3

LEMMA AppendOrdered ==
  ASSUME NEW more, NEW queue \in Seq(Task), NEW t, AppendAt(more, queue, t), Ordered(queue),
         \A k \in DOMAIN queue : queue[k].step < t.step
  PROVE  Ordered(more)
  <1> SUFFICES ASSUME NEW j \in DOMAIN more, NEW k \in DOMAIN more, j < k
               PROVE  more[j].step < more[k].step
    BY DEF Ordered
  <1>1. Len(queue) \in Nat /\ DOMAIN queue = 1..Len(queue) /\ DOMAIN more = 1..(Len(queue) + 1)
    BY DEF AppendAt
  <1>2. j \in 1..Len(queue)
    BY <1>1
  <1>3. more[j] = queue[j]
    BY <1>2 DEF AppendAt
  <1>4. CASE k \in 1..Len(queue)
    <2>1. more[k] = queue[k]
      BY <1>4 DEF AppendAt
    <2> QED
      BY <1>1, <1>2, <1>3, <1>4, <2>1 DEF Ordered
  <1>5. CASE k = Len(queue) + 1
    <2>1. more[k] = t
      BY <1>5 DEF AppendAt
    <2> QED
      BY <1>1, <1>2, <1>3, <2>1
  <1> QED
    BY <1>1, <1>4, <1>5

-----------------------------------------------------------------------------
(* The queue in a connection.                                                *)
LEMMA BeforeIs ==
  ASSUME NEW x \in Item, NEW y \in Item
  PROVE  ~ Before(x, x) /\ (Before(x, y) => ~ Before(y, x))
  <1>1. PICK a, b, c, d, f, g : a = x[1] /\ b = x[3] /\ c = x[4] /\ d = y[1] /\ f = y[3] /\ g = y[4]
    OBVIOUS
  <1>2. x[1] \in Int /\ x[3] \in Int /\ x[4] \in Int /\ y[1] \in Int /\ y[3] \in Int /\ y[4] \in Int
    BY DEF Item
  <1>3. a \in Int /\ b \in Int /\ c \in Int /\ d \in Int /\ f \in Int /\ g \in Int
    BY <1>1, <1>2
  <1> QED
    BY <1>1, <1>3 DEF Before

Ran(N, n) == {N[m] : m \in 1..n}

(* What is sent is put at the end.                                           *)
Follows(D, N, n) ==
  /\ \A m, k \in 1..n : m < k => Before(N[m], N[k])
  /\ \A x \in D : \A m \in 1..n : Before(x, N[m])

Carries(u, V, N, n) == \A m \in 1..n : u[m] = V[N[m]]

LEMMA FlowAppend ==
  ASSUME NEW D, NEW w, IsSeq(w), NEW u, IsSeq(u), NEW V, NEW N, Flow(D, w, V),
         Carries(u, V, N, Len(u)), Follows(D, N, Len(u)), NEW F, F = D \cup Ran(N, Len(u))
  PROVE  Flow(F, w \o u, V)
  <1>12. /\ \A m \in 1..Len(u) : u[m] = V[N[m]]
         /\ \A m, k \in 1..Len(u) : m < k => Before(N[m], N[k])
         /\ \A x \in D : \A m \in 1..Len(u) : Before(x, N[m])
         /\ F = D \cup {N[m] : m \in 1..Len(u)}
    BY DEF Carries, Follows, Ran
  <1>1. PICK a, b, z : a = Len(w) /\ b = Len(u) /\ z = w \o u
    OBVIOUS
  <1>2. a \in Nat /\ b \in Nat /\ Len(z) = a + b
    BY <1>1, SeqIs, SeqJoin
  <1>3. ASSUME NEW i \in 1..(a + b)
        PROVE  z[i] = IF i <= a THEN w[i] ELSE u[i - a]
    <2>1. PICK A : w \in Seq(A)
      BY DEF IsSeq
    <2>2. PICK B : u \in Seq(B)
      BY DEF IsSeq
    <2>3. w \in Seq(A \cup B) /\ u \in Seq(A \cup B)
      BY <2>1, <2>2
    <2> QED
      BY <1>1, <1>2, <2>3, ConcatProperties
  <1>11. PICK f : FlowBy(f, D, w, V)
    BY DEF Flow
  <1>4. /\ \A i \in 1..a : f[i] \in D /\ w[i] = V[f[i]]
        /\ \A i, j \in 1..a : i < j => Before(f[i], f[j])
        /\ \A x \in D : \E i \in 1..a : f[i] = x
    BY <1>1, <1>11 DEF FlowBy
  <1>5. PICK g : g = [i \in 1..(a + b) |-> IF i <= a THEN f[i] ELSE N[i - a]]
    OBVIOUS
  <1>6. \A i \in 1..(a + b) : g[i] = IF i <= a THEN f[i] ELSE N[i - a]
    BY <1>5
  <1>7. ASSUME NEW i \in 1..(a + b)
        PROVE  g[i] \in F /\ z[i] = V[g[i]]
    <2>1. CASE i <= a
      <3>1. i \in 1..a
        BY <1>2, <2>1
      <3> QED
        BY <1>3, <1>4, <1>6, <1>12, <2>1, <3>1
    <2>2. CASE ~ (i <= a)
      <3>1. i - a \in 1..b
        BY <1>2, <2>2
      <3>2. g[i] = N[i - a] /\ z[i] = u[i - a]
        BY <1>3, <1>6, <2>2
      <3> QED
        BY <1>1, <1>12, <3>1, <3>2
    <2> QED
      BY <2>1, <2>2
  <1>8. ASSUME NEW i \in 1..(a + b), NEW j \in 1..(a + b), i < j
        PROVE  Before(g[i], g[j])
    <2>1. CASE j <= a
      <3>1. i \in 1..a /\ j \in 1..a /\ i <= a
        BY <1>2, <1>8, <2>1
      <3> QED
        BY <1>4, <1>6, <1>8, <2>1, <3>1
    <2>2. CASE ~ (j <= a) /\ i <= a
      <3>1. i \in 1..a /\ j - a \in 1..b
        BY <1>2, <2>2
      <3>2. g[i] = f[i] /\ g[j] = N[j - a]
        BY <1>6, <2>2
      <3> QED
        BY <1>1, <1>4, <1>12, <3>1, <3>2
    <2>3. CASE ~ (i <= a)
      <3>1. i - a \in 1..b /\ j - a \in 1..b /\ i - a < j - a /\ ~ (j <= a)
        BY <1>2, <1>8, <2>3
      <3>2. g[i] = N[i - a] /\ g[j] = N[j - a]
        BY <1>6, <2>3, <3>1
      <3> QED
        BY <1>1, <1>12, <3>1, <3>2
    <2> QED
      BY <2>1, <2>2, <2>3
  <1>9. ASSUME NEW x \in F
        PROVE  \E i \in 1..(a + b) : g[i] = x
    <2>1. CASE x \in D
      <3>1. PICK i \in 1..a : f[i] = x
        BY <1>4, <2>1
      <3>2. i \in 1..(a + b) /\ i <= a
        BY <1>2, <3>1
      <3> QED
        BY <1>6, <3>1, <3>2
    <2>2. CASE x \notin D
      <3>1. PICK m \in 1..b : x = N[m]
        BY <1>1, <1>12, <2>2
      <3>2. PICK i : i = a + m
        OBVIOUS
      <3>3. i \in 1..(a + b) /\ ~ (i <= a) /\ i - a = m
        BY <1>2, <3>1, <3>2
      <3> QED
        BY <1>6, <3>1, <3>3
    <2> QED
      BY <2>1, <2>2
  <1>10. FlowBy(g, F, z, V)
    BY <1>2, <1>7, <1>8, <1>9 DEF FlowBy
  <1> QED
    BY <1>1, <1>10 DEF Flow

(* What arrives is taken from the front: N is the first n elements of D.     *)
Leads(N, n, D) ==
  /\ \A m \in 1..n : N[m] \in Item
  /\ \A i, m \in 1..n : i < m => Before(N[i], N[m])
  /\ \A y \in D : \A m \in 1..n : y = N[m] \/ Before(y, N[m]) \/ Before(N[m], y)
  /\ \A y \in D : \A m \in 1..n : Before(N[m], y) => N[m] \in D
  /\ \A y \in D : \A m \in 1..n : Before(y, N[m]) => \E i \in 1..n : i < m /\ y = N[i]

LEMMA FlowFirst ==
  ASSUME NEW D, D \subseteq Item, NEW f, NEW w, NEW V, FlowBy(f, D, w, V), Len(w) \in Nat,
         NEW n \in Nat, n <= Len(w), NEW N, Leads(N, n, D)
  PROVE  \A m \in 1..n : f[m] = N[m]
  <1>0. PICK l : l = Len(w)
    OBVIOUS
  <1>10. l \in Nat /\ n <= l
    BY <1>0
  <1>11. /\ \A i \in 1..l : f[i] \in D
         /\ \A i, j \in 1..l : i < j => Before(f[i], f[j])
         /\ \A x \in D : \E i \in 1..l : f[i] = x
    BY <1>0 DEF FlowBy
  <1>12. /\ \A m \in 1..n : N[m] \in Item
         /\ \A i, m \in 1..n : i < m => Before(N[i], N[m])
         /\ \A y \in D : \A m \in 1..n : y = N[m] \/ Before(y, N[m]) \/ Before(N[m], y)
         /\ \A y \in D : \A m \in 1..n : Before(N[m], y) => N[m] \in D
         /\ \A y \in D : \A m \in 1..n : Before(y, N[m]) => \E i \in 1..n : i < m /\ y = N[i]
    BY DEF Leads
  <1>1. PICK T : T = {m \in 1..n : f[m] # N[m]}
    OBVIOUS
  <1>2. SUFFICES ASSUME T # {} PROVE FALSE
    BY <1>1
  <1>3. T \subseteq Nat
    BY <1>1
  <1>4. PICK m \in T : \A y \in T : m <= y
    BY <1>2, <1>3, Least
  <1>5. m \in 1..n /\ m \in 1..l /\ f[m] # N[m] /\ f[m] \in D /\ f[m] \in Item /\ N[m] \in Item
    BY <1>1, <1>10, <1>11, <1>12
  <1>6. \A i \in 1..n : i < m => f[i] = N[i]
    BY <1>1, <1>4
  <1>7. CASE Before(N[m], f[m])
    <2>1. N[m] \in D
      BY <1>5, <1>7, <1>12
    <2>2. PICK i \in 1..l : f[i] = N[m]
      BY <1>11, <2>1
    <2>3. i # m
      BY <1>5, <2>2
    <2>4. CASE i < m
      <3>1. i \in 1..n
        BY <1>5, <1>10, <2>4
      <3>2. f[i] = N[i] /\ Before(N[i], N[m])
        BY <1>5, <1>6, <1>12, <2>4, <3>1
      <3> QED
        BY <1>5, <2>2, <3>2, BeforeIs
    <2>5. CASE m < i
      <3>1. Before(f[m], f[i])
        BY <1>5, <1>11, <2>5
      <3> QED
        BY <1>5, <1>7, <2>2, <3>1, BeforeIs
    <2> QED
      BY <1>5, <2>3, <2>4, <2>5
  <1>8. CASE Before(f[m], N[m])
    <2>1. PICK i \in 1..n : i < m /\ f[m] = N[i]
      BY <1>5, <1>8, <1>12
    <2>2. i \in 1..l /\ f[i] = f[m]
      BY <1>6, <1>10, <2>1
    <2>3. Before(f[i], f[m])
      BY <1>5, <1>11, <2>1, <2>2
    <2> QED
      BY <1>5, <2>2, <2>3, BeforeIs
  <1> QED
    BY <1>5, <1>7, <1>8, <1>12

LEMMA FlowDrop ==
  ASSUME NEW D, D \subseteq Item, NEW w, IsSeq(w), NEW V, NEW n \in Nat, n <= Len(w), NEW N,
         Flow(D, w, V), Leads(N, n, D),
         NEW F, F = D \ Ran(N, n)
  PROVE  /\ Carries(w, V, N, n) /\ Ran(N, n) \subseteq D
         /\ Flow(F, SubSeq(w, n + 1, Len(w)), V)
  <1>15. F = D \ {N[m] : m \in 1..n}
    BY DEF Ran
  <1>1. PICK l, z : l = Len(w) /\ z = SubSeq(w, n + 1, l)
    OBVIOUS
  <1>2. l \in Nat /\ n <= l
    BY <1>1, SeqIs
  <1>3. Len(z) = l - n /\ \A i \in 1..(l - n) : z[i] = w[i + n]
    <2>1. PICK A : w \in Seq(A)
      BY DEF IsSeq
    <2>2. PICK a : a = n + 1
      OBVIOUS
    <2>3. a \in 1..(l + 1) /\ l \in (a - 1)..l
      BY <1>2, <2>2
    <2>4. Len(z) = l - a + 1 /\ \A i \in 1..(l - a + 1) : z[i] = w[a + i - 1]
      BY <1>1, <2>1, <2>2, <2>3, SubSeqProperties
    <2>5. l - a + 1 = l - n
      BY <1>2, <2>2
    <2>6. ASSUME NEW i \in 1..(l - n)
          PROVE  z[i] = w[i + n]
      <3>1. a + i - 1 = i + n
        BY <2>2
      <3> QED
        BY <2>4, <2>5, <3>1
    <2> QED
      BY <2>4, <2>5, <2>6
  <1>13. PICK f : FlowBy(f, D, w, V)
    BY DEF Flow
  <1>4. /\ \A i \in 1..l : f[i] \in D /\ w[i] = V[f[i]]
        /\ \A i, j \in 1..l : i < j => Before(f[i], f[j])
        /\ \A x \in D : \E i \in 1..l : f[i] = x
    BY <1>1, <1>13 DEF FlowBy
  <1>5. \A m \in 1..n : f[m] = N[m]
    BY <1>1, <1>2, <1>13, FlowFirst
  <1>6. ASSUME NEW m \in 1..n
        PROVE  w[m] = V[N[m]] /\ N[m] \in D
    <2>1. m \in 1..l
      BY <1>2
    <2> QED
      BY <1>4, <1>5, <2>1
  <1>7. PICK g : g = [i \in 1..(l - n) |-> f[i + n]]
    OBVIOUS
  <1>8. \A i \in 1..(l - n) : g[i] = f[i + n] /\ i + n \in 1..l /\ i + n \notin 1..n
    BY <1>2, <1>7
  <1>9. ASSUME NEW i \in 1..(l - n)
        PROVE  g[i] \in F /\ z[i] = V[g[i]]
    <2>1. PICK j : j = i + n
      OBVIOUS
    <2>2. j \in 1..l /\ j > n /\ g[i] = f[j] /\ z[i] = w[j]
      BY <1>2, <1>3, <1>8, <2>1
    <2>3. f[j] \in D /\ w[j] = V[f[j]]
      BY <1>4, <2>2
    <2>4. ASSUME NEW m \in 1..n, f[j] = N[m]
          PROVE  FALSE
      <3>1. m \in 1..l /\ m < j
        BY <1>2, <2>2
      <3>2. Before(f[m], f[j]) /\ f[m] = N[m]
        BY <1>4, <1>5, <2>2, <3>1
      <3> QED
        BY <2>3, <2>4, <3>2, BeforeIs
    <2> QED
      BY <1>15, <2>2, <2>3, <2>4
  <1>10. ASSUME NEW i \in 1..(l - n), NEW j \in 1..(l - n), i < j
         PROVE  Before(g[i], g[j])
    <2>1. i + n < j + n
      BY <1>10
    <2> QED
      BY <1>4, <1>8, <2>1
  <1>11. ASSUME NEW x \in F
         PROVE  \E i \in 1..(l - n) : g[i] = x
    <2>1. PICK j \in 1..l : f[j] = x
      BY <1>4, <1>15
    <2>2. j \notin 1..n
      BY <1>5, <1>15, <2>1
    <2>3. PICK i : i = j - n
      OBVIOUS
    <2>4. i \in 1..(l - n) /\ i + n = j
      BY <1>2, <2>1, <2>2, <2>3
    <2> QED
      BY <1>8, <2>1, <2>4
  <1>12. FlowBy(g, F, z, V)
    BY <1>3, <1>9, <1>10, <1>11 DEF FlowBy
  <1> QED
    BY <1>1, <1>6, <1>12 DEF Flow, Carries, Ran

-----------------------------------------------------------------------------
(* A direction of a connection: the next n elements of the line L join the   *)
(* set S of those that are through.                                          *)
Linear(L) == \A x, y \in L : x = y \/ Before(x, y) \/ Before(y, x)

Moves(L, S, N, n) ==
  /\ \A m \in 1..n : N[m] \in L /\ N[m] \notin S
  /\ \A i, m \in 1..n : i < m => Before(N[i], N[m])
  /\ \A x \in L : \A m \in 1..n : Before(x, N[m]) => x \in S \/ \E i \in 1..n : i < m /\ x = N[i]

LEMMA MovePrefix ==
  ASSUME NEW L, NEW S, NEW N, NEW n \in Nat, Moves(L, S, N, n), Prefix(L, S)
  PROVE  Prefix(L, S \cup Ran(N, n))
  <1> SUFFICES ASSUME NEW x \in L, NEW y \in S \cup Ran(N, n), Before(x, y) PROVE x \in S \cup Ran(N, n)
    BY DEF Prefix
  <1>1. CASE y \in S
    BY <1>1 DEF Prefix, Ran
  <1>2. CASE y \notin S
    <2>1. PICK m \in 1..n : y = N[m]
      BY <1>2 DEF Ran
    <2>2. x \in S \/ \E i \in 1..n : i < m /\ x = N[i]
      BY <2>1 DEF Moves
    <2> QED
      BY <2>2 DEF Ran
  <1> QED
    BY <1>1, <1>2

LEMMA MoveSent ==
  ASSUME NEW L, Linear(L), NEW S, S \subseteq L, NEW A, NEW N, NEW w, IsSeq(w), NEW u, IsSeq(u), NEW V,
         Moves(L, S, N, Len(u)), Prefix(L, S), A \subseteq S, Flow(S \ A, w, V),
         Carries(u, V, N, Len(u))
  PROVE  Flow((S \cup Ran(N, Len(u))) \ A, w \o u, V)
  <1>1. PICK n : n = Len(u)
    OBVIOUS
  <1>2. PICK D, F : D = S \ A /\ F = D \cup Ran(N, n)
    OBVIOUS
  <1>3. \A m, k \in 1..n : m < k => Before(N[m], N[k])
    BY <1>1 DEF Moves
  <1>4. ASSUME NEW x \in D, NEW m \in 1..n
        PROVE  Before(x, N[m])
    <2>1. x \in S /\ x \in L /\ N[m] \in L /\ N[m] \notin S
      BY <1>1, <1>2 DEF Moves
    <2>2. ~ Before(N[m], x)
      BY <2>1 DEF Prefix
    <2> QED
      BY <2>1, <2>2 DEF Linear
  <1>7. Follows(D, N, n)
    BY <1>3, <1>4 DEF Follows
  <1>5. Flow(F, w \o u, V)
    BY <1>1, <1>2, <1>7, FlowAppend
  <1>6. (S \cup Ran(N, n)) \ A = F
    BY <1>1, <1>2 DEF Ran, Moves
  <1> QED
    BY <1>1, <1>5, <1>6

LEMMA MoveArrived ==
  ASSUME NEW L, L \subseteq Item, Linear(L), NEW S, S \subseteq L, NEW A, NEW N, NEW n \in Nat,
         NEW w, IsSeq(w), n <= Len(w), NEW V,
         Moves(L, A, N, n), Prefix(L, S), Flow(S \ A, w, V)
  PROVE  /\ Carries(w, V, N, n)
         /\ (A \cup Ran(N, n)) \subseteq A \cup S
         /\ Flow(S \ (A \cup Ran(N, n)), SubSeq(w, n + 1, Len(w)), V)
  <1>1. PICK D, F : D = S \ A /\ F = D \ Ran(N, n)
    OBVIOUS
  <1>2. \A m \in 1..n : N[m] \in Item
    BY DEF Moves
  <1>3. \A y \in D : \A m \in 1..n : y = N[m] \/ Before(y, N[m]) \/ Before(N[m], y)
    BY <1>1 DEF Moves, Linear
  <1>4. \A y \in D : \A m \in 1..n : Before(N[m], y) => N[m] \in D
    BY <1>1 DEF Moves, Prefix
  <1>5. \A y \in D : \A m \in 1..n : Before(y, N[m]) => \E i \in 1..n : i < m /\ y = N[i]
    BY <1>1 DEF Moves
  <1>6. Leads(N, n, D)
    BY <1>2, <1>3, <1>4, <1>5 DEF Leads, Moves
  <1>7. D \subseteq Item
    BY <1>1
  <1>8. /\ Carries(w, V, N, n) /\ Ran(N, n) \subseteq D
        /\ Flow(F, SubSeq(w, n + 1, Len(w)), V)
    BY <1>1, <1>6, <1>7, FlowDrop
  <1>9. S \ (A \cup Ran(N, n)) = F
    BY <1>1 DEF Ran
  <1> QED
    BY <1>1, <1>8, <1>9 DEF Ran

-----------------------------------------------------------------------------
(* A lane: the queue of the one part that uses a socket in a direction, with *)
(* the ranges R of its steps and the places sh where they begin.             *)
Lane(queue, p, R, sh, now, lag) ==
  /\ queue \in Seq(Task) /\ Ordered(queue)
  /\ now.i \in Nat /\ lag \in {0, 1} /\ Len(R) \in Nat
  /\ \A k \in 1..Len(R) : R[k][1] \in Nat /\ R[k][2] \in Nat /\ sh[k] \in {0, R[k][1]}
  /\ \A m \in DOMAIN queue :
       LET t == queue[m] IN
       /\ t.part = p /\ t.step \in 1..Len(R) /\ Open(now, lag, t.step)
       /\ t.hi = R[t.step][2] - sh[t.step] /\ R[t.step][1] - sh[t.step] <= t.lo
       /\ m > 1 => t.lo = R[t.step][1] - sh[t.step]

OnLane(x, p, R) == x[2] = p /\ x[3] \in 1..Len(R) /\ x[4] \in Covers(R[x[3]])

LEMMA OpenPosted ==
  ASSUME NEW now, now.i \in Nat, NEW lag \in {0, 1}, NEW k \in Int, Open(now, lag, k)
  PROVE  Posted(now, k) /\ now.i - lag <= k /\ k <= now.i
  <1>1. PICK i : i = now.i
    OBVIOUS
  <1> QED
    BY <1>1 DEF Open, Posted

LEMMA LaneTask ==
  ASSUME NEW queue, NEW p, NEW R, NEW sh, NEW now, NEW lag, Lane(queue, p, R, sh, now, lag),
         NEW m \in DOMAIN queue
  PROVE  /\ queue[m] \in Task /\ m \in Nat \ {0} /\ 1 \in DOMAIN queue
         /\ queue[m].step \in Nat /\ queue[m].lo \in Nat /\ queue[m].hi \in Int
         /\ queue[m].part = p /\ queue[m].step \in 1..Len(R) /\ Open(now, lag, queue[m].step)
         /\ queue[m].hi = R[queue[m].step][2] - sh[queue[m].step]
         /\ R[queue[m].step][1] - sh[queue[m].step] <= queue[m].lo
         /\ m > 1 => queue[m].lo = R[queue[m].step][1] - sh[queue[m].step]
         /\ m > 1 => queue[1].step < queue[m].step
         /\ R[queue[m].step][1] \in Nat /\ R[queue[m].step][2] \in Nat /\ sh[queue[m].step] \in Nat
  <1>1. queue \in Seq(Task)
    BY DEF Lane
  <1>2. DOMAIN queue = 1..Len(queue) /\ Len(queue) \in Nat
    BY <1>1, LenProperties
  <1>3. m \in 1..Len(queue) /\ m \in Nat \ {0} /\ 1 \in DOMAIN queue
    BY <1>2
  <1>4. queue[m] \in Task
    BY <1>1, <1>3, ElementOfSeq
  <1>5. PICK t : t = queue[m]
    OBVIOUS
  <1>6. t.step \in Nat /\ t.lo \in Nat /\ t.hi \in Int
    BY <1>4, <1>5 DEF Task
  <1>7. /\ t.part = p /\ t.step \in 1..Len(R) /\ Open(now, lag, t.step)
        /\ t.hi = R[t.step][2] - sh[t.step] /\ R[t.step][1] - sh[t.step] <= t.lo
        /\ m > 1 => t.lo = R[t.step][1] - sh[t.step]
    BY <1>5 DEF Lane
  <1>8. R[t.step][1] \in Nat /\ R[t.step][2] \in Nat /\ sh[t.step] \in Nat
    <2>1. R[t.step][1] \in Nat /\ R[t.step][2] \in Nat /\ sh[t.step] \in {0, R[t.step][1]}
      BY <1>7 DEF Lane
    <2> QED
      BY <2>1
  <1>9. m > 1 => queue[1].step < queue[m].step
    BY <1>3 DEF Lane, Ordered
  <1> QED
    BY <1>3, <1>4, <1>5, <1>6, <1>7, <1>8, <1>9

(* The thread of a socket takes n elements on, from the first task.          *)
LEMMA LaneRest ==
  ASSUME NEW queue, NEW p, NEW R, NEW sh, NEW now, NEW lag, Lane(queue, p, R, sh, now, lag),
         queue # <<>>, NEW h, h = queue[1], NEW n \in 1..(h.hi - h.lo),
         NEW x \in Item, OnLane(x, p, R)
  PROVE  Through(now, Rest(queue, n), x, sh[x[3]]) <=>
           \/ Through(now, queue, x, sh[x[3]])
           \/ x[3] = h.step /\ x[4] <= h.lo + sh[h.step] + n
  <1>1. PICK left, k, e, d : left = Rest(queue, n) /\ k = x[3] /\ e = x[4] /\ d = sh[k]
    OBVIOUS
  <1>2. queue \in Seq(Task) /\ now.i \in Nat /\ lag \in {0, 1}
    BY DEF Lane
  <1>3. 1 \in DOMAIN queue
    BY <1>2, EmptySeq, LenProperties
  <1>4. /\ h.step \in Nat /\ h.lo \in Nat /\ h.hi \in Int /\ h.part = p /\ h.step \in 1..Len(R)
        /\ Open(now, lag, h.step) /\ h.hi = R[h.step][2] - sh[h.step]
        /\ R[h.step][2] \in Nat /\ sh[h.step] \in Nat
    BY <1>3, LaneTask
  <1>5. n \in Nat /\ n >= 1 /\ h.lo + n <= h.hi
    BY <1>4
  <1>6. RestAt(left, queue, n)
    BY <1>1, <1>2, <1>5, RestOf
  <1>7. k \in 1..Len(R) /\ x[2] = p /\ e \in Int /\ e <= R[k][2] /\ d \in Nat /\ k \in Nat
    <2>1. k \in 1..Len(R) /\ x[2] = p /\ e \in Covers(R[k]) /\ Len(R) \in Nat
      BY <1>1 DEF OnLane, Lane
    <2>2. R[k][1] \in Nat /\ R[k][2] \in Nat /\ d \in Nat
      BY <1>1, <2>1 DEF Lane
    <2> QED
      BY <2>1, <2>2 DEF Covers
  <1>8. Through(now, queue, x, d) <=> Posted(now, k) /\ \A m \in DOMAIN queue : queue[m].step = k => e <= queue[m].lo + d
    <2>1. \A m \in DOMAIN queue : queue[m].part = x[2]
      BY <1>7, LaneTask
    <2> QED
      BY <1>1, <2>1 DEF Through
  <1>9. ASSUME NEW m \in DOMAIN left
        PROVE  \E j \in DOMAIN queue :
                 /\ left[m].part = p /\ left[m].step = queue[j].step
                 /\ left[m].lo = IF j = 1 THEN h.lo + n ELSE queue[j].lo
    <2>1. PICK j \in DOMAIN queue :
            /\ left[m].part = queue[j].part /\ left[m].step = queue[j].step
            /\ IF j = 1 THEN left[m].lo = queue[1].lo + n ELSE left[m].lo = queue[j].lo
      BY <1>2, <1>5, <1>6, RestEach
    <2>2. queue[j].part = p
      BY LaneTask
    <2> QED
      BY <2>1, <2>2
  <1>10. Through(now, left, x, d) <=> Posted(now, k) /\ \A m \in DOMAIN left : left[m].step = k => e <= left[m].lo + d
    BY <1>1, <1>7, <1>9 DEF Through
  <1>11. ASSUME NEW j \in DOMAIN queue, j > 1
         PROVE  \E m \in DOMAIN left : left[m].step = queue[j].step /\ left[m].lo = queue[j].lo
    <2>1. Len(queue) \in Nat /\ j \in 2..Len(queue) /\ DOMAIN queue = 1..Len(queue)
      BY <1>6, <1>11 DEF RestAt
    <2>2. CASE h.lo + n = h.hi
      <3>1. DOMAIN left = 1..(Len(queue) - 1) /\ \A m \in 1..(Len(queue) - 1) : left[m] = queue[m + 1]
        BY <1>6, <2>2 DEF RestAt
      <3>2. PICK m : m = j - 1
        OBVIOUS
      <3>3. m \in 1..(Len(queue) - 1) /\ m + 1 = j
        BY <2>1, <3>2
      <3> QED
        BY <3>1, <3>3
    <2>3. CASE h.lo + n # h.hi
      <3>1. DOMAIN left = 1..Len(queue) /\ \A m \in 2..Len(queue) : left[m] = queue[m]
        BY <1>6, <2>3 DEF RestAt
      <3> QED
        BY <2>1, <3>1
    <2> QED
      BY <2>2, <2>3
  <1>12. CASE k # h.step
    <2>1. ASSUME Through(now, queue, x, d) PROVE Through(now, left, x, d)
      <3>1. ASSUME NEW m \in DOMAIN left, left[m].step = k
            PROVE  e <= left[m].lo + d
        <4>1. PICK j \in DOMAIN queue : /\ left[m].step = queue[j].step
                                        /\ left[m].lo = IF j = 1 THEN h.lo + n ELSE queue[j].lo
          BY <1>9
        <4>2. j # 1
          BY <1>12, <3>1, <4>1
        <4> QED
          BY <1>8, <2>1, <3>1, <4>1, <4>2
      <3> QED
        BY <1>8, <1>10, <2>1, <3>1
    <2>2. ASSUME Through(now, left, x, d) PROVE Through(now, queue, x, d)
      <3>1. ASSUME NEW j \in DOMAIN queue, queue[j].step = k
            PROVE  e <= queue[j].lo + d
        <4>1. j # 1 /\ j \in Nat \ {0}
          BY <1>12, <3>1, LaneTask
        <4>2. PICK m \in DOMAIN left : left[m].step = queue[j].step /\ left[m].lo = queue[j].lo
          BY <1>11, <4>1
        <4> QED
          BY <1>10, <2>2, <3>1, <4>2
      <3> QED
        BY <1>8, <1>10, <2>2, <3>1
    <2> QED
      BY <1>1, <1>12, <2>1, <2>2
  <1>13. CASE k = h.step
    <2>1. Posted(now, k)
      BY <1>2, <1>4, <1>13, OpenPosted
    <2>2. \A j \in DOMAIN queue : j # 1 => queue[j].step # k
      <3> SUFFICES ASSUME NEW j \in DOMAIN queue, j # 1, queue[j].step = k PROVE FALSE
        OBVIOUS
      <3>1. j \in Nat \ {0} /\ (j > 1 => queue[1].step < queue[j].step)
        BY LaneTask
      <3> QED
        BY <1>7, <1>13, <3>1
    <2>3. Through(now, queue, x, d) <=> e <= h.lo + d
      BY <1>3, <1>8, <1>13, <2>1, <2>2
    <2>4. Through(now, left, x, d) <=> e <= h.lo + n + d
      <3>1. CASE h.lo + n = h.hi
        <4>1. e <= h.lo + n + d
          <5>1. PICK most : most = R[k][2]
            OBVIOUS
          <5>2. most \in Nat /\ e <= most /\ h.hi = most - d
            BY <1>1, <1>4, <1>7, <1>13, <5>1
          <5> QED
            BY <1>4, <1>5, <1>7, <3>1, <5>2
        <4>2. ASSUME NEW m \in DOMAIN left, left[m].step = k
              PROVE  e <= left[m].lo + d
          <5>1. PICK j \in DOMAIN queue : /\ left[m].step = queue[j].step
                                          /\ left[m].lo = IF j = 1 THEN h.lo + n ELSE queue[j].lo
            BY <1>9
          <5> QED
            BY <2>2, <4>1, <4>2, <5>1
        <4> QED
          BY <1>10, <2>1, <4>1, <4>2
      <3>2. CASE h.lo + n # h.hi
        <4>1. 1 \in DOMAIN left /\ left[1] = [queue[1] EXCEPT !.lo = queue[1].lo + n]
          <5>1. DOMAIN left = 1..Len(queue) /\ Len(queue) \in Nat \ {0}
            BY <1>6, <3>2 DEF RestAt
          <5>2. queue[1].lo + n # queue[1].hi
            BY <3>2
          <5>3. left[1] = [queue[1] EXCEPT !.lo = queue[1].lo + n]
            BY <1>6, <5>2, Zenon DEF RestAt
          <5>4. 1 \in DOMAIN left
            BY <5>1
          <5> QED
            BY <5>3, <5>4, Zenon
        <4>2. left[1].step = k /\ left[1].lo = h.lo + n
          <5>1. queue[1] \in Task
            BY <1>3, LaneTask
          <5> QED
            BY <1>13, <4>1, <5>1 DEF Task
        <4>3. ASSUME NEW m \in DOMAIN left, left[m].step = k
              PROVE  left[m].lo = h.lo + n
          <5>1. PICK j \in DOMAIN queue : /\ left[m].step = queue[j].step
                                          /\ left[m].lo = IF j = 1 THEN h.lo + n ELSE queue[j].lo
            BY <1>9
          <5> QED
            BY <2>2, <4>3, <5>1
        <4> QED
          BY <1>10, <2>1, <4>1, <4>2, <4>3
      <3> QED
        BY <3>1, <3>2
    <2>5. e <= h.lo + d => e <= h.lo + n + d
      BY <1>4, <1>5, <1>7
    <2>6. h.lo + n + d = h.lo + sh[h.step] + n
      BY <1>1, <1>4, <1>5, <1>13
    <2> QED
      BY <1>1, <1>13, <2>3, <2>4, <2>5, <2>6
  <1> QED
    BY <1>12, <1>13

(* What is through of the first task's packet and of those before it.        *)
LEMMA LaneHead ==
  ASSUME NEW queue, NEW p, NEW R, NEW sh, NEW now, NEW lag, Lane(queue, p, R, sh, now, lag),
         queue # <<>>, NEW h, h = queue[1], NEW x \in Item, OnLane(x, p, R)
  PROVE  /\ x[3] < h.step => Through(now, queue, x, sh[x[3]])
         /\ x[3] = h.step => (Through(now, queue, x, sh[x[3]]) <=> x[4] <= h.lo + sh[h.step])
  <1>1. PICK k, e, d : k = x[3] /\ e = x[4] /\ d = sh[k]
    OBVIOUS
  <1>2. queue \in Seq(Task) /\ now.i \in Nat /\ lag \in {0, 1}
    BY DEF Lane
  <1>3. 1 \in DOMAIN queue
    BY <1>2, EmptySeq, LenProperties
  <1>4. h.step \in Nat /\ h.lo \in Nat /\ h.part = p /\ Open(now, lag, h.step) /\ sh[h.step] \in Nat
    BY <1>3, LaneTask
  <1>5. k \in Nat /\ e \in Int /\ x[2] = p
    <2>1. x[3] \in Nat /\ x[4] \in Int
      BY DEF Item
    <2> QED
      BY <1>1, <2>1 DEF OnLane
  <1>6. Posted(now, h.step) /\ h.step <= now.i
    BY <1>2, <1>4, OpenPosted
  <1>7. \A j \in DOMAIN queue : j # 1 => h.step < queue[j].step
    <2> SUFFICES ASSUME NEW j \in DOMAIN queue, j # 1 PROVE h.step < queue[j].step
      OBVIOUS
    <2>1. j \in Nat \ {0} /\ (j > 1 => queue[1].step < queue[j].step)
      BY LaneTask
    <2> QED
      BY <2>1
  <1>8. \A j \in DOMAIN queue : queue[j].part = x[2] /\ queue[j].step \in Nat
    BY <1>5, LaneTask
  <1>9. CASE k < h.step
    <2>1. Posted(now, k)
      BY <1>2, <1>4, <1>5, <1>6, <1>9 DEF Posted
    <2>2. \A j \in DOMAIN queue : queue[j].step # k
      <3> SUFFICES ASSUME NEW j \in DOMAIN queue, queue[j].step = k PROVE FALSE
        OBVIOUS
      <3>1. j # 1
        BY <1>4, <1>5, <1>9
      <3> QED
        BY <1>4, <1>5, <1>7, <1>9, <3>1
    <2>3. Through(now, queue, x, d)
      BY <1>1, <2>1, <2>2 DEF Through
    <2> QED
      BY <1>1, <1>4, <1>5, <1>9, <2>3
  <1>10. CASE k = h.step
    <2>1. \A j \in DOMAIN queue : j # 1 => queue[j].step # k
      BY <1>4, <1>5, <1>7, <1>8, <1>10
    <2>2. Through(now, queue, x, d) <=> e <= h.lo + d
      BY <1>1, <1>3, <1>6, <1>8, <1>10, <2>1 DEF Through
    <2> QED
      BY <1>1, <1>4, <1>10, <2>2
  <1> QED
    BY <1>1, <1>9, <1>10

LaneOf(L, c, p, R) == L \subseteq Item /\ \A x \in Item : x[1] = c => (x \in L <=> OnLane(x, p, R))

Marks(L, S, c, now, queue, sh) ==
  /\ S \subseteq L
  /\ \A x \in L : x \in S <=> x[1] < c \/ (x[1] = c /\ Through(now, queue, x, sh[x[3]]))

NextItems(c, p, h, sh, n) == [m \in 1..n |-> <<c, p, h.step, h.lo + sh[h.step] + m>>]

OnFirst(h, k, p, R, sh) ==
  /\ k \in Nat /\ h.lo \in Nat /\ h.hi \in Int /\ h.part = p /\ k \in 1..Len(R)
  /\ h.hi = R[k][2] - sh[k] /\ R[k][1] - sh[k] <= h.lo
  /\ R[k][1] \in Nat /\ R[k][2] \in Nat /\ sh[k] \in Nat

LEMMA LaneFirst ==
  ASSUME NEW queue, NEW p, NEW R, NEW sh, NEW now, NEW lag, Lane(queue, p, R, sh, now, lag),
         1 \in DOMAIN queue
  PROVE  OnFirst(queue[1], queue[1].step, p, R, sh)
  BY LaneTask DEF OnFirst

LEMMA LaneMoves ==
  ASSUME NEW queue, NEW p \in Nat, NEW R, NEW sh, NEW now, NEW lag, Lane(queue, p, R, sh, now, lag),
         queue # <<>>, NEW h, h = queue[1], NEW n \in 1..(h.hi - h.lo),
         NEW c \in 1..Len(Calls), NEW L, NEW S, NEW T,
         LaneOf(L, c, p, R), Marks(L, S, c, now, queue, sh), Marks(L, T, c, now, Rest(queue, n), sh),
         NEW N, N = NextItems(c, p, h, sh, n)
  PROVE  n \in Nat /\ Moves(L, S, N, n) /\ T = S \cup Ran(N, n)
  <1>1. PICK k, a : k = h.step /\ a = h.lo + sh[h.step]
    OBVIOUS
  <1>2. queue \in Seq(Task) /\ Len(R) \in Nat
    BY DEF Lane
  <1>3. 1 \in DOMAIN queue
    BY <1>2, EmptySeq, LenProperties
  <1>4. /\ k \in Nat /\ h.lo \in Nat /\ h.hi \in Int /\ h.part = p /\ k \in 1..Len(R)
        /\ h.hi = R[k][2] - sh[k] /\ R[k][1] - sh[k] <= h.lo
        /\ R[k][1] \in Nat /\ R[k][2] \in Nat /\ sh[k] \in Nat
    <2>1. OnFirst(queue[1], queue[1].step, p, R, sh)
      BY <1>3, LaneFirst
    <2>2. OnFirst(h, k, p, R, sh)
      BY <1>1, <2>1
    <2> QED
      BY <2>2 DEF OnFirst
  <1>5. n \in Nat /\ n >= 1 /\ h.lo + n <= h.hi
    BY <1>4
  <1>6. a \in Nat /\ R[k][1] <= a /\ a + n <= R[k][2]
    <2>1. PICK f, g, d, b, t : f = R[k][1] /\ g = R[k][2] /\ d = sh[k] /\ b = h.lo /\ t = h.hi
      OBVIOUS
    <2>2. f \in Nat /\ g \in Nat /\ d \in Nat /\ b \in Nat /\ t = g - d /\ f - d <= b /\ b + n <= t /\ a = b + d
      <3>1. sh[h.step] = d /\ a = b + d
        BY <1>1, <2>1, Zenon
      <3>2. f \in Nat /\ g \in Nat /\ d \in Nat /\ b \in Nat /\ t = g - d /\ f - d <= b
        BY <1>4, <2>1, Zenon
      <3>3. b + n <= t
        BY <1>5, <2>1, Zenon
      <3> QED
        BY <3>1, <3>2, <3>3
    <2>3. a \in Nat /\ f <= a /\ a + n <= g
      BY <1>5, <2>2
    <2> QED
      BY <2>1, <2>3
  <1>7. \A m \in 1..n : N[m] = <<c, p, k, a + m>>
    BY <1>1 DEF NextItems
  <1>8. L \subseteq Item /\ S \subseteq L /\ T \subseteq L /\ Len(Calls) \in Nat
    BY RingAssumption DEF LaneOf, Marks
  <1>9. ASSUME NEW x \in L
        PROVE  x \in Item /\ x[1] \in Int /\ x[3] \in Nat /\ x[4] \in Int /\ x = <<x[1], x[2], x[3], x[4]>>
    <2>1. x \in Item
      BY <1>8
    <2> QED
      BY <2>1 DEF Item
  <1>10. ASSUME NEW x \in L, x[1] = c
         PROVE  OnLane(x, p, R) /\ x[2] = p
    BY <1>9, <1>10 DEF LaneOf, OnLane
  <1>11. ASSUME NEW m \in 1..n
         PROVE  N[m] \in L /\ N[m] \notin S
    <2>1. PICK x, y : x = N[m] /\ y = a + m
      OBVIOUS
    <2>2. y \in Int /\ a < y /\ y <= a + n
      BY <1>5, <1>6, <2>1
    <2>3. x = <<c, p, k, y>>
      BY <1>7, <2>1
    <2>4. x \in Item /\ x[1] = c /\ x[2] = p /\ x[3] = k /\ x[4] = y
      <3>1. k \in Nat
        BY <1>4
      <3>2. <<c, p, k, y>> \in Item
        BY <2>2, <3>1 DEF Item
      <3>3. x[1] = c /\ x[2] = p /\ x[3] = k /\ x[4] = y
        BY <2>3
      <3> QED
        BY <2>3, <3>2, <3>3, Zenon
    <2>5. y \in Covers(R[k])
      <3>1. PICK f, g : f = R[k][1] /\ g = R[k][2]
        OBVIOUS
      <3>2. f \in Nat /\ g \in Nat /\ f <= a /\ a + n <= g
        BY <1>4, <1>6, <3>1
      <3>3. y \in (f + 1)..g
        BY <1>5, <1>6, <2>2, <3>2
      <3> QED
        BY <3>1, <3>3 DEF Covers
    <2>6. OnLane(x, p, R)
      BY <1>4, <2>4, <2>5 DEF OnLane
    <2>7. x \in L
      BY <2>4, <2>6 DEF LaneOf
    <2>8. ~ (y <= a)
      BY <1>6, <2>2
    <2>9. ~ Through(now, queue, x, sh[x[3]])
      BY <1>1, <2>4, <2>6, <2>8, LaneHead
    <2>10. ~ (x[1] < c)
      BY <1>8, <2>4
    <2> QED
      BY <2>1, <2>7, <2>9, <2>10 DEF Marks
  <1>12. ASSUME NEW i \in 1..n, NEW m \in 1..n, i < m
         PROVE  Before(N[i], N[m])
    <2>1. a + i < a + m
      BY <1>5, <1>6, <1>12
    <2> QED
      BY <1>7, <2>1 DEF Before
  <1>13. ASSUME NEW x \in L, x[1] = c, x[3] = k, x[4] > a, NEW y \in Int, x[4] <= a + y, y <= n
         PROVE  \E i \in 1..n : i <= y /\ x = N[i]
    <2>1. PICK i : i = x[4] - a
      OBVIOUS
    <2>2. i \in 1..n /\ i <= y /\ a + i = x[4]
      BY <1>5, <1>6, <1>9, <1>13, <2>1
    <2>3. x = <<c, p, k, a + i>>
      BY <1>9, <1>10, <1>13, <2>2
    <2> QED
      BY <1>7, <2>2, <2>3
  <1>14. ASSUME NEW x \in L, x[1] = c, x[3] = k, x[4] <= a
         PROVE  x \in S
    <2>1. OnLane(x, p, R) /\ x \in Item
      BY <1>9, <1>10, <1>14
    <2>2. Through(now, queue, x, sh[x[3]])
      BY <1>1, <1>14, <2>1, LaneHead
    <2> QED
      BY <1>14, <2>2 DEF Marks
  <1>15. ASSUME NEW x \in L, NEW m \in 1..n, Before(x, N[m])
         PROVE  x \in S \/ \E i \in 1..n : i < m /\ x = N[i]
    <2>1. \/ x[1] < c
          \/ x[1] = c /\ x[3] < k
          \/ x[1] = c /\ x[3] = k /\ x[4] < a + m
      <3>1. N[m] = <<c, p, k, a + m>>
        BY <1>7
      <3>2. N[m][1] = c /\ N[m][3] = k /\ N[m][4] = a + m
        BY <3>1
      <3> QED
        BY <1>15, <3>2 DEF Before
    <2>2. CASE x[1] < c
      BY <2>2 DEF Marks
    <2>3. CASE x[1] = c /\ x[3] < k
      <3>1. OnLane(x, p, R) /\ x \in Item
        BY <1>9, <1>10, <2>3
      <3>2. Through(now, queue, x, sh[x[3]])
        BY <1>1, <2>3, <3>1, LaneHead
      <3> QED
        BY <2>3, <3>2 DEF Marks
    <2>4. CASE x[1] = c /\ x[3] = k /\ x[4] < a + m
      <3>1. CASE x[4] <= a
        BY <1>14, <2>4, <3>1
      <3>2. CASE ~ (x[4] <= a)
        <4>1. PICK y : y = m - 1
          OBVIOUS
        <4>2. y \in Int /\ x[4] <= a + y /\ x[4] > a /\ y <= n /\ y < m
          BY <1>5, <1>6, <1>9, <2>4, <3>2, <4>1
        <4>3. PICK i \in 1..n : i <= y /\ x = N[i]
          BY <1>13, <2>4, <4>2
        <4>4. i < m
          BY <4>2, <4>3
        <4> QED
          BY <4>3, <4>4
      <3> QED
        BY <3>1, <3>2
    <2> QED
      BY <2>1, <2>2, <2>3, <2>4
  <1>16. Moves(L, S, N, n)
    BY <1>11, <1>12, <1>15 DEF Moves
  <1>17. ASSUME NEW x \in L, x[1] = c
         PROVE  x \in T <=> x \in S \/ (x[3] = k /\ x[4] <= a + n)
    <2>1. OnLane(x, p, R) /\ x \in Item
      BY <1>9, <1>10, <1>17
    <2>2. Through(now, Rest(queue, n), x, sh[x[3]]) <=>
            Through(now, queue, x, sh[x[3]]) \/ (x[3] = k /\ x[4] <= a + n)
      BY <1>1, <2>1, LaneRest
    <2>3. ~ (x[1] < c)
      BY <1>8, <1>17
    <2> QED
      BY <1>17, <2>2, <2>3 DEF Marks
  <1>18. ASSUME NEW x \in T
         PROVE  x \in S \cup Ran(N, n)
    <2>1. x \in L
      BY <1>8
    <2>2. CASE x[1] = c
      <3>1. CASE x \in S
        BY <3>1
      <3>2. CASE x \notin S
        <4>1. x[3] = k /\ x[4] <= a + n
          BY <1>17, <2>1, <2>2, <3>2
        <4>2. x[4] > a
          BY <1>6, <1>9, <1>14, <2>1, <2>2, <3>2, <4>1
        <4>3. n \in Int /\ n <= n
          BY <1>5
        <4>4. \E i \in 1..n : i <= n /\ x = N[i]
          BY <1>13, <2>1, <2>2, <4>1, <4>2, <4>3
        <4> QED
          BY <4>4 DEF Ran
      <3> QED
        BY <3>1, <3>2
    <2>3. CASE x[1] # c
      BY <2>1, <2>3 DEF Marks
    <2> QED
      BY <2>2, <2>3
  <1>19. ASSUME NEW x \in S
         PROVE  x \in T
    <2>1. x \in L
      BY <1>8
    <2>2. CASE x[1] = c
      BY <1>17, <2>1, <2>2
    <2>3. CASE x[1] # c
      BY <2>1, <2>3 DEF Marks
    <2> QED
      BY <2>2, <2>3
  <1>20. ASSUME NEW m \in 1..n
         PROVE  N[m] \in T
    <2>1. N[m] = <<c, p, k, a + m>> /\ N[m] \in L
      BY <1>7, <1>11
    <2>2. N[m][1] = c /\ N[m][3] = k /\ N[m][4] = a + m
      BY <2>1
    <2>3. a + m <= a + n
      BY <1>5, <1>6
    <2> QED
      BY <1>17, <2>1, <2>2, <2>3
  <1>21. T = S \cup Ran(N, n)
    BY <1>18, <1>19, <1>20 DEF Ran
  <1> QED
    BY <1>5, <1>16, <1>21

(* A task is queued: nothing more is through than before.                    *)
QueuedAt(more, queue, t, empty) ==
  /\ more \in Seq(Task)
  /\ \/ empty /\ more = queue
     \/ ~ empty /\ AppendAt(more, queue, t)

LEMMA QueuedOr ==
  ASSUME NEW queue \in Seq(Task), NEW p \in Nat, NEW i \in Nat, NEW place \in {0, 1, InPlace},
         NEW range, range[1] \in Nat, range[2] \in Int,
         NEW more, more = Queued(queue, p, i, place, range)
  PROVE  QueuedAt(more, queue, NewTask(p, i, place, range), range[1] = range[2])
  <1>1. CASE range[1] = range[2]
    BY <1>1 DEF Queued, QueuedAt
  <1>2. CASE range[1] # range[2]
    <2>1. PICK t : t = NewTask(p, i, place, range)
      OBVIOUS
    <2>2. t \in Task /\ more = Append(queue, t)
      BY <1>2, <2>1 DEF Task, NewTask, Queued
    <2>3. AppendAt(more, queue, t)
      BY <2>2, AppendIs
    <2> QED
      BY <1>2, <2>1, <2>3 DEF QueuedAt, AppendAt
  <1> QED
    BY <1>1, <1>2

PostedTo(next, now, k) == \A j \in Nat : Posted(next, j) <=> Posted(now, j) \/ j = k

LEMMA LanePost ==
  ASSUME NEW queue, NEW p, NEW R, NEW sh, NEW now, NEW lag, Lane(queue, p, R, sh, now, lag),
         now.phase = "post", NEW k, k = now.i, k \in 1..Len(R),
         NEW t, t.part = p, t.step = k, t.lo = R[k][1] - sh[k],
         NEW more, QueuedAt(more, queue, t, R[k][1] = R[k][2]),
         NEW next, PostedTo(next, now, k)
  PROVE  /\ \A j \in DOMAIN queue : queue[j].step < k
         /\ \A x \in Item : OnLane(x, p, R) =>
              (Through(next, more, x, sh[x[3]]) <=> Through(now, queue, x, sh[x[3]]))
  <1>1. queue \in Seq(Task) /\ k \in Nat /\ lag \in {0, 1}
    BY DEF Lane
  <1>2. ASSUME NEW j \in DOMAIN queue
        PROVE  queue[j].step < k
    <2>1. Open(now, lag, queue[j].step) /\ queue[j].step \in Nat
      BY LaneTask
    <2> QED
      BY <2>1 DEF Open
  <1>3. ASSUME NEW x \in Item, OnLane(x, p, R)
        PROVE  Through(next, more, x, sh[x[3]]) <=> Through(now, queue, x, sh[x[3]])
    <2>1. PICK s, e, d : s = x[3] /\ e = x[4] /\ d = sh[s]
      OBVIOUS
    <2>2. s \in Nat /\ e \in Int /\ x[2] = p /\ s \in 1..Len(R) /\ e \in Covers(R[s])
      <3>1. x[3] \in Nat /\ x[4] \in Int
        BY DEF Item
      <3> QED
        BY <1>3, <2>1, <3>1 DEF OnLane
    <2>3. PICK f, g : f = R[s][1] /\ g = R[s][2]
      OBVIOUS
    <2>4. f \in Nat /\ g \in Nat /\ d \in Nat /\ f < e /\ e <= g
      <3>1. f \in Nat /\ g \in Nat /\ d \in {0, f}
        BY <2>1, <2>2, <2>3 DEF Lane
      <3>2. e \in (f + 1)..g
        BY <2>2, <2>3 DEF Covers
      <3> QED
        BY <3>1, <3>2
    <2>5. CASE s = k
      <3>9. ~ Posted(now, k)
        BY <1>1 DEF Posted
      <3>1. ~ Through(now, queue, x, d)
        BY <2>1, <2>5, <3>9 DEF Through
      <3>2. f # g
        BY <2>2, <2>4
      <3>3. AppendAt(more, queue, t)
        BY <2>3, <2>5, <3>2 DEF QueuedAt
      <3>4. PICK m : m = Len(queue) + 1
        OBVIOUS
      <3>5. m \in DOMAIN more /\ more[m] = t
        <4>1. Len(queue) \in Nat /\ DOMAIN more = 1..(Len(queue) + 1) /\ more[Len(queue) + 1] = t
          BY <3>3 DEF AppendAt
        <4> QED
          BY <3>4, <4>1
      <3>6. PICK u : u = t.lo
        OBVIOUS
      <3>10. u = f - d
        BY <2>1, <2>3, <2>5, <3>6
      <3>11. ~ (e <= u + d)
        BY <2>2, <2>4, <3>10
      <3>7. ~ (e <= t.lo + d)
        BY <3>6, <3>11
      <3>8. ~ Through(next, more, x, d)
        BY <2>1, <2>2, <2>5, <3>5, <3>7 DEF Through
      <3> QED
        BY <2>1, <3>1, <3>8
    <2>6. CASE s # k
      <3>1. Posted(next, s) <=> Posted(now, s)
        BY <2>2, <2>6 DEF PostedTo
      <3>2. CASE more = queue
        BY <2>1, <3>1, <3>2 DEF Through
      <3>3. CASE AppendAt(more, queue, t)
        <4>1. /\ Len(queue) \in Nat /\ DOMAIN queue = 1..Len(queue) /\ DOMAIN more = 1..(Len(queue) + 1)
              /\ \A j \in 1..Len(queue) : more[j] = queue[j]
              /\ more[Len(queue) + 1] = t
          BY <3>3 DEF AppendAt
        <4>2. \A j \in DOMAIN more : j \in DOMAIN queue \/ more[j] = t
          BY <4>1
        <4>3. \A j \in DOMAIN queue : j \in DOMAIN more /\ more[j] = queue[j]
          BY <4>1
        <4> QED
          BY <2>1, <2>6, <3>1, <4>2, <4>3 DEF Through
      <3> QED
        BY <3>2, <3>3 DEF QueuedAt
    <2> QED
      BY <2>5, <2>6
  <1> QED
    BY <1>2, <1>3

-----------------------------------------------------------------------------
(* The lanes of a rank.                                                      *)
SendShift(mine) == [k \in 1..Len(mine.sends) |-> 0]
RecvShift(mine) == [k \in 1..Len(mine.recvs) |-> Shift(mine, k)]

LEMMA SendLane ==
  ASSUME NEW s, NEW queue, NEW P, NEW Q, NEW D, RankRight(D, P, Q), Fits(P),
         SendsRight(s, queue, P, Q), SendQueue(P, queue),
         NEW p \in DOMAIN P, s = <<s[1], P[p].side, P[p].link>>
  PROVE  Lane(queue, p, P[p].sends, SendShift(P[p]), Q[p], P[p].lag)
  <1>1. PICK mine, R, sh : mine = P[p] /\ R = mine.sends /\ sh = SendShift(mine)
    OBVIOUS
  <1>2. queue \in Seq(Task) /\ Ordered(queue)
    BY DEF SendsRight, SendQueue
  <1>3. Q[p].i \in Nat /\ mine.lag \in {0, 1} /\ Len(R) \in Nat
    BY <1>1 DEF RankRight, PlanRight, Whole, Advances, Progress
  <1>4. ASSUME NEW k \in 1..Len(R)
        PROVE  R[k][1] \in Nat /\ R[k][2] \in Nat /\ sh[k] = 0
    <2>1. Whole(mine, Len(D))
      BY <1>1 DEF RankRight, PlanRight
    <2>2. Within(R[k], Len(D))
      BY <1>1, <2>1 DEF Whole
    <2> QED
      BY <1>1, <2>2 DEF Within, SendShift
  <1>5. ASSUME NEW m \in DOMAIN queue, NEW t, t = queue[m]
        PROVE  /\ t.part = p /\ t.step \in 1..Len(R) /\ Open(Q[p], mine.lag, t.step)
               /\ t.hi = R[t.step][2] - sh[t.step] /\ R[t.step][1] - sh[t.step] <= t.lo
               /\ m > 1 => t.lo = R[t.step][1] - sh[t.step]
    <2>1. SendRight(s, t, P, Q)
      BY <1>5 DEF SendsRight
    <2>2. t.part \in DOMAIN P /\ s = <<s[1], P[t.part].side, P[t.part].link>>
      BY <2>1 DEF SendRight, Current
    <2>3. P[t.part].side = P[p].side /\ P[t.part].link = P[p].link
      BY <2>2
    <2>4. t.part = p
      BY <2>2, <2>3 DEF Fits
    <2>5. t.step \in 1..Len(R) /\ Open(Q[p], mine.lag, t.step)
      BY <1>1, <2>1, <2>4 DEF SendRight, Current
    <2>6. Begun(t, R[t.step], m)
      BY <1>1, <1>5, <2>4 DEF SendQueue, SendRange
    <2>7. R[t.step][1] - sh[t.step] = R[t.step][1] /\ R[t.step][2] - sh[t.step] = R[t.step][2]
      BY <1>4, <2>5
    <2> QED
      BY <2>4, <2>5, <2>6, <2>7 DEF Begun
  <1>6. \A k \in 1..Len(R) : R[k][1] \in Nat /\ R[k][2] \in Nat /\ sh[k] \in {0, R[k][1]}
    BY <1>4
  <1>7. \A m \in DOMAIN queue :
          LET t == queue[m] IN
          /\ t.part = p /\ t.step \in 1..Len(R) /\ Open(Q[p], mine.lag, t.step)
          /\ t.hi = R[t.step][2] - sh[t.step] /\ R[t.step][1] - sh[t.step] <= t.lo
          /\ m > 1 => t.lo = R[t.step][1] - sh[t.step]
    BY <1>5
  <1> QED
    BY <1>1, <1>2, <1>3, <1>6, <1>7 DEF Lane

LEMMA RecvLane ==
  ASSUME NEW s, NEW queue, NEW P, NEW Q, NEW D, RankRight(D, P, Q), Fits(P),
         RecvsRight(s, queue, P, Q), RecvQueue(P, queue),
         NEW p \in DOMAIN P, s = <<s[1], Other(P[p].side), P[p].link>>
  PROVE  Lane(queue, p, P[p].recvs, RecvShift(P[p]), Q[p], P[p].lag)
  <1>1. PICK mine, R, sh : mine = P[p] /\ R = mine.recvs /\ sh = RecvShift(mine)
    OBVIOUS
  <1>2. queue \in Seq(Task) /\ Ordered(queue)
    BY DEF RecvsRight, RecvQueue
  <1>0. Whole(mine, Len(D))
    BY <1>1 DEF RankRight, PlanRight
  <1>3. Q[p].i \in Nat /\ mine.lag \in {0, 1} /\ Len(R) \in Nat /\ Len(mine.sends) = Len(R)
    BY <1>0, <1>1 DEF RankRight, Whole, Advances, Progress
  <1>4. ASSUME NEW k \in 1..Len(R)
        PROVE  R[k][1] \in Nat /\ R[k][2] \in Nat /\ sh[k] = Shift(mine, k) /\ sh[k] \in {0, R[k][1]}
    <2>2. Within(R[k], Len(D))
      BY <1>0, <1>1, <1>3 DEF Whole
    <2>3. sh[k] = Shift(mine, k)
      BY <1>1 DEF RecvShift
    <2> QED
      BY <1>1, <2>2, <2>3 DEF Within, Shift
  <1>5. ASSUME NEW m \in DOMAIN queue, NEW t, t = queue[m]
        PROVE  /\ t.part = p /\ t.step \in 1..Len(R) /\ Open(Q[p], mine.lag, t.step)
               /\ t.hi = R[t.step][2] - sh[t.step] /\ R[t.step][1] - sh[t.step] <= t.lo
               /\ m > 1 => t.lo = R[t.step][1] - sh[t.step]
    <2>1. RecvRight(s, t, P, Q)
      BY <1>5 DEF RecvsRight
    <2>2. t.part \in DOMAIN P /\ s = <<s[1], Other(P[t.part].side), P[t.part].link>>
      BY <2>1 DEF RecvRight, Current
    <2>8. Other(P[t.part].side) = Other(P[p].side) /\ P[t.part].link = P[p].link
      BY <2>2
    <2>3. P[t.part].side = P[p].side
      BY <2>2, <2>8 DEF Fits, PartFits, Other
    <2>4. t.part = p
      BY <2>2, <2>3, <2>8 DEF Fits
    <2>5. t.step \in 1..Len(R) /\ Open(Q[p], mine.lag, t.step)
      BY <1>1, <1>3, <2>1, <2>4 DEF RecvRight, Current
    <2>6. Begun(t, RecvRange(P, t), m)
      BY <1>5 DEF RecvQueue
    <2>7. RecvRange(P, t) = <<R[t.step][1] - sh[t.step], R[t.step][2] - sh[t.step]>>
      BY <1>1, <1>4, <2>4, <2>5 DEF RecvRange
    <2>9. RecvRange(P, t)[1] = R[t.step][1] - sh[t.step] /\ RecvRange(P, t)[2] = R[t.step][2] - sh[t.step]
      BY <2>7
    <2> QED
      BY <2>4, <2>5, <2>6, <2>9 DEF Begun
  <1>6. \A k \in 1..Len(R) : R[k][1] \in Nat /\ R[k][2] \in Nat /\ sh[k] \in {0, R[k][1]}
    BY <1>4
  <1>7. \A m \in DOMAIN queue :
          LET t == queue[m] IN
          /\ t.part = p /\ t.step \in 1..Len(R) /\ Open(Q[p], mine.lag, t.step)
          /\ t.hi = R[t.step][2] - sh[t.step] /\ R[t.step][1] - sh[t.step] <= t.lo
          /\ m > 1 => t.lo = R[t.step][1] - sh[t.step]
    BY <1>5
  <1> QED
    BY <1>1, <1>2, <1>3, <1>6, <1>7 DEF Lane

-----------------------------------------------------------------------------
(* The lines of a socket.                                                    *)
LEMMA SendLineOf ==
  ASSUME NEW c \in 1..Len(Calls), NEW r, NEW P, P = Parts(c, r), Fits(P),
         NEW p \in DOMAIN P, NEW s, s = <<r, P[p].side, P[p].link>>
  PROVE  LaneOf(SendLine(s), c, p, P[p].sends)
  <1>1. s[1] = r
    OBVIOUS
  <1>2. ASSUME NEW x \in Item, x[1] = c
        PROVE  x \in SendLine(s) <=> OnLane(x, p, P[p].sends)
    <2>1. x \in SendLine(s) <=>
            /\ x[2] \in DOMAIN P
            /\ s = <<s[1], P[x[2]].side, P[x[2]].link>>
            /\ x[3] \in 1..Len(P[x[2]].sends)
            /\ x[4] \in Covers(P[x[2]].sends[x[3]])
      BY <1>1, <1>2 DEF SendLine
    <2>2. x[2] \in DOMAIN P /\ s = <<s[1], P[x[2]].side, P[x[2]].link>> => x[2] = p
      <3> SUFFICES ASSUME x[2] \in DOMAIN P, s = <<s[1], P[x[2]].side, P[x[2]].link>> PROVE x[2] = p
        OBVIOUS
      <3>1. P[x[2]].side = P[p].side /\ P[x[2]].link = P[p].link
        OBVIOUS
      <3> QED
        BY <3>1 DEF Fits
    <2>3. s = <<s[1], P[p].side, P[p].link>>
      BY <1>1
    <2> QED
      BY <2>1, <2>2, <2>3 DEF OnLane
  <1> QED
    BY <1>2 DEF LaneOf, SendLine

LEMMA RecvLineOf ==
  ASSUME NEW c \in 1..Len(Calls), NEW r, NEW P, P = Parts(c, r), Fits(P),
         NEW p \in DOMAIN P, NEW s, s = <<r, Other(P[p].side), P[p].link>>
  PROVE  LaneOf(RecvLine(s), c, p, P[p].recvs)
  <1>1. s[1] = r
    OBVIOUS
  <1>2. ASSUME NEW x \in Item, x[1] = c
        PROVE  x \in RecvLine(s) <=> OnLane(x, p, P[p].recvs)
    <2>1. x \in RecvLine(s) <=>
            /\ x[2] \in DOMAIN P
            /\ s = <<s[1], Other(P[x[2]].side), P[x[2]].link>>
            /\ x[3] \in 1..Len(P[x[2]].recvs)
            /\ x[4] \in Covers(P[x[2]].recvs[x[3]])
      BY <1>1, <1>2 DEF RecvLine
    <2>2. x[2] \in DOMAIN P /\ s = <<s[1], Other(P[x[2]].side), P[x[2]].link>> => x[2] = p
      <3> SUFFICES ASSUME x[2] \in DOMAIN P, s = <<s[1], Other(P[x[2]].side), P[x[2]].link>> PROVE x[2] = p
        OBVIOUS
      <3>1. Other(P[x[2]].side) = Other(P[p].side) /\ P[x[2]].link = P[p].link
        OBVIOUS
      <3>2. P[x[2]].side = P[p].side
        BY <3>1 DEF Fits, PartFits, Other
      <3> QED
        BY <3>1, <3>2 DEF Fits
    <2>3. s = <<s[1], Other(P[p].side), P[p].link>>
      BY <1>1
    <2> QED
      BY <2>1, <2>2, <2>3 DEF OnLane
  <1> QED
    BY <1>2 DEF LaneOf, RecvLine

LEMMA SendMarks ==
  ASSUME NEW s, NEW c, NEW P, NEW Q, NEW queue, NEW p, LaneOf(SendLine(s), c, p, P[p].sends)
  PROVE  Marks(SendLine(s), SentOf(s, c, Q, queue), c, Q[p], queue, SendShift(P[p]))
  <1>1. ASSUME NEW x \in SendLine(s)
        PROVE  x \in SentOf(s, c, Q, queue) <=>
                 x[1] < c \/ (x[1] = c /\ Through(Q[p], queue, x, SendShift(P[p])[x[3]]))
    <2>1. x \in SentOf(s, c, Q, queue) <=> x[1] < c \/ (x[1] = c /\ Through(Q[x[2]], queue, x, 0))
      BY DEF SentOf, Done
    <2>2. ASSUME x[1] = c
          PROVE  x[2] = p /\ SendShift(P[p])[x[3]] = 0
      <3>1. x \in Item
        BY DEF LaneOf
      <3>2. OnLane(x, p, P[p].sends)
        BY <2>2, <3>1 DEF LaneOf
      <3>3. x[2] = p /\ x[3] \in 1..Len(P[p].sends)
        BY <3>2 DEF OnLane
      <3> QED
        BY <3>3 DEF SendShift
    <2> QED
      BY <2>1, <2>2
  <1>2. SentOf(s, c, Q, queue) \subseteq SendLine(s)
    BY DEF SentOf
  <1> QED
    BY <1>1, <1>2 DEF Marks

LEMMA RecvMarks ==
  ASSUME NEW s, NEW c, NEW P, NEW Q, NEW queue, NEW p, LaneOf(RecvLine(s), c, p, P[p].recvs)
  PROVE  Marks(RecvLine(s), ArrivedOf(s, c, P, Q, queue), c, Q[p], queue, RecvShift(P[p]))
  <1>1. ASSUME NEW x \in RecvLine(s)
        PROVE  x \in ArrivedOf(s, c, P, Q, queue) <=>
                 x[1] < c \/ (x[1] = c /\ Through(Q[p], queue, x, RecvShift(P[p])[x[3]]))
    <2>1. x \in ArrivedOf(s, c, P, Q, queue) <=>
            x[1] < c \/ (x[1] = c /\ Through(Q[x[2]], queue, x, Shift(P[x[2]], x[3])))
      BY DEF ArrivedOf, Done
    <2>2. ASSUME x[1] = c
          PROVE  x[2] = p /\ RecvShift(P[p])[x[3]] = Shift(P[p], x[3])
      <3>1. x \in Item
        BY DEF LaneOf
      <3>2. OnLane(x, p, P[p].recvs)
        BY <2>2, <3>1 DEF LaneOf
      <3>3. x[2] = p /\ x[3] \in 1..Len(P[p].recvs)
        BY <3>2 DEF OnLane
      <3> QED
        BY <3>3 DEF RecvShift
    <2> QED
      BY <2>1, <2>2
  <1>2. ArrivedOf(s, c, P, Q, queue) \subseteq RecvLine(s)
    BY DEF ArrivedOf
  <1> QED
    BY <1>1, <1>2 DEF Marks

(* Two sets whose elements of the current call are the same.                 *)
LEMMA SentSame ==
  ASSUME NEW s, NEW c, NEW Q, NEW queue, NEW Q2, NEW queue2,
         \A x \in SendLine(s) : x[1] = c =>
           (Through(Q[x[2]], queue, x, 0) <=> Through(Q2[x[2]], queue2, x, 0))
  PROVE  SentOf(s, c, Q, queue) = SentOf(s, c, Q2, queue2)
  BY DEF SentOf, Done

LEMMA ArrivedSame ==
  ASSUME NEW s, NEW c, NEW P, NEW Q, NEW queue, NEW Q2, NEW queue2,
         \A x \in RecvLine(s) : x[1] = c =>
           (Through(Q[x[2]], queue, x, Shift(P[x[2]], x[3])) <=>
              Through(Q2[x[2]], queue2, x, Shift(P[x[2]], x[3])))
  PROVE  ArrivedOf(s, c, P, Q, queue) = ArrivedOf(s, c, P, Q2, queue2)
  BY DEF ArrivedOf, Done

-----------------------------------------------------------------------------
(* One end of a connection has what the other one has.                       *)
LEMMA PeerIs ==
  ASSUME NEW s \in Socket
  PROVE  /\ Peer(s) \in Socket /\ Peer(Peer(s)) = s
         /\ \A side \in {"left", "right"} : \A link :
              s = <<s[1], side, link>> =>
                Peer(s) = <<Toll(s[1], side), Other(side), link>> /\ link \in 0..(Links - 1)
         /\ \A side \in {"left", "right"} : \A link :
              s = <<s[1], Other(side), link>> => Peer(s) = <<From(s[1], side), side, link>>
  <1>1. PICK r, side, link : r = s[1] /\ side = s[2] /\ link = s[3]
    OBVIOUS
  <1>2. s = <<r, side, link>> /\ r \in Rank /\ side \in {"left", "right"} /\ link \in 0..(Links - 1)
    BY <1>1 DEF Socket
  <1>3. /\ Right(r) \in Rank /\ Left(r) \in Rank
        /\ Left(Right(r)) = r /\ Right(Left(r)) = r
    BY <1>2, Neighbours
  <1>4. CASE side = "right"
    <2>1. Peer(s) = <<Right(r), "left", link>>
      BY <1>1, <1>4 DEF Peer
    <2>2. Peer(s) \in Socket
      BY <1>2, <1>3, <2>1 DEF Socket
    <2>3. Peer(Peer(s)) = <<Left(Right(r)), "right", link>>
      BY <2>1 DEF Peer
    <2> QED
      BY <1>1, <1>2, <1>3, <1>4, <2>1, <2>2, <2>3 DEF Toll, From, Other
  <1>5. CASE side = "left"
    <2>1. Peer(s) = <<Left(r), "right", link>>
      BY <1>1, <1>5 DEF Peer
    <2>2. Peer(s) \in Socket
      BY <1>2, <1>3, <2>1 DEF Socket
    <2>3. Peer(Peer(s)) = <<Right(Left(r)), "left", link>>
      BY <2>1 DEF Peer
    <2> QED
      BY <1>1, <1>2, <1>3, <1>5, <2>1, <2>2, <2>3 DEF Toll, From, Other
  <1> QED
    BY <1>2, <1>4, <1>5

LEMMA LinesMeet ==
  ASSUME NEW s \in Socket
  PROVE  RecvLine(Peer(s)) = SendLine(s)
  <1>1. s[1] \in Rank /\ Peer(s)[1] \in Rank
    BY PeerIs, SocketIs
  <1>2. ASSUME NEW x \in SendLine(s)
        PROVE  x \in RecvLine(Peer(s))
    <2>1. PICK c, p, k, e, l : c = x[1] /\ p = x[2] /\ k = x[3] /\ e = x[4] /\ l = s[1]
      OBVIOUS
    <2>2. x \in Item /\ c \in 1..Len(Calls)
      BY <2>1 DEF SendLine, Item
    <2>3. PICK P : P = Parts(c, l)
      OBVIOUS
    <2>4. /\ p \in DOMAIN P /\ s = <<l, P[p].side, P[p].link>>
          /\ k \in 1..Len(P[p].sends) /\ e \in Covers(P[p].sends[k])
      BY <2>1, <2>3 DEF SendLine
    <2>5. Feeds(c, l, p, k)
      BY <1>1, <2>1, <2>2, <2>3, <2>4, CallFeeds
    <2>6. PICK r, M : r = Toll(l, P[p].side) /\ M = Parts(c, r)
      OBVIOUS
    <2>7. /\ p \in DOMAIN M /\ P[p].side = M[p].side /\ P[p].link = M[p].link
          /\ k \in 1..Len(M[p].recvs) /\ P[p].sends[k] = M[p].recvs[k]
      BY <2>3, <2>5, <2>6 DEF Feeds
    <2>8. Fits(P)
      BY <1>1, <2>1, <2>2, <2>3, CallFits
    <2>9. P[p].side \in {"left", "right"}
      BY <2>4, <2>8 DEF Fits, PartFits
    <2>10. Peer(s) = <<r, Other(P[p].side), P[p].link>>
      BY <2>1, <2>4, <2>6, <2>9, PeerIs
    <2>11. Peer(s)[1] = r
      BY <2>10
    <2>12. Peer(s) = <<Peer(s)[1], Other(M[p].side), M[p].link>>
      BY <2>7, <2>10, <2>11
    <2> QED
      BY <2>1, <2>2, <2>4, <2>6, <2>7, <2>11, <2>12 DEF RecvLine
  <1>3. ASSUME NEW x \in RecvLine(Peer(s))
        PROVE  x \in SendLine(s)
    <2>1. PICK c, p, k, e, r, t : c = x[1] /\ p = x[2] /\ k = x[3] /\ e = x[4] /\ t = Peer(s) /\ r = t[1]
      OBVIOUS
    <2>2. x \in Item /\ c \in 1..Len(Calls)
      BY <2>1 DEF RecvLine, Item
    <2>3. PICK M : M = Parts(c, r)
      OBVIOUS
    <2>4. /\ p \in DOMAIN M /\ t = <<r, Other(M[p].side), M[p].link>>
          /\ k \in 1..Len(M[p].recvs) /\ e \in Covers(M[p].recvs[k])
      BY <2>1, <2>3 DEF RecvLine
    <2>5. Fed(c, r, p, k, e)
      BY <1>1, <2>1, <2>2, <2>3, <2>4, CallFed
    <2>6. PICK l, P : l = From(r, M[p].side) /\ P = Parts(c, l)
      OBVIOUS
    <2>7. /\ p \in DOMAIN P /\ P[p].side = M[p].side /\ P[p].link = M[p].link
          /\ k \in 1..Len(P[p].sends) /\ P[p].sends[k] = M[p].recvs[k]
      BY <2>3, <2>5, <2>6 DEF Fed
    <2>8. Fits(M)
      BY <1>1, <2>1, <2>2, <2>3, CallFits
    <2>9. M[p].side \in {"left", "right"}
      BY <2>4, <2>8 DEF Fits, PartFits
    <2>10. t \in Socket /\ Peer(t) = s
      BY <2>1, PeerIs
    <2>11. Peer(t) = <<l, M[p].side, M[p].link>>
      BY <2>1, <2>4, <2>6, <2>9, <2>10, PeerIs
    <2>12. s = <<l, P[p].side, P[p].link>> /\ s[1] = l
      BY <2>7, <2>10, <2>11
    <2> QED
      BY <2>1, <2>2, <2>4, <2>6, <2>7, <2>12 DEF SendLine
  <1> QED
    BY <1>2, <1>3

LEMMA LineLinear ==
  ASSUME NEW s \in Socket
  PROVE  Linear(SendLine(s)) /\ SendLine(s) \subseteq Item
  <1> SUFFICES ASSUME NEW x \in SendLine(s), NEW y \in SendLine(s)
               PROVE  x = y \/ Before(x, y) \/ Before(y, x)
    BY DEF Linear, SendLine
  <1>1. s[1] \in Rank
    BY SocketIs
  <1>2. /\ x \in Item /\ x[1] \in 1..Len(Calls) /\ x[1] \in Int /\ x[3] \in Int /\ x[4] \in Int
        /\ x = <<x[1], x[2], x[3], x[4]>>
    BY DEF SendLine, Item
  <1>3. /\ y \in Item /\ y[1] \in Int /\ y[3] \in Int /\ y[4] \in Int
        /\ y = <<y[1], y[2], y[3], y[4]>>
    BY DEF SendLine, Item
  <1>4. ASSUME x[1] = y[1]
        PROVE  x[2] = y[2]
    <2>1. PICK P : P = Parts(x[1], s[1])
      OBVIOUS
    <2>2. Fits(P)
      BY <1>1, <1>2, <2>1, CallFits
    <2>3. x[2] \in DOMAIN P /\ s = <<s[1], P[x[2]].side, P[x[2]].link>>
      BY <2>1 DEF SendLine
    <2>4. y[2] \in DOMAIN P /\ s = <<s[1], P[y[2]].side, P[y[2]].link>>
      BY <1>4, <2>1 DEF SendLine
    <2>5. P[x[2]].side = P[y[2]].side /\ P[x[2]].link = P[y[2]].link
      BY <2>3, <2>4
    <2> QED
      BY <2>2, <2>3, <2>4, <2>5 DEF Fits
  <1>5. x[1] = y[1] /\ x[2] = y[2] /\ x[3] = y[3] /\ x[4] = y[4] => x = y
    BY <1>2, <1>3, Zenon
  <1>6. ASSUME ~ Before(x, y), ~ Before(y, x)
        PROVE  x[1] = y[1] /\ x[3] = y[3] /\ x[4] = y[4]
    BY <1>2, <1>3, <1>6 DEF Before
  <1> QED
    BY <1>4, <1>5, <1>6

===============================================================================
