---------------------------- MODULE RingInvariant ----------------------------
(***************************************************************************)
(* The inductive invariant of Ring: which element of which packet each       *)
(* element of a connection is, and what each element of a buffer has been    *)
(* added up from.  Each conjunct is stated for a rank or a connection;       *)
(* CollectiveProofs proves that they hold together.                          *)
(***************************************************************************)
EXTENDS Ring

Covers(range) == (range[1] + 1)..range[2]

(* The rank that a part which sends on a side receives from.                 *)
From(r, side) == IF side = "right" THEN Left(r) ELSE Right(r)

-----------------------------------------------------------------------------
(* What is added up on the way.  After t steps of a walk a segment has the   *)
(* contributions of the rank and of the t ranks before it on the way.        *)
Walk(r, side, t) ==
  {(r + (IF side = "right" THEN -1 ELSE 1) * m) % Size : m \in 0..t}

WalkStep(mine, k) == (k - 1) \div (mine.reduced \div (Size - 1))

Summed(c, ranks, e) ==
  IF e <= Calls[c].n THEN SetToBag({<<c, q, e>> : q \in ranks}) ELSE EmptyBag

(* Element e in the buffer of rank r when, of the packets that cover it,     *)
(* those of the steps in `steps` have arrived, or have been reduced.         *)
Held(c, r, mine, steps, e) ==
  CASE steps = {} -> Prepared(c, r)[e]
    [] steps # {} /\ Calls[c].kind = "all_reduce" ->
         Summed(c, UNION {Walk(r, mine.side, WalkStep(mine, k) + 1) : k \in steps}, e)
    [] OTHER -> Group!Returned(c, r)[e]

Covering(mine, e) == {k \in 1..Len(mine.recvs) : e \in Covers(mine.recvs[k])}

(* Element e as rank r sends it in step k.                                   *)
Carried(c, r, mine, k, e) ==
  Held(c, r, mine, {j \in Covering(mine, e) : j < k - mine.lag}, e)

-----------------------------------------------------------------------------
(* What goes through a connection: x is element x[4] of the packet of step   *)
(* x[3] of part x[2] of call x[1].                                           *)
Item == (1..Len(Calls)) \X Nat \X Nat \X Int

SendLine(s) ==
  {x \in Item : LET P == Parts(x[1], s[1]) IN
     /\ x[2] \in DOMAIN P
     /\ s = <<s[1], P[x[2]].side, P[x[2]].link>>
     /\ x[3] \in 1..Len(P[x[2]].sends)
     /\ x[4] \in Covers(P[x[2]].sends[x[3]])}

RecvLine(s) ==
  {x \in Item : LET P == Parts(x[1], s[1]) IN
     /\ x[2] \in DOMAIN P
     /\ s = <<s[1], Other(P[x[2]].side), P[x[2]].link>>
     /\ x[3] \in 1..Len(P[x[2]].recvs)
     /\ x[4] \in Covers(P[x[2]].recvs[x[3]])}

Before(x, y) ==
  \/ x[1] < y[1]
  \/ x[1] = y[1] /\ x[3] < y[3]
  \/ x[1] = y[1] /\ x[3] = y[3] /\ x[4] < y[4]

Posted(now, k) == k < now.i \/ (k = now.i /\ now.phase # "post")

(* Where the range of a task for step k begins, in the data or in a receive  *)
(* buffer.                                                                   *)
Shift(mine, k) == IF k <= mine.reduced THEN mine.recvs[k][1] ELSE 0

Through(now, queue, x, shift) ==
  /\ Posted(now, x[3])
  /\ \A m \in DOMAIN queue :
       queue[m].part = x[2] /\ queue[m].step = x[3] => x[4] <= queue[m].lo + shift

Done(c, now, queue, x, shift) == x[1] < c \/ (x[1] = c /\ Through(now, queue, x, shift))

SentOf(s, c, Q, queue) == {x \in SendLine(s) : Done(c, Q[x[2]], queue, x, 0)}
ArrivedOf(s, c, P, Q, queue) ==
  {x \in RecvLine(s) : Done(c, Q[x[2]], queue, x, Shift(P[x[2]], x[3]))}

Sent(s) == SentOf(s, call[s[1]], part[s[1]], sends[s])
Arrived(s) == ArrivedOf(s, call[s[1]], plan[s[1]], part[s[1]], recvs[s])

(* A queue w of the values V of the elements D, in the order of the plan.    *)
FlowBy(f, D, w, V) ==
  /\ \A i \in 1..Len(w) : f[i] \in D /\ w[i] = V[f[i]]
  /\ \A i, j \in 1..Len(w) : i < j => Before(f[i], f[j])
  /\ \A x \in D : \E i \in 1..Len(w) : f[i] = x

Flow(D, w, V) == \E f : FlowBy(f, D, w, V)

Value(s) ==
  [x \in Item |-> Carried(x[1], s[1], Parts(x[1], s[1])[x[2]], x[3], x[4])]

(* What has been sent on s and has not arrived is in the connection.         *)
Streams(s) == Flow(Sent(s) \ Arrived(Peer(s)), wire[Peer(s)], Value(s))

Prefix(line, set) == \A x \in line : \A y \in set : Before(x, y) => x \in set

InOrder(s) ==
  /\ Prefix(SendLine(s), Sent(s))
  /\ Prefix(RecvLine(s), Arrived(s))
  /\ Arrived(Peer(s)) \subseteq Sent(s)

(* The tasks of a queue are in the order of their steps, and only the first  *)
(* of them is begun.                                                         *)
Ordered(queue) == \A j, k \in DOMAIN queue : j < k => queue[j].step < queue[k].step

Begun(t, range, k) == t.hi = range[2] /\ range[1] <= t.lo /\ (k > 1 => t.lo = range[1])

SendRange(P, t) == P[t.part].sends[t.step]
RecvRange(P, t) ==
  LET range == P[t.part].recvs[t.step]
      shift == Shift(P[t.part], t.step)
  IN  <<range[1] - shift, range[2] - shift>>

SendQueue(P, queue) ==
  /\ Ordered(queue)
  /\ \A k \in DOMAIN queue : Begun(queue[k], SendRange(P, queue[k]), k)

RecvQueue(P, queue) ==
  /\ Ordered(queue)
  /\ \A k \in DOMAIN queue :
       /\ Begun(queue[k], RecvRange(P, queue[k]), k)
       /\ queue[k].place = InPlace <=> queue[k].step > P[queue[k].part].reduced

Queues(s) == SendQueue(plan[s[1]], sends[s]) /\ RecvQueue(plan[s[1]], recvs[s])

-----------------------------------------------------------------------------
(* The buffers of a rank.                                                    *)
Planned(r) ==
  /\ plan[r] = IF call[r] = 0 THEN <<>> ELSE Parts(call[r], r)
  /\ call[r] # 0 /\ Takes(call[r], r) => Len(data[r]) = Len(Prepared(call[r], r))
  /\ \A p \in DOMAIN part[r] : part[r][p].phase = "done" => part[r][p].i = Len(plan[r][p].sends)

Stored ==
  received = [r \in Rank |-> [b \in (1..(2 * Links)) \X {0, 1} |->
                [m \in 1..MaxBuffer |-> received[r][b][m]]]]

Effective(r, p, e) ==
  {k \in Covering(plan[r][p], e) :
     IF k <= plan[r][p].reduced THEN k < part[r][p].i - plan[r][p].lag
     ELSE <<call[r], p, k, e>> \in Arrived(RecvSocket(r, p))}

Concerns(mine, e) == \E k \in 1..Len(mine.sends) : e \in Covers(mine.sends[k]) \cup Covers(mine.recvs[k])

DataRight(r) ==
  \A p \in DOMAIN plan[r] : \A e \in 1..Len(data[r]) :
    Concerns(plan[r][p], e) =>
      data[r][e] = Held(call[r], r, plan[r][p], Effective(r, p, e), e)

BuffersRight(r) ==
  \A p \in DOMAIN plan[r] :
    LET mine == plan[r][p]
        from == From(r, mine.side)
    IN  \A k \in 1..mine.reduced : \A e \in Covers(mine.recvs[k]) :
          /\ part[r][p].i - mine.lag <= k
          /\ <<call[r], p, k, e>> \in Arrived(RecvSocket(r, p))
          => received[r][<<p, Place(k)>>][e - mine.recvs[k][1]] =
               Carried(call[r], from, Parts(call[r], from)[p], k, e)

(* Nothing comes from a call that the rank it comes from has not entered: C  *)
(* is how many calls each rank has begun.                                    *)
Known(C, b) == \A x \in DOMAIN b : x[1] \in Nat /\ x[2] \in Rank /\ x[1] <= C[x[2]]

AllKnown(C, queue) == \A e \in DOMAIN queue : Known(C, queue[e])

Tags ==
  /\ \A r \in Rank : AllKnown(call, data[r])
  /\ \A r \in Rank : \A b \in DOMAIN received[r] : AllKnown(call, received[r][b])
  /\ \A s \in Socket : AllKnown(call, wire[s])

===============================================================================
