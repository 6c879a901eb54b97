-------------------------- MODULE CollectiveProofs ----------------------------
(***************************************************************************)
(* For rings of any size, any number of links, any thresholds, connections   *)
(* of any capacity and calls of any kind, number and length: the ring        *)
(* implements Collective.                                                    *)
(*                                                                         *)
(* The inductive invariant IInv says of every connection which elements are  *)
(* in it (Ways), of every buffer what has been added up in each element      *)
(* (RankRights), and that nothing comes from a call that has not begun       *)
(* (Tags).  One lemma for each action and each conjunct shows that the       *)
(* action keeps it.                                                          *)
(***************************************************************************)
EXTENDS RingProofs

-----------------------------------------------------------------------------
(* The first part of the invariant: what is queued belongs to the plan.      *)
QInv ==
  /\ RInv /\ Stored
  /\ \A r \in Rank : Planned(r)
  /\ \A s \in Socket : Queues(s)

LEMMA PartIs ==
  ASSUME QInv, NEW r \in Rank, NEW p \in DOMAIN plan[r]
  PROVE  /\ call[r] \in 1..Len(Calls) /\ plan[r] = Parts(call[r], r) /\ Fits(plan[r])
         /\ DOMAIN part[r] = DOMAIN plan[r] /\ p \in Nat /\ PartFits(plan[r][p])
         /\ SendSocket(r, p) \in Socket /\ RecvSocket(r, p) \in Socket
         /\ RankRight(data[r], plan[r], part[r])
         /\ Takes(call[r], r) /\ Len(data[r]) = Len(Prepared(call[r], r))
  <1>1. RankRight(data[r], plan[r], part[r]) /\ Planned(r)
    BY DEF QInv, RInv
  <1>2. call[r] # 0
    <2>1. SUFFICES ASSUME call[r] = 0 PROVE FALSE
      OBVIOUS
    <2>2. plan[r] = <<>>
      BY <1>1, <2>1 DEF Planned
    <2>3. DOMAIN <<>> = {}
      OBVIOUS
    <2> QED
      BY <2>2, <2>3
  <1>3. call[r] \in Nat /\ call[r] <= Len(Calls) /\ Len(Calls) \in Nat
    BY RingAssumption DEF QInv, RInv, Tables
  <1>4. call[r] \in 1..Len(Calls)
    BY <1>2, <1>3
  <1>5. plan[r] = Parts(call[r], r)
    BY <1>1, <1>2 DEF Planned
  <1>6. Fits(plan[r])
    BY <1>4, <1>5, CallFits
  <1>7. PartFits(plan[r][p]) /\ p \in 1..(2 * Links)
    BY <1>6 DEF Fits
  <1>8. DOMAIN part[r] = DOMAIN plan[r] /\ p \in Nat
    BY <1>1 DEF RankRight, PlanRight
  <1>9. SendSocket(r, p) \in Socket /\ RecvSocket(r, p) \in Socket
    BY <1>7 DEF PartFits, SendSocket, RecvSocket, Socket, Other
  <1>10. Takes(call[r], r)
    <2>1. SUFFICES ASSUME ~ Takes(call[r], r) PROVE FALSE
      OBVIOUS
    <2>2. plan[r] = <<>>
      BY <1>5, <2>1 DEF Parts, Takes
    <2>3. DOMAIN <<>> = {}
      OBVIOUS
    <2> QED
      BY <2>2, <2>3
  <1>11. Len(data[r]) = Len(Prepared(call[r], r))
    BY <1>1, <1>2, <1>10 DEF Planned
  <1> QED
    BY <1>1, <1>4, <1>5, <1>6, <1>7, <1>8, <1>9, <1>10, <1>11

(* The tasks that a part queues.                                             *)
SendTask(r, p) == NewTask(p, part[r][p].i, InPlace, plan[r][p].sends[part[r][p].i])

RecvTask(r, p) ==
  LET mine == plan[r][p]
      i == part[r][p].i
      range == mine.recvs[i]
  IN  IF i <= mine.reduced THEN NewTask(p, i, Place(i), <<0, range[2] - range[1]>>)
      ELSE NewTask(p, i, InPlace, range)

Goes(now, mine) ==
  IF now.i > mine.lag THEN [i |-> now.i, phase |-> "await"] ELSE [i |-> now.i + 1, phase |-> "post"]

PostDone(r, p) ==
  LET mine == plan[r][p]
      i == part[r][p].i
      s == SendSocket(r, p)
      t == RecvSocket(r, p)
  IN  /\ p \in DOMAIN plan[r] /\ part[r][p].phase = "post" /\ i \in 1..Len(mine.sends)
      /\ QueuedAt(sends'[s], sends[s], SendTask(r, p), mine.sends[i][1] = mine.sends[i][2])
      /\ \A x \in Socket : x # s => sends'[x] = sends[x]
      /\ QueuedAt(recvs'[t], recvs[t], RecvTask(r, p), mine.recvs[i][1] = mine.recvs[i][2])
      /\ \A x \in Socket : x # t => recvs'[x] = recvs[x]
      /\ part'[r][p] = Goes(part[r][p], mine)
      /\ \A x \in DOMAIN plan[r] : x # p => part'[r][x] = part[r][x]
      /\ \A q \in Rank \ {r} : part'[q] = part[q]

LEMMA PostIs ==
  ASSUME QInv, NEW r \in Rank, NEW p \in DOMAIN part[r], Post(r, p)
  PROVE  PostDone(r, p) /\ UNCHANGED <<call, data, received, plan, wire>>
  <1>1. PICK P, mine, i, s, t, x, y :
          /\ P = plan[r] /\ mine = P[p] /\ i = part[r][p].i /\ s = SendSocket(r, p) /\ t = RecvSocket(r, p)
          /\ x = mine.sends[i] /\ y = mine.recvs[i]
    OBVIOUS
  <1>2. RInv /\ RankRight(data[r], P, part[r])
    BY <1>1 DEF QInv, RInv
  <1>3. p \in DOMAIN P
    BY <1>2 DEF RankRight
  <1>4. s \in Socket /\ t \in Socket /\ p \in Nat
    BY <1>1, <1>3, PartIs
  <1>5. /\ part[r][p].phase = "post"
        /\ UNCHANGED <<call, data, received, plan, wire>>
        /\ part' = [part EXCEPT ![r][p] = Goes(part[r][p], mine)]
    BY <1>1 DEF Post, Goes
  <1>6. /\ part'[r][p] = Goes(part[r][p], mine)
        /\ \A z \in DOMAIN plan[r] : z # p => part'[r][z] = part[r][z]
        /\ \A q \in Rank \ {r} : part'[q] = part[q]
    BY <1>2, <1>5, PartSet
  <1>7. Advances(part[r][p], mine) /\ Whole(mine, Len(data[r]))
    BY <1>1, <1>2, <1>3 DEF RankRight, PlanRight
  <1>8. i \in 1..Len(mine.sends) /\ i \in Nat
    BY <1>1, <1>7 DEF Advances, Progress
  <1>9. /\ x[1] \in Nat /\ x[2] \in Nat /\ y[1] \in Nat /\ y[2] \in Nat /\ mine.reduced \in Nat
    BY <1>1, <1>7, <1>8 DEF Whole, Within
  <1>10. /\ sends[s] \in Seq(Task) /\ recvs[t] \in Seq(Task)
         /\ sends = [z \in Socket |-> sends[z]] /\ recvs = [z \in Socket |-> recvs[z]]
    BY <1>2, <1>4 DEF RInv, Tables, SendsRight, RecvsRight
  <1>11. /\ sends' = [sends EXCEPT ![s] = Queued(@, p, i, InPlace, x)]
         /\ recvs' = [recvs EXCEPT ![t] =
              IF i <= mine.reduced THEN Queued(@, p, i, Place(i), <<0, y[2] - y[1]>>)
              ELSE Queued(@, p, i, InPlace, y)]
    BY <1>1 DEF Post
  <1>12. /\ sends'[s] = Queued(sends[s], p, i, InPlace, x)
         /\ \A z \in Socket : z # s => sends'[z] = sends[z]
    BY <1>4, <1>10, <1>11
  <1>13. /\ recvs'[t] = IF i <= mine.reduced THEN Queued(recvs[t], p, i, Place(i), <<0, y[2] - y[1]>>)
                        ELSE Queued(recvs[t], p, i, InPlace, y)
         /\ \A z \in Socket : z # t => recvs'[z] = recvs[z]
    BY <1>4, <1>10, <1>11
  <1>14. QueuedAt(sends'[s], sends[s], SendTask(r, p), x[1] = x[2])
    <2>1. QueuedAt(sends'[s], sends[s], NewTask(p, i, InPlace, x), x[1] = x[2])
      BY <1>4, <1>8, <1>9, <1>10, <1>12, QueuedOr
    <2> QED
      BY <1>1, <2>1 DEF SendTask
  <1>15. QueuedAt(recvs'[t], recvs[t], RecvTask(r, p), y[1] = y[2])
    <2>1. CASE i <= mine.reduced
      <3>1. PICK z : z = <<0, y[2] - y[1]>>
        OBVIOUS
      <3>2. z[1] \in Nat /\ z[2] \in Int /\ (z[1] = z[2] <=> y[1] = y[2])
        BY <1>9, <3>1
      <3>3. Place(i) \in {0, 1, InPlace}
        BY <1>8 DEF Place, InPlace
      <3>4. recvs'[t] = Queued(recvs[t], p, i, Place(i), z)
        BY <1>13, <2>1, <3>1
      <3>5. QueuedAt(recvs'[t], recvs[t], NewTask(p, i, Place(i), z), z[1] = z[2])
        BY <1>4, <1>8, <1>10, <3>2, <3>3, <3>4, QueuedOr
      <3>6. RecvTask(r, p) = NewTask(p, i, Place(i), z)
        BY <1>1, <2>1, <3>1 DEF RecvTask
      <3> QED
        BY <3>2, <3>5, <3>6 DEF QueuedAt
    <2>2. CASE ~ (i <= mine.reduced)
      <3>1. QueuedAt(recvs'[t], recvs[t], NewTask(p, i, InPlace, y), y[1] = y[2])
        BY <1>4, <1>8, <1>9, <1>10, <1>13, <2>2, QueuedOr
      <3>2. RecvTask(r, p) = NewTask(p, i, InPlace, y)
        BY <1>1, <2>2 DEF RecvTask
      <3> QED
        BY <3>1, <3>2
    <2> QED
      BY <2>1, <2>2
  <1> QED
    BY <1>1, <1>3, <1>5, <1>6, <1>8, <1>12, <1>13, <1>14, <1>15 DEF PostDone

LEMMA QueuedEach ==
  ASSUME NEW more, NEW queue \in Seq(Task), NEW t, NEW empty, QueuedAt(more, queue, t, empty),
         NEW k \in DOMAIN more
  PROVE  (k \in DOMAIN queue /\ more[k] = queue[k]) \/ more[k] = t
  <1>1. CASE more = queue
    BY <1>1
  <1>2. CASE AppendAt(more, queue, t)
    BY <1>2 DEF AppendAt
  <1> QED
    BY <1>1, <1>2 DEF QueuedAt

LEMMA QueuedOrdered ==
  ASSUME NEW more, NEW queue \in Seq(Task), NEW t, NEW empty, QueuedAt(more, queue, t, empty),
         Ordered(queue), \A k \in DOMAIN queue : queue[k].step < t.step
  PROVE  Ordered(more)
  <1>1. CASE more = queue
    BY <1>1
  <1>2. CASE AppendAt(more, queue, t)
    BY <1>2, AppendOrdered
  <1> QED
    BY <1>1, <1>2 DEF QueuedAt

LEMMA SendQueuePost ==
  ASSUME NEW P, NEW more, NEW queue \in Seq(Task), NEW t, NEW empty, QueuedAt(more, queue, t, empty),
         SendQueue(P, queue), \A k \in DOMAIN queue : queue[k].step < t.step,
         t.lo = SendRange(P, t)[1], t.hi = SendRange(P, t)[2], t.lo \in Int
  PROVE  SendQueue(P, more)
  <1>1. Ordered(more)
    BY QueuedOrdered DEF SendQueue
  <1>2. \A k : Begun(t, SendRange(P, t), k)
    BY DEF Begun
  <1>3. ASSUME NEW k \in DOMAIN more
        PROVE  Begun(more[k], SendRange(P, more[k]), k)
    BY <1>2, QueuedEach DEF SendQueue
  <1> QED
    BY <1>1, <1>3 DEF SendQueue

LEMMA RecvQueuePost ==
  ASSUME NEW P, NEW more, NEW queue \in Seq(Task), NEW t, NEW empty, QueuedAt(more, queue, t, empty),
         RecvQueue(P, queue), \A k \in DOMAIN queue : queue[k].step < t.step,
         t.lo = RecvRange(P, t)[1], t.hi = RecvRange(P, t)[2], t.lo \in Int,
         t.place = InPlace <=> t.step > P[t.part].reduced
  PROVE  RecvQueue(P, more)
  <1>1. Ordered(more)
    BY QueuedOrdered DEF RecvQueue
  <1>2. \A k : Begun(t, RecvRange(P, t), k)
    BY DEF Begun
  <1>3. ASSUME NEW k \in DOMAIN more
        PROVE  /\ Begun(more[k], RecvRange(P, more[k]), k)
               /\ more[k].place = InPlace <=> more[k].step > P[more[k].part].reduced
    <2>1. CASE k \in DOMAIN queue /\ more[k] = queue[k]
      BY <2>1 DEF RecvQueue
    <2>2. CASE more[k] = t
      BY <1>2, <2>2
    <2> QED
      BY <2>1, <2>2, QueuedEach
  <1> QED
    BY <1>1, <1>3 DEF RecvQueue

(* The thread of a socket takes elements on from the first task.             *)
LEMMA BegunRest ==
  ASSUME NEW t, NEW u, NEW range, NEW n \in Nat, NEW k \in Nat, NEW m \in Nat, k <= m, k > 1 => m > 1,
         k \in Nat \ {0}, Begun(u, range, m), t.hi = u.hi,
         IF m = 1 THEN t.lo = u.lo + n ELSE t.lo = u.lo,
         range[1] \in Int, u.lo \in Int
  PROVE  Begun(t, range, k)
  <1>1. PICK a, b, d : a = range[1] /\ b = t.lo /\ d = u.lo
    OBVIOUS
  <1>2. a <= d /\ t.hi = range[2] /\ (m > 1 => d = a)
    BY <1>1 DEF Begun
  <1>3. IF m = 1 THEN b = d + n ELSE b = d
    BY <1>1
  <1>4. a \in Int /\ d \in Int
    BY <1>1
  <1>5. a <= b
    BY <1>2, <1>3, <1>4
  <1>6. k > 1 => b = a
    BY <1>2, <1>3
  <1> QED
    BY <1>1, <1>2, <1>5, <1>6 DEF Begun

LEMMA SendQueueRest ==
  ASSUME NEW P, NEW queue \in Seq(Task), queue # <<>>, NEW n \in Nat, SendQueue(P, queue),
         \A m \in DOMAIN queue : SendRange(P, queue[m])[1] \in Int
  PROVE  SendQueue(P, Rest(queue, n))
  <1>1. PICK left : left = Rest(queue, n)
    OBVIOUS
  <1>2. RestAt(left, queue, n)
    BY <1>1, RestOf
  <1>3. Ordered(left)
    BY <1>2, RestOrdered DEF SendQueue
  <1>4. ASSUME NEW k \in DOMAIN left
        PROVE  Begun(left[k], SendRange(P, left[k]), k)
    <2>1. PICK m \in DOMAIN queue :
           /\ k <= m /\ (k > 1 => m > 1) /\ k \in Nat /\ m \in Nat
           /\ left[k].part = queue[m].part /\ left[k].step = queue[m].step
           /\ left[k].place = queue[m].place /\ left[k].hi = queue[m].hi
           /\ IF m = 1 THEN left[k].lo = queue[1].lo + n ELSE left[k].lo = queue[m].lo
      BY <1>2, RestEach
    <2>2. PICK t, u, range : t = left[k] /\ u = queue[m] /\ range = SendRange(P, u)
      OBVIOUS
    <2>3. SendRange(P, t) = range
      BY <2>1, <2>2 DEF SendRange
    <2>4. Begun(u, range, m)
      BY <2>2 DEF SendQueue
    <2>5. u.lo \in Int
      <3>1. queue[m] \in Task
        BY LenProperties, ElementOfSeq
      <3> QED
        BY <2>2, <3>1 DEF Task
    <2>6. k \in Nat \ {0}
      <3>1. left \in Seq(Task)
        BY <1>2 DEF RestAt
      <3>2. DOMAIN left = 1..Len(left) /\ Len(left) \in Nat
        BY <3>1, LenProperties
      <3> QED
        BY <3>2
    <2>7. IF m = 1 THEN t.lo = u.lo + n ELSE t.lo = u.lo
      BY <2>1, <2>2
    <2>8. range[1] \in Int
      BY <2>2
    <2>9. Begun(t, range, k)
      BY <2>1, <2>2, <2>4, <2>5, <2>6, <2>7, <2>8, BegunRest
    <2> QED
      BY <2>2, <2>3, <2>9
  <1> QED
    BY <1>1, <1>3, <1>4 DEF SendQueue

LEMMA RecvQueueRest ==
  ASSUME NEW P, NEW queue \in Seq(Task), queue # <<>>, NEW n \in Nat, RecvQueue(P, queue),
         \A m \in DOMAIN queue : RecvRange(P, queue[m])[1] \in Int
  PROVE  RecvQueue(P, Rest(queue, n))
  <1>1. PICK left : left = Rest(queue, n)
    OBVIOUS
  <1>2. RestAt(left, queue, n)
    BY <1>1, RestOf
  <1>3. Ordered(left)
    BY <1>2, RestOrdered DEF RecvQueue
  <1>4. ASSUME NEW k \in DOMAIN left
        PROVE  /\ Begun(left[k], RecvRange(P, left[k]), k)
               /\ left[k].place = InPlace <=> left[k].step > P[left[k].part].reduced
    <2>1. PICK m \in DOMAIN queue :
           /\ k <= m /\ (k > 1 => m > 1) /\ k \in Nat /\ m \in Nat
           /\ left[k].part = queue[m].part /\ left[k].step = queue[m].step
           /\ left[k].place = queue[m].place /\ left[k].hi = queue[m].hi
           /\ IF m = 1 THEN left[k].lo = queue[1].lo + n ELSE left[k].lo = queue[m].lo
      BY <1>2, RestEach
    <2>2. PICK t, u, range : t = left[k] /\ u = queue[m] /\ range = RecvRange(P, u)
      OBVIOUS
    <2>3. RecvRange(P, t) = range
      BY <2>1, <2>2 DEF RecvRange
    <2>4. Begun(u, range, m) /\ (u.place = InPlace <=> u.step > P[u.part].reduced)
      BY <2>2 DEF RecvQueue
    <2>5. u.lo \in Int
      <3>1. queue[m] \in Task
        BY LenProperties, ElementOfSeq
      <3> QED
        BY <2>2, <3>1 DEF Task
    <2>6. k \in Nat \ {0}
      <3>1. left \in Seq(Task)
        BY <1>2 DEF RestAt
      <3>2. DOMAIN left = 1..Len(left) /\ Len(left) \in Nat
        BY <3>1, LenProperties
      <3> QED
        BY <3>2
    <2>7. IF m = 1 THEN t.lo = u.lo + n ELSE t.lo = u.lo
      BY <2>1, <2>2
    <2>8. range[1] \in Int
      BY <2>2
    <2>9. Begun(t, range, k)
      BY <2>1, <2>2, <2>4, <2>5, <2>6, <2>7, <2>8, BegunRest
    <2>10. t.place = u.place /\ t.step = u.step /\ t.part = u.part
      BY <2>1, <2>2
    <2> QED
      BY <2>2, <2>3, <2>4, <2>9, <2>10
  <1> QED
    BY <1>1, <1>3, <1>4 DEF RecvQueue

-----------------------------------------------------------------------------
(* What the other steps do.                                                  *)
Behind(now, mine) == now.i - mine.lag

AwaitDone(r, p) ==
  LET mine == plan[r][p]
      i == part[r][p].i
      j == Behind(part[r][p], mine)
  IN  /\ p \in DOMAIN plan[r] /\ part[r][p].phase = "await" /\ i \in 1..Len(mine.sends) /\ i > mine.lag
      /\ Ready(recvs[RecvSocket(r, p)], p, j)
      /\ data'[r] = IF j <= mine.reduced THEN Reduced(r, p, j) ELSE data[r]
      /\ \A q \in Rank \ {r} : data'[q] = data[q]
      /\ part'[r][p] = IF i = Len(mine.sends) THEN [i |-> i, phase |-> "last"]
                       ELSE [i |-> i + 1, phase |-> "post"]
      /\ \A x \in DOMAIN plan[r] : x # p => part'[r][x] = part[r][x]
      /\ \A q \in Rank \ {r} : part'[q] = part[q]

LEMMA AwaitIs ==
  ASSUME QInv, NEW r \in Rank, NEW p \in DOMAIN part[r], Await(r, p)
  PROVE  AwaitDone(r, p) /\ UNCHANGED <<call, received, plan, sends, recvs, wire>>
  <1>1. PICK mine, i, j : mine = plan[r][p] /\ i = part[r][p].i /\ j = Behind(part[r][p], mine)
    OBVIOUS
  <1>2. RInv /\ RankRight(data[r], plan[r], part[r])
    BY DEF QInv, RInv
  <1>3. p \in DOMAIN plan[r]
    BY <1>2 DEF RankRight
  <1>4. Advances(part[r][p], mine)
    BY <1>1, <1>2, <1>3 DEF RankRight
  <1>5. /\ part[r][p].phase = "await"
        /\ Ready(recvs[RecvSocket(r, p)], p, j)
        /\ data' = [data EXCEPT ![r] = IF j <= mine.reduced THEN Reduced(r, p, j) ELSE @]
        /\ part' = [part EXCEPT ![r][p] =
             IF i = Len(mine.sends) THEN [i |-> i, phase |-> "last"]
             ELSE [i |-> i + 1, phase |-> "post"]]
        /\ UNCHANGED <<call, received, plan, sends, recvs, wire>>
    BY <1>1 DEF Await, Behind
  <1>6. i \in 1..Len(mine.sends) /\ i > mine.lag
    BY <1>1, <1>4, <1>5 DEF Advances
  <1>7. PICK now : now = IF i = Len(mine.sends) THEN [i |-> i, phase |-> "last"]
                         ELSE [i |-> i + 1, phase |-> "post"]
    OBVIOUS
  <1>8. part' = [part EXCEPT ![r][p] = now]
    BY <1>5, <1>7
  <1>9. /\ part'[r][p] = now
        /\ \A x \in DOMAIN plan[r] : x # p => part'[r][x] = part[r][x]
        /\ \A q \in Rank \ {r} : part'[q] = part[q]
    BY <1>2, <1>8, PartSet
  <1>10. data = [q \in Rank |-> data[q]]
    BY <1>2 DEF RInv, Tables
  <1>11. /\ data'[r] = IF j <= mine.reduced THEN Reduced(r, p, j) ELSE data[r]
         /\ \A q \in Rank \ {r} : data'[q] = data[q]
    BY <1>5, <1>10
  <1> QED
    BY <1>1, <1>3, <1>5, <1>6, <1>7, <1>9, <1>11 DEF AwaitDone

LastDone(r, p) ==
  LET mine == plan[r][p]
      i == part[r][p].i
  IN  /\ p \in DOMAIN plan[r] /\ part[r][p].phase = "last" /\ i = Len(mine.sends)
      /\ Ready(recvs[RecvSocket(r, p)], p, i)
      /\ part'[r][p] = [i |-> i, phase |-> "done"]
      /\ \A x \in DOMAIN plan[r] : x # p => part'[r][x] = part[r][x]
      /\ \A q \in Rank \ {r} : part'[q] = part[q]

LEMMA LastIs ==
  ASSUME QInv, NEW r \in Rank, NEW p \in DOMAIN part[r], Last(r, p)
  PROVE  LastDone(r, p) /\ UNCHANGED <<call, data, received, plan, sends, recvs, wire>>
  <1>2. RInv /\ RankRight(data[r], plan[r], part[r])
    BY DEF QInv, RInv
  <1>3. p \in DOMAIN plan[r]
    BY <1>2 DEF RankRight
  <1>4. Advances(part[r][p], plan[r][p])
    BY <1>2, <1>3 DEF RankRight
  <1>5. /\ part[r][p].phase = "last"
        /\ Ready(recvs[RecvSocket(r, p)], p, part[r][p].i)
        /\ part' = [part EXCEPT ![r][p].phase = "done"]
        /\ UNCHANGED <<call, data, received, plan, sends, recvs, wire>>
    BY DEF Last
  <1>6. part[r][p].i = Len(plan[r][p].sends) /\ part[r][p] \in Progress
    BY <1>4, <1>5 DEF Advances
  <1>7. PICK now : now = [i |-> part[r][p].i, phase |-> "done"]
    OBVIOUS
  <1>8. part' = [part EXCEPT ![r][p] = now]
    <2>1. [part[r][p] EXCEPT !.phase = "done"] = now
      BY <1>6, <1>7 DEF Progress
    <2> QED
      BY <1>5, <2>1, Zenon
  <1>9. /\ part'[r][p] = now
        /\ \A x \in DOMAIN plan[r] : x # p => part'[r][x] = part[r][x]
        /\ \A q \in Rank \ {r} : part'[q] = part[q]
    BY <1>2, <1>8, PartSet
  <1> QED
    BY <1>3, <1>5, <1>6, <1>7, <1>9 DEF LastDone

BeginDone(r, c) ==
  /\ c = call[r] + 1 /\ c \in 1..Len(Calls) /\ Returned(r)
  /\ call'[r] = c /\ plan'[r] = Parts(c, r)
  /\ data'[r] = IF Takes(c, r) THEN Prepared(c, r) ELSE <<>>
  /\ part'[r] = [p \in DOMAIN Parts(c, r) |-> [i |-> 1, phase |-> "post"]]
  /\ \A q \in Rank \ {r} :
       call'[q] = call[q] /\ plan'[q] = plan[q] /\ data'[q] = data[q] /\ part'[q] = part[q]

LEMMA BeginIs ==
  ASSUME QInv, NEW r \in Rank, Begin(r)
  PROVE  BeginDone(r, call[r] + 1) /\ UNCHANGED <<received, sends, recvs, wire>>
  <1>1. PICK c : c = call[r] + 1
    OBVIOUS
  <1>2. Tables
    BY DEF QInv, RInv
  <1>3. call[r] \in Nat /\ call = [q \in Rank |-> call[q]]
    BY <1>2 DEF Tables
  <1>4. call[r] < Len(Calls) /\ Returned(r) /\ UNCHANGED <<received, sends, recvs, wire>>
    BY DEF Begin
  <1>5. call' = [call EXCEPT ![r] = c]
    BY <1>1 DEF Begin
  <1>6. call'[r] = c
    BY <1>3, <1>5
  <1>7. /\ data' = [data EXCEPT ![r] = IF Takes(c, r) THEN Prepared(c, r) ELSE <<>>]
        /\ plan' = [plan EXCEPT ![r] = Parts(c, r)]
        /\ part' = [part EXCEPT ![r] = [p \in DOMAIN plan'[r] |-> [i |-> 1, phase |-> "post"]]]
    <2>1. /\ data' = [data EXCEPT ![r] = IF Takes(call'[r], r) THEN Prepared(call'[r], r) ELSE <<>>]
          /\ plan' = [plan EXCEPT ![r] = Parts(call'[r], r)]
          /\ part' = [part EXCEPT ![r] = [p \in DOMAIN plan'[r] |-> [i |-> 1, phase |-> "post"]]]
      BY Zenon DEF Begin
    <2> QED
      BY <1>6, <2>1, Zenon
  <1>8. plan'[r] = Parts(c, r) /\ \A q \in Rank \ {r} : plan'[q] = plan[q]
    BY <1>2, <1>7 DEF Tables
  <1>9. /\ part'[r] = [p \in DOMAIN Parts(c, r) |-> [i |-> 1, phase |-> "post"]]
        /\ \A q \in Rank \ {r} : part'[q] = part[q]
    BY <1>2, <1>7, <1>8 DEF Tables
  <1>10. /\ data'[r] = IF Takes(c, r) THEN Prepared(c, r) ELSE <<>>
         /\ \A q \in Rank \ {r} : data'[q] = data[q]
    BY <1>2, <1>7 DEF Tables
  <1>11. c \in 1..Len(Calls)
    BY <1>1, <1>3, <1>4, RingAssumption
  <1>12. \A q \in Rank \ {r} : call'[q] = call[q]
    BY <1>3, <1>5
  <1> QED
    BY <1>1, <1>4, <1>6, <1>8, <1>9, <1>10, <1>11, <1>12 DEF BeginDone

SendDone(s, h, n) ==
  /\ sends[s] \in Seq(Task) /\ sends[s] # <<>> /\ 1 \in DOMAIN sends[s]
  /\ h = sends[s][1] /\ h \in Task /\ n \in 1..(h.hi - h.lo)
  /\ sends'[s] = Rest(sends[s], n) /\ \A x \in Socket : x # s => sends'[x] = sends[x]
  /\ wire'[Peer(s)] = wire[Peer(s)] \o SubSeq(data[s[1]], h.lo + 1, h.lo + n)
  /\ \A x \in Socket : x # Peer(s) => wire'[x] = wire[x]

LEMMA SendDoes ==
  ASSUME QInv, NEW s \in Socket, Send(s)
  PROVE  (\E h, n : SendDone(s, h, n)) /\ UNCHANGED <<call, data, received, plan, part, recvs>>
  <1>1. Tables /\ sends[s] \in Seq(Task)
    BY DEF QInv, RInv, SendsRight
  <1>2. sends[s] # <<>> /\ UNCHANGED <<call, data, received, plan, part, recvs>>
    BY DEF Send, threads
  <1>3. PICK h : h = Head(sends[s])
    OBVIOUS
  <1>4. PICK n \in 1..(h.hi - h.lo) :
          /\ wire' = [wire EXCEPT ![Peer(s)] = @ \o SubSeq(data[s[1]], h.lo + 1, h.lo + n)]
          /\ sends' = [sends EXCEPT ![s] = Rest(@, n)]
    BY <1>3 DEF Send
  <1>5. 1 \in DOMAIN sends[s] /\ h = sends[s][1] /\ h \in Task
    BY <1>1, <1>2, <1>3, HeadIs
  <1>6. sends'[s] = Rest(sends[s], n) /\ \A x \in Socket : x # s => sends'[x] = sends[x]
    BY <1>1, <1>4 DEF Tables
  <1>7. Peer(s) \in Socket
    BY PeerIs
  <1>8. /\ wire'[Peer(s)] = wire[Peer(s)] \o SubSeq(data[s[1]], h.lo + 1, h.lo + n)
        /\ \A x \in Socket : x # Peer(s) => wire'[x] = wire[x]
    BY <1>1, <1>4, <1>7 DEF Tables
  <1>9. SendDone(s, h, n)
    BY <1>1, <1>2, <1>4, <1>5, <1>6, <1>8 DEF SendDone
  <1> QED
    BY <1>2, <1>9

FilledWith(buffer, lo, n, w) ==
  [e \in DOMAIN buffer |-> IF e \in (lo + 1)..(lo + n) THEN w[e - lo] ELSE buffer[e]]

Slot == (1..(2 * Links)) \X {0, 1}

RecvDone(s, h, n) ==
  LET r == s[1]
      b == <<h.part, h.place>>
  IN  /\ recvs[s] \in Seq(Task) /\ recvs[s] # <<>> /\ 1 \in DOMAIN recvs[s]
      /\ h = recvs[s][1] /\ h \in Task /\ n \in 1..(h.hi - h.lo) /\ n <= Len(wire[s])
      /\ recvs'[s] = Rest(recvs[s], n) /\ \A x \in Socket : x # s => recvs'[x] = recvs[x]
      /\ wire'[s] = SubSeq(wire[s], n + 1, Len(wire[s]))
      /\ \A x \in Socket : x # s => wire'[x] = wire[x]
      /\ data'[r] = IF h.place = InPlace THEN FilledWith(data[r], h.lo, n, wire[s]) ELSE data[r]
      /\ \A q \in Rank \ {r} : data'[q] = data[q]
      /\ h.place = InPlace => received' = received
      /\ h.place # InPlace =>
           /\ b \in Slot
           /\ received'[r][b] = FilledWith(received[r][b], h.lo, n, wire[s])
           /\ \A d \in Slot : d # b => received'[r][d] = received[r][d]
           /\ \A q \in Rank \ {r} : received'[q] = received[q]

LEMMA SmallerOf ==
  ASSUME NEW a \in Int, NEW b \in Int, NEW n \in 1..Smaller(a, b)
  PROVE  n \in 1..a /\ n <= b
  BY DEF Smaller

Rows(f) == f = [q \in Rank |-> f[q]] /\ \A q \in Rank : f[q] = [b \in Slot |-> f[q][b]]

SetAt(R, f, r, b, v) == R = [f EXCEPT ![r][b] = v]

LEMMA ReceivedSet ==
  ASSUME NEW R, NEW f, Rows(f),
         NEW r \in Rank, NEW b \in Slot, NEW v, SetAt(R, f, r, b, v)
  PROVE  /\ R[r][b] = v /\ \A d \in Slot : d # b => R[r][d] = f[r][d]
         /\ \A q \in Rank \ {r} : R[q] = f[q]
         /\ Rows(R)
  <1>1. PICK row : row = [f[r] EXCEPT ![b] = v]
    OBVIOUS
  <1>2. R = [f EXCEPT ![r] = row]
    BY <1>1 DEF SetAt
  <1>3. R[r] = row /\ (\A q \in Rank \ {r} : R[q] = f[q]) /\ R = [q \in Rank |-> R[q]]
    BY <1>2 DEF Rows
  <1>4. f[r] = [d \in Slot |-> f[r][d]]
    BY DEF Rows
  <1>5. row[b] = v /\ (\A d \in Slot : d # b => row[d] = f[r][d]) /\ row = [d \in Slot |-> row[d]]
    BY <1>1, <1>4
  <1>6. Rows(R)
    <2>1. \A q \in Rank \ {r} : R[q] = [d \in Slot |-> R[q][d]]
      BY <1>3, Zenon DEF Rows
    <2>2. R[r] = [d \in Slot |-> R[r][d]]
      BY <1>3, <1>5, Zenon
    <2> QED
      BY <1>3, <2>1, <2>2 DEF Rows
  <1> QED
    BY <1>3, <1>5, <1>6

LEMMA StoredIs ==
  ASSUME Stored
  PROVE  /\ Rows(received)
         /\ \A q \in Rank : \A b \in Slot : received[q][b] = [m \in 1..MaxBuffer |-> received[q][b][m]]
  <1>1. received = [q \in Rank |-> [b \in Slot |-> [m \in 1..MaxBuffer |-> received[q][b][m]]]]
    BY DEF Stored, Slot
  <1>2. PICK g : g = [q \in Rank |-> [b \in Slot |-> [m \in 1..MaxBuffer |-> received[q][b][m]]]]
    OBVIOUS
  <1>3. \A q \in Rank : g[q] = [b \in Slot |-> [m \in 1..MaxBuffer |-> received[q][b][m]]]
    BY <1>2
  <1>4. received = g
    BY <1>1, <1>2, Zenon
  <1>5. \A q \in Rank : received[q] = [b \in Slot |-> [m \in 1..MaxBuffer |-> received[q][b][m]]]
    BY <1>3, <1>4, Zenon
  <1>6. received = [q \in Rank |-> received[q]]
    <2>1. g = [q \in Rank |-> g[q]]
      BY <1>2
    <2> QED
      BY <1>4, <2>1, Zenon
  <1>7. ASSUME NEW q \in Rank
        PROVE  /\ received[q] = [b \in Slot |-> received[q][b]]
               /\ \A b \in Slot : received[q][b] = [m \in 1..MaxBuffer |-> received[q][b][m]]
    <2>1. PICK row : row = [b \in Slot |-> [m \in 1..MaxBuffer |-> received[q][b][m]]]
      OBVIOUS
    <2>2. received[q] = row
      BY <1>5, <2>1, Zenon
    <2>3. row = [b \in Slot |-> row[b]]
      BY <2>1
    <2>4. \A b \in Slot : row[b] = [m \in 1..MaxBuffer |-> received[q][b][m]]
      BY <2>1
    <2> QED
      BY <2>2, <2>3, <2>4, Zenon
  <1> QED
    BY <1>6, <1>7 DEF Rows

LEMMA StoredAs ==
  ASSUME NEW f, Rows(f),
         \A q \in Rank : \A b \in Slot : f[q][b] = [m \in 1..MaxBuffer |-> f[q][b][m]]
  PROVE  f = [q \in Rank |-> [b \in Slot |-> [m \in 1..MaxBuffer |-> f[q][b][m]]]]
  <1>1. ASSUME NEW q \in Rank
        PROVE  f[q] = [b \in Slot |-> [m \in 1..MaxBuffer |-> f[q][b][m]]]
    <2>1. PICK row : row = f[q]
      OBVIOUS
    <2>2. row = [b \in Slot |-> row[b]]
      BY <2>1, Zenon DEF Rows
    <2>3. \A b \in Slot : row[b] = [m \in 1..MaxBuffer |-> row[b][m]]
      BY <2>1, Zenon
    <2>4. row = [b \in Slot |-> [m \in 1..MaxBuffer |-> row[b][m]]]
      BY <2>2, <2>3
    <2> QED
      BY <2>1, <2>4, Zenon
  <1>2. f = [q \in Rank |-> f[q]]
    BY DEF Rows
  <1> QED
    BY <1>1, <1>2

LEMMA RecvDoes ==
  ASSUME QInv, NEW s \in Socket, Recv(s)
  PROVE  (\E h, n : RecvDone(s, h, n)) /\ UNCHANGED <<call, plan, part, sends>> /\ Stored'
  <1>1. Tables /\ recvs[s] \in Seq(Task) /\ RecvsRight(s, recvs[s], plan[s[1]], part[s[1]]) /\ s[1] \in Rank
    BY SocketIs DEF QInv, RInv, RecvsRight
  <1>2. recvs[s] # <<>> /\ UNCHANGED <<call, plan, part, sends>>
    BY DEF Recv
  <1>3. PICK h : h = Head(recvs[s])
    OBVIOUS
  <1>4. 1 \in DOMAIN recvs[s] /\ h = recvs[s][1] /\ h \in Task
    BY <1>1, <1>2, <1>3, HeadIs
  <1>5. PICK n \in 1..Smaller(h.hi - h.lo, Len(wire[s])) :
          /\ wire' = [wire EXCEPT ![s] = SubSeq(@, n + 1, Len(@))]
          /\ recvs' = [recvs EXCEPT ![s] = Rest(@, n)]
          /\ IF h.place = InPlace
             THEN /\ data' = [data EXCEPT ![s[1]] = FilledWith(@, h.lo, n, wire[s])]
                  /\ UNCHANGED received
             ELSE /\ received' = [received EXCEPT
                       ![s[1]][<<h.part, h.place>>] = FilledWith(@, h.lo, n, wire[s])]
                  /\ UNCHANGED data
    <2> DEFINE g == Head(recvs[s])
    <2>1. PICK n \in 1..Smaller(g.hi - g.lo, Len(wire[s])) :
            /\ wire' = [wire EXCEPT ![s] = SubSeq(@, n + 1, Len(@))]
            /\ recvs' = [recvs EXCEPT ![s] = Rest(@, n)]
            /\ IF g.place = InPlace
               THEN /\ data' = [data EXCEPT ![s[1]] = [e \in DOMAIN @ |->
                           IF e \in (g.lo + 1)..(g.lo + n) THEN wire[s][e - g.lo] ELSE @[e]]]
                    /\ UNCHANGED received
               ELSE /\ received' = [received EXCEPT
                         ![s[1]][<<g.part, g.place>>] = [e \in DOMAIN @ |->
                           IF e \in (g.lo + 1)..(g.lo + n) THEN wire[s][e - g.lo] ELSE @[e]]]
                    /\ UNCHANGED data
      BY ZenonT(60) DEF Recv
    <2> QED
      BY <1>3, <2>1, ZenonT(60) DEF FilledWith
  <1>6. n \in 1..(h.hi - h.lo) /\ n <= Len(wire[s])
    <2>1. Len(wire[s]) \in Int
      BY SeqIs DEF QInv, RInv
    <2>2. h.hi - h.lo \in Int
      BY <1>4 DEF Task
    <2> QED
      BY <2>1, <2>2, <1>5, SmallerOf
  <1>7. recvs'[s] = Rest(recvs[s], n) /\ \A x \in Socket : x # s => recvs'[x] = recvs[x]
    BY <1>1, <1>5 DEF Tables
  <1>8. /\ wire'[s] = SubSeq(wire[s], n + 1, Len(wire[s]))
        /\ \A x \in Socket : x # s => wire'[x] = wire[x]
    BY <1>1, <1>5 DEF Tables
  <1>9. /\ data'[s[1]] = IF h.place = InPlace THEN FilledWith(data[s[1]], h.lo, n, wire[s]) ELSE data[s[1]]
        /\ \A q \in Rank \ {s[1]} : data'[q] = data[q]
    BY <1>1, <1>5 DEF Tables
  <1>10. h.place = InPlace => received' = received
    BY <1>5
  <1>11. <<h.part, h.place>> \in Slot \/ h.place = InPlace
    <2>1. h.part \in DOMAIN plan[s[1]]
      BY <1>1, <1>4 DEF RecvsRight, RecvRight, Current
    <2>2. Fits(plan[s[1]])
      BY <1>1, <2>1, PartIs
    <2>3. h.part \in 1..(2 * Links)
      BY <2>1, <2>2 DEF Fits
    <2> QED
      BY <1>4, <2>3 DEF Task, Slot
  <1>12. ASSUME h.place # InPlace
         PROVE  /\ <<h.part, h.place>> \in Slot
                /\ received'[s[1]][<<h.part, h.place>>] = FilledWith(received[s[1]][<<h.part, h.place>>], h.lo, n, wire[s])
                /\ \A d \in Slot : d # <<h.part, h.place>> => received'[s[1]][d] = received[s[1]][d]
                /\ \A q \in Rank \ {s[1]} : received'[q] = received[q]
    <2>1. PICK b \in Slot : b = <<h.part, h.place>>
      BY <1>11, <1>12
    <2>2. PICK v : v = FilledWith(received[s[1]][b], h.lo, n, wire[s])
      OBVIOUS
    <2>3. SetAt(received', received, s[1], b, v)
      BY <1>5, <1>12, <2>1, <2>2 DEF SetAt
    <2>4. Rows(received)
      BY StoredIs DEF QInv
    <2>5. /\ received'[s[1]][b] = v /\ \A d \in Slot : d # b => received'[s[1]][d] = received[s[1]][d]
          /\ \A q \in Rank \ {s[1]} : received'[q] = received[q]
      BY <1>1, <2>3, <2>4, ReceivedSet
    <2> QED
      BY <2>1, <2>2, <2>5
  <1>14. Stored'
    <2>1. CASE h.place = InPlace
      <3>1. received' = received
        BY <1>10, <2>1
      <3> QED
        BY <3>1 DEF QInv, Stored
    <2>2. CASE h.place # InPlace
      <3>1. PICK b, v, R : b = <<h.part, h.place>> /\ v = FilledWith(received[s[1]][b], h.lo, n, wire[s]) /\ R = received'
        OBVIOUS
      <3>2. b \in Slot
        BY <1>11, <2>2, <3>1
      <3>3. SetAt(R, received, s[1], b, v)
        BY <1>5, <2>2, <3>1 DEF SetAt
      <3>4. /\ Rows(received)
            /\ \A q \in Rank : \A d \in Slot : received[q][d] = [m \in 1..MaxBuffer |-> received[q][d][m]]
        BY StoredIs DEF QInv
      <3>5. /\ R[s[1]][b] = v /\ \A d \in Slot : d # b => R[s[1]][d] = received[s[1]][d]
            /\ \A q \in Rank \ {s[1]} : R[q] = received[q]
            /\ Rows(R)
        BY <1>1, <3>2, <3>3, <3>4, ReceivedSet
      <3>6. v = [m \in 1..MaxBuffer |-> v[m]]
        <4>1. PICK w : w = received[s[1]][b]
          OBVIOUS
        <4>2. w = [m \in 1..MaxBuffer |-> w[m]]
          BY <1>1, <3>2, <3>4, <4>1
        <4>3. DOMAIN w = 1..MaxBuffer
          BY <4>2
        <4>4. v = FilledWith(w, h.lo, n, wire[s])
          BY <3>1, <4>1
        <4>5. v = [m \in DOMAIN w |-> IF m \in (h.lo + 1)..(h.lo + n) THEN wire[s][m - h.lo] ELSE w[m]]
          BY <4>4, Zenon DEF FilledWith
        <4>6. PICK u : u = [m \in 1..MaxBuffer |-> IF m \in (h.lo + 1)..(h.lo + n) THEN wire[s][m - h.lo] ELSE w[m]]
          OBVIOUS
        <4>7. u = [m \in 1..MaxBuffer |-> u[m]]
          BY <4>6, Zenon
        <4>9. v = [m \in 1..MaxBuffer |-> IF m \in (h.lo + 1)..(h.lo + n) THEN wire[s][m - h.lo] ELSE w[m]]
          BY <4>3, <4>5, Zenon
        <4>8. v = u
          BY <4>9, <4>6, Zenon
        <4> QED
          BY <4>7, <4>8
      <3>7. \A q \in Rank : \A d \in Slot : R[q][d] = [m \in 1..MaxBuffer |-> R[q][d][m]]
        <4>1. SUFFICES ASSUME NEW q \in Rank, NEW d \in Slot
                       PROVE  R[q][d] = [m \in 1..MaxBuffer |-> R[q][d][m]]
          OBVIOUS
        <4>2. CASE q = s[1] /\ d = b
          BY <3>5, <3>6, <4>2, Zenon
        <4>3. CASE ~ (q = s[1] /\ d = b)
          <5>1. R[q][d] = received[q][d]
            BY <3>5, <4>3, Zenon
          <5> QED
            BY <3>4, <5>1, Zenon
        <4> QED
          BY <4>2, <4>3, Zenon
      <3>8. R = [q \in Rank |-> [d \in Slot |-> [m \in 1..MaxBuffer |-> R[q][d][m]]]]
        BY <3>5, <3>7, StoredAs
      <3> QED
        BY <3>1, <3>8 DEF Stored, Slot
    <2> QED
      BY <2>1, <2>2
  <1>13. RecvDone(s, h, n)
    BY <1>1, <1>2, <1>4, <1>6, <1>7, <1>8, <1>9, <1>10, <1>12 DEF RecvDone
  <1> QED
    BY <1>2, <1>13, <1>14

LEMMA GoesPosted ==
  ASSUME NEW now, now.i \in Nat, now.phase = "post", NEW mine
  PROVE  PostedTo(Goes(now, mine), now, now.i)
  <1>1. PICK i, next : i = now.i /\ next = Goes(now, mine)
    OBVIOUS
  <1>2. \A j \in Nat : Posted(now, j) <=> j < i
    BY <1>1 DEF Posted
  <1>3. \/ next = [i |-> i, phase |-> "await"]
        \/ next = [i |-> i + 1, phase |-> "post"]
    BY <1>1 DEF Goes
  <1>4. \A j \in Nat : Posted(next, j) <=> j < i \/ j = i
    <2>1. CASE next = [i |-> i, phase |-> "await"]
      <3>1. next.i = i /\ next.phase # "post"
        BY <2>1
      <3> QED
        BY <3>1 DEF Posted
    <2>2. CASE next = [i |-> i + 1, phase |-> "post"]
      <3>1. next.i = i + 1 /\ next.phase = "post"
        BY <2>2
      <3>2. \A j \in Nat : Posted(next, j) <=> j < i + 1
        BY <3>1 DEF Posted
      <3>3. \A j \in Nat : j < i + 1 <=> j < i \/ j = i
        BY <1>1
      <3> QED
        BY <3>2, <3>3
    <2> QED
      BY <1>3, <2>1, <2>2
  <1> QED
    BY <1>1, <1>2, <1>4 DEF PostedTo

(* The lanes of the parts.                                                   *)
LEMMA SendsLane ==
  ASSUME QInv, NEW r \in Rank, NEW p \in DOMAIN plan[r], NEW s, s = SendSocket(r, p)
  PROVE  /\ Lane(sends[s], p, plan[r][p].sends, SendShift(plan[r][p]), part[r][p], plan[r][p].lag)
         /\ LaneOf(SendLine(s), call[r], p, plan[r][p].sends)
  <1>1. PICK P, Q, c : P = plan[r] /\ Q = part[r] /\ c = call[r]
    OBVIOUS
  <1>2. /\ c \in 1..Len(Calls) /\ P = Parts(c, r) /\ Fits(P) /\ s \in Socket
        /\ RankRight(data[r], P, Q)
    BY <1>1, PartIs
  <1>3. s = <<r, P[p].side, P[p].link>> /\ s[1] = r
    BY <1>1 DEF SendSocket
  <1>4. SendsRight(s, sends[s], P, Q) /\ SendQueue(P, sends[s])
    BY <1>1, <1>2, <1>3 DEF QInv, RInv, Queues
  <1>5. Lane(sends[s], p, P[p].sends, SendShift(P[p]), Q[p], P[p].lag)
    BY <1>1, <1>2, <1>3, <1>4, SendLane
  <1>6. LaneOf(SendLine(s), c, p, P[p].sends)
    BY <1>1, <1>2, <1>3, SendLineOf
  <1> QED
    BY <1>1, <1>5, <1>6

LEMMA RecvsLane ==
  ASSUME QInv, NEW r \in Rank, NEW p \in DOMAIN plan[r], NEW s, s = RecvSocket(r, p)
  PROVE  /\ Lane(recvs[s], p, plan[r][p].recvs, RecvShift(plan[r][p]), part[r][p], plan[r][p].lag)
         /\ LaneOf(RecvLine(s), call[r], p, plan[r][p].recvs)
  <1>1. PICK P, Q, c : P = plan[r] /\ Q = part[r] /\ c = call[r]
    OBVIOUS
  <1>2. /\ c \in 1..Len(Calls) /\ P = Parts(c, r) /\ Fits(P) /\ s \in Socket
        /\ RankRight(data[r], P, Q)
    BY <1>1, PartIs
  <1>3. s = <<r, Other(P[p].side), P[p].link>> /\ s[1] = r
    BY <1>1 DEF RecvSocket
  <1>4. RecvsRight(s, recvs[s], P, Q) /\ RecvQueue(P, recvs[s])
    BY <1>1, <1>2, <1>3 DEF QInv, RInv, Queues
  <1>5. Lane(recvs[s], p, P[p].recvs, RecvShift(P[p]), Q[p], P[p].lag)
    BY <1>1, <1>2, <1>3, <1>4, RecvLane
  <1>6. LaneOf(RecvLine(s), c, p, P[p].recvs)
    BY <1>1, <1>2, <1>3, RecvLineOf
  <1> QED
    BY <1>1, <1>5, <1>6

(* A part posts: what is queued is in order, and nothing more is through.    *)
LEMMA PostSends ==
  ASSUME QInv, NEW r \in Rank, NEW p, PostDone(r, p), NEW s, s = SendSocket(r, p)
  PROVE  /\ SendQueue(plan[r], sends'[s])
         /\ \A x \in SendLine(s) : x[1] = call[r] =>
              (Through(part[r][x[2]], sends[s], x, 0) <=> Through(part'[r][x[2]], sends'[s], x, 0))
  <1>1. PICK P, mine, i, t, queue, more, now, next, R, sh :
          /\ P = plan[r] /\ mine = P[p] /\ i = part[r][p].i /\ t = SendTask(r, p)
          /\ queue = sends[s] /\ more = sends'[s] /\ now = part[r][p] /\ next = part'[r][p]
          /\ R = mine.sends /\ sh = SendShift(mine)
    OBVIOUS
  <1>2. /\ p \in DOMAIN P /\ now.phase = "post" /\ i \in 1..Len(R) /\ next = Goes(now, mine)
        /\ QueuedAt(more, queue, t, R[i][1] = R[i][2])
    BY <1>1 DEF PostDone
  <1>3. Lane(queue, p, R, sh, now, mine.lag) /\ LaneOf(SendLine(s), call[r], p, R)
    BY <1>1, <1>2, SendsLane
  <1>4. i = now.i /\ now.i \in Nat /\ queue \in Seq(Task) /\ R[i][1] \in Nat /\ R[i][2] \in Nat
    BY <1>1, <1>2, <1>3 DEF Lane
  <1>5. \A k \in 1..Len(R) : sh[k] = 0
    BY <1>1 DEF SendShift
  <1>6. t.part = p /\ t.step = i /\ t.lo = R[i][1] /\ t.hi = R[i][2]
    BY <1>1 DEF SendTask, NewTask
  <1>7. t.lo = R[i][1] - sh[i]
    BY <1>2, <1>4, <1>5, <1>6
  <1>8. PostedTo(next, now, i)
    BY <1>2, <1>4, GoesPosted
  <1>9. /\ \A j \in DOMAIN queue : queue[j].step < i
        /\ \A x \in Item : OnLane(x, p, R) =>
              (Through(next, more, x, sh[x[3]]) <=> Through(now, queue, x, sh[x[3]]))
    BY <1>2, <1>3, <1>4, <1>6, <1>7, <1>8, LanePost
  <1>10. SendQueue(P, more)
    <2>1. SendRange(P, t) = R[i]
      BY <1>1, <1>6 DEF SendRange
    <2>2. SendQueue(P, queue)
      <3>1. s \in Socket /\ s[1] = r
        BY <1>1, <1>2, PartIs DEF SendSocket
      <3> QED
        BY <1>1, <3>1 DEF QInv, Queues
    <2> QED
      BY <1>2, <1>4, <1>6, <1>9, <2>1, <2>2, SendQueuePost
  <1>11. ASSUME NEW x \in SendLine(s), x[1] = call[r]
         PROVE  Through(part[r][x[2]], queue, x, 0) <=> Through(part'[r][x[2]], more, x, 0)
    <2>1. x \in Item /\ OnLane(x, p, R)
      BY <1>3, <1>11 DEF LaneOf
    <2>2. x[2] = p /\ sh[x[3]] = 0
      BY <1>5, <2>1 DEF OnLane
    <2> QED
      BY <1>1, <1>9, <2>1, <2>2
  <1> QED
    BY <1>1, <1>10, <1>11

LEMMA PostRecvs ==
  ASSUME QInv, NEW r \in Rank, NEW p, PostDone(r, p), NEW s, s = RecvSocket(r, p)
  PROVE  /\ RecvQueue(plan[r], recvs'[s])
         /\ \A x \in RecvLine(s) : x[1] = call[r] =>
              (Through(part[r][x[2]], recvs[s], x, Shift(plan[r][x[2]], x[3])) <=>
                 Through(part'[r][x[2]], recvs'[s], x, Shift(plan[r][x[2]], x[3])))
  <1>1. PICK P, mine, i, t, queue, more, now, next, R, sh :
          /\ P = plan[r] /\ mine = P[p] /\ i = part[r][p].i /\ t = RecvTask(r, p)
          /\ queue = recvs[s] /\ more = recvs'[s] /\ now = part[r][p] /\ next = part'[r][p]
          /\ R = mine.recvs /\ sh = RecvShift(mine)
    OBVIOUS
  <1>2. /\ p \in DOMAIN P /\ now.phase = "post" /\ next = Goes(now, mine) /\ i \in 1..Len(mine.sends)
        /\ QueuedAt(more, queue, t, R[i][1] = R[i][2])
    BY <1>1 DEF PostDone
  <1>3. Lane(queue, p, R, sh, now, mine.lag) /\ LaneOf(RecvLine(s), call[r], p, R)
    BY <1>1, <1>2, RecvsLane
  <1>4. i \in 1..Len(R) /\ mine.reduced \in Nat
    BY <1>1, <1>2, PartIs DEF RankRight, PlanRight, Whole
  <1>5. i = now.i /\ now.i \in Nat /\ queue \in Seq(Task) /\ R[i][1] \in Nat /\ R[i][2] \in Nat
    BY <1>1, <1>3, <1>4 DEF Lane
  <1>6. \A k \in 1..Len(R) : sh[k] = Shift(mine, k)
    BY <1>1 DEF RecvShift
  <1>7. PICK a, b, d : a = R[i][1] /\ b = R[i][2] /\ d = Shift(mine, i)
    OBVIOUS
  <1>8. d = IF i <= mine.reduced THEN a ELSE 0
    BY <1>1, <1>7 DEF Shift
  <1>9. t.part = p /\ t.step = i /\ t.lo = a - d /\ t.hi = b - d /\ (t.place = InPlace <=> i > mine.reduced)
    <2>1. CASE i <= mine.reduced
      <3>1. t = NewTask(p, i, Place(i), <<0, R[i][2] - R[i][1]>>)
        BY <1>1, <2>1 DEF RecvTask
      <3>2. t.part = p /\ t.step = i /\ t.lo = 0 /\ t.hi = b - a /\ t.place = Place(i)
        BY <1>7, <3>1 DEF NewTask
      <3>3. Place(i) # InPlace
        BY <1>5 DEF Place, InPlace
      <3> QED
        BY <1>5, <1>4, <1>7, <1>8, <2>1, <3>2, <3>3
    <2>2. CASE ~ (i <= mine.reduced)
      <3>1. t = NewTask(p, i, InPlace, R[i])
        BY <1>1, <2>2 DEF RecvTask
      <3>2. t.part = p /\ t.step = i /\ t.lo = a /\ t.hi = b /\ t.place = InPlace
        BY <1>7, <3>1 DEF NewTask
      <3> QED
        BY <1>5, <1>4, <1>7, <1>8, <2>2, <3>2
    <2> QED
      BY <2>1, <2>2
  <1>10. t.lo = R[i][1] - sh[i]
    BY <1>4, <1>6, <1>7, <1>9
  <1>11. PostedTo(next, now, i)
    BY <1>2, <1>5, GoesPosted
  <1>12. /\ \A j \in DOMAIN queue : queue[j].step < i
         /\ \A x \in Item : OnLane(x, p, R) =>
              (Through(next, more, x, sh[x[3]]) <=> Through(now, queue, x, sh[x[3]]))
    BY <1>2, <1>3, <1>4, <1>5, <1>9, <1>10, <1>11, LanePost
  <1>13. RecvQueue(P, more)
    <2>1. RecvRange(P, t) = <<a - d, b - d>>
      BY <1>1, <1>7, <1>9 DEF RecvRange
    <2>2. RecvQueue(P, queue)
      <3>1. s \in Socket /\ s[1] = r
        BY <1>1, <1>2, PartIs DEF RecvSocket
      <3> QED
        BY <1>1, <3>1 DEF QInv, Queues
    <2>3. t.lo = RecvRange(P, t)[1] /\ t.hi = RecvRange(P, t)[2] /\ t.lo \in Int
      BY <1>5, <1>7, <1>8, <1>9, <2>1
    <2>4. t.place = InPlace <=> t.step > P[t.part].reduced
      BY <1>1, <1>9
    <2> QED
      BY <1>2, <1>5, <1>9, <1>12, <2>2, <2>3, <2>4, RecvQueuePost
  <1>14. ASSUME NEW x \in RecvLine(s), x[1] = call[r]
         PROVE  Through(part[r][x[2]], queue, x, Shift(P[x[2]], x[3])) <=>
                  Through(part'[r][x[2]], more, x, Shift(P[x[2]], x[3]))
    <2>1. x \in Item /\ OnLane(x, p, R)
      BY <1>3, <1>14 DEF LaneOf
    <2>2. x[2] = p /\ sh[x[3]] = Shift(mine, x[3])
      BY <1>6, <2>1 DEF OnLane
    <2> QED
      BY <1>1, <1>12, <2>1, <2>2
  <1> QED
    BY <1>1, <1>13, <1>14

LEMMA PlannedRest ==
  ASSUME QInv, RInv', NEW r \in Rank, NEW p \in DOMAIN plan[r], call' = call, plan' = plan,
         \A q \in Rank : Len(data'[q]) = Len(data[q]),
         \A x \in DOMAIN plan[r] : x # p => part'[r][x] = part[r][x],
         \A q \in Rank \ {r} : part'[q] = part[q],
         part'[r][p].phase = "done" => part'[r][p].i = Len(plan[r][p].sends),
         NEW q \in Rank
  PROVE  Planned(q)'
  <1>1. Planned(q)
    BY DEF QInv
  <1>2. DOMAIN part'[q] = DOMAIN plan[q]
    BY DEF RInv, RankRight
  <1>3. DOMAIN part[q] = DOMAIN plan[q]
    BY DEF QInv, RInv, RankRight
  <1>4. ASSUME NEW x \in DOMAIN plan[q], part'[q][x].phase = "done"
        PROVE  part'[q][x].i = Len(plan[q][x].sends)
    <2>1. CASE q = r /\ x = p
      BY <1>4, <2>1
    <2>2. CASE ~ (q = r /\ x = p)
      <3>1. part'[q][x] = part[q][x]
        BY <2>2
      <3>2. part[q][x].phase = "done" => part[q][x].i = Len(plan[q][x].sends)
        BY <1>1, <1>3 DEF Planned
      <3> QED
        BY <1>4, <3>1, <3>2
    <2> QED
      BY <2>1, <2>2
  <1> QED
    BY <1>1, <1>2, <1>4 DEF Planned

LEMMA PostKeepsQ ==
  ASSUME QInv, NEW r \in Rank, NEW p \in DOMAIN part[r], Post(r, p)
  PROVE  QInv'
  <1>1. PostDone(r, p) /\ UNCHANGED <<call, data, received, plan, wire>>
    BY PostIs
  <1>2. RInv'
    BY PostKeeps DEF QInv
  <1>3. Stored'
    BY <1>1 DEF QInv, Stored
  <1>4. p \in DOMAIN plan[r]
    BY <1>1 DEF PostDone
  <1>5. ASSUME NEW q \in Rank PROVE Planned(q)'
    <2>1. part'[r][p].phase # "done"
      <3>1. part'[r][p] = Goes(part[r][p], plan[r][p])
        BY <1>1 DEF PostDone
      <3>2. \/ Goes(part[r][p], plan[r][p]) = [i |-> part[r][p].i, phase |-> "await"]
            \/ Goes(part[r][p], plan[r][p]) = [i |-> part[r][p].i + 1, phase |-> "post"]
        BY DEF Goes
      <3> QED
        BY <3>1, <3>2
    <2>2. /\ \A x \in DOMAIN plan[r] : x # p => part'[r][x] = part[r][x]
          /\ \A x \in Rank \ {r} : part'[x] = part[x]
      BY <1>1 DEF PostDone
    <2> QED
      BY <1>1, <1>2, <1>4, <2>1, <2>2, PlannedRest
  <1>6. ASSUME NEW s \in Socket PROVE Queues(s)'
    <2>1. SendQueue(plan[s[1]], sends[s]) /\ RecvQueue(plan[s[1]], recvs[s])
      BY DEF QInv, Queues
    <2>2. SendQueue(plan[s[1]], sends'[s])
      <3>1. CASE s = SendSocket(r, p)
        <4>1. s[1] = r
          BY <3>1 DEF SendSocket
        <4> QED
          BY <1>1, <3>1, <4>1, PostSends
      <3>2. CASE s # SendSocket(r, p)
        BY <1>1, <2>1, <3>2 DEF PostDone
      <3> QED
        BY <3>1, <3>2
    <2>3. RecvQueue(plan[s[1]], recvs'[s])
      <3>1. CASE s = RecvSocket(r, p)
        <4>1. s[1] = r
          BY <3>1 DEF RecvSocket
        <4> QED
          BY <1>1, <3>1, <4>1, PostRecvs
      <3>2. CASE s # RecvSocket(r, p)
        BY <1>1, <2>1, <3>2 DEF PostDone
      <3> QED
        BY <3>1, <3>2
    <2> QED
      BY <1>1, <2>2, <2>3 DEF Queues
  <1> QED
    BY <1>2, <1>3, <1>5, <1>6 DEF QInv

LEMMA AwaitKeepsQ ==
  ASSUME QInv, NEW r \in Rank, NEW p \in DOMAIN part[r], Await(r, p)
  PROVE  QInv'
  <1>1. AwaitDone(r, p) /\ UNCHANGED <<call, received, plan, sends, recvs, wire>>
    BY AwaitIs
  <1>2. RInv'
    BY AwaitKeeps DEF QInv
  <1>3. Stored'
    BY <1>1 DEF QInv, Stored
  <1>4. p \in DOMAIN plan[r]
    BY <1>1 DEF AwaitDone
  <1>5. ASSUME NEW q \in Rank PROVE Planned(q)'
    <2>1. part'[r][p].phase # "done"
      BY <1>1 DEF AwaitDone
    <2>2. /\ \A x \in DOMAIN plan[r] : x # p => part'[r][x] = part[r][x]
          /\ \A x \in Rank \ {r} : part'[x] = part[x]
      BY <1>1 DEF AwaitDone
    <2>3. \A x \in Rank : Len(data'[x]) = Len(data[x])
      <3>1. IsSeq(data[r])
        BY DEF QInv, RInv, RankRight
      <3>2. data'[r] = data[r] \/ \E j : data'[r] = Reduced(r, p, j)
        BY <1>1 DEF AwaitDone
      <3>3. Len(data'[r]) = Len(data[r])
        BY <3>1, <3>2, ReducedIs
      <3>4. \A x \in Rank \ {r} : data'[x] = data[x]
        BY <1>1 DEF AwaitDone
      <3> QED
        BY <3>3, <3>4
    <2> QED
      BY <1>1, <1>2, <1>4, <2>1, <2>2, <2>3, PlannedRest
  <1>6. ASSUME NEW s \in Socket PROVE Queues(s)'
    BY <1>1 DEF Queues, QInv
  <1> QED
    BY <1>2, <1>3, <1>5, <1>6 DEF QInv

LEMMA LastKeepsQ ==
  ASSUME QInv, NEW r \in Rank, NEW p \in DOMAIN part[r], Last(r, p)
  PROVE  QInv'
  <1>1. LastDone(r, p) /\ UNCHANGED <<call, data, received, plan, sends, recvs, wire>>
    BY LastIs
  <1>2. RInv'
    BY LastKeeps DEF QInv
  <1>3. Stored'
    BY <1>1 DEF QInv, Stored
  <1>4. p \in DOMAIN plan[r]
    BY <1>1 DEF LastDone
  <1>5. ASSUME NEW q \in Rank PROVE Planned(q)'
    <2>1. part'[r][p].i = Len(plan[r][p].sends)
      BY <1>1 DEF LastDone
    <2>2. /\ \A x \in DOMAIN plan[r] : x # p => part'[r][x] = part[r][x]
          /\ \A x \in Rank \ {r} : part'[x] = part[x]
      BY <1>1 DEF LastDone
    <2> QED
      BY <1>1, <1>2, <1>4, <2>1, <2>2, PlannedRest
  <1>6. ASSUME NEW s \in Socket PROVE Queues(s)'
    BY <1>1 DEF Queues, QInv
  <1> QED
    BY <1>2, <1>3, <1>5, <1>6 DEF QInv

LEMMA BeginKeepsQ ==
  ASSUME QInv, NEW r \in Rank, Begin(r)
  PROVE  QInv'
  <1>1. BeginDone(r, call[r] + 1) /\ UNCHANGED <<received, sends, recvs, wire>>
    BY BeginIs
  <1>2. RInv'
    BY BeginKeeps DEF QInv
  <1>3. Stored'
    BY <1>1 DEF QInv, Stored
  <1>4. PICK c : c = call[r] + 1
    OBVIOUS
  <1>5. ASSUME NEW q \in Rank PROVE Planned(q)'
    <2>1. CASE q = r
      <3>1. c \in 1..Len(Calls) /\ call'[r] = c /\ plan'[r] = Parts(c, r)
        BY <1>1, <1>4 DEF BeginDone
      <3>2. Takes(c, r) => Len(data'[r]) = Len(Prepared(c, r))
        BY <1>1, <1>4 DEF BeginDone
      <3>3. \A p \in DOMAIN part'[r] : part'[r][p].phase # "done"
        BY <1>1, <1>4 DEF BeginDone
      <3>4. c # 0
        BY <3>1, RingAssumption
      <3> QED
        BY <2>1, <3>1, <3>2, <3>3, <3>4 DEF Planned
    <2>2. CASE q # r
      <3>1. Planned(q)
        BY DEF QInv
      <3>2. call'[q] = call[q] /\ plan'[q] = plan[q] /\ data'[q] = data[q] /\ part'[q] = part[q]
        BY <1>1, <2>2 DEF BeginDone
      <3> QED
        BY <3>1, <3>2 DEF Planned
    <2> QED
      BY <2>1, <2>2
  <1>6. ASSUME NEW s \in Socket PROVE Queues(s)'
    <2>1. CASE s[1] = r
      <3>1. DOMAIN sends[s] = {} /\ DOMAIN recvs[s] = {}
        <4>1. Returned(s[1])
          BY <1>1, <2>1 DEF BeginDone
        <4> QED
          BY <4>1, NoTasks DEF QInv
      <3>2. DOMAIN sends'[s] = {} /\ DOMAIN recvs'[s] = {}
        BY <1>1, <3>1
      <3> QED
        BY <3>2 DEF Queues, SendQueue, RecvQueue, Ordered
    <2>2. CASE s[1] # r
      <3>1. plan'[s[1]] = plan[s[1]]
        BY <1>1, <2>2, SocketIs DEF BeginDone
      <3> QED
        BY <1>1, <3>1 DEF Queues, QInv
    <2> QED
      BY <2>1, <2>2
  <1> QED
    BY <1>2, <1>3, <1>5, <1>6 DEF QInv

LEMMA SendRangeIs ==
  ASSUME QInv, NEW s \in Socket, NEW m \in DOMAIN sends[s]
  PROVE  SendRange(plan[s[1]], sends[s][m])[1] \in Int
  <1>1. PICK r, P, t : r = s[1] /\ P = plan[r] /\ t = sends[s][m]
    OBVIOUS
  <1>2. r \in Rank /\ Current(t, P, part[r])
    BY <1>1, SocketIs DEF QInv, RInv, SendsRight, SendRight
  <1>3. t.part \in DOMAIN P /\ t.step \in 1..Len(P[t.part].sends)
    BY <1>2 DEF Current
  <1>4. Whole(P[t.part], Len(data[r]))
    BY <1>1, <1>2, <1>3 DEF QInv, RInv, RankRight, PlanRight
  <1>5. P[t.part].sends[t.step][1] \in Int
    BY <1>3, <1>4 DEF Whole, Within
  <1> QED
    BY <1>1, <1>5 DEF SendRange

LEMMA RecvRangeIs ==
  ASSUME QInv, NEW s \in Socket, NEW m \in DOMAIN recvs[s]
  PROVE  RecvRange(plan[s[1]], recvs[s][m])[1] \in Int
  <1>1. PICK r, P, t : r = s[1] /\ P = plan[r] /\ t = recvs[s][m]
    OBVIOUS
  <1>2. r \in Rank /\ Current(t, P, part[r])
    BY <1>1, SocketIs DEF QInv, RInv, RecvsRight, RecvRight
  <1>3. t.part \in DOMAIN P /\ t.step \in 1..Len(P[t.part].sends)
    BY <1>2 DEF Current
  <1>4. Whole(P[t.part], Len(data[r]))
    BY <1>1, <1>2, <1>3 DEF QInv, RInv, RankRight, PlanRight
  <1>5. PICK a, d : a = P[t.part].recvs[t.step][1] /\ d = Shift(P[t.part], t.step)
    OBVIOUS
  <1>6. a \in Int
    BY <1>3, <1>4, <1>5 DEF Whole, Within
  <1>7. d \in {0, a}
    BY <1>5 DEF Shift
  <1>8. RecvRange(P, t)[1] = a - d
    BY <1>5 DEF RecvRange
  <1> QED
    BY <1>1, <1>6, <1>7, <1>8

LEMMA SendKeepsQ ==
  ASSUME QInv, NEW s \in Socket, Send(s)
  PROVE  QInv'
  <1>1. UNCHANGED <<call, data, received, plan, part, recvs>>
    BY SendDoes
  <1>2. PICK h, n : SendDone(s, h, n)
    BY SendDoes
  <1>3. RInv'
    BY SendKeeps DEF QInv
  <1>4. Stored' /\ \A q \in Rank : Planned(q)'
    BY <1>1 DEF QInv, Stored, Planned
  <1>5. ASSUME NEW x \in Socket PROVE Queues(x)'
    <2>1. SendQueue(plan[x[1]], sends[x]) /\ RecvQueue(plan[x[1]], recvs[x])
      BY DEF QInv, Queues
    <2>2. SendQueue(plan[x[1]], sends'[x])
      <3>1. CASE x = s
        <4>1. n \in Nat
          BY <1>2 DEF SendDone
        <4>2. /\ sends[s] \in Seq(Task) /\ sends[s] # <<>> /\ sends'[s] = Rest(sends[s], n)
          BY <1>2 DEF SendDone
        <4>3. \A m \in DOMAIN sends[s] : SendRange(plan[s[1]], sends[s][m])[1] \in Int
          BY SendRangeIs
        <4> QED
          BY <2>1, <3>1, <4>1, <4>2, <4>3, SendQueueRest
      <3>2. CASE x # s
        BY <1>2, <2>1, <3>2 DEF SendDone
      <3> QED
        BY <3>1, <3>2
    <2> QED
      BY <1>1, <2>1, <2>2 DEF Queues
  <1> QED
    BY <1>3, <1>4, <1>5 DEF QInv

LEMMA FilledIs ==
  ASSUME NEW x, IsSeq(x), NEW lo, NEW n, NEW w
  PROVE  IsSeq(FilledWith(x, lo, n, w)) /\ Len(FilledWith(x, lo, n, w)) = Len(x)
  <1>1. PICK f : f = FilledWith(x, lo, n, w)
    OBVIOUS
  <1>2. Len(x) \in Nat /\ DOMAIN x = 1..Len(x)
    BY SeqIs
  <1>3. f = [e \in 1..Len(x) |-> f[e]]
    BY <1>1, <1>2 DEF FilledWith
  <1> QED
    BY <1>1, <1>2, <1>3, SeqMade

LEMMA RecvKeepsQ ==
  ASSUME QInv, NEW s \in Socket, Recv(s)
  PROVE  QInv'
  <1>1. UNCHANGED <<call, plan, part, sends>> /\ Stored'
    BY RecvDoes
  <1>2. PICK h, n : RecvDone(s, h, n)
    BY RecvDoes
  <1>3. RInv'
    BY RecvKeeps DEF QInv
  <1>4. ASSUME NEW q \in Rank PROVE Planned(q)'
    <2>1. Len(data'[q]) = Len(data[q])
      <3>1. IsSeq(data[q])
        BY DEF QInv, RInv, RankRight
      <3>2. data'[q] = data[q] \/ data'[q] = FilledWith(data[q], h.lo, n, wire[s])
        BY <1>2 DEF RecvDone
      <3> QED
        BY <3>1, <3>2, FilledIs
    <2> QED
      BY <1>1, <2>1 DEF QInv, Planned
  <1>5. ASSUME NEW x \in Socket PROVE Queues(x)'
    <2>1. SendQueue(plan[x[1]], sends[x]) /\ RecvQueue(plan[x[1]], recvs[x])
      BY DEF QInv, Queues
    <2>2. RecvQueue(plan[x[1]], recvs'[x])
      <3>1. CASE x = s
        <4>1. n \in Nat
          BY <1>2 DEF RecvDone
        <4>2. /\ recvs[s] \in Seq(Task) /\ recvs[s] # <<>> /\ recvs'[s] = Rest(recvs[s], n)
          BY <1>2 DEF RecvDone
        <4>3. \A m \in DOMAIN recvs[s] : RecvRange(plan[s[1]], recvs[s][m])[1] \in Int
          BY RecvRangeIs
        <4> QED
          BY <2>1, <3>1, <4>1, <4>2, <4>3, RecvQueueRest
      <3>2. CASE x # s
        BY <1>2, <2>1, <3>2 DEF RecvDone
      <3> QED
        BY <3>1, <3>2
    <2> QED
      BY <1>1, <2>1, <2>2 DEF Queues
  <1> QED
    BY <1>1, <1>3, <1>4, <1>5 DEF QInv

LEMMA QInit == Init => QInv
  <1> SUFFICES ASSUME Init PROVE QInv
    OBVIOUS
  <1>1. RInv
    BY RInit
  <1>2. Stored
    <2>1. received = [r \in Rank |-> [b \in Slot |-> Blank(MaxBuffer)]]
      BY DEF Init, Slot
    <2>2. Blank(MaxBuffer) = [m \in 1..MaxBuffer |-> EmptyBag]
      BY DEF Blank
    <2>3. Rows(received)
      BY <2>1 DEF Rows
    <2>4. \A q \in Rank : \A b \in Slot : received[q][b] = [m \in 1..MaxBuffer |-> received[q][b][m]]
      BY <2>1, <2>2
    <2>5. received = [q \in Rank |-> [b \in Slot |-> [m \in 1..MaxBuffer |-> received[q][b][m]]]]
      BY <2>3, <2>4, StoredAs
    <2> QED
      BY <2>5 DEF Stored, Slot
  <1>3. ASSUME NEW r \in Rank PROVE Planned(r)
    <2>1. call[r] = 0 /\ plan[r] = <<>> /\ part[r] = <<>>
      BY DEF Init
    <2>2. DOMAIN part[r] = {}
      BY <2>1
    <2> QED
      BY <2>1, <2>2 DEF Planned
  <1>4. ASSUME NEW s \in Socket PROVE Queues(s)
    <2>1. DOMAIN sends[s] = {} /\ DOMAIN recvs[s] = {}
      BY DEF Init
    <2> QED
      BY <2>1 DEF Queues, SendQueue, RecvQueue, Ordered
  <1> QED
    BY <1>1, <1>2, <1>3, <1>4 DEF QInv

-----------------------------------------------------------------------------
(* Nothing is sent and nothing arrives but by the threads of the sockets.    *)
Steady == \A s \in Socket : Sent(s)' = Sent(s) /\ Arrived(s)' = Arrived(s)

LEMMA OnSend ==
  ASSUME NEW s, NEW x \in SendLine(s)
  PROVE  /\ x \in Item /\ x[1] \in 1..Len(Calls) /\ x[3] \in Nat
         /\ x[2] \in DOMAIN Parts(x[1], s[1])
         /\ s = <<s[1], Parts(x[1], s[1])[x[2]].side, Parts(x[1], s[1])[x[2]].link>>
         /\ x[3] \in 1..Len(Parts(x[1], s[1])[x[2]].sends)
         /\ x[4] \in Covers(Parts(x[1], s[1])[x[2]].sends[x[3]])
  <1>1. x \in Item
    BY DEF SendLine
  <1>2. x[1] \in 1..Len(Calls) /\ x[3] \in Nat
    BY <1>1 DEF Item
  <1> QED
    BY <1>1, <1>2 DEF SendLine

LEMMA OnRecv ==
  ASSUME NEW s, NEW x \in RecvLine(s)
  PROVE  /\ x \in Item /\ x[1] \in 1..Len(Calls) /\ x[3] \in Nat
         /\ x[2] \in DOMAIN Parts(x[1], s[1])
         /\ s = <<s[1], Other(Parts(x[1], s[1])[x[2]].side), Parts(x[1], s[1])[x[2]].link>>
         /\ x[3] \in 1..Len(Parts(x[1], s[1])[x[2]].recvs)
         /\ x[4] \in Covers(Parts(x[1], s[1])[x[2]].recvs[x[3]])
  <1>1. x \in Item
    BY DEF RecvLine
  <1>2. x[1] \in 1..Len(Calls) /\ x[3] \in Nat
    BY <1>1 DEF Item
  <1> QED
    BY <1>1, <1>2 DEF RecvLine

(* The plan of a rank that takes part in its call.                           *)
LEMMA PlanIs ==
  ASSUME QInv, NEW r \in Rank, call[r] \in 1..Len(Calls)
  PROVE  plan[r] = Parts(call[r], r)
  <1>1. call[r] # 0
    BY RingAssumption
  <1> QED
    BY <1>1 DEF QInv, Planned

LEMMA PostSteady ==
  ASSUME QInv, NEW r \in Rank, NEW p \in DOMAIN part[r], Post(r, p)
  PROVE  Steady
  <1>1. PostDone(r, p) /\ UNCHANGED <<call, data, received, plan, wire>>
    BY PostIs
  <1>2. ASSUME NEW s \in Socket PROVE Sent(s)' = Sent(s)
    <2>1. PICK c, Q, Q2, w, w2 :
            c = call[s[1]] /\ Q = part[s[1]] /\ Q2 = part'[s[1]] /\ w = sends[s] /\ w2 = sends'[s]
      OBVIOUS
    <2>2. ASSUME NEW x \in SendLine(s), x[1] = c
          PROVE  Through(Q[x[2]], w, x, 0) <=> Through(Q2[x[2]], w2, x, 0)
      <3>1. CASE s = SendSocket(r, p)
        <4>1. s[1] = r
          BY <3>1 DEF SendSocket
        <4> QED
          BY <1>1, <2>1, <2>2, <3>1, <4>1, PostSends
      <3>2. CASE s # SendSocket(r, p)
        <4>1. w2 = w
          BY <1>1, <2>1, <3>2 DEF PostDone
        <4>2. Q2[x[2]] = Q[x[2]]
          <5>1. CASE s[1] # r
            BY <1>1, <2>1, <5>1, SocketIs DEF PostDone
          <5>2. CASE s[1] = r
            <6>1. plan[r] = Parts(c, r)
              BY <2>1, <2>2, <5>2, OnSend, PlanIs
            <6>2. x[2] \in DOMAIN plan[r] /\ s = SendSocket(r, x[2])
              BY <2>1, <2>2, <5>2, <6>1, OnSend DEF SendSocket
            <6>3. x[2] # p
              BY <3>2, <6>2
            <6> QED
              BY <1>1, <2>1, <5>2, <6>2, <6>3 DEF PostDone
          <5> QED
            BY <5>1, <5>2
        <4> QED
          BY <4>1, <4>2
      <3> QED
        BY <3>1, <3>2
    <2>3. SentOf(s, c, Q, w) = SentOf(s, c, Q2, w2)
      BY <2>2, SentSame
    <2> QED
      BY <1>1, <2>1, <2>3 DEF Sent
  <1>3. ASSUME NEW s \in Socket PROVE Arrived(s)' = Arrived(s)
    <2>1. PICK c, P, Q, Q2, w, w2 :
            /\ c = call[s[1]] /\ P = plan[s[1]] /\ Q = part[s[1]] /\ Q2 = part'[s[1]]
            /\ w = recvs[s] /\ w2 = recvs'[s]
      OBVIOUS
    <2>2. ASSUME NEW x \in RecvLine(s), x[1] = c
          PROVE  Through(Q[x[2]], w, x, Shift(P[x[2]], x[3])) <=> Through(Q2[x[2]], w2, x, Shift(P[x[2]], x[3]))
      <3>1. CASE s = RecvSocket(r, p)
        <4>1. s[1] = r
          BY <3>1 DEF RecvSocket
        <4> QED
          BY <1>1, <2>1, <2>2, <3>1, <4>1, PostRecvs
      <3>2. CASE s # RecvSocket(r, p)
        <4>1. w2 = w
          BY <1>1, <2>1, <3>2 DEF PostDone
        <4>2. Q2[x[2]] = Q[x[2]]
          <5>1. CASE s[1] # r
            BY <1>1, <2>1, <5>1, SocketIs DEF PostDone
          <5>2. CASE s[1] = r
            <6>1. plan[r] = Parts(c, r)
              BY <2>1, <2>2, <5>2, OnRecv, PlanIs
            <6>2. x[2] \in DOMAIN plan[r] /\ s = RecvSocket(r, x[2])
              BY <2>1, <2>2, <5>2, <6>1, OnRecv DEF RecvSocket
            <6>3. x[2] # p
              BY <3>2, <6>2
            <6> QED
              BY <1>1, <2>1, <5>2, <6>2, <6>3 DEF PostDone
          <5> QED
            BY <5>1, <5>2
        <4> QED
          BY <4>1, <4>2
      <3> QED
        BY <3>1, <3>2
    <2>3. ArrivedOf(s, c, P, Q, w) = ArrivedOf(s, c, P, Q2, w2)
      BY <2>2, ArrivedSame
    <2> QED
      BY <1>1, <2>1, <2>3 DEF Arrived
  <1> QED
    BY <1>2, <1>3 DEF Steady

(* A part goes on to wait for, or to post, its next packet.                  *)
LEMMA SteadyRest ==
  ASSUME QInv, UNCHANGED <<call, plan, sends, recvs>>,
         \A r \in Rank : \A p \in DOMAIN plan[r] : \A k \in Nat :
           Posted(part[r][p], k) <=> Posted(part'[r][p], k)
  PROVE  Steady
  <1>1. ASSUME NEW s \in Socket PROVE Sent(s)' = Sent(s)
    <2>1. PICK c, Q, Q2, w :
            c = call[s[1]] /\ Q = part[s[1]] /\ Q2 = part'[s[1]] /\ w = sends[s]
      OBVIOUS
    <2>2. ASSUME NEW x \in SendLine(s), x[1] = c
          PROVE  Through(Q[x[2]], w, x, 0) <=> Through(Q2[x[2]], w, x, 0)
      <3>1. plan[s[1]] = Parts(c, s[1])
        BY <2>1, <2>2, OnSend, PlanIs, SocketIs
      <3>2. x[2] \in DOMAIN plan[s[1]] /\ x[3] \in Nat
        BY <2>2, <3>1, OnSend
      <3>3. Posted(Q[x[2]], x[3]) <=> Posted(Q2[x[2]], x[3])
        BY <2>1, <3>2, SocketIs
      <3> QED
        BY <3>3 DEF Through
    <2>3. SentOf(s, c, Q, w) = SentOf(s, c, Q2, w)
      BY <2>2, SentSame
    <2> QED
      BY <2>1, <2>3 DEF Sent
  <1>2. ASSUME NEW s \in Socket PROVE Arrived(s)' = Arrived(s)
    <2>1. PICK c, P, Q, Q2, w :
            c = call[s[1]] /\ P = plan[s[1]] /\ Q = part[s[1]] /\ Q2 = part'[s[1]] /\ w = recvs[s]
      OBVIOUS
    <2>2. ASSUME NEW x \in RecvLine(s), x[1] = c
          PROVE  Through(Q[x[2]], w, x, Shift(P[x[2]], x[3])) <=> Through(Q2[x[2]], w, x, Shift(P[x[2]], x[3]))
      <3>1. plan[s[1]] = Parts(c, s[1])
        BY <2>1, <2>2, OnRecv, PlanIs, SocketIs
      <3>2. x[2] \in DOMAIN plan[s[1]] /\ x[3] \in Nat
        BY <2>2, <3>1, OnRecv
      <3>3. Posted(Q[x[2]], x[3]) <=> Posted(Q2[x[2]], x[3])
        BY <2>1, <3>2, SocketIs
      <3> QED
        BY <3>3 DEF Through
    <2>3. ArrivedOf(s, c, P, Q, w) = ArrivedOf(s, c, P, Q2, w)
      BY <2>2, ArrivedSame
    <2> QED
      BY <2>1, <2>3 DEF Arrived
  <1> QED
    BY <1>1, <1>2 DEF Steady

LEMMA AwaitSteady ==
  ASSUME QInv, NEW r \in Rank, NEW p \in DOMAIN part[r], Await(r, p)
  PROVE  Steady
  <1>1. AwaitDone(r, p) /\ UNCHANGED <<call, plan, sends, recvs>>
    BY AwaitIs
  <1>2. ASSUME NEW q \in Rank, NEW x \in DOMAIN plan[q], NEW k \in Nat
        PROVE  Posted(part[q][x], k) <=> Posted(part'[q][x], k)
    <2>1. CASE q = r /\ x = p
      <3>1. PICK i, a, b : i = part[r][p].i /\ a = part[r][p] /\ b = part'[r][p]
        OBVIOUS
      <3>2. /\ a.i = i /\ a.phase = "await"
            /\ b = [i |-> i, phase |-> "last"] \/ b = [i |-> i + 1, phase |-> "post"]
        BY <1>1, <3>1 DEF AwaitDone
      <3>3. i \in Nat
        BY <2>1, <3>1 DEF QInv, RInv, RankRight, Advances, Progress
      <3>4. Posted(a, k) <=> k < i \/ k = i
        BY <3>2 DEF Posted
      <3>5. CASE b = [i |-> i, phase |-> "last"]
        <4>1. b.i = i /\ b.phase = "last"
          BY <3>5
        <4>2. Posted(b, k) <=> k < i \/ k = i
          BY <4>1 DEF Posted
        <4> QED
          BY <2>1, <3>1, <3>4, <4>2
      <3>6. CASE b = [i |-> i + 1, phase |-> "post"]
        <4>1. b.i = i + 1 /\ b.phase = "post"
          BY <3>6
        <4>2. Posted(b, k) <=> k < i + 1
          BY <4>1 DEF Posted
        <4>3. k < i + 1 <=> k < i \/ k = i
          BY <3>3
        <4> QED
          BY <2>1, <3>1, <3>4, <4>2, <4>3
      <3> QED
        BY <3>2, <3>5, <3>6
    <2>2. CASE ~ (q = r /\ x = p)
      BY <1>1, <2>2 DEF AwaitDone
    <2> QED
      BY <2>1, <2>2
  <1> QED
    BY <1>1, <1>2, SteadyRest

LEMMA LastSteady ==
  ASSUME QInv, NEW r \in Rank, NEW p \in DOMAIN part[r], Last(r, p)
  PROVE  Steady
  <1>1. LastDone(r, p) /\ UNCHANGED <<call, plan, sends, recvs>>
    BY LastIs
  <1>2. ASSUME NEW q \in Rank, NEW x \in DOMAIN plan[q], NEW k \in Nat
        PROVE  Posted(part[q][x], k) <=> Posted(part'[q][x], k)
    <2>1. CASE q = r /\ x = p
      <3>1. PICK i, a, b : i = part[r][p].i /\ a = part[r][p] /\ b = part'[r][p]
        OBVIOUS
      <3>2. a.i = i /\ a.phase = "last" /\ b = [i |-> i, phase |-> "done"]
        BY <1>1, <3>1 DEF LastDone
      <3>3. b.i = i /\ b.phase = "done"
        BY <3>2
      <3>4. Posted(a, k) <=> Posted(b, k)
        BY <3>2, <3>3 DEF Posted
      <3> QED
        BY <2>1, <3>1, <3>4
    <2>2. CASE ~ (q = r /\ x = p)
      BY <1>1, <2>2 DEF LastDone
    <2> QED
      BY <2>1, <2>2
  <1> QED
    BY <1>1, <1>2, SteadyRest

(* Of a call that has returned everything has gone through, of one that      *)
(* begins nothing.                                                           *)
LEMMA ReturnedPosted ==
  ASSUME QInv, NEW r \in Rank, Returned(r), NEW p \in DOMAIN plan[r], NEW k \in Nat, k <= Len(plan[r][p].sends)
  PROVE  Posted(part[r][p], k)
  <1>1. p \in DOMAIN part[r]
    BY DEF QInv, RInv, RankRight
  <1>2. part[r][p].phase = "done"
    BY <1>1 DEF Returned
  <1>3. part[r][p].i = Len(plan[r][p].sends)
    BY <1>1, <1>2 DEF QInv, Planned
  <1>4. part[r][p].i \in Nat
    BY DEF QInv, RInv, RankRight, Advances, Progress
  <1> QED
    BY <1>2, <1>3, <1>4 DEF Posted

LEMMA NextCall ==
  ASSUME NEW c \in Nat, NEW x, x[1] \in Nat, NEW A, NEW B, x[1] = c => A, x[1] = c + 1 => ~ B
  PROVE  x[1] < c \/ (x[1] = c /\ A) <=> x[1] < c + 1 \/ (x[1] = c + 1 /\ B)
  <1>1. PICK y : y = x[1]
    OBVIOUS
  <1>2. y \in Nat /\ (y = c => A) /\ (y = c + 1 => ~ B)
    BY <1>1
  <1>3. CASE y = c
    BY <1>1, <1>2, <1>3
  <1>4. CASE y # c
    BY <1>1, <1>2, <1>4
  <1> QED
    BY <1>3, <1>4

LEMMA BeginSteady ==
  ASSUME QInv, NEW r \in Rank, Begin(r)
  PROVE  Steady
  <1>1. PICK c : c = call[r]
    OBVIOUS
  <1>2. BeginDone(r, c + 1) /\ UNCHANGED <<received, sends, recvs, wire>>
    BY <1>1, BeginIs
  <1>3. QInv'
    BY BeginKeepsQ
  <1>4. c \in Nat /\ Returned(r) /\ call'[r] = c + 1 /\ plan'[r] = Parts(c + 1, r)
    BY <1>1, <1>2 DEF BeginDone, QInv, RInv, Tables
  <1>5. ASSUME NEW p \in DOMAIN Parts(c + 1, r), NEW k \in Nat, k # 0
        PROVE  ~ Posted(part'[r][p], k)
    <2>1. part'[r][p] = [i |-> 1, phase |-> "post"]
      BY <1>2, <1>5 DEF BeginDone
    <2>2. part'[r][p].i = 1 /\ part'[r][p].phase = "post"
      BY <2>1
    <2> QED
      BY <1>5, <2>2 DEF Posted
  <1>6. ASSUME NEW s \in Socket PROVE Sent(s)' = Sent(s)
    <2>1. CASE s[1] = r
      <3>1. DOMAIN sends[s] = {}
        BY <1>4, <2>1, NoTasks DEF QInv
      <3>2. ASSUME NEW x \in SendLine(s)
            PROVE  Done(c, part[r][x[2]], sends[s], x, 0) <=> Done(c + 1, part'[r][x[2]], sends[s], x, 0)
        <4>1. x[1] \in 1..Len(Calls) /\ x[3] \in Nat
          BY OnSend
        <4>2. x[1] = c => Through(part[r][x[2]], sends[s], x, 0)
          <5>1. SUFFICES ASSUME x[1] = c PROVE Through(part[r][x[2]], sends[s], x, 0)
            OBVIOUS
          <5>2. plan[r] = Parts(c, r)
            BY <1>1, <4>1, <5>1, PlanIs
          <5>3. x[2] \in DOMAIN plan[r] /\ x[3] \in 1..Len(plan[r][x[2]].sends)
            BY <2>1, <5>1, <5>2, OnSend
          <5>4. x[3] <= Len(plan[r][x[2]].sends)
            <6>1. Len(plan[r][x[2]].sends) \in Nat
              BY <5>3 DEF QInv, RInv, RankRight, PlanRight, Whole
            <6> QED
              BY <5>3, <6>1
          <5>5. Posted(part[r][x[2]], x[3])
            BY <1>4, <4>1, <5>3, <5>4, ReturnedPosted
          <5> QED
            BY <3>1, <5>5 DEF Through
        <4>3. x[1] = c + 1 => ~ Through(part'[r][x[2]], sends[s], x, 0)
          <5>1. SUFFICES ASSUME x[1] = c + 1 PROVE ~ Posted(part'[r][x[2]], x[3])
            BY DEF Through
          <5>2. x[2] \in DOMAIN Parts(c + 1, r) /\ x[3] \in 1..Len(Parts(c + 1, r)[x[2]].sends)
            BY <2>1, <5>1, OnSend
          <5>3. x[3] # 0
            <6>1. x[3] >= 1
              BY <5>2
            <6> QED
              BY <4>1, <6>1
          <5> QED
            BY <1>5, <4>1, <5>2, <5>3
        <4>4. x[1] \in Nat
          BY <4>1
        <4> QED
          BY <1>4, <4>2, <4>3, <4>4, NextCall DEF Done
      <3>3. Sent(s) = SentOf(s, c, part[r], sends[s]) /\ Sent(s)' = SentOf(s, c + 1, part'[r], sends[s])
        BY <1>1, <1>2, <1>4, <2>1 DEF Sent
      <3> QED
        BY <3>2, <3>3 DEF SentOf
    <2>2. CASE s[1] # r
      <3>1. call'[s[1]] = call[s[1]] /\ part'[s[1]] = part[s[1]]
        BY <1>2, <2>2, SocketIs DEF BeginDone
      <3> QED
        BY <1>2, <3>1 DEF Sent
    <2> QED
      BY <2>1, <2>2
  <1>7. ASSUME NEW s \in Socket PROVE Arrived(s)' = Arrived(s)
    <2>1. CASE s[1] = r
      <3>1. DOMAIN recvs[s] = {}
        BY <1>4, <2>1, NoTasks DEF QInv
      <3>2. ASSUME NEW x \in RecvLine(s)
            PROVE  Done(c, part[r][x[2]], recvs[s], x, Shift(plan[r][x[2]], x[3])) <=>
                     Done(c + 1, part'[r][x[2]], recvs[s], x, Shift(plan'[r][x[2]], x[3]))
        <4>1. x[1] \in 1..Len(Calls) /\ x[3] \in Nat
          BY OnRecv
        <4>2. x[1] = c => Through(part[r][x[2]], recvs[s], x, Shift(plan[r][x[2]], x[3]))
          <5>1. SUFFICES ASSUME x[1] = c PROVE Through(part[r][x[2]], recvs[s], x, Shift(plan[r][x[2]], x[3]))
            OBVIOUS
          <5>2. plan[r] = Parts(c, r)
            BY <1>1, <4>1, <5>1, PlanIs
          <5>3. x[2] \in DOMAIN plan[r] /\ x[3] \in 1..Len(plan[r][x[2]].recvs)
            BY <2>1, <5>1, <5>2, OnRecv
          <5>4. x[3] <= Len(plan[r][x[2]].sends)
            <6>1. Len(plan[r][x[2]].sends) \in Nat /\ Len(plan[r][x[2]].recvs) = Len(plan[r][x[2]].sends)
              BY <5>3 DEF QInv, RInv, RankRight, PlanRight, Whole
            <6> QED
              BY <5>3, <6>1
          <5>5. Posted(part[r][x[2]], x[3])
            BY <1>4, <4>1, <5>3, <5>4, ReturnedPosted
          <5> QED
            BY <3>1, <5>5 DEF Through
        <4>3. x[1] = c + 1 => ~ Through(part'[r][x[2]], recvs[s], x, Shift(plan'[r][x[2]], x[3]))
          <5>1. SUFFICES ASSUME x[1] = c + 1 PROVE ~ Posted(part'[r][x[2]], x[3])
            BY DEF Through
          <5>2. x[2] \in DOMAIN Parts(c + 1, r) /\ x[3] \in 1..Len(Parts(c + 1, r)[x[2]].recvs)
            BY <2>1, <5>1, OnRecv
          <5>3. x[3] # 0
            <6>1. x[3] >= 1
              BY <5>2
            <6> QED
              BY <4>1, <6>1
          <5> QED
            BY <1>5, <4>1, <5>2, <5>3
        <4>4. x[1] \in Nat
          BY <4>1
        <4> QED
          BY <1>4, <4>2, <4>3, <4>4, NextCall DEF Done
      <3>3. /\ Arrived(s) = ArrivedOf(s, c, plan[r], part[r], recvs[s])
            /\ Arrived(s)' = ArrivedOf(s, c + 1, plan'[r], part'[r], recvs[s])
        BY <1>1, <1>2, <1>4, <2>1 DEF Arrived
      <3> QED
        BY <3>2, <3>3 DEF ArrivedOf
    <2>2. CASE s[1] # r
      <3>1. call'[s[1]] = call[s[1]] /\ part'[s[1]] = part[s[1]] /\ plan'[s[1]] = plan[s[1]]
        BY <1>2, <2>2, SocketIs DEF BeginDone
      <3> QED
        BY <1>2, <3>1 DEF Arrived
    <2> QED
      BY <2>1, <2>2
  <1> QED
    BY <1>6, <1>7 DEF Steady

NextSent(s, h, n) == NextItems(call[s[1]], h.part, h, SendShift(plan[s[1]][h.part]), n)
NextArrived(s, h, n) == NextItems(call[s[1]], h.part, h, RecvShift(plan[s[1]][h.part]), n)

LEMMA HeadPart ==
  ASSUME QInv, NEW s \in Socket
  PROVE  /\ \A m \in DOMAIN sends[s] : LET t == sends[s][m] IN
              /\ t.part \in DOMAIN plan[s[1]] /\ s = SendSocket(s[1], t.part)
              /\ t.step \in 1..Len(plan[s[1]][t.part].sends) /\ t \in Task
              /\ Open(part[s[1]][t.part], plan[s[1]][t.part].lag, t.step)
         /\ \A m \in DOMAIN recvs[s] : LET t == recvs[s][m] IN
              /\ t.part \in DOMAIN plan[s[1]] /\ s = RecvSocket(s[1], t.part)
              /\ t.step \in 1..Len(plan[s[1]][t.part].sends) /\ t \in Task
              /\ Open(part[s[1]][t.part], plan[s[1]][t.part].lag, t.step)
  <1>1. SendsRight(s, sends[s], plan[s[1]], part[s[1]]) /\ RecvsRight(s, recvs[s], plan[s[1]], part[s[1]])
    BY DEF QInv, RInv
  <1>2. ASSUME NEW m \in DOMAIN sends[s], NEW t, t = sends[s][m]
        PROVE  /\ t.part \in DOMAIN plan[s[1]] /\ s = SendSocket(s[1], t.part)
               /\ t.step \in 1..Len(plan[s[1]][t.part].sends) /\ t \in Task
               /\ Open(part[s[1]][t.part], plan[s[1]][t.part].lag, t.step)
    <2>1. sends[s] \in Seq(Task) /\ SendRight(s, t, plan[s[1]], part[s[1]])
      BY <1>1, <1>2 DEF SendsRight
    <2>2. t \in Task
      BY <1>2, <2>1, LenProperties, ElementOfSeq
    <2> QED
      BY <2>1, <2>2 DEF SendRight, Current, SendSocket
  <1>3. ASSUME NEW m \in DOMAIN recvs[s], NEW t, t = recvs[s][m]
        PROVE  /\ t.part \in DOMAIN plan[s[1]] /\ s = RecvSocket(s[1], t.part)
               /\ t.step \in 1..Len(plan[s[1]][t.part].sends) /\ t \in Task
               /\ Open(part[s[1]][t.part], plan[s[1]][t.part].lag, t.step)
    <2>1. recvs[s] \in Seq(Task) /\ RecvRight(s, t, plan[s[1]], part[s[1]])
      BY <1>1, <1>3 DEF RecvsRight
    <2>2. t \in Task
      BY <1>3, <2>1, LenProperties, ElementOfSeq
    <2> QED
      BY <2>1, <2>2 DEF RecvRight, Current, RecvSocket
  <1> QED
    BY <1>2, <1>3

LEMMA SendMoves ==
  ASSUME QInv, NEW s \in Socket, NEW h, NEW n, SendDone(s, h, n), UNCHANGED <<call, plan, part, recvs>>,
         NEW N, N = NextSent(s, h, n)
  PROVE  /\ n \in Nat /\ Moves(SendLine(s), Sent(s), N, n) /\ Sent(s)' = Sent(s) \cup Ran(N, n)
         /\ \A x \in Socket : x # s => Sent(x)' = Sent(x)
         /\ \A x \in Socket : Arrived(x)' = Arrived(x)
  <1>1. PICK r, p, P, Q, c, queue, sh, S, T, L :
          /\ r = s[1] /\ p = h.part /\ P = plan[r] /\ Q = part[r] /\ c = call[r] /\ queue = sends[s]
          /\ sh = SendShift(P[p]) /\ S = Sent(s) /\ T = Sent(s)' /\ L = SendLine(s)
    OBVIOUS
  <1>2. /\ 1 \in DOMAIN queue /\ h = queue[1] /\ queue # <<>> /\ n \in 1..(h.hi - h.lo)
        /\ sends'[s] = Rest(queue, n) /\ \A x \in Socket : x # s => sends'[x] = sends[x]
    BY <1>1 DEF SendDone
  <1>3. p \in DOMAIN P /\ s = SendSocket(r, p) /\ r \in Rank
    BY <1>1, <1>2, HeadPart, SocketIs
  <1>4. Lane(queue, p, P[p].sends, sh, Q[p], P[p].lag) /\ LaneOf(L, c, p, P[p].sends)
    BY <1>1, <1>3, SendsLane
  <1>5. S = SentOf(s, c, Q, queue) /\ T = SentOf(s, c, Q, Rest(queue, n))
    BY <1>1, <1>2 DEF Sent
  <1>6. Marks(L, S, c, Q[p], queue, sh) /\ Marks(L, T, c, Q[p], Rest(queue, n), sh)
    BY <1>1, <1>4, <1>5, SendMarks
  <1>7. p \in Nat /\ c \in 1..Len(Calls)
    BY <1>1, <1>3, PartIs
  <1>8. N = NextItems(c, p, h, sh, n)
    BY <1>1 DEF NextSent
  <1>9. n \in Nat /\ Moves(L, S, N, n) /\ T = S \cup Ran(N, n)
    BY <1>2, <1>4, <1>6, <1>7, <1>8, LaneMoves
  <1>10. \A x \in Socket : x # s => Sent(x)' = Sent(x)
    BY <1>2 DEF Sent
  <1>11. \A x \in Socket : Arrived(x)' = Arrived(x)
    BY DEF Arrived
  <1> QED
    BY <1>1, <1>9, <1>10, <1>11

LEMMA RecvMoves ==
  ASSUME QInv, NEW s \in Socket, NEW h, NEW n, RecvDone(s, h, n), UNCHANGED <<call, plan, part, sends>>,
         NEW N, N = NextArrived(s, h, n)
  PROVE  /\ n \in Nat /\ Moves(RecvLine(s), Arrived(s), N, n) /\ Arrived(s)' = Arrived(s) \cup Ran(N, n)
         /\ \A x \in Socket : x # s => Arrived(x)' = Arrived(x)
         /\ \A x \in Socket : Sent(x)' = Sent(x)
  <1>1. PICK r, p, P, Q, c, queue, sh, S, T, L :
          /\ r = s[1] /\ p = h.part /\ P = plan[r] /\ Q = part[r] /\ c = call[r] /\ queue = recvs[s]
          /\ sh = RecvShift(P[p]) /\ S = Arrived(s) /\ T = Arrived(s)' /\ L = RecvLine(s)
    OBVIOUS
  <1>2. /\ 1 \in DOMAIN queue /\ h = queue[1] /\ queue # <<>> /\ n \in 1..(h.hi - h.lo)
        /\ recvs'[s] = Rest(queue, n) /\ \A x \in Socket : x # s => recvs'[x] = recvs[x]
    BY <1>1 DEF RecvDone
  <1>3. p \in DOMAIN P /\ s = RecvSocket(r, p) /\ r \in Rank
    BY <1>1, <1>2, HeadPart, SocketIs
  <1>4. Lane(queue, p, P[p].recvs, sh, Q[p], P[p].lag) /\ LaneOf(L, c, p, P[p].recvs)
    BY <1>1, <1>3, RecvsLane
  <1>5. S = ArrivedOf(s, c, P, Q, queue) /\ T = ArrivedOf(s, c, P, Q, Rest(queue, n))
    BY <1>1, <1>2 DEF Arrived
  <1>6. Marks(L, S, c, Q[p], queue, sh) /\ Marks(L, T, c, Q[p], Rest(queue, n), sh)
    BY <1>1, <1>4, <1>5, RecvMarks
  <1>7. p \in Nat /\ c \in 1..Len(Calls)
    BY <1>1, <1>3, PartIs
  <1>8. N = NextItems(c, p, h, sh, n)
    BY <1>1 DEF NextArrived
  <1>9. n \in Nat /\ Moves(L, S, N, n) /\ T = S \cup Ran(N, n)
    BY <1>2, <1>4, <1>6, <1>7, <1>8, LaneMoves
  <1>10. \A x \in Socket : x # s => Arrived(x)' = Arrived(x)
    BY <1>2 DEF Arrived
  <1>11. \A x \in Socket : Sent(x)' = Sent(x)
    BY DEF Sent
  <1> QED
    BY <1>1, <1>9, <1>10, <1>11

-----------------------------------------------------------------------------
(* The connections.                                                          *)
Ways == \A s \in Socket : InOrder(s) /\ Streams(s)

LEMMA SteadyWays ==
  ASSUME Ways, Steady, wire' = wire
  PROVE  Ways'
  <1>1. SUFFICES ASSUME NEW s \in Socket PROVE InOrder(s)' /\ Streams(s)'
    BY DEF Ways
  <1>2. InOrder(s) /\ Streams(s)
    BY DEF Ways
  <1>3. Peer(s) \in Socket
    BY PeerIs
  <1>4. /\ Sent(s)' = Sent(s) /\ Arrived(s)' = Arrived(s)
        /\ Arrived(Peer(s))' = Arrived(Peer(s))
    BY <1>3 DEF Steady
  <1>5. InOrder(s)'
    BY <1>2, <1>4 DEF InOrder
  <1>6. Streams(s)'
    <2>1. Flow(Sent(s) \ Arrived(Peer(s)), wire[Peer(s)], Value(s))
      BY <1>2 DEF Streams
    <2>2. Flow(Sent(s)' \ Arrived(Peer(s))', wire'[Peer(s)], Value(s))
      BY <1>4, <2>1
    <2> QED
      BY <2>2 DEF Streams
  <1> QED
    BY <1>5, <1>6

LEMMA SentOn ==
  ASSUME NEW s
  PROVE  Sent(s) \subseteq SendLine(s) /\ Arrived(s) \subseteq RecvLine(s)
  BY DEF Sent, Arrived, SentOf, ArrivedOf

LEMMA PeerSame ==
  ASSUME NEW s \in Socket, NEW x \in Socket, x # s
  PROVE  Peer(x) # Peer(s)
  BY PeerIs

(* What is sent follows what is in the connection.                           *)
LEMMA SendWays ==
  ASSUME QInv, Ways, NEW s \in Socket, NEW h, NEW n, SendDone(s, h, n),
         UNCHANGED <<call, plan, part, recvs>>, NEW N, N = NextSent(s, h, n),
         NEW u, u = SubSeq(data[s[1]], h.lo + 1, h.lo + n), IsSeq(u), Len(u) = n,
         Carries(u, Value(s), N, n)
  PROVE  Ways'
  <1>1. /\ n \in Nat /\ Moves(SendLine(s), Sent(s), N, n) /\ Sent(s)' = Sent(s) \cup Ran(N, n)
        /\ \A x \in Socket : x # s => Sent(x)' = Sent(x)
        /\ \A x \in Socket : Arrived(x)' = Arrived(x)
    BY SendMoves
  <1>2. InOrder(s) /\ Streams(s) /\ Peer(s) \in Socket
    BY PeerIs DEF Ways
  <1>3. /\ wire'[Peer(s)] = wire[Peer(s)] \o u
        /\ \A x \in Socket : x # Peer(s) => wire'[x] = wire[x]
    BY DEF SendDone
  <1>4. ASSUME NEW x \in Socket PROVE InOrder(x)'
    <2>1. InOrder(x) /\ Peer(x) \in Socket
      BY PeerIs DEF Ways
    <2>2. Prefix(SendLine(x), Sent(x)')
      <3>1. CASE x = s
        <4>1. Prefix(SendLine(s), Sent(s))
          BY <1>2 DEF InOrder
        <4>2. Prefix(SendLine(s), Sent(s) \cup Ran(N, n))
          BY <1>1, <4>1, MovePrefix
        <4> QED
          BY <1>1, <3>1, <4>2
      <3>2. CASE x # s
        BY <1>1, <2>1, <3>2 DEF InOrder
      <3> QED
        BY <3>1, <3>2
    <2>3. Sent(x) \subseteq Sent(x)'
      <3>1. CASE x = s
        BY <1>1, <3>1
      <3>2. CASE x # s
        BY <1>1, <3>2
      <3> QED
        BY <3>1, <3>2
    <2>4. Arrived(x)' = Arrived(x) /\ Arrived(Peer(x))' = Arrived(Peer(x))
      BY <1>1, <2>1
    <2>5. Prefix(RecvLine(x), Arrived(x)') /\ Arrived(Peer(x))' \subseteq Sent(x)'
      BY <2>1, <2>3, <2>4 DEF InOrder
    <2> QED
      BY <2>2, <2>5 DEF InOrder
  <1>5. ASSUME NEW x \in Socket PROVE Streams(x)'
    <2>1. CASE x = s
      <3>1. PICK L, S, A, w, V :
              L = SendLine(s) /\ S = Sent(s) /\ A = Arrived(Peer(s)) /\ w = wire[Peer(s)] /\ V = Value(s)
        OBVIOUS
      <3>2. Linear(L) /\ S \subseteq L
        BY <3>1, LineLinear, SentOn
      <3>3. Flow(S \ A, w, V) /\ IsSeq(w)
        BY <1>2, <3>1 DEF Streams, QInv, RInv
      <3>4. Moves(L, S, N, Len(u)) /\ Carries(u, V, N, Len(u))
        BY <1>1, <3>1
      <3>5. Prefix(L, S) /\ A \subseteq S
        BY <1>2, <3>1 DEF InOrder
      <3>6. Flow((S \cup Ran(N, Len(u))) \ A, w \o u, V)
        BY <3>2, <3>3, <3>4, <3>5, MoveSent
      <3>7. Sent(s)' = S \cup Ran(N, Len(u)) /\ Arrived(Peer(s))' = A /\ wire'[Peer(s)] = w \o u
        BY <1>1, <1>2, <1>3, <3>1
      <3>8. Flow(Sent(s)' \ Arrived(Peer(s))', wire'[Peer(s)], V)
        BY <3>6, <3>7
      <3> QED
        BY <2>1, <3>1, <3>8 DEF Streams
    <2>2. CASE x # s
      <3>1. Streams(x) /\ Peer(x) \in Socket
        BY PeerIs DEF Ways
      <3>2. Sent(x)' = Sent(x) /\ Arrived(Peer(x))' = Arrived(Peer(x)) /\ wire'[Peer(x)] = wire[Peer(x)]
        BY <1>1, <1>3, <2>2, <3>1, PeerSame
      <3>3. Flow(Sent(x) \ Arrived(Peer(x)), wire[Peer(x)], Value(x))
        BY <3>1 DEF Streams
      <3>4. Flow(Sent(x)' \ Arrived(Peer(x))', wire'[Peer(x)], Value(x))
        BY <3>2, <3>3
      <3> QED
        BY <3>4 DEF Streams
    <2> QED
      BY <2>1, <2>2
  <1> QED
    BY <1>4, <1>5 DEF Ways

(* What is first in the connection arrives.                                  *)
LEMMA RecvWays ==
  ASSUME QInv, Ways, NEW s \in Socket, NEW h, NEW n, RecvDone(s, h, n),
         UNCHANGED <<call, plan, part, sends>>, NEW N, N = NextArrived(s, h, n)
  PROVE  Ways' /\ Carries(wire[s], Value(Peer(s)), N, n)
  <1>1. /\ n \in Nat /\ Moves(RecvLine(s), Arrived(s), N, n) /\ Arrived(s)' = Arrived(s) \cup Ran(N, n)
        /\ \A x \in Socket : x # s => Arrived(x)' = Arrived(x)
        /\ \A x \in Socket : Sent(x)' = Sent(x)
    BY RecvMoves
  <1>2. PICK t : t = Peer(s)
    OBVIOUS
  <1>3. t \in Socket /\ Peer(t) = s /\ InOrder(t) /\ Streams(t) /\ InOrder(s)
    BY <1>2, PeerIs DEF Ways
  <1>4. PICK L, S, A, w, V :
          L = RecvLine(s) /\ S = Sent(t) /\ A = Arrived(s) /\ w = wire[s] /\ V = Value(t)
    OBVIOUS
  <1>5. /\ wire'[s] = SubSeq(w, n + 1, Len(w)) /\ n <= Len(w)
        /\ \A x \in Socket : x # s => wire'[x] = wire[x]
    BY <1>4 DEF RecvDone
  <1>6. L = SendLine(t)
    BY <1>3, <1>4, LinesMeet
  <1>7. L \subseteq Item /\ Linear(L) /\ S \subseteq L
    BY <1>3, <1>4, <1>6, LineLinear, SentOn
  <1>8. Prefix(L, S) /\ Flow(S \ A, w, V) /\ IsSeq(w) /\ A \subseteq S
    BY <1>3, <1>4, <1>6 DEF InOrder, Streams, QInv, RInv
  <1>9. Moves(L, A, N, n)
    BY <1>1, <1>4
  <1>10. /\ Carries(w, V, N, n)
         /\ (A \cup Ran(N, n)) \subseteq A \cup S
         /\ Flow(S \ (A \cup Ran(N, n)), SubSeq(w, n + 1, Len(w)), V)
    BY <1>1, <1>5, <1>7, <1>8, <1>9, MoveArrived
  <1>11. Arrived(s)' = A \cup Ran(N, n) /\ Sent(t)' = S
    BY <1>1, <1>3, <1>4
  <1>12. ASSUME NEW x \in Socket PROVE InOrder(x)'
    <2>1. InOrder(x) /\ Peer(x) \in Socket
      BY PeerIs DEF Ways
    <2>2. Prefix(SendLine(x), Sent(x)')
      BY <1>1, <2>1 DEF InOrder
    <2>3. Prefix(RecvLine(x), Arrived(x)')
      <3>1. CASE x = s
        <4>1. Prefix(L, A)
          BY <1>3, <1>4 DEF InOrder
        <4>2. Prefix(L, A \cup Ran(N, n))
          BY <1>1, <1>9, <4>1, MovePrefix
        <4> QED
          BY <1>4, <1>11, <3>1, <4>2
      <3>2. CASE x # s
        BY <1>1, <2>1, <3>2 DEF InOrder
      <3> QED
        BY <3>1, <3>2
    <2>4. Arrived(Peer(x))' \subseteq Sent(x)'
      <3>1. CASE Peer(x) = s
        <4>1. x = t
          BY <1>2, <3>1, PeerIs
        <4> QED
          BY <1>8, <1>10, <1>11, <3>1, <4>1
      <3>2. CASE Peer(x) # s
        <4>1. Arrived(Peer(x))' = Arrived(Peer(x)) /\ Sent(x)' = Sent(x)
          BY <1>1, <2>1, <3>2
        <4> QED
          BY <2>1, <4>1 DEF InOrder
      <3> QED
        BY <3>1, <3>2
    <2> QED
      BY <2>2, <2>3, <2>4 DEF InOrder
  <1>13. ASSUME NEW x \in Socket PROVE Streams(x)'
    <2>1. CASE Peer(x) = s
      <3>1. x = t
        BY <1>2, <2>1, PeerIs
      <3>2. Flow(Sent(t)' \ Arrived(s)', wire'[s], V)
        BY <1>5, <1>10, <1>11
      <3> QED
        BY <1>4, <2>1, <3>1, <3>2 DEF Streams
    <2>2. CASE Peer(x) # s
      <3>1. Streams(x) /\ Peer(x) \in Socket
        BY PeerIs DEF Ways
      <3>2. Sent(x)' = Sent(x) /\ Arrived(Peer(x))' = Arrived(Peer(x)) /\ wire'[Peer(x)] = wire[Peer(x)]
        BY <1>1, <1>5, <2>2, <3>1
      <3>3. Flow(Sent(x) \ Arrived(Peer(x)), wire[Peer(x)], Value(x))
        BY <3>1 DEF Streams
      <3>4. Flow(Sent(x)' \ Arrived(Peer(x))', wire'[Peer(x)], Value(x))
        BY <3>2, <3>3
      <3> QED
        BY <3>4 DEF Streams
    <2> QED
      BY <2>1, <2>2
  <1> QED
    BY <1>2, <1>4, <1>10, <1>12, <1>13 DEF Ways

LEMMA WaysInit == Init => Ways
  <1> SUFFICES ASSUME Init, NEW s \in Socket PROVE InOrder(s) /\ Streams(s)
    BY DEF Ways
  <1>1. ASSUME NEW x \in Socket PROVE Sent(x) = {} /\ Arrived(x) = {}
    <2>1. call[x[1]] = 0
      BY SocketIs DEF Init
    <2>2. \A y \in SendLine(x) : ~ (y[1] < 0) /\ y[1] # 0
      BY OnSend, RingAssumption
    <2>3. \A y \in RecvLine(x) : ~ (y[1] < 0) /\ y[1] # 0
      BY OnRecv, RingAssumption
    <2> QED
      BY <2>1, <2>2, <2>3 DEF Sent, SentOf, Arrived, ArrivedOf, Done
  <1>2. Peer(s) \in Socket
    BY PeerIs
  <1>3. wire[Peer(s)] = <<>>
    BY <1>2 DEF Init
  <1>4. Len(<<>>) = 0
    OBVIOUS
  <1>5. \A i \in 1..0 : FALSE
    OBVIOUS
  <1>6. FlowBy({}, {}, <<>>, Value(s))
    BY <1>4, <1>5 DEF FlowBy
  <1>7. Flow({}, <<>>, Value(s))
    BY <1>6 DEF Flow
  <1> QED
    BY <1>1, <1>2, <1>3, <1>7 DEF InOrder, Prefix, Streams

-----------------------------------------------------------------------------
(* What of the call of a rank has arrived.                                   *)
ItemAt(r, p, k, e) == <<call[r], p, k, e>>

LEMMA ArrivedIs ==
  ASSUME QInv, NEW r \in Rank, NEW p \in DOMAIN plan[r], NEW k \in 1..Len(plan[r][p].recvs),
         NEW e \in Covers(plan[r][p].recvs[k]), NEW x, x = ItemAt(r, p, k, e)
  PROVE  /\ x \in RecvLine(RecvSocket(r, p)) /\ x \in Item /\ k \in Nat /\ e \in Int
         /\ x \in Arrived(RecvSocket(r, p)) <=>
              Through(part[r][p], recvs[RecvSocket(r, p)], x, Shift(plan[r][p], k))
  <1>1. PICK s, P, c, Q : s = RecvSocket(r, p) /\ P = plan[r] /\ c = call[r] /\ Q = part[r]
    OBVIOUS
  <1>2. /\ c \in 1..Len(Calls) /\ P = Parts(c, r) /\ p \in Nat /\ s[1] = r
        /\ s = <<r, Other(P[p].side), P[p].link>>
    BY <1>1, PartIs DEF RecvSocket
  <1>3. LaneOf(RecvLine(s), c, p, P[p].recvs)
    BY <1>1, RecvsLane
  <1>4. e \in Int /\ k \in Nat
    <2>1. Len(P[p].recvs) \in Nat /\ P[p].recvs[k][1] \in Nat /\ P[p].recvs[k][2] \in Nat
      BY <1>1, PartIs DEF RankRight, PlanRight, Whole, Within
    <2> QED
      BY <1>1, <2>1 DEF Covers
  <1>5. x[1] = c /\ x[2] = p /\ x[3] = k /\ x[4] = e
    BY <1>1 DEF ItemAt
  <1>6. x \in Item
    BY <1>1, <1>2, <1>4 DEF Item, ItemAt
  <1>7. OnLane(x, p, P[p].recvs)
    BY <1>1, <1>5 DEF OnLane
  <1>8. x \in RecvLine(s)
    BY <1>3, <1>5, <1>6, <1>7 DEF LaneOf
  <1>9. x \in Arrived(s) <=> Done(c, Q[p], recvs[s], x, Shift(P[p], k))
    BY <1>1, <1>2, <1>5, <1>8 DEF Arrived, ArrivedOf
  <1>10. ~ (x[1] < c)
    BY <1>2, <1>5
  <1> QED
    BY <1>1, <1>4, <1>5, <1>6, <1>8, <1>9, <1>10 DEF Done

LEMMA PartHas ==
  ASSUME QInv, NEW r \in Rank, NEW p \in DOMAIN plan[r]
  PROVE  /\ Whole(plan[r][p], Len(data[r])) /\ PartFits(plan[r][p]) /\ Advances(part[r][p], plan[r][p])
         /\ part[r][p].i \in Nat /\ plan[r][p].lag \in {0, 1} /\ plan[r][p].reduced \in Nat
         /\ Len(plan[r][p].recvs) \in Nat /\ Len(plan[r][p].sends) = Len(plan[r][p].recvs)
  <1>1. RankRight(data[r], plan[r], part[r]) /\ PartFits(plan[r][p])
    BY PartIs
  <1>2. Whole(plan[r][p], Len(data[r])) /\ Advances(part[r][p], plan[r][p])
    BY <1>1 DEF RankRight, PlanRight
  <1> QED
    BY <1>1, <1>2 DEF Whole, Advances, Progress

LEMMA ArrivedBounds ==
  ASSUME QInv, NEW r \in Rank, NEW p \in DOMAIN plan[r], NEW k \in 1..Len(plan[r][p].recvs),
         NEW e \in Covers(plan[r][p].recvs[k])
  PROVE  /\ k < part[r][p].i - plan[r][p].lag => ItemAt(r, p, k, e) \in Arrived(RecvSocket(r, p))
         /\ part[r][p].i < k => ItemAt(r, p, k, e) \notin Arrived(RecvSocket(r, p))
         /\ Posted(part[r][p], k) /\ Ready(recvs[RecvSocket(r, p)], p, k) =>
              ItemAt(r, p, k, e) \in Arrived(RecvSocket(r, p))
  <1>1. PICK x, s, i, lag, now : x = ItemAt(r, p, k, e) /\ s = RecvSocket(r, p) /\ i = part[r][p].i /\ lag = plan[r][p].lag
                         /\ now = part[r][p]
    OBVIOUS
  <1>2. /\ x[2] = p /\ x[3] = k /\ k \in Nat
        /\ x \in Arrived(s) <=> Through(now, recvs[s], x, Shift(plan[r][p], k))
    BY <1>1, ArrivedIs DEF ItemAt
  <1>3. i \in Nat /\ lag \in {0, 1} /\ now.i = i
    BY <1>1, PartHas
  <1>4. ASSUME Posted(now, k), Ready(recvs[s], p, k)
        PROVE  x \in Arrived(s)
    <2>1. \A m \in DOMAIN recvs[s] : ~ (recvs[s][m].part = p /\ recvs[s][m].step = k)
      BY <1>4 DEF Ready
    <2> QED
      BY <1>2, <1>4, <2>1 DEF Through
  <1>5. ASSUME k < i - lag
        PROVE  x \in Arrived(s)
    <2>1. Posted(now, k)
      BY <1>2, <1>3, <1>5 DEF Posted
    <2>2. ASSUME NEW m \in DOMAIN recvs[s], recvs[s][m].part = p, recvs[s][m].step = k
          PROVE  FALSE
      <3>1. s \in Socket /\ s[1] = r
        BY <1>1, PartIs DEF RecvSocket
      <3>2. Open(now, lag, k)
        BY <1>1, <2>2, <3>1, HeadPart
      <3>3. now.i - lag <= k
        BY <1>2, <1>3, <3>2, OpenPosted
      <3> QED
        BY <1>2, <1>3, <1>5, <3>3
    <2>3. Ready(recvs[s], p, k)
      BY <2>2 DEF Ready
    <2> QED
      BY <1>4, <2>1, <2>3
  <1>6. ASSUME i < k
        PROVE  x \notin Arrived(s)
    <2>1. ~ Posted(now, k)
      BY <1>2, <1>3, <1>6 DEF Posted
    <2> QED
      BY <1>2, <2>1 DEF Through
  <1> QED
    BY <1>1, <1>4, <1>5, <1>6

LEMMA CoveringIn ==
  ASSUME QInv, NEW r \in Rank, NEW p \in DOMAIN plan[r], NEW e, NEW j \in Covering(plan[r][p], e)
  PROVE  j \in 1..Len(plan[r][p].recvs) /\ j \in Nat /\ j >= 1 /\ e \in Covers(plan[r][p].recvs[j])
  <1>1. j \in 1..Len(plan[r][p].recvs) /\ e \in Covers(plan[r][p].recvs[j])
    BY DEF Covering
  <1> QED
    BY <1>1, PartHas

Earlier(mine, k, e) == {j \in Covering(mine, e) : j < k - mine.lag}

(* When a packet is sent, all packets of its elements that come before have  *)
(* been received, and none that come later.                                  *)
LEMMA EffectiveSent ==
  ASSUME QInv, NEW r \in Rank, NEW p \in DOMAIN plan[r], NEW k \in 1..Len(plan[r][p].sends),
         Open(part[r][p], plan[r][p].lag, k), NEW e \in Covers(plan[r][p].sends[k])
  PROVE  Effective(r, p, e) = Earlier(plan[r][p], k, e)
  <1>1. PICK mine, i, lag : mine = plan[r][p] /\ i = part[r][p].i /\ lag = mine.lag
    OBVIOUS
  <1>2. i \in Nat /\ lag \in {0, 1} /\ k \in Int /\ mine.reduced \in Nat
    BY <1>1, PartHas
  <1>3. i - lag <= k /\ k <= i
    BY <1>1, <1>2, OpenPosted
  <1>4. PlanRight(plan[r], Len(data[r]))
    BY PartIs DEF RankRight
  <1>5. ASSUME NEW j \in Covering(mine, e)
        PROVE  /\ j \in 1..Len(mine.recvs) /\ j \in Nat /\ e \in Covers(mine.recvs[j])
               /\ j < k - lag \/ k + lag < j
    <2>1. j \in 1..Len(mine.recvs) /\ e \in Covers(mine.recvs[j]) /\ j \in Nat
      BY <1>1, CoveringIn
    <2>2. ~ Apart(mine.sends[k], mine.recvs[j])
      <3>1. e \in Int
        BY <1>1, <2>1, ArrivedIs
      <3> QED
        BY <1>1, <2>1, <3>1 DEF Apart, Covers
    <2>3. ~ Near(k, j, lag)
      BY <1>1, <1>4, <2>1, <2>2 DEF PlanRight
    <2>4. j < k - lag \/ k + lag < j
      BY <1>2, <2>1, <2>3 DEF Near
    <2> QED
      BY <2>1, <2>4
  <1>6. ASSUME NEW j \in Covering(mine, e)
        PROVE  (IF j <= mine.reduced THEN j < i - lag ELSE ItemAt(r, p, j, e) \in Arrived(RecvSocket(r, p)))
                 <=> j < k - lag
    <2>1. j < k - lag => j < i - lag
      BY <1>2, <1>3, <1>5
    <2>2. k + lag < j => ~ (j < i - lag) /\ i < j /\ ~ (j < k - lag)
      BY <1>2, <1>3, <1>5
    <2>3. j < i - lag => ItemAt(r, p, j, e) \in Arrived(RecvSocket(r, p))
      BY <1>1, <1>5, ArrivedBounds
    <2>4. i < j => ItemAt(r, p, j, e) \notin Arrived(RecvSocket(r, p))
      BY <1>1, <1>5, ArrivedBounds
    <2> QED
      BY <1>5, <2>1, <2>2, <2>3, <2>4
  <1> QED
    BY <1>1, <1>6 DEF Effective, ItemAt, Earlier

DataInv == \A r \in Rank : DataRight(r)

Taken(u, D, n) == \A m \in 1..n : \E e \in DOMAIN D : u[m] = D[e]

(* u is what is read for the next n elements of task h.                      *)
Reads(s, h, n, u) == u = SubSeq(data[s[1]], h.lo + 1, h.lo + n)

LEMMA SendReads ==
  ASSUME QInv, DataInv, NEW s \in Socket, NEW h, NEW n, SendDone(s, h, n), NEW u, Reads(s, h, n, u)
  PROVE  /\ IsSeq(u) /\ Len(u) = n /\ Carries(u, Value(s), NextSent(s, h, n), n)
         /\ Taken(u, data[s[1]], n)
  <1> DEFINE N == NextSent(s, h, n)
  <1> HIDE DEF N
  <1>1. PICK r, p, mine, k, c, D :
          r = s[1] /\ p = h.part /\ mine = plan[r][p] /\ k = h.step /\ c = call[r] /\ D = data[r]
    OBVIOUS
  <1>2. 1 \in DOMAIN sends[s] /\ h = sends[s][1] /\ n \in 1..(h.hi - h.lo)
    BY DEF SendDone
  <1>3. /\ p \in DOMAIN plan[r] /\ s = SendSocket(r, p) /\ r \in Rank /\ k \in 1..Len(mine.sends)
        /\ h \in Task /\ Open(part[r][p], mine.lag, k)
    BY <1>1, <1>2, HeadPart, SocketIs
  <1>4. PICK lo, hi : lo = h.lo /\ hi = h.hi
    OBVIOUS
  <1>5. lo \in Nat /\ hi \in Int /\ n \in Nat /\ lo + n <= hi /\ n >= 1
    <2>1. lo \in Nat /\ hi \in Int
      BY <1>3, <1>4 DEF Task
    <2>2. n \in 1..(hi - lo)
      BY <1>2, <1>4
    <2> QED
      BY <2>1, <2>2
  <1>6. PICK range : range = mine.sends[k]
    OBVIOUS
  <1>7. range[1] <= lo /\ hi = range[2]
    <2>1. SendQueue(plan[r], sends[s])
      BY <1>1 DEF QInv, Queues
    <2>2. Begun(h, SendRange(plan[r], h), 1)
      BY <1>2, <2>1 DEF SendQueue
    <2> QED
      BY <1>1, <1>4, <1>6, <2>2 DEF Begun, SendRange
  <1>8. range[1] \in Nat /\ range[2] \in Nat /\ range[2] <= Len(D)
    BY <1>1, <1>3, <1>6, PartHas DEF Whole, Within
  <1>9. IsSeq(D)
    BY <1>1, <1>3 DEF QInv, RInv, RankRight
  <1>10. Len(D) \in Nat /\ DOMAIN D = 1..Len(D)
    BY <1>9, SeqIs
  <1>11. /\ u = SubSeq(D, lo + 1, lo + n) /\ IsSeq(u) /\ Len(u) = n
         /\ \A m \in 1..n : u[m] = D[lo + m]
    <2>1. PICK W : D \in Seq(W)
      BY <1>9 DEF IsSeq
    <2>2. lo + 1 \in 1..(Len(D) + 1) /\ lo + n \in 0..Len(D) /\ lo + 1 <= lo + n + 1
      BY <1>5, <1>7, <1>8, <1>10
    <2>3. u = SubSeq(D, lo + 1, lo + n)
      BY <1>1, <1>4 DEF Reads
    <2>4. SubSeq(D, lo + 1, lo + n) \in Seq(W) /\ Len(SubSeq(D, lo + 1, lo + n)) = (lo + n) - (lo + 1) + 1
          /\ \A m \in 1..((lo + n) - (lo + 1) + 1) : SubSeq(D, lo + 1, lo + n)[m] = D[lo + 1 + m - 1]
      BY <2>1, <2>2, SubSeqProperties
    <2>5. (lo + n) - (lo + 1) + 1 = n /\ \A m \in 1..n : lo + 1 + m - 1 = lo + m
      BY <1>5
    <2> QED
      BY <2>3, <2>4, <2>5 DEF IsSeq
  <1>12. ASSUME NEW m \in 1..n
         PROVE  u[m] = Value(s)[N[m]]
    <2>1. PICK e : e = lo + m
      OBVIOUS
    <2>2. e \in Int /\ e \in Covers(range) /\ e \in 1..Len(D)
      BY <1>5, <1>7, <1>8, <1>10, <2>1 DEF Covers
    <2>3. N[m] = <<c, p, k, e>>
      <3>1. N[m] = <<c, p, k, lo + SendShift(mine)[k] + m>>
        BY <1>1, <1>4 DEF N, NextSent, NextItems
      <3>2. SendShift(mine)[k] = 0
        BY <1>3 DEF SendShift
      <3> QED
        BY <1>5, <2>1, <3>1, <3>2
    <2>4. D[e] = Held(c, r, mine, Effective(r, p, e), e)
      <3>1. Concerns(mine, e)
        BY <1>3, <1>6, <2>2 DEF Concerns
      <3> QED
        BY <1>1, <1>3, <2>2, <3>1 DEF DataInv, DataRight
    <2>5. Effective(r, p, e) = Earlier(mine, k, e)
      BY <1>1, <1>3, <1>6, <2>2, EffectiveSent
    <2>6. D[e] = Carried(c, r, mine, k, e)
      BY <2>4, <2>5 DEF Carried, Earlier
    <2>7. plan[r] = Parts(c, r) /\ c \in 1..Len(Calls) /\ p \in Nat
      BY <1>1, <1>3, PartIs
    <2>8. N[m] \in Item
      <3>1. k \in Nat
        BY <1>1, <1>3 DEF Task
      <3> QED
        BY <2>2, <2>3, <2>7, <3>1 DEF Item
    <2>9. Value(s)[N[m]] = Carried(c, r, Parts(c, r)[p], k, e)
      BY <1>1, <2>3, <2>8 DEF Value
    <2> QED
      BY <1>1, <1>11, <2>1, <2>6, <2>7, <2>9
  <1>13. ASSUME NEW m \in 1..n
         PROVE  \E e \in DOMAIN data[s[1]] : u[m] = data[s[1]][e]
    <2>1. lo + m \in 1..Len(D)
      BY <1>5, <1>7, <1>8, <1>10
    <2> QED
      BY <1>1, <1>10, <1>11, <2>1
  <1> QED
    BY <1>11, <1>12, <1>13 DEF N, Carries, Taken

-----------------------------------------------------------------------------
(* The buffers of a rank: what has not changed.                              *)
LEMMA EffectiveIs ==
  ASSUME NEW r, NEW p, NEW e, NEW s, s = RecvSocket(r, p), NEW k
  PROVE  k \in Effective(r, p, e) <=>
           /\ k \in Covering(plan[r][p], e)
           /\ IF k <= plan[r][p].reduced THEN k < part[r][p].i - plan[r][p].lag
              ELSE ItemAt(r, p, k, e) \in Arrived(s)
  BY DEF Effective, ItemAt

LEMMA EffectiveNext ==
  ASSUME NEW r, NEW p, NEW e, NEW s, s = RecvSocket(r, p), call'[r] = call[r], plan'[r] = plan[r], NEW k
  PROVE  k \in Effective(r, p, e)' <=>
           /\ k \in Covering(plan[r][p], e)
           /\ IF k <= plan[r][p].reduced THEN k < part'[r][p].i - plan[r][p].lag
              ELSE ItemAt(r, p, k, e) \in Arrived(s)'
  <1>1. RecvSocket(r, p)' = s
    BY DEF RecvSocket
  <1>2. PICK T : T = Arrived(s)'
    OBVIOUS
  <1>3. Arrived(RecvSocket(r, p))' = T
    BY <1>1, <1>2 DEF Arrived
  <1>4. k \in Effective(r, p, e)' <=>
           /\ k \in Covering(plan'[r][p], e)
           /\ IF k <= plan'[r][p].reduced THEN k < part'[r][p].i - plan'[r][p].lag
              ELSE <<call'[r], p, k, e>> \in T
    BY <1>3 DEF Effective
  <1> QED
    BY <1>2, <1>4 DEF ItemAt

LEMMA EffectiveSame ==
  ASSUME NEW r, NEW p, NEW e, NEW s, s = RecvSocket(r, p), call'[r] = call[r], plan'[r] = plan[r],
         \A k \in Covering(plan[r][p], e) :
           IF k <= plan[r][p].reduced
           THEN k < part'[r][p].i - plan[r][p].lag <=> k < part[r][p].i - plan[r][p].lag
           ELSE ItemAt(r, p, k, e) \in Arrived(s)' <=> ItemAt(r, p, k, e) \in Arrived(s)
  PROVE  Effective(r, p, e)' = Effective(r, p, e)
  <1>1. ASSUME NEW k
        PROVE  k \in Effective(r, p, e)' <=> k \in Effective(r, p, e)
    BY EffectiveIs, EffectiveNext
  <1>2. \E S : Effective(r, p, e) = {k \in Covering(plan[r][p], e) : k \in S}
    BY DEF Effective
  <1>3. \E S : Effective(r, p, e)' = {k \in Covering(plan'[r][p], e) : k \in S}
    BY DEF Effective
  <1> QED
    BY <1>1, <1>2, <1>3

(* A rank whose data stays as it is.                                         *)
LEMMA DataKeeps ==
  ASSUME NEW r, DataRight(r), call'[r] = call[r], plan'[r] = plan[r], data'[r] = data[r],
         \A p \in DOMAIN plan[r] : \A e : Effective(r, p, e)' = Effective(r, p, e)
  PROVE  DataRight(r)'
  BY DEF DataRight

LEMMA BuffersKeep ==
  ASSUME NEW r, BuffersRight(r), call'[r] = call[r], plan'[r] = plan[r],
         \A p \in DOMAIN plan[r] : \A b \in {0, 1} : received'[r][<<p, b>>] = received[r][<<p, b>>],
         \A p \in DOMAIN plan[r] : \A k \in 1..plan[r][p].reduced :
           /\ part'[r][p].i - plan[r][p].lag <= k => part[r][p].i - plan[r][p].lag <= k
           /\ \A s : s = RecvSocket(r, p) => \A e :
                ItemAt(r, p, k, e) \in Arrived(s)' => ItemAt(r, p, k, e) \in Arrived(s)
  PROVE  BuffersRight(r)'
  <1>1. SUFFICES ASSUME NEW p \in DOMAIN plan[r], NEW k \in 1..plan[r][p].reduced,
                        NEW e \in Covers(plan[r][p].recvs[k]),
                        part'[r][p].i - plan[r][p].lag <= k,
                        <<call'[r], p, k, e>> \in Arrived(RecvSocket(r, p))'
                 PROVE  received'[r][<<p, Place(k)>>][e - plan[r][p].recvs[k][1]] =
                          Carried(call[r], From(r, plan[r][p].side), Parts(call[r], From(r, plan[r][p].side))[p], k, e)
    BY DEF BuffersRight
  <1>2. PICK s : s = RecvSocket(r, p)
    OBVIOUS
  <1>3. Arrived(RecvSocket(r, p))' = Arrived(s)'
    BY <1>2 DEF Arrived, RecvSocket
  <1>4. ItemAt(r, p, k, e) \in Arrived(s)
    BY <1>1, <1>2, <1>3 DEF ItemAt
  <1>5. part[r][p].i - plan[r][p].lag <= k
    BY <1>1
  <1>6. received[r][<<p, Place(k)>>][e - plan[r][p].recvs[k][1]] =
                          Carried(call[r], From(r, plan[r][p].side), Parts(call[r], From(r, plan[r][p].side))[p], k, e)
    BY <1>2, <1>4, <1>5 DEF BuffersRight, ItemAt
  <1>7. Place(k) \in {0, 1}
    BY DEF Place
  <1> QED
    BY <1>6, <1>7

RankRights == \A r \in Rank : DataRight(r) /\ BuffersRight(r)

(* A rank that does nothing.                                                 *)
LEMMA RankSame ==
  ASSUME QInv, RankRights, NEW q \in Rank, call'[q] = call[q], plan'[q] = plan[q],
         data'[q] = data[q], received'[q] = received[q],
         \A p \in DOMAIN plan[q] : part'[q][p].i = part[q][p].i,
         \A s \in Socket : s[1] = q => Arrived(s)' = Arrived(s)
  PROVE  DataRight(q)' /\ BuffersRight(q)'
  <1>1. ASSUME NEW p \in DOMAIN plan[q], NEW s, s = RecvSocket(q, p)
        PROVE  Arrived(s)' = Arrived(s)
    <2>1. s \in Socket /\ s[1] = q
      BY <1>1, PartIs DEF RecvSocket
    <2> QED
      BY <2>1
  <1>2. ASSUME NEW p \in DOMAIN plan[q], NEW e
        PROVE  Effective(q, p, e)' = Effective(q, p, e)
    <2>1. PICK s : s = RecvSocket(q, p)
      OBVIOUS
    <2>2. Arrived(s)' = Arrived(s)
      BY <1>1, <2>1
    <2>3. \A k \in Covering(plan[q][p], e) :
           IF k <= plan[q][p].reduced
           THEN k < part'[q][p].i - plan[q][p].lag <=> k < part[q][p].i - plan[q][p].lag
           ELSE ItemAt(q, p, k, e) \in Arrived(s)' <=> ItemAt(q, p, k, e) \in Arrived(s)
      BY <2>2
    <2> QED
      BY <2>1, <2>3, EffectiveSame
  <1>3. DataRight(q) /\ BuffersRight(q)
    BY DEF RankRights
  <1>4. DataRight(q)'
    BY <1>2, <1>3, DataKeeps
  <1>5. BuffersRight(q)'
    BY <1>1, <1>3, BuffersKeep
  <1> QED
    BY <1>4, <1>5

LEMMA PostRights ==
  ASSUME QInv, RankRights, NEW r \in Rank, NEW p \in DOMAIN part[r], Post(r, p)
  PROVE  RankRights'
  <1>1. PostDone(r, p) /\ UNCHANGED <<call, data, received, plan, wire>>
    BY PostIs
  <1>2. \A s \in Socket : Arrived(s)' = Arrived(s)
    BY PostSteady DEF Steady
  <1>3. SUFFICES ASSUME NEW q \in Rank PROVE DataRight(q)' /\ BuffersRight(q)'
    BY DEF RankRights
  <1>4. CASE q # r
    <2>1. part'[q] = part[q]
      BY <1>1, <1>4 DEF PostDone
    <2> QED
      BY <1>1, <1>2, <2>1, RankSame
  <1>5. CASE q = r
    <2>1. ASSUME NEW x \in DOMAIN plan[r]
          PROVE  /\ plan[r][x].lag \in {0, 1} /\ part[r][x].i \in Nat /\ part'[r][x].i \in Nat
                 /\ part[r][x].i <= part'[r][x].i
                 /\ part[r][x].i < part'[r][x].i => part'[r][x].i - plan[r][x].lag <= 1
      <3>1. plan[r][x].lag \in {0, 1} /\ part[r][x].i \in Nat
        BY PartHas
      <3>2. CASE x # p
        <4>1. part'[r][x] = part[r][x]
          BY <1>1, <3>2 DEF PostDone
        <4> QED
          BY <3>1, <4>1
      <3>3. CASE x = p
        <4>1. PICK i, lag, next : i = part[r][p].i /\ lag = plan[r][p].lag /\ next = part'[r][p]
          OBVIOUS
        <4>2. next = IF i > lag THEN [i |-> i, phase |-> "await"] ELSE [i |-> i + 1, phase |-> "post"]
          BY <1>1, <4>1 DEF PostDone, Goes
        <4>3. \/ next.i = i
              \/ next.i = i + 1 /\ ~ (i > lag)
          BY <4>2
        <4>4. i \in Nat /\ lag \in {0, 1}
          BY <3>1, <3>3, <4>1
        <4>5. /\ next.i \in Nat /\ i <= next.i /\ (i < next.i => next.i - lag <= 1)
          BY <4>3, <4>4
        <4> QED
          BY <3>1, <3>3, <4>1, <4>5
      <3> QED
        BY <3>2, <3>3
    <2>2. ASSUME NEW x \in DOMAIN plan[r], NEW s, s = RecvSocket(r, x)
          PROVE  Arrived(s)' = Arrived(s)
      BY <1>2, <2>2, PartIs
    <2>3. ASSUME NEW x \in DOMAIN plan[r], NEW e
          PROVE  Effective(r, x, e)' = Effective(r, x, e)
      <3>1. PICK s : s = RecvSocket(r, x)
        OBVIOUS
      <3>2. Arrived(s)' = Arrived(s)
        BY <2>2, <3>1
      <3>3. ASSUME NEW k \in Covering(plan[r][x], e)
            PROVE  k < part'[r][x].i - plan[r][x].lag <=> k < part[r][x].i - plan[r][x].lag
        <4>1. k \in Nat /\ k >= 1
          BY CoveringIn
        <4> QED
          BY <2>1, <4>1
      <3>4. \A k \in Covering(plan[r][x], e) :
           IF k <= plan[r][x].reduced
           THEN k < part'[r][x].i - plan[r][x].lag <=> k < part[r][x].i - plan[r][x].lag
           ELSE ItemAt(r, x, k, e) \in Arrived(s)' <=> ItemAt(r, x, k, e) \in Arrived(s)
        BY <3>2, <3>3
      <3> QED
        BY <1>1, <3>1, <3>4, EffectiveSame
    <2>4. DataRight(r) /\ BuffersRight(r)
      BY DEF RankRights
    <2>5. DataRight(r)'
      BY <1>1, <2>3, <2>4, DataKeeps
    <2>6. BuffersRight(r)'
      <3>1. ASSUME NEW x \in DOMAIN plan[r], NEW k \in 1..plan[r][x].reduced
            PROVE  part'[r][x].i - plan[r][x].lag <= k => part[r][x].i - plan[r][x].lag <= k
        <4>1. k \in Int
          BY PartHas
        <4> QED
          BY <2>1, <4>1
      <3> QED
        BY <1>1, <2>2, <2>4, <3>1, BuffersKeep
    <2> QED
      BY <1>5, <2>5, <2>6
  <1> QED
    BY <1>4, <1>5

LEMMA LastRights ==
  ASSUME QInv, RankRights, NEW r \in Rank, NEW p \in DOMAIN part[r], Last(r, p)
  PROVE  RankRights'
  <1>1. LastDone(r, p) /\ UNCHANGED <<call, data, received, plan, sends, recvs, wire>>
    BY LastIs
  <1>2. \A s \in Socket : Arrived(s)' = Arrived(s)
    BY LastSteady DEF Steady
  <1>3. SUFFICES ASSUME NEW q \in Rank PROVE DataRight(q)' /\ BuffersRight(q)'
    BY DEF RankRights
  <1>4. ASSUME NEW x \in DOMAIN plan[q]
        PROVE  part'[q][x].i = part[q][x].i
    <2>1. CASE q = r /\ x = p
      <3>1. part'[r][p] = [i |-> part[r][p].i, phase |-> "done"]
        BY <1>1 DEF LastDone
      <3> QED
        BY <2>1, <3>1
    <2>2. CASE ~ (q = r /\ x = p)
      BY <1>1, <2>2 DEF LastDone
    <2> QED
      BY <2>1, <2>2
  <1> QED
    BY <1>1, <1>2, <1>4, RankSame

(* Two packets of one part that cover the same element are not near.         *)
LEMMA CoveringApart ==
  ASSUME QInv, NEW r \in Rank, NEW p \in DOMAIN plan[r], NEW e,
         NEW j \in Covering(plan[r][p], e), NEW k \in Covering(plan[r][p], e), j # k
  PROVE  j < k - plan[r][p].lag \/ k + plan[r][p].lag < j
  <1>1. PICK mine, lag : mine = plan[r][p] /\ lag = mine.lag
    OBVIOUS
  <1>2. /\ j \in 1..Len(mine.recvs) /\ j \in Nat /\ e \in Covers(mine.recvs[j])
        /\ k \in 1..Len(mine.recvs) /\ k \in Nat /\ e \in Covers(mine.recvs[k])
    BY <1>1, CoveringIn
  <1>3. e \in Int
    BY <1>1, <1>2, ArrivedIs
  <1>4. ~ Apart(mine.recvs[j], mine.recvs[k])
    BY <1>2, <1>3 DEF Apart, Covers
  <1>5. ~ Near(j, k, lag)
    BY <1>1, <1>2, <1>4, PartHas DEF PartFits
  <1>6. lag \in {0, 1}
    BY <1>1, PartHas
  <1> QED
    BY <1>1, <1>2, <1>5, <1>6 DEF Near

ReducedAt(more, D, range, packet) ==
  more = [e \in DOMAIN D |->
            IF e \in (range[1] + 1)..range[2] THEN D[e] (+) packet[e - range[1]] ELSE D[e]]

LEMMA ReducedAs ==
  ASSUME NEW r, NEW p, NEW j
  PROVE  ReducedAt(Reduced(r, p, j), data[r], plan[r][p].recvs[j], received[r][<<p, Place(j)>>])
  BY DEF Reduced, ReducedAt

PacketReduced(r, p, j, e) ==
  /\ j \in 1..Len(plan[r][p].recvs) /\ j \in Covering(plan[r][p], e) /\ part'[r][p].i = part[r][p].i + 1
  /\ e \in 1..Len(data[r]) =>
       data'[r][e] = Held(call[r], r, plan[r][p], Earlier(plan[r][p], j + plan[r][p].lag, e) \cup {j}, e)
  /\ Effective(r, p, e) = Earlier(plan[r][p], j + plan[r][p].lag, e)

(* A part reduces packet j.                                                  *)
LEMMA AwaitReduces ==
  ASSUME QInv, RankRights, NEW r \in Rank, NEW p, AwaitDone(r, p),
         NEW j, j = Behind(part[r][p], plan[r][p]), j <= plan[r][p].reduced,
         NEW e, e \in Covers(plan[r][p].recvs[j])
  PROVE  PacketReduced(r, p, j, e)
  <1>1. PICK mine, i, lag, range, c, D, E, s :
          /\ mine = plan[r][p] /\ i = part[r][p].i /\ lag = mine.lag /\ range = mine.recvs[j]
          /\ c = call[r] /\ D = data[r] /\ E = data'[r] /\ s = RecvSocket(r, p)
    OBVIOUS
  <1>2. /\ p \in DOMAIN plan[r] /\ part[r][p].phase = "await" /\ i \in 1..Len(mine.sends) /\ i > lag
        /\ Ready(recvs[s], p, j)
        /\ E = Reduced(r, p, j)
        /\ i # Len(mine.sends) => part'[r][p] = [i |-> i + 1, phase |-> "post"]
    BY <1>1 DEF AwaitDone
  <1>3. /\ Whole(mine, Len(D)) /\ PartFits(mine) /\ i \in Nat /\ lag \in {0, 1} /\ mine.reduced \in Nat
        /\ Len(mine.recvs) \in Nat /\ Len(mine.sends) = Len(mine.recvs)
    BY <1>1, <1>2, PartHas
  <1>4. j = i - lag /\ j \in Nat /\ j >= 1 /\ j <= i /\ j <= Len(mine.recvs)
    <2>1. j = i - lag
      BY <1>1 DEF Behind
    <2> QED
      BY <1>2, <1>3, <2>1
  <1>5. j \in 1..Len(mine.recvs)
    BY <1>3, <1>4
  <1>6. i # Len(mine.sends)
    <2>1. mine.reduced + lag < Len(mine.sends)
      <3>1. mine.reduced # 0
        BY <1>1, <1>3, <1>4
      <3> QED
        BY <1>1, <1>3, <3>1 DEF PartFits
    <2> QED
      BY <1>1, <1>3, <1>4, <2>1
  <1>7. part'[r][p].i = i + 1
    BY <1>2, <1>6
  <1>8. j \in Covering(mine, e)
    BY <1>1, <1>5 DEF Covering
  <1>9. e \in Int
    BY <1>1, <1>2, <1>5, ArrivedIs
  <1>10. ItemAt(r, p, j, e) \in Arrived(s)
    <2>1. Posted(part[r][p], j)
      BY <1>1, <1>2, <1>3, <1>4 DEF Posted
    <2> QED
      BY <1>1, <1>2, <1>5, <2>1, ArrivedBounds
  <1>11. PICK l, packet : l = From(r, mine.side) /\ packet = received[r][<<p, Place(j)>>]
    OBVIOUS
  <1>12. packet[e - range[1]] = Carried(c, l, Parts(c, l)[p], j, e)
    <2>1. j \in 1..mine.reduced
      BY <1>1, <1>3, <1>4
    <2>2. i - lag <= j
      BY <1>3, <1>4
    <2>3. BuffersRight(r)
      BY DEF RankRights
    <2> QED
      BY <1>1, <1>2, <1>10, <1>11, <2>1, <2>2, <2>3 DEF BuffersRight, ItemAt
  <1>13. Effective(r, p, e) = Earlier(mine, i, e)
    <2>1. ASSUME NEW k \in Covering(mine, e)
          PROVE  (IF k <= mine.reduced THEN k < i - lag ELSE ItemAt(r, p, k, e) \in Arrived(s)) <=> k < i - lag
      <3>1. k \in Nat /\ k \in 1..Len(mine.recvs) /\ e \in Covers(mine.recvs[k])
        BY <1>1, <1>2, CoveringIn
      <3>2. CASE k <= mine.reduced
        BY <3>2
      <3>3. CASE ~ (k <= mine.reduced)
        <4>1. k # j /\ ~ (k < j)
          BY <1>1, <1>3, <1>4, <3>1, <3>3
        <4>2. j + lag < k
          <5>1. k < j - lag \/ j + lag < k
            BY <1>1, <1>2, <1>8, <4>1, CoveringApart
          <5> QED
            BY <1>3, <1>4, <3>1, <4>1, <5>1
        <4>3. i < k /\ ~ (k < i - lag)
          BY <1>3, <1>4, <3>1, <4>2
        <4>4. ItemAt(r, p, k, e) \notin Arrived(s)
          BY <1>1, <1>2, <3>1, <4>3, ArrivedBounds
        <4> QED
          BY <3>3, <4>3, <4>4
      <3> QED
        BY <3>2, <3>3
    <2> QED
      BY <1>1, <2>1 DEF Effective, ItemAt, Earlier
  <1>14. i = j + lag
    BY <1>3, <1>4
  <1>15. ASSUME e \in 1..Len(D)
         PROVE  E[e] = Held(c, r, mine, Earlier(mine, i, e) \cup {j}, e)
    <2>1. D[e] = Held(c, r, mine, Earlier(mine, i, e), e)
      <3>1. Concerns(mine, e)
        BY <1>1, <1>3, <1>5 DEF Concerns
      <3>2. DataRight(r)
        BY DEF RankRights
      <3> QED
        BY <1>1, <1>2, <1>13, <1>15, <3>1, <3>2 DEF DataRight
    <2>2. HeldNext(c, r, l, mine, Parts(c, l)[p], j, e)
      <3>1. plan[r] = Parts(c, r) /\ c \in 1..Len(Calls)
        BY <1>1, <1>2, PartIs
      <3>2. Fed(c, r, p, j, e)
        BY <1>1, <1>2, <1>5, <3>1, CallFed
      <3> QED
        BY <1>1, <1>11, <3>1, <3>2 DEF Fed
    <2>3. Held(c, r, mine, Earlier(mine, i, e), e) (+) Carried(c, l, Parts(c, l)[p], j, e)
            = Held(c, r, mine, Earlier(mine, i, e) \cup {j}, e)
      <3>1. PICK T : T = {k \in Covering(mine, e) : k < j}
        OBVIOUS
      <3>2. Held(c, r, mine, T, e) (+) Carried(c, l, Parts(c, l)[p], j, e) = Held(c, r, mine, T \cup {j}, e)
        BY <1>1, <2>2, <3>1 DEF HeldNext
      <3>3. i - mine.lag = j
        BY <1>1, <1>4
      <3>4. T = Earlier(mine, i, e)
        BY <3>1, <3>3 DEF Earlier
      <3> QED
        BY <3>2, <3>4
    <2>4. E[e] = D[e] (+) packet[e - range[1]]
      <3>1. e \in DOMAIN D
        <4>1. IsSeq(D)
          BY <1>1 DEF QInv, RInv, RankRight
        <4> QED
          BY <1>15, <4>1, SeqIs
      <3>2. e \in (range[1] + 1)..range[2]
        BY <1>1 DEF Covers
      <3>3. ReducedAt(E, D, range, packet)
        BY <1>1, <1>2, <1>11, ReducedAs
      <3> QED
        BY <3>1, <3>2, <3>3 DEF ReducedAt
    <2> QED
      BY <1>12, <2>1, <2>3, <2>4
  <1> QED
    BY <1>1, <1>5, <1>7, <1>8, <1>13, <1>14, <1>15 DEF PacketReduced

LEMMA AwaitProgress ==
  ASSUME QInv, NEW r \in Rank, NEW p, AwaitDone(r, p), NEW x \in DOMAIN plan[r]
  PROVE  /\ plan[r][x].lag \in {0, 1} /\ part[r][x].i \in Nat /\ part'[r][x].i \in Nat
         /\ part[r][x].i <= part'[r][x].i /\ part'[r][x].i <= part[r][x].i + 1
         /\ x # p => part'[r][x] = part[r][x]
  <1>1. plan[r][x].lag \in {0, 1} /\ part[r][x].i \in Nat
    BY PartHas
  <1>2. CASE x # p
    <2>1. part'[r][x] = part[r][x]
      BY <1>2 DEF AwaitDone
    <2> QED
      BY <1>1, <2>1
  <1>3. CASE x = p
    <2>1. PICK i, next : i = part[r][p].i /\ next = part'[r][p]
      OBVIOUS
    <2>2. next = [i |-> i, phase |-> "last"] \/ next = [i |-> i + 1, phase |-> "post"]
      BY <2>1 DEF AwaitDone
    <2>3. next.i = i \/ next.i = i + 1
      BY <2>2
    <2> QED
      BY <1>1, <1>3, <2>1, <2>3
  <1> QED
    BY <1>2, <1>3

LEMMA AwaitRights ==
  ASSUME QInv, RankRights, NEW r \in Rank, NEW p \in DOMAIN part[r], Await(r, p)
  PROVE  RankRights'
  <1>1. AwaitDone(r, p) /\ UNCHANGED <<call, received, plan, sends, recvs, wire>>
    BY AwaitIs
  <1>2. \A s \in Socket : Arrived(s)' = Arrived(s)
    BY AwaitSteady DEF Steady
  <1>3. SUFFICES ASSUME NEW q \in Rank PROVE DataRight(q)' /\ BuffersRight(q)'
    BY DEF RankRights
  <1>4. CASE q # r
    <2>1. part'[q] = part[q] /\ data'[q] = data[q]
      BY <1>1, <1>4 DEF AwaitDone
    <2> QED
      BY <1>1, <1>2, <2>1, RankSame
  <1>5. ASSUME NEW x \in DOMAIN plan[r], NEW s, s = RecvSocket(r, x)
        PROVE  Arrived(s)' = Arrived(s)
    BY <1>2, <1>5, PartIs
  <1>6. DataRight(r) /\ BuffersRight(r)
    BY DEF RankRights
  <1>7. PICK mine, j : mine = plan[r][p] /\ j = Behind(part[r][p], mine)
    OBVIOUS
  <1>8. p \in DOMAIN plan[r] /\ data'[r] = IF j <= mine.reduced THEN Reduced(r, p, j) ELSE data[r]
    BY <1>1, <1>7 DEF AwaitDone
  <1>9. DataRight(r)'
    <2>1. SUFFICES ASSUME NEW x \in DOMAIN plan[r], NEW e \in 1..Len(data'[r]), Concerns(plan[r][x], e)
                   PROVE  data'[r][e] = Held(call[r], r, plan[r][x], Effective(r, x, e)', e)
      BY <1>1 DEF DataRight
    <2>2. IsSeq(data[r]) /\ Len(data'[r]) = Len(data[r])
      <3>1. IsSeq(data[r])
        BY DEF QInv, RInv, RankRight
      <3> QED
        BY <1>8, <3>1, ReducedIs
    <2>3. e \in 1..Len(data[r]) /\ e \in DOMAIN data[r]
      BY <2>2, SeqIs
    <2>4. data[r][e] = Held(call[r], r, plan[r][x], Effective(r, x, e), e)
      BY <1>6, <2>1, <2>3 DEF DataRight
    <2>5. PICK s : s = RecvSocket(r, x)
      OBVIOUS
    <2>6. Arrived(s)' = Arrived(s)
      BY <1>5, <2>5
    <2>7. CASE x = p /\ j <= mine.reduced /\ e \in Covers(mine.recvs[j])
      <3>1. PICK T : T = Earlier(mine, j + mine.lag, e)
        OBVIOUS
      <3>2. /\ j \in Covering(mine, e) /\ part'[r][p].i = part[r][p].i + 1
            /\ data'[r][e] = Held(call[r], r, mine, T \cup {j}, e)
            /\ Effective(r, p, e) = T
        <4>1. j = Behind(part[r][p], plan[r][p]) /\ j <= plan[r][p].reduced /\ e \in Covers(plan[r][p].recvs[j])
          BY <1>7, <2>7
        <4>2. /\ j \in Covering(plan[r][p], e) /\ part'[r][p].i = part[r][p].i + 1
              /\ data'[r][e] = Held(call[r], r, plan[r][p], Earlier(plan[r][p], j + plan[r][p].lag, e) \cup {j}, e)
              /\ Effective(r, p, e) = Earlier(plan[r][p], j + plan[r][p].lag, e)
          <5>1. PacketReduced(r, p, j, e)
            BY <1>1, <4>1, AwaitReduces
          <5> QED
            BY <2>3, <5>1 DEF PacketReduced
        <4> QED
          BY <1>7, <3>1, <4>2
      <3>3. Effective(r, p, e)' = T \cup {j}
        <4>1. PICK i, lag : i = part[r][p].i /\ lag = mine.lag
          OBVIOUS
        <4>2. i \in Nat /\ lag \in {0, 1} /\ j = i - lag /\ mine.reduced \in Nat
          BY <1>7, <1>8, <4>1, PartHas DEF Behind
        <4>3. ASSUME NEW k \in Covering(mine, e), k <= mine.reduced
              PROVE  k < i + 1 - lag <=> k \in T \/ k = j
          <5>1. k \in Nat
            BY <1>7, <1>8, CoveringIn
          <5>2. k \in T <=> k < j
            <6>1. PICK a : a = j + mine.lag
              OBVIOUS
            <6>2. a - mine.lag = j
              BY <4>1, <4>2, <6>1
            <6>3. T = Earlier(mine, a, e)
              BY <3>1, <6>1
            <6>4. k \in T <=> k < a - mine.lag
              BY <4>3, <6>3 DEF Earlier
            <6> QED
              BY <6>2, <6>4
          <5> QED
            BY <4>2, <5>1, <5>2
        <4>4. ASSUME NEW k
              PROVE  k \in Effective(r, p, e)' <=> k \in T \/ k = j
          <5>1. k \in Effective(r, p, e)' <=>
                 /\ k \in Covering(mine, e)
                 /\ IF k <= mine.reduced THEN k < i + 1 - lag ELSE ItemAt(r, p, k, e) \in Arrived(s)
            <6>1. s = RecvSocket(r, p) /\ call'[r] = call[r] /\ plan'[r] = plan[r]
              BY <1>1, <2>5, <2>7
            <6>2. k \in Effective(r, p, e)' <=>
                   /\ k \in Covering(plan[r][p], e)
                   /\ IF k <= plan[r][p].reduced THEN k < part'[r][p].i - plan[r][p].lag
                      ELSE ItemAt(r, p, k, e) \in Arrived(s)'
              BY <6>1, EffectiveNext
            <6>3. PICK n, T2 : n = part'[r][p].i /\ T2 = Arrived(s)'
              OBVIOUS
            <6>4. n - lag = i + 1 - lag
              <7>1. n = part'[r][p].i
                BY <6>3
              <7>2. part'[r][p].i = part[r][p].i + 1
                BY <3>2
              <7>3. part[r][p].i = i
                BY <4>1
              <7>4. n = i + 1
                BY <7>1, <7>2, <7>3, Zenon
              <7> QED
                BY <4>2, <7>4
            <6>5. k \in Effective(r, p, e)' <=>
                   /\ k \in Covering(mine, e)
                   /\ IF k <= mine.reduced THEN k < n - lag ELSE ItemAt(r, p, k, e) \in T2
              BY <1>7, <4>1, <6>2, <6>3, Zenon
            <6>6. T2 = Arrived(s)
              BY <2>6, <6>3
            <6> QED
              BY <6>4, <6>5, <6>6, Zenon
          <5>2. k \in T <=>
                 /\ k \in Covering(mine, e)
                 /\ IF k <= mine.reduced THEN k < i - lag ELSE ItemAt(r, p, k, e) \in Arrived(s)
            BY <1>7, <2>5, <2>7, <3>2, <4>1, EffectiveIs
          <5>3. CASE k \in Covering(mine, e) /\ k <= mine.reduced
            BY <4>3, <5>1, <5>3
          <5>4. CASE k \in Covering(mine, e) /\ ~ (k <= mine.reduced)
            BY <2>7, <5>1, <5>2, <5>4
          <5>5. CASE k \notin Covering(mine, e)
            BY <3>2, <5>1, <5>2, <5>5
          <5> QED
            BY <5>3, <5>4, <5>5
        <4>5. \E S : Effective(r, p, e)' = {k \in Covering(plan'[r][p], e) : k \in S}
          BY DEF Effective
        <4> QED
          BY <4>4, <4>5
      <3> QED
        BY <1>7, <2>7, <3>2, <3>3
    <2>8. CASE ~ (x = p /\ j <= mine.reduced /\ e \in Covers(mine.recvs[j]))
      <3>1. data'[r][e] = data[r][e]
        <4>1. CASE ~ (j <= mine.reduced)
          BY <1>8, <4>1
        <4>2. CASE j <= mine.reduced /\ e \notin Covers(mine.recvs[j])
          <5>1. ReducedAt(data'[r], data[r], mine.recvs[j], received[r][<<p, Place(j)>>])
            BY <1>7, <1>8, <4>2, ReducedAs
          <5> QED
            BY <2>3, <4>2, <5>1 DEF ReducedAt, Covers
        <4>3. CASE j <= mine.reduced /\ e \in Covers(mine.recvs[j])
          <5>1. x # p
            BY <2>8, <4>3
          <5>2. j \in 1..Len(mine.recvs) /\ Len(mine.recvs) = Len(mine.sends)
            BY <1>1, <1>7, <1>8, <4>3, AwaitReduces, PartHas DEF PacketReduced
          <5>3. Concerns(mine, e)
            BY <4>3, <5>2 DEF Concerns
          <5>4. Fits(plan[r]) /\ e \in Int
            BY PartIs
          <5> QED
            BY <1>7, <1>8, <2>1, <5>1, <5>3, <5>4 DEF Fits
        <4> QED
          BY <4>1, <4>2, <4>3
      <3>2. Effective(r, x, e)' = Effective(r, x, e)
        <4>1. ASSUME NEW k \in Covering(plan[r][x], e), k <= plan[r][x].reduced
              PROVE  k < part'[r][x].i - plan[r][x].lag <=> k < part[r][x].i - plan[r][x].lag
          <5>1. CASE x # p
            BY <1>1, <5>1, AwaitProgress
          <5>2. CASE x = p
            <6>1. PICK i, n, lag : i = part[r][p].i /\ lag = mine.lag /\ n = part'[r][p].i
              OBVIOUS
            <6>2. i \in Nat /\ n \in Nat /\ lag \in {0, 1} /\ j = i - lag /\ i <= n /\ n <= i + 1 /\ mine.reduced \in Nat
              BY <1>1, <1>7, <1>8, <6>1, AwaitProgress, PartHas DEF Behind
            <6>3. k \in Nat /\ e \in Covers(mine.recvs[k])
              BY <1>7, <5>2, CoveringIn
            <6>4. k # j
              <7>1. k = j => j <= mine.reduced
                BY <1>7, <4>1, <5>2
              <7> QED
                BY <2>8, <5>2, <6>3, <7>1
            <6>5. k < n - lag <=> k < i - lag
              BY <6>2, <6>3, <6>4
            <6> QED
              BY <1>7, <5>2, <6>1, <6>5
          <5> QED
            BY <5>1, <5>2
        <4>2. \A k \in Covering(plan[r][x], e) :
             IF k <= plan[r][x].reduced
             THEN k < part'[r][x].i - plan[r][x].lag <=> k < part[r][x].i - plan[r][x].lag
             ELSE ItemAt(r, x, k, e) \in Arrived(s)' <=> ItemAt(r, x, k, e) \in Arrived(s)
          BY <2>6, <4>1
        <4> QED
          BY <1>1, <2>5, <4>2, EffectiveSame
      <3> QED
        BY <2>4, <3>1, <3>2
    <2> QED
      BY <2>7, <2>8
  <1>10. BuffersRight(r)'
    <2>1. ASSUME NEW x \in DOMAIN plan[r], NEW k \in 1..plan[r][x].reduced
          PROVE  part'[r][x].i - plan[r][x].lag <= k => part[r][x].i - plan[r][x].lag <= k
      <3>1. k \in Int
        BY PartHas
      <3> QED
        BY <1>1, <3>1, AwaitProgress
    <2> QED
      BY <1>1, <1>5, <1>6, <2>1, BuffersKeep
  <1> QED
    BY <1>4, <1>9, <1>10

LEMMA SendRights ==
  ASSUME QInv, RankRights, NEW s \in Socket, Send(s)
  PROVE  RankRights'
  <1>1. UNCHANGED <<call, data, received, plan, part, recvs>>
    BY SendDoes
  <1>2. PICK h, n : SendDone(s, h, n)
    BY SendDoes
  <1>3. \A x \in Socket : Arrived(x)' = Arrived(x)
    BY <1>1, <1>2, SendMoves
  <1>4. SUFFICES ASSUME NEW q \in Rank PROVE DataRight(q)' /\ BuffersRight(q)'
    BY DEF RankRights
  <1> QED
    BY <1>1, <1>3, RankSame

LEMMA RightsInit == Init => RankRights
  <1> SUFFICES ASSUME Init, NEW r \in Rank PROVE DataRight(r) /\ BuffersRight(r)
    BY DEF RankRights
  <1>1. plan[r] = <<>>
    BY DEF Init
  <1>2. DOMAIN plan[r] = {}
    BY <1>1
  <1> QED
    BY <1>2 DEF DataRight, BuffersRight

(* What the first task of a socket receives: elements b + 1 to b + n of      *)
(* packet k of part p.                                                       *)
Receives(s, h, n, b) ==
  LET r == s[1]
      mine == plan[r][h.part]
      range == mine.recvs[h.step]
      shift == Shift(mine, h.step)
  IN  /\ r \in Rank /\ h.part \in DOMAIN plan[r] /\ s = RecvSocket(r, h.part)
      /\ h.step \in 1..Len(mine.recvs) /\ h.step \in Nat
      /\ Open(part[r][h.part], mine.lag, h.step)
      /\ h.lo \in Nat /\ n \in Nat /\ b \in Int /\ b = h.lo + shift /\ shift \in Nat
      /\ range[1] \in Nat /\ range[2] \in Nat
      /\ range[1] <= b /\ b + n <= range[2]
      /\ h.place = InPlace <=> h.step > mine.reduced
      /\ h.place # InPlace => h.place = Place(h.step)

LEMMA RecvHead ==
  ASSUME QInv, NEW s \in Socket, NEW h, NEW n, RecvDone(s, h, n), UNCHANGED <<call, plan, part, sends>>,
         NEW N, N = NextArrived(s, h, n)
  PROVE  \E b : /\ Receives(s, h, n, b)
                /\ \A m \in 1..n : N[m] = ItemAt(s[1], h.part, h.step, b + m)
  <1>1. PICK r, p, mine, k, c, shift, range, b :
          /\ r = s[1] /\ p = h.part /\ mine = plan[r][p] /\ k = h.step /\ c = call[r]
          /\ shift = Shift(mine, k) /\ range = mine.recvs[k] /\ b = h.lo + shift
    OBVIOUS
  <1>2. 1 \in DOMAIN recvs[s] /\ h = recvs[s][1] /\ n \in 1..(h.hi - h.lo)
    BY DEF RecvDone
  <1>3. /\ p \in DOMAIN plan[r] /\ s = RecvSocket(r, p) /\ r \in Rank /\ k \in 1..Len(mine.sends)
        /\ h \in Task /\ Open(part[r][p], mine.lag, k)
    <2>1. /\ h.part \in DOMAIN plan[s[1]] /\ s = RecvSocket(s[1], h.part)
          /\ h.step \in 1..Len(plan[s[1]][h.part].sends) /\ h \in Task
          /\ Open(part[s[1]][h.part], plan[s[1]][h.part].lag, h.step)
      BY <1>2, HeadPart
    <2>2. s[1] \in Rank
      BY SocketIs
    <2> QED
      BY <1>1, <2>1, <2>2, Zenon
  <1>4. k \in 1..Len(mine.recvs) /\ k \in Nat
    BY <1>1, <1>3, PartHas DEF Task
  <1>5. range[1] \in Nat /\ range[2] \in Nat
    BY <1>1, <1>3, PartHas DEF Whole, Within
  <1>6. shift \in Nat
    <2>1. shift = range[1] \/ shift = 0
      BY <1>1 DEF Shift
    <2> QED
      BY <1>5, <2>1
  <1>7. PICK lo, hi : lo = h.lo /\ hi = h.hi
    OBVIOUS
  <1>8. lo \in Nat /\ hi \in Int /\ n \in Nat /\ lo + n <= hi /\ n >= 1
    <2>1. lo \in Nat /\ hi \in Int
      BY <1>3, <1>7 DEF Task
    <2>2. n \in 1..(hi - lo)
      BY <1>2, <1>7
    <2> QED
      BY <2>1, <2>2
  <1>9. RecvQueue(plan[r], recvs[s])
    BY <1>1 DEF QInv, Queues
  <1>10. range[1] - shift <= lo /\ hi = range[2] - shift
    <2>1. Begun(h, RecvRange(plan[r], h), 1)
      BY <1>2, <1>9 DEF RecvQueue
    <2>2. RecvRange(plan[r], h) = <<range[1] - shift, range[2] - shift>>
      BY <1>1 DEF RecvRange
    <2>3. <<range[1] - shift, range[2] - shift>>[1] = range[1] - shift
          /\ <<range[1] - shift, range[2] - shift>>[2] = range[2] - shift
      OBVIOUS
    <2>4. h.hi = RecvRange(plan[r], h)[2] /\ RecvRange(plan[r], h)[1] <= h.lo
      BY <2>1 DEF Begun
    <2> QED
      BY <1>7, <2>2, <2>3, <2>4
  <1>11. b = lo + shift /\ b \in Int /\ range[1] <= b /\ b + n <= range[2]
    <2>1. b = lo + shift
      BY <1>1, <1>7
    <2>2. PICK x, y : x = range[1] /\ y = range[2]
      OBVIOUS
    <2>3. x \in Nat /\ y \in Nat /\ x - shift <= lo /\ hi = y - shift
      BY <1>5, <1>10, <2>2
    <2>4. b \in Int /\ x <= b /\ b + n <= y
      BY <1>6, <1>8, <2>1, <2>3
    <2> QED
      BY <2>1, <2>2, <2>4
  <1>12. h.place = InPlace <=> k > mine.reduced
    BY <1>1, <1>2, <1>9 DEF RecvQueue
  <1>13. h.place # InPlace => h.place = Place(k)
    <2>1. RecvRight(s, h, plan[r], part[r])
      BY <1>1, <1>2 DEF QInv, RInv, RecvsRight
    <2> QED
      BY <1>1, <2>1 DEF RecvRight
  <1>14. ASSUME NEW m \in 1..n PROVE N[m] = ItemAt(r, p, k, b + m)
    <2>1. N[m] = <<c, p, k, lo + RecvShift(mine)[k] + m>>
      BY <1>1, <1>7 DEF NextArrived, NextItems
    <2>2. RecvShift(mine)[k] = shift
      BY <1>1, <1>4 DEF RecvShift
    <2> QED
      BY <1>1, <1>11, <2>1, <2>2 DEF ItemAt
  <1>15. Receives(s, h, n, b)
    BY <1>1, <1>3, <1>4, <1>5, <1>6, <1>7, <1>8, <1>11, <1>12, <1>13 DEF Receives
  <1> QED
    BY <1>1, <1>14, <1>15

(* What comes is what the neighbour sends.                                   *)
LEMMA PeerValue ==
  ASSUME QInv, NEW r \in Rank, NEW p \in DOMAIN plan[r], NEW k \in 1..Len(plan[r][p].recvs),
         NEW e \in Covers(plan[r][p].recvs[k]), NEW l, l = From(r, plan[r][p].side)
  PROVE  Value(Peer(RecvSocket(r, p)))[ItemAt(r, p, k, e)] = Carried(call[r], l, Parts(call[r], l)[p], k, e)
  <1>1. PICK s, x, side, c : s = RecvSocket(r, p) /\ x = ItemAt(r, p, k, e) /\ side = plan[r][p].side /\ c = call[r]
    OBVIOUS
  <1>2. s \in Socket /\ PartFits(plan[r][p])
    BY <1>1, PartIs
  <1>3. side \in {"left", "right"}
    BY <1>1, <1>2 DEF PartFits
  <1>4. s = <<s[1], Other(side), plan[r][p].link>> /\ s[1] = r
    BY <1>1 DEF RecvSocket
  <1>5. Peer(s) = <<From(r, side), side, plan[r][p].link>>
    BY <1>2, <1>3, <1>4, PeerIs
  <1>6. Peer(s)[1] = l
    BY <1>1, <1>5
  <1>7. x \in Item
    BY <1>1, ArrivedIs
  <1>8. x[1] = c /\ x[2] = p /\ x[3] = k /\ x[4] = e
    BY <1>1 DEF ItemAt
  <1>9. Value(Peer(s))[x] = Carried(x[1], Peer(s)[1], Parts(x[1], Peer(s)[1])[x[2]], x[3], x[4])
    BY <1>7 DEF Value
  <1> QED
    BY <1>1, <1>6, <1>8, <1>9

Added(s, r, p, k, b, n) ==
  \A x : x \in Arrived(s)' <=> x \in Arrived(s) \/ \E m \in 1..n : x = ItemAt(r, p, k, b + m)

(* The elements are new, and they are what the neighbour has to send.        *)
Brings(s, r, p, k, b, n) ==
  LET l == From(r, plan[r][p].side) IN
  \A m \in 1..n :
    /\ b + m \in Covers(plan[r][p].recvs[k])
    /\ ItemAt(r, p, k, b + m) \notin Arrived(s)
    /\ wire[s][m] = Carried(call[r], l, Parts(call[r], l)[p], k, b + m)

LEMMA RecvBrings ==
  ASSUME QInv, Ways, NEW s \in Socket, NEW h, NEW n, RecvDone(s, h, n), UNCHANGED <<call, plan, part, sends>>
  PROVE  \E b : /\ Receives(s, h, n, b)
                /\ Added(s, s[1], h.part, h.step, b, n)
                /\ Brings(s, s[1], h.part, h.step, b, n)
  <1>1. PICK N : N = NextArrived(s, h, n)
    OBVIOUS
  <1>2. PICK b : /\ Receives(s, h, n, b)
                 /\ \A m \in 1..n : N[m] = ItemAt(s[1], h.part, h.step, b + m)
    BY <1>1, RecvHead
  <1>3. /\ n \in Nat /\ Moves(RecvLine(s), Arrived(s), N, n) /\ Arrived(s)' = Arrived(s) \cup Ran(N, n)
    BY <1>1, RecvMoves
  <1>4. Carries(wire[s], Value(Peer(s)), N, n)
    BY <1>1, RecvWays
  <1>5. Added(s, s[1], h.part, h.step, b, n)
    <2>1. \A x : x \in Ran(N, n) <=> \E m \in 1..n : x = N[m]
      BY DEF Ran
    <2>2. \A x : x \in Arrived(s)' <=> x \in Arrived(s) \/ x \in Ran(N, n)
      BY <1>3
    <2> QED
      BY <1>2, <2>1, <2>2 DEF Added
  <1>6. PICK r, p, k, l : r = s[1] /\ p = h.part /\ k = h.step /\ l = From(r, plan[r][p].side)
    OBVIOUS
  <1>7. /\ r \in Rank /\ p \in DOMAIN plan[r] /\ s = RecvSocket(r, p) /\ k \in 1..Len(plan[r][p].recvs)
        /\ n \in Nat /\ b \in Int /\ plan[r][p].recvs[k][1] \in Nat /\ plan[r][p].recvs[k][2] \in Nat
        /\ plan[r][p].recvs[k][1] <= b /\ b + n <= plan[r][p].recvs[k][2]
    BY <1>2, <1>6 DEF Receives
  <1>8. ASSUME NEW m \in 1..n
        PROVE  /\ b + m \in Covers(plan[r][p].recvs[k])
               /\ ItemAt(r, p, k, b + m) \notin Arrived(s)
               /\ wire[s][m] = Carried(call[r], l, Parts(call[r], l)[p], k, b + m)
    <2>1. PICK x, y, e : x = plan[r][p].recvs[k][1] /\ y = plan[r][p].recvs[k][2] /\ e = b + m
      OBVIOUS
    <2>2. x \in Nat /\ y \in Nat /\ e \in (x + 1)..y
      <3>1. n \in Nat /\ b \in Int /\ x \in Nat /\ y \in Nat /\ x <= b /\ b + n <= y /\ e = b + m
        BY <1>7, <2>1, Zenon
      <3> QED
        BY <3>1
    <2>3. e \in Covers(plan[r][p].recvs[k])
      BY <2>1, <2>2 DEF Covers
    <2>4. N[m] = ItemAt(r, p, k, e)
      BY <1>2, <1>6, <2>1
    <2>5. N[m] \notin Arrived(s)
      BY <1>3 DEF Moves
    <2>6. wire[s][m] = Value(Peer(s))[N[m]]
      BY <1>4 DEF Carries
    <2>7. Value(Peer(s))[ItemAt(r, p, k, e)] = Carried(call[r], l, Parts(call[r], l)[p], k, e)
      <3>1. /\ r \in Rank /\ p \in DOMAIN plan[r] /\ k \in 1..Len(plan[r][p].recvs)
            /\ e \in Covers(plan[r][p].recvs[k]) /\ l = From(r, plan[r][p].side)
        BY <1>6, <1>7, <2>3
      <3>2. Value(Peer(RecvSocket(r, p)))[ItemAt(r, p, k, e)] = Carried(call[r], l, Parts(call[r], l)[p], k, e)
        BY <3>1, PeerValue
      <3>3. s = RecvSocket(r, p)
        BY <1>7
      <3> QED
        BY <3>2, <3>3, Zenon
    <2> QED
      BY <2>1, <2>3, <2>4, <2>5, <2>6, <2>7
  <1>9. Brings(s, s[1], h.part, h.step, b, n)
    BY <1>6, <1>8 DEF Brings
  <1> QED
    BY <1>2, <1>5, <1>9

(* The sockets of two parts are not the same.                                *)
LEMMA OneSocket ==
  ASSUME QInv, NEW r \in Rank, NEW p \in DOMAIN plan[r], NEW x \in DOMAIN plan[r], RecvSocket(r, x) = RecvSocket(r, p)
  PROVE  x = p
  <1>1. PICK P : P = plan[r]
    OBVIOUS
  <1>2. Fits(P)
    BY <1>1, PartIs
  <1>3. Other(P[x].side) = Other(P[p].side) /\ P[x].link = P[p].link
    BY <1>1 DEF RecvSocket
  <1>4. P[x].side \in {"left", "right"} /\ P[p].side \in {"left", "right"}
    BY <1>1, <1>2 DEF Fits, PartFits
  <1>5. P[x].side = P[p].side
    BY <1>3, <1>4 DEF Other
  <1> QED
    BY <1>1, <1>2, <1>3, <1>5 DEF Fits

(* Items are those of the part and the step.                                 *)
LEMMA ItemOf ==
  ASSUME NEW r, NEW p, NEW k, NEW e, NEW x, NEW j, NEW d, ItemAt(r, p, k, e) = ItemAt(r, x, j, d)
  PROVE  p = x /\ k = j /\ e = d
  BY DEF ItemAt

(* Elsewhere nothing arrives.                                                *)
Only(s) == \A y \in Socket : y # s => Arrived(y)' = Arrived(y)

Lands(e, b, n) == \E m \in 1..n : e = b + m

IsNew(x, j, e, p, k, b, n) == x = p /\ j = k /\ Lands(e, b, n)

LEMMA AddedElse ==
  ASSUME QInv, NEW s \in Socket, NEW r \in Rank, NEW p \in DOMAIN plan[r], s = RecvSocket(r, p),
         NEW k, NEW b, NEW n, Added(s, r, p, k, b, n),
         Only(s), NEW x \in DOMAIN plan[r], NEW j, NEW e, ~ IsNew(x, j, e, p, k, b, n),
         NEW y, y = RecvSocket(r, x)
  PROVE  ItemAt(r, x, j, e) \in Arrived(y)' <=> ItemAt(r, x, j, e) \in Arrived(y)
  <1>1. CASE y # s
    <2>1. y \in Socket
      BY PartIs
    <2>2. Arrived(y)' = Arrived(y)
      BY <1>1, <2>1 DEF Only
    <2> QED
      BY <2>2
  <1>2. CASE y = s
    <2>1. x = p
      BY <1>2, OneSocket
    <2>2. ~ \E m \in 1..n : ItemAt(r, x, j, e) = ItemAt(r, p, k, b + m)
      BY <2>1, ItemOf DEF IsNew, Lands
    <2>3. PICK T : T = Arrived(s)'
      OBVIOUS
    <2>4. \A i : i \in T <=> i \in Arrived(s) \/ \E m \in 1..n : i = ItemAt(r, p, k, b + m)
      BY <2>3 DEF Added
    <2>5. Arrived(y)' = T
      BY <1>2, <2>3
    <2> QED
      BY <1>2, <2>2, <2>4, <2>5
  <1> QED
    BY <1>1, <1>2

LEMMA EffectiveSet ==
  ASSUME NEW r, NEW p, NEW e, NEW C, NEW k, \A j : j \in Effective(r, p, e)' <=> j \in {d \in C : d < k} \cup {k}
  PROVE  Effective(r, p, e)' = {d \in C : d < k} \cup {k}
  <1>1. \E S : Effective(r, p, e)' = {j \in Covering(plan'[r][p], e) : j \in S}
    BY DEF Effective
  <1> QED
    BY <1>1

AddsTo(r, p, e, k) == Effective(r, p, e)' = {j \in Covering(plan[r][p], e) : j < k} \cup {k}

(* Of the step of a part that receives data where it belongs.                *)
LEMMA EffectiveAdds ==
  ASSUME QInv, NEW s \in Socket, NEW h, NEW n, NEW b, Receives(s, h, n, b), UNCHANGED <<call, plan, part, sends>>,
         NEW r, NEW p, NEW k, r = s[1], p = h.part, k = h.step, h.place = InPlace,
         Added(s, r, p, k, b, n), NEW m \in 1..n, NEW e, e = b + m, e \in Covers(plan[r][p].recvs[k])
  PROVE  AddsTo(r, p, e, k)
  <1>1. PICK mine, i, lag : mine = plan[r][p] /\ i = part[r][p].i /\ lag = mine.lag
    OBVIOUS
  <1>2. /\ r \in Rank /\ p \in DOMAIN plan[r] /\ s = RecvSocket(r, p) /\ k \in 1..Len(mine.recvs) /\ k \in Nat
        /\ Open(part[r][p], lag, k) /\ k > mine.reduced
    BY <1>1 DEF Receives
  <1>3. i \in Nat /\ lag \in {0, 1} /\ mine.reduced \in Nat
    BY <1>1, <1>2, PartHas
  <1>4. i - lag <= k /\ k <= i
    <2>1. PICK now : now = part[r][p]
      OBVIOUS
    <2>2. i = now.i /\ Open(now, lag, k)
      BY <1>1, <1>2, <2>1
    <2>3. now.i \in Nat
      BY <1>3, <2>2
    <2>4. k \in Int
      BY <1>2
    <2>5. now.i - lag <= k /\ k <= now.i
      BY <1>3, <2>2, <2>3, <2>4, OpenPosted
    <2> QED
      BY <2>2, <2>5
  <1>5. k \in Covering(mine, e)
    BY <1>1, <1>2 DEF Covering
  <1>6. PICK A, B : A = Arrived(s) /\ B = Arrived(s)'
    OBVIOUS
  <1>7. \A x : x \in B <=> x \in A \/ \E d \in 1..n : x = ItemAt(r, p, k, b + d)
    BY <1>6 DEF Added
  <1>8. ItemAt(r, p, k, e) \in B
    BY <1>7
  <1>9. ASSUME NEW j \in Covering(mine, e), j # k
        PROVE  (IF j <= mine.reduced THEN j < i - lag ELSE ItemAt(r, p, j, e) \in B) <=> j < k
    <2>1. j \in Nat /\ j \in 1..Len(mine.recvs) /\ e \in Covers(mine.recvs[j])
      BY <1>1, <1>2, CoveringIn
    <2>2. j < k - lag \/ k + lag < j
      BY <1>1, <1>2, <1>5, <1>9, CoveringApart
    <2>3. CASE j < k - lag
      <3>1. j < i - lag /\ j < k
        BY <1>2, <1>3, <1>4, <2>1, <2>3
      <3>2. ItemAt(r, p, j, e) \in A
        BY <1>1, <1>2, <1>6, <2>1, <3>1, ArrivedBounds
      <3>3. ItemAt(r, p, j, e) \in B
        BY <1>7, <3>2
      <3> QED
        BY <3>1, <3>3
    <2>4. CASE k + lag < j
      <3>1. i < j /\ ~ (j < k) /\ ~ (j <= mine.reduced)
        BY <1>2, <1>3, <1>4, <2>1, <2>4
      <3>2. ItemAt(r, p, j, e) \notin A
        BY <1>1, <1>2, <1>6, <2>1, <3>1, ArrivedBounds
      <3>3. ItemAt(r, p, j, e) \notin B
        <4>1. \A d \in 1..n : ItemAt(r, p, j, e) # ItemAt(r, p, k, b + d)
          BY <1>9, ItemOf
        <4> QED
          BY <1>7, <3>2, <4>1
      <3> QED
        BY <3>1, <3>3
    <2> QED
      BY <2>2, <2>3, <2>4
  <1>10. ASSUME NEW j
         PROVE  j \in Effective(r, p, e)' <=> j \in Covering(mine, e) /\ (j < k \/ j = k)
    <2>1. j \in Effective(r, p, e)' <=>
           /\ j \in Covering(mine, e)
           /\ IF j <= mine.reduced THEN j < i - lag ELSE ItemAt(r, p, j, e) \in B
      <3>1. call'[r] = call[r] /\ plan'[r] = plan[r] /\ part'[r][p].i = i
        BY <1>1
      <3>2. j \in Effective(r, p, e)' <=>
           /\ j \in Covering(plan[r][p], e)
           /\ IF j <= plan[r][p].reduced THEN j < part'[r][p].i - plan[r][p].lag
              ELSE ItemAt(r, p, j, e) \in Arrived(s)'
        BY <1>2, <3>1, EffectiveNext
      <3> QED
        BY <1>1, <1>6, <3>1, <3>2, Zenon
    <2>2. CASE j = k
      <3>1. ~ (k <= mine.reduced)
        BY <1>2, <1>3
      <3> QED
        BY <1>5, <1>8, <2>1, <2>2, <3>1
    <2>3. CASE j # k
      BY <1>9, <2>1, <2>3
    <2> QED
      BY <2>2, <2>3
  <1>11. ASSUME NEW j
         PROVE  j \in Effective(r, p, e)' <=> j \in {d \in Covering(plan[r][p], e) : d < k} \cup {k}
    BY <1>1, <1>5, <1>10
  <1> QED
    BY <1>11, EffectiveSet DEF AddsTo

LEMMA EffectiveElse ==
  ASSUME QInv, NEW s \in Socket, NEW h, NEW n, NEW b, Receives(s, h, n, b), UNCHANGED <<call, plan, part, sends>>,
         NEW r, NEW p, NEW k, r = s[1], p = h.part, k = h.step,
         Added(s, r, p, k, b, n), Only(s),
         NEW x \in DOMAIN plan[r], NEW e,
         (x = p /\ Lands(e, b, n)) => h.place # InPlace
  PROVE  Effective(r, x, e)' = Effective(r, x, e)
  <1>1. /\ r \in Rank /\ p \in DOMAIN plan[r] /\ s = RecvSocket(r, p) /\ k \in Nat
        /\ h.place # InPlace => ~ (k > plan[r][p].reduced)
    BY DEF Receives
  <1>2. PICK y : y = RecvSocket(r, x)
    OBVIOUS
  <1>3. ASSUME NEW j \in Covering(plan[r][x], e), ~ (j <= plan[r][x].reduced)
        PROVE  ItemAt(r, x, j, e) \in Arrived(y)' <=> ItemAt(r, x, j, e) \in Arrived(y)
    <2>1. ~ IsNew(x, j, e, p, k, b, n)
      <3>1. SUFFICES ASSUME x = p, j = k, h.place # InPlace PROVE FALSE
        BY DEF IsNew
      <3>2. PICK red : red = plan[r][p].reduced
        OBVIOUS
      <3>3. red \in Nat
        BY <1>1, <3>2, PartHas
      <3>4. ~ (k <= red)
        BY <1>3, <3>1, <3>2, Zenon
      <3>5. ~ (k > red)
        BY <1>1, <3>1, <3>2, Zenon
      <3> QED
        BY <1>1, <3>3, <3>4, <3>5
    <2> QED
      BY <1>1, <1>2, <2>1, AddedElse
  <1>4. \A j \in Covering(plan[r][x], e) :
           IF j <= plan[r][x].reduced
           THEN j < part'[r][x].i - plan[r][x].lag <=> j < part[r][x].i - plan[r][x].lag
           ELSE ItemAt(r, x, j, e) \in Arrived(y)' <=> ItemAt(r, x, j, e) \in Arrived(y)
    BY <1>3
  <1> QED
    BY <1>2, <1>4, EffectiveSame

FillsAt(f, buffer, lo, n, w, e) ==
  /\ \A m \in 1..n : e = lo + m => f[e] = w[m]
  /\ ~ Lands(e, lo, n) => f[e] = buffer[e]

LEMMA FilledAt ==
  ASSUME NEW buffer, NEW lo \in Int, NEW n \in Nat, NEW w, NEW e \in DOMAIN buffer, e \in Int
  PROVE  FillsAt(FilledWith(buffer, lo, n, w), buffer, lo, n, w, e)
  <1>1. PICK f : f = FilledWith(buffer, lo, n, w)
    OBVIOUS
  <1>2. f[e] = IF e \in (lo + 1)..(lo + n) THEN w[e - lo] ELSE buffer[e]
    BY <1>1 DEF FilledWith
  <1>3. ASSUME NEW m \in 1..n, e = lo + m
        PROVE  f[e] = w[m]
    <2>1. e \in (lo + 1)..(lo + n) /\ e - lo = m
      BY <1>3
    <2> QED
      BY <1>2, <2>1
  <1>4. ASSUME ~ Lands(e, lo, n)
        PROVE  f[e] = buffer[e]
    <2>1. ASSUME e \in (lo + 1)..(lo + n)
          PROVE  FALSE
      <3>1. e - lo \in 1..n /\ e = lo + (e - lo)
        BY <2>1
      <3> QED
        BY <1>4, <3>1 DEF Lands
    <2> QED
      BY <1>2, <2>1
  <1> QED
    BY <1>1, <1>3, <1>4 DEF FillsAt

(* A packet that arrives where it belongs.                                   *)
LEMMA PlacedData ==
  ASSUME QInv, RankRights, NEW s \in Socket, NEW h, NEW n, NEW b, RecvDone(s, h, n), Receives(s, h, n, b),
         UNCHANGED <<call, plan, part, sends>>, NEW r, NEW p, NEW k, r = s[1], p = h.part, k = h.step,
         Added(s, r, p, k, b, n), Only(s), Brings(s, r, p, k, b, n), h.place = InPlace
  PROVE  DataRight(r)'
  <1>1. PICK mine, c, l, D, E :
          mine = plan[r][p] /\ c = call[r] /\ l = From(r, mine.side) /\ D = data[r] /\ E = data'[r]
    OBVIOUS
  <1>2. /\ r \in Rank /\ p \in DOMAIN plan[r] /\ k \in 1..Len(mine.recvs) /\ k \in Nat /\ k > mine.reduced
        /\ h.lo \in Nat /\ n \in Nat /\ b \in Int
    BY <1>1 DEF Receives
  <1>3. b = h.lo
    <2>1. ~ (k <= mine.reduced)
      BY <1>1, <1>2, PartHas
    <2>2. Shift(mine, k) = 0
      BY <2>1 DEF Shift
    <2>3. b = h.lo + Shift(mine, k)
      BY <1>1 DEF Receives
    <2> QED
      BY <1>2, <2>2, <2>3
  <1>4. E = FilledWith(D, b, n, wire[s])
    BY <1>1, <1>3 DEF RecvDone
  <1>5. IsSeq(D) /\ Len(E) = Len(D) /\ DOMAIN D = 1..Len(D) /\ Len(D) \in Nat
    <2>1. IsSeq(D)
      BY <1>1, <1>2 DEF QInv, RInv, RankRight
    <2> QED
      BY <1>4, <2>1, FilledIs, SeqIs
  <1>6. DataRight(r) /\ Fits(plan[r]) /\ c \in 1..Len(Calls) /\ plan[r] = Parts(c, r)
    BY <1>1, <1>2, PartIs DEF RankRights
  <1>7. SUFFICES ASSUME NEW x \in DOMAIN plan[r], NEW e \in 1..Len(E), Concerns(plan[r][x], e)
                 PROVE  E[e] = Held(c, r, plan[r][x], Effective(r, x, e)', e)
    BY <1>1 DEF DataRight
  <1>8. e \in DOMAIN D /\ e \in Int /\ e \in 1..Len(D)
    BY <1>5
  <1>9. CASE Lands(e, b, n)
    <2>1. PICK m \in 1..n : e = b + m
      BY <1>9 DEF Lands
    <2>2. /\ e \in Covers(mine.recvs[k])
          /\ wire[s][m] = Carried(c, l, Parts(c, l)[p], k, e)
      BY <1>1, <2>1 DEF Brings
    <2>3. x = p
      <3>1. Len(mine.recvs) = Len(mine.sends)
        BY <1>1, <1>2, PartHas
      <3>2. Concerns(mine, e)
        BY <1>2, <2>2, <3>1 DEF Concerns
      <3> QED
        BY <1>1, <1>2, <1>6, <1>7, <1>8, <3>2 DEF Fits
    <2>4. E[e] = wire[s][m]
      <3>1. FillsAt(E, D, b, n, wire[s], e)
        BY <1>2, <1>4, <1>8, FilledAt
      <3> QED
        BY <2>1, <3>1 DEF FillsAt
    <2>5. Effective(r, p, e)' = {j \in Covering(mine, e) : j < k} \cup {k}
      <3>1. b + m \in Covers(plan[r][p].recvs[k])
        BY <1>1, <2>1, <2>2
      <3>2. AddsTo(r, p, b + m, k)
        BY <3>1, EffectiveAdds
      <3> QED
        BY <1>1, <2>1, <3>2 DEF AddsTo
    <2>6. Carried(c, l, Parts(c, l)[p], k, e) = Held(c, r, mine, {j \in Covering(mine, e) : j < k} \cup {k}, e)
      <3>1. Fed(c, r, p, k, e)
        BY <1>1, <1>2, <1>6, <2>2, CallFed
      <3>2. HeldNext(c, r, l, mine, Parts(c, l)[p], k, e)
        BY <1>1, <1>6, <3>1 DEF Fed
      <3>3. ~ (k <= mine.reduced)
        BY <1>1, <1>2, PartHas
      <3> QED
        BY <3>2, <3>3 DEF HeldNext
    <2> QED
      BY <1>1, <2>2, <2>3, <2>4, <2>5, <2>6
  <1>10. CASE ~ Lands(e, b, n)
    <2>1. E[e] = D[e]
      <3>1. FillsAt(E, D, b, n, wire[s], e)
        BY <1>2, <1>4, <1>8, FilledAt
      <3> QED
        BY <1>10, <3>1 DEF FillsAt
    <2>2. Effective(r, x, e)' = Effective(r, x, e)
      <3>1. (x = p /\ Lands(e, b, n)) => h.place # InPlace
        BY <1>10
      <3> QED
        BY <3>1, EffectiveElse
    <2>3. D[e] = Held(c, r, plan[r][x], Effective(r, x, e), e)
      BY <1>1, <1>6, <1>7, <1>8 DEF DataRight
    <2> QED
      BY <2>1, <2>2, <2>3
  <1> QED
    BY <1>9, <1>10

LEMMA PlacedBuffers ==
  ASSUME QInv, RankRights, NEW s \in Socket, NEW h, NEW n, NEW b, RecvDone(s, h, n), Receives(s, h, n, b),
         UNCHANGED <<call, plan, part, sends>>, NEW r, NEW p, NEW k, r = s[1], p = h.part, k = h.step,
         Added(s, r, p, k, b, n), Only(s), h.place = InPlace
  PROVE  BuffersRight(r)'
  <1>1. /\ r \in Rank /\ p \in DOMAIN plan[r] /\ s = RecvSocket(r, p) /\ k \in Nat /\ k > plan[r][p].reduced
    BY DEF Receives
  <1>2. received' = received
    BY DEF RecvDone
  <1>3. BuffersRight(r)
    BY <1>1 DEF RankRights
  <1>4. ASSUME NEW x \in DOMAIN plan[r], NEW j \in 1..plan[r][x].reduced, NEW y, y = RecvSocket(r, x), NEW e,
               ItemAt(r, x, j, e) \in Arrived(y)'
        PROVE  ItemAt(r, x, j, e) \in Arrived(y)
    <2>1. ~ IsNew(x, j, e, p, k, b, n)
      <3>1. SUFFICES ASSUME x = p, j = k PROVE FALSE
        BY DEF IsNew
      <3>2. PICK red : red = plan[r][p].reduced
        OBVIOUS
      <3>3. red \in Nat
        BY <1>1, <3>2, PartHas
      <3>4. k \in 1..red
        BY <1>4, <3>1, <3>2, Zenon
      <3>5. k > red
        BY <1>1, <3>2, Zenon
      <3> QED
        BY <1>1, <3>3, <3>4, <3>5
    <2>2. ItemAt(r, x, j, e) \in Arrived(y)' <=> ItemAt(r, x, j, e) \in Arrived(y)
      BY <1>1, <1>4, <2>1, AddedElse
    <2> QED
      BY <1>4, <2>2
  <1> QED
    BY <1>2, <1>3, <1>4, BuffersKeep

(* A packet that arrives in a buffer.                                        *)
LEMMA BufferedData ==
  ASSUME QInv, RankRights, NEW s \in Socket, NEW h, NEW n, NEW b, RecvDone(s, h, n), Receives(s, h, n, b),
         UNCHANGED <<call, plan, part, sends>>, NEW r, NEW p, NEW k, r = s[1], p = h.part, k = h.step,
         Added(s, r, p, k, b, n), Only(s), h.place # InPlace
  PROVE  DataRight(r)'
  <1>1. data'[r] = data[r]
    BY DEF RecvDone
  <1>2. DataRight(r)
    BY DEF RankRights, Receives
  <1>3. ASSUME NEW x \in DOMAIN plan[r], NEW e
        PROVE  Effective(r, x, e)' = Effective(r, x, e)
    BY EffectiveElse
  <1> QED
    BY <1>1, <1>2, <1>3, DataKeeps

(* Of the two packets of a part that may be on their way each has a buffer.  *)
LEMMA OtherPlace ==
  ASSUME NEW j \in Nat, NEW k \in Nat, NEW i \in Nat, NEW lag \in {0, 1},
         i - lag <= j, j <= i, i - lag <= k, k <= i, j # k
  PROVE  Place(j) # Place(k)
  <1>1. j = k + 1 \/ k = j + 1
    OBVIOUS
  <1>2. \A a \in Nat : (a + 1) % 2 # a % 2
    OBVIOUS
  <1> QED
    BY <1>1, <1>2 DEF Place

ReceivedAt(r, x, j, e) ==
  received'[r][<<x, Place(j)>>][e - plan[r][x].recvs[j][1]] =
    Carried(call[r], From(r, plan[r][x].side), Parts(call[r], From(r, plan[r][x].side))[x], j, e)

LEMMA BuffersNext ==
  ASSUME NEW r, call'[r] = call[r], plan'[r] = plan[r],
         \A x \in DOMAIN plan[r] : \A j \in 1..plan[r][x].reduced : \A e \in Covers(plan[r][x].recvs[j]) :
           part'[r][x].i - plan[r][x].lag <= j /\ <<call'[r], x, j, e>> \in Arrived(RecvSocket(r, x))' =>
             ReceivedAt(r, x, j, e)
  PROVE  BuffersRight(r)'
  BY DEF BuffersRight, ReceivedAt

LEMMA BufferedBuffers ==
  ASSUME QInv, RankRights, NEW s \in Socket, NEW h, NEW n, NEW b, RecvDone(s, h, n), Receives(s, h, n, b),
         UNCHANGED <<call, plan, part, sends>>, NEW r, NEW p, NEW k, r = s[1], p = h.part, k = h.step,
         Added(s, r, p, k, b, n), Only(s), Brings(s, r, p, k, b, n), h.place # InPlace
  PROVE  BuffersRight(r)'
  <1>1. PICK mine, c, lo, i, lag :
          mine = plan[r][p] /\ c = call[r] /\ lo = h.lo /\ i = part[r][p].i /\ lag = mine.lag
    OBVIOUS
  <1>2. /\ r \in Rank /\ p \in DOMAIN plan[r] /\ s = RecvSocket(r, p) /\ k \in 1..Len(mine.recvs) /\ k \in Nat
        /\ ~ (k > mine.reduced) /\ h.place = Place(k) /\ Open(part[r][p], lag, k)
        /\ lo \in Nat /\ n \in Nat /\ b \in Int /\ b = lo + Shift(mine, k)
    BY <1>1 DEF Receives
  <1>3. i \in Nat /\ lag \in {0, 1} /\ mine.reduced \in Nat /\ PartFits(mine)
    BY <1>1, <1>2, PartHas
  <1>4. i - lag <= k /\ k <= i /\ k <= mine.reduced /\ k \in 1..mine.reduced
    <2>1. i - lag <= k /\ k <= i
      <3>1. PICK now : now = part[r][p]
        OBVIOUS
      <3>2. Open(now, lag, k)
        <4>1. Open(part[r][p], lag, k)
          BY <1>2
        <4> QED
          BY <3>1, <4>1, Zenon
      <3>3. now.i = i /\ k \in Int /\ now.i \in Nat
        <4>1. now.i = i
          BY <1>1, <3>1, Zenon
        <4>2. k \in Nat
          BY <1>2
        <4> QED
          BY <1>3, <4>1, <4>2
      <3> QED
        BY <1>3, <3>2, <3>3, OpenPosted
    <2>2. k >= 1
      BY <1>2
    <2> QED
      BY <1>2, <1>3, <2>1, <2>2
  <1>5. PICK first, last : first = mine.recvs[k][1] /\ last = mine.recvs[k][2]
    OBVIOUS
  <1>6. /\ first \in Nat /\ last \in Nat /\ b = lo + first /\ last - first <= MaxBuffer
    <2>1. first \in Nat /\ last \in Nat
      BY <1>1, <1>5 DEF Receives
    <2>2. b = lo + first
      BY <1>2, <1>4, <1>5 DEF Shift
    <2>3. last - first <= MaxBuffer
      BY <1>3, <1>4, <1>5 DEF PartFits
    <2> QED
      BY <2>1, <2>2, <2>3
  <1>7. PICK slot, buffer, more : slot = <<p, Place(k)>> /\ buffer = received[r][slot] /\ more = received'[r][slot]
    OBVIOUS
  <1>8. /\ slot \in Slot /\ more = FilledWith(buffer, lo, n, wire[s])
        /\ \A d \in Slot : d # slot => received'[r][d] = received[r][d]
    BY <1>1, <1>2, <1>7 DEF RecvDone
  <1>9. DOMAIN buffer = 1..MaxBuffer
    <2>1. buffer = [m \in 1..MaxBuffer |-> buffer[m]]
      BY <1>2, <1>7, <1>8, StoredIs DEF QInv
    <2> QED
      BY <2>1
  <1>10. SUFFICES ASSUME NEW x \in DOMAIN plan[r], NEW j \in 1..plan[r][x].reduced,
                         NEW e \in Covers(plan[r][x].recvs[j]),
                         part'[r][x].i - plan[r][x].lag <= j,
                         <<call'[r], x, j, e>> \in Arrived(RecvSocket(r, x))'
                  PROVE  ReceivedAt(r, x, j, e)
    BY BuffersNext
  <1>11. PICK y : y = RecvSocket(r, x)
    OBVIOUS
  <1>12. ItemAt(r, x, j, e) \in Arrived(y)'
    <2>1. Arrived(RecvSocket(r, x))' = Arrived(y)'
      BY <1>11 DEF Arrived, RecvSocket
    <2> QED
      BY <1>10, <2>1 DEF ItemAt
  <1>13. ASSUME ItemAt(r, x, j, e) \in Arrived(y)
         PROVE  received[r][<<x, Place(j)>>][e - plan[r][x].recvs[j][1]] =
                  Carried(c, From(r, plan[r][x].side), Parts(c, From(r, plan[r][x].side))[x], j, e)
    <2>1. BuffersRight(r)
      BY <1>2 DEF RankRights
    <2> QED
      BY <1>1, <1>10, <1>11, <1>13, <2>1 DEF BuffersRight, ItemAt
  <1>14. <<x, Place(j)>> \in Slot
    <2>1. x \in 1..(2 * Links)
      BY <1>2, PartIs DEF Fits
    <2>2. Place(j) \in {0, 1}
      <3>1. j \in Int
        BY <1>2, <1>10, PartHas
      <3> QED
        BY <3>1 DEF Place
    <2> QED
      BY <2>1, <2>2 DEF Slot
  <1>15. CASE IsNew(x, j, e, p, k, b, n)
    <2>1. PICK m \in 1..n : x = p /\ j = k /\ e = b + m
      BY <1>15 DEF IsNew, Lands
    <2>2. /\ e \in Covers(mine.recvs[k])
          /\ wire[s][m] = Carried(c, From(r, mine.side), Parts(c, From(r, mine.side))[p], k, e)
      BY <1>1, <2>1 DEF Brings
    <2>3. PICK d : d = lo + m
      OBVIOUS
    <2>4. e \in (first + 1)..last
      BY <1>5, <2>2 DEF Covers
    <2>5. e - first = d /\ d \in Int /\ d \in 1..MaxBuffer
      <3>1. e \in Int /\ first + 1 <= e /\ e <= last /\ m \in Int /\ m >= 1 /\ e = b + m
        BY <1>2, <1>6, <2>1, <2>4
      <3>2. e - first = d /\ d \in Int /\ d >= 1 /\ d <= last - first
        BY <1>2, <1>6, <2>3, <3>1
      <3>3. MaxBuffer \in Int
        BY RingPlanAssumption
      <3> QED
        BY <1>6, <3>2, <3>3
    <2>6. more[d] = wire[s][m]
      <3>1. FillsAt(more, buffer, lo, n, wire[s], d)
        <4>1. lo \in Int /\ n \in Nat
          BY <1>2
        <4>2. d \in DOMAIN buffer
          BY <1>9, <2>5
        <4>3. more = FilledWith(buffer, lo, n, wire[s])
          BY <1>8
        <4> QED
          BY <2>5, <4>1, <4>2, <4>3, FilledAt
      <3> QED
        BY <2>3, <3>1 DEF FillsAt
    <2> QED
      BY <1>1, <1>5, <1>7, <2>1, <2>2, <2>5, <2>6, Zenon DEF ReceivedAt
  <1>16. CASE ~ IsNew(x, j, e, p, k, b, n)
    <2>1. ItemAt(r, x, j, e) \in Arrived(y)
      <3>1. ItemAt(r, x, j, e) \in Arrived(y)' <=> ItemAt(r, x, j, e) \in Arrived(y)
        BY <1>2, <1>11, <1>16, AddedElse
      <3> QED
        BY <1>12, <3>1
    <2>2. CASE <<x, Place(j)>> # slot
      <3>1. received'[r][<<x, Place(j)>>] = received[r][<<x, Place(j)>>]
        BY <1>8, <1>14, <2>2
      <3> QED
        BY <1>1, <1>13, <2>1, <3>1, Zenon DEF ReceivedAt
    <2>3. CASE <<x, Place(j)>> = slot
      <3>1. x = p /\ Place(j) = Place(k)
        BY <1>7, <2>3
      <3>2. j \in Nat /\ j \in 1..Len(mine.recvs) /\ j <= mine.reduced /\ j >= 1
        <4>1. j \in 1..mine.reduced
          BY <1>1, <1>10, <3>1, Zenon
        <4>2. j \in Nat /\ j <= mine.reduced /\ j >= 1
          BY <1>3, <4>1
        <4>3. mine.reduced <= Len(mine.recvs) /\ Len(mine.recvs) \in Nat
          <5>1. Len(mine.recvs) = Len(mine.sends) /\ Len(mine.recvs) \in Nat
            BY <1>1, <1>2, PartHas
          <5>2. mine.reduced = 0 \/ mine.reduced + lag < Len(mine.sends)
            BY <1>1, <1>3 DEF PartFits
          <5> QED
            BY <1>3, <5>1, <5>2
        <4> QED
          BY <1>3, <4>2, <4>3
      <3>3. i - lag <= j
        BY <1>1, <1>10, <3>1
      <3>4. j <= i
        <4>1. i < j => ItemAt(r, p, j, e) \notin Arrived(RecvSocket(r, p))
          <5>1. e \in Covers(plan[r][p].recvs[j]) /\ j \in 1..Len(plan[r][p].recvs)
            BY <1>1, <1>10, <3>1, <3>2
          <5> QED
            BY <1>1, <1>2, <5>1, ArrivedBounds
        <4>2. ~ (i < j)
          BY <1>11, <2>1, <3>1, <4>1
        <4> QED
          BY <1>3, <3>2, <4>2
      <3>5. j = k
        BY <1>2, <1>3, <1>4, <3>1, <3>2, <3>3, <3>4, OtherPlace
      <3>6. ~ Lands(e, b, n)
        BY <1>16, <3>1, <3>5 DEF IsNew
      <3>7. PICK d : d = e - first
        OBVIOUS
      <3>8. e \in (first + 1)..last
        BY <1>1, <1>5, <1>10, <3>1, <3>5 DEF Covers
      <3>9. d \in Int /\ d \in 1..MaxBuffer
        <4>1. e \in Int /\ first + 1 <= e /\ e <= last
          BY <1>6, <3>8
        <4>2. d \in Int /\ d >= 1 /\ d <= last - first
          BY <1>6, <3>7, <4>1
        <4>3. MaxBuffer \in Int
          BY RingPlanAssumption
        <4> QED
          BY <1>6, <4>2, <4>3
      <3>10. ~ Lands(d, lo, n)
        <4>1. ASSUME NEW m \in 1..n, d = lo + m
              PROVE  e = b + m
          <5>1. e \in Int /\ m \in Int
            BY <1>2, <1>6, <3>8
          <5>2. b = lo + first /\ lo \in Nat /\ first \in Nat
            BY <1>2, <1>6
          <5> QED
            BY <3>7, <4>1, <5>1, <5>2
        <4> QED
          BY <3>6, <4>1 DEF Lands
      <3>11. more[d] = buffer[d]
        <4>1. FillsAt(more, buffer, lo, n, wire[s], d)
          <5>1. lo \in Int /\ n \in Nat
            BY <1>2
          <5>2. d \in DOMAIN buffer
            BY <1>9, <3>9
          <5>3. more = FilledWith(buffer, lo, n, wire[s])
            BY <1>8
          <5> QED
            BY <3>9, <5>1, <5>2, <5>3, FilledAt
        <4> QED
          BY <3>10, <4>1 DEF FillsAt
      <3>12. received'[r][<<x, Place(j)>>][e - plan[r][x].recvs[j][1]]
                = received[r][<<x, Place(j)>>][e - plan[r][x].recvs[j][1]]
        BY <1>1, <1>5, <1>7, <3>1, <3>5, <3>7, <3>11, Zenon
      <3> QED
        BY <1>1, <1>13, <2>1, <3>12, Zenon DEF ReceivedAt
    <2> QED
      BY <2>2, <2>3
  <1> QED
    BY <1>15, <1>16

LEMMA RecvRights ==
  ASSUME QInv, Ways, RankRights, NEW s \in Socket, Recv(s)
  PROVE  RankRights' /\ Ways'
  <1>1. UNCHANGED <<call, plan, part, sends>>
    BY RecvDoes
  <1>2. PICK h, n : RecvDone(s, h, n)
    BY RecvDoes
  <1>3. PICK r, p, k : r = s[1] /\ p = h.part /\ k = h.step
    OBVIOUS
  <1>4. PICK b : /\ Receives(s, h, n, b)
                 /\ Added(s, s[1], h.part, h.step, b, n)
                 /\ Brings(s, s[1], h.part, h.step, b, n)
    BY <1>1, <1>2, RecvBrings
  <1>5. Only(s)
    BY <1>1, <1>2, RecvMoves DEF Only
  <1>6. ASSUME NEW q \in Rank PROVE DataRight(q)' /\ BuffersRight(q)'
    <2>1. CASE q = r
      <3>1. Added(s, r, p, k, b, n) /\ Brings(s, r, p, k, b, n)
        BY <1>3, <1>4
      <3>2. CASE h.place = InPlace
        <4>1. DataRight(r)'
          BY <1>1, <1>2, <1>3, <1>4, <1>5, <3>1, <3>2, PlacedData
        <4>2. BuffersRight(r)'
          BY <1>1, <1>2, <1>3, <1>4, <1>5, <3>1, <3>2, PlacedBuffers
        <4> QED
          BY <2>1, <4>1, <4>2
      <3>3. CASE h.place # InPlace
        <4>1. DataRight(r)'
          BY <1>1, <1>2, <1>3, <1>4, <1>5, <3>1, <3>3, BufferedData
        <4>2. BuffersRight(r)'
          BY <1>1, <1>2, <1>3, <1>4, <1>5, <3>1, <3>3, BufferedBuffers
        <4> QED
          BY <2>1, <4>1, <4>2
      <3> QED
        BY <3>2, <3>3
    <2>2. CASE q # r
      <3>1. data'[q] = data[q] /\ received'[q] = received[q]
        BY <1>2, <1>3, <2>2 DEF RecvDone
      <3>2. \A y \in Socket : y[1] = q => Arrived(y)' = Arrived(y)
        BY <1>3, <1>5, <2>2 DEF Only
      <3> QED
        BY <1>1, <3>1, <3>2, RankSame
    <2> QED
      BY <2>1, <2>2
  <1>7. Ways'
    BY <1>1, <1>2, RecvWays
  <1> QED
    BY <1>6, <1>7 DEF RankRights

(* Nothing of a call has come before the call begins.                        *)
LEMMA NotYet ==
  ASSUME QInv, NEW s \in Socket, NEW c, c = call[s[1]] + 1, NEW p, NEW k, NEW e
  PROVE  <<c, p, k, e>> \notin Arrived(s)
  <1>1. SUFFICES ASSUME <<c, p, k, e>> \in Arrived(s) PROVE FALSE
    OBVIOUS
  <1>2. PICK x, a : x = <<c, p, k, e>> /\ a = call[s[1]]
    OBVIOUS
  <1>3. x[1] < a \/ x[1] = a
    BY <1>1, <1>2 DEF Arrived, ArrivedOf, Done
  <1>4. x[1] = c
    BY <1>2
  <1>5. a \in Nat
    BY <1>2, SocketIs DEF QInv, RInv, Tables
  <1> QED
    BY <1>2, <1>3, <1>4, <1>5

(* A rank that begins a call has what it brings to it.                       *)
LEMMA BeginRank ==
  ASSUME QInv, RInv', Steady, NEW r \in Rank, NEW c, BeginDone(r, c)
  PROVE  DataRight(r)' /\ BuffersRight(r)'
  <1>1. PICK P : P = Parts(c, r)
    OBVIOUS
  <1>2. /\ c = call[r] + 1 /\ c \in 1..Len(Calls) /\ call'[r] = c /\ plan'[r] = P
        /\ data'[r] = IF Takes(c, r) THEN Prepared(c, r) ELSE <<>>
        /\ part'[r] = [p \in DOMAIN P |-> [i |-> 1, phase |-> "post"]]
    BY <1>1 DEF BeginDone
  <1>3. Fits(P)
    BY <1>1, <1>2, CallFits
  <1>4. ASSUME NEW p \in DOMAIN P
        PROVE  /\ P[p].lag \in {0, 1} /\ part'[r][p].i = 1 /\ Takes(c, r)
               /\ \A k, e : <<c, p, k, e>> \notin Arrived(RecvSocket(r, p))'
               /\ Len(P[p].recvs) \in Nat /\ P[p].reduced \in Nat
    <2>1. P[p].lag \in {0, 1} /\ Len(P[p].recvs) \in Nat /\ P[p].reduced \in Nat
      <3>1. RankRight(data[r], plan[r], part[r])'
        BY DEF RInv
      <3> QED
        BY <1>2, <3>1 DEF RankRight, PlanRight, Whole
    <2>2. part'[r][p].i = 1
      BY <1>2
    <2>3. Takes(c, r)
      <3>1. ~ Takes(c, r) => P = <<>>
        BY <1>1 DEF Parts, Takes
      <3> QED
        BY <3>1
    <2>4. PICK s : s = <<r, Other(P[p].side), P[p].link>>
      OBVIOUS
    <2>5. s \in Socket /\ s[1] = r
      <3>1. P[p].side \in {"left", "right"} /\ P[p].link \in 0..(Links - 1)
        BY <1>3 DEF Fits, PartFits
      <3>2. Other(P[p].side) \in {"left", "right"}
        BY <3>1 DEF Other
      <3> QED
        BY <2>4, <3>1, <3>2 DEF Socket
    <2>6. Arrived(RecvSocket(r, p))' = Arrived(s)'
      <3>1. RecvSocket(r, p)' = s
        BY <1>2, <2>4 DEF RecvSocket
      <3> QED
        BY <3>1 DEF Arrived
    <2>7. Arrived(s)' = Arrived(s)
      BY <2>5 DEF Steady
    <2>8. ASSUME NEW k, NEW e
          PROVE  <<c, p, k, e>> \notin Arrived(s)
      BY <1>2, <2>5, NotYet
    <2> QED
      BY <2>1, <2>2, <2>3, <2>6, <2>7, <2>8
  <1>5. ASSUME NEW p \in DOMAIN P, NEW e
        PROVE  Effective(r, p, e)' = {}
    <2>1. ASSUME NEW k \in Covering(P[p], e)
          PROVE  ~ (IF k <= P[p].reduced THEN k < part'[r][p].i - P[p].lag
                    ELSE <<c, p, k, e>> \in Arrived(RecvSocket(r, p))')
      <3>1. k \in Nat /\ k >= 1
        BY <1>4 DEF Covering
      <3>2. ~ (k < 1 - P[p].lag)
        BY <1>4, <3>1
      <3> QED
        BY <1>4, <3>2
    <2>2. Effective(r, p, e)' =
            {k \in Covering(P[p], e) :
               IF k <= P[p].reduced THEN k < part'[r][p].i - P[p].lag
               ELSE <<c, p, k, e>> \in Arrived(RecvSocket(r, p))'}
      BY <1>2 DEF Effective
    <2> QED
      BY <2>1, <2>2
  <1>6. DataRight(r)'
    <2>1. SUFFICES ASSUME NEW p \in DOMAIN P, NEW e \in 1..Len(data'[r])
                   PROVE  data'[r][e] = Held(c, r, P[p], Effective(r, p, e)', e)
      BY <1>2 DEF DataRight
    <2>2. data'[r] = Prepared(c, r)
      BY <1>2, <1>4
    <2>3. Effective(r, p, e)' = {}
      BY <1>5
    <2>4. Held(c, r, P[p], {}, e) = Prepared(c, r)[e]
      BY DEF Held
    <2> QED
      BY <2>2, <2>3, <2>4
  <1>7. BuffersRight(r)'
    BY <1>2, <1>4 DEF BuffersRight
  <1> QED
    BY <1>6, <1>7

LEMMA BeginRights ==
  ASSUME QInv, RankRights, NEW r \in Rank, Begin(r)
  PROVE  RankRights'
  <1>1. BeginDone(r, call[r] + 1) /\ UNCHANGED <<received, sends, recvs, wire>>
    BY BeginIs
  <1>2. Steady
    BY BeginSteady
  <1>3. SUFFICES ASSUME NEW q \in Rank PROVE DataRight(q)' /\ BuffersRight(q)'
    BY DEF RankRights
  <1>4. CASE q = r
    <2>1. RInv'
      BY BeginKeepsQ DEF QInv
    <2> QED
      BY <1>1, <1>2, <1>4, <2>1, BeginRank
  <1>5. CASE q # r
    <2>1. call'[q] = call[q] /\ plan'[q] = plan[q] /\ data'[q] = data[q] /\ part'[q] = part[q]
      BY <1>1, <1>5 DEF BeginDone
    <2> QED
      BY <1>1, <1>2, <2>1, RankSame DEF Steady
  <1> QED
    BY <1>4, <1>5

-----------------------------------------------------------------------------
(* Where what is in the buffers comes from.                                  *)
More(C, D) == \A q \in Rank : C[q] \in Nat /\ D[q] \in Nat /\ C[q] <= D[q]

LEMMA KnownMore ==
  ASSUME NEW C, NEW D, More(C, D), NEW b, Known(C, b)
  PROVE  Known(D, b)
  <1>1. SUFFICES ASSUME NEW x \in DOMAIN b
                 PROVE  x[1] \in Nat /\ x[2] \in Rank /\ x[1] <= D[x[2]]
    BY DEF Known
  <1>2. x[1] \in Nat /\ x[2] \in Rank /\ x[1] <= C[x[2]]
    BY DEF Known
  <1>3. C[x[2]] \in Nat /\ D[x[2]] \in Nat /\ C[x[2]] <= D[x[2]]
    BY <1>2 DEF More
  <1> QED
    BY <1>2, <1>3

LEMMA AllMore ==
  ASSUME NEW C, NEW D, More(C, D), NEW queue, AllKnown(C, queue)
  PROVE  AllKnown(D, queue)
  BY KnownMore DEF AllKnown

LEMMA KnownSum ==
  ASSUME NEW C, NEW a, NEW b, Known(C, a), Known(C, b)
  PROVE  Known(C, a (+) b)
  <1>1. DOMAIN (a (+) b) = DOMAIN a \cup DOMAIN b
    BY DEF (+)
  <1> QED
    BY <1>1 DEF Known

LEMMA KnownOwn ==
  ASSUME NEW C, NEW c \in Nat, NEW r \in Rank, C[r] = c, NEW b, Own(c, r, b)
  PROVE  Known(C, b)
  <1>1. SUFFICES ASSUME NEW x \in DOMAIN b
                 PROVE  x[1] \in Nat /\ x[2] \in Rank /\ x[1] <= C[x[2]]
    BY DEF Known
  <1>2. x[1] = c /\ x[2] = r
    BY DEF Own
  <1> QED
    BY <1>2

LEMMA AllFilled ==
  ASSUME NEW C, NEW buffer, NEW lo \in Int, NEW n \in Nat, NEW w, IsSeq(w), n <= Len(w), AllKnown(C, buffer), AllKnown(C, w)
  PROVE  AllKnown(C, FilledWith(buffer, lo, n, w))
  <1>1. PICK f : f = FilledWith(buffer, lo, n, w)
    OBVIOUS
  <1>2. f = [e \in DOMAIN buffer |-> IF e \in (lo + 1)..(lo + n) THEN w[e - lo] ELSE buffer[e]]
    BY <1>1 DEF FilledWith
  <1>3. ASSUME NEW e \in DOMAIN f
        PROVE  Known(C, f[e])
    <2>1. e \in DOMAIN buffer /\ f[e] = IF e \in (lo + 1)..(lo + n) THEN w[e - lo] ELSE buffer[e]
      BY <1>2
    <2>2. CASE e \in (lo + 1)..(lo + n)
      <3>1. e - lo \in DOMAIN w
        <4>1. DOMAIN w = 1..Len(w) /\ Len(w) \in Nat
          BY SeqIs
        <4> QED
          BY <2>2, <4>1
      <3> QED
        BY <2>1, <2>2, <3>1 DEF AllKnown
    <2>3. CASE e \notin (lo + 1)..(lo + n)
      BY <2>1, <2>3 DEF AllKnown
    <2> QED
      BY <2>2, <2>3
  <1> QED
    BY <1>1, <1>3 DEF AllKnown

LEMMA AllReduced ==
  ASSUME NEW C, NEW more, NEW D, NEW range, NEW packet, ReducedAt(more, D, range, packet), AllKnown(C, D),
         \A e \in (range[1] + 1)..range[2] : Known(C, packet[e - range[1]])
  PROVE  AllKnown(C, more)
  <1>1. more = [e \in DOMAIN D |->
            IF e \in (range[1] + 1)..range[2] THEN D[e] (+) packet[e - range[1]] ELSE D[e]]
    BY DEF ReducedAt
  <1>2. ASSUME NEW e \in DOMAIN more
        PROVE  Known(C, more[e])
    <2>1. /\ e \in DOMAIN D
          /\ more[e] = IF e \in (range[1] + 1)..range[2] THEN D[e] (+) packet[e - range[1]] ELSE D[e]
      BY <1>1
    <2>2. Known(C, D[e])
      BY <2>1 DEF AllKnown
    <2>3. CASE e \in (range[1] + 1)..range[2]
      <3>1. Known(C, D[e] (+) packet[e - range[1]])
        BY <2>2, <2>3, KnownSum
      <3> QED
        BY <2>1, <2>3, <3>1
    <2>4. CASE e \notin (range[1] + 1)..range[2]
      BY <2>1, <2>2, <2>4
    <2> QED
      BY <2>3, <2>4
  <1> QED
    BY <1>2 DEF AllKnown

LEMMA AllSent ==
  ASSUME NEW C, NEW w, IsSeq(w), NEW u, IsSeq(u), AllKnown(C, w), \A m \in 1..Len(u) : Known(C, u[m])
  PROVE  AllKnown(C, w \o u)
  <1>1. PICK A, B : w \in Seq(A) /\ u \in Seq(B)
    BY DEF IsSeq
  <1>2. PICK W : W = A \cup B
    OBVIOUS
  <1>3. w \in Seq(W) /\ u \in Seq(W)
    BY <1>1, <1>2
  <1>4. PICK v, a, b : v = w \o u /\ a = Len(w) /\ b = Len(u)
    OBVIOUS
  <1>5. /\ a \in Nat /\ b \in Nat /\ DOMAIN w = 1..a
        /\ DOMAIN v = 1..(a + b)
        /\ \A i \in 1..(a + b) : v[i] = IF i <= a THEN w[i] ELSE u[i - a]
    BY <1>3, <1>4, ConcatProperties
  <1>6. ASSUME NEW i \in DOMAIN v
        PROVE  Known(C, v[i])
    <2>1. i \in 1..(a + b) /\ v[i] = IF i <= a THEN w[i] ELSE u[i - a]
      BY <1>5
    <2>2. CASE i <= a
      <3>1. i \in DOMAIN w
        BY <1>5, <2>1, <2>2
      <3> QED
        BY <2>1, <2>2, <3>1 DEF AllKnown
    <2>3. CASE ~ (i <= a)
      <3>1. i - a \in 1..b
        BY <1>5, <2>1, <2>3
      <3> QED
        BY <1>4, <2>1, <2>3, <3>1
    <2> QED
      BY <2>2, <2>3
  <1> QED
    BY <1>4, <1>6 DEF AllKnown

LEMMA AllLeft ==
  ASSUME NEW C, NEW w, IsSeq(w), NEW n \in Nat, n <= Len(w), AllKnown(C, w)
  PROVE  AllKnown(C, SubSeq(w, n + 1, Len(w)))
  <1>1. PICK W, a, v : w \in Seq(W) /\ a = Len(w) /\ v = SubSeq(w, n + 1, a)
    BY DEF IsSeq
  <1>2. a \in Nat /\ DOMAIN w = 1..a
    BY <1>1, SeqIs
  <1>3. n + 1 \in 1..(a + 1) /\ a \in 0..a /\ n + 1 <= a + 1
    BY <1>1, <1>2
  <1>4. /\ v \in Seq(W) /\ Len(v) = a - (n + 1) + 1
        /\ \A i \in 1..(a - (n + 1) + 1) : v[i] = w[n + 1 + i - 1]
    BY <1>1, <1>3, SubSeqProperties
  <1>5. DOMAIN v = 1..(a - (n + 1) + 1)
    BY <1>4
  <1>6. ASSUME NEW i \in DOMAIN v
        PROVE  Known(C, v[i])
    <2>1. v[i] = w[n + 1 + i - 1] /\ n + 1 + i - 1 \in 1..a
      <3>1. i \in 1..(a - (n + 1) + 1)
        BY <1>5
      <3>2. n + 1 + i - 1 \in 1..a
        BY <1>1, <1>2, <3>1
      <3> QED
        BY <1>4, <3>1, <3>2
    <2> QED
      BY <1>2, <2>1 DEF AllKnown
  <1> QED
    BY <1>1, <1>6 DEF AllKnown

LEMMA ReceivedOn ==
  ASSUME Stored, NEW q \in Rank
  PROVE  DOMAIN received[q] = Slot /\ \A b \in Slot : DOMAIN received[q][b] = 1..MaxBuffer
  <1>1. PICK f : f = received[q]
    OBVIOUS
  <1>2. f = [b \in Slot |-> f[b]]
    BY <1>1, StoredIs DEF Rows
  <1>3. \A b \in Slot : f[b] = [m \in 1..MaxBuffer |-> f[b][m]]
    BY <1>1, StoredIs
  <1>4. ASSUME NEW b \in Slot PROVE DOMAIN f[b] = 1..MaxBuffer
    BY <1>3
  <1> QED
    BY <1>1, <1>2, <1>4

LEMMA TagsAre ==
  ASSUME Tags, Stored
  PROVE  /\ \A r \in Rank : AllKnown(call, data[r])
         /\ \A r \in Rank : \A b \in Slot : AllKnown(call, received[r][b])
         /\ \A s \in Socket : AllKnown(call, wire[s])
  BY ReceivedOn DEF Tags

LEMMA TagsNext ==
  ASSUME Stored',
         \A r \in Rank : AllKnown(call', data'[r]),
         \A r \in Rank : \A b \in Slot : AllKnown(call', received'[r][b]),
         \A s \in Socket : AllKnown(call', wire'[s])
  PROVE  Tags'
  <1>1. ASSUME NEW q \in Rank PROVE DOMAIN received'[q] = Slot
    <2>1. (DOMAIN received[q] = Slot)'
      BY ReceivedOn, PTL
    <2> QED
      BY <2>1
  <1> QED
    BY <1>1 DEF Tags

LEMMA TagsInit == Init => Tags
  <1> SUFFICES ASSUME Init PROVE Tags
    OBVIOUS
  <1>1. ASSUME NEW r \in Rank PROVE AllKnown(call, data[r])
    <2>1. DOMAIN data[r] = {}
      BY DEF Init
    <2> QED
      BY <2>1 DEF AllKnown
  <1>2. ASSUME NEW s \in Socket PROVE AllKnown(call, wire[s])
    <2>1. DOMAIN wire[s] = {}
      BY DEF Init
    <2> QED
      BY <2>1 DEF AllKnown
  <1>3. ASSUME NEW r \in Rank, NEW b \in DOMAIN received[r] PROVE AllKnown(call, received[r][b])
    <2>1. received = [q \in Rank |-> [d \in Slot |-> Blank(MaxBuffer)]]
      BY DEF Init, Slot
    <2>2. received[r][b] = Blank(MaxBuffer)
      BY <2>1
    <2>3. PICK f : f = Blank(MaxBuffer)
      OBVIOUS
    <2>4. f = [m \in 1..MaxBuffer |-> EmptyBag]
      BY <2>3 DEF Blank
    <2>5. DOMAIN EmptyBag = {}
      BY DEF EmptyBag, SetToBag
    <2>6. \A m \in DOMAIN f : Known(call, f[m])
      BY <2>4, <2>5 DEF Known
    <2> QED
      BY <2>2, <2>3, <2>6 DEF AllKnown
  <1> QED
    BY <1>1, <1>2, <1>3 DEF Tags

LEMMA TagsSame ==
  ASSUME Tags, UNCHANGED <<call, data, received, wire>>
  PROVE  Tags'
  BY DEF Tags

LEMMA BeginTags ==
  ASSUME QInv, Stored', Tags, NEW r \in Rank, Begin(r)
  PROVE  Tags'
  <1>1. PICK c : c = call[r] + 1
    OBVIOUS
  <1>2. BeginDone(r, c) /\ UNCHANGED <<received, sends, recvs, wire>>
    BY <1>1, BeginIs
  <1>3. \A q \in Rank : call[q] \in Nat
    BY DEF QInv, RInv, Tables
  <1>4. More(call, call')
    <2>1. ASSUME NEW q \in Rank
          PROVE  call[q] \in Nat /\ call'[q] \in Nat /\ call[q] <= call'[q]
      <3>1. call'[q] = IF q = r THEN c ELSE call[q]
        BY <1>2 DEF BeginDone
      <3> QED
        BY <1>1, <1>3, <3>1
    <2> QED
      BY <2>1 DEF More
  <1>5. Stored
    BY DEF QInv
  <1>6. ASSUME NEW q \in Rank PROVE AllKnown(call', data'[q])
    <2>1. CASE q # r
      <3>1. data'[q] = data[q]
        BY <1>2, <2>1 DEF BeginDone
      <3>2. AllKnown(call, data[q])
        BY <1>5, TagsAre
      <3> QED
        BY <1>4, <3>1, <3>2, AllMore
    <2>2. CASE q = r
      <3>1. c \in 1..Len(Calls) /\ call'[r] = c /\ data'[r] = IF Takes(c, r) THEN Prepared(c, r) ELSE <<>>
        BY <1>2 DEF BeginDone
      <3>2. c \in Nat
        BY <1>1, <1>3
      <3>3. CASE Takes(c, r)
        <4>1. PICK D : D = Prepared(c, r)
          OBVIOUS
        <4>2. DOMAIN D = 1..Len(D)
          <5>1. IsSeq(data'[r])
            BY BeginKeepsQ DEF QInv, RInv, RankRight
          <5> QED
            BY <3>1, <3>3, <4>1, <5>1, SeqIs
        <4>3. ASSUME NEW e \in DOMAIN D PROVE Known(call', D[e])
          <5>1. Own(c, r, D[e])
            BY <3>1, <3>3, <4>1, <4>2, CallOwn
          <5> QED
            BY <3>1, <3>2, <5>1, KnownOwn
        <4> QED
          BY <2>2, <3>1, <3>3, <4>1, <4>3 DEF AllKnown
      <3>4. CASE ~ Takes(c, r)
        <4>1. DOMAIN data'[r] = {}
          BY <3>1, <3>4
        <4> QED
          BY <2>2, <4>1 DEF AllKnown
      <3> QED
        BY <3>3, <3>4
    <2> QED
      BY <2>1, <2>2
  <1>7. \A q \in Rank : \A b \in Slot : AllKnown(call', received'[q][b])
    BY <1>2, <1>4, <1>5, TagsAre, AllMore
  <1>8. \A s \in Socket : AllKnown(call', wire'[s])
    BY <1>2, <1>4, <1>5, TagsAre, AllMore
  <1> QED
    BY <1>6, <1>7, <1>8, TagsNext

LEMMA AwaitTags ==
  ASSUME QInv, Stored', Tags, NEW r \in Rank, NEW p \in DOMAIN part[r], Await(r, p)
  PROVE  Tags'
  <1>1. AwaitDone(r, p) /\ UNCHANGED <<call, received, plan, sends, recvs, wire>>
    BY AwaitIs
  <1>2. PICK mine, j, range, packet :
          /\ mine = plan[r][p] /\ j = Behind(part[r][p], mine) /\ range = mine.recvs[j]
          /\ packet = received[r][<<p, Place(j)>>]
    OBVIOUS
  <1>3. /\ p \in DOMAIN plan[r] /\ part[r][p].i \in 1..Len(mine.sends) /\ part[r][p].i > mine.lag
        /\ data'[r] = IF j <= mine.reduced THEN Reduced(r, p, j) ELSE data[r]
        /\ \A q \in Rank \ {r} : data'[q] = data[q]
    BY <1>1, <1>2 DEF AwaitDone
  <1>4. Stored
    BY DEF QInv
  <1>5. AllKnown(call', data'[r])
    <2>1. AllKnown(call, data[r])
      BY <1>4, TagsAre
    <2>2. CASE ~ (j <= mine.reduced)
      BY <1>1, <1>3, <2>1, <2>2
    <2>3. CASE j <= mine.reduced
      <3>1. ReducedAt(data'[r], data[r], range, packet)
        BY <1>2, <1>3, <2>3, ReducedAs
      <3>2. PICK i, lag : i = part[r][p].i /\ lag = mine.lag
        OBVIOUS
      <3>3. i \in Nat /\ lag \in {0, 1} /\ mine.reduced \in Nat /\ i > lag /\ PartFits(mine) /\ Whole(mine, Len(data[r]))
            /\ Len(mine.sends) \in Nat /\ i <= Len(mine.sends)
        BY <1>2, <1>3, <3>2, PartHas
      <3>4. j = i - lag
        BY <1>2, <3>2 DEF Behind
      <3>5. j \in Nat /\ j \in 1..mine.reduced /\ j \in 1..Len(mine.sends)
        BY <2>3, <3>3, <3>4
      <3>6. PICK first, last : first = range[1] /\ last = range[2]
        OBVIOUS
      <3>7. first \in Nat /\ last \in Nat
        BY <1>2, <3>3, <3>5, <3>6 DEF Whole, Within
      <3>8. last - first <= MaxBuffer
        BY <1>2, <3>3, <3>5, <3>6 DEF PartFits
      <3>9. <<p, Place(j)>> \in Slot
        <4>1. p \in 1..(2 * Links)
          BY <1>3, PartIs DEF Fits
        <4>2. Place(j) \in {0, 1}
          BY <3>5 DEF Place
        <4> QED
          BY <4>1, <4>2 DEF Slot
      <3>10. AllKnown(call, packet) /\ DOMAIN packet = 1..MaxBuffer
        BY <1>2, <1>4, <3>9, TagsAre, ReceivedOn
      <3>11. ASSUME NEW e \in (first + 1)..last PROVE Known(call, packet[e - first])
        <4>1. e - first \in 1..MaxBuffer
          BY <3>7, <3>8, RingPlanAssumption
        <4> QED
          BY <3>10, <4>1 DEF AllKnown
      <3>12. AllKnown(call, data'[r])
        BY <2>1, <3>1, <3>6, <3>11, AllReduced
      <3> QED
        BY <1>1, <3>12
    <2> QED
      BY <2>2, <2>3
  <1>6. \A q \in Rank : AllKnown(call', data'[q])
    BY <1>1, <1>3, <1>4, <1>5, TagsAre
  <1>7. (\A q \in Rank : \A b \in Slot : AllKnown(call', received'[q][b])) /\ \A s \in Socket : AllKnown(call', wire'[s])
    BY <1>1, <1>4, TagsAre
  <1> QED
    BY <1>6, <1>7, TagsNext

LEMMA SendTags ==
  ASSUME QInv, RankRights, Stored', Tags, NEW s \in Socket, Send(s)
  PROVE  Tags'
  <1>1. UNCHANGED <<call, data, received, plan, part, recvs>>
    BY SendDoes
  <1>2. PICK h, n : SendDone(s, h, n)
    BY SendDoes
  <1>3. PICK u : u = SubSeq(data[s[1]], h.lo + 1, h.lo + n)
    OBVIOUS
  <1>4. Stored /\ s[1] \in Rank /\ Peer(s) \in Socket
    BY SocketIs, PeerIs DEF QInv
  <1>5. IsSeq(u) /\ Len(u) = n /\ Taken(u, data[s[1]], n)
    <2>1. DataInv
      BY DEF RankRights, DataInv
    <2>2. SendDone(s, h, n) /\ Reads(s, h, n, u)
      BY <1>2, <1>3 DEF Reads
    <2> HIDE DEF DataInv
    <2> QED
      BY <2>1, <2>2, SendReads
  <1>6. \A m \in 1..n : Known(call, u[m])
    <2>1. AllKnown(call, data[s[1]])
      BY <1>4, TagsAre
    <2> QED
      BY <1>5, <2>1 DEF AllKnown, Taken
  <1>7. ASSUME NEW x \in Socket PROVE AllKnown(call', wire'[x])
    <2>1. AllKnown(call, wire[x]) /\ IsSeq(wire[x])
      BY <1>4, TagsAre DEF QInv, RInv
    <2>2. CASE x = Peer(s)
      <3>1. wire'[x] = wire[x] \o u
        BY <1>2, <1>3, <2>2 DEF SendDone
      <3>2. AllKnown(call, wire[x] \o u)
        BY <1>5, <1>6, <2>1, AllSent
      <3> QED
        BY <1>1, <3>1, <3>2
    <2>3. CASE x # Peer(s)
      BY <1>1, <1>2, <2>1, <2>3 DEF SendDone
    <2> QED
      BY <2>2, <2>3
  <1>8. /\ \A q \in Rank : AllKnown(call', data'[q])
        /\ \A q \in Rank : \A b \in Slot : AllKnown(call', received'[q][b])
    BY <1>1, <1>4, TagsAre
  <1> QED
    BY <1>7, <1>8, TagsNext

LEMMA RecvTags ==
  ASSUME QInv, Stored', Tags, NEW s \in Socket, Recv(s)
  PROVE  Tags'
  <1>1. UNCHANGED <<call, plan, part, sends>>
    BY RecvDoes
  <1>2. PICK h, n : RecvDone(s, h, n)
    BY RecvDoes
  <1>3. PICK r, lo, w, slot : r = s[1] /\ lo = h.lo /\ w = wire[s] /\ slot = <<h.part, h.place>>
    OBVIOUS
  <1>4. Stored /\ r \in Rank
    BY <1>3, SocketIs DEF QInv
  <1>5. IsSeq(w) /\ AllKnown(call, w) /\ n <= Len(w)
    BY <1>2, <1>3, <1>4, TagsAre DEF RecvDone, QInv, RInv
  <1>6. lo \in Int /\ n \in Nat
    <2>1. h \in Task /\ n \in 1..(h.hi - h.lo)
      BY <1>2 DEF RecvDone
    <2> QED
      BY <1>3, <2>1 DEF Task
  <1>7. ASSUME NEW buffer, AllKnown(call, buffer)
        PROVE  AllKnown(call, FilledWith(buffer, lo, n, w))
    BY <1>5, <1>6, <1>7, AllFilled
  <1>8. ASSUME NEW q \in Rank PROVE AllKnown(call', data'[q])
    <2>1. AllKnown(call, data[q])
      BY <1>4, TagsAre
    <2>2. data'[q] = data[q] \/ data'[q] = FilledWith(data[q], lo, n, w)
      BY <1>2, <1>3 DEF RecvDone
    <2>3. AllKnown(call, data'[q])
      BY <1>7, <2>1, <2>2
    <2> QED
      BY <1>1, <2>3
  <1>9. ASSUME NEW q \in Rank, NEW b \in Slot PROVE AllKnown(call', received'[q][b])
    <2>1. AllKnown(call, received[q][b])
      BY <1>4, TagsAre
    <2>2. received'[q][b] = received[q][b] \/ received'[q][b] = FilledWith(received[q][b], lo, n, w)
      BY <1>2, <1>3 DEF RecvDone
    <2>3. AllKnown(call, received'[q][b])
      BY <1>7, <2>1, <2>2
    <2> QED
      BY <1>1, <2>3
  <1>10. ASSUME NEW x \in Socket PROVE AllKnown(call', wire'[x])
    <2>1. AllKnown(call, wire[x])
      BY <1>4, TagsAre
    <2>2. wire'[x] = wire[x] \/ wire'[x] = SubSeq(w, n + 1, Len(w))
      BY <1>2, <1>3 DEF RecvDone
    <2>3. AllKnown(call, SubSeq(w, n + 1, Len(w)))
      BY <1>5, <1>6, AllLeft
    <2> QED
      BY <1>1, <2>1, <2>2, <2>3
  <1> QED
    BY <1>8, <1>9, <1>10, TagsNext

-----------------------------------------------------------------------------
(* The whole invariant.                                                      *)
IInv == QInv /\ Ways /\ RankRights /\ Tags

LEMMA IInit == Init => IInv
  BY QInit, WaysInit, RightsInit, TagsInit DEF IInv

LEMMA BeginInvariant ==
  ASSUME IInv, NEW r \in Rank, Begin(r)
  PROVE  IInv'
  <1>1. QInv /\ Ways /\ RankRights /\ Tags
    BY DEF IInv
  <1>2. QInv'
    BY <1>1, BeginKeepsQ
  <1>3. wire' = wire
    BY DEF Begin
  <1>4. Steady
    BY <1>1, BeginSteady
  <1>5. Ways'
    BY <1>1, <1>3, <1>4, SteadyWays
  <1>6. RankRights'
    BY <1>1, BeginRights
  <1>7. Stored'
    BY <1>2 DEF QInv
  <1>8. Tags'
    BY <1>1, <1>7, BeginTags
  <1> QED
    BY <1>2, <1>5, <1>6, <1>8 DEF IInv

LEMMA PostInvariant ==
  ASSUME IInv, NEW r \in Rank, NEW p \in DOMAIN part[r], Post(r, p)
  PROVE  IInv'
  <1>1. QInv /\ Ways /\ RankRights /\ Tags
    BY DEF IInv
  <1>2. QInv'
    BY <1>1, PostKeepsQ
  <1>3. UNCHANGED <<call, data, received, wire>>
    BY DEF Post
  <1>4. Steady
    BY <1>1, PostSteady
  <1>5. Ways'
    BY <1>1, <1>3, <1>4, SteadyWays
  <1>6. RankRights'
    BY <1>1, PostRights
  <1>7. Tags'
    BY <1>1, <1>3, TagsSame
  <1> QED
    BY <1>2, <1>5, <1>6, <1>7 DEF IInv

LEMMA AwaitInvariant ==
  ASSUME IInv, NEW r \in Rank, NEW p \in DOMAIN part[r], Await(r, p)
  PROVE  IInv'
  <1>1. QInv /\ Ways /\ RankRights /\ Tags
    BY DEF IInv
  <1>2. QInv'
    BY <1>1, AwaitKeepsQ
  <1>3. wire' = wire
    BY DEF Await
  <1>4. Steady
    BY <1>1, AwaitSteady
  <1>5. Ways'
    BY <1>1, <1>3, <1>4, SteadyWays
  <1>6. RankRights'
    BY <1>1, AwaitRights
  <1>7. Stored'
    BY <1>2 DEF QInv
  <1>8. Tags'
    BY <1>1, <1>7, AwaitTags
  <1> QED
    BY <1>2, <1>5, <1>6, <1>8 DEF IInv

LEMMA LastInvariant ==
  ASSUME IInv, NEW r \in Rank, NEW p \in DOMAIN part[r], Last(r, p)
  PROVE  IInv'
  <1>1. QInv /\ Ways /\ RankRights /\ Tags
    BY DEF IInv
  <1>2. QInv'
    BY <1>1, LastKeepsQ
  <1>3. UNCHANGED <<call, data, received, wire>>
    BY DEF Last
  <1>4. Steady
    BY <1>1, LastSteady
  <1>5. Ways'
    BY <1>1, <1>3, <1>4, SteadyWays
  <1>6. RankRights'
    BY <1>1, LastRights
  <1>7. Tags'
    BY <1>1, <1>3, TagsSame
  <1> QED
    BY <1>2, <1>5, <1>6, <1>7 DEF IInv

LEMMA SendInvariant ==
  ASSUME IInv, NEW s \in Socket, Send(s)
  PROVE  IInv'
  <1>1. QInv /\ Ways /\ RankRights /\ Tags
    BY DEF IInv
  <1>2. QInv'
    BY <1>1, SendKeepsQ
  <1>3. RankRights'
    BY <1>1, SendRights
  <1>4. Stored'
    BY <1>2 DEF QInv
  <1>5. Tags'
    BY <1>1, <1>4, SendTags
  <1>6. Ways'
    <2>1. UNCHANGED <<call, data, received, plan, part, recvs>> /\ \E h, n : SendDone(s, h, n)
      BY <1>1, SendDoes
    <2>2. PICK h, n : SendDone(s, h, n)
      BY <2>1
    <2>3. PICK u : u = SubSeq(data[s[1]], h.lo + 1, h.lo + n)
      OBVIOUS
    <2>4. PICK N : N = NextSent(s, h, n)
      OBVIOUS
    <2>5. DataInv
      BY <1>1 DEF RankRights, DataInv
    <2>6. Reads(s, h, n, u)
      BY <2>3 DEF Reads
    <2>7. IsSeq(u) /\ Len(u) = n /\ Carries(u, Value(s), NextSent(s, h, n), n)
      BY <1>1, <2>2, <2>5, <2>6, SendReads
    <2>8. Carries(u, Value(s), N, n)
      BY <2>4, <2>7
    <2>9. UNCHANGED <<call, plan, part, recvs>>
      BY <2>1
    <2> QED
      BY <1>1, <2>2, <2>3, <2>4, <2>7, <2>8, <2>9, SendWays
  <1> QED
    BY <1>2, <1>3, <1>5, <1>6 DEF IInv

LEMMA RecvInvariant ==
  ASSUME IInv, NEW s \in Socket, Recv(s)
  PROVE  IInv'
  <1>1. QInv /\ Ways /\ RankRights /\ Tags
    BY DEF IInv
  <1>2. QInv'
    BY <1>1, RecvKeepsQ
  <1>3. RankRights' /\ Ways'
    BY <1>1, RecvRights
  <1>4. Stored'
    BY <1>2 DEF QInv
  <1>5. Tags'
    BY <1>1, <1>4, RecvTags
  <1> QED
    BY <1>2, <1>3, <1>5 DEF IInv

LEMMA INext == IInv /\ [Next]_vars => IInv'
  <1> SUFFICES ASSUME IInv, [Next]_vars PROVE IInv'
    OBVIOUS
  <1>1. ASSUME NEW r \in Rank, Begin(r)
        PROVE  IInv'
    BY <1>1, BeginInvariant
  <1>2. ASSUME NEW r \in Rank, NEW p \in DOMAIN part[r], Post(r, p)
        PROVE  IInv'
    BY <1>2, PostInvariant
  <1>3. ASSUME NEW r \in Rank, NEW p \in DOMAIN part[r], Await(r, p)
        PROVE  IInv'
    BY <1>3, AwaitInvariant
  <1>4. ASSUME NEW r \in Rank, NEW p \in DOMAIN part[r], Last(r, p)
        PROVE  IInv'
    BY <1>4, LastInvariant
  <1>5. ASSUME NEW s \in Socket, Send(s)
        PROVE  IInv'
    BY <1>5, SendInvariant
  <1>6. ASSUME NEW s \in Socket, Recv(s)
        PROVE  IInv'
    BY <1>6, RecvInvariant
  <1>7. CASE UNCHANGED vars
    <2>1. UNCHANGED <<call, data, received, plan, part, sends, recvs, wire>>
      BY <1>7 DEF vars, threads
    <2>2. RInv'
      BY RNext DEF IInv, QInv
    <2>3. Stored' /\ (\A r \in Rank : Planned(r)') /\ \A s \in Socket : Queues(s)'
      BY <2>1 DEF IInv, QInv, Stored, Planned, Queues
    <2>4. Steady
      BY <2>1 DEF Steady, Sent, Arrived
    <2>5. Ways'
      BY <2>1, <2>4, SteadyWays DEF IInv
    <2>6. ASSUME NEW q \in Rank PROVE DataRight(q)' /\ BuffersRight(q)'
      <3>1. QInv /\ RankRights
        BY DEF IInv
      <3>2. \A x \in Socket : x[1] = q => Arrived(x)' = Arrived(x)
        BY <2>4 DEF Steady
      <3>3. /\ call'[q] = call[q] /\ plan'[q] = plan[q] /\ data'[q] = data[q] /\ received'[q] = received[q]
            /\ \A p \in DOMAIN plan[q] : part'[q][p].i = part[q][p].i
        BY <2>1
      <3> QED
        BY <3>1, <3>2, <3>3, RankSame
    <2>7. RankRights'
      BY <2>6 DEF RankRights
    <2>8. Tags'
      BY <2>1, TagsSame DEF IInv
    <2> QED
      BY <2>2, <2>3, <2>5, <2>7, <2>8 DEF IInv, QInv
  <1> QED
    BY <1>1, <1>2, <1>3, <1>4, <1>5, <1>6, <1>7 DEF Next

-----------------------------------------------------------------------------
(* What a call returns.                                                      *)
LEMMA EffectiveAll ==
  ASSUME QInv, NEW r \in Rank, Returned(r), NEW p \in DOMAIN plan[r], NEW e
  PROVE  Effective(r, p, e) = Covering(plan[r][p], e)
  <1>1. PICK mine, s : mine = plan[r][p] /\ s = RecvSocket(r, p)
    OBVIOUS
  <1>2. PICK i, L, lag : i = part[r][p].i /\ L = Len(mine.sends) /\ lag = mine.lag
    OBVIOUS
  <1>3. /\ L \in Nat /\ lag \in {0, 1} /\ mine.reduced \in Nat /\ Len(mine.recvs) = L
        /\ PartFits(mine)
    BY <1>1, <1>2, PartHas DEF Whole
  <1>4. i = L
    <2>1. p \in DOMAIN part[r]
      BY PartIs
    <2>2. part[r][p].phase = "done"
      BY <2>1 DEF Returned
    <2> QED
      BY <1>1, <1>2, <2>1, <2>2 DEF QInv, Planned
  <1>5. ASSUME NEW k \in Covering(mine, e)
        PROVE  k \in Effective(r, p, e)
    <2>1. k \in 1..Len(mine.recvs) /\ e \in Covers(mine.recvs[k])
      BY DEF Covering
    <2>2. k \in Nat /\ 1 <= k /\ k <= L
      BY <1>3, <2>1
    <2>3. CASE k <= mine.reduced
      <3>1. mine.reduced + lag < L
        <4>1. mine.reduced # 0
          BY <1>3, <2>2, <2>3
        <4> QED
          BY <1>2, <1>3, <4>1 DEF PartFits
      <3>2. k < i - lag
        BY <1>3, <1>4, <2>2, <2>3, <3>1
      <3> QED
        BY <1>1, <1>2, <2>3, <3>2, EffectiveIs
    <2>4. CASE ~ (k <= mine.reduced)
      <3>1. Posted(part[r][p], k)
        BY <1>1, <1>2, <2>2, ReturnedPosted
      <3>2. s \in Socket /\ s[1] = r
        BY <1>1, PartIs DEF RecvSocket
      <3>3. DOMAIN recvs[s] = {}
        BY <3>2, NoTasks DEF QInv
      <3>4. Ready(recvs[RecvSocket(r, p)], p, k)
        BY <1>1, <3>3 DEF Ready
      <3>5. ItemAt(r, p, k, e) \in Arrived(s)
        BY <1>1, <2>1, <3>1, <3>4, ArrivedBounds
      <3> QED
        BY <1>1, <2>4, <3>5, EffectiveIs
    <2> QED
      BY <2>3, <2>4
  <1>6. Effective(r, p, e) \subseteq Covering(mine, e)
    BY <1>1 DEF Effective
  <1> QED
    BY <1>1, <1>5, <1>6

Yielded(r) ==
  /\ call[r] \in 1..Len(Calls) /\ Takes(call[r], r)
  /\ Group!Returned(call[r], r) # <<>>
  /\ SubSeq(data[r], 1, ResultLength(call[r])) = Group!Returned(call[r], r)
  /\ \A e \in 1..ResultLength(call[r]) : e \in DOMAIN data[r] /\ data[r][e] = Group!Returned(call[r], r)[e]

LEMMA NoneEmpty ==
  ASSUME NEW f, DOMAIN f = {}, f = [x \in DOMAIN f |-> f[x]]
  PROVE  f = <<>>
  <1>1. f = [x \in 1..0 |-> f[x]]
    <2>1. 1..0 = {}
      OBVIOUS
    <2> QED
      BY <2>1
  <1>2. IsSeq(f) /\ Len(f) = 0
    BY <1>1, SeqMade
  <1>3. PICK W : f \in Seq(W)
    BY <1>2 DEF IsSeq
  <1> QED
    BY <1>2, <1>3, EmptySeq

LEMMA Entry ==
  ASSUME QInv, NEW r \in Rank, part[r] # <<>>
  PROVE  /\ DOMAIN plan[r] # {} /\ call[r] \in 1..Len(Calls) /\ Takes(call[r], r)
         /\ plan[r] = Parts(call[r], r) /\ Len(data[r]) = Len(Prepared(call[r], r))
  <1>1. part[r] = [x \in DOMAIN plan[r] |-> part[r][x]]
    BY DEF QInv, RInv, RankRight
  <1>2. DOMAIN plan[r] # {}
    BY <1>1, NoneEmpty
  <1>3. PICK p : p \in DOMAIN plan[r]
    BY <1>2
  <1> QED
    BY <1>2, <1>3, PartIs

LEMMA ResultIs ==
  ASSUME QInv, RankRights, NEW r \in Rank, Returned(r), part[r] # <<>>
  PROVE  Yielded(r)
  <1>1. PICK c, D, P : c = call[r] /\ D = data[r] /\ P = plan[r]
    OBVIOUS
  <1>2. /\ c \in 1..Len(Calls) /\ Takes(c, r)
        /\ P = Parts(c, r) /\ Len(D) = Len(Prepared(c, r))
    BY <1>1, Entry
  <1>3. Yields(c, r)
    BY <1>2, CallYields
  <1>4. PICK L, G : L = ResultLength(c) /\ G = Group!Returned(c, r)
    OBVIOUS
  <1>5. /\ L \in Nat \ {0} /\ L <= Len(D) /\ G = [e \in 1..L |-> G[e]]
        /\ \A e \in 1..L : \E p \in DOMAIN P :
             Concerns(P[p], e) /\ Held(c, r, P[p], Covering(P[p], e), e) = G[e]
    BY <1>2, <1>3, <1>4 DEF Yields
  <1>6. IsSeq(D)
    BY <1>1 DEF QInv, RInv, RankRight
  <1>7. Len(D) \in Nat /\ DOMAIN D = 1..Len(D)
    BY <1>6, SeqIs
  <1>8. ASSUME NEW e \in 1..L
        PROVE  D[e] = G[e]
    <2>1. PICK p \in DOMAIN P : Concerns(P[p], e) /\ Held(c, r, P[p], Covering(P[p], e), e) = G[e]
      BY <1>5
    <2>2. e \in 1..Len(D)
      BY <1>5, <1>7
    <2>3. D[e] = Held(c, r, P[p], Effective(r, p, e), e)
      BY <1>1, <2>1, <2>2 DEF RankRights, DataRight
    <2>4. Effective(r, p, e) = Covering(P[p], e)
      BY <1>1, EffectiveAll
    <2> QED
      BY <2>1, <2>3, <2>4
  <1>9. SubSeq(D, 1, L) = G
    <2>1. PICK W : D \in Seq(W)
      BY <1>6 DEF IsSeq
    <2>2. 1 \in 1..(Len(D) + 1) /\ L \in 0..Len(D) /\ 1 <= L + 1
      BY <1>5, <1>7
    <2>3. /\ SubSeq(D, 1, L) \in Seq(W) /\ Len(SubSeq(D, 1, L)) = L - 1 + 1
          /\ \A m \in 1..(L - 1 + 1) : SubSeq(D, 1, L)[m] = D[1 + m - 1]
      BY <2>1, <2>2, SubSeqProperties
    <2>4. PICK S : S = SubSeq(D, 1, L)
      OBVIOUS
    <2>5. L - 1 + 1 = L /\ \A m \in 1..L : 1 + m - 1 = m
      BY <1>5
    <2>6. S \in Seq(W) /\ Len(S) = L /\ \A m \in 1..L : S[m] = G[m]
      BY <1>8, <2>3, <2>4, <2>5
    <2>7. S = [m \in 1..L |-> S[m]]
      BY <2>6
    <2> QED
      BY <1>5, <2>4, <2>6, <2>7
  <1>10. G # <<>>
    <2>1. Len(G) = L
      BY <1>5, SeqMade
    <2>2. Len(<<>>) = 0
      OBVIOUS
    <2> QED
      BY <1>5, <2>1, <2>2
  <1> QED
    <2>1. \A e \in 1..L : e \in DOMAIN D /\ D[e] = G[e]
      BY <1>5, <1>7, <1>8
    <2> QED
      BY <1>1, <1>2, <1>4, <1>9, <1>10, <2>1 DEF Yielded

(* ... on no rank before the ranks that it needs have begun the call.        *)
LEMMA OthersIn ==
  ASSUME QInv, RankRights, Tags, NEW r \in Rank, Returned(r), part[r] # <<>>, NEW q \in Group!Needed(call[r], r)
  PROVE  call[q] >= call[r]
  <1>1. Yielded(r)
    BY ResultIs
  <1>2. PICK c, D, G : c = call[r] /\ D = data[r] /\ G = Group!Returned(c, r)
    OBVIOUS
  <1>3. c \in 1..Len(Calls) /\ Takes(c, r)
    BY <1>1, <1>2 DEF Yielded
  <1>4. Wants(c, r)
    BY <1>3, CallYields
  <1>5. PICK e \in 1..ResultLength(c) : \E x \in DOMAIN G[e] : x[1] = c /\ x[2] = q
    BY <1>2, <1>4 DEF Wants
  <1>6. e \in DOMAIN D /\ D[e] = G[e]
    BY <1>1, <1>2, <1>5 DEF Yielded
  <1>7. AllKnown(call, D)
    BY <1>2 DEF Tags
  <1>8. Known(call, D[e])
    BY <1>6, <1>7 DEF AllKnown
  <1>9. PICK x \in DOMAIN D[e] : x[1] = c /\ x[2] = q
    BY <1>5, <1>6
  <1>10. c <= call[q]
    BY <1>8, <1>9 DEF Known
  <1>11. call[q] \in Int /\ c \in Int
    <2>1. q \in Rank
      BY <1>8, <1>9 DEF Known
    <2> QED
      BY <1>3, <2>1 DEF QInv, RInv, Tables
  <1> QED
    BY <1>2, <1>10, <1>11

-----------------------------------------------------------------------------
(* Step by step the ring does what a group promises.                         *)
Over(Q) == \A p \in DOMAIN Q : Q[p].phase = "done"

Outcome(c, Q, D) ==
  IF Q = <<>> \/ ~ Over(Q) THEN <<>> ELSE SubSeq(D, 1, ResultLength(c))

Results == [r \in Rank |-> Outcome(call[r], part[r], data[r])]

(* C, Q and D are the calls, and the parts and the data of rank r.           *)
Kept(C, r, Q, D) ==
  Q # <<>> /\ Over(Q) =>
    /\ C[r] \in 1..Len(Calls) /\ Takes(C[r], r)
    /\ Group!Returned(C[r], r) # <<>>
    /\ Outcome(C[r], Q, D) = Group!Returned(C[r], r)
    /\ \A q \in Group!Needed(C[r], r) : C[q] >= C[r]

Keeps ==
  \A r \in Rank : \A C, Q, D : C = call /\ Q = part[r] /\ D = data[r] => Kept(C, r, Q, D)

LEMMA AllKeep == IInv => Keeps
  <1> SUFFICES ASSUME IInv, NEW r \in Rank, NEW C, NEW Q, NEW D, C = call, Q = part[r], D = data[r],
                      Q # <<>>, Over(Q)
               PROVE  Kept(C, r, Q, D)
    BY DEF Keeps, Kept
  <1>1. QInv /\ RankRights /\ Tags
    BY DEF IInv
  <1>2. Returned(r) /\ part[r] # <<>>
    BY DEF Returned, Over
  <1>3. Yielded(r)
    BY <1>1, <1>2, ResultIs
  <1>4. \A q \in Group!Needed(C[r], r) : C[q] >= C[r]
    BY <1>1, <1>2, OthersIn
  <1>5. Outcome(C[r], Q, D) = SubSeq(data[r], 1, ResultLength(call[r]))
    BY <1>2 DEF Outcome
  <1> QED
    BY <1>3, <1>4, <1>5 DEF Yielded, Kept

LEMMA GroupVars == Group!vars = <<call, Results>>
  BY DEF Group!vars, Results, Outcome, Over, Returned, ResultLength

LEMMA GroupInit == Init => Group!Init
  <1> SUFFICES ASSUME Init PROVE Group!Init
    OBVIOUS
  <1>1. \A r \in Rank : part[r] = <<>>
    BY DEF Init
  <1>2. call = [r \in Rank |-> 0]
    BY DEF Init
  <1> QED
    BY <1>1, <1>2 DEF Group!Init, Group!Rank, Rank

(* What is nowhere but at rank r not as it was.                              *)
LEMMA Elsewhere ==
  ASSUME NEW r \in Rank, \A q \in Rank \ {r} : call'[q] = call[q] /\ part'[q] = part[q] /\ data'[q] = data[q],
         NEW v, Outcome(call'[r], part'[r], data'[r]) = v
  PROVE  Results' = [Results EXCEPT ![r] = v]
  <1>1. Results' = [q \in Rank |-> Outcome(call'[q], part'[q], data'[q])]
    BY DEF Results
  <1>2. Results = [q \in Rank |-> Outcome(call[q], part[q], data[q])]
    BY DEF Results
  <1>3. ASSUME NEW q \in Rank
        PROVE  Outcome(call'[q], part'[q], data'[q]) = IF q = r THEN v ELSE Outcome(call[q], part[q], data[q])
    OBVIOUS
  <1> QED
    BY <1>1, <1>2, <1>3

LEMMA Stutters ==
  ASSUME call' = call, \A q \in Rank : Outcome(call'[q], part'[q], data'[q]) = Outcome(call[q], part[q], data[q])
  PROVE  UNCHANGED Group!vars
  <1>1. Results' = Results
    BY DEF Results
  <1>2. Group!vars' = <<call', Results'>>
    BY DEF Group!vars, Results, Outcome, Over, Returned, ResultLength
  <1> QED
    BY <1>1, <1>2, GroupVars

LEMMA GroupEnter ==
  ASSUME NEW r \in Rank, call[r] < Len(Calls),
         call[r] = 0 \/ Outcome(call[r], part[r], data[r]) # <<>> \/ ~ Takes(call[r], r),
         call' = [call EXCEPT ![r] = call[r] + 1],
         Results' = [Results EXCEPT ![r] = <<>>]
  PROVE  Group!Enter(r)
  <1>1. Results[r] = Outcome(call[r], part[r], data[r])
    BY DEF Results
  <1> QED
    BY <1>1 DEF Group!Enter, Group!Takes, Takes, Results, Outcome, Over, Returned, ResultLength

LEMMA GroupReturn ==
  ASSUME NEW r \in Rank, call[r] > 0, Outcome(call[r], part[r], data[r]) = <<>>, Takes(call[r], r),
         \A q \in Group!Needed(call[r], r) : call[q] >= call[r],
         Results' = [Results EXCEPT ![r] = Group!Returned(call[r], r)], call' = call
  PROVE  Group!Return(r)
  <1>1. Results[r] = Outcome(call[r], part[r], data[r])
    BY DEF Results
  <1> QED
    BY <1>1 DEF Group!Return, Group!Takes, Takes, Results, Outcome, Over, Returned, ResultLength

LEMMA OutcomeNone ==
  ASSUME NEW c, NEW Q, NEW D, Q = [p \in DOMAIN Q |-> Q[p]], \A p \in DOMAIN Q : Q[p].phase = "post"
  PROVE  Outcome(c, Q, D) = <<>>
  <1>1. CASE DOMAIN Q = {}
    BY <1>1, NoneEmpty DEF Outcome
  <1>2. CASE DOMAIN Q # {}
    BY <1>2 DEF Outcome, Over
  <1> QED
    BY <1>1, <1>2

LEMMA BeginEnters ==
  ASSUME IInv, NEW r \in Rank, Begin(r)
  PROVE  Group!Enter(r)
  <1>1. QInv /\ RankRights
    BY DEF IInv
  <1>2. PICK Q : Q = [p \in DOMAIN plan'[r] |-> [i |-> 1, phase |-> "post"]]
    OBVIOUS
  <1>3. /\ call[r] < Len(Calls) /\ Returned(r)
        /\ call' = [call EXCEPT ![r] = call[r] + 1]
        /\ part'[r] = Q
        /\ \A q \in Rank \ {r} : call'[q] = call[q] /\ part'[q] = part[q] /\ data'[q] = data[q]
    BY <1>1, <1>2 DEF Begin, QInv, RInv, Tables
  <1>4. Outcome(call'[r], part'[r], data'[r]) = <<>>
    BY <1>2, <1>3, OutcomeNone
  <1>5. Results' = [Results EXCEPT ![r] = <<>>]
    BY <1>3, <1>4, Elsewhere
  <1>6. call[r] = 0 \/ Outcome(call[r], part[r], data[r]) # <<>> \/ ~ Takes(call[r], r)
    <2>1. SUFFICES ASSUME call[r] # 0, Takes(call[r], r)
                   PROVE  Outcome(call[r], part[r], data[r]) # <<>>
      OBVIOUS
    <2>2. call[r] \in 1..Len(Calls)
      BY <1>1, <2>1 DEF QInv, RInv, Tables
    <2>3. plan[r] = Parts(call[r], r)
      BY <1>1, <2>2, PlanIs
    <2>4. DOMAIN plan[r] # {}
      BY <2>1, <2>2, <2>3, CallFits
    <2>5. DOMAIN part[r] = DOMAIN plan[r]
      BY <1>1 DEF QInv, RInv, RankRight
    <2>6. part[r] # <<>>
      BY <2>4, <2>5
    <2>7. Yielded(r)
      BY <1>1, <1>3, <2>6, ResultIs
    <2> QED
      BY <1>3, <2>6, <2>7 DEF Yielded, Outcome, Over, Returned
  <1> QED
    BY <1>3, <1>5, <1>6, GroupEnter

LEMMA OutcomeBefore ==
  ASSUME NEW c, NEW Q, NEW D, NEW p \in DOMAIN Q, Q[p].phase # "done"
  PROVE  Outcome(c, Q, D) = <<>>
  BY DEF Outcome, Over

LEMMA PostWaits ==
  ASSUME IInv, NEW r \in Rank, NEW p \in DOMAIN part[r], Post(r, p)
  PROVE  UNCHANGED Group!vars
  <1>1. QInv
    BY DEF IInv
  <1>2. PostDone(r, p) /\ UNCHANGED <<call, data>>
    BY <1>1, PostIs
  <1>3. p \in DOMAIN part'[r] /\ part'[r][p].phase # "done" /\ \A q \in Rank \ {r} : part'[q] = part[q]
    BY <1>1, <1>2 DEF PostDone, Goes, Post, QInv, RInv, Tables
  <1>4. part[r][p].phase # "done"
    BY DEF Post
  <1>5. ASSUME NEW q \in Rank
        PROVE  Outcome(call'[q], part'[q], data'[q]) = Outcome(call[q], part[q], data[q])
    <2>1. CASE q = r
      BY <1>3, <1>4, <2>1, OutcomeBefore
    <2>2. CASE q # r
      BY <1>2, <1>3, <2>2
    <2> QED
      BY <2>1, <2>2
  <1> QED
    BY <1>2, <1>5, Stutters

LEMMA AwaitWaits ==
  ASSUME IInv, NEW r \in Rank, NEW p \in DOMAIN part[r], Await(r, p)
  PROVE  UNCHANGED Group!vars
  <1>1. QInv
    BY DEF IInv
  <1>2. call' = call /\ \A q \in Rank \ {r} : part'[q] = part[q] /\ data'[q] = data[q]
    BY <1>1 DEF Await, QInv, RInv, Tables
  <1>3. p \in DOMAIN part'[r] /\ part'[r][p].phase # "done"
    BY <1>1 DEF Await, QInv, RInv, Tables
  <1>4. part[r][p].phase # "done"
    BY DEF Await
  <1>5. ASSUME NEW q \in Rank
        PROVE  Outcome(call'[q], part'[q], data'[q]) = Outcome(call[q], part[q], data[q])
    <2>1. CASE q = r
      BY <1>3, <1>4, <2>1, OutcomeBefore
    <2>2. CASE q # r
      BY <1>2, <2>2
    <2> QED
      BY <2>1, <2>2
  <1> QED
    BY <1>2, <1>5, Stutters

LEMMA LastReturns ==
  ASSUME IInv, Keeps', NEW r \in Rank, NEW p \in DOMAIN part[r], Last(r, p)
  PROVE  Group!Return(r) \/ UNCHANGED Group!vars
  <1>1. QInv
    BY DEF IInv
  <1>2. UNCHANGED <<call, data>> /\ \A q \in Rank \ {r} : part'[q] = part[q]
    BY <1>1 DEF Last, QInv, RInv, Tables
  <1>3. p \in DOMAIN part'[r]
    BY <1>1 DEF Last, QInv, RInv, Tables
  <1>4. Outcome(call[r], part[r], data[r]) = <<>>
    BY OutcomeBefore DEF Last
  <1>5. CASE ~ Over(part'[r])
    <2>1. Outcome(call'[r], part'[r], data'[r]) = <<>>
      BY <1>5 DEF Outcome
    <2>2. \A q \in Rank : Outcome(call'[q], part'[q], data'[q]) = Outcome(call[q], part[q], data[q])
      BY <1>2, <1>4, <2>1
    <2> QED
      BY <1>2, <2>2, Stutters
  <1>6. CASE Over(part'[r])
    <2>1. PICK C, Q, D : C = call' /\ Q = part'[r] /\ D = data'[r]
      OBVIOUS
    <2>2. Kept(C, r, Q, D)
      BY <2>1 DEF Keeps
    <2>3. Q # <<>>
      BY <1>3, <2>1
    <2>4. /\ C[r] \in 1..Len(Calls) /\ Takes(C[r], r)
          /\ Outcome(C[r], Q, D) = Group!Returned(C[r], r)
          /\ \A q \in Group!Needed(C[r], r) : C[q] >= C[r]
      BY <1>6, <2>1, <2>2, <2>3 DEF Kept
    <2>5. C = call
      BY <1>2, <2>1
    <2>6. Results' = [Results EXCEPT ![r] = Group!Returned(call[r], r)]
      BY <1>2, <2>1, <2>4, <2>5, Elsewhere
    <2>7. call[r] > 0
      BY <2>4, <2>5
    <2>8. Takes(call[r], r) /\ \A q \in Group!Needed(call[r], r) : call[q] >= call[r]
      BY <2>4, <2>5
    <2> QED
      BY <1>2, <1>4, <2>6, <2>7, <2>8, GroupReturn
  <1> QED
    BY <1>5, <1>6

LEMMA SendWaits ==
  ASSUME IInv, NEW s \in Socket, Send(s)
  PROVE  UNCHANGED Group!vars
  <1>1. UNCHANGED <<call, part, data>>
    BY DEF Send, threads
  <1> QED
    BY <1>1, Stutters

LEMMA RecvWaits ==
  ASSUME IInv, NEW s \in Socket, Recv(s)
  PROVE  UNCHANGED Group!vars
  <1>1. QInv
    BY DEF IInv
  <1>2. PICK h, n : RecvDone(s, h, n)
    BY <1>1, RecvDoes
  <1>3. UNCHANGED <<call, part>>
    BY DEF Recv
  <1>4. \A q \in Rank \ {s[1]} : data'[q] = data[q]
    BY <1>2 DEF RecvDone
  <1>5. s[1] \in Rank
    BY SocketIs
  <1>6. ~ Returned(s[1])
    <2>1. 1 \in DOMAIN recvs[s]
      BY <1>2 DEF RecvDone
    <2> QED
      BY <1>1, <2>1, NoTasks DEF QInv
  <1>7. ~ Over(part[s[1]])
    BY <1>6 DEF Over, Returned
  <1>8. ASSUME NEW q \in Rank
        PROVE  Outcome(call'[q], part'[q], data'[q]) = Outcome(call[q], part[q], data[q])
    <2>1. CASE q = s[1]
      BY <1>3, <1>7, <2>1 DEF Outcome
    <2>2. CASE q # s[1]
      BY <1>3, <1>4, <2>2
    <2> QED
      BY <2>1, <2>2
  <1> QED
    BY <1>3, <1>8, Stutters

LEMMA GroupStep == IInv /\ Keeps' /\ [Next]_vars => [Group!Next]_(Group!vars)
  <1> SUFFICES ASSUME IInv, Keeps', [Next]_vars PROVE Group!Next \/ UNCHANGED Group!vars
    OBVIOUS
  <1>1. ASSUME NEW r \in Rank, Begin(r)
        PROVE  Group!Next
    BY <1>1, BeginEnters DEF Group!Next, Group!Rank, Rank
  <1>2. ASSUME NEW r \in Rank, NEW p \in DOMAIN part[r], Post(r, p)
        PROVE  UNCHANGED Group!vars
    BY <1>2, PostWaits
  <1>3. ASSUME NEW r \in Rank, NEW p \in DOMAIN part[r], Await(r, p)
        PROVE  UNCHANGED Group!vars
    BY <1>3, AwaitWaits
  <1>4. ASSUME NEW r \in Rank, NEW p \in DOMAIN part[r], Last(r, p)
        PROVE  Group!Next \/ UNCHANGED Group!vars
    BY <1>4, LastReturns DEF Group!Next, Group!Rank, Rank
  <1>5. ASSUME NEW s \in Socket, Send(s)
        PROVE  UNCHANGED Group!vars
    BY <1>5, SendWaits
  <1>6. ASSUME NEW s \in Socket, Recv(s)
        PROVE  UNCHANGED Group!vars
    BY <1>6, RecvWaits
  <1>7. CASE UNCHANGED vars
    <2>1. UNCHANGED <<call, part, data>>
      BY <1>7 DEF vars, threads
    <2> QED
      BY <2>1, Stutters
  <1> QED
    BY <1>1, <1>2, <1>3, <1>4, <1>5, <1>6, <1>7 DEF Next

(* The ring keeps the promise of a group: what a call leaves in its output   *)
(* is what the call is defined to return, and no rank returns from an all    *)
(* reduce, an all gather or a receive before the ranks whose contribution it *)
(* needs have entered it (all_reduce_impl, all_gather_impl, send, recv).     *)
THEOREM RingCollective == Spec => CollectiveSpec
  <1>1. IInv => Keeps
    BY AllKeep
  <1>2. Init => Group!Init
    BY GroupInit
  <1>3. IInv /\ Keeps' /\ [Next]_vars => [Group!Next]_(Group!vars)
    BY GroupStep
  <1>4. Init => IInv
    BY IInit
  <1>5. IInv /\ [Next]_vars => IInv'
    BY INext
  <1> QED
    BY <1>1, <1>2, <1>3, <1>4, <1>5, PTL DEF Spec, CollectiveSpec, Group!Spec

===============================================================================
