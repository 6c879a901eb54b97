-------------------------- MODULE StreamThreadProofs --------------------------
(***************************************************************************)
(* Safety of StreamThread for every set of clients and tasks: its           *)
(* invariants, and the steps of the refinement of TaskQueue.                *)
(***************************************************************************)
EXTENDS StreamThread, SequenceTheorems, TLAPS

(* The worker holds a task exactly while it runs one.                        *)
Holding == worker = "running" <=> taken # <<>>

IInv == TypeOK /\ Holding /\ FIFO /\ DrainedBeforeReturn /\ NoLostWakeup

-----------------------------------------------------------------------------
(* Adding a task at the back of the queue adds it at the back of what was    *)
(* accepted.                                                                 *)
LEMMA AppendBack ==
  \A a, b, c \in Seq(Task), t \in Task :
    Append((a \o b) \o c, t) = (a \o b) \o Append(c, t)
  <1> TAKE a, b, c \in Seq(Task), t \in Task
  <1>1. a \o b \in Seq(Task)
    BY ConcatProperties
  <1>2. Append((a \o b) \o c, t) = ((a \o b) \o c) \o <<t>>
    BY <1>1, ConcatProperties, AppendIsConcat
  <1>3. Append(c, t) = c \o <<t>>
    BY AppendIsConcat
  <1>4. <<t>> \in Seq(Task)
    OBVIOUS
  <1>5. (a \o b) \o (c \o <<t>>) = ((a \o b) \o c) \o <<t>>
    BY <1>1, <1>4, ConcatAssociative
  <1> QED
    BY <1>2, <1>3, <1>5

(* Taking the front of the queue in hand, and putting what is in hand at the *)
(* end of what has run, both leave the concatenation as it is.               *)
LEMMA TakeFront ==
  ASSUME NEW S, NEW a \in Seq(S), NEW c \in Seq(S), c # <<>>
  PROVE  a \o <<>> \o c = a \o <<Head(c)>> \o Tail(c)
  <1>1. <<Head(c)>> \in Seq(S) /\ Tail(c) \in Seq(S) /\ c = <<Head(c)>> \o Tail(c)
    BY HeadTailProperties, ConcatProperties, Z3
  <1>2. (a \o <<Head(c)>>) \o Tail(c) = a \o (<<Head(c)>> \o Tail(c))
    BY <1>1, ConcatAssociative
  <1>3. a \o <<>> = a
    BY ConcatEmptySeq
  <1> QED
    BY <1>1, <1>2, <1>3

(* What the worker has in hand is nothing or one task.                       *)
LEMMA InHand ==
  ASSUME NEW S, NEW s \in Seq(S), Len(s) <= 1, s # <<>>
  PROVE  \E t \in S : s = <<t>>
  <1>1. Len(s) = 1
    <2>1. Len(s) \in Nat \ {0}
      BY EmptySeq
    <2> QED
      BY <2>1, SMTT(20)
  <1>2. s[1] \in S
    BY <1>1, ElementOfSeq
  <1>3. <<s[1]>> \in Seq(S) /\ Len(<<s[1]>>) = 1 /\ <<s[1]>>[1] = s[1]
    BY <1>2
  <1>4. s = <<s[1]>>
    BY <1>1, <1>3, SeqEqual
  <1> QED
    BY <1>2, <1>4

-----------------------------------------------------------------------------
LEMMA InitIInv == Init => IInv
  <1> SUFFICES ASSUME Init PROVE IInv
    OBVIOUS
  <1>1. TypeOK /\ Holding
    <2>1. <<>> \in Seq(Task) /\ Len(<<>>) = 0
      BY EmptySeq
    <2>2. Len(taken) <= 1
      BY <2>1 DEF Init
    <2>3. q \in Seq(Task) /\ taken \in Seq(Task) /\ accepted \in Seq(Task) /\ ran \in Seq(Task)
      BY <2>1, Zenon DEF Init
    <2> QED
      BY <2>2, <2>3 DEF Init, TypeOK, Holding
  <1>2. <<>> \o <<>> \o <<>> = <<>>
    BY ConcatEmptySeq, EmptySeq
  <1>3. FIFO
    BY <1>2 DEF Init, FIFO
  <1>4. DrainedBeforeReturn /\ NoLostWakeup
    BY DEF Init, DrainedBeforeReturn, NoLostWakeup
  <1> QED
    BY <1>1, <1>3, <1>4 DEF IInv

LEMMA NextTypeHolding ==
  ASSUME TypeOK, Holding, [Next]_vars
  PROVE  TypeOK' /\ Holding'
  <1> USE DEF TypeOK, Holding
  <1>1. ASSUME NEW c \in Client, NEW t \in Task, Enqueue(c, t)
        PROVE  TypeOK' /\ Holding'
    BY <1>1 DEF Enqueue
  <1>2. ASSUME NEW c \in Client, EnqueueNotify(c)
        PROVE  TypeOK' /\ Holding'
    BY <1>2 DEF EnqueueNotify, Notify
  <1>3. CASE Block
    BY <1>3 DEF Block
  <1>4. CASE Return
    BY <1>4 DEF Return
  <1>5. CASE Take
    <2>1. Head(q) \in Task /\ Tail(q) \in Seq(Task)
      BY <1>5, HeadTailProperties DEF Take
    <2> QED
      BY <2>1, <1>5 DEF Take
  <1>6. CASE RunTask
    <2>1. taken[1] \in Task
      BY <1>6 DEF RunTask
    <2> QED
      BY <2>1, <1>6 DEF RunTask
  <1>7. CASE SpuriousWakeup
    BY <1>7 DEF SpuriousWakeup
  <1>8. CASE DestroyStop
    BY <1>8 DEF DestroyStop
  <1>9. CASE DestroyNotify
    BY <1>9 DEF DestroyNotify, Notify
  <1>10. CASE DestroyJoin
    BY <1>10 DEF DestroyJoin
  <1>11. CASE UNCHANGED vars
    BY <1>11 DEF vars
  <1> QED
    BY <1>1, <1>2, <1>3, <1>4, <1>5, <1>6, <1>7, <1>8, <1>9, <1>10, <1>11
    DEF Next, Worker, Destroy

LEMMA NextFIFO ==
  ASSUME TypeOK, Holding, FIFO, [Next]_vars
  PROVE  FIFO'
  <1>0. taken \in Seq(Task)
    BY DEF TypeOK
  <1>1. ASSUME NEW c \in Client, NEW t \in Task, Enqueue(c, t)
        PROVE  FIFO'
    <2>1. t \in Task /\ q \in Seq(Task) /\ ran \in Seq(Task)
      BY <1>1 DEF TypeOK
    <2>3. Append((ran \o taken) \o q, t) = (ran \o taken) \o Append(q, t)
      BY <1>0, <2>1, AppendBack, ZenonT(30)
    <2> QED
      BY <2>3, <1>1, Zenon DEF Enqueue, FIFO
  <1>2. CASE Take
    <2>1. taken = <<>>
      BY <1>2 DEF Take, Holding
    <2> QED
      BY <2>1, <1>0, <1>2, TakeFront DEF Take, FIFO, TypeOK
  <1>3. CASE RunTask
    <2>1. PICK t \in Task : taken = <<t>>
      BY <1>3, InHand DEF RunTask, Holding, TypeOK
    <2>2. ran' = ran \o <<t>> /\ taken' = <<>>
      BY <2>1, <1>3, AppendIsConcat DEF RunTask, TypeOK
    <2>3. ran' \in Seq(Task)
      BY <2>2, NextTypeHolding DEF TypeOK
    <2>4. ran' \o taken' = ran \o taken
      BY <2>1, <2>2, <2>3, ConcatEmptySeq
    <2> QED
      BY <2>4, <1>3 DEF RunTask, FIFO
  <1>4. CASE UNCHANGED <<accepted, ran, taken, q>>
    BY <1>4 DEF FIFO
  <1> QED
    BY <1>1, <1>2, <1>3, <1>4
    DEF Next, Worker, Destroy, vars, EnqueueNotify, Block, Return,
        SpuriousWakeup, DestroyStop, DestroyNotify, DestroyJoin

LEMMA NextDrained ==
  ASSUME TypeOK, Holding, FIFO, DrainedBeforeReturn, [Next]_vars
  PROVE  DrainedBeforeReturn'
  <1> USE DEF DrainedBeforeReturn
  <1>1. CASE Return
    <2>1. taken = <<>> /\ q = <<>>
      BY <1>1 DEF Return, Holding
    <2>2. ran \o <<>> \o <<>> = ran
      BY ConcatEmptySeq DEF TypeOK
    <2> QED
      BY <2>1, <2>2, <1>1 DEF Return, FIFO
  <1>2. ASSUME NEW c \in Client, NEW t \in Task, Enqueue(c, t)
        PROVE  DrainedBeforeReturn'
    BY <1>2 DEF Enqueue
  <1>3. CASE DestroyStop
    BY <1>3 DEF DestroyStop
  <1>4. CASE Block \/ Take \/ RunTask \/ SpuriousWakeup
    BY <1>4 DEF Block, Take, RunTask, SpuriousWakeup
  <1>5. CASE DestroyNotify \/ DestroyJoin \/ (\E c \in Client : EnqueueNotify(c))
    BY <1>5 DEF DestroyNotify, DestroyJoin, EnqueueNotify, Notify
  <1>6. CASE UNCHANGED vars
    BY <1>6 DEF vars
  <1> QED
    BY <1>1, <1>2, <1>3, <1>4, <1>5, <1>6 DEF Next, Worker, Destroy

LEMMA NextWakeup ==
  ASSUME TypeOK, NoLostWakeup, [Next]_vars
  PROVE  NoLostWakeup'
  <1> USE DEF NoLostWakeup, TypeOK
  <1>1. ASSUME NEW c \in Client, NEW t \in Task, Enqueue(c, t)
        PROVE  NoLostWakeup'
    BY <1>1 DEF Enqueue
  <1>2. ASSUME NEW c \in Client, EnqueueNotify(c)
        PROVE  NoLostWakeup'
    BY <1>2 DEF EnqueueNotify, Notify
  <1>3. CASE Worker \/ SpuriousWakeup
    BY <1>3 DEF Worker, Block, Return, Take, RunTask, SpuriousWakeup
  <1>4. CASE DestroyStop
    BY <1>4 DEF DestroyStop
  <1>5. CASE DestroyNotify
    BY <1>5 DEF DestroyNotify, Notify
  <1>6. CASE DestroyJoin
    BY <1>6 DEF DestroyJoin
  <1>7. CASE UNCHANGED vars
    BY <1>7 DEF vars
  <1> QED
    BY <1>1, <1>2, <1>3, <1>4, <1>5, <1>6, <1>7 DEF Next, Destroy

(* The inductive invariant holds in every reachable state.                   *)
THEOREM Inductive == Spec => []IInv
  <1>1. IInv /\ [Next]_vars => IInv'
    BY NextTypeHolding, NextFIFO, NextDrained, NextWakeup DEF IInv
  <1> QED
    BY <1>1, InitIInv, PTL DEF Spec

(* Type correctness of the worker, its queue and its clients.                *)
THEOREM TypeCorrect == Spec => []TypeOK
  BY Inductive, PTL DEF IInv

(* No task accepted by StreamThread::enqueue is lost, repeated or reordered, *)
(* and the worker returns only after the last of them.                       *)
THEOREM Ordered == Spec => [](FIFO /\ DrainedBeforeReturn)
  BY Inductive, PTL DEF IInv

(* cond.notify_one outside the lock loses no wakeup that matters.            *)
THEOREM WakeupPending == Spec => []NoLostWakeup
  BY Inductive, PTL DEF IInv

-----------------------------------------------------------------------------
(* StreamThread starts as a TaskQueue, and each of its steps is a step of    *)
(* TaskQueue or leaves it as it is.                                          *)
THEOREM ImplementsTaskQueue ==
  Init /\ [][Next]_vars => Queue!Init /\ [][Queue!Next]_(Queue!vars)
  <1>1. Init => Queue!Init
    BY DEF Init, Queue!Init
  <1>2. IInv /\ [Next]_vars => [Queue!Next]_(Queue!vars)
    <2> SUFFICES ASSUME IInv, [Next]_vars
                 PROVE  Queue!Next \/ UNCHANGED Queue!vars
      OBVIOUS
    <2>1. ASSUME NEW c \in Client, NEW t \in Task, Enqueue(c, t)
          PROVE  Queue!Next
      BY <2>1 DEF Enqueue, Queue!Next, Queue!Accept
    <2>2. CASE RunTask
      <3>1. PICK t \in Task : taken = <<t>>
        BY <2>2, InHand DEF RunTask, IInv, Holding, TypeOK
      <3>2. Len(ran') = Len(ran) + 1
        BY <3>1, <2>2 DEF RunTask, IInv, TypeOK
      <3>3. accepted = (ran \o <<t>>) \o q
        BY <3>1 DEF IInv, FIFO
      <3>4. ran \o <<t>> \in Seq(Task) /\ Len(ran \o <<t>>) = Len(ran) + 1
        BY DEF IInv, TypeOK
      <3>5. Len(accepted) = Len(ran) + 1 + Len(q)
        BY <3>3, <3>4, ConcatProperties DEF IInv, TypeOK
      <3>6. Len(ran) < Len(accepted)
        BY <3>5 DEF IInv, TypeOK
      <3> QED
        BY <3>2, <3>6, <2>2 DEF RunTask, Queue!Next, Queue!Execute
    <2>3. CASE DestroyStop
      BY <2>3 DEF DestroyStop, Queue!Next, Queue!Close
    <2>4. CASE UNCHANGED <<accepted, ran, stop>>
      BY <2>4 DEF Queue!vars
    <2> QED
      BY <2>1, <2>2, <2>3, <2>4
      DEF Next, Worker, Destroy, vars, EnqueueNotify, Block, Return, Take,
          SpuriousWakeup, DestroyNotify, DestroyJoin
  <1>3. IInv /\ [Next]_vars => IInv'
    BY NextTypeHolding, NextFIFO, NextDrained, NextWakeup DEF IInv
  <1> QED
    BY <1>1, <1>2, <1>3, InitIInv, PTL

=============================================================================
