--------------------------- MODULE SchedulerProofs ---------------------------
(***************************************************************************)
(* Safety of the scheduler for every set of clients and streams and every    *)
(* bound on their operations: its types, the order of a stream, the count of *)
(* active tasks, and what synchronize has waited for when it returns.        *)
(***************************************************************************)
EXTENDS Scheduler, SequenceTheorems, FiniteSetTheorems, FunctionTheorems, TLAPS

Unpushed == {"notify", "find", "create", "push"}   \* where a client has a task in hand

(* A stream has one thread; those that lost the race to be it do nothing.    *)
OneThread ==
  \A s \in Stream : thread[s] # None => thread[s] \in Thread /\ thread[s][1] = s
Unused ==
  \A h \in Thread :
    thread[h[1]] # h => queue[h] = <<>> /\ taken[h] = <<>> /\ worker[h] = "idle"

(* A worker has one task in hand until it has run it or, when it is counted, *)
(* until it has said so.                                                     *)
WorkerHolds ==
  \A h \in Thread :
    /\ Len(taken[h]) <= 1
    /\ taken[h] # <<>> <=> worker[h] \in {"run", "complete"}
    /\ worker[h] = "complete" => taken[h][1].kind = "counted"

(* What a client in an operation knows of it.                                *)
Operating ==
  \A c \in Client :
    /\ pc[c] \in Unpushed \cup {"wait"} =>
         task[c] \in Task /\ to[c] \in Stream /\ task[c].by = c /\ task[c].nr = nops[c]
    /\ pc[c] = "push" => thread[to[c]] # None /\ handle[c] = thread[to[c]]

Threads == TypeOK /\ OneThread /\ Unused /\ WorkerHolds /\ Operating

(* What a stream was given is what has run, what its worker is about to run  *)
(* and what waits, in this order.                                            *)
Running(h) == IF worker[h] = "run" THEN taken[h] ELSE <<>>
OneQueue ==
  \A s \in Stream :
    /\ thread[s] = None => pushed[s] = <<>> /\ ran[s] = <<>>
    /\ thread[s] # None =>
         pushed[s] = (ran[s] \o Running(thread[s])) \o queue[thread[s]]

(* The tasks of a client bear the numbers of its operations, in order.       *)
Known ==
  \A s \in Stream : \A i \in 1..Len(pushed[s]) :
    /\ pushed[s][i].nr <= nops[pushed[s][i].by]
    /\ pc[pushed[s][i].by] \in Unpushed => pushed[s][i].nr < nops[pushed[s][i].by]
Ascending ==
  \A s \in Stream : \A i, j \in 1..Len(pushed[s]) :
    pushed[s][i].by = pushed[s][j].by /\ i < j => pushed[s][i].nr < pushed[s][j].nr
Distinct ==
  \A s1, s2 \in Stream : \A i \in 1..Len(pushed[s1]), j \in 1..Len(pushed[s2]) :
    pushed[s1][i] = pushed[s2][j] => s1 = s2
Awaited ==
  \A c \in Client :
    pc[c] = "wait" => \E i \in 1..Len(pushed[to[c]]) : pushed[to[c]][i] = task[c]
Numbered == Known /\ Ascending /\ Distinct /\ Awaited

(* A promise is set by running it.                                           *)
KeptRan == \A t \in kept : \E s \in Stream : \E i \in 1..Len(ran[s]) : ran[s][i] = t

(* The counted tasks in the queues; they, those in clients' hands and those  *)
(* in workers' hands are finitely many.                                      *)
Queued == UNION {{h} \X Waiting(h) : h \in Thread}
Counted == IsFiniteSet(Entering) /\ IsFiniteSet(Held) /\ IsFiniteSet(Queued) /\ ActiveCount

IInv == Threads /\ OneQueue /\ Numbered /\ KeptRan /\ Counted

-----------------------------------------------------------------------------
(* A thread is a pair, unlike None.                                          *)
LEMMA ThreadIsNotNone ==
  \A h \in Thread : h # None /\ h[1] \in Stream /\ h[2] \in Client /\ h = <<h[1], h[2]>>
  <1> TAKE h \in Thread
  <1>1. h[1] \in Stream /\ h[2] \in Client /\ h = <<h[1], h[2]>>
    BY DEF Thread
  <1>2. <<h[1], h[2]>> # <<>>
    OBVIOUS
  <1> QED
    BY <1>1, <1>2 DEF None

LEMMA HeadOfOne ==
  ASSUME NEW S, NEW s \in Seq(S), Len(s) <= 1, s # <<>>
  PROVE  s[1] \in S /\ s = <<s[1]>>
  <1>1. Len(s) = 1
    <2>1. Len(s) \in Nat \ {0}
      BY EmptySeq
    <2> QED
      BY <2>1, SMTT(20)
  <1>2. s[1] \in S
    BY <1>1, ElementOfSeq
  <1>3. <<s[1]>> \in Seq(S) /\ Len(<<s[1]>>) = 1 /\ <<s[1]>>[1] = s[1]
    BY <1>2
  <1>4. s = <<s[1]>>
    BY <1>1, <1>3, SeqEqual
  <1> QED
    BY <1>2, <1>4

LEMMA InitThreads == Init => Threads
  <1> SUFFICES ASSUME Init PROVE Threads
    OBVIOUS
  <1>1. <<>> \in Seq(Task) /\ Len(<<>>) = 0
    BY EmptySeq
  <1>2. TypeOK
    BY <1>1 DEF Init, TypeOK
  <1>3. OneThread /\ Unused /\ WorkerHolds /\ Operating
    BY <1>1 DEF Init, OneThread, Unused, WorkerHolds, Operating, Unpushed
  <1> QED
    BY <1>2, <1>3 DEF Threads

(* The steps that concern threads, tasks and program counters.               *)
LEMMA ClientThreads ==
  ASSUME Threads, nActive' \in Nat, NEW c \in Client,
         \/ \E s \in Stream, kind \in Kind : Begin(c, s, kind)
         \/ WaitForOne(c) \/ SpuriousWakeup(c) \/ Operate(c)
  PROVE  Threads'
  <1> USE DEF Threads, TypeOK, OneThread, Unused, WorkerHolds, Operating, Unpushed
  <1>1. ASSUME NEW s \in Stream, NEW kind \in Kind, Begin(c, s, kind)
        PROVE  Threads'
    <2>1. [by |-> c, nr |-> nops[c] + 1, kind |-> kind] \in Task
      BY DEF Task
    <2> QED
      BY <1>1, <2>1 DEF Begin, Goto, workers, history
  <1>2. CASE WaitForOne(c)
    BY <1>2 DEF WaitForOne, Goto, workers, history
  <1>3. CASE SpuriousWakeup(c)
    BY <1>3 DEF SpuriousWakeup, Goto, workers, history
  <1>4. CASE NotifyNewTask(c)
    BY <1>4 DEF NotifyNewTask, NotifyAll, Woken, workers, history
  <1>5. CASE Find(c)
    BY <1>5 DEF Find, Goto, workers, history
  <1>6. CASE Create(c)
    <2> DEFINE h0 == IF thread[to[c]] = None THEN <<to[c], c>> ELSE thread[to[c]]
    <2>0. to[c] \in Stream
      BY <1>6 DEF Create
    <2>1. h0 \in Thread /\ h0 # None /\ h0[1] = to[c]
      <3>1. <<to[c], c>> \in Thread /\ <<to[c], c>>[1] = to[c]
        BY <2>0 DEF Thread
      <3> QED
        BY <2>0, <3>1, ThreadIsNotNone
    <2>2. thread' = [thread EXCEPT ![to[c]] = h0]
      BY <1>6 DEF Create
    <2>3. handle' = [handle EXCEPT ![c] = h0]
      BY <1>6, <2>0, <2>2 DEF Create
    <2> HIDE DEF h0
    <2>4. TypeOK' /\ OneThread'
      <3>1. TypeOK'
        <4>1. thread' \in [Stream -> Thread \cup {None}] /\ handle' \in [Client -> Thread \cup {None}]
          BY <2>1, <2>2, <2>3
        <4> QED
          BY <1>6, <4>1 DEF Create, Goto, workers, history
      <3>2. OneThread'
        BY <2>0, <2>1, <2>2
      <3> QED
        BY <3>1, <3>2
    <2>5. Operating'
      <3> SUFFICES ASSUME NEW x \in Client
                   PROVE  Operating!(x)'
        OBVIOUS
      <3>1. CASE x = c
        <4>1. pc[c] = "create" /\ pc'[c] = "push" /\ UNCHANGED <<task, to, nops>>
          BY <1>6 DEF Create, Goto
        <4>2. handle'[c] = h0 /\ thread'[to[c]] = h0
          BY <2>0, <2>2, <2>3
        <4> QED
          BY <3>1, <4>1, <4>2, <2>0, <2>1
      <3>2. CASE x # c
        <4>1. pc'[x] = pc[x] /\ handle'[x] = handle[x] /\ UNCHANGED <<task, to, nops>>
          BY <1>6, <2>3, <3>2 DEF Create, Goto
        <4>2. ASSUME pc[x] = "push" PROVE thread'[to[x]] = thread[to[x]]
          <5>1. to[x] \in Stream /\ thread[to[x]] # None
            BY <4>2
          <5>2. to[x] = to[c] => h0 = thread[to[x]]
            BY <5>1 DEF h0
          <5> QED
            BY <5>1, <5>2, <2>2
        <4> QED
          BY <4>1, <4>2
      <3> QED
        BY <3>1, <3>2
    <2>7. Unused'
      <3> SUFFICES ASSUME NEW h \in Thread, thread'[h[1]] # h
                   PROVE  thread[h[1]] # h
        BY <1>6 DEF Create, workers
      <3> QED
        BY <2>0, <2>2, ThreadIsNotNone DEF h0
    <2>6. WorkerHolds'
      BY <1>6 DEF Create, workers
    <2> QED
      BY <2>4, <2>5, <2>6, <2>7
  <1>7. CASE Push(c)
    BY <1>7, SMTT(20) DEF Push, Goto, workers
  <1>8. CASE SyncReturn(c)
    BY <1>8 DEF SyncReturn, Goto, workers, history
  <1>9. CASE LookAgain(c)
    BY <1>9 DEF LookAgain, Goto, workers, history
  <1> QED
    BY <1>1, <1>2, <1>3, <1>4, <1>5, <1>6, <1>7, <1>8, <1>9 DEF Operate

LEMMA WorkerThreads ==
  ASSUME Threads, nActive' \in Nat, NEW h \in Thread, Work(h)
  PROVE  Threads'
  <1> USE DEF Threads, TypeOK, OneThread, Unused, WorkerHolds, Operating, Unpushed
  <1>1. CASE TakeTask(h)
    <2>1. Head(queue[h]) \in Task /\ Tail(queue[h]) \in Seq(Task)
      BY <1>1, HeadTailProperties DEF TakeTask
    <2> QED
      BY <2>1, <1>1 DEF TakeTask, clients, history
  <1>2. CASE RunTask(h)
    <2>1. taken[h] \in Seq(Task) /\ taken[h] # <<>> /\ taken[h][1] \in Task
      BY <1>2, HeadOfOne DEF RunTask
    <2> QED
      BY <2>1, <1>2, ThreadIsNotNone DEF RunTask, clients
  <1>3. CASE CompleteTask(h)
    BY <1>3 DEF CompleteTask, clients, history
  <1>4. CASE NotifyCompletion(h)
    BY <1>4 DEF NotifyCompletion, Woken, history
  <1> QED
    BY <1>1, <1>2, <1>3, <1>4 DEF Work

LEMMA NextThreads ==
  ASSUME Threads, nActive' \in Nat, [Next]_vars
  PROVE  Threads'
  <1>1. CASE UNCHANGED vars
    BY <1>1 DEF Threads, TypeOK, OneThread, Unused, WorkerHolds, Operating,
                vars, workers, clients, history
  <1> QED
    BY <1>1, ClientThreads, WorkerThreads DEF Next

-----------------------------------------------------------------------------
LEMMA AppendBack ==
  \A a, b, q \in Seq(Task), t \in Task :
    Append((a \o b) \o q, t) = (a \o b) \o Append(q, t)
  <1> TAKE a, b, q \in Seq(Task), t \in Task
  <1>1. a \o b \in Seq(Task) /\ (a \o b) \o q \in Seq(Task)
    BY ConcatProperties
  <1>2. Append((a \o b) \o q, t) = ((a \o b) \o q) \o <<t>> /\ Append(q, t) = q \o <<t>>
    BY <1>1, AppendIsConcat
  <1>3. <<t>> \in Seq(Task)
    OBVIOUS
  <1> QED
    BY <1>1, <1>2, <1>3, ConcatAssociative, SMTT(20)

LEMMA TakeFront ==
  ASSUME NEW S, NEW a \in Seq(S), NEW c \in Seq(S), c # <<>>
  PROVE  (a \o <<>>) \o c = (a \o <<Head(c)>>) \o Tail(c)
  <1>1. <<Head(c)>> \in Seq(S) /\ Tail(c) \in Seq(S) /\ c = <<Head(c)>> \o Tail(c)
    BY HeadTailProperties, ConcatProperties, Z3
  <1>2. (a \o <<Head(c)>>) \o Tail(c) = a \o (<<Head(c)>> \o Tail(c))
    BY <1>1, ConcatAssociative
  <1>3. a \o <<>> = a
    BY ConcatEmptySeq
  <1> QED
    BY <1>1, <1>2, <1>3

(* The client that creates the thread of a stream finds it unused.           *)
LEMMA CreateOneQueue ==
  ASSUME Threads, OneQueue, NEW c \in Client, Create(c)
  PROVE  OneQueue'
  <1>1. to[c] \in Stream
    BY DEF Threads, Operating, Unpushed, Create
  <1> SUFFICES ASSUME NEW s \in Stream
               PROVE  OneQueue!(s)'
    BY DEF OneQueue
  <1>2. UNCHANGED <<queue, worker, taken, pushed, ran>>
    BY DEF Create, workers, history
  <1>3. CASE thread'[s] = thread[s]
    BY <1>2, <1>3 DEF OneQueue, Running
  <1>4. CASE thread'[s] # thread[s]
    <2>1. s = to[c] /\ thread[s] = None /\ thread'[s] = <<s, c>>
      BY <1>1, <1>4 DEF Create, Threads, TypeOK
    <2>2. <<s, c>> \in Thread /\ <<s, c>>[1] = s
      BY DEF Thread
    <2>3. queue[<<s, c>>] = <<>> /\ worker[<<s, c>>] = "idle" /\ <<s, c>> # None
      BY <2>1, <2>2, ThreadIsNotNone DEF Threads, Unused
    <2>4. pushed[s] = <<>> /\ ran[s] = <<>>
      BY <2>1 DEF OneQueue
    <2>5. <<>> \o <<>> = <<>>
      BY EmptySeq, ConcatEmptySeq
    <2> QED
      BY <1>2, <2>1, <2>3, <2>4, <2>5 DEF Running
  <1> QED
    BY <1>3, <1>4

LEMMA PushOneQueue ==
  ASSUME Threads, OneQueue, NEW c \in Client, Push(c)
  PROVE  OneQueue'
  <1> DEFINE h == thread[to[c]]
  <1>1. to[c] \in Stream /\ task[c] \in Task /\ h # None /\ handle[c] = h
    BY DEF Threads, Operating, Unpushed, Push
  <1>2. h \in Thread /\ h[1] = to[c]
    BY <1>1 DEF Threads, OneThread
  <1>3. queue' = [queue EXCEPT ![h] = Append(@, task[c])] /\ UNCHANGED <<thread, worker, taken, ran>>
        /\ pushed' = [pushed EXCEPT ![to[c]] = Append(@, task[c])]
    BY <1>1 DEF Push, workers
  <1>4. queue \in [Thread -> Seq(Task)] /\ pushed \in [Stream -> Seq(Task)]
        /\ ran[to[c]] \in Seq(Task) /\ Running(h) \in Seq(Task)
    BY <1>1, <1>2, EmptySeq DEF Threads, TypeOK, Running
  <1>5. \A x \in Thread : Running(x)' = Running(x)
    BY <1>3 DEF Running
  <1> SUFFICES ASSUME NEW s \in Stream
               PROVE  OneQueue!(s)'
    BY DEF OneQueue
  <1>6. CASE s = to[c]
    <2>1. pushed'[s] = Append((ran[s] \o Running(h)) \o queue[h], task[c])
      BY <1>1, <1>3, <1>4, <1>6 DEF OneQueue
    <2>2. Append((ran[s] \o Running(h)) \o queue[h], task[c])
            = (ran[s] \o Running(h)) \o Append(queue[h], task[c])
      <3>1. ran[s] \in Seq(Task) /\ queue[h] \in Seq(Task)
        BY <1>2, <1>4, <1>6
      <3> QED
        BY <1>1, <1>4, <3>1, AppendBack, ZenonT(30)
    <2>3. queue'[h] = Append(queue[h], task[c])
      BY <1>2, <1>3, <1>4
    <2> QED
      BY <1>1, <1>2, <1>3, <1>5, <1>6, <2>1, <2>2, <2>3
  <1>7. CASE s # to[c]
    <2>1. pushed'[s] = pushed[s]
      BY <1>3, <1>4, <1>7
    <2>2. thread[s] # None => thread[s] \in Thread /\ thread[s] # h
      BY <1>2, <1>7 DEF Threads, OneThread
    <2>3. thread[s] # None => queue'[thread[s]] = queue[thread[s]]
                              /\ Running(thread[s])' = Running(thread[s])
      BY <1>3, <1>4, <1>5, <2>2
    <2> QED
      BY <1>3, <2>1, <2>3 DEF OneQueue
  <1> QED
    BY <1>6, <1>7

(* A worker takes the front of the queue in hand.                            *)
LEMMA TakeOneQueue ==
  ASSUME Threads, OneQueue, NEW h \in Thread, TakeTask(h)
  PROVE  OneQueue'
  <1>1. thread[h[1]] = h /\ h # None /\ h[1] \in Stream
    BY ThreadIsNotNone DEF Threads, Unused, TakeTask
  <1>2. queue[h] \in Seq(Task) /\ queue[h] # <<>> /\ ran[h[1]] \in Seq(Task)
    BY <1>1 DEF Threads, TypeOK, TakeTask
  <1>3. Running(h) = <<>> /\ Running(h)' = <<Head(queue[h])>> /\ queue'[h] = Tail(queue[h])
    BY DEF Threads, TypeOK, TakeTask, Running
  <1>4. UNCHANGED <<thread, pushed, ran>>
    BY DEF TakeTask, history
  <1>5. \A x \in Thread : x # h => Running(x)' = Running(x) /\ queue'[x] = queue[x]
    BY DEF Threads, TypeOK, TakeTask, Running
  <1> SUFFICES ASSUME NEW s \in Stream
               PROVE  OneQueue!(s)'
    BY DEF OneQueue
  <1>6. CASE thread[s] = h
    <2>1. s = h[1]
      BY <1>1, <1>6 DEF Threads, OneThread
    <2>2. pushed[s] = (ran[s] \o <<>>) \o queue[h]
      BY <1>1, <1>3, <2>1 DEF OneQueue
    <2>3. @ = (ran[s] \o <<Head(queue[h])>>) \o Tail(queue[h])
      BY <1>2, <2>1, TakeFront
    <2> QED
      BY <1>1, <1>3, <1>4, <2>1, <2>2, <2>3
  <1>7. CASE thread[s] # h
    <2>1. thread[s] # None => thread[s] \in Thread
      BY DEF Threads, OneThread
    <2> QED
      BY <1>4, <1>5, <1>7, <2>1 DEF OneQueue
  <1> QED
    BY <1>6, <1>7

LEMMA RunOneQueue ==
  ASSUME Threads, OneQueue, NEW h \in Thread, RunTask(h)
  PROVE  OneQueue'
  <1>1. taken[h] \in Seq(Task) /\ taken[h] # <<>> /\ Len(taken[h]) <= 1
    BY DEF Threads, TypeOK, WorkerHolds, RunTask
  <1>2. taken[h][1] \in Task /\ taken[h] = <<taken[h][1]>>
    BY <1>1, HeadOfOne
  <1>3. thread[h[1]] = h /\ h # None /\ h[1] \in Stream
    BY <1>1, ThreadIsNotNone DEF Threads, Unused
  <1>4. Running(h) = taken[h] /\ Running(h)' = <<>>
    BY DEF Threads, TypeOK, RunTask, Running
  <1>5. UNCHANGED <<thread, queue, pushed>>
    BY DEF RunTask
  <1>6. \A x \in Thread : x # h => Running(x)' = Running(x)
    BY DEF Threads, TypeOK, RunTask, Running
  <1>7. \A s \in Stream : s # h[1] => ran'[s] = ran[s]
    BY DEF Threads, TypeOK, RunTask
  <1>8. ran'[h[1]] = ran[h[1]] \o taken[h] /\ ran'[h[1]] \in Seq(Task)
    <2>1. ran[h[1]] \in Seq(Task) /\ ran'[h[1]] = Append(ran[h[1]], taken[h][1])
      BY <1>3 DEF Threads, TypeOK, RunTask
    <2>2. Append(ran[h[1]], taken[h][1]) = ran[h[1]] \o <<taken[h][1]>>
      BY <1>2, <2>1, AppendIsConcat
    <2>3. Append(ran[h[1]], taken[h][1]) \in Seq(Task)
      BY <1>2, <2>1, AppendProperties
    <2> QED
      BY <1>2, <2>1, <2>2, <2>3
  <1> SUFFICES ASSUME NEW s \in Stream
               PROVE  OneQueue!(s)'
    BY DEF OneQueue
  <1>9. CASE thread[s] = h
    <2>1. s = h[1]
      BY <1>3, <1>9 DEF Threads, OneThread
    <2>2. ran'[s] \o <<>> = ran'[s]
      BY <1>8, <2>1, ConcatEmptySeq
    <2>3. pushed[s] = (ran[s] \o taken[h]) \o queue[h]
      BY <1>3, <1>4, <2>1 DEF OneQueue
    <2>4. pushed'[s] = (ran'[s] \o Running(h)') \o queue'[h]
      BY <1>4, <1>5, <1>8, <2>1, <2>2, <2>3
    <2> QED
      BY <1>3, <1>5, <2>1, <2>4
  <1>10. CASE thread[s] # h
    <2>1. thread[s] # None => thread[s] \in Thread
      BY DEF Threads, OneThread
    <2>2. s # h[1]
      BY <1>3, <1>10
    <2> QED
      BY <1>5, <1>6, <1>7, <1>10, <2>1, <2>2 DEF OneQueue
  <1> QED
    BY <1>9, <1>10

LEMMA NextOneQueue ==
  ASSUME Threads, OneQueue, [Next]_vars
  PROVE  OneQueue'
  <1>1. ASSUME UNCHANGED <<thread, queue, worker, taken, pushed, ran>>
        PROVE  OneQueue'
    BY <1>1 DEF OneQueue, Running
  <1>2. ASSUME NEW c \in Client, NEW s \in Stream, NEW kind \in Kind, Begin(c, s, kind)
        PROVE  OneQueue'
    BY <1>1, <1>2 DEF Begin, workers, history
  <1>3. ASSUME NEW c \in Client, WaitForOne(c) \/ SpuriousWakeup(c) \/ Operate(c)
        PROVE  OneQueue'
    BY <1>1, <1>3, CreateOneQueue, PushOneQueue
    DEF Operate, WaitForOne, SpuriousWakeup, NotifyNewTask, Find, SyncReturn, LookAgain,
        workers, history
  <1>4. ASSUME NEW h \in Thread, CompleteTask(h) \/ NotifyCompletion(h)
        PROVE  OneQueue'
    <2>1. UNCHANGED <<thread, queue, pushed, ran>>
      BY <1>4 DEF CompleteTask, NotifyCompletion, history
    <2>2. \A x \in Thread : Running(x)' = Running(x)
      BY <1>4 DEF CompleteTask, NotifyCompletion, Running, Threads, TypeOK
    <2>3. \A s \in Stream : thread[s] # None => thread[s] \in Thread
      BY DEF Threads, OneThread
    <2> QED
      BY <2>1, <2>2, <2>3 DEF OneQueue
  <1>5. CASE UNCHANGED vars
    BY <1>1, <1>5 DEF vars, workers, history
  <1> QED
    BY <1>2, <1>3, <1>4, <1>5, TakeOneQueue, RunOneQueue DEF Next, Work

(* One queue per stream makes what has run a prefix of what was enqueued.    *)
LEMMA OneQueueStreamOrder ==
  ASSUME Threads, OneQueue
  PROVE  StreamOrder
  <1> SUFFICES ASSUME NEW s \in Stream
               PROVE  StreamOrder!(s)
    BY DEF StreamOrder
  <1>1. ran[s] \in Seq(Task) /\ pushed[s] \in Seq(Task)
    BY DEF Threads, TypeOK
  <1>2. \E rest \in Seq(Task) : pushed[s] = ran[s] \o rest
    <2>1. CASE thread[s] = None
      BY <2>1, EmptySeq, ConcatEmptySeq DEF OneQueue
    <2>2. CASE thread[s] # None
      <3> DEFINE h == thread[s]
      <3>1. Running(h) \in Seq(Task) /\ queue[h] \in Seq(Task)
        <4>1. h \in Thread
          BY <2>2 DEF Threads, OneThread
        <4> QED
          BY <4>1, EmptySeq DEF Threads, TypeOK, Running
      <3>2. pushed[s] = (ran[s] \o Running(h)) \o queue[h]
        BY <2>2 DEF OneQueue
      <3>3. pushed[s] = ran[s] \o (Running(h) \o queue[h]) /\ Running(h) \o queue[h] \in Seq(Task)
        <4>1. (ran[s] \o Running(h)) \o queue[h] = ran[s] \o (Running(h) \o queue[h])
          <5>1. \A a, b, q \in Seq(Task) : (a \o b) \o q = a \o (b \o q)
            BY ConcatAssociative
          <5> QED
            BY <1>1, <3>1, <5>1
        <4>2. Running(h) \o queue[h] \in Seq(Task)
          BY <3>1, ConcatProperties
        <4> QED
          BY <3>2, <4>1, <4>2
      <3> QED
        BY <3>3
    <2> QED
      BY <2>1, <2>2
  <1>3. PICK rest \in Seq(Task) : pushed[s] = ran[s] \o rest
    BY <1>2
  <1>4. Len(ran[s]) \in Nat /\ Len(rest) \in Nat /\ Len(pushed[s]) = Len(ran[s]) + Len(rest)
        /\ \A i \in 1..Len(ran[s]) : pushed[s][i] = ran[s][i] /\ pushed[s][i] \in Task
    BY <1>1, <1>3, LenProperties, ConcatProperties, ElementOfSeq
  <1>5. /\ SubSeq(pushed[s], 1, Len(ran[s])) \in Seq(Task)
        /\ Len(SubSeq(pushed[s], 1, Len(ran[s]))) = Len(ran[s])
        /\ \A i \in 1..Len(ran[s]) : SubSeq(pushed[s], 1, Len(ran[s]))[i] = pushed[s][i]
    BY <1>4, SubSeqProperties
  <1>6. SubSeq(pushed[s], 1, Len(ran[s])) = ran[s]
    BY <1>1, <1>4, <1>5, SeqEqual
  <1> QED
    BY <1>4, <1>6

-----------------------------------------------------------------------------
LEMMA PushedTask ==
  ASSUME Threads, NEW s \in Stream, NEW i \in 1..Len(pushed[s])
  PROVE  /\ pushed[s][i] \in Task /\ pushed[s][i].by \in Client
         /\ pushed[s][i].nr \in Nat /\ i \in Nat
  <1>1. pushed[s] \in Seq(Task)
    BY DEF Threads, TypeOK
  <1>2. pushed[s][i] \in Task
    BY <1>1, ElementOfSeq
  <1> QED
    BY <1>2 DEF Task

(* A step that enqueues nothing keeps the numbering as long as a client that *)
(* begins an operation takes a new number.                                   *)
LEMMA SamePushed ==
  ASSUME Threads, Numbered, pushed' = pushed, nops' \in [Client -> Nat],
         \A c \in Client : nops[c] <= nops'[c],
         \A c \in Client : pc'[c] \in Unpushed => pc[c] \in Unpushed \/ nops[c] < nops'[c],
         \A c \in Client : pc'[c] = "wait" => pc[c] = "wait" /\ task'[c] = task[c] /\ to'[c] = to[c]
  PROVE  Numbered'
  <1>1. Known'
    <2> SUFFICES ASSUME NEW s \in Stream, NEW i \in 1..Len(pushed[s])
                 PROVE  /\ pushed[s][i].nr <= nops'[pushed[s][i].by]
                        /\ pc'[pushed[s][i].by] \in Unpushed =>
                             pushed[s][i].nr < nops'[pushed[s][i].by]
      BY DEF Known
    <2> DEFINE c == pushed[s][i].by
    <2>1. c \in Client /\ pushed[s][i].nr \in Nat
      BY PushedTask
    <2>2. nops[c] \in Nat /\ nops'[c] \in Nat
      BY <2>1 DEF Threads, TypeOK
    <2>3. /\ pushed[s][i].nr <= nops[c]
          /\ pc[c] \in Unpushed => pushed[s][i].nr < nops[c]
      BY DEF Numbered, Known
    <2>4. nops[c] <= nops'[c] /\ (pc'[c] \in Unpushed => pc[c] \in Unpushed \/ nops[c] < nops'[c])
      BY <2>1
    <2> HIDE DEF c
    <2>5. pushed[s][i].nr <= nops'[c] /\ (pc'[c] \in Unpushed => pushed[s][i].nr < nops'[c])
      BY <2>1, <2>2, <2>3, <2>4
    <2> QED
      BY <2>5 DEF c
  <1>2. Ascending' /\ Distinct'
    BY DEF Numbered, Ascending, Distinct
  <1>3. Awaited'
    BY DEF Numbered, Awaited
  <1> QED
    BY <1>1, <1>2, <1>3 DEF Numbered

(* The task that a client pushes bears the number of its operation, which is *)
(* above those of all that it has pushed before.                             *)
LEMMA PushNumbered ==
  ASSUME Threads, Numbered, NEW c \in Client, Push(c)
  PROVE  Numbered'
  <1> DEFINE t == task[c]
             s0 == to[c]
             n == Len(pushed[s0])
  <1>1. t \in Task /\ s0 \in Stream /\ t.by = c /\ t.nr = nops[c] /\ pc[c] = "push"
    BY DEF Threads, Operating, Unpushed, Push
  <1>2. pushed[s0] \in Seq(Task) /\ n \in Nat
    BY <1>1, LenProperties DEF Threads, TypeOK
  <1>3. nops[c] \in Nat /\ UNCHANGED <<nops, task, to>>
    BY DEF Threads, TypeOK, Push
  <1>4. pc'[c] \in {"wait", "idle"} /\ \A x \in Client : x # c => pc'[x] = pc[x]
    BY DEF Push, Goto, Threads, TypeOK
  <1>5. /\ \A s \in Stream : s # s0 => pushed'[s] = pushed[s]
        /\ Len(pushed'[s0]) = n + 1
        /\ pushed'[s0][n + 1] = t
        /\ \A i \in 1..n : pushed'[s0][i] = pushed[s0][i]
    <2>1. pushed' = [pushed EXCEPT ![s0] = Append(@, t)]
      BY DEF Push
    <2>2. pushed'[s0] = Append(pushed[s0], t)
      BY <1>1, <2>1 DEF Threads, TypeOK
    <2>3. \A s \in Stream : s # s0 => pushed'[s] = pushed[s]
      BY <2>1 DEF Threads, TypeOK
    <2> QED
      BY <1>1, <1>2, <2>2, <2>3, AppendProperties
  <1> HIDE DEF t, s0, n
  <1>6. ASSUME NEW s \in Stream, NEW i \in 1..Len(pushed'[s])
        PROVE  \/ i \in 1..Len(pushed[s]) /\ pushed'[s][i] = pushed[s][i]
               \/ s = s0 /\ i = n + 1 /\ pushed'[s][i] = t
    BY <1>2, <1>5 DEF n
  <1>7. ASSUME NEW s \in Stream, NEW i \in 1..Len(pushed[s]), pushed[s][i].by = c
        PROVE  pushed[s][i].nr < t.nr
    BY <1>1, <1>7 DEF Numbered, Known, Unpushed
  <1>8. Known'
    <2> SUFFICES ASSUME NEW s \in Stream, NEW i \in 1..Len(pushed'[s])
                 PROVE  /\ pushed'[s][i].nr <= nops[pushed'[s][i].by]
                        /\ pc'[pushed'[s][i].by] \in Unpushed =>
                             pushed'[s][i].nr < nops[pushed'[s][i].by]
      BY <1>3 DEF Known
    <2>1. CASE i \in 1..Len(pushed[s]) /\ pushed'[s][i] = pushed[s][i]
      <3>1. pushed[s][i].by \in Client
        BY <2>1, PushedTask
      <3>2. pc'[pushed[s][i].by] \in Unpushed => pc[pushed[s][i].by] \in Unpushed
        BY <1>4, <3>1 DEF Unpushed
      <3> QED
        BY <2>1, <3>2 DEF Numbered, Known
    <2>2. CASE s = s0 /\ i = n + 1 /\ pushed'[s][i] = t
      BY <1>1, <1>3, <1>4, <2>2 DEF Unpushed
    <2> QED
      BY <1>6, <2>1, <2>2
  <1>9. Ascending'
    <2> SUFFICES ASSUME NEW s \in Stream,
                        NEW i \in 1..Len(pushed'[s]), NEW j \in 1..Len(pushed'[s]),
                        pushed'[s][i].by = pushed'[s][j].by, i < j
                 PROVE  pushed'[s][i].nr < pushed'[s][j].nr
      BY DEF Ascending
    <2>1. i \in 1..Len(pushed[s]) /\ pushed'[s][i] = pushed[s][i]
      BY <1>2, <1>5, <1>6 DEF n
    <2>2. CASE j \in 1..Len(pushed[s]) /\ pushed'[s][j] = pushed[s][j]
      BY <2>1, <2>2 DEF Numbered, Ascending
    <2>3. CASE s = s0 /\ j = n + 1 /\ pushed'[s][j] = t
      BY <1>1, <1>7, <2>1, <2>3
    <2> QED
      BY <1>6, <2>2, <2>3
  <1>10. Distinct'
    <2> SUFFICES ASSUME NEW s1 \in Stream, NEW s2 \in Stream,
                        NEW i \in 1..Len(pushed'[s1]), NEW j \in 1..Len(pushed'[s2]),
                        pushed'[s1][i] = pushed'[s2][j]
                 PROVE  s1 = s2
      BY DEF Distinct
    <2>1. ASSUME NEW s \in Stream, NEW k \in 1..Len(pushed[s])
          PROVE  pushed[s][k] # t
      BY <1>1, <1>3, <1>7
    <2> QED
      BY <1>6, <2>1, SMTT(20) DEF Numbered, Distinct
  <1>11. Awaited'
    <2> SUFFICES ASSUME NEW x \in Client, pc'[x] = "wait"
                 PROVE  \E i \in 1..Len(pushed'[to[x]]) : pushed'[to[x]][i] = task[x]
      BY <1>3 DEF Awaited
    <2>1. CASE x = c
      BY <1>2, <1>5, <2>1 DEF s0, t
    <2>2. CASE x # c
      <3>1. pc[x] = "wait" /\ to[x] \in Stream
        BY <1>4, <2>2 DEF Threads, Operating
      <3>2. PICK i \in 1..Len(pushed[to[x]]) : pushed[to[x]][i] = task[x]
        BY <3>1 DEF Numbered, Awaited
      <3>3. i \in 1..Len(pushed'[to[x]]) /\ pushed'[to[x]][i] = pushed[to[x]][i]
        BY <1>2, <1>5, <3>1 DEF n
      <3> QED
        BY <3>2, <3>3
    <2> QED
      BY <2>1, <2>2
  <1> QED
    BY <1>8, <1>9, <1>10, <1>11 DEF Numbered

LEMMA NextNumbered ==
  ASSUME Threads, Numbered, [Next]_vars
  PROVE  Numbered'
  <1>0. nops \in [Client -> Nat] /\ pc \in [Client -> {"idle", "notify", "find", "create", "push",
                                                      "wait", "blocked", "woken"}]
    BY DEF Threads, TypeOK
  <1>1. ASSUME NEW c \in Client, NEW s \in Stream, NEW kind \in Kind, Begin(c, s, kind)
        PROVE  Numbered'
    BY <1>0, <1>1, SamePushed DEF Begin, Goto, history, Unpushed
  <1>2. ASSUME NEW c \in Client, WaitForOne(c)
        PROVE  Numbered'
    BY <1>0, <1>2, SamePushed DEF WaitForOne, Goto, history, Unpushed
  <1>3. ASSUME UNCHANGED <<pushed, nops, task, to>>,
               \A c \in Client : pc'[c] \in Unpushed => pc[c] \in Unpushed,
               \A c \in Client : pc'[c] = "wait" => pc[c] = "wait"
        PROVE  Numbered'
    BY <1>0, <1>3, SamePushed
  <1>4. ASSUME NEW c \in Client, SpuriousWakeup(c) \/ NotifyNewTask(c) \/ Find(c) \/ Create(c)
                                 \/ SyncReturn(c) \/ LookAgain(c)
        PROVE  Numbered'
    <2>1. UNCHANGED <<pushed, nops, task, to>>
      BY <1>4 DEF SpuriousWakeup, NotifyNewTask, Find, Create, SyncReturn, LookAgain, history
    <2>2. \A x \in Client : /\ pc'[x] \in Unpushed => pc[x] \in Unpushed
                            /\ pc'[x] = "wait" => pc[x] = "wait"
      BY <1>0, <1>4
      DEF SpuriousWakeup, NotifyNewTask, Find, Create, SyncReturn, LookAgain,
          Goto, NotifyAll, Woken, Unpushed
    <2> QED
      BY <1>3, <2>1, <2>2
  <1>5. ASSUME NEW h \in Thread, Work(h)
        PROVE  Numbered'
    <2>1. UNCHANGED <<pushed, nops, task, to>>
      BY <1>5 DEF Work, TakeTask, RunTask, CompleteTask, NotifyCompletion, history, clients
    <2>2. \A x \in Client : /\ pc'[x] \in Unpushed => pc[x] \in Unpushed
                            /\ pc'[x] = "wait" => pc[x] = "wait"
      BY <1>5 DEF Work, TakeTask, RunTask, CompleteTask, NotifyCompletion, Woken, Unpushed, clients
    <2> QED
      BY <1>3, <2>1, <2>2
  <1>6. CASE UNCHANGED vars
    BY <1>3, <1>6 DEF vars, clients, history
  <1> QED
    BY <1>1, <1>2, <1>4, <1>5, <1>6, PushNumbered DEF Next, Operate

LEMMA NextKeptRan ==
  ASSUME Threads, KeptRan, [Next]_vars
  PROVE  KeptRan'
  <1>1. ASSUME UNCHANGED <<kept, ran>> PROVE KeptRan'
    BY <1>1 DEF KeptRan
  <1>2. ASSUME NEW h \in Thread, RunTask(h) PROVE KeptRan'
    <2> DEFINE t == taken[h][1]
               s0 == h[1]
    <2>1. s0 \in Stream /\ t \in Task /\ ran[s0] \in Seq(Task) /\ Len(ran[s0]) \in Nat
      BY <1>2, ThreadIsNotNone, HeadOfOne, LenProperties
      DEF Threads, TypeOK, WorkerHolds, RunTask
    <2>2. /\ Len(ran'[s0]) = Len(ran[s0]) + 1 /\ ran'[s0][Len(ran[s0]) + 1] = t
          /\ \A i \in 1..Len(ran[s0]) : ran'[s0][i] = ran[s0][i]
      <3>1. ran'[s0] = Append(ran[s0], t)
        BY <1>2, <2>1 DEF RunTask, Threads, TypeOK
      <3> QED
        BY <2>1, <3>1, AppendProperties
    <2>3. \A s \in Stream : s # s0 => ran'[s] = ran[s]
      BY <1>2 DEF RunTask, Threads, TypeOK
    <2>4. kept' \subseteq kept \cup {t}
      BY <1>2 DEF RunTask
    <2> HIDE DEF t, s0
    <2> SUFFICES ASSUME NEW p \in kept'
                 PROVE  \E s \in Stream : \E i \in 1..Len(ran'[s]) : ran'[s][i] = p
      BY DEF KeptRan
    <2>5. CASE p = t
      <3>1. Len(ran[s0]) + 1 \in 1..Len(ran'[s0])
        BY <2>1, <2>2
      <3> QED
        BY <2>1, <2>2, <2>5, <3>1
    <2>6. CASE p \in kept
      <3>1. PICK s \in Stream : \E i \in 1..Len(ran[s]) : ran[s][i] = p
        BY <2>6 DEF KeptRan
      <3>2. PICK i \in 1..Len(ran[s]) : ran[s][i] = p
        BY <3>1
      <3>3. i \in 1..Len(ran'[s]) /\ ran'[s][i] = p
        BY <2>1, <2>2, <2>3, <3>2
      <3> QED
        BY <3>3
    <2> QED
      BY <2>4, <2>5, <2>6
  <1>3. ASSUME NEW c \in Client, NEW s \in Stream, NEW kind \in Kind, Begin(c, s, kind)
        PROVE  UNCHANGED <<kept, ran>>
    BY <1>3 DEF Begin, history
  <1>4. ASSUME NEW c \in Client, WaitForOne(c) \/ SpuriousWakeup(c) \/ Operate(c)
        PROVE  UNCHANGED <<kept, ran>>
    BY <1>4 DEF Operate, WaitForOne, SpuriousWakeup, NotifyNewTask, Find, Create, Push,
                SyncReturn, LookAgain, history
  <1>5. ASSUME NEW h \in Thread, TakeTask(h) \/ CompleteTask(h) \/ NotifyCompletion(h)
        PROVE  UNCHANGED <<kept, ran>>
    BY <1>5 DEF TakeTask, CompleteTask, NotifyCompletion, history
  <1>6. CASE UNCHANGED vars
    BY <1>1, <1>6 DEF vars, history
  <1> QED
    BY <1>1, <1>2, <1>3, <1>4, <1>5, <1>6 DEF Next, Work

-----------------------------------------------------------------------------
(* Positions in queues: when the front of one leaves, the others of it move  *)
(* up by one, and there are as many as before.                               *)
LEMMA MoveUp ==
  ASSUME NEW T, NEW h \in T,
         NEW P \in SUBSET (T \X (Nat \ {0})), IsFiniteSet(P), <<h, 1>> \notin P,
         NEW Q \in SUBSET (T \X (Nat \ {0})),
         \A x \in T, i \in Nat \ {0} : x # h => (<<x, i>> \in Q <=> <<x, i>> \in P),
         \A i \in Nat \ {0} : <<h, i>> \in Q <=> <<h, i + 1>> \in P
  PROVE  IsFiniteSet(Q) /\ Cardinality(Q) = Cardinality(P)
  <1> DEFINE f == [p \in P |-> IF p[1] = h THEN <<h, p[2] - 1>> ELSE p]
  <1>1. \A p \in P : p[1] \in T /\ p[2] \in Nat \ {0} /\ p = <<p[1], p[2]>>
                     /\ (p[1] = h => p[2] # 1)
    OBVIOUS
  <1>2. \A q \in Q : q[1] \in T /\ q[2] \in Nat \ {0} /\ q = <<q[1], q[2]>>
    OBVIOUS
  <1>3. f \in [P -> Q]
    <2> SUFFICES ASSUME NEW p \in P
                 PROVE  (IF p[1] = h THEN <<h, p[2] - 1>> ELSE p) \in Q
      OBVIOUS
    <2>1. CASE p[1] = h
      <3>1. p[2] - 1 \in Nat \ {0} /\ (p[2] - 1) + 1 = p[2]
        BY <1>1, <2>1
      <3>2. <<h, (p[2] - 1) + 1>> \in P
        BY <1>1, <2>1, <3>1
      <3> QED
        BY <2>1, <3>1, <3>2
    <2>2. CASE p[1] # h
      BY <1>1, <2>2
    <2> QED
      BY <2>1, <2>2
  <1>4. \A a, b \in P : f[a] = f[b] => a = b
    <2> SUFFICES ASSUME NEW a \in P, NEW b \in P, f[a] = f[b]
                 PROVE  a = b
      OBVIOUS
    <2>1. f[a][1] = a[1] /\ f[b][1] = b[1] /\ a[1] = b[1]
      BY <1>1
    <2>2. a[2] = b[2]
      BY <1>1, <2>1
    <2> QED
      BY <1>1, <2>1, <2>2
  <1>5. \A q \in Q : \E p \in P : f[p] = q
    <2> SUFFICES ASSUME NEW q \in Q
                 PROVE  \E p \in P : f[p] = q
      OBVIOUS
    <2>1. CASE q[1] = h
      <3>1. <<h, q[2] + 1>> \in P /\ (q[2] + 1) - 1 = q[2] /\ q = <<h, q[2]>>
        BY <1>2, <2>1
      <3>2. f[<<h, q[2] + 1>>] = q
        BY <3>1
      <3> QED
        BY <3>1, <3>2
    <2>2. CASE q[1] # h
      <3>1. q \in P
        BY <1>2, <2>2
      <3> QED
        BY <2>2, <3>1
    <2> QED
      BY <2>1, <2>2
  <1>6. f \in Bijection(P, Q)
    BY <1>3, <1>4, <1>5, Fun_IsBij
  <1>7. ExistsBijection(P, Q)
    BY <1>6, Fun_ExistsBij
  <1> QED
    BY <1>7, FS_Bijection

LEMMA CountsAreNat ==
  ASSUME IsFiniteSet(Entering), IsFiniteSet(Held), IsFiniteSet(Queued)
  PROVE  /\ Cardinality(Entering) \in Nat /\ Cardinality(Held) \in Nat
         /\ Cardinality(Queued) \in Nat
  BY FS_CardinalityType

LEMMA InQueued ==
  \A h \in Thread : \A i : <<h, i>> \in Queued <=> i \in Waiting(h)
  BY DEF Queued

LEMMA QueuedPairs ==
  ASSUME Threads
  PROVE  /\ Queued \in SUBSET (Thread \X (Nat \ {0}))
         /\ \A h \in Thread : Waiting(h) \in SUBSET (Nat \ {0})
  <1>1. \A h \in Thread : Waiting(h) \in SUBSET (Nat \ {0})
    BY LenProperties DEF Threads, TypeOK, Waiting
  <1> QED
    BY <1>1 DEF Queued

LEMMA InitCounted == Init => Counted
  <1> SUFFICES ASSUME Init PROVE Counted
    OBVIOUS
  <1>1. Entering = {} /\ Held = {}
    BY DEF Init, Entering, Held
  <1>2. Queued = {}
    <2>1. \A h \in Thread : Waiting(h) = {}
      BY EmptySeq DEF Init, Waiting
    <2> QED
      BY <2>1 DEF Queued
  <1>3. nActive = Cardinality(Entering) + Cardinality(Held) + Cardinality(Queued)
    BY <1>1, <1>2, FS_EmptySet DEF Init
  <1> QED
    BY <1>1, <1>2, <1>3, FS_EmptySet DEF Counted, ActiveCount, Queued

(* The sum changes with its parts.                                           *)
LEMMA SameCount ==
  ASSUME Counted, nActive' = nActive, Entering' = Entering, Held' = Held, Queued' = Queued
  PROVE  Counted'
  BY DEF Counted, ActiveCount, Queued

LEMMA CountHolds ==
  ASSUME Counted
  PROVE  nActive = Cardinality(Entering) + Cardinality(Held) + Cardinality(Queued)
  BY DEF Counted, ActiveCount, Queued

LEMMA CountKept ==
  ASSUME IsFiniteSet(Entering'), IsFiniteSet(Held'), IsFiniteSet(Queued'),
         nActive' = Cardinality(Entering') + Cardinality(Held') + Cardinality(Queued')
  PROVE  Counted'
  BY DEF Counted, ActiveCount, Queued

LEMMA BeginCounted ==
  ASSUME Threads, Counted, NEW c \in Client, NEW s \in Stream, NEW kind \in Kind,
         Begin(c, s, kind)
  PROVE  Counted'
  <1>1. Held' = Held /\ Queued' = Queued
    BY DEF Begin, Held, Queued, Waiting, workers
  <1>2. c \notin Entering
    BY DEF Begin, Entering
  <1>3. CASE kind = "counted"
    <2>1. Entering' = Entering \cup {c}
      BY <1>3 DEF Begin, Goto, Entering, Threads, TypeOK
    <2>2. nActive' = nActive + 1
      BY <1>3 DEF Begin
    <2>3. IsFiniteSet(Entering') /\ Cardinality(Entering') = Cardinality(Entering) + 1
      BY <1>2, <2>1, FS_AddElement DEF Counted
    <2>4. nActive' = Cardinality(Entering') + Cardinality(Held') + Cardinality(Queued')
      BY <1>1, <2>2, <2>3, CountsAreNat, CountHolds DEF Counted
    <2> QED
      BY <1>1, <2>3, <2>4, CountKept DEF Counted
  <1>4. CASE kind # "counted"
    <2>1. Entering' = Entering
      BY <1>4 DEF Begin, Goto, Entering, Threads, TypeOK
    <2> QED
      BY <1>1, <1>4, <2>1, SameCount DEF Begin
  <1> QED
    BY <1>3, <1>4

LEMMA PushCounted ==
  ASSUME Threads, Counted, NEW c \in Client, Push(c)
  PROVE  Counted'
  <1>0. to[c] \in Stream /\ task[c] \in Task /\ thread[to[c]] # None
    BY DEF Threads, Operating, Unpushed, Push
  <1>1. PICK h \in Thread : h = thread[to[c]] /\ handle[c] = h
    BY <1>0 DEF Threads, OneThread, Operating, Push
  <1>2. PICK n \in Nat : n = Len(queue[h])
    BY LenProperties DEF Threads, TypeOK
  <1>3. Held' = Held /\ nActive' = nActive
    BY DEF Push, Held, workers
  <1>4. Entering' = Entering \ {c} /\ (c \in Entering <=> task[c].kind = "counted")
    BY DEF Push, Goto, Entering, Threads, TypeOK
  <1>5. queue' = [queue EXCEPT ![h] = Append(@, task[c])]
    BY <1>1 DEF Push
  <1>6. queue[h] \in Seq(Task)
    BY DEF Threads, TypeOK
  <1>7. \A x \in Thread : x # h => Waiting(x)' = Waiting(x)
    BY <1>5 DEF Waiting, Threads, TypeOK
  <1>8. Waiting(h)' = Waiting(h) \cup (IF task[c].kind = "counted" THEN {n + 1} ELSE {})
    <2>1. queue'[h] = Append(queue[h], task[c])
      BY <1>2, <1>5 DEF Threads, TypeOK
    <2>2. /\ Len(queue'[h]) = n + 1 /\ queue'[h][n + 1] = task[c]
          /\ \A i \in 1..n : queue'[h][i] = queue[h][i]
      BY <1>0, <1>2, <1>6, <2>1, AppendProperties
    <2>3. 1..Len(queue'[h]) = 1..n \cup {n + 1}
      BY <1>6, <2>2
    <2>4. \A i : i \in Waiting(h)' <=>
                 \/ i \in 1..n /\ queue[h][i].kind = "counted"
                 \/ i = n + 1 /\ task[c].kind = "counted"
      BY <1>6, <2>2, <2>3 DEF Waiting
    <2> QED
      BY <1>2, <2>4 DEF Waiting
  <1>9. Queued' = Queued \cup (IF task[c].kind = "counted" THEN {<<h, n + 1>>} ELSE {})
    <2>1. \A x \in Thread : \A i : i \in Waiting(x)' <=>
             i \in Waiting(x) \/ (x = h /\ i = n + 1 /\ task[c].kind = "counted")
      BY <1>7, <1>8
    <2>2. \A p : p \in Queued' <=> \E x \in Thread : \E i \in Waiting(x)' : p = <<x, i>>
      BY DEF Queued
    <2>3. \A p : p \in Queued <=> \E x \in Thread : \E i \in Waiting(x) : p = <<x, i>>
      BY DEF Queued
    <2>4. \A p : p \in Queued' <=> p \in Queued \/ (p = <<h, n + 1>> /\ task[c].kind = "counted")
      BY <1>2, <2>1, <2>2, <2>3
    <2> QED
      BY <2>4
  <1>10. <<h, n + 1>> \notin Queued
    BY <1>2, InQueued DEF Waiting
  <1>11. IsFiniteSet(Entering') /\ Cardinality(Entering') =
           IF task[c].kind = "counted" THEN Cardinality(Entering) - 1 ELSE Cardinality(Entering)
    BY <1>4, FS_RemoveElement DEF Counted
  <1>12. IsFiniteSet(Queued') /\ Cardinality(Queued') =
           IF task[c].kind = "counted" THEN Cardinality(Queued) + 1 ELSE Cardinality(Queued)
    <2>1. CASE task[c].kind = "counted"
      BY <1>9, <1>10, <2>1, FS_AddElement DEF Counted
    <2>2. CASE task[c].kind # "counted"
      <3>1. Queued' = Queued
        BY <1>9, <2>2
      <3> QED
        BY <2>2, <3>1 DEF Counted
    <2> QED
      BY <2>1, <2>2
  <1>13. nActive' = Cardinality(Entering') + Cardinality(Held') + Cardinality(Queued')
    BY <1>3, <1>11, <1>12, CountsAreNat, CountHolds DEF Counted
  <1> QED
    BY <1>3, <1>11, <1>12, <1>13, CountKept DEF Counted

LEMMA TakeCounted ==
  ASSUME Threads, Counted, NEW h \in Thread, TakeTask(h)
  PROVE  Counted'
  <1> DEFINE t == Head(queue[h])
             P == Queued \ {<<h, 1>>}
  <1>1. queue[h] \in Seq(Task) /\ queue[h] # <<>> /\ taken[h] = <<>>
    BY DEF Threads, TypeOK, TakeTask, WorkerHolds
  <1>2. t = queue[h][1] /\ 1 \in 1..Len(queue[h]) /\ Len(queue[h]) \in Nat
    BY <1>1, EmptySeq, LenProperties
  <1>3. Entering' = Entering /\ nActive' = nActive
    BY DEF TakeTask, Entering, clients
  <1>4. h \notin Held /\ Held' = IF t.kind = "counted" THEN Held \cup {h} ELSE Held
    <2>1. taken' = [taken EXCEPT ![h] = <<t>>] /\ taken \in [Thread -> Seq(Task)]
      BY DEF TakeTask, Threads, TypeOK
    <2>2. taken'[h] = <<t>> /\ \A x \in Thread : x # h => taken'[x] = taken[x]
      BY <2>1
    <2>3. <<t>> # <<>> /\ <<t>>[1] = t
      OBVIOUS
    <2> QED
      BY <1>1, <2>2, <2>3 DEF Held
  <1>5. <<h, 1>> \in Queued <=> t.kind = "counted"
    BY <1>2, InQueued DEF Waiting
  <1>6. IsFiniteSet(P) /\ Cardinality(P) =
          IF t.kind = "counted" THEN Cardinality(Queued) - 1 ELSE Cardinality(Queued)
    BY <1>5, FS_RemoveElement DEF Counted
  <1>7. queue' = [queue EXCEPT ![h] = Tail(@)]
    BY DEF TakeTask
  <1>8. \A x \in Thread : x # h => Waiting(x)' = Waiting(x)
    BY <1>7 DEF Waiting, Threads, TypeOK
  <1>9. \A i \in Nat \ {0} : i \in Waiting(h)' <=> i + 1 \in Waiting(h)
    <2>1. queue'[h] = Tail(queue[h])
      BY <1>7 DEF Threads, TypeOK
    <2>2. /\ Len(queue'[h]) = Len(queue[h]) - 1
          /\ \A i \in 1..Len(queue[h]) - 1 : queue'[h][i] = queue[h][i + 1]
      BY <1>1, <2>1, HeadTailProperties
    <2> QED
      BY <1>2, <2>2 DEF Waiting
  <1>10. Queued' \in SUBSET (Thread \X (Nat \ {0})) /\ P \in SUBSET (Thread \X (Nat \ {0}))
    <2>1. \A x \in Thread : Waiting(x)' \in SUBSET (Nat \ {0})
      <3>1. Tail(queue[h]) \in Seq(Task)
        BY <1>1, HeadTailProperties
      <3>2. queue' \in [Thread -> Seq(Task)]
        BY <1>7, <3>1 DEF Threads, TypeOK
      <3> QED
        BY <3>2, LenProperties DEF Waiting
    <2>2. Queued' \in SUBSET (Thread \X (Nat \ {0}))
      BY <2>1 DEF Queued
    <2> QED
      BY <2>2, QueuedPairs
  <1>11. \A x \in Thread : \A i : <<x, i>> \in Queued' <=> i \in Waiting(x)'
    BY DEF Queued
  <1>12. /\ \A x \in Thread, i \in Nat \ {0} : x # h => (<<x, i>> \in Queued' <=> <<x, i>> \in P)
         /\ \A i \in Nat \ {0} : <<h, i>> \in Queued' <=> <<h, i + 1>> \in P
    BY <1>8, <1>9, <1>11, InQueued
  <1>13. <<h, 1>> \notin P
    OBVIOUS
  <1> HIDE DEF P, t
  <1>14. IsFiniteSet(Queued') /\ Cardinality(Queued') = Cardinality(P)
    BY <1>6, <1>10, <1>12, <1>13, MoveUp
  <1>15. IsFiniteSet(Held') /\ Cardinality(Held') =
           IF t.kind = "counted" THEN Cardinality(Held) + 1 ELSE Cardinality(Held)
    BY <1>4, FS_AddElement DEF Counted
  <1>16. nActive' = Cardinality(Entering') + Cardinality(Held') + Cardinality(Queued')
    BY <1>3, <1>6, <1>14, <1>15, CountsAreNat, CountHolds DEF Counted
  <1> QED
    BY <1>14, <1>15, <1>3, <1>16, CountKept DEF Counted

LEMMA CompleteCounted ==
  ASSUME Threads, Counted, NEW h \in Thread, CompleteTask(h)
  PROVE  Counted'
  <1>1. Entering' = Entering /\ Queued' = Queued /\ nActive' = nActive - 1
    BY DEF CompleteTask, Entering, Queued, Waiting, clients
  <1>2. h \in Held
    BY DEF CompleteTask, Held, Threads, WorkerHolds
  <1>3. Held' = Held \ {h}
    BY DEF CompleteTask, Held, Threads, TypeOK
  <1>4. IsFiniteSet(Held') /\ Cardinality(Held') = Cardinality(Held) - 1
    BY <1>2, <1>3, FS_RemoveElement DEF Counted
  <1>5. nActive' = Cardinality(Entering') + Cardinality(Held') + Cardinality(Queued')
    BY <1>1, <1>4, CountsAreNat, CountHolds DEF Counted
  <1> QED
    BY <1>1, <1>4, <1>5, CountKept DEF Counted

LEMMA RunCounted ==
  ASSUME Threads, Counted, NEW h \in Thread, RunTask(h)
  PROVE  Counted'
  <1>1. Entering' = Entering /\ Queued' = Queued /\ nActive' = nActive
    BY DEF RunTask, Entering, Queued, Waiting, clients
  <1>2. CASE taken[h][1].kind = "counted"
    <2>1. taken' = taken
      BY <1>2 DEF RunTask, Threads, TypeOK
    <2>2. Held' = Held
      BY <2>1 DEF Held
    <2> QED
      BY <1>1, <2>2, SameCount
  <1>3. CASE taken[h][1].kind # "counted"
    <2>1. h \notin Held /\ Held' = Held \ {h}
      BY <1>3 DEF RunTask, Held, Threads, TypeOK
    <2>2. Held' = Held
      BY <2>1
    <2> QED
      BY <1>1, <2>2, SameCount
  <1> QED
    BY <1>2, <1>3

LEMMA NextCounted ==
  ASSUME Threads, Counted, [Next]_vars
  PROVE  Counted'
  <1>1. ASSUME UNCHANGED <<nActive, taken, queue, task>>,
               \A c \in Client : pc'[c] \in Unpushed <=> pc[c] \in Unpushed
        PROVE  Counted'
    <2>1. Entering' = Entering
      BY <1>1 DEF Entering, Unpushed
    <2>2. Held' = Held /\ Queued' = Queued
      BY <1>1 DEF Held, Queued, Waiting
    <2> QED
      BY <1>1, <2>1, <2>2, SameCount
  <1>2. ASSUME NEW c \in Client, WaitForOne(c) \/ SpuriousWakeup(c) \/ NotifyNewTask(c) \/ Find(c)
                                 \/ Create(c) \/ SyncReturn(c) \/ LookAgain(c)
        PROVE  Counted'
    <2>1. UNCHANGED <<nActive, taken, queue, task>>
      BY <1>2 DEF WaitForOne, SpuriousWakeup, NotifyNewTask, Find, Create, SyncReturn, LookAgain,
                  workers
    <2>2. \A x \in Client : pc'[x] \in Unpushed <=> pc[x] \in Unpushed
      BY <1>2 DEF WaitForOne, SpuriousWakeup, NotifyNewTask, Find, Create, SyncReturn, LookAgain,
                  Goto, NotifyAll, Woken, Unpushed, Threads, TypeOK
    <2> QED
      BY <1>1, <2>1, <2>2
  <1>3. ASSUME NEW h \in Thread, NotifyCompletion(h)
        PROVE  Counted'
    <2>1. UNCHANGED <<nActive, taken, queue, task>>
      BY <1>3 DEF NotifyCompletion
    <2>2. \A x \in Client : pc'[x] \in Unpushed <=> pc[x] \in Unpushed
      BY <1>3 DEF NotifyCompletion, Woken, Unpushed
    <2> QED
      BY <1>1, <2>1, <2>2
  <1>4. CASE UNCHANGED vars
    BY <1>1, <1>4 DEF vars, workers, clients
  <1> QED
    BY <1>2, <1>3, <1>4, BeginCounted, PushCounted, TakeCounted, RunCounted, CompleteCounted
    DEF Next, Operate, Work

-----------------------------------------------------------------------------
LEMMA InitIInv == Init => IInv
  <1> SUFFICES ASSUME Init PROVE IInv
    OBVIOUS
  <1>1. Len(<<>>) = 0 /\ <<>> \o <<>> = <<>>
    BY EmptySeq, ConcatEmptySeq
  <1>2. OneQueue
    BY DEF Init, OneQueue
  <1>3. Numbered
    BY <1>1 DEF Init, Numbered, Known, Ascending, Distinct, Awaited
  <1>4. KeptRan
    BY DEF Init, KeptRan
  <1> QED
    BY <1>2, <1>3, <1>4, InitThreads, InitCounted DEF IInv

LEMMA NextIInv == IInv /\ [Next]_vars => IInv'
  <1> SUFFICES ASSUME IInv, [Next]_vars PROVE IInv'
    OBVIOUS
  <1>1. Counted'
    BY NextCounted DEF IInv
  <1>2. nActive' \in Nat
    <2>1. /\ Cardinality(Entering') \in Nat /\ Cardinality(Held') \in Nat
          /\ Cardinality(Queued') \in Nat
      BY <1>1, FS_CardinalityType DEF Counted
    <2>2. nActive' = Cardinality(Entering') + Cardinality(Held') + Cardinality(Queued')
      BY <1>1 DEF Counted, ActiveCount, Queued
    <2> QED
      BY <2>1, <2>2
  <1> QED
    BY <1>1, <1>2, NextThreads, NextOneQueue, NextNumbered, NextKeptRan DEF IInv

(* The inductive invariant holds in every reachable state.                   *)
THEOREM Inductive == Spec => []IInv
  BY InitIInv, NextIInv, PTL DEF Spec

(* However many clients meet on a new stream, only one of the threads they   *)
(* create is used, and the tasks of the stream run in the order in which     *)
(* Scheduler::enqueue accepted them.                                         *)
THEOREM InStreamOrder == Spec => []StreamOrder
  <1>1. IInv => StreamOrder
    BY OneQueueStreamOrder DEF IInv
  <1> QED
    BY <1>1, Inductive, PTL

(* The types, and n_active_tasks_: it is the number of counted tasks that    *)
(* are about to be enqueued, wait, or have not been reported, so that it is  *)
(* never negative and zero when nothing is left to do.                       *)
THEOREM CountIsExact == Spec => []Consistent
  <1>1. IInv => Consistent
    BY DEF IInv, Threads, Counted, Consistent
  <1> QED
    BY <1>1, Inductive, PTL

(* A client leaves synchronize only by its promise, which has then been set. *)
LEMMA LeavesByPromise ==
  ASSUME Threads, [Next]_vars, NEW c \in Client, pc[c] = "wait", pc'[c] = "idle"
  PROVE  task[c] \in kept
  <1>1. pc \in [Client -> {"idle", "notify", "find", "create", "push", "wait", "blocked", "woken"}]
    BY DEF Threads, TypeOK
  <1>2. ASSUME NEW x \in Client, NEW s \in Stream, NEW kind \in Kind, Begin(x, s, kind)
        PROVE  FALSE
    BY <1>1, <1>2 DEF Begin, Goto
  <1>3. ASSUME NEW x \in Client, WaitForOne(x) \/ SpuriousWakeup(x) \/ NotifyNewTask(x) \/ Find(x)
                                 \/ Create(x) \/ Push(x) \/ LookAgain(x)
        PROVE  FALSE
    BY <1>1, <1>3
    DEF WaitForOne, SpuriousWakeup, NotifyNewTask, Find, Create, Push, LookAgain,
        Goto, NotifyAll, Woken
  <1>4. ASSUME NEW x \in Client, SyncReturn(x)
        PROVE  task[c] \in kept
    BY <1>1, <1>4 DEF SyncReturn, Goto
  <1>5. ASSUME NEW h \in Thread, Work(h)
        PROVE  FALSE
    BY <1>5 DEF Work, TakeTask, RunTask, CompleteTask, NotifyCompletion, Woken, clients
  <1>6. CASE UNCHANGED vars
    BY <1>6 DEF vars, clients
  <1> QED
    BY <1>2, <1>3, <1>4, <1>5, <1>6 DEF Next, Operate

(* The promise stands behind all that its client gave the stream before, and *)
(* a promise that has been set has run.                                      *)
LEMMA PromiseIsLast ==
  ASSUME IInv, NEW c \in Client, pc[c] = "wait", task[c] \in kept
  PROVE  \A i \in Mine(c, to[c]) : i <= Len(ran[to[c]])
  <1> DEFINE s0 == to[c]
             t == task[c]
  <1>1. s0 \in Stream /\ t \in Task /\ t.by = c /\ t.nr = nops[c] /\ nops[c] \in Nat
    BY DEF IInv, Threads, Operating, TypeOK
  <1>2. PICK s \in Stream : \E i \in 1..Len(ran[s]) : ran[s][i] = t
    BY DEF IInv, KeptRan
  <1>3. PICK i \in 1..Len(ran[s]) : ran[s][i] = t
    BY <1>2
  <1>4. /\ Len(ran[s]) \in Nat /\ Len(pushed[s]) \in Nat
        /\ Len(ran[s]) <= Len(pushed[s]) /\ ran[s] = SubSeq(pushed[s], 1, Len(ran[s]))
    BY LenProperties, OneQueueStreamOrder DEF IInv, Threads, TypeOK, StreamOrder
  <1>5. i \in 1..Len(pushed[s]) /\ pushed[s][i] = t
    <2>1. \A k \in 1..Len(ran[s]) : pushed[s][k] \in Task
      BY <1>4, PushedTask DEF IInv
    <2>2. SubSeq(pushed[s], 1, Len(ran[s]))[i] = pushed[s][i]
      BY <1>4, <2>1, SubSeqProperties
    <2> QED
      BY <1>3, <1>4, <2>2
  <1>6. PICK j \in 1..Len(pushed[s0]) : pushed[s0][j] = t
    BY DEF IInv, Numbered, Awaited
  <1>7. s = s0
    BY <1>1, <1>5, <1>6 DEF IInv, Numbered, Distinct
  <1> SUFFICES ASSUME NEW k \in Mine(c, s0), ~(k <= Len(ran[s0]))
               PROVE  FALSE
    OBVIOUS
  <1>8. k \in 1..Len(pushed[s]) /\ pushed[s][k].by = c /\ i < k
    BY <1>4, <1>7 DEF Mine
  <1>9. t.nr < pushed[s][k].nr /\ pushed[s][k].nr <= nops[c]
    BY <1>1, <1>5, <1>8 DEF IInv, Numbered, Ascending, Known
  <1>10. pushed[s][k].nr \in Nat
    BY <1>8, PushedTask DEF IInv
  <1> QED
    BY <1>1, <1>9, <1>10

(* synchronize returns only when everything that its client had enqueued on  *)
(* the stream has run.                                                       *)
THEOREM SynchronizeIsComplete == Spec => SynchronizeWaits
  <1> DEFINE Waits ==
        \A c \in Client : pc[c] = "wait" /\ pc'[c] = "idle" =>
          \A i \in Mine(c, to[c]) : i <= Len(ran[to[c]])
  <1>1. IInv /\ [Next]_vars => [Waits]_vars
    BY LeavesByPromise, PromiseIsLast DEF IInv
  <1>2. Spec => [][Waits]_vars
    BY <1>1, Inductive, PTL DEF Spec
  <1> QED
    BY <1>2 DEF SynchronizeWaits
=============================================================================
