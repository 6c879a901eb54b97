------------------------------ MODULE Scheduler ------------------------------
(***************************************************************************)
(* scheduler::Scheduler (mlx/scheduler.h, scheduler.cpp): the map from       *)
(* streams to the threads that run them, created on first use; the count of  *)
(* active tasks, which wait_for_one waits on; and synchronize.  Several      *)
(* clients use it at once.  A StreamThread is the queue that StreamThread    *)
(* implements: what is pushed runs, one task at a time, in that order.       *)
(* Critical sections of threads_mtx_ and of mtx are one step each.           *)
(***************************************************************************)
EXTENDS Integers, Sequences, FiniteSets, Functions

CONSTANTS
  Client,  \* threads that enqueue tasks and wait
  Stream,
  MaxOps   \* bound on the operations of all clients together

ASSUME SchedulerAssumption == MaxOps \in Nat

Thread == Stream \X Client   \* <<s, c>>: the StreamThread that c created for s
None == <<>>

(* An operation is a task that the client enqueues: one that the scheduler   *)
(* counts as active, one that it does not, or the promise of synchronize.    *)
Kind == {"counted", "plain", "promise"}
Task == [by : Client, nr : Nat, kind : Kind]

VARIABLES
  thread,   \* threads_: per stream its StreamThread, if there is one
  queue,    \* per StreamThread: the tasks that wait in it
  worker,   \* per StreamThread: "idle", "run", "complete" or "notify"
  taken,    \* per StreamThread: <<t>> from the moment its worker takes t
  nActive,  \* n_active_tasks_
  pc, nops, \* per client: where it is, how many operations it has started
  task, to, \* per client: the task it enqueues and the stream it is for
  handle,   \* per client: st, the StreamThread it has looked up
  seen,     \* per client: n_tasks_old of wait_for_one
  kept,     \* promises that have been set
  pushed, ran  \* histories, per stream: tasks enqueued, tasks that have run

clients == <<pc, nops, task, to, handle, seen>>
workers == <<worker, taken>>
history == <<pushed, ran>>
vars == <<thread, queue, workers, nActive, clients, kept, history>>

TypeOK ==
  /\ thread \in [Stream -> Thread \cup {None}]
  /\ queue \in [Thread -> Seq(Task)]
  /\ worker \in [Thread -> {"idle", "run", "complete", "notify"}]
  /\ taken \in [Thread -> Seq(Task)]
  /\ nActive \in Nat
  /\ pc \in [Client -> {"idle", "notify", "find", "create", "push", "wait",
                        "blocked", "woken"}]
  /\ nops \in [Client -> Nat]
  /\ task \in [Client -> Task \cup {None}]
  /\ to \in [Client -> Stream \cup {None}]
  /\ handle \in [Client -> Thread \cup {None}]
  /\ seen \in [Client -> Int]
  /\ kept \subseteq Task
  /\ pushed \in [Stream -> Seq(Task)] /\ ran \in [Stream -> Seq(Task)]

Init ==
  /\ thread = [s \in Stream |-> None]
  /\ queue = [h \in Thread |-> <<>>]
  /\ worker = [h \in Thread |-> "idle"]
  /\ taken = [h \in Thread |-> <<>>]
  /\ nActive = 0
  /\ pc = [c \in Client |-> "idle"]
  /\ nops = [c \in Client |-> 0]
  /\ task = [c \in Client |-> None]
  /\ to = [c \in Client |-> None]
  /\ handle = [c \in Client |-> None]
  /\ seen = [c \in Client |-> 0]
  /\ kept = {}
  /\ pushed = [s \in Stream |-> <<>>]
  /\ ran = [s \in Stream |-> <<>>]

-----------------------------------------------------------------------------
(* completion_cv.notify_all: everybody who waits looks at the count again.   *)
Woken(c) == IF pc[c] = "blocked" THEN "woken" ELSE pc[c]

Started == SumFunction(nops)

Goto(c, p) == pc' = [pc EXCEPT ![c] = p]
NotifyAll(c, p) == pc' = [x \in Client |-> IF x = c THEN p ELSE Woken(x)]

(* A client starts an operation: notify_new_task comes first for a counted   *)
(* one (CommandEncoder::dispatch).                                           *)
Begin(c, s, kind) ==
  /\ pc[c] = "idle"
  /\ Started < MaxOps
  /\ nops' = [nops EXCEPT ![c] = @ + 1]
  /\ task' = [task EXCEPT ![c] = [by |-> c, nr |-> nops[c] + 1, kind |-> kind]]
  /\ to' = [to EXCEPT ![c] = s]
  /\ nActive' = IF kind = "counted" THEN nActive + 1 ELSE nActive
  /\ Goto(c, IF kind = "counted" THEN "notify" ELSE "find")
  /\ UNCHANGED <<thread, queue, workers, handle, seen, kept, history>>

NotifyNewTask(c) ==
  /\ pc[c] = "notify"
  /\ NotifyAll(c, "find")
  /\ UNCHANGED <<thread, queue, workers, nActive, nops, task, to, handle, seen, kept, history>>

(* Scheduler::enqueue: look the thread up under the shared lock ...          *)
Find(c) ==
  /\ pc[c] = "find"
  /\ handle' = [handle EXCEPT ![c] = thread[to[c]]]
  /\ Goto(c, IF thread[to[c]] = None THEN "create" ELSE "push")
  /\ UNCHANGED <<thread, queue, workers, nActive, nops, task, to, seen, kept, history>>

(* ... or else under the exclusive one, unless somebody else came first.     *)
CreateUnchecked(c) ==
  /\ pc[c] = "create"
  /\ thread' = [thread EXCEPT ![to[c]] = <<to[c], c>>]
  /\ handle' = [handle EXCEPT ![c] = <<to[c], c>>]
  /\ Goto(c, "push")
  /\ UNCHANGED <<queue, workers, nActive, nops, task, to, seen, kept, history>>

Create(c) ==
  /\ pc[c] = "create"
  /\ thread' = [thread EXCEPT ![to[c]] = IF @ = None THEN <<to[c], c>> ELSE @]
  /\ handle' = [handle EXCEPT ![c] = thread'[to[c]]]
  /\ Goto(c, "push")
  /\ UNCHANGED <<queue, workers, nActive, nops, task, to, seen, kept, history>>

(* StreamThread::enqueue; synchronize then waits for its promise.            *)
Push(c) ==
  /\ pc[c] = "push"
  /\ queue' = [queue EXCEPT ![handle[c]] = Append(@, task[c])]
  /\ pushed' = [pushed EXCEPT ![to[c]] = Append(@, task[c])]
  /\ handle' = [handle EXCEPT ![c] = None]
  /\ Goto(c, IF task[c].kind = "promise" THEN "wait" ELSE "idle")
  /\ UNCHANGED <<thread, workers, nActive, nops, task, to, seen, kept, ran>>

SyncReturnEarly(c) ==
  /\ pc[c] = "wait"
  /\ thread[to[c]] # None
  /\ queue[thread[to[c]]] = <<>>
  /\ Goto(c, "idle")
  /\ UNCHANGED <<thread, queue, workers, nActive, nops, task, to, handle, seen, kept, history>>

SyncReturn(c) ==
  /\ pc[c] = "wait"
  /\ task[c] \in kept
  /\ Goto(c, "idle")
  /\ UNCHANGED <<thread, queue, workers, nActive, nops, task, to, handle, seen, kept, history>>

-----------------------------------------------------------------------------
(* wait_for_one: with mtx held, return or block until the count is lower;    *)
(* a wakeup, spurious ones included, is followed by another look.            *)
WaitForOne(c) ==
  /\ pc[c] = "idle"
  /\ Started < MaxOps
  /\ nops' = [nops EXCEPT ![c] = @ + 1]
  /\ seen' = [seen EXCEPT ![c] = nActive]
  /\ Goto(c, IF nActive > 1 THEN "blocked" ELSE "idle")
  /\ UNCHANGED <<thread, queue, workers, nActive, task, to, handle, kept, history>>

LookAgain(c) ==
  /\ pc[c] = "woken"
  /\ Goto(c, IF nActive < seen[c] THEN "idle" ELSE "blocked")
  /\ UNCHANGED <<thread, queue, workers, nActive, nops, task, to, handle, seen, kept, history>>

SpuriousWakeup(c) ==
  /\ pc[c] = "blocked"
  /\ Goto(c, "woken")
  /\ UNCHANGED <<thread, queue, workers, nActive, nops, task, to, handle, seen, kept, history>>

-----------------------------------------------------------------------------
(* The worker of StreamThread h takes a task, runs it and, if it is counted, *)
(* notifies its completion.                                                  *)
TakeTask(h) ==
  /\ worker[h] = "idle"
  /\ queue[h] # <<>>
  /\ taken' = [taken EXCEPT ![h] = <<Head(queue[h])>>]
  /\ queue' = [queue EXCEPT ![h] = Tail(@)]
  /\ worker' = [worker EXCEPT ![h] = "run"]
  /\ UNCHANGED <<thread, nActive, clients, kept, history>>

RunTask(h) ==
  /\ worker[h] = "run"
  /\ LET t == taken[h][1]
     IN  /\ ran' = [ran EXCEPT ![h[1]] = Append(@, t)]
         /\ kept' = IF t.kind = "promise" THEN kept \cup {t} ELSE kept
         /\ worker' = [worker EXCEPT ![h] = IF t.kind = "counted" THEN "complete" ELSE "idle"]
         /\ taken' = [taken EXCEPT ![h] = IF t.kind = "counted" THEN @ ELSE <<>>]
  /\ UNCHANGED <<thread, queue, nActive, clients, pushed>>

CompleteSilently(h) ==
  /\ worker[h] = "complete"
  /\ nActive' = nActive - 1
  /\ taken' = [taken EXCEPT ![h] = <<>>]
  /\ worker' = [worker EXCEPT ![h] = "idle"]
  /\ UNCHANGED <<thread, queue, clients, kept, history>>

CompleteAgain(h) ==
  /\ worker[h] = "complete"
  /\ nActive' = nActive - 1
  /\ taken' = [taken EXCEPT ![h] = <<>>]
  /\ \E next \in {"complete", "notify"} : worker' = [worker EXCEPT ![h] = next]
  /\ UNCHANGED <<thread, queue, clients, kept, history>>

CompleteTask(h) ==
  /\ worker[h] = "complete"
  /\ nActive' = nActive - 1
  /\ taken' = [taken EXCEPT ![h] = <<>>]
  /\ worker' = [worker EXCEPT ![h] = "notify"]
  /\ UNCHANGED <<thread, queue, clients, kept, history>>

NotifyCompletion(h) ==
  /\ worker[h] = "notify"
  /\ worker' = [worker EXCEPT ![h] = "idle"]
  /\ pc' = [c \in Client |-> Woken(c)]
  /\ UNCHANGED <<thread, queue, taken, nActive, nops, task, to, handle, seen, kept, history>>

-----------------------------------------------------------------------------
Operate(c) ==
  \/ NotifyNewTask(c) \/ Find(c) \/ Create(c) \/ Push(c)
  \/ SyncReturn(c) \/ LookAgain(c)

Work(h) == TakeTask(h) \/ RunTask(h) \/ CompleteTask(h) \/ NotifyCompletion(h)

Next ==
  \/ \E c \in Client, s \in Stream, kind \in Kind : Begin(c, s, kind)
  \/ \E c \in Client : WaitForOne(c) \/ SpuriousWakeup(c) \/ Operate(c)
  \/ \E h \in Thread : Work(h)

(* Clients and workers are threads of the operating system: an operation     *)
(* that has started goes on, and a worker runs what is in its queue.         *)
Fairness ==
  /\ \A c \in Client : WF_vars(Operate(c))
  /\ \A h \in Thread : WF_vars(Work(h))

Spec == Init /\ [][Next]_vars /\ Fairness

-----------------------------------------------------------------------------
(* However many clients meet on a new stream, its tasks run one at a time in *)
(* the order of Scheduler::enqueue, as if the stream had been one queue.     *)
StreamOrder ==
  \A s \in Stream :
    Len(ran[s]) <= Len(pushed[s]) /\ ran[s] = SubSeq(pushed[s], 1, Len(ran[s]))

(* n_active_tasks_ counts exactly the counted tasks that a client is about   *)
(* to enqueue, that wait, or that a worker has not reported yet: it never    *)
(* becomes negative and is back at zero when everything has run.             *)
Entering == {c \in Client : pc[c] \in {"notify", "find", "create", "push"}
                            /\ task[c].kind = "counted"}
Waiting(h) == {i \in 1..Len(queue[h]) : queue[h][i].kind = "counted"}
Held == {h \in Thread : taken[h] # <<>> /\ taken[h][1].kind = "counted"}
ActiveCount ==
  nActive = Cardinality(Entering) + Cardinality(Held)
            + Cardinality(UNION {{h} \X Waiting(h) : h \in Thread})

(* The threads of the streams and the count of active tasks fit each other.  *)
Consistent == TypeOK /\ ActiveCount

(* synchronize returns only after all that its client enqueued before.       *)
Mine(c, s) == {i \in 1..Len(pushed[s]) : pushed[s][i].by = c}
SynchronizeWaits ==
  [][\A c \in Client : pc[c] = "wait" /\ pc'[c] = "idle" =>
       \A i \in Mine(c, to[c]) : i <= Len(ran[to[c]])]_vars

(* wait_for_one and synchronize return once the clients stop enqueueing (they *)
(* do MaxOps operations); a client that never stops can starve wait_for_one. *)
WaitersReturn == \A c \in Client : pc[c] \in {"blocked", "woken", "wait"} ~> pc[c] = "idle"

=============================================================================
