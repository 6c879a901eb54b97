----------------------------- MODULE StreamThread -----------------------------
(***************************************************************************)
(* scheduler::StreamThread (mlx/scheduler.h): one worker thread that runs    *)
(* the tasks of one CPU stream.  Clients call enqueue; the owner destroys    *)
(* the object.  Every critical section of mtx is one step; the notify that   *)
(* follows it, outside the lock, is another, so that a wakeup can be late.   *)
(***************************************************************************)
EXTENDS Naturals, Sequences, FiniteSets

CONSTANTS
  Client,   \* threads that call enqueue
  Task,     \* the tasks they enqueue
  MaxTasks  \* bound on the number of accepted tasks

ASSUME StreamThreadAssumption ==
  /\ MaxTasks \in Nat
  /\ Client # {}

VARIABLES
  q,       \* the queue of accepted tasks nobody has taken
  stop,    \* the stop flag
  worker,  \* where the worker is: "ready" to lock mtx, "blocked" in cond.wait,
           \* "running" the task it took, or "returned"
  taken,   \* <<t>> while the worker runs t, <<>> otherwise
  caller,  \* for each client, "idle" or about to "notify" after unlocking
  owner,   \* the destructor: "alive", "notify", "join" or "destroyed"
  accepted, ran  \* histories: tasks accepted by enqueue, tasks that finished

vars == <<q, stop, worker, taken, caller, owner, accepted, ran>>

TypeOK ==
  /\ q \in Seq(Task)
  /\ stop \in BOOLEAN
  /\ worker \in {"ready", "blocked", "running", "returned"}
  /\ taken \in Seq(Task) /\ Len(taken) <= 1
  /\ caller \in [Client -> {"idle", "notify"}]
  /\ owner \in {"alive", "notify", "join", "destroyed"}
  /\ accepted \in Seq(Task)
  /\ ran \in Seq(Task)

Init ==
  /\ q = <<>>
  /\ stop = FALSE
  /\ worker = "ready"
  /\ taken = <<>>
  /\ caller = [c \in Client |-> "idle"]
  /\ owner = "alive"
  /\ accepted = <<>>
  /\ ran = <<>>

(* cond.notify_one(): the only thread that waits on cond is the worker.      *)
Notify == worker' = IF worker = "blocked" THEN "ready" ELSE worker

(* Wrong variants, each before the step it would replace, with which the     *)
(* properties are put to the test (the mutants of PROJECT.json).             *)
(* enqueue under the lock: throws when stopped (no state changes), otherwise *)
(* the task is appended and the client goes on to notify.                    *)
Enqueue(c, t) ==
  /\ caller[c] = "idle"
  /\ owner # "destroyed"
  /\ ~stop
  /\ Len(accepted) < MaxTasks
  /\ q' = Append(q, t)
  /\ accepted' = Append(accepted, t)
  /\ caller' = [caller EXCEPT ![c] = "notify"]
  /\ UNCHANGED <<stop, worker, taken, owner, ran>>

NotifyOnlyBacklog(c) ==
  /\ caller[c] = "notify"
  /\ caller' = [caller EXCEPT ![c] = "idle"]
  /\ IF Len(q) > 1 THEN Notify ELSE UNCHANGED worker
  /\ UNCHANGED <<q, stop, taken, owner, accepted, ran>>

EnqueueNotify(c) ==
  /\ caller[c] = "notify"
  /\ caller' = [caller EXCEPT ![c] = "idle"]
  /\ Notify
  /\ UNCHANGED <<q, stop, taken, owner, accepted, ran>>

(* thread_fn, the critical section: the predicate of cond.wait is evaluated  *)
(* with mtx held; false blocks and releases mtx in one step.                 *)
Block ==
  /\ worker = "ready"
  /\ q = <<>> /\ ~stop
  /\ worker' = "blocked"
  /\ UNCHANGED <<q, stop, taken, caller, owner, accepted, ran>>

ReturnOnStop ==
  /\ worker = "ready"
  /\ stop
  /\ worker' = "returned"
  /\ UNCHANGED <<q, stop, taken, caller, owner, accepted, ran>>

Return ==
  /\ worker = "ready"
  /\ q = <<>> /\ stop
  /\ worker' = "returned"
  /\ UNCHANGED <<q, stop, taken, caller, owner, accepted, ran>>

TakeWithoutPop ==
  /\ worker = "ready"
  /\ q # <<>>
  /\ taken' = <<Head(q)>>
  /\ worker' = "running"
  /\ UNCHANGED <<q, stop, caller, owner, accepted, ran>>

TakeWholeQueue ==
  /\ worker = "ready"
  /\ q # <<>>
  /\ taken' = q
  /\ q' = <<>>
  /\ worker' = "running"
  /\ UNCHANGED <<stop, caller, owner, accepted, ran>>

Take ==
  /\ worker = "ready"
  /\ q # <<>>
  /\ taken' = <<Head(q)>>
  /\ q' = Tail(q)
  /\ worker' = "running"
  /\ UNCHANGED <<stop, caller, owner, accepted, ran>>

(* task(), outside the lock, and back to the top of the loop.                *)
RunTask ==
  /\ worker = "running"
  /\ ran' = Append(ran, taken[1])
  /\ taken' = <<>>
  /\ worker' = "ready"
  /\ UNCHANGED <<q, stop, caller, owner, accepted>>

(* std::condition_variable::wait may return without a notification; the      *)
(* predicate is then evaluated again.                                        *)
SpuriousWakeup ==
  /\ worker = "blocked"
  /\ worker' = "ready"
  /\ UNCHANGED <<q, stop, taken, caller, owner, accepted, ran>>

(* ~StreamThread: stop under the lock, notify_one, join.                     *)
DestroyStop ==
  /\ owner = "alive"
  /\ stop' = TRUE
  /\ owner' = "notify"
  /\ UNCHANGED <<q, worker, taken, caller, accepted, ran>>

DestroyWithoutNotify ==
  /\ owner = "notify"
  /\ owner' = "join"
  /\ UNCHANGED <<q, stop, worker, taken, caller, accepted, ran>>

DestroyNotify ==
  /\ owner = "notify"
  /\ owner' = "join"
  /\ Notify
  /\ UNCHANGED <<q, stop, taken, caller, accepted, ran>>

DestroyJoin ==
  /\ owner = "join"
  /\ worker = "returned"
  /\ owner' = "destroyed"
  /\ UNCHANGED <<q, stop, worker, taken, caller, accepted, ran>>

Worker == Block \/ Return \/ Take \/ RunTask
Destroy == DestroyNotify \/ DestroyJoin

Next ==
  \/ \E c \in Client, t \in Task : Enqueue(c, t)
  \/ \E c \in Client : EnqueueNotify(c)
  \/ Worker
  \/ SpuriousWakeup
  \/ DestroyStop
  \/ Destroy

(* Threads are scheduled by the operating system: the worker, a client that  *)
(* has unlocked and a destructor that has started go on.  Nobody has to      *)
(* enqueue or destroy, and a spurious wakeup never has to come.              *)
Fairness ==
  /\ WF_vars(Worker)
  /\ WF_vars(Destroy)
  /\ \A c \in Client : WF_vars(EnqueueNotify(c))

Spec == Init /\ [][Next]_vars /\ Fairness

-----------------------------------------------------------------------------
(* Nothing accepted is lost, duplicated or reordered between the queue, the  *)
(* hand of the worker and what has run (thread_fn moves the front out of q   *)
(* and runs it after unlocking).                                             *)
FIFO == accepted = ran \o taken \o q

(* The worker returns, and with it the destructor, only when every accepted  *)
(* task has run: stop alone does not end the loop.                           *)
DrainedBeforeReturn ==
  worker = "returned" => stop /\ ran = accepted

(* The wakeup that matters is never lost: a worker blocked while there is    *)
(* work or a stop has a notification still on its way.                       *)
NoLostWakeup ==
  worker = "blocked" /\ (q # <<>> \/ stop) =>
    \/ \E c \in Client : caller[c] = "notify"
    \/ owner = "notify"

(* Every accepted task is executed, whatever the interleaving of enqueues    *)
(* with the worker going to sleep.                                           *)
AllAcceptedRun == \A n \in 1..MaxTasks : Len(accepted) >= n ~> Len(ran) >= n

(* A destructor that has started always gets past join.                      *)
DestructorReturns == stop ~> owner = "destroyed"

(* The stream keeps the promise of TaskQueue.                                *)
Queue == INSTANCE TaskQueue WITH
  accepted <- accepted, executed <- Len(ran), closed <- stop

QueueSpec == Queue!Spec

=============================================================================
