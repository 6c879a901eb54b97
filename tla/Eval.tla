--------------------------------- MODULE Eval ---------------------------------
(***************************************************************************)
(* eval and async_eval on the CPU back end (mlx/transforms.cpp): one client   *)
(* thread walks the graph and hands tasks to the streams; the streams run    *)
(* them concurrently, each in its own order, kept apart by fences (inside    *)
(* one call) and events (between calls).                                     *)
(*                                                                         *)
(* A stream is the TaskQueue that StreamThread implements: log[s] is what    *)
(* has been enqueued, done[s] how much of it has finished.  An array of the  *)
(* model has a primitive; data given by the user is always available and is  *)
(* left out.  Siblings are the outputs of one primitive.                     *)
(***************************************************************************)
EXTENDS Integers, Sequences, FiniteSets

CONSTANTS
  Prim, Array, Stream,
  Ins,       \* Ins[p]: the arrays that p reads
  Outs,      \* Outs[p]: the arrays that p produces
  StreamOf,  \* StreamOf[p]: the stream p was built with
  Sync,      \* the Synchronizer primitive of a call
  Requests,  \* the lists of outputs that clients ask for, as sets
  DispatchesPerTask, MaxActive,  \* DISPATCHES_PER_TASK, MAX_ACTIVE_TASKS
  MaxCalls   \* bound on the number of calls that schedule something

Maker(b) == CHOOSE p \in Prim : b \in Outs[p]

ASSUME EvalAssumption ==
  /\ Ins \in [Prim -> SUBSET Array]
  /\ Outs \in [Prim -> SUBSET Array]
  /\ StreamOf \in [Prim -> Stream]
  /\ \A b \in Array : \E p \in Prim : b \in Outs[p]
  /\ \A p, r \in Prim : Outs[p] \cap Outs[r] # {} => p = r
  /\ Sync \notin Prim
  /\ Requests \subseteq SUBSET Array
  /\ DispatchesPerTask \in Nat \ {0}
  /\ MaxActive \in Nat
  /\ MaxCalls \in Nat

Ticket == (1..MaxCalls) \X Stream   \* <<call, stream>>: names an event or a fence

(* What a stream runs.  A counted task ends with notify_task_completion; n   *)
(* is the count that a fence task carries.                                   *)
Task ==
  [op : {"compute", "release"}, arg : Prim \cup {Sync}, n : {0}, counted : BOOLEAN]
  \cup
  [op : {"fenceWait", "fenceUpdate", "eventWait", "signal"}, arg : Ticket,
   n : Nat, counted : {FALSE}]

VARIABLES
  status, event,            \* per array: its status and the event attached to it
  log, done,                \* per stream: tasks enqueued, how many have finished
  count, value, signaled,   \* fences: updates issued, value reached; events reached
  nOps, nActive,            \* CommandEncoder::num_ops_, Scheduler::n_active_tasks_
  pc, call, async, targets, \* the client: where it is, its call and arguments
  home,                     \* the stream of the synchronizer
  plan, pending,            \* primitives of this call; those not yet processed
  cur, todo,                \* the node being processed; its arrays still to visit
  open,                     \* open_streams
  seen                      \* n_tasks_old of wait_for_one

arrays == <<status, event>>
queues == <<log, done>>
flags == <<count, value, signaled>>
active == <<nOps, nActive>>
args == <<call, async, targets, home, plan>>
walk == <<pending, cur, todo, open, seen>>
vars == <<arrays, queues, flags, active, pc, args, walk>>

None == <<>>   \* the event of an array without one

StreamTypes ==
  /\ log \in [Stream -> Seq(Task)]
  /\ done \in [Stream -> Nat]
  /\ \A s \in Stream : done[s] <= Len(log[s])
  /\ count \in [Ticket -> Nat]
  /\ value \in [Ticket -> Nat]
  /\ signaled \subseteq Ticket
  /\ nOps \in [Stream -> 0..DispatchesPerTask - 1]
  /\ nActive \in Int

Places == {"idle", "ready", "next", "inputs", "dispatch", "release", "throttle",
           "waitOne", "blocked", "relieved", "publish", "signal", "wait"}

ClientTypes ==
  /\ status \in [Array -> {"unscheduled", "evaluated", "available"}]
  /\ event \in [Array -> Ticket \cup {None}]
  /\ pc \in Places
  /\ call \in 0..MaxCalls
  /\ async \in BOOLEAN
  /\ targets \subseteq Array
  /\ home \in Stream
  /\ plan \subseteq Prim /\ pending \subseteq plan
  /\ cur \in Prim \cup {Sync}
  /\ todo \subseteq Array
  /\ open \subseteq Stream
  /\ seen \in Int

TypeOK == StreamTypes /\ ClientTypes

Init ==
  /\ status = [b \in Array |-> "unscheduled"]
  /\ event = [b \in Array |-> None]
  /\ log = [s \in Stream |-> <<>>]
  /\ done = [s \in Stream |-> 0]
  /\ count = [t \in Ticket |-> 0]
  /\ value = [t \in Ticket |-> 0]
  /\ signaled = {}
  /\ nOps = [s \in Stream |-> 0]
  /\ nActive = 0
  /\ pc = "idle"
  /\ call = 0
  /\ async = FALSE
  /\ targets = {}
  /\ home \in Stream
  /\ plan = {} /\ pending = {}
  /\ cur = Sync
  /\ todo = {}
  /\ open = {}
  /\ seen = 0

-----------------------------------------------------------------------------
(* Wrong variants stand before some of the definitions below: the mutants of *)
(* PROJECT.json, with which the properties are put to the test.              *)

(* The graph of the call in progress: the primitives of the plan and, on the *)
(* stream of the first unscheduled output, the synchronizer that reads all   *)
(* the outputs.                                                              *)
NodeIns(n) == IF n = Sync THEN targets ELSE Ins[n]
NodeOuts(n) == IF n = Sync THEN {} ELSE Outs[n]
NodeStream(n) == IF n = Sync THEN home ELSE StreamOf[n]

(* The primitives that the depth-first walk reaches from T through arrays    *)
(* that nobody has scheduled.                                                *)
Reached(T) ==
  LET Closed(P) ==
        \A b \in T \cup UNION {Ins[p] : p \in P} :
          status[b] = "unscheduled" => Maker(b) \in P
  IN  {p \in Prim : \A P \in SUBSET Prim : Closed(P) => p \in P}

NeedsFenceInside ==
  {b \in Array :
     /\ Maker(b) \in plan
     /\ \E n \in plan : b \in Ins[n] /\ StreamOf[n] # StreamOf[Maker(b)]}

(* needs_fence: arrays of this call that a node of another stream reads.     *)
NeedsFence ==
  {b \in Array :
     /\ Maker(b) \in plan
     /\ \E n \in plan \cup {Sync} :
          b \in NodeIns(n) /\ NodeStream(n) # StreamOf[Maker(b)]}

(* The fences and the events of a call are local to it, one per stream.      *)
Of(s) == <<call, s>>

(* Enqueue a task that no encoder counts: a fence or an event.               *)
Enqueue(s, op, arg, n) ==
  log' = [log EXCEPT ![s] =
            Append(@, [op |-> op, arg |-> arg, n |-> n, counted |-> FALSE])]

(* CommandEncoder::dispatch: every DISPATCHES_PER_TASK-th task is counted.   *)
NextOp(s) == (nOps[s] + 1) % DispatchesPerTask
Counts(s) == NextOp(s) = 0

Dispatch(s, op, arg) ==
  /\ nOps' = [nOps EXCEPT ![s] = NextOp(s)]
  /\ nActive' = IF Counts(s) THEN nActive + 1 ELSE nActive
  /\ log' = [log EXCEPT ![s] =
               Append(@, [op |-> op, arg |-> arg, n |-> 0, counted |-> Counts(s)])]

(* array::is_available, as a test.                                           *)
IsAvailable(b) ==
  \/ status[b] = "available"
  \/ status[b] = "evaluated" /\ (event[b] = None \/ event[b] \in signaled)

-----------------------------------------------------------------------------
(* The client, between calls.                                                *)

Start(T, isAsync) ==
  /\ pc = "idle"
  /\ call < MaxCalls
  /\ \E b \in T : status[b] = "unscheduled" /\ home' = StreamOf[Maker(b)]
  /\ call' = call + 1
  /\ async' = isAsync
  /\ targets' = T
  /\ plan' = Reached(T)
  /\ pending' = Reached(T)
  /\ open' = {}
  /\ pc' = "next"
  /\ UNCHANGED <<arrays, queues, flags, active, cur, todo, seen>>

(* eval and async_eval of outputs some of which nobody has scheduled.        *)
EvalCall(T) == Start(T, FALSE)
AsyncEvalCall(T) == Start(T, TRUE)

(* eval when nothing is left to schedule: wait for the outputs one by one.   *)
(* async_eval returns at once.  array::eval and array::wait are the case of  *)
(* one output.                                                               *)
EvalScheduled(T) ==
  /\ pc = "idle"
  /\ T # {}
  /\ \A b \in T : status[b] # "unscheduled"
  /\ todo' = T
  /\ pc' = "ready"
  /\ UNCHANGED <<arrays, queues, flags, active, args, pending, cur, open, seen>>

WaitArrayNow(b) ==
  /\ pc = "ready"
  /\ b \in todo
  /\ status' = [status EXCEPT ![b] = "available"]
  /\ event' = [event EXCEPT ![b] = None]
  /\ todo' = todo \ {b}
  /\ UNCHANGED <<queues, flags, active, pc, args, pending, cur, open, seen>>

(* array::wait, past the point where it blocks.                              *)
WaitArray(b) ==
  /\ pc = "ready"
  /\ b \in todo
  /\ IsAvailable(b)
  /\ status' = [status EXCEPT ![b] = "available"]
  /\ event' = [event EXCEPT ![b] = None]
  /\ todo' = todo \ {b}
  /\ UNCHANGED <<queues, flags, active, pc, args, pending, cur, open, seen>>

WaitedAll ==
  /\ pc = "ready"
  /\ todo = {}
  /\ pc' = "idle"
  /\ UNCHANGED <<arrays, queues, flags, active, args, walk>>

(* array::is_available called by a client records what it finds.             *)
AskAvailable(b) ==
  /\ pc = "idle"
  /\ status[b] = "evaluated"
  /\ IsAvailable(b)
  /\ status' = [status EXCEPT ![b] = "available"]
  /\ event' = [event EXCEPT ![b] = None]
  /\ UNCHANGED <<queues, flags, active, pc, args, walk>>

-----------------------------------------------------------------------------
(* eval_impl, one node of the tape at a time.  The tape is any order in      *)
(* which a node comes after the makers of what it reads (GraphTape); the     *)
(* synchronizer is its last node.                                            *)

Take(n) ==
  /\ pc = "next"
  /\ pending' = pending \ {n}
  /\ cur' = n
  /\ open' = open \cup {NodeStream(n)}
  /\ event' = IF async
              THEN [b \in Array |-> IF b \in NodeOuts(n)
                                    THEN Of(NodeStream(n)) ELSE event[b]]
              ELSE event
  /\ todo' = NodeIns(n)
  /\ pc' = "inputs"
  /\ UNCHANGED <<status, queues, flags, active, args, seen>>

ReadyAlways(n) == n \in pending

Ready(n) == \A b \in NodeIns(n) : Maker(b) \notin pending

TakePrimitive == \E p \in pending : Ready(p) /\ Take(p)
TakeSynchronizer == pending = {} /\ Take(Sync)

WaitFenceValue(b, s) ==
  /\ LET f == Of(StreamOf[Maker(b)])
     IN  Enqueue(s, "fenceWait", f, value[f])
  /\ UNCHANGED event

(* One input: a fence if it was made in this call for another stream, an     *)
(* event if an earlier call is still computing it on another stream.         *)
WaitFence(b, s) ==
  /\ LET f == Of(StreamOf[Maker(b)])
     IN  Enqueue(s, "fenceWait", f, count[f])
  /\ UNCHANGED event

WaitEvent(b, s) ==
  /\ event[b] # None
  /\ IF event[b] \in signaled
     THEN event' = [event EXCEPT ![b] = None] /\ UNCHANGED log
     ELSE /\ IF event[b][2] # s
             THEN Enqueue(s, "eventWait", event[b], 0)
             ELSE UNCHANGED log
          /\ UNCHANGED event

NoWait(b) == event[b] = None /\ UNCHANGED <<log, event>>

AwaitInput(b) ==
  /\ pc = "inputs"
  /\ b \in todo
  /\ IF b \in NeedsFence
     THEN WaitFence(b, NodeStream(cur))
     ELSE WaitEvent(b, NodeStream(cur)) \/ NoWait(b)
  /\ todo' = todo \ {b}
  /\ UNCHANGED <<status, done, flags, active, pc, args, pending, cur, open, seen>>

InputsDone ==
  /\ pc = "inputs"
  /\ todo = {}
  /\ pc' = "dispatch"
  /\ UNCHANGED <<arrays, queues, flags, active, args, walk>>

(* cpu::eval: eval_cpu dispatches the computation (that of the synchronizer  *)
(* is empty), then a task that holds the buffers until it has run.           *)
DispatchCompute ==
  /\ pc = "dispatch"
  /\ IF cur = Sync
     THEN UNCHANGED <<log, active>>
     ELSE Dispatch(StreamOf[cur], "compute", cur)
  /\ pc' = "release"
  /\ UNCHANGED <<arrays, done, flags, args, walk>>

DispatchRelease ==
  /\ pc = "release"
  /\ Dispatch(NodeStream(cur), "release", cur)
  /\ pc' = "throttle"
  /\ UNCHANGED <<arrays, done, flags, args, walk>>

(* Back pressure.  Whether the active memory is over its limit is not        *)
(* modelled: it may be at any time.                                          *)
Throttle ==
  /\ pc = "throttle"
  /\ \/ nActive > 0 /\ pc' = "waitOne" /\ UNCHANGED todo
     \/ nActive <= MaxActive /\ pc' = "publish" /\ todo' = NodeOuts(cur)
  /\ UNCHANGED <<arrays, queues, flags, active, args, pending, cur, open, seen>>

(* Scheduler::wait_for_one                                                   *)
WaitForOne ==
  /\ pc = "waitOne"
  /\ seen' = nActive
  /\ pc' = IF nActive > 1 THEN "blocked" ELSE "relieved"
  /\ UNCHANGED <<arrays, queues, flags, active, args, pending, cur, todo, open>>

OneCompleted ==
  /\ pc = "blocked"
  /\ nActive < seen
  /\ pc' = "relieved"
  /\ UNCHANGED <<arrays, queues, flags, active, args, walk>>

Relieved ==
  /\ pc = "relieved"
  /\ \/ nActive > 0 /\ pc' = "waitOne" /\ UNCHANGED todo
     \/ pc' = "publish" /\ todo' = NodeOuts(cur)
  /\ UNCHANGED <<arrays, queues, flags, active, args, pending, cur, open, seen>>

UpdateFenceBefore(f, s) ==
  /\ count' = [count EXCEPT ![f] = @ + 1]
  /\ Enqueue(s, "fenceUpdate", f, count[f])

(* The outputs of the node are evaluated: scheduled, perhaps not computed.   *)
UpdateFence(f, s) ==
  /\ count' = [count EXCEPT ![f] = @ + 1]
  /\ Enqueue(s, "fenceUpdate", f, count[f] + 1)

Publish(b) ==
  /\ pc = "publish"
  /\ b \in todo
  /\ status' = [status EXCEPT ![b] = "evaluated"]
  /\ IF b \in NeedsFence
     THEN UpdateFence(Of(StreamOf[cur]), StreamOf[cur])
     ELSE UNCHANGED <<count, log>>
  /\ todo' = todo \ {b}
  /\ UNCHANGED <<event, done, value, signaled, active, pc, args, pending, cur, open, seen>>

Published ==
  /\ pc = "publish"
  /\ todo = {}
  /\ pc' = IF cur = Sync THEN "signal" ELSE "next"
  /\ UNCHANGED <<arrays, queues, flags, active, args, walk>>

HasEventAsync(s) == async

(* The end of the call: the events of its streams are signaled behind all    *)
(* that was enqueued.  A synchronous call has one, that of the synchronizer. *)
HasEvent(s) == async \/ s = home

SignalStream(s) ==
  /\ pc = "signal"
  /\ s \in open
  /\ IF HasEvent(s) THEN Enqueue(s, "signal", Of(s), 0) ELSE UNCHANGED log
  /\ open' = open \ {s}
  /\ UNCHANGED <<arrays, done, flags, active, pc, args, pending, cur, todo, seen>>

Signaled ==
  /\ pc = "signal"
  /\ open = {}
  /\ pc' = IF async THEN "idle" ELSE "wait"
  /\ UNCHANGED <<arrays, queues, flags, active, args, walk>>

(* eval waits for the synchronizer.                                          *)
EvalReturn ==
  /\ pc = "wait"
  /\ Of(home) \in signaled
  /\ pc' = "idle"
  /\ UNCHANGED <<arrays, queues, flags, active, args, walk>>

-----------------------------------------------------------------------------
PassesEarly(t) ==
  /\ t.op = "fenceWait" => value[t.arg] + 1 >= t.n
  /\ t.op = "eventWait" => t.arg \in signaled

(* A stream runs the task at its front; a wait holds it until its condition  *)
(* is met.  Every update runs on the stream of its fence, every signal on    *)
(* the stream of its event.                                                  *)
Passes(t) ==
  /\ t.op = "fenceWait" => value[t.arg] >= t.n
  /\ t.op = "eventWait" => t.arg \in signaled

Run(s) ==
  /\ done[s] < Len(log[s])
  /\ LET t == log[s][done[s] + 1]
     IN  /\ Passes(t)
         /\ value' = IF t.op = "fenceUpdate" THEN [value EXCEPT ![t.arg] = t.n] ELSE value
         /\ signaled' = IF t.op = "signal" THEN signaled \cup {t.arg} ELSE signaled
         /\ nActive' = IF t.counted THEN nActive - 1 ELSE nActive
  /\ done' = [done EXCEPT ![s] = @ + 1]
  /\ UNCHANGED <<arrays, log, count, nOps, pc, args, walk>>

-----------------------------------------------------------------------------
Walk ==
  \/ TakePrimitive \/ TakeSynchronizer
  \/ (\E b \in Array : AwaitInput(b)) \/ InputsDone
  \/ DispatchCompute \/ DispatchRelease
  \/ Throttle \/ WaitForOne \/ OneCompleted \/ Relieved
  \/ (\E b \in Array : Publish(b)) \/ Published
  \/ (\E s \in Stream : SignalStream(s)) \/ Signaled
  \/ EvalReturn

Client ==
  \/ \E T \in Requests : EvalCall(T) \/ AsyncEvalCall(T) \/ EvalScheduled(T)
  \/ \E b \in Array : AskAvailable(b)

Wait == (\E b \in Array : WaitArray(b)) \/ WaitedAll

Next ==
  \/ Client
  \/ Wait
  \/ Walk
  \/ \E s \in Stream : Run(s)

(* A call that has started goes on and every stream runs what it can; no     *)
(* client has to call again.                                                 *)
Fairness ==
  /\ WF_vars(Walk)
  /\ WF_vars(Wait)
  /\ \A s \in Stream : WF_vars(Run(s))

Spec == Init /\ [][Next]_vars /\ Fairness

-----------------------------------------------------------------------------
(* Where in its stream the computation of p is, and whether it has run.      *)
Positions(p) ==
  {i \in 1..Len(log[StreamOf[p]]) :
     log[StreamOf[p]][i].op = "compute" /\ log[StreamOf[p]][i].arg = p}

Ran(p) == \E i \in Positions(p) : i <= done[StreamOf[p]]

(* No primitive runs before everything it reads has been computed, on        *)
(* whatever streams and in whatever calls that happens.                      *)
InputsReady == \A p \in Prim : Ran(p) => \A b \in Ins[p] : Ran(Maker(b))

(* When the client has the control, an array that is_available reports as    *)
(* available has been computed.                                              *)
AvailableIsComputed ==
  pc = "idle" => \A b \in Array : IsAvailable(b) => Ran(Maker(b))

(* Whatever is asked for, and how often, a primitive is dispatched once.      *)
Once == \A p \in Prim : \A k, l \in Positions(p) : k = l

(* What a scheduled array was made from is scheduled too: a later walk that   *)
(* meets a scheduled array may stop there (GraphTape).                       *)
ScheduledClosed ==
  \A b \in Array : status[b] # "unscheduled" =>
    \A x \in Ins[Maker(b)] : status[x] # "unscheduled"

(* eval, async_eval and the waits for arrays return.                         *)
CallsReturn == pc # "idle" ~> pc = "idle"

(* No stream stays behind a wait for ever: whatever is enqueued runs.        *)
StreamsDrain ==
  \A s \in Stream : done[s] < Len(log[s]) ~> done[s] = Len(log[s])

(* Evaluation keeps the promise of Dataflow.                                 *)
Computed == {p \in Prim : Ran(p)}
Abstract == INSTANCE Dataflow WITH
  computed <- Computed,
  available <- {b \in Array : status[b] = "available"}

DataflowSpec == Abstract!Spec

=============================================================================
