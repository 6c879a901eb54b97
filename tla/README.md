# TLA+ models of MLX (mlx-SpQt)

MLX is an array framework with lazy evaluation: operations build a graph, and
`eval` walks it, hands computations to streams and returns arrays that may still
be computing.  What can go wrong is what happens between the client thread, the
streams, the GPU and other machines, and what one part says of its data and another
believes.  This directory models those parts, checks them with TLC on small
instances, and proves with TLAPS, for all instances, the safety of most of them.

File names below are relative to the repository; `transforms.cpp` is
`mlx/transforms.cpp` and so on.

## 1. The system

| part | state | operations | interacts through |
|---|---|---|---|
| stream thread (`scheduler.h`, `StreamThread`) | queue, `stop`, condition variable | `enqueue`, `thread_fn`, destructor | closures pushed by clients |
| scheduler (`scheduler.h/.cpp`) | `threads_`, `n_active_tasks_`, `completion_cv` | `enqueue`, `notify_new_task`, `notify_task_completion`, `wait_for_one`, `synchronize` | called by clients and by tasks on the workers |
| graph walk (`transforms.cpp` 74-219) | degrees, stack, tape, `needs_fence` | two walks inside `eval_impl` | reads and detaches the graph of `array`s |
| evaluation (`transforms.cpp` 221-345, `backend/cpu`, `backend/no_gpu`) | status and event of arrays, fences, events, encoder counts | `eval`, `async_eval`, `array::wait`, `is_available` | enqueues computations, waits and signals on streams |
| array handles (`array.cpp`) | reference counts of descriptors and buffers, siblings | copy, destructor, `detach`, donation | shared with tasks that hold buffers |
| buffer cache and allocators (`backend/common/buffer_cache.h`, `backend/metal/allocator.cpp`, `resident.cpp`) | LRU list, size index, limits, residency set | `malloc`, `free`, limits | any thread, completion handlers included |
| Metal command encoding (`backend/metal/device.cpp`, `eval.cpp`, `fence.cpp`, `event.cpp`) | input/output sets, fences of earlier encoders | set arrays, dispatch, end encoding, commit, completion | GPU queue, completion handlers |
| CUDA back end (`backend/cuda`) | worker batches, events, LRU caches | add task, commit, signal, stop | host functions called by the device |
| thread pool, file reader (`threadpool.h`, `io/load.cpp`) | queue, workers, futures | enqueue, resize, stop; batched `pread` | stream tasks that load arrays |
| ring communication (`distributed/ring`) | socket queues, promises, receive buffers | send, receive, all-reduce, all-gather | stream tasks; TCP |
| SpQt zigzag kernels (`backend/metal/quantized_zigzag.cpp`, `kernels/quantized_zigzag.h`, `extensions/mlx_spqt`) | partition of a matrix over threads, fixed-point accumulators | dense and sparse matrix-vector product | the Metal encoder |
| operations, views and kernels (`ops.cpp`, `backend/common`, `backend/cpu`) | buffer, offset, strides, flags of arrays | views that share a buffer, kernels that walk over it | kernels trust the flags that views compute |
| compile (`compile.cpp`) | tape, parents map, outputs | trace, simplify, fuse, replay | rewrites the graphs that are evaluated |
| transforms, Python | graphs | single-threaded | build the graphs above |

What is hard: notifications sent after the lock is released, tasks that wait for
tasks of other streams, arrays published before they are computed, calls that
overlap with the streams' work of earlier calls, exceptions in the middle of a tape,
counts kept by several threads, and a graph traversal whose lookups are right only
if two walks agree edge by edge; on a GPU, kernels that run in any order but for
barriers and fences inferred from sets of buffers, while the host reuses memory
behind them; between machines, packets in flight from buffers that are being
reduced into; and in one thread, flags and maps that every operation must keep
true for operations long after it.

What makes each part correct:

- stream thread: every accepted task runs once, in order; nobody sleeps through work; stop drains.
- scheduler: one thread per stream however many clients race; the count of active tasks is exact; waiters are woken; `synchronize` covers what came before.
- graph walk: the tape is the set of primitives to evaluate, each once, readers before what they read (it is evaluated from its end); fences for exactly the arrays that cross streams.
- evaluation: inputs before outputs on all streams; available means computed; one dispatch per primitive; calls return and streams drain.
- array handles: no buffer is reused while a task may touch it; no descriptor leaks or is freed twice.
- allocators: list, index and totals agree; limits hold; residency capacity holds.
- Metal encoder: two dispatches that conflict are separated by a barrier or a fence; memory is reused only when no dispatch needs it; fences do not wait in a circle.
- views and kernels: every element is what the operations say it is, and the flags kernels trust are true; where not, exactly when.
- compile: the outputs mean what they meant before, and the tape can be replayed.
- CUDA worker, thread pool, socket threads: what is accepted runs or fails visibly; stop returns.
- ring: every call returns what it is defined to on every rank: each contribution counted once, no buffer overwritten in use, nobody waiting for ever.
- zigzag kernels: every (row, column) product is added exactly once.

## 2. The modules

    TaskQueue  <-implements-  StreamThread          (StreamThreadProofs)
                                  |  its promise is assumed by
                     +------------+------------+
                 Scheduler                    Eval  -implements->  Dataflow
             (SchedulerProofs)                 |  the tape is
                                            GraphTape  (GraphTapeProofs)
                 EvalInvariant -> EvalProofs;  EvalFaults adds exceptions

    FreeList  <-implements-  BufferCache
        \____ both over ____/
              FreeBuffers  <-extends-  MetalAllocator  -implements->  Lender
                      (AllocatorProofs, for both)

    CommandEncoder  <-extends-  MetalEval  (MetalEvalProofs)
    RingPlan  <-extends-  Ring  -implements->  Collective
          RingInvariant -> RingProofs -> CollectiveProofs
    Strided  <-extends-  ArrayViews
    Compile

**TaskQueue** is what a stream promises: tasks run one at a time in order of
acceptance; a closed queue accepts nothing and still runs what it has.

**StreamThread** is the code behind it.  A critical section of `mtx` is one
step; the notification that follows, outside the lock, is another.
`worker = "blocked"` is `cond.wait`, which may also wake spuriously.  `accepted`
and `ran` are histories.  An `enqueue` after the stop throws and changes
nothing, so it is no step.

**Scheduler** models several clients.  `Find` is the lookup under the shared
lock, `Create` the second lookup and the insertion under the exclusive lock,
`Push` the `enqueue` of the stream thread (whose own steps StreamThread covers).
A *counted* operation is a dispatch that `CommandEncoder::dispatch` counts:
`Begin` increments, `NotifyNewTask` notifies, and on the worker `RunTask`,
`CompleteTask`, `NotifyCompletion` run, decrement and notify.  A *promise* is
that of `synchronize`.  The thread a client creates is named `<<stream, client>>`
so that two threads for one stream would be two queues.

**GraphTape** is the first half of `eval_impl`, one step per input looked at:
`CountInput` and `LeaveNode` are the depth-first walk (degrees of siblings
together, `needs_fence`, detach), `PickFirst`, `Resume`, `SkipScheduled`,
`Interrupt`, `Place` and `Scanned` the breadth-first walk with its width limit,
`i` and the reused stack.

**Eval** is the second half, and the calls around it.  Each location `pc` is a
place in `eval_impl`: take a node (`next`), wait for its inputs (`inputs`),
`cpu::eval` (`dispatch`, `release`), back pressure (`throttle`, `waitOne`,
`blocked`, `relieved`), publish and update fences (`publish`), signal events
(`signal`), wait for the synchronizer (`wait`).  A stream `s` is `log[s]`, what
was enqueued, and `done[s]`, how much has run; `Run(s)` runs the task at the
front, which may be a wait that holds the stream.  A fence or event is named by
the call and stream that own it.

What Eval abstracts, and why that loses nothing the properties tell apart:

- The tape is *any* order in which a node follows the makers of its inputs, and
  siblings are published, inputs visited, streams signaled in any order.
  GraphTape shows that the code's order is one of these.
- A primitive dispatches one computation; kernels that dispatch several tasks
  put them on the same stream, in order.
- Whether active memory is over its limit is nondeterministic at each test.
- Constant arrays (always available) do not appear; arrays are all outputs of
  primitives.
- `is_tracer`, detach and donation do not appear: detach removes edges of nodes
  that are already scheduled (GraphTape has it).
- One client thread calls `eval`; the streams are concurrent with it.

**EvalInvariant** states the inductive invariant, **EvalFaults** adds `Throw`:
a primitive whose `eval_cpu` throws before anything of its own is dispatched
(unsupported types, failed allocations; `softmax.cpp`, `matmul.cpp` and others
do) leaves `eval_impl`, which has no handler.

**Dataflow** is what evaluation promises whatever its streams: a primitive runs
when everything it reads is computed, an array becomes available when its maker
has run, and stays so.

**FreeBuffers** defines, for a list of free buffers with the last one given back
first, what serves a request (`BestFit`) and what is left after a release
(`Released`).  **FreeList** is the list as a state machine.  **BufferCache** is
`buffer_cache.h`: `head`, `tail`, `prev`, `next` are the linked list, `index` the
multimap in its order.  A call is one step, because the allocators hold their
mutex, except that `release_cached_buffers` takes one step for each buffer it
frees (`ReleaseSome`, `ReleaseTail`, `ReleaseReturn`), so that list, multimap and
driver are compared inside the loop too.  Its names differ from MetalAllocator's, so
that the proofs about the one can use lemmas about the other.  `exists` and `numResources` are the
driver's buffers and the allocator's count, to which the return values go.

**Lender** is what an allocator promises.  **MetalAllocator** is
`metal/allocator.cpp` with `resident.cpp`.  A section under `mutex_` is one step:
`MallocCached` is a `malloc` served by the cache, `MallocMiss` its first half
otherwise, after which the thread holds `want[t]` and no mutex, `MallocNew` and
`MallocFail` the second half; `FreeToDriver` and `Release` leave the buffer in
`doomed[t]` until `DriverRelease`.  The cache is one list here: BufferCache shows
that list and multimap are that.  `uses[b]` lists the requests the buffer
currently serves, so that giving it out twice can be said.  Differences of
`size_t` are taken modulo `SizeMod` (`Minus`).  In `ResidencySet::resize` the
order in which allocations move is that of a hash set, or the driver's, so `Grow`
and `Shrink` choose it.  A buffer's length is also its `allocatedSize`; the driver
makes a buffer of exactly the (aligned) size asked for, or has none left.

**CommandEncoder** is `CommandEncoder` of `metal/device.cpp` as operators on a record
whose fields are the members: which buffers the open encoder has read and written
(`ins`, `outs`), which writes since the last barrier (`prev`, `next`, `concOut`),
which encoder's fence covers a buffer (`table`, the code's `prev_ce_outputs_`).
`Kernel` sets inputs and outputs and dispatches; `EndEncoding` removes temporaries,
collects the fences to wait for, enters the outputs; `Completed` is the completion
handler.  The GPU (`MayRun`, `MayComplete`) is Metal as the code relies on it: a
dispatch may start when all behind earlier barriers of its encoder, and all of the
encoders its own waits for, have run; command buffers of a queue complete in order.
A fence wait holds the whole encoder, which is what `waitForFence` says on a compute
encoder.

**MetalEval** is `gpu::eval` above it.  Each action is a primitive with its calls on
the encoder: one kernel into a new or a donated buffer (`Elementwise`), through a
temporary copy, concurrent writes of parts (`Concatenate`), a view, two outputs of
which one is dropped.  `last` are the inputs nothing else in the program refers to:
their arrays are gone after the primitive, and their buffers may be donated.
`held` is what completion handlers keep alive; a buffer that nothing refers to
(`Refs`) is free at once, as the allocator hands it out again while the GPU is
behind.  Whether a command buffer is full by size is nondeterministic.  That a
donated buffer is at most 16 KiB longer than needed is left out.

**Collective** is what a group promises: every rank makes the same calls in the same
order and gets from each what it is defined to return, not before the ranks it
depends on have entered it.  **RingPlan** is the arithmetic of `ring.cpp`: parts of
a call, sockets, segments, packets, `send_plan` and `recv_plan`; **Ring** runs it.
The stream thread begins calls (`Begin`), a pool thread per part posts a send and a
receive (`Post`), awaits those of the packet before and reduces it (`Await`); a
thread per socket moves as much as the socket takes (`Send`, `Recv`), from and to
the buffers as they are at that moment.  An element is the bag of what was added
up in it, so that a contribution lost, added twice or put in the wrong place shows.
A gather and a send are walks of the same form with no reduction.

**Strided** is the index arithmetic kernels share: `elem_to_loc`,
`check_contiguity`, `collapse_contiguous_dims`, `ContiguousIterator`, the unrolled
copies, `prepare_reshape`.  **ArrayViews** holds one array `x`, as buffer, offset,
shape, strides, `data_size` and flags, beside `tensor`, what its elements should be;
each operation replaces both.  A value is the sequence of operations that made it.
Kernels follow the flags as the code does: `UnaryOf` writes the whole buffer in the
input's layout when it is contiguous, `BinaryOf` picks one of five walks.  Memory
allocated and not written reads as `Junk`.  The second operand of a binary operation
comes in four layouts and either operand's buffer may be donated; sizes stay below
those at which vectorised walks differ.  Views of which the code gets the flags wrong
are operations like any other: `SplitSlips`, `ReshapeSlips` and `TransposeSlips` name
the steps, and section 5 what they come from.

**Compile** is `compile.cpp`: `Laid` (`compile_dfs`), `ScalarsMerged`,
`NoopsRemoved`, `MergePass` (`compile_simplify`), `Fused` (`compile_fuse`), each a
step; `Replays` says what `compile_replace` needs of a tape.  `Meaning` is the
reference: the term an array stands for.  Arrays are indices of `nodes`; a node has
all outputs of its primitive in `group`, and a Compiled primitive the section it was
made from in `body`.  Operations whose primitives are equivalent have one name, on
whatever stream they run; a section stops at another stream.  The parents of an array
are tried two by two, beyond `ManyParents` of them (100) those of one kind first
(`Pairs`; the code takes the kinds in the order of a hash map, the model in the order
of the list).  `LosesScalar` and `LosesSplit` name the steps that lose a result.

**Diamond**, **MCEval**, **MCEvalFaults**, **MCGraphTape**, **MCBufferCache**,
**MCMetalAllocator**, **MCMetalEval**, **MCRing**, **MCArrayViews**, **MCCompile**
give TLC its instances.

Definitions that stand just before the one they vary (`TakeWithoutPop` before
`Take`) are wrong on purpose; nothing refers to them.  Each property was seen to
fail when one of them replaces the right definition.

## 3. The runs

| run | question | bounds |
|---|---|---|
| `stream_thread` | wakeups, drain, termination, refinement of TaskQueue | 2 clients, 2 tasks, 3 accepted |
| `scheduler` | races of clients on new streams, active count, synchronize, do waiters return | 2 clients, 2 streams, 3 operations |
| `graph_tape` | is the tape what it should be | all graphs of 3 primitives and 4 arrays, at most 2 inputs each; width 1, 2, 4 |
| `eval_diamond` | safety of evaluation, the invariant to be proved, refinement of Dataflow, do calls return and streams drain | diamond on 2 streams with siblings; 2 calls that schedule |
| `eval_faults` | what survives an exception | the same, with a throw at any node |
| `buffer_cache` | do list, multimap and totals agree, refinement of FreeList | 5 buffers, three of one length; 4 request sizes, 4 amounts to release |
| `metal_allocator` | places of buffers, accounts, limits, residency, refinement of Lender | 2 threads, 5 buffers (one on the heap, one of client memory), 2 resources, 2 values of each limit |
| `array_views` | which operations give the right elements, which keep the flags true, and which do not | shapes 2x4 and 2x1x2, 3 operations, arrays of at most 8 elements; 4 slices, 5 shapes to reshape to, 2 windows |
| `array_split` | does every chain without a reshape give the right elements | the same; fails, see section 5 |
| `metal_eval` | are conflicts ordered, is memory reused in time, can fences deadlock, does the table of fences shrink | 2 arrays in 3 buffers, 4 dispatches and 2 command buffers under way |
| `ring` | refinement of Collective, buffers in use, termination | 3 ranks, 2 sockets a side, 5 calls of every kind, sockets that hold 2 elements |
| `compile` | which passes keep what the outputs mean, and when one does not, is the parents map right, is anything computed twice | all functions of 3 or 4 operations of four families, up to 2, 3 or 4 outputs; three modes |

Why the bounds are enough for what they are meant to show.  In `stream_thread`
two clients are what it takes for a notification to be late while another
client's task is already queued; three tasks let the queue hold one while one
runs and one arrives.  In `scheduler` two clients must race on `Create`, and three
operations let one wait while the other dispatches two tasks and they complete.  In
`graph_tape` width 1 interrupts every node with two inputs, 2 some, 4 none; three
primitives are the least for which a node is reached by two paths of different
length.  In `eval_diamond`, `d` reads arrays of its own stream and of another,
`q` is read across streams twice, an asynchronous first call of `{a}`, `{b1}` or
`{a, b2}` leaves events that the second call meets unsignaled, signaled or
detached; `DispatchesPerTask = 2` and `MaxActive = 1` (10 and 10 in the code)
bring counted tasks and back pressure into reach of six dispatches.  In
`buffer_cache` three equal lengths are what it takes to have one before, one
behind and one being removed among equals, in list and multimap.  In
`metal_allocator` a request of 2 may be served by the buffer of 3 but not by that
of 8, 5 is rounded up to 8, two threads can both pass the test of a limit of two
resources, and the memory limits 6 and 9 are met from below, exactly and from
above; `SizeMod` is larger than any sum, as 2^64 is.  In `array_views` three
operations are a view, a view of it that computes flags from flags, and the kernel
that trusts them; 2x4 tells rows from columns and 2x1x2 has an axis of length 1,
where strides mean nothing; one window shows elements twice; `InnerDims = 1` (3 in the code) lets two dimensions reach
the outer counter of the copies.  In `metal_eval` four dispatches let two encoders, in
one command buffer or two, be under way behind one that has completed, and three
buffers let one be handed out again while both arrays still exist.  In `ring` three
ranks are the least with a segment that is neither sent nor received first; two
elements are padded, five are cut into packets with a short last one, and a socket
holds less than a call sends.  In `compile` four operations let a section have an
inner output and a reader outside, and lower bounds (`MaxDepth` 3 for 11, `MaxArrays`
3 for 24, `ManyParents` 3 for 100) bring the limits into reach; four outputs let all
of two splits be returned.  What the proofs cover does not depend on the instance.

Two runs state exactly where the code departs from what it should do.  FlagsTrue and
SameResult are equivalences: from a good state, a step leads to a good state if and
only if it is not one of the steps named in the property, three for flags, two for
compile.  Nothing is kept out of these runs: each named step is taken in them, goes
wrong in every case of the instance, and no other step does.  ElementsKept adds that elements can only go
wrong behind an array whose flags are wrong already.

`CHECK_DEADLOCK FALSE` is set for the streams, evaluation, the GPU, the ring and
compile: clients need not call again, a queue may stay empty, calls and passes come
to an end, so these systems may stop; the buffer cache and the allocator never do.  That they do not stop where they should go on
is what the liveness properties say.

**Fairness.**  Weak fairness of a thread's steps: the operating system schedules
every thread, and a condition variable or mutex that can be passed is passed in
the end.  In StreamThread the worker, a client that has unlocked and a
destructor that has begun go on; in Scheduler a started operation and every
worker; in Eval the started call, the waits and every stream; in GraphTape the
one thread.  In Ring a single `WF_vars(Next)` is enough: every step moves an element
or a plan forward and none can be undone, so that some behaviour stops short only if
all threads of all ranks wait.  Never assumed: that a client calls, destroys or enqueues, and that
spurious wakeups come.  `WaitersReturn` holds because the clients do finitely
many operations; a client that keeps enqueueing can keep the count from ever
being seen below what `wait_for_one` has noted.

## 4. What is proved

TLAPS checks all of it, for all constants that satisfy the named assumptions, which
TLC evaluates on the instances:

- `StreamThreadAssumption`, `SchedulerAssumption`, `EvalAssumption`,
  `MetalEvalAssumption`, `FreeBuffersAssumption`, `BufferCacheAssumption`,
  `MetalAllocatorAssumption`: types, every array has one maker, bounds are natural
  numbers, lengths and requests are positive, threads, buffers and the arrays of a GPU
  stream are finite sets.
- `SizesFit`: all buffers together and one request more are less than `SizeMod`, which
  is 2^64, so that the sums that `malloc` compares do not wrap around.
- `RingPlanAssumption`: sizes are positive, there are at least two ranks, and no part
  of an all-reduce is empty.  The last is `2 * Links - 1 <= Size * MinSend`: a buffer
  is cut into at most two parts for each link, only when each has `MinSend` elements
  for each rank, and `min_send_size` is 262144 bytes, far more than there are links.
- `GraphTapeAssumption`: arrays and primitives have their types, the primitives are
  finitely many; a graph has no cycle (`Acyclic`: an array is made from arrays that
  exist), and what a scheduled primitive reads has been scheduled (`ScheduledFirst`,
  which InputsScheduled of Eval says of every call).
- `RingAssumption`: a connection holds at least one element, ranks call for some
  elements, and send to a neighbour, as `RingGroup::send` insists.

Eval needs no acyclicity: a cyclic graph would leave its walk without a ready node,
and nothing is claimed of it.  GraphTape does: on a cycle no degree would come to
zero, and the tape would be short.

*StreamThreadProofs*: `IInv` is the type invariant with FIFO,
DrainedBeforeReturn, NoLostWakeup and what the worker's place says of `taken`.
From it `TypeCorrect`, `Ordered`, `WakeupPending`, and `ImplementsTaskQueue`,
the step simulation of TaskQueue.

*SchedulerProofs*: StreamOrder alone says nothing of the queues.  The invariant `IInv`
says that a stream has one thread and those that lost the race to be it do nothing
(`OneThread`, `Unused`); that what a stream was given is what has run, what its worker
holds and what waits, in this order (`OneQueue`); that the tasks of a client bear
ascending numbers and none is in two places (`Numbered`); that a promise that is set
has run (`KeptRan`); and that `n_active_tasks_` is the number of counted tasks that
wait, are in a worker's hands, or are about to be enqueued (`Counted`).  The last
is a sum over queues; it is kept as the cardinality of a set of pairs, and each step
moves one pair or, when a queue loses its front, renumbers the pairs of it (`MoveUp`).  From these `InStreamOrder`,
`CountIsExact` and `SynchronizeIsComplete`.

*GraphTapeProofs*: TapeRight speaks of the finished tape; the reasons lie in degrees
that are counted in one walk and taken off in another.  The proof is about *edges*,
`<<reader, k>>` for the k-th input of a reader, siblings being one reader.  While the
depth-first walk goes on, the degree of an array is the number of edges to its maker
that have been looked at (`Counting`, with `Looked`: the reader has been reached and is
not on the stack below that input); it is the cardinality of a set of edges, and each
step adds at most one to the set.  When the walk ends, all edges from what is needed
have been looked at, and the primitives reached are the needed ones (`StartStep`).  While
the breadth-first walk goes on, the degree is the number of edges that have not been
passed (`Degrees`, with `Passed`: the reader is on the tape, scanned, and not interrupted
below that input), and a scan interrupted and resumed passes none twice
(`InterruptStep`, `ResumeStep`).  A degree of one is therefore the last edge: every reader
is on the tape already (`Order`).  When nothing is left to scan, everything is placed
(`AllPlaced`): of what is not, acyclicity gives a primitive that none of the others
reads; its degree is not zero, so that an edge to it is ahead, from a reader that is on
the tape and has been scanned.  From this `TapeIsRight`, and `NeverMisses`: the input
under the scan has an edge that has not been passed, so it has a degree.

*EvalProofs*: InputsReady is far from inductive: it speaks of what has run, and
the reason lies in tasks that have not.  The invariant `IInv` (EvalInvariant)
says, in this order, that

1. tasks sit on the stream they belong to, and a fence value or an event that
   has been reached was reached by a task that has run (`Placed`, `History`,
   `Issued`);
2. every computation enqueued is *guarded* against each of its inputs: the input
   has run, or is ahead in the same stream, or a wait is ahead that only passes
   behind it (`Ordered`, with `Guarded`, `FenceAfter`, `SignalAfter`);
3. the plan of the call is closed and minimal, and what is scheduled is what has
   been dispatched, once (`Closed`, `Needed`, `Scheduled`, `Once`, `Progress`,
   `Unpublished`);
4. the event of an array comes behind its computation, and an array without one
   has run or belongs to the synchronous call in progress (`Events`); an array
   that needs a fence has an update behind it (`Fences`); and the inputs visited
   so far already guard the node in hand (`Waited`).

A step appends one task, or runs one.  Appending keeps guards because streams
only grow; a fence wait is a guard because the producer has issued its update
when the consumer is taken; running the front task turns a guard that has been
passed into a computation that has run (`PassedRan`).  From `IInv` follow
`TypeCorrect`, `DispatchedOnce`, `InputsFirst`, `Available`, `InputsScheduled`
and the refinement `ImplementsDataflow`.

*AllocatorProofs*, the allocator: `Owned` is OnePlace with the types it needs.  Each action
has a lemma that says what it does to the three sets `InUse`, `ToSet(cached)` and
`Doomed`, from which `PlaceStep` concludes; `RemoveAtOnce`, `ReleasedOnce` and
`ConsOnce` show that the list stays without duplicates and only gains the buffer
given back.  The window in `malloc` is harmless because a buffer the driver makes
is not among those it has made and not taken back, and `doomed` counts as not
taken back.  `Exact` says the same sets are what the residency set holds; it is
carried along by `EraseHolds`, `InsertHolds` and `ResizeHolds`, for the last
whatever the sizes are.  `ResourceBound` needs `Owned` (a buffer that leaves or
enters `InUse` does so once) and counts the threads in the window (`Asking`): the
last of them to pass the test found the count below the limit.  From these
`OwnedOnePlace`, `ResidencyIsExact`, `ResourcesBounded`, and `ImplementsLender`,
the refinement of Lender.  `AccountsExact` adds that `active_memory_` and the number
of resources are those of the buffers, and that what is wired keeps within the limit;
`LimitsAreKept` that `malloc` returns with the cache trimmed and goes to the driver
only when what it will use fits or the cache is empty.  Both speak of sums of
lengths.

*AllocatorProofs*, the cache.  It begins with what both need.  A sum here is a fold, over a set or over a list, and
the library's induction theorems cannot be used; instead a claim that fails for some
subset of a finite set fails for a smallest one (`Minimal`, from
`FS_StrictSubsetOrderingWellFounded`, which states no operator).  This gives that
the community modules' folds exist and do not depend on the order of choice
(`FoldUnique` and the lemmas after it), that sums are additive and monotone, that the
`Bytes` of a list without duplicates is the sum over its set of buffers, and what
removing and inserting one buffer, and cutting the list (`Released`), do to it.

That list and multimap agree is not inductive as it stands, since it
says what a walk along `next` finds, and a step changes links.  The invariant `CInv`
says that *some* list `o` without duplicates is what the pointers hold in both
directions (`Chain`) and what the multimap holds by length, older first among equals
(`Agrees`), and that the books are kept.  Each operation has one lemma on `Chain`
(a node is taken out at the front, at the back, in the middle, or put in front) and one
on `Agrees`; `LowerBoundIsBest` shows that the multimap's `lower_bound` finds what FreeList's
`BestFit` does.  The walk is recovered from `Chain` by a smallest position where they
differ (`WalkIs`, `ChainWalks`).  From these `CacheCoherent` and `CacheIsFreeList`,
the refinement of FreeList, in which each turn of the release loop drops the oldest.

*MetalEvalProofs*: RunsInOrder holds by three mechanisms of which none is enough, and
`IInv` says what each covers.  Two conflicting dispatches of one encoder are in
different segments, because the encoder knows what has been written since the last
barrier (`Tracked`, `Barriers`).  A later encoder waits for the last writer of what
it uses, or for an encoder that in turn comes behind it (`Fences`, with
`LastWriter` for the encoder still open); a fence always names an earlier command buffer
(`TableClosed`, `WaitsBack`).  A dispatch that only reads is protected by no fence at
all: its buffer is retained by the command buffer until it is done (`Retains`, `Keeps`),
so that nobody gets it to write (`NoWriteAfterRead`).  For this it matters that a name
of an encoder is not used again while something refers to it (`Names`).  From `IInv`:
`NoneOvertakes`, `FreeMemoryIsIdle`, `TableForgets` and `NoCircle`.

*RingProofs*: first the plans.  `PlanRight` says, of every call for every size, number
of links and thresholds, that a part has as many sends as receives, within the data,
and that a send has no element in common with a receive of another part, nor with a
receive of its own part that can be under way at the same time (`ReducePartsRight`,
`GatherPartsRight`, `SendPartsRight`; the arithmetic is that blocks of equal length are
disjoint, and that two neighbours differ modulo the size of the ring).  Then `RInv`: of a
part, the packets that may be in a queue are those in a window that depends on its phase,
at most the last two (`Open`); every queued send and receive is of such a packet, on the
socket of its part, and a receive that is to be reduced is in the buffer of its parity.
`TwoBuffers` and `QueuedSendsAreStable` follow; neither is inductive, because they
compare a task in a queue with the progress of its part, which the window relates.
`NoneAt` and `Waited` show that a part that goes on has no task left in the window it
leaves.

*CollectiveProofs*: `CollectiveSpec` says of every call what it returns, and its reason is
spread over all ranks and connections.  The invariant `IInv` (RingInvariant) says where
everything is that is on its way, and of what everything has been added up:

1. the tasks in a queue are in the order of their steps, only the first of them begun
   (`QInv`: `RInv`, `Planned`, `Queues`);
2. `Sent` and `Arrived`, the elements of packets that a rank has put into a connection
   and taken from it, are prefixes of the order in which the plans of all calls name
   them (`InOrder`), and the connection holds the ones between, in this order, each with
   the value it was sent with (`Streams`, with `Flow`).  That both ends mean the same
   by "the next element" is a fact about plans: what one rank sends in a step is what its
   neighbour receives in it, whatever sockets other parts use;
3. each element of the data of a rank is what the packets that have taken effect make of
   it (`DataRight`, with `Held` and `Effective`), and each element of a receive buffer
   that has arrived is what the neighbour sent (`BuffersRight`, with `Carried`).  `Held`
   is closed, the contributions of the ranks on a walk (`Walk`) that grows with the step,
   so that there is no induction over the steps of a part, only over those of the run;
4. everything that is in a buffer or a connection comes from a call that its rank has
   entered (`Tags`).  This is why no rank returns too early: a result that contains the
   contributions of all ranks shows that all have entered.

The two facts about plans that carry it are `Fed`, that an element is sent in a step with
what the neighbour expects to add, or to keep, in this step (a reduction must have
happened before the send that passes it on, which is `lag`), and `Yields`, that when all
packets have taken effect the data are what the call returns.  Both are proved for
all-reduce over one link or several and in both directions, all-gather, and send, in the
second half of RingProofs.  At the last step of the last part all packets have taken
effect (`EffectiveAll`), so the data are the result, and the step is Collective's
`Return`; `Begin` is `Enter`, and all else is a stutter, because a rank that is still
busy has no result (`Outcome`).  From this `RingCollective`, the whole of `CollectiveSpec`.

Proving found two weaknesses of the models, both mended: a `CASE` with guards that
overlap is any of its branches, which TLC resolves to the first (Ring, Collective,
Compile); and the ring's plans had no reason to be free of empty parts.

Only model-checked:

- liveness (`AllAcceptedRun`, `DestructorReturns`, `CallsReturn`, `StreamsDrain`,
  `WaitersReturn`, `TapeEnds`, `Terminates`), which is out of the prover's reach, and so
  the fairness in `QueueSpec`;
- Strided, ArrayViews and Compile, whose recursive operators the prover cannot use: the
  elements of an array, the meaning of a graph.

## 5. Findings

`array_split`: `Split::eval` (`common.cpp` 200) computes the flags of its parts by a
copy of `check_contiguity` with a rule for `data_size` that skips axes with a stride
of zero or less.  It is meant for broadcast axes; on the axes that a slice with a
negative step has reversed it makes parts that say they have one element, and are
contiguous.  A kernel behind them (`unary_op`, `astype`) reads and writes one
element; the others keep what memory held.  `ops.h` line 299 says "Split an array into
sub-arrays along a given axis."; from eleven parts on, `split` makes slices instead,
which get it right.

The run leaves out `reshape` (`Targets` is empty), so that this is the one way to
wrong elements in three operations.  `array_views` and `compile` contain four more
deviations, each a step that FlagsTrue or SameResult names, and which the run therefore
shows to break flags or result whenever it is taken:

- *reshape of a column-major array* (`ReshapeSlips`).  `shared_buffer_reshape`
  (`common.cpp` 184) keeps `col_contiguous` of its input when that is not
  row-contiguous, for a shape of which it need not be true.  Elements come out wrong
  too: 2x4 transposed and reshaped to 2x2x2 has the strides 2, 1, 4 and says it is
  column-major; an operation on it and a column-major array walks through both buffers
  in step (`binary.h` 27) and pairs elements that do not belong together.
  `ArrayViews.cfg` with the invariant Denotes shows this chain or that of `array_split`.
- *transpose of a part of an array with gaps* (`TransposeSlips`).  `Split::eval`
  recomputes `row_contiguous` of a part and only ever clears `contiguous`, so that a
  part of a slice or of a strided view can be row-contiguous but not contiguous;
  `Transpose::eval` (`common.cpp` 271) recomputes flags of contiguous arrays only and
  keeps `row_contiguous` although the strides are now others.  Reshape and operations
  with a row-major array then take the elements in the order of memory.
- *two equal splits of which the second is returned whole* (`LosesSplit`), while the
  first is not and something between them reads it.  `tape_order` (`compile.cpp` 692)
  is an `operator[]` on a map of the arrays on the tape, of which a sibling need not be
  one: it gets 0, the first place.  The first split is merged into the second, and the
  tape cannot be replayed.
- *a returned scalar that equals one before it* (`LosesScalar`) is dropped from the
  tape (`compile.cpp` 636) while it stays an output; `compile_replace` does not find
  it.

`Compile.cfg` with the invariant Right shows the last two.  Other deviations are seen by
adding a property to a configuration:

- *a primitive that throws in a synchronous `eval`.*  The nodes before it are
  dispatched and `evaluated` without an event, so `is_available` says `true` while
  their computation waits in a stream; `array.h` line 403 says "Check if the array is
  safe to read."  `EvalFaults.cfg` with the invariant AvailableIsComputed.
- *one that throws in `async_eval`.*  The nodes before it carry events that are
  signaled at the end of the call only, which is never reached; `wait` on them blocks
  for ever; `array.h` line 406 says "Wait on the array to be available.  After this
  `is_available` returns `true`."  `EvalFaults.cfg` with the property WaitReturns.
- *a resource limit reached at exactly the memory limit.*  `malloc` asks the cache for
  `mem_required - gc_limit_` bytes both under memory pressure and when there are too
  many resources.  In the second case the difference wraps around when less memory is
  required than the limit allows, which clears the cache, but when the two are equal
  it is zero, nothing is released, and `malloc` throws "Resource limit exceeded"
  although the cache holds buffers; `allocator.cpp` line 123 says "If we have a lot of
  memory pressure try to reclaim memory from the cache".  `MetalAllocator.cfg` with
  the property TriesToReclaim.

With primitives that throw, the scheduled part of the graph stays closed
(`eval_faults`).

## 6. What is not modelled

Data races as such: `n_active_tasks_` is read without its lock and the encoder map is
not locked (`encoder.cpp` 8).  Exceptions inside a task on a worker end the process.
In compile, iterators into the parents map that `merge_one` may invalidate by
inserting (`compile.cpp` 231), and a cache entry that is marked as filled before the
trace that may throw (1128).  In the Metal encoder, events between streams and
buffers without an array (`set_buffer`).  In the ring, connecting, errors, and the
destructor.  Numbers themselves, file formats, bindings: single threaded, tested
directly.  The matrix, attention and quantized kernels and the operations that only
check shapes, type and arguments make up most of the source; they keep no state and
nothing orders them, so there is no behaviour of theirs that TLC would reach and a
numerical test would not.  Everything else in `PROJECT.json` with status
`not_modelled` is next in the plan, or left out for the reason given there.

## 7. Plan

Done: StreamThread, Scheduler, GraphTape, Eval, EvalFaults, BufferCache,
MetalAllocator, CommandEncoder, MetalEval, Ring, ArrayViews and Compile, checked, and
proved as section 4 says.  Next, in this order:

1. *ThreadPool*, *ParallelFileReader*: resize while tasks are queued, short
   reads, a failed batch; abstract specification: the file's bytes.
2. *SocketThread*: destructor, errors, futures, below Ring.
3. *CudaWorker*, *LRUCache*, *CudaAllocator* over FreeBuffers.
4. *ArrayLifetime*: deletion of sibling groups; Eval with two clients and the
   encoder map; Metal events between streams.
5. *ZigzagPartition*: columns over threads as operators against the set of
   columns; *CompileCache*.
