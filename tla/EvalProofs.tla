------------------------------ MODULE EvalProofs ------------------------------
(***************************************************************************)
(* Safety of Eval for every graph, every set of streams and every number of  *)
(* calls: the invariant of EvalInvariant is inductive, and with it a         *)
(* primitive runs only after the makers of its inputs.                       *)
(***************************************************************************)
EXTENDS EvalInvariant, TLAPS

-----------------------------------------------------------------------------
(* The graph.                                                                *)
LEMMA MakerOf == \A b \in Array : Maker(b) \in Prim /\ b \in Outs[Maker(b)]
  BY EvalAssumption DEF Maker

LEMMA MakerUnique == \A p \in Prim : \A b \in Outs[p] : b \in Array /\ Maker(b) = p
  BY MakerOf, EvalAssumption

LEMMA StreamOfType == \A p \in Prim : StreamOf[p] \in Stream
  BY EvalAssumption

LEMMA NodeTypes ==
  ASSUME ClientTypes
  PROVE  /\ \A n \in Prim \cup {Sync} : NodeIns(n) \subseteq Array
         /\ \A n \in Prim \cup {Sync} : NodeOuts(n) \subseteq Array
         /\ \A n \in Prim \cup {Sync} : NodeStream(n) \in Stream
  BY EvalAssumption DEF ClientTypes, NodeIns, NodeOuts, NodeStream

-----------------------------------------------------------------------------
(* Type correctness.                                                         *)
LEMMA TaskNumber ==
  ASSUME NEW t \in Task
  PROVE  t.n \in Nat
  <1>1. CASE t \in [op : {"compute", "release"}, arg : Prim \cup {Sync}, n : {0},
                    counted : BOOLEAN]
    <2>1. t.n \in {0}
      BY <1>1
    <2> QED
      BY <2>1
  <1>2. CASE t \in [op : {"fenceWait", "fenceUpdate", "eventWait", "signal"},
                    arg : Ticket, n : Nat, counted : {FALSE}]
    BY <1>2
  <1> QED
    BY <1>1, <1>2 DEF Task

LEMMA InitType == Init => TypeOK
  <1> SUFFICES ASSUME Init PROVE StreamTypes /\ ClientTypes
    BY DEF TypeOK
  <1>1. <<>> \in Seq(Task) /\ Len(<<>>) = 0
    OBVIOUS
  <1>2. log \in [Stream -> Seq(Task)] /\ \A s \in Stream : Len(log[s]) = 0
    BY <1>1, Zenon DEF Init
  <1>3. 0 \in 0..DispatchesPerTask - 1
    BY EvalAssumption
  <1>4. StreamTypes
    BY <1>2, <1>3 DEF Init, StreamTypes
  <1>5. event \in [Array -> Ticket \cup {None}]
    BY DEF Init
  <1>6. ClientTypes
    <2>1. status \in [Array -> {"unscheduled", "evaluated", "available"}]
      BY DEF Init
    <2>2. call \in 0..MaxCalls /\ seen \in Int
      BY EvalAssumption DEF Init
    <2>3. pc \in Places
      BY DEF Init, Places
    <2> QED
      BY <1>5, <2>1, <2>2, <2>3, Zenon DEF Init, ClientTypes
  <1> QED
    BY <1>4, <1>6

LEMMA PlaceKeepsTypes ==
  ASSUME TypeOK, pc' \in Places,
         UNCHANGED <<arrays, queues, flags, active, args, walk>>
  PROVE  TypeOK'
  <1>1. StreamTypes'
    BY DEF TypeOK, StreamTypes, queues, flags, active
  <1>2. ClientTypes'
    BY DEF TypeOK, ClientTypes, arrays, args, walk
  <1> QED
    BY <1>1, <1>2 DEF TypeOK

LEMMA ClientKeepsTypes ==
  ASSUME TypeOK, Client
  PROVE  TypeOK'
  <1>1. StreamTypes'
    BY DEF TypeOK, StreamTypes, Client, EvalCall, AsyncEvalCall, Start,
           EvalScheduled, AskAvailable, queues, flags, active
  <1>2. ASSUME NEW T \in Requests, NEW m \in BOOLEAN, Start(T, m)
        PROVE  ClientTypes'
    <2>1. Reached(T) \subseteq Prim
      BY DEF Reached
    <2>2. T \subseteq Array
      BY EvalAssumption
    <2>3. home' \in Stream
      BY <1>2, <2>2, MakerOf, StreamOfType DEF Start
    <2>4. call' \in 0..MaxCalls
      BY <1>2, EvalAssumption DEF TypeOK, ClientTypes, Start
    <2> QED
      BY <1>2, <2>1, <2>2, <2>3, <2>4 DEF TypeOK, ClientTypes, Start, arrays, Places
  <1>3. ASSUME NEW T \in Requests, EvalScheduled(T)
        PROVE  ClientTypes'
    BY <1>3, EvalAssumption DEF TypeOK, ClientTypes, EvalScheduled, arrays, args, Places
  <1>4. ASSUME NEW b \in Array, AskAvailable(b)
        PROVE  ClientTypes'
    BY <1>4 DEF TypeOK, ClientTypes, AskAvailable, args, walk
  <1> QED
    BY <1>1, <1>2, <1>3, <1>4 DEF TypeOK, Client, EvalCall, AsyncEvalCall

LEMMA WaitKeepsTypes ==
  ASSUME TypeOK, Wait
  PROVE  TypeOK'
  <1>1. StreamTypes'
    BY DEF TypeOK, StreamTypes, Wait, WaitArray, WaitedAll, queues, flags, active
  <1>2. ASSUME NEW b \in Array, WaitArray(b)
        PROVE  ClientTypes'
    BY <1>2 DEF TypeOK, ClientTypes, WaitArray, args
  <1>3. CASE WaitedAll
    BY <1>3, PlaceKeepsTypes DEF WaitedAll, Places
  <1> QED
    BY <1>1, <1>2, <1>3 DEF TypeOK, Wait

LEMMA EnqueueKeepsTypes ==
  ASSUME StreamTypes, NEW s \in Stream, NEW t \in Task, UNCHANGED done,
         log' = [log EXCEPT ![s] = Append(@, t)]
  PROVE  /\ log' \in [Stream -> Seq(Task)]
         /\ \A x \in Stream : done'[x] <= Len(log'[x])
  BY DEF StreamTypes

LEMMA RunKeepsTypes ==
  ASSUME TypeOK, NEW s \in Stream, Run(s)
  PROVE  TypeOK'
  <1>1. ClientTypes'
    BY DEF TypeOK, ClientTypes, Run, arrays, args, walk
  <1>2. log[s][done[s] + 1] \in Task
    BY DEF TypeOK, StreamTypes, Run
  <1>3. value' \in [Ticket -> Nat]
    BY <1>2 DEF TypeOK, StreamTypes, Run, Task
  <1>4. signaled' \subseteq Ticket
    BY <1>2 DEF TypeOK, StreamTypes, Run, Task
  <1>5. done' \in [Stream -> Nat] /\ \A x \in Stream : done'[x] <= Len(log[x])
    BY DEF TypeOK, StreamTypes, Run
  <1>6. nActive' \in Int
    BY DEF TypeOK, StreamTypes, Run
  <1>7. UNCHANGED <<log, count, nOps>>
    BY DEF Run
  <1> QED
    BY <1>1, <1>3, <1>4, <1>5, <1>6, <1>7 DEF TypeOK, StreamTypes

(* The walk: what a node enqueues is a task.                                 *)
LEMMA EnqueueTask ==
  ASSUME TypeOK, NEW s \in Stream, NEW f \in Ticket, NEW n \in Nat,
         NEW op \in {"fenceWait", "fenceUpdate", "eventWait", "signal"},
         Enqueue(s, op, f, n), UNCHANGED done
  PROVE  /\ log' \in [Stream -> Seq(Task)]
         /\ \A x \in Stream : done'[x] <= Len(log'[x])
  <1>1. [op |-> op, arg |-> f, n |-> n, counted |-> FALSE] \in Task
    BY DEF Task
  <1> QED
    BY <1>1, EnqueueKeepsTypes DEF Enqueue, TypeOK

LEMMA DispatchTypes ==
  ASSUME TypeOK, NEW s \in Stream, NEW op \in {"compute", "release"},
         NEW p \in Prim \cup {Sync}, Dispatch(s, op, p),
         UNCHANGED <<done, flags>>
  PROVE  StreamTypes'
  <1>1. Counts(s) \in BOOLEAN
    BY DEF Counts
  <1>2. [op |-> op, arg |-> p, n |-> 0, counted |-> Counts(s)] \in Task
    BY <1>1 DEF Task
  <1>3. /\ log' \in [Stream -> Seq(Task)]
        /\ \A x \in Stream : done'[x] <= Len(log'[x])
    BY <1>2, EnqueueKeepsTypes DEF Dispatch, TypeOK
  <1>4. nOps' \in [Stream -> 0..DispatchesPerTask - 1]
    <2>1. \A k \in Nat : k % DispatchesPerTask \in 0..DispatchesPerTask - 1
      BY EvalAssumption
    <2> QED
      BY <2>1 DEF Dispatch, NextOp, TypeOK, StreamTypes
  <1>5. nActive' \in Int
    BY DEF Dispatch, TypeOK, StreamTypes
  <1> QED
    BY <1>3, <1>4, <1>5 DEF TypeOK, StreamTypes, flags

LEMMA OfTicket ==
  ASSUME TypeOK, call > 0, NEW s \in Stream
  PROVE  Of(s) \in Ticket
  BY DEF Of, Ticket, TypeOK, ClientTypes

LEMMA AwaitKeepsTypes ==
  ASSUME TypeOK, call > 0, NEW b \in Array, AwaitInput(b)
  PROVE  TypeOK'
  <1> DEFINE s == NodeStream(cur)
  <1>0. s \in Stream /\ Maker(b) \in Prim /\ StreamOf[Maker(b)] \in Stream
    BY NodeTypes, MakerOf, StreamOfType DEF TypeOK, ClientTypes
  <1>1. event' \in [Array -> Ticket \cup {None}]
    BY DEF AwaitInput, WaitFence, WaitEvent, NoWait, TypeOK, ClientTypes
  <1>2. ClientTypes'
    BY <1>1 DEF AwaitInput, TypeOK, ClientTypes, args
  <1>3. /\ log' \in [Stream -> Seq(Task)]
        /\ \A x \in Stream : done'[x] <= Len(log'[x])
    <2>1. CASE WaitFence(b, s)
      <3>1. Of(StreamOf[Maker(b)]) \in Ticket
        BY <1>0, OfTicket
      <3>2. count[Of(StreamOf[Maker(b)])] \in Nat
        BY <3>1 DEF TypeOK, StreamTypes
      <3> QED
        BY <1>0, <2>1, <3>1, <3>2, EnqueueTask DEF WaitFence, AwaitInput
    <2>2. CASE WaitEvent(b, s)
      <3>1. event[b] \in Ticket
        BY <2>2 DEF WaitEvent, TypeOK, ClientTypes
      <3>2. CASE UNCHANGED log
        BY <3>2 DEF AwaitInput, TypeOK, StreamTypes
      <3>3. CASE Enqueue(s, "eventWait", event[b], 0)
        BY <1>0, <3>1, <3>3, EnqueueTask DEF AwaitInput
      <3> QED
        BY <2>2, <3>2, <3>3 DEF WaitEvent
    <2>3. CASE NoWait(b)
      BY <2>3 DEF NoWait, AwaitInput, TypeOK, StreamTypes
    <2> QED
      BY <2>1, <2>2, <2>3 DEF AwaitInput
  <1> QED
    BY <1>2, <1>3 DEF AwaitInput, TypeOK, StreamTypes, flags, active

LEMMA TakeKeepsTypes ==
  ASSUME TypeOK, call > 0, NEW n \in plan \cup {Sync}, Take(n)
  PROVE  TypeOK'
  <1>1. n \in Prim \cup {Sync} /\ NodeStream(n) \in Stream /\ NodeIns(n) \subseteq Array
    BY NodeTypes DEF TypeOK, ClientTypes
  <1>2. event' \in [Array -> Ticket \cup {None}]
    BY <1>1, OfTicket DEF Take, TypeOK, ClientTypes
  <1>3. open' \subseteq Stream /\ todo' \subseteq Array /\ pc' \in Places
    BY <1>1 DEF Take, TypeOK, ClientTypes, Places
  <1>4. ClientTypes'
    BY <1>1, <1>2, <1>3 DEF Take, TypeOK, ClientTypes, args
  <1> QED
    BY <1>4 DEF Take, TypeOK, StreamTypes, queues, flags, active

LEMMA PublishKeepsTypes ==
  ASSUME TypeOK, call > 0, NEW b \in Array, Publish(b), cur = Sync => todo = {}
  PROVE  TypeOK'
  <1> DEFINE s == StreamOf[cur]
             f == Of(StreamOf[cur])
  <1>1. s \in Stream /\ f \in Ticket
    BY OfTicket, StreamOfType DEF Publish, TypeOK, ClientTypes
  <1>2. count' \in [Ticket -> Nat]
    <2>1. CASE UpdateFence(f, s)
      BY <1>1, <2>1 DEF UpdateFence, TypeOK, StreamTypes
    <2>2. CASE UNCHANGED count
      BY <2>2 DEF TypeOK, StreamTypes
    <2> QED
      BY <2>1, <2>2 DEF Publish
  <1>3. /\ log' \in [Stream -> Seq(Task)]
        /\ \A x \in Stream : done'[x] <= Len(log'[x])
    <2>1. CASE UpdateFence(f, s)
      <3>1. count[f] + 1 \in Nat
        BY <1>1 DEF TypeOK, StreamTypes
      <3> QED
        BY <1>1, <2>1, <3>1, EnqueueTask DEF UpdateFence, Publish
    <2>2. CASE UNCHANGED log
      BY <2>2 DEF Publish, TypeOK, StreamTypes
    <2> QED
      BY <2>1, <2>2 DEF Publish
  <1>4. ClientTypes'
    BY DEF Publish, TypeOK, ClientTypes, args
  <1> QED
    BY <1>2, <1>3, <1>4 DEF Publish, TypeOK, StreamTypes, active

LEMMA SignalKeepsTypes ==
  ASSUME TypeOK, call > 0, NEW s \in Stream, SignalStream(s)
  PROVE  TypeOK'
  <1>1. /\ log' \in [Stream -> Seq(Task)]
        /\ \A x \in Stream : done'[x] <= Len(log'[x])
    <2>1. CASE Enqueue(s, "signal", Of(s), 0)
      BY <2>1, OfTicket, EnqueueTask DEF SignalStream
    <2>2. CASE UNCHANGED log
      BY <2>2 DEF SignalStream, TypeOK, StreamTypes
    <2> QED
      BY <2>1, <2>2 DEF SignalStream
  <1>2. ClientTypes'
    BY DEF SignalStream, TypeOK, ClientTypes, arrays, args
  <1> QED
    BY <1>1, <1>2 DEF SignalStream, TypeOK, StreamTypes, flags, active

LEMMA DispatchKeepsTypes ==
  ASSUME TypeOK, DispatchCompute \/ DispatchRelease
  PROVE  TypeOK'
  <1>1. cur \in Prim \cup {Sync} /\ NodeStream(cur) \in Stream
    BY NodeTypes DEF TypeOK, ClientTypes
  <1>2. ClientTypes'
    BY DEF DispatchCompute, DispatchRelease, TypeOK, ClientTypes, Places, arrays, args, walk
  <1>3. CASE DispatchCompute /\ cur = Sync
    BY <1>2, <1>3 DEF DispatchCompute, TypeOK, StreamTypes, flags, active
  <1>4. CASE DispatchCompute /\ cur # Sync
    BY <1>1, <1>2, <1>4, DispatchTypes DEF DispatchCompute, TypeOK, NodeStream
  <1>5. CASE DispatchRelease
    BY <1>1, <1>2, <1>5, DispatchTypes DEF DispatchRelease, TypeOK
  <1> QED
    BY <1>3, <1>4, <1>5

LEMMA ThrottleKeepsTypes ==
  ASSUME TypeOK, Throttle \/ WaitForOne \/ Relieved
  PROVE  TypeOK'
  <1>1. StreamTypes'
    BY DEF Throttle, WaitForOne, Relieved, TypeOK, StreamTypes, queues, flags, active
  <1>2. NodeOuts(cur) \subseteq Array
    BY NodeTypes DEF TypeOK, ClientTypes
  <1>3. pc' \in Places /\ todo' \subseteq Array /\ seen' \in Int
    BY <1>2 DEF Throttle, WaitForOne, Relieved, TypeOK, StreamTypes, ClientTypes, Places
  <1>4. ClientTypes'
    BY <1>3 DEF Throttle, WaitForOne, Relieved, TypeOK, ClientTypes, arrays, args
  <1> QED
    BY <1>1, <1>4 DEF TypeOK

(* The steps that only move the client on.                                   *)
Moves == InputsDone \/ OneCompleted \/ Published \/ Signaled \/ EvalReturn

LEMMA MovesKeepTypes ==
  ASSUME TypeOK, Moves
  PROVE  TypeOK'
  BY PlaceKeepsTypes
  DEF Moves, InputsDone, OneCompleted, Published, Signaled, EvalReturn, Places

-----------------------------------------------------------------------------
(* The queues only grow, at their back, and what has run stays run.          *)
Grow ==
  \A s \in Stream :
    /\ Len(log[s]) <= Len(log'[s])
    /\ \A i \in 1..Len(log[s]) : log'[s][i] = log[s][i]
    /\ done[s] <= done'[s]

(* One task t more on stream s, and nothing else in the queues.              *)
Push(s, t) ==
  /\ Len(log'[s]) = Len(log[s]) + 1
  /\ log'[s][Len(log[s]) + 1] = t
  /\ \A i \in 1..Len(log[s]) : log'[s][i] = log[s][i]
  /\ \A x \in Stream \ {s} : log'[x] = log[x]
  /\ UNCHANGED done

LEMMA PushIntro ==
  ASSUME StreamTypes, NEW s \in Stream, NEW t, UNCHANGED done,
         log' = [log EXCEPT ![s] = Append(@, t)]
  PROVE  Push(s, t)
  <1>1. log[s] \in Seq(Task)
    BY DEF StreamTypes
  <1>2. log'[s] = Append(log[s], t)
    BY DEF StreamTypes
  <1>3. \A x \in Stream \ {s} : log'[x] = log[x]
    BY DEF StreamTypes
  <1>4. /\ Len(log'[s]) = Len(log[s]) + 1
        /\ log'[s][Len(log[s]) + 1] = t
        /\ \A i \in 1..Len(log[s]) : log'[s][i] = log[s][i]
    BY <1>1, <1>2
  <1> QED
    BY <1>3, <1>4 DEF Push

LEMMA PushGrows ==
  ASSUME StreamTypes, NEW s \in Stream, NEW t, Push(s, t)
  PROVE  Grow
  <1> SUFFICES ASSUME NEW x \in Stream
               PROVE  /\ Len(log[x]) <= Len(log'[x])
                      /\ \A i \in 1..Len(log[x]) : log'[x][i] = log[x][i]
                      /\ done[x] <= done'[x]
    BY DEF Grow
  <1>1. Len(log[x]) \in Nat /\ done[x] \in Nat /\ done'[x] = done[x]
    BY DEF Push, StreamTypes
  <1>2. CASE x = s
    BY <1>1, <1>2 DEF Push
  <1>3. CASE x # s
    BY <1>1, <1>3 DEF Push
  <1> QED
    BY <1>2, <1>3

LEMMA RunGrows ==
  ASSUME StreamTypes, NEW s \in Stream, Run(s)
  PROVE  Grow /\ UNCHANGED log
  BY DEF Run, Grow, StreamTypes

LEMMA QuietGrows ==
  ASSUME StreamTypes, UNCHANGED queues
  PROVE  Grow
  BY DEF queues, Grow, StreamTypes

LEMMA GrowPositions ==
  ASSUME StreamTypes, StreamTypes', Grow, NEW p \in Prim
  PROVE  /\ Positions(p) \subseteq Positions(p)'
         /\ Positions(p) \subseteq 1..Len(log[StreamOf[p]])
  <1>1. StreamOf[p] \in Stream
    BY StreamOfType
  <1> QED
    BY <1>1, SMTT(20) DEF Grow, Positions, StreamTypes

LEMMA GrowRan ==
  ASSUME StreamTypes, StreamTypes', Grow, NEW p \in Prim
  PROVE  Ran(p) => Ran(p)'
  <1> SUFFICES ASSUME Ran(p) PROVE Ran(p)'
    OBVIOUS
  <1>1. PICK k \in Positions(p) : k <= done[StreamOf[p]]
    BY DEF Ran
  <1>2. k \in Positions(p)' /\ k \in 1..Len(log[StreamOf[p]])
    BY <1>1, GrowPositions
  <1>3. done[StreamOf[p]] <= done'[StreamOf[p]] /\ StreamOf[p] \in Stream
    BY StreamOfType DEF Grow
  <1>4. k <= done'[StreamOf[p]]
    BY <1>1, <1>2, <1>3 DEF StreamTypes
  <1> QED
    BY <1>2, <1>4 DEF Ran

LEMMA GrowFenceAfter ==
  ASSUME StreamTypes, StreamTypes', Grow, NEW p \in Prim, NEW f, NEW n
  PROVE  FenceAfter(p, f, n) => FenceAfter(p, f, n)'
  <1> SUFFICES ASSUME FenceAfter(p, f, n) PROVE FenceAfter(p, f, n)'
    OBVIOUS
  <1>1. StreamOf[p] \in Stream
    BY StreamOfType
  <1>2. PICK k \in Positions(p) :
          \A l \in 1..k :
            log[StreamOf[p]][l].op = "fenceUpdate" /\ log[StreamOf[p]][l].arg = f =>
              log[StreamOf[p]][l].n < n
    BY DEF FenceAfter
  <1>3. k \in 1..Len(log[StreamOf[p]]) /\ k \in Positions(p)'
    BY <1>2, GrowPositions
  <1>4. \A l \in 1..k : log'[StreamOf[p]][l] = log[StreamOf[p]][l]
    <2>1. Len(log[StreamOf[p]]) \in Nat
      BY <1>1 DEF StreamTypes
    <2>2. \A l \in 1..k : l \in 1..Len(log[StreamOf[p]])
      BY <1>3, <2>1
    <2> QED
      BY <1>1, <2>2, Zenon DEF Grow
  <1>5. \A l \in 1..k :
          log'[StreamOf[p]][l].op = "fenceUpdate" /\ log'[StreamOf[p]][l].arg = f =>
            log'[StreamOf[p]][l].n < n
    BY <1>2, <1>4, Zenon
  <1> QED
    BY <1>3, <1>5, Zenon DEF FenceAfter

LEMMA GrowSignalAfter ==
  ASSUME StreamTypes, StreamTypes', Grow, NEW p \in Prim, NEW e
  PROVE  SignalAfter(p, e) => SignalAfter(p, e)'
  <1> SUFFICES ASSUME SignalAfter(p, e) PROVE SignalAfter(p, e)'
    OBVIOUS
  <1>1. StreamOf[p] \in Stream
    BY StreamOfType
  <1>2. PICK k \in Positions(p) :
          \A l \in 1..k :
            ~(log[StreamOf[p]][l].op = "signal" /\ log[StreamOf[p]][l].arg = e)
    BY DEF SignalAfter
  <1>3. k \in 1..Len(log[StreamOf[p]]) /\ k \in Positions(p)'
    BY <1>2, GrowPositions
  <1>4. \A l \in 1..k : log'[StreamOf[p]][l] = log[StreamOf[p]][l]
    <2>1. Len(log[StreamOf[p]]) \in Nat
      BY <1>1 DEF StreamTypes
    <2>2. \A l \in 1..k : l \in 1..Len(log[StreamOf[p]])
      BY <1>3, <2>1
    <2> QED
      BY <1>1, <2>2, Zenon DEF Grow
  <1> QED
    BY <1>2, <1>3, <1>4 DEF SignalAfter

LEMMA GrowHolds ==
  ASSUME StreamTypes, StreamTypes', Grow, NEW p \in Prim, NEW t
  PROVE  Holds(t, p) => Holds(t, p)'
  BY GrowFenceAfter, GrowSignalAfter DEF Holds

LEMMA GrowGuarded ==
  ASSUME StreamTypes, StreamTypes', Grow, NEW p \in Prim, NEW s \in Stream,
         NEW i \in Nat, NEW j \in Nat, i <= j
  PROVE  Guarded(p, s, i) => Guarded(p, s, j)'
  <1>1. CASE Ran(p)
    BY <1>1, GrowRan DEF Guarded
  <1>2. CASE StreamOf[p] = s /\ \E k \in Positions(p) : k < i
    <2>1. PICK k \in Positions(p) : k < i
      BY <1>2
    <2>2. k \in Positions(p)' /\ k < j
      BY <2>1, GrowPositions
    <2> QED
      BY <1>2, <2>2 DEF Guarded
  <1>3. CASE \E k \in 1..Len(log[s]) : k < i /\ Holds(log[s][k], p)
    <2>1. PICK k \in 1..Len(log[s]) : k < i /\ Holds(log[s][k], p)
      BY <1>3
    <2>2. Len(log[s]) \in Nat /\ Len(log'[s]) \in Nat /\ Len(log[s]) <= Len(log'[s])
      BY DEF Grow, StreamTypes
    <2>3. k \in 1..Len(log'[s]) /\ k < j /\ log'[s][k] = log[s][k]
      BY <2>1, <2>2 DEF Grow
    <2>4. \A t : Holds(t, p) => Holds(t, p)'
      BY GrowHolds
    <2>5. (Holds(log[s][k], p))'
      BY <2>1, <2>3, <2>4
    <2> QED
      BY <2>3, <2>5 DEF Guarded
  <1> QED
    BY <1>1, <1>2, <1>3 DEF Guarded

-----------------------------------------------------------------------------
(* A stream that has finished everything before i has got past what guards   *)
(* p, and then p has run.                                                    *)
LEMMA PassedRan ==
  ASSUME StreamTypes, History, NEW p \in Prim, NEW s \in Stream, NEW i \in Nat,
         Guarded(p, s, i), i <= done[s] + 1
  PROVE  Ran(p)
  <1>0. StreamOf[p] \in Stream
    BY StreamOfType
  <1>1. ASSUME StreamOf[p] = s, NEW k \in Positions(p), k < i
        PROVE  Ran(p)
    BY <1>1, <1>0 DEF Ran, Positions, StreamTypes
  <1>2. ASSUME NEW j \in 1..Len(log[s]), j < i, Holds(log[s][j], p)
        PROVE  Ran(p)
    <2> DEFINE t == log[s][j]
    <2>1. j \in 1..done[s]
      BY <1>2 DEF StreamTypes
    <2>2. t \in Task
      BY <1>2 DEF StreamTypes
    <2>3. CASE t.op = "fenceWait"
      <3>1. t.arg[2] = StreamOf[p] /\ t.n > 0 /\ FenceAfter(p, t.arg, t.n)
        BY <1>2, <2>3 DEF Holds
      <3>2. Updated(t.arg, t.n)
        BY <2>1, <2>3, <3>1 DEF History
      <3>3. PICK l \in 1..done[StreamOf[p]] :
              /\ log[StreamOf[p]][l].op = "fenceUpdate"
              /\ log[StreamOf[p]][l].arg = t.arg
              /\ log[StreamOf[p]][l].n >= t.n
        BY <3>1, <3>2 DEF Updated
      <3>4. PICK k \in Positions(p) :
              \A m \in 1..k :
                log[StreamOf[p]][m].op = "fenceUpdate" /\ log[StreamOf[p]][m].arg = t.arg =>
                  log[StreamOf[p]][m].n < t.n
        BY <3>1 DEF FenceAfter
      <3>5. log[StreamOf[p]][l].n \in Nat /\ t.n \in Nat
        <4>1. l \in 1..Len(log[StreamOf[p]])
          BY <1>0, <3>3 DEF StreamTypes
        <4>2. log[StreamOf[p]][l] \in Task
          BY <1>0, <4>1 DEF StreamTypes
        <4> QED
          BY <2>2, <4>2, TaskNumber
      <3>6. ~(l \in 1..k)
        <4> SUFFICES ASSUME l \in 1..k PROVE FALSE
          OBVIOUS
        <4>1. log[StreamOf[p]][l].n < t.n
          BY <3>3, <3>4
        <4> QED
          BY <3>3, <3>5, <4>1
      <3>7. k <= done[StreamOf[p]]
        BY <1>0, <3>3, <3>4, <3>6 DEF Positions, StreamTypes
      <3> QED
        BY <3>4, <3>7 DEF Ran
    <2>4. CASE t.op = "eventWait"
      <3>1. t.arg[2] = StreamOf[p] /\ SignalAfter(p, t.arg)
        BY <1>2, <2>4 DEF Holds
      <3>2. SignalRan(t.arg)
        BY <2>1, <2>4 DEF History
      <3>3. PICK l \in 1..done[StreamOf[p]] :
              log[StreamOf[p]][l].op = "signal" /\ log[StreamOf[p]][l].arg = t.arg
        BY <3>1, <3>2 DEF SignalRan
      <3>4. PICK k \in Positions(p) :
              \A m \in 1..k :
                ~(log[StreamOf[p]][m].op = "signal" /\ log[StreamOf[p]][m].arg = t.arg)
        BY <3>1 DEF SignalAfter
      <3>5. ~(l \in 1..k)
        BY <3>3, <3>4
      <3>6. k <= done[StreamOf[p]]
        BY <1>0, <3>3, <3>4, <3>5 DEF Positions, StreamTypes
      <3> QED
        BY <3>4, <3>6 DEF Ran
    <2> QED
      BY <1>2, <2>3, <2>4 DEF Holds
  <1> QED
    BY <1>1, <1>2 DEF Guarded

(* An event that has been signaled was signaled behind the computation.      *)
LEMMA SignaledRan ==
  ASSUME StreamTypes, History, NEW p \in Prim, NEW e \in Ticket,
         e \in signaled, e[2] = StreamOf[p], SignalAfter(p, e)
  PROVE  Ran(p)
  <1>0. StreamOf[p] \in Stream
    BY StreamOfType
  <1>1. PICK l \in 1..done[StreamOf[p]] :
          log[StreamOf[p]][l].op = "signal" /\ log[StreamOf[p]][l].arg = e
    BY DEF History, SignalRan
  <1>2. PICK k \in Positions(p) :
          \A m \in 1..k :
            ~(log[StreamOf[p]][m].op = "signal" /\ log[StreamOf[p]][m].arg = e)
    BY DEF SignalAfter
  <1>3. ~(l \in 1..k)
    BY <1>1, <1>2
  <1>4. k <= done[StreamOf[p]]
    BY <1>0, <1>1, <1>2, <1>3 DEF Positions, StreamTypes
  <1> QED
    BY <1>2, <1>4 DEF Ran

-----------------------------------------------------------------------------
(* The part of the invariant that is about the queues alone.                 *)
Queues == Placed /\ History /\ Ordered /\ Once

LEMMA PushPositions ==
  ASSUME StreamTypes, StreamTypes', NEW s \in Stream, NEW t, Push(s, t), NEW p \in Prim
  PROVE  /\ t.op = "compute" /\ t.arg = p /\ StreamOf[p] = s =>
              Positions(p)' = Positions(p) \cup {Len(log[s]) + 1}
         /\ ~(t.op = "compute" /\ t.arg = p /\ StreamOf[p] = s) =>
              Positions(p)' = Positions(p)
  <1>0. StreamOf[p] \in Stream
    BY StreamOfType
  <1>1. CASE StreamOf[p] # s
    <2>1. log'[StreamOf[p]] = log[StreamOf[p]]
      BY <1>0, <1>1 DEF Push
    <2> QED
      BY <1>1, <2>1 DEF Positions
  <1>2. CASE StreamOf[p] = s
    <2>1. /\ Len(log[s]) \in Nat
          /\ Len(log'[s]) = Len(log[s]) + 1
          /\ log'[s][Len(log[s]) + 1] = t
          /\ \A i \in 1..Len(log[s]) : log'[s][i] = log[s][i]
      BY DEF Push, StreamTypes
    <2>2. 1..Len(log'[s]) = 1..Len(log[s]) \cup {Len(log[s]) + 1}
      BY <2>1
    <2> QED
      BY <1>2, <2>1, <2>2 DEF Positions
  <1> QED
    BY <1>1, <1>2

LEMMA PushHistory ==
  ASSUME StreamTypes, StreamTypes', History, NEW s \in Stream, NEW t, Push(s, t),
         UNCHANGED <<value, signaled>>
  PROVE  History'
  <1>1. \A x \in Stream : \A l \in 1..done[x] : log'[x][l] = log[x][l]
    <2> SUFFICES ASSUME NEW x \in Stream, NEW l \in 1..done[x]
                 PROVE  log'[x][l] = log[x][l]
      OBVIOUS
    <2>1. l \in 1..Len(log[x])
      BY DEF StreamTypes
    <2> QED
      BY <2>1, PushGrows DEF Grow
  <1>2. \A f : f[2] \in Stream => \A n : Updated(f, n) => Updated(f, n)'
    BY <1>1 DEF Updated, Push
  <1>3. \A e : e[2] \in Stream => (SignalRan(e) => SignalRan(e)')
    BY <1>1 DEF SignalRan, Push
  <1>4. \A e \in Ticket : e[2] \in Stream
    BY DEF Ticket
  <1>5. \A x \in Stream : \A j \in 1..done[x] :
          log[x][j].op \in {"fenceWait", "eventWait"} => log[x][j].arg \in Ticket
    <2> SUFFICES ASSUME NEW x \in Stream, NEW j \in 1..done[x]
                 PROVE  log[x][j] \in Task
      BY DEF Task
    <2>1. j \in 1..Len(log[x])
      BY DEF StreamTypes
    <2> QED
      BY <2>1 DEF StreamTypes
  <1>6. (\A f \in Ticket : value[f] > 0 => Updated(f, value[f]))'
    BY <1>2, <1>4 DEF History
  <1>7. (\A e \in signaled : SignalRan(e))'
    BY <1>3, <1>4 DEF History, StreamTypes
  <1>8. ASSUME NEW x \in Stream, NEW j \in 1..done[x]
        PROVE  /\ log'[x][j].op = "fenceWait" /\ log'[x][j].n > 0 =>
                    Updated(log[x][j].arg, log[x][j].n)'
               /\ log'[x][j].op = "eventWait" => SignalRan(log[x][j].arg)'
    <2>1. log'[x][j] = log[x][j]
      BY <1>1, <1>8
    <2>2. CASE log[x][j].op = "fenceWait" /\ log[x][j].n > 0
      <3>1. Updated(log[x][j].arg, log[x][j].n)
        BY <2>2 DEF History
      <3> QED
        BY <2>1, <2>2, <3>1, <1>2, <1>4, <1>5
    <2>3. CASE log[x][j].op = "eventWait"
      <3>1. SignalRan(log[x][j].arg)
        BY <2>3 DEF History
      <3> QED
        BY <2>1, <2>3, <3>1, <1>3, <1>4, <1>5
    <2> QED
      BY <2>1, <2>2, <2>3
  <1> QED
    BY <1>6, <1>7, <1>8 DEF History, Push

LEMMA PushQueues ==
  ASSUME StreamTypes, StreamTypes', Queues, NEW s \in Stream, NEW t \in Task, Push(s, t),
         UNCHANGED <<value, signaled>>,
         t.op \in {"fenceUpdate", "signal"} => t.arg[2] = s,
         t.op = "compute" =>
           /\ t.arg \in Prim /\ StreamOf[t.arg] = s
           /\ ~Dispatched(t.arg)
           /\ \A b \in Ins[t.arg] : Guarded(Maker(b), s, Len(log[s]) + 1)
  PROVE  Queues'
  <1>1. Grow
    BY PushGrows
  <1>2. Placed'
    <2> SUFFICES ASSUME NEW x \in Stream, NEW i \in 1..Len(log'[x])
                 PROVE  LET u == log'[x][i]
                        IN  /\ u.op = "compute" => u.arg \in Prim /\ StreamOf[u.arg] = x
                            /\ u.op \in {"fenceUpdate", "signal"} => u.arg \in Ticket /\ u.arg[2] = x
                            /\ u.op \in {"fenceWait", "eventWait"} => u.arg \in Ticket
      BY DEF Placed
    <2>1. CASE i \in 1..Len(log[x])
      BY <1>1, <2>1, SMTT(20) DEF Grow, Placed, Queues
    <2>2. CASE ~(i \in 1..Len(log[x]))
      <3>1. x = s /\ log'[x][i] = t
        BY <2>2 DEF Push, StreamTypes
      <3>2. t.op \in {"fenceUpdate", "signal", "fenceWait", "eventWait"} => t.arg \in Ticket
        BY DEF Task
      <3> QED
        BY <3>1, <3>2
    <2> QED
      BY <2>1, <2>2
  <1>3. Ordered'
    <2> SUFFICES ASSUME NEW x \in Stream, NEW i \in 1..Len(log'[x]),
                        log'[x][i].op = "compute", NEW b \in Ins[log'[x][i].arg]
                 PROVE  Guarded(Maker(b), x, i)'
      BY DEF Ordered
    <2>1. log'[x][i].arg \in Prim /\ Maker(b) \in Prim
      BY <1>2, MakerOf, EvalAssumption DEF Placed
    <2>2. CASE i \in 1..Len(log[x])
      <3>1. log'[x][i] = log[x][i]
        BY <1>1, <2>2 DEF Grow
      <3>2. Guarded(Maker(b), x, i)
        BY <2>2, <3>1 DEF Ordered, Queues
      <3> QED
        BY <1>1, <2>1, <3>2, GrowGuarded
    <2>3. CASE ~(i \in 1..Len(log[x]))
      <3>1. x = s /\ i = Len(log[s]) + 1 /\ log'[x][i] = t
        BY <2>3 DEF Push, StreamTypes
      <3>2. Guarded(Maker(b), s, Len(log[s]) + 1)
        BY <3>1
      <3> QED
        BY <1>1, <2>1, <3>1, <3>2, GrowGuarded
    <2> QED
      BY <2>2, <2>3
  <1>4. Once'
    <2> SUFFICES ASSUME NEW p \in Prim, NEW k \in Positions(p)', NEW l \in Positions(p)'
                 PROVE  k = l
      BY DEF Once
    <2>1. CASE t.op = "compute" /\ t.arg = p
      <3>1. Positions(p) = {}
        BY <2>1 DEF Dispatched
      <3> QED
        BY <2>1, <3>1, PushPositions
    <2>2. CASE ~(t.op = "compute" /\ t.arg = p)
      <3>1. Positions(p)' = Positions(p)
        BY <2>2, PushPositions
      <3> QED
        BY <3>1 DEF Once, Queues
    <2> QED
      BY <2>1, <2>2
  <1> QED
    BY <1>2, <1>3, <1>4, PushHistory DEF Queues

LEMMA QuietQueues ==
  ASSUME Queues, UNCHANGED <<queues, value, signaled>>
  PROVE  Queues'
  <1>1. UNCHANGED <<log, done, value, signaled>>
    BY DEF queues
  <1>2. Placed'
    BY <1>1 DEF Queues, Placed
  <1>3. History'
    <2>1. \A f, n : Updated(f, n)' <=> Updated(f, n)
      BY <1>1 DEF Updated
    <2>2. \A e : SignalRan(e)' <=> SignalRan(e)
      BY <1>1 DEF SignalRan
    <2> QED
      BY <1>1, <2>1, <2>2 DEF Queues, History
  <1>4. \A p : Positions(p)' = Positions(p)
    BY <1>1 DEF Positions
  <1>5. \A p : Ran(p)' <=> Ran(p)
    BY <1>1, <1>4 DEF Ran
  <1>6. Ordered'
    <2>1. \A p, f, n : FenceAfter(p, f, n)' <=> FenceAfter(p, f, n)
      BY <1>1, <1>4 DEF FenceAfter
    <2>2. \A p, e : SignalAfter(p, e)' <=> SignalAfter(p, e)
      BY <1>1, <1>4 DEF SignalAfter
    <2>3. \A t, p : Holds(t, p)' <=> Holds(t, p)
      BY <2>1, <2>2 DEF Holds
    <2>4. \A p, s, i : Guarded(p, s, i)' <=> Guarded(p, s, i)
      BY <1>1, <1>4, <1>5, <2>3 DEF Guarded
    <2> QED
      BY <1>1, <2>4 DEF Queues, Ordered
  <1>7. Once'
    BY <1>1, <1>4 DEF Queues, Once
  <1> QED
    BY <1>2, <1>3, <1>6, <1>7 DEF Queues

LEMMA DoneTask ==
  ASSUME StreamTypes, NEW x \in Stream, NEW l \in 1..done[x]
  PROVE  l \in 1..Len(log[x]) /\ log[x][l] \in Task
  <1>1. l \in 1..Len(log[x])
    BY DEF StreamTypes
  <1> QED
    BY <1>1 DEF StreamTypes

LEMMA RunHistory ==
  ASSUME StreamTypes, StreamTypes', Placed, History, NEW s \in Stream, Run(s)
  PROVE  History'
  <1> DEFINE t == log[s][done[s] + 1]
  <1>1. Grow /\ UNCHANGED log
    BY RunGrows
  <1>2. done[s] + 1 \in 1..Len(log[s]) /\ t \in Task /\ done'[s] = done[s] + 1
    BY DEF Run, StreamTypes
  <1>3. \A f, n : f[2] \in Stream /\ Updated(f, n) => Updated(f, n)'
    BY <1>1, SMTT(20) DEF Updated, Grow, StreamTypes
  <1>4. \A e : e[2] \in Stream /\ SignalRan(e) => SignalRan(e)'
    BY <1>1, SMTT(20) DEF SignalRan, Grow, StreamTypes
  <1>5. /\ t.op \in {"fenceUpdate", "signal"} => t.arg \in Ticket /\ t.arg[2] = s
        /\ t.op \in {"fenceWait", "eventWait"} => t.arg \in Ticket
    BY <1>2 DEF Placed
  <1>6. \A f \in Ticket : f[2] \in Stream
    BY DEF Ticket
  <1>7. ASSUME NEW f \in Ticket, value'[f] > 0
        PROVE  Updated(f, value[f])'
    <2>1. CASE t.op = "fenceUpdate" /\ t.arg = f
      <3>1. value'[f] = t.n /\ t.n \in Nat
        BY <2>1, <1>2, TaskNumber DEF Run, StreamTypes
      <3>2. f[2] = s /\ done'[s] \in 1..done'[s] /\ log'[s][done'[s]] = t
        BY <2>1, <1>1, <1>2, <1>5
      <3> QED
        BY <2>1, <3>1, <3>2 DEF Updated
    <2>2. CASE ~(t.op = "fenceUpdate" /\ t.arg = f)
      <3>1. value'[f] = value[f]
        BY <2>2 DEF Run, StreamTypes
      <3>2. Updated(f, value[f])
        BY <1>7, <3>1 DEF History
      <3> QED
        BY <1>3, <1>6, <3>1, <3>2
    <2> QED
      BY <2>1, <2>2
  <1>8. ASSUME NEW e \in signaled'
        PROVE  SignalRan(e)'
    <2>1. CASE e \in signaled
      BY <2>1, <1>4, <1>6 DEF History, StreamTypes
    <2>2. CASE e \notin signaled
      <3>1. t.op = "signal" /\ t.arg = e
        BY <1>8, <2>2 DEF Run
      <3>2. e[2] = s /\ done'[s] \in 1..done'[s] /\ log'[s][done'[s]] = t
        BY <3>1, <1>1, <1>2, <1>5
      <3> QED
        BY <3>1, <3>2 DEF SignalRan
    <2> QED
      BY <2>1, <2>2
  <1>9. ASSUME NEW x \in Stream, NEW j \in 1..done'[x]
        PROVE  /\ log[x][j].op = "fenceWait" /\ log[x][j].n > 0 =>
                    Updated(log[x][j].arg, log[x][j].n)'
               /\ log[x][j].op = "eventWait" => SignalRan(log[x][j].arg)'
    <2> DEFINE u == log[x][j]
    <2>0. j \in 1..Len(log[x]) /\ u \in Task
      BY <1>1, <1>9 DEF StreamTypes
    <2>1. u.op \in {"fenceWait", "eventWait"} => u.arg \in Ticket
      BY <2>0 DEF Placed
    <2>2. CASE j \in 1..done[x]
      <3>1. /\ u.op = "fenceWait" /\ u.n > 0 => Updated(u.arg, u.n)
            /\ u.op = "eventWait" => SignalRan(u.arg)
        BY <2>2 DEF History
      <3> QED
        BY <3>1, <2>1, <1>1, <1>3, <1>4, <1>6
    <2>3. CASE ~(j \in 1..done[x])
      <3>1. x = s /\ j = done[s] + 1 /\ u = t
        BY <2>3, <1>9 DEF Run, StreamTypes
      <3>2. CASE t.op = "fenceWait" /\ t.n > 0
        <4>1. value[t.arg] >= t.n /\ value[t.arg] \in Nat /\ t.n \in Nat
          BY <3>2, <1>2, <1>5, TaskNumber DEF Run, Passes, StreamTypes
        <4>2. Updated(t.arg, value[t.arg])
          BY <3>2, <4>1, <1>5 DEF History
        <4>3. PICK l \in 1..done[t.arg[2]] :
                /\ log[t.arg[2]][l].op = "fenceUpdate"
                /\ log[t.arg[2]][l].arg = t.arg
                /\ log[t.arg[2]][l].n >= value[t.arg]
          BY <4>2 DEF Updated
        <4>4. log[t.arg[2]][l].n \in Nat
          <5>1. t.arg[2] \in Stream
            BY <3>2, <1>5, <1>6
          <5>2. log[t.arg[2]][l] \in Task
            BY <4>3, <5>1, DoneTask
          <5> QED
            BY <5>2, TaskNumber
        <4>5. log[t.arg[2]][l].n >= t.n
          <5>1. PICK a, b, c : a = log[t.arg[2]][l].n /\ b = value[t.arg] /\ c = t.n
            OBVIOUS
          <5>2. a \in Nat /\ b \in Nat /\ c \in Nat /\ a >= b /\ b >= c
            BY <4>1, <4>3, <4>4, <5>1
          <5>3. a >= c
            BY <5>2
          <5> QED
            BY <5>1, <5>3
        <4>6. Updated(t.arg, t.n)
          BY <4>3, <4>5 DEF Updated
        <4> QED
          BY <3>1, <3>2, <4>6, <1>1, <1>3, <1>5, <1>6
      <3>3. CASE t.op = "eventWait"
        <4>1. t.arg \in signaled
          BY <3>3 DEF Run, Passes
        <4> QED
          BY <3>1, <3>3, <4>1, <1>1, <1>4, <1>5, <1>6 DEF History
      <3> QED
        BY <3>1, <3>2, <3>3
    <2> QED
      BY <2>2, <2>3
  <1> QED
    BY <1>1, <1>7, <1>8, <1>9 DEF History

LEMMA RunQueues ==
  ASSUME StreamTypes, StreamTypes', Queues, NEW s \in Stream, Run(s)
  PROVE  Queues'
  <1>1. Grow /\ UNCHANGED log
    BY RunGrows
  <1>2. Placed' /\ Once'
    BY <1>1 DEF Queues, Placed, Once, Positions
  <1>3. Ordered'
    <2> SUFFICES ASSUME NEW x \in Stream, NEW i \in 1..Len(log[x]),
                        log[x][i].op = "compute", NEW b \in Ins[log[x][i].arg]
                 PROVE  Guarded(Maker(b), x, i)'
      BY <1>1 DEF Ordered
    <2>1. log[x][i].arg \in Prim /\ Maker(b) \in Prim
      BY MakerOf, EvalAssumption DEF Queues, Placed
    <2>2. Guarded(Maker(b), x, i)
      BY DEF Queues, Ordered
    <2> QED
      BY <1>1, <2>1, <2>2, GrowGuarded
  <1> QED
    BY <1>2, <1>3, RunHistory DEF Queues

-----------------------------------------------------------------------------
(* The part of the invariant that ties the client to the queues, and how     *)
(* each group of steps keeps it.                                             *)
Rest ==
  Called /\ Issued /\ Closed /\ Needed /\ Progress /\ Scheduled /\ Events /\ Fences /\ Waited

LEMMA VisitedTypes ==
  ASSUME ClientTypes
  PROVE  /\ Visited \subseteq Array
         /\ \A b \in Visited : Maker(b) \in Prim
         /\ NodeStream(cur) \in Stream
  BY NodeTypes, MakerOf DEF ClientTypes, Visited

(* A stream that runs a task changes nothing the client looks at, except     *)
(* that more has run.                                                        *)
LEMMA RunRest ==
  ASSUME TypeOK, TypeOK', Rest, NEW s \in Stream, Run(s)
  PROVE  Rest'
  <1>1. StreamTypes /\ StreamTypes' /\ ClientTypes /\ Grow /\ UNCHANGED log
    BY RunGrows DEF TypeOK
  <1>2. UNCHANGED <<status, event, count, pc, call, async, targets, home, plan,
                    pending, cur, todo, open, seen>>
    BY DEF Run, arrays, args, walk
  <1>3. Called' /\ Issued'
    BY <1>1, <1>2 DEF Rest, Called, Issued, InCall, InNode
  <1>4. Closed' /\ Needed' /\ Progress'
    BY <1>2 DEF Rest, Closed, Needed, Progress, InCall, InNode, NodeIns, NodeOuts
  <1>5. Scheduled'
    BY <1>1, <1>2 DEF Rest, Scheduled, InCall, InNode, Dispatched, Positions
  <1>6. Events'
    <2>1. \A b \in Array : Ran(Maker(b)) => Ran(Maker(b))'
      BY <1>1, GrowRan, MakerOf
    <2>2. \A b \in Array :
            /\ Dispatched(Maker(b))' = Dispatched(Maker(b))
            /\ \A e : SignalAfter(Maker(b), e)' = SignalAfter(Maker(b), e)
      BY <1>1 DEF Dispatched, SignalAfter, Positions
    <2> QED
      BY <1>2, <2>1, <2>2 DEF Rest, Events, InCall, InNode, Of
  <1>7. Fences'
    BY <1>1, <1>2 DEF Rest, Fences, InCall, InNode, NeedsFence, NodeIns, NodeStream, Of,
                      FenceAfter, Positions
  <1>8. Waited'
    <2>1. NodeStream(cur) \in Stream /\ home \in Stream
      BY <1>1, VisitedTypes DEF ClientTypes
    <2>2. \A x \in Stream : Len(log[x]) \in Nat
      BY <1>1 DEF StreamTypes
    <2>3. \A b \in Array, x \in Stream, i \in Nat :
            Guarded(Maker(b), x, i) => Guarded(Maker(b), x, i)'
      BY <1>1, GrowGuarded, MakerOf
    <2>4. NodeStream(cur)' = NodeStream(cur) /\ Visited' = Visited /\ Visited \subseteq Array
      BY <1>1, <1>2, VisitedTypes DEF NodeStream, Visited, NodeIns
    <2>5. targets \subseteq Array
      BY <1>1 DEF ClientTypes
    <2>6. ASSUME InNode' \/ pc' \in {"signal", "wait"}, NEW b \in Visited'
          PROVE  Guarded(Maker(b), NodeStream(cur), Len(log[NodeStream(cur)]) + 1)'
      <3>1. Guarded(Maker(b), NodeStream(cur), Len(log[NodeStream(cur)]) + 1)
        BY <1>2, <2>4, <2>6 DEF Rest, Waited, InNode
      <3> QED
        BY <3>1, <1>1, <2>1, <2>2, <2>3, <2>4, <2>6
    <2>7. ASSUME pc' \in {"signal", "wait"}, NEW i \in 1..Len(log[home]),
                 log[home][i].op = "signal", log[home][i].arg = Of(home),
                 NEW b \in targets
          PROVE  Guarded(Maker(b), home, i)'
      <3>1. Guarded(Maker(b), home, i)
        BY <1>2, <2>7 DEF Rest, Waited
      <3> QED
        BY <3>1, <2>1, <2>3, <2>5, <2>7, <1>2
    <2> QED
      BY <1>1, <1>2, <2>6, <2>7 DEF Waited, Of
  <1> QED
    BY <1>3, <1>4, <1>5, <1>6, <1>7, <1>8 DEF Rest

(* The client moves on inside a call: nothing but pc, todo, open and seen    *)
(* changes.                                                                  *)
Still == UNCHANGED <<arrays, queues, flags, args, pending, cur>>

LEMMA StillFacts ==
  ASSUME Still
  PROVE  /\ UNCHANGED <<status, event, log, done, count, value, signaled, call, async,
                        targets, home, plan, pending, cur>>
         /\ \A p : Positions(p)' = Positions(p)
         /\ \A p : Dispatched(p)' = Dispatched(p)
         /\ \A p : Ran(p)' = Ran(p)
         /\ \A p, e : SignalAfter(p, e)' = SignalAfter(p, e)
         /\ \A p, f, n : FenceAfter(p, f, n)' = FenceAfter(p, f, n)
         /\ \A p, x, i : Guarded(p, x, i)' = Guarded(p, x, i)
         /\ \A n : /\ NodeIns(n)' = NodeIns(n)
                   /\ NodeOuts(n)' = NodeOuts(n)
                   /\ NodeStream(n)' = NodeStream(n)
         /\ \A x : Of(x)' = Of(x)
         /\ NeedsFence' = NeedsFence
  <1>1. UNCHANGED <<status, event, log, done, count, value, signaled, call, async,
                    targets, home, plan, pending, cur>>
    BY DEF Still, arrays, queues, flags, args
  <1>2. \A p : Positions(p)' = Positions(p)
    BY <1>1 DEF Positions
  <1>3. /\ \A p : Dispatched(p)' = Dispatched(p)
        /\ \A p : Ran(p)' = Ran(p)
        /\ \A p, e : SignalAfter(p, e)' = SignalAfter(p, e)
        /\ \A p, f, n : FenceAfter(p, f, n)' = FenceAfter(p, f, n)
    BY <1>1, <1>2 DEF Dispatched, Ran, SignalAfter, FenceAfter
  <1>4. \A p, x, i : Guarded(p, x, i)' = Guarded(p, x, i)
    BY <1>1, <1>2, <1>3 DEF Guarded, Holds
  <1>5. /\ \A n : /\ NodeIns(n)' = NodeIns(n)
                  /\ NodeOuts(n)' = NodeOuts(n)
                  /\ NodeStream(n)' = NodeStream(n)
        /\ \A x : Of(x)' = Of(x)
    BY <1>1 DEF NodeIns, NodeOuts, NodeStream, Of
  <1>6. NeedsFence' = NeedsFence
    BY <1>1, <1>5 DEF NeedsFence
  <1> QED
    BY <1>1, <1>2, <1>3, <1>4, <1>5, <1>6

(* Inside a node, up to the moment its outputs are published.                *)
LEMMA NodeMoveRest ==
  ASSUME TypeOK, Rest, Still, InNode, InNode',
         (pc = "inputs" /\ pc' = "dispatch" /\ todo = {})
         \/ (pc \notin {"inputs", "dispatch", "publish"} /\
             pc' \notin {"inputs", "dispatch"} /\
             (pc' = "publish" => todo' = NodeOuts(cur)))
  PROVE  Rest'
  <1>1. Called' /\ Issued' /\ Closed' /\ Needed'
    BY StillFacts DEF Rest, Called, Issued, Closed, Needed, InCall, InNode
  <1>2. Progress'
    <2>1. InNode => \A b \in Outs[cur] : cur # Sync => b \in NodeOuts(cur)
      BY DEF NodeOuts
    <2>2. \A p \in plan \ pending : p # Sync
      BY EvalAssumption DEF TypeOK, ClientTypes
    <2> QED
      BY <2>1, <2>2, StillFacts DEF Rest, Progress, InCall, InNode
  <1>3. Scheduled' /\ Events' /\ Fences'
    BY StillFacts DEF Rest, Scheduled, Events, Fences, InCall, InNode
  <1>4. Waited'
    BY StillFacts DEF Rest, Waited, Visited, InCall, InNode
  <1> QED
    BY <1>1, <1>2, <1>3, <1>4 DEF Rest

LEMMA PublishedRest ==
  ASSUME TypeOK, Rest, Published
  PROVE  Rest'
  <1>0. Still /\ pc = "publish" /\ todo = {} /\ pc' = IF cur = Sync THEN "signal" ELSE "next"
    BY DEF Published, Still, walk
  <1>1. InNode /\ ~InNode' /\ InCall /\ InCall'
    BY <1>0 DEF InNode, InCall
  <1>2. \A p \in plan \ pending : \A b \in Outs[p] : status[b] # "unscheduled"
    BY <1>0, <1>1 DEF Rest, Progress
  <1>3. cur # Sync => cur \in plan \ pending
    BY <1>1 DEF Rest, Progress
  <1>4. Called' /\ Issued' /\ Closed' /\ Needed' /\ Fences'
    BY <1>0, <1>1, StillFacts DEF Rest, Called, Issued, Closed, Needed, Fences
  <1>5. Progress'
    BY <1>0, <1>1, <1>2, StillFacts DEF Rest, Progress
  <1>6. \A b \in Array : status[b] = "unscheduled" => Maker(b) # cur
    BY <1>2, <1>3, MakerOf, EvalAssumption
  <1>7. Scheduled'
    BY <1>0, <1>1, <1>6, StillFacts DEF Rest, Scheduled
  <1>8. Events'
    BY <1>0, <1>1, <1>6, StillFacts DEF Rest, Events
  <1>9. Waited'
    <2>1. CASE cur # Sync
      BY <1>0, <1>1, <2>1 DEF Waited
    <2>2. CASE cur = Sync
      <3>1. pc' = "signal" /\ Visited' = Visited /\ NodeStream(cur) = home
        BY <1>0, <2>2, StillFacts DEF Visited, NodeStream
      <3>2. home \in Stream /\ Of(home)[1] = call
        BY DEF TypeOK, ClientTypes, Of
      <3>3. \A i \in 1..Len(log[home]) :
              ~(log[home][i].op = "signal" /\ log[home][i].arg = Of(home))
        BY <1>1, <3>2 DEF Rest, Issued, TypeOK, ClientTypes
      <3>4. UNCHANGED <<log, home, cur, call>> /\ Of(home)' = Of(home)
        BY <1>0, StillFacts
      <3>5. \A b \in Visited :
              Guarded(Maker(b), NodeStream(cur), Len(log[NodeStream(cur)]) + 1)
        BY <1>1 DEF Rest, Waited
      <3>6. (\A b \in Visited :
               Guarded(Maker(b), NodeStream(cur), Len(log[NodeStream(cur)]) + 1))'
        BY <1>0, <3>1, <3>4, <3>5, StillFacts
      <3> QED
        BY <3>3, <3>4, <3>6 DEF Waited
    <2> QED
      BY <2>1, <2>2
  <1> QED
    BY <1>4, <1>5, <1>7, <1>8, <1>9 DEF Rest

LEMMA SignaledRest ==
  ASSUME TypeOK, Rest, Signaled
  PROVE  Rest'
  <1>0. Still /\ pc = "signal" /\ pc' = IF async THEN "idle" ELSE "wait"
    BY DEF Signaled, Still, walk
  <1>1. ~InNode /\ ~InNode' /\ InCall
    BY <1>0 DEF InNode, InCall
  <1>2. Called' /\ Issued' /\ Closed' /\ Needed' /\ Fences'
    BY <1>0, <1>1, StillFacts DEF Rest, Called, Issued, Closed, Needed, Fences
  <1>3. Progress' /\ Scheduled'
    BY <1>0, <1>1, StillFacts DEF Rest, Progress, Scheduled
  <1>4. Events'
    BY <1>0, <1>1, StillFacts DEF Rest, Events, InCall
  <1>5. Waited'
    BY <1>0, <1>1, StillFacts DEF Rest, Waited, Visited
  <1> QED
    BY <1>2, <1>3, <1>4, <1>5 DEF Rest

(* What has run has had its inputs computed before it.                       *)
LEMMA InputsRan ==
  ASSUME TypeOK, Queues, NEW p \in Prim, Ran(p), NEW b \in Ins[p]
  PROVE  Ran(Maker(b))
  <1>1. Maker(b) \in Prim /\ StreamOf[p] \in Stream
    BY MakerOf, StreamOfType, EvalAssumption
  <1>2. PICK k \in Positions(p) : k <= done[StreamOf[p]]
    BY DEF Ran
  <1>3. /\ k \in 1..Len(log[StreamOf[p]])
        /\ log[StreamOf[p]][k].op = "compute"
        /\ log[StreamOf[p]][k].arg = p
    BY <1>2 DEF Positions
  <1>4. Guarded(Maker(b), StreamOf[p], k)
    BY <1>1, <1>3 DEF Queues, Ordered
  <1>5. k \in Nat /\ k <= done[StreamOf[p]] + 1
    BY <1>1, <1>2, <1>3 DEF TypeOK, StreamTypes
  <1> QED
    BY <1>1, <1>4, <1>5, PassedRan DEF TypeOK, Queues

(* When the signal of the synchronizer has run, the whole plan has run.      *)
LEMMA PlanRan ==
  ASSUME TypeOK, Queues, Rest, pc = "wait", Of(home) \in signaled
  PROVE  \A p \in plan : Ran(p)
  <1>0. home \in Stream /\ targets \subseteq Array /\ Of(home)[2] = home
    BY DEF TypeOK, ClientTypes, Of
  <1>1. PICK l \in 1..done[home] : log[home][l].op = "signal" /\ log[home][l].arg = Of(home)
    BY <1>0 DEF Queues, History, SignalRan
  <1>2. l \in 1..Len(log[home]) /\ l \in Nat /\ l <= done[home] + 1
    BY <1>0, <1>1 DEF TypeOK, StreamTypes
  <1>3. \A b \in targets : Guarded(Maker(b), home, l)
    BY <1>1, <1>2 DEF Rest, Waited
  <1>4. \A b \in targets : Ran(Maker(b))
    BY <1>0, <1>2, <1>3, PassedRan, MakerOf DEF TypeOK, Queues
  <1> DEFINE P == {p \in Prim : Ran(p)}
  <1>5. \A b \in targets \cup UNION {Ins[p] : p \in P} : Maker(b) \in P
    BY <1>0, <1>4, InputsRan, MakerOf, EvalAssumption
  <1>6. plan \subseteq P
    BY <1>5 DEF Rest, Needed, InCall
  <1> QED
    BY <1>6

LEMMA EvalReturnRest ==
  ASSUME TypeOK, Queues, Rest, EvalReturn
  PROVE  Rest'
  <1>0. Still /\ pc = "wait" /\ pc' = "idle" /\ Of(home) \in signaled
    BY DEF EvalReturn, Still, walk
  <1>1. ~InNode /\ ~InNode' /\ InCall /\ ~InCall'
    BY <1>0 DEF InNode, InCall
  <1>2. Called' /\ Issued' /\ Closed' /\ Needed' /\ Fences'
    BY <1>0, <1>1, StillFacts DEF Rest, Called, Issued, Closed, Needed, Fences
  <1>3. Progress' /\ Scheduled' /\ Waited'
    BY <1>0, <1>1, StillFacts DEF Rest, Progress, Scheduled, Waited
  <1>4. \A p \in plan : Ran(p)
    BY <1>0, PlanRan
  <1>5. Events'
    BY <1>1, <1>4, StillFacts, <1>0 DEF Rest, Events
  <1> QED
    BY <1>2, <1>3, <1>5 DEF Rest

-----------------------------------------------------------------------------
(* Outside a call.                                                           *)

(* What a client may read has run.                                           *)
LEMMA AvailableRan ==
  ASSUME TypeOK, Queues, Rest, ~InCall, NEW b \in Array, IsAvailable(b)
  PROVE  Ran(Maker(b))
  <1>1. CASE status[b] = "available"
    BY <1>1 DEF Rest, Events
  <1>2. CASE status[b] = "evaluated" /\ event[b] = None
    BY <1>2 DEF Rest, Events
  <1>3. CASE status[b] = "evaluated" /\ event[b] # None /\ event[b] \in signaled
    <2>1. Dispatched(Maker(b)) /\ Maker(b) \in Prim
      BY <1>3, MakerOf DEF Rest, Scheduled
    <2>2. event[b] \in Ticket /\ event[b][2] = StreamOf[Maker(b)]
          /\ SignalAfter(Maker(b), event[b])
      BY <1>3, <2>1 DEF Rest, Events
    <2> QED
      BY <1>3, <2>1, <2>2, SignaledRan DEF TypeOK, Queues
  <1> QED
    BY <1>1, <1>2, <1>3 DEF IsAvailable

LEMMA AvailableRest ==
  ASSUME TypeOK, Queues, Rest, ~InCall, pc' = pc, NEW b \in Array,
         IsAvailable(b), status[b] # "unscheduled",
         status' = [status EXCEPT ![b] = "available"],
         event' = [event EXCEPT ![b] = None],
         todo' \subseteq todo,
         UNCHANGED <<queues, flags, active, args, pending, cur, open, seen>>
  PROVE  Rest'
  <1>0. UNCHANGED <<log, done, count, value, signaled, call, async,
                    targets, home, plan, pending, cur>>
    BY DEF queues, flags, args
  <1>1. ~InNode /\ ~InNode' /\ ~InCall'
    BY DEF InNode, InCall
  <1>2. pc \notin {"inputs", "dispatch", "publish", "signal", "wait"}
    BY DEF InCall, InNode
  <1>3. status' \in [Array -> {"unscheduled", "evaluated", "available"}]
    BY DEF TypeOK, ClientTypes
  <1>4. /\ \A a \in Array : status'[a] = "unscheduled" <=> status[a] = "unscheduled"
        /\ \A a \in Array : a # b => status'[a] = status[a] /\ event'[a] = event[a]
        /\ status'[b] = "available" /\ event'[b] = None
    BY DEF TypeOK, ClientTypes
  <1>5. /\ \A p : Dispatched(p)' = Dispatched(p)
        /\ \A p : Ran(p)' = Ran(p)
        /\ \A p, e : SignalAfter(p, e)' = SignalAfter(p, e)
    BY <1>0 DEF Dispatched, Ran, SignalAfter, Positions
  <1>6. Called' /\ Issued' /\ Closed' /\ Needed' /\ Fences' /\ Waited'
    BY <1>0, <1>1, <1>2 DEF Rest, Called, Issued, Closed, Needed, Fences, Waited
  <1>7. Progress'
    BY <1>0, <1>1, <1>2, <1>4 DEF Rest, Progress, TypeOK, ClientTypes
  <1>8. Scheduled'
    BY <1>0, <1>1, <1>2, <1>4, <1>5 DEF Rest, Scheduled
  <1>9. Events'
    BY <1>1, <1>4, <1>5, AvailableRan DEF Rest, Events
  <1> QED
    BY <1>6, <1>7, <1>8, <1>9 DEF Rest

LEMMA OutsideRest ==
  ASSUME TypeOK, Rest, Still, ~InCall, pc' \in {"idle", "ready"},
         pc' = "ready" => \A b \in todo' : status[b] # "unscheduled"
  PROVE  Rest'
  <1>1. ~InNode /\ ~InNode' /\ ~InCall'
    BY DEF InNode, InCall
  <1>2. pc \notin {"inputs", "dispatch", "publish", "signal", "wait", "next"}
    BY DEF InCall, InNode
  <1>3. Called' /\ Issued' /\ Closed' /\ Needed' /\ Fences' /\ Waited'
    BY <1>1, <1>2, StillFacts DEF Rest, Called, Issued, Closed, Needed, Fences, Waited
  <1>4. Progress' /\ Scheduled' /\ Events'
    BY <1>1, <1>2, StillFacts DEF Rest, Progress, Scheduled, Events
  <1> QED
    BY <1>3, <1>4 DEF Rest

-----------------------------------------------------------------------------
(* The start of a call.                                                      *)
ClosedSet(T, P) ==
  \A b \in T \cup UNION {Ins[p] : p \in P} : status[b] = "unscheduled" => Maker(b) \in P

LEMMA ReachedFacts ==
  ASSUME NEW T \in SUBSET Array
  PROVE  /\ Reached(T) \subseteq Prim
         /\ ClosedSet(T, Reached(T))
         /\ \A P \in SUBSET Prim : ClosedSet(T, P) => Reached(T) \subseteq P
         /\ \A p \in Reached(T) : \E b \in Array : status[b] = "unscheduled" /\ Maker(b) = p
  <1>1. Reached(T) = {p \in Prim : \A P \in SUBSET Prim : ClosedSet(T, P) => p \in P}
    BY DEF Reached, ClosedSet
  <1>2. \A P \in SUBSET Prim : ClosedSet(T, P) => Reached(T) \subseteq P
    BY <1>1
  <1>3. ClosedSet(T, Reached(T))
    <2> SUFFICES ASSUME NEW b \in T \cup UNION {Ins[p] : p \in Reached(T)},
                        status[b] = "unscheduled"
                 PROVE  Maker(b) \in Reached(T)
      BY DEF ClosedSet
    <2>1. b \in Array
      BY <1>1, EvalAssumption
    <2>2. ASSUME NEW P \in SUBSET Prim, ClosedSet(T, P)
          PROVE  Maker(b) \in P
      <3>1. b \in T \cup UNION {Ins[p] : p \in P}
        BY <1>2, <2>2
      <3> QED
        BY <2>2, <3>1 DEF ClosedSet
    <2> QED
      BY <1>1, <2>1, <2>2, MakerOf
  <1>4. \A p \in Reached(T) : \E b \in Array : status[b] = "unscheduled" /\ Maker(b) = p
    <2> DEFINE P == {p \in Prim : \E b \in Array : status[b] = "unscheduled" /\ Maker(b) = p}
    <2>1. ClosedSet(T, P)
      <3>1. \A b \in T \cup UNION {Ins[p] : p \in P} : b \in Array
        BY EvalAssumption
      <3> QED
        BY <3>1, MakerOf DEF ClosedSet
    <2>2. P \in SUBSET Prim
      OBVIOUS
    <2> QED
      BY <1>2, <2>1, <2>2
  <1> QED
    BY <1>1, <1>2, <1>3, <1>4

LEMMA StartRest ==
  ASSUME TypeOK, Rest, NEW T \in Requests, NEW m \in BOOLEAN, Start(T, m)
  PROVE  Rest'
  <1>0. /\ UNCHANGED <<status, event, log, done, count, value, signaled>>
        /\ pc = "idle" /\ pc' = "next" /\ call' = call + 1 /\ call \in Nat
        /\ targets' = T /\ plan' = Reached(T) /\ pending' = Reached(T)
    BY DEF Start, arrays, queues, flags, TypeOK, ClientTypes
  <1>1. ~InNode /\ ~InNode' /\ ~InCall /\ InCall'
    BY <1>0 DEF InNode, InCall
  <1>2. T \in SUBSET Array
    BY EvalAssumption
  <1>3. /\ \A p : Dispatched(p)' = Dispatched(p)
        /\ \A p : Ran(p)' = Ran(p)
        /\ \A p, e : SignalAfter(p, e)' = SignalAfter(p, e)
    BY <1>0 DEF Dispatched, Ran, SignalAfter, Positions
  <1>4. \A p \in Reached(T) : ~Dispatched(p)
    BY <1>1, <1>2, ReachedFacts DEF Rest, Scheduled
  <1>5. Called'
    BY <1>0 DEF Called
  <1>6. Issued'
    <2> SUFFICES ASSUME NEW s \in Stream, NEW i \in 1..Len(log[s])
                 PROVE  /\ log[s][i].op = "fenceUpdate" =>
                             log[s][i].n <= count[log[s][i].arg]
                        /\ log[s][i].op = "signal" => log[s][i].arg[1] < call + 1
      BY <1>0, Zenon DEF Issued
    <2>1. log[s][i] \in Task
      BY DEF TypeOK, StreamTypes
    <2>2. log[s][i].op = "signal" => log[s][i].arg \in Ticket
      BY <2>1 DEF Task
    <2>3. \A e \in Ticket : e[1] \in Nat
      BY EvalAssumption DEF Ticket
    <2>4. log[s][i].op = "signal" => log[s][i].arg[1] < call \/ log[s][i].arg[1] = call
      BY DEF Rest, Issued
    <2>5. log[s][i].op = "signal" => log[s][i].arg[1] < call + 1
      BY <1>0, <2>2, <2>3, <2>4
    <2> QED
      BY <2>5 DEF Rest, Issued
  <1>7. Closed'
    <2>1. \A n \in plan' \cup {Sync} : \A b \in NodeIns(n)' :
            b \in T \cup UNION {Ins[p] : p \in Reached(T)}
      BY <1>0 DEF NodeIns
    <2>2. ClosedSet(T, Reached(T))
      BY <1>2, ReachedFacts
    <2> QED
      BY <1>0, <2>1, <2>2 DEF Closed, ClosedSet
  <1>8. Needed'
    <2> SUFFICES ASSUME NEW P \in SUBSET Prim,
                        \A b \in T \cup UNION {Ins[p] : p \in P} :
                          Maker(b) \in Reached(T) => Maker(b) \in P
                 PROVE  Reached(T) \subseteq P
      BY <1>0 DEF Needed
    <2> DEFINE Q == P \cap Reached(T)
    <2>1. ClosedSet(T, Reached(T))
      BY <1>2, ReachedFacts
    <2>2. ClosedSet(T, Q)
      <3> SUFFICES ASSUME NEW b \in T \cup UNION {Ins[p] : p \in Q},
                          status[b] = "unscheduled"
                   PROVE  Maker(b) \in Q
        BY DEF ClosedSet
      <3>1. Maker(b) \in Reached(T)
        BY <2>1 DEF ClosedSet
      <3> QED
        BY <3>1
    <2>3. Reached(T) \subseteq Q
      BY <1>2, <2>2, ReachedFacts
    <2> QED
      BY <2>3
  <1>9. Progress'
    BY <1>0, <1>1 DEF Progress
  <1>10. Scheduled'
    BY <1>0, <1>1, <1>3, <1>4 DEF Rest, Scheduled
  <1>11. Events'
    BY <1>0, <1>1, <1>3 DEF Rest, Events
  <1>12. Fences'
    <2>1. \A b \in NeedsFence' : b \in Array /\ Maker(b) \in Reached(T)
      BY <1>0 DEF NeedsFence
    <2>2. \A b \in NeedsFence' : status[b] = "unscheduled"
      BY <1>4, <2>1 DEF Rest, Scheduled
    <2> QED
      BY <1>0, <2>2 DEF Fences
  <1>13. Waited'
    BY <1>0, <1>1 DEF Waited
  <1> QED
    BY <1>5, <1>6, <1>7, <1>8, <1>9, <1>10, <1>11, <1>12, <1>13 DEF Rest

-----------------------------------------------------------------------------
(* A node is taken from the tape: nobody has to wait for an array that has   *)
(* not been scheduled.                                                       *)
LEMMA TakeRest ==
  ASSUME TypeOK, Rest, NEW n, Take(n),
         (n \in pending /\ Ready(n)) \/ (n = Sync /\ pending = {})
  PROVE  Rest'
  <1>0. /\ UNCHANGED <<status, log, done, count, value, signaled, call, async,
                       targets, home, plan>>
        /\ pc = "next" /\ pc' = "inputs" /\ cur' = n /\ pending' = pending \ {n}
        /\ todo' = NodeIns(n)
        /\ event' = IF async
                    THEN [b \in Array |-> IF b \in NodeOuts(n)
                                          THEN Of(NodeStream(n)) ELSE event[b]]
                    ELSE event
    BY DEF Take, queues, flags, args
  <1>1. ~InNode /\ InNode' /\ InCall /\ InCall' /\ call > 0
    BY <1>0 DEF InNode, InCall, Rest, Called
  <1>2. /\ \A p : Dispatched(p)' = Dispatched(p)
        /\ \A p : Ran(p)' = Ran(p)
        /\ \A p, e : SignalAfter(p, e)' = SignalAfter(p, e)
        /\ \A p, f, k : FenceAfter(p, f, k)' = FenceAfter(p, f, k)
    BY <1>0 DEF Dispatched, Ran, SignalAfter, FenceAfter, Positions
  <1>3. /\ \A x : /\ NodeIns(x)' = NodeIns(x)
                  /\ NodeStream(x)' = NodeStream(x)
        /\ \A x : Of(x)' = Of(x)
        /\ NeedsFence' = NeedsFence
    BY <1>0 DEF NodeIns, NodeStream, Of, NeedsFence
  <1>4. /\ pending \subseteq plan /\ plan \subseteq Prim /\ Sync \notin Prim
        /\ n \in plan \cup {Sync}
        /\ n # Sync => n \in pending /\ NodeOuts(n) = Outs[n] /\ NodeStream(n) = StreamOf[n]
        /\ n = Sync => NodeOuts(n) = {}
    BY EvalAssumption DEF TypeOK, ClientTypes, NodeOuts, NodeStream
  <1>5. \A b \in NodeIns(n) : b \in Array /\ Maker(b) \in Prim /\ b \in Outs[Maker(b)]
    BY <1>4, NodeTypes, MakerOf DEF TypeOK
  <1>6. \A b \in NodeIns(n) : status[b] # "unscheduled"
    <2> SUFFICES ASSUME NEW b \in NodeIns(n), status[b] = "unscheduled"
                 PROVE  FALSE
      OBVIOUS
    <2>1. Maker(b) \in plan
      BY <1>1, <1>4 DEF Rest, Closed
    <2>2. Maker(b) \notin pending
      BY DEF Ready
    <2> QED
      BY <1>1, <1>5, <2>1, <2>2 DEF Rest, Progress
  <1>7. Called' /\ Issued' /\ Closed' /\ Needed' /\ Fences'
    BY <1>0, <1>1, <1>2, <1>3 DEF Rest, Called, Issued, Closed, Needed, Fences
  <1>8. Progress'
    BY <1>0, <1>1, <1>3, <1>4, <1>6 DEF Rest, Progress
  <1>9. Scheduled'
    BY <1>0, <1>1, <1>2, <1>4 DEF Rest, Scheduled
  <1>10. Events'
    <2>1. \A b \in Array : b \in NodeOuts(n) => Maker(b) = n /\ n \in pending
      BY <1>4, MakerUnique
    <2>2. \A b \in Array : Maker(b) = n => b \in NodeOuts(n) /\ n \in pending
      BY <1>4, MakerOf
    <2>3. n \in pending => Of(StreamOf[n]) \in Ticket /\ Of(StreamOf[n])[2] = StreamOf[n]
      BY <1>1, <1>4, OfTicket, StreamOfType DEF Of
    <2>4. n \in pending => ~Dispatched(n)
      BY <1>1 DEF Rest, Scheduled
    <2>5. \A b \in Array : b \in NodeOuts(n) => status[b] = "unscheduled"
      BY <2>1, <2>4 DEF Rest, Scheduled
    <2>6. \A b \in Array :
            event'[b] = IF async /\ b \in NodeOuts(n) THEN Of(StreamOf[n]) ELSE event[b]
      BY <1>0, <1>4
    <2>7. \A b \in Array : event'[b] # None =>
            /\ event'[b] \in Ticket
            /\ event'[b][2] = StreamOf[Maker(b)]
            /\ Dispatched(Maker(b)) => SignalAfter(Maker(b), event'[b])
      BY <2>1, <2>3, <2>4, <2>6 DEF Rest, Events
    <2>8. \A b \in Array : status[b] = "unscheduled" =>
            event'[b] = IF async /\ n = Maker(b) THEN Of(StreamOf[Maker(b)]) ELSE None
      BY <1>1, <2>1, <2>2, <2>6 DEF Rest, Events
    <2>9. \A b \in Array : status[b] = "available" => Ran(Maker(b))
      BY DEF Rest, Events
    <2>10. \A b \in Array : status[b] # "unscheduled" /\ event'[b] = None =>
             Ran(Maker(b)) \/ (~async /\ Maker(b) \in plan \ pending')
      BY <1>0, <2>5, <2>6 DEF Rest, Events
    <2> QED
      BY <1>0, <1>1, <1>2, <1>3, <2>7, <2>8, <2>9, <2>10 DEF Events
  <1>11. Waited'
    BY <1>0, <1>3 DEF Waited, Visited
  <1> QED
    BY <1>7, <1>8, <1>9, <1>10, <1>11 DEF Rest

-----------------------------------------------------------------------------
(* What it changes for the client that one more task is in a queue.          *)
LEMMA PushIssued ==
  ASSUME StreamTypes, Issued, NEW s \in Stream, NEW t \in Task, Push(s, t), call' = call,
         InNode' \/ pc' = "next" => InNode \/ pc = "next",
         \A f \in Ticket : count[f] <= count'[f] /\ count[f] \in Nat /\ count'[f] \in Nat,
         t.op = "fenceUpdate" => t.n <= count'[t.arg],
         t.op = "signal" => t.arg[1] = call /\ ~InNode' /\ pc' # "next"
  PROVE  Issued'
  <1> SUFFICES ASSUME NEW x \in Stream, NEW i \in 1..Len(log'[x])
               PROVE  /\ log'[x][i].op = "fenceUpdate" => log'[x][i].n <= count'[log'[x][i].arg]
                      /\ log'[x][i].op = "signal" =>
                           \/ log'[x][i].arg[1] < call
                           \/ log'[x][i].arg[1] = call /\ ~InNode' /\ pc' # "next"
    BY Zenon DEF Issued
  <1>1. CASE i \in 1..Len(log[x])
    <2>1. log'[x][i] = log[x][i] /\ log[x][i] \in Task
      BY <1>1, PushGrows DEF Grow, StreamTypes
    <2>2. log[x][i].op = "fenceUpdate" => log[x][i].n <= count[log[x][i].arg]
      BY <1>1 DEF Issued
    <2>3. log[x][i].op = "signal" =>
            \/ log[x][i].arg[1] < call
            \/ log[x][i].arg[1] = call /\ ~InNode /\ pc # "next"
      BY <1>1 DEF Issued
    <2>4. log[x][i].op = "fenceUpdate" => log[x][i].arg \in Ticket
      BY <2>1 DEF Task
    <2>5. log[x][i].n \in Nat
      BY <2>1, TaskNumber
    <2>6. log[x][i].op = "fenceUpdate" => log[x][i].n <= count'[log[x][i].arg]
      BY <2>2, <2>4, <2>5
    <2> QED
      BY <2>1, <2>3, <2>6
  <1>2. CASE ~(i \in 1..Len(log[x]))
    <2>1. x = s /\ log'[x][i] = t
      BY <1>2 DEF Push, StreamTypes
    <2> QED
      BY <2>1
  <1> QED
    BY <1>1, <1>2

LEMMA PushFacts ==
  ASSUME StreamTypes, StreamTypes', NEW s \in Stream, NEW t, Push(s, t), t.op # "compute"
  PROVE  /\ \A p \in Prim : Positions(p)' = Positions(p)
         /\ \A p \in Prim : Dispatched(p)' = Dispatched(p)
         /\ \A p \in Prim : Ran(p)' = Ran(p)
         /\ \A p \in Prim : \A e : SignalAfter(p, e) => SignalAfter(p, e)'
         /\ \A p \in Prim : \A f, n : FenceAfter(p, f, n) => FenceAfter(p, f, n)'
         /\ \A p \in Prim, x \in Stream, i, j \in Nat :
              i <= j /\ Guarded(p, x, i) => Guarded(p, x, j)'
         /\ \A x \in Stream : Len(log[x]) \in Nat /\ Len(log'[x]) \in Nat
                              /\ Len(log[x]) <= Len(log'[x])
  <1>1. Grow
    BY PushGrows
  <1>2. \A p \in Prim : Positions(p)' = Positions(p)
    BY PushPositions
  <1>3. /\ \A p \in Prim : Dispatched(p)' = Dispatched(p)
        /\ \A p \in Prim : Ran(p)' = Ran(p)
    BY <1>2 DEF Dispatched, Ran, Push
  <1>4. /\ \A p \in Prim : \A e : SignalAfter(p, e) => SignalAfter(p, e)'
        /\ \A p \in Prim : \A f, n : FenceAfter(p, f, n) => FenceAfter(p, f, n)'
    BY <1>1, GrowSignalAfter, GrowFenceAfter
  <1>5. \A p \in Prim, x \in Stream, i, j \in Nat :
          i <= j /\ Guarded(p, x, i) => Guarded(p, x, j)'
    BY <1>1, GrowGuarded
  <1>6. \A x \in Stream : Len(log[x]) \in Nat /\ Len(log'[x]) \in Nat
                          /\ Len(log[x]) <= Len(log'[x])
    BY <1>1 DEF StreamTypes, Grow
  <1> QED
    BY <1>2, <1>3, <1>4, <1>5, <1>6

(* A task at the end of the queue that waits for p guards what follows.      *)
LEMMA WaitGuards ==
  ASSUME StreamTypes, StreamTypes', NEW s \in Stream, NEW t \in Task, Push(s, t),
         NEW p \in Prim, Holds(t, p)
  PROVE  (Guarded(p, s, Len(log[s]) + 1))'
  <1>1. Holds(t, p)'
    BY PushGrows, GrowHolds
  <1>2. /\ Len(log[s]) \in Nat
        /\ Len(log'[s]) = Len(log[s]) + 1
        /\ log'[s][Len(log[s]) + 1] = t
    BY DEF Push, StreamTypes
  <1>3. Len(log[s]) + 1 \in 1..Len(log'[s]) /\ Len(log[s]) + 1 < Len(log'[s]) + 1
    BY <1>2
  <1>4. \E j \in 1..Len(log'[s]) : j < Len(log'[s]) + 1 /\ (Holds(log[s][j], p))'
    BY <1>1, <1>2, <1>3
  <1> QED
    BY <1>2, <1>4 DEF Guarded

LEMMA QuietFacts ==
  ASSUME StreamTypes, StreamTypes', UNCHANGED queues
  PROVE  /\ \A p \in Prim : Positions(p)' = Positions(p)
         /\ \A p \in Prim : Dispatched(p)' = Dispatched(p)
         /\ \A p \in Prim : Ran(p)' = Ran(p)
         /\ \A p \in Prim : \A e : SignalAfter(p, e) => SignalAfter(p, e)'
         /\ \A p \in Prim : \A f, n : FenceAfter(p, f, n) => FenceAfter(p, f, n)'
         /\ \A p \in Prim, x \in Stream, i, j \in Nat :
              i <= j /\ Guarded(p, x, i) => Guarded(p, x, j)'
         /\ \A x \in Stream : Len(log[x]) \in Nat /\ Len(log'[x]) \in Nat
                              /\ Len(log[x]) <= Len(log'[x])
  <1>1. Grow
    BY QuietGrows
  <1>2. /\ \A p \in Prim : Positions(p)' = Positions(p)
        /\ \A p \in Prim : Dispatched(p)' = Dispatched(p)
        /\ \A p \in Prim : Ran(p)' = Ran(p)
    BY DEF queues, Positions, Dispatched, Ran
  <1>3. /\ \A p \in Prim : \A e : SignalAfter(p, e) => SignalAfter(p, e)'
        /\ \A p \in Prim : \A f, n : FenceAfter(p, f, n) => FenceAfter(p, f, n)'
    BY <1>1, GrowSignalAfter, GrowFenceAfter
  <1>4. \A p \in Prim, x \in Stream, i, j \in Nat :
          i <= j /\ Guarded(p, x, i) => Guarded(p, x, j)'
    BY <1>1, GrowGuarded
  <1>5. \A x \in Stream : Len(log[x]) \in Nat /\ Len(log'[x]) \in Nat
                          /\ Len(log[x]) <= Len(log'[x])
    BY <1>1 DEF StreamTypes, Grow
  <1> QED
    BY <1>2, <1>3, <1>4, <1>5

-----------------------------------------------------------------------------
(* A node awaits its inputs.                                                 *)
LEMMA AwaitTask ==
  ASSUME TypeOK, Queues, Rest, NEW b \in Array, AwaitInput(b)
  PROVE  LET s == NodeStream(cur)
         IN  \/ /\ UNCHANGED event
                /\ \E t \in Task : /\ t.op \in {"fenceWait", "eventWait"}
                                   /\ Push(s, t)
                                   /\ Holds(t, Maker(b))
             \/ /\ UNCHANGED queues
                /\ event' = event \/ (event' = [event EXCEPT ![b] = None] /\ Ran(Maker(b)))
                /\ Guarded(Maker(b), s, Len(log[s]) + 1)
  <1> DEFINE s == NodeStream(cur)
             p == Maker(b)
  <1>0. s \in Stream /\ p \in Prim /\ StreamOf[p] \in Stream /\ StreamTypes /\ UNCHANGED done
    BY NodeTypes, MakerOf, StreamOfType DEF TypeOK, ClientTypes, AwaitInput
  <1>1. InNode /\ InCall /\ b \in NodeIns(cur) /\ status[b] # "unscheduled" /\ call > 0
    <2>1. InNode /\ InCall
      BY DEF AwaitInput, InNode, InCall
    <2> QED
      BY <2>1 DEF AwaitInput, Rest, Progress, Called
  <1>2. Dispatched(p)
    BY <1>1 DEF Rest, Scheduled
  <1>3. CASE b \in NeedsFence
    <2> DEFINE f == Of(StreamOf[p])
               t == [op |-> "fenceWait", arg |-> f, n |-> count[f], counted |-> FALSE]
    <2>1. f \in Ticket /\ f[2] = StreamOf[p] /\ count[f] \in Nat
      BY <1>0, <1>1, OfTicket DEF TypeOK, StreamTypes, Of
    <2>2. count[f] > 0 /\ FenceAfter(p, f, count[f])
      BY <1>1, <1>3 DEF Rest, Fences
    <2>3. t \in Task /\ t.op = "fenceWait" /\ t.arg = f /\ t.n = count[f]
      BY <2>1 DEF Task
    <2>4. Holds(t, p)
      BY <2>1, <2>2, <2>3 DEF Holds
    <2>5. log' = [log EXCEPT ![s] = Append(@, t)] /\ UNCHANGED event
      BY <1>3 DEF AwaitInput, WaitFence, Enqueue
    <2>6. Push(s, t)
      BY <1>0, <2>5, PushIntro
    <2> QED
      BY <2>3, <2>4, <2>5, <2>6
  <1>4. CASE b \notin NeedsFence /\ WaitEvent(b, s)
    <2>1. event[b] \in Ticket /\ event[b][2] = StreamOf[p] /\ SignalAfter(p, event[b])
      BY <1>2, <1>4 DEF WaitEvent, Rest, Events
    <2>2. CASE event[b] \in signaled
      <3>1. Ran(p)
        BY <1>0, <2>1, <2>2, SignaledRan DEF Queues
      <3>2. event' = [event EXCEPT ![b] = None] /\ UNCHANGED log
        BY <1>4, <2>2 DEF WaitEvent
      <3> QED
        BY <1>0, <3>1, <3>2 DEF Guarded, queues
    <2>3. CASE event[b] \notin signaled /\ event[b][2] # s
      <3> DEFINE t == [op |-> "eventWait", arg |-> event[b], n |-> 0, counted |-> FALSE]
      <3>1. t \in Task /\ t.op = "eventWait" /\ t.arg = event[b]
        BY <2>1 DEF Task
      <3>2. Holds(t, p)
        BY <2>1, <3>1 DEF Holds
      <3>3. log' = [log EXCEPT ![s] = Append(@, t)] /\ UNCHANGED event
        BY <1>4, <2>3 DEF WaitEvent, Enqueue
      <3>4. Push(s, t)
        BY <1>0, <3>3, PushIntro
      <3> QED
        BY <3>1, <3>2, <3>3, <3>4
    <2>4. CASE event[b] \notin signaled /\ event[b][2] = s
      <3>1. UNCHANGED <<event, log>>
        BY <1>4, <2>4 DEF WaitEvent
      <3>2. PICK k \in Positions(p) : TRUE
        BY <1>2 DEF Dispatched
      <3>3. k < Len(log[s]) + 1
        BY <1>0, <2>1, <2>4, <3>2 DEF Positions, StreamTypes
      <3>4. Guarded(p, s, Len(log[s]) + 1)
        BY <2>1, <2>4, <3>2, <3>3 DEF Guarded
      <3> QED
        BY <1>0, <3>1, <3>4 DEF queues
    <2> QED
      BY <2>2, <2>3, <2>4
  <1>5. CASE b \notin NeedsFence /\ NoWait(b)
    <2>1. event[b] = None /\ UNCHANGED <<event, log>>
      BY <1>5 DEF NoWait
    <2>2. CASE Ran(p)
      BY <1>0, <2>1, <2>2 DEF Guarded, queues
    <2>3. CASE ~Ran(p)
      <3>1. p \in plan
        BY <1>1, <2>1, <2>3 DEF Rest, Events
      <3>2. cur \in plan \cup {Sync}
        BY <1>1 DEF Rest, Progress, TypeOK, ClientTypes
      <3>3. StreamOf[p] = s
        BY <1>1, <1>5, <3>1, <3>2 DEF NeedsFence
      <3>4. PICK k \in Positions(p) : TRUE
        BY <1>2 DEF Dispatched
      <3>5. k < Len(log[s]) + 1
        BY <1>0, <3>3, <3>4 DEF Positions, StreamTypes
      <3>6. Guarded(p, s, Len(log[s]) + 1)
        BY <3>3, <3>4, <3>5 DEF Guarded
      <3> QED
        BY <1>0, <2>1, <3>6 DEF queues
    <2> QED
      BY <2>2, <2>3
  <1> QED
    BY <1>3, <1>4, <1>5 DEF AwaitInput

LEMMA AwaitFacts ==
  ASSUME TypeOK, TypeOK', Queues, Rest, NEW b \in Array, AwaitInput(b)
  PROVE  LET s == NodeStream(cur)
         IN  /\ Queues' /\ Issued'
             /\ \A p \in Prim : Dispatched(p)' = Dispatched(p)
             /\ \A p \in Prim : Ran(p)' = Ran(p)
             /\ \A p \in Prim : \A e : SignalAfter(p, e) => SignalAfter(p, e)'
             /\ \A p \in Prim : \A f, n : FenceAfter(p, f, n) => FenceAfter(p, f, n)'
             /\ \A p \in Prim, x \in Stream, i, j \in Nat :
                  i <= j /\ Guarded(p, x, i) => Guarded(p, x, j)'
             /\ Len(log[s]) \in Nat /\ Len(log'[s]) \in Nat /\ Len(log[s]) <= Len(log'[s])
             /\ event' = event \/ (event' = [event EXCEPT ![b] = None] /\ Ran(Maker(b)))
             /\ Guarded(Maker(b), s, Len(log[s]) + 1)'
  <1> DEFINE s == NodeStream(cur)
  <1>0. /\ s \in Stream /\ s' = s /\ Maker(b) \in Prim /\ StreamTypes /\ StreamTypes'
        /\ UNCHANGED <<call, pc, count, value, signaled, done>>
    BY NodeTypes, MakerOf DEF TypeOK, ClientTypes, AwaitInput, args, flags, NodeStream
  <1>1. CASE \E t \in Task : /\ t.op \in {"fenceWait", "eventWait"}
                             /\ Push(s, t)
                             /\ Holds(t, Maker(b))
    <2>1. PICK t \in Task : /\ t.op \in {"fenceWait", "eventWait"}
                            /\ Push(s, t)
                            /\ Holds(t, Maker(b))
      BY <1>1
    <2>2. Queues'
      BY <1>0, <2>1, PushQueues
    <2>3. Issued'
      <3>1. \A f \in Ticket : count[f] <= count'[f] /\ count[f] \in Nat /\ count'[f] \in Nat
        BY <1>0 DEF StreamTypes
      <3>2. InNode' = InNode
        BY <1>0 DEF InNode
      <3> QED
        BY <1>0, <2>1, <3>1, <3>2, PushIssued DEF Rest
    <2>4. Guarded(Maker(b), s, Len(log[s]) + 1)'
      BY <1>0, <2>1, WaitGuards
    <2>5. UNCHANGED event \/ (event' = [event EXCEPT ![b] = None] /\ Ran(Maker(b)))
      BY AwaitTask
    <2> QED
      BY <1>0, <2>1, <2>2, <2>3, <2>4, <2>5, PushFacts
  <1>2. CASE /\ UNCHANGED queues
             /\ event' = event \/ (event' = [event EXCEPT ![b] = None] /\ Ran(Maker(b)))
             /\ Guarded(Maker(b), s, Len(log[s]) + 1)
    <2>1. Queues'
      BY <1>0, <1>2, QuietQueues
    <2>2. Issued'
      BY <1>0, <1>2 DEF Rest, Issued, queues, InNode
    <2>3. (Guarded(Maker(b), s, Len(log[s]) + 1))'
      <3>1. Len(log[s]) + 1 \in Nat /\ log' = log
        BY <1>0, <1>2 DEF StreamTypes, queues
      <3> QED
        BY <1>0, <1>2, <3>1, QuietFacts
    <2> QED
      BY <1>0, <1>2, <2>1, <2>2, <2>3, QuietFacts
  <1> QED
    BY <1>1, <1>2, AwaitTask

LEMMA AwaitRest ==
  ASSUME TypeOK, TypeOK', Queues, Rest, NEW b \in Array, AwaitInput(b)
  PROVE  Rest'
  <1> DEFINE s == NodeStream(cur)
  <1>0. /\ UNCHANGED <<status, call, pc, count, async, targets, home, plan, pending, cur>>
        /\ pc = "inputs" /\ b \in todo /\ todo' = todo \ {b}
    BY DEF AwaitInput, args, flags
  <1>1. InNode /\ InNode' /\ InCall /\ InCall'
    BY <1>0 DEF InNode, InCall
  <1>2. /\ \A x : /\ NodeIns(x)' = NodeIns(x)
                  /\ NodeStream(x)' = NodeStream(x)
        /\ \A x : Of(x)' = Of(x)
        /\ NeedsFence' = NeedsFence
    BY <1>0 DEF NodeIns, NodeStream, Of, NeedsFence
  <1>3. Called' /\ Closed' /\ Needed' /\ Progress'
    BY <1>0, <1>1, <1>2 DEF Rest, Called, Closed, Needed, Progress
  <1>4. Scheduled'
    BY <1>0, <1>1, AwaitFacts, MakerOf DEF Rest, Scheduled, TypeOK, ClientTypes
  <1>5. status[b] # "unscheduled"
    BY <1>0, <1>1 DEF Rest, Progress
  <1>6. \A a \in Array : event'[a] = event[a] \/ (a = b /\ event'[a] = None /\ Ran(Maker(b)))
    BY AwaitFacts DEF TypeOK, ClientTypes
  <1>7. Events'
    <2>1. ASSUME NEW a \in Array, event'[a] # None
          PROVE  /\ event'[a] \in Ticket
                 /\ event'[a][2] = StreamOf[Maker(a)]
                 /\ (Dispatched(Maker(a)) => SignalAfter(Maker(a), event[a]))'
      <3>1. event'[a] = event[a] /\ event[a] # None
        BY <1>6, <2>1
      <3>2. Maker(a) \in Prim
        BY MakerOf
      <3>3. Dispatched(Maker(a)) => SignalAfter(Maker(a), event[a])
        BY <3>1 DEF Rest, Events
      <3>4. \A e : SignalAfter(Maker(a), e) => SignalAfter(Maker(a), e)'
        BY <3>2, AwaitFacts
      <3>5. (Dispatched(Maker(a)) => SignalAfter(Maker(a), event[a]))'
        BY <3>1, <3>2, <3>3, <3>4, AwaitFacts
      <3> QED
        BY <3>1, <3>5 DEF Rest, Events
    <2>2. \A a \in Array : Ran(Maker(a))' = Ran(Maker(a))
      BY AwaitFacts, MakerOf
    <2>3. \A a \in Array : status[a] = "unscheduled" =>
            event'[a] = IF async /\ cur = Maker(a) THEN Of(StreamOf[Maker(a)]) ELSE None
      BY <1>1, <1>5, <1>6 DEF Rest, Events
    <2>4. \A a \in Array : status[a] # "unscheduled" /\ event'[a] = None =>
            Ran(Maker(a)) \/ (~async /\ Maker(a) \in plan \ pending)
      BY <1>1, <1>6 DEF Rest, Events
    <2>5. \A a \in Array : status[a] = "available" => Ran(Maker(a))
      BY DEF Rest, Events
    <2> QED
      BY <1>0, <1>1, <1>2, <2>1, <2>2, <2>3, <2>4, <2>5 DEF Events
  <1>8. Fences'
    <2>1. \A a \in NeedsFence : Maker(a) \in Prim
      BY MakerOf DEF NeedsFence
    <2> QED
      BY <1>0, <1>1, <1>2, <2>1, AwaitFacts DEF Rest, Fences
  <1>9. Waited'
    <2> SUFFICES ASSUME NEW a \in NodeIns(cur) \ todo'
                 PROVE  (Guarded(Maker(a), s, Len(log[s]) + 1))'
      BY <1>0, <1>2 DEF Waited, Visited
    <2>1. CASE a = b
      BY <2>1, <1>0, <1>2, AwaitFacts
    <2>2. CASE a # b
      <3>1. a \in NodeIns(cur) \ todo /\ Maker(a) \in Prim /\ s \in Stream /\ s' = s
        BY <1>0, <1>2, <2>2, VisitedTypes, NodeTypes, MakerOf DEF TypeOK, ClientTypes
      <3>2. Guarded(Maker(a), s, Len(log[s]) + 1)
        BY <1>0, <1>1, <3>1 DEF Rest, Waited, Visited
      <3>3. /\ Len(log[s]) + 1 \in Nat /\ Len(log'[s]) + 1 \in Nat
            /\ Len(log[s]) + 1 <= Len(log'[s]) + 1
        BY AwaitFacts
      <3> QED
        BY <3>1, <3>2, <3>3, AwaitFacts
    <2> QED
      BY <2>1, <2>2
  <1> QED
    BY <1>3, <1>4, <1>7, <1>8, <1>9, AwaitFacts DEF Rest

-----------------------------------------------------------------------------
(* A node is dispatched.                                                     *)
LEMMA DispatchPush ==
  ASSUME TypeOK, NEW s \in Stream, NEW op \in {"compute", "release"},
         NEW p \in Prim \cup {Sync}, Dispatch(s, op, p), UNCHANGED done
  PROVE  \E t \in Task : t.op = op /\ t.arg = p /\ Push(s, t)
  <1> DEFINE t == [op |-> op, arg |-> p, n |-> 0, counted |-> Counts(s)]
  <1>1. Counts(s) \in BOOLEAN
    BY DEF Counts
  <1>2. t \in Task /\ t.op = op /\ t.arg = p
    BY <1>1 DEF Task
  <1>3. Push(s, t)
    BY PushIntro DEF Dispatch, TypeOK
  <1> QED
    BY <1>2, <1>3

LEMMA ReleaseKeeps ==
  ASSUME TypeOK, TypeOK', Queues, Rest, DispatchRelease
  PROVE  Queues' /\ Rest'
  <1> DEFINE s == NodeStream(cur)
  <1>0. /\ UNCHANGED <<status, event, done, count, value, signaled, call, async, targets,
                       home, plan, pending, cur, todo>>
        /\ pc = "release" /\ pc' = "throttle" /\ Dispatch(s, "release", cur)
    BY DEF DispatchRelease, arrays, flags, args, walk
  <1>1. InNode /\ InNode' /\ InCall /\ InCall'
    BY <1>0 DEF InNode, InCall
  <1>2. /\ \A x : /\ NodeIns(x)' = NodeIns(x)
                  /\ NodeOuts(x)' = NodeOuts(x)
                  /\ NodeStream(x)' = NodeStream(x)
        /\ \A x : Of(x)' = Of(x)
        /\ NeedsFence' = NeedsFence
    BY <1>0 DEF NodeIns, NodeOuts, NodeStream, Of, NeedsFence
  <1>3. /\ s \in Stream /\ s' = s /\ cur \in Prim \cup {Sync}
        /\ StreamTypes /\ StreamTypes' /\ ClientTypes
    BY <1>0, NodeTypes DEF TypeOK, ClientTypes, NodeStream
  <1>4. PICK t \in Task : t.op = "release" /\ Push(s, t)
    BY <1>0, <1>3, DispatchPush
  <1>5. Queues'
    BY <1>0, <1>3, <1>4, PushQueues
  <1>6. Issued'
    <2>1. \A f \in Ticket : count[f] <= count'[f] /\ count[f] \in Nat /\ count'[f] \in Nat
      BY <1>0, <1>3 DEF StreamTypes
    <2> QED
      BY <1>0, <1>1, <1>3, <1>4, <2>1, PushIssued DEF Rest
  <1>7. Called' /\ Closed' /\ Needed' /\ Progress'
    BY <1>0, <1>1, <1>2 DEF Rest, Called, Closed, Needed, Progress
  <1>8. /\ \A b \in Array : Dispatched(Maker(b))' = Dispatched(Maker(b))
        /\ \A b \in Array : Ran(Maker(b))' = Ran(Maker(b))
        /\ \A b \in Array : \A e : SignalAfter(Maker(b), e) => SignalAfter(Maker(b), e)'
        /\ \A b \in Array : \A f, n : FenceAfter(Maker(b), f, n) => FenceAfter(Maker(b), f, n)'
    BY <1>3, <1>4, PushFacts, MakerOf
  <1>9. Scheduled'
    <2>1. \A p \in Prim : Dispatched(p)' = Dispatched(p)
      BY <1>3, <1>4, PushFacts
    <2> QED
      BY <1>0, <1>1, <1>3, <1>8, <2>1 DEF Rest, Scheduled, ClientTypes
  <1>10. Events'
    BY <1>0, <1>1, <1>2, <1>8 DEF Rest, Events
  <1>11. Fences'
    <2>1. NeedsFence \subseteq Array
      BY DEF NeedsFence
    <2> QED
      BY <1>0, <1>1, <1>2, <1>8, <2>1 DEF Rest, Fences
  <1>12. Waited'
    <2> SUFFICES ASSUME NEW a \in NodeIns(cur)
                 PROVE  (Guarded(Maker(a), s, Len(log[s]) + 1))'
      BY <1>0, <1>2 DEF Waited, Visited
    <2>1. Guarded(Maker(a), s, Len(log[s]) + 1) /\ Maker(a) \in Prim
      BY <1>0, <1>1, <1>3, NodeTypes, MakerOf DEF Rest, Waited, Visited
    <2>2. /\ Len(log[s]) + 1 \in Nat /\ Len(log'[s]) + 1 \in Nat
          /\ Len(log[s]) + 1 <= Len(log'[s]) + 1
      BY <1>3, <1>4, PushFacts
    <2> QED
      BY <1>3, <1>4, <2>1, <2>2, PushFacts
  <1> QED
    BY <1>5, <1>6, <1>7, <1>9, <1>10, <1>11, <1>12 DEF Rest

LEMMA ComputeKeeps ==
  ASSUME TypeOK, TypeOK', Queues, Rest, DispatchCompute,
         NEW q \in Prim, cur = q, NEW s \in Stream, s = StreamOf[q]
  PROVE  Queues' /\ Rest'
  <1>0. /\ UNCHANGED <<status, event, done, count, value, signaled, call, async, targets,
                       home, plan, pending, cur, todo>>
        /\ pc = "dispatch" /\ pc' = "release" /\ Dispatch(s, "compute", q)
        /\ cur # Sync /\ cur' = q
    BY EvalAssumption DEF DispatchCompute, arrays, flags, args, walk
  <1>1. InNode /\ InNode' /\ InCall /\ InCall'
    BY <1>0 DEF InNode, InCall
  <1>2. /\ \A x : /\ NodeIns(x)' = NodeIns(x)
                  /\ NodeOuts(x)' = NodeOuts(x)
                  /\ NodeStream(x)' = NodeStream(x)
        /\ \A x : Of(x)' = Of(x)
        /\ NeedsFence' = NeedsFence
    BY <1>0 DEF NodeIns, NodeOuts, NodeStream, Of, NeedsFence
  <1>3. /\ s \in Stream /\ NodeStream(cur) = s /\ NodeIns(cur) = Ins[q]
        /\ StreamTypes /\ StreamTypes' /\ ClientTypes /\ pending \subseteq Prim
    BY <1>0 DEF TypeOK, ClientTypes, NodeStream, NodeIns
  <1>4. PICK t \in Task : t.op = "compute" /\ t.arg = q /\ Push(s, t)
    BY <1>0, <1>3, DispatchPush
  <1>5. ~Dispatched(q) /\ q \notin pending
    BY <1>0, <1>1 DEF Rest, Scheduled, Progress
  <1>6. \A b \in Ins[q] : Guarded(Maker(b), s, Len(log[s]) + 1)
    BY <1>0, <1>1, <1>3 DEF Rest, Waited, Visited
  <1>7. Queues'
    BY <1>0, <1>3, <1>4, <1>5, <1>6, PushQueues
  <1>8. Issued'
    <2>1. \A f \in Ticket : count[f] <= count'[f] /\ count[f] \in Nat /\ count'[f] \in Nat
      BY <1>0, <1>3 DEF StreamTypes
    <2> QED
      BY <1>0, <1>1, <1>3, <1>4, <2>1, PushIssued DEF Rest
  <1>9. Called' /\ Closed' /\ Needed' /\ Progress'
    BY <1>0, <1>1, <1>2 DEF Rest, Called, Closed, Needed, Progress
  <1>10. Grow
    BY <1>3, <1>4, PushGrows
  <1>11. Positions(q)' = {Len(log[s]) + 1}
    <2>1. Positions(q) = {}
      BY <1>5 DEF Dispatched
    <2> QED
      BY <1>3, <1>4, <2>1, PushPositions
  <1>12. \A p \in Prim : p # q => Dispatched(p)' = Dispatched(p)
    BY <1>3, <1>4, PushPositions DEF Dispatched
  <1>13. Dispatched(q)'
    BY <1>11 DEF Dispatched
  <1>14. Scheduled'
    <2>1. \A b \in Array : status[b] # "unscheduled" => Dispatched(Maker(b))'
      BY <1>12, <1>13, MakerOf DEF Rest, Scheduled
    <2>2. \A b \in Array : status[b] = "unscheduled" /\ Dispatched(Maker(b))' => Maker(b) = q
      BY <1>0, <1>12, MakerOf DEF Rest, Scheduled
    <2>3. \A p \in pending : ~Dispatched(p)'
      BY <1>1, <1>3, <1>5, <1>12 DEF Rest, Scheduled
    <2> QED
      BY <1>0, <1>1, <1>13, <2>1, <2>2, <2>3 DEF Scheduled
  <1>15. SignalAfter(q, Of(s))'
    <2>1. /\ Len(log[s]) \in Nat /\ log'[s][Len(log[s]) + 1] = t
          /\ \A i \in 1..Len(log[s]) : log'[s][i] = log[s][i]
      BY <1>3, <1>4 DEF Push, StreamTypes
    <2>2. call \in Nat /\ Of(s) = <<call, s>> /\ Of(s)[1] = call
      BY <1>3 DEF ClientTypes, Of
    <2>3. ASSUME NEW l \in 1..Len(log[s]) + 1
          PROVE  ~(log'[s][l].op = "signal" /\ log'[s][l].arg = Of(s))
      <3>1. CASE l = Len(log[s]) + 1
        BY <1>4, <2>1, <3>1
      <3>2. CASE l # Len(log[s]) + 1
        <4>1. l \in 1..Len(log[s]) /\ log'[s][l] = log[s][l]
          BY <2>1, <2>3, <3>2
        <4>2. log[s][l].op = "signal" => log[s][l].arg[1] < call
          BY <1>1, <1>3, <4>1 DEF Rest, Issued
        <4> QED
          BY <2>2, <4>1, <4>2
      <3> QED
        BY <3>1, <3>2
    <2>4. Of(s)' = Of(s)
      BY <1>2
    <2> QED
      BY <1>11, <2>3, <2>4 DEF SignalAfter
  <1>16. \A b \in Array : Ran(Maker(b)) => Ran(Maker(b))'
    BY <1>3, <1>10, GrowRan, MakerOf
  <1>17. Events'
    <2>1. ASSUME NEW b \in Array, event[b] # None
          PROVE  (Dispatched(Maker(b)) => SignalAfter(Maker(b), event[b]))'
      <3>1. CASE Maker(b) = q
        <4>1. status[b] = "unscheduled"
          BY <1>5, <3>1 DEF Rest, Scheduled
        <4>2. event[b] = Of(s)
          BY <2>1, <3>1, <4>1 DEF Rest, Events
        <4> QED
          BY <1>0, <1>2, <1>15, <3>1, <4>2
      <3>2. CASE Maker(b) # q
        <4>1. Dispatched(Maker(b)) => SignalAfter(Maker(b), event[b])
          BY <2>1 DEF Rest, Events
        <4>2. \A e : SignalAfter(Maker(b), e) => SignalAfter(Maker(b), e)'
          BY <1>3, <1>10, GrowSignalAfter, MakerOf
        <4> QED
          BY <1>0, <1>12, <3>2, <4>1, <4>2, MakerOf
      <3> QED
        BY <3>1, <3>2
    <2> QED
      BY <1>0, <1>1, <1>2, <1>16, <2>1 DEF Rest, Events
  <1>18. Fences'
    <2>1. \A b \in NeedsFence : b \in Array /\ Maker(b) \in Prim
      BY MakerOf DEF NeedsFence
    <2>2. \A p \in Prim : \A f, n : FenceAfter(p, f, n) => FenceAfter(p, f, n)'
      BY <1>3, <1>10, GrowFenceAfter
    <2> QED
      BY <1>0, <1>1, <1>2, <2>1, <2>2 DEF Rest, Fences
  <1>19. Waited'
    <2> SUFFICES ASSUME NEW a \in Ins[q]
                 PROVE  (Guarded(Maker(a), s, Len(log[s]) + 1))'
      BY <1>0, <1>2, <1>3 DEF Waited, Visited
    <2>1. Maker(a) \in Prim
      BY <1>3, MakerOf, EvalAssumption
    <2>2. /\ Len(log[s]) + 1 \in Nat /\ Len(log'[s]) + 1 \in Nat
          /\ Len(log[s]) + 1 <= Len(log'[s]) + 1
      BY <1>0, <1>3, <1>10 DEF Grow, StreamTypes
    <2> QED
      BY <1>3, <1>6, <1>10, <2>1, <2>2, GrowGuarded
  <1> QED
    BY <1>7, <1>8, <1>9, <1>14, <1>17, <1>18, <1>19 DEF Rest

(* The computation of the synchronizer is empty.                             *)
LEMMA SynchronizerKeeps ==
  ASSUME TypeOK, Queues, Rest, DispatchCompute, cur = Sync
  PROVE  Queues' /\ Rest'
  <1>0. Still /\ UNCHANGED todo /\ pc = "dispatch" /\ pc' = "release"
    BY DEF DispatchCompute, Still, walk, queues
  <1>1. InNode /\ InNode' /\ InCall /\ InCall'
    BY <1>0 DEF InNode, InCall
  <1>2. Queues'
    BY <1>0, QuietQueues DEF Still, flags
  <1>3. Called' /\ Issued' /\ Closed' /\ Needed' /\ Fences'
    BY <1>0, <1>1, StillFacts DEF Rest, Called, Issued, Closed, Needed, Fences
  <1>4. Progress' /\ Scheduled' /\ Events'
    BY <1>0, <1>1, StillFacts DEF Rest, Progress, Scheduled, Events
  <1>5. Waited'
    BY <1>0, <1>1, StillFacts DEF Rest, Waited, Visited
  <1> QED
    BY <1>2, <1>3, <1>4, <1>5 DEF Rest

-----------------------------------------------------------------------------
(* The outputs of a node are published.                                      *)
LEMMA FenceAfterMore ==
  ASSUME StreamTypes, NEW p \in Prim, NEW f \in Ticket, NEW n \in Nat,
         FenceAfter(p, f, n)
  PROVE  FenceAfter(p, f, n + 1)
  <1> DEFINE q == log[StreamOf[p]]
  <1>1. PICK k \in Positions(p) :
          \A l \in 1..k : q[l].op = "fenceUpdate" /\ q[l].arg = f => q[l].n < n
    BY DEF FenceAfter
  <1>2. ASSUME NEW l \in 1..k, q[l].op = "fenceUpdate", q[l].arg = f
        PROVE  q[l].n < n + 1
    <2>1. q[l] \in Task
      BY <1>1, StreamOfType DEF Positions, StreamTypes
    <2>2. q[l].n \in Nat
      BY <2>1, TaskNumber
    <2> QED
      BY <1>1, <1>2, <2>2
  <1> QED
    BY <1>1, <1>2 DEF FenceAfter

LEMMA UpdateAfter ==
  ASSUME StreamTypes, Issued, NEW p \in Prim, Dispatched(p), NEW f \in Ticket
  PROVE  FenceAfter(p, f, count[f] + 1)
  <1> DEFINE q == log[StreamOf[p]]
  <1>1. PICK k \in Positions(p) : TRUE
    BY DEF Dispatched
  <1>2. ASSUME NEW l \in 1..k, q[l].op = "fenceUpdate", q[l].arg = f
        PROVE  q[l].n < count[f] + 1
    <2>1. l \in 1..Len(q) /\ q[l] \in Task /\ StreamOf[p] \in Stream
      BY <1>1, StreamOfType DEF Positions, StreamTypes
    <2>2. q[l].n \in Nat
      BY <2>1, TaskNumber
    <2>3. q[l].n <= count[f] /\ count[f] \in Nat
      BY <1>2, <2>1 DEF Issued, StreamTypes
    <2> QED
      BY <2>2, <2>3
  <1> QED
    BY <1>1, <1>2 DEF FenceAfter

LEMMA PublishNode ==
  ASSUME TypeOK, Rest, NEW b \in Array, Publish(b)
  PROVE  /\ InNode /\ InCall /\ call > 0
         /\ cur \in Prim /\ cur # Sync /\ cur \in plan \ pending
         /\ b \in Outs[cur] /\ Maker(b) = cur /\ Dispatched(cur)
  <1>1. InNode /\ InCall /\ pc = "publish" /\ b \in todo
    BY DEF Publish, InNode, InCall
  <1>2. b \in NodeOuts(cur) /\ call > 0 /\ cur \in (plan \ pending) \cup {Sync}
    BY <1>1 DEF Rest, Progress, Called
  <1>3. cur # Sync /\ cur \in plan \ pending /\ b \in Outs[cur] /\ cur \in Prim
    BY <1>2 DEF NodeOuts, TypeOK, ClientTypes
  <1> QED
    BY <1>1, <1>2, <1>3, MakerUnique DEF Rest, Scheduled

(* What publishing changes in the queues: nothing, or one update more.       *)
LEMMA PublishFacts ==
  ASSUME TypeOK, TypeOK', Queues, Rest, NEW b \in Array, Publish(b)
  PROVE  /\ Queues' /\ Issued' /\ Grow
         /\ \A p \in Prim : Dispatched(p)' = Dispatched(p)
         /\ \A p \in Prim : Ran(p)' = Ran(p)
  <1> DEFINE s == StreamOf[cur]
             f == Of(StreamOf[cur])
             t == [op |-> "fenceUpdate", arg |-> f, n |-> count[f] + 1, counted |-> FALSE]
  <1>0. /\ StreamTypes /\ StreamTypes' /\ UNCHANGED <<done, value, signaled, pc, call>>
        /\ InNode' = InNode
    BY DEF Publish, TypeOK, args, InNode
  <1>1. CASE UNCHANGED <<count, log>>
    <2>1. UNCHANGED queues
      BY <1>0, <1>1 DEF queues
    <2>2. Queues' /\ Grow
      BY <1>0, <2>1, QuietQueues, QuietGrows
    <2>3. Issued'
      BY <1>0, <1>1 DEF Rest, Issued
    <2> QED
      BY <1>0, <2>1, <2>2, <2>3, QuietFacts
  <1>2. CASE UpdateFence(f, s)
    <2>1. s \in Stream /\ f \in Ticket /\ f[2] = s /\ count[f] \in Nat
      BY PublishNode, OfTicket, StreamOfType DEF TypeOK, StreamTypes, Of
    <2>2. /\ t \in Task /\ t.op = "fenceUpdate" /\ t.arg = f /\ t.n = count[f] + 1
      BY <2>1 DEF Task
    <2>3. Push(s, t)
      BY <1>0, <1>2, <2>1, PushIntro DEF UpdateFence, Enqueue
    <2>4. Queues'
      BY <1>0, <2>1, <2>2, <2>3, PushQueues
    <2>5. /\ \A g \in Ticket : count[g] <= count'[g] /\ count[g] \in Nat /\ count'[g] \in Nat
          /\ count'[f] = count[f] + 1
      BY <1>0, <1>2, <2>1 DEF UpdateFence, StreamTypes
    <2>6. Issued'
      BY <1>0, <2>1, <2>2, <2>3, <2>5, PushIssued DEF Rest
    <2>7. Grow
      BY <1>0, <2>1, <2>3, PushGrows
    <2> QED
      BY <1>0, <2>1, <2>2, <2>3, <2>4, <2>6, <2>7, PushFacts
  <1> QED
    BY <1>1, <1>2 DEF Publish

LEMMA PublishRest ==
  ASSUME TypeOK, TypeOK', Queues, Rest, NEW b \in Array, Publish(b)
  PROVE  Rest'
  <1>0. /\ UNCHANGED <<event, call, async, targets, home, plan, pending, cur>>
        /\ pc = "publish" /\ pc' = pc /\ b \in todo /\ todo' = todo \ {b}
        /\ status' = [status EXCEPT ![b] = "evaluated"]
    BY DEF Publish, args
  <1>1. InNode /\ InNode' /\ InCall /\ InCall'
    BY <1>0 DEF InNode, InCall
  <1>2. /\ \A x : /\ NodeIns(x)' = NodeIns(x)
                  /\ NodeOuts(x)' = NodeOuts(x)
                  /\ NodeStream(x)' = NodeStream(x)
        /\ \A x : Of(x)' = Of(x)
        /\ NeedsFence' = NeedsFence
    BY <1>0 DEF NodeIns, NodeOuts, NodeStream, Of, NeedsFence
  <1>3. StreamTypes /\ StreamTypes' /\ ClientTypes
    BY DEF TypeOK
  <1>4. /\ \A a \in Array : a # b => status'[a] = status[a]
        /\ status'[b] = "evaluated"
    BY <1>0, <1>3 DEF ClientTypes
  <1>5. /\ cur \in Prim /\ cur # Sync /\ cur \in plan \ pending
        /\ b \in Outs[cur] /\ Maker(b) = cur /\ Dispatched(cur)
    BY PublishNode
  <1>6. /\ \A a \in Array : Dispatched(Maker(a))' = Dispatched(Maker(a))
        /\ \A a \in Array : Ran(Maker(a))' = Ran(Maker(a))
    BY PublishFacts, MakerOf
  <1>7. Called'
    BY <1>0, <1>1 DEF Rest, Called
  <1>8. Closed' /\ Needed'
    <2>1. \A n \in plan \cup {Sync} : NodeIns(n) \subseteq Array
      BY <1>3, NodeTypes DEF ClientTypes
    <2> QED
      BY <1>0, <1>1, <1>2, <1>4, <2>1 DEF Rest, Closed, Needed
  <1>9. Progress'
    <2>1. \A p \in plan : \A a \in Outs[p] : a \in Array
      BY <1>3, EvalAssumption DEF ClientTypes
    <2>2. \A a \in NodeIns(cur) : a \in Array
      BY <1>3, <1>5, NodeTypes
    <2> QED
      BY <1>0, <1>1, <1>2, <1>4, <1>5, <2>1, <2>2 DEF Rest, Progress
  <1>10. Scheduled'
    <2>1. \A a \in Array : status'[a] # "unscheduled" => Dispatched(Maker(a))
      BY <1>4, <1>5 DEF Rest, Scheduled
    <2>2. \A a \in Array : status'[a] = "unscheduled" /\ Dispatched(Maker(a)) => Maker(a) = cur
      BY <1>4 DEF Rest, Scheduled
    <2>3. \A p \in pending : p \in Prim /\ ~Dispatched(p)
      BY <1>1, <1>3 DEF Rest, Scheduled, ClientTypes
    <2>4. \A p \in pending : ~Dispatched(p)'
      BY <2>3, PublishFacts
    <2>5. Dispatched(cur)'
      <3>1. Dispatched(Maker(b))'
        BY <1>5, <1>6
      <3> QED
        BY <1>0, <1>5, <3>1
    <2> QED
      BY <1>0, <1>1, <1>6, <2>1, <2>2, <2>4, <2>5 DEF Scheduled
  <1>11. Events'
    <2>1. ASSUME NEW a \in Array, event[a] # None
          PROVE  (Dispatched(Maker(a)) => SignalAfter(Maker(a), event[a]))'
      <3>1. Dispatched(Maker(a)) => SignalAfter(Maker(a), event[a])
        BY <2>1 DEF Rest, Events
      <3>2. \A e : SignalAfter(Maker(a), e) => SignalAfter(Maker(a), e)'
        BY <1>3, PublishFacts, GrowSignalAfter, MakerOf
      <3> QED
        BY <1>0, <1>6, <3>1, <3>2
    <2>2. ASSUME NEW a \in Array, status'[a] # "unscheduled", event[a] = None
          PROVE  Ran(Maker(a)) \/ (~async /\ Maker(a) \in plan \ pending)
      <3>1. CASE status[a] # "unscheduled"
        BY <2>2, <3>1 DEF Rest, Events
      <3>2. CASE status[a] = "unscheduled"
        <4>1. a = b
          BY <1>4, <2>2, <3>2
        <4>2. async => event[a] = Of(StreamOf[Maker(a)])
          BY <1>1, <1>5, <3>2, <4>1 DEF Rest, Events
        <4>3. Of(StreamOf[Maker(a)]) # None
          BY DEF Of, None
        <4> QED
          BY <1>5, <2>2, <4>1, <4>2, <4>3
      <3> QED
        BY <3>1, <3>2
    <2>3. \A a \in Array : status'[a] = "unscheduled" => status[a] = "unscheduled"
      BY <1>4
    <2>4. \A a \in Array : status'[a] = "available" => status[a] = "available"
      BY <1>4
    <2> QED
      BY <1>0, <1>1, <1>2, <1>6, <2>1, <2>2, <2>3, <2>4 DEF Rest, Events
  <1>12. Fences'
    <2> SUFFICES ASSUME NEW a \in NeedsFence, status'[a] # "unscheduled"
                 PROVE  LET f == Of(StreamOf[Maker(a)])
                        IN  count'[f] > 0 /\ (FenceAfter(Maker(a), f, count[f]))'
      BY <1>0, <1>2 DEF Fences
    <2> DEFINE f == Of(StreamOf[Maker(a)])
    <2>1. a \in Array /\ Maker(a) \in Prim /\ f \in Ticket /\ count[f] \in Nat
      BY <1>3, PublishNode, MakerOf, OfTicket, StreamOfType DEF NeedsFence, StreamTypes
    <2>2. \A g, n : FenceAfter(Maker(a), g, n) => FenceAfter(Maker(a), g, n)'
      BY <1>3, <2>1, PublishFacts, GrowFenceAfter
    <2>3. f' = f
      BY <1>2
    <2>4. count'[f] = count[f] \/ (count'[f] = count[f] + 1)
      BY <1>3, <2>1 DEF Publish, UpdateFence, StreamTypes
    <2>5. CASE a # b
      <3>1. count[f] > 0 /\ FenceAfter(Maker(a), f, count[f])
        BY <1>1, <1>4, <2>1, <2>5 DEF Rest, Fences
      <3>2. FenceAfter(Maker(a), f, count'[f]) /\ count'[f] > 0
        BY <1>3, <2>1, <2>4, <3>1, FenceAfterMore
      <3> QED
        BY <2>2, <2>3, <3>2
    <2>6. CASE a = b
      <3>1. count'[f] = count[f] + 1
        BY <1>3, <1>5, <2>1, <2>6 DEF Publish, UpdateFence, StreamTypes
      <3>2. FenceAfter(Maker(a), f, count'[f]) /\ count'[f] > 0
        BY <1>3, <1>5, <2>1, <2>6, <3>1, UpdateAfter DEF Rest
      <3> QED
        BY <2>2, <2>3, <3>2
    <2> QED
      BY <2>5, <2>6
  <1>13. Waited'
    <2> DEFINE s == NodeStream(cur)
    <2> SUFFICES ASSUME NEW a \in NodeIns(cur)
                 PROVE  (Guarded(Maker(a), s, Len(log[s]) + 1))'
      BY <1>0, <1>2 DEF Waited, Visited
    <2>1. Maker(a) \in Prim /\ s \in Stream
      BY <1>3, <1>5, NodeTypes, MakerOf
    <2>2. Guarded(Maker(a), s, Len(log[s]) + 1)
      BY <1>0, <1>1 DEF Rest, Waited, Visited
    <2>3. s' = s
      BY <1>0 DEF NodeStream
    <2>4. /\ Len(log[s]) + 1 \in Nat /\ Len(log'[s]) + 1 \in Nat
          /\ Len(log[s]) + 1 <= Len(log'[s]) + 1
      BY <1>3, <2>1, PublishFacts DEF Grow, StreamTypes
    <2> QED
      BY <1>3, <2>1, <2>2, <2>3, <2>4, PublishFacts, GrowGuarded
  <1> QED
    BY <1>7, <1>8, <1>9, <1>10, <1>11, <1>12, <1>13, PublishFacts DEF Rest

-----------------------------------------------------------------------------
(* The events of the call's streams are signaled.                            *)
LEMMA SignalKeeps ==
  ASSUME TypeOK, TypeOK', Queues, Rest, NEW s \in Stream, SignalStream(s)
  PROVE  Queues' /\ Rest'
  <1> DEFINE t == [op |-> "signal", arg |-> Of(s), n |-> 0, counted |-> FALSE]
  <1>0. /\ UNCHANGED <<status, event, done, count, value, signaled, call, async, targets,
                       home, plan, pending, cur, todo>>
        /\ pc = "signal" /\ pc' = "signal"
    BY DEF SignalStream, arrays, flags, args
  <1>1. ~InNode /\ ~InNode' /\ InCall /\ InCall'
    BY <1>0 DEF InNode, InCall
  <1>2. /\ \A x : /\ NodeIns(x)' = NodeIns(x)
                  /\ NodeStream(x)' = NodeStream(x)
        /\ \A x : Of(x)' = Of(x)
        /\ NeedsFence' = NeedsFence
    BY <1>0 DEF NodeIns, NodeStream, Of, NeedsFence
  <1>3. /\ StreamTypes /\ StreamTypes' /\ ClientTypes /\ home \in Stream
        /\ targets \subseteq Array
    BY DEF TypeOK, ClientTypes
  <1>4. cur = Sync /\ Visited = targets /\ Visited' = targets /\ NodeStream(cur) = home
    BY <1>0, <1>1 DEF Rest, Progress, Visited, NodeIns, NodeStream
  <1>5. \A b \in targets : Guarded(Maker(b), home, Len(log[home]) + 1)
    BY <1>0, <1>4 DEF Rest, Waited
  <1>6. Of(s) \in Ticket /\ Of(s)[1] = call /\ Of(s)[2] = s
    BY <1>1, <1>3, OfTicket DEF Rest, Called, Of
  <1>7. t \in Task /\ t.op = "signal" /\ t.arg = Of(s)
    BY <1>6 DEF Task
  <1>8. Push(s, t) \/ UNCHANGED queues
    BY <1>0, <1>3, PushIntro DEF SignalStream, Enqueue, queues
  <1>9. /\ Queues' /\ Issued' /\ Grow
        /\ \A p \in Prim : Dispatched(p)' = Dispatched(p)
        /\ \A p \in Prim : Ran(p)' = Ran(p)
    <2>1. CASE Push(s, t)
      <3>1. \A f \in Ticket : count[f] <= count'[f] /\ count[f] \in Nat /\ count'[f] \in Nat
        BY <1>0, <1>3 DEF StreamTypes
      <3>2. Issued'
        BY <1>0, <1>1, <1>3, <1>6, <1>7, <2>1, <3>1, PushIssued DEF Rest
      <3>3. Queues'
        BY <1>0, <1>3, <1>6, <1>7, <2>1, PushQueues
      <3> QED
        BY <1>3, <1>7, <2>1, <3>2, <3>3, PushFacts, PushGrows
    <2>2. CASE UNCHANGED queues
      <3>1. Issued'
        BY <1>0, <1>1, <2>2 DEF Rest, Issued, queues
      <3>2. Queues'
        BY <1>0, <2>2, QuietQueues
      <3> QED
        BY <1>3, <2>2, <3>1, <3>2, QuietFacts, QuietGrows
    <2> QED
      BY <1>8, <2>1, <2>2
  <1>10. Called' /\ Closed' /\ Needed' /\ Progress'
    BY <1>0, <1>1, <1>2 DEF Rest, Called, Closed, Needed, Progress
  <1>11. /\ \A a \in Array : Dispatched(Maker(a))' = Dispatched(Maker(a))
         /\ \A a \in Array : Ran(Maker(a))' = Ran(Maker(a))
    BY <1>9, MakerOf
  <1>12. Scheduled'
    BY <1>0, <1>1, <1>3, <1>9, <1>11 DEF Rest, Scheduled, ClientTypes
  <1>13. Events'
    <2>1. ASSUME NEW a \in Array, event[a] # None
          PROVE  (Dispatched(Maker(a)) => SignalAfter(Maker(a), event[a]))'
      <3>1. Dispatched(Maker(a)) => SignalAfter(Maker(a), event[a])
        BY <2>1 DEF Rest, Events
      <3>2. \A e : SignalAfter(Maker(a), e) => SignalAfter(Maker(a), e)'
        BY <1>3, <1>9, GrowSignalAfter, MakerOf
      <3> QED
        BY <1>0, <1>11, <3>1, <3>2
    <2> QED
      BY <1>0, <1>1, <1>2, <1>11, <2>1 DEF Rest, Events
  <1>14. Fences'
    <2>1. \A b \in NeedsFence : b \in Array /\ Maker(b) \in Prim
      BY MakerOf DEF NeedsFence
    <2>2. \A p \in Prim : \A f, n : FenceAfter(p, f, n) => FenceAfter(p, f, n)'
      BY <1>3, <1>9, GrowFenceAfter
    <2> QED
      BY <1>0, <1>1, <1>2, <2>1, <2>2 DEF Rest, Fences
  <1>15. \A b \in targets, i, j \in Nat :
           i <= j /\ Guarded(Maker(b), home, i) => Guarded(Maker(b), home, j)'
    <2> SUFFICES ASSUME NEW b \in targets, NEW i \in Nat, NEW j \in Nat, i <= j
                 PROVE  Guarded(Maker(b), home, i) => (Guarded(Maker(b), home, j))'
      BY <1>0
    <2>1. Maker(b) \in Prim
      BY <1>3, MakerOf
    <2>2. \A x \in Stream : Guarded(Maker(b), x, i) => Guarded(Maker(b), x, j)'
      BY <1>3, <1>9, <2>1, GrowGuarded
    <2> QED
      BY <1>0, <1>3, <2>2
  <1>16. Len(log[home]) \in Nat /\ Len(log'[home]) \in Nat /\ Len(log[home]) <= Len(log'[home])
    BY <1>3, <1>9 DEF Grow, StreamTypes
  <1>17. \A b \in targets : (Guarded(Maker(b), home, Len(log[home]) + 1))'
    <2>1. /\ Len(log[home]) + 1 \in Nat /\ Len(log'[home]) + 1 \in Nat
          /\ Len(log[home]) + 1 <= Len(log'[home]) + 1
      BY <1>16
    <2> QED
      BY <1>0, <1>5, <1>15, <2>1
  <1>18. ASSUME NEW i \in 1..Len(log'[home]),
                log'[home][i].op = "signal", log'[home][i].arg = Of(home),
                NEW b \in targets
         PROVE  Guarded(Maker(b), home, i)'
    <2>1. CASE i \in 1..Len(log[home])
      <3>1. log'[home][i] = log[home][i]
        BY <1>3, <1>9, <2>1 DEF Grow
      <3>2. Guarded(Maker(b), home, i)
        BY <1>0, <1>18, <2>1, <3>1 DEF Rest, Waited
      <3> QED
        BY <1>15, <3>2
    <2>2. CASE ~(i \in 1..Len(log[home]))
      <3>1. i >= Len(log[home]) + 1 /\ i \in Nat
        BY <1>16, <2>2
      <3> QED
        BY <1>5, <1>15, <1>16, <3>1
    <2> QED
      BY <2>1, <2>2
  <1>19. Waited'
    <2>1. NodeStream(cur)' = home /\ home' = home /\ targets' = targets /\ Of(home)' = Of(home)
      BY <1>0, <1>4 DEF NodeStream, Of
    <2> QED
      BY <1>4, <1>17, <1>18, <2>1 DEF Waited
  <1> QED
    BY <1>9, <1>10, <1>12, <1>13, <1>14, <1>19 DEF Rest

-----------------------------------------------------------------------------
(* The invariant holds initially and every step keeps it.                    *)
Core == TypeOK /\ Queues /\ Rest

LEMMA Parts == Core <=> TypeOK /\ Queues /\ Rest
  BY DEF Core

LEMMA NextParts == (Core <=> TypeOK /\ Queues /\ Rest)'
  BY DEF Core

LEMMA InitInvariant == Init => Core
  <1> SUFFICES ASSUME Init PROVE Queues /\ Rest
    BY InitType, Parts
  <1>1. /\ \A s \in Stream : Len(log[s]) = 0 /\ done[s] = 0
        /\ \A f \in Ticket : value[f] = 0
        /\ signaled = {} /\ pc = "idle" /\ call = 0
    BY DEF Init
  <1>2. \A p \in Prim : Positions(p) = {} /\ ~Dispatched(p)
    BY <1>1, StreamOfType DEF Positions, Dispatched
  <1>3. Queues
    BY <1>1, <1>2 DEF Queues, Placed, History, Ordered, Once
  <1>4. ~InNode /\ ~InCall
    BY <1>1 DEF InNode, InCall
  <1>5. \A b \in Array : status[b] = "unscheduled" /\ event[b] = None
    BY DEF Init
  <1>6. Called /\ Issued /\ Closed /\ Needed /\ Progress /\ Fences /\ Waited
    BY <1>1, <1>4 DEF Called, Issued, Closed, Needed, Progress, Fences, Waited
  <1>7. Scheduled /\ Events
    BY <1>1, <1>2, <1>4, <1>5, MakerOf DEF Scheduled, Events
  <1> QED
    BY <1>3, <1>6, <1>7 DEF Rest

LEMMA StutterInvariant ==
  ASSUME Core, UNCHANGED vars
  PROVE  Core'
  <1>0. Still /\ UNCHANGED <<pc, todo, open, seen, queues, flags>>
        /\ UNCHANGED <<arrays, queues, flags, active, args, walk>>
    BY DEF vars, Still, walk
  <1>1. TypeOK /\ Queues /\ Rest
    BY Parts
  <1>2. TypeOK'
    BY <1>0, <1>1, PlaceKeepsTypes DEF TypeOK, ClientTypes
  <1>3. Queues'
    BY <1>0, <1>1, QuietQueues DEF flags
  <1>4. InNode' = InNode /\ InCall' = InCall /\ Visited' = Visited
    BY <1>0, StillFacts DEF InNode, InCall, Visited
  <1>5. Called' /\ Issued' /\ Closed' /\ Needed' /\ Fences'
    BY <1>0, <1>1, <1>4, StillFacts DEF Rest, Called, Issued, Closed, Needed, Fences
  <1>6. Progress' /\ Scheduled' /\ Events'
    BY <1>0, <1>1, <1>4, StillFacts DEF Rest, Progress, Scheduled, Events
  <1>7. Waited'
    BY <1>0, <1>1, <1>4, StillFacts DEF Rest, Waited
  <1> QED
    BY <1>2, <1>3, <1>5, <1>6, <1>7, NextParts DEF Rest

LEMMA ClientInvariant ==
  ASSUME Core, Client
  PROVE  Core'
  <1>0. TypeOK /\ Queues /\ Rest /\ TypeOK'
    BY Parts, ClientKeepsTypes
  <1>1. ASSUME NEW T \in Requests, NEW m \in BOOLEAN, Start(T, m)
        PROVE  Queues' /\ Rest'
    BY <1>0, <1>1, StartRest, QuietQueues DEF Start, flags
  <1>2. ASSUME NEW T \in Requests, EvalScheduled(T)
        PROVE  Queues' /\ Rest'
    <2>1. Still /\ ~InCall /\ pc' = "ready" /\ \A b \in todo' : status[b] # "unscheduled"
      BY <1>2 DEF EvalScheduled, Still, InCall, InNode
    <2> QED
      BY <1>0, <1>2, <2>1, OutsideRest, QuietQueues DEF EvalScheduled, flags
  <1>3. ASSUME NEW b \in Array, AskAvailable(b)
        PROVE  Queues' /\ Rest'
    <2>1. /\ ~InCall /\ pc' = pc /\ IsAvailable(b) /\ status[b] # "unscheduled"
          /\ status' = [status EXCEPT ![b] = "available"]
          /\ event' = [event EXCEPT ![b] = None]
          /\ todo' \subseteq todo
          /\ UNCHANGED <<queues, flags, active, args, pending, cur, open, seen>>
      BY <1>3 DEF AskAvailable, InCall, InNode, walk
    <2> QED
      BY <1>0, <2>1, AvailableRest, QuietQueues DEF flags
  <1> QED
    BY <1>0, <1>1, <1>2, <1>3, NextParts DEF Client, EvalCall, AsyncEvalCall

LEMMA WaitInvariant ==
  ASSUME Core, Wait
  PROVE  Core'
  <1>0. TypeOK /\ Queues /\ Rest /\ TypeOK'
    BY Parts, WaitKeepsTypes
  <1>1. ASSUME NEW b \in Array, WaitArray(b)
        PROVE  Queues' /\ Rest'
    <2>1. /\ ~InCall /\ pc' = pc /\ IsAvailable(b) /\ status[b] # "unscheduled"
          /\ status' = [status EXCEPT ![b] = "available"]
          /\ event' = [event EXCEPT ![b] = None]
          /\ todo' \subseteq todo
          /\ UNCHANGED <<queues, flags, active, args, pending, cur, open, seen>>
      BY <1>1 DEF WaitArray, InCall, InNode, IsAvailable
    <2> QED
      BY <1>0, <2>1, AvailableRest, QuietQueues DEF flags
  <1>2. CASE WaitedAll
    <2>1. Still /\ ~InCall /\ pc' = "idle"
      BY <1>2 DEF WaitedAll, Still, InCall, InNode, walk
    <2>2. Rest'
      BY <1>0, <2>1, OutsideRest
    <2>3. UNCHANGED <<queues, value, signaled>>
      BY <1>2 DEF WaitedAll, flags
    <2>4. Queues'
      BY <1>0, <2>3, QuietQueues
    <2> QED
      BY <1>0, <2>2, <2>4, NextParts
  <1> QED
    BY <1>0, <1>1, <1>2, NextParts DEF Wait

LEMMA WalkInvariant ==
  ASSUME Core, Walk
  PROVE  Core'
  <1>0. TypeOK /\ Queues /\ Rest
    BY Parts
  <1> SUFFICES TypeOK' /\ Queues' /\ Rest'
    BY NextParts
  <1>1. ASSUME NEW n, Take(n), (n \in pending /\ Ready(n)) \/ (n = Sync /\ pending = {})
        PROVE  TypeOK' /\ Queues' /\ Rest'
    <2>1. call > 0 /\ n \in plan \cup {Sync}
      BY <1>0, <1>1 DEF Take, Rest, Called, InCall, TypeOK, ClientTypes
    <2> QED
      BY <1>0, <1>1, <2>1, TakeKeepsTypes, TakeRest, QuietQueues DEF Take, flags
  <1>2. ASSUME NEW b \in Array, AwaitInput(b)
        PROVE  TypeOK' /\ Queues' /\ Rest'
    <2>1. call > 0
      BY <1>0, <1>2 DEF AwaitInput, Rest, Called, InCall, InNode
    <2>2. TypeOK'
      BY <1>0, <1>2, <2>1, AwaitKeepsTypes
    <2> QED
      BY <1>0, <1>2, <2>2, AwaitFacts, AwaitRest
  <1>3. CASE InputsDone
    <2>1. /\ Still /\ InNode /\ InNode'
          /\ pc = "inputs" /\ pc' = "dispatch" /\ todo = {}
      BY <1>3 DEF InputsDone, Still, InNode, walk
    <2> QED
      BY <1>0, <1>3, <2>1, MovesKeepTypes, NodeMoveRest, QuietQueues
      DEF Moves, InputsDone, flags
  <1>4. CASE DispatchCompute
    <2>1. TypeOK'
      BY <1>0, <1>4, DispatchKeepsTypes
    <2>2. CASE cur = Sync
      BY <1>0, <1>4, <2>1, <2>2, SynchronizerKeeps
    <2>3. CASE cur # Sync
      <3>1. cur \in Prim /\ StreamOf[cur] \in Stream
        BY <1>0, <2>3, StreamOfType DEF TypeOK, ClientTypes
      <3> QED
        BY <1>0, <1>4, <2>1, <3>1, ComputeKeeps
    <2> QED
      BY <2>2, <2>3
  <1>5. CASE DispatchRelease
    BY <1>0, <1>5, DispatchKeepsTypes, ReleaseKeeps
  <1>6. CASE Throttle \/ WaitForOne \/ Relieved
    <2>1. /\ Still /\ InNode /\ InNode' /\ UNCHANGED queues
          /\ pc \notin {"inputs", "dispatch", "publish"}
          /\ pc' \notin {"inputs", "dispatch"}
          /\ pc' = "publish" => todo' = NodeOuts(cur)
      BY <1>6 DEF Throttle, WaitForOne, Relieved, Still, InNode
    <2> QED
      BY <1>0, <1>6, <2>1, ThrottleKeepsTypes, NodeMoveRest, QuietQueues DEF Still, flags
  <1>7. CASE OneCompleted
    <2>1. /\ Still /\ InNode /\ InNode' /\ UNCHANGED queues
          /\ pc = "blocked" /\ pc' = "relieved"
      BY <1>7 DEF OneCompleted, Still, InNode, walk
    <2> QED
      BY <1>0, <1>7, <2>1, MovesKeepTypes, NodeMoveRest, QuietQueues DEF Moves, Still, flags
  <1>8. ASSUME NEW b \in Array, Publish(b)
        PROVE  TypeOK' /\ Queues' /\ Rest'
    <2>1. TypeOK'
      BY <1>0, <1>8, PublishNode, PublishKeepsTypes
    <2> QED
      BY <1>0, <1>8, <2>1, PublishFacts, PublishRest
  <1>9. CASE Published
    BY <1>0, <1>9, MovesKeepTypes, PublishedRest, QuietQueues DEF Moves, Published, flags
  <1>10. ASSUME NEW s \in Stream, SignalStream(s)
         PROVE  TypeOK' /\ Queues' /\ Rest'
    <2>1. call > 0
      BY <1>0, <1>10 DEF SignalStream, Rest, Called, InCall
    <2>2. TypeOK'
      BY <1>0, <1>10, <2>1, SignalKeepsTypes
    <2> QED
      BY <1>0, <1>10, <2>2, SignalKeeps
  <1>11. CASE Signaled
    BY <1>0, <1>11, MovesKeepTypes, SignaledRest, QuietQueues DEF Moves, Signaled, flags
  <1>12. CASE EvalReturn
    BY <1>0, <1>12, MovesKeepTypes, EvalReturnRest, QuietQueues DEF Moves, EvalReturn, flags
  <1> QED
    BY <1>1, <1>2, <1>3, <1>4, <1>5, <1>6, <1>7, <1>8, <1>9, <1>10, <1>11, <1>12
    DEF Walk, TakePrimitive, TakeSynchronizer

LEMMA RunInvariant ==
  ASSUME Core, NEW s \in Stream, Run(s)
  PROVE  Core'
  <1>1. TypeOK /\ Queues /\ Rest /\ TypeOK'
    BY Parts, RunKeepsTypes
  <1>2. StreamTypes /\ StreamTypes'
    BY <1>1 DEF TypeOK
  <1> QED
    BY <1>1, <1>2, RunQueues, RunRest, NextParts

LEMMA CoreKept == Core /\ [Next]_vars => Core'
  BY ClientInvariant, WaitInvariant, WalkInvariant, RunInvariant, StutterInvariant DEF Next

(* Until they are published, the outputs of a node are unscheduled.          *)
LEMMA UnpublishedKept == Core /\ Unpublished /\ [Next]_vars => Unpublished'
  <1> SUFFICES ASSUME Core, Unpublished, [Next]_vars, InNode', NEW b \in NodeOuts(cur)'
               PROVE  status'[b] = "unscheduled" \/ (pc' = "publish" /\ b \notin todo')
    BY DEF Unpublished
  <1>0. TypeOK /\ Queues /\ Rest /\ ClientTypes
    BY DEF Core, TypeOK
  <1>1. ASSUME NEW n \in pending \cup {Sync}, Take(n)
        PROVE  status'[b] = "unscheduled"
    <2>1. n # Sync /\ n \in pending /\ n \in Prim /\ b \in Outs[n]
      BY <1>0, <1>1 DEF Take, NodeOuts, ClientTypes
    <2>2. ~Dispatched(n) /\ Maker(b) = n /\ b \in Array
      BY <1>0, <1>1, <2>1, MakerUnique DEF Take, Rest, Scheduled, InCall
    <2> QED
      BY <1>0, <1>1, <2>2 DEF Take, Rest, Scheduled
  <1>2. ASSUME NEW a \in Array, Publish(a)
        PROVE  status'[b] = "unscheduled" \/ (pc' = "publish" /\ b \notin todo')
    <2>1. InNode /\ pc = "publish" /\ pc' = "publish" /\ b \in NodeOuts(cur)
      BY <1>2 DEF Publish, InNode, NodeOuts, args
    <2>2. CASE b = a
      BY <1>2, <2>1, <2>2 DEF Publish
    <2>3. CASE b # a
      <3>1. status'[b] = status[b]
        BY <1>0, <1>2, <2>3 DEF Publish, ClientTypes
      <3> QED
        BY <1>2, <2>1, <3>1 DEF Unpublished, Publish
    <2> QED
      BY <2>2, <2>3
  <1>3. ASSUME InNode, pc # "publish", UNCHANGED <<status, cur>>
        PROVE  status'[b] = "unscheduled"
    BY <1>3 DEF Unpublished, NodeOuts
  <1>4. CASE UNCHANGED <<status, cur, pc, todo>>
    BY <1>4 DEF Unpublished, NodeOuts, InNode
  <1>5. CASE Client \/ Wait \/ Published \/ Signaled \/ EvalReturn \/ \E s \in Stream : SignalStream(s)
    BY <1>5 DEF Client, Wait, EvalCall, AsyncEvalCall, Start, EvalScheduled, AskAvailable,
                WaitArray, WaitedAll, Published, Signaled, EvalReturn, SignalStream, InNode
  <1>6. CASE (\E a \in Array : AwaitInput(a)) \/ InputsDone \/ DispatchCompute \/ DispatchRelease
             \/ Throttle \/ WaitForOne \/ OneCompleted \/ Relieved
    <2>1. InNode /\ pc # "publish" /\ UNCHANGED <<status, cur>>
      BY <1>6 DEF AwaitInput, InputsDone, DispatchCompute, DispatchRelease, Throttle,
                  WaitForOne, OneCompleted, Relieved, InNode, arrays, walk
    <2> QED
      BY <1>3, <2>1
  <1>7. CASE \E s \in Stream : Run(s)
    BY <1>4, <1>7 DEF Run, arrays, walk
  <1>8. CASE UNCHANGED vars
    BY <1>4, <1>8 DEF vars, arrays, walk
  <1> QED
    BY <1>1, <1>2, <1>5, <1>6, <1>7, <1>8 DEF Next, Walk, TakePrimitive, TakeSynchronizer

LEMMA IInvParts == IInv <=> Core /\ Unpublished
  BY DEF IInv, Core, Queues, Rest

LEMMA InitIInv == Init => Core /\ Unpublished
  <1>1. Init => Unpublished
    BY DEF Init, Unpublished, InNode
  <1> QED
    BY <1>1, InitInvariant

(* The invariant is inductive.                                               *)
THEOREM Inductive == Spec => []IInv
  <1>1. (Core /\ Unpublished) /\ [Next]_vars => (Core /\ Unpublished)'
    BY CoreKept, UnpublishedKept
  <1> QED
    BY <1>1, InitIInv, IInvParts, PTL DEF Spec

(* Every variable keeps its type.                                            *)
THEOREM TypeCorrect == Spec => []TypeOK
  BY Inductive, PTL DEF IInv

(* A primitive is dispatched once, however often its outputs are asked for.  *)
THEOREM DispatchedOnce == Spec => []Once
  BY Inductive, PTL DEF IInv

(* No primitive runs before the makers of all its inputs have run: fences and *)
(* events are enough to order the streams (eval_impl).                       *)
THEOREM InputsFirst == Spec => []InputsReady
  <1>1. IInv => InputsReady
    <2> SUFFICES ASSUME IInv, NEW p \in Prim, Ran(p), NEW b \in Ins[p]
                 PROVE  Ran(Maker(b))
      BY DEF InputsReady
    <2> QED
      BY IInvParts, InputsRan DEF Core
  <1> QED
    BY <1>1, Inductive, PTL

(* What array::is_available reports as available between calls has been      *)
(* computed.                                                                 *)
THEOREM Available == Spec => []AvailableIsComputed
  <1>1. IInv => AvailableIsComputed
    <2> SUFFICES ASSUME IInv, pc = "idle", NEW b \in Array, IsAvailable(b)
                 PROVE  Ran(Maker(b))
      BY DEF AvailableIsComputed
    <2>1. ~InCall
      BY DEF InCall, InNode
    <2> QED
      BY <2>1, IInvParts, AvailableRan DEF Core
  <1> QED
    BY <1>1, Inductive, PTL

-----------------------------------------------------------------------------
(* Evaluation implements Dataflow.                                           *)

(* Only a stream changes what has run.                                       *)
LEMMA ClientRuns ==
  ASSUME Core, Core', Client \/ Wait \/ Walk
  PROVE  Computed' = Computed
  <1>0. TypeOK /\ Queues /\ Rest /\ StreamTypes /\ StreamTypes' /\ TypeOK'
    BY DEF Core, TypeOK
  <1>1. Grow /\ UNCHANGED done
    <2>1. CASE UNCHANGED queues
      BY <1>0, <2>1, QuietGrows DEF queues
    <2>2. ASSUME NEW s \in Stream, NEW t, Push(s, t)
          PROVE  Grow /\ UNCHANGED done
      BY <1>0, <2>2, PushGrows DEF Push
    <2>3. ASSUME NEW b \in Array, AwaitInput(b)
          PROVE  Grow /\ UNCHANGED done
      <3>1. NodeStream(cur) \in Stream
        BY <1>0, NodeTypes DEF TypeOK, ClientTypes
      <3>2. (\E t \in Task : Push(NodeStream(cur), t)) \/ UNCHANGED queues
        BY <1>0, <2>3, AwaitTask
      <3> QED
        BY <2>1, <2>2, <3>1, <3>2
    <2>4. CASE DispatchCompute \/ DispatchRelease
      <3>1. cur \in Prim \cup {Sync} /\ NodeStream(cur) \in Stream /\ UNCHANGED done
            /\ (cur # Sync => StreamOf[cur] \in Stream)
        BY <1>0, <2>4, NodeTypes, StreamOfType
        DEF TypeOK, ClientTypes, DispatchCompute, DispatchRelease
      <3>2. CASE UNCHANGED log
        BY <2>1, <3>1, <3>2 DEF queues
      <3>3. CASE Dispatch(NodeStream(cur), "release", cur)
        BY <1>0, <2>2, <3>1, <3>3, DispatchPush
      <3>4. CASE cur # Sync /\ Dispatch(StreamOf[cur], "compute", cur)
        BY <1>0, <2>2, <3>1, <3>4, DispatchPush
      <3> QED
        BY <2>4, <3>2, <3>3, <3>4 DEF DispatchCompute, DispatchRelease
    <2>5. ASSUME NEW b \in Array, Publish(b)
          PROVE  Grow /\ UNCHANGED done
      BY <1>0, <2>5, PublishFacts DEF Publish
    <2>6. ASSUME NEW s \in Stream, SignalStream(s)
          PROVE  Grow /\ UNCHANGED done
      <3>1. UNCHANGED log \/ Enqueue(s, "signal", Of(s), 0)
        BY <2>6 DEF SignalStream
      <3>2. UNCHANGED done
        BY <2>6 DEF SignalStream
      <3>3. CASE Enqueue(s, "signal", Of(s), 0)
        BY <1>0, <2>2, <3>2, <3>3, PushIntro DEF Enqueue
      <3> QED
        BY <2>1, <3>1, <3>2, <3>3 DEF queues
    <2>7. CASE Client \/ Wait
      BY <2>1, <2>7 DEF Client, Wait, EvalCall, AsyncEvalCall, Start, EvalScheduled,
                        AskAvailable, WaitArray, WaitedAll
    <2>8. CASE TakePrimitive \/ TakeSynchronizer \/ InputsDone \/ Throttle \/ WaitForOne
               \/ OneCompleted \/ Relieved \/ Published \/ Signaled \/ EvalReturn
      BY <2>1, <2>8 DEF TakePrimitive, TakeSynchronizer, Take, InputsDone, Throttle,
                        WaitForOne, OneCompleted, Relieved, Published, Signaled, EvalReturn
    <2> QED
      BY <2>3, <2>4, <2>5, <2>6, <2>7, <2>8 DEF Walk
  <1>2. ASSUME NEW p \in Prim
        PROVE  Ran(p)' <=> Ran(p)
    <2>1. Ran(p) => Ran(p)'
      BY <1>0, <1>1, GrowRan
    <2>2. ASSUME Ran(p)' PROVE Ran(p)
      <3>1. StreamOf[p] \in Stream
        BY StreamOfType
      <3>2. PICK k \in Positions(p)' : k <= done'[StreamOf[p]]
        BY <2>2 DEF Ran
      <3>3. k \in 1..Len(log[StreamOf[p]]) /\ k <= done[StreamOf[p]]
        BY <1>0, <1>1, <3>1, <3>2 DEF Positions, StreamTypes
      <3>4. k \in Positions(p)
        BY <1>1, <3>1, <3>2, <3>3 DEF Positions, Grow
      <3> QED
        BY <3>3, <3>4 DEF Ran
    <2> QED
      BY <2>1, <2>2
  <1> QED
    BY <1>2 DEF Computed

(* A stream that runs a task runs at most one primitive, one that has not    *)
(* run before.                                                               *)
LEMMA RunRuns ==
  ASSUME Core, Core', NEW s \in Stream, Run(s)
  PROVE  \/ Computed' = Computed
         \/ \E p \in Prim \ Computed : /\ \A b \in Ins[p] : Maker(b) \in Computed
                                       /\ Computed' = Computed \cup {p}
  <1> DEFINE t == log[s][done[s] + 1]
  <1>0. TypeOK /\ Queues /\ StreamTypes /\ StreamTypes' /\ Grow /\ UNCHANGED log
    BY RunGrows DEF Core, TypeOK
  <1>1. /\ done[s] \in Nat /\ done[s] + 1 \in 1..Len(log[s])
        /\ done'[s] = done[s] + 1
        /\ \A x \in Stream : x # s => done'[x] = done[x]
    BY <1>0 DEF Run, StreamTypes
  <1>2. \A p \in Prim : Ran(p) => Ran(p)'
    BY <1>0, GrowRan
  <1>3. ASSUME NEW p \in Prim, Ran(p)', ~Ran(p)
        PROVE  t.op = "compute" /\ t.arg = p /\ StreamOf[p] = s
    <2>1. StreamOf[p] \in Stream /\ Positions(p)' = Positions(p)
      BY <1>0, StreamOfType DEF Positions
    <2>2. PICK k \in Positions(p) : k <= done'[StreamOf[p]]
      BY <1>3, <2>1 DEF Ran
    <2>3. ~(k <= done[StreamOf[p]])
      BY <1>3, <2>2 DEF Ran
    <2>4. StreamOf[p] = s
      BY <1>1, <2>1, <2>2, <2>3
    <2>5. k = done[s] + 1
      BY <1>0, <1>1, <2>2, <2>3, <2>4 DEF Positions, StreamTypes
    <2> QED
      BY <2>2, <2>4, <2>5 DEF Positions
  <1>4. CASE t.op # "compute"
    BY <1>2, <1>3, <1>4 DEF Computed
  <1>5. CASE t.op = "compute"
    <2>1. PICK p \in Prim : t.arg = p /\ StreamOf[p] = s
      BY <1>0, <1>1, <1>5 DEF Queues, Placed
    <2>2. done[s] + 1 \in Positions(p)
      BY <1>1, <1>5, <2>1 DEF Positions
    <2>3. ~Ran(p)
      BY <1>0, <1>1, <2>1, <2>2 DEF Queues, Once, Ran
    <2>4. Ran(p)'
      BY <1>0, <1>1, <2>1, <2>2 DEF Ran, Positions
    <2>5. \A b \in Ins[p] : Maker(b) \in Prim /\ Guarded(Maker(b), s, done[s] + 1)
      BY <1>0, <1>1, <1>5, <2>1, MakerOf, EvalAssumption DEF Queues, Ordered
    <2>6. \A b \in Ins[p] : Ran(Maker(b))
      <3>1. done[s] + 1 \in Nat /\ done[s] + 1 <= done[s] + 1
        BY <1>1
      <3> QED
        BY <1>0, <2>5, <3>1, PassedRan DEF Queues
    <2>7. Computed' = Computed \cup {p}
      BY <1>2, <1>3, <2>1, <2>4 DEF Computed
    <2> QED
      BY <2>1, <2>3, <2>5, <2>6, <2>7 DEF Computed
  <1> QED
    BY <1>4, <1>5

(* An array that has become available stays so, and has been computed.       *)
LEMMA AvailableStep ==
  ASSUME Core, Unpublished, Client \/ Wait \/ Walk
  PROVE  LET A == {b \in Array : status[b] = "available"}
         IN  \/ A' = A
             \/ \E b \in Array : Maker(b) \in Computed /\ A' = A \cup {b}
  <1> DEFINE A == {b \in Array : status[b] = "available"}
  <1>0. TypeOK /\ Queues /\ Rest /\ ClientTypes
    BY DEF Core, TypeOK
  <1>1. CASE UNCHANGED status
    BY <1>1
  <1>2. ASSUME NEW b \in Array, IsAvailable(b), ~InCall,
               status' = [status EXCEPT ![b] = "available"]
        PROVE  Maker(b) \in Computed /\ A' = A \cup {b}
    <2>1. Ran(Maker(b))
      BY <1>0, <1>2, AvailableRan
    <2>2. A' = A \cup {b}
      BY <1>0, <1>2 DEF ClientTypes
    <2> QED
      BY <2>1, <2>2, MakerOf DEF Computed
  <1>3. ASSUME NEW b \in Array, Publish(b)
        PROVE  A' = A
    <2>1. /\ cur \in Prim /\ cur # Sync /\ b \in Outs[cur] /\ InNode
          /\ b \in todo /\ status' = [status EXCEPT ![b] = "evaluated"]
      BY <1>0, <1>3, PublishNode DEF Publish
    <2>2. status[b] = "unscheduled"
      BY <2>1 DEF Unpublished, NodeOuts
    <2> QED
      BY <1>0, <2>1, <2>2 DEF ClientTypes
  <1>4. CASE Client \/ Wait
    <2>1. CASE \E b \in Array : AskAvailable(b) \/ WaitArray(b)
      BY <1>2, <2>1 DEF AskAvailable, WaitArray, InCall, InNode
    <2>2. CASE ~\E b \in Array : AskAvailable(b) \/ WaitArray(b)
      <3>1. UNCHANGED status
        BY <1>4, <2>2 DEF Client, Wait, EvalCall, AsyncEvalCall, Start, EvalScheduled,
                          WaitedAll, arrays
      <3> QED
        BY <1>1, <3>1
    <2> QED
      BY <2>1, <2>2
  <1>5. CASE Walk
    <2>1. CASE \E b \in Array : Publish(b)
      BY <1>3, <2>1
    <2>2. CASE ~\E b \in Array : Publish(b)
      <3>1. UNCHANGED status
        BY <1>5, <2>2 DEF Walk, TakePrimitive, TakeSynchronizer, Take, AwaitInput, InputsDone,
                          DispatchCompute, DispatchRelease, Throttle, WaitForOne,
                          OneCompleted, Relieved, Published, SignalStream, Signaled,
                          EvalReturn, arrays
      <3> QED
        BY <1>1, <3>1
    <2> QED
      BY <2>1, <2>2
  <1> QED
    BY <1>4, <1>5

(* Evaluation, whatever the graph and however the streams interleave, runs a  *)
(* primitive after its inputs, and makes an array available only when it has *)
(* been computed, and for good.                                              *)
THEOREM ImplementsDataflow == Spec => DataflowSpec
  <1> DEFINE A == {b \in Array : status[b] = "available"}
  <1>1. Init => Abstract!Init
    <2> SUFFICES ASSUME Init PROVE Computed = {} /\ A = {}
      BY DEF Abstract!Init
    <2>1. \A s \in Stream : Len(log[s]) = 0
      BY DEF Init
    <2>2. \A p \in Prim : Positions(p) = {}
      BY <2>1, StreamOfType DEF Positions
    <2> QED
      BY <2>2 DEF Init, Computed, Ran
  <1>2. ASSUME Core, Core', Unpublished, [Next]_vars
        PROVE  [Abstract!Next]_(Abstract!vars)
    <2>1. \A b \in Array : Abstract!Maker(b) = Maker(b)
      BY DEF Abstract!Maker, Maker
    <2>2. CASE Client \/ Wait \/ Walk
      <3>1. Computed' = Computed
        BY <1>2, <2>2, ClientRuns
      <3>2. CASE A' = A
        BY <3>1, <3>2 DEF Abstract!vars
      <3>3. CASE \E b \in Array : Maker(b) \in Computed /\ A' = A \cup {b}
        BY <2>1, <3>1, <3>3 DEF Abstract!Next, Abstract!Publish
      <3> QED
        BY <1>2, <2>2, <3>2, <3>3, AvailableStep
    <2>3. ASSUME NEW s \in Stream, Run(s)
          PROVE  Abstract!Next \/ UNCHANGED Abstract!vars
      <3>1. A' = A
        BY <2>3 DEF Run, arrays
      <3>2. CASE Computed' = Computed
        BY <3>1, <3>2 DEF Abstract!vars
      <3>3. CASE \E p \in Prim \ Computed : /\ \A b \in Ins[p] : Maker(b) \in Computed
                                            /\ Computed' = Computed \cup {p}
        <4>1. \A p \in Prim : \A b \in Ins[p] : Abstract!Maker(b) = Maker(b)
          BY <2>1, EvalAssumption
        <4> QED
          BY <3>1, <3>3, <4>1 DEF Abstract!Next, Abstract!Compute
      <3> QED
        BY <1>2, <2>3, <3>2, <3>3, RunRuns
    <2>4. CASE UNCHANGED vars
      BY <2>4 DEF vars, arrays, queues, Abstract!vars, Computed, Ran, Positions
    <2> QED
      BY <1>2, <2>2, <2>3, <2>4 DEF Next
  <1>3. (Core /\ Unpublished) /\ [Next]_vars => (Core /\ Unpublished)'
    BY CoreKept, UnpublishedKept
  <1>4. (Core /\ Unpublished) /\ (Core /\ Unpublished)' /\ [Next]_vars
        => [Abstract!Next]_(Abstract!vars)
    BY <1>2
  <1> QED
    BY <1>1, <1>3, <1>4, InitIInv, PTL DEF Spec, DataflowSpec, Abstract!Spec

-----------------------------------------------------------------------------
(* The scheduled part of the graph.                                          *)

(* Nothing that is scheduled becomes unscheduled again, and what a step      *)
(* schedules has its inputs scheduled already.                               *)
LEMMA ScheduleStep ==
  ASSUME Core, [Next]_vars
  PROVE  \A b \in Array :
           /\ status[b] # "unscheduled" => status'[b] # "unscheduled"
           /\ status[b] = "unscheduled" /\ status'[b] # "unscheduled" =>
                \A x \in Ins[Maker(b)] : status[x] # "unscheduled"
  <1>0. TypeOK /\ Progress
    BY DEF Core, Rest, TypeOK
  <1>1. CASE UNCHANGED status
    BY <1>1
  <1>2. ASSUME NEW b \in Array, WaitArray(b)
        PROVE  status[b] # "unscheduled" /\ status' = [status EXCEPT ![b] = "available"]
    BY <1>0, <1>2 DEF WaitArray, Progress
  <1>3. ASSUME NEW b \in Array, AskAvailable(b)
        PROVE  status[b] # "unscheduled" /\ status' = [status EXCEPT ![b] = "available"]
    BY <1>0, <1>3 DEF AskAvailable
  <1>4. ASSUME NEW b \in Array, Publish(b)
        PROVE  /\ status' = [status EXCEPT ![b] = "evaluated"]
               /\ \A x \in Ins[Maker(b)] : status[x] # "unscheduled"
    <2>1. b \in NodeOuts(cur) /\ \A x \in NodeIns(cur) : status[x] # "unscheduled"
      BY <1>0, <1>4 DEF Publish, Progress, InNode
    <2>2. cur \in Prim /\ Maker(b) = cur
      BY <1>0, <2>1, MakerUnique DEF NodeOuts, TypeOK, ClientTypes
    <2>3. cur # Sync
      BY <2>2, EvalAssumption
    <2> QED
      BY <1>4, <2>1, <2>2, <2>3 DEF Publish, NodeIns
  <1>5. \/ UNCHANGED status
        \/ \E b \in Array : WaitArray(b) \/ AskAvailable(b) \/ Publish(b)
    BY DEF Next, vars, arrays, Client, EvalCall, AsyncEvalCall, Start, EvalScheduled,
           Wait, WaitedAll, Walk, TakePrimitive, TakeSynchronizer, Take, AwaitInput,
           InputsDone, DispatchCompute, DispatchRelease, Throttle, WaitForOne,
           OneCompleted, Relieved, Published, SignalStream, Signaled, EvalReturn, Run
  <1> QED
    BY <1>0, <1>1, <1>2, <1>3, <1>4, <1>5 DEF TypeOK, ClientTypes

(* What a scheduled array was made from is scheduled, in every call.         *)
THEOREM InputsScheduled == Spec => []ScheduledClosed
  <1>1. Init => ScheduledClosed
    BY DEF Init, ScheduledClosed
  <1>2. Core /\ ScheduledClosed /\ [Next]_vars => ScheduledClosed'
    <2> SUFFICES ASSUME Core, ScheduledClosed, [Next]_vars
                 PROVE  ScheduledClosed'
      OBVIOUS
    <2>1. \A b \in Array : Ins[Maker(b)] \subseteq Array
      BY MakerOf, EvalAssumption
    <2> QED
      BY <2>1, ScheduleStep DEF ScheduledClosed
  <1>3. IInv => Core
    BY IInvParts
  <1> QED
    BY <1>1, <1>2, <1>3, Inductive, PTL DEF Spec

=============================================================================
