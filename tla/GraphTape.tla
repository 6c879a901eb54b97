------------------------------- MODULE GraphTape ------------------------------
(***************************************************************************)
(* The first half of eval_impl (mlx/transforms.cpp): from the outputs a call *)
(* asks for to the tape, the nodes that remain to be evaluated.  A            *)
(* depth-first walk counts how many inputs refer to each array; a             *)
(* breadth-first walk limited in width then places a node once everything    *)
(* that reads it has been placed.  The tape is evaluated from its end.       *)
(*                                                                         *)
(* Arrays with one maker are siblings: they share its inputs, and one of     *)
(* them stands for all on the tape.                                          *)
(***************************************************************************)
EXTENDS Integers, Sequences, FiniteSets

CONSTANTS
  Prim, Array, Stream,
  Maker,      \* Maker[b]: the primitive that makes b
  StreamOf,   \* StreamOf[p]: the stream of p
  Sync,       \* the synchronizer, the node that reads the outputs of the call
  Graphs,     \* the graphs to start from (see MCGraphTape)
  Widths      \* values of MLX_BFS_MAX_WIDTH

Node == Array \cup {Sync}

(* An array is made from arrays that exist: among any primitives there is    *)
(* one whose outputs none of them reads.  What a scheduled primitive reads   *)
(* has been scheduled before it (ScheduledClosed in Eval).                   *)
Acyclic(g) ==
  \A P \in SUBSET Prim : P # {} =>
    \E p \in P : \A q \in P : \A k \in 1..Len(g.inputs[q]) : Maker[g.inputs[q][k]] # p
ScheduledFirst(g) ==
  \A p \in g.scheduled : \A k \in 1..Len(g.inputs[p]) : Maker[g.inputs[p][k]] \in g.scheduled

ASSUME GraphTapeAssumption ==
  /\ IsFiniteSet(Prim)
  /\ Maker \in [Array -> Prim]
  /\ StreamOf \in [Prim -> Stream]
  /\ Sync \notin Array /\ Sync \notin Prim
  /\ Widths \subseteq Nat
  /\ \A g \in Graphs :
       /\ g.outputs \in Seq(Array) /\ g.inputs \in [Prim -> Seq(Array)]
       /\ g.scheduled \subseteq Prim /\ g.tracer \subseteq Prim
       /\ Acyclic(g) /\ ScheduledFirst(g)

VARIABLES
  ins,       \* per node its inputs(): emptied by detach
  scheduled, \* primitives whose outputs are evaluated or available
  tracer,    \* primitives whose outputs are tracers
  home,      \* the stream of the synchronizer
  width,     \* max_width
  phase,     \* "count", then "pick" and "scan" in turn, then "done"
  stack,     \* dfs: nodes, with how many of their inputs have been looked at
  cache,     \* degrees of the arrays that have been reached
  fences,    \* the keys of needs_fence
  tape, i,   \* the tape and how many of its nodes have been scanned
  cur, j     \* the node being scanned, how many of its inputs have been

graph == <<ins, scheduled, tracer, home, width>>
vars == <<graph, phase, stack, cache, fences, tape, i, cur, j>>

NodeStream(n) == IF n = Sync THEN home ELSE StreamOf[Maker[n]]
Siblings(b) == {x \in Array : Maker[x] = Maker[b]}
Unscheduled(b) == Maker[b] \notin scheduled

TypeOK ==
  /\ ins \in [Node -> Seq(Array)]
  /\ scheduled \subseteq Prim /\ tracer \subseteq Prim
  /\ home \in Stream /\ width \in Widths
  /\ phase \in {"count", "pick", "scan", "done"}
  /\ \A k \in 1..Len(stack) :
       stack[k][1] \in Node /\ stack[k][2] \in 0..Len(ins[stack[k][1]])
  /\ DOMAIN cache \subseteq Array /\ \A b \in DOMAIN cache : cache[b] \in Nat \ {0}
  /\ fences \subseteq Array
  /\ tape \in Seq(Node) /\ i \in 0..Len(tape)
  /\ cur \in Node /\ j \in 0..Len(ins[cur])

(* eval and async_eval start a walk only if some output is unscheduled; the  *)
(* synchronizer takes the stream of the first such output.                   *)
Init ==
  /\ \E g \in Graphs :
       /\ ins = [n \in Node |-> IF n = Sync THEN g.outputs ELSE g.inputs[Maker[n]]]
       /\ scheduled = g.scheduled /\ tracer = g.tracer
  /\ \E k \in 1..Len(ins[Sync]) :
       /\ Unscheduled(ins[Sync][k])
       /\ \A l \in 1..k - 1 : ~Unscheduled(ins[Sync][l])
       /\ home = StreamOf[Maker[ins[Sync][k]]]
  /\ width \in Widths
  /\ phase = "count"
  /\ stack = <<<<Sync, 0>>>>
  /\ cache = <<>>
  /\ fences = {}
  /\ tape = <<>> /\ i = 0
  /\ cur = Sync /\ j = 0

-----------------------------------------------------------------------------
(* The depth-first walk.  An array that is found again only counts.          *)
Top == stack[Len(stack)]
Pop == SubSeq(stack, 1, Len(stack) - 1)
SetTop(k) == [stack EXCEPT ![Len(stack)][2] = k]

(* A reference to b counts for all its siblings.                             *)
Counted(b) ==
  [x \in DOMAIN cache \cup Siblings(b) |->
     IF x \notin DOMAIN cache THEN 1
     ELSE IF x \in Siblings(b) THEN cache[x] + 1 ELSE cache[x]]

Fenced(a, b) ==
  IF Unscheduled(b) /\ NodeStream(a) # NodeStream(b) THEN fences \cup {b} ELSE fences

CountInput ==
  /\ phase = "count"
  /\ stack # <<>>
  /\ Top[2] < Len(ins[Top[1]])
  /\ LET b == ins[Top[1]][Top[2] + 1]
         rest == SetTop(Top[2] + 1)
     IN  /\ stack' = IF b \in DOMAIN cache THEN rest ELSE Append(rest, <<b, 0>>)
         /\ cache' = Counted(b)
         /\ fences' = Fenced(Top[1], b)
  /\ UNCHANGED <<graph, phase, tape, i, cur, j>>

(* A node left behind is detached if it has been evaluated and nobody traces *)
(* it: it and its siblings forget their inputs.                              *)
LeaveNode ==
  /\ phase = "count"
  /\ stack # <<>>
  /\ Top[2] = Len(ins[Top[1]])
  /\ ins' = IF Top[1] # Sync /\ ~Unscheduled(Top[1]) /\ Maker[Top[1]] \notin tracer
            THEN [n \in Node |-> IF n # Sync /\ n \in Siblings(Top[1]) THEN <<>> ELSE ins[n]]
            ELSE ins
  /\ stack' = Pop
  /\ UNCHANGED <<scheduled, tracer, home, width, phase, cache, fences, tape, i, cur, j>>

StartTape ==
  /\ phase = "count"
  /\ stack = <<>>
  /\ phase' = "pick"
  /\ tape' = <<Sync>>
  /\ UNCHANGED <<graph, stack, cache, fences, i, cur, j>>

-----------------------------------------------------------------------------
(* The breadth-first walk: scan the next node of the tape or, when there is  *)
(* none, resume the node that the width limit interrupted last.              *)
PickFirst ==
  /\ phase = "pick"
  /\ DOMAIN cache # {}
  /\ i < Len(tape)
  /\ cur' = tape[i + 1] /\ j' = 0
  /\ i' = i + 1
  /\ phase' = "scan"
  /\ UNCHANGED <<graph, stack, cache, fences, tape>>

Resume ==
  /\ phase = "pick"
  /\ DOMAIN cache # {}
  /\ i = Len(tape)
  /\ stack # <<>>
  /\ cur' = Top[1] /\ j' = Top[2]
  /\ stack' = Pop
  /\ phase' = "scan"
  /\ UNCHANGED <<graph, cache, fences, tape, i>>

Finish ==
  /\ phase = "pick"
  /\ DOMAIN cache = {} \/ (i = Len(tape) /\ stack = <<>>)
  /\ phase' = "done"
  /\ UNCHANGED <<graph, stack, cache, fences, tape, i, cur, j>>

Input == ins[cur][j + 1]
FullTight == Len(tape) - i + 1 >= width
Full == Len(tape) - i >= width

SkipScheduled ==
  /\ phase = "scan"
  /\ j < Len(ins[cur])
  /\ ~Unscheduled(Input)
  /\ j' = j + 1
  /\ UNCHANGED <<graph, phase, stack, cache, fences, tape, i, cur>>

InterruptForgetful ==
  /\ phase = "scan"
  /\ j < Len(ins[cur])
  /\ Unscheduled(Input)
  /\ Full
  /\ phase' = "pick"
  /\ UNCHANGED <<graph, stack, cache, fences, tape, i, cur, j>>

Interrupt ==
  /\ phase = "scan"
  /\ j < Len(ins[cur])
  /\ Unscheduled(Input)
  /\ Full
  /\ stack' = Append(stack, <<cur, j>>)
  /\ phase' = "pick"
  /\ UNCHANGED <<graph, cache, fences, tape, i, cur, j>>

PlaceOnSight ==
  /\ phase = "scan"
  /\ j < Len(ins[cur])
  /\ Unscheduled(Input) /\ ~Full
  /\ cache' = [x \in DOMAIN cache \ Siblings(Input) |-> cache[x]]
  /\ tape' = Append(tape, Input)
  /\ j' = j + 1
  /\ UNCHANGED <<graph, phase, stack, fences, i, cur>>

(* The last reference to an array places it; any other only counts down.     *)
Place ==
  /\ phase = "scan"
  /\ j < Len(ins[cur])
  /\ Unscheduled(Input) /\ ~Full
  /\ IF cache[Input] = 1
     THEN /\ cache' = [x \in DOMAIN cache \ Siblings(Input) |-> cache[x]]
          /\ tape' = Append(tape, Input)
     ELSE /\ cache' = [x \in DOMAIN cache |->
                         IF x \in Siblings(Input) THEN cache[x] - 1 ELSE cache[x]]
          /\ UNCHANGED tape
  /\ j' = j + 1
  /\ UNCHANGED <<graph, phase, stack, fences, i, cur>>

Scanned ==
  /\ phase = "scan"
  /\ j = Len(ins[cur])
  /\ phase' = "pick"
  /\ UNCHANGED <<graph, stack, cache, fences, tape, i, cur, j>>

Next ==
  \/ CountInput \/ LeaveNode \/ StartTape
  \/ PickFirst \/ Resume \/ Finish
  \/ SkipScheduled \/ Interrupt \/ Place \/ Scanned

(* One thread runs all of it without waiting for anything.                   *)
Spec == Init /\ [][Next]_vars /\ WF_vars(Next)

-----------------------------------------------------------------------------
(* What the call has to evaluate: the smallest set of primitives that makes  *)
(* the outputs and what it reads itself, as far as nobody has scheduled it.  *)
InputsOf(p) == UNION {{ins[b][k] : k \in 1..Len(ins[b])} : b \in {x \in Array : Maker[x] = p}}
Outputs == {ins[Sync][k] : k \in 1..Len(ins[Sync])}
Needed ==
  LET Closed(P) == \A b \in Outputs \cup UNION {InputsOf(p) : p \in P} :
                     Unscheduled(b) => Maker[b] \in P
  IN  {p \in Prim : \A P \in SUBSET Prim : Closed(P) => p \in P}

PlacedAt(p) == {k \in 1..Len(tape) : tape[k] # Sync /\ Maker[tape[k]] = p}

(* The tape holds what has to be evaluated and nothing else, once, whatever  *)
(* the width limit and however many siblings and duplicates the graph has.   *)
TapeComplete ==
  phase = "done" => \A p \in Prim : Cardinality(PlacedAt(p)) = IF p \in Needed THEN 1 ELSE 0

(* A node is placed behind everything that reads it, so that, from the end   *)
(* of the tape, inputs are evaluated before what reads them.                 *)
Reads(n, p) == \E k \in 1..Len(ins[n]) : Maker[ins[n][k]] = p
TapeOrder ==
  phase = "done" => \A k \in 1..Len(tape) : tape[k] # Sync =>
    \A p \in Needed \cup {Sync} :
      Reads(IF p = Sync THEN Sync ELSE CHOOSE b \in Array : Maker[b] = p, Maker[tape[k]]) =>
        \E l \in 1..k - 1 : IF p = Sync THEN tape[l] = Sync ELSE l \in PlacedAt(p)

(* cache.find never misses: its result is used without a test.               *)
LookupHits ==
  phase = "scan" /\ j < Len(ins[cur]) /\ Unscheduled(Input) => Input \in DOMAIN cache

(* needs_fence is exactly what another stream reads during this call.        *)
FencesFound ==
  phase = "done" =>
    fences = {b \in Array : Maker[b] \in Needed /\
                \E n \in Node : /\ n = Sync \/ Maker[n] \in Needed
                                /\ NodeStream(n) # NodeStream(b)
                                /\ \E k \in 1..Len(ins[n]) : ins[n][k] = b}

(* The tape that eval_impl goes on with: complete, in order, with its fences. *)
TapeRight == TypeOK /\ TapeComplete /\ TapeOrder /\ FencesFound

(* The walk ends, for every width limit from 1 on.                           *)
TapeEnds == <>(phase = "done")

=============================================================================
