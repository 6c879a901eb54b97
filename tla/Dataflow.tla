------------------------------- MODULE Dataflow -------------------------------
(***************************************************************************)
(* What evaluation promises, whatever the streams, events and fences behind  *)
(* it: a primitive runs only when everything it reads has been computed, and *)
(* an array that a client may read has been computed and stays readable.     *)
(* Eval implements this specification.                                       *)
(***************************************************************************)
EXTENDS FiniteSets

CONSTANTS
  Prim,   \* the primitives of the graph (an operation, with all its outputs)
  Array,  \* the arrays they produce
  Ins,    \* Ins[p], the arrays p reads
  Outs    \* Outs[p], the arrays p produces: siblings of one another

VARIABLES
  computed,  \* the primitives that have run
  available  \* the arrays that clients may read

vars == <<computed, available>>

Maker(b) == CHOOSE p \in Prim : b \in Outs[p]

TypeOK ==
  /\ computed \subseteq Prim
  /\ available \subseteq Array

Init ==
  /\ computed = {}
  /\ available = {}

Compute(p) ==
  /\ p \notin computed
  /\ \A b \in Ins[p] : Maker(b) \in computed
  /\ computed' = computed \cup {p}
  /\ UNCHANGED available

Publish(b) ==
  /\ Maker(b) \in computed
  /\ available' = available \cup {b}
  /\ UNCHANGED computed

Next ==
  \/ \E p \in Prim : Compute(p)
  \/ \E b \in Array : Publish(b)

Spec == Init /\ [][Next]_vars

=============================================================================
