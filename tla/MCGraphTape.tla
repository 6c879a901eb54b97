----------------------------- MODULE MCGraphTape ------------------------------
(***************************************************************************)
(* GraphTape for TLC: every graph of three primitives, the first with two    *)
(* outputs, in which a node reads at most two arrays made before it (the     *)
(* same one twice included), on two streams, with every set of primitives    *)
(* scheduled by earlier calls.                                               *)
(***************************************************************************)
EXTENDS GraphTape

MCPrim == 1..3
MCArray == {<<1, 1>>, <<1, 2>>, <<2, 1>>, <<3, 1>>}
MCMaker == [b \in MCArray |-> b[1]]
MCStreamOf == <<1, 2, 1>>

(* Lists of at most two arrays made by primitives before p.                  *)
Lists(p) == UNION {[1..n -> {b \in MCArray : b[1] < p}] : n \in 0..2}

(* A scheduled primitive was detached, or kept its inputs because they were  *)
(* traced; it may still be traced.  What it read was scheduled before it.    *)
MCGraphs ==
  {[inputs |-> <<<<>>, a2, a3>>, outputs |-> out, scheduled |-> S, tracer |-> T] :
     a2 \in Lists(2), a3 \in Lists(3), out \in Lists(4) \ {<<>>},
     S \in {{}, {1}, {1, 2}}, T \in {{}, {1}}}

=============================================================================
