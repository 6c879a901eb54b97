------------------------------- MODULE MCCompile ------------------------------
(***************************************************************************)
(* Small traced functions for Compile: an input and, after it, all lists of   *)
(* `size` operations of the given kinds, families of kinds that the passes    *)
(* treat together.  A function returns every array that nothing reads, and    *)
(* perhaps others, in any order.                                              *)
(***************************************************************************)
EXTENDS Compile, SequencesExt

CONSTANT
  Families  \* [kinds, size] of the functions

(* The nodes with the outputs of one more primitive behind them.             *)
Fresh(n, nodes, outputs) ==
  LET ids == [k \in 1..outputs |-> Len(nodes) + k]
  IN  nodes \o [k \in 1..outputs |->
        [op |-> n.op, stream |-> n.stream, shape |-> n.shape, group |-> ids, ins |-> n.ins,
         body |-> <<>>]]

Node(op, shape, ins) == [op |-> op, stream |-> 1, shape |-> shape, ins |-> ins]

(* By one operation of a kind, on any of the arrays there are; "exp2" is exp *)
(* on another stream.                                                        *)
Larger(nodes, kinds) ==
  LET A == 1..Len(nodes)
      OfOne(op) == {Node(op, nodes[a].shape, <<a>>) : a \in A}
      Of(k) ==
        CASE k = "one" -> {Node(k, 1, <<>>)}
          [] k = "exp2" -> {[n EXCEPT !.stream = 2] : n \in OfOne("exp")}
          [] k = "subtract" -> {Node(k, nodes[p[1]].shape, p) :
               p \in {q \in A \X A : nodes[q[1]].shape = nodes[q[2]].shape}}
          [] k = "broadcast" -> {Node(k, 2, <<a>>) : a \in {x \in A : nodes[x].shape = 1}}
          [] OTHER -> OfOne(k)
  IN  UNION {{Fresh(n, nodes, IF k = "split" THEN 2 ELSE 1) : n \in Of(k)} : k \in kinds}

RECURSIVE Lists(_, _)
Lists(n, kinds) ==
  IF n = 0 THEN {Fresh(Node("input", 1, <<>>), <<>>, 1)}
  ELSE UNION {Larger(nodes, kinds) : nodes \in Lists(n - 1, kinds)}

Unread(nodes) ==
  LET read == UNION {Image(nodes[a].ins) : a \in DOMAIN nodes}
  IN  {grp \in {Image(nodes[a].group) : a \in DOMAIN nodes} : grp \cap read = {}}

Outs(nodes, most) ==
  UNION {{o \in UNION {[1..n -> 1..Len(nodes)] : n \in 1..most} :
            \A grp \in must : Image(o) \cap grp # {}} :
         must \in {grps \in {Unread(nodes)} : Cardinality(grps) <= most}}

MCGraphs == UNION {Lists(f.size, f.kinds) : f \in Families}

(* How many outputs a function returns at most: four, of which none twice,   *)
(* when it splits its input twice, so that all of both may be returned.      *)
Most(nodes) ==
  LET Of(op) == {a \in DOMAIN nodes : nodes[a].op = op}
  IN  CASE Cardinality({a \in Of("split") : nodes[a].ins = <<1>>}) > 2 -> 4
        [] Of("split") = {} /\ (Len(nodes) = 5 \/ \E a \in Of("exp") : nodes[a].stream = 2) -> 2
        [] OTHER -> 3

MCReturns(nodes) == {o \in Outs(nodes, Most(nodes)) : Len(o) = 4 => IsInjective(o)}

MCFamilies == {
  [kinds |-> {"exp", "subtract", "broadcast"}, size |-> 4],
  [kinds |-> {"exp", "exp2", "subtract"}, size |-> 3],
  [kinds |-> {"split", "sort"}, size |-> 3],
  [kinds |-> {"one", "noop", "subtract"}, size |-> 3]}

===============================================================================
