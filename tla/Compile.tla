-------------------------------- MODULE Compile -------------------------------
(***************************************************************************)
(* What compile does to the graph of a traced function (mlx/compile.cpp):    *)
(* compile_dfs lays the graph out on a tape, compile_simplify merges equal   *)
(* scalars and equal operations and drops no-ops, compile_fuse replaces      *)
(* sections of element-wise operations by one Compiled operation each.  The  *)
(* tape is replayed on every later call (compile_replace).                   *)
(*                                                                         *)
(* An array is a number, an index of `nodes`.  The copies compile_dfs makes  *)
(* of the arrays are not told from the arrays: nothing else changes those.   *)
(***************************************************************************)
EXTENDS Integers, Sequences, FiniteSets, TLC
LOCAL INSTANCE SequencesExt

CONSTANTS
  Modes,      \* the values of compile_mode: "enabled", "no_simplify", "no_fuse"
  Graphs,     \* the graphs of the traced functions
  Returns(_), \* the outputs such a function may have
  Passes,     \* how often compile_simplify looks for operations to merge
  ManyParents,  \* the parents of an array, 100, beyond which it sorts them first
  MaxDepth,   \* max_compile_depth
  MaxArrays   \* max_compile_arrays

ASSUME CompileAssumption ==
  /\ {Passes, ManyParents, MaxDepth, MaxArrays} \subseteq Nat \ {0}
  /\ Modes \subseteq {"enabled", "no_simplify", "no_fuse"}

(* A node is [op, stream, shape, group, ins, body]: what it is (equivalent   *)
(* primitives have one name), where it runs, all outputs of its primitive in *)
(* order, what it reads, and with a Compiled primitive what that was made    *)
(* from.                                                                     *)
VARIABLES
  mode,    \* compile_mode
  phase,   \* the pass that comes next
  pass,    \* how often operations have been merged
  g,       \* [nodes, tape, parents, outs, order]
  wanted   \* what the outputs of the traced function mean

vars == <<mode, phase, pass, g, wanted>>

Image(s) == {s[i] : i \in DOMAIN s}
Without(f, x) == [y \in DOMAIN f \ {x} |-> f[y]]
At(f, x) == IF x \in DOMAIN f THEN f[x] ELSE <<>>

HasPrimitive(n) == n.op \notin {"input", "one"}
IsScalar(n) == n.op = "one"
IsNoop(n) == n.op = "noop"
IsBroadcast(n) == n.op = "broadcast"
IsFusable(n) == n.op \in {"broadcast", "exp", "subtract"}

(* The siblings of an array come after it, in the order of the outputs.      *)
OneFirst(nodes, a) == <<a>> \o SelectSeq(nodes[a].group, LAMBDA s : s # a)

-------------------------------------------------------------------------------
(* What an array means: the operations that make it from the inputs.         *)
RECURSIVE Meaning(_, _, _)
Meaning(nodes, a, given) ==
  LET n == nodes[a]
      Read(i) == Meaning(nodes, n.ins[i], given)
      position == CHOOSE k \in DOMAIN n.group : n.group[k] = a
  IN  IF a \in DOMAIN given THEN given[a]
      ELSE IF n.op = "input" THEN <<"input", a>>
      ELSE IF IsScalar(n) THEN <<"one">>
      ELSE IF IsNoop(n) THEN Read(1)
      ELSE IF n.op = "compiled"
        THEN Meaning(nodes, n.body.outs[position],
               [x \in Image(n.body.inputs) |->
                  Read(CHOOSE i \in DOMAIN n.ins : n.body.inputs[i] = x)])
      ELSE <<n.op, position, [i \in DOMAIN n.ins |-> Read(i)]>>

Nothing == [a \in {} |-> a]

(* The tape replayed on the inputs of a call makes all outputs of each       *)
(* primitive at once; Made is what there is to look up behind it.            *)
Made(nodes, tape) ==
  {a \in DOMAIN nodes : nodes[a].op = "input"}
    \cup UNION {Image(nodes[a].group) : a \in Image(tape)}

(* No look-up of compile_replace fails.                                      *)
Replays(nodes, tape, outs) ==
  /\ \A i \in DOMAIN tape :
       HasPrimitive(nodes[tape[i]]) =>
         Image(nodes[tape[i]].ins) \subseteq Made(nodes, SubSeq(tape, 1, i - 1))
  /\ Image(outs) \subseteq Made(nodes, tape)

-------------------------------------------------------------------------------
(* compile_dfs: each array behind what it reads, one output of a primitive   *)
(* for all.  The parents of an array are the <<reader, position>> that read  *)
(* it, every output of the reader's primitive among them.                    *)
RECURSIVE Visit(_, _, _)
Visit(nodes, at, a) ==
  LET family == OneFirst(nodes, a)
      Enter(st, i) ==
        LET in == nodes[a].ins[i]
            readers == [k \in DOMAIN family |-> <<family[k], i>>]
        IN  Visit(nodes, [st EXCEPT !.parents = (in :> (At(@, in) \o readers)) @@ @], in)
      done == FoldLeft(Enter, at, [i \in DOMAIN nodes[a].ins |-> i])
  IN  IF a \in at.seen THEN at
      ELSE [done EXCEPT !.seen = @ \cup Image(family), !.tape = Append(@, a)]

Laid(h) ==
  LET at == FoldLeft(LAMBDA st, a : Visit(h.nodes, st, a),
                     [seen |-> {}, tape |-> <<>>, parents |-> Nothing], h.outs)
  IN  [h EXCEPT !.tape = at.tape, !.parents = at.parents]

-------------------------------------------------------------------------------
(* merge_one: who reads src is to read dst.                                  *)
Redirected(nodes, readers, dst) ==
  [n \in DOMAIN nodes |->
     [nodes[n] EXCEPT !.ins =
        [i \in DOMAIN @ |-> IF <<n, i>> \in Image(readers) THEN dst ELSE @[i]]]]

(* A wrong variant, for the mutants of PROJECT.json: the readers are not     *)
(* noted as parents of dst.                                                  *)
MergeOneForgets(h, dst, src) ==
  IF src \notin DOMAIN h.parents THEN h
  ELSE [h EXCEPT !.nodes = Redirected(@, h.parents[src], dst),
                 !.parents = Without(@, src)]

MergeOne(h, dst, src) ==
  LET readers == h.parents[src]
      all == SelectSeq(At(h.parents, dst) \o readers, LAMBDA e : e[1] # src)
  IN  IF src \notin DOMAIN h.parents THEN h
      ELSE [h EXCEPT !.nodes = Redirected(@, readers, dst),
                     !.parents = Without((dst :> all) @@ @, src)]

(* merge: the same for all outputs of two equivalent primitives.             *)
Merge(h, dst, src) ==
  LET from == h.nodes[src].group
      to == h.nodes[dst].group
  IN  FoldLeft(LAMBDA st, k : MergeOne(st, to[k], from[k]), h, [k \in DOMAIN from |-> k])

ScalarsMerged(h) ==
  LET scalars == SelectSeq(h.tape, LAMBDA a : IsScalar(h.nodes[a]))
      merged == FoldLeft(LAMBDA st, a : Merge(st, scalars[1], a), h,
                         IF scalars = <<>> THEN <<>> ELSE Tail(scalars))
  IN  [merged EXCEPT !.tape =
         SelectSeq(@, LAMBDA a : a \notin Image(scalars) \/ a = scalars[1])]

NoopsRemoved(h) ==
  LET noops == SelectSeq(h.tape, LAMBDA a : IsNoop(h.nodes[a]))
      Drop(st, a) ==
        LET in == st.nodes[a].ins[1]
        IN  [MergeOne(st, in, a) EXCEPT !.replaced = (a :> in) @@ @]
      start == [nodes |-> h.nodes, parents |-> h.parents, replaced |-> Nothing]
      done == FoldLeft(Drop, start, noops)
      tape == SelectSeq(h.tape, LAMBDA a : a \notin Image(noops))
  IN  [nodes |-> done.nodes, parents |-> done.parents, tape |-> tape, order |-> tape,
       outs |-> [k \in DOMAIN h.outs |->
         IF h.outs[k] \in DOMAIN done.replaced THEN done.replaced[h.outs[k]] ELSE h.outs[k]]]

(* Operations that do the same to the same arrays.  A wrong variant takes    *)
(* those that read the same arrays in any order.                             *)
EquivalentUnordered(nodes, a, b) ==
  /\ HasPrimitive(nodes[a]) /\ nodes[a].group # nodes[b].group
  /\ nodes[a].op = nodes[b].op
  /\ Image(nodes[a].ins) = Image(nodes[b].ins)

ArrayEquivalent(nodes, a, b) ==
  /\ HasPrimitive(nodes[a]) /\ nodes[a].group # nodes[b].group
  /\ nodes[a].op = nodes[b].op
  /\ nodes[a].ins = nodes[b].ins

(* The place on the tape; an array that is not on it, whose sibling is,      *)
(* counts as the first one.                                                  *)
TapeOrder(tape, a) ==
  IF a \in Image(tape) THEN CHOOSE i \in DOMAIN tape : tape[i] = a ELSE 1

(* The parents of an array two by two, as positions on its list; when there  *)
(* are many of them, those of one kind and the same inputs before the next.  *)
Pairs(nodes, list) ==
  LET N == Len(list)
      all == SelectSeq([k \in 1..(N * N) |-> <<(k - 1) \div N + 1, ((k - 1) % N) + 1>>],
                       LAMBDA e : e[1] < e[2])
      Key(i) == LET n == nodes[list[i][1]] IN <<n.op, n.ins>>
      Leads(i) == \A j \in 1..(i - 1) : Key(j) # Key(i)
      Group(i) == SelectSeq(all, LAMBDA e : Key(e[1]) = Key(i) /\ Key(e[2]) = Key(i))
  IN  IF N <= ManyParents THEN all
      ELSE FlattenSeq([i \in 1..N |-> IF Leads(i) THEN Group(i) ELSE <<>>])

(* Of two parents of an array the one that is later on the tape is merged    *)
(* into the other when they are equivalent, unless it is an output.          *)
ParentsMerged(h, a) ==
  LET list == h.parents[a]
      Try(st, e) ==
        LET swap == TapeOrder(h.order, list[e[2]][1]) < TapeOrder(h.order, list[e[1]][1])
            d == IF swap THEN e[2] ELSE e[1]
            s == IF swap THEN e[1] ELSE e[2]
            dst == list[d][1]
            src == list[s][1]
        IN  IF \/ st.i # e[1] /\ e[1] \in st.masked
               \/ e[2] \in st.masked
               \/ src = dst
               \/ ~ArrayEquivalent(st.h.nodes, src, dst)
               \/ src \in Image(h.outs)
            THEN [st EXCEPT !.i = IF e[1] \in st.masked THEN @ ELSE e[1]]
            ELSE [h |-> Merge(st.h, dst, src), masked |-> st.masked \cup {s}, i |-> e[1]]
      done == FoldLeft(Try, [h |-> h, masked |-> {}, i |-> 0], Pairs(h.nodes, list))
      kept == SelectSeq([k \in DOMAIN list |-> k], LAMBDA k : k \notin done.masked)
  IN  [done.h EXCEPT !.parents[a] = [k \in DOMAIN kept |-> list[kept[k]]]]

(* One pass over the tape.  What nobody reads any more and is no output      *)
(* leaves it.                                                                *)
MergePass(h) ==
  LET Step(st, a) ==
        LET family == OneFirst(st.h.nodes, a)
            merged == FoldLeft(
              LAMBDA x, s : IF s \in DOMAIN x.parents THEN ParentsMerged(x, s) ELSE x,
              st.h, family)
            keep == \E s \in Image(family) : s \in DOMAIN st.h.parents \cup Image(h.outs)
        IN  [h |-> merged, tape |-> IF keep THEN Append(st.tape, a) ELSE st.tape]
      done == FoldLeft(Step, [h |-> h, tape |-> <<>>], h.tape)
  IN  [done.h EXCEPT !.tape = done.tape]

-------------------------------------------------------------------------------
(* compile_fuse.  The first recursion, from the root of a section: an array  *)
(* joins the section (cache) when everything that reads it has joined;       *)
(* otherwise it is an input of it, except that a broadcast is split, the     *)
(* section reading a copy of its own.                                        *)
SplitOne(h, x, divider) ==
  LET y == Len(h.nodes) + 1
      Ours(e) == e[1] \in divider
      Theirs(e) == e[1] \notin divider
      moved == SelectSeq(h.parents[x], Ours)
      nodes == Append(h.nodes, [h.nodes[x] EXCEPT !.group = <<y>>])
  IN  [h EXCEPT !.nodes = Redirected(nodes, moved, y),
                !.parents = (y :> moved) @@ (x :> SelectSeq(h.parents[x], Theirs)) @@ @]

(* Whether everything that reads an array has joined.                        *)
AllParentsIn(h, a, cache) == \A e \in Image(h.parents[a]) : e[1] \in cache

RECURSIVE Section(_, _, _, _)
Section(st, a, depth, root) ==
  LET n == st.h.nodes[a]
      isOut == a \in Image(st.h.outs)
      inputs == IF isOut THEN st.inputs \cup {a} ELSE st.inputs \ {a}
      parentsIn == depth = 0 \/ AllParentsIn(st.h, a, st.cache)
      split == SplitOne(st.h, a, st.cache)
      Enter(x, i) == Section(x, x.h.nodes[a].ins[i], depth + 1, root)
  IN  IF a \in st.cache THEN st
      ELSE IF \/ depth >= MaxDepth \/ ~HasPrimitive(n) \/ ~IsFusable(n)
              \/ n.stream # root.stream
              \/ isOut /\ n.shape # root.shape
        THEN [st EXCEPT !.inputs = @ \cup {a}]
      ELSE IF ~parentsIn /\ IsBroadcast(n) /\ Cardinality(st.inputs) < MaxArrays
        THEN Section([st EXCEPT !.h = split], Len(split.nodes), depth, root)
      ELSE IF ~parentsIn THEN [st EXCEPT !.inputs = @ \cup {a}]
      ELSE IF Cardinality(inputs) >= MaxArrays THEN [st EXCEPT !.inputs = inputs]
      ELSE FoldLeft(Enter, [st EXCEPT !.inputs = inputs, !.cache = @ \cup {a}],
                      [i \in DOMAIN n.ins |-> i])

(* The second recursion: the inputs of the section, and its tape.            *)
RECURSIVE Body(_, _, _)
Body(st, nodes, a) ==
  LET done == FoldLeft(LAMBDA x, in : Body(x, nodes, in), st, nodes[a].ins)
  IN  IF a \in Image(st.tape) \cup Image(st.inputs) THEN st
      ELSE IF a \notin st.cache THEN [st EXCEPT !.inputs = Append(@, a)]
      ELSE [done EXCEPT !.tape = Append(@, a)]

(* What is not looked at again, the arrays of a section but its root; in a   *)
(* wrong variant only those that are outputs.                                *)
CoveredOutputs(inner, outputs) == Image(inner) \cap outputs

Covered(inner, outputs) == Image(inner)

(* The section of root becomes one primitive, which also returns the outputs *)
(* of the function that are inside; `replaced` notes what stands for those.  *)
Replaced(h, root, cache, replaced, outputs) ==
  LET body == Body([cache |-> cache, inputs |-> <<>>, tape |-> <<>>], h.nodes, root)
      inner == SelectSeq(body.tape, LAMBDA a : a # root)
      old == Append(SelectSeq(inner, LAMBDA a : a \in outputs), root)
      new == [k \in DOMAIN old |-> Len(h.nodes) + k]
      compiled == [h.nodes[root] EXCEPT
                   !.op = "compiled", !.group = new, !.ins = body.inputs, !.body =
                     [inputs |-> body.inputs, outs |-> old, tape |-> body.tape]]
      Outside(a) == SelectSeq(At(h.parents, a), LAMBDA e : e[1] \notin cache)
      Readers(i) == [k \in DOMAIN new |-> <<new[k], i>>]
      Position(a) == CHOOSE i \in DOMAIN body.inputs : body.inputs[i] = a
      dropped == {a \in Image(inner) : a \notin outputs}
      parents == [a \in (DOMAIN h.parents \cup Image(body.inputs)) \ dropped |->
        IF a \in Image(body.inputs) THEN Outside(a) \o Readers(Position(a))
        ELSE IF a \in Image(inner) THEN Outside(a) ELSE h.parents[a]]
      start == [h EXCEPT !.nodes = @ \o [k \in DOMAIN new |-> compiled],
                         !.parents = parents]
  IN  [h |-> FoldLeft(LAMBDA x, k : MergeOne(x, new[k], old[k]), start,
                      [k \in DOMAIN old |-> k]),
       tape |-> <<new[Len(new)]>>,
       done |-> Covered(inner, outputs),
       replaced |-> [a \in Image(old) \cap outputs |->
                       new[CHOOSE k \in DOMAIN old : old[k] = a]] @@ replaced]

(* The tape from its end: a section of one primitive is left as it is.       *)
Fused(h) ==
  LET Step(st, a) ==
        LET n == st.h.nodes[a]
            found == Section([h |-> st.h, cache |-> {}, inputs |-> {}], a, 0, n)
            made == Replaced(found.h, a, found.cache, st.replaced, Image(h.outs))
        IN  IF a \in st.done THEN st
            ELSE IF ~HasPrimitive(n) \/ IsBroadcast(n)
            THEN [st EXCEPT !.tape = <<a>> \o @]
            ELSE IF Cardinality(found.cache) <= 1
            THEN [st EXCEPT !.h = found.h, !.tape = <<a>> \o @]
            ELSE [h |-> made.h, tape |-> made.tape \o st.tape,
                  done |-> st.done \cup made.done, replaced |-> made.replaced]
      last == FoldLeft(Step, [h |-> h, tape |-> <<>>, done |-> {}, replaced |-> Nothing],
                       Reverse(h.tape))
  IN  [last.h EXCEPT !.tape = last.tape,
         !.outs = [k \in DOMAIN h.outs |->
           IF h.outs[k] \in DOMAIN last.replaced THEN last.replaced[h.outs[k]]
           ELSE h.outs[k]]]

-------------------------------------------------------------------------------
(* The passes in order; compile_mode leaves out the middle ones or the last. *)
Init ==
  /\ mode \in Modes
  /\ phase = "dfs" /\ pass = 0
  /\ \E nodes \in Graphs : \E outs \in Returns(nodes) :
       /\ g = [nodes |-> nodes, tape |-> <<>>, parents |-> Nothing, outs |-> outs,
               order |-> <<>>]
       /\ wanted = [k \in DOMAIN outs |-> Meaning(nodes, outs[k], Nothing)]

Becomes(now, h, next) ==
  /\ phase = now
  /\ g' = h
  /\ phase' = next
  /\ UNCHANGED <<mode, wanted>>

ToFuse == IF mode = "no_fuse" THEN "done" ELSE "fuse"

CompileDfs ==
  /\ Becomes("dfs", Laid(g), IF mode = "no_simplify" THEN "fuse" ELSE "scalars")
  /\ UNCHANGED pass

MergeScalars == Becomes("scalars", ScalarsMerged(g), "noops") /\ UNCHANGED pass

RemoveNoops == Becomes("noops", NoopsRemoved(g), "merge") /\ UNCHANGED pass

MergeParents ==
  /\ pass < Passes
  /\ pass' = pass + 1
  /\ Becomes("merge", MergePass(g), IF pass' = Passes THEN ToFuse ELSE "merge")

CompileFuse == Becomes("fuse", Fused(g), "done") /\ UNCHANGED pass

Next == CompileDfs \/ MergeScalars \/ RemoveNoops \/ MergeParents \/ CompileFuse

Spec == Init /\ [][Next]_vars

-------------------------------------------------------------------------------
(* Properties.                                                               *)

(* The tape can be replayed, no array before what it reads, and the outputs  *)
(* mean what they meant in the traced function (compile_replace looks up     *)
(* each input of each array, and each output, with `at`).                    *)
Right ==
  phase # "dfs" =>
    /\ Replays(g.nodes, g.tape, g.outs)
    /\ wanted = [k \in DOMAIN g.outs |-> Meaning(g.nodes, g.outs[k], Nothing)]

(* A scalar that is returned leaves the tape when it equals one that comes   *)
(* before it: the outputs are not asked (compile.cpp:636).                   *)
LosesScalar ==
  /\ phase = "scalars"
  /\ \E i, j \in DOMAIN g.tape :
       /\ i < j
       /\ IsScalar(g.nodes[g.tape[i]]) /\ IsScalar(g.nodes[g.tape[j]])
       /\ g.tape[j] \in Image(g.outs)

(* The first of two equal operations of several outputs is merged into the   *)
(* second, which is returned whole and whose outputs that are not on the     *)
(* tape count as its first array (compile.cpp:692); what stands between the  *)
(* two and reads the first then reads what is not made yet.                  *)
LosesSplit ==
  /\ phase = "merge"
  /\ \E i, j \in DOMAIN g.tape :
       LET a == g.tape[i]
           b == g.tape[j]
           Reads(k) == Image(g.nodes[g.tape[k]].ins) \cap Image(g.nodes[a].group) # {}
       IN  /\ i < j
           /\ Len(g.nodes[a].group) > 1 /\ ArrayEquivalent(g.nodes, a, b)
           /\ a \notin Image(g.outs) /\ Image(g.nodes[b].group) \subseteq Image(g.outs)
           /\ \E k \in (i + 1)..(j - 1) : Reads(k)

(* Every pass keeps what the outputs mean, and the tape fit to be replayed,  *)
(* but for two cases, and in those it never does.                            *)
SameResult == [][Right => (Right' <=> ~(LosesScalar \/ LosesSplit))]_vars

(* The parents map is kept in a valid state: it knows, of every primitive    *)
(* on the tape, that it reads what it reads, or one of its siblings does; so *)
(* no section swallows an array that is read from outside of it.             *)
ParentsKnown ==
  \A a \in Image(g.tape) : \A i \in DOMAIN g.nodes[a].ins :
    \E s \in Image(g.nodes[a].group) :
      <<s, i>> \in Image(At(g.parents, g.nodes[a].ins[i]))

(* Fusion computes nothing twice, broadcasts apart: an operation of the      *)
(* function is on the tape or in one section, never in two places.           *)
ComputedOnce ==
  LET Places(n) == {a \in Image(g.tape) :
        \/ n \in Image(g.nodes[a].group)
        \/ g.nodes[a].op = "compiled" /\ n \in Image(g.nodes[a].body.tape)}
  IN  \A n \in DOMAIN g.nodes :
        HasPrimitive(g.nodes[n]) => Cardinality(Places(n)) <= 1

===============================================================================
