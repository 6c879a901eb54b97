--------------------------- MODULE GraphTapeProofs ---------------------------
(***************************************************************************)
(* For every graph: the tape is complete, in order and fenced, and no lookup *)
(* of a degree misses.                                                       *)
(***************************************************************************)
EXTENDS GraphTape, FiniteSetTheorems, SequenceTheorems, TLAPS

(* The readers of a graph g: the synchronizer and the primitives that have   *)
(* not been scheduled.  An edge <<r, k>> is the k-th input of reader r, when *)
(* that is unscheduled: those that are scheduled are counted, but neither    *)
(* placed nor fenced.                                                        *)
Of(n) == IF n = Sync THEN Sync ELSE Maker[n]
Readers(g) == {Sync} \cup ({Maker[b] : b \in Array} \ g.scheduled)
List(g, r) == IF r = Sync THEN g.outputs ELSE g.inputs[r]
Arg(g, e) == List(g, e[1])[e[2]]
To(g, e) == Maker[Arg(g, e)]
Edges(g) ==
  UNION {{<<r, k>> : k \in {l \in 1..Len(List(g, r)) : Maker[List(g, r)[l]] \notin g.scheduled}} :
           r \in Readers(g)}

(* What the outputs need, as far as it is unscheduled.                       *)
Closed(g, P) == \A e \in Edges(g) : e[1] = Sync \/ e[1] \in P => To(g, e) \in P
Need(g) == {p \in Prim : \A P \in SUBSET Prim : Closed(g, P) => p \in P}
InCall(g, r) == r = Sync \/ r \in Need(g)
StreamAt(r) == IF r = Sync THEN home ELSE StreamOf[r]
FencesOf(g, E) == {Arg(g, e) : e \in {x \in E : StreamAt(x[1]) # StreamOf[To(g, x)]}}

(* The walk goes over graph g: the inputs of what is scheduled may be gone.  *)
Matches(g) ==
  /\ scheduled = g.scheduled /\ tracer = g.tracer
  /\ ins \in [Node -> Seq(Array)]
  /\ ins[Sync] = g.outputs
  /\ \A b \in Array : ins[b] = g.inputs[Maker[b]] \/ (ins[b] = <<>> /\ Maker[b] \in scheduled)

Typed ==
  /\ home \in Stream /\ width \in Widths
  /\ phase \in {"count", "pick", "scan", "done"}
  /\ stack \in Seq(Node \X Nat)
  /\ \A m \in 1..Len(stack) : stack[m][2] <= Len(ins[stack[m][1]])
  /\ \A l, m \in 1..Len(stack) : Of(stack[l][1]) = Of(stack[m][1]) => l = m
  /\ DOMAIN cache \subseteq Array /\ \A b \in DOMAIN cache : cache[b] \in Nat \ {0}
  /\ tape \in Seq(Node) /\ i \in 0..Len(tape)
  /\ cur \in Node /\ j \in 0..Len(ins[cur])

(* The depth-first walk has looked at an edge.                               *)
Seen == {Maker[b] : b \in DOMAIN cache}
Behind(e) == \A m \in 1..Len(stack) : Of(stack[m][1]) = e[1] => e[2] <= stack[m][2]
Looked(e) == (e[1] = Sync \/ e[1] \in Seen) /\ Behind(e)
LookedAt(g) == {e \in Edges(g) : Looked(e)}
LookedTo(g, p) == {e \in Edges(g) : Looked(e) /\ To(g, e) = p}

(* In the depth-first walk the degree of an array is the number of edges to  *)
(* its maker that have been looked at.                                       *)
Counting(g) ==
  /\ tape = <<>> /\ i = 0 /\ cur = Sync /\ j = 0
  /\ \A b \in Array : Maker[b] \in Seen => b \in DOMAIN cache
  /\ \A m \in 1..Len(stack) : stack[m][1] # Sync => stack[m][1] \in DOMAIN cache
  /\ \A e \in Edges(g) : Looked(e) => To(g, e) \in Seen
  /\ \A b \in DOMAIN cache : Maker[b] \notin g.scheduled =>
       Maker[b] \in Need(g) /\ cache[b] = Cardinality(LookedTo(g, Maker[b]))
  /\ fences = FencesOf(g, LookedAt(g))

(* The breadth-first walk has passed an edge: its reader is on the tape and  *)
(* has been scanned beyond it.  Ahead are the edges to p not passed yet.     *)
Placed == {Maker[tape[l]] : l \in 2..Len(tape)}
Passed(e) ==
  /\ \E l \in 1..i : Of(tape[l]) = e[1]
  /\ phase = "scan" /\ Of(cur) = e[1] => e[2] <= j
  /\ Behind(e)
Ahead(g, p) == {e \in Edges(g) : InCall(g, e[1]) /\ ~Passed(e) /\ To(g, e) = p}

TapeShape(g) ==
  /\ Len(tape) >= 1 /\ tape[1] = Sync
  /\ \A l \in 2..Len(tape) : tape[l] \in Array /\ Maker[tape[l]] \in Need(g)
  /\ \A l, m \in 1..Len(tape) : Of(tape[l]) = Of(tape[m]) => l = m
  /\ \A m \in 1..Len(stack) : \E l \in 1..i : tape[l] = stack[m][1]
  /\ phase = "scan" => /\ \E l \in 1..i : tape[l] = cur
                       /\ \A m \in 1..Len(stack) : Of(stack[m][1]) # Of(cur)
(* The degree of an array is the number of edges to its maker still ahead:   *)
(* what has no degree, of what is needed, has been placed.                   *)
Degrees(g) ==
  /\ \A b \in Array : Maker[b] \notin g.scheduled =>
       (b \in DOMAIN cache <=> Maker[b] \in Need(g) \ Placed)
  /\ \A b \in DOMAIN cache : Maker[b] \notin g.scheduled =>
       cache[b] = Cardinality(Ahead(g, Maker[b]))
  /\ \A p \in Placed : Ahead(g, p) = {}
Order(g) ==
  \A l \in 2..Len(tape) : \A e \in Edges(g) :
    InCall(g, e[1]) /\ To(g, e) = Maker[tape[l]] => \E m \in 1..l - 1 : Of(tape[m]) = e[1]

Walking(g) ==
  /\ TapeShape(g) /\ Degrees(g) /\ Order(g)
  /\ fences = FencesOf(g, {e \in Edges(g) : InCall(g, e[1])})
  /\ phase = "done" => Need(g) \subseteq Placed

WInv(g) ==
  /\ Matches(g) /\ Typed
  /\ IF phase = "count" THEN Counting(g) ELSE Walking(g)

IInv == \E g \in Graphs : WInv(g)

-----------------------------------------------------------------------------
(* Graphs.                                                                   *)
LEMMA GraphType ==
  ASSUME NEW g \in Graphs
  PROVE  /\ g.outputs \in Seq(Array) /\ g.inputs \in [Prim -> Seq(Array)]
         /\ g.scheduled \in SUBSET Prim
         /\ Acyclic(g) /\ ScheduledFirst(g)
  BY GraphTapeAssumption

LEMMA ReaderList ==
  ASSUME NEW g \in Graphs, NEW r \in Readers(g)
  PROVE  /\ r = Sync \/ (r # Sync /\ r \in Prim \ g.scheduled)
         /\ List(g, r) \in Seq(Array) /\ Len(List(g, r)) \in Nat
         /\ \A k \in 1..Len(List(g, r)) : List(g, r)[k] \in Array
  <1>1. r = Sync \/ (r # Sync /\ r \in Prim \ g.scheduled)
    BY GraphTapeAssumption DEF Readers
  <1>2. List(g, r) \in Seq(Array)
    BY <1>1, GraphType DEF List
  <1> QED
    BY <1>1, <1>2

(* What an edge is, and that an unscheduled input makes one.                 *)
LEMMA EdgeShape ==
  ASSUME NEW g \in Graphs, NEW e \in Edges(g)
  PROVE  /\ e[1] \in Readers(g)
         /\ e[2] \in 1..Len(List(g, e[1])) /\ e[2] \in Nat \ {0}
         /\ e = <<e[1], e[2]>>
         /\ Arg(g, e) \in Array /\ To(g, e) \in Prim \ g.scheduled
  <1>1. PICK r \in Readers(g) : \E k \in 1..Len(List(g, r)) :
               e = <<r, k>> /\ Maker[List(g, r)[k]] \notin g.scheduled
    BY DEF Edges
  <1>2. PICK k \in 1..Len(List(g, r)) : e = <<r, k>> /\ Maker[List(g, r)[k]] \notin g.scheduled
    BY <1>1
  <1>3. e[1] = r /\ e[2] = k /\ Len(List(g, r)) \in Nat /\ List(g, r)[k] \in Array
    BY <1>2, ReaderList
  <1>4. Maker[List(g, r)[k]] \in Prim
    BY <1>3, GraphTapeAssumption
  <1> QED
    BY <1>2, <1>3, <1>4 DEF Arg, To

LEMMA EdgeMade ==
  ASSUME NEW g, NEW r \in Readers(g), NEW k \in 1..Len(List(g, r)),
         Maker[List(g, r)[k]] \notin g.scheduled
  PROVE  <<r, k>> \in Edges(g) /\ Arg(g, <<r, k>>) = List(g, r)[k]
  BY DEF Edges, Arg

LEMMA EdgesFinite ==
  ASSUME NEW g \in Graphs
  PROVE  IsFiniteSet(Edges(g))
  <1>1. IsFiniteSet(Readers(g))
    <2>1. {Maker[b] : b \in Array} \ g.scheduled \in SUBSET Prim
      BY GraphTapeAssumption
    <2>2. IsFiniteSet({Maker[b] : b \in Array} \ g.scheduled)
      BY <2>1, GraphTapeAssumption, FS_Subset
    <2> QED
      BY <2>2, FS_AddElement DEF Readers
  <1>2. PICK R, T, f : /\ R = Readers(g)
                       /\ T = {{r} \X (1..Len(List(g, r))) : r \in R}
                       /\ f = [r \in R |-> {r} \X (1..Len(List(g, r)))]
    OBVIOUS
  <1>3. f \in Surjection(R, T)
    BY <1>2 DEF Surjection
  <1>4. IsFiniteSet(T)
    BY <1>1, <1>2, <1>3, FS_Surjection
  <1>5. ASSUME NEW t \in T
        PROVE  IsFiniteSet(t)
    <2>1. PICK r \in Readers(g) : t = {r} \X (1..Len(List(g, r)))
      BY <1>2
    <2>2. PICK n \in Nat : n = Len(List(g, r))
      BY ReaderList
    <2>3. IsFiniteSet(1..n)
      BY FS_Interval
    <2>4. IsFiniteSet({r})
      BY FS_Singleton
    <2> QED
      BY <2>1, <2>2, <2>3, <2>4, FS_Product
  <1>6. IsFiniteSet(UNION T)
    BY <1>4, <1>5, FS_UNION
  <1>7. ASSUME NEW e \in Edges(g)
        PROVE  e \in UNION T
    <2>1. e[1] \in R /\ e = <<e[1], e[2]>> /\ e[2] \in 1..Len(List(g, e[1]))
      BY <1>2, EdgeShape
    <2>2. e \in {e[1]} \X (1..Len(List(g, e[1])))
      BY <2>1
    <2> QED
      BY <1>2, <2>1, <2>2
  <1> QED
    BY <1>6, <1>7, FS_Subset

(* What is needed: closed, unscheduled, and made by somebody.                *)
LEMMA NeedClosed ==
  ASSUME NEW g \in Graphs
  PROVE  /\ \A e \in Edges(g) : InCall(g, e[1]) => To(g, e) \in Need(g)
         /\ Need(g) \subseteq Prim \ g.scheduled
         /\ \A p \in Need(g) : p # Sync /\ p \in Readers(g) /\ \E b \in Array : Maker[b] = p
  <1>1. ASSUME NEW e \in Edges(g), InCall(g, e[1])
        PROVE  To(g, e) \in Need(g)
    <2>1. To(g, e) \in Prim
      BY EdgeShape
    <2>2. ASSUME NEW P \in SUBSET Prim, Closed(g, P)
          PROVE  To(g, e) \in P
      BY <1>1, <2>2 DEF Closed, Need, InCall
    <2> QED
      BY <2>1, <2>2 DEF Need
  <1>2. PICK P : P = {Maker[b] : b \in Array} \ g.scheduled
    OBVIOUS
  <1>3. P \in SUBSET Prim
    BY <1>2, GraphTapeAssumption
  <1>4. Closed(g, P)
    <2> SUFFICES ASSUME NEW e \in Edges(g)
                 PROVE  To(g, e) \in P
      BY DEF Closed
    <2>1. Arg(g, e) \in Array /\ To(g, e) \notin g.scheduled
      BY EdgeShape
    <2> QED
      BY <1>2, <2>1 DEF To
  <1>5. Need(g) \subseteq P
    BY <1>3, <1>4 DEF Need
  <1> QED
    BY <1>1, <1>2, <1>3, <1>5, GraphTapeAssumption DEF Readers

(* The inputs of a node are those of its primitive, unless that has been     *)
(* scheduled; what a scheduled one reads has been scheduled.                 *)
LEMMA NodeList ==
  ASSUME NEW g \in Graphs, Matches(g), NEW n \in Node, Of(n) \in Readers(g)
  PROVE  ins[n] = List(g, Of(n))
  <1>1. CASE n = Sync
    BY <1>1 DEF Matches, Of, List
  <1>2. CASE n # Sync
    <2>1. n \in Array /\ Of(n) = Maker[n] /\ Maker[n] # Sync
      BY <1>2, GraphTapeAssumption DEF Node, Of
    <2>2. Maker[n] \notin g.scheduled
      BY <2>1 DEF Readers
    <2> QED
      BY <2>1, <2>2 DEF Matches, List
  <1> QED
    BY <1>1, <1>2

LEMMA ScheduledNode ==
  ASSUME NEW g \in Graphs, Matches(g), NEW n \in Node, Of(n) \notin Readers(g)
  PROVE  /\ n # Sync /\ Maker[n] \in g.scheduled
         /\ \A k \in 1..Len(ins[n]) : Maker[ins[n][k]] \in g.scheduled
  <1>1. n # Sync /\ n \in Array /\ Maker[n] \in g.scheduled
    BY DEF Readers, Of, Node
  <1>2. ins[n] = g.inputs[Maker[n]] \/ ins[n] = <<>>
    BY <1>1 DEF Matches
  <1>3. ASSUME NEW k \in 1..Len(ins[n])
        PROVE  Maker[ins[n][k]] \in g.scheduled
    <2>1. CASE ins[n] = <<>>
      BY <2>1
    <2>2. CASE ins[n] = g.inputs[Maker[n]]
      BY <1>1, <2>2, GraphType DEF ScheduledFirst
    <2> QED
      BY <1>2, <2>1, <2>2
  <1> QED
    BY <1>1, <1>3

(* The primitives the properties speak of are those of the graph.            *)
LEMMA SameNeed ==
  ASSUME NEW g \in Graphs, Matches(g)
  PROVE  Needed = Need(g)
  <1> DEFINE Source(P) == Outputs \cup UNION {InputsOf(p) : p \in P}
             Shut(P) == \A b \in Source(P) : Unscheduled(b) => Maker[b] \in P
  <1>1. ASSUME NEW P \in SUBSET Prim
        PROVE  Shut(P) <=> Closed(g, P)
    <2>1. ASSUME Shut(P), NEW e \in Edges(g), e[1] = Sync \/ e[1] \in P
          PROVE  To(g, e) \in P
      <3>1. /\ e[1] \in Readers(g) /\ e[2] \in 1..Len(List(g, e[1]))
            /\ To(g, e) \notin g.scheduled
        BY EdgeShape
      <3>2. Arg(g, e) \in Source(P)
        <4>1. CASE e[1] = Sync
          <5>1. ins[Sync] = List(g, e[1])
            BY <4>1 DEF Matches, List
          <5> QED
            BY <3>1, <5>1, <4>1 DEF Outputs, Arg
        <4>2. CASE e[1] # Sync
          <5>1. PICK b \in Array : Maker[b] = e[1]
            BY <3>1, <4>2 DEF Readers
          <5>2. b \in Node /\ Of(b) = e[1]
            BY <5>1, GraphTapeAssumption DEF Node, Of
          <5>3. ins[b] = List(g, e[1])
            BY <3>1, <5>2, NodeList
          <5>4. Arg(g, e) \in InputsOf(e[1])
            BY <3>1, <5>1, <5>3 DEF InputsOf, Arg
          <5> QED
            BY <2>1, <4>2, <5>4
        <4> QED
          BY <4>1, <4>2
      <3>3. Unscheduled(Arg(g, e))
        BY <3>1 DEF Unscheduled, To, Matches
      <3> QED
        BY <2>1, <3>2, <3>3 DEF To
    <2>2. ASSUME Closed(g, P), NEW b \in Source(P), Unscheduled(b)
          PROVE  Maker[b] \in P
      <3>1. PICK n \in Node : /\ n = Sync \/ Maker[n] \in P
                              /\ \E k \in 1..Len(ins[n]) : ins[n][k] = b
        <4>1. CASE b \in Outputs
          BY <4>1 DEF Outputs, Node
        <4>2. CASE b \notin Outputs
          <5>1. PICK p \in P : b \in InputsOf(p)
            BY <2>2, <4>2
          <5> QED
            BY <5>1 DEF InputsOf, Node
        <4> QED
          BY <4>1, <4>2
      <3>2. PICK k \in 1..Len(ins[n]) : ins[n][k] = b
        BY <3>1
      <3>3. Maker[b] \notin g.scheduled
        BY <2>2 DEF Unscheduled, Matches
      <3>4. Of(n) \in Readers(g)
        BY <3>2, <3>3, ScheduledNode
      <3>5. ins[n] = List(g, Of(n))
        BY <3>4, NodeList
      <3>6. <<Of(n), k>> \in Edges(g) /\ Arg(g, <<Of(n), k>>) = b
        BY <3>2, <3>3, <3>4, <3>5, EdgeMade
      <3>7. Of(n) = Sync \/ Of(n) \in P
        BY <3>1 DEF Of
      <3> QED
        BY <2>2, <3>6, <3>7 DEF Closed, To
    <2> QED
      BY <2>1, <2>2 DEF Closed
  <1>2. Needed = {p \in Prim : \A P \in SUBSET Prim : Shut(P) => p \in P}
    BY DEF Needed
  <1> QED
    BY <1>1, <1>2 DEF Need

-----------------------------------------------------------------------------
(* The depth-first walk.                                                     *)
LEMMA InitInv == Init => IInv
  <1> SUFFICES ASSUME Init PROVE IInv
    OBVIOUS
  <1>1. PICK g \in Graphs :
          /\ ins = [n \in Node |-> IF n = Sync THEN g.outputs ELSE g.inputs[Maker[n]]]
          /\ scheduled = g.scheduled /\ tracer = g.tracer
    BY DEF Init
  <1>2. Sync \in Node /\ Array \subseteq Node /\ \A b \in Array : b # Sync /\ Maker[b] \in Prim
    BY GraphTapeAssumption DEF Node
  <1>3. Matches(g)
    <2>1. \A n \in Node : n # Sync => n \in Array
      BY DEF Node
    <2>2. g.outputs \in Seq(Array) /\ g.inputs \in [Prim -> Seq(Array)]
      BY GraphType
    <2>3. \A n \in Node : (IF n = Sync THEN g.outputs ELSE g.inputs[Maker[n]]) \in Seq(Array)
      BY <1>2, <2>1, <2>2
    <2>4. ins \in [Node -> Seq(Array)]
      BY <1>1, <2>3
    <2> QED
      BY <1>1, <1>2, <2>4 DEF Matches
  <1>4. PICK k \in 1..Len(ins[Sync]) : home = StreamOf[Maker[ins[Sync][k]]]
    BY DEF Init
  <1>5. ins[Sync] \in Seq(Array) /\ Len(ins[Sync]) \in Nat
    BY <1>2, <1>3 DEF Matches
  <1>6. home \in Stream
    <2>1. ins[Sync][k] \in Array
      BY <1>5
    <2> QED
      BY <1>4, <2>1, GraphTapeAssumption
  <1>7. /\ stack \in Seq(Node \X Nat) /\ Len(stack) = 1 /\ stack[1][1] = Sync /\ stack[1][2] = 0
        /\ cache = <<>> /\ DOMAIN cache = {} /\ tape = <<>> /\ Len(tape) = 0 /\ i = 0
        /\ cur = Sync /\ j = 0 /\ fences = {} /\ phase = "count"
    BY <1>2 DEF Init
  <1>8. Typed
    <2>1. tape \in Seq(Node) /\ i \in 0..Len(tape)
      BY <1>7
    <2>2. \A l, m \in 1..Len(stack) : Of(stack[l][1]) = Of(stack[m][1]) => l = m
      BY <1>7
    <2>3. \A m \in 1..Len(stack) : stack[m][2] <= Len(ins[stack[m][1]])
      BY <1>5, <1>7
    <2>4. width \in Widths
      BY DEF Init
    <2>5. j \in 0..Len(ins[cur])
      BY <1>5, <1>7
    <2>6. cur \in Node /\ home \in Stream
      BY <1>2, <1>6, <1>7
    <2> QED
      BY <1>7, <2>1, <2>2, <2>3, <2>4, <2>5, <2>6 DEF Typed
  <1>9. \A e \in Edges(g) : ~Looked(e)
    <2> SUFFICES ASSUME NEW e \in Edges(g), Looked(e)
                 PROVE  FALSE
      OBVIOUS
    <2>1. e[1] = Sync
      BY <1>7 DEF Looked, Seen
    <2>2. Of(stack[1][1]) = e[1]
      BY <1>7, <2>1 DEF Of
    <2>3. e[2] \in Nat \ {0}
      BY EdgeShape
    <2>4. e[2] <= stack[1][2]
      BY <1>7, <2>2 DEF Looked, Behind
    <2> QED
      BY <1>7, <2>3, <2>4
  <1>10. fences = FencesOf(g, LookedAt(g))
    BY <1>7, <1>9 DEF FencesOf, LookedAt
  <1>11. Counting(g)
    BY <1>7, <1>9, <1>10 DEF Counting, Seen
  <1> QED
    BY <1>3, <1>7, <1>8, <1>11 DEF WInv, IInv

LEMMA SetTopIs ==
  ASSUME stack \in Seq(Node \X Nat), NEW h \in Nat \ {0}, h = Len(stack), NEW k \in Nat
  PROVE  /\ SetTop(k) \in Seq(Node \X Nat) /\ Len(SetTop(k)) = h
         /\ \A m \in 1..h : SetTop(k)[m] = IF m = h THEN <<stack[h][1], k>> ELSE stack[m]
  <1>1. ASSUME NEW t \in Node \X Nat
        PROVE  [t EXCEPT ![2] = k] = <<t[1], k>>
    OBVIOUS
  <1>2. stack[h] \in Node \X Nat
    OBVIOUS
  <1>3. PICK t : t = [stack[h] EXCEPT ![2] = k]
    OBVIOUS
  <1>4. t = <<stack[h][1], k>> /\ t \in Node \X Nat
    BY <1>1, <1>2, <1>3
  <1>5. SetTop(k) = [stack EXCEPT ![h] = t]
    BY <1>3 DEF SetTop
  <1> QED
    BY <1>4, <1>5

(* Looking at one more input looks at one more edge, or at none when that    *)
(* input has been scheduled.                                                 *)
LEMMA CountLooks ==
  ASSUME NEW g \in Graphs, WInv(g), CountInput,
         NEW r, r = Of(Top[1]), NEW k, k = Top[2] + 1, NEW b, b = ins[Top[1]][k]
  PROVE  /\ Len(stack) \in Nat \ {0} /\ Top[1] \in Node /\ k \in Nat \ {0}
         /\ k \in 1..Len(ins[Top[1]]) /\ b \in Array
         /\ r = Sync \/ r \in Seen
         /\ Seen' = Seen \cup {Maker[b]}
         /\ \A e \in Edges(g) : Looked(e)' <=> Looked(e) \/ e = <<r, k>>
         /\ ~Looked(<<r, k>>)
         /\ Typed'
         /\ \A x \in Array : Maker[x] \in Seen' => x \in DOMAIN cache'
         /\ \A m \in 1..Len(stack') : stack'[m][1] # Sync => stack'[m][1] \in DOMAIN cache'
  <1>1. PICK h, n : h = Len(stack) /\ n = Top[1]
    OBVIOUS
  <1>2. h \in Nat \ {0} /\ stack \in Seq(Node \X Nat) /\ phase = "count" /\ Typed /\ Counting(g) /\ Matches(g)
    BY <1>1, EmptySeq DEF CountInput, WInv, Typed
  <1>3. stack[h] \in Node \X Nat /\ Top = stack[h] /\ n \in Node /\ Top[2] \in Nat /\ stack[h][1] = n
        /\ stack[h][2] = k - 1
    BY <1>1, <1>2 DEF Top
  <1>4. ins[n] \in Seq(Array) /\ Len(ins[n]) \in Nat
    BY <1>2, <1>3 DEF Matches
  <1>5. k \in 1..Len(ins[n]) /\ b \in Array /\ k \in Nat \ {0}
    BY <1>1, <1>3, <1>4 DEF CountInput
  <1>6. PICK rest : rest = SetTop(k)
    OBVIOUS
  <1>7. /\ rest \in Seq(Node \X Nat) /\ Len(rest) = h
        /\ \A m \in 1..h : m # h => rest[m] = stack[m]
        /\ rest[h][1] = n /\ rest[h][2] = k
    <2>1. rest \in Seq(Node \X Nat) /\ Len(rest) = h /\ \A m \in 1..h : rest[m] = IF m = h THEN <<n, k>> ELSE stack[m]
      <3>1. stack \in Seq(Node \X Nat) /\ h \in Nat \ {0} /\ h = Len(stack) /\ k \in Nat
        BY <1>1, <1>2, <1>5
      <3>2. /\ SetTop(k) \in Seq(Node \X Nat) /\ Len(SetTop(k)) = h
            /\ \A m \in 1..h : SetTop(k)[m] = IF m = h THEN <<stack[h][1], k>> ELSE stack[m]
        BY <3>1, SetTopIs
      <3> QED
        BY <1>3, <1>6, <3>2
    <2> QED
      BY <1>2, <2>1
  <1>8. /\ stack' = IF b \in DOMAIN cache THEN rest ELSE Append(rest, <<b, 0>>)
        /\ cache' = Counted(b) /\ phase' = "count"
        /\ UNCHANGED <<graph, tape, i, cur, j>>
    BY <1>1, <1>2, <1>6 DEF CountInput
  <1>9. DOMAIN cache' = DOMAIN cache \cup Siblings(b) /\ b \in Siblings(b) /\ DOMAIN cache \subseteq Array
    BY <1>2, <1>5, <1>8 DEF Counted, Siblings, Typed
  <1>10. Seen' = Seen \cup {Maker[b]}
    BY <1>9 DEF Seen, Siblings
  <1>11. r = Sync \/ r \in Seen
    <2>1. n = Sync \/ n \in DOMAIN cache
      BY <1>1, <1>2, <1>3 DEF Counting
    <2> QED
      BY <1>1, <2>1 DEF Of, Seen
  <1>12. ~Looked(<<r, k>>)
    <2>1. Of(stack[h][1]) = r /\ h \in 1..Len(stack) /\ ~ (k <= stack[h][2])
      BY <1>1, <1>2, <1>3, <1>5
    <2> QED
      BY <2>1 DEF Looked, Behind
  <1>13. /\ stack' \in Seq(Node \X Nat)
         /\ Len(stack') = IF b \in DOMAIN cache THEN h ELSE h + 1
         /\ \A m \in 1..h : /\ stack'[m][1] = stack[m][1]
                            /\ stack'[m][2] = IF m = h THEN k ELSE stack[m][2]
         /\ b \notin DOMAIN cache => stack'[h + 1] = <<b, 0>>
    <2>1. <<b, 0>> \in Node \X Nat
      BY <1>5 DEF Node
    <2>2. CASE b \in DOMAIN cache
      BY <1>2, <1>3, <1>7, <1>8, <2>2
    <2>3. CASE b \notin DOMAIN cache
      <3>1. stack' = Append(rest, <<b, 0>>)
        BY <1>8, <2>3
      <3>2. /\ stack' \in Seq(Node \X Nat) /\ Len(stack') = h + 1
            /\ stack'[h + 1] = <<b, 0>> /\ \A m \in 1..h : stack'[m] = rest[m]
        BY <1>2, <1>7, <2>1, <3>1
      <3>3. ASSUME NEW m \in 1..h
            PROVE  /\ stack'[m][1] = stack[m][1]
                   /\ stack'[m][2] = IF m = h THEN k ELSE stack[m][2]
        <4>1. stack'[m] = rest[m]
          BY <3>2
        <4>2. CASE m = h
          BY <1>3, <1>7, <4>1, <4>2
        <4>3. CASE m # h
          BY <1>7, <4>1, <4>3
        <4> QED
          BY <4>2, <4>3
      <3> QED
        BY <2>3, <3>2, <3>3
    <2> QED
      BY <2>2, <2>3
  <1>14. b \notin DOMAIN cache => Maker[b] \notin Seen /\ Maker[b] # Sync /\ Of(b) = Maker[b]
    BY <1>2, <1>5, GraphTapeAssumption DEF Counting, Of
  <1>15. /\ \A l, m \in 1..h : Of(stack[l][1]) = Of(stack[m][1]) => l = m
         /\ \A m \in 1..h : Of(stack[m][1]) = Sync \/ Of(stack[m][1]) \in Seen
    <2>1. \A m \in 1..h : stack[m][1] = Sync \/ stack[m][1] \in DOMAIN cache
      BY <1>1, <1>2 DEF Counting
    <2> QED
      BY <1>1, <1>2, <2>1 DEF Typed, Of, Seen
  <1>16. ASSUME NEW e \in Edges(g)
         PROVE  Looked(e)' <=> Looked(e) \/ e = <<r, k>>
    <2>1. e = <<e[1], e[2]>> /\ e[2] \in Nat \ {0}
      BY EdgeShape
    <2>2. CASE e[1] = r
      <3>1. Of(stack[h][1]) = r /\ h \in 1..h
        BY <1>1, <1>2, <1>3
      <3>2. Looked(e) <=> e[2] <= k - 1
        BY <1>1, <1>2, <1>3, <1>11, <1>15, <2>2, <3>1 DEF Looked, Behind
      <3>3. \A m \in 1..Len(stack') : m # h => Of(stack'[m][1]) # r
        <4> SUFFICES ASSUME NEW m \in 1..Len(stack'), m # h
                     PROVE  Of(stack'[m][1]) # r
          OBVIOUS
        <4>1. CASE m \in 1..h
          BY <1>13, <1>15, <3>1, <4>1
        <4>2. CASE m \notin 1..h
          <5>1. b \notin DOMAIN cache /\ m = h + 1
            BY <1>2, <1>13, <4>2
          <5> QED
            BY <1>11, <1>13, <1>14, <5>1
        <4> QED
          BY <4>1, <4>2
      <3>4. h \in 1..Len(stack') /\ Of(stack'[h][1]) = r /\ stack'[h][2] = k
        BY <1>2, <1>13, <3>1
      <3>5. Looked(e)' <=> e[2] <= k
        BY <1>10, <1>11, <2>2, <3>3, <3>4 DEF Looked, Behind
      <3>6. e = <<r, k>> <=> e[2] = k
        BY <2>1, <2>2
      <3> QED
        BY <1>5, <2>1, <3>2, <3>5, <3>6
    <2>3. CASE e[1] # r /\ e[1] = Maker[b] /\ b \notin DOMAIN cache
      <3>1. ~Looked(e)
        BY <1>14, <2>3 DEF Looked
      <3>2. h + 1 \in 1..Len(stack') /\ Of(stack'[h + 1][1]) = e[1] /\ stack'[h + 1][2] = 0
        BY <1>2, <1>13, <1>14, <2>3
      <3>3. ~ Looked(e)'
        BY <2>1, <3>2 DEF Looked, Behind
      <3>4. e # <<r, k>>
        BY <2>1, <2>3
      <3> QED
        BY <3>1, <3>3, <3>4
    <2>4. CASE e[1] # r /\ ~ (e[1] = Maker[b] /\ b \notin DOMAIN cache)
      <3>1. e # <<r, k>>
        BY <2>1, <2>4
      <3>2. e[1] \in Seen' <=> e[1] \in Seen
        BY <1>10, <2>4 DEF Seen
      <3>3. Behind(e)' <=> Behind(e)
        <4>1. ASSUME NEW m \in 1..h
              PROVE  /\ Of(stack'[m][1]) = Of(stack[m][1])
                     /\ Of(stack[m][1]) = e[1] => stack'[m][2] = stack[m][2]
          <5>1. Of(stack[h][1]) # e[1]
            BY <1>1, <1>3, <2>4
          <5> QED
            BY <1>13, <5>1
        <4>2. CASE b \in DOMAIN cache
          BY <1>1, <1>13, <4>1, <4>2 DEF Behind
        <4>3. CASE b \notin DOMAIN cache
          <5>1. Of(stack'[h + 1][1]) # e[1]
            BY <1>13, <1>14, <2>4, <4>3
          <5>2. \A m \in 1..Len(stack') : m \in 1..h \/ m = h + 1
            BY <1>2, <1>13
          <5>3. \A m \in 1..h : m \in 1..Len(stack')
            BY <1>2, <1>13
          <5>4. Behind(e)' <=> \A m \in 1..h : Of(stack'[m][1]) = e[1] => e[2] <= stack'[m][2]
            <6>1. Behind(e)' <=> \A m \in 1..Len(stack') : Of(stack'[m][1]) = e[1] => e[2] <= stack'[m][2]
              BY DEF Behind, Of
            <6>2. ASSUME \A m \in 1..h : Of(stack'[m][1]) = e[1] => e[2] <= stack'[m][2],
                         NEW m \in 1..Len(stack'), Of(stack'[m][1]) = e[1]
                  PROVE  e[2] <= stack'[m][2]
              BY <5>1, <5>2, <6>2
            <6> QED
              BY <5>3, <6>1, <6>2
          <5>5. Behind(e) <=> \A m \in 1..h : Of(stack[m][1]) = e[1] => e[2] <= stack[m][2]
            BY <1>1, Zenon DEF Behind
          <5>6. ASSUME NEW m \in 1..h
                PROVE  (Of(stack'[m][1]) = e[1] => e[2] <= stack'[m][2])
                         <=> (Of(stack[m][1]) = e[1] => e[2] <= stack[m][2])
            <6>1. Of(stack'[m][1]) = Of(stack[m][1]) /\ (Of(stack[m][1]) = e[1] => stack'[m][2] = stack[m][2])
              BY <4>1
            <6> QED
              BY <6>1
          <5> QED
            BY <5>4, <5>5, <5>6
        <4> QED
          BY <4>2, <4>3
      <3> QED
        BY <3>1, <3>2, <3>3 DEF Looked
    <2> QED
      BY <2>2, <2>3, <2>4
  <1>17. Typed'
    <2>1. \A l, m \in 1..Len(stack') : Of(stack'[l][1]) = Of(stack'[m][1]) => l = m
      <3> SUFFICES ASSUME NEW l \in 1..Len(stack'), NEW m \in 1..Len(stack'),
                          Of(stack'[l][1]) = Of(stack'[m][1])
                   PROVE  l = m
        OBVIOUS
      <3>1. \A x \in 1..Len(stack') :
              \/ x \in 1..h /\ stack'[x][1] = stack[x][1]
              \/ x = h + 1 /\ Of(stack'[x][1]) # Sync /\ Of(stack'[x][1]) \notin Seen
        BY <1>2, <1>13, <1>14
      <3> QED
        BY <1>15, <3>1
    <2>2. ASSUME NEW m \in 1..Len(stack')
          PROVE  stack'[m][2] <= Len(ins'[stack'[m][1]])
      <3>1. ins' = ins
        BY <1>8 DEF graph
      <3>2. CASE m \in 1..h
        <4>1. stack[m][2] <= Len(ins[stack[m][1]]) /\ stack'[m][1] = stack[m][1]
          BY <1>1, <1>2, <1>13, <3>2 DEF Typed
        <4>2. CASE m = h
          <5>1. stack'[m][1] = n /\ stack'[m][2] = k
            BY <1>3, <1>13, <3>2, <4>2
          <5> QED
            BY <1>4, <1>5, <3>1, <5>1
        <4>3. CASE m # h
          <5>1. stack'[m][2] = stack[m][2]
            BY <1>13, <3>2, <4>3
          <5> QED
            BY <3>1, <4>1, <5>1
        <4> QED
          BY <4>2, <4>3
      <3>3. CASE m = h + 1
        <4>1. b \notin DOMAIN cache
          BY <1>2, <1>13, <3>3
        <4>2. stack'[m] = <<b, 0>>
          BY <1>13, <3>3, <4>1
        <4>3. ins[b] \in Seq(Array)
          BY <1>2, <1>5 DEF Matches, Node
        <4>4. Len(ins[b]) \in Nat
          BY <4>3
        <4> QED
          BY <3>1, <4>2, <4>4
      <3> QED
        BY <1>2, <1>13, <3>2, <3>3
    <2>3. DOMAIN cache' \subseteq Array
      BY <1>9 DEF Siblings
    <2>4. \A x \in DOMAIN cache' : cache'[x] \in Nat \ {0}
      BY <1>2, <1>8, <1>9 DEF Counted, Typed
    <2> QED
      BY <1>2, <1>8, <1>13, <2>1, <2>2, <2>3, <2>4 DEF Typed, graph
  <1>18. \A x \in Array : Maker[x] \in Seen' => x \in DOMAIN cache'
    BY <1>2, <1>9, <1>10 DEF Siblings, Counting
  <1>19. \A m \in 1..Len(stack') : stack'[m][1] # Sync => stack'[m][1] \in DOMAIN cache'
    <2> SUFFICES ASSUME NEW m \in 1..Len(stack'), stack'[m][1] # Sync
                 PROVE  stack'[m][1] \in DOMAIN cache'
      OBVIOUS
    <2>1. CASE m \in 1..h
      BY <1>1, <1>2, <1>9, <1>13, <2>1 DEF Counting
    <2>2. CASE m = h + 1
      BY <1>2, <1>9, <1>13, <2>2
    <2> QED
      BY <1>2, <1>13, <2>1, <2>2
  <1> QED
    BY <1>1, <1>2, <1>3, <1>5, <1>10, <1>11, <1>12, <1>16, <1>17, <1>18, <1>19

LEMMA CountStep ==
  ASSUME NEW g \in Graphs, WInv(g), CountInput
  PROVE  WInv(g)'
  <1>1. PICK n, r, k, b : n = Top[1] /\ r = Of(Top[1]) /\ k = Top[2] + 1 /\ b = ins[Top[1]][k]
    OBVIOUS
  <1>2. /\ Len(stack) \in Nat \ {0} /\ n \in Node /\ k \in Nat \ {0}
        /\ k \in 1..Len(ins[n]) /\ b \in Array
        /\ r = Sync \/ r \in Seen
        /\ Seen' = Seen \cup {Maker[b]}
        /\ \A e \in Edges(g) : Looked(e)' <=> Looked(e) \/ e = <<r, k>>
        /\ ~Looked(<<r, k>>)
        /\ Typed'
        /\ \A x \in Array : Maker[x] \in Seen' => x \in DOMAIN cache'
        /\ \A m \in 1..Len(stack') : stack'[m][1] # Sync => stack'[m][1] \in DOMAIN cache'
    BY <1>1, CountLooks
  <1>3. phase = "count" /\ phase' = "count" /\ Matches(g) /\ Typed /\ Counting(g)
    BY DEF CountInput, WInv
  <1>4. cache' = Counted(b) /\ fences' = Fenced(n, b)
        /\ UNCHANGED <<ins, scheduled, tracer, home, tape, i, cur, j>>
    BY <1>1 DEF CountInput, graph
  <1>5. Matches(g)' /\ scheduled = g.scheduled
    BY <1>3, <1>4 DEF Matches
  <1>6. PICK e0 : e0 = <<r, k>>
    OBVIOUS
  <1>7. ASSUME Maker[b] \notin g.scheduled
        PROVE  e0 \in Edges(g) /\ Arg(g, e0) = b /\ To(g, e0) = Maker[b] /\ InCall(g, r)
    <2>1. r \in Readers(g)
      BY <1>1, <1>2, <1>3, <1>7, ScheduledNode
    <2>2. ins[n] = List(g, r)
      BY <1>1, <1>2, <1>3, <2>1, NodeList
    <2>3. e0 \in Edges(g) /\ Arg(g, e0) = b
      BY <1>1, <1>2, <1>6, <1>7, <2>1, <2>2, EdgeMade
    <2>4. ASSUME r # Sync
          PROVE  r \in Need(g)
      <3>1. PICK x \in DOMAIN cache : Maker[x] = r
        BY <1>2, <2>4 DEF Seen
      <3>2. Maker[x] \notin g.scheduled
        BY <2>1, <2>4, <3>1 DEF Readers
      <3> QED
        BY <1>3, <3>1, <3>2 DEF Counting
    <2> QED
      BY <2>3, <2>4 DEF To, InCall
  <1>8. ASSUME e0 \in Edges(g)
        PROVE  Maker[b] \notin g.scheduled
    <2>1. e0[1] = r /\ e0[2] = k /\ r \in Readers(g) /\ To(g, e0) \notin g.scheduled
      BY <1>6, <1>8, EdgeShape
    <2>2. ins[n] = List(g, r)
      BY <1>1, <1>2, <1>3, <2>1, NodeList
    <2> QED
      BY <1>1, <2>1, <2>2 DEF To, Arg
  <1>9. Maker[b] \notin g.scheduled => Maker[b] \in Need(g)
    <2> SUFFICES ASSUME Maker[b] \notin g.scheduled
                 PROVE  Maker[b] \in Need(g)
      OBVIOUS
    <2>1. e0 \in Edges(g) /\ To(g, e0) = Maker[b] /\ InCall(g, e0[1])
      BY <1>6, <1>7
    <2> QED
      BY <2>1, NeedClosed
  <1>10. ASSUME NEW x \in DOMAIN cache', Maker[x] \notin g.scheduled
         PROVE  Maker[x] \in Need(g) /\ cache'[x] = Cardinality(LookedTo(g, Maker[x])')
    <2>1. DOMAIN cache' = DOMAIN cache \cup Siblings(b) /\ DOMAIN cache \subseteq Array
      BY <1>3, <1>4 DEF Counted, Typed
    <2>2. PICK old, new : old = LookedTo(g, Maker[x]) /\ new = LookedTo(g, Maker[x])'
      OBVIOUS
    <2>3. IsFiniteSet(old) /\ Cardinality(old) \in Nat
      <3>1. old \in SUBSET Edges(g)
        BY <2>2 DEF LookedTo
      <3>2. IsFiniteSet(old)
        BY <3>1, EdgesFinite, FS_Subset
      <3> QED
        BY <3>2, FS_CardinalityType
    <2>4. CASE Maker[x] = Maker[b]
      <3>1. e0 \in Edges(g) /\ To(g, e0) = Maker[x]
        BY <1>7, <1>10, <2>4
      <3>2. new = old \cup {e0} /\ e0 \notin old
        BY <1>2, <1>6, <2>2, <3>1 DEF LookedTo
      <3>3. Cardinality(new) = Cardinality(old) + 1
        BY <2>3, <3>2, FS_AddElement
      <3>4. x \in Array /\ x \in Siblings(b)
        BY <2>1, <2>4 DEF Siblings
      <3>5. CASE x \in DOMAIN cache
        <4>1. cache[x] = Cardinality(old)
          BY <1>3, <1>10, <2>2, <3>5 DEF Counting
        <4>2. cache'[x] = cache[x] + 1
          BY <1>4, <2>1, <3>4, <3>5 DEF Counted
        <4> QED
          BY <1>9, <1>10, <2>2, <2>4, <3>3, <4>1, <4>2
      <3>6. CASE x \notin DOMAIN cache
        <4>1. Maker[x] \notin Seen
          BY <1>3, <3>4, <3>6 DEF Counting
        <4>2. old = {}
          BY <1>3, <2>2, <4>1 DEF LookedTo, Counting
        <4>3. cache'[x] = 1
          BY <1>4, <2>1, <3>4, <3>6 DEF Counted
        <4>4. Cardinality(old) = 0
          BY <4>2, FS_EmptySet
        <4> QED
          BY <1>9, <1>10, <2>2, <2>4, <3>3, <4>3, <4>4
      <3> QED
        BY <3>5, <3>6
    <2>5. CASE Maker[x] # Maker[b]
      <3>1. x \in DOMAIN cache /\ x \notin Siblings(b)
        BY <2>1, <2>5 DEF Siblings
      <3>2. cache'[x] = cache[x]
        BY <1>4, <2>1, <3>1 DEF Counted
      <3>3. ~ (e0 \in Edges(g) /\ To(g, e0) = Maker[x])
        BY <1>7, <1>8, <2>5
      <3>4. new = old
        BY <1>2, <1>6, <2>2, <3>3 DEF LookedTo
      <3> QED
        BY <1>3, <1>10, <2>2, <3>1, <3>2, <3>4 DEF Counting
    <2> QED
      BY <2>4, <2>5
  <1>11. ASSUME NEW e \in Edges(g), Looked(e)'
         PROVE  To(g, e) \in Seen'
    <2>1. CASE e = e0
      BY <1>2, <1>7, <1>8, <2>1
    <2>2. CASE e # e0
      BY <1>2, <1>3, <1>6, <1>11, <2>2 DEF Counting
    <2> QED
      BY <2>1, <2>2
  <1>12. fences' = FencesOf(g, LookedAt(g))'
    <2>1. FencesOf(g, LookedAt(g))' = {Arg(g, e) : e \in {x \in LookedAt(g)' : StreamAt(x[1]) # StreamOf[To(g, x)]}}
      BY <1>4 DEF FencesOf, StreamAt
    <2>2. fences = {Arg(g, e) : e \in {x \in LookedAt(g) : StreamAt(x[1]) # StreamOf[To(g, x)]}}
      BY <1>3 DEF Counting, FencesOf
    <2>3. NodeStream(n) = StreamAt(r) /\ NodeStream(b) = StreamOf[Maker[b]]
      BY <1>1, <1>2, GraphTapeAssumption DEF NodeStream, StreamAt, Of, Node
    <2>4. CASE Maker[b] \notin g.scheduled
      <3>1. LookedAt(g)' = LookedAt(g) \cup {e0}
        BY <1>2, <1>6, <1>7, <2>4 DEF LookedAt
      <3>2. fences' = IF StreamAt(r) # StreamOf[Maker[b]] THEN fences \cup {b} ELSE fences
        BY <1>4, <1>5, <2>3, <2>4 DEF Fenced, Unscheduled
      <3>3. e0[1] = r /\ Arg(g, e0) = b /\ To(g, e0) = Maker[b]
        BY <1>6, <1>7, <2>4
      <3> QED
        BY <2>1, <2>2, <3>1, <3>2, <3>3
    <2>5. CASE Maker[b] \in g.scheduled
      <3>1. LookedAt(g)' = LookedAt(g)
        BY <1>2, <1>6, <1>8, <2>5 DEF LookedAt
      <3>2. fences' = fences
        BY <1>4, <1>5, <2>5 DEF Fenced, Unscheduled
      <3> QED
        BY <2>1, <2>2, <3>1, <3>2
    <2> QED
      BY <2>4, <2>5
  <1>13. Counting(g)'
    BY <1>2, <1>3, <1>4, <1>10, <1>11, <1>12 DEF Counting
  <1> QED
    BY <1>2, <1>3, <1>5, <1>13 DEF WInv

LEMMA LeaveStep ==
  ASSUME NEW g \in Graphs, WInv(g), LeaveNode
  PROVE  WInv(g)'
  <1>1. PICK h, n : h = Len(stack) /\ n = Top[1]
    OBVIOUS
  <1>2. h \in Nat \ {0} /\ stack \in Seq(Node \X Nat) /\ phase = "count" /\ phase' = "count"
        /\ Typed /\ Counting(g) /\ Matches(g)
    BY <1>1, EmptySeq DEF LeaveNode, WInv, Typed
  <1>3. n \in Node /\ stack[h][1] = n /\ stack[h][2] = Len(ins[n]) /\ h \in 1..h
    BY <1>1, <1>2 DEF Top, LeaveNode
  <1>4. stack' \in Seq(Node \X Nat) /\ Len(stack') = h - 1 /\ \A m \in 1..(h - 1) : stack'[m] = stack[m]
    <2>1. stack' = SubSeq(stack, 1, h - 1)
      BY <1>1 DEF LeaveNode, Pop
    <2> QED
      BY <1>1, <1>2, <2>1
  <1>5. UNCHANGED <<scheduled, tracer, home, width, cache, fences, tape, i, cur, j>>
    BY DEF LeaveNode
  <1>6. ASSUME NEW x \in Node
        PROVE  ins'[x] = ins[x] \/ (n # Sync /\ x \in Array /\ Maker[x] = Maker[n] /\ Maker[n] \in scheduled /\ ins'[x] = <<>>)
    BY <1>1, <1>2 DEF LeaveNode, Siblings, Unscheduled, Matches
  <1>7. Matches(g)'
    <2>1. ins' \in [Node -> Seq(Array)]
      <3>1. \A x \in Node : ins[x] \in Seq(Array)
        BY <1>2 DEF Matches
      <3>2. \A x \in Node : (IF x # Sync /\ x \in Siblings(Top[1]) THEN <<>> ELSE ins[x]) \in Seq(Array)
        BY <3>1
      <3> QED
        BY <1>2, <3>2 DEF LeaveNode, Matches
    <2>2. ins'[Sync] = ins[Sync]
      BY <1>6, GraphTapeAssumption DEF Node
    <2>3. \A b \in Array : ins'[b] = g.inputs[Maker[b]] \/ (ins'[b] = <<>> /\ Maker[b] \in scheduled)
      BY <1>2, <1>6 DEF Matches, Node
    <2> QED
      BY <1>2, <1>5, <2>1, <2>2, <2>3 DEF Matches
  <1>8. \A m \in 1..(h - 1) : Of(stack[m][1]) # Of(n)
    <2>1. \A m \in 1..(h - 1) : m \in 1..h /\ m # h
      BY <1>2
    <2> QED
      BY <1>1, <1>2, <1>3, <2>1 DEF Typed
  <1>9. Typed'
    <2>1. \A l, m \in 1..(h - 1) : Of(stack[l][1]) = Of(stack[m][1]) => l = m
      <3>1. \A m \in 1..(h - 1) : m \in 1..h
        BY <1>2
      <3> QED
        BY <1>1, <1>2, <3>1 DEF Typed
    <2>2. ASSUME NEW m \in 1..(h - 1)
          PROVE  stack'[m][2] <= Len(ins'[stack'[m][1]])
      <3>0. m \in 1..h
        BY <1>2
      <3>1. m \in 1..h /\ stack[m] \in Node \X Nat /\ stack'[m] = stack[m] /\ Of(stack[m][1]) # Of(n)
        BY <1>1, <1>2, <1>4, <1>8, <3>0
      <3>2. stack[m][2] <= Len(ins[stack[m][1]])
        BY <1>1, <1>2, <3>1 DEF Typed
      <3>3. ins'[stack[m][1]] = ins[stack[m][1]]
        BY <1>6, <3>1, GraphTapeAssumption DEF Of
      <3> QED
        BY <3>1, <3>2, <3>3
    <2>3. cur = Sync /\ j = 0 /\ ins'[Sync] \in Seq(Array)
      BY <1>2, <1>7 DEF Counting, Matches, Node
    <2>4. cur' = cur /\ j' = 0 /\ j' \in 0..Len(ins'[cur'])
      BY <1>5, <2>3
    <2> QED
      BY <1>2, <1>4, <1>5, <2>1, <2>2, <2>4 DEF Typed
  <1>10. Seen' = Seen
    BY <1>5 DEF Seen
  <1>11. ASSUME NEW e \in Edges(g)
         PROVE  Behind(e)' <=> Behind(e)
    <2>1. Behind(e)' <=> \A m \in 1..(h - 1) : Of(stack[m][1]) = e[1] => e[2] <= stack[m][2]
      BY <1>4 DEF Behind
    <2>2. Of(n) = e[1] => e[2] <= Len(ins[n])
      <3> SUFFICES ASSUME Of(n) = e[1]
                   PROVE  e[2] <= Len(ins[n])
        OBVIOUS
      <3>1. Of(n) \in Readers(g) /\ e[2] \in 1..Len(List(g, Of(n)))
        BY EdgeShape
      <3>2. ins[n] = List(g, Of(n))
        BY <1>2, <1>3, <3>1, NodeList
      <3>3. Len(ins[n]) \in Nat
        BY <1>2, <1>3 DEF Matches
      <3> QED
        BY <3>1, <3>2, <3>3
    <2>3. \A m \in 1..h : m \in 1..(h - 1) \/ m = h
      BY <1>2
    <2>4. \A m \in 1..(h - 1) : m \in 1..h
      BY <1>2
    <2>5. Behind(e) <=> \A m \in 1..h : Of(stack[m][1]) = e[1] => e[2] <= stack[m][2]
      BY <1>1 DEF Behind
    <2> QED
      BY <1>3, <2>1, <2>2, <2>3, <2>4, <2>5
  <1>12. \A e \in Edges(g) : Looked(e)' <=> Looked(e)
    BY <1>10, <1>11 DEF Looked
  <1>13. LookedAt(g)' = LookedAt(g) /\ \A p : LookedTo(g, p)' = LookedTo(g, p)
    BY <1>12 DEF LookedAt, LookedTo
  <1>14. FencesOf(g, LookedAt(g))' = FencesOf(g, LookedAt(g))
    BY <1>5, <1>13 DEF FencesOf, StreamAt
  <1>15. \A b \in DOMAIN cache : LookedTo(g, Maker[b])' = LookedTo(g, Maker[b])
    BY <1>12 DEF LookedTo
  <1>16. \A m \in 1..Len(stack') : stack'[m][1] # Sync => stack'[m][1] \in DOMAIN cache
    <2>1. \A m \in 1..(h - 1) : m \in 1..h
      BY <1>2
    <2>2. \A m \in 1..h : stack[m][1] # Sync => stack[m][1] \in DOMAIN cache
      BY <1>1, <1>2 DEF Counting
    <2> QED
      BY <1>4, <2>1, <2>2
  <1>17. Counting(g)'
    BY <1>2, <1>5, <1>10, <1>12, <1>14, <1>15, <1>16 DEF Counting
  <1> QED
    BY <1>2, <1>7, <1>9, <1>17 DEF WInv

(* Every edge from what is needed has been looked at when the walk ends, and *)
(* only what is needed has been seen.                                        *)
LEMMA StartStep ==
  ASSUME NEW g \in Graphs, WInv(g), StartTape
  PROVE  WInv(g)'
  <1>1. /\ phase = "count" /\ phase' = "pick" /\ stack = <<>> /\ Len(stack) = 0 /\ tape' = <<Sync>>
        /\ UNCHANGED <<ins, scheduled, tracer, home, width, stack, cache, fences, i, cur, j>>
        /\ Typed /\ Matches(g) /\ Counting(g) /\ i = 0
    BY DEF StartTape, WInv, graph, Counting
  <1>2. Sync \in Node /\ \A b \in Array : Maker[b] \in Prim /\ Maker[b] # Sync
    BY GraphTapeAssumption DEF Node
  <1>3. \A e \in Edges(g) : Looked(e) <=> e[1] = Sync \/ e[1] \in Seen
    BY <1>1 DEF Looked, Behind
  <1>4. PICK S : S = Seen \ g.scheduled
    OBVIOUS
  <1>5. S \in SUBSET Prim
    BY <1>1, <1>2, <1>4 DEF Seen, Typed
  <1>6. Closed(g, S)
    <2> SUFFICES ASSUME NEW e \in Edges(g), e[1] = Sync \/ e[1] \in S
                 PROVE  To(g, e) \in S
      BY DEF Closed
    <2>1. Looked(e) /\ To(g, e) \notin g.scheduled
      BY <1>3, <1>4, EdgeShape
    <2> QED
      BY <1>1, <1>4, <2>1 DEF Counting
  <1>7. Need(g) = S
    <2>1. Need(g) \subseteq S
      BY <1>5, <1>6 DEF Need
    <2>2. S \subseteq Need(g)
      BY <1>1, <1>4 DEF Counting, Seen
    <2> QED
      BY <2>1, <2>2
  <1>8. \A e \in Edges(g) : Looked(e) <=> InCall(g, e[1])
    <2> SUFFICES ASSUME NEW e \in Edges(g)
                 PROVE  Looked(e) <=> InCall(g, e[1])
      OBVIOUS
    <2>1. e[1] = Sync \/ e[1] \notin g.scheduled
      BY EdgeShape DEF Readers
    <2> QED
      BY <1>3, <1>4, <1>7, <2>1 DEF InCall
  <1>9. /\ tape' \in Seq(Node) /\ Len(tape') = 1 /\ tape'[1] = Sync /\ i' = 0 /\ Placed' = {}
    <2>1. tape' \in Seq(Node) /\ Len(tape') = 1 /\ tape'[1] = Sync
      BY <1>1, <1>2
    <2> QED
      BY <1>1, <2>1 DEF Placed
  <1>10. \A e \in Edges(g) : ~ Passed(e)'
    BY <1>9 DEF Passed
  <1>11. ASSUME NEW p
         PROVE  Ahead(g, p)' = LookedTo(g, p)
    BY <1>8, <1>10 DEF Ahead, LookedTo
  <1>12. Typed'
    BY <1>1, <1>9 DEF Typed
  <1>13. TapeShape(g)'
    <2>1. \A l, m \in 1..Len(tape') : l = m
      BY <1>9
    <2> QED
      BY <1>1, <1>9, <2>1 DEF TapeShape
  <1>14. Degrees(g)'
    <2>1. ASSUME NEW b \in Array, Maker[b] \notin g.scheduled
          PROVE  b \in DOMAIN cache' <=> Maker[b] \in Need(g)
      BY <1>1, <1>4, <1>7, <2>1 DEF Seen, Counting
    <2>2. ASSUME NEW b \in DOMAIN cache, Maker[b] \notin g.scheduled
          PROVE  cache[b] = Cardinality(Ahead(g, Maker[b])')
      <3>1. cache[b] = Cardinality(LookedTo(g, Maker[b]))
        BY <1>1, <2>2 DEF Counting
      <3>2. Ahead(g, Maker[b])' = LookedTo(g, Maker[b])
        BY <1>8, <1>10 DEF Ahead, LookedTo
      <3> QED
        BY <3>1, <3>2
    <2> QED
      BY <1>1, <1>9, <2>1, <2>2 DEF Degrees
  <1>15. fences' = FencesOf(g, {e \in Edges(g) : InCall(g, e[1])})'
    <2>1. LookedAt(g) = {e \in Edges(g) : InCall(g, e[1])}
      BY <1>8 DEF LookedAt
    <2> QED
      BY <1>1, <2>1 DEF FencesOf, Counting, StreamAt
  <1>16. Order(g)'
    BY <1>9 DEF Order
  <1>17. Matches(g)'
    BY <1>1 DEF Matches
  <1> QED
    BY <1>1, <1>12, <1>13, <1>14, <1>15, <1>16, <1>17 DEF WInv, Walking

-----------------------------------------------------------------------------
(* The breadth-first walk.                                                   *)
LEMMA WalkFacts ==
  ASSUME NEW g \in Graphs, WInv(g), phase # "count"
  PROVE  /\ Matches(g) /\ Typed /\ TapeShape(g) /\ Degrees(g) /\ Order(g)
         /\ fences = FencesOf(g, {e \in Edges(g) : InCall(g, e[1])})
         /\ Len(tape) \in Nat \ {0} /\ i \in Nat /\ i <= Len(tape) /\ j \in Nat
         /\ tape \in Seq(Node) /\ \A l \in 1..Len(tape) : tape[l] \in Node
         /\ \A l \in 1..i : l \in 1..Len(tape)
         /\ cur \in Node /\ ins[cur] \in Seq(Array) /\ Len(ins[cur]) \in Nat /\ j <= Len(ins[cur])
         /\ stack \in Seq(Node \X Nat) /\ Len(stack) \in Nat
  <1>1. Matches(g) /\ Typed /\ Walking(g)
    BY DEF WInv
  <1>2. tape \in Seq(Node) /\ Len(tape) \in Nat \ {0} /\ i \in 0..Len(tape) /\ cur \in Node
    BY <1>1 DEF Typed, Walking, TapeShape
  <1>3. ins[cur] \in Seq(Array) /\ Len(ins[cur]) \in Nat
    BY <1>1, <1>2 DEF Matches
  <1>4. j \in 0..Len(ins[cur]) /\ stack \in Seq(Node \X Nat)
    BY <1>1 DEF Typed
  <1> QED
    BY <1>1, <1>2, <1>3, <1>4 DEF Walking

(* A step that places nothing keeps the invariant if it passes no edge.      *)
LEMMA PassesNothing ==
  ASSUME NEW g \in Graphs, WInv(g), phase # "count", phase' # "count",
         UNCHANGED <<ins, scheduled, tracer, home, width, cache, fences, tape>>,
         \A e \in Edges(g) : Passed(e)' <=> Passed(e),
         Typed', TapeShape(g)', phase' = "done" => Need(g) \subseteq Placed
  PROVE  WInv(g)'
  <1>1. Matches(g) /\ Degrees(g) /\ Order(g) /\ fences = FencesOf(g, {e \in Edges(g) : InCall(g, e[1])})
    BY WalkFacts
  <1>2. Placed' = Placed
    BY DEF Placed
  <1>3. \A p \in Prim : Ahead(g, p)' = Ahead(g, p)
    BY DEF Ahead
  <1>4. \A b \in DOMAIN cache : Maker[b] \in Prim
    BY GraphTapeAssumption DEF WInv, Typed
  <1>5. Placed \subseteq Prim
    BY WalkFacts, GraphTapeAssumption DEF Placed, TapeShape
  <1>6. Degrees(g)'
    <2>1. \A b \in Array : Maker[b] \notin g.scheduled => (b \in DOMAIN cache' <=> Maker[b] \in Need(g) \ Placed')
      BY <1>1, <1>2 DEF Degrees
    <2>2. \A b \in DOMAIN cache' : Maker[b] \notin g.scheduled => cache'[b] = Cardinality(Ahead(g, Maker[b])')
      BY <1>1, <1>3, <1>4 DEF Degrees
    <2>3. \A p \in Placed' : Ahead(g, p)' = {}
      BY <1>1, <1>2, <1>3, <1>5 DEF Degrees
    <2> QED
      BY <2>1, <2>2, <2>3 DEF Degrees
  <1>7. Order(g)'
    BY <1>1 DEF Order
  <1>8. fences' = FencesOf(g, {e \in Edges(g) : InCall(g, e[1])})'
    BY <1>1 DEF FencesOf, StreamAt
  <1>9. Matches(g)'
    BY <1>1 DEF Matches
  <1> QED
    BY <1>2, <1>6, <1>7, <1>8, <1>9 DEF WInv, Walking

LEMMA PickFirstStep ==
  ASSUME NEW g \in Graphs, WInv(g), PickFirst
  PROVE  WInv(g)'
  <1>1. /\ phase = "pick" /\ phase' = "scan" /\ i < Len(tape) /\ i' = i + 1 /\ cur' = tape[i + 1] /\ j' = 0
        /\ UNCHANGED <<ins, scheduled, tracer, home, width, stack, cache, fences, tape>>
    BY DEF PickFirst, graph
  <1>2. /\ Matches(g) /\ Typed /\ TapeShape(g)
        /\ Len(tape) \in Nat \ {0} /\ i \in Nat /\ i <= Len(tape) /\ tape \in Seq(Node)
        /\ \A l \in 1..Len(tape) : tape[l] \in Node
    BY <1>1, WalkFacts
  <1>3. i + 1 \in 1..Len(tape) /\ cur' \in Node /\ \A l \in 1..i : l \in 1..(i + 1) /\ l \in 1..Len(tape) /\ l # i + 1
    BY <1>1, <1>2
  <1>4. ins[cur'] \in Seq(Array) /\ Len(ins[cur']) \in Nat
    BY <1>2, <1>3 DEF Matches
  <1>5. Typed'
    <2>1. i' \in 0..Len(tape') /\ j' \in 0..Len(ins'[cur'])
      BY <1>1, <1>2, <1>4
    <2>2. phase' \in {"count", "pick", "scan", "done"} /\ cur' \in Node
      BY <1>1, <1>3
    <2> QED
      BY <1>1, <1>2, <2>1, <2>2 DEF Typed
  <1>6. \A l \in 1..i : Of(tape[l]) # Of(cur')
    BY <1>1, <1>2, <1>3 DEF TapeShape
  <1>7. TapeShape(g)'
    <2>1. ASSUME NEW m \in 1..Len(stack)
          PROVE  Of(stack[m][1]) # Of(cur') /\ \E l \in 1..(i + 1) : tape[l] = stack[m][1]
      <3>1. PICK l \in 1..i : tape[l] = stack[m][1]
        BY <1>2 DEF TapeShape
      <3> QED
        BY <1>3, <1>6, <3>1
    <2>2. \E l \in 1..(i + 1) : tape[l] = cur'
      BY <1>1, <1>2
    <2> QED
      BY <1>1, <1>2, <2>1, <2>2 DEF TapeShape
  <1>8. ASSUME NEW e \in Edges(g)
        PROVE  Passed(e)' <=> Passed(e)
    <2>1. Behind(e)' <=> Behind(e)
      BY <1>1 DEF Behind
    <2>2. e[2] \in Nat \ {0}
      BY EdgeShape
    <2>3. CASE e[1] = Of(cur')
      BY <1>1, <1>6, <2>2, <2>3 DEF Passed
    <2>4. CASE e[1] # Of(cur')
      <3>1. (\E l \in 1..(i + 1) : Of(tape[l]) = e[1]) <=> (\E l \in 1..i : Of(tape[l]) = e[1])
        <4>1. \A l \in 1..(i + 1) : l \in 1..i \/ l = i + 1
          BY <1>2
        <4> QED
          BY <1>1, <1>3, <2>4, <4>1
      <3> QED
        BY <1>1, <2>1, <2>4, <3>1 DEF Passed
    <2> QED
      BY <2>3, <2>4
  <1> QED
    BY <1>1, <1>5, <1>7, <1>8, PassesNothing

(* To interrupt the scan of a node is to put it on the stack; to resume it   *)
(* is the converse.                                                          *)
LEMMA Pushed ==
  ASSUME NEW s \in Seq(Node \X Nat), NEW n \in Node, NEW k \in Nat,
         NEW t, t = Append(s, <<n, k>>), NEW h, h = Len(s)
  PROVE  /\ h \in Nat /\ t \in Seq(Node \X Nat) /\ Len(t) = h + 1
         /\ \A m \in 1..h : t[m] = s[m] /\ m \in 1..(h + 1) /\ m # h + 1
         /\ h + 1 \in 1..(h + 1) /\ t[h + 1][1] = n /\ t[h + 1][2] = k
         /\ \A m \in 1..(h + 1) : m \in 1..h \/ m = h + 1
  <1>1. <<n, k>> \in Node \X Nat
    OBVIOUS
  <1>2. t \in Seq(Node \X Nat) /\ Len(t) = h + 1 /\ h \in Nat
    BY <1>1
  <1>3. t[h + 1] = <<n, k>> /\ \A m \in 1..h : t[m] = s[m]
    BY <1>1
  <1> QED
    BY <1>2, <1>3

LEMMA InterruptStep ==
  ASSUME NEW g \in Graphs, WInv(g), Interrupt
  PROVE  WInv(g)'
  <1>1. /\ phase = "scan" /\ phase' = "pick" /\ stack' = Append(stack, <<cur, j>>)
        /\ UNCHANGED <<ins, scheduled, tracer, home, width, cache, fences, tape, i, cur, j>>
    BY DEF Interrupt, graph
  <1>2. /\ Matches(g) /\ Typed /\ TapeShape(g) /\ cur \in Node /\ j \in Nat /\ j <= Len(ins[cur])
        /\ stack \in Seq(Node \X Nat)
    BY <1>1, WalkFacts
  <1>3. PICK s, t, h : s = stack /\ t = stack' /\ h = Len(s)
    OBVIOUS
  <1>4. /\ h \in Nat /\ t \in Seq(Node \X Nat) /\ Len(t) = h + 1
        /\ \A m \in 1..h : t[m] = s[m] /\ m \in 1..(h + 1) /\ m # h + 1
        /\ h + 1 \in 1..(h + 1) /\ t[h + 1][1] = cur /\ t[h + 1][2] = j
        /\ \A m \in 1..(h + 1) : m \in 1..h \/ m = h + 1
    <2>1. s \in Seq(Node \X Nat) /\ cur \in Node /\ j \in Nat /\ t = Append(s, <<cur, j>>) /\ h = Len(s)
      BY <1>1, <1>2, <1>3
    <2> QED
      BY <2>1, Pushed
  <1>5. \A m \in 1..h : Of(s[m][1]) # Of(cur)
    BY <1>1, <1>2, <1>3 DEF TapeShape
  <1>6. Typed'
    <2>1. \A l, m \in 1..(h + 1) : Of(t[l][1]) = Of(t[m][1]) => l = m
      <3>1. \A l, m \in 1..h : Of(s[l][1]) = Of(s[m][1]) => l = m
        BY <1>2, <1>3 DEF Typed
      <3> QED
        BY <1>4, <1>5, <3>1
    <2>2. \A m \in 1..(h + 1) : t[m][2] <= Len(ins[t[m][1]])
      <3>1. \A m \in 1..h : s[m][2] <= Len(ins[s[m][1]])
        BY <1>2, <1>3 DEF Typed
      <3> QED
        BY <1>2, <1>4, <3>1
    <2> QED
      BY <1>1, <1>2, <1>3, <1>4, <2>1, <2>2 DEF Typed
  <1>7. TapeShape(g)'
    <2>1. \A m \in 1..(h + 1) : \E l \in 1..i : tape[l] = t[m][1]
      <3>1. \A m \in 1..h : \E l \in 1..i : tape[l] = s[m][1]
        BY <1>2, <1>3 DEF TapeShape
      <3>2. \E l \in 1..i : tape[l] = cur
        BY <1>1, <1>2 DEF TapeShape
      <3> QED
        BY <1>4, <3>1, <3>2
    <2> QED
      BY <1>1, <1>2, <1>3, <1>4, <2>1 DEF TapeShape
  <1>8. ASSUME NEW e \in Edges(g)
        PROVE  Passed(e)' <=> Passed(e)
    <2>1. Behind(e)' <=> Behind(e) /\ (Of(cur) = e[1] => e[2] <= j)
      <3>1. Behind(e)' <=> \A m \in 1..(h + 1) : Of(t[m][1]) = e[1] => e[2] <= t[m][2]
        BY <1>3, <1>4 DEF Behind
      <3>2. Behind(e) <=> \A m \in 1..h : Of(s[m][1]) = e[1] => e[2] <= s[m][2]
        BY <1>3 DEF Behind
      <3> QED
        BY <1>4, <3>1, <3>2
    <2> QED
      BY <1>1, <2>1 DEF Passed
  <1> QED
    BY <1>1, <1>6, <1>7, <1>8, PassesNothing

LEMMA ResumeStep ==
  ASSUME NEW g \in Graphs, WInv(g), Resume
  PROVE  WInv(g)'
  <1>1. /\ phase = "pick" /\ phase' = "scan" /\ stack' = Pop /\ cur' = Top[1] /\ j' = Top[2] /\ stack # <<>>
        /\ UNCHANGED <<ins, scheduled, tracer, home, width, cache, fences, tape, i>>
    BY DEF Resume, graph
  <1>2. /\ Matches(g) /\ Typed /\ TapeShape(g) /\ stack \in Seq(Node \X Nat)
    BY <1>1, WalkFacts
  <1>3. PICK s, t, h : s = stack' /\ t = stack /\ h = Len(s)
    OBVIOUS
  <1>4. s \in Seq(Node \X Nat) /\ cur' \in Node /\ j' \in Nat /\ t = Append(s, <<cur', j'>>)
    <2>1. PICK N : N = Len(stack)
      OBVIOUS
    <2>2. N \in Nat \ {0}
      BY <1>1, <1>2, <2>1, EmptySeq
    <2>3. s = SubSeq(stack, 1, N - 1)
      BY <1>1, <1>3, <2>1 DEF Pop
    <2>4. s \in Seq(Node \X Nat) /\ Len(s) = N - 1 /\ \A m \in 1..(N - 1) : s[m] = stack[m]
      BY <1>2, <2>1, <2>2, <2>3
    <2>5. stack[N] \in Node \X Nat /\ stack[N] = <<cur', j'>>
      BY <1>1, <1>2, <2>1, <2>2 DEF Top
    <2>6. PICK u : u = Append(s, <<cur', j'>>)
      OBVIOUS
    <2>7. u \in Seq(Node \X Nat) /\ Len(u) = N /\ u[N] = stack[N] /\ \A m \in 1..(N - 1) : u[m] = stack[m]
      BY <2>2, <2>4, <2>5, <2>6
    <2>8. \A m \in 1..N : u[m] = stack[m]
      BY <2>2, <2>7
    <2>9. u = stack
      BY <1>2, <2>1, <2>7, <2>8, SeqEqual
    <2> QED
      BY <1>3, <2>4, <2>5, <2>6, <2>9
  <1>5. PICK n, k : n = cur' /\ k = j'
    OBVIOUS
  <1>6. /\ h \in Nat /\ t \in Seq(Node \X Nat) /\ Len(t) = h + 1
        /\ \A m \in 1..h : t[m] = s[m] /\ m \in 1..(h + 1) /\ m # h + 1
        /\ h + 1 \in 1..(h + 1) /\ t[h + 1][1] = n /\ t[h + 1][2] = k
        /\ \A m \in 1..(h + 1) : m \in 1..h \/ m = h + 1
    <2>1. s \in Seq(Node \X Nat) /\ n \in Node /\ k \in Nat /\ t = Append(s, <<n, k>>) /\ h = Len(s)
      BY <1>3, <1>4, <1>5
    <2> QED
      BY <2>1, Pushed
  <1>7. \A l, m \in 1..(h + 1) : Of(t[l][1]) = Of(t[m][1]) => l = m
    BY <1>2, <1>3, <1>6 DEF Typed
  <1>8. \A m \in 1..h : Of(s[m][1]) # Of(n)
    BY <1>6, <1>7
  <1>9. Typed'
    <2>1. \A l, m \in 1..h : Of(s[l][1]) = Of(s[m][1]) => l = m
      BY <1>6, <1>7
    <2>2. \A m \in 1..(h + 1) : t[m][2] <= Len(ins[t[m][1]])
      BY <1>2, <1>3, <1>6 DEF Typed
    <2>3. \A m \in 1..h : s[m][2] <= Len(ins[s[m][1]])
      BY <1>6, <2>2
    <2>4. k <= Len(ins[n]) /\ Len(ins[n]) \in Nat
      BY <1>2, <1>4, <1>5, <1>6, <2>2 DEF Matches
    <2>5. j' \in 0..Len(ins'[cur'])
      BY <1>1, <1>4, <1>5, <2>4
    <2> QED
      BY <1>1, <1>2, <1>3, <1>4, <2>1, <2>3, <2>5 DEF Typed
  <1>10. TapeShape(g)'
    <2>1. \A m \in 1..(h + 1) : \E l \in 1..i : tape[l] = t[m][1]
      BY <1>2, <1>3, <1>6 DEF TapeShape
    <2>2. \A m \in 1..h : \E l \in 1..i : tape[l] = s[m][1]
      BY <1>6, <2>1
    <2>3. \E l \in 1..i : tape[l] = n
      BY <1>6, <2>1
    <2> QED
      BY <1>1, <1>2, <1>3, <1>5, <1>8, <2>2, <2>3 DEF TapeShape
  <1>11. ASSUME NEW e \in Edges(g)
         PROVE  Passed(e)' <=> Passed(e)
    <2>1. Behind(e) <=> Behind(e)' /\ (Of(cur') = e[1] => e[2] <= j')
      <3>1. Behind(e) <=> \A m \in 1..(h + 1) : Of(t[m][1]) = e[1] => e[2] <= t[m][2]
        BY <1>3, <1>6 DEF Behind
      <3>2. Behind(e)' <=> \A m \in 1..h : Of(s[m][1]) = e[1] => e[2] <= s[m][2]
        BY <1>3 DEF Behind
      <3> QED
        BY <1>5, <1>6, <3>1, <3>2
    <2> QED
      BY <1>1, <2>1 DEF Passed
  <1> QED
    BY <1>1, <1>9, <1>10, <1>11, PassesNothing

LEMMA SkipStep ==
  ASSUME NEW g \in Graphs, WInv(g), SkipScheduled
  PROVE  WInv(g)'
  <1>1. /\ phase = "scan" /\ phase' = "scan" /\ j < Len(ins[cur]) /\ j' = j + 1
        /\ UNCHANGED <<ins, scheduled, tracer, home, width, stack, cache, fences, tape, i, cur>>
    BY DEF SkipScheduled, graph
  <1>2. /\ Matches(g) /\ Typed /\ TapeShape(g) /\ cur \in Node /\ j \in Nat
        /\ ins[cur] \in Seq(Array) /\ Len(ins[cur]) \in Nat
    BY <1>1, WalkFacts
  <1>3. Maker[ins[cur][j + 1]] \in g.scheduled
    BY <1>2 DEF SkipScheduled, Unscheduled, Input, Matches
  <1>4. Typed'
    <2>1. j' \in 0..Len(ins'[cur'])
      BY <1>1, <1>2
    <2> QED
      BY <1>1, <1>2, <2>1 DEF Typed
  <1>5. TapeShape(g)'
    BY <1>1, <1>2 DEF TapeShape
  <1>6. ASSUME NEW e \in Edges(g)
        PROVE  Passed(e)' <=> Passed(e)
    <2>1. Behind(e)' <=> Behind(e)
      BY <1>1 DEF Behind
    <2>2. /\ e[1] \in Readers(g) /\ e[2] \in Nat \ {0} /\ To(g, e) \notin g.scheduled
      BY EdgeShape
    <2>3. Of(cur) = e[1] => e[2] # j + 1
      <3>1. SUFFICES ASSUME Of(cur) = e[1], e[2] = j + 1
                     PROVE  FALSE
        OBVIOUS
      <3>2. ins[cur] = List(g, e[1])
        BY <1>2, <2>2, <3>1, NodeList
      <3> QED
        BY <1>3, <2>2, <3>1, <3>2 DEF To, Arg
    <2>4. Of(cur) = e[1] => (e[2] <= j' <=> e[2] <= j)
      BY <1>1, <1>2, <2>2, <2>3
    <2> QED
      BY <1>1, <2>1, <2>4 DEF Passed
  <1> QED
    BY <1>1, <1>4, <1>5, <1>6, PassesNothing

LEMMA ScannedStep ==
  ASSUME NEW g \in Graphs, WInv(g), Scanned
  PROVE  WInv(g)'
  <1>1. /\ phase = "scan" /\ phase' = "pick" /\ j = Len(ins[cur])
        /\ UNCHANGED <<ins, scheduled, tracer, home, width, stack, cache, fences, tape, i, cur, j>>
    BY DEF Scanned, graph
  <1>2. Matches(g) /\ Typed /\ TapeShape(g) /\ cur \in Node
    BY <1>1, WalkFacts
  <1>3. Typed'
    BY <1>1, <1>2 DEF Typed
  <1>4. TapeShape(g)'
    BY <1>1, <1>2 DEF TapeShape
  <1>5. ASSUME NEW e \in Edges(g)
        PROVE  Passed(e)' <=> Passed(e)
    <2>1. Behind(e)' <=> Behind(e)
      BY <1>1 DEF Behind
    <2>2. /\ e[1] \in Readers(g) /\ e[2] \in 1..Len(List(g, e[1]))
      BY EdgeShape
    <2>3. Of(cur) = e[1] => e[2] <= j
      <3>1. SUFFICES ASSUME Of(cur) = e[1]
                     PROVE  e[2] <= j
        OBVIOUS
      <3>2. ins[cur] = List(g, e[1])
        BY <1>2, <2>2, <3>1, NodeList
      <3> QED
        BY <1>1, <2>2, <3>2
    <2> QED
      BY <1>1, <2>1, <2>3 DEF Passed
  <1> QED
    BY <1>1, <1>3, <1>4, <1>5, PassesNothing

(* When nothing is left to scan everything is placed: of what is not, some   *)
(* primitive is read by none of the others, and its degree is not zero.      *)
LEMMA AllPlaced ==
  ASSUME NEW g \in Graphs, WInv(g), phase = "pick",
         DOMAIN cache = {} \/ (i = Len(tape) /\ stack = <<>>)
  PROVE  Need(g) \subseteq Placed
  <1>1. /\ Matches(g) /\ Typed /\ TapeShape(g) /\ Degrees(g)
        /\ Len(tape) \in Nat \ {0} /\ i \in Nat
    BY WalkFacts
  <1>2. /\ Need(g) \subseteq Prim \ g.scheduled
        /\ \A p \in Need(g) : p # Sync /\ p \in Readers(g) /\ \E b \in Array : Maker[b] = p
    BY NeedClosed
  <1>3. CASE DOMAIN cache = {}
    <2> SUFFICES ASSUME NEW p \in Need(g)
                 PROVE  p \in Placed
      OBVIOUS
    <2>1. PICK b \in Array : Maker[b] = p
      BY <1>2
    <2> QED
      BY <1>1, <1>2, <1>3, <2>1 DEF Degrees
  <1>4. CASE i = Len(tape) /\ stack = <<>>
    <2>1. PICK W : W = Need(g) \ Placed
      OBVIOUS
    <2>2. SUFFICES ASSUME W # {}
                   PROVE  FALSE
      BY <2>1
    <2>3. W \in SUBSET Prim
      BY <1>2, <2>1
    <2>4. PICK p \in W : \A q \in W : \A k \in 1..Len(g.inputs[q]) : Maker[g.inputs[q][k]] # p
      BY <2>2, <2>3, GraphType DEF Acyclic
    <2>5. PICK b \in Array : Maker[b] = p
      BY <1>2, <2>1
    <2>6. b \in DOMAIN cache /\ p \notin g.scheduled
      BY <1>1, <1>2, <2>1, <2>5 DEF Degrees
    <2>7. Cardinality(Ahead(g, p)) # 0
      <3>1. cache[b] = Cardinality(Ahead(g, p))
        BY <1>1, <2>5, <2>6 DEF Degrees
      <3>2. cache[b] \in Nat \ {0}
        BY <1>1, <2>6 DEF Typed
      <3> QED
        BY <3>1, <3>2
    <2>8. PICK e \in Edges(g) : InCall(g, e[1]) /\ ~Passed(e) /\ To(g, e) = p
      <3>1. Ahead(g, p) # {}
        BY <2>7, FS_EmptySet
      <3> QED
        BY <3>1 DEF Ahead
    <2>9. Passed(e) <=> \E l \in 1..i : Of(tape[l]) = e[1]
      BY <1>4 DEF Passed, Behind
    <2>10. e[1] \notin Placed /\ e[1] # Sync
      <3>1. e[1] # Sync
        BY <1>1, <1>4, <2>8, <2>9 DEF TapeShape, Of
      <3>2. ASSUME e[1] \in Placed
            PROVE  FALSE
        <4>1. PICK l \in 2..Len(tape) : Maker[tape[l]] = e[1]
          BY <3>2 DEF Placed
        <4>2. tape[l] \in Array /\ l \in 1..i
          BY <1>1, <1>4 DEF TapeShape
        <4>3. Of(tape[l]) = e[1]
          BY <4>1, <4>2, GraphTapeAssumption DEF Of
        <4> QED
          BY <2>8, <2>9, <4>2, <4>3
      <3> QED
        BY <3>1, <3>2
    <2>11. e[1] \in W
      BY <2>1, <2>8, <2>10 DEF InCall
    <2>12. e[2] \in 1..Len(g.inputs[e[1]]) /\ Maker[g.inputs[e[1]][e[2]]] = p
      BY <2>8, <2>10, EdgeShape DEF List, To, Arg
    <2> QED
      BY <2>4, <2>11, <2>12
  <1> QED
    BY <1>3, <1>4

LEMMA FinishStep ==
  ASSUME NEW g \in Graphs, WInv(g), Finish
  PROVE  WInv(g)'
  <1>1. /\ phase = "pick" /\ phase' = "done"
        /\ UNCHANGED <<ins, scheduled, tracer, home, width, stack, cache, fences, tape, i, cur, j>>
    BY DEF Finish, graph
  <1>2. Typed /\ TapeShape(g)
    BY <1>1, WalkFacts
  <1>3. Need(g) \subseteq Placed
    BY <1>1, AllPlaced DEF Finish
  <1>4. Typed'
    BY <1>1, <1>2 DEF Typed
  <1>5. TapeShape(g)'
    BY <1>1, <1>2 DEF TapeShape
  <1>6. ASSUME NEW e \in Edges(g)
        PROVE  Passed(e)' <=> Passed(e)
    BY <1>1 DEF Passed, Behind
  <1> QED
    BY <1>1, <1>3, <1>4, <1>5, <1>6, PassesNothing

-----------------------------------------------------------------------------
(* The node that is scanned belongs to the call, so its input, if it is      *)
(* unscheduled, makes an edge that has not been passed: it is not placed     *)
(* yet and has a degree.                                                     *)
LEMMA InputEdge ==
  ASSUME NEW g \in Graphs, WInv(g), phase = "scan", j < Len(ins[cur]), Unscheduled(Input)
  PROVE  /\ <<Of(cur), j + 1>> \in Edges(g) /\ InCall(g, Of(cur))
         /\ Arg(g, <<Of(cur), j + 1>>) = Input /\ To(g, <<Of(cur), j + 1>>) = Maker[Input]
         /\ ~Passed(<<Of(cur), j + 1>>)
         /\ Input \in Array /\ Maker[Input] \in Need(g) \ Placed /\ Input \in DOMAIN cache
  <1>1. /\ Matches(g) /\ TapeShape(g) /\ Degrees(g) /\ cur \in Node /\ j \in Nat
        /\ ins[cur] \in Seq(Array) /\ Len(ins[cur]) \in Nat /\ Len(tape) \in Nat \ {0}
    BY WalkFacts
  <1>2. Input \in Array /\ Maker[Input] \notin g.scheduled
    BY <1>1 DEF Input, Unscheduled, Matches
  <1>3. InCall(g, Of(cur))
    <2>1. PICK l \in 1..i : tape[l] = cur
      BY <1>1 DEF TapeShape
    <2>2. CASE l = 1
      BY <1>1, <2>1, <2>2 DEF TapeShape, Of, InCall
    <2>3. CASE l # 1
      <3>1. l \in 2..Len(tape)
        <4>1. l \in 1..Len(tape)
          BY <2>1, WalkFacts
        <4> QED
          BY <1>1, <2>3, <4>1
      <3>2. tape[l] \in Array /\ Maker[tape[l]] \in Need(g)
        BY <1>1, <3>1 DEF TapeShape
      <3> QED
        BY <2>1, <3>2, GraphTapeAssumption DEF Of, InCall
    <2> QED
      BY <2>2, <2>3
  <1>4. Of(cur) \in Readers(g)
    BY <1>3, NeedClosed DEF InCall, Readers
  <1>5. ins[cur] = List(g, Of(cur))
    BY <1>1, <1>4, NodeList
  <1>6. j + 1 \in 1..Len(List(g, Of(cur))) /\ List(g, Of(cur))[j + 1] = Input
    BY <1>1, <1>5 DEF Input
  <1>7. PICK e : e = <<Of(cur), j + 1>>
    OBVIOUS
  <1>8. e \in Edges(g) /\ Arg(g, e) = Input /\ To(g, e) = Maker[Input] /\ e[1] = Of(cur) /\ e[2] = j + 1
    BY <1>2, <1>4, <1>6, <1>7, EdgeMade DEF To
  <1>9. Maker[Input] \in Need(g)
    BY <1>3, <1>8, NeedClosed
  <1>10. ~Passed(e)
    BY <1>1, <1>8 DEF Passed
  <1>11. Maker[Input] \notin Placed
    <2>1. e \in Ahead(g, Maker[Input])
      BY <1>3, <1>8, <1>10 DEF Ahead
    <2> QED
      BY <1>1, <2>1 DEF Degrees
  <1>12. Input \in DOMAIN cache
    BY <1>1, <1>2, <1>9, <1>11 DEF Degrees
  <1> QED
    BY <1>2, <1>3, <1>7, <1>8, <1>9, <1>10, <1>11, <1>12

(* To go on behind an unscheduled input passes its edge and no other.        *)
LEMMA PlacePasses ==
  ASSUME NEW g \in Graphs, WInv(g), Place,
         NEW f, f = <<Of(cur), j + 1>>, NEW p, p = Maker[Input]
  PROVE  /\ f \in Edges(g) /\ InCall(g, f[1]) /\ To(g, f) = p /\ ~Passed(f)
         /\ Input \in Array /\ Input \in DOMAIN cache
         /\ p \in Need(g) \ Placed /\ p \in Prim /\ p \notin g.scheduled /\ p # Sync
         /\ \A e \in Edges(g) : Passed(e)' <=> Passed(e) \/ e = f
         /\ f \in Ahead(g, p) /\ Ahead(g, p)' = Ahead(g, p) \ {f}
         /\ \A q \in Prim : q # p => Ahead(g, q)' = Ahead(g, q)
         /\ IsFiniteSet(Ahead(g, p))
  <1>1. /\ phase = "scan" /\ phase' = "scan" /\ j < Len(ins[cur]) /\ Unscheduled(Input) /\ j' = j + 1
        /\ tape' = tape \/ tape' = Append(tape, Input)
        /\ UNCHANGED <<ins, stack, i, cur>>
    BY DEF Place, graph
  <1>2. /\ f \in Edges(g) /\ InCall(g, Of(cur)) /\ To(g, f) = p /\ ~Passed(f)
        /\ Input \in Array /\ p \in Need(g) \ Placed /\ Input \in DOMAIN cache
    BY <1>1, InputEdge
  <1>3. /\ TapeShape(g) /\ j \in Nat /\ tape \in Seq(Node) /\ Len(tape) \in Nat
        /\ \A l \in 1..i : l \in 1..Len(tape)
    BY <1>1, WalkFacts
  <1>4. f[1] = Of(cur) /\ f[2] = j + 1
    OBVIOUS
  <1>5. \A l \in 1..i : tape'[l] = tape[l]
    <2>1. Input \in Node
      BY <1>2 DEF Node
    <2>2. CASE tape' = Append(tape, Input)
      BY <1>3, <2>1, <2>2
    <2> QED
      BY <1>1, <2>2
  <1>6. ASSUME NEW e \in Edges(g)
        PROVE  Passed(e)' <=> Passed(e) \/ e = f
    <2>1. Behind(e)' <=> Behind(e)
      BY <1>1 DEF Behind
    <2>2. (\E l \in 1..i' : Of(tape'[l]) = e[1]) <=> (\E l \in 1..i : Of(tape[l]) = e[1])
      BY <1>1, <1>5
    <2>3. e[2] \in Nat /\ e = <<e[1], e[2]>>
      BY EdgeShape
    <2>4. CASE e[1] = Of(cur)
      <3>1. \E l \in 1..i : Of(tape[l]) = e[1]
        BY <1>1, <1>3, <2>4 DEF TapeShape
      <3>2. Behind(e)
        BY <1>1, <1>3, <2>4 DEF TapeShape, Behind
      <3>3. Passed(e)' <=> e[2] <= j + 1
        BY <1>1, <2>1, <2>2, <2>4, <3>1, <3>2 DEF Passed
      <3>4. Passed(e) <=> e[2] <= j
        BY <1>1, <2>4, <3>1, <3>2 DEF Passed
      <3>5. e = f <=> e[2] = j + 1
        BY <1>4, <2>3, <2>4
      <3> QED
        BY <1>3, <2>3, <3>3, <3>4, <3>5
    <2>5. CASE e[1] # Of(cur)
      BY <1>1, <1>4, <2>1, <2>2, <2>5 DEF Passed
    <2> QED
      BY <2>4, <2>5
  <1>7. f \in Ahead(g, p)
    BY <1>2, <1>4 DEF Ahead
  <1>8. Ahead(g, p)' = Ahead(g, p) \ {f}
    <2>1. ASSUME NEW e
          PROVE  e \in Ahead(g, p)' <=> e \in Ahead(g, p) \ {f}
      <3>1. Ahead(g, p)' = {x \in Edges(g) : InCall(g, x[1]) /\ ~Passed(x)' /\ To(g, x) = p}
        BY DEF Ahead
      <3> QED
        BY <1>6, <3>1 DEF Ahead
    <2> QED
      BY <2>1
  <1>9. ASSUME NEW q \in Prim, q # p
        PROVE  Ahead(g, q)' = Ahead(g, q)
    <2>1. Ahead(g, q)' = {x \in Edges(g) : InCall(g, x[1]) /\ ~Passed(x)' /\ To(g, x) = q}
      BY DEF Ahead
    <2>2. \A x \in Edges(g) : To(g, x) = q => (Passed(x)' <=> Passed(x))
      BY <1>2, <1>6, <1>9
    <2> QED
      BY <2>1, <2>2 DEF Ahead
  <1>10. IsFiniteSet(Ahead(g, p))
    <2>1. Ahead(g, p) \subseteq Edges(g)
      BY DEF Ahead
    <2> QED
      BY <2>1, EdgesFinite, FS_Subset
  <1>11. p \in Prim /\ p \notin g.scheduled /\ p # Sync
    BY <1>2, NeedClosed
  <1> QED
    BY <1>2, <1>4, <1>6, <1>7, <1>8, <1>9, <1>10, <1>11

(* A reference that is not the last one counts down.                         *)
LEMMA CountDownStep ==
  ASSUME NEW g \in Graphs, WInv(g), Place, cache[Input] # 1
  PROVE  WInv(g)'
  <1>1. /\ phase = "scan" /\ phase' = "scan" /\ j < Len(ins[cur]) /\ j' = j + 1
        /\ cache' = [x \in DOMAIN cache |-> IF x \in Siblings(Input) THEN cache[x] - 1 ELSE cache[x]]
        /\ UNCHANGED <<ins, scheduled, tracer, home, width, stack, fences, tape, i, cur>>
    BY DEF Place, graph
  <1>2. /\ Matches(g) /\ Typed /\ TapeShape(g) /\ Degrees(g) /\ Order(g) /\ j \in Nat
        /\ fences = FencesOf(g, {e \in Edges(g) : InCall(g, e[1])})
        /\ ins[cur] \in Seq(Array) /\ Len(ins[cur]) \in Nat
    BY <1>1, WalkFacts
  <1>3. PICK p, f : p = Maker[Input] /\ f = <<Of(cur), j + 1>>
    OBVIOUS
  <1>4. /\ Input \in Array /\ Input \in DOMAIN cache /\ p \in Need(g) \ Placed
        /\ p \notin g.scheduled
        /\ f \in Ahead(g, p) /\ Ahead(g, p)' = Ahead(g, p) \ {f}
        /\ \A q \in Prim : q # p => Ahead(g, q)' = Ahead(g, q)
        /\ IsFiniteSet(Ahead(g, p))
    BY <1>3, PlacePasses
  <1>5. DOMAIN cache \subseteq Array /\ \A b \in DOMAIN cache : cache[b] \in Nat \ {0}
    BY <1>2 DEF Typed
  <1>6. \A b \in DOMAIN cache : b \in Siblings(Input) <=> Maker[b] = p
    BY <1>3, <1>5 DEF Siblings
  <1>7. PICK c : c = Cardinality(Ahead(g, p))
    OBVIOUS
  <1>8. /\ \A b \in DOMAIN cache : Maker[b] = p => cache[b] = c
        /\ c \in Nat /\ c > 1 /\ Cardinality(Ahead(g, p)') = c - 1
    <2>1. \A b \in DOMAIN cache : Maker[b] = p => cache[b] = c
      BY <1>2, <1>4, <1>7 DEF Degrees
    <2>2. cache[Input] = c
      BY <1>3, <1>4, <2>1
    <2>3. c \in Nat \ {0} /\ c # 1
      BY <1>4, <1>5, <2>2
    <2>4. Cardinality(Ahead(g, p) \ {f}) = c - 1
      BY <1>4, <1>7, FS_RemoveElement
    <2> QED
      BY <1>4, <2>1, <2>3, <2>4
  <1>9. DOMAIN cache' = DOMAIN cache
        /\ \A b \in DOMAIN cache : cache'[b] = IF Maker[b] = p THEN c - 1 ELSE cache[b]
    BY <1>1, <1>6, <1>8
  <1>10. Typed'
    <2>1. \A b \in DOMAIN cache' : cache'[b] \in Nat \ {0}
      BY <1>5, <1>8, <1>9
    <2>2. j' \in 0..Len(ins'[cur'])
      BY <1>1, <1>2
    <2> QED
      BY <1>1, <1>2, <1>5, <1>9, <2>1, <2>2 DEF Typed
  <1>11. TapeShape(g)'
    BY <1>1, <1>2 DEF TapeShape
  <1>12. Placed' = Placed
    BY <1>1 DEF Placed
  <1>13. Degrees(g)'
    <2>1. \A b \in Array : Maker[b] \notin g.scheduled =>
            (b \in DOMAIN cache' <=> Maker[b] \in Need(g) \ Placed')
      BY <1>2, <1>9, <1>12 DEF Degrees
    <2>2. ASSUME NEW b \in DOMAIN cache', Maker[b] \notin g.scheduled
          PROVE  cache'[b] = Cardinality(Ahead(g, Maker[b])')
      <3>1. b \in DOMAIN cache /\ Maker[b] \in Prim
        BY <1>5, <1>9, GraphTapeAssumption
      <3>2. CASE Maker[b] = p
        BY <1>8, <1>9, <3>1, <3>2
      <3>3. CASE Maker[b] # p
        <4>1. Ahead(g, Maker[b])' = Ahead(g, Maker[b])
          BY <1>4, <3>1, <3>3
        <4>2. cache[b] = Cardinality(Ahead(g, Maker[b]))
          BY <1>2, <2>2, <3>1 DEF Degrees
        <4> QED
          BY <1>9, <3>1, <3>3, <4>1, <4>2
      <3> QED
        BY <3>2, <3>3
    <2>3. ASSUME NEW q \in Placed'
          PROVE  Ahead(g, q)' = {}
      <3>1. q \in Placed /\ q # p
        BY <1>4, <1>12
      <3>2. Ahead(g, q) = {}
        BY <1>2, <3>1 DEF Degrees
      <3>3. q \in Need(g)
        BY <1>2, <3>1 DEF TapeShape, Placed
      <3>4. q \in Prim
        BY <3>3, NeedClosed
      <3> QED
        BY <1>4, <3>1, <3>2, <3>4
    <2> QED
      BY <2>1, <2>2, <2>3 DEF Degrees
  <1>14. Order(g)'
    BY <1>1, <1>2 DEF Order
  <1>15. fences' = FencesOf(g, {e \in Edges(g) : InCall(g, e[1])})'
    BY <1>1, <1>2 DEF FencesOf, StreamAt
  <1>16. Matches(g)'
    BY <1>1, <1>2 DEF Matches
  <1> QED
    BY <1>1, <1>10, <1>11, <1>13, <1>14, <1>15, <1>16 DEF WInv, Walking

(* The last reference places: every reader has been placed before.           *)
LEMMA LastReferenceStep ==
  ASSUME NEW g \in Graphs, WInv(g), Place, cache[Input] = 1
  PROVE  WInv(g)'
  <1>1. /\ phase = "scan" /\ phase' = "scan" /\ j < Len(ins[cur]) /\ j' = j + 1
        /\ cache' = [x \in DOMAIN cache \ Siblings(Input) |-> cache[x]]
        /\ tape' = Append(tape, Input)
        /\ UNCHANGED <<ins, scheduled, tracer, home, width, stack, fences, i, cur>>
    BY DEF Place, graph
  <1>2. /\ Matches(g) /\ Typed /\ TapeShape(g) /\ Degrees(g) /\ Order(g) /\ j \in Nat
        /\ fences = FencesOf(g, {e \in Edges(g) : InCall(g, e[1])})
        /\ ins[cur] \in Seq(Array) /\ Len(ins[cur]) \in Nat
        /\ i \in Nat /\ i <= Len(tape) /\ tape \in Seq(Node)
    BY <1>1, WalkFacts
  <1>3. PICK p, f, N : p = Maker[Input] /\ f = <<Of(cur), j + 1>> /\ N = Len(tape)
    OBVIOUS
  <1>4. /\ Input \in Array /\ Input \in DOMAIN cache /\ p \in Need(g) \ Placed
        /\ p \notin g.scheduled /\ p # Sync
        /\ \A e \in Edges(g) : Passed(e)' <=> Passed(e) \/ e = f
        /\ f \in Ahead(g, p) /\ Ahead(g, p)' = Ahead(g, p) \ {f}
        /\ \A q \in Prim : q # p => Ahead(g, q)' = Ahead(g, q)
        /\ IsFiniteSet(Ahead(g, p))
    BY <1>3, PlacePasses
  <1>5. DOMAIN cache \subseteq Array /\ \A b \in DOMAIN cache : cache[b] \in Nat \ {0}
    BY <1>2 DEF Typed
  <1>6. DOMAIN cache' = {b \in DOMAIN cache : Maker[b] # p}
        /\ \A b \in DOMAIN cache' : cache'[b] = cache[b]
    BY <1>1, <1>3, <1>5 DEF Siblings
  <1>7. Ahead(g, p)' = {}
    <2>1. Cardinality(Ahead(g, p)) = 1
      BY <1>2, <1>3, <1>4 DEF Degrees
    <2>2. Cardinality(Ahead(g, p) \ {f}) = Cardinality(Ahead(g, p)) - 1
      BY <1>4, FS_RemoveElement
    <2>3. IsFiniteSet(Ahead(g, p) \ {f})
      BY <1>4, FS_RemoveElement
    <2> QED
      BY <1>4, <2>1, <2>2, <2>3, FS_EmptySet
  <1>8. /\ N \in Nat \ {0} /\ tape' \in Seq(Node) /\ Len(tape') = N + 1 /\ tape'[N + 1] = Input
        /\ \A l \in 1..N : tape'[l] = tape[l]
        /\ \A l \in 1..(N + 1) : l \in 1..N \/ l = N + 1
        /\ \A l \in 2..(N + 1) : l \in 2..N \/ l = N + 1
        /\ \A l \in 2..N : l \in 1..N /\ l \in 2..(N + 1)
        /\ N + 1 \in 2..(N + 1) /\ N + 1 \in 1..(N + 1)
        /\ \A l \in 1..i : l \in 1..N
    <2>1. Input \in Node
      BY <1>4 DEF Node
    <2>2. N \in Nat /\ N >= 1
      BY <1>2, <1>3 DEF TapeShape
    <2>3. /\ tape' \in Seq(Node) /\ Len(tape') = N + 1 /\ tape'[N + 1] = Input
          /\ \A l \in 1..N : tape'[l] = tape[l]
      BY <1>1, <1>2, <1>3, <2>1
    <2>4. /\ \A l \in 1..(N + 1) : l \in 1..N \/ l = N + 1
          /\ \A l \in 2..(N + 1) : l \in 2..N \/ l = N + 1
          /\ \A l \in 2..N : l \in 1..N /\ l \in 2..(N + 1)
          /\ N + 1 \in 2..(N + 1) /\ N + 1 \in 1..(N + 1)
      BY <2>2
    <2>5. \A l \in 1..i : l \in 1..N
      BY <1>2, <1>3, <2>2
    <2> QED
      BY <2>2, <2>3, <2>4, <2>5
  <1>9. Placed' = Placed \cup {p}
    <2>1. Placed' = {Maker[tape'[l]] : l \in 2..(N + 1)}
      BY <1>8 DEF Placed
    <2>2. Placed = {Maker[tape[l]] : l \in 2..N}
      BY <1>3 DEF Placed
    <2> QED
      BY <1>3, <1>8, <2>1, <2>2
  <1>10. Typed'
    <2>1. j' \in 0..Len(ins'[cur']) /\ i' \in 0..Len(tape')
      BY <1>1, <1>2, <1>3, <1>8
    <2>2. DOMAIN cache' \subseteq Array /\ \A b \in DOMAIN cache' : cache'[b] \in Nat \ {0}
      BY <1>5, <1>6
    <2> QED
      BY <1>1, <1>2, <1>8, <2>1, <2>2 DEF Typed
  <1>11. TapeShape(g)'
    <2>1. Len(tape') >= 1 /\ tape'[1] = Sync
      BY <1>2, <1>3, <1>8 DEF TapeShape
    <2>2. ASSUME NEW l \in 2..Len(tape')
          PROVE  tape'[l] \in Array /\ Maker[tape'[l]] \in Need(g)
      <3>1. CASE l = N + 1
        BY <1>3, <1>4, <1>8, <3>1
      <3>2. CASE l \in 2..N
        BY <1>2, <1>3, <1>8, <3>2 DEF TapeShape
      <3> QED
        BY <1>8, <3>1, <3>2
    <2>3. ASSUME NEW l \in 1..N
          PROVE  Of(tape[l]) # p
      <3>1. CASE l = 1
        BY <1>2, <1>4, <3>1 DEF TapeShape, Of
      <3>2. CASE l \in 2..N
        <4>1. tape[l] \in Array /\ Maker[tape[l]] # p
          BY <1>2, <1>3, <1>4, <3>2 DEF TapeShape, Placed
        <4> QED
          BY <4>1, GraphTapeAssumption DEF Of
      <3> QED
        BY <1>8, <3>1, <3>2
    <2>4. Of(Input) = p
      BY <1>3, <1>4, GraphTapeAssumption DEF Of
    <2>5. ASSUME NEW l \in 1..Len(tape'), NEW m \in 1..Len(tape'), Of(tape'[l]) = Of(tape'[m])
          PROVE  l = m
      <3>1. CASE l \in 1..N /\ m \in 1..N
        <4>1. Of(tape[l]) = Of(tape[m])
          BY <1>8, <2>5, <3>1
        <4> QED
          BY <1>2, <1>3, <3>1, <4>1 DEF TapeShape
      <3>2. CASE l \in 1..N /\ m = N + 1
        BY <1>8, <2>3, <2>4, <2>5, <3>2
      <3>3. CASE l = N + 1 /\ m \in 1..N
        BY <1>8, <2>3, <2>4, <2>5, <3>3
      <3>4. CASE l = N + 1 /\ m = N + 1
        BY <3>4
      <3> QED
        BY <1>8, <3>1, <3>2, <3>3, <3>4
    <2>6. \A m \in 1..Len(stack') : \E l \in 1..i' : tape'[l] = stack'[m][1]
      BY <1>1, <1>2, <1>8 DEF TapeShape
    <2>7. phase' = "scan" => /\ \E l \in 1..i' : tape'[l] = cur'
                             /\ \A m \in 1..Len(stack') : Of(stack'[m][1]) # Of(cur')
      BY <1>1, <1>2, <1>8 DEF TapeShape
    <2> QED
      BY <2>1, <2>2, <2>5, <2>6, <2>7 DEF TapeShape, Of
  <1>12. Placed \subseteq Prim
    BY <1>2, NeedClosed DEF TapeShape, Placed
  <1>13. Degrees(g)'
    <2>1. ASSUME NEW b \in Array, Maker[b] \notin g.scheduled
          PROVE  b \in DOMAIN cache' <=> Maker[b] \in Need(g) \ Placed'
      <3>1. b \in DOMAIN cache <=> Maker[b] \in Need(g) \ Placed
        BY <1>2, <2>1 DEF Degrees
      <3> QED
        BY <1>6, <1>9, <3>1
    <2>2. ASSUME NEW b \in DOMAIN cache', Maker[b] \notin g.scheduled
          PROVE  cache'[b] = Cardinality(Ahead(g, Maker[b])')
      <3>1. b \in DOMAIN cache /\ Maker[b] \in Prim /\ Maker[b] # p
        BY <1>5, <1>6, GraphTapeAssumption
      <3>2. Ahead(g, Maker[b])' = Ahead(g, Maker[b])
        BY <1>4, <3>1
      <3>3. cache[b] = Cardinality(Ahead(g, Maker[b]))
        BY <1>2, <2>2, <3>1 DEF Degrees
      <3> QED
        BY <1>6, <3>2, <3>3
    <2>3. ASSUME NEW q \in Placed'
          PROVE  Ahead(g, q)' = {}
      <3>1. CASE q = p
        BY <1>7, <3>1
      <3>2. CASE q # p
        <4>1. q \in Placed /\ q \in Prim
          BY <1>9, <1>12, <3>2
        <4>2. Ahead(g, q) = {}
          BY <1>2, <4>1 DEF Degrees
        <4> QED
          BY <1>4, <3>2, <4>1, <4>2
      <3> QED
        BY <3>1, <3>2
    <2> QED
      BY <2>1, <2>2, <2>3 DEF Degrees
  <1>14. Order(g)'
    <2> SUFFICES ASSUME NEW l \in 2..(N + 1), NEW e \in Edges(g),
                        InCall(g, e[1]), To(g, e) = Maker[tape'[l]]
                 PROVE  \E m \in 1..l - 1 : Of(tape'[m]) = e[1]
      BY <1>8 DEF Order, Of
    <2>1. CASE l \in 2..N
      <3>1. PICK m \in 1..l - 1 : Of(tape[m]) = e[1]
        BY <1>2, <1>3, <1>8, <2>1 DEF Order
      <3>2. m \in 1..N
        BY <1>8, <2>1
      <3> QED
        BY <1>8, <3>1, <3>2
    <2>2. CASE l = N + 1
      <3>1. To(g, e) = p
        BY <1>3, <1>8, <2>2
      <3>2. Ahead(g, p)' = {x \in Edges(g) : InCall(g, x[1]) /\ ~Passed(x)' /\ To(g, x) = p}
        BY DEF Ahead
      <3>3. Passed(e)'
        BY <1>7, <3>1, <3>2
      <3>4. PICK m \in 1..i : Of(tape'[m]) = e[1]
        BY <1>1, <3>3 DEF Passed, Of
      <3>5. m \in 1..l - 1
        BY <1>8, <2>2
      <3> QED
        BY <3>4, <3>5
    <2> QED
      BY <1>8, <2>1, <2>2
  <1>15. fences' = FencesOf(g, {e \in Edges(g) : InCall(g, e[1])})'
    BY <1>1, <1>2 DEF FencesOf, StreamAt
  <1>16. Matches(g)'
    BY <1>1, <1>2 DEF Matches
  <1> QED
    BY <1>1, <1>10, <1>11, <1>13, <1>14, <1>15, <1>16 DEF WInv, Walking

-----------------------------------------------------------------------------
(* The whole walk.                                                           *)
LEMMA StutterStep ==
  ASSUME NEW g \in Graphs, WInv(g), UNCHANGED vars
  PROVE  WInv(g)'
  <1>1. UNCHANGED <<ins, scheduled, tracer, home, width, phase, stack, cache, fences, tape, i, cur, j>>
    BY DEF vars, graph
  <1>2. Matches(g)' /\ Typed'
    BY <1>1 DEF WInv, Matches, Typed
  <1>3. CASE phase = "count"
    <2>1. Counting(g)
      BY <1>3 DEF WInv
    <2>2. Seen' = Seen /\ \A e \in Edges(g) : Looked(e)' <=> Looked(e)
      BY <1>1 DEF Seen, Looked, Behind
    <2>3. LookedAt(g)' = LookedAt(g)
      BY <2>2 DEF LookedAt
    <2>4. ASSUME NEW b \in DOMAIN cache, Maker[b] \notin g.scheduled
          PROVE  Maker[b] \in Need(g) /\ cache'[b] = Cardinality(LookedTo(g, Maker[b])')
      <3>1. LookedTo(g, Maker[b])' = LookedTo(g, Maker[b])
        BY <2>2 DEF LookedTo
      <3> QED
        BY <1>1, <2>1, <2>4, <3>1 DEF Counting
    <2>5. fences' = FencesOf(g, LookedAt(g))'
      BY <1>1, <2>1, <2>3 DEF Counting, FencesOf, StreamAt
    <2>6. Counting(g)'
      BY <1>1, <2>1, <2>2, <2>4, <2>5 DEF Counting
    <2> QED
      BY <1>1, <1>2, <1>3, <2>6 DEF WInv
  <1>4. CASE phase # "count"
    <2>1. TapeShape(g)' /\ (phase' = "done" => Need(g) \subseteq Placed)
      BY <1>1, <1>4 DEF WInv, Walking, TapeShape
    <2>2. \A e \in Edges(g) : Passed(e)' <=> Passed(e)
      BY <1>1 DEF Passed, Behind
    <2> QED
      BY <1>1, <1>2, <1>4, <2>1, <2>2, PassesNothing
  <1> QED
    BY <1>3, <1>4

LEMMA NextInv == IInv /\ [Next]_vars => IInv'
  <1> SUFFICES ASSUME IInv, [Next]_vars
               PROVE  IInv'
    OBVIOUS
  <1>1. PICK g \in Graphs : WInv(g)
    BY DEF IInv
  <1>2. SUFFICES WInv(g)'
    BY DEF IInv
  <1>3. CASE CountInput
    BY <1>1, <1>3, CountStep
  <1>4. CASE LeaveNode
    BY <1>1, <1>4, LeaveStep
  <1>5. CASE StartTape
    BY <1>1, <1>5, StartStep
  <1>6. CASE PickFirst
    BY <1>1, <1>6, PickFirstStep
  <1>7. CASE Resume
    BY <1>1, <1>7, ResumeStep
  <1>8. CASE Finish
    BY <1>1, <1>8, FinishStep
  <1>9. CASE SkipScheduled
    BY <1>1, <1>9, SkipStep
  <1>10. CASE Interrupt
    BY <1>1, <1>10, InterruptStep
  <1>11. CASE Place
    BY <1>1, <1>11, CountDownStep, LastReferenceStep
  <1>12. CASE Scanned
    BY <1>1, <1>12, ScannedStep
  <1>13. CASE UNCHANGED vars
    BY <1>1, <1>13, StutterStep
  <1> QED
    BY <1>3, <1>4, <1>5, <1>6, <1>7, <1>8, <1>9, <1>10, <1>11, <1>12, <1>13 DEF Next

LEMMA Inductive == Spec => []IInv
  BY InitInv, NextInv, PTL DEF Spec

(* The result of cache.find is used without a test: it is there, whenever    *)
(* the scan of eval_impl comes to an input that is unscheduled.              *)
THEOREM NeverMisses == Spec => []LookupHits
  <1>1. IInv => LookupHits
    BY InputEdge DEF IInv, LookupHits
  <1> QED
    BY <1>1, Inductive, PTL

-----------------------------------------------------------------------------
(* What the invariant says of the finished tape.                             *)
LEMMA DoneFacts ==
  ASSUME NEW g \in Graphs, WInv(g), phase = "done"
  PROVE  /\ Matches(g) /\ TapeShape(g) /\ Order(g) /\ Needed = Need(g) /\ Placed = Need(g)
         /\ Len(tape) \in Nat \ {0}
         /\ fences = FencesOf(g, {e \in Edges(g) : InCall(g, e[1])})
  <1>1. /\ Matches(g) /\ TapeShape(g) /\ Order(g) /\ Len(tape) \in Nat \ {0} /\ Walking(g)
    BY WalkFacts DEF WInv
  <1>2. Placed = Need(g)
    BY <1>1 DEF Walking, TapeShape, Placed
  <1> QED
    BY <1>1, <1>2, SameNeed DEF Walking

LEMMA CompleteThen ==
  ASSUME NEW g \in Graphs, WInv(g)
  PROVE  TapeComplete
  <1> SUFFICES ASSUME phase = "done", NEW p \in Prim
               PROVE  Cardinality(PlacedAt(p)) = IF p \in Needed THEN 1 ELSE 0
    BY DEF TapeComplete
  <1>1. TapeShape(g) /\ Needed = Need(g) /\ Placed = Need(g) /\ Len(tape) \in Nat \ {0}
    BY DoneFacts
  <1>2. \A k \in 1..Len(tape) : k = 1 \/ k \in 2..Len(tape)
    BY <1>1
  <1>3. CASE p \in Need(g)
    <2>1. PICK l \in 2..Len(tape) : Maker[tape[l]] = p
      BY <1>1, <1>3 DEF Placed
    <2>2. l \in 1..Len(tape) /\ tape[l] \in Array /\ tape[l] # Sync
      BY <1>1, GraphTapeAssumption DEF TapeShape
    <2>3. PlacedAt(p) = {l}
      <3>1. ASSUME NEW k \in PlacedAt(p)
            PROVE  k = l
        <4>1. k \in 1..Len(tape) /\ tape[k] # Sync /\ Maker[tape[k]] = p
          BY DEF PlacedAt
        <4>2. Of(tape[k]) = Of(tape[l])
          BY <2>1, <2>2, <4>1 DEF Of
        <4> QED
          BY <1>1, <2>2, <4>1, <4>2 DEF TapeShape
      <3> QED
        BY <2>1, <2>2, <3>1 DEF PlacedAt
    <2>4. Cardinality({l}) = 1
      BY FS_Singleton
    <2> QED
      BY <1>1, <1>3, <2>3, <2>4
  <1>4. CASE p \notin Need(g)
    <2>1. PlacedAt(p) = {}
      <3> SUFFICES ASSUME NEW k \in PlacedAt(p)
                   PROVE  FALSE
        OBVIOUS
      <3>1. k \in 1..Len(tape) /\ tape[k] # Sync /\ Maker[tape[k]] = p
        BY DEF PlacedAt
      <3>2. k \in 2..Len(tape)
        BY <1>1, <1>2, <3>1 DEF TapeShape
      <3> QED
        BY <1>1, <1>4, <3>1, <3>2 DEF TapeShape
    <2> QED
      BY <1>1, <1>4, <2>1, FS_EmptySet
  <1> QED
    BY <1>3, <1>4

LEMMA OrderThen ==
  ASSUME NEW g \in Graphs, WInv(g)
  PROVE  TapeOrder
  <1> DEFINE Rep(p) == IF p = Sync THEN Sync ELSE CHOOSE b \in Array : Maker[b] = p
  <1> SUFFICES ASSUME phase = "done", NEW k \in 1..Len(tape), tape[k] # Sync,
                      NEW p \in Needed \cup {Sync}, Reads(Rep(p), Maker[tape[k]])
               PROVE  \E l \in 1..k - 1 : IF p = Sync THEN tape[l] = Sync ELSE l \in PlacedAt(p)
    BY DEF TapeOrder
  <1>1. /\ Matches(g) /\ TapeShape(g) /\ Order(g) /\ Needed = Need(g) /\ Placed = Need(g)
        /\ Len(tape) \in Nat \ {0}
    BY DoneFacts
  <1>2. k \in 2..Len(tape)
    BY <1>1 DEF TapeShape
  <1>3. PICK n : n = Rep(p)
    OBVIOUS
  <1>4. n \in Node /\ Of(n) = p
    <2>1. CASE p = Sync
      BY <1>3, <2>1 DEF Node, Of
    <2>2. CASE p # Sync
      <3>1. \E b \in Array : Maker[b] = p
        BY <1>1, <2>2, NeedClosed
      <3>2. n \in Array /\ Maker[n] = p
        BY <1>3, <2>2, <3>1
      <3> QED
        BY <3>2, GraphTapeAssumption DEF Node, Of
    <2> QED
      BY <2>1, <2>2
  <1>5. p \in Readers(g) /\ InCall(g, p)
    BY <1>1, NeedClosed DEF Readers, InCall
  <1>6. ins[n] = List(g, p)
    BY <1>1, <1>4, <1>5, NodeList
  <1>7. PICK x \in 1..Len(List(g, p)) : Maker[List(g, p)[x]] = Maker[tape[k]]
    BY <1>3, <1>6 DEF Reads
  <1>8. Maker[tape[k]] \notin g.scheduled
    BY <1>1, <1>2, NeedClosed DEF TapeShape
  <1>9. PICK e : e = <<p, x>>
    OBVIOUS
  <1>10. e \in Edges(g) /\ e[1] = p /\ To(g, e) = Maker[tape[k]]
    BY <1>5, <1>7, <1>8, <1>9, EdgeMade DEF To
  <1>11. PICK l \in 1..k - 1 : Of(tape[l]) = p
    BY <1>1, <1>2, <1>5, <1>10 DEF Order
  <1>12. l \in 1..Len(tape) /\ (l = 1 \/ l \in 2..Len(tape))
    BY <1>1, <1>2
  <1>13. CASE l = 1
    BY <1>1, <1>11, <1>13 DEF TapeShape, Of
  <1>14. CASE l \in 2..Len(tape)
    <2>1. tape[l] \in Array /\ tape[l] # Sync /\ Of(tape[l]) = Maker[tape[l]] /\ Maker[tape[l]] # Sync
      BY <1>1, <1>14, GraphTapeAssumption DEF TapeShape, Of
    <2> QED
      BY <1>11, <1>12, <2>1 DEF PlacedAt
  <1> QED
    BY <1>12, <1>13, <1>14

LEMMA FencesThen ==
  ASSUME NEW g \in Graphs, WInv(g)
  PROVE  FencesFound
  <1> DEFINE Crossing(b) ==
        \E n \in Node : /\ n = Sync \/ Maker[n] \in Needed
                        /\ NodeStream(n) # NodeStream(b)
                        /\ \E k \in 1..Len(ins[n]) : ins[n][k] = b
  <1> SUFFICES ASSUME phase = "done", NEW b
               PROVE  b \in fences <=> b \in Array /\ Maker[b] \in Needed /\ Crossing(b)
    BY DEF FencesFound
  <1>1. /\ Matches(g) /\ Needed = Need(g)
        /\ fences = FencesOf(g, {e \in Edges(g) : InCall(g, e[1])})
    BY DoneFacts
  <1>2. b \in fences <=> \E e \in Edges(g) : /\ InCall(g, e[1]) /\ Arg(g, e) = b
                                              /\ StreamAt(e[1]) # StreamOf[To(g, e)]
    BY <1>1 DEF FencesOf
  <1>3. ASSUME NEW n \in Node
        PROVE  NodeStream(n) = StreamAt(Of(n))
    BY GraphTapeAssumption DEF NodeStream, StreamAt, Of, Node
  <1>4. ASSUME b \in fences
        PROVE  b \in Array /\ Maker[b] \in Needed /\ Crossing(b)
    <2>1. PICK e \in Edges(g) : /\ InCall(g, e[1]) /\ Arg(g, e) = b
                                /\ StreamAt(e[1]) # StreamOf[To(g, e)]
      BY <1>2, <1>4
    <2>2. e[1] \in Readers(g) /\ e[2] \in 1..Len(List(g, e[1])) /\ b \in Array
      BY <2>1, EdgeShape
    <2>3. Maker[b] \in Needed
      BY <1>1, <2>1, NeedClosed DEF To
    <2>4. PICK n \in Node : Of(n) = e[1] /\ (n = Sync \/ Maker[n] \in Needed)
      <3>1. CASE e[1] = Sync
        BY <3>1 DEF Node, Of
      <3>2. CASE e[1] # Sync
        <4>1. e[1] \in Need(g)
          BY <2>1, <3>2 DEF InCall
        <4>2. PICK x \in Array : Maker[x] = e[1]
          BY <4>1, NeedClosed
        <4> QED
          BY <1>1, <4>1, <4>2, GraphTapeAssumption DEF Node, Of
      <3> QED
        BY <3>1, <3>2
    <2>5. ins[n] = List(g, e[1])
      BY <1>1, <2>2, <2>4, NodeList
    <2>6. \E k \in 1..Len(ins[n]) : ins[n][k] = b
      BY <2>1, <2>2, <2>5 DEF Arg
    <2>7. b \in Node /\ Of(b) = Maker[b] /\ Maker[b] # Sync
      BY <2>2, GraphTapeAssumption DEF Node, Of
    <2>8. NodeStream(n) # NodeStream(b)
      BY <1>3, <2>1, <2>4, <2>7 DEF To, StreamAt
    <2> QED
      BY <2>2, <2>3, <2>4, <2>6, <2>8
  <1>5. ASSUME b \in Array, Maker[b] \in Needed, Crossing(b)
        PROVE  b \in fences
    <2>1. PICK n \in Node : /\ n = Sync \/ Maker[n] \in Needed
                            /\ NodeStream(n) # NodeStream(b)
                            /\ \E k \in 1..Len(ins[n]) : ins[n][k] = b
      BY <1>5
    <2>2. PICK k \in 1..Len(ins[n]) : ins[n][k] = b
      BY <2>1
    <2>3. InCall(g, Of(n)) /\ Of(n) \in Readers(g)
      BY <1>1, <2>1, NeedClosed DEF InCall, Of, Readers
    <2>4. ins[n] = List(g, Of(n))
      BY <1>1, <2>3, NodeList
    <2>5. Maker[b] \notin g.scheduled
      BY <1>1, <1>5, NeedClosed
    <2>6. PICK e : e = <<Of(n), k>>
      OBVIOUS
    <2>7. e \in Edges(g) /\ e[1] = Of(n) /\ Arg(g, e) = b
      BY <2>2, <2>3, <2>4, <2>5, <2>6, EdgeMade
    <2>8. b \in Node /\ Of(b) = Maker[b] /\ Maker[b] # Sync
      BY <1>5, GraphTapeAssumption DEF Node, Of
    <2>9. StreamAt(e[1]) # StreamOf[To(g, e)]
      BY <1>3, <2>1, <2>7, <2>8 DEF To, StreamAt
    <2> QED
      BY <1>2, <2>3, <2>7, <2>9
  <1> QED
    BY <1>4, <1>5

LEMMA TypeThen ==
  ASSUME NEW g \in Graphs, WInv(g)
  PROVE  TypeOK
  <1>1. Matches(g) /\ Typed
    BY DEF WInv
  <1>2. ASSUME NEW k \in 1..Len(stack)
        PROVE  stack[k][1] \in Node /\ stack[k][2] \in 0..Len(ins[stack[k][1]])
    <2>1. stack[k] \in Node \X Nat /\ stack[k][2] <= Len(ins[stack[k][1]])
      BY <1>1 DEF Typed
    <2>2. Len(ins[stack[k][1]]) \in Nat
      BY <1>1, <2>1 DEF Matches
    <2> QED
      BY <2>1, <2>2
  <1>3. fences \subseteq Array
    <2>1. \A E \in SUBSET Edges(g) : FencesOf(g, E) \subseteq Array
      BY EdgeShape DEF FencesOf
    <2>2. LookedAt(g) \subseteq Edges(g) /\ {e \in Edges(g) : InCall(g, e[1])} \subseteq Edges(g)
      BY DEF LookedAt
    <2> QED
      BY <2>1, <2>2 DEF WInv, Counting, Walking
  <1>4. scheduled \subseteq Prim /\ tracer \subseteq Prim
    BY <1>1, GraphTapeAssumption DEF Matches
  <1> QED
    BY <1>1, <1>2, <1>3, <1>4 DEF TypeOK, Typed, Matches

(* The tape that eval_impl goes on with is right, for every finite graph     *)
(* without cycles, every width limit and every order of the inputs: it holds *)
(* what the call needs and nothing else, once; what reads a node stands      *)
(* before it; and the fences are those that another stream needs.            *)
THEOREM TapeIsRight == Spec => []TapeRight
  <1>1. IInv => TapeRight
    BY TypeThen, CompleteThen, OrderThen, FencesThen DEF IInv, TapeRight
  <1> QED
    BY <1>1, Inductive, PTL

=============================================================================
