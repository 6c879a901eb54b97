-------------------------------- MODULE Strided --------------------------------
(* Shapes and strides, and how kernels walk over them: array.cpp, backend/common/utils.h *)
(* and utils.cpp, backend/common/common.cpp.  A shape is a sequence of positive numbers, *)
(* strides are a sequence of integers of the same length; elements of an array are       *)
(* numbered from 0 in row-major order, locations are relative to the array's first one.  *)
EXTENDS Integers, Sequences, FiniteSets
LOCAL INSTANCE SequencesExt
LOCAL INSTANCE FiniteSetsExt

CONSTANT InnerDims  \* how many trailing dimensions copy_general_general unrolls: 3

ASSUME StridedAssumption == InnerDims \in Nat \ {0}

RECURSIVE Product(_)
Product(s) == IF s = <<>> THEN 1 ELSE Head(s) * Product(Tail(s))
RECURSIVE Sum(_)
Sum(s) == IF s = <<>> THEN 0 ELSE Head(s) + Sum(Tail(s))
\* The axes of a set, in order, of a sequence.
RECURSIVE Pick(_, _)
Pick(s, axes) ==
    IF axes = {} THEN <<>> ELSE LET i == Min(axes) IN <<s[i]>> \o Pick(s, axes \ {i})
AxesFrom(s, d) == SubSeq(s, d, Len(s))

RECURSIVE RowMajor(_)
RowMajor(shape) == IF shape = <<>> THEN <<>> ELSE <<Product(Tail(shape))>> \o RowMajor(Tail(shape))
ColMajor(shape) == [i \in DOMAIN shape |-> Product(SubSeq(shape, 1, i - 1))]

\* The index of an element along each axis, and where it is.
Coord(e, shape) == LET row == RowMajor(shape) IN [i \in DOMAIN shape |-> (e \div row[i]) % shape[i]]
Location(coord, strides) == Sum([i \in DOMAIN strides |-> coord[i] * strides[i]])
ElemOf(coord, shape) == Location(coord, RowMajor(shape))
RECURSIVE ElemToLoc(_, _, _)
ElemToLoc(e, shape, strides) ==
    LET n == Len(shape)
    IN  IF n = 0 THEN 0
        ELSE (e % shape[n]) * strides[n] + ElemToLoc(e \div shape[n], SubSeq(shape, 1, n - 1), SubSeq(strides, 1, n - 1))

\* check_contiguity
Follows(shape, strides, order) == \A i \in DOMAIN shape : strides[i] = order[i] \/ shape[i] = 1
IsRow(shape, strides) == Follows(shape, strides, RowMajor(shape))
IsCol(shape, strides) == Follows(shape, strides, ColMajor(shape))
UnbroadcastSize(shape, strides) == Product([i \in DOMAIN shape |-> IF strides[i] > 0 THEN shape[i] ELSE 1])

\* array::set_data and shared_buffer_reshape: a row-major array is a column-major one too
\* when it is a vector.
RowIsCol(shape) == Product(shape) <= 1 \/ \E i \in DOMAIN shape : shape[i] = Product(shape)

----------------------------------------------------------------------------
\* collapse_contiguous_dims for one array: an axis of length 1 behind the first is dropped,
\* an axis that continues the one before it is merged with it.
RECURSIVE Collapsed(_, _, _)
Collapsed(shape, strides, n) ==
    IF n = 1 THEN [shape |-> <<shape[1]>>, strides |-> <<strides[1]>>]
    ELSE LET c == Collapsed(shape, strides, n - 1)
             m == Len(c.shape)
         IN  CASE shape[n] = 1 -> c
               [] shape[n] # 1 /\ strides[n] * shape[n] # c.strides[m] ->
                    [shape |-> Append(c.shape, shape[n]), strides |-> Append(c.strides, strides[n])]
               [] OTHER ->
                    [shape |-> [c.shape EXCEPT ![m] = @ * shape[n]],
                     strides |-> [c.strides EXCEPT ![m] = strides[n]]]

CollapseOne(shape, strides) ==
    IF shape = <<>> THEN [shape |-> <<>>, strides |-> <<>>] ELSE Collapsed(shape, strides, Len(shape))

\* collapse_contiguous_dims for several arrays of one shape: axes that continue one another
\* in every array form a run; runs of length 1 are dropped, unless nothing else is left.
CollapseAll(shape, strides) ==
    LET Starts(i) == i = 1 \/ \E st \in ToSet(strides) : st[i] * shape[i] # st[i - 1]
        kept == {i \in DOMAIN shape : shape[i] # 1}
        run == [i \in DOMAIN shape |-> Max({j \in 1..i : Starts(j)})]
        lasts == {i \in kept : \A j \in kept : j > i => run[j] # run[i]}
        length == [i \in DOMAIN shape |-> Product([j \in DOMAIN shape |-> IF run[j] = run[i] THEN shape[j] ELSE 1])]
    IN  IF kept = {}
        THEN [shape |-> [i \in 1..Min({1, Len(shape)}) |-> 1],
              strides |-> [a \in DOMAIN strides |-> [i \in 1..Min({1, Len(shape)}) |-> 0]]]
        ELSE [shape |-> Pick(length, lasts), strides |-> FoldLeft(LAMBDA acc, st : Append(acc, Pick(st, lasts)), <<>>, strides)]

----------------------------------------------------------------------------
\* ContiguousIterator: where it is after k steps.  The first axis is never wrapped around.
IteratorLoc(k, shape, strides) ==
    LET c == CollapseOne(shape, strides)
        row == RowMajor(c.shape)
    IN  Sum([i \in DOMAIN c.shape |->
               (IF i = 1 THEN k \div row[1] ELSE (k \div row[i]) % c.shape[i]) * c.strides[i]])

\* copy_general_general: the steps of a copy of the elements of `shape`, each with the locations
\* it reads and writes.  `size` is the size of the source array, which bounds the outer loop.
CopySteps(shape, istrides, ostrides, size) ==
    LET c == CollapseAll(shape, <<istrides, ostrides>>)
        nd == Len(c.shape)
        outer == nd - InnerDims
        inner == AxesFrom(c.shape, outer + 1)
        Inner(e, st) == ElemToLoc(e, inner, AxesFrom(st, outer + 1))
        Outer(k, st) == IteratorLoc(k, SubSeq(c.shape, 1, outer), SubSeq(st, 1, outer))
    IN  IF nd < InnerDims
        THEN {<<ElemToLoc(e, c.shape, c.strides[1]), ElemToLoc(e, c.shape, c.strides[2])>> : e \in 0..(Product(shape) - 1)}
        ELSE LET rounds == (size + Product(inner) - 1) \div Product(inner)
             IN  {<<Outer(k, c.strides[1]) + Inner(e, c.strides[1]), Outer(k, c.strides[2]) + Inner(e, c.strides[2])>> :
                    k \in 0..(rounds - 1), e \in 0..(Product(inner) - 1)}

----------------------------------------------------------------------------
\* prepare_reshape behind its special cases: the axes of the output take what they can from
\* the collapsed axes of the input; r is the walk's state before axis i of the output.
RECURSIVE Fit(_, _, _)
Fit(r, shape, i) ==
    IF i > Len(shape) \/ r.copy THEN r
    ELSE LET N == shape[i]
             rest == r.shape[r.j] \div N
         IN  Fit(CASE r.j <= Len(r.shape) /\ r.shape[r.j] % N = 0 ->
                        [r EXCEPT !.shape[r.j] = rest, !.out = Append(@, rest * r.strides[r.j]),
                                  !.j = IF rest = 1 THEN @ + 1 ELSE @]
                   [] ~(r.j <= Len(r.shape) /\ r.shape[r.j] % N = 0) /\ N = 1 ->
                        [r EXCEPT !.out = Append(@, Last(@))]
                   [] OTHER -> [r EXCEPT !.copy = TRUE],
                 shape, i + 1)

PrepareReshape(inShape, inStrides, isRow, shape) ==
    CASE isRow -> [copy |-> FALSE, out |-> RowMajor(shape)]
      [] ~isRow /\ inShape = <<>> -> [copy |-> FALSE, out |-> [i \in DOMAIN shape |-> 0]]
      [] OTHER ->
           LET c == CollapseOne(inShape, inStrides)
           IN  Fit([shape |-> c.shape, strides |-> c.strides, j |-> 1, out |-> <<>>, copy |-> FALSE],
                   shape, 1)
================================================================================
