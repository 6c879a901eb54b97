------------------------------ MODULE ArrayViews -------------------------------
(* Views, and the kernels that trust what a view says of itself: an array is a buffer, an   *)
(* offset, a shape, strides, and flags kept beside them (array.h); transpose, slice, split, *)
(* reshape and broadcast make new arrays of the same buffer and compute the flags anew;     *)
(* kernels choose how to walk over their inputs, and how to lay out what they write, by     *)
(* flags and data size alone.  `x` is the array a client holds and replaces by the result   *)
(* of each operation, `tensor` what its elements should be.  A value is the sequence of     *)
(* what has been done to make it.                                                           *)
EXTENDS Strided
LOCAL INSTANCE SequencesExt
LOCAL INSTANCE FiniteSetsExt
LOCAL INSTANCE FiniteSets
LOCAL INSTANCE TLC

CONSTANTS Shapes,    \* shapes of the arrays the client starts with
          Targets,   \* shapes it reshapes to
          Ranges,    \* <<start, stop, step>> of slices
          Windows,   \* [shape, strides, offset] of as_strided
          MaxOps,    \* bound: operations in a row
          MaxSize    \* bound: elements of an array

VARIABLES x, tensor, ops

vars == <<x, tensor, ops>>

Junk == <<>>  \* what a new buffer holds
Size(a) == Product(a.shape)
Elems(shape) == 0..(Product(shape) - 1)

\* array::set_data: a new row-major array, or a new one with the layout of another.
Malloc(shape) ==
    [shape |-> shape, strides |-> RowMajor(shape), offset |-> 0, dsize |-> Product(shape),
     con |-> TRUE, row |-> TRUE, col |-> RowIsCol(shape), buf |-> [l \in Elems(shape) |-> Junk]]
MallocAs(a) == [a EXCEPT !.offset = 0, !.buf = [l \in 0..(a.dsize - 1) |-> Junk]]

\* array::copy_shared_buffer
Shared(a, shape, strides, flags, dsize, offset) ==
    [shape |-> shape, strides |-> strides, offset |-> a.offset + offset, dsize |-> dsize,
     con |-> flags.con, row |-> flags.row, col |-> flags.col, buf |-> a.buf]

\* array::data and elem_to_loc
Load(a, loc) == IF a.offset + loc \in DOMAIN a.buf THEN a.buf[a.offset + loc] ELSE Junk
Store(a, writes) ==
    LET To(l) == {w \in writes : a.offset + w[1] = l}
    IN  [a EXCEPT !.buf = [l \in DOMAIN @ |-> IF To(l) = {} THEN @[l] ELSE (CHOOSE w \in To(l) : TRUE)[2]]]
At(a, e) == Load(a, ElemToLoc(e, a.shape, a.strides))
Values(a) == [e \in Elems(a.shape) |-> At(a, e)]

----------------------------------------------------------------------------
(* Views. *)

\* Mutant: the flags of the input are kept.
TransposeKeepsFlags(a, axes) ==
    Shared(a, [i \in DOMAIN axes |-> a.shape[axes[i]]], [i \in DOMAIN axes |-> a.strides[axes[i]]], a, a.dsize, 0)

TransposeOf(a, axes) ==
    LET shape == [i \in DOMAIN axes |-> a.shape[axes[i]]]
        strides == [i \in DOMAIN axes |-> a.strides[axes[i]]]
        flags == IF a.con /\ a.dsize = Size(a)
                 THEN [con |-> a.con, row |-> IsRow(shape, strides), col |-> IsCol(shape, strides)]
                 ELSE a
    IN  Shared(a, shape, strides, flags, a.dsize, 0)

\* normalize_slice, for one axis of n elements.
Normalized(n, r) ==
    LET s == IF r[1] < 0 THEN r[1] + n ELSE r[1]
        e == IF r[2] < 0 THEN r[2] + n ELSE r[2]
        Within(i, lo, hi) == Max({lo, Min({i, hi})})
        st == IF r[3] < 0 THEN Min({s, n - 1}) ELSE Within(s, 0, n)
        ed == IF r[3] < 0 THEN Min({Max({e, -1}), st}) ELSE Max({Within(e, 0, n), st})
        step == IF r[3] < 0 THEN -r[3] ELSE r[3]
        len == (IF r[3] < 0 THEN st - ed + step - 1 ELSE ed - st + step - 1) \div step
    IN  [start |-> st, len |-> len, step |-> IF len = 1 THEN 1 ELSE r[3]]

\* prepare_slice
SliceStrides(a, cut) == [i \in DOMAIN cut |-> a.strides[i] * cut[i].step]
SliceOffset(a, cut) == Sum([i \in DOMAIN cut |-> a.strides[i] * cut[i].start])
SliceShape(cut) == [i \in DOMAIN cut |-> cut[i].len]

SliceOf(a, cut) ==
    LET shape == SliceShape(cut)
        strides == SliceStrides(a, cut)
        Extent(i) == strides[i] * (shape[i] - 1)
        high == Sum([i \in DOMAIN cut |-> Max({0, Extent(i)})])
        low == Sum([i \in DOMAIN cut |-> Min({0, Extent(i)})])
        dsize == high - low + 1
    IN  Shared(a, shape, strides,
               [con |-> UnbroadcastSize(shape, strides) = dsize,
                row |-> IsRow(shape, strides), col |-> IsCol(shape, strides)],
               dsize, SliceOffset(a, cut))

\* Split::eval: the part of an axis from lo up to hi.
PartOf(a, ax, lo, hi) ==
    LET shape == [a.shape EXCEPT ![ax] = hi - lo]
        dsize == UnbroadcastSize(shape, a.strides)
        row == IsRow(shape, a.strides)
        col == IsCol(shape, a.strides)
        con == CASE dsize = 1 -> TRUE
                 [] dsize # 1 /\ dsize = a.dsize -> a.con
                 [] OTHER -> a.con /\ (row \/ col)
    IN  Shared(a, shape, a.strides, [con |-> con, row |-> row, col |-> col], dsize, lo * a.strides[ax])

BroadcastOf(a, shape) ==
    LET diff == Len(shape) - Len(a.shape)
        wider == Product(shape) > Size(a)
    IN  Shared(a, shape,
               [i \in DOMAIN shape |-> IF i <= diff \/ a.shape[i - diff] = 1 THEN 0 ELSE a.strides[i - diff]],
               [con |-> a.con, row |-> a.row /\ ~wider, col |-> a.col /\ ~wider], a.dsize, 0)

ExpandDimsOf(a, ax) ==
    Shared(a, InsertAt(a.shape, ax, 1), InsertAt(a.strides, ax, 1), a, a.dsize, 0)

SqueezeOf(a, ax) == Shared(a, RemoveAt(a.shape, ax), RemoveAt(a.strides, ax), a, a.dsize, 0)

----------------------------------------------------------------------------
(* Kernels. *)

\* copy_general and copy_general_general: `src` is read in its own layout.
CopyInto(out, src, ostrides, ooffset) ==
    Store(out, {<<ooffset + step[2], Load(src, step[1])>> :
                  step \in CopySteps(src.shape, src.strides, ostrides, Size(src))})

\* copy_cpu.  A donated buffer is not copied.
CopyOf(a, type, donate) ==
    CASE type = "vector" /\ donate -> a
      [] type = "vector" /\ ~donate -> Store(MallocAs(a), {<<l, Load(a, l)>> : l \in 0..(a.dsize - 1)})
      [] type = "scalar" -> Store(Malloc(a.shape), {<<e, Load(a, 0)>> : e \in Elems(a.shape)})
      [] type = "general" -> CopyInto(Malloc(a.shape), a, RowMajor(a.shape), 0)

\* reshape and shared_buffer_reshape
ReshapeOf(a, shape) ==
    LET r == PrepareReshape(a.shape, a.strides, a.row, shape)
        col == IF a.row THEN RowIsCol(shape) ELSE a.col
    IN  IF r.copy THEN CopyInto(Malloc(shape), a, RowMajor(a.shape), 0)
        ELSE Shared(a, shape, r.out, [con |-> a.con, row |-> a.row, col |-> col], a.dsize, 0)

\* unary_op: all of the buffer in the layout of the input, or element by element.
Applied(v) == Append(v, "f")
\* Mutant: the whole buffer is written, into an array that is laid out row-major.
UnaryRowMajor(a, donate) == Store(Malloc(a.shape), {<<l, Applied(Load(a, l))>> : l \in 0..(a.dsize - 1)})

UnaryOf(a, donate) ==
    LET nd == Len(a.shape)
        last == a.shape[nd]
        Walk(e) == IteratorLoc(e \div last, SubSeq(a.shape, 1, nd - 1), SubSeq(a.strides, 1, nd - 1))
                     + (e % last) * a.strides[nd]
    IN  CASE a.con -> Store(IF donate THEN a ELSE MallocAs(a), {<<l, Applied(Load(a, l))>> : l \in 0..(a.dsize - 1)})
          [] ~a.con /\ nd = 0 -> Store(Malloc(a.shape), {<<0, Applied(Load(a, 0))>>})
          [] OTHER -> Store(Malloc(a.shape), {<<e, Applied(Load(a, Walk(e)))>> : e \in Elems(a.shape)})

\* get_binary_op_type, set_binary_op_output_data and binary_op; `donate` names the operands
\* whose buffer may be taken, "a" or "b" or both.
BinaryOf(a, b, donate) ==
    LET ss == a.dsize = 1 /\ b.dsize = 1
        sv == ~ss /\ a.dsize = 1 /\ b.con
        vs == ~ss /\ ~sv /\ b.dsize = 1 /\ a.con
        vv == ~ss /\ ~sv /\ ~vs /\ ((a.row /\ b.row) \/ (a.col /\ b.col))
        Flat(out, n, i, j) == Store(out, {<<l, Load(a, i * l) \o Load(b, j * l)>> : l \in 0..(n - 1)})
        vector == CASE "a" \in donate -> a
                    [] "a" \notin donate /\ "b" \in donate -> b
                    [] OTHER -> MallocAs(a)
        general == CASE "a" \in donate /\ a.row -> a
                     [] ~("a" \in donate /\ a.row) /\ "b" \in donate /\ b.row -> b
                     [] OTHER -> Malloc(a.shape)
        c == CollapseAll(a.shape, <<a.strides, b.strides, general.strides>>)
        Loc(e, k) == ElemToLoc(e, c.shape, c.strides[k])
    IN  CASE ss -> Flat(MallocAs(a), 1, 0, 0)
          [] sv -> Flat(IF "b" \in donate THEN b ELSE MallocAs(b), b.dsize, 0, 1)
          [] vs -> Flat(IF "a" \in donate THEN a ELSE MallocAs(a), a.dsize, 1, 0)
          [] vv -> Flat(vector, Size(a), 1, 1)
          [] OTHER -> Store(general, {<<Loc(e, 3), Load(a, Loc(e, 1)) \o Load(b, Loc(e, 2))>> : e \in Elems(a.shape)})

----------------------------------------------------------------------------
(* The client. *)

\* An array from data; its values say which element of which array they are.
Data(name, shape) == Store(Malloc(shape), {<<e, <<name, e>>>> : e \in Elems(shape)})

\* The second operand of a binary operation: of the same shape, in every layout.
Operands(shape) ==
    IF shape = <<>> THEN {Data("b", <<>>)}
    ELSE {Data("b", shape), BroadcastOf(Data("b", <<>>), shape), BroadcastOf(Data("b", <<Last(shape)>>), shape),
          TransposeOf(Data("b", Reverse(shape)), Reverse([i \in DOMAIN shape |-> i]))}

Axes == DOMAIN x.shape
Cut(ax, r) == [i \in Axes |-> IF i = ax THEN Normalized(x.shape[i], r)
                                        ELSE [start |-> 0, len |-> x.shape[i], step |-> 1]]
InCut(coord, cut) == ElemOf([i \in DOMAIN cut |-> cut[i].start + coord[i] * cut[i].step], x.shape)

Becomes(a, t) ==
    /\ ops < MaxOps
    /\ Product(a.shape) <= MaxSize
    /\ ops' = ops + 1
    /\ x' = a
    /\ tensor' = t

Transpose ==
    \E axes \in Permutations(Axes) :
        LET a == TransposeOf(x, axes)
            Back(e) == ElemOf([i \in Axes |-> Coord(e, a.shape)[CHOOSE j \in Axes : axes[j] = i]], x.shape)
        IN  /\ \E i \in Axes : axes[i] # i
            /\ Becomes(a, [e \in Elems(a.shape) |-> tensor[Back(e)]])

Slice ==
    \E ax \in Axes, r \in Ranges :
        LET cut == Cut(ax, r)
            a == SliceOf(x, cut)
        IN  /\ cut[ax].len > 0
            /\ r[3] < 0 \/ cut[ax].len < x.shape[ax]
            /\ Becomes(a, [e \in Elems(a.shape) |-> tensor[InCut(Coord(e, a.shape), cut)]])

Split ==
    \E ax \in Axes : \E cut \in 1..(x.shape[ax] - 1), second \in BOOLEAN :
        LET lo == IF second THEN cut ELSE 0
            a == PartOf(x, ax, lo, IF second THEN x.shape[ax] ELSE cut)
            Back(e) == ElemOf([Coord(e, a.shape) EXCEPT ![ax] = @ + lo], x.shape)
        IN  Becomes(a, [e \in Elems(a.shape) |-> tensor[Back(e)]])

Reshape ==
    \E shape \in Targets :
        /\ shape # x.shape
        /\ Product(shape) = Size(x)
        /\ Becomes(ReshapeOf(x, shape), tensor)

Broadcast ==
    \E shape \in {<<2>> \o x.shape} \cup {[x.shape EXCEPT ![ax] = 2] : ax \in {i \in Axes : x.shape[i] = 1}} :
        LET diff == Len(shape) - Len(x.shape)
            Back(e) == ElemOf([i \in Axes |-> Coord(e, shape)[i + diff] % x.shape[i]], x.shape)
        IN  /\ Becomes(BroadcastOf(x, shape), [e \in Elems(shape) |-> tensor[Back(e)]])

ExpandDims == \E ax \in 1..(Len(x.shape) + 1) : Becomes(ExpandDimsOf(x, ax), tensor)
Squeeze == \E ax \in Axes : x.shape[ax] = 1 /\ Becomes(SqueezeOf(x, ax), tensor)

\* as_strided of the flattened array.
AsStrided ==
    LET flat == IF Len(x.shape) = 1 THEN x ELSE ReshapeOf(x, <<Size(x)>>)
    IN  \E w \in Windows :
          LET Loc(e) == w.offset + ElemToLoc(e, w.shape, w.strides)
              row == IsRow(w.shape, w.strides)
              col == IsCol(w.shape, w.strides)
          IN  /\ flat.row
              /\ \A e \in Elems(w.shape) : Loc(e) \in Elems(x.shape)
              /\ Becomes(Shared(flat, w.shape, w.strides, [con |-> row \/ col, row |-> row, col |-> col],
                                Product(w.shape), w.offset),
                         [e \in Elems(w.shape) |-> tensor[Loc(e)]])

Unary == \E donate \in BOOLEAN :
    Becomes(UnaryOf(x, donate), [e \in DOMAIN tensor |-> Applied(tensor[e])])

Binary ==
    \E b \in Operands(x.shape), donate \in SUBSET {"a", "b"} :
        Becomes(BinaryOf(x, b, donate), [e \in DOMAIN tensor |-> tensor[e] \o Values(b)[e]])

AsType == \E donate \in BOOLEAN :
    Becomes(CopyOf(x, IF x.con THEN "vector" ELSE "general", donate), tensor)

Contiguous ==
    \E allowCol \in BOOLEAN :
        /\ Becomes(IF x.row \/ (allowCol /\ x.col) THEN x ELSE CopyOf(x, "general", FALSE), tensor)

\* SliceUpdate::eval_cpu: a copy of the array in which a slice is overwritten.
SliceUpdate ==
    \E ax \in Axes, r \in Ranges, donate \in BOOLEAN :
        LET cut == Cut(ax, r)
            type == CASE x.dsize = 1 -> "scalar"
                      [] x.dsize # 1 /\ x.con /\ x.dsize = Size(x) -> "vector"
                      [] OTHER -> "general"
            out == CopyOf(x, type, donate)
            upd == Data("u", SliceShape(cut))
            Hit(e) == {c \in Elems(upd.shape) : InCut(Coord(c, upd.shape), cut) = e}
        IN  /\ cut[ax].len > 0
            /\ r[3] < 0 \/ cut[ax].len < x.shape[ax]
            /\ Becomes(CopyInto(out, upd, SliceStrides(out, cut), SliceOffset(out, cut)),
                       [e \in DOMAIN tensor |-> IF Hit(e) = {} THEN tensor[e]
                                                ELSE At(upd, CHOOSE c \in Hit(e) : TRUE)])

\* Concatenate::eval_cpu, with an array of the same shape behind it.
Concatenate ==
    \E ax \in Axes :
        LET n == x.shape[ax]
            shape == [x.shape EXCEPT ![ax] = 2 * n]
            out == Malloc(shape)
            b == Data("c", x.shape)
            first == CopyInto(out, x, out.strides, 0)
            In(e) == ElemOf([Coord(e, shape) EXCEPT ![ax] = @ % n], x.shape)
        IN  /\ Becomes(CopyInto(first, b, out.strides, n * out.strides[ax]),
                       [e \in Elems(shape) |-> IF Coord(e, shape)[ax] < n THEN tensor[In(e)] ELSE At(b, In(e))])

Done == ops = MaxOps /\ UNCHANGED vars

Init ==
    /\ x \in {Data("x", shape) : shape \in Shapes}
    /\ tensor = Values(x)
    /\ ops = 0

Next ==
    \/ Transpose \/ Slice \/ Split \/ Reshape \/ Broadcast \/ ExpandDims \/ Squeeze \/ AsStrided
    \/ Unary \/ Binary \/ AsType \/ Contiguous \/ SliceUpdate \/ Concatenate \/ Done

Spec == Init /\ [][Next]_vars

----------------------------------------------------------------------------
Locations(a) == {ElemToLoc(e, a.shape, a.strides) : e \in Elems(a.shape)}

\* What kernels take the flags to mean (array.h, Flags): a contiguous array uses each of the
\* data_size items from its pointer on and nothing else, a row- or column-contiguous one has
\* the strides of that order and as many items as elements.
FlagsRight(a) ==
    /\ a.con => Locations(a) = 0..(a.dsize - 1)
    /\ a.row => IsRow(a.shape, a.strides) /\ a.dsize = Size(a)
    /\ a.col => IsCol(a.shape, a.strides) /\ a.dsize = Size(a)

Reversed(a) == \E i \in DOMAIN a.shape : a.shape[i] > 1 /\ a.strides[i] < 0

\* A part of which only reversed axes are longer than 1 counts as one item, and is called
\* contiguous (common.cpp:222).
SplitSlips == Reversed(x') /\ x'.dsize = 1 /\ Split

\* A column-major array keeps its flag when it is reshaped without a copy, to whatever strides
\* (common.cpp:184).
ReshapeSlips ==
    /\ x.col /\ ~x.row
    /\ ~IsCol(x'.shape, x'.strides)
    /\ ~PrepareReshape(x.shape, x.strides, x.row, x'.shape).copy
    /\ Reshape

\* An array with gaps around it that is row- or column-major itself, as a part may be, keeps the
\* flag whatever the order of its axes becomes (common.cpp:289).
TransposeSlips ==
    /\ ~x.con
    /\ (x.row /\ ~IsRow(x'.shape, x'.strides)) \/ (x.col /\ ~IsCol(x'.shape, x'.strides))
    /\ Transpose

\* The flags of a result, which kernels trust, are true when those of the array were, but for
\* three cases, and in those they never are.
FlagsTrue ==
    [][FlagsRight(x) => (FlagsRight(x') <=> ~(SplitSlips \/ ReshapeSlips \/ TransposeSlips))]_vars

\* The elements of an array, read through its shape and strides, are what the operations that
\* made it say.
Denotes == Values(x) = tensor

\* From an array whose flags are true every operation gives the elements it should, whichever
\* way its kernel walks over the buffers and whichever of them it takes over.
ElementsKept == [][Denotes /\ FlagsRight(x) => Denotes']_vars
================================================================================
