--------------------------- MODULE MetalEvalProofs ----------------------------
(* Safety of evaluation on a Metal stream, for any number of arrays and buffers and any      *)
(* bounds: barriers, fences and retained buffers together keep the order of conflicting      *)
(* dispatches, though no one of them does.                                                   *)
EXTENDS MetalEval, FiniteSetTheorems, SequenceTheorems, TLAPS
LOCAL INSTANCE SequencesExt

Wr(d) == {w[1] : w \in d.writes}
Us(d) == d.reads \cup Wr(d)

Parts == {0, 1, 2}
DispatchSet == [cb : Nat \ {0}, id : Nat \ {0}, seg : Nat, waits : SUBSET (Nat \ {0}),
                reads : SUBSET Buffers, writes : SUBSET (Buffers \X Parts)]
Encoder == [id : Nat, needs : BOOLEAN, conc : BOOLEAN, prev : SUBSET Buffers,
            next : SUBSET Buffers, concOut : SUBSET Buffers, ins : SUBSET Buffers,
            outs : SUBSET Buffers, temps : SUBSET Buffers, seg : Nat, log : Seq(DispatchSet),
            table : [Buffers -> Nat], cbs : Seq(SUBSET (Nat \ {0})), ops : Nat]

\* Between two dispatches nothing is half done; without an encoder there is nothing to end.
Idle(e) ==
    /\ ~e.needs /\ e.next = {}
    /\ ~e.conc => e.concOut = {}
    /\ e.cbs # <<>>
    /\ e.cbs[Len(e.cbs)] = {e.id} \ {0}
    /\ e.id = 0 => e.prev = {} /\ e.concOut = {} /\ e.ins = {} /\ e.outs = {} /\ e.temps = {}

\* A command buffer has at most one encoder, and an encoder one command buffer; the names of
\* encoders are not used again while somebody refers to them.
Names(e) ==
    /\ IsFiniteSet(NamesInUse(e))
    /\ \A c \in DOMAIN e.cbs : \A x, y \in e.cbs[c] : x = y
    /\ \A c1, c2 \in DOMAIN e.cbs : c1 # c2 => e.cbs[c1] \cap e.cbs[c2] = {}
    /\ \A d \in DOMAIN e.log : e.log[d].cb \in DOMAIN e.cbs /\ e.log[d].id \in e.cbs[e.log[d].cb]

\* Encoded later is in the same command buffer or a later one, in the same segment or a later one.
Sorted(e) ==
    \A c, d \in DOMAIN e.log : c < d =>
        /\ e.log[c].cb <= e.log[d].cb
        /\ e.log[c].cb = e.log[d].cb => e.log[c].seg <= e.log[d].seg

\* The table refers to encoders that have been closed and whose command buffers have not completed;
\* a dispatch waits only for encoders before its own.
TableClosed(e) ==
    \A b \in Buffers : e.table[b] # 0 => \E c \in DOMAIN e.cbs : c < Len(e.cbs) /\ e.table[b] \in e.cbs[c]
WaitsBack(e) ==
    \A d \in DOMAIN e.log : \A x \in e.log[d].waits :
        \A c \in DOMAIN e.cbs : e.log[d].cb <= c => x \notin e.cbs[c]

\* What the open encoder knows of its dispatches.
Tracked(e) ==
    /\ \A c \in DOMAIN e.log : e.log[c].cb = Len(e.cbs) =>
          /\ Us(e.log[c]) \subseteq e.ins /\ Wr(e.log[c]) \subseteq e.outs
          /\ e.log[c].seg <= e.seg
          /\ e.log[c].seg = e.seg => Wr(e.log[c]) \subseteq e.prev \cup e.concOut
    /\ \A b \in e.outs : \E c \in DOMAIN e.log : e.log[c].cb = Len(e.cbs) /\ b \in Wr(e.log[c])

\* Temporaries of the open encoder are used by no other.
TempsLocal(e) ==
    \A c \in DOMAIN e.log : e.log[c].cb < Len(e.cbs) => Us(e.log[c]) \cap e.temps = {}

\* Nothing is written behind the back of a dispatch that only reads it.
NoWriteAfterRead(e) ==
    \A c, d \in DOMAIN e.log : c < d => e.log[c].reads \cap Wr(e.log[d]) \subseteq Wr(e.log[c])

\* Within an encoder a barrier is between conflicting dispatches.
Barriers(e) ==
    \A c, d \in DOMAIN e.log :
        c < d /\ e.log[c].cb = e.log[d].cb /\ Conflict(e.log[c], e.log[d]) => e.log[c].seg < e.log[d].seg

\* The table names the encoder of c, which writes b, or a later one, with a dispatch that has not
\* run either, which writes b again; d waits for the encoder of c, or for such a later one.
LastWriter(e, c, b) ==
    \/ e.table[b] = e.log[c].id
    \/ \E k \in DOMAIN e.log : /\ e.log[k].id = e.table[b] /\ b \in Wr(e.log[k])
                               /\ e.log[c].cb < e.log[k].cb /\ e.log[k].cb < Len(e.cbs)
WaitsFor(e, c, d, b) ==
    \/ e.log[c].id \in e.log[d].waits
    \/ \E k \in DOMAIN e.log : /\ e.log[k].id \in e.log[d].waits /\ b \in Wr(e.log[k])
                               /\ e.log[c].cb < e.log[k].cb /\ e.log[k].cb < e.log[d].cb
Fences(e) ==
    \A c, d \in DOMAIN e.log : e.log[c].cb < e.log[d].cb =>
        \A b \in Wr(e.log[c]) \cap Us(e.log[d]) :
            IF e.log[d].cb < Len(e.cbs) THEN WaitsFor(e, c, d, b) ELSE LastWriter(e, c, b)

EncoderInv(e) ==
    /\ e \in Encoder
    /\ Idle(e) /\ Names(e) /\ Sorted(e) /\ TableClosed(e) /\ WaitsBack(e)
    /\ Tracked(e) /\ TempsLocal(e) /\ NoWriteAfterRead(e) /\ Barriers(e) /\ Fences(e)

\* A command buffer not before that of dispatch d retains buffer b.
RetainedFor(e, h, d, b) == \E c \in DOMAIN h : e.log[d].cb <= c /\ b \in h[c]

\* The arrays and what is retained.
Alive(l, c, u) ==
    /\ l \in [Arrays -> Buffers \cup {None}]
    /\ c \in BOOLEAN
    /\ u \subseteq {a \in Arrays : l[a] # None}
    /\ ~c => u = {}
Retains(e, h) ==
    /\ h \in Seq(SUBSET Buffers) /\ Len(h) = Len(e.cbs)
    \* what is only read is retained
    /\ \A d \in DOMAIN e.log : \A b \in e.log[d].reads \ Wr(e.log[d]) :
          RetainedFor(e, h, d, b) \/ b \in e.temps
\* What is used at all is retained, or is the result of something in this call.
Keeps(e, h, l, u) ==
    /\ \A d \in DOMAIN e.log : \A b \in Us(e.log[d]) :
          RetainedFor(e, h, d, b) \/ b \in e.temps \/ \E a \in u : l[a] = b
    /\ \A b \in e.temps : \A a \in Arrays : l[a] # b
\* A buffer that a closed encoder writes is in the table, or was a temporary.
Writers(e, h, l) ==
    \A c \in DOMAIN e.log : e.log[c].cb < Len(e.cbs) => \A b \in Wr(e.log[c]) :
        \/ LastWriter(e, c, b)
        \/ RetainedFor(e, h, c, b) /\ \A a \in Arrays : l[a] # b

IInv ==
    /\ EncoderInv(enc) /\ ~enc.conc
    /\ Alive(live, calling, unused)
    /\ Retains(enc, held) /\ Keeps(enc, held, live, unused) /\ Writers(enc, held, live)

----------------------------------------------------------------------------
(* The names of encoders. *)

\* A new encoder has a name that nothing refers to.
LEMMA FreshName ==
  ASSUME NEW e, IsFiniteSet(NamesInUse(e))
  PROVE  NewName(e) \in Nat \ {0} /\ NewName(e) \notin NamesInUse(e)
<1> DEFINE S == NamesInUse(e)
           c == Cardinality(S)
           T == {n \in 1..(c + 1) : n \notin S}
<1>1. c \in Nat
  BY FS_CardinalityType
<1>2. T # {}
  <2> SUFFICES ASSUME T = {}
               PROVE  FALSE
    OBVIOUS
  <2>1. 1..(c + 1) \in SUBSET S
    OBVIOUS
  <2>2. Cardinality(1..(c + 1)) <= c
    BY <2>1, FS_Subset
  <2>3. Cardinality(1..(c + 1)) = c + 1
    BY <1>1, FS_Interval
  <2> QED
    BY <1>1, <2>2, <2>3
<1>3. \E n \in 1..(c + 1) : n \notin S
  BY <1>2
<1> HIDE DEF S
<1> QED
  BY <1>1, <1>3 DEF NewName, S

LEMMA EncoderTypes ==
  ASSUME NEW e \in Encoder
  PROVE  /\ e.id \in Nat /\ e.seg \in Nat /\ e.table \in [Buffers -> Nat]
         /\ e.ins \subseteq Buffers /\ e.outs \subseteq Buffers /\ e.temps \subseteq Buffers
         /\ Len(e.log) \in Nat /\ DOMAIN e.log = 1..Len(e.log)
         /\ Len(e.cbs) \in Nat /\ DOMAIN e.cbs = 1..Len(e.cbs)
         /\ \A d \in DOMAIN e.log :
              /\ e.log[d].cb \in Nat \ {0} /\ e.log[d].id \in Nat \ {0} /\ e.log[d].seg \in Nat
              /\ e.log[d].waits \subseteq Nat \ {0}
              /\ e.log[d].reads \subseteq Buffers /\ Wr(e.log[d]) \subseteq Buffers
              /\ e.log[d] \in DispatchSet
         /\ \A c \in DOMAIN e.cbs : e.cbs[c] \subseteq Nat \ {0}
<1>1. e.log \in Seq(DispatchSet) /\ e.cbs \in Seq(SUBSET (Nat \ {0}))
  BY DEF Encoder
<1>2. DOMAIN e.log = 1..Len(e.log) /\ Len(e.log) \in Nat /\ \A d \in DOMAIN e.log : e.log[d] \in DispatchSet
  BY <1>1
<1>3. \A x \in DispatchSet :
        /\ x.cb \in Nat \ {0} /\ x.id \in Nat \ {0} /\ x.seg \in Nat /\ x.waits \subseteq Nat \ {0}
        /\ x.reads \subseteq Buffers /\ x.writes \subseteq Buffers \X Parts
  BY DEF DispatchSet
<1>4. \A x \in DispatchSet : Wr(x) \subseteq Buffers
  BY <1>3 DEF Wr
<1>5. DOMAIN e.cbs = 1..Len(e.cbs) /\ Len(e.cbs) \in Nat /\ \A c \in DOMAIN e.cbs : e.cbs[c] \subseteq Nat \ {0}
  BY <1>1
<1>6. /\ e.id \in Nat /\ e.seg \in Nat /\ e.table \in [Buffers -> Nat]
      /\ e.ins \subseteq Buffers /\ e.outs \subseteq Buffers /\ e.temps \subseteq Buffers
  BY DEF Encoder
<1> QED
  BY <1>2, <1>3, <1>4, <1>5, <1>6

LEMMA NamesAre ==
  ASSUME NEW e \in Encoder, NEW n
  PROVE  n \in NamesInUse(e) <=>
           \/ \E b \in Buffers : e.table[b] = n
           \/ \E c \in DOMAIN e.cbs : n \in e.cbs[c]
           \/ \E d \in DOMAIN e.log : n \in e.log[d].waits
<1>1. DOMAIN e.table = Buffers
  BY DEF Encoder
<1>2. DOMAIN e.cbs = 1..Len(e.cbs) /\ DOMAIN e.log = 1..Len(e.log)
  BY DEF Encoder
<1>3. n \in UNION ToSet(e.cbs) <=> \E c \in DOMAIN e.cbs : n \in e.cbs[c]
  BY <1>2 DEF ToSet
<1>4. n \in UNION {d.waits : d \in ToSet(e.log)} <=> \E d \in DOMAIN e.log : n \in e.log[d].waits
  BY <1>2 DEF ToSet
<1>5. n \in {e.table[b] : b \in DOMAIN e.table} <=> \E b \in Buffers : e.table[b] = n
  BY <1>1
<1>6. n \in NamesInUse(e) <=>
        \/ n \in {e.table[b] : b \in DOMAIN e.table}
        \/ n \in UNION ToSet(e.cbs)
        \/ n \in UNION {d.waits : d \in ToSet(e.log)}
  BY DEF NamesInUse
<1> QED
  BY <1>3, <1>4, <1>5, <1>6

----------------------------------------------------------------------------
(* An encoder is opened. *)

\* f is e with an encoder open.
Opens(e, f) ==
    /\ f \in Encoder /\ f.id # 0
    /\ f.needs = e.needs /\ f.conc = e.conc /\ f.prev = e.prev /\ f.next = e.next
    /\ f.concOut = e.concOut /\ f.ins = e.ins /\ f.outs = e.outs /\ f.temps = e.temps
    /\ f.log = e.log /\ f.table = e.table /\ f.ops = e.ops
    /\ Len(f.cbs) = Len(e.cbs) /\ \A c \in 1..(Len(e.cbs) - 1) : f.cbs[c] = e.cbs[c]
    /\ f.cbs[Len(e.cbs)] = {f.id}
    /\ e.id # 0 => f = e
    /\ e.id = 0 => f.id \notin NamesInUse(e)

LEMMA OpenedIs ==
  ASSUME NEW e \in Encoder, EncoderInv(e)
  PROVE  Opens(e, Opened(e))
<1>0. Idle(e) /\ Names(e)
  BY DEF EncoderInv
<1>f. PICK f : f = Opened(e)
  OBVIOUS
<1>1. CASE e.id # 0
  <2>1. f = e
    BY <1>f, <1>1 DEF Opened
  <2> QED
    BY <1>0, <1>f, <1>1, <2>1 DEF Idle, Encoder, Opens
<1>2. CASE e.id = 0
  <2>1. PICK n : n = NewName(e)
    OBVIOUS
  <2>2. n \in Nat /\ n # 0 /\ n \notin NamesInUse(e)
    BY <1>0, <2>1, FreshName DEF Names
  <2>3. e.cbs \in Seq(SUBSET (Nat \ {0})) /\ e.cbs # <<>>
    BY <1>0 DEF Encoder, Idle
  <2>4. PICK cbs : cbs = [e.cbs EXCEPT ![Len(e.cbs)] = @ \cup {n}]
    OBVIOUS
  <2>5. /\ cbs \in Seq(SUBSET (Nat \ {0})) /\ Len(cbs) = Len(e.cbs)
        /\ \A c \in 1..(Len(e.cbs) - 1) : cbs[c] = e.cbs[c]
        /\ cbs[Len(e.cbs)] = {n}
    BY <1>0, <1>2, <2>2, <2>3, <2>4 DEF Idle
  <2>6. f = [e EXCEPT !.id = n, !.seg = 0, !.cbs = cbs]
    BY <1>f, <1>2, <2>1, <2>4 DEF Opened
  <2>7. f \in Encoder
    <3>1. cbs \in Seq(SUBSET (Nat \ {0}))
      BY <2>5
    <3>2. n \in Nat
      BY <2>2
    <3> QED
      BY <2>6, <3>1, <3>2 DEF Encoder
  <2>8. /\ f.id = n /\ f.cbs = cbs
        /\ f.needs = e.needs /\ f.conc = e.conc /\ f.prev = e.prev /\ f.next = e.next
        /\ f.concOut = e.concOut /\ f.ins = e.ins /\ f.outs = e.outs /\ f.temps = e.temps
        /\ f.log = e.log /\ f.table = e.table /\ f.ops = e.ops
    BY <2>6 DEF Encoder
  <2> QED
    BY <1>f, <1>2, <2>2, <2>5, <2>7, <2>8 DEF Opens
<1> QED
  BY <1>1, <1>2

LEMMA OpenedKeeps ==
  ASSUME NEW e \in Encoder, EncoderInv(e), NEW f \in Encoder, Opens(e, f)
  PROVE  EncoderInv(f)
<1>1. CASE e.id # 0
  BY <1>1 DEF Opens
<1>2. CASE e.id = 0
  <2>t. /\ DOMAIN e.cbs = 1..Len(e.cbs) /\ DOMAIN f.cbs = 1..Len(f.cbs) /\ Len(e.cbs) \in Nat
        /\ \A d \in DOMAIN e.log : e.log[d].cb \in Nat /\ e.log[d].id \in Nat
        /\ f.id \in Nat
    BY EncoderTypes
  <2>c. e.cbs[Len(e.cbs)] = {} /\ Len(e.cbs) \in DOMAIN e.cbs
    BY <1>2, <2>t DEF EncoderInv, Idle, Encoder
  <2>b. /\ Len(f.cbs) = Len(e.cbs) /\ DOMAIN f.cbs = DOMAIN e.cbs
        /\ f.cbs[Len(e.cbs)] = {f.id} /\ f.log = e.log /\ f.table = e.table
        /\ \A c \in DOMAIN e.cbs : c # Len(e.cbs) => f.cbs[c] = e.cbs[c]
    BY <2>t DEF Opens
  <2>l. \A d \in DOMAIN e.log : e.log[d].cb \in DOMAIN e.cbs /\ e.log[d].cb # Len(e.cbs)
    BY <2>c DEF EncoderInv, Names
  <2>n. /\ \A b \in Buffers : e.table[b] # f.id
        /\ \A c \in DOMAIN e.cbs : f.id \notin e.cbs[c]
        /\ \A d \in DOMAIN e.log : f.id \notin e.log[d].waits
    BY <1>2, NamesAre DEF Opens
  <2>1. Idle(f)
    <3>1. f.cbs # <<>>
      BY <2>b, <2>c, <2>t
    <3> QED
      BY <1>2, <2>b, <3>1 DEF Opens, EncoderInv, Idle
  <2>2. Names(f)
    <3>1. NamesInUse(f) \subseteq NamesInUse(e) \cup {f.id}
      <4> SUFFICES ASSUME NEW n \in NamesInUse(f), n # f.id
                   PROVE  n \in NamesInUse(e)
        OBVIOUS
      <4>1. \/ \E b \in Buffers : f.table[b] = n
            \/ \E c \in DOMAIN f.cbs : n \in f.cbs[c]
            \/ \E d \in DOMAIN f.log : n \in f.log[d].waits
        BY NamesAre
      <4> QED
        BY <2>b, <4>1, NamesAre
    <3>2. IsFiniteSet(NamesInUse(f))
      BY <3>1, FS_AddElement, FS_Subset DEF EncoderInv, Names
    <3>3. \A c \in DOMAIN f.cbs : \A x, y \in f.cbs[c] : x = y
      BY <2>b DEF EncoderInv, Names
    <3>4. \A c1, c2 \in DOMAIN f.cbs : c1 # c2 => f.cbs[c1] \cap f.cbs[c2] = {}
      BY <2>b, <2>n DEF EncoderInv, Names
    <3>5. \A d \in DOMAIN f.log : f.log[d].cb \in DOMAIN f.cbs /\ f.log[d].id \in f.cbs[f.log[d].cb]
      BY <2>b, <2>l DEF EncoderInv, Names
    <3> QED
      BY <3>2, <3>3, <3>4, <3>5 DEF Names
  <2>3. Sorted(f) /\ NoWriteAfterRead(f) /\ Barriers(f)
    BY <2>b DEF EncoderInv, Sorted, NoWriteAfterRead, Barriers
  <2>4. TableClosed(f)
    BY <2>b, <2>t DEF EncoderInv, TableClosed
  <2>5. WaitsBack(f)
    <3> SUFFICES ASSUME NEW d \in DOMAIN e.log, NEW x \in e.log[d].waits,
                        NEW c \in DOMAIN e.cbs, e.log[d].cb <= c
                 PROVE  x \notin f.cbs[c]
      BY <2>b DEF WaitsBack
    <3>1. x \notin e.cbs[c] /\ x # f.id
      BY <2>n DEF EncoderInv, WaitsBack
    <3> QED
      BY <2>b, <3>1
  <2>6. Tracked(f) /\ TempsLocal(f)
    <3>1. f.outs = {}
      BY <1>2 DEF Opens, EncoderInv, Idle
    <3>2. f.temps = {}
      BY <1>2 DEF Opens, EncoderInv, Idle
    <3> QED
      BY <2>b, <2>l, <3>1, <3>2 DEF Tracked, TempsLocal
  <2>7. Fences(f)
    <3>1. \A c, d, b : WaitsFor(e, c, d, b) <=> WaitsFor(f, c, d, b)
      BY <2>b DEF WaitsFor
    <3>2. \A c, b : LastWriter(e, c, b) <=> LastWriter(f, c, b)
      BY <2>b DEF LastWriter
    <3> QED
      BY <2>b, <3>1, <3>2 DEF EncoderInv, Fences
  <2> QED
    BY <2>1, <2>2, <2>3, <2>4, <2>5, <2>6, <2>7 DEF EncoderInv
<1> QED
  BY <1>1, <1>2

----------------------------------------------------------------------------
(* A kernel is encoded. *)

\* f is e, in which an encoder is open, with a dispatch more; a barrier comes before it if it
\* uses what was written since the last one.
Touches(e, R, W) == (R \cup {w[1] : w \in W}) \cap e.prev # {}
NewDispatch(e, seg, R, W) ==
    [cb |-> Len(e.cbs), id |-> e.id, seg |-> seg, waits |-> {}, reads |-> R, writes |-> W]
Encodes(e, f, R, W) ==
    /\ f \in Encoder
    /\ f.id = e.id /\ f.conc = e.conc /\ f.table = e.table /\ f.cbs = e.cbs /\ f.temps = e.temps
    /\ ~f.needs /\ f.next = {}
    /\ f.ins = e.ins \cup R \cup {w[1] : w \in W} /\ f.outs = e.outs \cup {w[1] : w \in W}
    /\ f.seg = IF Touches(e, R, W) THEN e.seg + 1 ELSE e.seg
    /\ f.prev = (IF Touches(e, R, W) THEN {} ELSE e.prev) \cup (IF e.conc THEN {} ELSE {w[1] : w \in W})
    /\ f.concOut = e.concOut \cup (IF e.conc THEN {w[1] : w \in W} ELSE {})
    /\ f.log = Append(e.log, NewDispatch(e, f.seg, R, W))

LEMMA KernelIs ==
  ASSUME NEW e \in Encoder, e.id # 0, ~e.needs, e.next = {}, e.cbs # <<>>,
         NEW R \in SUBSET Buffers, NEW W \in SUBSET (Buffers \X Parts)
  PROVE  Encodes(e, Kernel(e, R, W), R, W)
<1>1. PICK O : O = {w[1] : w \in W}
  OBVIOUS
<1>2. O \in SUBSET Buffers
  BY <1>1
<1>3. PICK f1 : f1 = [e EXCEPT !.ins = @ \cup R, !.needs = @ \/ R \cap e.prev # {}]
  OBVIOUS
<1>4. f1 = SetInputs(e, R)
  BY <1>3 DEF SetInputs, Opened
<1>5. /\ f1 \in Encoder
      /\ f1.id = e.id /\ f1.needs = (R \cap e.prev # {}) /\ f1.conc = e.conc /\ f1.prev = e.prev
      /\ f1.next = {} /\ f1.concOut = e.concOut /\ f1.ins = e.ins \cup R /\ f1.outs = e.outs
      /\ f1.temps = e.temps /\ f1.seg = e.seg /\ f1.log = e.log /\ f1.table = e.table
      /\ f1.cbs = e.cbs /\ f1.ops = e.ops
  BY <1>3 DEF Encoder
<1>6. PICK f2 : f2 = [f1 EXCEPT !.ins = @ \cup O, !.needs = @ \/ O \cap f1.prev # {}]
  OBVIOUS
<1>7. f2 = SetInputs(f1, O)
  BY <1>5, <1>6 DEF SetInputs, Opened
<1>8. /\ f2 \in Encoder
      /\ f2.id = e.id /\ f2.needs = Touches(e, R, W) /\ f2.conc = e.conc /\ f2.prev = e.prev
      /\ f2.next = {} /\ f2.concOut = e.concOut /\ f2.ins = e.ins \cup R \cup O /\ f2.outs = e.outs
      /\ f2.temps = e.temps /\ f2.seg = e.seg /\ f2.log = e.log /\ f2.table = e.table
      /\ f2.cbs = e.cbs /\ f2.ops = e.ops
  BY <1>1, <1>2, <1>5, <1>6 DEF Encoder, Touches
<1>9. PICK f3 : f3 = RegisterOutputs(f2, O)
  OBVIOUS
<1>10. /\ f3 \in Encoder
       /\ f3.id = e.id /\ f3.needs = Touches(e, R, W) /\ f3.conc = e.conc /\ f3.prev = e.prev
       /\ f3.next = (IF e.conc THEN {} ELSE O) /\ f3.concOut = e.concOut \cup (IF e.conc THEN O ELSE {})
       /\ f3.ins = e.ins \cup R \cup O /\ f3.outs = e.outs \cup O
       /\ f3.temps = e.temps /\ f3.seg = e.seg /\ f3.log = e.log /\ f3.table = e.table
       /\ f3.cbs = e.cbs /\ f3.ops = e.ops
  <2>1. CASE e.conc
    BY <1>2, <1>8, <1>9, <2>1 DEF Encoder, RegisterOutputs
  <2>2. CASE ~e.conc
    BY <1>2, <1>8, <1>9, <2>2 DEF Encoder, RegisterOutputs
  <2> QED
    BY <2>1, <2>2
<1>11. PICK f4 : f4 = MaybeInsertBarrier(f3)
  OBVIOUS
<1>12. /\ f4 \in Encoder
       /\ f4.id = e.id /\ ~f4.needs /\ f4.conc = e.conc /\ f4.next = {}
       /\ f4.prev = (IF Touches(e, R, W) THEN {} ELSE e.prev) \cup (IF e.conc THEN {} ELSE O)
       /\ f4.concOut = e.concOut \cup (IF e.conc THEN O ELSE {})
       /\ f4.ins = e.ins \cup R \cup O /\ f4.outs = e.outs \cup O
       /\ f4.seg = IF Touches(e, R, W) THEN e.seg + 1 ELSE e.seg
       /\ f4.temps = e.temps /\ f4.log = e.log /\ f4.table = e.table
       /\ f4.cbs = e.cbs /\ f4.ops = e.ops
  <2>1. CASE Touches(e, R, W)
    <3>1. f4 = [f3 EXCEPT !.needs = FALSE, !.seg = @ + 1, !.prev = f3.next, !.next = {}]
      BY <1>10, <1>11, <2>1 DEF MaybeInsertBarrier
    <3>2. f3.seg + 1 \in Nat /\ f3.next \in SUBSET Buffers
      BY <1>10 DEF Encoder
    <3>3. f4 \in Encoder
      BY <1>10, <3>1, <3>2 DEF Encoder
    <3>4. /\ f4.id = f3.id /\ f4.needs = FALSE /\ f4.conc = f3.conc /\ f4.next = {} /\ f4.prev = f3.next
          /\ f4.concOut = f3.concOut /\ f4.ins = f3.ins /\ f4.outs = f3.outs /\ f4.seg = f3.seg + 1
          /\ f4.temps = f3.temps /\ f4.log = f3.log /\ f4.table = f3.table
          /\ f4.cbs = f3.cbs /\ f4.ops = f3.ops
      BY <1>10, <3>1 DEF Encoder
    <3> QED
      BY <1>10, <2>1, <3>3, <3>4
  <2>2. CASE ~Touches(e, R, W)
    BY <1>10, <1>11, <2>2 DEF Encoder, MaybeInsertBarrier
  <2> QED
    BY <2>1, <2>2
<1>13. PICK d : d = NewDispatch(e, f4.seg, R, W)
  OBVIOUS
<1>14. d \in DispatchSet
  <2>1. e.id \in Nat \ {0} /\ f4.seg \in Nat /\ Len(e.cbs) \in Nat \ {0}
    BY <1>12, EncoderTypes DEF Encoder
  <2> QED
    BY <1>13, <2>1 DEF DispatchSet, NewDispatch
<1>15. PICK f : f = [f4 EXCEPT !.ops = @ + 1, !.log = Append(@, d)]
  OBVIOUS
<1>16. f = Kernel(e, R, W)
  BY <1>1, <1>4, <1>7, <1>9, <1>11, <1>12, <1>13, <1>15
     DEF Kernel, Dispatch, SetOutputs, NewDispatch
<1>17. /\ f \in Encoder
       /\ f.id = e.id /\ ~f.needs /\ f.conc = e.conc /\ f.next = {} /\ f.prev = f4.prev
       /\ f.concOut = f4.concOut /\ f.ins = f4.ins /\ f.outs = f4.outs /\ f.seg = f4.seg
       /\ f.temps = e.temps /\ f.log = Append(e.log, d) /\ f.table = e.table /\ f.cbs = e.cbs
  <2>1. f4.log \in Seq(DispatchSet) /\ f4.ops + 1 \in Nat
    BY <1>12 DEF Encoder
  <2>2. PICK l : l = Append(f4.log, d)
    OBVIOUS
  <2>3. l \in Seq(DispatchSet)
    BY <1>14, <2>1, <2>2
  <2>4. PICK n : n = f4.ops + 1
    OBVIOUS
  <2>5. n \in Nat
    BY <2>1, <2>4
  <2>6. f = [f4 EXCEPT !.ops = n, !.log = l]
    BY <1>15, <2>2, <2>4
  <2>7. f \in Encoder
    BY <1>12, <2>3, <2>5, <2>6 DEF Encoder
  <2>8. /\ f.id = f4.id /\ f.needs = f4.needs /\ f.conc = f4.conc /\ f.next = f4.next /\ f.prev = f4.prev
        /\ f.concOut = f4.concOut /\ f.ins = f4.ins /\ f.outs = f4.outs /\ f.seg = f4.seg
        /\ f.temps = f4.temps /\ f.log = l /\ f.table = f4.table /\ f.cbs = f4.cbs
    BY <1>12, <2>6 DEF Encoder
  <2> QED
    BY <1>12, <2>2, <2>7, <2>8
<1> QED
  BY <1>1, <1>12, <1>13, <1>16, <1>17 DEF Encodes

\* What makes d fit behind the dispatches of e: the table knows who last wrote what d uses; what
\* is only read is not written; concurrent dispatches do not conflict.
FitsClosed(e, d) ==
    \A c \in DOMAIN e.log : e.log[c].cb < Len(e.cbs) =>
        \A b \in Wr(e.log[c]) \cap Us(d) : LastWriter(e, c, b)
FitsReaders(e, d) ==
    \A c \in DOMAIN e.log : e.log[c].reads \cap Wr(d) \subseteq Wr(e.log[c])
FitsConcurrent(e, d) ==
    \A c \in DOMAIN e.log : e.log[c].cb = Len(e.cbs) /\ Wr(e.log[c]) \cap e.concOut # {} =>
        ~Conflict(e.log[c], d)
Fits(e, d) == FitsClosed(e, d) /\ FitsReaders(e, d) /\ FitsConcurrent(e, d)

LEMMA EncodesLog ==
  ASSUME NEW e \in Encoder, EncoderInv(e), NEW f \in Encoder,
         NEW R \in SUBSET Buffers, NEW W \in SUBSET (Buffers \X Parts), Encodes(e, f, R, W)
  PROVE  \E d \in DispatchSet :
           /\ d = NewDispatch(e, f.seg, R, W)
           /\ Len(e.log) \in Nat /\ DOMAIN e.log = 1..Len(e.log)
           /\ Len(f.log) = Len(e.log) + 1 /\ DOMAIN f.log = 1..(Len(e.log) + 1)
           /\ \A c \in 1..Len(e.log) : f.log[c] = e.log[c]
           /\ f.log[Len(e.log) + 1] = d
           /\ d.cb = Len(e.cbs) /\ d.id = e.id /\ d.seg = f.seg /\ d.waits = {} /\ d.reads = R
           /\ Wr(d) = {w[1] : w \in W} /\ Us(d) = R \cup {w[1] : w \in W}
           /\ Len(e.cbs) \in Nat /\ Len(e.cbs) \in DOMAIN e.cbs
<1>1. e.log \in Seq(DispatchSet) /\ f.log \in Seq(DispatchSet)
  BY DEF Encoder
<1>2. f.log = Append(e.log, NewDispatch(e, f.seg, R, W))
  BY DEF Encodes
<1>3. PICK d : d = NewDispatch(e, f.seg, R, W)
  OBVIOUS
<1>4. f.log = Append(e.log, d)
  BY <1>2, <1>3
<1>5. /\ Len(e.log) \in Nat /\ DOMAIN e.log = 1..Len(e.log)
      /\ Len(f.log) = Len(e.log) + 1 /\ DOMAIN f.log = 1..(Len(e.log) + 1)
      /\ \A c \in 1..Len(e.log) : f.log[c] = e.log[c]
      /\ f.log[Len(e.log) + 1] = d
  BY <1>1, <1>4
<1>6. /\ d.cb = Len(e.cbs) /\ d.id = e.id /\ d.seg = f.seg /\ d.waits = {}
      /\ d.reads = R /\ d.writes = W
  BY <1>3 DEF NewDispatch
<1>7. Len(e.cbs) \in Nat /\ Len(e.cbs) \in DOMAIN e.cbs
  BY DEF EncoderInv, Idle, Encoder
<1>8. Wr(d) = {w[1] : w \in W} /\ Us(d) = R \cup {w[1] : w \in W}
  BY <1>6 DEF Wr, Us
<1>9. d \in DispatchSet
  BY <1>1, <1>5
<1> QED
  BY <1>3, <1>5, <1>6, <1>7, <1>8, <1>9

\* Of two dispatches that conflict, the first writes what the other uses, or the second what it reads.
LEMMA ConflictMeets ==
  ASSUME NEW c, NEW d, Conflict(c, d)
  PROVE  \E b \in Wr(c) \cup Wr(d) : (b \in Wr(c) /\ b \in Us(d)) \/ (b \in c.reads /\ b \in Wr(d))
<1>1. CASE \E w \in c.writes : w[1] \in d.reads
  <2>1. PICK w \in c.writes : w[1] \in d.reads
    BY <1>1
  <2>2. w[1] \in Wr(c) /\ w[1] \in Us(d)
    BY <2>1 DEF Wr, Us
  <2> QED
    BY <2>2
<1>2. CASE \E w \in d.writes : w[1] \in c.reads
  <2>1. PICK w \in d.writes : w[1] \in c.reads
    BY <1>2
  <2> QED
    BY <2>1 DEF Wr, Us
<1>3. CASE \E v \in c.writes, w \in d.writes : Overlap(v, w)
  <2>1. PICK v \in c.writes, w \in d.writes : v[1] = w[1]
    BY <1>3 DEF Overlap
  <2> QED
    BY <2>1 DEF Wr, Us
<1> QED
  BY <1>1, <1>2, <1>3 DEF Conflict

LEMMA EncodesKeeps ==
  ASSUME NEW e \in Encoder, EncoderInv(e), e.id # 0, NEW f \in Encoder,
         NEW R \in SUBSET Buffers, NEW W \in SUBSET (Buffers \X Parts), Encodes(e, f, R, W),
         Fits(e, NewDispatch(e, f.seg, R, W))
  PROVE  EncoderInv(f)
<1>1. PICK d \in DispatchSet :
        /\ d = NewDispatch(e, f.seg, R, W)
        /\ Len(e.log) \in Nat /\ DOMAIN e.log = 1..Len(e.log)
        /\ Len(f.log) = Len(e.log) + 1 /\ DOMAIN f.log = 1..(Len(e.log) + 1)
        /\ \A c \in 1..Len(e.log) : f.log[c] = e.log[c]
        /\ f.log[Len(e.log) + 1] = d
        /\ d.cb = Len(e.cbs) /\ d.id = e.id /\ d.seg = f.seg /\ d.waits = {} /\ d.reads = R
        /\ Wr(d) = {w[1] : w \in W} /\ Us(d) = R \cup {w[1] : w \in W}
        /\ Len(e.cbs) \in Nat /\ Len(e.cbs) \in DOMAIN e.cbs
  BY EncodesLog
<1>2. PICK n : n = Len(e.log)
  OBVIOUS
<1>3. /\ n \in Nat /\ DOMAIN e.log = 1..n
      /\ Len(f.log) = n + 1 /\ DOMAIN f.log = 1..(n + 1)
      /\ \A c \in 1..n : f.log[c] = e.log[c]
      /\ f.log[n + 1] = d
  BY <1>1, <1>2
<1>4. /\ d.cb = Len(e.cbs) /\ d.id = e.id /\ d.seg = f.seg /\ d.waits = {} /\ d.reads = R
      /\ Wr(d) = {w[1] : w \in W} /\ Us(d) = R \cup {w[1] : w \in W}
      /\ Len(e.cbs) \in Nat /\ Len(e.cbs) \in DOMAIN e.cbs
  BY <1>1
<1>5. Fits(e, d)
  BY <1>1
<1>6. /\ f.id = e.id /\ f.conc = e.conc /\ f.table = e.table /\ f.cbs = e.cbs /\ f.temps = e.temps
      /\ ~f.needs /\ f.next = {}
      /\ f.ins = e.ins \cup Us(d) /\ f.outs = e.outs \cup Wr(d)
      /\ e.seg \in Nat /\ f.seg \in Nat /\ e.seg <= f.seg
  BY <1>4, EncoderTypes DEF Encodes
<1>7. \/ f.seg = e.seg + 1
      \/ f.seg = e.seg /\ Us(d) \cap e.prev = {} /\ e.prev \cup e.concOut \subseteq f.prev \cup f.concOut
  BY <1>4 DEF Encodes, Touches
<1>8. Wr(d) \subseteq f.prev \cup f.concOut /\ (~e.conc => f.concOut = e.concOut)
  BY <1>4 DEF Encodes
<1>9. \A c \in 1..n :
        /\ e.log[c].cb \in DOMAIN e.cbs /\ e.log[c].id \in e.cbs[e.log[c].cb]
        /\ e.log[c].cb \in Nat /\ e.log[c].seg \in Nat /\ e.log[c].cb <= Len(e.cbs)
  <2>1. DOMAIN e.cbs = 1..Len(e.cbs) /\ \A c \in 1..n : e.log[c].cb \in Nat /\ e.log[c].seg \in Nat
    BY <1>3, EncoderTypes
  <2>2. \A c \in 1..n : e.log[c].cb \in DOMAIN e.cbs /\ e.log[c].id \in e.cbs[e.log[c].cb]
    BY <1>3 DEF EncoderInv, Names
  <2> QED
    BY <2>1, <2>2
<1>p. \A c1, c2 \in 1..n : c1 < c2 =>
         /\ f.log[c1] = e.log[c1] /\ f.log[c2] = e.log[c2]
         /\ e.log[c1].cb <= e.log[c2].cb
         /\ e.log[c1].cb = e.log[c2].cb => e.log[c1].seg <= e.log[c2].seg
         /\ e.log[c1].reads \cap Wr(e.log[c2]) \subseteq Wr(e.log[c1])
         /\ e.log[c1].cb = e.log[c2].cb /\ Conflict(e.log[c1], e.log[c2]) => e.log[c1].seg < e.log[c2].seg
  BY <1>3 DEF EncoderInv, Sorted, NoWriteAfterRead, Barriers
<1>q. \A c1, c2 \in 1..(n + 1) : c1 < c2 => c1 \in 1..n /\ (c2 \in 1..n \/ c2 = n + 1)
  BY <1>3
<1>a. Idle(f)
  BY <1>6, <1>8 DEF EncoderInv, Idle
<1>b. Names(f)
  <2>1. NamesInUse(f) \subseteq NamesInUse(e)
    <3> SUFFICES ASSUME NEW x \in NamesInUse(f)
                 PROVE  x \in NamesInUse(e)
      OBVIOUS
    <3>1. \/ \E b \in Buffers : f.table[b] = x
          \/ \E c \in DOMAIN f.cbs : x \in f.cbs[c]
          \/ \E c \in DOMAIN f.log : x \in f.log[c].waits
      BY NamesAre
    <3>2. \/ \E b \in Buffers : e.table[b] = x
          \/ \E c \in DOMAIN e.cbs : x \in e.cbs[c]
          \/ \E c \in 1..n : x \in e.log[c].waits
      BY <1>3, <1>4, <1>6, <3>1
    <3> QED
      BY <1>3, <3>2, NamesAre
  <2>2. IsFiniteSet(NamesInUse(f))
    BY <2>1, FS_Subset DEF EncoderInv, Names
  <2>3. \A c \in DOMAIN f.log : f.log[c].cb \in DOMAIN f.cbs /\ f.log[c].id \in f.cbs[f.log[c].cb]
    BY <1>3, <1>4, <1>6, <1>9, SMTT(20) DEF EncoderInv, Idle
  <2> QED
    BY <1>6, <2>2, <2>3 DEF EncoderInv, Names
<1>s. \A c \in 1..n : e.log[c].cb = Len(e.cbs) =>
         /\ Us(e.log[c]) \subseteq e.ins /\ Wr(e.log[c]) \subseteq e.outs
         /\ e.log[c].seg <= e.seg
         /\ e.log[c].seg = e.seg => Wr(e.log[c]) \subseteq e.prev \cup e.concOut
  BY <1>3 DEF EncoderInv, Tracked
<1>c. Sorted(f)
  <2> SUFFICES ASSUME NEW c1 \in 1..(n + 1), NEW c2 \in 1..(n + 1), c1 < c2
               PROVE  /\ f.log[c1].cb <= f.log[c2].cb
                      /\ f.log[c1].cb = f.log[c2].cb => f.log[c1].seg <= f.log[c2].seg
    BY <1>3 DEF Sorted
  <2>1. CASE c2 \in 1..n
    BY <1>p, <1>q, <2>1
  <2>2. CASE c2 = n + 1
    <3>1. c1 \in 1..n /\ f.log[c1] = e.log[c1] /\ f.log[c2] = d
      BY <1>3, <1>q, <2>2
    <3>2. e.log[c1].cb <= Len(e.cbs)
      BY <1>9, <3>1
    <3>3. e.log[c1].cb = Len(e.cbs) => e.log[c1].seg <= f.seg
      BY <1>6, <1>9, <1>s, <3>1
    <3> QED
      BY <1>4, <3>1, <3>2, <3>3
  <2> QED
    BY <1>q, <2>1, <2>2
<1>d. TableClosed(f) /\ WaitsBack(f)
  BY <1>3, <1>4, <1>6 DEF EncoderInv, TableClosed, WaitsBack
<1>e. Tracked(f)
  <2>1. \A c \in 1..n : f.log[c].cb = Len(f.cbs) =>
          /\ Us(f.log[c]) \subseteq f.ins /\ Wr(f.log[c]) \subseteq f.outs
          /\ f.log[c].seg <= f.seg
          /\ f.log[c].seg = f.seg => Wr(f.log[c]) \subseteq f.prev \cup f.concOut
    <3> SUFFICES ASSUME NEW c \in 1..n, e.log[c].cb = Len(e.cbs)
                 PROVE  /\ Us(e.log[c]) \subseteq f.ins /\ Wr(e.log[c]) \subseteq f.outs
                        /\ e.log[c].seg <= f.seg
                        /\ e.log[c].seg = f.seg => Wr(e.log[c]) \subseteq f.prev \cup f.concOut
      BY <1>3, <1>6
    <3>1. /\ Us(e.log[c]) \subseteq e.ins /\ Wr(e.log[c]) \subseteq e.outs
          /\ e.log[c].seg <= e.seg /\ e.log[c].seg \in Nat
          /\ e.log[c].seg = e.seg => Wr(e.log[c]) \subseteq e.prev \cup e.concOut
      BY <1>9, <1>s
    <3>2. e.log[c].seg <= f.seg
      BY <1>6, <3>1
    <3>3. ASSUME e.log[c].seg = f.seg
          PROVE  Wr(e.log[c]) \subseteq f.prev \cup f.concOut
      BY <1>6, <1>7, <3>1, <3>3
    <3> QED
      BY <1>6, <3>1, <3>2, <3>3
  <2>2. /\ Us(f.log[n + 1]) \subseteq f.ins /\ Wr(f.log[n + 1]) \subseteq f.outs
        /\ f.log[n + 1].seg <= f.seg
        /\ Wr(f.log[n + 1]) \subseteq f.prev \cup f.concOut
    BY <1>3, <1>4, <1>6, <1>8
  <2>3. \A b \in e.outs : \E c \in 1..n : e.log[c].cb = Len(e.cbs) /\ b \in Wr(e.log[c])
    BY <1>3 DEF EncoderInv, Tracked
  <2>4. \A b \in f.outs : \E c \in 1..(n + 1) : f.log[c].cb = Len(f.cbs) /\ b \in Wr(f.log[c])
    <3>1. 1..n \subseteq 1..(n + 1) /\ n + 1 \in 1..(n + 1)
      BY <1>3
    <3>2. \A b \in e.outs : \E c \in 1..n : f.log[c].cb = Len(f.cbs) /\ b \in Wr(f.log[c])
      BY <1>3, <1>6, <2>3
    <3>3. f.log[n + 1].cb = Len(f.cbs) /\ f.log[n + 1] = d
      BY <1>3, <1>4, <1>6
    <3> QED
      BY <1>6, <3>1, <3>2, <3>3
  <2> QED
    BY <1>3, <2>1, <2>2, <2>4 DEF Tracked
<1>f. TempsLocal(f)
  BY <1>3, <1>4, <1>6 DEF EncoderInv, TempsLocal
<1>g. NoWriteAfterRead(f)
  <2> SUFFICES ASSUME NEW c1 \in 1..(n + 1), NEW c2 \in 1..(n + 1), c1 < c2
               PROVE  f.log[c1].reads \cap Wr(f.log[c2]) \subseteq Wr(f.log[c1])
    BY <1>3 DEF NoWriteAfterRead
  <2>1. CASE c2 \in 1..n
    BY <1>p, <1>q, <2>1
  <2>2. CASE c2 = n + 1
    BY <1>3, <1>5, <2>2, SMTT(20) DEF Fits, FitsReaders
  <2> QED
    BY <1>3, <2>1, <2>2
<1>h. Barriers(f)
  <2> SUFFICES ASSUME NEW c1 \in 1..(n + 1), NEW c2 \in 1..(n + 1), c1 < c2,
                      f.log[c1].cb = f.log[c2].cb, Conflict(f.log[c1], f.log[c2])
               PROVE  f.log[c1].seg < f.log[c2].seg
    BY <1>3 DEF Barriers
  <2>1. CASE c2 \in 1..n
    BY <1>p, <1>q, <2>1
  <2>2. CASE c2 = n + 1
    <3>1. /\ c1 \in 1..n /\ f.log[c1] = e.log[c1] /\ f.log[c2] = d
          /\ e.log[c1].cb = Len(e.cbs) /\ Conflict(e.log[c1], d)
      BY <1>3, <1>4, <2>2
    <3>2. e.log[c1].seg <= e.seg /\ e.log[c1].seg \in Nat
      BY <1>9, <1>s, <3>1
    <3>3. CASE f.seg = e.seg + 1
      BY <1>4, <1>6, <3>1, <3>2, <3>3
    <3>4. CASE f.seg = e.seg /\ Us(d) \cap e.prev = {}
      <4>1. e.log[c1].seg # e.seg
        <5> SUFFICES ASSUME e.log[c1].seg = e.seg
                     PROVE  FALSE
          OBVIOUS
        <5>1. Wr(e.log[c1]) \subseteq e.prev \cup e.concOut
          BY <1>s, <3>1
        <5>2. e.log[c1].reads \cap Wr(d) \subseteq Wr(e.log[c1])
          BY <1>3, <1>5, <3>1 DEF Fits, FitsReaders
        <5>3. \E b : b \in Wr(e.log[c1]) /\ b \in Us(d)
          BY <3>1, <5>2, ConflictMeets DEF Us
        <5>4. Wr(e.log[c1]) \cap e.concOut # {}
          BY <3>4, <5>1, <5>3
        <5> QED
          BY <1>3, <1>5, <3>1, <5>4 DEF Fits, FitsConcurrent
      <4> QED
        BY <1>4, <1>6, <3>1, <3>2, <3>4, <4>1
    <3> QED
      BY <1>7, <3>3, <3>4
  <2> QED
    BY <1>3, <2>1, <2>2
<1>i. Fences(f)
  <2>1. \A c \in 1..n : \A b : LastWriter(e, c, b) => LastWriter(f, c, b)
    <3> SUFFICES ASSUME NEW c \in 1..n, NEW b, LastWriter(e, c, b)
                 PROVE  LastWriter(f, c, b)
      OBVIOUS
    <3>1. f.log[c] = e.log[c]
      BY <1>3
    <3>2. CASE e.table[b] = e.log[c].id
      BY <1>6, <3>1, <3>2 DEF LastWriter
    <3>3. CASE \E k \in 1..n : /\ e.log[k].id = e.table[b] /\ b \in Wr(e.log[k])
                               /\ e.log[c].cb < e.log[k].cb /\ e.log[k].cb < Len(e.cbs)
      <4>1. PICK k \in 1..n : /\ e.log[k].id = e.table[b] /\ b \in Wr(e.log[k])
                              /\ e.log[c].cb < e.log[k].cb /\ e.log[k].cb < Len(e.cbs)
        BY <3>3
      <4>2. k \in DOMAIN f.log /\ f.log[k] = e.log[k]
        BY <1>3
      <4> QED
        BY <1>6, <3>1, <4>1, <4>2 DEF LastWriter
    <3> QED
      <4>1. \/ e.table[b] = e.log[c].id
            \/ \E k \in 1..n : /\ e.log[k].id = e.table[b] /\ b \in Wr(e.log[k])
                               /\ e.log[c].cb < e.log[k].cb /\ e.log[k].cb < Len(e.cbs)
        BY <1>3 DEF LastWriter
      <4> QED
        BY <3>2, <3>3, <4>1
  <2>2. \A c1, c2 \in 1..n : \A b : WaitsFor(e, c1, c2, b) => WaitsFor(f, c1, c2, b)
    <3>1. \A k \in DOMAIN e.log : k \in DOMAIN f.log /\ f.log[k] = e.log[k]
      BY <1>3
    <3> QED
      BY <1>3, <3>1 DEF WaitsFor
  <2> SUFFICES ASSUME NEW c1 \in 1..(n + 1), NEW c2 \in 1..(n + 1), f.log[c1].cb < f.log[c2].cb,
                      NEW b \in Wr(f.log[c1]) \cap Us(f.log[c2])
               PROVE  IF f.log[c2].cb < Len(f.cbs) THEN WaitsFor(f, c1, c2, b) ELSE LastWriter(f, c1, b)
    BY <1>3 DEF Fences
  <2>c. f.log[c2].cb <= Len(e.cbs)
    BY <1>3, <1>4, <1>9, SMTT(20)
  <2>3. c1 \in 1..n /\ f.log[c1] = e.log[c1] /\ e.log[c1].cb \in Nat
    <3>1. CASE c1 = n + 1
      <4>1. f.log[c1].cb = Len(e.cbs)
        BY <1>3, <1>4, <3>1
      <4>2. f.log[c2].cb \in Nat
        BY <1>3, <1>4, <1>9, SMTT(20)
      <4> QED
        BY <1>4, <2>c, <4>1, <4>2
    <3> QED
      BY <1>3, <1>9, <3>1
  <2>4. CASE c2 \in 1..n
    <3>1. f.log[c2] = e.log[c2]
      BY <1>3, <2>4
    <3>2. IF e.log[c2].cb < Len(e.cbs) THEN WaitsFor(e, c1, c2, b) ELSE LastWriter(e, c1, b)
      BY <1>3, <2>3, <2>4, <3>1 DEF EncoderInv, Fences
    <3> QED
      BY <1>6, <2>1, <2>2, <2>3, <2>4, <3>1, <3>2
  <2>5. CASE c2 = n + 1
    <3>1. f.log[c2] = d /\ e.log[c1].cb < Len(e.cbs) /\ b \in Wr(e.log[c1]) \cap Us(d)
      BY <1>3, <1>4, <2>3, <2>5
    <3>2. LastWriter(e, c1, b)
      BY <1>3, <1>5, <2>3, <3>1 DEF Fits, FitsClosed
    <3>3. ~(f.log[c2].cb < Len(f.cbs))
      BY <1>4, <1>6, <3>1
    <3> QED
      BY <2>1, <2>3, <3>2, <3>3
  <2> QED
    BY <1>3, <2>4, <2>5
<1> QED
  BY <1>a, <1>b, <1>c, <1>d, <1>e, <1>f, <1>g, <1>h, <1>i DEF EncoderInv

----------------------------------------------------------------------------
(* Concurrent parts and temporaries. *)

LEMMA SameTracking ==
  ASSUME NEW e \in Encoder, EncoderInv(e), NEW f \in Encoder,
         f.id = e.id, f.log = e.log, f.table = e.table, f.cbs = e.cbs, f.seg = e.seg,
         f.ins = e.ins, f.outs = e.outs, f.prev \cup f.concOut = e.prev \cup e.concOut,
         Idle(f), TempsLocal(f)
  PROVE  EncoderInv(f)
<1>1. NamesInUse(f) = NamesInUse(e)
  BY DEF NamesInUse
<1>2. Names(f)
  BY <1>1 DEF EncoderInv, Names
<1>3. Sorted(f) /\ TableClosed(f) /\ WaitsBack(f) /\ NoWriteAfterRead(f) /\ Barriers(f)
  BY DEF EncoderInv, Sorted, TableClosed, WaitsBack, NoWriteAfterRead, Barriers
<1>4. Tracked(f)
  BY DEF EncoderInv, Tracked
<1>5. \A c, d, b : WaitsFor(e, c, d, b) <=> WaitsFor(f, c, d, b)
  BY DEF WaitsFor
<1>6. \A c, b : LastWriter(e, c, b) <=> LastWriter(f, c, b)
  BY DEF LastWriter
<1>7. Fences(f)
  BY <1>5, <1>6 DEF EncoderInv, Fences
<1> QED
  BY <1>2, <1>3, <1>4, <1>7 DEF EncoderInv

LEMMA StartKeeps ==
  ASSUME NEW e \in Encoder, EncoderInv(e)
  PROVE  /\ StartConcurrent(e) \in Encoder /\ EncoderInv(StartConcurrent(e)) /\ StartConcurrent(e).conc
         /\ StartConcurrent(e).id = e.id /\ StartConcurrent(e).log = e.log
         /\ StartConcurrent(e).table = e.table /\ StartConcurrent(e).cbs = e.cbs
         /\ StartConcurrent(e).temps = e.temps /\ StartConcurrent(e).concOut = e.concOut
         /\ StartConcurrent(e).prev = e.prev
<1>1. PICK f : f = [e EXCEPT !.conc = TRUE]
  OBVIOUS
<1>2. /\ f \in Encoder /\ f.conc
      /\ f.id = e.id /\ f.log = e.log /\ f.table = e.table /\ f.cbs = e.cbs /\ f.seg = e.seg
      /\ f.ins = e.ins /\ f.outs = e.outs /\ f.prev = e.prev /\ f.concOut = e.concOut
      /\ f.needs = e.needs /\ f.next = e.next /\ f.temps = e.temps
  BY <1>1 DEF Encoder
<1>3. Idle(f) /\ TempsLocal(f)
  BY <1>2 DEF EncoderInv, Idle, TempsLocal
<1>4. EncoderInv(f)
  BY <1>2, <1>3, SameTracking
<1> QED
  BY <1>1, <1>2, <1>4 DEF StartConcurrent

LEMMA EndKeeps ==
  ASSUME NEW e \in Encoder, EncoderInv(e)
  PROVE  /\ EndConcurrent(e) \in Encoder /\ EncoderInv(EndConcurrent(e)) /\ ~EndConcurrent(e).conc
         /\ EndConcurrent(e).id = e.id /\ EndConcurrent(e).log = e.log
         /\ EndConcurrent(e).table = e.table /\ EndConcurrent(e).cbs = e.cbs
         /\ EndConcurrent(e).temps = e.temps
<1>1. PICK f : f = [e EXCEPT !.conc = FALSE, !.prev = @ \cup e.concOut, !.concOut = {}]
  OBVIOUS
<1>2. /\ f \in Encoder /\ ~f.conc
      /\ f.id = e.id /\ f.log = e.log /\ f.table = e.table /\ f.cbs = e.cbs /\ f.seg = e.seg
      /\ f.ins = e.ins /\ f.outs = e.outs /\ f.prev = e.prev \cup e.concOut /\ f.concOut = {}
      /\ f.needs = e.needs /\ f.next = e.next /\ f.temps = e.temps
  BY <1>1 DEF Encoder
<1>3. Idle(f) /\ TempsLocal(f)
  BY <1>2 DEF EncoderInv, Idle, TempsLocal
<1>4. EncoderInv(f)
  BY <1>2, <1>3, SameTracking
<1> QED
  BY <1>1, <1>2, <1>4 DEF EndConcurrent

LEMMA TemporaryKeeps ==
  ASSUME NEW e \in Encoder, EncoderInv(e), e.id # 0, NEW t \in Buffers,
         \A c \in DOMAIN e.log : e.log[c].cb < Len(e.cbs) => t \notin Us(e.log[c])
  PROVE  /\ AddTemporary(e, t) \in Encoder /\ EncoderInv(AddTemporary(e, t))
         /\ AddTemporary(e, t).id = e.id /\ AddTemporary(e, t).log = e.log
         /\ AddTemporary(e, t).table = e.table /\ AddTemporary(e, t).cbs = e.cbs
         /\ AddTemporary(e, t).temps = e.temps \cup {t} /\ AddTemporary(e, t).conc = e.conc
         /\ AddTemporary(e, t).concOut = e.concOut
<1>1. PICK f : f = [e EXCEPT !.temps = @ \cup {t}]
  OBVIOUS
<1>2. /\ f \in Encoder
      /\ f.id = e.id /\ f.log = e.log /\ f.table = e.table /\ f.cbs = e.cbs /\ f.seg = e.seg
      /\ f.ins = e.ins /\ f.outs = e.outs /\ f.prev = e.prev /\ f.concOut = e.concOut
      /\ f.needs = e.needs /\ f.next = e.next /\ f.temps = e.temps \cup {t} /\ f.conc = e.conc
  BY <1>1 DEF Encoder
<1>3. Idle(f) /\ TempsLocal(f)
  BY <1>2 DEF EncoderInv, Idle, TempsLocal
<1>4. EncoderInv(f)
  BY <1>2, <1>3, SameTracking
<1> QED
  BY <1>1, <1>2, <1>4 DEF AddTemporary

----------------------------------------------------------------------------
(* The command buffer is committed. *)

LEMMA FunctionIsSeq ==
  ASSUME NEW S, NEW n \in Nat, NEW s \in [1..n -> S]
  PROVE  s \in Seq(S) /\ Len(s) = n
<1>1. s \in Seq(S)
  BY SeqDef
<1>2. Len(s) \in Nat /\ DOMAIN s = 1..Len(s)
  BY <1>1, LenProperties
<1>3. 1..Len(s) = 1..n
  BY <1>2
<1> QED
  BY <1>1, <1>2, <1>3

\* f is e with its encoder ended and its command buffer committed.
Waited(e) == {e.table[b] : b \in e.ins \ e.temps} \ {0}
Commits(e, f) ==
    /\ f \in Encoder
    /\ f.id = 0 /\ ~f.needs /\ ~f.conc /\ f.prev = {} /\ f.next = {} /\ f.concOut = {}
    /\ f.ins = {} /\ f.outs = {} /\ f.temps = {}
    /\ f.cbs = Append(e.cbs, {})
    /\ \A b \in Buffers : f.table[b] = IF b \in e.outs \ e.temps THEN e.id ELSE e.table[b]
    /\ Len(f.log) = Len(e.log)
    /\ \A d \in DOMAIN e.log :
         /\ f.log[d].cb = e.log[d].cb /\ f.log[d].id = e.log[d].id /\ f.log[d].seg = e.log[d].seg
         /\ f.log[d].reads = e.log[d].reads /\ f.log[d].writes = e.log[d].writes
         /\ f.log[d].waits = IF e.log[d].cb = Len(e.cbs) THEN Waited(e) ELSE e.log[d].waits

\* The dispatches of the open encoder are those of the open command buffer.
LEMMA OpenEncoder ==
  ASSUME NEW e \in Encoder, EncoderInv(e), NEW d \in DOMAIN e.log
  PROVE  e.log[d].id = e.id <=> e.log[d].cb = Len(e.cbs)
<1>1. /\ e.log[d].cb \in DOMAIN e.cbs /\ e.log[d].id \in e.cbs[e.log[d].cb]
      /\ \A c1, c2 \in DOMAIN e.cbs : c1 # c2 => e.cbs[c1] \cap e.cbs[c2] = {}
      /\ e.cbs[Len(e.cbs)] = {e.id} \ {0}
  BY DEF EncoderInv, Names, Idle
<1>2. Len(e.cbs) \in DOMAIN e.cbs
  BY DEF EncoderInv, Idle, Encoder
<1>3. e.log[d].id # 0
  BY EncoderTypes
<1> QED
  BY <1>1, <1>2, <1>3

LEMMA CommitIs ==
  ASSUME NEW e \in Encoder, EncoderInv(e), ~e.conc
  PROVE  Commits(e, Commit(EndEncoding(e)))
<1>i. Idle(e) /\ e.needs \in BOOLEAN
  BY DEF EncoderInv, Encoder
<1>1. PICK w : w = Waited(e)
  OBVIOUS
<1>2. w \in SUBSET (Nat \ {0})
  BY <1>1, EncoderTypes DEF Waited
<1>3. PICK n : n = Len(e.log)
  OBVIOUS
<1>4. n \in Nat /\ DOMAIN e.log = 1..n /\ \A d \in 1..n : e.log[d] \in DispatchSet
  BY <1>3, EncoderTypes
<1>5. PICK l : l = [d \in 1..n |-> IF e.log[d].id = e.id THEN [e.log[d] EXCEPT !.waits = w] ELSE e.log[d]]
  OBVIOUS
<1>6. \A d \in 1..n :
        /\ l[d] \in DispatchSet
        /\ l[d].cb = e.log[d].cb /\ l[d].id = e.log[d].id /\ l[d].seg = e.log[d].seg
        /\ l[d].reads = e.log[d].reads /\ l[d].writes = e.log[d].writes
        /\ l[d].waits = IF e.log[d].cb = Len(e.cbs) THEN w ELSE e.log[d].waits
  <2> SUFFICES ASSUME NEW d \in 1..n
               PROVE  /\ l[d] \in DispatchSet
                      /\ l[d].cb = e.log[d].cb /\ l[d].id = e.log[d].id /\ l[d].seg = e.log[d].seg
                      /\ l[d].reads = e.log[d].reads /\ l[d].writes = e.log[d].writes
                      /\ l[d].waits = IF e.log[d].cb = Len(e.cbs) THEN w ELSE e.log[d].waits
    OBVIOUS
  <2>1. PICK x \in DispatchSet : x = e.log[d]
    BY <1>4
  <2>2. l[d] = IF x.id = e.id THEN [x EXCEPT !.waits = w] ELSE x
    BY <1>5, <2>1
  <2>3. x.id = e.id <=> x.cb = Len(e.cbs)
    BY <1>4, <2>1, OpenEncoder
  <2>4. PICK y : y = [x EXCEPT !.waits = w]
    OBVIOUS
  <2>5. /\ y \in DispatchSet /\ y.cb = x.cb /\ y.id = x.id /\ y.seg = x.seg
        /\ y.reads = x.reads /\ y.writes = x.writes /\ y.waits = w
    BY <1>2, <2>4 DEF DispatchSet
  <2>6. CASE x.id = e.id
    BY <2>1, <2>2, <2>3, <2>4, <2>5, <2>6
  <2>7. CASE x.id # e.id
    BY <2>1, <2>2, <2>3, <2>7
  <2> QED
    BY <2>6, <2>7
<1>7. l \in Seq(DispatchSet) /\ Len(l) = n
  <2>1. l \in [1..n -> DispatchSet]
    BY <1>5, <1>6
  <2> QED
    BY <1>4, <2>1, FunctionIsSeq
<1>8. PICK t : t = [b \in Buffers |-> IF b \in e.outs \ e.temps THEN e.id ELSE e.table[b]]
  OBVIOUS
<1>9. t \in [Buffers -> Nat]
  BY <1>8, EncoderTypes
<1>10. PICK c : c = Append(e.cbs, {})
  OBVIOUS
<1>11. c \in Seq(SUBSET (Nat \ {0}))
  BY <1>10 DEF Encoder
<1>12. PICK g : g = EndEncoding(e)
  OBVIOUS
<1>13. /\ g \in Encoder
       /\ g.id = 0 /\ ~g.needs /\ ~g.conc /\ g.prev = {} /\ g.next = {} /\ g.concOut = {}
       /\ g.ins = {} /\ g.outs = {} /\ g.temps = {}
       /\ g.cbs = e.cbs /\ g.table = t /\ g.log = l
  <2>1. CASE e.id = 0
    <3>1. g = e
      BY <1>12, <2>1 DEF EndEncoding
    <3>2. e.table = t
      BY <1>8, <1>i, <2>1, EncoderTypes DEF Idle
    <3>3. e.log = l
      <4>1. \A d \in 1..n : l[d] = e.log[d]
        BY <1>4, <1>5, <2>1, EncoderTypes
      <4>2. e.log \in Seq(DispatchSet)
        BY DEF Encoder
      <4> QED
        BY <1>3, <1>7, <4>1, <4>2, SeqEqual
    <3> QED
      BY <1>i, <2>1, <3>1, <3>2, <3>3 DEF Idle
  <2>2. CASE e.id # 0
    <3>1. DOMAIN e.table = Buffers
      BY EncoderTypes
    <3>2. g = [e EXCEPT !.id = 0, !.needs = FALSE, !.conc = FALSE, !.prev = {}, !.next = {}, !.concOut = {},
                        !.ins = {}, !.outs = {}, !.temps = {}, !.seg = 0, !.log = l, !.table = t]
      BY <1>1, <1>4, <1>5, <1>8, <1>12, <2>2, <3>1 DEF EndEncoding, Waited
    <3> QED
      BY <1>7, <1>9, <3>2 DEF Encoder
  <2> QED
    BY <2>1, <2>2
<1>14. PICK f : f = [g EXCEPT !.cbs = c, !.ops = 0]
  OBVIOUS
<1>15. f = Commit(EndEncoding(e))
  BY <1>10, <1>12, <1>13, <1>14 DEF Commit
<1>16. /\ f \in Encoder
       /\ f.id = 0 /\ ~f.needs /\ ~f.conc /\ f.prev = {} /\ f.next = {} /\ f.concOut = {}
       /\ f.ins = {} /\ f.outs = {} /\ f.temps = {}
       /\ f.cbs = c /\ f.table = t /\ f.log = l
  BY <1>11, <1>13, <1>14 DEF Encoder
<1> QED
  BY <1>1, <1>3, <1>4, <1>6, <1>7, <1>8, <1>10, <1>15, <1>16 DEF Commits

LEMMA CommitFacts ==
  ASSUME NEW e \in Encoder, EncoderInv(e), NEW f \in Encoder, Commits(e, f)
  PROVE  /\ Len(e.cbs) \in Nat /\ Len(f.cbs) = Len(e.cbs) + 1
         /\ DOMAIN e.cbs = 1..Len(e.cbs) /\ DOMAIN f.cbs = 1..(Len(e.cbs) + 1)
         /\ \A c \in DOMAIN e.cbs : f.cbs[c] = e.cbs[c]
         /\ f.cbs[Len(e.cbs) + 1] = {}
         /\ DOMAIN f.log = DOMAIN e.log
         /\ \A d \in DOMAIN e.log :
              /\ e.log[d].cb \in DOMAIN e.cbs /\ e.log[d].cb \in Nat /\ e.log[d].cb < Len(f.cbs)
              /\ f.log[d].cb = e.log[d].cb /\ f.log[d].id = e.log[d].id /\ f.log[d].seg = e.log[d].seg
              /\ f.log[d].reads = e.log[d].reads /\ f.log[d].writes = e.log[d].writes
              /\ Wr(f.log[d]) = Wr(e.log[d]) /\ Us(f.log[d]) = Us(e.log[d])
              /\ e.log[d].cb < Len(e.cbs) => f.log[d].waits = e.log[d].waits
              /\ e.log[d].cb = Len(e.cbs) => f.log[d].waits = Waited(e)
<1>1. e.cbs \in Seq(SUBSET (Nat \ {0})) /\ f.cbs = Append(e.cbs, {})
  BY DEF Encoder, Commits
<1>2. /\ Len(e.cbs) \in Nat /\ Len(f.cbs) = Len(e.cbs) + 1
      /\ DOMAIN e.cbs = 1..Len(e.cbs) /\ DOMAIN f.cbs = 1..(Len(e.cbs) + 1)
      /\ \A c \in DOMAIN e.cbs : f.cbs[c] = e.cbs[c]
      /\ f.cbs[Len(e.cbs) + 1] = {}
  BY <1>1
<1>3. DOMAIN f.log = DOMAIN e.log
  BY EncoderTypes DEF Commits
<1>4. \A d \in DOMAIN e.log : e.log[d].cb \in DOMAIN e.cbs
  BY DEF EncoderInv, Names
<1>5. \A d \in DOMAIN e.log :
        /\ f.log[d].cb = e.log[d].cb /\ f.log[d].id = e.log[d].id /\ f.log[d].seg = e.log[d].seg
        /\ f.log[d].reads = e.log[d].reads /\ f.log[d].writes = e.log[d].writes
        /\ f.log[d].waits = IF e.log[d].cb = Len(e.cbs) THEN Waited(e) ELSE e.log[d].waits
  BY DEF Commits
<1>6. \A d \in DOMAIN e.log : Wr(f.log[d]) = Wr(e.log[d]) /\ Us(f.log[d]) = Us(e.log[d])
  BY <1>5 DEF Wr, Us
<1>7. \A d \in DOMAIN e.log : e.log[d].cb \in Nat /\ e.log[d].cb <= Len(e.cbs) /\ e.log[d].cb < Len(f.cbs)
  BY <1>2, <1>4
<1> QED
  BY <1>2, <1>3, <1>4, <1>5, <1>6, <1>7

\* Who last wrote a buffer is still known.
LEMMA CommitLastWriter ==
  ASSUME NEW e \in Encoder, EncoderInv(e), NEW f \in Encoder, Commits(e, f),
         NEW c \in DOMAIN e.log, e.log[c].cb < Len(e.cbs),
         NEW b \in Buffers, LastWriter(e, c, b)
  PROVE  LastWriter(f, c, b)
<1>1. CASE b \in e.outs \ e.temps
  <2>1. f.table[b] = e.id
    BY <1>1 DEF Commits
  <2>2. PICK k \in DOMAIN e.log : e.log[k].cb = Len(e.cbs) /\ b \in Wr(e.log[k])
    BY <1>1 DEF EncoderInv, Tracked
  <2>3. e.log[k].id = e.id
    BY <2>2, OpenEncoder
  <2> QED
    BY <2>1, <2>2, <2>3, CommitFacts DEF LastWriter
<1>2. CASE b \notin e.outs \ e.temps
  <2>1. f.table[b] = e.table[b]
    BY <1>2 DEF Commits
  <2>2. CASE e.table[b] = e.log[c].id
    BY <2>1, <2>2, CommitFacts DEF LastWriter
  <2>3. CASE e.table[b] # e.log[c].id
    <3>1. PICK k \in DOMAIN e.log : /\ e.log[k].id = e.table[b] /\ b \in Wr(e.log[k])
                                    /\ e.log[c].cb < e.log[k].cb /\ e.log[k].cb < Len(e.cbs)
      BY <2>3 DEF LastWriter
    <3> QED
      BY <2>1, <3>1, CommitFacts DEF LastWriter
  <2> QED
    BY <2>2, <2>3
<1> QED
  BY <1>1, <1>2

LEMMA CommitKeeps ==
  ASSUME NEW e \in Encoder, EncoderInv(e), NEW f \in Encoder, Commits(e, f)
  PROVE  EncoderInv(f)
<1>1. PICK n : n = Len(e.cbs)
  OBVIOUS
<1>2. /\ n \in Nat /\ Len(f.cbs) = n + 1
      /\ DOMAIN e.cbs = 1..n /\ DOMAIN f.cbs = 1..(n + 1)
      /\ \A c \in 1..n : f.cbs[c] = e.cbs[c]
      /\ f.cbs[n + 1] = {}
      /\ DOMAIN f.log = DOMAIN e.log
  BY <1>1, CommitFacts
<1>3. \A d \in DOMAIN e.log :
        /\ e.log[d].cb \in 1..n /\ e.log[d].cb \in Nat /\ e.log[d].cb < n + 1
        /\ f.log[d].cb = e.log[d].cb /\ f.log[d].id = e.log[d].id /\ f.log[d].seg = e.log[d].seg
        /\ f.log[d].reads = e.log[d].reads /\ f.log[d].writes = e.log[d].writes
        /\ Wr(f.log[d]) = Wr(e.log[d]) /\ Us(f.log[d]) = Us(e.log[d])
        /\ e.log[d].cb < n => f.log[d].waits = e.log[d].waits
        /\ e.log[d].cb = n => f.log[d].waits = Waited(e)
  BY <1>1, CommitFacts
<1>4. /\ \A b \in Buffers : f.table[b] = IF b \in e.outs \ e.temps THEN e.id ELSE e.table[b]
      /\ f.id = 0 /\ ~f.needs /\ ~f.conc /\ f.prev = {} /\ f.next = {} /\ f.concOut = {}
      /\ f.ins = {} /\ f.outs = {} /\ f.temps = {}
  BY DEF Commits
<1>5. /\ e.cbs[n] = {e.id} \ {0} /\ n \in 1..n
      /\ \A c1, c2 \in 1..n : c1 # c2 => e.cbs[c1] \cap e.cbs[c2] = {}
      /\ \A c \in 1..n : \A x, y \in e.cbs[c] : x = y
  <2>1. e.cbs # <<>> /\ e.cbs \in Seq(SUBSET (Nat \ {0})) /\ e.cbs[n] = {e.id} \ {0}
    BY <1>1 DEF EncoderInv, Idle, Encoder
  <2>2. n \in 1..n
    BY <1>1, <2>1
  <2> QED
    BY <1>2, <2>1, <2>2 DEF EncoderInv, Names
<1>6. \A b \in Buffers : e.table[b] # 0 => \E c \in 1..n : c < n /\ e.table[b] \in e.cbs[c]
  BY <1>1, <1>2 DEF EncoderInv, TableClosed
<1>7. \A x \in Waited(e) : \E b \in Buffers : x = e.table[b] /\ x # 0
  BY EncoderTypes DEF Waited
<1>8. \A b \in e.outs : b \in Buffers /\ e.id # 0
  BY EncoderTypes DEF EncoderInv, Idle
<1>a. Idle(f)
  <2>1. f.cbs # <<>> /\ f.cbs[Len(f.cbs)] = {}
    BY <1>2
  <2> QED
    BY <1>4, <2>1 DEF Idle
<1>b. Names(f)
  <2>1. NamesInUse(f) \subseteq NamesInUse(e) \cup {e.id}
    <3> SUFFICES ASSUME NEW x \in NamesInUse(f)
                 PROVE  x \in NamesInUse(e) \cup {e.id}
      OBVIOUS
    <3>1. \/ \E b \in Buffers : f.table[b] = x
          \/ \E c \in DOMAIN f.cbs : x \in f.cbs[c]
          \/ \E d \in DOMAIN f.log : x \in f.log[d].waits
      BY NamesAre
    <3>2. CASE \E b \in Buffers : f.table[b] = x
      BY <1>4, <3>2, NamesAre
    <3>3. CASE \E c \in DOMAIN f.cbs : x \in f.cbs[c]
      <4>1. \E c \in 1..n : x \in e.cbs[c]
        BY <1>2, <3>3
      <4> QED
        BY <1>2, <4>1, NamesAre
    <3>4. CASE \E d \in DOMAIN f.log : x \in f.log[d].waits
      <4>1. PICK d \in DOMAIN e.log : x \in f.log[d].waits
        BY <1>2, <3>4
      <4>2. CASE e.log[d].cb = n
        BY <1>3, <1>7, <4>1, <4>2, NamesAre
      <4>3. CASE e.log[d].cb # n
        <5>1. x \in e.log[d].waits
          BY <1>2, <1>3, <4>1, <4>3
        <5> QED
          BY <5>1, NamesAre
      <4> QED
        BY <4>2, <4>3
    <3> QED
      BY <3>1, <3>2, <3>3, <3>4
  <2>2. IsFiniteSet(NamesInUse(f))
    BY <2>1, FS_AddElement, FS_Subset DEF EncoderInv, Names
  <2>3. \A c \in DOMAIN f.cbs : \A x, y \in f.cbs[c] : x = y
    <3>1. \A c \in 1..(n + 1) : c \in 1..n \/ c = n + 1
      BY <1>2
    <3> QED
      BY <1>2, <1>5, <3>1
  <2>4. \A c1, c2 \in DOMAIN f.cbs : c1 # c2 => f.cbs[c1] \cap f.cbs[c2] = {}
    BY <1>2, <1>5
  <2>5. \A d \in DOMAIN f.log : f.log[d].cb \in DOMAIN f.cbs /\ f.log[d].id \in f.cbs[f.log[d].cb]
    BY <1>2, <1>3 DEF EncoderInv, Names
  <2> QED
    BY <2>2, <2>3, <2>4, <2>5 DEF Names
<1>c. Sorted(f)
  BY <1>2, <1>3 DEF EncoderInv, Sorted
<1>d. TableClosed(f)
  <2> SUFFICES ASSUME NEW b \in Buffers, f.table[b] # 0
               PROVE  \E c \in DOMAIN f.cbs : c < Len(f.cbs) /\ f.table[b] \in f.cbs[c]
    BY DEF TableClosed
  <2>1. CASE b \in e.outs \ e.temps
    BY <1>2, <1>4, <1>5, <1>8, <2>1
  <2>2. CASE b \notin e.outs \ e.temps
    <3>1. PICK c \in 1..n : c < n /\ e.table[b] \in e.cbs[c]
      BY <1>4, <1>6, <2>2
    <3>2. c \in DOMAIN f.cbs /\ c < Len(f.cbs) /\ f.cbs[c] = e.cbs[c] /\ f.table[b] = e.table[b]
      BY <1>2, <1>4, <2>2
    <3> QED
      BY <3>1, <3>2
  <2> QED
    BY <2>1, <2>2
<1>e. WaitsBack(f)
  <2> SUFFICES ASSUME NEW d \in DOMAIN e.log, NEW x \in f.log[d].waits,
                      NEW c \in 1..n, e.log[d].cb <= c
               PROVE  x \notin e.cbs[c]
    BY <1>2, <1>3 DEF WaitsBack
  <2>1. CASE e.log[d].cb = n
    <3>1. PICK b \in Buffers : x = e.table[b] /\ x # 0
      BY <1>3, <1>7, <2>1
    <3>2. PICK k \in 1..n : k < n /\ x \in e.cbs[k]
      BY <1>6, <3>1
    <3>3. c = n
      BY <1>2, <2>1
    <3> QED
      BY <1>5, <3>2, <3>3
  <2>2. CASE e.log[d].cb # n
    <3>1. x \in e.log[d].waits
      BY <1>2, <1>3, <2>2
    <3> QED
      BY <1>2, <3>1 DEF EncoderInv, WaitsBack
  <2> QED
    BY <2>1, <2>2
<1>f. Tracked(f) /\ TempsLocal(f)
  BY <1>2, <1>3, <1>4 DEF Tracked, TempsLocal
<1>g. NoWriteAfterRead(f)
  BY <1>2, <1>3 DEF EncoderInv, NoWriteAfterRead
<1>h. Barriers(f)
  BY <1>2, <1>3 DEF EncoderInv, Barriers, Conflict
<1>i. Fences(f)
  <2> SUFFICES ASSUME NEW c \in DOMAIN e.log, NEW d \in DOMAIN e.log, e.log[c].cb < e.log[d].cb,
                      NEW b \in Wr(e.log[c]) \cap Us(e.log[d])
               PROVE  WaitsFor(f, c, d, b)
    BY <1>2, <1>3 DEF Fences
  <2>1. IF e.log[d].cb < n THEN WaitsFor(e, c, d, b) ELSE LastWriter(e, c, b)
    BY <1>1 DEF EncoderInv, Fences
  <2>2. CASE e.log[d].cb < n
    BY <1>2, <1>3, <2>1, <2>2 DEF WaitsFor
  <2>3. CASE e.log[d].cb = n
    <3>1. b \in e.ins \ e.temps
      <4>1. Us(e.log[d]) \subseteq e.ins
        BY <1>1, <2>3 DEF EncoderInv, Tracked
      <4>2. Us(e.log[c]) \cap e.temps = {}
        BY <1>1, <2>3 DEF EncoderInv, TempsLocal
      <4>3. b \in Us(e.log[c])
        BY DEF Us
      <4> QED
        BY <4>1, <4>2, <4>3
    <3>2. f.log[d].waits = Waited(e)
      BY <1>3, <2>3
    <3>3. e.table[b] # 0 => e.table[b] \in f.log[d].waits
      <4>1. e.table[b] \in {e.table[x] : x \in e.ins \ e.temps}
        BY <3>1
      <4> QED
        BY <3>2, <4>1 DEF Waited
    <3>4. LastWriter(e, c, b)
      BY <1>2, <2>1, <2>3
    <3>5. CASE e.table[b] = e.log[c].id
      <4>1. e.log[c].id # 0
        BY EncoderTypes
      <4> QED
        BY <1>3, <3>3, <3>5, <4>1 DEF WaitsFor
    <3>6. CASE e.table[b] # e.log[c].id
      <4>1. PICK k \in DOMAIN e.log : /\ e.log[k].id = e.table[b] /\ b \in Wr(e.log[k])
                                      /\ e.log[c].cb < e.log[k].cb /\ e.log[k].cb < n
        BY <1>1, <3>4, <3>6 DEF LastWriter
      <4>2. e.log[k].id # 0
        BY EncoderTypes
      <4> QED
        BY <1>2, <1>3, <2>3, <3>3, <4>1, <4>2 DEF WaitsFor
    <3> QED
      BY <3>5, <3>6
  <2> QED
    BY <1>2, <1>3, <2>2, <2>3
<1> QED
  BY <1>a, <1>b, <1>c, <1>d, <1>e, <1>f, <1>g, <1>h, <1>i DEF EncoderInv

----------------------------------------------------------------------------
(* The GPU runs a dispatch. *)

\* f is e without dispatch k: the dispatches of f are the others, in their order.
Moved(k, i) == IF i < k THEN i ELSE i + 1
Runs(e, f, k) ==
    /\ f \in Encoder
    /\ f.id = e.id /\ f.needs = e.needs /\ f.conc = e.conc /\ f.prev = e.prev /\ f.next = e.next
    /\ f.concOut = e.concOut /\ f.ins = e.ins /\ f.outs = e.outs /\ f.temps = e.temps
    /\ f.seg = e.seg /\ f.table = e.table /\ f.cbs = e.cbs
    /\ \A i \in DOMAIN f.log : /\ Moved(k, i) \in DOMAIN e.log /\ Moved(k, i) # k
                               /\ f.log[i] = e.log[Moved(k, i)]
    /\ \A i, j \in DOMAIN f.log : i < j => Moved(k, i) < Moved(k, j)
    /\ \A j \in DOMAIN e.log : j # k => \E i \in DOMAIN f.log : Moved(k, i) = j

LEMMA RanIs ==
  ASSUME NEW e \in Encoder, NEW k \in DOMAIN e.log
  PROVE  Runs(e, Ran(e, k), k)
<1>1. PICK n : n = Len(e.log)
  OBVIOUS
<1>2. n \in Nat /\ DOMAIN e.log = 1..n /\ k \in 1..n /\ e.log \in Seq(DispatchSet)
  BY <1>1, EncoderTypes DEF Encoder
<1>3. PICK l : l = SubSeq(e.log, 1, k - 1) \o SubSeq(e.log, k + 1, n)
  OBVIOUS
<1>4. /\ l \in Seq(DispatchSet) /\ Len(l) = n - 1
      /\ \A i \in 1..(n - 1) : l[i] = IF i < k THEN e.log[i] ELSE e.log[i + 1]
  <2>1. PICK s1, s2 : s1 = SubSeq(e.log, 1, k - 1) /\ s2 = SubSeq(e.log, k + 1, n)
    OBVIOUS
  <2>2. \A i \in 1..n : e.log[i] \in DispatchSet
    BY <1>1, <1>2
  <2>3. /\ s1 \in Seq(DispatchSet) /\ Len(s1) = k - 1
        /\ \A i \in 1..(k - 1) : s1[i] = e.log[i]
    BY <1>2, <2>1, <2>2, SubSeqProperties
  <2>4. /\ s2 \in Seq(DispatchSet) /\ Len(s2) = n - k
        /\ \A i \in 1..(n - k) : s2[i] = e.log[k + i]
    BY <1>2, <2>1, <2>2, SubSeqProperties
  <2>5. l = s1 \o s2
    BY <1>3, <2>1
  <2>6. /\ l \in Seq(DispatchSet) /\ Len(l) = n - 1
        /\ \A i \in 1..(n - 1) : l[i] = IF i <= k - 1 THEN s1[i] ELSE s2[i - (k - 1)]
    <3>1. Len(s1) + Len(s2) = n - 1
      BY <1>2, <2>3, <2>4
    <3>2. /\ l \in Seq(DispatchSet) /\ Len(l) = Len(s1) + Len(s2)
          /\ \A i \in 1..(Len(s1) + Len(s2)) : l[i] = IF i <= Len(s1) THEN s1[i] ELSE s2[i - Len(s1)]
      BY <2>3, <2>4, <2>5, ConcatProperties
    <3> QED
      BY <2>3, <3>1, <3>2
  <2> SUFFICES ASSUME NEW i \in 1..(n - 1)
               PROVE  l[i] = IF i < k THEN e.log[i] ELSE e.log[i + 1]
    BY <2>6
  <2>7. CASE i < k
    BY <1>2, <2>3, <2>6, <2>7
  <2>8. CASE ~(i < k)
    <3>1. i - (k - 1) \in 1..(n - k) /\ k + (i - (k - 1)) = i + 1
      BY <1>2, <2>8
    <3>2. l[i] = s2[i - (k - 1)]
      BY <1>2, <2>6, <2>8
    <3> QED
      BY <2>4, <2>8, <3>1, <3>2
  <2> QED
    BY <2>7, <2>8
<1>5. PICK f : f = [e EXCEPT !.log = l]
  OBVIOUS
<1>6. f = Ran(e, k)
  BY <1>1, <1>3, <1>5 DEF Ran, RemoveAt
<1>7. /\ f \in Encoder /\ f.log = l
      /\ f.id = e.id /\ f.needs = e.needs /\ f.conc = e.conc /\ f.prev = e.prev /\ f.next = e.next
      /\ f.concOut = e.concOut /\ f.ins = e.ins /\ f.outs = e.outs /\ f.temps = e.temps
      /\ f.seg = e.seg /\ f.table = e.table /\ f.cbs = e.cbs
  BY <1>4, <1>5 DEF Encoder
<1>8. DOMAIN f.log = 1..(n - 1)
  BY <1>4, <1>7
<1>9. \A i \in DOMAIN f.log : /\ Moved(k, i) \in DOMAIN e.log /\ Moved(k, i) # k
                             /\ f.log[i] = e.log[Moved(k, i)]
  BY <1>2, <1>4, <1>7, <1>8 DEF Moved
<1>10. \A i, j \in DOMAIN f.log : i < j => Moved(k, i) < Moved(k, j)
  BY <1>2, <1>8 DEF Moved
<1>11. ASSUME NEW j \in DOMAIN e.log, j # k
       PROVE  \E i \in DOMAIN f.log : Moved(k, i) = j
  <2>1. CASE j < k
    BY <1>2, <1>8, <2>1 DEF Moved
  <2>2. CASE j > k
    <3>1. j - 1 \in DOMAIN f.log /\ Moved(k, j - 1) = j
      BY <1>2, <1>8, <2>2 DEF Moved
    <3> QED
      BY <3>1
  <2> QED
    BY <1>2, <1>11, <2>1, <2>2
<1> QED
  BY <1>6, <1>7, <1>9, <1>10, <1>11 DEF Runs

\* When the GPU may start a dispatch, no encoder before its own has one that has not run and that
\* writes what it uses.
LEMMA NoEarlierWriter ==
  ASSUME NEW e \in Encoder, EncoderInv(e), NEW k \in DOMAIN e.log, MayRun(e, k),
         NEW c \in DOMAIN e.log, e.log[c].cb < e.log[k].cb, NEW b \in Wr(e.log[c]) \cap Us(e.log[k])
  PROVE  FALSE
<1>1. e.log[k].cb < Len(e.cbs)
  BY DEF MayRun
<1>2. WaitsFor(e, c, k, b)
  BY <1>1 DEF EncoderInv, Fences
<1>3. \A j \in DOMAIN e.log : e.log[j].id \notin e.log[k].waits
  BY DEF MayRun
<1> QED
  BY <1>2, <1>3 DEF WaitsFor

\* So it was not the one that stood for an earlier writer.
LEMMA RunLastWriter ==
  ASSUME NEW e \in Encoder, EncoderInv(e), NEW k \in DOMAIN e.log, MayRun(e, k),
         NEW f \in Encoder, Runs(e, f, k),
         NEW c \in DOMAIN f.log, NEW b \in Wr(f.log[c]), LastWriter(e, Moved(k, c), b)
  PROVE  LastWriter(f, c, b)
<1>1. PICK m \in DOMAIN e.log : m = Moved(k, c) /\ f.log[c] = e.log[m]
  BY DEF Runs
<1>2. f.table = e.table /\ f.cbs = e.cbs
  BY DEF Runs
<1>3. CASE e.table[b] = e.log[m].id
  BY <1>1, <1>2, <1>3 DEF LastWriter
<1>4. CASE e.table[b] # e.log[m].id
  <2>1. PICK j \in DOMAIN e.log : /\ e.log[j].id = e.table[b] /\ b \in Wr(e.log[j])
                                  /\ e.log[m].cb < e.log[j].cb /\ e.log[j].cb < Len(e.cbs)
    BY <1>1, <1>4 DEF LastWriter
  <2>2. j # k
    BY <1>1, <2>1, NoEarlierWriter DEF Us
  <2>3. PICK i \in DOMAIN f.log : f.log[i] = e.log[j]
    BY <2>2 DEF Runs
  <2> QED
    BY <1>1, <1>2, <2>1, <2>3 DEF LastWriter
<1> QED
  BY <1>3, <1>4

LEMMA RunKeeps ==
  ASSUME NEW e \in Encoder, EncoderInv(e), NEW k \in DOMAIN e.log, MayRun(e, k),
         NEW f \in Encoder, Runs(e, f, k)
  PROVE  EncoderInv(f)
<1>1. /\ f.id = e.id /\ f.needs = e.needs /\ f.conc = e.conc /\ f.prev = e.prev /\ f.next = e.next
      /\ f.concOut = e.concOut /\ f.ins = e.ins /\ f.outs = e.outs /\ f.temps = e.temps
      /\ f.seg = e.seg /\ f.table = e.table /\ f.cbs = e.cbs
  BY DEF Runs
<1>2. \A i \in DOMAIN f.log : /\ Moved(k, i) \in DOMAIN e.log /\ Moved(k, i) # k
                             /\ f.log[i] = e.log[Moved(k, i)]
  BY DEF Runs
<1>3. \A i, j \in DOMAIN f.log : i < j => Moved(k, i) < Moved(k, j)
  BY DEF Runs
<1>4. \A j \in DOMAIN e.log : j # k => \E i \in DOMAIN f.log : f.log[i] = e.log[j]
  BY DEF Runs
<1>5. e.log[k].cb < Len(e.cbs) /\ e.log[k].cb \in Nat /\ Len(e.cbs) \in Nat
  BY EncoderTypes DEF MayRun
<1>a. Idle(f)
  BY <1>1 DEF EncoderInv, Idle
<1>b. Names(f)
  <2>1. NamesInUse(f) \subseteq NamesInUse(e)
    <3> SUFFICES ASSUME NEW x \in NamesInUse(f)
                 PROVE  x \in NamesInUse(e)
      OBVIOUS
    <3>1. \/ \E b \in Buffers : f.table[b] = x
          \/ \E c \in DOMAIN f.cbs : x \in f.cbs[c]
          \/ \E d \in DOMAIN f.log : x \in f.log[d].waits
      BY NamesAre
    <3> QED
      BY <1>1, <1>2, <3>1, NamesAre
  <2>2. IsFiniteSet(NamesInUse(f))
    BY <2>1, FS_Subset DEF EncoderInv, Names
  <2> QED
    BY <1>1, <1>2, <2>2 DEF EncoderInv, Names
<1>c. Sorted(f)
  BY <1>2, <1>3 DEF EncoderInv, Sorted
<1>d. TableClosed(f) /\ WaitsBack(f)
  BY <1>1, <1>2 DEF EncoderInv, TableClosed, WaitsBack
<1>e. Tracked(f)
  <2>1. \A b \in f.outs : \E c \in DOMAIN f.log : f.log[c].cb = Len(f.cbs) /\ b \in Wr(f.log[c])
    <3> SUFFICES ASSUME NEW b \in e.outs
                 PROVE  \E c \in DOMAIN f.log : f.log[c].cb = Len(e.cbs) /\ b \in Wr(f.log[c])
      BY <1>1
    <3>1. PICK c \in DOMAIN e.log : e.log[c].cb = Len(e.cbs) /\ b \in Wr(e.log[c])
      BY DEF EncoderInv, Tracked
    <3>2. c # k
      BY <1>5, <3>1
    <3> QED
      BY <1>4, <3>1, <3>2
  <2> QED
    BY <1>1, <1>2, <2>1 DEF EncoderInv, Tracked
<1>f. TempsLocal(f)
  BY <1>1, <1>2 DEF EncoderInv, TempsLocal
<1>g. NoWriteAfterRead(f) /\ Barriers(f)
  BY <1>2, <1>3 DEF EncoderInv, NoWriteAfterRead, Barriers
<1>i. Fences(f)
  <2> SUFFICES ASSUME NEW c \in DOMAIN f.log, NEW d \in DOMAIN f.log, f.log[c].cb < f.log[d].cb,
                      NEW b \in Wr(f.log[c]) \cap Us(f.log[d])
               PROVE  IF f.log[d].cb < Len(f.cbs) THEN WaitsFor(f, c, d, b) ELSE LastWriter(f, c, b)
    BY DEF Fences
  <2>1. PICK m \in DOMAIN e.log : m = Moved(k, c) /\ f.log[c] = e.log[m]
    BY <1>2
  <2>2. PICK o \in DOMAIN e.log : o = Moved(k, d) /\ f.log[d] = e.log[o]
    BY <1>2
  <2>3. IF e.log[o].cb < Len(e.cbs) THEN WaitsFor(e, m, o, b) ELSE LastWriter(e, m, b)
    BY <2>1, <2>2 DEF EncoderInv, Fences
  <2>4. CASE e.log[o].cb < Len(e.cbs)
    <3>1. WaitsFor(e, m, o, b)
      BY <2>3, <2>4
    <3>2. CASE e.log[m].id \in e.log[o].waits
      BY <1>1, <2>1, <2>2, <2>4, <3>2 DEF WaitsFor
    <3>3. CASE e.log[m].id \notin e.log[o].waits
      <4>1. PICK j \in DOMAIN e.log : /\ e.log[j].id \in e.log[o].waits /\ b \in Wr(e.log[j])
                                      /\ e.log[m].cb < e.log[j].cb /\ e.log[j].cb < e.log[o].cb
        BY <3>1, <3>3 DEF WaitsFor
      <4>2. j # k
        BY <2>1, <4>1, NoEarlierWriter DEF Us
      <4>3. PICK i \in DOMAIN f.log : f.log[i] = e.log[j]
        BY <1>4, <4>2
      <4> QED
        BY <1>1, <2>1, <2>2, <2>4, <4>1, <4>3 DEF WaitsFor
    <3> QED
      BY <3>2, <3>3
  <2>5. CASE ~(e.log[o].cb < Len(e.cbs))
    BY <1>1, <2>1, <2>2, <2>3, <2>5, RunLastWriter
  <2> QED
    BY <2>4, <2>5
<1> QED
  BY <1>a, <1>b, <1>c, <1>d, <1>e, <1>f, <1>g, <1>i DEF EncoderInv

----------------------------------------------------------------------------
(* A command buffer completes. *)

\* f is e without its first command buffer, which has no dispatch left.
Completes(e, f) ==
    /\ f \in Encoder
    /\ f.id = e.id /\ f.needs = e.needs /\ f.conc = e.conc /\ f.prev = e.prev /\ f.next = e.next
    /\ f.concOut = e.concOut /\ f.ins = e.ins /\ f.outs = e.outs /\ f.temps = e.temps /\ f.seg = e.seg
    /\ Len(e.cbs) \in Nat /\ Len(e.cbs) > 1 /\ Len(f.cbs) = Len(e.cbs) - 1
    /\ DOMAIN e.cbs = 1..Len(e.cbs) /\ DOMAIN f.cbs = 1..(Len(e.cbs) - 1)
    /\ \A c \in DOMAIN f.cbs : f.cbs[c] = e.cbs[c + 1]
    /\ \A b \in Buffers : f.table[b] = IF e.table[b] \in e.cbs[1] THEN 0 ELSE e.table[b]
    /\ DOMAIN f.log = DOMAIN e.log
    /\ \A d \in DOMAIN e.log :
         /\ e.log[d].cb \in 2..Len(e.cbs) /\ f.log[d].cb = e.log[d].cb - 1
         /\ f.log[d].id = e.log[d].id /\ f.log[d].seg = e.log[d].seg /\ f.log[d].waits = e.log[d].waits
         /\ f.log[d].reads = e.log[d].reads /\ f.log[d].writes = e.log[d].writes
         /\ Wr(f.log[d]) = Wr(e.log[d]) /\ Us(f.log[d]) = Us(e.log[d])

LEMMA CompletedIs ==
  ASSUME NEW e \in Encoder, EncoderInv(e), MayComplete(e)
  PROVE  Completes(e, Completed(e))
<1>1. PICK n : n = Len(e.log)
  OBVIOUS
<1>2. PICK m : m = Len(e.cbs)
  OBVIOUS
<1>3. /\ n \in Nat /\ DOMAIN e.log = 1..n /\ \A d \in 1..n : e.log[d] \in DispatchSet
      /\ m \in Nat /\ m > 1 /\ DOMAIN e.cbs = 1..m
      /\ \A d \in 1..n : e.log[d].cb \in 2..m
  <2>1. \A d \in DOMAIN e.log : e.log[d].cb \in DOMAIN e.cbs /\ e.log[d].cb # 1
    BY DEF EncoderInv, Names, MayComplete
  <2>2. /\ n \in Nat /\ DOMAIN e.log = 1..n /\ \A d \in 1..n : e.log[d] \in DispatchSet
        /\ m \in Nat /\ DOMAIN e.cbs = 1..m
    BY <1>1, <1>2, EncoderTypes
  <2>3. m > 1
    BY <1>2 DEF MayComplete
  <2> QED
    BY <2>1, <2>2, <2>3
<1>4. PICK l : l = [d \in 1..n |-> [e.log[d] EXCEPT !.cb = @ - 1]]
  OBVIOUS
<1>5. \A d \in 1..n :
        /\ l[d] \in DispatchSet
        /\ l[d].cb = e.log[d].cb - 1 /\ l[d].id = e.log[d].id /\ l[d].seg = e.log[d].seg
        /\ l[d].waits = e.log[d].waits /\ l[d].reads = e.log[d].reads /\ l[d].writes = e.log[d].writes
  <2> SUFFICES ASSUME NEW d \in 1..n
               PROVE  /\ l[d] \in DispatchSet
                      /\ l[d].cb = e.log[d].cb - 1 /\ l[d].id = e.log[d].id /\ l[d].seg = e.log[d].seg
                      /\ l[d].waits = e.log[d].waits /\ l[d].reads = e.log[d].reads
                      /\ l[d].writes = e.log[d].writes
    OBVIOUS
  <2>1. PICK x \in DispatchSet : x = e.log[d]
    BY <1>3
  <2>2. PICK c : c = x.cb - 1
    OBVIOUS
  <2>3. c \in Nat \ {0}
    BY <1>3, <2>1, <2>2
  <2>4. PICK y : y = [x EXCEPT !.cb = c]
    OBVIOUS
  <2>5. /\ y \in DispatchSet /\ y.cb = c /\ y.id = x.id /\ y.seg = x.seg
        /\ y.reads = x.reads /\ y.writes = x.writes /\ y.waits = x.waits
    BY <2>3, <2>4 DEF DispatchSet
  <2>6. l[d] = y
    BY <1>4, <2>1, <2>2, <2>4
  <2> QED
    BY <2>1, <2>2, <2>5, <2>6
<1>6. l \in Seq(DispatchSet) /\ Len(l) = n
  <2>1. l \in [1..n -> DispatchSet]
    BY <1>4, <1>5
  <2> QED
    BY <1>3, <2>1, FunctionIsSeq
<1>7. PICK t : t = [b \in Buffers |-> IF e.table[b] \in e.cbs[1] THEN 0 ELSE e.table[b]]
  OBVIOUS
<1>8. t \in [Buffers -> Nat] /\ DOMAIN e.table = Buffers
  BY <1>7, EncoderTypes
<1>9. PICK c : c = Tail(e.cbs)
  OBVIOUS
<1>10. /\ c \in Seq(SUBSET (Nat \ {0})) /\ Len(c) = m - 1 /\ DOMAIN c = 1..(m - 1)
       /\ \A i \in 1..(m - 1) : c[i] = e.cbs[i + 1]
  <2>1. e.cbs \in Seq(SUBSET (Nat \ {0})) /\ e.cbs # <<>>
    BY DEF EncoderInv, Idle, Encoder
  <2> QED
    BY <1>2, <1>3, <1>9, <2>1
<1>11. PICK f : f = [e EXCEPT !.table = t, !.cbs = c, !.log = l]
  OBVIOUS
<1>12. f = Completed(e)
  <2>1. DOMAIN e.log = 1..n /\ DOMAIN e.table = Buffers
    BY <1>3, <1>8
  <2>2. Completed(e) =
          [e EXCEPT !.table = [b \in Buffers |-> IF e.table[b] \in e.cbs[1] THEN 0 ELSE e.table[b]],
                    !.cbs = Tail(e.cbs),
                    !.log = [d \in 1..n |-> [e.log[d] EXCEPT !.cb = @ - 1]]]
    BY <2>1 DEF Completed
  <2> QED
    BY <1>4, <1>7, <1>9, <1>11, <2>2
<1>13. /\ f \in Encoder
       /\ f.id = e.id /\ f.needs = e.needs /\ f.conc = e.conc /\ f.prev = e.prev /\ f.next = e.next
       /\ f.concOut = e.concOut /\ f.ins = e.ins /\ f.outs = e.outs /\ f.temps = e.temps
       /\ f.seg = e.seg /\ f.table = t /\ f.cbs = c /\ f.log = l
  BY <1>6, <1>8, <1>10, <1>11 DEF Encoder
<1>14. DOMAIN f.log = 1..n
  BY <1>4, <1>13
<1>15. \A d \in 1..n : Wr(f.log[d]) = Wr(e.log[d]) /\ Us(f.log[d]) = Us(e.log[d])
  BY <1>5, <1>13 DEF Wr, Us
<1>16. /\ Len(e.cbs) \in Nat /\ Len(e.cbs) > 1 /\ Len(f.cbs) = Len(e.cbs) - 1
       /\ DOMAIN e.cbs = 1..Len(e.cbs) /\ DOMAIN f.cbs = 1..(Len(e.cbs) - 1)
       /\ \A i \in DOMAIN f.cbs : f.cbs[i] = e.cbs[i + 1]
  BY <1>2, <1>3, <1>10, <1>13
<1>17. \A b \in Buffers : f.table[b] = IF e.table[b] \in e.cbs[1] THEN 0 ELSE e.table[b]
  BY <1>7, <1>13
<1>18. /\ DOMAIN f.log = DOMAIN e.log
       /\ \A d \in DOMAIN e.log :
            /\ e.log[d].cb \in 2..Len(e.cbs) /\ f.log[d].cb = e.log[d].cb - 1
            /\ f.log[d].id = e.log[d].id /\ f.log[d].seg = e.log[d].seg /\ f.log[d].waits = e.log[d].waits
            /\ f.log[d].reads = e.log[d].reads /\ f.log[d].writes = e.log[d].writes
            /\ Wr(f.log[d]) = Wr(e.log[d]) /\ Us(f.log[d]) = Us(e.log[d])
  BY <1>2, <1>3, <1>5, <1>13, <1>14, <1>15
<1> QED
  BY <1>12, <1>13, <1>16, <1>17, <1>18 DEF Completes

LEMMA CompleteLastWriter ==
  ASSUME NEW e \in Encoder, EncoderInv(e), NEW f \in Encoder, Completes(e, f),
         NEW c \in DOMAIN e.log, NEW b \in Buffers, LastWriter(e, c, b)
  PROVE  LastWriter(f, c, b)
<1>1. \A k \in DOMAIN e.log : e.log[k].id = e.table[b] => f.table[b] = e.table[b]
  <2> SUFFICES ASSUME NEW k \in DOMAIN e.log, e.log[k].id = e.table[b]
               PROVE  e.table[b] \notin e.cbs[1]
    BY DEF Completes
  <2>1. e.log[k].cb \in DOMAIN e.cbs /\ e.log[k].cb # 1 /\ 1 \in DOMAIN e.cbs
    BY DEF Completes
  <2>2. e.log[k].id \in e.cbs[e.log[k].cb]
    BY DEF EncoderInv, Names
  <2>3. e.cbs[e.log[k].cb] \cap e.cbs[1] = {}
    BY <2>1 DEF EncoderInv, Names
  <2> QED
    BY <2>2, <2>3
<1>2. CASE e.table[b] = e.log[c].id
  BY <1>1, <1>2 DEF LastWriter, Completes
<1>3. CASE e.table[b] # e.log[c].id
  <2>1. PICK k \in DOMAIN e.log : /\ e.log[k].id = e.table[b] /\ b \in Wr(e.log[k])
                                  /\ e.log[c].cb < e.log[k].cb /\ e.log[k].cb < Len(e.cbs)
    BY <1>3 DEF LastWriter
  <2>2. f.log[k].id = f.table[b] /\ b \in Wr(f.log[k]) /\ k \in DOMAIN f.log
    BY <1>1, <2>1 DEF Completes
  <2>3. f.log[c].cb < f.log[k].cb /\ f.log[k].cb < Len(f.cbs)
    <3>1. /\ f.log[c].cb = e.log[c].cb - 1 /\ f.log[k].cb = e.log[k].cb - 1
          /\ Len(f.cbs) = Len(e.cbs) - 1 /\ Len(e.cbs) \in Nat
      BY DEF Completes
    <3>2. e.log[c].cb \in Nat /\ e.log[k].cb \in Nat
      BY EncoderTypes
    <3> QED
      BY <2>1, <3>1, <3>2, SMTT(20)
  <2> QED
    BY <2>2, <2>3 DEF LastWriter
<1> QED
  BY <1>2, <1>3

LEMMA CompleteKeeps ==
  ASSUME NEW e \in Encoder, EncoderInv(e), NEW f \in Encoder, Completes(e, f)
  PROVE  EncoderInv(f)
<1>1. PICK m : m = Len(e.cbs)
  OBVIOUS
<1>2. /\ m \in Nat /\ m > 1 /\ Len(f.cbs) = m - 1
      /\ DOMAIN e.cbs = 1..m /\ DOMAIN f.cbs = 1..(m - 1) /\ DOMAIN f.log = DOMAIN e.log
      /\ \A c \in 1..(m - 1) : c + 1 \in 1..m /\ f.cbs[c] = e.cbs[c + 1]
  BY <1>1 DEF Completes
<1>3. \A d \in DOMAIN e.log :
         /\ e.log[d].cb \in 2..m /\ e.log[d].cb \in Nat /\ f.log[d].cb = e.log[d].cb - 1
         /\ f.log[d].cb \in 1..(m - 1) /\ f.cbs[f.log[d].cb] = e.cbs[e.log[d].cb]
         /\ f.log[d].id = e.log[d].id /\ f.log[d].seg = e.log[d].seg /\ f.log[d].waits = e.log[d].waits
         /\ f.log[d].reads = e.log[d].reads /\ f.log[d].writes = e.log[d].writes
         /\ Wr(f.log[d]) = Wr(e.log[d]) /\ Us(f.log[d]) = Us(e.log[d])
  <2>1. \A d \in DOMAIN e.log :
         /\ e.log[d].cb \in 2..m /\ f.log[d].cb = e.log[d].cb - 1
         /\ f.log[d].id = e.log[d].id /\ f.log[d].seg = e.log[d].seg /\ f.log[d].waits = e.log[d].waits
         /\ f.log[d].reads = e.log[d].reads /\ f.log[d].writes = e.log[d].writes
         /\ Wr(f.log[d]) = Wr(e.log[d]) /\ Us(f.log[d]) = Us(e.log[d])
    BY <1>1 DEF Completes
  <2>2. \A d \in DOMAIN e.log : e.log[d].cb \in Nat /\ f.log[d].cb \in 1..(m - 1) /\ f.log[d].cb + 1 = e.log[d].cb
    BY <1>2, <2>1, SMTT(20)
  <2> QED
    BY <1>2, <2>1, <2>2
<1>4. \A c, d \in DOMAIN e.log :
        /\ f.log[c].cb < f.log[d].cb <=> e.log[c].cb < e.log[d].cb
        /\ f.log[c].cb <= f.log[d].cb <=> e.log[c].cb <= e.log[d].cb
        /\ f.log[c].cb = f.log[d].cb <=> e.log[c].cb = e.log[d].cb
        /\ f.log[c].cb < Len(f.cbs) <=> e.log[c].cb < m
        /\ f.log[c].cb = Len(f.cbs) <=> e.log[c].cb = m
  <2> SUFFICES ASSUME NEW c \in DOMAIN e.log, NEW d \in DOMAIN e.log
               PROVE  /\ f.log[c].cb < f.log[d].cb <=> e.log[c].cb < e.log[d].cb
                      /\ f.log[c].cb <= f.log[d].cb <=> e.log[c].cb <= e.log[d].cb
                      /\ f.log[c].cb = f.log[d].cb <=> e.log[c].cb = e.log[d].cb
                      /\ f.log[c].cb < Len(f.cbs) <=> e.log[c].cb < m
                      /\ f.log[c].cb = Len(f.cbs) <=> e.log[c].cb = m
    OBVIOUS
  <2>1. PICK x \in Nat, y \in Nat : x = e.log[c].cb /\ y = e.log[d].cb
    BY <1>3
  <2>2. f.log[c].cb = x - 1 /\ f.log[d].cb = y - 1
    BY <1>3, <2>1
  <2> QED
    BY <1>2, <2>1, <2>2, SMTT(20)
<1>5. /\ f.id = e.id /\ f.needs = e.needs /\ f.conc = e.conc /\ f.prev = e.prev /\ f.next = e.next
      /\ f.concOut = e.concOut /\ f.ins = e.ins /\ f.outs = e.outs /\ f.temps = e.temps /\ f.seg = e.seg
      /\ \A b \in Buffers : f.table[b] = IF e.table[b] \in e.cbs[1] THEN 0 ELSE e.table[b]
  BY DEF Completes
<1>a. Idle(f)
  <2>1. f.cbs # <<>> /\ f.cbs[Len(f.cbs)] = e.cbs[Len(e.cbs)]
    BY <1>1, <1>2
  <2> QED
    BY <1>5, <2>1 DEF EncoderInv, Idle
<1>b. Names(f)
  <2>1. NamesInUse(f) \subseteq NamesInUse(e) \cup {0}
    <3> SUFFICES ASSUME NEW x \in NamesInUse(f), x # 0
                 PROVE  x \in NamesInUse(e)
      OBVIOUS
    <3>1. \/ \E b \in Buffers : f.table[b] = x
          \/ \E c \in DOMAIN f.cbs : x \in f.cbs[c]
          \/ \E d \in DOMAIN f.log : x \in f.log[d].waits
      BY NamesAre
    <3>2. CASE \E b \in Buffers : f.table[b] = x
      BY <1>5, <3>2, NamesAre
    <3>3. CASE \E c \in DOMAIN f.cbs : x \in f.cbs[c]
      <4>1. \E c \in 1..m : x \in e.cbs[c]
        BY <1>2, <3>3
      <4> QED
        BY <1>2, <4>1, NamesAre
    <3>4. CASE \E d \in DOMAIN f.log : x \in f.log[d].waits
      BY <1>2, <1>3, <3>4, NamesAre
    <3> QED
      BY <3>1, <3>2, <3>3, <3>4
  <2>2. IsFiniteSet(NamesInUse(f))
    BY <2>1, FS_AddElement, FS_Subset DEF EncoderInv, Names
  <2>3. \A c \in DOMAIN f.cbs : \A x, y \in f.cbs[c] : x = y
    BY <1>2 DEF EncoderInv, Names
  <2>4. \A c1, c2 \in DOMAIN f.cbs : c1 # c2 => f.cbs[c1] \cap f.cbs[c2] = {}
    <3> SUFFICES ASSUME NEW c1 \in 1..(m - 1), NEW c2 \in 1..(m - 1), c1 # c2
                 PROVE  e.cbs[c1 + 1] \cap e.cbs[c2 + 1] = {}
      BY <1>2
    <3>1. c1 + 1 \in 1..m /\ c2 + 1 \in 1..m /\ c1 + 1 # c2 + 1
      BY <1>2
    <3> QED
      BY <1>2, <3>1 DEF EncoderInv, Names
  <2>5. \A d \in DOMAIN f.log : f.log[d].cb \in DOMAIN f.cbs /\ f.log[d].id \in f.cbs[f.log[d].cb]
    BY <1>2, <1>3 DEF EncoderInv, Names
  <2> QED
    BY <2>2, <2>3, <2>4, <2>5 DEF Names
<1>c. Sorted(f)
  BY <1>2, <1>3, <1>4 DEF EncoderInv, Sorted
<1>d. TableClosed(f)
  <2> SUFFICES ASSUME NEW b \in Buffers, f.table[b] # 0
               PROVE  \E c \in 1..(m - 1) : c < m - 1 /\ f.table[b] \in f.cbs[c]
    BY <1>2 DEF TableClosed
  <2>1. f.table[b] = e.table[b] /\ e.table[b] \notin e.cbs[1]
    BY <1>5
  <2>2. PICK c \in 1..m : c < m /\ e.table[b] \in e.cbs[c]
    BY <1>1, <1>2, <2>1 DEF EncoderInv, TableClosed
  <2>3. c # 1
    BY <2>1, <2>2
  <2>4. c - 1 \in 1..(m - 1) /\ c - 1 < m - 1 /\ (c - 1) + 1 = c
    BY <1>2, <2>2, <2>3
  <2> QED
    BY <1>2, <2>1, <2>2, <2>4
<1>e. WaitsBack(f)
  <2> SUFFICES ASSUME NEW d \in DOMAIN f.log, NEW x \in f.log[d].waits,
                      NEW c \in DOMAIN f.cbs, f.log[d].cb <= c
               PROVE  x \notin f.cbs[c]
    BY DEF WaitsBack
  <2>1. d \in DOMAIN e.log /\ x \in e.log[d].waits /\ c \in 1..(m - 1)
    BY <1>2, <1>3
  <2>2. e.log[d].cb \in Nat /\ f.log[d].cb = e.log[d].cb - 1
    BY <1>3, <2>1
  <2>3. c + 1 \in DOMAIN e.cbs /\ e.log[d].cb <= c + 1
    BY <1>2, <2>1, <2>2
  <2>4. x \notin e.cbs[c + 1]
    BY <2>1, <2>3 DEF EncoderInv, WaitsBack
  <2> QED
    BY <1>2, <2>1, <2>4
<1>f. Tracked(f)
  <2>1. \A c \in DOMAIN e.log : e.log[c].cb = m =>
          /\ Us(e.log[c]) \subseteq e.ins /\ Wr(e.log[c]) \subseteq e.outs
          /\ e.log[c].seg <= e.seg
          /\ e.log[c].seg = e.seg => Wr(e.log[c]) \subseteq e.prev \cup e.concOut
    BY <1>1 DEF EncoderInv, Tracked
  <2>2. \A b \in e.outs : \E c \in DOMAIN e.log : e.log[c].cb = m /\ b \in Wr(e.log[c])
    BY <1>1 DEF EncoderInv, Tracked
  <2>3. \A c \in DOMAIN e.log : f.log[c].cb = Len(f.cbs) =>
          /\ Us(f.log[c]) \subseteq f.ins /\ Wr(f.log[c]) \subseteq f.outs
          /\ f.log[c].seg <= f.seg
          /\ f.log[c].seg = f.seg => Wr(f.log[c]) \subseteq f.prev \cup f.concOut
    BY <1>3, <1>4, <1>5, <2>1
  <2>4. \A b \in f.outs : \E c \in DOMAIN e.log : f.log[c].cb = Len(f.cbs) /\ b \in Wr(f.log[c])
    BY <1>3, <1>4, <1>5, <2>2
  <2> QED
    BY <1>2, <2>3, <2>4 DEF Tracked
<1>g. TempsLocal(f)
  <2>1. \A c \in DOMAIN e.log : e.log[c].cb < m => Us(e.log[c]) \cap e.temps = {}
    BY <1>1 DEF EncoderInv, TempsLocal
  <2> QED
    BY <1>2, <1>3, <1>4, <1>5, <2>1 DEF TempsLocal
<1>h. NoWriteAfterRead(f)
  BY <1>2, <1>3 DEF EncoderInv, NoWriteAfterRead
<1>j. Barriers(f)
  <2>1. \A c, d \in DOMAIN e.log : Conflict(f.log[c], f.log[d]) <=> Conflict(e.log[c], e.log[d])
    BY <1>3 DEF Conflict
  <2> QED
    BY <1>2, <1>3, <1>4, <2>1 DEF EncoderInv, Barriers
<1>i. Fences(f)
  <2> SUFFICES ASSUME NEW c \in DOMAIN e.log, NEW d \in DOMAIN e.log, e.log[c].cb < e.log[d].cb,
                      NEW b \in Wr(e.log[c]) \cap Us(e.log[d])
               PROVE  IF e.log[d].cb < m THEN WaitsFor(f, c, d, b) ELSE LastWriter(f, c, b)
    BY <1>2, <1>3, <1>4 DEF Fences
  <2>1. IF e.log[d].cb < m THEN WaitsFor(e, c, d, b) ELSE LastWriter(e, c, b)
    BY <1>1 DEF EncoderInv, Fences
  <2>2. WaitsFor(e, c, d, b) => WaitsFor(f, c, d, b)
    BY <1>2, <1>3, <1>4 DEF WaitsFor
  <2>3. LastWriter(e, c, b) => LastWriter(f, c, b)
    BY EncoderTypes, CompleteLastWriter
  <2> QED
    BY <2>1, <2>2, <2>3
<1> QED
  BY <1>a, <1>b, <1>c, <1>d, <1>e, <1>f, <1>g, <1>h, <1>i, <1>j DEF EncoderInv

----------------------------------------------------------------------------
(* Kernels on any encoder, and which buffers they may use. *)

\* f is e with one dispatch more.
Adds(e, f, R, W) ==
    /\ f \in Encoder /\ EncoderInv(f) /\ f.id # 0 /\ f.conc = e.conc
    /\ f.table = e.table /\ f.temps = e.temps /\ Len(f.cbs) = Len(e.cbs)
    /\ f.concOut = e.concOut \cup (IF e.conc THEN {w[1] : w \in W} ELSE {})
    /\ Len(e.log) \in Nat /\ DOMAIN e.log = 1..Len(e.log) /\ DOMAIN f.log = 1..(Len(e.log) + 1)
    /\ Len(f.log) = Len(e.log) + 1
    /\ \A d \in DOMAIN e.log : f.log[d] = e.log[d]
    /\ f.log[Len(f.log)].cb = Len(e.cbs)
    /\ f.log[Len(f.log)].reads = R /\ f.log[Len(f.log)].writes = W

LEMMA KernelKeeps ==
  ASSUME NEW e \in Encoder, EncoderInv(e),
         NEW R \in SUBSET Buffers, NEW W \in SUBSET (Buffers \X Parts),
         \A d \in DispatchSet : d.reads = R /\ d.writes = W => Fits(e, d)
  PROVE  Adds(e, Kernel(e, R, W), R, W)
<1>1. PICK o : o = Opened(e)
  OBVIOUS
<1>2. Opens(e, o)
  BY <1>1, OpenedIs
<1>3. /\ o \in Encoder /\ o.id # 0 /\ o.conc = e.conc /\ o.table = e.table /\ o.temps = e.temps
      /\ o.concOut = e.concOut /\ o.log = e.log /\ Len(o.cbs) = Len(e.cbs)
  BY <1>2 DEF Opens
<1>4. EncoderInv(o)
  BY <1>2, <1>3, OpenedKeeps
<1>5. PICK f : f = Kernel(o, R, W)
  OBVIOUS
<1>6. f = Kernel(e, R, W)
  <2>1. SetInputs(o, R) = SetInputs(e, R)
    BY <1>1, <1>3 DEF SetInputs, Opened
  <2> QED
    BY <1>5, <2>1 DEF Kernel
<1>7. Encodes(o, f, R, W)
  <2>1. ~o.needs /\ o.next = {} /\ o.cbs # <<>>
    BY <1>4 DEF EncoderInv, Idle
  <2> QED
    BY <1>3, <1>5, <2>1, KernelIs
<1>8. f \in Encoder
  BY <1>7 DEF Encodes
<1>9. PICK d \in DispatchSet :
        /\ d = NewDispatch(o, f.seg, R, W)
        /\ Len(o.log) \in Nat /\ DOMAIN o.log = 1..Len(o.log)
        /\ Len(f.log) = Len(o.log) + 1 /\ DOMAIN f.log = 1..(Len(o.log) + 1)
        /\ \A c \in 1..Len(o.log) : f.log[c] = o.log[c]
        /\ f.log[Len(o.log) + 1] = d
        /\ d.cb = Len(o.cbs) /\ d.id = o.id /\ d.seg = f.seg /\ d.waits = {} /\ d.reads = R
        /\ Wr(d) = {w[1] : w \in W} /\ Us(d) = R \cup {w[1] : w \in W}
        /\ Len(o.cbs) \in Nat /\ Len(o.cbs) \in DOMAIN o.cbs
  <2>1. o \in Encoder
    BY <1>3
  <2> QED
    BY <1>4, <1>7, <1>8, <2>1, EncodesLog
<1>10. d.reads = R /\ d.writes = W
  BY <1>9 DEF NewDispatch
<1>11. Fits(o, d)
  <2>1. Fits(e, d)
    BY <1>9, <1>10
  <2>2. \A c, b : LastWriter(e, c, b) => LastWriter(o, c, b)
    BY <1>3 DEF LastWriter
  <2> QED
    BY <1>3, <2>1, <2>2 DEF Fits, FitsClosed, FitsReaders, FitsConcurrent
<1>12. EncoderInv(f)
  BY <1>3, <1>4, <1>7, <1>8, <1>9, <1>11, EncodesKeeps
<1>13. /\ f.id = o.id /\ f.conc = o.conc /\ f.table = o.table /\ f.cbs = o.cbs /\ f.temps = o.temps
       /\ f.concOut = o.concOut \cup (IF o.conc THEN {w[1] : w \in W} ELSE {})
  BY <1>7 DEF Encodes
<1> QED
  BY <1>3, <1>6, <1>8, <1>9, <1>10, <1>12, <1>13 DEF Adds

\* Nobody refers to buffer b.
Unheld(e, h, l, b) ==
    /\ \A a \in Arrays : l[a] # b
    /\ \A c \in DOMAIN h : b \notin h[c]
    /\ b \notin e.temps

\* A buffer that nobody refers to is used by no dispatch that has not run.
LEMMA UnheldIdle ==
  ASSUME NEW e, NEW h, NEW l, NEW u \in SUBSET Arrays, Keeps(e, h, l, u),
         NEW b, Unheld(e, h, l, b), NEW d \in DOMAIN e.log
  PROVE  b \notin Us(e.log[d])
BY DEF Keeps, RetainedFor, Unheld

\* What a kernel may read and write: buffers of arrays, and buffers nobody refers to; what it
\* writes is not retained by anybody.
LEMMA MayUse ==
  ASSUME NEW e \in Encoder, EncoderInv(e), NEW h, NEW l, NEW u \in SUBSET Arrays,
         Retains(e, h), Keeps(e, h, l, u), Writers(e, h, l),
         NEW d,
         \A b \in Us(d) : Unheld(e, h, l, b) \/ \E a \in Arrays : l[a] = b,
         \A b \in Wr(d) : b \notin e.temps /\ \A c \in DOMAIN h : b \notin h[c]
  PROVE  FitsClosed(e, d) /\ FitsReaders(e, d)
<1>1. FitsClosed(e, d)
  <2> SUFFICES ASSUME NEW c \in DOMAIN e.log, e.log[c].cb < Len(e.cbs), NEW b \in Wr(e.log[c]) \cap Us(d)
               PROVE  LastWriter(e, c, b)
    BY DEF FitsClosed
  <2>1. \/ LastWriter(e, c, b)
        \/ \A a \in Arrays : l[a] # b
    BY DEF Writers
  <2>2. ~Unheld(e, h, l, b)
    BY UnheldIdle DEF Us
  <2> QED
    BY <2>1, <2>2
<1>2. FitsReaders(e, d)
  BY DEF FitsReaders, Retains, RetainedFor
<1> QED
  BY <1>1, <1>2

\* The second of two kernels.
LEMMA MayUseLater ==
  ASSUME NEW e \in Encoder, EncoderInv(e), NEW f \in Encoder, NEW R, NEW W, Adds(e, f, R, W),
         NEW d, FitsClosed(e, d), FitsReaders(e, d), R \cap Wr(d) = {}
  PROVE  FitsClosed(f, d) /\ FitsReaders(f, d)
<1>1. PICK n : n = Len(f.log)
  OBVIOUS
<1>2. /\ \A c \in DOMAIN f.log : c \in DOMAIN e.log \/ c = n
      /\ \A c \in DOMAIN e.log : c \in DOMAIN f.log /\ f.log[c] = e.log[c]
      /\ f.table = e.table /\ Len(f.cbs) = Len(e.cbs) /\ f.log[n].cb = Len(e.cbs) /\ f.log[n].reads = R
  BY <1>1 DEF Adds
<1>3. FitsClosed(f, d)
  <2> SUFFICES ASSUME NEW c \in DOMAIN f.log, f.log[c].cb < Len(f.cbs), NEW b \in Wr(f.log[c]) \cap Us(d)
               PROVE  LastWriter(f, c, b)
    BY DEF FitsClosed
  <2>1. Len(e.cbs) \in Nat
    BY EncoderTypes
  <2>2. c \in DOMAIN e.log
    BY <1>2, <2>1
  <2>3. LastWriter(e, c, b)
    BY <1>2, <2>2 DEF FitsClosed
  <2> QED
    BY <1>2, <2>2, <2>3 DEF LastWriter
<1>4. FitsReaders(f, d)
  BY <1>2 DEF FitsReaders
<1> QED
  BY <1>3, <1>4

----------------------------------------------------------------------------
(* The end of a primitive or of a call: what was used is retained, and the command buffer may *)
(* be committed.                                                                              *)

\* g and i are f and h with `bufs` retained, and possibly committed.
Settled(f, h, g, i, bufs) ==
    /\ g \in Encoder /\ EncoderInv(g) /\ ~g.conc
    /\ i \in Seq(SUBSET Buffers) /\ Len(i) = Len(g.cbs)
    /\ DOMAIN g.log = DOMAIN f.log
    /\ \A d \in DOMAIN f.log :
         /\ g.log[d].cb = f.log[d].cb /\ g.log[d].reads = f.log[d].reads
         /\ Wr(g.log[d]) = Wr(f.log[d]) /\ Us(g.log[d]) = Us(f.log[d])
    /\ g.temps \subseteq f.temps
    /\ \A c \in DOMAIN h : c \in DOMAIN i /\ h[c] \subseteq i[c]
    /\ bufs \subseteq i[Len(h)]
    /\ \A t \in f.temps : t \in g.temps \/ t \in i[Len(h)]
    /\ \A c \in DOMAIN f.log : f.log[c].cb < Len(f.cbs) =>
         \A b \in Wr(f.log[c]) : LastWriter(f, c, b) => LastWriter(g, c, b)
    /\ \A c \in DOMAIN f.log : f.log[c].cb = Len(f.cbs) /\ f.log[c].cb < Len(g.cbs) =>
         \A b \in Wr(f.log[c]) : LastWriter(g, c, b) \/ b \in f.temps

LEMMA RetainedAtEnd ==
  ASSUME NEW h \in Seq(SUBSET Buffers), h # <<>>, NEW bufs \in SUBSET Buffers
  PROVE  LET i == [h EXCEPT ![Len(h)] = @ \cup bufs]
         IN  /\ Len(h) \in Nat /\ Len(h) \in DOMAIN h /\ DOMAIN h = 1..Len(h)
             /\ i \in Seq(SUBSET Buffers) /\ Len(i) = Len(h) /\ DOMAIN i = DOMAIN h
             /\ \A c \in DOMAIN h : h[c] \subseteq i[c]
             /\ bufs \subseteq i[Len(h)]
<1>1. PICK i : i = [h EXCEPT ![Len(h)] = @ \cup bufs]
  OBVIOUS
<1>2. /\ Len(h) \in Nat /\ Len(h) \in DOMAIN h /\ DOMAIN h = 1..Len(h)
      /\ \A c \in DOMAIN h : h[c] \in SUBSET Buffers
  OBVIOUS
<1>3. h[Len(h)] \cup bufs \in SUBSET Buffers
  BY <1>2
<1>4. /\ i \in Seq(SUBSET Buffers) /\ Len(i) = Len(h)
      /\ \A c \in 1..Len(h) : i[c] = IF c = Len(h) THEN h[Len(h)] \cup bufs ELSE h[c]
  BY <1>1, <1>2, <1>3, ExceptSeq
<1> QED
  BY <1>1, <1>2, <1>4

LEMMA RetainSettles ==
  ASSUME NEW f \in Encoder, EncoderInv(f), ~f.conc,
         NEW h \in Seq(SUBSET Buffers), Len(h) = Len(f.cbs), NEW bufs \in SUBSET Buffers
  PROVE  Settled(f, h, f, [h EXCEPT ![Len(h)] = @ \cup bufs], bufs)
<1>1. h # <<>>
  BY DEF EncoderInv, Idle, Encoder
<1>2. PICK i : i = [h EXCEPT ![Len(h)] = @ \cup bufs]
  OBVIOUS
<1>3. /\ i \in Seq(SUBSET Buffers) /\ Len(i) = Len(h) /\ DOMAIN i = DOMAIN h
      /\ \A c \in DOMAIN h : h[c] \subseteq i[c]
      /\ bufs \subseteq i[Len(h)]
  BY <1>1, <1>2, RetainedAtEnd
<1>4. Len(f.cbs) \in Nat
  BY EncoderTypes
<1> QED
  BY <1>2, <1>3, <1>4 DEF Settled

LEMMA CommitSettles ==
  ASSUME NEW f \in Encoder, EncoderInv(f), ~f.conc,
         NEW h \in Seq(SUBSET Buffers), Len(h) = Len(f.cbs), NEW bufs \in SUBSET Buffers
  PROVE  Settled(f, h, Commit(EndEncoding(f)),
                 Append([h EXCEPT ![Len(h)] = @ \cup bufs \cup f.temps], {}), bufs)
<1>1. h # <<>>
  BY DEF EncoderInv, Idle, Encoder
<1>2. PICK j : j = [h EXCEPT ![Len(h)] = @ \cup (bufs \cup f.temps)]
  OBVIOUS
<1>3. bufs \cup f.temps \in SUBSET Buffers
  BY EncoderTypes
<1>4. /\ Len(h) \in Nat /\ Len(h) \in DOMAIN h /\ DOMAIN h = 1..Len(h)
      /\ j \in Seq(SUBSET Buffers) /\ Len(j) = Len(h) /\ DOMAIN j = DOMAIN h
      /\ \A c \in DOMAIN h : h[c] \subseteq j[c]
      /\ bufs \cup f.temps \subseteq j[Len(h)]
  BY <1>1, <1>2, <1>3, RetainedAtEnd
<1>5. PICK i : i = Append(j, {})
  OBVIOUS
<1>6. i = Append([h EXCEPT ![Len(h)] = @ \cup bufs \cup f.temps], {})
  <2>1. h[Len(h)] \cup (bufs \cup f.temps) = h[Len(h)] \cup bufs \cup f.temps
    OBVIOUS
  <2> QED
    BY <1>2, <1>5, <2>1
<1>7. /\ i \in Seq(SUBSET Buffers) /\ Len(i) = Len(h) + 1 /\ DOMAIN i = 1..(Len(h) + 1)
      /\ \A c \in 1..Len(h) : i[c] = j[c]
  BY <1>4, <1>5
<1>8. PICK g : g = Commit(EndEncoding(f))
  OBVIOUS
<1>9. Commits(f, g)
  BY <1>8, CommitIs
<1>10. g \in Encoder /\ ~g.conc /\ g.temps = {}
  BY <1>9 DEF Commits
<1>11. EncoderInv(g)
  BY <1>9, <1>10, CommitKeeps
<1>12. /\ Len(f.cbs) \in Nat /\ Len(g.cbs) = Len(f.cbs) + 1
       /\ DOMAIN g.log = DOMAIN f.log
       /\ \A d \in DOMAIN f.log :
            /\ f.log[d].cb \in Nat
            /\ g.log[d].cb = f.log[d].cb /\ g.log[d].id = f.log[d].id /\ g.log[d].reads = f.log[d].reads
            /\ Wr(g.log[d]) = Wr(f.log[d]) /\ Us(g.log[d]) = Us(f.log[d])
  BY <1>9, <1>10, CommitFacts
<1>13. \A c \in DOMAIN h : c \in DOMAIN i /\ h[c] \subseteq i[c]
  BY <1>4, <1>7
<1>14. bufs \subseteq i[Len(h)] /\ f.temps \subseteq i[Len(h)]
  BY <1>4, <1>7
<1>15. \A c \in DOMAIN f.log : f.log[c].cb < Len(f.cbs) =>
         \A b \in Wr(f.log[c]) : LastWriter(f, c, b) => LastWriter(g, c, b)
  BY <1>9, <1>10, EncoderTypes, CommitLastWriter
<1>16. ASSUME NEW c \in DOMAIN f.log, f.log[c].cb = Len(f.cbs), NEW b \in Wr(f.log[c]), b \notin f.temps
       PROVE  LastWriter(g, c, b)
  <2>1. b \in f.outs /\ b \in Buffers
    BY <1>16, EncoderTypes DEF EncoderInv, Tracked
  <2>2. g.table[b] = f.id
    BY <1>9, <1>16, <2>1 DEF Commits
  <2>3. f.log[c].id = f.id
    BY <1>16, OpenEncoder
  <2> QED
    BY <1>12, <2>2, <2>3 DEF LastWriter
<1> QED
  BY <1>6, <1>7, <1>8, <1>10, <1>11, <1>12, <1>13, <1>14, <1>15, <1>16 DEF Settled

----------------------------------------------------------------------------
(* A primitive. *)

\* f is e with the kernels of a primitive from buffers S to b, `sib` and temporaries.
Encoded(e, f, h, l, S, b, sib) ==
    /\ f \in Encoder /\ EncoderInv(f) /\ ~f.conc /\ f.table = e.table /\ Len(f.cbs) = Len(e.cbs)
    /\ \A d \in DOMAIN e.log : d \in DOMAIN f.log /\ f.log[d] = e.log[d]
    /\ \A d \in DOMAIN f.log : d \notin DOMAIN e.log =>
         /\ f.log[d].cb = Len(e.cbs)
         /\ f.log[d].reads \ Wr(f.log[d]) \subseteq (S \ {b}) \cup f.temps
         /\ Us(f.log[d]) \subseteq S \cup {b} \cup sib \cup f.temps
    /\ e.temps \subseteq f.temps
    /\ \A t \in f.temps : t \in e.temps \/ (t # b /\ Unheld(e, h, l, t))

\* What holds before a primitive; what it makes of the arrays: `out`, in buffer b, from `ins` in
\* buffers S, of which `last` are gone.
Before(e, h, l, u) ==
    /\ EncoderInv(e) /\ h \in Seq(SUBSET Buffers) /\ u \subseteq {a \in Arrays : l[a] # None}
    /\ Retains(e, h) /\ Keeps(e, h, l, u) /\ Writers(e, h, l)
Makes(l, u, l2, u2, ins, last, out, b, S) ==
    /\ ins \subseteq {a \in Arrays : l[a] # None} /\ last \subseteq ins
    /\ out \in Arrays /\ (l[out] = None \/ out \in last)
    /\ S = {l[a] : a \in ins}
    /\ \A a \in Arrays : l2[a] = IF a = out THEN b ELSE IF a \in last THEN None ELSE l[a]
    /\ u2 = (u \ ins) \cup {out}

LEMMA PrimitiveKeeps ==
  ASSUME NEW e \in Encoder, NEW h, NEW l, NEW u, Before(e, h, l, u),
         NEW ins, NEW last, NEW out, NEW b \in Buffers, NEW S, NEW l2, NEW u2,
         Makes(l, u, l2, u2, ins, last, out, b, S), Unheld(e, h, l, b) \/ b \in S,
         NEW sib \in SUBSET Buffers, NEW f, Encoded(e, f, h, l, S, b, sib),
         NEW g, NEW i, Settled(f, h, g, i, (S \cup sib) \ {b})
  PROVE  /\ Retains(g, i) /\ Keeps(g, i, l2, u2) /\ Writers(g, i, l2)
         /\ u2 \subseteq {a \in Arrays : l2[a] # None}
<1>0. /\ EncoderInv(e) /\ h \in Seq(SUBSET Buffers)
      /\ Retains(e, h) /\ Keeps(e, h, l, u) /\ Writers(e, h, l)
      /\ ins \subseteq {a \in Arrays : l[a] # None} /\ last \subseteq ins
      /\ out \in Arrays /\ (l[out] = None \/ out \in last)
  BY DEF Before, Makes
<1> USE <1>0
<1>1. /\ Len(h) = Len(e.cbs) /\ Len(h) \in Nat /\ DOMAIN h = 1..Len(h) /\ Len(h) \in DOMAIN h
      /\ Len(f.cbs) = Len(h)
  BY DEF Retains, Encoded, EncoderInv, Idle, Encoder
<1>2. \A d \in DOMAIN f.log : f.log[d].cb \in Nat /\ f.log[d].cb \in 1..Len(h)
  <2>1. f \in Encoder /\ EncoderInv(f)
    BY DEF Encoded
  <2>2. DOMAIN f.cbs = 1..Len(h)
    BY <1>1, <2>1, EncoderTypes
  <2>3. \A d \in DOMAIN f.log : f.log[d].cb \in DOMAIN f.cbs
    BY <2>1 DEF EncoderInv, Names
  <2> QED
    BY <2>2, <2>3
<1>3. /\ \A c \in DOMAIN h : c \in DOMAIN i /\ h[c] \subseteq i[c]
      /\ (S \cup sib) \ {b} \subseteq i[Len(h)] /\ Len(h) \in DOMAIN i
      /\ \A t \in f.temps : t \in g.temps \/ t \in i[Len(h)]
      /\ g.temps \subseteq f.temps
      /\ DOMAIN g.log = DOMAIN f.log
      /\ \A d \in DOMAIN f.log :
           /\ g.log[d].cb = f.log[d].cb /\ g.log[d].reads = f.log[d].reads
           /\ Wr(g.log[d]) = Wr(f.log[d]) /\ Us(g.log[d]) = Us(f.log[d])
  BY <1>1 DEF Settled
<1>4. \A d \in DOMAIN f.log : \A x \in i[Len(h)] : RetainedFor(g, i, d, x)
  BY <1>1, <1>2, <1>3 DEF RetainedFor
<1>5. \A d \in DOMAIN e.log : \A x : RetainedFor(e, h, d, x) => RetainedFor(g, i, d, x)
  <2>1. \A d \in DOMAIN e.log : d \in DOMAIN f.log /\ f.log[d] = e.log[d]
    BY DEF Encoded
  <2> QED
    BY <1>3, <2>1 DEF RetainedFor
<1>6. /\ \A d \in DOMAIN e.log : d \in DOMAIN f.log /\ f.log[d] = e.log[d]
      /\ \A d \in DOMAIN f.log : d \notin DOMAIN e.log =>
           /\ f.log[d].cb = Len(h)
           /\ f.log[d].reads \ Wr(f.log[d]) \subseteq (S \ {b}) \cup f.temps
           /\ Us(f.log[d]) \subseteq S \cup {b} \cup sib \cup f.temps
      /\ e.temps \subseteq f.temps
      /\ \A t \in f.temps : t \in e.temps \/ (t # b /\ Unheld(e, h, l, t))
  BY <1>1 DEF Encoded
<1>7. \A d \in DOMAIN f.log : \A t \in f.temps : RetainedFor(g, i, d, t) \/ t \in g.temps
  BY <1>3, <1>4
\* the arrays
<1>8. u \subseteq Arrays /\ \A a \in u : l[a] # None
  BY DEF Before
<1>9. l2[out] = b /\ out \in u2 /\ \A a \in ins : l[a] \in S
  BY DEF Makes
<1>10. /\ \A a \in u \ ins : a \in u2 /\ l2[a] = l[a]
       /\ \A a \in u2 : a = out \/ a \in u \ ins
  BY <1>8 DEF Makes
<1>11. \A a \in Arrays : \A x \in Buffers : l2[a] = x => x = b \/ \E o \in Arrays : l[o] = x
  BY MetalEvalAssumption DEF Makes
<1>12. Unheld(e, h, l, b) \/ \E o \in Arrays : l[o] = b
  BY DEF Makes
<1>a. Retains(g, i)
  <2>1. i \in Seq(SUBSET Buffers) /\ Len(i) = Len(g.cbs)
    BY DEF Settled
  <2>2. ASSUME NEW d \in DOMAIN f.log, NEW x \in f.log[d].reads \ Wr(f.log[d])
        PROVE  RetainedFor(g, i, d, x) \/ x \in g.temps
    <3>1. CASE d \in DOMAIN e.log
      <4>1. RetainedFor(e, h, d, x) \/ x \in e.temps
        BY <1>6, <2>2, <3>1 DEF Retains
      <4> QED
        BY <1>5, <1>6, <1>7, <2>2, <3>1, <4>1
    <3>2. CASE d \notin DOMAIN e.log
      <4>1. x \in S \ {b} \/ x \in f.temps
        BY <1>6, <2>2, <3>2
      <4> QED
        BY <1>3, <1>4, <1>7, <2>2, <4>1
    <3> QED
      BY <3>1, <3>2
  <2> QED
    BY <1>3, <2>1, <2>2 DEF Retains
<1>b. Keeps(g, i, l2, u2)
  <2>1. ASSUME NEW d \in DOMAIN f.log, NEW x \in Us(f.log[d])
        PROVE  RetainedFor(g, i, d, x) \/ x \in g.temps \/ \E a \in u2 : l2[a] = x
    <3>1. \A y \in S : RetainedFor(g, i, d, y) \/ \E a \in u2 : l2[a] = y
      BY <1>3, <1>4, <1>9
    <3>2. CASE d \in DOMAIN e.log
      <4>1. RetainedFor(e, h, d, x) \/ x \in e.temps \/ \E a \in u : l[a] = x
        BY <1>6, <2>1, <3>2 DEF Keeps
      <4>2. CASE \E a \in u : l[a] = x
        <5>1. PICK a \in u : l[a] = x
          BY <4>2
        <5>2. CASE a \in ins
          BY <1>9, <3>1, <5>1, <5>2
        <5>3. CASE a \notin ins
          BY <1>10, <5>1, <5>3
        <5> QED
          BY <5>2, <5>3
      <4> QED
        BY <1>5, <1>6, <1>7, <2>1, <3>2, <4>1, <4>2
    <3>3. CASE d \notin DOMAIN e.log
      <4>1. x \in S \/ x = b \/ x \in sib \ {b} \/ x \in f.temps
        BY <1>6, <2>1, <3>3
      <4> QED
        BY <1>3, <1>4, <1>7, <1>9, <2>1, <3>1, <4>1
    <3> QED
      BY <3>2, <3>3
  <2>2. ASSUME NEW t \in g.temps, NEW a \in Arrays, l2[a] = t
        PROVE  FALSE
    <3>1. t \in f.temps /\ t \in Buffers
      BY <1>3, <2>2, EncoderTypes DEF Settled
    <3>2. t = b \/ \E o \in Arrays : l[o] = t
      BY <1>11, <2>2, <3>1
    <3>3. CASE t \in e.temps
      <4>1. \A o \in Arrays : l[o] # t
        BY <3>3 DEF Keeps
      <4> QED
        BY <1>12, <3>2, <3>3, <4>1 DEF Unheld
    <3>4. CASE t # b /\ Unheld(e, h, l, t)
      BY <3>2, <3>4 DEF Unheld
    <3> QED
      BY <1>6, <3>1, <3>3, <3>4
  <2> QED
    BY <1>3, <2>1, <2>2 DEF Keeps
<1>c. Writers(g, i, l2)
  <2> SUFFICES ASSUME NEW c \in DOMAIN f.log, f.log[c].cb < Len(g.cbs), NEW x \in Wr(f.log[c])
               PROVE  \/ LastWriter(g, c, x)
                      \/ RetainedFor(g, i, c, x) /\ \A a \in Arrays : l2[a] # x
    BY <1>3 DEF Writers
  <2>x. x \in Buffers
    BY EncoderTypes DEF Encoded
  <2>1. CASE f.log[c].cb < Len(f.cbs)
    <3>1. c \in DOMAIN e.log /\ f.log[c] = e.log[c] /\ e.log[c].cb < Len(e.cbs)
      BY <1>1, <1>6, <2>1
    <3>2. \/ LastWriter(e, c, x)
          \/ RetainedFor(e, h, c, x) /\ \A a \in Arrays : l[a] # x
      BY <3>1 DEF Writers
    <3>3. CASE LastWriter(e, c, x)
      <4>1. LastWriter(f, c, x)
        BY <1>6, <3>1, <3>3 DEF LastWriter, Encoded
      <4> QED
        BY <2>1, <4>1 DEF Settled
    <3>4. CASE RetainedFor(e, h, c, x) /\ \A a \in Arrays : l[a] # x
      <4>1. x # b
        BY <1>12, <3>4 DEF RetainedFor, Unheld
      <4> QED
        BY <1>5, <1>11, <2>x, <3>1, <3>4, <4>1
    <3> QED
      BY <3>2, <3>3, <3>4
  <2>2. CASE ~(f.log[c].cb < Len(f.cbs))
    <3>1. f.log[c].cb = Len(f.cbs)
      BY <1>1, <1>2, <2>2
    <3>2. LastWriter(g, c, x) \/ x \in f.temps
      BY <3>1 DEF Settled
    <3>3. CASE x \in f.temps /\ ~LastWriter(g, c, x)
      <4>1. \A a \in Arrays : l2[a] # x
        <5>1. CASE x \in e.temps
          BY <1>11, <1>12, <2>x, <5>1 DEF Keeps, Unheld
        <5>2. CASE x # b /\ Unheld(e, h, l, x)
          BY <1>11, <2>x, <5>2 DEF Unheld
        <5> QED
          BY <1>6, <3>3, <5>1, <5>2
      <4>2. x \notin g.temps
        <5>1. CASE x \in g.temps
          <6>1. g \in Encoder /\ EncoderInv(g) /\ g.log[c].cb < Len(g.cbs)
            BY <1>3 DEF Settled
          <6>2. Us(g.log[c]) \cap g.temps = {}
            BY <1>3, <6>1 DEF EncoderInv, TempsLocal
          <6> QED
            BY <1>3, <5>1, <6>2 DEF Us
        <5> QED
          BY <5>1
      <4> QED
        BY <1>3, <1>4, <3>3, <4>1, <4>2
    <3> QED
      BY <3>2, <3>3
  <2> QED
    BY <2>1, <2>2
<1>d. u2 \subseteq {a \in Arrays : l2[a] # None}
  <2>1. l2[out] # None
    BY <1>9, MetalEvalAssumption
  <2>2. \A a \in u \ ins : a \in Arrays /\ l2[a] # None
    BY <1>8, <1>10
  <2> QED
    BY <1>10, <2>1, <2>2
<1> QED
  BY <1>a, <1>b, <1>c, <1>d

----------------------------------------------------------------------------
(* What the allocator hands out. *)

LEMMA RefsAre ==
  ASSUME IInv, NEW b
  PROVE  /\ Refs(b) = 0 => Unheld(enc, held, live, b)
         /\ Refs(b) = 1 /\ (\E a \in Arrays : live[a] = b) =>
              b \notin enc.temps /\ \A c \in DOMAIN held : b \notin held[c]
<1>1. PICK A : A = {a \in Arrays : live[a] = b}
  OBVIOUS
<1>2. PICK C : C = {c \in DOMAIN held : b \in held[c]}
  OBVIOUS
<1>3. PICK n : n = Cardinality(A)
  OBVIOUS
<1>4. PICK m : m = Cardinality(C)
  OBVIOUS
<1>5. IsFiniteSet(A)
  BY <1>1, FS_Subset, MetalEvalAssumption
<1>6. IsFiniteSet(C)
  <2>1. held \in Seq(SUBSET Buffers)
    BY DEF IInv, Retains
  <2>2. DOMAIN held = 1..Len(held) /\ Len(held) \in Nat
    BY <2>1
  <2>3. IsFiniteSet(1..Len(held))
    BY <2>2, FS_Interval
  <2>4. C \in SUBSET (1..Len(held))
    BY <1>2, <2>2
  <2> QED
    BY <2>3, <2>4, FS_Subset
<1>7. n \in Nat /\ m \in Nat /\ (n = 0 => A = {}) /\ (m = 0 => C = {}) /\ (A # {} => n # 0)
  BY <1>3, <1>4, <1>5, <1>6, FS_CardinalityType, FS_EmptySet
<1>8. Refs(b) = n + m + (IF b \in enc.temps THEN 1 ELSE 0)
  BY <1>1, <1>2, <1>3, <1>4 DEF Refs
<1>9. CASE Refs(b) = 0
  <2>1. n = 0 /\ m = 0 /\ b \notin enc.temps
    BY <1>7, <1>8, <1>9
  <2> QED
    BY <1>1, <1>2, <1>7, <1>9, <2>1 DEF Unheld
<1>10. CASE Refs(b) = 1 /\ \E a \in Arrays : live[a] = b
  <2>1. n # 0
    BY <1>1, <1>7, <1>10
  <2>2. m = 0 /\ b \notin enc.temps
    BY <1>7, <1>8, <1>10, <2>1
  <2> QED
    BY <1>2, <1>7, <1>10, <2>2
<1> QED
  BY <1>9, <1>10

LEMMA FreeAre ==
  ASSUME IInv, NEW b \in FreeBuffers
  PROVE  b \in Buffers /\ Unheld(enc, held, live, b)
BY RefsAre DEF FreeBuffers

LEMMA DonatableAre ==
  ASSUME IInv, NEW ins, ins \subseteq Arrays, NEW last, NEW b \in Donatable(ins, last)
  PROVE  /\ b \in Of(ins) /\ b \notin enc.temps
         /\ \A c \in DOMAIN held : b \notin held[c]
<1>1. PICK a \in ins \cap last : b = live[a] /\ Refs(live[a]) = 1
  BY DEF Donatable
<1> QED
  BY <1>1, RefsAre DEF Of

\* The buffers of arrays that exist.
LEMMA OfAre ==
  ASSUME IInv, NEW ins, ins \subseteq {a \in Arrays : Exists(a)}
  PROVE  /\ Of(ins) \in SUBSET Buffers /\ Of(ins) = {live[a] : a \in ins}
         /\ \A b \in Of(ins) : \E a \in Arrays : live[a] = b
BY DEF IInv, Alive, Of, Exists

----------------------------------------------------------------------------
(* The steps. *)

\* A primitive that encodes what it may keeps the invariant.
LEMMA EvaluatedKeeps ==
  ASSUME IInv, NEW f, NEW ins, ins \subseteq {a \in Arrays : Exists(a)},
         NEW last, last \subseteq ins, NEW out \in Outs(last), NEW b \in Buffers,
         Unheld(enc, held, live, b) \/ b \in Of(ins),
         NEW sib \in SUBSET Buffers,
         Encoded(enc, f, held, live, Of(ins), b, sib),
         Evaluated(f, ins, last, out, b, sib)
  PROVE  IInv'
<1>1. PICK S : S = Of(ins)
  OBVIOUS
<1>2. S \in SUBSET Buffers /\ S = {live[a] : a \in ins}
  BY <1>1, OfAre
<1>3. PICK bufs : bufs = (S \cup sib) \ {b}
  OBVIOUS
<1>4. bufs \in SUBSET Buffers /\ Retained(ins, sib, b) = bufs
  BY <1>2, <1>3 DEF Retained
<1>5. /\ enc \in Encoder /\ EncoderInv(enc) /\ Alive(live, calling, unused)
      /\ Retains(enc, held) /\ Keeps(enc, held, live, unused) /\ Writers(enc, held, live)
      /\ held \in Seq(SUBSET Buffers) /\ Len(held) = Len(enc.cbs)
  BY DEF IInv, EncoderInv, Retains
<1>6. f \in Encoder /\ EncoderInv(f) /\ ~f.conc /\ Len(held) = Len(f.cbs)
  BY <1>5 DEF Encoded
<1>7. Settled(f, held, enc', held', bufs)
  <2>1. Finish(f, bufs)
    BY <1>4 DEF Evaluated
  <2>2. \/ /\ enc' = Commit(EndEncoding(f))
           /\ held' = Append([held EXCEPT ![Len(held)] = @ \cup bufs \cup f.temps], {})
        \/ enc' = f /\ held' = [held EXCEPT ![Len(held)] = @ \cup bufs]
    BY <2>1 DEF Finish
  <2>3. CASE /\ enc' = Commit(EndEncoding(f))
             /\ held' = Append([held EXCEPT ![Len(held)] = @ \cup bufs \cup f.temps], {})
    BY <1>4, <1>5, <1>6, <2>3, CommitSettles
  <2>4. CASE enc' = f /\ held' = [held EXCEPT ![Len(held)] = @ \cup bufs]
    BY <1>4, <1>5, <1>6, <2>4, RetainSettles
  <2> QED
    BY <2>2, <2>3, <2>4
<1>8. /\ live' = [a \in Arrays |-> IF a = out THEN b ELSE IF a \in last THEN None ELSE live[a]]
      /\ calling' = TRUE /\ unused' = (unused \ ins) \cup {out}
  BY DEF Evaluated
<1>9. /\ out \in Arrays /\ (live[out] = None \/ out \in last)
      /\ ins \subseteq {a \in Arrays : live[a] # None}
  BY DEF Outs, Exists
<1>10. \A a \in Arrays : live'[a] = IF a = out THEN b ELSE IF a \in last THEN None ELSE live[a]
  BY <1>8
<1>11. /\ Retains(enc', held') /\ Keeps(enc', held', live', unused') /\ Writers(enc', held', live')
       /\ unused' \subseteq {a \in Arrays : live'[a] # None}
  <2>1. Encoded(enc, f, held, live, S, b, sib) /\ (Unheld(enc, held, live, b) \/ b \in S)
    BY <1>1
  <2>2. Settled(f, held, enc', held', (S \cup sib) \ {b})
    BY <1>3, <1>7
  <2>3. Makes(live, unused, live', unused', ins, last, out, b, S)
    BY <1>2, <1>8, <1>9, <1>10 DEF Makes
  <2>11. PICK e \in Encoder : e = enc
    BY <1>5
  <2>12. PICK h, l, u, g, i, l2, u2 :
           /\ h = held /\ l = live /\ u = unused
           /\ g = enc' /\ i = held' /\ l2 = live' /\ u2 = unused'
    OBVIOUS
  <2>4. /\ e = enc /\ h = held /\ l = live /\ u = unused
        /\ g = enc' /\ i = held' /\ l2 = live' /\ u2 = unused'
    BY <2>11, <2>12
  <2>5. Before(e, h, l, u) /\ (Unheld(e, h, l, b) \/ b \in S)
    BY <1>5, <2>1, <2>4 DEF Before, Alive
  <2>6. Encoded(e, f, h, l, S, b, sib) /\ Settled(f, h, g, i, (S \cup sib) \ {b})
    BY <2>1, <2>2, <2>4
  <2>7. Makes(l, u, l2, u2, ins, last, out, b, S)
    BY <2>3, <2>4
  <2>8. /\ Retains(g, i) /\ Keeps(g, i, l2, u2) /\ Writers(g, i, l2)
        /\ u2 \subseteq {a \in Arrays : l2[a] # None}
    BY <2>5, <2>6, <2>7, PrimitiveKeeps
  <2> QED
    BY <2>4, <2>8
<1>12. Alive(live', calling', unused')
  <2>1. live \in [Arrays -> Buffers \cup {None}]
    BY <1>5 DEF Alive
  <2>2. live' \in [Arrays -> Buffers \cup {None}]
    BY <1>8, <2>1
  <2> QED
    BY <1>8, <1>11, <2>2 DEF Alive
<1>13. EncoderInv(enc') /\ ~(enc').conc
  BY <1>7 DEF Settled
<1> QED
  BY <1>11, <1>12, <1>13 DEF IInv

\* What a primitive may write: what nobody refers to, or what only an input refers to.
Writable(e, h, l, S, b) ==
    \/ Unheld(e, h, l, b)
    \/ b \in S /\ b \notin e.temps /\ \A c \in DOMAIN h : b \notin h[c]
BuffersOf(l, S) == \A y \in S : \E a \in Arrays : l[a] = y

\* One kernel, with one output or with siblings.
LEMMA OneKernel ==
  ASSUME NEW e \in Encoder, NEW h, NEW l, NEW u, Before(e, h, l, u), ~e.conc,
         NEW S \in SUBSET Buffers, BuffersOf(l, S),
         NEW b \in Buffers, Writable(e, h, l, S, b),
         NEW sib \in SUBSET Buffers, \A s \in sib : Unheld(e, h, l, s),
         NEW W \in SUBSET (Buffers \X Parts), {w[1] : w \in W} = {b} \cup sib
  PROVE  Encoded(e, Kernel(e, S, W), h, l, S, b, sib)
<1>1. /\ EncoderInv(e) /\ u \in SUBSET Arrays
      /\ Retains(e, h) /\ Keeps(e, h, l, u) /\ Writers(e, h, l)
  BY DEF Before
<1>2. ASSUME NEW d \in DispatchSet, d.reads = S, d.writes = W
      PROVE  Fits(e, d)
  <2>1. Wr(d) = {b} \cup sib /\ Us(d) = S \cup {b} \cup sib
    BY <1>2 DEF Wr, Us
  <2>2. \A x \in Us(d) : Unheld(e, h, l, x) \/ \E a \in Arrays : l[a] = x
    BY <2>1 DEF Writable, BuffersOf
  <2>3. \A x \in Wr(d) : x \notin e.temps /\ \A c \in DOMAIN h : x \notin h[c]
    BY <2>1 DEF Writable, Unheld
  <2>4. FitsClosed(e, d) /\ FitsReaders(e, d)
    BY <1>1, <2>2, <2>3, MayUse
  <2>5. e.concOut = {}
    BY <1>1 DEF EncoderInv, Idle
  <2>6. FitsConcurrent(e, d)
    BY <2>5 DEF FitsConcurrent
  <2> QED
    BY <2>4, <2>6 DEF Fits
<1>3. PICK f : f = Kernel(e, S, W)
  OBVIOUS
<1>4. Adds(e, f, S, W)
  BY <1>1, <1>2, <1>3, KernelKeeps
<1>5. \A d \in DOMAIN f.log : d \notin DOMAIN e.log =>
         f.log[d].cb = Len(e.cbs) /\ f.log[d].reads = S /\ f.log[d].writes = W
  BY <1>4 DEF Adds
<1>6. \A d \in DOMAIN f.log : d \notin DOMAIN e.log =>
         Wr(f.log[d]) = {b} \cup sib /\ Us(f.log[d]) = S \cup {b} \cup sib
  BY <1>5 DEF Wr, Us
<1>7. /\ f \in Encoder /\ EncoderInv(f) /\ ~f.conc /\ f.table = e.table /\ Len(f.cbs) = Len(e.cbs)
      /\ f.temps = e.temps
      /\ \A d \in DOMAIN e.log : d \in DOMAIN f.log /\ f.log[d] = e.log[d]
  BY <1>4 DEF Adds
<1>8. \A d \in DOMAIN f.log : d \notin DOMAIN e.log =>
         /\ f.log[d].cb = Len(e.cbs)
         /\ f.log[d].reads \ Wr(f.log[d]) \subseteq (S \ {b}) \cup f.temps
         /\ Us(f.log[d]) \subseteq S \cup {b} \cup sib \cup f.temps
  BY <1>5, <1>6
<1> QED
  BY <1>3, <1>7, <1>8 DEF Encoded

\* Through a temporary.
LEMMA ByTemporary ==
  ASSUME NEW e \in Encoder, NEW h, NEW l, NEW u, Before(e, h, l, u), ~e.conc,
         NEW S \in SUBSET Buffers, BuffersOf(l, S),
         NEW t \in Buffers, Unheld(e, h, l, t), NEW b \in Buffers, Unheld(e, h, l, b), t # b
  PROVE  Encoded(e, Kernel(AddTemporary(Kernel(e, S, {<<t, 0>>}), t), {t}, {<<b, 0>>}), h, l, S, b, {})
<1>1. /\ EncoderInv(e) /\ u \in SUBSET Arrays
      /\ Retains(e, h) /\ Keeps(e, h, l, u) /\ Writers(e, h, l)
  BY DEF Before
<1>2. PICK V : V = {<<t, 0>>}
  OBVIOUS
<1>3. PICK W : W = {<<b, 0>>}
  OBVIOUS
<1>4. /\ V \in SUBSET (Buffers \X Parts) /\ {w[1] : w \in V} = {t}
      /\ W \in SUBSET (Buffers \X Parts) /\ {w[1] : w \in W} = {b}
  BY <1>2, <1>3 DEF Parts
<1>5. b \notin S /\ t \notin S
  BY DEF BuffersOf, Unheld
<1>6. e.concOut = {}
  BY <1>1 DEF EncoderInv, Idle
<1>7. ASSUME NEW d \in DispatchSet,
             \A x \in Us(d) : Unheld(e, h, l, x) \/ \E a \in Arrays : l[a] = x,
             \A x \in Wr(d) : Unheld(e, h, l, x)
      PROVE  FitsClosed(e, d) /\ FitsReaders(e, d)
  <2>1. \A x \in Wr(d) : x \notin e.temps /\ \A c \in DOMAIN h : x \notin h[c]
    BY <1>7 DEF Unheld
  <2> QED
    BY <1>1, <1>7, <2>1, MayUse
\* the copy
<1>8. PICK f : f = Kernel(e, S, V)
  OBVIOUS
<1>9. ASSUME NEW d \in DispatchSet, d.reads = S, d.writes = V
      PROVE  Fits(e, d)
  <2>1. Wr(d) = {t} /\ Us(d) = S \cup {t}
    BY <1>4, <1>9 DEF Wr, Us
  <2>2. FitsClosed(e, d) /\ FitsReaders(e, d)
    BY <1>7, <2>1 DEF BuffersOf
  <2> QED
    BY <1>6, <2>2 DEF Fits, FitsConcurrent
<1>10. Adds(e, f, S, V)
  BY <1>1, <1>4, <1>8, <1>9, KernelKeeps
<1>11. f \in Encoder /\ EncoderInv(f) /\ f.id # 0 /\ f.conc = e.conc /\ f.concOut = {}
  BY <1>6, <1>10 DEF Adds
\* the temporary
<1>12. PICK g : g = AddTemporary(f, t)
  OBVIOUS
<1>13. /\ g \in Encoder /\ EncoderInv(g) /\ g.log = f.log /\ g.table = f.table /\ g.cbs = f.cbs
       /\ g.temps = f.temps \cup {t} /\ g.conc = f.conc /\ g.concOut = f.concOut
  <2>1. ASSUME NEW c \in DOMAIN f.log, f.log[c].cb < Len(f.cbs)
        PROVE  t \notin Us(f.log[c])
    <3>1. Len(f.cbs) \in Nat
      BY <1>11, EncoderTypes
    <3>2. c \in DOMAIN e.log /\ f.log[c] = e.log[c]
      BY <1>10, <2>1, <3>1 DEF Adds
    <3> QED
      BY <1>1, <3>2, UnheldIdle
  <2> QED
    BY <1>11, <1>12, <2>1, TemporaryKeeps
\* the kernel
<1>14. PICK k : k = Kernel(g, {t}, W)
  OBVIOUS
<1>15. ASSUME NEW d \in DispatchSet, d.reads = {t}, d.writes = W
       PROVE  Fits(g, d)
  <2>1. Wr(d) = {b} /\ Us(d) = {t, b}
    BY <1>4, <1>15 DEF Wr, Us
  <2>2. FitsClosed(e, d) /\ FitsReaders(e, d)
    BY <1>7, <2>1
  <2>3. FitsClosed(f, d) /\ FitsReaders(f, d)
    BY <1>1, <1>5, <1>10, <1>11, <2>1, <2>2, MayUseLater
  <2>4. \A c, x : LastWriter(f, c, x) => LastWriter(g, c, x)
    BY <1>13 DEF LastWriter
  <2>5. FitsClosed(g, d) /\ FitsReaders(g, d)
    BY <1>13, <2>3, <2>4 DEF FitsClosed, FitsReaders
  <2> QED
    BY <1>11, <1>13, <2>5 DEF Fits, FitsConcurrent
<1>16. Adds(g, k, {t}, W)
  BY <1>4, <1>13, <1>14, <1>15, KernelKeeps
<1>17. PICK n : n = Len(e.log)
  OBVIOUS
<1>18. /\ n \in Nat /\ DOMAIN e.log = 1..n /\ DOMAIN k.log = 1..(n + 2)
       /\ \A d \in 1..n : k.log[d] = e.log[d]
       /\ k.log[n + 1].cb = Len(e.cbs) /\ k.log[n + 1].reads = S /\ k.log[n + 1].writes = V
       /\ k.log[n + 2].cb = Len(e.cbs) /\ k.log[n + 2].reads = {t} /\ k.log[n + 2].writes = W
  <2>1. /\ n \in Nat /\ DOMAIN e.log = 1..n /\ DOMAIN f.log = 1..(n + 1) /\ Len(f.log) = n + 1
        /\ \A d \in 1..n : f.log[d] = e.log[d]
        /\ f.log[n + 1].cb = Len(e.cbs) /\ f.log[n + 1].reads = S /\ f.log[n + 1].writes = V
        /\ Len(f.cbs) = Len(e.cbs)
    BY <1>10, <1>17 DEF Adds
  <2>2. /\ DOMAIN k.log = 1..(n + 2) /\ Len(k.log) = n + 2
        /\ \A d \in 1..(n + 1) : k.log[d] = f.log[d]
        /\ k.log[n + 2].cb = Len(g.cbs) /\ k.log[n + 2].reads = {t} /\ k.log[n + 2].writes = W
    BY <1>13, <1>16, <2>1 DEF Adds
  <2> QED
    BY <1>13, <2>1, <2>2
<1>19. /\ Wr(k.log[n + 1]) = {t} /\ Us(k.log[n + 1]) = S \cup {t}
       /\ Wr(k.log[n + 2]) = {b} /\ Us(k.log[n + 2]) = {t, b}
  BY <1>4, <1>18 DEF Wr, Us
<1>20. /\ k \in Encoder /\ EncoderInv(k) /\ ~k.conc /\ k.table = e.table /\ Len(k.cbs) = Len(e.cbs)
       /\ k.temps = e.temps \cup {t}
  BY <1>10, <1>13, <1>16 DEF Adds
<1>21. \A d \in DOMAIN k.log : d \notin DOMAIN e.log =>
         /\ k.log[d].cb = Len(e.cbs)
         /\ k.log[d].reads \ Wr(k.log[d]) \subseteq (S \ {b}) \cup k.temps
         /\ Us(k.log[d]) \subseteq S \cup {b} \cup {} \cup k.temps
  <2> SUFFICES ASSUME NEW d \in DOMAIN k.log, d \notin DOMAIN e.log
               PROVE  /\ k.log[d].cb = Len(e.cbs)
                      /\ k.log[d].reads \ Wr(k.log[d]) \subseteq (S \ {b}) \cup k.temps
                      /\ Us(k.log[d]) \subseteq S \cup {b} \cup {} \cup k.temps
    OBVIOUS
  <2>1. d = n + 1 \/ d = n + 2
    BY <1>18
  <2>2. CASE d = n + 1
    BY <1>5, <1>18, <1>19, <1>20, <2>2
  <2>3. CASE d = n + 2
    BY <1>18, <1>19, <1>20, <2>3
  <2> QED
    BY <2>1, <2>2, <2>3
<1>22. \A d \in DOMAIN e.log : d \in DOMAIN k.log /\ k.log[d] = e.log[d]
  BY <1>18
<1>23. Encoded(e, k, h, l, S, b, {})
  BY <1>20, <1>21, <1>22 DEF Encoded
<1> QED
  BY <1>2, <1>3, <1>8, <1>12, <1>14, <1>23

\* In two parts, which are written concurrently.
LEMMA InParts ==
  ASSUME NEW e \in Encoder, NEW h, NEW l, NEW u, Before(e, h, l, u), ~e.conc,
         NEW y1 \in Buffers, NEW y2 \in Buffers, BuffersOf(l, {y1, y2}),
         NEW b \in Buffers, Unheld(e, h, l, b)
  PROVE  Encoded(e, EndConcurrent(Kernel(Kernel(StartConcurrent(e), {y1}, {<<b, 1>>}), {y2}, {<<b, 2>>})),
                 h, l, {y1, y2}, b, {})
<1>1. /\ EncoderInv(e) /\ u \in SUBSET Arrays
      /\ Retains(e, h) /\ Keeps(e, h, l, u) /\ Writers(e, h, l)
  BY DEF Before
<1>2. PICK V : V = {<<b, 1>>}
  OBVIOUS
<1>3. PICK W : W = {<<b, 2>>}
  OBVIOUS
<1>4. /\ V \in SUBSET (Buffers \X Parts) /\ {w[1] : w \in V} = {b}
      /\ W \in SUBSET (Buffers \X Parts) /\ {w[1] : w \in W} = {b}
  BY <1>2, <1>3 DEF Parts
<1>5. b # y1 /\ b # y2
  BY DEF BuffersOf, Unheld
<1>6. e.concOut = {}
  BY <1>1 DEF EncoderInv, Idle
<1>7. PICK o : o = StartConcurrent(e)
  OBVIOUS
<1>8. /\ o \in Encoder /\ EncoderInv(o) /\ o.conc /\ o.log = e.log /\ o.table = e.table
      /\ o.cbs = e.cbs /\ o.temps = e.temps /\ o.concOut = {}
  BY <1>1, <1>6, <1>7, StartKeeps
<1>9. \A c \in DOMAIN e.log : b \notin Us(e.log[c])
  BY <1>1, UnheldIdle
<1>10. ASSUME NEW d \in DispatchSet, Wr(d) = {b}, Us(d) \subseteq {y1, y2, b}
       PROVE  FitsClosed(o, d) /\ FitsReaders(o, d)
  <2>1. \A x \in Us(d) : Unheld(e, h, l, x) \/ \E a \in Arrays : l[a] = x
    BY <1>10 DEF BuffersOf
  <2>2. \A x \in Wr(d) : x \notin e.temps /\ \A c \in DOMAIN h : x \notin h[c]
    BY <1>10 DEF Unheld
  <2>3. FitsClosed(e, d) /\ FitsReaders(e, d)
    BY <1>1, <2>1, <2>2, MayUse
  <2>4. \A c, x : LastWriter(e, c, x) => LastWriter(o, c, x)
    BY <1>8 DEF LastWriter
  <2> QED
    BY <1>8, <2>3, <2>4 DEF FitsClosed, FitsReaders
\* the first part
<1>11. PICK f : f = Kernel(o, {y1}, V)
  OBVIOUS
<1>12. ASSUME NEW d \in DispatchSet, d.reads = {y1}, d.writes = V
       PROVE  Fits(o, d)
  <2>1. Wr(d) = {b} /\ Us(d) = {y1, b}
    BY <1>4, <1>12 DEF Wr, Us
  <2>2. FitsClosed(o, d) /\ FitsReaders(o, d)
    BY <1>10, <2>1
  <2> QED
    BY <1>8, <2>2 DEF Fits, FitsConcurrent
<1>13. Adds(o, f, {y1}, V)
  BY <1>4, <1>8, <1>11, <1>12, KernelKeeps
<1>14. f \in Encoder /\ EncoderInv(f) /\ f.conc /\ f.concOut = {b}
  BY <1>4, <1>8, <1>13 DEF Adds
<1>15. PICK n : n = Len(e.log)
  OBVIOUS
<1>16. /\ n \in Nat /\ DOMAIN e.log = 1..n /\ DOMAIN f.log = 1..(n + 1) /\ Len(f.log) = n + 1
       /\ \A d \in 1..n : f.log[d] = e.log[d]
       /\ f.log[n + 1].cb = Len(e.cbs) /\ f.log[n + 1].reads = {y1} /\ f.log[n + 1].writes = V
       /\ Len(f.cbs) = Len(e.cbs) /\ f.table = e.table /\ f.temps = e.temps
  BY <1>8, <1>13, <1>15 DEF Adds
\* the second
<1>17. PICK g : g = Kernel(f, {y2}, W)
  OBVIOUS
<1>18. ASSUME NEW d \in DispatchSet, d.reads = {y2}, d.writes = W
       PROVE  Fits(f, d)
  <2>1. Wr(d) = {b} /\ Us(d) = {y2, b}
    BY <1>4, <1>18 DEF Wr, Us
  <2>2. FitsClosed(o, d) /\ FitsReaders(o, d)
    BY <1>10, <2>1
  <2>3. FitsClosed(f, d) /\ FitsReaders(f, d)
    BY <1>5, <1>8, <1>13, <1>14, <2>1, <2>2, MayUseLater
  <2>4. ASSUME NEW c \in DOMAIN f.log, Wr(f.log[c]) \cap f.concOut # {}
        PROVE  ~Conflict(f.log[c], d)
    <3>1. b \in Wr(f.log[c])
      BY <1>14, <2>4
    <3>2. c = n + 1
      BY <1>9, <1>16, <3>1 DEF Us
    <3>3. f.log[c].reads = {y1} /\ f.log[c].writes = V
      BY <1>16, <3>2
    <3>4. \A v \in V : v[1] = b /\ v[2] = 1
      BY <1>2
    <3>5. \A w \in W : w[1] = b /\ w[2] = 2
      BY <1>3
    <3>6. \A v \in V, w \in W : ~Overlap(v, w)
      BY <3>4, <3>5 DEF Overlap
    <3> QED
      BY <1>5, <1>18, <3>3, <3>4, <3>5, <3>6 DEF Conflict
  <2> QED
    BY <2>3, <2>4 DEF Fits, FitsConcurrent
<1>19. Adds(f, g, {y2}, W)
  BY <1>4, <1>14, <1>17, <1>18, KernelKeeps
<1>20. g \in Encoder /\ EncoderInv(g)
  BY <1>19 DEF Adds
<1>21. PICK k : k = EndConcurrent(g)
  OBVIOUS
<1>22. /\ k \in Encoder /\ EncoderInv(k) /\ ~k.conc /\ k.log = g.log /\ k.table = g.table
       /\ k.cbs = g.cbs /\ k.temps = g.temps
  BY <1>20, <1>21, EndKeeps
<1>23. /\ DOMAIN k.log = 1..(n + 2)
       /\ \A d \in 1..(n + 1) : k.log[d] = f.log[d]
       /\ k.log[n + 2].cb = Len(e.cbs) /\ k.log[n + 2].reads = {y2} /\ k.log[n + 2].writes = W
       /\ k.table = e.table /\ Len(k.cbs) = Len(e.cbs) /\ k.temps = e.temps
  BY <1>16, <1>19, <1>22 DEF Adds
<1>24. /\ k.log[n + 1].cb = Len(e.cbs) /\ k.log[n + 1].reads = {y1} /\ k.log[n + 1].writes = V
       /\ \A d \in 1..n : k.log[d] = e.log[d]
  BY <1>16, <1>23
<1>25. /\ Wr(k.log[n + 1]) = {b} /\ Us(k.log[n + 1]) = {y1, b}
       /\ Wr(k.log[n + 2]) = {b} /\ Us(k.log[n + 2]) = {y2, b}
  BY <1>4, <1>23, <1>24 DEF Wr, Us
<1>26. \A d \in DOMAIN k.log : d \notin DOMAIN e.log =>
         /\ k.log[d].cb = Len(e.cbs)
         /\ k.log[d].reads \ Wr(k.log[d]) \subseteq ({y1, y2} \ {b}) \cup k.temps
         /\ Us(k.log[d]) \subseteq {y1, y2} \cup {b} \cup {} \cup k.temps
  <2> SUFFICES ASSUME NEW d \in DOMAIN k.log, d \notin DOMAIN e.log
               PROVE  /\ k.log[d].cb = Len(e.cbs)
                      /\ k.log[d].reads \ Wr(k.log[d]) \subseteq ({y1, y2} \ {b}) \cup k.temps
                      /\ Us(k.log[d]) \subseteq {y1, y2} \cup {b} \cup {} \cup k.temps
    OBVIOUS
  <2>1. d = n + 1 \/ d = n + 2
    BY <1>16, <1>23
  <2>2. CASE d = n + 1
    BY <1>24, <1>25, <2>2
  <2>3. CASE d = n + 2
    BY <1>23, <1>25, <2>3
  <2> QED
    BY <2>1, <2>2, <2>3
<1>27. \A d \in DOMAIN e.log : d \in DOMAIN k.log /\ k.log[d] = e.log[d]
  BY <1>16, <1>23, <1>24
<1>28. Encoded(e, k, h, l, {y1, y2}, b, {})
  BY <1>22, <1>23, <1>26, <1>27 DEF Encoded
<1> QED
  BY <1>2, <1>3, <1>7, <1>11, <1>17, <1>21, <1>28

\* By no kernel.
LEMMA NoKernel ==
  ASSUME NEW e \in Encoder, EncoderInv(e), ~e.conc, NEW h, NEW l, NEW S, NEW b
  PROVE  Encoded(e, e, h, l, S, b, {})
BY DEF Encoded

\* What the invariant says before each step.
LEMMA Now ==
  ASSUME IInv
  PROVE  enc \in Encoder /\ ~enc.conc /\ EncoderInv(enc) /\ Before(enc, held, live, unused)
BY DEF IInv, EncoderInv, Retains, Alive, Before

LEMMA ElementwiseKeeps ==
  ASSUME IInv, Elementwise
  PROVE  IInv'
<1>0. PICK ins \in Inputs(2) : \E last \in SUBSET ins : \E out \in Outs(last) :
        \E b \in FreeBuffers \cup Donatable(ins, last) :
          Evaluated(Kernel(enc, Of(ins), {<<b, 0>>}), ins, last, out, b, {})
  BY DEF Elementwise
<1>1. PICK last \in SUBSET ins : \E out \in Outs(last) : \E b \in FreeBuffers \cup Donatable(ins, last) :
          Evaluated(Kernel(enc, Of(ins), {<<b, 0>>}), ins, last, out, b, {})
  BY <1>0
<1>2. PICK out \in Outs(last), b \in FreeBuffers \cup Donatable(ins, last) :
        Evaluated(Kernel(enc, Of(ins), {<<b, 0>>}), ins, last, out, b, {})
  BY <1>1
<1>3. ins \subseteq {a \in Arrays : Exists(a)} /\ last \subseteq ins /\ ins \subseteq Arrays
  BY DEF Inputs
<1>4. Of(ins) \in SUBSET Buffers /\ BuffersOf(live, Of(ins))
  BY <1>3, OfAre DEF BuffersOf
<1>5. b \in Buffers /\ Writable(enc, held, live, Of(ins), b)
  <2>1. CASE b \in FreeBuffers
    BY <2>1, FreeAre DEF Writable
  <2>2. CASE b \in Donatable(ins, last)
    BY <1>3, <1>4, <2>2, DonatableAre DEF Writable
  <2> QED
    BY <2>1, <2>2
<1>6. PICK W : W = {<<b, 0>>}
  OBVIOUS
<1>7. W \in SUBSET (Buffers \X Parts) /\ {w[1] : w \in W} = {b} \cup {}
  BY <1>5, <1>6 DEF Parts
<1>8. Encoded(enc, Kernel(enc, Of(ins), W), held, live, Of(ins), b, {})
  BY <1>4, <1>5, <1>7, Now, OneKernel
<1>9. Evaluated(Kernel(enc, Of(ins), W), ins, last, out, b, {})
  BY <1>2, <1>6
<1> QED
  BY <1>3, <1>5, <1>8, <1>9, EvaluatedKeeps DEF Writable

LEMMA TwoOutputsKeeps ==
  ASSUME IInv, TwoOutputs
  PROVE  IInv'
<1>0. PICK ins \in Inputs(1) : \E last \in SUBSET ins : \E out \in Outs(last) : \E b, s \in FreeBuffers :
        b # s /\ Evaluated(Kernel(enc, Of(ins), {<<b, 0>>, <<s, 0>>}), ins, last, out, b, {s})
  BY DEF TwoOutputs
<1>a. PICK last \in SUBSET ins : \E out \in Outs(last) : \E b, s \in FreeBuffers :
        b # s /\ Evaluated(Kernel(enc, Of(ins), {<<b, 0>>, <<s, 0>>}), ins, last, out, b, {s})
  BY <1>0
<1>1. PICK out \in Outs(last), b \in FreeBuffers, s \in FreeBuffers :
        b # s /\ Evaluated(Kernel(enc, Of(ins), {<<b, 0>>, <<s, 0>>}), ins, last, out, b, {s})
  BY <1>a
<1>2. ins \subseteq {a \in Arrays : Exists(a)} /\ last \subseteq ins
  BY DEF Inputs
<1>3. Of(ins) \in SUBSET Buffers /\ BuffersOf(live, Of(ins))
  BY <1>2, OfAre DEF BuffersOf
<1>4. /\ b \in Buffers /\ Unheld(enc, held, live, b) /\ Writable(enc, held, live, Of(ins), b)
      /\ {s} \in SUBSET Buffers /\ \A x \in {s} : Unheld(enc, held, live, x)
  BY FreeAre DEF Writable
<1>5. PICK W : W = {<<b, 0>>, <<s, 0>>}
  OBVIOUS
<1>6. W \in SUBSET (Buffers \X Parts) /\ {w[1] : w \in W} = {b} \cup {s}
  BY <1>4, <1>5 DEF Parts
<1>7. Encoded(enc, Kernel(enc, Of(ins), W), held, live, Of(ins), b, {s})
  BY <1>3, <1>4, <1>6, Now, OneKernel
<1>8. Evaluated(Kernel(enc, Of(ins), W), ins, last, out, b, {s})
  BY <1>1, <1>5
<1> QED
  BY <1>2, <1>4, <1>7, <1>8, EvaluatedKeeps

LEMMA ThroughTemporaryKeeps ==
  ASSUME IInv, ThroughTemporary
  PROVE  IInv'
<1>0. PICK ins \in Inputs(1) : \E last \in SUBSET ins : \E out \in Outs(last) : \E t, b \in FreeBuffers :
        /\ t # b
        /\ Evaluated(Kernel(AddTemporary(Kernel(enc, Of(ins), {<<t, 0>>}), t), {t}, {<<b, 0>>}),
                     ins, last, out, b, {})
  BY DEF ThroughTemporary
<1>a. PICK last \in SUBSET ins : \E out \in Outs(last) : \E t, b \in FreeBuffers :
        /\ t # b
        /\ Evaluated(Kernel(AddTemporary(Kernel(enc, Of(ins), {<<t, 0>>}), t), {t}, {<<b, 0>>}),
                     ins, last, out, b, {})
  BY <1>0
<1>1. PICK out \in Outs(last), t \in FreeBuffers, b \in FreeBuffers :
        /\ t # b
        /\ Evaluated(Kernel(AddTemporary(Kernel(enc, Of(ins), {<<t, 0>>}), t), {t}, {<<b, 0>>}),
                     ins, last, out, b, {})
  BY <1>a
<1>2. ins \subseteq {a \in Arrays : Exists(a)} /\ last \subseteq ins
  BY DEF Inputs
<1>3. Of(ins) \in SUBSET Buffers /\ BuffersOf(live, Of(ins))
  BY <1>2, OfAre DEF BuffersOf
<1>4. /\ b \in Buffers /\ Unheld(enc, held, live, b)
      /\ t \in Buffers /\ Unheld(enc, held, live, t)
  BY FreeAre
<1>5. Encoded(enc, Kernel(AddTemporary(Kernel(enc, Of(ins), {<<t, 0>>}), t), {t}, {<<b, 0>>}),
              held, live, Of(ins), b, {})
  BY <1>1, <1>3, <1>4, Now, ByTemporary
<1> QED
  BY <1>1, <1>2, <1>4, <1>5, EvaluatedKeeps

LEMMA ConcatenateKeeps ==
  ASSUME IInv, Concatenate
  PROVE  IInv'
<1>0. PICK a1 \in Arrays, a2 \in Arrays : \E last \in SUBSET {a1, a2} : \E out \in Outs(last) : \E b \in FreeBuffers :
        /\ Exists(a1) /\ Exists(a2)
        /\ Evaluated(EndConcurrent(Kernel(Kernel(StartConcurrent(enc), {live[a1]}, {<<b, 1>>}),
                                          {live[a2]}, {<<b, 2>>})), {a1, a2}, last, out, b, {})
  BY DEF Concatenate
<1>a. PICK last \in SUBSET {a1, a2} : \E out \in Outs(last) : \E b \in FreeBuffers :
        /\ Exists(a1) /\ Exists(a2)
        /\ Evaluated(EndConcurrent(Kernel(Kernel(StartConcurrent(enc), {live[a1]}, {<<b, 1>>}),
                                          {live[a2]}, {<<b, 2>>})), {a1, a2}, last, out, b, {})
  BY <1>0
<1>1. PICK out \in Outs(last), b \in FreeBuffers :
        /\ Exists(a1) /\ Exists(a2)
        /\ Evaluated(EndConcurrent(Kernel(Kernel(StartConcurrent(enc), {live[a1]}, {<<b, 1>>}),
                                          {live[a2]}, {<<b, 2>>})), {a1, a2}, last, out, b, {})
  BY <1>a
<1>2. {a1, a2} \subseteq {a \in Arrays : Exists(a)} /\ last \subseteq {a1, a2}
  BY <1>1
<1>3. Of({a1, a2}) = {live[a1], live[a2]}
  BY DEF Of
<1>4. /\ live[a1] \in Buffers /\ live[a2] \in Buffers /\ BuffersOf(live, {live[a1], live[a2]})
  BY <1>2, <1>3, OfAre DEF BuffersOf
<1>5. b \in Buffers /\ Unheld(enc, held, live, b)
  BY FreeAre
<1>6. Encoded(enc, EndConcurrent(Kernel(Kernel(StartConcurrent(enc), {live[a1]}, {<<b, 1>>}),
                                        {live[a2]}, {<<b, 2>>})), held, live, Of({a1, a2}), b, {})
  <2>1. PICK y1 \in Buffers, y2 \in Buffers : y1 = live[a1] /\ y2 = live[a2]
    BY <1>4
  <2>2. BuffersOf(live, {y1, y2}) /\ Of({a1, a2}) = {y1, y2}
    BY <1>3, <1>4, <2>1
  <2>3. Encoded(enc, EndConcurrent(Kernel(Kernel(StartConcurrent(enc), {y1}, {<<b, 1>>}), {y2}, {<<b, 2>>})),
                held, live, {y1, y2}, b, {})
    BY <1>5, <2>2, Now, InParts
  <2> QED
    BY <2>1, <2>2, <2>3
<1> QED
  BY <1>1, <1>2, <1>5, <1>6, EvaluatedKeeps

LEMMA ViewKeeps ==
  ASSUME IInv, View
  PROVE  IInv'
<1>0. PICK a \in Arrays : \E last \in SUBSET {a} : \E out \in Outs(last) :
        Exists(a) /\ Evaluated(enc, {a}, last, out, live[a], {})
  BY DEF View
<1>1. PICK last \in SUBSET {a} : \E out \in Outs(last) :
        Exists(a) /\ Evaluated(enc, {a}, last, out, live[a], {})
  BY <1>0
<1>a. PICK out \in Outs(last) : Evaluated(enc, {a}, last, out, live[a], {})
  BY <1>1
<1>2. {a} \subseteq {x \in Arrays : Exists(x)} /\ last \subseteq {a}
  BY <1>1
<1>3. live[a] \in Of({a}) /\ live[a] \in Buffers
  BY <1>2, OfAre DEF Of
<1>4. Encoded(enc, enc, held, live, Of({a}), live[a], {})
  BY Now, NoKernel
<1> QED
  BY <1>a, <1>2, <1>3, <1>4, EvaluatedKeeps

LEMMA EndCallKeeps ==
  ASSUME IInv, EndCall
  PROVE  IInv'
<1>1. /\ calling' = FALSE /\ unused' = {} /\ live' = live
      /\ enc' = Commit(EndEncoding(enc))
      /\ held' = Append([held EXCEPT ![Len(held)] = @ \cup Of(unused) \cup enc.temps], {})
  BY DEF EndCall
<1>2. /\ enc \in Encoder /\ EncoderInv(enc) /\ ~enc.conc /\ Alive(live, calling, unused)
      /\ Retains(enc, held) /\ Keeps(enc, held, live, unused) /\ Writers(enc, held, live)
      /\ held \in Seq(SUBSET Buffers) /\ Len(held) = Len(enc.cbs)
  BY DEF IInv, EncoderInv, Retains
<1>3. PICK bufs \in SUBSET Buffers : bufs = Of(unused) /\ \A a \in unused : live[a] \in bufs
  <2>1. unused \subseteq {a \in Arrays : live[a] # None} /\ live \in [Arrays -> Buffers \cup {None}]
    BY <1>2 DEF Alive
  <2>2. \A a \in unused : live[a] \in Buffers
    BY <2>1
  <2>3. Of(unused) \in SUBSET Buffers /\ \A a \in unused : live[a] \in Of(unused)
    BY <2>2 DEF Of
  <2> QED
    BY <2>3
<1>4. PICK g, i : g = enc' /\ i = held'
  OBVIOUS
<1>5. Settled(enc, held, g, i, bufs)
  BY <1>1, <1>2, <1>3, <1>4, CommitSettles
<1>6. PICK n : n = Len(held)
  OBVIOUS
<1>7. /\ n \in Nat /\ DOMAIN held = 1..n /\ n \in DOMAIN held /\ Len(enc.cbs) = n
      /\ \A d \in DOMAIN enc.log : enc.log[d].cb \in 1..n /\ enc.log[d].cb \in Nat
  <2>1. enc.cbs # <<>> /\ \A d \in DOMAIN enc.log : enc.log[d].cb \in DOMAIN enc.cbs
    BY <1>2 DEF EncoderInv, Idle, Names
  <2> QED
    BY <1>2, <1>6, <2>1 DEF Encoder
<1>8. /\ \A c \in DOMAIN held : c \in DOMAIN i /\ held[c] \subseteq i[c]
      /\ bufs \subseteq i[n]
      /\ \A t \in enc.temps : t \in g.temps \/ t \in i[n]
      /\ g.temps \subseteq enc.temps
      /\ DOMAIN g.log = DOMAIN enc.log
      /\ \A d \in DOMAIN enc.log :
           /\ g.log[d].cb = enc.log[d].cb /\ g.log[d].reads = enc.log[d].reads
           /\ Wr(g.log[d]) = Wr(enc.log[d]) /\ Us(g.log[d]) = Us(enc.log[d])
  BY <1>5, <1>6 DEF Settled
<1>9. \A d \in DOMAIN enc.log : \A x : RetainedFor(enc, held, d, x) => RetainedFor(g, i, d, x)
  BY <1>8 DEF RetainedFor
<1>10. \A d \in DOMAIN enc.log : \A x \in i[n] : RetainedFor(g, i, d, x)
  BY <1>7, <1>8 DEF RetainedFor
<1>11. \A d \in DOMAIN enc.log : \A t \in enc.temps : RetainedFor(g, i, d, t) \/ t \in g.temps
  BY <1>8, <1>10
<1>a. Retains(g, i)
  <2>1. i \in Seq(SUBSET Buffers) /\ Len(i) = Len(g.cbs)
    BY <1>5 DEF Settled
  <2> QED
    BY <1>2, <1>8, <1>9, <1>11, <2>1 DEF Retains
<1>b. Keeps(g, i, live, {})
  <2>1. ASSUME NEW d \in DOMAIN enc.log, NEW x \in Us(enc.log[d])
        PROVE  RetainedFor(g, i, d, x) \/ x \in g.temps
    <3>1. RetainedFor(enc, held, d, x) \/ x \in enc.temps \/ \E a \in unused : live[a] = x
      BY <1>2, <2>1 DEF Keeps
    <3> QED
      BY <1>3, <1>8, <1>9, <1>10, <1>11, <3>1
  <2>2. \A t \in g.temps : \A a \in Arrays : live[a] # t
    BY <1>2, <1>8 DEF Keeps
  <2> QED
    BY <1>8, <2>1, <2>2 DEF Keeps
<1>c. Writers(g, i, live)
  <2> SUFFICES ASSUME NEW c \in DOMAIN enc.log, enc.log[c].cb < Len(g.cbs), NEW x \in Wr(enc.log[c])
               PROVE  \/ LastWriter(g, c, x)
                      \/ RetainedFor(g, i, c, x) /\ \A a \in Arrays : live[a] # x
    BY <1>8 DEF Writers
  <2>1. CASE enc.log[c].cb < Len(enc.cbs)
    <3>1. \/ LastWriter(enc, c, x)
          \/ RetainedFor(enc, held, c, x) /\ \A a \in Arrays : live[a] # x
      BY <1>2, <2>1 DEF Writers
    <3>2. LastWriter(enc, c, x) => LastWriter(g, c, x)
      BY <1>5, <2>1 DEF Settled
    <3> QED
      BY <1>9, <3>1, <3>2
  <2>2. CASE ~(enc.log[c].cb < Len(enc.cbs))
    <3>1. enc.log[c].cb = Len(enc.cbs)
      BY <1>7, <2>2
    <3>2. LastWriter(g, c, x) \/ x \in enc.temps
      BY <1>5, <3>1 DEF Settled
    <3>3. CASE x \in enc.temps
      <4>1. \A a \in Arrays : live[a] # x
        BY <1>2, <3>3 DEF Keeps
      <4>2. x \notin g.temps
        <5>1. g \in Encoder /\ EncoderInv(g) /\ g.log[c].cb < Len(g.cbs)
          BY <1>5, <1>8 DEF Settled
        <5>2. Us(g.log[c]) \cap g.temps = {}
          BY <1>8, <5>1 DEF EncoderInv, TempsLocal
        <5> QED
          BY <1>8, <5>2 DEF Us
      <4> QED
        BY <1>11, <3>3, <4>1, <4>2
    <3> QED
      BY <3>2, <3>3
  <2> QED
    BY <2>1, <2>2
<1>d. Alive(live', calling', unused')
  BY <1>1, <1>2 DEF Alive
<1>e. EncoderInv(g) /\ ~g.conc
  BY <1>5 DEF Settled
<1> QED
  BY <1>1, <1>4, <1>a, <1>b, <1>c, <1>d, <1>e DEF IInv

LEMMA DropKeeps ==
  ASSUME IInv, Drop
  PROVE  IInv'
<1>1. PICK o \in Arrays : ~calling /\ live' = [live EXCEPT ![o] = None]
  BY DEF Drop
<1>2. enc' = enc /\ held' = held /\ unused' = unused /\ calling' = calling
  BY DEF Drop
<1>3. /\ EncoderInv(enc) /\ ~enc.conc /\ Alive(live, calling, unused)
      /\ Retains(enc, held) /\ Keeps(enc, held, live, unused) /\ Writers(enc, held, live)
  BY DEF IInv
<1>4. live \in [Arrays -> Buffers \cup {None}] /\ unused = {}
  BY <1>1, <1>3 DEF Alive
<1>5. live' \in [Arrays -> Buffers \cup {None}] /\ \A a \in Arrays : live'[a] = live[a] \/ live'[a] = None
  BY <1>1, <1>4
<1>6. Alive(live', calling, unused)
  BY <1>3, <1>4, <1>5 DEF Alive
<1>7. \A x \in Buffers : (\A a \in Arrays : live[a] # x) => \A a \in Arrays : live'[a] # x
  BY <1>5, MetalEvalAssumption
<1>8. enc \in Encoder
  BY <1>3 DEF EncoderInv
<1>9. Keeps(enc, held, live', unused)
  <2>1. enc.temps \subseteq Buffers
    BY <1>8, EncoderTypes
  <2>2. \A d \in DOMAIN enc.log : \A b \in Us(enc.log[d]) : RetainedFor(enc, held, d, b) \/ b \in enc.temps
    BY <1>3, <1>4 DEF Keeps
  <2>3. \A b \in enc.temps : \A a \in Arrays : live'[a] # b
    BY <1>3, <1>7, <2>1 DEF Keeps
  <2> QED
    BY <2>2, <2>3 DEF Keeps
<1>10. Writers(enc, held, live')
  <2>1. \A c \in DOMAIN enc.log : Wr(enc.log[c]) \subseteq Buffers
    BY <1>8, EncoderTypes
  <2> QED
    BY <1>3, <1>7, <2>1 DEF Writers
<1> QED
  BY <1>2, <1>3, <1>6, <1>9, <1>10 DEF IInv

LEMMA FromDataKeeps ==
  ASSUME IInv, FromData
  PROVE  IInv'
<1>1. PICK o \in Arrays, b \in FreeBuffers : ~calling /\ live' = [live EXCEPT ![o] = b]
  BY DEF FromData
<1>2. enc' = enc /\ held' = held /\ unused' = unused /\ calling' = calling
  BY DEF FromData
<1>3. /\ EncoderInv(enc) /\ ~enc.conc /\ Alive(live, calling, unused)
      /\ Retains(enc, held) /\ Keeps(enc, held, live, unused) /\ Writers(enc, held, live)
  BY DEF IInv
<1>4. live \in [Arrays -> Buffers \cup {None}] /\ unused = {}
  BY <1>1, <1>3 DEF Alive
<1>5. b \in Buffers /\ Unheld(enc, held, live, b)
  BY FreeAre
<1>6. live' \in [Arrays -> Buffers \cup {None}] /\ \A a \in Arrays : live'[a] = live[a] \/ live'[a] = b
  BY <1>1, <1>4, <1>5
<1>7. Alive(live', calling, unused)
  BY <1>3, <1>4, <1>6 DEF Alive
<1>8. \A x : (\A a \in Arrays : live[a] # x) /\ x # b => \A a \in Arrays : live'[a] # x
  BY <1>6
<1>9. Keeps(enc, held, live', unused)
  <2>1. \A d \in DOMAIN enc.log : \A x \in Us(enc.log[d]) : RetainedFor(enc, held, d, x) \/ x \in enc.temps
    BY <1>3, <1>4 DEF Keeps
  <2>2. \A x \in enc.temps : \A a \in Arrays : live'[a] # x
    BY <1>3, <1>5, <1>8 DEF Keeps, Unheld
  <2> QED
    BY <2>1, <2>2 DEF Keeps
<1>10. Writers(enc, held, live')
  <2>1. \A c \in DOMAIN enc.log : b \notin Wr(enc.log[c])
    <3>1. unused \in SUBSET Arrays
      BY <1>4
    <3> QED
      BY <1>3, <1>5, <3>1, UnheldIdle DEF Us
  <2> QED
    BY <1>3, <1>8, <2>1 DEF Writers
<1> QED
  BY <1>2, <1>3, <1>7, <1>9, <1>10 DEF IInv

LEMMA RunStepKeeps ==
  ASSUME IInv, Run
  PROVE  IInv'
<1>1. PICK k \in DOMAIN enc.log : MayRun(enc, k) /\ enc' = Ran(enc, k)
  BY DEF Run
<1>2. live' = live /\ calling' = calling /\ unused' = unused /\ held' = held
  BY DEF Run
<1>3. /\ enc \in Encoder /\ EncoderInv(enc) /\ ~enc.conc /\ Alive(live, calling, unused)
      /\ Retains(enc, held) /\ Keeps(enc, held, live, unused) /\ Writers(enc, held, live)
  BY DEF IInv, EncoderInv
<1>4. PICK f : f = enc'
  OBVIOUS
<1>5. Runs(enc, f, k)
  BY <1>1, <1>3, <1>4, RanIs
<1>6. f \in Encoder
  BY <1>5 DEF Runs
<1>7. EncoderInv(f)
  BY <1>1, <1>3, <1>5, <1>6, RunKeeps
<1>8. /\ f.conc = enc.conc /\ f.temps = enc.temps /\ f.cbs = enc.cbs
      /\ \A d \in DOMAIN f.log : Moved(k, d) \in DOMAIN enc.log /\ f.log[d] = enc.log[Moved(k, d)]
  BY <1>5 DEF Runs
<1>9. \A d \in DOMAIN f.log : \A x : RetainedFor(enc, held, Moved(k, d), x) => RetainedFor(f, held, d, x)
  BY <1>8 DEF RetainedFor
<1>10. Retains(f, held)
  BY <1>3, <1>8, <1>9 DEF Retains
<1>11. Keeps(f, held, live, unused)
  BY <1>3, <1>8, <1>9 DEF Keeps
<1>12. Writers(f, held, live)
  <2> SUFFICES ASSUME NEW c \in DOMAIN f.log, f.log[c].cb < Len(f.cbs), NEW b \in Wr(f.log[c])
               PROVE  \/ LastWriter(f, c, b)
                      \/ RetainedFor(f, held, c, b) /\ \A a \in Arrays : live[a] # b
    BY DEF Writers
  <2>1. \/ LastWriter(enc, Moved(k, c), b)
        \/ RetainedFor(enc, held, Moved(k, c), b) /\ \A a \in Arrays : live[a] # b
    BY <1>3, <1>8 DEF Writers
  <2>2. LastWriter(enc, Moved(k, c), b) => LastWriter(f, c, b)
    BY <1>1, <1>3, <1>5, <1>6, RunLastWriter
  <2> QED
    BY <1>9, <2>1, <2>2
<1> QED
  BY <1>2, <1>3, <1>4, <1>7, <1>8, <1>10, <1>11, <1>12 DEF IInv

LEMMA CompleteStepKeeps ==
  ASSUME IInv, Complete
  PROVE  IInv'
<1>1. MayComplete(enc) /\ enc' = Completed(enc) /\ held' = Tail(held)
  BY DEF Complete
<1>2. live' = live /\ calling' = calling /\ unused' = unused
  BY DEF Complete
<1>3. /\ enc \in Encoder /\ EncoderInv(enc) /\ ~enc.conc /\ Alive(live, calling, unused)
      /\ Retains(enc, held) /\ Keeps(enc, held, live, unused) /\ Writers(enc, held, live)
      /\ held \in Seq(SUBSET Buffers) /\ Len(held) = Len(enc.cbs)
  BY DEF IInv, EncoderInv, Retains
<1>4. PICK f, i : f = enc' /\ i = held'
  OBVIOUS
<1>5. Completes(enc, f)
  BY <1>1, <1>3, <1>4, CompletedIs
<1>6. f \in Encoder
  BY <1>5 DEF Completes
<1>7. EncoderInv(f)
  BY <1>3, <1>5, <1>6, CompleteKeeps
<1>8. PICK n : n = Len(held)
  OBVIOUS
<1>9. n \in Nat /\ n > 1 /\ Len(enc.cbs) = n /\ Len(f.cbs) = n - 1
  BY <1>3, <1>5, <1>8 DEF Completes
<1>10. /\ i \in Seq(SUBSET Buffers) /\ Len(i) = n - 1 /\ DOMAIN i = 1..(n - 1) /\ DOMAIN held = 1..n
       /\ \A c \in 1..(n - 1) : i[c] = held[c + 1]
  <2>1. held # <<>>
    BY <1>8, <1>9
  <2>2. i = Tail(held)
    BY <1>1, <1>4
  <2> QED
    BY <1>3, <1>8, <1>9, <2>1, <2>2, HeadTailProperties
<1>11. /\ f.conc = enc.conc /\ f.temps = enc.temps /\ DOMAIN f.log = DOMAIN enc.log
       /\ \A d \in DOMAIN enc.log :
            /\ enc.log[d].cb \in 2..n /\ f.log[d].cb = enc.log[d].cb - 1
            /\ f.log[d].reads = enc.log[d].reads
            /\ Wr(f.log[d]) = Wr(enc.log[d]) /\ Us(f.log[d]) = Us(enc.log[d])
  BY <1>5, <1>9 DEF Completes
<1>12. ASSUME NEW d \in DOMAIN enc.log, NEW x, RetainedFor(enc, held, d, x)
       PROVE  RetainedFor(f, i, d, x)
  <2>1. PICK c \in 1..n : enc.log[d].cb <= c /\ x \in held[c]
    BY <1>10, <1>12 DEF RetainedFor
  <2>2. /\ c - 1 \in 1..(n - 1) /\ c - 1 + 1 = c
        /\ f.log[d].cb <= c - 1
    BY <1>9, <1>11, <2>1
  <2>3. x \in i[c - 1]
    BY <1>10, <2>1, <2>2
  <2> QED
    BY <1>10, <2>2, <2>3 DEF RetainedFor
<1>13. Retains(f, i)
  <2>1. \A d \in DOMAIN f.log : \A b \in f.log[d].reads \ Wr(f.log[d]) : RetainedFor(f, i, d, b) \/ b \in f.temps
    BY <1>3, <1>11, <1>12 DEF Retains
  <2> QED
    BY <1>9, <1>10, <2>1 DEF Retains
<1>14. Keeps(f, i, live, unused)
  BY <1>3, <1>11, <1>12 DEF Keeps
<1>15. Writers(f, i, live)
  <2> SUFFICES ASSUME NEW c \in DOMAIN enc.log, f.log[c].cb < Len(f.cbs), NEW b \in Wr(enc.log[c])
               PROVE  \/ LastWriter(f, c, b)
                      \/ RetainedFor(f, i, c, b) /\ \A a \in Arrays : live[a] # b
    BY <1>11 DEF Writers
  <2>1. enc.log[c].cb < Len(enc.cbs)
    BY <1>9, <1>11
  <2>2. \/ LastWriter(enc, c, b)
        \/ RetainedFor(enc, held, c, b) /\ \A a \in Arrays : live[a] # b
    BY <1>3, <2>1 DEF Writers
  <2>3. LastWriter(enc, c, b) => LastWriter(f, c, b)
    <3>1. b \in Buffers
      BY <1>3, EncoderTypes
    <3> QED
      BY <1>3, <1>5, <1>6, <3>1, CompleteLastWriter
  <2> QED
    BY <1>12, <2>2, <2>3
<1> QED
  BY <1>2, <1>3, <1>4, <1>7, <1>11, <1>13, <1>14, <1>15 DEF IInv

LEMMA InitInv ==
  ASSUME Init
  PROVE  IInv
<1>1. PICK e : e = enc
  OBVIOUS
<1>2. e = NewEncoder(Buffers)
  BY <1>1 DEF Init
<1>3. /\ e.id = 0 /\ e.needs = FALSE /\ e.conc = FALSE /\ e.prev = {} /\ e.next = {} /\ e.concOut = {}
      /\ e.ins = {} /\ e.outs = {} /\ e.temps = {} /\ e.seg = 0 /\ e.log = <<>>
      /\ e.table = [b \in Buffers |-> 0] /\ e.cbs = <<{}>> /\ e.ops = 0
  BY <1>2 DEF NewEncoder
<1>4. e \in Encoder
  <2>1. <<>> \in Seq(DispatchSet) /\ <<{}>> \in Seq(SUBSET (Nat \ {0}))
    OBVIOUS
  <2>2. [b \in Buffers |-> 0] \in [Buffers -> Nat]
    OBVIOUS
  <2>3. e = [id |-> 0, needs |-> FALSE, conc |-> FALSE, prev |-> {}, next |-> {}, concOut |-> {},
             ins |-> {}, outs |-> {}, temps |-> {}, seg |-> 0, log |-> <<>>,
             table |-> [b \in Buffers |-> 0], cbs |-> <<{}>>, ops |-> 0]
    BY <1>2 DEF NewEncoder
  <2> QED
    BY <2>1, <2>2, <2>3 DEF Encoder
<1>5. DOMAIN e.log = {} /\ Len(e.cbs) = 1 /\ DOMAIN e.cbs = {1} /\ e.cbs[1] = {} /\ \A b \in Buffers : e.table[b] = 0
  BY <1>3
<1>6. NamesInUse(e) \subseteq {0}
  <2>1. DOMAIN e.table = Buffers
    BY <1>3
  <2> QED
    BY <1>4, <1>5, <2>1, NamesAre
<1>7. IsFiniteSet(NamesInUse(e))
  BY <1>6, FS_Singleton, FS_Subset
<1>8. Idle(e) /\ Names(e)
  BY <1>3, <1>5, <1>7 DEF Idle, Names
<1>9. Sorted(e) /\ TableClosed(e) /\ WaitsBack(e) /\ Tracked(e) /\ TempsLocal(e)
  BY <1>3, <1>5 DEF Sorted, TableClosed, WaitsBack, Tracked, TempsLocal
<1>10. NoWriteAfterRead(e) /\ Barriers(e) /\ Fences(e)
  BY <1>5 DEF NoWriteAfterRead, Barriers, Fences
<1>11. EncoderInv(e)
  BY <1>4, <1>8, <1>9, <1>10 DEF EncoderInv
<1>12. held = <<{}>> /\ unused = {} /\ calling = FALSE /\ live = [a \in Arrays |-> None]
  BY DEF Init
<1>13. Alive(live, calling, unused)
  BY <1>12 DEF Alive
<1>14. Retains(e, held)
  <2>1. held \in Seq(SUBSET Buffers) /\ Len(held) = 1
    BY <1>12
  <2> QED
    BY <1>5, <2>1 DEF Retains
<1>15. Keeps(e, held, live, unused) /\ Writers(e, held, live)
  BY <1>3, <1>5 DEF Keeps, Writers
<1> QED
  BY <1>1, <1>3, <1>11, <1>13, <1>14, <1>15 DEF IInv

----------------------------------------------------------------------------
\* What evaluation on a Metal stream keeps: of the encoder, which dispatches are behind which
\* barriers and fences, and which encoder the table names; of the buffers, that a command buffer
\* retains what its dispatches use.
THEOREM Inductive == Spec => []IInv
<1>1. Init => IInv
  BY InitInv
<1>2. IInv /\ [Next]_vars => IInv'
  <2> SUFFICES ASSUME IInv, [Next]_vars
               PROVE  IInv'
    OBVIOUS
  <2>1. CASE Elementwise
    BY <2>1, ElementwiseKeeps
  <2>2. CASE ThroughTemporary
    BY <2>2, ThroughTemporaryKeeps
  <2>3. CASE Concatenate
    BY <2>3, ConcatenateKeeps
  <2>4. CASE View
    BY <2>4, ViewKeeps
  <2>5. CASE TwoOutputs
    BY <2>5, TwoOutputsKeeps
  <2>6. CASE EndCall
    BY <2>6, EndCallKeeps
  <2>7. CASE Drop
    BY <2>7, DropKeeps
  <2>8. CASE FromData
    BY <2>8, FromDataKeeps
  <2>9. CASE Run
    BY <2>9, RunStepKeeps
  <2>10. CASE Complete
    BY <2>10, CompleteStepKeeps
  <2>11. CASE UNCHANGED vars
    BY <2>11 DEF IInv, vars
  <2> QED
    BY <2>1, <2>2, <2>3, <2>4, <2>5, <2>6, <2>7, <2>8, <2>9, <2>10, <2>11 DEF Next
<1> QED
  BY <1>1, <1>2, PTL DEF Spec

\* A dispatch that the GPU may start conflicts with no earlier one that has not run: barriers order
\* the dispatches of an encoder, fences those of two, and buffers that only one of them reads are
\* retained, so that no later one gets them to write.
THEOREM NoneOvertakes == Spec => []RunsInOrder
<1>1. IInv => RunsInOrder
  <2> SUFFICES ASSUME IInv, NEW d \in DOMAIN enc.log, MayRun(enc, d), NEW c \in 1..(d - 1),
                      Conflict(enc.log[c], enc.log[d])
               PROVE  FALSE
    BY DEF RunsInOrder
  <2>1. enc \in Encoder /\ EncoderInv(enc)
    BY Now
  <2>2. c \in DOMAIN enc.log /\ c < d
    <3>1. DOMAIN enc.log = 1..Len(enc.log) /\ Len(enc.log) \in Nat
      BY <2>1 DEF Encoder
    <3> QED
      BY <3>1
  <2>3. /\ enc.log[c].cb \in Nat /\ enc.log[d].cb \in Nat /\ enc.log[c].cb <= enc.log[d].cb
    BY <2>1, <2>2, EncoderTypes DEF EncoderInv, Sorted
  <2>4. CASE enc.log[c].cb = enc.log[d].cb
    <3>1. enc.log[c].seg < enc.log[d].seg
      BY <2>1, <2>2, <2>4 DEF EncoderInv, Barriers
    <3>2. /\ enc.log[c].cb \in DOMAIN enc.cbs
          /\ enc.log[c].id \in enc.cbs[enc.log[c].cb] /\ enc.log[d].id \in enc.cbs[enc.log[c].cb]
      BY <2>1, <2>2, <2>4 DEF EncoderInv, Names
    <3>3. enc.log[c].id = enc.log[d].id
      BY <2>1, <3>2 DEF EncoderInv, Names
    <3> QED
      BY <2>2, <3>1, <3>3 DEF MayRun
  <2>5. CASE enc.log[c].cb < enc.log[d].cb
    <3>1. \A b \in Wr(enc.log[c]) : b \notin Us(enc.log[d])
      BY <2>1, <2>2, <2>5, NoEarlierWriter
    <3>2. \A b \in Wr(enc.log[d]) : b \notin enc.log[c].reads
      BY <2>1, <2>2, <3>1 DEF EncoderInv, NoWriteAfterRead, Us
    <3> QED
      BY <3>1, <3>2, ConflictMeets
  <2> QED
    BY <2>3, <2>4, <2>5
<1> QED
  BY <1>1, Inductive, PTL

\* Memory that the allocator may hand out again, to be written by the host at once, is used by no
\* dispatch that has yet to run: what a primitive drops is retained until its command buffer is done.
THEOREM FreeMemoryIsIdle == Spec => []FreeIsIdle
<1>1. IInv => FreeIsIdle
  <2> SUFFICES ASSUME IInv, NEW b \in FreeBuffers, NEW d \in DOMAIN enc.log
               PROVE  b \notin Uses(d)
    BY DEF FreeIsIdle
  <2>1. Unheld(enc, held, live, b)
    BY FreeAre
  <2>2. Keeps(enc, held, live, unused) /\ unused \in SUBSET Arrays
    BY DEF IInv, Alive
  <2>3. b \notin Us(enc.log[d])
    BY <2>1, <2>2, UnheldIdle
  <2> QED
    BY <2>3 DEF Uses, Us, Wr
<1> QED
  BY <1>1, Inductive, PTL

\* The table of fences refers only to encoders whose command buffers have not completed: the
\* handlers of end_encoding leave nothing behind.
THEOREM TableForgets == Spec => []TableIsCurrent
<1>1. IInv => TableIsCurrent
  BY Now DEF EncoderInv, TableClosed, TableIsCurrent
<1> QED
  BY <1>1, Inductive, PTL

\* The first dispatch of a committed command buffer may always start: a fence waits only for encoders
\* of earlier command buffers, so that no circle of them stops the GPU.
THEOREM NoCircle == Spec => []SomeMayRun
<1>1. IInv => SomeMayRun
  <2> SUFFICES ASSUME IInv, NEW k \in DOMAIN enc.log, enc.log[k].cb < Len(enc.cbs)
               PROVE  \E d \in DOMAIN enc.log : MayRun(enc, d)
    BY DEF SomeMayRun
  <2>1. enc \in Encoder /\ EncoderInv(enc)
    BY Now
  <2>2. /\ DOMAIN enc.log = 1..Len(enc.log) /\ Len(enc.log) \in Nat
        /\ \A d \in DOMAIN enc.log : enc.log[d].cb \in Nat /\ enc.log[d].seg \in Nat
        /\ Len(enc.cbs) \in Nat
    BY <2>1, EncoderTypes DEF Encoder
  <2>3. 1 \in DOMAIN enc.log
    BY <2>2
  <2>4. \A d \in DOMAIN enc.log : 1 < d \/ d = 1
    BY <2>2
  <2>5. \A d \in DOMAIN enc.log :
          /\ enc.log[1].cb <= enc.log[d].cb
          /\ enc.log[1].cb = enc.log[d].cb => enc.log[1].seg <= enc.log[d].seg
    BY <2>1, <2>2, <2>3, <2>4 DEF EncoderInv, Sorted
  <2>6. enc.log[1].cb < Len(enc.cbs)
    BY <2>2, <2>3, <2>5
  <2>7. ASSUME NEW j \in DOMAIN enc.log, enc.log[j].id = enc.log[1].id
        PROVE  ~(enc.log[j].seg < enc.log[1].seg)
    <3>1. /\ enc.log[j].cb \in DOMAIN enc.cbs /\ enc.log[1].cb \in DOMAIN enc.cbs
          /\ enc.log[j].id \in enc.cbs[enc.log[j].cb] /\ enc.log[1].id \in enc.cbs[enc.log[1].cb]
      BY <2>1, <2>3 DEF EncoderInv, Names
    <3>2. enc.log[j].cb = enc.log[1].cb
      BY <2>1, <2>7, <3>1 DEF EncoderInv, Names
    <3> QED
      BY <2>2, <2>3, <2>5, <3>2
  <2>8. ASSUME NEW j \in DOMAIN enc.log
        PROVE  enc.log[j].id \notin enc.log[1].waits
    <3>1. enc.log[j].cb \in DOMAIN enc.cbs /\ enc.log[j].id \in enc.cbs[enc.log[j].cb]
      BY <2>1 DEF EncoderInv, Names
    <3>2. enc.log[1].cb <= enc.log[j].cb
      BY <2>5
    <3> QED
      BY <2>1, <2>3, <3>1, <3>2 DEF EncoderInv, WaitsBack
  <2>9. MayRun(enc, 1)
    BY <2>6, <2>7, <2>8 DEF MayRun
  <2> QED
    BY <2>3, <2>9
<1> QED
  BY <1>1, Inductive, PTL
================================================================================
