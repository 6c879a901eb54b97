------------------------------- MODULE MetalEval -------------------------------
(* Evaluation on a Metal stream (backend/metal/eval.cpp): primitives allocate or take over   *)
(* buffers and encode kernels, what they use is retained until the command buffer has been   *)
(* executed, and memory nobody refers to is handed out again at once, while the GPU runs     *)
(* behind.  A call of the client evaluates a few primitives one after another; the           *)
(* synchronizer of eval_impl ends it.                                                        *)
EXTENDS CommandEncoder

CONSTANTS Arrays,       \* slots for arrays the program holds
          Buffers,      \* buffers of the allocator
          None,
          MaxBufferOps, \* max_ops_per_buffer_
          MaxPending,   \* bound: dispatches that have not run
          MaxInFlight   \* bound: command buffers that have not completed

ASSUME MetalEvalAssumption == IsFiniteSet(Arrays) /\ None \notin Buffers
           /\ MaxBufferOps \in Nat /\ MaxPending \in Nat /\ MaxInFlight \in Nat

VARIABLES live,      \* the buffer of each array that exists
          calling,   \* a call is open
          unused,    \* arrays made in this call that no primitive has used: what it evaluates
          enc,       \* the encoder
          held       \* what the completion handlers of each command buffer refer to

vars == <<live, calling, unused, enc, held>>

\* How many references there are to the data of a buffer.
Refs(b) ==
    Cardinality({a \in Arrays : live[a] = b}) + Cardinality({c \in DOMAIN held : b \in held[c]})
        + (IF b \in enc.temps THEN 1 ELSE 0)
FreeBuffers == {b \in Buffers : Refs(b) = 0}
Exists(a) == live[a] # None

\* is_donatable: no one else refers to the array, nor to its data.
Donatable(ins, last) == {live[a] : a \in {i \in ins \cap last : Refs(live[i]) = 1}}

\* Mutant: nothing is retained for siblings.
RetainedInputs(ins, siblings, out) == {live[a] : a \in ins} \ {out}

\* gpu::eval: inputs and siblings, but not the buffer of the output.
Retained(ins, siblings, out) == ({live[a] : a \in ins} \cup siblings) \ {out}

\* The end of gpu::eval.  A command buffer that is full, by dispatches or by size, is committed.
Finish(e, bufs) ==
    \E full \in BOOLEAN :
        /\ e.ops > MaxBufferOps => full
        /\ full => e.ops > 0
        /\ LET temps == e.temps
               last == Len(held)
           IN  IF full THEN enc' = Commit(EndEncoding(e)) /\ held' = Append([held EXCEPT ![last] = @ \cup bufs \cup temps], {})
                       ELSE enc' = e /\ held' = [held EXCEPT ![last] = @ \cup bufs]

\* A primitive of the call: `last` are inputs that nothing else in the program refers to, whose
\* arrays are gone afterwards.
Evaluated(e, ins, last, out, b, siblings) ==
    /\ Len(enc.log) < MaxPending
    /\ Len(held) < MaxInFlight
    /\ Finish(e, Retained(ins, siblings, b))
    /\ live' = [a \in Arrays |-> IF a = out THEN b ELSE IF a \in last THEN None ELSE live[a]]
    /\ calling' = TRUE
    /\ unused' = (unused \ ins) \cup {out}

Inputs(n) == {ins \in SUBSET {a \in Arrays : Exists(a)} : ins # {} /\ Cardinality(ins) <= n}
Outs(last) == {a \in Arrays : ~Exists(a) \/ a \in last}
Of(ins) == {live[a] : a \in ins}

\* One kernel, into a new buffer or into that of an input.
Elementwise ==
    \E ins \in Inputs(2) : \E last \in SUBSET ins : \E out \in Outs(last) :
      \E b \in FreeBuffers \cup Donatable(ins, last) :
        Evaluated(Kernel(enc, Of(ins), {<<b, 0>>}), ins, last, out, b, {})

\* An input is copied to a temporary first, as it is not contiguous.
ThroughTemporary ==
    \E ins \in Inputs(1) : \E last \in SUBSET ins : \E out \in Outs(last) : \E t, b \in FreeBuffers :
        /\ t # b
        /\ Evaluated(Kernel(AddTemporary(Kernel(enc, Of(ins), {<<t, 0>>}), t), {t}, {<<b, 0>>}),
                     ins, last, out, b, {})

\* concatenate_gpu: parts of the output are written concurrently.
Concatenate ==
    \E a1, a2 \in Arrays : \E last \in SUBSET {a1, a2} : \E out \in Outs(last) : \E b \in FreeBuffers :
        /\ Exists(a1) /\ Exists(a2)
        /\ LET first == Kernel(StartConcurrent(enc), {live[a1]}, {<<b, 1>>})
           IN  Evaluated(EndConcurrent(Kernel(first, {live[a2]}, {<<b, 2>>})), {a1, a2}, last, out, b, {})

\* A view: the output shares the buffer of the input, and nothing is encoded.
View ==
    \E a \in Arrays : \E last \in SUBSET {a} : \E out \in Outs(last) :
        Exists(a) /\ Evaluated(enc, {a}, last, out, live[a], {})

\* A primitive with two outputs of which the program uses one.
TwoOutputs ==
    \E ins \in Inputs(1) : \E last \in SUBSET ins : \E out \in Outs(last) : \E b, s \in FreeBuffers :
        /\ b # s
        /\ Evaluated(Kernel(enc, Of(ins), {<<b, 0>>, <<s, 0>>}), ins, last, out, b, {s})

\* The synchronizer, the signal of its event and gpu::finalize.
EndCall ==
    /\ calling
    /\ calling' = FALSE
    /\ unused' = {}
    /\ enc' = Commit(EndEncoding(enc))
    /\ held' = Append([held EXCEPT ![Len(held)] = @ \cup Of(unused) \cup enc.temps], {})
    /\ UNCHANGED live

\* The client lets go of an array, or makes one from data of its own, which it writes at once.
Drop ==
    \E a \in Arrays :
        /\ ~calling /\ Exists(a)
        /\ live' = [live EXCEPT ![a] = None]
        /\ UNCHANGED <<calling, unused, enc, held>>

FromData ==
    \E a \in Arrays, b \in FreeBuffers :
        /\ ~calling /\ ~Exists(a)
        /\ live' = [live EXCEPT ![a] = b]
        /\ UNCHANGED <<calling, unused, enc, held>>

\* The GPU runs a dispatch; a command buffer completes.
Run ==
    \E d \in DOMAIN enc.log :
        /\ MayRun(enc, d)
        /\ enc' = Ran(enc, d)
        /\ UNCHANGED <<live, calling, unused, held>>

Complete ==
    /\ MayComplete(enc)
    /\ enc' = Completed(enc)
    /\ held' = Tail(held)
    /\ UNCHANGED <<live, calling, unused>>

Init ==
    /\ live = [a \in Arrays |-> None]
    /\ calling = FALSE
    /\ unused = {}
    /\ enc = NewEncoder(Buffers)
    /\ held = <<{}>>

Next ==
    \/ Elementwise \/ ThroughTemporary \/ Concatenate \/ View \/ TwoOutputs
    \/ EndCall \/ Drop \/ FromData \/ Run \/ Complete

Spec == Init /\ [][Next]_vars

----------------------------------------------------------------------------
Uses(d) == enc.log[d].reads \cup {w[1] : w \in enc.log[d].writes}

\* A dispatch the GPU may start conflicts with no earlier one that has not run: none is read before
\* it is written, or overwritten before it is read, whatever became of the buffers in between.
RunsInOrder ==
    \A d \in DOMAIN enc.log : MayRun(enc, d) =>
        \A c \in 1..(d - 1) : ~Conflict(enc.log[c], enc.log[d])

\* Memory the allocator may hand out, to be written by the host too, is used by no dispatch that
\* has yet to run.
FreeIsIdle == \A b \in FreeBuffers, d \in DOMAIN enc.log : b \notin Uses(d)

\* The table of fences does not grow: it refers to encoders of command buffers that have not completed.
TableIsCurrent == \A b \in Buffers : enc.table[b] # 0 => \E c \in DOMAIN enc.cbs : enc.table[b] \in enc.cbs[c]

\* Fences never wait for one another in a circle: as long as there is a dispatch in a committed
\* buffer, the GPU may start one.
SomeMayRun ==
    (\E d \in DOMAIN enc.log : enc.log[d].cb < Len(enc.cbs)) => \E d \in DOMAIN enc.log : MayRun(enc, d)
================================================================================
