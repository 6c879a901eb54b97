---------------------------- MODULE CommandEncoder -----------------------------
(* The encoder of a Metal stream (backend/metal/device.h and device.cpp).  Dispatches are    *)
(* encoded concurrently: the GPU may run them in any order that barriers, within an encoder, *)
(* and fences, between encoders, leave open.  The encoder inserts both from what it knows of *)
(* the buffers each dispatch reads and writes.  A state of it is the record                  *)
(*   id             the encoder that is open and its fence, 0 for none                       *)
(*   needs          needs_barrier_                                                           *)
(*   conc           concurrent_                                                              *)
(*   prev, next, concOut, ins, outs, temps   the sets of buffers of the same names           *)
(*   seg            barriers in the encoder so far                                           *)
(*   log            the dispatches that have not run, in the order of their encoding         *)
(*   table          prev_ce_outputs_: the encoder whose fence covers a buffer, 0 for none    *)
(*   cbs            the command buffers that have not completed, as the encoders of each;    *)
(*                  the last one is open                                                     *)
(*   ops            the dispatches of the open command buffer                                *)
(* Encoders are named by numbers that nothing refers to any more.                            *)
EXTENDS Naturals, Sequences, FiniteSets
LOCAL INSTANCE SequencesExt

NewEncoder(Buffers) ==
    [id |-> 0, needs |-> FALSE, conc |-> FALSE, prev |-> {}, next |-> {}, concOut |-> {},
     ins |-> {}, outs |-> {}, temps |-> {}, seg |-> 0, log |-> <<>>,
     table |-> [b \in Buffers |-> 0], cbs |-> <<{}>>, ops |-> 0]

\* get_command_encoder: each encoder has a fence of its own.
NamesInUse(e) ==
    {e.table[b] : b \in DOMAIN e.table} \cup (UNION ToSet(e.cbs)) \cup (UNION {d.waits : d \in ToSet(e.log)})
NewName(e) == CHOOSE n \in 1..(Cardinality(NamesInUse(e)) + 1) : n \notin NamesInUse(e)
Opened(e) ==
    IF e.id # 0 THEN e
    ELSE [e EXCEPT !.id = NewName(e), !.seg = 0, !.cbs[Len(e.cbs)] = @ \cup {NewName(e)}]

\* Mutant: the barrier is not asked for.
SetInputsNoBarrier(e, bufs) == [Opened(e) EXCEPT !.ins = @ \cup bufs]

\* set_input_array
SetInputs(e, bufs) ==
    [Opened(e) EXCEPT !.ins = @ \cup bufs, !.needs = @ \/ bufs \cap e.prev # {}]

\* register_output_array and set_output_array
RegisterOutputs(e, bufs) ==
    IF e.conc THEN [e EXCEPT !.outs = @ \cup bufs, !.concOut = @ \cup bufs]
              ELSE [e EXCEPT !.outs = @ \cup bufs, !.next = @ \cup bufs]
SetOutputs(e, bufs) == RegisterOutputs(SetInputs(e, bufs), bufs)

\* maybeInsertBarrier
MaybeInsertBarrier(e) ==
    IF e.needs THEN [e EXCEPT !.needs = FALSE, !.seg = @ + 1, !.prev = e.next, !.next = {}]
               ELSE [e EXCEPT !.prev = @ \cup e.next, !.next = {}]

\* dispatch_threads.  A write is a buffer and the part of it that is written, 0 for all.
Dispatch(e, reads, writes) ==
    LET f == MaybeInsertBarrier(e)
    IN  [f EXCEPT !.ops = @ + 1,
                  !.log = Append(@, [cb |-> Len(f.cbs), id |-> f.id, seg |-> f.seg, waits |-> {},
                                          reads |-> reads, writes |-> writes])]

\* A kernel: its inputs and outputs are set, then it is dispatched.
Kernel(e, reads, writes) ==
    Dispatch(SetOutputs(SetInputs(e, reads), {w[1] : w \in writes}), reads, writes)

\* start_concurrent and the end of its context.
StartConcurrent(e) == [e EXCEPT !.conc = TRUE]
EndConcurrent(e) == [e EXCEPT !.conc = FALSE, !.prev = @ \cup e.concOut, !.concOut = {}]

AddTemporary(e, b) == [e EXCEPT !.temps = @ \cup {b}]

\* Mutants of end_encoding and of its handler: the outputs are entered before the waits are looked
\* up; entries are left.
EndEncodingTooEarly(e) ==
    IF e.id = 0 THEN e
    ELSE [e EXCEPT !.id = 0, !.needs = FALSE, !.conc = FALSE, !.prev = {}, !.next = {}, !.concOut = {},
                   !.ins = {}, !.outs = {}, !.temps = {}, !.seg = 0,
                   !.log = [d \in DOMAIN @ |-> IF @[d].id # e.id THEN @[d] ELSE
                              [@[d] EXCEPT !.waits = {e.id} \cup ({e.table[b] : b \in e.ins \ e.temps} \ {0})]],
                   !.table = [b \in DOMAIN @ |-> IF b \in e.outs \ e.temps THEN e.id ELSE @[b]]]
CompletedLeavesEntries(e) ==
    [e EXCEPT !.cbs = Tail(@), !.log = [d \in DOMAIN @ |-> [@[d] EXCEPT !.cb = @ - 1]]]

\* end_encoding
EndEncoding(e) ==
    LET ins == e.ins \ e.temps
        outs == e.outs \ e.temps
        waits == {e.table[b] : b \in ins} \ {0}
    IN  IF e.id = 0 THEN e
        ELSE [e EXCEPT !.id = 0, !.needs = FALSE, !.conc = FALSE, !.prev = {}, !.next = {}, !.concOut = {},
                       !.ins = {}, !.outs = {}, !.temps = {}, !.seg = 0,
                       !.log = [d \in DOMAIN @ |-> IF @[d].id = e.id THEN [@[d] EXCEPT !.waits = waits] ELSE @[d]],
                       !.table = [b \in DOMAIN @ |-> IF b \in outs THEN e.id ELSE @[b]]]

Commit(e) == [e EXCEPT !.cbs = Append(@, {}), !.ops = 0]

----------------------------------------------------------------------------
(* The GPU.  Metal is modelled as the code relies on it. *)

\* A dispatch of a committed buffer starts when those behind earlier barriers of its encoder,
\* and the encoders its own waits for, have finished.
MayRun(e, d) ==
    /\ e.log[d].cb < Len(e.cbs)
    /\ \A k \in DOMAIN e.log :
         /\ ~(e.log[k].id = e.log[d].id /\ e.log[k].seg < e.log[d].seg)
         /\ e.log[k].id \notin e.log[d].waits
Ran(e, d) == [e EXCEPT !.log = RemoveAt(@, d)]

\* The command buffers of a queue complete in order, each when its dispatches have run; the
\* handlers of end_encoding remove the entries that are still those of its encoders.
MayComplete(e) == Len(e.cbs) > 1 /\ \A d \in DOMAIN e.log : e.log[d].cb # 1
Completed(e) ==
    [e EXCEPT !.table = [b \in DOMAIN @ |-> IF @[b] \in e.cbs[1] THEN 0 ELSE @[b]],
              !.cbs = Tail(@),
              !.log = [d \in DOMAIN @ |-> [e.log[d] EXCEPT !.cb = @ - 1]]]

\* Two dispatches that must run in the order of their encoding.
Overlap(v, w) == v[1] = w[1] /\ (v[2] = w[2] \/ v[2] = 0 \/ w[2] = 0)
Conflict(c, d) ==
    \/ \E w \in c.writes : w[1] \in d.reads
    \/ \E w \in d.writes : w[1] \in c.reads
    \/ \E v \in c.writes, w \in d.writes : Overlap(v, w)
================================================================================
