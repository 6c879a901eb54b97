------------------------------ MODULE TaskQueue ------------------------------
(***************************************************************************)
(* What one stream of the CPU back end promises its clients: a task that    *)
(* is accepted runs exactly once, tasks run one at a time in the order of   *)
(* acceptance, and a closed queue accepts nothing but still runs what it    *)
(* has accepted.  StreamThread implements this specification.               *)
(***************************************************************************)
EXTENDS Naturals, Sequences

CONSTANT Task

VARIABLES
  accepted,  \* every task accepted so far, in order of acceptance
  executed,  \* how many of them have finished
  closed     \* TRUE once the stream has been stopped

vars == <<accepted, executed, closed>>

TypeOK ==
  /\ accepted \in Seq(Task)
  /\ executed \in 0..Len(accepted)
  /\ closed \in BOOLEAN

Init ==
  /\ accepted = <<>>
  /\ executed = 0
  /\ closed = FALSE

Accept(t) ==
  /\ ~closed
  /\ accepted' = Append(accepted, t)
  /\ UNCHANGED <<executed, closed>>

Execute ==
  /\ executed < Len(accepted)
  /\ executed' = executed + 1
  /\ UNCHANGED <<accepted, closed>>

Close ==
  /\ closed' = TRUE
  /\ UNCHANGED <<accepted, executed>>

Next ==
  \/ \E t \in Task : Accept(t)
  \/ Execute
  \/ Close

Spec == Init /\ [][Next]_vars /\ WF_vars(Execute)

=============================================================================
