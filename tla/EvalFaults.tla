------------------------------ MODULE EvalFaults ------------------------------
(***************************************************************************)
(* Eval when a primitive cannot be evaluated: eval_cpu throws (a type it     *)
(* does not support, memory that cannot be allocated) and the exception      *)
(* leaves eval_impl, which catches nothing.  What has been dispatched for    *)
(* the nodes before it stays in the streams, and their arrays stay evaluated.*)
(***************************************************************************)
EXTENDS Eval

Throw ==
  /\ pc = "dispatch"
  /\ cur # Sync
  /\ pc' = "idle"
  /\ UNCHANGED <<arrays, queues, flags, active, args, walk>>

NextOrThrow == Next \/ Throw

SpecF == Init /\ [][NextOrThrow]_vars /\ Fairness

-----------------------------------------------------------------------------
(* "Wait on the array to be available.  After this is_available returns      *)
(* true" (array.h, array::wait): the wait for the arrays of a list returns.  *)
WaitReturns == pc = "ready" ~> pc = "idle"

=============================================================================
