----------------------------- MODULE MCEvalFaults -----------------------------
(***************************************************************************)
(* EvalFaults on the diamond, for TLC.                                       *)
(***************************************************************************)
EXTENDS EvalFaults, Diamond

=============================================================================
