-------------------------------- MODULE MCEval --------------------------------
(***************************************************************************)
(* Eval on the diamond, for TLC.                                             *)
(***************************************************************************)
EXTENDS EvalInvariant, Diamond

=============================================================================
