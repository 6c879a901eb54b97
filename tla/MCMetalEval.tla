------------------------------ MODULE MCMetalEval ------------------------------
(* A small machine for MetalEval: two arrays in three buffers. *)
EXTENDS MetalEval, TLC

MCSymmetry == Permutations(Buffers) \cup Permutations(Arrays)
================================================================================
