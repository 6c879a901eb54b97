--------------------------- MODULE MCMetalAllocator ---------------------------
(***************************************************************************)
(* MetalAllocator for TLC: two threads and five buffers, one on the heap and *)
(* one made of client memory.  A request of two may get the buffer of three. *)
(***************************************************************************)
EXTENDS MetalAllocator

MCBuffer == 1..5
MCLength == <<1, 2, 3, 8, 2>>

=============================================================================
