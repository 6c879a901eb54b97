---------------------------- MODULE MCBufferCache -----------------------------
(***************************************************************************)
(* BufferCache for TLC: three buffers of four units, one of five, one of one,  *)
(* with two units to a page.  A request of four may take a five; none of the *)
(* others may take a longer buffer.                                          *)
(***************************************************************************)
EXTENDS BufferCache

MCBuffer == 1..5
MCLength == <<4, 4, 4, 5, 1>>

=============================================================================
