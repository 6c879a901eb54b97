-------------------------------- MODULE Lender --------------------------------
(***************************************************************************)
(* What an allocator promises its clients (mlx/allocator.h): a buffer that   *)
(* is handed out is as long as was asked for, and nobody else has it until   *)
(* it is given back.                                                         *)
(***************************************************************************)
EXTENDS Integers, Sequences

CONSTANTS Buffer, Length

VARIABLE uses  \* the sizes that the clients of each buffer have asked for

Init == uses = [b \in Buffer |-> <<>>]

Lend(b, size) ==
  /\ uses[b] = <<>>
  /\ size <= Length[b]
  /\ uses' = [uses EXCEPT ![b] = <<size>>]

GiveBack(b) ==
  /\ Len(uses[b]) = 1
  /\ uses' = [uses EXCEPT ![b] = <<>>]

Next ==
  \E b \in Buffer : GiveBack(b) \/ \E size \in 1..Length[b] : Lend(b, size)

Spec == Init /\ [][Next]_uses

=============================================================================
