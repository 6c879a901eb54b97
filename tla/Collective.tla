------------------------------ MODULE Collective ------------------------------
(***************************************************************************)
(* What the operations of a group promise (mlx/distributed/ops.h): every     *)
(* rank makes the same calls in the same order, and a call returns what it   *)
(* is defined to return, whatever the other ranks do meanwhile.  An all      *)
(* reduce or an all gather returns on no rank before every rank has entered  *)
(* it, a receive not before the matching send.                               *)
(*                                                                         *)
(* An element is the bag of what was added up in it: <<c, r, e>> stands for  *)
(* element e of what rank r passes to call c.                                *)
(***************************************************************************)
EXTENDS Integers, Sequences, Bags

CONSTANTS
  Size,   \* size_, the number of ranks
  Calls   \* the calls, as [kind, n, src, dst]: n elements; src, dst for "send"

Rank == 0..(Size - 1)

VARIABLES
  entered,  \* how many calls the rank has entered
  result    \* what the last of them returned, <<>> while it runs

Input(c, r) == [e \in 1..Calls[c].n |-> SetToBag({<<c, r, e>>})]

Takes(c, r) == Calls[c].kind # "send" \/ r \in {Calls[c].src, Calls[c].dst}

Returned(c, r) ==
  LET n == Calls[c].n IN
  CASE Calls[c].kind = "all_reduce" ->
         [e \in 1..n |-> SetToBag({<<c, q, e>> : q \in Rank})]
    [] Calls[c].kind = "all_gather" ->
         [e \in 1..(Size * n) |-> Input(c, (e - 1) \div n)[((e - 1) % n) + 1]]
    [] OTHER -> Input(c, Calls[c].src)

Needed(c, r) ==
  CASE Calls[c].kind # "send" -> Rank
    [] Calls[c].kind = "send" /\ r = Calls[c].dst -> {Calls[c].src}
    [] OTHER -> {}

Init ==
  /\ entered = [r \in Rank |-> 0]
  /\ result = [r \in Rank |-> <<>>]

Enter(r) ==
  /\ entered[r] < Len(Calls)
  /\ entered[r] = 0 \/ result[r] # <<>> \/ ~Takes(entered[r], r)
  /\ entered' = [entered EXCEPT ![r] = @ + 1]
  /\ result' = [result EXCEPT ![r] = <<>>]

Return(r) ==
  /\ entered[r] > 0
  /\ result[r] = <<>>
  /\ Takes(entered[r], r)
  /\ \A q \in Needed(entered[r], r) : entered[q] >= entered[r]
  /\ result' = [result EXCEPT ![r] = Returned(entered[r], r)]
  /\ UNCHANGED entered

Next == \E r \in Rank : Enter(r) \/ Return(r)

vars == <<entered, result>>

Spec == Init /\ [][Next]_vars

=============================================================================
