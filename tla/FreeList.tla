------------------------------- MODULE FreeList -------------------------------
(***************************************************************************)
(* What BufferCache promises the allocators: a list of free buffers from     *)
(* which a request takes the best fit and memory is reclaimed from the       *)
(* oldest end.                                                               *)
(***************************************************************************)
EXTENDS FreeBuffers

VARIABLE list

Init == list = <<>>

Put(b) ==
  /\ b \notin ToSet(list)
  /\ list' = <<b>> \o list

Take(size) ==
  \E i \in DOMAIN list :
    /\ BestFit(list, size, i)
    /\ list' = RemoveAt(list, i)

DropOldest ==
  /\ list # <<>>
  /\ list' = Front(list)

DropAll == list' = <<>>

Next ==
  \/ \E b \in Buffer : Put(b)
  \/ \E size \in Request : Take(size)
  \/ DropOldest
  \/ DropAll

Spec == Init /\ [][Next]_list

=============================================================================
