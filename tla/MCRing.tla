-------------------------------- MODULE MCRing --------------------------------
(***************************************************************************)
(* Ring for TLC: three ranks make every kind of call.  Two elements are      *)
(* padded; five make segments of two packets, the last one short; the gather *)
(* walks the ring both ways at once; one send goes to the right, split       *)
(* between two sockets, and one to the left.                                 *)
(***************************************************************************)
EXTENDS Ring

Reduce(n) == [kind |-> "all_reduce", n |-> n, src |-> 0, dst |-> 0]
Gather(n) == [kind |-> "all_gather", n |-> n, src |-> 0, dst |-> 0]
SendTo(n, src, dst) == [kind |-> "send", n |-> n, src |-> src, dst |-> dst]

MCCalls ==
  <<Reduce(2), Reduce(5), SendTo(3, 0, 1), Gather(2), SendTo(1, 0, 2)>>

===============================================================================
