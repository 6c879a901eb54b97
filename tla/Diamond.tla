-------------------------------- MODULE Diamond -------------------------------
(***************************************************************************)
(* A graph for TLC, on two streams.  p on s1 makes a; q on s2 reads a and    *)
(* makes the siblings b1 and b2; r on s1 reads a, b1 and b2 and makes d.     *)
(***************************************************************************)
CONSTANTS s1, s2

DiamondPrim == {"p", "q", "r"}
DiamondArray == {"a", "b1", "b2", "d"}
DiamondIns == [p |-> {}, q |-> {"a"}, r |-> {"a", "b1", "b2"}]
DiamondOuts == [p |-> {"a"}, q |-> {"b1", "b2"}, r |-> {"d"}]
DiamondStreamOf == [p |-> s1, q |-> s2, r |-> s1]
DiamondRequests == {{"a"}, {"b1"}, {"a", "b2"}, {"d"}}

=============================================================================
