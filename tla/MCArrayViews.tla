----------------------------- MODULE MCArrayViews ------------------------------
(* Small arrays for ArrayViews: shapes whose axes can be told apart, and one of three axes. *)
EXTENDS ArrayViews

MCShapes == {<<2, 4>>, <<2, 1, 2>>}
MCTargets == {<<8>>, <<4, 2>>, <<4>>, <<1, 2, 2>>, <<2, 2, 2>>}
MCRanges == {<<0, -1, 1>>, <<1, 9, 1>>, <<0, 9, 2>>, <<-1, -9, -1>>}
MCWindows == {[shape |-> <<2, 2>>, strides |-> <<1, 2>>, offset |-> 1],
              [shape |-> <<2, 3>>, strides |-> <<2, 1>>, offset |-> 0]}
================================================================================
