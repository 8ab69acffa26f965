---------------------------- MODULE MCNodeMerge -----------------------------
(* Small shapes for NodeMerge: a field, a row and two literals. *)
EXTENDS NodeMerge

CONSTANTS ra, rb, rc, vx, vy, ek

RowsOf(s) == [r \in Rows |-> IF r \in ToSet(s) THEN ek ELSE Absent]
Shape(v, s) == [data |-> [f \in Fields |-> v], kids |-> RowsOf(s), order |-> s, updated |-> 0]

\* A row and a literal, one literal, or nothing yet.
SmallShapes == {Shape(vx, <<ra, rb>>), Shape(vx, <<rb>>), EmptyShape}
=============================================================================
