----------------------------- MODULE MCNodeSync -----------------------------
(* A small instance of NodeSync: two devices over a field and rows one of them cannot all *)
(* see.                                                                                  *)
EXTENDS NodeSync

CONSTANTS a, b, x, y, k, d1, d2

Shape(v, s) == [data |-> [f \in Fields |-> v],
                kids |-> [c \in Rows |-> IF c \in ToSet(s) THEN k ELSE Absent],
                order |-> s, updated |-> 0]

AllSeen  == [d \in Devices |-> [fields |-> Fields \cup {"updated"}, rows |-> Rows]]
\* The second device does not get row `a`.
OneMasked == [d \in Devices |-> [fields |-> Fields \cup {"updated"},
                                 rows |-> IF d = d2 THEN Rows \ {a} ELSE Rows]]
ByEach   == [c \in Rows |-> IF c = a THEN d1 ELSE d2]

\* The provider starts without rows, or with the row `a`.
NewNode  == {EmptyShape}
OneRow   == {Shape(x, <<a>>)}

\* One field, and neither the time of its last change nor any row goes over.
FieldsSeen  == [d \in Devices |-> [fields |-> Fields, rows |-> {}]]
SameDevices == Permutations(Devices)
=============================================================================
