----------------------------- MODULE NodeShapes -----------------------------
(***************************************************************************)
(* The shallow value two peers exchange of one node, and the three-way     *)
(* merge of two of them against the shape both last agreed on              *)
(* (mergeNodeShape in shared/sync/node-sync.ts).                           *)
(*                                                                         *)
(* A shape has data fields, the time it was last updated, and children in  *)
(* an order.  A child is told apart by its id; its kind stands for all of  *)
(* its own value that the exchange compares (template, right, pin, held).  *)
(***************************************************************************)
EXTENDS Integers, SequencesExt

CONSTANTS
    Fields,     \* names of data fields, without `updated`
    Values,     \* what a field may hold
    Rows,       \* ids of children
    Kinds,      \* values of a child
    Literals,   \* the ids that are the hash of a literal row's own content
    Absent      \* the value of a field or child that is not there

ASSUME ShapesAssumption ==
    /\ Absent \notin Values \cup Kinds
    /\ Literals \subseteq Rows

\* The children that are there.
Kept(kids) == {c \in Rows : kids[c] # Absent}
Ids(s) == Kept(s.kids)

\* Every shape whose update time is at most `time`; its order lists each child once.
Shapes(time) ==
    {s \in [data : [Fields -> Values \cup {Absent}],
            kids : [Rows -> Kinds \cup {Absent}],
            order : Seq(Rows),
            updated : 0 .. time] :
        ToSet(s.order) = Ids(s) /\ IsInjective(s.order)}

\* The rows of an order that are in `ids`, in that order.
Filtered(order, ids) ==
    LET upTo[i \in 0 .. Len(order)] ==
          IF i = 0 THEN <<>>
          ELSE IF order[i] \in ids THEN Append(upTo[i - 1], order[i]) ELSE upTo[i - 1]
    IN  upTo[Len(order)]

EmptyShape == [data |-> [f \in Fields |-> Absent], kids |-> [c \in Rows |-> Absent],
               order |-> <<>>, updated |-> 0]

----------------------------------------------------------------------------
(* What the editor does to a node, one change at a time; only a change to its own data
   touches `updated`, at time t *)

SetField(s, f, v, t) == [s EXCEPT !.data[f] = v, !.updated = t]
AddRow(s, c, kind, i) == [s EXCEPT !.kids[c] = kind, !.order = InsertAt(@, i, c)]
DeleteRow(s, c) == [s EXCEPT !.kids[c] = Absent, !.order = Filtered(@, Rows \ {c})]
SetKind(s, c, kind) == [s EXCEPT !.kids[c] = kind]
MoveRow(s, c, i) == [s EXCEPT !.order = InsertAt(Filtered(@, Rows \ {c}), i, c)]

Edits(s, t) ==
    {SetField(s, f, v, t) : f \in Fields, v \in Values \cup {Absent}}
    \cup {AddRow(s, c, k, i) : c \in Rows \ Ids(s), k \in Kinds, i \in 1 .. Len(s.order) + 1}
    \cup {DeleteRow(s, c) : c \in Ids(s)}
    \cup {SetKind(s, c, k) : c \in Ids(s) \ Literals, k \in Kinds}
    \cup {MoveRow(s, c, i) : c \in Ids(s), i \in 1 .. Len(s.order)}

----------------------------------------------------------------------------
(* The merge: `next` changed `base`, and is applied to `current` *)

Latest(a, b) == IF a < b THEN b ELSE a
Changed(base, next, current) == IF next = base THEN current ELSE next
\* Mutant: a side that did not change counts as changed.
ClashUnchanged(base, next, current) == next # base /\ current # next
\* Mutant: the same change on both sides is refused.
ClashOnSame(base, next, current) == next # base /\ current # base
Clash(base, next, current) == next # base /\ current # base /\ current # next

\* Mutant: literal rows are merged one by one.
OneValueNever(shapes) == FALSE

\* A node whose children are all literals is one value.
OneValue(shapes) == \A s \in shapes : Ids(s) \subseteq Literals

MergedKids(base, next, current) ==
    [c \in Rows |-> Changed(base.kids[c], next.kids[c], current.kids[c])]
Among(s, ids) == Filtered(s.order, ids)
\* The children both sides know and keep, whose order is compared.
Common(base, next, current) ==
    Ids(base) \cap Ids(next) \cap Kept(MergedKids(base, next, current))

OrderClash(base, next, current) ==
    LET common == Common(base, next, current)
    IN  Clash(Among(base, common), Among(next, common), Among(current, common))

\* mergeNodeShape refuses, and leaves both sides as they are.
Refused(base, next, current) ==
    \/ \E f \in Fields : Clash(base.data[f], next.data[f], current.data[f])
    \/ \E c \in Rows : Clash(base.kids[c], next.kids[c], current.kids[c])
    \/ OneValue({base, next, current}) /\ Clash(Ids(base), Ids(next), Ids(current))
    \/ OrderClash(base, next, current)

\* Mutant: the order of the side that reordered, without the rows it does not know.
OrderOfNext(base, next, current) ==
    LET kept  == Kept(MergedKids(base, next, current))
    IN  Filtered(IF next.order = base.order THEN current.order ELSE next.order, kept)

MergedOrder(base, next, current) ==
    LET kept  == Kept(MergedKids(base, next, current))
        order == IF next.order = base.order THEN current.order ELSE next.order
        rest  == kept \ ToSet(order)
    IN  Filtered(order, kept) \o Among(current, rest)

\* What mergeNodeShape returns when it does not refuse.
mergeNodeShape(base, next, current) ==
    [data |-> [f \in Fields |-> Changed(base.data[f], next.data[f], current.data[f])],
     kids |-> MergedKids(base, next, current),
     order |-> MergedOrder(base, next, current),
     updated |-> IF next.updated = base.updated THEN current.updated
                 ELSE Latest(current.updated, next.updated)]

\* The fields and rows of the node; `updated` is a field like the others here.
sameNodeShape(a, b) == a = b
=============================================================================
