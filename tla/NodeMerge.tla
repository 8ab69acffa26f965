----------------------------- MODULE NodeMerge ------------------------------
(***************************************************************************)
(* Two peers that start from the shape they agreed on and edit it on their *)
(* own: every pair of diverged shapes that up to MaxEdits edits lead to,   *)
(* and what merging them gives.                                            *)
(***************************************************************************)
EXTENDS NodeShapes

CONSTANTS
    Agreed,     \* the shapes the two sides may have agreed on
    MaxEdits    \* bound: edits made by both sides together

\* Time is counted from the agreement on.
ASSUME AgreedAssumption == Agreed \subseteq Shapes(0) /\ MaxEdits \in Nat

VARIABLES
    base,       \* the shape last agreed on
    mine,       \* the shape of the side whose changes are applied
    theirs,     \* the shape they are applied to
    time        \* edits made so far

mergeVars == <<base, mine, theirs, time>>

MergeInit ==
    /\ base \in Agreed
    /\ mine = base
    /\ theirs = base
    /\ time = 0

EditMine ==
    /\ time < MaxEdits
    /\ time' = time + 1
    /\ mine' \in Edits(mine, time')
    /\ UNCHANGED <<base, theirs>>

EditTheirs ==
    /\ time < MaxEdits
    /\ time' = time + 1
    /\ theirs' \in Edits(theirs, time')
    /\ UNCHANGED <<base, mine>>

MergeNext == EditMine \/ EditTheirs

MergeSpec == MergeInit /\ [][MergeNext]_mergeVars

----------------------------------------------------------------------------
(* Properties *)

Merged == mergeNodeShape(base, mine, theirs)
Merges == ~Refused(base, mine, theirs)

\* Merging gives a shape again: its order lists each of its children once.
MergeTypeOK ==
    /\ time \in 0 .. MaxEdits
    /\ {base, mine, theirs} \subseteq Shapes(MaxEdits)
    /\ Merges => Merged \in Shapes(MaxEdits)

HasOne(s) == \E c \in Rows : Ids(s) = {c}

\* A node that is one literal value, or none yet, and is given a value on both sides
\* never ends up with two: the merge refuses, or one value is left.
OneValueStaysOne ==
    /\ \A s \in {base, mine, theirs} : Ids(s) \subseteq Literals
    /\ HasOne(mine) /\ HasOne(theirs) /\ (HasOne(base) \/ Ids(base) = {})
    /\ Merges
    => HasOne(Merged)

\* An update that is sent again after it was applied (its answer was lost) is accepted
\* and changes nothing.
SentAgain ==
    Merges => ~Refused(base, mine, Merged) /\ mergeNodeShape(base, mine, Merged) = Merged

\* Whichever side pushes first, the outcome is the same: both orders are refused or give
\* the same fields and children.  The one value of a node stays one, and an update that
\* is sent again changes nothing.
PushesAgree ==
    /\ Refused(base, mine, theirs) <=> Refused(base, theirs, mine)
    /\ Merges => LET other == mergeNodeShape(base, theirs, mine)
                 IN  /\ Merged.data = other.data
                     /\ Merged.kids = other.kids
                     /\ Merged.updated = other.updated
    /\ OneValueStaysOne
    /\ SentAgain
=============================================================================
