---------------------------- MODULE EditHistory -----------------------------
(***************************************************************************)
(* Undo and redo in the web client (web/src/history.ts): every edit made   *)
(* here is kept with the tree before and after it, and taking it back is a *)
(* three-way merge (shared/sync/merge.ts) of the tree as it is now, so     *)
(* that what others changed meanwhile stays.  Rows whose fields both sides *)
(* changed become a choice that offers every version; a plain row, which   *)
(* is a text and nothing else, takes the text the merge brings.            *)
(*                                                                         *)
(* A tree maps tasks to versions: a row with fields, a plain row, a        *)
(* choice, or none.  A value is the time of the edit that wrote it.  Rows  *)
(* below a row merge as those of the tree do, and are left out, as are the *)
(* order of rows, changes of a row's type, and the versions a plain row    *)
(* was merged from, which it keeps as its history.                         *)
(***************************************************************************)
EXTENDS Naturals, FiniteSetsExt, SequencesExt

CONSTANTS
    Tasks,      \* ids of rows
    Plain,      \* those of them that are plain rows
    Slots,      \* fields of a row
    OldTasks,   \* the rows there from the start
    MaxKept,       \* edits the history keeps (100 in the code)
    MaxTicks    \* bound: edits made by anybody

ASSUME HistoryAssumption ==
    /\ OldTasks \subseteq Tasks
    /\ {"gone", "text"} \cap Slots = {}
    /\ MaxKept \in Nat \ {0} /\ MaxTicks \in Nat

VARIABLES
    home,       \* [Tasks -> versions]: the tree
    past,       \* changes that can be undone, each from a tree to another
    future,     \* changes that can be redone
    fresh,      \* ids no row has had
    tick,       \* the clock
    foreign,    \* history variable: what others wrote and no edit has replaced since
    alone       \* history variable: the history holds every edit since the start

historyVars == <<home, past, future, fresh, tick, foreign, alone>>

Gone == [is |-> "none"]
SlotsOf(t) == IF t \in Plain THEN {"text"} ELSE Slots
NewRow(t, time) ==
    [is |-> IF t \in Plain THEN "plain" ELSE "row", val |-> [s \in SlotsOf(t) |-> time], updated |-> time]
IsRow(v) == v.is \in {"row", "plain"}

FirstHome == [t \in Tasks |-> IF t \in OldTasks THEN NewRow(t, 0) ELSE Gone]

----------------------------------------------------------------------------
(* The merge *)

\* The base has something to compare with where it is a row of the same type.
Based(b, o) == b.is = o.is

\* No field changed on both sides.
FieldsAgree(b, o, t) ==
    \A s \in Slots : \/ o.val[s] = t.val[s]
                     \/ Based(b, o) /\ b.val[s] \in {o.val[s], t.val[s]}

\* Two versions of a row combine unless their fields clash.  A plain row has no field:
\* its text is the value of a reference, and that merges as the top node does.
Combine(b, o, t) ==
    /\ IsRow(o) /\ o.is = t.is
    /\ o.is = "row" => FieldsAgree(b, o, t)

LastUpdated(b, o, t) == Max({o.updated, t.updated, IF Based(b, o) THEN b.updated ELSE 0})

\* Mutant: a field gives way where the change left it alone, not where the tree did.
MergedRowBack(b, o, t) ==
    [is |-> o.is, updated |-> LastUpdated(b, o, t),
     val |-> [s \in DOMAIN o.val |-> IF Based(b, o) /\ b.val[s] = t.val[s] THEN t.val[s] ELSE o.val[s]]]

\* What the change left alone stays as it is now; where both changed it, as they may a
\* plain row's text, the change wins (`theirsWins`).
MergedRow(b, o, t) ==
    [is |-> o.is, updated |-> LastUpdated(b, o, t),
     val |-> [s \in DOMAIN o.val |-> IF Based(b, o) /\ b.val[s] = t.val[s] THEN o.val[s] ELSE t.val[s]]]

\* The versions inside a version: a choice may offer choices.
Within(v) == IF v.is = "choice" THEN v.within ELSE {}

\* What is inside follows from the options, and is written down as the choice is made.
putChoice(b, o, t, label) ==
    [is |-> "choice", base |-> IF IsRow(b) THEN b ELSE Gone, updated |-> 0,
     options |-> {<<"Current edits", o>>, <<label, t>>},
     within |-> {o, t} \cup Within(o) \cup Within(t)]

\* Mutant: a deletion here is no version to choose.
mergeChildIfThere(b, o, t, label) ==
    IF o = t \/ b = t THEN o
    ELSE IF b = o \/ o = Gone THEN t
    ELSE IF Combine(b, o, t) THEN MergedRow(b, o, t)
    ELSE putChoice(b, o, t, label)

\* A side that did not change gives way; what both changed is combined or offered.
mergeChild(b, o, t, label) ==
    IF o = t \/ b = t THEN o
    ELSE IF b = o THEN t
    ELSE IF Combine(b, o, t) THEN MergedRow(b, o, t)
    ELSE putChoice(b, o, t, label)

mergeNodes(b, o, t, label) == [i \in Tasks |-> mergeChild(b[i], o[i], t[i], label)]

----------------------------------------------------------------------------
(* Edits, made here or received *)

now == tick + 1

InPlace == {t \in Tasks : IsRow(home[t])}

AddTask(t) == [home EXCEPT ![t] = NewRow(t, now)]
EditField(t, s) == [home EXCEPT ![t] = [@ EXCEPT !.val[s] = now, !.updated = now]]
DeleteTasks(gone) == [t \in Tasks |-> IF t \in gone THEN Gone ELSE home[t]]

\* The picked version is touched; a pick of the deletion, or of nothing, removes the row.
resolveChoiceIn(t, pick) == [home EXCEPT ![t] = IF pick = Gone THEN Gone ELSE [pick EXCEPT !.updated = now]]
Picks(t) == {Gone} \cup {o[2] : o \in home[t].options}

RowEdits == UNION {{EditField(t, s) : s \in SlotsOf(t)} \cup {DeleteTasks({t})} : t \in InPlace}
Resolved == UNION {{resolveChoiceIn(t, pick) : pick \in Picks(t)} : t \in {u \in Tasks : home[u].is = "choice"}}

\* Home is emptied of rows and choices alike.
resetHomeContent == DeleteTasks(Tasks)

----------------------------------------------------------------------------
(* The history *)

Change(from, to) == [from |-> from, to |-> to]

\* The tree after an edit comes first: undoing goes from it to the tree before.
record(after) ==
    LET all == Append(past, Change(after, home))
    IN  /\ past' = IF Len(all) > MaxKept THEN Tail(all) ELSE all
        /\ future' = <<>>

\* A node's undo passes over changes to its siblings, and those that add or remove it.
withinScope(c, t) ==
    /\ IsRow(c.from[t]) /\ IsRow(c.to[t])
    /\ c.from[t] # c.to[t]
    /\ \A u \in Tasks \ {t} : c.from[u] = c.to[u]

Everywhere == "everywhere"
Scopes == {Everywhere} \cup InPlace
InScope(changes, scope) == {k \in DOMAIN changes : scope = Everywhere \/ withinScope(changes[k], scope)}

----------------------------------------------------------------------------
\* The versions in sight at a row: its own, or all that its choice offers.
Shown(v) == {u \in {v} \cup Within(v) : u.is # "choice"}

\* What a step from home to next writes: fields given a new value, rows gone.
Written(next) ==
    (UNION {{<<t, s, next[t].val[s]>> : s \in DOMAIN next[t].val} : t \in {u \in Tasks : IsRow(next[u])}})
    \cup {<<t, "gone", now>> : t \in {u \in Tasks : home[u] # Gone /\ next[u] = Gone}}
New(next) == {w \in Written(next) : w[3] = now}

InSight(tree, w) ==
    \E v \in Shown(tree[w[1]]) : IF IsRow(v) THEN w[2] \in DOMAIN v.val /\ v.val[w[2]] = w[3] ELSE w[2] = "gone"

Edit(next) ==
    /\ tick < MaxTicks
    /\ tick' = now
    /\ home' = next

\* An edit made here, over what is on the screen: what it replaces is meant to go.
EditHere(next) ==
    /\ Edit(next)
    /\ record(next)
    /\ foreign' = {w \in foreign : InSight(next, w)}
    /\ alone' = (alone /\ Len(past) < MaxKept)

addTask(t) ==
    /\ t \in fresh
    /\ fresh' = fresh \ {t}
    /\ EditHere(AddTask(t))

edit ==
    /\ \E next \in RowEdits \cup Resolved : EditHere(next)
    /\ UNCHANGED fresh

resetHome ==
    /\ \E t \in Tasks : home[t] # Gone
    /\ EditHere(resetHomeContent)
    /\ UNCHANGED fresh

\* Another device's edit, installed by a round; rows in dispute are not exchanged.
Installed(next) ==
    /\ Edit(next)
    /\ foreign' = {w \in foreign : InSight(next, w)} \cup New(next)
    /\ alone' = FALSE
    /\ UNCHANGED <<past, future>>

receiveEdit ==
    \/ \E next \in RowEdits : Installed(next) /\ UNCHANGED fresh
    \/ \E t \in fresh : Installed(AddTask(t)) /\ fresh' = fresh \ {t}

\* The change leaves one list and what it now amounts to joins the other.
apply(source, scope, label) ==
    LET latest == Max(InScope(source, scope))
        change == source[latest]
    IN  [tree |-> mergeNodes(change.from, home, change.to, label), rest |-> RemoveAt(source, latest)]

undo(scope) ==
    /\ InScope(past, scope) # {}
    /\ LET done == apply(past, scope, "Undo")
       IN  /\ home' = done.tree
           /\ past' = done.rest
           /\ future' = Append(future, Change(done.tree, home))
    /\ UNCHANGED <<fresh, tick, foreign, alone>>

redo(scope) ==
    /\ InScope(future, scope) # {}
    /\ LET done == apply(future, scope, "Redo")
       IN  /\ home' = done.tree
           /\ future' = done.rest
           /\ past' = Append(past, Change(done.tree, home))
    /\ UNCHANGED <<fresh, tick, foreign, alone>>

\* Another document is opened: signing out, another account, another branch or project.
loadDataSession ==
    /\ tick < MaxTicks
    /\ tick' = now
    /\ home' = FirstHome
    /\ past' = <<>> /\ future' = <<>>
    /\ fresh' = Tasks \ OldTasks
    /\ foreign' = {}
    /\ alone' = TRUE

HistoryInit ==
    /\ home = FirstHome
    /\ past = <<>> /\ future = <<>>
    /\ fresh = Tasks \ OldTasks
    /\ tick = 0
    /\ foreign = {}
    /\ alone = TRUE

HistoryNext ==
    \/ edit \/ resetHome \/ receiveEdit \/ loadDataSession
    \/ \E t \in Tasks : addTask(t)
    \/ \E scope \in Scopes : undo(scope) \/ redo(scope)

HistorySpec == HistoryInit /\ [][HistoryNext]_historyVars

----------------------------------------------------------------------------
(* Properties *)

\* Rows as they can be at time n.
TaskRows(n) ==
    [is : {"row"}, val : [Slots -> 0 .. n], updated : 0 .. n]
    \cup [is : {"plain"}, val : [{"text"} -> 0 .. n], updated : 0 .. n]

\* A choice offers what is inside it, and nothing is inside that is not.
IsChoice(v) ==
    /\ v.is = "choice"
    /\ v = [is |-> "choice", base |-> v.base, updated |-> v.updated, options |-> v.options, within |-> v.within]
    /\ \A o \in v.options : o[2] \in v.within
    /\ \A u \in v.within : Within(u) \subseteq v.within

IsVersion(v, n) == \A u \in {v} \cup Within(v) : u = Gone \/ u \in TaskRows(n) \/ IsChoice(u)
IsTree(tree, n) == tree = [t \in Tasks |-> tree[t]] /\ \A t \in Tasks : IsVersion(tree[t], n)

\* The lists hold no more than the history keeps, and a row that never was is nowhere.
HistoryTypeOK ==
    /\ tick \in 0 .. MaxTicks
    /\ Len(past) + Len(future) <= MaxKept
    /\ IsTree(home, tick)
    /\ \A t \in fresh : home[t] = Gone

\* No series of undoing and redoing what was done here takes away the value another
\* device wrote since in a field: it is in place, or offered in a choice.
ValuesStay == \A w \in foreign : w[2] \in Slots => InSight(home, w)

\* Nor the text it wrote in a plain row ("same data field edited to different values:
\* choice with both versions", docs/sync.md:73; "Nothing is dropped silently",
\* merge.ts:9).
TextsStay == \A w \in foreign : w[2] = "text" => InSight(home, w)

\* Nor does it bring back unseen a row another device deleted since.
DeletionsStay == \A w \in foreign : w[2] = "gone" => InSight(home, w)

\* While nobody else edits and the history is not full, undoing all that is left in it
\* brings back the tree it started from, whichever changes were undone in which order:
\* each row is as it was, or that version is offered.
AllUndone == FoldRight(LAMBDA c, tree : mergeNodes(c.from, tree, c.to, "Undo"), past, home)

OwnComesBack ==
    alone => \A t \in Tasks :
                \E v \in Shown(AllUndone[t]) :
                    IF t \in OldTasks THEN IsRow(v) /\ v.val = FirstHome[t].val ELSE v = Gone

UndoLosesNothing == DeletionsStay /\ OwnComesBack
=============================================================================
