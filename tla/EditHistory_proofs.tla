------------------------- MODULE EditHistory_proofs --------------------------
EXTENDS EditHistory, NodeShapes_proofs

-----------------------------------------------------------------------------
(* Undoing in the web client *)

\* A set of naturals that stops somewhere has a greatest element, and Max is it.
LEMMA MaxIsOne ==
    ASSUME NEW n \in Nat, NEW S \in SUBSET (0 .. n), S # {}
    PROVE  Max(S) \in S
<1> DEFINE T == {n - k : k \in S}
<1>1. T \in SUBSET Nat /\ T # {}
  <2>1. \A k \in S : k \in 0 .. n
    OBVIOUS
  <2>2. \A k \in S : n - k \in Nat
    BY <2>1
  <2> QED
    BY <2>2
<1>2. PICK m \in T : \A k \in T : m <= k
  BY <1>1, Least
<1>3. PICK x \in S : m = n - x
  BY <1>2
<1>4. \A y \in S : x >= y
  <2> TAKE y \in S
  <2>1. n - x <= n - y
    BY <1>2, <1>3
  <2> QED
    BY <2>1
<1> QED
  BY <1>3, <1>4 DEF Max

\* What is a version stays one as time passes.
LEMMA VersionLater ==
    ASSUME NEW n \in Nat, NEW m \in Nat, n <= m, NEW v, IsVersion(v, n)
    PROVE  IsVersion(v, m)
<1>1. 0 .. n \subseteq 0 .. m
  OBVIOUS
<1>2. TaskRows(n) \subseteq TaskRows(m)
  BY <1>1 DEF TaskRows
<1> QED
  BY <1>2 DEF IsVersion

LEMMA TreeLater ==
    ASSUME NEW n \in Nat, NEW m \in Nat, n <= m, NEW tree, IsTree(tree, n)
    PROVE  IsTree(tree, m)
  BY VersionLater DEF IsTree

\* A row of the time has nothing inside, nor has none.
LEMMA LeafVersions ==
    ASSUME NEW n \in Nat
    PROVE  /\ IsVersion(Gone, n) /\ Shown(Gone) = {Gone} /\ ~IsRow(Gone)
           /\ \A r \in TaskRows(n) : IsVersion(r, n) /\ Shown(r) = {r} /\ IsRow(r) /\ r # Gone
<1>1. Within(Gone) = {} /\ Gone.is = "none"
  BY DEF Within, Gone
<1>2. \A r \in TaskRows(n) : Within(r) = {} /\ r.is \in {"row", "plain"}
  BY DEF Within, TaskRows
<1> QED
  BY <1>1, <1>2 DEF IsVersion, Shown, IsRow

\* A version is none, a row or a choice, and so are those inside it.
LEMMA VersionKinds ==
    ASSUME NEW n \in Nat, NEW v, IsVersion(v, n)
    PROVE  /\ v = Gone \/ v \in TaskRows(n) \/ IsChoice(v)
           /\ IsRow(v) => v \in TaskRows(n)
           /\ \A u \in Within(v) : IsVersion(u, n) /\ Within(u) \subseteq Within(v)
           /\ IsChoice(v) => \A o \in v.options : IsVersion(o[2], n)
<1>1. v = Gone \/ v \in TaskRows(n) \/ IsChoice(v)
  BY DEF IsVersion
<1>2. v = Gone => ~IsRow(v) /\ Within(v) = {}
  BY DEF Gone, IsRow, Within
<1>3. v \in TaskRows(n) => Within(v) = {}
  BY DEF TaskRows, Within
<1>4. IsChoice(v) => ~IsRow(v) /\ Within(v) = v.within
  BY DEF IsChoice, IsRow, Within
<1>5. \A u \in Within(v) : Within(u) \subseteq Within(v)
  BY <1>1, <1>2, <1>3, <1>4 DEF IsChoice
<1>6. \A u \in Within(v) : IsVersion(u, n)
  BY <1>5 DEF IsVersion
<1>7. IsChoice(v) => \A o \in v.options : IsVersion(o[2], n)
  BY <1>4, <1>6 DEF IsChoice
<1> QED
  BY <1>1, <1>2, <1>4, <1>5, <1>6, <1>7

-----------------------------------------------------------------------------
(* The merge of three versions *)

\* A choice between two versions is one, and shows what they show.
LEMMA ChoiceMade ==
    ASSUME NEW n \in Nat, NEW b, NEW o, NEW t, NEW label, IsVersion(o, n), IsVersion(t, n)
    PROVE  /\ IsVersion(putChoice(b, o, t, label), n)
           /\ Shown(o) \cup Shown(t) \subseteq Shown(putChoice(b, o, t, label))
<1> DEFINE c == putChoice(b, o, t, label)
<1>1. /\ c.is = "choice" /\ c.within = {o, t} \cup Within(o) \cup Within(t)
      /\ c.options = {<<"Current edits", o>>, <<label, t>>}
      /\ c = [is |-> "choice", base |-> c.base, updated |-> c.updated, options |-> c.options, within |-> c.within]
  BY DEF putChoice
<1> HIDE DEF c
<1>2. Within(c) = {o, t} \cup Within(o) \cup Within(t)
  BY <1>1 DEF Within
<1>3. /\ \A u \in Within(o) : IsVersion(u, n) /\ Within(u) \subseteq Within(o)
      /\ \A u \in Within(t) : IsVersion(u, n) /\ Within(u) \subseteq Within(t)
  BY VersionKinds
<1>4. \A u \in c.within : Within(u) \subseteq c.within
  BY <1>1, <1>3
<1>5. \A p \in c.options : p[2] \in c.within
  <2>1. \A p \in c.options : p = <<"Current edits", o>> \/ p = <<label, t>>
    BY <1>1
  <2>2. <<"Current edits", o>>[2] = o /\ <<label, t>>[2] = t
    OBVIOUS
  <2> QED
    BY <1>1, <2>1, <2>2
<1>6. IsChoice(c)
  BY <1>1, <1>4, <1>5 DEF IsChoice
<1>7. IsVersion(c, n)
  BY <1>2, <1>3, <1>6 DEF IsVersion
<1>8. Shown(o) \cup Shown(t) \subseteq Shown(c)
  BY <1>2 DEF Shown
<1> QED
  BY <1>7, <1>8 DEF c

\* Two rows of a kind combine into one of it.
LEMMA RowMade ==
    ASSUME NEW n \in Nat, NEW b, NEW o \in TaskRows(n), NEW t \in TaskRows(n), o.is = t.is, IsVersion(b, n)
    PROVE  /\ MergedRow(b, o, t) \in TaskRows(n)
           /\ \A s \in DOMAIN o.val : MergedRow(b, o, t).val[s] =
                                          IF Based(b, o) /\ b.val[s] = t.val[s] THEN o.val[s] ELSE t.val[s]
<1> DEFINE late == {o.updated, t.updated, IF Based(b, o) THEN b.updated ELSE 0}
           val == [s \in DOMAIN o.val |-> IF Based(b, o) /\ b.val[s] = t.val[s] THEN o.val[s] ELSE t.val[s]]
<1>1. o.is \in {"row", "plain"} /\ DOMAIN o.val = (IF o.is = "row" THEN Slots ELSE {"text"})
  BY DEF TaskRows
<1>2. Based(b, o) => b.updated \in 0 .. n
  <2>1. Based(b, o) => b \in TaskRows(n)
    BY <1>1, VersionKinds DEF Based, IsRow
  <2> QED
    BY <2>1 DEF TaskRows
<1>3. late \in SUBSET (0 .. n) /\ late # {}
  BY <1>2 DEF TaskRows
<1>4. Max(late) \in 0 .. n
  <2> HIDE DEF late
  <2> QED
    BY <1>3, MaxIsOne
<1>5. val \in [DOMAIN o.val -> 0 .. n]
  BY DEF TaskRows
<1>6. LastUpdated(b, o, t) = Max(late)
  BY DEF LastUpdated
<1> HIDE DEF late
<1>8. MergedRow(b, o, t) = [is |-> o.is, updated |-> Max(late), val |-> val]
  BY <1>6, Zenon DEF MergedRow
<1> HIDE DEF val
<1>7. MergedRow(b, o, t) \in TaskRows(n)
  BY <1>1, <1>4, <1>5, <1>8 DEF TaskRows
<1> QED
  BY <1>7, <1>8 DEF val

\* A field's value is shown by the row itself, or by a row of the choice.
Shows(v, s, x) == \E u \in Shown(v) : u.is = "row" /\ u.val[s] = x

\* The merge gives a version.
LEMMA MergedVersion ==
    ASSUME NEW n \in Nat, NEW b, NEW o, NEW t, NEW label,
           IsVersion(b, n), IsVersion(o, n), IsVersion(t, n)
    PROVE  IsVersion(mergeChild(b, o, t, label), n)
<1> DEFINE m == mergeChild(b, o, t, label)
<1>1. \/ m = o \/ m = t
      \/ IsRow(o) /\ IsRow(t) /\ o.is = t.is /\ m = MergedRow(b, o, t)
      \/ m = putChoice(b, o, t, label)
  BY DEF mergeChild, Combine, IsRow
<1>2. IsRow(o) => o \in TaskRows(n)
  BY VersionKinds
<1>3. IsRow(t) => t \in TaskRows(n)
  BY VersionKinds
<1>4. IsRow(o) /\ IsRow(t) /\ o.is = t.is => IsVersion(MergedRow(b, o, t), n)
  BY <1>2, <1>3, RowMade, LeafVersions
<1>5. IsVersion(putChoice(b, o, t, label), n)
  BY ChoiceMade
<1> HIDE DEF m
<1> QED
  BY <1>1, <1>4, <1>5 DEF m

\* A value in sight now stays in sight, when the change that is taken back or made again
\* did not remove it.
LEMMA MergeShows ==
    ASSUME NEW n \in Nat, NEW b, NEW o, NEW t, NEW label,
           IsVersion(b, n), IsVersion(o, n), IsVersion(t, n),
           NEW s \in Slots, NEW x, Shows(o, s, x), Shows(b, s, x) => Shows(t, s, x)
    PROVE  Shows(mergeChild(b, o, t, label), s, x)
<1>1. CASE o = t \/ b = t
  <2>1. mergeChild(b, o, t, label) = o
    BY <1>1 DEF mergeChild
  <2> QED
    BY <2>1
<1>2. CASE b = o /\ ~(o = t \/ b = t)
  <2>1. mergeChild(b, o, t, label) = t
    BY <1>2 DEF mergeChild
  <2>2. Shows(t, s, x)
    BY <1>2
  <2> QED
    BY <2>1, <2>2
<1>3. CASE ~(o = t \/ b = t) /\ b # o /\ Combine(b, o, t)
  <2>1. mergeChild(b, o, t, label) = MergedRow(b, o, t)
    BY <1>3 DEF mergeChild
  <2>2. o \in TaskRows(n) /\ t \in TaskRows(n) /\ o.is = t.is /\ (b.is = "row" => b \in TaskRows(n))
    BY <1>3, VersionKinds DEF Combine, IsRow
  <2>3. Shown(o) = {o} /\ Shown(t) = {t} /\ (b.is = "row" => Shown(b) = {b})
    BY <2>2, LeafVersions
  <2>4. /\ o.is = "row" /\ o.val[s] = x /\ s \in DOMAIN o.val
        /\ b.is = "row" /\ b.val[s] = x => t.val[s] = x
    BY <2>2, <2>3 DEF Shows, TaskRows
  <2>5. o.val[s] = t.val[s] \/ (Based(b, o) /\ b.val[s] \in {o.val[s], t.val[s]})
    BY <1>3, <2>4 DEF Combine, FieldsAgree
  <2>6. /\ MergedRow(b, o, t) \in TaskRows(n)
        /\ MergedRow(b, o, t).is = "row"
        /\ MergedRow(b, o, t).val[s] = IF Based(b, o) /\ b.val[s] = t.val[s] THEN o.val[s] ELSE t.val[s]
    <3>1. \A f \in DOMAIN o.val : MergedRow(b, o, t).val[f] =
                                      IF Based(b, o) /\ b.val[f] = t.val[f] THEN o.val[f] ELSE t.val[f]
      BY <2>2, RowMade
    <3>2. MergedRow(b, o, t) \in TaskRows(n)
      BY <2>2, RowMade
    <3>3. MergedRow(b, o, t).is = o.is
      BY DEF MergedRow
    <3> QED
      BY <2>4, <3>1, <3>2, <3>3, Zenon
  <2>7. MergedRow(b, o, t).val[s] = x
    BY <2>4, <2>5, <2>6 DEF Based
  <2>8. Shown(MergedRow(b, o, t)) = {MergedRow(b, o, t)}
    BY <2>6, LeafVersions
  <2> QED
    BY <2>1, <2>6, <2>7, <2>8 DEF Shows
<1>4. CASE ~(o = t \/ b = t) /\ b # o /\ ~Combine(b, o, t)
  <2>1. mergeChild(b, o, t, label) = putChoice(b, o, t, label)
    BY <1>4 DEF mergeChild
  <2> QED
    BY <2>1, ChoiceMade DEF Shows
<1> QED
  BY <1>1, <1>2, <1>3, <1>4

-----------------------------------------------------------------------------
(* The lists of changes *)

Clashing(c, w) == InSight(c.from, w) /\ ~InSight(c.to, w)

\* A change as the history has it: two trees, without the rows that never were, which
\* takes no field's value away that another device wrote since.
Harmless(c) ==
    /\ c = Change(c.from, c.to)
    /\ IsTree(c.from, tick) /\ IsTree(c.to, tick)
    /\ \A t \in fresh : c.from[t] = Gone /\ c.to[t] = Gone
    /\ \A w \in foreign : w[2] \in Slots => ~Clashing(c, w)

Listed(S) == past \in Seq(S) /\ future \in Seq(S) /\ \A c \in S : Harmless(c)

Writes(n) == Tasks \X (Slots \cup {"gone", "text"}) \X (0 .. n)

HistoryInv ==
    /\ HistoryTypeOK /\ ValuesStay
    /\ fresh \subseteq Tasks
    /\ foreign \subseteq Writes(tick)
    /\ \E S : Listed(S)

\* A field's value is in sight where a version in sight has it.
LEMMA ValueInSight ==
    ASSUME HistoryAssumption, NEW n, NEW w \in Writes(n), w[2] \in Slots, NEW m \in Nat, NEW tree, IsTree(tree, m)
    PROVE  /\ InSight(tree, w) <=> Shows(tree[w[1]], w[2], w[3])
           /\ w[1] \in Tasks /\ w[3] \in 0 .. n
           /\ w = <<w[1], w[2], w[3]>>
<1>1. /\ w[1] \in Tasks /\ w[3] \in 0 .. n
      /\ w = <<w[1], w[2], w[3]>>
      /\ w[2] # "gone" /\ w[2] # "text"
  BY DEF Writes, HistoryAssumption
<1>2. ASSUME NEW v \in Shown(tree[w[1]])
      PROVE  (IF IsRow(v) THEN w[2] \in DOMAIN v.val /\ v.val[w[2]] = w[3] ELSE w[2] = "gone")
             <=> (v.is = "row" /\ v.val[w[2]] = w[3])
  <2>1. IsVersion(tree[w[1]], m)
    BY <1>1 DEF IsTree
  <2>2. IsVersion(v, m)
    BY <2>1, VersionKinds DEF Shown
  <2>3. IsRow(v) => v \in TaskRows(m)
    BY <2>2, VersionKinds
  <2>4. IsRow(v) => (w[2] \in DOMAIN v.val <=> v.is = "row")
    <3>1. CASE v \in [is : {"row"}, val : [Slots -> 0 .. m], updated : 0 .. m]
      BY <3>1
    <3>2. CASE v \in [is : {"plain"}, val : [{"text"} -> 0 .. m], updated : 0 .. m]
      <4>1. v.is = "plain" /\ DOMAIN v.val = {"text"}
        BY <3>2
      <4> QED
        BY <1>1, <4>1
    <3> QED
      BY <2>3, <3>1, <3>2 DEF TaskRows
  <2> QED
    BY <1>1, <2>4 DEF IsRow
<1>3. InSight(tree, w) <=> \E v \in Shown(tree[w[1]]) : v.is = "row" /\ v.val[w[2]] = w[3]
  BY <1>2 DEF InSight
<1> QED
  BY <1>1, <1>3 DEF Shows

\* A value of a time that has not come is nowhere in sight.
LEMMA NotYetInSight ==
    ASSUME HistoryAssumption, NEW n \in Nat, NEW w \in Writes(n + 1), w[2] \in Slots, w[3] = n + 1,
           NEW tree, IsTree(tree, n)
    PROVE  ~InSight(tree, w)
<1>1. w[1] \in Tasks /\ w[2] \in Slots
  BY DEF Writes
<1>2. IsVersion(tree[w[1]], n)
  BY <1>1 DEF IsTree
<1>3. ASSUME NEW u \in Shown(tree[w[1]]), u.is = "row", u.val[w[2]] = w[3] PROVE FALSE
  <2>1. u \in {tree[w[1]]} \cup Within(tree[w[1]])
    BY <1>3 DEF Shown
  <2>2. IsVersion(u, n)
    BY <1>2, <2>1, VersionKinds
  <2>3. u \in TaskRows(n)
    BY <1>3, <2>2, VersionKinds DEF IsRow
  <2>4. u.val[w[2]] \in 0 .. n
    BY <1>1, <1>3, <2>3 DEF TaskRows
  <2> QED
    BY <1>3, <2>4
<1>4. InSight(tree, w) <=> Shows(tree[w[1]], w[2], w[3])
  BY ValueInSight
<1> QED
  BY <1>3, <1>4 DEF Shows

\* A merge of trees is a tree; a row that never was is not in it; and a value in sight
\* stays, if the change does not take it away.
LEMMA MergedTree ==
    ASSUME HistoryAssumption, NEW n \in Nat, NEW c, NEW tree, NEW label,
           IsTree(c.from, n), IsTree(tree, n), IsTree(c.to, n)
    PROVE  /\ IsTree(mergeNodes(c.from, tree, c.to, label), n)
           /\ \A t \in Tasks : c.from[t] = Gone /\ c.to[t] = Gone => mergeNodes(c.from, tree, c.to, label)[t] = tree[t]
           /\ \A w \in Writes(n) : w[2] \in Slots /\ InSight(tree, w) /\ ~Clashing(c, w)
                                   => InSight(mergeNodes(c.from, tree, c.to, label), w)
<1> DEFINE m == mergeNodes(c.from, tree, c.to, label)
<1>1. m = [t \in Tasks |-> mergeChild(c.from[t], tree[t], c.to[t], label)]
  BY DEF mergeNodes
<1>2. \A t \in Tasks : m[t] = mergeChild(c.from[t], tree[t], c.to[t], label)
  BY <1>1
<1>3. \A t \in Tasks : IsVersion(c.from[t], n) /\ IsVersion(tree[t], n) /\ IsVersion(c.to[t], n)
  BY DEF IsTree
<1>4. m = [t \in Tasks |-> m[t]]
  BY <1>1
<1> HIDE DEF m
<1>5. IsTree(m, n)
  BY <1>2, <1>3, <1>4, MergedVersion DEF IsTree
<1>6. \A t \in Tasks : c.from[t] = Gone /\ c.to[t] = Gone => m[t] = tree[t]
  BY <1>2 DEF mergeChild
<1>7. ASSUME NEW w \in Writes(n), w[2] \in Slots, InSight(tree, w), ~Clashing(c, w)
      PROVE  InSight(m, w)
  <2>1. w[1] \in Tasks /\ w[2] \in Slots
    BY <1>7 DEF Writes
  <2>2. Shows(tree[w[1]], w[2], w[3])
    BY <1>7, ValueInSight
  <2>3. Shows(c.from[w[1]], w[2], w[3]) => Shows(c.to[w[1]], w[2], w[3])
    BY <1>7, ValueInSight DEF Clashing
  <2>4. Shows(m[w[1]], w[2], w[3])
    BY <1>2, <1>3, <2>1, <2>2, <2>3, MergeShows
  <2> QED
    BY <1>5, <1>7, <2>4, ValueInSight
<1> QED
  BY <1>5, <1>6, <1>7 DEF m

\* What the history may lose of its sequences, and gain.
LEMMA SequenceSteps ==
    ASSUME NEW S, NEW s \in Seq(S)
    PROVE  /\ Len(s) \in Nat /\ DOMAIN s = 1 .. Len(s)
           /\ \A e : Append(s, e) \in Seq(S \cup {e}) /\ Len(Append(s, e)) = Len(s) + 1
           /\ s # <<>> => Tail(s) \in Seq(S) /\ Len(Tail(s)) = Len(s) - 1
           /\ \A i \in DOMAIN s : RemoveAt(s, i) \in Seq(S) /\ Len(RemoveAt(s, i)) = Len(s) - 1 /\ s[i] \in S
           /\ \A e : s \in Seq(S \cup {e})
<1>1. Len(s) \in Nat /\ DOMAIN s = 1 .. Len(s) /\ \A i \in 1 .. Len(s) : s[i] \in S
  BY LenProperties
<1>2. ASSUME NEW e PROVE s \in Seq(S \cup {e})
  BY <1>1, SeqDef
<1>3. ASSUME NEW e PROVE Append(s, e) \in Seq(S \cup {e}) /\ Len(Append(s, e)) = Len(s) + 1
  <2>1. s \in Seq(S \cup {e}) /\ e \in S \cup {e}
    BY <1>2
  <2> QED
    BY <2>1, AppendProperties
<1>4. s # <<>> => Tail(s) \in Seq(S) /\ Len(Tail(s)) = Len(s) - 1
  BY HeadTailProperties
<1>5. ASSUME NEW i \in DOMAIN s PROVE RemoveAt(s, i) \in Seq(S) /\ Len(RemoveAt(s, i)) = Len(s) - 1
  <2>1. i \in 1 .. Len(s)
    BY <1>1
  <2>2. SubSeq(s, 1, i - 1) \in Seq(S) /\ Len(SubSeq(s, 1, i - 1)) = i - 1
    BY <1>1, <2>1, SubSeqProperties
  <2>3. SubSeq(s, i + 1, Len(s)) \in Seq(S) /\ Len(SubSeq(s, i + 1, Len(s))) = Len(s) - i
    BY <1>1, <2>1, SubSeqProperties
  <2>4. RemoveAt(s, i) = SubSeq(s, 1, i - 1) \o SubSeq(s, i + 1, Len(s))
    BY DEF RemoveAt
  <2> QED
    BY <1>1, <2>1, <2>2, <2>3, <2>4, ConcatProperties
<1> QED
  BY <1>1, <1>2, <1>3, <1>4, <1>5

\* A change stays harmless while time passes and rows come, if what others write is new.
LEMMA HarmlessLater ==
    ASSUME HistoryAssumption, tick \in Nat, NEW c, Harmless(c),
           tick' = tick \/ tick' = tick + 1, fresh' \subseteq fresh,
           \A w \in foreign' : w \in foreign \/ (w \in Writes(tick + 1) /\ w[3] = tick + 1)
    PROVE  Harmless(c)'
<1>1. IsTree(c.from, tick') /\ IsTree(c.to, tick')
  BY TreeLater DEF Harmless
<1>2. \A t \in fresh' : c.from[t] = Gone /\ c.to[t] = Gone
  BY DEF Harmless
<1>3. ASSUME NEW w \in foreign', w[2] \in Slots PROVE ~Clashing(c, w)
  <2>1. CASE w \in foreign
    BY <1>3, <2>1 DEF Harmless
  <2>2. CASE w \in Writes(tick + 1) /\ w[3] = tick + 1
    BY <1>3, <2>2, NotYetInSight DEF Harmless, Clashing
  <2> QED
    BY <2>1, <2>2
<1>4. c = Change(c.from, c.to)
  BY DEF Harmless
<1> QED
  BY <1>1, <1>2, <1>3, <1>4 DEF Harmless

-----------------------------------------------------------------------------
(* The edits *)

\* A row made at a time, or edited then, is a version.
LEMMA RowNow ==
    ASSUME NEW n \in Nat, NEW k \in 0 .. n
    PROVE  /\ \A t : IsVersion(NewRow(t, k), n)
           /\ \A r \in TaskRows(n) : \A s : IsVersion([r EXCEPT !.val[s] = k, !.updated = k], n)
<1>1. ASSUME NEW t PROVE NewRow(t, k) \in TaskRows(n)
  BY DEF NewRow, SlotsOf, TaskRows
<1>2. ASSUME NEW r \in TaskRows(n), NEW s PROVE [r EXCEPT !.val[s] = k, !.updated = k] \in TaskRows(n)
  BY DEF TaskRows
<1> QED
  BY <1>1, <1>2, LeafVersions

\* A tree with another version at one row is a tree.
LEMMA TreePut ==
    ASSUME NEW n \in Nat, NEW tree, IsTree(tree, n), NEW t \in Tasks, NEW v, IsVersion(v, n)
    PROVE  /\ IsTree([tree EXCEPT ![t] = v], n)
           /\ [tree EXCEPT ![t] = v][t] = v
           /\ \A u \in Tasks \ {t} : [tree EXCEPT ![t] = v][u] = tree[u]
<1>1. DOMAIN tree = Tasks /\ tree = [u \in Tasks |-> tree[u]]
  BY DEF IsTree
<1>2. [tree EXCEPT ![t] = v] = [u \in Tasks |-> IF u = t THEN v ELSE tree[u]]
  BY <1>1
<1> QED
  BY <1>1, <1>2 DEF IsTree

\* The version a choice is resolved to, touched.
LEMMA TouchedVersion ==
    ASSUME NEW n \in Nat, NEW m \in 0 .. n, NEW v, IsVersion(v, n), v # Gone
    PROVE  IsVersion([v EXCEPT !.updated = m], n)
<1> DEFINE u == [v EXCEPT !.updated = m]
<1>1. CASE v \in TaskRows(n)
  <2>1. u \in TaskRows(n)
    BY <1>1 DEF TaskRows
  <2> QED
    BY <2>1, LeafVersions
<1>2. CASE IsChoice(v)
  <2>1. v = [is |-> "choice", base |-> v.base, updated |-> v.updated, options |-> v.options, within |-> v.within]
    BY <1>2 DEF IsChoice
  <2>2. u = [is |-> "choice", base |-> v.base, updated |-> m, options |-> v.options, within |-> v.within]
    BY <2>1
  <2> HIDE DEF u
  <2>3. u.is = "choice" /\ u.within = v.within /\ u.options = v.options /\ u.base = v.base /\ u.updated = m
    BY <2>2
  <2>4. IsChoice(u)
    BY <1>2, <2>2, <2>3 DEF IsChoice
  <2>5. Within(u) = Within(v)
    BY <1>2, <2>3 DEF Within, IsChoice
  <2>6. IsVersion(u, n)
    BY <2>4, <2>5 DEF IsVersion
  <2> QED
    BY <2>6 DEF u
<1> QED
  BY <1>1, <1>2, VersionKinds

\* What an edit makes of a tree is a tree, and none of the rows that never were is in it.
LEMMA EditedTrees ==
    ASSUME HistoryInv
    PROVE  /\ \A next \in RowEdits \cup Resolved \cup {resetHomeContent} :
                 IsTree(next, now) /\ \A t \in fresh : next[t] = Gone
           /\ \A t \in fresh : IsTree(AddTask(t), now) /\ \A u \in fresh \ {t} : AddTask(t)[u] = Gone
<1>1. /\ tick \in Nat /\ now = tick + 1 /\ now \in Nat /\ tick \in 0 .. now /\ now \in 0 .. now
      /\ fresh \subseteq Tasks /\ IsTree(home, tick)
      /\ \A t \in fresh : home[t] = Gone
  BY DEF HistoryInv, HistoryTypeOK, now
<1> HIDE DEF now
<1>2. IsTree(home, now)
  BY <1>1, TreeLater
<1>3. \A t \in Tasks : IsVersion(home[t], now) /\ (IsRow(home[t]) => home[t] \in TaskRows(now))
  BY <1>1, <1>2, VersionKinds DEF IsTree
<1>4. IsVersion(Gone, now) /\ ~IsRow(Gone)
  BY <1>1, LeafVersions
<1>5. ASSUME NEW t \in InPlace, NEW f
      PROVE  IsTree(EditField(t, f), now) /\ \A u \in fresh : EditField(t, f)[u] = Gone
  <2>1. t \in Tasks /\ t \notin fresh /\ home[t] \in TaskRows(now)
    BY <1>1, <1>3, <1>4 DEF InPlace
  <2> DEFINE v == [home[t] EXCEPT !.val[f] = now, !.updated = now]
  <2>2. IsVersion(v, now)
    BY <1>1, <2>1, RowNow
  <2>3. EditField(t, f) = [home EXCEPT ![t] = v]
    BY DEF EditField
  <2> HIDE DEF v
  <2>4. IsTree([home EXCEPT ![t] = v], now) /\ \A u \in Tasks \ {t} : [home EXCEPT ![t] = v][u] = home[u]
    BY <1>1, <1>2, <2>1, <2>2, TreePut
  <2> QED
    BY <1>1, <2>1, <2>3, <2>4
<1>6. ASSUME NEW gone \in SUBSET Tasks
      PROVE  IsTree(DeleteTasks(gone), now) /\ \A u \in fresh : DeleteTasks(gone)[u] = Gone
  BY <1>1, <1>3, <1>4 DEF DeleteTasks, IsTree
<1>7. ASSUME NEW t \in Tasks, home[t].is = "choice", NEW pick \in Picks(t)
      PROVE  IsTree(resolveChoiceIn(t, pick), now) /\ \A u \in fresh : resolveChoiceIn(t, pick)[u] = Gone
  <2>1. IsChoice(home[t]) /\ t \notin fresh
    BY <1>1, <1>3, <1>7, VersionKinds DEF Gone, TaskRows
  <2>2. pick = Gone \/ \E o \in home[t].options : pick = o[2]
    BY DEF Picks
  <2>3. IsVersion(pick, now)
    BY <1>1, <1>3, <1>4, <2>1, <2>2, VersionKinds
  <2> DEFINE v == IF pick = Gone THEN Gone ELSE [pick EXCEPT !.updated = now]
  <2>4. IsVersion(v, now)
    BY <1>1, <1>4, <2>3, TouchedVersion
  <2>5. resolveChoiceIn(t, pick) = [home EXCEPT ![t] = v]
    BY DEF resolveChoiceIn
  <2> HIDE DEF v
  <2>6. IsTree([home EXCEPT ![t] = v], now) /\ \A u \in Tasks \ {t} : [home EXCEPT ![t] = v][u] = home[u]
    BY <1>1, <1>2, <2>4, TreePut
  <2> QED
    BY <1>1, <2>1, <2>5, <2>6
<1>8. ASSUME NEW t \in fresh
      PROVE  IsTree(AddTask(t), now) /\ \A u \in fresh \ {t} : AddTask(t)[u] = Gone
  <2>1. IsVersion(NewRow(t, now), now)
    BY <1>1, RowNow
  <2> QED
    BY <1>1, <1>2, <2>1, TreePut DEF AddTask
<1>9. ASSUME NEW next \in RowEdits
      PROVE  IsTree(next, now) /\ \A t \in fresh : next[t] = Gone
  <2>1. \/ \E t \in InPlace : \E f \in SlotsOf(t) : next = EditField(t, f)
        \/ \E t \in InPlace : next = DeleteTasks({t})
    BY DEF RowEdits
  <2>2. InPlace \subseteq Tasks
    BY DEF InPlace
  <2> QED
    BY <1>5, <1>6, <2>1, <2>2
<1>10. ASSUME NEW next \in Resolved
       PROVE  IsTree(next, now) /\ \A t \in fresh : next[t] = Gone
  <2>1. PICK t \in {u \in Tasks : home[u].is = "choice"} : next \in {resolveChoiceIn(t, pick) : pick \in Picks(t)}
    BY DEF Resolved
  <2> QED
    BY <1>7, <2>1
<1>11. IsTree(resetHomeContent, now) /\ \A t \in fresh : resetHomeContent[t] = Gone
  BY <1>6 DEF resetHomeContent
<1> QED
  BY <1>8, <1>9, <1>10, <1>11

\* An edit made here is recorded, and what it replaces of others is no longer theirs to lose.
LEMMA EditHereStep ==
    ASSUME HistoryAssumption, HistoryInv, NEW next, EditHere(next), IsTree(next, now),
           fresh' \subseteq fresh, \A t \in fresh' : next[t] = Gone
    PROVE  HistoryInv'
<1>1. /\ tick \in Nat /\ tick' = tick + 1 /\ now = tick + 1 /\ tick' \in 0 .. MaxTicks
      /\ home' = next /\ IsTree(next, tick + 1) /\ IsTree(home, tick) /\ fresh \subseteq Tasks
      /\ \A t \in fresh : home[t] = Gone
      /\ foreign' = {w \in foreign : InSight(next, w)} /\ foreign \subseteq Writes(tick)
      /\ MaxKept \in Nat \ {0} /\ Len(past) + Len(future) <= MaxKept
      /\ ValuesStay
  BY DEF EditHere, Edit, HistoryInv, HistoryTypeOK, HistoryAssumption, now
<1>2. PICK S : Listed(S)
  BY DEF HistoryInv
<1>0. PICK c : c = Change(next, home)
  OBVIOUS
<1> DEFINE all == Append(past, c)
<1>3. c.from = next /\ c.to = home /\ c = Change(c.from, c.to)
  BY <1>0 DEF Change
<1>4. past' = (IF Len(all) > MaxKept THEN Tail(all) ELSE all) /\ future' = <<>>
  BY <1>0 DEF EditHere, record
<1>5. past \in Seq(S) /\ future \in Seq(S) /\ \A d \in S : Harmless(d)
  BY <1>2 DEF Listed
<1>6. /\ all \in Seq(S \cup {c}) /\ Len(all) = Len(past) + 1 /\ Len(past) \in Nat /\ Len(future) \in Nat
  BY <1>5, SequenceSteps
<1> HIDE DEF all
<1>7. /\ past' \in Seq(S \cup {c}) /\ Len(past') <= MaxKept
      /\ future' \in Seq(S \cup {c}) /\ Len(future') = 0
  <2>1. all # <<>>
    BY <1>6, EmptySeq
  <2>2. Tail(all) \in Seq(S \cup {c}) /\ Len(Tail(all)) = Len(all) - 1
    BY <1>6, <2>1, SequenceSteps
  <2> QED
    BY <1>1, <1>4, <1>6, <2>2, EmptySeq
<1>8. \A d \in S : Harmless(d)'
  BY <1>1, <1>5, HarmlessLater
<1>9. Harmless(c)'
  <2>1. IsTree(c.from, tick') /\ IsTree(c.to, tick')
    BY <1>1, <1>3, TreeLater
  <2>2. \A t \in fresh' : c.from[t] = Gone /\ c.to[t] = Gone
    BY <1>1, <1>3
  <2>3. \A w \in foreign' : w[2] \in Slots => ~Clashing(c, w)
    BY <1>1, <1>3 DEF Clashing, ValuesStay
  <2> QED
    BY <1>3, <2>1, <2>2, <2>3 DEF Harmless
<1>10. Listed(S \cup {c})'
  BY <1>7, <1>8, <1>9 DEF Listed
<1>11. HistoryTypeOK'
  BY <1>1, <1>7 DEF HistoryTypeOK
<1>12. ValuesStay'
  BY <1>1 DEF ValuesStay
<1>13. fresh' \subseteq Tasks /\ foreign' \subseteq Writes(tick')
  BY <1>1 DEF Writes
<1> QED
  BY <1>10, <1>11, <1>12, <1>13 DEF HistoryInv

\* What a step writes is a value or a deletion of its time, and the tree shows it.
LEMMA NewWrites ==
    ASSUME HistoryAssumption, tick \in Nat, NEW next, IsTree(next, now), NEW w \in New(next)
    PROVE  w \in Writes(now) /\ w[3] = now /\ (w[2] \in Slots => InSight(next, w))
<1>1. w[3] = now /\ now \in 0 .. now /\ now \in Nat
  BY DEF New, now
<1>2. CASE \E t \in {u \in Tasks : IsRow(next[u])} : \E s \in DOMAIN next[t].val : w = <<t, s, next[t].val[s]>>
  <2>1. PICK t \in Tasks : IsRow(next[t]) /\ \E s \in DOMAIN next[t].val : w = <<t, s, next[t].val[s]>>
    BY <1>2
  <2>2. PICK s \in DOMAIN next[t].val : w = <<t, s, next[t].val[s]>>
    BY <2>1
  <2>3. w[1] = t /\ w[2] = s /\ w[3] = next[t].val[s]
    BY <2>2
  <2>4. next[t] \in Shown(next[t])
    BY <2>1 DEF Shown, IsRow
  <2>5. next[t] \in TaskRows(now)
    <3>1. IsVersion(next[t], now)
      BY DEF IsTree
    <3> QED
      BY <1>1, <2>1, <3>1, VersionKinds
  <2>6. s \in Slots \cup {"gone", "text"}
    BY <2>5 DEF TaskRows
  <2>7. w \in Writes(now)
    BY <1>1, <2>2, <2>3, <2>6 DEF Writes
  <2>8. InSight(next, w)
    BY <2>1, <2>3, <2>4 DEF InSight
  <2> QED
    BY <1>1, <2>7, <2>8
<1>3. CASE \E t \in {u \in Tasks : home[u] # Gone /\ next[u] = Gone} : w = <<t, "gone", now>>
  BY <1>1, <1>3 DEF Writes, HistoryAssumption
<1>4. w \in Written(next)
  BY DEF New
<1>5. \/ \E t \in {u \in Tasks : IsRow(next[u])} : w \in {<<t, s, next[t].val[s]>> : s \in DOMAIN next[t].val}
      \/ w \in {<<t, "gone", now>> : t \in {u \in Tasks : home[u] # Gone /\ next[u] = Gone}}
  BY <1>4, Zenon DEF Written
<1> QED
  BY <1>2, <1>3, <1>5

\* An edit from elsewhere joins what others wrote; the lists do not know it.
LEMMA InstalledStep ==
    ASSUME HistoryAssumption, HistoryInv, NEW next, Installed(next), IsTree(next, now),
           fresh' \subseteq fresh, \A t \in fresh' : next[t] = Gone
    PROVE  HistoryInv'
<1>1. /\ tick \in Nat /\ tick' = tick + 1 /\ now = tick + 1 /\ tick' \in 0 .. MaxTicks
      /\ home' = next /\ IsTree(next, tick + 1) /\ fresh \subseteq Tasks
      /\ foreign' = {w \in foreign : InSight(next, w)} \cup New(next) /\ foreign \subseteq Writes(tick)
      /\ Len(past) + Len(future) <= MaxKept /\ past' = past /\ future' = future
  BY DEF Installed, Edit, HistoryInv, HistoryTypeOK, HistoryAssumption, now
<1>2. PICK S : Listed(S)
  BY DEF HistoryInv
<1>3. \A w \in New(next) : w \in Writes(tick + 1) /\ w[3] = tick + 1 /\ (w[2] \in Slots => InSight(next, w))
  BY <1>1, NewWrites
<1>4. \A d \in S : Harmless(d)'
  BY <1>1, <1>2, <1>3, HarmlessLater DEF Listed
<1>5. Listed(S)'
  BY <1>1, <1>2, <1>4 DEF Listed
<1>6. HistoryTypeOK'
  BY <1>1 DEF HistoryTypeOK
<1>7. ValuesStay'
  BY <1>1, <1>3 DEF ValuesStay
<1>8. fresh' \subseteq Tasks /\ foreign' \subseteq Writes(tick')
  BY <1>1, <1>3 DEF Writes
<1> QED
  BY <1>5, <1>6, <1>7, <1>8 DEF HistoryInv

\* A change taken back, or made again: the tree it gives is one, keeps the rows that never
\* were out and what others wrote in sight, and the change leaves its list.
LEMMA AppliedChange ==
    ASSUME HistoryAssumption, HistoryInv, NEW S, Listed(S), NEW source \in Seq(S), NEW scope, NEW label,
           InScope(source, scope) # {}
    PROVE  /\ IsTree(apply(source, scope, label).tree, tick)
           /\ \A t \in fresh : apply(source, scope, label).tree[t] = Gone
           /\ \A w \in foreign : w[2] \in Slots => InSight(apply(source, scope, label).tree, w)
           /\ apply(source, scope, label).rest \in Seq(S)
           /\ Len(apply(source, scope, label).rest) = Len(source) - 1
<1> DEFINE latest == Max(InScope(source, scope))
           c == source[latest]
<1>1. Len(source) \in Nat /\ DOMAIN source = 1 .. Len(source)
  BY SequenceSteps
<1>2. InScope(source, scope) \subseteq DOMAIN source
  BY DEF InScope
<1>3. latest \in DOMAIN source
  <2>1. InScope(source, scope) \in SUBSET (0 .. Len(source))
    BY <1>1, <1>2
  <2> QED
    BY <1>1, <1>2, <2>1, MaxIsOne
<1> HIDE DEF latest
<1>4. c \in S /\ RemoveAt(source, latest) \in Seq(S) /\ Len(RemoveAt(source, latest)) = Len(source) - 1
  BY <1>3, SequenceSteps
<1>5. /\ apply(source, scope, label).tree = mergeNodes(c.from, home, c.to, label)
      /\ apply(source, scope, label).rest = RemoveAt(source, latest)
  BY DEF apply, latest
<1> HIDE DEF c
<1>6. /\ IsTree(c.from, tick) /\ IsTree(c.to, tick)
      /\ \A t \in fresh : c.from[t] = Gone /\ c.to[t] = Gone
      /\ \A w \in foreign : w[2] \in Slots => ~Clashing(c, w)
  BY <1>4 DEF Listed, Harmless
<1>7. /\ tick \in Nat /\ IsTree(home, tick) /\ fresh \subseteq Tasks /\ foreign \subseteq Writes(tick)
      /\ \A t \in fresh : home[t] = Gone
      /\ \A w \in foreign : w[2] \in Slots => InSight(home, w)
  BY DEF HistoryInv, HistoryTypeOK, ValuesStay, HistoryAssumption
<1>8. /\ IsTree(mergeNodes(c.from, home, c.to, label), tick)
      /\ \A t \in Tasks : c.from[t] = Gone /\ c.to[t] = Gone => mergeNodes(c.from, home, c.to, label)[t] = home[t]
      /\ \A w \in Writes(tick) : w[2] \in Slots /\ InSight(home, w) /\ ~Clashing(c, w)
                                 => InSight(mergeNodes(c.from, home, c.to, label), w)
  BY <1>6, <1>7, MergedTree
<1> QED
  BY <1>4, <1>5, <1>6, <1>7, <1>8

\* The tree goes back to one that shows all others wrote, and the step back can be redone.
LEMMA AppliedStep ==
    ASSUME HistoryAssumption, HistoryInv, NEW S, Listed(S), NEW tree,
           home' = tree, UNCHANGED <<fresh, tick, foreign, alone>>,
           IsTree(tree, tick), \A t \in fresh : tree[t] = Gone,
           \A w \in foreign : w[2] \in Slots => InSight(tree, w),
           NEW c, c = Change(tree, home),
           past' \in Seq(S \cup {c}), future' \in Seq(S \cup {c}), Len(past') + Len(future') <= MaxKept
    PROVE  HistoryInv'
<1>1. /\ tick \in Nat /\ tick \in 0 .. MaxTicks /\ IsTree(home, tick) /\ fresh \subseteq Tasks /\ foreign \subseteq Writes(tick)
      /\ \A t \in fresh : home[t] = Gone
      /\ ValuesStay
  BY DEF HistoryInv, HistoryTypeOK, HistoryAssumption
<1>2. \A d \in S : Harmless(d)'
  BY <1>1, HarmlessLater DEF Listed
<1>3. c.from = tree /\ c.to = home /\ c = Change(c.from, c.to)
  BY DEF Change
<1>4. Harmless(c)'
  <2>1. \A w \in foreign : w[2] \in Slots => ~Clashing(c, w)
    BY <1>1, <1>3 DEF Clashing, ValuesStay
  <2> QED
    BY <1>1, <1>3, <2>1 DEF Harmless
<1>5. Listed(S \cup {c})'
  BY <1>2, <1>4 DEF Listed
<1>6. HistoryTypeOK'
  BY <1>1 DEF HistoryTypeOK
<1>7. ValuesStay'
  BY DEF ValuesStay
<1> QED
  BY <1>1, <1>5, <1>6, <1>7 DEF HistoryInv

LEMMA UndoStep ==
    ASSUME HistoryAssumption, HistoryInv, NEW scope, undo(scope)
    PROVE  HistoryInv'
<1>1. PICK S : Listed(S)
  BY DEF HistoryInv
<1>2. PICK done : done = apply(past, scope, "Undo")
  OBVIOUS
<1>3. /\ InScope(past, scope) # {} /\ home' = done.tree /\ past' = done.rest
      /\ future' = Append(future, Change(done.tree, home)) /\ UNCHANGED <<fresh, tick, foreign, alone>>
  BY <1>2 DEF undo
<1>4. past \in Seq(S) /\ future \in Seq(S) /\ Len(past) + Len(future) <= MaxKept
  BY <1>1 DEF Listed, HistoryInv, HistoryTypeOK
<1>5. /\ IsTree(done.tree, tick) /\ \A t \in fresh : done.tree[t] = Gone
      /\ \A w \in foreign : w[2] \in Slots => InSight(done.tree, w)
      /\ done.rest \in Seq(S) /\ Len(done.rest) = Len(past) - 1
  BY <1>1, <1>2, <1>3, <1>4, AppliedChange
<1>6. PICK c : c = Change(done.tree, home)
  OBVIOUS
<1>7. /\ past' \in Seq(S \cup {c}) /\ future' \in Seq(S \cup {c})
      /\ Len(past') = Len(past) - 1 /\ Len(future') = Len(future) + 1 /\ Len(past) \in Nat /\ Len(future) \in Nat
  BY <1>3, <1>4, <1>5, <1>6, SequenceSteps
<1>8. Len(past') + Len(future') <= MaxKept
  BY <1>4, <1>7 DEF HistoryAssumption
<1> QED
  BY <1>1, <1>3, <1>5, <1>6, <1>7, <1>8, AppliedStep

LEMMA RedoStep ==
    ASSUME HistoryAssumption, HistoryInv, NEW scope, redo(scope)
    PROVE  HistoryInv'
<1>1. PICK S : Listed(S)
  BY DEF HistoryInv
<1>2. PICK done : done = apply(future, scope, "Redo")
  OBVIOUS
<1>3. /\ InScope(future, scope) # {} /\ home' = done.tree /\ future' = done.rest
      /\ past' = Append(past, Change(done.tree, home)) /\ UNCHANGED <<fresh, tick, foreign, alone>>
  BY <1>2 DEF redo
<1>4. past \in Seq(S) /\ future \in Seq(S) /\ Len(past) + Len(future) <= MaxKept
  BY <1>1 DEF Listed, HistoryInv, HistoryTypeOK
<1>5. /\ IsTree(done.tree, tick) /\ \A t \in fresh : done.tree[t] = Gone
      /\ \A w \in foreign : w[2] \in Slots => InSight(done.tree, w)
      /\ done.rest \in Seq(S) /\ Len(done.rest) = Len(future) - 1
  BY <1>1, <1>2, <1>3, <1>4, AppliedChange
<1>6. PICK c : c = Change(done.tree, home)
  OBVIOUS
<1>7. /\ past' \in Seq(S \cup {c}) /\ future' \in Seq(S \cup {c})
      /\ Len(future') = Len(future) - 1 /\ Len(past') = Len(past) + 1 /\ Len(past) \in Nat /\ Len(future) \in Nat
  BY <1>3, <1>4, <1>5, <1>6, SequenceSteps
<1>8. Len(past') + Len(future') <= MaxKept
  BY <1>4, <1>7 DEF HistoryAssumption
<1> QED
  BY <1>1, <1>3, <1>5, <1>6, <1>7, <1>8, AppliedStep

-----------------------------------------------------------------------------
(* The history as a whole *)

\* A document just opened: nobody has written in it, and nothing can be undone.
LEMMA JustOpened ==
    ASSUME HistoryAssumption, tick \in 0 .. MaxTicks, home = FirstHome, past = <<>>, future = <<>>,
           fresh = Tasks \ OldTasks, foreign = {}
    PROVE  HistoryInv
<1>1. tick \in Nat /\ 0 \in 0 .. tick
  BY DEF HistoryAssumption
<1>2. IsVersion(Gone, tick)
  BY <1>1, LeafVersions
<1>3. \A t : IsVersion(NewRow(t, 0), tick)
  BY <1>1, RowNow
<1>4. IsTree(home, tick) /\ \A t \in fresh : home[t] = Gone
  BY <1>2, <1>3 DEF IsTree, FirstHome
<1>5. Listed({})
  BY EmptySeq DEF Listed
<1>6. Len(past) + Len(future) <= MaxKept
  BY EmptySeq DEF HistoryAssumption
<1> QED
  BY <1>4, <1>5, <1>6 DEF HistoryInv, HistoryTypeOK, ValuesStay

LEMMA HistoryInvAtStart == ASSUME HistoryAssumption, HistoryInit PROVE HistoryInv
<1>1. tick \in 0 .. MaxTicks
  BY DEF HistoryInit, HistoryAssumption
<1> QED
  BY <1>1, JustOpened DEF HistoryInit

\* Another document forgets the lists with the tree they belong to.
LEMMA LoadStep ==
    ASSUME HistoryAssumption, HistoryInv, loadDataSession
    PROVE  HistoryInv'
<1>1. PICK n \in 0 .. MaxTicks : tick' = n
  BY DEF loadDataSession, HistoryInv, HistoryTypeOK, HistoryAssumption, now
<1>2. n \in Nat /\ 0 \in 0 .. n
  BY DEF HistoryAssumption
<1>3. IsVersion(Gone, n)
  BY <1>2, LeafVersions
<1>4. \A t : IsVersion(NewRow(t, 0), n)
  BY <1>2, RowNow
<1>5. IsTree(FirstHome, n) /\ \A t \in Tasks \ OldTasks : FirstHome[t] = Gone
  BY <1>3, <1>4 DEF IsTree, FirstHome
<1>6. /\ home' = FirstHome /\ past' = <<>> /\ future' = <<>> /\ fresh' = Tasks \ OldTasks /\ foreign' = {}
  BY DEF loadDataSession
<1>7. Listed({})'
  BY <1>6, EmptySeq DEF Listed
<1>8. HistoryTypeOK'
  BY <1>1, <1>5, <1>6, EmptySeq DEF HistoryTypeOK, HistoryAssumption
<1>9. ValuesStay'
  BY <1>6 DEF ValuesStay
<1> QED
  BY <1>6, <1>7, <1>8, <1>9 DEF HistoryInv

LEMMA HistoryInvKept ==
    ASSUME HistoryAssumption, HistoryInv, [HistoryNext]_historyVars
    PROVE  HistoryInv'
<1>1. ASSUME edit PROVE HistoryInv'
  <2>1. PICK next \in RowEdits \cup Resolved : EditHere(next)
    BY <1>1 DEF edit
  <2>2. fresh' = fresh
    BY <1>1 DEF edit
  <2> QED
    BY <2>1, <2>2, EditedTrees, EditHereStep
<1>2. ASSUME resetHome PROVE HistoryInv'
  BY <1>2, EditedTrees, EditHereStep DEF resetHome
<1>3. ASSUME receiveEdit PROVE HistoryInv'
  <2>1. CASE \E next \in RowEdits : Installed(next) /\ UNCHANGED fresh
    BY <2>1, EditedTrees, InstalledStep
  <2>2. CASE \E t \in fresh : Installed(AddTask(t)) /\ fresh' = fresh \ {t}
    <3>1. PICK t \in fresh : Installed(AddTask(t)) /\ fresh' = fresh \ {t}
      BY <2>2
    <3>2. PICK next : next = AddTask(t)
      OBVIOUS
    <3>3. IsTree(next, now) /\ \A u \in fresh' : next[u] = Gone
      BY <3>1, <3>2, EditedTrees
    <3> QED
      BY <3>1, <3>2, <3>3, InstalledStep
  <2> QED
    BY <1>3, <2>1, <2>2 DEF receiveEdit
<1>4. ASSUME NEW t \in Tasks, addTask(t) PROVE HistoryInv'
  <2>1. PICK next : next = AddTask(t)
    OBVIOUS
  <2>2. t \in fresh /\ fresh' = fresh \ {t} /\ EditHere(next)
    BY <1>4, <2>1 DEF addTask
  <2>3. IsTree(next, now) /\ \A u \in fresh' : next[u] = Gone
    BY <2>1, <2>2, EditedTrees
  <2> QED
    BY <2>2, <2>3, EditHereStep
<1>5. ASSUME UNCHANGED historyVars PROVE HistoryInv'
  BY <1>5 DEF historyVars, HistoryInv, HistoryTypeOK, ValuesStay, Listed, Harmless
<1> QED
  BY <1>1, <1>2, <1>3, <1>4, <1>5, UndoStep, RedoStep, LoadStep DEF HistoryNext

\* The tree is rows, choices and nothing else, whatever choices they hold; the lists keep no
\* more than they may; and no undo brings back a row that never was.
THEOREM HistoryTypes == HistorySpec => []HistoryTypeOK
<1>1. HistoryInit => HistoryInv
  BY HistoryAssumption, HistoryInvAtStart
<1>2. HistoryInv /\ [HistoryNext]_historyVars => HistoryInv'
  BY HistoryAssumption, HistoryInvKept
<1>3. HistoryInv => HistoryTypeOK
  BY DEF HistoryInv
<1> QED
  BY <1>1, <1>2, <1>3, PTL DEF HistorySpec

\* No series of undoing and redoing takes away what another device wrote since in a row's
\* field.
THEOREM OthersValuesStay == HistorySpec => []ValuesStay
<1>1. HistoryInit => HistoryInv
  BY HistoryAssumption, HistoryInvAtStart
<1>2. HistoryInv /\ [HistoryNext]_historyVars => HistoryInv'
  BY HistoryAssumption, HistoryInvKept
<1>3. HistoryInv => ValuesStay
  BY DEF HistoryInv
<1> QED
  BY <1>1, <1>2, <1>3, PTL DEF HistorySpec
=============================================================================
