------------------------- MODULE Evaluation_proofs -------------------------
(***************************************************************************)
(* For any number of runs, requirements and servers: what a run called is  *)
(* in the journal, only the run that holds the journal completes the task, *)
(* nothing filled by hand is replaced unseen, and in the saved tree        *)
(* answers and completion come at once.                                    *)
(***************************************************************************)
EXTENDS Evaluation, TLAPS

-----------------------------------------------------------------------------
(* What the operators on trees do, field by field *)

\* A tree by its parts.
LEMMA TreeParts ==
    ASSUME NEW t \in Trees
    PROVE  /\ t.journal \in Journals
           /\ t.journal.run \in Runs \cup {NoRun} /\ t.journal.status \in Statuses
           /\ t.journal.effect \in [Steps -> Effects]
           /\ t.journal.task \in [Steps -> {"none", "open", "done"}]
           /\ t.value \in [Steps -> Fillings] /\ t.done \in BOOLEAN
           /\ t.write \in [Runs -> [Steps -> Fillings \cup {NoRun}]]
  BY DEF Trees, Journals

\* A tree from its parts.
LEMMA TreeOf ==
    ASSUME NEW j \in Journals, NEW v \in [Steps -> Fillings], NEW d \in BOOLEAN,
           NEW w \in [Runs -> [Steps -> Fillings \cup {NoRun}]]
    PROVE  [journal |-> j, value |-> v, done |-> d, write |-> w] \in Trees
  BY DEF Trees

LEMMA NoJournalType ==
    ASSUME NEW r \in Runs \cup {NoRun}, NEW s \in Statuses
    PROVE  NoJournal(r, s) \in Journals
  BY DEF NoJournal, Journals, Effects

LEMMA UnworkedFields ==
    /\ Unworked \in Trees
    /\ Unworked.journal.run = NoRun /\ Unworked.journal.status = "idle"
    /\ \A k \in Steps : /\ Unworked.value[k] = Unmet
                        /\ Unworked.journal.effect[k] = "none"
                        /\ \A r \in Runs : Unworked.write[r][k] = NoRun
    /\ ~Unworked.done
  BY DEF Unworked, NoJournal, NoWrites, Trees, Journals, Statuses, Effects, Fillings

\* A journal is replaced.
LEMMA JournalFields ==
    ASSUME NEW t \in Trees, NEW j \in Journals
    PROVE  /\ [t EXCEPT !.journal = j] \in Trees
           /\ [t EXCEPT !.journal = j].journal = j
           /\ [t EXCEPT !.journal = j].value = t.value
           /\ [t EXCEPT !.journal = j].done = t.done
           /\ [t EXCEPT !.journal = j].write = t.write
  BY DEF Trees

LEMMA MarkedFields ==
    ASSUME NEW t \in Trees, NEW s \in Statuses
    PROVE  /\ Marked(t, s) \in Trees
           /\ Marked(t, s).journal.run = t.journal.run
           /\ Marked(t, s).journal.status = s
           /\ Marked(t, s).journal.effect = t.journal.effect
           /\ Marked(t, s).journal.task = t.journal.task
           /\ Marked(t, s).value = t.value
           /\ Marked(t, s).done = t.done
           /\ Marked(t, s).write = t.write
  BY DEF Marked, Trees, Journals

\* One effect is set.
LEMMA EffectFields ==
    ASSUME NEW t \in Trees, NEW k \in Steps, NEW e \in Effects
    PROVE  /\ [t EXCEPT !.journal.effect[k] = e] \in Trees
           /\ [t EXCEPT !.journal.effect[k] = e].journal.run = t.journal.run
           /\ [t EXCEPT !.journal.effect[k] = e].journal.status = t.journal.status
           /\ [t EXCEPT !.journal.effect[k] = e].journal.effect[k] = e
           /\ \A j \in Steps \ {k} : [t EXCEPT !.journal.effect[k] = e].journal.effect[j] = t.journal.effect[j]
           /\ [t EXCEPT !.journal.effect[k] = e].journal.task = t.journal.task
           /\ [t EXCEPT !.journal.effect[k] = e].value = t.value
           /\ [t EXCEPT !.journal.effect[k] = e].done = t.done
           /\ [t EXCEPT !.journal.effect[k] = e].write = t.write
  BY DEF Trees, Journals

\* One write is proposed.
LEMMA WriteFields ==
    ASSUME NEW t \in Trees, NEW r \in Runs, NEW k \in Steps, NEW v \in Fillings, NEW u,
           u = [t EXCEPT !.write[r][k] = v]
    PROVE  /\ u \in Trees
           /\ u.journal = t.journal
           /\ u.value = t.value
           /\ u.done = t.done
           /\ \A q \in Runs, j \in Steps : u.write[q][j] = IF q = r /\ j = k THEN v ELSE t.write[q][j]
  BY DEF Trees

\* One requirement is filled.
LEMMA ValueFields ==
    ASSUME NEW t \in Trees, NEW k \in Steps, NEW v \in Fillings
    PROVE  /\ [t EXCEPT !.value[k] = v] \in Trees
           /\ [t EXCEPT !.value[k] = v].journal = t.journal
           /\ [t EXCEPT !.value[k] = v].value = [t.value EXCEPT ![k] = v]
           /\ \A j \in Steps : [t EXCEPT !.value[k] = v].value[j] = IF j = k THEN v ELSE t.value[j]
           /\ [t EXCEPT !.value[k] = v].done = t.done
           /\ [t EXCEPT !.value[k] = v].write = t.write
  BY DEF Trees

LEMMA PublishedFields ==
    ASSUME NEW t \in Trees, NEW r \in Runs
    PROVE  /\ Published(t, r) \in Trees
           /\ Published(t, r).journal = Marked(t, "committed").journal
           /\ Published(t, r).journal.run = t.journal.run
           /\ Published(t, r).journal.status = "committed"
           /\ Published(t, r).journal.effect = t.journal.effect
           /\ Published(t, r).journal.task = t.journal.task
           /\ Published(t, r).done = TRUE
<1>1. Marked(t, "committed").journal \in Journals
  BY MarkedFields, TreeParts DEF Statuses
<1>2. [k \in Steps |-> IF k \in Wrote(t, r) THEN r ELSE t.value[k]] \in [Steps -> Fillings]
  BY TreeParts DEF Fillings
<1>3. NoWrites \in [Steps -> Fillings \cup {NoRun}]
  BY DEF NoWrites
<1>4. [t.write EXCEPT ![r] = NoWrites] \in [Runs -> [Steps -> Fillings \cup {NoRun}]]
  BY <1>3, TreeParts
<1>5. Published(t, r) \in Trees
  BY <1>1, <1>2, <1>4, TreeOf DEF Published
<1>6. Published(t, r).journal = Marked(t, "committed").journal
  BY DEF Published
<1>7. /\ Published(t, r).journal.run = t.journal.run
      /\ Published(t, r).journal.status = "committed"
      /\ Published(t, r).journal.effect = t.journal.effect
      /\ Published(t, r).journal.task = t.journal.task
  BY <1>6, MarkedFields DEF Statuses
<1>8. Published(t, r).done = TRUE
  BY DEF Published
<1> QED
  BY <1>5, <1>6, <1>7, <1>8

\* The answers are the run's, and its writes are gone.
LEMMA PublishedValues ==
    ASSUME NEW t \in Trees, NEW r \in Runs, NEW k \in Steps
    PROVE  /\ k \in Wrote(t, r) => Published(t, r).value[k] = r
           /\ k \notin Wrote(t, r) => Published(t, r).value[k] = t.value[k]
  BY DEF Published

LEMMA PublishedWrites ==
    ASSUME NEW t \in Trees, NEW r \in Runs, NEW q \in Runs, NEW k \in Steps
    PROVE  Published(t, r).write[q][k] = IF q = r THEN NoRun ELSE t.write[q][k]
  BY TreeParts DEF Published, NoWrites

\* A run's writes are dropped.
LEMMA DroppedFields ==
    ASSUME NEW t \in Trees, NEW r \in Runs
    PROVE  /\ [t EXCEPT !.write[r] = NoWrites] \in Trees
           /\ [t EXCEPT !.write[r] = NoWrites].journal = t.journal
           /\ [t EXCEPT !.write[r] = NoWrites].value = t.value
           /\ [t EXCEPT !.write[r] = NoWrites].done = t.done
           /\ \A q \in Runs, k \in Steps :
                 [t EXCEPT !.write[r] = NoWrites].write[q][k] = IF q = r THEN NoRun ELSE t.write[q][k]
<1>1. NoWrites \in [Steps -> Fillings \cup {NoRun}] /\ \A k \in Steps : NoWrites[k] = NoRun
  BY DEF NoWrites
<1> QED
  BY <1>1 DEF Trees

LEMMA RolledBackFields ==
    ASSUME NEW t \in Trees
    PROVE  /\ RolledBack(t) \in Trees
           /\ RolledBack(t).journal.run = t.journal.run
           /\ RolledBack(t).journal.status = "rolled-back"
           /\ \A k \in Steps : RolledBack(t).journal.effect[k] =
                 IF t.journal.effect[k] = "none" THEN "none" ELSE "reverted"
           /\ RolledBack(t).value = t.value
           /\ RolledBack(t).done = t.done
           /\ RolledBack(t).write = t.write
  BY DEF RolledBack, Trees, Journals, Statuses, Effects

LEMMA ReviewedFields ==
    ASSUME NEW t \in Trees
    PROVE  /\ Reviewed(t) \in Trees
           /\ Reviewed(t).journal.run = t.journal.run
           /\ Reviewed(t).journal.status \in {"needs-recovery", "rolled-back"}
           /\ Reviewed(t).journal.status = "rolled-back" =>
                 \A k \in Loose(t) : Reviewed(t).journal.task[k] = "done"
           /\ \A k \in Steps : Reviewed(t).journal.effect[k] =
                 IF k \in Loose(t) THEN "manual" ELSE t.journal.effect[k]
           /\ Reviewed(t).value = t.value
           /\ Reviewed(t).done = t.done
           /\ Reviewed(t).write = t.write
  BY DEF Reviewed, Loose, Trees, Journals, Statuses, Effects

\* A task of compensation is done.
LEMMA TaskFields ==
    ASSUME NEW t \in Trees, NEW k \in Steps
    PROVE  /\ [t EXCEPT !.journal.task[k] = "done"] \in Trees
           /\ [t EXCEPT !.journal.task[k] = "done"].journal.run = t.journal.run
           /\ [t EXCEPT !.journal.task[k] = "done"].journal.status = t.journal.status
           /\ [t EXCEPT !.journal.task[k] = "done"].journal.effect = t.journal.effect
           /\ [t EXCEPT !.journal.task[k] = "done"].journal.task[k] = "done"
           /\ \A j \in Steps \ {k} : [t EXCEPT !.journal.task[k] = "done"].journal.task[j] = t.journal.task[j]
           /\ [t EXCEPT !.journal.task[k] = "done"].value = t.value
           /\ [t EXCEPT !.journal.task[k] = "done"].done = t.done
           /\ [t EXCEPT !.journal.task[k] = "done"].write = t.write
  BY DEF Trees, Journals

\* A completion taken back has what it was published over, and what changed since.
LEMMA MergedOutFields ==
    ASSUME EvaluationTypeOK, NEW r \in Runs
    PROVE  /\ MergedOut(r) \in Trees
           /\ MergedOut(r).journal = before[r].journal
           /\ MergedOut(r).done = before[r].done
           /\ MergedOut(r).write = before[r].write
           /\ \A k \in Steps : MergedOut(r).value[k] =
                 IF held[r].value[k] = Published(before[r], r).value[k]
                 THEN before[r].value[k] ELSE held[r].value[k]
<1> DEFINE v == [k \in Steps |-> IF held[r].value[k] = Published(before[r], r).value[k]
                                THEN before[r].value[k] ELSE held[r].value[k]]
<1>1. before[r] \in Trees /\ held[r] \in Trees
  BY DEF EvaluationTypeOK
<1>2. v \in [Steps -> Fillings]
  BY <1>1, TreeParts
<1>3. MergedOut(r) = [before[r] EXCEPT !.value = v]
  BY DEF MergedOut
<1> HIDE DEF v
<1>4. /\ MergedOut(r) \in Trees
      /\ MergedOut(r).journal = before[r].journal
      /\ MergedOut(r).done = before[r].done
      /\ MergedOut(r).write = before[r].write
      /\ MergedOut(r).value = v
  BY <1>1, <1>2, <1>3 DEF Trees
<1> QED
  BY <1>4 DEF v

\* What a failing run goes back to.
LEMMA DiscardedFields ==
    ASSUME EvaluationTypeOK, NEW r \in Runs
    PROVE  LET t == IF pc[r] = "publishing" THEN MergedOut(r) ELSE held[r] IN
           /\ t \in Trees
           /\ Discarded(r) \in Trees
           /\ Discarded(r).journal = t.journal
           /\ Discarded(r).value = t.value
           /\ Discarded(r).done = t.done
           /\ \A q \in Runs, k \in Steps :
                 Discarded(r).write[q][k] = IF q = r THEN NoRun ELSE t.write[q][k]
<1> DEFINE t == IF pc[r] = "publishing" THEN MergedOut(r) ELSE held[r]
<1>1. t \in Trees
  BY MergedOutFields DEF EvaluationTypeOK
<1>2. Discarded(r) = [t EXCEPT !.write[r] = NoWrites]
  BY DEF Discarded
<1> HIDE DEF t
<1>3. /\ Discarded(r) \in Trees
      /\ Discarded(r).journal = t.journal
      /\ Discarded(r).value = t.value
      /\ Discarded(r).done = t.done
      /\ \A q \in Runs, k \in Steps : Discarded(r).write[q][k] = IF q = r THEN NoRun ELSE t.write[q][k]
  BY <1>1, <1>2, DroppedFields
<1> QED
  BY <1>1, <1>3 DEF t

-----------------------------------------------------------------------------
(* How a run moves *)

\* The run goes on; the others stay where they are.
LEMMA Gone ==
    ASSUME EvaluationTypeOK, NEW r \in Runs, NEW next \in Points, NEW t \in Trees, Go(r, next, t)
    PROVE  /\ pc' \in [Runs -> Points] /\ held' \in [Runs -> Trees]
           /\ before' \in [Runs -> Trees] /\ reworded' \in [Runs -> BOOLEAN]
           /\ pc'[r] = next
           /\ held'[r] = IF next = "over" THEN Unworked ELSE t
           /\ before'[r] = IF next = "publishing" THEN held[r] ELSE Unworked
           /\ \A q \in Runs \ {r} : pc'[q] = pc[q] /\ held'[q] = held[q] /\ before'[q] = before[q]
  BY UnworkedFields DEF Go, EvaluationTypeOK

\* The account is saved: who had loaded another tree is out of date.
LEMMA Replaced ==
    ASSUME EvaluationTypeOK, NEW t \in Trees, NEW by \in SUBSET Runs, Replace(t, by)
    PROVE  /\ tree' = t /\ stale' \in [Runs -> BOOLEAN]
           /\ \A q \in Runs : stale'[q] <=> stale[q] \/ (Working(q) /\ q \notin by /\ t # tree)
<1>1. \A q \in Runs : (stale[q] \/ (Working(q) /\ q \notin by /\ t # tree)) \in BOOLEAN
  BY DEF EvaluationTypeOK, Working
<1> QED
  BY <1>1 DEF Replace

\* A save that was answered: the device keeps the tree the run goes on with, the
\* server's database has the one the run held.
LEMMA AnsweredMoves ==
    ASSUME EvaluationTypeOK, NEW r \in Runs, NEW next \in Points, NEW t \in Trees, Answered(r, next, t)
    PROVE  /\ Go(r, next, t)
           /\ tree' \in Trees /\ stale' \in [Runs -> BOOLEAN]
           /\ onDevice => tree' = t /\ stale' = stale
           /\ ~onDevice => /\ ~stale[r] /\ tree' = held[r] /\ (stale'[r] <=> stale[r])
                           /\ \A q \in Runs \ {r} : stale'[q] <=> stale[q] \/ (Working(q) /\ tree' # tree)
<1>1. CASE onDevice
  BY <1>1 DEF Answered, EvaluationTypeOK
<1>2. CASE ~onDevice
  <2>1. Go(r, next, t) /\ ~stale[r] /\ Replace(held[r], {r})
    BY <1>2 DEF Answered
  <2> QED
    BY <1>2, <2>1, Replaced DEF EvaluationTypeOK
<1> QED
  BY <1>1, <1>2

\* A save that threw may have been made all the same.
LEMMA UnansweredMoves ==
    ASSUME EvaluationTypeOK, NEW r \in Runs, NEW next \in Points, NEW t \in Trees, Unanswered(r, next, t)
    PROVE  /\ Go(r, next, t)
           /\ tree' \in Trees /\ stale' \in [Runs -> BOOLEAN]
           /\ onDevice => tree' = t /\ stale' = stale
           /\ ~onDevice => \/ /\ tree' = tree
                              /\ stale'[r] <=> stale[r] /\ next # "over"
                              /\ \A q \in Runs \ {r} : stale'[q] <=> stale[q]
                           \/ /\ ~stale[r] /\ tree' = held[r] /\ tree' # tree
                              /\ (stale'[r] <=> next # "over")
                              /\ \A q \in Runs \ {r} : stale'[q] <=> stale[q] \/ Working(q)
<1>1. CASE onDevice
  BY <1>1 DEF Unanswered, EvaluationTypeOK
<1>2. CASE ~onDevice /\ tree' = tree /\ stale' = [stale EXCEPT ![r] = @ /\ next # "over"]
  <2>1. Go(r, next, t)
    BY DEF Unanswered
  <2>2. (stale[r] /\ next # "over") \in BOOLEAN
    OBVIOUS
  <2>3. /\ stale' \in [Runs -> BOOLEAN] /\ (stale'[r] <=> stale[r] /\ next # "over")
        /\ \A q \in Runs \ {r} : stale'[q] <=> stale[q]
    BY <1>2, <2>2 DEF EvaluationTypeOK
  <2> QED
    BY <1>2, <2>1, <2>3 DEF EvaluationTypeOK
<1>3. CASE /\ ~onDevice /\ ~stale[r] /\ held[r] # tree /\ tree' = held[r]
           /\ stale' = [q \in Runs |-> IF q = r THEN next # "over" ELSE stale[q] \/ Working(q)]
  <2>1. Go(r, next, t)
    BY DEF Unanswered
  <2>2. \A q \in Runs : (IF q = r THEN next # "over" ELSE stale[q] \/ Working(q)) \in BOOLEAN
    BY DEF EvaluationTypeOK, Working
  <2>3. /\ stale' \in [Runs -> BOOLEAN] /\ (stale'[r] <=> next # "over")
        /\ \A q \in Runs \ {r} : stale'[q] <=> stale[q] \/ Working(q)
    BY <1>3, <2>2
  <2> QED
    BY <1>3, <2>1, <2>3 DEF EvaluationTypeOK
<1> QED
  BY <1>1, <1>2, <1>3 DEF Unanswered

\* Another request saves the account.
LEMMA ElsewhereMoves ==
    ASSUME EvaluationTypeOK, NEW t \in Trees, Elsewhere(t)
    PROVE  /\ ~onDevice /\ tree' = t /\ stale' \in [Runs -> BOOLEAN]
           /\ \A q \in Runs : stale'[q] <=> stale[q] \/ (Working(q) /\ t # tree)
           /\ UNCHANGED <<onDevice, pc, held, before, reworded, aged, called>>
  BY Replaced DEF Elsewhere

\* A payment's page is opened.
LEMMA OpenedPage ==
    ASSUME EvaluationTypeOK, NEW r \in Runs, NEW k \in Payments
    PROVE  /\ Opened(r, k) \in [Runs -> [Payments -> {"none", "open", "paid", "expired"}]]
           /\ Opened(r, k)[r][k] = "open"
           /\ \A q \in Runs, j \in Payments : q # r \/ j # k => Opened(r, k)[q][j] = session[q][j]
  BY DEF Opened, EvaluationTypeOK

-----------------------------------------------------------------------------
(* The tree a run goes on with is a tree *)

LEMMA NextTrees ==
    ASSUME EvaluationTypeOK, NEW r \in Runs
    PROVE  /\ held[r] \in Trees /\ tree \in Trees
           /\ [tree EXCEPT !.journal = NoJournal(r, "opening")] \in Trees
           /\ \A s \in Statuses : Marked(held[r], s) \in Trees
           /\ \A k \in Steps, e \in Effects : [held[r] EXCEPT !.journal.effect[k] = e] \in Trees
           /\ \A k \in Steps : [held[r] EXCEPT !.write[r][k] = held[r].value[k]] \in Trees
           /\ Published(held[r], r) \in Trees
           /\ Discarded(r) \in Trees
           /\ RolledBack(held[r]) \in Trees
           /\ Reviewed(tree) \in Trees
<1>1. held[r] \in Trees /\ tree \in Trees
  BY DEF EvaluationTypeOK
<1>2. NoJournal(r, "opening") \in Journals
  BY NoJournalType DEF Statuses
<1>3. [tree EXCEPT !.journal = NoJournal(r, "opening")] \in Trees
  BY <1>1, <1>2, JournalFields
<1>4. \A s \in Statuses : Marked(held[r], s) \in Trees
  BY <1>1, MarkedFields
<1>5. \A k \in Steps, e \in Effects : [held[r] EXCEPT !.journal.effect[k] = e] \in Trees
  BY <1>1, EffectFields
<1>6. ASSUME NEW k \in Steps PROVE [held[r] EXCEPT !.write[r][k] = held[r].value[k]] \in Trees
  <2>1. held[r].value[k] \in Fillings
    BY <1>1, TreeParts
  <2> QED
    BY <1>1, <2>1, WriteFields
<1>7. Published(held[r], r) \in Trees
  BY <1>1, PublishedFields
<1>8. Discarded(r) \in Trees
  BY DiscardedFields
<1>9. RolledBack(held[r]) \in Trees /\ Reviewed(tree) \in Trees
  BY <1>1, RolledBackFields, ReviewedFields
<1> QED
  BY <1>1, <1>3, <1>4, <1>5, <1>6, <1>7, <1>8, <1>9

-----------------------------------------------------------------------------
(* The invariant *)

\* A journal over which an evaluation may begin has nothing unaccounted for.
Accounted(j) ==
    j.status \in Rerunnable =>
        \A k \in Steps : \/ j.effect[k] \in {"none", "applied", "pending-review", "reverted"}
                         \/ j.task[k] = "done"

\* The payments that were confirmed.
Paid == {k \in Payments : \E r \in Runs : session[r][k] = "paid"}

\* Grants come from confirmed payments; on a server nothing else fills a payment.
Honest(t, paid, device) ==
    \A k \in Payments :
        /\ t.value[k] = Grant => k \in paid
        /\ ~device => /\ t.value[k] \in {Unmet, Grant}
                      /\ \A r \in Runs : t.write[r][k] = NoRun

\* A task that is done has nothing open.
Filled(t) == t.done => \A k \in Steps : t.value[k] # Unmet

Sound(t, paid, device) == Accounted(t.journal) /\ Honest(t, paid, device) /\ Filled(t)

TreesSound ==
    /\ Sound(tree, Paid, onDevice)
    /\ \A r \in Runs : Sound(held[r], Paid, onDevice) /\ Sound(before[r], Paid, onDevice)

\* The device runs one evaluation at a time.
Alone == onDevice => \A r, q \in Runs : Working(r) /\ Working(q) => r = q

\* A run that has not begun did nothing yet.
Fresh(r) == pc[r] = "ready" => called[r] = {} /\ \A k \in Payments : session[r][k] = "none"

\* A run answers nothing before it publishes.
Unanswering == {"ready", "opening", "running", "attempting", "calling", "answered", "applied", "committing"}
Unpublished(r) ==
    pc[r] \in Unanswering => \A k \in Steps : tree.value[k] # r /\ \A q \in Runs : before[q].value[k] # r

\* The journal j that run r holds at p is its own, and is where the run is.
Fits(r, j, p) ==
    /\ j.run = r
    /\ p = "opening" => j.status = "opening"
    /\ p \in {"running", "attempting", "calling", "answered", "applied"} => j.status = "running"
    /\ p = "committing" => j.status = "committing"
    /\ j.status = "committed" => p = "publishing"
    /\ p \in {"opening", "running", "applied", "committing"} =>
          \A k \in Steps : j.effect[k] \in {"none", "applied", "pending-review"}
    /\ p \in {"attempting", "calling", "answered"} =>
          /\ \A k \in Steps : j.effect[k] \in {"none", "attempting", "applied", "pending-review"}
          /\ \A i, k \in Steps : j.effect[i] = "attempting" /\ j.effect[k] = "attempting" => i = k

\* It has what the run called, and opened pages for.
Covers(j, p, made, pages) ==
    /\ \A k \in made : j.effect[k] # "none"
    /\ \A k \in Payments : pages[k] # "none" =>
          /\ j.effect[k] # "none"
          /\ p \in {"attempting", "calling"} => j.effect[k] # "attempting"

Journaled(r) ==
    Working(r) => Fits(r, held[r].journal, pc[r]) /\ Covers(held[r].journal, pc[r], called[r], session[r])

\* What a run published, and over which tree.
Publishing(r) ==
    pc[r] = "publishing" =>
        /\ held[r].journal = Marked(before[r], "committed").journal
        /\ before[r].journal.run = r /\ before[r].journal.status = "committing"
        /\ held[r].done
        /\ \A k \in Wrote(before[r], r) : before[r].write[r][k] = before[r].value[k]
        /\ \A k \in Steps : before[r].value[k] # r
        /\ \A k \in Steps : held[r].value[k] = r => k \in Wrote(before[r], r)
        /\ ~onDevice => held[r] = Published(before[r], r)

\* A run that may still save has the tree that is saved, but for what it saves next.
Synced(r) ==
    Working(r) =>
        /\ onDevice => held[r] = tree
        /\ ~onDevice /\ ~stale[r] =>
              /\ IF pc[r] = "publishing" THEN before[r] = tree
                 ELSE held[r].value = tree.value /\ held[r].done = tree.done
              /\ IF pc[r] = "opening" THEN tree.journal.status \in Rerunnable
                 ELSE tree.journal.run = r

RunInv(r) == Fresh(r) /\ Unpublished(r) /\ Journaled(r) /\ Publishing(r) /\ Synced(r)

EvaluationInv ==
    EvaluationTypeOK /\ RecordedBeforeCall /\ TreesSound /\ Alone /\ \A r \in Runs : RunInv(r)

-----------------------------------------------------------------------------
(* Types *)

\* A run whose save is answered, or not, keeps to its types.
SavesTyped == /\ pc' \in [Runs -> Points] /\ held' \in [Runs -> Trees] /\ before' \in [Runs -> Trees]
              /\ reworded' \in [Runs -> BOOLEAN] /\ tree' \in Trees /\ stale' \in [Runs -> BOOLEAN]

LEMMA AnsweredTyped ==
    ASSUME EvaluationTypeOK, NEW r \in Runs, NEW next \in Points, NEW t \in Trees,
           Answered(r, next, t) \/ Unanswered(r, next, t)
    PROVE  SavesTyped
  BY AnsweredMoves, UnansweredMoves, Gone DEF SavesTyped

\* A run does not change the host, and its steps keep to the types.
LEMMA RunTyped ==
    ASSUME EvaluationTypeOK, NEW r \in Runs, RunStep(r)
    PROVE  EvaluationTypeOK' /\ UNCHANGED <<onDevice, aged>>
<1> DEFINE Rest == /\ UNCHANGED <<onDevice, aged>>
                   /\ session' \in [Runs -> [Payments -> {"none", "open", "paid", "expired"}]]
                   /\ called' \in [Runs -> SUBSET Steps]
<1> USE NextTrees DEF Points, Statuses, Effects
<1>0. ASSUME UNCHANGED <<onDevice, aged, session, called>> PROVE Rest
  BY <1>0 DEF EvaluationTypeOK
<1>1. CASE evaluateNode(r)
  <2> DEFINE t == [tree EXCEPT !.journal = NoJournal(r, "opening")]
  <2>1. Go(r, "opening", t) /\ tree' \in Trees /\ stale' = stale
    BY <1>1 DEF evaluateNode
  <2> HIDE DEF t
  <2>2. SavesTyped
    BY <2>1, Gone, t \in Trees DEF t, SavesTyped, EvaluationTypeOK
  <2> QED
    BY <1>0, <1>1, <2>2 DEF evaluateNode, EvaluationTypeOK, SavesTyped
<1>2. CASE openSteps(r)
  BY <1>0, <1>2, AnsweredTyped DEF openSteps, EvaluationTypeOK, SavesTyped
<1>3. CASE attempt(r)
  BY <1>0, <1>3, AnsweredTyped DEF attempt, Unfilled, EvaluationTypeOK, SavesTyped
<1>4. CASE call(r)
  <2>1. SavesTyped
    BY <1>4, AnsweredTyped DEF call
  <2>2. called' \in [Runs -> SUBSET Steps]
    BY <1>4 DEF call, EvaluationTypeOK
  <2> QED
    BY <1>4, <2>1, <2>2 DEF call, EvaluationTypeOK, SavesTyped
<1>5. CASE runPrimitive(r)
  <2>1. PICK k \in Steps :
           LET t == IF Pays(k) THEN held[r] ELSE [held[r] EXCEPT !.write[r][k] = held[r].value[k]] IN
           /\ Go(r, "answered", t)
           /\ tree' = IF onDevice THEN t ELSE tree
           /\ session' = IF Pays(k) THEN Opened(r, k) ELSE session
    BY <1>5 DEF runPrimitive
  <2> DEFINE t == IF Pays(k) THEN held[r] ELSE [held[r] EXCEPT !.write[r][k] = held[r].value[k]]
  <2>2. t \in Trees
    OBVIOUS
  <2>3. Go(r, "answered", t) /\ tree' \in {t, tree} /\ session' \in {session, Opened(r, k)} /\ (session' = session \/ Pays(k))
    BY <2>1
  <2> HIDE DEF t
  <2>4. SavesTyped
    BY <1>5, <2>2, <2>3, Gone DEF SavesTyped, runPrimitive, EvaluationTypeOK
  <2>5. session' \in [Runs -> [Payments -> {"none", "open", "paid", "expired"}]]
    BY <2>3, OpenedPage DEF EvaluationTypeOK, Pays
  <2> QED
    BY <1>5, <2>4, <2>5 DEF runPrimitive, EvaluationTypeOK, SavesTyped
<1>6. CASE recordEffect(r)
  BY <1>0, <1>6, AnsweredTyped DEF recordEffect, EvaluationTypeOK, SavesTyped
<1>7. CASE conclude(r)
  BY <1>0, <1>7, AnsweredTyped DEF conclude, EvaluationTypeOK, SavesTyped
<1>8. CASE publish(r)
  BY <1>0, <1>8, AnsweredTyped DEF publish, EvaluationTypeOK, SavesTyped
<1>9. CASE return(r)
  BY <1>0, <1>9, AnsweredTyped DEF return, EvaluationTypeOK, SavesTyped
<1>10. CASE fail(r)
  BY <1>0, <1>10, AnsweredTyped DEF fail, EvaluationTypeOK, SavesTyped
<1>11. CASE failCall(r)
  <2>1. SavesTyped
    BY <1>11, Gone DEF failCall, SavesTyped, EvaluationTypeOK
  <2>2. session' \in [Runs -> [Payments -> {"none", "open", "paid", "expired"}]]
    BY <1>11, OpenedPage DEF failCall, EvaluationTypeOK, Pays
  <2> QED
    BY <1>11, <2>1, <2>2 DEF failCall, EvaluationTypeOK, SavesTyped
<1>12. CASE rollBack(r)
  BY <1>0, <1>12, AnsweredTyped DEF rollBack, EvaluationTypeOK, SavesTyped
<1>13. CASE giveUp(r)
  BY <1>0, <1>13, AnsweredTyped DEF giveUp, EvaluationTypeOK, SavesTyped
<1>14. CASE stop(r)
  <2>1. SavesTyped
    BY <1>14, Gone DEF stop, SavesTyped, EvaluationTypeOK
  <2> QED
    BY <1>0, <1>14, <2>1 DEF stop, EvaluationTypeOK, SavesTyped
<1> QED
  BY <1>1, <1>2, <1>3, <1>4, <1>5, <1>6, <1>7, <1>8, <1>9, <1>10, <1>11, <1>12, <1>13, <1>14 DEF RunStep

LEMMA StepTyped == EvaluationTypeOK /\ [EvaluationNext]_evalVars => EvaluationTypeOK'
<1> SUFFICES ASSUME EvaluationTypeOK, [EvaluationNext]_evalVars PROVE EvaluationTypeOK'
  OBVIOUS
<1>1. ASSUME NEW t \in Trees, Elsewhere(t), UNCHANGED session PROVE EvaluationTypeOK'
  BY <1>1, ElsewhereMoves DEF EvaluationTypeOK
<1>2. ASSUME NEW r \in Runs, RunStep(r) PROVE EvaluationTypeOK'
  BY <1>2, RunTyped
<1>3. ASSUME NEW r \in Runs, GrowOlder(r) \/ reword(r) PROVE EvaluationTypeOK'
  BY <1>3 DEF GrowOlder, reword, runVars, EvaluationTypeOK
<1>4. ASSUME NEW r \in Runs, NEW k \in Payments, PayPage(r, k) PROVE EvaluationTypeOK'
  BY <1>4 DEF PayPage, runVars, EvaluationTypeOK
<1>5. ASSUME NEW r \in Runs, NEW k \in Payments, settle(r, k) PROVE EvaluationTypeOK'
  <2>1. [tree EXCEPT !.value[k] = Grant] \in Trees
    BY ValueFields, EvaluationAssumption DEF EvaluationTypeOK, Fillings
  <2> QED
    BY <1>1, <1>5, <2>1 DEF settle
<1>6. ASSUME NEW k \in Steps, NEW v \in ByHand, fillByHand(k, v) PROVE EvaluationTypeOK'
  <2> DEFINE t == [tree EXCEPT !.value[k] = v]
  <2>1. t \in Trees
    BY ValueFields DEF EvaluationTypeOK, Fillings
  <2>2. CASE Elsewhere(t)
    BY <1>1, <1>6, <2>1, <2>2 DEF fillByHand
  <2>3. CASE ~Elsewhere(t)
    <3>1. /\ tree' = t /\ held' = [r \in Runs |-> IF Working(r) THEN t ELSE held[r]]
          /\ UNCHANGED <<onDevice, pc, before, stale, reworded, aged, called, session>>
      BY <1>6, <2>3 DEF fillByHand
    <3> HIDE DEF t
    <3>2. held' \in [Runs -> Trees]
      BY <2>1, <3>1 DEF EvaluationTypeOK
    <3> QED
      BY <2>1, <3>1, <3>2 DEF EvaluationTypeOK
  <2> QED
    BY <2>2, <2>3
<1>7. ASSUME NEW k \in Steps, doTask(k) PROVE EvaluationTypeOK'
  BY <1>1, <1>7, TaskFields DEF doTask, EvaluationTypeOK
<1>8. CASE recoverEvaluation
  <2>1. Reviewed(tree) \in Trees
    BY ReviewedFields DEF EvaluationTypeOK
  <2> QED
    BY <1>1, <1>8, <2>1 DEF recoverEvaluation, runVars, EvaluationTypeOK
<1>9. CASE UNCHANGED evalVars
  BY <1>9 DEF evalVars, runVars, EvaluationTypeOK
<1> QED
  BY <1>2, <1>3, <1>4, <1>5, <1>6, <1>7, <1>8, <1>9 DEF EvaluationNext

-----------------------------------------------------------------------------
(* The invariant at the start *)

LEMMA Distinct ==
    /\ Unmet # Grant /\ Unmet \notin Runs /\ Grant \notin Runs /\ NoRun \notin Runs
    /\ \A v \in ByHand : v # Unmet /\ v # Grant /\ v \notin Runs
  BY EvaluationAssumption

LEMMA PaymentsAreSteps == Payments \subseteq Steps
  BY EvaluationAssumption

LEMMA UnworkedSound ==
    ASSUME NEW paid, NEW device
    PROVE  Sound(Unworked, paid, device)
  BY UnworkedFields, Distinct, PaymentsAreSteps DEF Sound, Accounted, Honest, Filled

LEMMA EvaluationInvAtStart == EvaluationInit => EvaluationInv
<1> SUFFICES ASSUME EvaluationInit PROVE EvaluationInv
  OBVIOUS
<1>1. EvaluationTypeOK
  BY UnworkedFields DEF EvaluationInit, EvaluationTypeOK, Points
<1>2. RecordedBeforeCall
  BY DEF EvaluationInit, RecordedBeforeCall
<1>3. TreesSound
  BY UnworkedSound DEF EvaluationInit, TreesSound
<1>4. \A r \in Runs : ~Working(r)
  BY DEF EvaluationInit, Working
<1>5. ASSUME NEW r \in Runs PROVE RunInv(r)
  <2>1. Fresh(r)
    BY DEF EvaluationInit, Fresh
  <2>2. Unpublished(r)
    BY UnworkedFields, Distinct DEF EvaluationInit, Unpublished
  <2>3. Publishing(r)
    BY DEF EvaluationInit, Publishing
  <2> QED
    BY <1>4, <2>1, <2>2, <2>3 DEF RunInv, Journaled, Synced
<1> QED
  BY <1>1, <1>2, <1>3, <1>4, <1>5 DEF EvaluationInv, Alone

-----------------------------------------------------------------------------
(* A step of a run, as the others see it *)

\* More payments confirmed leave a tree sound.
LEMMA SoundGrows ==
    ASSUME NEW t, NEW paid, NEW more, NEW device, paid \subseteq more, Sound(t, paid, device)
    PROVE  Sound(t, more, device)
  BY DEF Sound, Honest

\* What the step of run r does to the saved tree and to the others.
Frame(r) ==
    /\ pc[r] # "over" /\ pc'[r] # "ready"
    /\ \A q \in Runs \ {r} : /\ pc'[q] = pc[q] /\ held'[q] = held[q] /\ before'[q] = before[q]
                             /\ called'[q] = called[q]
                             /\ \A k \in Payments : session'[q][k] = session[q][k]
    /\ onDevice => IF pc'[r] = "over" THEN tree' = tree \/ tree' = held[r] ELSE tree' = held'[r]
    /\ ~onDevice => \/ tree' = tree
                    \/ Working(r) /\ ~stale[r] /\ tree' = held[r]
    /\ ~onDevice => \A q \in Runs \ {r} : Working(q) /\ ~stale'[q] => ~stale[q] /\ tree' = tree
    /\ Paid \subseteq Paid'
    /\ pc[r] = "ready" => /\ pc'[r] = "opening" /\ tree'.value = tree.value /\ tree'.done = tree.done
                          /\ tree.journal.status \in Rerunnable
                          /\ onDevice => \A q \in Runs : ~Working(q)
    /\ called'[r] # called[r] => pc'[r] # "over" /\ tree' = held'[r]

LEMMA SaveFrame ==
    ASSUME EvaluationTypeOK, NEW r \in Runs, NEW next \in Points \ {"ready"}, NEW t \in Trees,
           Working(r), next = "over" => t = held[r],
           Answered(r, next, t) \/ Unanswered(r, next, t), UNCHANGED session,
           \A q \in Runs \ {r} : called'[q] = called[q],
           called'[r] # called[r] => next # "over" /\ t = held[r] /\ Answered(r, next, t)
    PROVE  Frame(r)
<1>1. Paid' = Paid
  BY DEF Paid
<1>2. /\ pc'[r] = next /\ held'[r] = IF next = "over" THEN Unworked ELSE t
      /\ \A q \in Runs \ {r} : pc'[q] = pc[q] /\ held'[q] = held[q] /\ before'[q] = before[q]
  BY AnsweredMoves, UnansweredMoves, Gone
<1>3. onDevice => tree' = t
  BY AnsweredMoves, UnansweredMoves
<1>4. ~onDevice => tree' = tree \/ (~stale[r] /\ tree' = held[r])
  BY AnsweredMoves, UnansweredMoves
<1>5. ~onDevice => \A q \in Runs \ {r} : Working(q) /\ ~stale'[q] => ~stale[q] /\ tree' = tree
  BY AnsweredMoves, UnansweredMoves
<1>6. called'[r] # called[r] => pc'[r] # "over" /\ tree' = held'[r]
  BY <1>2, AnsweredMoves
<1> QED
  BY <1>1, <1>2, <1>3, <1>4, <1>5, <1>6 DEF Frame, Working

\* A page is opened only for a requirement that has none of this run.
LEMMA OpensOnce ==
    ASSUME EvaluationInv, NEW r \in Runs, NEW k \in Payments, pc[r] = "calling", Attempting(r, k)
    PROVE  /\ session[r][k] = "none"
           /\ session' = Opened(r, k) => Paid \subseteq Paid'
<1>1. session[r][k] = "none"
  BY DEF EvaluationInv, RunInv, Journaled, Working, Covers, Attempting
<1>2. ASSUME session' = Opened(r, k) PROVE Paid \subseteq Paid'
  <2> SUFFICES ASSUME NEW j \in Paid PROVE j \in Paid'
    OBVIOUS
  <2>1. PICK q \in Runs : session[q][j] = "paid"
    BY DEF Paid
  <2>2. j \in Payments /\ (q # r \/ j # k)
    BY <1>1, <2>1 DEF Paid
  <2>3. session'[q][j] = "paid"
    BY <1>2, <2>1, <2>2, OpenedPage DEF EvaluationInv
  <2> QED
    BY <2>2, <2>3 DEF Paid
<1> QED
  BY <1>1, <1>2

LEMMA RunFrame ==
    ASSUME EvaluationInv, NEW r \in Runs, RunStep(r)
    PROVE  Frame(r)
<1> USE NextTrees DEF Points, Statuses, Effects
<1>0. EvaluationTypeOK
  BY DEF EvaluationInv
<1>1. CASE evaluateNode(r)
  <2> DEFINE t == [tree EXCEPT !.journal = NoJournal(r, "opening")]
  <2>1. /\ Go(r, "opening", t) /\ stale' = stale /\ pc[r] = "ready"
        /\ tree.journal.status \in Rerunnable
        /\ tree' = IF onDevice THEN t ELSE tree
        /\ UNCHANGED <<session, called>>
        /\ \A q \in Runs : Working(q) => ~onDevice
    BY <1>1 DEF evaluateNode
  <2>2. t \in Trees /\ t.value = tree.value /\ t.done = tree.done
    BY <1>0, NoJournalType, JournalFields
  <2> HIDE DEF t
  <2>3. /\ pc'[r] = "opening" /\ held'[r] = t
        /\ \A q \in Runs \ {r} : pc'[q] = pc[q] /\ held'[q] = held[q] /\ before'[q] = before[q]
    BY <1>0, <2>1, <2>2, Gone
  <2>4. Paid' = Paid
    BY <2>1 DEF Paid
  <2>5. tree'.value = tree.value /\ tree'.done = tree.done
    BY <2>1, <2>2
  <2> QED
    BY <2>1, <2>3, <2>4, <2>5 DEF Frame
<1>2. CASE openSteps(r)
  <2>1. Working(r) /\ Answered(r, "running", Marked(held[r], "running")) /\ UNCHANGED <<session, called>>
    BY <1>2 DEF openSteps, Working
  <2>2. Marked(held[r], "running") \in Trees
    BY <1>0
  <2> QED
    BY <1>0, <2>1, <2>2, SaveFrame
<1>3. CASE attempt(r)
  <2>1. PICK k \in Steps : Answered(r, "attempting", [held[r] EXCEPT !.journal.effect[k] = "attempting"])
    BY <1>3 DEF attempt, Unfilled
  <2>2. Working(r) /\ UNCHANGED <<session, called>>
    BY <1>3 DEF attempt, Working
  <2>3. [held[r] EXCEPT !.journal.effect[k] = "attempting"] \in Trees
    BY <1>0
  <2> QED
    BY <1>0, <2>1, <2>2, <2>3, SaveFrame
<1>4. CASE call(r)
  <2>1. \A q \in Runs \ {r} : called'[q] = called[q]
    BY <1>0, <1>4 DEF call, EvaluationTypeOK
  <2> QED
    BY <1>0, <1>4, <2>1, SaveFrame DEF call, Working
<1>5. CASE runPrimitive(r)
  <2>1. PICK k \in Steps :
           /\ Attempting(r, k)
           /\ LET t == IF Pays(k) THEN held[r] ELSE [held[r] EXCEPT !.write[r][k] = held[r].value[k]] IN
              /\ Go(r, "answered", t)
              /\ tree' = IF onDevice THEN t ELSE tree
           /\ session' = IF Pays(k) THEN Opened(r, k) ELSE session
    BY <1>5 DEF runPrimitive
  <2> DEFINE t == IF Pays(k) THEN held[r] ELSE [held[r] EXCEPT !.write[r][k] = held[r].value[k]]
  <2>2. t \in Trees
    BY <1>0
  <2>3. Go(r, "answered", t) /\ tree' = IF onDevice THEN t ELSE tree
    BY <2>1
  <2> HIDE DEF t
  <2>4. /\ pc'[r] = "answered" /\ held'[r] = t /\ pc[r] = "calling" /\ stale' = stale /\ called' = called
        /\ \A q \in Runs \ {r} : pc'[q] = pc[q] /\ held'[q] = held[q] /\ before'[q] = before[q]
    BY <1>0, <1>5, <2>2, <2>3, Gone DEF runPrimitive
  <2>5. /\ Paid \subseteq Paid'
        /\ \A q \in Runs \ {r} : \A j \in Payments : session'[q][j] = session[q][j]
    <3>1. CASE Pays(k)
      BY <1>0, <2>1, <2>4, <3>1, OpensOnce, OpenedPage DEF Pays
    <3>2. CASE ~Pays(k)
      BY <2>1, <3>2 DEF Paid
    <3> QED
      BY <3>1, <3>2
  <2> QED
    BY <2>3, <2>4, <2>5 DEF Frame, Working
<1>6. CASE recordEffect(r)
  <2>1. PICK k \in Steps, e \in Effects :
           Answered(r, "applied", [held[r] EXCEPT !.journal.effect[k] = e])
    BY <1>6 DEF recordEffect
  <2>2. Working(r) /\ UNCHANGED <<session, called>>
    BY <1>6 DEF recordEffect, Working
  <2>3. [held[r] EXCEPT !.journal.effect[k] = e] \in Trees
    BY <1>0
  <2> QED
    BY <1>0, <2>1, <2>2, <2>3, SaveFrame
<1>7. CASE conclude(r)
  <2>1. PICK next \in {"awaiting", "committing"}, s \in Statuses : Answered(r, next, Marked(held[r], s))
    BY <1>7 DEF conclude
  <2>2. Working(r) /\ UNCHANGED <<session, called>>
    BY <1>7 DEF conclude, Working
  <2>3. Marked(held[r], s) \in Trees
    BY <1>0
  <2> QED
    BY <1>0, <2>1, <2>2, <2>3, SaveFrame
<1>8. CASE publish(r)
  <2>1. Working(r) /\ Answered(r, "publishing", Published(held[r], r)) /\ UNCHANGED <<session, called>>
    BY <1>8 DEF publish, Working
  <2>2. Published(held[r], r) \in Trees
    BY <1>0
  <2> QED
    BY <1>0, <2>1, <2>2, SaveFrame
<1>9. CASE return(r)
  BY <1>0, <1>9, SaveFrame DEF return, Working
<1>10. CASE fail(r)
  BY <1>0, <1>10, SaveFrame DEF fail, Working
<1>11. CASE failCall(r)
  <2>1. /\ pc[r] = "calling" /\ stale' = stale /\ called' = called
        /\ tree' = IF onDevice THEN Discarded(r) ELSE tree
        /\ pc'[r] = "discarding" /\ held'[r] = Discarded(r)
        /\ \A q \in Runs \ {r} : pc'[q] = pc[q] /\ held'[q] = held[q] /\ before'[q] = before[q]
    BY <1>0, <1>11, Gone DEF failCall
  <2>2. session' = session \/ \E k \in Payments : Attempting(r, k) /\ session' = Opened(r, k)
    BY <1>11 DEF failCall, Pays
  <2>3. /\ Paid \subseteq Paid'
        /\ \A q \in Runs \ {r} : \A j \in Payments : session'[q][j] = session[q][j]
    <3>1. CASE session' = session
      BY <3>1 DEF Paid
    <3> QED
      BY <1>0, <2>1, <2>2, <3>1, OpensOnce, OpenedPage
  <2> QED
    BY <2>1, <2>3 DEF Frame, Working
<1>12. CASE rollBack(r)
  <2>1. Answered(r, "closing", RolledBack(held[r])) \/ Unanswered(r, "closing", RolledBack(held[r]))
    BY <1>12 DEF rollBack
  <2>2. Working(r) /\ UNCHANGED <<session, called>>
    BY <1>12 DEF rollBack, Working
  <2>3. RolledBack(held[r]) \in Trees
    BY <1>0
  <2> QED
    BY <1>0, <2>1, <2>2, <2>3, SaveFrame
<1>13. CASE giveUp(r)
  BY <1>0, <1>13, SaveFrame DEF giveUp, Working
<1>14. CASE stop(r)
  <2>1. /\ pc'[r] = "over" /\ stale' = [stale EXCEPT ![r] = FALSE] /\ Working(r)
        /\ UNCHANGED <<tree, session, called>>
        /\ \A q \in Runs \ {r} : pc'[q] = pc[q] /\ held'[q] = held[q] /\ before'[q] = before[q]
    BY <1>0, <1>14, Gone DEF stop
  <2>2. \A q \in Runs \ {r} : stale'[q] <=> stale[q]
    BY <1>0, <2>1 DEF EvaluationTypeOK
  <2>3. Paid' = Paid
    BY <2>1 DEF Paid
  <2> QED
    BY <2>1, <2>2, <2>3 DEF Frame, Working
<1> QED
  BY <1>1, <1>2, <1>3, <1>4, <1>5, <1>6, <1>7, <1>8, <1>9, <1>10, <1>11, <1>12, <1>13, <1>14 DEF RunStep

\* What a run that may still save has for values.
LEMMA HeldValues ==
    ASSUME EvaluationInv, NEW r \in Runs, Working(r), onDevice \/ ~stale[r]
    PROVE  /\ pc[r] # "publishing" => held[r].value = tree.value /\ held[r].done = tree.done
           /\ pc[r] = "publishing" /\ ~onDevice =>
                 /\ before[r] = tree /\ held[r] = Published(tree, r)
                 /\ \A k \in Steps : held[r].value[k] \in {r, tree.value[k]}
<1>1. RunInv(r) /\ tree \in Trees
  BY DEF EvaluationInv, EvaluationTypeOK
<1>2. ASSUME pc[r] = "publishing", ~onDevice
      PROVE  before[r] = tree /\ held[r] = Published(tree, r)
  BY <1>1, <1>2 DEF RunInv, Synced, Publishing
<1>3. ASSUME NEW k \in Steps PROVE Published(tree, r).value[k] \in {r, tree.value[k]}
  <2>1. tree \in Trees
    BY <1>1
  <2> QED
    BY <2>1, PublishedValues
<1>4. pc[r] # "publishing" => held[r].value = tree.value /\ held[r].done = tree.done
  BY <1>1 DEF RunInv, Synced
<1> QED
  BY <1>2, <1>3, <1>4

-----------------------------------------------------------------------------
(* A step of a run, as it sees itself *)

\* What the step of run r leaves of its own.
OwnStep(r) ==
    /\ RunInv(r)'
    /\ Sound(held'[r], Paid', onDevice) /\ Sound(before'[r], Paid', onDevice)
    /\ \A k \in Steps : before'[r].value[k] \in {tree.value[k], Unmet}
    /\ Working(r) /\ pc[r] # "publishing" /\ pc'[r] \notin {"over", "publishing"} =>
          held'[r].value = held[r].value /\ held'[r].done = held[r].done
    /\ pc'[r] = "publishing" => Working(r) /\ before'[r] = held[r] /\ held'[r] = Published(held[r], r)
    /\ pc[r] = "publishing" /\ pc'[r] # "over" =>
          \A k \in Steps : held'[r].value[k] = IF held[r].value[k] = Published(before[r], r).value[k]
                                               THEN before[r].value[k] ELSE held[r].value[k]

\* Trees with the same values are as honest, and as filled.
LEMMA SoundLike ==
    ASSUME NEW t, NEW u, NEW paid, NEW more, NEW device, Sound(t, paid, device), paid \subseteq more,
           u.value = t.value, u.done = t.done, Accounted(u.journal),
           \A q \in Runs, k \in Payments : ~device => u.write[q][k] \in {NoRun, t.write[q][k]}
    PROVE  Sound(u, more, device)
<1>1. Filled(u)
  BY DEF Sound, Filled
<1>2. Honest(u, more, device)
  BY DEF Sound, Honest
<1> QED
  BY <1>1, <1>2 DEF Sound

\* A run that is over holds nothing.
LEMMA OverStep ==
    ASSUME EvaluationInv, NEW r \in Runs, NEW t \in Trees, Go(r, "over", t), Frame(r), pc[r] # "ready"
    PROVE  OwnStep(r)
<1>1. pc'[r] = "over" /\ held'[r] = Unworked /\ before'[r] = Unworked
  BY Gone DEF Points, EvaluationInv
<1>2. Sound(held'[r], Paid', onDevice) /\ Sound(before'[r], Paid', onDevice)
  BY <1>1, UnworkedSound
<1>3. RunInv(r)'
  BY <1>1 DEF RunInv, Fresh, Unpublished, Unanswering, Journaled, Publishing, Synced, Working
<1> QED
  BY <1>1, <1>2, <1>3, UnworkedFields DEF OwnStep

\* A step that leaves the values alone.
LEMMA PlainStep ==
    ASSUME EvaluationInv, NEW r \in Runs, Frame(r), onDevice' = onDevice,
           NEW next \in Points \ {"ready", "opening", "publishing", "over"}, NEW t \in Trees,
           Working(r), pc[r] # "publishing", Go(r, next, t),
           next \in Unanswering => pc[r] \in Unanswering,
           ~onDevice => /\ tree' = held[r] \/ (tree' = tree /\ pc[r] # "opening")
                        /\ ~stale'[r] => ~stale[r],
           t.value = held[r].value, t.done = held[r].done,
           Fits(r, t.journal, next), Covers(t.journal, next, called'[r], session'[r]),
           Sound(t, Paid', onDevice)
    PROVE  OwnStep(r)
<1>1. /\ pc'[r] = next /\ held'[r] = t /\ before'[r] = Unworked
      /\ \A q \in Runs \ {r} : before'[q] = before[q]
  BY Gone DEF EvaluationInv
<1>2. RunInv(r)
  BY DEF EvaluationInv
<1>3. Fresh(r)' /\ Publishing(r)'
  BY <1>1 DEF Fresh, Publishing
<1>4. Journaled(r)'
  BY <1>1 DEF Journaled
<1>5. onDevice \/ ~stale[r] => held[r].value = tree.value /\ held[r].done = tree.done
  BY HeldValues
<1>6. Unpublished(r)'
  <2> SUFFICES ASSUME next \in Unanswering, NEW k \in Steps
               PROVE  tree'.value[k] # r /\ \A q \in Runs : before'[q].value[k] # r
    BY <1>1 DEF Unpublished
  <2>1. tree.value[k] # r /\ \A q \in Runs : before[q].value[k] # r
    BY <1>2 DEF RunInv, Unpublished
  <2>2. tree'.value[k] = tree.value[k]
    BY <1>1, <1>5 DEF Frame
  <2> QED
    BY <1>1, <2>1, <2>2, UnworkedFields, Distinct
<1>7. Synced(r)'
  <2>1. Working(r)'
    BY <1>1 DEF Working
  <2>2. onDevice => held'[r] = tree'
    BY <1>1 DEF Frame
  <2>3. ASSUME ~onDevice, ~stale'[r]
        PROVE  held'[r].value = tree'.value /\ held'[r].done = tree'.done /\ tree'.journal.run = r
    <3>1. tree' = held[r] \/ (tree' = tree /\ pc[r] # "opening")
      BY <2>3
    <3>2. ~stale[r]
      BY <2>3
    <3>3. held[r].journal.run = r
      BY <1>2 DEF RunInv, Journaled, Fits
    <3>4. pc[r] # "opening" => tree.journal.run = r
      BY <1>2, <2>3, <3>2 DEF RunInv, Synced
    <3> QED
      BY <1>1, <1>5, <3>1, <3>2, <3>3, <3>4
  <2> QED
    BY <1>1, <2>1, <2>2, <2>3 DEF Synced
<1>8. RunInv(r)'
  BY <1>3, <1>4, <1>6, <1>7 DEF RunInv
<1>9. Sound(held'[r], Paid', onDevice) /\ Sound(before'[r], Paid', onDevice)
  BY <1>1, UnworkedSound
<1> QED
  BY <1>1, <1>8, <1>9, UnworkedFields DEF OwnStep

\* The same of a save, answered or not.
LEMMA SaveStep ==
    ASSUME EvaluationInv, NEW r \in Runs, Frame(r), onDevice' = onDevice,
           NEW next \in Points \ {"ready", "opening", "publishing", "over"}, NEW t \in Trees,
           Working(r), pc[r] # "publishing",
           Answered(r, next, t) \/ (pc[r] # "opening" /\ Unanswered(r, next, t)),
           next \in Unanswering => pc[r] \in Unanswering,
           t.value = held[r].value, t.done = held[r].done,
           Fits(r, t.journal, next), Covers(t.journal, next, called'[r], session'[r]),
           Sound(t, Paid', onDevice)
    PROVE  OwnStep(r)
<1>1. EvaluationTypeOK
  BY DEF EvaluationInv
<1>2. Go(r, next, t)
  BY <1>1, AnsweredMoves, UnansweredMoves
<1>3. ~onDevice => /\ tree' = held[r] \/ (tree' = tree /\ pc[r] # "opening")
                   /\ ~stale'[r] => ~stale[r]
  BY <1>1, AnsweredMoves, UnansweredMoves
<1> QED
  BY <1>2, <1>3, PlainStep

\* What a working run holds.
LEMMA Holding ==
    ASSUME EvaluationInv, NEW r \in Runs
    PROVE  /\ EvaluationTypeOK /\ held[r] \in Trees /\ before[r] \in Trees /\ tree \in Trees
           /\ Working(r) => Fits(r, held[r].journal, pc[r])
           /\ Working(r) => Covers(held[r].journal, pc[r], called[r], session[r])
           /\ Sound(held[r], Paid, onDevice)
           /\ Sound(before[r], Paid, onDevice)
           /\ Sound(tree, Paid, onDevice)
  BY DEF EvaluationInv, RunInv, Journaled, TreesSound, EvaluationTypeOK

LEMMA OpenStepsOwn ==
    ASSUME EvaluationInv, NEW r \in Runs, openSteps(r), Frame(r)
    PROVE  OwnStep(r)
<1> DEFINE t == Marked(held[r], "running")
<1>1. /\ Answered(r, "running", t) /\ Working(r) /\ pc[r] = "opening"
      /\ UNCHANGED <<onDevice, session, called>>
  BY DEF openSteps, Working
<1>2. /\ t \in Trees /\ t.journal.run = held[r].journal.run /\ t.journal.status = "running"
      /\ t.journal.effect = held[r].journal.effect
      /\ t.value = held[r].value /\ t.done = held[r].done /\ t.write = held[r].write
  BY Holding, MarkedFields DEF Statuses
<1> HIDE DEF t
<1>3. Fits(r, t.journal, "running")
  BY <1>1, <1>2, Holding DEF Fits
<1>4. Covers(t.journal, "running", called'[r], session'[r])
  BY <1>1, <1>2, Holding DEF Covers
<1>5. Accounted(t.journal)
  BY <1>2 DEF Accounted, Rerunnable
<1>6. Sound(t, Paid', onDevice)
  BY <1>2, <1>5, Holding, SoundLike DEF Frame
<1> QED
  BY <1>1, <1>2, <1>3, <1>4, <1>6, SaveStep DEF Points, Unanswering

LEMMA AttemptOwn ==
    ASSUME EvaluationInv, NEW r \in Runs, attempt(r), Frame(r)
    PROVE  OwnStep(r)
<1>1. PICK k \in Unfilled(r) : Answered(r, "attempting", [held[r] EXCEPT !.journal.effect[k] = "attempting"])
  BY DEF attempt
<1> DEFINE t == [held[r] EXCEPT !.journal.effect[k] = "attempting"]
<1>2. /\ Working(r) /\ pc[r] \in {"running", "applied"} /\ Answered(r, "attempting", t)
      /\ t = [held[r] EXCEPT !.journal.effect[k] = "attempting"]
      /\ UNCHANGED <<onDevice, session, called>>
  BY <1>1 DEF attempt, Working
<1> HIDE DEF t
<1>3. k \in Steps /\ held[r].journal.effect[k] = "none" /\ "attempting" \in Effects
  BY EvaluationAssumption DEF Unfilled, Steps, Effects
<1>4. /\ t \in Trees /\ t.journal.run = held[r].journal.run /\ t.journal.status = held[r].journal.status
      /\ t.journal.effect[k] = "attempting"
      /\ \A j \in Steps \ {k} : t.journal.effect[j] = held[r].journal.effect[j]
      /\ t.value = held[r].value /\ t.done = held[r].done /\ t.write = held[r].write
  <2>1. held[r] \in Trees
    BY Holding
  <2> QED
    BY <1>2, <1>3, <2>1, EffectFields
<1>5. Fits(r, t.journal, "attempting")
  BY <1>2, <1>3, <1>4, Holding DEF Fits
<1>6. Covers(t.journal, "attempting", called'[r], session'[r])
  <2>1. Covers(held[r].journal, pc[r], called[r], session[r]) /\ called[r] \subseteq Steps
    BY <1>2, Holding DEF EvaluationTypeOK
  <2>2. called'[r] = called[r] /\ session'[r] = session[r]
    BY <1>2
  <2>3. \A j \in called[r] : t.journal.effect[j] # "none"
    BY <1>3, <1>4, <2>1 DEF Covers
  <2>4. ASSUME NEW j \in Payments, session[r][j] # "none"
        PROVE  t.journal.effect[j] # "none" /\ t.journal.effect[j] # "attempting"
    <3>1. held[r].journal.effect[j] # "none" /\ j \in Steps \ {k}
      BY <1>3, <2>1, <2>4, PaymentsAreSteps DEF Covers
    <3>2. held[r].journal.effect[j] # "attempting"
      BY <1>2, <3>1, Holding DEF Fits
    <3> QED
      BY <1>4, <3>1, <3>2
  <2> QED
    BY <2>2, <2>3, <2>4 DEF Covers
<1>7. Accounted(t.journal)
  BY <1>2, <1>5 DEF Accounted, Rerunnable, Fits
<1>8. Sound(t, Paid', onDevice)
  BY <1>4, <1>7, Holding, SoundLike DEF Frame
<1> QED
  BY <1>2, <1>4, <1>5, <1>6, <1>8, SaveStep DEF Points, Unanswering

LEMMA CallOwn ==
    ASSUME EvaluationInv, NEW r \in Runs, call(r), Frame(r)
    PROVE  OwnStep(r)
<1>1. /\ Answered(r, "calling", held[r]) /\ Working(r) /\ pc[r] = "attempting"
      /\ UNCHANGED <<onDevice, session>>
      /\ called'[r] = called[r] \cup {k \in Steps : Attempting(r, k)}
  BY Holding DEF call, Working, EvaluationTypeOK
<1>2. Fits(r, held[r].journal, "calling")
  BY <1>1, Holding DEF Fits
<1>3. Covers(held[r].journal, "calling", called'[r], session'[r])
  BY <1>1, Holding DEF Covers, Attempting
<1>4. Sound(held[r], Paid', onDevice)
  BY Holding, SoundGrows DEF Frame
<1> QED
  BY <1>1, <1>2, <1>3, <1>4, Holding, SaveStep DEF Points, Unanswering

LEMMA PrimitiveOwn ==
    ASSUME EvaluationInv, NEW r \in Runs, runPrimitive(r), Frame(r)
    PROVE  OwnStep(r)
<1>1. PICK k \in Steps :
         /\ Attempting(r, k)
         /\ LET t == IF Pays(k) THEN held[r] ELSE [held[r] EXCEPT !.write[r][k] = held[r].value[k]] IN
            /\ Go(r, "answered", t)
            /\ tree' = IF onDevice THEN t ELSE tree
         /\ session' = IF Pays(k) THEN Opened(r, k) ELSE session
  BY DEF runPrimitive
<1> DEFINE t == IF Pays(k) THEN held[r] ELSE [held[r] EXCEPT !.write[r][k] = held[r].value[k]]
<1>2. /\ Go(r, "answered", t) /\ Working(r) /\ pc[r] = "calling"
      /\ (onDevice => tree' = t) /\ (~onDevice => tree' = tree)
      /\ UNCHANGED <<onDevice, called, stale>>
  BY <1>1 DEF runPrimitive, Working
<1>3. held[r].value[k] \in Fillings
  BY Holding, TreeParts
<1>4. /\ t \in Trees /\ t.journal = held[r].journal
      /\ t.value = held[r].value /\ t.done = held[r].done
      /\ \A q \in Runs, j \in Steps : t.write[q][j] # held[r].write[q][j] => j = k /\ ~Pays(k)
  <2>1. CASE Pays(k)
    BY <2>1, Holding
  <2>2. CASE ~Pays(k)
    BY <1>3, <2>2, Holding, WriteFields
  <2> QED
    BY <2>1, <2>2
<1> HIDE DEF t
<1>5. Fits(r, t.journal, "answered")
  BY <1>2, <1>4, Holding DEF Fits
<1>6. Covers(t.journal, "answered", called'[r], session'[r])
  <2>1. \A j \in Payments : session'[r][j] = session[r][j] \/ j = k
    <3>1. CASE Pays(k)
      BY <1>1, <3>1, OpenedPage, Holding DEF Pays
    <3>2. CASE ~Pays(k)
      BY <1>1, <3>2
    <3> QED
      BY <3>1, <3>2
  <2>2. held[r].journal.effect[k] = "attempting"
    BY <1>1 DEF Attempting
  <2> QED
    BY <1>2, <1>4, <2>1, <2>2, Holding DEF Covers
<1>7. Accounted(t.journal)
  BY <1>5 DEF Accounted, Rerunnable, Fits
<1>8. Sound(t, Paid', onDevice)
  BY <1>4, <1>7, Holding, SoundLike, PaymentsAreSteps DEF Frame, Pays
<1> QED
  BY <1>2, <1>4, <1>5, <1>6, <1>8, PlainStep DEF Points, Unanswering

LEMMA RecordOwn ==
    ASSUME EvaluationInv, NEW r \in Runs, recordEffect(r), Frame(r)
    PROVE  OwnStep(r)
<1>1. PICK k \in Steps, e \in {"applied", "pending-review"} :
         Attempting(r, k) /\ Answered(r, "applied", [held[r] EXCEPT !.journal.effect[k] = e])
  BY DEF recordEffect
<1> DEFINE t == [held[r] EXCEPT !.journal.effect[k] = e]
<1>2. /\ Working(r) /\ pc[r] = "answered" /\ Answered(r, "applied", t)
      /\ UNCHANGED <<onDevice, session, called>>
  BY <1>1 DEF recordEffect, Working
<1>3. held[r].journal.effect[k] = "attempting" /\ e \in Effects /\ held[r] \in Trees
  BY <1>1, Holding DEF Attempting, Effects
<1>4. /\ t \in Trees /\ t.journal.run = held[r].journal.run /\ t.journal.status = held[r].journal.status
      /\ t.journal.effect[k] = e
      /\ \A j \in Steps \ {k} : t.journal.effect[j] = held[r].journal.effect[j]
      /\ t.value = held[r].value /\ t.done = held[r].done /\ t.write = held[r].write
  BY <1>3, EffectFields
<1> HIDE DEF t
<1>5. Fits(r, held[r].journal, "answered")
  BY <1>2, Holding
<1>6. \A j \in Steps : t.journal.effect[j] \in {"none", "applied", "pending-review"}
  <2>1. ASSUME NEW j \in Steps \ {k}
        PROVE  held[r].journal.effect[j] \in {"none", "applied", "pending-review"}
    BY <1>3, <1>5 DEF Fits
  <2> QED
    BY <1>4, <2>1
<1>7. Fits(r, t.journal, "applied")
  BY <1>4, <1>5, <1>6 DEF Fits
<1>8. Covers(t.journal, "applied", called'[r], session'[r])
  <2>1. Covers(held[r].journal, pc[r], called[r], session[r]) /\ called[r] \subseteq Steps
    BY <1>2, Holding DEF EvaluationTypeOK
  <2>2. ASSUME NEW j \in Steps, held[r].journal.effect[j] # "none" PROVE t.journal.effect[j] # "none"
    BY <1>4, <2>2
  <2> QED
    BY <1>2, <2>1, <2>2, PaymentsAreSteps DEF Covers
<1>9. Sound(t, Paid', onDevice)
  <2>1. Accounted(t.journal)
    BY <1>6 DEF Accounted
  <2> QED
    BY <1>4, <2>1, Holding, SoundLike DEF Frame
<1> QED
  BY <1>2, <1>4, <1>7, <1>8, <1>9, SaveStep DEF Points, Unanswering

LEMMA ConcludeOwn ==
    ASSUME EvaluationInv, NEW r \in Runs, conclude(r), Frame(r)
    PROVE  OwnStep(r)
<1>1. PICK next \in {"awaiting", "committing"}, s \in Statuses :
         /\ next = "awaiting" => s = "awaiting-review"
         /\ next = "committing" => s = "committing"
         /\ Answered(r, next, Marked(held[r], s))
  BY DEF conclude, Statuses
<1> DEFINE t == Marked(held[r], s)
<1>2. /\ Working(r) /\ pc[r] \in {"running", "applied"} /\ Answered(r, next, t)
      /\ UNCHANGED <<onDevice, session, called>>
  BY <1>1 DEF conclude, Working
<1>3. /\ t \in Trees /\ t.journal.run = held[r].journal.run /\ t.journal.status = s
      /\ t.journal.effect = held[r].journal.effect
      /\ t.value = held[r].value /\ t.done = held[r].done /\ t.write = held[r].write
  BY Holding, MarkedFields
<1> HIDE DEF t
<1>4. Fits(r, t.journal, next)
  BY <1>1, <1>2, <1>3, Holding DEF Fits
<1>5. Covers(t.journal, next, called'[r], session'[r])
  BY <1>2, <1>3, Holding DEF Covers
<1>6. Accounted(t.journal)
  BY <1>2, <1>3, Holding DEF Accounted, Fits
<1>7. Sound(t, Paid', onDevice)
  BY <1>3, <1>6, Holding, SoundLike DEF Frame
<1> QED
  BY <1>2, <1>3, <1>4, <1>5, <1>7, SaveStep DEF Points, Unanswering

\* A run that fails before it publishes drops its writes, and keeps its journal.
LEMMA DiscardedJournal ==
    ASSUME EvaluationInv, NEW r \in Runs, Working(r), pc[r] # "publishing", Paid \subseteq Paid'
    PROVE  /\ Discarded(r) \in Trees /\ Discarded(r).journal = held[r].journal
           /\ Discarded(r).value = held[r].value /\ Discarded(r).done = held[r].done
           /\ Fits(r, Discarded(r).journal, "discarding")
           /\ Sound(Discarded(r), Paid', onDevice)
<1>1. /\ Discarded(r) \in Trees /\ Discarded(r).journal = held[r].journal
      /\ Discarded(r).value = held[r].value /\ Discarded(r).done = held[r].done
      /\ \A q \in Runs, k \in Steps : Discarded(r).write[q][k] = IF q = r THEN NoRun ELSE held[r].write[q][k]
  BY Holding, DiscardedFields
<1>2. Fits(r, Discarded(r).journal, "discarding")
  BY <1>1, Holding DEF Fits
<1>3. Accounted(Discarded(r).journal)
  BY <1>1, Holding DEF Sound
<1>4. Sound(Discarded(r), Paid', onDevice)
  BY <1>1, <1>3, Holding, SoundLike, PaymentsAreSteps
<1> QED
  BY <1>1, <1>2, <1>4

LEMMA FailCallOwn ==
    ASSUME EvaluationInv, NEW r \in Runs, failCall(r), Frame(r)
    PROVE  OwnStep(r)
<1>1. /\ Go(r, "discarding", Discarded(r)) /\ Working(r) /\ pc[r] = "calling"
      /\ tree' = IF onDevice THEN Discarded(r) ELSE tree
      /\ UNCHANGED <<onDevice, called, stale>>
  BY DEF failCall, Working
<1>2. /\ Discarded(r) \in Trees /\ Discarded(r).journal = held[r].journal
      /\ Discarded(r).value = held[r].value /\ Discarded(r).done = held[r].done
      /\ Fits(r, Discarded(r).journal, "discarding")
      /\ Sound(Discarded(r), Paid', onDevice)
  BY <1>1, DiscardedJournal DEF Frame
<1>3. Covers(Discarded(r).journal, "discarding", called'[r], session'[r])
  <2>1. ASSUME NEW j \in Payments, session'[r][j] # session[r][j]
        PROVE  held[r].journal.effect[j] = "attempting"
    <3>1. PICK k \in Payments : Attempting(r, k) /\ session' = Opened(r, k)
      BY <2>1 DEF failCall, Pays
    <3>2. j = k
      BY <2>1, <3>1, OpenedPage, Holding
    <3> QED
      BY <3>1, <3>2 DEF Attempting
  <2> QED
    BY <1>1, <1>2, <2>1, Holding DEF Covers
<1> QED
  BY <1>1, <1>2, <1>3, PlainStep DEF Points, Unanswering

LEMMA RollBackOwn ==
    ASSUME EvaluationInv, NEW r \in Runs, rollBack(r), Frame(r)
    PROVE  OwnStep(r)
<1> DEFINE t == RolledBack(held[r])
<1>1. /\ Working(r) /\ pc[r] = "discarding"
      /\ Answered(r, "closing", t) \/ Unanswered(r, "closing", t)
      /\ UNCHANGED <<onDevice, session, called>>
  BY DEF rollBack, Working
<1>2. /\ t \in Trees /\ t.journal.run = held[r].journal.run /\ t.journal.status = "rolled-back"
      /\ \A k \in Steps : t.journal.effect[k] = IF held[r].journal.effect[k] = "none" THEN "none" ELSE "reverted"
      /\ t.value = held[r].value /\ t.done = held[r].done /\ t.write = held[r].write
  BY Holding, RolledBackFields
<1> HIDE DEF t
<1>3. Fits(r, t.journal, "closing")
  BY <1>1, <1>2, Holding DEF Fits
<1>4. Covers(t.journal, "closing", called'[r], session'[r])
  <2>1. Covers(held[r].journal, pc[r], called[r], session[r]) /\ called[r] \subseteq Steps
    BY <1>1, Holding DEF EvaluationTypeOK
  <2> QED
    BY <1>1, <1>2, <2>1, PaymentsAreSteps DEF Covers
<1>5. Accounted(t.journal)
  BY <1>2 DEF Accounted
<1>6. Sound(t, Paid', onDevice)
  BY <1>2, <1>5, Holding, SoundLike DEF Frame
<1> QED
  BY <1>1, <1>2, <1>3, <1>4, <1>6, SaveStep DEF Points, Unanswering

\* A completion that was not saved is taken back: the run has its answers, and
\* nobody else's, no more.
LEMMA UnpublishOwn ==
    ASSUME EvaluationInv, NEW r \in Runs, pc[r] = "publishing", Frame(r),
           Unanswered(r, "discarding", Discarded(r)), UNCHANGED <<onDevice, session, called>>
    PROVE  OwnStep(r)
<1> DEFINE t == Discarded(r)
<1>1. /\ t \in Trees /\ t.journal = before[r].journal /\ t.done = before[r].done
      /\ \A k \in Steps : t.value[k] = IF held[r].value[k] = Published(before[r], r).value[k]
                                       THEN before[r].value[k] ELSE held[r].value[k]
      /\ \A q \in Runs, k \in Steps : t.write[q][k] \in {NoRun, before[r].write[q][k]}
  BY Holding, DiscardedFields, MergedOutFields
<1>2. Go(r, "discarding", t) /\ Working(r)
  BY DEF Unanswered, Working
<1> HIDE DEF t
<1>3. /\ held[r].journal = Marked(before[r], "committed").journal
      /\ before[r].journal.run = r /\ before[r].journal.status = "committing"
      /\ held[r].done /\ (~onDevice => held[r] = Published(before[r], r))
  BY DEF EvaluationInv, RunInv, Publishing
<1>4. /\ pc'[r] = "discarding" /\ held'[r] = t /\ before'[r] = Unworked
  BY <1>1, <1>2, Holding, Gone DEF Points
<1>5. Journaled(r)'
  <2>1. Fits(r, t.journal, "discarding")
    BY <1>1, <1>3 DEF Fits
  <2>2. t.journal.effect = held[r].journal.effect
    BY <1>1, <1>3, Holding, MarkedFields DEF Statuses
  <2>3. Covers(t.journal, "discarding", called'[r], session'[r])
    BY <1>2, <2>2, Holding DEF Covers
  <2> QED
    BY <1>4, <2>1, <2>3 DEF Journaled
<1>6. Synced(r)'
  <2>1. onDevice => tree' = t
    BY <1>4 DEF Frame
  <2>2. ASSUME ~onDevice, ~stale'[r]
        PROVE  t.value = tree'.value /\ t.done = tree'.done /\ tree'.journal.run = r
    <3>1. tree' = tree /\ ~stale[r]
      <4>1. EvaluationTypeOK /\ t \in Trees /\ "discarding" \in Points
        BY <1>1, Holding DEF Points
      <4> QED
        BY <2>2, <4>1, UnansweredMoves DEF t
    <3>2. before[r] = tree /\ tree.journal.run = r
      BY <1>2, <2>2, <3>1 DEF EvaluationInv, RunInv, Synced
    <3>3. \A k \in Steps : t.value[k] = before[r].value[k]
      BY <1>1, <1>3, <2>2
    <3>4. t.value = before[r].value
      BY <1>1, <3>3, Holding, TreeParts
    <3> QED
      BY <1>1, <3>1, <3>2, <3>4
  <2> QED
    BY <1>2, <1>4, <2>1, <2>2 DEF Synced
<1>7. Fresh(r)' /\ Unpublished(r)' /\ Publishing(r)'
  BY <1>4 DEF Fresh, Unpublished, Unanswering, Publishing
<1>8. Sound(t, Paid', onDevice)
  <2>1. Sound(held[r], Paid', onDevice) /\ Sound(before[r], Paid', onDevice)
    BY Holding, SoundGrows DEF Frame
  <2>2. Accounted(t.journal)
    BY <1>1, <1>3 DEF Accounted, Rerunnable
  <2>3. Honest(t, Paid', onDevice)
    BY <1>1, <2>1, PaymentsAreSteps DEF Sound, Honest
  <2>4. Filled(t)
    BY <1>1, <1>3, <2>1 DEF Sound, Filled
  <2> QED
    BY <2>2, <2>3, <2>4 DEF Sound
<1>9. Sound(before'[r], Paid', onDevice)
  BY <1>4, UnworkedSound
<1>10. RunInv(r)'
  BY <1>5, <1>6, <1>7 DEF RunInv
<1>11. Sound(held'[r], Paid', onDevice)
  BY <1>4, <1>8
<1>12. \A k \in Steps : before'[r].value[k] = Unmet
  BY <1>4, UnworkedFields
<1>13. \A k \in Steps : held'[r].value[k] = IF held[r].value[k] = Published(before[r], r).value[k]
                                             THEN before[r].value[k] ELSE held[r].value[k]
  BY <1>1, <1>4
<1> QED
  BY <1>4, <1>9, <1>10, <1>11, <1>12, <1>13 DEF OwnStep

LEMMA FailOwn ==
    ASSUME EvaluationInv, NEW r \in Runs, fail(r), Frame(r)
    PROVE  OwnStep(r)
<1>1. /\ Working(r) /\ pc[r] # "discarding" /\ pc[r] # "closing" /\ UNCHANGED <<onDevice, session, called>>
      /\ \/ Answered(r, "discarding", Discarded(r)) /\ pc[r] # "publishing"
         \/ Unanswered(r, "discarding", Discarded(r)) /\ pc[r] # "opening"
  BY DEF fail, Working
<1>2. CASE pc[r] = "publishing"
  BY <1>1, <1>2, UnpublishOwn
<1>3. CASE pc[r] # "publishing"
  <2>1. /\ Discarded(r) \in Trees /\ Discarded(r).journal = held[r].journal
        /\ Discarded(r).value = held[r].value /\ Discarded(r).done = held[r].done
        /\ Fits(r, Discarded(r).journal, "discarding")
        /\ Sound(Discarded(r), Paid', onDevice)
    BY <1>1, <1>3, DiscardedJournal DEF Frame
  <2>2. Covers(Discarded(r).journal, "discarding", called'[r], session'[r])
    BY <1>1, <2>1, Holding DEF Covers
  <2> QED
    BY <1>1, <1>3, <2>1, <2>2, SaveStep DEF Points, Unanswering
<1> QED
  BY <1>2, <1>3

\* The run publishes over the tree that is saved, and none of the answers there
\* is its own yet.
LEMMA PublishOwn ==
    ASSUME EvaluationInv, NEW r \in Runs, publish(r), Frame(r)
    PROVE  OwnStep(r)
<1> DEFINE t == Published(held[r], r)
<1>1. /\ Working(r) /\ pc[r] = "committing" /\ Answered(r, "publishing", t)
      /\ UNCHANGED <<onDevice, session, called>>
      /\ \A k \in Wrote(held[r], r) : held[r].write[r][k] = held[r].value[k]
      /\ \A k \in Steps : held[r].value[k] = Unmet => k \in Wrote(held[r], r)
  BY DEF publish, Working
<1>2. /\ t \in Trees /\ t.journal = Marked(held[r], "committed").journal
      /\ t.journal.run = held[r].journal.run /\ t.journal.status = "committed"
      /\ t.journal.effect = held[r].journal.effect /\ t.done = TRUE
  BY Holding, PublishedFields
<1>3. \A k \in Steps : t.value[k] = IF k \in Wrote(held[r], r) THEN r ELSE held[r].value[k]
  BY Holding, PublishedValues
<1>4. \A q \in Runs, k \in Steps : t.write[q][k] \in {NoRun, held[r].write[q][k]}
  BY Holding, PublishedWrites
<1>5. onDevice \/ ~stale[r]
  BY <1>1 DEF Answered
<1>6. /\ pc'[r] = "publishing" /\ held'[r] = t /\ before'[r] = held[r]
      /\ ~onDevice => tree' = held[r]
  BY <1>1, <1>2, Holding, AnsweredMoves, Gone DEF Points
<1>7. t = Published(held[r], r)
  OBVIOUS
<1> HIDE DEF t
<1>8. Fits(r, held[r].journal, "committing") /\ Covers(held[r].journal, "committing", called[r], session[r])
  BY <1>1, Holding
<1>9. \A k \in Steps : held[r].value[k] = tree.value[k] /\ held[r].value[k] # r
  <2>1. held[r].value = tree.value
    BY <1>1, <1>5, HeldValues
  <2>2. \A k \in Steps : tree.value[k] # r
    BY <1>1 DEF EvaluationInv, RunInv, Unpublished, Unanswering
  <2> QED
    BY <2>1, <2>2
<1>10. Publishing(r)'
  <2>1. held[r].journal.run = r /\ held[r].journal.status = "committing"
    BY <1>8 DEF Fits
  <2>2. \A k \in Steps : t.value[k] = r => k \in Wrote(held[r], r)
    BY <1>3, <1>9
  <2> QED
    BY <1>1, <1>2, <1>6, <1>7, <1>9, <2>1, <2>2 DEF Publishing
<1>11. Journaled(r)'
  <2>1. Fits(r, t.journal, "publishing")
    BY <1>2, <1>8 DEF Fits
  <2>2. Covers(t.journal, "publishing", called'[r], session'[r])
    BY <1>1, <1>2, <1>8 DEF Covers
  <2> QED
    BY <1>6, <2>1, <2>2 DEF Journaled
<1>12. Synced(r)'
  <2>1. onDevice => held'[r] = tree'
    BY <1>6 DEF Frame
  <2>2. held[r].journal.run = r
    BY <1>8 DEF Fits
  <2> QED
    BY <1>1, <1>6, <2>1, <2>2 DEF Synced
<1>13. Fresh(r)' /\ Unpublished(r)'
  BY <1>6 DEF Fresh, Unpublished, Unanswering
<1>14. Sound(t, Paid', onDevice)
  <2>1. Sound(held[r], Paid', onDevice)
    BY Holding, SoundGrows DEF Frame
  <2>2. Accounted(t.journal)
    BY <1>2, <1>8 DEF Accounted, Fits
  <2>3. Honest(t, Paid', onDevice)
    <3>1. \A k \in Payments : ~onDevice => k \notin Wrote(held[r], r)
      BY <2>1 DEF Sound, Honest, Wrote
    <3>2. \A k \in Payments : t.value[k] # held[r].value[k] => onDevice /\ t.value[k] = r
      BY <1>3, <3>1, PaymentsAreSteps
    <3>3. r # Grant
      BY Distinct
    <3>4. ASSUME NEW k \in Payments, t.value[k] = Grant PROVE k \in Paid'
      BY <2>1, <3>2, <3>3, <3>4 DEF Sound, Honest
    <3>5. ASSUME NEW k \in Payments, ~onDevice
          PROVE  t.value[k] \in {Unmet, Grant} /\ \A q \in Runs : t.write[q][k] = NoRun
      BY <1>4, <2>1, <3>2, <3>5, PaymentsAreSteps DEF Sound, Honest
    <3> QED
      BY <3>4, <3>5 DEF Honest
  <2>4. Filled(t)
    BY <1>1, <1>3, Distinct DEF Filled
  <2> QED
    BY <2>2, <2>3, <2>4 DEF Sound
<1>15. Sound(held'[r], Paid', onDevice) /\ Sound(before'[r], Paid', onDevice)
  BY <1>6, <1>14, Holding, SoundGrows DEF Frame
<1>16. RunInv(r)'
  BY <1>10, <1>11, <1>12, <1>13 DEF RunInv
<1>17. \A k \in Steps : before'[r].value[k] = tree.value[k]
  BY <1>6, <1>9
<1> QED
  BY <1>1, <1>6, <1>7, <1>15, <1>16, <1>17 DEF OwnStep

LEMMA BeginOwn ==
    ASSUME EvaluationInv, NEW r \in Runs, evaluateNode(r), Frame(r)
    PROVE  OwnStep(r)
<1> DEFINE t == [tree EXCEPT !.journal = NoJournal(r, "opening")]
<1>1. /\ pc[r] = "ready" /\ tree.journal.status \in Rerunnable
      /\ Go(r, "opening", t) /\ tree' = IF onDevice THEN t ELSE tree
      /\ UNCHANGED <<onDevice, stale, session, called>>
  BY DEF evaluateNode
<1>2. NoJournal(r, "opening") \in Journals
  BY NoJournalType DEF Statuses
<1>3. /\ t \in Trees /\ t.journal = NoJournal(r, "opening")
      /\ t.value = tree.value /\ t.done = tree.done /\ t.write = tree.write
  BY <1>2, Holding, JournalFields
<1>4. /\ t.journal.run = r /\ t.journal.status = "opening"
      /\ \A k \in Steps : t.journal.effect[k] = "none"
  BY <1>3 DEF NoJournal
<1> HIDE DEF t
<1>5. /\ pc'[r] = "opening" /\ held'[r] = t /\ before'[r] = Unworked
      /\ \A q \in Runs \ {r} : before'[q] = before[q]
  BY <1>1, <1>3, Holding, Gone DEF Points
<1>6. Fresh(r) /\ Unpublished(r)
  BY DEF EvaluationInv, RunInv
<1>7. Journaled(r)'
  <2>1. Fits(r, t.journal, "opening")
    BY <1>4 DEF Fits
  <2>2. Covers(t.journal, "opening", called'[r], session'[r])
    BY <1>1, <1>6 DEF Covers, Fresh
  <2> QED
    BY <1>5, <2>1, <2>2 DEF Journaled
<1>8. Unpublished(r)'
  <2>1. \A k \in Steps : tree.value[k] # r /\ \A q \in Runs : before[q].value[k] # r
    BY <1>1, <1>6 DEF Unpublished, Unanswering
  <2>2. tree'.value = tree.value
    BY <1>1, <1>3
  <2> QED
    BY <1>5, <2>1, <2>2, UnworkedFields, Distinct DEF Unpublished
<1>9. Synced(r)'
  BY <1>1, <1>3, <1>5 DEF Synced
<1>10. Fresh(r)' /\ Publishing(r)'
  BY <1>5 DEF Fresh, Publishing
<1>11. RunInv(r)'
  BY <1>7, <1>8, <1>9, <1>10 DEF RunInv
<1>12. Accounted(t.journal)
  BY <1>4 DEF Accounted
<1>13. Sound(t, Paid', onDevice)
  BY <1>3, <1>12, Holding, SoundLike DEF Frame
<1>14. Sound(held'[r], Paid', onDevice) /\ Sound(before'[r], Paid', onDevice)
  BY <1>5, <1>13, UnworkedSound
<1>15. ~Working(r)
  BY <1>1 DEF Working
<1> QED
  BY <1>1, <1>5, <1>11, <1>14, <1>15, UnworkedFields DEF OwnStep

LEMMA RunOwn ==
    ASSUME EvaluationInv, NEW r \in Runs, RunStep(r), Frame(r)
    PROVE  OwnStep(r)
<1>1. CASE return(r) \/ giveUp(r) \/ stop(r)
  <2>1. Answered(r, "over", held[r]) \/ Unanswered(r, "over", held[r]) \/ Go(r, "over", held[r])
    BY <1>1 DEF return, giveUp, stop
  <2>2. EvaluationTypeOK /\ held[r] \in Trees /\ "over" \in Points
    BY Holding DEF Points
  <2>3. Go(r, "over", held[r])
    BY <2>1, <2>2, AnsweredMoves, UnansweredMoves
  <2>4. pc[r] # "ready"
    BY <1>1 DEF return, giveUp, stop, Working
  <2> QED
    BY <2>2, <2>3, <2>4, OverStep
<1> QED
  BY <1>1, BeginOwn, OpenStepsOwn, AttemptOwn, CallOwn, PrimitiveOwn, RecordOwn, ConcludeOwn, PublishOwn,
     FailOwn, FailCallOwn, RollBackOwn DEF RunStep

-----------------------------------------------------------------------------
(* A step of a run keeps the invariant *)

\* What the step does to the values of the saved tree: it leaves them, puts its
\* own answers there, or takes them out again.
LEMMA ValuesMove ==
    ASSUME EvaluationInv, NEW r \in Runs, Frame(r), OwnStep(r)
    PROVE  \A k \in Steps : tree'.value[k] \in {r, tree.value[k], before[r].value[k]}
<1>1. CASE ~Working(r)
  <2>1. pc[r] = "ready"
    BY <1>1 DEF Working, Frame
  <2> QED
    BY <2>1 DEF Frame
<1>2. CASE Working(r) /\ ~onDevice
  <2>1. CASE tree' = tree
    BY <2>1
  <2>2. CASE ~stale[r] /\ tree' = held[r]
    <3>1. pc[r] # "publishing" => held[r].value = tree.value
      BY <1>2, <2>2, HeldValues
    <3>2. pc[r] = "publishing" => \A k \in Steps : held[r].value[k] \in {r, tree.value[k]}
      BY <1>2, <2>2, HeldValues
    <3> QED
      BY <2>2, <3>1, <3>2
  <2> QED
    BY <1>2, <2>1, <2>2 DEF Frame
<1>3. CASE Working(r) /\ onDevice
  <2>1. held[r] = tree
    BY <1>3 DEF EvaluationInv, RunInv, Synced
  <2>2. CASE pc'[r] = "over"
    BY <1>3, <2>1, <2>2 DEF Frame
  <2>3. CASE pc'[r] # "over"
    <3>1. tree' = held'[r]
      BY <1>3, <2>3 DEF Frame
    <3>2. \A k \in Steps : held'[r].value[k] \in {r, held[r].value[k], before[r].value[k]}
      <4>1. CASE pc'[r] = "publishing"
        BY <4>1, Holding, PublishedValues DEF OwnStep
      <4>2. CASE pc'[r] # "publishing"
        BY <1>3, <2>3, <4>2 DEF OwnStep
      <4> QED
        BY <4>1, <4>2
    <3> QED
      BY <2>1, <3>1, <3>2
  <2> QED
    BY <2>2, <2>3
<1> QED
  BY <1>1, <1>2, <1>3

LEMMA OthersKept ==
    ASSUME EvaluationInv, NEW r \in Runs, Frame(r), OwnStep(r), onDevice' = onDevice, NEW q \in Runs \ {r}
    PROVE  RunInv(q)'
<1>1. /\ pc'[q] = pc[q] /\ held'[q] = held[q] /\ before'[q] = before[q] /\ called'[q] = called[q]
      /\ \A k \in Payments : session'[q][k] = session[q][k]
  BY DEF Frame
<1>2. RunInv(q)
  BY DEF EvaluationInv
<1>3. Working(q)' <=> Working(q)
  BY <1>1 DEF Working
<1>4. Fresh(q)'
  BY <1>1, <1>2 DEF RunInv, Fresh
<1>5. Journaled(q)'
  BY <1>1, <1>2, <1>3 DEF RunInv, Journaled, Covers
<1>6. Publishing(q)'
  BY <1>1, <1>2 DEF RunInv, Publishing
<1>7. Synced(q)'
  <2>1. ASSUME Working(q), onDevice PROVE FALSE
    BY <2>1 DEF EvaluationInv, Alone, Frame, Working
  <2>2. ASSUME Working(q), ~onDevice, ~stale'[q] PROVE ~stale[q] /\ tree' = tree
    BY <2>2 DEF Frame
  <2> QED
    BY <1>1, <1>2, <1>3, <2>1, <2>2 DEF RunInv, Synced
<1>8. Unpublished(q)'
  <2> SUFFICES ASSUME pc[q] \in Unanswering, NEW k \in Steps
               PROVE  tree'.value[k] # q /\ \A p \in Runs : before'[p].value[k] # q
    BY <1>1 DEF Unpublished
  <2>1. tree.value[k] # q /\ \A p \in Runs : before[p].value[k] # q
    BY <1>2 DEF RunInv, Unpublished
  <2>2. tree'.value[k] # q
    BY <2>1, ValuesMove
  <2>3. before'[r].value[k] # q
    BY <2>1, Distinct DEF OwnStep
  <2>4. \A p \in Runs \ {r} : before'[p] = before[p]
    BY DEF Frame
  <2> QED
    BY <2>1, <2>2, <2>3, <2>4
<1> QED
  BY <1>4, <1>5, <1>6, <1>7, <1>8 DEF RunInv

\* What the run called is in the journal that is saved.
LEMMA RecordsKept ==
    ASSUME EvaluationInv, NEW r \in Runs, Frame(r), OwnStep(r), onDevice' = onDevice
    PROVE  RecordedBeforeCall'
<1> SUFFICES ASSUME NEW q \in Runs, tree'.journal.run = q, NEW k \in called'[q]
             PROVE  tree'.journal.effect[k] # "none"
  BY DEF RecordedBeforeCall
<1>1. CASE tree' = held'[r] /\ pc'[r] # "over"
  <2>1. Journaled(r)' /\ Working(r)'
    BY <1>1 DEF OwnStep, RunInv, Frame, Working
  <2>2. tree'.journal.run = r /\ \A j \in called'[r] : tree'.journal.effect[j] # "none"
    BY <1>1, <2>1 DEF Journaled, Fits, Covers
  <2> QED
    BY <2>2
<1>2. CASE called'[r] = called[r] /\ tree' = tree
  <2>1. k \in called[q]
    BY <1>2 DEF Frame
  <2> QED
    BY <1>2, <2>1 DEF EvaluationInv, RecordedBeforeCall
<1>3. CASE called'[r] = called[r] /\ tree' = held[r] /\ Working(r)
  <2>1. tree'.journal.run = r /\ \A j \in called[r] : tree'.journal.effect[j] # "none"
    BY <1>3 DEF EvaluationInv, RunInv, Journaled, Fits, Covers
  <2> QED
    BY <1>3, <2>1
<1> QED
  BY <1>1, <1>2, <1>3 DEF Frame, Working

LEMMA RunKeepsInv ==
    ASSUME EvaluationInv, NEW r \in Runs, RunStep(r)
    PROVE  EvaluationInv'
<1>1. EvaluationTypeOK' /\ UNCHANGED <<onDevice, aged>>
  BY RunTyped DEF EvaluationInv
<1>2. Frame(r) /\ OwnStep(r)
  BY RunFrame, RunOwn
<1>3. \A q \in Runs : RunInv(q)'
  BY <1>1, <1>2, OthersKept DEF OwnStep
<1>4. RecordedBeforeCall'
  BY <1>1, <1>2, RecordsKept
<1>5. Alone'
  BY <1>1, <1>2 DEF EvaluationInv, Alone, Frame, Working
<1>6. TreesSound'
  <2>1. Paid \subseteq Paid'
    BY <1>2 DEF Frame
  <2>2. ASSUME NEW q \in Runs PROVE Sound(held'[q], Paid', onDevice) /\ Sound(before'[q], Paid', onDevice)
    <3>1. CASE q = r
      BY <1>2, <3>1 DEF OwnStep
    <3>2. CASE q # r
      <4>1. held'[q] = held[q] /\ before'[q] = before[q]
        BY <1>2, <3>2 DEF Frame
      <4> QED
        BY <2>1, <4>1, Holding, SoundGrows
    <3> QED
      BY <3>1, <3>2
  <2>3. tree' \in {tree, held[r], held'[r]} \/ Sound(tree', Paid', onDevice)
    BY <1>2 DEF Frame
  <2>4. Sound(tree', Paid', onDevice)
    BY <2>1, <2>2, <2>3, Holding, SoundGrows
  <2> QED
    BY <1>1, <2>2, <2>4 DEF TreesSound
<1> QED
  BY <1>1, <1>3, <1>4, <1>5, <1>6 DEF EvaluationInv

-----------------------------------------------------------------------------
(* What happens meanwhile keeps the invariant *)

\* What is saved.
LEMMA SavedTree == EvaluationInv => EvaluationTypeOK /\ tree \in Trees /\ Sound(tree, Paid, onDevice)
  BY DEF EvaluationInv, TreesSound, EvaluationTypeOK

\* Nothing the invariant is about changes.
LEMMA QuietKeepsInv ==
    ASSUME EvaluationInv, EvaluationTypeOK',
           UNCHANGED <<onDevice, tree, pc, held, before, stale, session, called>>
    PROVE  EvaluationInv'
<1>1. Paid' = Paid
  BY DEF Paid
<1>2. RecordedBeforeCall' /\ TreesSound' /\ Alone'
  BY <1>1 DEF EvaluationInv, RecordedBeforeCall, TreesSound, Alone, Working
<1>3. ASSUME NEW r \in Runs PROVE RunInv(r)'
  <2>1. RunInv(r)
    BY DEF EvaluationInv
  <2>2. Fresh(r)' /\ Unpublished(r)' /\ Publishing(r)'
    BY <2>1 DEF RunInv, Fresh, Unpublished, Publishing
  <2>3. Journaled(r)' /\ Synced(r)'
    BY <2>1 DEF RunInv, Journaled, Synced, Working
  <2> QED
    BY <2>2, <2>3 DEF RunInv
<1> QED
  BY <1>2, <1>3 DEF EvaluationInv

\* A page that is open is paid or expires: what was paid stays paid.
LEMMA PageKeepsInv ==
    ASSUME EvaluationInv, EvaluationTypeOK', NEW r \in Runs, NEW k \in Payments, PayPage(r, k)
    PROVE  EvaluationInv' /\ Paid \subseteq Paid'
<1>1. /\ session[r][k] = "open"
      /\ UNCHANGED <<onDevice, tree, pc, held, before, stale, called>>
  BY DEF PayPage, runVars
<1>2. \A q \in Runs, j \in Payments : session'[q][j] # session[q][j] => session[q][j] = "open"
  BY <1>1, SavedTree DEF PayPage, EvaluationTypeOK
<1>3. Paid \subseteq Paid'
  BY <1>2 DEF Paid
<1>4. RecordedBeforeCall' /\ Alone'
  BY <1>1 DEF EvaluationInv, RecordedBeforeCall, Alone, Working
<1>5. TreesSound'
  BY <1>1, <1>3, SoundGrows DEF EvaluationInv, TreesSound
<1>6. ASSUME NEW q \in Runs PROVE RunInv(q)'
  <2>1. RunInv(q)
    BY DEF EvaluationInv
  <2>2. Unpublished(q)' /\ Publishing(q)'
    BY <1>1, <2>1 DEF RunInv, Unpublished, Publishing
  <2>3. Synced(q)'
    BY <1>1, <2>1 DEF RunInv, Synced, Working
  <2>4. \A j \in Payments : session'[q][j] # "none" => session[q][j] # "none"
    BY <1>2
  <2>5. Fresh(q)'
    BY <1>1, <1>2, <2>1 DEF RunInv, Fresh
  <2>6. Journaled(q)'
    BY <1>1, <2>1, <2>4 DEF RunInv, Journaled, Working, Covers
  <2> QED
    BY <2>2, <2>3, <2>5, <2>6 DEF RunInv
<1> QED
  BY <1>3, <1>4, <1>5, <1>6 DEF EvaluationInv

\* The tree changes by another's hand: nobody called anything, nothing is answered
\* for a run, and the working runs of a server are out of date, unless it is what
\* it was.
LEMMA OutsideKeepsInv ==
    ASSUME EvaluationInv, EvaluationTypeOK', NEW t \in Trees, tree' = t, Sound(t, Paid, onDevice),
           UNCHANGED <<onDevice, pc, held, before, session, called>>,
           t.journal.run = tree.journal.run,
           \A k \in Steps : tree.journal.effect[k] # "none" => t.journal.effect[k] # "none",
           \A k \in Steps : t.value[k] = tree.value[k] \/ t.value[k] \notin Runs,
           \A q \in Runs : Working(q) => ~onDevice /\ (~stale'[q] => ~stale[q] /\ t = tree)
    PROVE  EvaluationInv'
<1>1. Paid' = Paid
  BY DEF Paid
<1>2. RecordedBeforeCall'
  BY SavedTree DEF EvaluationInv, RecordedBeforeCall, EvaluationTypeOK
<1>3. TreesSound' /\ Alone'
  BY <1>1 DEF EvaluationInv, TreesSound, Alone, Working
<1>4. ASSUME NEW q \in Runs PROVE RunInv(q)'
  <2>1. RunInv(q)
    BY DEF EvaluationInv
  <2>2. Fresh(q)' /\ Publishing(q)'
    BY <2>1 DEF RunInv, Fresh, Publishing
  <2>3. Unpublished(q)'
    BY <2>1 DEF RunInv, Unpublished
  <2>4. Journaled(q)'
    BY <2>1 DEF RunInv, Journaled, Working
  <2>5. Synced(q)'
    BY <2>1 DEF RunInv, Synced, Working
  <2> QED
    BY <2>2, <2>3, <2>4, <2>5 DEF RunInv
<1> QED
  BY <1>2, <1>3, <1>4 DEF EvaluationInv

\* A requirement is filled by hand, or granted.
LEMMA FilledSound ==
    ASSUME EvaluationInv, NEW k \in Steps, NEW v \in ByHand \cup {Grant},
           k \in Payments => v = Grant /\ k \in Paid
    PROVE  LET t == [tree EXCEPT !.value[k] = v] IN
           /\ t \in Trees /\ Sound(t, Paid, onDevice)
           /\ t.journal = tree.journal /\ t.done = tree.done /\ t.write = tree.write
           /\ t.value = [tree.value EXCEPT ![k] = v]
           /\ \A j \in Steps : t.value[j] = IF j = k THEN v ELSE tree.value[j]
<1> DEFINE t == [tree EXCEPT !.value[k] = v]
<1>1. tree \in Trees /\ v \in Fillings
  BY SavedTree DEF Fillings
<1>2. /\ t \in Trees /\ t.journal = tree.journal /\ t.done = tree.done /\ t.write = tree.write
      /\ t.value = [tree.value EXCEPT ![k] = v]
      /\ \A j \in Steps : t.value[j] = IF j = k THEN v ELSE tree.value[j]
  BY <1>1, ValueFields
<1> HIDE DEF t
<1>3. Sound(tree, Paid, onDevice)
  BY SavedTree
<1>4. Honest(t, Paid, onDevice)
  BY <1>2, <1>3, PaymentsAreSteps, Distinct DEF Sound, Honest
<1>5. Filled(t)
  BY <1>2, <1>3, Distinct DEF Sound, Filled
<1>6. Sound(t, Paid, onDevice)
  BY <1>2, <1>3, <1>4, <1>5 DEF Sound
<1> QED
  BY <1>2, <1>6 DEF t

LEMMA ReviewedSound ==
    ASSUME EvaluationInv
    PROVE  Sound(Reviewed(tree), Paid, onDevice)
<1> DEFINE t == Reviewed(tree)
<1>1. /\ t.journal.status \in {"needs-recovery", "rolled-back"}
      /\ t.journal.status = "rolled-back" => \A k \in Loose(tree) : t.journal.task[k] = "done"
      /\ \A k \in Steps : t.journal.effect[k] = IF k \in Loose(tree) THEN "manual" ELSE tree.journal.effect[k]
      /\ t.value = tree.value /\ t.done = tree.done /\ t.write = tree.write
  BY SavedTree, ReviewedFields
<1> HIDE DEF t
<1>2. Accounted(t.journal)
  BY <1>1 DEF Accounted, Rerunnable, Loose
<1>3. Sound(t, Paid, onDevice)
  BY <1>1, <1>2, SavedTree, SoundLike
<1> QED
  BY <1>3 DEF t

LEMMA FillKeepsInv ==
    ASSUME EvaluationInv, EvaluationTypeOK', NEW k \in Steps, NEW v \in ByHand, fillByHand(k, v)
    PROVE  EvaluationInv'
<1> DEFINE t == [tree EXCEPT !.value[k] = v]
<1>1. k \notin Payments /\ UNCHANGED session /\ tree.value[k] # v
  BY DEF fillByHand
<1>2. /\ t \in Trees /\ Sound(t, Paid, onDevice)
      /\ t.journal = tree.journal /\ t.done = tree.done
      /\ \A j \in Steps : t.value[j] = IF j = k THEN v ELSE tree.value[j]
  BY <1>1, FilledSound
<1>3. Elsewhere(t) \/ /\ onDevice /\ tree' = t
                      /\ \A r \in Runs : pc[r] = "publishing" => tree.value[k] # r
                      /\ held' = [r \in Runs |-> IF Working(r) THEN t ELSE held[r]]
                      /\ UNCHANGED <<onDevice, pc, before, stale, reworded, aged, called>>
  BY DEF fillByHand
<1> HIDE DEF t
<1>4. v \notin Runs
  BY Distinct
<1>5. CASE Elsewhere(t)
  <2>1. /\ ~onDevice /\ tree' = t
        /\ \A q \in Runs : stale'[q] <=> stale[q] \/ (Working(q) /\ t # tree)
        /\ UNCHANGED <<onDevice, pc, held, before, called>>
    BY <1>2, <1>5, SavedTree, ElsewhereMoves
  <2> QED
    BY <1>1, <1>2, <1>4, <2>1, OutsideKeepsInv
<1>6. CASE /\ onDevice /\ tree' = t
           /\ held' = [r \in Runs |-> IF Working(r) THEN t ELSE held[r]]
           /\ UNCHANGED <<onDevice, pc, before, stale, called>>
  <2>1. Paid' = Paid
    BY <1>1 DEF Paid
  <2>2. RecordedBeforeCall'
    BY <1>2, <1>6 DEF EvaluationInv, RecordedBeforeCall
  <2>3. Alone'
    BY <1>6 DEF EvaluationInv, Alone, Working
  <2>4. TreesSound'
    BY <1>2, <1>6, <2>1 DEF EvaluationInv, TreesSound
  <2>5. ASSUME NEW q \in Runs PROVE RunInv(q)'
    <3>1. RunInv(q) /\ (Working(q)' <=> Working(q))
      BY <1>6 DEF EvaluationInv, Working
    <3>2. Working(q) => held[q] = tree /\ held'[q] = t
      BY <1>6, <3>1 DEF RunInv, Synced
    <3>3. Fresh(q)'
      BY <1>1, <1>6, <3>1 DEF RunInv, Fresh
    <3>4. Unpublished(q)'
      BY <1>2, <1>4, <1>6, <3>1 DEF RunInv, Unpublished
    <3>5. Journaled(q)'
      BY <1>1, <1>2, <1>6, <3>1, <3>2 DEF RunInv, Journaled
    <3>6. Publishing(q)'
      <4> SUFFICES ASSUME pc[q] = "publishing" PROVE Publishing(q)'
        BY <1>6 DEF Publishing
      <4>1. held[q] = tree /\ held'[q] = t
        BY <3>2 DEF Working
      <4>2. \A j \in Steps : t.value[j] = q => tree.value[j] = q
        BY <1>2, <1>4
      <4> QED
        BY <1>2, <1>6, <3>1, <4>1, <4>2 DEF RunInv, Publishing
    <3>7. Synced(q)'
      BY <1>6, <3>1, <3>2 DEF Synced
    <3> QED
      BY <3>3, <3>4, <3>5, <3>6, <3>7 DEF RunInv
  <2> QED
    BY <2>2, <2>3, <2>4, <2>5 DEF EvaluationInv
<1> QED
  BY <1>3, <1>5, <1>6

LEMMA SettleKeepsInv ==
    ASSUME EvaluationInv, EvaluationTypeOK', NEW r \in Runs, NEW k \in Payments, settle(r, k)
    PROVE  EvaluationInv'
<1> DEFINE t == [tree EXCEPT !.value[k] = Grant]
<1>1. Elsewhere(t) /\ UNCHANGED session /\ k \in Paid /\ k \in Steps
  BY PaymentsAreSteps DEF settle, Paid
<1>2. /\ t \in Trees /\ Sound(t, Paid, onDevice) /\ t.journal = tree.journal
      /\ \A j \in Steps : t.value[j] = IF j = k THEN Grant ELSE tree.value[j]
  BY <1>1, FilledSound
<1> HIDE DEF t
<1>3. /\ ~onDevice /\ tree' = t
      /\ \A q \in Runs : stale'[q] <=> stale[q] \/ (Working(q) /\ t # tree)
      /\ UNCHANGED <<onDevice, pc, held, before, called>>
  BY <1>1, <1>2, SavedTree, ElsewhereMoves
<1> QED
  BY <1>1, <1>2, <1>3, Distinct, OutsideKeepsInv

LEMMA TaskKeepsInv ==
    ASSUME EvaluationInv, EvaluationTypeOK', NEW k \in Steps, doTask(k)
    PROVE  EvaluationInv'
<1> DEFINE t == [tree EXCEPT !.journal.task[k] = "done"]
<1>1. Elsewhere(t) /\ UNCHANGED session
  BY DEF doTask
<1>2. tree \in Trees
  BY SavedTree
<1>3. /\ t \in Trees /\ t.journal.run = tree.journal.run /\ t.journal.status = tree.journal.status
      /\ t.journal.effect = tree.journal.effect
      /\ t.journal.task[k] = "done"
      /\ \A j \in Steps \ {k} : t.journal.task[j] = tree.journal.task[j]
      /\ t.value = tree.value /\ t.done = tree.done /\ t.write = tree.write
  BY <1>2, TaskFields
<1> HIDE DEF t
<1>4. /\ ~onDevice /\ tree' = t
      /\ \A q \in Runs : stale'[q] <=> stale[q] \/ (Working(q) /\ t # tree)
      /\ UNCHANGED <<onDevice, pc, held, before, called>>
  BY <1>1, <1>3, SavedTree, ElsewhereMoves
<1>5. Accounted(t.journal)
  BY <1>3, SavedTree DEF Sound, Accounted
<1>6. Sound(t, Paid, onDevice)
  BY <1>3, <1>5, SavedTree, SoundLike
<1> QED
  BY <1>1, <1>3, <1>4, <1>6, OutsideKeepsInv

LEMMA RecoverKeepsInv ==
    ASSUME EvaluationInv, EvaluationTypeOK', recoverEvaluation
    PROVE  EvaluationInv'
<1> DEFINE t == Reviewed(tree)
<1>1. UNCHANGED session
  BY DEF recoverEvaluation
<1>2. Elsewhere(t) \/ /\ onDevice /\ \A r \in Runs : ~Working(r)
                      /\ tree' = t
                      /\ UNCHANGED <<onDevice, pc, held, before, stale, called>>
  BY DEF recoverEvaluation, runVars
<1>3. /\ t \in Trees /\ t.journal.run = tree.journal.run
      /\ \A k \in Steps : t.journal.effect[k] = IF k \in Loose(tree) THEN "manual" ELSE tree.journal.effect[k]
      /\ t.value = tree.value
      /\ Sound(t, Paid, onDevice)
  BY SavedTree, ReviewedFields, ReviewedSound
<1> HIDE DEF t
<1>4. CASE Elsewhere(t)
  <2>1. /\ ~onDevice /\ tree' = t
        /\ \A q \in Runs : stale'[q] <=> stale[q] \/ (Working(q) /\ t # tree)
        /\ UNCHANGED <<onDevice, pc, held, before, called>>
    BY <1>3, <1>4, SavedTree, ElsewhereMoves
  <2> QED
    BY <1>1, <1>3, <2>1, OutsideKeepsInv
<1>5. CASE /\ onDevice /\ \A r \in Runs : ~Working(r)
           /\ tree' = t
           /\ UNCHANGED <<onDevice, pc, held, before, stale, called>>
  BY <1>1, <1>3, <1>5, OutsideKeepsInv
<1> QED
  BY <1>2, <1>4, <1>5

LEMMA EvaluationInvKept == EvaluationInv /\ [EvaluationNext]_evalVars => EvaluationInv'
<1> SUFFICES ASSUME EvaluationInv, [EvaluationNext]_evalVars PROVE EvaluationInv'
  OBVIOUS
<1>1. EvaluationTypeOK'
  BY StepTyped DEF EvaluationInv
<1>2. ASSUME NEW r \in Runs, RunStep(r) PROVE EvaluationInv'
  BY <1>2, RunKeepsInv
<1>3. ASSUME NEW r \in Runs, GrowOlder(r) \/ reword(r) PROVE EvaluationInv'
  BY <1>1, <1>3, QuietKeepsInv DEF GrowOlder, reword, runVars
<1>4. ASSUME NEW r \in Runs, NEW k \in Payments, PayPage(r, k) \/ settle(r, k) PROVE EvaluationInv'
  BY <1>1, <1>4, PageKeepsInv, SettleKeepsInv
<1>5. ASSUME NEW k \in Steps, NEW v \in ByHand, fillByHand(k, v) PROVE EvaluationInv'
  BY <1>1, <1>5, FillKeepsInv
<1>6. ASSUME NEW k \in Steps, doTask(k) PROVE EvaluationInv'
  BY <1>1, <1>6, TaskKeepsInv
<1>7. CASE recoverEvaluation
  BY <1>1, <1>7, RecoverKeepsInv
<1>8. CASE UNCHANGED evalVars
  BY <1>1, <1>8, QuietKeepsInv DEF evalVars, runVars
<1> QED
  BY <1>2, <1>3, <1>4, <1>5, <1>6, <1>7, <1>8 DEF EvaluationNext

LEMMA EvaluationInvHolds == EvaluationSpec => []EvaluationInv
<1> QED
  BY EvaluationInvAtStart, EvaluationInvKept, PTL DEF EvaluationSpec

-----------------------------------------------------------------------------
(* What a step does to the values, and to the journal *)

ValuesKept == tree'.value = tree.value /\ tree'.done = tree.done

\* The run's answers, proposed over what is there, and the task done.
CompletedBy(r) ==
    /\ tree'.value = [k \in Steps |-> IF k \in Wrote(tree, r) THEN r ELSE tree.value[k]]
    /\ \A k \in Wrote(tree, r) : tree.write[r][k] = tree.value[k]
    /\ \A k \in Steps : tree.value[k] # r
    /\ tree'.done

\* The run's answers taken out again.
Undone(r) ==
    /\ tree.done
    /\ \A k \in Steps : IF tree.value[k] = r THEN tree'.value[k] # r ELSE tree'.value[k] = tree.value[k]

LEMMA RunValues ==
    ASSUME EvaluationInv, NEW r \in Runs, RunStep(r)
    PROVE  ValuesKept \/ CompletedBy(r) \/ Undone(r)
<1>1. Frame(r) /\ OwnStep(r) /\ RunInv(r) /\ RunInv(r)'
  BY RunFrame, RunOwn DEF EvaluationInv, OwnStep
<1>2. CASE ~Working(r)
  BY <1>1, <1>2 DEF Frame, Working, ValuesKept
<1>3. CASE Working(r) /\ ~onDevice
  <2>1. CASE tree' = tree
    BY <2>1 DEF ValuesKept
  <2>2. CASE ~stale[r] /\ tree' = held[r] /\ pc[r] # "publishing"
    BY <1>3, <2>2, HeldValues DEF ValuesKept
  <2>3. CASE ~stale[r] /\ tree' = held[r] /\ pc[r] = "publishing"
    <3>1. before[r] = tree /\ held[r] = Published(tree, r)
      BY <1>3, <2>3, HeldValues
    <3>2. tree'.value = [k \in Steps |-> IF k \in Wrote(tree, r) THEN r ELSE tree.value[k]]
      BY <2>3, <3>1 DEF Published
    <3> QED
      BY <1>1, <2>3, <3>1, <3>2 DEF RunInv, Publishing, CompletedBy
  <2> QED
    BY <1>1, <1>3, <2>1, <2>2, <2>3 DEF Frame
<1>4. CASE Working(r) /\ onDevice
  <2>1. held[r] = tree
    BY <1>1, <1>4 DEF RunInv, Synced
  <2>2. CASE pc'[r] = "over"
    BY <1>1, <1>4, <2>1, <2>2 DEF Frame, ValuesKept
  <2>3. CASE pc'[r] # "over"
    <3>1. tree' = held'[r]
      BY <1>1, <1>4, <2>3 DEF Frame
    <3>2. CASE pc'[r] = "publishing"
      <4>1. before'[r] = tree /\ tree' = Published(tree, r)
        BY <1>1, <2>1, <3>1, <3>2 DEF OwnStep
      <4>2. tree'.value = [k \in Steps |-> IF k \in Wrote(tree, r) THEN r ELSE tree.value[k]]
        BY <4>1 DEF Published
      <4> QED
        BY <1>1, <3>1, <3>2, <4>1, <4>2 DEF RunInv, Publishing, CompletedBy
    <3>3. CASE pc[r] = "publishing" /\ pc'[r] # "publishing"
      <4> SUFFICES ASSUME NEW k \in Steps
                   PROVE  /\ tree.done
                          /\ IF tree.value[k] = r THEN tree'.value[k] # r ELSE tree'.value[k] = tree.value[k]
        <5>1. tree.done
          BY <1>1, <2>1, <3>3 DEF RunInv, Publishing
        <5> QED
          BY <5>1 DEF Undone
      <4>1. tree'.value[k] = IF tree.value[k] = Published(before[r], r).value[k]
                             THEN before[r].value[k] ELSE tree.value[k]
        BY <1>1, <2>1, <2>3, <3>1, <3>3 DEF OwnStep
      <4>2. /\ tree.done /\ before[r].value[k] # r
            /\ tree.value[k] = r => k \in Wrote(before[r], r)
        BY <1>1, <2>1, <3>3 DEF RunInv, Publishing
      <4>3. before[r] \in Trees
        BY Holding
      <4> QED
        BY <4>1, <4>2, <4>3, PublishedValues
    <3>4. CASE pc[r] # "publishing" /\ pc'[r] # "publishing"
      BY <1>1, <1>4, <2>1, <2>3, <3>1, <3>4 DEF OwnStep, ValuesKept
    <3> QED
      BY <3>2, <3>3, <3>4
  <2> QED
    BY <2>2, <2>3
<1> QED
  BY <1>2, <1>3, <1>4

\* Another run's journal is replaced when nothing of it is open, and a journal is
\* committed by the run it belongs to.
LEMMA RunJournal ==
    ASSUME EvaluationInv, NEW r \in Runs, RunStep(r)
    PROVE  /\ tree'.journal.run # tree.journal.run => tree.journal.status \in Rerunnable
           /\ tree'.journal.status = "committed" /\ tree' # tree =>
                 /\ tree.journal.run = tree'.journal.run
                 /\ tree.journal.status \in {"committing", "committed"}
<1>1. Frame(r) /\ OwnStep(r) /\ RunInv(r) /\ RunInv(r)'
  BY RunFrame, RunOwn DEF EvaluationInv, OwnStep
<1>2. CASE ~Working(r)
  <2>1. pc[r] = "ready" /\ pc'[r] = "opening" /\ tree.journal.status \in Rerunnable
    BY <1>1, <1>2 DEF Frame, Working
  <2>2. held'[r].journal.status = "opening"
    BY <1>1, <2>1 DEF RunInv, Journaled, Fits, Working
  <2>3. tree' = tree \/ tree' = held'[r]
    BY <1>1, <1>2, <2>1 DEF Frame
  <2> QED
    BY <2>1, <2>2, <2>3
<1>3. CASE Working(r) /\ ~onDevice
  <2> SUFFICES ASSUME ~stale[r], tree' = held[r]
               PROVE  /\ tree'.journal.run # tree.journal.run => tree.journal.status \in Rerunnable
                      /\ tree'.journal.status = "committed" =>
                            /\ tree.journal.run = tree'.journal.run
                            /\ tree.journal.status \in {"committing", "committed"}
    BY <1>1, <1>3 DEF Frame
  <2>1. Fits(r, held[r].journal, pc[r])
    BY <1>1, <1>3 DEF RunInv, Journaled
  <2>2. IF pc[r] = "opening" THEN tree.journal.status \in Rerunnable ELSE tree.journal.run = r
    BY <1>1, <1>3 DEF RunInv, Synced
  <2>3. tree'.journal.status = "committed" => before[r] = tree /\ before[r].journal.status = "committing"
    BY <1>1, <1>3, <2>1, HeldValues DEF Fits, RunInv, Publishing
  <2> QED
    BY <2>1, <2>2, <2>3 DEF Fits
<1>4. CASE Working(r) /\ onDevice
  <2>1. held[r] = tree
    BY <1>1, <1>4 DEF RunInv, Synced
  <2>2. CASE pc'[r] = "over"
    BY <1>1, <1>4, <2>1, <2>2 DEF Frame
  <2>3. CASE pc'[r] # "over"
    <3>1. tree' = held'[r] /\ Working(r)'
      BY <1>1, <1>4, <2>3 DEF Frame, Working
    <3>2. tree.journal.run = r /\ tree'.journal.run = r
      BY <1>1, <1>4, <2>1, <3>1 DEF RunInv, Journaled, Fits
    <3>3. tree'.journal.status = "committed" => pc'[r] = "publishing"
      BY <1>1, <3>1 DEF RunInv, Journaled, Fits
    <3>4. pc'[r] = "publishing" => tree.journal.status = "committing"
      BY <1>1, <2>1 DEF RunInv, Publishing, OwnStep
    <3> QED
      BY <3>2, <3>3, <3>4
  <2> QED
    BY <2>2, <2>3
<1> QED
  BY <1>2, <1>3, <1>4

\* What the others do: they leave the values alone but for one that is filled, and
\* the journal is the same run's.
LEMMA OutsideMoves ==
    ASSUME EvaluationInv, [EvaluationNext]_evalVars, ~\E r \in Runs : RunStep(r)
    PROVE  /\ ValuesKept \/ \E k \in Steps, v \in ByHand \cup {Grant} :
                               /\ tree'.value = [tree.value EXCEPT ![k] = v] /\ tree'.done = tree.done
                               /\ v = Grant => tree.value[k] = Unmet
           /\ tree'.journal.run = tree.journal.run
           /\ tree'.journal.status = "committed" => tree.journal.status = "committed"
<1>0. EvaluationTypeOK /\ tree \in Trees
  BY SavedTree
<1>1. ASSUME NEW r \in Runs, GrowOlder(r) \/ reword(r) PROVE tree' = tree
  BY <1>1 DEF GrowOlder, reword
<1>2. ASSUME NEW r \in Runs, NEW k \in Payments, PayPage(r, k) PROVE tree' = tree
  BY <1>2 DEF PayPage
<1>3. ASSUME NEW r \in Runs, NEW k \in Payments, settle(r, k)
      PROVE  /\ tree'.value = [tree.value EXCEPT ![k] = Grant] /\ tree'.done = tree.done
             /\ tree'.journal = tree.journal /\ tree.value[k] = Unmet /\ k \in Steps
  <2> DEFINE t == [tree EXCEPT !.value[k] = Grant]
  <2>1. k \in Steps /\ k \in Paid /\ Elsewhere(t)
    BY <1>3, PaymentsAreSteps DEF settle, Paid
  <2>2. t \in Trees /\ t.journal = tree.journal /\ t.done = tree.done /\ t.value = [tree.value EXCEPT ![k] = Grant]
    BY <2>1, FilledSound
  <2> HIDE DEF t
  <2>3. tree' = t
    BY <1>0, <2>1, <2>2, ElsewhereMoves
  <2> QED
    BY <1>3, <2>1, <2>2, <2>3 DEF settle
<1>4. ASSUME NEW k \in Steps, NEW v \in ByHand, fillByHand(k, v)
      PROVE  /\ tree'.value = [tree.value EXCEPT ![k] = v] /\ tree'.done = tree.done
             /\ tree'.journal = tree.journal
  <2> DEFINE t == [tree EXCEPT !.value[k] = v]
  <2>1. k \notin Payments /\ (Elsewhere(t) \/ tree' = t)
    BY <1>4 DEF fillByHand
  <2>2. t \in Trees /\ t.journal = tree.journal /\ t.done = tree.done /\ t.value = [tree.value EXCEPT ![k] = v]
    BY <2>1, FilledSound
  <2> HIDE DEF t
  <2>3. tree' = t
    BY <1>0, <2>1, <2>2, ElsewhereMoves
  <2> QED
    BY <2>2, <2>3
<1>5. ASSUME NEW k \in Steps, doTask(k)
      PROVE  ValuesKept /\ tree'.journal.run = tree.journal.run /\ tree'.journal.status = tree.journal.status
  <2> DEFINE t == [tree EXCEPT !.journal.task[k] = "done"]
  <2>1. Elsewhere(t)
    BY <1>5 DEF doTask
  <2>2. /\ t \in Trees /\ t.journal.run = tree.journal.run /\ t.journal.status = tree.journal.status
        /\ t.value = tree.value /\ t.done = tree.done
    BY <1>0, TaskFields
  <2> HIDE DEF t
  <2>3. tree' = t
    BY <1>0, <2>1, <2>2, ElsewhereMoves
  <2> QED
    BY <2>2, <2>3 DEF ValuesKept
<1>6. ASSUME recoverEvaluation
      PROVE  ValuesKept /\ tree'.journal.run = tree.journal.run /\ tree'.journal.status # "committed"
  <2> DEFINE t == Reviewed(tree)
  <2>1. Elsewhere(t) \/ tree' = t
    BY <1>6 DEF recoverEvaluation
  <2>2. /\ t \in Trees /\ t.journal.run = tree.journal.run /\ t.journal.status # "committed"
        /\ t.value = tree.value /\ t.done = tree.done
    BY <1>0, ReviewedFields
  <2> HIDE DEF t
  <2>3. tree' = t
    BY <1>0, <2>1, <2>2, ElsewhereMoves
  <2> QED
    BY <2>2, <2>3 DEF ValuesKept
<1>7. CASE UNCHANGED evalVars
  BY <1>7 DEF evalVars, ValuesKept
<1>8. CASE tree' = tree
  BY <1>8 DEF ValuesKept
<1>9. CASE \E r \in Runs, k \in Payments : settle(r, k)
  <2>1. PICK r \in Runs, k \in Payments : settle(r, k)
    BY <1>9
  <2> QED
    BY <1>3, <2>1
<1>10. CASE \E k \in Steps, v \in ByHand : fillByHand(k, v)
  <2>1. PICK k \in Steps, v \in ByHand : fillByHand(k, v)
    BY <1>10
  <2> QED
    BY <1>4, <2>1, Distinct
<1> QED
  BY <1>1, <1>2, <1>5, <1>6, <1>7, <1>8, <1>9, <1>10 DEF EvaluationNext

-----------------------------------------------------------------------------
(* Theorems *)

\* Every variable holds values of its kind, whatever the runs, the servers and the
\* requirements.
THEOREM EvaluationTypes == EvaluationSpec => []EvaluationTypeOK
<1>1. EvaluationInv => EvaluationTypeOK
  BY DEF EvaluationInv
<1> QED
  BY <1>1, EvaluationInvHolds, PTL

\* Whatever an evaluation called is in the journal of the saved tree, whichever
\* save was lost, overtaken or thrown away ("persist before sending").
THEOREM EveryCallRecorded == EvaluationSpec => []RecordedBeforeCall
<1>1. EvaluationInv => RecordedBeforeCall
  BY DEF EvaluationInv
<1> QED
  BY <1>1, EvaluationInvHolds, PTL

\* A requirement that is paid for is filled, and its task done, when the provider
\* confirmed a payment for it, and not before.
THEOREM DoneWhenPaid == EvaluationSpec => []PaidWhenDone
<1>1. ASSUME EvaluationInv PROVE PaidWhenDone
  <2> SUFFICES ASSUME NEW k \in Payments, tree.value[k] = Grant \/ (tree.done /\ ~onDevice)
               PROVE  k \in Paid
    BY DEF PaidWhenDone, Paid
  <2>1. Honest(tree, Paid, onDevice) /\ Filled(tree)
    BY <1>1, SavedTree DEF Sound
  <2> QED
    BY <2>1, PaymentsAreSteps DEF Honest, Filled
<1> QED
  BY <1>1, EvaluationInvHolds, PTL

\* An evaluation begins over another's journal only when all that one called is
\* answered, waited for, rolled back, or reviewed by someone.
THEOREM RerunAfterReview == EvaluationSpec => ReviewedBeforeRerun
<1>1. ASSUME EvaluationInv, [EvaluationNext]_evalVars
      PROVE  [tree'.journal.run # tree.journal.run =>
                \A r \in Runs : tree.journal.run = r =>
                    \A k \in called[r] : \/ tree.journal.effect[k] \in {"applied", "pending-review", "reverted"}
                                         \/ tree.journal.task[k] = "done"]_evalVars
  <2> SUFFICES ASSUME tree'.journal.run # tree.journal.run,
                      NEW r \in Runs, tree.journal.run = r, NEW k \in called[r]
               PROVE  \/ tree.journal.effect[k] \in {"applied", "pending-review", "reverted"}
                      \/ tree.journal.task[k] = "done"
    OBVIOUS
  <2>1. tree.journal.status \in Rerunnable
    BY <1>1, RunJournal, OutsideMoves
  <2>2. k \in Steps /\ tree.journal.effect[k] # "none"
    BY <1>1 DEF EvaluationInv, EvaluationTypeOK, RecordedBeforeCall
  <2>3. Accounted(tree.journal)
    BY <1>1, SavedTree DEF Sound
  <2> QED
    BY <2>1, <2>2, <2>3 DEF Accounted
<1> QED
  BY <1>1, EvaluationInvHolds, PTL DEF EvaluationSpec, ReviewedBeforeRerun

\* A run that was recovered, or overtaken by another server, never completes the
\* task: a journal is committed by the run whose journal it was already.
THEOREM OwnCompletion == EvaluationSpec => CompletesItsOwn
<1>1. ASSUME EvaluationInv, [EvaluationNext]_evalVars
      PROVE  [\A r \in Runs :
                /\ tree'.journal.run = r /\ tree'.journal.status = "committed"
                /\ tree' # tree
                => tree.journal.run = r /\ tree.journal.status \in {"committing", "committed"}]_evalVars
  BY <1>1, RunJournal, OutsideMoves
<1> QED
  BY <1>1, EvaluationInvHolds, PTL DEF EvaluationSpec, CompletesItsOwn

\* What was filled in by hand is replaced by hand, or by an answer that was proposed
\* over it; a rollback leaves it.
THEOREM ByHandStays == EvaluationSpec => ByHandKept
<1>1. ASSUME EvaluationInv, [EvaluationNext]_evalVars
      PROVE  [\A k \in Steps :
                tree.value[k] \in ByHand /\ tree'.value[k] # tree.value[k] =>
                    \/ tree'.value[k] \in ByHand
                    \/ \E r \in Runs : tree'.value[k] = r /\ tree.write[r][k] = tree.value[k]]_evalVars
  <2> SUFFICES ASSUME NEW k \in Steps, tree.value[k] \in ByHand, tree'.value[k] # tree.value[k]
               PROVE  \/ tree'.value[k] \in ByHand
                      \/ \E r \in Runs : tree'.value[k] = r /\ tree.write[r][k] = tree.value[k]
    OBVIOUS
  <2>1. ~ValuesKept
    BY DEF ValuesKept
  <2>2. ASSUME NEW r \in Runs, RunStep(r)
        PROVE  tree'.value[k] = r /\ tree.write[r][k] = tree.value[k]
    <3>1. CASE CompletedBy(r)
      BY <3>1 DEF CompletedBy
    <3>2. CASE Undone(r)
      BY <3>2, Distinct DEF Undone
    <3> QED
      BY <1>1, <2>1, <2>2, <3>1, <3>2, RunValues
  <2>3. ASSUME NEW j \in Steps, NEW v \in ByHand \cup {Grant}, tree'.value = [tree.value EXCEPT ![j] = v],
               v = Grant => tree.value[j] = Unmet
        PROVE  tree'.value[k] \in ByHand
    <3>1. tree.value \in [Steps -> Fillings]
      BY <1>1, SavedTree, TreeParts
    <3>2. tree'.value[k] = IF k = j THEN v ELSE tree.value[k]
      BY <2>3, <3>1
    <3> QED
      BY <2>3, <3>2, Distinct
  <2> QED
    BY <1>1, <2>1, <2>2, <2>3, OutsideMoves
<1> QED
  BY <1>1, EvaluationInvHolds, PTL DEF EvaluationSpec, ByHandKept

\* In the saved tree the answers of an evaluation and the completion of its task
\* come together, and are taken back together, whatever fails in between: the
\* evaluation implements the completion that Completion.tla specifies.
THEOREM EvaluationImplementsCompletion == EvaluationSpec => CompletesAtOnce
<1>1. EvaluationInit => Atomic!StartEmpty
  BY DEF EvaluationInit, Unworked, Atomic!StartEmpty
<1>2. ASSUME EvaluationInv, EvaluationInv', [EvaluationNext]_evalVars
      PROVE  [Atomic!CompletionStep]_<<tree.value, tree.done>>
  <2>1. CASE ValuesKept
    BY <2>1 DEF ValuesKept
  <2>2. /\ tree.value \in [Steps -> Fillings] /\ tree'.value \in [Steps -> Fillings]
        /\ tree'.done \in BOOLEAN
        /\ tree'.done => \A k \in Steps : tree'.value[k] # Unmet
    <3>1. tree \in Trees /\ tree' \in Trees /\ Filled(tree')
      BY <1>2 DEF EvaluationInv, EvaluationTypeOK, TreesSound, Sound
    <3> QED
      BY <3>1, TreeParts DEF Filled
  <2>3. ASSUME NEW r \in Runs, CompletedBy(r) PROVE Atomic!CompletionStep
    <3>1. Wrote(tree, r) \in SUBSET Steps /\ tree'.done = TRUE
      BY <2>2, <2>3 DEF Wrote, CompletedBy
    <3>2. Atomic!Complete(r)
      BY <2>2, <2>3, <3>1 DEF CompletedBy, Atomic!Complete
    <3> QED
      BY <3>2 DEF Atomic!CompletionStep
  <2>4. ASSUME NEW r \in Runs, Undone(r) PROVE Atomic!CompletionStep
    <3>1. Atomic!TakeBack(r)
      BY <2>2, <2>4 DEF Undone, Atomic!TakeBack
    <3> QED
      BY <3>1 DEF Atomic!CompletionStep
  <2>5. ASSUME NEW k \in Steps, NEW v \in ByHand \cup {Grant},
               tree'.value = [tree.value EXCEPT ![k] = v], tree'.done = tree.done
        PROVE  Atomic!CompletionStep
    BY <2>5 DEF Atomic!CompletionStep, Atomic!Fill
  <2>6. CASE \E r \in Runs : RunStep(r)
    BY <1>2, <2>1, <2>3, <2>4, <2>6, RunValues
  <2>7. CASE ~\E r \in Runs : RunStep(r)
    BY <1>2, <2>1, <2>5, <2>7, OutsideMoves
  <2> QED
    BY <2>6, <2>7
<1> QED
  BY <1>1, <1>2, EvaluationInvHolds, PTL DEF EvaluationSpec, CompletesAtOnce, Atomic!CompletionSpec
=============================================================================
