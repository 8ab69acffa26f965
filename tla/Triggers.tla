------------------------------ MODULE Triggers ------------------------------
(***************************************************************************)
(* Triggers of a device (shared/sync/triggers.ts, runTriggers in           *)
(* web/src/app.ts): rows that fire an evaluation at a time, or when the    *)
(* task above them is completed.  A browser may have several tabs of the   *)
(* device open: each has the tree in memory and saves it over the one in   *)
(* storage; a lock of the browser lets one of them at a time walk through  *)
(* the triggers.  An occurrence is claimed, in the memory, before it is      *)
(* evaluated.  Times count the edits of the owner.                         *)
(***************************************************************************)
EXTENDS Integers, FiniteSets

CONSTANTS
    Tabs,
    Timers,     \* the triggers, in the order of their rows
    Completions,
    MaxEdits    \* bound: edits of the owner that a trigger sees

Triggers == Timers \cup Completions

ASSUME TriggersAssumption ==
    /\ Triggers \subseteq Nat \ {0} /\ Timers \cap Completions = {}
    /\ MaxEdits \in Nat \ {0}

VARIABLES
    clock,
    listed,   \* the triggers there are
    memory,   \* per tab, the tree in its memory
    stored,   \* the tree in the browser's storage
    walk,     \* the walk through the triggers under way
    claims    \* history: what was claimed and not taken back

triggerVars == <<clock, listed, memory, stored, walk, claims>>

\* A trigger's configuration, its state, and the task above; 0 stands for no time.
Config == [created : 0 .. MaxEdits, enabled : BOOLEAN]
TriggerState == [occurrence : 0 .. MaxEdits, status : {"none", "running", "finished", "failed"}]
Tree == [config : [Triggers -> Config], state : [Triggers -> TriggerState],
         done : 0 .. MaxEdits, updated : 0 .. MaxEdits]

NoState == [occurrence |-> 0, status |-> "none"]
Armed == [occurrence |-> 0, status |-> "finished"]

\* The task may be completed already.
NewTree(done) ==
    [config |-> [t \in Triggers |-> [created |-> 1, enabled |-> t \in Completions]],
     state |-> [t \in Triggers |-> NoState], done |-> done, updated |-> done]

NoWalk == [tab |-> {}, next |-> 0, firing |-> 0, occurrence |-> 0, config |-> NewTree(0).config, persisted |-> NewTree(0)]

TriggersInit ==
    /\ clock = 1
    /\ listed \in SUBSET Triggers
    /\ stored \in {NewTree(0), NewTree(1)} /\ memory = [x \in Tabs |-> stored]
    /\ walk = NoWalk
    /\ claims = {}

-----------------------------------------------------------------------------
(* Observers (trigger-primitives.ts) *)

Claimed(state) == state.status = "finished" /\ state.occurrence # 0

Completed(at, config) == at.done # 0 /\ at.updated >= config.created

\* What a trigger with this configuration would fire for, in the tree `at`.
triggerOccurrence(at, t, config) ==
    IF ~config.enabled THEN 0
    ELSE IF t \in Timers THEN config.created
    ELSE IF Completed(at, config) /\ ~Claimed(at.state[t]) THEN at.updated ELSE 0

\* The task was opened again: the next completion is another occurrence.
Resets(at, t, config) ==
    /\ config.enabled /\ t \in Completions
    /\ ~Completed(at, config) /\ Claimed(at.state[t])

\* Is there something to do for t?
Observed(at, t, config) ==
    /\ at.state[t].status \in {"none", "finished"}
    /\ \/ Resets(at, t, config)
       \/ triggerOccurrence(at, t, config) \notin {0, at.state[t].occurrence}

\* What a configuration fired for: its time, or the completion, however the task is
\* edited while it is done.
For(at, t, config) == <<t, config.created, IF t \in Timers THEN 0 ELSE at.done>>

-----------------------------------------------------------------------------
(* The walk (runNodeTriggers) *)

\* Mutant: what the storage has of the trigger is not looked at.
availableAnyway(w, at, t) == TRUE

\* The stored memory, as it was when the walk began, knows nothing this tab does not.
available(w, at, t) ==
    LET saved == w.persisted.state[t]
        seen == triggerOccurrence(at, t, at.config[t]) IN
    saved.status # "none" =>
        /\ triggerOccurrence(w.persisted, t, at.config[t]) = seen
        /\ saved.occurrence # at.state[t].occurrence =>
              saved.status = "finished" /\ saved.occurrence # seen

\* A save replaces the stored tree: by one of before, when another tab has saved since.
Overwritten(x) ==
    IF stored = memory[x] THEN {}
    ELSE {c \in claims : memory[x].state[c.for[1]].occurrence # c.occurrence}

Save(x, at) ==
    /\ memory' = [memory EXCEPT ![x] = at]
    /\ stored' = at

\* From a walk's next trigger on, the first there is something to do for.  The walk
\* goes by the configurations it began with.
Visited(w, at) ==
    LET todo == {t \in listed : t >= w.next /\ available(w, at, t) /\ Observed(at, t, w.config[t])} IN
    {t \in todo : \A u \in todo : t <= u}

visit(x, w) ==
    LET at == memory[x] IN
    \/ /\ Visited(w, at) = {}
       /\ walk' = NoWalk
       /\ UNCHANGED <<memory, stored, claims>>
    \/ \E t \in Visited(w, at) :
          /\ Resets(at, t, w.config[t])
          /\ Save(x, [at EXCEPT !.state[t] = Armed])
          /\ walk' = [w EXCEPT !.next = t + 1]
          /\ claims' = claims \ Overwritten(x)
    \/ \E t \in Visited(w, at) :
          LET o == triggerOccurrence(at, t, w.config[t]) IN
          /\ ~Resets(at, t, w.config[t])
          /\ Save(x, [at EXCEPT !.state[t] = [occurrence |-> o, status |-> "running"]])
          /\ walk' = [w EXCEPT !.next = t, !.firing = t, !.occurrence = o]
          /\ claims' = (claims \ Overwritten(x)) \cup {[for |-> For(at, t, w.config[t]), occurrence |-> o]}

runTriggers(x) ==
    /\ walk = NoWalk
    /\ \E t \in listed : Observed(memory[x], t, memory[x].config[t])
    /\ visit(x, [NoWalk EXCEPT !.tab = {x}, !.next = 1, !.config = memory[x].config, !.persisted = stored])
    /\ UNCHANGED <<clock, listed>>

continue(x) ==
    /\ walk.tab = {x} /\ walk.firing = 0
    /\ visit(x, walk)
    /\ UNCHANGED <<clock, listed>>

\* The evaluation ended: its outcome goes into the tree as it is now.
finish(x) ==
    LET t == walk.firing IN
    /\ walk.tab = {x} /\ t # 0
    /\ \E outcome \in {"finished", "failed"} :
          Save(x, [memory[x] EXCEPT !.state[t] = [occurrence |-> walk.occurrence, status |-> outcome]])
    /\ walk' = [walk EXCEPT !.next = t + 1, !.firing = 0, !.occurrence = 0]
    /\ claims' = claims \ Overwritten(x)
    /\ UNCHANGED <<clock, listed>>

-----------------------------------------------------------------------------
(* The owner *)

Edit(x, at) ==
    /\ Save(x, at)
    /\ UNCHANGED <<walk, listed>>
    /\ claims' = claims \ Overwritten(x)

Timed(x, at) == clock < MaxEdits /\ clock' = clock + 1 /\ Edit(x, at)

\* Anything else is edited, or the running evaluation saves a step.
editElsewhere(x) == Edit(x, memory[x]) /\ clock' = clock

setTaskDone(x) ==
    Timed(x, [memory[x] EXCEPT !.done = IF @ = 0 THEN clock + 1 ELSE 0, !.updated = clock + 1])

renameTask(x) == Timed(x, [memory[x] EXCEPT !.updated = clock + 1])

\* A new configuration keeps the state; what it will fire for is new.
configureTrigger(x, t) ==
    Timed(x, [memory[x] EXCEPT !.config[t] = [created |-> clock + 1, enabled |-> TRUE]])

toggleTrigger(x, t) == Timed(x, [memory[x] EXCEPT !.config[t].enabled = ~@])

\* Not while the evaluation it fired is under way in this tab.
retryCurrentTrigger(x, t) ==
    /\ memory[x].state[t].status # "none" /\ ~(walk.tab = {x} /\ walk.firing = t)
    /\ clock < MaxEdits /\ clock' = clock + 1
    /\ Save(x, [memory[x] EXCEPT !.state[t] = Armed])
    /\ UNCHANGED <<walk, listed>>
    /\ claims' = {c \in claims \ Overwritten(x) : c.for[1] # t}

\* A tab is closed or crashes, gives the lock up, and is opened again on what is stored.
reload(x) ==
    /\ memory' = [memory EXCEPT ![x] = stored]
    /\ walk' = IF walk.tab = {x} THEN NoWalk ELSE walk
    /\ UNCHANGED <<clock, listed, stored, claims>>

TriggersNext ==
    \E x \in Tabs :
        \/ runTriggers(x) \/ continue(x) \/ finish(x)
        \/ editElsewhere(x) \/ setTaskDone(x) \/ renameTask(x)
        \/ \E t \in listed : configureTrigger(x, t) \/ toggleTrigger(x, t) \/ retryCurrentTrigger(x, t)
        \/ reload(x)

TriggersSpec == TriggersInit /\ [][TriggersNext]_triggerVars

-----------------------------------------------------------------------------
(* Properties *)

TriggersTypeOK ==
    /\ clock \in 1 .. MaxEdits
    /\ memory \in [Tabs -> Tree] /\ stored \in Tree
    /\ Cardinality(walk.tab) <= 1 /\ walk.tab \subseteq Tabs
    /\ walk.firing \in listed \cup {0} /\ listed \subseteq Triggers /\ walk.persisted \in Tree

Fires(x, t) == walk.firing = 0 /\ walk'.firing = t /\ walk'.tab = {x}

\* A timer's time, or one completion of the task, is claimed and evaluated only once,
\* whichever tabs see it, are closed or are reloaded, whatever the evaluation comes to
\* and whatever else is edited: only the owner arms it again, or a tab that saves a
\* copy of the tree from before the claim over the stored one, or a tab that has not seen
\* the configuration by which the trigger goes since.
FiresOnce ==
    [][\A x \in Tabs, t \in Triggers : Fires(x, t) =>
          \A c \in claims : c.for = For(memory[x], t, walk'.config[t])
                               => walk'.persisted.config[t].created > c.for[2]]_triggerVars
=============================================================================
