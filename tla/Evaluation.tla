----------------------------- MODULE Evaluation -----------------------------
(***************************************************************************)
(* Completing a task (shared/sync/evaluation.ts, transactions.ts): a run   *)
(* of evaluateNode calls what fills the task's requirements, keeps a       *)
(* journal of it in the tree, and publishes the answers and the completion *)
(* in one commit.  It is hosted by the account's servers, over one saved   *)
(* tree (backend/sync/evaluation.ts), or by the app on a device, whose     *)
(* owner goes on editing (web/src/app.ts).  A payment is opened by a run   *)
(* and confirmed later (backend/sync/payments.ts).                         *)
(***************************************************************************)
EXTENDS Integers

CONSTANTS
    Runs,      \* calls of evaluateNode: each is the run, its id and its transaction
    LastStep,      \* requirements are numbered in the order they are executed
    Payments,  \* those a server opens a payment for
    Servers,
    ServerOf,  \* the server a run is on
    ByHand,    \* values the owner may fill a requirement with
    Unmet,      \* not filled
    Grant,     \* the grant of a confirmed payment
    NoRun

Steps == 1..LastStep
Fillings == Runs \cup ByHand \cup {Unmet, Grant}

ASSUME EvaluationAssumption ==
    /\ LastStep \in Nat
    /\ Payments \subseteq Steps
    /\ ServerOf \in [Runs -> Servers]
    /\ Runs \cap (ByHand \cup {Unmet, Grant, NoRun}) = {}
    /\ ByHand \cap {Unmet, Grant, NoRun} = {}
    /\ Unmet # Grant /\ Unmet # NoRun /\ Grant # NoRun

VARIABLES
    onDevice,  \* the app hosts the runs, not the servers
    tree,      \* the saved tree: the account's, or the app's
    pc,        \* per run, the save or call it awaits
    held,      \* per run, driver.get(): its host's tree
    before,    \* per run, the tree its completion was published over
    stale,     \* per run, the account was saved by others since it was loaded
    reworded,  \* per run, an instruction changed since it began
    aged,      \* runs begun more than three minutes ago
    session,   \* per run and payment, the provider's page for it
    called     \* history: per run, the requirements it called a primitive for

runVars == <<pc, held, before, stale, reworded>>
evalVars == <<onDevice, tree, runVars, aged, session, called>>

Statuses == {"idle", "opening", "running", "committing", "committed",
             "awaiting-review", "rolled-back", "needs-recovery"}
Effects == {"none", "attempting", "applied", "pending-review", "reverted", "manual"}

Journals == [run : Runs \cup {NoRun}, status : Statuses,
             effect : [Steps -> Effects],
             task : [Steps -> {"none", "open", "done"}]]  \* the row asking for a review of the effect

\* A pending write is known by the value it was proposed over; NoRun stands for none.
Trees == [journal : Journals, value : [Steps -> Fillings], done : BOOLEAN,
          write : [Runs -> [Steps -> Fillings \cup {NoRun}]]]

NoJournal(r, s) == [run |-> r, status |-> s, effect |-> [k \in Steps |-> "none"], task |-> [k \in Steps |-> "none"]]
NoWrites == [k \in Steps |-> NoRun]

Unworked == [journal |-> NoJournal(NoRun, "idle"), value |-> [k \in Steps |-> Unmet], done |-> FALSE,
             write |-> [r \in Runs |-> NoWrites]]

EvaluationInit ==
    /\ onDevice \in BOOLEAN
    /\ tree = Unworked
    /\ pc = [r \in Runs |-> "ready"]
    /\ held = [r \in Runs |-> Unworked]
    /\ before = [r \in Runs |-> Unworked]
    /\ stale = [r \in Runs |-> FALSE]
    /\ reworded = [r \in Runs |-> FALSE]
    /\ aged = {}
    /\ session = [r \in Runs |-> [k \in Payments |-> "none"]]
    /\ called = [r \in Runs |-> {}]

-----------------------------------------------------------------------------
(* Saves *)

Working(r) == pc[r] \notin {"ready", "over"}

\* The account's lock: a server does one thing at a time with it.
FreeServer == \E s \in Servers : \A r \in Runs : Working(r) => ServerOf[r] # s

\* The account is saved by the runs `by`, or by some other request: whoever
\* loaded it before can save it no more (storeToDb compares the roots).
Replace(t, by) ==
    /\ tree' = t
    /\ stale' = [r \in Runs |-> stale[r] \/ (Working(r) /\ r \notin by /\ t # tree)]

\* The run's tree becomes t, to be saved at `next`.  The app shows it, and
\* keeps it, from then on.
Go(r, next, t) ==
    /\ pc' = [pc EXCEPT ![r] = next]
    /\ held' = [held EXCEPT ![r] = IF next = "over" THEN Unworked ELSE t]
    /\ before' = [before EXCEPT ![r] = IF next = "publishing" THEN held[r] ELSE Unworked]
    /\ reworded' = [reworded EXCEPT ![r] = @ /\ next # "over"]

\* Mutant: the database takes the save whatever was loaded.
AnsweredAnyway(r, next, t) ==
    /\ Go(r, next, t)
    /\ IF onDevice THEN tree' = t /\ UNCHANGED stale ELSE Replace(held[r], {r})

\* The save the run awaited is answered, and it goes on.
Answered(r, next, t) ==
    /\ Go(r, next, t)
    /\ IF onDevice THEN tree' = t /\ UNCHANGED stale ELSE ~stale[r] /\ Replace(held[r], {r})

\* The save throws: nothing was saved, or it was and the answer is lost.
Unanswered(r, next, t) ==
    /\ Go(r, next, t)
    /\ IF onDevice THEN tree' = t /\ UNCHANGED stale
       ELSE \/ /\ UNCHANGED tree
               /\ stale' = [stale EXCEPT ![r] = @ /\ next # "over"]
            \/ /\ ~stale[r] /\ held[r] # tree
               /\ tree' = held[r]
               /\ stale' = [q \in Runs |-> IF q = r THEN next # "over" ELSE stale[q] \/ Working(q)]

-----------------------------------------------------------------------------
(* A run *)

Marked(t, s) == [t EXCEPT !.journal.status = s]

\* check: within two minutes, and the instructions are those it began with.
Passes(r) == r \notin aged /\ ~reworded[r]

Rerunnable == {"idle", "committed", "rolled-back", "awaiting-review"}

\* The owner completes the task, or a confirmed payment continues it.
evaluateNode(r) ==
    /\ pc[r] = "ready"
    /\ \A q \in Runs : Working(q) => ~onDevice /\ ServerOf[q] # ServerOf[r]
    /\ tree.journal.status \in Rerunnable
    /\ LET t == [tree EXCEPT !.journal = NoJournal(r, "opening")] IN
       /\ Go(r, "opening", t)
       /\ tree' = IF onDevice THEN t ELSE tree
    /\ UNCHANGED <<onDevice, stale, aged, session, called>>

openSteps(r) ==
    /\ pc[r] = "opening"
    /\ Passes(r)
    /\ Answered(r, "running", Marked(held[r], "running"))
    /\ UNCHANGED <<onDevice, aged, session, called>>

Attempting(r, k) == held[r].journal.effect[k] = "attempting"
Unfilled(r) == {k \in Steps : held[r].value[k] = Unmet /\ \A j \in k..LastStep : held[r].journal.effect[j] = "none"}

\* On to the next requirement nothing fills yet.
attempt(r) ==
    /\ pc[r] \in {"running", "applied"}
    /\ Passes(r)
    /\ \E k \in Unfilled(r) :
        /\ \A j \in Unfilled(r) : k <= j
        /\ Answered(r, "attempting", [held[r] EXCEPT !.journal.effect[k] = "attempting"])
    /\ UNCHANGED <<onDevice, aged, session, called>>

\* Mutant: the primitive is called without waiting for the save.
callUnsaved(r) ==
    /\ pc[r] = "attempting"
    /\ Go(r, "calling", held[r])
    /\ called' = [called EXCEPT ![r] = @ \cup {k \in Steps : Attempting(r, k)}]
    /\ UNCHANGED <<onDevice, tree, stale, aged, session>>

\* runPrimitive calls once the attempt is saved.
call(r) ==
    /\ pc[r] = "attempting"
    /\ Answered(r, "calling", held[r])
    /\ called' = [called EXCEPT ![r] = @ \cup {k \in Steps : Attempting(r, k)}]
    /\ UNCHANGED <<onDevice, aged, session>>

Pays(k) == k \in Payments /\ ~onDevice
Opened(r, k) == [session EXCEPT ![r][k] = "open"]

\* The primitive answers a value, proposed over what is there by now; or a
\* payment was opened and waits for its confirmation.
runPrimitive(r) ==
    /\ pc[r] = "calling"
    /\ \E k \in Steps :
        /\ Attempting(r, k)
        /\ LET t == IF Pays(k) THEN held[r] ELSE [held[r] EXCEPT !.write[r][k] = held[r].value[k]] IN
           /\ Go(r, "answered", t)
           /\ tree' = IF onDevice THEN t ELSE tree
        /\ session' = IF Pays(k) THEN Opened(r, k) ELSE session
    /\ UNCHANGED <<onDevice, stale, aged, called>>

recordEffect(r) ==
    /\ pc[r] = "answered"
    /\ \E k \in Steps :
        /\ Attempting(r, k)
        /\ Answered(r, "applied", [held[r] EXCEPT !.journal.effect[k] = IF Pays(k) THEN "pending-review" ELSE "applied"])
    /\ UNCHANGED <<onDevice, aged, session, called>>

\* No requirement is left: the run parks if one waits, else it commits.
conclude(r) ==
    /\ pc[r] \in {"running", "applied"}
    /\ Unfilled(r) = {}
    /\ (\E k \in Steps : k = LastStep /\ held[r].journal.effect[k] = "none") => Passes(r)
    /\ IF \E k \in Steps : held[r].journal.effect[k] = "pending-review"
       THEN Answered(r, "awaiting", Marked(held[r], "awaiting-review"))
       ELSE Answered(r, "committing", Marked(held[r], "committing"))
    /\ UNCHANGED <<onDevice, aged, session, called>>

Wrote(t, r) == {k \in Steps : t.write[r][k] # NoRun}

\* Every pending write, the task done and the journal committed.
Published(t, r) ==
    [journal |-> Marked(t, "committed").journal, done |-> TRUE,
     value |-> [k \in Steps |-> IF k \in Wrote(t, r) THEN r ELSE t.value[k]],
     write |-> [t.write EXCEPT ![r] = NoWrites]]

\* Mutant: a value filled since is written over.
publishUnchecked(r) ==
    /\ pc[r] = "committing"
    /\ Passes(r)
    /\ \A k \in Steps : held[r].value[k] = Unmet => k \in Wrote(held[r], r)
    /\ Answered(r, "publishing", Published(held[r], r))
    /\ UNCHANGED <<onDevice, aged, session, called>>

\* Each destination is as it was when its write was proposed, and nothing is
\* left open: the completion is published, and saved.
publish(r) ==
    /\ pc[r] = "committing"
    /\ Passes(r)
    /\ \A k \in Wrote(held[r], r) : held[r].write[r][k] = held[r].value[k]
    /\ \A k \in Steps : held[r].value[k] = Unmet => k \in Wrote(held[r], r)
    /\ Answered(r, "publishing", Published(held[r], r))
    /\ UNCHANGED <<onDevice, aged, session, called>>

return(r) ==
    /\ pc[r] \in {"awaiting", "publishing", "closing"}
    /\ Answered(r, "over", held[r])
    /\ UNCHANGED <<onDevice, aged, session, called>>

-----------------------------------------------------------------------------
(* A run that fails *)

\* Mutant: the answers are taken back and the task stays done.
LeftDone(r) ==
    [before[r] EXCEPT !.done = TRUE, !.value = [k \in Steps |->
        IF held[r].value[k] = Published(before[r], r).value[k] THEN before[r].value[k] ELSE held[r].value[k]]]

\* A published completion that was not saved is merged out again: what
\* changed meanwhile stays.
MergedOut(r) ==
    [before[r] EXCEPT !.value = [k \in Steps |->
        IF held[r].value[k] = Published(before[r], r).value[k] THEN before[r].value[k] ELSE held[r].value[k]]]

Discarded(r) == [IF pc[r] = "publishing" THEN MergedOut(r) ELSE held[r] EXCEPT !.write[r] = NoWrites]

\* A save throws, or a check or compiling the operands does after it.
fail(r) ==
    /\ \/ /\ pc[r] \in {"running", "attempting", "answered", "applied", "awaiting", "committing", "publishing"}
          /\ Unanswered(r, "discarding", Discarded(r))
       \/ /\ pc[r] \in {"opening", "running", "attempting", "applied", "committing"}
          /\ Answered(r, "discarding", Discarded(r))
    /\ UNCHANGED <<onDevice, aged, session, called>>

\* The primitive throws; a payment may have been opened all the same.
failCall(r) ==
    /\ pc[r] = "calling"
    /\ Go(r, "discarding", Discarded(r))
    /\ tree' = IF onDevice THEN Discarded(r) ELSE tree
    /\ session' \in {session} \cup {Opened(r, k) : k \in {j \in Steps : Attempting(r, j) /\ Pays(j)}}
    /\ UNCHANGED <<onDevice, stale, aged, called>>

\* Mutant: the run's status is set to that of its effects.
RevertedAll(t) ==
    [t EXCEPT !.journal.status = "reverted",
              !.journal.effect = [k \in Steps |-> IF @[k] = "none" THEN "none" ELSE "reverted"]]

RolledBack(t) ==
    [t EXCEPT !.journal.status = "rolled-back",
              !.journal.effect = [k \in Steps |-> IF @[k] = "none" THEN "none" ELSE "reverted"]]

\* Whether or not the pending writes were dropped, the journal is closed.
rollBack(r) ==
    /\ pc[r] = "discarding"
    /\ LET t == RolledBack(held[r]) IN Answered(r, "closing", t) \/ Unanswered(r, "closing", t)
    /\ UNCHANGED <<onDevice, aged, session, called>>

\* The journal could not be opened, or not be closed: the caller gets the error.
giveUp(r) ==
    /\ pc[r] \in {"opening", "closing"}
    /\ Unanswered(r, "over", held[r])
    /\ UNCHANGED <<onDevice, aged, session, called>>

\* The server or the app stops.
stop(r) ==
    /\ Working(r)
    /\ Go(r, "over", held[r])
    /\ stale' = [stale EXCEPT ![r] = FALSE]
    /\ UNCHANGED <<onDevice, tree, aged, session, called>>

-----------------------------------------------------------------------------
(* Meanwhile *)

GrowOlder(r) ==
    /\ Working(r) \/ tree.journal.run = r
    /\ r \notin aged
    /\ aged' = aged \cup {r}
    /\ UNCHANGED <<onDevice, tree, runVars, session, called>>

\* Another request saves the account, on a server where no run holds its lock.
Elsewhere(t) ==
    /\ ~onDevice /\ FreeServer
    /\ Replace(t, {})
    /\ UNCHANGED <<onDevice, pc, held, before, reworded, aged, called>>

\* The owner fills a requirement.  (What the app makes of a value that is being
\* published at that moment, a choice of versions, is left out.)
fillByHand(k, v) ==
    /\ k \notin Payments /\ tree.value[k] # v
    /\ LET t == [tree EXCEPT !.value[k] = v] IN
       \/ Elsewhere(t)
       \/ /\ onDevice
          /\ \A r \in Runs : pc[r] = "publishing" => tree.value[k] # r
          /\ tree' = t
          /\ held' = [r \in Runs |-> IF Working(r) THEN t ELSE held[r]]
          /\ UNCHANGED <<onDevice, pc, before, stale, reworded, aged, called>>
    /\ UNCHANGED session

\* The owner changes an instruction, or the rows under a requirement.
reword(r) ==
    /\ onDevice /\ Working(r) /\ ~reworded[r]
    /\ reworded' = [reworded EXCEPT ![r] = TRUE]
    /\ UNCHANGED <<onDevice, tree, pc, held, before, stale, aged, session, called>>

PayPage(r, k) ==
    /\ session[r][k] = "open"
    /\ \E outcome \in {"paid", "expired"} : session' = [session EXCEPT ![r][k] = outcome]
    /\ UNCHANGED <<onDevice, tree, runVars, aged, called>>

\* Mutant: an expired page is settled as well.
settleAny(r, k) ==
    /\ session[r][k] \in {"paid", "expired"}
    /\ tree.value[k] = Unmet
    /\ Elsewhere([tree EXCEPT !.value[k] = Grant])
    /\ UNCHANGED session

\* A confirmation delivered again, or one of another page for the same
\* requirement, finds it filled and changes nothing.
settle(r, k) ==
    /\ session[r][k] = "paid"
    /\ tree.value[k] = Unmet
    /\ Elsewhere([tree EXCEPT !.value[k] = Grant])
    /\ UNCHANGED session

-----------------------------------------------------------------------------
(* Recovery *)

Loose(t) == {k \in Steps : t.journal.effect[k] \notin {"none", "reverted"}}

\* Mutant: a review is enough, whether or not its tasks are done.
ReviewedAtOnce(t) ==
    [t EXCEPT !.journal.effect = [k \in Steps |-> IF k \in Loose(t) THEN "manual" ELSE @[k]],
              !.journal.status = "rolled-back"]

\* Every effect gets a task; when the tasks are done the evaluation may run again.
Reviewed(t) ==
    LET task == [k \in Steps |-> IF k \in Loose(t) /\ t.journal.task[k] = "none" THEN "open" ELSE t.journal.task[k]] IN
    [t EXCEPT !.journal.task = task,
              !.journal.effect = [k \in Steps |-> IF k \in Loose(t) THEN "manual" ELSE @[k]],
              !.journal.status = IF \E k \in Loose(t) : task[k] # "done" THEN "needs-recovery" ELSE "rolled-back"]

Recoverable ==
    \/ tree.journal.status = "needs-recovery"
    \/ tree.journal.status \in {"opening", "running", "committing"} /\ tree.journal.run \in aged

\* The app alone recovers only what has called nothing.
recoverEvaluation ==
    /\ Recoverable
    /\ LET t == Reviewed(tree) IN
       \/ Elsewhere(t)
       \/ /\ onDevice /\ \A r \in Runs : ~Working(r)
          /\ \A k \in Steps : tree.journal.effect[k] = "none"
          /\ tree' = t
          /\ UNCHANGED <<onDevice, runVars, aged, called>>
    /\ UNCHANGED session

\* Someone completes the task that asks to roll an effect back or verify it.
doTask(k) ==
    /\ tree.journal.task[k] = "open"
    /\ Elsewhere([tree EXCEPT !.journal.task[k] = "done"])
    /\ UNCHANGED session

-----------------------------------------------------------------------------
RunStep(r) ==
    \/ evaluateNode(r) \/ openSteps(r) \/ attempt(r) \/ call(r) \/ runPrimitive(r) \/ recordEffect(r)
    \/ conclude(r) \/ publish(r) \/ return(r)
    \/ fail(r) \/ failCall(r) \/ rollBack(r) \/ giveUp(r) \/ stop(r)

EvaluationNext ==
    \/ \E r \in Runs : RunStep(r) \/ GrowOlder(r) \/ reword(r)
    \/ \E r \in Runs, k \in Payments : PayPage(r, k) \/ settle(r, k)
    \/ \E k \in Steps, v \in ByHand : fillByHand(k, v)
    \/ \E k \in Steps : doTask(k)
    \/ recoverEvaluation

EvaluationSpec == EvaluationInit /\ [][EvaluationNext]_evalVars

-----------------------------------------------------------------------------
(* Properties *)

\* Where a run is.
Points == {"ready", "opening", "running", "attempting", "calling", "answered", "applied", "awaiting",
           "committing", "publishing", "discarding", "closing", "over"}

\* Every variable holds values of its kind.
EvaluationTypeOK ==
    /\ onDevice \in BOOLEAN
    /\ tree \in Trees
    /\ pc \in [Runs -> Points]
    /\ held \in [Runs -> Trees]
    /\ before \in [Runs -> Trees]
    /\ stale \in [Runs -> BOOLEAN]
    /\ reworded \in [Runs -> BOOLEAN]
    /\ aged \subseteq Runs
    /\ session \in [Runs -> [Payments -> {"none", "open", "paid", "expired"}]]
    /\ called \in [Runs -> SUBSET Steps]

\* Whatever an evaluation called is in the journal of the tree that a restart or
\* another server finds ("persist before sending", evaluation.ts:345).
RecordedBeforeCall ==
    \A r \in Runs : tree.journal.run = r => \A k \in called[r] : tree.journal.effect[k] # "none"

\* A task is done, and a payment's requirement filled, only when the provider
\* confirmed a payment for it.
PaidWhenDone ==
    \A k \in Payments :
        (tree.value[k] = Grant \/ (tree.done /\ ~onDevice)) => \E r \in Runs : session[r][k] = "paid"

\* A requirement is charged for once, however often the task is run ("one payment
\* per requirement", payments.test.ts:61).
ChargedOnce ==
    \A k \in Payments, r, q \in Runs : session[r][k] = "paid" /\ session[q][k] = "paid" => r = q

\* An evaluation runs again only when everything the one before called is accounted
\* for: answered, waited for, rolled back, or reviewed by someone.
ReviewedBeforeRerun ==
    [][tree'.journal.run # tree.journal.run =>
        \A r \in Runs : tree.journal.run = r =>
            \A k \in called[r] : \/ tree.journal.effect[k] \in {"applied", "pending-review", "reverted"}
                                 \/ tree.journal.task[k] = "done"]_evalVars

\* Only the run whose journal the tree holds completes the task: one that was
\* recovered, or overtaken by another server, never does.
CompletesItsOwn ==
    [][\A r \in Runs :
        /\ tree'.journal.run = r /\ tree'.journal.status = "committed"
        /\ tree' # tree
        => tree.journal.run = r /\ tree.journal.status \in {"committing", "committed"}]_evalVars

\* What the owner filled in by hand is replaced by hand, or by an answer proposed
\* when it was there already; not by one proposed before, nor by a rollback.
ByHandKept ==
    [][\A k \in Steps :
        tree.value[k] \in ByHand /\ tree'.value[k] # tree.value[k] =>
            \/ tree'.value[k] \in ByHand
            \/ \E r \in Runs : tree'.value[k] = r /\ tree.write[r][k] = tree.value[k]]_evalVars

\* In the saved tree an evaluation's answers and the completion come together or
\* not at all ("without publishing partial completion", evaluation.test.ts:70).
Atomic == INSTANCE Completion WITH
    Rows <- Steps, Workers <- Runs, Given <- ByHand \cup {Grant}, Empty <- Unmet,
    filling <- tree.value, finished <- tree.done
CompletesAtOnce == Atomic!CompletionSpec
=============================================================================
