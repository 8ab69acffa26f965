----------------------------- MODULE Completion -----------------------------
(***************************************************************************)
(* What completing a task promises: requirements are filled by hand or by  *)
(* a grant one at a time, and by an evaluation all at once, with the task  *)
(* done, once.                                                             *)
(***************************************************************************)
EXTENDS Integers

CONSTANTS Rows,    \* the task's requirements
          Workers, \* evaluations, each completing at most once
          Given,   \* values from elsewhere: written by hand, or granted
          Empty

VARIABLES filling, \* per requirement, what fills it: the evaluation that answered it, or a given value
          finished \* is the task done?

StartEmpty == filling = [k \in Rows |-> Empty] /\ finished = FALSE

Fill(k, v) ==
    /\ filling' = [filling EXCEPT ![k] = v]
    /\ UNCHANGED finished

\* Every answer of the evaluation, and the task done; nothing is left open.
Complete(w) ==
    /\ \A k \in Rows : filling[k] # w
    /\ \E rows \in SUBSET Rows : filling' = [k \in Rows |-> IF k \in rows THEN w ELSE filling[k]]
    /\ \A k \in Rows : filling'[k] # Empty
    /\ finished' = TRUE

\* A completion that could not be kept is undone: all of it, and nothing else.
TakeBack(w) ==
    /\ finished
    /\ finished' \in BOOLEAN /\ (finished' => \A k \in Rows : filling'[k] # Empty)
    /\ DOMAIN filling' = Rows
    /\ \A k \in Rows : IF filling[k] = w THEN filling'[k] # w ELSE filling'[k] = filling[k]

CompletionStep ==
    \/ \E k \in Rows, v \in Given : Fill(k, v)
    \/ \E w \in Workers : Complete(w) \/ TakeBack(w)

CompletionSpec == StartEmpty /\ [][CompletionStep]_<<filling, finished>>
=============================================================================
