------------------------------- MODULE MCTree -------------------------------
(***************************************************************************)
(* What works on the tree of one device or account, on small instances: a  *)
(* task with a payment and a requirement answered at once, a node two      *)
(* peers send submissions of, and a relay node with an invited phone and   *)
(* the account's own desktop, and the triggers of a device open in two     *)
(* tabs.  A behaviour exercises one of them, and each is explored in full. *)
(***************************************************************************)
EXTENDS Evaluation, Approvals, MessageRelay, Triggers, TLC

CONSTANTS r1, r2, s1, s2, bob, eve, phone, desk, m1, m2,
          Explored  \* the parts the run is about

VARIABLE part

\* A run on each of two servers, or on the device.
OnEachServer == [r \in Runs |-> IF r = r1 THEN s1 ELSE s2]

\* The phone writes to the desktop and the desktop to the phone.
SentBy == [m \in Messages |-> IF m = m1 THEN phone ELSE desk]
SentTo == [m \in Messages |-> IF m = m1 THEN desk ELSE phone]

\* The tabs, and the rows of submissions, are alike: the properties are all of safety.
Alike == Permutations(Tabs) \cup Permutations(Items)

vars == <<evalVars, approvalVars, messageVars, triggerVars, part>>

\* Every part starts as it may; those it is not about, in one way.
Init ==
    /\ part \in Explored
    /\ EvaluationInit /\ (part # "task" => ~onDevice)
    \* The owner may change either while submissions are open.
    /\ ApprovalsInit /\ editors = {bob} /\ rule # {Own} /\ (part # "approvals" => rule = Default)
    /\ MessagesInit
    \* A task that is done, with the trigger on its completion; or one that is not, and a
    \* timer after it.
    /\ TriggersInit /\ listed \in {Completions, Triggers} /\ (stored.done = 1 <=> listed = Completions)
    /\ (part # "triggers" => listed = Triggers)

Next ==
    /\ part' = part
    /\ \/ /\ part = "task"
          /\ EvaluationNext
          /\ UNCHANGED <<approvalVars, messageVars, triggerVars>>
       \/ /\ part = "approvals"
          /\ ApprovalsNext
          /\ UNCHANGED <<evalVars, messageVars, triggerVars>>
       \/ /\ part = "messages"
          /\ MessagesNext
          /\ UNCHANGED <<evalVars, approvalVars, triggerVars>>
       \/ /\ part = "triggers"
          /\ TriggersNext
          /\ UNCHANGED <<evalVars, approvalVars, messageVars>>

Spec == Init /\ [][Next]_vars

-----------------------------------------------------------------------------
\* A run, a rollback, an approval, a pass of the relay or a walk through the triggers
\* leaves the journal, the rows, the submissions, the queues and the claims such as the
\* code writes (the invariants of the module whose part it is).
TreeTypeOK ==
    /\ part = "task" => EvaluationTypeOK
    /\ part = "approvals" => ApprovalsTypeOK
    /\ part = "messages" => MessagesTypeOK
    /\ part = "triggers" => TriggersTypeOK
=============================================================================
