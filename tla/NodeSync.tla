------------------------------ MODULE NodeSync ------------------------------
(***************************************************************************)
(* Rounds between a provider (the account server) and the owner's devices  *)
(* over one node: planNodeSync, nodeSyncPush and finishNodeSync on the     *)
(* device, exchangeNode on the provider (shared/sync/node-sync.ts), driven *)
(* by syncNodes in web/src/app.ts.                                         *)
(*                                                                         *)
(* A round asks for the provider's shape, pushes what changed here since   *)
(* the shapes last agreed on, and merges the answer with what was edited   *)
(* meanwhile.  A round may break off anywhere (the network, a reload); a   *)
(* request already sent may still reach the provider afterwards.  The node *)
(* is the attachment's root on its main branch; its rows are children here *)
(* and have rounds of their own.                                           *)
(***************************************************************************)
EXTENDS NodeShapes

CONSTANTS
    Devices,
    Mask,       \* what the link lets each device see: [fields, rows]
    Creator,    \* the device that makes each row
    Provided,   \* the shapes the provider may start with
    MaxEdits,   \* bound: edits of all devices
    MaxBroken   \* bound: rounds that break off

ASSUME DevicesAssumption ==
    /\ \A d \in Devices : Mask[d].rows \subseteq Rows
    /\ Creator \in [Rows -> Devices]
    /\ Provided \subseteq Shapes(0)
    /\ MaxEdits \in Nat /\ MaxBroken \in Nat

VARIABLES
    provided,   \* the provider's shape
    shape,      \* each device's shape
    agreed,     \* each device's nodeSync state: the shapes last agreed on, here and there
    round,      \* each device's round under way
    request,    \* each device's request on its way, and what has been answered
    stray,      \* updates of broken rounds that may still arrive
    time,       \* edits so far, the clock that `updated` reads
    broken,     \* rounds broken off so far
    made,       \* history: the rows made so far
    deleted,    \* history: the rows each device's user deleted
    missed      \* history: the devices whose push was answered without what it pushed

users == <<made, deleted>>
vars == <<provided, shape, agreed, round, request, stray, time, broken, users, missed>>

Nothing == [stage |-> "none"]
Idle == [stage |-> "idle"]
Visible(s, d) ==
    [data |-> [f \in Fields |-> IF f \in Mask[d].fields THEN s.data[f] ELSE Absent],
     kids |-> [c \in Rows |-> IF c \in Mask[d].rows THEN s.kids[c] ELSE Absent],
     order |-> Among(s, Mask[d].rows),
     updated |-> IF "updated" \in Mask[d].fields THEN s.updated ELSE 0]

----------------------------------------------------------------------------
(* The device's user *)

\* A row is new (its id is fresh), or was deleted here and comes back by undo.
MayAdd(d, c) == (Creator[c] = d /\ c \notin made) \/ c \in deleted[d]

Edit(d) ==
    /\ time < MaxEdits
    /\ time' = time + 1
    /\ \E s \in Edits(shape[d], time') :
          /\ \A c \in Ids(s) \ Ids(shape[d]) : MayAdd(d, c)
          /\ shape' = [shape EXCEPT ![d] = s]
          /\ made' = made \cup Ids(s)
          /\ deleted' = [deleted EXCEPT ![d] = @ \cup (Ids(shape[d]) \ Ids(s))]
    /\ UNCHANGED <<provided, agreed, round, request, stray, broken, missed>>

----------------------------------------------------------------------------
(* The device's round *)

Baseline(d) == IF agreed[d] = Nothing THEN EmptyShape ELSE agreed[d].local
PreviousRemote(d) == IF agreed[d] = Nothing THEN EmptyShape ELSE agreed[d].remote

\* A round that sends, or one that only receives (`pull`, or no autopush).
planNodeSync(d, push) ==
    /\ round[d] = Idle
    /\ round' = [round EXCEPT ![d] =
          [stage |-> "asked", push |-> push, local |-> shape[d],
           baseline |-> Baseline(d), previousRemote |-> PreviousRemote(d)]]
    /\ request' = [request EXCEPT ![d] = [stage |-> "ask"]]
    /\ UNCHANGED <<provided, shape, agreed, stray, time, broken, users, missed>>

\* Mutant: the round ends and leaves its request behind.
endRoundOnly(d) ==
    /\ round' = [round EXCEPT ![d] = Idle]
    /\ request' = request

EndRound(d) ==
    /\ round' = [round EXCEPT ![d] = Idle]
    /\ request' = [request EXCEPT ![d] = Nothing]

\* What the round leaves on the device when the peer's final shape is `remote`.
Accepted(plan, remote) ==
    IF plan.push THEN mergeNodeShape(plan.previousRemote, remote, plan.local) ELSE remote
Installed(plan, remote, current) ==
    IF plan.push THEN mergeNodeShape(plan.local, Accepted(plan, remote), current)
                 ELSE mergeNodeShape(plan.previousRemote, remote, current)
RefusedHere(plan, remote, current) ==
    IF plan.push THEN \/ Refused(plan.previousRemote, remote, plan.local)
                      \/ Refused(plan.local, Accepted(plan, remote), current)
                 ELSE Refused(plan.previousRemote, remote, current)

\* Mutant: the round installs over the shape it planned with, not the one here now.
finishOverPlanned(d, remote) ==
    /\ IF RefusedHere(round[d], remote, round[d].local)
       THEN UNCHANGED <<shape, agreed>>
       ELSE /\ shape' = [shape EXCEPT ![d] = Installed(round[d], remote, round[d].local)]
            /\ agreed' = [agreed EXCEPT ![d] =
                  [stage |-> "agreed", local |-> Accepted(round[d], remote), remote |-> remote]]
    /\ EndRound(d)

\* Mutant: what is here now is remembered as agreed, edits made meanwhile included.
finishRememberingNow(d, remote) ==
    /\ IF RefusedHere(round[d], remote, shape[d])
       THEN UNCHANGED <<shape, agreed>>
       ELSE /\ shape' = [shape EXCEPT ![d] = Installed(round[d], remote, shape[d])]
            /\ agreed' = [agreed EXCEPT ![d] =
                  [stage |-> "agreed", local |-> shape'[d], remote |-> remote]]
    /\ EndRound(d)

\* A refusal throws: the device's shape and what was agreed stay.
finishNodeSync(d, remote) ==
    /\ IF RefusedHere(round[d], remote, shape[d])
       THEN UNCHANGED <<shape, agreed>>
       ELSE /\ shape' = [shape EXCEPT ![d] = Installed(round[d], remote, shape[d])]
            /\ agreed' = [agreed EXCEPT ![d] =
                  [stage |-> "agreed", local |-> Accepted(round[d], remote), remote |-> remote]]
    /\ EndRound(d)

\* The answer to the first request: push the difference, or finish when there is none.
nodeSyncPush(d) ==
    LET plan == round[d]
        remote == request[d].answer
        before == Visible(plan.baseline, d)
        after == Visible(plan.local, d)
        value == mergeNodeShape(before, after, remote)
    IN  /\ plan.stage = "asked" /\ request[d].stage = "answered"
        /\ \/ /\ plan.push /\ ~sameNodeShape(before, after)
              /\ Refused(before, after, remote)
              /\ EndRound(d)
              /\ UNCHANGED <<shape, agreed>>
           \/ /\ plan.push /\ ~sameNodeShape(before, after)
              /\ ~Refused(before, after, remote)
              /\ round' = [round EXCEPT ![d].stage = "pushed"]
              /\ request' = [request EXCEPT ![d] =
                    [stage |-> "update", base |-> remote, value |-> value]]
              /\ UNCHANGED <<shape, agreed>>
           \/ /\ ~plan.push \/ sameNodeShape(before, after)
              /\ finishNodeSync(d, remote)
        /\ UNCHANGED <<provided, stray, time, broken, users, missed>>

\* The answer to a push lacks what was pushed: the provider had it already when first
\* asked, and someone took it back in between.
Lacks(d, answer) ==
    LET before == Visible(round[d].baseline, d)
        after == Visible(round[d].local, d)
    IN  \/ \E f \in Fields : after.data[f] \notin {before.data[f], answer.data[f]}
        \/ \E c \in Rows : after.kids[c] \notin {before.kids[c], answer.kids[c]}

Finish(d) ==
    /\ round[d].stage = "pushed"
    /\ \/ /\ request[d].stage = "answered"
          /\ missed' = missed \cup {e \in {d} : Lacks(d, request[d].answer)}
          /\ finishNodeSync(d, request[d].answer)
       \/ /\ request[d].stage = "refused"
          /\ EndRound(d)
          /\ UNCHANGED <<shape, agreed, missed>>
    /\ UNCHANGED <<provided, stray, time, broken, users>>

\* The transport fails, or the page goes away; an update already sent may arrive later.
BreakOff(d) ==
    /\ round[d] # Idle
    /\ broken < MaxBroken
    /\ broken' = broken + 1
    /\ stray' \in {stray, stray \cup {u \in {[by |-> d, update |-> request[d]]} :
                                          request[d].stage = "update"}}
    /\ EndRound(d)
    /\ UNCHANGED <<provided, shape, agreed, time, users, missed>>

----------------------------------------------------------------------------
(* The provider: load, merge and save are one step under the account's lock *)

\* Mutant: what the device sees replaces the whole, hidden rows included.
MergedVisible(d, update) ==
    mergeNodeShape(update.base, update.value, Visible(provided, d))

\* The device's change merged with what it sees now, then applied to the whole.
MergedHere(d, update) ==
    LET served == Visible(provided, d)
    IN  mergeNodeShape(served, mergeNodeShape(update.base, update.value, served), provided)
RefusedThere(d, update) ==
    LET served == Visible(provided, d)
    IN  \/ Refused(update.base, update.value, served)
        \/ Refused(served, mergeNodeShape(update.base, update.value, served), provided)

exchangeNode(d, update) ==
    IF sameNodeShape(update.base, update.value) \/ RefusedThere(d, update)
    THEN provided' = provided
    ELSE provided' = MergedHere(d, update)

ServeAsk(d) ==
    /\ request[d].stage = "ask"
    /\ request' = [request EXCEPT ![d] =
          [stage |-> "answered", answer |-> Visible(provided, d)]]
    /\ UNCHANGED <<provided, shape, agreed, round, stray, time, broken, users, missed>>

ServeUpdate(d) ==
    /\ request[d].stage = "update"
    /\ exchangeNode(d, request[d])
    /\ request' = [request EXCEPT ![d] =
          IF RefusedThere(d, request[d]) THEN [stage |-> "refused"]
          ELSE [stage |-> "answered", answer |-> Visible(provided', d)]]
    /\ UNCHANGED <<shape, agreed, round, stray, time, broken, users, missed>>

\* An update whose sender gave up arrives after all.
ServeStray(u) ==
    /\ u \in stray
    /\ exchangeNode(u.by, u.update)
    /\ stray' = stray \ {u}
    /\ UNCHANGED <<shape, agreed, round, request, time, broken, users, missed>>

----------------------------------------------------------------------------
(* The specification *)

Init ==
    /\ provided \in Provided
    /\ shape = [d \in Devices |-> EmptyShape]
    /\ agreed = [d \in Devices |-> Nothing]
    /\ round = [d \in Devices |-> Idle]
    /\ request = [d \in Devices |-> Nothing]
    /\ stray = {}
    /\ time = 0
    /\ broken = 0
    /\ made = Ids(provided)
    /\ deleted = [d \in Devices |-> {}]
    /\ missed = {}

Step(d) == nodeSyncPush(d) \/ Finish(d) \/ ServeAsk(d) \/ ServeUpdate(d)

Next ==
    \/ \E d \in Devices :
          \/ Edit(d)
          \/ \E push \in BOOLEAN : planNodeSync(d, push)
          \/ Step(d)
          \/ BreakOff(d)
    \/ \E u \in stray : ServeStray(u)

\* Weak fairness of Step(d), written out with what enables it: a round under way is asked,
\* answered, pushed or refused, and each has its next step.
GoesOn(d) == []<>(round[d] = Idle) \/ []<><<Step(d)>>_vars

\* Each device polls with sending rounds, asked for again when another one is under way,
\* and a round that does not break off goes on.
Fairness ==
    \A d \in Devices : SF_vars(planNodeSync(d, TRUE)) /\ GoesOn(d)

Spec == Init /\ [][Next]_vars /\ Fairness

----------------------------------------------------------------------------
(* Properties *)

Times == 0 .. MaxEdits
TypeOK ==
    /\ provided \in Shapes(MaxEdits)
    /\ shape \in [Devices -> Shapes(MaxEdits)]
    /\ \A d \in Devices : agreed[d] # Nothing => {agreed[d].local, agreed[d].remote} \subseteq Shapes(MaxEdits)
    /\ \A d \in Devices : round[d] = Idle <=> request[d] = Nothing
    /\ time \in Times
    /\ broken \in 0 .. MaxBroken

\* What the user of device d changed since the last agreement is still there.
ChangesKept(d) ==
    /\ \A f \in Fields : shape[d].data[f] # Baseline(d).data[f]
                           => shape'[d].data[f] = shape[d].data[f]
    /\ \A c \in Rows : shape[d].kids[c] # Baseline(d).kids[c]
                           => shape'[d].kids[c] = shape[d].kids[c]

\* A step that is not the device's user's keeps every field and row changed here since
\* the last agreement, edits made while a round is under way included - unless a push of
\* the device's was answered without what it pushed: then what it remembers as agreed is
\* not what the provider has.
LocalChangesKept ==
    [][time' = time => \A d \in Devices \ missed : ChangesKept(d)]_vars

\* The same without the exception ("The same field changed on both sides is refused and
\* the local value is kept", docs/sync.md:82).
ConflictsKeepLocal ==
    [][time' = time => \A d \in Devices : ChangesKept(d)]_vars

\* A row disappears from a device or from the provider only when some user deleted it
\* who could see it: not by a merge, a mask or a shape sent before the row was there.
RowsGoOnlyWhenDeleted ==
    [][LET gone == {c \in Rows : \E d \in Devices : c \in deleted'[d] /\ c \in Mask[d].rows}
       IN  /\ Ids(provided) \ Ids(provided') \subseteq gone
           /\ \A d \in Devices : Ids(shape[d]) \ Ids(shape'[d]) \subseteq gone \cup deleted'[d]]_vars

\* The device cannot push what it has: someone else changed the same thing, and a user
\* has to decide.
Conflicting(d) ==
    LET before == Visible(Baseline(d), d)
        after == Visible(shape[d], d)
    IN  before # after /\ Refused(before, after, Visible(provided, d))

Settled(d) == Visible(shape[d], d) = Visible(provided, d) \/ Conflicting(d)

\* When editing stops, every device ends up with the provider's shape, its rows in the
\* same order, or with a conflict, whatever was edited while rounds were under way
\* ("Child order is part of a node's identity, so reorders replicate like any other
\* change", docs/sync.md:94) - unless a push of its was answered without what it pushed.
SettlesUnlessMissed == <>[](\A d \in Devices : Settled(d) \/ d \in missed)

\* The same without the exception.
Settles == <>[](\A d \in Devices : Settled(d))
=============================================================================
