----------------------------- MODULE Approvals ------------------------------
(***************************************************************************)
(* A node whose main value changes by its owner's edits and by submissions *)
(* that are approved (shared/sync/approvals.ts; submissions arrive by      *)
(* node-sync.ts, decisions by events.ts and by the shared page).  Content  *)
(* is the set of rows a node has.  Each peer has one submission at a time, *)
(* and one of the values it gave on the shared page: `withProposal` puts a *)
(* new one in the place of the one of that name before.                    *)
(***************************************************************************)
EXTENDS Integers, FiniteSets

CONSTANTS
    Own,          \* the peer of the store, and its owner
    Members,      \* the other peers with an entry on the node
    Items,        \* rows the node may have
    MaxSent,      \* bound: submissions sent
    MaxOwnerSteps,\* bound: edits of main, of the rule and of members' grants
    Default,      \* the merge rule when the node has no approveMerge row
    Nothing       \* no submission of a peer

ASSUME ApprovalsAssumption ==
    /\ Own \notin Members
    /\ MaxSent \in Nat /\ MaxOwnerSteps \in Nat

VARIABLES
    main,       \* the rows of the main value
    rule,       \* Default, or the peers whose approval the rule names
    editors,    \* the members whose entry grants edit
    submitted,  \* per peer and name the submission, or Nothing
    table,      \* every submission the store ever held: content is never dropped
    ownerSteps, \* the number of the owner's edits so far
    consents,   \* history: pairs of an approver and the submission it stands by
    touched     \* history: per submission, the rows its sender changed in it and in those it goes on from

approvalVars == <<main, rule, editors, submitted, table, ownerSteps, consents, touched>>

Approvers == Members \cup {Own}
Contents == SUBSET Items
Slots == Approvers \X {"main", "visitor"}

\* What a submission is, apart from its approvals; `sent` stands for when.
Submissions == [slot : Slots, base : Contents, content : Contents, sent : 1 .. MaxSent]

\* What a peer's entry on the node has of it.
Entries == [of : Submissions, by : SUBSET Approvers, open : BOOLEAN]

ASSUME NothingAssumption == Nothing \notin Entries

ApprovalsInit ==
    /\ main = {}
    /\ rule \in {Default, {Own}, Approvers}
    /\ editors \in SUBSET Members
    /\ submitted = [p \in Slots |-> Nothing]
    /\ table = {}
    /\ ownerSteps = 0
    /\ consents = {}
    /\ touched = [n \in 1 .. MaxSent |-> {}]

Pending == {p \in Slots : submitted[p] # Nothing}
Open == {p \in Pending : submitted[p].open}
Of(p) == submitted[p].of

\* mergeNodes, row by row: what theirs changed since base, applied to ours.
mergeNodes(base, ours, theirs) ==
    {i \in Items : IF (i \in theirs) = (i \in base) THEN i \in ours ELSE i \in theirs}

-----------------------------------------------------------------------------
(* Submitting *)

withProposal(p, s, by, open) == [submitted EXCEPT ![p] = [of |-> s, by |-> by, open |-> open]]

\* Mutant: what is pending keeps its base when it is brought up to main.
PulledOnOldBase(p) ==
    IF p \notin Pending THEN [base |-> main, content |-> main]
    ELSE [base |-> Of(p).base, content |-> mergeNodes(Of(p).base, main, Of(p).content)]

\* What is pending at p, brought up to main as it is now, and its base then.
Pulled(p) ==
    IF p \notin Pending THEN [base |-> main, content |-> main]
    ELSE IF Of(p).base = main THEN [base |-> main, content |-> Of(p).content]
    ELSE [base |-> main, content |-> mergeNodes(Of(p).base, main, Of(p).content)]

\* What the approvers stand by when another submission takes the place of that at p.
Standing(p) == {c \in consents : c[2].slot # p}

Toggled(s, i) == IF i \in s THEN s \ {i} ELSE s \cup {i}

\* Mutant: the new content takes the place of the old one in the submission.
SubmitInPlace(p, i) ==
    LET s == [slot |-> p, base |-> Pulled(p).base, content |-> Toggled(Pulled(p).content, i),
              sent |-> Cardinality(table) + 1]
    IN  /\ Cardinality(table) < MaxSent
        /\ p[2] = "main" /\ (p[1] = Own \/ p[1] \in editors)
        /\ submitted' = withProposal(p, s, IF p \in Pending THEN submitted[p].by ELSE {}, TRUE)
        /\ table' = table \cup {s}
        /\ touched' = [touched EXCEPT ![s.sent] = {i} \cup IF p \in Pending THEN touched[Of(p).sent] ELSE {}]
        /\ consents' = Standing(p)
        /\ UNCHANGED <<main, rule, editors, ownerSteps>>

\* A peer that may edit changes a row: a new submission, open and with no approvals,
\* also when its last one was rejected.
Submit(p, i) ==
    LET s == [slot |-> p, base |-> Pulled(p).base, content |-> Toggled(Pulled(p).content, i),
              sent |-> Cardinality(table) + 1]
    IN  /\ Cardinality(table) < MaxSent
        /\ p[2] = "main" /\ (p[1] = Own \/ p[1] \in editors)
        /\ submitted' = withProposal(p, s, {}, TRUE)
        /\ table' = table \cup {s}
        /\ touched' = [touched EXCEPT ![s.sent] = {i} \cup IF p \in Pending THEN touched[Of(p).sent] ELSE {}]
        /\ consents' = Standing(p)
        /\ UNCHANGED <<main, rule, editors, ownerSteps>>

\* A visitor's values are a submission of main as it is, whatever it sent before.
proposeVisitorValues(p, i) ==
    LET s == [slot |-> p, base |-> main, content |-> Toggled(main, i),
              sent |-> Cardinality(table) + 1]
    IN  /\ Cardinality(table) < MaxSent
        /\ p[2] = "visitor" /\ p[1] \in Members \ editors
        /\ submitted' = withProposal(p, s, {}, TRUE)
        /\ table' = table \cup {s}
        /\ touched' = [touched EXCEPT ![s.sent] = {i}]
        /\ consents' = Standing(p)
        /\ UNCHANGED <<main, rule, editors, ownerSteps>>

-----------------------------------------------------------------------------
(* Deciding *)

defaultApprovers(proposer) == (editors \cup {Own}) \ {proposer}

\* Whose approval the rule waits for, of the submission at p approved by `by`.
missingApprovals(p, by) ==
    IF rule # Default THEN rule \ by
    ELSE IF by \cap defaultApprovers(p[1]) # {} THEN {} ELSE defaultApprovers(p[1])

\* The approval is added, and the submission applied and dropped once none is missing.
acceptSubmission(p, approver) ==
    LET by == submitted[p].by \cup {approver}
        applied == missingApprovals(p, by) = {}
    IN  /\ main' = IF applied THEN mergeNodes(Of(p).base, main, Of(p).content) ELSE main
        /\ submitted' = IF applied THEN [submitted EXCEPT ![p] = Nothing]
                                   ELSE withProposal(p, Of(p), by, TRUE)
        /\ consents' = consents \cup {<<approver, Of(p)>>}
        /\ UNCHANGED <<rule, editors, table, ownerSteps, touched>>

\* Deciding names a submission by its id: approving one that is no longer open fails.
Approve(a, p) ==
    /\ p \in Open
    /\ a = Own \/ a \in editors
    /\ acceptSubmission(p, a)

\* Rejecting takes any submission the store has held, in the place of the one its
\* sender has now; what was rejected before stays as it is.
Reject(a, s) ==
    /\ a = Own \/ a \in editors
    /\ ~\E p \in Pending : Of(p) = s /\ ~submitted[p].open
    /\ submitted' = withProposal(s.slot, s, {}, FALSE)
    /\ consents' = Standing(s.slot)
    /\ UNCHANGED <<main, rule, editors, table, ownerSteps, touched>>

\* On the shared page a visitor checks or unchecks a listed submission; a page that
\* changes several approvals is several of these under one lock.
Listed(p) == p \in Open /\ (p[1] = Own \/ p[1] \in editors)

VisitorApproves(v, p) ==
    /\ v \in Members \ editors /\ Listed(p)
    /\ v \notin submitted[p].by
    /\ acceptSubmission(p, v)

withdrawApproval(v, p) ==
    /\ v \in Members \ editors /\ Listed(p)
    /\ v \in submitted[p].by
    /\ submitted' = withProposal(p, Of(p), submitted[p].by \ {v}, TRUE)
    /\ consents' = consents \ {<<v, Of(p)>>}
    /\ UNCHANGED <<main, rule, editors, table, ownerSteps, touched>>

-----------------------------------------------------------------------------
(* The owner's own edits *)

OwnerStep ==
    /\ ownerSteps < MaxOwnerSteps
    /\ ownerSteps' = ownerSteps + 1
    /\ UNCHANGED <<submitted, table, consents, touched>>

EditMain(i) == OwnerStep /\ main' = Toggled(main, i) /\ UNCHANGED <<rule, editors>>
setMergeRule(r) == OwnerStep /\ rule' = r /\ UNCHANGED <<main, editors>>
SetCapabilities(p) == OwnerStep /\ editors' = Toggled(editors, p) /\ UNCHANGED <<main, rule>>

ApprovalsNext ==
    \/ \E p \in Slots, i \in Items : Submit(p, i)
    \/ \E p \in Slots, i \in Items : proposeVisitorValues(p, i)
    \/ \E a \in Approvers, p \in Slots : Approve(a, p)
    \/ \E a \in Approvers, s \in table : Reject(a, s)
    \/ \E v \in Members, p \in Slots : VisitorApproves(v, p) \/ withdrawApproval(v, p)
    \/ \E i \in Items : EditMain(i)
    \/ \E r \in {Default, {Own}, Approvers} \ {rule} : setMergeRule(r)
    \/ \E p \in Members : SetCapabilities(p)

ApprovalsSpec == ApprovalsInit /\ [][ApprovalsNext]_approvalVars

-----------------------------------------------------------------------------
(* Properties *)

ApprovalsTypeOK ==
    /\ main \in Contents
    /\ rule = Default \/ rule \in SUBSET Approvers
    /\ editors \subseteq Members
    /\ table \subseteq Submissions
    /\ \A p \in Pending : /\ Of(p) \in table /\ Of(p).slot = p
                          /\ submitted[p].by \subseteq Approvers
                          /\ submitted[p].open \in BOOLEAN
    /\ ownerSteps \in 0 .. MaxOwnerSteps

MergedNow(p) == p \in Pending /\ submitted'[p] = Nothing

\* The approvals that stand for the submission at p are those the rule asks for: of
\* everyone it names, or of one who may edit and did not send it.  Nobody can give the
\* latter to an owner's submission on a node nobody else edits.
ApprovedByRule(p) ==
    LET by == {a \in Approvers : <<a, Of(p)>> \in consents'} IN
    IF rule # Default THEN rule \subseteq by
    ELSE defaultApprovers(p[1]) = {} \/ by \cap defaultApprovers(p[1]) # {}

\* A submission is applied only while it is open and with the approvals the rule asks for
\* at that moment, each of this submission's own content and not withdrawn
\* (approvals.ts:3-17).
MergedAsApproved ==
    [][\A p \in Slots : MergedNow(p) => submitted[p].open /\ ApprovedByRule(p)]_approvalVars

\* Main changes by the owner's own edit, or by an applied submission in the rows its
\* sender changed: what main got since the submission was sent, or was brought up to
\* main, is neither lost nor brought back (docs/sync.md:36).
OnlyItsRowsMerge ==
    [][main' # main =>
          \/ ownerSteps' # ownerSteps
          \/ \E p \in Slots : /\ MergedNow(p)
                             /\ (main \ main') \cup (main' \ main) \subseteq touched[Of(p).sent]]_approvalVars
=============================================================================
