----------------------------- MODULE Tree_proofs -----------------------------
(***************************************************************************)
(* What works on a tree, for any members, rows, peers, messages, tabs and  *)
(* triggers: a submission changes main only with the approvals the rule    *)
(* asks for, each of its own content, and only in the rows its sender      *)
(* changed; a message leaves the relay node only into its addressee's      *)
(* queue, and that queue only acknowledged or with the member it belongs   *)
(* to; a timer's time and a completion of the task are evaluated once, as  *)
(* far as the trees that are saved show what was claimed.  The three share *)
(* no state.                                                               *)
(***************************************************************************)
EXTENDS MCTree, Evaluation_proofs, FiniteSetTheorems

-----------------------------------------------------------------------------
(* Approvals *)

Difference(s, t) == (s \ t) \cup (t \ s)

\* Submissions are numbered as they are sent, and differ from their base in what their
\* sender touched.
TableInv ==
    /\ IsFiniteSet(table)
    /\ touched \in [1 .. MaxSent -> Contents]
    /\ \A s \in table : /\ s.sent <= Cardinality(table)
                        /\ Difference(s.base, s.content) \subseteq touched[s.sent]

\* An approval on a submission was given to its content and not withdrawn.
ConsentInv == \A p \in Pending : \A a \in submitted[p].by : <<a, Of(p)>> \in consents

ApprovalsInv ==
    /\ ApprovalsTypeOK
    /\ DOMAIN submitted = Slots
    /\ TableInv
    /\ ConsentInv

\* Toggling a row changes that row, and stays among the rows there are.
LEMMA ToggledRow ==
    ASSUME NEW s, s \subseteq Items, NEW i \in Items
    PROVE  Toggled(s, i) \subseteq Items /\ Difference(s, Toggled(s, i)) = {i}
  BY DEF Toggled, Difference

\* A merge differs from ours in no row in which theirs does not differ from the base.
LEMMA MergeDifference ==
    ASSUME NEW base, NEW ours, NEW theirs,
           base \subseteq Items, ours \subseteq Items, theirs \subseteq Items
    PROVE  /\ mergeNodes(base, ours, theirs) \subseteq Items
           /\ Difference(ours, mergeNodes(base, ours, theirs)) \subseteq Difference(base, theirs)
  BY DEF mergeNodes, Difference

LEMMA DifferenceOfThree ==
    ASSUME NEW r, NEW s, NEW t
    PROVE  Difference(r, t) \subseteq Difference(r, s) \cup Difference(s, t)
  BY DEF Difference

\* The fields of a submission the store holds.
LEMMA HeldFields ==
    ASSUME ApprovalsInv, NEW s \in table
    PROVE  /\ s.slot \in Slots /\ s.base \subseteq Items /\ s.content \subseteq Items
           /\ s.sent \in 1 .. MaxSent
           /\ Difference(s.base, s.content) \subseteq touched[s.sent]
           /\ touched[s.sent] \subseteq Items
  BY DEF ApprovalsInv, ApprovalsTypeOK, Submissions, TableInv, Contents

\* Nothing is sent, and nobody approved, at the start.
LEMMA ApprovalsInvAtStart == ApprovalsInit => ApprovalsInv
<1> SUFFICES ASSUME ApprovalsInit PROVE ApprovalsInv
    OBVIOUS
<1>1. Pending = {} /\ DOMAIN submitted = Slots
    BY DEF ApprovalsInit, Pending
<1>2. ApprovalsTypeOK
    BY <1>1, ApprovalsAssumption DEF ApprovalsInit, ApprovalsTypeOK, Contents, Approvers
<1>3. TableInv
    BY FS_EmptySet DEF ApprovalsInit, TableInv, Contents
<1> QED
    BY <1>1, <1>2, <1>3 DEF ApprovalsInv, ConsentInv

\* A new submission takes the next number, and the place of the one before it, with the
\* approvals given to that.
LEMMA Sent ==
    ASSUME ApprovalsInv, NEW p \in Slots, NEW s \in Submissions, NEW rows \in Contents,
           s.slot = p, s.sent = Cardinality(table) + 1,
           Difference(s.base, s.content) \subseteq rows,
           submitted' = withProposal(p, s, {}, TRUE),
           table' = table \cup {s},
           touched' = [touched EXCEPT ![s.sent] = rows],
           consents' = Standing(p),
           UNCHANGED <<main, rule, editors, ownerSteps>>
    PROVE  ApprovalsInv'
<1>0. /\ DOMAIN submitted' = Slots
      /\ submitted'[p].of = s /\ submitted'[p].by = {} /\ submitted'[p].open = TRUE
    BY DEF withProposal, ApprovalsInv
<1>2. \A q \in Slots \ {p} : submitted'[q] = submitted[q]
    BY DEF withProposal, ApprovalsInv
<1>3. ApprovalsTypeOK'
    <2>1. table' \subseteq Submissions
        BY DEF ApprovalsInv, ApprovalsTypeOK
    <2>2. ASSUME NEW q \in Pending'
          PROVE  /\ Of(q)' \in table' /\ Of(q)'.slot = q
                 /\ submitted'[q].by \subseteq Approvers /\ submitted'[q].open \in BOOLEAN
        <3>1. CASE q = p
            BY <3>1, <1>0 DEF Of
        <3>2. CASE q # p
            <4>1. q \in Pending /\ submitted'[q] = submitted[q]
                BY <2>2, <3>2, <1>2 DEF Pending
            <4>2. /\ Of(q) \in table /\ Of(q).slot = q
                  /\ submitted[q].by \subseteq Approvers /\ submitted[q].open \in BOOLEAN
                BY <4>1 DEF ApprovalsInv, ApprovalsTypeOK
            <4> QED
                BY <4>1, <4>2 DEF Of
        <3> QED
            BY <3>1, <3>2
    <2> QED
        BY <2>1, <2>2 DEF ApprovalsInv, ApprovalsTypeOK
<1>4. IsFiniteSet(table) /\ Cardinality(table) \in Nat
    BY FS_CardinalityType DEF ApprovalsInv, TableInv
<1>5. s \notin table
    BY <1>4 DEF ApprovalsInv, TableInv
<1>6. IsFiniteSet(table') /\ Cardinality(table') = Cardinality(table) + 1
    BY <1>4, <1>5, FS_AddElement
<1>7. s.sent \in 1 .. MaxSent
    BY DEF Submissions
<1>8. touched' \in [1 .. MaxSent -> Contents]
    BY DEF ApprovalsInv, TableInv
<1>9. ASSUME NEW t \in table'
      PROVE  t.sent <= Cardinality(table') /\ Difference(t.base, t.content) \subseteq touched'[t.sent]
    <2>1. CASE t = s
        BY <2>1, <1>6, <1>4, <1>7 DEF ApprovalsInv, TableInv
    <2>2. CASE t \in table
        <3>1. t.sent \in Nat /\ t.sent <= Cardinality(table) /\ t.sent \in 1 .. MaxSent
            BY <2>2, HeldFields DEF ApprovalsInv, TableInv
        <3>2. t.sent # s.sent
            BY <3>1, <1>4
        <3>3. touched'[t.sent] = touched[t.sent]
            BY <3>1, <3>2 DEF ApprovalsInv, TableInv
        <3> QED
            BY <2>2, <3>1, <3>3, <1>6, <1>4, HeldFields
    <2> QED
        BY <1>9, <2>1, <2>2
<1>10. ASSUME NEW q \in Pending', NEW a \in submitted'[q].by PROVE <<a, Of(q)'>> \in consents'
    <2>1. q # p
        BY <1>0, <1>10
    <2>2. q \in Pending /\ submitted'[q] = submitted[q]
        BY <2>1, <1>2 DEF Pending
    <2>3. <<a, Of(q)>> \in consents /\ Of(q)' = Of(q)
        BY <2>2 DEF ApprovalsInv, ConsentInv, Of
    <2>4. Of(q).slot # p
        BY <2>1, <2>2 DEF ApprovalsInv, ApprovalsTypeOK
    <2> QED
        BY <2>3, <2>4 DEF Standing
<1> QED
    BY <1>0, <1>3, <1>6, <1>8, <1>9, <1>10 DEF ApprovalsInv, TableInv, ConsentInv

\* What a submission goes on from is within what its sender touched before.
LEMMA PulledRows ==
    ASSUME ApprovalsInv, NEW p \in Slots
    PROVE  /\ Pulled(p).base = main /\ main \subseteq Items
           /\ Pulled(p).content \subseteq Items
           /\ Difference(main, Pulled(p).content) \subseteq
                IF p \in Pending THEN touched[Of(p).sent] ELSE {}
<1>1. main \subseteq Items
    BY DEF ApprovalsInv, ApprovalsTypeOK, Contents
<1>2. CASE p \notin Pending
    BY <1>1, <1>2 DEF Pulled, Difference
<1>3. CASE p \in Pending
    <2>1. Of(p) \in table
        BY <1>3 DEF ApprovalsInv, ApprovalsTypeOK
    <2>2. /\ Of(p).base \subseteq Items /\ Of(p).content \subseteq Items
          /\ Difference(Of(p).base, Of(p).content) \subseteq touched[Of(p).sent]
        BY <2>1, HeldFields
    <2>3. CASE Of(p).base = main
        BY <1>1, <1>3, <2>2, <2>3 DEF Pulled
    <2>4. CASE Of(p).base # main
        <3>1. Pulled(p) = [base |-> main, content |-> mergeNodes(Of(p).base, main, Of(p).content)]
            BY <1>3, <2>4 DEF Pulled
        <3> QED
            BY <1>1, <1>3, <2>2, <3>1, MergeDifference
    <2> QED
        BY <2>3, <2>4
<1> QED
    BY <1>2, <1>3

LEMMA SubmitStep ==
    ASSUME ApprovalsInv, NEW p \in Slots, NEW i \in Items, Submit(p, i) \/ proposeVisitorValues(p, i)
    PROVE  ApprovalsInv'
<1>1. Cardinality(table) \in Nat
    BY FS_CardinalityType DEF ApprovalsInv, TableInv
<1>2. main \subseteq Items
    BY DEF ApprovalsInv, ApprovalsTypeOK, Contents
<1>3. CASE Submit(p, i)
    <2> DEFINE content == Toggled(Pulled(p).content, i)
               s == [slot |-> p, base |-> Pulled(p).base, content |-> content, sent |-> Cardinality(table) + 1]
               rows == {i} \cup IF p \in Pending THEN touched[Of(p).sent] ELSE {}
    <2>1. /\ Pulled(p).base = main /\ Pulled(p).content \subseteq Items
          /\ Difference(main, Pulled(p).content) \subseteq rows
        BY PulledRows
    <2>2. content \subseteq Items /\ Difference(Pulled(p).content, content) = {i}
        BY <2>1, ToggledRow
    <2>3. Difference(main, content) \subseteq rows
        BY <2>1, <2>2, DifferenceOfThree
    <2>4. rows \in Contents
        BY HeldFields DEF ApprovalsInv, ApprovalsTypeOK, Contents
    <2>5. Cardinality(table) + 1 \in 1 .. MaxSent
        BY <1>1, <1>3, ApprovalsAssumption DEF Submit
    <2>6. s \in Submissions
        BY <1>2, <2>1, <2>2, <2>5 DEF Submissions, Contents
    <2>7. /\ submitted' = withProposal(p, s, {}, TRUE)
          /\ table' = table \cup {s}
          /\ touched' = [touched EXCEPT ![s.sent] = rows]
          /\ consents' = Standing(p)
          /\ UNCHANGED <<main, rule, editors, ownerSteps>>
        BY <1>3 DEF Submit
    <2>8. Difference(s.base, s.content) \subseteq rows /\ s.slot = p /\ s.sent = Cardinality(table) + 1
        BY <2>1, <2>3
    <2> HIDE DEF s, rows
    <2> QED
        BY <2>4, <2>6, <2>7, <2>8, Sent
<1>4. CASE proposeVisitorValues(p, i)
    <2> DEFINE s == [slot |-> p, base |-> main, content |-> Toggled(main, i), sent |-> Cardinality(table) + 1]
    <2>1. Toggled(main, i) \subseteq Items /\ Difference(main, Toggled(main, i)) = {i}
        BY <1>2, ToggledRow
    <2>2. Cardinality(table) + 1 \in 1 .. MaxSent
        BY <1>1, <1>4, ApprovalsAssumption DEF proposeVisitorValues
    <2>3. s \in Submissions /\ {i} \in Contents
        BY <1>2, <2>1, <2>2 DEF Submissions, Contents
    <2>4. /\ submitted' = withProposal(p, s, {}, TRUE)
          /\ table' = table \cup {s}
          /\ touched' = [touched EXCEPT ![s.sent] = {i}]
          /\ consents' = Standing(p)
          /\ UNCHANGED <<main, rule, editors, ownerSteps>>
        BY <1>4 DEF proposeVisitorValues
    <2>5. Difference(s.base, s.content) \subseteq {i} /\ s.slot = p /\ s.sent = Cardinality(table) + 1
        BY <2>1
    <2> HIDE DEF s
    <2> QED
        BY <2>3, <2>4, <2>5, Sent
<1> QED
    BY <1>3, <1>4

\* Merging an approved submission, or adding an approval to it.
LEMMA AcceptStep ==
    ASSUME ApprovalsInv, NEW p \in Pending, NEW a \in Approvers, acceptSubmission(p, a)
    PROVE  /\ ApprovalsInv'
           /\ submitted'[p] = Nothing \/ main' = main
           /\ Difference(main, main') \subseteq touched[Of(p).sent]
<1> DEFINE by == submitted[p].by \cup {a}
           applied == missingApprovals(p, by) = {}
<1>1. /\ main' = IF applied THEN mergeNodes(Of(p).base, main, Of(p).content) ELSE main
      /\ submitted' = IF applied THEN [submitted EXCEPT ![p] = Nothing] ELSE withProposal(p, Of(p), by, TRUE)
      /\ consents' = consents \cup {<<a, Of(p)>>}
      /\ UNCHANGED <<rule, editors, table, ownerSteps, touched>>
    BY DEF acceptSubmission
<1> HIDE DEF applied
<1>2. /\ Of(p) \in table /\ Of(p).slot = p /\ p \in Slots
      /\ submitted[p].by \subseteq Approvers /\ main \subseteq Items
    BY DEF ApprovalsInv, ApprovalsTypeOK, Contents, Pending
<1>3. main' \subseteq Items /\ Difference(main, main') \subseteq touched[Of(p).sent]
    <2>1. CASE applied
        BY <1>1, <1>2, <2>1, HeldFields, MergeDifference
    <2>2. CASE ~applied
        BY <1>1, <1>2, <2>2 DEF Difference
    <2> QED
        BY <2>1, <2>2
<1>4. /\ DOMAIN submitted' = Slots
      /\ \A q \in Slots \ {p} : submitted'[q] = submitted[q]
      /\ applied => submitted'[p] = Nothing
      /\ ~applied => submitted'[p] = [of |-> Of(p), by |-> by, open |-> TRUE]
    BY <1>1, <1>2 DEF ApprovalsInv, withProposal
<1>5. ASSUME NEW q \in Pending'
      PROVE  /\ Of(q)' \in table /\ Of(q)'.slot = q
             /\ submitted'[q].by \subseteq Approvers /\ submitted'[q].open \in BOOLEAN
             /\ \A b \in submitted'[q].by : <<b, Of(q)'>> \in consents'
    <2>1. CASE q = p
        <3>1. ~applied
            BY <1>4, <1>5, <2>1 DEF Pending
        <3>2. submitted'[q].of = Of(p) /\ submitted'[q].by = by /\ submitted'[q].open = TRUE
            BY <1>4, <2>1, <3>1
        <3>3. \A b \in by : <<b, Of(p)>> \in consents'
            BY <1>1 DEF ApprovalsInv, ConsentInv
        <3> QED
            BY <1>2, <2>1, <3>2, <3>3 DEF Of
    <2>2. CASE q # p
        <3>1. q \in Pending /\ submitted'[q] = submitted[q]
            BY <1>4, <1>5, <2>2 DEF Pending
        <3>2. /\ Of(q) \in table /\ Of(q).slot = q
              /\ submitted[q].by \subseteq Approvers /\ submitted[q].open \in BOOLEAN
            BY <3>1 DEF ApprovalsInv, ApprovalsTypeOK
        <3>3. \A b \in submitted[q].by : <<b, Of(q)>> \in consents'
            BY <1>1, <3>1 DEF ApprovalsInv, ConsentInv
        <3> QED
            BY <3>1, <3>2, <3>3 DEF Of
    <2> QED
        BY <2>1, <2>2
<1>6. ApprovalsTypeOK'
    BY <1>1, <1>3, <1>5 DEF ApprovalsInv, ApprovalsTypeOK, Contents
<1>7. TableInv'
    BY <1>1 DEF ApprovalsInv, TableInv
<1>8. submitted'[p] = Nothing \/ main' = main
    BY <1>1, <1>4
<1> QED
    BY <1>3, <1>4, <1>5, <1>6, <1>7, <1>8 DEF ApprovalsInv, ConsentInv

\* A decision that takes approvals away: of a submission, or with its content.
LEMMA TakingStep ==
    ASSUME ApprovalsInv, NEW p \in Slots, NEW s \in table, s.slot = p,
           NEW by, NEW open \in BOOLEAN,
           by \subseteq Approvers, \A b \in by : <<b, s>> \in consents',
           submitted' = withProposal(p, s, by, open),
           \A c \in consents : c[2].slot # p => c \in consents',
           UNCHANGED <<main, rule, editors, table, ownerSteps, touched>>
    PROVE  ApprovalsInv'
<1>1. /\ DOMAIN submitted' = Slots
      /\ \A q \in Slots \ {p} : submitted'[q] = submitted[q]
      /\ submitted'[p].of = s /\ submitted'[p].by = by /\ submitted'[p].open = open
    BY DEF ApprovalsInv, withProposal
<1>2. ASSUME NEW q \in Pending'
      PROVE  /\ Of(q)' \in table /\ Of(q)'.slot = q
             /\ submitted'[q].by \subseteq Approvers /\ submitted'[q].open \in BOOLEAN
             /\ \A b \in submitted'[q].by : <<b, Of(q)'>> \in consents'
    <2>1. CASE q = p
        BY <1>1, <2>1 DEF Of
    <2>2. CASE q # p
        <3>1. q \in Pending /\ submitted'[q] = submitted[q]
            BY <1>1, <1>2, <2>2 DEF Pending
        <3>2. /\ Of(q) \in table /\ Of(q).slot = q
              /\ submitted[q].by \subseteq Approvers /\ submitted[q].open \in BOOLEAN
            BY <3>1 DEF ApprovalsInv, ApprovalsTypeOK
        <3>3. \A b \in submitted[q].by : <<b, Of(q)>> \in consents'
            BY <2>2, <3>1, <3>2 DEF ApprovalsInv, ConsentInv
        <3> QED
            BY <3>1, <3>2, <3>3 DEF Of
    <2> QED
        BY <2>1, <2>2
<1>3. ApprovalsTypeOK'
    BY <1>2 DEF ApprovalsInv, ApprovalsTypeOK
<1>4. TableInv'
    BY DEF ApprovalsInv, TableInv
<1> QED
    BY <1>1, <1>2, <1>3, <1>4 DEF ApprovalsInv, ConsentInv

LEMMA DecisionSteps ==
    ASSUME ApprovalsInv, NEW a \in Approvers
    PROVE  /\ \A p \in Slots : Approve(a, p) \/ VisitorApproves(a, p) => ApprovalsInv'
           /\ \A s \in table : Reject(a, s) => ApprovalsInv'
           /\ \A p \in Slots : withdrawApproval(a, p) => ApprovalsInv'
<1>1. ASSUME NEW p \in Slots, Approve(a, p) \/ VisitorApproves(a, p) PROVE ApprovalsInv'
    BY <1>1, AcceptStep DEF Approve, VisitorApproves, Listed, Open
<1>2. ASSUME NEW s \in table, Reject(a, s) PROVE ApprovalsInv'
    <2>1. /\ submitted' = withProposal(s.slot, s, {}, FALSE)
          /\ consents' = Standing(s.slot)
          /\ UNCHANGED <<main, rule, editors, table, ownerSteps, touched>>
        BY <1>2 DEF Reject
    <2>2. s.slot \in Slots
        BY HeldFields
    <2>3. \A c \in consents : c[2].slot # s.slot => c \in consents'
        BY <2>1 DEF Standing
    <2>4. FALSE \in BOOLEAN /\ {} \subseteq Approvers /\ \A b \in {} : <<b, s>> \in consents'
        OBVIOUS
    <2> DEFINE p == s.slot
               by == {}
    <2>5. /\ p \in Slots /\ s.slot = p /\ submitted' = withProposal(p, s, by, FALSE)
          /\ by \subseteq Approvers /\ \A b \in by : <<b, s>> \in consents'
          /\ \A c \in consents : c[2].slot # p => c \in consents'
        BY <2>1, <2>2, <2>3, <2>4
    <2> HIDE DEF p, by
    <2> QED
        BY <2>1, <2>4, <2>5, TakingStep
<1>3. ASSUME NEW p \in Slots, withdrawApproval(a, p) PROVE ApprovalsInv'
    <2>1. /\ submitted' = withProposal(p, Of(p), submitted[p].by \ {a}, TRUE)
          /\ consents' = consents \ {<<a, Of(p)>>}
          /\ UNCHANGED <<main, rule, editors, table, ownerSteps, touched>>
          /\ p \in Pending
        BY <1>3 DEF withdrawApproval, Listed, Open
    <2>2. Of(p) \in table /\ Of(p).slot = p /\ submitted[p].by \subseteq Approvers
        BY <2>1 DEF ApprovalsInv, ApprovalsTypeOK
    <2>3. \A b \in submitted[p].by \ {a} : <<b, Of(p)>> \in consents'
        BY <2>1 DEF ApprovalsInv, ConsentInv
    <2>4. \A c \in consents : c[2].slot # p => c \in consents'
        BY <2>1, <2>2
    <2> QED
        BY <2>1, <2>2, <2>3, <2>4, TakingStep
<1> QED
    BY <1>1, <1>2, <1>3

\* The owner's edits leave submissions alone.
LEMMA OwnerSteps ==
    ASSUME ApprovalsInv,
           \/ \E i \in Items : EditMain(i)
           \/ \E r \in {Default, {Own}, Approvers} \ {rule} : setMergeRule(r)
           \/ \E p \in Members : SetCapabilities(p)
    PROVE  ApprovalsInv'
<1>1. ownerSteps' \in 0 .. MaxOwnerSteps /\ UNCHANGED <<submitted, table, consents, touched>>
    BY ApprovalsAssumption DEF EditMain, setMergeRule, SetCapabilities, OwnerStep, ApprovalsInv, ApprovalsTypeOK
<1>2. main' \in Contents
    BY ToggledRow DEF EditMain, setMergeRule, SetCapabilities, ApprovalsInv, ApprovalsTypeOK, Contents
<1>3. (rule' = Default \/ rule' \in SUBSET Approvers) /\ editors' \subseteq Members
    BY DEF EditMain, setMergeRule, SetCapabilities, Toggled, Approvers, ApprovalsInv, ApprovalsTypeOK
<1> QED
    BY <1>1, <1>2, <1>3 DEF ApprovalsInv, ApprovalsTypeOK, TableInv, ConsentInv, Pending, Of

LEMMA ApprovalsInvKept == ApprovalsInv /\ [ApprovalsNext]_approvalVars => ApprovalsInv'
<1> SUFFICES ASSUME ApprovalsInv, [ApprovalsNext]_approvalVars PROVE ApprovalsInv'
    OBVIOUS
<1>1. CASE UNCHANGED approvalVars
    BY <1>1 DEF approvalVars, ApprovalsInv, ApprovalsTypeOK, TableInv, ConsentInv, Pending, Of
<1>2. CASE ApprovalsNext
    BY <1>2, SubmitStep, DecisionSteps, OwnerSteps DEF ApprovalsNext, Approvers
<1> QED
    BY <1>1, <1>2

\* Submissions are numbered and change what their sender touched; the approvals an entry
\* lists were given to the content it has (approvals.ts:3-17).
THEOREM SubmissionsStand == ApprovalsSpec => []ApprovalsInv
<1> QED
    BY ApprovalsInvAtStart, ApprovalsInvKept, PTL DEF ApprovalsSpec

-----------------------------------------------------------------------------
(* What the steps do with main *)

\* A submission put in the place of another leaves none applied.
LEMMA PlacedNotMerged ==
    ASSUME ApprovalsInv, NEW p \in Slots, NEW s \in Submissions, NEW by \in SUBSET Approvers,
           NEW open \in BOOLEAN, submitted' = withProposal(p, s, by, open)
    PROVE  \A q \in Slots : ~MergedNow(q)
<1>1. [of |-> s, by |-> by, open |-> open] \in Entries
    BY DEF Entries
<1>2. submitted'[p] = [of |-> s, by |-> by, open |-> open]
    BY DEF withProposal, ApprovalsInv
<1>3. submitted'[p] # Nothing
    BY <1>1, <1>2, NothingAssumption
<1>4. \A q \in Slots \ {p} : submitted'[q] = submitted[q]
    BY DEF withProposal, ApprovalsInv
<1> QED
    BY <1>3, <1>4 DEF MergedNow, Pending

\* What an acceptance that applies the submission says of the approvals it has.
LEMMA RuleSatisfied ==
    ASSUME ApprovalsInv, NEW p \in Pending, NEW a \in Approvers, acceptSubmission(p, a), MergedNow(p)
    PROVE  ApprovedByRule(p)
<1> DEFINE by == submitted[p].by \cup {a}
           applied == missingApprovals(p, by) = {}
<1>1. p \in Slots /\ Of(p) \in Submissions /\ by \in SUBSET Approvers
    BY DEF ApprovalsInv, ApprovalsTypeOK, Pending
<1>2. \A b \in by : <<b, Of(p)>> \in consents'
    BY DEF acceptSubmission, ApprovalsInv, ConsentInv
<1>3. applied
    <2> SUFFICES ASSUME ~applied PROVE FALSE
        OBVIOUS
    <2>1. submitted' = withProposal(p, Of(p), by, TRUE)
        BY DEF acceptSubmission
    <2> HIDE DEF by, applied
    <2> QED
        BY <1>1, <2>1, PlacedNotMerged
<1>4. by \subseteq {b \in Approvers : <<b, Of(p)>> \in consents'}
    BY <1>1, <1>2
<1> HIDE DEF by
<1>5. CASE rule # Default
    BY <1>3, <1>4, <1>5 DEF missingApprovals, ApprovedByRule
<1>6. CASE rule = Default
    BY <1>3, <1>4, <1>6 DEF missingApprovals, ApprovedByRule
<1> QED
    BY <1>5, <1>6

\* Only an acceptance applies a submission, and only it and the owner's edits change main.
LEMMA StepKinds ==
    ASSUME ApprovalsInv, ApprovalsNext
    PROVE  \/ /\ \A q \in Slots : ~MergedNow(q)
              /\ main' = main \/ ownerSteps' # ownerSteps
           \/ \E p \in Open, a \in Approvers : /\ acceptSubmission(p, a)
                                              /\ \A q \in Slots \ {p} : ~MergedNow(q)
<1>1. ASSUME NEW p \in Slots, NEW i \in Items, Submit(p, i) \/ proposeVisitorValues(p, i)
      PROVE  (\A q \in Slots : ~MergedNow(q)) /\ main' = main
    <2>1. PICK s : /\ submitted' = withProposal(p, s, {}, TRUE)
                   /\ table' = table \cup {s} /\ main' = main
        BY <1>1 DEF Submit, proposeVisitorValues
    <2>2. ApprovalsInv'
        BY <1>1, SubmitStep
    <2>3. s \in Submissions
        BY <2>1, <2>2 DEF ApprovalsInv, ApprovalsTypeOK
    <2>4. {} \in SUBSET Approvers /\ TRUE \in BOOLEAN
        OBVIOUS
    <2> QED
        BY <2>1, <2>3, <2>4, PlacedNotMerged
<1>2. ASSUME NEW a \in Approvers, NEW s \in table, Reject(a, s)
      PROVE  (\A q \in Slots : ~MergedNow(q)) /\ main' = main
    <2>1. submitted' = withProposal(s.slot, s, {}, FALSE) /\ main' = main
        BY <1>2 DEF Reject
    <2>2. s \in Submissions /\ s.slot \in Slots /\ {} \in SUBSET Approvers /\ FALSE \in BOOLEAN
        BY HeldFields DEF ApprovalsInv, ApprovalsTypeOK
    <2> QED
        BY <2>1, <2>2, PlacedNotMerged
<1>3. ASSUME NEW v \in Members, NEW p \in Slots, withdrawApproval(v, p)
      PROVE  (\A q \in Slots : ~MergedNow(q)) /\ main' = main
    <2>1. /\ submitted' = withProposal(p, Of(p), submitted[p].by \ {v}, TRUE)
          /\ main' = main /\ p \in Pending
        BY <1>3 DEF withdrawApproval, Listed, Open
    <2>2. Of(p) \in Submissions /\ submitted[p].by \ {v} \in SUBSET Approvers /\ TRUE \in BOOLEAN
        BY <2>1 DEF ApprovalsInv, ApprovalsTypeOK
    <2> QED
        BY <2>1, <2>2, PlacedNotMerged
<1>4. ASSUME NEW a \in Approvers, NEW p \in Slots, Approve(a, p) \/ VisitorApproves(a, p)
      PROVE  p \in Open /\ acceptSubmission(p, a) /\ \A q \in Slots \ {p} : ~MergedNow(q)
    <2>1. p \in Open /\ acceptSubmission(p, a)
        BY <1>4 DEF Approve, VisitorApproves, Listed
    <2>2. \A q \in Slots \ {p} : submitted'[q] = submitted[q]
        BY <2>1 DEF acceptSubmission, withProposal, ApprovalsInv
    <2> QED
        BY <2>1, <2>2 DEF MergedNow, Pending
<1>5. ASSUME OwnerStep
      PROVE  (\A q \in Slots : ~MergedNow(q)) /\ ownerSteps' # ownerSteps
    BY <1>5, ApprovalsAssumption DEF OwnerStep, MergedNow, Pending, ApprovalsInv, ApprovalsTypeOK
<1>6. (\E i \in Items : EditMain(i)) \/ (\E r \in {Default, {Own}, Approvers} \ {rule} : setMergeRule(r))
          \/ (\E p \in Members : SetCapabilities(p)) => OwnerStep
    BY DEF EditMain, setMergeRule, SetCapabilities
<1> QED
    BY <1>1, <1>2, <1>3, <1>4, <1>5, <1>6 DEF ApprovalsNext, Approvers

\* A submission that is applied is open and has the approvals the rule asks for at that
\* moment, each of its own content and not withdrawn (approvals.ts:3-17).
THEOREM MergedAsTheRuleAsks == ApprovalsSpec => MergedAsApproved
<1>1. ApprovalsInv /\ ApprovalsNext
          => \A p \in Slots : MergedNow(p) => submitted[p].open /\ ApprovedByRule(p)
    <2> SUFFICES ASSUME ApprovalsInv, ApprovalsNext, NEW p \in Slots, MergedNow(p)
                 PROVE  submitted[p].open /\ ApprovedByRule(p)
        OBVIOUS
    <2>1. PICK a \in Approvers : p \in Open /\ acceptSubmission(p, a)
        BY StepKinds
    <2>2. p \in Pending /\ submitted[p].open
        BY <2>1 DEF Open
    <2> QED
        BY <2>1, <2>2, RuleSatisfied
<1>2. ApprovalsInv /\ [ApprovalsNext]_approvalVars
          => [\A p \in Slots : MergedNow(p) => submitted[p].open /\ ApprovedByRule(p)]_approvalVars
    BY <1>1
<1> QED
    BY <1>2, SubmissionsStand, PTL DEF ApprovalsSpec, MergedAsApproved

\* What main got in the rows a submission's sender did not touch is neither lost nor
\* brought back when it is applied (docs/sync.md:36).
THEOREM OnlyTouchedRowsMerge == ApprovalsSpec => OnlyItsRowsMerge
<1> DEFINE RowsStep ==
               main' # main =>
                 \/ ownerSteps' # ownerSteps
                 \/ \E p \in Slots : /\ MergedNow(p)
                                    /\ (main \ main') \cup (main' \ main) \subseteq touched[Of(p).sent]
<1>1. ASSUME ApprovalsInv, ApprovalsNext PROVE RowsStep
    <2> SUFFICES ASSUME main' # main, ownerSteps' = ownerSteps
                 PROVE  \E p \in Slots : /\ MergedNow(p)
                                        /\ (main \ main') \cup (main' \ main) \subseteq touched[Of(p).sent]
        OBVIOUS
    <2>1. PICK p \in Open, a \in Approvers : acceptSubmission(p, a)
        BY <1>1, StepKinds
    <2>2. p \in Pending /\ p \in Slots
        BY <2>1 DEF Open, Pending
    <2>3. submitted'[p] = Nothing /\ Difference(main, main') \subseteq touched[Of(p).sent]
        BY <1>1, <2>1, <2>2, AcceptStep
    <2> QED
        BY <2>2, <2>3 DEF MergedNow, Difference
<1>2. ApprovalsInv /\ [ApprovalsNext]_approvalVars => [RowsStep]_approvalVars
    BY <1>1
<1>3. ApprovalsSpec => [][RowsStep]_approvalVars
    BY <1>2, SubmissionsStand, PTL DEF ApprovalsSpec
<1> QED
    BY <1>3 DEF OnlyItsRowsMerge

-----------------------------------------------------------------------------
(* The relay of messages *)

\* The rows at the node, in the queues, in the copies and in a run are all in S.
RowsIn(S, there, subs, queues, copies, agreed, run) ==
    /\ there \in SUBSET S
    /\ subs \in [Ends -> SUBSET S] /\ queues \in [Ends -> SUBSET S]
    /\ copies \in [Ends -> [Places -> SUBSET S]] /\ agreed \in [Ends -> [Places -> SUBSET S]]
    /\ run.todo \in SUBSET (S \X (Ends \cup {""}))
    /\ run.orig \in [Ends -> SUBSET S]
    /\ DOMAIN run = {"todo", "orig"}

\* The rows there may be: of messages written, and their addressee's acknowledgements.
Given == {r \in LeftRows : r[1] \in written /\ (r[2] = "ack" => r[1] \in taken[Addressee[r[1]]])}

\* The rows there may be in e's queue.
Mail(e) == {r \in LeftRows : r[2] = "message" => Addressee[r[1]] = e}

\* A run has the submissions as they were; a copy has what was agreed on; a queue, and
\* a copy of it, only its owner's messages.
PassInv == pass.todo # {} => \A e \in Ends : left[e] \subseteq pass.orig[e]
CopyInv == \A e \in Ends, p \in Places : synced[e][p] \subseteq copied[e][p]
QueueInv == \A e \in Ends : queue[e] \subseteq Mail(e) /\ copied[e]["queue"] \subseteq Mail(e)

MessagesInv ==
    /\ MessagesTypeOK
    /\ RowsIn(Given, atMain, left, queue, copied, synced, pass)
    /\ PassInv
    /\ CopyInv
    /\ QueueInv

\* What a step does with messages that are left and with those in a queue.
KeptStep ==
    \A m \in Messages :
        /\ LeftAt(m) /\ ~LeftAt(m)' => m \in whole /\ Message(m) \in queue'[Addressee[m]]
        /\ \A e \in Ends : Message(m) \in queue[e] /\ Message(m) \notin queue'[e] =>
              m \in taken[e] \/ e \notin known'

LEMMA RowsInMore ==
    ASSUME NEW ACTION S, NEW ACTION T, S \subseteq T, NEW ACTION a, NEW ACTION l, NEW ACTION q,
           NEW ACTION c, NEW ACTION y, NEW ACTION r, RowsIn(S, a, l, q, c, y, r)
    PROVE  RowsIn(T, a, l, q, c, y, r)
<1>1. SUBSET S \subseteq SUBSET T /\ [Ends -> SUBSET S] \subseteq [Ends -> SUBSET T]
    OBVIOUS
<1>2. [Places -> SUBSET S] \subseteq [Places -> SUBSET T]
    OBVIOUS
<1>3. [Ends -> [Places -> SUBSET S]] \subseteq [Ends -> [Places -> SUBSET T]]
    BY <1>2
<1>4. S \X (Ends \cup {""}) \subseteq T \X (Ends \cup {""})
    OBVIOUS
<1> QED
    BY <1>1, <1>3, <1>4 DEF RowsIn

LEMMA LeftSomewhere ==
    ASSUME NEW m
    PROVE  /\ LeftAt(m) <=> Message(m) \in atMain \/ \E e \in Ends : Message(m) \in left[e]
           /\ LeftAt(m)' <=> Message(m) \in atMain' \/ \E e \in Ends : Message(m) \in left'[e]
  BY DEF LeftAt, Message

LEMMA MessagesInvAtStart == MessagesInit => MessagesInv
<1> SUFFICES ASSUME MessagesInit PROVE MessagesInv
    OBVIOUS
<1>1. MessagesTypeOK
    BY MessagesAssumption DEF MessagesInit, MessagesTypeOK, Idle, NoRows, Places
<1>2. RowsIn(Given, atMain, left, queue, copied, synced, pass)
    BY DEF MessagesInit, RowsIn, Idle, NoRows, Places
<1>3. PassInv /\ CopyInv /\ QueueInv
    BY DEF MessagesInit, PassInv, CopyInv, QueueInv, Idle, NoRows, Places
<1> QED
    BY <1>1, <1>2, <1>3 DEF MessagesInv

-----------------------------------------------------------------------------
(* The relay *)

\* What handling a row leaves of a run.
LEMMA HandledPass ==
    ASSUME MessagesInv, NEW r, NEW from, Handling(r, from)
    PROVE  /\ pass'.todo \subseteq pass.todo /\ DOMAIN pass' = {"todo", "orig"}
           /\ pass'.todo # {} => pass'.orig = pass.orig
           /\ pass'.orig \in [Ends -> SUBSET Given]
           /\ r \in Given /\ from \in Ends \cup {""} /\ \A e \in Ends : left[e] \subseteq pass.orig[e]
<1>1. /\ pass.todo \in SUBSET (Given \X (Ends \cup {""})) /\ pass.orig \in [Ends -> SUBSET Given]
      /\ DOMAIN pass = {"todo", "orig"}
    BY DEF MessagesInv, RowsIn
<1>2. <<r, from>> \in pass.todo
    BY DEF Handling
<1>3. \A e \in Ends : left[e] \subseteq pass.orig[e]
    BY <1>2 DEF MessagesInv, PassInv
<1>4. CASE pass' = Idle
    BY <1>1, <1>2, <1>3, <1>4 DEF Idle
<1>5. CASE pass' = [pass EXCEPT !.todo = pass.todo \ {<<r, from>>}]
    BY <1>1, <1>2, <1>3, <1>5
<1> QED
    BY <1>4, <1>5 DEF Handling

\* Taking a row away takes no other away.
LEMMA TakenAway ==
    ASSUME MessagesInv, NEW r, NEW from, Handling(r, from), takeAway(r, from)
    PROVE  /\ atMain' \in SUBSET Given /\ left' \in [Ends -> SUBSET Given]
           /\ pass'.todo # {} => \A e \in Ends : left'[e] \subseteq pass'.orig[e]
           /\ \A x \in atMain : x # r => x \in atMain'
           /\ \A e \in Ends : \A x \in left[e] : x # r => x \in left'[e]
<1>1. /\ atMain \in SUBSET Given /\ left \in [Ends -> SUBSET Given] /\ pass.orig \in [Ends -> SUBSET Given]
    BY DEF MessagesInv, RowsIn
<1>2. CASE from = ""
    BY <1>1, <1>2, HandledPass DEF takeAway
<1>3. CASE from # ""
    <2>1. /\ left' = [left EXCEPT ![from] = pass.orig[from] \ {r}] /\ atMain' = atMain
          /\ from \in Ends
        BY <1>3, HandledPass DEF takeAway
    <2> QED
        BY <1>1, <2>1, HandledPass
<1> QED
    BY <1>2, <1>3

\* A run in which rows are handled, and the queues changed within what they may have.
LEMMA RelayInvKept ==
    ASSUME MessagesInv,
           atMain' \in SUBSET Given, left' \in [Ends -> SUBSET Given],
           queue' \in [Ends -> SUBSET Given], \A e \in Ends : queue'[e] \subseteq Mail(e),
           pass'.todo \subseteq pass.todo, DOMAIN pass' = {"todo", "orig"},
           pass'.orig \in [Ends -> SUBSET Given],
           pass'.todo # {} => \A e \in Ends : left'[e] \subseteq pass'.orig[e],
           UNCHANGED <<known, rejected, whole, peerVars, lost>>
    PROVE  MessagesInv'
<1> USE DEF peerVars
<1>1. Given' = Given /\ Given \subseteq LeftRows
    BY DEF Given
<1>2. RowsIn(Given, atMain', left', queue', copied', synced', pass')
    BY DEF MessagesInv, RowsIn
<1>3. MessagesTypeOK'
    BY <1>1, <1>2 DEF MessagesInv, MessagesTypeOK, RowsIn
<1>4. PassInv' /\ CopyInv' /\ QueueInv'
    BY DEF MessagesInv, PassInv, CopyInv, QueueInv, Mail
<1> QED
    BY <1>1, <1>2, <1>3, <1>4 DEF MessagesInv

LEMMA DeliverStep ==
    ASSUME MessagesInv, NEW m \in Messages, NEW from, deliver(m, from)
    PROVE  MessagesInv' /\ KeptStep
<1>1. /\ Handling(Message(m), from) /\ takeAway(Message(m), from) /\ m \in whole
      /\ queue' = [queue EXCEPT ![Addressee[m]] = @ \cup {Message(m)}]
      /\ UNCHANGED <<known, rejected, whole, peerVars, lost>>
    BY DEF deliver, Handling
<1>2. queue \in [Ends -> SUBSET Given] /\ Addressee[m] \in Ends /\ \A e \in Ends : queue[e] \subseteq Mail(e)
    BY MessagesAssumption DEF MessagesInv, RowsIn, QueueInv
<1>3. Message(m) \in Given /\ Message(m) \in Mail(Addressee[m])
    BY <1>1, HandledPass DEF Mail, Message, LeftRows
<1>4. queue' \in [Ends -> SUBSET Given] /\ \A e \in Ends : queue[e] \subseteq queue'[e] /\ queue'[e] \subseteq Mail(e)
    BY <1>1, <1>2, <1>3
<1>5. MessagesInv'
    BY <1>1, <1>4, HandledPass, TakenAway, RelayInvKept
<1>6. Message(m) \in queue'[Addressee[m]]
    BY <1>1, <1>2
<1>7. \A k \in Messages : k # m => Message(k) # Message(m)
    BY DEF Message
<1>8. \A k \in Messages : k # m /\ LeftAt(k) => LeftAt(k)'
    BY <1>1, <1>7, TakenAway, LeftSomewhere
<1> QED
    BY <1>1, <1>4, <1>5, <1>6, <1>8 DEF KeptStep

\* A row that is left alone.
LEMMA AloneStep ==
    ASSUME MessagesInv, NEW r, NEW from, Handling(r, from), UNCHANGED <<atMain, left, queue>>
    PROVE  MessagesInv' /\ KeptStep
<1>1. /\ atMain \in SUBSET Given /\ left \in [Ends -> SUBSET Given] /\ queue \in [Ends -> SUBSET Given]
      /\ \A e \in Ends : queue[e] \subseteq Mail(e)
    BY DEF MessagesInv, RowsIn, QueueInv
<1>2. UNCHANGED <<known, rejected, whole, peerVars, lost>>
    BY DEF Handling
<1>3. MessagesInv'
    BY <1>1, <1>2, HandledPass, RelayInvKept
<1> QED
    BY <1>3, LeftSomewhere DEF KeptStep

\* Only the addressee's acknowledgement takes a message out of its queue.
LEMMA DequeueStep ==
    ASSUME MessagesInv, NEW m \in Messages, NEW from, NEW e \in Ends, dequeue(m, from, e)
    PROVE  MessagesInv' /\ KeptStep
<1>1. /\ Handling(Ack(m), from) /\ takeAway(Ack(m), from) /\ Message(m) \in queue[e]
      /\ queue' = [queue EXCEPT ![e] = @ \ {Message(m)}]
      /\ UNCHANGED <<known, rejected, whole, peerVars, lost>>
    BY DEF dequeue, Handling
<1>2. queue \in [Ends -> SUBSET Given] /\ \A d \in Ends : queue[d] \subseteq Mail(d)
    BY DEF MessagesInv, RowsIn, QueueInv
<1>3. queue' \in [Ends -> SUBSET Given] /\ \A d \in Ends : queue'[d] \subseteq Mail(d)
    BY <1>1, <1>2
<1>4. MessagesInv'
    BY <1>1, <1>3, HandledPass, TakenAway, RelayInvKept
<1>5. Addressee[m] = e
    BY <1>1, <1>2 DEF Mail, Message
<1>6. m \in taken[e]
    <2>1. Ack(m) \in Given
        BY <1>1, HandledPass
    <2> QED
        BY <1>5, <2>1 DEF Given, Ack
<1>7. \A k \in Messages : Message(k) # Ack(m) /\ (k # m => Message(k) # Message(m))
    BY DEF Message, Ack
<1>8. \A k \in Messages : LeftAt(k) => LeftAt(k)'
    BY <1>1, <1>7, TakenAway, LeftSomewhere
<1>9. \A k \in Messages, d \in Ends : Message(k) \in queue[d] /\ Message(k) \notin queue'[d] => k = m /\ d = e
    BY <1>1, <1>2, <1>7
<1> QED
    BY <1>4, <1>6, <1>8, <1>9 DEF KeptStep

LEMMA ClearStep ==
    ASSUME MessagesInv, clearQueues
    PROVE  MessagesInv' /\ KeptStep
<1>1. /\ queue' = [e \in Ends |-> IF e \in known THEN queue[e] \ (Acked(e) \X {"message", "ack"}) ELSE queue[e]]
      /\ UNCHANGED <<known, atMain, left, rejected, whole, peerVars, pass, lost>>
    BY DEF clearQueues
<1>2. /\ queue \in [Ends -> SUBSET Given] /\ \A d \in Ends : queue[d] \subseteq Mail(d)
      /\ atMain \in SUBSET Given /\ left \in [Ends -> SUBSET Given] /\ pass.orig \in [Ends -> SUBSET Given]
      /\ DOMAIN pass = {"todo", "orig"} /\ (pass.todo # {} => \A e \in Ends : left[e] \subseteq pass.orig[e])
    BY DEF MessagesInv, RowsIn, QueueInv, PassInv
<1>3. queue' \in [Ends -> SUBSET Given] /\ \A d \in Ends : queue'[d] \subseteq Mail(d)
    BY <1>1, <1>2
<1>4. MessagesInv'
    BY <1>1, <1>2, <1>3, RelayInvKept
<1>5. ASSUME NEW m \in Messages, NEW e \in Ends, Message(m) \in queue[e], Message(m) \notin queue'[e]
      PROVE  m \in taken[e]
    <2>1. m \in Acked(e)
        BY <1>1, <1>5 DEF Message
    <2>2. Ack(m) \in Given
        BY <1>2, <2>1 DEF Acked
    <2>3. Addressee[m] = e
        BY <1>2, <1>5 DEF Mail, Message
    <2> QED
        BY <2>2, <2>3 DEF Given, Ack
<1>6. \A m \in Messages : LeftAt(m) => LeftAt(m)'
    BY <1>1, LeftSomewhere
<1> QED
    BY <1>4, <1>5, <1>6 DEF KeptStep

LEMMA RelayStep ==
    ASSUME MessagesInv, relayAt
    PROVE  MessagesInv' /\ KeptStep
<1>1. ASSUME NEW m \in Messages, NEW from \in Ends \cup {""}, deliver(m, from) PROVE MessagesInv' /\ KeptStep
    BY <1>1, DeliverStep
<1>2. ASSUME NEW m \in Messages, NEW from \in Ends \cup {""}, leaveAlone(m, from) \/ ackAlone(m, from)
      PROVE  MessagesInv' /\ KeptStep
    BY <1>2, AloneStep DEF leaveAlone, ackAlone
<1>3. ASSUME NEW m \in Messages, NEW from \in Ends \cup {""}, NEW e \in Ends, dequeue(m, from, e)
      PROVE  MessagesInv' /\ KeptStep
    BY <1>3, DequeueStep
<1> QED
    BY <1>1, <1>2, <1>3, ClearStep DEF relayAt

-----------------------------------------------------------------------------
(* The peers *)

\* Between runs of the relay a step of a peer or of the owner keeps the rows there are.
LEMMA UnlockedInvKept ==
    ASSUME MessagesInv, RowsIn(Given, atMain', left', queue', copied', synced', pass'), PassInv', CopyInv', QueueInv',
           known' \subseteq Ends, rejected' \subseteq Ends, whole' \subseteq written, lost' \in 0 .. MaxLost,
           UNCHANGED <<written, taken>>
    PROVE  MessagesInv'
<1>1. Given' = Given /\ Given \subseteq LeftRows
    BY DEF Given
<1>2. RowsIn(LeftRows, atMain', left', queue', copied', synced', pass')
    BY <1>1, RowsInMore
<1>3. MessagesTypeOK'
    BY <1>2 DEF MessagesInv, MessagesTypeOK, RowsIn
<1> QED
    BY <1>1, <1>3 DEF MessagesInv

\* What is combined has what there is, and no more than was there or in the copy.
LEMMA CombinedRows ==
    ASSUME NEW base, NEW ours, NEW theirs, base \subseteq theirs
    PROVE  ours \subseteq Combined(base, ours, theirs) /\ Combined(base, ours, theirs) \subseteq ours \cup theirs
  BY DEF Combined

LEMMA ServedRows ==
    ASSUME MessagesInv, NEW e \in Ends
    PROVE  /\ Served(e) \in [Places -> SUBSET Given]
           /\ Served(e)["queue"] = queue[e]
           /\ Served(e)["node"] = IF e \in OwnDevices THEN atMain ELSE atMain \cup left[e]
           /\ copied[e] \in [Places -> SUBSET Given] /\ synced[e] \in [Places -> SUBSET Given]
           /\ \A p \in Places : synced[e][p] \subseteq copied[e][p]
<1>1. \A p \in Places : Served(e)[p] \in SUBSET Given
    BY DEF Served, MessagesInv, RowsIn, Places
<1> QED
    BY <1>1 DEF Served, MessagesInv, RowsIn, Places, CopyInv

LEMMA PullStep ==
    ASSUME MessagesInv, NEW e \in Ends, pullRows(e)
    PROVE  MessagesInv' /\ KeptStep
<1> DEFINE pulled == [p \in Places |-> Combined(synced[e][p], copied[e][p], Served(e)[p])]
<1>1. /\ copied' = [copied EXCEPT ![e] = pulled] /\ synced' = [synced EXCEPT ![e] = Served(e)]
      /\ UNCHANGED <<relayNodeVars, pass, lost, written, taken>>
    BY DEF pullRows
<1>2. \A p \in Places : /\ Served(e)[p] \subseteq pulled[p]
                         /\ pulled[p] \subseteq copied[e][p] \cup Served(e)[p]
    <2> SUFFICES ASSUME NEW p \in Places
                 PROVE  /\ Served(e)[p] \subseteq pulled[p]
                        /\ pulled[p] \subseteq copied[e][p] \cup Served(e)[p]
        OBVIOUS
    <2>1. synced[e][p] \subseteq copied[e][p]
        BY ServedRows
    <2>2. pulled[p] = Combined(synced[e][p], copied[e][p], Served(e)[p])
        OBVIOUS
    <2> QED
        BY <2>1, <2>2 DEF Combined
<1>3. pulled \in [Places -> SUBSET Given]
    <2> SUFFICES ASSUME NEW p \in Places
                 PROVE  Combined(synced[e][p], copied[e][p], Served(e)[p]) \in SUBSET Given
        OBVIOUS
    <2>1. copied[e][p] \subseteq Given /\ Served(e)[p] \subseteq Given
        BY ServedRows
    <2> QED
        BY <2>1 DEF Combined
<1> HIDE DEF pulled
<1>4. RowsIn(Given, atMain', left', queue', copied', synced', pass')
    BY <1>1, <1>3, ServedRows DEF MessagesInv, RowsIn, relayNodeVars
<1>5. CopyInv'
    BY <1>1, <1>2, ServedRows DEF MessagesInv, CopyInv, RowsIn
<1>6. PassInv'
    BY <1>1 DEF MessagesInv, PassInv, relayNodeVars
<1>7. QueueInv'
    <2>1. pulled["queue"] \subseteq copied[e]["queue"] \cup queue[e]
        BY <1>2, ServedRows DEF Places
    <2> QED
        BY <1>1, <2>1 DEF MessagesInv, QueueInv, RowsIn, relayNodeVars, Mail
<1>8. MessagesInv'
    BY <1>1, <1>4, <1>5, <1>6, <1>7, UnlockedInvKept DEF MessagesInv, MessagesTypeOK, relayNodeVars
<1>9. KeptStep
    BY <1>1, LeftSomewhere DEF KeptStep, relayNodeVars
<1> QED
    BY <1>8, <1>9

\* A run begins with rows that are left then, and with the submissions as they are.
LEMMA RunBegins ==
    ASSUME MessagesInv, atMain' \in SUBSET Given, left' \in [Ends -> SUBSET Given],
           pass' = Pass(atMain', left', rejected')
    PROVE  /\ pass'.todo \in SUBSET (Given \X (Ends \cup {""})) /\ pass'.orig \in [Ends -> SUBSET Given]
           /\ DOMAIN pass' = {"todo", "orig"}
           /\ pass'.todo # {} => \A e \in Ends : left'[e] \subseteq pass'.orig[e]
<1> DEFINE rows == rowsLeftAt(atMain', left', rejected')
<1>1. rows \in SUBSET (Given \X (Ends \cup {""}))
    <2> SUFFICES ASSUME NEW x \in rows PROVE x \in Given \X (Ends \cup {""})
        OBVIOUS
    <2>1. x \in LeftRows \X (Ends \cup {""}) /\ x[1] \in Given
        BY DEF rowsLeftAt
    <2> QED
        BY <2>1
<1>2. pass' = IF rows = {} THEN Idle ELSE [todo |-> rows, orig |-> left']
    BY DEF Pass
<1> HIDE DEF rows
<1>3. CASE rows = {}
    BY <1>2, <1>3 DEF Idle
<1>4. CASE rows # {}
    <2>1. pass' = [todo |-> rows, orig |-> left']
        BY <1>2, <1>4
    <2>2. pass'.todo = rows /\ pass'.orig = left' /\ DOMAIN pass' = {"todo", "orig"}
        BY <2>1
    <2> QED
        BY <1>1, <2>2
<1> QED
    BY <1>3, <1>4

\* The copies after an answer that came, or was lost.
LEMMA PushedCopies ==
    ASSUME MessagesInv, NEW e \in Ends, NEW p \in Places, NEW STATE value,
           value \in SUBSET Given, p = "queue" => value \subseteq Mail(e),
           \/ /\ copied' = [copied EXCEPT ![e][p] = value]
              /\ synced' = [synced EXCEPT ![e][p] = value]
           \/ UNCHANGED <<copied, synced>>
    PROVE  /\ copied' \in [Ends -> [Places -> SUBSET Given]] /\ synced' \in [Ends -> [Places -> SUBSET Given]]
           /\ CopyInv'
           /\ \A d \in Ends : copied'[d]["queue"] \subseteq Mail(d)
<1>1. /\ copied \in [Ends -> [Places -> SUBSET Given]] /\ synced \in [Ends -> [Places -> SUBSET Given]]
      /\ \A d \in Ends, x \in Places : synced[d][x] \subseteq copied[d][x]
      /\ \A d \in Ends : copied[d]["queue"] \subseteq Mail(d)
    BY DEF MessagesInv, RowsIn, CopyInv, QueueInv
<1>2. CASE UNCHANGED <<copied, synced>>
    BY <1>1, <1>2 DEF CopyInv
<1>3. CASE copied' = [copied EXCEPT ![e][p] = value] /\ synced' = [synced EXCEPT ![e][p] = value]
    <2> DEFINE copy == [copied[e] EXCEPT ![p] = value]
               agreed == [synced[e] EXCEPT ![p] = value]
    <2>1. copied' = [copied EXCEPT ![e] = copy] /\ synced' = [synced EXCEPT ![e] = agreed]
        BY <1>3
    <2>2. /\ copy \in [Places -> SUBSET Given] /\ agreed \in [Places -> SUBSET Given]
          /\ \A x \in Places : agreed[x] \subseteq copy[x]
        BY <1>1
    <2>3. copy["queue"] \subseteq Mail(e)
        BY <1>1 DEF Places
    <2> HIDE DEF copy, agreed
    <2>4. /\ copied' \in [Ends -> [Places -> SUBSET Given]] /\ synced' \in [Ends -> [Places -> SUBSET Given]]
          /\ \A d \in Ends \ {e} : copied'[d] = copied[d] /\ synced'[d] = synced[d]
          /\ copied'[e] = copy /\ synced'[e] = agreed
        BY <1>1, <2>1, <2>2
    <2>5. CopyInv'
        BY <1>1, <2>2, <2>4 DEF CopyInv
    <2> QED
        BY <1>1, <2>3, <2>4, <2>5
<1> QED
    BY <1>2, <1>3

LEMMA PushStep ==
    ASSUME MessagesInv, NEW e \in Ends, NEW p \in Places, pushRows(e, p)
    PROVE  MessagesInv' /\ KeptStep
<1> DEFINE value == Combined(synced[e][p], Served(e)[p], copied[e][p])
<1>1. /\ IF p = "queue" THEN queue' = [queue EXCEPT ![e] = value] /\ UNCHANGED <<atMain, left, rejected>>
         ELSE IF e \in OwnDevices THEN atMain' = value /\ UNCHANGED <<queue, left, rejected>>
         ELSE /\ left' = [left EXCEPT ![e] = value \ atMain]
              /\ rejected' = IF value # Served(e)[p] THEN rejected \ {e} ELSE rejected
              /\ UNCHANGED <<queue, atMain>>
      /\ pass' = Pass(atMain', left', rejected')
      /\ \/ /\ copied' = [copied EXCEPT ![e][p] = value]
            /\ synced' = [synced EXCEPT ![e][p] = value]
            /\ lost' = lost
         \/ /\ lost < MaxLost /\ lost' = lost + 1
            /\ UNCHANGED <<copied, synced>>
      /\ UNCHANGED <<known, whole, written, taken>>
    BY DEF pushRows
<1>2. /\ Served(e)[p] \subseteq value /\ value \subseteq copied[e][p] \cup Served(e)[p]
      /\ value \in SUBSET Given
    <2>1. /\ synced[e][p] \subseteq copied[e][p] /\ copied[e][p] \subseteq Given
          /\ Served(e)[p] \subseteq Given
        BY ServedRows
    <2> QED
        BY <2>1, CombinedRows
<1> HIDE DEF value
<1>3. /\ atMain \in SUBSET Given /\ left \in [Ends -> SUBSET Given] /\ queue \in [Ends -> SUBSET Given]
      /\ \A d \in Ends : queue[d] \subseteq Mail(d) /\ copied[d]["queue"] \subseteq Mail(d)
    BY DEF MessagesInv, RowsIn, QueueInv
<1>4. p = "queue" => queue[e] \subseteq value /\ value \subseteq Mail(e)
    BY <1>2, <1>3, ServedRows
<1>5. /\ atMain' \in SUBSET Given /\ left' \in [Ends -> SUBSET Given] /\ queue' \in [Ends -> SUBSET Given]
      /\ rejected' \subseteq rejected
      /\ \A d \in Ends : queue[d] \subseteq queue'[d] /\ queue'[d] \subseteq Mail(d)
      /\ atMain \subseteq atMain' /\ \A d \in Ends : left[d] \subseteq left'[d] \cup atMain'
    <2>1. CASE p = "queue"
        <3>1. queue' = [queue EXCEPT ![e] = value] /\ UNCHANGED <<atMain, left, rejected>>
            BY <1>1, <2>1
        <3>2. queue' \in [Ends -> SUBSET Given]
            BY <1>2, <1>3, <3>1
        <3>3. \A d \in Ends : queue[d] \subseteq queue'[d] /\ queue'[d] \subseteq Mail(d)
            BY <1>3, <1>4, <2>1, <3>1
        <3> QED
            BY <1>3, <3>1, <3>2, <3>3
    <2>2. CASE p = "node" /\ e \in OwnDevices
        <3>1. atMain' = value /\ UNCHANGED <<queue, left, rejected>>
            BY <1>1, <2>2
        <3>2. atMain \subseteq value
            BY <1>2, <2>2, ServedRows
        <3> QED
            BY <1>2, <1>3, <3>1, <3>2
    <2>3. CASE p = "node" /\ e \notin OwnDevices
        <3>1. left' = [left EXCEPT ![e] = value \ atMain] /\ rejected' \subseteq rejected /\ UNCHANGED <<queue, atMain>>
            BY <1>1, <2>3
        <3>2. left[e] \subseteq value
            BY <1>2, <2>3, ServedRows
        <3> QED
            BY <1>2, <1>3, <3>1, <3>2
    <2> QED
        BY <2>1, <2>2, <2>3 DEF Places
<1>6. /\ copied' \in [Ends -> [Places -> SUBSET Given]] /\ synced' \in [Ends -> [Places -> SUBSET Given]]
      /\ CopyInv' /\ \A d \in Ends : copied'[d]["queue"] \subseteq Mail(d)
    BY <1>1, <1>2, <1>4, PushedCopies
<1>7. RowsIn(Given, atMain', left', queue', copied', synced', pass') /\ PassInv'
    BY <1>1, <1>5, <1>6, RunBegins DEF RowsIn, PassInv
<1>8. QueueInv'
    BY <1>5, <1>6 DEF QueueInv, Mail
<1>9. known' \subseteq Ends /\ rejected' \subseteq Ends /\ whole' \subseteq written /\ lost' \in 0 .. MaxLost
    <2>1. lost' = lost \/ (lost < MaxLost /\ lost' = lost + 1)
        BY <1>1
    <2>2. lost' \in 0 .. MaxLost
        <3>1. lost \in 0 .. MaxLost
            BY DEF MessagesInv, MessagesTypeOK
        <3> QED
            BY <2>1, <3>1, MessagesAssumption
    <2>3. known \subseteq Ends /\ rejected \subseteq Ends /\ whole \subseteq written
        BY DEF MessagesInv, MessagesTypeOK
    <2>4. UNCHANGED <<known, whole>>
        BY <1>1
    <2> QED
        BY <1>5, <2>2, <2>3, <2>4
<1>10. MessagesInv'
    BY <1>1, <1>6, <1>7, <1>8, <1>9, UnlockedInvKept
<1>11. \A m \in Messages : LeftAt(m) => LeftAt(m)'
    BY <1>5, LeftSomewhere
<1> QED
    BY <1>5, <1>10, <1>11 DEF KeptStep

LEMMA RowsHeld ==
    ASSUME MessagesInv
    PROVE  /\ atMain \in SUBSET Given /\ left \in [Ends -> SUBSET Given] /\ queue \in [Ends -> SUBSET Given]
           /\ \A e \in Ends : queue[e] \subseteq Mail(e) /\ copied[e]["queue"] \subseteq Mail(e)
  BY DEF MessagesInv, RowsIn, QueueInv

\* A step that leaves the peers' copies alone.
LEMMA OwnerInvKept ==
    ASSUME MessagesInv, known' \subseteq Ends, rejected' \subseteq Ends, whole' \subseteq written,
           atMain' \in SUBSET Given, left' \in [Ends -> SUBSET Given],
           queue' \in [Ends -> SUBSET Given], \A e \in Ends : queue'[e] \subseteq Mail(e),
           pass' = Pass(atMain', left', rejected') \/ (pass' = pass /\ pass.todo = {}),
           UNCHANGED <<peerVars, lost>>
    PROVE  MessagesInv'
<1>1. UNCHANGED <<copied, synced, written, taken>>
    BY DEF peerVars
<1>2. /\ pass'.todo \in SUBSET (Given \X (Ends \cup {""})) /\ pass'.orig \in [Ends -> SUBSET Given]
      /\ DOMAIN pass' = {"todo", "orig"}
      /\ pass'.todo # {} => \A e \in Ends : left'[e] \subseteq pass'.orig[e]
    <2>1. CASE pass' = Pass(atMain', left', rejected')
        BY <2>1, RunBegins
    <2>2. CASE pass' = pass /\ pass.todo = {}
        BY <2>2 DEF MessagesInv, RowsIn
    <2> QED
        BY <2>1, <2>2
<1>3. RowsIn(Given, atMain', left', queue', copied', synced', pass')
    BY <1>1, <1>2 DEF MessagesInv, RowsIn
<1>4. PassInv' /\ CopyInv' /\ QueueInv'
    BY <1>1, <1>2 DEF MessagesInv, PassInv, CopyInv, QueueInv, Mail
<1>5. lost' \in 0 .. MaxLost
    BY DEF MessagesInv, MessagesTypeOK
<1> QED
    BY <1>1, <1>3, <1>4, <1>5, UnlockedInvKept

\* A peer adds to a copy of its own, and with it to the rows there may be.
LEMMA CopyGrows ==
    ASSUME MessagesInv, NEW e \in Ends, NEW STATE copy, copied' = [copied EXCEPT ![e] = copy],
           Given \subseteq Given', copy \in [Places -> SUBSET Given'], copy["queue"] \subseteq Mail(e),
           \A p \in Places : copied[e][p] \subseteq copy[p],
           written \subseteq written', written' \subseteq Messages, taken' \in [Ends -> SUBSET Messages],
           UNCHANGED <<relayNodeVars, pass, lost, synced>>
    PROVE  MessagesInv' /\ KeptStep
<1>1. UNCHANGED <<known, atMain, left, rejected, queue, whole, pass, lost, synced>>
    BY DEF relayNodeVars
<1>2. RowsIn(Given', atMain, left, queue, copied, synced, pass)
    BY RowsInMore DEF MessagesInv
<1>3. RowsIn(Given', atMain', left', queue', copied', synced', pass')
    BY <1>1, <1>2 DEF RowsIn
<1>4. Given' \subseteq LeftRows
    BY DEF Given
<1>5. RowsIn(LeftRows, atMain', left', queue', copied', synced', pass')
    BY <1>3, <1>4, RowsInMore
<1>6. MessagesTypeOK'
    BY <1>1, <1>5 DEF MessagesInv, MessagesTypeOK, RowsIn
<1>7. /\ copied'[e] = copy /\ \A d \in Ends \ {e} : copied'[d] = copied[d]
    BY DEF MessagesInv, RowsIn
<1>8. PassInv' /\ CopyInv' /\ QueueInv'
    BY <1>1, <1>7 DEF MessagesInv, PassInv, CopyInv, QueueInv, Mail
<1>9. KeptStep
    BY <1>1, LeftSomewhere DEF KeptStep
<1> QED
    BY <1>3, <1>6, <1>8, <1>9 DEF MessagesInv

\* The rows of a message come after it.
LEMMA PartsStep ==
    ASSUME MessagesInv, NEW m \in Messages, pushParts(m)
    PROVE  MessagesInv' /\ KeptStep
<1>1. /\ whole' = whole \cup {m} /\ pass' = Pass(atMain, left, rejected)
      /\ UNCHANGED <<known, atMain, left, rejected, queue, peerVars, lost>>
    BY DEF pushParts
<1>2. m \in written
    <2>1. Message(m) \in copied[Sender[m]]["node"] /\ Sender[m] \in Ends
        BY MessagesAssumption DEF pushParts
    <2>2. Message(m) \in Given
        BY <2>1, ServedRows DEF Places
    <2> QED
        BY <2>2 DEF Given, Message
<1>3. MessagesInv'
    <2>1. /\ known' \subseteq Ends /\ rejected' \subseteq Ends /\ whole' \subseteq written
          /\ UNCHANGED <<peerVars, lost>> /\ pass' = Pass(atMain', left', rejected')
        BY <1>1, <1>2 DEF MessagesInv, MessagesTypeOK
    <2> QED
        BY <1>1, <2>1, RowsHeld, OwnerInvKept
<1>4. KeptStep
    BY <1>1, LeftSomewhere DEF KeptStep
<1> QED
    BY <1>3, <1>4

\* A message is written into the sender's copy.
LEMMA WriteStep ==
    ASSUME MessagesInv, NEW m \in Messages, addRelayMessage(m)
    PROVE  MessagesInv' /\ KeptStep
<1> DEFINE e == Sender[m]
           copy == [copied[e] EXCEPT !["node"] = @ \cup {Message(m)}]
<1>1. /\ written' = written \cup {m} /\ copied' = [copied EXCEPT ![e] = copy]
      /\ UNCHANGED <<relayNodeVars, pass, lost, synced, taken>>
    BY DEF addRelayMessage
<1>2. Given \subseteq Given' /\ Message(m) \in Given'
    BY <1>1 DEF Given, LeftRows, Message
<1>3. e \in Ends
    BY MessagesAssumption
<1> HIDE DEF e
<1>4. copy \in [Places -> SUBSET Given'] /\ copy["queue"] = copied[e]["queue"]
      /\ \A p \in Places : copied[e][p] \subseteq copy[p]
    BY <1>2, <1>3, ServedRows DEF Places
<1> HIDE DEF copy
<1>5. /\ written \subseteq written' /\ written' \subseteq Messages
      /\ taken' \in [Ends -> SUBSET Messages]
    BY <1>1 DEF MessagesInv, MessagesTypeOK
<1>6. copy["queue"] \subseteq Mail(e)
    BY <1>3, <1>4, RowsHeld
<1> QED
    BY <1>1, <1>2, <1>3, <1>4, <1>5, <1>6, CopyGrows

\* An acknowledgement is the addressee's, who has the message.
LEMMA AckStep ==
    ASSUME MessagesInv, NEW e \in Ends, NEW m \in Messages, addRelayAck(e, m)
    PROVE  MessagesInv' /\ KeptStep
<1> DEFINE p == IF e \in OwnDevices THEN "queue" ELSE "node"
           copy == [copied[e] EXCEPT ![p] = @ \cup {Ack(m)}]
<1>1. /\ taken' = [taken EXCEPT ![e] = @ \cup {m}] /\ copied' = [copied EXCEPT ![e] = copy]
      /\ UNCHANGED <<relayNodeVars, pass, lost, synced, written>> /\ m \in relayInbox(e)
    BY DEF addRelayAck
<1>2. Message(m) \in Mail(e) /\ Message(m) \in Given
    BY <1>1, ServedRows DEF relayInbox, MessagesInv, QueueInv, Places
<1>3. Addressee[m] = e /\ m \in written
    BY <1>2 DEF Mail, Given, Message
<1>4. taken \in [Ends -> SUBSET Messages]
    BY DEF MessagesInv, MessagesTypeOK
<1>5. Given \subseteq Given' /\ Ack(m) \in Given'
    BY <1>1, <1>3, <1>4 DEF Given, LeftRows, Ack
<1>6. p \in Places
    BY DEF Places
<1> HIDE DEF p
<1>7. copy \in [Places -> SUBSET Given'] /\ \A x \in Places : copied[e][x] \subseteq copy[x]
    <2>1. copied[e] \in [Places -> SUBSET Given']
        BY <1>5, ServedRows
    <2> QED
        BY <2>1, <1>5, <1>6
<1>8. copy["queue"] \subseteq Mail(e)
    <2>1. Ack(m) \in Mail(e)
        BY DEF Mail, Ack, LeftRows
    <2> QED
        BY <2>1, <1>6, ServedRows DEF MessagesInv, QueueInv, Places
<1> HIDE DEF copy
<1>9. taken' \in [Ends -> SUBSET Messages]
    BY <1>1, <1>4
<1> QED
    BY <1>1, <1>5, <1>7, <1>8, <1>9, CopyGrows DEF MessagesInv, MessagesTypeOK

-----------------------------------------------------------------------------
(* The owner *)

LEMMA ReviewStep ==
    ASSUME MessagesInv, NEW e \in Ends, acceptLeft(e) \/ rejectLeft(e)
    PROVE  MessagesInv' /\ KeptStep
<1>1. /\ rejected' \subseteq Ends
      /\ \/ pass' = Pass(atMain', left', rejected')
         \/ pass' = pass /\ pass.todo = {}
      /\ UNCHANGED <<known, queue, whole, peerVars, lost>>
    BY DEF acceptLeft, rejectLeft, Unlocked, Relaying, MessagesInv, MessagesTypeOK
<1>2. /\ atMain' \in SUBSET Given /\ left' \in [Ends -> SUBSET Given]
      /\ atMain \subseteq atMain' /\ \A d \in Ends : left[d] \subseteq left'[d] \cup atMain'
    BY RowsHeld DEF acceptLeft, rejectLeft
<1>3. known' \subseteq Ends /\ whole' \subseteq written
    BY <1>1 DEF MessagesInv, MessagesTypeOK
<1>4. queue' \in [Ends -> SUBSET Given] /\ \A d \in Ends : queue'[d] \subseteq Mail(d)
    BY <1>1, RowsHeld
<1>5. MessagesInv'
    BY <1>1, <1>2, <1>3, <1>4, OwnerInvKept
<1>6. \A m \in Messages : LeftAt(m) => LeftAt(m)'
    BY <1>2, LeftSomewhere
<1> QED
    BY <1>1, <1>5, <1>6 DEF KeptStep

LEMMA MemberStep ==
    ASSUME MessagesInv, NEW e \in Ends, addMember(e) \/ removeMember(e)
    PROVE  MessagesInv' /\ KeptStep
<1>1. /\ known' \subseteq Ends
      /\ pass' = Pass(atMain', left', rejected')
      /\ UNCHANGED <<atMain, left, rejected, whole, peerVars, lost>>
    BY DEF addMember, removeMember, MessagesInv, MessagesTypeOK
<1>2. /\ queue' \in [Ends -> SUBSET Given] /\ \A d \in Ends : queue'[d] \subseteq Mail(d)
      /\ \A d \in Ends : queue'[d] = queue[d] \/ d \notin known'
    BY RowsHeld DEF addMember, removeMember
<1>3. rejected' \subseteq Ends /\ whole' \subseteq written
    BY <1>1 DEF MessagesInv, MessagesTypeOK
<1>4. MessagesInv'
    BY <1>1, <1>2, <1>3, RowsHeld, OwnerInvKept
<1> QED
    BY <1>1, <1>2, <1>4, LeftSomewhere DEF KeptStep

LEMMA MessagesStep == MessagesInv /\ MessagesNext => MessagesInv' /\ KeptStep
<1> SUFFICES ASSUME MessagesInv, MessagesNext PROVE MessagesInv' /\ KeptStep
    OBVIOUS
<1>1. CASE relayAt
    BY <1>1, RelayStep
<1>2. ASSUME NEW e \in Ends, pullRows(e) \/ acceptLeft(e) \/ rejectLeft(e) \/ addMember(e) \/ removeMember(e)
      PROVE  MessagesInv' /\ KeptStep
    BY <1>2, PullStep, ReviewStep, MemberStep
<1>3. ASSUME NEW e \in Ends, NEW p \in Places, pushRows(e, p) PROVE MessagesInv' /\ KeptStep
    BY <1>3, PushStep
<1>4. ASSUME NEW e \in Ends, NEW m \in Messages, addRelayAck(e, m) PROVE MessagesInv' /\ KeptStep
    BY <1>4, AckStep
<1>5. ASSUME NEW m \in Messages, addRelayMessage(m) \/ pushParts(m) PROVE MessagesInv' /\ KeptStep
    BY <1>5, WriteStep, PartsStep
<1> QED
    BY <1>1, <1>2, <1>3, <1>4, <1>5 DEF MessagesNext

\* A run of the relay works on the submissions as they still are, a queue has its owner's
\* messages alone, and an acknowledgement anywhere is its addressee's (relay.ts:1-17).
THEOREM RelayedRows == MessagesSpec => []MessagesInv
<1>1. MessagesInit => MessagesInv
    BY MessagesInvAtStart
<1>2. MessagesInv /\ [MessagesNext]_messageVars => MessagesInv'
    <2> SUFFICES ASSUME MessagesInv, [MessagesNext]_messageVars PROVE MessagesInv'
        OBVIOUS
    <2>1. CASE UNCHANGED messageVars
        <3>1. UNCHANGED <<known, atMain, left, rejected, queue, whole, copied, synced, written, taken, pass, lost>>
            BY <2>1 DEF messageVars, relayNodeVars, peerVars
        <3>2. RowsIn(Given, atMain', left', queue', copied', synced', pass')
            BY <3>1 DEF MessagesInv
        <3>3. PassInv' /\ CopyInv' /\ QueueInv'
            BY <3>1 DEF MessagesInv, PassInv, CopyInv, QueueInv, Mail
        <3>4. /\ known' \subseteq Ends /\ rejected' \subseteq Ends /\ whole' \subseteq written
              /\ lost' \in 0 .. MaxLost /\ UNCHANGED <<written, taken>>
            BY <3>1 DEF MessagesInv, MessagesTypeOK
        <3> QED
            BY <3>2, <3>3, <3>4, UnlockedInvKept
    <2> QED
        BY <2>1, MessagesStep
<1> QED
    BY <1>1, <1>2, PTL DEF MessagesSpec

\* A message leaves the relay node only whole and into its addressee's queue, and that
\* queue only acknowledged or with the member it belongs to (relay.ts:1-17).
THEOREM MessagesAreKept == MessagesSpec => MessagesKept
<1>1. MessagesInv /\ [MessagesNext]_messageVars => [KeptStep]_messageVars
    BY MessagesStep
<1>2. MessagesSpec => [][KeptStep]_messageVars
    BY <1>1, RelayedRows, PTL DEF MessagesSpec
<1> QED
    BY <1>2 DEF MessagesKept, KeptStep

-----------------------------------------------------------------------------
(* Triggers *)

Marks == 0 .. MaxEdits
Configs == [Triggers -> Config]
Claim == [for : Triggers \X Marks \X Marks, occurrence : Marks]
WalkType == [tab : SUBSET Tabs, next : Nat, firing : Triggers \cup {0}, occurrence : Marks,
             config : Configs, persisted : Tree]

TriggersTyped ==
    /\ clock \in 1 .. MaxEdits /\ listed \subseteq Triggers
    /\ memory \in [Tabs -> Tree] /\ stored \in Tree
    /\ walk \in WalkType /\ claims \subseteq Claim
    /\ walk.firing \in listed \cup {0}
    /\ walk.tab = {} \/ \E x \in Tabs : walk.tab = {x}

\* A tree has no time to come, and no trigger fired for a later one than it knows of.
Sane(u, now) ==
    /\ u.done <= now /\ u.updated <= now
    /\ \A t \in Triggers :
          /\ u.config[t].created <= now
          /\ u.state[t].status = "none" => u.state[t].occurrence = 0
          /\ t \in Timers => u.state[t].occurrence <= u.config[t].created
          /\ t \in Completions => u.state[t].occurrence <= u.updated

\* Two trees in which the task was edited last by the same edit.
SameEdit(u, v) == u.updated = v.updated => u.done = v.done

\* The tree u, with this configuration of the triggers, shows that c was claimed, or is
\* past what it was claimed for.
ShownBy(u, config, c) ==
    LET t == c.for[1] IN
    /\ u.state[t].status # "none"
    /\ \/ u.state[t].occurrence = c.occurrence
       \/ config[t].created > c.for[2]
       \/ t \in Completions /\ u.done # c.for[3]

\* A claim is for a time that was.
Made(c, now) ==
    /\ c.occurrence \in 1 .. now /\ c.for[2] <= c.occurrence /\ c.for[3] <= now
    /\ c.for[1] \in Timers => c.occurrence = c.for[2]
    /\ c.for[1] \in Completions => c.for[3] # 0

ClaimsMade == \A c \in claims : Made(c, clock)

StoredTrees ==
    /\ Sane(stored, clock)
    /\ \A x \in Tabs : Sane(memory[x], clock) /\ SameEdit(memory[x], stored)
    /\ \A x, y \in Tabs : SameEdit(memory[x], memory[y])

ClaimsShown == \A c \in claims : ShownBy(stored, stored.config, c)

\* The tab of a walk w has edited its configurations only forward, and has not fired
\* what is ahead.
WalkFits(at, w) ==
    /\ \A t \in Triggers : w.config[t].created <= at.config[t].created
    /\ \A t \in Timers : t >= w.next /\ t # w.firing
                            => at.state[t].occurrence <= w.config[t].created
    /\ w.firing # 0 => /\ at.state[w.firing].occurrence = w.occurrence
                       /\ w.next = w.firing

\* It shows the claims of what is ahead, as far as the walk goes by its configurations.
WalkShows(at, w, made) ==
    \A c \in made : c.for[1] >= w.next /\ c.for[1] # w.firing => ShownBy(at, w.config, c)

WalkKnows ==
    \A x \in Tabs : walk.tab = {x} => WalkFits(memory[x], walk) /\ WalkShows(memory[x], walk, claims)

TriggersInv ==
    /\ TriggersTyped
    /\ StoredTrees /\ ClaimsMade /\ ClaimsShown /\ WalkKnows

-----------------------------------------------------------------------------
(* Trees *)

\* The fields of a tree.
LEMMA TreeFields ==
    ASSUME NEW u \in Tree
    PROVE  /\ u.config \in Configs /\ u.state \in [Triggers -> TriggerState]
           /\ u.done \in Marks /\ u.updated \in Marks
           /\ \A t \in Triggers :
                 /\ u.config[t] \in Config /\ u.config[t].created \in Marks
                 /\ u.config[t].enabled \in BOOLEAN
                 /\ u.state[t] \in TriggerState /\ u.state[t].occurrence \in Marks
           /\ u = [config |-> u.config, state |-> u.state, done |-> u.done, updated |-> u.updated]
  BY DEF Tree, Configs, Config, TriggerState, Marks

\* The task's completion and the time of its edit are written.
LEMMA TaskWritten ==
    ASSUME NEW u \in Tree, NEW d, NEW n
    PROVE  [u EXCEPT !.done = d, !.updated = n]
              = [config |-> u.config, state |-> u.state, done |-> d, updated |-> n]
<1> DEFINE v == [u EXCEPT !.done = d]
<1>1. v = [config |-> u.config, state |-> u.state, done |-> d, updated |-> u.updated]
    BY TreeFields DEF Tree
<1>2. [v EXCEPT !.updated = n] = [config |-> u.config, state |-> u.state, done |-> d, updated |-> n]
  <2> HIDE DEF v
  <2> QED
    BY <1>1
<1>3. [u EXCEPT !.done = d, !.updated = n] = [v EXCEPT !.updated = n]
    OBVIOUS
<1> QED
    BY <1>2, <1>3

\* What a claim of an invariant state is made of.
LEMMA ClaimFields ==
    ASSUME NEW c \in Claim
    PROVE  /\ c.for[1] \in Triggers /\ c.for[2] \in Marks /\ c.for[3] \in Marks
           /\ c.occurrence \in Marks /\ c.for = <<c.for[1], c.for[2], c.for[3]>>
  BY DEF Claim

\* A tree that shows a claim goes on to while it keeps the trigger's occurrence, its
\* configuration is no older, and the task is not made to have been done back then.
LEMMA ShownStays ==
    ASSUME TriggersAssumption, NEW u \in Tree, NEW v \in Tree, NEW f \in Configs, NEW g \in Configs,
           NEW now \in Marks, NEW c \in Claim, Made(c, now), ShownBy(u, f, c),
           v.state[c.for[1]].status # "none",
           v.state[c.for[1]].occurrence = u.state[c.for[1]].occurrence,
           f[c.for[1]].created <= g[c.for[1]].created,
           v.done = u.done \/ v.done = 0 \/ v.done > now
    PROVE  ShownBy(v, g, c)
<1> DEFINE t == c.for[1]
<1>1. t \in Triggers /\ c.for[2] \in Marks /\ c.for[3] \in Marks
    BY ClaimFields
<1>2. f[t].created \in Marks /\ g[t].created \in Marks
    BY <1>1 DEF Configs, Config, Marks
<1>3. v.done \in Marks /\ u.done \in Marks
    BY TreeFields
<1>4. CASE u.state[t].occurrence = c.occurrence
    BY <1>4 DEF ShownBy
<1>5. CASE f[t].created > c.for[2]
    BY <1>5, <1>1, <1>2 DEF ShownBy, Marks, TriggersAssumption
<1>6. CASE t \in Completions /\ u.done # c.for[3]
    BY <1>6, <1>1, <1>3 DEF ShownBy, Made, Marks, TriggersAssumption
<1> QED
    BY <1>4, <1>5, <1>6 DEF ShownBy

-----------------------------------------------------------------------------
(* Saving *)

\* The claims that outlast a save are those the saving tab shows.
LEMMA SaverShows ==
    ASSUME TriggersInv, NEW x \in Tabs, NEW c \in claims \ Overwritten(x)
    PROVE  ShownBy(memory[x], memory[x].config, c)
<1>1. c \in Claim /\ Made(c, clock) /\ ShownBy(stored, stored.config, c)
    BY DEF TriggersInv, TriggersTyped, ClaimsMade, ClaimsShown
<1>2. memory[x] \in Tree /\ Sane(memory[x], clock) /\ clock \in 1 .. MaxEdits
    BY DEF TriggersInv, TriggersTyped, StoredTrees
<1>3. c.for[1] \in Triggers
    BY <1>1, ClaimFields
<1>4. CASE stored = memory[x]
    BY <1>1, <1>4
<1>5. CASE stored # memory[x]
  <2>1. memory[x].state[c.for[1]].occurrence = c.occurrence
    BY <1>5 DEF Overwritten
  <2>2. c.occurrence # 0
    BY <1>1, <1>2 DEF Made
  <2> QED
    BY <2>1, <2>2, <1>2, <1>3 DEF Sane, ShownBy
<1> QED
    BY <1>4, <1>5

\* Time does not make a tree or a claim wrong.
LEMMA SaneLater ==
    ASSUME NEW u \in Tree, NEW a \in Marks, NEW b \in Marks, a <= b, Sane(u, a), MaxEdits \in Nat
    PROVE  Sane(u, b)
  BY TreeFields DEF Sane, Marks

LEMMA MadeLater ==
    ASSUME NEW c \in Claim, NEW a \in Marks, NEW b \in Marks, a <= b, Made(c, a), MaxEdits \in Nat
    PROVE  Made(c, b)
  BY ClaimFields DEF Made, Marks

\* What a save writes: a tree that fits the time, edited as one of before or by a new edit.
Written(u, v) ==
    /\ u \in Tree /\ Sane(u, clock')
    /\ (u.updated = v.updated /\ u.done = v.done) \/ u.updated > clock

\* The trees of the tabs and of the storage stay so.
LEMMA TreesSaved ==
    ASSUME TriggersAssumption, TriggersInv, NEW x \in Tabs, NEW u, Save(x, u), Written(u, memory[x]),
           clock' \in Marks, clock <= clock'
    PROVE  /\ memory' \in [Tabs -> Tree] /\ stored' \in Tree /\ memory'[x] = u /\ stored' = u
           /\ \A y \in Tabs \ {x} : memory'[y] = memory[y]
           /\ StoredTrees'
<1>1. memory \in [Tabs -> Tree] /\ stored \in Tree /\ clock \in Marks /\ MaxEdits \in Nat /\ u \in Tree
    BY DEF TriggersInv, TriggersTyped, Written, Marks, TriggersAssumption
<1>2. /\ memory' = [memory EXCEPT ![x] = u] /\ stored' = u
    BY DEF Save
<1>3. /\ memory' \in [Tabs -> Tree] /\ memory'[x] = u /\ \A y \in Tabs \ {x} : memory'[y] = memory[y]
    BY <1>1, <1>2
<1>4. \A y \in Tabs : Sane(memory'[y], clock')
  <2> TAKE y \in Tabs
  <2>1. CASE y = x
    BY <2>1, <1>3 DEF Written
  <2>2. CASE y # x
    <3>1. Sane(memory[y], clock) /\ memory[y] \in Tree
        BY <1>1 DEF TriggersInv, StoredTrees
    <3> QED
        BY <3>1, <2>2, <1>1, <1>3, SaneLater
  <2> QED
    BY <2>1, <2>2
<1>5. \A y \in Tabs : SameEdit(u, memory[y]) /\ SameEdit(memory[y], u)
  <2> TAKE y \in Tabs
  <2>1. /\ SameEdit(memory[x], memory[y])
        /\ memory[y].updated \in Marks /\ u.updated \in Marks /\ memory[y].updated <= clock
    BY <1>1, TreeFields DEF TriggersInv, StoredTrees, Sane
  <2>2. CASE u.updated = memory[x].updated /\ u.done = memory[x].done
    BY <2>1, <2>2 DEF SameEdit
  <2>3. CASE u.updated > clock
    BY <2>1, <2>3, <1>1 DEF SameEdit, Marks
  <2> QED
    BY <2>2, <2>3 DEF Written
<1>6. \A y, z \in Tabs : SameEdit(memory'[y], memory'[z])
  <2> TAKE y, z \in Tabs
  <2>1. SameEdit(memory[y], memory[z])
    BY DEF TriggersInv, StoredTrees
  <2> QED
    BY <2>1, <1>3, <1>5 DEF SameEdit
<1>7. StoredTrees'
    BY <1>2, <1>3, <1>4, <1>6 DEF StoredTrees
<1> QED
    BY <1>2, <1>3, <1>7

-----------------------------------------------------------------------------
(* Edits *)

\* What the owner's edit writes: the state of the triggers stays.
Revised(u, v) ==
    /\ Written(u, v)
    /\ u.state = v.state
    /\ \A t \in Triggers : v.config[t].created <= u.config[t].created
    /\ u.done = v.done \/ u.done = 0 \/ u.done > clock

LEMMA EditKeeps ==
    ASSUME TriggersAssumption, TriggersInv, NEW x \in Tabs, NEW u, Edit(x, u),
           Revised(u, memory[x]), clock' \in 1 .. MaxEdits, clock <= clock'
    PROVE  TriggersInv'
<1>1. /\ MaxEdits \in Nat /\ clock \in Marks /\ clock' \in Marks /\ claims \subseteq Claim
      /\ u \in Tree /\ memory[x] \in Tree /\ walk \in WalkType
      /\ walk' = walk /\ listed' = listed /\ claims' = claims \ Overwritten(x)
    BY DEF TriggersAssumption, TriggersInv, TriggersTyped, Marks, Edit, Revised, Written
<1>2. /\ memory' \in [Tabs -> Tree] /\ stored' \in Tree /\ memory'[x] = u /\ stored' = u
      /\ \A y \in Tabs \ {x} : memory'[y] = memory[y]
      /\ StoredTrees'
  <2> Save(x, u)
    BY DEF Edit
  <2> QED
    BY <1>1, TreesSaved DEF Revised
<1>3. TriggersTyped'
    BY <1>1, <1>2 DEF TriggersTyped, TriggersInv
<1>4. ClaimsMade'
    BY <1>1, MadeLater DEF ClaimsMade, TriggersInv
<1>5. ASSUME NEW f \in Configs, NEW g \in Configs, NEW c \in claims, ShownBy(memory[x], f, c),
             f[c.for[1]].created <= g[c.for[1]].created
      PROVE  ShownBy(u, g, c)
  <2>1. c \in Claim /\ Made(c, clock)
    BY <1>1 DEF TriggersInv, ClaimsMade
  <2>2. memory[x].state[c.for[1]].status # "none" /\ u.state = memory[x].state
    BY <1>5 DEF ShownBy, Revised
  <2> QED
    BY <1>1, <1>5, <2>1, <2>2, ShownStays DEF Revised
<1>6. u.config \in Configs /\ memory[x].config \in Configs /\ walk.config \in Configs
    BY <1>1, TreeFields DEF WalkType
<1>7. ClaimsShown'
  <2> SUFFICES ASSUME NEW c \in claims \ Overwritten(x) PROVE ShownBy(u, u.config, c)
    BY <1>1, <1>2 DEF ClaimsShown
  <2>1. ShownBy(memory[x], memory[x].config, c)
    BY SaverShows
  <2>2. c.for[1] \in Triggers
    BY <1>1, ClaimFields
  <2> QED
    BY <2>1, <2>2, <1>5, <1>6 DEF Revised
<1>8. WalkKnows'
  <2> SUFFICES ASSUME NEW y \in Tabs, walk.tab = {y}
               PROVE  WalkFits(memory'[y], walk) /\ WalkShows(memory'[y], walk, claims')
    BY <1>1 DEF WalkKnows
  <2>1. WalkFits(memory[y], walk) /\ WalkShows(memory[y], walk, claims)
    BY DEF TriggersInv, WalkKnows
  <2>2. CASE y # x
    BY <2>1, <2>2, <1>1, <1>2 DEF WalkShows
  <2>3. CASE y = x
    <3>1. \A t \in Triggers : walk.config[t].created <= u.config[t].created
      <4> TAKE t \in Triggers
      <4>1. /\ walk.config[t].created \in Marks /\ memory[x].config[t].created \in Marks
            /\ u.config[t].created \in Marks
        BY <1>6 DEF Configs, Config, Marks
      <4> QED
        BY <4>1, <2>1, <2>3, <1>1 DEF WalkFits, Revised, Marks
    <3>2. WalkFits(u, walk)
        BY <3>1, <2>1, <2>3 DEF WalkFits, Revised
    <3>3. WalkShows(u, walk, claims')
      <4> SUFFICES ASSUME NEW c \in claims, c.for[1] >= walk.next, c.for[1] # walk.firing
                   PROVE  ShownBy(u, walk.config, c)
        BY <1>1 DEF WalkShows
      <4>1. ShownBy(memory[x], walk.config, c)
        BY <2>1, <2>3 DEF WalkShows
      <4>2. walk.config[c.for[1]].created <= walk.config[c.for[1]].created
        <5>1. c \in Claim
            BY <1>1
        <5>2. c.for[1] \in Triggers
            BY <5>1, ClaimFields
        <5>3. walk.config[c.for[1]] \in Config
            BY <1>6, <5>2 DEF Configs
        <5>4. walk.config[c.for[1]].created \in Int
            BY <5>3 DEF Config, TriggersAssumption
        <5> QED
            BY <5>4
      <4> QED
        BY <4>1, <4>2, <1>5, <1>6
    <3> QED
        BY <3>2, <3>3, <2>3, <1>2
  <2> QED
    BY <2>2, <2>3
<1> QED
    BY <1>2, <1>3, <1>4, <1>7, <1>8 DEF TriggersInv

\* A tree of an invariant state, and its tab.
LEMMA MemoryIsSane ==
    ASSUME TriggersAssumption, TriggersInv, NEW x \in Tabs
    PROVE  /\ memory[x] \in Tree /\ Sane(memory[x], clock) /\ MaxEdits \in Nat
           /\ clock \in 1 .. MaxEdits /\ clock \in Marks
  BY DEF TriggersAssumption, TriggersInv, TriggersTyped, StoredTrees, Marks

LEMMA EditElsewhereKeeps ==
    ASSUME TriggersAssumption, TriggersInv, NEW x \in Tabs, editElsewhere(x)
    PROVE  TriggersInv'
<1>1. Revised(memory[x], memory[x])
    BY MemoryIsSane, TreeFields DEF editElsewhere, Revised, Written, Marks
<1> QED
    BY <1>1, EditKeeps, MemoryIsSane DEF editElsewhere, Marks

\* Completing, opening and renaming the task are edits of the task.
LEMMA TaskEdited ==
    ASSUME TriggersAssumption, TriggersInv, NEW x \in Tabs, NEW d \in Marks, NEW u,
           d = memory[x].done \/ d = 0 \/ d = clock + 1,
           clock < MaxEdits, clock' = clock + 1, Edit(x, u),
           u = [config |-> memory[x].config, state |-> memory[x].state, done |-> d, updated |-> clock + 1]
    PROVE  TriggersInv'
<1>1. /\ memory[x] \in Tree /\ Sane(memory[x], clock) /\ MaxEdits \in Nat
      /\ clock \in 1 .. MaxEdits /\ clock + 1 \in Marks
    BY MemoryIsSane DEF Marks
<1>2. u \in Tree /\ u.updated = clock + 1 /\ u.done = d
    BY <1>1, TreeFields DEF Tree, Configs, Marks
<1>3. Sane(u, clock + 1)
  <2>1. d <= clock + 1
    BY <1>1, TreeFields DEF Sane, Marks
  <2>2. u.config = memory[x].config /\ u.state = memory[x].state
    OBVIOUS
  <2>3. ASSUME NEW t \in Triggers
        PROVE  /\ u.config[t].created <= clock + 1
               /\ u.state[t].status = "none" => u.state[t].occurrence = 0
               /\ t \in Timers => u.state[t].occurrence <= u.config[t].created
               /\ t \in Completions => u.state[t].occurrence <= u.updated
    <3>1. memory[x].config[t].created \in Marks /\ memory[x].state[t].occurrence \in Marks
      BY <1>1, TreeFields
    <3>2. memory[x].updated \in Marks
      BY <1>1, TreeFields
    <3>3. /\ memory[x].config[t].created <= clock /\ memory[x].updated <= clock
          /\ memory[x].state[t].status = "none" => memory[x].state[t].occurrence = 0
          /\ t \in Timers => memory[x].state[t].occurrence <= memory[x].config[t].created
          /\ t \in Completions => memory[x].state[t].occurrence <= memory[x].updated
      BY <1>1 DEF Sane
    <3> QED
      BY <1>1, <1>2, <2>2, <3>1, <3>2, <3>3 DEF Marks
  <2>4. u.done <= clock + 1 /\ u.updated <= clock + 1
    BY <1>1, <1>2, <2>1
  <2> QED
    BY <2>3, <2>4 DEF Sane
<1>4. Revised(u, memory[x])
    BY <1>1, <1>2, <1>3, TreeFields DEF Revised, Written, Marks
<1> QED
    BY <1>1, <1>4, EditKeeps DEF Marks

LEMMA TaskKeeps ==
    ASSUME TriggersAssumption, TriggersInv, NEW x \in Tabs, setTaskDone(x) \/ renameTask(x)
    PROVE  TriggersInv'
<1>1. /\ memory[x] \in Tree /\ MaxEdits \in Nat /\ clock \in 1 .. MaxEdits
    BY MemoryIsSane
<1>2. clock < MaxEdits /\ clock' = clock + 1
    BY DEF setTaskDone, renameTask, Timed
<1>3. CASE setTaskDone(x)
  <2> DEFINE d == IF memory[x].done = 0 THEN clock + 1 ELSE 0
             u == [memory[x] EXCEPT !.done = d, !.updated = clock + 1]
  <2>1. Edit(x, u)
    BY <1>3 DEF setTaskDone, Timed
  <2>2. d \in Marks /\ (d = 0 \/ d = clock + 1)
    BY <1>1, <1>2 DEF Marks
  <2>3. u = [config |-> memory[x].config, state |-> memory[x].state, done |-> d, updated |-> clock + 1]
    BY <1>1, TaskWritten
  <2> QED
    BY <2>1, <2>2, <2>3, <1>2, TaskEdited
<1>4. CASE renameTask(x)
  <2> DEFINE u == [memory[x] EXCEPT !.updated = clock + 1]
  <2>1. Edit(x, u)
    BY <1>4 DEF renameTask, Timed
  <2>2. u = [config |-> memory[x].config, state |-> memory[x].state, done |-> memory[x].done,
             updated |-> clock + 1]
    BY <1>1, TreeFields DEF Tree
  <2> QED
    BY <2>1, <2>2, <1>1, <1>2, TreeFields, TaskEdited
<1> QED
    BY <1>3, <1>4

\* A configuration is written with a time no older than its own.
LEMMA ConfigKeeps ==
    ASSUME TriggersAssumption, TriggersInv, NEW x \in Tabs, NEW t \in Triggers, NEW g \in Config, NEW u,
           memory[x].config[t].created <= g.created, g.created <= clock + 1,
           clock < MaxEdits, clock' = clock + 1, Edit(x, u), u = [memory[x] EXCEPT !.config[t] = g]
    PROVE  TriggersInv'
<1>1. /\ memory[x] \in Tree /\ Sane(memory[x], clock) /\ MaxEdits \in Nat
      /\ clock \in 1 .. MaxEdits /\ clock \in Marks /\ clock + 1 \in Marks
    BY MemoryIsSane DEF Marks
<1>2. /\ u \in Tree /\ u.state = memory[x].state /\ u.done = memory[x].done
      /\ u.updated = memory[x].updated /\ u.config[t] = g
      /\ \A i \in Triggers \ {t} : u.config[i] = memory[x].config[i]
    BY <1>1, TreeFields DEF Tree, Configs
<1>3. Sane(memory[x], clock + 1)
    BY <1>1, SaneLater
<1>4. \A i \in Triggers : memory[x].config[i].created <= u.config[i].created
    BY <1>1, <1>2, TreeFields DEF Marks
<1>5. Sane(u, clock + 1)
  <2>1. \A i \in Triggers : u.config[i].created <= clock + 1
    BY <1>2, <1>3 DEF Sane
  <2>2. ASSUME NEW i \in Triggers, i \in Timers
        PROVE  u.state[i].occurrence <= u.config[i].created
    <3>1. /\ memory[x].state[i].occurrence \in Marks /\ memory[x].config[i].created \in Marks
          /\ u.config[i].created \in Marks
        BY <1>1, <1>2, TreeFields
    <3>2. memory[x].state[i].occurrence <= memory[x].config[i].created
        BY <1>3, <2>2 DEF Sane
    <3> QED
        BY <3>1, <3>2, <1>1, <1>2, <1>4 DEF Marks
  <2> QED
    BY <2>1, <2>2, <1>2, <1>3 DEF Sane
<1>6. Revised(u, memory[x])
    BY <1>2, <1>4, <1>5 DEF Revised, Written
<1> QED
    BY <1>1, <1>6, EditKeeps DEF Marks

LEMMA ConfigureKeeps ==
    ASSUME TriggersAssumption, TriggersInv, NEW x \in Tabs, NEW t \in listed,
           configureTrigger(x, t) \/ toggleTrigger(x, t)
    PROVE  TriggersInv'
<1>1. /\ memory[x] \in Tree /\ Sane(memory[x], clock) /\ MaxEdits \in Nat /\ clock \in 1 .. MaxEdits
    BY MemoryIsSane
<1>2. clock < MaxEdits /\ clock' = clock + 1 /\ t \in Triggers
    BY DEF configureTrigger, toggleTrigger, Timed, TriggersInv, TriggersTyped
<1>3. memory[x].config[t].created \in Marks /\ memory[x].config[t].created <= clock
    BY <1>1, <1>2, TreeFields DEF Sane
<1>4. CASE configureTrigger(x, t)
  <2> DEFINE g == [created |-> clock + 1, enabled |-> TRUE]
  <2>1. Edit(x, [memory[x] EXCEPT !.config[t] = g])
    BY <1>4 DEF configureTrigger, Timed
  <2>2. g \in Config
    BY <1>1, <1>2 DEF Config
  <2>3. memory[x].config[t].created <= g.created /\ g.created <= clock + 1
    BY <1>1, <1>3 DEF Marks
  <2> QED
    BY <2>1, <2>2, <2>3, <1>2, ConfigKeeps
<1>5. CASE toggleTrigger(x, t)
  <2> DEFINE g == [created |-> memory[x].config[t].created, enabled |-> ~memory[x].config[t].enabled]
  <2>1. [memory[x] EXCEPT !.config[t].enabled = ~@] = [memory[x] EXCEPT !.config[t] = g]
    <3>1. memory[x].config[t] \in Config
        BY <1>1, <1>2, TreeFields
    <3>2. [memory[x].config[t] EXCEPT !.enabled = ~@] = g
        BY <3>1 DEF Config
    <3> QED
        BY <3>2
  <2>2. Edit(x, [memory[x] EXCEPT !.config[t] = g])
    BY <1>5, <2>1 DEF toggleTrigger, Timed
  <2>3. g \in Config
    BY <1>3 DEF Config, Marks
  <2>4. memory[x].config[t].created <= g.created /\ g.created <= clock + 1
    BY <1>1, <1>3 DEF Marks
  <2> QED
    BY <2>2, <2>3, <2>4, <1>2, ConfigKeeps
<1> QED
    BY <1>4, <1>5

-----------------------------------------------------------------------------
(* The state of a trigger *)

\* A tab writes the state of one trigger.
WithState(u, t, s) == [u EXCEPT !.state[t] = s]

LEMMA StateSaved ==
    ASSUME TriggersAssumption, TriggersInv, NEW x \in Tabs, NEW t \in Triggers, NEW s \in TriggerState,
           NEW u, u = WithState(memory[x], t, s), Save(x, u),
           s.status # "none",
           t \in Timers => s.occurrence <= memory[x].config[t].created,
           t \in Completions => s.occurrence <= memory[x].updated,
           clock' \in 1 .. MaxEdits, clock <= clock'
    PROVE  /\ memory' \in [Tabs -> Tree] /\ stored' \in Tree /\ memory'[x] = u /\ stored' = u
           /\ \A y \in Tabs \ {x} : memory'[y] = memory[y]
           /\ StoredTrees'
           /\ u \in Tree /\ u.config = memory[x].config /\ u.done = memory[x].done
           /\ u.updated = memory[x].updated /\ u.state[t] = s
           /\ \A i \in Triggers \ {t} : u.state[i] = memory[x].state[i]
<1>1. /\ memory[x] \in Tree /\ Sane(memory[x], clock) /\ MaxEdits \in Nat
      /\ clock \in Marks /\ clock' \in Marks
    BY MemoryIsSane DEF Marks
<1>2. /\ u \in Tree /\ u.config = memory[x].config /\ u.done = memory[x].done
      /\ u.updated = memory[x].updated /\ u.state[t] = s
      /\ \A i \in Triggers \ {t} : u.state[i] = memory[x].state[i]
    BY <1>1, TreeFields DEF Tree, WithState
<1>3. Sane(memory[x], clock')
    BY <1>1, SaneLater
<1>4. Sane(u, clock')
    BY <1>2, <1>3 DEF Sane
<1>5. Written(u, memory[x])
    BY <1>2, <1>4 DEF Written
<1>6. /\ memory' \in [Tabs -> Tree] /\ stored' \in Tree /\ memory'[x] = u /\ stored' = u
      /\ \A y \in Tabs \ {x} : memory'[y] = memory[y]
      /\ StoredTrees'
    BY <1>1, <1>5, TreesSaved
<1> QED
    BY <1>2, <1>6

\* The claims of the other triggers are shown as before.
LEMMA OthersShown ==
    ASSUME NEW u, NEW v, NEW f, NEW c \in Claim, NEW t, c.for[1] # t,
           v.done = u.done, \A i \in Triggers \ {t} : v.state[i] = u.state[i], ShownBy(u, f, c)
    PROVE  ShownBy(v, f, c)
  BY ClaimFields DEF ShownBy

LEMMA RetryKeeps ==
    ASSUME TriggersAssumption, TriggersInv, NEW x \in Tabs, NEW t \in listed, retryCurrentTrigger(x, t)
    PROVE  TriggersInv'
<1> DEFINE u == [memory[x] EXCEPT !.state[t] = Armed]
<1>1. /\ memory[x] \in Tree /\ Sane(memory[x], clock) /\ MaxEdits \in Nat /\ clock \in Marks
      /\ clock \in 1 .. MaxEdits /\ clock' \in 1 .. MaxEdits /\ clock' \in Marks /\ clock <= clock'
      /\ t \in Triggers /\ claims \subseteq Claim /\ walk \in WalkType
      /\ walk' = walk /\ listed' = listed
      /\ claims' = {c \in claims \ Overwritten(x) : c.for[1] # t}
    BY MemoryIsSane DEF retryCurrentTrigger, TriggersInv, TriggersTyped, Marks
<1>2. /\ memory' \in [Tabs -> Tree] /\ stored' \in Tree /\ memory'[x] = u /\ stored' = u
      /\ \A y \in Tabs \ {x} : memory'[y] = memory[y]
      /\ StoredTrees'
      /\ u \in Tree /\ u.config = memory[x].config /\ u.done = memory[x].done
      /\ u.state[t] = Armed
      /\ \A i \in Triggers \ {t} : u.state[i] = memory[x].state[i]
  <2>1. Armed \in TriggerState /\ Armed.status # "none"
    BY <1>1 DEF Armed, TriggerState
  <2>2. /\ t \in Timers => Armed.occurrence <= memory[x].config[t].created
        /\ t \in Completions => Armed.occurrence <= memory[x].updated
    BY <1>1, TreeFields DEF Marks, Armed
  <2>4. t \in Triggers /\ clock' \in 1 .. MaxEdits /\ clock <= clock'
    BY <1>1
  <2>3. Save(x, u) /\ u = WithState(memory[x], t, Armed)
    BY DEF retryCurrentTrigger, WithState
  <2> HIDE DEF u
  <2> QED
    BY <2>1, <2>2, <2>3, <2>4, StateSaved
<1> HIDE DEF u
<1>3. TriggersTyped'
    BY <1>1, <1>2 DEF TriggersTyped, TriggersInv
<1>4. ClaimsMade'
    BY <1>1, MadeLater DEF ClaimsMade, TriggersInv
<1>5. ClaimsShown'
  <2> SUFFICES ASSUME NEW c \in claims \ Overwritten(x), c.for[1] # t PROVE ShownBy(u, u.config, c)
    BY <1>1, <1>2 DEF ClaimsShown
  <2>1. ShownBy(memory[x], memory[x].config, c)
    BY SaverShows
  <2> QED
    BY <2>1, <1>1, <1>2, ClaimFields DEF ShownBy
<1>6. WalkKnows'
  <2> SUFFICES ASSUME NEW y \in Tabs, walk.tab = {y}
               PROVE  WalkFits(memory'[y], walk) /\ WalkShows(memory'[y], walk, claims')
    BY <1>1 DEF WalkKnows
  <2>1. WalkFits(memory[y], walk) /\ WalkShows(memory[y], walk, claims)
    BY DEF TriggersInv, WalkKnows
  <2>2. CASE y # x
    BY <2>1, <2>2, <1>1, <1>2 DEF WalkShows
  <2>3. CASE y = x
    <3>1. walk.firing # t
        BY <2>3 DEF retryCurrentTrigger
    <3>2. walk.firing \in Triggers \cup {0}
        BY <1>1 DEF WalkType
    <3>3. 0 <= walk.config[t].created
      <4>1. walk.config \in [Triggers -> Config]
        BY <1>1 DEF WalkType, Configs
      <4>2. walk.config[t] \in Config
        BY <4>1, <1>1
      <4> QED
        BY <4>2 DEF Config
    <3>4. ASSUME NEW i \in Timers, i >= walk.next, i # walk.firing
          PROVE  u.state[i].occurrence <= walk.config[i].created
        BY <3>3, <3>4, <2>1, <2>3, <1>2 DEF WalkFits, Armed, Triggers
    <3>5. walk.firing # 0 => u.state[walk.firing].occurrence = walk.occurrence
        BY <3>1, <3>2, <2>1, <2>3, <1>2 DEF WalkFits
    <3>6. WalkFits(u, walk)
        BY <3>4, <3>5, <2>1, <2>3, <1>2 DEF WalkFits
    <3>7. WalkShows(u, walk, claims')
      <4> SUFFICES ASSUME NEW c \in claims, c.for[1] # t, c.for[1] >= walk.next, c.for[1] # walk.firing
                   PROVE  ShownBy(u, walk.config, c)
        BY <1>1 DEF WalkShows
      <4>1. ShownBy(memory[x], walk.config, c)
        BY <2>1, <2>3 DEF WalkShows
      <4> QED
        BY <4>1, <1>1, <1>2, ClaimFields DEF ShownBy
    <3> QED
        BY <3>6, <3>7, <2>3, <1>2
  <2> QED
    BY <2>2, <2>3
<1> QED
    BY <1>2, <1>3, <1>4, <1>5, <1>6 DEF TriggersInv

\* A walk that has ended is a walk, of no tab.
LEMMA NoWalkTyped ==
    ASSUME TriggersAssumption
    PROVE  /\ NoWalk \in WalkType /\ NoWalk.firing = 0 /\ NoWalk.tab = {}
           /\ \A d \in {0, 1} : NewTree(d) \in Tree /\ Sane(NewTree(d), 1)
<1>1. MaxEdits \in Nat /\ 0 \in Marks /\ 1 \in Marks
    BY DEF TriggersAssumption, Marks
<1>2. \A d \in {0, 1} : NewTree(d) \in Tree
    BY <1>1 DEF NewTree, Tree, Config, TriggerState, NoState, Marks
<1>3. \A d \in {0, 1} : Sane(NewTree(d), 1)
    BY <1>1 DEF NewTree, Sane, NoState
<1>4. NewTree(0).config \in Configs
    BY <1>2, TreeFields
<1> QED
    BY <1>1, <1>2, <1>3, <1>4 DEF NoWalk, WalkType

LEMMA ReloadKeeps ==
    ASSUME TriggersAssumption, TriggersInv, NEW x \in Tabs, reload(x)
    PROVE  TriggersInv'
<1>1. /\ memory \in [Tabs -> Tree] /\ stored \in Tree
      /\ memory' = [memory EXCEPT ![x] = stored] /\ stored' = stored /\ clock' = clock
      /\ listed' = listed /\ claims' = claims
      /\ walk' = IF walk.tab = {x} THEN NoWalk ELSE walk
    BY DEF reload, TriggersInv, TriggersTyped
<1>2. memory' \in [Tabs -> Tree] /\ memory'[x] = stored /\ \A y \in Tabs \ {x} : memory'[y] = memory[y]
    BY <1>1
<1>3. TriggersTyped'
    BY <1>1, <1>2, NoWalkTyped DEF TriggersTyped, TriggersInv
<1>4. StoredTrees'
  <2>1. \A y \in Tabs : Sane(memory[y], clock) /\ SameEdit(memory[y], stored)
    BY DEF TriggersInv, StoredTrees
  <2>2. \A y \in Tabs : Sane(memory'[y], clock) /\ SameEdit(memory'[y], stored)
    BY <1>2, <2>1 DEF TriggersInv, StoredTrees, SameEdit
  <2>3. \A y, z \in Tabs : SameEdit(memory'[y], memory'[z])
    <3> TAKE y, z \in Tabs
    <3>1. SameEdit(memory[y], memory[z]) /\ SameEdit(memory[y], stored) /\ SameEdit(memory[z], stored)
        BY DEF TriggersInv, StoredTrees
    <3> QED
        BY <3>1, <1>2 DEF SameEdit
  <2> QED
    BY <1>1, <2>2, <2>3 DEF TriggersInv, StoredTrees
<1>5. ClaimsMade' /\ ClaimsShown'
    BY <1>1 DEF ClaimsMade, ClaimsShown, TriggersInv
<1>6. WalkKnows'
  <2> SUFFICES ASSUME NEW y \in Tabs, walk'.tab = {y}
               PROVE  WalkFits(memory'[y], walk') /\ WalkShows(memory'[y], walk', claims')
    BY DEF WalkKnows
  <2>1. walk' = walk /\ walk.tab # {x}
    BY <1>1, NoWalkTyped
  <2>2. WalkFits(memory[y], walk) /\ WalkShows(memory[y], walk, claims) /\ y # x
    BY <2>1 DEF TriggersInv, WalkKnows
  <2> QED
    BY <1>1, <1>2, <2>1, <2>2
<1> QED
    BY <1>3, <1>4, <1>5, <1>6 DEF TriggersInv

LEMMA FinishKeeps ==
    ASSUME TriggersAssumption, TriggersInv, NEW x \in Tabs, finish(x)
    PROVE  TriggersInv'
<1> DEFINE t == walk.firing
<1>1. PICK outcome \in {"finished", "failed"} :
         Save(x, [memory[x] EXCEPT !.state[t] = [occurrence |-> walk.occurrence, status |-> outcome]])
    BY DEF finish
<1> DEFINE s == [occurrence |-> walk.occurrence, status |-> outcome]
           u == WithState(memory[x], t, s)
<1>2. /\ memory[x] \in Tree /\ Sane(memory[x], clock) /\ MaxEdits \in Nat /\ clock \in Marks
      /\ clock \in 1 .. MaxEdits /\ clock' = clock /\ listed' = listed
      /\ walk.tab = {x} /\ claims \subseteq Claim /\ walk \in WalkType /\ listed \subseteq Triggers
      /\ walk' = [walk EXCEPT !.next = t + 1, !.firing = 0, !.occurrence = 0]
      /\ claims' = claims \ Overwritten(x)
    BY MemoryIsSane DEF finish, TriggersInv, TriggersTyped
<1>3. t \in Triggers /\ t \in Nat \ {0}
    BY DEF finish, TriggersInv, TriggersTyped, TriggersAssumption
<1>4. WalkFits(memory[x], walk) /\ WalkShows(memory[x], walk, claims)
    BY <1>2 DEF TriggersInv, WalkKnows
<1>5. memory[x].state[t].occurrence = walk.occurrence /\ walk.next = t
    BY <1>3, <1>4 DEF WalkFits
<1>6. /\ memory' \in [Tabs -> Tree] /\ stored' \in Tree /\ memory'[x] = u /\ stored' = u
      /\ \A y \in Tabs \ {x} : memory'[y] = memory[y]
      /\ StoredTrees'
      /\ u \in Tree /\ u.config = memory[x].config /\ u.done = memory[x].done
      /\ u.state[t] = s
      /\ \A i \in Triggers \ {t} : u.state[i] = memory[x].state[i]
  <2>1. s \in TriggerState /\ s.status # "none" /\ s.occurrence = memory[x].state[t].occurrence
    BY <1>2, <1>3, <1>5, TreeFields DEF TriggerState, Marks
  <2>2. /\ t \in Timers => s.occurrence <= memory[x].config[t].created
        /\ t \in Completions => s.occurrence <= memory[x].updated
    BY <1>2, <1>3, <2>1 DEF Sane
  <2>3. Save(x, u) /\ u = WithState(memory[x], t, s)
    BY <1>1 DEF WithState
  <2>4. clock' \in 1 .. MaxEdits /\ clock <= clock'
    BY <1>2
  <2>5. t \in Triggers /\ s \in TriggerState
    BY <1>3, <2>1
  <2>6. u = WithState(memory[x], t, s) /\ Save(x, u) /\ s.status # "none"
    BY <2>1, <2>3
  <2> HIDE DEF t, s, u
  <2>7. /\ memory' \in [Tabs -> Tree] /\ stored' \in Tree /\ memory'[x] = u /\ stored' = u
        /\ \A y \in Tabs \ {x} : memory'[y] = memory[y]
        /\ StoredTrees'
        /\ u \in Tree /\ u.config = memory[x].config /\ u.done = memory[x].done
        /\ u.updated = memory[x].updated /\ u.state[t] = s
        /\ \A i \in Triggers \ {t} : u.state[i] = memory[x].state[i]
    BY <2>2, <2>4, <2>5, <2>6, StateSaved
  <2> QED
    BY <2>7
<1>7. s.status # "none" /\ s.occurrence = walk.occurrence
    OBVIOUS
<1>8. /\ walk'.tab = {x} /\ walk'.next = t + 1 /\ walk'.firing = 0 /\ walk'.config = walk.config
      /\ walk' \in WalkType
  <2>1. walk' = [tab |-> walk.tab, next |-> t + 1, firing |-> 0, occurrence |-> 0,
                 config |-> walk.config, persisted |-> walk.persisted]
    BY <1>2 DEF WalkType
  <2>2. t + 1 \in Nat /\ 0 \in Marks
    BY <1>2, <1>3 DEF Marks
  <2> HIDE DEF t
  <2> QED
    BY <1>2, <2>1, <2>2 DEF WalkType
<1> HIDE DEF s, u, t
<1>9. TriggersTyped'
    BY <1>2, <1>6, <1>8 DEF TriggersTyped, TriggersInv
<1>10. ClaimsMade'
    BY <1>2 DEF ClaimsMade, TriggersInv
<1>11. ASSUME NEW f \in Configs, NEW c \in claims, ShownBy(memory[x], f, c) PROVE ShownBy(u, f, c)
  <2>1. c \in Claim
    BY <1>2
  <2>2. CASE c.for[1] # t
    BY <2>1, <2>2, <1>6, <1>11, ClaimFields DEF ShownBy
  <2>3. CASE c.for[1] = t
    BY <2>3, <1>5, <1>6, <1>7, <1>11 DEF ShownBy
  <2> QED
    BY <2>2, <2>3
<1>12. ClaimsShown'
  <2> SUFFICES ASSUME NEW c \in claims \ Overwritten(x) PROVE ShownBy(u, u.config, c)
    BY <1>2, <1>6 DEF ClaimsShown
  <2> QED
    BY <1>2, <1>6, <1>11, SaverShows, TreeFields
<1>13. WalkKnows'
  <2> SUFFICES WalkFits(u, walk') /\ WalkShows(u, walk', claims')
    BY <1>6, <1>8 DEF WalkKnows
  <2>1. ASSUME NEW i \in Timers, i >= t + 1 PROVE u.state[i].occurrence <= walk.config[i].created
    <3>1. i \in Nat /\ i \in Triggers /\ i # t /\ i >= t
        BY <2>1, <1>3 DEF TriggersAssumption, Triggers
    <3> QED
        BY <3>1, <1>4, <1>5, <1>6 DEF WalkFits, t
  <2>2. WalkFits(u, walk')
    BY <2>1, <1>4, <1>6, <1>8 DEF WalkFits
  <2>3. WalkShows(u, walk', claims')
    <3> SUFFICES ASSUME NEW c \in claims, c.for[1] >= t + 1 PROVE ShownBy(u, walk.config, c)
        BY <1>2, <1>8 DEF WalkShows
    <3>1. c.for[1] \in Triggers /\ c.for[1] \in Nat
        BY <1>2, ClaimFields DEF TriggersAssumption
    <3>2. c.for[1] >= t /\ c.for[1] # t
        BY <3>1, <1>3
    <3>3. ShownBy(memory[x], walk.config, c)
        BY <3>2, <1>4, <1>5 DEF WalkShows, t
    <3> QED
        BY <3>3, <1>2, <1>11 DEF WalkType
  <2> QED
    BY <2>2, <2>3
<1> QED
    BY <1>6, <1>9, <1>10, <1>12, <1>13 DEF TriggersInv

-----------------------------------------------------------------------------
(* The walk *)

\* A walk w of the tab x at its next trigger.
Walking(x, w) ==
    /\ w \in WalkType /\ w.firing = 0 /\ w.tab = {x}
    /\ WalkFits(memory[x], w)
    /\ WalkShows(memory[x], w, claims \ Overwritten(x))

LEMMA RunStarts ==
    ASSUME TriggersAssumption, TriggersInv, NEW x \in Tabs, NEW w,
           w = [NoWalk EXCEPT !.tab = {x}, !.next = 1, !.config = memory[x].config, !.persisted = stored]
    PROVE  Walking(x, w) /\ w.config = memory[x].config /\ w.persisted = stored
<1>1. memory[x] \in Tree /\ Sane(memory[x], clock) /\ stored \in Tree
    BY MemoryIsSane DEF TriggersInv, TriggersTyped
<1>2. /\ w \in WalkType /\ w.firing = 0 /\ w.tab = {x} /\ w.next = 1
      /\ w.config = memory[x].config /\ w.persisted = stored
    BY <1>1, NoWalkTyped, TreeFields DEF WalkType
<1>3. WalkFits(memory[x], w)
  <2>1. \A t \in Triggers : memory[x].config[t].created <= memory[x].config[t].created
    BY <1>1, TreeFields DEF Marks
  <2> QED
    BY <1>1, <1>2, <2>1 DEF WalkFits, Sane, Triggers
<1>4. WalkShows(memory[x], w, claims \ Overwritten(x))
    BY <1>2, SaverShows DEF WalkShows
<1> QED
    BY <1>2, <1>3, <1>4 DEF Walking

LEMMA WalkContinues ==
    ASSUME TriggersInv, NEW x \in Tabs, walk.tab = {x}, walk.firing = 0
    PROVE  Walking(x, walk)
  BY DEF TriggersInv, TriggersTyped, WalkKnows, WalkShows, Walking

\* What a trigger would fire for in a tree is what it was configured for, or the edit by
\* which the task is done.
LEMMA OccurrenceOf ==
    ASSUME TriggersAssumption, NEW u \in Tree, NEW t \in Triggers, NEW g \in Config,
           triggerOccurrence(u, t, g) # 0
    PROVE  /\ t \in Timers => triggerOccurrence(u, t, g) = g.created
           /\ t \in Completions =>
                 /\ triggerOccurrence(u, t, g) = u.updated
                 /\ Completed(u, g) /\ ~Claimed(u.state[t])
  BY DEF triggerOccurrence, TriggersAssumption

LEMMA VisitedTriggers ==
    ASSUME TriggersInv, NEW x \in Tabs, NEW w, Walking(x, w), NEW t \in Visited(w, memory[x])
    PROVE  /\ t \in listed /\ t \in Triggers /\ t >= w.next
           /\ available(w, memory[x], t) /\ Observed(memory[x], t, w.config[t])
           /\ w.config[t] \in Config
  BY DEF Visited, TriggersInv, TriggersTyped, Walking, WalkType, Configs

\* Arming a trigger whose task was opened again.
LEMMA ResetKeeps ==
    ASSUME TriggersAssumption, TriggersInv, NEW x \in Tabs, NEW w, Walking(x, w),
           NEW t \in Visited(w, memory[x]), Resets(memory[x], t, w.config[t]),
           Save(x, [memory[x] EXCEPT !.state[t] = Armed]),
           walk' = [w EXCEPT !.next = t + 1], claims' = claims \ Overwritten(x),
           clock' = clock, listed' = listed
    PROVE  TriggersInv'
<1> DEFINE u == WithState(memory[x], t, Armed)
<1>1. /\ memory[x] \in Tree /\ Sane(memory[x], clock) /\ MaxEdits \in Nat /\ clock \in Marks
      /\ clock' \in 1 .. MaxEdits /\ clock <= clock' /\ claims \subseteq Claim
    BY MemoryIsSane DEF TriggersInv, TriggersTyped, Marks
<1>2. /\ t \in listed /\ t \in Triggers /\ t >= w.next /\ t \in Nat
      /\ w.config[t] \in Config /\ w.config[t].created \in Marks
    BY VisitedTriggers DEF TriggersAssumption, Config, Marks
<1>3. /\ memory' \in [Tabs -> Tree] /\ stored' \in Tree /\ memory'[x] = u /\ stored' = u
      /\ \A y \in Tabs \ {x} : memory'[y] = memory[y]
      /\ StoredTrees'
      /\ u \in Tree /\ u.config = memory[x].config /\ u.done = memory[x].done
      /\ u.state[t] = Armed
      /\ \A i \in Triggers \ {t} : u.state[i] = memory[x].state[i]
  <2>1. Armed \in TriggerState /\ Armed.status # "none"
    BY <1>1 DEF Armed, TriggerState
  <2>2. /\ t \in Timers => Armed.occurrence <= memory[x].config[t].created
        /\ t \in Completions => Armed.occurrence <= memory[x].updated
    BY <1>1, <1>2, TreeFields DEF Marks, Armed
  <2>3. Save(x, u) /\ u = WithState(memory[x], t, Armed)
    BY DEF WithState
  <2> HIDE DEF u
  <2> QED
    BY <1>1, <1>2, <2>1, <2>2, <2>3, StateSaved
<1> HIDE DEF u
<1>4. /\ walk'.tab = {x} /\ walk'.next = t + 1 /\ walk'.firing = 0 /\ walk'.config = w.config
      /\ walk' \in WalkType
    BY <1>2 DEF Walking, WalkType
<1>5. TriggersTyped'
    BY <1>1, <1>3, <1>4 DEF TriggersTyped, TriggersInv
<1>6. ClaimsMade'
    BY DEF ClaimsMade, TriggersInv
<1>7. ClaimsShown'
  <2> SUFFICES ASSUME NEW c \in claims \ Overwritten(x) PROVE ShownBy(u, u.config, c)
    BY <1>3 DEF ClaimsShown
  <2>1. ShownBy(memory[x], memory[x].config, c) /\ c \in Claim /\ Made(c, clock)
    BY <1>1, SaverShows DEF TriggersInv, ClaimsMade
  <2>2. /\ c.for[1] \in Triggers /\ c.for[2] \in Marks /\ c.for[3] \in Marks /\ c.occurrence \in Marks
    BY <2>1, ClaimFields
  <2>3. CASE c.for[1] # t
    BY <2>1, <2>2, <2>3, <1>3 DEF ShownBy
  <2>4. CASE c.for[1] = t
    <3>1. Armed.status # "none" /\ t \in Completions
        BY DEF Armed, Resets
    <3>2. /\ memory[x].config[t].created \in Marks /\ memory[x].updated \in Marks
          /\ w.config[t].created <= memory[x].config[t].created
        BY <1>1, <1>2, TreeFields DEF Walking, WalkFits
    <3>3. CASE memory[x].done = 0
        BY <3>1, <3>3, <2>1, <2>4, <1>3 DEF ShownBy, Made
    <3>4. CASE memory[x].updated < w.config[t].created
      <4>1. CASE memory[x].state[t].occurrence = c.occurrence
        <5>1. c.occurrence <= memory[x].updated
            BY <4>1, <3>1, <1>1, <1>2 DEF Sane
        <5>2. c.for[2] <= c.occurrence
            BY <2>1 DEF Made
        <5>3. memory[x].config[t].created > c.for[2]
            BY <5>1, <5>2, <3>2, <3>4, <2>2, <1>2 DEF Marks
        <5> QED
            BY <5>3, <3>1, <2>4, <1>3 DEF ShownBy
      <4>2. CASE memory[x].state[t].occurrence # c.occurrence
        BY <4>2, <3>1, <2>1, <2>4, <1>3 DEF ShownBy
      <4> QED
        BY <4>1, <4>2
    <3> QED
        BY <3>2, <3>3, <3>4, <1>2 DEF Resets, Completed, Marks
  <2> QED
    BY <2>3, <2>4
<1>8. WalkKnows'
  <2> SUFFICES WalkFits(u, walk') /\ WalkShows(u, walk', claims')
    BY <1>3, <1>4 DEF WalkKnows
  <2>1. ASSUME NEW i \in Triggers, i >= t + 1 PROVE i # t /\ i >= w.next /\ i # w.firing
    BY <2>1, <1>2 DEF TriggersAssumption, Walking, WalkType
  <2>2. ASSUME NEW i \in Timers, i >= t + 1 PROVE u.state[i].occurrence <= w.config[i].created
    BY <2>1, <2>2, <1>3 DEF Walking, WalkFits, Triggers
  <2>3. WalkFits(u, walk')
    BY <2>2, <1>3, <1>4 DEF Walking, WalkFits
  <2>4. WalkShows(u, walk', claims')
    <3> SUFFICES ASSUME NEW c \in claims \ Overwritten(x), c.for[1] >= t + 1
                 PROVE  ShownBy(u, w.config, c)
        BY <1>4 DEF WalkShows
    <3>1. c.for[1] \in Triggers
        BY <1>1, ClaimFields
    <3>2. ShownBy(memory[x], w.config, c) /\ c.for[1] # t
        BY <3>1, <2>1 DEF Walking, WalkShows
    <3> QED
        BY <3>1, <3>2, <1>3 DEF ShownBy
  <2> QED
    BY <2>3, <2>4
<1> QED
    BY <1>3, <1>5, <1>6, <1>7, <1>8 DEF TriggersInv

\* Claiming an occurrence: none of the trigger's claims that last is for what it shows now.
LEMMA FireKeeps ==
    ASSUME TriggersAssumption, TriggersInv, NEW x \in Tabs, NEW w, Walking(x, w),
           NEW t \in Visited(w, memory[x]), ~Resets(memory[x], t, w.config[t]),
           NEW o, o = triggerOccurrence(memory[x], t, w.config[t]),
           Save(x, [memory[x] EXCEPT !.state[t] = [occurrence |-> o, status |-> "running"]]),
           walk' = [w EXCEPT !.next = t, !.firing = t, !.occurrence = o],
           claims' = (claims \ Overwritten(x))
                        \cup {[for |-> For(memory[x], t, w.config[t]), occurrence |-> o]},
           clock' = clock, listed' = listed
    PROVE  TriggersInv'
<1> DEFINE s == [occurrence |-> o, status |-> "running"]
           u == WithState(memory[x], t, s)
           new == [for |-> For(memory[x], t, w.config[t]), occurrence |-> o]
<1>1. /\ memory[x] \in Tree /\ Sane(memory[x], clock) /\ MaxEdits \in Nat /\ clock \in Marks
      /\ clock \in 1 .. MaxEdits /\ claims \subseteq Claim
    BY MemoryIsSane DEF TriggersInv, TriggersTyped
<1>2. /\ t \in listed /\ t \in Triggers /\ t >= w.next /\ t \in Nat \ {0}
      /\ Observed(memory[x], t, w.config[t])
      /\ w.config[t] \in Config /\ w.config[t].created \in Marks
    BY VisitedTriggers DEF TriggersAssumption, Config, Marks
<1>3. /\ memory[x].state[t].status \in {"none", "finished"}
      /\ o # 0 /\ o # memory[x].state[t].occurrence
    BY <1>2 DEF Observed
<1>4. /\ memory[x].config[t].created \in Marks /\ memory[x].updated \in Marks /\ memory[x].done \in Marks
      /\ memory[x].state[t].occurrence \in Marks
      /\ w.config[t].created <= memory[x].config[t].created
      /\ memory[x].updated <= clock /\ memory[x].done <= clock /\ memory[x].config[t].created <= clock
    BY <1>1, <1>2, TreeFields DEF Walking, WalkFits, Sane
<1>5. /\ t \in Timers => o = w.config[t].created
      /\ t \in Completions => /\ o = memory[x].updated /\ memory[x].done # 0
                              /\ memory[x].updated >= w.config[t].created
                              /\ ~Claimed(memory[x].state[t])
      /\ t \in Timers \/ t \in Completions
    BY <1>1, <1>2, <1>3, OccurrenceOf DEF Completed, Triggers
<1>6. /\ o \in 1 .. clock /\ o \in Marks /\ w.config[t].created <= o
      /\ t \in Timers => o <= memory[x].config[t].created
    BY <1>1, <1>2, <1>3, <1>4, <1>5 DEF Marks
<1>7. /\ new \in Claim /\ Made(new, clock) /\ new.for[1] = t /\ new.occurrence = o
  <2>1. /\ new.for[1] = t /\ new.for[2] = w.config[t].created /\ new.occurrence = o
        /\ new.for[3] = IF t \in Timers THEN 0 ELSE memory[x].done
        /\ new.for = <<t, w.config[t].created, IF t \in Timers THEN 0 ELSE memory[x].done>>
    BY DEF For
  <2>2. 0 \in Marks
    BY <1>1 DEF Marks
  <2>3. new \in Claim
    BY <2>1, <2>2, <1>2, <1>4, <1>6 DEF Claim
  <2>4. t \in Timers => t \notin Completions
    BY DEF TriggersAssumption
  <2>5. Made(new, clock)
    <3> HIDE DEF new
    <3> QED
        BY <2>1, <2>4, <1>1, <1>4, <1>5, <1>6 DEF Made, Marks
  <2> QED
    BY <2>1, <2>3, <2>5
<1>8. /\ memory' \in [Tabs -> Tree] /\ stored' \in Tree /\ memory'[x] = u /\ stored' = u
      /\ \A y \in Tabs \ {x} : memory'[y] = memory[y]
      /\ StoredTrees'
      /\ u \in Tree /\ u.config = memory[x].config /\ u.done = memory[x].done
      /\ u.state[t] = s
      /\ \A i \in Triggers \ {t} : u.state[i] = memory[x].state[i]
  <2>1. s \in TriggerState /\ s.status # "none"
    BY <1>6 DEF TriggerState, Marks
  <2>2. /\ t \in Timers => s.occurrence <= memory[x].config[t].created
        /\ t \in Completions => s.occurrence <= memory[x].updated
    BY <1>4, <1>5, <1>6 DEF Marks
  <2>3. Save(x, u) /\ u = WithState(memory[x], t, s)
    BY DEF WithState
  <2>4. clock' \in 1 .. MaxEdits /\ clock <= clock'
    BY <1>1
  <2> HIDE DEF u, s
  <2> QED
    BY <1>2, <2>1, <2>2, <2>3, <2>4, StateSaved
<1>9. s.occurrence = o /\ s.status = "running"
    OBVIOUS
<1>10. claims' = (claims \ Overwritten(x)) \cup {new}
    OBVIOUS
<1> HIDE DEF u, s, new
<1>11. /\ walk'.tab = {x} /\ walk'.next = t /\ walk'.firing = t /\ walk'.config = w.config
       /\ walk'.occurrence = o /\ walk' \in WalkType
    BY <1>2, <1>6 DEF Walking, WalkType
<1>12. TriggersTyped'
    BY <1>1, <1>2, <1>7, <1>8, <1>10, <1>11 DEF TriggersTyped, TriggersInv
<1>13. ClaimsMade'
    BY <1>7, <1>10 DEF ClaimsMade, TriggersInv
<1>14. ClaimsShown'
  <2>1. ShownBy(u, u.config, new)
    BY <1>7, <1>8, <1>9 DEF ShownBy
  <2>2. ASSUME NEW c \in claims \ Overwritten(x) PROVE ShownBy(u, u.config, c)
    <3>1. ShownBy(memory[x], memory[x].config, c) /\ c \in Claim /\ Made(c, clock)
        BY <1>1, SaverShows DEF TriggersInv, ClaimsMade
    <3>2. /\ c.for[1] \in Triggers /\ c.for[2] \in Marks /\ c.for[3] \in Marks /\ c.occurrence \in Marks
        BY <3>1, ClaimFields
    <3>3. CASE c.for[1] # t
        BY <3>1, <3>2, <3>3, <1>8 DEF ShownBy
    <3>4. CASE c.for[1] = t /\ memory[x].state[t].occurrence # c.occurrence
        BY <3>1, <3>4, <1>8, <1>9 DEF ShownBy
    <3>5. CASE c.for[1] = t /\ memory[x].state[t].occurrence = c.occurrence
      <4>1. c.occurrence # 0
        BY <3>1, <1>1 DEF Made
      <4>2. memory[x].state[t].status = "finished"
        BY <4>1, <3>5, <1>1, <1>2, <1>3 DEF Sane
      <4>3. t \in Timers
        BY <4>1, <4>2, <3>5, <1>5 DEF Claimed
      <4>4. memory[x].state[t].occurrence <= w.config[t].created
        BY <4>3, <1>2 DEF Walking, WalkFits
      <4>5. c.for[2] = c.occurrence
        BY <4>3, <3>1, <3>5 DEF Made
      <4>6. memory[x].config[t].created > c.for[2]
        BY <4>3, <4>4, <4>5, <3>5, <1>2, <1>3, <1>4, <1>5 DEF Marks
      <4> QED
        BY <4>6, <3>5, <1>8, <1>9 DEF ShownBy
    <3> QED
        BY <3>3, <3>4, <3>5
  <2> QED
    BY <2>1, <2>2, <1>8, <1>10 DEF ClaimsShown
<1>15. WalkKnows'
  <2> SUFFICES WalkFits(u, walk') /\ WalkShows(u, walk', claims')
    BY <1>8, <1>11 DEF WalkKnows
  <2>1. ASSUME NEW i \in Triggers, i >= t PROVE i >= w.next /\ i # w.firing
    BY <2>1, <1>2 DEF TriggersAssumption, Walking, WalkType
  <2>2. ASSUME NEW i \in Timers, i >= t, i # t PROVE u.state[i].occurrence <= w.config[i].created
    BY <2>1, <2>2, <1>8 DEF Walking, WalkFits, Triggers
  <2>3. WalkFits(u, walk')
    BY <2>2, <1>8, <1>9, <1>11 DEF Walking, WalkFits
  <2>4. WalkShows(u, walk', claims')
    <3> SUFFICES ASSUME NEW c \in claims \ Overwritten(x), c.for[1] >= t, c.for[1] # t
                 PROVE  ShownBy(u, w.config, c)
        BY <1>7, <1>10, <1>11 DEF WalkShows
    <3>1. c.for[1] \in Triggers
        BY <1>1, ClaimFields
    <3>2. ShownBy(memory[x], w.config, c)
        BY <3>1, <2>1 DEF Walking, WalkShows
    <3> QED
        BY <3>1, <3>2, <1>8 DEF ShownBy
  <2> QED
    BY <2>3, <2>4
<1> QED
    BY <1>8, <1>12, <1>13, <1>14, <1>15 DEF TriggersInv

LEMMA VisitKeeps ==
    ASSUME TriggersAssumption, TriggersInv, NEW x \in Tabs, NEW w, Walking(x, w), visit(x, w),
           UNCHANGED <<clock, listed>>
    PROVE  TriggersInv'
<1>1. CASE /\ walk' = NoWalk
           /\ UNCHANGED <<memory, stored, claims>>
  <2>1. TriggersTyped'
    BY <1>1, NoWalkTyped DEF TriggersTyped, TriggersInv
  <2>2. StoredTrees' /\ ClaimsMade' /\ ClaimsShown'
    BY <1>1 DEF StoredTrees, ClaimsMade, ClaimsShown, TriggersInv
  <2>3. WalkKnows'
    BY <1>1, NoWalkTyped DEF WalkKnows
  <2> QED
    BY <2>1, <2>2, <2>3 DEF TriggersInv
<1>2. ASSUME NEW t \in Visited(w, memory[x]),
             /\ Resets(memory[x], t, w.config[t])
             /\ Save(x, [memory[x] EXCEPT !.state[t] = Armed])
             /\ walk' = [w EXCEPT !.next = t + 1]
             /\ claims' = claims \ Overwritten(x)
      PROVE  TriggersInv'
    BY <1>2, ResetKeeps
<1>3. ASSUME NEW t \in Visited(w, memory[x]), NEW o, o = triggerOccurrence(memory[x], t, w.config[t]),
             /\ ~Resets(memory[x], t, w.config[t])
             /\ Save(x, [memory[x] EXCEPT !.state[t] = [occurrence |-> o, status |-> "running"]])
             /\ walk' = [w EXCEPT !.next = t, !.firing = t, !.occurrence = o]
             /\ claims' = (claims \ Overwritten(x))
                             \cup {[for |-> For(memory[x], t, w.config[t]), occurrence |-> o]}
      PROVE  TriggersInv'
    BY <1>3, FireKeeps
<1> QED
    BY <1>1, <1>2, <1>3 DEF visit

\* Nothing was claimed at the start, and the tabs show what is stored.
LEMMA TriggersInvAtStart ==
    ASSUME TriggersAssumption, TriggersInit
    PROVE  TriggersInv
<1>1. /\ stored \in Tree /\ Sane(stored, 1) /\ clock = 1 /\ claims = {} /\ walk = NoWalk
      /\ memory \in [Tabs -> Tree] /\ \A x \in Tabs : memory[x] = stored
      /\ listed \subseteq Triggers /\ 1 \in 1 .. MaxEdits
    BY NoWalkTyped DEF TriggersInit, TriggersAssumption
<1>2. TriggersTyped
    BY <1>1, NoWalkTyped DEF TriggersTyped
<1>3. StoredTrees
    BY <1>1 DEF StoredTrees, SameEdit
<1> QED
    BY <1>1, <1>2, <1>3, NoWalkTyped DEF TriggersInv, ClaimsMade, ClaimsShown, WalkKnows

LEMMA TriggersStep ==
    ASSUME TriggersAssumption, TriggersInv, [TriggersNext]_triggerVars
    PROVE  TriggersInv'
<1>1. ASSUME NEW x \in Tabs, runTriggers(x) PROVE TriggersInv'
    BY <1>1, RunStarts, VisitKeeps DEF runTriggers
<1>2. ASSUME NEW x \in Tabs, continue(x) PROVE TriggersInv'
    BY <1>2, WalkContinues, VisitKeeps DEF continue
<1>3. ASSUME NEW x \in Tabs, finish(x) PROVE TriggersInv'
    BY <1>3, FinishKeeps
<1>4. ASSUME NEW x \in Tabs, editElsewhere(x) \/ setTaskDone(x) \/ renameTask(x) PROVE TriggersInv'
    BY <1>4, EditElsewhereKeeps, TaskKeeps
<1>5. ASSUME NEW x \in Tabs, NEW t \in listed, configureTrigger(x, t) \/ toggleTrigger(x, t)
      PROVE  TriggersInv'
    BY <1>5, ConfigureKeeps
<1>6. ASSUME NEW x \in Tabs, NEW t \in listed, retryCurrentTrigger(x, t) PROVE TriggersInv'
    BY <1>6, RetryKeeps
<1>7. ASSUME NEW x \in Tabs, reload(x) PROVE TriggersInv'
    BY <1>7, ReloadKeeps
<1>8. CASE UNCHANGED triggerVars
  <2> USE <1>8 DEF triggerVars
  <2>1. TriggersTyped' /\ StoredTrees' /\ ClaimsMade' /\ ClaimsShown'
    BY DEF TriggersInv, TriggersTyped, StoredTrees, ClaimsMade, ClaimsShown
  <2>2. WalkKnows'
    BY DEF TriggersInv, WalkKnows
  <2> QED
    BY <2>1, <2>2 DEF TriggersInv
<1> QED
    BY <1>1, <1>2, <1>3, <1>4, <1>5, <1>6, <1>7, <1>8 DEF TriggersNext

\* In every reachable state the trees and the claims fit (TriggersInv).
THEOREM TriggersInvHolds == TriggersSpec => []TriggersInv
<1>1. TriggersInit => TriggersInv
    BY TriggersInvAtStart, TriggersAssumption
<1>2. TriggersInv /\ [TriggersNext]_triggerVars => TriggersInv'
    BY TriggersStep, TriggersAssumption
<1> QED
    BY <1>1, <1>2, PTL DEF TriggersSpec

\* The tree of a tab, what is stored, the walk and the claims have the types the code
\* gives them, and one tab at a time walks (the lock of the browser).
THEOREM TriggerTypes == TriggersSpec => []TriggersTypeOK
<1>1. TriggersInv => TriggersTypeOK
  <2> SUFFICES ASSUME TriggersInv PROVE TriggersTypeOK
    OBVIOUS
  <2>1. Cardinality(walk.tab) <= 1 /\ walk.tab \subseteq Tabs
    <3>1. CASE walk.tab = {}
        BY <3>1, FS_EmptySet
    <3>2. CASE \E x \in Tabs : walk.tab = {x}
      <4>1. PICK x \in Tabs : walk.tab = {x}
        BY <3>2
      <4>2. Cardinality({x}) = 1
        BY FS_Singleton
      <4> QED
        BY <4>1, <4>2
    <3> QED
        BY <3>1, <3>2 DEF TriggersInv, TriggersTyped
  <2>2. walk.persisted \in Tree
    BY DEF TriggersInv, TriggersTyped, WalkType
  <2> QED
    BY <2>1, <2>2 DEF TriggersInv, TriggersTyped, TriggersTypeOK
<1> QED
    BY <1>1, TriggersInvHolds, PTL

-----------------------------------------------------------------------------
(* What is claimed is new *)

\* A walk that goes on: the tab's own tree shows the claims that are ahead.
LEMMA OwnTreeTells ==
    ASSUME TriggersAssumption, TriggersInv, NEW x \in Tabs, walk.tab = {x}, walk.firing = 0,
           NEW t \in Visited(walk, memory[x]), ~Resets(memory[x], t, walk.config[t]),
           NEW c \in claims, c.for = For(memory[x], t, walk.config[t])
    PROVE  FALSE
<1>1. /\ t \in Triggers /\ t >= walk.next /\ t # 0 /\ walk.config[t] \in Config
      /\ Observed(memory[x], t, walk.config[t])
    BY WalkContinues, VisitedTriggers DEF TriggersAssumption
<1>2. /\ memory[x] \in Tree /\ Sane(memory[x], clock) /\ clock \in 1 .. MaxEdits
      /\ c \in Claim /\ Made(c, clock) /\ c.for[2] \in Marks
    BY MemoryIsSane, ClaimFields DEF TriggersInv, TriggersTyped, ClaimsMade
<1>3. /\ c.for[1] = t /\ c.for[2] = walk.config[t].created
      /\ c.for[3] = IF t \in Timers THEN 0 ELSE memory[x].done
    BY DEF For
<1>4. ShownBy(memory[x], walk.config, c)
    BY <1>1, <1>3 DEF TriggersInv, WalkKnows, WalkShows
<1>5. memory[x].state[t].occurrence = c.occurrence
  <2>1. t \in Completions => c.for[3] = memory[x].done
    BY <1>3 DEF TriggersAssumption
  <2> QED
    BY <2>1, <1>2, <1>3, <1>4 DEF ShownBy, Marks
<1>6. /\ memory[x].state[t].status \in {"none", "finished"}
      /\ triggerOccurrence(memory[x], t, walk.config[t]) \notin {0, memory[x].state[t].occurrence}
    BY <1>1 DEF Observed
<1>7. c.occurrence # 0 /\ (t \in Timers => c.occurrence = c.for[2])
    BY <1>2, <1>3 DEF Made
<1>8. memory[x].state[t].status = "finished"
    BY <1>1, <1>2, <1>5, <1>6, <1>7 DEF Sane
<1> QED
    BY <1>1, <1>2, <1>3, <1>5, <1>6, <1>7, <1>8, OccurrenceOf DEF Claimed, Triggers

\* A walk that begins: what is stored shows every claim, or a newer configuration.
LEMMA StoredTreeTells ==
    ASSUME TriggersAssumption, TriggersInv, NEW x \in Tabs, NEW w, Walking(x, w),
           w.config = memory[x].config, w.persisted = stored,
           NEW t \in Visited(w, memory[x]), ~Resets(memory[x], t, w.config[t]),
           NEW c \in claims, c.for = For(memory[x], t, w.config[t])
    PROVE  stored.config[t].created > c.for[2]
<1> DEFINE g == memory[x].config[t]
           o == triggerOccurrence(memory[x], t, g)
<1>1. /\ t \in Triggers /\ g \in Config
      /\ available(w, memory[x], t) /\ Observed(memory[x], t, g)
    BY VisitedTriggers
<1>2. /\ memory[x] \in Tree /\ Sane(memory[x], clock) /\ clock \in 1 .. MaxEdits /\ stored \in Tree
      /\ c \in Claim /\ Made(c, clock) /\ ShownBy(stored, stored.config, c)
      /\ SameEdit(memory[x], stored)
    BY MemoryIsSane DEF TriggersInv, TriggersTyped, ClaimsMade, ClaimsShown, StoredTrees
<1>3. /\ c.for[1] = t /\ c.for[2] = g.created
      /\ c.for[3] = IF t \in Timers THEN 0 ELSE memory[x].done
    BY DEF For
<1>4. /\ memory[x].state[t].status \in {"none", "finished"}
      /\ o # 0 /\ o # memory[x].state[t].occurrence
    BY <1>1 DEF Observed
<1>5. /\ triggerOccurrence(stored, t, g) = o
      /\ stored.state[t].occurrence # memory[x].state[t].occurrence
            => stored.state[t].status = "finished" /\ stored.state[t].occurrence # o
    BY <1>1, <1>2, <1>3 DEF available, ShownBy
<1>6. c.occurrence # 0 /\ (t \in Timers => c.occurrence = c.for[2])
    BY <1>2, <1>3 DEF Made
<1> HIDE DEF g
<1>7. CASE t \in Timers
  <2>1. o = g.created /\ t \notin Completions
    BY <1>1, <1>2, <1>4, <1>7, OccurrenceOf DEF TriggersAssumption
  <2>2. stored.state[t].occurrence # c.occurrence
    BY <2>1, <1>3, <1>4, <1>5, <1>6, <1>7
  <2> QED
    BY <2>1, <2>2, <1>2, <1>3 DEF ShownBy
<1>8. CASE t \in Completions
  <2>1. t \notin Timers /\ c.for[3] = memory[x].done
    BY <1>3, <1>8 DEF TriggersAssumption
  <2>2. /\ o = memory[x].updated /\ ~Claimed(memory[x].state[t])
        /\ o = stored.updated /\ ~Claimed(stored.state[t])
    BY <1>1, <1>2, <1>4, <1>5, <1>8, OccurrenceOf
  <2>3. stored.done = c.for[3]
    BY <2>1, <2>2, <1>2 DEF SameEdit
  <2>4. stored.state[t].occurrence # c.occurrence
    <3> SUFFICES ASSUME stored.state[t].occurrence = c.occurrence PROVE FALSE
        OBVIOUS
    <3>1. stored.state[t].status # "finished"
        BY <2>2, <1>6 DEF Claimed
    <3>2. memory[x].state[t].occurrence = c.occurrence
        BY <3>1, <1>5
    <3>3. memory[x].state[t].status = "finished"
        BY <3>2, <1>1, <1>2, <1>4, <1>6 DEF Sane
    <3> QED
        BY <3>2, <3>3, <2>2, <1>6 DEF Claimed
  <2> QED
    BY <2>3, <2>4, <1>2, <1>3 DEF ShownBy
<1> QED
    BY <1>1, <1>7, <1>8 DEF Triggers

\* A timer's time, or one completion of the task, is claimed and evaluated only once
\* (FiresOnce): a claim that outlasts the saves shows in what is stored, and in the tree of
\* the tab that walks, for the configurations it goes by.
THEOREM OneFiring == TriggersSpec => FiresOnce
<1>1. TriggersInv /\ [TriggersNext]_triggerVars =>
        [\A x \in Tabs, t \in Triggers : Fires(x, t) =>
            \A c \in claims : c.for = For(memory[x], t, walk'.config[t])
                                 => walk'.persisted.config[t].created > c.for[2]]_triggerVars
  <2> SUFFICES ASSUME TriggersInv, TriggersNext, NEW x \in Tabs, NEW t \in Triggers, Fires(x, t),
                      NEW c \in claims, c.for = For(memory[x], t, walk'.config[t])
               PROVE  walk'.persisted.config[t].created > c.for[2]
    OBVIOUS
  <2> USE TriggersAssumption
  <2>1. t # 0 /\ NoWalk.firing = 0 /\ NoWalk.tab = {} /\ walk.firing = 0 /\ walk'.firing = t /\ walk'.tab = {x}
    BY NoWalkTyped DEF TriggersAssumption, Fires
  <2>2. ASSUME NEW y \in Tabs, NEW w, Walking(y, w), visit(y, w)
        PROVE  /\ y = x /\ walk'.config = w.config /\ walk'.persisted = w.persisted
               /\ t \in Visited(w, memory[x]) /\ ~Resets(memory[x], t, w.config[t])
    <3>1. w \in WalkType /\ w.firing = 0 /\ w.tab = {y}
        BY <2>2 DEF Walking
    <3>2. PICK i \in Visited(w, memory[y]) :
            /\ ~Resets(memory[y], i, w.config[i])
            /\ walk' = [w EXCEPT !.next = i, !.firing = i,
                                 !.occurrence = triggerOccurrence(memory[y], i, w.config[i])]
      <4>1. walk' # NoWalk
        BY <2>1
      <4>2. \A i : walk' # [w EXCEPT !.next = i + 1]
        BY <2>1, <3>1 DEF WalkType
      <4> QED
        BY <4>1, <4>2, <2>2 DEF visit
    <3>3. /\ walk'.firing = i /\ walk'.tab = {y} /\ walk'.config = w.config
          /\ walk'.persisted = w.persisted
        BY <3>1, <3>2 DEF WalkType
    <3> QED
        BY <3>2, <3>3, <2>1
  <2>3. ASSUME NEW y \in Tabs, runTriggers(y)
        PROVE  walk'.persisted.config[t].created > c.for[2]
    <3> DEFINE w == [NoWalk EXCEPT !.tab = {y}, !.next = 1, !.config = memory[y].config, !.persisted = stored]
    <3>1. visit(y, w)
        BY <2>3 DEF runTriggers
    <3>2. Walking(y, w) /\ w.config = memory[y].config /\ w.persisted = stored
        BY RunStarts
    <3> HIDE DEF w
    <3> QED
        BY <3>1, <3>2, <2>2, StoredTreeTells
  <2>4. ASSUME NEW y \in Tabs, continue(y)
        PROVE  FALSE
    <3>1. visit(y, walk) /\ Walking(y, walk) /\ walk.tab = {y}
        BY <2>4, WalkContinues DEF continue
    <3> QED
        BY <3>1, <2>1, <2>2, OwnTreeTells
  <2>5. ASSUME walk' = walk PROVE FALSE
    BY <2>1, <2>5
  <2>6. ASSUME NEW y \in Tabs, finish(y) PROVE FALSE
    BY <2>1, <2>6 DEF finish
  <2>7. ASSUME NEW y \in Tabs, reload(y) PROVE FALSE
    BY <2>1, <2>7 DEF reload
  <2> QED
    BY <2>3, <2>4, <2>5, <2>6, <2>7
    DEF TriggersNext, editElsewhere, setTaskDone, renameTask, configureTrigger, toggleTrigger,
        retryCurrentTrigger, Timed, Edit
<1> QED
    BY <1>1, TriggersInvHolds, PTL DEF TriggersSpec, FiresOnce

-----------------------------------------------------------------------------
(* The four of them side by side *)

\* A step of all is a step of one, or of none, as each of them sees it.
LEMMA StepOfEach ==
    ASSUME [Next]_vars
    PROVE  /\ [EvaluationNext]_evalVars /\ [ApprovalsNext]_approvalVars
           /\ [MessagesNext]_messageVars /\ [TriggersNext]_triggerVars
<1>1. CASE UNCHANGED vars
  BY <1>1 DEF vars
<1>2. CASE EvaluationNext /\ UNCHANGED <<approvalVars, messageVars, triggerVars>>
  BY <1>2
<1>3. CASE ApprovalsNext /\ UNCHANGED <<evalVars, messageVars, triggerVars>>
  BY <1>3
<1>4. CASE MessagesNext /\ UNCHANGED <<evalVars, approvalVars, triggerVars>>
  BY <1>4
<1>5. CASE TriggersNext /\ UNCHANGED <<evalVars, approvalVars, messageVars>>
  BY <1>5
<1> QED
  BY <1>1, <1>2, <1>3, <1>4, <1>5 DEF Next

\* Whichever part a behaviour of the four side by side exercises, each of them behaves as
\* its own specification says: what is proved of one holds of all of them together.
THEOREM EachOfTheTree == Spec => EvaluationSpec /\ ApprovalsSpec /\ MessagesSpec /\ TriggersSpec
<1>1. Init => EvaluationInit /\ ApprovalsInit /\ MessagesInit /\ TriggersInit
  BY DEF Init
<1>2. [Next]_vars => /\ [EvaluationNext]_evalVars /\ [ApprovalsNext]_approvalVars
                     /\ [MessagesNext]_messageVars /\ [TriggersNext]_triggerVars
  BY StepOfEach
<1> QED
  BY <1>1, <1>2, PTL DEF Spec, EvaluationSpec, ApprovalsSpec, MessagesSpec, TriggersSpec

\* Every journal, row, submission, queue and claim is such as the code writes it.
THEOREM TreeTypes == Spec => []TreeTypeOK
<1>1. ApprovalsInv => ApprovalsTypeOK
  BY DEF ApprovalsInv
<1>2. MessagesInv => MessagesTypeOK
  BY DEF MessagesInv
<1>3. EvaluationTypeOK /\ ApprovalsTypeOK /\ MessagesTypeOK /\ TriggersTypeOK => TreeTypeOK
  BY DEF TreeTypeOK
<1> QED
  BY <1>1, <1>2, <1>3, EachOfTheTree, EvaluationTypes, SubmissionsStand, RelayedRows, TriggerTypes, PTL
=============================================================================
