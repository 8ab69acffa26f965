-------------------------- MODULE WorkClaims_proofs --------------------------
(***************************************************************************)
(* Proofs about WorkClaims for any tree, any sessions and any number of    *)
(* claims: the type invariant, that live claims never overlap and no       *)
(* session holds two, and from these that claimed work is changed through  *)
(* an event by the claim's holder alone.                                   *)
(***************************************************************************)
EXTENDS WorkClaims, TLAPS

\* A path below a path below a third is below the third.
LEMMA WithinTransitive ==
    ASSUME NEW p \in Paths, NEW q \in Paths, NEW r \in Paths, Within(p, q), Within(q, r)
    PROVE  Within(p, r)
BY PathsAssumption DEF Within

\* Two paths above the same path are comparable.
LEMMA WithinChain ==
    ASSUME NEW p \in Paths, NEW q \in Paths, NEW r \in Paths, Within(p, q), Within(p, r)
    PROVE  Comparable(q, r)
BY PathsAssumption DEF Within, Comparable

\* The selections along a path are selections.
LEMMA ScopeIsSelection ==
    ASSUME NEW path, NEW sel \in ScopeSelections(path)
    PROVE  sel \in Selections /\ DOMAIN sel = On(path)
BY DEF ScopeSelections, Selections, On

\* So is what is left of wider selections on a path they cover.
LEMMA OnlyIsSelection ==
    ASSUME NEW path, NEW sel \in Selections, On(path) \subseteq DOMAIN sel
    PROVE  Only(sel, path) \in Selections
<1>1. PICK D \in SUBSET Choices : sel \in [D -> Names]
  BY DEF Selections
<1>2. Only(sel, path) \in [On(path) -> Names]
  BY <1>1 DEF Only
<1>3. On(path) \in SUBSET Choices
  BY DEF On
<1> QED
  BY <1>2, <1>3 DEF Selections

\* A path passes through every choice that a path above it passes through.
LEMMA OnMonotone ==
    ASSUME NEW p \in Paths, NEW q \in Paths, Within(p, q)
    PROVE  On(q) \subseteq On(p)
BY WithinTransitive, PathsAssumption DEF On

LEMMA StaleType ==
    ASSUME NEW es \in SUBSET EvalType, NEW at
    PROVE  Stale(es, at) \subseteq EvalType /\ StaleAbove(es, at) \subseteq EvalType
BY DEF Stale, StaleAbove, EvalType

LEMMA DoneAfterType ==
    ASSUME done \subseteq Places, NEW place \in Places, NEW d \in DoneAfter(place)
    PROVE  d \subseteq Places
BY DEF DoneAfter

----------------------------------------------------------------------------
(* The type invariant *)

\* The live claims are claims, and an active claim is a live one of its session.
LEMMA LiveType ==
    ASSUME TypeOK
    PROVE  /\ workClaims \subseteq claims
           /\ \A s : \A c \in Active(s) : c \in workClaims /\ c \in ClaimType /\ c.session = s
BY DEF TypeOK, workClaims, Active

LEMMA AskEvaluationType ==
    ASSUME TypeOK, NEW s \in Sessions, NEW id \in ClaimIds \cup {NoClaim},
           NEW place \in Places, AskEvaluation(s, id, place)
    PROVE  evals' \subseteq EvalType /\ proposals' \subseteq ProposalType
<1>1. [by |-> s, claim |-> id, place |-> place, valid |-> TRUE] \in EvalType
  BY DEF EvalType
<1> QED
  BY <1>1 DEF AskEvaluation, TypeOK

LEMMA AskOwnerType ==
    ASSUME TypeOK, NEW s \in Sessions, NEW id, NEW at \in Places, NEW place \in Places,
           AskOwner(s, id, at, place)
    PROVE  evals' \subseteq EvalType /\ proposals' \subseteq ProposalType
<1>1. evals' \subseteq EvalType
  BY StaleType DEF AskOwner, TypeOK
<1>2. Proposal("request", s, at, place) \in ProposalType
  BY DEF Proposal, ProposalType
<1> QED
  BY <1>1, <1>2 DEF AskOwner, TypeOK

\* Every step of every action keeps each variable within its type.
THEOREM TypeStep == TypeOK /\ [Next]_vars => TypeOK'
<1> SUFFICES ASSUME TypeOK, [Next]_vars PROVE TypeOK'
  OBVIOUS
<1> USE BoundsAssumption
<1>0. workClaims \subseteq ClaimType /\ claims \subseteq ClaimType
  BY LiveType DEF TypeOK
<1>1. ASSUME NEW s \in Sessions, NEW id \in ClaimIds, NEW path \in Paths,
             NEW sel \in ScopeSelections(path), Claim(s, id, path, sel)
      PROVE  TypeOK'
  <2>1. sel \in Selections
    BY ScopeIsSelection
  <2>2. [id |-> id, session |-> s, path |-> path, sel |-> sel, left |-> Lease] \in ClaimType
    BY <2>1 DEF ClaimType
  <2>3. [id |-> id, session |-> s, path |-> path, sel |-> sel] \in GrantType
    BY <2>1 DEF GrantType
  <2>4. claims' \subseteq ClaimType /\ granted' \subseteq GrantType
    BY <1>0, <1>1, <2>2, <2>3 DEF Claim, TypeOK
  <2>5. evals' \subseteq EvalType
    BY <1>1, StaleType DEF Claim, TypeOK
  <2> QED
    BY <1>1, <2>4, <2>5 DEF Claim, TypeOK
<1>2. ASSUME NEW s \in Sessions, NEW id \in ClaimIds, Renew(s, id)
      PROVE  TypeOK'
  <2>1. claims' \subseteq ClaimType
    BY <1>0, <1>2 DEF Renew, ClaimType
  <2>2. evals' \subseteq EvalType
    BY <1>2, StaleType DEF Renew, TypeOK
  <2> QED
    BY <1>2, <2>1, <2>2 DEF Renew, TypeOK
<1>3. ASSUME NEW s \in Sessions, NEW id \in ClaimIds, Release(s, id)
      PROVE  TypeOK'
  <2>1. claims' \subseteq ClaimType
    BY <1>0, <1>3 DEF Release
  <2>2. evals' \subseteq EvalType
    BY <1>3, StaleType DEF Release, TypeOK
  <2> QED
    BY <1>3, <2>1, <2>2 DEF Release, TypeOK
<1>4. ASSUME NEW s \in Sessions, NEW id \in ClaimIds, NEW path \in Paths,
             NEW sel \in ScopeSelections(path), SubmitTask(s, id, path, sel)
      PROVE  TypeOK'
  <2>1. PICK c \in Active(s) : SubmitTask(s, id, path, sel)!(c)
    BY <1>4 DEF SubmitTask
  <2>2. Place(path, sel) \in Places /\ Place(c.path, c.sel) \in Places
    BY ScopeIsSelection, LiveType DEF Place, Places, ClaimType
  <2>3. claims' \subseteq ClaimType
    BY <1>0, <2>1
  <2>4. Stale(evals, Root) \subseteq EvalType
    BY StaleType DEF TypeOK
  <2>5. evals' \subseteq EvalType
    BY <2>1, <2>4, StaleType
  <2>6. Proposal("changes", s, Place(c.path, c.sel), Place(path, sel)) \in ProposalType
    BY <2>2 DEF Proposal, ProposalType
  <2>7. proposals' \subseteq ProposalType /\ done' \subseteq Places
    BY <2>1, <2>2, <2>6, DoneAfterType DEF TypeOK
  <2> QED
    BY <2>1, <2>3, <2>5, <2>7 DEF TypeOK
<1>5. ASSUME NEW s \in Sessions, NEW id \in ClaimIds, NEW path \in Paths,
             NEW sel \in ScopeSelections(path), InputTask(s, id, path, sel)
      PROVE  TypeOK'
  BY <1>5, StaleType DEF InputTask, TypeOK
<1>6. ASSUME NEW s \in Sessions, NEW id \in ClaimIds, NEW path \in Paths,
             NEW sel \in ScopeSelections(path), CompleteTask(s, id, path, sel)
      PROVE  TypeOK'
  <2>1. PICK c \in Active(s) :
           \/ AskEvaluation(s, id, Place(path, sel))
           \/ AskOwner(s, id, Place(c.path, c.sel), Place(path, sel))
    BY <1>6 DEF CompleteTask
  <2>2. Place(path, sel) \in Places /\ Place(c.path, c.sel) \in Places
    BY ScopeIsSelection, LiveType DEF Place, Places, ClaimType
  <2>3. evals' \subseteq EvalType /\ proposals' \subseteq ProposalType
    BY <2>1, <2>2, AskEvaluationType, AskOwnerType
  <2> QED
    BY <1>6, <2>3 DEF CompleteTask, TypeOK
<1>7. ASSUME NEW s \in Sessions, NEW path \in Paths, NEW sel \in Selections,
             Submit(s, path, sel)
      PROVE  TypeOK'
  <2> DEFINE place == Place(path, Only(sel, path))
             at    == Place(Attachment[s], Only(sel, Attachment[s]))
  <2>1. Attachment[s] \in Paths /\ Within(path, Attachment[s]) /\ On(path) \subseteq DOMAIN sel
    BY <1>7, SessionsAssumption DEF Submit, Resolvable
  <2>2. place \in Places /\ at \in Places
    BY <2>1, OnMonotone, OnlyIsSelection DEF Place, Places
  <2>3. Proposal("changes", s, at, place) \in ProposalType
    BY <2>2 DEF Proposal, ProposalType
  <2>4. proposals' \subseteq ProposalType /\ done' \subseteq Places
    BY <1>7, <2>2, <2>3, DoneAfterType DEF Submit, TypeOK
  <2>5. evals' \subseteq EvalType
    BY <1>7, StaleType DEF Submit, TypeOK
  <2> QED
    BY <1>7, <2>4, <2>5 DEF Submit, TypeOK
<1>8. ASSUME NEW s \in Sessions, NEW path \in Paths, NEW sel \in Selections,
             Complete(s, path, sel)
      PROVE  TypeOK'
  <2> DEFINE at == Place(Attachment[s], Only(sel, Attachment[s]))
  <2>1. /\ Attachment[s] \in Paths
        /\ Within(path, Attachment[s])
        /\ sel \in ScopeSelections(path)
    BY <1>8, SessionsAssumption DEF Complete, Open, Resolvable
  <2>2. Place(path, sel) \in Places /\ at \in Places
    BY <2>1, OnMonotone, OnlyIsSelection, ScopeIsSelection DEF Place, Places
  <2>3. evals' \subseteq EvalType /\ proposals' \subseteq ProposalType
    BY <1>8, <2>2, AskEvaluationType, AskOwnerType DEF Complete
  <2> QED
    BY <1>8, <2>3 DEF Complete, TypeOK
<1>9. ASSUME NEW s \in Sessions, NEW path \in Paths, NEW sel \in Selections,
             Input(s, path, sel) \/ CreateBranch(s, path, sel)
      PROVE  TypeOK'
  BY <1>9, StaleType DEF Input, CreateBranch, TypeOK
<1>10. ASSUME NEW s \in Sessions, NEW p \in proposals, NEW approve \in BOOLEAN,
              Decide(s, p, approve)
       PROVE  TypeOK'
  <2>1. p.place \in Places
    BY DEF TypeOK, ProposalType
  <2>2. evals' \subseteq EvalType
    BY <1>10, StaleType DEF Decide, TypeOK
  <2>3. done' \subseteq Places
    BY <1>10, <2>1, DoneAfterType DEF Decide, TypeOK
  <2> QED
    BY <1>10, <2>2, <2>3 DEF Decide, TypeOK
<1>11. ASSUME NEW e \in evals, Evaluate(e)
       PROVE  TypeOK'
  <2>1. e.place \in Places
    BY DEF TypeOK, EvalType
  <2>2. evals' \subseteq EvalType
    BY <1>11, StaleType DEF Evaluate, TypeOK
  <2>3. done' \subseteq Places
    BY <1>11, <2>1, DoneAfterType DEF Evaluate, TypeOK
  <2> QED
    BY <1>11, <2>2, <2>3 DEF Evaluate, TypeOK
<1>12. ASSUME NEW p \in Peers, NEW path \in MemberPaths,
              (\E caps \in Grants : SetMember(p, path, caps)) \/ RemoveMember(p, path)
       PROVE  TypeOK'
  BY <1>12 DEF SetMember, RemoveMember, TypeOK
<1>13. CASE Tick
  <2>1. claims' \subseteq ClaimType
    BY <1>0, <1>13 DEF Tick, ClaimType
  <2> QED
    BY <1>13, <2>1 DEF Tick, TypeOK
<1>14. ASSUME NEW s \in Sessions, Crash(s)
       PROVE  TypeOK'
  BY <1>14 DEF Crash, TypeOK
<1>15. CASE UNCHANGED vars
  BY <1>15 DEF vars, TypeOK, workClaims
<1> QED
  BY <1>1, <1>2, <1>3, <1>4, <1>5, <1>6, <1>7, <1>8, <1>9, <1>10, <1>11, <1>12, <1>13,
     <1>14, <1>15
     DEF Next, Host, WorkEvent, OtherEvent

THEOREM TypeCorrect == Spec => []TypeOK
<1>1. Init => TypeOK
  BY DEF Init, TypeOK
<1> QED
  BY <1>1, TypeStep, PTL DEF Spec

----------------------------------------------------------------------------
(* Exclusive claims *)

\* What makes exclusivity inductive: a claim id names one claim, and an id in use was
\* granted, so that a fresh id is fresh among the claims too.
IdsUnique == \A c, d \in claims : c.id = d.id => c = d
IdsGranted == \A c \in claims : \E g \in granted :
                 /\ g.id = c.id
                 /\ g.session = c.session
                 /\ g.path = c.path
                 /\ g.sel = c.sel

\* A claim selects a branch at every choice on its path, and at no other.
SelectionsFit == \A g \in granted : g.sel \in ScopeSelections(g.path)

ClaimsInv ==
    /\ TypeOK
    /\ SelectionsFit
    /\ IdsUnique
    /\ IdsGranted
    /\ ExclusiveClaims
    /\ OneClaimPerSession

\* Every live claim of the next state is a live claim of this one, up to its lease.
LiveClaimsKept ==
    \A c \in workClaims' : \E d \in workClaims :
       d.id = c.id /\ d.session = c.session /\ d.path = c.path /\ d.sel = c.sel

\* A step that takes no new claim keeps what the claims promise.
LEMMA KeptClaims ==
    ASSUME ClaimsInv, LiveClaimsKept, IdsUnique'
    PROVE  ExclusiveClaims' /\ OneClaimPerSession'
<1>1. ExclusiveClaims'
  BY DEF ClaimsInv, LiveClaimsKept, ExclusiveClaims
<1>2. ASSUME NEW c \in workClaims', NEW d \in workClaims', c.session = d.session
      PROVE  c = d
  <2>1. PICK c0 \in workClaims, d0 \in workClaims :
           c0.id = c.id /\ d0.id = d.id /\ c0.session = d0.session
    BY <1>2 DEF LiveClaimsKept
  <2>2. c0 = d0
    BY <2>1 DEF ClaimsInv, OneClaimPerSession
  <2> QED
    BY <2>1, <2>2 DEF IdsUnique, workClaims
<1> QED
  BY <1>1, <1>2 DEF OneClaimPerSession

\* Claims, their ids and their exclusivity, over every step.
LEMMA ClaimsStep == ClaimsInv /\ [Next]_vars => ClaimsInv'
<1> SUFFICES ASSUME ClaimsInv, [Next]_vars PROVE ClaimsInv'
  OBVIOUS
<1>0. TypeOK /\ TypeOK'
  BY TypeStep DEF ClaimsInv
<1>1. ASSUME NEW s \in Sessions, NEW id \in ClaimIds, NEW path \in Paths,
             NEW sel \in ScopeSelections(path), Claim(s, id, path, sel)
      PROVE  ClaimsInv'
  <2> DEFINE new == [id |-> id, session |-> s, path |-> path, sel |-> sel, left |-> Lease]
             given == [id |-> id, session |-> s, path |-> path, sel |-> sel]
  <2>1. claims' = workClaims \cup {new} /\ granted' = granted \cup {given}
    BY <1>1 DEF Claim
  <2>2. workClaims \subseteq claims
    BY DEF workClaims
  <2>3. \A c \in claims : c.id # id
    BY <1>1 DEF Claim, ClaimsInv, IdsGranted
  <2>4. IdsUnique'
    <3>1. new.id = id
      OBVIOUS
    <3> HIDE DEF new
    <3> QED
      BY <2>1, <2>2, <2>3, <3>1 DEF ClaimsInv, IdsUnique
  <2>5. \E g \in granted' : /\ g.id = new.id /\ g.session = new.session
                            /\ g.path = new.path /\ g.sel = new.sel
    <3>1. given \in granted'
      BY <2>1
    <3>2. /\ given.id = new.id /\ given.session = new.session
          /\ given.path = new.path /\ given.sel = new.sel
      OBVIOUS
    <3> HIDE DEF given, new
    <3> QED
      BY <3>1, <3>2
  <2>6. IdsGranted'
    BY <2>1, <2>2, <2>5 DEF ClaimsInv, IdsGranted
  <2>7. \A c \in workClaims' : c = new \/ c \in workClaims
    BY <2>1 DEF workClaims
  <2>8. \A c \in workClaims : /\ ~(Comparable(c.path, path) /\ Agree(c.sel, sel))
                              /\ ~(Comparable(path, c.path) /\ Agree(sel, c.sel))
    BY <1>1 DEF Claim, Overlapped, workOverlaps, Comparable, Agree
  <2>9. new.path = path /\ new.sel = sel /\ new.session = s /\ new.id = id
    OBVIOUS
  <2>10. ExclusiveClaims'
    <3> SUFFICES ASSUME NEW c \in workClaims', NEW d \in workClaims', c.id # d.id
                 PROVE  ~(Comparable(c.path, d.path) /\ Agree(c.sel, d.sel))
      BY DEF ExclusiveClaims
    <3>1. CASE c = new
      <4>1. d \in workClaims
        BY <3>1, <2>7
      <4> QED
        BY <3>1, <4>1, <2>8, <2>9
    <3>2. CASE d = new
      <4>1. c \in workClaims
        BY <3>2, <2>7
      <4> QED
        BY <3>2, <4>1, <2>8, <2>9
    <3>3. CASE c \in workClaims /\ d \in workClaims
      BY <3>3 DEF ClaimsInv, ExclusiveClaims
    <3> QED
      BY <2>7, <3>1, <3>2, <3>3
  <2>11. \A c \in workClaims : c.session # s
    BY <1>1 DEF Claim, Active
  <2>12. OneClaimPerSession'
    BY <2>7, <2>9, <2>11 DEF ClaimsInv, OneClaimPerSession
  <2>13. SelectionsFit'
    <3>1. given.sel = sel /\ given.path = path
      OBVIOUS
    <3> HIDE DEF given
    <3> QED
      BY <2>1, <3>1 DEF ClaimsInv, SelectionsFit
  <2> QED
    BY <1>0, <2>4, <2>6, <2>10, <2>12, <2>13 DEF ClaimsInv
<1>2. ASSUME NEW s \in Sessions, NEW id \in ClaimIds, Renew(s, id)
      PROVE  ClaimsInv'
  <2> DEFINE after(d) == IF d.id = id THEN [d EXCEPT !.left = Lease] ELSE d
  <2>1. claims' = {after(d) : d \in workClaims}
    BY <1>2 DEF Renew
  <2>r. \A d \in workClaims :
           /\ d.id = after(d).id /\ d.session = after(d).session
           /\ d.path = after(d).path /\ d.sel = after(d).sel
    BY <1>0 DEF TypeOK, ClaimType, workClaims
  <2>2. \A c \in claims' : \E d \in workClaims :
           /\ d.id = c.id /\ d.session = c.session /\ d.path = c.path /\ d.sel = c.sel
           /\ c = after(d)
    <3> HIDE DEF after
    <3> QED
      BY <2>1, <2>r
  <2>3. IdsUnique'
    <3> HIDE DEF after
    <3> QED
      BY <2>2 DEF ClaimsInv, IdsUnique, workClaims
  <2>4. IdsGranted'
    BY <1>2, <2>2 DEF ClaimsInv, IdsGranted, Renew, workClaims
  <2>5. LiveClaimsKept
    BY <2>2 DEF LiveClaimsKept, workClaims
  <2>6. SelectionsFit'
    BY <1>2 DEF Renew, ClaimsInv, SelectionsFit, ScopeSelections, On
  <2> QED
    BY <1>0, <2>3, <2>4, <2>5, <2>6, KeptClaims DEF ClaimsInv
<1>3. ASSUME claims' \subseteq claims, workClaims' \subseteq workClaims, granted' = granted
      PROVE  ClaimsInv'
  <2>1. IdsUnique' /\ IdsGranted' /\ LiveClaimsKept /\ SelectionsFit'
    BY <1>3 DEF ClaimsInv, IdsUnique, IdsGranted, LiveClaimsKept, SelectionsFit,
                ScopeSelections, On
  <2> QED
    BY <1>0, <2>1, KeptClaims DEF ClaimsInv
<1>4. ASSUME UNCHANGED <<claims, granted>>
      PROVE  ClaimsInv'
  BY <1>3, <1>4 DEF workClaims
<1>5. ASSUME NEW s \in Sessions, NEW id \in ClaimIds, Release(s, id)
      PROVE  ClaimsInv'
  BY <1>3, <1>5 DEF Release, workClaims
<1>6. ASSUME NEW s \in Sessions, NEW id \in ClaimIds, NEW path \in Paths,
             NEW sel \in ScopeSelections(path), SubmitTask(s, id, path, sel)
      PROVE  ClaimsInv'
  BY <1>3, <1>6 DEF SubmitTask, workClaims
<1>7. CASE Tick
  <2>1. claims' = {[c EXCEPT !.left = IF @ > 0 THEN @ - 1 ELSE 0] : c \in claims}
    BY <1>7 DEF Tick
  <2>2. \A c \in claims' : \E d \in claims :
           /\ d.id = c.id /\ d.session = c.session /\ d.path = c.path /\ d.sel = c.sel
           /\ c.left = IF d.left > 0 THEN d.left - 1 ELSE 0
           /\ c = [d EXCEPT !.left = IF @ > 0 THEN @ - 1 ELSE 0]
    BY <2>1, <1>0 DEF TypeOK, ClaimType
  <2>3. IdsUnique'
    BY <2>2 DEF ClaimsInv, IdsUnique
  <2>4. IdsGranted'
    BY <1>7, <2>2 DEF ClaimsInv, IdsGranted, Tick
  <2>5. LiveClaimsKept
    BY <2>2, <1>0 DEF LiveClaimsKept, workClaims, TypeOK, ClaimType
  <2>6. SelectionsFit'
    BY <1>7 DEF Tick, ClaimsInv, SelectionsFit, ScopeSelections, On
  <2> QED
    BY <1>0, <2>3, <2>4, <2>5, <2>6, KeptClaims DEF ClaimsInv
<1>8. ASSUME NEW s \in Sessions, OtherEvent(s)
      PROVE  ClaimsInv'
  BY <1>4, <1>8 DEF OtherEvent, Submit, Complete, Input, CreateBranch, Decide
<1>9. ASSUME NEW s \in Sessions, NEW id \in ClaimIds, NEW path \in Paths,
             NEW sel \in ScopeSelections(path),
             InputTask(s, id, path, sel) \/ CompleteTask(s, id, path, sel)
      PROVE  ClaimsInv'
  BY <1>4, <1>9 DEF InputTask, CompleteTask
<1>10. ASSUME Host, ~Tick
       PROVE  ClaimsInv'
  BY <1>4, <1>10 DEF Host, Evaluate, SetMember, RemoveMember, Crash
<1>11. CASE UNCHANGED vars
  BY <1>4, <1>11 DEF vars
<1> QED
  BY <1>1, <1>2, <1>5, <1>6, <1>7, <1>8, <1>9, <1>10, <1>11 DEF Next, WorkEvent

LEMMA ClaimsInvariant == Spec => []ClaimsInv
<1>1. Init => ClaimsInv
  BY DEF Init, ClaimsInv, TypeOK, IdsUnique, IdsGranted, ExclusiveClaims,
         OneClaimPerSession, workClaims, SelectionsFit
<1> QED
  BY <1>1, ClaimsStep, PTL DEF Spec

\* Live claims never overlap.
THEOREM Exclusive == Spec => []ExclusiveClaims
BY ClaimsInvariant, PTL DEF ClaimsInv

\* No session ever holds two live claims.
THEOREM OneClaim == Spec => []OneClaimPerSession
BY ClaimsInvariant, PTL DEF ClaimsInv

----------------------------------------------------------------------------
(* Claimed work *)

\* The scoped events check no other claim: that they stay clear of all of them rests on
\* the session's own claim, which covers the change, being exclusive.
LEMMA ScopedStaysClear ==
    ASSUME ClaimsInv, NEW s \in Sessions, NEW id, NEW path \in Paths, NEW sel,
           NEW c \in Active(s), ScopedTo(c, s, id, path, sel),
           NEW d \in workClaims, Inside(Place(path, sel), Place(d.path, d.sel))
    PROVE  d.id = id
<1>1. c \in workClaims /\ c \in ClaimType /\ d \in ClaimType /\ c.id = id
  BY LiveType DEF ScopedTo, ClaimsInv, TypeOK, workClaims
<1>2. c.path \in Paths /\ d.path \in Paths
  BY <1>1 DEF ClaimType
<1>3. Within(path, c.path) /\ Within(path, d.path)
  BY DEF ScopedTo, Inside, Place
<1>4. Comparable(c.path, d.path)
  BY <1>2, <1>3, WithinChain
<1>5. Agree(c.sel, d.sel)
  <2> SUFFICES ASSUME NEW q \in DOMAIN c.sel \cap DOMAIN d.sel PROVE c.sel[q] = d.sel[q]
    BY DEF Agree
  <2>2. PICK g \in granted : g.path = c.path /\ g.sel = c.sel
    BY <1>1 DEF ClaimsInv, IdsGranted, workClaims
  <2>3. q \in On(path)
    BY <1>2, <1>3, <2>2, OnMonotone DEF ClaimsInv, SelectionsFit, ScopeSelections, ScopedTo
  <2>4. sel[q] = c.sel[q] /\ q \in DOMAIN sel
    BY <2>3 DEF ScopedTo
  <2> QED
    BY <2>4 DEF Inside, Place, Agree
<1> QED
  BY <1>1, <1>4, <1>5 DEF ClaimsInv, ExclusiveClaims

\* An unscoped event at a place that overlaps no claim changes no claimed work.
LEMMA UnscopedStaysClear ==
    ASSUME NEW path \in Paths, NEW sel, ~Overlapped(path, sel), NEW d \in workClaims
    PROVE  ~Inside(Place(path, sel), Place(d.path, d.sel))
BY DEF Overlapped, workOverlaps, Comparable, Inside, Place, Agree

\* What a submission holds lies at or below the node it hangs on, on its branch.
ProposalsWithin ==
    \A p \in proposals : /\ Within(p.place.path, p.at.path)
                         /\ On(p.at.path) \subseteq On(p.place.path)
                         /\ p.place.sel \in ScopeSelections(p.place.path)
                         /\ p.at.sel \in ScopeSelections(p.at.path)
                         /\ Agree(p.at.sel, p.place.sel)

\* Submissions stay below the node they were left on.
LEMMA ProposalsStep ==
    ClaimsInv /\ ProposalsWithin /\ [Next]_vars => ProposalsWithin'
<1> SUFFICES ASSUME ClaimsInv, ProposalsWithin, [Next]_vars PROVE ProposalsWithin'
  OBVIOUS
<1> DEFINE Fits(p) == /\ Within(p.place.path, p.at.path)
                      /\ On(p.at.path) \subseteq On(p.place.path)
                      /\ p.place.sel \in ScopeSelections(p.place.path)
                      /\ p.at.sel \in ScopeSelections(p.at.path)
                      /\ Agree(p.at.sel, p.place.sel)
<1>1. ASSUME proposals' \subseteq proposals PROVE ProposalsWithin'
  BY <1>1 DEF ProposalsWithin, ScopeSelections, On, Agree, Within
<1>2. ASSUME NEW kind, NEW s, NEW at, NEW place,
             Fits(Proposal(kind, s, at, place)),
             proposals' = proposals \cup {Proposal(kind, s, at, place)}
      PROVE  ProposalsWithin'
  <2> SUFFICES ASSUME NEW p \in proposals' PROVE Fits(p)
    BY DEF ProposalsWithin
  <2>1. CASE p = Proposal(kind, s, at, place)
    BY <1>2, <2>1
  <2>2. CASE p \in proposals
    BY <2>2 DEF ProposalsWithin
  <2> QED
    BY <1>2, <2>1, <2>2
\* Below a claim, with the claim's selections: the task tools' submissions and requests.
<1>3. ASSUME NEW s \in Sessions, NEW id, NEW path \in Paths, NEW sel,
             NEW c \in Active(s), ScopedTo(c, s, id, path, sel), NEW kind
      PROVE  Fits(Proposal(kind, s, Place(c.path, c.sel), Place(path, sel)))
  <2>1. c \in workClaims /\ c \in ClaimType
    BY LiveType DEF ClaimsInv
  <2>2. c.path \in Paths /\ c.sel \in ScopeSelections(c.path)
    BY <2>1 DEF ClaimType, ClaimsInv, IdsGranted, SelectionsFit, workClaims
  <2>3. Within(path, c.path) /\ On(c.path) \subseteq On(path)
    BY <1>3, <2>2, OnMonotone DEF ScopedTo
  <2>4. sel = [q \in On(path) |-> IF q \in DOMAIN c.sel THEN c.sel[q] ELSE Main]
    BY <1>3 DEF ScopedTo
  <2>5. \A q \in DOMAIN c.sel : c.sel[q] \in Names
    BY <2>2 DEF ScopeSelections
  <2>6. sel \in ScopeSelections(path)
    BY <2>4, <2>5, BoundsAssumption DEF ScopeSelections
  <2>7. Agree(c.sel, sel)
    BY <2>4 DEF Agree
  <2> QED
    BY <2>2, <2>3, <2>6, <2>7 DEF Proposal, Place
\* Below an attachment, with the selections the event carries along the path.
<1>4. ASSUME NEW s \in Sessions, NEW path \in Paths, NEW sel \in Selections,
             Within(path, Attachment[s]), On(path) \subseteq DOMAIN sel, NEW kind
      PROVE  Fits(Proposal(kind, s, Place(Attachment[s], Only(sel, Attachment[s])),
                           Place(path, Only(sel, path))))
  <2>1. Attachment[s] \in Paths
    BY SessionsAssumption
  <2>2. On(Attachment[s]) \subseteq On(path)
    BY <1>4, <2>1, OnMonotone
  <2>3. \A q \in DOMAIN sel : sel[q] \in Names
    BY DEF Selections
  <2>4. /\ Only(sel, path) \in ScopeSelections(path)
        /\ Only(sel, Attachment[s]) \in ScopeSelections(Attachment[s])
    BY <1>4, <2>2, <2>3 DEF Only, ScopeSelections
  <2>5. Agree(Only(sel, Attachment[s]), Only(sel, path))
    BY <2>2 DEF Agree, Only
  <2> QED
    BY <1>4, <2>2, <2>4, <2>5 DEF Proposal, Place
<1>5. ASSUME NEW s \in Sessions, NEW id \in ClaimIds, NEW path \in Paths,
             NEW sel \in ScopeSelections(path), SubmitTask(s, id, path, sel)
      PROVE  ProposalsWithin'
  BY <1>1, <1>2, <1>3, <1>5 DEF SubmitTask
<1>6. ASSUME NEW s \in Sessions, NEW id \in ClaimIds, NEW path \in Paths,
             NEW sel \in ScopeSelections(path), CompleteTask(s, id, path, sel)
      PROVE  ProposalsWithin'
  BY <1>1, <1>2, <1>3, <1>6 DEF CompleteTask, AskEvaluation, AskOwner
<1>7. ASSUME NEW s \in Sessions, NEW path \in Paths, NEW sel \in Selections,
             Submit(s, path, sel)
      PROVE  ProposalsWithin'
  <2>1. Within(path, Attachment[s]) /\ On(path) \subseteq DOMAIN sel
    BY <1>7 DEF Submit, Resolvable
  <2> QED
    BY <1>1, <1>2, <1>4, <1>7, <2>1 DEF Submit
<1>8. ASSUME NEW s \in Sessions, NEW path \in Paths, NEW sel \in Selections,
             Complete(s, path, sel)
      PROVE  ProposalsWithin'
  <2>1. Within(path, Attachment[s]) /\ sel \in ScopeSelections(path)
    BY <1>8 DEF Complete, Open, Resolvable
  <2>2. Only(sel, path) = sel /\ On(path) \subseteq DOMAIN sel
    BY <2>1 DEF Only, ScopeSelections
  <2> QED
    BY <1>1, <1>2, <1>4, <1>8, <2>1, <2>2 DEF Complete, AskEvaluation, AskOwner
<1>9. ASSUME UNCHANGED proposals PROVE ProposalsWithin'
  BY <1>1, <1>9
<1>10. ASSUME NEW s \in Sessions, NEW id \in ClaimIds, NEW path \in Paths,
              NEW sel \in ScopeSelections(path),
              \/ Claim(s, id, path, sel)
              \/ InputTask(s, id, path, sel)
       PROVE  ProposalsWithin'
  BY <1>9, <1>10 DEF Claim, InputTask
<1>11. ASSUME NEW s \in Sessions, NEW path \in Paths, NEW sel \in Selections,
              Input(s, path, sel) \/ CreateBranch(s, path, sel)
       PROVE  ProposalsWithin'
  BY <1>9, <1>11 DEF Input, CreateBranch
<1>12. ASSUME NEW s \in Sessions, NEW p \in proposals, NEW approve \in BOOLEAN,
              Decide(s, p, approve)
       PROVE  ProposalsWithin'
  BY <1>1, <1>12 DEF Decide
<1>13. CASE Host
  BY <1>9, <1>13 DEF Host, Evaluate, SetMember, RemoveMember, Tick, Crash
<1>14. CASE UNCHANGED vars
  BY <1>9, <1>14 DEF vars
<1>15. ASSUME NEW s \in Sessions, NEW id \in ClaimIds, Renew(s, id) \/ Release(s, id)
       PROVE  ProposalsWithin'
  BY <1>9, <1>15 DEF Renew, Release
<1> QED
  BY <1>5, <1>6, <1>7, <1>8, <1>10, <1>11, <1>12, <1>13, <1>14, <1>15
     DEF Next, WorkEvent, OtherEvent

\* Every step leaves other workers' claimed content alone.
LEMMA ShieldStep ==
    ClaimsInv /\ ProposalsWithin /\ [Next]_vars => [WorkShielded]_vars
<1> SUFFICES ASSUME ClaimsInv, ProposalsWithin, Next PROVE WorkShielded
  BY DEF vars
<1>1. ASSUME step'.kind \notin Writes \ {"evaluate"} PROVE WorkShielded
  BY <1>1 DEF WorkShielded
<1>2. ASSUME NEW s \in Sessions, NEW id \in ClaimIds, NEW path \in Paths,
             NEW sel \in ScopeSelections(path),
             SubmitTask(s, id, path, sel) \/ InputTask(s, id, path, sel)
      PROVE  WorkShielded
  <2>1. PICK c \in Active(s) : ScopedTo(c, s, id, path, sel)
    BY <1>2 DEF SubmitTask, InputTask
  <2>2. CASE step' = Label("propose", s, id, Place(c.path, c.sel))
    BY <1>1, <2>2 DEF Label, Writes
  <2>3. CASE step'.place = Place(path, sel) /\ step'.claim = id
    BY <2>1, <2>3, ScopedStaysClear DEF WorkShielded
  <2>4. step'.kind = "propose" \/ (step'.place = Place(path, sel) /\ step'.claim = id)
    BY <1>2 DEF SubmitTask, InputTask, Label
  <2>5. CASE step'.kind = "propose"
    BY <1>1, <2>5 DEF Writes
  <2> QED
    BY <2>3, <2>4, <2>5
<1>3. ASSUME NEW path \in Paths, NEW sel, ~Overlapped(path, sel),
             step'.place = Place(path, sel)
      PROVE  WorkShielded
  BY <1>3, UnscopedStaysClear DEF WorkShielded
<1>4. ASSUME NEW s \in Sessions, NEW path \in Paths, NEW sel \in Selections,
             Input(s, path, sel) \/ CreateBranch(s, path, sel)
      PROVE  WorkShielded
  BY <1>3, <1>4 DEF Input, CreateBranch, Open, Label
<1>5. ASSUME NEW s \in Sessions, NEW path \in Paths, NEW sel \in Selections,
             Submit(s, path, sel)
      PROVE  WorkShielded
  <2>1. ~Overlapped(path, sel) /\ On(path) \subseteq DOMAIN sel
    BY <1>5 DEF Submit
  <2>2. \/ step'.kind = "propose"
        \/ step'.place = Place(path, Only(sel, path))
    BY <1>5 DEF Submit, Label
  <2>3. CASE step'.kind = "propose"
    BY <1>1, <2>3 DEF Writes
  <2>4. ASSUME step'.place = Place(path, Only(sel, path)), NEW d \in workClaims,
               Inside(step'.place, Place(d.path, d.sel))
        PROVE  FALSE
    <3>1. d.path \in Paths /\ d.sel \in ScopeSelections(d.path)
      BY DEF ClaimsInv, IdsGranted, SelectionsFit, workClaims, TypeOK, ClaimType
    <3>2. Within(path, d.path)
      BY <2>4 DEF Inside, Place
    <3>3. DOMAIN d.sel \subseteq On(path)
      BY <3>1, <3>2, OnMonotone DEF ScopeSelections
    <3>4. Agree(d.sel, sel)
      BY <2>1, <2>4, <3>3 DEF Inside, Place, Agree, Only
    <3> QED
      BY <2>1, <3>2, <3>4 DEF Overlapped, workOverlaps, Comparable
  <2> QED
    BY <2>2, <2>3, <2>4 DEF WorkShielded
<1>6. ASSUME NEW s \in Sessions, NEW p \in proposals, NEW approve \in BOOLEAN,
             Decide(s, p, approve)
      PROVE  WorkShielded
  <2>1. CASE ~approve
    BY <1>1, <1>6, <2>1 DEF Decide, Label, Writes
  <2>2. ASSUME approve, NEW d \in workClaims, Inside(step'.place, Place(d.path, d.sel))
        PROVE  FALSE
    <3>1. step'.place = p.place /\ ~Overlapped(p.at.path, p.at.sel)
      BY <1>6, <2>2 DEF Decide, Label, Open
    <3>2. p.at.path \in Paths /\ p.place.path \in Paths /\ d.path \in Paths
      BY DEF ClaimsInv, TypeOK, ProposalType, Places, workClaims, ClaimType
    <3>3. Within(p.place.path, d.path) /\ Within(p.place.path, p.at.path)
      BY <2>2, <3>1 DEF Inside, Place, ProposalsWithin
    <3>4. Comparable(p.at.path, d.path)
      BY <3>2, <3>3, WithinChain
    <3>5. \A q \in DOMAIN p.at.sel : q \in DOMAIN p.place.sel
      BY DEF ProposalsWithin, ScopeSelections
    <3>6. Agree(d.sel, p.at.sel)
      BY <2>2, <3>1, <3>5 DEF Inside, Place, Agree, ProposalsWithin
    <3> QED
      BY <3>1, <3>4, <3>6 DEF Overlapped, workOverlaps
  <2> QED
    BY <2>1, <2>2 DEF WorkShielded
<1>7. ASSUME NEW s \in Sessions, NEW id \in ClaimIds, NEW path \in Paths,
             NEW sel \in ScopeSelections(path),
             Claim(s, id, path, sel) \/ CompleteTask(s, id, path, sel)
      PROVE  WorkShielded
  BY <1>1, <1>7 DEF Claim, CompleteTask, AskEvaluation, AskOwner, Label, Writes
<1>8. ASSUME NEW s \in Sessions, NEW id \in ClaimIds, Renew(s, id) \/ Release(s, id)
      PROVE  WorkShielded
  BY <1>1, <1>8 DEF Renew, Release, Label, Writes
<1>9. ASSUME NEW s \in Sessions, NEW path \in Paths, NEW sel \in Selections,
             Complete(s, path, sel)
      PROVE  WorkShielded
  BY <1>1, <1>9 DEF Complete, AskEvaluation, AskOwner, Label, Writes
<1>10. CASE Host
  <2>1. step'.kind \in {"evaluate", "idle"}
    <3>1. ASSUME NEW e \in evals, Evaluate(e) PROVE step'.kind \in {"evaluate", "idle"}
      BY <3>1 DEF Evaluate, Idle, Label
    <3>2. ASSUME step' = Idle PROVE step'.kind \in {"evaluate", "idle"}
      BY <3>2 DEF Idle
    <3> QED
      BY <1>10, <3>1, <3>2 DEF Host, SetMember, RemoveMember, Tick, Crash
  <2> QED
    BY <1>1, <2>1 DEF Writes
<1> QED
  BY <1>2, <1>4, <1>5, <1>6, <1>7, <1>8, <1>9, <1>10 DEF Next, WorkEvent, OtherEvent

\* Claimed work is changed through an event by its claim's holder alone.
THEOREM Shielded == Spec => ClaimsShieldWork
<1>1. Init => ProposalsWithin
  BY DEF Init, ProposalsWithin
<1>2. Spec => []ProposalsWithin
  BY <1>1, ClaimsInvariant, ProposalsStep, PTL DEF Spec
<1> QED
  BY <1>2, ClaimsInvariant, ShieldStep, PTL DEF Spec, ClaimsShieldWork

-----------------------------------------------------------------------------
(* Scoped work *)

\* What claim id was granted for, and to whom, covers the place.
Covered(gs, id, s, at) ==
    \E g \in gs : g.id = id /\ g.session = s /\ Inside(at, Place(g.path, g.sel))

\* An evaluation that waits was asked for within the claim it names.
EvalsCovered == \A e \in evals : e.claim # NoClaim => Covered(granted, e.claim, e.by, e.place)

\* The session's claim was granted to it, for that task.
LEMMA ActiveCovers ==
    ASSUME ClaimsInv, NEW s \in Sessions, NEW c \in Active(s)
    PROVE  /\ Covered(granted, c.id, s, Place(c.path, c.sel))
           /\ \A id, path, sel : ScopedTo(c, s, id, path, sel) => c.id = id /\ Covered(granted, id, s, Place(path, sel))
<1>1. c \in workClaims /\ c \in ClaimType /\ c.session = s
  BY LiveType DEF ClaimsInv
<1>2. PICK g \in granted : g.id = c.id /\ g.session = s /\ g.path = c.path /\ g.sel = c.sel
  BY <1>1 DEF ClaimsInv, IdsGranted, workClaims
<1>3. c.path \in Paths
  BY <1>1 DEF ClaimType
<1>4. Inside(Place(c.path, c.sel), Place(g.path, g.sel))
  BY <1>2, <1>3, PathsAssumption DEF Inside, Place, Agree, Within
<1>5. ASSUME NEW id, NEW path, NEW sel, ScopedTo(c, s, id, path, sel)
      PROVE  c.id = id /\ Inside(Place(path, sel), Place(g.path, g.sel))
  BY <1>2, <1>5 DEF ScopedTo, Inside, Place, Agree
<1> QED
  BY <1>2, <1>4, <1>5 DEF Covered

\* Grants stay, and so does what they cover.
LEMMA CoveredStays ==
    ASSUME NEW gs, NEW more, gs \subseteq more, NEW id, NEW s, NEW at, Covered(gs, id, s, at)
    PROVE  Covered(more, id, s, at)
  BY DEF Covered

\* Making a version stale changes nothing else of an evaluation that waits.
LEMMA StaleKeeps ==
    ASSUME NEW at, NEW es \in SUBSET EvalType
    PROVE  /\ \A e \in Stale(es, at) : \E f \in es : e.claim = f.claim /\ e.by = f.by /\ e.place = f.place
           /\ \A e \in StaleAbove(es, at) : \E f \in es : e.claim = f.claim /\ e.by = f.by /\ e.place = f.place
  BY DEF Stale, StaleAbove, EvalType

\* What the step names is within the claim it names, and so are the evaluations that
\* wait after it.
StepCovered ==
    /\ step'.claim # NoClaim => Covered(granted', step'.claim, step'.by, step'.place)
    /\ \A e \in evals' : \/ \E f \in evals : e.claim = f.claim /\ e.by = f.by /\ e.place = f.place
                         \/ e.claim = step'.claim /\ e.by = step'.by /\ e.place = step'.place

\* An event within a claim.
LEMMA ScopedStep ==
    ASSUME ClaimsInv, NEW s \in Sessions, NEW id \in ClaimIds, NEW path \in Paths,
           NEW sel \in ScopeSelections(path),
           \/ SubmitTask(s, id, path, sel) \/ InputTask(s, id, path, sel) \/ CompleteTask(s, id, path, sel)
    PROVE  StepCovered
<1>1. PICK c \in Active(s) :
         /\ ScopedTo(c, s, id, path, sel)
         /\ \E place \in {Place(path, sel), Place(c.path, c.sel)}, kind \in {"submit", "propose", "input", "complete", "request"} :
                step' = Label(kind, s, id, place)
         /\ \/ \E at : evals' = Stale(evals, at) \/ evals' = StaleAbove(evals, at)
            \/ \E a, b : evals' = Stale(Stale(evals, a), b) \/ evals' = StaleAbove(Stale(evals, a), b)
            \/ evals' = evals \cup {[by |-> s, claim |-> id, place |-> step'.place, valid |-> TRUE]}
  <2>1. CASE SubmitTask(s, id, path, sel)
    BY <2>1 DEF SubmitTask
  <2>2. CASE InputTask(s, id, path, sel)
    BY <2>2 DEF InputTask
  <2>3. CASE CompleteTask(s, id, path, sel)
    BY <2>3 DEF CompleteTask, AskEvaluation, AskOwner, Label
  <2> QED
    BY <2>1, <2>2, <2>3
<1>2. granted' = granted
  BY DEF SubmitTask, InputTask, CompleteTask
<1>3. step'.claim = id /\ step'.by = s /\ Covered(granted, id, s, step'.place)
  BY <1>1, ActiveCovers DEF Label, ScopedTo
<1>4. evals \in SUBSET EvalType
  BY DEF ClaimsInv, TypeOK
<1>5. \A e \in evals' : \/ \E f \in evals : e.claim = f.claim /\ e.by = f.by /\ e.place = f.place
                        \/ e.claim = id /\ e.by = s /\ e.place = step'.place
  <2>1. CASE \E at : evals' = Stale(evals, at) \/ evals' = StaleAbove(evals, at)
    BY <1>4, <2>1, StaleKeeps
  <2>2. CASE \E a, b : evals' = Stale(Stale(evals, a), b) \/ evals' = StaleAbove(Stale(evals, a), b)
    <3>1. PICK a, b : evals' = Stale(Stale(evals, a), b) \/ evals' = StaleAbove(Stale(evals, a), b)
      BY <2>2
    <3>2. Stale(evals, a) \in SUBSET EvalType
      BY <1>4, StaleType
    <3>3. \A e \in evals' : \E f \in Stale(evals, a) : e.claim = f.claim /\ e.by = f.by /\ e.place = f.place
      BY <3>1, <3>2, StaleKeeps
    <3>4. \A e \in Stale(evals, a) : \E f \in evals : e.claim = f.claim /\ e.by = f.by /\ e.place = f.place
      BY <1>4, StaleKeeps
    <3> QED
      BY <3>3, <3>4
  <2>3. CASE evals' = evals \cup {[by |-> s, claim |-> id, place |-> step'.place, valid |-> TRUE]}
    BY <2>3
  <2> QED
    BY <1>1, <2>1, <2>2, <2>3
<1> QED
  BY <1>2, <1>3, <1>5 DEF StepCovered

\* An evaluation that is stale, or asked for outside any claim, keeps the others.
LEMMA EvalsKept ==
    ASSUME ClaimsInv, step'.claim = NoClaim,
           \/ \E at : evals' = Stale(evals, at) \/ evals' = StaleAbove(evals, at)
           \/ \E s, place : AskEvaluation(s, NoClaim, place)
           \/ evals' \subseteq evals
    PROVE  StepCovered
<1>1. evals \in SUBSET EvalType
  BY DEF ClaimsInv, TypeOK
<1>2. CASE \E at : evals' = Stale(evals, at) \/ evals' = StaleAbove(evals, at)
  BY <1>1, <1>2, StaleKeeps DEF StepCovered
<1>3. CASE \E s, place : AskEvaluation(s, NoClaim, place)
  <2>1. PICK s, place : AskEvaluation(s, NoClaim, place)
    BY <1>3
  <2>2. step'.by = s /\ step'.place = place
    BY <2>1 DEF AskEvaluation, Label
  <2> QED
    BY <2>1, <2>2 DEF AskEvaluation, StepCovered
<1>4. CASE evals' \subseteq evals
  BY <1>4 DEF StepCovered
<1> QED
  BY <1>2, <1>3, <1>4

\* Taking, renewing and giving back a claim name the claim, at its task.
LEMMA WorkStep ==
    ASSUME ClaimsInv, NEW s \in Sessions, NEW id \in ClaimIds,
           \/ Renew(s, id) \/ Release(s, id)
           \/ \E path \in Paths : \E sel \in ScopeSelections(path) : Claim(s, id, path, sel)
    PROVE  StepCovered
<1>1. evals' = Stale(evals, Root) /\ evals \in SUBSET EvalType
  BY DEF Renew, Release, Claim, ClaimsInv, TypeOK
<1>2. CASE Renew(s, id) \/ Release(s, id)
  <2>1. PICK c \in Active(s), kind \in {"renew", "release"} :
           c.id = id /\ step' = Label(kind, s, id, Place(c.path, c.sel)) /\ granted' = granted
    BY <1>2 DEF Renew, Release
  <2>2. Covered(granted', id, s, step'.place) /\ step'.claim = id /\ step'.by = s
    BY <2>1, ActiveCovers DEF Label
  <2> QED
    BY <1>1, <2>2, StaleKeeps DEF StepCovered
<1>3. CASE \E path \in Paths : \E sel \in ScopeSelections(path) : Claim(s, id, path, sel)
  <2>1. PICK path \in Paths : \E sel \in ScopeSelections(path) : Claim(s, id, path, sel)
    BY <1>3
  <2>2. PICK sel \in ScopeSelections(path) : Claim(s, id, path, sel)
    BY <2>1
  <2> DEFINE g == [id |-> id, session |-> s, path |-> path, sel |-> sel]
  <2>3. g \in granted' /\ step' = Label("claim", s, id, Place(path, sel))
    BY <2>2 DEF Claim
  <2>4. g.id = id /\ g.session = s /\ Inside(Place(path, sel), Place(g.path, g.sel))
    BY PathsAssumption DEF Inside, Place, Within, Agree
  <2>5. Covered(granted', id, s, step'.place) /\ step'.claim = id /\ step'.by = s
    BY <2>3, <2>4 DEF Covered, Label
  <2> QED
    BY <1>1, <2>5, StaleKeeps DEF StepCovered
<1> QED
  BY <1>2, <1>3

LEMMA EveryStepCovered ==
    ClaimsInv /\ EvalsCovered /\ Next => StepCovered /\ granted \subseteq granted'
<1> SUFFICES ASSUME ClaimsInv, EvalsCovered, Next PROVE StepCovered /\ granted \subseteq granted'
  OBVIOUS
<1>1. ASSUME NEW s \in Sessions, WorkEvent(s) PROVE StepCovered /\ granted \subseteq granted'
  <2>1. granted \subseteq granted'
    BY <1>1 DEF WorkEvent, Claim, SubmitTask, InputTask, CompleteTask, Renew, Release
  <2> QED
    BY <1>1, <2>1, ScopedStep, WorkStep DEF WorkEvent
<1>2. ASSUME NEW s \in Sessions, OtherEvent(s) PROVE StepCovered /\ granted \subseteq granted'
  <2>1. ASSUME NEW path \in Paths, NEW sel \in Selections,
               \/ Submit(s, path, sel) \/ Complete(s, path, sel) \/ Input(s, path, sel) \/ CreateBranch(s, path, sel)
        PROVE  StepCovered /\ granted' = granted
    <3>1. step'.claim = NoClaim /\ granted' = granted
      BY <2>1 DEF Submit, Complete, Input, CreateBranch, AskEvaluation, AskOwner, Label
    <3>2. CASE Submit(s, path, sel)
      BY <3>1, <3>2, EvalsKept DEF Submit
    <3>3. CASE Complete(s, path, sel)
      BY <3>1, <3>3, EvalsKept DEF Complete, AskOwner
    <3>4. CASE Input(s, path, sel) \/ CreateBranch(s, path, sel)
      BY <3>1, <3>4, EvalsKept DEF Input, CreateBranch
    <3> QED
      BY <2>1, <3>1, <3>2, <3>3, <3>4
  <2>2. ASSUME NEW p \in proposals, NEW approve \in BOOLEAN, Decide(s, p, approve)
        PROVE  StepCovered /\ granted' = granted
    <3>1. step'.claim = NoClaim /\ granted' = granted
      BY <2>2 DEF Decide, Label
    <3> QED
      BY <2>2, <3>1, EvalsKept DEF Decide
  <2> QED
    BY <1>2, <2>1, <2>2 DEF OtherEvent
<1>3. CASE Host
  <2>1. ASSUME NEW e \in evals, Evaluate(e) PROVE StepCovered
    <3>1. CASE step' = Idle
      <4>1. step'.claim = NoClaim /\ evals' \subseteq evals
        BY <2>1, <3>1 DEF Evaluate, Idle, Label
      <4> QED
        BY <4>1, EvalsKept
    <3>2. CASE step' = Label("evaluate", e.by, e.claim, e.place) /\ evals' \subseteq Stale(evals, e.place)
      <4>1. \A f \in evals' : \E h \in evals : f.claim = h.claim /\ f.by = h.by /\ f.place = h.place
        BY <3>2, StaleKeeps DEF ClaimsInv, TypeOK
      <4>2. granted' = granted
        BY <2>1 DEF Evaluate
      <4>3. e.claim # NoClaim => Covered(granted, e.claim, e.by, e.place)
        BY DEF EvalsCovered
      <4> QED
        BY <3>2, <4>1, <4>2, <4>3 DEF StepCovered, Label
    <3> QED
      BY <2>1, <3>1, <3>2 DEF Evaluate
  <2>2. ASSUME step' = Idle, UNCHANGED evals PROVE StepCovered
    BY <2>2, EvalsKept DEF Idle
  <2>3. granted' = granted
    BY <1>3 DEF Host, Evaluate, SetMember, RemoveMember, Tick, Crash
  <2> QED
    BY <1>3, <2>1, <2>2, <2>3 DEF Host, SetMember, RemoveMember, Tick, Crash
<1> QED
  BY <1>1, <1>2, <1>3 DEF Next

LEMMA EvalsCoveredKept == ClaimsInv /\ EvalsCovered /\ [Next]_vars => EvalsCovered'
<1> SUFFICES ASSUME ClaimsInv, EvalsCovered, [Next]_vars PROVE EvalsCovered'
  OBVIOUS
<1>1. CASE Next
  <2>1. StepCovered /\ granted \subseteq granted'
    BY <1>1, EveryStepCovered
  <2> SUFFICES ASSUME NEW e \in evals', e.claim # NoClaim
               PROVE  Covered(granted', e.claim, e.by, e.place)
    BY DEF EvalsCovered
  <2>2. CASE \E f \in evals : e.claim = f.claim /\ e.by = f.by /\ e.place = f.place
    BY <2>1, <2>2, CoveredStays DEF EvalsCovered
  <2>3. CASE e.claim = step'.claim /\ e.by = step'.by /\ e.place = step'.place
    BY <2>1, <2>3 DEF StepCovered
  <2> QED
    BY <2>1, <2>2, <2>3 DEF StepCovered
<1>2. CASE UNCHANGED vars
  BY <1>2 DEF vars, EvalsCovered
<1> QED
  BY <1>1, <1>2

\* Whatever session lost its claim and took another, an event that names a claim acts
\* for whom that claim was granted to, within its task, and so does the evaluation that
\* was asked for and runs later.
THEOREM ScopedToItsTask == Spec => ScopedWorkStaysInTask
<1>1. Init => EvalsCovered
  BY DEF Init, EvalsCovered
<1>2. Spec => []EvalsCovered
  BY <1>1, ClaimsInvariant, EvalsCoveredKept, PTL DEF Spec
<1>3. ASSUME ClaimsInv, EvalsCovered, [Next]_vars
      PROVE  [step'.claim # NoClaim =>
                \E g \in granted' :
                   /\ g.id = step'.claim
                   /\ g.session = step'.by
                   /\ Inside(step'.place, Place(g.path, g.sel))]_vars
  BY <1>3, EveryStepCovered DEF StepCovered, Covered
<1> QED
  BY <1>2, <1>3, ClaimsInvariant, PTL DEF Spec, ScopedWorkStaysInTask

\* A step drops a live claim only by its holder's release or submission, which names it.
LEMMA DroppedByItsHolder ==
    ASSUME ClaimsInv, [Next]_vars, NEW c \in workClaims, \A d \in claims' : d.id # c.id
    PROVE  step'.claim = c.id /\ step'.kind \in {"submit", "propose", "release"}
<1>1. c \in claims /\ c \in [id : ClaimIds, session : Sessions, path : Paths, sel : Selections, left : 0 .. Lease]
  BY DEF workClaims, ClaimsInv, TypeOK, ClaimType
<1>2. ASSUME claims' = claims PROVE FALSE
  BY <1>1, <1>2
<1>3. ASSUME NEW s \in Sessions, NEW id \in ClaimIds, NEW path \in Paths,
             NEW sel \in ScopeSelections(path), Claim(s, id, path, sel)
      PROVE  FALSE
  BY <1>3 DEF Claim
<1>4. ASSUME NEW s \in Sessions, NEW id \in ClaimIds, Renew(s, id) PROVE FALSE
  <2>1. (IF c.id = id THEN [c EXCEPT !.left = Lease] ELSE c) \in claims'
    BY <1>4 DEF Renew
  <2>2. (IF c.id = id THEN [c EXCEPT !.left = Lease] ELSE c).id = c.id
    BY <1>1
  <2> QED
    BY <2>1, <2>2
<1>5. ASSUME NEW s \in Sessions, NEW id \in ClaimIds, Release(s, id)
      PROVE  step'.claim = c.id /\ step'.kind = "release"
  BY <1>5 DEF Release, Label
<1>6. ASSUME NEW s \in Sessions, NEW id \in ClaimIds, NEW path \in Paths,
             NEW sel \in ScopeSelections(path), SubmitTask(s, id, path, sel)
      PROVE  step'.claim = c.id /\ step'.kind \in {"submit", "propose"}
  <2>1. PICK d \in Active(s) : d.id = id /\ claims' = workClaims \ {d}
    BY <1>6 DEF SubmitTask, ScopedTo
  <2>2. c = d
    BY <2>1
  <2> QED
    BY <1>6, <2>1, <2>2 DEF SubmitTask, Label
<1>7. ASSUME NEW s \in Sessions, NEW id \in ClaimIds, NEW path \in Paths,
             NEW sel \in ScopeSelections(path), InputTask(s, id, path, sel) \/ CompleteTask(s, id, path, sel)
      PROVE  FALSE
  BY <1>2, <1>7 DEF InputTask, CompleteTask
<1>8. ASSUME NEW s \in Sessions, OtherEvent(s) PROVE FALSE
  BY <1>2, <1>8 DEF OtherEvent, Submit, Complete, Input, CreateBranch, Decide
<1>9. ASSUME Tick PROVE FALSE
  <2>1. [c EXCEPT !.left = IF @ > 0 THEN @ - 1 ELSE 0] \in claims'
    BY <1>1, <1>9 DEF Tick
  <2>2. [c EXCEPT !.left = IF @ > 0 THEN @ - 1 ELSE 0].id = c.id
    BY <1>1
  <2> QED
    BY <2>1, <2>2
<1>10. CASE Host
  BY <1>2, <1>9, <1>10 DEF Host, Evaluate, SetMember, RemoveMember, Crash
<1>11. CASE UNCHANGED vars
  BY <1>2, <1>11 DEF vars
<1> QED
  BY <1>3, <1>4, <1>5, <1>6, <1>7, <1>8, <1>10, <1>11 DEF Next, WorkEvent

\* A live claim ends by its holder's submission or release, or by running out: nothing
\* another worker does drops it.
THEOREM EndsByItsHolder == Spec => ClaimEndsByItsHolder
<1>1. ASSUME ClaimsInv, [Next]_vars
      PROVE  [\A c \in workClaims :
                (\A d \in claims' : d.id # c.id) =>
                   /\ step'.claim = c.id
                   /\ step'.kind \in {"submit", "propose", "release"}]_vars
  BY <1>1, DroppedByItsHolder
<1> QED
  BY <1>1, ClaimsInvariant, PTL DEF Spec, ClaimEndsByItsHolder
=============================================================================
