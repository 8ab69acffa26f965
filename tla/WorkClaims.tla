----------------------------- MODULE WorkClaims -----------------------------
(***************************************************************************)
(* Exclusive, leased claims on task subtrees, and every event of the       *)
(* dispatcher that a claim gates: shared/sync/work-claims.ts and dispatch  *)
(* in shared/sync/events.ts, run one event at a time under the account's   *)
(* lock by backend/sync/events.ts, with the evaluation that a `complete`   *)
(* event asks for run later under the lock again                           *)
(* (backend/sync/evaluation.ts).                                           *)
(*                                                                         *)
(* A claim's lease is kept as the time it has LEFT (expiresAt - now): zero *)
(* is an expired claim that the next save drops.  A revision check         *)
(* (`expected`) that the client can satisfy by reading just before is no   *)
(* guard; the one that spans two critical sections, the version a pending  *)
(* evaluation was asked for, is kept.  A submission's batch of changes is  *)
(* one change at one place.                                                *)
(***************************************************************************)
EXTENDS Integers, Sequences, FiniteSets

CONSTANTS
    Paths,       \* the scopes of the tree, sequences of node ids
    Tasks,       \* the paths whose row is a task or an unmet requirement
    Choices,     \* the paths whose node is a choice between branches
    Names,       \* branch names
    Main,        \* the branch selected when nobody selects another
    Sessions,    \* worker sessions: a peer at an attachment, told apart by session id
    Owners,      \* the sessions that act as the account's owner
    Mcp,         \* the sessions that connect through MCP
    Peers,       \* the invited peers
    PeerOf,      \* the peer of each session
    Attachment,  \* the path each session is attached at
    ClaimIds,    \* claim ids, never reused (newId)
    NoClaim,     \* the id carried by an event outside any claim
    Nobody,      \* the actor of a step no session takes
    Lease,       \* WORK_LEASE_MS in clock ticks
    MaxClaims,   \* live claims a store keeps at most (256)
    MaxPending,  \* bound: evaluations waiting for the lock
    MaxProposals,\* bound: open submissions
    MemberPaths, \* bound: the nodes the owner gives peers entries on
    Grants       \* the capability sets an owner hands out, subsets of Capabilities

Capabilities == {"read", "edit", "execute"}

ASSUME PathsAssumption ==
    /\ \A p \in Paths : p \in Seq(STRING)
    /\ Tasks \subseteq Paths
    /\ Choices \subseteq Paths
    /\ MemberPaths \subseteq Paths
    /\ \A p \in Paths : \A n \in 0 .. Len(p) : SubSeq(p, 1, n) \in Paths
ASSUME SessionsAssumption ==
    /\ Owners \subseteq Sessions
    /\ Mcp \subseteq Sessions
    /\ PeerOf \in [Sessions \ Owners -> Peers]
    /\ Attachment \in [Sessions -> Paths]
    /\ Nobody \notin Sessions
ASSUME BoundsAssumption ==
    /\ Main \in Names
    /\ NoClaim \notin ClaimIds
    /\ Lease \in Nat \ {0}
    /\ MaxClaims \in Nat \ {0}
    /\ Grants \subseteq SUBSET Capabilities

VARIABLES
    claims,      \* the claims the root's execute row records, expired ones included
    granted,     \* what clients were told: every claim ever answered, without its lease
    member,      \* each peer's member entries: a partial function from paths to capabilities
    done,        \* the task places marked done
    proposals,   \* open submissions left by peers
    evals,       \* evaluations dispatched and not yet run
    crashed,     \* sessions whose worker is gone for good
    step         \* what the last step did, to whom: read by the action properties

vars == <<claims, granted, member, done, proposals, evals, crashed, step>>

----------------------------------------------------------------------------
(* The tree, branches and overlap *)

\* `path` lies at or below `root`.
Within(path, root) ==
    /\ Len(root) <= Len(path)
    /\ \A i \in 1 .. Len(root) : path[i] = root[i]

\* The choices a path passes through, and the selections made at them.
On(path) == {q \in Choices : Within(path, q)}
Selections == UNION {[D -> Names] : D \in SUBSET Choices}
ScopeSelections(path) == [On(path) -> Names]
Only(sel, path) == [q \in On(path) |-> sel[q]]

Agree(a, b) == \A q \in DOMAIN a \cap DOMAIN b : a[q] = b[q]
Places == [path : Paths, sel : Selections]
Place(path, sel) == [path |-> path, sel |-> sel]

Comparable(p, q) == Within(p, q) \/ Within(q, p)
\* Mutant: a claim above the path is not seen.
OverlapsBelowOnly(c, path, sel) == Within(c.path, path) /\ Agree(c.sel, sel)

workOverlaps(c, path, sel) == Comparable(path, c.path) /\ Agree(c.sel, sel)

\* `at` is part of the content of `root`: at or below it, on its branch.
Inside(at, root) == Within(at.path, root.path) /\ Agree(at.sel, root.sel)

----------------------------------------------------------------------------
(* Claims and capabilities *)

workClaims == {c \in claims : c.left > 0}
\* Mutant: only an MCP session's claim is looked up.
ActiveOfMcp(s) == {c \in workClaims : c.session = s /\ s \in Mcp}

Active(s) == {c \in workClaims : c.session = s}
\* Mutant: only a claim at or above the path counts, not one inside it.
OverlappedAbove(path, sel) ==
    \E c \in workClaims : Within(path, c.path) /\ Agree(c.sel, sel)

Overlapped(path, sel) == \E c \in workClaims : workOverlaps(c, path, sel)

\* The member entries a session meets from its attachment down to `path`.
Entries(s, path) ==
    {q \in DOMAIN member[PeerOf[s]] : Within(path, q) /\ Within(q, Attachment[s])}
Holds(s, path, cap) ==
    s \notin Owners =>
       /\ path \in DOMAIN member[PeerOf[s]]
       /\ cap \in member[PeerOf[s]][path]
EveryEntryHolds(s, path, cap) ==
    s \notin Owners => \A q \in Entries(s, path) : cap \in member[PeerOf[s]][q]
\* The nearest explicit entry decides below the attachment.
Inherited(s, path, cap) ==
    s \notin Owners =>
       \E q \in Entries(s, path) :
          /\ \A r \in Entries(s, path) : Len(r) <= Len(q)
          /\ cap \in member[PeerOf[s]][q]
\* edit and execute include reading; an entry with nothing on it ends access.
Resolvable(s, path) ==
    /\ Within(path, Attachment[s])
    /\ s \notin Owners =>
          /\ Attachment[s] \in DOMAIN member[PeerOf[s]]
          /\ \A q \in Entries(s, path) : member[PeerOf[s]][q] # {}

----------------------------------------------------------------------------
(* The steps' labels and what they make stale *)

Idle == [kind |-> "idle", by |-> Nobody, claim |-> NoClaim,
         place |-> Place(<<>>, <<>>)]
Label(kind, s, id, place) == [kind |-> kind, by |-> s, claim |-> id, place |-> place]
\* The kinds of step that change the content at their place.
Writes == {"submit", "merge", "input", "branch", "evaluate"}

\* A node's value version covers everything inside it.
Stale(es, at) == {[e EXCEPT !.valid = @ /\ ~Inside(at, e.place)] : e \in es}
\* A submission hangs on its node's identity, which only the nodes above contain.
StaleAbove(es, at) ==
    {[e EXCEPT !.valid = @ /\ ~(Inside(at, e.place) /\ at.path # e.place.path)] : e \in es}
Root == Place(<<>>, [q \in On(<<>>) |-> Main])

\* A change may tick a task done, open it again, or leave that alone.
DoneAfter(place) ==
    IF place.path \in Tasks
    THEN {done, done \cup {place}, done \ {place}}
    ELSE {done}

(* Work events: claim, renew, release *)

\* A session's event reaches the dispatcher and its attachment can be read.
Attached(s) == s \notin crashed /\ Resolvable(s, Attachment[s])

\* An MCP session that holds a claim may only use its task tools.
Unscoped(s) == Attached(s) /\ ~(s \in Mcp /\ Active(s) # {})

MayWork(s, path) ==
    /\ Resolvable(s, path)
    /\ EveryEntryHolds(s, path, "execute")
    /\ EveryEntryHolds(s, path, "edit")

Outstanding(s, path, sel) ==
    /\ path \in Tasks
    /\ \A q \in Tasks :
          Within(path, q) /\ Within(q, Attachment[s]) /\ q # Attachment[s]
             => Place(q, Only(sel, q)) \notin done

Claim(s, id, path, sel) ==
    /\ Attached(s)
    /\ MayWork(s, path)
    /\ Active(s) = {}
    /\ path # Attachment[s]
    /\ sel \in ScopeSelections(path)
    /\ Outstanding(s, path, sel)
    /\ ~Overlapped(path, sel)
    /\ Cardinality(workClaims) < MaxClaims
    /\ id \notin {g.id : g \in granted}
    /\ claims' = workClaims \cup
          {[id |-> id, session |-> s, path |-> path, sel |-> sel, left |-> Lease]}
    /\ granted' = granted \cup {[id |-> id, session |-> s, path |-> path, sel |-> sel]}
    /\ evals' = Stale(evals, Root)
    /\ step' = Label("claim", s, id, Place(path, sel))
    /\ UNCHANGED <<member, done, proposals, crashed>>

\* Mutant: a renewal extends every claim.
RenewAll(s, id) ==
    /\ Attached(s)
    /\ \E c \in Active(s) :
          /\ c.id = id
          /\ MayWork(s, c.path)
          /\ claims' = {[d EXCEPT !.left = Lease] : d \in workClaims}
          /\ step' = Label("renew", s, id, Place(c.path, c.sel))
    /\ evals' = Stale(evals, Root)
    /\ UNCHANGED <<granted, member, done, proposals, crashed>>

\* Mutant: a renewal adds a lease to what is left of the last one.
RenewAddsUp(s, id) ==
    /\ Attached(s)
    /\ \E c \in Active(s) :
          /\ c.id = id
          /\ MayWork(s, c.path)
          /\ claims' = {IF d.id = id THEN [d EXCEPT !.left = @ + Lease] ELSE d : d \in workClaims}
          /\ step' = Label("renew", s, id, Place(c.path, c.sel))
    /\ evals' = Stale(evals, Root)
    /\ UNCHANGED <<granted, member, done, proposals, crashed>>

Renew(s, id) ==
    /\ Attached(s)
    /\ \E c \in Active(s) :
          /\ c.id = id
          /\ MayWork(s, c.path)
          /\ claims' = {IF d.id = id THEN [d EXCEPT !.left = Lease] ELSE d : d \in workClaims}
          /\ step' = Label("renew", s, id, Place(c.path, c.sel))
    /\ evals' = Stale(evals, Root)
    /\ UNCHANGED <<granted, member, done, proposals, crashed>>

\* Mutant: a release drops every claim of the peers (or of the owner), other sessions' included.
ReleasePeer(s, id) ==
    /\ Attached(s)
    /\ \E c \in Active(s) :
          /\ c.id = id
          /\ claims' = {d \in workClaims : (d.session \in Owners) # (s \in Owners)}
          /\ step' = Label("release", s, id, Place(c.path, c.sel))
    /\ evals' = Stale(evals, Root)
    /\ UNCHANGED <<granted, member, done, proposals, crashed>>

Release(s, id) ==
    /\ Attached(s)
    /\ \E c \in Active(s) :
          /\ c.id = id
          /\ claims' = workClaims \ {c}
          /\ step' = Label("release", s, id, Place(c.path, c.sel))
    /\ evals' = Stale(evals, Root)
    /\ UNCHANGED <<granted, member, done, proposals, crashed>>

----------------------------------------------------------------------------
(* Events inside a claim: the task tools *)

\* Mutant: any claim the session holds will do for any claim id.
ScopedToAny(c, s, id, path, sel) ==
    /\ s \notin crashed
    /\ Resolvable(s, Attachment[s])
    /\ c \in Active(s)
    /\ Inherited(s, c.path, "execute")
    /\ Within(path, c.path)
    /\ Resolvable(s, path)
    /\ sel = [q \in On(path) |-> IF q \in DOMAIN c.sel THEN c.sel[q] ELSE Main]

\* The event carries claim id `id`, the session's live claim is that one, its
\* capabilities are read again along the path to the task, and paths are relative to
\* the task with its branches pinned.
ScopedTo(c, s, id, path, sel) ==
    /\ s \notin crashed
    /\ Resolvable(s, Attachment[s])
    /\ c \in Active(s)
    /\ c.id = id
    /\ Resolvable(s, c.path)
    /\ Inherited(s, c.path, "execute")
    /\ Within(path, c.path)
    /\ Resolvable(s, path)
    /\ sel = [q \in On(path) |-> IF q \in DOMAIN c.sel THEN c.sel[q] ELSE Main]

\* Edit is asked of the task, then of every explicit entry below it.
MayEditBelow(s, root, path) ==
    /\ Inherited(s, root, "edit")
    /\ s \notin Owners => \A q \in Entries(s, path) : Within(q, root) /\ q # root
                             => "edit" \in member[PeerOf[s]][q]

Proposal(kind, s, at, place) ==
    [kind |-> kind, by |-> s, at |-> at, place |-> place]

\* An owner's task submission applies, a peer's waits for review; both end the claim.
SubmitTask(s, id, path, sel) ==
    \E c \in Active(s) :
       /\ ScopedTo(c, s, id, path, sel)
       /\ MayEditBelow(s, c.path, path)
       /\ claims' = workClaims \ {c}
       /\ \/ /\ s \in Owners
             /\ done' \in DoneAfter(Place(path, sel))
             /\ evals' = Stale(Stale(evals, Root), Place(path, sel))
             /\ step' = Label("submit", s, id, Place(path, sel))
             /\ UNCHANGED proposals
          \/ /\ s \notin Owners
             /\ Cardinality(proposals) < MaxProposals
             /\ proposals' = proposals \cup
                   {Proposal("changes", s, Place(c.path, c.sel), Place(path, sel))}
             /\ proposals' # proposals
             /\ evals' = StaleAbove(Stale(evals, Root), Place(c.path, c.sel))
             /\ step' = Label("propose", s, id, Place(c.path, c.sel))
             /\ UNCHANGED done
       /\ UNCHANGED <<granted, member, crashed>>

InputTask(s, id, path, sel) ==
    /\ \E c \in Active(s) :
          /\ ScopedTo(c, s, id, path, sel)
          /\ Inherited(s, c.path, "edit")
    /\ evals' = Stale(evals, Place(path, sel))
    /\ step' = Label("input", s, id, Place(path, sel))
    /\ UNCHANGED <<claims, granted, member, done, proposals, crashed>>

\* `complete` answers at once with the evaluation to run; it runs later, in Evaluate.
AskEvaluation(s, id, place) ==
    /\ Cardinality(evals) < MaxPending
    /\ evals' = evals \cup {[by |-> s, claim |-> id, place |-> place, valid |-> TRUE]}
    /\ step' = Label("complete", s, id, place)
    /\ UNCHANGED proposals
\* A peer without execute leaves the request for the owner's rules or review.
AskOwner(s, id, at, place) ==
    /\ Cardinality(proposals) < MaxProposals
    /\ Proposal("request", s, at, place) \notin proposals
    /\ proposals' = proposals \cup {Proposal("request", s, at, place)}
    /\ evals' = StaleAbove(evals, at)
    /\ step' = Label("request", s, id, at)

CompleteTask(s, id, path, sel) ==
    /\ \E c \in Active(s) :
          LET runs == IF path = c.path THEN Inherited(s, path, "execute")
                                       ELSE Holds(s, path, "execute")
          IN  /\ ScopedTo(c, s, id, path, sel)
              /\ \/ runs /\ AskEvaluation(s, id, Place(path, sel))
                 \/ /\ ~runs
                    /\ Inherited(s, c.path, "edit")
                    /\ AskOwner(s, id, Place(c.path, c.sel), Place(path, sel))
    /\ UNCHANGED <<claims, granted, member, done, crashed>>

----------------------------------------------------------------------------
(* Events outside any claim: refused where they overlap one *)

Submit(s, path, sel) ==
    LET place == Place(path, Only(sel, path))
        at    == Place(Attachment[s], Only(sel, Attachment[s]))
    IN  /\ Unscoped(s)
        /\ On(path) \subseteq DOMAIN sel
        /\ Resolvable(s, path)
        /\ ~Overlapped(path, sel)
        /\ Holds(s, Attachment[s], "edit")
        /\ MayEditBelow(s, Attachment[s], path)
        /\ \/ /\ s \in Owners
              /\ done' \in (IF path = Attachment[s] THEN {done} ELSE DoneAfter(place))
              /\ evals' = Stale(evals, place)
              /\ step' = Label("submit", s, NoClaim, place)
              /\ UNCHANGED proposals
           \/ /\ s \notin Owners
              /\ Cardinality(proposals) < MaxProposals
              /\ proposals' = proposals \cup {Proposal("changes", s, at, place)}
              /\ proposals' # proposals
              /\ evals' = StaleAbove(evals, at)
              /\ step' = Label("propose", s, NoClaim, at)
              /\ UNCHANGED done
        /\ UNCHANGED <<claims, granted, member, crashed>>

\* What complete, input, branch and decide ask before anything else.
Open(s, path, sel) ==
    /\ Unscoped(s)
    /\ Resolvable(s, path)
    /\ sel \in ScopeSelections(path)
    /\ ~Overlapped(path, sel)

Complete(s, path, sel) ==
    /\ Open(s, path, sel)
    /\ \/ Holds(s, path, "execute") /\ AskEvaluation(s, NoClaim, Place(path, sel))
       \/ /\ ~Holds(s, path, "execute")
          /\ Holds(s, Attachment[s], "edit")
          /\ AskOwner(s, NoClaim, Place(Attachment[s], Only(sel, Attachment[s])),
                      Place(path, sel))
    /\ UNCHANGED <<claims, granted, member, done, crashed>>

Input(s, path, sel) ==
    /\ Open(s, path, sel)
    /\ Holds(s, Attachment[s], "edit")
    /\ evals' = Stale(evals, Place(path, sel))
    /\ step' = Label("input", s, NoClaim, Place(path, sel))
    /\ UNCHANGED <<claims, granted, member, done, proposals, crashed>>

CreateBranch(s, path, sel) ==
    /\ Open(s, path, sel)
    /\ s \in Owners
    /\ evals' = Stale(evals, Place(path, sel))
    /\ step' = Label("branch", s, NoClaim, Place(path, sel))
    /\ UNCHANGED <<claims, granted, member, done, proposals, crashed>>

\* Deciding happens at the node that holds the submission; approving the last one
\* missing merges what was submitted, rejecting drops it.
Decide(s, p, approve) ==
    /\ p \in proposals
    /\ Open(s, p.at.path, p.at.sel)
    /\ Holds(s, p.at.path, "edit")
    /\ proposals' = proposals \ {p}
    /\ IF approve
       THEN /\ done' \in (IF p.kind = "changes" THEN DoneAfter(p.place) ELSE {done})
            /\ evals' = Stale(evals, p.place)
            /\ step' = Label("merge", s, NoClaim, p.place)
       ELSE /\ evals' = StaleAbove(evals, p.at)
            /\ step' = Label("reject", s, NoClaim, p.at)
            /\ UNCHANGED done
    /\ UNCHANGED <<claims, granted, member, crashed>>

----------------------------------------------------------------------------
(* Steps no session takes *)

\* The evaluation asked for takes the account's lock again and rechecks the version,
\* and nothing else; a stale one is refused.  The run may finish the task or not.
Evaluate(e) ==
    /\ e \in evals
    /\ \/ /\ e.valid
          /\ done' \in DoneAfter(e.place)
          /\ evals' = Stale(evals, e.place) \ {[e EXCEPT !.valid = FALSE]}
          /\ step' = Label("evaluate", e.by, e.claim, e.place)
       \/ /\ ~e.valid
          /\ evals' = evals \ {e}
          /\ step' = Idle
          /\ UNCHANGED done
    /\ UNCHANGED <<claims, granted, member, proposals, crashed>>

\* The owner adds, changes or removes a peer's entry on a node.
SetMember(p, path, caps) ==
    /\ member' = [member EXCEPT ![p] =
          [q \in DOMAIN @ \cup {path} |-> IF q = path THEN caps ELSE @[q]]]
    /\ step' = Idle
    /\ UNCHANGED <<claims, granted, done, proposals, evals, crashed>>
RemoveMember(p, path) ==
    /\ path \in DOMAIN member[p]
    /\ member' = [member EXCEPT ![p] = [q \in DOMAIN @ \ {path} |-> @[q]]]
    /\ step' = Idle
    /\ UNCHANGED <<claims, granted, done, proposals, evals, crashed>>

\* One tick of the host's clock.
Tick ==
    /\ workClaims # {}
    /\ claims' = {[c EXCEPT !.left = IF @ > 0 THEN @ - 1 ELSE 0] : c \in claims}
    /\ step' = Idle
    /\ UNCHANGED <<granted, member, done, proposals, evals, crashed>>

\* A worker dies without releasing anything.
Crash(s) ==
    /\ s \notin crashed
    /\ crashed' = crashed \cup {s}
    /\ step' = Idle
    /\ UNCHANGED <<claims, granted, member, done, proposals, evals>>

----------------------------------------------------------------------------
(* The specification *)

Init ==
    /\ claims = {}
    /\ granted = {}
    /\ member = [p \in Peers |-> <<>>]
    /\ done = {}
    /\ proposals = {}
    /\ evals = {}
    /\ crashed = {}
    /\ step = Idle

WorkEvent(s) ==
    \E id \in ClaimIds :
       \/ \E path \in Paths : \E sel \in ScopeSelections(path) :
             \/ Claim(s, id, path, sel)
             \/ SubmitTask(s, id, path, sel)
             \/ InputTask(s, id, path, sel)
             \/ CompleteTask(s, id, path, sel)
       \/ Renew(s, id)
       \/ Release(s, id)

OtherEvent(s) ==
    \/ \E path \in Paths, sel \in Selections :
          \/ Submit(s, path, sel)
          \/ Complete(s, path, sel)
          \/ Input(s, path, sel)
          \/ CreateBranch(s, path, sel)
    \/ \E p \in proposals, approve \in BOOLEAN : Decide(s, p, approve)

Host ==
    \/ \E e \in evals : Evaluate(e)
    \/ \E p \in Peers, path \in MemberPaths :
          \/ \E caps \in Grants : SetMember(p, path, caps)
          \/ RemoveMember(p, path)
    \/ Tick
    \/ \E s \in Sessions : Crash(s)

Next == Host \/ \E s \in Sessions : WorkEvent(s) \/ OtherEvent(s)

\* The clock keeps running and the account's lock is handed on in order; nothing is
\* asked of the workers.
Fairness == WF_vars(Tick)

Spec == Init /\ [][Next]_vars /\ Fairness

----------------------------------------------------------------------------
(* Properties *)

ClaimType == [id : ClaimIds, session : Sessions, path : Paths, sel : Selections,
              left : 0 .. Lease]
GrantType == [id : ClaimIds, session : Sessions, path : Paths, sel : Selections]
ProposalType == [kind : {"changes", "request"}, by : Sessions, at : Places, place : Places]
EvalType == [by : Sessions, claim : ClaimIds \cup {NoClaim}, place : Places, valid : BOOLEAN]

\* Every variable holds values of its kind; a claim never runs longer than one lease,
\* however often it is renewed.
TypeOK ==
    /\ claims \subseteq ClaimType
    /\ granted \subseteq GrantType
    /\ DOMAIN member = Peers
    /\ done \subseteq Places
    /\ proposals \subseteq ProposalType
    /\ evals \subseteq EvalType
    /\ crashed \subseteq Sessions

\* No two live claims cover a common node on a common branch, whatever expired, was
\* renewed, released or submitted in between (the overlap check at claiming, and the
\* live-claims filter that every save applies).
ExclusiveClaims ==
    \A c, d \in workClaims : c.id # d.id => ~(Comparable(c.path, d.path) /\ Agree(c.sel, d.sel))

\* A worker session never holds two live claims, so `active` is well defined.
OneClaimPerSession ==
    \A c, d \in workClaims : c.session = d.session => c = d

\* A step that changes content inside a live claim names that claim.
WorkShielded ==
    step'.kind \in Writes \ {"evaluate"} =>
       \A c \in workClaims :
          Inside(step'.place, Place(c.path, c.sel)) => step'.claim = c.id

\* While a task is claimed, only the claim's holder, naming that claim, changes
\* anything inside it through an event: not another worker, not the owner's direct
\* edit, not a submission approved above it.  The deferred evaluation is apart.
ClaimsShieldWork == [][WorkShielded]_vars

\* An event that names a claim acts for the session that claim was granted to and
\* stays inside the task it was granted for, even when the session has since lost it
\* and claimed another ("never falls back to a broader attachment").
ScopedWorkStaysInTask ==
    [][step'.claim # NoClaim =>
          \E g \in granted' :
             /\ g.id = step'.claim
             /\ g.session = step'.by
             /\ Inside(step'.place, Place(g.path, g.sel))]_vars

\* A live claim ends only by its holder's submission or release or by running out:
\* no claim, renewal, release or submission of another worker drops it.
ClaimEndsByItsHolder ==
    [][\A c \in workClaims :
          (\A d \in claims' : d.id # c.id) =>
             /\ step'.claim = c.id
             /\ step'.kind \in {"submit", "propose", "release"}]_vars

\* An evaluation that was asked for runs only while no other worker's live claim
\* covers part of its node: the exclusivity the claim tool promises ("Exclusively
\* claim an outstanding task subtree", mcp-adapter.ts), and what `complete` checks
\* when it is dispatched.
EvaluationRespectsClaims ==
    [][step'.kind = "evaluate" =>
          \A c \in workClaims :
             workOverlaps(c, step'.place.path, step'.place.sel) => c.session = step'.by]_vars

\* A dead worker's claim runs out, whatever the other workers renew.
CrashedWorkIsFreed ==
    \A s \in Sessions : s \in crashed ~> Active(s) = {}
=============================================================================
