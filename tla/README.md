# Verification of fos-mono

TLA+ models of the parts of fos-mono where several actors change one state: workers that claim tasks, devices that
exchange nodes with an account, servers that save accounts, runs of an evaluation, people who approve, invites, token
balances. TLC checks the models on small instances, TLAPS proves the main properties for every instance.

Paths below are relative to `src/`.

## 1. The system and its parts

A user's data is one content-addressed tree (`shared/dag-implementation`, `shared/sync/graph.ts`). The account server
(`backend`) keeps an immutable set of nodes and one root per account in a database. Browsers and desktops (`web`,
`desktop`) keep their own tree and exchange it with the account node by node. Invited peers, MCP clients and visitors
change an account through events and submissions that the server applies for them.

For each part: its state, its operations, whom it talks to, what is hard about it, and what makes it correct.

| Part | State | Operations and interactions | What is hard, and what must hold | Here |
|---|---|---|---|---|
| **Work claims and event dispatch** `shared/sync/work-claims.ts`, `shared/sync/events.ts`, `backend/sync/events.ts` | the list of claims on the root's execute row, each with a session, a path, branch selections and an expiry | `work` (claim, renew, release), `submit`, `branch`, `input`, `complete`, `decide`, `invite`, each under the account's lock; `complete` asks the evaluation service for a run later | several workers, sessions that share a credential, leases that run out in between, stale claim ids, nested and branched tasks. Claims do not overlap; only the holder changes claimed work; a dead worker's task comes free | `WorkClaims` |
| **Node exchange and sync** `shared/sync/node-sync.ts`, `node-provider.ts`, `web/src/app.ts` (syncNow, syncNodes) | per device and node: the local shape, the pair of shapes last agreed on; the provider's node | a round: ask, push the difference, merge the answer with what was edited meanwhile; the provider merges under its lock and shows each device its mask | rounds that break off, updates that arrive late, edits under way, two devices. No local change replaced, no row lost that nobody deleted, devices end up equal or in conflict | `NodeShapes`, `NodeMerge`, `NodeSync` |
| **Account store and its lock** `backend/sync/accountStore.ts`, `backend/util.ts`, `backend/sync/storeVersion.ts` | per server a chain of promises per account; per loaded tree the root it came from; in the database one root per account | `withUserLock`, nested locks, load, save with compare-and-swap | order and cleanup of the chain, failures, servers that stop, several servers over one database, saves to two accounts. No committed change overwritten; one call at a time; no deadlock | `AccountStore`, `AccountLedger` |
| **Node provider and relay** `backend/sync/provideNode.ts`, `nodeRelay.ts`, `ws.ts` | pending requests per device connection | a node held by another device is asked for over a socket while the lock is released; the reference is rechecked after | answers after a timeout or a reconnect; a reference changed meanwhile | `NodeRelay`; the saves it makes are in `AccountStore` |
| **Evaluation and transactions** `shared/sync/evaluation.ts`, `transactions.ts`, `handlers.ts`, `backend/sync/evaluation.ts` | an evaluation record on the node: status, effects done, in what order | prepare, commit effect by effect with a save after each, roll back, recover after a restart | external effects and the journal written around them; a crash between effect and record. An effect runs once or is known to be uncertain; rollback undoes what was done, in reverse | `Evaluation`, `Completion`; request, wait and recheck also in `WorkClaims` |
| **Approvals and submissions** `shared/sync/approvals.ts` | proposals, approvals per approver | submit, approve, withdraw, reject; merge when the node's rule holds | a rule changed between approvals; who may count. A proposal merges exactly when its rule is met | `Approvals`; decisions by event also in `WorkClaims` |
| **Three-way tree merge** `shared/sync/merge.ts` | none (a function) | merge two trees over their base; differences become choices | "Nothing is dropped silently" | `EditHistory`, and row by row in `Approvals` |
| **Message relay between nodes** `shared/sync/relay.ts` | queues as rows | move messages into queues, acknowledge | redelivery, order | `MessageRelay` |
| **Peer invitations** `backend/sync/peerInvites.ts` | invites and pending requests in the database | create, request, approve, deny, poll | approve racing deny, polling twice, use limits. A credential is given once, for an approved request | `PeerInvites`, `OneTimeGrant` |
| **Device login, confirmation** `backend/auth/deviceLogin.ts`, `confirmation.ts` | short codes with an expiry | start, approve, deny, poll | the same races; the token is delivered once | `DeviceLogin`, `OneTimeGrant` |
| **Token balances and purchases** `backend/tokenManager.ts`, `subscription/webhook.ts`, `sync/payments.ts` | allowance and purchased tokens, transfers, completed purchases | spend, transfer, credit on a webhook | redelivered webhooks, concurrent spends. Credited once, never negative | `TokenLedger`, `TokenBook` |
| **Graph values and scopes** `shared/sync/graph.ts`, `replica.ts`, `kernel.ts`, `structural.ts`, `shared/dag-implementation` | the tree | path copying, branch choices, versions | pure | the paths, branches and versions that claims need, in `WorkClaims` |
| **Names, bindings and arguments** `shared/sync/bindings.ts`, `scope-bindings.ts`, `arguments.ts`, `allocations.ts` and others | none (functions of the tree) | nearest-scope resolution, linear resources | a resource used twice | not modelled |
| **Triggers and schedules** `shared/sync/triggers.ts`, `backend/sync/cron.ts` | last firing per trigger | fire on a change or a time | firing twice or never | `Triggers` |
| **Sharing and the market** `shared/sync/sharing.ts`, `backend/sync/sharing.ts` | visits and submissions in two accounts | visit, submit, read, under the locks of both | two saves, either may fail | partly: locks and saves in `AccountStore` |
| **Host handlers and runtime** `backend/sync/hostHandlers.ts`, `host-runtime.ts`, `repository.ts` | per handler caches | effects and load handlers of connected services | a load handler works on a copy of the tree | partly: how an effect is recorded in `Evaluation`, the copy in `AccountStore` |
| **MCP adapter and sessions** `shared/sync/mcp-adapter.ts`, `backend/sync/events.ts` | sessions with a time last seen, long polls | tools mapped to events | session expiry | partly: the task tools in `WorkClaims` |
| **Web client** `web/src/app.ts`, `history.ts`, `storage.ts`, `virtual.ts`, `p2p.ts` | the local tree, undo history, an event queue | edits, undo, local dispatch, peer-to-peer | rollback of queued events, undo across a merge | `EditHistory`, `Triggers`, runs on the device in `Evaluation`, sync rounds in `NodeSync` |
| **Projects, rows, fields, library** `shared/sync/work.ts`, `organize.ts`, `project*.ts`, `branches.ts`, ... | none | reading rows | pure | not modelled |
| **Interface** `web/src/ui.ts`, `rows.ts`, ... | the screen | rendering, input | none here | not modelled |
| **Accounts and authentication** `backend/auth`, `backend/user.ts` | one database row each | single-row handlers | none beyond the row | not modelled |
| **Search index** `backend/search` | an index per account | debounced rebuild | decided by an external service | not modelled |
| **Voice, channels, email** `backend/voice`, `backend/channels`, `backend/email` | jobs at services | calls, one retry | input and output | not modelled |
| **Integrations** `backend/integrations`, `web/src/local-git.ts` | credentials | calls to services | input and output | not modelled |
| **Desktop shell** `desktop/src-tauri` | processes, files | starting and stopping | input and output | not modelled |

## 2. Modules

| Module | What it is | Code |
|---|---|---|
| `WorkClaims` | claims, leases, every gated event, deferred evaluations | `events.ts` dispatch, `work-claims.ts`, `backend/sync/evaluation.ts` |
| `NodeShapes` | the shape of a node, the editor's changes to it, its merge: operators only | `mergeNodeShape`, edits of `replica.ts` |
| `NodeMerge` | two sides that diverge from an agreed shape | extends `NodeShapes` |
| `NodeSync` | rounds of several devices with one provider | `node-sync.ts`, `node-provider.ts`; extends `NodeShapes` |
| `AccountStore` | queues, nested locks, load, copy, save, stopping servers | `accountStore.ts`, `util.ts`, `storeVersion.ts`, locks of `sharing.ts` |
| `AccountLedger` | abstract: one growing record per account | implemented by `AccountStore` (`AtomicStore`) |
| `Evaluation` | the journal of a run, on servers or a device | `evaluation.ts`, `transactions.ts`, `payments.ts` |
| `Completion` | abstract: answers and completion at once, by one run | implemented by `Evaluation` (`CompletesAtOnce`) |
| `Approvals` | submissions, approvals, rules, and what merges | `approvals.ts`, submissions of `graph.ts` and `node-sync.ts` |
| `MessageRelay` | messages left at a node, queues, acknowledgements | `relay.ts` |
| `Triggers` | timers and completion triggers of a device in several tabs | `triggers.ts`, `runTriggers` of `app.ts` |
| `EditHistory` | undo and redo by three-way merges | `history.ts`, `merge.ts` |
| `NodeRelay` | reading a node that another device holds | `provideNode.ts`, `nodeRelay.ts`, `ws.ts` |
| `DeviceLogin` | signing in through a browser | `deviceLogin.ts`, the client's loop |
| `PeerInvites` | attaching a device by an invite | `peerInvites.ts`, the client's loop |
| `OneTimeGrant` | abstract: granted, then given once | implemented by `DeviceLogin` and `PeerInvites` |
| `TokenLedger` | transfers and purchases in database transactions | `tokenManager.ts`, `webhook.ts` |
| `TokenBook` | abstract: each order booked once, no balance below zero | implemented by `TokenLedger` on steady accounts |
| `WorkClaims_proofs`, `AccountStore_proofs`, `NodeShapes_proofs`, `NodeSync_proofs`, `Evaluation_proofs`, `EditHistory_proofs` | the theorems about the module each is named for | |
| `Services_proofs` | those about `DeviceLogin`, `PeerInvites`, `NodeRelay`, `TokenLedger`, `NodeMerge`, and about `MCServices`, where they and `EditHistory` are side by side | |
| `Tree_proofs` | those about `Approvals`, `MessageRelay`, `Triggers`, and about `MCTree`, where they and `Evaluation` are side by side | |
| `MCWorkClaims` (two instances), `MCNodeMerge`, `MCNodeSync`, `MCAccountStore` | small instances of one module | |
| `MCServices` | instances of `DeviceLogin`, `PeerInvites`, `TokenLedger`, `NodeMerge`, `NodeRelay`, `EditHistory` side by side | |
| `MCTree` | instances of `Evaluation`, `Approvals`, `MessageRelay`, `Triggers` side by side | |

`MCServices` and `MCTree` hold parts that share no state. A behaviour chooses one (`part`) and leaves the others as
they start, so each part is explored in full and no interleaving of independent parts is. That each part behaves there
as its own specification says is proved (`EachOfTheServices`, `EachOfTheTree`). The parts do meet in the
code, through the lock: `WorkClaims`, `Evaluation` on servers, `Approvals` and `MessageRelay` take what is done under
`withUserLock` as one step, or end a step where the code saves. `InTurn` in `AccountStore` justifies it on one server;
across servers it is the compare-and-swap that refuses the second save, which `Evaluation` has (`stale`).

### WorkClaims

State: `claims` (with the time each lease has left instead of an expiry and a clock; the two are equal up to
renaming, and the state space stays finite), `member` (entries of invited peers), `done`, `proposals`, `evals`
(evaluations asked for and not yet run, with whether the version they were asked for is still current), `crashed`.
`granted` and `step` are history: the grants ever answered, and what the last step did. Actions: `Claim`, `Renew`,
`Release`, `Submit`/`SubmitTask`, `Input`/`InputTask`, `Complete`/`CompleteTask`, `Open`, `CreateBranch`, `Decide`,
`Evaluate`, `SetMember`, `RemoveMember`, `Tick`, and a worker that dies. A batch of changes is one change at one
place; text, names and values are left out. Reading events and the long poll for pending work change no state.

### NodeShapes, NodeMerge, NodeSync

A shape has fields, an update time, children with a kind, and their order. A child's kind stands for everything of it
the exchange compares. `mergeNodeShape` merges field by field and child by child, refuses where both sides changed the
same thing, treats a node of literals as one value, and takes the order of whichever side changed it.

`NodeSync` has, per device, its `shape`, what was `agreed`, its `round` and its `request` on the way. A round is
`planNodeSync` (ask), `ServeAsk`, `nodeSyncPush` (push, or finish when there is nothing to push), `ServeUpdate`,
`Finish`. The user edits at any moment. `BreakOff` ends a round anywhere and may leave its update on the way
(`stray`), which `ServeStray` delivers later. The provider's step is one action because it runs under the account's
lock. The node is the attachment's root on its main branch.

### AccountStore

A tree is the set of writes it contains. A root carries its history, so two roots are equal exactly when these sets
are. A call is one request with a plan: the loads, copies and saves its handler makes, in order. The plans in
`MCAccountStore` are those of `attachMemberToNode` (load, save), `provideNode` with a bound repository (load, copy,
save if changed), `visit` by a returning guest (load host, load guest, save guest if changed) and `submit` (load host,
load guest, save guest, save host).

`Queue`, `Enter`, `Leave` and `Sweep` are the promise chain of `withUserLock`: going behind the last promise, being
called when it settled, settling, and the `finally` handler that deletes the entry unless someone queued behind.
`Drained` says that what a settled promise sets off runs before the server turns to a new request or to another
database answer; the chain would be correct without it, but a server never shows those states. `Fetch` and
`Save` are two steps, because `saveStore` reads the user's record and updates it later. `SaveUnseen` is a save whose
answer never came, `Refuse` one that found another root, `Fail` anything else that throws, `Crash` a server that stops
with its queues. `expected` is `loadedRoots`, and `Copy` loses it, since the copy is another object.

### Evaluation, Completion

`tree` is what is saved: the value of each requirement, what each run proposed for it, the journal (`run`, `status`,
`effect` per requirement, `task` for the compensations someone was asked to do by hand) and whether the task is done.
A run works on its host's tree, `held`: on a server a copy that is saved with a compare-and-swap (`stale` says that it
will be refused), on a device the one tree the owner edits too. `pc` is the save or the call the run awaits.
`evaluateNode` and `openSteps` begin it, `attempt`, `call`, `runPrimitive` and `recordEffect` are the effect of one
requirement with the save before it and the save after, `conclude`, `publish` and `return` end it; `fail`, `failCall`,
`rollBack`, `giveUp` are the ways it goes wrong, `stop` a process that ends, and `recoverEvaluation` what a later
start makes of the journal it finds. Payments are opened by a run and confirmed later (`PayPage`, `settle`); the owner
fills requirements by hand and does compensation tasks (`fillByHand`, `doTask`).

`Completion` has only what fills each requirement and whether the task is finished: a completion fills what one run
answered and finishes the task in one step.

### Approvals

Content is the set of rows a node has. `submitted` has what each peer's entry holds: the submission (base, content
and a number for when it was sent), who approves it, whether it is open. A peer that edits a row sends a new
submission in place of its old one, brought up to main first (`Pulled`). `acceptSubmission` adds an approval and, once
`missingApprovals` is empty, merges and drops the submission. `Reject` takes any submission the store ever held
(`table`), which the code does too. The owner edits main, the rule and the grants in between. `consents` and `touched`
are history: who stands by which content, and which rows a sender changed.

### MessageRelay

`atMain` and `left` are the rows left at the node, in its main value or in a peer's submission; `queue` is what lies
under each member's entry. Peers write and acknowledge in their `copied` rows and exchange them with a node in rounds
of two requests (`pullRows`, `pushRows`), whose answer may be lost. The rows of a message arrive one by one
(`whole`). A run of the relay is several steps here (`pass`: what it has still to do, and the submissions as they were
when it began), between which nothing else happens, since it holds the account's lock.

### Triggers

Each tab has the tree in `memory` and saves it over `stored`; only one walks through the triggers at a time, since
the browser's lock lets one in. The walk claims an occurrence, evaluates, and saves. `reload` closes a tab and opens
it again, also in the middle of a walk. `clock` counts the edits a trigger sees. `claims` is history.

### EditHistory

A tree maps tasks to versions: a row with fields, a plain row (`Plain`: an id's kind is fixed), none, or a choice that
offers several versions. A plain row is a reference whose value is a text (`constructPlainRow`), and the value of a
reference that is no field and has no type merges as the top node does (`merge.ts:154`): where both sides changed it,
theirs stands. Hence `Combine`, which never refuses two plain rows, and `MergedRow`, which then takes the text of the
change. `past` and `future`
are the lists of `history.ts`, each change with the tree before and after it; `undo` and `redo` take the last change
inside the document that is open (`scope`) and merge it back into the tree as it is now. `receiveEdit` is what a round
with the account brings in. A value is the time it was written at; `foreign` and `alone` are history. A choice carries
the versions inside it, however deep (`within`), which in the code are found by reading its options one after the
other; `Shown` is what the user can see of a row. `mergeChild` goes through the code's tests in the code's order.

### NodeRelay

A call reads the row's reference under the lock (`nodeReferenceAt`), lets it go and sends a request over the socket
its device registered last (`request`), and waits for the answer, the timeout or the close of that socket.
`acceptProvidedNode` takes the lock again and rechecks the reference and the grant. A socket opens, says hello, has
its user looked up in the database, registers, and closes; the row and the grants change at any time.

### DeviceLogin, PeerInvites, OneTimeGrant

`pending` is the map of codes each login server has in memory; a handler is one synchronous step. Invites are
database rows: every handler of `peerInvites.ts` reads the row, awaits, and writes, so `ReadClaim`/`claimInvite`,
`ReadPoll`/`pollRequest` and `ReadApprove`/`approveRequest`/`attachMember` are steps of their own. `Raced` names the
invites on which calls may overlap. `OneTimeGrant` is asked, granted, given once, or over. `DeviceLogin` implements
it always, `PeerInvites` on the invites that are not raced (`InviteOneTime`); on the others a credential can be given
for a claim that lost the row, but never without an approval (`CredentialsWereApproved`).

### TokenLedger, TokenBook

A transaction reads balances, then writes what it computed from them and commits, at the isolation the database has
by default; between the two another may commit. `transferTokens` records its key, which is unique. A purchase is
credited by a delivery of the webhook: read, mark completed, credit, each a step, any of which may fail after it
happened. `Steady` are the accounts whose transactions do not overlap. `TokenBook` books each order once and never
below zero.

## 3. What the runs check

| Run | Instance | Shows |
|---|---|---|
| `claims` | two instances, each explored in full: two workers on one peer credential (one of them MCP), nested and sibling tasks, lease 2, one waiting evaluation, a worker that dies; an owner and an MCP worker, a choice with two branches and a task inside it, entries given and taken, a submission | `TypeOK`, `ExclusiveClaims`, `OneClaimPerSession`, `ClaimEndsByItsHolder`, `CrashedWorkIsFreed`; `ClaimsShieldWork`, `ScopedWorkStaysInTask` |
| `claims_evaluation` | a finding, see below | `EvaluationRespectsClaims` fails |
| `sync_edits` | two devices, one does not see a row, two edits, one broken round | `TypeOK`, `LocalChangesKept`, `RowsGoOnlyWhenDeleted`, `SettlesUnlessMissed` |
| `sync_replaced` | a finding; two devices, one field, four edits | `ConflictsKeepLocal` fails |
| `sync_lost` | a finding | `Settles` fails |
| `account_mixed` | two servers, two accounts; a visit and a submission that name them in opposite roles, a refresh, an edit from the other server | `TypeOK`, `InTurn`, `NoCommitLost`, `SavedInOrder`, `AtomicStore`, `EveryCallLeaves` |
| `account_refresh` | a finding | `NoCommitLost` fails |
| `services` | two logins on two servers; an invite whose calls come one by one and one whose calls overlap, two devices and two verdicts each; two payouts of one requirement and two deliveries of one purchase, on steady and on other accounts; the merge with three edits over three rows of which two are literals; two connections of a device, two calls and one change of the row or the grants; a row of two fields and a plain row, four edits, two of them kept | `ServicesTypeOK`; `DeviceOneTime`, `InviteOneTime`, `CredentialsWereApproved`, `ApprovedIsAnswered`; `PaidOnceFromWhatIsThere`, `BalancesAreBooked`; `PushesAgree`; `NobodyWaitsForGone`, `InstalledAsAsked`; `ValuesStay`, `UndoLosesNothing` |
| `services_credit` | a finding, on the token accounts alone | `CreditedAtMostOnce` fails |
| `undo_text` | a finding; two rows of which one is plain, four edits, two of them kept | `TextsStay` fails |
| `tree` | a task with a payment and a requirement answered at once, two runs, on two servers or on the device; a node with two peers, two submissions and two edits of the owner; an invited phone and a desktop with a message each way and one lost answer; a timer and a completion trigger in two tabs | `TreeTypeOK`; `RecordedBeforeCall`, `PaidWhenDone`, `ReviewedBeforeRerun`, `CompletesItsOwn`, `ByHandKept`, `CompletesAtOnce`; `MergedAsApproved`, `OnlyItsRowsMerge`; `MessagesKept`; `FiresOnce` |
| `evaluation_charge` | a finding, on the task alone | `ChargedOnce` fails |

**Deadlock** is checked except in `services`, `tree` and the runs of one of their parts, where logins, payments,
submissions and edits come a few times and the system stops when they are through, in the merge when the edits are used
up, and in `AccountStore` when every call has been answered. No call can wait for ever there: `EveryCallLeaves` and
`ApprovedIsAnswered` say so where the code awaits something.

**Bounds.** Two claim ids and two sessions are the fewest at which claims can overlap; a path of two nodes under the
root gives above, at, below and beside; two ticks give a claim renewed, nearly out and out. `MaxClaims` is the code's
256 and is not reached. `services` stops at three edits of the merged shapes, and at one change of the relayed row or
the grants, since `PushesAgree`, `NobodyWaitsForGone` and `InstalledAsAsked` are proved for any number of them. One
plain row and one with fields show `UndoLosesNothing` on both kinds; with both rows of either kind it held as well.
Two devices, two edits and one broken round give every pair of an edit with a round under way, a lost answer and a late
update; three devices add no new pair, since a device only ever meets the provider. Four edits are what
`sync_replaced` needs: with fewer, `LocalChangesKept` holds without its exception. Two accounts and two servers give
nested locks in opposite roles and a race on one root; four calls on them queue up to three deep. Two runs of a task
give a second one that finds, overtakes or recovers the first; two requirements give one answered before and one
after the other, and rollback in an order. Two submissions give one that is replaced, rejected or overtaken by the
other; `MaxOwnerSteps` is two so that the owner can change the rule and main under one of them. Two messages give two
rows in one submission; one lost answer gives a row that is pushed twice. `MaxKept` is 100 in the code and two here so
that the history is full; `MaxWaiting` is 64 there and one here, so that the relay is full. Three edits in `Triggers`
are one to complete the task, one to open it and one to complete it again.

**One state for many.** `claims` does not tell states apart that differ only in `step`, the label of the step just
taken (`StateView`): it is only read primed, and `Tick`, the one fair action, always changes `claims`.

**Symmetry.** Tabs and the rows of submissions in `tree`, the devices in `sync_replaced`: those runs check only safety.

**Fairness.** `WorkClaims`: only `Tick` is fair, since time passes; nothing is asked of workers.
`NodeSync`: the poll timer plans sending rounds again and again, and a round asked for while another is under way is
queued (`syncRequested`), so `planNodeSync(d, TRUE)` is strongly fair; a round that is not broken off goes on, so its
steps are weakly fair. `GoesOn` is that weak fairness with its `ENABLED` written out, which TLC evaluates far quicker:
some step of a round can be taken exactly while one is under way, and TLC compared the two on `sync_edits`. Rounds break off finitely often (`MaxBroken`). `AccountStore`: while some promise can go on,
one does, which is what an event loop over a database that answers gives. Calls come once and have finitely many
steps, so no fairness among them is needed. A handler that awaits for ever is not in the model: nothing in the code
bounds it, and it keeps its account locked. `PeerInvites`: a waiting device polls every two seconds and a handler that
has begun goes on (`InviteFairness`); nothing is asked of the owner. The other modules state no liveness.

Each property has a mutant in the module, a plausible slip in one definition, under which TLC finds it violated; the
comments `Mutant:` mark them. They are not part of any specification.

## 4. What the code does otherwise than it says

- `claims_evaluation`: `complete` refuses a node that overlaps another worker's claim, but the evaluation it asks for
  runs after the lock changed hands and rechecks only the node's version. A claim granted in between is ignored.
- `sync_replaced`: after a push was answered without what it pushed (another device took the change back between the
  two requests), `finishNodeSync` remembers different values as agreed, one here and one there. A user who then sets the
  field back to the older value has it replaced by the next change from elsewhere, without a conflict, where
  `docs/sync.md:82` says that the local value is kept. `LocalChangesKept` excepts devices with such a push (`missed`).
- `sync_lost`: a row pushed by a round whose answer was lost, and deleted elsewhere between the two requests of the
  next round, stays on the device and is gone from the account, with no conflict and no later repair.
- `account_refresh`: the refresh of a bound repository saves a copy for which no loaded root is remembered; the save
  is compared with the root fetched just before it and overwrites what another server committed since the load. With
  one server per account it cannot happen: `AnsweredSavesStay` proves it.
- `services_credit`: the webhook reads a purchase's status and marks it completed in separate statements, so two
  overlapping deliveries both credit it; a credit whose answer is lost marks it failed, and the next delivery credits
  it again. On accounts whose transactions do not overlap and whose commits are answered it cannot happen:
  `LedgerImplementsBook` proves it.
- `undo_text`: the text of a plain row is taken from the change that is undone even where another device gave the row
  another text since: x is changed to y here, to z elsewhere, and the undo leaves x. No choice offers z, which is found
  only among the earlier versions of the row's reference, or by redoing; `merge.ts:9` says that nothing is dropped silently, and
  `docs/sync.md:73` that different values of one field of a leaf become a choice. For the fields of other rows it
  cannot happen: `OthersValuesStay` proves it.
- `evaluation_charge`: every run of a task opens a payment page of its own, and a task that awaits its payment may be
  run again, so one requirement can be paid twice.

What `FiresOnce` excepts in `Triggers` is no promise of the repository, and the code does it: a tab that saves a tree
from before another tab's claim takes the claim out of the storage (`app.ts:573`), and a tab that has not seen a newer
configuration which is stored may fire for the older one again (`app.ts:3095` asks what the stored tree would fire for
under this tab's configuration).

Read in the code and not shown by a run: the merge of node shapes compares whole id lists (`node-sync.ts:182`), so a
side that only adds or deletes a row decides the order of all of them, and a move on the other side is undone without a
conflict, where `docs/sync.md:94-95` says that reorders replicate like any other change; `PushesAgree` compares fields
and children and not their order. And an undecided choice is not a row (`graph.ts:462-471`, `rowTypeOf`), so the
exchange skips it (`node-provider.ts:295-303`), where `docs/sync.md:59-61` says that a choice replicates like
everything else. `EditHistory` therefore lets received edits leave rows in dispute alone.

## 5. What is proved

For every value of the constants that meets the named assumptions; TLC evaluates these on every run.

**WorkClaims_proofs.** `TypeCorrect`: `TypeOK`. `Exclusive`, `OneClaim`: `ExclusiveClaims` and `OneClaimPerSession`,
by the inductive invariant `ClaimsInv`. Exclusivity alone is not inductive: renewing and releasing go by id, so ids
must be unique (`IdsUnique`), a fresh id must be fresh among the claims (`IdsGranted`), and a claim selects a branch
at every choice on its path (`SelectionsFit`), which makes the code's overlap test, over the selections both have,
the right one. `Shielded`: `ClaimsShieldWork`, one lemma per event. `ScopedToItsTask`: `ScopedWorkStaysInTask`, which
needs in addition that an evaluation waiting to run is covered by the grant of the claim it names (`EvalsCovered`).
`EndsByItsHolder`: `ClaimEndsByItsHolder`.

**AccountStore_proofs.** `TypeCorrect`: `TypeOK`. `FirstComeFirstServed`: `InTurn`, by `QueueInv`. The queue is kept
in no single place: each call knows only the one it was queued behind, and the map only the last. `Behind` says that
the last call has the highest turn, `Distinct` and `Ordered` that turns order the calls and only the lowest is
inside, `Linked` that a waiting call with anyone ahead waits behind a call still there that is not ahead of them
too. So a call whose predecessor has settled has nobody ahead.

Under `OneServerWhereCopied` (no account a load handler may copy is used on two servers; `account_refresh` shows it
is needed): `StoreImplementsLedger`, every behaviour is one of `AccountLedger`; `AnsweredSavesStay`, `NoCommitLost`;
`WritesInOrder`, `SavedInOrder`. The invariant is `StoreInv`. `Known`: a remembered root is that of the tree, so a
save that passes the comparison adds to what is there. `Copied` and `Fresh`: a tree without a remembered root is one
of an account used on one server, where by `InTurn` nobody else saves while its call is inside. `Unmade` and `Made`:
a call's writes are in the database exactly from the steps that make them. The refinement follows because a step of
`AccountStore` changes `root` only by adding the write of the call's current step.

**NodeShapes_proofs.** What the order of rows does. `Filtered` is a recursive function over a sequence, and a fact
about every sequence is proved without an induction theorem that takes an operator: the set of sequences it holds of
contains the empty one and is closed under `Append`, and a least natural that is the length of none left out gives the
contradiction (`Least`, `Counting`, `Growing`). So `Filtered` keeps exactly the rows asked for (`FilteredSeq`), each
once (`FilteredInjective`), twice is once (`FilteredTwice`), and it goes through a concatenation (`FilteredConcat`).
`EditIsShape`: each change of the editor leaves a shape. `MergeIsShape`: so does a merge that does not clash; its order
has every row it keeps, because a row that is missing from the order that is followed is one the other side has
(`MergedOrderParts`), or the two sides clash. `MergedAgain`: a push that is sent again is accepted and changes nothing,
the order included (`FollowedAgain`).

`NodeMerge`, in `Services_proofs`. `EitherOrder`: `PushesAgree`. For any three shapes, without a clash in a field or a row, the
merge gives the same fields, rows and refusals whichever side comes first (`RefusedEitherWay`, `SameEitherWay`), and
leaves one value where there was one (`OneIsLeft`); a push sent again changes nothing (`MergedAgain`). Only the time of
the last change needs the runs, on which no side is older than what was agreed (`MergeInv`). `MergedIsShape`:
`MergeTypeOK`.

**NodeSync_proofs.** `SyncInvHolds` is the invariant, checked by TLC before. `ChangesStay`, `LocalChangesKept`: a round
goes by what is still agreed (`PlanFits`), what comes from the provider has nothing the device may not see (`Masked`),
and what is agreed is the same on both sides unless a push was answered without what it pushed (`InStep`), so a field
that differs from it here is kept or refused. `RowsStay`, `RowsGoOnlyWhenDeleted`: a row that was agreed on, planned,
answered or sent, and is not there now, is one a user deleted who could see it (`RowsKnown`, `RowsPlanned`,
`RowsAnswered`, `RowsSent`, the last also of updates that arrive late), so a merge that takes it away is entitled to.
`SyncTypes`, `TypeOK`: everything that goes back and forth is of the shapes of the time now (`Typed`), which masking and
merging stay among (`Closed`, `ShapesClosed`); only an edit makes more of them.
The first attempt failed on `LocalChangesKept` as it stood, without the exception, which no run had shown with three
edits; `sync_replaced` is what came of it.

**Evaluation_proofs.** Everything follows from `EvaluationInv`. Each tree, saved or in a run's hands, is `Sound`: a
journal over which a run may begin has nothing unaccounted for, grants come from confirmed payments, and a task that is
done has nothing open. `Journaled`: a run that works has a journal of its own (`Fits`) with everything it called and
opened (`Covers`). `Synced`: a run whose save may still pass holds the saved tree, but for what it saves next; the
device runs one evaluation at a time (`Alone`). `Publishing`: what a run published is its answers over the tree it
committed, and `Unpublished`: nothing is answered before. Every action is shown to preserve it in two halves, what it
does to the tree that is saved and to the other runs, and what it does to the run itself. Then `EveryCallRecorded`
(`RecordedBeforeCall`), `DoneWhenPaid` (`PaidWhenDone`), `RerunAfterReview` (`ReviewedBeforeRerun`), `OwnCompletion`
(`CompletesItsOwn`), `ByHandStays` (`ByHandKept`), and `EvaluationImplementsCompletion` (`CompletesAtOnce`): a step that
changes the saved tree publishes the answers of one run with the completion, takes them back together, fills one
requirement, or is a stutter of `Completion`.

**Services_proofs**, one part per module.
`DeviceLogin`: `DeviceInvariant`: a code is on one server, and only while its session was not handed out
(`CodeOnOneServer`, `CodeGoesWithSession`, `NothingBeforeStart`). `DeviceImplementsGrant`: so a step is one of
`OneTimeGrant` or none. A restart that forgets several codes is the step `EndAll`.
`PeerInvites`: `OnlyApproved`: `CredentialsWereApproved` on every invite, however calls overlap; the
strengthening is `ApprovalsCarried`: a row that names a peer, and a verdict on the way to one, come from an approval
that read that peer. `InviteImplementsGrant`: on invites whose calls come one by one. There `RowAsRead` says that the
row still is what a call under way has read, and `DeliveredOrNot` that a credential counts as given exactly when its
row says delivered.
`TokenLedger`: `TokensKept`: `KeyMovesOnce`, on all accounts. `MovedIsRecorded` says that a payout that moved
tokens left its key, whose uniqueness stops the next; `ReadsCover` that a payer's read balance covers the amount, so
`NeverOverdrawn`; together `PaidOnceFromWhatIsThere` (`PayoutsHold`). `LedgerImplementsBook`: on steady accounts, by `ReadIsCurrent`,
`CreditedIsCompleted` and `OneAtATime`.
`NodeRelay`: `NobodyLeftWaiting`: `NobodyWaitsForGone`. `InstalledAsItWasAsked`: `InstalledAsAsked`. The
invariant `RelayInv` adds that a registered connection is its device's, that a call was sent to the device holding
what it wants, and that it wants a reference. The recheck of the reference after the wait then gives the rest.

**Tree_proofs**, one part per module.
`Approvals`: `SubmissionsStand`: the approvals an entry lists were given to the content it has, and a
submission differs from its base only in what its sender touched; numbers make submissions distinct.
`MergedAsTheRuleAsks`: `MergedAsApproved`. `OnlyTouchedRowsMerge`: `OnlyItsRowsMerge`; a merge differs from ours only
where theirs differs from the base, and bringing a submission up to main keeps that.
`MessageRelay`: `RelayedRows` and `MessagesAreKept` (`MessagesKept`). Three facts carry it: while a run of the
relay lasts, a submission only shrinks from what it was when the run began (`PassInv`), so rebuilding it from that
takes out nothing else; a peer's copy has everything last agreed on (`CopyInv`), so a push never deletes a row the peer
did not delete; and an acknowledgement anywhere, in main, a submission, a queue, a copy or a run, is its addressee's
(`RowsIn` of `Given`), whose queue is the only one with the message (`QueueInv`).
`Triggers`: `TriggerTypes`, and `OneFiring`: `FiresOnce`, by `TriggersInv`. A claim that no save took away
shows in what is stored, or what is stored is past what it was for: a newer configuration, or another completion of the
task (`ClaimsShown`). The tab that walks shows the claims of the triggers ahead of it by the configurations it began
with, which only its owner's edits outdate (`WalkShows`, `WalkFits`); and two trees in which the task was edited last
by the same edit agree on its completion (`SameEdit`), which makes the comparison of `available` the right one. The
property used to compare the set of claims before and after a step, which a timer claimed twice leaves the same; it now
says of the step that claims that nothing like it was claimed.

**EditHistory_proofs.** `HistoryTypes`: `HistoryTypeOK`. `OthersValuesStay`: `ValuesStay`, for any rows, plain or not,
fields, edits by anybody, and any order of undoing and redoing, everywhere or in one row. It is about the values of
fields; of the texts of plain rows the same is false (`undo_text`). A merge shows every field's value that is in sight
unless the change itself took it away (`MergeShows`: what both sides changed is combined or offered, so a value can only
go where the change's base has it and its outcome does not). So it is enough that no change in either list takes away
what another device wrote since. `HistoryInv` therefore says that both lists are drawn from a set of `Harmless` changes
(`Listed`), and need not say in which order. A change is harmless when it is made, because the tree it goes back to is
the one on the screen, where by `ValuesStay` all that others wrote is in sight (`EditHereStep`, `AppliedStep`); and it
stays so, because what is written later has a time that occurs in neither of its trees (`HarmlessLater`,
`NotYetInSight`). `HistoryTypes` needs in addition that a row that never was is in no tree of either list, so that no
undo brings one about, and that the versions inside a version are versions, and all that is inside them inside it
(`IsVersion`, `VersionKinds`). The proof changed the model twice: `mergeChild` was a `CASE` whose guards overlapped,
which says less than the code's `if ... else if` does, and what a choice shows was a recursion over choices.

**Side by side.** `ServicesTypes`: `ServicesTypeOK`, and `TreeTypes`: `TreeTypeOK`, in `Services_proofs` and
`Tree_proofs`. A step of `MCServices` or `MCTree` is a step of one part and leaves every other as it is
(`StepOfEach`), so every behaviour is one of each part's own specification (`EachOfTheServices`, `EachOfTheTree`), and
every theorem above about that specification holds of what the runs `services` and `tree` explore.

**Only model-checked.** `UndoLosesNothing`, in both of its halves. `DeletionsStay`, that an undo does not bring a row
back unseen which another device deleted: a deletion has no time, so one cannot be told from another, and a change in
the lists may well take a deletion away (the undo of one's own). That it is never the one that another device made
since depends on the order the changes are in and on when the row was there, and no invariant of single changes has
it; the run found none that fails, nor did larger bounds (up to five edits kept, eight in all). `OwnComesBack` folds
merges over a list, and what a fold gives is an induction over data. Every liveness property
(`CrashedWorkIsFreed`, `SettlesUnlessMissed`, `EveryCallLeaves`, `ApprovedIsAnswered`): liveness under fairness and
`ENABLED` are beyond the prover. The findings are runs and nothing else.

## 6. Not modelled

- **Node exchange**: proposals and branches as targets, other nodes of a round, blanked and held nodes, templates,
  pinned grants. A conflict on one node ends the whole round (`app.ts:1318`); the queue of nodes is the next model.
- **Evaluation**: hooks of open, commit and abort; a value edited on the device while it is being published; journals
  exchanged between devices; drivers of connected services. The two and the three minutes after which a run counts as
  abandoned are one flag (`aged`).
- **Approvals**: an owner who takes rows of a submission over on a device (`acceptSubmissionRows`), which the account
  receives as the owner's own edit and after which it closes the submission whose rows are all there
  (`submittedChild`, `closeAcceptedSubmission`, `node-sync.ts:334-343` and `569-595`); submissions of values to references, and approvals by a page that changes several at once, which are
  several steps under one lock.
- **MessageRelay**: the relay switched off; parts taken back after they arrived; the order of rows.
- **Triggers**: a device that is not signed in; the server's cron; observers of requests, responses and references;
  the completion observer's committed-evaluation cause; template instances; trigger rows removed; an account switched
  in the middle of a walk.
- **EditHistory**: the order of rows, where a merge takes ours as the backbone; rows below rows, which merge as those
  of the tree do; the earlier versions a reference keeps; changes of a row's type; labels, paths and selection. Opening another document starts from the first tree.
- **NodeRelay**: the notification that prompts a device, and the other messages of the socket.
- **Confirmation by email, token resets and direct debits (which nothing calls), the payment service's own state**: one row each, or external.
- **An invitation between accounts** takes two locks one after the other (`backend/sync/events.ts:67`); a second save
  that fails leaves a grant without an entry on the other side. Its locks and saves are plans `AccountStore` can run.
- **Names, bindings and arguments**: functions of one tree without steps of their own.
- **Interface, search index, voice, email, integrations, desktop shell**: rendering, or calls to services whose
  answers decide what happens.

## 7. Plan

Done: claims, node exchange, account store, the relay to devices, evaluation, approvals, the message relay, triggers,
undo, credentials and token balances; proofs of every safety property of these but those named at the end of section 5.

Next, in this order: the order of the lists as an invariant, so that `DeletionsStay` can be proved; a round over a
queue of nodes with a conflict on one of them; the invitation between accounts as a plan of `AccountStore`; choices
that are decided on one device while another edits below them; nearest-scope resolution and linear arguments as
operators; what a share exposes and the market's transfer.
