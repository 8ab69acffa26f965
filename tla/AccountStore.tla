---------------------------- MODULE AccountStore ----------------------------
(***************************************************************************)
(* Loading, changing and saving accounts on several servers over one       *)
(* database: the per-account queue of each server (withUserLock and the    *)
(* nested locks of sharing.ts), the calls that run inside it, and the      *)
(* compare-and-swap that advances an account's root (storeVersion.ts,      *)
(* storeToDb).  A call is one request; its plan lists what it does with    *)
(* the database, in the order of its handler.                              *)
(*                                                                         *)
(* A tree is abstracted to the set of writes it contains.  Two roots are   *)
(* equal exactly when their histories are, since a root carries its own.   *)
(***************************************************************************)
EXTENDS Integers, Sequences

CONSTANTS Servers,
          Accounts,   \* named by numbers: their order is that of the sorted keys
          Calls,
          Host,       \* the server a call runs on
          Plan,       \* per call, the steps of its handler
          NoCall

\* A handler loads an account, saves it, or saves it only if something changed
\* ("offer").  A load handler may answer with a copy of the loaded tree.
Steps == [do : {"load", "copy", "save", "offer"}, at : Accounts]

ASSUME AccountsAssumption == Accounts \subseteq Nat
ASSUME CallsAssumption ==
    /\ Host \in [Calls -> Servers]
    /\ Plan \in [Calls -> Seq(Steps)]
    /\ NoCall \notin Calls
\* What a handler saves it has loaded before.
ASSUME LoadedAssumption ==
    \A c \in Calls : \A j \in DOMAIN Plan[c] :
        \E i \in 1..j : Plan[c][i].do = "load" /\ Plan[c][i].at = Plan[c][j].at

\* The write a call makes at one step of its plan.
Writes == UNION {{c} \X DOMAIN Plan[c] : c \in Calls}

Roots == SUBSET Writes

\* Where no root is known.
NoRoot == {<<NoCall, 0>>}

VARIABLES
    tail,       \* userQueues: per server and account, the call queued last
    ticket,     \* per call and account, how far its place in the queue has come
    prev,       \* the call each one was queued behind
    phase,      \* "idle", "running", or "over": answered, failed, or lost with its server
    at,         \* the step of its plan a call is at
    working,    \* the tree a call holds of an account
    expected,   \* loadedRoots: the root that tree was loaded from or saved as
    fetched,    \* the root of the user record a save has just fetched
    root,       \* the database: each account's root
    turn,       \* history: a call's turn in an account's queue, 0 when it is not in it
    answered    \* history: the writes whose save was answered

locks   == <<tail, ticket, prev, turn>>
content == <<working, expected, fetched, root>>
vars    == <<locks, phase, at, content, answered>>

\* The accounts a call locks: those it uses.
Keys == [c \in Calls |-> {Plan[c][i].at : i \in DOMAIN Plan[c]}]
Live    == {"queued", "inside"}
Locked(c) == \A a \in Keys[c] : ticket[c][a] = "inside"

\* What a settled promise sets off runs before the server turns to anything
\* new: a request, or the database's answer to another call.
Drained(s) == \A c \in Calls, a \in Accounts : Host[c] = s => ticket[c][a] # "settled"

Running(c) == phase[c] = "running" /\ Locked(c) /\ Drained(Host[c])
Doing(c, kinds) == at[c] \in DOMAIN Plan[c] /\ Plan[c][at[c]].do \in kinds
Account(c) == Plan[c][at[c]].at

Init ==
    /\ tail = [s \in Servers |-> [a \in Accounts |-> NoCall]]
    /\ ticket = [c \in Calls |-> [a \in Accounts |-> "none"]]
    /\ prev = [c \in Calls |-> [a \in Accounts |-> NoCall]]
    /\ phase = [c \in Calls |-> "idle"]
    /\ at = [c \in Calls |-> 1]
    /\ working = [c \in Calls |-> [a \in Accounts |-> {}]]
    /\ expected = [c \in Calls |-> [a \in Accounts |-> NoRoot]]
    /\ fetched = [c \in Calls |-> NoRoot]
    /\ root = [a \in Accounts |-> {}]
    /\ turn = [c \in Calls |-> [a \in Accounts |-> 0]]
    /\ answered = {}

-----------------------------------------------------------------------------
(* The queues *)

\* Mutant: the locks are taken in whatever order the accounts were named.
TurnOfUnsorted(c, a) ==
    /\ a \in Keys[c] /\ ticket[c][a] = "none"
    /\ \A b \in Keys[c] : ticket[c][b] # "queued"

\* The next lock to take: one after another in the order of the keys, each
\* inside the one before.
TurnOf(c, a) ==
    /\ a \in Keys[c] /\ ticket[c][a] = "none"
    /\ \A b \in Keys[c] : b < a => ticket[c][b] = "inside"

\* The turn of the last call in a queue.
LastTurn(s, a) ==
    IF tail[s][a] # NoCall /\ ticket[tail[s][a]][a] \in Live THEN turn[tail[s][a]][a] ELSE 0

\* withUserLock: the call goes behind whoever queued last and becomes last.
Queue(c, a) ==
    /\ \/ phase[c] = "running"
       \/ (phase[c] = "idle" /\ Drained(Host[c]))
    /\ TurnOf(c, a)
    /\ prev' = [prev EXCEPT ![c][a] = tail[Host[c]][a]]
    /\ tail' = [tail EXCEPT ![Host[c]][a] = c]
    /\ ticket' = [ticket EXCEPT ![c][a] = "queued"]
    /\ phase' = [phase EXCEPT ![c] = "running"]
    /\ turn' = [turn EXCEPT ![c][a] = LastTurn(Host[c], a) + 1]
    /\ UNCHANGED <<at, content, answered>>

\* Mutant: a call does not wait for one that failed to leave the others in.
ClearOnceInside(c, a) ==
    \/ prev[c][a] = NoCall
    \/ (prev[c][a] # NoCall /\ ticket[prev[c][a]][a] # "queued")

\* The promise of the call before has settled, with a result or an error.
Clear(c, a) ==
    \/ prev[c][a] = NoCall
    \/ (prev[c][a] # NoCall /\ ticket[prev[c][a]][a] \notin Live)

Enter(c, a) ==
    /\ ticket[c][a] = "queued" /\ Clear(c, a)
    /\ ticket' = [ticket EXCEPT ![c][a] = "inside"]
    /\ prev' = [prev EXCEPT ![c][a] = NoCall]
    /\ UNCHANGED <<tail, turn, phase, at, content, answered>>

\* An answered call leaves its locks from the innermost outwards.
Leave(c, a) ==
    /\ phase[c] = "over" /\ ticket[c][a] = "inside"
    /\ \A b \in Keys[c] : ticket[c][b] = "inside" => b <= a
    /\ ticket' = [ticket EXCEPT ![c][a] = "settled"]
    /\ turn' = [turn EXCEPT ![c][a] = 0]
    /\ UNCHANGED <<tail, prev, phase, at, content, answered>>

\* Mutant: the entry is deleted whoever queued last.
SweepAlways(c, a) ==
    /\ ticket[c][a] = "settled"
    /\ ticket' = [ticket EXCEPT ![c][a] = "swept"]
    /\ tail' = [tail EXCEPT ![Host[c]][a] = NoCall]
    /\ UNCHANGED <<prev, turn, phase, at, content, answered>>

\* The settled promise's finally handler: the queue's entry goes if nobody
\* queued behind.
Sweep(c, a) ==
    /\ ticket[c][a] = "settled"
    /\ ticket' = [ticket EXCEPT ![c][a] = "swept"]
    /\ tail' = [tail EXCEPT ![Host[c]][a] = IF @ = c THEN NoCall ELSE @]
    /\ UNCHANGED <<prev, turn, phase, at, content, answered>>

-----------------------------------------------------------------------------
(* The calls: what the handlers do once they hold their locks *)

Advance(c) == at' = [at EXCEPT ![c] = @ + 1] /\ UNCHANGED <<locks, phase>>

\* What a handler held in memory is gone with it.
Drop(cs) ==
    /\ working' = [c \in Calls |-> IF c \in cs THEN [a \in Accounts |-> {}] ELSE working[c]]
    /\ expected' = [c \in Calls |-> IF c \in cs THEN [a \in Accounts |-> NoRoot] ELSE expected[c]]
    /\ fetched' = [c \in Calls |-> IF c \in cs THEN NoRoot ELSE fetched[c]]
    /\ at' = [c \in Calls |-> IF c \in cs THEN 1 ELSE at[c]]

End(c) ==
    /\ phase' = [phase EXCEPT ![c] = "over"]
    /\ Drop({c})
    /\ UNCHANGED <<locks, answered>>

\* dbToStore: the tree of the user's record, remembered with its root.
Load(c) ==
    /\ Doing(c, {"load"})
    /\ working' = [working EXCEPT ![c][Account(c)] = root[Account(c)]]
    /\ expected' = [expected EXCEPT ![c][Account(c)] = root[Account(c)]]
    /\ Advance(c)
    /\ UNCHANGED <<fetched, root, answered>>

\* Mutant: a tree that could not be copied is used all the same.
CopyUnchecked(c) ==
    /\ Doing(c, {"copy"})
    /\ working' = [working EXCEPT ![c][Account(c)] = NoRoot]
    /\ expected' = [expected EXCEPT ![c][Account(c)] = NoRoot]
    /\ Advance(c)
    /\ UNCHANGED <<fetched, root, answered>>

\* The refresh of a bound repository works on a copy of the tree and answers
\* with it: an object no root is remembered for.
Copy(c) ==
    /\ Doing(c, {"copy"})
    /\ expected' = [expected EXCEPT ![c][Account(c)] = NoRoot]
    /\ Advance(c)
    /\ UNCHANGED <<working, fetched, root, answered>>

\* Nothing to refresh, or nothing changed.
Skip(c) ==
    /\ Doing(c, {"copy", "offer"}) /\ fetched[c] = NoRoot
    /\ Advance(c)
    /\ UNCHANGED <<content, answered>>

\* saveStore fetches the user's record anew.
Fetch(c) ==
    /\ Doing(c, {"save", "offer"}) /\ fetched[c] = NoRoot
    /\ fetched' = [fetched EXCEPT ![c] = root[Account(c)]]
    /\ UNCHANGED <<locks, phase, at, working, expected, root, answered>>

\* Mutant: the root is compared with the record fetched for the save.
ExpectedFetched(c, a) == fetched[c]

\* saveRootVersion: the root the tree was loaded from, else the record's.
Expected(c, a) == IF expected[c][a] = NoRoot THEN fetched[c] ELSE expected[c][a]

\* The tree to save has this step's change.
Changed(c, a) == working[c][a] \cup {<<c, at[c]>>}

Saving(c) == Doing(c, {"save", "offer"}) /\ fetched[c] # NoRoot

\* Mutant: the count of updated records is not looked at.
SaveUnchecked(c) ==
    /\ Saving(c)
    /\ LET a == Account(c) IN
       /\ root' = [root EXCEPT ![a] = IF Expected(c, a) = @ THEN Changed(c, a) ELSE @]
       /\ working' = [working EXCEPT ![c][a] = Changed(c, a)]
       /\ expected' = [expected EXCEPT ![c][a] = Changed(c, a)]
    /\ fetched' = [fetched EXCEPT ![c] = NoRoot]
    /\ answered' = answered \cup {<<c, at[c]>>}
    /\ Advance(c)

\* Mutant: a refused save is passed over.
SaveOrSkip(c) ==
    /\ Saving(c)
    /\ LET a == Account(c)
           fits == Expected(c, a) = root[a] IN
       /\ root' = [root EXCEPT ![a] = IF fits THEN Changed(c, a) ELSE @]
       /\ answered' = IF fits THEN answered \cup {<<c, at[c]>>} ELSE answered
       /\ working' = [working EXCEPT ![c][a] = IF fits THEN Changed(c, a) ELSE @]
       /\ expected' = [expected EXCEPT ![c][a] = IF fits THEN Changed(c, a) ELSE @]
    /\ fetched' = [fetched EXCEPT ![c] = NoRoot]
    /\ Advance(c)

\* The root advances if it is still the expected one.
Save(c) ==
    /\ Saving(c)
    /\ LET a == Account(c) IN
       /\ Expected(c, a) = root[a]
       /\ root' = [root EXCEPT ![a] = Changed(c, a)]
       /\ working' = [working EXCEPT ![c][a] = Changed(c, a)]
       /\ expected' = [expected EXCEPT ![c][a] = Changed(c, a)]
    /\ fetched' = [fetched EXCEPT ![c] = NoRoot]
    /\ answered' = answered \cup {<<c, at[c]>>}
    /\ Advance(c)

\* "The account changed on another server": the save throws, ending the call.
Refuse(c) ==
    /\ Saving(c) /\ Expected(c, Account(c)) # root[Account(c)]
    /\ End(c)
    /\ UNCHANGED root

\* The root advanced, but the database's answer never came.
SaveUnseen(c) ==
    /\ Saving(c)
    /\ Expected(c, Account(c)) = root[Account(c)]
    /\ root' = [root EXCEPT ![Account(c)] = Changed(c, Account(c))]
    /\ End(c)

\* Any other step throws: unknown user, refused request, failing database.
Fail(c) ==
    /\ at[c] \in DOMAIN Plan[c]
    /\ End(c)
    /\ UNCHANGED root

Answer(c) ==
    /\ at[c] = Len(Plan[c]) + 1
    /\ End(c)
    /\ UNCHANGED root

\* A server stops: its queues and its calls are gone, the database is not.
\* It serves the calls that come later with empty queues.
Crash(s) ==
    /\ \E c \in Calls : Host[c] = s /\ phase[c] = "running"
    /\ LET gone == {c \in Calls : Host[c] = s /\ phase[c] # "idle"} IN
       /\ phase' = [c \in Calls |-> IF c \in gone THEN "over" ELSE phase[c]]
       /\ ticket' = [c \in Calls |-> IF c \in gone THEN [a \in Accounts |-> "swept"] ELSE ticket[c]]
       /\ turn' = [c \in Calls |-> IF c \in gone THEN [a \in Accounts |-> 0] ELSE turn[c]]
       /\ prev' = [c \in Calls |-> IF c \in gone THEN [a \in Accounts |-> NoCall] ELSE prev[c]]
       /\ tail' = [tail EXCEPT ![s] = [a \in Accounts |-> NoCall]]
       /\ Drop(gone)
    /\ UNCHANGED <<root, answered>>

\* The next step of a call's handler.
Handle(c) == Load(c) \/ Copy(c) \/ Skip(c) \/ Fetch(c) \/ Save(c) \/ Refuse(c) \/ Answer(c)

\* What a call that has begun does of itself.
Work(c) ==
    \/ Running(c) /\ Handle(c)
    \/ \E a \in Accounts :
        \/ (phase[c] = "running" /\ Queue(c, a))
        \/ Enter(c, a) \/ Leave(c, a) \/ Sweep(c, a)

Next ==
    \/ \E c \in Calls : Work(c)
    \/ \E c \in Calls : Running(c) /\ (SaveUnseen(c) \/ Fail(c))
    \/ \E c \in Calls, a \in Accounts : phase[c] = "idle" /\ Queue(c, a)
    \/ \E s \in Servers : Crash(s)

\* While some promise can go on one does: the database answers.  Calls have
\* finitely many steps, so no fairness among them is needed.
Spec == Init /\ [][Next]_vars /\ WF_vars(\E c \in Calls : Work(c))

-----------------------------------------------------------------------------
(* Properties *)

Tickets == {"none", "queued", "inside", "settled", "swept"}

TypeOK ==
    /\ tail \in [Servers -> [Accounts -> Calls \cup {NoCall}]]
    /\ ticket \in [Calls -> [Accounts -> Tickets]]
    /\ prev \in [Calls -> [Accounts -> Calls \cup {NoCall}]]
    /\ phase \in [Calls -> {"idle", "running", "over"}]
    /\ at \in [Calls -> Nat]
    /\ working \in [Calls -> [Accounts -> Roots]]
    /\ expected \in [Calls -> [Accounts -> Roots \cup {NoRoot}]]
    /\ fetched \in [Calls -> Roots \cup {NoRoot}]
    /\ root \in [Accounts -> Roots]
    /\ answered \subseteq Writes
    /\ turn \in [Calls -> [Accounts -> Nat]]

\* One call at a time works on an account of a server, in the order they came:
\* while a call waits or works, every call that queued after it still waits,
\* whichever of them failed and whenever the queue's entry was swept.
InTurn ==
    \A c, d \in Calls, a \in Accounts :
        /\ c # d /\ Host[c] = Host[d]
        /\ ticket[c][a] \in Live
        /\ turn[c][a] <= turn[d][a]
        => ticket[d][a] # "inside"

\* A write whose save was answered stays in the account's tree whatever other
\* calls and other servers save later ("A second backend instance must not
\* overwrite a root loaded before another writer's commit.", util.ts).
NoCommitLost == \A w \in answered : w \in root[Plan[w[1]][w[2]].at]

\* Several accounts are written in the order the handler means: a guest's own
\* record comes before the host's, so the host never shows a submission whose
\* guest has no record of it, whatever failed or stopped in between.
SavedInOrder ==
    \A c \in Calls : \A i, j \in DOMAIN Plan[c] :
        /\ i < j
        /\ Plan[c][i].do = "save" /\ Plan[c][j].do \in {"save", "offer"}
        /\ <<c, j>> \in root[Plan[c][j].at]
        => <<c, i>> \in root[Plan[c][i].at]

\* Every call that has begun is over some time, with its result, its error or
\* its server, and lets the next one in: locks on several accounts never wait
\* for one another.  Each call comes once, so it is enough that again and again
\* none is half way.
EveryCallLeaves ==
    []<>(\A c \in Calls : phase[c] # "running" /\ \A a \in Accounts : ticket[c][a] \notin Live)

\* No account whose tree a load handler may answer a copy of is used on two
\* servers.  Without this, NoCommitLost and AtomicStore fail.
OneServerWhereCopied ==
    \A c \in Calls : \A i \in DOMAIN Plan[c] :
        Plan[c][i].do = "copy" =>
            \A d \in Calls : Plan[c][i].at \in Keys[d] => Host[d] = Host[c]

\* Every server, under any schedule, implements one growing record per account.
Ledger == INSTANCE AccountLedger WITH Accounts <- Accounts, Writes <- Writes, root <- root
AtomicStore == Ledger!Spec
=============================================================================
