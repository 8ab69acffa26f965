------------------------ MODULE AccountStore_proofs ------------------------
(***************************************************************************)
(* Proofs about AccountStore for any servers, accounts, calls and plans:   *)
(* the type invariant, that the queue of an account is kept, and, where no *)
(* copied account is used on two servers, that saving implements one       *)
(* growing record per account, loses no answered write, and writes several *)
(* accounts in their order.                                                *)
(***************************************************************************)
EXTENDS AccountStore, TLAPS

\* The steps of a plan are steps.
LEMMA PlanType ==
    ASSUME NEW c \in Calls, NEW i \in DOMAIN Plan[c]
    PROVE  Plan[c][i] \in Steps /\ Plan[c][i].at \in Accounts /\ Plan[c][i].at \in Keys[c] /\ i \in Nat /\ i > 0
<1>1. Plan[c] \in Seq(Steps)
  BY CallsAssumption
<1>2. Plan[c][i] \in Steps /\ i \in Nat /\ i > 0
  BY <1>1
<1> QED
  BY <1>2 DEF Steps, Keys

\* The keys of a call are accounts.
LEMMA KeysType ==
    ASSUME NEW c \in Calls
    PROVE  Keys[c] \subseteq Accounts
BY PlanType DEF Keys

\* What a call writes at a step of its plan is a write.
LEMMA WriteType ==
    ASSUME NEW c \in Calls, NEW i \in DOMAIN Plan[c]
    PROVE  <<c, i>> \in Writes
<1>1. {c} \X DOMAIN Plan[c] \in {{d} \X DOMAIN Plan[d] : d \in Calls}
  OBVIOUS
<1> QED
  BY <1>1 DEF Writes

\* A write is made by a call at a step of its plan.
LEMMA WriteParts ==
    ASSUME NEW w \in Writes
    PROVE  \E c \in Calls : \E i \in DOMAIN Plan[c] : w = <<c, i>>
BY DEF Writes

\* No root is not a root.
LEMMA NoRootType == NoRoot \notin Roots
<1> SUFFICES ASSUME NoRoot \in Roots PROVE FALSE
  OBVIOUS
<1>1. <<NoCall, 0>> \in Writes
  BY DEF NoRoot, Roots
<1>2. PICK c \in Calls : \E i \in DOMAIN Plan[c] : <<NoCall, 0>> = <<c, i>>
  BY <1>1, WriteParts
<1> QED
  BY <1>2, CallsAssumption

----------------------------------------------------------------------------
(* The type invariant *)

\* Putting a value of a type where a table has one keeps the table's type.
LEMMA PutType ==
    ASSUME NEW T, NEW f \in [Calls -> [Accounts -> T]],
           NEW c \in Calls, NEW a \in Accounts, NEW v \in T
    PROVE  [f EXCEPT ![c][a] = v] \in [Calls -> [Accounts -> T]]
OBVIOUS

\* What ends a call leaves the types alone.
LEMMA DropType ==
    ASSUME TypeOK, NEW cs, Drop(cs)
    PROVE  /\ working' \in [Calls -> [Accounts -> Roots]]
           /\ expected' \in [Calls -> [Accounts -> Roots \cup {NoRoot}]]
           /\ fetched' \in [Calls -> Roots \cup {NoRoot}]
           /\ at' \in [Calls -> Nat]
<1> USE DEF TypeOK, Drop
<1>1. working' \in [Calls -> [Accounts -> Roots]]
  <2>1. [a \in Accounts |-> {}] \in [Accounts -> Roots]
    BY DEF Roots
  <2> QED
    BY <2>1
<1>2. expected' \in [Calls -> [Accounts -> Roots \cup {NoRoot}]]
  <2>1. [a \in Accounts |-> NoRoot] \in [Accounts -> Roots \cup {NoRoot}]
    OBVIOUS
  <2> QED
    BY <2>1
<1>3. fetched' \in [Calls -> Roots \cup {NoRoot}] /\ at' \in [Calls -> Nat]
  OBVIOUS
<1> QED
  BY <1>1, <1>2, <1>3

\* A step of a handler leaves the queues alone and at most ends its call.
LEMMA HandlerFrame ==
    ASSUME NEW c \in Calls, Handle(c) \/ SaveUnseen(c) \/ Fail(c)
    PROVE  UNCHANGED locks /\ (UNCHANGED phase \/ phase' = [phase EXCEPT ![c] = "over"])
BY DEF Handle, Load, Copy, Skip, Fetch, Save, Refuse, SaveUnseen, Fail, Answer, Advance, End

LEMMA HandlerType ==
    ASSUME TypeOK, NEW c \in Calls, Running(c), Handle(c) \/ SaveUnseen(c) \/ Fail(c)
    PROVE  TypeOK'
<1>1. /\ tail' \in [Servers -> [Accounts -> Calls \cup {NoCall}]]
      /\ ticket' \in [Calls -> [Accounts -> Tickets]]
      /\ prev' \in [Calls -> [Accounts -> Calls \cup {NoCall}]]
      /\ turn' \in [Calls -> [Accounts -> Nat]]
      /\ phase' \in [Calls -> {"idle", "running", "over"}]
  BY HandlerFrame DEF TypeOK, locks
<1>2. Advance(c) => at' \in [Calls -> Nat]
  BY DEF Advance, TypeOK
<1>3. ASSUME at[c] \in DOMAIN Plan[c]
      PROVE  Account(c) \in Accounts /\ Changed(c, Account(c)) \in Roots
  BY <1>3, PlanType, WriteType DEF Account, Changed, TypeOK, Roots
<1>4. CASE Load(c) \/ Copy(c)
  <2>1. at[c] \in DOMAIN Plan[c] /\ Advance(c) /\ UNCHANGED <<fetched, root, answered>>
    BY <1>4 DEF Load, Copy, Doing
  <2>2. Account(c) \in Accounts /\ root[Account(c)] \in Roots
    BY <1>3, <2>1 DEF TypeOK
  <2>3. working' = [working EXCEPT ![c][Account(c)] = root[Account(c)]] \/ working' = working
    BY <1>4 DEF Load, Copy
  <2>4. \/ expected' = [expected EXCEPT ![c][Account(c)] = root[Account(c)]]
        \/ expected' = [expected EXCEPT ![c][Account(c)] = NoRoot]
    BY <1>4 DEF Load, Copy
  <2>5. working' \in [Calls -> [Accounts -> Roots]]
    <3>1. working \in [Calls -> [Accounts -> Roots]]
      BY DEF TypeOK
    <3>2. [working EXCEPT ![c][Account(c)] = root[Account(c)]] \in [Calls -> [Accounts -> Roots]]
      BY <2>2, <3>1, PutType
    <3> QED
      BY <2>3, <3>1, <3>2
  <2>6. expected' \in [Calls -> [Accounts -> Roots \cup {NoRoot}]]
    <3>1. expected \in [Calls -> [Accounts -> Roots \cup {NoRoot}]]
      BY DEF TypeOK
    <3>2. root[Account(c)] \in Roots \cup {NoRoot} /\ NoRoot \in Roots \cup {NoRoot}
      BY <2>2
    <3>3. /\ [expected EXCEPT ![c][Account(c)] = root[Account(c)]] \in [Calls -> [Accounts -> Roots \cup {NoRoot}]]
          /\ [expected EXCEPT ![c][Account(c)] = NoRoot] \in [Calls -> [Accounts -> Roots \cup {NoRoot}]]
      BY <2>2, <3>1, <3>2, PutType
    <3> QED
      BY <2>4, <3>3
  <2> QED
    BY <1>1, <1>2, <2>1, <2>5, <2>6 DEF TypeOK
<1>5. CASE Skip(c) \/ Fetch(c)
  BY <1>1, <1>2, <1>3, <1>5 DEF TypeOK, Skip, Fetch, Doing, content
<1>6. CASE Save(c)
  <2>1. at[c] \in DOMAIN Plan[c] /\ <<c, at[c]>> \in Writes
    BY <1>6, WriteType DEF Save, Saving, Doing
  <2>2. root' \in [Accounts -> Roots] /\ answered' \subseteq Writes
    BY <1>6, <1>3, <2>1 DEF Save, TypeOK
  <2>3. /\ working' \in [Calls -> [Accounts -> Roots]]
        /\ expected' \in [Calls -> [Accounts -> Roots \cup {NoRoot}]]
        /\ fetched' \in [Calls -> Roots \cup {NoRoot}]
    BY <1>6, <1>3, <2>1 DEF Save, TypeOK
  <2>4. at' \in [Calls -> Nat]
    BY <1>2, <1>6 DEF Save
  <2> QED
    BY <1>1, <2>2, <2>3, <2>4 DEF TypeOK
<1>7. CASE Refuse(c) \/ Fail(c) \/ Answer(c)
  BY <1>1, <1>7, DropType DEF TypeOK, Refuse, Fail, Answer, End
<1>8. CASE SaveUnseen(c)
  <2>1. at[c] \in DOMAIN Plan[c]
    BY <1>8 DEF SaveUnseen, Saving, Doing
  <2>2. root' \in [Accounts -> Roots]
    BY <1>8, <1>3, <2>1 DEF SaveUnseen, TypeOK
  <2> QED
    BY <1>1, <1>8, <2>2, DropType DEF TypeOK, SaveUnseen, End
<1> QED
  BY <1>4, <1>5, <1>6, <1>7, <1>8 DEF Handle

LEMMA QueueType ==
    ASSUME TypeOK, NEW c \in Calls, NEW a \in Accounts,
           Queue(c, a) \/ Enter(c, a) \/ Leave(c, a) \/ Sweep(c, a)
    PROVE  TypeOK'
<1>1. Host[c] \in Servers
  BY CallsAssumption
<1>2. CASE Queue(c, a)
  <2>1. LastTurn(Host[c], a) \in Nat
    BY <1>1 DEF LastTurn, TypeOK
  <2> QED
    BY <1>1, <1>2, <2>1 DEF Queue, TypeOK, Tickets, content
<1>3. CASE Enter(c, a)
  BY <1>3 DEF Enter, TypeOK, Tickets, content
<1>4. CASE Leave(c, a)
  BY <1>4 DEF Leave, TypeOK, Tickets, content
<1>5. CASE Sweep(c, a)
  BY <1>1, <1>5 DEF Sweep, TypeOK, Tickets, content
<1> QED
  BY <1>2, <1>3, <1>4, <1>5

LEMMA CrashType ==
    ASSUME TypeOK, NEW s \in Servers, Crash(s)
    PROVE  TypeOK'
<1>1. /\ ticket' \in [Calls -> [Accounts -> Tickets]]
      /\ phase' \in [Calls -> {"idle", "running", "over"}]
  BY DEF Crash, TypeOK, Tickets
<1>2. /\ turn' \in [Calls -> [Accounts -> Nat]]
      /\ prev' \in [Calls -> [Accounts -> Calls \cup {NoCall}]]
      /\ tail' \in [Servers -> [Accounts -> Calls \cup {NoCall}]]
  BY DEF Crash, TypeOK
<1>3. Drop({c \in Calls : Host[c] = s /\ phase[c] # "idle"}) /\ UNCHANGED <<root, answered>>
  BY DEF Crash
<1> QED
  BY <1>1, <1>2, <1>3, DropType DEF TypeOK

\* Every step is one of a handler, of a queue, or a server stopping.
LEMMA Kinds ==
    ASSUME Next
    PROVE  \/ \E c \in Calls : Running(c) /\ (Handle(c) \/ SaveUnseen(c) \/ Fail(c))
           \/ \E c \in Calls, a \in Accounts : Queue(c, a) \/ Enter(c, a) \/ Leave(c, a) \/ Sweep(c, a)
           \/ \E s \in Servers : Crash(s)
BY DEF Next, Work

LEMMA TypeInit == Init => TypeOK
BY DEF Init, TypeOK, Tickets, Roots

LEMMA TypeStep == TypeOK /\ [Next]_vars => TypeOK'
<1> SUFFICES ASSUME TypeOK, [Next]_vars PROVE TypeOK'
  OBVIOUS
<1>1. CASE UNCHANGED vars
  BY <1>1 DEF vars, locks, content, TypeOK
<1>2. CASE Next
  BY <1>2, Kinds, HandlerType, QueueType, CrashType
<1> QED
  BY <1>1, <1>2

\* The state keeps its types: what a call holds of an account, and what the
\* database has, are sets of writes that plans make.
THEOREM TypeCorrect == Spec => []TypeOK
BY TypeInit, TypeStep, PTL DEF Spec

----------------------------------------------------------------------------
(* The queue of an account *)

\* Two calls of a server with a place in the queue of an account.
Both(c, d, a) ==
    /\ c # d /\ Host[c] = Host[d]
    /\ ticket[c][a] \in Live /\ ticket[d][a] \in Live

\* Behind: who has a place is no idle call, and the last call of the queue has
\* the highest turn.  Distinct: no two have the same turn.  Ordered: whoever
\* has a higher turn waits.  Linked: a waiting call with someone before it
\* waits for a call that has a place, and for none further ahead than that.
Behind ==
    \A c \in Calls, a \in Accounts : ticket[c][a] \in Live =>
        LET t == tail[Host[c]][a] IN
        /\ phase[c] # "idle" /\ t \in Calls /\ Host[t] = Host[c]
        /\ ticket[t][a] \in Live /\ turn[c][a] <= turn[t][a]
Distinct == \A c, d \in Calls, a \in Accounts : Both(c, d, a) => turn[c][a] # turn[d][a]
Ordered ==
    \A c, d \in Calls, a \in Accounts :
        Both(c, d, a) /\ turn[c][a] < turn[d][a] => ticket[d][a] = "queued"
Linked ==
    \A c, d \in Calls, a \in Accounts :
        Both(c, d, a) /\ turn[c][a] < turn[d][a] =>
            LET p == prev[d][a] IN
            /\ p \in Calls /\ Host[p] = Host[d] /\ p # d
            /\ ticket[p][a] \in Live /\ turn[c][a] <= turn[p][a]
QueueInv == Behind /\ Distinct /\ Ordered /\ Linked

LEMMA QueueInit == Init => QueueInv
BY DEF Init, QueueInv, Behind, Distinct, Ordered, Linked, Both, Live

\* A step that leaves the queues alone and starts no call keeps the invariant.
LEMMA QueueFrame ==
    ASSUME QueueInv, UNCHANGED locks,
           \A c \in Calls : phase[c] # "idle" => phase'[c] # "idle"
    PROVE  QueueInv'
BY DEF QueueInv, Behind, Distinct, Ordered, Linked, Both, locks

\* What queueing does to the tables.
LEMMA QueueTables ==
    ASSUME TypeOK, NEW c \in Calls, NEW a \in Accounts, Queue(c, a)
    PROVE  /\ ticket[c][a] = "none" /\ ticket'[c][a] = "queued"
           /\ turn'[c][a] = LastTurn(Host[c], a) + 1 /\ prev'[c][a] = tail[Host[c]][a]
           /\ tail'[Host[c]][a] = c /\ phase'[c] # "idle"
           /\ \A d \in Calls, b \in Accounts : ~ (d = c /\ b = a) =>
                 ticket'[d][b] = ticket[d][b] /\ turn'[d][b] = turn[d][b] /\ prev'[d][b] = prev[d][b]
           /\ \A s \in Servers, b \in Accounts : ~ (s = Host[c] /\ b = a) => tail'[s][b] = tail[s][b]
           /\ \A d \in Calls : phase[d] # "idle" => phase'[d] # "idle"
BY CallsAssumption DEF Queue, TurnOf, TypeOK

LEMMA QueueKeeps ==
    ASSUME TypeOK, QueueInv, NEW c \in Calls, NEW a \in Accounts, Queue(c, a)
    PROVE  QueueInv'
<1> DEFINE t == tail[Host[c]][a]
<1> USE DEF Live
<1>1. Host[c] \in Servers /\ \A d \in Calls : Host[d] \in Servers
  BY CallsAssumption
<1>2. \A d \in Calls, b \in Accounts : turn[d][b] \in Nat /\ turn'[d][b] \in Nat
  BY QueueType DEF TypeOK
\* Whoever has a place has a lower turn than the newcomer, and the last of them has one.
<1>3. \A d \in Calls : Host[d] = Host[c] /\ ticket[d][a] \in Live =>
        /\ t \in Calls /\ Host[t] = Host[c] /\ ticket[t][a] \in Live
        /\ turn[d][a] <= turn[t][a] /\ turn'[c][a] = turn[t][a] + 1
  <2> SUFFICES ASSUME NEW d \in Calls, Host[d] = Host[c], ticket[d][a] \in Live
               PROVE  /\ t \in Calls /\ Host[t] = Host[c] /\ ticket[t][a] \in Live
                      /\ turn[d][a] <= turn[t][a] /\ turn'[c][a] = turn[t][a] + 1
    OBVIOUS
  <2>1. /\ t \in Calls /\ Host[t] = Host[c] /\ ticket[t][a] \in Live
        /\ turn[d][a] <= turn[t][a]
    BY DEF QueueInv, Behind
  <2>2. turn'[c][a] = LastTurn(Host[c], a) + 1
    BY QueueTables
  <2>3. LastTurn(Host[c], a) = turn[t][a]
    BY <2>1, CallsAssumption DEF LastTurn
  <2> QED
    BY <2>1, <2>2, <2>3
<1>4. \A d \in Calls : Host[d] = Host[c] /\ ticket[d][a] \in Live => d # c /\ turn[d][a] < turn'[c][a]
  BY <1>2, <1>3, QueueTables
<1>5. Behind'
  BY <1>1, <1>2, <1>4, QueueTables DEF QueueInv, Behind
<1>6. Distinct'
  BY <1>2, <1>4, QueueTables DEF QueueInv, Distinct, Both
<1>7. Ordered'
  BY <1>2, <1>4, QueueTables DEF QueueInv, Ordered, Both
<1>8. Linked'
  BY <1>2, <1>3, <1>4, QueueTables DEF QueueInv, Linked, Both
<1> QED
  BY <1>5, <1>6, <1>7, <1>8 DEF QueueInv

\* A call enters when nobody with a lower turn has a place: whoever it was
\* queued behind would have one too.
LEMMA EnterKeeps ==
    ASSUME TypeOK, QueueInv, NEW c \in Calls, NEW a \in Accounts, Enter(c, a)
    PROVE  QueueInv'
<1> USE DEF Live
<1>1. /\ ticket[c][a] = "queued" /\ ticket'[c][a] = "inside"
      /\ \A d \in Calls, b \in Accounts : ~ (d = c /\ b = a) =>
            ticket'[d][b] = ticket[d][b] /\ prev'[d][b] = prev[d][b]
      /\ UNCHANGED <<tail, turn, phase>>
  BY DEF Enter, TypeOK
<1>2. \A d \in Calls, b \in Accounts : ticket'[d][b] \in Live <=> ticket[d][b] \in Live
  BY <1>1
<1>3. \A d \in Calls : ~ (Both(d, c, a) /\ turn[d][a] < turn[c][a])
  BY CallsAssumption DEF QueueInv, Linked, Enter, Clear
<1>4. Behind'
  BY <1>1, <1>2 DEF QueueInv, Behind
<1>5. Distinct'
  BY <1>1, <1>2 DEF QueueInv, Distinct, Both
<1>6. Ordered'
  BY <1>1, <1>2, <1>3 DEF QueueInv, Ordered, Both
<1>7. Linked'
  BY <1>1, <1>2, <1>3 DEF QueueInv, Linked, Both
<1> QED
  BY <1>4, <1>5, <1>6, <1>7 DEF QueueInv

\* Whoever is inside has the lowest turn, so that nobody with a place is
\* ahead of the call that waits for it.
LEMMA LeaveKeeps ==
    ASSUME TypeOK, QueueInv, NEW c \in Calls, NEW a \in Accounts, Leave(c, a)
    PROVE  QueueInv'
<1> USE DEF Live
<1>1. /\ ticket[c][a] = "inside" /\ ticket'[c][a] = "settled"
      /\ \A d \in Calls, b \in Accounts : ~ (d = c /\ b = a) =>
            ticket'[d][b] = ticket[d][b] /\ turn'[d][b] = turn[d][b]
      /\ UNCHANGED <<tail, prev, phase>>
  BY DEF Leave, TypeOK
<1>2. \A d \in Calls, b \in Accounts : turn[d][b] \in Nat
  BY DEF TypeOK
<1>3. \A d \in Calls : Both(d, c, a) => turn[c][a] < turn[d][a]
  BY <1>1, <1>2 DEF QueueInv, Distinct, Ordered, Both
<1>4. \A d \in Calls : Both(d, c, a) => tail[Host[d]][a] # c
  BY <1>2, <1>3 DEF QueueInv, Behind, Both
<1>5. Behind'
  BY <1>1, <1>4 DEF QueueInv, Behind, Both
<1>6. Distinct'
  BY <1>1 DEF QueueInv, Distinct, Both
<1>7. Ordered'
  BY <1>1 DEF QueueInv, Ordered, Both
<1>8. Linked'
  <2>1. \A d, e \in Calls : Both(d, e, a) /\ d # c /\ e # c /\ turn[d][a] < turn[e][a] => prev[e][a] # c
    BY <1>1, <1>2, <1>3 DEF QueueInv, Linked, Both
  <2> QED
    BY <1>1, <2>1 DEF QueueInv, Linked, Both
<1> QED
  BY <1>5, <1>6, <1>7, <1>8 DEF QueueInv

\* The entry that is swept is that of a call without a place, and whoever has
\* a place has the queue's last call behind it.
LEMMA SweepKeeps ==
    ASSUME TypeOK, QueueInv, NEW c \in Calls, NEW a \in Accounts, Sweep(c, a)
    PROVE  QueueInv'
<1> USE DEF Live
<1>1. /\ ticket[c][a] = "settled" /\ ticket'[c][a] = "swept"
      /\ \A d \in Calls, b \in Accounts : ~ (d = c /\ b = a) => ticket'[d][b] = ticket[d][b]
      /\ UNCHANGED <<turn, prev, phase>>
  BY DEF Sweep, TypeOK
<1>2. ASSUME NEW s \in Servers, NEW b \in Accounts
      PROVE  tail'[s][b] = tail[s][b] \/ (b = a /\ tail[s][b] = c)
  <2>1. tail[Host[c]] \in [Accounts -> Calls \cup {NoCall}] /\ tail \in [Servers -> [Accounts -> Calls \cup {NoCall}]]
    BY CallsAssumption DEF TypeOK
  <2>2. tail' = [tail EXCEPT ![Host[c]][a] = IF tail[Host[c]][a] = c THEN NoCall ELSE tail[Host[c]][a]]
    BY DEF Sweep
  <2> QED
    BY <2>1, <2>2, CallsAssumption
<1>3. Behind'
  <2> SUFFICES ASSUME NEW d \in Calls, NEW b \in Accounts, ticket'[d][b] \in Live
               PROVE  LET t == tail'[Host[d]][b] IN
                      /\ phase'[d] # "idle" /\ t \in Calls /\ Host[t] = Host[d]
                      /\ ticket'[t][b] \in Live /\ turn'[d][b] <= turn'[t][b]
    BY DEF Behind
  <2>1. ticket[d][b] \in Live
    BY <1>1
  <2>2. Host[d] \in Servers
    BY CallsAssumption
  <2>3. tail'[Host[d]][b] = tail[Host[d]][b]
    BY <1>1, <1>2, <2>1, <2>2 DEF QueueInv, Behind
  <2> QED
    BY <1>1, <2>1, <2>3 DEF QueueInv, Behind
<1>4. Distinct' /\ Ordered' /\ Linked'
  BY <1>1 DEF QueueInv, Distinct, Ordered, Linked, Both
<1> QED
  BY <1>3, <1>4 DEF QueueInv

\* A server that stops takes all its places with it, and no other's.
LEMMA CrashKeeps ==
    ASSUME TypeOK, QueueInv, NEW s \in Servers, Crash(s)
    PROVE  QueueInv'
<1> USE DEF Live
<1>1. \A c \in Calls, a \in Accounts : Host[c] = s => ticket'[c][a] \notin Live
  BY DEF Crash, QueueInv, Behind
<1>2. \A c \in Calls : Host[c] # s =>
        ticket'[c] = ticket[c] /\ turn'[c] = turn[c] /\ prev'[c] = prev[c] /\ phase'[c] = phase[c]
  BY DEF Crash
<1>3. \A r \in Servers : r # s => tail'[r] = tail[r]
  BY DEF Crash, TypeOK
<1>4. Behind'
  <2> SUFFICES ASSUME NEW d \in Calls, NEW b \in Accounts, ticket'[d][b] \in Live
               PROVE  LET t == tail'[Host[d]][b] IN
                      /\ phase'[d] # "idle" /\ t \in Calls /\ Host[t] = Host[d]
                      /\ ticket'[t][b] \in Live /\ turn'[d][b] <= turn'[t][b]
    BY DEF Behind
  <2>1. Host[d] # s /\ Host[d] \in Servers /\ ticket[d][b] \in Live
    BY <1>1, <1>2, CallsAssumption
  <2>2. tail'[Host[d]][b] = tail[Host[d]][b]
    BY <1>3, <2>1
  <2> QED
    BY <1>2, <2>1, <2>2 DEF QueueInv, Behind
<1>5. Distinct' /\ Ordered' /\ Linked'
  BY <1>1, <1>2 DEF QueueInv, Distinct, Ordered, Linked, Both
<1> QED
  BY <1>4, <1>5 DEF QueueInv

LEMMA QueueStep == TypeOK /\ QueueInv /\ [Next]_vars => QueueInv'
<1> SUFFICES ASSUME TypeOK, QueueInv, [Next]_vars PROVE QueueInv'
  OBVIOUS
<1>1. CASE UNCHANGED vars
  BY <1>1, QueueFrame DEF vars
<1>2. ASSUME NEW c \in Calls, Handle(c) \/ SaveUnseen(c) \/ Fail(c)
      PROVE  QueueInv'
  <2>1. \A d \in Calls : phase[d] # "idle" => phase'[d] # "idle"
    BY <1>2, HandlerFrame DEF TypeOK
  <2> QED
    BY <1>2, <2>1, HandlerFrame, QueueFrame
<1>3. CASE Next
  BY <1>2, <1>3, Kinds, QueueKeeps, EnterKeeps, LeaveKeeps, SweepKeeps, CrashKeeps
<1> QED
  BY <1>1, <1>3

LEMMA QueueIsKept == TypeOK /\ QueueInv => InTurn
<1> SUFFICES ASSUME TypeOK, QueueInv, NEW c \in Calls, NEW d \in Calls, NEW a \in Accounts,
                    c # d, Host[c] = Host[d], ticket[c][a] \in Live,
                    turn[c][a] <= turn[d][a], ticket[d][a] = "inside"
             PROVE  FALSE
  BY DEF InTurn
<1>1. Both(c, d, a)
  BY DEF Both, Live
<1>2. turn[c][a] \in Nat /\ turn[d][a] \in Nat
  BY DEF TypeOK
<1>3. turn[c][a] < turn[d][a]
  BY <1>1, <1>2 DEF QueueInv, Distinct
<1> QED
  BY <1>1, <1>3 DEF QueueInv, Ordered

\* A server works on an account for one call at a time, in the order the calls
\* came: withUserLock's chain of promises keeps its order through calls that
\* fail, entries that are swept and restarts.
THEOREM FirstComeFirstServed == Spec => []InTurn
BY TypeInit, TypeStep, QueueInit, QueueStep, QueueIsKept, PTL DEF Spec

----------------------------------------------------------------------------
(* What saving does to the database *)

\* A call has loaded an account; an account is used on the call's server alone.
Loaded(c, a) == \E i \in DOMAIN Plan[c] : i < at[c] /\ Plan[c][i].do = "load" /\ Plan[c][i].at = a
Alone(c, a) == \A d \in Calls : a \in Keys[d] => Host[d] = Host[c]

\* Held: a call that has begun its plan holds its locks.  Known: a remembered
\* root is that of the tree.  Copied, Fresh: a tree without one is that of an
\* account used on one server, where the tree of the call inside is the
\* database's.  Unmade, Made: a call's writes are in the database from the
\* step that makes them on.
Held == \A c \in Calls : at[c] # 1 => phase[c] = "running" /\ Locked(c)
Known == \A c \in Calls, a \in Accounts : expected[c][a] # NoRoot => working[c][a] = expected[c][a]
Copied == \A c \in Calls, a \in Accounts : Loaded(c, a) /\ expected[c][a] = NoRoot => Alone(c, a)
Fresh == \A c \in Calls, a \in Accounts : Loaded(c, a) /\ Alone(c, a) => working[c][a] = root[a]
Unmade ==
    \A c \in Calls, a \in Accounts : \A i \in DOMAIN Plan[c] :
        <<c, i>> \in root[a] => phase[c] = "over" \/ i < at[c]
Made ==
    \A c \in Calls : \A i \in DOMAIN Plan[c] :
        i < at[c] /\ Plan[c][i].do = "save" => <<c, i>> \in root[Plan[c][i].at]
StoreInv == Held /\ Known /\ Copied /\ Fresh /\ Unmade /\ Made

LEMMA StoreInit == Init => StoreInv
<1> SUFFICES ASSUME Init PROVE StoreInv
  OBVIOUS
<1>1. \A c \in Calls, a \in Accounts : ~ Loaded(c, a)
  BY PlanType DEF Init, Loaded
<1>2. Held /\ Known
  BY DEF Init, Held, Known
<1>3. Copied /\ Fresh
  BY <1>1 DEF Copied, Fresh
<1>4. Unmade /\ Made
  BY PlanType DEF Init, Unmade, Made
<1> QED
  BY <1>2, <1>3, <1>4 DEF StoreInv

\* What a call saves it has loaded.
LEMMA SavedWasLoaded ==
    ASSUME NEW c \in Calls, Saving(c)
    PROVE  /\ at[c] \in DOMAIN Plan[c] /\ Account(c) \in Accounts /\ Account(c) \in Keys[c]
           /\ <<c, at[c]>> \in Writes /\ Loaded(c, Account(c))
<1>1. at[c] \in DOMAIN Plan[c] /\ Plan[c][at[c]].do # "load"
  BY DEF Saving, Doing
<1>2. PICK i \in 1..at[c] : Plan[c][i].do = "load" /\ Plan[c][i].at = Plan[c][at[c]].at
  BY <1>1, LoadedAssumption
<1>3. Plan[c] \in Seq(Steps) /\ at[c] \in 1..Len(Plan[c])
  BY <1>1, CallsAssumption
<1>4. i \in DOMAIN Plan[c] /\ i < at[c]
  BY <1>1, <1>2, <1>3
<1> QED
  BY <1>1, <1>2, <1>4, PlanType, WriteType DEF Loaded, Account

\* A save whose root is the expected one adds its write to what is there.
LEMMA SaveAdds ==
    ASSUME TypeOK, StoreInv, NEW c \in Calls, Running(c), Saving(c),
           Expected(c, Account(c)) = root[Account(c)]
    PROVE  /\ Changed(c, Account(c)) = root[Account(c)] \cup {<<c, at[c]>>}
           /\ <<c, at[c]>> \notin root[Account(c)]
<1> DEFINE a == Account(c)
<1>1. a \in Accounts /\ Loaded(c, a) /\ at[c] \in DOMAIN Plan[c]
  BY SavedWasLoaded
<1>2. working[c][a] = root[a]
  <2>1. CASE expected[c][a] = NoRoot
    BY <1>1, <2>1 DEF StoreInv, Copied, Fresh
  <2>2. CASE expected[c][a] # NoRoot
    BY <1>1, <2>2 DEF StoreInv, Known, Expected
  <2> QED
    BY <2>1, <2>2
<1>3. phase[c] # "over" /\ ~ (at[c] < at[c])
  BY DEF Running, TypeOK
<1> QED
  BY <1>1, <1>2, <1>3 DEF Changed, StoreInv, Unmade

\* A handler's step leaves the database alone or adds one write to one account.
LEMMA HandlerAdds ==
    ASSUME TypeOK, StoreInv, NEW c \in Calls, Running(c), Handle(c) \/ SaveUnseen(c) \/ Fail(c)
    PROVE  \/ UNCHANGED root
           \/ /\ Saving(c) /\ <<c, at[c]>> \notin root[Account(c)]
              /\ root' = [root EXCEPT ![Account(c)] = root[Account(c)] \cup {<<c, at[c]>>}]
<1>1. CASE Save(c) \/ SaveUnseen(c)
  <2>1. Saving(c) /\ Expected(c, Account(c)) = root[Account(c)]
        /\ root' = [root EXCEPT ![Account(c)] = Changed(c, Account(c))]
    BY <1>1 DEF Save, SaveUnseen
  <2> QED
    BY <2>1, SaveAdds
<1>2. CASE ~ (Save(c) \/ SaveUnseen(c))
  BY <1>2 DEF Handle, Load, Copy, Skip, Fetch, Refuse, Fail, Answer, content
<1> QED
  BY <1>1, <1>2

\* Of the calls of a server one at a time is inside an account.
LEMMA OneInside ==
    ASSUME TypeOK, QueueInv, NEW c \in Calls, NEW d \in Calls, NEW a \in Accounts,
           Host[c] = Host[d], ticket[c][a] = "inside", ticket[d][a] = "inside"
    PROVE  c = d
<1>1. turn[c][a] \in Nat /\ turn[d][a] \in Nat
  BY DEF TypeOK
<1>2. turn[c][a] <= turn[d][a] \/ turn[d][a] <= turn[c][a]
  BY <1>1
<1> QED
  BY <1>2, QueueIsKept DEF InTurn, Live

\* Other calls keep what they have through a handler's step.
LEMMA HandlerOthers ==
    ASSUME TypeOK, NEW c \in Calls, Handle(c) \/ SaveUnseen(c) \/ Fail(c), NEW d \in Calls, d # c
    PROVE  /\ at'[d] = at[d] /\ phase'[d] = phase[d]
           /\ working'[d] = working[d] /\ expected'[d] = expected[d]
<1>1. CASE Load(c) \/ Copy(c) \/ Skip(c) \/ Fetch(c) \/ Save(c)
  <2>1. at'[d] = at[d] /\ phase'[d] = phase[d]
    BY <1>1 DEF Load, Copy, Skip, Fetch, Save, Advance, TypeOK
  <2>2. working'[d] = working[d] /\ expected'[d] = expected[d]
    BY <1>1 DEF Load, Copy, Skip, Fetch, Save, TypeOK, content
  <2> QED
    BY <2>1, <2>2
<1>2. CASE Refuse(c) \/ SaveUnseen(c) \/ Fail(c) \/ Answer(c)
  <2>1. End(c)
    BY <1>2 DEF Refuse, SaveUnseen, Fail, Answer
  <2> QED
    BY <2>1 DEF End, Drop, TypeOK
<1> QED
  BY <1>1, <1>2 DEF Handle

\* What a step that goes on does to what its call holds: a load or a save
\* leaves it with the database's tree and its root, any other with the tree it
\* had and the root remembered for it, or none where the account is alone.
LEMMA HandlerOwn ==
    ASSUME TypeOK, StoreInv, OneServerWhereCopied, NEW c \in Calls, Running(c),
           Load(c) \/ Copy(c) \/ Skip(c) \/ Save(c)
    PROVE  /\ at[c] \in DOMAIN Plan[c] /\ at'[c] = at[c] + 1 /\ UNCHANGED phase
           /\ \A a \in Accounts : a # Account(c) =>
                working'[c][a] = working[c][a] /\ expected'[c][a] = expected[c][a]
           /\ \/ /\ working'[c][Account(c)] = root'[Account(c)]
                 /\ expected'[c][Account(c)] = root'[Account(c)]
              \/ /\ working'[c][Account(c)] = working[c][Account(c)] /\ UNCHANGED root
                 /\ Plan[c][at[c]].do \notin {"load", "save"}
                 /\ \/ expected'[c][Account(c)] = expected[c][Account(c)]
                    \/ expected'[c][Account(c)] = NoRoot /\ Alone(c, Account(c))
           /\ Plan[c][at[c]].do = "save" => <<c, at[c]>> \in root'[Account(c)]
<1>1. at[c] \in DOMAIN Plan[c] /\ Advance(c)
  BY DEF Load, Copy, Skip, Save, Saving, Doing
<1>2. at'[c] = at[c] + 1 /\ UNCHANGED phase /\ Account(c) \in Accounts
  BY <1>1, PlanType DEF Advance, Account, TypeOK
<1>3. CASE Load(c)
  BY <1>1, <1>2, <1>3 DEF Load, Doing, TypeOK
<1>4. CASE Copy(c)
  <2>1. Plan[c][at[c]].do = "copy"
    BY <1>4 DEF Copy, Doing
  <2>2. Alone(c, Account(c))
    BY <1>1, <2>1 DEF OneServerWhereCopied, Alone, Account
  <2> QED
    BY <1>1, <1>2, <1>4, <2>1, <2>2 DEF Copy, TypeOK
<1>5. CASE Skip(c)
  BY <1>1, <1>2, <1>5 DEF Skip, Doing, content
<1>6. CASE Save(c)
  <2> DEFINE a == Account(c)
  <2>1. /\ root' = [root EXCEPT ![a] = Changed(c, a)]
        /\ working' = [working EXCEPT ![c][a] = Changed(c, a)]
        /\ expected' = [expected EXCEPT ![c][a] = Changed(c, a)]
    BY <1>6 DEF Save
  <2>2. /\ root'[a] = Changed(c, a) /\ working'[c][a] = Changed(c, a)
        /\ expected'[c][a] = Changed(c, a)
    BY <1>2, <2>1 DEF TypeOK
  <2>3. \A b \in Accounts : b # a => working'[c][b] = working[c][b] /\ expected'[c][b] = expected[c][b]
    BY <1>2, <2>1 DEF TypeOK
  <2>4. <<c, at[c]>> \in Changed(c, a)
    BY DEF Changed
  <2> QED
    BY <1>1, <1>2, <2>2, <2>3, <2>4
<1> QED
  BY <1>3, <1>4, <1>5, <1>6

\* What the lemmas above leave of a handler's step for an invariant's proof.
LEMMA HandlerCases ==
    ASSUME TypeOK, NEW c \in Calls, Handle(c) \/ SaveUnseen(c) \/ Fail(c)
    PROVE  \/ Load(c) \/ Copy(c) \/ Skip(c) \/ Save(c)
           \/ UNCHANGED <<at, phase, working, expected, answered, root>>
           \/ /\ at'[c] = 1 /\ phase'[c] = "over" /\ UNCHANGED answered
              /\ \A a \in Accounts : expected'[c][a] = NoRoot
<1>1. CASE Fetch(c)
  BY <1>1 DEF Fetch
<1>2. CASE Refuse(c) \/ SaveUnseen(c) \/ Fail(c) \/ Answer(c)
  <2>1. End(c)
    BY <1>2 DEF Refuse, SaveUnseen, Fail, Answer
  <2> QED
    BY <2>1 DEF End, Drop, TypeOK
<1> QED
  BY <1>1, <1>2 DEF Handle

\* What a step leaves in the database or adds to it.
LEMMA HandlerGrows ==
    ASSUME TypeOK, StoreInv, NEW c \in Calls, Running(c), Handle(c) \/ SaveUnseen(c) \/ Fail(c)
    PROVE  /\ \A a \in Accounts : root[a] \subseteq root'[a]
           /\ \A a \in Accounts : \A w : w \in root'[a] => w \in root[a] \/ w = <<c, at[c]>>
           /\ \A a \in Accounts : root'[a] # root[a] => a = Account(c) /\ a \in Keys[c]
<1>1. CASE UNCHANGED root
  BY <1>1
<1>2. CASE /\ Saving(c) /\ <<c, at[c]>> \notin root[Account(c)]
           /\ root' = [root EXCEPT ![Account(c)] = root[Account(c)] \cup {<<c, at[c]>>}]
  <2>1. Account(c) \in Accounts /\ Account(c) \in Keys[c]
    BY <1>2, SavedWasLoaded
  <2>2. \A a \in Accounts : root'[a] = IF a = Account(c) THEN root[a] \cup {<<c, at[c]>>} ELSE root[a]
    BY <1>2, <2>1 DEF TypeOK
  <2> QED
    BY <2>1, <2>2
<1> QED
  BY <1>1, <1>2, HandlerAdds

\* A handler's step keeps every part of the invariant.
LEMMA HandlerKeeps ==
    ASSUME TypeOK, TypeOK', QueueInv, StoreInv, OneServerWhereCopied,
           NEW c \in Calls, Running(c), Handle(c) \/ SaveUnseen(c) \/ Fail(c)
    PROVE  StoreInv'
<1> DEFINE Goes  == Load(c) \/ Copy(c) \/ Skip(c) \/ Save(c)
           Stays == UNCHANGED <<at, phase, working, expected, answered, root>>
           Ends  == /\ at'[c] = 1 /\ phase'[c] = "over" /\ UNCHANGED answered
                    /\ \A a \in Accounts : expected'[c][a] = NoRoot
<1>1. Goes \/ Stays \/ Ends
  BY HandlerCases
<1>2. at[c] \in Nat /\ phase[c] = "running" /\ Locked(c) /\ UNCHANGED ticket
  BY HandlerFrame DEF TypeOK, Running, locks
<1>3. Goes => /\ at[c] \in DOMAIN Plan[c] /\ Account(c) \in Accounts
              /\ at'[c] = at[c] + 1 /\ UNCHANGED phase
  BY HandlerOwn, PlanType DEF Account
<1>4. \A a \in Accounts : Goes /\ Loaded(c, a)' =>
        Loaded(c, a) \/ (a = Account(c) /\ Plan[c][at[c]].do = "load")
  BY <1>2, <1>3, PlanType DEF Loaded, Account
<1>5. \A d \in Calls, a \in Accounts : d # c => (Loaded(d, a)' <=> Loaded(d, a))
  BY HandlerOthers DEF Loaded
<1>6. Ends => \A a \in Accounts : ~ Loaded(c, a)'
  BY PlanType DEF Loaded
<1>7. Held'
  <2> SUFFICES ASSUME NEW d \in Calls, at'[d] # 1
               PROVE  phase'[d] = "running" /\ Locked(d)'
    BY DEF Held
  <2>1. CASE d # c
    BY <1>2, <2>1, HandlerOthers DEF StoreInv, Held, Locked
  <2>2. CASE d = c
    BY <1>1, <1>2, <1>3, <2>2 DEF Locked
  <2> QED
    BY <2>1, <2>2
<1>8. Known'
  <2> SUFFICES ASSUME NEW d \in Calls, NEW a \in Accounts, expected'[d][a] # NoRoot
               PROVE  working'[d][a] = expected'[d][a]
    BY DEF Known
  <2>1. CASE d # c
    BY <2>1, HandlerOthers DEF StoreInv, Known
  <2>2. CASE d = c /\ Goes
    <3>1. CASE a # Account(c)
      <4>1. working'[c][a] = working[c][a] /\ expected'[c][a] = expected[c][a]
        BY <2>2, <3>1, HandlerOwn
      <4> QED
        BY <2>2, <4>1 DEF StoreInv, Known
    <3>2. CASE a = Account(c)
      <4>1. \/ working'[c][a] = root'[a] /\ expected'[c][a] = root'[a]
            \/ working'[c][a] = working[c][a] /\ expected'[c][a] = expected[c][a]
        BY <2>2, <3>2, HandlerOwn
      <4> QED
        BY <2>2, <4>1 DEF StoreInv, Known
    <3> QED
      BY <3>1, <3>2
  <2>3. CASE d = c /\ ~ Goes
    BY <1>1, <2>3 DEF StoreInv, Known
  <2> QED
    BY <2>1, <2>2, <2>3
<1>9. Copied'
  <2> SUFFICES ASSUME NEW d \in Calls, NEW a \in Accounts, Loaded(d, a)', expected'[d][a] = NoRoot
               PROVE  Alone(d, a)
    BY DEF Copied, Alone
  <2>1. CASE d # c
    BY <1>5, <2>1, HandlerOthers DEF StoreInv, Copied
  <2>2. CASE d = c /\ Goes
    <3>1. root'[a] # NoRoot
      BY NoRootType DEF TypeOK
    <3>2. Loaded(c, a) \/ (a = Account(c) /\ Plan[c][at[c]].do = "load")
      BY <1>4, <2>2
    <3> QED
      BY <2>2, <3>1, <3>2, HandlerOwn DEF StoreInv, Copied
  <2>3. CASE d = c /\ Stays
    BY <2>3 DEF StoreInv, Copied, Loaded
  <2>4. CASE d = c /\ Ends
    BY <1>6, <2>4
  <2> QED
    BY <1>1, <2>1, <2>2, <2>3, <2>4
<1>10. Fresh'
  <2> SUFFICES ASSUME NEW d \in Calls, NEW a \in Accounts, Loaded(d, a)', Alone(d, a)
               PROVE  working'[d][a] = root'[a]
    BY DEF Fresh, Alone
  <2>1. CASE d # c
    <3>1. Loaded(d, a) /\ working'[d] = working[d]
      BY <1>5, <2>1, HandlerOthers
    <3>2. at[d] # 1 /\ a \in Keys[d]
      BY <3>1, PlanType DEF Loaded
    <3>3. ticket[d][a] = "inside"
      BY <3>2 DEF StoreInv, Held, Locked
    <3>4. ASSUME root'[a] # root[a] PROVE FALSE
      <4>1. a \in Keys[c]
        BY <3>4, HandlerGrows
      <4>2. Host[c] = Host[d] /\ ticket[c][a] = "inside"
        BY <1>2, <4>1 DEF Alone, Locked
      <4> QED
        BY <2>1, <3>3, <4>2, OneInside
    <3> QED
      BY <3>1, <3>4 DEF StoreInv, Fresh
  <2>2. CASE d = c /\ Goes
    <3>1. CASE a # Account(c)
      <4>1. working'[c][a] = working[c][a] /\ root'[a] = root[a]
        BY <2>2, <3>1, HandlerOwn, HandlerGrows
      <4>2. Loaded(c, a)
        BY <1>4, <2>2, <3>1
      <4> QED
        BY <2>2, <4>1, <4>2 DEF StoreInv, Fresh
    <3>2. CASE a = Account(c)
      <4>1. CASE working'[c][a] = root'[a]
        BY <2>2, <4>1
      <4>2. CASE working'[c][a] # root'[a]
        <5>1. /\ working'[c][a] = working[c][a] /\ UNCHANGED root
              /\ Plan[c][at[c]].do # "load"
          BY <2>2, <3>2, <4>2, HandlerOwn
        <5>2. Loaded(c, a)
          BY <1>4, <2>2, <5>1
        <5> QED
          BY <2>2, <5>1, <5>2 DEF StoreInv, Fresh
      <4> QED
        BY <4>1, <4>2
    <3> QED
      BY <3>1, <3>2
  <2>3. CASE d = c /\ Stays
    BY <2>3 DEF StoreInv, Fresh, Loaded
  <2>4. CASE d = c /\ Ends
    BY <1>6, <2>4
  <2> QED
    BY <1>1, <2>1, <2>2, <2>3, <2>4
<1>11. Unmade'
  <2> SUFFICES ASSUME NEW d \in Calls, NEW a \in Accounts, NEW i \in DOMAIN Plan[d],
                      <<d, i>> \in root'[a]
               PROVE  phase'[d] = "over" \/ i < at'[d]
    BY DEF Unmade
  <2>1. <<d, i>> \in root[a] \/ (d = c /\ i = at[c])
    BY HandlerGrows
  <2>2. CASE d # c
    BY <2>1, <2>2, HandlerOthers DEF StoreInv, Unmade
  <2>3. CASE d = c /\ Goes
    BY <1>2, <1>3, <2>1, <2>3, PlanType DEF StoreInv, Unmade
  <2>4. CASE d = c /\ ~ Goes
    BY <1>1, <2>4 DEF StoreInv, Unmade
  <2> QED
    BY <2>2, <2>3, <2>4
<1>12. Made'
  <2> SUFFICES ASSUME NEW d \in Calls, NEW i \in DOMAIN Plan[d], i < at'[d], Plan[d][i].do = "save"
               PROVE  <<d, i>> \in root'[Plan[d][i].at]
    BY DEF Made
  <2>1. Plan[d][i].at \in Accounts /\ i \in Nat /\ i > 0
    BY PlanType
  <2>2. ASSUME i < at[d] PROVE <<d, i>> \in root'[Plan[d][i].at]
    BY <2>1, <2>2, HandlerGrows DEF StoreInv, Made
  <2>3. CASE d # c
    BY <2>2, <2>3, HandlerOthers
  <2>4. CASE d = c /\ Goes
    <3>1. i < at[c] \/ i = at[c]
      BY <1>2, <1>3, <2>1, <2>4
    <3> QED
      BY <2>2, <2>4, <3>1, HandlerOwn DEF Account
  <2>5. CASE d = c /\ ~ Goes
    BY <1>1, <2>1, <2>2, <2>5
  <2> QED
    BY <2>3, <2>4, <2>5
<1> QED
  BY <1>7, <1>8, <1>9, <1>10, <1>11, <1>12 DEF StoreInv

\* Queueing, entering, leaving and sweeping touch nothing a handler holds, and
\* no lock of a call in the middle of its plan.
LEMMA QueueKeepsStore ==
    ASSUME TypeOK, StoreInv, NEW c \in Calls, NEW a \in Accounts,
           Queue(c, a) \/ Enter(c, a) \/ Leave(c, a) \/ Sweep(c, a)
    PROVE  StoreInv'
<1>1. UNCHANGED <<at, working, expected, root>> /\ (phase[c] = "over" => phase'[c] = "over")
  BY DEF Queue, Enter, Leave, Sweep, content, TypeOK
<1>2. \A d \in Calls : d # c => phase'[d] = phase[d] /\ ticket'[d] = ticket[d]
  BY DEF Queue, Enter, Leave, Sweep, TypeOK
<1>3. phase[c] = "running" => phase'[c] = "running"
  BY DEF Queue, Enter, Leave, Sweep, TypeOK
<1>4. phase[c] = "running" /\ Locked(c) => Locked(c)'
  BY KeysType DEF Queue, Enter, Leave, Sweep, Locked, TurnOf, TypeOK
<1>5. Held'
  <2> SUFFICES ASSUME NEW d \in Calls, at'[d] # 1
               PROVE  phase'[d] = "running" /\ Locked(d)'
    BY DEF Held
  <2>1. phase[d] = "running" /\ Locked(d)
    BY <1>1 DEF StoreInv, Held
  <2> QED
    BY <1>2, <1>3, <1>4, <2>1 DEF Locked
<1>6. Known' /\ Made'
  BY <1>1 DEF StoreInv, Known, Made
<1>7. Copied' /\ Fresh'
  BY <1>1 DEF StoreInv, Copied, Fresh, Loaded, Alone
<1>8. Unmade'
  BY <1>1, <1>2 DEF StoreInv, Unmade
<1> QED
  BY <1>5, <1>6, <1>7, <1>8 DEF StoreInv

\* A server that stops leaves the database and the other server's calls alone.
LEMMA CrashKeepsStore ==
    ASSUME TypeOK, StoreInv, NEW s \in Servers, Crash(s)
    PROVE  StoreInv'
<1> DEFINE gone == {c \in Calls : Host[c] = s /\ phase[c] # "idle"}
<1>1. \A c \in gone : /\ at'[c] = 1 /\ phase'[c] = "over"
                      /\ \A a \in Accounts : expected'[c][a] = NoRoot
  BY DEF Crash, Drop
<1>2. \A c \in Calls \ gone : /\ at'[c] = at[c] /\ phase'[c] = phase[c] /\ ticket'[c] = ticket[c]
                              /\ working'[c] = working[c] /\ expected'[c] = expected[c]
  BY DEF Crash, Drop
<1>3. UNCHANGED root
  BY DEF Crash
<1>4. \A c \in gone, a \in Accounts : ~ Loaded(c, a)'
  BY <1>1, PlanType DEF Loaded
<1>5. \A c \in Calls \ gone, a \in Accounts : Loaded(c, a)' <=> Loaded(c, a)
  BY <1>2 DEF Loaded
<1> HIDE DEF gone
<1>6. Held'
  BY <1>1, <1>2 DEF StoreInv, Held, Locked
<1>7. Known'
  BY <1>1, <1>2 DEF StoreInv, Known
<1>8. Copied' /\ Fresh'
  BY <1>2, <1>3, <1>4, <1>5 DEF StoreInv, Copied, Fresh, Alone
<1>9. Unmade'
  BY <1>1, <1>2, <1>3 DEF StoreInv, Unmade
<1>10. Made'
  BY <1>1, <1>2, <1>3, PlanType DEF StoreInv, Made
<1> QED
  BY <1>6, <1>7, <1>8, <1>9, <1>10 DEF StoreInv

LEMMA StoreStep ==
    OneServerWhereCopied /\ TypeOK /\ TypeOK' /\ QueueInv /\ StoreInv /\ [Next]_vars => StoreInv'
<1> SUFFICES ASSUME OneServerWhereCopied, TypeOK, TypeOK', QueueInv, StoreInv, [Next]_vars
             PROVE  StoreInv'
  OBVIOUS
<1>1. CASE UNCHANGED vars
  BY <1>1 DEF vars, locks, content, StoreInv, Held, Locked, Known, Copied, Fresh, Loaded, Alone, Unmade, Made
<1>2. CASE Next
  BY <1>2, Kinds, HandlerKeeps, QueueKeepsStore, CrashKeepsStore
<1> QED
  BY <1>1, <1>2

\* The database only ever grows, by writes of calls at their steps.
LEMMA RootGrows ==
    TypeOK /\ StoreInv /\ [Next]_vars => \A a \in Accounts : root[a] \subseteq root'[a]
<1> SUFFICES ASSUME TypeOK, StoreInv, [Next]_vars, NEW a \in Accounts
             PROVE  root[a] \subseteq root'[a]
  OBVIOUS
<1>1. CASE UNCHANGED root
  BY <1>1
<1>2. ASSUME NEW c \in Calls, Running(c), Handle(c) \/ SaveUnseen(c) \/ Fail(c)
      PROVE  root[a] \subseteq root'[a]
  BY <1>2, HandlerGrows
<1>3. CASE Next
  <2>1. ASSUME NEW c \in Calls, NEW b \in Accounts, Queue(c, b) \/ Enter(c, b) \/ Leave(c, b) \/ Sweep(c, b)
        PROVE  UNCHANGED root
    BY <2>1 DEF Queue, Enter, Leave, Sweep, content
  <2>2. ASSUME NEW s \in Servers, Crash(s) PROVE UNCHANGED root
    BY <2>2 DEF Crash
  <2> QED
    BY <1>1, <1>2, <1>3, <2>1, <2>2, Kinds
<1> QED
  BY <1>1, <1>3 DEF vars, content

\* What the invariant is proved from holds in every state.
LEMMA StoreHolds ==
    ASSUME OneServerWhereCopied
    PROVE  Spec => [](TypeOK /\ QueueInv /\ StoreInv)
<1>1. Init => TypeOK /\ QueueInv /\ StoreInv
  BY TypeInit, QueueInit, StoreInit
<1>2. TypeOK /\ QueueInv /\ StoreInv /\ [Next]_vars => (TypeOK /\ QueueInv /\ StoreInv)'
  BY TypeStep, QueueStep, StoreStep, OneServerWhereCopied
<1> QED
  BY <1>1, <1>2, PTL DEF Spec

\* Every step saves one new write to one account, or none.
LEMMA LedgerStep ==
    TypeOK /\ StoreInv /\ [Next]_vars => [Ledger!Next]_root
<1> SUFFICES ASSUME TypeOK, StoreInv, [Next]_vars PROVE [Ledger!Next]_root
  OBVIOUS
<1>1. CASE UNCHANGED root
  BY <1>1
<1>2. ASSUME NEW c \in Calls, Running(c), Handle(c) \/ SaveUnseen(c) \/ Fail(c)
      PROVE  [Ledger!Next]_root
  <2>1. CASE /\ Saving(c) /\ <<c, at[c]>> \notin root[Account(c)]
             /\ root' = [root EXCEPT ![Account(c)] = root[Account(c)] \cup {<<c, at[c]>>}]
    <3>1. Account(c) \in Accounts /\ <<c, at[c]>> \in Writes
      BY <2>1, SavedWasLoaded
    <3>2. Ledger!Commit(Account(c), <<c, at[c]>>)
      BY <2>1 DEF Ledger!Commit
    <3> QED
      BY <3>1, <3>2 DEF Ledger!Next
  <2> QED
    BY <1>1, <1>2, <2>1, HandlerAdds
<1>3. CASE Next
  <2>1. ASSUME NEW c \in Calls, NEW b \in Accounts, Queue(c, b) \/ Enter(c, b) \/ Leave(c, b) \/ Sweep(c, b)
        PROVE  UNCHANGED root
    BY <2>1 DEF Queue, Enter, Leave, Sweep, content
  <2>2. ASSUME NEW s \in Servers, Crash(s) PROVE UNCHANGED root
    BY <2>2 DEF Crash
  <2> QED
    BY <1>1, <1>2, <1>3, <2>1, <2>2, Kinds
<1> QED
  BY <1>1, <1>3 DEF vars, content

\* Where no account whose tree a load handler may copy is used on two servers,
\* the servers, their queues, the compare-and-swap and whatever stops or fails
\* implement one growing record per account.
THEOREM StoreImplementsLedger ==
    ASSUME OneServerWhereCopied
    PROVE  Spec => AtomicStore
<1>1. Init => Ledger!Init
  BY DEF Init, Ledger!Init
<1>2. TypeOK /\ StoreInv /\ [Next]_vars => [Ledger!Next]_root
  BY LedgerStep
<1> QED
  BY <1>1, <1>2, StoreHolds, PTL DEF Spec, AtomicStore, Ledger!Spec

\* A save that is answered is in the database.
LEMMA AnsweredIsKept ==
    TypeOK /\ StoreInv /\ OneServerWhereCopied /\ NoCommitLost /\ [Next]_vars => NoCommitLost'
<1> SUFFICES ASSUME TypeOK, StoreInv, OneServerWhereCopied, NoCommitLost, [Next]_vars,
                    NEW w \in answered'
             PROVE  w \in root'[Plan[w[1]][w[2]].at]
  BY DEF NoCommitLost
<1>1. ASSUME w \in answered PROVE w \in root'[Plan[w[1]][w[2]].at]
  <2>1. PICK c \in Calls : \E i \in DOMAIN Plan[c] : w = <<c, i>>
    BY <1>1, WriteParts DEF TypeOK
  <2>2. Plan[w[1]][w[2]].at \in Accounts
    BY <2>1, PlanType
  <2> QED
    BY <1>1, <2>2, RootGrows DEF NoCommitLost
<1>2. ASSUME NEW c \in Calls, Running(c), Save(c), answered' = answered \cup {<<c, at[c]>>}
      PROVE  w \in root'[Plan[w[1]][w[2]].at]
  <2>1. Account(c) \in Accounts
    BY <1>2, SavedWasLoaded DEF Save
  <2>2. <<c, at[c]>> \in root'[Account(c)]
    BY <1>2, <2>1 DEF Save, Changed, TypeOK
  <2> QED
    BY <1>1, <1>2, <2>2 DEF Account
<1>3. \/ UNCHANGED answered
      \/ \E c \in Calls : Running(c) /\ Save(c) /\ answered' = answered \cup {<<c, at[c]>>}
  <2>1. ASSUME NEW c \in Calls, Handle(c) \/ SaveUnseen(c) \/ Fail(c), ~ Save(c) PROVE UNCHANGED answered
    BY <2>1 DEF Handle, Load, Copy, Skip, Fetch, Refuse, SaveUnseen, Fail, Answer, End
  <2>2. ASSUME NEW c \in Calls, Save(c) PROVE answered' = answered \cup {<<c, at[c]>>}
    BY <2>2 DEF Save
  <2>3. ASSUME NEW c \in Calls, NEW b \in Accounts, Queue(c, b) \/ Enter(c, b) \/ Leave(c, b) \/ Sweep(c, b)
        PROVE  UNCHANGED answered
    BY <2>3 DEF Queue, Enter, Leave, Sweep
  <2>4. ASSUME NEW s \in Servers, Crash(s) PROVE UNCHANGED answered
    BY <2>4 DEF Crash
  <2>5. Next \/ UNCHANGED vars
    OBVIOUS
  <2> QED
    BY <2>1, <2>2, <2>3, <2>4, <2>5, Kinds DEF vars
<1> QED
  BY <1>1, <1>2, <1>3

\* Under the same condition no answered save is ever overwritten: the root a
\* save is compared with is that of the tree it was made from.
THEOREM AnsweredSavesStay ==
    ASSUME OneServerWhereCopied
    PROVE  Spec => []NoCommitLost
<1>1. Init => NoCommitLost
  BY DEF Init, NoCommitLost
<1>2. TypeOK /\ StoreInv /\ NoCommitLost /\ [Next]_vars => NoCommitLost'
  BY AnsweredIsKept, OneServerWhereCopied
<1> QED
  BY <1>1, <1>2, StoreHolds, PTL DEF Spec

\* A write comes to the database only with those its plan saved before.
LEMMA OrderIsKept ==
    TypeOK /\ StoreInv /\ SavedInOrder /\ [Next]_vars => SavedInOrder'
<1> SUFFICES ASSUME TypeOK, StoreInv, SavedInOrder, [Next]_vars,
                    NEW c \in Calls, NEW i \in DOMAIN Plan[c], NEW j \in DOMAIN Plan[c],
                    i < j, Plan[c][i].do = "save", Plan[c][j].do \in {"save", "offer"},
                    <<c, j>> \in root'[Plan[c][j].at]
             PROVE  <<c, i>> \in root'[Plan[c][i].at]
  BY DEF SavedInOrder
<1>1. Plan[c][i].at \in Accounts /\ Plan[c][j].at \in Accounts
  BY PlanType
<1>2. CASE <<c, j>> \in root[Plan[c][j].at]
  BY <1>1, <1>2, RootGrows DEF SavedInOrder
<1>3. CASE <<c, j>> \notin root[Plan[c][j].at]
  <2>1. root' # root
    BY <1>3
  <2>2. ASSUME NEW d \in Calls, Running(d), Handle(d) \/ SaveUnseen(d) \/ Fail(d)
        PROVE  <<c, i>> \in root[Plan[c][i].at]
    <3>1. d = c /\ j = at[c]
      BY <1>1, <1>3, <2>2, HandlerGrows
    <3> QED
      BY <3>1 DEF StoreInv, Made
  <2>3. ASSUME NEW d \in Calls, NEW b \in Accounts, Queue(d, b) \/ Enter(d, b) \/ Leave(d, b) \/ Sweep(d, b)
        PROVE  UNCHANGED root
    BY <2>3 DEF Queue, Enter, Leave, Sweep, content
  <2>4. ASSUME NEW s \in Servers, Crash(s) PROVE UNCHANGED root
    BY <2>4 DEF Crash
  <2>5. Next
    BY <2>1 DEF vars, content
  <2>6. <<c, i>> \in root[Plan[c][i].at]
    BY <2>1, <2>2, <2>3, <2>4, <2>5, Kinds
  <2> QED
    BY <1>1, <2>6, RootGrows
<1> QED
  BY <1>2, <1>3

\* Under the same condition a plan's writes reach the accounts in its order: a
\* host never shows a submission whose guest has no record of it.
THEOREM WritesInOrder ==
    ASSUME OneServerWhereCopied
    PROVE  Spec => []SavedInOrder
<1>1. Init => SavedInOrder
  BY PlanType DEF Init, SavedInOrder
<1>2. TypeOK /\ StoreInv /\ SavedInOrder /\ [Next]_vars => SavedInOrder'
  BY OrderIsKept
<1> QED
  BY <1>1, <1>2, StoreHolds, PTL DEF Spec
=============================================================================
