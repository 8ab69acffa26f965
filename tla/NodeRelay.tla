----------------------------- MODULE NodeRelay ------------------------------
(***************************************************************************)
(* Reading a node another device of the account holds                      *)
(* (backend/sync/provideNode.ts, nodeRelay.ts, ws.ts): the account keeps a *)
(* reference to it, the server asks the device over its socket without     *)
(* the account's lock, and installs the answer under the lock.  Sockets    *)
(* open, say hello, and close while calls wait.                            *)
(***************************************************************************)
EXTENDS FiniteSets, Integers

CONSTANTS
    Devices,
    Sockets,     \* connections, each used once
    DeviceOf,    \* the device a connection is from
    Reached,     \* per connection, the references inside the attachment it offers
    References,  \* what the account's row may refer to
    HeldAt,      \* the device holding the referenced node
    Reads,       \* calls of provideNode that read the row
    MaxWaiting,  \* calls of one account the relay keeps waiting (64)
    MaxChanges,  \* bound: changes of the row or of the grants
    NoReference, \* the row holds content of the account's own
    NoSocket

ASSUME RelayAssumption ==
    /\ DeviceOf \in [Sockets -> Devices]
    /\ Reached \in [Sockets -> SUBSET References]
    /\ HeldAt \in [References -> Devices]
    /\ NoReference \notin References /\ NoSocket \notin Sockets
    /\ MaxWaiting \in Nat /\ MaxChanges \in Nat

VARIABLES
    row,       \* the reference the row holds or held, and whether its node was installed
    granted,   \* the calls whose peer may read the row now
    changes,   \* the number of changes so far
    socket,    \* "new", "open" or "closed"
    greeted,   \* sockets that said hello
    known,     \* sockets whose user was looked up
    provider,  \* per device, the socket registered last
    pc,        \* per call, what it awaits
    wanted,    \* per call, the reference it found
    via        \* per call, the socket it was sent to

relayVars == <<row, granted, changes, socket, greeted, known, provider, pc, wanted, via>>

HeldRows == [ref : References \cup {NoReference}, installed : BOOLEAN]
Referring(reference) == [ref |-> reference, installed |-> FALSE]

RelayInit ==
    /\ row \in {Referring(reference) : reference \in References}
    /\ granted = Reads
    /\ changes = 0
    /\ socket = [s \in Sockets |-> "new"]
    /\ greeted = {} /\ known = {}
    /\ provider = [d \in Devices |-> NoSocket]
    /\ pc = [q \in Reads |-> "ready"]
    /\ wanted = [q \in Reads |-> NoReference]
    /\ via = [q \in Reads |-> NoSocket]

-----------------------------------------------------------------------------
(* Sockets *)

connect(s) ==
    /\ socket[s] = "new"
    /\ socket' = [socket EXCEPT ![s] = "open"]
    /\ UNCHANGED <<row, granted, changes, greeted, known, provider, pc, wanted, via>>

register(s) == provider' = [provider EXCEPT ![DeviceOf[s]] = s]

hello(s) ==
    /\ socket[s] = "open"
    /\ greeted' = greeted \cup {s}
    /\ IF s \in known THEN register(s) ELSE UNCHANGED provider
    /\ UNCHANGED <<row, granted, changes, socket, known, pc, wanted, via>>

\* The lookup of the user is answered, after the socket closed maybe.
lookup(s) ==
    /\ socket[s] # "new" /\ s \notin known
    /\ known' = known \cup {s}
    /\ IF s \in greeted THEN register(s) ELSE UNCHANGED provider
    /\ UNCHANGED <<row, granted, changes, socket, greeted, pc, wanted, via>>

Waiting == {q \in Reads : pc[q] = "waiting"}

\* Mutant: only a socket still registered has calls waiting.
closeRegistered(s) ==
    /\ socket[s] = "open"
    /\ socket' = [socket EXCEPT ![s] = "closed"]
    /\ provider' = [d \in Devices |-> IF provider[d] = s THEN NoSocket ELSE provider[d]]
    /\ pc' = [q \in Reads |-> IF q \in Waiting /\ via[q] = s /\ provider[DeviceOf[s]] = s THEN "refused" ELSE pc[q]]
    /\ UNCHANGED <<row, granted, changes, greeted, known, wanted, via>>

\* Calls waiting for this socket are refused; a later one of the device stays registered.
close(s) ==
    /\ socket[s] = "open"
    /\ socket' = [socket EXCEPT ![s] = "closed"]
    /\ provider' = [d \in Devices |-> IF provider[d] = s THEN NoSocket ELSE provider[d]]
    /\ pc' = [q \in Reads |-> IF q \in Waiting /\ via[q] = s THEN "refused" ELSE pc[q]]
    /\ UNCHANGED <<row, granted, changes, greeted, known, wanted, via>>

-----------------------------------------------------------------------------
(* Calls *)

\* Under the lock: the reference at the row, for a peer that may read it.
nodeReferenceAt(q) ==
    /\ pc[q] = "ready"
    /\ LET refers == row.ref # NoReference /\ ~row.installed IN
       /\ pc' = [pc EXCEPT ![q] = CASE q \notin granted -> "refused"
                                    [] q \in granted /\ refers -> "asking"
                                    [] OTHER -> "served"]
       /\ wanted' = [wanted EXCEPT ![q] = IF refers THEN row.ref ELSE NoReference]
    /\ UNCHANGED <<row, granted, changes, socket, greeted, known, provider, via>>

\* The device is connected, offers the node, and not too many wait.
Askable(q) ==
    LET s == provider[HeldAt[wanted[q]]] IN
    /\ s # NoSocket
    /\ socket[s] = "open"
    /\ wanted[q] \in Reached[s]
    /\ Cardinality(Waiting) < MaxWaiting

request(q) ==
    /\ pc[q] = "asking"
    /\ pc' = [pc EXCEPT ![q] = IF Askable(q) THEN "waiting" ELSE "refused"]
    /\ via' = [via EXCEPT ![q] = IF Askable(q) THEN provider[HeldAt[wanted[q]]] ELSE NoSocket]
    /\ UNCHANGED <<row, granted, changes, socket, greeted, known, provider, wanted>>

\* The device answers, or denies, over the socket it was asked on.
receive(q) ==
    /\ pc[q] = "waiting"
    /\ socket[via[q]] = "open"
    /\ \E next \in {"answered", "refused"} : pc' = [pc EXCEPT ![q] = next]
    /\ UNCHANGED <<row, granted, changes, socket, greeted, known, provider, wanted, via>>

timeout(q) ==
    /\ pc[q] = "waiting"
    /\ pc' = [pc EXCEPT ![q] = "refused"]
    /\ UNCHANGED <<row, granted, changes, socket, greeted, known, provider, wanted, via>>

\* The peer may still read the row, which still holds the reference that was asked about.
Installable(q) == q \in granted /\ row = Referring(wanted[q])

\* Mutant: what was found under the first lock is not looked at again.
acceptAnyway(q) ==
    /\ pc[q] = "answered"
    /\ row' = [ref |-> wanted[q], installed |-> TRUE]
    /\ pc' = [pc EXCEPT ![q] = "served"]
    /\ UNCHANGED <<granted, changes, socket, greeted, known, provider, wanted, via>>

\* Under the lock again: the node is installed and saved.  A save that throws leaves
\* everything as it was.
acceptProvidedNode(q) ==
    /\ pc[q] = "answered"
    /\ \/ /\ Installable(q)
          /\ row' = [ref |-> wanted[q], installed |-> TRUE]
          /\ pc' = [pc EXCEPT ![q] = "served"]
       \/ /\ UNCHANGED row
          /\ pc' = [pc EXCEPT ![q] = "refused"]
    /\ UNCHANGED <<granted, changes, socket, greeted, known, provider, wanted, via>>

-----------------------------------------------------------------------------
(* Other calls on the account *)

\* The row is made to refer to a node elsewhere, or given content of its own.
ChangeRow ==
    /\ changes < MaxChanges
    /\ changes' = changes + 1
    /\ row' \in {Referring(reference) : reference \in References \cup {NoReference}} \ {row}
    /\ UNCHANGED <<granted, socket, greeted, known, provider, pc, wanted, via>>

ChangeGrant(q) ==
    /\ changes < MaxChanges
    /\ changes' = changes + 1
    /\ granted' = IF q \in granted THEN granted \ {q} ELSE granted \cup {q}
    /\ UNCHANGED <<row, socket, greeted, known, provider, pc, wanted, via>>

RelayNext ==
    \/ \E s \in Sockets : connect(s) \/ hello(s) \/ lookup(s) \/ close(s)
    \/ \E q \in Reads : \/ nodeReferenceAt(q) \/ request(q) \/ receive(q) \/ timeout(q)
                        \/ acceptProvidedNode(q) \/ ChangeGrant(q)
    \/ ChangeRow

RelaySpec == RelayInit /\ [][RelayNext]_relayVars

-----------------------------------------------------------------------------
(* Properties *)

RelayTypeOK ==
    /\ row \in HeldRows
    /\ granted \subseteq Reads
    /\ socket \in [Sockets -> {"new", "open", "closed"}]
    /\ greeted \cup known \subseteq Sockets
    /\ provider \in [Devices -> Sockets \cup {NoSocket}]
    /\ pc \in [Reads -> {"ready", "asking", "waiting", "answered", "served", "refused"}]
    /\ wanted \in [Reads -> References \cup {NoReference}]
    /\ via \in [Reads -> Sockets \cup {NoSocket}]

\* A call waits for a connection that can still answer it (nodeRelay.ts:20-23):
\* whatever order a device reconnects in, a call does not sit on a connection it left.
NobodyWaitsForGone == \A q \in Waiting : socket[via[q]] = "open"

\* What is installed in a row is the node the row refers to then, answered by the
\* device holding it to a peer that may read it then (provideNode.ts:54-61, "Recheck
\* the exact reference and current grants after reacquiring it").
InstalledAsAsked ==
    [][row'.installed /\ ~row.installed =>
          /\ row'.ref = row.ref
          /\ \E q \in Reads : /\ pc[q] = "answered" /\ pc'[q] = "served"
                              /\ q \in granted
                              /\ DeviceOf[via[q]] = HeldAt[row.ref]]_relayVars
=============================================================================
