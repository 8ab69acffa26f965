---------------------------- MODULE MessageRelay ----------------------------
(***************************************************************************)
(* Messages for peers that are offline (shared/sync/relay.ts): a peer      *)
(* leaves a message at the relay node, in main when it is a device of the  *)
(* account and in its submission when it was invited; the relay, run after *)
(* every write there (backend/sync/provideNode.ts), moves it into the      *)
(* queue under its addressee's member entry; an acknowledgement takes it   *)
(* out.  Rows travel by node exchange, whose answer may be lost.  A run of *)
(* the relay holds the account's lock: its steps are one save.             *)
(***************************************************************************)
EXTENDS Integers

CONSTANTS
    Ends,       \* peers that leave and receive messages
    OwnDevices, \* those that are devices of the account
    Messages,
    Sender, Addressee,  \* of each message
    Known,      \* the members of the relay node at first
    MaxLost     \* bound: answers that are lost

ASSUME MessagesAssumption ==
    /\ OwnDevices \subseteq Ends /\ Known \subseteq Ends
    /\ Sender \in [Messages -> Ends] /\ Addressee \in [Messages -> Ends]
    /\ MaxLost \in Nat

\* A message, or the acknowledgement of one.
LeftRows == Messages \X {"message", "ack"}
Message(m) == <<m, "message">>
Ack(m) == <<m, "ack">>

VARIABLES
    known,    \* the members of the relay node
    atMain,   \* the rows in its main value
    left,     \* per peer, the rows its submission there adds
    rejected, \* the peers whose submission is rejected
    queue,    \* per peer, the rows of its queue
    whole,    \* the messages all of which has arrived
    copied,   \* per peer, the rows in its copies of the node and of its queue
    synced,   \* per peer, the rows last agreed on
    pass,     \* the run of the relay under way
    lost,     \* the number of answers lost so far
    written,  \* history: the messages written so far
    taken     \* history: per peer, the messages it acknowledged

relayNodeVars == <<known, atMain, left, rejected, queue, whole>>
peerVars == <<copied, synced, written, taken>>
messageVars == <<relayNodeVars, peerVars, pass, lost>>

Places == {"node", "queue"}
NoRows == [p \in Places |-> {}]
Idle == [todo |-> {}, orig |-> [e \in Ends |-> {}]]

MessagesInit ==
    /\ known = Known
    /\ atMain = {} /\ left = [e \in Ends |-> {}] /\ rejected = {}
    /\ queue = [e \in Ends |-> {}]
    /\ whole = {}
    /\ copied = [e \in Ends |-> NoRows] /\ synced = [e \in Ends |-> NoRows]
    /\ pass = Idle
    /\ lost = 0
    /\ written = {} /\ taken = [e \in Ends |-> {}]

-----------------------------------------------------------------------------
(* The relay *)

\* The rows left at the node: those in main, then those the open submissions add.
rowsLeftAt(main, subs, closed) ==
    {x \in LeftRows \X (Ends \cup {""}) :
        IF x[2] = "" THEN x[1] \in main ELSE x[2] \notin closed /\ x[1] \in subs[x[2]] \ main}

\* A run begins with the rows as they are then.
Pass(main, subs, closed) ==
    IF rowsLeftAt(main, subs, closed) = {} THEN Idle
    ELSE [todo |-> rowsLeftAt(main, subs, closed), orig |-> subs]

\* Mutant: nothing is left of a submission a row was taken from.
takeAwayAll(r, from) ==
    IF from = "" THEN atMain' = atMain \ {r} /\ left' = left
    ELSE left' = [left EXCEPT ![from] = {}] /\ atMain' = atMain

\* Out of main, or out of the submission as it was when the run began.
takeAway(r, from) ==
    IF from = "" THEN atMain' = atMain \ {r} /\ left' = left
    ELSE left' = [left EXCEPT ![from] = pass.orig[from] \ {r}] /\ atMain' = atMain

\* Rows in main come first.
Handling(r, from) ==
    /\ <<r, from>> \in pass.todo
    /\ from # "" => \A x \in pass.todo : x[2] # ""
    /\ pass' = IF pass.todo = {<<r, from>>} THEN Idle ELSE [pass EXCEPT !.todo = @ \ {<<r, from>>}]
    /\ UNCHANGED <<known, rejected, whole, peerVars, lost>>

deliver(m, from) ==
    /\ Handling(Message(m), from)
    /\ m \in whole /\ Addressee[m] \in known
    /\ queue' = [queue EXCEPT ![Addressee[m]] = @ \cup {Message(m)}]
    /\ takeAway(Message(m), from)

leaveAlone(m, from) ==
    /\ Handling(Message(m), from)
    /\ ~(m \in whole /\ Addressee[m] \in known)
    /\ UNCHANGED <<atMain, left, queue>>

\* The queues an acknowledgement left at the node is for: its sender's, or any.
QueuesFor(from) == IF from = "" THEN known ELSE {from} \cap known

dequeue(m, from, e) ==
    /\ Handling(Ack(m), from)
    /\ e \in QueuesFor(from) /\ Message(m) \in queue[e]
    /\ queue' = [queue EXCEPT ![e] = @ \ {Message(m)}]
    /\ takeAway(Ack(m), from)

ackAlone(m, from) ==
    /\ Handling(Ack(m), from)
    /\ \A e \in QueuesFor(from) : Message(m) \notin queue[e]
    /\ UNCHANGED <<atMain, left, queue>>

\* At last the acknowledgements the recipients left in their queues.
Acked(e) == {m \in Messages : {Message(m), Ack(m)} \subseteq queue[e]}

clearQueues ==
    /\ pass.todo = {} /\ \E e \in known : Acked(e) # {}
    /\ queue' = [e \in Ends |-> IF e \in known
                  THEN queue[e] \ (Acked(e) \X {"message", "ack"}) ELSE queue[e]]
    /\ UNCHANGED <<known, atMain, left, rejected, whole, peerVars, pass, lost>>

Relaying == pass.todo # {} \/ \E e \in known : Acked(e) # {}

relayAt ==
    \/ \E m \in Messages, from \in Ends \cup {""} : deliver(m, from) \/ leaveAlone(m, from) \/ ackAlone(m, from)
    \/ \E m \in Messages, from \in Ends \cup {""}, e \in Ends : dequeue(m, from, e)
    \/ clearQueues

-----------------------------------------------------------------------------
(* The peers, by node exchange *)

Served(e) ==
    [p \in Places |-> IF p = "queue" THEN queue[e]
                      ELSE IF e \in OwnDevices THEN atMain ELSE atMain \cup left[e]]

\* What theirs changed since base, applied to ours.
Combined(base, ours, theirs) == (ours \cup (theirs \ base)) \ (base \ theirs)

Unlocked == ~Relaying
MaySync(e) == e \in OwnDevices \/ e \in known

\* A round's first request: what changed there comes in.
pullRows(e) ==
    /\ Unlocked /\ MaySync(e)
    /\ copied' = [copied EXCEPT ![e] = [p \in Places |-> Combined(synced[e][p], @[p], Served(e)[p])]]
    /\ synced' = [synced EXCEPT ![e] = Served(e)]
    /\ UNCHANGED <<relayNodeVars, pass, lost, written, taken>>

\* And its second, for one node: what changed here goes out, and the relay runs.
pushRows(e, p) ==
    LET value == Combined(synced[e][p], Served(e)[p], copied[e][p]) IN
    /\ Unlocked /\ MaySync(e)
    /\ copied[e][p] # synced[e][p]
    /\ p = "queue" => e \in OwnDevices
    /\ IF p = "queue" THEN queue' = [queue EXCEPT ![e] = value] /\ UNCHANGED <<atMain, left, rejected>>
       ELSE IF e \in OwnDevices THEN atMain' = value /\ UNCHANGED <<queue, left, rejected>>
       ELSE /\ left' = [left EXCEPT ![e] = value \ atMain]
            /\ rejected' = IF value # Served(e)[p] THEN rejected \ {e} ELSE rejected
            /\ UNCHANGED <<queue, atMain>>
    /\ pass' = Pass(atMain', left', rejected')
    /\ \/ /\ copied' = [copied EXCEPT ![e][p] = value]
          /\ synced' = [synced EXCEPT ![e][p] = value]
          /\ lost' = lost
       \/ /\ lost < MaxLost
          /\ lost' = lost + 1
          /\ UNCHANGED <<copied, synced>>
    /\ UNCHANGED <<known, whole, written, taken>>

\* The rows of a message follow it, each in an exchange of its own.
pushParts(m) ==
    /\ Unlocked /\ MaySync(Sender[m])
    /\ m \notin whole
    /\ Message(m) \in copied[Sender[m]]["node"] \cap Served(Sender[m])["node"]
    /\ whole' = whole \cup {m}
    /\ pass' = Pass(atMain, left, rejected)
    /\ UNCHANGED <<known, atMain, left, rejected, queue, peerVars, lost>>

addRelayMessage(m) ==
    /\ m \notin written
    /\ written' = written \cup {m}
    /\ copied' = [copied EXCEPT ![Sender[m]]["node"] = @ \cup {Message(m)}]
    /\ UNCHANGED <<relayNodeVars, pass, lost, synced, taken>>

\* What the recipient's copy of its queue shows.
relayInbox(e) == {m \in Messages : Message(m) \in copied[e]["queue"] /\ Ack(m) \notin copied[e]["queue"]}

\* A device of the account acknowledges in its queue, an invited peer at the node.
addRelayAck(e, m) ==
    LET p == IF e \in OwnDevices THEN "queue" ELSE "node" IN
    /\ m \in relayInbox(e) /\ Ack(m) \notin copied[e][p]
    /\ copied' = [copied EXCEPT ![e][p] = @ \cup {Ack(m)}]
    /\ taken' = [taken EXCEPT ![e] = @ \cup {m}]
    /\ UNCHANGED <<relayNodeVars, pass, lost, synced, written>>

-----------------------------------------------------------------------------
(* The owner *)

\* A submission of messages is reviewed like any other: on a device, whose write runs
\* the relay, or by an event, which does not.
acceptLeft(e) ==
    /\ Unlocked /\ left[e] # {} /\ e \notin rejected
    /\ atMain' = atMain \cup left[e]
    /\ left' = [left EXCEPT ![e] = {}]
    /\ pass' \in {pass, Pass(atMain', left', rejected)}
    /\ UNCHANGED <<known, rejected, queue, whole, peerVars, lost>>

rejectLeft(e) ==
    /\ Unlocked /\ left[e] # {} /\ e \notin rejected
    /\ rejected' = rejected \cup {e}
    /\ pass' \in {pass, Pass(atMain, left, rejected')}
    /\ UNCHANGED <<known, atMain, left, queue, whole, peerVars, lost>>

addMember(e) ==
    /\ Unlocked /\ e \notin known
    /\ known' = known \cup {e}
    /\ pass' = Pass(atMain, left, rejected)
    /\ UNCHANGED <<atMain, left, rejected, queue, whole, peerVars, lost>>

\* The member's entry goes with the queue in it.
removeMember(e) ==
    /\ Unlocked /\ e \in known
    /\ known' = known \ {e}
    /\ queue' = [queue EXCEPT ![e] = {}]
    /\ pass' = Pass(atMain, left, rejected)
    /\ UNCHANGED <<atMain, left, rejected, whole, peerVars, lost>>

MessagesNext ==
    \/ relayAt
    \/ \E e \in Ends : \/ pullRows(e) \/ acceptLeft(e) \/ rejectLeft(e)
                       \/ addMember(e) \/ removeMember(e)
                       \/ \E p \in Places : pushRows(e, p)
                       \/ \E m \in Messages : addRelayAck(e, m)
    \/ \E m \in Messages : addRelayMessage(m) \/ pushParts(m)

MessagesSpec == MessagesInit /\ [][MessagesNext]_messageVars

-----------------------------------------------------------------------------
(* Properties *)

MessagesTypeOK ==
    /\ known \subseteq Ends /\ rejected \subseteq Ends
    /\ atMain \subseteq LeftRows
    /\ left \in [Ends -> SUBSET LeftRows] /\ queue \in [Ends -> SUBSET LeftRows]
    /\ whole \subseteq written /\ written \subseteq Messages
    /\ copied \in [Ends -> [Places -> SUBSET LeftRows]] /\ synced \in [Ends -> [Places -> SUBSET LeftRows]]
    /\ pass.todo \subseteq LeftRows \X (Ends \cup {""})
    /\ lost \in 0 .. MaxLost
    /\ taken \in [Ends -> SUBSET Messages]

LeftAt(m) == Message(m) \in atMain \cup UNION {left[e] : e \in Ends}

\* A message leaves the relay node only whole and into the queue of its addressee, and
\* that queue only when the addressee acknowledged it, or is no member any more: none
\* is lost or goes to someone else, whatever answers are lost, and whoever is added,
\* removed or has its submission reviewed meanwhile.
MessagesKept ==
    [][\A m \in Messages :
        /\ LeftAt(m) /\ ~LeftAt(m)' => m \in whole /\ Message(m) \in queue'[Addressee[m]]
        /\ \A e \in Ends : Message(m) \in queue[e] /\ Message(m) \notin queue'[e] =>
              m \in taken[e] \/ e \notin known']_messageVars
=============================================================================
