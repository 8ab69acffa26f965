---------------------------- MODULE PeerInvites ----------------------------
(***************************************************************************)
(* Letting a device attach to a node (backend/sync/peerInvites.ts, and the *)
(* device's side of it, attach_with_token of desktop/src-tauri/src/        *)
(* client.rs).  The owner makes an invite; a device claims its token and   *)
(* polls; the owner approves or denies; the credential is collected.       *)
(* Invites are database rows: every handler reads the row, awaits, and     *)
(* writes, so handlers interleave between the two.  A request id is random *)
(* and stands here for the device whose claim made it.                     *)
(***************************************************************************)
EXTENDS Naturals

CONSTANTS
    Invites,
    Askers,    \* devices; each claims one token, once
    For,       \* the invite whose token a device has
    Verdicts,  \* approve and deny calls of the owner
    About,     \* the invite such a call is about
    Raced,     \* the invites on which calls may overlap; on others they come one by one
    NoPeer

ASSUME InvitesAssumption ==
    /\ For \in [Askers -> Invites]
    /\ About \in [Verdicts -> Invites]
    /\ Raced \subseteq Invites
    /\ NoPeer \notin Askers

VARIABLES
    invite,     \* per invite its row: status, the peer that claimed it, the peer its grantedJwt names
    expired,    \* the invites past expiresAt
    asker,      \* per device, how far it is
    carried,    \* per device, the peer the credential names that its poll has read
    verdict,    \* per owner's call, how far it is and the peer it read
    attached,   \* pairs of an invite and the device made a member of its node
    collected,  \* history: per invite, how often a credential was answered
    answers,    \* history: <<invite, device answered, peer the credential names>>
    approvals   \* history: <<invite, peer>> the owner's approvals read

inviteVars == <<invite, expired, asker, carried, verdict, attached, collected, answers, approvals>>

MaybePeer == Askers \cup {NoPeer}
Row == [status : {"none", "open", "pending", "approved", "denied", "delivered"},
        peer : MaybePeer, jwt : MaybePeer]
Call == [step : {"ready", "approving", "attaching", "done"}, peer : MaybePeer]

\* What the rows and the calls hold; only a device that claimed is ever approved.
InviteTypeOK ==
    /\ invite \in [Invites -> Row]
    /\ expired \subseteq Invites
    /\ asker \in [Askers -> {"off", "claiming", "waiting", "polling", "held", "failed"}]
    /\ carried \in [Askers -> MaybePeer]
    /\ verdict \in [Verdicts -> Call]
    /\ attached \subseteq Invites \X Askers
    /\ collected \in [Invites -> Nat]
    /\ answers \subseteq Invites \X Askers \X MaybePeer
    /\ approvals \subseteq Invites \X Askers

InviteInit ==
    /\ invite = [i \in Invites |-> [status |-> "none", peer |-> NoPeer, jwt |-> NoPeer]]
    /\ expired = {}
    /\ asker = [a \in Askers |-> "off"]
    /\ carried = [a \in Askers |-> NoPeer]
    /\ verdict = [v \in Verdicts |-> [step |-> "ready", peer |-> NoPeer]]
    /\ attached = {}
    /\ collected = [i \in Invites |-> 0]
    /\ answers = {}
    /\ approvals = {}

-----------------------------------------------------------------------------
\* The calls between their read of the row and their write of it.
Claiming(i)  == {a \in Askers : For[a] = i /\ asker[a] = "claiming"}
Polling(i)   == {a \in Askers : For[a] = i /\ asker[a] = "polling"}
Approving(i) == {v \in Verdicts : About[v] = i /\ verdict[v].step = "approving"}
MayBegin(i)  == i \in Raced \/ (Claiming(i) = {} /\ Polling(i) = {} /\ Approving(i) = {})

\* repo.update: the row as a whole, the fields a handler does not patch as they are.
update(i, status, peer, jwt) ==
    invite' = [invite EXCEPT ![i] = [status |-> status, peer |-> peer, jwt |-> jwt]]
Proceed(v, step, peer) == verdict' = [verdict EXCEPT ![v] = [step |-> step, peer |-> peer]]

createInvite(i) ==
    /\ invite[i].status = "none"
    /\ update(i, "open", NoPeer, NoPeer)
    /\ UNCHANGED <<expired, asker, carried, verdict, attached, collected, answers, approvals>>

\* POST /peer/connect finds the row by its token: not found, expired or used
\* already ends the device's attempt.
ReadClaim(a) ==
    /\ asker[a] = "off"
    /\ MayBegin(For[a])
    /\ asker' = [asker EXCEPT ![a] =
          IF invite[For[a]].status = "open" /\ For[a] \notin expired THEN "claiming" ELSE "failed"]
    /\ UNCHANGED <<invite, expired, carried, verdict, attached, collected, answers, approvals>>

\* The claim is written by row id, whatever the row is by now.
claimInvite(a) ==
    /\ asker[a] = "claiming"
    /\ update(For[a], "pending", a, invite[For[a]].jwt)
    /\ \E got \in {"waiting", "failed"} : asker' = [asker EXCEPT ![a] = got]
    /\ UNCHANGED <<expired, carried, verdict, attached, collected, answers, approvals>>

\* What a poll by a finds: the row of its request, if the claim is still a's.
Deliverable(a) ==
    LET row == invite[For[a]] IN row.peer = a /\ row.status = "approved" /\ row.jwt # NoPeer
Undecided(a) ==
    LET row == invite[For[a]] IN
    row.peer = a /\ (\/ row.status = "pending" /\ For[a] \notin expired
                     \/ row.status \in {"approved", "delivered"} /\ row.jwt = NoPeer)

\* Mutant: a poll after the invite's fifteen minutes is put off, whatever the row says.
ReadPollPutOff(a) ==
    /\ asker[a] = "waiting"
    /\ MayBegin(For[a])
    /\ IF Deliverable(a) /\ For[a] \notin expired
       THEN /\ carried' = [carried EXCEPT ![a] = invite[For[a]].jwt]
            /\ asker' = [asker EXCEPT ![a] = "polling"]
       ELSE /\ \E got \in IF Undecided(a) \/ Deliverable(a) THEN {"waiting"} ELSE {"failed"} :
                  asker' = [asker EXCEPT ![a] = got]
            /\ UNCHANGED carried
    /\ UNCHANGED <<invite, expired, verdict, attached, collected, answers, approvals>>

ReadPoll(a) ==
    /\ asker[a] = "waiting"
    /\ MayBegin(For[a])
    /\ IF Deliverable(a)
       THEN /\ carried' = [carried EXCEPT ![a] = invite[For[a]].jwt]
            /\ asker' = [asker EXCEPT ![a] = "polling"]
       ELSE /\ \E got \in IF Undecided(a) THEN {"waiting", "failed"} ELSE {"failed"} :
                  asker' = [asker EXCEPT ![a] = got]
            /\ UNCHANGED carried
    /\ UNCHANGED <<invite, expired, verdict, attached, collected, answers, approvals>>

\* Mutant: the credential stays in the row.
pollRequestKept(a) ==
    /\ asker[a] = "polling"
    /\ collected' = [collected EXCEPT ![For[a]] = @ + 1]
    /\ answers' = answers \cup {<<For[a], a, carried[a]>>}
    /\ carried' = [carried EXCEPT ![a] = NoPeer]
    /\ \E got \in {"held", "waiting"} : asker' = [asker EXCEPT ![a] = got]
    /\ UNCHANGED <<invite, expired, verdict, attached, approvals>>

\* The credential leaves the row and goes out with the answer, which may be lost.
pollRequest(a) ==
    /\ asker[a] = "polling"
    /\ update(For[a], "delivered", invite[For[a]].peer, NoPeer)
    /\ collected' = [collected EXCEPT ![For[a]] = @ + 1]
    /\ answers' = answers \cup {<<For[a], a, carried[a]>>}
    /\ carried' = [carried EXCEPT ![a] = NoPeer]
    /\ \E got \in {"held", "failed"} : asker' = [asker EXCEPT ![a] = got]
    /\ UNCHANGED <<expired, verdict, attached, approvals>>

\* The device's deadline, or an answer with an error: it does not ask again.
StopAsking(a) ==
    /\ asker[a] \in {"claiming", "waiting", "polling"}
    /\ asker' = [asker EXCEPT ![a] = "failed"]
    /\ carried' = [carried EXCEPT ![a] = NoPeer]
    /\ UNCHANGED <<invite, expired, verdict, attached, collected, answers, approvals>>

-----------------------------------------------------------------------------
\* Approval is by invite id and takes the peer the row names when it is read.
ReadApprove(v) ==
    LET i == About[v] IN
    /\ verdict[v].step = "ready"
    /\ MayBegin(i)
    /\ invite[i].status = "pending" /\ i \notin expired
    /\ Proceed(v, "approving", invite[i].peer)
    /\ approvals' = approvals \cup {<<i, invite[i].peer>>}
    /\ UNCHANGED <<invite, expired, asker, carried, attached, collected, answers>>

\* Mutant: the credential is made for the peer the row names by now.
approveRequestOfRow(v) ==
    LET i == About[v] IN
    /\ verdict[v].step = "approving"
    /\ update(i, "approved", invite[i].peer, invite[i].peer)
    /\ Proceed(v, "attaching", verdict[v].peer)
    /\ UNCHANGED <<expired, asker, carried, attached, collected, answers, approvals>>

approveRequest(v) ==
    LET i == About[v] IN
    /\ verdict[v].step = "approving"
    /\ update(i, "approved", invite[i].peer, verdict[v].peer)
    /\ Proceed(v, "attaching", verdict[v].peer)
    /\ UNCHANGED <<expired, asker, carried, attached, collected, answers, approvals>>

\* Only then is the device made a member of the node, under the account's lock.
attachMember(v) ==
    /\ verdict[v].step = "attaching"
    /\ attached' = attached \cup {<<About[v], verdict[v].peer>>}
    /\ Proceed(v, "done", verdict[v].peer)
    /\ UNCHANGED <<invite, expired, asker, carried, collected, answers, approvals>>

\* The owner's call is refused, fails, or its server stops.
DropVerdict(v) ==
    /\ verdict[v].step # "done"
    /\ Proceed(v, "done", verdict[v].peer)
    /\ UNCHANGED <<invite, expired, asker, carried, attached, collected, answers, approvals>>

\* Denying looks at nothing but the owner: a row in any status is denied.
denyRequest(v) ==
    LET i == About[v] IN
    /\ verdict[v].step = "ready"
    /\ MayBegin(i)
    /\ invite[i].status # "none"
    /\ update(i, "denied", invite[i].peer, NoPeer)
    /\ Proceed(v, "done", verdict[v].peer)
    /\ UNCHANGED <<expired, asker, carried, attached, collected, answers, approvals>>

Expire(i) ==
    /\ invite[i].status # "none" /\ i \notin expired
    /\ expired' = expired \cup {i}
    /\ UNCHANGED <<invite, asker, carried, verdict, attached, collected, answers, approvals>>

\* Everything that can happen to invite i: rows share nothing.
InviteStep(i) ==
    \/ createInvite(i) \/ Expire(i)
    \/ \E a \in Askers : /\ For[a] = i
                         /\ \/ ReadClaim(a) \/ claimInvite(a) \/ ReadPoll(a)
                            \/ pollRequest(a) \/ StopAsking(a)
    \/ \E v \in Verdicts : /\ About[v] = i
                           /\ \/ ReadApprove(v) \/ approveRequest(v) \/ attachMember(v)
                              \/ DropVerdict(v) \/ denyRequest(v)

InviteNext == \E i \in Invites : InviteStep(i)

\* A waiting device polls every two seconds, and a handler that began goes on;
\* nothing is asked of the owner before a call is made.
InviteFairness ==
    /\ \A a \in Askers : WF_inviteVars(ReadPoll(a)) /\ WF_inviteVars(claimInvite(a) \/ pollRequest(a))
    /\ \A v \in Verdicts : WF_inviteVars(approveRequest(v) \/ attachMember(v))

InviteSpec == InviteInit /\ [][InviteNext]_inviteVars /\ InviteFairness

-----------------------------------------------------------------------------
\* What makes it so where calls come one by one: the row is still what the
\* call under way has read, and the credential is there until it is handed out.
Underway(i) == Claiming(i) \cup Polling(i) \cup Approving(i)
RowAsRead ==
    \A i \in Invites \ Raced :
        /\ \A p, q \in Underway(i) : p = q
        /\ Claiming(i) # {} => invite[i].status = "open"
        /\ Polling(i) # {} => invite[i].status = "approved"
        /\ Approving(i) # {} => invite[i].status = "pending"
DeliveredOrNot ==
    \A i \in Invites \ Raced :
        /\ invite[i].status = "delivered" => collected[i] > 0
        /\ collected[i] > 0 => invite[i].status \in {"delivered", "denied"}

\* What makes the next one so, overlapping or not.
ApprovalsCarried ==
    /\ \A i \in Invites : invite[i].status = "pending" => invite[i].peer # NoPeer
    /\ \A i \in Invites : invite[i].jwt # NoPeer => <<i, invite[i].jwt>> \in approvals
    /\ \A a \in Askers : asker[a] = "polling" => <<For[a], carried[a]>> \in approvals
    /\ \A v \in Verdicts : verdict[v].step \in {"approving", "attaching"}
                             => <<About[v], verdict[v].peer>> \in approvals

\* Where an invite stands for the owner and the device, on one whose calls
\* come one by one.
InviteStanding(i) ==
    CASE collected[i] > 0 -> "given"
      [] collected[i] = 0 /\ invite[i].status \in {"none", "open"} -> "idle"
      [] collected[i] = 0 /\ invite[i].status = "pending" -> "asked"
      [] collected[i] = 0 /\ invite[i].status = "approved" -> "granted"
      [] OTHER -> "over"

Admission == INSTANCE OneTimeGrant
                WITH Requests <- Invites \ Raced,
                     grant <- [i \in Invites \ Raced |-> InviteStanding(i)],
                     given <- [i \in Invites \ Raced |-> collected[i]]

\* An invite is used once: one device claims it, one approval grants it, its
\* credential is handed out once, and after a denial never ("the jwt is handed
\* out once; later polls just report the state", peerInvites.test.ts).
InviteOneTime == Admission!Spec

\* Even where calls overlap, whatever credential goes out names a device whose
\* claim the owner's approval read, and only such devices become members.
CredentialsWereApproved ==
    /\ \A t \in answers : <<t[1], t[3]>> \in approvals
    /\ attached \subseteq approvals

\* A device whose request is approved does not poll for ever: it gets the
\* credential or an answer that ends its attempt.
ApprovedIsAnswered ==
    \A a \in Askers : asker[a] = "waiting" /\ Deliverable(a) ~> asker[a] \in {"held", "failed"}
=============================================================================
