--------------------------- MODULE Services_proofs ---------------------------
(***************************************************************************)
(* What the backend promises, for any number of devices and accounts: a    *)
(* login hands one session out, once, for a login that was approved; an    *)
(* invite gives its credential only as it was approved, once if calls come *)
(* one by one; a node read through the relay comes from the device that    *)
(* holds it, to a peer who may read it then; a key moves tokens once, no   *)
(* balance goes below zero, and those of the steady accounts are those of  *)
(* a TokenBook.  The four services share no state.                         *)
(***************************************************************************)
EXTENDS MCServices, EditHistory_proofs

-----------------------------------------------------------------------------
(* Device login: DeviceInv is inductive; the refinement of OneTimeGrant follows *)
(* from it action by action. *)


DeviceInv == DeviceTypeOK /\ CodeOnOneServer /\ CodeGoesWithSession /\ NothingBeforeStart

\* Dropping old codes leaves every other entry as it is.
LEMMA PruneDrops ==
    ASSUME DeviceTypeOK, NEW s \in LoginServers
    PROVE  /\ prune(s) \in [Logins -> {"none", "pending", "approved", "denied"}]
           /\ \A d \in Logins : prune(s)[d] = IF d \in old THEN "none" ELSE pending[s][d]
  BY DEF prune, DeviceTypeOK

\* Writing the entry of one code at one server changes no other entry, except
\* that codes which are too old go.
LEMMA PutWrites ==
    ASSUME DeviceTypeOK, NEW d \in Logins, NEW s \in LoginServers,
           NEW e \in {"none", "pending", "approved", "denied"}, Put(s, d, e)
    PROVE  /\ pending' \in [LoginServers -> [Logins -> {"none", "pending", "approved", "denied"}]]
           /\ pending'[s][d] = e
           /\ \A t \in LoginServers, c \in Logins :
                 (t # s \/ c # d) => \/ pending'[t][c] = pending[t][c]
                                     \/ (pending'[t][c] = "none" /\ c \in old)
<1> DEFINE entries == [prune(s) EXCEPT ![d] = e]
<1>1. /\ entries \in [Logins -> {"none", "pending", "approved", "denied"}]
      /\ entries[d] = e
      /\ \A c \in Logins : c # d => entries[c] = pending[s][c] \/ (entries[c] = "none" /\ c \in old)
  BY PruneDrops
<1>2. pending' = [pending EXCEPT ![s] = entries]
  BY DEF Put
<1> HIDE DEF entries
<1> QED
  BY <1>1, <1>2 DEF DeviceTypeOK

LEMMA PruneAloneWrites ==
    ASSUME DeviceTypeOK, NEW s \in LoginServers, PruneAlone(s)
    PROVE  /\ pending' \in [LoginServers -> [Logins -> {"none", "pending", "approved", "denied"}]]
           /\ \A t \in LoginServers, c \in Logins :
                 pending'[t][c] = pending[t][c] \/ (pending'[t][c] = "none" /\ c \in old)
<1> DEFINE entries == prune(s)
<1>1. /\ entries \in [Logins -> {"none", "pending", "approved", "denied"}]
      /\ \A c \in Logins : entries[c] = pending[s][c] \/ (entries[c] = "none" /\ c \in old)
  BY PruneDrops
<1>2. pending' = [pending EXCEPT ![s] = entries]
  BY DEF PruneAlone
<1> HIDE DEF entries
<1> QED
  BY <1>1, <1>2 DEF DeviceTypeOK

\* A code that is written anew, or again, is on one server only.
LEMMA PutKeeps ==
    ASSUME DeviceInv, NEW d \in Logins, NEW s \in LoginServers,
           NEW e \in {"none", "pending", "approved", "denied"}, Put(s, d, e),
           e = "none" \/ \A t \in LoginServers : t # s => pending[t][d] = "none"
    PROVE  CodeOnOneServer'
<1> SUFFICES ASSUME NEW c \in Logins, NEW t \in LoginServers, NEW u \in LoginServers,
                    pending'[t][c] # "none", pending'[u][c] # "none"
             PROVE  t = u
  BY DEF CodeOnOneServer
<1>0. /\ pending'[s][d] = e
      /\ \A r \in LoginServers, b \in Logins :
            (r # s \/ b # d) => pending'[r][b] = pending[r][b] \/ pending'[r][b] = "none"
  BY PutWrites DEF DeviceInv
<1>1. CASE c = d
  BY <1>0, <1>1 DEF DeviceInv, CodeOnOneServer
<1>2. CASE c # d
  BY <1>0, <1>2 DEF DeviceInv, CodeOnOneServer
<1> QED
  BY <1>1, <1>2

THEOREM DeviceInvariant == DeviceSpec => []DeviceInv
<1>1. DeviceInit => DeviceInv
  BY DEF DeviceInit, DeviceInv, DeviceTypeOK, CodeOnOneServer, CodeGoesWithSession, NothingBeforeStart
<1>2. DeviceInv /\ [DeviceNext]_deviceVars => DeviceInv'
  <2> SUFFICES ASSUME DeviceInv, [DeviceNext]_deviceVars PROVE DeviceInv'
    OBVIOUS
  <2> USE DEF DeviceInv
  <2>1. ASSUME NEW d \in Logins, NEW s \in LoginServers, start(d, s) PROVE DeviceInv'
    <3>1. Put(s, d, "pending") /\ CodeOnOneServer'
      BY <2>1, PutKeeps DEF start, NothingBeforeStart
    <3> QED
      BY <2>1, <3>1, PutWrites DEF start, DeviceTypeOK, CodeGoesWithSession, NothingBeforeStart
  <2>2. ASSUME NEW d \in Logins, NEW s \in LoginServers, poll(d, s), Deliver(d, s) PROVE DeviceInv'
    <3>1. Put(s, d, "none") /\ CodeOnOneServer'
      BY <2>2, PutKeeps DEF Deliver
    <3>2. pending[s][d] # "none"
      BY <2>2, PruneDrops DEF Deliver, Live
    <3>3. \A t \in LoginServers : pending'[t][d] = "none"
      BY <3>1, <3>2, PutWrites DEF CodeOnOneServer
    <3>4. DeviceTypeOK'
      BY <2>2, <3>1, PutWrites DEF poll, Deliver, DeviceTypeOK
    <3>5. CodeGoesWithSession' /\ NothingBeforeStart'
      BY <2>2, <3>1, <3>3, PutWrites DEF poll, Deliver, DeviceTypeOK, CodeGoesWithSession, NothingBeforeStart
    <3> QED
      BY <3>1, <3>4, <3>5
  <2>3. ASSUME NEW d \in Logins, NEW s \in LoginServers, poll(d, s),
               TurnAway(d, s) \/ KeepWaiting(d, s)
        PROVE  DeviceInv'
    <3>1. PruneAlone(s) /\ UNCHANGED <<old, polled>> /\ device[d] = "waiting"
      BY <2>3 DEF poll, TurnAway, KeepWaiting
    <3>2. \E got \in {"waiting", "failed"} : device' = [device EXCEPT ![d] = got]
      BY <2>3 DEF TurnAway, KeepWaiting
    <3> QED
      BY <3>1, <3>2, PruneAloneWrites
         DEF DeviceTypeOK, CodeOnOneServer, CodeGoesWithSession, NothingBeforeStart
  <2>4. ASSUME NEW s \in LoginServers, describe(s) PROVE DeviceInv'
    BY <2>4, PruneAloneWrites
       DEF describe, DeviceTypeOK, CodeOnOneServer, CodeGoesWithSession, NothingBeforeStart
  <2>5. ASSUME NEW d \in Logins, NEW s \in LoginServers, approve(d, s) PROVE DeviceInv'
    <3>1. pending[s][d] = "pending" /\ Put(s, d, "approved")
      BY <2>5, PruneDrops DEF approve, Live
    <3>2. CodeOnOneServer'
      BY <3>1, PutKeeps DEF CodeOnOneServer
    <3>3. ~(polled[d] > 0) /\ device[d] # "off" /\ UNCHANGED <<old, device, polled>>
      BY <2>5, <3>1 DEF approve, CodeGoesWithSession, NothingBeforeStart
    <3>4. DeviceTypeOK'
      BY <3>1, <3>3, PutWrites DEF DeviceTypeOK
    <3>5. CodeGoesWithSession' /\ NothingBeforeStart'
      BY <3>1, <3>3, PutWrites DEF CodeGoesWithSession, NothingBeforeStart
    <3> QED
      BY <3>2, <3>4, <3>5
  <2>6. ASSUME NEW d \in Logins, NEW s \in LoginServers, deny(d, s) PROVE DeviceInv'
    BY <2>6 DEF deny, DeviceTypeOK, CodeOnOneServer, CodeGoesWithSession, NothingBeforeStart
  <2>7. ASSUME NEW d \in Logins, GrowOld(d) \/ GiveUp(d) PROVE DeviceInv'
    BY <2>7 DEF GrowOld, GiveUp, DeviceTypeOK, CodeOnOneServer, CodeGoesWithSession, NothingBeforeStart
  <2>8. ASSUME NEW s \in LoginServers, Restart(s) PROVE DeviceInv'
    BY <2>8 DEF Restart, DeviceTypeOK, CodeOnOneServer, CodeGoesWithSession, NothingBeforeStart
  <2>9. CASE UNCHANGED deviceVars
    BY <2>9 DEF deviceVars, DeviceTypeOK, CodeOnOneServer, CodeGoesWithSession, NothingBeforeStart
  <2> QED
    BY <2>1, <2>2, <2>3, <2>4, <2>5, <2>6, <2>7, <2>8, <2>9 DEF DeviceNext, poll
<1> QED
  BY <1>1, <1>2, PTL DEF DeviceSpec

-----------------------------------------------------------------------------
\* Where a login stands, from what a server holds of its code.
LEMMA StandingIs ==
    ASSUME DeviceInv, NEW d \in Logins
    PROVE  /\ Standing(d) \in {"idle", "asked", "granted", "given", "over"}
           /\ Standing(d) = "given" <=> polled[d] > 0
           /\ Standing(d) = "idle" <=> device[d] = "off"
           /\ \A s \in LoginServers :
                 polled[d] = 0 /\ d \notin old /\ pending[s][d] = "pending" => Standing(d) = "asked"
           /\ \A s \in LoginServers :
                 polled[d] = 0 /\ d \notin old /\ pending[s][d] = "approved" => Standing(d) = "granted"
           /\ polled[d] = 0 /\ device[d] # "off"
              /\ (d \in old \/ \A s \in LoginServers : pending[s][d] \in {"none", "denied"})
              => Standing(d) = "over"
<1>1. polled[d] \in Nat
  BY DEF DeviceInv, DeviceTypeOK
<1> QED
  BY <1>1 DEF Standing, Has, DeviceInv, CodeOnOneServer, CodeGoesWithSession, NothingBeforeStart

\* The same of the next state.
LEMMA StandingWillBe ==
    ASSUME DeviceInv', NEW d \in Logins
    PROVE  /\ Standing(d)' \in {"idle", "asked", "granted", "given", "over"}
           /\ Standing(d)' = "given" <=> polled'[d] > 0
           /\ Standing(d)' = "idle" <=> device'[d] = "off"
           /\ \A s \in LoginServers :
                 polled'[d] = 0 /\ d \notin old' /\ pending'[s][d] = "pending" => Standing(d)' = "asked"
           /\ \A s \in LoginServers :
                 polled'[d] = 0 /\ d \notin old' /\ pending'[s][d] = "approved" => Standing(d)' = "granted"
           /\ polled'[d] = 0 /\ device'[d] # "off"
              /\ (d \in old' \/ \A s \in LoginServers : pending'[s][d] \in {"none", "denied"})
              => Standing(d)' = "over"
<1>1. polled'[d] \in Nat
  BY DEF DeviceInv, DeviceTypeOK
<1> QED
  BY <1>1 DEF Standing, Has, DeviceInv, CodeOnOneServer, CodeGoesWithSession, NothingBeforeStart

\* A login that neither gets an entry nor loses a live one stands where it stood.
LEMMA StandingStays ==
    ASSUME DeviceInv, DeviceInv', NEW d \in Logins,
           polled'[d] = polled[d], (device'[d] = "off") <=> (device[d] = "off"),
           (d \in old') <=> (d \in old),
           \A s \in LoginServers : pending'[s][d] = pending[s][d]
                                  \/ (pending'[s][d] = "none" /\ d \in old)
    PROVE  Standing(d)' = Standing(d)
  BY StandingIs, StandingWillBe DEF Standing, Has

\* However polls, approvals, denials, restarts and expiries follow one another,
\* a session is handed out once, for a code that was approved.
THEOREM DeviceImplementsGrant == DeviceSpec => DeviceOneTime
<1>1. DeviceInit => Logon!Init
  BY DEF DeviceInit, Logon!Init, Standing, Has
<1>2. DeviceInv /\ DeviceInv' /\ [DeviceNext]_deviceVars
      => [Logon!Next]_<<[d \in Logins |-> Standing(d)], polled>>
  <2> SUFFICES ASSUME DeviceInv, DeviceInv', [DeviceNext]_deviceVars
               PROVE  Logon!Next \/ UNCHANGED <<[d \in Logins |-> Standing(d)], polled>>
    OBVIOUS
  <2> DEFINE standing == [d \in Logins |-> Standing(d)]
  <2>0. ASSUME NEW d \in Logins, \A c \in Logins \ {d} : Standing(c)' = Standing(c)
        PROVE  standing' = [standing EXCEPT ![d] = Standing(d)']
    BY <2>0
  <2>1. ASSUME NEW d \in Logins, NEW s \in LoginServers, start(d, s) PROVE Logon!Next
    <3>1. Put(s, d, "pending") /\ device[d] = "off" /\ UNCHANGED <<old, polled>>
      BY <2>1 DEF start
    <3>2. device'[d] # "off" /\ \A c \in Logins \ {d} : device'[c] = device[c]
      BY <2>1 DEF start, DeviceInv, DeviceTypeOK
    <3>3. pending'[s][d] = "pending" /\ polled[d] = 0 /\ d \notin old
      BY <3>1, PutWrites DEF DeviceInv, DeviceTypeOK, CodeGoesWithSession, NothingBeforeStart
    <3>4. Standing(d) = "idle" /\ Standing(d)' = "asked"
      BY <3>1, <3>3, StandingIs, StandingWillBe
    <3>5. \A c \in Logins \ {d} : Standing(c)' = Standing(c)
      BY <3>1, <3>2, PutWrites, StandingStays DEF DeviceInv
    <3> QED
      BY <2>0, <3>1, <3>4, <3>5 DEF Logon!Next, Logon!Ask
  <2>2. ASSUME NEW d \in Logins, NEW s \in LoginServers, poll(d, s), Deliver(d, s) PROVE Logon!Next
    <3>1. Put(s, d, "none") /\ device[d] = "waiting" /\ UNCHANGED old
          /\ polled' = [polled EXCEPT ![d] = @ + 1]
      BY <2>2 DEF poll, Deliver
    <3>2. \A c \in Logins : (device'[c] = "off") <=> (device[c] = "off")
      BY <2>2 DEF poll, Deliver, DeviceInv, DeviceTypeOK
    <3>3. pending[s][d] = "approved" /\ d \notin old /\ polled[d] = 0 /\ polled'[d] = 1
      BY <2>2, <3>1, PruneDrops DEF Deliver, Live, DeviceInv, DeviceTypeOK, CodeGoesWithSession
    <3>4. Standing(d) = "granted" /\ Standing(d)' = "given"
      BY <3>3, StandingIs, StandingWillBe
    <3>5. \A c \in Logins \ {d} : Standing(c)' = Standing(c)
      BY <3>1, <3>2, PutWrites, StandingStays DEF DeviceInv, DeviceTypeOK
    <3> QED
      BY <2>0, <3>1, <3>4, <3>5 DEF Logon!Next, Logon!Give
  <2>3. ASSUME NEW d \in Logins, NEW s \in LoginServers, poll(d, s),
               TurnAway(d, s) \/ KeepWaiting(d, s)
        PROVE  UNCHANGED <<standing, polled>>
    <3>1. PruneAlone(s) /\ UNCHANGED <<old, polled>>
      BY <2>3 DEF poll, TurnAway, KeepWaiting
    <3>2. \A c \in Logins : (device'[c] = "off") <=> (device[c] = "off")
      BY <2>3 DEF poll, TurnAway, KeepWaiting, DeviceInv, DeviceTypeOK
    <3> QED
      BY <3>1, <3>2, PruneAloneWrites, StandingStays DEF DeviceInv
  <2>4. ASSUME NEW s \in LoginServers, describe(s) PROVE UNCHANGED <<standing, polled>>
    BY <2>4, PruneAloneWrites, StandingStays DEF describe, DeviceInv
  <2>5. ASSUME NEW d \in Logins, NEW s \in LoginServers, approve(d, s) PROVE Logon!Next
    <3>1. Put(s, d, "approved") /\ UNCHANGED <<old, device, polled>>
      BY <2>5 DEF approve
    <3>2. pending[s][d] = "pending" /\ pending'[s][d] = "approved" /\ d \notin old /\ polled[d] = 0
      BY <2>5, <3>1, PruneDrops, PutWrites DEF approve, Live, DeviceInv, DeviceTypeOK, CodeGoesWithSession
    <3>3. Standing(d) = "asked" /\ Standing(d)' = "granted"
      BY <3>1, <3>2, StandingIs, StandingWillBe
    <3>4. \A c \in Logins \ {d} : Standing(c)' = Standing(c)
      BY <3>1, PutWrites, StandingStays DEF DeviceInv
    <3> QED
      BY <2>0, <3>1, <3>3, <3>4 DEF Logon!Next, Logon!Grant
  <2>6. ASSUME NEW d \in Logins, NEW s \in LoginServers, deny(d, s)
        PROVE  Logon!Next \/ UNCHANGED <<standing, polled>>
    <3>1. pending[s][d] # "none" /\ UNCHANGED <<old, device, polled>>
          /\ pending' = [pending EXCEPT ![s][d] = "denied"]
      BY <2>6 DEF deny
    <3>2. polled[d] = 0 /\ device[d] # "off"
          /\ \A t \in LoginServers : pending'[t][d] \in {"none", "denied"}
      BY <3>1 DEF DeviceInv, DeviceTypeOK, CodeOnOneServer, CodeGoesWithSession, NothingBeforeStart
    <3>3. Standing(d)' = "over" /\ Standing(d) \in {"asked", "granted", "over"}
      BY <3>1, <3>2, StandingIs, StandingWillBe
    <3>4. \A c \in Logins \ {d} : \A t \in LoginServers : pending'[t][c] = pending[t][c]
      BY <3>1 DEF DeviceInv, DeviceTypeOK
    <3>5. \A c \in Logins \ {d} : Standing(c)' = Standing(c)
      BY <3>1, <3>4, StandingStays
    <3>6. CASE Standing(d) = "over"
      BY <3>1, <3>3, <3>5, <3>6
    <3> QED
      BY <2>0, <3>1, <3>3, <3>5, <3>6 DEF Logon!Next, Logon!End
  <2>7. ASSUME NEW d \in Logins, GrowOld(d) \/ GiveUp(d)
        PROVE  Logon!Next \/ UNCHANGED <<standing, polled>>
    <3>1. UNCHANGED <<pending, polled>> /\ old \subseteq old'
          /\ \A c \in Logins \ {d} : c \in old' <=> c \in old
      BY <2>7 DEF GrowOld, GiveUp
    <3>2. \A c \in Logins : (device'[c] = "off") <=> (device[c] = "off")
      BY <2>7 DEF GrowOld, GiveUp, DeviceInv, DeviceTypeOK
    <3>3. \A c \in Logins \ {d} : Standing(c)' = Standing(c)
      BY <3>1, <3>2, StandingStays
    <3>4. CASE polled[d] = 0 /\ d \in old'
      <4>1. Standing(d)' = "over" /\ Standing(d) \in {"asked", "granted", "over"}
        BY <2>7, <3>1, <3>2, <3>4, StandingIs, StandingWillBe DEF GrowOld, GiveUp
      <4>2. CASE Standing(d) = "over"
        BY <3>1, <3>3, <4>1, <4>2
      <4> QED
        BY <2>0, <3>1, <3>3, <4>1, <4>2 DEF Logon!Next, Logon!End
    <3>5. CASE polled[d] > 0
      <4>1. Standing(d)' = Standing(d)
        BY <3>1, <3>5, StandingIs, StandingWillBe
      <4> QED
        BY <3>1, <3>3, <4>1
    <3> QED
      BY <2>7, <3>1, <3>4, <3>5 DEF GrowOld, GiveUp, DeviceInv, DeviceTypeOK
  <2>8. ASSUME NEW s \in LoginServers, Restart(s) PROVE Logon!Next
    <3> DEFINE lost == {d \in Logins : Standing(d) \in {"asked", "granted"} /\ pending[s][d] # "none"}
    <3>1. UNCHANGED <<old, device, polled>>
          /\ pending' = [pending EXCEPT ![s] = [d \in Logins |-> "none"]]
      BY <2>8 DEF Restart
    <3>2. \A d \in Logins, t \in LoginServers :
            pending'[t][d] = IF t = s THEN "none" ELSE pending[t][d]
      BY <3>1 DEF DeviceInv, DeviceTypeOK
    <3>3. ASSUME NEW d \in lost PROVE Standing(d)' = "over"
      <4>1. \A t \in LoginServers : pending'[t][d] = "none"
        BY <3>2, <3>3 DEF DeviceInv, CodeOnOneServer
      <4>2. polled[d] = 0 /\ device[d] # "off"
        BY <3>3, StandingIs, StandingWillBe DEF DeviceInv, DeviceTypeOK
      <4> QED
        BY <3>1, <3>3, <4>1, <4>2, StandingIs, StandingWillBe
    <3>4. ASSUME NEW d \in Logins \ lost PROVE Standing(d)' = Standing(d)
      <4>1. CASE pending[s][d] = "none"
        BY <3>1, <3>2, <3>4, <4>1, StandingStays
      <4>2. CASE pending[s][d] # "none"
        <5>1. Standing(d) = "over"
          BY <3>4, <4>2, StandingIs, StandingWillBe
             DEF DeviceInv, DeviceTypeOK, CodeGoesWithSession, NothingBeforeStart
        <5>2. polled[d] = 0 /\ device[d] # "off" /\ \A t \in LoginServers : pending'[t][d] = "none"
          BY <3>2, <4>2 DEF DeviceInv, DeviceTypeOK, CodeOnOneServer, CodeGoesWithSession, NothingBeforeStart
        <5> QED
          BY <3>1, <5>1, <5>2, StandingIs, StandingWillBe
      <4> QED
        BY <4>1, <4>2
    <3>5. standing' = [d \in Logins |-> IF d \in lost THEN "over" ELSE standing[d]]
      BY <3>3, <3>4
    <3>6. Logon!EndAll(lost)
      BY <3>1, <3>5 DEF Logon!EndAll
    <3> QED
      BY <3>6 DEF Logon!Next
  <2>9. CASE UNCHANGED deviceVars
    BY <2>9 DEF deviceVars, Standing, Has
  <2> QED
    BY <2>1, <2>2, <2>3, <2>4, <2>5, <2>6, <2>7, <2>8, <2>9 DEF DeviceNext, poll
<1> QED
  BY <1>1, <1>2, DeviceInvariant, PTL DEF DeviceSpec, DeviceOneTime, Logon!Spec

-----------------------------------------------------------------------------
(* Peer invites: what goes out was approved, and an invite on which calls come *)
(* one by one is one OneTimeGrant. *)

Statuses == {"none", "open", "pending", "approved", "denied", "delivered"}

\* Writing a row changes that row, to what is written.
LEMMA RowWritten ==
    ASSUME InviteTypeOK, NEW i \in Invites, NEW status \in Statuses,
           NEW peer \in MaybePeer, NEW jwt \in MaybePeer, update(i, status, peer, jwt)
    PROVE  /\ invite' \in [Invites -> Row]
           /\ invite'[i].status = status /\ invite'[i].peer = peer /\ invite'[i].jwt = jwt
           /\ \A j \in Invites \ {i} : invite'[j] = invite[j]
  BY DEF InviteTypeOK, Row, Statuses, update

\* The fields of a row.
LEMMA RowFields ==
    ASSUME InviteTypeOK, NEW i \in Invites
    PROVE  invite[i].status \in Statuses /\ invite[i].peer \in MaybePeer /\ invite[i].jwt \in MaybePeer
  BY DEF InviteTypeOK, Row, Statuses

\* An owner's call moves alone.
LEMMA CallMoved ==
    ASSUME InviteTypeOK, NEW v \in Verdicts,
           NEW step \in {"ready", "approving", "attaching", "done"}, NEW peer \in MaybePeer,
           Proceed(v, step, peer)
    PROVE  /\ verdict' \in [Verdicts -> Call]
           /\ verdict'[v].step = step /\ verdict'[v].peer = peer
           /\ \A w \in Verdicts \ {v} : verdict'[w] = verdict[w]
  BY DEF InviteTypeOK, Call, Proceed

LEMMA CallFields ==
    ASSUME InviteTypeOK, NEW v \in Verdicts
    PROVE  /\ verdict[v].step \in {"ready", "approving", "attaching", "done"}
           /\ verdict[v].peer \in MaybePeer
  BY DEF InviteTypeOK, Call

ApprovedInv == InviteTypeOK /\ CredentialsWereApproved /\ ApprovalsCarried

\* Every credential that goes out, and every member added, is one the owner's
\* approval read, however calls overlap.
THEOREM OnlyApproved == InviteSpec => [](InviteTypeOK /\ CredentialsWereApproved)
<1> USE InvitesAssumption
<1>1. InviteInit => ApprovedInv
  BY DEF InviteInit, ApprovedInv, InviteTypeOK, CredentialsWereApproved, ApprovalsCarried,
         Row, Call, MaybePeer
<1>2. ApprovedInv /\ [InviteNext]_inviteVars => ApprovedInv'
  <2> SUFFICES ASSUME ApprovedInv, [InviteNext]_inviteVars PROVE ApprovedInv'
    OBVIOUS
  <2> USE DEF ApprovedInv
  <2>1. ASSUME NEW i \in Invites, createInvite(i) PROVE ApprovedInv'
    <3>1. update(i, "open", NoPeer, NoPeer)
          /\ UNCHANGED <<expired, asker, carried, verdict, attached, collected, answers, approvals>>
      BY <2>1 DEF createInvite
    <3>2. /\ invite' \in [Invites -> Row]
          /\ invite'[i].status = "open" /\ invite'[i].jwt = NoPeer
          /\ \A j \in Invites \ {i} : invite'[j] = invite[j]
      BY <3>1, RowWritten DEF Statuses, MaybePeer
    <3>3. InviteTypeOK'
      BY <3>1, <3>2 DEF InviteTypeOK
    <3> QED
      BY <3>1, <3>2, <3>3 DEF CredentialsWereApproved, ApprovalsCarried
  <2>2. ASSUME NEW i \in Invites, Expire(i) PROVE ApprovedInv'
    BY <2>2 DEF Expire, InviteTypeOK, CredentialsWereApproved, ApprovalsCarried
  <2>3. ASSUME NEW a \in Askers, ReadClaim(a) \/ StopAsking(a) PROVE ApprovedInv'
    BY <2>3 DEF ReadClaim, StopAsking, InviteTypeOK, MaybePeer, CredentialsWereApproved, ApprovalsCarried
  <2>4. ASSUME NEW a \in Askers, claimInvite(a) PROVE ApprovedInv'
    <3>1. update(For[a], "pending", a, invite[For[a]].jwt)
          /\ \E got \in {"waiting", "failed"} : asker' = [asker EXCEPT ![a] = got]
          /\ UNCHANGED <<expired, carried, verdict, attached, collected, answers, approvals>>
      BY <2>4 DEF claimInvite
    <3>2. For[a] \in Invites /\ a \in MaybePeer /\ a # NoPeer
      BY DEF MaybePeer
    <3>3. /\ invite' \in [Invites -> Row]
          /\ invite'[For[a]].peer = a /\ invite'[For[a]].jwt = invite[For[a]].jwt
          /\ \A j \in Invites \ {For[a]} : invite'[j] = invite[j]
      BY <3>1, <3>2, RowWritten, RowFields DEF Statuses
    <3>4. InviteTypeOK'
      BY <3>1, <3>3 DEF InviteTypeOK
    <3>5. \A c \in Askers : asker'[c] = "polling" => asker[c] = "polling"
      BY <3>1 DEF InviteTypeOK
    <3> QED
      BY <3>1, <3>2, <3>3, <3>4, <3>5 DEF CredentialsWereApproved, ApprovalsCarried
  <2>5. ASSUME NEW a \in Askers, ReadPoll(a) PROVE ApprovedInv'
    <3>1. For[a] \in Invites /\ UNCHANGED <<invite, expired, verdict, attached, collected, answers, approvals>>
      BY <2>5 DEF ReadPoll
    <3>2. CASE Deliverable(a)
      <4>1. /\ carried' = [carried EXCEPT ![a] = invite[For[a]].jwt]
            /\ asker' = [asker EXCEPT ![a] = "polling"]
            /\ invite[For[a]].jwt \in MaybePeer \ {NoPeer}
        BY <2>5, <3>1, <3>2, RowFields DEF ReadPoll, Deliverable
      <4>2. InviteTypeOK'
        BY <3>1, <4>1 DEF InviteTypeOK
      <4>3. carried'[a] = invite[For[a]].jwt /\ \A c \in Askers \ {a} : asker'[c] = asker[c] /\ carried'[c] = carried[c]
        BY <4>1 DEF InviteTypeOK
      <4> QED
        BY <3>1, <4>1, <4>2, <4>3 DEF CredentialsWereApproved, ApprovalsCarried
    <3>3. CASE ~Deliverable(a)
      <4>1. carried' = carried /\ \E got \in {"waiting", "failed"} : asker' = [asker EXCEPT ![a] = got]
        BY <2>5, <3>3 DEF ReadPoll
      <4> QED
        BY <3>1, <4>1 DEF InviteTypeOK, CredentialsWereApproved, ApprovalsCarried
    <3> QED
      BY <3>2, <3>3
  <2>6. ASSUME NEW a \in Askers, pollRequest(a) PROVE ApprovedInv'
    <3>1. /\ update(For[a], "delivered", invite[For[a]].peer, NoPeer)
          /\ asker[a] = "polling" /\ For[a] \in Invites
          /\ collected' = [collected EXCEPT ![For[a]] = @ + 1]
          /\ answers' = answers \cup {<<For[a], a, carried[a]>>}
          /\ carried' = [carried EXCEPT ![a] = NoPeer]
          /\ UNCHANGED <<expired, verdict, attached, approvals>>
          /\ \E got \in {"held", "failed"} : asker' = [asker EXCEPT ![a] = got]
      BY <2>6 DEF pollRequest
    <3>2. /\ invite' \in [Invites -> Row]
          /\ invite'[For[a]].status = "delivered" /\ invite'[For[a]].jwt = NoPeer
          /\ \A j \in Invites \ {For[a]} : invite'[j] = invite[j]
      BY <3>1, RowWritten, RowFields DEF Statuses, MaybePeer
    <3>3. carried[a] \in MaybePeer /\ NoPeer \in MaybePeer
      BY DEF InviteTypeOK, MaybePeer
    <3>4. InviteTypeOK'
      <4>1. collected' \in [Invites -> Nat] /\ answers' \subseteq Invites \X Askers \X MaybePeer
        BY <3>1, <3>3 DEF InviteTypeOK
      <4>2. asker' \in [Askers -> {"off", "claiming", "waiting", "polling", "held", "failed"}]
            /\ carried' \in [Askers -> MaybePeer]
        BY <3>1, <3>3 DEF InviteTypeOK
      <4> QED
        BY <3>1, <3>2, <4>1, <4>2 DEF InviteTypeOK
    <3>5. CredentialsWereApproved'
      <4>1. <<For[a], carried[a]>> \in approvals
        BY <3>1 DEF ApprovalsCarried
      <4>2. ASSUME NEW t \in answers' PROVE <<t[1], t[3]>> \in approvals
        BY <3>1, <4>1, <4>2 DEF CredentialsWereApproved
      <4> QED
        BY <3>1, <4>2 DEF CredentialsWereApproved
    <3>6. ApprovalsCarried'
      BY <3>1, <3>2 DEF InviteTypeOK, ApprovalsCarried
    <3> QED
      BY <3>4, <3>5, <3>6
  <2>7. ASSUME NEW v \in Verdicts, ReadApprove(v) PROVE ApprovedInv'
    <3> DEFINE i == About[v]
    <3>1. /\ Proceed(v, "approving", invite[i].peer) /\ invite[i].status = "pending" /\ i \in Invites
          /\ approvals' = approvals \cup {<<i, invite[i].peer>>}
          /\ UNCHANGED <<invite, expired, asker, carried, attached, collected, answers>>
      BY <2>7 DEF ReadApprove
    <3>2. invite[i].peer \in Askers
      <4>1. invite[i].peer \in MaybePeer
        BY <3>1, RowFields
      <4>2. invite[i].peer # NoPeer
        BY <3>1 DEF ApprovalsCarried
      <4> QED
        BY <4>1, <4>2 DEF MaybePeer
    <3>3. /\ verdict' \in [Verdicts -> Call] /\ verdict'[v].peer = invite[i].peer
          /\ \A w \in Verdicts \ {v} : verdict'[w] = verdict[w]
      BY <3>1, RowFields, CallMoved
    <3>4. InviteTypeOK'
      BY <3>1, <3>2, <3>3 DEF InviteTypeOK
    <3> QED
      BY <3>1, <3>3, <3>4 DEF CredentialsWereApproved, ApprovalsCarried
  <2>8. ASSUME NEW v \in Verdicts, approveRequest(v) PROVE ApprovedInv'
    <3> DEFINE i == About[v]
    <3>1. /\ update(i, "approved", invite[i].peer, verdict[v].peer) /\ Proceed(v, "attaching", verdict[v].peer)
          /\ verdict[v].step = "approving" /\ i \in Invites
          /\ UNCHANGED <<expired, asker, carried, attached, collected, answers, approvals>>
      BY <2>8 DEF approveRequest
    <3>2. /\ invite' \in [Invites -> Row]
          /\ invite'[i].status = "approved" /\ invite'[i].jwt = verdict[v].peer
          /\ \A j \in Invites \ {i} : invite'[j] = invite[j]
      BY <3>1, RowWritten, RowFields, CallFields DEF Statuses
    <3>3. /\ verdict' \in [Verdicts -> Call] /\ verdict'[v].peer = verdict[v].peer
          /\ \A w \in Verdicts \ {v} : verdict'[w] = verdict[w]
      BY <3>1, CallFields, CallMoved
    <3>4. InviteTypeOK'
      BY <3>1, <3>2, <3>3 DEF InviteTypeOK
    <3> QED
      BY <3>1, <3>2, <3>3, <3>4 DEF CredentialsWereApproved, ApprovalsCarried
  <2>10. ASSUME NEW v \in Verdicts, attachMember(v) \/ DropVerdict(v) PROVE ApprovedInv'
    <3>1. /\ Proceed(v, "done", verdict[v].peer)
          /\ UNCHANGED <<invite, expired, asker, carried, collected, answers, approvals>>
          /\ \/ UNCHANGED attached
             \/ /\ verdict[v].step = "attaching"
                /\ attached' = attached \cup {<<About[v], verdict[v].peer>>}
      BY <2>10 DEF attachMember, DropVerdict
    <3>2. /\ verdict' \in [Verdicts -> Call] /\ verdict'[v].step = "done"
          /\ \A w \in Verdicts \ {v} : verdict'[w] = verdict[w]
      BY <3>1, CallFields, CallMoved
    <3>3. attached' \subseteq approvals
      <4>1. verdict[v].step = "attaching" => <<About[v], verdict[v].peer>> \in approvals
        BY DEF ApprovalsCarried
      <4>2. attached \subseteq approvals
        BY DEF CredentialsWereApproved
      <4> QED
        BY <3>1, <4>1, <4>2
    <3>4. InviteTypeOK'
      BY <3>1, <3>2, <3>3 DEF InviteTypeOK
    <3> QED
      BY <3>1, <3>2, <3>3, <3>4 DEF CredentialsWereApproved, ApprovalsCarried
  <2>11. ASSUME NEW v \in Verdicts, denyRequest(v) PROVE ApprovedInv'
    <3> DEFINE i == About[v]
    <3>1. /\ update(i, "denied", invite[i].peer, NoPeer) /\ Proceed(v, "done", verdict[v].peer)
          /\ i \in Invites
          /\ UNCHANGED <<expired, asker, carried, attached, collected, answers, approvals>>
      BY <2>11 DEF denyRequest
    <3>2. /\ invite' \in [Invites -> Row]
          /\ invite'[i].status = "denied" /\ invite'[i].jwt = NoPeer
          /\ \A j \in Invites \ {i} : invite'[j] = invite[j]
      BY <3>1, RowWritten, RowFields DEF Statuses, MaybePeer
    <3>3. /\ verdict' \in [Verdicts -> Call] /\ verdict'[v].step = "done"
          /\ \A w \in Verdicts \ {v} : verdict'[w] = verdict[w]
      BY <3>1, CallFields, CallMoved
    <3>4. InviteTypeOK'
      BY <3>1, <3>2, <3>3 DEF InviteTypeOK
    <3> QED
      BY <3>1, <3>2, <3>3, <3>4 DEF CredentialsWereApproved, ApprovalsCarried
  <2>9. CASE UNCHANGED inviteVars
    BY <2>9 DEF inviteVars, InviteTypeOK, CredentialsWereApproved, ApprovalsCarried
  <2> QED
    BY <2>1, <2>2, <2>3, <2>4, <2>5, <2>6, <2>7, <2>8, <2>9, <2>10, <2>11 DEF InviteNext, InviteStep
<1> QED
  BY <1>1, <1>2, PTL DEF InviteSpec, ApprovedInv

-----------------------------------------------------------------------------
OneByOneInv == InviteTypeOK /\ RowAsRead /\ DeliveredOrNot

\* What OneByOneInv says of one invite.
Fine(i) ==
    /\ \A p, q \in Underway(i) : p = q
    /\ Claiming(i) # {} => invite[i].status = "open"
    /\ Polling(i) # {} => invite[i].status = "approved"
    /\ Approving(i) # {} => invite[i].status = "pending"
    /\ invite[i].status = "delivered" => collected[i] > 0
    /\ collected[i] > 0 => invite[i].status \in {"delivered", "denied"}

LEMMA FineEach == OneByOneInv <=> InviteTypeOK /\ \A i \in Invites \ Raced : Fine(i)
  BY DEF OneByOneInv, RowAsRead, DeliveredOrNot, Fine

LEMMA FineEachNext == OneByOneInv' <=> InviteTypeOK' /\ \A i \in Invites \ Raced : Fine(i)'
  BY DEF OneByOneInv, RowAsRead, DeliveredOrNot, Fine

\* Where a call may begin nobody is under way.
LEMMA NobodyUnderway ==
    ASSUME NEW i \in Invites \ Raced, MayBegin(i)
    PROVE  Claiming(i) = {} /\ Polling(i) = {} /\ Approving(i) = {}
  BY DEF MayBegin

\* Who ends is gone, and the row stays as those under way have read it.
LEMMA FineWithFewer ==
    ASSUME NEW i \in Invites \ Raced, Fine(i), invite'[i] = invite[i], collected'[i] = collected[i],
           Claiming(i)' \subseteq Claiming(i), Polling(i)' \subseteq Polling(i),
           Approving(i)' \subseteq Approving(i)
    PROVE  Fine(i)'
  BY DEF Fine, Underway

\* Nobody is under way any more, and the row and the history agree.
LEMMA FineWithNone ==
    ASSUME NEW i \in Invites \ Raced,
           Claiming(i)' = {}, Polling(i)' = {}, Approving(i)' = {},
           invite'[i].status = "delivered" => collected'[i] > 0,
           collected'[i] > 0 => invite'[i].status \in {"delivered", "denied"}
    PROVE  Fine(i)'
  BY DEF Fine, Underway

\* A device that moves, moves in the tables of its invite only.
LEMMA AskerMoved ==
    ASSUME InviteTypeOK, NEW a \in Askers, NEW got, asker' = [asker EXCEPT ![a] = got],
           NEW i \in Invites
    PROVE  /\ Claiming(i)' \subseteq Claiming(i) \cup (IF For[a] = i /\ got = "claiming" THEN {a} ELSE {})
           /\ Polling(i)' \subseteq Polling(i) \cup (IF For[a] = i /\ got = "polling" THEN {a} ELSE {})
           /\ got # "claiming" => a \notin Claiming(i)'
           /\ got # "polling" => a \notin Polling(i)'
  BY DEF InviteTypeOK, Claiming, Polling

\* So does an owner's call.
LEMMA VerdictMoved ==
    ASSUME InviteTypeOK, NEW v \in Verdicts, NEW i \in Invites,
           NEW step \in {"ready", "approving", "attaching", "done"}, NEW peer \in MaybePeer,
           Proceed(v, step, peer)
    PROVE  /\ Approving(i)' \subseteq Approving(i) \cup (IF About[v] = i /\ step = "approving" THEN {v} ELSE {})
           /\ step # "approving" => v \notin Approving(i)'
  BY CallMoved DEF Approving

LEMMA InvitesInTurn == InviteSpec => []OneByOneInv
<1> USE InvitesAssumption
<1>1. InviteInit => OneByOneInv
  BY DEF InviteInit, OneByOneInv, RowAsRead, DeliveredOrNot, Underway, Claiming, Polling, Approving,
         InviteTypeOK, Row, Call, MaybePeer
<1>2. InviteTypeOK /\ InviteTypeOK' /\ OneByOneInv /\ [InviteNext]_inviteVars => OneByOneInv'
  <2> SUFFICES ASSUME InviteTypeOK, InviteTypeOK', OneByOneInv, [InviteNext]_inviteVars,
                      NEW i \in Invites \ Raced
               PROVE  Fine(i)'
    BY FineEachNext
  <2>0. Fine(i)
    BY FineEach
  <2>1. ASSUME NEW j \in Invites, createInvite(j) PROVE Fine(i)'
    <3>1. Claiming(i)' = Claiming(i) /\ Polling(i)' = Polling(i) /\ Approving(i)' = Approving(i)
          /\ collected' = collected
      BY <2>1 DEF createInvite, Claiming, Polling, Approving
    <3>2. CASE i # j
      <4>1. invite'[i] = invite[i]
        BY <2>1, <3>2, RowWritten DEF createInvite, MaybePeer, Statuses
      <4> QED
        BY <2>0, <3>1, <4>1, FineWithFewer
    <3>3. CASE i = j
      <4>1. invite[i].status = "none" /\ invite'[i].status = "open"
        BY <2>1, <3>3, RowWritten DEF createInvite, MaybePeer, Statuses
      <4>2. Claiming(i)' = {} /\ Polling(i)' = {} /\ Approving(i)' = {} /\ ~(collected'[i] > 0)
        BY <2>0, <3>1, <4>1 DEF Fine
      <4> QED
        BY <4>1, <4>2, FineWithNone
    <3> QED
      BY <3>2, <3>3
  <2>2. ASSUME NEW j \in Invites, Expire(j) PROVE Fine(i)'
    BY <2>0, <2>2 DEF Expire, Fine, Underway, Claiming, Polling, Approving
  <2>3. ASSUME NEW a \in Askers, ReadClaim(a) PROVE Fine(i)'
    <3>1. UNCHANGED <<invite, verdict, collected>> /\ Approving(i)' = Approving(i)
      BY <2>3 DEF ReadClaim, Approving
    <3>2. PICK got : /\ asker' = [asker EXCEPT ![a] = got]
                     /\ got = "failed" \/ (got = "claiming" /\ invite[For[a]].status = "open")
      BY <2>3 DEF ReadClaim
    <3>3. CASE got = "claiming" /\ For[a] = i
      <4>1. Claiming(i) = {} /\ Polling(i) = {} /\ Approving(i) = {}
        BY <2>3, <3>3, NobodyUnderway DEF ReadClaim
      <4>2. Claiming(i)' \subseteq {a} /\ Polling(i)' = {} /\ Approving(i)' = {}
        BY <3>1, <3>2, <3>3, <4>1, AskerMoved
      <4> QED
        BY <2>0, <3>1, <3>2, <3>3, <4>2 DEF Fine, Underway
    <3>4. CASE ~(got = "claiming" /\ For[a] = i)
      BY <2>0, <3>1, <3>2, <3>4, AskerMoved, FineWithFewer
    <3> QED
      BY <3>3, <3>4
  <2>4. ASSUME NEW a \in Askers, claimInvite(a) PROVE Fine(i)'
    <3>1. PICK got \in {"waiting", "failed"} : asker' = [asker EXCEPT ![a] = got]
      BY <2>4 DEF claimInvite
    <3>2. Approving(i)' = Approving(i) /\ collected' = collected
          /\ Claiming(i)' \subseteq Claiming(i) /\ Polling(i)' \subseteq Polling(i) /\ a \notin Claiming(i)'
      BY <2>4, <3>1, AskerMoved DEF claimInvite, Approving
    <3>3. CASE For[a] # i
      <4>1. invite'[i] = invite[i]
        BY <2>4, <3>3, RowWritten, RowFields DEF claimInvite, MaybePeer, Statuses
      <4> QED
        BY <2>0, <3>2, <4>1, FineWithFewer
    <3>4. CASE For[a] = i
      <4>1. a \in Claiming(i)
        BY <2>4, <3>4 DEF claimInvite, Claiming
      <4>2. invite[i].status = "open" /\ Polling(i)' = {} /\ Approving(i)' = {} /\ Claiming(i)' = {}
        BY <2>0, <3>2, <4>1 DEF Fine, Underway
      <4>3. invite'[i].status = "pending"
        BY <2>4, <3>4, RowWritten, RowFields DEF claimInvite, MaybePeer, Statuses
      <4>4. ~(collected'[i] > 0)
        BY <2>0, <3>2, <4>2 DEF Fine
      <4> QED
        BY <3>2, <4>2, <4>3, <4>4, FineWithNone
    <3> QED
      BY <3>3, <3>4
  <2>5. ASSUME NEW a \in Askers, ReadPoll(a) PROVE Fine(i)'
    <3>1. UNCHANGED <<invite, verdict, collected>> /\ Approving(i)' = Approving(i)
      BY <2>5 DEF ReadPoll, Approving
    <3>2. PICK got : /\ asker' = [asker EXCEPT ![a] = got]
                     /\ got \in {"waiting", "failed"} \/ (got = "polling" /\ invite[For[a]].status = "approved")
      BY <2>5 DEF ReadPoll, Deliverable
    <3>3. CASE got = "polling" /\ For[a] = i
      <4>1. Claiming(i) = {} /\ Polling(i) = {} /\ Approving(i) = {}
        BY <2>5, <3>3, NobodyUnderway DEF ReadPoll
      <4>2. Polling(i)' \subseteq {a} /\ Claiming(i)' = {} /\ Approving(i)' = {}
        BY <3>1, <3>2, <3>3, <4>1, AskerMoved
      <4> QED
        BY <2>0, <3>1, <3>2, <3>3, <4>2 DEF Fine, Underway
    <3>4. CASE ~(got = "polling" /\ For[a] = i)
      BY <2>0, <3>1, <3>2, <3>4, AskerMoved, FineWithFewer
    <3> QED
      BY <3>3, <3>4
  <2>6. ASSUME NEW a \in Askers, pollRequest(a) PROVE Fine(i)'
    <3>1. PICK got \in {"held", "failed"} : asker' = [asker EXCEPT ![a] = got]
      BY <2>6 DEF pollRequest
    <3>2. Approving(i)' = Approving(i)
          /\ Claiming(i)' \subseteq Claiming(i) /\ Polling(i)' \subseteq Polling(i) /\ a \notin Polling(i)'
      BY <2>6, <3>1, AskerMoved DEF pollRequest, Approving
    <3>3. /\ For[a] \in Invites
          /\ For[a] # i => collected'[i] = collected[i]
          /\ For[a] = i => collected'[i] > 0
      BY <2>6 DEF pollRequest, InviteTypeOK
    <3>4. CASE For[a] # i
      <4>1. invite'[i] = invite[i] /\ collected'[i] = collected[i]
        BY <2>6, <3>3, <3>4, RowWritten, RowFields DEF pollRequest, MaybePeer, Statuses
      <4> QED
        BY <2>0, <3>2, <4>1, FineWithFewer
    <3>5. CASE For[a] = i
      <4>1. a \in Polling(i)
        BY <2>6, <3>5 DEF pollRequest, Polling
      <4>2. Polling(i)' = {} /\ Approving(i)' = {} /\ Claiming(i)' = {}
        BY <2>0, <3>2, <4>1 DEF Fine, Underway
      <4>3. invite'[i].status = "delivered" /\ collected'[i] > 0
        BY <2>6, <3>3, <3>5, RowWritten, RowFields DEF pollRequest, MaybePeer, Statuses
      <4> QED
        BY <4>2, <4>3, FineWithNone
    <3> QED
      BY <3>4, <3>5
  <2>7. ASSUME NEW a \in Askers, StopAsking(a) PROVE Fine(i)'
    <3>1. UNCHANGED <<invite, verdict, collected>> /\ Approving(i)' = Approving(i)
      BY <2>7 DEF StopAsking, Approving
    <3>2. PICK got \in {"failed"} : asker' = [asker EXCEPT ![a] = got]
      BY <2>7 DEF StopAsking
    <3>3. Claiming(i)' \subseteq Claiming(i) /\ Polling(i)' \subseteq Polling(i)
      BY <3>2, AskerMoved
    <3> QED
      BY <2>0, <3>1, <3>3, FineWithFewer
  <2>8. ASSUME NEW v \in Verdicts, ReadApprove(v) PROVE Fine(i)'
    <3>1. UNCHANGED <<invite, asker, collected>> /\ Claiming(i)' = Claiming(i) /\ Polling(i)' = Polling(i)
      BY <2>8 DEF ReadApprove, Claiming, Polling
    <3>2. Proceed(v, "approving", invite[About[v]].peer) /\ invite[About[v]].peer \in MaybePeer
      BY <2>8, RowFields DEF ReadApprove
    <3>3. CASE About[v] = i
      <4>1. Claiming(i) = {} /\ Polling(i) = {} /\ Approving(i) = {} /\ invite[i].status = "pending"
        BY <2>8, <3>3, NobodyUnderway DEF ReadApprove
      <4>2. Approving(i)' \subseteq {v}
        BY <3>2, <4>1, VerdictMoved
      <4> QED
        BY <2>0, <3>1, <4>1, <4>2 DEF Fine, Underway
    <3>4. CASE About[v] # i
      BY <2>0, <3>1, <3>2, <3>4, VerdictMoved, FineWithFewer
    <3> QED
      BY <3>3, <3>4
  <2>9. ASSUME NEW v \in Verdicts, approveRequest(v) PROVE Fine(i)'
    <3>1. UNCHANGED <<asker, collected>> /\ Claiming(i)' = Claiming(i) /\ Polling(i)' = Polling(i)
      BY <2>9 DEF approveRequest, Claiming, Polling
    <3>2. Approving(i)' \subseteq Approving(i) /\ v \notin Approving(i)'
      BY <2>9, CallFields, VerdictMoved DEF approveRequest
    <3>3. CASE About[v] # i
      <4>1. invite'[i] = invite[i]
        BY <2>9, <3>3, RowWritten, RowFields, CallFields DEF approveRequest, Statuses
      <4> QED
        BY <2>0, <3>1, <3>2, <4>1, FineWithFewer
    <3>4. CASE About[v] = i
      <4>1. v \in Approving(i)
        BY <2>9, <3>4 DEF approveRequest, Approving
      <4>2. invite[i].status = "pending" /\ Polling(i)' = {} /\ Approving(i)' = {} /\ Claiming(i)' = {}
        BY <2>0, <3>1, <3>2, <4>1 DEF Fine, Underway
      <4>3. invite'[i].status = "approved"
        BY <2>9, <3>4, RowWritten, RowFields, CallFields DEF approveRequest, Statuses
      <4>4. ~(collected'[i] > 0)
        BY <2>0, <3>1, <4>2 DEF Fine
      <4> QED
        BY <3>1, <4>2, <4>3, <4>4, FineWithNone
    <3> QED
      BY <3>3, <3>4
  <2>10. ASSUME NEW v \in Verdicts, attachMember(v) \/ DropVerdict(v) PROVE Fine(i)'
    <3>1. UNCHANGED <<invite, asker, collected>> /\ Claiming(i)' = Claiming(i) /\ Polling(i)' = Polling(i)
          /\ Proceed(v, "done", verdict[v].peer)
      BY <2>10 DEF attachMember, DropVerdict, Claiming, Polling
    <3> QED
      BY <2>0, <3>1, CallFields, VerdictMoved, FineWithFewer
  <2>11. ASSUME NEW v \in Verdicts, denyRequest(v) PROVE Fine(i)'
    <3>1. UNCHANGED <<asker, collected>> /\ Claiming(i)' = Claiming(i) /\ Polling(i)' = Polling(i)
      BY <2>11 DEF denyRequest, Claiming, Polling
    <3>2. Approving(i)' \subseteq Approving(i)
      BY <2>11, CallFields, VerdictMoved DEF denyRequest
    <3>3. CASE About[v] # i
      <4>1. invite'[i] = invite[i]
        BY <2>11, <3>3, RowWritten, RowFields DEF denyRequest, Statuses, MaybePeer
      <4> QED
        BY <2>0, <3>1, <3>2, <4>1, FineWithFewer
    <3>4. CASE About[v] = i
      <4>1. Claiming(i) = {} /\ Polling(i) = {} /\ Approving(i) = {}
        BY <2>11, <3>4, NobodyUnderway DEF denyRequest
      <4>2. invite'[i].status = "denied"
        BY <2>11, <3>4, RowWritten, RowFields DEF denyRequest, Statuses, MaybePeer
      <4> QED
        BY <3>1, <3>2, <4>1, <4>2, FineWithNone
    <3> QED
      BY <3>3, <3>4
  <2>12. CASE UNCHANGED inviteVars
    BY <2>0, <2>12 DEF inviteVars, Fine, Underway, Claiming, Polling, Approving
  <2> QED
    BY <2>1, <2>2, <2>3, <2>4, <2>5, <2>6, <2>7, <2>8, <2>9, <2>10, <2>11, <2>12
       DEF InviteNext, InviteStep
<1> QED
  BY <1>1, <1>2, OnlyApproved, PTL DEF InviteSpec, OneByOneInv

\* Where an invite stands, from its row and how often it was collected.
LEMMA InviteStandingIs ==
    ASSUME InviteTypeOK, NEW i \in Invites \ Raced, Fine(i)
    PROVE  /\ collected[i] > 0 => InviteStanding(i) = "given"
           /\ invite[i].status \in {"none", "open"} => InviteStanding(i) = "idle"
           /\ invite[i].status = "pending" => InviteStanding(i) = "asked"
           /\ invite[i].status = "approved" => InviteStanding(i) = "granted" /\ collected[i] = 0
           /\ ~(collected[i] > 0) /\ invite[i].status = "denied" => InviteStanding(i) = "over"
<1>1. collected[i] \in Nat
  BY DEF InviteTypeOK
<1> QED
  BY <1>1 DEF InviteStanding, Fine

LEMMA InviteStandingWillBe ==
    ASSUME InviteTypeOK', NEW i \in Invites \ Raced, Fine(i)'
    PROVE  /\ collected'[i] > 0 => InviteStanding(i)' = "given"
           /\ invite'[i].status \in {"none", "open"} => InviteStanding(i)' = "idle"
           /\ invite'[i].status = "pending" => InviteStanding(i)' = "asked"
           /\ invite'[i].status = "approved" => InviteStanding(i)' = "granted" /\ collected'[i] = 0
           /\ ~(collected'[i] > 0) /\ invite'[i].status = "denied" => InviteStanding(i)' = "over"
<1>1. collected'[i] \in Nat
  BY DEF InviteTypeOK
<1> QED
  BY <1>1 DEF InviteStanding, Fine

\* An invite on which calls come one by one is claimed by one device, granted
\* by one approval, handed out once, and never after a denial.
THEOREM InviteImplementsGrant == InviteSpec => InviteOneTime
<1> USE InvitesAssumption
<1> DEFINE standing == [i \in Invites \ Raced |-> InviteStanding(i)]
           times == [i \in Invites \ Raced |-> collected[i]]
<1>1. InviteInit => Admission!Init
  BY DEF InviteInit, Admission!Init, InviteStanding
<1>2. OneByOneInv /\ OneByOneInv' /\ [InviteNext]_inviteVars => [Admission!Next]_<<standing, times>>
  <2> SUFFICES ASSUME OneByOneInv, OneByOneInv', [InviteNext]_inviteVars
               PROVE  Admission!Next \/ UNCHANGED <<standing, times>>
    OBVIOUS
  <2>0. /\ InviteTypeOK /\ InviteTypeOK'
        /\ \A i \in Invites \ Raced : Fine(i) /\ Fine(i)'
    BY FineEach, FineEachNext
  <2>a. ASSUME invite' = invite, collected' = collected PROVE UNCHANGED <<standing, times>>
    BY <2>a DEF InviteStanding
  <2>b. ASSUME NEW i \in Invites, collected' = collected,
               \A j \in Invites \ {i} : invite'[j] = invite[j]
        PROVE  /\ times' = times
               /\ i \in Raced => standing' = standing
               /\ i \notin Raced => standing' = [standing EXCEPT ![i] = InviteStanding(i)']
    <3>1. \A j \in Invites \ {i} : InviteStanding(j)' = InviteStanding(j)
      BY <2>b DEF InviteStanding
    <3> QED
      BY <2>b, <3>1
  <2>1. ASSUME NEW i \in Invites, createInvite(i) PROVE UNCHANGED <<standing, times>>
    <3>1. /\ collected' = collected /\ invite[i].status = "none" /\ invite'[i].status = "open"
          /\ \A j \in Invites \ {i} : invite'[j] = invite[j]
      BY <2>0, <2>1, RowWritten DEF createInvite, MaybePeer, Statuses
    <3>2. CASE i \notin Raced
      <4>1. InviteStanding(i) = "idle" /\ InviteStanding(i)' = "idle"
        BY <2>0, <3>1, <3>2, InviteStandingIs, InviteStandingWillBe
      <4> QED
        BY <2>b, <3>1, <3>2, <4>1
    <3> QED
      BY <2>b, <3>1, <3>2
  <2>2. ASSUME NEW a \in Askers, claimInvite(a) PROVE Admission!Next \/ UNCHANGED <<standing, times>>
    <3> DEFINE i == For[a]
    <3>1. /\ collected' = collected /\ invite'[i].status = "pending" /\ i \in Invites
          /\ \A j \in Invites \ {i} : invite'[j] = invite[j]
      BY <2>0, <2>2, RowWritten, RowFields DEF claimInvite, MaybePeer, Statuses
    <3>2. CASE i \notin Raced
      <4>1. invite[i].status = "open"
        BY <2>0, <2>2, <3>1, <3>2 DEF claimInvite, Fine, Claiming
      <4>2. InviteStanding(i) = "idle" /\ InviteStanding(i)' = "asked"
        BY <2>0, <3>1, <3>2, <4>1, InviteStandingIs, InviteStandingWillBe
      <4>3. Admission!Ask(i)
        BY <2>b, <3>1, <3>2, <4>2 DEF Admission!Ask
      <4> QED
        BY <3>1, <3>2, <4>3 DEF Admission!Next
    <3> QED
      BY <2>b, <3>1, <3>2
  <2>3. ASSUME NEW a \in Askers, pollRequest(a) PROVE Admission!Next \/ UNCHANGED <<standing, times>>
    <3> DEFINE i == For[a]
    <3>1. /\ invite'[i].status = "delivered" /\ i \in Invites
          /\ collected' = [collected EXCEPT ![i] = @ + 1]
          /\ \A j \in Invites \ {i} : invite'[j] = invite[j]
      BY <2>0, <2>3, RowWritten, RowFields DEF pollRequest, MaybePeer, Statuses
    <3>2. \A j \in Invites \ {i} : collected'[j] = collected[j] /\ InviteStanding(j)' = InviteStanding(j)
      BY <2>0, <3>1 DEF InviteTypeOK, InviteStanding
    <3>3. CASE i \notin Raced
      <4>1. invite[i].status = "approved"
        BY <2>0, <2>3, <3>1, <3>3 DEF pollRequest, Fine, Polling
      <4>2. InviteStanding(i) = "granted" /\ collected[i] = 0
        BY <2>0, <3>1, <3>3, <4>1, InviteStandingIs
      <4>3. collected'[i] = 1
        BY <2>0, <3>1, <4>2 DEF InviteTypeOK
      <4>4. InviteStanding(i)' = "given"
        BY <2>0, <3>1, <3>3, <4>3, InviteStandingWillBe
      <4>5. standing' = [standing EXCEPT ![i] = "given"]
        BY <3>1, <3>2, <3>3, <4>4
      <4>6. times' = [times EXCEPT ![i] = @ + 1]
        <5>1. times[i] = 0 /\ times = [j \in Invites \ Raced |-> times[j]]
          BY <3>1, <3>3, <4>2
        <5>2. times' = [j \in Invites \ Raced |-> IF j = i THEN times[i] + 1 ELSE times[j]]
          BY <3>2, <4>3, <5>1
        <5> HIDE DEF times
        <5> QED
          BY <5>1, <5>2
      <4> QED
        BY <3>1, <3>3, <4>2, <4>5, <4>6 DEF Admission!Next, Admission!Give
    <3>4. CASE i \in Raced
      BY <3>2, <3>4
    <3> QED
      BY <3>3, <3>4
  <2>4. ASSUME NEW v \in Verdicts, approveRequest(v) PROVE Admission!Next \/ UNCHANGED <<standing, times>>
    <3> DEFINE i == About[v]
    <3>1. /\ collected' = collected /\ invite'[i].status = "approved" /\ i \in Invites
          /\ \A j \in Invites \ {i} : invite'[j] = invite[j]
      BY <2>0, <2>4, RowWritten, RowFields, CallFields DEF approveRequest, Statuses
    <3>2. CASE i \notin Raced
      <4>1. invite[i].status = "pending"
        BY <2>0, <2>4, <3>1, <3>2 DEF approveRequest, Fine, Approving
      <4>2. InviteStanding(i) = "asked" /\ InviteStanding(i)' = "granted"
        BY <2>0, <3>1, <3>2, <4>1, InviteStandingIs, InviteStandingWillBe
      <4>3. Admission!Grant(i)
        BY <2>b, <3>1, <3>2, <4>2 DEF Admission!Grant
      <4> QED
        BY <3>1, <3>2, <4>3 DEF Admission!Next
    <3> QED
      BY <2>b, <3>1, <3>2
  <2>5. ASSUME NEW v \in Verdicts, denyRequest(v) PROVE Admission!Next \/ UNCHANGED <<standing, times>>
    <3> DEFINE i == About[v]
    <3>1. /\ collected' = collected /\ invite'[i].status = "denied" /\ i \in Invites
          /\ invite[i].status \in Statuses
          /\ \A j \in Invites \ {i} : invite'[j] = invite[j]
      BY <2>0, <2>5, RowWritten, RowFields DEF denyRequest, MaybePeer, Statuses
    <3>2. CASE i \notin Raced /\ ~(collected[i] > 0)
      <4>1. InviteStanding(i) \in {"idle", "asked", "granted", "over"} /\ InviteStanding(i)' = "over"
        <5>1. invite[i].status # "delivered"
          BY <2>0, <3>1, <3>2 DEF Fine
        <5> QED
          BY <2>0, <3>1, <3>2, <5>1, InviteStandingIs, InviteStandingWillBe DEF Statuses
      <4>2. CASE InviteStanding(i) = "over"
        BY <2>b, <3>1, <3>2, <4>1, <4>2
      <4>3. CASE InviteStanding(i) # "over"
        BY <2>b, <3>1, <3>2, <4>1, <4>3 DEF Admission!Next, Admission!End
      <4> QED
        BY <4>2, <4>3
    <3>3. CASE i \notin Raced /\ collected[i] > 0
      <4>1. InviteStanding(i) = "given" /\ InviteStanding(i)' = "given"
        BY <2>0, <3>1, <3>3, InviteStandingIs, InviteStandingWillBe
      <4> QED
        BY <2>b, <3>1, <3>3, <4>1
    <3> QED
      BY <2>b, <3>1, <3>2, <3>3
  <2>6. ASSUME NEW i \in Invites, Expire(i) PROVE UNCHANGED <<standing, times>>
    BY <2>6, <2>a DEF Expire
  <2>7. ASSUME NEW a \in Askers, ReadClaim(a) \/ ReadPoll(a) \/ StopAsking(a)
        PROVE  UNCHANGED <<standing, times>>
    BY <2>7, <2>a DEF ReadClaim, ReadPoll, StopAsking
  <2>8. ASSUME NEW v \in Verdicts, ReadApprove(v) \/ attachMember(v) \/ DropVerdict(v)
        PROVE  UNCHANGED <<standing, times>>
    BY <2>8, <2>a DEF ReadApprove, attachMember, DropVerdict
  <2>9. CASE UNCHANGED inviteVars
    BY <2>9, <2>a DEF inviteVars
  <2> QED
    BY <2>1, <2>2, <2>3, <2>4, <2>5, <2>6, <2>7, <2>8, <2>9 DEF InviteNext, InviteStep
<1> QED
  BY <1>1, <1>2, InvitesInTurn, PTL DEF InviteSpec, InviteOneTime, Admission!Spec

-----------------------------------------------------------------------------
(* The relay: a call waits only for a connection that is open, and a node is *)
(* installed only where the row still refers to it. *)

\* What is registered for a device is a connection of that device.
RegisteredIsItsDevice == \A d \in Devices : provider[d] \in Sockets => DeviceOf[provider[d]] = d

\* A call that asks knows what it wants, and was sent to the device holding it.
AskedForReference ==
    \A q \in Reads : pc[q] \in {"asking", "waiting", "answered"} => wanted[q] \in References
SentToHolder ==
    \A q \in Reads : pc[q] \in {"waiting", "answered"} =>
        via[q] \in Sockets /\ DeviceOf[via[q]] = HeldAt[wanted[q]]

RelayInv ==
    /\ RelayTypeOK
    /\ RegisteredIsItsDevice
    /\ AskedForReference
    /\ SentToHolder
    /\ NobodyWaitsForGone

\* A row refers to a node, or holds one that was installed.
LEMMA RowHeld ==
    \A reference \in References \cup {NoReference} :
        /\ Referring(reference) \in HeldRows
        /\ [ref |-> reference, installed |-> TRUE] \in HeldRows
  BY DEF HeldRows, Referring

\* Nothing is registered, and no call has asked, at the start.
LEMMA RelayInvAtStart == RelayInit => RelayInv
<1> SUFFICES ASSUME RelayInit PROVE RelayInv
    OBVIOUS
<1> USE RelayAssumption DEF RelayInit
<1>1. row \in HeldRows
    BY RowHeld
<1>2. RelayTypeOK
    BY <1>1 DEF RelayTypeOK
<1>3. RegisteredIsItsDevice /\ AskedForReference /\ SentToHolder /\ NobodyWaitsForGone
    BY DEF RegisteredIsItsDevice, AskedForReference, SentToHolder, NobodyWaitsForGone, Waiting
<1> QED
    BY <1>2, <1>3 DEF RelayInv

\* A connection that registers stands for its own device.
LEMMA Registers ==
    ASSUME RelayTypeOK, RegisteredIsItsDevice, NEW s \in Sockets,
           register(s) \/ UNCHANGED provider
    PROVE  provider' \in [Devices -> Sockets \cup {NoSocket}] /\ RegisteredIsItsDevice'
<1>1. CASE register(s)
    BY <1>1, RelayAssumption DEF register, RelayTypeOK, RegisteredIsItsDevice
<1>2. CASE UNCHANGED provider
    BY <1>2 DEF RelayTypeOK, RegisteredIsItsDevice
<1> QED
    BY <1>1, <1>2

\* Connections that open, greet or close leave every waiting call an open one.
LEMMA SocketSteps ==
    ASSUME RelayInv, NEW s \in Sockets, connect(s) \/ hello(s) \/ lookup(s) \/ close(s)
    PROVE  RelayInv'
<1> USE RelayAssumption DEF RelayInv
<1>1. CASE connect(s)
    <2>1. RelayTypeOK'
        BY <1>1 DEF connect, RelayTypeOK
    <2>2. RegisteredIsItsDevice' /\ AskedForReference' /\ SentToHolder'
        BY <1>1 DEF connect, RegisteredIsItsDevice, AskedForReference, SentToHolder
    <2>3. NobodyWaitsForGone'
        BY <1>1 DEF connect, NobodyWaitsForGone, Waiting, RelayTypeOK
    <2> QED
        BY <2>1, <2>2, <2>3
<1>2. CASE hello(s)
    <2>1. provider' \in [Devices -> Sockets \cup {NoSocket}] /\ RegisteredIsItsDevice'
        BY <1>2, Registers DEF hello
    <2>2. RelayTypeOK'
        BY <1>2, <2>1 DEF hello, RelayTypeOK
    <2>3. AskedForReference' /\ SentToHolder' /\ NobodyWaitsForGone'
        BY <1>2 DEF hello, AskedForReference, SentToHolder, NobodyWaitsForGone, Waiting
    <2> QED
        BY <2>1, <2>2, <2>3
<1>3. CASE lookup(s)
    <2>1. provider' \in [Devices -> Sockets \cup {NoSocket}] /\ RegisteredIsItsDevice'
        BY <1>3, Registers DEF lookup
    <2>2. RelayTypeOK'
        BY <1>3, <2>1 DEF lookup, RelayTypeOK
    <2>3. AskedForReference' /\ SentToHolder' /\ NobodyWaitsForGone'
        BY <1>3 DEF lookup, AskedForReference, SentToHolder, NobodyWaitsForGone, Waiting
    <2> QED
        BY <2>1, <2>2, <2>3
<1>4. CASE close(s)
    <2>1. RelayTypeOK'
        BY <1>4 DEF close, RelayTypeOK, Waiting
    <2>2. RegisteredIsItsDevice'
        BY <1>4 DEF close, RegisteredIsItsDevice, RelayTypeOK
    <2>3. AskedForReference' /\ SentToHolder'
        BY <1>4 DEF close, AskedForReference, SentToHolder, RelayTypeOK, Waiting
    <2>4. NobodyWaitsForGone'
        BY <1>4 DEF close, NobodyWaitsForGone, Waiting, RelayTypeOK
    <2> QED
        BY <2>1, <2>2, <2>3, <2>4
<1> QED
    BY <1>1, <1>2, <1>3, <1>4

\* A call reads a reference, sends it to its holder's connection, and ends.
LEMMA CallSteps ==
    ASSUME RelayInv, NEW q \in Reads,
           \/ nodeReferenceAt(q) \/ request(q) \/ receive(q) \/ timeout(q)
           \/ acceptProvidedNode(q) \/ ChangeGrant(q)
    PROVE  RelayInv'
<1> USE RelayAssumption DEF RelayInv
<1>1. CASE nodeReferenceAt(q)
    <2> DEFINE refers == row.ref # NoReference /\ ~row.installed
    <2>1. /\ pc[q] = "ready"
          /\ pc' = [pc EXCEPT ![q] = CASE q \notin granted -> "refused" [] refers -> "asking" [] OTHER -> "served"]
          /\ wanted' = [wanted EXCEPT ![q] = IF refers THEN row.ref ELSE NoReference]
          /\ UNCHANGED <<row, granted, changes, socket, greeted, known, provider, via>>
        BY <1>1 DEF nodeReferenceAt
    <2>2. row.ref \in References \cup {NoReference}
        BY DEF RelayTypeOK, HeldRows
    <2>3. pc'[q] \in {"refused", "asking", "served"} /\ (pc'[q] = "asking" => refers)
        BY <2>1 DEF RelayTypeOK
    <2>4. \A r \in Reads \ {q} : pc'[r] = pc[r] /\ wanted'[r] = wanted[r]
        BY <2>1 DEF RelayTypeOK
    <2>5. RelayTypeOK'
        BY <2>1, <2>2 DEF RelayTypeOK
    <2>6. AskedForReference'
        BY <2>1, <2>2, <2>3, <2>4 DEF AskedForReference, RelayTypeOK
    <2>7. RegisteredIsItsDevice' /\ SentToHolder' /\ NobodyWaitsForGone'
        BY <2>1, <2>3, <2>4 DEF RegisteredIsItsDevice, SentToHolder, NobodyWaitsForGone, Waiting
    <2> QED
        BY <2>5, <2>6, <2>7
<1>2. CASE request(q)
    <2>1. RelayTypeOK'
        BY <1>2 DEF request, RelayTypeOK, AskedForReference
    <2>2. AskedForReference' /\ RegisteredIsItsDevice'
        BY <1>2 DEF request, AskedForReference, RegisteredIsItsDevice, RelayTypeOK
    <2>3. Askable(q) => /\ provider[HeldAt[wanted[q]]] \in Sockets
                        /\ DeviceOf[provider[HeldAt[wanted[q]]]] = HeldAt[wanted[q]]
                        /\ socket[provider[HeldAt[wanted[q]]]] = "open"
        BY <1>2 DEF Askable, request, AskedForReference, RegisteredIsItsDevice, RelayTypeOK
    <2>4. SentToHolder'
        BY <1>2, <2>3 DEF request, SentToHolder, RelayTypeOK
    <2>5. NobodyWaitsForGone'
        BY <1>2, <2>3 DEF request, NobodyWaitsForGone, Waiting, RelayTypeOK
    <2> QED
        BY <2>1, <2>2, <2>4, <2>5
<1>3. CASE receive(q) \/ timeout(q)
    <2>1. RelayTypeOK'
        BY <1>3 DEF receive, timeout, RelayTypeOK
    <2>2. RegisteredIsItsDevice' /\ AskedForReference' /\ SentToHolder' /\ NobodyWaitsForGone'
        BY <1>3 DEF receive, timeout, RegisteredIsItsDevice, AskedForReference, SentToHolder,
                    NobodyWaitsForGone, Waiting, RelayTypeOK
    <2> QED
        BY <2>1, <2>2
<1>4. CASE acceptProvidedNode(q)
    <2>1. row' \in HeldRows
        BY <1>4, RowHeld DEF acceptProvidedNode, RelayTypeOK, AskedForReference
    <2>2. RelayTypeOK'
        BY <1>4, <2>1 DEF acceptProvidedNode, RelayTypeOK
    <2>3. RegisteredIsItsDevice' /\ AskedForReference' /\ SentToHolder' /\ NobodyWaitsForGone'
        BY <1>4 DEF acceptProvidedNode, RegisteredIsItsDevice, AskedForReference, SentToHolder,
                    NobodyWaitsForGone, Waiting, RelayTypeOK
    <2> QED
        BY <2>2, <2>3
<1>5. CASE ChangeGrant(q)
    <2>1. RelayTypeOK'
        BY <1>5 DEF ChangeGrant, RelayTypeOK
    <2>2. RegisteredIsItsDevice' /\ AskedForReference' /\ SentToHolder' /\ NobodyWaitsForGone'
        BY <1>5 DEF ChangeGrant, RegisteredIsItsDevice, AskedForReference, SentToHolder,
                    NobodyWaitsForGone, Waiting
    <2> QED
        BY <2>1, <2>2
<1> QED
    BY <1>1, <1>2, <1>3, <1>4, <1>5

\* The row may change at any time: no call depends on it while it waits.
LEMMA ChangeRowStep == RelayInv /\ ChangeRow => RelayInv'
<1> SUFFICES ASSUME RelayInv, ChangeRow PROVE RelayInv'
    OBVIOUS
<1> USE DEF RelayInv, ChangeRow
<1>1. row' \in HeldRows
    BY RowHeld
<1>2. RelayTypeOK'
    BY <1>1 DEF RelayTypeOK
<1>3. RegisteredIsItsDevice' /\ AskedForReference' /\ SentToHolder' /\ NobodyWaitsForGone'
    BY DEF RegisteredIsItsDevice, AskedForReference, SentToHolder, NobodyWaitsForGone, Waiting
<1> QED
    BY <1>2, <1>3

LEMMA RelayInvKept == RelayInv /\ [RelayNext]_relayVars => RelayInv'
<1> SUFFICES ASSUME RelayInv, [RelayNext]_relayVars PROVE RelayInv'
    OBVIOUS
<1>1. CASE RelayNext
    BY <1>1, SocketSteps, CallSteps, ChangeRowStep DEF RelayNext
<1>2. CASE UNCHANGED relayVars
    BY <1>2 DEF relayVars, RelayInv, RelayTypeOK, RegisteredIsItsDevice, AskedForReference,
                SentToHolder, NobodyWaitsForGone, Waiting
<1> QED
    BY <1>1, <1>2

\* However devices reconnect and calls overlap, a call waits for an open connection of the
\* device that holds what it wants (nodeRelay.ts:20-23).
THEOREM WaitsForOpen == RelaySpec => []RelayInv
<1>1. RelayInit => RelayInv
    BY RelayInvAtStart
<1>2. RelayInv /\ [RelayNext]_relayVars => RelayInv'
    BY RelayInvKept
<1> QED
    BY <1>1, <1>2, PTL DEF RelaySpec

\* No call is left waiting on a connection that closed (nodeRelay.ts:20-23).
THEOREM NobodyLeftWaiting == RelaySpec => []NobodyWaitsForGone
<1>1. RelayInv => NobodyWaitsForGone
    BY DEF RelayInv
<1> QED
    BY <1>1, WaitsForOpen, PTL

\* What a step installs was asked for and answered as the row is now.
LEMMA InstallingStep ==
    ASSUME RelayInv, [RelayNext]_relayVars, row'.installed, ~row.installed
    PROVE  /\ row'.ref = row.ref
           /\ \E q \in Reads : /\ pc[q] = "answered" /\ pc'[q] = "served"
                               /\ q \in granted
                               /\ DeviceOf[via[q]] = HeldAt[row.ref]
<1>1. row' # row
    OBVIOUS
<1>2. ~ChangeRow
    BY DEF ChangeRow, Referring
<1>3. \A s \in Sockets : ~(connect(s) \/ hello(s) \/ lookup(s) \/ close(s))
    BY <1>1 DEF connect, hello, lookup, close
<1>4. PICK q \in Reads : acceptProvidedNode(q)
    BY <1>1, <1>2, <1>3 DEF RelayNext, relayVars, nodeReferenceAt, request, receive, timeout, ChangeGrant
<1>5. /\ pc[q] = "answered" /\ Installable(q)
      /\ row' = [ref |-> wanted[q], installed |-> TRUE]
      /\ pc' = [pc EXCEPT ![q] = "served"]
    BY <1>1, <1>4 DEF acceptProvidedNode
<1>6. row.ref = wanted[q] /\ q \in granted
    BY <1>5 DEF Installable, Referring
<1>7. DeviceOf[via[q]] = HeldAt[row.ref]
    BY <1>5, <1>6 DEF RelayInv, SentToHolder
<1>8. pc'[q] = "served"
    BY <1>5 DEF RelayInv, RelayTypeOK
<1> QED
    BY <1>5, <1>6, <1>7, <1>8

\* A node is installed only in a row that still refers to it, as its holder answered it, for
\* a peer that may read it then (provideNode.ts:54-61).
THEOREM InstalledAsItWasAsked == RelaySpec => InstalledAsAsked
<1>1. RelayInv /\ [RelayNext]_relayVars =>
        [row'.installed /\ ~row.installed =>
            /\ row'.ref = row.ref
            /\ \E q \in Reads : /\ pc[q] = "answered" /\ pc'[q] = "served"
                                /\ q \in granted
                                /\ DeviceOf[via[q]] = HeldAt[row.ref]]_relayVars
    BY InstallingStep
<1> QED
    BY <1>1, WaitsForOpen, PTL DEF RelaySpec, InstalledAsAsked

-----------------------------------------------------------------------------
(* Tokens: a read stands until it is used, and a key is in the book once. *)

PayoutSteps == {"ready", "payer", "both", "done"}
Phases == {"ready", "marking", "marked", "crediting", "failing", "done"}

\* A payout moves alone.
LEMMA PayoutMoved ==
    ASSUME TokenTypeOK, NEW t \in Payouts, NEW step \in PayoutSteps, NEW from \in Int, NEW to \in Int,
           ToStep(t, step, from, to)
    PROVE  /\ payout' \in [Payouts -> [step : PayoutSteps, from : Int, to : Int]]
           /\ payout'[t].step = step /\ payout'[t].from = from /\ payout'[t].to = to
           /\ \A s \in Payouts \ {t} : payout'[s] = payout[s]
  BY DEF TokenTypeOK, PayoutSteps, ToStep

\* So does a delivery.
LEMMA DeliveryMoved ==
    ASSUME TokenTypeOK, NEW d \in Deliveries, NEW step \in Phases, NEW read \in Int, ToPhase(d, step, read)
    PROVE  /\ delivery' \in [Deliveries -> [step : Phases, read : Int]]
           /\ delivery'[d].step = step /\ delivery'[d].read = read
           /\ \A e \in Deliveries \ {d} : delivery'[e] = delivery[e]
  BY DEF TokenTypeOK, Phases, ToPhase

\* What the calls hold.
LEMMA LedgerFields ==
    ASSUME TokenTypeOK
    PROVE  /\ \A t \in Payouts : /\ payout[t].step \in PayoutSteps
                                 /\ payout[t].from \in Int /\ payout[t].to \in Int
           /\ \A d \in Deliveries : delivery[d].step \in Phases /\ delivery[d].read \in Int
           /\ \A u \in TokenUsers : available[u] \in Int
  BY DEF TokenTypeOK, PayoutSteps, Phases

\* The constants, for one payout, purchase or delivery.
LEMMA Constants ==
    /\ \A t \in Payouts : /\ Payer[t] \in TokenUsers /\ Payee[t] \in TokenUsers /\ Payer[t] # Payee[t]
                          /\ Payer[t] \in Steady <=> Payee[t] \in Steady
                          /\ Amount[t] \in Nat /\ Amount[t] > 0
    /\ \A p \in Purchases : Buyer[p] \in TokenUsers /\ Bought[p] \in Nat
    /\ \A d \in Deliveries : PaidFor[d] \in Purchases
  BY TokenAssumption

TokenInv == TokenTypeOK /\ MovedIsRecorded /\ KeyMovesOnce /\ NeverOverdrawn /\ ReadsCover

\* What a payout leaves alone.
Elsewhere == UNCHANGED <<available, recorded, purchase, delivery, moved, credited>>
\* What a delivery leaves alone unless it credits.
NoCredit == UNCHANGED <<available, recorded, payout, moved, credited>>

\* A payout that only goes on keeps the invariant, if what it has read covers it.
LEMMA PayoutGoesOn ==
    ASSUME TokenInv, NEW t \in Payouts, NEW step \in PayoutSteps, NEW from \in Int, NEW to \in Int,
           ToStep(t, step, from, to), Elsewhere,
           step \in {"payer", "both"} => from >= Amount[t],
           step = "both" => to >= 0
    PROVE  TokenInv'
<1>1. /\ payout' \in [Payouts -> [step : PayoutSteps, from : Int, to : Int]]
      /\ payout'[t].step = step /\ payout'[t].from = from /\ payout'[t].to = to
      /\ \A s \in Payouts \ {t} : payout'[s] = payout[s]
  BY PayoutMoved DEF TokenInv
<1>2. TokenTypeOK'
  BY <1>1 DEF TokenInv, TokenTypeOK, Elsewhere, PayoutSteps
<1>3. ReadsCover'
  BY <1>1 DEF TokenInv, ReadsCover, Elsewhere
<1> QED
  BY <1>2, <1>3 DEF TokenInv, MovedIsRecorded, KeyMovesOnce, NeverOverdrawn, Elsewhere

\* So does a delivery that credits nothing.
LEMMA DeliveryGoesOn ==
    ASSUME TokenInv, NEW d \in Deliveries, NEW step \in Phases, NEW read \in Int,
           ToPhase(d, step, read), NoCredit,
           step = "crediting" => read >= 0,
           purchase' \in [Purchases -> {"none", "pending", "completed", "failed"}]
    PROVE  TokenInv'
<1>1. /\ delivery' \in [Deliveries -> [step : Phases, read : Int]]
      /\ delivery'[d].step = step /\ delivery'[d].read = read
      /\ \A e \in Deliveries \ {d} : delivery'[e] = delivery[e]
  BY DeliveryMoved DEF TokenInv
<1>2. TokenTypeOK'
  BY <1>1 DEF TokenInv, TokenTypeOK, NoCredit, Phases
<1>3. ReadsCover'
  BY <1>1 DEF TokenInv, ReadsCover, NoCredit
<1> QED
  BY <1>2, <1>3 DEF TokenInv, MovedIsRecorded, KeyMovesOnce, NeverOverdrawn, NoCredit

\* Every step of a payout keeps it.
LEMMA PayoutKeeps ==
    ASSUME TokenInv, NEW t \in Payouts, ReadPayer(t) \/ ReadPayee(t) \/ transferTokens(t) \/ RollBack(t)
    PROVE  TokenInv'
<1>0. TokenTypeOK
  BY DEF TokenInv
<1>1. CASE ReadPayer(t)
  <2>1. Elsewhere
    BY <1>1 DEF ReadPayer, Elsewhere
  <2>2. CASE ToStep(t, "done", 0, 0)
    BY <2>1, <2>2, PayoutGoesOn DEF PayoutSteps
  <2>3. CASE ToStep(t, "payer", available[Payer[t]], 0) /\ ~(available[Payer[t]] < Amount[t])
    <3>1. available[Payer[t]] \in Int /\ Amount[t] \in Nat /\ available[Payer[t]] >= Amount[t]
      BY <1>0, <2>3, Constants, LedgerFields
    <3> QED
      BY <2>1, <2>3, <3>1, PayoutGoesOn DEF PayoutSteps
  <2> QED
    BY <1>1, <2>2, <2>3 DEF ReadPayer
<1>2. CASE ReadPayee(t)
  <2>1. Elsewhere /\ payout[t].step = "payer" /\ ToStep(t, "both", payout[t].from, available[Payee[t]])
    BY <1>2 DEF ReadPayee, Elsewhere
  <2>2. payout[t].from \in Int /\ available[Payee[t]] \in Int /\ available[Payee[t]] >= 0 /\ payout[t].from >= Amount[t]
    BY <1>0, <2>1, Constants, LedgerFields DEF TokenInv, NeverOverdrawn, ReadsCover
  <2> QED
    BY <2>1, <2>2, PayoutGoesOn DEF PayoutSteps
<1>3. CASE RollBack(t)
  BY <1>3, PayoutGoesOn DEF RollBack, Elsewhere, PayoutSteps
<1>4. CASE transferTokens(t)
  <2>1. /\ ToStep(t, "done", 0, 0)
        /\ payout[t].step = "both" /\ Key[t] \notin recorded
        /\ available' = [u \in TokenUsers |->
              IF u = Payer[t] THEN payout[t].from - Amount[t]
              ELSE IF u = Payee[t] THEN payout[t].to + Amount[t] ELSE available[u]]
        /\ recorded' = recorded \cup {Key[t]}
        /\ moved' = [moved EXCEPT ![t] = @ + 1]
        /\ UNCHANGED <<purchase, delivery, credited>>
    BY <1>4 DEF transferTokens
  <2>2. /\ payout' \in [Payouts -> [step : PayoutSteps, from : Int, to : Int]]
        /\ payout'[t].step = "done"
        /\ \A s \in Payouts \ {t} : payout'[s] = payout[s]
    <3>1. "done" \in PayoutSteps
      BY DEF PayoutSteps
    <3> QED
      BY <1>0, <2>1, <3>1, PayoutMoved
  <2>3. /\ payout[t].from \in Int /\ payout[t].to \in Int /\ Amount[t] \in Nat
        /\ payout[t].from >= Amount[t] /\ payout[t].to >= 0
    BY <1>0, <2>1, Constants, LedgerFields DEF TokenInv, ReadsCover
  <2>4. available' \in [TokenUsers -> Int] /\ NeverOverdrawn'
    BY <1>0, <2>1, <2>3, LedgerFields DEF TokenInv, NeverOverdrawn
  <2>5. \A s \in Payouts : moved[s] \in Nat /\ (Key[s] = Key[t] => ~(moved[s] > 0))
    BY <2>1 DEF TokenInv, TokenTypeOK, MovedIsRecorded
  <2>6. /\ moved' \in [Payouts -> Nat] /\ moved'[t] = 1
        /\ \A s \in Payouts \ {t} : moved'[s] = moved[s]
    BY <2>1, <2>5 DEF TokenInv, TokenTypeOK
  <2>7. TokenTypeOK'
    BY <2>1, <2>2, <2>4, <2>6 DEF TokenInv, TokenTypeOK, PayoutSteps
  <2>8. MovedIsRecorded' /\ KeyMovesOnce'
    BY <2>1, <2>5, <2>6 DEF TokenInv, MovedIsRecorded, KeyMovesOnce
  <2>9. ReadsCover'
    BY <2>1, <2>2 DEF TokenInv, ReadsCover
  <2> QED
    BY <2>4, <2>7, <2>8, <2>9 DEF TokenInv
<1> QED
  BY <1>1, <1>2, <1>3, <1>4

\* Every step of a purchase keeps it.
LEMMA PurchaseKeeps ==
    ASSUME TokenInv, NEW d \in Deliveries,
           ReadPurchase(d) \/ MarkCompleted(d) \/ ReadCredit(d) \/ creditTokens(d)
             \/ Falter(d) \/ MarkFailed(d) \/ DropDelivery(d)
    PROVE  TokenInv'
<1>0. TokenTypeOK /\ PaidFor[d] \in Purchases /\ Buyer[PaidFor[d]] \in TokenUsers
  BY Constants DEF TokenInv
<1>1. CASE ReadPurchase(d) \/ Falter(d) \/ DropDelivery(d)
  <2>1. NoCredit /\ UNCHANGED purchase
    BY <1>1 DEF ReadPurchase, Falter, DropDelivery, NoCredit
  <2>2. \E step \in {"done", "marking", "failing"} : ToPhase(d, step, 0)
    BY <1>1 DEF ReadPurchase, Falter, DropDelivery
  <2> QED
    BY <1>0, <2>1, <2>2, DeliveryGoesOn DEF Phases, TokenTypeOK
<1>2. CASE MarkCompleted(d) \/ MarkFailed(d)
  <2>1. NoCredit /\ \E step \in {"marked", "done"} : ToPhase(d, step, 0)
    BY <1>2 DEF MarkCompleted, MarkFailed, NoCredit
  <2>2. \E s \in {"completed", "failed"} : purchase' = [purchase EXCEPT ![PaidFor[d]] = s]
    BY <1>2 DEF MarkCompleted, MarkFailed
  <2>3. purchase' \in [Purchases -> {"none", "pending", "completed", "failed"}]
    BY <1>0, <2>2 DEF TokenTypeOK
  <2> QED
    BY <2>1, <2>3, DeliveryGoesOn DEF Phases
<1>3. CASE ReadCredit(d)
  <2>1. NoCredit /\ UNCHANGED purchase /\ ToPhase(d, "crediting", available[Buyer[PaidFor[d]]])
    BY <1>3 DEF ReadCredit, NoCredit
  <2>2. available[Buyer[PaidFor[d]]] \in Int /\ available[Buyer[PaidFor[d]]] >= 0
    BY <1>0, LedgerFields DEF TokenInv, NeverOverdrawn
  <2> QED
    BY <1>0, <2>1, <2>2, DeliveryGoesOn DEF Phases, TokenTypeOK
<1>4. CASE creditTokens(d)
  <2>1. /\ delivery[d].step = "crediting"
        /\ available' = [available EXCEPT ![Buyer[PaidFor[d]]] = delivery[d].read + Bought[PaidFor[d]]]
        /\ credited' = [credited EXCEPT ![PaidFor[d]] = @ + 1]
        /\ UNCHANGED <<recorded, payout, purchase, moved>>
    BY <1>4 DEF creditTokens
  <2>2. \E next \in {"done", "failing"} : ToPhase(d, next, 0)
    BY <1>4 DEF creditTokens
  <2>3. /\ delivery' \in [Deliveries -> [step : Phases, read : Int]]
        /\ delivery'[d].step \in {"done", "failing"}
        /\ \A e \in Deliveries \ {d} : delivery'[e] = delivery[e]
    BY <1>0, <2>2, DeliveryMoved DEF Phases
  <2>4. delivery[d].read \in Int /\ delivery[d].read >= 0 /\ Bought[PaidFor[d]] \in Nat
    BY <1>0, <2>1, Constants, LedgerFields DEF TokenInv, ReadsCover
  <2>5. available' \in [TokenUsers -> Int] /\ NeverOverdrawn'
    BY <1>0, <2>1, <2>4 DEF TokenInv, TokenTypeOK, NeverOverdrawn
  <2>6. TokenTypeOK'
    BY <1>0, <2>1, <2>3, <2>5 DEF TokenTypeOK, Phases
  <2>7. ReadsCover'
    BY <2>1, <2>3 DEF TokenInv, ReadsCover
  <2> QED
    BY <2>1, <2>5, <2>6, <2>7 DEF TokenInv, MovedIsRecorded, KeyMovesOnce
<1> QED
  BY <1>1, <1>2, <1>3, <1>4

\* A step of the tokens is one of these.
LEMMA TokenSteps ==
    ASSUME TokenNext
    PROVE  \/ \E t \in Payouts : ReadPayer(t) \/ ReadPayee(t) \/ transferTokens(t) \/ RollBack(t)
           \/ \E p \in Purchases : createTokenPurchaseCheckout(p)
           \/ \E d \in Deliveries :
                 \/ ReadPurchase(d) \/ MarkCompleted(d) \/ ReadCredit(d) \/ creditTokens(d)
                 \/ Falter(d) \/ MarkFailed(d) \/ DropDelivery(d)
  BY DEF TokenNext, TokenStep

\* Whatever overlaps, no key moves tokens twice and nobody's balance goes below zero.
THEOREM TokensKept == TokenSpec => [](TokenTypeOK /\ KeyMovesOnce /\ NeverOverdrawn)
<1>1. TokenInit => TokenInv
  BY DEF TokenInit, TokenInv, TokenTypeOK, MovedIsRecorded, KeyMovesOnce, NeverOverdrawn, ReadsCover
<1>2. TokenInv /\ [TokenNext]_tokenVars => TokenInv'
  <2> SUFFICES ASSUME TokenInv, [TokenNext]_tokenVars PROVE TokenInv'
    OBVIOUS
  <2>1. ASSUME NEW p \in Purchases, createTokenPurchaseCheckout(p) PROVE TokenInv'
    BY <2>1 DEF createTokenPurchaseCheckout, TokenInv, TokenTypeOK, MovedIsRecorded, KeyMovesOnce,
                NeverOverdrawn, ReadsCover
  <2>2. CASE UNCHANGED tokenVars
    BY <2>2 DEF tokenVars, TokenInv, TokenTypeOK, MovedIsRecorded, KeyMovesOnce, NeverOverdrawn, ReadsCover
  <2> QED
    BY <2>1, <2>2, TokenSteps, PayoutKeeps, PurchaseKeeps
<1>3. TokenInv => TokenTypeOK /\ KeyMovesOnce /\ NeverOverdrawn
  BY DEF TokenInv
<1> QED
  BY <1>1, <1>2, <1>3, PTL DEF TokenSpec

\* No requirement is paid twice, and nobody pays with tokens they do not have, however many
\* payouts read the balance before one of them takes from it.
THEOREM PayoutsHold == TokenSpec => []PaidOnceFromWhatIsThere
<1>1. KeyMovesOnce /\ NeverOverdrawn => PaidOnceFromWhatIsThere
  BY DEF PaidOnceFromWhatIsThere
<1> QED
  BY <1>1, TokensKept, PTL

-----------------------------------------------------------------------------
SteadyInv == ReadIsCurrent /\ CreditedIsCompleted /\ OneAtATime
Open(t) == payout[t].step \in {"payer", "both"}
Busy(d) == delivery[d].step \notin {"ready", "done"}

\* One transaction at a time, call by call.
LEMMA Alone ==
    ASSUME OneAtATime
    PROVE  /\ \A u \in Steady : \A t, s \in Payouts :
                  Open(t) /\ Open(s) /\ u \in {Payer[t], Payee[t]} /\ u \in {Payer[s], Payee[s]} => t = s
           /\ \A u \in Steady : \A d, e \in Deliveries :
                  Busy(d) /\ Busy(e) /\ Buyer[PaidFor[d]] = u /\ Buyer[PaidFor[e]] = u => d = e
           /\ \A u \in Steady : \A t \in Payouts, d \in Deliveries :
                  ~(Open(t) /\ Busy(d) /\ u \in {Payer[t], Payee[t]} /\ Buyer[PaidFor[d]] = u)
  BY DEF OneAtATime, Paying, Settling, Open, Busy

\* The accounts of a call that may begin have no other under way.
LEMMA IdleAlone ==
    ASSUME NEW u \in Steady, Idle(u)
    PROVE  /\ \A t \in Payouts : u \in {Payer[t], Payee[t]} => ~Open(t)
           /\ \A d \in Deliveries : Buyer[PaidFor[d]] = u => ~Busy(d)
  BY DEF Idle, Paying, Settling, Open, Busy

\* Conversely, after a step.
LEMMA AloneAfter ==
    ASSUME \A u \in Steady : \A t, s \in Payouts :
                  Open(t)' /\ Open(s)' /\ u \in {Payer[t], Payee[t]} /\ u \in {Payer[s], Payee[s]} => t = s,
           \A u \in Steady : \A d, e \in Deliveries :
                  Busy(d)' /\ Busy(e)' /\ Buyer[PaidFor[d]] = u /\ Buyer[PaidFor[e]] = u => d = e,
           \A u \in Steady : \A t \in Payouts, d \in Deliveries :
                  ~(Open(t)' /\ Busy(d)' /\ u \in {Payer[t], Payee[t]} /\ Buyer[PaidFor[d]] = u)
    PROVE  OneAtATime'
  BY DEF OneAtATime, Paying, Settling, Open, Busy

\* A payout that only goes on leaves the steady accounts in order.
LEMMA SteadyPayout ==
    ASSUME TokenTypeOK, SteadyInv, NEW t \in Payouts,
           NEW step \in PayoutSteps, NEW from \in Int, NEW to \in Int,
           ToStep(t, step, from, to), Elsewhere,
           step = "done" \/ Open(t) \/ (Idle(Payer[t]) /\ Idle(Payee[t])),
           t \in SteadyPayouts /\ step # "done" => from = available[Payer[t]] /\ from >= Amount[t],
           t \in SteadyPayouts /\ step = "both" => to = available[Payee[t]],
           step # "ready"
    PROVE  SteadyInv'
<1>1. /\ payout'[t].step = step /\ payout'[t].from = from /\ payout'[t].to = to
      /\ \A s \in Payouts \ {t} : payout'[s] = payout[s]
  BY PayoutMoved
<1>2. ReadIsCurrent' /\ CreditedIsCompleted'
  BY <1>1 DEF SteadyInv, ReadIsCurrent, CreditedIsCompleted, Elsewhere, SteadyPayouts, SteadyPurchases
<1>3. /\ \A s \in Payouts \ {t} : Open(s)' <=> Open(s)
      /\ \A d \in Deliveries : Busy(d)' <=> Busy(d)
      /\ Open(t)' => step # "done"
  BY <1>1 DEF Open, Busy, Elsewhere
<1>4. CASE step = "done" \/ Open(t)
  <2>1. /\ \A s \in Payouts : Open(s)' => Open(s)
        /\ \A d \in Deliveries : Busy(d)' => Busy(d)
    BY <1>3, <1>4
  <2> QED
    BY <1>2, <2>1, Alone, AloneAfter DEF SteadyInv
<1>5. CASE Idle(Payer[t]) /\ Idle(Payee[t])
  <2>1. ASSUME NEW u \in Steady, u \in {Payer[t], Payee[t]}
        PROVE  /\ \A s \in Payouts \ {t} : u \in {Payer[s], Payee[s]} => ~Open(s)'
               /\ \A d \in Deliveries : Buyer[PaidFor[d]] = u => ~Busy(d)'
    BY <1>3, <1>5, <2>1, IdleAlone
  <2>2. /\ \A s \in Payouts \ {t} : Open(s)' => Open(s)
        /\ \A d \in Deliveries : Busy(d)' => Busy(d)
    BY <1>3
  <2> QED
    BY <1>2, <2>1, <2>2, Alone, AloneAfter DEF SteadyInv
<1> QED
  BY <1>2, <1>4, <1>5 DEF SteadyInv

\* So does a delivery that credits nothing.
LEMMA SteadyDelivery ==
    ASSUME TokenTypeOK, SteadyInv, NEW d \in Deliveries, NEW step \in Phases, NEW read \in Int,
           ToPhase(d, step, read), NoCredit,
           step = "done" \/ Busy(d)
             \/ (Idle(Buyer[PaidFor[d]]) /\ (PaidFor[d] \in SteadyPurchases => credited[PaidFor[d]] = 0)),
           step = "crediting" => read = available[Buyer[PaidFor[d]]],
           step \in {"marked", "crediting"} /\ PaidFor[d] \in SteadyPurchases => purchase'[PaidFor[d]] = "completed",
           UNCHANGED purchase
             \/ (Busy(d) /\ \A q \in Purchases \ {PaidFor[d]} : purchase'[q] = purchase[q])
    PROVE  SteadyInv'
<1>0. PaidFor[d] \in Purchases
  BY Constants
<1>1. /\ delivery'[d].step = step /\ delivery'[d].read = read
      /\ \A e \in Deliveries \ {d} : delivery'[e] = delivery[e]
  BY DeliveryMoved
<1>2. ReadIsCurrent'
  BY <1>1 DEF SteadyInv, ReadIsCurrent, NoCredit
<1>3. CreditedIsCompleted'
  <2>1. PaidFor[d] \in SteadyPurchases /\ (Busy(d) \/ step # "done") => credited[PaidFor[d]] = 0
    BY <1>0 DEF SteadyInv, CreditedIsCompleted, SteadyPurchases, Busy
  <2>2. \A q \in SteadyPurchases : credited'[q] > 0 => purchase'[q] = "completed"
    BY <2>1 DEF SteadyInv, CreditedIsCompleted, SteadyPurchases, NoCredit
  <2>3. ASSUME NEW e \in Deliveries \ {d}, PaidFor[e] \in SteadyPurchases
        PROVE  /\ delivery'[e].step \notin {"ready", "done"} => credited'[PaidFor[e]] = 0
               /\ delivery'[e].step \in {"marked", "crediting"} => purchase'[PaidFor[e]] = "completed"
    <3>1. /\ Busy(e) => credited[PaidFor[e]] = 0
          /\ delivery[e].step \in {"marked", "crediting"} => Busy(e) /\ purchase[PaidFor[e]] = "completed"
      BY <2>3 DEF SteadyInv, CreditedIsCompleted, Busy
    <3>2. Busy(e) /\ Busy(d) => PaidFor[e] # PaidFor[d]
      BY <2>3, Alone DEF SteadyInv, SteadyPurchases
    <3>3. PaidFor[e] \in Purchases
      BY Constants
    <3> QED
      BY <1>1, <3>1, <3>2, <3>3 DEF Busy, NoCredit
  <2>4. PaidFor[d] \in SteadyPurchases =>
            /\ delivery'[d].step \notin {"ready", "done"} => credited'[PaidFor[d]] = 0
            /\ delivery'[d].step \in {"marked", "crediting"} => purchase'[PaidFor[d]] = "completed"
    BY <1>1, <2>1 DEF NoCredit
  <2> QED
    BY <2>2, <2>3, <2>4 DEF CreditedIsCompleted, SteadyPurchases
<1>4. /\ \A e \in Deliveries \ {d} : Busy(e)' <=> Busy(e)
      /\ \A t \in Payouts : Open(t)' <=> Open(t)
      /\ Busy(d)' => step # "done"
  BY <1>1 DEF Open, Busy, NoCredit
<1>5. CASE step = "done" \/ Busy(d)
  <2>1. /\ \A t \in Payouts : Open(t)' => Open(t)
        /\ \A e \in Deliveries : Busy(e)' => Busy(e)
    BY <1>4, <1>5
  <2> QED
    BY <1>2, <1>3, <2>1, Alone, AloneAfter DEF SteadyInv
<1>6. CASE Idle(Buyer[PaidFor[d]])
  <2>1. ASSUME NEW u \in Steady, u = Buyer[PaidFor[d]]
        PROVE  /\ \A t \in Payouts : u \in {Payer[t], Payee[t]} => ~Open(t)'
               /\ \A e \in Deliveries \ {d} : Buyer[PaidFor[e]] = u => ~Busy(e)'
    BY <1>4, <1>6, <2>1, IdleAlone
  <2>2. /\ \A t \in Payouts : Open(t)' => Open(t)
        /\ \A e \in Deliveries \ {d} : Busy(e)' => Busy(e)
    BY <1>4
  <2> QED
    BY <1>2, <1>3, <2>1, <2>2, Alone, AloneAfter DEF SteadyInv
<1> QED
  BY <1>2, <1>3, <1>5, <1>6 DEF SteadyInv

\* What the books show of a state, and of the next one.
Tokens == [u \in Steady |-> available[u]]
Booked == {Key[t] : t \in {s \in SteadyPayouts : moved[s] > 0}} \cup {p \in SteadyPurchases : credited[p] > 0}

\* Nothing is booked unless a steady balance or a history of one changes.
LEMMA BooksSame ==
    ASSUME \A u \in Steady : available'[u] = available[u],
           \A s \in SteadyPayouts : moved'[s] = moved[s],
           \A p \in SteadyPurchases : credited'[p] = credited[p]
    PROVE  UNCHANGED <<Tokens, Booked>>
<1>1. Tokens' = Tokens
  BY DEF Tokens
<1>2. {s \in SteadyPayouts : moved'[s] > 0} = {s \in SteadyPayouts : moved[s] > 0}
  OBVIOUS
<1>3. {p \in SteadyPurchases : credited'[p] > 0} = {p \in SteadyPurchases : credited[p] > 0}
  OBVIOUS
<1>4. SteadyPayouts' = SteadyPayouts /\ SteadyPurchases' = SteadyPurchases
  BY DEF SteadyPayouts, SteadyPurchases
<1> QED
  BY <1>1, <1>2, <1>3, <1>4 DEF Booked

AllInv == TokenInv /\ SteadyInv
BookStep == SteadyInv' /\ ([Books!Next]_<<Tokens, Booked>>)

\* A transfer between steady accounts is booked, once.
LEMMA TransferIsBooked ==
    ASSUME AllInv, NEW t \in SteadyPayouts, transferTokens(t), NeverOverdrawn'
    PROVE  SteadyInv' /\ Books!Next
<1>0. /\ TokenTypeOK /\ t \in Payouts /\ Payer[t] \in Steady /\ Payee[t] \in Steady
      /\ Payer[t] # Payee[t] /\ Steady \subseteq TokenUsers
      /\ Amount[t] \in Nat
  BY Constants, TokenAssumption DEF AllInv, TokenInv, SteadyPayouts
<1>1. /\ ToStep(t, "done", 0, 0)
      /\ payout[t].step = "both" /\ Key[t] \notin recorded
      /\ available' = [u \in TokenUsers |->
            IF u = Payer[t] THEN payout[t].from - Amount[t]
            ELSE IF u = Payee[t] THEN payout[t].to + Amount[t] ELSE available[u]]
      /\ recorded' = recorded \cup {Key[t]}
      /\ moved' = [moved EXCEPT ![t] = @ + 1]
      /\ UNCHANGED <<purchase, delivery, credited>>
  BY <1>0 DEF transferTokens
<1>2. payout'[t].step = "done" /\ \A s \in Payouts \ {t} : payout'[s] = payout[s]
  <2>1. "done" \in PayoutSteps
    BY DEF PayoutSteps
  <2> QED
    BY <1>0, <1>1, <2>1, PayoutMoved
<1>3. payout[t].from = available[Payer[t]] /\ payout[t].to = available[Payee[t]]
  BY <1>0, <1>1 DEF AllInv, SteadyInv, ReadIsCurrent
<1>4. Open(t) /\ ~Open(t)'
  BY <1>1, <1>2 DEF Open
<1>5. \A s \in Payouts \ {t} : Open(s) => Payer[s] \notin {Payer[t], Payee[t]} /\ Payee[s] \notin {Payer[t], Payee[t]}
  BY <1>0, <1>4, Alone DEF AllInv, SteadyInv
<1>6. \A d \in Deliveries : Busy(d) => Buyer[PaidFor[d]] \notin {Payer[t], Payee[t]}
  BY <1>0, <1>4, Alone DEF AllInv, SteadyInv
<1>7. ReadIsCurrent'
  <2>1. \A u \in TokenUsers \ {Payer[t], Payee[t]} : available'[u] = available[u]
    BY <1>1
  <2>2. ASSUME NEW s \in SteadyPayouts
        PROVE  /\ payout'[s].step \in {"payer", "both"} => payout'[s].from = available'[Payer[s]]
                                                           /\ payout'[s].from >= Amount[s]
               /\ payout'[s].step = "both" => payout'[s].to = available'[Payee[s]]
    BY <1>2, <1>5, <2>1, Constants DEF AllInv, SteadyInv, ReadIsCurrent, SteadyPayouts, Open
  <2>3. ASSUME NEW d \in Deliveries, Buyer[PaidFor[d]] \in Steady, delivery'[d].step = "crediting"
        PROVE  delivery'[d].read = available'[Buyer[PaidFor[d]]]
    BY <1>1, <1>6, <2>1, <2>3, TokenAssumption DEF AllInv, SteadyInv, ReadIsCurrent, Busy
  <2> QED
    BY <2>2, <2>3 DEF ReadIsCurrent, SteadyPayouts
<1>8. CreditedIsCompleted'
  BY <1>1 DEF AllInv, SteadyInv, CreditedIsCompleted, SteadyPurchases
<1>9. OneAtATime'
  <2>1. /\ \A s \in Payouts : Open(s)' => Open(s)
        /\ \A d \in Deliveries : Busy(d)' <=> Busy(d)
    BY <1>1, <1>2, <1>4 DEF Open, Busy
  <2> QED
    BY <2>1, Alone, AloneAfter DEF AllInv, SteadyInv
<1>10. Books!Book(Key[t])
  <2>1. Key[t] \notin Booked
    BY <1>0, <1>1, TokenAssumption DEF AllInv, TokenInv, MovedIsRecorded, Booked, SteadyPayouts, SteadyPurchases
  <2>2. \A s \in Payouts : moved[s] \in Nat
    BY <1>0 DEF TokenTypeOK
  <2>3. \A s \in SteadyPayouts : moved'[s] > 0 <=> s = t \/ moved[s] > 0
    BY <1>0, <1>1, <2>2 DEF TokenTypeOK, SteadyPayouts
  <2>4. {s \in SteadyPayouts : moved'[s] > 0} = {s \in SteadyPayouts : moved[s] > 0} \cup {t}
    BY <2>3
  <2>5. Booked' = Booked \cup {Key[t]}
    BY <1>1, <2>4 DEF Booked, SteadyPayouts, SteadyPurchases
  <2>6. Move(t) \in Worth(Key[t])
    BY DEF Worth
  <2>7. \A u \in Steady : available[u] \in Int
    BY <1>0, LedgerFields
  <2>8. Tokens' = [u \in Steady |-> Tokens[u] + Move(t)[u]]
    BY <1>0, <1>1, <1>3, <2>7 DEF Tokens, Move
  <2>9. \A u \in Steady : Tokens'[u] >= 0
    BY <1>0 DEF NeverOverdrawn, Tokens
  <2>10. Key[t] \in SteadyOrders
    BY DEF SteadyOrders
  <2>11. [o \in SteadyOrders |-> Worth(o)][Key[t]] = Worth(Key[t])
    BY <2>10
  <2> QED
    BY <2>1, <2>5, <2>6, <2>8, <2>9, <2>11 DEF Books!Book, Tokens, Booked
<1> QED
  BY <1>7, <1>8, <1>9, <1>10 DEF SteadyInv, Books!Next, SteadyOrders

\* A credit to a steady account is booked, once.
LEMMA CreditIsBooked ==
    ASSUME AllInv, NEW d \in Deliveries, creditTokens(d), PaidFor[d] \in SteadyPurchases, NeverOverdrawn'
    PROVE  SteadyInv' /\ Books!Next
<1> DEFINE p == PaidFor[d]
<1>0. TokenTypeOK /\ p \in Purchases /\ Buyer[p] \in Steady /\ Buyer[p] \in TokenUsers /\ Bought[p] \in Nat
  BY Constants DEF AllInv, TokenInv, SteadyPurchases
<1>1. /\ delivery[d].step = "crediting"
      /\ available' = [available EXCEPT ![Buyer[p]] = delivery[d].read + Bought[p]]
      /\ credited' = [credited EXCEPT ![p] = @ + 1]
      /\ UNCHANGED <<recorded, payout, purchase, moved>>
      /\ ToPhase(d, "done", 0)
  BY <1>0 DEF creditTokens
<1>2. delivery'[d].step = "done" /\ \A e \in Deliveries \ {d} : delivery'[e] = delivery[e]
  <2>1. "done" \in Phases
    BY DEF Phases
  <2> QED
    BY <1>0, <1>1, <2>1, DeliveryMoved
<1>3. /\ delivery[d].read = available[Buyer[p]]
      /\ credited[p] = 0
  BY <1>0, <1>1 DEF AllInv, SteadyInv, ReadIsCurrent, CreditedIsCompleted
<1>4. Busy(d) /\ ~Busy(d)'
  BY <1>1, <1>2 DEF Busy
<1>5. \A e \in Deliveries \ {d} : Busy(e) => Buyer[PaidFor[e]] # Buyer[p]
  BY <1>0, <1>4, Alone DEF AllInv, SteadyInv
<1>6. \A t \in Payouts : Open(t) => Buyer[p] \notin {Payer[t], Payee[t]}
  BY <1>0, <1>4, Alone DEF AllInv, SteadyInv
<1>7. \A u \in TokenUsers \ {Buyer[p]} : available'[u] = available[u]
  BY <1>0, <1>1 DEF TokenTypeOK
<1>8. ReadIsCurrent'
  <2>1. ASSUME NEW s \in SteadyPayouts
        PROVE  /\ payout'[s].step \in {"payer", "both"} => payout'[s].from = available'[Payer[s]]
                                                           /\ payout'[s].from >= Amount[s]
               /\ payout'[s].step = "both" => payout'[s].to = available'[Payee[s]]
    BY <1>1, <1>6, <1>7, Constants DEF AllInv, SteadyInv, ReadIsCurrent, SteadyPayouts, Open
  <2>2. ASSUME NEW e \in Deliveries, Buyer[PaidFor[e]] \in Steady, delivery'[e].step = "crediting"
        PROVE  delivery'[e].read = available'[Buyer[PaidFor[e]]]
    <3>1. e # d /\ delivery'[e] = delivery[e]
      BY <1>2, <2>2
    <3>2. Busy(e) /\ Buyer[PaidFor[e]] \in TokenUsers \ {Buyer[p]}
      BY <1>5, <2>2, <3>1, TokenAssumption DEF Busy
    <3> QED
      BY <1>7, <2>2, <3>1, <3>2 DEF AllInv, SteadyInv, ReadIsCurrent
  <2> QED
    BY <2>1, <2>2 DEF ReadIsCurrent, SteadyPayouts
<1>9. CreditedIsCompleted'
  <2>1. purchase[p] = "completed"
    BY <1>0, <1>1 DEF AllInv, SteadyInv, CreditedIsCompleted
  <2> QED
    BY <1>0, <1>1, <1>2, <1>5, <2>1 DEF AllInv, SteadyInv, CreditedIsCompleted, SteadyPurchases, TokenTypeOK, Busy
<1>10. OneAtATime'
  <2>1. /\ \A t \in Payouts : Open(t)' => Open(t)
        /\ \A e \in Deliveries : Busy(e)' => Busy(e)
    BY <1>1, <1>2, <1>4 DEF Open, Busy
  <2> QED
    BY <2>1, Alone, AloneAfter DEF AllInv, SteadyInv
<1>11. Books!Book(p)
  <2>1. p \notin Booked
    BY <1>0, <1>3, TokenAssumption DEF Booked, SteadyPayouts, SteadyPurchases
  <2>2. \A q \in Purchases : credited[q] \in Nat
    BY <1>0 DEF TokenTypeOK
  <2>3. \A q \in SteadyPurchases : credited'[q] > 0 <=> q = p \/ credited[q] > 0
    BY <1>0, <1>1, <2>2 DEF TokenTypeOK, SteadyPurchases
  <2>4. {q \in SteadyPurchases : credited'[q] > 0} = {q \in SteadyPurchases : credited[q] > 0} \cup {p}
    BY <2>3
  <2>5. Booked' = Booked \cup {p}
    BY <1>1, <2>4 DEF Booked, SteadyPayouts, SteadyPurchases
  <2>6. Gain(p) \in Worth(p)
    BY DEF Worth
  <2>7. \A u \in Steady : available[u] \in Int /\ u \in TokenUsers
    BY <1>0, LedgerFields, TokenAssumption
  <2>8. Tokens' = [u \in Steady |-> Tokens[u] + Gain(p)[u]]
    BY <1>0, <1>1, <1>3, <2>7 DEF Tokens, Gain, TokenTypeOK
  <2>9. \A u \in Steady : Tokens'[u] >= 0
    BY <2>7 DEF NeverOverdrawn, Tokens
  <2>10. p \in SteadyOrders
    BY DEF SteadyOrders
  <2>11. [o \in SteadyOrders |-> Worth(o)][p] = Worth(p)
    BY <2>10
  <2> QED
    BY <2>1, <2>5, <2>6, <2>8, <2>9, <2>11 DEF Books!Book, Tokens, Booked
<1> QED
  BY <1>8, <1>9, <1>10, <1>11 DEF SteadyInv, Books!Next, SteadyOrders

\* Every other step of a payout shows nothing and keeps the steady accounts in order.
LEMMA PayoutIsBooked ==
    ASSUME AllInv, NEW t \in Payouts, ReadPayer(t) \/ ReadPayee(t) \/ transferTokens(t) \/ RollBack(t),
           NeverOverdrawn'
    PROVE  BookStep
<1>0. TokenTypeOK /\ SteadyInv
  BY DEF AllInv, TokenInv
<1>1. CASE ReadPayer(t) \/ ReadPayee(t) \/ RollBack(t)
  <2>1. Elsewhere
    BY <1>1 DEF ReadPayer, ReadPayee, RollBack, Elsewhere
  <2>2. UNCHANGED <<Tokens, Booked>>
    BY <2>1, BooksSame DEF Elsewhere
  <2>3. available[Payer[t]] \in Int /\ available[Payee[t]] \in Int /\ payout[t].from \in Int /\ Amount[t] \in Nat
    BY <1>0, Constants, LedgerFields
  <2>4. ASSUME ToStep(t, "done", 0, 0) PROVE SteadyInv'
    <3>1. "done" \in PayoutSteps /\ 0 \in Int /\ "done" # "ready" /\ "done" # "both"
      BY DEF PayoutSteps
    <3> HIDE DEF PayoutSteps
    <3> QED
      BY <1>0, <2>1, <2>4, <3>1, SteadyPayout
  <2>5. ASSUME ReadPayer(t), ~ToStep(t, "done", 0, 0) PROVE SteadyInv'
    <3>1. /\ Idle(Payer[t]) /\ Idle(Payee[t]) /\ ToStep(t, "payer", available[Payer[t]], 0)
          /\ ~(available[Payer[t]] < Amount[t])
      BY <2>5 DEF ReadPayer
    <3>2. available[Payer[t]] >= Amount[t]
      BY <2>3, <3>1
    <3> QED
      BY <1>0, <2>1, <2>3, <3>1, <3>2, SteadyPayout DEF PayoutSteps
  <2>6. ASSUME ReadPayee(t) PROVE SteadyInv'
    <3>1. /\ payout[t].step = "payer" /\ ToStep(t, "both", payout[t].from, available[Payee[t]])
      BY <2>6 DEF ReadPayee
    <3>2. t \in SteadyPayouts => payout[t].from = available[Payer[t]] /\ payout[t].from >= Amount[t]
      BY <1>0, <3>1 DEF SteadyInv, ReadIsCurrent
    <3>3. Open(t)
      BY <3>1 DEF Open
    <3> QED
      BY <1>0, <2>1, <2>3, <3>1, <3>2, <3>3, SteadyPayout DEF PayoutSteps
  <2>7. SteadyInv'
    BY <1>1, <2>4, <2>5, <2>6 DEF RollBack
  <2> QED
    BY <2>2, <2>7 DEF BookStep, Tokens, Booked
<1>2. CASE transferTokens(t) /\ t \in SteadyPayouts
  BY <1>2, TransferIsBooked DEF BookStep
<1>3. CASE transferTokens(t) /\ t \notin SteadyPayouts
  <2>1. /\ ToStep(t, "done", 0, 0)
        /\ available' = [u \in TokenUsers |->
              IF u = Payer[t] THEN payout[t].from - Amount[t]
              ELSE IF u = Payee[t] THEN payout[t].to + Amount[t] ELSE available[u]]
        /\ moved' = [moved EXCEPT ![t] = @ + 1]
        /\ UNCHANGED <<purchase, delivery, credited>>
    BY <1>3 DEF transferTokens
  <2>2. Payer[t] \notin Steady /\ Payee[t] \notin Steady /\ Steady \subseteq TokenUsers
    BY <1>3, Constants, TokenAssumption DEF SteadyPayouts
  <2>3. \A u \in Steady : available'[u] = available[u]
    BY <2>1, <2>2
  <2>4. \A s \in SteadyPayouts : s # t /\ moved'[s] = moved[s]
    BY <1>0, <1>3, <2>1 DEF SteadyPayouts, TokenTypeOK
  <2>5. payout'[t].step = "done" /\ \A s \in Payouts \ {t} : payout'[s] = payout[s]
    <3>1. "done" \in PayoutSteps
      BY DEF PayoutSteps
    <3> QED
      BY <1>0, <2>1, <3>1, PayoutMoved
  <2>6. ReadIsCurrent'
    BY <1>0, <1>3, <2>1, <2>3, <2>5, Constants DEF SteadyInv, ReadIsCurrent, SteadyPayouts
  <2>7. CreditedIsCompleted'
    BY <1>0, <2>1 DEF SteadyInv, CreditedIsCompleted, SteadyPurchases
  <2>8. /\ \A s \in Payouts : Open(s)' => Open(s)
        /\ \A e \in Deliveries : Busy(e)' => Busy(e)
    BY <2>1, <2>5 DEF Open, Busy
  <2>9. OneAtATime'
    BY <1>0, <2>8, Alone, AloneAfter DEF SteadyInv
  <2>10. UNCHANGED <<Tokens, Booked>>
    BY <2>1, <2>3, <2>4, BooksSame
  <2> QED
    BY <2>6, <2>7, <2>9, <2>10 DEF BookStep, SteadyInv, Tokens, Booked
<1> QED
  BY <1>1, <1>2, <1>3

\* So does every other step of a purchase.
LEMMA PurchaseIsBooked ==
    ASSUME AllInv, NEW d \in Deliveries,
           ReadPurchase(d) \/ MarkCompleted(d) \/ ReadCredit(d) \/ creditTokens(d)
             \/ Falter(d) \/ MarkFailed(d) \/ DropDelivery(d),
           NeverOverdrawn'
    PROVE  BookStep
<1>0. /\ TokenTypeOK /\ SteadyInv /\ PaidFor[d] \in Purchases
      /\ Buyer[PaidFor[d]] \in TokenUsers /\ available[Buyer[PaidFor[d]]] \in Int
  BY Constants, LedgerFields DEF AllInv, TokenInv
<1>1. ASSUME NoCredit, SteadyInv' PROVE BookStep
  <2>1. UNCHANGED <<Tokens, Booked>>
    BY <1>1, BooksSame DEF NoCredit
  <2> QED
    BY <1>1, <2>1 DEF BookStep, Tokens, Booked
<1>2. CASE ReadPurchase(d)
  <2>1. NoCredit /\ UNCHANGED purchase /\ Idle(Buyer[PaidFor[d]])
    BY <1>2 DEF ReadPurchase, NoCredit
  <2>2. CASE ToPhase(d, "done", 0)
    BY <1>0, <1>1, <2>1, <2>2, SteadyDelivery DEF Phases, SteadyInv, CreditedIsCompleted
  <2>3. CASE purchase[PaidFor[d]] # "completed" /\ ToPhase(d, "marking", 0)
    <3>1. PaidFor[d] \in SteadyPurchases => credited[PaidFor[d]] = 0
      BY <1>0, <2>3 DEF SteadyInv, CreditedIsCompleted, TokenTypeOK
    <3> QED
      BY <1>0, <1>1, <2>1, <2>3, <3>1, SteadyDelivery DEF Phases, SteadyInv, CreditedIsCompleted
  <2> QED
    BY <1>2, <2>2, <2>3 DEF ReadPurchase
<1>3. CASE Falter(d) \/ DropDelivery(d)
  <2>1. NoCredit /\ UNCHANGED purchase /\ Busy(d)
    BY <1>3 DEF Falter, DropDelivery, NoCredit, Busy
  <2>2. \E step \in {"done", "failing"} : ToPhase(d, step, 0)
    BY <1>3 DEF Falter, DropDelivery
  <2> QED
    BY <1>0, <1>1, <2>1, <2>2, SteadyDelivery DEF Phases, SteadyInv, CreditedIsCompleted
<1>4. CASE MarkCompleted(d) \/ MarkFailed(d)
  <2>1. NoCredit /\ Busy(d)
    BY <1>4 DEF MarkCompleted, MarkFailed, NoCredit, Busy
  <2>2. PaidFor[d] \in SteadyPurchases => credited[PaidFor[d]] = 0
    BY <1>0, <2>1 DEF SteadyInv, CreditedIsCompleted, Busy
  <2>3. \/ ToPhase(d, "marked", 0) /\ purchase' = [purchase EXCEPT ![PaidFor[d]] = "completed"]
        \/ ToPhase(d, "done", 0) /\ purchase' = [purchase EXCEPT ![PaidFor[d]] = "failed"]
    BY <1>4 DEF MarkCompleted, MarkFailed
  <2>4. \A q \in Purchases \ {PaidFor[d]} : purchase'[q] = purchase[q]
    BY <1>0, <2>3 DEF TokenTypeOK
  <2>5. \A q \in SteadyPurchases : credited[q] > 0 => purchase'[q] = "completed"
    BY <1>0, <2>2, <2>4 DEF SteadyInv, CreditedIsCompleted, SteadyPurchases
  <2>6. ToPhase(d, "marked", 0) => purchase'[PaidFor[d]] = "completed" \/ ToPhase(d, "done", 0)
    BY <1>0, <2>3 DEF TokenTypeOK
  <2>7. SteadyInv'
    <3>1. CASE ToPhase(d, "done", 0)
      BY <1>0, <2>1, <2>4, <2>5, <3>1, SteadyDelivery DEF Phases
    <3>2. CASE ToPhase(d, "marked", 0) /\ purchase'[PaidFor[d]] = "completed"
      BY <1>0, <2>1, <2>4, <2>5, <3>2, SteadyDelivery DEF Phases
    <3> QED
      BY <2>3, <2>6, <3>1, <3>2
  <2> QED
    BY <1>1, <2>1, <2>7
<1>5. CASE ReadCredit(d)
  <2>1. NoCredit /\ UNCHANGED purchase /\ Busy(d) /\ ToPhase(d, "crediting", available[Buyer[PaidFor[d]]])
    BY <1>5 DEF ReadCredit, NoCredit, Busy
  <2>2. PaidFor[d] \in SteadyPurchases => purchase[PaidFor[d]] = "completed"
    BY <1>0, <1>5 DEF ReadCredit, SteadyInv, CreditedIsCompleted
  <2> QED
    BY <1>0, <1>1, <2>1, <2>2, SteadyDelivery DEF Phases, SteadyInv, CreditedIsCompleted
<1>6. CASE creditTokens(d) /\ PaidFor[d] \in SteadyPurchases
  BY <1>6, CreditIsBooked DEF BookStep
<1>7. CASE creditTokens(d) /\ PaidFor[d] \notin SteadyPurchases
  <2>1. /\ available' = [available EXCEPT ![Buyer[PaidFor[d]]] = delivery[d].read + Bought[PaidFor[d]]]
        /\ credited' = [credited EXCEPT ![PaidFor[d]] = @ + 1]
        /\ UNCHANGED <<recorded, payout, purchase, moved>>
        /\ delivery[d].step = "crediting"
    BY <1>7 DEF creditTokens
  <2>2. \E next \in {"done", "failing"} : ToPhase(d, next, 0)
    BY <1>7 DEF creditTokens
  <2>3. /\ delivery'[d].step \in {"done", "failing"}
        /\ \A e \in Deliveries \ {d} : delivery'[e] = delivery[e]
    BY <1>0, <2>2, DeliveryMoved DEF Phases
  <2>4. Buyer[PaidFor[d]] \notin Steady /\ Steady \subseteq TokenUsers
    BY <1>0, <1>7, TokenAssumption DEF SteadyPurchases
  <2>5. \A u \in Steady : available'[u] = available[u]
    BY <1>0, <2>1, <2>4 DEF TokenTypeOK
  <2>6. \A q \in SteadyPurchases : credited'[q] = credited[q]
    BY <1>0, <1>7, <2>1 DEF SteadyPurchases, TokenTypeOK
  <2>7. ReadIsCurrent'
    BY <1>0, <2>1, <2>3, <2>4, <2>5, Constants DEF SteadyInv, ReadIsCurrent, SteadyPayouts
  <2>8. CreditedIsCompleted'
    BY <1>0, <1>7, <2>1, <2>3, <2>6 DEF SteadyInv, CreditedIsCompleted, SteadyPurchases
  <2>9. /\ \A t \in Payouts : Open(t)' => Open(t)
        /\ \A e \in Deliveries : Busy(e)' => Busy(e)
    BY <2>1, <2>3 DEF Open, Busy
  <2>10. OneAtATime'
    BY <1>0, <2>9, Alone, AloneAfter DEF SteadyInv
  <2>11. UNCHANGED <<Tokens, Booked>>
    BY <2>1, <2>5, <2>6, BooksSame
  <2> QED
    BY <2>7, <2>8, <2>10, <2>11 DEF BookStep, SteadyInv, Tokens, Booked
<1> QED
  BY <1>2, <1>3, <1>4, <1>5, <1>6, <1>7

\* On accounts whose transactions do not overlap, the balances are the books' to the token.
THEOREM LedgerImplementsBook == TokenSpec => BalancesAreBooked
<1>1. TokenInit => AllInv /\ Books!Init
  <2> SUFFICES ASSUME TokenInit PROVE AllInv /\ Books!Init
    OBVIOUS
  <2>1. TokenInv
    BY DEF TokenInit, TokenInv, TokenTypeOK, MovedIsRecorded, KeyMovesOnce, NeverOverdrawn, ReadsCover
  <2>2. SteadyInv
    BY DEF TokenInit, SteadyInv, ReadIsCurrent, CreditedIsCompleted, OneAtATime, Paying, Settling, SteadyPayouts,
           SteadyPurchases
  <2>3. Books!Init
    BY TokenAssumption DEF TokenInit, Books!Init, SteadyPayouts, SteadyPurchases
  <2> QED
    BY <2>1, <2>2, <2>3 DEF AllInv
<1>2. AllInv /\ [TokenNext]_tokenVars => AllInv' /\ [Books!Next]_<<Tokens, Booked>>
  <2> SUFFICES ASSUME AllInv, [TokenNext]_tokenVars PROVE AllInv' /\ [Books!Next]_<<Tokens, Booked>>
    OBVIOUS
  <2>1. ASSUME NEW p \in Purchases, createTokenPurchaseCheckout(p) PROVE TokenInv' /\ BookStep
    <3>1. TokenInv'
      BY <2>1 DEF createTokenPurchaseCheckout, AllInv, TokenInv, TokenTypeOK, MovedIsRecorded, KeyMovesOnce,
                  NeverOverdrawn, ReadsCover
    <3>2. /\ \A q \in Purchases : purchase[q] = "completed" => purchase'[q] = "completed"
          /\ UNCHANGED <<available, recorded, payout, delivery, moved, credited>>
      BY <2>1 DEF createTokenPurchaseCheckout, AllInv, TokenInv, TokenTypeOK
    <3>3. ReadIsCurrent' /\ CreditedIsCompleted' /\ OneAtATime'
      BY <3>2, Constants DEF AllInv, SteadyInv, ReadIsCurrent, CreditedIsCompleted, OneAtATime, Paying, Settling,
                  SteadyPayouts, SteadyPurchases
    <3>4. UNCHANGED <<Tokens, Booked>>
      BY <3>2, BooksSame
    <3> QED
      BY <3>1, <3>3, <3>4 DEF BookStep, SteadyInv, Tokens, Booked
  <2>2. CASE UNCHANGED tokenVars
    <3>1. UNCHANGED <<available, recorded, payout, purchase, delivery, moved, credited>>
      BY <2>2 DEF tokenVars
    <3>2. UNCHANGED <<Tokens, Booked>>
      BY <3>1, BooksSame
    <3>3. TokenInv'
      BY <3>1 DEF AllInv, TokenInv, TokenTypeOK, MovedIsRecorded, KeyMovesOnce, NeverOverdrawn, ReadsCover
    <3>4. SteadyInv'
      BY <3>1 DEF AllInv, SteadyInv, ReadIsCurrent, CreditedIsCompleted, OneAtATime, Paying, Settling,
                  SteadyPayouts, SteadyPurchases
    <3> QED
      BY <3>2, <3>3, <3>4 DEF AllInv
  <2>3. ASSUME NEW t \in Payouts, ReadPayer(t) \/ ReadPayee(t) \/ transferTokens(t) \/ RollBack(t)
        PROVE  TokenInv' /\ BookStep
    <3>1. TokenInv' /\ NeverOverdrawn'
      BY <2>3, PayoutKeeps DEF AllInv, TokenInv
    <3> QED
      BY <2>3, <3>1, PayoutIsBooked
  <2>4. ASSUME NEW d \in Deliveries,
               ReadPurchase(d) \/ MarkCompleted(d) \/ ReadCredit(d) \/ creditTokens(d)
                 \/ Falter(d) \/ MarkFailed(d) \/ DropDelivery(d)
        PROVE  TokenInv' /\ BookStep
    <3>1. TokenInv' /\ NeverOverdrawn'
      BY <2>4, PurchaseKeeps DEF AllInv, TokenInv
    <3> QED
      BY <2>4, <3>1, PurchaseIsBooked
  <2>5. CASE TokenNext
    <3>1. TokenInv' /\ BookStep
      BY <2>1, <2>3, <2>4, <2>5, TokenSteps
    <3> QED
      BY <3>1 DEF BookStep, AllInv
  <2> QED
    BY <2>2, <2>5
<1> QED
  BY <1>1, <1>2, PTL DEF TokenSpec, BalancesAreBooked, Books!Spec, Tokens, Booked

-----------------------------------------------------------------------------
(* The merge, whatever the shapes are *)

\* Without a clash either order of merging gives the same value.
LEMMA ChangedEitherWay ==
    ASSUME NEW b, NEW n, NEW c, ~Clash(b, n, c)
    PROVE  Changed(b, n, c) = Changed(b, c, n)
  BY DEF Clash, Changed

LEMMA ClashEitherWay ==
    ASSUME NEW b, NEW n, NEW c
    PROVE  Clash(b, n, c) <=> Clash(b, c, n)
  BY DEF Clash

LEMMA KidsEitherWay ==
    ASSUME NEW b, NEW n, NEW c, Agreeing(b, n, c)
    PROVE  MergedKids(b, n, c) = MergedKids(b, c, n)
  BY ChangedEitherWay DEF Agreeing, MergedKids

\* A row both sides keep is one that both know, so the order of the same rows is compared.
LEMMA CommonEitherWay ==
    ASSUME NEW b, NEW n, NEW c, Agreeing(b, n, c)
    PROVE  Common(b, n, c) = Common(b, c, n)
<1>1. ASSUME NEW r \in Rows, NEW x, NEW y, ~Clash(b.kids[r], x.kids[r], y.kids[r]),
             b.kids[r] # Absent, x.kids[r] # Absent,
             Changed(b.kids[r], x.kids[r], y.kids[r]) # Absent
      PROVE  y.kids[r] # Absent
  BY <1>1 DEF Clash, Changed
<1>2. ASSUME NEW r \in Rows
      PROVE  r \in Common(b, n, c) <=> r \in Common(b, c, n)
  <2>1. /\ ~Clash(b.kids[r], n.kids[r], c.kids[r])
        /\ ~Clash(b.kids[r], c.kids[r], n.kids[r])
    BY ClashEitherWay DEF Agreeing
  <2>2. MergedKids(b, n, c)[r] = MergedKids(b, c, n)[r]
    BY KidsEitherWay
  <2>3. /\ MergedKids(b, n, c)[r] = Changed(b.kids[r], n.kids[r], c.kids[r])
        /\ MergedKids(b, c, n)[r] = Changed(b.kids[r], c.kids[r], n.kids[r])
    BY DEF MergedKids
  <2> QED
    BY <1>1, <2>1, <2>2, <2>3 DEF Common, Ids, Kept
<1>3. Common(b, n, c) \subseteq Rows /\ Common(b, c, n) \subseteq Rows
  BY DEF Common, Ids, Kept
<1> QED
  BY <1>2, <1>3

\* Both orders of merging are refused, or neither is.
LEMMA RefusedEitherWay ==
    ASSUME NEW b, NEW n, NEW c
    PROVE  Refused(b, n, c) <=> Refused(b, c, n)
<1>1. Agreeing(b, n, c) <=> Agreeing(b, c, n)
  BY ClashEitherWay DEF Agreeing
<1>2. OneValue({b, n, c}) <=> OneValue({b, c, n})
  BY DEF OneValue
<1>3. Agreeing(b, n, c) => (OrderClash(b, n, c) <=> OrderClash(b, c, n))
  BY CommonEitherWay, ClashEitherWay DEF OrderClash
<1>4. \A x, y, z : Refused(x, y, z) <=>
          \/ ~Agreeing(x, y, z)
          \/ OneValue({x, y, z}) /\ Clash(Ids(x), Ids(y), Ids(z))
          \/ OrderClash(x, y, z)
  BY DEF Refused, Agreeing
<1> QED
  BY <1>1, <1>2, <1>3, <1>4, ClashEitherWay

\* What a merge that is not refused leaves does not depend on the order.
LEMMA SameEitherWay ==
    ASSUME NEW b, NEW n, NEW c, ~Refused(b, n, c)
    PROVE  /\ mergeNodeShape(b, n, c).data = mergeNodeShape(b, c, n).data
           /\ mergeNodeShape(b, n, c).kids = mergeNodeShape(b, c, n).kids
<1>1. Agreeing(b, n, c)
  BY DEF Refused, Agreeing
<1>2. [f \in Fields |-> Changed(b.data[f], n.data[f], c.data[f])]
        = [f \in Fields |-> Changed(b.data[f], c.data[f], n.data[f])]
  BY <1>1, ChangedEitherWay DEF Agreeing
<1> QED
  BY <1>1, <1>2, KidsEitherWay DEF mergeNodeShape

\* The later of two times that are not before the agreement.
LEMMA LaterEitherWay ==
    ASSUME NEW b, NEW n, NEW c,
           b.updated \in Int, n.updated \in Int, c.updated \in Int,
           b.updated <= n.updated, b.updated <= c.updated
    PROVE  mergeNodeShape(b, n, c).updated = mergeNodeShape(b, c, n).updated
  BY DEF mergeNodeShape, Latest

\* Two sides with one value each, which both may have taken over from the agreement,
\* are left with one.
LEMMA OneIsLeft ==
    ASSUME NEW b, NEW n, NEW c, ~Refused(b, n, c), OneValue({b, n, c}),
           HasOne(n), HasOne(c), HasOne(b) \/ Ids(b) = {}
    PROVE  HasOne(mergeNodeShape(b, n, c))
<1>1. Agreeing(b, n, c) /\ ~Clash(Ids(b), Ids(n), Ids(c))
  BY DEF Refused, Agreeing
<1>2. PICK x \in Rows : Ids(n) = {x}
  BY DEF HasOne
<1>3. PICK y \in Rows : Ids(c) = {y}
  BY DEF HasOne
<1>4. Ids(mergeNodeShape(b, n, c)) = {r \in Rows : Changed(b.kids[r], n.kids[r], c.kids[r]) # Absent}
  BY DEF Ids, Kept, mergeNodeShape, MergedKids
<1>5. \A r \in Rows : /\ n.kids[r] # Absent <=> r = x
                      /\ c.kids[r] # Absent <=> r = y
                      /\ ~Clash(b.kids[r], n.kids[r], c.kids[r])
  BY <1>1, <1>2, <1>3 DEF Agreeing, Ids, Kept
<1>6. CASE x = y
  <2>1. \A r \in Rows : Changed(b.kids[r], n.kids[r], c.kids[r]) # Absent <=> r = x
    BY <1>5, <1>6 DEF Changed
  <2> QED
    BY <1>4, <2>1 DEF HasOne
<1>7. CASE x # y /\ Ids(n) = Ids(b)
  <2>1. \A r \in Rows : b.kids[r] # Absent <=> r = x
    BY <1>2, <1>7 DEF Ids, Kept
  <2>2. \A r \in Rows : Changed(b.kids[r], n.kids[r], c.kids[r]) # Absent <=> r = y
    BY <1>5, <1>7, <2>1 DEF Changed, Clash
  <2> QED
    BY <1>4, <2>2 DEF HasOne
<1>8. CASE x # y /\ Ids(c) = Ids(b)
  <2>1. \A r \in Rows : b.kids[r] # Absent <=> r = y
    BY <1>3, <1>8 DEF Ids, Kept
  <2>2. \A r \in Rows : Changed(b.kids[r], n.kids[r], c.kids[r]) # Absent <=> r = x
    BY <1>5, <1>8, <2>1 DEF Changed, Clash
  <2> QED
    BY <1>4, <2>2 DEF HasOne
<1> QED
  BY <1>1, <1>2, <1>3, <1>6, <1>7, <1>8 DEF Clash

-----------------------------------------------------------------------------
(* The runs *)

\* Each side is a shape of its time, the agreement one of its own.
MergeInv ==
    /\ time \in 0 .. MaxEdits
    /\ base \in Shapes(0)
    /\ mine \in Shapes(time)
    /\ theirs \in Shapes(time)

LEMMA MergeInvStarts ==
    ASSUME MergeInit PROVE MergeInv
  BY AgreedAssumption DEF MergeInit, MergeInv

\* One edit, of a side that is a shape of its time.
LEMMA EditedInTime ==
    ASSUME NEW t \in 0 .. MaxEdits, NEW s \in Shapes(t), t < MaxEdits
    PROVE  /\ t + 1 \in 0 .. MaxEdits
           /\ s \in Shapes(t + 1)
           /\ \A e \in Edits(s, t + 1) : e \in Shapes(t + 1)
<1>1. t \in Int /\ t + 1 \in Nat /\ t <= t + 1 /\ t + 1 \in 0 .. MaxEdits
  BY AgreedAssumption
<1>2. s \in Shapes(t + 1)
  BY <1>1, LaterShape
<1> QED
  BY <1>1, <1>2, EditIsShape

LEMMA MergeInvKept ==
    ASSUME MergeInv, [MergeNext]_mergeVars PROVE MergeInv'
<1>1. CASE EditMine
  <2>1. time < MaxEdits /\ time' = time + 1 /\ mine' \in Edits(mine, time + 1) /\ base' = base /\ theirs' = theirs
    BY <1>1 DEF EditMine
  <2> QED
    BY <2>1, EditedInTime DEF MergeInv
<1>2. CASE EditTheirs
  <2>1. time < MaxEdits /\ time' = time + 1 /\ theirs' \in Edits(theirs, time + 1) /\ base' = base /\ mine' = mine
    BY <1>2 DEF EditTheirs
  <2> QED
    BY <2>1, EditedInTime DEF MergeInv
<1>3. CASE UNCHANGED mergeVars
  BY <1>3 DEF MergeInv, mergeVars
<1> QED
  BY <1>1, <1>2, <1>3 DEF MergeNext

\* All three are shapes of the time now.
LEMMA InvShapes ==
    ASSUME MergeInv
    PROVE  /\ time \in Nat
           /\ base \in Shapes(time) /\ mine \in Shapes(time) /\ theirs \in Shapes(time)
<1>1. time \in Nat /\ 0 <= time /\ base \in Shapes(0)
  BY AgreedAssumption DEF MergeInv
<1>2. base \in Shapes(time)
  BY <1>1, LaterShape
<1> QED
  BY <1>1, <1>2 DEF MergeInv

LEMMA InvType ==
    ASSUME MergeInv PROVE MergeTypeOK
<1>1. time \in 0 .. MaxEdits /\ time \in Int /\ MaxEdits \in Int /\ time <= MaxEdits
  BY AgreedAssumption DEF MergeInv
<1>2. \A s \in Shapes(time) : s \in Shapes(MaxEdits)
  BY <1>1, LaterShape
<1>3. Merges => Merged \in Shapes(time)
  BY InvShapes, NotRefused, MergeIsShape DEF Merges, Merged
<1> QED
  BY <1>1, <1>2, <1>3, InvShapes DEF MergeTypeOK

LEMMA InvAgrees ==
    ASSUME MergeInv PROVE PushesAgree
<1>1. Merged.updated = mergeNodeShape(base, theirs, mine).updated
  <2>1. base.updated \in 0 .. 0 /\ mine.updated \in 0 .. time /\ theirs.updated \in 0 .. time
    BY ShapeFields DEF MergeInv
  <2>2. /\ base.updated \in Int /\ mine.updated \in Int /\ theirs.updated \in Int
        /\ base.updated <= mine.updated /\ base.updated <= theirs.updated
    BY <2>1
  <2> QED
    BY <2>2, LaterEitherWay DEF Merged
<1>2. OneValueStaysOne
  BY OneIsLeft DEF OneValueStaysOne, Merges, Merged, OneValue
<1>3. SentAgain
  BY InvShapes, MergedAgain DEF SentAgain, Merges, Merged
<1> QED
  BY <1>1, <1>2, <1>3, RefusedEitherWay, SameEitherWay DEF PushesAgree, Merges, Merged

\* Which side pushes first makes no difference to what is refused, nor to the fields and
\* the children the merge leaves; the one value of a node stays one, and a push whose
\* answer was lost may be sent again (mergeNodeShape).
THEOREM EitherOrder == MergeSpec => []PushesAgree
<1>1. MergeInit => MergeInv
  BY MergeInvStarts
<1>2. MergeInv /\ [MergeNext]_mergeVars => MergeInv'
  BY MergeInvKept
<1>3. MergeInv => PushesAgree
  BY InvAgrees
<1> QED
  BY <1>1, <1>2, <1>3, PTL DEF MergeSpec

\* However the two sides were edited, what merging them leaves is a shape whose order
\* lists each of its rows once (mergeNodeShape, the order its last part puts together).
THEOREM MergedIsShape == MergeSpec => []MergeTypeOK
<1>1. MergeInit => MergeInv
  BY MergeInvStarts
<1>2. MergeInv /\ [MergeNext]_mergeVars => MergeInv'
  BY MergeInvKept
<1>3. MergeInv => MergeTypeOK
  BY InvType
<1> QED
  BY <1>1, <1>2, <1>3, PTL DEF MergeSpec

-----------------------------------------------------------------------------
(* The six of them side by side *)

\* A step of all is a step of one, or of none, as each of them sees it.
LEMMA StepOfEach ==
    ASSUME [Next]_vars
    PROVE  /\ [DeviceNext]_deviceVars /\ [InviteNext]_inviteVars /\ [TokenNext]_tokenVars
           /\ [MergeNext]_mergeVars /\ [RelayNext]_relayVars /\ [HistoryNext]_historyVars
<1>1. CASE UNCHANGED vars
  BY <1>1 DEF vars
<1>2. CASE DeviceNext /\ UNCHANGED <<inviteVars, tokenVars, mergeVars, relayVars, historyVars>>
  BY <1>2
<1>3. CASE part \in Invites /\ InviteStep(part) /\ UNCHANGED <<deviceVars, tokenVars, mergeVars, relayVars, historyVars>>
  <2>1. InviteNext
    BY <1>3 DEF InviteNext
  <2> QED
    BY <1>3, <2>1
<1>4. CASE /\ \E u \in IF part = "steady" THEN Steady ELSE TokenUsers \ Steady : TokenStep(u)
           /\ UNCHANGED <<deviceVars, inviteVars, mergeVars, relayVars, historyVars>>
  <2>1. PICK u \in TokenUsers : TokenStep(u)
    BY <1>4, TokenAssumption
  <2>2. TokenNext
    BY <2>1 DEF TokenNext
  <2> QED
    BY <1>4, <2>2
<1>5. CASE MergeNext /\ UNCHANGED <<deviceVars, inviteVars, tokenVars, relayVars, historyVars>>
  BY <1>5
<1>6. CASE RelayNext /\ UNCHANGED <<deviceVars, inviteVars, tokenVars, mergeVars, historyVars>>
  BY <1>6
<1>7. CASE HistoryNext /\ UNCHANGED <<deviceVars, inviteVars, tokenVars, mergeVars, relayVars>>
  BY <1>7
<1> QED
  BY <1>1, <1>2, <1>3, <1>4, <1>5, <1>6, <1>7 DEF Next

\* Whichever part a behaviour of the six side by side exercises, each of them behaves as
\* its own specification says: what is proved of one holds of all of them together.
THEOREM EachOfTheServices ==
    Spec => DeviceSpec /\ InviteSpec /\ TokenSpec /\ MergeSpec /\ RelaySpec /\ HistorySpec
<1>1. Init => DeviceInit /\ InviteInit /\ TokenInit /\ MergeInit /\ RelayInit /\ HistoryInit
  BY DEF Init
<1>2. [Next]_vars => /\ [DeviceNext]_deviceVars /\ [InviteNext]_inviteVars /\ [TokenNext]_tokenVars
                     /\ [MergeNext]_mergeVars /\ [RelayNext]_relayVars /\ [HistoryNext]_historyVars
  BY StepOfEach
<1> QED
  BY <1>1, <1>2, PTL DEF Spec, DeviceSpec, InviteSpec, TokenSpec, MergeSpec, RelaySpec, HistorySpec

\* Every code, invite, balance, shape, connection and tree is such as the code writes it.
THEOREM ServicesTypes == Spec => []ServicesTypeOK
<1>1. DeviceInv => DeviceTypeOK
  BY DEF DeviceInv
<1>2. RelayInv => RelayTypeOK
  BY DEF RelayInv
<1>3. DeviceTypeOK /\ InviteTypeOK /\ TokenTypeOK /\ MergeTypeOK /\ RelayTypeOK /\ HistoryTypeOK => ServicesTypeOK
  BY DEF ServicesTypeOK
<1> QED
  BY <1>1, <1>2, <1>3, EachOfTheServices, DeviceInvariant, OnlyApproved, TokensKept, MergedIsShape,
     WaitsForOpen, HistoryTypes, PTL
=============================================================================
