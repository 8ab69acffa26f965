-------------------------- MODULE NodeSync_proofs ---------------------------
(***************************************************************************)
(* For any devices, masks, fields and rows, and however many edits and     *)
(* broken rounds there are: a round replaces nothing its user changed,     *)
(* unless an earlier push was answered without what it pushed; and no row  *)
(* goes unless somebody who could see it deleted it.  A shape is looked at *)
(* field by field and row by row: what a device, its round and its request *)
(* know of one, then what each step does to it.                            *)
(***************************************************************************)
EXTENDS NodeSync, NodeShapes_proofs

-----------------------------------------------------------------------------
(* The invariant *)

\* Row c is in one shape and not in the other.
Lost(one, other, c) == one.kids[c] # Absent /\ other.kids[c] = Absent

\* Someone who sees the row deleted it.
Gone(c) == \E d \in Devices : c \in deleted[d] /\ c \in Mask[d].rows

\* No field and no row that d does not see.
OnlySeen(s, d) ==
    /\ \A f \in Fields : f \notin Mask[d].fields => s.data[f] = Absent
    /\ \A c \in Rows : c \notin Mask[d].rows => s.kids[c] = Absent

\* What d sees is the same in both.
SameSeen(s, t, d) ==
    /\ \A f \in Fields : f \in Mask[d].fields => s.data[f] = t.data[f]
    /\ \A c \in Rows : c \in Mask[d].rows => s.kids[c] = t.kids[c]

OverDevices ==
    /\ shape = [d \in Devices |-> shape[d]]
    /\ agreed = [d \in Devices |-> agreed[d]]
    /\ round = [d \in Devices |-> round[d]]
    /\ request = [d \in Devices |-> request[d]]
    /\ deleted = [d \in Devices |-> deleted[d]]

\* A round goes by what is still agreed.
PlanFits(d) == round[d] # Idle =>
    /\ round[d] = [stage |-> round[d].stage, push |-> round[d].push, local |-> round[d].local,
                   baseline |-> Baseline(d), previousRemote |-> PreviousRemote(d)]
    /\ round[d].push \in BOOLEAN

\* What comes from the provider is masked, and what is agreed is the same on both sides
\* unless a push was answered without what it pushed.
Masked(d) ==
    /\ OnlySeen(PreviousRemote(d), d)
    /\ request[d].stage = "answered" => OnlySeen(request[d].answer, d)
InStep(d) == d \notin missed => SameSeen(Baseline(d), PreviousRemote(d), d)

\* A row that was agreed on, asked for or answered and is not there now is gone.
RowsKnown(d) == \A c \in Mask[d].rows :
    /\ Lost(Baseline(d), shape[d], c) => Gone(c)
    /\ Lost(PreviousRemote(d), shape[d], c) => Gone(c)
    /\ Lost(PreviousRemote(d), provided, c) => Gone(c)
RowsPlanned(d) == round[d] # Idle => \A c \in Mask[d].rows :
    /\ Lost(round[d].local, shape[d], c) => Gone(c)
    /\ Lost(Baseline(d), round[d].local, c) => Gone(c)
RowsAnswered(d) == request[d].stage = "answered" => \A c \in Mask[d].rows :
    /\ Lost(request[d].answer, provided, c) => Gone(c)
    /\ Lost(PreviousRemote(d), request[d].answer, c) => Gone(c)
RowsSent(update) == \A c \in Rows : Lost(update.base, update.value, c) => Gone(c)

DeviceKnows(d) ==
    /\ PlanFits(d) /\ Masked(d) /\ InStep(d)
    /\ RowsKnown(d) /\ RowsPlanned(d) /\ RowsAnswered(d)
    /\ request[d].stage = "update" => RowsSent(request[d])

SyncInv ==
    /\ time \in Nat
    /\ OverDevices
    /\ \A d \in Devices : DeviceKnows(d)
    /\ \A u \in stray : u.by \in Devices /\ RowsSent(u.update)

-----------------------------------------------------------------------------
(* What is not the device's own step *)

\* What was deleted stays so.
LEMMA GoneStays ==
    ASSUME NEW c, \A d \in Devices : deleted[d] \subseteq deleted'[d]
    PROVE  Gone(c) => Gone(c)'
  BY DEF Gone

\* A step of someone else's, after which the provider lacks only rows that are gone.
LEMMA OthersStep ==
    ASSUME NEW e \in Devices, DeviceKnows(e),
           shape'[e] = shape[e], agreed'[e] = agreed[e], round'[e] = round[e], request'[e] = request[e],
           missed \subseteq missed', \A d \in Devices : deleted[d] \subseteq deleted'[d],
           \A c \in Rows : Lost(provided, provided', c) => Gone(c)'
    PROVE  DeviceKnows(e)'
<1>1. Baseline(e)' = Baseline(e) /\ PreviousRemote(e)' = PreviousRemote(e)
  BY DEF Baseline, PreviousRemote
<1>2. \A c : Gone(c) => Gone(c)'
  BY GoneStays
<1>3. \A c \in Mask[e].rows : c \in Rows
  BY DevicesAssumption
<1>4. PlanFits(e)'
  BY <1>1 DEF DeviceKnows, PlanFits
<1>5. Masked(e)'
  BY <1>1 DEF DeviceKnows, Masked
<1>6. InStep(e)'
  BY <1>1 DEF DeviceKnows, InStep
<1>7. RowsKnown(e)'
  BY <1>1, <1>2, <1>3 DEF DeviceKnows, RowsKnown, Lost
<1>8. RowsPlanned(e)'
  BY <1>1, <1>2 DEF DeviceKnows, RowsPlanned
<1>9. RowsAnswered(e)'
  BY <1>1, <1>2, <1>3 DEF DeviceKnows, RowsAnswered, Lost
<1>10. request'[e].stage = "update" => RowsSent(request[e])'
  BY <1>2 DEF DeviceKnows, RowsSent
<1> QED
  BY <1>4, <1>5, <1>6, <1>7, <1>8, <1>9, <1>10 DEF DeviceKnows

-----------------------------------------------------------------------------
(* The device's own steps *)

\* An edit takes no row away that is not marked as deleted.
LEMMA EditKeeps ==
    ASSUME SyncInv, NEW d \in Devices, Edit(d)
    PROVE  SyncInv'
<1>1. PICK s : /\ shape' = [shape EXCEPT ![d] = s]
               /\ deleted' = [deleted EXCEPT ![d] = @ \cup (Ids(shape[d]) \ Ids(s))]
  BY DEF Edit
<1>2. UNCHANGED <<provided, agreed, round, request, stray, missed>>
  BY DEF Edit
<1>3. /\ shape'[d] = s /\ \A e \in Devices \ {d} : shape'[e] = shape[e]
      /\ \A e \in Devices : deleted[e] \subseteq deleted'[e]
      /\ Ids(shape[d]) \ Ids(s) \subseteq deleted'[d]
      /\ OverDevices'
  BY <1>1, <1>2 DEF SyncInv, OverDevices
<1>4. \A c : Gone(c) => Gone(c)'
  BY <1>3, GoneStays
<1>5. \A c \in Mask[d].rows : Lost(shape[d], s, c) => Gone(c)'
  BY <1>3, DevicesAssumption DEF Lost, Ids, Kept, Gone
<1>6. ASSUME NEW e \in Devices \ {d} PROVE DeviceKnows(e)'
  BY <1>2, <1>3, OthersStep DEF SyncInv, Lost
<1>7. DeviceKnows(d)'
  <2>1. Baseline(d)' = Baseline(d) /\ PreviousRemote(d)' = PreviousRemote(d)
    BY <1>2 DEF Baseline, PreviousRemote
  <2>2. PlanFits(d)' /\ Masked(d)' /\ InStep(d)'
    BY <1>2, <2>1 DEF SyncInv, DeviceKnows, PlanFits, Masked, InStep
  <2>3. RowsKnown(d)'
    BY <1>2, <1>3, <1>4, <1>5, <2>1 DEF SyncInv, DeviceKnows, RowsKnown, Lost
  <2>4. RowsPlanned(d)'
    BY <1>2, <1>3, <1>4, <1>5, <2>1 DEF SyncInv, DeviceKnows, RowsPlanned, Lost
  <2>5. RowsAnswered(d)' /\ (request'[d].stage = "update" => RowsSent(request[d])')
    BY <1>2, <1>4, <2>1 DEF SyncInv, DeviceKnows, RowsAnswered, RowsSent
  <2> QED
    BY <2>2, <2>3, <2>4, <2>5 DEF DeviceKnows
<1>8. \A u \in stray' : u.by \in Devices /\ RowsSent(u.update)'
  BY <1>2, <1>4 DEF SyncInv, RowsSent
<1>9. time' \in Nat
  BY DEF SyncInv, Edit
<1> QED
  BY <1>3, <1>6, <1>7, <1>8, <1>9 DEF SyncInv

\* What changed is the round and the request of d alone, and the provider as OthersStep says.
LEMMA OwnStep ==
    ASSUME SyncInv, NEW d \in Devices, DeviceKnows(d)', OverDevices',
           \A e \in Devices \ {d} : /\ shape'[e] = shape[e] /\ agreed'[e] = agreed[e]
                                    /\ round'[e] = round[e] /\ request'[e] = request[e],
           missed \subseteq missed', deleted' = deleted,
           \A c \in Rows : Lost(provided, provided', c) => Gone(c)',
           \A u \in stray' : u.by \in Devices /\ RowsSent(u.update), time' = time
    PROVE  SyncInv'
<1>1. \A e \in Devices \ {d} : DeviceKnows(e)'
  BY OthersStep DEF SyncInv
<1>2. \A u \in stray' : u.by \in Devices /\ RowsSent(u.update)'
  BY DEF RowsSent, Gone
<1> QED
  BY <1>1, <1>2 DEF SyncInv

LEMMA PlanKeeps ==
    ASSUME SyncInv, NEW d \in Devices, NEW push \in BOOLEAN, planNodeSync(d, push)
    PROVE  SyncInv'
<1>1. /\ round' = [round EXCEPT ![d] =
            [stage |-> "asked", push |-> push, local |-> shape[d],
             baseline |-> Baseline(d), previousRemote |-> PreviousRemote(d)]]
      /\ request' = [request EXCEPT ![d] = [stage |-> "ask"]]
      /\ UNCHANGED <<provided, shape, agreed, stray, deleted, missed, time>>
  BY DEF planNodeSync, users
<1>2. /\ round'[d] = [stage |-> "asked", push |-> push, local |-> shape[d],
                      baseline |-> Baseline(d), previousRemote |-> PreviousRemote(d)]
      /\ request'[d].stage = "ask"
      /\ \A e \in Devices \ {d} : round'[e] = round[e] /\ request'[e] = request[e]
      /\ OverDevices'
  BY <1>1 DEF SyncInv, OverDevices
<1>3. Baseline(d)' = Baseline(d) /\ PreviousRemote(d)' = PreviousRemote(d)
  BY <1>1 DEF Baseline, PreviousRemote
<1>4. \A c : Gone(c)' <=> Gone(c)
  BY <1>1 DEF Gone
<1>5. DeviceKnows(d)
  BY DEF SyncInv
<1>6. DeviceKnows(d)'
  <2>1. PlanFits(d)'
    BY <1>2, <1>3 DEF PlanFits
  <2>2. Masked(d)' /\ InStep(d)'
    BY <1>1, <1>2, <1>3, <1>5 DEF DeviceKnows, Masked, InStep
  <2>3. RowsKnown(d)'
    BY <1>1, <1>3, <1>4, <1>5 DEF DeviceKnows, RowsKnown
  <2>4. RowsPlanned(d)'
    BY <1>1, <1>2, <1>3, <1>4, <1>5 DEF DeviceKnows, RowsPlanned, RowsKnown, Lost
  <2>5. RowsAnswered(d)' /\ (request'[d].stage = "update" => RowsSent(request[d])')
    BY <1>2 DEF RowsAnswered
  <2> QED
    BY <2>1, <2>2, <2>3, <2>4, <2>5 DEF DeviceKnows
<1> QED
  BY <1>1, <1>2, <1>6, OwnStep DEF SyncInv, Lost

\* A round that ends without installing anything.
LEMMA EndKeeps ==
    ASSUME SyncInv, NEW d \in Devices, EndRound(d),
           UNCHANGED <<provided, shape, agreed, deleted, time>>, missed \subseteq missed',
           \A u \in stray' : u.by \in Devices /\ RowsSent(u.update)
    PROVE  SyncInv'
<1>1. /\ round'[d] = Idle /\ request'[d].stage = "none"
      /\ \A e \in Devices \ {d} : round'[e] = round[e] /\ request'[e] = request[e]
      /\ OverDevices'
  BY DEF EndRound, SyncInv, OverDevices, Nothing
<1>2. Baseline(d)' = Baseline(d) /\ PreviousRemote(d)' = PreviousRemote(d)
  BY DEF Baseline, PreviousRemote
<1>3. \A c : Gone(c)' <=> Gone(c)
  BY DEF Gone
<1>4. DeviceKnows(d)'
  BY <1>1, <1>2, <1>3 DEF SyncInv, DeviceKnows, PlanFits, Masked, InStep, RowsKnown, RowsPlanned, RowsAnswered
<1> QED
  BY <1>1, <1>4, OwnStep DEF Lost

\* What is to be known of d after its round has ended.
LEMMA EndedKnows ==
    ASSUME NEW d \in Devices, round'[d] = Idle, request'[d].stage = "none",
           Masked(d)', InStep(d)', RowsKnown(d)'
    PROVE  DeviceKnows(d)'
  BY DEF DeviceKnows, PlanFits, RowsPlanned, RowsAnswered

\* An answer d may finish with: that of a push has what was pushed, or d counts as missed.
Has(d, answer) ==
    /\ \A f \in Fields : f \in Mask[d].fields =>
          round[d].local.data[f] \in {Baseline(d).data[f], answer.data[f]}
    /\ \A c \in Rows : c \in Mask[d].rows =>
          round[d].local.kids[c] \in {Baseline(d).kids[c], answer.kids[c]}

\* What finishing does, when it is not refused.
FinishedWith(d, remote) ==
    /\ ~RefusedHere(round[d], remote, shape[d])
    /\ shape'[d] = Installed(round[d], remote, shape[d])
    /\ Baseline(d)' = Accepted(round[d], remote)
    /\ PreviousRemote(d)' = remote

LEMMA FinishCases ==
    ASSUME SyncInv, NEW d \in Devices, NEW remote, finishNodeSync(d, remote)
    PROVE  /\ EndRound(d)
           /\ \/ UNCHANGED <<shape, agreed>>
              \/ FinishedWith(d, remote)
           /\ \A e \in Devices \ {d} : shape'[e] = shape[e] /\ agreed'[e] = agreed[e]
           /\ shape' = [e \in Devices |-> shape'[e]]
           /\ agreed' = [e \in Devices |-> agreed'[e]]
<1>1. CASE RefusedHere(round[d], remote, shape[d])
  BY <1>1 DEF finishNodeSync, SyncInv, OverDevices
<1>2. CASE ~RefusedHere(round[d], remote, shape[d])
  <2>1. /\ shape' = [shape EXCEPT ![d] = Installed(round[d], remote, shape[d])]
        /\ agreed' = [agreed EXCEPT ![d] =
              [stage |-> "agreed", local |-> Accepted(round[d], remote), remote |-> remote]]
        /\ EndRound(d)
    BY <1>2 DEF finishNodeSync
  <2>2. agreed'[d] = [stage |-> "agreed", local |-> Accepted(round[d], remote), remote |-> remote]
    BY <2>1 DEF SyncInv, OverDevices
  <2>3. agreed'[d] # Nothing
    BY <2>2 DEF Nothing
  <2>4. Baseline(d)' = Accepted(round[d], remote) /\ PreviousRemote(d)' = remote
    BY <2>2, <2>3 DEF Baseline, PreviousRemote
  <2> QED
    BY <1>2, <2>1, <2>4 DEF SyncInv, OverDevices, FinishedWith
<1> QED
  BY <1>1, <1>2

\* What finishing leaves of one field and of one row.
LEMMA FinishedValues ==
    ASSUME NEW d \in Devices, NEW remote, PlanFits(d), round[d] # Idle, FinishedWith(d, remote)
    PROVE  /\ round[d].push =>
                /\ \A f \in Fields :
                      LET l == round[d].local.data[f]
                          a == Changed(PreviousRemote(d).data[f], remote.data[f], l)
                      IN  /\ ~Clash(PreviousRemote(d).data[f], remote.data[f], l)
                          /\ ~Clash(l, a, shape[d].data[f])
                          /\ Baseline(d)'.data[f] = a
                          /\ shape'[d].data[f] = Changed(l, a, shape[d].data[f])
                /\ \A c \in Rows :
                      LET l == round[d].local.kids[c]
                          a == Changed(PreviousRemote(d).kids[c], remote.kids[c], l)
                      IN  /\ ~Clash(PreviousRemote(d).kids[c], remote.kids[c], l)
                          /\ ~Clash(l, a, shape[d].kids[c])
                          /\ Baseline(d)'.kids[c] = a
                          /\ shape'[d].kids[c] = Changed(l, a, shape[d].kids[c])
           /\ ~round[d].push =>
                /\ Baseline(d)' = remote
                /\ \A f \in Fields :
                      /\ ~Clash(PreviousRemote(d).data[f], remote.data[f], shape[d].data[f])
                      /\ shape'[d].data[f] = Changed(PreviousRemote(d).data[f], remote.data[f], shape[d].data[f])
                /\ \A c \in Rows :
                      /\ ~Clash(PreviousRemote(d).kids[c], remote.kids[c], shape[d].kids[c])
                      /\ shape'[d].kids[c] = Changed(PreviousRemote(d).kids[c], remote.kids[c], shape[d].kids[c])
<1>1. round[d].previousRemote = PreviousRemote(d) /\ round[d].push \in BOOLEAN
  BY DEF PlanFits
<1>2. CASE round[d].push
  <2>1. /\ Baseline(d)' = mergeNodeShape(PreviousRemote(d), remote, round[d].local)
        /\ shape'[d] = mergeNodeShape(round[d].local, Baseline(d)', shape[d])
        /\ ~Refused(PreviousRemote(d), remote, round[d].local)
        /\ ~Refused(round[d].local, Baseline(d)', shape[d])
    BY <1>1, <1>2 DEF FinishedWith, Accepted, Installed, RefusedHere
  <2>2. /\ \A f \in Fields : Baseline(d)'.data[f] = Changed(PreviousRemote(d).data[f], remote.data[f], round[d].local.data[f])
        /\ \A c \in Rows : Baseline(d)'.kids[c] = Changed(PreviousRemote(d).kids[c], remote.kids[c], round[d].local.kids[c])
    BY <2>1 DEF mergeNodeShape, MergedKids
  <2>3. /\ \A f \in Fields : shape'[d].data[f] = Changed(round[d].local.data[f], Baseline(d)'.data[f], shape[d].data[f])
        /\ \A c \in Rows : shape'[d].kids[c] = Changed(round[d].local.kids[c], Baseline(d)'.kids[c], shape[d].kids[c])
    BY <2>1 DEF mergeNodeShape, MergedKids
  <2>4. /\ \A f \in Fields : /\ ~Clash(PreviousRemote(d).data[f], remote.data[f], round[d].local.data[f])
                             /\ ~Clash(round[d].local.data[f], Baseline(d)'.data[f], shape[d].data[f])
        /\ \A c \in Rows : /\ ~Clash(PreviousRemote(d).kids[c], remote.kids[c], round[d].local.kids[c])
                           /\ ~Clash(round[d].local.kids[c], Baseline(d)'.kids[c], shape[d].kids[c])
    BY <2>1 DEF Refused
  <2> QED
    BY <1>2, <2>2, <2>3, <2>4
<1>3. CASE ~round[d].push
  <2>1. /\ Baseline(d)' = remote
        /\ shape'[d] = mergeNodeShape(PreviousRemote(d), remote, shape[d])
        /\ ~Refused(PreviousRemote(d), remote, shape[d])
    BY <1>1, <1>3 DEF FinishedWith, Accepted, Installed, RefusedHere
  <2> QED
    BY <1>3, <2>1 DEF mergeNodeShape, MergedKids, Refused
<1> QED
  BY <1>1, <1>2, <1>3

\* Where d sees a value its two agreed values are the same, and where it does not the
\* provider says nothing.
LEMMA AgreedOrUntold ==
    ASSUME NEW d \in Devices, Masked(d), InStep(d), d \notin missed, NEW remote, OnlySeen(remote, d)
    PROVE  /\ \A f \in Fields : \/ Baseline(d).data[f] = PreviousRemote(d).data[f]
                                \/ remote.data[f] = PreviousRemote(d).data[f]
           /\ \A c \in Rows : \/ Baseline(d).kids[c] = PreviousRemote(d).kids[c]
                              \/ remote.kids[c] = PreviousRemote(d).kids[c]
  BY DEF Masked, InStep, OnlySeen, SameSeen

\* Finishing keeps what was changed here.
LEMMA FinishKeepsChanges ==
    ASSUME NEW d \in Devices, NEW remote, PlanFits(d), Masked(d), InStep(d), d \notin missed,
           OnlySeen(remote, d), round[d] # Idle, FinishedWith(d, remote)
    PROVE  ChangesKept(d)
<1>1. round[d].push \in BOOLEAN
  BY DEF PlanFits
<1>2. /\ \A f \in Fields : \/ Baseline(d).data[f] = PreviousRemote(d).data[f]
                           \/ remote.data[f] = PreviousRemote(d).data[f]
      /\ \A c \in Rows : \/ Baseline(d).kids[c] = PreviousRemote(d).kids[c]
                         \/ remote.kids[c] = PreviousRemote(d).kids[c]
  BY AgreedOrUntold
<1>3. ASSUME NEW f \in Fields, shape[d].data[f] # Baseline(d).data[f]
      PROVE  shape'[d].data[f] = shape[d].data[f]
  <2>1. CASE round[d].push
    <3> DEFINE l == round[d].local.data[f]
               a == Changed(PreviousRemote(d).data[f], remote.data[f], l)
    <3>1. /\ ~Clash(PreviousRemote(d).data[f], remote.data[f], l) /\ ~Clash(l, a, shape[d].data[f])
          /\ shape'[d].data[f] = Changed(l, a, shape[d].data[f])
      BY <2>1, FinishedValues
    <3> QED
      BY <1>2, <1>3, <3>1 DEF Clash, Changed
  <2>2. CASE ~round[d].push
    <3>1. /\ ~Clash(PreviousRemote(d).data[f], remote.data[f], shape[d].data[f])
          /\ shape'[d].data[f] = Changed(PreviousRemote(d).data[f], remote.data[f], shape[d].data[f])
      BY <2>2, FinishedValues
    <3> QED
      BY <1>2, <1>3, <3>1 DEF Clash, Changed
  <2> QED
    BY <1>1, <2>1, <2>2
<1>4. ASSUME NEW c \in Rows, shape[d].kids[c] # Baseline(d).kids[c]
      PROVE  shape'[d].kids[c] = shape[d].kids[c]
  <2>1. CASE round[d].push
    <3> DEFINE l == round[d].local.kids[c]
               a == Changed(PreviousRemote(d).kids[c], remote.kids[c], l)
    <3>1. /\ ~Clash(PreviousRemote(d).kids[c], remote.kids[c], l) /\ ~Clash(l, a, shape[d].kids[c])
          /\ shape'[d].kids[c] = Changed(l, a, shape[d].kids[c])
      BY <2>1, FinishedValues
    <3> QED
      BY <1>2, <1>4, <3>1 DEF Clash, Changed
  <2>2. CASE ~round[d].push
    <3>1. /\ ~Clash(PreviousRemote(d).kids[c], remote.kids[c], shape[d].kids[c])
          /\ shape'[d].kids[c] = Changed(PreviousRemote(d).kids[c], remote.kids[c], shape[d].kids[c])
      BY <2>2, FinishedValues
    <3> QED
      BY <1>2, <1>4, <3>1 DEF Clash, Changed
  <2> QED
    BY <1>1, <2>1, <2>2
<1> QED
  BY <1>3, <1>4 DEF ChangesKept

\* After finishing, the two agreed shapes are the same where d sees them.
LEMMA FinishInStep ==
    ASSUME NEW d \in Devices, NEW remote, PlanFits(d), InStep(d), missed \subseteq missed',
           round[d] # Idle, FinishedWith(d, remote),
           d \notin missed' /\ round[d].push => Has(d, remote)
    PROVE  InStep(d)'
<1> SUFFICES ASSUME d \notin missed' PROVE SameSeen(Baseline(d)', remote, d)
  BY DEF InStep, FinishedWith, SameSeen
<1>1. round[d].push \in BOOLEAN
  BY DEF PlanFits
<1>2. CASE round[d].push
  <2>1. Has(d, remote) /\ SameSeen(Baseline(d), PreviousRemote(d), d)
    BY <1>2 DEF InStep
  <2>2. /\ \A f \in Fields : Baseline(d)'.data[f] = Changed(PreviousRemote(d).data[f], remote.data[f], round[d].local.data[f])
        /\ \A c \in Rows : Baseline(d)'.kids[c] = Changed(PreviousRemote(d).kids[c], remote.kids[c], round[d].local.kids[c])
    BY <1>2, FinishedValues
  <2> QED
    BY <2>1, <2>2 DEF Has, SameSeen, Changed
<1>3. CASE ~round[d].push
  BY <1>3, FinishedValues DEF SameSeen
<1> QED
  BY <1>1, <1>2, <1>3

\* A row that finishing takes away, or finds taken away, is gone.
LEMMA FinishRows ==
    ASSUME NEW d \in Devices, PlanFits(d), Masked(d), RowsKnown(d), RowsPlanned(d), RowsAnswered(d),
           request[d].stage = "answered", round[d] # Idle, FinishedWith(d, request[d].answer),
           provided' = provided, deleted' = deleted
    PROVE  /\ RowsKnown(d)'
           /\ \A c \in Rows : Lost(shape[d], shape'[d], c) => Gone(c)
<1> DEFINE remote == request[d].answer
<1>1. round[d].push \in BOOLEAN /\ PreviousRemote(d)' = remote
  BY DEF PlanFits, FinishedWith
<1>2. \A c : Gone(c)' <=> Gone(c)
  BY DEF Gone
<1>3. \A c \in Mask[d].rows : c \in Rows
  BY DevicesAssumption
<1>4. \A c \in Mask[d].rows : /\ Lost(PreviousRemote(d), remote, c) => Gone(c)
                              /\ Lost(remote, provided, c) => Gone(c)
                              /\ Lost(PreviousRemote(d), shape[d], c) => Gone(c)
                              /\ Lost(round[d].local, shape[d], c) => Gone(c)
  BY DEF RowsAnswered, RowsKnown, RowsPlanned
<1>5. \A c \in Rows : c \notin Mask[d].rows => remote.kids[c] = Absent /\ PreviousRemote(d).kids[c] = Absent
  BY DEF Masked, OnlySeen
<1>6. CASE round[d].push
  <2>1. \A c \in Rows :
           /\ Baseline(d)'.kids[c] = Changed(PreviousRemote(d).kids[c], remote.kids[c], round[d].local.kids[c])
           /\ shape'[d].kids[c] = Changed(round[d].local.kids[c], Baseline(d)'.kids[c], shape[d].kids[c])
    BY <1>6, FinishedValues
  <2>2. \A c \in Rows : Lost(shape[d], shape'[d], c) => Gone(c)
    BY <1>4, <1>5, <2>1 DEF Lost, Changed
  <2>3. ASSUME NEW c \in Mask[d].rows
        PROVE  /\ Lost(Baseline(d)', shape'[d], c) => Gone(c)
               /\ Lost(remote, shape'[d], c) => Gone(c)
    BY <1>3, <1>4, <2>1 DEF Lost, Changed
  <2> QED
    BY <1>1, <1>2, <1>4, <2>2, <2>3 DEF RowsKnown, Lost
<1>7. CASE ~round[d].push
  <2>1. \A c \in Rows : shape'[d].kids[c] = Changed(PreviousRemote(d).kids[c], remote.kids[c], shape[d].kids[c])
    BY <1>7, FinishedValues
  <2>2. Baseline(d)' = remote
    BY <1>7, FinishedValues
  <2>3. \A c \in Rows : Lost(shape[d], shape'[d], c) => Gone(c)
    BY <1>4, <1>5, <2>1 DEF Lost, Changed
  <2>4. \A c \in Mask[d].rows : Lost(remote, shape'[d], c) => Gone(c)
    BY <1>3, <1>4, <2>1 DEF Lost, Changed
  <2> QED
    BY <1>1, <1>2, <1>4, <2>2, <2>3, <2>4 DEF RowsKnown, Lost
<1> QED
  BY <1>1, <1>6, <1>7

\* What a step of the rounds or of the provider may do to the shapes.
ShapesKept ==
    /\ \A e \in Devices \ missed : ChangesKept(e)
    /\ \A e \in Devices, c \in Rows : Lost(shape[e], shape'[e], c) => Gone(c)'

LEMMA SameShapesKept ==
    ASSUME shape' = shape PROVE ShapesKept
  BY DEF ShapesKept, ChangesKept, Lost

LEMMA FinishStep ==
    ASSUME SyncInv, NEW d \in Devices, round[d] # Idle, request[d].stage = "answered",
           finishNodeSync(d, request[d].answer),
           UNCHANGED <<provided, deleted, stray, time>>, missed \subseteq missed',
           d \notin missed' /\ round[d].push => Has(d, request[d].answer)
    PROVE  SyncInv' /\ ShapesKept
<1> DEFINE remote == request[d].answer
<1>1. /\ EndRound(d)
      /\ \A e \in Devices \ {d} : shape'[e] = shape[e] /\ agreed'[e] = agreed[e]
      /\ shape' = [e \in Devices |-> shape'[e]] /\ agreed' = [e \in Devices |-> agreed'[e]]
  BY FinishCases
<1>2. CASE UNCHANGED <<shape, agreed>>
  BY <1>1, <1>2, EndKeeps, SameShapesKept DEF SyncInv
<1>3. CASE FinishedWith(d, remote)
  <2>1. PlanFits(d) /\ Masked(d) /\ InStep(d) /\ RowsKnown(d) /\ RowsPlanned(d) /\ RowsAnswered(d)
    BY DEF SyncInv, DeviceKnows
  <2>2. OnlySeen(remote, d)
    BY <2>1 DEF Masked
  <2>3. /\ round'[d] = Idle /\ request'[d].stage = "none"
        /\ \A e \in Devices \ {d} : round'[e] = round[e] /\ request'[e] = request[e]
        /\ OverDevices'
    BY <1>1 DEF EndRound, SyncInv, OverDevices, Nothing
  <2>4. Masked(d)'
    BY <1>3, <2>2, <2>3 DEF Masked, FinishedWith, OnlySeen
  <2>5. InStep(d)'
    BY <1>3, <2>1, FinishInStep
  <2>6. RowsKnown(d)' /\ \A c \in Rows : Lost(shape[d], shape'[d], c) => Gone(c)
    BY <1>3, <2>1, FinishRows
  <2>7. DeviceKnows(d)'
    BY <2>3, <2>4, <2>5, <2>6, EndedKnows
  <2>8. SyncInv'
    BY <1>1, <2>3, <2>7, OwnStep DEF SyncInv, Lost
  <2>9. d \notin missed => ChangesKept(d)
    BY <1>3, <2>1, <2>2, FinishKeepsChanges
  <2>10. ShapesKept
    BY <1>1, <2>6, <2>9 DEF ShapesKept, ChangesKept, Lost, Gone
  <2> QED
    BY <2>8, <2>10
<1> QED
  BY <1>2, <1>3, FinishCases

\* What the first answer leads to: a push that takes away only what was agreed and is not
\* there any more, or the end.
LEMMA PushStep ==
    ASSUME SyncInv, NEW d \in Devices, nodeSyncPush(d)
    PROVE  SyncInv' /\ ShapesKept
<1> DEFINE plan == round[d]
           remote == request[d].answer
           before == Visible(plan.baseline, d)
           after == Visible(plan.local, d)
           value == mergeNodeShape(before, after, remote)
<1>1. /\ plan.stage = "asked" /\ request[d].stage = "answered"
      /\ UNCHANGED <<provided, stray, time, deleted, missed>>
  BY DEF nodeSyncPush, users
<1>2. round[d] # Idle
  BY <1>1 DEF Idle
<1>3. PlanFits(d) /\ Masked(d) /\ InStep(d) /\ RowsKnown(d) /\ RowsPlanned(d) /\ RowsAnswered(d)
  BY DEF SyncInv, DeviceKnows
<1>4. CASE EndRound(d) /\ UNCHANGED <<shape, agreed>>
  BY <1>1, <1>4, EndKeeps, SameShapesKept DEF SyncInv
<1>5. CASE /\ round' = [round EXCEPT ![d].stage = "pushed"]
           /\ request' = [request EXCEPT ![d] = [stage |-> "update", base |-> remote, value |-> value]]
           /\ UNCHANGED <<shape, agreed>>
  <2>1. round[d] = [stage |-> plan.stage, push |-> plan.push, local |-> plan.local,
                    baseline |-> Baseline(d), previousRemote |-> PreviousRemote(d)]
    BY <1>2, <1>3 DEF PlanFits
  <2>2. /\ round'[d] = [round[d] EXCEPT !.stage = "pushed"]
        /\ request'[d] = [stage |-> "update", base |-> remote, value |-> value]
        /\ \A e \in Devices \ {d} : round'[e] = round[e] /\ request'[e] = request[e]
        /\ OverDevices'
    <3>1. /\ round = [e \in Devices |-> round[e]] /\ request = [e \in Devices |-> request[e]]
          /\ deleted' = deleted
      BY <1>1 DEF SyncInv, OverDevices
    <3>2. /\ round'[d] = [round[d] EXCEPT !.stage = "pushed"]
          /\ \A e \in Devices \ {d} : round'[e] = round[e]
          /\ round' = [e \in Devices |-> round'[e]]
      BY <1>5, <3>1
    <3>3. /\ request'[d] = [stage |-> "update", base |-> remote, value |-> value]
          /\ \A e \in Devices \ {d} : request'[e] = request[e]
          /\ request' = [e \in Devices |-> request'[e]]
      <4> HIDE DEF value, remote
      <4> QED
        BY <1>5, <3>1
    <3> QED
      BY <1>5, <3>1, <3>2, <3>3 DEF SyncInv, OverDevices
  <2>3. round'[d] = [stage |-> "pushed", push |-> plan.push, local |-> plan.local,
                     baseline |-> Baseline(d), previousRemote |-> PreviousRemote(d)]
    BY <2>1, <2>2
  <2>4. Baseline(d)' = Baseline(d) /\ PreviousRemote(d)' = PreviousRemote(d)
    BY <1>5 DEF Baseline, PreviousRemote
  <2>5. \A c : Gone(c)' <=> Gone(c)
    BY <1>1 DEF Gone
  <2>6. PlanFits(d)'
    BY <1>2, <1>3, <2>3, <2>4 DEF PlanFits
  <2>7. RowsPlanned(d)'
    BY <1>2, <1>3, <1>5, <2>3, <2>4, <2>5 DEF RowsPlanned
  <2>8. Masked(d)' /\ InStep(d)' /\ RowsKnown(d)' /\ RowsAnswered(d)'
    BY <1>1, <1>3, <1>5, <2>2, <2>4, <2>5 DEF Masked, InStep, RowsKnown, RowsAnswered
  <2>9. RowsSent(request'[d])
    <3>1. ASSUME NEW c \in Rows, remote.kids[c] # Absent, value.kids[c] = Absent PROVE Gone(c)
      <4>1. value.kids[c] = Changed(before.kids[c], after.kids[c], remote.kids[c])
        BY DEF mergeNodeShape, MergedKids
      <4>2. c \in Mask[d].rows
        BY <1>1, <1>3, <3>1 DEF Masked, OnlySeen
      <4>3. before.kids[c] = Baseline(d).kids[c] /\ after.kids[c] = plan.local.kids[c]
        BY <2>1, <4>2 DEF Visible
      <4>4. Lost(Baseline(d), plan.local, c)
        BY <3>1, <4>1, <4>3 DEF Changed, Lost
      <4> QED
        BY <1>2, <1>3, <4>2, <4>4 DEF RowsPlanned
    <3> HIDE DEF value, remote
    <3> QED
      BY <2>2, <3>1 DEF RowsSent, Lost
  <2>10. RowsSent(request[d])'
    BY <2>5, <2>9 DEF RowsSent
  <2>11. DeviceKnows(d)'
    BY <2>6, <2>7, <2>8, <2>10 DEF DeviceKnows
  <2> QED
    BY <1>1, <1>5, <2>2, <2>11, OwnStep, SameShapesKept DEF SyncInv, Lost
<1>6. CASE (~plan.push \/ sameNodeShape(before, after)) /\ finishNodeSync(d, remote)
  <2>1. plan.push => Has(d, remote)
    <3> SUFFICES ASSUME plan.push PROVE Has(d, remote)
      OBVIOUS
    <3>1. before = after /\ plan.baseline = Baseline(d)
      BY <1>2, <1>3, <1>6 DEF sameNodeShape, PlanFits
    <3>2. /\ \A f \in Fields : before.data[f] = after.data[f]
          /\ \A c \in Rows : before.kids[c] = after.kids[c]
      BY <3>1
    <3> QED
      BY <3>1, <3>2 DEF Visible, Has
  <2> QED
    BY <1>1, <1>2, <1>6, <2>1, FinishStep
<1> QED
  BY <1>4, <1>5, <1>6 DEF nodeSyncPush

\* An answer that does not lack what was pushed has it.
LEMMA HasUnlessLacking ==
    ASSUME NEW d \in Devices, NEW answer, PlanFits(d), round[d] # Idle, ~Lacks(d, answer)
    PROVE  Has(d, answer)
<1>1. round[d].baseline = Baseline(d)
  BY DEF PlanFits
<1> QED
  BY <1>1 DEF Lacks, Visible, Has

LEMMA FinishingStep ==
    ASSUME SyncInv, NEW d \in Devices, Finish(d)
    PROVE  SyncInv' /\ ShapesKept
<1>1. round[d].stage = "pushed" /\ UNCHANGED <<provided, stray, time, deleted>>
  BY DEF Finish, users
<1>2. round[d] # Idle
  BY <1>1 DEF Idle
<1>3. CASE /\ request[d].stage = "answered"
           /\ missed' = missed \cup {e \in {d} : Lacks(d, request[d].answer)}
           /\ finishNodeSync(d, request[d].answer)
  <2>1. d \notin missed' => Has(d, request[d].answer)
    BY <1>2, <1>3, HasUnlessLacking DEF SyncInv, DeviceKnows
  <2> QED
    BY <1>1, <1>2, <1>3, <2>1, FinishStep
<1>4. CASE EndRound(d) /\ UNCHANGED <<shape, agreed, missed>>
  BY <1>1, <1>4, EndKeeps, SameShapesKept DEF SyncInv
<1> QED
  BY <1>3, <1>4 DEF Finish

\* A broken round leaves its update, if any, as it was.
LEMMA BreakStep ==
    ASSUME SyncInv, NEW d \in Devices, BreakOff(d)
    PROVE  SyncInv' /\ ShapesKept
<1>1. /\ EndRound(d) /\ UNCHANGED <<provided, shape, agreed, time, deleted, missed>>
      /\ stray' \in {stray, stray \cup {u \in {[by |-> d, update |-> request[d]]} :
                                            request[d].stage = "update"}}
  BY DEF BreakOff, users
<1>2. request[d].stage = "update" => RowsSent(request[d])
  BY DEF SyncInv, DeviceKnows
<1>3. \A u \in stray' : u.by \in Devices /\ RowsSent(u.update)
  BY <1>1, <1>2 DEF SyncInv
<1> QED
  BY <1>1, <1>3, EndKeeps, SameShapesKept

\* The provider loses a row only to an update that takes it away.
LEMMA ExchangeTakes ==
    ASSUME NEW d \in Devices, NEW update, RowsSent(update), exchangeNode(d, update)
    PROVE  \A c \in Rows : Lost(provided, provided', c) => Gone(c)
<1>1. CASE provided' = provided
  BY <1>1 DEF Lost
<1>2. CASE provided' = MergedHere(d, update)
  <2> SUFFICES ASSUME NEW c \in Rows, Lost(provided, provided', c) PROVE Gone(c)
    OBVIOUS
  <2> DEFINE served == Visible(provided, d)
             merged == mergeNodeShape(update.base, update.value, served)
  <2>1. provided'.kids[c] = Changed(served.kids[c], merged.kids[c], provided.kids[c])
    BY <1>2 DEF MergedHere, mergeNodeShape, MergedKids
  <2>2. merged.kids[c] = Changed(update.base.kids[c], update.value.kids[c], served.kids[c])
    BY DEF mergeNodeShape, MergedKids
  <2>3. Lost(update.base, update.value, c)
    <3> HIDE DEF merged, served
    <3> QED
      BY <2>1, <2>2 DEF Changed, Lost
  <2> QED
    BY <2>3 DEF RowsSent
<1> QED
  BY <1>1, <1>2 DEF exchangeNode

LEMMA AskStep ==
    ASSUME SyncInv, NEW d \in Devices, ServeAsk(d)
    PROVE  SyncInv' /\ ShapesKept
<1>1. /\ request' = [request EXCEPT ![d] = [stage |-> "answered", answer |-> Visible(provided, d)]]
      /\ UNCHANGED <<provided, shape, agreed, round, stray, time, deleted, missed>>
  BY DEF ServeAsk, users
<1>2. /\ request'[d] = [stage |-> "answered", answer |-> Visible(provided, d)]
      /\ \A e \in Devices \ {d} : request'[e] = request[e]
      /\ OverDevices'
  <2> DEFINE answer == Visible(provided, d)
  <2> HIDE DEF answer
  <2>1. request' = [request EXCEPT ![d] = [stage |-> "answered", answer |-> answer]]
    BY <1>1 DEF answer
  <2>2. /\ request'[d] = [stage |-> "answered", answer |-> answer]
        /\ \A e \in Devices \ {d} : request'[e] = request[e]
        /\ OverDevices'
    BY <1>1, <2>1 DEF SyncInv, OverDevices
  <2> QED
    BY <2>2 DEF answer
<1>3. Baseline(d)' = Baseline(d) /\ PreviousRemote(d)' = PreviousRemote(d)
  BY <1>1 DEF Baseline, PreviousRemote
<1>4. \A c : Gone(c)' <=> Gone(c)
  BY <1>1 DEF Gone
<1>5. DeviceKnows(d)
  BY DEF SyncInv
<1>6. request'[d].stage = "answered" /\ request'[d].answer = Visible(provided, d)
  BY <1>2
<1>7. /\ OnlySeen(Visible(provided, d), d)
      /\ \A c \in Mask[d].rows : Visible(provided, d).kids[c] = provided.kids[c]
  BY DevicesAssumption DEF Visible, OnlySeen
<1>8. DeviceKnows(d)'
  <2>1. PlanFits(d)' /\ InStep(d)' /\ RowsPlanned(d)' /\ RowsKnown(d)'
    BY <1>1, <1>3, <1>4, <1>5 DEF DeviceKnows, PlanFits, InStep, RowsPlanned, RowsKnown
  <2>2. Masked(d)'
    BY <1>3, <1>5, <1>6, <1>7 DEF DeviceKnows, Masked
  <2>3. RowsAnswered(d)'
    BY <1>1, <1>3, <1>4, <1>5, <1>6, <1>7 DEF DeviceKnows, RowsKnown, RowsAnswered, Lost
  <2> QED
    BY <1>6, <2>1, <2>2, <2>3 DEF DeviceKnows
<1> QED
  BY <1>1, <1>2, <1>8, OwnStep, SameShapesKept DEF SyncInv, Lost

LEMMA UpdateStep ==
    ASSUME SyncInv, NEW d \in Devices, ServeUpdate(d)
    PROVE  /\ SyncInv' /\ ShapesKept
           /\ \A c \in Rows : Lost(provided, provided', c) => Gone(c)'
<1>1. /\ request[d].stage = "update" /\ exchangeNode(d, request[d])
      /\ UNCHANGED <<shape, agreed, round, stray, time, deleted, missed>>
  BY DEF ServeUpdate, users
<1>2. \A c : Gone(c)' <=> Gone(c)
  BY <1>1 DEF Gone
<1>3. DeviceKnows(d)
  BY DEF SyncInv
<1>4. \A c \in Rows : Lost(provided, provided', c) => Gone(c)
  BY <1>1, <1>3, ExchangeTakes DEF DeviceKnows
<1>5. /\ \/ request'[d] = [stage |-> "refused"]
         \/ request'[d] = [stage |-> "answered", answer |-> Visible(provided', d)]
      /\ \A e \in Devices \ {d} : request'[e] = request[e]
      /\ OverDevices'
  <2> DEFINE answer == Visible(provided', d)
             refused == RefusedThere(d, request[d])
  <2>1. request' = [request EXCEPT ![d] = IF refused THEN [stage |-> "refused"]
                                          ELSE [stage |-> "answered", answer |-> answer]]
    BY DEF ServeUpdate
  <2> HIDE DEF answer, refused
  <2>2. /\ \/ request'[d] = [stage |-> "refused"]
           \/ request'[d] = [stage |-> "answered", answer |-> answer]
        /\ \A e \in Devices \ {d} : request'[e] = request[e]
        /\ OverDevices'
    BY <1>1, <2>1 DEF SyncInv, OverDevices
  <2> QED
    BY <2>2 DEF answer
<1>6. Baseline(d)' = Baseline(d) /\ PreviousRemote(d)' = PreviousRemote(d)
  BY <1>1 DEF Baseline, PreviousRemote
<1>7. /\ request'[d].stage # "update"
      /\ request'[d].stage = "answered" => request'[d].answer = Visible(provided', d)
  BY <1>5
<1>8. /\ OnlySeen(Visible(provided', d), d)
      /\ \A c \in Mask[d].rows : Visible(provided', d).kids[c] = provided'.kids[c]
      /\ \A c \in Mask[d].rows : c \in Rows
  BY DevicesAssumption DEF Visible, OnlySeen
<1>9. DeviceKnows(d)'
  <2>1. PlanFits(d)' /\ InStep(d)' /\ RowsPlanned(d)'
    BY <1>1, <1>2, <1>3, <1>6 DEF DeviceKnows, PlanFits, InStep, RowsPlanned
  <2>2. RowsKnown(d)'
    BY <1>1, <1>2, <1>3, <1>4, <1>6, <1>8 DEF DeviceKnows, RowsKnown, Lost
  <2>3. Masked(d)'
    BY <1>3, <1>6, <1>7, <1>8 DEF DeviceKnows, Masked
  <2>4. RowsAnswered(d)'
    BY <1>6, <1>7, <1>8, <2>2 DEF RowsKnown, RowsAnswered, Lost
  <2> QED
    BY <1>7, <2>1, <2>2, <2>3, <2>4 DEF DeviceKnows
<1> QED
  BY <1>1, <1>2, <1>4, <1>5, <1>9, OwnStep, SameShapesKept DEF SyncInv

LEMMA StrayStep ==
    ASSUME SyncInv, NEW u \in stray, ServeStray(u)
    PROVE  /\ SyncInv' /\ ShapesKept
           /\ \A c \in Rows : Lost(provided, provided', c) => Gone(c)'
<1>1. /\ exchangeNode(u.by, u.update) /\ stray' = stray \ {u}
      /\ UNCHANGED <<shape, agreed, round, request, time, deleted, missed>>
  BY DEF ServeStray, users
<1>2. \A c : Gone(c)' <=> Gone(c)
  BY <1>1 DEF Gone
<1>3. \A c \in Rows : Lost(provided, provided', c) => Gone(c)
  BY <1>1, ExchangeTakes DEF SyncInv
<1>4. \A e \in Devices : DeviceKnows(e)'
  BY <1>1, <1>2, <1>3, OthersStep DEF SyncInv
<1>5. \A v \in stray' : v.by \in Devices /\ RowsSent(v.update)'
  BY <1>1, <1>2 DEF SyncInv, RowsSent
<1> QED
  BY <1>1, <1>2, <1>3, <1>4, <1>5, SameShapesKept DEF SyncInv, OverDevices

-----------------------------------------------------------------------------
(* The theorems *)

LEMMA SyncStarts ==
    ASSUME Init PROVE SyncInv
<1>1. /\ \A d \in Devices : /\ shape[d] = EmptyShape /\ agreed[d] = Nothing
                            /\ round[d] = Idle /\ request[d] = Nothing
      /\ OverDevices /\ stray = {} /\ time = 0
  BY DEF Init, OverDevices
<1>2. ASSUME NEW d \in Devices PROVE DeviceKnows(d)
  <2>1. Baseline(d) = EmptyShape /\ PreviousRemote(d) = EmptyShape
    BY <1>1 DEF Baseline, PreviousRemote
  <2>2. request[d].stage = "none"
    BY <1>1 DEF Nothing
  <2>3. /\ \A f \in Fields : EmptyShape.data[f] = Absent
        /\ \A c \in Rows : EmptyShape.kids[c] = Absent
    BY DEF EmptyShape
  <2> QED
    BY <1>1, <2>1, <2>2, <2>3, DevicesAssumption
    DEF DeviceKnows, PlanFits, Masked, InStep, SameSeen, OnlySeen,
        RowsKnown, RowsPlanned, RowsAnswered, Lost
<1> QED
  BY <1>1, <1>2 DEF SyncInv

\* What a step may do: the user's takes rows away that he deleted, any other keeps what
\* was changed and takes away only what is gone.
LEMMA SyncStep ==
    ASSUME SyncInv, Next
    PROVE  /\ SyncInv'
           /\ time' = time => \A d \in Devices \ missed : ChangesKept(d)
           /\ \A c \in Rows : Lost(provided, provided', c) => Gone(c)'
           /\ \A d \in Devices, c \in Rows : Lost(shape[d], shape'[d], c) => Gone(c)' \/ c \in deleted'[d]
<1>1. ASSUME NEW d \in Devices, Edit(d)
      PROVE  /\ time' # time /\ provided' = provided
             /\ \A e \in Devices, c \in Rows : Lost(shape[e], shape'[e], c) => c \in deleted'[e]
  <2>1. PICK s : /\ shape' = [shape EXCEPT ![d] = s]
                 /\ deleted' = [deleted EXCEPT ![d] = @ \cup (Ids(shape[d]) \ Ids(s))]
    BY <1>1 DEF Edit
  <2>2. /\ shape'[d] = s /\ \A e \in Devices \ {d} : shape'[e] = shape[e]
        /\ Ids(shape[d]) \ Ids(s) \subseteq deleted'[d]
    BY <2>1 DEF SyncInv, OverDevices
  <2>3. \A e \in Devices, c \in Rows : Lost(shape[e], shape'[e], c) => c \in deleted'[e]
    BY <2>2 DEF Lost, Ids, Kept
  <2> QED
    BY <1>1, <2>3 DEF Edit, SyncInv
<1>2. ASSUME NEW d \in Devices, Edit(d) PROVE SyncInv'
  BY <1>2, EditKeeps
<1>3. ASSUME NEW d \in Devices, NEW push \in BOOLEAN, planNodeSync(d, push)
      PROVE  SyncInv' /\ ShapesKept /\ provided' = provided
  BY <1>3, PlanKeeps, SameShapesKept DEF planNodeSync
<1>4. ASSUME NEW d \in Devices, nodeSyncPush(d) \/ Finish(d) \/ ServeAsk(d) \/ BreakOff(d)
      PROVE  SyncInv' /\ ShapesKept /\ provided' = provided
  <2>1. provided' = provided
    BY <1>4 DEF nodeSyncPush, Finish, ServeAsk, BreakOff
  <2> QED
    BY <1>4, <2>1, PushStep, FinishingStep, AskStep, BreakStep
<1>5. ASSUME (\E d \in Devices : ServeUpdate(d)) \/ (\E u \in stray : ServeStray(u))
      PROVE  /\ SyncInv' /\ ShapesKept
             /\ \A c \in Rows : Lost(provided, provided', c) => Gone(c)'
  BY <1>5, UpdateStep, StrayStep
<1> QED
  BY <1>1, <1>2, <1>3, <1>4, <1>5 DEF Next, Step, ShapesKept, Lost

\* Where nothing changes nothing is lost.
LEMMA SyncStutter ==
    ASSUME SyncInv, UNCHANGED vars PROVE SyncInv'
  BY DEF SyncInv, vars, users, OverDevices, DeviceKnows, PlanFits, Masked, InStep, RowsKnown, RowsPlanned,
         RowsAnswered, RowsSent, Baseline, PreviousRemote, Gone

\* For the planning, pushing, finishing and breaking off of rounds in any order.
THEOREM SyncInvHolds == Spec => []SyncInv
<1>1. Init => SyncInv
  BY SyncStarts
<1>2. SyncInv /\ [Next]_vars => SyncInv'
  BY SyncStep, SyncStutter
<1> QED
  BY <1>1, <1>2, PTL DEF Spec

\* Nothing a user changed since the last agreement is replaced by a round of his device
\* (finishNodeSync), unless an earlier push of it was answered without what it pushed.
THEOREM ChangesStay == Spec => LocalChangesKept
<1>1. SyncInv /\ [Next]_vars =>
          [time' = time => \A d \in Devices \ missed : ChangesKept(d)]_vars
  BY SyncStep
<1> QED
  BY <1>1, SyncInvHolds, PTL DEF Spec, LocalChangesKept

\* Neither the provider (exchangeNode) nor a device loses a row that nobody who could see
\* it deleted.
THEOREM RowsStay == Spec => RowsGoOnlyWhenDeleted
<1> DEFINE RowsStep ==
        LET gone == {c \in Rows : \E d \in Devices : c \in deleted'[d] /\ c \in Mask[d].rows}
        IN  /\ Ids(provided) \ Ids(provided') \subseteq gone
            /\ \A d \in Devices : Ids(shape[d]) \ Ids(shape'[d]) \subseteq gone \cup deleted'[d]
<1>1. ASSUME SyncInv, Next PROVE RowsStep
  <2>1. /\ \A c \in Rows : Lost(provided, provided', c) => Gone(c)'
        /\ \A d \in Devices, c \in Rows : Lost(shape[d], shape'[d], c) => Gone(c)' \/ c \in deleted'[d]
    BY <1>1, SyncStep
  <2> QED
    BY <2>1 DEF Lost, Gone, Ids, Kept
<1>2. SyncInv /\ [Next]_vars => [RowsStep]_vars
  BY <1>1
<1> QED
  BY <1>2, SyncInvHolds, PTL DEF Spec, RowsGoOnlyWhenDeleted

-----------------------------------------------------------------------------
(* The types: what goes back and forth is a shape, whatever was refused, broken off or
   merged on the way *)

Updates(S) == [stage : {"update"}, base : S, value : S]
Agreements(S) == {Nothing} \cup [stage : {"agreed"}, local : S, remote : S]
Plans(S) == {Idle} \cup [stage : {"asked", "pushed"}, push : BOOLEAN,
                         local : S, baseline : S, previousRemote : S]
Requests(S) == {Nothing, [stage |-> "ask"], [stage |-> "refused"]} \cup Updates(S)
                  \cup [stage : {"answered"}, answer : S]

\* Everything is of the shapes in S.
Typed(S) ==
    /\ provided \in S
    /\ shape \in [Devices -> S]
    /\ agreed \in [Devices -> Agreements(S)]
    /\ round \in [Devices -> Plans(S)]
    /\ request \in [Devices -> Requests(S)]
    /\ \A d \in Devices : round[d] = Idle <=> request[d] = Nothing
    /\ stray \subseteq [by : Devices, update : Updates(S)]

\* Masking and merging stay among the shapes in S.
Closed(S) ==
    /\ EmptyShape \in S
    /\ \A s \in S, d \in Devices : Visible(s, d) \in S
    /\ \A b, n, c \in S : ~Refused(b, n, c) => mergeNodeShape(b, n, c) \in S

TypesInv ==
    /\ time \in 0 .. MaxEdits
    /\ broken \in 0 .. MaxBroken
    /\ Typed(Shapes(time))

\* What a device sees of a shape is a shape (Visible).
LEMMA VisibleIsShape ==
    ASSUME NEW t \in Nat, NEW s \in Shapes(t), NEW d \in Devices
    PROVE  Visible(s, d) \in Shapes(t)
<1> DEFINE data == [f \in Fields |-> IF f \in Mask[d].fields THEN s.data[f] ELSE Absent]
           kids == [c \in Rows |-> IF c \in Mask[d].rows THEN s.kids[c] ELSE Absent]
           order == Filtered(s.order, Mask[d].rows)
           updated == IF "updated" \in Mask[d].fields THEN s.updated ELSE 0
<1>1. Visible(s, d) = [data |-> data, kids |-> kids, order |-> order, updated |-> updated]
  BY DEF Visible, Among
<1>2. data \in [Fields -> Values \cup {Absent}]
  BY ShapeFields
<1>3. kids \in [Rows -> Kinds \cup {Absent}] /\ Kept(kids) = Kept(s.kids) \cap Mask[d].rows
  BY ShapeFields DEF Kept
<1>4. updated \in 0 .. t
  BY ShapeFields
<1>5. s.order \in Seq(Rows) /\ IsInjective(s.order) /\ ToSet(s.order) = Kept(s.kids)
  BY ShapeFields
<1>6. order \in Seq(Rows) /\ ToSet(order) = ToSet(s.order) \cap Mask[d].rows
  BY <1>5, FilteredSeq
<1>7. IsInjective(order)
  BY <1>5, FilteredInjective
<1> HIDE DEF data, kids, order, updated
<1>8. order \in Seq(Rows) /\ IsInjective(order) /\ ToSet(order) = Kept(kids)
  BY <1>3, <1>5, <1>6, <1>7
<1>9. kids \in [Rows -> Kinds \cup {Absent}]
  BY <1>3
<1>10. [data |-> data, kids |-> kids, order |-> order, updated |-> updated] \in Shapes(t)
  BY <1>2, <1>4, <1>8, <1>9, MakeShape
<1> QED
  BY <1>1, <1>10

LEMMA ShapesClosed ==
    ASSUME NEW t \in Nat PROVE Closed(Shapes(t))
<1>1. EmptyShape \in Shapes(t)
  BY NoRows
<1>2. \A b, n, c \in Shapes(t) : ~Refused(b, n, c) => mergeNodeShape(b, n, c) \in Shapes(t)
  BY NotRefused, MergeIsShape
<1> QED
  BY <1>1, <1>2, VisibleIsShape DEF Closed

\* What has a type keeps it as there come to be more shapes.
LEMMA TypedMore ==
    ASSUME NEW S, NEW T, S \subseteq T, Typed(S) PROVE Typed(T)
<1>1. Agreements(S) \subseteq Agreements(T) /\ Plans(S) \subseteq Plans(T) /\ Updates(S) \subseteq Updates(T)
  BY DEF Agreements, Plans, Updates
<1>2. Requests(S) \subseteq Requests(T)
  BY <1>1 DEF Requests
<1> QED
  BY <1>1, <1>2 DEF Typed

\* The parts of a request, a round and an agreement.
LEMMA RequestParts ==
    ASSUME NEW S, NEW r \in Requests(S)
    PROVE  /\ r.stage = "answered" => r.answer \in S
           /\ r.stage = "update" => r \in Updates(S)
  BY DEF Requests, Updates, Nothing

LEMMA UpdateParts ==
    ASSUME NEW S, NEW u \in Updates(S) PROVE u.base \in S /\ u.value \in S
  BY DEF Updates

LEMMA PlanParts ==
    ASSUME NEW S, NEW p \in Plans(S), p # Idle
    PROVE  /\ p = [stage |-> p.stage, push |-> p.push, local |-> p.local,
                   baseline |-> p.baseline, previousRemote |-> p.previousRemote]
           /\ p.stage \in {"asked", "pushed"} /\ p.push \in BOOLEAN
           /\ p.local \in S /\ p.baseline \in S /\ p.previousRemote \in S
  BY DEF Plans

LEMMA AgreedParts ==
    ASSUME NEW S, Closed(S), Typed(S), NEW d \in Devices
    PROVE  Baseline(d) \in S /\ PreviousRemote(d) \in S
<1>1. agreed[d] \in Agreements(S)
  BY DEF Typed
<1> QED
  BY <1>1 DEF Agreements, Baseline, PreviousRemote, Closed

LEMMA PlanTyped ==
    ASSUME NEW S, Closed(S), Typed(S), NEW d \in Devices, NEW push \in BOOLEAN, planNodeSync(d, push)
    PROVE  Typed(S)'
<1> DEFINE p == [stage |-> "asked", push |-> push, local |-> shape[d],
                 baseline |-> Baseline(d), previousRemote |-> PreviousRemote(d)]
           q == [stage |-> "ask"]
<1>1. round' = [round EXCEPT ![d] = p] /\ request' = [request EXCEPT ![d] = q]
  BY DEF planNodeSync
<1>2. UNCHANGED <<provided, shape, agreed, stray>>
  BY DEF planNodeSync
<1>3. p \in Plans(S) /\ p # Idle
  BY AgreedParts DEF Plans, Idle, Typed
<1>4. q \in Requests(S) /\ q # Nothing
  BY DEF Requests, Nothing
<1> HIDE DEF p, q
<1> QED
  BY <1>1, <1>2, <1>3, <1>4 DEF Typed

\* A round that ends, with whatever is on the device then.
LEMMA EndTyped ==
    ASSUME NEW S, Typed(S), NEW d \in Devices, EndRound(d), provided' = provided,
           shape' \in [Devices -> S], agreed' \in [Devices -> Agreements(S)],
           stray' \subseteq [by : Devices, update : Updates(S)]
    PROVE  Typed(S)'
<1>1. round' = [round EXCEPT ![d] = Idle] /\ request' = [request EXCEPT ![d] = Nothing]
  BY DEF EndRound
<1>2. Idle \in Plans(S) /\ Nothing \in Requests(S)
  BY DEF Plans, Requests
<1> QED
  BY <1>1, <1>2 DEF Typed

LEMMA FinishTyped ==
    ASSUME NEW S, Closed(S), Typed(S), NEW d \in Devices, round[d] # Idle,
           NEW remote \in S, finishNodeSync(d, remote), provided' = provided, stray' = stray
    PROVE  Typed(S)'
<1>1. /\ round[d].push \in BOOLEAN /\ round[d].local \in S /\ round[d].previousRemote \in S
      /\ shape[d] \in S
  BY PlanParts DEF Typed
<1>2. EndRound(d)
  BY DEF finishNodeSync
<1>3. CASE RefusedHere(round[d], remote, shape[d])
  <2>1. UNCHANGED <<shape, agreed>>
    BY <1>3 DEF finishNodeSync
  <2> QED
    BY <1>2, <2>1, EndTyped DEF Typed
<1>4. CASE ~RefusedHere(round[d], remote, shape[d])
  <2> DEFINE a == Accepted(round[d], remote)
             i == Installed(round[d], remote, shape[d])
             g == [stage |-> "agreed", local |-> a, remote |-> remote]
  <2>1. shape' = [shape EXCEPT ![d] = i] /\ agreed' = [agreed EXCEPT ![d] = g]
    BY <1>4 DEF finishNodeSync
  <2>2. a \in S
    BY <1>1, <1>4 DEF Accepted, RefusedHere, Closed
  <2>3. i \in S
    BY <1>1, <1>4, <2>2 DEF Installed, RefusedHere, Closed
  <2> HIDE DEF a, i
  <2>4. g \in Agreements(S)
    BY <2>2 DEF Agreements
  <2> HIDE DEF g
  <2>5. shape' \in [Devices -> S] /\ agreed' \in [Devices -> Agreements(S)]
    BY <2>1, <2>3, <2>4 DEF Typed
  <2> QED
    BY <1>2, <2>5, EndTyped DEF Typed
<1> QED
  BY <1>3, <1>4

LEMMA PushTyped ==
    ASSUME NEW S, Closed(S), Typed(S), NEW d \in Devices, nodeSyncPush(d)
    PROVE  Typed(S)'
<1> DEFINE remote == request[d].answer
           before == Visible(round[d].baseline, d)
           after == Visible(round[d].local, d)
           value == mergeNodeShape(before, after, remote)
<1>1. round[d] \in Plans(S) /\ request[d] \in Requests(S)
  BY DEF Typed
<1>2. round[d].stage = "asked" /\ request[d].stage = "answered"
  BY DEF nodeSyncPush
<1>3. round[d] # Idle
  BY <1>2 DEF Idle
<1>4. remote \in S /\ round[d].baseline \in S /\ round[d].local \in S
  BY <1>1, <1>2, <1>3, RequestParts, PlanParts
<1>5. before \in S /\ after \in S
  BY <1>4 DEF Closed
<1>6. provided' = provided /\ stray' = stray
  BY DEF nodeSyncPush
<1>7. CASE EndRound(d) /\ UNCHANGED <<shape, agreed>>
  BY <1>6, <1>7, EndTyped DEF Typed
<1>8. CASE /\ ~Refused(before, after, remote)
           /\ round' = [round EXCEPT ![d].stage = "pushed"]
           /\ request' = [request EXCEPT ![d] = [stage |-> "update", base |-> remote, value |-> value]]
           /\ UNCHANGED <<shape, agreed>>
  <2> DEFINE p == [round[d] EXCEPT !.stage = "pushed"]
             q == [stage |-> "update", base |-> remote, value |-> value]
  <2>1. value \in S
    BY <1>4, <1>5, <1>8 DEF Closed
  <2>2. round' = [round EXCEPT ![d] = p] /\ request' = [request EXCEPT ![d] = q]
    BY <1>8
  <2>3. p \in Plans(S) /\ p # Idle
    <3>1. /\ round[d] = [stage |-> round[d].stage, push |-> round[d].push, local |-> round[d].local,
                         baseline |-> round[d].baseline, previousRemote |-> round[d].previousRemote]
          /\ round[d].push \in BOOLEAN
          /\ round[d].local \in S /\ round[d].baseline \in S /\ round[d].previousRemote \in S
      BY <1>1, <1>3, PlanParts
    <3>2. p = [stage |-> "pushed", push |-> round[d].push, local |-> round[d].local,
               baseline |-> round[d].baseline, previousRemote |-> round[d].previousRemote]
      BY <3>1
    <3> HIDE DEF p
    <3>3. p \in Plans(S)
      BY <3>1, <3>2 DEF Plans
    <3>4. p.stage = "pushed" /\ Idle.stage = "idle"
      BY <3>2 DEF Idle
    <3> QED
      BY <3>3, <3>4
  <2> HIDE DEF value, remote
  <2>4. q \in Requests(S) /\ q # Nothing
    BY <1>4, <2>1 DEF Requests, Updates, Nothing
  <2> HIDE DEF p, q
  <2> QED
    BY <1>6, <1>8, <2>2, <2>3, <2>4 DEF Typed
<1>9. CASE finishNodeSync(d, remote)
  BY <1>3, <1>4, <1>6, <1>9, FinishTyped
<1> QED
  BY <1>7, <1>8, <1>9 DEF nodeSyncPush

LEMMA FinishingTyped ==
    ASSUME NEW S, Closed(S), Typed(S), NEW d \in Devices, Finish(d)
    PROVE  Typed(S)'
<1>1. request[d] \in Requests(S) /\ round[d] # Idle /\ provided' = provided /\ stray' = stray
  BY DEF Typed, Finish, Idle
<1>2. CASE request[d].stage = "answered" /\ finishNodeSync(d, request[d].answer)
  BY <1>1, <1>2, RequestParts, FinishTyped
<1>3. CASE EndRound(d) /\ UNCHANGED <<shape, agreed>>
  BY <1>1, <1>3, EndTyped DEF Typed
<1> QED
  BY <1>2, <1>3 DEF Finish

LEMMA BreakTyped ==
    ASSUME NEW S, Typed(S), NEW d \in Devices, BreakOff(d)
    PROVE  Typed(S)'
<1>1. UNCHANGED <<provided, shape, agreed>> /\ EndRound(d)
  BY DEF BreakOff
<1>2. stray' \subseteq [by : Devices, update : Updates(S)]
  <2>1. request[d] \in Requests(S) /\ stray \subseteq [by : Devices, update : Updates(S)]
    BY DEF Typed
  <2>2. request[d].stage = "update" => [by |-> d, update |-> request[d]] \in [by : Devices, update : Updates(S)]
    BY <2>1, RequestParts
  <2> QED
    BY <2>1, <2>2 DEF BreakOff
<1> QED
  BY <1>1, <1>2, EndTyped DEF Typed

\* The provider's shape after an update, and the answer to one.
LEMMA ExchangeTyped ==
    ASSUME NEW S, Closed(S), provided \in S, NEW d \in Devices, NEW u \in Updates(S), exchangeNode(d, u)
    PROVE  provided' \in S
<1>1. u.base \in S /\ u.value \in S /\ Visible(provided, d) \in S
  BY UpdateParts DEF Closed
<1>2. CASE ~RefusedThere(d, u)
  <2> DEFINE served == Visible(provided, d)
             one == mergeNodeShape(u.base, u.value, served)
  <2>1. ~Refused(u.base, u.value, served) /\ ~Refused(served, one, provided)
    BY <1>2 DEF RefusedThere
  <2>2. one \in S
    BY <1>1, <2>1 DEF Closed
  <2>3. mergeNodeShape(served, one, provided) \in S
    <3> HIDE DEF one
    <3> QED
      BY <1>1, <2>1, <2>2 DEF Closed
  <2>4. MergedHere(d, u) = mergeNodeShape(served, one, provided)
    BY DEF MergedHere
  <2> QED
    BY <2>3, <2>4 DEF exchangeNode
<1> QED
  BY <1>2 DEF exchangeNode

\* A request that is answered, over what the provider has then.
LEMMA AnswerTyped ==
    ASSUME NEW S, Typed(S), NEW d \in Devices, request[d] # Nothing, provided' \in S,
           NEW q \in Requests(S), q # Nothing, request' = [request EXCEPT ![d] = q],
           UNCHANGED <<shape, agreed, round, stray>>
    PROVE  Typed(S)'
  BY DEF Typed

LEMMA ServeTyped ==
    ASSUME NEW S, Closed(S), Typed(S), NEW d \in Devices, ServeAsk(d) \/ ServeUpdate(d)
    PROVE  Typed(S)'
<1>1. provided \in S /\ request[d] \in Requests(S) /\ UNCHANGED <<shape, agreed, round, stray>>
  BY DEF Typed, ServeAsk, ServeUpdate
<1>2. request[d].stage \in {"ask", "update"} /\ request[d] # Nothing
  BY DEF ServeAsk, ServeUpdate, Nothing
<1>3. \A s \in S : /\ [stage |-> "answered", answer |-> s] \in Requests(S)
                   /\ [stage |-> "answered", answer |-> s] # Nothing
  BY DEF Requests, Nothing
<1>4. [stage |-> "refused"] \in Requests(S) /\ [stage |-> "refused"] # Nothing
  BY DEF Requests, Nothing
<1>5. CASE ServeAsk(d)
  <2>1. provided' = provided /\ Visible(provided, d) \in S
    BY <1>1, <1>5 DEF ServeAsk, Closed
  <2>2. request' = [request EXCEPT ![d] = [stage |-> "answered", answer |-> Visible(provided, d)]]
    BY <1>5 DEF ServeAsk
  <2> QED
    BY <1>1, <1>2, <1>3, <2>1, <2>2, AnswerTyped
<1>6. CASE ServeUpdate(d)
  <2>1. request[d] \in Updates(S) /\ exchangeNode(d, request[d])
    BY <1>1, <1>6, RequestParts DEF ServeUpdate
  <2>2. provided' \in S
    BY <1>1, <2>1, ExchangeTyped
  <2>3. Visible(provided', d) \in S
    BY <2>2 DEF Closed
  <2>4. request' = [request EXCEPT ![d] =
                       IF RefusedThere(d, request[d]) THEN [stage |-> "refused"]
                       ELSE [stage |-> "answered", answer |-> Visible(provided', d)]]
    BY <1>6 DEF ServeUpdate
  <2> DEFINE q == IF RefusedThere(d, request[d]) THEN [stage |-> "refused"]
                  ELSE [stage |-> "answered", answer |-> Visible(provided', d)]
  <2>5. q \in Requests(S) /\ q # Nothing
    BY <1>3, <1>4, <2>3
  <2> HIDE DEF q
  <2>6. request' = [request EXCEPT ![d] = q]
    BY <2>4 DEF q
  <2> QED
    BY <1>1, <1>2, <2>2, <2>5, <2>6, AnswerTyped
<1> QED
  BY <1>5, <1>6

LEMMA StrayTyped ==
    ASSUME NEW S, Closed(S), Typed(S), NEW u \in stray, ServeStray(u)
    PROVE  Typed(S)'
<1>1. u \in [by : Devices, update : Updates(S)] /\ stray' \subseteq stray
  BY DEF Typed, ServeStray
<1>2. exchangeNode(u.by, u.update) /\ UNCHANGED <<shape, agreed, round, request>>
  BY DEF ServeStray
<1>3. u.by \in Devices /\ u.update \in Updates(S)
  BY <1>1
<1>4. provided' \in S
  BY <1>2, <1>3, ExchangeTyped DEF Typed
<1> QED
  BY <1>1, <1>2, <1>4 DEF Typed

\* A round, at the device and at the provider.
LEMMA RoundTyped ==
    ASSUME NEW S, Closed(S), Typed(S), Next, \A d \in Devices : ~Edit(d)
    PROVE  Typed(S)'
  BY PlanTyped, PushTyped, FinishingTyped, BreakTyped, ServeTyped, StrayTyped DEF Next, Step

\* A user's edit.
LEMMA EditTyped ==
    ASSUME NEW S, NEW T, S \subseteq T, Typed(S), NEW d \in Devices, Edit(d),
           \A s \in S : \A e \in Edits(s, time') : e \in T
    PROVE  Typed(T)'
<1>1. PICK s \in Edits(shape[d], time') : shape' = [shape EXCEPT ![d] = s]
  BY DEF Edit
<1>2. UNCHANGED <<provided, agreed, round, request, stray>>
  BY DEF Edit
<1>3. Typed(T)
  BY TypedMore
<1>4. s \in T
  BY <1>1 DEF Typed
<1> QED
  BY <1>1, <1>2, <1>3, <1>4 DEF Typed

LEMMA TypesStart ==
    ASSUME Init PROVE TypesInv
<1>1. provided \in Shapes(0) /\ EmptyShape \in Shapes(0)
  BY DevicesAssumption, NoRows DEF Init
<1>2. \A S : Nothing \in Agreements(S) /\ Idle \in Plans(S) /\ Nothing \in Requests(S)
  BY DEF Agreements, Plans, Requests
<1>3. time = 0 /\ broken = 0 /\ 0 \in 0 .. MaxEdits /\ 0 \in 0 .. MaxBroken
  BY DevicesAssumption DEF Init
<1>4. Typed(Shapes(0))
  BY <1>1, <1>2 DEF Init, Typed
<1> QED
  BY <1>3, <1>4 DEF TypesInv

LEMMA TypesKept ==
    ASSUME TypesInv, [Next]_vars PROVE TypesInv'
<1>1. PICK t : t = time
  OBVIOUS
<1>2. PICK S : S = Shapes(t)
  OBVIOUS
<1>3. t \in 0 .. MaxEdits /\ t \in Nat /\ Typed(S) /\ broken \in 0 .. MaxBroken
  BY <1>1, <1>2, DevicesAssumption DEF TypesInv
<1>4. Closed(S)
  BY <1>2, <1>3, ShapesClosed
<1>5. ASSUME NEW d \in Devices, Edit(d) PROVE TypesInv'
  <2>1. PICK T : T = Shapes(t + 1)
    OBVIOUS
  <2>2. time' = t + 1 /\ time' \in 0 .. MaxEdits /\ broken' = broken
    BY <1>1, <1>3, <1>5, DevicesAssumption DEF Edit
  <2>3. S \subseteq T
    BY <1>2, <1>3, <2>1, LaterShape
  <2>4. t + 1 \in Nat
    BY <1>3
  <2>5. \A s \in S : \A e \in Edits(s, t + 1) : e \in T
    BY <2>1, <2>3, <2>4, EditIsShape
  <2>6. Typed(T)'
    BY <1>3, <1>5, <2>2, <2>3, <2>5, EditTyped
  <2> QED
    BY <1>3, <2>1, <2>2, <2>6 DEF TypesInv
<1>6. CASE Next /\ \A d \in Devices : ~Edit(d)
  <2>1. time' = time /\ broken' \in 0 .. MaxBroken
    BY <1>3, <1>6, DevicesAssumption
    DEF Next, Step, planNodeSync, nodeSyncPush, Finish, ServeAsk, ServeUpdate, BreakOff, ServeStray
  <2>2. Typed(S)'
    BY <1>3, <1>4, <1>6, RoundTyped
  <2> QED
    BY <1>1, <1>2, <1>3, <2>1, <2>2 DEF TypesInv
<1>7. CASE UNCHANGED vars
  BY <1>7 DEF TypesInv, Typed, vars
<1> QED
  BY <1>5, <1>6, <1>7

LEMMA TypesOK ==
    ASSUME TypesInv PROVE TypeOK
<1>1. time \in Int /\ MaxEdits \in Int /\ time <= MaxEdits
  BY DevicesAssumption DEF TypesInv
<1>2. Shapes(time) \subseteq Shapes(MaxEdits)
  BY <1>1, LaterShape
<1>3. Typed(Shapes(MaxEdits))
  BY <1>2, TypedMore DEF TypesInv
<1>4. \A d \in Devices : agreed[d] # Nothing =>
          {agreed[d].local, agreed[d].remote} \subseteq Shapes(MaxEdits)
  BY <1>3 DEF Typed, Agreements
<1> QED
  BY <1>3, <1>4 DEF TypesInv, Typed, TypeOK, Times

\* What the provider and the devices have, and what they last agreed on, is a shape whose
\* order lists each of its rows once, and a round is under way where there is a request:
\* planNodeSync, nodeSyncPush, finishNodeSync and exchangeNode, in any order.
THEOREM SyncTypes == Spec => []TypeOK
<1>1. Init => TypesInv
  BY TypesStart
<1>2. TypesInv /\ [Next]_vars => TypesInv'
  BY TypesKept
<1>3. TypesInv => TypeOK
  BY TypesOK
<1> QED
  BY <1>1, <1>2, <1>3, PTL DEF Spec
=============================================================================
