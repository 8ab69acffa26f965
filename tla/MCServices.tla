----------------------------- MODULE MCServices -----------------------------
(***************************************************************************)
(* Parts that share no state, each on a small instance: invitations of     *)
(* devices, browser sign-in, token balances, the merge of two shapes,      *)
(* nodes read through another device and undoing in the web client.  A     *)
(* behaviour exercises one invite, the logins, the steady or the other     *)
(* token accounts, the merge, the relay or the history of edits, and each  *)
(* of them is explored in full.                                            *)
(***************************************************************************)
EXTENDS DeviceLogin, PeerInvites, TokenLedger, MCNodeMerge, NodeRelay, EditHistory

CONSTANTS i1, i2, a1, a2, a3, a4, v1, v2, v3, v4,
          ann, ben, cyd, dot, t1, t2, t3, t4, t5, p1, p2, d1, d2, d3, d4,
          m1, m2, n1, n2, c1, c2, q1, q2

VARIABLE part

ForAsker == [m \in Askers |-> IF m \in {a1, a2} THEN i1 ELSE i2]
AboutInvite == [v \in Verdicts |-> IF v \in {v1, v2} THEN i1 ELSE i2]

\* Steady: ann pays ben for one requirement, asked for twice.  Others: cyd pays
\* dot, one requirement asked for twice and another one, of which cyd can pay one.
PayoutKey == [t \in Payouts |-> CASE t \in {t1, t2} -> "rent" [] t \in {t3, t4} -> "trip" [] OTHER -> "food"]
PaidFrom == [t \in Payouts |-> IF t \in {t1, t2} THEN ann ELSE cyd]
PaidTo == [t \in Payouts |-> IF t \in {t1, t2} THEN ben ELSE dot]
PaidTokens == [t \in Payouts |-> IF t = t2 THEN 1 ELSE 2]
PurchaseBuyer == [p \in Purchases |-> IF p = p1 THEN ann ELSE cyd]
PurchaseTokens == [p \in Purchases |-> 3]
DeliveryOf == [d \in Deliveries |-> IF d \in {d1, d2} THEN p1 ELSE p2]

\* Two connections of the one device that is ever online, the later one offering less.
SocketDevice == [s \in Sockets |-> m1]
Offered == [s \in Sockets |-> IF s = c2 THEN {n1} ELSE References]
NodeDevice == [n \in References |-> IF n = n1 THEN m1 ELSE m2]

vars == <<deviceVars, inviteVars, tokenVars, mergeVars, relayVars, historyVars, part>>

Parts == Invites \cup {"logins", "steady", "others", "merge", "relay", "history"}

\* Every part starts as it may; those it is not about, in one way.
Init ==
    /\ part \in Parts
    /\ DeviceInit /\ InviteInit /\ TokenInit
    /\ MergeInit /\ (part # "merge" => base = EmptyShape)
    /\ RelayInit /\ (part # "relay" => row.ref = n1)
    /\ HistoryInit

Next ==
    /\ part' = part
    /\ \/ /\ part = "logins"
          /\ DeviceNext
          /\ UNCHANGED <<inviteVars, tokenVars, mergeVars, relayVars, historyVars>>
       \/ /\ part \in Invites
          /\ InviteStep(part)
          /\ UNCHANGED <<deviceVars, tokenVars, mergeVars, relayVars, historyVars>>
       \/ /\ part \in {"steady", "others"}
          /\ \E u \in IF part = "steady" THEN Steady ELSE TokenUsers \ Steady : TokenStep(u)
          /\ UNCHANGED <<deviceVars, inviteVars, mergeVars, relayVars, historyVars>>
       \/ /\ part = "merge"
          /\ MergeNext
          /\ UNCHANGED <<deviceVars, inviteVars, tokenVars, relayVars, historyVars>>
       \/ /\ part = "relay"
          /\ RelayNext
          /\ UNCHANGED <<deviceVars, inviteVars, tokenVars, mergeVars, historyVars>>
       \/ /\ part = "history"
          /\ HistoryNext
          /\ UNCHANGED <<deviceVars, inviteVars, tokenVars, mergeVars, relayVars>>

Spec == Init /\ [][Next]_vars /\ InviteFairness

-----------------------------------------------------------------------------
\* Each part keeps to its types: a step leaves rows, balances, codes, shapes and
\* connections such as the code writes (the six modules' own invariants).
ServicesTypeOK ==
    /\ DeviceTypeOK
    /\ InviteTypeOK
    /\ TokenTypeOK
    /\ MergeTypeOK
    /\ RelayTypeOK
    /\ HistoryTypeOK
=============================================================================
