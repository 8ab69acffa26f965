---------------------------- MODULE OneTimeGrant ----------------------------
(***************************************************************************)
(* What a device that asks for a credential is promised, and the account   *)
(* that is asked: a credential exists only for a request that was granted, *)
(* it is given once, and a request that is over is never granted.          *)
(***************************************************************************)
EXTENDS Naturals

CONSTANT Requests

VARIABLES
    grant,   \* per request: idle, asked, granted, given or over
    given    \* per request, how often its credential was handed out

Init ==
    /\ grant = [r \in Requests |-> "idle"]
    /\ given = [r \in Requests |-> 0]

Ask(r) ==
    /\ grant[r] = "idle"
    /\ grant' = [grant EXCEPT ![r] = "asked"]
    /\ UNCHANGED given

Grant(r) ==
    /\ grant[r] = "asked"
    /\ grant' = [grant EXCEPT ![r] = "granted"]
    /\ UNCHANGED given

Give(r) ==
    /\ grant[r] = "granted"
    /\ grant' = [grant EXCEPT ![r] = "given"]
    /\ given' = [given EXCEPT ![r] = @ + 1]

\* Denied, expired or forgotten.
End(r) ==
    /\ grant[r] \in {"idle", "asked", "granted"}
    /\ grant' = [grant EXCEPT ![r] = "over"]
    /\ UNCHANGED given

\* What is forgotten together, as by a server that stops, ends together.
EndAll(S) ==
    /\ \A r \in S : grant[r] \in {"asked", "granted"}
    /\ grant' = [r \in Requests |-> IF r \in S THEN "over" ELSE grant[r]]
    /\ UNCHANGED given

Next ==
    \/ \E r \in Requests : Ask(r) \/ Grant(r) \/ Give(r) \/ End(r)
    \/ \E S \in SUBSET Requests : EndAll(S)

Spec == Init /\ [][Next]_<<grant, given>>
=============================================================================
