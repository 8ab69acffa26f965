---------------------------- MODULE TokenLedger ----------------------------
(***************************************************************************)
(* Token balances (backend/tokenManager.ts): payouts that move tokens      *)
(* between accounts, and purchases credited by Stripe's webhook            *)
(* (backend/subscription/webhook.ts).  A database transaction reads        *)
(* balances, and then writes what it computed from them and commits; the   *)
(* isolation is the database's default, so another transaction may commit  *)
(* in between.                                                             *)
(***************************************************************************)
EXTENDS Integers

CONSTANTS
    TokenUsers,
    Steady,      \* the accounts whose transactions do not overlap and whose commits are answered
    Payouts,     \* calls of transferTokens
    Key,         \* the key of each, one per requirement
    Payer, Payee, Amount,
    Purchases,
    Buyer, Bought,
    Deliveries,  \* deliveries of checkout.session.completed
    PaidFor      \* the purchase each is about

ASSUME TokenAssumption ==
    /\ Steady \subseteq TokenUsers
    /\ Payer \in [Payouts -> TokenUsers] /\ Payee \in [Payouts -> TokenUsers]
    /\ \A t \in Payouts : Payer[t] # Payee[t] /\ (Payer[t] \in Steady <=> Payee[t] \in Steady)
    /\ Amount \in [Payouts -> Nat \ {0}]
    /\ Buyer \in [Purchases -> TokenUsers]
    /\ Bought \in [Purchases -> Nat \ {0}]
    /\ PaidFor \in [Deliveries -> Purchases]
    \* a key names its requirement, and so the account it is paid from
    /\ \A t, s \in Payouts : Key[t] = Key[s] => Payer[t] = Payer[s]
    /\ \A t \in Payouts, p \in Purchases : Key[t] # p

VARIABLES
    available,  \* per user, availableTokens
    recorded,   \* the keys whose two ledger rows exist
    payout,     \* per call: its step, and the balances its transaction has read
    purchase,   \* per purchase, its status
    delivery,   \* per delivery: its step, and the balance its transaction has read
    moved,      \* history: per payout, how often it moved tokens
    credited    \* history: per purchase, how often it was credited

tokenVars == <<available, recorded, payout, purchase, delivery, moved, credited>>

\* What the tables and the calls hold.
TokenTypeOK ==
    /\ available \in [TokenUsers -> Int]
    /\ recorded \subseteq {Key[t] : t \in Payouts}
    /\ payout \in [Payouts -> [step : {"ready", "payer", "both", "done"}, from : Int, to : Int]]
    /\ purchase \in [Purchases -> {"none", "pending", "completed", "failed"}]
    /\ delivery \in [Deliveries -> [step : {"ready", "marking", "marked", "crediting", "failing", "done"},
                                    read : Int]]
    /\ moved \in [Payouts -> Nat]
    /\ credited \in [Purchases -> Nat]

TokenInit ==
    /\ available = [u \in TokenUsers |-> 0]
    /\ recorded = {}
    /\ payout = [t \in Payouts |-> [step |-> "ready", from |-> 0, to |-> 0]]
    /\ purchase = [p \in Purchases |-> "none"]
    /\ delivery = [d \in Deliveries |-> [step |-> "ready", read |-> 0]]
    /\ moved = [t \in Payouts |-> 0]
    /\ credited = [p \in Purchases |-> 0]

-----------------------------------------------------------------------------
Paying(u) == {t \in Payouts : u \in {Payer[t], Payee[t]} /\ payout[t].step \in {"payer", "both"}}
Settling(u) == {d \in Deliveries : Buyer[PaidFor[d]] = u /\ delivery[d].step \notin {"ready", "done"}}
Idle(u) == u \in Steady => Paying(u) = {} /\ Settling(u) = {}

ToStep(t, step, from, to) == payout' = [payout EXCEPT ![t] = [step |-> step, from |-> from, to |-> to]]

\* The transfer is recorded already, or the payer has too little: it ends
\* there.  Otherwise the payer's balance is read.
ReadPayer(t) ==
    /\ payout[t].step = "ready"
    /\ Idle(Payer[t]) /\ Idle(Payee[t])
    /\ IF Key[t] \in recorded \/ available[Payer[t]] < Amount[t]
       THEN ToStep(t, "done", 0, 0)
       ELSE ToStep(t, "payer", available[Payer[t]], 0)
    /\ UNCHANGED <<available, recorded, purchase, delivery, moved, credited>>

ReadPayee(t) ==
    /\ payout[t].step = "payer"
    /\ ToStep(t, "both", payout[t].from, available[Payee[t]])
    /\ UNCHANGED <<available, recorded, purchase, delivery, moved, credited>>

\* Mutant: the rows' ids are not unique.
transferTokensAgain(t) ==
    /\ payout[t].step = "both"
    /\ available' = [u \in TokenUsers |->
          IF u = Payer[t] THEN payout[t].from - Amount[t]
          ELSE IF u = Payee[t] THEN payout[t].to + Amount[t] ELSE available[u]]
    /\ recorded' = recorded \cup {Key[t]}
    /\ moved' = [moved EXCEPT ![t] = @ + 1]
    /\ ToStep(t, "done", 0, 0)
    /\ UNCHANGED <<purchase, delivery, credited>>

\* Mutant: the amount is taken from the balance there is by now.
transferTokensInPlace(t) ==
    /\ payout[t].step = "both"
    /\ Key[t] \notin recorded
    /\ available' = [available EXCEPT ![Payer[t]] = @ - Amount[t], ![Payee[t]] = @ + Amount[t]]
    /\ recorded' = recorded \cup {Key[t]}
    /\ moved' = [moved EXCEPT ![t] = @ + 1]
    /\ ToStep(t, "done", 0, 0)
    /\ UNCHANGED <<purchase, delivery, credited>>

\* Both balances and both rows, or none: the rows' ids are unique.
transferTokens(t) ==
    /\ payout[t].step = "both"
    /\ Key[t] \notin recorded
    /\ available' = [u \in TokenUsers |->
          IF u = Payer[t] THEN payout[t].from - Amount[t]
          ELSE IF u = Payee[t] THEN payout[t].to + Amount[t] ELSE available[u]]
    /\ recorded' = recorded \cup {Key[t]}
    /\ moved' = [moved EXCEPT ![t] = @ + 1]
    /\ ToStep(t, "done", 0, 0)
    /\ UNCHANGED <<purchase, delivery, credited>>

\* Rolled back: the key is recorded by now, or a deadlock, a timeout or a stop.
RollBack(t) ==
    /\ payout[t].step \in {"payer", "both"}
    /\ ToStep(t, "done", 0, 0)
    /\ UNCHANGED <<available, recorded, purchase, delivery, moved, credited>>

-----------------------------------------------------------------------------
createTokenPurchaseCheckout(p) ==
    /\ purchase[p] = "none"
    /\ purchase' = [purchase EXCEPT ![p] = "pending"]
    /\ UNCHANGED <<available, recorded, payout, delivery, moved, credited>>

ToPhase(d, step, read) == delivery' = [delivery EXCEPT ![d] = [step |-> step, read |-> read]]

\* Mutant: a delivery credits whatever the purchase's status.
ReadPurchaseAgain(d) ==
    LET p == PaidFor[d] IN
    /\ delivery[d].step = "ready"
    /\ purchase[p] # "none"
    /\ Idle(Buyer[p])
    /\ ToPhase(d, "marking", 0)
    /\ UNCHANGED <<available, recorded, payout, purchase, moved, credited>>

\* A delivery of a session that was paid; one completed already is left alone.
ReadPurchase(d) ==
    LET p == PaidFor[d] IN
    /\ delivery[d].step = "ready"
    /\ purchase[p] # "none"
    /\ Idle(Buyer[p])
    /\ ToPhase(d, IF purchase[p] = "completed" THEN "done" ELSE "marking", 0)
    /\ UNCHANGED <<available, recorded, payout, purchase, moved, credited>>

MarkCompleted(d) ==
    /\ delivery[d].step = "marking"
    /\ purchase' = [purchase EXCEPT ![PaidFor[d]] = "completed"]
    /\ ToPhase(d, "marked", 0)
    /\ UNCHANGED <<available, recorded, payout, moved, credited>>

\* creditTokens, in a transaction of its own.
ReadCredit(d) ==
    /\ delivery[d].step = "marked"
    /\ ToPhase(d, "crediting", available[Buyer[PaidFor[d]]])
    /\ UNCHANGED <<available, recorded, payout, purchase, moved, credited>>

creditTokens(d) ==
    LET p == PaidFor[d] IN
    /\ delivery[d].step = "crediting"
    /\ available' = [available EXCEPT ![Buyer[p]] = delivery[d].read + Bought[p]]
    /\ credited' = [credited EXCEPT ![p] = @ + 1]
    /\ \E next \in IF Buyer[p] \in Steady THEN {"done"} ELSE {"done", "failing"} : ToPhase(d, next, 0)
    /\ UNCHANGED <<recorded, payout, purchase, moved>>

\* A statement fails: the handler catches that, and marks the purchase failed.
Falter(d) ==
    /\ delivery[d].step \in {"marking", "marked", "crediting"}
    /\ ToPhase(d, "failing", 0)
    /\ UNCHANGED <<available, recorded, payout, purchase, moved, credited>>

MarkFailed(d) ==
    /\ delivery[d].step = "failing"
    /\ purchase' = [purchase EXCEPT ![PaidFor[d]] = "failed"]
    /\ ToPhase(d, "done", 0)
    /\ UNCHANGED <<available, recorded, payout, moved, credited>>

\* The server stops, or marking the failure fails as well.
DropDelivery(d) ==
    /\ delivery[d].step \notin {"ready", "done"}
    /\ ToPhase(d, "done", 0)
    /\ UNCHANGED <<available, recorded, payout, purchase, moved, credited>>

\* What happens to the payments of u and to what u buys.
TokenStep(u) ==
    \/ \E t \in Payouts : Payer[t] = u /\ (ReadPayer(t) \/ ReadPayee(t) \/ transferTokens(t) \/ RollBack(t))
    \/ \E p \in Purchases : Buyer[p] = u /\ createTokenPurchaseCheckout(p)
    \/ \E d \in Deliveries :
          /\ Buyer[PaidFor[d]] = u
          /\ \/ ReadPurchase(d) \/ MarkCompleted(d) \/ ReadCredit(d) \/ creditTokens(d)
             \/ Falter(d) \/ MarkFailed(d) \/ DropDelivery(d)

TokenNext == \E u \in TokenUsers : TokenStep(u)

TokenSpec == TokenInit /\ [][TokenNext]_tokenVars

-----------------------------------------------------------------------------
\* The keys under which tokens moved, and the steady accounts' part of the books.
SteadyPayouts == {t \in Payouts : Payer[t] \in Steady}
SteadyPurchases == {p \in Purchases : Buyer[p] \in Steady}
SteadyOrders == {Key[t] : t \in SteadyPayouts} \cup SteadyPurchases
Move(t) == [u \in Steady |-> IF u = Payer[t] THEN -Amount[t] ELSE IF u = Payee[t] THEN Amount[t] ELSE 0]
Gain(p) == [u \in Steady |-> IF u = Buyer[p] THEN Bought[p] ELSE 0]
Worth(o) == {Move(t) : t \in {s \in SteadyPayouts : Key[s] = o}} \cup {Gain(p) : p \in SteadyPurchases \cap {o}}

Books == INSTANCE TokenBook
            WITH Owners <- Steady,
                 Orders <- SteadyOrders,
                 Delta <- [o \in SteadyOrders |-> Worth(o)],
                 tokens <- [u \in Steady |-> available[u]],
                 booked <- {Key[t] : t \in {s \in SteadyPayouts : moved[s] > 0}}
                             \cup {p \in SteadyPurchases : credited[p] > 0}

\* What makes the books true: on a steady account a transaction has the
\* balances that are there, and what is not completed was not credited.
ReadIsCurrent ==
    /\ \A t \in SteadyPayouts :
          /\ payout[t].step \in {"payer", "both"} => payout[t].from = available[Payer[t]]
                                                     /\ payout[t].from >= Amount[t]
          /\ payout[t].step = "both" => payout[t].to = available[Payee[t]]
    /\ \A d \in Deliveries : Buyer[PaidFor[d]] \in Steady /\ delivery[d].step = "crediting"
                               => delivery[d].read = available[Buyer[PaidFor[d]]]
CreditedIsCompleted ==
    /\ \A p \in SteadyPurchases : credited[p] > 0 => purchase[p] = "completed"
    /\ \A d \in Deliveries : PaidFor[d] \in SteadyPurchases =>
          /\ delivery[d].step \notin {"ready", "done"} => credited[PaidFor[d]] = 0
          /\ delivery[d].step \in {"marked", "crediting"} => purchase[PaidFor[d]] = "completed"
OneAtATime ==
    \A u \in Steady :
        /\ \A t, s \in Paying(u) : t = s
        /\ \A d, e \in Settling(u) : d = e
        /\ Paying(u) = {} \/ Settling(u) = {}
MovedIsRecorded == \A t \in Payouts : moved[t] > 0 => Key[t] \in recorded

\* What makes the next ones so, overlapping or not: a transaction pays from a
\* balance that covered the amount when it was read.
ReadsCover ==
    /\ \A t \in Payouts :
          /\ payout[t].step \in {"payer", "both"} => payout[t].from >= Amount[t]
          /\ payout[t].step = "both" => payout[t].to >= 0
    /\ \A d \in Deliveries : delivery[d].step = "crediting" => delivery[d].read >= 0

\* On accounts whose transactions do not overlap the balances are the books'
\* to the token, however calls are repeated, rolled back, cut off or redelivered.
BalancesAreBooked == Books!Spec

\* A payout is recorded once per requirement ("a transfer that is already
\* recorded is not repeated when the effect that asked for it runs again"): no
\* two calls with one key both move tokens, overlapping or not.
KeyMovesOnce ==
    \A t, s \in Payouts : Key[t] = Key[s] /\ moved[t] > 0 /\ moved[s] > 0 => t = s /\ moved[t] = 1

\* Nobody's balance goes below zero, even where transactions overlap.
NeverOverdrawn == \A u \in TokenUsers : available[u] >= 0

\* However payouts overlap, each requirement is paid once, from tokens that are there.
PaidOnceFromWhatIsThere == KeyMovesOnce /\ NeverOverdrawn

\* "Stripe redelivers events: a purchase already completed is credited exactly
\* once." (webhook.ts)
CreditedAtMostOnce == \A p \in Purchases : credited[p] <= 1
=============================================================================
