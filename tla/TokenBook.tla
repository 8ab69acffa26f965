----------------------------- MODULE TokenBook -----------------------------
(***************************************************************************)
(* What the owners of token balances are promised: what was earned or      *)
(* bought is there, every transfer and every purchase counts once, and     *)
(* nobody spends what he does not have.                                    *)
(***************************************************************************)
EXTENDS Integers

CONSTANTS
    Owners,
    Orders,   \* what may be booked: transfers and purchases
    Delta     \* per order, what each way of booking it does: a set of functions from Owners to Int

VARIABLES
    tokens,   \* per owner
    booked    \* the orders that were booked

Init == tokens = [u \in Owners |-> 0] /\ booked = {}

Book(o) ==
    /\ o \notin booked
    /\ booked' = booked \cup {o}
    /\ \E d \in Delta[o] : tokens' = [u \in Owners |-> tokens[u] + d[u]]
    /\ \A u \in Owners : tokens'[u] >= 0

Next == \E o \in Orders : Book(o)

Spec == Init /\ [][Next]_<<tokens, booked>>
=============================================================================
