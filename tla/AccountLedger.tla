--------------------------- MODULE AccountLedger ---------------------------
(***************************************************************************)
(* What saving promises the rest of the program: an account's tree is one  *)
(* growing record of the writes that were committed to it.  A commit adds  *)
(* one write to what is there; it never takes the place of another's.      *)
(***************************************************************************)
CONSTANTS Accounts, Writes

VARIABLE root   \* per account, the writes its current tree contains

Init == root = [a \in Accounts |-> {}]

Commit(a, w) ==
    /\ w \notin root[a]
    /\ root' = [root EXCEPT ![a] = @ \cup {w}]

Next == \E a \in Accounts, w \in Writes : Commit(a, w)

Spec == Init /\ [][Next]_root
=============================================================================
