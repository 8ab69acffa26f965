--------------------------- MODULE MCAccountStore ---------------------------
(***************************************************************************)
(* Small instances of AccountStore: two servers, two accounts, and the     *)
(* plans of the handlers that differ in how they use the store.            *)
(***************************************************************************)
EXTENDS AccountStore

CONSTANTS here, there, visitor, guest, sync, edit

\* The steps of the handlers.
Edited(a)     == <<[do |-> "load", at |-> a], [do |-> "save", at |-> a]>>
Refreshed(a)  == <<[do |-> "load", at |-> a], [do |-> "copy", at |-> a], [do |-> "offer", at |-> a]>>
Returned(h, g) == <<[do |-> "load", at |-> h], [do |-> "load", at |-> g], [do |-> "offer", at |-> g]>>
Submitted(h, g) == <<[do |-> "load", at |-> h], [do |-> "load", at |-> g],
                     [do |-> "save", at |-> g], [do |-> "save", at |-> h]>>

\* Account 1 is used on one server, account 2 on both.  Account 2 submits to a
\* node of 1, 1 returns to a node of 2, a device syncs 1 and its project is
\* refreshed, and the other server edits 2.
MixedHost == [c \in Calls |-> IF c = edit THEN there ELSE here]
MixedPlan == [c \in Calls |-> CASE c = visitor -> Returned(2, 1)
                                [] c = guest -> Submitted(1, 2)
                                [] c = sync -> Refreshed(1)
                                [] c = edit -> Edited(2)]

\* A sync that refreshes a project on one server, and an edit on the other.
RefreshPlan == [c \in Calls |-> IF c = edit THEN Edited(1) ELSE Refreshed(1)]
=============================================================================
