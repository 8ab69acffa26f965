CONSTANTS
    here = here
    there = there
    visitor = visitor
    guest = guest
    sync = sync
    edit = edit
    Servers = {here, there}
    Accounts = {1, 2}
    Calls = {visitor, guest, sync, edit}
    Host <- MixedHost
    Plan <- MixedPlan
    NoCall = NoCall

SPECIFICATION Spec

INVARIANT TypeOK
INVARIANT InTurn
INVARIANT NoCommitLost
INVARIANT SavedInOrder
PROPERTY AtomicStore
PROPERTY EveryCallLeaves

\* Calls come once each: the system stops when the last has left.
CHECK_DEADLOCK FALSE
