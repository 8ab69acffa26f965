CONSTANTS
    here = here
    there = there
    visitor = visitor
    guest = guest
    sync = sync
    edit = edit
    Servers = {here, there}
    Accounts = {1}
    Calls = {sync, edit}
    Host <- MixedHost
    Plan <- RefreshPlan
    NoCall = NoCall

SPECIFICATION Spec

INVARIANT NoCommitLost

CHECK_DEADLOCK FALSE
