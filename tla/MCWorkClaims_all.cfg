SPECIFICATION MCSpec
CONSTANTS
    o = o
    w1 = w1
    w2 = w2
    c1 = c1
    c2 = c2
    p = p
    main = main
    feature = feature
    Instances = {"workers", "branches"}
    Paths <- AllPaths
    Tasks <- AllTasks
    Choices <- TheChoice
    Names = {main, feature}
    Sessions = {o, w1, w2}
    Owners = {o}
    Mcp = {w1}
    Peers = {p}
    ClaimIds = {c1, c2}
    Lease = 2
    MaxPending = 1
    MaxProposals = 1
    MemberPaths <- AllPaths
    Grants <- AllOrNothing
    NoClaim = NoClaim
    Nobody = Nobody
    Main = main
    MaxClaims = 256
    Attachment <- AtRoot
    PeerOf <- OnePeer
VIEW StateView
INVARIANT TypeOK
INVARIANT ExclusiveClaims
INVARIANT OneClaimPerSession
PROPERTY ClaimEndsByItsHolder
PROPERTY CrashedWorkIsFreed
PROPERTY ClaimsShieldWork
PROPERTY ScopedWorkStaysInTask
