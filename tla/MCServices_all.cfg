CONSTANTS
    i1 = i1
    i2 = i2
    a1 = a1
    a2 = a2
    a3 = a3
    a4 = a4
    v1 = v1
    v2 = v2
    v3 = v3
    v4 = v4
    ann = ann
    ben = ben
    cyd = cyd
    dot = dot
    t1 = t1
    t2 = t2
    t3 = t3
    t4 = t4
    t5 = t5
    p1 = p1
    p2 = p2
    d1 = d1
    d2 = d2
    d3 = d3
    d4 = d4
    ra = ra
    rb = rb
    rc = rc
    vx = vx
    vy = vy
    ek = ek
    Fields = {f}
    Values = {vx, vy}
    Rows = {ra, rb, rc}
    Kinds = {ek, ej}
    Literals = {rb, rc}
    Absent = Absent
    Agreed <- SmallShapes
    MaxEdits = 3
    Logins = {k1, k2}
    LoginServers = {s1, s2}
    Invites = {i1, i2}
    Askers = {a1, a2, a3, a4}
    For <- ForAsker
    Verdicts = {v1, v2, v3, v4}
    About <- AboutInvite
    Raced = {i2}
    NoPeer = NoPeer
    TokenUsers = {ann, ben, cyd, dot}
    Steady = {ann, ben}
    Payouts = {t1, t2, t3, t4, t5}
    Key <- PayoutKey
    Payer <- PaidFrom
    Payee <- PaidTo
    Amount <- PaidTokens
    Purchases = {p1, p2}
    Buyer <- PurchaseBuyer
    Bought <- PurchaseTokens
    Deliveries = {d1, d2, d3, d4}
    PaidFor <- DeliveryOf
    m1 = m1
    m2 = m2
    n1 = n1
    n2 = n2
    c1 = c1
    c2 = c2
    q1 = q1
    q2 = q2
    Devices = {m1, m2}
    Sockets = {c1, c2}
    DeviceOf <- SocketDevice
    Reached <- Offered
    References = {n1, n2}
    HeldAt <- NodeDevice
    Reads = {q1, q2}
    MaxWaiting = 1
    MaxChanges = 1
    NoReference = NoReference
    NoSocket = NoSocket
    Tasks = {ta, tb}
    Plain = {tb}
    Slots = {s1, s2}
    OldTasks = {ta}
    MaxKept = 2
    MaxTicks = 4

SPECIFICATION Spec

INVARIANT ServicesTypeOK
INVARIANT CredentialsWereApproved
 
INVARIANT PushesAgree
INVARIANT NobodyWaitsForGone
INVARIANT ValuesStay
INVARIANT UndoLosesNothing
PROPERTY ApprovedIsAnswered
PROPERTY DeviceOneTime
PROPERTY InviteOneTime
PROPERTY BalancesAreBooked
PROPERTY InstalledAsAsked

\* Logins, invites, payments and edits come once each: the system stops when they are through.
CHECK_DEADLOCK FALSE
