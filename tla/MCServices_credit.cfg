CONSTANTS
    i1 = i1
    i2 = i2
    a1 = a1
    a2 = a2
    a3 = a3
    a4 = a4
    v1 = v1
    v2 = v2
    v3 = v3
    v4 = v4
    ann = ann
    ben = ben
    cyd = cyd
    dot = dot
    t1 = t1
    t2 = t2
    t3 = t3
    t4 = t4
    t5 = t5
    p1 = p1
    p2 = p2
    d1 = d1
    d2 = d2
    d3 = d3
    d4 = d4
    ra = ra
    rb = rb
    rc = rc
    vx = vx
    vy = vy
    ek = ek
    Fields = {f}
    Values = {vx, vy}
    Rows = {ra, rb, rc}
    Kinds = {ek, ej}
    Literals = {rb, rc}
    Absent = Absent
    Agreed <- SmallShapes
    MaxEdits = 4
    Logins = {}
    LoginServers = {s1, s2}
    Invites = {}
    Askers = {}
    For <- ForAsker
    Verdicts = {}
    About <- AboutInvite
    Raced = {}
    NoPeer = NoPeer
    TokenUsers = {ann, ben, cyd, dot}
    Steady = {ann, ben}
    Payouts = {t1, t2, t3, t4, t5}
    Key <- PayoutKey
    Payer <- PaidFrom
    Payee <- PaidTo
    Amount <- PaidTokens
    Purchases = {p1, p2}
    Buyer <- PurchaseBuyer
    Bought <- PurchaseTokens
    Deliveries = {d1, d2, d3, d4}
    PaidFor <- DeliveryOf
    m1 = m1
    m2 = m2
    n1 = n1
    n2 = n2
    c1 = c1
    c2 = c2
    q1 = q1
    q2 = q2
    Devices = {m1, m2}
    Sockets = {}
    DeviceOf <- SocketDevice
    Reached <- Offered
    References = {n1, n2}
    HeldAt <- NodeDevice
    Reads = {}
    MaxWaiting = 1
    MaxChanges = 2
    NoReference = NoReference
    NoSocket = NoSocket
    Tasks = {ta, tb}
    Plain = {tb}
    Slots = {s1, s2}
    OldTasks = {ta}
    MaxKept = 2
    MaxTicks = 4

SPECIFICATION Spec

INVARIANT CreditedAtMostOnce

CHECK_DEADLOCK FALSE
