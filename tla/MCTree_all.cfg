CONSTANTS
    r1 = r1
    r2 = r2
    s1 = s1
    s2 = s2
    Runs = {r1, r2}
    LastStep = 2
    Payments = {1}
    Servers = {s1, s2}
    ServerOf <- OnEachServer
    ByHand = {hand}
    Unmet = Unmet
    Grant = Grant
    NoRun = NoRun
    bob = bob
    eve = eve
    Own = own
    Members = {bob, eve}
    Items = {i, j}
    MaxSent = 2
    MaxOwnerSteps = 2
    Default = Default
    Nothing = Nothing
    phone = phone
    desk = desk
    m1 = m1
    m2 = m2
    Ends = {phone, desk}
    OwnDevices = {desk}
    Messages = {m1, m2}
    Sender <- SentBy
    Addressee <- SentTo
    Known = {phone}
    MaxLost = 1
    Tabs = {x1, x2}
    Completions = {1}
    Timers = {2}
    MaxEdits = 3
    Explored = {"task", "approvals", "messages", "triggers"}

SPECIFICATION Spec
SYMMETRY Alike

INVARIANT TreeTypeOK
INVARIANT RecordedBeforeCall
INVARIANT PaidWhenDone
PROPERTY ReviewedBeforeRerun
PROPERTY CompletesItsOwn
PROPERTY ByHandKept
PROPERTY CompletesAtOnce
PROPERTY MergedAsApproved
PROPERTY OnlyItsRowsMerge
PROPERTY MessagesKept
PROPERTY FiresOnce

\* Runs, submissions, messages and the owner's steps come a few times: the system stops when they are through.
CHECK_DEADLOCK FALSE
