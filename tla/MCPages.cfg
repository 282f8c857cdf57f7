\* Two users, a mutation of the pages and another request beside it; and a bill of
\* two units paid from a page, beside two other things; and two saves of the
\* guidance of one account, over a tour of two pages or a midnight.
SPECIFICATION PagesSpec
CONSTANTS
    Users = {a, b}
    Calls = {c1, c2}
    Leavers = {b}
    NoCall = NoCall
    Me = a
    Mine = c1
    Pages <- OneListPages
    MaxLoads = 2
    MaxVisits = 2
    OtherOps = {"send", "accept"}
    o1 = o1
    o2 = o2
    b1 = b1
    k1 = k1
    k2 = k2
    k3 = k3
    Occs = {o1, o2}
    Obligations = {b1}
    Keys = {k1, k2, k3}
    Scans = {s1}
    Voiders = {v1}
    Loggers = {l1}
    Runs = {r1}
    None = None
    ObligationOf <- OneObligation
    AmountDue <- TwoUnits
    DueAt <- DueAtZero
    ScanExpiry = 1
    MissedAfter = 1
    MaxTime = 1
    MaxCrashes = 0
    Sends = {p1, p2}
    Bill = o1
    MaxOpened = 1
    MaxOthers = 2
    Tips = {t1}
    Switches = {"tipsEnabled"}
    Stops <- TwoPages
    Accounts = {a}
    NoAccount = NoAccount
    NoPatch = NoPatch
    NoLoad = NoLoad
    NoRoute = NoRoute
    Elsewhere = Elsewhere
    MaxSaves = 2
    MaxNight = 1
    MaxSessions = 2
INVARIANTS
    PagesTypeOK
    OwnActionsShow
    PaysOnce
    TellsTheTruth
    GuidanceIsKept
CONSTRAINT KeysInOrder
PROPERTY ImplementsFriendBook
CHECK_DEADLOCK FALSE
