\* One wager, its players with a coin each, two requests and two scheduler runs.
SPECIFICATION Spec
CONSTANTS
    u1 = u1
    u2 = u2
    w1 = w1
    w2 = w2
    Users = {u1, u2}
    Wagers = {w1}
    Clients = {c1, c2}
    Runs = {r1, r2}
    CreatorOf <- Creators
    OpponentOf <- Opponents
    Stake <- OneEach
    Duration = 1
    InviteExpiry = 1
    StartCoins <- OneCoin
    Leavers = {u2}
    MaxTime = 2
    MaxCoins = 1
    MaxCrashes = 1
INVARIANTS
    TypeOK
    CoinsReconcile
PROPERTIES
    ImplementsBook
SYMMETRY Alike
