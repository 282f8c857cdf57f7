\* Two crossed wagers, whose transactions deadlock, under fair scheduling.
SPECIFICATION FairSpec
CONSTANTS
    u1 = u1
    u2 = u2
    w1 = w1
    w2 = w2
    Users = {u1, u2}
    Wagers = {w1, w2}
    Clients = {c1}
    Runs = {r1}
    CreatorOf <- Creators
    OpponentOf <- Opponents
    Stake <- OneEach
    Duration = 1
    InviteExpiry = 1
    StartCoins <- TwoCoins
    Leavers = {u2}
    MaxTime = 1
    MaxCoins = 0
    MaxCrashes = 1
INVARIANT StakesFollowStatus
PROPERTY WagersEnd
