\* Two voids of one contribution.
SPECIFICATION Spec
CONSTANTS
    o1 = o1
    o2 = o2
    b1 = b1
    Occs = {o1}
    Obligations = {b1}
    Keys = {k1, k2}
    Scans = {}
    Voiders = {v1, v2}
    Loggers = {}
    Runs = {r1}
    None = None
    ObligationOf <- OneObligation
    AmountDue <- ThreeUnits
    DueAt <- DueAtZero
    ScanExpiry = 2
    MissedAfter = 1
    MaxTime = 1
    MaxCrashes = 0
INVARIANTS
    BalanceIsPostedTotal
