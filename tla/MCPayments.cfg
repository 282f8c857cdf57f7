\* One occurrence: overlapping voids, a legacy request and two overlapping
\* scheduler runs.
SPECIFICATION Spec
CONSTANTS
    o1 = o1
    o2 = o2
    b1 = b1
    Occs = {o1}
    Obligations = {b1}
    Keys = {k1, k2}
    Scans = {s1}
    Voiders = {v1, v2}
    Loggers = {l1}
    Runs = {r1, r2}
    None = None
    ObligationOf <- OneObligation
    AmountDue <- ThreeUnits
    DueAt <- DueAtZero
    ScanExpiry = 2
    MissedAfter = 1
    MaxTime = 2
    MaxCrashes = 1
SYMMETRY Symmetry
INVARIANTS
    TypeOK
    PaidWithinDue
    PaidBackedByPosted
    StatusMatchesBalance
    EffectsMatchSettlement
    MissedAfterGrace
PROPERTIES
    MoneyLeavesByVoid
