\* A scheduler run works from a stale list.
SPECIFICATION Spec
CONSTANTS
    o1 = o1
    o2 = o2
    b1 = b1
    Occs = {o1}
    Obligations = {b1}
    Keys = {k1}
    Scans = {}
    Voiders = {}
    Loggers = {}
    Runs = {r1}
    None = None
    ObligationOf <- OneObligation
    AmountDue <- TwoUnits
    DueAt <- DueAtZero
    ScanExpiry = 2
    MissedAfter = 1
    MaxTime = 1
    MaxCrashes = 0
PROPERTIES
    SettledStaysSettled
