\* Two occurrences of one obligation that compete for keys and a scan.
SPECIFICATION FairSpec
CONSTANTS
    o1 = o1
    o2 = o2
    b1 = b1
    Occs = {o1, o2}
    Obligations = {b1}
    Keys = {k1, k2}
    Scans = {s1}
    Voiders = {v1}
    Loggers = {}
    Runs = {r1}
    None = None
    ObligationOf <- OneObligation
    AmountDue <- TwoUnits
    DueAt <- DueAtZero
    ScanExpiry = 2
    MissedAfter = 1
    MaxTime = 2
    MaxCrashes = 1
INVARIANTS
    ScanBacksOneContribution
PROPERTIES
    ImplementsLedger
    PastDueNoticed
