\* Two fixed instalments, generated three times, two requests and two runs at once.
SPECIFICATION HouseholdSpec
CONSTANTS
    Frequency = "FIXED_INSTALLMENT"
    Total = 2
    Horizon = 0
    Starts = {1}
    Calls = {c1, c2}
    r1 = r1
    c1 = c1
    Runs = {r1, r2}
    MaxDay = 1
    MaxRounds = 3
    MaxLives = 1
    MaxPaid = 2
    MaxCrashes = 1
INVARIANTS
    ObligationsTypeOK
    EachRoundClosesTheLast
    RemindedOnce
PROPERTY RemindersGoOut
CHECK_DEADLOCK FALSE
