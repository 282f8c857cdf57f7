\* Months drawn from the seeded catalogue; two two-step requests in flight, timed
\* and untimed; a month of three days with a bill on the second, and two boards
\* that send two commands at a time.
SPECIFICATION MonthsSpec
CONSTANTS
    None = None
    rent = rent
    phone = phone
    plan = plan
    repair = repair
    visit = visit
    Days = 3
    DayLength = 1
    DecisionLength = 2
    Budget = 4
    Splits = {2, 4}
    Retention = 150
    BonusCeiling = 4
    Bills = {rent, phone, plan}
    Initial = {rent}
    Scheduled = {phone}
    ShowDay <- ShowDays
    Due <- DueDays
    Amount <- AmountOf
    Award <- Awards
    SavedAward <- SavedAwards
    Penalty <- Penalties
    Events = {repair, visit}
    TriggerDay <- Triggers
    Options <- OptionsOf
    Expiry <- ExpiryOf
    Modes = {TRUE, FALSE}
    Requests = {q1, q2}
    MaxLag = 2
    Commands = {q1, q2}
    FinalDay = 2
    NewDay = 1
    TimedModes = {TRUE, FALSE}
    MaxKeys = 2
    MaxReads = 2
    MaxBoards = 2
    StartingBudgets = {4000, 7000}
    FutureDays = {3, 24}
    Deactivated = {{}, {"car_repair", "rent", "debt", "phone", "internet"},
                   {"car_repair", "medical_plan", "family_loan"}}
    Nothing = Nothing
INVARIANTS
    MonthsTypeOK
    OneQuestion
    MonthAddsUp
    MonthIsPlayable
    BoardIsTrue
PROPERTIES
    ImplementsMonth
SYMMETRY Alike
CHECK_DEADLOCK FALSE
