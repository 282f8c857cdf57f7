\* One two-step request at a time, under fair polling and time.
SPECIFICATION FairSpec
CONSTANTS
    None = None
    rent = rent
    phone = phone
    plan = plan
    repair = repair
    visit = visit
    Days = 3
    DayLength = 1
    DecisionLength = 2
    Budget = 4
    Splits = {2, 4}
    Retention = 150
    BonusCeiling = 4
    Bills = {rent, phone, plan}
    Initial = {rent}
    Scheduled = {phone}
    ShowDay <- ShowDays
    Due <- DueDays
    Amount <- AmountOf
    Award <- Awards
    SavedAward <- SavedAwards
    Penalty <- Penalties
    Events = {repair, visit}
    TriggerDay <- Triggers
    Options <- OptionsOf
    Expiry <- ExpiryOf
    Modes = {TRUE, FALSE}
    Requests = {q1}
    MaxLag = 2
INVARIANTS
    ClocksFollowHold
PROPERTIES
    TimedMonthEnds
