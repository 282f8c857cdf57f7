\* Two items of one slot and three transactions, two at a time; two occurrences
\* and two recalculations at a time; three days with a daily quiz each, or a quiz
\* of two questions on the topic, and three answers.
SPECIFICATION ProfilesSpec
CONSTANTS
    cap = cap
    hat = hat
    Txs = {t1, t2}
    NoTx = NoTx
    Items = {cap, hat}
    Slot <- OneSlot
    Cost <- OneCoin
    Badges = {"PAYMENT", "SIMULATION"}
    XpPerLevel = 2
    MaxBegun = 3
    o1 = o1
    o2 = o2
    Occs = {o1, o2}
    Due <- DueAtOnce
    Kind <- TwoKinds
    Priority <- HighAndLow
    Amount <- ThreeEach
    Budgets = {0, 4, 12}
    Lateness <- FiveDelays
    Recalcs = {t1, t2}
    Times <- ThreeTimes
    q1 = q1
    q2 = q2
    Asked <- OneAndTwo
    QuizCalls = {t1, t2}
    MaxDay = 2
    MaxTopics = 1
    MaxAnswers = 3
    NoOne = NoOne
    MaxOpened = 2
INVARIANTS
    ProfilesTypeOK
    ShopIsFair
    RewardsAddUp
    EventsExplainScore
    ScoreFollowsConduct
    QuizIsFair
PROPERTY MoodsLast
SYMMETRY Alike
CHECK_DEADLOCK FALSE
