--------------------------- MODULE ProfilesProofs --------------------------
(***************************************************************************)
(* Proofs about what concurrent transactions add to a user's profiles.     *)
(* Profile and shop, for every set of items, badges and transactions: the  *)
(* lock on the profile keeps what a transaction has found of the coins and *)
(* the sums, an equip that is alone in its slot sees everything that is on,*)
(* and a mood the scheduler has read is still the one it found if its date *)
(* is.  Credit score, for all obligations and budgets: the formula follows *)
(* what the user does, and the events explain the profile.  Quizzes, for   *)
(* all questions, sessions and requests: a quiz ends rightly, is settled   *)
(* once and counts for its day.                                            *)
(***************************************************************************)
EXTENDS MCProfiles, SumTheorems, SequenceTheorems, TLAPS

-----------------------------------------------------------------------------
(* The inductive invariant                                                 *)

\* Only settlements and purchases lock the profile.  A settlement has read it
\* before if and only if it is of a kind that does; a purchase has found coins
\* that nobody else can take.
Keeps(t) ==
    /\ tx[t].op = "settle" /\ tx[t].read => ReadsFirst(tx[t].kind)
    /\ HasLock(t) =>
         \/ tx[t].op = "settle" /\ tx[t].read = ReadsFirst(tx[t].kind)
         \/ tx[t].op = "buy" /\ Affordable(tx[t].item)
LockKeeps == \A t \in Txs : Keeps(t)

\* What is put on or taken off is in the bag, and nothing leaves it.
OwnsWhatItMoves == \A t \in Txs :
    /\ tx[t].op \in {"equip", "unequip"} => bag[tx[t].item] # "none"
    /\ tx[t].op = "equip" => \A j \in tx[t].off : bag[j] # "none"

\* Equips for one slot at one time know of each other, and the slot counts as
\* overlapped for as long as one of them goes on.
EquipsKnow == \A t \in Txs, s \in Slots : Equipping(t, s) =>
    /\ tx[t].alone => \A u \in Txs \ {t} : ~Equipping(u, s)
    /\ ~tx[t].alone => s \in overlapped

\* One that is alone takes off everything else that is on.
AloneSeesAll == \A t \in Txs :
    tx[t].op = "equip" /\ tx[t].at # "owned" /\ tx[t].alone =>
      Others(tx[t].item) \subseteq tx[t].off

OneOn == \A s \in Slots \ overlapped : \A i, j \in Items :
    Slot[i] = s /\ Slot[j] = s /\ bag[i] = "on" /\ bag[j] = "on" => i = j

\* The mood the scheduler has read has passed, unless it was set since.
DecaysDue == \A t \in Txs : tx[t].op = "decay" =>
    /\ tx[t].seen.moodSet <= profile.moodSet
    /\ tx[t].seen.moodSet = profile.moodSet =>
         tx[t].seen.mood = profile.mood /\ moodAge >= Lasts[profile.mood]

ProfileSafe ==
    /\ RewardsTypeOK
    /\ LockKeeps
    /\ CoinsBuyOnce
    /\ RewardsAddUp
    /\ OwnsWhatItMoves
    /\ EquipsKnow
    /\ AloneSeesAll
    /\ OneOn
    /\ DecaysDue

-----------------------------------------------------------------------------
(* What a settlement brings                                                *)

Effect == [coins: {0, 1}, xp: {0, 1}, streak: {"keep", "advance", "reset"},
           mood: {"keep", "HAPPY", "STRESSED", "SAD"},
           badge: {"none", "PAYMENT", "SIMULATION"}]

\* Every settlement has an effect of this form, and none is neutral in mood.
LEMMA EffectTyped == ASSUME NEW kind \in Kinds PROVE Settlement[kind] \in Effect
<1>1. kind \in {"onTime", "late", "quiz", "obligation", "simulation", "missed"}
  BY DEF Kinds, Settlement
<1>2. Nothing \in Effect
  BY DEF Nothing, Effect
<1>3. CASE kind = "onTime"
  BY <1>3 DEF Settlement, Effect
<1>4. CASE kind = "late"
  BY <1>2, <1>4 DEF Settlement, Effect
<1>5. CASE kind = "quiz"
  BY <1>2, <1>5 DEF Settlement, Effect
<1>6. CASE kind = "obligation"
  BY <1>2, <1>6 DEF Settlement, Effect
<1>7. CASE kind = "simulation"
  BY <1>2, <1>7 DEF Settlement, Effect
<1>8. CASE kind = "missed"
  BY <1>2, <1>8 DEF Settlement, Effect
<1> QED BY <1>1, <1>3, <1>4, <1>5, <1>6, <1>7, <1>8

\* The level reached with some XP is a number.
LEMMA LevelTyped == ASSUME NEW xp \in Nat PROVE 1 + xp \div XpPerLevel \in Nat
<1>1. XpPerLevel \in Nat /\ XpPerLevel > 0
  BY RewardsConstants
<1>2. xp \div XpPerLevel \in Nat
  BY <1>1
<1> QED BY <1>2

\* What a settlement has seen of the profile, and the sums it writes.
SeenBy(t) == IF tx[t].read THEN tx[t].seen ELSE profile
EarnsNow(t) == IF Earns(tx[t].kind) THEN 1 ELSE 0
SumsOf(t) == LET s == Settlement[tx[t].kind] IN
             WithStreak(WithXp(profile, SeenBy(t), s.xp), SeenBy(t), s.streak)
MoodOf(t) ==
    IF \/ Earns(tx[t].kind)
       \/ /\ tx[t].kind # "simulation"
          /\ SumsOf(t).level > 1 + SeenBy(t).xp \div XpPerLevel
    THEN "CELEBRATING" ELSE Settlement[tx[t].kind].mood

\* The transactions by what they do.
LEMMA TxKinds ==
  ASSUME RewardsTypeOK, NEW t \in Txs
  PROVE  /\ tx[t] \in Tx
         /\ tx[t].op \in {"none", "settle", "buy", "equip", "unequip", "decay"}
         /\ tx[t].op = "none" => tx[t] = NoOp
         /\ tx[t].op = "settle" =>
              tx[t] \in [op: {"settle"}, kind: Kinds, read: BOOLEAN, seen: Profile]
         /\ tx[t].op = "buy" => tx[t] \in [op: {"buy"}, item: Items]
         /\ tx[t].op = "equip" =>
              tx[t] \in [op: {"equip"}, item: Items, at: {"owned", "start", "off"},
                         off: SUBSET Items, alone: BOOLEAN]
         /\ tx[t].op = "unequip" => tx[t] \in [op: {"unequip"}, item: Items]
         /\ tx[t].op = "decay" => tx[t] \in [op: {"decay"}, seen: Profile]
<1>1. tx[t] \in Tx
  BY DEF RewardsTypeOK
<1> QED BY <1>1 DEF Tx, NoOp

\* The sums a settlement writes: XP with its level, and the streak with the
\* longest one, each from what it has seen.
LEMMA SumsWritten ==
  ASSUME RewardsTypeOK, NEW t \in Txs, tx[t].op = "settle"
  PROVE  LET s == Settlement[tx[t].kind]
             seen == SeenBy(t)
             sums == SumsOf(t)
         IN
         /\ seen \in Profile
         /\ sums \in Profile
         /\ sums.coins = profile.coins
         /\ sums.mood = profile.mood /\ sums.moodSet = profile.moodSet
         /\ sums.xp = IF s.xp = 0 THEN profile.xp ELSE seen.xp + 1
         /\ sums.level = 1 + sums.xp \div XpPerLevel
         /\ s.streak = "keep" =>
              sums.streak = profile.streak /\ sums.longest = profile.longest
         /\ s.streak # "keep" =>
              /\ sums.streak = IF s.streak = "advance" THEN seen.streak + 1 ELSE 0
              /\ sums.longest = IF sums.streak > seen.longest THEN sums.streak
                                ELSE seen.longest
         /\ sums.streak <= sums.longest
<1> DEFINE s == Settlement[tx[t].kind]
           seen == SeenBy(t)
           p == WithXp(profile, seen, s.xp)
           sums == WithStreak(p, seen, s.streak)
<1>1. s \in Effect /\ seen \in Profile /\ profile \in Profile
  BY TxKinds, EffectTyped DEF SeenBy, RewardsTypeOK
<1> HIDE DEF s, seen
<1>2. /\ p \in Profile
      /\ p.coins = profile.coins
      /\ p.mood = profile.mood /\ p.moodSet = profile.moodSet
      /\ p.streak = profile.streak /\ p.longest = profile.longest
      /\ p.xp = IF s.xp = 0 THEN profile.xp ELSE seen.xp + 1
      /\ p.level = 1 + p.xp \div XpPerLevel
  <2>1. s.xp \in {0, 1} /\ seen.xp \in Nat
    BY <1>1 DEF Effect, Profile
  <2>2. CASE s.xp = 0
    BY <1>1, <2>2 DEF WithXp, RewardsTypeOK
  <2>3. CASE s.xp = 1
    <3>1. seen.xp + 1 \in Nat
      BY <2>1
    <3>2. 1 + (seen.xp + 1) \div XpPerLevel \in Nat
      BY <3>1, LevelTyped
    <3>3. p = [profile EXCEPT !.xp = seen.xp + 1, !.level = 1 + (seen.xp + 1) \div XpPerLevel]
      BY <2>3 DEF WithXp
    <3> DEFINE level == 1 + (seen.xp + 1) \div XpPerLevel
    <3>4. p = [profile EXCEPT !.xp = seen.xp + 1, !.level = level] /\ level \in Nat
      BY <3>2, <3>3
    <3> HIDE DEF p
    <3>5. p.xp = seen.xp + 1 /\ level = 1 + p.xp \div XpPerLevel
      BY <1>1, <3>3 DEF Profile
    <3> HIDE DEF level
    <3>6. /\ p \in Profile
          /\ p.coins = profile.coins
          /\ p.mood = profile.mood /\ p.moodSet = profile.moodSet
          /\ p.streak = profile.streak /\ p.longest = profile.longest
          /\ p.level = level
      BY <1>1, <3>1, <3>4 DEF Profile
    <3> QED BY <2>3, <3>5, <3>6
  <2> QED BY <2>1, <2>2, <2>3
<1> HIDE DEF p
<1>3. /\ sums \in Profile
      /\ sums.coins = p.coins
      /\ sums.mood = p.mood /\ sums.moodSet = p.moodSet
      /\ sums.xp = p.xp /\ sums.level = p.level
      /\ s.streak = "keep" => sums.streak = p.streak /\ sums.longest = p.longest
      /\ s.streak # "keep" =>
           /\ sums.streak = IF s.streak = "advance" THEN seen.streak + 1 ELSE 0
           /\ sums.longest = IF sums.streak > seen.longest THEN sums.streak
                             ELSE seen.longest
  <2>1. s.streak \in {"keep", "advance", "reset"}
    BY <1>1 DEF Effect
  <2>2. CASE s.streak = "keep"
    BY <1>2, <2>2 DEF WithStreak
  <2>3. CASE s.streak # "keep"
    <3> DEFINE current == IF s.streak = "advance" THEN seen.streak + 1 ELSE 0
               longest == IF current > seen.longest THEN current ELSE seen.longest
    <3>1. sums = [p EXCEPT !.streak = current, !.longest = longest]
      BY <2>3 DEF WithStreak
    <3>2. current \in Nat /\ longest \in Nat
      BY <1>1 DEF Profile
    <3> HIDE DEF current
    <3>3. sums.streak = current
      BY <1>2, <3>1 DEF Profile
    <3> QED BY <1>2, <2>3, <3>1, <3>2, <3>3 DEF Profile, current
  <2> QED BY <2>1, <2>2, <2>3
<1>4. sums.streak <= sums.longest
  <2>1. profile.streak <= profile.longest
    BY DEF RewardsTypeOK
  <2>2. seen.longest \in Nat /\ sums.streak \in Nat /\ sums.longest \in Nat
    BY <1>1, <1>3 DEF Profile
  <2> QED BY <1>2, <1>3, <2>1, <2>2
<1>5. SumsOf(t) = sums /\ SeenBy(t) = seen /\ Settlement[tx[t].kind] = s
  BY DEF SumsOf, sums, p, s, seen
<1> HIDE DEF sums
<1> QED BY <1>1, <1>2, <1>3, <1>4, <1>5

\* What the commit of a settlement leaves.
LEMMA SettleWrites ==
  ASSUME RewardsTypeOK, NEW t \in Txs, SettleCommit(t)
  PROVE  LET s == Settlement[tx[t].kind]
             sums == SumsOf(t)
             coins == s.coins + EarnsNow(t)
         IN
         /\ s \in Effect /\ coins \in Nat /\ MoodOf(t) \in (Moods \ {"NEUTRAL"}) \cup {"keep"}
         /\ profile' \in Profile
         /\ profile'.coins = profile.coins + coins
         /\ ledger' = [ledger EXCEPT !.earned = @ + coins]
         /\ profile'.xp = sums.xp /\ profile'.level = sums.level
         /\ profile'.streak = sums.streak /\ profile'.longest = sums.longest
         /\ profile'.mood = IF MoodOf(t) = "keep" THEN profile.mood ELSE MoodOf(t)
         /\ profile'.moodSet = profile.moodSet + IF MoodOf(t) = "keep" THEN 0 ELSE 1
         /\ moodAge' = IF MoodOf(t) = "keep" THEN moodAge ELSE 0
<1> DEFINE s == Settlement[tx[t].kind]
           sums == SumsOf(t)
           mood == MoodOf(t)
           coins == s.coins + EarnsNow(t)
<1>1. tx[t].op = "settle" /\ tx[t].kind \in Kinds
  BY TxKinds DEF SettleCommit
<1>2. s \in Effect
  BY <1>1, EffectTyped
<1>3. /\ profile' = [sums EXCEPT !.coins = @ + coins,
                       !.mood = IF mood = "keep" THEN @ ELSE mood,
                       !.moodSet = IF mood = "keep" THEN @ ELSE @ + 1]
      /\ ledger' = [ledger EXCEPT !.earned = @ + coins]
      /\ moodAge' = IF mood = "keep" THEN moodAge ELSE 0
  BY DEF SettleCommit, SumsOf, MoodOf, EarnsNow, SeenBy
<1>4. mood \in (Moods \ {"NEUTRAL"}) \cup {"keep"}
  <2>1. s.mood \in {"keep", "HAPPY", "STRESSED", "SAD"}
    BY <1>2 DEF Effect
  <2>2. mood \in {"CELEBRATING", s.mood}
    BY DEF MoodOf
  <2> QED BY <2>1, <2>2 DEF Moods
<1>5. coins \in Nat
  <2>1. s.coins \in {0, 1} /\ EarnsNow(t) \in {0, 1}
    BY <1>2 DEF Effect, EarnsNow
  <2> QED BY <2>1
<1>6. /\ sums \in Profile /\ sums.coins = profile.coins
      /\ sums.mood = profile.mood /\ sums.moodSet = profile.moodSet
  BY <1>1, SumsWritten
<1> HIDE DEF s, sums, mood, coins
<1>7. sums.coins + coins \in Int
  BY <1>5, <1>6 DEF Profile
<1>8. /\ (IF mood = "keep" THEN sums.mood ELSE mood) \in Moods
      /\ (IF mood = "keep" THEN sums.moodSet ELSE sums.moodSet + 1) \in Nat
  BY <1>4, <1>6 DEF Profile
<1>9. /\ profile' \in Profile
      /\ profile'.coins = profile.coins + coins
      /\ profile'.xp = sums.xp /\ profile'.level = sums.level
      /\ profile'.streak = sums.streak /\ profile'.longest = sums.longest
      /\ profile'.mood = IF mood = "keep" THEN profile.mood ELSE mood
      /\ profile'.moodSet = IF mood = "keep" THEN profile.moodSet ELSE profile.moodSet + 1
  BY <1>3, <1>6, <1>7, <1>8 DEF Profile
<1>10. profile.moodSet + 0 = profile.moodSet
  BY DEF RewardsTypeOK, Profile
<1> QED BY <1>2, <1>3, <1>4, <1>5, <1>9, <1>10 DEF s, sums, mood, coins

-----------------------------------------------------------------------------
(* Type correctness                                                        *)

\* A new profile with nothing under way has the declared types.
LEMMA TypeInit == RewardsInit => RewardsTypeOK
<1> SUFFICES ASSUME RewardsInit PROVE RewardsTypeOK
  OBVIOUS
<1> USE RewardsConstants
<1>1. profile \in Profile /\ profile.level = 1 + profile.xp \div XpPerLevel
      /\ profile.streak <= profile.longest
  <2>1. 0 \div XpPerLevel = 0
    OBVIOUS
  <2>2. NewProfile \in Profile
    BY DEF NewProfile, Profile, Moods
  <2> QED BY <2>1, <2>2 DEF RewardsInit, NewProfile
<1>2. PICK old \in SUBSET Items :
        /\ ledger = [earned |-> SumFunctionOnSet(Cost, old),
                     bought |-> [i \in Items |-> IF i \in old THEN 1 ELSE 0]]
        /\ bag = [i \in Items |-> IF i \in old THEN "owned" ELSE "none"]
  BY DEF RewardsInit
<1>3. SumFunctionOnSet(Cost, old) \in Nat
  <2>1. IsFiniteSet(old) /\ \A i \in old : Cost[i] \in Nat
    BY FS_Subset
  <2> QED BY <2>1, SumNatural
<1>4. ledger \in [earned: Nat, bought: [Items -> Nat]]
  BY <1>2, <1>3
<1>5. bag \in [Items -> {"none", "owned", "on"}]
  BY <1>2
<1>6. tx \in [Txs -> Tx] /\ badges \in [Badges -> Nat]
  BY DEF RewardsInit, Tx
<1>7. moodAge \in 0..3 /\ begun \in 0..MaxBegun /\ due \in [xp: Nat, best: Nat]
  BY DEF RewardsInit
<1> QED BY <1>1, <1>4, <1>5, <1>6, <1>7 DEF RewardsInit, RewardsTypeOK

\* A transaction that begins or ends keeps the type of them all.
LEMMA TxTyped ==
  ASSUME RewardsTypeOK, NEW t \in Txs, NEW x \in Tx, tx' = [tx EXCEPT ![t] = x]
  PROVE  tx' \in [Txs -> Tx]
BY DEF RewardsTypeOK

\* Beginning a transaction keeps the types.
LEMMA BeginTyped ==
  ASSUME RewardsTypeOK, NEW t \in Txs, NEW x \in Tx, BeginTx(t, x)
  PROVE  RewardsTypeOK'
<1>1. tx' \in [Txs -> Tx]
  BY TxTyped DEF BeginTx
<1>2. begun' \in 0..MaxBegun
  BY RewardsConstants DEF BeginTx, RewardsTypeOK
<1> QED BY <1>1, <1>2 DEF BeginTx, RewardsTypeOK

\* Every step keeps the types.
LEMMA TypeStep ==
  ASSUME RewardsTypeOK, [RewardsNext]_rewardVars
  PROVE  RewardsTypeOK'
<1> USE RewardsConstants
<1>e. \A t \in Txs : EndTx(t) => tx' \in [Txs -> Tx]
  <2>1. NoOp \in Tx
    BY DEF Tx
  <2> QED BY <2>1, TxTyped DEF EndTx
<1>1. CASE Day
  BY <1>1 DEF Day, RewardsTypeOK
<1>2. ASSUME NEW t \in Txs, NEW kind \in Kinds, Settle(t, kind) PROVE RewardsTypeOK'
  <2>1. NewProfile \in Profile
    BY DEF NewProfile, Profile, Moods
  <2>2. [op |-> "settle", kind |-> kind, read |-> FALSE, seen |-> NewProfile] \in Tx
    BY <2>1 DEF Tx
  <2> QED BY <1>2, <2>2, BeginTyped DEF Settle
<1>3. ASSUME NEW t \in Txs, SettleRead(t) PROVE RewardsTypeOK'
  <2>1. tx[t] \in [op: {"settle"}, kind: Kinds, read: BOOLEAN, seen: Profile]
    BY <1>3, TxKinds DEF SettleRead
  <2> DEFINE x == [tx[t] EXCEPT !.read = TRUE, !.seen = profile]
  <2>2. x \in [op: {"settle"}, kind: Kinds, read: BOOLEAN, seen: Profile]
    BY <2>1 DEF RewardsTypeOK
  <2>3. tx' = [tx EXCEPT ![t] = x]
    BY <1>3 DEF SettleRead
  <2> HIDE DEF x
  <2>4. x \in Tx
    BY <2>2 DEF Tx
  <2>5. tx' \in [Txs -> Tx]
    BY <2>3, <2>4, TxTyped
  <2> QED BY <1>3, <2>5 DEF SettleRead, RewardsTypeOK
<1>4. ASSUME NEW t \in Txs, SettleLock(t) PROVE RewardsTypeOK'
  BY <1>4 DEF SettleLock, RewardsTypeOK
<1>5. ASSUME NEW t \in Txs, SettleCommit(t) PROVE RewardsTypeOK'
  <2> DEFINE s == Settlement[tx[t].kind]
             coins == s.coins + EarnsNow(t)
  <2>1. tx[t].op = "settle"
    BY <1>5 DEF SettleCommit
  <2>2. /\ s \in Effect /\ coins \in Nat /\ profile' \in Profile
        /\ profile'.level = 1 + profile'.xp \div XpPerLevel
        /\ profile'.streak <= profile'.longest
        /\ moodAge' \in {moodAge, 0}
        /\ ledger' = [ledger EXCEPT !.earned = @ + coins]
    BY <1>5, <2>1, SettleWrites, SumsWritten
  <2> HIDE DEF coins
  <2>3. ledger' \in [earned: Nat, bought: [Items -> Nat]]
    <3>1. ledger.earned + coins \in Nat
      BY <2>2 DEF RewardsTypeOK
    <3> QED BY <2>2, <3>1 DEF RewardsTypeOK
  <2>4. badges' \in [Badges -> Nat]
    <3>1. CASE Earns(tx[t].kind)
      <4>1. s.badge \in Badges
        BY <3>1 DEF Earns
      <4>2. badges' = [badges EXCEPT ![s.badge] = @ + 1]
        BY <1>5, <3>1 DEF SettleCommit
      <4> QED BY <4>1, <4>2 DEF RewardsTypeOK
    <3>2. CASE ~Earns(tx[t].kind)
      BY <1>5, <3>2 DEF SettleCommit, RewardsTypeOK
    <3> QED BY <3>1, <3>2
  <2>5. due' \in [xp: Nat, best: Nat]
    <3>1. due' = [xp |-> due.xp + s.xp,
                  best |-> IF profile'.streak > due.best THEN profile'.streak ELSE due.best]
      BY <1>5 DEF SettleCommit
    <3>2. s.xp \in Nat /\ profile'.streak \in Nat
      BY <2>2 DEF Effect, Profile
    <3>3. due.xp + s.xp \in Nat /\ due.best \in Nat
      BY <3>2 DEF RewardsTypeOK
    <3> QED BY <3>1, <3>2, <3>3
  <2>6. stale' \in BOOLEAN
    BY <1>5 DEF SettleCommit
  <2>7. tx' \in [Txs -> Tx] /\ profileLock' = NoTx /\ UNCHANGED <<bag, begun, overlapped>>
    BY <1>5, <1>e DEF SettleCommit
  <2> QED BY <2>2, <2>3, <2>4, <2>5, <2>6, <2>7 DEF RewardsTypeOK
<1>6. ASSUME NEW t \in Txs, NEW i \in Items, Buy(t, i) PROVE RewardsTypeOK'
  <2>1. [op |-> "buy", item |-> i] \in Tx
    BY DEF Tx
  <2> QED BY <1>6, <2>1, BeginTyped DEF Buy
<1>7. ASSUME NEW t \in Txs, NEW i \in Items, Equip(t, i) PROVE RewardsTypeOK'
  <2>1. [op |-> "equip", item |-> i, at |-> "owned", off |-> {}, alone |-> TRUE] \in Tx
    BY DEF Tx
  <2> QED BY <1>7, <2>1, BeginTyped DEF Equip
<1>8. ASSUME NEW t \in Txs, NEW i \in Items, Unequip(t, i) PROVE RewardsTypeOK'
  <2>1. [op |-> "unequip", item |-> i] \in Tx
    BY DEF Tx
  <2> QED BY <1>8, <2>1, BeginTyped DEF Unequip
<1>9. ASSUME NEW t \in Txs, BuySpend(t) PROVE RewardsTypeOK'
  BY <1>9, <1>e DEF BuySpend, RewardsTypeOK
<1>10. ASSUME NEW t \in Txs, BuyCommit(t) PROVE RewardsTypeOK'
  <2> DEFINE i == tx[t].item
  <2>1. i \in Items
    BY <1>10, TxKinds DEF BuyCommit
  <2>2. profile' = [profile EXCEPT !.coins = @ - Cost[i]]
        /\ ledger' = [ledger EXCEPT !.bought[i] = @ + 1]
        /\ bag' = [bag EXCEPT ![i] = "owned"]
    BY <1>10 DEF BuyCommit
  <2> HIDE DEF i
  <2>3. profile' \in Profile /\ profile'.level = profile.level /\ profile'.xp = profile.xp
        /\ profile'.streak = profile.streak /\ profile'.longest = profile.longest
    <3>1. profile.coins - Cost[i] \in Int
      BY <2>1 DEF RewardsTypeOK, Profile
    <3> QED BY <2>2, <3>1 DEF RewardsTypeOK, Profile
  <2>4. ledger' \in [earned: Nat, bought: [Items -> Nat]]
    BY <2>1, <2>2 DEF RewardsTypeOK
  <2>5. bag' \in [Items -> {"none", "owned", "on"}]
    BY <2>1, <2>2 DEF RewardsTypeOK
  <2> QED BY <1>10, <1>e, <2>3, <2>4, <2>5 DEF BuyCommit, RewardsTypeOK
<1>11. ASSUME NEW t \in Txs, EquipStart(t) PROVE RewardsTypeOK'
  <2> DEFINE slot == Slot[tx[t].item]
             beside == {u \in Txs \ {t} : Equipping(u, slot)}
             Equips == [op: {"equip"}, item: Items, at: {"owned", "start", "off"},
                        off: SUBSET Items, alone: BOOLEAN]
  <2>1. tx[t] \in Equips /\ slot \in Slots
    BY <1>11, TxKinds DEF EquipStart, Slots
  <2>2. \A u \in beside : tx[u] \in Equips
    BY TxKinds DEF Equipping
  <2>3. tx' = [u \in Txs |->
          IF u = t THEN [tx[t] EXCEPT !.at = "start", !.off = Others(tx[t].item),
                                      !.alone = beside = {}]
          ELSE IF u \in beside THEN [tx[u] EXCEPT !.alone = FALSE] ELSE tx[u]]
        /\ overlapped' = IF beside = {} THEN overlapped ELSE overlapped \cup {slot}
    BY <1>11 DEF EquipStart
  <2> HIDE DEF slot, beside
  <2>4. (beside = {}) \in BOOLEAN /\ Others(tx[t].item) \in SUBSET Items
    BY DEF Others
  <2>5. [tx[t] EXCEPT !.at = "start", !.off = Others(tx[t].item), !.alone = beside = {}] \in Equips
    BY <2>1, <2>4
  <2>6. \A u \in beside : [tx[u] EXCEPT !.alone = FALSE] \in Equips
    BY <2>2
  <2>7. Equips \subseteq Tx
    BY DEF Tx
  <2> HIDE DEF Equips
  <2>8. tx' \in [Txs -> Tx]
    BY <2>3, <2>5, <2>6, <2>7 DEF RewardsTypeOK
  <2>9. overlapped' \subseteq Slots
    BY <2>1, <2>3 DEF RewardsTypeOK
  <2> QED BY <1>11, <2>8, <2>9 DEF EquipStart, RewardsTypeOK
<1>12. ASSUME NEW t \in Txs, EquipOff(t) PROVE RewardsTypeOK'
  <2> DEFINE Equips == [op: {"equip"}, item: Items, at: {"owned", "start", "off"},
                        off: SUBSET Items, alone: BOOLEAN]
             x == [tx[t] EXCEPT !.at = "off", !.off = {j \in @ : bag[j] = "on"}]
  <2>1. tx[t] \in Equips
    BY <1>12, TxKinds DEF EquipOff
  <2>2. {j \in tx[t].off : bag[j] = "on"} \in SUBSET Items
    BY <2>1
  <2>3. x \in Equips
    BY <2>1, <2>2
  <2>4. tx' = [tx EXCEPT ![t] = x]
    BY <1>12 DEF EquipOff
  <2> HIDE DEF x
  <2>5. x \in Tx
    BY <2>3 DEF Tx
  <2>6. tx' \in [Txs -> Tx]
    BY <2>4, <2>5, TxTyped
  <2> QED BY <1>12, <2>6 DEF EquipOff, RewardsTypeOK
<1>13. ASSUME NEW t \in Txs, EquipOn(t) PROVE RewardsTypeOK'
  BY <1>13, <1>e DEF EquipOn, RewardsTypeOK
<1>14. ASSUME NEW t \in Txs, UnequipOff(t) PROVE RewardsTypeOK'
  BY <1>14, <1>e DEF UnequipOff, RewardsTypeOK
<1>15. ASSUME NEW t \in Txs, Decay(t) PROVE RewardsTypeOK'
  <2>1. [op |-> "decay", seen |-> profile] \in Tx
    BY DEF Tx, RewardsTypeOK
  <2> QED BY <1>15, <2>1, BeginTyped DEF Decay
<1>16. ASSUME NEW t \in Txs, DecayWrite(t) PROVE RewardsTypeOK'
  <2>1. CASE SameMood(tx[t].seen)
    <3>1. profile' = [profile EXCEPT !.mood = "NEUTRAL", !.moodSet = @ + 1] /\ moodAge' = 0
      BY <1>16, <2>1 DEF DecayWrite
    <3>2. profile' \in Profile /\ profile'.level = profile.level /\ profile'.xp = profile.xp
          /\ profile'.streak = profile.streak /\ profile'.longest = profile.longest
      <4>1. profile.moodSet + 1 \in Nat
        BY DEF RewardsTypeOK, Profile
      <4>2. profile' \in Profile
        BY <3>1, <4>1 DEF RewardsTypeOK, Profile, Moods
      <4> QED BY <3>1, <4>2 DEF RewardsTypeOK, Profile
    <3> QED BY <1>16, <1>e, <3>1, <3>2 DEF DecayWrite, RewardsTypeOK
  <2>2. CASE ~SameMood(tx[t].seen)
    BY <1>16, <1>e, <2>2 DEF DecayWrite, RewardsTypeOK
  <2> QED BY <2>1, <2>2
<1>17. ASSUME NEW t \in Txs, AbortTx(t) PROVE RewardsTypeOK'
  BY <1>17, <1>e DEF AbortTx, RewardsTypeOK
<1>18. CASE UNCHANGED rewardVars
  BY <1>18 DEF rewardVars, RewardsTypeOK
<1> QED BY <1>1, <1>2, <1>3, <1>4, <1>5, <1>6, <1>7, <1>8, <1>9, <1>10, <1>11, <1>12,
           <1>13, <1>14, <1>15, <1>16, <1>17, <1>18 DEF RewardsNext

\* Everything about a profile keeps its type, whatever the items, the badges
\* and the transactions: a level is that of its XP, and the streak is never
\* longer than the longest one (grantXp, advanceStreak).
THEOREM RewardsTyped == RewardsSpec => []RewardsTypeOK
<1>1. RewardsTypeOK /\ [RewardsNext]_rewardVars => RewardsTypeOK'
  BY TypeStep
<1> QED BY <1>1, TypeInit, PTL DEF RewardsSpec

-----------------------------------------------------------------------------
(* The lock on the profile                                                 *)

\* A transaction that begins has no lock and has read nothing.
LEMMA BeginKeeps ==
  ASSUME RewardsTypeOK, LockKeeps, NEW t \in Txs, NEW x \in Tx, BeginTx(t, x),
         x.op = "settle" => ~x.read
  PROVE  LockKeeps'
<1> SUFFICES ASSUME NEW u \in Txs PROVE Keeps(u)'
  BY DEF LockKeeps
<1>1. Keeps(u) /\ Keeps(t)
  BY DEF LockKeeps
<1>2. ~HasLock(t)
  BY <1>1 DEF BeginTx, Keeps, NoOp
<1>3. tx'[u] = IF u = t THEN x ELSE tx[u]
  BY DEF BeginTx, RewardsTypeOK
<1> QED BY <1>1, <1>2, <1>3 DEF BeginTx, Keeps, HasLock, Affordable, ReadsFirst

\* A step keeps what the lock on the profile keeps.
LEMMA LockStep ==
  ASSUME RewardsTypeOK, LockKeeps, [RewardsNext]_rewardVars
  PROVE  LockKeeps'
<1> USE RewardsConstants
<1>e. ASSUME NEW t \in Txs, NEW u \in Txs, EndTx(t)
      PROVE  tx'[u] = IF u = t THEN NoOp ELSE tx[u]
  BY <1>e DEF EndTx, RewardsTypeOK
<1>l. \A t \in Txs : Keeps(t)
  BY DEF LockKeeps
<1>p. (\A t \in Txs : Keeps(t)') => LockKeeps'
  BY DEF LockKeeps
<1>1. CASE Day
  BY <1>1 DEF Day, LockKeeps, Keeps, HasLock, Affordable, ReadsFirst
<1>2. ASSUME NEW t \in Txs, NEW kind \in Kinds, Settle(t, kind) PROVE LockKeeps'
  <2>1. NewProfile \in Profile
    BY DEF NewProfile, Profile, Moods
  <2>2. [op |-> "settle", kind |-> kind, read |-> FALSE, seen |-> NewProfile] \in Tx
    BY <2>1 DEF Tx
  <2> QED BY <1>2, <2>2, BeginKeeps DEF Settle
<1>3. ASSUME NEW t \in Txs, SettleRead(t) PROVE LockKeeps'
  <2> SUFFICES ASSUME NEW u \in Txs PROVE Keeps(u)'
    BY <1>p
  <2>1. tx[t] \in [op: {"settle"}, kind: Kinds, read: BOOLEAN, seen: Profile]
    BY <1>3, TxKinds DEF SettleRead
  <2>2. tx'[u] = IF u = t THEN [tx[t] EXCEPT !.read = TRUE, !.seen = profile] ELSE tx[u]
    BY <1>3 DEF SettleRead, RewardsTypeOK
  <2>3. u = t => tx'[u].op = "settle" /\ tx'[u].kind = tx[t].kind
    BY <2>1, <2>2
  <2>4. ReadsFirst(tx[t].kind) /\ ~HasLock(t)
        /\ UNCHANGED <<profile, profileLock>>
    BY <1>3 DEF SettleRead
  <2> QED BY <1>l, <2>2, <2>3, <2>4 DEF Keeps, HasLock, Affordable, ReadsFirst
<1>4. ASSUME NEW t \in Txs, SettleLock(t) PROVE LockKeeps'
  BY <1>4 DEF SettleLock, LockKeeps, Keeps, HasLock, Affordable, ReadsFirst
<1>5. ASSUME NEW t \in Txs, SettleCommit(t) PROVE LockKeeps'
  <2> SUFFICES ASSUME NEW u \in Txs PROVE Keeps(u)'
    BY <1>p
  <2>1. tx'[u] = (IF u = t THEN NoOp ELSE tx[u]) /\ profileLock' = NoTx
    BY <1>5, <1>e DEF SettleCommit
  <2> QED BY <1>l, <2>1 DEF Keeps, HasLock, ReadsFirst, NoOp
<1>6. ASSUME NEW t \in Txs, NEW i \in Items, Buy(t, i) PROVE LockKeeps'
  <2>1. [op |-> "buy", item |-> i] \in Tx
    BY DEF Tx
  <2> QED BY <1>6, <2>1, BeginKeeps DEF Buy
<1>7. ASSUME NEW t \in Txs, NEW i \in Items, Equip(t, i) PROVE LockKeeps'
  <2>1. [op |-> "equip", item |-> i, at |-> "owned", off |-> {}, alone |-> TRUE] \in Tx
    BY DEF Tx
  <2> QED BY <1>7, <2>1, BeginKeeps DEF Equip
<1>8. ASSUME NEW t \in Txs, NEW i \in Items, Unequip(t, i) PROVE LockKeeps'
  <2>1. [op |-> "unequip", item |-> i] \in Tx
    BY DEF Tx
  <2> QED BY <1>8, <2>1, BeginKeeps DEF Unequip
<1>9. ASSUME NEW t \in Txs, BuySpend(t) PROVE LockKeeps'
  <2> SUFFICES ASSUME NEW u \in Txs PROVE Keeps(u)'
    BY <1>p
  <2>1. tx[t].op = "buy" /\ profileLock = NoTx /\ profile' = profile
    BY <1>9 DEF BuySpend
  <2>2. CASE Affordable(tx[t].item)
    BY <1>9, <1>l, <2>1, <2>2 DEF BuySpend, Keeps, HasLock, Affordable, ReadsFirst
  <2>3. CASE ~Affordable(tx[t].item)
    <3>1. tx'[u] = (IF u = t THEN NoOp ELSE tx[u]) /\ profileLock' = NoTx
      BY <1>9, <1>e, <2>1, <2>3 DEF BuySpend
    <3> QED BY <1>l, <3>1 DEF Keeps, HasLock, ReadsFirst, NoOp
  <2> QED BY <2>2, <2>3
<1>10. ASSUME NEW t \in Txs, BuyCommit(t) PROVE LockKeeps'
  <2> SUFFICES ASSUME NEW u \in Txs PROVE Keeps(u)'
    BY <1>p
  <2>1. tx'[u] = (IF u = t THEN NoOp ELSE tx[u]) /\ profileLock' = NoTx
    BY <1>10, <1>e DEF BuyCommit
  <2> QED BY <1>l, <2>1 DEF Keeps, HasLock, ReadsFirst, NoOp
<1>11. ASSUME NEW t \in Txs, EquipStart(t) PROVE LockKeeps'
  <2> SUFFICES ASSUME NEW u \in Txs PROVE Keeps(u)'
    BY <1>p
  <2>1. /\ tx[u].op = "equip" => tx'[u].op = "equip"
        /\ tx[u].op # "equip" => tx'[u] = tx[u]
    <3> DEFINE slot == Slot[tx[t].item]
               beside == {v \in Txs \ {t} : Equipping(v, slot)}
    <3>1. tx' = [v \in Txs |->
            IF v = t THEN [tx[t] EXCEPT !.at = "start", !.off = Others(tx[t].item),
                                        !.alone = beside = {}]
            ELSE IF v \in beside THEN [tx[v] EXCEPT !.alone = FALSE] ELSE tx[v]]
      BY <1>11 DEF EquipStart
    <3>2. tx[t].op = "equip" /\ \A v \in beside : tx[v].op = "equip"
      BY <1>11 DEF EquipStart, Equipping
    <3> HIDE DEF beside
    <3> QED BY <3>1, <3>2, TxKinds
  <2> QED BY <1>11, <1>l, <2>1 DEF EquipStart, Keeps, HasLock, Affordable, ReadsFirst
<1>12. ASSUME NEW t \in Txs, EquipOff(t) PROVE LockKeeps'
  <2> SUFFICES ASSUME NEW u \in Txs PROVE Keeps(u)'
    BY <1>p
  <2>1. tx'[u] = IF u = t
                 THEN [tx[t] EXCEPT !.at = "off", !.off = {j \in @ : bag[j] = "on"}]
                 ELSE tx[u]
    BY <1>12 DEF EquipOff, RewardsTypeOK
  <2>2. tx[t].op = "equip" /\ UNCHANGED <<profile, profileLock>>
    BY <1>12 DEF EquipOff
  <2>3. u = t => tx'[u].op = "equip"
    BY <2>1, <2>2, TxKinds
  <2> QED BY <1>l, <2>1, <2>2, <2>3 DEF Keeps, HasLock, Affordable, ReadsFirst
<1>13. ASSUME NEW t \in Txs, EndTx(t), tx[t].op \notin {"settle", "buy"},
              UNCHANGED <<profile, profileLock>>
       PROVE  LockKeeps'
  <2> SUFFICES ASSUME NEW u \in Txs PROVE Keeps(u)'
    BY <1>p
  <2>1. tx'[u] = IF u = t THEN NoOp ELSE tx[u]
    BY <1>13, <1>e
  <2> QED BY <1>13, <1>l, <2>1 DEF Keeps, HasLock, Affordable, ReadsFirst, NoOp
<1>14. ASSUME NEW t \in Txs, EquipOn(t) \/ UnequipOff(t) PROVE LockKeeps'
  BY <1>13, <1>14 DEF EquipOn, UnequipOff
<1>15. ASSUME NEW t \in Txs, Decay(t) PROVE LockKeeps'
  <2>1. [op |-> "decay", seen |-> profile] \in Tx
    BY DEF Tx, RewardsTypeOK
  <2> QED BY <1>15, <2>1, BeginKeeps DEF Decay
<1>16. ASSUME NEW t \in Txs, DecayWrite(t) PROVE LockKeeps'
  <2> SUFFICES ASSUME NEW u \in Txs PROVE Keeps(u)'
    BY <1>p
  <2>1. tx'[u] = (IF u = t THEN NoOp ELSE tx[u]) /\ profileLock' = NoTx
    BY <1>16, <1>e DEF DecayWrite
  <2> QED BY <1>l, <2>1 DEF Keeps, HasLock, ReadsFirst, NoOp
<1>17. ASSUME NEW t \in Txs, AbortTx(t) PROVE LockKeeps'
  <2> SUFFICES ASSUME NEW u \in Txs PROVE Keeps(u)'
    BY <1>p
  <2>1. tx'[u] = IF u = t THEN NoOp ELSE tx[u]
    BY <1>17, <1>e DEF AbortTx
  <2> QED BY <1>17, <1>l, <2>1 DEF AbortTx, Keeps, HasLock, Affordable, ReadsFirst, NoOp
<1>18. CASE UNCHANGED rewardVars
  BY <1>18 DEF rewardVars, LockKeeps, Keeps, HasLock, Affordable, ReadsFirst
<1> QED BY <1>1, <1>2, <1>3, <1>4, <1>5, <1>6, <1>7, <1>8, <1>9, <1>10, <1>11, <1>12,
           <1>14, <1>15, <1>16, <1>17, <1>18 DEF RewardsNext

-----------------------------------------------------------------------------
(* The coins                                                               *)

\* The steps that write the profile, its ledger, the badges or the bag.
LEMMA Writers ==
  ASSUME [RewardsNext]_rewardVars
  PROVE  \/ \E t \in Txs : \/ SettleCommit(t) \/ BuyCommit(t) \/ DecayWrite(t)
                           \/ EquipOn(t) \/ UnequipOff(t)
         \/ UNCHANGED <<profile, ledger, badges, bag, due, stale>>
<1>1. CASE \E t \in Txs : \/ SettleCommit(t) \/ BuyCommit(t) \/ DecayWrite(t)
                         \/ EquipOn(t) \/ UnequipOff(t)
  BY <1>1
<1>2. CASE Day \/ UNCHANGED rewardVars
  BY <1>2 DEF Day, rewardVars
<1>3. ASSUME NEW t \in Txs, SettleRead(t) \/ SettleLock(t) \/ BuySpend(t) \/ EquipStart(t)
                           \/ EquipOff(t) \/ AbortTx(t)
      PROVE  UNCHANGED <<profile, ledger, badges, bag, due, stale>>
  BY <1>3 DEF SettleRead, SettleLock, BuySpend, EquipStart, EquipOff, AbortTx, BeginTx
<1>4. ASSUME NEW t \in Txs, Decay(t) \/ (\E kind \in Kinds : Settle(t, kind))
                           \/ (\E i \in Items : Buy(t, i) \/ Equip(t, i) \/ Unequip(t, i))
      PROVE  UNCHANGED <<profile, ledger, badges, bag, due, stale>>
  BY <1>4 DEF Decay, Settle, Buy, Equip, Unequip, BeginTx
<1> QED BY <1>1, <1>2, <1>3, <1>4 DEF RewardsNext

\* What was paid for the items, and its sum, are integers.
LEMMA PaidTyped ==
  ASSUME RewardsTypeOK
  PROVE  /\ \A i \in Items : Paid[i] \in Int
         /\ SumFunctionOnSet(Paid, Items) \in Int
<1>1. \A i \in Items : Paid[i] \in Int
  BY RewardsConstants DEF Paid, RewardsTypeOK
<1> QED BY <1>1, RewardsConstants, SumTake

\* What was bought before was earned before, and the balance begins at zero.
LEMMA CoinsInit == RewardsInit => CoinsBuyOnce
<1> SUFFICES ASSUME RewardsInit PROVE CoinsBuyOnce
  OBVIOUS
<1>1. PICK old \in SUBSET Items :
        /\ ledger = [earned |-> SumFunctionOnSet(Cost, old),
                     bought |-> [i \in Items |-> IF i \in old THEN 1 ELSE 0]]
        /\ bag = [i \in Items |-> IF i \in old THEN "owned" ELSE "none"]
  BY DEF RewardsInit
<1>2. /\ \A i \in old : Paid[i] = Cost[i]
      /\ \A i \in Items \ old : Paid[i] = 0
  BY <1>1, RewardsConstants DEF Paid
<1>3. SumFunctionOnSet(Paid, Items) = SumFunctionOnSet(Cost, old)
  <2>1. IsFiniteSet(old)
    BY RewardsConstants, FS_Subset
  <2>2. SumFunctionOnSet(Paid, old) = SumFunctionOnSet(Cost, old)
    BY <1>2, <2>1, SumEqual
  <2>3. SumFunctionOnSet(Paid, Items) = SumFunctionOnSet(Paid, old)
    BY <1>2, RewardsConstants, SumSupport
  <2> QED BY <2>2, <2>3
<1>4. SumFunctionOnSet(Paid, Items) \in Int
  BY PaidTyped, TypeInit
<1>5. profile.coins = 0 /\ ledger.earned = SumFunctionOnSet(Paid, Items)
  BY <1>1, <1>3 DEF RewardsInit, NewProfile
<1> QED BY <1>1, <1>4, <1>5 DEF CoinsBuyOnce

\* A step keeps the ledger in step with the balance and the bag.
LEMMA CoinsStep ==
  ASSUME RewardsTypeOK, LockKeeps, OwnsWhatItMoves, CoinsBuyOnce, [RewardsNext]_rewardVars
  PROVE  CoinsBuyOnce'
<1> USE RewardsConstants
<1>1. /\ profile.coins \in Int /\ ledger.earned \in Nat
      /\ SumFunctionOnSet(Paid, Items) \in Int
  BY PaidTyped DEF RewardsTypeOK, Profile
<1>2. ASSUME NEW t \in Txs, SettleCommit(t) PROVE CoinsBuyOnce'
  <2> DEFINE coins == Settlement[tx[t].kind].coins + EarnsNow(t)
  <2>1. /\ coins \in Nat /\ profile'.coins = profile.coins + coins
        /\ ledger' = [ledger EXCEPT !.earned = @ + coins]
    BY <1>2, SettleWrites
  <2> HIDE DEF coins
  <2>2. ledger'.earned = ledger.earned + coins /\ ledger'.bought = ledger.bought
    BY <2>1 DEF RewardsTypeOK
  <2>3. Paid' = Paid /\ bag' = bag
    <3>1. bag' = bag
      BY <1>2 DEF SettleCommit
    <3>2. \A i \in Items : ledger'.bought[i] = ledger.bought[i]
      BY <2>2
    <3> QED BY <3>1, <3>2 DEF Paid
  <2>4. profile'.coins >= 0
        /\ profile'.coins = ledger'.earned - SumFunctionOnSet(Paid, Items)
    BY <1>1, <2>1, <2>2 DEF CoinsBuyOnce
  <2> QED BY <2>2, <2>3, <2>4 DEF CoinsBuyOnce
<1>3. ASSUME NEW t \in Txs, BuyCommit(t) PROVE CoinsBuyOnce'
  <2> DEFINE i == tx[t].item
  <2>1. i \in Items /\ profile.coins >= Cost[i] /\ bag[i] = "none"
    BY <1>3, TxKinds DEF BuyCommit, LockKeeps, Keeps, Affordable
  <2>2. /\ profile' = [profile EXCEPT !.coins = @ - Cost[i]]
        /\ ledger' = [ledger EXCEPT !.bought[i] = @ + 1]
        /\ bag' = [bag EXCEPT ![i] = "owned"]
    BY <1>3 DEF BuyCommit
  <2> HIDE DEF i
  <2>3. /\ profile'.coins = profile.coins - Cost[i]
        /\ ledger'.earned = ledger.earned
        /\ ledger'.bought = [ledger.bought EXCEPT ![i] = @ + 1]
    BY <2>2 DEF RewardsTypeOK, Profile
  <2>4. ledger.bought[i] = 0
    BY <2>1 DEF CoinsBuyOnce
  <2>5. /\ Paid[i] = 0 /\ Paid'[i] = Cost[i]
        /\ \A j \in Items \ {i} : Paid'[j] = Paid[j]
    BY <2>1, <2>3, <2>4 DEF Paid, RewardsTypeOK
  <2>6. \A j \in Items : Paid[j] \in Int /\ Paid'[j] \in Int
    BY <2>1, <2>5, PaidTyped
  <2>7. SumFunctionOnSet(Paid', Items) = SumFunctionOnSet(Paid, Items) + (Cost[i] - 0)
    BY <2>1, <2>5, <2>6, SumChange
  <2>8. SumFunctionOnSet(Paid, Items)' = SumFunctionOnSet(Paid', Items)
    OBVIOUS
  <2>9. profile'.coins >= 0
        /\ profile'.coins = ledger'.earned - SumFunctionOnSet(Paid, Items)'
    BY <1>1, <2>1, <2>3, <2>7, <2>8 DEF CoinsBuyOnce
  <2>10. \A j \in Items : ledger'.bought[j] = IF bag'[j] = "none" THEN 0 ELSE 1
    BY <2>1, <2>2, <2>3, <2>4 DEF CoinsBuyOnce, RewardsTypeOK
  <2> QED BY <2>9, <2>10 DEF CoinsBuyOnce
<1>4. ASSUME NEW t \in Txs, DecayWrite(t) PROVE CoinsBuyOnce'
  <2>1. profile'.coins = profile.coins
    BY <1>4 DEF DecayWrite, RewardsTypeOK, Profile
  <2> QED BY <1>4, <2>1 DEF DecayWrite, CoinsBuyOnce, Paid
<1>5. ASSUME UNCHANGED <<profile, ledger>>,
             \A j \in Items : bag'[j] = "none" <=> bag[j] = "none"
      PROVE  CoinsBuyOnce'
  BY <1>5 DEF CoinsBuyOnce, Paid
<1>6. ASSUME NEW t \in Txs, EquipOn(t) PROVE CoinsBuyOnce'
  <2>1. \A j \in Items : bag'[j] = "none" <=> bag[j] = "none"
    BY <1>6, TxKinds DEF EquipOn, OwnsWhatItMoves
  <2> QED BY <1>5, <1>6, <2>1 DEF EquipOn
<1>7. ASSUME NEW t \in Txs, UnequipOff(t) PROVE CoinsBuyOnce'
  <2>1. \A j \in Items : bag'[j] = "none" <=> bag[j] = "none"
    BY <1>7, TxKinds DEF UnequipOff, OwnsWhatItMoves, RewardsTypeOK
  <2> QED BY <1>5, <1>7, <2>1 DEF UnequipOff
<1>8. CASE UNCHANGED <<profile, ledger, badges, bag, due, stale>>
  BY <1>5, <1>8
<1> QED BY <1>2, <1>3, <1>4, <1>6, <1>7, <1>8, Writers

-----------------------------------------------------------------------------
(* The sums of the settlements                                             *)

\* A new profile is the sum of no settlements.
LEMMA SumsInit == RewardsInit => RewardsAddUp
BY DEF RewardsInit, RewardsAddUp, NewProfile

\* A settlement that has read under the lock, or nothing newer than what it
\* finds there, writes the sums of all that were committed.
LEMMA SumsStep ==
  ASSUME RewardsTypeOK, LockKeeps, RewardsAddUp, [RewardsNext]_rewardVars
  PROVE  RewardsAddUp'
<1>1. ASSUME NEW t \in Txs, SettleCommit(t) PROVE RewardsAddUp'
  <2> DEFINE s == Settlement[tx[t].kind]
             seen == SeenBy(t)
             sums == SumsOf(t)
  <2>1. tx[t].op = "settle" /\ HasLock(t)
    BY <1>1 DEF SettleCommit
  <2>2. /\ s \in Effect
        /\ profile'.xp = sums.xp /\ profile'.level = sums.level
        /\ profile'.streak = sums.streak /\ profile'.longest = sums.longest
    BY <1>1, SettleWrites
  <2>3. /\ seen \in Profile /\ sums \in Profile
        /\ sums.xp = IF s.xp = 0 THEN profile.xp ELSE seen.xp + 1
        /\ s.streak = "keep" =>
             sums.streak = profile.streak /\ sums.longest = profile.longest
        /\ s.streak # "keep" =>
             sums.longest = IF sums.streak > seen.longest THEN sums.streak
                            ELSE seen.longest
    BY <2>1, SumsWritten
  <2>4. /\ due' = [xp |-> due.xp + s.xp,
                   best |-> IF profile'.streak > due.best THEN profile'.streak
                            ELSE due.best]
        /\ stale' = (stale \/ (s.coins = 0 /\
             \/ s.xp > 0 /\ seen.xp # profile.xp
             \/ s.streak # "keep" /\ seen.longest # profile.longest))
    BY <1>1 DEF SettleCommit, SeenBy
  <2>5. s.coins # 0 => seen = profile
    BY <2>1, TxKinds DEF LockKeeps, Keeps, ReadsFirst, SeenBy
  <2>6. ASSUME NEW b \in Badges PROVE badges'[b] <= 1
    <3>1. badges' = IF Earns(tx[t].kind) THEN [badges EXCEPT ![s.badge] = @ + 1] ELSE badges
      BY <1>1 DEF SettleCommit
    <3>2. Earns(tx[t].kind) => s.badge \in Badges /\ badges[s.badge] = 0
      BY DEF Earns
    <3> QED BY <3>1, <3>2 DEF RewardsAddUp, RewardsTypeOK
  <2> HIDE DEF s, seen, sums
  <2>7. ASSUME ~stale' PROVE profile'.xp = due'.xp /\ profile'.longest = due'.best
    <3>1. /\ ~stale /\ profile.xp = due.xp /\ profile.longest = due.best
          /\ s.xp > 0 => seen.xp = profile.xp
          /\ s.streak # "keep" => seen.longest = profile.longest
      BY <2>4, <2>5, <2>7 DEF RewardsAddUp
    <3>2. /\ s.xp \in {0, 1} /\ due.xp \in Nat /\ due.best \in Nat
          /\ profile.streak \in Nat /\ profile.longest \in Nat /\ profile.xp \in Nat
          /\ profile.streak <= profile.longest /\ sums.streak \in Nat
      BY <2>2, <2>3 DEF Effect, RewardsTypeOK, Profile
    <3>3. profile'.xp = due'.xp
      BY <2>2, <2>3, <2>4, <3>1, <3>2
    <3>4. due'.best = IF sums.streak > due.best THEN sums.streak ELSE due.best
      BY <2>2, <2>4
    <3>5. profile'.longest = due'.best
      BY <2>2, <2>3, <3>1, <3>2, <3>4
    <3> QED BY <3>3, <3>5
  <2> QED BY <2>6, <2>7 DEF RewardsAddUp
<1>2. ASSUME NEW t \in Txs, DecayWrite(t) PROVE RewardsAddUp'
  <2>1. profile'.xp = profile.xp /\ profile'.longest = profile.longest
    BY <1>2 DEF DecayWrite, RewardsTypeOK, Profile
  <2> QED BY <1>2, <2>1 DEF DecayWrite, RewardsAddUp
<1>3. ASSUME NEW t \in Txs, BuyCommit(t) PROVE RewardsAddUp'
  <2>1. profile'.xp = profile.xp /\ profile'.longest = profile.longest
    BY <1>3 DEF BuyCommit, RewardsTypeOK, Profile
  <2> QED BY <1>3, <2>1 DEF BuyCommit, RewardsAddUp
<1>4. due' = due \/ \E t \in Txs : SettleCommit(t)
  BY DEF RewardsNext, rewardVars, Day, Settle, BeginTx, SettleRead, SettleLock, Buy, BuySpend,
         BuyCommit, Equip, EquipStart, EquipOff, EquipOn, Unequip, UnequipOff, Decay,
         DecayWrite, AbortTx
<1>5. ASSUME due' = due, UNCHANGED <<profile, badges, stale>> PROVE RewardsAddUp'
  BY <1>5 DEF RewardsAddUp
<1>6. ASSUME NEW t \in Txs, EquipOn(t) \/ UnequipOff(t)
      PROVE UNCHANGED <<profile, badges, stale>>
  BY <1>6 DEF EquipOn, UnequipOff
<1> QED BY <1>1, <1>2, <1>3, <1>4, <1>5, <1>6, Writers

-----------------------------------------------------------------------------
(* The bag                                                                 *)

\* Nothing leaves the bag.
LEMMA BagGrows ==
  ASSUME RewardsTypeOK, OwnsWhatItMoves, [RewardsNext]_rewardVars
  PROVE  \A j \in Items : bag[j] # "none" => bag'[j] # "none"
<1>1. ASSUME NEW t \in Txs, BuyCommit(t) \/ EquipOn(t) \/ UnequipOff(t)
      PROVE  \A j \in Items : bag[j] # "none" => bag'[j] # "none"
  BY <1>1 DEF BuyCommit, EquipOn, UnequipOff, RewardsTypeOK
<1>2. ASSUME NEW t \in Txs, SettleCommit(t) \/ DecayWrite(t) PROVE bag' = bag
  BY <1>2 DEF SettleCommit, DecayWrite
<1> QED BY <1>1, <1>2, Writers

\* A transaction that a step of no equip leaves as it is, ends or begins.
Rests(u) ==
    \/ tx'[u] = tx[u]
    \/ tx'[u].op \notin {"equip", "unequip"}
    \/ /\ tx'[u].op = "equip" /\ tx'[u].at = "owned" /\ tx'[u].off = {}
       /\ bag[tx'[u].item] # "none"
    \/ tx'[u].op = "unequip" /\ bag[tx'[u].item] # "none"

\* Only equips put anything on and change what they have seen of it.
LEMMA Moves ==
  ASSUME RewardsTypeOK, [RewardsNext]_rewardVars
  PROVE  \/ \E t \in Txs : EquipStart(t) \/ EquipOff(t) \/ EquipOn(t)
         \/ /\ overlapped' = overlapped
            /\ \A u \in Txs : Rests(u)
            /\ \A j \in Items : bag'[j] = "on" => bag[j] = "on"
<1> SUFFICES ASSUME \A t \in Txs : ~EquipStart(t) /\ ~EquipOff(t) /\ ~EquipOn(t)
             PROVE  /\ overlapped' = overlapped
                    /\ \A u \in Txs : Rests(u)
                    /\ \A j \in Items : bag'[j] = "on" => bag[j] = "on"
  OBVIOUS
<1>1. overlapped' = overlapped
  BY DEF RewardsNext, rewardVars, Day, Settle, BeginTx, SettleRead, SettleLock, SettleCommit,
         Buy, BuySpend, BuyCommit, Equip, Unequip, UnequipOff, Decay, DecayWrite, AbortTx
<1>2. ASSUME NEW j \in Items, bag'[j] = "on" PROVE bag[j] = "on"
  <2>1. ASSUME NEW t \in Txs, BuyCommit(t) \/ UnequipOff(t) PROVE bag[j] = "on"
    BY <1>2, <2>1 DEF BuyCommit, UnequipOff, RewardsTypeOK
  <2>2. ASSUME NEW t \in Txs, SettleCommit(t) \/ DecayWrite(t) PROVE bag[j] = "on"
    BY <1>2, <2>2 DEF SettleCommit, DecayWrite
  <2> QED BY <1>2, <2>1, <2>2, Writers
<1>3. ASSUME NEW u \in Txs PROVE Rests(u)
  <2>b. ASSUME NEW t \in Txs, NEW x, BeginTx(t, x) PROVE tx'[u] = IF u = t THEN x ELSE tx[u]
    BY <2>b DEF BeginTx, RewardsTypeOK
  <2>e. ASSUME NEW t \in Txs, EndTx(t) PROVE Rests(u)
    BY <2>e DEF EndTx, RewardsTypeOK, NoOp, Rests
  <2>1. CASE Day \/ UNCHANGED rewardVars
    BY <2>1 DEF Day, rewardVars, Rests
  <2>2. ASSUME NEW t \in Txs, NEW kind \in Kinds, Settle(t, kind) PROVE Rests(u)
    BY <2>2, <2>b DEF Settle, Rests
  <2>3. ASSUME NEW t \in Txs, SettleRead(t) PROVE Rests(u)
    <3>1. tx[t] \in [op: {"settle"}, kind: Kinds, read: BOOLEAN, seen: Profile]
      BY <2>3, TxKinds DEF SettleRead
    <3>2. tx'[u] = IF u = t THEN [tx[t] EXCEPT !.read = TRUE, !.seen = profile] ELSE tx[u]
      BY <2>3 DEF SettleRead, RewardsTypeOK
    <3> QED BY <3>1, <3>2 DEF Rests
  <2>4. ASSUME NEW t \in Txs, SettleLock(t) PROVE Rests(u)
    BY <2>4 DEF SettleLock, Rests
  <2>5. ASSUME NEW t \in Txs, SettleCommit(t) \/ BuyCommit(t) \/ DecayWrite(t) \/ AbortTx(t)
                              \/ UnequipOff(t)
        PROVE  EndTx(t)
    BY <2>5 DEF SettleCommit, BuyCommit, DecayWrite, AbortTx, UnequipOff
  <2>6. ASSUME NEW t \in Txs, NEW i \in Items, Buy(t, i) PROVE Rests(u)
    BY <2>6, <2>b DEF Buy, Rests
  <2>7. ASSUME NEW t \in Txs, NEW i \in Items, Equip(t, i) PROVE Rests(u)
    BY <2>7, <2>b DEF Equip, Rests
  <2>8. ASSUME NEW t \in Txs, NEW i \in Items, Unequip(t, i) PROVE Rests(u)
    BY <2>8, <2>b DEF Unequip, Rests
  <2>9. ASSUME NEW t \in Txs, BuySpend(t) PROVE tx' = tx \/ EndTx(t)
    BY <2>9 DEF BuySpend
  <2>10. ASSUME NEW t \in Txs, Decay(t) PROVE Rests(u)
    BY <2>10, <2>b DEF Decay, Rests
  <2>11. tx' = tx => Rests(u)
    BY DEF Rests
  <2> QED BY <2>1, <2>2, <2>3, <2>4, <2>5, <2>6, <2>7, <2>8, <2>9, <2>10, <2>11, <2>e
          DEF RewardsNext
<1> QED BY <1>1, <1>2, <1>3

\* An equip starts: it sees what is on, and those beside it are not alone.
LEMMA Starts ==
  ASSUME RewardsTypeOK, NEW t \in Txs, EquipStart(t)
  PROVE  /\ tx[t].op = "equip" /\ tx[t].at = "owned" /\ tx[t].item \in Items
         /\ tx'[t].op = "equip" /\ tx'[t].at = "start" /\ tx'[t].item = tx[t].item
         /\ tx'[t].off = Others(tx[t].item)
         /\ tx'[t].alone <=> \A u \in Txs \ {t} : ~Equipping(u, Slot[tx[t].item])
         /\ \A u \in Txs \ {t} :
              IF Equipping(u, Slot[tx[t].item])
              THEN /\ tx'[u].op = "equip" /\ tx'[u].at = tx[u].at
                   /\ tx'[u].item = tx[u].item /\ tx'[u].off = tx[u].off
                   /\ ~tx'[u].alone /\ Slot[tx[t].item] \in overlapped'
              ELSE tx'[u] = tx[u]
         /\ overlapped \subseteq overlapped'
         /\ bag' = bag
<1> DEFINE slot == Slot[tx[t].item]
           beside == {v \in Txs \ {t} : Equipping(v, slot)}
           Equips == [op: {"equip"}, item: Items, at: {"owned", "start", "off"},
                      off: SUBSET Items, alone: BOOLEAN]
           x == [tx[t] EXCEPT !.at = "start", !.off = Others(tx[t].item),
                              !.alone = beside = {}]
<1>1. /\ tx[t].op = "equip" /\ tx[t].at = "owned" /\ bag' = bag
      /\ tx' = [u \in Txs |-> IF u = t THEN x
                              ELSE IF u \in beside THEN [tx[u] EXCEPT !.alone = FALSE]
                              ELSE tx[u]]
      /\ overlapped' = IF beside = {} THEN overlapped ELSE overlapped \cup {slot}
  BY DEF EquipStart
<1>2. tx[t] \in Equips /\ \A u \in beside : tx[u] \in Equips
  BY <1>1, TxKinds DEF Equipping
<1>3. /\ x.op = "equip" /\ x.at = "start" /\ x.item = tx[t].item
      /\ x.off = Others(tx[t].item) /\ x.alone = (beside = {})
  BY <1>2
<1>4. ASSUME NEW u \in beside
      PROVE  /\ tx'[u].op = "equip" /\ tx'[u].at = tx[u].at
             /\ tx'[u].item = tx[u].item /\ tx'[u].off = tx[u].off
             /\ ~tx'[u].alone
  <2>1. u \in Txs /\ u # t
    OBVIOUS
  <2> HIDE DEF beside, x
  <2> QED BY <1>1, <1>2, <2>1
<1>5. tx'[t] = x /\ \A u \in Txs \ {t} : u \notin beside => tx'[u] = tx[u]
  BY <1>1
<1> HIDE DEF x
<1> QED BY <1>1, <1>2, <1>3, <1>4, <1>5

\* An equip takes off what is still on of what it has seen.
LEMMA TakesOff ==
  ASSUME RewardsTypeOK, NEW t \in Txs, EquipOff(t)
  PROVE  /\ tx[t].op = "equip" /\ tx[t].at = "start"
         /\ tx'[t].op = "equip" /\ tx'[t].at = "off" /\ tx'[t].item = tx[t].item
         /\ tx'[t].off = {j \in tx[t].off : bag[j] = "on"}
         /\ tx'[t].alone = tx[t].alone
         /\ \A u \in Txs \ {t} : tx'[u] = tx[u]
         /\ UNCHANGED <<bag, overlapped>>
<1>1. tx[t] \in [op: {"equip"}, item: Items, at: {"owned", "start", "off"},
                 off: SUBSET Items, alone: BOOLEAN]
  BY TxKinds DEF EquipOff
<1> DEFINE x == [tx[t] EXCEPT !.at = "off", !.off = {j \in @ : bag[j] = "on"}]
<1>2. /\ x.op = "equip" /\ x.at = "off" /\ x.item = tx[t].item
      /\ x.off = {j \in tx[t].off : bag[j] = "on"} /\ x.alone = tx[t].alone
  BY <1>1
<1>3. /\ tx' = [tx EXCEPT ![t] = x] /\ tx[t].op = "equip" /\ tx[t].at = "start"
      /\ UNCHANGED <<bag, overlapped>>
  BY DEF EquipOff
<1> HIDE DEF x
<1>4. tx'[t] = x /\ \A u \in Txs \ {t} : tx'[u] = tx[u]
  BY <1>3 DEF RewardsTypeOK
<1> QED BY <1>2, <1>3, <1>4

\* An equip puts its item on, and one that is alone mends the slot.
LEMMA PutsOn ==
  ASSUME RewardsTypeOK, NEW t \in Txs, EquipOn(t)
  PROVE  /\ tx[t].op = "equip" /\ tx[t].at = "off" /\ tx[t].item \in Items
         /\ Equipping(t, Slot[tx[t].item])
         /\ tx[t].alone \in BOOLEAN
         /\ tx'[t] = NoOp
         /\ \A u \in Txs \ {t} : tx'[u] = tx[u]
         /\ bag' = [j \in Items |-> IF j = tx[t].item THEN "on"
                                    ELSE IF j \in tx[t].off THEN "owned" ELSE bag[j]]
         /\ overlapped' = IF tx[t].alone THEN overlapped \ {Slot[tx[t].item]} ELSE overlapped
BY TxKinds DEF EquipOn, EndTx, RewardsTypeOK, Equipping

\* In the beginning nothing is equipped and nothing is under way.
LEMMA BagInit == RewardsInit => OwnsWhatItMoves /\ EquipsKnow /\ AloneSeesAll /\ OneOn
<1> SUFFICES ASSUME RewardsInit PROVE OwnsWhatItMoves /\ EquipsKnow /\ AloneSeesAll /\ OneOn
  OBVIOUS
<1>1. /\ \A t \in Txs : tx[t].op = "none"
      /\ \A i \in Items : bag[i] # "on"
  BY DEF RewardsInit, NoOp
<1> QED BY <1>1 DEF OwnsWhatItMoves, EquipsKnow, AloneSeesAll, OneOn, Equipping

\* A step moves only what is in the bag.
LEMMA OwnsStep ==
  ASSUME RewardsTypeOK, OwnsWhatItMoves, [RewardsNext]_rewardVars
  PROVE  OwnsWhatItMoves'
<1> SUFFICES ASSUME NEW t \in Txs
             PROVE  /\ tx'[t].op \in {"equip", "unequip"} => bag'[tx'[t].item] # "none"
                    /\ tx'[t].op = "equip" => \A j \in tx'[t].off : bag'[j] # "none"
  BY DEF OwnsWhatItMoves
<1>1. /\ \A j \in Items : bag[j] # "none" => bag'[j] # "none"
      /\ RewardsTypeOK'
  BY BagGrows, TypeStep
<1>2. /\ tx[t].op \in {"equip", "unequip"} => tx[t].item \in Items
      /\ tx[t].op = "equip" => tx[t].off \subseteq Items
  BY TxKinds
<1>3. tx'[t].op \in {"equip", "unequip"} => tx'[t].item \in Items
  BY <1>1 DEF RewardsTypeOK, Tx, NoOp
<1>4. CASE Rests(t)
  BY <1>1, <1>2, <1>3, <1>4 DEF OwnsWhatItMoves, Rests
<1>6. ASSUME NEW a \in Txs, EquipStart(a)
      PROVE  /\ tx'[t].op \in {"equip", "unequip"} => bag'[tx'[t].item] # "none"
             /\ tx'[t].op = "equip" => \A j \in tx'[t].off : bag'[j] # "none"
  <2>1. CASE a = t
    BY <1>6, <1>1, <1>2, <2>1, Starts DEF OwnsWhatItMoves, Others
  <2>2. CASE a # t
    BY <1>6, <1>1, <1>2, <2>2, Starts DEF OwnsWhatItMoves, Equipping
  <2> QED BY <2>1, <2>2
<1>7. ASSUME NEW a \in Txs, EquipOff(a)
      PROVE  /\ tx'[t].op \in {"equip", "unequip"} => bag'[tx'[t].item] # "none"
             /\ tx'[t].op = "equip" => \A j \in tx'[t].off : bag'[j] # "none"
  BY <1>7, <1>1, <1>2, TakesOff DEF OwnsWhatItMoves
<1>8. ASSUME NEW a \in Txs, EquipOn(a)
      PROVE  /\ tx'[t].op \in {"equip", "unequip"} => bag'[tx'[t].item] # "none"
             /\ tx'[t].op = "equip" => \A j \in tx'[t].off : bag'[j] # "none"
  BY <1>8, <1>1, <1>2, PutsOn DEF OwnsWhatItMoves, NoOp
<1> QED BY <1>4, <1>6, <1>7, <1>8, Moves

\* A step keeps the equips of a slot informed of each other.
LEMMA EquipsStep ==
  ASSUME RewardsTypeOK, EquipsKnow, [RewardsNext]_rewardVars
  PROVE  EquipsKnow'
<1> SUFFICES ASSUME NEW t \in Txs, NEW s \in Slots, Equipping(t, s)'
             PROVE  /\ tx'[t].alone => \A u \in Txs \ {t} : ~Equipping(u, s)'
                    /\ ~tx'[t].alone => s \in overlapped'
  BY DEF EquipsKnow
<1>k. ASSUME NEW u \in Txs, Equipping(u, s)
      PROVE  /\ tx[u].alone => \A v \in Txs \ {u} : ~Equipping(v, s)
             /\ ~tx[u].alone => s \in overlapped
  BY <1>k DEF EquipsKnow
<1>1. CASE overlapped' = overlapped /\ \A u \in Txs : Rests(u)
  <2>1. \A u \in Txs : Equipping(u, s)' => tx'[u] = tx[u] /\ Equipping(u, s)
    BY <1>1 DEF Rests, Equipping
  <2> QED BY <1>1, <1>k, <2>1
<1>2. ASSUME NEW a \in Txs, EquipStart(a)
      PROVE  /\ tx'[t].alone => \A u \in Txs \ {t} : ~Equipping(u, s)'
             /\ ~tx'[t].alone => s \in overlapped'
  <2> DEFINE slot == Slot[tx[a].item]
  <2>1. /\ tx[a].op = "equip" /\ tx[a].at = "owned"
        /\ tx'[a].op = "equip" /\ tx'[a].item = tx[a].item
        /\ tx'[a].alone <=> \A u \in Txs \ {a} : ~Equipping(u, slot)
        /\ \A u \in Txs \ {a} :
             IF Equipping(u, slot)
             THEN /\ tx'[u].op = "equip" /\ tx'[u].at = tx[u].at
                  /\ tx'[u].item = tx[u].item
                  /\ ~tx'[u].alone /\ slot \in overlapped'
             ELSE tx'[u] = tx[u]
        /\ overlapped \subseteq overlapped'
    BY <1>2, Starts
  <2> HIDE DEF slot
  <2>2. \A u \in Txs \ {a} : Equipping(u, s)' => Equipping(u, s)
    BY <2>1 DEF Equipping
  <2>3. Equipping(a, s)' => s = slot
    BY <2>1 DEF Equipping, slot
  <2>4. ASSUME NEW u \in Txs \ {a}, Equipping(u, slot), Equipping(u, s) PROVE s = slot
    BY <2>4 DEF Equipping
  <2>5. CASE t = a
    BY <2>1, <2>2, <2>3, <2>5
  <2>6. CASE t # a /\ Equipping(t, slot)
    BY <2>1, <2>2, <2>4, <2>6
  <2>7. CASE t # a /\ ~Equipping(t, slot)
    <3>1. tx'[t] = tx[t] /\ Equipping(t, s) /\ s # slot
      BY <2>1, <2>2, <2>7
    <3> QED BY <1>k, <2>1, <2>2, <2>3, <2>7, <3>1
  <2> QED BY <2>5, <2>6, <2>7
<1>3. ASSUME NEW a \in Txs, EquipOff(a)
      PROVE  /\ tx'[t].alone => \A u \in Txs \ {t} : ~Equipping(u, s)'
             /\ ~tx'[t].alone => s \in overlapped'
  <2>1. \A u \in Txs : Equipping(u, s)' => tx'[u].alone = tx[u].alone /\ Equipping(u, s)
    BY <1>3, TakesOff DEF Equipping
  <2> QED BY <1>3, <1>k, <2>1, TakesOff
<1>4. ASSUME NEW a \in Txs, EquipOn(a)
      PROVE  /\ tx'[t].alone => \A u \in Txs \ {t} : ~Equipping(u, s)'
             /\ ~tx'[t].alone => s \in overlapped'
  <2>1. \A u \in Txs : Equipping(u, s)' => u # a /\ tx'[u] = tx[u] /\ Equipping(u, s)
    BY <1>4, PutsOn DEF Equipping, NoOp
  <2>2. ~tx[t].alone /\ tx[a].alone => s # Slot[tx[a].item]
    BY <1>4, <1>k, <2>1, PutsOn
  <2> QED BY <1>4, <1>k, <2>1, <2>2, PutsOn
<1> QED BY <1>1, <1>2, <1>3, <1>4, Moves

\* Nothing is put on behind the back of an equip that is alone.
LEMMA AloneStep ==
  ASSUME RewardsTypeOK, EquipsKnow, AloneSeesAll, [RewardsNext]_rewardVars
  PROVE  AloneSeesAll'
<1> SUFFICES ASSUME NEW t \in Txs, tx'[t].op = "equip", tx'[t].at # "owned", tx'[t].alone,
                    NEW j \in Others(tx[t].item)'
             PROVE  j \in tx'[t].off
  BY DEF AloneSeesAll
<1>1. /\ j \in Items /\ j # tx'[t].item /\ bag'[j] = "on"
      /\ Slot[j] = Slot[tx'[t].item]
  BY DEF Others
<1>2. CASE /\ \A u \in Txs : Rests(u)
           /\ \A i \in Items : bag'[i] = "on" => bag[i] = "on"
  BY <1>1, <1>2 DEF AloneSeesAll, Others, Rests
<1>3. ASSUME NEW a \in Txs, EquipStart(a) PROVE j \in tx'[t].off
  <2>1. CASE a = t
    BY <1>1, <1>3, <2>1, Starts DEF Others
  <2>2. CASE a # t
    BY <1>1, <1>3, <2>2, Starts DEF AloneSeesAll, Others
  <2> QED BY <2>1, <2>2
<1>4. ASSUME NEW a \in Txs, EquipOff(a) PROVE j \in tx'[t].off
  <2>1. CASE a = t
    BY <1>1, <1>4, <2>1, TakesOff DEF AloneSeesAll, Others
  <2>2. CASE a # t
    BY <1>1, <1>4, <2>2, TakesOff DEF AloneSeesAll, Others
  <2> QED BY <2>1, <2>2
<1>5. ASSUME NEW a \in Txs, EquipOn(a) PROVE j \in tx'[t].off
  <2>1. a # t /\ tx'[t] = tx[t]
    BY <1>5, PutsOn DEF NoOp
  <2>2. tx[t].item \in Items /\ Slot[tx[t].item] \in Slots
    BY <2>1, TxKinds DEF Slots
  <2>3. Equipping(t, Slot[tx[t].item]) /\ tx[t].alone
    BY <2>1 DEF Equipping
  <2>4. j # tx[a].item
    BY <1>1, <1>5, <2>1, <2>2, <2>3, PutsOn DEF EquipsKnow
  <2>5. bag[j] = "on"
    BY <1>1, <1>5, <2>4, PutsOn
  <2> QED BY <1>1, <2>1, <2>5 DEF AloneSeesAll, Others
<1> QED BY <1>2, <1>3, <1>4, <1>5, Moves

\* A slot that no equips have overlapped in keeps one item on.
LEMMA OneStep ==
  ASSUME RewardsTypeOK, EquipsKnow, AloneSeesAll, OneOn, [RewardsNext]_rewardVars
  PROVE  OneOn'
<1> SUFFICES ASSUME NEW s \in Slots \ overlapped', NEW i \in Items, NEW j \in Items,
                    Slot[i] = s, Slot[j] = s, bag'[i] = "on", bag'[j] = "on"
             PROVE  i = j
  BY DEF OneOn
<1>1. CASE /\ overlapped' = overlapped
           /\ \A k \in Items : bag'[k] = "on" => bag[k] = "on"
  BY <1>1 DEF OneOn
<1>2. ASSUME NEW a \in Txs, EquipStart(a) PROVE i = j
  BY <1>2, Starts DEF OneOn
<1>3. ASSUME NEW a \in Txs, EquipOff(a) PROVE i = j
  BY <1>3, TakesOff DEF OneOn
<1>4. ASSUME NEW a \in Txs, EquipOn(a) PROVE i = j
  <2> DEFINE k == tx[a].item
  <2>1. /\ k \in Items /\ Slot[k] \in Slots
        /\ Equipping(a, Slot[k]) /\ tx[a].op = "equip" /\ tx[a].at = "off"
        /\ bag' = [x \in Items |-> IF x = k THEN "on"
                                   ELSE IF x \in tx[a].off THEN "owned" ELSE bag[x]]
        /\ overlapped' = IF tx[a].alone THEN overlapped \ {Slot[k]} ELSE overlapped
    BY <1>4, PutsOn DEF Slots
  <2>2. CASE s # Slot[k]
    <3>1. s \notin overlapped /\ bag[i] = "on" /\ bag[j] = "on"
      BY <2>1, <2>2
    <3> QED BY <3>1 DEF OneOn
  <2>3. CASE s = Slot[k]
    <3>1. tx[a].alone
      BY <2>1, <2>3 DEF EquipsKnow
    <3>2. Others(k) \subseteq tx[a].off
      BY <2>1, <3>1 DEF AloneSeesAll
    <3>3. i = k
      BY <2>1, <2>3, <3>2 DEF Others
    <3>4. j = k
      BY <2>1, <2>3, <3>2 DEF Others
    <3> QED BY <3>3, <3>4
  <2> QED BY <2>2, <2>3
<1> QED BY <1>1, <1>2, <1>3, <1>4, Moves

-----------------------------------------------------------------------------
(* The mood                                                                *)

\* The mood and its date change together, and the age begins anew.
LEMMA MoodMoves ==
  ASSUME RewardsTypeOK, [RewardsNext]_rewardVars
  PROVE  /\ profile'.moodSet \in Nat /\ profile.moodSet \in Nat /\ moodAge \in Nat
         /\ \/ /\ profile'.moodSet = profile.moodSet /\ profile'.mood = profile.mood
               /\ moodAge' \in Nat /\ moodAge' >= moodAge
            \/ /\ profile'.moodSet = profile.moodSet + 1
               /\ \/ profile'.mood # "NEUTRAL"
                  \/ \E t \in Txs : DecayWrite(t) /\ SameMood(tx[t].seen)
<1>1. profile'.moodSet \in Nat /\ profile.moodSet \in Nat /\ moodAge \in Nat /\ moodAge' \in Nat
  BY TypeStep DEF RewardsTypeOK, Profile
<1>2. ASSUME NEW t \in Txs, SettleCommit(t)
      PROVE  \/ /\ profile'.moodSet = profile.moodSet /\ profile'.mood = profile.mood
                /\ moodAge' >= moodAge
             \/ profile'.moodSet = profile.moodSet + 1 /\ profile'.mood # "NEUTRAL"
  BY <1>1, <1>2, SettleWrites
<1>3. ASSUME NEW t \in Txs, DecayWrite(t)
      PROVE  \/ /\ profile'.moodSet = profile.moodSet /\ profile'.mood = profile.mood
                /\ moodAge' >= moodAge
             \/ profile'.moodSet = profile.moodSet + 1 /\ SameMood(tx[t].seen)
  <2>1. CASE SameMood(tx[t].seen)
    <3>1. profile' = [profile EXCEPT !.mood = "NEUTRAL", !.moodSet = @ + 1]
      BY <1>3, <2>1 DEF DecayWrite
    <3>2. profile'.moodSet = profile.moodSet + 1
      BY <3>1 DEF RewardsTypeOK, Profile
    <3> QED BY <2>1, <3>2
  <2>2. CASE ~SameMood(tx[t].seen)
    BY <1>1, <1>3, <2>2 DEF DecayWrite
  <2> QED BY <2>1, <2>2
<1>4. ASSUME NEW t \in Txs, BuyCommit(t)
      PROVE  /\ profile'.moodSet = profile.moodSet /\ profile'.mood = profile.mood
             /\ moodAge' >= moodAge
  BY <1>1, <1>4 DEF BuyCommit, RewardsTypeOK, Profile
<1>5. \/ \E t \in Txs : SettleCommit(t) \/ DecayWrite(t)
      \/ moodAge' = moodAge + 1
      \/ moodAge' = moodAge
  BY DEF RewardsNext, rewardVars, Day, Settle, BeginTx, SettleRead, SettleLock, Buy, BuySpend,
         BuyCommit, Equip, EquipStart, EquipOff, EquipOn, Unequip, UnequipOff, Decay, AbortTx
<1>6. \/ \E t \in Txs : SettleCommit(t) \/ DecayWrite(t)
      \/ moodAge' >= moodAge
  BY <1>1, <1>5
<1>7. ASSUME NEW t \in Txs, EquipOn(t) \/ UnequipOff(t) PROVE profile' = profile
  BY <1>7 DEF EquipOn, UnequipOff
<1> QED BY <1>1, <1>2, <1>3, <1>4, <1>6, <1>7, Writers

\* In the beginning no decay has read a mood.
LEMMA DecaysInit == RewardsInit => DecaysDue
BY DEF RewardsInit, DecaysDue, NoOp

\* What the scheduler has read of a mood is not younger than the mood.
LEMMA DecaysStep ==
  ASSUME RewardsTypeOK, DecaysDue, [RewardsNext]_rewardVars
  PROVE  DecaysDue'
<1> SUFFICES ASSUME NEW u \in Txs, tx'[u].op = "decay"
             PROVE  /\ tx'[u].seen.moodSet <= profile'.moodSet
                    /\ tx'[u].seen.moodSet = profile'.moodSet =>
                         /\ tx'[u].seen.mood = profile'.mood
                         /\ moodAge' >= Lasts[profile'.mood]
  BY DEF DecaysDue
<1>1. tx'[u] = tx[u] \/ (Decay(u) /\ tx'[u].seen = profile)
  <2>b. ASSUME NEW t \in Txs, NEW x, BeginTx(t, x) PROVE tx'[u] = IF u = t THEN x ELSE tx[u]
    BY <2>b DEF BeginTx, RewardsTypeOK
  <2>e. ASSUME NEW t \in Txs, EndTx(t) PROVE tx'[u] = tx[u]
    BY <2>e DEF EndTx, RewardsTypeOK, NoOp
  <2>1. CASE Day \/ UNCHANGED rewardVars
    BY <2>1 DEF Day, rewardVars
  <2>2. ASSUME NEW t \in Txs, NEW kind \in Kinds, Settle(t, kind) PROVE tx'[u] = tx[u]
    BY <2>2, <2>b DEF Settle
  <2>3. ASSUME NEW t \in Txs, SettleRead(t) PROVE tx'[u] = tx[u]
    <3>1. tx[t] \in [op: {"settle"}, kind: Kinds, read: BOOLEAN, seen: Profile]
      BY <2>3, TxKinds DEF SettleRead
    <3>2. tx'[u] = IF u = t THEN [tx[t] EXCEPT !.read = TRUE, !.seen = profile] ELSE tx[u]
      BY <2>3 DEF SettleRead, RewardsTypeOK
    <3> QED BY <3>1, <3>2
  <2>4. ASSUME NEW t \in Txs, SettleLock(t) PROVE tx'[u] = tx[u]
    BY <2>4 DEF SettleLock
  <2>5. ASSUME NEW t \in Txs, SettleCommit(t) \/ BuyCommit(t) \/ DecayWrite(t) \/ AbortTx(t)
                              \/ UnequipOff(t) \/ EquipOn(t)
        PROVE  EndTx(t)
    BY <2>5 DEF SettleCommit, BuyCommit, DecayWrite, AbortTx, UnequipOff, EquipOn
  <2>6. ASSUME NEW t \in Txs, NEW i \in Items, Buy(t, i) \/ Equip(t, i) \/ Unequip(t, i)
        PROVE  tx'[u] = tx[u]
    BY <2>6, <2>b DEF Buy, Equip, Unequip
  <2>7. ASSUME NEW t \in Txs, BuySpend(t) PROVE tx' = tx \/ EndTx(t)
    BY <2>7 DEF BuySpend
  <2>8. ASSUME NEW t \in Txs, EquipStart(t) PROVE tx'[u] = tx[u]
    BY <2>8, Starts
  <2>9. ASSUME NEW t \in Txs, EquipOff(t) PROVE tx'[u] = tx[u]
    BY <2>9, TakesOff
  <2>10. ASSUME NEW t \in Txs, Decay(t)
         PROVE  tx'[u] = tx[u] \/ (Decay(u) /\ tx'[u].seen = profile)
    BY <2>10, <2>b DEF Decay
  <2> QED BY <2>1, <2>2, <2>3, <2>4, <2>5, <2>6, <2>7, <2>8, <2>9, <2>10, <2>e
          DEF RewardsNext
<1>2. CASE tx'[u] = tx[u]
  <2> DEFINE seen == tx[u].seen
  <2>1. /\ seen.moodSet <= profile.moodSet /\ seen.moodSet \in Nat
        /\ seen.moodSet = profile.moodSet =>
             seen.mood = profile.mood /\ moodAge >= Lasts[profile.mood]
    BY <1>2, TxKinds DEF DecaysDue, Profile
  <2>2. Lasts[profile.mood] \in Nat
    BY DEF RewardsTypeOK, Profile, Lasts
  <2>3. tx'[u].seen = seen
    BY <1>2
  <2> HIDE DEF seen
  <2> QED BY <2>1, <2>2, <2>3, MoodMoves
<1>3. CASE Decay(u) /\ tx'[u].seen = profile
  <2>1. profile' = profile /\ moodAge' = moodAge /\ moodAge >= Lasts[profile.mood]
    BY <1>3 DEF Decay, BeginTx
  <2>2. profile.moodSet \in Nat
    BY DEF RewardsTypeOK, Profile
  <2> QED BY <1>3, <2>1, <2>2
<1> QED BY <1>1, <1>2, <1>3

\* A mood that ends was read by the scheduler after its time.
LEMMA MoodStep ==
  ASSUME RewardsTypeOK, DecaysDue, [RewardsNext]_rewardVars,
         profile.mood # "NEUTRAL", profile'.mood = "NEUTRAL"
  PROVE  moodAge >= Lasts[profile.mood]
<1>1. PICK t \in Txs : DecayWrite(t) /\ SameMood(tx[t].seen)
  BY MoodMoves
<1>2. tx[t].op = "decay" /\ tx[t].seen.moodSet = profile.moodSet
  BY <1>1 DEF DecayWrite, SameMood
<1> QED BY <1>2 DEF DecaysDue

-----------------------------------------------------------------------------
(* Theorems                                                                *)

\* The inductive invariant holds of every reachable state.
LEMMA SafeAlways == RewardsSpec => []ProfileSafe
<1>1. RewardsInit => ProfileSafe
  <2>1. RewardsInit => LockKeeps
    BY RewardsConstants DEF RewardsInit, LockKeeps, Keeps, HasLock, NoOp
  <2> QED BY <2>1, TypeInit, CoinsInit, SumsInit, BagInit, DecaysInit DEF ProfileSafe
<1>2. ProfileSafe /\ [RewardsNext]_rewardVars => ProfileSafe'
  BY TypeStep, LockStep, CoinsStep, SumsStep, OwnsStep, EquipsStep, AloneStep, OneStep,
     DecaysStep DEF ProfileSafe
<1> QED BY <1>1, <1>2, PTL DEF RewardsSpec

\* The balance is what the ledger says and never below zero, an item in the bag
\* was paid for once and no other was, and a slot in which no equips overlapped
\* wears one item (spendCoins, purchase, equip).
THEOREM ShopSellsOnce == RewardsSpec => []ShopIsFair
<1>1. ProfileSafe => ShopIsFair
  <2> SUFFICES ASSUME ProfileSafe, NEW s \in Slots \ overlapped
               PROVE  Cardinality({i \in Items : Slot[i] = s /\ bag[i] = "on"}) <= 1
    BY DEF ShopIsFair, OneItemPerSlot, ProfileSafe
  <2> DEFINE on == {i \in Items : Slot[i] = s /\ bag[i] = "on"}
  <2>1. \A i, j \in on : i = j
    BY DEF ProfileSafe, OneOn
  <2>2. CASE on = {}
    BY <2>2, FS_EmptySet
  <2>3. CASE on # {}
    <3>1. PICK i \in on : TRUE
      BY <2>3
    <3>2. on = {i}
      BY <2>1, <3>1
    <3> HIDE DEF on
    <3>3. Cardinality(on) = 1
      BY <3>2, FS_Singleton
    <3> QED BY <3>3 DEF on
  <2> QED BY <2>2, <2>3
<1> QED BY <1>1, SafeAlways, PTL

\* XP and the longest streak are those of every committed settlement unless one
\* without coins overwrote another, and a badge is earned once (settleAction).
THEOREM SettlementsAddUp == RewardsSpec => []RewardsAddUp
<1>1. ProfileSafe => RewardsAddUp
  BY DEF ProfileSafe
<1> QED BY <1>1, SafeAlways, PTL

\* A mood ends by itself only after its time (decayMascotMoods).
THEOREM MoodsLastTheirTime == RewardsSpec => MoodsLast
<1>1. ProfileSafe /\ [RewardsNext]_rewardVars =>
        [profile.mood # "NEUTRAL" /\ profile'.mood = "NEUTRAL" =>
           moodAge >= Lasts[profile.mood]]_rewardVars
  BY MoodStep DEF ProfileSafe
<1> QED BY <1>1, SafeAlways, PTL DEF RewardsSpec, MoodsLast

-----------------------------------------------------------------------------
(* The credit score: the parts of the formula                              *)

\* Occurrences as the formula reads them.
Histories == [Occs -> Occ]

\* The lowest of some numbers is one of them.
LEMMA LowestIs ==
  ASSUME NEW S \in SUBSET Nat, S # {}
  PROVE  Min(S) \in S /\ \A k \in S : Min(S) <= k
<1>1. PICK m \in S : \A k \in S : m <= k
  BY LeastNumber
<1> QED BY <1>1 DEF Min

\* The lower of two numbers.
LEMMA LowerIs ==
  ASSUME NEW a \in Nat, NEW b \in Nat
  PROVE  Min({a, b}) = IF a <= b THEN a ELSE b
BY DEF Min

\* Quotients are as their fractions.
LEMMA QuotientsFollow ==
  ASSUME NEW a \in Nat, NEW b \in Nat, NEW m \in Nat \ {0}, NEW n \in Nat \ {0},
         a * n <= b * m
  PROVE  a \div m <= b \div n
<1>1. PICK p \in Nat, q \in Nat : p = a \div m /\ q = b \div n
  OBVIOUS
<1>2. m * p <= a /\ b < n * (q + 1)
  BY <1>1
<1> SUFFICES ASSUME p >= q + 1 PROVE FALSE
  BY <1>1
<1>3. PICK c \in Nat : c = n * (q + 1)
  OBVIOUS
<1>4. n * p >= c
  BY <1>3
<1>5. b < n * p
  BY <1>2, <1>3, <1>4
<1>6. b * m < (n * p) * m
  BY <1>5
<1>7. (n * p) * m = (m * p) * n
  OBVIOUS
<1>8. (m * p) * n <= a * n
  BY <1>2
<1>9. PICK x \in Nat, y \in Nat, z \in Nat : x = a * n /\ y = b * m /\ z = (m * p) * n
  OBVIOUS
<1> QED BY <1>6, <1>7, <1>8, <1>9

\* Days of delay and points for them.
LEMMA PointsAre ==
  /\ \A n \in Nat : Points(n) \in {1, 5, 10, 14, 17, 20}
  /\ \A m, n \in Nat : m <= n => Points(n) <= Points(m)
  /\ Points(0) = 20
BY DEF Points

\* A delay is a number of days, none for what was paid by the time it was due.
LEMMA DelayIs ==
  ASSUME NEW os \in Histories, NEW o \in Occs
  PROVE  /\ DaysLate(os, o) \in Nat
         /\ HistoryPoints(os, o) \in {0, 1, 5, 10, 14, 17, 20}
         /\ os[o].status \notin FailedStatuses => HistoryPoints(os, o) = Points(DaysLate(os, o))
         /\ os[o].status \in FailedStatuses => HistoryPoints(os, o) = 0
<1>1. os[o].paidAt \in Int /\ Due[o] \in Nat
  BY CreditConstants DEF Histories, Occ
<1>2. DaysLate(os, o) \in Nat
  BY <1>1 DEF DaysLate, CeilDays
<1> QED BY <1>2, PointsAre DEF HistoryPoints

\* A payment counts once to four times.
LEMMA WeightIs == \A o \in Occs : Weight[o] \in 1..4
<1> SUFFICES ASSUME NEW o \in Occs PROVE Weight[o] \in 1..4
  OBVIOUS
<1>1. Priority[o] \in {"LOW", "MEDIUM", "HIGH", "CRITICAL"}
  BY CreditConstants
<1> QED BY <1>1 DEF Weight

\* Every part of a finite set of occurrences is finite.
LEMMA PartsAreFinite == \A S \in SUBSET Occs : IsFiniteSet(S)
BY CreditConstants, FS_Subset

\* What the formula adds up over the history.
Earned(os) == [o \in Occs |-> Weight[o] * HistoryPoints(os, o)]
Divisor(os) == IF History(os) = {} THEN 1 ELSE Weights(os)

\* And earns up to 20 points each time.
LEMMA EarnedIs ==
  ASSUME NEW os \in Histories
  PROVE  \A o \in Occs : /\ Earned(os)[o] \in Nat /\ Earned(os)[o] <= 20 * Weight[o]
                         /\ Earned(os)[o] = Weight[o] * HistoryPoints(os, o)
<1> SUFFICES ASSUME NEW o \in Occs
             PROVE  /\ Earned(os)[o] \in Nat /\ Earned(os)[o] <= 20 * Weight[o]
                    /\ Earned(os)[o] = Weight[o] * HistoryPoints(os, o)
  OBVIOUS
<1>1. PICK w \in 1..4, p \in {0, 1, 5, 10, 14, 17, 20} : w = Weight[o] /\ p = HistoryPoints(os, o)
  BY WeightIs, DelayIs
<1>2. w * p \in Nat /\ w * p <= 20 * w
  BY <1>1
<1> QED BY <1>1, <1>2 DEF Earned

\* The history is at most full points for everything in it.
LEMMA HistoryIs ==
  ASSUME NEW os \in Histories
  PROVE  /\ History(os) \in SUBSET Occs /\ IsFiniteSet(History(os))
         /\ HistorySum(os) = SumFunctionOnSet(Earned(os), History(os))
         /\ HistorySum(os) \in Nat /\ Weights(os) \in Nat /\ Divisor(os) \in Nat \ {0}
         /\ HistorySum(os) <= 20 * Weights(os) /\ HistorySum(os) <= 20 * Divisor(os)
         /\ History(os) = {} => HistorySum(os) = 0 /\ Weights(os) = 0
         /\ History(os) # {} => Weights(os) > 0
<1>1. History(os) \in SUBSET Occs /\ IsFiniteSet(History(os))
  BY PartsAreFinite DEF History, Having
<1>2. HistorySum(os) = SumFunctionOnSet(Earned(os), History(os))
  BY DEF HistorySum, Earned
<1>3. \A o \in History(os) : /\ Earned(os)[o] \in Nat /\ Weight[o] \in 1..4
                             /\ Earned(os)[o] <= 20 * Weight[o]
  BY <1>1, EarnedIs, WeightIs
<1>4. HistorySum(os) \in Nat
  BY <1>1, <1>2, <1>3, SumNatural
<1>5. \A o \in History(os) : Weight[o] \in Nat
  BY <1>3
<1>6. Weights(os) \in Nat /\ \A o \in History(os) : Weight[o] <= Weights(os)
  BY <1>1, <1>5, SumNatural DEF Weights
<1>7. HistorySum(os) <= 20 * Weights(os)
  <2>1. \A o \in History(os) : Earned(os)[o] \in Int /\ Weight[o] \in Int
    BY <1>3
  <2> QED BY <1>1, <1>2, <1>3, <2>1, SumAtMost DEF Weights
<1>8. History(os) = {} => HistorySum(os) = 0 /\ Weights(os) = 0
  BY <1>2, SumEmpty DEF Weights
<1>9. History(os) # {} => Weights(os) > 0
  BY <1>3, <1>6
<1> QED BY <1>1, <1>2, <1>4, <1>6, <1>7, <1>8, <1>9 DEF Divisor

\* Two histories that differ in one occurrence.
Beside(os, ps, o) == \A p \in Occs \ {o} : os[p] = ps[p]

\* An occurrence that was in the history and stays in it changes the points only.
LEMMA HistoryKeeps ==
  ASSUME NEW os \in Histories, NEW ps \in Histories, NEW o \in Occs, Beside(os, ps, o),
         o \in History(os), o \in History(ps),
         HistoryPoints(os, o) <= HistoryPoints(ps, o)
  PROVE  /\ History(os) = History(ps) /\ Weights(os) = Weights(ps)
         /\ HistorySum(os) <= HistorySum(ps)
<1>1. History(os) = History(ps)
  BY DEF Beside, History, Having
<1>2. Weights(os) = Weights(ps)
  BY <1>1 DEF Weights
<1>3. \A p \in Occs \ {o} : HistoryPoints(os, p) = HistoryPoints(ps, p)
  BY DEF Beside, HistoryPoints, DaysLate
<1>4. \A p \in History(os) : /\ Earned(os)[p] \in Int /\ Earned(ps)[p] \in Int
                             /\ Earned(os)[p] <= 1 * Earned(ps)[p]
  <2> SUFFICES ASSUME NEW p \in History(os)
               PROVE  /\ Earned(os)[p] \in Int /\ Earned(ps)[p] \in Int
                      /\ Earned(os)[p] <= 1 * Earned(ps)[p]
    OBVIOUS
  <2>1. p \in Occs
    BY HistoryIs
  <2>2. PICK w \in 1..4, m \in Nat, n \in Nat :
          w = Weight[p] /\ m = HistoryPoints(os, p) /\ n = HistoryPoints(ps, p)
    BY <2>1, WeightIs, DelayIs
  <2>3. m <= n
    BY <1>3, <2>1, <2>2
  <2>4. w * m <= w * n /\ w * m \in Nat /\ w * n \in Nat
    BY <2>2, <2>3
  <2> QED BY <2>1, <2>2, <2>4, EarnedIs
<1>5. SumFunctionOnSet(Earned(os), History(os)) <= 1 * SumFunctionOnSet(Earned(ps), History(os))
  BY <1>4, HistoryIs, SumAtMost
<1>6. HistorySum(os) <= 1 * HistorySum(ps)
  BY <1>1, <1>5, HistoryIs
<1> QED BY <1>1, <1>2, <1>6, HistoryIs

\* One that joins the history adds its weight and its points.
LEMMA HistoryGrows ==
  ASSUME NEW os \in Histories, NEW ps \in Histories, NEW o \in Occs, Beside(os, ps, o),
         o \notin History(os), o \in History(ps)
  PROVE  /\ History(ps) = History(os) \cup {o}
         /\ Weights(ps) = Weights(os) + Weight[o]
         /\ HistorySum(ps) = HistorySum(os) + Weight[o] * HistoryPoints(ps, o)
<1>1. History(ps) = History(os) \cup {o}
  BY DEF Beside, History, Having
<1>2. \A p \in Occs \ {o} : HistoryPoints(os, p) = HistoryPoints(ps, p)
  BY DEF Beside, HistoryPoints, DaysLate
<1>3. \A p \in History(os) : Earned(ps)[p] = Earned(os)[p]
  BY <1>2, HistoryIs DEF Earned
<1>4. SumFunctionOnSet(Earned(ps), History(os)) = HistorySum(os)
  BY <1>3, HistoryIs, SumEqual
<1>5. PICK S, f : S = History(os) /\ f = Earned(ps)
  OBVIOUS
<1>6. /\ IsFiniteSet(S) /\ o \notin S
      /\ \A p \in S \cup {o} : f[p] \in Int
      /\ \A p \in S \cup {o} : Weight[p] \in Int
  BY <1>5, EarnedIs, WeightIs, HistoryIs
<1>7. /\ SumFunctionOnSet(f, S \cup {o}) = f[o] + SumFunctionOnSet(f, S)
      /\ SumFunctionOnSet(Weight, S \cup {o}) = Weight[o] + SumFunctionOnSet(Weight, S)
  BY ONLY <1>6, SumAdd
<1>10. Weights(ps) = Weight[o] + Weights(os)
  BY <1>1, <1>5, <1>7 DEF Weights
<1>8. HistorySum(ps) = Earned(ps)[o] + HistorySum(os)
  BY <1>1, <1>4, <1>5, <1>7, HistoryIs
<1>9. Earned(ps)[o] \in Nat /\ Weight[o] \in 1..4 /\ HistorySum(os) \in Nat /\ Weights(os) \in Nat
  BY EarnedIs, WeightIs, HistoryIs
<1> QED BY <1>1, <1>8, <1>9, <1>10, EarnedIs

-----------------------------------------------------------------------------
(* The credit score: the formula                                           *)

\* Amounts that are due add up to a number, which a payment does not change.
LEMMA CommittedIs ==
  ASSUME NEW os, NEW t, NEW S \in SUBSET Occs
  PROVE  Committed(os, t, S) \in Nat
<1>1. PICK T : T = {o \in S : os[o].status \notin {"ABSENT", "CANCELLED"} /\ Month(Due[o]) = Month(t)}
  OBVIOUS
<1>2. IsFiniteSet(T) /\ \A o \in T : Amount[o] \in Nat
  BY <1>1, PartsAreFinite, CreditConstants
<1> QED BY <1>1, <1>2, SumNatural DEF Committed

\* A payment whose outcome changes stays committed.
LEMMA CommittedStays ==
  ASSUME NEW os, NEW ps, NEW o \in Occs, Beside(os, ps, o), NEW t, NEW S \in SUBSET Occs,
         os[o].status \notin {"ABSENT", "CANCELLED"}, ps[o].status \notin {"ABSENT", "CANCELLED"}
  PROVE  Committed(os, t, S) = Committed(ps, t, S)
<1>1. {p \in S : os[p].status \notin {"ABSENT", "CANCELLED"} /\ Month(Due[p]) = Month(t)}
      = {p \in S : ps[p].status \notin {"ABSENT", "CANCELLED"} /\ Month(Due[p]) = Month(t)}
  BY DEF Beside
<1> QED BY <1>1 DEF Committed

\* The points for the pressure of bills and the buffer.
LEMMA PressureIs == \A c, b \in Nat : Pressure(c, b) \in 0..4 /\ Buffer(c, b) \in 0..10
<1> SUFFICES ASSUME NEW c \in Nat, NEW b \in Nat
             PROVE  Pressure(c, b) \in 0..4 /\ Buffer(c, b) \in 0..10
  OBVIOUS
<1>1. Pressure(c, b) \in 0..4
  BY DEF Pressure
<1>2. Buffer(c, b) \in 0..10
  BY DEF Buffer
<1> QED BY <1>1, <1>2

\* What a finite set is mapped to is finite.
LEMMA ImageIsFinite ==
  ASSUME NEW S, IsFiniteSet(S), NEW f
  PROVE  IsFiniteSet({f[x] : x \in S})
<1>1. PICK T, g : T = {f[x] : x \in S} /\ g = [x \in S |-> f[x]]
  OBVIOUS
<1>2. g \in Surjection(S, T)
  BY <1>1 DEF Surjection
<1> QED BY <1>1, <1>2, FS_Surjection

\* The months of the history count up to 24.
HistoryMonths(os) == {Month(Due[o]) : o \in History(os)}
LEMMA MonthsAre ==
  ASSUME NEW os \in Histories
  PROVE  /\ IsFiniteSet(HistoryMonths(os)) /\ Months(os) \in 0..24
         /\ Months(os) = Min({24, Cardinality(HistoryMonths(os))})
<1>1. IsFiniteSet(HistoryMonths(os))
  <2>1. IsFiniteSet({[o \in Occs |-> Month(Due[o])][p] : p \in History(os)})
    BY HistoryIs, ImageIsFinite
  <2>2. HistoryMonths(os) = {[o \in Occs |-> Month(Due[o])][p] : p \in History(os)}
    BY HistoryIs DEF HistoryMonths
  <2> QED BY <2>1, <2>2
<1>2. Cardinality(HistoryMonths(os)) \in Nat
  BY <1>1, FS_CardinalityType
<1>3. Months(os) = Min({24, Cardinality(HistoryMonths(os))})
  BY DEF Months, HistoryMonths
<1> QED BY <1>1, <1>2, <1>3, LowerIs

\* A longer history has no fewer months.
LEMMA MonthsFollow ==
  ASSUME NEW os \in Histories, NEW ps \in Histories,
         HistoryMonths(os) \subseteq HistoryMonths(ps)
  PROVE  Months(os) <= Months(ps)
<1>1. PICK m \in Nat, n \in Nat :
        /\ m = Cardinality(HistoryMonths(os)) /\ n = Cardinality(HistoryMonths(ps)) /\ m <= n
  BY MonthsAre, FS_Subset, FS_CardinalityType
<1>2. Min({24, m}) <= Min({24, n})
  BY <1>1, LowerIs
<1> QED BY <1>1, <1>2, MonthsAre

\* The kinds of obligations among what was due of late.
KindsOf(os, ss, t) == {Kind[o] : o \in Having(os, ss) \cap Recent(t)}
KindsKept(os, t) == KindsOf(os, PaidStatuses, t) \ KindsOf(os, FailedStatuses, t)
Managed(os, t) == Min({15, 5 * Cardinality(KindsKept(os, t))})

\* The points for the kinds of payment that are managed,
LEMMA ManagedIs ==
  ASSUME NEW os, NEW t
  PROVE  IsFiniteSet(KindsKept(os, t)) /\ Managed(os, t) \in 0..15
<1>1. IsFiniteSet(Having(os, PaidStatuses) \cap Recent(t))
  BY PartsAreFinite DEF Having
<1>2. IsFiniteSet(KindsOf(os, PaidStatuses, t))
  BY <1>1, ImageIsFinite DEF KindsOf
<1>3. IsFiniteSet(KindsKept(os, t))
  BY <1>2, FS_Subset DEF KindsKept
<1>4. PICK n \in Nat : n = Cardinality(KindsKept(os, t))
  BY <1>3, FS_CardinalityType
<1>5. Min({15, 5 * n}) \in 0..15
  BY LowerIs
<1> QED BY <1>3, <1>4, <1>5 DEF Managed

\* which grow with the kinds.
LEMMA ManagedFollows ==
  ASSUME NEW os, NEW ps, NEW t, KindsKept(os, t) \subseteq KindsKept(ps, t)
  PROVE  Managed(os, t) <= Managed(ps, t)
<1>1. PICK m \in Nat, n \in Nat :
        /\ m = Cardinality(KindsKept(os, t)) /\ n = Cardinality(KindsKept(ps, t)) /\ m <= n
  BY ManagedIs, FS_Subset, FS_CardinalityType
<1>2. Min({15, 5 * m}) <= Min({15, 5 * n})
  BY <1>1, LowerIs
<1> QED BY <1>1, <1>2 DEF Managed

\* What a poor history leaves of that.
Poor(os) == HistorySum(os) < 10 * Weights(os) \/ History(os) = {}
LEMMA DiversityIs ==
  ASSUME NEW os, NEW t
  PROVE  /\ Diversity(os, t) = IF Poor(os) THEN Min({6, Managed(os, t)}) ELSE Managed(os, t)
         /\ Diversity(os, t) \in 0..15 /\ Diversity(os, t) <= Managed(os, t)
         /\ Poor(os) => Diversity(os, t) <= 6
<1>1. Diversity(os, t) = IF Poor(os) THEN Min({6, Managed(os, t)}) ELSE Managed(os, t)
  BY DEF Diversity, Poor, Managed, KindsKept, KindsOf
<1> QED BY <1>1, ManagedIs, LowerIs

\* Everything but the history, in points for each unit of weight.
Rest(os, gone, b, t) ==
    LET c == Committed(os, t, Occs \ gone) IN
    1650 * Pressure(c, b) + 264 * Buffer(c, b) + 165 * Months(os) + 176 * Diversity(os, t)
Raw(h, w, r) == 300 + (2 * (528 * h + w * r) + 48 * w) \div (96 * w)

\* What the rest adds is bounded,
LEMMA RestIs ==
  ASSUME NEW os \in Histories, NEW gone \in SUBSET Occs, NEW b, NEW t, b \in Nat, t \in Nat
  PROVE  Rest(os, gone, b, t) \in Nat /\ Rest(os, gone, b, t) <= 15840
<1>1. PICK c \in Nat : c = Committed(os, t, Occs \ gone)
  BY CommittedIs
<1>2. /\ Pressure(c, b) \in 0..4 /\ Buffer(c, b) \in 0..10 /\ Months(os) \in 0..24
      /\ Diversity(os, t) \in 0..15
  BY PressureIs, MonthsAre, DiversityIs
<1>3. PICK p \in 0..4, f \in 0..10, m \in 0..24, d \in 0..15 :
        /\ p = Pressure(c, b) /\ f = Buffer(c, b) /\ m = Months(os) /\ d = Diversity(os, t)
  BY <1>2
<1>4. PICK e : e = 1650 * p + 264 * f + 165 * m + 176 * d
  OBVIOUS
<1>5. Rest(os, gone, b, t) = e
  BY <1>1, <1>3, <1>4 DEF Rest
<1>6. PICK x, y : x = 1650 * p + 264 * f /\ y = 165 * m + 176 * d
  OBVIOUS
<1>7. x \in Nat /\ y \in Nat /\ x <= 9240 /\ y <= 6600
  BY <1>6
<1>8. e = x + y
  BY <1>4, <1>6
<1>9. x + y \in Nat /\ x + y <= 15840
  BY <1>7
<1> QED BY ONLY <1>5, <1>8, <1>9

\* and with the average makes the score before the caps,
LEMMA UncappedIs ==
  ASSUME NEW os, NEW gone, NEW b, NEW t
  PROVE  Uncapped(os, gone, b, t) = Raw(HistorySum(os), Divisor(os), Rest(os, gone, b, t))
BY DEF Uncapped, Raw, Divisor, Rest

\* A score lies between 300 and 850, and is above what other parts give if the
\* average and the rest are.
LEMMA RawIs ==
  ASSUME NEW h \in Nat, NEW w \in Nat \ {0}, NEW r \in Nat, r <= 15840, h <= 20 * w
  PROVE  /\ Raw(h, w, r) \in Nat /\ 300 <= Raw(h, w, r) /\ Raw(h, w, r) <= 850
         /\ h = 0 /\ r <= 14256 => Raw(h, w, r) <= 597
<1>1. PICK x \in Nat : x = w * r
  OBVIOUS
<1>2. x <= 15840 * w
  <2>1. w * r <= w * 15840
    OBVIOUS
  <2> QED BY <1>1, <2>1
<1>3. 2 * (528 * h + x) + 48 * w <= 52848 * w
  BY ONLY <1>2, x \in Nat, h \in Nat, w \in Nat, h <= 20 * w
<1>4. 96 * w \in Nat \ {0} /\ 2 * (528 * h + x) + 48 * w \in Nat
  BY ONLY x \in Nat, h \in Nat, w \in Nat \ {0}
<1>5. PICK q \in Int : q = (2 * (528 * h + x) + 48 * w) \div (96 * w)
  BY ONLY <1>4
<1>6. q \in Nat /\ (96 * w) * q <= 2 * (528 * h + x) + 48 * w
  BY <1>5, <1>4
<1>7. q <= 550
  <2> SUFFICES ASSUME q >= 551 PROVE FALSE
    BY <1>6
  <2>1. (96 * w) * q >= (96 * w) * 551
    BY <1>4, <1>6
  <2>2. PICK z \in Int : z = (96 * w) * q
    BY <1>5, <1>4
  <2> QED BY <1>3, <1>6, <2>1, <2>2
<1>8. ASSUME h = 0, r <= 14256 PROVE q <= 297
  <2> SUFFICES ASSUME q >= 298 PROVE FALSE
    BY <1>6
  <2>1. (96 * w) * q >= (96 * w) * 298
    BY <1>4, <1>6
  <2>2. PICK z \in Int : z = (96 * w) * q
    BY <1>5, <1>4
  <2>3. w * r <= w * 14256
    BY <1>8
  <2> QED BY <1>1, <1>6, <1>8, <2>1, <2>2, <2>3
<1>9. Raw(h, w, r) = 300 + q
  BY <1>1, <1>5 DEF Raw
<1> QED BY <1>6, <1>7, <1>8, <1>9

\* which grows with the average and with the rest.
LEMMA RawFollows ==
  ASSUME NEW h \in Nat, NEW w \in Nat \ {0}, NEW r \in Nat,
         NEW k \in Nat, NEW v \in Nat \ {0}, NEW s \in Nat,
         h * v <= k * w, r <= s
  PROVE  Raw(h, w, r) <= Raw(k, v, s)
<1> DEFINE a == 2 * (528 * h + w * r) + 48 * w
           b == 2 * (528 * k + v * s) + 48 * v
<1>1. a \in Nat /\ b \in Nat /\ 96 * w \in Nat \ {0} /\ 96 * v \in Nat \ {0}
  OBVIOUS
<1>2. a * (96 * v) <= b * (96 * w)
  <2>1. PICK p \in Nat, m, n \in Nat, i, j \in Nat :
          /\ p = w * v /\ m = h * v /\ n = k * w /\ i = (w * v) * r /\ j = (w * v) * s
    OBVIOUS
  <2>2. m <= n /\ i <= j
    BY <2>1
  <2>3. a * (96 * v) = 96 * (1056 * m + 2 * i + 48 * p)
    BY <2>1
  <2>4. b * (96 * w) = 96 * (1056 * n + 2 * j + 48 * p)
    BY <2>1
  <2> QED BY <2>1, <2>2, <2>3, <2>4
<1>3. a \div (96 * w) <= b \div (96 * v)
  <2> HIDE DEF a, b
  <2> QED BY <1>1, <1>2, QuotientsFollow
<1>4. PICK x \in Nat, y \in Nat : x = a \div (96 * w) /\ y = b \div (96 * v)
  <2> HIDE DEF a, b
  <2> QED BY <1>1
<1>5. Raw(h, w, r) = 300 + x /\ Raw(k, v, s) = 300 + y
  BY <1>4 DEF Raw
<1> QED BY <1>3, <1>4, <1>5

\* A history that is poor after paying more was poor before.
LEMMA PoorFollows ==
  ASSUME NEW os \in Histories, NEW ps \in Histories, History(ps) = {} => Poor(os),
         HistorySum(os) * Divisor(ps) <= HistorySum(ps) * Divisor(os), Poor(ps)
  PROVE  Poor(os)
<1> SUFFICES ASSUME ~Poor(os) PROVE FALSE
  OBVIOUS
<1>1. History(os) # {} /\ History(ps) # {}
  BY DEF Poor
<1>2. PICK h, w, k, v : /\ h = HistorySum(os) /\ w = Weights(os)
                        /\ k = HistorySum(ps) /\ v = Weights(ps)
  OBVIOUS
<1>3. /\ h \in Nat /\ k \in Nat /\ w \in Nat \ {0} /\ v \in Nat \ {0}
      /\ h * v <= k * w /\ h >= 10 * w /\ k < 10 * v
  BY <1>1, <1>2, HistoryIs DEF Poor, Divisor
<1>4. (10 * w) * v <= h * v
  BY <1>3
<1>5. k * w < (10 * v) * w
  BY <1>3
<1>6. (10 * v) * w = (10 * w) * v
  BY <1>3
<1>7. PICK x, y, z : x = h * v /\ y = k * w /\ z = (10 * w) * v
  OBVIOUS
<1>8. x \in Nat /\ y \in Nat /\ z \in Nat
  BY <1>3, <1>7
<1> QED BY <1>3, <1>4, <1>5, <1>6, <1>7, <1>8

\* More kinds kept, on no poorer a history, are no fewer points,
LEMMA DiversityFollows ==
  ASSUME NEW os, NEW ps, NEW t,
         KindsKept(os, t) \subseteq KindsKept(ps, t), Poor(ps) => Poor(os)
  PROVE  Diversity(os, t) <= Diversity(ps, t)
<1>1. PICK m \in 0..15, n \in 0..15 : m = Managed(os, t) /\ n = Managed(ps, t) /\ m <= n
  BY ManagedIs, ManagedFollows
<1>2. Min({6, m}) <= Min({6, n}) /\ Min({6, m}) <= n
  BY <1>1, LowerIs
<1>3. Diversity(os, t) = IF Poor(os) THEN Min({6, m}) ELSE m
  BY <1>1, DiversityIs
<1>4. Diversity(ps, t) = IF Poor(ps) THEN Min({6, n}) ELSE n
  BY <1>1, DiversityIs
<1> QED BY <1>1, <1>2, <1>3, <1>4

\* and with as many months nothing of the rest is less.
LEMMA RestFollows ==
  ASSUME NEW os \in Histories, NEW ps \in Histories,
         NEW gone \in SUBSET Occs, NEW b, NEW t, b \in Nat, t \in Nat,
         Committed(os, t, Occs \ gone) = Committed(ps, t, Occs \ gone),
         Months(os) <= Months(ps), Diversity(os, t) <= Diversity(ps, t)
  PROVE  Rest(os, gone, b, t) <= Rest(ps, gone, b, t)
<1>1. PICK c \in Nat : c = Committed(os, t, Occs \ gone)
  BY CommittedIs
<1>2. PICK p \in 0..4, f \in 0..10, m \in 0..24, d \in 0..15, n \in 0..24, e \in 0..15 :
        /\ p = Pressure(c, b) /\ f = Buffer(c, b) /\ m = Months(os) /\ d = Diversity(os, t)
        /\ n = Months(ps) /\ e = Diversity(ps, t)
  BY PressureIs, MonthsAre, DiversityIs
<1>3. /\ Rest(os, gone, b, t) = 1650 * p + 264 * f + 165 * m + 176 * d
      /\ Rest(ps, gone, b, t) = 1650 * p + 264 * f + 165 * n + 176 * e
  BY <1>1, <1>2 DEF Rest
<1>4. m <= n /\ d <= e
  BY <1>2
<1>5. 1650 * p + 264 * f + 165 * m + 176 * d <= 1650 * p + 264 * f + 165 * n + 176 * e
  BY ONLY <1>4, p \in Int, f \in Int, m \in Int, n \in Int, d \in Int, e \in Int
<1> QED BY ONLY <1>3, <1>5

\* A poor history misses at least nine points of the rest.
LEMMA RestOfPoor ==
  ASSUME NEW os \in Histories, NEW gone \in SUBSET Occs, NEW b, NEW t, b \in Nat, t \in Nat, Poor(os)
  PROVE  Rest(os, gone, b, t) <= 14256
<1>1. PICK c \in Nat : c = Committed(os, t, Occs \ gone)
  BY CommittedIs
<1>2. PICK p \in 0..4, f \in 0..10, m \in 0..24, d \in 0..15 :
        /\ p = Pressure(c, b) /\ f = Buffer(c, b) /\ m = Months(os) /\ d = Diversity(os, t)
        /\ d <= 6
  BY PressureIs, MonthsAre, DiversityIs
<1>3. Rest(os, gone, b, t) = 1650 * p + 264 * f + 165 * m + 176 * d
  BY <1>1, <1>2 DEF Rest
<1>4. p <= 4 /\ f <= 10 /\ m <= 24 /\ d <= 6
  BY <1>2
<1>5. 1650 * p + 264 * f + 165 * m + 176 * d <= 14256
  BY ONLY <1>4, p \in Int, f \in Int, m \in Int, d \in Int
<1> QED BY ONLY <1>3, <1>5

-----------------------------------------------------------------------------
(* The credit score: caps                                                  *)

CapLevels == {850, 650, 700, 680, 620, 580, 670}
LEMMA CapsAre ==
  ASSUME NEW os, NEW b, NEW t
  PROVE  850 \in Caps(os, b, t) /\ Caps(os, b, t) \subseteq CapLevels
BY DEF Caps, CapLevels

\* What the formula gives lies between 300 and 850.
LEMMA UncappedInRange ==
  ASSUME NEW os \in Histories, NEW gone \in SUBSET Occs, NEW b, NEW t, b \in Nat, t \in Nat
  PROVE  /\ Uncapped(os, gone, b, t) \in Nat
         /\ 300 <= Uncapped(os, gone, b, t) /\ Uncapped(os, gone, b, t) <= 850
<1>1. PICK h, w, r : /\ h = HistorySum(os) /\ w = Divisor(os) /\ r = Rest(os, gone, b, t)
  OBVIOUS
<1>2. h \in Nat /\ w \in Nat \ {0} /\ h <= 20 * w
  BY <1>1, HistoryIs
<1>3. r \in Nat /\ r <= 15840
  BY <1>1, RestIs
<1>4. Raw(h, w, r) \in Nat /\ 300 <= Raw(h, w, r) /\ Raw(h, w, r) <= 850
  BY ONLY <1>2, <1>3, RawIs
<1>5. Uncapped(os, gone, b, t) = Raw(h, w, r)
  BY <1>1, UncappedIs
<1> QED BY ONLY <1>4, <1>5

\* The score is the lowest of that and the caps, and lies between the same.
LEMMA ScoreIs ==
  ASSUME NEW os \in Histories, NEW gone \in SUBSET Occs, NEW b, NEW t, b \in Nat, t \in Nat
  PROVE  /\ Score(os, gone, b, t) \in {Uncapped(os, gone, b, t)} \cup Caps(os, b, t)
         /\ \A c \in {Uncapped(os, gone, b, t)} \cup Caps(os, b, t) : Score(os, gone, b, t) <= c
         /\ Uncapped(os, gone, b, t) \in Nat
         /\ Score(os, gone, b, t) \in Nat
         /\ 300 <= Score(os, gone, b, t) /\ Score(os, gone, b, t) <= 850
<1>1. PICK u : u = Uncapped(os, gone, b, t)
  OBVIOUS
<1>2. u \in Nat /\ 300 <= u /\ u <= 850
  BY <1>1, UncappedInRange
<1>3. PICK S : S = {u} \cup Caps(os, b, t)
  OBVIOUS
<1>4. \A c \in CapLevels : c \in Nat /\ 300 <= c /\ c <= 850
  BY DEF CapLevels
<1>5. \A c \in S : c \in Nat /\ 300 <= c /\ c <= 850
  BY <1>2, <1>3, <1>4, CapsAre
<1>6. S \in SUBSET Nat /\ S # {}
  BY <1>3, <1>5
<1>7. Min(S) \in S /\ \A c \in S : Min(S) <= c
  BY <1>6, LowestIs
<1>8. Score(os, gone, b, t) = Min(S)
  BY <1>1, <1>3 DEF Score
<1>9. PICK m : m = Min(S)
  OBVIOUS
<1>10. m \in Nat /\ 300 <= m /\ m <= 850
  BY <1>5, <1>7, <1>9
<1> QED BY ONLY <1>1, <1>2, <1>3, <1>7, <1>8, <1>9, <1>10

\* The score follows what it is before the caps, unless a new cap is lower than
\* every old one.
LEMMA ScoreFollows ==
  ASSUME NEW os \in Histories, NEW ps \in Histories,
         NEW gone \in SUBSET Occs, NEW b, NEW t, b \in Nat, t \in Nat,
         Uncapped(os, gone, b, t) <= Uncapped(ps, gone, b, t),
         \A c \in Caps(ps, b, t) : \/ Uncapped(os, gone, b, t) <= c
                                   \/ \E d \in Caps(os, b, t) : d <= c
  PROVE  Score(os, gone, b, t) <= Score(ps, gone, b, t)
<1>1. PICK x, y, u, v : /\ x = Score(os, gone, b, t) /\ y = Score(ps, gone, b, t)
                        /\ u = Uncapped(os, gone, b, t) /\ v = Uncapped(ps, gone, b, t)
  OBVIOUS
<1>2. x \in Nat /\ u \in Nat /\ x <= u /\ \A d \in Caps(os, b, t) : x <= d
  BY <1>1, ScoreIs
<1>3. y \in Nat /\ v \in Nat /\ (y = v \/ y \in Caps(ps, b, t))
  BY <1>1, ScoreIs
<1>4. u <= v
  BY <1>1
<1>5. CASE y = v
  BY <1>1, <1>2, <1>3, <1>4, <1>5
<1>6. CASE y \in Caps(ps, b, t)
  <2>1. CASE u <= y
    BY <1>1, <1>2, <1>3, <2>1
  <2>2. CASE \E d \in Caps(os, b, t) : d <= y
    <3>1. PICK d \in Caps(os, b, t) : d <= y
      BY <2>2
    <3>2. d \in Nat
      BY CapsAre DEF CapLevels
    <3> QED BY <1>1, <1>2, <1>3, <3>1, <3>2
  <2> QED BY <1>1, <1>6, <2>1, <2>2
<1> QED BY <1>3, <1>5, <1>6

\* What the formula gives follows the average and the rest.
LEMMA UncappedFollows ==
  ASSUME NEW os \in Histories, NEW ps \in Histories,
         NEW gone \in SUBSET Occs, NEW b, NEW t, b \in Nat, t \in Nat,
         HistorySum(os) * Divisor(ps) <= HistorySum(ps) * Divisor(os),
         Rest(os, gone, b, t) <= Rest(ps, gone, b, t)
  PROVE  Uncapped(os, gone, b, t) <= Uncapped(ps, gone, b, t)
<1>1. PICK h, w, r, k, v, s : /\ h = HistorySum(os) /\ w = Divisor(os)
                              /\ r = Rest(os, gone, b, t)
                              /\ k = HistorySum(ps) /\ v = Divisor(ps)
                              /\ s = Rest(ps, gone, b, t)
  OBVIOUS
<1>2. h \in Nat /\ w \in Nat \ {0} /\ k \in Nat /\ v \in Nat \ {0}
  BY <1>1, HistoryIs
<1>3. r \in Nat /\ s \in Nat
  BY <1>1, RestIs
<1>4. h * v <= k * w /\ r <= s
  BY <1>1
<1>5. Raw(h, w, r) <= Raw(k, v, s)
  BY ONLY <1>2, <1>3, <1>4, RawFollows
<1> QED BY <1>1, <1>5, UncappedIs

\* A history with a better average, in the same or more months and kinds, whose
\* caps bind no harder, has the better score.
LEMMA BetterRecord ==
  ASSUME NEW os \in Histories, NEW ps \in Histories, NEW o \in Occs, Beside(os, ps, o),
         NEW gone \in SUBSET Occs, NEW b, NEW t, b \in Nat, t \in Nat,
         os[o].status \notin {"ABSENT", "CANCELLED"}, ps[o].status \notin {"ABSENT", "CANCELLED"},
         HistoryMonths(os) \subseteq HistoryMonths(ps), KindsKept(os, t) \subseteq KindsKept(ps, t),
         History(ps) = {} => Poor(os),
         HistorySum(os) * Divisor(ps) <= HistorySum(ps) * Divisor(os),
         \A c \in Caps(ps, b, t) : \/ Uncapped(os, gone, b, t) <= c
                                   \/ \E d \in Caps(os, b, t) : d <= c
  PROVE  Score(os, gone, b, t) <= Score(ps, gone, b, t)
<1>1. Committed(os, t, Occs \ gone) = Committed(ps, t, Occs \ gone)
  <2>1. Occs \ gone \in SUBSET Occs
    OBVIOUS
  <2> QED BY <2>1, CommittedStays
<1>2. Months(os) <= Months(ps)
  BY MonthsFollow
<1>3. Poor(ps) => Poor(os)
  BY PoorFollows
<1>4. Diversity(os, t) <= Diversity(ps, t)
  BY <1>3, DiversityFollows
<1>5. Rest(os, gone, b, t) <= Rest(ps, gone, b, t)
  BY <1>1, <1>2, <1>4, RestFollows
<1>6. Uncapped(os, gone, b, t) <= Uncapped(ps, gone, b, t)
  BY <1>5, UncappedFollows
<1> QED BY <1>6, ScoreFollows

\* The averages of histories of which one has more or the better points.
LEMMA AverageKeeps ==
  ASSUME NEW os \in Histories, NEW ps \in Histories, NEW o \in Occs, Beside(os, ps, o),
         o \in History(os), o \in History(ps),
         HistoryPoints(os, o) <= HistoryPoints(ps, o)
  PROVE  HistorySum(os) * Divisor(ps) <= HistorySum(ps) * Divisor(os)
<1>1. PICK h, k, w : h = HistorySum(os) /\ k = HistorySum(ps) /\ w = Divisor(os)
  OBVIOUS
<1>2. Divisor(ps) = w /\ h <= k
  BY <1>1, HistoryKeeps DEF Divisor
<1>3. h \in Nat /\ k \in Nat /\ w \in Nat
  BY <1>1, HistoryIs
<1>4. h * w <= k * w
  BY ONLY <1>2, <1>3
<1> QED BY <1>1, <1>2, <1>4

\* One more payment moves the average of the history: up when it earns all of its
\* points, down when it earns none.
LEMMA AverageGrows ==
  ASSUME NEW os \in Histories, NEW ps \in Histories, NEW o \in Occs, Beside(os, ps, o),
         o \notin History(os), o \in History(ps)
  PROVE  /\ HistoryPoints(ps, o) = 20
            => HistorySum(os) * Divisor(ps) <= HistorySum(ps) * Divisor(os)
         /\ HistoryPoints(ps, o) = 0
            => HistorySum(ps) * Divisor(os) <= HistorySum(os) * Divisor(ps)
<1>1. PICK h, w, k, v, i : /\ h = HistorySum(os) /\ w = Divisor(os) /\ i = Weight[o]
                           /\ k = HistorySum(ps) /\ v = Divisor(ps)
  OBVIOUS
<1>2. h \in Nat /\ w \in Nat \ {0} /\ h <= 20 * w
  BY <1>1, HistoryIs
<1>3. k \in Nat /\ v \in Nat \ {0}
  BY <1>1, HistoryIs
<1>4. i \in 1..4
  BY <1>1, WeightIs
<1>5. /\ v = Weights(os) + i
      /\ k = h + i * HistoryPoints(ps, o)
  BY <1>1, HistoryGrows DEF Divisor
<1>6. CASE History(os) = {}
  <2>1. h = 0 /\ w = 1 /\ Weights(os) = 0
    BY <1>1, <1>6, HistoryIs DEF Divisor
  <2>2. v = i
    BY <1>4, <1>5, <2>1
  <2>3. HistoryPoints(ps, o) = 20 => h * v <= k * w
    BY <1>3, <2>1
  <2>4. HistoryPoints(ps, o) = 0 => k * w <= h * v
    BY <1>2, <1>3, <1>4, <1>5, <2>1
  <2> QED BY <1>1, <2>3, <2>4
<1>7. CASE History(os) # {}
  <2>1. v = w + i
    BY <1>1, <1>5, <1>7 DEF Divisor
  <2>2. HistoryPoints(ps, o) = 20 => h * v <= k * w
    <3> SUFFICES ASSUME HistoryPoints(ps, o) = 20 PROVE h * v <= k * w
      OBVIOUS
    <3>1. k = h + i * 20
      BY <1>5
    <3>2. h * i <= (20 * w) * i
      BY <1>2, <1>4
    <3>3. h * (w + i) = h * w + h * i /\ (h + i * 20) * w = h * w + (20 * w) * i
      BY <1>2, <1>4
    <3>4. PICK x \in Int, y \in Int, z \in Int : x = h * w /\ y = h * i /\ z = (20 * w) * i
      BY <1>2, <1>4
    <3> QED BY <2>1, <3>1, <3>2, <3>3, <3>4
  <2>3. HistoryPoints(ps, o) = 0 => k * w <= h * v
    <3> SUFFICES ASSUME HistoryPoints(ps, o) = 0 PROVE k * w <= h * v
      OBVIOUS
    <3>1. k = h
      BY <1>2, <1>4, <1>5
    <3>2. h * w <= h * (w + i)
      BY <1>2, <1>4
    <3> QED BY <2>1, <3>1, <3>2
  <2> QED BY <1>1, <2>2, <2>3
<1> QED BY <1>6, <1>7

\* What is left for a history of failures only.
LEMMA FailuresAre ==
  ASSUME NEW os \in Histories, NEW gone \in SUBSET Occs, NEW b, NEW t, b \in Nat, t \in Nat,
         Having(os, PaidStatuses) = {}, History(os) # {}
  PROVE  Uncapped(os, gone, b, t) <= 597
<1>1. \A o \in History(os) : Earned(os)[o] = 0
  <2> SUFFICES ASSUME NEW o \in History(os) PROVE Earned(os)[o] = 0
    OBVIOUS
  <2>1. o \in Occs /\ os[o].status \in FailedStatuses
    BY DEF History, Having
  <2>2. HistoryPoints(os, o) = 0 /\ Weight[o] \in 1..4
    BY <2>1, DelayIs, WeightIs
  <2> QED BY <2>1, <2>2, EarnedIs
<1>2. HistorySum(os) = 0
  <2>1. PICK S, f : S = History(os) /\ f = Earned(os)
    OBVIOUS
  <2>2. IsFiniteSet(S) /\ \A o \in S : f[o] \in Int /\ Weight[o] \in Int /\ f[o] <= 0 * Weight[o]
    BY <1>1, <2>1, HistoryIs, WeightIs
  <2>3. SumFunctionOnSet(f, S) <= 0 * SumFunctionOnSet(Weight, S)
    BY ONLY <2>2, SumAtMost
  <2>4. HistorySum(os) <= 0 * Weights(os) /\ HistorySum(os) \in Nat /\ Weights(os) \in Nat
    BY <2>1, <2>3, HistoryIs DEF Weights
  <2> QED BY <2>4
<1>3. Poor(os)
  BY <1>2, HistoryIs DEF Poor
<1>4. PICK w, r : w = Divisor(os) /\ r = Rest(os, gone, b, t)
  OBVIOUS
<1>5. w \in Nat \ {0}
  BY <1>4, HistoryIs
<1>6. r \in Nat /\ r <= 15840
  BY <1>4, RestIs
<1>7. r <= 14256
  BY <1>3, <1>4, RestOfPoor
<1>8. 0 \in Nat /\ 0 <= 20 * w
  BY <1>5
<1>9. Raw(0, w, r) <= 597
  BY ONLY <1>5, <1>6, <1>7, <1>8, RawIs
<1> QED BY <1>2, <1>4, <1>9, UncappedIs

-----------------------------------------------------------------------------
(* The credit score: what the user does                                    *)

\* The limits of one history are those of another that has nothing less to be
\* limited by.
LEMMA CapsFollow ==
  ASSUME NEW os, NEW ps, NEW b, NEW t,
         Having(os, PaidStatuses \cup {"MISSED"}) = {} \/ Having(ps, PaidStatuses \cup {"MISSED"}) # {},
         Having(ps, {"OVERDUE"}) \subseteq Having(os, {"OVERDUE"}),
         Having(ps, {"MISSED"}) \subseteq Having(os, {"MISSED"}),
         {p \in Having(ps, {"PAID_LATE"}) : DaysLate(ps, p) \in LateCapDays}
           \subseteq {p \in Having(os, {"PAID_LATE"}) : DaysLate(os, p) \in LateCapDays},
         Committed(os, t, Occs) = Committed(ps, t, Occs)
  PROVE  Caps(ps, b, t) \subseteq Caps(os, b, t)
<1> SUFFICES ASSUME NEW c \in Caps(ps, b, t) PROVE c \in Caps(os, b, t)
  OBVIOUS
<1>1. c \in CapLevels
  BY CapsAre
<1>2. CASE c = 850
  BY <1>2, CapsAre
<1>3. CASE c = 650
  BY <1>3 DEF Caps
<1>4. CASE c = 700
  BY <1>4 DEF Caps
<1>5. CASE c = 680
  BY <1>5 DEF Caps
<1>6. CASE c = 620
  BY <1>6 DEF Caps
<1>7. CASE c = 580
  BY <1>7 DEF Caps
<1>8. CASE c = 670
  BY <1>8 DEF Caps
<1> QED BY <1>1, <1>2, <1>3, <1>4, <1>5, <1>6, <1>7, <1>8 DEF CapLevels

\* Whatever is paid, on time or not, was not a failure any more and is in the
\* history.
LEMMA PaidAsIs ==
  ASSUME NEW o \in Occs, NEW d \in Lateness
  PROVE  PaidAs(o, d) \in Occ /\ PaidAs(o, d).status \in PaidStatuses
BY CreditConstants DEF PaidAs, Occ, Statuses, PaidStatuses

\* Paying what was due never lowers the score.
LEMMA PayingRaises ==
  ASSUME NEW os \in Histories, NEW ps \in Histories, NEW o \in Occs, Beside(os, ps, o),
         NEW gone \in SUBSET Occs, NEW b, NEW t, b \in Nat, t \in Nat,
         os[o].status \in {"PENDING", "OVERDUE", "MISSED"}, ps[o].status \in PaidStatuses,
         DaysLate(ps, o) \notin 15..30, DaysLate(ps, o) = 0 \/ os[o].status # "PENDING"
  PROVE  Score(os, gone, b, t) <= Score(ps, gone, b, t)
<1>1. o \in History(ps) /\ ps[o].status \notin FailedStatuses
  BY DEF History, Having, PaidStatuses, FailedStatuses
<1>2. HistorySum(os) * Divisor(ps) <= HistorySum(ps) * Divisor(os)
  <2>1. CASE os[o].status = "PENDING"
    <3>1. o \notin History(os)
      BY <2>1 DEF History, Having, PaidStatuses, FailedStatuses
    <3>2. HistoryPoints(ps, o) = 20
      BY <1>1, <2>1, DelayIs, PointsAre
    <3> QED BY <1>1, <3>1, <3>2, AverageGrows
  <2>2. CASE os[o].status # "PENDING"
    <3>1. o \in History(os) /\ os[o].status \in FailedStatuses
      BY <2>2 DEF History, Having, PaidStatuses, FailedStatuses
    <3>2. HistoryPoints(os, o) = 0
      BY <3>1, DelayIs
    <3>3. HistoryPoints(ps, o) \in {0, 1, 5, 10, 14, 17, 20}
      BY DelayIs
    <3>4. HistoryPoints(os, o) <= HistoryPoints(ps, o)
      BY <3>2, <3>3
    <3> QED BY <1>1, <3>1, <3>4, AverageKeeps
  <2> QED BY <2>1, <2>2
<1>3. History(os) \subseteq History(ps)
  BY <1>1 DEF Beside, History, Having
<1>4. HistoryMonths(os) \subseteq HistoryMonths(ps)
  BY <1>3 DEF HistoryMonths
<1>5. /\ Having(os, PaidStatuses) \subseteq Having(ps, PaidStatuses)
      /\ Having(ps, FailedStatuses) \subseteq Having(os, FailedStatuses)
  BY DEF Beside, Having, PaidStatuses, FailedStatuses
<1>6. KindsKept(os, t) \subseteq KindsKept(ps, t)
  BY <1>5 DEF KindsKept, KindsOf
<1>7. Caps(ps, b, t) \subseteq Caps(os, b, t)
  <2>1. Having(ps, PaidStatuses \cup {"MISSED"}) # {}
    BY DEF Having, PaidStatuses
  <2>2. /\ Having(ps, {"OVERDUE"}) \subseteq Having(os, {"OVERDUE"})
        /\ Having(ps, {"MISSED"}) \subseteq Having(os, {"MISSED"})
    BY DEF Beside, Having, PaidStatuses
  <2>3. {p \in Having(ps, {"PAID_LATE"}) : DaysLate(ps, p) \in LateCapDays}
        \subseteq {p \in Having(os, {"PAID_LATE"}) : DaysLate(os, p) \in LateCapDays}
    BY DEF Beside, Having, DaysLate, LateCapDays
  <2>4. Committed(os, t, Occs) = Committed(ps, t, Occs)
    BY CommittedStays DEF PaidStatuses
  <2> QED BY <2>1, <2>2, <2>3, <2>4, CapsFollow
<1>8. \A c \in Caps(ps, b, t) : c <= c
  BY CapsAre DEF CapLevels
<1> QED
  <2>1. \A c \in Caps(ps, b, t) : \E d \in Caps(os, b, t) : d <= c
    BY <1>7, <1>8
  <2>2. os[o].status \notin {"ABSENT", "CANCELLED"} /\ ps[o].status \notin {"ABSENT", "CANCELLED"}
    BY DEF PaidStatuses
  <2>3. History(ps) = {} => Poor(os)
    BY <1>1
  <2> QED BY <1>2, <1>4, <1>6, <2>1, <2>2, <2>3, BetterRecord

\* Paying later is never better.
LEMMA PayingLaterLowers ==
  ASSUME NEW os \in Histories, NEW ps \in Histories, NEW o \in Occs, Beside(os, ps, o),
         NEW gone \in SUBSET Occs, NEW b, NEW t, b \in Nat, t \in Nat,
         os[o].status \in PaidStatuses, ps[o].status \in PaidStatuses,
         DaysLate(ps, o) \notin 15..30, DaysLate(ps, o) <= DaysLate(os, o)
  PROVE  Score(os, gone, b, t) <= Score(ps, gone, b, t)
<1>1. o \in History(os) /\ o \in History(ps)
  BY DEF History, Having
<1>2. HistoryPoints(os, o) <= HistoryPoints(ps, o)
  <2>1. os[o].status \notin FailedStatuses /\ ps[o].status \notin FailedStatuses
    BY DEF PaidStatuses, FailedStatuses
  <2>2. DaysLate(os, o) \in Nat /\ DaysLate(ps, o) \in Nat
    BY DelayIs
  <2>3. Points(DaysLate(os, o)) <= Points(DaysLate(ps, o))
    BY <2>2, PointsAre
  <2> QED BY <2>1, <2>3, DelayIs
<1>3. HistorySum(os) * Divisor(ps) <= HistorySum(ps) * Divisor(os)
  BY <1>1, <1>2, AverageKeeps
<1>4. History(os) = History(ps)
  BY <1>1 DEF Beside, History, Having
<1>5. HistoryMonths(os) \subseteq HistoryMonths(ps)
  BY <1>4 DEF HistoryMonths
<1>6. /\ Having(os, PaidStatuses) = Having(ps, PaidStatuses)
      /\ Having(ps, FailedStatuses) = Having(os, FailedStatuses)
  BY DEF Beside, Having, PaidStatuses, FailedStatuses
<1>7. KindsKept(os, t) \subseteq KindsKept(ps, t)
  BY <1>6 DEF KindsKept, KindsOf
<1>8. Caps(ps, b, t) \subseteq Caps(os, b, t)
  <2>1. Having(ps, PaidStatuses \cup {"MISSED"}) # {}
    BY DEF Having, PaidStatuses
  <2>2. /\ Having(ps, {"OVERDUE"}) \subseteq Having(os, {"OVERDUE"})
        /\ Having(ps, {"MISSED"}) \subseteq Having(os, {"MISSED"})
    BY DEF Beside, Having, PaidStatuses
  <2>3. {p \in Having(ps, {"PAID_LATE"}) : DaysLate(ps, p) \in LateCapDays}
        \subseteq {p \in Having(os, {"PAID_LATE"}) : DaysLate(os, p) \in LateCapDays}
    BY DEF Beside, Having, DaysLate, LateCapDays
  <2>4. Committed(os, t, Occs) = Committed(ps, t, Occs)
    BY CommittedStays DEF PaidStatuses
  <2> QED BY <2>1, <2>2, <2>3, <2>4, CapsFollow
<1>9. \A c \in Caps(ps, b, t) : c <= c
  BY CapsAre DEF CapLevels
<1> QED
  <2>1. \A c \in Caps(ps, b, t) : \E d \in Caps(os, b, t) : d <= c
    BY <1>8, <1>9
  <2>2. os[o].status \notin {"ABSENT", "CANCELLED"} /\ ps[o].status \notin {"ABSENT", "CANCELLED"}
    BY DEF PaidStatuses
  <2>3. History(ps) = {} => Poor(os)
    BY <1>1
  <2> QED BY <1>3, <1>5, <1>7, <2>1, <2>2, <2>3, BetterRecord

\* What becomes overdue, or is missed after it was, in a month that counts
\* already, never raises the score.
LEMMA FailingLowers ==
  ASSUME NEW os \in Histories, NEW ps \in Histories, NEW o \in Occs, Beside(os, ps, o),
         NEW gone \in SUBSET Occs, NEW b, NEW t, b \in Nat, t \in Nat,
         \/ ps[o].status = "PENDING" /\ os[o].status = "OVERDUE"
         \/ ps[o].status = "OVERDUE" /\ os[o].status = "MISSED",
         Month(Due[o]) \in HistoryMonths(ps)
  PROVE  Score(os, gone, b, t) <= Score(ps, gone, b, t)
<1>1. o \in History(os) /\ os[o].status \in FailedStatuses
  BY DEF History, Having, PaidStatuses, FailedStatuses
<1>2. HistoryPoints(os, o) = 0
  BY <1>1, DelayIs
<1>3. HistorySum(os) * Divisor(ps) <= HistorySum(ps) * Divisor(os)
  <2>1. CASE ps[o].status = "PENDING"
    <3>1. o \notin History(ps)
      BY <2>1 DEF History, Having, PaidStatuses, FailedStatuses
    <3>2. Beside(ps, os, o)
      BY DEF Beside
    <3> QED BY <1>1, <1>2, <3>1, <3>2, AverageGrows
  <2>2. CASE ps[o].status = "OVERDUE"
    <3>1. o \in History(ps)
      BY <2>2 DEF History, Having, PaidStatuses, FailedStatuses
    <3>2. HistoryPoints(ps, o) \in {0, 1, 5, 10, 14, 17, 20}
      BY DelayIs
    <3>3. HistoryPoints(os, o) <= HistoryPoints(ps, o)
      BY <1>2, <3>2
    <3> QED BY <1>1, <3>1, <3>3, AverageKeeps
  <2> QED BY <2>1, <2>2
<1>4. History(os) \subseteq History(ps) \cup {o}
  BY DEF Beside, History, Having
<1>5. HistoryMonths(os) \subseteq HistoryMonths(ps)
  BY <1>4 DEF HistoryMonths
<1>6. /\ Having(os, PaidStatuses) = Having(ps, PaidStatuses)
      /\ Having(ps, FailedStatuses) \subseteq Having(os, FailedStatuses)
  BY DEF Beside, Having, PaidStatuses, FailedStatuses
<1>7. KindsKept(os, t) \subseteq KindsKept(ps, t)
  BY <1>6 DEF KindsKept, KindsOf
<1>8. ASSUME NEW c \in Caps(ps, b, t)
      PROVE  Uncapped(os, gone, b, t) <= c \/ \E d \in Caps(os, b, t) : d <= c
  <2>1. CASE c = 650
    <3>1. CASE Having(os, PaidStatuses \cup {"MISSED"}) = {}
      <4>1. 650 \in Caps(os, b, t)
        BY <3>1 DEF Caps
      <4> QED BY <2>1, <4>1
    <3>2. CASE Having(os, PaidStatuses \cup {"MISSED"}) # {}
      <4>1. Having(ps, PaidStatuses \cup {"MISSED"}) = {}
        BY <2>1 DEF Caps
      <4>2. Having(os, PaidStatuses) = {} /\ History(os) # {}
        BY <1>1, <1>6, <4>1 DEF Having
      <4>3. Uncapped(os, gone, b, t) <= 597
        BY <4>2, FailuresAre
      <4>4. Uncapped(os, gone, b, t) \in Nat
        BY UncappedInRange
      <4> QED BY <2>1, <4>3, <4>4
    <3> QED BY <3>1, <3>2
  <2>2. CASE c = 700
    <3>1. PICK p \in Having(ps, {"OVERDUE"}) : p \in Recent(t)
      BY <2>2 DEF Caps
    <3>2. CASE p \in Having(os, {"OVERDUE"})
      <4>1. 700 \in Caps(os, b, t)
        BY <3>1, <3>2 DEF Caps
      <4> QED BY <2>2, <4>1
    <3>3. CASE p \notin Having(os, {"OVERDUE"})
      <4>1. p \in Having(os, {"MISSED"})
        BY <3>1, <3>3 DEF Beside, Having
      <4>2. 620 \in Caps(os, b, t)
        BY <3>1, <4>1 DEF Caps
      <4> QED BY <2>2, <4>2
    <3> QED BY <3>2, <3>3
  <2>3. CASE c \notin {650, 700}
    <3>1. Having(ps, {"MISSED"}) \subseteq Having(os, {"MISSED"})
      BY DEF Beside, Having
    <3>2. {p \in Having(ps, {"PAID_LATE"}) : DaysLate(ps, p) \in LateCapDays}
          \subseteq {p \in Having(os, {"PAID_LATE"}) : DaysLate(os, p) \in LateCapDays}
      BY DEF Beside, Having, DaysLate
    <3>3. Committed(os, t, Occs) = Committed(ps, t, Occs)
      BY CommittedStays
    <3>4. c \in Caps(os, b, t)
      BY <2>3, <3>1, <3>2, <3>3 DEF Caps
    <3>5. c <= c
      BY CapsAre DEF CapLevels
    <3> QED BY <3>4, <3>5
  <2> QED BY <2>1, <2>2, <2>3
<1> QED
  <2>1. os[o].status \notin {"ABSENT", "CANCELLED"} /\ ps[o].status \notin {"ABSENT", "CANCELLED"}
    OBVIOUS
  <2>2. History(ps) = {} => Poor(os)
    BY DEF HistoryMonths
  <2> QED BY <1>3, <1>5, <1>7, <1>8, <2>1, <2>2, BetterRecord

\* The three promises hold whatever the occurrences are.
LEMMA ConductIs ==
  ASSUME occ \in Histories, archived \subseteq Occs, budget \in Nat, now \in Nat
  PROVE  ScoreFollowsConduct
<1>1. PayingNeverHurts
  <2> SUFFICES ASSUME NEW o \in Occs, Payable(o), NEW d \in Lateness,
                      DaysLate([occ EXCEPT ![o] = PaidAs(o, d)], o) \notin 15..30,
                      \/ DaysLate([occ EXCEPT ![o] = PaidAs(o, d)], o) = 0
                      \/ occ[o].status # "PENDING"
               PROVE  ScoreIf(o, PaidAs(o, d)) >= ScoreNow
    BY DEF PayingNeverHurts
  <2>1. PICK ps : ps = [occ EXCEPT ![o] = PaidAs(o, d)]
    OBVIOUS
  <2>2. ps \in Histories /\ Beside(occ, ps, o) /\ ps[o].status \in PaidStatuses
    BY <2>1, PaidAsIs DEF Histories, Beside
  <2>3. DaysLate(ps, o) \notin 15..30 /\ (DaysLate(ps, o) = 0 \/ occ[o].status # "PENDING")
    BY <2>1
  <2>4. Score(occ, archived, budget, now) <= Score(ps, archived, budget, now)
    BY <2>2, <2>3, PayingRaises DEF Payable
  <2> QED BY <2>1, <2>4 DEF ScoreIf, ScoreNow
<1>2. LaterIsNeverBetter
  <2> SUFFICES ASSUME NEW o \in Occs, Payable(o), NEW d \in Lateness, NEW e \in Lateness, d < e,
                      DaysLate([occ EXCEPT ![o] = PaidAs(o, d)], o) \notin 15..30
               PROVE  ScoreIf(o, PaidAs(o, d)) >= ScoreIf(o, PaidAs(o, e))
    BY DEF LaterIsNeverBetter
  <2>1. PICK os, ps : os = [occ EXCEPT ![o] = PaidAs(o, e)] /\ ps = [occ EXCEPT ![o] = PaidAs(o, d)]
    OBVIOUS
  <2>2. /\ os \in Histories /\ ps \in Histories /\ Beside(os, ps, o)
        /\ os[o].status \in PaidStatuses /\ ps[o].status \in PaidStatuses
        /\ os[o] = PaidAs(o, e) /\ ps[o] = PaidAs(o, d)
    BY <2>1, PaidAsIs DEF Histories, Beside
  <2>3. DaysLate(ps, o) <= DaysLate(os, o)
    <3>1. Due[o] \in Nat /\ d \in Int /\ e \in Int
      BY CreditConstants
    <3>2. os[o].paidAt = Due[o] + e /\ ps[o].paidAt = Due[o] + d
      BY <2>2 DEF PaidAs
    <3> QED BY <3>1, <3>2 DEF DaysLate, CeilDays
  <2>4. DaysLate(ps, o) \notin 15..30
    BY <2>1
  <2>5. Score(os, archived, budget, now) <= Score(ps, archived, budget, now)
    BY <2>2, <2>3, <2>4, PayingLaterLowers
  <2> QED BY <2>1, <2>5 DEF ScoreIf
<1>3. FailingNeverHelps
  <2> SUFFICES ASSUME NEW o \in Occs, NEW to \in Changes(o), to.status \in {"OVERDUE", "MISSED"},
                      Month(Due[o]) \in {Month(Due[p]) : p \in History(occ)}
               PROVE  ScoreIf(o, to) <= ScoreNow
    BY DEF FailingNeverHelps
  <2>1. \A d \in Lateness : to # PaidAs(o, d)
    BY PaidAsIs DEF PaidStatuses
  <2>2. occ[o] \in Occ
    BY DEF Histories
  <2>3. PICK s \in {"OVERDUE", "MISSED"} :
          /\ to = [occ[o] EXCEPT !.status = s]
          /\ s = "OVERDUE" => occ[o].status = "PENDING"
          /\ s = "MISSED" => occ[o].status = "OVERDUE"
    BY <2>1 DEF Changes, Missable
  <2>4. to \in Occ /\ to.status = s
    BY <2>2, <2>3 DEF Occ, Statuses
  <2>5. PICK os : os = [occ EXCEPT ![o] = to]
    OBVIOUS
  <2>6. /\ os \in Histories /\ Beside(os, occ, o)
        /\ os[o].status = s
    BY <2>4, <2>5 DEF Histories, Beside
  <2>7. \/ occ[o].status = "PENDING" /\ os[o].status = "OVERDUE"
        \/ occ[o].status = "OVERDUE" /\ os[o].status = "MISSED"
    BY <2>3, <2>6
  <2>8. Score(os, archived, budget, now) <= Score(occ, archived, budget, now)
    BY <2>6, <2>7, FailingLowers DEF HistoryMonths
  <2> QED BY <2>5, <2>8 DEF ScoreIf, ScoreNow
<1> QED BY <1>1, <1>2, <1>3 DEF ScoreFollowsConduct

-----------------------------------------------------------------------------
(* The credit score: the profile                                           *)

ScoreRange == 300..850
CountsRange == [{"onTime", "late", "missed"} -> 0..Cardinality(Occs)]
Calculation == [on: {TRUE}, o: Occs, to: Occ, before: ScoreRange, score: ScoreRange,
                counts: CountsRange, late: BOOLEAN]
CreditShape ==
    /\ now \in Times /\ occ \in Histories /\ archived \subseteq Occs /\ budget \in Budgets
    /\ credit \in [fresh: BOOLEAN, score: ScoreRange, tier: {Tier(n) : n \in ScoreRange},
                   counts: CountsRange]
    /\ credit.tier = IF credit.fresh THEN "GOOD" ELSE Tier(credit.score)
    /\ deltas \in Int
    /\ recalc \in [Recalcs -> {OccIdle} \cup Calculation]
    /\ passed \in BOOLEAN

\* The profile is what the events say and what the occurrences are, and so is
\* what a transaction read, as long as no other has stored since.
CreditInv ==
    /\ CreditShape
    /\ EventsExplainScore
    /\ \A r \in Recalcs : recalc[r].on /\ ~recalc[r].late =>
         /\ recalc[r].before = credit.score
         /\ recalc[r].counts = Counts([occ EXCEPT ![recalc[r].o] = recalc[r].to])

\* Counters are numbers of occurrences.
LEMMA CountsAre ==
  ASSUME NEW os
  PROVE  Counts(os) \in CountsRange
<1>1. \A ss : Having(os, ss) \in SUBSET Occs
  BY DEF Having
<1>2. Cardinality(Occs) \in Nat /\ IsFiniteSet(Occs)
  BY CreditConstants, FS_CardinalityType
<1>3. \A S \in SUBSET Occs : Cardinality(S) \in 0..Cardinality(Occs)
  BY <1>2, FS_Subset, FS_CardinalityType
<1> QED BY <1>1, <1>3 DEF Counts, CountsRange

\* Only payments and what is missed count.
LEMMA CountsStay ==
  ASSUME NEW os, NEW ps,
         \A o \in Occs : \A s \in {"PAID", "PAID_LATE", "MISSED"} :
            os[o].status = s <=> ps[o].status = s
  PROVE  Counts(os) = Counts(ps)
<1>1. /\ Having(os, {"PAID"}) = Having(ps, {"PAID"})
      /\ Having(os, {"PAID_LATE"}) = Having(ps, {"PAID_LATE"})
      /\ Having(os, {"MISSED"}) = Having(ps, {"MISSED"})
  BY DEF Having
<1> QED BY <1>1 DEF Counts

\* A calculated score is a score.
LEMMA ScoreInRange ==
  ASSUME NEW os \in Histories, archived \subseteq Occs, budget \in Nat, now \in Nat
  PROVE  Score(os, archived, budget, now) \in ScoreRange
<1>1. PICK x : x = Score(os, archived, budget, now)
  OBVIOUS
<1>2. x \in Nat /\ 300 <= x /\ x <= 850
  BY <1>1, ScoreIs
<1> QED BY <1>1, <1>2 DEF ScoreRange

\* What a request can make of a payment is a payment.
LEMMA ChangesAre ==
  ASSUME occ \in Histories, NEW o \in Occs, NEW to \in Changes(o)
  PROVE  to \in Occ
<1>1. occ[o] \in Occ
  BY DEF Histories
<1>2. CASE \E d \in Lateness : to = PaidAs(o, d)
  BY <1>2, PaidAsIs
<1>3. CASE \E s \in {"OVERDUE", "MISSED"} : to = [occ[o] EXCEPT !.status = s]
  BY <1>1, <1>3 DEF Occ, Statuses
<1> QED BY <1>2, <1>3 DEF Changes

\* The shape of a profile is a fact about each of its parts.
LEMMA ShapeIs ==
  ASSUME CreditShape
  PROVE  /\ now \in Nat /\ budget \in Nat /\ occ \in [Occs -> Occ] /\ archived \subseteq Occs
         /\ \A r \in Recalcs : recalc[r] \in {OccIdle} \cup Calculation
         /\ \A r \in Recalcs : recalc[r].on => recalc[r] \in Calculation
BY CreditConstants DEF CreditShape, Histories, OccIdle

\* The invariant holds of the first profile,
LEMMA CreditStarts == CreditInit => CreditInv
<1> SUFFICES ASSUME CreditInit PROVE CreditInv
  OBVIOUS
<1>1. occ \in Histories
  BY DEF CreditInit, Histories, Occ, Statuses
<1>2. 600 \in ScoreRange /\ 650 \in ScoreRange /\ Tier(650) = "GOOD"
  BY DEF ScoreRange, Tier
<1>3. Counts(occ) \in CountsRange
  BY CountsAre
<1>4. CreditShape
  <2>1. "GOOD" \in {Tier(n) : n \in ScoreRange}
    BY <1>2
  <2>2. credit = [fresh |-> TRUE, score |-> 600, tier |-> "GOOD", counts |-> Counts(occ)]
    BY DEF CreditInit
  <2>3. credit \in [fresh: BOOLEAN, score: ScoreRange, tier: {Tier(n) : n \in ScoreRange},
                    counts: CountsRange]
    BY ONLY <1>2, <1>3, <2>1, <2>2
  <2>4. credit.tier = IF credit.fresh THEN "GOOD" ELSE Tier(credit.score)
    BY <2>2
  <2>5. recalc \in [Recalcs -> {OccIdle} \cup Calculation]
    <3>1. recalc = [r \in Recalcs |-> OccIdle]
      BY DEF CreditInit
    <3>2. OccIdle \in {OccIdle} \cup Calculation
      OBVIOUS
    <3> QED BY ONLY <3>1, <3>2
  <2>6. deltas \in Int /\ passed \in BOOLEAN
    <3>1. deltas = 0 /\ passed = FALSE
      BY DEF CreditInit
    <3>2. deltas \in Int
      BY <3>1
    <3>3. passed \in BOOLEAN
      BY ONLY <3>1
    <3> QED BY <3>2, <3>3
  <2>7. now \in Times /\ archived \subseteq Occs /\ budget \in Budgets
    BY CreditConstants DEF CreditInit
  <2> QED BY <1>1, <2>3, <2>4, <2>5, <2>6, <2>7 DEF CreditShape
<1>5. EventsExplainScore
  BY DEF CreditInit, EventsExplainScore
<1>6. \A r \in Recalcs : ~recalc[r].on
  BY DEF CreditInit, OccIdle
<1> QED BY <1>4, <1>5, <1>6 DEF CreditInv

\* when a recalculation reads,
LEMMA RecalculateKeeps ==
  ASSUME CreditInv, NEW r \in Recalcs, NEW o \in Occs, NEW to \in Changes(o), Recalculate(r, o, to)
  PROVE  CreditInv'
<1>1. CreditShape /\ EventsExplainScore
  BY DEF CreditInv
<1>2. PICK os : os = [occ EXCEPT ![o] = to]
  OBVIOUS
<1>3. occ \in Histories /\ to \in Occ
  BY <1>1, ChangesAre DEF CreditShape
<1>4. os \in Histories
  BY <1>2, <1>3 DEF Histories
<1>5. PICK x : x = [on |-> TRUE, o |-> o, to |-> to, before |-> credit.score,
                    score |-> Score(os, archived, budget, now), counts |-> Counts(os), late |-> FALSE]
  OBVIOUS
<1>6. recalc' = [recalc EXCEPT ![r] = x]
  BY <1>2, <1>5 DEF Recalculate, Seen
<1>7. x \in Calculation
  <2>1. Score(os, archived, budget, now) \in ScoreRange
    BY <1>1, <1>4, ShapeIs, ScoreInRange
  <2>2. credit.score \in ScoreRange
    BY <1>1 DEF CreditShape
  <2> QED BY <1>3, <1>5, <2>1, <2>2, CountsAre DEF Calculation
<1>8. CreditShape'
  <2>1. recalc' \in [Recalcs -> {OccIdle} \cup Calculation]
    BY <1>1, <1>6, <1>7 DEF CreditShape
  <2> QED BY <1>1, <2>1 DEF CreditShape, Recalculate
<1>9. EventsExplainScore'
  BY <1>1 DEF EventsExplainScore, Recalculate
<1>10. ASSUME NEW q \in Recalcs, recalc'[q].on, ~recalc'[q].late
       PROVE  /\ recalc'[q].before = credit.score
              /\ recalc'[q].counts = Counts([occ EXCEPT ![recalc'[q].o] = recalc'[q].to])
  <2>1. CASE q = r
    <3>1. recalc'[q] = x
      BY <1>1, <1>6, <2>1 DEF CreditShape
    <3>2. /\ x.before = credit.score /\ x.counts = Counts(os) /\ x.o = o /\ x.to = to
      BY <1>5
    <3> QED BY <1>2, <3>1, <3>2
  <2>2. CASE q # r
    <3>1. recalc'[q] = recalc[q]
      BY <1>1, <1>6, <2>2 DEF CreditShape
    <3> QED BY <1>10, <3>1 DEF CreditInv
  <2> QED BY <2>1, <2>2
<1>11. credit' = credit /\ occ' = occ
  BY DEF Recalculate
<1> QED BY <1>8, <1>9, <1>10, <1>11 DEF CreditInv

\* when it stores the score with its event,
LEMMA StoreKeeps ==
  ASSUME CreditInv, NEW r \in Recalcs, Store(r)
  PROVE  CreditInv'
<1>1. CreditShape /\ EventsExplainScore
  BY DEF CreditInv
<1>2. PICK x : x = recalc[r]
  OBVIOUS
<1>3. x \in Calculation
  BY <1>1, <1>2, ShapeIs DEF Store
<1>4. /\ occ' = [occ EXCEPT ![x.o] = x.to]
      /\ credit' = [fresh |-> FALSE, score |-> x.score, tier |-> Tier(x.score), counts |-> x.counts]
      /\ deltas' = deltas + x.score - x.before
      /\ passed' = (passed \/ x.late)
      /\ recalc' = Outdated([recalc EXCEPT ![r] = OccIdle])
      /\ now' = now /\ archived' = archived /\ budget' = budget
  BY <1>2 DEF Store, TierAfter
<1>5. /\ x.o \in Occs /\ x.to \in Occ /\ x.score \in ScoreRange /\ x.before \in ScoreRange
      /\ x.counts \in CountsRange /\ x.late \in BOOLEAN
  BY <1>3 DEF Calculation
<1>6. x.score \in Int /\ x.before \in Int
  BY <1>5 DEF ScoreRange
<1>7. \A q \in Recalcs : /\ recalc'[q] \in {OccIdle} \cup Calculation
                         /\ recalc'[q].on => recalc'[q].late
  <2> SUFFICES ASSUME NEW q \in Recalcs
               PROVE  /\ recalc'[q] \in {OccIdle} \cup Calculation
                      /\ recalc'[q].on => recalc'[q].late
    OBVIOUS
  <2>1. CASE q = r
    <3>1. recalc'[q] = OccIdle
      BY <1>1, <1>4, <2>1 DEF Outdated, OccIdle, CreditShape
    <3> QED BY <3>1 DEF OccIdle
  <2>2. CASE q # r /\ ~recalc[q].on
    <3>1. recalc[q] = OccIdle
      BY <1>1, <2>2, ShapeIs DEF Calculation
    <3>2. recalc'[q] = OccIdle
      BY <1>1, <1>4, <2>2, <3>1 DEF Outdated, CreditShape
    <3> QED BY <3>2 DEF OccIdle
  <2>3. CASE q # r /\ recalc[q].on
    <3>1. recalc[q] \in Calculation
      BY <1>1, <2>3, ShapeIs
    <3>2. recalc'[q] = [recalc[q] EXCEPT !.late = TRUE]
      BY <1>1, <1>4, <2>3 DEF Outdated, CreditShape
    <3> QED BY <3>1, <3>2 DEF Calculation
  <2> QED BY <2>1, <2>2, <2>3
<1>8. CreditShape'
  <2>1. recalc' \in [Recalcs -> {OccIdle} \cup Calculation]
    BY <1>4, <1>7 DEF Outdated
  <2>2. occ' \in Histories
    BY <1>1, <1>4, <1>5 DEF CreditShape, Histories
  <2>3. deltas' \in Int
    BY <1>1, <1>4, <1>6 DEF CreditShape
  <2>4. /\ credit' \in [fresh: BOOLEAN, score: ScoreRange, tier: {Tier(n) : n \in ScoreRange},
                        counts: CountsRange]
        /\ credit'.tier = IF credit'.fresh THEN "GOOD" ELSE Tier(credit'.score)
    BY <1>4, <1>5
  <2>5. passed' \in BOOLEAN
    BY <1>4
  <2> QED BY <1>1, <1>4, <2>1, <2>2, <2>3, <2>4, <2>5 DEF CreditShape
<1>9. EventsExplainScore'
  <2> SUFFICES ASSUME ~passed' PROVE credit'.score = 600 + deltas' /\ credit'.counts = Counts(occ')
    BY DEF EventsExplainScore
  <2>1. ~passed /\ ~x.late /\ x.on
    BY <1>2, <1>4 DEF Store
  <2>2. x.before = credit.score /\ x.counts = Counts([occ EXCEPT ![x.o] = x.to])
    BY <1>2, <2>1 DEF CreditInv
  <2>3. credit.score = 600 + deltas /\ deltas \in Int
    BY <1>1, <2>1 DEF EventsExplainScore, CreditShape
  <2> QED BY <1>4, <1>6, <2>2, <2>3
<1> QED BY <1>7, <1>8, <1>9 DEF CreditInv

\* and when it is rolled back.
LEMMA RollbackKeeps ==
  ASSUME CreditInv, NEW r \in Recalcs, Rollback(r)
  PROVE  CreditInv'
<1>1. CreditShape /\ EventsExplainScore
  BY DEF CreditInv
<1>2. recalc' = [recalc EXCEPT ![r] = OccIdle]
  BY DEF Rollback
<1>3. UNCHANGED <<now, occ, archived, budget, credit, deltas, passed>>
  BY DEF Rollback
<1>4. recalc' \in [Recalcs -> {OccIdle} \cup Calculation]
  BY <1>1, <1>2 DEF CreditShape
<1>5. CreditShape' /\ EventsExplainScore'
  BY <1>1, <1>3, <1>4 DEF CreditShape, EventsExplainScore
<1>6. \A q \in Recalcs : recalc'[q].on => recalc'[q] = recalc[q]
  BY <1>1, <1>2 DEF CreditShape, OccIdle
<1>7. ASSUME NEW q \in Recalcs, recalc'[q].on, ~recalc'[q].late
      PROVE  /\ recalc'[q].before = credit'.score
             /\ recalc'[q].counts = Counts([occ' EXCEPT ![recalc'[q].o] = recalc'[q].to])
  <2>1. recalc'[q] = recalc[q]
    BY <1>6, <1>7
  <2>2. /\ recalc[q].before = credit.score
        /\ recalc[q].counts = Counts([occ EXCEPT ![recalc[q].o] = recalc[q].to])
    BY <1>7, <2>1 DEF CreditInv
  <2> QED BY <1>3, <2>1, <2>2
<1> QED BY <1>5, <1>7 DEF CreditInv

\* What changes an occurrence without a recalculation changes nothing counted.
LEMMA UncountedKeeps ==
  ASSUME CreditInv, occ' \in Histories,
         \A o \in Occs : \A s \in {"PAID", "PAID_LATE", "MISSED"} :
            occ[o].status = s <=> occ'[o].status = s,
         archived' \subseteq Occs, now' \in Times,
         UNCHANGED <<budget, credit, recalc, deltas, passed>>
  PROVE  CreditInv'
<1>1. CreditShape /\ EventsExplainScore
  BY DEF CreditInv
<1>2. CreditShape'
  BY <1>1 DEF CreditShape
<1>3. Counts(occ) = Counts(occ')
  BY CountsStay
<1>4. EventsExplainScore'
  BY <1>1, <1>3 DEF EventsExplainScore
<1>5. ASSUME NEW q \in Recalcs, recalc'[q].on, ~recalc'[q].late
      PROVE  /\ recalc'[q].before = credit'.score
             /\ recalc'[q].counts = Counts([occ' EXCEPT ![recalc'[q].o] = recalc'[q].to])
  <2>1. PICK x, os, ps : /\ x = recalc[q] /\ os = [occ EXCEPT ![x.o] = x.to]
                         /\ ps = [occ' EXCEPT ![x.o] = x.to]
    OBVIOUS
  <2>2. x.before = credit.score /\ x.counts = Counts(os)
    BY <1>5, <2>1 DEF CreditInv
  <2>3. \A o \in Occs : \A s \in {"PAID", "PAID_LATE", "MISSED"} :
          os[o].status = s <=> ps[o].status = s
    BY <1>1, <2>1 DEF CreditShape, Histories
  <2>4. Counts(os) = Counts(ps)
    BY <2>3, CountsStay
  <2> QED BY <2>1, <2>2, <2>4
<1> QED BY <1>2, <1>4, <1>5 DEF CreditInv

\* Every step keeps it.
LEMMA CreditKeeps == CreditInv /\ [CreditNext]_creditVars => CreditInv'
<1> SUFFICES ASSUME CreditInv, [CreditNext]_creditVars PROVE CreditInv'
  OBVIOUS
<1>1. CreditShape
  BY DEF CreditInv
<1>2. ASSUME NEW r \in Recalcs, NEW o \in Occs, NEW to \in Changes(o), Recalculate(r, o, to)
      PROVE  CreditInv'
  BY <1>2, RecalculateKeeps
<1>3. ASSUME NEW r \in Recalcs, Store(r) PROVE CreditInv'
  BY <1>3, StoreKeeps
<1>4. ASSUME NEW r \in Recalcs, Rollback(r) PROVE CreditInv'
  BY <1>4, RollbackKeeps
<1>5. ASSUME NEW o \in Occs, AddObligation(o) PROVE CreditInv'
  <2>1. occ[o] \in Occ /\ occ \in [Occs -> Occ]
    BY <1>1, ShapeIs
  <2>2. occ' = [occ EXCEPT ![o].status = "PENDING"] /\ occ[o].status = "ABSENT"
    BY <1>5 DEF AddObligation
  <2>3. occ' \in Histories
    BY <2>1, <2>2 DEF Occ, Statuses, Histories
  <2>4. \A p \in Occs : \A s \in {"PAID", "PAID_LATE", "MISSED"} :
          occ[p].status = s <=> occ'[p].status = s
    BY <2>1, <2>2 DEF Occ
  <2>5. /\ archived' \subseteq Occs /\ now' \in Times
        /\ UNCHANGED <<budget, credit, recalc, deltas, passed>>
    BY <1>1, <1>5 DEF AddObligation, CreditShape
  <2> QED BY <2>3, <2>4, <2>5, UncountedKeeps
<1>6. ASSUME NEW o \in Occs, ArchiveObligation(o) PROVE CreditInv'
  <2>1. occ[o] \in Occ /\ occ \in [Occs -> Occ]
    BY <1>1, ShapeIs
  <2>2. occ' = occ \/ (occ' = [occ EXCEPT ![o].status = "CANCELLED"]
                       /\ occ[o].status \in {"PENDING", "OVERDUE"})
    BY <1>6 DEF ArchiveObligation
  <2>3. occ' \in Histories
    BY <2>1, <2>2 DEF Occ, Statuses, Histories
  <2>4. \A p \in Occs : \A s \in {"PAID", "PAID_LATE", "MISSED"} :
          occ[p].status = s <=> occ'[p].status = s
    BY <2>1, <2>2 DEF Occ
  <2>5. /\ archived' \subseteq Occs /\ now' \in Times
        /\ UNCHANGED <<budget, credit, recalc, deltas, passed>>
    BY <1>1, <1>6 DEF ArchiveObligation, CreditShape
  <2> QED BY <2>3, <2>4, <2>5, UncountedKeeps
<1>7. ASSUME NEW t \in Times, Wait(t) PROVE CreditInv'
  <2>1. occ' = occ /\ occ \in Histories /\ archived' \subseteq Occs /\ now' \in Times
        /\ UNCHANGED <<budget, credit, recalc, deltas, passed>>
    BY <1>1, <1>7 DEF Wait, CreditShape
  <2> QED BY <2>1, UncountedKeeps
<1>8. CASE UNCHANGED creditVars
  <2>1. occ' = occ /\ occ \in Histories /\ archived' \subseteq Occs /\ now' \in Times
        /\ UNCHANGED <<budget, credit, recalc, deltas, passed>>
    BY <1>1, <1>8 DEF creditVars, CreditShape
  <2> QED BY <2>1, UncountedKeeps
<1> QED BY <1>2, <1>3, <1>4, <1>5, <1>6, <1>7, <1>8 DEF CreditNext

\* So it holds throughout.
LEMMA CreditAlways == CreditSpec => []CreditInv
<1> QED BY CreditStarts, CreditKeeps, PTL DEF CreditSpec

\* What the invariant says of the types.
LEMMA CreditShapeIsTyped == CreditInv => CreditTypeOK
<1> SUFFICES ASSUME CreditInv PROVE CreditTypeOK
  OBVIOUS
<1>1. CreditShape
  BY DEF CreditInv
<1>2. credit.score \in 300..850
  BY <1>1 DEF CreditShape, ScoreRange
<1>3. \A n \in DOMAIN credit.counts : credit.counts[n] \in 0..Cardinality(Occs)
  BY <1>1 DEF CreditShape, CountsRange
<1>4. ASSUME NEW r \in Recalcs, recalc[r].on
      PROVE  /\ recalc[r].o \in Occs /\ recalc[r].to \in Occ /\ recalc[r].late \in BOOLEAN
             /\ {recalc[r].before, recalc[r].score} \subseteq 300..850
  <2>1. recalc[r] \in Calculation
    BY <1>1, <1>4, ShapeIs
  <2>2. recalc[r].before \in ScoreRange /\ recalc[r].score \in ScoreRange
    BY <2>1 DEF Calculation
  <2>3. recalc[r].o \in Occs /\ recalc[r].to \in Occ /\ recalc[r].late \in BOOLEAN
    BY <2>1 DEF Calculation
  <2> QED BY <2>2, <2>3 DEF ScoreRange
<1> QED BY <1>1, <1>2, <1>3, <1>4 DEF CreditTypeOK, CreditShape, Histories

\* Every value of the credit profile has its type, and the tier is the score's.
THEOREM CreditTyped == CreditSpec => []CreditTypeOK
<1> QED BY CreditAlways, CreditShapeIsTyped, PTL

\* The events explain the score and the counters, until a transaction stores
\* what it calculated before another stored (recalculateAfterPayment).
THEOREM EventsExplain == CreditSpec => []EventsExplainScore
<1>1. CreditInv => EventsExplainScore
  BY DEF CreditInv
<1> QED BY <1>1, CreditAlways, PTL

\* The score follows what the user does, whatever the obligations, their
\* number, amounts, dates and priorities, and the budget are.
THEOREM ScoreFollowsAlways == CreditSpec => []ScoreFollowsConduct
<1>1. CreditInv => ScoreFollowsConduct
  BY ShapeIs, ConductIs DEF CreditInv, Histories
<1> QED BY <1>1, CreditAlways, PTL

-----------------------------------------------------------------------------
(* The quizzes                                                             *)

\* Answers are told apart by their order.
InTurn(answers) == \A a, b \in answers : a.at = b.at => a = b

\* What the answers of a session are, and what they come to.
SessionFits(s) == LET x == session[s] IN
    /\ InTurn(x.answers)
    /\ \A a \in x.answers : a.q \in ToSet(Asked[Type(s)]) /\ a.at <= started
    /\ x.status = "COMPLETED" => Right(x.answers) = ToSet(Asked[Type(s)]) /\ paid[s] > 0
    /\ ~raced => /\ paid[s] = IF x.status = "COMPLETED" THEN 1 ELSE 0
                 /\ x.score = Cardinality(Right(x.answers))
                 /\ x.status = "IN_PROGRESS" => Queue(s, x.answers) # << >>

\* A submission is the only one of its number, has seen answers that are still
\* there and answers a question that was queued; a reply does not outrun its
\* session.
CallFits(k) ==
    /\ k.op = "answer" =>
         /\ k.a.at <= started
         /\ k.lastDay <= k.day /\ k.day <= today
         /\ \A s \in Sessions : \A a \in session[s].answers : a.at # k.a.at
         /\ k.read => /\ Answerable(k.s, k.seen, k.a.q)
                      /\ k.seen.answers \subseteq session[k.s].answers
    /\ k.op = "done" /\ k.seen.status = "COMPLETED" =>
         session[k.s].status = "COMPLETED"
Apart == \A c, d \in QuizCalls :
    /\ quizCall[c].op = "answer" /\ quizCall[d].op = "answer"
    /\ quizCall[c].a.at = quizCall[d].a.at
    => c = d

\* The page waits for a submission to its session; what it was told of a
\* finished quiz is so.
PageFits ==
    /\ page = NoOne => /\ resumed = NoOne /\ pending = NoOne /\ toast = NoOne
                       /\ shown = NotLoaded
    /\ pending # NoOne => /\ quizCall[pending].op \in {"answer", "done"}
                          /\ quizCall[pending].s = page
    /\ \A v \in {resumed, shown, toast} :
         v # NoOne /\ v.status = "COMPLETED" => session[page].status = "COMPLETED"

StreaksFit == streaks.lastDay <= today /\ StreakFollowsDays

PlayInv ==
    /\ PageTypeOK
    /\ \A s \in Sessions : SessionFits(s)
    /\ \A c \in QuizCalls : CallFits(quizCall[c])
    /\ Apart
    /\ PageFits
    /\ StreaksFit

\* Where a question is taken out of a queue, in which it stands once.
LEMMA RemovedAt ==
  ASSUME NEW S, NEW queue \in Seq(S), NEW e, e \in ToSet(queue)
  PROVE  \E i \in 1..Len(queue) : queue[i] = e /\ RemoveFirst(queue, e) = RemoveAt(queue, i)
<1> DEFINE I == {i \in 1..Len(queue) : queue[i] = e}
<1>1. Len(queue) \in Nat /\ DOMAIN queue = 1..Len(queue)
  BY LenProperties
<1>2. I # {} /\ I \in SUBSET Nat
  BY <1>1 DEF ToSet
<1>3. PICK m \in I : \A k \in I : m <= k
  <2> HIDE DEF I
  <2> QED BY <1>2, LeastNumber
<1>4. Min(I) \in I
  <2> HIDE DEF I
  <2>1. \E x \in I : \A y \in I : x <= y
    BY <1>3
  <2> QED BY <2>1 DEF Min
<1>5. RemoveFirst(queue, e) = RemoveAt(queue, Min(I))
  BY <1>2 DEF RemoveFirst, SelectInSeq
<1> QED BY <1>4, <1>5

\* To remove an element of a queue without duplicates is to remove it from the set.
LEMMA RemovedIs ==
  ASSUME NEW S, NEW queue \in Seq(S), IsInjective(queue), NEW i \in 1..Len(queue),
         NEW rest, rest = RemoveAt(queue, i)
  PROVE  rest \in Seq(S) /\ IsInjective(rest) /\ ToSet(rest) = ToSet(queue) \ {queue[i]}
<1>1. Len(queue) \in Nat /\ DOMAIN queue = 1..Len(queue) /\ i \in Nat /\ 1 <= i /\ i <= Len(queue)
  BY LenProperties
<1>2. PICK n \in Nat : n = Len(queue)
  BY <1>1
<1>3. \A j \in 1..n : queue[j] \in S
  BY <1>2, ElementOfSeq
<1>4. PICK before : before = SubSeq(queue, 1, i - 1)
  OBVIOUS
<1>5. PICK behind : behind = SubSeq(queue, i + 1, n)
  OBVIOUS
<1>6. /\ before \in Seq(S) /\ Len(before) = i - 1
      /\ \A j \in 1..(i - 1) : before[j] = queue[j]
  <2>1. \A j \in 1..(i - 1) : queue[j] \in S
    BY <1>1, <1>2, <1>3
  <2>2. /\ SubSeq(queue, 1, i - 1) \in Seq(S)
        /\ Len(SubSeq(queue, 1, i - 1)) = IF 1 <= i - 1 THEN (i - 1) - 1 + 1 ELSE 0
        /\ \A j \in 1..((i - 1) - 1 + 1) : SubSeq(queue, 1, i - 1)[j] = queue[1 + j - 1]
    <3>1. 1 \in Int /\ i - 1 \in Int
      BY <1>1
    <3> QED BY <2>1, <3>1, SubSeqProperties
  <2> QED BY <1>1, <1>4, <2>2
<1>7. /\ behind \in Seq(S) /\ Len(behind) = n - i
      /\ \A j \in 1..(n - i) : behind[j] = queue[i + j]
  <2>1. \A j \in (i + 1)..n : queue[j] \in S
    BY <1>1, <1>2, <1>3
  <2>2. /\ SubSeq(queue, i + 1, n) \in Seq(S)
        /\ Len(SubSeq(queue, i + 1, n)) = IF i + 1 <= n THEN n - (i + 1) + 1 ELSE 0
        /\ \A j \in 1..(n - (i + 1) + 1) : SubSeq(queue, i + 1, n)[j] = queue[i + 1 + j - 1]
    <3>1. i + 1 \in Int /\ n \in Int
      BY <1>1, <1>2
    <3> QED BY <2>1, <3>1, SubSeqProperties
  <2>3. n - (i + 1) + 1 = n - i /\ (IF i + 1 <= n THEN n - i ELSE 0) = n - i
    <3>1. i \in Nat /\ i <= n
      BY <1>1, <1>2
    <3>2. n - (i + 1) + 1 = n - i
      BY <3>1
    <3>3. ~(i + 1 <= n) => n - i = 0
      BY <3>1
    <3> QED BY <3>2, <3>3
  <2>4. Len(behind) = n - i /\ behind \in Seq(S)
    BY <1>5, <2>2, <2>3
  <2>5. \A j \in 1..(n - i) : i + 1 + j - 1 = i + j
    BY <1>1, <1>2
  <2> QED BY <1>5, <2>2, <2>3, <2>4, <2>5
<1>8. rest = before \o behind
  BY <1>2, <1>4, <1>5 DEF RemoveAt
<1>9. /\ rest \in Seq(S) /\ Len(rest) = n - 1
      /\ \A j \in 1..(n - 1) : rest[j] = IF j <= i - 1 THEN before[j] ELSE behind[j - (i - 1)]
  <2>1. /\ before \o behind \in Seq(S)
        /\ Len(before \o behind) = Len(before) + Len(behind)
        /\ \A j \in 1..Len(before) + Len(behind) : (before \o behind)[j] =
             IF j <= Len(before) THEN before[j] ELSE behind[j - Len(before)]
    BY <1>6, <1>7, ConcatProperties
  <2>2. Len(before) + Len(behind) = n - 1
    BY <1>1, <1>2, <1>6, <1>7
  <2> QED BY <1>6, <1>8, <2>1, <2>2
<1>10. DOMAIN rest = 1..(n - 1)
  BY <1>9, LenProperties
<1>11. \A j \in 1..(n - 1) : rest[j] = IF j < i THEN queue[j] ELSE queue[j + 1]
  <2> SUFFICES ASSUME NEW j \in 1..(n - 1)
               PROVE  rest[j] = IF j < i THEN queue[j] ELSE queue[j + 1]
    OBVIOUS
  <2>1. CASE j < i
    <3>1. j <= i - 1 /\ j \in 1..(i - 1)
      BY <1>1, <2>1
    <3> QED BY <1>6, <1>9, <2>1, <3>1
  <2>2. CASE ~(j < i)
    <3>1. ~(j <= i - 1) /\ j - (i - 1) \in 1..(n - i) /\ i + (j - (i - 1)) = j + 1
      BY <1>1, <1>2, <2>2
    <3> QED BY <1>7, <1>9, <2>2, <3>1
  <2> QED BY <2>1, <2>2
<1>12. \A j, k \in 1..n : queue[j] = queue[k] => j = k
  BY <1>1, <1>2 DEF IsInjective
<1>13. IsInjective(rest)
  <2> SUFFICES ASSUME NEW j \in 1..(n - 1), NEW k \in 1..(n - 1), rest[j] = rest[k]
               PROVE  j = k
    BY <1>10 DEF IsInjective
  <2>1. j \in 1..n /\ k \in 1..n /\ j + 1 \in 1..n /\ k + 1 \in 1..n
    BY <1>2
  <2> QED BY <1>1, <1>11, <1>12, <2>1
<1>14. ToSet(rest) \subseteq ToSet(queue) \ {queue[i]}
  <2> SUFFICES ASSUME NEW j \in 1..(n - 1)
               PROVE  \E k \in 1..n : rest[j] = queue[k] /\ queue[k] # queue[i]
    BY <1>1, <1>2, <1>10 DEF ToSet
  <2>1. j \in 1..n /\ j + 1 \in 1..n /\ i \in 1..n
    BY <1>1, <1>2
  <2>2. CASE j < i
    BY <1>1, <1>11, <1>12, <2>1, <2>2
  <2>3. CASE ~(j < i)
    BY <1>1, <1>11, <1>12, <2>1, <2>3
  <2> QED BY <2>2, <2>3
<1>15. ToSet(queue) \ {queue[i]} \subseteq ToSet(rest)
  <2> SUFFICES ASSUME NEW k \in 1..n, queue[k] # queue[i]
               PROVE  \E j \in 1..(n - 1) : rest[j] = queue[k]
    BY <1>1, <1>2, <1>10 DEF ToSet
  <2>1. CASE k < i
    <3>1. k \in 1..(n - 1)
      BY <1>1, <1>2, <2>1
    <3> QED BY <1>11, <2>1, <3>1
  <2>2. CASE ~(k < i)
    <3>1. k # i
      OBVIOUS
    <3>2. k - 1 \in 1..(n - 1) /\ ~(k - 1 < i) /\ (k - 1) + 1 = k
      BY <1>1, <1>2, <2>2, <3>1
    <3> QED BY <1>11, <3>2
  <2> QED BY <2>1, <2>2
<1> QED BY <1>9, <1>13, <1>14, <1>15

\* A queue without one of its questions, and one with a question at its end.
LEMMA QueueLeaves ==
  ASSUME NEW S, NEW queue \in Seq(S), IsInjective(queue), NEW e
  PROVE  /\ RemoveFirst(queue, e) \in Seq(S)
         /\ IsInjective(RemoveFirst(queue, e))
         /\ ToSet(RemoveFirst(queue, e)) = ToSet(queue) \ {e}
<1>1. CASE e \in ToSet(queue)
  <2>1. PICK i \in 1..Len(queue) : queue[i] = e /\ RemoveFirst(queue, e) = RemoveAt(queue, i)
    BY <1>1, RemovedAt
  <2> QED BY <2>1, RemovedIs
<1>2. CASE e \notin ToSet(queue)
  <2>1. DOMAIN queue = 1..Len(queue)
    BY LenProperties
  <2>2. RemoveFirst(queue, e) = queue
    BY <1>2, <2>1 DEF RemoveFirst, ToSet
  <2> QED BY <1>2, <2>2
<1> QED BY <1>1, <1>2

\* A queue without duplicates takes an element that is not in it.
LEMMA QueueTakes ==
  ASSUME NEW S, NEW queue \in Seq(S), IsInjective(queue), NEW e \in S, e \notin ToSet(queue)
  PROVE  /\ Append(queue, e) \in Seq(S)
         /\ IsInjective(Append(queue, e))
         /\ ToSet(Append(queue, e)) = ToSet(queue) \cup {e}
<1>1. PICK n \in Nat : n = Len(queue) /\ DOMAIN queue = 1..n
  BY LenProperties
<1>2. PICK more : more = Append(queue, e)
  OBVIOUS
<1>3. /\ more \in Seq(S) /\ Len(more) = n + 1
      /\ \A i \in 1..n : more[i] = queue[i]
      /\ more[n + 1] = e
  BY <1>1, <1>2, AppendProperties
<1>4. DOMAIN more = 1..(n + 1)
  BY <1>3, LenProperties
<1>5. \A i \in 1..n : queue[i] # e
  BY <1>1 DEF ToSet
<1>6. \A i \in 1..(n + 1) : i \in 1..n \/ i = n + 1
  BY <1>1
<1>7. IsInjective(more)
  <2> SUFFICES ASSUME NEW j \in 1..(n + 1), NEW k \in 1..(n + 1), more[j] = more[k]
               PROVE  j = k
    BY <1>4 DEF IsInjective
  <2>1. CASE j \in 1..n /\ k \in 1..n
    BY <1>1, <1>3, <2>1 DEF IsInjective
  <2>2. CASE ~(j \in 1..n /\ k \in 1..n)
    BY <1>3, <1>5, <1>6, <2>2
  <2> QED BY <2>1, <2>2
<1>8. ToSet(more) = ToSet(queue) \cup {e}
  <2>1. ToSet(more) = {more[j] : j \in 1..(n + 1)} /\ ToSet(queue) = {queue[j] : j \in 1..n}
    BY <1>1, <1>4 DEF ToSet
  <2>2. n + 1 \in 1..(n + 1) /\ \A j \in 1..n : j \in 1..(n + 1)
    BY <1>1
  <2> QED BY <1>3, <1>6, <2>1, <2>2
<1> QED BY <1>2, <1>3, <1>7, <1>8

\* A right answer takes its question out of the queue, a wrong one leaves the
\* same questions in it.
LEMMA RequeuedIs ==
  ASSUME NEW S, NEW queue \in Seq(S), IsInjective(queue), NEW a, a.q \in Questions,
         S = Questions, a.right \in BOOLEAN
  PROVE  /\ Requeued(queue, a) \in Seq(S)
         /\ IsInjective(Requeued(queue, a))
         /\ ToSet(Requeued(queue, a)) = ToSet(queue) \ (IF a.right THEN {a.q} ELSE {})
<1>1. PICK rest : rest = RemoveFirst(queue, a.q)
  OBVIOUS
<1>2. rest \in Seq(S) /\ IsInjective(rest) /\ ToSet(rest) = ToSet(queue) \ {a.q}
  BY <1>1, QueueLeaves
<1>3. CASE a.right
  BY <1>1, <1>2, <1>3 DEF Requeued
<1>4. CASE ~a.right /\ a.q \notin ToSet(queue)
  BY <1>1, <1>2, <1>4 DEF Requeued
<1>5. CASE ~a.right /\ a.q \in ToSet(queue)
  <2>1. Requeued(queue, a) = Append(rest, a.q)
    BY <1>1, <1>5 DEF Requeued
  <2>2. a.q \notin ToSet(rest)
    BY <1>2
  <2>3. /\ Append(rest, a.q) \in Seq(S) /\ IsInjective(Append(rest, a.q))
        /\ ToSet(Append(rest, a.q)) = ToSet(rest) \cup {a.q}
    BY <1>2, <2>2, QueueTakes
  <2> QED BY <1>2, <1>5, <2>1, <2>3
<1> QED BY <1>3, <1>4, <1>5


\* The questions of a session are a queue of its questions.
LEMMA AskedIs ==
  ASSUME NEW s \in Sessions
  PROVE  /\ Type(s) \in DOMAIN Asked
         /\ Asked[Type(s)] \in Seq(Questions) /\ Asked[Type(s)] # << >>
         /\ IsInjective(Asked[Type(s)])
         /\ ToSet(Asked[Type(s)]) \subseteq Questions
         /\ ToSet(Asked[Type(s)]) # {}
<1>1. Type(s) \in {"DAILY", "TOPIC"}
  BY DEF Sessions, Type
<1>2. Type(s) \in DOMAIN Asked
  BY <1>1, QuizConstants
<1>3. PICK t \in DOMAIN Asked : t = Type(s)
  BY <1>2
<1>4. Asked[t] \in Seq(ToSet(Asked[t])) /\ Asked[t] # << >> /\ IsInjective(Asked[t])
  BY QuizConstants
<1>5. ToSet(Asked[t]) \subseteq Questions
  BY DEF Questions
<1>6. Asked[t] \in Seq(Questions)
  BY <1>4, <1>5, SeqMonotonic
<1>7. ToSet(Asked[t]) # {}
  <2>1. DOMAIN Asked[t] = 1..Len(Asked[t]) /\ Len(Asked[t]) \in Nat
    BY <1>6, LenProperties
  <2>2. Len(Asked[t]) # 0
    BY <1>4, <1>6, EmptySeq
  <2>3. 1 \in DOMAIN Asked[t]
    BY <2>1, <2>2
  <2> QED BY <2>3 DEF ToSet
<1> QED BY <1>2, <1>3, <1>4, <1>5, <1>6, <1>7

\* One submission after another.
Given(answers, t) == {a \in answers : a.at = t}
Turn(queue, answers, t) ==
    IF Given(answers, t) = {} THEN queue
    ELSE Requeued(queue, CHOOSE a \in Given(answers, t) : TRUE)

Turned(f, start, answers, m) ==
    f = [n \in 0..m |-> IF n = 0 THEN start ELSE Turn(f[n - 1], answers, n)]

\* The answers can be worked through.
LEMMA TurnsExist ==
  ASSUME NEW start, NEW answers, NEW m \in Nat
  PROVE  \E f : Turned(f, start, answers, m)
<1> USE DEF Turned
<1> DEFINE Bad == {k \in Nat :
        ~\E f : f = [n \in 0..k |-> IF n = 0 THEN start ELSE Turn(f[n - 1], answers, n)]}
<1> SUFFICES ASSUME m \in Bad
             PROVE  FALSE
  OBVIOUS
<1>1. PICK k \in Bad : \A j \in Bad : k <= j
  <2>1. Bad \in SUBSET Nat /\ Bad # {}
    OBVIOUS
  <2> HIDE DEF Bad
  <2> QED BY <2>1, LeastNumber
<1>2. k \in Nat /\ ~\E f : f = [n \in 0..k |->
                            IF n = 0 THEN start ELSE Turn(f[n - 1], answers, n)]
  OBVIOUS
<1>3. CASE k = 0
  <2>1. PICK f : f = [n \in 0..k |-> start]
    OBVIOUS
  <2>2. \A n \in 0..k : n = 0
    BY <1>3
  <2>3. f = [n \in 0..k |-> IF n = 0 THEN start ELSE Turn(f[n - 1], answers, n)]
    BY <2>1, <2>2
  <2> QED BY <1>2, <2>3
<1>4. CASE k # 0
  <2>1. k - 1 \in Nat /\ ~(k <= k - 1)
    BY <1>2, <1>4
  <2>2. PICK f : f = [n \in 0..(k - 1) |->
                      IF n = 0 THEN start ELSE Turn(f[n - 1], answers, n)]
    <3>1. k - 1 \notin Bad
      <4> HIDE DEF Bad
      <4> QED BY <1>1, <2>1
    <3> QED BY <2>1, <3>1
  <2>3. PICK g : g = [n \in 0..k |-> IF n = 0 THEN start ELSE Turn(f[n - 1], answers, n)]
    OBVIOUS
  <2>4. ASSUME NEW n \in 0..k, n # 0
        PROVE  g[n - 1] = f[n - 1]
    <3>1. n - 1 \in 0..k /\ n - 1 \in 0..(k - 1)
      BY <1>2, <2>4
    <3>2. f[n - 1] = IF n - 1 = 0 THEN start ELSE Turn(f[(n - 1) - 1], answers, n - 1)
      BY <2>2, <3>1
    <3>3. g[n - 1] = IF n - 1 = 0 THEN start ELSE Turn(f[(n - 1) - 1], answers, n - 1)
      BY <2>3, <3>1
    <3> QED BY <3>2, <3>3
  <2>5. g = [n \in 0..k |-> IF n = 0 THEN start ELSE Turn(g[n - 1], answers, n)]
    BY <2>3, <2>4
  <2> QED BY <1>2, <2>5
<1> QED BY <1>3, <1>4

\* The right answers up to a submission.
RightBy(answers, n) == Right({a \in answers : a.at <= n})

\* What is queued are the questions that were not answered rightly.
LEMMA QueueIs ==
  ASSUME NEW s \in Sessions, NEW answers, answers \subseteq Answer
  PROVE  /\ Queue(s, answers) \in Seq(Questions)
         /\ InTurn(answers) =>
              ToSet(Queue(s, answers)) = ToSet(Asked[Type(s)]) \ Right(answers)
<1> DEFINE start == Asked[Type(s)]
           After(f) == Turned(f, start, answers, MaxAnswers)
           Fine(queue, n) == /\ queue \in Seq(Questions) /\ IsInjective(queue)
                             /\ InTurn(answers) =>
                                  ToSet(queue) = ToSet(start) \ RightBy(answers, n)
<1>1. PICK m \in Nat : m = MaxAnswers
  BY QuizConstants
<1>2. PICK f : After(f) /\ Queue(s, answers) = f[MaxAnswers]
  <2>1. \E f : After(f)
    <3>1. \E f : Turned(f, start, answers, m)
      BY TurnsExist
    <3> QED BY <1>1, <3>1
  <2>2. After(CHOOSE f : After(f))
    <3> HIDE DEF After
    <3> QED BY <2>1
  <2>3. Queue(s, answers) = (CHOOSE f : After(f))[MaxAnswers]
    BY DEF Queue, Turned, Turn, Given
  <2> HIDE DEF After
  <2> QED BY <2>2, <2>3
<1>3. \A a \in answers : a.q \in Questions /\ a.right \in BOOLEAN /\ a.at \in 1..m
  BY <1>1 DEF Answer
<1>4. f[0] = start
  BY <1>1, <1>2 DEF Turned
<1>5. \A n \in 1..m : f[n] = Turn(f[n - 1], answers, n)
  <2> SUFFICES ASSUME NEW n \in 1..m
               PROVE  f[n] = Turn(f[n - 1], answers, n)
    OBVIOUS
  <2>1. n \in 0..MaxAnswers /\ n # 0
    BY <1>1
  <2> QED BY <1>2, <2>1 DEF Turned
<1> HIDE DEF After
<1>6. Fine(f[0], 0)
  <2>1. {a \in answers : a.at <= 0} = {}
    BY <1>3
  <2>2. RightBy(answers, 0) = {}
    BY <2>1 DEF RightBy, Right
  <2> QED BY <1>4, <2>2, AskedIs
<1>7. ASSUME NEW n \in 1..m, Fine(f[n - 1], n - 1)
      PROVE  Fine(f[n], n)
  <2>1. PICK queue : queue = f[n - 1]
    OBVIOUS
  <2>2. queue \in Seq(Questions) /\ IsInjective(queue)
    BY <1>7, <2>1
  <2>3. InTurn(answers) => ToSet(queue) = ToSet(start) \ RightBy(answers, n - 1)
    BY <1>7, <2>1
  <2>4. \A a \in answers : a.at <= n <=> a.at <= n - 1 \/ a.at = n
    BY <1>3
  <2>5. RightBy(answers, n) = RightBy(answers, n - 1) \cup Right(Given(answers, n))
    BY <2>4 DEF RightBy, Right, Given
  <2>6. f[n] = Turn(queue, answers, n)
    BY <1>5, <2>1
  <2>7. CASE Given(answers, n) = {}
    <3>1. Right(Given(answers, n)) = {}
      BY <2>7 DEF Right
    <3>2. f[n] = queue
      BY <2>6, <2>7 DEF Turn
    <3> QED BY <2>2, <2>3, <2>5, <3>1, <3>2
  <2>8. CASE Given(answers, n) # {}
    <3>1. PICK a : a = (CHOOSE b \in Given(answers, n) : TRUE)
      OBVIOUS
    <3>2. a \in Given(answers, n) /\ a \in answers
      BY <2>8, <3>1 DEF Given
    <3>3. InTurn(answers) => Given(answers, n) = {a}
      BY <3>2 DEF Given, InTurn
    <3>4. InTurn(answers) => Right(Given(answers, n)) = IF a.right THEN {a.q} ELSE {}
      BY <3>3 DEF Right
    <3>5. f[n] = Requeued(queue, a)
      BY <2>6, <2>8, <3>1 DEF Turn
    <3>6. /\ Requeued(queue, a) \in Seq(Questions)
          /\ IsInjective(Requeued(queue, a))
          /\ ToSet(Requeued(queue, a)) = ToSet(queue) \ (IF a.right THEN {a.q} ELSE {})
      BY <1>3, <2>2, <3>2, RequeuedIs
    <3> HIDE DEF start
    <3> QED BY <2>3, <2>5, <3>4, <3>5, <3>6
  <2> QED BY <2>7, <2>8
<1>8. \A n \in 0..m : Fine(f[n], n)
  <2> DEFINE Bad == {k \in Nat : k <= m /\ ~Fine(f[k], k)}
  <2> SUFFICES ASSUME NEW n \in 0..m, ~Fine(f[n], n)
               PROVE  FALSE
    OBVIOUS
  <2>1. n \in Bad
    OBVIOUS
  <2>2. PICK k \in Bad : \A j \in Bad : k <= j
    <3>1. Bad \in SUBSET Nat /\ Bad # {}
      BY <2>1
    <3> HIDE DEF Bad
    <3> QED BY <3>1, LeastNumber
  <2>3. k \in Nat /\ k <= m /\ ~Fine(f[k], k)
    OBVIOUS
  <2> HIDE DEF Fine
  <2>4. k # 0
    BY <1>6, <2>3
  <2>5. k - 1 \in Nat /\ k - 1 <= m /\ ~(k <= k - 1) /\ k \in 1..m
    BY <2>3, <2>4
  <2>6. k - 1 \notin Bad
    <3> HIDE DEF Bad
    <3> QED BY <2>2, <2>5
  <2>7. Fine(f[k - 1], k - 1)
    BY <2>5, <2>6
  <2>8. Fine(f[k], k)
    BY <1>7, <2>5, <2>7
  <2> QED BY <2>3, <2>8
<1>9. Fine(f[m], m)
  <2> HIDE DEF Fine
  <2> QED BY <1>8
<1>10. RightBy(answers, m) = Right(answers)
  <2>1. {a \in answers : a.at <= m} = answers
    BY <1>3
  <2> QED BY <2>1 DEF RightBy
<1> QED BY <1>1, <1>2, <1>9, <1>10


\* A queue without a question is empty.
LEMMA QueueEmpties ==
  ASSUME NEW S, NEW queue \in Seq(S)
  PROVE  /\ queue = << >> <=> ToSet(queue) = {}
         /\ queue # << >> => Head(queue) \in S /\ Head(queue) \in ToSet(queue)
<1>1. Len(queue) \in Nat /\ DOMAIN queue = 1..Len(queue)
  BY LenProperties
<1>2. CASE queue = << >>
  <2>1. DOMAIN queue = {}
    BY <1>1, <1>2, EmptySeq
  <2> QED BY <1>2, <2>1 DEF ToSet
<1>3. CASE queue # << >>
  <2>1. 1 \in DOMAIN queue
    BY <1>1, <1>3, EmptySeq
  <2>2. Head(queue) = queue[1]
    OBVIOUS
  <2>3. queue[1] \in S
    BY <1>1, <2>1, ElementOfSeq
  <2> QED BY <1>3, <2>1, <2>2, <2>3 DEF ToSet
<1> QED BY <1>2, <1>3

\* What the page is told is a view.
LEMMA ViewTyped ==
  ASSUME NEW s \in Sessions, NEW x \in Session
  PROVE  View(s, x) \in Views /\ View(s, x).status = x.status
<1>1. x.answers \subseteq Answer /\ x.status \in {"NONE", "IN_PROGRESS", "COMPLETED"}
  BY DEF Session
<1>2. Queue(s, x.answers) \in Seq(Questions)
  BY <1>1, QueueIs
<1>3. NextQuestion(s, x) \in Questions \cup {NoOne}
  BY <1>2, QueueEmpties DEF NextQuestion
<1> QED BY <1>1, <1>3 DEF View, Views

\* There are sessions on the topic up to the latest.
LEMMA LatestIs == Latest \in 0..MaxTopics
<1> DEFINE Unused(n) == session[<<"TOPIC", n>>] = Absent
<1>1. Latest = IF \E n \in 1..MaxTopics : ~Unused(n)
               THEN CHOOSE n \in 1..MaxTopics :
                      ~Unused(n) /\ \A k \in n + 1..MaxTopics : Unused(k)
               ELSE 0
  BY DEF Latest
<1> HIDE DEF Unused
<1>2. PICK m \in Nat : m = MaxTopics
  BY QuizConstants
<1>3. CASE \E n \in 1..m : ~Unused(n)
  <2> DEFINE Below == {k \in Nat : k < m /\ ~Unused(m - k)}
  <2>1. Below # {} /\ Below \in SUBSET Nat
    <3>1. PICK n \in 1..m : ~Unused(n)
      BY <1>3
    <3>2. m - n \in Nat /\ m - n < m /\ m - (m - n) = n
      OBVIOUS
    <3>3. m - n \in Below
      BY <3>1, <3>2
    <3> QED BY <3>3
  <2>2. PICK least \in Below : \A k \in Below : least <= k
    <3> HIDE DEF Below
    <3> QED BY <2>1, LeastNumber
  <2>3. PICK n : n = m - least
    OBVIOUS
  <2>4. n \in 1..m /\ ~Unused(n)
    BY <2>3
  <2>5. \A k \in n + 1..m : Unused(k)
    <3> SUFFICES ASSUME NEW k \in n + 1..m, ~Unused(k)
                 PROVE  FALSE
      OBVIOUS
    <3>1. m - k \in Nat /\ m - k < m /\ m - (m - k) = k /\ ~(least <= m - k)
      BY <2>3, <2>4
    <3>2. m - k \in Below
      BY <3>1
    <3> QED BY <2>2, <3>1, <3>2
  <2> QED BY <1>1, <1>2, <2>4, <2>5
<1>4. CASE ~\E n \in 1..m : ~Unused(n)
  BY <1>1, <1>2, <1>4
<1> QED BY <1>2, <1>3, <1>4

AnswerCalls == [op: {"answer"}, s: Sessions, day: Days, a: Answer,
                lastDay: Days \cup {NoDay}, read: BOOLEAN, seen: Session]

\* What a request is, by its kind.
LEMMA CallIs ==
  ASSUME QuizTypeOK, NEW c \in QuizCalls
  PROVE  /\ quizCall[c].op = "answer" => quizCall[c] \in AnswerCalls
         /\ quizCall[c].op = "done" => quizCall[c] \in Reply
         /\ quizCall[c].op = "create" => quizCall[c].s \in Sessions
<1>1. quizCall[c] \in {NoQuizCall} \cup Request \cup Reply
  BY DEF QuizTypeOK
<1>2. quizCall[c] \in {NoQuizCall} \cup [op: {"create"}, s: Sessions, old: BOOLEAN]
                      \cup AnswerCalls \cup Reply
  BY <1>1 DEF Request, AnswerCalls
<1>3. quizCall[c] = NoQuizCall => quizCall[c].op = "none"
  BY DEF NoQuizCall
<1>4. quizCall[c] \in [op: {"create"}, s: Sessions, old: BOOLEAN] =>
        quizCall[c].op = "create" /\ quizCall[c].s \in Sessions
  OBVIOUS
<1>5. quizCall[c] \in AnswerCalls => quizCall[c].op = "answer"
  BY DEF AnswerCalls
<1>6. quizCall[c] \in Reply => quizCall[c].op = "done"
  BY DEF Reply
<1> QED BY <1>2, <1>3, <1>4, <1>5, <1>6

-----------------------------------------------------------------------------
\* Nothing has happened to a session.
LEMMA SessionStays ==
  ASSUME NEW s \in Sessions, SessionFits(s), session'[s] = session[s], paid'[s] = paid[s],
         QuizTypeOK, started' \in Int, started <= started', raced => raced'
  PROVE  SessionFits(s)'
<1>1. started \in Int /\ session[s].answers \subseteq Answer
  BY QuizConstants DEF QuizTypeOK, Session
<1>2. \A a \in session[s].answers : a.at \in Int
  BY <1>1, QuizConstants DEF Answer
<1>3. \A a \in session[s].answers : a.at <= started'
  BY <1>1, <1>2 DEF SessionFits
<1> QED BY <1>3 DEF SessionFits

\* Nothing has happened to a request, and its session has at most grown.
LEMMA CallStays ==
  ASSUME QuizTypeOK, NEW c \in QuizCalls, CallFits(quizCall[c]), quizCall'[c] = quizCall[c],
         started' \in Int, started <= started', today' \in Int, today <= today',
         \A s \in Sessions :
           /\ session[s].answers \subseteq session'[s].answers
           /\ session[s].status = "COMPLETED" => session'[s].status = "COMPLETED",
         quizCall[c].op = "answer" =>
           \A s \in Sessions : \A a \in session'[s].answers \ session[s].answers :
             a.at # quizCall[c].a.at
  PROVE  CallFits(quizCall[c])'
<1>1. started \in Int /\ today \in Int
  BY QuizConstants DEF QuizTypeOK, Days
<1>2. PICK k : k = quizCall[c] /\ k = quizCall'[c]
  OBVIOUS
<1>3. CASE k.op = "answer"
  <2>1. k.s \in Sessions /\ k.day \in Days /\ k.a \in Answer
    BY <1>2, <1>3, CallIs DEF AnswerCalls
  <2>2. k.day \in Int /\ k.a.at \in Int
    BY <2>1, QuizConstants DEF Days, Answer
  <2>3. k.day <= today' /\ k.a.at <= started'
    BY <1>1, <1>2, <1>3, <2>2 DEF CallFits
  <2>4. k.read => k.seen.answers \subseteq session'[k.s].answers
    BY <1>2, <1>3, <2>1 DEF CallFits
  <2>5. \A s \in Sessions : \A a \in session'[s].answers : a.at # k.a.at
    BY <1>2, <1>3 DEF CallFits
  <2> QED BY <1>2, <1>3, <2>3, <2>4, <2>5 DEF CallFits
<1>4. CASE k.op = "done"
  <2>1. k.s \in Sessions
    BY <1>2, <1>4, CallIs DEF Reply
  <2> QED BY <1>2, <1>4, <2>1 DEF CallFits
<1>5. CASE k.op \notin {"answer", "done"}
  BY <1>2, <1>5 DEF CallFits
<1> QED BY <1>3, <1>4, <1>5

\* The server has gone on behind the page.
LEMMA PageStays ==
  ASSUME PageTypeOK, PageFits, UNCHANGED pageVars,
         \A s \in Sessions : session[s].status = "COMPLETED" => session'[s].status = "COMPLETED",
         \A c \in QuizCalls : quizCall[c].op \in {"answer", "done"} =>
           quizCall'[c].op \in {"answer", "done"} /\ quizCall'[c].s = quizCall[c].s
  PROVE  PageFits'
<1>1. page' = page /\ resumed' = resumed /\ shown' = shown /\ pending' = pending /\ toast' = toast
  BY DEF pageVars
<1>2. page \in Sessions \cup {NoOne} /\ pending \in QuizCalls \cup {NoOne}
  BY DEF PageTypeOK
<1>3. (pending # NoOne => /\ quizCall'[pending].op \in {"answer", "done"}
                          /\ quizCall'[pending].s = page)
  BY <1>2 DEF PageFits
<1>4. page = NoOne => /\ resumed = NoOne /\ pending = NoOne /\ toast = NoOne
                      /\ shown = NotLoaded
  BY DEF PageFits
<1>5. ASSUME NEW v \in {resumed, shown, toast}, v # NoOne, v.status = "COMPLETED"
      PROVE  session'[page].status = "COMPLETED"
  <2>1. page # NoOne
    BY <1>4, <1>5 DEF NotLoaded
  <2> QED BY <1>2, <1>5, <2>1 DEF PageFits
<1> QED BY <1>1, <1>3, <1>4, <1>5 DEF PageFits, NotLoaded

\* What was promised follows.
LEMMA PlayIsFair == PlayInv => QuizIsFair
<1> SUFFICES ASSUME PlayInv
             PROVE  QuizIsFair
  OBVIOUS
<1>1. FinishedQuizIsRight
  <2>1. \A s \in Sessions : session[s].status = "COMPLETED" =>
          Right(session[s].answers) = ToSet(Asked[Type(s)]) /\ paid[s] > 0
    BY DEF PlayInv, SessionFits
  <2>2. shown # NoOne
    BY PageConstants DEF PlayInv, PageTypeOK
  <2>3. "COMPLETED" \in {shown.status} \cup (IF toast = NoOne THEN {} ELSE {toast.status})
        => session[page].status = "COMPLETED"
    BY <2>2 DEF PlayInv, PageFits
  <2> QED BY <2>1, <2>3 DEF FinishedQuizIsRight
<1>2. QuizSettledOnce
  BY DEF PlayInv, SessionFits, QuizSettledOnce
<1> QED BY <1>1, <1>2 DEF PlayInv, QuizIsFair, StreaksFit


-----------------------------------------------------------------------------
\* The right answers of two sets together, and their number.
LEMMA RightGrows ==
  ASSUME NEW answers, NEW a
  PROVE  Right(answers \cup {a}) = Right(answers) \cup (IF a.right THEN {a.q} ELSE {})
BY DEF Right

\* A right answer to a question not yet answered rightly is one more.
LEMMA RightCounts ==
  ASSUME NEW s \in Sessions, NEW answers, NEW a, Right(answers) \subseteq ToSet(Asked[Type(s)]),
         a.q \notin Right(answers), a.right \in BOOLEAN
  PROVE  Cardinality(Right(answers \cup {a})) =
           Cardinality(Right(answers)) + IF a.right THEN 1 ELSE 0
<1>1. IsFiniteSet(ToSet(Asked[Type(s)]))
  <2>1. PICK queue : queue = Asked[Type(s)]
    OBVIOUS
  <2>2. queue \in Seq(ToSet(queue))
    <3>1. Type(s) \in DOMAIN Asked
      BY AskedIs
    <3> QED BY <2>1, <3>1, QuizConstants
  <2>3. DOMAIN queue = 1..Len(queue)
    BY <2>2, LenProperties
  <2>4. \A q \in ToSet(queue) : \E n \in 1..Len(queue) : queue[n] = q
    BY <2>3 DEF ToSet
  <2> QED BY <2>1, <2>2, <2>4 DEF IsFiniteSet
<1>2. IsFiniteSet(Right(answers)) /\ Cardinality(Right(answers)) \in Nat
  BY <1>1, FS_Subset, FS_CardinalityType
<1>3. CASE a.right
  <2>1. Right(answers \cup {a}) = Right(answers) \cup {a.q}
    BY <1>3, RightGrows
  <2>2. Cardinality(Right(answers) \cup {a.q}) = Cardinality(Right(answers)) + 1
    BY <1>2, FS_AddElement
  <2> QED BY <1>3, <2>1, <2>2
<1>4. CASE ~a.right
  <2>1. Right(answers \cup {a}) = Right(answers)
    BY <1>4, RightGrows
  <2> QED BY <1>2, <1>4, <2>1
<1> QED BY <1>3, <1>4

\* The streak that a settled daily quiz leaves behind.
LEMMA StreaksAfter ==
  ASSUME QuizTypeOK, StreaksFit, NEW day \in Days, NEW lastDay \in Days \cup {NoDay},
         lastDay <= day, day <= today, today' = today,
         streaks' = Streak(day, lastDay), doneOn' = doneOn \cup {day},
         raced' \in BOOLEAN, ~raced' => ~raced /\ lastDay = streaks.lastDay
  PROVE  StreaksFit' /\ streaks' \in [streak: Nat, longest: Nat, lastDay: Days \cup {NoDay}]
                     /\ streaks'.streak <= streaks'.longest
<1>1. PICK old : old = streaks
  OBVIOUS
<1>2. PICK new : new = streaks'
  OBVIOUS
<1>3. /\ old \in [streak: Nat, longest: Nat, lastDay: Days \cup {NoDay}]
      /\ old.streak <= old.longest
  BY <1>1 DEF QuizTypeOK
<1>4. /\ old.streak \in Nat /\ old.longest \in Nat /\ old.lastDay \in Int /\ day \in Int
      /\ lastDay \in Int /\ today \in Int /\ 0 <= day /\ old.lastDay \in Days \cup {NoDay}
  BY <1>3, QuizConstants DEF Days, NoDay, QuizTypeOK
<1>5. PICK next \in Nat : next = IF GoesOn(day, lastDay) THEN old.streak + 1 ELSE 1
  BY <1>4
<1>6. new = IF lastDay = day THEN old
            ELSE [streak |-> next, lastDay |-> day,
                  longest |-> IF next > old.longest THEN next ELSE old.longest]
  BY <1>1, <1>2, <1>5 DEF Streak
<1>7. new \in [streak: Nat, longest: Nat, lastDay: Days \cup {NoDay}]
  BY <1>3, <1>4, <1>5, <1>6
<1>8. new.streak <= new.longest
  BY <1>3, <1>4, <1>5, <1>6
<1>9. new.lastDay <= today
  <2>1. old.lastDay <= today
    BY <1>1 DEF StreaksFit
  <2> QED BY <1>4, <1>6, <2>1
<1>10. ASSUME ~raced'
       PROVE  /\ doneOn' # {} => \A d \in doneOn' : d <= new.lastDay
              /\ new.lastDay \in doneOn' \cup {NoDay}
              /\ {d \in Days : d <= new.lastDay /\ d > new.lastDay - new.streak}
                   \subseteq doneOn'
              /\ new.lastDay - new.streak \notin doneOn'
  <2>1. ~raced /\ lastDay = old.lastDay
    BY <1>1, <1>10
  <2>2. /\ \A d \in doneOn : d <= old.lastDay
        /\ old.lastDay \in doneOn \cup {NoDay}
        /\ \A d \in Days : d <= old.lastDay /\ d > old.lastDay - old.streak => d \in doneOn
        /\ old.lastDay - old.streak \notin doneOn
    BY <1>1, <2>1 DEF StreaksFit, StreakFollowsDays
  <2>3. \A d \in doneOn : d \in Int /\ d \in Days
    BY DEF QuizTypeOK, Days
  <2>4. CASE lastDay = day
    <3>1. day \in doneOn
      BY <1>4, <2>1, <2>2, <2>4 DEF NoDay
    <3>2. doneOn' = doneOn /\ new = old
      BY <1>6, <2>4, <3>1
    <3> QED BY <2>2, <3>2
  <2>5. CASE lastDay # day
    <3>1. lastDay < day /\ new.lastDay = day /\ new.streak = next
      BY <1>4, <1>6, <2>5
    <3>2. \A d \in doneOn' : d <= new.lastDay
      BY <1>4, <2>1, <2>2, <2>3, <3>1
    <3>3. CASE GoesOn(day, lastDay)
      <4>1. next = old.streak + 1 /\ old.lastDay = day - 1
        BY <1>5, <2>1, <3>3 DEF GoesOn
      <4>2. \A d \in Days : d <= day /\ d > day - next => d \in doneOn'
        <5> SUFFICES ASSUME NEW d \in Days, d <= day, d > day - next, d # day
                     PROVE  d \in doneOn
          OBVIOUS
        <5>1. d \in Int
          BY DEF Days
        <5> QED BY <1>4, <2>2, <4>1, <5>1
      <4>3. day - next = old.lastDay - old.streak /\ day - next # day
        BY <1>4, <4>1
      <4> QED BY <2>2, <3>1, <3>2, <4>2, <4>3
    <3>4. CASE ~GoesOn(day, lastDay)
      <4>1. next = 1 /\ lastDay < day - 1
        BY <1>4, <1>5, <3>1, <3>4 DEF GoesOn
      <4>2. \A d \in Days : d <= day /\ d > day - next => d \in doneOn'
        <5> SUFFICES ASSUME NEW d \in Days, d <= day, d > day - next
                     PROVE  d = day
          OBVIOUS
        <5>1. d \in Int
          BY DEF Days
        <5> QED BY <1>4, <4>1, <5>1
      <4>3. day - 1 \notin doneOn /\ day - 1 # day
        BY <1>4, <2>1, <2>2, <2>3, <4>1
      <4> QED BY <3>1, <3>2, <4>1, <4>2, <4>3
    <3> QED BY <3>3, <3>4
  <2> QED BY <2>4, <2>5
<1> QED BY <1>2, <1>4, <1>7, <1>8, <1>9, <1>10 DEF StreaksFit, StreakFollowsDays


\* A submission is committed.
LEMMA CommitFits ==
  ASSUME PlayInv, NEW c \in QuizCalls, SubmitCommit(c), UNCHANGED pageVars
  PROVE  PlayInv'
<1>1. PICK k : k = quizCall[c]
  OBVIOUS
<1>2. k.op = "answer" /\ k.read
  BY <1>1 DEF SubmitCommit
<1>3. k \in AnswerCalls
  BY <1>1, <1>2, CallIs DEF PlayInv, PageTypeOK
<1>4. /\ k.s \in Sessions /\ k.day \in Days /\ k.a \in Answer /\ k.seen \in Session
      /\ k.lastDay \in Days \cup {NoDay}
  BY <1>3 DEF AnswerCalls
<1>5. PICK s \in Sessions : s = k.s
  BY <1>4
<1>6. PICK old \in Session : old = session[s]
  BY DEF PlayInv, PageTypeOK, QuizTypeOK
<1>7. /\ k.a.q \in Questions /\ k.a.right \in BOOLEAN /\ k.a.at \in 1..MaxAnswers
      /\ k.seen.answers \subseteq Answer /\ k.seen.score \in Nat
      /\ old.answers \subseteq Answer /\ old.score \in Nat
      /\ old.status \in {"NONE", "IN_PROGRESS", "COMPLETED"}
  BY <1>4 DEF Session, Answer
<1>8. PICK after : after = k.seen.answers \cup {k.a}
  OBVIOUS
<1>9. PICK finished \in BOOLEAN : finished = (Queue(s, after) = << >>)
  OBVIOUS
<1>10. PICK score \in Nat : score = k.seen.score + IF k.a.right THEN 1 ELSE 0
  BY <1>7
<1>11. PICK new : new = [status |-> IF finished THEN "COMPLETED" ELSE old.status,
                         answers |-> old.answers \cup {k.a}, score |-> score]
  OBVIOUS
<1>12. PICK reply : reply = [op |-> "done", ok |-> TRUE, s |-> s,
                             seen |-> [status |-> IF finished THEN "COMPLETED"
                                                  ELSE k.seen.status,
                                       answers |-> after, score |-> score]]
  OBVIOUS
<1>13. new \in Session
  BY <1>4, <1>7, <1>10, <1>11 DEF Session
<1>14. session' = [session EXCEPT ![s] = new]
  <2>1. session' = [session EXCEPT ![s].answers = @ \cup {k.a},
                                   ![s].score = score,
                                   ![s].status = IF finished THEN "COMPLETED" ELSE @]
    BY <1>1, <1>5, <1>8, <1>9, <1>10 DEF SubmitCommit
  <2>2. session \in [Sessions -> Session]
    BY DEF PlayInv, PageTypeOK, QuizTypeOK
  <2>3. old = [status |-> old.status, answers |-> old.answers, score |-> old.score]
    BY <1>6 DEF Session
  <2>4. PICK mid1 : mid1 = [old EXCEPT !.answers = @ \cup {k.a}]
    OBVIOUS
  <2>5. PICK mid2 : mid2 = [mid1 EXCEPT !.score = score]
    OBVIOUS
  <2>6. new = [mid2 EXCEPT !.status = IF finished THEN "COMPLETED" ELSE @]
    <3>1. mid1 = [status |-> old.status, answers |-> old.answers \cup {k.a}, score |-> old.score]
      BY <2>3, <2>4
    <3>2. mid2 = [status |-> old.status, answers |-> old.answers \cup {k.a}, score |-> score]
      BY <2>5, <3>1
    <3> QED BY <1>11, <3>2
  <2>7. PICK f1 : f1 = [session EXCEPT ![s] = mid1]
    OBVIOUS
  <2>8. PICK f2 : f2 = [f1 EXCEPT ![s] = mid2]
    OBVIOUS
  <2>9. session' = [f2 EXCEPT ![s] = [f2[s] EXCEPT !.status = IF finished THEN "COMPLETED" ELSE @]]
    BY <1>6, <2>1, <2>2, <2>4, <2>5, <2>7, <2>8
  <2>10. f2[s] = mid2 /\ f2 = [session EXCEPT ![s] = mid2]
    BY <2>2, <2>7, <2>8
  <2> QED BY <2>2, <2>6, <2>9, <2>10
<1>15. paid' = [paid EXCEPT ![s] = @ + IF finished THEN 1 ELSE 0]
  BY <1>1, <1>5, <1>8, <1>9 DEF SubmitCommit
<1>16. quizCall' = [quizCall EXCEPT ![c] = reply]
  BY <1>1, <1>5, <1>8, <1>9, <1>10, <1>12 DEF SubmitCommit, Done
<1>17. UNCHANGED <<today, started>>
  BY DEF SubmitCommit
<1>18. raced' = (raced \/ k.seen # old \/ (finished /\ Type(s) = "DAILY"
                                           /\ k.lastDay # streaks.lastDay))
  BY <1>1, <1>5, <1>6, <1>8, <1>9 DEF SubmitCommit
<1>19. /\ streaks' = IF finished /\ Type(s) = "DAILY" THEN Streak(k.day, k.lastDay) ELSE streaks
       /\ doneOn' = IF finished /\ Type(s) = "DAILY" THEN doneOn \cup {k.day} ELSE doneOn
  BY <1>1, <1>5, <1>8, <1>9 DEF SubmitCommit
<1>20. /\ session \in [Sessions -> Session] /\ paid \in [Sessions -> Nat]
       /\ quizCall \in [QuizCalls -> {NoQuizCall} \cup Request \cup Reply]
       /\ today \in Days /\ started \in 0..MaxAnswers /\ raced \in BOOLEAN /\ doneOn \subseteq Days
  BY DEF PlayInv, PageTypeOK, QuizTypeOK
<1>21. /\ session' \in [Sessions -> Session] /\ session'[s] = new
       /\ \A t \in Sessions : t # s => session'[t] = session[t]
  BY <1>13, <1>14, <1>20
<1>22. /\ paid' \in [Sessions -> Nat] /\ paid'[s] = paid[s] + IF finished THEN 1 ELSE 0
       /\ \A t \in Sessions : t # s => paid'[t] = paid[t]
  BY <1>15, <1>20
<1>23. reply \in Reply
  BY <1>4, <1>5, <1>7, <1>8, <1>10, <1>12 DEF Reply, Session
<1>24. /\ quizCall' \in [QuizCalls -> {NoQuizCall} \cup Request \cup Reply]
       /\ quizCall'[c] = reply /\ \A d \in QuizCalls : d # c => quizCall'[d] = quizCall[d]
  BY <1>16, <1>20, <1>23
\* What the submission has seen.
<1>25. CallFits(k)
  BY <1>1 DEF PlayInv
<1>26. /\ k.a.at <= started /\ k.lastDay <= k.day /\ k.day <= today
       /\ \A t \in Sessions : \A a \in session[t].answers : a.at # k.a.at
       /\ Answerable(s, k.seen, k.a.q) /\ k.seen.answers \subseteq old.answers
  BY <1>2, <1>5, <1>6, <1>25 DEF CallFits
<1>27. SessionFits(s)
  BY DEF PlayInv
<1>28. /\ InTurn(old.answers)
       /\ \A a \in old.answers : a.q \in ToSet(Asked[Type(s)]) /\ a.at <= started
  BY <1>6, <1>27 DEF SessionFits
<1>29. InTurn(old.answers \cup {k.a}) /\ InTurn(after) /\ InTurn(k.seen.answers)
  BY <1>6, <1>8, <1>26, <1>28 DEF InTurn
<1>30. k.seen.status = "IN_PROGRESS" /\ Queue(s, k.seen.answers) # << >>
       /\ k.a.q = Head(Queue(s, k.seen.answers))
  BY <1>26 DEF Answerable
<1>31. k.a.q \in ToSet(Asked[Type(s)]) /\ k.a.q \notin Right(k.seen.answers)
  <2>1. Queue(s, k.seen.answers) \in Seq(Questions)
        /\ ToSet(Queue(s, k.seen.answers)) = ToSet(Asked[Type(s)]) \ Right(k.seen.answers)
    BY <1>7, <1>29, QueueIs
  <2>2. k.a.q \in ToSet(Queue(s, k.seen.answers))
    BY <1>30, <2>1, QueueEmpties
  <2> QED BY <2>1, <2>2
<1>32. after \subseteq Answer /\ after \subseteq old.answers \cup {k.a}
  BY <1>4, <1>7, <1>8, <1>26
<1>33. finished <=> ToSet(Asked[Type(s)]) \ Right(after) = {}
  <2>1. Queue(s, after) \in Seq(Questions)
        /\ ToSet(Queue(s, after)) = ToSet(Asked[Type(s)]) \ Right(after)
    BY <1>29, <1>32, QueueIs
  <2> QED BY <1>9, <2>1, QueueEmpties
<1>34. Right(old.answers \cup {k.a}) \subseteq ToSet(Asked[Type(s)])
  BY <1>28, <1>31 DEF Right
<1>35. Right(after) \subseteq Right(old.answers \cup {k.a})
       /\ Right(old.answers) \subseteq Right(old.answers \cup {k.a})
  BY <1>32 DEF Right
<1>36. paid[s] \in Nat
  BY <1>20
\* The session.
<1>37. SessionFits(s)'
  <2>1. \A a \in new.answers : a.q \in ToSet(Asked[Type(s)]) /\ a.at <= started
    BY <1>11, <1>26, <1>28, <1>31
  <2>2. new.status = "COMPLETED" =>
          Right(new.answers) = ToSet(Asked[Type(s)]) /\ paid'[s] > 0
    <3> SUFFICES ASSUME new.status = "COMPLETED"
                 PROVE  Right(new.answers) = ToSet(Asked[Type(s)]) /\ paid'[s] > 0
      OBVIOUS
    <3>1. CASE finished
      <4>1. new.answers = old.answers \cup {k.a}
        BY <1>11
      <4>2. ToSet(Asked[Type(s)]) \subseteq Right(new.answers)
        BY <1>33, <1>35, <3>1, <4>1
      <4>3. Right(new.answers) = ToSet(Asked[Type(s)])
        BY <1>34, <4>1, <4>2
      <4>4. paid'[s] = paid[s] + 1
        BY <1>22, <3>1
      <4> QED BY <1>36, <4>3, <4>4
    <3>2. CASE ~finished
      <4>1. old.status = "COMPLETED"
        BY <1>11, <3>2
      <4>2. Right(old.answers) = ToSet(Asked[Type(s)]) /\ paid[s] > 0
        BY <1>6, <1>27, <4>1 DEF SessionFits
      <4>3. Right(new.answers) = ToSet(Asked[Type(s)])
        <5>1. new.answers = old.answers \cup {k.a}
          BY <1>11
        <5>2. ToSet(Asked[Type(s)]) \subseteq Right(new.answers)
          BY <1>35, <4>2, <5>1
        <5> QED BY <1>34, <5>1, <5>2
      <4>4. paid'[s] > 0
        BY <1>22, <1>36, <3>2, <4>2
      <4> QED BY <4>3, <4>4
    <3> QED BY <3>1, <3>2
  <2>3. ASSUME ~raced'
        PROVE  /\ paid'[s] = IF new.status = "COMPLETED" THEN 1 ELSE 0
               /\ new.score = Cardinality(Right(new.answers))
               /\ new.status = "IN_PROGRESS" => Queue(s, new.answers) # << >>
    <3>1. ~raced /\ k.seen = old
      BY <1>18, <2>3
    <3>2. /\ paid[s] = IF old.status = "COMPLETED" THEN 1 ELSE 0
          /\ old.score = Cardinality(Right(old.answers))
      BY <1>6, <1>27, <3>1 DEF SessionFits
    <3>3. paid[s] = 0
      BY <1>30, <3>1, <3>2
    <3>4. paid'[s] = IF new.status = "COMPLETED" THEN 1 ELSE 0
      BY <1>11, <1>22, <1>30, <3>1, <3>3
    <3>5. new.answers = after
      BY <1>8, <1>11, <3>1
    <3>6. new.status = "IN_PROGRESS" => Queue(s, new.answers) # << >>
      BY <1>9, <1>11, <3>5
    <3>7. Right(old.answers) \subseteq ToSet(Asked[Type(s)]) /\ k.a.q \notin Right(old.answers)
      BY <1>31, <1>34, <1>35, <3>1
    <3>8. Cardinality(Right(old.answers \cup {k.a})) =
            Cardinality(Right(old.answers)) + IF k.a.right THEN 1 ELSE 0
      BY <1>7, <3>7, RightCounts
    <3>9. new.score = Cardinality(Right(new.answers))
      BY <1>10, <1>11, <3>1, <3>2, <3>8
    <3> QED BY <3>4, <3>6, <3>9
  <2>4. InTurn(new.answers)
    BY <1>11, <1>29
  <2> QED BY <1>17, <1>21, <2>1, <2>2, <2>3, <2>4 DEF SessionFits
<1>38. /\ started \in Int /\ started' \in Int /\ started <= started'
       /\ today' \in Int /\ today <= today'
  BY <1>17, <1>20, QuizConstants DEF Days
<1>39. \A t \in Sessions : SessionFits(t)'
  <2> SUFFICES ASSUME NEW t \in Sessions, t # s
               PROVE  SessionFits(t)'
    BY <1>37
  <2>1. SessionFits(t) /\ QuizTypeOK /\ (raced => raced')
    BY <1>18 DEF PlayInv, PageTypeOK
  <2> QED BY <1>21, <1>22, <1>38, <2>1, SessionStays
\* The requests.
<1>40. \A t \in Sessions :
         /\ session[t].answers \subseteq session'[t].answers
         /\ session[t].status = "COMPLETED" => session'[t].status = "COMPLETED"
         /\ \A a \in session'[t].answers \ session[t].answers : a = k.a
  BY <1>6, <1>11, <1>21
<1>41. \A d \in QuizCalls : CallFits(quizCall[d])'
  <2> SUFFICES ASSUME NEW d \in QuizCalls
               PROVE  CallFits(quizCall[d])'
    OBVIOUS
  <2>1. CASE d = c
    <3>1. reply.op = "done" /\ reply.s = s /\ reply.seen.status = "COMPLETED" => new.status = "COMPLETED"
      BY <1>11, <1>12, <1>30
    <3>2. reply.op # "answer" /\ reply.s = s
      BY <1>12
    <3> QED BY <1>21, <1>24, <2>1, <3>1, <3>2 DEF CallFits
  <2>2. CASE d # c
    <3>1. CallFits(quizCall[d]) /\ QuizTypeOK /\ quizCall'[d] = quizCall[d]
      BY <1>24, <2>2 DEF PlayInv, PageTypeOK
    <3>2. quizCall[d].op = "answer" => quizCall[d].a.at # k.a.at
      BY <1>1, <1>2, <2>2 DEF PlayInv, Apart
    <3> QED BY <1>38, <1>40, <3>1, <3>2, CallStays
  <2> QED BY <2>1, <2>2
<1>42. Apart'
  <2>1. reply.op # "answer"
    BY <1>12
  <2> QED BY <1>24, <2>1 DEF PlayInv, Apart
\* The page.
<1>43. PageFits'
  <2>1. \A d \in QuizCalls : quizCall[d].op \in {"answer", "done"} =>
          quizCall'[d].op \in {"answer", "done"} /\ quizCall'[d].s = quizCall[d].s
    BY <1>1, <1>5, <1>12, <1>24
  <2>2. PageTypeOK /\ PageFits
    BY DEF PlayInv
  <2> QED BY <1>40, <2>1, <2>2, PageStays
\* The streak.
<1>44. /\ StreaksFit' /\ streaks' \in [streak: Nat, longest: Nat, lastDay: Days \cup {NoDay}]
       /\ streaks'.streak <= streaks'.longest
  <2>1. CASE finished /\ Type(s) = "DAILY"
    <3>1. streaks' = Streak(k.day, k.lastDay) /\ doneOn' = doneOn \cup {k.day}
      BY <1>19, <2>1
    <3>2. raced' \in BOOLEAN /\ (~raced' => ~raced /\ k.lastDay = streaks.lastDay)
      BY <1>18, <1>20, <2>1
    <3>3. QuizTypeOK /\ StreaksFit
      BY DEF PlayInv, PageTypeOK
    <3> QED BY <1>4, <1>17, <1>26, <3>1, <3>2, <3>3, StreaksAfter
  <2>2. CASE ~(finished /\ Type(s) = "DAILY")
    <3>1. streaks' = streaks /\ doneOn' = doneOn /\ today' = today /\ (raced => raced')
      BY <1>17, <1>18, <1>19, <2>2
    <3> QED BY <3>1 DEF PlayInv, PageTypeOK, QuizTypeOK, StreaksFit, StreakFollowsDays
  <2> QED BY <2>1, <2>2
<1>45. PageTypeOK'
  <2>1. raced' \in BOOLEAN /\ doneOn' \subseteq Days
    BY <1>4, <1>18, <1>19, <1>20
  <2>2. QuizTypeOK'
    BY <1>17, <1>20, <1>21, <1>22, <1>24, <1>44, <2>1 DEF QuizTypeOK
  <2> QED BY <2>2 DEF PlayInv, PageTypeOK, pageVars
<1> QED BY <1>39, <1>41, <1>42, <1>43, <1>44, <1>45 DEF PlayInv


\* What holds while only requests come and go, or move on.
LEMMA CallsMove ==
  ASSUME PlayInv, NEW c \in QuizCalls,
         UNCHANGED <<today, session, paid, streaks, raced, doneOn>>,
         started' \in 0..MaxAnswers, started <= started',
         NEW k \in {NoQuizCall} \cup Request \cup Reply,
         quizCall' = [quizCall EXCEPT ![c] = k]
  PROVE  /\ QuizTypeOK' /\ StreaksFit' /\ \A s \in Sessions : SessionFits(s)'
         /\ \A d \in QuizCalls : d # c => quizCall'[d] = quizCall[d] /\ CallFits(quizCall[d])'
         /\ quizCall'[c] = k
<1>1. QuizTypeOK
  BY DEF PlayInv, PageTypeOK
<1>2. quizCall' \in [QuizCalls -> {NoQuizCall} \cup Request \cup Reply]
      /\ \A d \in QuizCalls : d # c => quizCall'[d] = quizCall[d]
  BY <1>1 DEF QuizTypeOK
<1>3. started' \in Int /\ started <= started' /\ today' \in Int /\ today <= today'
  BY <1>1, QuizConstants DEF QuizTypeOK, Days
<1>4. \A s \in Sessions : SessionFits(s)'
  BY <1>1, <1>3, SessionStays DEF PlayInv
<1>5. \A d \in QuizCalls : d # c => CallFits(quizCall[d])'
  BY <1>1, <1>2, <1>3, CallStays DEF PlayInv
<1>6. StreaksFit'
  BY DEF PlayInv, StreaksFit, StreakFollowsDays
<1>7. QuizTypeOK'
  BY <1>1, <1>2 DEF QuizTypeOK
<1>8. quizCall'[c] = k
  BY <1>1 DEF QuizTypeOK
<1> QED BY <1>2, <1>4, <1>5, <1>6, <1>7, <1>8

\* A request that is answered, lost or forgotten is no submission any more.
LEMMA CallEnds ==
  ASSUME PlayInv, NEW c \in QuizCalls,
         UNCHANGED <<today, session, started, paid, streaks, raced, doneOn>>,
         NEW k \in {NoQuizCall} \cup Request \cup Reply, k.op # "answer",
         k.op = "done" => k.seen.status # "COMPLETED",
         quizCall' = [quizCall EXCEPT ![c] = k]
  PROVE  /\ QuizTypeOK' /\ StreaksFit' /\ \A s \in Sessions : SessionFits(s)'
         /\ \A d \in QuizCalls : CallFits(quizCall[d])'
         /\ Apart'
<1>1. started' \in 0..MaxAnswers /\ started <= started'
  BY QuizConstants DEF PlayInv, PageTypeOK, QuizTypeOK
<1>2. /\ QuizTypeOK' /\ StreaksFit' /\ \A s \in Sessions : SessionFits(s)'
      /\ \A d \in QuizCalls : d # c => quizCall'[d] = quizCall[d] /\ CallFits(quizCall[d])'
      /\ quizCall'[c] = k
  BY <1>1, CallsMove
<1>3. CallFits(quizCall[c])'
  BY <1>2 DEF CallFits
<1>4. Apart'
  BY <1>2 DEF PlayInv, Apart
<1> QED BY <1>2, <1>3, <1>4

\* The page alone has moved.
LEMMA ServerRests ==
  ASSUME PlayInv, UNCHANGED quizVars
  PROVE  /\ QuizTypeOK' /\ StreaksFit' /\ \A s \in Sessions : SessionFits(s)'
         /\ \A d \in QuizCalls : CallFits(quizCall[d])'
         /\ Apart'
BY DEF PlayInv, PageTypeOK, QuizTypeOK, quizVars, StreaksFit, StreakFollowsDays, SessionFits,
       CallFits, Apart

\* A new submission.
LEMMA SubmitFits ==
  ASSUME PlayInv, NEW c \in QuizCalls, NEW right \in BOOLEAN, Submit(c, right)
  PROVE  PlayInv'
<1>1. page \in Sessions /\ shown.q \in Questions
  BY DEF Submit, PlayInv, PageTypeOK, Views
<1>2. PICK k : k = [op |-> "answer", s |-> page, day |-> today,
                    a |-> [q |-> shown.q, right |-> right, at |-> started'],
                    lastDay |-> streaks.lastDay, read |-> FALSE, seen |-> Absent]
  OBVIOUS
<1>3. /\ quizCall[c] = NoQuizCall /\ started < MaxAnswers /\ started' = started + 1
      /\ quizCall' = [quizCall EXCEPT ![c] = k]
      /\ UNCHANGED <<today, session, paid, streaks, raced, doneOn>>
  BY <1>2 DEF Submit, SubmitBegin
<1>4. QuizTypeOK /\ MaxAnswers \in Nat /\ started \in 0..MaxAnswers
  BY QuizConstants DEF PlayInv, PageTypeOK, QuizTypeOK
<1>5. started' \in 0..MaxAnswers /\ started <= started' /\ started' \in 1..MaxAnswers
  BY <1>3, <1>4
<1>6. k \in AnswerCalls
  <2>1. Absent \in Session
    BY DEF Absent, Session
  <2>2. k.a \in Answer
    BY <1>1, <1>2, <1>5 DEF Answer
  <2>3. today \in Days /\ streaks.lastDay \in Days \cup {NoDay}
    BY <1>4 DEF QuizTypeOK
  <2> QED BY <1>1, <1>2, <2>1, <2>2, <2>3 DEF AnswerCalls
<1>7. k \in {NoQuizCall} \cup Request \cup Reply
  BY <1>6 DEF Request, AnswerCalls
<1>8. /\ QuizTypeOK' /\ StreaksFit' /\ \A s \in Sessions : SessionFits(s)'
      /\ \A d \in QuizCalls : d # c => quizCall'[d] = quizCall[d] /\ CallFits(quizCall[d])'
      /\ quizCall'[c] = k
  BY <1>3, <1>5, <1>7, CallsMove
<1>9. \A t \in Sessions : \A a \in session[t].answers : a.at \in Int /\ a.at <= started
  <2> SUFFICES ASSUME NEW t \in Sessions, NEW a \in session[t].answers
               PROVE  a.at \in Int /\ a.at <= started
    OBVIOUS
  <2>1. a \in Answer
    BY <1>4 DEF QuizTypeOK, Session
  <2>2. a.at \in Int
    BY <1>4, <2>1 DEF Answer
  <2> QED BY <2>2 DEF PlayInv, SessionFits
<1>10. CallFits(quizCall[c])'
  <2>1. k.op = "answer" /\ k.a.at = started' /\ k.lastDay = streaks.lastDay /\ k.day = today
        /\ ~k.read
    BY <1>2
  <2>2. k.lastDay <= k.day /\ k.day <= today'
    BY <1>3, <1>4, <2>1, QuizConstants DEF PlayInv, StreaksFit, QuizTypeOK, Days
  <2>3. \A t \in Sessions : \A a \in session'[t].answers : a.at # k.a.at
    BY <1>3, <1>4, <1>9, <2>1
  <2>4. k.a.at <= started'
    BY <1>5, <2>1
  <2> QED BY <1>8, <2>1, <2>2, <2>3, <2>4 DEF CallFits
<1>11. Apart'
  <2>1. ASSUME NEW d \in QuizCalls, d # c, quizCall[d].op = "answer"
        PROVE  quizCall[d].a.at # started'
    <3>1. quizCall[d].a \in Answer
      BY <1>4, <2>1, CallIs DEF AnswerCalls
    <3>2. quizCall[d].a.at \in Int
      BY <1>4, <3>1 DEF Answer
    <3>3. quizCall[d].a.at <= started
      BY <2>1 DEF PlayInv, CallFits
    <3> QED BY <1>3, <1>4, <3>2, <3>3
  <2>2. k.a.at = started'
    BY <1>2
  <2> QED BY <1>8, <2>1, <2>2 DEF PlayInv, Apart
<1>12. UNCHANGED <<page, opened, resumed, shown, toast>> /\ pending' = c /\ page # NoOne
  BY DEF Submit
<1>13. PageTypeOK'
  BY <1>8, <1>12 DEF PlayInv, PageTypeOK
<1>14. PageFits'
  <2>1. quizCall'[pending'].op \in {"answer", "done"} /\ quizCall'[pending'].s = page
    BY <1>2, <1>8, <1>12
  <2> QED BY <1>3, <1>12, <2>1 DEF PlayInv, PageFits
<1>15. \A d \in QuizCalls : CallFits(quizCall[d])'
  BY <1>8, <1>10
<1> QED BY <1>8, <1>11, <1>13, <1>14, <1>15 DEF PlayInv


\* A submission reads its session, or is refused.
LEMMA ReadFits ==
  ASSUME PlayInv, NEW c \in QuizCalls, SubmitRead(c), UNCHANGED pageVars
  PROVE  PlayInv'
<1>1. PICK k : k = quizCall[c]
  OBVIOUS
<1>2. /\ k.op = "answer" /\ ~k.read
      /\ UNCHANGED <<today, session, started, paid, streaks, raced, doneOn>>
  BY <1>1 DEF SubmitRead
<1>3. QuizTypeOK /\ k \in AnswerCalls /\ k.s \in Sessions
  BY <1>1, <1>2, CallIs DEF PlayInv, PageTypeOK, AnswerCalls
<1>4. started' \in 0..MaxAnswers /\ started <= started'
  BY <1>2, <1>3, QuizConstants DEF QuizTypeOK
<1>5. CASE Answerable(k.s, session[k.s], k.a.q)
  <2>1. PICK r : r = [k EXCEPT !.read = TRUE, !.seen = session[k.s]]
    OBVIOUS
  <2>2. quizCall' = [quizCall EXCEPT ![c] = r]
    <3>1. quizCall' = [quizCall EXCEPT ![c].read = TRUE, ![c].seen = session[k.s]]
      BY <1>1, <1>5 DEF SubmitRead
    <3>2. quizCall \in [QuizCalls -> {NoQuizCall} \cup Request \cup Reply]
      BY <1>3 DEF QuizTypeOK
    <3>3. PICK f : f = [quizCall EXCEPT ![c] = [quizCall[c] EXCEPT !.read = TRUE]]
      OBVIOUS
    <3>4. f[c] = [k EXCEPT !.read = TRUE]
      BY <1>1, <3>2, <3>3
    <3>5. quizCall' = [f EXCEPT ![c] = [f[c] EXCEPT !.seen = session[k.s]]]
      BY <3>1, <3>3
    <3>6. quizCall' = [quizCall EXCEPT ![c] = [f[c] EXCEPT !.seen = session[k.s]]]
      BY <3>2, <3>3, <3>5
    <3> QED BY <2>1, <3>4, <3>6
  <2>3. session[k.s] \in Session
    BY <1>3 DEF QuizTypeOK
  <2>4. /\ r.op = "answer" /\ r.s = k.s /\ r.day = k.day /\ r.a = k.a /\ r.lastDay = k.lastDay
        /\ r.read /\ r.seen = session[k.s] /\ r \in AnswerCalls
    BY <1>3, <2>1, <2>3 DEF AnswerCalls
  <2>5. r \in {NoQuizCall} \cup Request \cup Reply
    BY <2>4 DEF Request, AnswerCalls
  <2>6. /\ QuizTypeOK' /\ StreaksFit' /\ \A s \in Sessions : SessionFits(s)'
        /\ \A d \in QuizCalls : d # c => quizCall'[d] = quizCall[d] /\ CallFits(quizCall[d])'
        /\ quizCall'[c] = r
    BY <1>2, <1>4, <2>2, <2>5, CallsMove
  <2>7. CallFits(k)
    BY <1>1 DEF PlayInv
  <2>8. Answerable(r.s, r.seen, r.a.q)'
    BY <1>5, <2>4 DEF Answerable
  <2>9. CallFits(quizCall[c])'
    <3>1. r.op # "done" /\ r.a.at <= started /\ r.lastDay <= r.day /\ r.day <= today
      BY <1>2, <2>4, <2>7 DEF CallFits
    <3>2. \A s \in Sessions : \A a \in session[s].answers : a.at # r.a.at
      BY <1>2, <2>4, <2>7 DEF CallFits
    <3>3. r.seen.answers \subseteq session[r.s].answers /\ Answerable(r.s, r.seen, r.a.q)
      BY <1>5, <2>4
    <3> QED BY <1>2, <2>6, <3>1, <3>2, <3>3 DEF CallFits, Answerable
  <2>10. Apart'
    BY <1>1, <1>2, <2>4, <2>6 DEF PlayInv, Apart
  <2>11. PageFits'
    <3>1. \A d \in QuizCalls : quizCall[d].op \in {"answer", "done"} =>
            quizCall'[d].op \in {"answer", "done"} /\ quizCall'[d].s = quizCall[d].s
      BY <1>1, <2>4, <2>6
    <3>2. PageTypeOK /\ PageFits
      BY DEF PlayInv
    <3>3. \A s \in Sessions : session[s].status = "COMPLETED" => session'[s].status = "COMPLETED"
      BY <1>2
    <3> QED BY <3>1, <3>2, <3>3, PageStays
  <2>12. PageTypeOK'
    BY <2>6 DEF PlayInv, PageTypeOK, pageVars
  <2>13. \A d \in QuizCalls : CallFits(quizCall[d])'
    BY <2>6, <2>9
  <2> QED BY <2>6, <2>10, <2>11, <2>12, <2>13 DEF PlayInv
<1>6. CASE ~Answerable(k.s, session[k.s], k.a.q)
  <2>1. PICK r : r = [op |-> "done", ok |-> FALSE, s |-> k.s, seen |-> Absent]
    OBVIOUS
  <2>2. quizCall' = [quizCall EXCEPT ![c] = r]
    BY <1>1, <1>6, <2>1 DEF SubmitRead, Done
  <2>3. r \in {NoQuizCall} \cup Request \cup Reply
    BY <1>3, <2>1 DEF Reply, Absent, Session
  <2>4. r.op = "done" /\ r.seen.status # "COMPLETED" /\ r.s = k.s
    BY <2>1 DEF Absent
  <2>5. /\ QuizTypeOK' /\ StreaksFit' /\ \A s \in Sessions : SessionFits(s)'
        /\ \A d \in QuizCalls : CallFits(quizCall[d])'
        /\ Apart'
    BY <1>2, <2>2, <2>3, <2>4, CallEnds
  <2>6. PageFits'
    <3>1. \A d \in QuizCalls : quizCall[d].op \in {"answer", "done"} =>
            quizCall'[d].op \in {"answer", "done"} /\ quizCall'[d].s = quizCall[d].s
      BY <1>1, <1>3, <2>2, <2>4 DEF QuizTypeOK
    <3>2. PageTypeOK /\ PageFits
      BY DEF PlayInv
    <3>3. \A s \in Sessions : session[s].status = "COMPLETED" => session'[s].status = "COMPLETED"
      BY <1>2
    <3> QED BY <3>1, <3>2, <3>3, PageStays
  <2>7. PageTypeOK'
    BY <2>5 DEF PlayInv, PageTypeOK, pageVars
  <2> QED BY <2>5, <2>6, <2>7 DEF PlayInv
<1> QED BY <1>5, <1>6

\* A call that ends without an answer.
LEMMA FailFits ==
  ASSUME PlayInv, NEW c \in QuizCalls, Fail(c), UNCHANGED pageVars
  PROVE  PlayInv'
<1>1. UNCHANGED <<today, session, started, paid, streaks, raced, doneOn>>
      /\ quizCall[c].op \in {"create", "answer"}
  BY DEF Fail
<1>2. QuizTypeOK
  BY DEF PlayInv, PageTypeOK
<1>3. PICK r : /\ r = IF quizCall[c].op = "create" THEN NoQuizCall
                      ELSE [op |-> "done", ok |-> FALSE, s |-> quizCall[c].s, seen |-> Absent]
               /\ quizCall' = [quizCall EXCEPT ![c] = r]
  BY DEF Fail, Done
<1>4. r \in {NoQuizCall} \cup Request \cup Reply
  <2>1. quizCall[c].op = "answer" => quizCall[c].s \in Sessions
    BY <1>2, CallIs DEF AnswerCalls
  <2> QED BY <1>1, <1>3, <2>1 DEF Reply, Absent, Session
<1>5. r.op # "answer" /\ (r.op = "done" => r.seen.status # "COMPLETED")
  BY <1>3 DEF NoQuizCall, Absent
<1>6. /\ QuizTypeOK' /\ StreaksFit' /\ \A s \in Sessions : SessionFits(s)'
      /\ \A d \in QuizCalls : CallFits(quizCall[d])'
      /\ Apart'
  BY <1>1, <1>3, <1>4, <1>5, CallEnds
<1>7. PageFits'
  <2>1. \A d \in QuizCalls : quizCall[d].op \in {"answer", "done"} =>
          quizCall'[d].op \in {"answer", "done"} /\ quizCall'[d].s = quizCall[d].s
    BY <1>1, <1>2, <1>3 DEF QuizTypeOK
  <2>2. PageTypeOK /\ PageFits
    BY DEF PlayInv
  <2>3. \A s \in Sessions : session[s].status = "COMPLETED" => session'[s].status = "COMPLETED"
    BY <1>1
  <2> QED BY <2>1, <2>2, <2>3, PageStays
<1>8. PageTypeOK'
  BY <1>6 DEF PlayInv, PageTypeOK, pageVars
<1> QED BY <1>6, <1>7, <1>8 DEF PlayInv

\* The read of a creation.
LEMMA CreateReadFits ==
  ASSUME PlayInv, NEW c \in QuizCalls, NEW type \in DOMAIN Asked, CreateRead(c, type),
         UNCHANGED pageVars
  PROVE  PlayInv'
<1>1. quizCall[c] = NoQuizCall /\ UNCHANGED <<today, session, started, paid, streaks, raced, doneOn>>
  BY DEF CreateRead
<1>2. QuizTypeOK /\ today \in Days
  BY DEF PlayInv, PageTypeOK, QuizTypeOK
<1>3. PICK r : /\ r = [op |-> "create", old |-> FALSE,
                       s |-> IF type = "DAILY" THEN <<type, today>> ELSE <<type, Latest + 1>>]
               /\ quizCall' = [quizCall EXCEPT ![c] = r]
  BY DEF CreateRead
<1>4. r.s \in Sessions
  <2>1. type \in {"DAILY", "TOPIC"}
    BY QuizConstants
  <2>2. type = "TOPIC" => Latest + 1 \in 1..MaxTopics
    <3>1. type = "TOPIC" => Latest < MaxTopics
      BY DEF CreateRead
    <3> QED BY <3>1, LatestIs, QuizConstants
  <2> QED BY <1>2, <1>3, <2>1, <2>2 DEF Sessions
<1>5. r \in {NoQuizCall} \cup Request \cup Reply
  BY <1>3, <1>4 DEF Request
<1>6. r.op = "create"
  BY <1>3
<1>7. /\ QuizTypeOK' /\ StreaksFit' /\ \A s \in Sessions : SessionFits(s)'
      /\ \A d \in QuizCalls : CallFits(quizCall[d])'
      /\ Apart'
  BY <1>1, <1>3, <1>5, <1>6, CallEnds
<1>8. PageFits'
  <2>1. \A d \in QuizCalls : quizCall[d].op \in {"answer", "done"} =>
          quizCall'[d].op \in {"answer", "done"} /\ quizCall'[d].s = quizCall[d].s
    BY <1>1, <1>2, <1>3 DEF QuizTypeOK, NoQuizCall
  <2>2. PageTypeOK /\ PageFits
    BY DEF PlayInv
  <2>3. \A s \in Sessions : session[s].status = "COMPLETED" => session'[s].status = "COMPLETED"
    BY <1>1
  <2> QED BY <2>1, <2>2, <2>3, PageStays
<1>9. PageTypeOK'
  BY <1>7 DEF PlayInv, PageTypeOK, pageVars
<1> QED BY <1>7, <1>8, <1>9 DEF PlayInv

\* A session is created: all its questions are queued.
LEMMA CreateFits ==
  ASSUME PlayInv, NEW c \in QuizCalls, CreateCommit(c), UNCHANGED pageVars
  PROVE  PlayInv'
<1>1. /\ quizCall[c].op = "create" /\ quizCall' = [quizCall EXCEPT ![c] = NoQuizCall]
      /\ UNCHANGED <<today, started, paid, streaks, raced, doneOn>>
  BY DEF CreateCommit
<1>2. QuizTypeOK
  BY DEF PlayInv, PageTypeOK
<1>3. PICK new : new = [status |-> "IN_PROGRESS", answers |-> {}, score |-> 0]
  OBVIOUS
<1>4. /\ new \in Session /\ Absent \in Session /\ new.status = "IN_PROGRESS"
      /\ new.answers = {} /\ new.score = 0
      /\ Absent.answers = {} /\ Absent.score = 0 /\ Absent.status = "NONE"
      /\ new = [Absent EXCEPT !.status = "IN_PROGRESS"]
  BY <1>3 DEF Session, Absent
<1>5. \/ session' = session
      \/ \E s \in Sessions : session[s] = Absent /\ session' = [session EXCEPT ![s] = new]
  <2>1. PICK s : session' = IF s \in Sessions /\ session[s] = Absent
                            THEN [session EXCEPT ![s].status = "IN_PROGRESS"]
                            ELSE session
    BY DEF CreateCommit
  <2>2. session[s] = Absent => [session EXCEPT ![s].status = "IN_PROGRESS"] =
                               [session EXCEPT ![s] = new]
    BY <1>4
  <2> QED BY <2>1, <2>2
<1>6. /\ session \in [Sessions -> Session] /\ session' \in [Sessions -> Session]
      /\ \A t \in Sessions : session'[t] = session[t] \/ (session[t] = Absent /\ session'[t] = new)
  BY <1>2, <1>4, <1>5 DEF QuizTypeOK
<1>7. quizCall' \in [QuizCalls -> {NoQuizCall} \cup Request \cup Reply]
      /\ quizCall'[c] = NoQuizCall /\ \A d \in QuizCalls : d # c => quizCall'[d] = quizCall[d]
  BY <1>1, <1>2 DEF QuizTypeOK
<1>8. QuizTypeOK'
  BY <1>1, <1>2, <1>6, <1>7 DEF QuizTypeOK
<1>9. /\ started \in Int /\ started' \in Int /\ started <= started'
      /\ today' \in Int /\ today <= today'
  BY <1>1, <1>2, QuizConstants DEF QuizTypeOK, Days
<1>10. \A t \in Sessions : SessionFits(t)'
  <2> SUFFICES ASSUME NEW t \in Sessions
               PROVE  SessionFits(t)'
    OBVIOUS
  <2>1. SessionFits(t)
    BY DEF PlayInv
  <2>2. CASE session'[t] = session[t]
    BY <1>1, <1>2, <1>9, <2>1, <2>2, SessionStays
  <2>3. CASE session[t] = Absent /\ session'[t] = new
    <3>1. Right({}) = {} /\ Cardinality(Right({})) = 0 /\ InTurn({})
      <4>1. Right({}) = {} /\ InTurn({})
        BY DEF Right, InTurn
      <4> QED BY <4>1, FS_EmptySet
    <3>2. Queue(t, {}) # << >>
      <4>1. {} \subseteq Answer
        OBVIOUS
      <4>2. Queue(t, {}) \in Seq(Questions)
            /\ ToSet(Queue(t, {})) = ToSet(Asked[Type(t)]) \ Right({})
        BY <3>1, <4>1, QueueIs
      <4>3. ToSet(Queue(t, {})) # {}
        BY <3>1, <4>2, AskedIs
      <4> QED BY <4>2, <4>3, QueueEmpties
    <3>3. ~raced => paid[t] = 0
      BY <1>4, <2>1, <2>3 DEF SessionFits
    <3> QED BY <1>1, <1>4, <2>3, <3>1, <3>2, <3>3 DEF SessionFits
  <2> QED BY <1>6, <2>2, <2>3
<1>11. \A t \in Sessions :
         /\ session[t].answers \subseteq session'[t].answers
         /\ session[t].status = "COMPLETED" => session'[t].status = "COMPLETED"
         /\ session'[t].answers \ session[t].answers = {}
  BY <1>4, <1>6
<1>12. \A d \in QuizCalls : CallFits(quizCall[d])'
  <2> SUFFICES ASSUME NEW d \in QuizCalls
               PROVE  CallFits(quizCall[d])'
    OBVIOUS
  <2>1. CASE d = c
    BY <1>7, <2>1 DEF CallFits, NoQuizCall
  <2>2. CASE d # c
    <3>1. CallFits(quizCall[d]) /\ quizCall'[d] = quizCall[d]
      BY <1>7, <2>2 DEF PlayInv
    <3> QED BY <1>2, <1>9, <1>11, <3>1, CallStays
  <2> QED BY <2>1, <2>2
<1>13. Apart'
  BY <1>7 DEF PlayInv, Apart, NoQuizCall
<1>14. StreaksFit'
  BY <1>1 DEF PlayInv, StreaksFit, StreakFollowsDays
<1>15. PageFits'
  <2>1. \A d \in QuizCalls : quizCall[d].op \in {"answer", "done"} =>
          quizCall'[d].op \in {"answer", "done"} /\ quizCall'[d].s = quizCall[d].s
    BY <1>1, <1>7
  <2>2. PageTypeOK /\ PageFits
    BY DEF PlayInv
  <2> QED BY <1>11, <2>1, <2>2, PageStays
<1>16. PageTypeOK'
  BY <1>8 DEF PlayInv, PageTypeOK, pageVars
<1> QED BY <1>10, <1>12, <1>13, <1>14, <1>15, <1>16 DEF PlayInv

\* The day ends.
LEMMA MidnightFits ==
  ASSUME PlayInv, Midnight, UNCHANGED pageVars
  PROVE  PlayInv'
<1>1. /\ today < MaxDay /\ today' = today + 1
      /\ UNCHANGED <<session, started, paid, streaks, quizCall, raced, doneOn>>
  BY DEF Midnight
<1>2. QuizTypeOK /\ today \in Days /\ today' \in Days /\ today' \in Int /\ today \in Int
      /\ today <= today' /\ started' \in Int /\ started <= started'
  BY <1>1, QuizConstants DEF PlayInv, PageTypeOK, QuizTypeOK, Days
<1>3. QuizTypeOK'
  BY <1>1, <1>2 DEF QuizTypeOK
<1>4. \A s \in Sessions : SessionFits(s)'
  BY <1>1, <1>2, SessionStays DEF PlayInv
<1>5. \A d \in QuizCalls : CallFits(quizCall[d])'
  BY <1>1, <1>2, CallStays DEF PlayInv
<1>6. StreaksFit'
  <2>1. streaks.lastDay <= today'
    <3>1. streaks.lastDay \in Int
      BY <1>2 DEF QuizTypeOK, Days, NoDay
    <3> QED BY <1>1, <1>2, <3>1 DEF PlayInv, StreaksFit
  <2> QED BY <1>1, <2>1 DEF PlayInv, StreaksFit, StreakFollowsDays
<1>7. Apart' /\ PageFits'
  BY <1>1 DEF PlayInv, Apart, PageFits, pageVars
<1>8. PageTypeOK'
  BY <1>3 DEF PlayInv, PageTypeOK, pageVars
<1> QED BY <1>3, <1>4, <1>5, <1>6, <1>7, <1>8 DEF PlayInv

\* A reply that is taken, or not waited for.
LEMMA ReplyFits ==
  ASSUME PlayInv, NEW c \in QuizCalls, TakeReply(c) \/ Forget(c)
  PROVE  PlayInv'
<1>1. PICK k : k = quizCall[c]
  OBVIOUS
<1>2. /\ k.op = "done" /\ quizCall' = [quizCall EXCEPT ![c] = NoQuizCall]
      /\ UNCHANGED <<today, session, started, paid, streaks, raced, doneOn>>
      /\ UNCHANGED <<page, opened, resumed, shown>>
  BY <1>1 DEF TakeReply, Forget, pageVars
<1>3. QuizTypeOK /\ k \in Reply
  BY <1>1, <1>2, CallIs DEF PlayInv, PageTypeOK
<1>4. /\ QuizTypeOK' /\ StreaksFit' /\ \A s \in Sessions : SessionFits(s)'
      /\ \A d \in QuizCalls : CallFits(quizCall[d])'
      /\ Apart'
  <2>1. NoQuizCall.op = "none" /\ NoQuizCall \in {NoQuizCall} \cup Request \cup Reply
    BY DEF NoQuizCall
  <2> QED BY <1>2, <2>1, CallEnds
<1>5. \A d \in QuizCalls : d # c => quizCall'[d] = quizCall[d]
  BY <1>2, <1>3 DEF QuizTypeOK
<1>6. PageFits /\ PageTypeOK
  BY DEF PlayInv
<1>7. CASE Forget(c)
  <2>1. pending # c /\ UNCHANGED <<pending, toast>>
    BY <1>7 DEF Forget, pageVars
  <2>2. PageFits'
    BY <1>2, <1>5, <1>6, <2>1 DEF PageFits, PageTypeOK
  <2>3. PageTypeOK'
    BY <1>2, <1>4, <1>6, <2>1 DEF PageTypeOK
  <2> QED BY <1>4, <2>2, <2>3 DEF PlayInv
<1>8. CASE TakeReply(c)
  <2>1. /\ pending = c /\ pending' = NoOne
        /\ toast' = IF k.ok THEN View(k.s, k.seen) ELSE NoOne
    BY <1>1, <1>8 DEF TakeReply
  <2>2. c # NoOne /\ page # NoOne /\ k.s = page
    BY <1>1, <1>6, <2>1, PageConstants DEF PageFits
  <2>3. k.s \in Sessions /\ k.seen \in Session
    BY <1>3 DEF Reply
  <2>4. View(k.s, k.seen) \in Views /\ View(k.s, k.seen).status = k.seen.status
    BY <2>3, ViewTyped
  <2>5. PageTypeOK'
    BY <1>2, <1>4, <1>6, <2>1, <2>4 DEF PageTypeOK
  <2>6. k.seen.status = "COMPLETED" => session[page].status = "COMPLETED"
    BY <1>1, <1>2, <2>2 DEF PlayInv, CallFits
  <2>7. toast' # NoOne /\ toast'.status = "COMPLETED" => session'[page'].status = "COMPLETED"
    BY <1>2, <2>1, <2>4, <2>6
  <2>8. PageFits'
    BY <1>2, <1>6, <2>1, <2>2, <2>7 DEF PageFits
  <2> QED BY <1>4, <2>5, <2>8 DEF PlayInv
<1> QED BY <1>7, <1>8

\* The page loads, goes on or is left.
LEMMA PageTurns ==
  ASSUME PlayInv,
         \/ \E s \in Sessions : Open(s)
         \/ ServeLoad \/ TakeLoad \/ ResumeFails \/ Retry \/ Advance \/ LeavePage
  PROVE  PlayInv'
<1>1. UNCHANGED quizVars
  BY DEF Open, ServeLoad, TakeLoad, ResumeFails, Retry, Advance, LeavePage
<1>2. /\ QuizTypeOK' /\ StreaksFit' /\ \A s \in Sessions : SessionFits(s)'
      /\ \A d \in QuizCalls : CallFits(quizCall[d])'
      /\ Apart'
  BY <1>1, ServerRests
<1>3. session' = session /\ quizCall' = quizCall
  BY <1>1 DEF quizVars
<1>4. PageFits /\ PageTypeOK /\ session \in [Sessions -> Session]
  BY DEF PlayInv, PageTypeOK, QuizTypeOK
<1>5. NotLoaded \in Views /\ NotLoaded.status = "NONE" /\ NotLoaded.q = NoOne
  BY DEF NotLoaded, Views
<1>6. NoOne \notin Views /\ NoOne \notin Sessions /\ NotLoaded # NoOne
  BY <1>5, PageConstants
<1>7. PageTypeOK' /\ PageFits'
  <2>1. ASSUME NEW s \in Sessions, Open(s)
        PROVE  PageTypeOK' /\ PageFits'
    <3>1. /\ page = NoOne /\ opened < MaxOpened /\ page' = s /\ opened' = opened + 1
          /\ resumed' = NotLoaded /\ UNCHANGED <<shown, pending, toast>>
      BY <2>1 DEF Open
    <3>2. opened' \in 0..MaxOpened
      BY <1>4, <3>1, PageConstants DEF PageTypeOK
    <3>3. shown = NotLoaded /\ pending = NoOne /\ toast = NoOne
      BY <1>4, <3>1 DEF PageFits
    <3> QED BY <1>2, <1>4, <1>5, <1>6, <3>1, <3>2, <3>3 DEF PageTypeOK, PageFits
  <2>2. CASE ServeLoad
    <3>1. /\ resumed = NotLoaded /\ resumed' = View(page, session[page])
          /\ UNCHANGED <<page, opened, shown, pending, toast>>
      BY <2>2 DEF ServeLoad
    <3>2. page \in Sessions
      BY <1>4, <1>6, <3>1 DEF PageFits, PageTypeOK
    <3>3. View(page, session[page]) \in Views
          /\ View(page, session[page]).status = session[page].status
      BY <1>4, <3>2, ViewTyped
    <3>4. page # NoOne
      BY <1>6, <3>2
    <3> QED BY <1>2, <1>3, <1>4, <3>1, <3>3, <3>4 DEF PageTypeOK, PageFits
  <2>3. CASE TakeLoad
    <3>1. /\ resumed \notin {NoOne, NotLoaded} /\ shown' = resumed /\ resumed' = NoOne
          /\ UNCHANGED <<page, opened, pending, toast>>
      BY <2>3 DEF TakeLoad
    <3> QED BY <1>2, <1>3, <1>4, <3>1 DEF PageTypeOK, PageFits
  <2>4. CASE ResumeFails
    <3>1. resumed' = NoOne /\ UNCHANGED <<page, opened, shown, pending, toast>>
      BY <2>4 DEF ResumeFails
    <3> QED BY <1>2, <1>3, <1>4, <3>1 DEF PageTypeOK, PageFits, NotLoaded
  <2>5. CASE Retry
    <3>1. page # NoOne /\ resumed' = NotLoaded /\ UNCHANGED <<page, opened, shown, pending, toast>>
      BY <2>5 DEF Retry
    <3> QED BY <1>2, <1>3, <1>4, <1>5, <3>1 DEF PageTypeOK, PageFits
  <2>6. CASE Advance
    <3>1. /\ toast # NoOne /\ toast' = NoOne /\ shown' = toast
          /\ UNCHANGED <<page, opened, resumed, pending>>
      BY <2>6 DEF Advance
    <3> QED BY <1>2, <1>3, <1>4, <3>1 DEF PageTypeOK, PageFits
  <2>7. CASE LeavePage
    <3>1. /\ page' = NoOne /\ resumed' = NoOne /\ shown' = NotLoaded /\ pending' = NoOne
          /\ toast' = NoOne /\ opened' = opened
      BY <2>7 DEF LeavePage
    <3>2. NotLoaded' = NotLoaded
      BY DEF NotLoaded
    <3> QED BY <1>2, <1>4, <1>5, <3>1, <3>2 DEF PageTypeOK, PageFits
  <2> QED BY <2>1, <2>2, <2>3, <2>4, <2>5, <2>6, <2>7
<1> QED BY <1>2, <1>7 DEF PlayInv

-----------------------------------------------------------------------------
\* No session, no page and no day before the first.
LEMMA PlayStarts == PlayInit => PlayInv
<1> SUFFICES ASSUME PlayInit
             PROVE  PlayInv
  OBVIOUS
<1>1. Absent \in Session /\ Absent.answers = {} /\ Absent.score = 0 /\ Absent.status = "NONE"
  BY DEF Absent, Session
<1>2. today \in Days /\ started \in 0..MaxAnswers /\ today = 0 /\ MaxOpened \in Nat
  BY QuizConstants, PageConstants DEF PlayInit, QuizInit, Days
<1>3. streaks \in [streak: Nat, longest: Nat, lastDay: Days \cup {NoDay}]
      /\ streaks.streak = 0 /\ streaks.longest = 0 /\ streaks.lastDay = -2
  BY DEF PlayInit, QuizInit, NoDay
<1>4. quizCall \in [QuizCalls -> {NoQuizCall} \cup Request \cup Reply]
  BY DEF PlayInit, QuizInit
<1>5. QuizTypeOK
  <2>1. session \in [Sessions -> Session] /\ paid \in [Sessions -> Nat]
    BY <1>1 DEF PlayInit, QuizInit
  <2>2. raced \in BOOLEAN /\ doneOn \subseteq Days
    BY DEF PlayInit, QuizInit
  <2> QED BY <1>2, <1>3, <1>4, <2>1, <2>2 DEF QuizTypeOK
<1>6. NotLoaded \in Views /\ NotLoaded.status = "NONE"
  BY DEF NotLoaded, Views
<1>7. PageTypeOK
  BY <1>2, <1>5, <1>6 DEF PlayInit, PageTypeOK
<1>8. \A s \in Sessions : SessionFits(s)
  <2> SUFFICES ASSUME NEW s \in Sessions
               PROVE  SessionFits(s)
    OBVIOUS
  <2>1. session[s] = Absent /\ paid[s] = 0
    BY DEF PlayInit, QuizInit
  <2>2. Right({}) = {} /\ InTurn({})
    BY DEF Right, InTurn
  <2>3. Cardinality({}) = 0
    BY FS_EmptySet
  <2> QED BY <1>1, <2>1, <2>2, <2>3 DEF SessionFits
<1>9. (\A c \in QuizCalls : CallFits(quizCall[c])) /\ Apart
  BY DEF PlayInit, QuizInit, NoQuizCall, CallFits, Apart
<1>10. PageFits
  BY <1>6 DEF PlayInit, PageFits
<1>11. StreaksFit
  <2>1. doneOn = {} /\ ~raced
    BY DEF PlayInit, QuizInit
  <2>2. \A d \in Days : d \in Int /\ 0 <= d
    BY DEF Days
  <2>3. streaks.lastDay <= today
    BY <1>2, <1>3
  <2>4. {d \in Days : /\ d <= streaks.lastDay
                     /\ d > streaks.lastDay - streaks.streak} \subseteq doneOn
    BY <1>3, <2>2
  <2>5. streaks.lastDay \in doneOn \cup {NoDay}
    BY <1>3 DEF NoDay
  <2> QED BY <2>1, <2>3, <2>4, <2>5 DEF StreaksFit, StreakFollowsDays
<1> QED BY <1>7, <1>8, <1>9, <1>10, <1>11 DEF PlayInv

\* Every step keeps the invariant.
LEMMA PlayGoesOn == PlayInv /\ [PlayNext]_playVars => PlayInv'
<1> SUFFICES ASSUME PlayInv, [PlayNext]_playVars
             PROVE  PlayInv'
  OBVIOUS
<1>1. CASE Serve
  <2>1. UNCHANGED pageVars /\ QuizServer
    BY <1>1 DEF Serve
  <2>2. CASE Midnight
    BY <2>1, <2>2, MidnightFits
  <2>3. ASSUME NEW c \in QuizCalls, NEW type \in DOMAIN Asked, CreateRead(c, type)
        PROVE  PlayInv'
    BY <2>1, <2>3, CreateReadFits
  <2>4. ASSUME NEW c \in QuizCalls, CreateCommit(c)
        PROVE  PlayInv'
    BY <2>1, <2>4, CreateFits
  <2>5. ASSUME NEW c \in QuizCalls, SubmitRead(c)
        PROVE  PlayInv'
    BY <2>1, <2>5, ReadFits
  <2>6. ASSUME NEW c \in QuizCalls, SubmitCommit(c)
        PROVE  PlayInv'
    BY <2>1, <2>6, CommitFits
  <2> QED BY <2>1, <2>2, <2>3, <2>4, <2>5, <2>6 DEF QuizServer
<1>2. CASE \/ \E s \in Sessions : Open(s)
           \/ ServeLoad \/ TakeLoad \/ ResumeFails \/ Retry \/ Advance \/ LeavePage
  BY <1>2, PageTurns
<1>3. ASSUME NEW c \in QuizCalls, TakeReply(c) \/ Forget(c)
      PROVE  PlayInv'
  BY <1>3, ReplyFits
<1>4. ASSUME NEW c \in QuizCalls, LoseCall(c)
      PROVE  PlayInv'
  BY <1>4, FailFits DEF LoseCall
<1>5. ASSUME NEW c \in QuizCalls, NEW right \in BOOLEAN, Submit(c, right)
      PROVE  PlayInv'
  BY <1>5, SubmitFits
<1>6. CASE UNCHANGED playVars
  <2>1. UNCHANGED quizVars /\ UNCHANGED pageVars
    BY <1>6 DEF playVars
  <2>2. /\ QuizTypeOK' /\ StreaksFit' /\ \A s \in Sessions : SessionFits(s)'
        /\ \A d \in QuizCalls : CallFits(quizCall[d])'
        /\ Apart'
    BY <2>1, ServerRests
  <2>3. PageTypeOK' /\ PageFits'
    BY <2>1, <2>2 DEF PlayInv, PageTypeOK, PageFits, pageVars, quizVars
  <2> QED BY <2>2, <2>3 DEF PlayInv
<1> QED BY <1>1, <1>2, <1>3, <1>4, <1>5, <1>6 DEF PlayNext

\* The quiz and its page keep their types.
THEOREM PageTyped == PlaySpec => []PageTypeOK
<1>1. PlayInv => PageTypeOK
  BY DEF PlayInv
<1> QED BY <1>1, PlayStarts, PlayGoesOn, PTL DEF PlaySpec

\* A quiz ends rightly, is settled once and counts for its day, whatever is
\* asked, however many requests there are and in whatever order they run.
THEOREM QuizIsFairAlways == PlaySpec => []QuizIsFair
BY PlayIsFair, PlayStarts, PlayGoesOn, PTL DEF PlaySpec

-----------------------------------------------------------------------------
(* The three together, as TLC runs them                                    *)

\* What TLC runs is a behaviour of each of the three: what is proved of any of
\* them holds of it.
THEOREM ProfilesAreEach == ProfilesSpec => RewardsSpec /\ CreditSpec /\ PlaySpec
<1>1. ProfilesInit => RewardsInit /\ CreditInit /\ PlayInit
  BY DEF ProfilesInit
<1>2. ASSUME [ProfilesNext]_profilesVars
      PROVE  [RewardsNext]_rewardVars /\ [CreditNext]_creditVars /\ [PlayNext]_playVars
  <2>1. CASE RewardsStep
    BY <2>1 DEF RewardsStep
  <2>2. CASE CreditStep
    BY <2>2 DEF CreditStep
  <2>3. CASE QuizStep
    BY <2>3 DEF QuizStep
  <2>4. CASE UNCHANGED profilesVars
    BY <2>4 DEF profilesVars
  <2> QED BY <1>2, <2>1, <2>2, <2>3, <2>4 DEF ProfilesNext
<1> QED BY <1>1, <1>2, PTL DEF ProfilesSpec, RewardsSpec, CreditSpec, PlaySpec

\* All three keep their types in it.
THEOREM ProfilesTyped == ProfilesSpec => []ProfilesTypeOK
<1>1. RewardsTypeOK /\ CreditTypeOK /\ PageTypeOK => ProfilesTypeOK
  BY DEF ProfilesTypeOK
<1> QED BY <1>1, ProfilesAreEach, RewardsTyped, CreditTyped, PageTyped, PTL

=============================================================================
