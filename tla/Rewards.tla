------------------------------ MODULE Rewards ------------------------------
(***************************************************************************)
(* One user's gamification profile, its coin ledger and badges, and the    *)
(* shop: RewardService under its callers, BadgeEngineService,              *)
(* CosmeticsService and SchedulerService.decayMascotMoods.                 *)
(*                                                                         *)
(* Every operation is a transaction (READ COMMITTED).  The first write to  *)
(* the profile locks its row until the transaction ends; what was read     *)
(* before that may be out of date.  A transaction can fail at any point    *)
(* before it commits and then leaves nothing behind.                       *)
(***************************************************************************)
EXTENDS Integers, FiniteSets, Functions

CONSTANTS
    Txs,         \* transactions at one time
    NoTx,
    Items, Slot, Cost,  \* the shop: slot and cost of each item
    Badges,      \* the badges; their criteria are met by the kind of Settlement
    XpPerLevel,
    MaxBegun     \* bound: transactions begun

ASSUME RewardsConstants ==
    /\ NoTx \notin Txs /\ IsFiniteSet(Items)
    /\ Cost \in [Items -> Nat \ {0}] /\ DOMAIN Slot = Items
    /\ XpPerLevel \in Nat \ {0} /\ MaxBegun \in Nat

\* What the callers settle: a payment on time or late, a quiz, a new
\* obligation, a finished simulation and a payment found missed.
Nothing == [coins |-> 0, xp |-> 0, streak |-> "keep", mood |-> "keep", badge |-> "none"]
Settlement ==
    [onTime     |-> [coins |-> 1, xp |-> 1, streak |-> "advance",
                     mood |-> "HAPPY", badge |-> "PAYMENT"],
     late       |-> [Nothing EXCEPT !.streak = "reset", !.mood = "STRESSED"],
     quiz       |-> [Nothing EXCEPT !.coins = 1, !.xp = 1, !.mood = "HAPPY"],
     obligation |-> [Nothing EXCEPT !.xp = 1],
     simulation |-> [Nothing EXCEPT !.xp = 1, !.badge = "SIMULATION"],
     missed     |-> [Nothing EXCEPT !.streak = "reset", !.mood = "SAD"]]
Kinds == DOMAIN Settlement
Moods == {"NEUTRAL", "HAPPY", "SAD", "STRESSED", "CELEBRATING"}
\* decayMascotMoods: days after which a mood has passed.
Lasts == [m \in Moods |-> IF m = "CELEBRATING" THEN 1 ELSE 3]

VARIABLES
    profile,
    moodAge,     \* days since mascotMoodUpdatedAt, up to 3
    profileLock,      \* the transaction that has the profile's row locked
    ledger,      \* RewardTransaction: coins earned, and purchases of each item
    badges,      \* how often each badge was earned
    bag,         \* UserInventoryItem of each item
    tx,
    begun,
    due,         \* history: what the committed settlements should add up to
    stale,       \* history: a settlement without coins overwrote another's sum
    overlapped   \* history: slots in which equips have overlapped

rewardVars ==
    <<profile, moodAge, profileLock, ledger, badges, bag, tx, begun, due, stale, overlapped>>

NoOp == [op |-> "none"]
Profile == [coins: Int, xp: Nat, level: Nat, streak: Nat, longest: Nat,
            mood: Moods, moodSet: Nat]
NewProfile == [coins |-> 0, xp |-> 0, level |-> 1, streak |-> 0, longest |-> 0,
               mood |-> "NEUTRAL", moodSet |-> 0]
Slots == {Slot[i] : i \in Items}
Tx == {NoOp}
    \cup [op: {"settle"}, kind: Kinds, read: BOOLEAN, seen: Profile]
    \cup [op: {"buy"}, item: Items]
    \cup [op: {"equip"}, item: Items, at: {"owned", "start", "off"},
          off: SUBSET Items, alone: BOOLEAN]
    \cup [op: {"unequip"}, item: Items]
    \cup [op: {"decay"}, seen: Profile]

RewardsTypeOK ==
    /\ profile \in Profile
    /\ profile.level = 1 + profile.xp \div XpPerLevel
    /\ profile.streak <= profile.longest
    /\ moodAge \in 0..3
    /\ profileLock \in Txs \cup {NoTx}
    /\ ledger \in [earned: Nat, bought: [Items -> Nat]]
    /\ badges \in [Badges -> Nat]
    /\ bag \in [Items -> {"none", "owned", "on"}]
    /\ tx \in [Txs -> Tx]
    /\ begun \in 0..MaxBegun
    /\ due \in [xp: Nat, best: Nat]
    /\ stale \in BOOLEAN
    /\ overlapped \subseteq Slots

RewardsInit ==
    /\ profile = NewProfile
    /\ moodAge = 0
    /\ profileLock = NoTx
    /\ badges = [b \in Badges |-> 0]
    /\ \E old \in SUBSET Items :  \* what was bought before
         /\ ledger = [earned |-> SumFunctionOnSet(Cost, old),
                      bought |-> [i \in Items |-> IF i \in old THEN 1 ELSE 0]]
         /\ bag = [i \in Items |-> IF i \in old THEN "owned" ELSE "none"]
    /\ tx = [t \in Txs |-> NoOp]
    /\ begun = 0
    /\ due = [xp |-> 0, best |-> 0]
    /\ stale = FALSE
    /\ overlapped = {}

BeginTx(t, x) ==
    /\ tx[t] = NoOp
    /\ begun < MaxBegun
    /\ begun' = begun + 1
    /\ tx' = [tx EXCEPT ![t] = x]
    /\ UNCHANGED <<profile, moodAge, profileLock, ledger, badges, bag, due, stale, overlapped>>

EndTx(t) == tx' = [tx EXCEPT ![t] = NoOp]

-----------------------------------------------------------------------------
(* Settlements: settleAction, and the callers of one of its parts          *)

HasLock(t) == profileLock = t

\* grantCoins is the first part of a settlement and locks the profile; without
\* coins grantXp, or advanceStreak, reads it and writes the sum afterwards.
ReadsFirstAlways(kind) == TRUE
ReadsFirst(kind) == Settlement[kind].coins = 0
SettleRead(t) ==
    /\ tx[t].op = "settle" /\ ~tx[t].read /\ ~HasLock(t)
    /\ ReadsFirst(tx[t].kind)
    /\ tx' = [tx EXCEPT ![t].read = TRUE, ![t].seen = profile]
    /\ UNCHANGED <<profile, moodAge, profileLock, ledger, badges, bag, begun, due, stale, overlapped>>
SettleLock(t) ==
    /\ tx[t].op = "settle" /\ profileLock = NoTx
    /\ ReadsFirst(tx[t].kind) = tx[t].read
    /\ profileLock' = t
    /\ UNCHANGED <<profile, moodAge, ledger, badges, bag, tx, begun, due, stale, overlapped>>

\* grantXp and advanceStreak: seen is the profile each of them read.
WithXpOnly(p, seen, amount) == [p EXCEPT !.xp = seen.xp + amount]
WithXp(p, seen, amount) ==
    IF amount = 0 THEN p
    ELSE [p EXCEPT !.xp = seen.xp + amount,
                   !.level = 1 + (seen.xp + amount) \div XpPerLevel]
WithStreak(p, seen, change) ==
    LET current == IF change = "advance" THEN seen.streak + 1 ELSE 0 IN
    IF change = "keep" THEN p
    ELSE [p EXCEPT !.streak = current,
                   !.longest = IF current > seen.longest THEN current ELSE seen.longest]

\* awardBadges: a badge is not earned again, and it celebrates.  Its bonus is
\* one coin.
Earns(kind) == LET b == Settlement[kind].badge IN b \in Badges /\ badges[b] = 0

\* The rest of the settlement, under the lock.  setMascotMood comes after the
\* sums, and a level reached or a badge earned celebrates after it.
SettleCommit(t) ==
    LET s == Settlement[tx[t].kind]
        seen == IF tx[t].read THEN tx[t].seen ELSE profile
        earns == Earns(tx[t].kind)
        coins == s.coins + IF earns THEN 1 ELSE 0
        sums == WithStreak(WithXp(profile, seen, s.xp), seen, s.streak)
        levelUp == tx[t].kind # "simulation" /\ sums.level > 1 + seen.xp \div XpPerLevel
        mood == IF earns \/ levelUp THEN "CELEBRATING" ELSE s.mood
    IN
    /\ tx[t].op = "settle" /\ HasLock(t)
    /\ profile' = [sums EXCEPT !.coins = @ + coins,
                     !.mood = IF mood = "keep" THEN @ ELSE mood,
                     !.moodSet = IF mood = "keep" THEN @ ELSE @ + 1]
    /\ moodAge' = IF mood = "keep" THEN moodAge ELSE 0
    /\ ledger' = [ledger EXCEPT !.earned = @ + coins]
    /\ badges' = IF earns THEN [badges EXCEPT ![s.badge] = @ + 1] ELSE badges
    /\ due' = [xp |-> due.xp + s.xp,
               best |-> IF profile'.streak > due.best THEN profile'.streak ELSE due.best]
    /\ stale' = (stale \/ (s.coins = 0 /\ \/ s.xp > 0 /\ seen.xp # profile.xp
                                          \/ s.streak # "keep" /\ seen.longest # profile.longest))
    /\ profileLock' = NoTx
    /\ EndTx(t)
    /\ UNCHANGED <<bag, begun, overlapped>>

-----------------------------------------------------------------------------
(* The shop: purchase, equip and unequip                                   *)

\* purchase reads the item before its transaction.
Buy(t, i) == bag[i] = "none" /\ BeginTx(t, [op |-> "buy", item |-> i])
AffordableAlways(i) == TRUE
Affordable(i) == profile.coins >= Cost[i]
\* spendCoins: one conditional update, which waits for the row.
BuySpend(t) ==
    /\ tx[t].op = "buy" /\ profileLock = NoTx
    /\ IF Affordable(tx[t].item)
       THEN profileLock' = t /\ UNCHANGED tx
       ELSE EndTx(t) /\ UNCHANGED profileLock
    /\ UNCHANGED <<profile, moodAge, ledger, badges, bag, begun, due, stale, overlapped>>
\* A second row for the item violates its unique key, and the coins are back.
BuyCommit(t) ==
    LET i == tx[t].item IN
    /\ tx[t].op = "buy" /\ HasLock(t)
    /\ bag[i] = "none"
    /\ profile' = [profile EXCEPT !.coins = @ - Cost[i]]
    /\ ledger' = [ledger EXCEPT !.bought[i] = @ + 1]
    /\ bag' = [bag EXCEPT ![i] = "owned"]
    /\ profileLock' = NoTx
    /\ EndTx(t)
    /\ UNCHANGED <<moodAge, badges, begun, due, stale, overlapped>>

Equipping(t, slot) == tx[t].op = "equip" /\ tx[t].at # "owned" /\ Slot[tx[t].item] = slot
HasRow(t, i) == tx[t].op = "equip" /\ tx[t].at = "off" /\ i \in tx[t].off
Free(t, i) == \A u \in Txs \ {t} : ~HasRow(u, i)

\* equip reads the item before its transaction.
Equip(t, i) ==
    /\ bag[i] # "none"
    /\ BeginTx(t, [op |-> "equip", item |-> i, at |-> "owned", off |-> {}, alone |-> TRUE])
\* updateMany: the rows the statement sees ...
Others(i) == {j \in Items \ {i} : bag[j] = "on" /\ Slot[j] = Slot[i]}
EquipStart(t) ==
    LET slot == Slot[tx[t].item]
        beside == {u \in Txs \ {t} : Equipping(u, slot)}
    IN
    /\ tx[t].op = "equip" /\ tx[t].at = "owned"
    /\ tx' = [u \in Txs |->
         IF u = t THEN [tx[t] EXCEPT !.at = "start", !.off = Others(tx[t].item),
                                     !.alone = beside = {}]
         ELSE IF u \in beside THEN [tx[u] EXCEPT !.alone = FALSE] ELSE tx[u]]
    /\ overlapped' = IF beside = {} THEN overlapped ELSE overlapped \cup {slot}
    /\ UNCHANGED <<profile, moodAge, profileLock, ledger, badges, bag, begun, due, stale>>
\* ... are taken off and locked, but those no longer on when their lock is free.
EquipOff(t) ==
    /\ tx[t].op = "equip" /\ tx[t].at = "start"
    /\ \A j \in tx[t].off : Free(t, j)
    /\ tx' = [tx EXCEPT ![t].at = "off", ![t].off = {j \in @ : bag[j] = "on"}]
    /\ UNCHANGED <<profile, moodAge, profileLock, ledger, badges, bag, begun, due, stale, overlapped>>
EquipOn(t) ==
    LET i == tx[t].item IN
    /\ tx[t].op = "equip" /\ tx[t].at = "off" /\ Free(t, i)
    /\ bag' = [j \in Items |-> IF j = i THEN "on"
                               ELSE IF j \in tx[t].off THEN "owned" ELSE bag[j]]
    /\ overlapped' = IF tx[t].alone THEN overlapped \ {Slot[i]} ELSE overlapped
    /\ EndTx(t)
    /\ UNCHANGED <<profile, moodAge, profileLock, ledger, badges, begun, due, stale>>

Unequip(t, i) == bag[i] = "on" /\ BeginTx(t, [op |-> "unequip", item |-> i])
UnequipOff(t) ==
    /\ tx[t].op = "unequip" /\ Free(t, tx[t].item)
    /\ bag' = [bag EXCEPT ![tx[t].item] = "owned"]
    /\ EndTx(t)
    /\ UNCHANGED <<profile, moodAge, profileLock, ledger, badges, begun, due, stale, overlapped>>

-----------------------------------------------------------------------------
(* decayMascotMoods                                                        *)

\* The scheduler reads the moods that have passed ...
Decay(t) ==
    /\ profile.mood # "NEUTRAL" /\ moodAge >= Lasts[profile.mood]
    /\ BeginTx(t, [op |-> "decay", seen |-> profile])
\* ... and ends each of them if nothing has set it since.
SameMoodAny(seen) == TRUE
SameMood(seen) == seen.mood = profile.mood /\ seen.moodSet = profile.moodSet
DecayWrite(t) ==
    /\ tx[t].op = "decay" /\ profileLock = NoTx
    /\ IF SameMood(tx[t].seen)
       THEN /\ profile' = [profile EXCEPT !.mood = "NEUTRAL", !.moodSet = @ + 1]
            /\ moodAge' = 0
       ELSE UNCHANGED <<profile, moodAge>>
    /\ EndTx(t)
    /\ UNCHANGED <<profileLock, ledger, badges, bag, begun, due, stale, overlapped>>

Day ==
    /\ moodAge < 3
    /\ moodAge' = moodAge + 1
    /\ UNCHANGED <<profile, profileLock, ledger, badges, bag, tx, begun, due, stale, overlapped>>

\* A refusal, a deadlock, a unique key or a crash: the transaction is undone.
AbortTx(t) ==
    /\ tx[t] # NoOp
    /\ profileLock' = IF profileLock = t THEN NoTx ELSE profileLock
    /\ EndTx(t)
    /\ UNCHANGED <<profile, moodAge, ledger, badges, bag, begun, due, stale, overlapped>>

Settle(t, kind) ==
    BeginTx(t, [op |-> "settle", kind |-> kind, read |-> FALSE, seen |-> NewProfile])

RewardsNext == Day \/ \E t \in Txs :
    \/ \E kind \in Kinds : Settle(t, kind)
    \/ SettleRead(t) \/ SettleLock(t) \/ SettleCommit(t)
    \/ \E i \in Items : Buy(t, i) \/ Equip(t, i) \/ Unequip(t, i)
    \/ BuySpend(t) \/ BuyCommit(t)
    \/ EquipStart(t) \/ EquipOff(t) \/ EquipOn(t) \/ UnequipOff(t)
    \/ Decay(t) \/ DecayWrite(t) \/ AbortTx(t)
RewardsSpec == RewardsInit /\ [][RewardsNext]_rewardVars
=============================================================================
