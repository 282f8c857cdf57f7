---------------------------- MODULE RewardsProps ----------------------------
(***************************************************************************)
(* What the coins, the progress and the shop promise the user.             *)
(***************************************************************************)
EXTENDS Rewards

Paid == [i \in Items |-> Cost[i] * ledger.bought[i]]

\* The balance is what the ledger says (reconcileCoinLedger) and never below
\* zero; an item in the bag was paid for once and no other item was, whatever
\* is bought twice at once, spent beside it, refused or undone half-way
\* (spendCoins and purchase).
CoinsBuyOnce ==
    /\ profile.coins >= 0
    /\ profile.coins = ledger.earned - SumFunctionOnSet(Paid, Items)
    /\ \A i \in Items : ledger.bought[i] = IF bag[i] = "none" THEN 0 ELSE 1

\* XP and the longest payment streak are those of every committed settlement,
\* and each badge is earned once: settlements with coins lock the profile
\* before they read it, so that only one without coins can overwrite what it
\* has not seen (settleAction, grantXp, advanceStreak, awardBadges).
RewardsAddUp ==
    /\ ~stale => profile.xp = due.xp /\ profile.longest = due.best
    /\ \A b \in Badges : badges[b] <= 1

\* At most one item of a slot is on, unless equips for the slot overlapped; the
\* next one that is alone mends it (equip).
OneItemPerSlot == \A s \in Slots \ overlapped :
    Cardinality({i \in Items : Slot[i] = s /\ bag[i] = "on"}) <= 1

\* The shop, whose purchases and equips overlap, sells once and dresses once.
ShopIsFair == CoinsBuyOnce /\ OneItemPerSlot

\* A mood ends by itself only after its time, also when a settlement sets a
\* new one while the scheduler goes through those that have passed
\* (decayMascotMoods).
MoodsLast == [][profile.mood # "NEUTRAL" /\ profile'.mood = "NEUTRAL" =>
                  moodAge >= Lasts[profile.mood]]_rewardVars
=============================================================================
