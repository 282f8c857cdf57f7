------------------------------- MODULE Wagers -------------------------------
(***************************************************************************)
(* Wagers between friends and the coins they move: WagersService, the      *)
(* wager part of SchedulerService.runAll, and the coin primitives of       *)
(* RewardService, statement by statement.                                  *)
(*                                                                         *)
(* A request is a database transaction: it reads the wager without a lock, *)
(* then updates rows one after the other, and holds the lock of each until *)
(* it commits or is rolled back.  What a transaction has written is seen   *)
(* by others only when it commits, so the variables below are the          *)
(* committed rows; a transaction is the list of rows it has locked.        *)
(***************************************************************************)
EXTENDS Integers, Sequences, FiniteSets

CONSTANTS
    Users, Wagers,
    Clients,       \* concurrent HTTP requests on wagers
    Runs,          \* concurrent scheduler runs
    CreatorOf,     \* creatorId of each wager
    OpponentOf,    \* opponentId of each wager
    Stake,         \* stakeAmount of each wager
    Duration,      \* durationDays, in ticks
    InviteExpiry,  \* ticks an invitation stays open (48 hours in the code)
    StartCoins,    \* coinBalance of each user at the start
    Leavers,       \* bound: the users who close their account
    MaxTime,       \* bound: the clock stops here
    MaxCoins,      \* bound: coins a user earns outside wagers
    MaxCrashes     \* bound: transactions lost to restarts

Workers == Clients \cup Runs

ASSUME WagerConstants ==
    /\ Wagers # {} /\ IsFiniteSet(Wagers)
    /\ CreatorOf \in [Wagers -> Users]
    /\ OpponentOf \in [Wagers -> Users]
    /\ \A w \in Wagers : CreatorOf[w] # OpponentOf[w]
    /\ Stake \in [Wagers -> Nat]
    /\ Duration \in Nat \ {0}
    /\ InviteExpiry \in Nat
    /\ StartCoins \in [Users -> Nat]
    /\ Leavers \subseteq Users
    /\ MaxTime \in Nat
    /\ MaxCoins \in Nat
    /\ MaxCrashes \in Nat

VARIABLES
    now,
    status,     \* Wager.status, "ABSENT" before and "DELETED" after the row
    invitedAt,  \* Wager.invitedAt
    endDate,    \* Wager.endDate
    outcome,    \* Wager.creatorOutcome and opponentOutcome as one result
    net,        \* the RewardTransactions of each wager, summed by side
    coins,      \* GamificationProfile.coinBalance
    other,      \* the RewardTransactions of each user that no wager caused
    account,    \* User.deletedAt, and whether the user exists
    tx,         \* the transaction of each worker
    run,        \* the wagers a scheduler run has still to resolve
    crashes

vars == <<now, status, invitedAt, endDate, outcome, net, coins, other, account,
          tx, run, crashes>>
wagerVars == <<status, invitedAt, endDate, outcome, net>>
coinVars == <<coins, other>>

Open == {"PENDING", "ACTIVE"}
Ended == {"COMPLETED", "DECLINED", "CANCELLED", "EXPIRED", "DELETED"}
Outcome == {"CREATOR", "OPPONENT", "DRAW"}
Side == [creator: Int, opponent: Int]
Even == [creator |-> 0, opponent |-> 0]

Transaction == [op: {"none", "create", "accept", "decline", "cancel", "resolve"},
                wager: Wagers, got: 0..3, at: 0..MaxTime,
                result: Outcome \cup {"NONE"}]
AnyWager == CHOOSE w \in Wagers : TRUE
IdleTx == [op |-> "none", wager |-> AnyWager, got |-> 0, at |-> 0,
           result |-> "NONE"]
IdleRun == [phase |-> "idle", at |-> 0, todo |-> {}]

TypeOK ==
    /\ now \in 0..MaxTime
    /\ status \in [Wagers -> {"ABSENT"} \cup Open \cup Ended]
    /\ invitedAt \in [Wagers -> 0..MaxTime]
    /\ endDate \in [Wagers -> Nat]
    /\ outcome \in [Wagers -> Outcome \cup {"NONE"}]
    /\ net \in [Wagers -> Side]
    /\ coins \in [Users -> Nat]
    /\ other \in [Users -> Int]
    /\ account \in [Users -> {"ACTIVE", "DEACTIVATED", "DELETED"}]
    /\ tx \in [Workers -> Transaction]
    /\ run \in [Runs -> [phase: {"idle", "expire", "resolve"}, at: 0..MaxTime,
                         todo: SUBSET Wagers]]
    /\ crashes \in 0..MaxCrashes

Init ==
    /\ now = 0
    /\ status = [w \in Wagers |-> "ABSENT"]
    /\ invitedAt = [w \in Wagers |-> 0]
    /\ endDate = [w \in Wagers |-> 0]
    /\ outcome = [w \in Wagers |-> "NONE"]
    /\ net = [w \in Wagers |-> Even]
    /\ coins = StartCoins
    /\ other = StartCoins
    /\ account = [u \in Users |-> "ACTIVE"]
    /\ tx = [t \in Workers |-> IdleTx]
    /\ run = [r \in Runs |-> IdleRun]
    /\ crashes = 0

-----------------------------------------------------------------------------
(* Rows and locks                                                          *)

\* The rows a transaction updates, in the order of its statements.
PayeeRows(w, result) ==
    CASE result = "CREATOR" -> <<CreatorOf[w]>>
      [] result = "OPPONENT" -> <<OpponentOf[w]>>
      [] OTHER -> <<CreatorOf[w], OpponentOf[w]>>
Rows(x) ==
    CASE x.op = "accept" -> <<x.wager, CreatorOf[x.wager], OpponentOf[x.wager]>>
      [] x.op \in {"decline", "cancel"} -> <<x.wager>>
      [] x.op = "resolve" -> <<x.wager>> \o PayeeRows(x.wager, x.result)
      [] OTHER -> << >>

Holds(t, row) == \E i \in 1..tx[t].got : Rows(tx[t])[i] = row
Free(row) == \A t \in Workers : ~Holds(t, row)

Working(t) == tx[t].op # "none"
HasAll(t) == tx[t].got = Len(Rows(tx[t]))
NextRow(t) == Rows(tx[t])[tx[t].got + 1]

Take(t) == tx' = [tx EXCEPT ![t].got = @ + 1]
Finish(t) == tx' = [tx EXCEPT ![t] = IdleTx]

\* t waits for a row that u has locked.
WaitsFor(t, u) == Working(t) /\ ~HasAll(t) /\ Holds(u, NextRow(t))

-----------------------------------------------------------------------------
(* Requests.  Each reads the wager first, without a lock.                  *)

\* createWager: the balance is checked before the transaction that inserts.
CreateBegin(c, w) ==
    /\ ~Working(c)
    /\ status[w] = "ABSENT"
    /\ account[CreatorOf[w]] = "ACTIVE"
    /\ account[OpponentOf[w]] = "ACTIVE"
    /\ Stake[w] <= coins[CreatorOf[w]]
    /\ \A t \in Workers : tx[t].wager = w => tx[t].op # "create"
    /\ tx' = [tx EXCEPT ![c] = [op |-> "create", wager |-> w, got |-> 0,
                                at |-> now, result |-> "NONE"]]
    /\ UNCHANGED <<now, wagerVars, coinVars, account, run, crashes>>

\* A foreign key refuses the insert when a player has been deleted since.
CreateCommit(c) ==
    LET w == tx[c].wager IN
    /\ tx[c].op = "create"
    /\ account[CreatorOf[w]] # "DELETED"
    /\ account[OpponentOf[w]] # "DELETED"
    /\ status' = [status EXCEPT ![w] = "PENDING"]
    /\ invitedAt' = [invitedAt EXCEPT ![w] = now]
    /\ Finish(c)
    /\ UNCHANGED <<now, endDate, outcome, net, coinVars, account, run, crashes>>

Responder(op, w) == IF op = "cancel" THEN CreatorOf[w] ELSE OpponentOf[w]

Begin(c, op, w) ==
    /\ ~Working(c)
    /\ account[Responder(op, w)] = "ACTIVE"
    /\ status[w] = "PENDING"
    /\ tx' = [tx EXCEPT ![c] = [op |-> op, wager |-> w, got |-> 0, at |-> now,
                                result |-> "NONE"]]
    /\ UNCHANGED <<now, wagerVars, coinVars, account, run, crashes>>

\* The status a claim of the wager row expects: its updateMany has it in the
\* WHERE clause, which PostgreSQL evaluates again once the row is unlocked.
ClaimableOpen(op, w) == status[w] \in Open
Claimable(op, w) == status[w] = IF op = "resolve" THEN "ACTIVE" ELSE "PENDING"

Claim(t) ==
    /\ tx[t].op \in {"accept", "decline", "cancel", "resolve"}
    /\ tx[t].got = 0
    /\ Free(tx[t].wager)
    /\ Claimable(tx[t].op, tx[t].wager)
    /\ Take(t)
    /\ UNCHANGED <<now, wagerVars, coinVars, account, run, crashes>>

\* spendCoins: one conditional decrement, under the lock of the profile row.
CanSpendUnchecked(u, n) == n > 0
CanSpend(u, n) == n > 0 /\ coins[u] >= n

SpendStake(c) ==
    /\ tx[c].op = "accept"
    /\ tx[c].got \in {1, 2}
    /\ Free(NextRow(c))
    /\ CanSpend(NextRow(c), Stake[tx[c].wager])
    /\ Take(c)
    /\ UNCHANGED <<now, wagerVars, coinVars, account, run, crashes>>

AfterStakesCreatorOnly(w) == [coins EXCEPT ![CreatorOf[w]] = @ - Stake[w]]
AfterStakes(w) == [coins EXCEPT ![CreatorOf[w]] = @ - Stake[w],
                                ![OpponentOf[w]] = @ - Stake[w]]

AcceptCommit(c) ==
    LET w == tx[c].wager IN
    /\ tx[c].op = "accept"
    /\ HasAll(c)
    /\ status' = [status EXCEPT ![w] = "ACTIVE"]
    /\ endDate' = [endDate EXCEPT ![w] = tx[c].at + Duration]
    /\ coins' = AfterStakes(w)
    /\ net' = [net EXCEPT ![w] = [creator |-> @.creator - Stake[w],
                                  opponent |-> @.opponent - Stake[w]]]
    /\ Finish(c)
    /\ UNCHANGED <<now, invitedAt, outcome, other, account, run, crashes>>

CloseCommit(c) ==
    /\ tx[c].op \in {"decline", "cancel"}
    /\ HasAll(c)
    /\ status' = [status EXCEPT ![tx[c].wager] =
                    IF tx[c].op = "decline" THEN "DECLINED" ELSE "CANCELLED"]
    /\ Finish(c)
    /\ UNCHANGED <<now, invitedAt, endDate, outcome, net, coinVars, account,
                   run, crashes>>

\* The transaction stops with an error and leaves no trace: its claim or its
\* spend matches no row, or an insert violates a foreign key.
Refused(t) ==
    /\ \/ /\ tx[t].op = "create"
          /\ "DELETED" \in {account[CreatorOf[tx[t].wager]],
                            account[OpponentOf[tx[t].wager]]}
       \/ /\ tx[t].op \in {"accept", "decline", "cancel", "resolve"}
          /\ tx[t].got = 0
          /\ Free(tx[t].wager)
          /\ ~Claimable(tx[t].op, tx[t].wager)
       \/ /\ tx[t].op = "accept"
          /\ tx[t].got \in {1, 2}
          /\ Free(NextRow(t))
          /\ ~CanSpend(NextRow(t), Stake[tx[t].wager])
    /\ Finish(t)
    /\ UNCHANGED <<now, wagerVars, coinVars, account, run, crashes>>

-----------------------------------------------------------------------------
(* The scheduler                                                           *)

RunBegin(r) ==
    /\ run[r].phase = "idle"
    /\ run' = [run EXCEPT ![r] = [phase |-> "expire", at |-> now, todo |-> {}]]
    /\ UNCHANGED <<now, wagerVars, coinVars, account, tx, crashes>>

\* expirePendingWagers: one statement, which waits for the rows it matches,
\* and then resolveDueWagers lists the wagers to resolve.
Overdue(at) == {w \in Wagers : status[w] = "PENDING"
                               /\ invitedAt[w] + InviteExpiry <= at}
Players(w) == {CreatorOf[w], OpponentOf[w]}
DueBothActive(at) == {w \in Wagers : status[w] = "ACTIVE" /\ endDate[w] <= at
                       /\ \A u \in Players(w) : account[u] = "ACTIVE"}
Due(at) == {w \in Wagers : status[w] = "ACTIVE" /\ endDate[w] <= at}

ExpireAndList(r) ==
    /\ run[r].phase = "expire"
    /\ \A w \in Overdue(run[r].at) : Free(w)
    /\ status' = [w \in Wagers |->
                    IF w \in Overdue(run[r].at) THEN "EXPIRED" ELSE status[w]]
    /\ run' = [run EXCEPT ![r].phase = "resolve", ![r].todo = Due(run[r].at)]
    /\ UNCHANGED <<now, invitedAt, endDate, outcome, net, coinVars, account, tx,
                   crashes>>

\* A player whose account was deactivated loses; otherwise each succeeds or
\* fails by the payments made, and equal results are a draw.
Winner(c, o) == IF c = o THEN "DRAW" ELSE IF c THEN "CREATOR" ELSE "OPPONENT"
TaskResults(w) ==
    LET here(u) == account[u] = "ACTIVE"
        c == CreatorOf[w]
        o == OpponentOf[w] IN
    IF here(c) /\ here(o) THEN Outcome ELSE {Winner(here(c), here(o))}

\* resolveWager reads the wager and its players; one that is no longer active
\* is skipped.
ResolveBegin(r, w) ==
    /\ run[r].phase = "resolve"
    /\ ~Working(r)
    /\ w \in run[r].todo
    /\ run' = [run EXCEPT ![r].todo = @ \ {w}]
    /\ IF w \in Due(run[r].at)
       THEN \E result \in TaskResults(w) :
                tx' = [tx EXCEPT ![r] = [op |-> "resolve", wager |-> w, got |-> 0,
                                         at |-> run[r].at, result |-> result]]
       ELSE tx' = tx
    /\ UNCHANGED <<now, wagerVars, coinVars, account, crashes>>

\* adjustCoins and grantCoins: an increment under the lock of the profile.
Payout(r) ==
    /\ tx[r].op = "resolve"
    /\ tx[r].got > 0
    /\ ~HasAll(r)
    /\ Free(NextRow(r))
    /\ Take(r)
    /\ UNCHANGED <<now, wagerVars, coinVars, account, run, crashes>>

\* What a result pays each side.
PrizeWinnerOnly(w, result) ==
    CASE result = "CREATOR" -> [creator |-> Stake[w], opponent |-> 0]
      [] result = "OPPONENT" -> [creator |-> 0, opponent |-> Stake[w]]
      [] OTHER -> [creator |-> Stake[w], opponent |-> Stake[w]]
Prize(w, result) ==
    CASE result = "CREATOR" -> [creator |-> 2 * Stake[w], opponent |-> 0]
      [] result = "OPPONENT" -> [creator |-> 0, opponent |-> 2 * Stake[w]]
      [] OTHER -> [creator |-> Stake[w], opponent |-> Stake[w]]

ResolveCommit(r) ==
    LET w == tx[r].wager
        prize == Prize(w, tx[r].result) IN
    /\ tx[r].op = "resolve"
    /\ tx[r].got > 0
    /\ HasAll(r)
    /\ status' = [status EXCEPT ![w] = "COMPLETED"]
    /\ outcome' = [outcome EXCEPT ![w] = tx[r].result]
    /\ coins' = [coins EXCEPT ![CreatorOf[w]] = @ + prize.creator,
                              ![OpponentOf[w]] = @ + prize.opponent]
    /\ net' = [net EXCEPT ![w] = [creator |-> @.creator + prize.creator,
                                  opponent |-> @.opponent + prize.opponent]]
    /\ Finish(r)
    /\ UNCHANGED <<now, invitedAt, endDate, other, account, run, crashes>>

RunEnd(r) ==
    /\ run[r].phase = "resolve"
    /\ run[r].todo = {}
    /\ ~Working(r)
    /\ run' = [run EXCEPT ![r] = IdleRun]
    /\ UNCHANGED <<now, wagerVars, coinVars, account, tx, crashes>>

-----------------------------------------------------------------------------
(* Rollbacks                                                               *)

\* An error in a resolution is thrown through runAll and ends the run.
Rollback(t) ==
    /\ Finish(t)
    /\ run' = [r \in Runs |-> IF r = t THEN IdleRun ELSE run[r]]
    /\ UNCHANGED <<now, wagerVars, coinVars, account>>

\* PostgreSQL aborts one transaction of a cycle of transactions that wait
\* for each other.
Deadlocked(t) == \E S \in SUBSET Workers :
    /\ t \in S
    /\ \A x \in S : /\ \E y \in S : WaitsFor(x, y)
                    /\ \E y \in S : WaitsFor(y, x)
Victim(t) == Deadlocked(t) /\ Rollback(t) /\ UNCHANGED crashes

\* The server restarts, or the connection drops, before the commit.
Crash(t) ==
    /\ Working(t) \/ \E r \in Runs : r = t /\ run[r] # IdleRun
    /\ crashes < MaxCrashes
    /\ crashes' = crashes + 1
    /\ Rollback(t)

-----------------------------------------------------------------------------
(* Coins and accounts outside wagers                                       *)

\* A payment, quiz or badge reward: grantCoins in a transaction of its own.
Earn(u) ==
    /\ account[u] = "ACTIVE"
    /\ Free(u)
    /\ other[u] < MaxCoins
    /\ coins' = [coins EXCEPT ![u] = @ + 1]
    /\ other' = [other EXCEPT ![u] = @ + 1]
    /\ UNCHANGED <<now, wagerVars, account, tx, run, crashes>>

\* A cosmetic is bought: spendCoins in a transaction of its own.
Purchase(u) ==
    /\ account[u] = "ACTIVE"
    /\ Free(u)
    /\ CanSpend(u, 1)
    /\ coins' = [coins EXCEPT ![u] = @ - 1]
    /\ other' = [other EXCEPT ![u] = @ - 1]
    /\ UNCHANGED <<now, wagerVars, account, tx, run, crashes>>

Deactivate(u) ==
    /\ u \in Leavers
    /\ account[u] = "ACTIVE"
    /\ account' = [account EXCEPT ![u] = "DEACTIVATED"]
    /\ UNCHANGED <<now, wagerVars, coinVars, tx, run, crashes>>

\* deleteAllUserData removes the profile, the reward transactions and the
\* user, and the foreign keys of Wager cascade.  (For a user who never recorded
\* a payment contribution or a receipt scan: theirs restrict the deletion.)
WagersOf(u) == {w \in Wagers : u \in Players(w)}
DeleteData(u) ==
    LET gone == {w \in WagersOf(u) : status[w] # "ABSENT"} IN
    /\ u \in Leavers
    /\ account[u] # "DELETED"
    /\ \A row \in gone \cup {u} : Free(row)
    /\ account' = [account EXCEPT ![u] = "DELETED"]
    /\ coins' = [coins EXCEPT ![u] = 0]
    /\ other' = [other EXCEPT ![u] = 0]
    /\ status' = [w \in Wagers |-> IF w \in gone THEN "DELETED" ELSE status[w]]
    /\ UNCHANGED <<now, invitedAt, endDate, outcome, net, tx, run, crashes>>

Tick ==
    /\ now < MaxTime
    /\ now' = now + 1
    /\ UNCHANGED <<wagerVars, coinVars, account, tx, run, crashes>>

-----------------------------------------------------------------------------
ClientStep(c) ==
    \/ \E w \in Wagers : CreateBegin(c, w)
    \/ CreateCommit(c)
    \/ \E w \in Wagers, op \in {"accept", "decline", "cancel"} : Begin(c, op, w)
    \/ Claim(c)
    \/ SpendStake(c)
    \/ AcceptCommit(c)
    \/ CloseCommit(c)

RunStep(r) ==
    \/ RunBegin(r)
    \/ ExpireAndList(r)
    \/ \E w \in Wagers : ResolveBegin(r, w)
    \/ Claim(r)
    \/ Payout(r)
    \/ ResolveCommit(r)
    \/ RunEnd(r)

AccountStep == \E u \in Users :
    Earn(u) \/ Purchase(u) \/ Deactivate(u) \/ DeleteData(u)

Next ==
    \/ \E c \in Clients : ClientStep(c)
    \/ \E r \in Runs : RunStep(r)
    \/ \E t \in Workers : Refused(t) \/ Victim(t) \/ Crash(t)
    \/ AccountStep
    \/ Tick

Spec == Init /\ [][Next]_vars

\* A transaction that was begun goes on, a deadlock is broken, time passes and
\* the cron job runs.  A run waits for rows that requests lock again and again;
\* PostgreSQL serves the waiters of a row in order, so a step of a run that is
\* possible again and again is taken: strong fairness.
TxStep(c) == CreateCommit(c) \/ Claim(c) \/ SpendStake(c) \/ AcceptCommit(c)
             \/ CloseCommit(c) \/ Refused(c)
Fairness ==
    /\ WF_vars(Tick)
    /\ \A c \in Clients : WF_vars(TxStep(c)) /\ WF_vars(Victim(c))
    /\ \A r \in Runs : SF_vars(RunStep(r) \/ Refused(r)) /\ WF_vars(Victim(r))
FairSpec == Spec /\ Fairness

=============================================================================
