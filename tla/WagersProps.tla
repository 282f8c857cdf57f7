---------------------------- MODULE WagersProps -----------------------------
(***************************************************************************)
(* What wagers promise: coins are neither created nor lost by requests     *)
(* that race, fail half-way or deadlock, and every wager has one end.      *)
(***************************************************************************)
EXTENDS Wagers, Functions

NetOf(w, u) == (IF u = CreatorOf[w] THEN net[w].creator ELSE 0)
               + (IF u = OpponentOf[w] THEN net[w].opponent ELSE 0)

\* reconcileCoinLedger: the balance of a user is the sum of the reward
\* transactions, whatever mix of stakes, payouts, rewards, purchases,
\* rollbacks and deadlocks happened.
CoinsReconcile == \A u \in Users : account[u] # "DELETED" =>
    coins[u] = other[u] + SumFunctionOnSet([w \in Wagers |-> NetOf(w, u)], Wagers)

\* Coins move with the wager and never by halves: nothing before acceptance or
\* when it is closed, both stakes while it is active, and the pot paid out
\* exactly once when it is completed.
StakesFollowStatus == \A w \in Wagers :
    LET s == Stake[w] IN
    /\ status[w] \in {"ABSENT", "PENDING", "DECLINED", "CANCELLED", "EXPIRED"}
         => net[w] = Even
    /\ status[w] = "ACTIVE" => net[w] = [creator |-> -s, opponent |-> -s]
    /\ status[w] = "COMPLETED" => net[w] =
         CASE outcome[w] = "CREATOR" -> [creator |-> s, opponent |-> -s]
           [] outcome[w] = "OPPONENT" -> [creator |-> -s, opponent |-> s]
           [] outcome[w] = "DRAW" -> Even

\* Accept, decline, cancel, expiry and two scheduler runs race for a wager and
\* one of them wins: the statements, locks and rollbacks implement the wager as
\* its players see it.  What has ended is never reopened or ended again, and an
\* active wager can no longer be withdrawn.
Book == INSTANCE WagerBook WITH state <- status
ImplementsBook == Book!Spec

\* No invitation stays open and no wager stays unsettled: the scheduler ends
\* each of them, in spite of locks, deadlocks and restarts, as long as
\* deadlocks do not go on for ever: a run that one aborts is not retried, and
\* nothing in the code keeps the next from meeting another.  (Those whose
\* time comes within the bound of the clock.)
WagersEnd == <>[](\A t \in Workers : ~Deadlocked(t)) => \A w \in Wagers :
    /\ status[w] = "PENDING" /\ invitedAt[w] + InviteExpiry <= MaxTime
         ~> status[w] # "PENDING"
    /\ status[w] = "ACTIVE" /\ endDate[w] <= MaxTime ~> status[w] # "ACTIVE"

=============================================================================
