---------------------------- MODULE WagersProofs ----------------------------
(***************************************************************************)
(* Proofs about wagers, for every set of users, wagers, requests and       *)
(* scheduler runs: no two transactions hold a row, what a transaction read *)
(* of the rows it holds stays true until it ends, and therefore the coins  *)
(* move with the wager and the transactions implement the wager book.      *)
(***************************************************************************)
EXTENDS WagersProps, SumTheorems, TLAPS

-----------------------------------------------------------------------------
(* The inductive invariant                                                 *)

Claimers == {"accept", "decline", "cancel", "resolve"}

\* No two transactions hold the same row.
LocksExclude == \A t, u \in Workers : t # u =>
    \A i \in 1..tx[t].got, j \in 1..tx[u].got : Rows(tx[t])[i] # Rows(tx[u])[j]

\* A transaction takes its rows in order, and no more than it has.
LocksInOrder == \A t \in Workers : tx[t].got <= Len(Rows(tx[t]))

\* The row of a claimed wager stays what the claim found.
ClaimsHold == \A t \in Workers :
    tx[t].op \in Claimers /\ tx[t].got > 0 => Claimable(tx[t].op, tx[t].wager)

\* A wager is created by one request, before anything else happens to it.
CreationsAlone == \A t \in Workers : tx[t].op = "create" =>
    /\ status[tx[t].wager] = "ABSENT"
    /\ \A u \in Workers : tx[u].op = "create" /\ tx[u].wager = tx[t].wager => u = t

\* A stake that was found stays in the balance until the transaction ends.
StakesThere == \A t \in Workers : tx[t].op = "accept" =>
    LET w == tx[t].wager IN
    /\ tx[t].got > 1 => coins[CreatorOf[w]] >= Stake[w]
    /\ tx[t].got > 2 => coins[OpponentOf[w]] >= Stake[w]

\* A resolution has a result.
ResultsKnown == \A t \in Workers :
    tx[t].op = "resolve" => tx[t].result \in Outcome

Safe == /\ TypeOK
        /\ LocksExclude
        /\ LocksInOrder
        /\ ClaimsHold
        /\ CreationsAlone
        /\ StakesThere
        /\ ResultsKnown
        /\ StakesFollowStatus

-----------------------------------------------------------------------------
(* The rows of a transaction                                               *)

\* A transaction locks the wager, and then the profiles it charges or pays.
LEMMA RowsOf ==
  ASSUME NEW x \in Transaction
  PROVE  /\ Len(Rows(x)) \in 0..3
         /\ x.op \in Claimers => Len(Rows(x)) > 0 /\ Rows(x)[1] = x.wager
         /\ x.op = "accept" => /\ Len(Rows(x)) = 3
                               /\ Rows(x)[2] = CreatorOf[x.wager]
                               /\ Rows(x)[3] = OpponentOf[x.wager]
         /\ x.op \in {"decline", "cancel"} => Len(Rows(x)) = 1
         /\ x.op = "resolve" => Len(Rows(x)) > 1
         /\ x.op = "resolve" /\ x.result = "DRAW" =>
              /\ Len(Rows(x)) = 3
              /\ Rows(x)[2] = CreatorOf[x.wager]
              /\ Rows(x)[3] = OpponentOf[x.wager]
         /\ x.op = "resolve" /\ x.result = "CREATOR" =>
              /\ Len(Rows(x)) = 2
              /\ Rows(x)[2] = CreatorOf[x.wager]
         /\ x.op = "resolve" /\ x.result = "OPPONENT" =>
              /\ Len(Rows(x)) = 2
              /\ Rows(x)[2] = OpponentOf[x.wager]
         /\ x.op \in {"none", "create"} => Len(Rows(x)) = 0
<1>1. x.op \in {"none", "create"} \cup Claimers
  BY DEF Transaction, Claimers
<1>2. CASE x.op \in {"none", "create"}
  BY <1>2 DEF Rows, Claimers
<1>3. CASE x.op = "accept"
  BY <1>3 DEF Rows, Claimers
<1>4. CASE x.op \in {"decline", "cancel"}
  BY <1>4 DEF Rows, Claimers
<1>5. CASE x.op = "resolve"
  <2> DEFINE p == PayeeRows(x.wager, x.result)
  <2>1. Rows(x) = <<x.wager>> \o p
    BY <1>5 DEF Rows
  <2>2. x.result \in {"CREATOR", "OPPONENT"} \/ x.result \in {"DRAW", "NONE"}
    BY DEF Transaction, Outcome
  <2>3. CASE x.result = "CREATOR"
    <3>1. p = <<CreatorOf[x.wager]>>
      BY <2>3 DEF PayeeRows
    <3> QED BY <1>5, <2>1, <2>3, <3>1 DEF Claimers
  <2>4. CASE x.result = "OPPONENT"
    <3>1. p = <<OpponentOf[x.wager]>>
      BY <2>4 DEF PayeeRows
    <3> QED BY <1>5, <2>1, <2>4, <3>1 DEF Claimers
  <2>5. CASE x.result \in {"DRAW", "NONE"}
    <3>1. p = <<CreatorOf[x.wager], OpponentOf[x.wager]>>
      BY <2>5 DEF PayeeRows
    <3> QED BY <1>5, <2>1, <2>5, <3>1 DEF Claimers
  <2> QED BY <2>2, <2>3, <2>4, <2>5
<1> QED BY <1>1, <1>2, <1>3, <1>4, <1>5 DEF Claimers

\* A worker with no transaction has the declared type and holds no row.
LEMMA IdleTyped == /\ IdleTx \in Transaction
                   /\ IdleTx.op = "none" /\ IdleTx.got = 0
BY WagerConstants DEF IdleTx, Transaction, AnyWager

\* What a transaction holds, in terms of how far it has come.
LEMMA HeldRows ==
  ASSUME NEW t \in Workers, tx \in [Workers -> Transaction],
         tx[t].got <= Len(Rows(tx[t]))
  PROVE  /\ tx[t].op \in Claimers /\ tx[t].got > 0 => Holds(t, tx[t].wager)
         /\ tx[t].op = "accept" /\ tx[t].got > 1 =>
              Holds(t, CreatorOf[tx[t].wager])
         /\ tx[t].op = "accept" /\ tx[t].got > 2 =>
              Holds(t, OpponentOf[tx[t].wager])
         /\ tx[t].op \in {"none", "create"} => tx[t].got = 0
<1>1. tx[t] \in Transaction /\ tx[t].got \in 0..3
  BY DEF Transaction
<1> QED BY <1>1, RowsOf DEF Holds, Claimers

\* The rows a transaction locks depend on what it does, to which wager, with
\* which result.
LEMMA SameRows ==
  ASSUME NEW x, NEW y, x.op = y.op, x.wager = y.wager, x.result = y.result
  PROVE  Rows(x) = Rows(y)
BY DEF Rows

\* A transaction that takes its next row holds one more row, and no other
\* transaction holds that row.
LEMMA AfterTake ==
  ASSUME tx \in [Workers -> Transaction], LocksExclude, LocksInOrder,
         NEW t \in Workers, tx[t].got < Len(Rows(tx[t])),
         Free(NextRow(t)), Take(t)
  PROVE  /\ tx' \in [Workers -> Transaction]
         /\ LocksExclude'
         /\ LocksInOrder'
<1> DEFINE n == tx[t].got
<1>1. tx[t] \in Transaction /\ n \in 0..3 /\ Len(Rows(tx[t])) \in 0..3
  BY RowsOf DEF Transaction
<1>2. tx' = [tx EXCEPT ![t] = [tx[t] EXCEPT !.got = n + 1]]
  BY DEF Take
<1>3. [tx[t] EXCEPT !.got = n + 1] \in Transaction
  <2>1. \A i, j \in 0..3 : i < j => i + 1 \in 0..3
    OBVIOUS
  <2>2. n + 1 \in 0..3
    BY <1>1, <2>1
  <2> QED BY <1>1, <2>2 DEF Transaction
<1>4. tx' \in [Workers -> Transaction]
  BY <1>2, <1>3
<1>5. /\ tx'[t].got = n + 1
      /\ \A u \in Workers : u # t => tx'[u] = tx[u]
      /\ \A u \in Workers : Rows(tx'[u]) = Rows(tx[u])
  <2>1. tx'[t].op = tx[t].op /\ tx'[t].wager = tx[t].wager
        /\ tx'[t].result = tx[t].result /\ tx'[t].got = n + 1
    BY <1>1, <1>2 DEF Transaction
  <2>2. Rows(tx'[t]) = Rows(tx[t])
    BY <2>1, SameRows
  <2> QED BY <1>2, <2>1, <2>2
<1>6. ASSUME NEW u \in Workers, u # t, NEW j \in 1..tx[u].got
      PROVE  Rows(tx[u])[j] # Rows(tx[t])[n + 1]
  BY <1>6 DEF Free, Holds, NextRow
<1>7. LocksExclude'
  <2> SUFFICES ASSUME NEW u \in Workers, NEW v \in Workers, u # v,
                      NEW i \in 1..tx'[u].got, NEW j \in 1..tx'[v].got
               PROVE  Rows(tx'[u])[i] # Rows(tx'[v])[j]
    BY DEF LocksExclude
  <2>1. CASE u # t /\ v # t
    BY <2>1, <1>5 DEF LocksExclude
  <2>2. CASE u = t
    <3>1. v # t /\ j \in 1..tx[v].got
      BY <2>2, <1>5
    <3>2. CASE i = n + 1
      BY <2>2, <3>1, <3>2, <1>5, <1>6
    <3>3. CASE i # n + 1
      <4>1. i \in 1..n
        BY <2>2, <3>3, <1>1, <1>5
      <4> QED BY <2>2, <3>1, <4>1, <1>5 DEF LocksExclude
    <3> QED BY <3>2, <3>3
  <2>3. CASE v = t
    <3>1. u # t /\ i \in 1..tx[u].got
      BY <2>3, <1>5
    <3>2. CASE j = n + 1
      BY <2>3, <3>1, <3>2, <1>5, <1>6
    <3>3. CASE j # n + 1
      <4>1. j \in 1..n
        BY <2>3, <3>3, <1>1, <1>5
      <4> QED BY <2>3, <3>1, <4>1, <1>5 DEF LocksExclude
    <3> QED BY <3>2, <3>3
  <2> QED BY <2>1, <2>2, <2>3
<1>8. LocksInOrder'
  BY <1>1, <1>5 DEF LocksInOrder
<1> QED BY <1>4, <1>7, <1>8

\* A transaction that begins or ends holds no row.
LEMMA AfterReset ==
  ASSUME tx \in [Workers -> Transaction], LocksExclude, LocksInOrder,
         NEW t \in Workers, NEW x \in Transaction, x.got = 0,
         tx' = [tx EXCEPT ![t] = x]
  PROVE  /\ tx' \in [Workers -> Transaction]
         /\ LocksExclude'
         /\ LocksInOrder'
<1>1. tx'[t] = x /\ \A u \in Workers : u # t => tx'[u] = tx[u]
  OBVIOUS
<1>2. LocksExclude'
  BY <1>1 DEF LocksExclude
<1>3. LocksInOrder'
  BY <1>1, RowsOf DEF LocksInOrder
<1> QED BY <1>2, <1>3

-----------------------------------------------------------------------------
(* What the steps do to the transactions                                   *)

\* A step begins a transaction, ends one, lets one take its next row while
\* everything else stays, or leaves the transactions alone.
TxBegins ==
    \/ \E c \in Clients, w \in Wagers : CreateBegin(c, w)
    \/ \E c \in Clients, w \in Wagers, op \in {"accept", "decline", "cancel"} :
         Begin(c, op, w)
    \/ \E r \in Runs, w \in Wagers : ResolveBegin(r, w) /\ tx' # tx
TxTakes ==
    \/ \E t \in Workers : Claim(t)
    \/ \E c \in Clients : SpendStake(c)
    \/ \E r \in Runs : Payout(r)
TxEnds ==
    \/ \E c \in Clients : CreateCommit(c) \/ AcceptCommit(c) \/ CloseCommit(c)
    \/ \E r \in Runs : ResolveCommit(r)
    \/ \E t \in Workers : Refused(t) \/ Victim(t) \/ Crash(t)
TxRests ==
    \/ \E r \in Runs, w \in Wagers : ResolveBegin(r, w) /\ tx' = tx
    \/ \E r \in Runs : RunBegin(r) \/ ExpireAndList(r) \/ RunEnd(r)
    \/ AccountStep
    \/ Tick
    \/ UNCHANGED vars

\* A step begins a transaction, takes a row, ends one, or leaves all of them.
LEMMA StepKinds ==
  ASSUME [Next]_vars
  PROVE  TxBegins \/ TxTakes \/ TxEnds \/ TxRests
BY DEF Next, ClientStep, RunStep, TxBegins, TxTakes, TxEnds, TxRests, Workers

\* The last kind leaves all transactions as they are.
LEMMA RestsKeep == TxRests => tx' = tx
BY DEF TxRests, AccountStep, RunBegin, ExpireAndList, RunEnd, Earn, Purchase,
       Deactivate, DeleteData, Tick, vars

\* A transaction that ends releases what it held.
LEMMA EndsReset ==
  ASSUME TxEnds
  PROVE  \E t \in Workers : Finish(t)
BY DEF TxEnds, CreateCommit, AcceptCommit, CloseCommit, ResolveCommit, Refused,
       Victim, Crash, Rollback, Workers

\* A transaction takes its next row only when nobody holds it, and no table
\* changes by that.
LEMMA TakesNext ==
  ASSUME TypeOK, LocksInOrder, TxTakes
  PROVE  /\ \E t \in Workers : /\ tx[t].got < Len(Rows(tx[t]))
                               /\ Free(NextRow(t))
                               /\ Take(t)
         /\ UNCHANGED <<now, wagerVars, coinVars, account, run, crashes>>
<1>1. ASSUME NEW t \in Workers
      PROVE  tx[t] \in Transaction /\ tx[t].got <= Len(Rows(tx[t]))
             /\ tx[t].got \in 0..3 /\ Len(Rows(tx[t])) \in 0..3
  BY RowsOf DEF TypeOK, LocksInOrder, Transaction
<1>2. ASSUME NEW t \in Workers, Claim(t)
      PROVE  tx[t].got < Len(Rows(tx[t])) /\ Free(NextRow(t)) /\ Take(t)
  <2>1. Len(Rows(tx[t])) > 0 /\ Rows(tx[t])[1] = tx[t].wager
    BY <1>1, <1>2, RowsOf DEF Claim, Claimers
  <2> QED BY <2>1, <1>1, <1>2 DEF Claim, NextRow
<1>3. ASSUME NEW c \in Clients, SpendStake(c)
      PROVE  tx[c].got < Len(Rows(tx[c])) /\ Free(NextRow(c)) /\ Take(c)
  <2>1. c \in Workers
    BY DEF Workers
  <2>2. Len(Rows(tx[c])) = 3
    BY <1>1, <1>3, <2>1, RowsOf DEF SpendStake
  <2> QED BY <2>2, <1>3 DEF SpendStake
<1>4. ASSUME NEW r \in Runs, Payout(r)
      PROVE  tx[r].got < Len(Rows(tx[r])) /\ Free(NextRow(r)) /\ Take(r)
  <2>1. r \in Workers
    BY DEF Workers
  <2>2. tx[r].got # Len(Rows(tx[r]))
    BY <1>4 DEF Payout, HasAll
  <2> QED BY <1>1, <2>1, <2>2, <1>4 DEF Payout
<1>5. UNCHANGED <<now, wagerVars, coinVars, account, run, crashes>>
  BY DEF TxTakes, Claim, SpendStake, Payout
<1> QED BY <1>2, <1>3, <1>4, <1>5 DEF TxTakes, Workers

\* What a transaction is when it begins.
LEMMA BeginsFresh ==
  ASSUME TypeOK, TxBegins
  PROVE  /\ \E t \in Workers, x \in Transaction :
              /\ x.got = 0
              /\ x.op = "create" => /\ status[x.wager] = "ABSENT"
                                    /\ \A u \in Workers :
                                         tx[u].wager = x.wager => tx[u].op # "create"
              /\ x.op = "resolve" => x.result \in Outcome
              /\ tx' = [tx EXCEPT ![t] = x]
         /\ UNCHANGED <<now, wagerVars, coinVars, account, crashes>>
<1>1. now \in 0..MaxTime /\ \A r \in Runs : run[r].at \in 0..MaxTime
  BY DEF TypeOK
<1>2. CASE \E c \in Clients, w \in Wagers : CreateBegin(c, w)
  <2>1. PICK c \in Clients, w \in Wagers : CreateBegin(c, w)
    BY <1>2
  <2> DEFINE x == [op |-> "create", wager |-> w, got |-> 0, at |-> now,
                   result |-> "NONE"]
  <2>2. x \in Transaction /\ c \in Workers
    BY <1>1 DEF Transaction, Workers
  <2>3. x.got = 0 /\ x.op = "create" /\ x.wager = w
    OBVIOUS
  <2>4. /\ status[w] = "ABSENT"
        /\ \A u \in Workers : tx[u].wager = w => tx[u].op # "create"
        /\ tx' = [tx EXCEPT ![c] = x]
        /\ UNCHANGED <<now, wagerVars, coinVars, account, crashes>>
    BY <2>1 DEF CreateBegin
  <2> HIDE DEF x
  <2> QED BY <2>2, <2>3, <2>4
<1>3. CASE \E c \in Clients, w \in Wagers,
              op \in {"accept", "decline", "cancel"} : Begin(c, op, w)
  <2>1. PICK c \in Clients, w \in Wagers,
             op \in {"accept", "decline", "cancel"} : Begin(c, op, w)
    BY <1>3
  <2> DEFINE x == [op |-> op, wager |-> w, got |-> 0, at |-> now,
                   result |-> "NONE"]
  <2>2. x \in Transaction /\ c \in Workers
    BY <1>1 DEF Transaction, Workers
  <2>3. x.got = 0 /\ x.op \notin {"create", "resolve"}
    OBVIOUS
  <2>4. /\ tx' = [tx EXCEPT ![c] = x]
        /\ UNCHANGED <<now, wagerVars, coinVars, account, crashes>>
    BY <2>1 DEF Begin
  <2> HIDE DEF x
  <2> QED BY <2>2, <2>3, <2>4
<1>4. CASE \E r \in Runs, w \in Wagers : ResolveBegin(r, w) /\ tx' # tx
  <2>1. PICK r \in Runs, w \in Wagers : ResolveBegin(r, w) /\ tx' # tx
    BY <1>4
  <2>2. PICK result \in TaskResults(w) :
          tx' = [tx EXCEPT ![r] = [op |-> "resolve", wager |-> w, got |-> 0,
                                   at |-> run[r].at, result |-> result]]
    BY <2>1 DEF ResolveBegin
  <2> DEFINE x == [op |-> "resolve", wager |-> w, got |-> 0, at |-> run[r].at,
                   result |-> result]
  <2>3. result \in Outcome
    BY DEF TaskResults, Winner, Outcome
  <2>4. x \in Transaction /\ r \in Workers
    BY <1>1, <2>3 DEF Transaction, Workers
  <2>5. x.got = 0 /\ x.op = "resolve" /\ x.result = result
    OBVIOUS
  <2>6. UNCHANGED <<now, wagerVars, coinVars, account, crashes>>
    BY <2>1 DEF ResolveBegin
  <2> HIDE DEF x
  <2> QED BY <2>2, <2>3, <2>4, <2>5, <2>6 DEF x
<1> QED BY <1>2, <1>3, <1>4 DEF TxBegins

\* Whatever the step, the transactions stay well formed and their rows apart.
LEMMA LocksStep ==
  ASSUME TypeOK, LocksExclude, LocksInOrder, [Next]_vars
  PROVE  /\ tx' \in [Workers -> Transaction]
         /\ LocksExclude'
         /\ LocksInOrder'
<1>1. tx \in [Workers -> Transaction]
  BY DEF TypeOK
<1>2. CASE TxBegins
  BY <1>1, <1>2, BeginsFresh, AfterReset
<1>3. CASE TxTakes
  BY <1>1, <1>3, TakesNext, AfterTake
<1>4. CASE TxEnds
  BY <1>1, <1>4, EndsReset, IdleTyped, AfterReset DEF Finish
<1>5. CASE TxRests
  BY <1>1, <1>5, RestsKeep DEF LocksExclude, LocksInOrder
<1> QED BY <1>2, <1>3, <1>4, <1>5, StepKinds

\* The players of a wager are two users, and what they stake is a number.
LEMMA Players2 == \A w \in Wagers :
    /\ CreatorOf[w] \in Users /\ OpponentOf[w] \in Users
    /\ CreatorOf[w] # OpponentOf[w]
    /\ Stake[w] \in Nat
BY WagerConstants

\* A transaction that has all its rows may do what it does: an acceptance finds
\* the invitation open and both stakes in the balances.
LEMMA AcceptFinds ==
  ASSUME Safe, NEW c \in Clients, AcceptCommit(c)
  PROVE  /\ c \in Workers /\ tx[c].wager \in Wagers
         /\ status[tx[c].wager] = "PENDING"
         /\ coins[CreatorOf[tx[c].wager]] >= Stake[tx[c].wager]
         /\ coins[OpponentOf[tx[c].wager]] >= Stake[tx[c].wager]
         /\ Holds(c, tx[c].wager)
         /\ Holds(c, CreatorOf[tx[c].wager])
         /\ Holds(c, OpponentOf[tx[c].wager])
<1>1. c \in Workers /\ tx[c] \in Transaction /\ tx[c].wager \in Wagers
  BY DEF Workers, Safe, TypeOK, Transaction
<1>2. tx[c].op = "accept" /\ tx[c].got = 3
  BY <1>1, RowsOf DEF AcceptCommit, HasAll
<1>3. status[tx[c].wager] = "PENDING"
  BY <1>1, <1>2 DEF Safe, ClaimsHold, Claimers, Claimable
<1>4. /\ coins[CreatorOf[tx[c].wager]] >= Stake[tx[c].wager]
      /\ coins[OpponentOf[tx[c].wager]] >= Stake[tx[c].wager]
  BY <1>1, <1>2 DEF Safe, StakesThere
<1>5. tx \in [Workers -> Transaction] /\ tx[c].got <= Len(Rows(tx[c]))
  BY <1>1 DEF Safe, TypeOK, LocksInOrder
<1>6. /\ Holds(c, tx[c].wager)
      /\ Holds(c, CreatorOf[tx[c].wager])
      /\ Holds(c, OpponentOf[tx[c].wager])
  BY <1>1, <1>2, <1>5, HeldRows DEF Claimers
<1> QED BY <1>1, <1>3, <1>4, <1>6

\* A request that closes an invitation finds it pending and holds its row.
LEMMA CloseFinds ==
  ASSUME Safe, NEW c \in Clients, CloseCommit(c)
  PROVE  /\ c \in Workers /\ tx[c].wager \in Wagers
         /\ status[tx[c].wager] = "PENDING"
         /\ Holds(c, tx[c].wager)
<1>1. c \in Workers /\ tx[c] \in Transaction /\ tx[c].wager \in Wagers
  BY DEF Workers, Safe, TypeOK, Transaction
<1>2. tx[c].op \in {"decline", "cancel"} /\ tx[c].got = 1
  BY <1>1, RowsOf DEF CloseCommit, HasAll
<1>3. status[tx[c].wager] = "PENDING"
  BY <1>1, <1>2 DEF Safe, ClaimsHold, Claimers, Claimable
<1>4. tx \in [Workers -> Transaction] /\ tx[c].got <= Len(Rows(tx[c]))
  BY <1>1 DEF Safe, TypeOK, LocksInOrder
<1> QED BY <1>1, <1>2, <1>3, <1>4, HeldRows DEF Claimers

\* A resolution finds an active wager and holds its row.
LEMMA ResolveFinds ==
  ASSUME Safe, NEW r \in Runs, ResolveCommit(r)
  PROVE  /\ r \in Workers /\ tx[r].wager \in Wagers
         /\ status[tx[r].wager] = "ACTIVE"
         /\ tx[r].result \in Outcome
         /\ Holds(r, tx[r].wager)
<1>1. r \in Workers /\ tx[r] \in Transaction /\ tx[r].wager \in Wagers
  BY DEF Workers, Safe, TypeOK, Transaction
<1>2. tx[r].op = "resolve" /\ tx[r].got > 0
  BY <1>1 DEF ResolveCommit
<1>3. status[tx[r].wager] = "ACTIVE" /\ tx[r].result \in Outcome
  BY <1>1, <1>2 DEF Safe, ClaimsHold, Claimers, Claimable, ResultsKnown
<1>4. tx \in [Workers -> Transaction] /\ tx[r].got <= Len(Rows(tx[r]))
  BY <1>1 DEF Safe, TypeOK, LocksInOrder
<1> QED BY <1>1, <1>2, <1>3, <1>4, HeldRows DEF Claimers

\* A creation finds no such wager.
LEMMA CreateFinds ==
  ASSUME Safe, NEW c \in Clients, CreateCommit(c)
  PROVE  /\ c \in Workers /\ tx[c].wager \in Wagers
         /\ status[tx[c].wager] = "ABSENT"
<1>1. c \in Workers /\ tx[c] \in Transaction /\ tx[c].wager \in Wagers
  BY DEF Workers, Safe, TypeOK, Transaction
<1> QED BY <1>1 DEF CreateCommit, Safe, CreationsAlone

\* Types are kept; in particular no balance becomes negative.
LEMMA TypeStep ==
  ASSUME Safe, [Next]_vars
  PROVE  TypeOK'
<1>1. TypeOK /\ LocksExclude /\ LocksInOrder
  BY DEF Safe
<1>2. tx' \in [Workers -> Transaction]
  BY <1>1, LocksStep
<1> USE Players2, WagerConstants
<1>3. CASE TxBegins
  <2>1. UNCHANGED <<now, wagerVars, coinVars, account, crashes>>
    BY <1>1, <1>3, BeginsFresh
  <2>2. run' \in [Runs -> [phase: {"idle", "expire", "resolve"},
                           at: 0..MaxTime, todo: SUBSET Wagers]]
    <3>1. ASSUME NEW r \in Runs, NEW w \in Wagers, ResolveBegin(r, w)
          PROVE  run' = [run EXCEPT ![r].todo = @ \ {w}]
      BY <3>1 DEF ResolveBegin
    <3>2. run' = run \/ \E r \in Runs, w \in Wagers :
                           run' = [run EXCEPT ![r].todo = @ \ {w}]
      BY <1>3, <3>1 DEF TxBegins, CreateBegin, Begin
    <3> QED BY <1>1, <3>2 DEF TypeOK
  <2> QED BY <1>1, <1>2, <2>1, <2>2 DEF TypeOK, wagerVars, coinVars
<1>4. CASE TxTakes
  <2>1. UNCHANGED <<now, wagerVars, coinVars, account, run, crashes>>
    BY <1>1, <1>4, TakesNext
  <2> QED BY <1>1, <1>2, <2>1 DEF TypeOK, wagerVars, coinVars
<1>5. ASSUME NEW c \in Clients, CreateCommit(c) PROVE TypeOK'
  BY <1>1, <1>2, <1>5, CreateFinds
     DEF TypeOK, CreateCommit, coinVars, Open
<1>6. ASSUME NEW c \in Clients, AcceptCommit(c) PROVE TypeOK'
  <2> DEFINE w == tx[c].wager
  <2>1. c \in Workers /\ w \in Wagers
        /\ coins[CreatorOf[w]] >= Stake[w] /\ coins[OpponentOf[w]] >= Stake[w]
    BY <1>6, AcceptFinds
  <2>2. coins' \in [Users -> Nat]
    BY <1>1, <1>6, <2>1 DEF AcceptCommit, AfterStakes, TypeOK
  <2>3. endDate' \in [Wagers -> Nat]
    <3>1. tx[c].at + Duration \in Nat
      BY <1>1, <2>1 DEF TypeOK, Transaction
    <3> QED BY <1>1, <1>6, <2>1, <3>1 DEF AcceptCommit, TypeOK
  <2>4. net' \in [Wagers -> Side]
    <3>1. [creator |-> net[w].creator - Stake[w],
           opponent |-> net[w].opponent - Stake[w]] \in Side
      BY <1>1, <2>1 DEF TypeOK, Side
    <3> QED BY <1>1, <1>6, <2>1, <3>1 DEF AcceptCommit, TypeOK
  <2>5. status' \in [Wagers -> {"ABSENT"} \cup Open \cup Ended]
    BY <1>1, <1>6, <2>1 DEF AcceptCommit, TypeOK, Open
  <2> QED BY <1>1, <1>2, <1>6, <2>2, <2>3, <2>4, <2>5 DEF AcceptCommit, TypeOK
<1>7. ASSUME NEW c \in Clients, CloseCommit(c) PROVE TypeOK'
  BY <1>1, <1>2, <1>7, CloseFinds
     DEF TypeOK, CloseCommit, coinVars, Ended
<1>8. ASSUME NEW r \in Runs, ResolveCommit(r) PROVE TypeOK'
  <2> DEFINE w == tx[r].wager
             prize == Prize(w, tx[r].result)
  <2>1. r \in Workers /\ w \in Wagers /\ tx[r].result \in Outcome
    BY <1>8, ResolveFinds
  <2>2. prize.creator \in Nat /\ prize.opponent \in Nat
    BY <2>1 DEF Prize, Outcome
  <2> HIDE DEF prize
  <2>3. coins' = [coins EXCEPT ![CreatorOf[w]] = @ + prize.creator,
                               ![OpponentOf[w]] = @ + prize.opponent]
    BY <1>8 DEF ResolveCommit, prize
  <2>4. coins' \in [Users -> Nat]
    BY <1>1, <2>1, <2>2, <2>3 DEF TypeOK
  <2>5. net' = [net EXCEPT ![w] = [creator |-> @.creator + prize.creator,
                                   opponent |-> @.opponent + prize.opponent]]
    BY <1>8 DEF ResolveCommit, prize
  <2>6. net' \in [Wagers -> Side]
    <3>1. [creator |-> net[w].creator + prize.creator,
           opponent |-> net[w].opponent + prize.opponent] \in Side
      BY <1>1, <2>1, <2>2 DEF TypeOK, Side
    <3> QED BY <1>1, <2>1, <2>5, <3>1 DEF TypeOK
  <2>7. /\ status' \in [Wagers -> {"ABSENT"} \cup Open \cup Ended]
        /\ outcome' \in [Wagers -> Outcome \cup {"NONE"}]
    BY <1>1, <1>8, <2>1 DEF ResolveCommit, TypeOK, Ended
  <2> QED BY <1>1, <1>2, <1>8, <2>4, <2>6, <2>7 DEF ResolveCommit, TypeOK
<1>9. ASSUME NEW t \in Workers, Refused(t) PROVE TypeOK'
  BY <1>1, <1>2, <1>9 DEF TypeOK, Refused, wagerVars, coinVars
<1>10. ASSUME NEW t \in Workers, Victim(t) \/ Crash(t) PROVE TypeOK'
  <2>1. Rollback(t) /\ crashes' \in 0..MaxCrashes
    BY <1>1, <1>10 DEF Victim, Crash, TypeOK
  <2>2. run' \in [Runs -> [phase: {"idle", "expire", "resolve"},
                           at: 0..MaxTime, todo: SUBSET Wagers]]
    BY <1>1, <2>1 DEF Rollback, IdleRun, TypeOK
  <2> QED BY <1>1, <1>2, <2>1, <2>2 DEF TypeOK, Rollback, wagerVars, coinVars
<1>11. ASSUME NEW r \in Runs, NEW w \in Wagers, ResolveBegin(r, w), tx' = tx
       PROVE  TypeOK'
  BY <1>1, <1>2, <1>11 DEF TypeOK, ResolveBegin, wagerVars, coinVars
<1>12. ASSUME NEW r \in Runs, RunBegin(r) PROVE TypeOK'
  BY <1>1, <1>2, <1>12 DEF TypeOK, RunBegin, wagerVars, coinVars
<1>13. ASSUME NEW r \in Runs, ExpireAndList(r) PROVE TypeOK'
  <2>1. status' \in [Wagers -> {"ABSENT"} \cup Open \cup Ended]
    BY <1>1, <1>13 DEF ExpireAndList, TypeOK, Ended
  <2>2. Due(run[r].at) \in SUBSET Wagers
    BY DEF Due
  <2>3. run' \in [Runs -> [phase: {"idle", "expire", "resolve"},
                           at: 0..MaxTime, todo: SUBSET Wagers]]
    <3>1. [run[r] EXCEPT !.phase = "resolve", !.todo = Due(run[r].at)]
            \in [phase: {"idle", "expire", "resolve"}, at: 0..MaxTime,
                 todo: SUBSET Wagers]
      <4>1. run[r] \in [phase: {"idle", "expire", "resolve"}, at: 0..MaxTime,
                        todo: SUBSET Wagers]
        BY <1>1 DEF TypeOK
      <4> QED BY <2>2, <4>1
    <3> QED BY <1>1, <1>13, <3>1 DEF ExpireAndList, TypeOK
  <2> QED BY <1>1, <1>2, <1>13, <2>1, <2>3 DEF TypeOK, ExpireAndList, coinVars
<1>14. ASSUME NEW r \in Runs, RunEnd(r) PROVE TypeOK'
  BY <1>1, <1>2, <1>14 DEF TypeOK, RunEnd, IdleRun, wagerVars, coinVars
<1>15. ASSUME NEW u \in Users, Earn(u) PROVE TypeOK'
  BY <1>1, <1>2, <1>15 DEF TypeOK, Earn, wagerVars
<1>16. ASSUME NEW u \in Users, Purchase(u) PROVE TypeOK'
  BY <1>1, <1>2, <1>16 DEF TypeOK, Purchase, CanSpend, wagerVars
<1>17. ASSUME NEW u \in Users, Deactivate(u) PROVE TypeOK'
  BY <1>1, <1>2, <1>17 DEF TypeOK, Deactivate, wagerVars, coinVars
<1>18. ASSUME NEW u \in Users, DeleteData(u) PROVE TypeOK'
  BY <1>1, <1>2, <1>18 DEF TypeOK, DeleteData, WagersOf, Ended
<1>19. CASE Tick
  BY <1>1, <1>2, <1>19 DEF TypeOK, Tick, wagerVars, coinVars
<1>20. CASE UNCHANGED vars
  BY <1>1, <1>20 DEF TypeOK, vars
<1> QED
  BY StepKinds, <1>3, <1>4, <1>5, <1>6, <1>7, <1>8, <1>9, <1>10, <1>11, <1>12,
     <1>13, <1>14, <1>15, <1>16, <1>17, <1>18, <1>19, <1>20
     DEF TxEnds, TxRests, AccountStep

-----------------------------------------------------------------------------
(* What a transaction found stays true                                     *)

\* A row that one transaction holds no other does.
LEMMA Exclusive ==
  ASSUME LocksExclude, NEW t \in Workers, NEW row, Holds(t, row)
  PROVE  \A u \in Workers : u # t => ~Holds(u, row)
BY DEF LocksExclude, Holds

\* A step ends, begins or keeps a transaction, or it takes one more row while
\* every table stays as it is.
LEMMA TxMoves ==
  ASSUME Safe, [Next]_vars, NEW t \in Workers
  PROVE  \/ tx'[t] = tx[t]
         \/ tx'[t].got = 0
         \/ /\ tx'[t].op = tx[t].op /\ tx'[t].wager = tx[t].wager
            /\ tx'[t].result = tx[t].result
            /\ tx'[t].got = tx[t].got + 1
            /\ tx[t].got \in 0..2
            /\ tx[t].got = 0 /\ tx[t].op \in Claimers =>
                 Claimable(tx[t].op, tx[t].wager)
            /\ tx[t].got \in {1, 2} /\ tx[t].op = "accept" =>
                 coins[NextRow(t)] >= Stake[tx[t].wager]
            /\ UNCHANGED <<now, wagerVars, coinVars, account, run, crashes>>
<1>1. TypeOK /\ LocksInOrder /\ tx \in [Workers -> Transaction]
  BY DEF Safe, TypeOK
<1>2. CASE TxBegins
  BY <1>1, <1>2, BeginsFresh
<1>3. CASE TxEnds
  BY <1>1, <1>3, EndsReset, IdleTyped DEF Finish
<1>4. CASE TxRests
  BY <1>4, RestsKeep
<1>5. CASE TxTakes
  <2>1. UNCHANGED <<now, wagerVars, coinVars, account, run, crashes>>
    BY <1>1, <1>5, TakesNext
  <2>2. PICK u \in Workers :
             /\ Take(u)
             /\ \/ Claim(u)
                \/ u \in Clients /\ SpendStake(u)
                \/ u \in Runs /\ Payout(u)
    BY <1>5 DEF TxTakes, Claim, SpendStake, Payout, Workers
  <2>3. CASE u # t
    BY <1>1, <2>2, <2>3 DEF Take
  <2>4. CASE u = t
    <3>1. tx[t] \in Transaction /\ tx[t].got \in 0..3
          /\ tx'[t] = [tx[t] EXCEPT !.got = @ + 1]
      BY <1>1, <2>2, <2>4 DEF Take, Transaction
    <3>2. tx'[t].op = tx[t].op /\ tx'[t].wager = tx[t].wager
          /\ tx'[t].result = tx[t].result /\ tx'[t].got = tx[t].got + 1
      BY <3>1 DEF Transaction
    <3>3. tx'[t].got \in 0..3
      BY <1>1, LocksStep DEF Safe, Transaction
    <3>4. tx[t].got \in 0..2
      BY <3>1, <3>2, <3>3
    <3>5. tx[t].got = 0 /\ tx[t].op \in Claimers =>
            Claimable(tx[t].op, tx[t].wager)
      BY <2>2, <2>4 DEF Claim, SpendStake, Payout
    <3>6. tx[t].got \in {1, 2} /\ tx[t].op = "accept" =>
            coins[NextRow(t)] >= Stake[tx[t].wager]
      BY <2>2, <2>4 DEF Claim, SpendStake, CanSpend, Payout
    <3> QED BY <2>1, <3>2, <3>4, <3>5, <3>6
  <2> QED BY <2>3, <2>4
<1> QED BY <1>2, <1>3, <1>4, <1>5, StepKinds

\* Once there is a wager, only the transaction that has locked its row changes
\* its status, and ends with that.
LEMMA StatusMoves ==
  ASSUME Safe, [Next]_vars, NEW w \in Wagers, status'[w] # status[w]
  PROVE  \/ status[w] = "ABSENT"
         \/ \A t \in Workers : Holds(t, w) => tx'[t].op = "none"
<1> DEFINE Goal == \A t \in Workers : Holds(t, w) => tx'[t].op = "none"
<1>1. TypeOK /\ LocksExclude /\ tx \in [Workers -> Transaction]
  BY DEF Safe, TypeOK
<1>2. status \in [Wagers -> {"ABSENT"} \cup Open \cup Ended]
  BY <1>1 DEF TypeOK
<1>3. CASE TxBegins
  BY <1>1, <1>3, BeginsFresh DEF wagerVars
<1>4. CASE TxTakes
  BY <1>1, <1>4, TakesNext DEF wagerVars, Safe
<1>5. ASSUME NEW c \in Clients, CreateCommit(c) PROVE status[w] = "ABSENT"
  BY <1>2, <1>5, CreateFinds DEF CreateCommit
<1>6. ASSUME NEW t \in Workers, Holds(t, tx[t].wager), Finish(t),
             \A v \in Wagers : v # tx[t].wager => status'[v] = status[v]
      PROVE  Goal
  <2>1. w = tx[t].wager
    BY <1>6
  <2>2. tx'[t].op = "none"
    BY <1>1, <1>6, IdleTyped DEF Finish
  <2> QED BY <1>1, <1>6, <2>1, <2>2, Exclusive
<1>7. ASSUME NEW c \in Clients, AcceptCommit(c) PROVE Goal
  BY <1>2, <1>6, <1>7, AcceptFinds DEF AcceptCommit
<1>8. ASSUME NEW c \in Clients, CloseCommit(c) PROVE Goal
  BY <1>2, <1>6, <1>8, CloseFinds DEF CloseCommit
<1>9. ASSUME NEW r \in Runs, ResolveCommit(r) PROVE Goal
  BY <1>2, <1>6, <1>9, ResolveFinds DEF ResolveCommit
<1>10. ASSUME NEW t \in Workers, Refused(t) \/ Victim(t) \/ Crash(t)
       PROVE  FALSE
  BY <1>10 DEF Refused, Victim, Crash, Rollback, wagerVars
<1>11. ASSUME NEW r \in Runs, ExpireAndList(r) PROVE Goal
  <2>1. w \in Overdue(run[r].at)
    BY <1>11 DEF ExpireAndList
  <2> QED BY <1>11, <2>1 DEF ExpireAndList, Free
<1>12. ASSUME NEW u \in Users, DeleteData(u) PROVE Goal
  <2>1. w \in {v \in WagersOf(u) : status[v] # "ABSENT"}
    BY <1>12 DEF DeleteData
  <2> QED BY <1>12, <2>1 DEF DeleteData, Free
<1>13. CASE TxRests
  BY <1>11, <1>12, <1>13
     DEF TxRests, AccountStep, RunBegin, RunEnd, ResolveBegin, Earn, Purchase,
         Deactivate, Tick, vars, wagerVars
<1> QED
  BY StepKinds, <1>3, <1>4, <1>5, <1>7, <1>8, <1>9, <1>10, <1>13 DEF TxEnds

\* A claimed wager keeps the status that was claimed.
LEMMA ClaimsStep ==
  ASSUME Safe, [Next]_vars
  PROVE  ClaimsHold'
<1> SUFFICES ASSUME NEW t \in Workers, tx'[t].op \in Claimers, tx'[t].got > 0
             PROVE  status'[tx'[t].wager] =
                      IF tx'[t].op = "resolve" THEN "ACTIVE" ELSE "PENDING"
  BY DEF ClaimsHold, Claimable
<1> DEFINE w == tx[t].wager
<1>1. /\ tx[t] \in Transaction /\ w \in Wagers
      /\ tx \in [Workers -> Transaction]
      /\ tx[t].got <= Len(Rows(tx[t]))
  BY DEF Safe, TypeOK, Transaction, LocksInOrder
<1>2. CASE tx'[t] = tx[t]
  <2>1. Claimable(tx[t].op, w) /\ Holds(t, w)
    BY <1>1, <1>2, HeldRows DEF Safe, ClaimsHold
  <2>2. status[w] # "ABSENT" /\ tx'[t].op # "none"
    BY <2>1 DEF Claimable, Claimers
  <2>3. status'[w] = status[w]
    BY <1>1, <2>1, <2>2, StatusMoves
  <2> QED BY <1>2, <2>1, <2>3 DEF Claimable
<1>3. CASE tx'[t].got = 0
  BY <1>3
<1>4. CASE /\ tx'[t].op = tx[t].op /\ tx'[t].wager = w
           /\ tx[t].got \in 0..2
           /\ tx[t].got = 0 /\ tx[t].op \in Claimers => Claimable(tx[t].op, w)
           /\ UNCHANGED wagerVars
  <2>1. Claimable(tx[t].op, w)
    BY <1>4 DEF Safe, ClaimsHold
  <2> QED BY <1>4, <2>1 DEF Claimable, wagerVars
<1> QED BY <1>1, <1>2, <1>3, <1>4, TxMoves

\* Nobody else touches a wager that is being created.
LEMMA CreationsStep ==
  ASSUME Safe, [Next]_vars
  PROVE  CreationsAlone'
<1>1. /\ tx \in [Workers -> Transaction] /\ tx' \in [Workers -> Transaction]
      /\ LocksInOrder
  BY LocksStep DEF Safe, TypeOK
<1>2. TypeOK /\ CreationsAlone /\ status \in [Wagers -> {"ABSENT"} \cup Open \cup Ended]
  BY DEF Safe, TypeOK
<1>3. CASE TxBegins
  <2>1. PICK t \in Workers, x \in Transaction :
          /\ x.op = "create" => /\ status[x.wager] = "ABSENT"
                                /\ \A u \in Workers :
                                     tx[u].wager = x.wager => tx[u].op # "create"
          /\ tx' = [tx EXCEPT ![t] = x]
    BY <1>2, <1>3, BeginsFresh
  <2>2. status' = status
    BY <1>2, <1>3, BeginsFresh DEF wagerVars
  <2>3. tx'[t] = x /\ \A u \in Workers : u # t => tx'[u] = tx[u]
    BY <1>1, <2>1
  <2> QED BY <1>2, <2>1, <2>2, <2>3 DEF CreationsAlone
<1>4. ASSUME \A t \in Workers :
               \/ tx'[t].op = "none"
               \/ tx'[t].op = tx[t].op /\ tx'[t].wager = tx[t].wager,
             \A t \in Workers : tx'[t].op = "create" =>
               status'[tx[t].wager] = status[tx[t].wager]
      PROVE  CreationsAlone'
  BY <1>2, <1>4 DEF CreationsAlone
<1>5. CASE TxTakes
  <2>1. /\ status' = status
        /\ \E t \in Workers : Take(t)
    BY <1>1, <1>2, <1>5, TakesNext DEF wagerVars
  <2>2. \A t \in Workers : tx'[t].op = tx[t].op /\ tx'[t].wager = tx[t].wager
    BY <1>1, <2>1 DEF Take, Transaction
  <2> QED BY <1>4, <2>1, <2>2
<1>6. CASE TxEnds
  <2>1. PICK t \in Workers : Finish(t)
    BY <1>6, EndsReset
  <2>2. tx'[t].op = "none" /\ \A u \in Workers : u # t => tx'[u] = tx[u]
    BY <1>1, <2>1, IdleTyped DEF Finish
  <2>3. ASSUME NEW u \in Workers, tx'[u].op = "create"
        PROVE  status'[tx[u].wager] = status[tx[u].wager]
    <3> DEFINE w == tx[u].wager
    <3>1. tx[u].op = "create" /\ w \in Wagers /\ status[w] = "ABSENT"
      BY <1>1, <1>2, <2>2, <2>3 DEF CreationsAlone, Transaction
    <3>2. ASSUME NEW c \in Clients, CreateCommit(c)
          PROVE  status'[w] = status[w]
      <4>1. c \in Workers /\ tx[c].op = "create" /\ c # u
        BY <1>1, <2>3, <3>2, IdleTyped DEF CreateCommit, Finish, Workers
      <4>2. tx[c].wager # w
        BY <1>2, <3>1, <4>1 DEF CreationsAlone
      <4> QED BY <1>2, <3>1, <3>2, <4>2 DEF CreateCommit
    <3>3. ASSUME NEW c \in Clients, AcceptCommit(c)
          PROVE  status'[w] = status[w]
      BY <1>2, <3>1, <3>3, AcceptFinds DEF AcceptCommit
    <3>4. ASSUME NEW c \in Clients, CloseCommit(c)
          PROVE  status'[w] = status[w]
      BY <1>2, <3>1, <3>4, CloseFinds DEF CloseCommit
    <3>5. ASSUME NEW r \in Runs, ResolveCommit(r)
          PROVE  status'[w] = status[w]
      BY <1>2, <3>1, <3>5, ResolveFinds DEF ResolveCommit
    <3>6. ASSUME NEW v \in Workers, Refused(v) \/ Victim(v) \/ Crash(v)
          PROVE  status'[w] = status[w]
      BY <3>6 DEF Refused, Victim, Crash, Rollback, wagerVars
    <3> QED BY <1>6, <3>2, <3>3, <3>4, <3>5, <3>6 DEF TxEnds
  <2> QED BY <1>4, <2>2, <2>3
<1>7. CASE TxRests
  <2>1. tx' = tx
    BY <1>7, RestsKeep
  <2>2. ASSUME NEW w \in Wagers, status[w] = "ABSENT"
        PROVE  status'[w] = "ABSENT"
    <3>1. ASSUME NEW r \in Runs, ExpireAndList(r) PROVE status'[w] = "ABSENT"
      BY <2>2, <3>1 DEF ExpireAndList, Overdue
    <3>2. ASSUME NEW u \in Users, DeleteData(u) PROVE status'[w] = "ABSENT"
      BY <2>2, <3>2 DEF DeleteData
    <3> QED BY <1>7, <2>2, <3>1, <3>2
            DEF TxRests, AccountStep, RunBegin, RunEnd, ResolveBegin, Earn,
                Purchase, Deactivate, Tick, vars, wagerVars
  <2> QED BY <1>1, <1>2, <1>4, <2>1, <2>2 DEF CreationsAlone, Transaction
<1> QED BY <1>3, <1>5, <1>6, <1>7, StepKinds

\* A resolution keeps the result it began with.
LEMMA ResultsStep ==
  ASSUME Safe, [Next]_vars
  PROVE  ResultsKnown'
<1>1. /\ tx \in [Workers -> Transaction]
      /\ TypeOK /\ LocksInOrder /\ ResultsKnown
  BY DEF Safe, TypeOK
<1>2. CASE TxBegins
  BY <1>1, <1>2, BeginsFresh DEF ResultsKnown
<1>3. CASE TxEnds
  BY <1>1, <1>3, EndsReset, IdleTyped DEF Finish, ResultsKnown
<1>4. CASE TxRests
  BY <1>1, <1>4, RestsKeep DEF ResultsKnown
<1>5. CASE TxTakes
  <2>1. \E t \in Workers : Take(t)
    BY <1>1, <1>5, TakesNext
  <2>2. \A t \in Workers : tx'[t].op = tx[t].op /\ tx'[t].result = tx[t].result
    BY <1>1, <2>1 DEF Take, Transaction
  <2> QED BY <1>1, <2>2 DEF ResultsKnown
<1> QED BY <1>2, <1>3, <1>4, <1>5, StepKinds

\* Only the transaction that has locked a balance makes it smaller, and ends
\* with that.
LEMMA CoinsMoves ==
  ASSUME Safe, [Next]_vars, NEW u \in Users, coins'[u] < coins[u]
  PROVE  \A t \in Workers : Holds(t, u) => tx'[t].op = "none"
<1> DEFINE Goal == \A t \in Workers : Holds(t, u) => tx'[t].op = "none"
<1>1. /\ TypeOK /\ LocksExclude /\ tx \in [Workers -> Transaction]
      /\ coins \in [Users -> Nat]
  BY DEF Safe, TypeOK
<1> USE Players2
<1>2. coins' # coins
  BY <1>1
<1>3. ASSUME NEW c \in Clients, AcceptCommit(c) PROVE Goal
  <2> DEFINE w == tx[c].wager
  <2>1. /\ c \in Workers /\ w \in Wagers
        /\ Holds(c, CreatorOf[w]) /\ Holds(c, OpponentOf[w])
    BY <1>3, AcceptFinds
  <2>2. coins' = AfterStakes(w) /\ tx' = [tx EXCEPT ![c] = IdleTx]
    BY <1>3 DEF AcceptCommit, Finish
  <2>3. u \in {CreatorOf[w], OpponentOf[w]}
    BY <1>1, <2>1, <2>2 DEF AfterStakes
  <2>4. Holds(c, u) /\ tx'[c].op = "none"
    BY <1>1, <2>1, <2>2, <2>3, IdleTyped
  <2> QED BY <1>1, <2>1, <2>4, Exclusive
<1>4. ASSUME NEW r \in Runs, ResolveCommit(r) PROVE FALSE
  <2> DEFINE w == tx[r].wager
             prize == Prize(w, tx[r].result)
  <2>1. w \in Wagers /\ tx[r].result \in Outcome
    BY <1>4, ResolveFinds
  <2>2. prize.creator \in Nat /\ prize.opponent \in Nat
    BY <2>1 DEF Prize, Outcome
  <2> HIDE DEF prize
  <2>3. coins' = [coins EXCEPT ![CreatorOf[w]] = @ + prize.creator,
                               ![OpponentOf[w]] = @ + prize.opponent]
    BY <1>4 DEF ResolveCommit, prize
  <2> QED BY <1>1, <2>1, <2>2, <2>3
<1>5. ASSUME NEW v \in Users, Earn(v) PROVE FALSE
  BY <1>1, <1>5 DEF Earn
<1>6. ASSUME NEW v \in Users, Purchase(v) PROVE Goal
  <2>1. v = u
    BY <1>1, <1>6 DEF Purchase
  <2> QED BY <1>6, <2>1 DEF Purchase, Free
<1>7. ASSUME NEW v \in Users, DeleteData(v) PROVE Goal
  <2>1. v = u
    BY <1>1, <1>7 DEF DeleteData
  <2> QED BY <1>7, <2>1 DEF DeleteData, Free
<1>8. CASE TxBegins
  BY <1>1, <1>2, <1>8, BeginsFresh DEF coinVars
<1>9. CASE TxTakes
  BY <1>1, <1>2, <1>9, TakesNext DEF coinVars, Safe
<1>10. ASSUME \/ \E c \in Clients : CreateCommit(c) \/ CloseCommit(c)
              \/ \E t \in Workers : Refused(t) \/ Victim(t) \/ Crash(t)
       PROVE  FALSE
  BY <1>2, <1>10 DEF CreateCommit, CloseCommit, Refused, Victim, Crash,
     Rollback, coinVars
<1>11. CASE TxRests
  BY <1>2, <1>5, <1>6, <1>7, <1>11
     DEF TxRests, AccountStep, RunBegin, RunEnd, ResolveBegin, ExpireAndList,
         Deactivate, Tick, vars, coinVars
<1> QED
  BY StepKinds, <1>3, <1>4, <1>8, <1>9, <1>10, <1>11 DEF TxEnds

\* A stake that was found is still there.
LEMMA StakesStep ==
  ASSUME Safe, [Next]_vars
  PROVE  StakesThere'
<1> SUFFICES ASSUME NEW t \in Workers, tx'[t].op = "accept"
             PROVE  LET w == tx'[t].wager IN
                    /\ tx'[t].got > 1 => coins'[CreatorOf[w]] >= Stake[w]
                    /\ tx'[t].got > 2 => coins'[OpponentOf[w]] >= Stake[w]
  BY DEF StakesThere
<1> DEFINE w == tx[t].wager
<1>1. /\ tx[t] \in Transaction /\ w \in Wagers
      /\ tx \in [Workers -> Transaction]
      /\ tx[t].got <= Len(Rows(tx[t])) /\ tx[t].got \in 0..3
      /\ coins \in [Users -> Nat] /\ coins' \in [Users -> Nat]
  BY TypeStep DEF Safe, TypeOK, Transaction, LocksInOrder
<1>2. /\ CreatorOf[w] \in Users /\ OpponentOf[w] \in Users /\ Stake[w] \in Nat
  BY <1>1, Players2
<1>3. CASE tx'[t] = tx[t]
  <2>1. /\ tx[t].got > 1 => Holds(t, CreatorOf[w])
        /\ tx[t].got > 2 => Holds(t, OpponentOf[w])
    BY <1>1, <1>3, HeldRows
  <2>2. /\ tx[t].got > 1 => coins'[CreatorOf[w]] >= coins[CreatorOf[w]]
        /\ tx[t].got > 2 => coins'[OpponentOf[w]] >= coins[OpponentOf[w]]
    <3>1. ASSUME NEW u \in Users, Holds(t, u)
          PROVE  coins'[u] >= coins[u]
      <4>1. ~(coins'[u] < coins[u])
        BY <3>1, CoinsMoves
      <4> QED BY <1>1, <4>1
    <3> QED BY <1>2, <2>1, <3>1
  <2>3. /\ tx[t].got > 1 => coins[CreatorOf[w]] >= Stake[w]
        /\ tx[t].got > 2 => coins[OpponentOf[w]] >= Stake[w]
    BY <1>3 DEF Safe, StakesThere
  <2> QED BY <1>1, <1>2, <1>3, <2>2, <2>3
<1>4. CASE tx'[t].got = 0
  BY <1>4
<1>5. CASE /\ tx'[t].op = tx[t].op /\ tx'[t].wager = w
           /\ tx'[t].got = tx[t].got + 1
           /\ tx[t].got \in 0..2
           /\ tx[t].got \in {1, 2} /\ tx[t].op = "accept" =>
                coins[NextRow(t)] >= Stake[w]
           /\ UNCHANGED coinVars
  <2>1. coins' = coins /\ tx[t].op = "accept"
    BY <1>5 DEF coinVars
  <2>2. Rows(tx[t])[2] = CreatorOf[w] /\ Rows(tx[t])[3] = OpponentOf[w]
    BY <1>1, <2>1, RowsOf
  <2>3. CASE tx[t].got = 0
    BY <1>5, <2>3
  <2>4. CASE tx[t].got = 1
    BY <1>5, <2>1, <2>2, <2>4 DEF NextRow
  <2>5. CASE tx[t].got = 2
    <3>1. coins[CreatorOf[w]] >= Stake[w]
      BY <2>1, <2>5 DEF Safe, StakesThere
    <3> QED BY <1>5, <2>1, <2>2, <2>5, <3>1 DEF NextRow
  <2> QED BY <1>5, <2>3, <2>4, <2>5
<1> QED BY <1>3, <1>4, <1>5, TxMoves

-----------------------------------------------------------------------------
(* The wager book                                                          *)

\* What a step does to the book: the actions of WagerBook, or nothing.
LEMMA BookStep ==
  ASSUME Safe, [Next]_vars
  PROVE  [Book!Next]_(Book!vars)
<1>1. TypeOK /\ StakesFollowStatus
  BY DEF Safe
<1>2. /\ status \in [Wagers -> {"ABSENT"} \cup Open \cup Ended]
      /\ net \in [Wagers -> Side]
  BY <1>1 DEF TypeOK
<1>3. ASSUME NEW c \in Clients, CreateCommit(c) PROVE Book!Next
  <2>1. tx[c].wager \in Wagers /\ status[tx[c].wager] = "ABSENT"
    BY <1>3, CreateFinds
  <2>2. Book!Invite(tx[c].wager)
    BY <1>3, <2>1 DEF CreateCommit, Book!Invite
  <2> QED BY <2>1, <2>2 DEF Book!Next
<1>4. ASSUME NEW c \in Clients, AcceptCommit(c) PROVE Book!Next
  <2> DEFINE w == tx[c].wager
  <2>1. w \in Wagers /\ status[w] = "PENDING" /\ Stake[w] \in Nat
    BY <1>4, AcceptFinds, Players2
  <2>2. net[w] = Even
    BY <1>1, <2>1 DEF StakesFollowStatus
  <2>3. net' = [net EXCEPT ![w] = Book!Staked(w)]
    <3>1. net[w].creator = 0 /\ net[w].opponent = 0
      BY <2>2 DEF Even
    <3>2. 0 - Stake[w] = -Stake[w]
      BY <2>1
    <3> QED BY <1>2, <1>4, <2>1, <3>1, <3>2 DEF AcceptCommit, Book!Staked
  <2>4. Book!Start(w)
    BY <1>4, <2>1, <2>3 DEF AcceptCommit, Book!Start
  <2> QED BY <2>1, <2>4 DEF Book!Next
<1>5. ASSUME NEW c \in Clients, CloseCommit(c) PROVE Book!Next
  <2> DEFINE w == tx[c].wager
             how == IF tx[c].op = "decline" THEN "DECLINED" ELSE "CANCELLED"
  <2>1. w \in Wagers /\ status[w] = "PENDING"
    BY <1>5, CloseFinds
  <2>2. Book!Close({w}, how)
    BY <1>2, <1>5, <2>1 DEF CloseCommit, Book!Close
  <2>3. how \in Book!Closed
    BY DEF Book!Closed
  <2> QED BY <2>1, <2>2, <2>3 DEF Book!Next
<1>6. ASSUME NEW r \in Runs, ResolveCommit(r) PROVE Book!Next
  <2> DEFINE w == tx[r].wager
  <2>1. w \in Wagers /\ status[w] = "ACTIVE" /\ Stake[w] \in Nat
        /\ tx[r].result \in Outcome
    BY <1>6, ResolveFinds, Players2
  <2>2. net[w] = [creator |-> -Stake[w], opponent |-> -Stake[w]]
    BY <1>1, <2>1 DEF StakesFollowStatus
  <2>3. \E result \in Book!Results(w) : net' = [net EXCEPT ![w] = result]
    <3> DEFINE s == Stake[w]
    <3>1. net[w].creator = -s /\ net[w].opponent = -s
      BY <2>2
    <3>2. -s + 2 * s = s /\ -s + s = 0 /\ -s + 0 = -s
      BY <2>1
    <3> HIDE DEF s
    <3>3. CASE tx[r].result = "CREATOR"
      <4>1. net' = [net EXCEPT ![w] = [creator |-> s, opponent |-> -s]]
        BY <1>2, <1>6, <2>1, <3>1, <3>2, <3>3 DEF ResolveCommit, Prize, s
      <4> QED BY <4>1 DEF Book!Results, s
    <3>4. CASE tx[r].result = "OPPONENT"
      <4>1. net' = [net EXCEPT ![w] = [creator |-> -s, opponent |-> s]]
        BY <1>2, <1>6, <2>1, <3>1, <3>2, <3>4 DEF ResolveCommit, Prize, s
      <4> QED BY <4>1 DEF Book!Results, s
    <3>5. CASE tx[r].result = "DRAW"
      <4>1. net' = [net EXCEPT ![w] = [creator |-> 0, opponent |-> 0]]
        BY <1>2, <1>6, <2>1, <3>1, <3>2, <3>5 DEF ResolveCommit, Prize, s
      <4> QED BY <4>1 DEF Book!Results, Book!Nothing
    <3> QED BY <2>1, <3>3, <3>4, <3>5 DEF Outcome
  <2>4. Book!Settle(w)
    BY <1>6, <2>1, <2>3 DEF ResolveCommit, Book!Settle
  <2> QED BY <2>1, <2>4 DEF Book!Next
<1>7. ASSUME NEW r \in Runs, ExpireAndList(r) PROVE Book!Next
  <2> DEFINE W == Overdue(run[r].at)
  <2>1. W \in SUBSET Wagers /\ "EXPIRED" \in Book!Closed
    BY DEF Overdue, Book!Closed
  <2>2. Book!Close(W, "EXPIRED")
    BY <1>7 DEF ExpireAndList, Overdue, Book!Close
  <2> QED BY <2>1, <2>2 DEF Book!Next
<1>8. ASSUME NEW u \in Users, DeleteData(u) PROVE Book!Next
  <2> DEFINE W == {w \in WagersOf(u) : status[w] # "ABSENT"}
  <2>1. W \in SUBSET Wagers
    BY DEF WagersOf
  <2>2. Book!Erase(W)
    BY <1>8 DEF DeleteData, Book!Erase
  <2> QED BY <2>1, <2>2 DEF Book!Next
<1>9. CASE TxBegins
  BY <1>1, <1>9, BeginsFresh DEF wagerVars, Book!vars
<1>10. CASE TxTakes
  BY <1>1, <1>10, TakesNext DEF Safe, wagerVars, Book!vars
<1>11. ASSUME NEW t \in Workers, Refused(t) \/ Victim(t) \/ Crash(t)
       PROVE  UNCHANGED Book!vars
  BY <1>11 DEF Refused, Victim, Crash, Rollback, wagerVars, Book!vars
<1>12. CASE TxRests
  BY <1>7, <1>8, <1>12
     DEF TxRests, AccountStep, RunBegin, RunEnd, ResolveBegin, Earn, Purchase,
         Deactivate, Tick, vars, wagerVars, Book!vars
<1> QED
  BY StepKinds, <1>3, <1>4, <1>5, <1>6, <1>9, <1>10, <1>11, <1>12 DEF TxEnds

\* Coins follow the status: a wager that a step does not touch keeps both, and
\* the steps that touch it move them together.
LEMMA FollowStep ==
  ASSUME Safe, [Next]_vars
  PROVE  StakesFollowStatus'
<1>1. /\ TypeOK /\ StakesFollowStatus
      /\ status \in [Wagers -> {"ABSENT"} \cup Open \cup Ended]
      /\ net \in [Wagers -> Side] /\ outcome \in [Wagers -> Outcome \cup {"NONE"}]
  BY DEF Safe, TypeOK
<1>2. ASSUME UNCHANGED <<net, outcome>>,
             \A w \in Wagers :
               \/ status'[w] = status[w]
               \/ status[w] \in {"ABSENT", "PENDING"} /\ status'[w] \in
                    {"PENDING", "DECLINED", "CANCELLED", "EXPIRED"}
               \/ status'[w] = "DELETED"
      PROVE  StakesFollowStatus'
  BY <1>1, <1>2 DEF StakesFollowStatus
<1>3. ASSUME NEW c \in Clients, CreateCommit(c) PROVE StakesFollowStatus'
  BY <1>1, <1>2, <1>3, CreateFinds DEF CreateCommit
<1>4. ASSUME NEW c \in Clients, AcceptCommit(c) PROVE StakesFollowStatus'
  <2> DEFINE w == tx[c].wager
  <2>1. w \in Wagers /\ status[w] = "PENDING" /\ Stake[w] \in Nat
    BY <1>4, AcceptFinds, Players2
  <2>2. net[w].creator = 0 /\ net[w].opponent = 0
    BY <1>1, <2>1 DEF StakesFollowStatus, Even
  <2>3. 0 - Stake[w] = -Stake[w]
    BY <2>1
  <2>4. net'[w] = [creator |-> -Stake[w], opponent |-> -Stake[w]]
        /\ \A v \in Wagers : v # w => net'[v] = net[v]
    BY <1>1, <1>4, <2>1, <2>2, <2>3 DEF AcceptCommit
  <2>5. /\ status'[w] = "ACTIVE"
        /\ \A v \in Wagers : v # w => status'[v] = status[v]
        /\ outcome' = outcome
    BY <1>1, <1>4, <2>1 DEF AcceptCommit
  <2> QED BY <1>1, <2>4, <2>5 DEF StakesFollowStatus
<1>5. ASSUME NEW c \in Clients, CloseCommit(c) PROVE StakesFollowStatus'
  BY <1>1, <1>2, <1>5, CloseFinds DEF CloseCommit
<1>6. ASSUME NEW r \in Runs, ResolveCommit(r) PROVE StakesFollowStatus'
  <2> DEFINE w == tx[r].wager
             s == Stake[w]
  <2>1. w \in Wagers /\ status[w] = "ACTIVE" /\ s \in Nat
        /\ tx[r].result \in Outcome
    BY <1>6, ResolveFinds, Players2
  <2>2. net[w].creator = -s /\ net[w].opponent = -s
    BY <1>1, <2>1 DEF StakesFollowStatus
  <2>3. -s + 2 * s = s /\ -s + s = 0 /\ -s + 0 = -s
    BY <2>1
  <2>4. /\ status'[w] = "COMPLETED" /\ outcome'[w] = tx[r].result
        /\ \A v \in Wagers : v # w =>
             /\ status'[v] = status[v] /\ outcome'[v] = outcome[v]
             /\ net'[v] = net[v]
    BY <1>1, <1>6, <2>1 DEF ResolveCommit
  <2> HIDE DEF s
  <2>5. net'[w] = CASE tx[r].result = "CREATOR" -> [creator |-> s, opponent |-> -s]
                    [] tx[r].result = "OPPONENT" -> [creator |-> -s, opponent |-> s]
                    [] tx[r].result = "DRAW" -> Even
    <3>1. CASE tx[r].result = "CREATOR"
      BY <1>1, <1>6, <2>1, <2>2, <2>3, <3>1 DEF ResolveCommit, Prize, s
    <3>2. CASE tx[r].result = "OPPONENT"
      BY <1>1, <1>6, <2>1, <2>2, <2>3, <3>2 DEF ResolveCommit, Prize, s
    <3>3. CASE tx[r].result = "DRAW"
      BY <1>1, <1>6, <2>1, <2>2, <2>3, <3>3 DEF ResolveCommit, Prize, s, Even
    <3> QED BY <2>1, <3>1, <3>2, <3>3 DEF Outcome
  <2> QED BY <1>1, <2>4, <2>5 DEF StakesFollowStatus, s
<1>7. ASSUME NEW r \in Runs, ExpireAndList(r) PROVE StakesFollowStatus'
  BY <1>1, <1>2, <1>7 DEF ExpireAndList, Overdue
<1>8. ASSUME NEW u \in Users, DeleteData(u) PROVE StakesFollowStatus'
  BY <1>1, <1>2, <1>8 DEF DeleteData
<1>9. CASE TxBegins
  BY <1>1, <1>2, <1>9, BeginsFresh DEF wagerVars
<1>10. CASE TxTakes
  BY <1>1, <1>2, <1>10, TakesNext DEF Safe, wagerVars
<1>11. ASSUME NEW t \in Workers, Refused(t) \/ Victim(t) \/ Crash(t)
       PROVE  StakesFollowStatus'
  BY <1>2, <1>11 DEF Refused, Victim, Crash, Rollback, wagerVars
<1>12. CASE TxRests
  <2>1. ASSUME UNCHANGED wagerVars PROVE StakesFollowStatus'
    BY <1>2, <2>1 DEF wagerVars
  <2> QED BY <1>7, <1>8, <1>12, <2>1
     DEF TxRests, AccountStep, RunBegin, RunEnd, ResolveBegin, Earn, Purchase,
         Deactivate, Tick, vars, wagerVars
<1> QED
  BY StepKinds, <1>3, <1>4, <1>5, <1>6, <1>9, <1>10, <1>11, <1>12 DEF TxEnds

-----------------------------------------------------------------------------
(* The coin ledger                                                         *)

LedgerOf(u) == [w \in Wagers |-> NetOf(w, u)]

\* What the ledger has of a user is a whole number for every wager.
LEMMA NetInt ==
  ASSUME NEW u, net \in [Wagers -> Side]
  PROVE  \A w \in Wagers : LedgerOf(u)[w] \in Int
<1> SUFFICES ASSUME NEW w \in Wagers PROVE NetOf(w, u) \in Int
  BY DEF LedgerOf
<1>1. net[w].creator \in Int /\ net[w].opponent \in Int
  BY DEF Side
<1> DEFINE a == IF u = CreatorOf[w] THEN net[w].creator ELSE 0
           b == IF u = OpponentOf[w] THEN net[w].opponent ELSE 0
<1>2. a \in Int /\ b \in Int
  BY <1>1
<1>3. NetOf(w, u) = a + b
  BY DEF NetOf
<1> HIDE DEF a, b
<1> QED BY <1>2, <1>3

\* When a step changes the reward transactions of one wager, every player's
\* balance moves by what the wager's side of that player moves.
LEMMA OneWagerMoves ==
  ASSUME NEW u \in Users, NEW w \in Wagers, NEW a \in Int, NEW b \in Int,
         net \in [Wagers -> Side],
         net' = [net EXCEPT ![w] = [creator |-> @.creator + a,
                                    opponent |-> @.opponent + b]]
  PROVE  SumFunctionOnSet(LedgerOf(u)', Wagers) =
           SumFunctionOnSet(LedgerOf(u), Wagers)
           + (IF u = CreatorOf[w] THEN a ELSE 0)
           + (IF u = OpponentOf[w] THEN b ELSE 0)
<1> DEFINE f == LedgerOf(u)
           g == LedgerOf(u)'
<1>1. net[w].creator \in Int /\ net[w].opponent \in Int
  BY DEF Side
<1>2. net' \in [Wagers -> Side] /\ net'[w].creator = net[w].creator + a
      /\ net'[w].opponent = net[w].opponent + b
      /\ \A v \in Wagers \ {w} : net'[v] = net[v]
  BY <1>1 DEF Side
<1>3. \A v \in Wagers : f[v] \in Int /\ g[v] \in Int
  <2>1. \A v \in Wagers : f[v] \in Int
    BY NetInt
  <2>2. ASSUME NEW v \in Wagers PROVE g[v] \in Int
    <3>1. net'[v].creator \in Int /\ net'[v].opponent \in Int
      BY <1>2 DEF Side
    <3>2. \A i, j \in Int : i + j \in Int
      OBVIOUS
    <3> QED BY <3>1, <3>2 DEF LedgerOf, NetOf
  <2> QED BY <2>1, <2>2
<1>4. \A v \in Wagers \ {w} : f[v] = g[v]
  BY <1>2 DEF LedgerOf, NetOf
<1>5. g[w] - f[w] = (IF u = CreatorOf[w] THEN a ELSE 0)
                    + (IF u = OpponentOf[w] THEN b ELSE 0)
  BY <1>1, <1>2 DEF LedgerOf, NetOf
<1>6. SumFunctionOnSet(f, Wagers) \in Int
  BY <1>3, SumTake, WagerConstants
<1>7. f[w] \in Int /\ g[w] \in Int
  BY <1>3
<1> HIDE DEF f, g
<1>8. SumFunctionOnSet(g, Wagers) = SumFunctionOnSet(f, Wagers) + (g[w] - f[w])
  BY <1>3, <1>4, SumChange, WagerConstants
<1> QED BY <1>5, <1>6, <1>7, <1>8 DEF f, g

\* The balances reconcile with the ledger after every step.
LEMMA ReconcileStep ==
  ASSUME Safe, CoinsReconcile, [Next]_vars
  PROVE  CoinsReconcile'
<1> DEFINE Sum(u) == SumFunctionOnSet(LedgerOf(u), Wagers)
<1>1. /\ TypeOK /\ net \in [Wagers -> Side] /\ coins \in [Users -> Nat]
      /\ other \in [Users -> Int]
      /\ account \in [Users -> {"ACTIVE", "DEACTIVATED", "DELETED"}]
  BY DEF Safe, TypeOK
<1>2. \A u \in Users : account[u] # "DELETED" => coins[u] = other[u] + Sum(u)
  BY DEF CoinsReconcile, LedgerOf
<1>3. \A u \in Users : Sum(u) \in Int
  BY <1>1, NetInt, SumTake, WagerConstants
<1>4. SUFFICES \A u \in Users : account'[u] # "DELETED" =>
                 coins'[u] = other'[u] + Sum(u)'
  BY DEF CoinsReconcile, LedgerOf
<1>5. ASSUME net' = net PROVE \A u \in Users : Sum(u)' = Sum(u)
  BY <1>5 DEF LedgerOf, NetOf
<1> HIDE DEF Sum
<1>6. ASSUME NEW w \in Wagers, NEW a \in Int, NEW b \in Int,
             net' = [net EXCEPT ![w] = [creator |-> @.creator + a,
                                        opponent |-> @.opponent + b]],
             coins' = [coins EXCEPT ![CreatorOf[w]] = @ + a,
                                    ![OpponentOf[w]] = @ + b],
             UNCHANGED <<other, account>>
      PROVE  \A u \in Users : account'[u] # "DELETED" =>
               coins'[u] = other'[u] + Sum(u)'
  <2> SUFFICES ASSUME NEW u \in Users, account[u] # "DELETED"
               PROVE  coins'[u] = other[u] + Sum(u)'
    BY <1>6
  <2>1. Sum(u)' = Sum(u) + (IF u = CreatorOf[w] THEN a ELSE 0)
                         + (IF u = OpponentOf[w] THEN b ELSE 0)
    BY <1>1, <1>6, OneWagerMoves DEF Sum
  <2>2. coins[u] = other[u] + Sum(u) /\ Sum(u) \in Int /\ other[u] \in Int
    BY <1>1, <1>2, <1>3
  <2>3. coins'[u] = coins[u] + (IF u = CreatorOf[w] THEN a ELSE 0)
                             + (IF u = OpponentOf[w] THEN b ELSE 0)
    BY <1>1, <1>6, Players2
  <2> QED BY <2>1, <2>2, <2>3
<1>7. ASSUME NEW c \in Clients, AcceptCommit(c)
      PROVE  \A u \in Users : account'[u] # "DELETED" =>
               coins'[u] = other'[u] + Sum(u)'
  <2> DEFINE w == tx[c].wager
             a == -Stake[w]
  <2>1. w \in Wagers /\ Stake[w] \in Nat /\ a \in Int
    BY <1>7, AcceptFinds, Players2
  <2>2. net' = [net EXCEPT ![w] = [creator |-> net[w].creator + a,
                                   opponent |-> net[w].opponent + a]]
    <3>1. net[w].creator \in Int /\ net[w].opponent \in Int
      BY <1>1, <2>1 DEF Side
    <3>2. net[w].creator + a = net[w].creator - Stake[w]
          /\ net[w].opponent + a = net[w].opponent - Stake[w]
      BY <2>1, <3>1
    <3> QED BY <1>1, <1>7, <2>1, <3>2 DEF AcceptCommit
  <2>3. coins' = [coins EXCEPT ![CreatorOf[w]] = @ + a,
                               ![OpponentOf[w]] = @ + a]
    <3>1. \A u \in Users : coins[u] + a = coins[u] - Stake[w]
      BY <1>1, <2>1
    <3> QED BY <1>1, <1>7, <2>1, <3>1, Players2 DEF AcceptCommit, AfterStakes
  <2>4. UNCHANGED <<other, account>>
    BY <1>7 DEF AcceptCommit
  <2> HIDE DEF a
  <2> QED BY <1>1, <1>6, <2>1, <2>2, <2>3, <2>4
<1>8. ASSUME NEW r \in Runs, ResolveCommit(r)
      PROVE  \A u \in Users : account'[u] # "DELETED" =>
               coins'[u] = other'[u] + Sum(u)'
  <2> DEFINE w == tx[r].wager
             prize == Prize(w, tx[r].result)
             a == prize.creator
             b == prize.opponent
  <2>1. w \in Wagers /\ tx[r].result \in Outcome
    BY <1>8, ResolveFinds
  <2>2. a \in Int /\ b \in Int
    BY <2>1, Players2 DEF Prize, Outcome
  <2>3. /\ net' = [net EXCEPT ![w] = [creator |-> @.creator + a,
                                      opponent |-> @.opponent + b]]
        /\ coins' = [coins EXCEPT ![CreatorOf[w]] = @ + a,
                                  ![OpponentOf[w]] = @ + b]
        /\ UNCHANGED <<other, account>>
    BY <1>8 DEF ResolveCommit
  <2> HIDE DEF a, b
  <2> QED BY <1>6, <2>1, <2>2, <2>3
<1>9. ASSUME net' = net, NEW u \in Users, NEW d \in Int,
             coins' = [coins EXCEPT ![u] = @ + d],
             other' = [other EXCEPT ![u] = @ + d],
             account' = account
      PROVE  \A v \in Users : account'[v] # "DELETED" =>
               coins'[v] = other'[v] + Sum(v)'
  BY <1>1, <1>2, <1>3, <1>5, <1>9
<1>10. ASSUME net' = net, coins' = coins, other' = other,
              \A u \in Users : account'[u] # "DELETED" => account[u] # "DELETED"
       PROVE  \A u \in Users : account'[u] # "DELETED" =>
                coins'[u] = other'[u] + Sum(u)'
  BY <1>2, <1>5, <1>10
<1>11. ASSUME NEW u \in Users, Earn(u)
       PROVE  \A v \in Users : account'[v] # "DELETED" =>
                coins'[v] = other'[v] + Sum(v)'
  <2> DEFINE d == 1
  <2>1. /\ d \in Int
        /\ coins' = [coins EXCEPT ![u] = @ + d]
        /\ other' = [other EXCEPT ![u] = @ + d]
        /\ net' = net /\ account' = account
    BY <1>11 DEF Earn, wagerVars
  <2> HIDE DEF d
  <2> QED BY <1>9, <2>1
<1>12. ASSUME NEW u \in Users, Purchase(u)
       PROVE  \A v \in Users : account'[v] # "DELETED" =>
                coins'[v] = other'[v] + Sum(v)'
  <2> DEFINE d == -1
  <2>1. d \in Int /\ \A v \in Users : /\ coins[v] + d = coins[v] - 1
                                      /\ other[v] + d = other[v] - 1
    BY <1>1
  <2> HIDE DEF d
  <2>2. /\ d \in Int
        /\ coins' = [coins EXCEPT ![u] = @ + d]
        /\ other' = [other EXCEPT ![u] = @ + d]
        /\ net' = net /\ account' = account
    BY <1>1, <1>12, <2>1 DEF Purchase, wagerVars
  <2> QED BY <1>9, <2>2
<1>13. ASSUME NEW u \in Users, Deactivate(u) \/ DeleteData(u)
       PROVE  \A v \in Users : account'[v] # "DELETED" =>
                coins'[v] = other'[v] + Sum(v)'
  <2>1. CASE Deactivate(u)
    BY <1>1, <1>10, <2>1 DEF Deactivate, wagerVars, coinVars
  <2>2. CASE DeleteData(u)
    BY <1>1, <1>2, <1>5, <2>2 DEF DeleteData
  <2> QED BY <1>13, <2>1, <2>2
<1>14. CASE TxBegins
  <2>1. UNCHANGED <<wagerVars, coinVars, account>>
    BY <1>1, <1>14, BeginsFresh
  <2> QED BY <1>10, <2>1 DEF wagerVars, coinVars
<1>15. CASE TxTakes
  <2>1. UNCHANGED <<wagerVars, coinVars, account>>
    BY <1>1, <1>15, TakesNext DEF Safe
  <2> QED BY <1>10, <2>1 DEF wagerVars, coinVars
<1>16. CASE \/ \E c \in Clients : CreateCommit(c) \/ CloseCommit(c)
            \/ \E t \in Workers : Refused(t) \/ Victim(t) \/ Crash(t)
  <2>1. UNCHANGED <<net, coinVars, account>>
    BY <1>16 DEF CreateCommit, CloseCommit, Refused, Victim, Crash, Rollback,
       wagerVars
  <2> QED BY <1>10, <2>1 DEF coinVars
<1>17. CASE TxRests /\ ~AccountStep
  <2>1. UNCHANGED <<net, coinVars, account>>
    BY <1>17 DEF TxRests, RunBegin, RunEnd, ResolveBegin, ExpireAndList, Tick,
       vars, wagerVars, coinVars
  <2> QED BY <1>10, <2>1 DEF coinVars
<1> QED
  BY StepKinds, <1>7, <1>8, <1>11, <1>12, <1>13, <1>14, <1>15, <1>16, <1>17
     DEF TxEnds, TxRests, AccountStep

\* Coins reconcile before there is any wager.
LEMMA ReconcileInit == Init => CoinsReconcile
<1> SUFFICES ASSUME Init, NEW u \in Users
             PROVE  coins[u] = other[u] + SumFunctionOnSet(LedgerOf(u), Wagers)
  BY DEF CoinsReconcile, LedgerOf
<1> DEFINE none == [w \in Wagers |-> 0]
<1>1. coins[u] \in Nat /\ other[u] = coins[u]
  BY WagerConstants DEF Init
<1>2. \A w \in Wagers : LedgerOf(u)[w] = 0
  BY DEF Init, Even, LedgerOf, NetOf
<1>3. SumFunctionOnSet(LedgerOf(u), Wagers) = 0
  BY <1>2, SumZero, WagerConstants
<1> QED BY <1>1, <1>3

-----------------------------------------------------------------------------
(* The theorems                                                            *)

\* The initial state is safe.
LEMMA SafeInit == Init => Safe
<1> SUFFICES ASSUME Init PROVE Safe
  OBVIOUS
<1> USE WagerConstants, IdleTyped
<1>1. TypeOK
  BY DEF Init, TypeOK, IdleRun, Side, Even
<1>2. \A t \in Workers : tx[t] = IdleTx
  BY DEF Init
<1>3. LocksExclude /\ ClaimsHold /\ CreationsAlone /\ StakesThere /\ ResultsKnown
  BY <1>2 DEF LocksExclude, ClaimsHold, CreationsAlone, StakesThere,
     ResultsKnown, Claimers
<1>4. LocksInOrder
  BY <1>2, RowsOf DEF LocksInOrder
<1>5. StakesFollowStatus
  BY DEF Init, StakesFollowStatus
<1> QED BY <1>1, <1>3, <1>4, <1>5 DEF Safe

\* Every step leaves it safe.
LEMMA SafeStep == Safe /\ [Next]_vars => Safe'
<1> SUFFICES ASSUME Safe, [Next]_vars PROVE Safe'
  OBVIOUS
<1>1. LocksExclude' /\ LocksInOrder'
  BY LocksStep DEF Safe
<1> QED
  BY <1>1, TypeStep, ClaimsStep, CreationsStep, StakesStep, ResultsStep,
     FollowStep
     DEF Safe

\* The inductive invariant holds of every reachable state.
LEMMA SafeAlways == Spec => []Safe
BY SafeInit, SafeStep, PTL DEF Spec

\* Every reachable state has the declared types: whatever requests, deadlocks
\* and restarts do, no coin balance is ever negative.
THEOREM WagersTyped == Spec => []TypeOK
<1>1. Safe => TypeOK
  BY DEF Safe
<1> QED BY <1>1, SafeAlways, PTL

\* Two transactions never hold one row, and an acceptance or a resolution that
\* has claimed its wager finds it unchanged, with the stakes still in the
\* balances, however long it takes to commit.
THEOREM ClaimsLast ==
  Spec => [](LocksExclude /\ ClaimsHold /\ StakesThere)
<1>1. Safe => LocksExclude /\ ClaimsHold /\ StakesThere
  BY DEF Safe
<1> QED BY <1>1, SafeAlways, PTL

\* Coins move with the wager and never by halves.
THEOREM CoinsFollowWagers == Spec => []StakesFollowStatus
<1>1. Safe => StakesFollowStatus
  BY DEF Safe
<1> QED BY <1>1, SafeAlways, PTL

\* Requests, locks, rollbacks and scheduler runs implement the wager book: each
\* wager has one end, and its coins move once for its start and once for its
\* result.
THEOREM WagersImplementBook == Spec => ImplementsBook
<1>1. Init => Book!Init
  BY DEF Init, Book!Init, Even, Book!Nothing
<1> QED BY <1>1, BookStep, SafeAlways, PTL DEF Spec, ImplementsBook, Book!Spec

\* The balance of a user is the sum of the reward transactions, whatever mix of
\* stakes, payouts, rewards, purchases, rollbacks and deadlocks happened.
THEOREM LedgerReconciles == Spec => []CoinsReconcile
<1>1. Safe /\ CoinsReconcile /\ [Next]_vars => CoinsReconcile'
  BY ReconcileStep
<1> QED BY <1>1, ReconcileInit, SafeAlways, PTL DEF Spec

=============================================================================
