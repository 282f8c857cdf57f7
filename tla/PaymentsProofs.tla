--------------------------- MODULE PaymentsProofs ---------------------------
(***************************************************************************)
(* Proofs about the payment life cycle, for every set of occurrences,      *)
(* keys, requests and scheduler runs: type correctness, the safety         *)
(* invariants of PaymentsProps, its action properties, that the services   *)
(* implement the contribution ledger, and under which conditions the       *)
(* promises hold that the code breaks.                                     *)
(***************************************************************************)
EXTENDS PaymentsProps, SumTheorems, TLAPS

\* A void request works on a contribution that exists.
VoidingHasRow == \A v \in Voiders : voiding[v] # None => row[voiding[v]] # None

Typed == TypeOK /\ VoidingHasRow

\* The initial state has the declared types.
LEMMA TypedInit == Init => Typed
BY PaymentConstants, NoneIsNoRow
   DEF Init, Typed, TypeOK, VoidingHasRow, Status, IdleRun, Phase

\* Every step keeps the types, and the contribution a void works on.
LEMMA TypedStep == Typed /\ [Next]_vars => Typed'
<1> SUFFICES ASSUME Typed, [Next]_vars PROVE Typed'
  OBVIOUS
<1> USE PaymentConstants, NoneIsNoRow
<1>1. ASSUME NEW o \in Occs, NEW k \in Keys, NEW s \in Scans \cup {None},
             NEW a \in 1..AmountDue[o], NEW late \in BOOLEAN,
             CreateContribution(o, k, a, s, late)
      PROVE  Typed'
  <2>1. [occ |-> o, amount |-> a, scan |-> s, state |-> "POSTED"] \in Contribution
    BY DEF Contribution
  <2>2. amountPaid[o] + a \in Nat
    BY DEF Typed, TypeOK
  <2>3. BalanceStatus(o, amountPaid[o] + a, late) \in Status
    BY DEF BalanceStatus, PaidStatus, Status, Terminal, Settled, Payable
  <2>4. TypeOK'
    BY <1>1, <2>1, <2>2, <2>3
       DEF Typed, TypeOK, CreateContribution, Post, RunSettlementEffects,
           ConsumeScan, requestVars
  <2>5. VoidingHasRow'
    BY <1>1, <2>1 DEF Typed, TypeOK, VoidingHasRow, CreateContribution,
       FreshKey, Post, requestVars
  <2> QED BY <2>4, <2>5 DEF Typed
<1>2. ASSUME NEW o \in Occs, NEW k \in Keys, NEW s \in Scans \cup {None},
             CreateSettled(o, k, s)
      PROVE  Typed'
  <2>1. [occ |-> o, amount |-> AmountDue[o], scan |-> s, state |-> "POSTED"]
          \in Contribution
    BY DEF Contribution
  <2>2. PaidStatus(FALSE) \in Status
    BY DEF PaidStatus, Status, Terminal, Settled
  <2>3. TypeOK'
    BY <1>2, <2>1, <2>2
       DEF Typed, TypeOK, CreateSettled, Post, RunSettlementEffects,
           ConsumeScan, requestVars
  <2>4. VoidingHasRow'
    BY <1>2, <2>1 DEF Typed, TypeOK, VoidingHasRow, CreateSettled, FreshKey,
       Post, requestVars
  <2> QED BY <2>3, <2>4 DEF Typed
<1>3. ASSUME NEW v \in Voiders, NEW k \in Keys, VoidRead(v, k) PROVE Typed'
  BY <1>3 DEF Typed, TypeOK, VoidingHasRow, VoidRead, dbVars
<1>4. ASSUME NEW v \in Voiders, VoidCommit(v) PROVE Typed'
  <2> DEFINE k == voiding[v]
             o == row[k].occ
  <2>1. k \in Keys /\ row[k] \in Contribution
    BY <1>4 DEF Typed, TypeOK, VoidingHasRow, VoidCommit
  <2>2. [row[k] EXCEPT !.state = "VOIDED"] \in Contribution
    BY <2>1 DEF Contribution
  <2>3. BalanceAfterVoid(o, k) \in Nat
    BY <1>4, <2>1 DEF Typed, TypeOK, VoidCommit, BalanceAfterVoid,
       ValidBalance, Contribution
  <2>4. VoidStatus(o, BalanceAfterVoid(o, k)) \in Status
    BY DEF VoidStatus, Status, Payable
  <2>5. TypeOK'
    BY <1>4, <2>1, <2>2, <2>3, <2>4 DEF Typed, TypeOK, VoidCommit
  <2>6. VoidingHasRow'
    BY <1>4, <2>1, <2>2 DEF Typed, TypeOK, VoidingHasRow, VoidCommit
  <2> QED BY <2>5, <2>6 DEF Typed
<1>5. ASSUME NEW v \in Voiders, VoidAbort(v) PROVE Typed'
  BY <1>5 DEF Typed, TypeOK, VoidingHasRow, VoidAbort, dbVars
<1>6. ASSUME NEW l \in Loggers, NEW o \in Occs, LogRead(l, o) PROVE Typed'
  BY <1>6 DEF Typed, TypeOK, VoidingHasRow, LogRead, dbVars
<1>7. ASSUME NEW l \in Loggers, NEW late \in BOOLEAN, LogCommit(l, late)
      PROVE Typed'
  BY <1>7 DEF Typed, TypeOK, VoidingHasRow, LogCommit, PaidStatus, Status,
     Terminal, Settled
<1>8. ASSUME NEW l \in Loggers, LogAbort(l) PROVE Typed'
  BY <1>8 DEF Typed, TypeOK, VoidingHasRow, LogAbort, dbVars
<1>9. ASSUME NEW o \in Occs, CreateOccurrence(o) PROVE Typed'
  BY <1>9 DEF Typed, TypeOK, VoidingHasRow, CreateOccurrence, requestVars,
     Status, Payable
<1>10. ASSUME NEW b \in Obligations, CancelUnpaid(b) PROVE Typed'
  BY <1>10 DEF Typed, TypeOK, VoidingHasRow, CancelUnpaid, requestVars,
     Status, Terminal
<1>11. ASSUME NEW r \in Runs, OverdueScan(r) PROVE Typed'
  BY <1>11 DEF Typed, TypeOK, VoidingHasRow, OverdueScan, OverduePending,
     requestVars, dbVars, Phase
<1>12. ASSUME NEW r \in Runs, NEW o \in Occs, MarkOverdue(r, o) PROVE Typed'
  BY <1>12 DEF Typed, TypeOK, VoidingHasRow, MarkOverdue, requestVars,
     Status, Payable
<1>13. ASSUME NEW r \in Runs, MissedScan(r) PROVE Typed'
  BY <1>13 DEF Typed, TypeOK, VoidingHasRow, MissedScan, OverdueToMissed,
     requestVars, dbVars, Phase
<1>14. ASSUME NEW r \in Runs, NEW o \in Occs, MarkMissed(r, o) PROVE Typed'
  BY <1>14 DEF Typed, TypeOK, VoidingHasRow, MarkMissed, requestVars,
     Status, Terminal
<1>15. ASSUME NEW r \in Runs, RunEnd(r) PROVE Typed'
  BY <1>15 DEF Typed, TypeOK, VoidingHasRow, RunEnd, IdleRun, requestVars,
     dbVars, Phase
<1>16. ASSUME NEW r \in Runs, RunCrash(r) PROVE Typed'
  BY <1>16 DEF Typed, TypeOK, VoidingHasRow, RunCrash, IdleRun, requestVars,
     dbVars, Phase
<1>17. CASE Tick
  BY <1>17 DEF Typed, TypeOK, VoidingHasRow, Tick, requestVars, dbVars
<1>18. CASE UNCHANGED vars
  BY <1>18 DEF Typed, TypeOK, VoidingHasRow, vars
<1> QED
  BY <1>1, <1>2, <1>3, <1>4, <1>5, <1>6, <1>7, <1>8, <1>9, <1>10, <1>11,
     <1>12, <1>13, <1>14, <1>15, <1>16, <1>17, <1>18
     DEF Next, ContributionStep, VoidStep, LogStep, ObligationStep, RunStep

\* Every reachable state has the declared types, and a void request always
\* works on a contribution that exists.
THEOREM TypeCorrect == Spec => [](TypeOK /\ VoidingHasRow)
<1>1. Spec => []Typed
  BY TypedInit, TypedStep, PTL DEF Spec
<1> QED BY <1>1, PTL DEF Typed

\* Every amount due is a positive number.
LEMMA AmountsDue == \A o \in Occs : AmountDue[o] \in Nat /\ AmountDue[o] > 0
BY PaymentConstants

-----------------------------------------------------------------------------
(* Which steps touch the rows of the database                              *)

\* A step posts, settles, voids, logs, creates, cancels, marks overdue or
\* marks missed, or it leaves every row as it is.
LEMMA RowSteps ==
  ASSUME [Next]_vars
  PROVE  \/ \E o \in Occs, k \in Keys, s \in Scans \cup {None} :
              \/ \E a \in 1..AmountDue[o], late \in BOOLEAN :
                     CreateContribution(o, k, a, s, late)
              \/ CreateSettled(o, k, s)
         \/ \E v \in Voiders : VoidCommit(v)
         \/ \E l \in Loggers, late \in BOOLEAN : LogCommit(l, late)
         \/ \E o \in Occs : CreateOccurrence(o)
         \/ \E b \in Obligations : CancelUnpaid(b)
         \/ \E r \in Runs, o \in Occs : MarkOverdue(r, o)
         \/ \E r \in Runs, o \in Occs : MarkMissed(r, o)
         \/ UNCHANGED dbVars
BY DEF Next, ContributionStep, VoidStep, LogStep, ObligationStep, RunStep,
   VoidRead, VoidAbort, LogRead, LogAbort, OverdueScan, MissedScan, RunEnd,
   RunCrash, Tick, vars, dbVars

\* The contribution a void commits on is a row, of an occurrence.
LEMMA VoidedRow ==
  ASSUME Typed, NEW v \in Voiders, VoidCommit(v)
  PROVE  /\ voiding[v] \in Keys
         /\ row[voiding[v]] \in Contribution
         /\ row[voiding[v]] # None
BY DEF Typed, TypeOK, VoidingHasRow, VoidCommit

-----------------------------------------------------------------------------
(* The balance                                                             *)

\* No step pays more than is due, or takes off more than was paid.
LEMMA PaidWithinDueStep ==
  ASSUME Typed, PaidWithinDue, [Next]_vars
  PROVE  PaidWithinDue'
<1> USE AmountsDue
<1>1. ASSUME NEW o \in Occs, NEW k \in Keys, NEW s \in Scans \cup {None},
             NEW a \in 1..AmountDue[o], NEW late \in BOOLEAN,
             CreateContribution(o, k, a, s, late)
      PROVE  PaidWithinDue'
  BY <1>1 DEF Typed, TypeOK, PaidWithinDue, CreateContribution, AmountFits
<1>2. ASSUME NEW o \in Occs, NEW k \in Keys, NEW s \in Scans \cup {None},
             CreateSettled(o, k, s)
      PROVE  PaidWithinDue'
  BY <1>2 DEF Typed, TypeOK, PaidWithinDue, CreateSettled
<1>3. ASSUME NEW v \in Voiders, VoidCommit(v) PROVE PaidWithinDue'
  <2>1. voiding[v] \in Keys /\ row[voiding[v]] \in Contribution
    BY <1>3, VoidedRow
  <2> QED
    BY <1>3, <2>1 DEF Typed, TypeOK, PaidWithinDue, VoidCommit,
       BalanceAfterVoid, ValidBalance, Contribution
<1>4. CASE UNCHANGED amountPaid
  BY <1>4 DEF PaidWithinDue
<1> QED
  BY <1>1, <1>2, <1>3, <1>4, RowSteps
     DEF LogCommit, CreateOccurrence, CancelUnpaid, MarkOverdue, MarkMissed,
         dbVars

\* However requests and scheduler runs interleave, the paid balance stays
\* between zero and the amount due.
THEOREM BalanceBounded == Spec => []PaidWithinDue
<1>1. Init => PaidWithinDue
  <2> SUFFICES ASSUME Init, NEW o \in Occs PROVE amountPaid[o] \in 0..AmountDue[o]
    BY DEF PaidWithinDue
  <2>1. amountPaid[o] = 0
    BY DEF Init
  <2> QED
    BY <2>1, AmountsDue
<1>2. Typed /\ PaidWithinDue /\ [Next]_vars => PaidWithinDue'
  BY PaidWithinDueStep
<1>3. Spec => []Typed
  BY TypeCorrect, PTL DEF Typed
<1> QED BY <1>1, <1>2, <1>3, PTL DEF Spec

\* A step that moves the balance writes the status that fits it.
LEMMA StatusMatchesBalanceStep ==
  ASSUME Typed, PaidWithinDue, StatusMatchesBalance, [Next]_vars
  PROVE  StatusMatchesBalance'
<1> USE AmountsDue
<1>1. ASSUME NEW o \in Occs, NEW k \in Keys, NEW s \in Scans \cup {None},
             NEW a \in 1..AmountDue[o], NEW late \in BOOLEAN,
             CreateContribution(o, k, a, s, late)
      PROVE  StatusMatchesBalance'
  <2> DEFINE p == amountPaid[o] + a
  <2>1. p \in 1..AmountDue[o]
    BY <1>1 DEF Typed, TypeOK, CreateContribution, AmountFits
  <2>2. /\ amountPaid' = [amountPaid EXCEPT ![o] = p]
        /\ status' = [status EXCEPT ![o] = BalanceStatus(o, p, late)]
        /\ records' = records
    BY <1>1 DEF CreateContribution
  <2>3. IF p = AmountDue[o] THEN BalanceStatus(o, p, late) \in Settled
        ELSE BalanceStatus(o, p, late) = "PARTIALLY_PAID"
    BY DEF BalanceStatus, PaidStatus, Settled
  <2> HIDE DEF p
  <2>4. CASE p = AmountDue[o]
    BY <2>2, <2>3, <2>4 DEF Typed, TypeOK, StatusMatchesBalance, Settled
  <2>5. CASE p # AmountDue[o]
    <3>1. p \in 1..(AmountDue[o] - 1)
      BY <2>1, <2>5
    <3>2. status' = [status EXCEPT ![o] = "PARTIALLY_PAID"]
      BY <2>2, <2>3, <2>5
    <3> QED
      BY <2>2, <3>1, <3>2 DEF Typed, TypeOK, StatusMatchesBalance, Settled
  <2> QED
    BY <2>4, <2>5
<1>2. ASSUME NEW o \in Occs, NEW k \in Keys, NEW s \in Scans \cup {None},
             CreateSettled(o, k, s)
      PROVE  StatusMatchesBalance'
  BY <1>2 DEF Typed, TypeOK, StatusMatchesBalance, CreateSettled, PaidStatus,
     Settled
<1>3. ASSUME NEW v \in Voiders, VoidCommit(v) PROVE StatusMatchesBalance'
  <2> DEFINE o == row[voiding[v]].occ
             p == BalanceAfterVoid(o, voiding[v])
  <2>1. o \in Occs /\ p \in Nat /\ p < AmountDue[o]
    <3>1. voiding[v] \in Keys /\ row[voiding[v]] \in Contribution
      BY <1>3, VoidedRow
    <3>2. o \in Occs /\ row[voiding[v]].amount \in Nat \ {0}
      BY <3>1 DEF Contribution
    <3>3. amountPaid[o] \in Nat /\ amountPaid[o] <= AmountDue[o]
      BY <3>2 DEF Typed, TypeOK, PaidWithinDue
    <3>4. p >= 0 /\ p = amountPaid[o] - row[voiding[v]].amount
      BY <1>3 DEF VoidCommit, ValidBalance, BalanceAfterVoid
    <3> HIDE DEF o, p
    <3> QED
      BY <3>2, <3>3, <3>4
  <2>2. /\ amountPaid' = [amountPaid EXCEPT ![o] = p]
        /\ status' = [status EXCEPT ![o] = VoidStatus(o, p)]
        /\ records' = records
    BY <1>3 DEF VoidCommit
  <2>3. /\ VoidStatus(o, p) \in {"PARTIALLY_PAID", "OVERDUE", "PENDING"}
        /\ VoidStatus(o, p) = "PARTIALLY_PAID" <=> p > 0
    BY DEF VoidStatus
  <2> HIDE DEF o, p
  <2> QED
    BY <2>1, <2>2, <2>3 DEF Typed, TypeOK, StatusMatchesBalance, Settled
<1>4. ASSUME NEW l \in Loggers, NEW late \in BOOLEAN, LogCommit(l, late)
      PROVE  StatusMatchesBalance'
  BY <1>4 DEF Typed, TypeOK, StatusMatchesBalance, LogCommit, PaidStatus,
     Settled
<1>5. ASSUME NEW o \in Occs, CreateOccurrence(o) PROVE StatusMatchesBalance'
  BY <1>5 DEF Typed, TypeOK, StatusMatchesBalance, CreateOccurrence, Settled
<1>6. ASSUME NEW b \in Obligations, CancelUnpaid(b)
      PROVE  StatusMatchesBalance'
  BY <1>6 DEF Typed, TypeOK, StatusMatchesBalance, CancelUnpaid, Settled
<1>7. ASSUME NEW r \in Runs, NEW o \in Occs, MarkOverdue(r, o)
      PROVE  StatusMatchesBalance'
  BY <1>7 DEF Typed, TypeOK, StatusMatchesBalance, MarkOverdue, Settled
<1>8. ASSUME NEW r \in Runs, NEW o \in Occs, MarkMissed(r, o)
      PROVE  StatusMatchesBalance'
  BY <1>8 DEF Typed, TypeOK, StatusMatchesBalance, MarkMissed, Settled
<1>9. CASE UNCHANGED dbVars
  BY <1>9 DEF StatusMatchesBalance, dbVars
<1> QED
  BY <1>1, <1>2, <1>3, <1>4, <1>5, <1>6, <1>7, <1>8, <1>9, RowSteps

\* The status of an occurrence always agrees with its balance, also after a
\* stale scheduler update or a second void.
THEOREM StatusAgreesWithBalance == Spec => []StatusMatchesBalance
<1>1. Init => StatusMatchesBalance
  BY DEF Init, StatusMatchesBalance, Settled
<1>2. Typed /\ PaidWithinDue /\ StatusMatchesBalance /\ [Next]_vars
        => StatusMatchesBalance'
  BY StatusMatchesBalanceStep
<1>3. Spec => [](Typed /\ PaidWithinDue)
  BY TypeCorrect, BalanceBounded, PTL DEF Typed
<1> QED BY <1>1, <1>2, <1>3, PTL DEF Spec

-----------------------------------------------------------------------------
(* Settlement effects                                                      *)

\* Settling o by contribution k keeps the effects in step with the status.
LEMMA SettleKeepsEffects ==
  ASSUME Typed, EffectsMatchSettlement, NEW o \in Occs, NEW k \in Keys,
         NEW p, NEW st, FreshKey(k),
         row'[k] # None, row'[k].occ = o,
         \A j \in Keys \ {k} : row'[j] = row[j],
         status' = [status EXCEPT ![o] = st],
         st \in Settled => p = AmountDue[o],
         RunSettlementEffects(o, k, p),
         records' = records
  PROVE  EffectsMatchSettlement'
<1> SUFFICES ASSUME NEW x \in Occs
             PROVE  /\ status'[x] \in Settled => settledBy'[x] # {}
                    /\ Record \in settledBy'[x] <=> x \in records
                    /\ \A j \in settledBy'[x] \ {Record} :
                           row'[j] # None /\ row'[j].occ = x
  BY DEF EffectsMatchSettlement
<1>1. /\ status[x] \in Settled => settledBy[x] # {}
      /\ Record \in settledBy[x] <=> x \in records
      /\ \A j \in settledBy[x] \ {Record} : row[j] # None /\ row[j].occ = x
  BY DEF EffectsMatchSettlement
<1>2. settledBy[x] \subseteq Keys \cup {Record}
  BY DEF Typed, TypeOK
<1>3. \A j \in settledBy[x] \ {Record} : row'[j] # None /\ row'[j].occ = x
  BY <1>1, <1>2 DEF FreshKey
<1>4. CASE x = o /\ p = AmountDue[o]
  <2>1. settledBy'[x] = settledBy[x] \cup {k}
    BY <1>4 DEF Typed, TypeOK, RunSettlementEffects
  <2> QED BY <1>1, <1>3, <1>4, <2>1, NoneIsNoRow
<1>5. CASE ~(x = o /\ p = AmountDue[o])
  <2>1. settledBy'[x] = settledBy[x]
    BY <1>5 DEF Typed, TypeOK, RunSettlementEffects
  <2>2. status'[x] \in Settled => status[x] \in Settled
    BY <1>5 DEF Typed, TypeOK
  <2> QED BY <1>1, <1>3, <2>1, <2>2
<1> QED BY <1>4, <1>5

\* The settlement effects run in the step that settles, and stay.
LEMMA EffectsMatchSettlementStep ==
  ASSUME Typed, EffectsMatchSettlement, [Next]_vars
  PROVE  EffectsMatchSettlement'
<1>1. ASSUME NEW o \in Occs, NEW k \in Keys, NEW s \in Scans \cup {None},
             NEW a \in 1..AmountDue[o], NEW late \in BOOLEAN,
             CreateContribution(o, k, a, s, late)
      PROVE  EffectsMatchSettlement'
  <2> DEFINE p == amountPaid[o] + a
             st == BalanceStatus(o, p, late)
             c == [occ |-> o, amount |-> a, scan |-> s, state |-> "POSTED"]
  <2>1. st \in Settled => p = AmountDue[o]
    BY DEF BalanceStatus, Settled
  <2>2. c \in Contribution /\ c # None
    BY PaymentConstants, NoneIsNoRow DEF Contribution
  <2>3. row'[k] = c /\ \A j \in Keys \ {k} : row'[j] = row[j]
    BY <1>1 DEF Typed, TypeOK, CreateContribution, Post
  <2>4. /\ FreshKey(k) /\ RunSettlementEffects(o, k, p)
        /\ status' = [status EXCEPT ![o] = st] /\ records' = records
    BY <1>1 DEF CreateContribution
  <2>5. row'[k] # None /\ row'[k].occ = o
    BY <2>2, <2>3
  <2> HIDE DEF p, st, c
  <2> QED BY <2>1, <2>3, <2>4, <2>5, SettleKeepsEffects
<1>2. ASSUME NEW o \in Occs, NEW k \in Keys, NEW s \in Scans \cup {None},
             CreateSettled(o, k, s)
      PROVE  EffectsMatchSettlement'
  <2> DEFINE c == [occ |-> o, amount |-> AmountDue[o], scan |-> s,
                   state |-> "POSTED"]
             p == AmountDue[o]
             st == PaidStatus(FALSE)
  <2>1. st \in Settled => p = AmountDue[o]
    OBVIOUS
  <2>2. c \in Contribution /\ c # None
    BY PaymentConstants, NoneIsNoRow DEF Contribution
  <2>3. row'[k] = c /\ \A j \in Keys \ {k} : row'[j] = row[j]
    BY <1>2 DEF Typed, TypeOK, CreateSettled, Post
  <2>4. /\ FreshKey(k) /\ RunSettlementEffects(o, k, p)
        /\ status' = [status EXCEPT ![o] = st] /\ records' = records
    BY <1>2 DEF CreateSettled
  <2>5. row'[k] # None /\ row'[k].occ = o
    BY <2>2, <2>3
  <2> HIDE DEF p, st, c
  <2> QED BY <2>1, <2>3, <2>4, <2>5, SettleKeepsEffects
<1>3. ASSUME NEW v \in Voiders, VoidCommit(v) PROVE EffectsMatchSettlement'
  <2> DEFINE k == voiding[v]
             o == row[k].occ
             p == BalanceAfterVoid(o, k)
  <2>1. k \in Keys /\ row[k] \in Contribution /\ row[k] # None
    BY <1>3, VoidedRow
  <2>2. row' = [row EXCEPT ![k].state = "VOIDED"]
    BY <1>3 DEF VoidCommit
  <2>3. [row[k] EXCEPT !.state = "VOIDED"] \in Contribution
    BY <2>1 DEF Contribution
  <2>4. \A j \in Keys : row[j] # None => row'[j] # None /\ row'[j].occ = row[j].occ
    BY <2>1, <2>2, <2>3, NoneIsNoRow DEF Typed, TypeOK, Contribution
  <2>5. status' = [status EXCEPT ![o] = VoidStatus(o, p)]
        /\ settledBy' = settledBy /\ records' = records
    BY <1>3 DEF VoidCommit
  <2>6. VoidStatus(o, p) \notin Settled
    BY DEF VoidStatus, Settled
  <2> HIDE DEF k, o, p
  <2> QED
    BY <2>4, <2>5, <2>6 DEF Typed, TypeOK, EffectsMatchSettlement
<1>4. ASSUME NEW l \in Loggers, NEW late \in BOOLEAN, LogCommit(l, late)
      PROVE  EffectsMatchSettlement'
  BY <1>4, NoneIsNoRow DEF Typed, TypeOK, EffectsMatchSettlement, LogCommit
<1>5. ASSUME NEW o \in Occs, CreateOccurrence(o)
      PROVE  EffectsMatchSettlement'
  BY <1>5 DEF Typed, TypeOK, EffectsMatchSettlement, CreateOccurrence, Settled
<1>6. ASSUME NEW b \in Obligations, CancelUnpaid(b)
      PROVE  EffectsMatchSettlement'
  BY <1>6 DEF Typed, TypeOK, EffectsMatchSettlement, CancelUnpaid, Settled
<1>7. ASSUME NEW r \in Runs, NEW o \in Occs, MarkOverdue(r, o)
      PROVE  EffectsMatchSettlement'
  BY <1>7 DEF Typed, TypeOK, EffectsMatchSettlement, MarkOverdue, Settled
<1>8. ASSUME NEW r \in Runs, NEW o \in Occs, MarkMissed(r, o)
      PROVE  EffectsMatchSettlement'
  BY <1>8 DEF Typed, TypeOK, EffectsMatchSettlement, MarkMissed, Settled
<1>9. CASE UNCHANGED dbVars
  BY <1>9 DEF EffectsMatchSettlement, dbVars
<1> QED
  BY <1>1, <1>2, <1>3, <1>4, <1>5, <1>6, <1>7, <1>8, <1>9, RowSteps

\* Every settled occurrence has had its settlement effects, from a payment
\* made to it.
THEOREM EffectsFollowSettlement == Spec => []EffectsMatchSettlement
<1>1. Init => EffectsMatchSettlement
  BY DEF Init, EffectsMatchSettlement, Settled
<1>2. Typed /\ EffectsMatchSettlement /\ [Next]_vars => EffectsMatchSettlement'
  BY EffectsMatchSettlementStep
<1>3. Spec => []Typed
  BY TypeCorrect, PTL DEF Typed
<1> QED BY <1>1, <1>2, <1>3, PTL DEF Spec

-----------------------------------------------------------------------------
(* The grace period                                                        *)

\* What the missed pass relies on: an overdueAt lies after the due date, and
\* so does every row on a run's list, at the time the run read the clock.
OverdueAfterDue == \A o \in Occs : overdueAt[o] # None => DueAt[o] < overdueAt[o]
ListsAreDue == \A r \in Runs : \A o \in run[r].todo :
    /\ run[r].phase = "overdue" => DueAt[o] < run[r].at
    /\ run[r].phase = "missed" => DueAt[o] + MissedAfter < now
GraceInv == OverdueAfterDue /\ ListsAreDue /\ MissedAfterGrace

\* A row is marked overdue after its due date, and missed after the grace
\* period, however stale the list it was found on.
LEMMA GraceStep == ASSUME Typed, GraceInv, [Next]_vars PROVE GraceInv'
<1> USE PaymentConstants
\* Steps that move neither the clock nor a run, and set no MISSED status.
<1>1. ASSUME UNCHANGED <<now, run, overdueAt>>,
             \A o \in Occs : status'[o] = "MISSED" => status[o] = "MISSED"
      PROVE  GraceInv'
  BY <1>1 DEF GraceInv, OverdueAfterDue, ListsAreDue, MissedAfterGrace
<1>2. CASE ContributionStep
  <2>1. PICK o \in Occs, k \in Keys, s \in Scans \cup {None} :
          \/ \E a \in 1..AmountDue[o], late \in BOOLEAN :
                 CreateContribution(o, k, a, s, late)
          \/ CreateSettled(o, k, s)
    BY <1>2 DEF ContributionStep
  <2>2. UNCHANGED <<now, run, overdueAt>>
    BY <2>1 DEF CreateContribution, CreateSettled
  <2>3. \E st : st # "MISSED" /\ status' = [status EXCEPT ![o] = st]
    BY <2>1 DEF CreateContribution, CreateSettled, BalanceStatus, PaidStatus
  <2>4. \A x \in Occs : status'[x] = "MISSED" => status[x] = "MISSED"
    BY <2>3 DEF Typed, TypeOK
  <2> QED BY <1>1, <2>2, <2>4
<1>3. CASE VoidStep
  <2>1. PICK v \in Voiders : \/ \E k \in Keys : VoidRead(v, k)
                             \/ VoidCommit(v) \/ VoidAbort(v)
    BY <1>3 DEF VoidStep
  <2>2. UNCHANGED <<now, run, overdueAt>>
    BY <2>1 DEF VoidRead, VoidCommit, VoidAbort, dbVars
  <2>3. \/ status' = status
        \/ \E o, st : st # "MISSED" /\ status' = [status EXCEPT ![o] = st]
    BY <2>1 DEF VoidRead, VoidCommit, VoidAbort, VoidStatus, dbVars
  <2>4. \A x \in Occs : status'[x] = "MISSED" => status[x] = "MISSED"
    BY <2>3 DEF Typed, TypeOK
  <2> QED BY <1>1, <2>2, <2>4
<1>4. CASE LogStep
  <2>1. PICK l \in Loggers : \/ \E o \in Occs : LogRead(l, o)
                             \/ \E late \in BOOLEAN : LogCommit(l, late)
                             \/ LogAbort(l)
    BY <1>4 DEF LogStep
  <2>2. UNCHANGED <<now, run, overdueAt>>
    BY <2>1 DEF LogRead, LogCommit, LogAbort, dbVars
  <2>3. \/ status' = status
        \/ \E o, st : st # "MISSED" /\ status' = [status EXCEPT ![o] = st]
    BY <2>1 DEF LogRead, LogCommit, LogAbort, PaidStatus, dbVars
  <2>4. \A x \in Occs : status'[x] = "MISSED" => status[x] = "MISSED"
    BY <2>3 DEF Typed, TypeOK
  <2> QED BY <1>1, <2>2, <2>4
<1>5. CASE ObligationStep
  <2>1. UNCHANGED <<now, run, overdueAt>>
    BY <1>5 DEF ObligationStep, CreateOccurrence, CancelUnpaid
  <2>2. \A x \in Occs : status'[x] = "MISSED" => status[x] = "MISSED"
    BY <1>5 DEF Typed, TypeOK, ObligationStep, CreateOccurrence, CancelUnpaid
  <2> QED BY <1>1, <2>1, <2>2
<1>6. ASSUME NEW r \in Runs, OverdueScan(r) PROVE GraceInv'
  BY <1>6 DEF Typed, TypeOK, GraceInv, OverdueAfterDue, ListsAreDue,
     MissedAfterGrace, OverdueScan, OverduePending, dbVars
<1>7. ASSUME NEW r \in Runs, NEW o \in Occs, MarkOverdue(r, o)
      PROVE  GraceInv'
  <2>1. DueAt[o] < run[r].at
    BY <1>7 DEF GraceInv, ListsAreDue, MarkOverdue
  <2>2. OverdueAfterDue'
    BY <1>7, <2>1 DEF Typed, TypeOK, GraceInv, OverdueAfterDue, MarkOverdue
  <2>3. ListsAreDue'
    BY <1>7 DEF Typed, TypeOK, GraceInv, ListsAreDue, MarkOverdue
  <2>4. MissedAfterGrace'
    BY <1>7 DEF Typed, TypeOK, GraceInv, MissedAfterGrace, MarkOverdue
  <2> QED BY <2>2, <2>3, <2>4 DEF GraceInv
<1>8. ASSUME NEW r \in Runs, MissedScan(r) PROVE GraceInv'
  <2>1. \A o \in OverdueToMissed : o \in Occs /\ DueAt[o] + MissedAfter < now
    <3> SUFFICES ASSUME NEW o \in OverdueToMissed
                 PROVE  o \in Occs /\ DueAt[o] + MissedAfter < now
      OBVIOUS
    <3>1. o \in Occs /\ overdueAt[o] # None /\ overdueAt[o] + MissedAfter <= now
      BY DEF OverdueToMissed
    <3>2. DueAt[o] < overdueAt[o] /\ overdueAt[o] \in Nat
      BY <3>1 DEF Typed, TypeOK, GraceInv, OverdueAfterDue
    <3>3. now \in Nat /\ DueAt[o] \in Nat
      BY <3>1 DEF Typed, TypeOK
    <3> QED BY <3>1, <3>2, <3>3
  <2>2. /\ UNCHANGED <<now, status, overdueAt>>
        /\ run' = [run EXCEPT ![r] = [phase |-> "missed", at |-> now,
                                     todo |-> OverdueToMissed]]
    BY <1>8 DEF MissedScan, dbVars
  <2>3. ListsAreDue'
    BY <2>1, <2>2 DEF Typed, TypeOK, GraceInv, ListsAreDue
  <2> QED
    BY <2>2, <2>3 DEF GraceInv, OverdueAfterDue, MissedAfterGrace
<1>9. ASSUME NEW r \in Runs, NEW o \in Occs, MarkMissed(r, o) PROVE GraceInv'
  <2>1. DueAt[o] + MissedAfter < now
    BY <1>9 DEF GraceInv, ListsAreDue, MarkMissed
  <2>2. ListsAreDue'
    BY <1>9 DEF Typed, TypeOK, GraceInv, ListsAreDue, MarkMissed
  <2>3. MissedAfterGrace'
    BY <1>9, <2>1 DEF Typed, TypeOK, GraceInv, MissedAfterGrace, MarkMissed
  <2>4. OverdueAfterDue'
    BY <1>9 DEF GraceInv, OverdueAfterDue, MarkMissed
  <2> QED BY <2>2, <2>3, <2>4 DEF GraceInv
<1>10. ASSUME NEW r \in Runs, RunEnd(r) \/ RunCrash(r) PROVE GraceInv'
  <2>1. /\ UNCHANGED <<now, status, overdueAt>>
        /\ run' = [run EXCEPT ![r] = IdleRun]
    BY <1>10 DEF RunEnd, RunCrash, dbVars
  <2> QED
    BY <2>1 DEF Typed, TypeOK, GraceInv, OverdueAfterDue, ListsAreDue,
       MissedAfterGrace, IdleRun
<1>11. CASE Tick
  <2>1. now' = now + 1 /\ UNCHANGED <<status, overdueAt, run>>
    BY <1>11 DEF Tick, dbVars
  <2>2. now \in Nat /\ \A o \in Occs : DueAt[o] + MissedAfter \in Nat
    BY DEF Typed, TypeOK
  <2>3. \A r \in Runs : run[r].todo \subseteq Occs
    BY DEF Typed, TypeOK
  <2> QED
    BY <2>1, <2>2, <2>3 DEF GraceInv, OverdueAfterDue, ListsAreDue,
       MissedAfterGrace
<1>12. CASE UNCHANGED vars
  BY <1>1, <1>12 DEF vars
<1> QED
  BY <1>2, <1>3, <1>4, <1>5, <1>6, <1>7, <1>8, <1>9, <1>10, <1>11, <1>12
     DEF Next, RunStep

\* Overlapping, restarted and stale scheduler runs never mark an occurrence
\* missed before its grace period has passed.
THEOREM NoEarlyMiss == Spec => []MissedAfterGrace
<1>1. Init => GraceInv
  BY PaymentConstants DEF Init, GraceInv, OverdueAfterDue, ListsAreDue,
     MissedAfterGrace, IdleRun
<1>2. Typed /\ GraceInv /\ [Next]_vars => GraceInv'
  BY GraceStep
<1>3. Spec => []Typed
  BY TypeCorrect, PTL DEF Typed
<1>4. GraceInv => MissedAfterGrace
  BY DEF GraceInv
<1> QED BY <1>1, <1>2, <1>3, <1>4, PTL DEF Spec

-----------------------------------------------------------------------------
(* Steps on the contribution rows                                          *)

\* What one step does to the contributions and balances: it posts one under a
\* fresh key, voids one, or moves no money.
PostsOne(o, k, a, s) ==
    /\ row[k] = None
    /\ a \in 1..AmountDue[o]
    /\ amountPaid[o] + a <= AmountDue[o]
    /\ s # None => scan[s] = "READY_FOR_REVIEW"
    /\ row' = [row EXCEPT ![k] = [occ |-> o, amount |-> a, scan |-> s,
                                 state |-> "POSTED"]]
    /\ amountPaid' = [amountPaid EXCEPT ![o] = @ + a]
    /\ scan' = [x \in Scans |-> IF x = s THEN "CONSUMED" ELSE scan[x]]
VoidsOne(k) ==
    /\ row[k] # None
    /\ row[k] \in Contribution
    /\ amountPaid[row[k].occ] >= row[k].amount
    /\ status[row[k].occ] \in Payable
    /\ status'[row[k].occ] \in Payable
    /\ row' = [row EXCEPT ![k].state = "VOIDED"]
    /\ amountPaid' = [amountPaid EXCEPT ![row[k].occ] = @ - row[k].amount]
    /\ scan' = scan

\* The steps that touch contributions or balances: one is posted, one is
\* voided, or all stay.
LEMMA MoneySteps ==
  ASSUME Typed, StatusMatchesBalance, [Next]_vars
  PROVE  \/ \E o \in Occs, k \in Keys, s \in Scans \cup {None}, a \in Nat :
              PostsOne(o, k, a, s)
         \/ \E k \in Keys : VoidsOne(k)
         \/ UNCHANGED <<row, amountPaid, scan>>
<1> USE AmountsDue
<1>1. ASSUME NEW o \in Occs, NEW k \in Keys, NEW s \in Scans \cup {None},
             NEW a \in 1..AmountDue[o], NEW late \in BOOLEAN,
             CreateContribution(o, k, a, s, late)
      PROVE  PostsOne(o, k, a, s) /\ a \in Nat
  BY <1>1 DEF PostsOne, CreateContribution, FreshKey, AmountFits, ScanUsable,
     Post, ConsumeScan
<1>2. ASSUME NEW o \in Occs, NEW k \in Keys, NEW s \in Scans \cup {None},
             CreateSettled(o, k, s)
      PROVE  PostsOne(o, k, AmountDue[o], s) /\ AmountDue[o] \in Nat
  <2>1. amountPaid[o] = 0
    BY <1>2 DEF StatusMatchesBalance, CreateSettled
  <2>2. AmountDue[o] \in 1..AmountDue[o] /\ amountPaid[o] + AmountDue[o] = AmountDue[o]
    BY <2>1
  <2>3. amountPaid' = [amountPaid EXCEPT ![o] = @ + AmountDue[o]]
    BY <1>2, <2>2 DEF CreateSettled
  <2>4. amountPaid[o] + AmountDue[o] <= AmountDue[o]
    BY <2>2
  <2> QED
    BY <1>2, <2>2, <2>3, <2>4 DEF PostsOne, CreateSettled, FreshKey, ScanUsable,
       Post, ConsumeScan
<1>3. ASSUME NEW v \in Voiders, VoidCommit(v) PROVE VoidsOne(voiding[v])
  <2> DEFINE k == voiding[v]
             o == row[k].occ
             p == BalanceAfterVoid(o, k)
  <2>1. k \in Keys /\ row[k] \in Contribution /\ row[k] # None
    BY <1>3, VoidedRow
  <2>2. o \in Occs /\ row[k].amount \in Nat
    BY <2>1 DEF Contribution
  <2>3. /\ row' = [row EXCEPT ![k].state = "VOIDED"]
        /\ amountPaid' = [amountPaid EXCEPT ![o] = p]
        /\ status' = [status EXCEPT ![o] = VoidStatus(o, p)]
        /\ scan' = scan
        /\ status[o] \notin Terminal
        /\ p >= 0
    BY <1>3 DEF VoidCommit, Voidable, ValidBalance
  <2>4. p = amountPaid[o] - row[k].amount
    BY DEF BalanceAfterVoid
  <2>5. amountPaid[o] \in Nat
    BY <2>2 DEF Typed, TypeOK
  <2>6. VoidStatus(o, p) \in Payable
    BY DEF VoidStatus, Payable
  <2>7. status'[o] \in Payable
    BY <2>2, <2>3, <2>6 DEF Typed, TypeOK
  <2>8. status[o] # "ABSENT"
    <3>1. amountPaid[o] >= row[k].amount /\ row[k].amount > 0
      BY <2>1, <2>2, <2>3, <2>4, <2>5 DEF Contribution
    <3> QED BY <2>2, <2>5, <3>1 DEF StatusMatchesBalance
  <2>9. status[o] \in Payable
    BY <2>2, <2>3, <2>8 DEF Typed, TypeOK, Status, Terminal
  <2>10. amountPaid[o] >= row[k].amount
    BY <2>2, <2>3, <2>4, <2>5
  <2> HIDE DEF p
  <2> QED
    BY <2>1, <2>3, <2>4, <2>7, <2>9, <2>10 DEF VoidsOne
<1>4. ASSUME NEW v \in Voiders, VoidCommit(v)
      PROVE  \E k \in Keys : VoidsOne(k)
  BY <1>3, <1>4, VoidedRow
<1>5. ASSUME NEW l \in Loggers, NEW late \in BOOLEAN, LogCommit(l, late)
      PROVE  UNCHANGED <<row, amountPaid, scan>>
  BY <1>5 DEF LogCommit
<1>6. ASSUME NEW o \in Occs, CreateOccurrence(o)
      PROVE  UNCHANGED <<row, amountPaid, scan>>
  BY <1>6 DEF CreateOccurrence
<1>7. ASSUME NEW b \in Obligations, CancelUnpaid(b)
      PROVE  UNCHANGED <<row, amountPaid, scan>>
  BY <1>7 DEF CancelUnpaid
<1>8. ASSUME NEW r \in Runs, NEW o \in Occs, MarkOverdue(r, o) \/ MarkMissed(r, o)
      PROVE  UNCHANGED <<row, amountPaid, scan>>
  BY <1>8 DEF MarkOverdue, MarkMissed
<1>9. CASE UNCHANGED dbVars
  BY <1>9 DEF dbVars
<1> QED
  BY <1>1, <1>2, <1>4, <1>5, <1>6, <1>7, <1>8, <1>9, RowSteps

\* A posted contribution is never replaced by a retry; it can only be voided.
THEOREM ContributionsStay == Spec => ContributionsAreFinal
<1>1. Typed /\ StatusMatchesBalance /\ [Next]_vars => [\A k \in Keys :
        row[k] # None => row'[k] \in {row[k], [row[k] EXCEPT !.state = "VOIDED"]}]_vars
  <2> SUFFICES ASSUME Typed, StatusMatchesBalance, [Next]_vars,
                      NEW k \in Keys, row[k] # None
               PROVE  row'[k] \in {row[k], [row[k] EXCEPT !.state = "VOIDED"]}
    OBVIOUS
  <2>1. CASE \E o \in Occs, j \in Keys, s \in Scans \cup {None}, a \in Nat :
               PostsOne(o, j, a, s)
    BY <2>1 DEF Typed, TypeOK, PostsOne
  <2>2. ASSUME NEW j \in Keys, VoidsOne(j)
        PROVE  row'[k] \in {row[k], [row[k] EXCEPT !.state = "VOIDED"]}
    BY <2>2 DEF Typed, TypeOK, VoidsOne
  <2>3. CASE UNCHANGED <<row, amountPaid, scan>>
    BY <2>3
  <2> QED BY <2>1, <2>2, <2>3, MoneySteps
<1>2. Spec => [](Typed /\ StatusMatchesBalance)
  BY TypeCorrect, StatusAgreesWithBalance, PTL DEF Typed
<1> QED BY <1>1, <1>2, PTL DEF Spec, ContributionsAreFinal

\* Money leaves an occurrence only through the void of one of its
\* contributions, while the occurrence is and stays payable.
THEOREM OnlyVoidsTakeMoney == Spec => MoneyLeavesByVoid
<1> DEFINE Leaves(o) == amountPaid'[o] < amountPaid[o] =>
      /\ \E k \in Keys : /\ row[k] # None
                         /\ row[k].occ = o
                         /\ row'[k].state = "VOIDED"
                         /\ amountPaid[o] - amountPaid'[o] = row[k].amount
      /\ status[o] \in Payable /\ status'[o] \in Payable
<1>1. Typed /\ StatusMatchesBalance /\ [Next]_vars
        => [\A o \in Occs : Leaves(o)]_vars
  <2> SUFFICES ASSUME Typed, StatusMatchesBalance, [Next]_vars, NEW o \in Occs,
                      amountPaid'[o] < amountPaid[o]
               PROVE  /\ \E k \in Keys : /\ row[k] # None
                                         /\ row[k].occ = o
                                         /\ row'[k].state = "VOIDED"
                                         /\ amountPaid[o] - amountPaid'[o] = row[k].amount
                      /\ status[o] \in Payable /\ status'[o] \in Payable
    OBVIOUS
  <2>0. amountPaid[o] \in Nat
    BY DEF Typed, TypeOK
  <2>1. ASSUME NEW x \in Occs, NEW k \in Keys, NEW s \in Scans \cup {None},
               NEW a \in Nat, PostsOne(x, k, a, s)
        PROVE  FALSE
    <3>1. amountPaid'[o] = amountPaid[o] \/ amountPaid'[o] = amountPaid[o] + a
      BY <2>1 DEF Typed, TypeOK, PostsOne
    <3> QED BY <2>0, <3>1
  <2>2. ASSUME NEW k \in Keys, VoidsOne(k)
        PROVE  /\ row[k] # None
               /\ row[k].occ = o
               /\ row'[k].state = "VOIDED"
               /\ amountPaid[o] - amountPaid'[o] = row[k].amount
               /\ status[o] \in Payable /\ status'[o] \in Payable
    <3>1. row[k].occ = o
      BY <2>0, <2>2 DEF Typed, TypeOK, VoidsOne
    <3>2. amountPaid'[o] = amountPaid[o] - row[k].amount
      BY <2>2, <3>1 DEF Typed, TypeOK, VoidsOne
    <3>3. row[k].amount \in Nat
      BY <2>2 DEF VoidsOne, Contribution
    <3>4. row'[k] = [row[k] EXCEPT !.state = "VOIDED"]
      BY <2>2 DEF Typed, TypeOK, VoidsOne
    <3>5. row'[k].state = "VOIDED"
      BY <2>2, <3>4 DEF VoidsOne, Contribution
    <3> QED
      BY <2>0, <2>2, <3>1, <3>2, <3>3, <3>5 DEF VoidsOne
  <2>3. CASE UNCHANGED <<row, amountPaid, scan>>
    BY <2>0, <2>3
  <2> QED BY <2>1, <2>2, <2>3, MoneySteps
<1>2. Spec => [](Typed /\ StatusMatchesBalance)
  BY TypeCorrect, StatusAgreesWithBalance, PTL DEF Typed
<1> QED BY <1>1, <1>2, PTL DEF Spec, MoneyLeavesByVoid

-----------------------------------------------------------------------------
(* Receipt scans                                                           *)

UsersOf(s) == {k \in Keys : row[k] # None /\ row[k].scan = s}

\* A consumed scan backs one contribution, an unconsumed one none.
ScanUsers == \A s \in Scans :
    IF scan[s] = "CONSUMED" THEN \E k : UsersOf(s) = {k} ELSE UsersOf(s) = {}

\* A scan gains its contribution in the step that spends it.
LEMMA ScanUsersStep ==
  ASSUME Typed, StatusMatchesBalance, ScanUsers, [Next]_vars
  PROVE  ScanUsers'
<1>1. ASSUME NEW o \in Occs, NEW k \in Keys, NEW s \in Scans \cup {None},
             NEW a \in Nat, PostsOne(o, k, a, s)
      PROVE  ScanUsers'
  <2> SUFFICES ASSUME NEW x \in Scans
               PROVE  (IF scan[x] = "CONSUMED" THEN \E j : UsersOf(x) = {j}
                                               ELSE UsersOf(x) = {})'
    BY DEF ScanUsers
  <2> DEFINE c == [occ |-> o, amount |-> a, scan |-> s, state |-> "POSTED"]
  <2>1. c \in Contribution /\ c # None
    <3>1. a \in Nat \ {0}
      BY <1>1, AmountsDue DEF PostsOne
    <3> QED BY <3>1, NoneIsNoRow DEF Contribution
  <2>2. row'[k] = c /\ row[k] = None /\ \A j \in Keys \ {k} : row'[j] = row[j]
    BY <1>1 DEF Typed, TypeOK, PostsOne
  <2>3. scan'[x] = IF x = s THEN "CONSUMED" ELSE scan[x]
    BY <1>1 DEF PostsOne
  <2>4. CASE x = s
    <3>1. scan[x] = "READY_FOR_REVIEW"
      BY <1>1, <2>4, NoneIsNoRow DEF PostsOne
    <3>2. UsersOf(x) = {}
      BY <3>1 DEF ScanUsers
    <3>3. UsersOf(x)' = {k}
      BY <2>1, <2>2, <2>4, <3>2 DEF UsersOf
    <3> QED BY <2>3, <2>4, <3>3
  <2>5. CASE x # s
    <3>1. UsersOf(x)' = UsersOf(x)
      BY <2>1, <2>2, <2>5 DEF UsersOf
    <3> QED BY <2>3, <2>5, <3>1 DEF ScanUsers
  <2> QED BY <2>4, <2>5
<1>2. ASSUME NEW k \in Keys, VoidsOne(k) PROVE ScanUsers'
  <2>1. [row[k] EXCEPT !.state = "VOIDED"] \in Contribution
    BY <1>2 DEF VoidsOne, Contribution
  <2>2. \A j \in Keys : /\ row'[j] = None <=> row[j] = None
                        /\ row[j] # None => row'[j].scan = row[j].scan
    BY <1>2, <2>1, NoneIsNoRow DEF Typed, TypeOK, VoidsOne, Contribution
  <2>3. \A x \in Scans : UsersOf(x)' = UsersOf(x)
    BY <2>2 DEF UsersOf
  <2> QED BY <1>2, <2>3 DEF VoidsOne, ScanUsers
<1>3. CASE UNCHANGED <<row, amountPaid, scan>>
  BY <1>3 DEF ScanUsers, UsersOf
<1> QED BY <1>1, <1>2, <1>3, MoneySteps

\* A receipt scan is consumed by exactly one contribution.
THEOREM ScansAreSpentOnce == Spec => []ScanBacksOneContribution
<1>1. Init => ScanUsers
  BY DEF Init, ScanUsers, UsersOf
<1>2. Typed /\ StatusMatchesBalance /\ ScanUsers /\ [Next]_vars => ScanUsers'
  BY ScanUsersStep
<1>3. Spec => [](Typed /\ StatusMatchesBalance)
  BY TypeCorrect, StatusAgreesWithBalance, PTL DEF Typed
<1>4. ScanUsers => ScanBacksOneContribution
  <2> SUFFICES ASSUME ScanUsers, NEW s \in Scans
               PROVE  IF scan[s] = "CONSUMED" THEN Cardinality(UsersOf(s)) = 1
                      ELSE UsersOf(s) = {}
    BY DEF ScanBacksOneContribution, UsersOf
  <2> QED BY FS_Singleton DEF ScanUsers
<1> QED BY <1>1, <1>2, <1>3, <1>4, PTL DEF Spec

-----------------------------------------------------------------------------
(* Refinement                                                              *)

\* Every step of the services is a step of the contribution ledger, or moves
\* no money.
LEMMA LedgerStep ==
  ASSUME Typed, StatusMatchesBalance, [Next]_vars
  PROVE  [Ledger!Next]_(Ledger!vars)
<1> DEFINE Bought(r) == IF r = None THEN None
                        ELSE [occ |-> r.occ, amount |-> r.amount]
           posted == [k \in Keys |-> Bought(row[k])]
<1>1. ASSUME NEW o \in Occs, NEW k \in Keys, NEW s \in Scans \cup {None},
             NEW a \in Nat, PostsOne(o, k, a, s)
      PROVE  Ledger!Next
  <2> DEFINE c == [occ |-> o, amount |-> a, scan |-> s, state |-> "POSTED"]
  <2>1. c \in Contribution /\ c # None
    <3>1. a \in Nat \ {0}
      BY <1>1, AmountsDue DEF PostsOne
    <3> QED BY <3>1, NoneIsNoRow DEF Contribution
  <2>2. row'[k] = c /\ row[k] = None /\ \A j \in Keys \ {k} : row'[j] = row[j]
    BY <1>1 DEF Typed, TypeOK, PostsOne
  <2>3. posted' = [posted EXCEPT ![k] = [occ |-> o, amount |-> a]]
    <3>1. Bought(row'[k]) = [occ |-> o, amount |-> a]
      BY <2>1, <2>2
    <3>2. \A j \in Keys \ {k} : Bought(row'[j]) = Bought(row[j])
      BY <2>2
    <3> HIDE DEF Bought
    <3> QED BY <3>1, <3>2
  <2>4. posted[k] = None
    BY <2>2
  <2>5. Ledger!Post(o, k, a)
    BY <1>1, <2>3, <2>4 DEF PostsOne, Ledger!Post
  <2>6. a \in 1..AmountDue[o]
    BY <1>1 DEF PostsOne
  <2> QED BY <2>5, <2>6 DEF Ledger!Next
<1>2. ASSUME NEW k \in Keys, VoidsOne(k) PROVE Ledger!Next
  <2>1. [row[k] EXCEPT !.state = "VOIDED"] \in Contribution
    BY <1>2 DEF VoidsOne, Contribution
  <2>2. row'[k] = [row[k] EXCEPT !.state = "VOIDED"]
        /\ \A j \in Keys \ {k} : row'[j] = row[j]
    BY <1>2 DEF Typed, TypeOK, VoidsOne
  <2>3. \A j \in Keys : Bought(row'[j]) = Bought(row[j])
    BY <1>2, <2>1, <2>2, NoneIsNoRow DEF VoidsOne, Contribution
  <2>4. posted' = posted
    BY <2>3
  <2>5. posted[k] = [occ |-> row[k].occ, amount |-> row[k].amount]
    BY <1>2 DEF VoidsOne
  <2>6. posted[k] # None
    <3>1. row[k].occ \in Occs /\ row[k].amount \in Nat
      BY <1>2 DEF VoidsOne, Contribution
    <3>2. [occ |-> row[k].occ, amount |-> row[k].amount] \in [occ: Occs, amount: Nat]
      BY <3>1
    <3> QED BY <2>5, <3>2, NoneIsNoRow
  <2> QED
    BY <1>2, <2>4, <2>5, <2>6 DEF VoidsOne, Ledger!Reverse, Ledger!Next
<1>3. CASE UNCHANGED <<row, amountPaid, scan>>
  BY <1>3 DEF Ledger!vars
<1> QED BY <1>1, <1>2, <1>3, MoneySteps

\* The services implement the contribution ledger.
THEOREM Implementation == Spec => ImplementsLedger
<1>1. Init => Ledger!Init
  BY DEF Init, Ledger!Init
<1>2. Typed /\ StatusMatchesBalance /\ [Next]_vars
        => [Ledger!Next]_(Ledger!vars)
  BY LedgerStep
<1>3. Spec => [](Typed /\ StatusMatchesBalance)
  BY TypeCorrect, StatusAgreesWithBalance, PTL DEF Typed
<1> QED
  BY <1>1, <1>2, <1>3, PTL DEF Spec, ImplementsLedger, Ledger!Spec

-----------------------------------------------------------------------------
(* Money and the contributions behind it                                   *)

\* The contributions posted to an occurrence are finitely many at any time.
FinitelyPosted == \A o \in Occs : IsFiniteSet(PostedTo(o))

\* The posted amounts of an occurrence, and their sum, are numbers.
LEMMA PostedNatural ==
  ASSUME Typed, FinitelyPosted, NEW o \in Occs
  PROVE  /\ \A k \in PostedTo(o) : row[k].amount \in Nat
         /\ PostedTotal(o) \in Nat
<1>1. \A k \in PostedTo(o) : row[k] \in Contribution
  BY DEF PostedTo, Typed, TypeOK
<1>2. \A k \in PostedTo(o) : row[k].amount \in Nat
  BY <1>1 DEF Contribution
<1>3. \A k \in PostedTo(o) : Posted(o)[k] \in Nat
  BY <1>2 DEF Posted
<1> QED BY <1>2, <1>3, SumNatural DEF FinitelyPosted, PostedTotal

\* A contribution posted under a fresh key adds its amount to one occurrence.
LEMMA PostedGrows ==
  ASSUME Typed, FinitelyPosted, NEW k \in Keys, row[k] = None,
         NEW c \in Contribution, c.state = "POSTED",
         row' = [row EXCEPT ![k] = c],
         NEW o \in Occs
  PROVE  /\ IsFiniteSet(PostedTo(o)')
         /\ PostedTotal(o)' =
              PostedTotal(o) + (IF o = c.occ THEN c.amount ELSE 0)
<1> DEFINE S == PostedTo(o)
           f == Posted(o)
           g == Posted(o)'
<1>1. c # None /\ c.amount \in Nat /\ c.occ \in Occs
  BY NoneIsNoRow DEF Contribution
<1>2. row'[k] = c /\ \A j \in Keys : j # k => row'[j] = row[j]
  BY DEF Typed, TypeOK
<1>3. k \notin S /\ IsFiniteSet(S)
  BY DEF PostedTo, FinitelyPosted
<1>4. \A j \in S : f[j] \in Nat
  BY PostedNatural DEF Posted
<1>5. PostedTotal(o) \in Nat
  BY PostedNatural
<1>6. CASE o = c.occ
  <2>1. PostedTo(o)' = S \cup {k}
    BY <1>1, <1>2, <1>3, <1>6 DEF PostedTo
  <2>2. g[k] = c.amount /\ \A j \in S : g[j] = f[j]
    BY <1>2, <1>3, <2>1 DEF Posted, PostedTo
  <2>3. \A j \in S \cup {k} : g[j] \in Int
    BY <1>1, <1>4, <2>2
  <2> HIDE DEF S, f, g
  <2>4. SumFunctionOnSet(g, S \cup {k}) = g[k] + SumFunctionOnSet(g, S)
    BY <1>3, <2>3, SumAdd
  <2>5. SumFunctionOnSet(g, S) = SumFunctionOnSet(f, S)
    BY <1>3, <2>2, SumEqual
  <2>6. PostedTotal(o)' = SumFunctionOnSet(g, S \cup {k})
        /\ PostedTotal(o) = SumFunctionOnSet(f, S)
    BY <2>1 DEF PostedTotal, S, f, g
  <2>7. IsFiniteSet(S \cup {k})
    BY <1>3, FS_AddElement
  <2> QED BY <1>1, <1>5, <1>6, <2>1, <2>2, <2>4, <2>5, <2>6, <2>7
<1>7. CASE o # c.occ
  <2>1. PostedTo(o)' = S
    BY <1>2, <1>3, <1>7 DEF PostedTo
  <2>2. \A j \in S : g[j] = f[j]
    BY <1>2, <1>3, <2>1 DEF Posted, PostedTo
  <2> HIDE DEF S, f, g
  <2>3. SumFunctionOnSet(g, S) = SumFunctionOnSet(f, S)
    BY <1>3, <2>2, SumEqual
  <2>4. PostedTotal(o)' = SumFunctionOnSet(g, S)
        /\ PostedTotal(o) = SumFunctionOnSet(f, S)
    BY <2>1 DEF PostedTotal, S, f, g
  <2> QED BY <1>3, <1>5, <1>7, <2>1, <2>3, <2>4
<1> QED BY <1>6, <1>7

\* Voiding takes the amount of a contribution off its occurrence, once.
LEMMA PostedShrinks ==
  ASSUME Typed, FinitelyPosted, NEW k \in Keys, row[k] \in Contribution,
         row' = [row EXCEPT ![k].state = "VOIDED"],
         NEW o \in Occs
  PROVE  /\ IsFiniteSet(PostedTo(o)')
         /\ o = row[k].occ =>
              PostedTotal(o)' >= PostedTotal(o) - row[k].amount
         /\ o # row[k].occ => PostedTotal(o)' = PostedTotal(o)
         /\ k \in PostedTo(o) =>
              PostedTotal(o)' = PostedTotal(o) - row[k].amount
         /\ PostedTotal(o)' \in Int
<1> DEFINE S == PostedTo(o)
           f == Posted(o)
           g == Posted(o)'
<1>1. row[k] # None /\ row[k].amount \in Nat
  BY NoneIsNoRow DEF Contribution
<1>2. row'[k].state = "VOIDED" /\ \A j \in Keys : j # k => row'[j] = row[j]
  BY DEF Typed, TypeOK, Contribution
<1>3. IsFiniteSet(S) /\ IsFiniteSet(S \ {k})
  BY FS_RemoveElement DEF FinitelyPosted
<1>4. \A j \in S : f[j] \in Nat
  BY PostedNatural DEF Posted
<1>5. PostedTotal(o) \in Nat
  BY PostedNatural
<1>6. PostedTo(o)' = S \ {k}
  BY <1>2 DEF PostedTo
<1>7. \A j \in S \ {k} : g[j] = f[j]
  BY <1>2, <1>6 DEF Posted, PostedTo
<1>8. k \in S => f[k] = row[k].amount /\ o = row[k].occ
  BY DEF Posted, PostedTo
<1>9. /\ PostedTotal(o)' = SumFunctionOnSet(g, S \ {k})
      /\ PostedTotal(o) = SumFunctionOnSet(f, S)
  BY <1>6 DEF PostedTotal
<1> HIDE DEF S, f, g
<1>10. SumFunctionOnSet(g, S \ {k}) = SumFunctionOnSet(f, S \ {k})
  BY <1>3, <1>7, SumEqual
<1>11. CASE k \in S
  <2>1. SumFunctionOnSet(f, S) = f[k] + SumFunctionOnSet(f, S \ {k})
    BY <1>3, <1>4, <1>11, SumTake
  <2>2. SumFunctionOnSet(f, S \ {k}) \in Int
    BY <1>3, <1>4, SumTake
  <2> QED BY <1>1, <1>3, <1>6, <1>8, <1>9, <1>10, <1>11, <2>1, <2>2
<1>12. CASE k \notin S
  <2>1. S \ {k} = S
    BY <1>12
  <2>2. PostedTotal(o)' = PostedTotal(o)
    BY <1>9, <1>10, <2>1
  <2> QED BY <1>1, <1>3, <1>5, <1>6, <1>12, <2>2 DEF S
<1> QED BY <1>11, <1>12

\* A posting adds the same to the balance and to the posted sum; a void takes
\* its amount from the balance, and from the sum at most that.
LEMMA BackedStep ==
  ASSUME Typed, StatusMatchesBalance, FinitelyPosted, PaidBackedByPosted,
         [Next]_vars
  PROVE  FinitelyPosted' /\ PaidBackedByPosted'
<1> USE AmountsDue
<1> SUFFICES ASSUME NEW x \in Occs
             PROVE  /\ IsFiniteSet(PostedTo(x)')
                    /\ amountPaid'[x] <= PostedTotal(x)'
  BY DEF FinitelyPosted, PaidBackedByPosted
<1>1. /\ amountPaid \in [Occs -> Nat]
      /\ PostedTotal(x) \in Nat
      /\ amountPaid[x] <= PostedTotal(x)
      /\ amountPaid'[x] \in Nat
  BY PostedNatural, TypedStep DEF Typed, TypeOK, PaidBackedByPosted
<1>2. ASSUME NEW k \in Keys, NEW o \in Occs, NEW a \in Nat, NEW s,
             row[k] = None, amountPaid'[x] <= amountPaid[x] + (IF x = o THEN a ELSE 0),
             [occ |-> o, amount |-> a, scan |-> s, state |-> "POSTED"]
               \in Contribution,
             Post(o, k, a, s)
      PROVE  /\ IsFiniteSet(PostedTo(x)')
             /\ amountPaid'[x] <= PostedTotal(x)'
  <2> DEFINE c == [occ |-> o, amount |-> a, scan |-> s, state |-> "POSTED"]
  <2>1. c.state = "POSTED" /\ c.occ = o /\ c.amount = a
    OBVIOUS
  <2>2. c \in Contribution /\ row' = [row EXCEPT ![k] = c]
    BY <1>2 DEF Post
  <2> HIDE DEF c
  <2>3. /\ IsFiniteSet(PostedTo(x)')
        /\ PostedTotal(x)' = PostedTotal(x) + (IF x = c.occ THEN c.amount ELSE 0)
    BY <1>2, <2>1, <2>2, PostedGrows
  <2> QED BY <1>1, <1>2, <2>1, <2>3
<1>3. ASSUME NEW o \in Occs, NEW k \in Keys, NEW s \in Scans \cup {None},
             NEW a \in 1..AmountDue[o], NEW late \in BOOLEAN,
             CreateContribution(o, k, a, s, late)
      PROVE  /\ IsFiniteSet(PostedTo(x)')
             /\ amountPaid'[x] <= PostedTotal(x)'
  <2>1. [occ |-> o, amount |-> a, scan |-> s, state |-> "POSTED"]
          \in Contribution
    BY DEF Contribution
  <2>2. row[k] = None /\ Post(o, k, a, s)
        /\ amountPaid'[x] <= amountPaid[x] + (IF x = o THEN a ELSE 0)
    BY <1>1, <1>3 DEF CreateContribution, FreshKey
  <2> QED BY <1>2, <2>1, <2>2
<1>4. ASSUME NEW o \in Occs, NEW k \in Keys, NEW s \in Scans \cup {None},
             CreateSettled(o, k, s)
      PROVE  /\ IsFiniteSet(PostedTo(x)')
             /\ amountPaid'[x] <= PostedTotal(x)'
  <2> DEFINE a == AmountDue[o]
  <2>1. a \in Nat /\ [occ |-> o, amount |-> a, scan |-> s, state |-> "POSTED"]
                       \in Contribution
    BY DEF Contribution
  <2>2. row[k] = None /\ Post(o, k, a, s)
        /\ amountPaid'[x] <= amountPaid[x] + (IF x = o THEN a ELSE 0)
    BY <1>1, <1>4, <2>1 DEF CreateSettled, FreshKey
  <2> HIDE DEF a
  <2> QED BY <1>2, <2>1, <2>2
<1>5. ASSUME NEW v \in Voiders, VoidCommit(v)
      PROVE  /\ IsFiniteSet(PostedTo(x)')
             /\ amountPaid'[x] <= PostedTotal(x)'
  <2> DEFINE k == voiding[v]
  <2>1. k \in Keys /\ row[k] \in Contribution
    BY <1>5, VoidedRow
  <2>2. row[k].occ \in Occs /\ row[k].amount \in Nat
    BY <2>1 DEF Contribution
  <2>3. /\ row' = [row EXCEPT ![k].state = "VOIDED"]
        /\ amountPaid' = [amountPaid EXCEPT ![row[k].occ] = @ - row[k].amount]
    BY <1>5 DEF VoidCommit, BalanceAfterVoid
  <2>4. /\ IsFiniteSet(PostedTo(x)')
        /\ x = row[k].occ => PostedTotal(x)' >= PostedTotal(x) - row[k].amount
        /\ x # row[k].occ => PostedTotal(x)' = PostedTotal(x)
        /\ PostedTotal(x)' \in Int
    BY <2>1, <2>3, PostedShrinks
  <2> HIDE DEF k
  <2> QED BY <1>1, <2>2, <2>3, <2>4
<1>6. ASSUME row' = row, amountPaid' = amountPaid
      PROVE  /\ IsFiniteSet(PostedTo(x)')
             /\ amountPaid'[x] <= PostedTotal(x)'
  <2>1. PostedTo(x)' = PostedTo(x) /\ PostedTotal(x)' = PostedTotal(x)
    BY <1>6 DEF PostedTotal, Posted, PostedTo
  <2> QED BY <1>1, <1>6, <2>1 DEF FinitelyPosted
<1> QED
  BY <1>3, <1>4, <1>5, <1>6, RowSteps
     DEF LogCommit, CreateOccurrence, CancelUnpaid, MarkOverdue, MarkMissed,
         dbVars

\* Every balance is at all times backed by finitely many contributions.
LEMMA BackedAlways == Spec => [](FinitelyPosted /\ PaidBackedByPosted)
<1>1. Init => FinitelyPosted /\ PaidBackedByPosted
  <2> SUFFICES ASSUME Init, NEW o \in Occs
               PROVE  IsFiniteSet(PostedTo(o)) /\ amountPaid[o] <= PostedTotal(o)
    BY DEF FinitelyPosted, PaidBackedByPosted
  <2>1. PostedTo(o) = {}
    BY DEF Init, PostedTo
  <2>2. PostedTotal(o) = 0 /\ amountPaid[o] = 0
    BY <2>1, SumEmpty DEF PostedTotal, Init
  <2> QED BY <2>1, <2>2, FS_EmptySet
<1>2. /\ Typed /\ StatusMatchesBalance
      /\ FinitelyPosted /\ PaidBackedByPosted /\ [Next]_vars
      => FinitelyPosted' /\ PaidBackedByPosted'
  BY BackedStep
<1>3. Spec => [](Typed /\ StatusMatchesBalance)
  BY TypeCorrect, StatusAgreesWithBalance, PTL DEF Typed
<1> QED BY <1>1, <1>2, <1>3, PTL DEF Spec

\* Money shown as paid is backed by posted contributions, even when two void
\* requests race on one contribution.
THEOREM MoneyIsBacked == Spec => []PaidBackedByPosted
BY BackedAlways, PTL

-----------------------------------------------------------------------------
(* What the broken promises lack: each holds in every behaviour that keeps *)
(* to the condition its code forgets to check                              *)

\* No run of the scheduler has listed an occurrence that has since been paid.
ListsAreFresh == \A r \in Runs : \A o \in run[r].todo : status[o] \notin Settled

\* A settled occurrence stays settled as long as no scheduler run works from a
\* list that is out of date: nothing else, no request and no void, takes it
\* back (the findMany before the updates of markOverdue and markMissed).
THEOREM FreshListsKeepSettled == Spec /\ []ListsAreFresh => SettledStaysSettled
<1>1. Typed /\ ListsAreFresh /\ [Next]_vars
        => [\A o \in Occs : status[o] \in Settled => status'[o] \in Settled]_vars
  <2> SUFFICES ASSUME Typed, ListsAreFresh, [Next]_vars,
                      NEW x \in Occs, status[x] \in Settled
               PROVE  status'[x] \in Settled
    OBVIOUS
  <2> USE DEF Typed, TypeOK
  <2>1. status[x] \in {"PAID", "PAID_LATE"}
    BY DEF Settled
  <2>2. ASSUME NEW o \in Occs, NEW st, status[o] \notin Settled,
               status' = [status EXCEPT ![o] = st]
        PROVE  status'[x] \in Settled
    BY <2>2
  <2>3. ASSUME NEW o \in Occs, NEW k \in Keys, NEW s \in Scans \cup {None},
               \/ \E a \in 1..AmountDue[o], late \in BOOLEAN :
                      CreateContribution(o, k, a, s, late)
               \/ CreateSettled(o, k, s)
        PROVE  status'[x] \in Settled
    <3>1. status[o] \notin Settled
      BY <2>3 DEF CreateContribution, CreateSettled, Payable, Settled
    <3>2. \E st : status' = [status EXCEPT ![o] = st]
      BY <2>3 DEF CreateContribution, CreateSettled
    <3> QED BY <2>2, <3>1, <3>2
  <2>4. ASSUME NEW v \in Voiders, VoidCommit(v)
        PROVE  status'[x] \in Settled
    <3>1. row[voiding[v]].occ \in Occs
      BY <2>4, VoidedRow DEF Contribution
    <3>2. status[row[voiding[v]].occ] \notin Settled
      BY <2>4 DEF VoidCommit, Voidable, Terminal, Settled
    <3>3. \E st : status' = [status EXCEPT ![row[voiding[v]].occ] = st]
      BY <2>4 DEF VoidCommit
    <3> QED BY <2>2, <3>1, <3>2, <3>3
  <2>5. ASSUME NEW l \in Loggers, NEW late \in BOOLEAN, LogCommit(l, late)
        PROVE  status'[x] \in Settled
    BY <2>5 DEF LogCommit, PaidStatus, Settled
  <2>6. ASSUME NEW o \in Occs, CreateOccurrence(o)
        PROVE  status'[x] \in Settled
    BY <2>1, <2>6 DEF CreateOccurrence
  <2>7. ASSUME NEW b \in Obligations, CancelUnpaid(b)
        PROVE  status'[x] \in Settled
    BY <2>1, <2>7 DEF CancelUnpaid
  <2>8. ASSUME NEW r \in Runs, NEW o \in Occs, MarkOverdue(r, o) \/ MarkMissed(r, o)
        PROVE  status'[x] \in Settled
    <3>1. status[o] \notin Settled
      BY <2>8 DEF ListsAreFresh, MarkOverdue, MarkMissed
    <3>2. \E st : status' = [status EXCEPT ![o] = st]
      BY <2>8 DEF MarkOverdue, MarkMissed
    <3> QED BY <2>2, <3>1, <3>2
  <2>9. CASE UNCHANGED dbVars
    BY <2>9 DEF dbVars
  <2> QED
    BY <2>3, <2>4, <2>5, <2>6, <2>7, <2>8, <2>9, RowSteps
<1>2. Spec => []Typed
  BY TypeCorrect, PTL DEF Typed
<1> QED BY <1>1, <1>2, PTL DEF Spec, SettledStaysSettled

\* No two void requests work on one contribution.
OneVoid == \A v, w \in Voiders :
    voiding[v] # None /\ voiding[v] = voiding[w] => v = w

\* What a void works on is still posted.
VoidsArePosted == \A v \in Voiders :
    voiding[v] # None => row[voiding[v]].state = "POSTED"

\* Without a second void, a contribution stays posted until its void commits.
LEMMA VoidsArePostedStep ==
  ASSUME Typed, OneVoid, VoidsArePosted, [Next]_vars
  PROVE  VoidsArePosted'
<1> SUFFICES ASSUME NEW w \in Voiders, voiding'[w] # None
             PROVE  row'[voiding'[w]].state = "POSTED"
  BY DEF VoidsArePosted
<1> DEFINE j == voiding'[w]
<1>1. ASSUME voiding'[w] = voiding[w]
      PROVE  j \in Keys /\ row[j] \in Contribution /\ row[j].state = "POSTED"
  BY <1>1 DEF Typed, TypeOK, VoidingHasRow, VoidsArePosted
<1>2. ASSUME NEW o \in Occs, NEW k \in Keys, NEW s \in Scans \cup {None},
             \/ \E a \in 1..AmountDue[o], late \in BOOLEAN :
                    CreateContribution(o, k, a, s, late)
             \/ CreateSettled(o, k, s)
      PROVE  row'[j].state = "POSTED"
  <2>1. voiding'[w] = voiding[w] /\ FreshKey(k)
    BY <1>2 DEF CreateContribution, CreateSettled, requestVars
  <2>2. j # k
    BY <1>1, <2>1, NoneIsNoRow DEF FreshKey
  <2>3. \E c : row' = [row EXCEPT ![k] = c]
    BY <1>2 DEF CreateContribution, CreateSettled, Post
  <2>4. row'[j] = row[j]
    BY <1>1, <2>1, <2>2, <2>3 DEF Typed, TypeOK
  <2> QED BY <1>1, <2>1, <2>4
<1>3. ASSUME NEW v \in Voiders, VoidCommit(v)
      PROVE  row'[j].state = "POSTED"
  <2>1. /\ voiding' = [voiding EXCEPT ![v] = None]
        /\ row' = [row EXCEPT ![voiding[v]].state = "VOIDED"]
        /\ voiding[v] # None
    BY <1>3 DEF VoidCommit
  <2>2. w # v /\ voiding'[w] = voiding[w]
    BY <2>1 DEF Typed, TypeOK
  <2>3. j # voiding[v]
    BY <2>1, <2>2 DEF OneVoid
  <2>4. row'[j] = row[j]
    BY <1>1, <2>1, <2>2, <2>3 DEF Typed, TypeOK
  <2> QED BY <1>1, <2>2, <2>4
<1>4. ASSUME NEW v \in Voiders, NEW k \in Keys, VoidRead(v, k)
      PROVE  row'[j].state = "POSTED"
  BY <1>4 DEF VoidRead, dbVars, Typed, TypeOK, VoidsArePosted
<1>5. ASSUME NEW v \in Voiders, VoidAbort(v)
      PROVE  row'[j].state = "POSTED"
  BY <1>5 DEF VoidAbort, dbVars, Typed, TypeOK, VoidsArePosted
<1>6. CASE row' = row /\ voiding' = voiding
  BY <1>6 DEF VoidsArePosted
<1> QED
  BY <1>2, <1>3, <1>4, <1>5, <1>6
     DEF Next, ContributionStep, VoidStep, LogStep, ObligationStep, RunStep,
         LogRead, LogCommit, LogAbort, CreateOccurrence, CancelUnpaid,
         OverdueScan, MarkOverdue, MissedScan, MarkMissed, RunEnd, RunCrash,
         Tick, requestVars, dbVars, vars

\* Then a void takes from the posted sum exactly what it takes from the
\* balance, and a posting adds the same to both.
LEMMA ExactStep ==
  ASSUME Typed, StatusMatchesBalance, FinitelyPosted, VoidsArePosted,
         BalanceIsPostedTotal, [Next]_vars
  PROVE  BalanceIsPostedTotal'
<1> USE AmountsDue
<1> SUFFICES ASSUME NEW x \in Occs
             PROVE  amountPaid'[x] = PostedTotal(x)'
  BY DEF BalanceIsPostedTotal
<1>1. /\ amountPaid \in [Occs -> Nat]
      /\ amountPaid[x] = PostedTotal(x)
      /\ amountPaid'[x] \in Nat
  BY TypedStep DEF Typed, TypeOK, BalanceIsPostedTotal
<1>2. ASSUME NEW k \in Keys, NEW o \in Occs, NEW a \in Nat, NEW s,
             row[k] = None, amountPaid'[x] = amountPaid[x] + (IF x = o THEN a ELSE 0),
             [occ |-> o, amount |-> a, scan |-> s, state |-> "POSTED"]
               \in Contribution,
             Post(o, k, a, s)
      PROVE  amountPaid'[x] = PostedTotal(x)'
  <2> DEFINE c == [occ |-> o, amount |-> a, scan |-> s, state |-> "POSTED"]
  <2>1. c.state = "POSTED" /\ c.occ = o /\ c.amount = a
    OBVIOUS
  <2>2. c \in Contribution /\ row' = [row EXCEPT ![k] = c]
    BY <1>2 DEF Post
  <2> HIDE DEF c
  <2>3. PostedTotal(x)' = PostedTotal(x) + (IF x = c.occ THEN c.amount ELSE 0)
    BY <1>2, <2>1, <2>2, PostedGrows
  <2> QED BY <1>1, <1>2, <2>1, <2>3
<1>3. ASSUME NEW o \in Occs, NEW k \in Keys, NEW s \in Scans \cup {None},
             NEW a \in 1..AmountDue[o], NEW late \in BOOLEAN,
             CreateContribution(o, k, a, s, late)
      PROVE  amountPaid'[x] = PostedTotal(x)'
  <2>1. [occ |-> o, amount |-> a, scan |-> s, state |-> "POSTED"]
          \in Contribution
    BY DEF Contribution
  <2>2. row[k] = None /\ Post(o, k, a, s)
        /\ amountPaid'[x] = amountPaid[x] + (IF x = o THEN a ELSE 0)
    BY <1>1, <1>3 DEF CreateContribution, FreshKey
  <2> QED BY <1>2, <2>1, <2>2
<1>4. ASSUME NEW o \in Occs, NEW k \in Keys, NEW s \in Scans \cup {None},
             CreateSettled(o, k, s)
      PROVE  amountPaid'[x] = PostedTotal(x)'
  <2> DEFINE a == AmountDue[o]
  <2>1. a \in Nat /\ [occ |-> o, amount |-> a, scan |-> s, state |-> "POSTED"]
                       \in Contribution
    BY DEF Contribution
  <2>2. amountPaid[o] = 0
    BY <1>4 DEF CreateSettled, StatusMatchesBalance
  <2>3. row[k] = None /\ Post(o, k, a, s)
        /\ amountPaid'[x] = amountPaid[x] + (IF x = o THEN a ELSE 0)
    BY <1>1, <1>4, <2>1, <2>2 DEF CreateSettled, FreshKey
  <2> HIDE DEF a
  <2> QED BY <1>2, <2>1, <2>3
<1>5. ASSUME NEW v \in Voiders, VoidCommit(v)
      PROVE  amountPaid'[x] = PostedTotal(x)'
  <2> DEFINE k == voiding[v]
  <2>1. k \in Keys /\ row[k] \in Contribution /\ row[k] # None
        /\ row[k].state = "POSTED"
    BY <1>5, VoidedRow DEF VoidsArePosted, VoidCommit
  <2>2. row[k].occ \in Occs /\ row[k].amount \in Nat
    BY <2>1 DEF Contribution
  <2>3. /\ row' = [row EXCEPT ![k].state = "VOIDED"]
        /\ amountPaid' = [amountPaid EXCEPT ![row[k].occ] = @ - row[k].amount]
    BY <1>5 DEF VoidCommit, BalanceAfterVoid
  <2>4. x = row[k].occ => k \in PostedTo(x)
    BY <2>1 DEF PostedTo
  <2>5. /\ k \in PostedTo(x) => PostedTotal(x)' = PostedTotal(x) - row[k].amount
        /\ x # row[k].occ => PostedTotal(x)' = PostedTotal(x)
    BY <2>1, <2>3, PostedShrinks
  <2> HIDE DEF k
  <2> QED BY <1>1, <2>2, <2>3, <2>4, <2>5
<1>6. ASSUME row' = row, amountPaid' = amountPaid
      PROVE  amountPaid'[x] = PostedTotal(x)'
  <2>1. PostedTo(x)' = PostedTo(x) /\ PostedTotal(x)' = PostedTotal(x)
    BY <1>6 DEF PostedTotal, Posted, PostedTo
  <2> QED BY <1>1, <1>6, <2>1
<1> QED
  BY <1>3, <1>4, <1>5, <1>6, RowSteps
     DEF LogCommit, CreateOccurrence, CancelUnpaid, MarkOverdue, MarkMissed,
         dbVars

\* The balance of an occurrence is the sum of its posted contributions as long
\* as no two void requests work on one contribution: it is only the second
\* void, let through by a check made before the lock, that breaks it
\* (voidContribution).
THEOREM SingleVoidsKeepBalance == Spec /\ []OneVoid => []BalanceIsPostedTotal
<1> DEFINE Exact == VoidsArePosted /\ BalanceIsPostedTotal
<1>1. Init => Exact
  <2> SUFFICES ASSUME Init PROVE Exact
    OBVIOUS
  <2>1. ASSUME NEW o \in Occs
        PROVE  amountPaid[o] = PostedTotal(o)
    <3>1. PostedTo(o) = {}
      BY DEF Init, PostedTo
    <3> QED BY <3>1, SumEmpty DEF PostedTotal, Init
  <2>2. VoidsArePosted
    BY DEF Init, VoidsArePosted
  <2> QED BY <2>1, <2>2 DEF BalanceIsPostedTotal
<1>2. /\ Typed /\ StatusMatchesBalance /\ FinitelyPosted /\ OneVoid
      /\ Exact /\ [Next]_vars
      => Exact'
  BY VoidsArePostedStep, ExactStep
<1>3. Spec => [](Typed /\ StatusMatchesBalance /\ FinitelyPosted)
  BY TypeCorrect, StatusAgreesWithBalance, BackedAlways, PTL DEF Typed
<1> QED BY <1>1, <1>2, <1>3, PTL DEF Spec

=============================================================================
