------------------------------ MODULE Payments ------------------------------
(***************************************************************************)
(* The life of payment occurrences: contributions posted and voided        *)
(* (PaymentContributionsService), the legacy one-shot log                  *)
(* (PaymentsService.logPayment), receipt scans, and the scheduler passes   *)
(* that mark occurrences overdue and missed (PaymentOccurrencesService),   *)
(* as transactions on one PostgreSQL database at READ COMMITTED.           *)
(*                                                                         *)
(* A transaction whose first statement locks the occurrence row is one     *)
(* action.  A handler that reads a row before it locks or writes it is two *)
(* actions with the value it read kept in between, so every interleaving   *)
(* of requests and scheduler runs that the database allows is a behaviour. *)
(***************************************************************************)
EXTENDS Integers

CONSTANTS
    Occs,         \* payment occurrence rows
    Obligations,  \* financial obligations
    Keys,         \* idempotency keys, one per distinct contribution request
    Scans,        \* receipt scans
    Voiders,      \* concurrent DELETE-contribution requests
    Loggers,      \* concurrent legacy logPayment requests
    Runs,         \* scheduler runs: the cron job and POST /scheduler/run
    None,         \* SQL NULL, and "no row"
    ObligationOf, \* the obligation of each occurrence
    AmountDue,    \* amountDue of each occurrence
    DueAt,        \* dueDate of each occurrence
    ScanExpiry,   \* expiresAt of the scans
    MissedAfter,  \* ticks from overdueAt to MISSED (30 days in the code)
    MaxTime,      \* bound: the clock stops here
    MaxCrashes    \* bound: scheduler runs lost to restarts

ASSUME PaymentConstants ==
    /\ ObligationOf \in [Occs -> Obligations]
    /\ AmountDue \in [Occs -> Nat \ {0}]
    /\ DueAt \in [Occs -> Nat]
    /\ ScanExpiry \in Nat
    /\ MissedAfter \in Nat
    /\ MaxTime \in Nat
    /\ MaxCrashes \in Nat

VARIABLES
    now,         \* the clock the services read
    status,      \* PaymentOccurrence.status, "ABSENT" before the row exists
    amountPaid,  \* PaymentOccurrence.amountPaid
    overdueAt,   \* PaymentOccurrence.overdueAt
    row,         \* PaymentContribution rows by (user, idempotencyKey)
    scan,        \* ReceiptScan.status
    records,     \* occurrences that have a legacy PaymentRecord
    settledBy,   \* sources of the PAYMENT_ON_TIME/LATE events of an occurrence
    voiding,     \* the contribution a void request has read as POSTED
    logging,     \* the occurrence a logPayment request has validated
    run,         \* each scheduler run: its phase, the time it read the clock and
                 \* the rows still to update
    crashes

vars == <<now, status, amountPaid, overdueAt, row, scan, records, settledBy,
          voiding, logging, run, crashes>>
dbVars == <<status, amountPaid, overdueAt, row, scan, records, settledBy>>
requestVars == <<voiding, logging>>

Settled == {"PAID", "PAID_LATE"}
Terminal == Settled \cup {"MISSED", "CANCELLED"}
Payable == {"PENDING", "PARTIALLY_PAID", "OVERDUE"}
Status == {"ABSENT"} \cup Payable \cup Terminal

\* A legacy PaymentRecord as the source of a settlement event.
Record == "PAYMENT_RECORD"

Contribution == [occ: Occs, amount: Nat \ {0}, scan: Scans \cup {None},
                 state: {"POSTED", "VOIDED"}]

ASSUME NoneIsNoRow ==
    /\ None \notin Nat \cup Occs \cup Keys \cup Scans
    /\ None \notin Contribution \cup [occ: Occs, amount: Nat]
    /\ Record \notin Keys

Phase == {"idle", "overdue", "missed"}
IdleRun == [phase |-> "idle", at |-> 0, todo |-> {}]

TypeOK ==
    /\ now \in 0..MaxTime
    /\ status \in [Occs -> Status]
    /\ amountPaid \in [Occs -> Nat]
    /\ overdueAt \in [Occs -> 0..MaxTime \cup {None}]
    /\ row \in [Keys -> Contribution \cup {None}]
    /\ scan \in [Scans -> {"READY_FOR_REVIEW", "CONSUMED"}]
    /\ records \subseteq Occs
    /\ settledBy \in [Occs -> SUBSET (Keys \cup {Record})]
    /\ voiding \in [Voiders -> Keys \cup {None}]
    /\ logging \in [Loggers -> Occs \cup {None}]
    /\ run \in [Runs -> [phase: Phase, at: 0..MaxTime, todo: SUBSET Occs]]
    /\ crashes \in 0..MaxCrashes

Init ==
    /\ now = 0
    /\ status = [o \in Occs |-> "ABSENT"]
    /\ amountPaid = [o \in Occs |-> 0]
    /\ overdueAt = [o \in Occs |-> None]
    /\ row = [k \in Keys |-> None]
    /\ scan = [s \in Scans |-> "READY_FOR_REVIEW"]
    /\ records = {}
    /\ settledBy = [o \in Occs |-> {}]
    /\ voiding = [v \in Voiders |-> None]
    /\ logging = [l \in Loggers |-> None]
    /\ run = [r \in Runs |-> IdleRun]
    /\ crashes = 0

-----------------------------------------------------------------------------
(* Contributions                                                           *)

PaidStatus(late) == IF late THEN "PAID_LATE" ELSE "PAID"

\* The status an occurrence takes once p of its amountDue is paid.
BalanceStatus(o, p, late) ==
    IF p = AmountDue[o] THEN PaidStatus(late) ELSE "PARTIALLY_PAID"

\* The key has no contribution yet: a key with one is answered with a replay
\* or a conflict, and writes nothing.
FreshKey(k) == row[k] = None

\* A receipt contribution needs a scan that is unconsumed and unexpired.
ScanUsable(s) == s # None => scan[s] = "READY_FOR_REVIEW" /\ now < ScanExpiry

\* The amount does not exceed what remains to be paid.
AmountFitsBefore(o, a) == amountPaid[o] < AmountDue[o]
AmountFits(o, a) == amountPaid[o] + a <= AmountDue[o]

Post(o, k, a, s) ==
    row' = [row EXCEPT ![k] =
              [occ |-> o, amount |-> a, scan |-> s, state |-> "POSTED"]]

ConsumeScanForgotten(s) == scan' = scan
ConsumeScan(s) ==
    scan' = [x \in Scans |-> IF x = s THEN "CONSUMED" ELSE scan[x]]

\* Settlement effects run when the balance reaches zero, with the
\* contribution as the source of the payment event.
RunSettlementEffectsForWhole(o, k, p) ==
    settledBy' = [settledBy EXCEPT ![o] =
                    IF amountPaid[o] = 0 /\ p = AmountDue[o]
                    THEN @ \cup {k} ELSE @]
RunSettlementEffects(o, k, p) ==
    settledBy' = [settledBy EXCEPT ![o] =
                    IF p = AmountDue[o] THEN @ \cup {k} ELSE @]

\* POST /payments/contributions, and the receipt confirmation that calls it.
\* late is the date-only comparison of paidDate with dueDate.
CreateContribution(o, k, a, s, late) ==
    LET p == amountPaid[o] + a IN
    /\ FreshKey(k)
    /\ ScanUsable(s)
    /\ status[o] \in Payable
    /\ AmountFits(o, a)
    /\ Post(o, k, a, s)
    /\ amountPaid' = [amountPaid EXCEPT ![o] = p]
    /\ status' = [status EXCEPT ![o] = BalanceStatus(o, p, late)]
    /\ RunSettlementEffects(o, k, p)
    /\ ConsumeScan(s)
    /\ UNCHANGED <<now, overdueAt, records, requestVars, run, crashes>>

\* One-off payments and obligations confirmed from a receipt: the obligation
\* is created with the amount paid, and its first occurrence is settled by
\* its only contribution in the same transaction.  The paid date is the due
\* date, so the payment is on time.
CreateSettled(o, k, s) ==
    /\ FreshKey(k)
    /\ ScanUsable(s)
    /\ status[o] = "ABSENT"
    /\ Post(o, k, AmountDue[o], s)
    /\ amountPaid' = [amountPaid EXCEPT ![o] = AmountDue[o]]
    /\ status' = [status EXCEPT ![o] = PaidStatus(FALSE)]
    /\ RunSettlementEffects(o, k, AmountDue[o])
    /\ ConsumeScan(s)
    /\ UNCHANGED <<now, overdueAt, records, requestVars, run, crashes>>

-----------------------------------------------------------------------------
(* Voiding: the contribution is read before the occurrence is locked and   *)
(* is not read again under the lock.                                       *)

VoidRead(v, k) ==
    /\ voiding[v] = None
    /\ row[k] # None
    /\ row[k].state = "POSTED"
    /\ voiding' = [voiding EXCEPT ![v] = k]
    /\ UNCHANGED <<now, dbVars, logging, run, crashes>>

VoidStatusZeroPartial(o, p) ==
    IF p >= 0 THEN "PARTIALLY_PAID" ELSE "PENDING"
VoidStatus(o, p) ==
    IF p > 0 THEN "PARTIALLY_PAID"
    ELSE IF DueAt[o] < now THEN "OVERDUE"
    ELSE "PENDING"

\* A settled, missed or cancelled occurrence refuses the void.
VoidableUnlessCancelled(o) == status[o] # "CANCELLED"
Voidable(o) == status[o] \notin Terminal

BalanceAfterVoidKept(o, k) == amountPaid[o]
BalanceAfterVoid(o, k) == amountPaid[o] - row[k].amount

ValidBalanceUnchecked(p) == TRUE
ValidBalance(p) == p >= 0

VoidCommit(v) ==
    LET k == voiding[v]
        o == row[k].occ
        p == BalanceAfterVoid(o, k) IN
    /\ k # None
    /\ Voidable(o)
    /\ ValidBalance(p)
    /\ row' = [row EXCEPT ![k].state = "VOIDED"]
    /\ amountPaid' = [amountPaid EXCEPT ![o] = p]
    /\ status' = [status EXCEPT ![o] = VoidStatus(o, p)]
    /\ voiding' = [voiding EXCEPT ![v] = None]
    /\ UNCHANGED <<now, overdueAt, scan, records, settledBy, logging, run,
                   crashes>>

\* The request fails one of its checks, or the connection drops: rollback.
VoidAbort(v) ==
    /\ voiding[v] # None
    /\ voiding' = [voiding EXCEPT ![v] = None]
    /\ UNCHANGED <<now, dbVars, logging, run, crashes>>

-----------------------------------------------------------------------------
(* Legacy logPayment: validated outside the transaction that writes.       *)

LogRead(l, o) ==
    /\ logging[l] = None
    /\ status[o] \in Payable
    /\ logging' = [logging EXCEPT ![l] = o]
    /\ UNCHANGED <<now, dbVars, voiding, run, crashes>>

\* PaymentRecord.occurrenceId is unique, the only check made on commit.
LogCommit(l, late) ==
    LET o == logging[l] IN
    /\ o # None
    /\ o \notin records
    /\ records' = records \cup {o}
    /\ status' = [status EXCEPT ![o] = PaidStatus(late)]
    /\ settledBy' = [settledBy EXCEPT ![o] = @ \cup {Record}]
    /\ logging' = [logging EXCEPT ![l] = None]
    /\ UNCHANGED <<now, amountPaid, overdueAt, row, scan, voiding, run,
                   crashes>>

LogAbort(l) ==
    /\ logging[l] # None
    /\ logging' = [logging EXCEPT ![l] = None]
    /\ UNCHANGED <<now, dbVars, voiding, run, crashes>>

-----------------------------------------------------------------------------
(* Obligations: rows appear and unpaid ones are cancelled                  *)

\* Obligation creation and regeneration insert PENDING occurrences.
CreateOccurrence(o) ==
    /\ status[o] = "ABSENT"
    /\ status' = [status EXCEPT ![o] = "PENDING"]
    /\ UNCHANGED <<now, amountPaid, overdueAt, row, scan, records, settledBy,
                   requestVars, run, crashes>>

\* Archiving an obligation, or regenerating its schedule, cancels its PENDING
\* and OVERDUE occurrences in one conditional update.
CancelUnpaid(b) ==
    LET hit == {o \in Occs : ObligationOf[o] = b
                             /\ status[o] \in {"PENDING", "OVERDUE"}} IN
    /\ hit # {}
    /\ status' = [o \in Occs |-> IF o \in hit THEN "CANCELLED" ELSE status[o]]
    /\ UNCHANGED <<now, amountPaid, overdueAt, row, scan, records, settledBy,
                   requestVars, run, crashes>>

-----------------------------------------------------------------------------
(* Scheduler: each pass lists its rows first, then updates each of them in *)
(* a transaction of its own, by id alone.                                  *)

OverduePendingReversed == {o \in Occs : status[o] = "PENDING" /\ now < DueAt[o]}
OverduePending == {o \in Occs : status[o] = "PENDING" /\ DueAt[o] < now}

OverdueScan(r) ==
    /\ run[r].phase = "idle"
    /\ run' = [run EXCEPT ![r] = [phase |-> "overdue", at |-> now,
                                  todo |-> OverduePending]]
    /\ UNCHANGED <<now, dbVars, requestVars, crashes>>

MarkOverdue(r, o) ==
    /\ run[r].phase = "overdue"
    /\ o \in run[r].todo
    /\ status' = [status EXCEPT ![o] = "OVERDUE"]
    /\ overdueAt' = [overdueAt EXCEPT ![o] = run[r].at]
    /\ run' = [run EXCEPT ![r].todo = @ \ {o}]
    /\ UNCHANGED <<now, amountPaid, row, scan, records, settledBy,
                   requestVars, crashes>>

\* SQL compares NULL with nothing: a row without overdueAt is never listed.
OverdueToMissedAnyAge == {o \in Occs : status[o] = "OVERDUE"}
OverdueToMissed ==
    {o \in Occs : /\ status[o] = "OVERDUE"
                  /\ overdueAt[o] # None
                  /\ overdueAt[o] + MissedAfter <= now}

MissedScan(r) ==
    /\ run[r].phase = "overdue"
    /\ run[r].todo = {}
    /\ run' = [run EXCEPT ![r] = [phase |-> "missed", at |-> now,
                                  todo |-> OverdueToMissed]]
    /\ UNCHANGED <<now, dbVars, requestVars, crashes>>

MarkMissed(r, o) ==
    /\ run[r].phase = "missed"
    /\ o \in run[r].todo
    /\ status' = [status EXCEPT ![o] = "MISSED"]
    /\ run' = [run EXCEPT ![r].todo = @ \ {o}]
    /\ UNCHANGED <<now, amountPaid, overdueAt, row, scan, records, settledBy,
                   requestVars, crashes>>

RunEnd(r) ==
    /\ run[r].phase = "missed"
    /\ run[r].todo = {}
    /\ run' = [run EXCEPT ![r] = IdleRun]
    /\ UNCHANGED <<now, dbVars, requestVars, crashes>>

\* A restart loses the lists a run keeps in memory; the next run starts over.
RunCrash(r) ==
    /\ run[r].phase # "idle"
    /\ crashes < MaxCrashes
    /\ crashes' = crashes + 1
    /\ run' = [run EXCEPT ![r] = IdleRun]
    /\ UNCHANGED <<now, dbVars, requestVars>>

Tick ==
    /\ now < MaxTime
    /\ now' = now + 1
    /\ UNCHANGED <<dbVars, requestVars, run, crashes>>

-----------------------------------------------------------------------------
ContributionStep ==
    \E o \in Occs, k \in Keys, s \in Scans \cup {None} :
        \/ \E a \in 1..AmountDue[o], late \in BOOLEAN :
               CreateContribution(o, k, a, s, late)
        \/ CreateSettled(o, k, s)

VoidStep == \E v \in Voiders :
    \/ \E k \in Keys : VoidRead(v, k)
    \/ VoidCommit(v)
    \/ VoidAbort(v)

LogStep == \E l \in Loggers :
    \/ \E o \in Occs : LogRead(l, o)
    \/ \E late \in BOOLEAN : LogCommit(l, late)
    \/ LogAbort(l)

ObligationStep ==
    \/ \E o \in Occs : CreateOccurrence(o)
    \/ \E b \in Obligations : CancelUnpaid(b)

\* What one scheduler run does next, a crash aside.
RunStep(r) ==
    \/ OverdueScan(r)
    \/ \E o \in Occs : MarkOverdue(r, o)
    \/ MissedScan(r)
    \/ \E o \in Occs : MarkMissed(r, o)
    \/ RunEnd(r)

Next ==
    \/ ContributionStep
    \/ VoidStep
    \/ LogStep
    \/ ObligationStep
    \/ \E r \in Runs : RunStep(r) \/ RunCrash(r)
    \/ Tick

Spec == Init /\ [][Next]_vars

\* Time passes, and the cron job keeps running to its end: a run is never
\* abandoned except by a restart.  Nothing is assumed of the users.
Fairness == WF_vars(Tick) /\ \A r \in Runs : WF_vars(RunStep(r))
FairSpec == Spec /\ Fairness

=============================================================================
