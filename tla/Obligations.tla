---------------------------- MODULE Obligations ----------------------------
(***************************************************************************)
(* A user's account, an obligation with its occurrences and reminders, and *)
(* the scheduler pass that marks occurrences overdue and sends reminders:  *)
(* UsersService, ObligationsService, RemindersService and the creation of  *)
(* notifications.                                                          *)
(*                                                                         *)
(* The unit of time is the interval of the schedule, and a reminder is one *)
(* unit early.  A request reads the user or the obligation and then runs   *)
(* one transaction.  Those that cancel occurrences are modelled statement  *)
(* by statement (tx): archive, and an update that sets a field, lock the   *)
(* obligation's row first; an update that only regenerates sets nothing,   *)
(* so that no UPDATE is sent and no row of it locked.  rows is what is     *)
(* committed.  Balances and voids are in module Payments.                  *)
(***************************************************************************)
EXTENDS Integers, Sequences, FiniteSetsExt

CONSTANTS
    Frequency,   \* "ONCE", "FIXED_INSTALLMENT" or "MONTHLY"
    Total,       \* totalOccurrences, of fixed instalments
    Horizon,     \* units for which an open-ended schedule is generated
    Calls, Runs, \* requests and scheduler runs at one time
    Starts,      \* when a schedule may start, from the day it is created
    MaxDay, MaxRounds, MaxLives, MaxPaid, MaxCrashes  \* bounds

ASSUME ObligationsConstants ==
    /\ Frequency \in {"ONCE", "FIXED_INSTALLMENT", "MONTHLY"}
    /\ Total \in Nat \ {0}
    /\ Starts \subseteq {-1, 0, 1}
    /\ {Horizon, MaxDay, MaxLives, MaxPaid, MaxCrashes} \subseteq Nat
    /\ MaxRounds \in Nat \ {0}

VARIABLES
    today,
    account,
    lives,       \* accounts created so far for the identity
    bill,        \* the obligation
    rows,        \* its occurrences, in the order of their creation
    contributed, \* its contributions
    inApp,       \* NotificationPreference.inAppEnabled
    request,
    tx,          \* the transaction of an update or an archive
    run,
    crashes,
    closed,      \* history: the last generation the archive could see
    stray,       \* history: a pass wrote a row that had changed since it listed it
    doubled      \* history: two runs have listed the same reminder

accountVars == <<account, lives>>
billVars == <<bill, rows, contributed>>
requestVars == <<request, tx>>
historyVars == <<closed, stray, doubled>>
obligationsVars == <<today, accountVars, billVars, inApp, requestVars, run, crashes,
                     historyVars>>

Open == {"PENDING", "OVERDUE"}
Days == -1..MaxDay + Total + Horizon
\* told counts the notifications of its reminder.  round is the creation or the
\* regeneration the row comes from, after the last one whose rows that could
\* see when it looked for what is open, and locked whether it held the
\* obligation's row (history).
Row == [due: Days, status: Open \cup {"PARTIALLY_PAID", "PAID", "CANCELLED"},
        seq: Nat \ {0}, round: 1..MaxRounds, after: 0..MaxRounds, locked: BOOLEAN,
        reminder: {"none", "SCHEDULED", "SENT"}, told: Nat]
\* sees is what the cancelling statement has found open, and once it has the
\* locks of these rows what it has cancelled; seq the highest number read then.
NoTx == [step |-> "none", locks |-> FALSE, after |-> 0, sees |-> {}, seq |-> 0]
MostRows == MaxRounds * (Total + Horizon + 1)
Tx == [step: {"none", "begun", "cancelled"}, locks: BOOLEAN, after: 0..MaxRounds,
       sees: SUBSET (1..MostRows), seq: Nat]
IdleRun == [phase |-> "idle", list |-> {}]
Rows == DOMAIN rows
Id(i) == <<lives, i>>  \* rows of a deleted account are not those of the next
Round == IF rows = << >> THEN 0 ELSE rows[Len(rows)].round

ObligationsTypeOK ==
    /\ today \in 0..MaxDay
    /\ account \in {"none", "active", "deactivated"} /\ lives \in 0..MaxLives
    /\ bill \in {"none", "active", "archived"}
    /\ rows \in Seq(Row)
    /\ account = "none" => bill = "none"
    /\ contributed \in 0..MaxPaid
    /\ bill = "none" => rows = << >> /\ contributed = 0
    /\ {inApp, stray, doubled} \subseteq BOOLEAN
    /\ closed \in 0..MaxRounds
    /\ request \in [Calls -> {"none", "signIn", "create", "regenerate", "archive"}]
    /\ tx \in [Calls -> Tx]
    /\ run \in [Runs -> [phase: {"idle", "overdue", "remind"},
                         list: SUBSET ((1..MaxLives) \X (1..MostRows))]]
    /\ crashes \in 0..MaxCrashes

ObligationsInit ==
    /\ today = 0
    /\ account = "none" /\ lives = 0
    /\ bill = "none" /\ rows = << >> /\ contributed = 0
    /\ inApp = TRUE
    /\ request = [c \in Calls |-> "none"]
    /\ tx = [c \in Calls |-> NoTx]
    /\ run = [r \in Runs |-> IdleRun]
    /\ crashes = 0
    /\ closed = 0 /\ stray = FALSE /\ doubled = FALSE

\* The occurrences whose cancellation is not committed yet: who writes one waits.
LockedBy(c) == IF tx[c].step = "cancelled" THEN tx[c].sees ELSE {}
LockedRows == UNION {LockedBy(c) : c \in Calls}

Ask(c, what) ==
    request[c] = "none" /\ request' = [request EXCEPT ![c] = what] /\ UNCHANGED tx
Answered(c, what) ==
    /\ request[c] = what
    /\ request' = [request EXCEPT ![c] = "none"] /\ tx' = [tx EXCEPT ![c] = NoTx]

-----------------------------------------------------------------------------
(* The account                                                             *)

\* findOrCreateUser, of any request of an identity without an account: the
\* second of two first requests violates a unique key.
SignIn(c) ==
    /\ account = "none" /\ lives < MaxLives
    /\ Ask(c, "signIn")
    /\ UNCHANGED <<today, accountVars, billVars, inApp, run, crashes, historyVars>>
SignUp(c) ==
    /\ Answered(c, "signIn")
    /\ account = "none" /\ lives < MaxLives
    /\ account' = "active" /\ lives' = lives + 1
    /\ inApp' = TRUE
    /\ UNCHANGED <<today, billVars, run, crashes, historyVars>>
Deactivate ==
    /\ account = "active"
    /\ account' = "deactivated"
    /\ UNCHANGED <<today, lives, billVars, inApp, requestVars, run, crashes, historyVars>>
RowsLeftOver == SelectSeq(rows, LAMBDA r : r.status = "CANCELLED")
RowsLeft == << >>
\* deleteAllUserData: also of a deactivated account.  Contributions are not
\* deleted, and their occurrences cannot be while they exist.  It waits for rows
\* that are locked; what had read its rows fails.
DeleteAll ==
    /\ account # "none" /\ contributed = 0
    /\ LockedRows = {} /\ \A c \in Calls : ~tx[c].locks
    /\ account' = "none"
    /\ bill' = "none" /\ rows' = RowsLeft /\ UNCHANGED contributed
    /\ request' = [c \in Calls |-> IF request[c] = "signIn" THEN "signIn" ELSE "none"]
    /\ tx' = [c \in Calls |-> NoTx]
    /\ closed' = 0
    /\ UNCHANGED <<today, lives, inApp, run, crashes, stray, doubled>>
SetPreferences ==
    /\ account = "active"
    /\ inApp' = ~inApp
    /\ UNCHANGED <<today, accountVars, billVars, requestVars, run, crashes, historyVars>>

-----------------------------------------------------------------------------
(* The obligation                                                          *)

\* generateOccurrenceDates.
Dates(from) ==
    LET count == CASE Frequency = "ONCE" -> 1
                   [] Frequency = "FIXED_INSTALLMENT" -> Total
                   [] Frequency = "MONTHLY" -> IF from > today + Horizon THEN 0
                                               ELSE today + Horizon - from + 1
    IN [n \in 1..count |-> from + n - 1]

NewRows(dates, seq, after, locked, reminded) == [n \in DOMAIN dates |->
    [due |-> dates[n], status |-> "PENDING", seq |-> seq + n, round |-> Round + 1,
     after |-> after, locked |-> locked,
     reminder |-> IF reminded /\ dates[n] - 1 > today THEN "SCHEDULED" ELSE "none",
     told |-> 0]]

\* create: with a start in the past or the future.
Create(c) ==
    /\ account = "active" /\ bill = "none"
    /\ Ask(c, "create")
    /\ UNCHANGED <<today, accountVars, billVars, inApp, run, crashes, historyVars>>
CreateCommit(c, start, reminded) ==
    /\ Answered(c, "create")
    /\ account # "none" /\ bill = "none"
    /\ bill' = "active"
    /\ rows' = NewRows(Dates(start), 0, 0, TRUE, reminded)
    /\ UNCHANGED <<today, accountVars, contributed, inApp, run, crashes, historyVars>>

CancelsPendingOnly == {"PENDING"}
Cancels == Open
OpenRows == {i \in Rows : rows[i].status \in Cancels}
Cancelled(seen) == [i \in Rows |->
    IF i \in seen THEN [rows[i] EXCEPT !.status = "CANCELLED"] ELSE rows[i]]
LastSeq == Max({0} \cup {rows[i].seq : i \in Rows})

\* Both handlers read, outside a transaction, that the obligation is not archived.
Regenerate(c) ==
    /\ account = "active" /\ bill = "active" /\ Round < MaxRounds
    /\ Ask(c, "regenerate")
    /\ UNCHANGED <<today, accountVars, billVars, inApp, run, crashes, historyVars>>
Archive(c) ==
    /\ account = "active" /\ bill = "active"
    /\ Ask(c, "archive")
    /\ UNCHANGED <<today, accountVars, billVars, inApp, run, crashes, historyVars>>

\* The transaction begins, with the obligation's row if something of it is set,
\* and its updateMany finds what is open and committed now ...
Begin(c, locks) ==
    /\ tx[c] = NoTx /\ bill # "none"
    /\ request[c] = "regenerate" \/ (request[c] = "archive" /\ locks)
    /\ locks => \A d \in Calls : ~tx[d].locks
    /\ tx' = [tx EXCEPT ![c] = [step |-> "begun", locks |-> locks, after |-> Round,
                               sees |-> OpenRows, seq |-> 0]]
    /\ UNCHANGED <<today, accountVars, billVars, inApp, request, run, crashes, historyVars>>
\* ... it waits for those that others are cancelling, and looks again at each.
RowsFree(c) == \A d \in Calls \ {c} : LockedBy(d) \cap tx[c].sees = {}
StillOpen(c) == tx[c].sees \cap OpenRows

\* update with regenerateFutureOccurrences: what was found is cancelled, and the
\* highest number is read ...
RegenerateCancel(c) ==
    /\ request[c] = "regenerate" /\ tx[c].step = "begun" /\ RowsFree(c)
    /\ tx' = [tx EXCEPT ![c] = [@ EXCEPT !.step = "cancelled", !.sees = StillOpen(c),
                                        !.seq = LastSeq]]
    /\ UNCHANGED <<today, accountVars, billVars, inApp, request, run, crashes, historyVars>>
\* ... and the whole schedule starts again today, without reminders.
RegenerateCommit(c) ==
    /\ tx[c].step = "cancelled" /\ Answered(c, "regenerate")
    /\ bill # "none" /\ Round < MaxRounds
    /\ rows' = Cancelled(tx[c].sees)
               \o NewRows(Dates(today), tx[c].seq, tx[c].after, tx[c].locks, FALSE)
    /\ UNCHANGED <<today, accountVars, bill, contributed, inApp, run, crashes, historyVars>>

ArchiveCommit(c) ==
    /\ tx[c].step = "begun" /\ RowsFree(c) /\ Answered(c, "archive")
    /\ bill # "none"
    /\ bill' = "archived" /\ closed' = tx[c].after
    /\ rows' = Cancelled(StillOpen(c))
    /\ UNCHANGED <<today, accountVars, contributed, inApp, run, crashes, stray, doubled>>

\* The request is refused, fails or is lost: its transaction is undone.
Drop(c) ==
    /\ request[c] # "none"
    /\ request' = [request EXCEPT ![c] = "none"] /\ tx' = [tx EXCEPT ![c] = NoTx]
    /\ UNCHANGED <<today, accountVars, billVars, inApp, run, crashes, historyVars>>

\* A contribution, of a part or of the rest (module Payments).
Pay(i, status) ==
    /\ account = "active" /\ rows[i].status \in Open \cup {"PARTIALLY_PAID"}
    /\ i \notin LockedRows
    /\ rows' = [rows EXCEPT ![i].status = status]
    /\ contributed < MaxPaid
    /\ contributed' = contributed + 1
    /\ UNCHANGED <<today, accountVars, bill, inApp, requestVars, run, crashes, historyVars>>

-----------------------------------------------------------------------------
(* The scheduler                                                           *)

\* A pass lists pending occurrences that are due ...
OverdueList(r) ==
    /\ run[r].phase = "idle"
    /\ run' = [run EXCEPT ![r] = [phase |-> "overdue",
         list |-> {Id(i) : i \in {j \in Rows : rows[j].status = "PENDING" /\ rows[j].due < today}}]]
    /\ UNCHANGED <<today, accountVars, billVars, inApp, requestVars, crashes, historyVars>>
\* ... and updates each by its id; one that is gone ends the whole run.
OverdueNext(r, i) ==
    /\ run[r].phase = "overdue" /\ i \in run[r].list
    /\ IF i[1] = lives /\ i[2] \in Rows
       THEN /\ i[2] \notin LockedRows
            /\ rows' = [rows EXCEPT ![i[2]].status = "OVERDUE"]
            /\ stray' = (stray \/ rows[i[2]].status # "PENDING")
            /\ run' = [run EXCEPT ![r].list = @ \ {i}]
       ELSE /\ run' = [run EXCEPT ![r] = IdleRun]
            /\ UNCHANGED <<rows, stray>>
    /\ UNCHANGED <<today, accountVars, bill, contributed, inApp, requestVars, crashes, closed, doubled>>

DueReminders == {j \in Rows : rows[j].reminder = "SCHEDULED" /\ rows[j].due - 1 <= today}
RemindList(r) ==
    LET list == {Id(i) : i \in DueReminders} IN
    /\ run[r].phase = "overdue" /\ run[r].list = {}
    /\ run' = [run EXCEPT ![r] = [phase |-> "remind", list |-> list]]
    /\ doubled' = (doubled \/ \E q \in Runs \ {r} :
                     run[q].phase = "remind" /\ run[q].list \cap list # {})
    /\ UNCHANGED <<today, accountVars, billVars, inApp, requestVars, crashes, closed, stray>>
\* The notification and SENT are one transaction.
RemindedIfTold(row) == IF inApp THEN [row EXCEPT !.reminder = "SENT", !.told = @ + 1] ELSE row
RemindedLater(row) == [row EXCEPT !.told = @ + IF inApp THEN 1 ELSE 0]
Reminded(row) == [row EXCEPT !.reminder = "SENT", !.told = @ + IF inApp THEN 1 ELSE 0]
RemindNext(r, i) ==
    /\ run[r].phase = "remind" /\ i \in run[r].list
    /\ IF i[1] = lives /\ i[2] \in Rows
       THEN /\ rows' = [rows EXCEPT ![i[2]] = Reminded(@)]
            /\ run' = [run EXCEPT ![r].list = @ \ {i}]
       ELSE /\ run' = [run EXCEPT ![r] = IdleRun]
            /\ UNCHANGED rows
    /\ UNCHANGED <<today, accountVars, bill, contributed, inApp, requestVars, crashes, historyVars>>
RunEnd(r) ==
    /\ run[r].phase = "remind" /\ run[r].list = {}
    /\ run' = [run EXCEPT ![r] = IdleRun]
    /\ UNCHANGED <<today, accountVars, billVars, inApp, requestVars, crashes, historyVars>>
Crash ==
    /\ crashes < MaxCrashes
    /\ crashes' = crashes + 1
    /\ run' = [r \in Runs |-> IdleRun]
    /\ request' = [c \in Calls |-> "none"] /\ tx' = [c \in Calls |-> NoTx]
    /\ UNCHANGED <<today, accountVars, billVars, inApp, historyVars>>
Tick ==
    /\ today < MaxDay
    /\ today' = today + 1
    /\ UNCHANGED <<accountVars, billVars, inApp, requestVars, run, crashes, historyVars>>

RunStep(r) == OverdueList(r) \/ RemindList(r) \/ RunEnd(r)
              \/ \E i \in run[r].list : OverdueNext(r, i) \/ RemindNext(r, i)
RequestStep == \E c \in Calls :
    \/ SignIn(c) \/ SignUp(c) \/ Drop(c)
    \/ Create(c) \/ Regenerate(c) \/ Archive(c) \/ \E locks \in BOOLEAN : Begin(c, locks)
    \/ RegenerateCancel(c) \/ RegenerateCommit(c) \/ ArchiveCommit(c)
    \/ \E day \in Starts, reminded \in BOOLEAN : CreateCommit(c, today + day, reminded)
ObligationsNext ==
    \/ Tick \/ Crash \/ RequestStep
    \/ Deactivate \/ DeleteAll \/ SetPreferences
    \/ \E i \in Rows, status \in {"PARTIALLY_PAID", "PAID"} : Pay(i, status)
    \/ \E r \in Runs : RunStep(r)
\* Time passes, and the cron job starts again and goes on, served in turn where
\* it waits for a row.  A transaction ends, as Prisma gives it five seconds.
EndTx(c) == tx[c] # NoTx /\ (RegenerateCancel(c) \/ RegenerateCommit(c) \/ ArchiveCommit(c)
                             \/ Drop(c))
ObligationsSpec == ObligationsInit /\ [][ObligationsNext]_obligationsVars
FairObligations ==
    ObligationsSpec /\ WF_obligationsVars(Tick)
    /\ \A c \in Calls : WF_obligationsVars(EndTx(c))
    /\ \A r \in Runs : SF_obligationsVars(RunStep(r))
=============================================================================
