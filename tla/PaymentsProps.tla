--------------------------- MODULE PaymentsProps ----------------------------
(***************************************************************************)
(* What the payment life cycle promises: the relations between the rows of *)
(* an occurrence that must survive every interleaving of requests and      *)
(* scheduler runs, and the promises of the documents that the code breaks. *)
(***************************************************************************)
EXTENDS Payments, FiniteSets, Functions

PostedTo(o) ==
    {k \in Keys : row[k] # None /\ row[k].occ = o /\ row[k].state = "POSTED"}

\* The sum of the amounts of the contributions posted to an occurrence.
Posted(o) == [k \in PostedTo(o) |-> row[k].amount]
PostedTotal(o) == SumFunctionOnSet(Posted(o), PostedTo(o))

-----------------------------------------------------------------------------
(* Safety                                                                  *)

\* No sequence of contributions, voids and scheduler passes ever charges more
\* than the amount due, or drives the paid balance below zero.
PaidWithinDue == \A o \in Occs : amountPaid[o] \in 0..AmountDue[o]

\* Money shown as paid is always backed by contributions that are posted,
\* even when two void requests race on one contribution.
PaidBackedByPosted == \A o \in Occs : amountPaid[o] <= PostedTotal(o)

\* The status a user sees agrees with the balance: a pending occurrence has
\* no money on it, a partial one has some and not all, and a settled one is
\* covered in full or has a legacy payment record.
StatusMatchesBalance == \A o \in Occs :
    /\ status[o] \in {"ABSENT", "PENDING"} => amountPaid[o] = 0
    /\ status[o] = "PARTIALLY_PAID" => amountPaid[o] \in 1..(AmountDue[o] - 1)
    /\ status[o] \in Settled =>
           amountPaid[o] = AmountDue[o] \/ o \in records

\* Settlement effects (event, score, coins, streak, badges) have run for every
\* occurrence that is settled, and only from a payment made to that occurrence.
EffectsMatchSettlement == \A o \in Occs :
    /\ status[o] \in Settled => settledBy[o] # {}
    /\ Record \in settledBy[o] <=> o \in records
    /\ \A k \in settledBy[o] \ {Record} : row[k] # None /\ row[k].occ = o

\* A receipt scan is consumed by exactly one contribution, and an unconsumed
\* one backs none, whatever occurrences the requests name.
ScanBacksOneContribution == \A s \in Scans :
    LET users == {k \in Keys : row[k] # None /\ row[k].scan = s} IN
    IF scan[s] = "CONSUMED" THEN Cardinality(users) = 1 ELSE users = {}

\* However scheduler runs overlap, restart or work from stale lists, nobody is
\* marked missed before the whole grace period has passed after the due date.
MissedAfterGrace == \A o \in Occs :
    status[o] = "MISSED" => DueAt[o] + MissedAfter < now

\* A contribution, once posted under its key, is never replaced: a retry
\* changes nothing, and the only later change is its voiding.
ContributionsAreFinal == [][\A k \in Keys :
    row[k] # None => row'[k] \in {row[k], [row[k] EXCEPT !.state = "VOIDED"]}]_vars

\* Money leaves an occurrence only by voiding: a step that lowers amountPaid
\* voids a contribution of that occurrence and leaves it payable.
MoneyLeavesByVoid == [][\A o \in Occs : amountPaid'[o] < amountPaid[o] =>
    /\ \E k \in Keys : /\ row[k] # None
                       /\ row[k].occ = o
                       /\ row'[k].state = "VOIDED"
                       /\ amountPaid[o] - amountPaid'[o] = row[k].amount
    /\ status[o] \in Payable /\ status'[o] \in Payable]_vars

-----------------------------------------------------------------------------
(* Refinement                                                              *)

\* The contribution API seen without its requests, statuses and scheduler.
Ledger == INSTANCE ContributionLedger WITH
    paid <- amountPaid,
    posted <- [k \in Keys |-> IF row[k] = None THEN None
                ELSE [occ |-> row[k].occ, amount |-> row[k].amount]]

\* The services implement the contribution ledger: whatever the scheduler and
\* the legacy route do to the status, the money moves only by ledger steps.
ImplementsLedger == Ledger!Spec

-----------------------------------------------------------------------------
(* Liveness                                                                *)

\* The cron job notices every pending occurrence that has passed its due date.
PastDueNoticed == \A o \in Occs :
    status[o] = "PENDING" /\ DueAt[o] < now ~> status[o] # "PENDING"

-----------------------------------------------------------------------------
(* Promises the code breaks, each checked by a run that expects a          *)
(* violation.                                                              *)

\* User-Manual-Document.md:222 promises that logging a payment stops further
\* score damage: a settled occurrence stays settled, whatever the scheduler
\* had listed before.
SettledStaysSettled == [][\A o \in Occs :
    status[o] \in Settled => status'[o] \in Settled]_vars

\* voidContribution answers a second void with "has already been voided": a
\* contribution is taken off the balance once, so the balance is the sum of
\* the posted contributions.
BalanceIsPostedTotal == \A o \in Occs : amountPaid[o] = PostedTotal(o)
=============================================================================
