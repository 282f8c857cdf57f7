----------------------------- MODULE CreditScore -----------------------------
(***************************************************************************)
(* CreditScoreService: the score of one user, a formula over the           *)
(* occurrences of the obligations and the monthly budget, and the credit   *)
(* profile that the transactions of payments and of the scheduler passes   *)
(* recalculate.                                                            *)
(*                                                                         *)
(* The unit of time is half a day, which tells a payment later on the due  *)
(* day from one on the next; a month has 30 days.  Fractions are integers  *)
(* over the denominators named below, without the rounding of doubles.     *)
(* The reads of one calculation are one step.  The budget is any, and does *)
(* not change.  Amounts, locks and voids are in module Payments.           *)
(***************************************************************************)
EXTENDS Integers, FiniteSets, FiniteSetsExt

CONSTANTS
    Occs,      \* occurrences, each of its own obligation
    Due,       \* their due dates
    Kind,      \* ObligationType
    Priority,  \* ObligationPriority
    Amount,    \* amountDue
    Budgets,   \* values of monthlyBudget; 0 is none
    Lateness,  \* how long after it was due a payment may say it was made
    Recalcs,   \* transactions at one time
    Times      \* bound: the times at which something happens

ASSUME CreditConstants ==
    /\ IsFiniteSet(Occs)
    /\ DOMAIN Due = Occs /\ DOMAIN Kind = Occs /\ DOMAIN Amount = Occs
    /\ Priority \in [Occs -> {"LOW", "MEDIUM", "HIGH", "CRITICAL"}]
    /\ \A o \in Occs : Amount[o] \in Nat \ {0} /\ Due[o] \in Nat
    /\ Budgets \subseteq Nat /\ Lateness \subseteq Int
    /\ Times \subseteq Nat /\ 0 \in Times

VARIABLES
    now,
    occ,       \* the committed occurrences
    archived,  \* those whose obligation is archived
    budget,
    credit,    \* CreditProfile
    deltas,    \* the sum of pointsDelta over the ScoreEvents
    recalc,    \* each transaction: what it has written and calculated
    passed     \* history: a transaction stored what it had calculated before
               \* another one stored its own

creditVars == <<now, occ, archived, budget, credit, deltas, recalc, passed>>

HalfDays(n) == 2 * n
Statuses == {"ABSENT", "PENDING", "OVERDUE", "MISSED", "CANCELLED", "PAID", "PAID_LATE"}
Occ == [status: Statuses, paidAt: Int]
OccIdle == [on |-> FALSE]

-----------------------------------------------------------------------------
(* The formula, of occurrences os, archived obligations gone, a budget b   *)
(* and a time t                                                            *)

Having(os, ss) == {o \in Occs : os[o].status \in ss}
PaidStatuses == {"PAID", "PAID_LATE"}
FailedStatuses == {"MISSED", "OVERDUE"}
CeilDays(h) == (h + 1) \div 2
DaysLate(os, o) == IF os[o].paidAt <= Due[o] THEN 0 ELSE CeilDays(os[o].paidAt - Due[o])

\* getWeightedHistoryScore, in twentieths, and PRIORITY_WEIGHTS, in quarters.
Points(late) ==
    CASE late = 0 -> 20 [] late \in 1..3 -> 17 [] late \in 4..7 -> 14
      [] late \in 8..14 -> 10 [] late \in 15..30 -> 5 [] late > 30 -> 1
HistoryPoints(os, o) == IF os[o].status \in FailedStatuses THEN 0 ELSE Points(DaysLate(os, o))
Weight == [o \in Occs |-> CASE Priority[o] = "LOW" -> 1 [] Priority[o] = "MEDIUM" -> 2
                           [] Priority[o] = "HIGH" -> 3 [] Priority[o] = "CRITICAL" -> 4]

History(os) == Having(os, PaidStatuses \cup FailedStatuses)
Weights(os) == SumFunctionOnSet(Weight, History(os))
\* calculatePaymentHistory is HistorySum / (20 * Weights).
HistorySum(os) == SumFunctionOnSet([o \in Occs |-> Weight[o] * HistoryPoints(os, o)],
                                   History(os))

Month(t) == t \div HalfDays(30)
Committed(os, t, set) == SumFunctionOnSet(Amount,
    {o \in set : os[o].status \notin {"ABSENT", "CANCELLED"} /\ Month(Due[o]) = Month(t)})
\* getBudgetPressureScore, in quarters, with the comparisons of an infinite
\* or undefined ratio when there is no budget.
Pressure(c, b) ==
    CASE b = 0 -> 0 [] b > 0 /\ 2 * c <= b -> 4
      [] b > 0 /\ 2 * c > b /\ 10 * c <= 7 * b -> 3
      [] b > 0 /\ 10 * c > 7 * b /\ 10 * c <= 9 * b -> 2
      [] b > 0 /\ 10 * c > 9 * b /\ c <= b -> 1 [] b > 0 /\ c > b -> 0
\* getSavingsBufferScore, in tenths.
Buffer(c, b) ==
    CASE b = 0 -> 0 [] b > 0 /\ 5 * (b - c) >= b -> 10
      [] b > 0 /\ 5 * (b - c) < b /\ 10 * (b - c) > b -> 7
      [] b > 0 /\ 10 * (b - c) <= b /\ c < b -> 3 [] b > 0 /\ c >= b -> 0

\* calculateHistoryLengthScore, in months of 24.
Months(os) == Min({24, Cardinality({Month(Due[o]) : o \in History(os)})})
Recent(t) == {o \in Occs : Due[o] \in t - HalfDays(90)..t}
\* calculateObligationDiversityScore, in fifteenths.
Diversity(os, t) ==
    LET kinds(ss) == {Kind[o] : o \in Having(os, ss) \cap Recent(t)}
        managed == Min({15, 5 * Cardinality(kinds(PaidStatuses) \ kinds(FailedStatuses))})
    IN IF HistorySum(os) < 10 * Weights(os) \/ History(os) = {}
       THEN Min({6, managed}) ELSE managed

\* hasLatePaymentWithinPeriod
LateCapFromDayOne == 1..30
LateCapDays == 15..30
\* determineApplicableRiskCaps
Caps(os, b, t) ==
    LET some(set) == set \cap Recent(t) # {}
        missed == Having(os, {"MISSED"})
    IN {850} \cup {c \in {650} : Having(os, PaidStatuses \cup {"MISSED"}) = {}}
             \cup {c \in {700} : some(Having(os, {"OVERDUE"}))}
             \cup {c \in {680} : some({o \in Having(os, {"PAID_LATE"}) : DaysLate(os, o) \in LateCapDays})}
             \cup {c \in {620} : some(missed)}
             \cup {c \in {580} : some({o \in missed : Priority[o] = "CRITICAL"})}
             \cup {c \in {670} : b > 0 /\ Committed(os, t, Occs) > b}

\* 300 + 550 * (0.4 history + 0.25 pressure + 0.1 buffer + 0.15 length + 0.1
\* diversity), over 48 times the weights and rounded half up.
Uncapped(os, gone, b, t) ==
    LET w == IF History(os) = {} THEN 1 ELSE Weights(os)
        c == Committed(os, t, Occs \ gone)
        sum == 528 * HistorySum(os) + w * (1650 * Pressure(c, b) + 264 * Buffer(c, b)
               + 165 * Months(os) + 176 * Diversity(os, t))
    IN 300 + (2 * sum + 48 * w) \div (96 * w)
Score(os, gone, b, t) == Min({Uncapped(os, gone, b, t)} \cup Caps(os, b, t))

\* determineScoreTier
Tier(score) == CASE score \in 580..649 -> "FAIR" [] score \in 650..719 -> "GOOD"
                 [] score \in 720..779 -> "EXCELLENT" [] score \in 780..850 -> "ELITE"
                 [] score \notin 580..850 -> "BUILDING"
Counts(os) == [onTime |-> Cardinality(Having(os, {"PAID"})),
               late |-> Cardinality(Having(os, {"PAID_LATE"})),
               missed |-> Cardinality(Having(os, {"MISSED"}))]

-----------------------------------------------------------------------------
CreditTypeOK ==
    /\ now \in Times
    /\ occ \in [Occs -> Occ] /\ archived \subseteq Occs
    /\ budget \in Budgets
    /\ credit.score \in 300..850
    /\ credit.tier = IF credit.fresh THEN "GOOD" ELSE Tier(credit.score)
    /\ credit.fresh \/ \A n \in DOMAIN credit.counts : credit.counts[n] \in 0..Cardinality(Occs)
    /\ deltas \in Int
    /\ \A r \in Recalcs : recalc[r].on =>
         /\ recalc[r].o \in Occs /\ recalc[r].to \in Occ /\ recalc[r].late \in BOOLEAN
         /\ {recalc[r].before, recalc[r].score} \subseteq 300..850
    /\ passed \in BOOLEAN

\* findOrCreateUser gives the profile 600 points and the tier GOOD.
CreditInit ==
    /\ now = 0
    /\ occ = [o \in Occs |-> [status |-> "ABSENT", paidAt |-> 0]]
    /\ archived = {} /\ budget \in Budgets
    /\ credit = [fresh |-> TRUE, score |-> 600, tier |-> "GOOD",
                 counts |-> Counts(occ)]
    /\ deltas = 0
    /\ recalc = [r \in Recalcs |-> OccIdle]
    /\ passed = FALSE

\* What is stored makes the other calculations late.
Outdated(rs) == [r \in Recalcs |-> IF rs[r].on THEN [rs[r] EXCEPT !.late = TRUE] ELSE rs[r]]

Payable(o) == occ[o].status \in {"PENDING", "OVERDUE", "MISSED"}
PaidAs(o, d) == [status |-> IF (Due[o] + d) \div 2 > Due[o] \div 2 THEN "PAID_LATE" ELSE "PAID",
                 paidAt |-> Due[o] + d]
Missable(o) == occ[o].status = "OVERDUE" /\ Due[o] + HalfDays(30) < now
Changes(o) ==
    {PaidAs(o, d) : d \in {x \in Lateness : Payable(o)}}
    \cup {[occ[o] EXCEPT !.status = s] : s \in
        {x \in {"OVERDUE"} : occ[o].status = "PENDING" /\ Due[o] < now}
        \cup {x \in {"MISSED"} : Missable(o)}}

SeenCommitted(o, to) == occ
Seen(o, to) == [occ EXCEPT ![o] = to]
\* A transaction settles an occurrence or marks it overdue or missed, reads the
\* profile without its lock, and calculates: what it sees is committed or its own.
Recalculate(r, o, to) ==
    /\ ~recalc[r].on /\ \A q \in Recalcs : recalc[q].on => recalc[q].o # o
    /\ recalc' = [recalc EXCEPT ![r] =
         LET os == Seen(o, to) IN
         [on |-> TRUE, o |-> o, to |-> to, before |-> credit.score,
          score |-> Score(os, archived, budget, now), counts |-> Counts(os), late |-> FALSE]]
    /\ UNCHANGED <<now, occ, archived, budget, credit, deltas, passed>>
TierAfter(x) == Tier(x.score)
\* The update of the profile, the ScoreEvent and the commit.
Store(r) ==
    LET x == recalc[r] IN
    /\ x.on
    /\ occ' = [occ EXCEPT ![x.o] = x.to]
    /\ credit' = [fresh |-> FALSE, score |-> x.score,
                  tier |-> TierAfter(x), counts |-> x.counts]
    /\ deltas' = deltas + x.score - x.before
    /\ passed' = (passed \/ x.late)
    /\ recalc' = Outdated([recalc EXCEPT ![r] = OccIdle])
    /\ UNCHANGED <<now, archived, budget>>
Rollback(r) ==
    /\ recalc[r].on
    /\ recalc' = [recalc EXCEPT ![r] = OccIdle]
    /\ UNCHANGED <<now, occ, archived, budget, credit, deltas, passed>>

\* What changes the formula's inputs without a recalculation.
AddObligation(o) ==
    /\ occ[o].status = "ABSENT"
    /\ occ' = [occ EXCEPT ![o].status = "PENDING"]
    /\ UNCHANGED <<now, archived, budget, credit, recalc, deltas, passed>>
ArchiveObligation(o) ==
    /\ occ[o].status # "ABSENT" /\ o \notin archived
    /\ \A r \in Recalcs : recalc[r].on => recalc[r].o # o
    /\ archived' = archived \cup {o}
    /\ occ' = IF occ[o].status \in {"PENDING", "OVERDUE"}
              THEN [occ EXCEPT ![o].status = "CANCELLED"] ELSE occ
    /\ UNCHANGED <<now, budget, credit, recalc, deltas, passed>>
Wait(t) ==
    /\ t > now
    /\ now' = t
    /\ UNCHANGED <<occ, archived, budget, credit, recalc, deltas, passed>>

CreditNext ==
    \/ \E r \in Recalcs : \/ \E o \in Occs : \E to \in Changes(o) : Recalculate(r, o, to)
                          \/ Store(r) \/ Rollback(r)
    \/ \E o \in Occs : AddObligation(o) \/ ArchiveObligation(o)
    \/ \E t \in Times : Wait(t)
CreditSpec == CreditInit /\ [][CreditNext]_creditVars
=============================================================================
