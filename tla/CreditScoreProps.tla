-------------------------- MODULE CreditScoreProps --------------------------
(***************************************************************************)
(* What the score promises: it explains itself, and good and bad payments  *)
(* move it the way the user manual says.                                   *)
(***************************************************************************)
EXTENDS CreditScore

\* The formula only reads what is committed: the promises below are checked
\* when no transaction is under way.
Quiet == \A r \in Recalcs : ~recalc[r].on
ScoreIf(o, to) == Score([occ EXCEPT ![o] = to], archived, budget, now)
ScoreNow == Score(occ, archived, budget, now)

\* The events add up to the stored score, and the counters of the profile are
\* those of the occurrences, as long as no transaction overwrote what another
\* had stored since it read the profile (recalculateAfterPayment).
EventsExplainScore == ~passed =>
    credit.score = 600 + deltas /\ credit.counts = Counts(occ)

\* Paying never lowers the score, whatever the caps do: "payments that are on
\* time push it up", and what was overdue recovers.  Exceptions, as the code has
\* them: 15 to 30 days late brings a cap of its own, and a payment of something
\* that was not overdue yet which counts as late.
PayingNeverHurts == Quiet => \A o \in Occs : Payable(o) => \A d \in Lateness :
    LET to == PaidAs(o, d)
        late == DaysLate([occ EXCEPT ![o] = to], o)
    IN late \notin 15..30 /\ (late = 0 \/ occ[o].status # "PENDING") =>
         ScoreIf(o, to) >= ScoreNow

\* A payment made later never gives the better score, but for the cap that
\* only 15 to 30 days bring.
LaterIsNeverBetter == Quiet => \A o \in Occs : Payable(o) => \A d, e \in Lateness :
    /\ d < e
    /\ DaysLate([occ EXCEPT ![o] = PaidAs(o, d)], o) \notin 15..30
    => ScoreIf(o, PaidAs(o, d)) >= ScoreIf(o, PaidAs(o, e))

\* What goes overdue or is missed never raises the score, except by the first
\* record of its month.
FailingNeverHelps == Quiet => \A o \in Occs : \A to \in Changes(o) :
    to.status \in {"OVERDUE", "MISSED"}
    /\ Month(Due[o]) \in {Month(Due[p]) : p \in History(occ)} =>
         ScoreIf(o, to) <= ScoreNow

\* The score follows what the user does, at every state its occurrences can
\* reach and on both sides of every limit of the formula.
ScoreFollowsConduct == PayingNeverHurts /\ LaterIsNeverBetter /\ FailingNeverHelps
=============================================================================
