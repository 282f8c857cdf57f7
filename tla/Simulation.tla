------------------------------ MODULE Simulation ------------------------------
(***************************************************************************)
(* One simulated month: SimulationTransitionService, and the operations of *)
(* SimulationsService on a session.                                        *)
(*                                                                         *)
(* A transition (Resolve) runs under the lock of the session row, so the   *)
(* requests that begin with one are single steps.  Advance, continue and   *)
(* resume read the session without a lock and write later: they are a      *)
(* read and a commit, between which anything may happen.  A request that   *)
(* throws is rolled back and changes nothing.                              *)
(***************************************************************************)
EXTENDS Integers, FiniteSets, FiniteSetsExt, Bags

CONSTANTS
    Days,            \* daysInMonth
    DayLength,       \* DAY_DURATION_MS, in ticks
    DecisionLength,  \* EVENT_DECISION_DURATION_MS, in ticks
    Budget,          \* startingBudget
    Splits,          \* amounts for the current account on offer at setup
    Retention,       \* savingsRetentionMultiplier, in percent
    BonusCeiling,    \* FINAL_BUDGET_BONUS_CEILING_CENTS
    Bills,           \* every obligation the scenario can contain
    Initial,         \* those of the briefing
    Scheduled,       \* those with an obligation schedule
    ShowDay,         \* triggerDay of the schedules
    Due, Amount,     \* dueDay and amountDue of the bills
    Award,           \* points for a bill paid from the current account
    SavedAward,      \* points when savings were needed
    Penalty,         \* points lost when it is missed
    Events, TriggerDay,
    Options, Expiry, \* the outcomes of an event, and the one of its expiry
    Modes,           \* bound: the values of timedMode to explore
    Requests,        \* bound: two-step requests in flight at once
    MaxLag,          \* bound: ticks a deadline can lie in the past
    None

Outcomes == [cost: Nat, points: Int, bills: SUBSET Bills]

ASSUME SimulationConstants ==
    /\ {Days, DayLength, DecisionLength, Budget} \subseteq Nat \ {0}
    /\ {Retention, BonusCeiling, MaxLag} \subseteq Nat
    /\ Splits \subseteq 0..Budget
    /\ Initial \subseteq Bills /\ Scheduled \subseteq Bills
    /\ Initial \cap Scheduled = {}
    /\ Due \in [Bills -> 1..Days]
    /\ Amount \in [Bills -> Nat \ {0}]
    /\ Award \in [Bills -> Nat] /\ SavedAward \in [Bills -> Nat]
    /\ Penalty \in [Bills -> Nat]
    /\ \A s \in Scheduled : ShowDay[s] \in 1..(Due[s] - 1)
    /\ TriggerDay \in [Events -> 1..Days]
    /\ \A e, f \in Events : TriggerDay[e] = TriggerDay[f] => e = f
    /\ Options \in [Events -> SUBSET Outcomes]
    /\ Expiry \in [Events -> Outcomes]
    /\ Modes \subseteq BOOLEAN
    /\ None \notin Int

\* Bills and events are rows of their own, also the bills an outcome brings.
ASSUME RowsOfTheirOwn ==
    /\ IsFiniteSet(Bills) /\ Bills \cap Events = {}
    /\ \A e \in Events : \A o \in Options[e] \cup {Expiry[e]} :
         /\ o.bills \cap (Initial \cup Scheduled) = {}
         /\ \A f \in Events \ {e} : \A p \in Options[f] \cup {Expiry[f]} : o.bills \cap p.bills = {}

VARIABLES
    session,   \* the session row, with its bills, events and score entries;
               \* taken is the cash the resolution of an event records
    requests   \* what each two-step request in flight has read

vars == <<session, requests>>

Status == {"BRIEFING", "ACTIVE", "PAUSED", "COMPLETED", "ABANDONED"}
Hold == {"NONE", "PAYMENT_RESULT", "EVENT_REVEAL", "EVENT_RESULT",
         "NEW_OBLIGATION", "SUMMARY"}
Results == {"PAYMENT_RESULT", "EVENT_RESULT"}
Pausable == {"NONE", "EVENT_REVEAL", "NEW_OBLIGATION"}

\* Deadlines are kept as the ticks left until they pass.
Ticks == (-MaxLag)..Max({DayLength, DecisionLength}) \cup {None}
Row(source, of, points) == [source |-> source, of |-> of, points |-> points]
Idle == [op |-> "none", hold |-> "NONE", paused |-> None, of |-> None]

TypeOK ==
    /\ session.status \in Status
    /\ session.hold \in Hold
    /\ session.timed \in Modes
    /\ session.day \in 0..Days
    /\ {session.nextDay, session.decision} \subseteq Ticks
    /\ session.paused \in Ticks \ (-MaxLag)..(-1)
    /\ session.bill \in [Bills -> {"ABSENT", "SCHEDULED", "PAYABLE", "PAID",
                                   "MISSED"}]
    /\ session.intro \in [Scheduled -> {"WAITING", "SHOWN", "SEEN"}]
    /\ session.event \in [Events -> {"SCHEDULED", "REVEALED", "RESOLVED",
                                     "EXPIRED"}]
    /\ session.taken \in [Events -> 0..Budget]
    /\ session.current \in 0..Budget /\ session.savings \in 0..Budget
    /\ session.score \in Int /\ IsABag(session.ledger)
    /\ session.rewarded \in BOOLEAN /\ session.xp \in Nat
    /\ requests \in [Requests ->
           [op: {"none", "advance", "continue", "resume"}, hold: Hold,
            paused: Ticks, of: Scheduled \cup Events \cup {None}]]

\* createBriefing: the bills of the briefing exist, the rest is scheduled.
Init ==
    /\ \E timed \in Modes :
         session = [status |-> "BRIEFING", hold |-> "NONE", timed |-> timed,
                    day |-> 0, nextDay |-> None, decision |-> None,
                    paused |-> None,
                    bill |-> [b \in Bills |->
                                IF b \in Initial THEN "SCHEDULED" ELSE "ABSENT"],
                    intro |-> [s \in Scheduled |-> "WAITING"],
                    event |-> [e \in Events |-> "SCHEDULED"],
                    taken |-> [e \in Events |-> 0],
                    current |-> Budget, savings |-> 0,
                    score |-> 0, ledger |-> EmptyBag,
                    rewarded |-> FALSE, xp |-> 0]
    /\ requests = [r \in Requests |-> Idle]

-----------------------------------------------------------------------------
(* Money and score.                                                        *)

\* What the accounts can pay of a cost, and who pays: the current account
\* first, savings what it lacks.
Covered(x, cost) == Min({cost, x.current + x.savings})

DebitUnchecked(x, cost) == [x EXCEPT !.current = @ - cost]
Debit(x, cost) ==
    LET fromCurrent == Min({x.current, cost}) IN
    [x EXCEPT !.current = @ - fromCurrent,
              !.savings = @ - Min({@, cost - fromCurrent})]

\* Score entries are created with the change of the score they explain.
Record(x, rows) ==
    [x EXCEPT !.score = @ + SumFunctionOnSet([r \in rows |-> r.points], rows),
              !.ledger = @ (+) SetToBag(rows)]

\* The entries add up to the score.
Reconciles(x) ==
    LET rows == BagToSet(x.ledger) IN
    x.score = SumFunctionOnSet([r \in rows |-> r.points * x.ledger[r]], rows)

IsOpen(x, b) == x.bill[b] \in {"SCHEDULED", "PAYABLE"}

MissAgain(x, late) ==
    Record([x EXCEPT !.bill = [b \in Bills |-> IF b \in late /\ @[b] # "PAID"
                                               THEN "MISSED" ELSE @[b]]],
           {Row("MISSED", b, -Penalty[b]) : b \in {c \in late : x.bill[c] # "PAID"}})
Miss(x, late) ==
    LET missed == {b \in late : IsOpen(x, b)} IN
    Record([x EXCEPT !.bill = [b \in Bills |->
                                 IF b \in missed THEN "MISSED" ELSE @[b]]],
           {Row("MISSED", b, -Penalty[b]) : b \in missed})

\* Bills an outcome introduces, if they fall due after day d.
Introduce(x, new, d) ==
    [x EXCEPT !.bill = [b \in Bills |-> IF b \in new /\ Due[b] > d
                                        THEN "SCHEDULED" ELSE @[b]]]

\* The share of the budget that is left, savings weighted, of the ceiling.
Bonus(x) ==
    LET weighted == x.current + (x.savings * Retention + 50) \div 100 IN
    (BonusCeiling * Min({Budget, weighted}) + Budget \div 2) \div Budget

-----------------------------------------------------------------------------
(* The transition of SimulationTransitionService, on a locked session x.   *)

Revealed(x) == {e \in Events : x.event[e] = "REVEALED"}
DueEvents(x) == {e \in Events : x.event[e] = "SCHEDULED" /\ TriggerDay[e] <= x.day}
NewBills(x) == {s \in Scheduled : x.intro[s] = "WAITING" /\ ShowDay[s] <= x.day}
FirstEvent(x) == CHOOSE e \in DueEvents(x) :
                   \A f \in DueEvents(x) : TriggerDay[e] <= TriggerDay[f]

RevealRunning(x, e) ==
    [x EXCEPT !.event[e] = "REVEALED", !.hold = "EVENT_REVEAL",
              !.decision = IF x.timed THEN DecisionLength ELSE None]
Reveal(x, e) == [x EXCEPT !.event[e] = "REVEALED", !.hold = "EVENT_REVEAL",
                          !.decision = IF x.timed THEN DecisionLength ELSE None,
                          !.nextDay = None]

Show(x, new) == [x EXCEPT !.intro = [s \in Scheduled |->
                                       IF s \in new THEN "SHOWN" ELSE @[s]],
                          !.bill = [b \in Bills |->
                                      IF b \notin new THEN @[b]
                                      ELSE IF Due[b] <= x.day THEN "PAYABLE"
                                      ELSE "SCHEDULED"],
                          !.hold = "NEW_OBLIGATION", !.nextDay = None]

Fall(x) == [x EXCEPT !.bill = [b \in Bills |->
                IF @[b] = "SCHEDULED" /\ Due[b] <= x.day THEN "PAYABLE" ELSE @[b]]]

Stops(x) == NewBills(x) # {} \/ DueEvents(x) # {}

StopForDayEarly(x) ==
    LET y == Miss(x, {b \in Bills : Due[b] <= x.day}) IN
    IF NewBills(y) # {} THEN Show(y, NewBills(y))
    ELSE IF DueEvents(y) # {} THEN Reveal(Fall(y), FirstEvent(y))
    ELSE Fall(y)
StopForDay(x) ==
    LET y == Miss(x, {b \in Bills : Due[b] < x.day}) IN
    IF NewBills(y) # {} THEN Show(y, NewBills(y))
    ELSE IF DueEvents(y) # {} THEN Reveal(Fall(y), FirstEvent(y))
    ELSE Fall(y)

Reward(x) == IF x.rewarded THEN x
             ELSE [x EXCEPT !.rewarded = TRUE, !.xp = @ + 1]

Finalize(x) ==
    LET y == Miss(x, Bills) IN
    Reward([Record(y, {Row("BONUS", None, Bonus(y))})
              EXCEPT !.status = "COMPLETED", !.hold = "SUMMARY",
                     !.nextDay = None, !.paused = None])

Boundary(x) ==
    IF x.day >= Days THEN Finalize(x)
    ELSE StopForDay([x EXCEPT !.day = @ + 1,
                              !.nextDay = IF ~x.timed THEN None
                                          ELSE IF @ = None THEN DayLength
                                          ELSE @ + DayLength])

\* Days pass while the deadline lies in the past; a stop clears the deadline.
CatchUp(x) ==
    LET after[n \in 0..(Days + 1)] ==
          IF n = 0 THEN x
          ELSE LET y == after[n - 1] IN
               IF y.nextDay # None /\ y.nextDay <= 0 THEN Boundary(y) ELSE y
    IN after[Days + 1]

Expire(x, e) ==
    LET o == Expiry[e] IN
    Introduce(
      Record([Debit(x, o.cost) EXCEPT !.event[e] = "EXPIRED", !.decision = None,
                !.taken[e] = Covered(x, o.cost),
                !.nextDay = None, !.hold = "EVENT_RESULT"],
             {Row("EXPIRY", e, o.points)}),
      o.bills, x.day)

TimeIsUp(x) == x.timed /\ x.decision # None /\ x.decision <= 0

Resolve(x, manual) ==
    IF x.status = "COMPLETED" THEN Reward(x)
    ELSE IF x.status # "ACTIVE" \/ x.hold = "NEW_OBLIGATION" THEN x
    ELSE IF Revealed(x) # {}
    THEN IF TimeIsUp(x) THEN Expire(x, CHOOSE e \in Revealed(x) : TRUE) ELSE x
    ELSE LET y == StopForDay(x) IN
         IF Stops(x) THEN y
         ELSE IF x.timed /\ x.nextDay = None /\ x.hold = "NONE"
         THEN [y EXCEPT !.nextDay = DayLength]
         ELSE IF x.timed THEN (IF manual THEN y ELSE CatchUp(y))
         ELSE IF manual THEN Boundary(y) ELSE y

\* completionSummary throws when the entries do not add up to the score.
Commit(x) == /\ x.status = "COMPLETED" => Reconciles(x)
             /\ session' = x

-----------------------------------------------------------------------------
(* Requests that hold the lock from their first statement, or consist of   *)
(* one conditional update.                                                 *)

Setup(split) ==
    /\ session.status = "BRIEFING"
    /\ session' = [session EXCEPT !.status = "ACTIVE", !.current = split,
                     !.savings = Budget - split,
                     !.nextDay = IF session.timed THEN DayLength ELSE None]
    /\ UNCHANGED requests

\* The transition itself: getSession and getActiveSession, which clients poll.
Poll == Commit(Resolve(session, FALSE)) /\ UNCHANGED requests

Pay(b) ==
    LET x == Resolve(session, FALSE) IN
    /\ x.status = "ACTIVE" /\ x.hold = "NONE"
    /\ IsOpen(x, b) /\ x.day <= Due[b]
    /\ x.current + x.savings >= Amount[b]
    /\ Commit(Record([Debit(x, Amount[b]) EXCEPT !.bill[b] = "PAID",
                        !.nextDay = None, !.hold = "PAYMENT_RESULT"],
                     {Row("PAYMENT", b, IF x.current >= Amount[b]
                                        THEN Award[b] ELSE SavedAward[b])}))
    /\ UNCHANGED requests

ResolveEvent(e, o) ==
    LET x == Resolve(session, FALSE) IN
    /\ x.status = "ACTIVE" /\ x.event[e] = "REVEALED" /\ x.hold = "EVENT_REVEAL"
    /\ x.current + x.savings >= o.cost
    /\ Commit(Introduce(
          Record([Debit(x, o.cost) EXCEPT !.event[e] = "RESOLVED",
                    !.decision = None, !.taken[e] = Covered(x, o.cost),
                    !.nextDay = None, !.hold = "EVENT_RESULT"],
                 {Row("DECISION", e, o.points)}),
          o.bills, TriggerDay[e]))
    /\ UNCHANGED requests

\* What is left until the deadline that is running, and then no deadline.
Pause ==
    LET x == Resolve(session, FALSE)
        deadline == IF x.hold = "EVENT_REVEAL" THEN x.decision ELSE x.nextDay
    IN /\ x.status = "ACTIVE" /\ x.hold \in Pausable
       /\ Commit([x EXCEPT !.status = "PAUSED", !.nextDay = None,
                    !.paused = IF deadline = None THEN None ELSE Max({0, deadline}),
                    !.decision = IF x.hold = "EVENT_REVEAL" THEN None ELSE @])
       /\ UNCHANGED requests

Discard ==
    /\ session.status \in {"BRIEFING", "ACTIVE", "PAUSED"}
    /\ session' = [session EXCEPT !.status = "ABANDONED", !.nextDay = None,
                                  !.paused = None]
    /\ UNCHANGED requests

-----------------------------------------------------------------------------
(* Requests that read the session first and write it later.                *)

Begin(r, op, of) ==
    /\ requests[r].op = "none"
    /\ requests' = [requests EXCEPT ![r] =
                      [op |-> op, hold |-> session.hold,
                       paused |-> session.paused, of |-> of]]
    /\ UNCHANGED session

Finish(r) == requests' = [requests EXCEPT ![r] = Idle]

\* assertManualAdvanceAllowed, on a session read without a lock.
AdvanceRead(r) ==
    /\ ~session.timed /\ session.status = "ACTIVE" /\ session.hold = "NONE"
    /\ Revealed(session) = {}
    /\ Begin(r, "advance", None)

AdvanceCommit(r) ==
    /\ requests[r].op = "advance"
    /\ Commit(Resolve(session, TRUE))
    /\ Finish(r)

ContinuableEvent == Results \cup {"NEW_OBLIGATION", "EVENT_REVEAL"}
Continuable == Results \cup {"NEW_OBLIGATION"}

ContinueRead(r) ==
    /\ session.status = "ACTIVE" /\ session.hold \in Continuable
    /\ IF session.hold = "NEW_OBLIGATION"
       THEN \E s \in Scheduled : session.intro[s] = "SHOWN" /\ Begin(r, "continue", s)
       ELSE Begin(r, "continue", None)

Acknowledge(x, s) == [x EXCEPT !.intro = [t \in Scheduled |->
                                            IF t = s THEN "SEEN" ELSE @[t]]]

ContinueCommit(r) ==
    LET seen == requests[r]
        x == [Acknowledge(session, seen.of) EXCEPT !.hold = "NONE",
                !.nextDay = IF session.timed THEN DayLength ELSE None]
    IN /\ seen.op = "continue"
       /\ session.status = "ACTIVE" /\ session.hold \in Continuable
       /\ session' = IF seen.hold = "NEW_OBLIGATION" /\ DueEvents(x) # {}
                     THEN Reveal(x, FirstEvent(x)) ELSE x
       /\ Finish(r)

ResumeRead(r) ==
    /\ session.status = "PAUSED" /\ session.hold \in Pausable
    /\ session.timed /\ session.hold # "NEW_OBLIGATION" => session.paused # None
    /\ ~session.timed => session.paused = None
    /\ IF session.hold = "EVENT_REVEAL"
       THEN \E e \in Events : Revealed(session) = {e} /\ Begin(r, "resume", e)
       ELSE Begin(r, "resume", None)

\* restoredDeadline: what a pause has kept starts to run again.
RestoredNever(seen) == None
Restored(seen) == IF ~session.timed THEN None
                  ELSE IF seen.paused = None THEN 0 ELSE seen.paused

\* The deadline goes to the event that was read, if one was.
ResumeCommit(r) ==
    LET seen == requests[r]
        left == Restored(seen)
    IN /\ seen.op = "resume"
       /\ session.status = "PAUSED" /\ session.hold \in Pausable
       /\ session' = [session EXCEPT !.status = "ACTIVE", !.paused = None,
                        !.nextDay = IF seen.hold = "NONE" THEN left ELSE None,
                        !.decision = IF seen.hold = "EVENT_REVEAL" /\ left # None
                                        /\ seen.of \in Revealed(session)
                                     THEN left ELSE @]
       /\ Finish(r)

\* The commit is refused, or the request is lost before it.
Drop(r) == requests[r].op # "none" /\ Finish(r) /\ UNCHANGED session

-----------------------------------------------------------------------------

Later(t) == IF t = None THEN None ELSE Max({t - 1, -MaxLag})

Tick ==
    /\ session.status = "ACTIVE"
    /\ session' = [session EXCEPT !.nextDay = Later(@), !.decision = Later(@)]
    /\ session' # session
    /\ UNCHANGED requests

\* A client can name only the bills and events it has been shown.
Next ==
    \/ \E split \in Splits : Setup(split)
    \/ Poll
    \/ \E b \in {c \in Bills : session.bill[c] # "ABSENT"} : Pay(b)
    \/ \E e \in Revealed(session) : \E o \in Options[e] : ResolveEvent(e, o)
    \/ Pause
    \/ Discard
    \/ \E r \in Requests :
         \/ AdvanceRead(r) \/ AdvanceCommit(r)
         \/ ContinueRead(r) \/ ContinueCommit(r)
         \/ ResumeRead(r) \/ ResumeCommit(r)
         \/ Drop(r)
    \/ Tick

Spec == Init /\ [][Next]_vars

\* The board of a timed month polls while a day is running, and time passes.
\* PollFair is weak fairness of Poll at these moments, with what enables it
\* written as a state predicate.
BoardPolls == session.timed /\ session.status = "ACTIVE" /\ session.hold = "NONE"
PollFair == []<>~(BoardPolls /\ Resolve(session, FALSE) # session)
            \/ []<><<Poll>>_vars
FairSpec == Spec /\ PollFair /\ WF_vars(Tick)
=============================================================================
