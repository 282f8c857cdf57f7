--------------------------- MODULE SimulationProps ---------------------------
(***************************************************************************)
(* What a simulated month promises, whatever the order of polls, payments, *)
(* decisions, pauses and requests that read before they write.             *)
(***************************************************************************)
EXTENDS Simulation

\* The board asks one question at a time: a session holds for a surprise event
\* exactly when one, and only one, is revealed and undecided.
OneQuestion ==
    /\ (session.hold = "EVENT_REVEAL") = (Revealed(session) # {})
    /\ \A e, f \in Revealed(session) : e = f

\* Every settled bill and event has its one score entry, a completed month one
\* bonus, nothing else is entered, and the entries add up to the score: the
\* completion of a month, which checks that sum, is never refused.
ScoreIsExplained ==
    /\ Reconciles(session)
    /\ LET Entries(source, of) ==
             LET rows == {r \in BagToSet(session.ledger) :
                            r.source = source /\ r.of = of}
             IN SumFunctionOnSet(session.ledger, rows)
           One(p) == IF p THEN 1 ELSE 0
       IN /\ \A b \in Bills :
               /\ Entries("PAYMENT", b) = One(session.bill[b] = "PAID")
               /\ Entries("MISSED", b) = One(session.bill[b] = "MISSED")
          /\ \A e \in Events :
               /\ Entries("DECISION", e) = One(session.event[e] = "RESOLVED")
               /\ Entries("EXPIRY", e) = One(session.event[e] = "EXPIRED")
          /\ Entries("BONUS", None) = One(session.status = "COMPLETED")

\* No money is lost or made up: what has left the accounts is the paid bills
\* and what events have taken, and an event is short of its cost only when it
\* has expired on a player with nothing left.
MoneyAccounted ==
    /\ session.current + session.savings =
         Budget - SumFunctionOnSet(Amount, {b \in Bills : session.bill[b] = "PAID"})
                - SumFunctionOnSet(session.taken, Events)
    /\ \A e \in Events :
         CASE session.event[e] = "RESOLVED" ->
                \E o \in Options[e] : session.taken[e] = o.cost
           [] session.event[e] = "EXPIRED" ->
                \/ session.taken[e] = Expiry[e].cost
                \/ session.taken[e] < Expiry[e].cost /\ session.current = 0
                   /\ session.savings = 0
           [] OTHER -> session.taken[e] = 0

\* Points and money of a month are accounted for, through decisions that
\* arrive late, bills that fall due with them and accounts that run dry.
MonthAddsUp == ScoreIsExplained /\ MoneyAccounted

\* The day clock runs only while nothing waits for the player, a timed decision
\* has its deadline and an untimed one has none, and a pause keeps exactly the
\* clock it stopped.
ClocksFollowHold ==
    /\ session.status = "ACTIVE" =>
         /\ session.paused = None
         /\ session.nextDay # None => session.timed /\ session.hold = "NONE"
         /\ (session.decision # None) = (session.timed /\ session.hold = "EVENT_REVEAL")
    /\ session.status = "PAUSED" =>
         /\ session.nextDay = None /\ session.decision = None
         /\ (session.paused # None) = (session.timed /\ session.hold # "NEW_OBLIGATION")

\* What waits for the player is not passed over: no day goes by while the
\* result of a payment or of an event is on the board.
PendingHoldsTheDay ==
    [][session.hold \in Results => session'.day = session.day]_vars

\* Transitions and requests implement the month as its player sees it.
Month == INSTANCE SimulationMonth WITH
    phase <- CASE session.status = "BRIEFING" -> "PLANNED"
               [] session.status \in {"ACTIVE", "PAUSED"} -> "OPEN"
               [] OTHER -> session.status,
    day <- session.day,
    fate <- [i \in Bills \cup Events |->
               IF i \in Bills
               THEN CASE session.bill[i] = "ABSENT" -> "AWAY"
                      [] IsOpen(session, i) -> "OPEN"
                      [] session.bill[i] = "PAID" -> "DONE"
                      [] session.bill[i] = "MISSED" -> "LATE"
               ELSE CASE session.event[i] = "SCHEDULED" -> "AWAY"
                      [] session.event[i] = "REVEALED" -> "OPEN"
                      [] session.event[i] = "RESOLVED" -> "DONE"
                      [] session.event[i] = "EXPIRED" -> "LATE"],
    prizes <- session.xp
ImplementsMonth == Month!Spec

\* A timed month ends, unless the player pauses it for ever or leaves a result
\* or a new bill unacknowledged, or the one refetch a board sends when a
\* decision expires is lost, which nothing repeats.
Answered == \/ session.status # "ACTIVE"
            \/ session.hold \notin Continuable /\ ~TimeIsUp(session)
TimedMonthEnds ==
    []<>Answered /\ <>[](session.status # "PAUSED") =>
      (session.timed /\ session.status = "ACTIVE"
         ~> session.status \in {"COMPLETED", "ABANDONED"})
=============================================================================
