------------------------------ MODULE Scenario ------------------------------
(***************************************************************************)
(* buildSimulationScenario: the draws that make a month out of the active  *)
(* templates of the catalogue, one action each, until createBriefing can   *)
(* write the rows of the month or answers that the catalogue is            *)
(* unavailable.  A weighted draw is any draw, since weights are positive.  *)
(***************************************************************************)
EXTENDS SimulationCatalogue, FiniteSetsExt

CONSTANTS
    StartingBudgets,  \* bound: of the budgets 4000, 4500, ... 7000
    FutureDays,       \* bound: of the trigger days 3..24
    Deactivated       \* sets of obligation templates that may be inactive

ASSUME ScenarioConstants ==
    /\ StartingBudgets \subseteq {b \in 4000..7000 : b % 500 = 0}
    /\ StartingBudgets # {}
    /\ FutureDays \subseteq 3..24 /\ Cardinality(FutureDays) >= 2
    /\ \A off \in Deactivated : off \subseteq DOMAIN ObligationTemplates

VARIABLE scenario
    \* step of the build, templates that are inactive, starting budget, initial
    \* bills, trigger day of each future bill, events

LastIntroduction == 24
Steps == {"start", "budget", "bills", "future", "briefing", "refused"}

ScenarioTypeOK ==
    /\ scenario.step \in Steps
    /\ scenario.inactive \in Deactivated
    /\ scenario.budget \in StartingBudgets \cup {0}
    /\ scenario.initial \subseteq DOMAIN ObligationTemplates
    /\ DOMAIN scenario.later \subseteq DOMAIN ObligationTemplates
    /\ \A t \in DOMAIN scenario.later : scenario.later[t] \in FutureDays
    /\ scenario.events \subseteq DOMAIN EventTemplates

ScenarioInit == \E off \in Deactivated :
    scenario = [step |-> "start", inactive |-> off, budget |-> 0, initial |-> {},
                later |-> << >>, events |-> {}]

ActiveTemplates == DOMAIN ObligationTemplates \ scenario.inactive
Amounts == [t \in DOMAIN ObligationTemplates |-> ObligationTemplates[t].amount]
TotalDue(templates) == SumFunctionOnSet(Amounts, templates)

\* The bills of the briefing take at most 70% of the budget.
Cap(budget) == (budget * 70) \div 100

\* hasDueDaySpread: a bill early, one in the middle and one late in the month.
HasDueDaySpread(templates) == \A part \in {1..10, 11..20, 21..30} :
    \E t \in templates : ObligationTemplates[t].due \in part

\* selectObligationsWithinBudget: the sets of five that may be drawn.
InitialChoicesUnspread(budget) ==
    {s \in kSubset(5, ActiveTemplates) : TotalDue(s) <= Cap(budget)}
InitialChoices(budget) ==
    {s \in kSubset(5, ActiveTemplates) :
        TotalDue(s) <= Cap(budget) /\ HasDueDaySpread(s)}

\* The templates that may turn up during the month.
FutureCandidates(initial) == {t \in ActiveTemplates \ initial :
    ObligationTemplates[t].eligible /\ ObligationTemplates[t].due > LastIntroduction}

\* expandEventOption throws for a bill that is inactive or not due in time.
Unavailable(e) == \E choice \in DOMAIN EventTemplates[e].choices :
    LET bill == EventTemplates[e].choices[choice].bill IN
    /\ bill # NoBill
    /\ ~ /\ bill \in ActiveTemplates
         /\ ObligationTemplates[bill].eligible
         /\ ObligationTemplates[bill].due \in (EventTemplates[e].day + 1)..30

\* A draw from no choices is refused.
Drawn(step, choices) ==
    scenario' \in IF choices = {} THEN {[scenario EXCEPT !.step = "refused"]}
                                  ELSE {[c EXCEPT !.step = step] : c \in choices}

DrawBudget ==
    /\ scenario.step = "start"
    /\ Drawn("budget", {[scenario EXCEPT !.budget = b] : b \in StartingBudgets})

DrawInitial ==
    /\ scenario.step = "budget"
    /\ Drawn("bills", {[scenario EXCEPT !.initial = s] :
                          s \in InitialChoices(scenario.budget)})

\* Future bills are shown on days of their own.
OwnDays(bills) == {f \in [bills -> FutureDays] : \A t, u \in bills : f[t] = f[u] => t = u}

DrawFuture ==
    /\ scenario.step = "bills"
    /\ LET SomeBills == UNION {kSubset(n, FutureCandidates(scenario.initial)) : n \in 1..2}
       IN Drawn("future", {[scenario EXCEPT !.later = days] :
                             days \in UNION {OwnDays(bills) : bills \in SomeBills}})

EventDraws == UNION {kSubset(n, DOMAIN EventTemplates) : n \in 2..4}

\* The events drawn are expanded, and the rows of the month written.
WriteBriefing ==
    /\ scenario.step = "future"
    /\ \E s \in EventDraws :
         Drawn("briefing", {x \in {[scenario EXCEPT !.events = s]} :
                              \A e \in s : ~Unavailable(e)})

ScenarioNext == DrawBudget \/ DrawInitial \/ DrawFuture \/ WriteBriefing
ScenarioSpec == ScenarioInit /\ [][ScenarioNext]_scenario

-----------------------------------------------------------------------------
(* What a month promises before its first day.                             *)

\* The seeded catalogue always makes a month; a bill it announces for later is
\* not one it began with and is shown before it is due; and a player who takes
\* what is free can pay for all of it: the five bills and those that turn up
\* fit in the budget, every event can be passed without money or a new bill,
\* and one that expires leaves no bill behind (buildSimulationScenario).
MonthIsPlayable ==
    /\ scenario.inactive = {} => scenario.step # "refused"
    /\ scenario.step = "briefing" =>
         LET future == DOMAIN scenario.later IN
         /\ scenario.initial \cap future = {}
         /\ \A t \in future : scenario.later[t] < ObligationTemplates[t].due
         /\ TotalDue(scenario.initial) + TotalDue(future) <= scenario.budget
         /\ \A e \in scenario.events :
              LET x == EventTemplates[e] IN
              /\ \E c \in DOMAIN x.choices :
                   x.choices[c].cost = 0 /\ x.choices[c].bill = NoBill
              /\ x.expiry.bill = NoBill
=============================================================================
