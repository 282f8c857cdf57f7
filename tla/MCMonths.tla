------------------------------ MODULE MCMonths ------------------------------
(***************************************************************************)
(* Instances for TLC of how a month is drawn (Scenario), of a simulated    *)
(* month (Simulation) and of the board that sends it commands              *)
(* (MonthBoard), which sees less of the month.  A behaviour is one of one  *)
(* of them and the others stay as they begin.                              *)
(***************************************************************************)
EXTENDS MCSimulation, BoardProps, Scenario

VARIABLE shows

monthsVars == <<shows, vars, boardVars, scenario>>

MonthsInit ==
    /\ shows \in {"scenario", "month", "board"}
    /\ Init /\ BoardInit /\ ScenarioInit
    /\ shows # "board" => ~timedMode
    /\ shows # "month" => ~session.timed
    /\ shows # "scenario" => scenario.inactive = {}
ScenarioStep ==
    shows = "scenario" /\ ScenarioNext /\ UNCHANGED <<shows, vars, boardVars>>
MonthStep == shows = "month" /\ Next /\ UNCHANGED <<shows, boardVars, scenario>>
BoardStep == shows = "board" /\ BoardNext /\ UNCHANGED <<shows, vars, scenario>>
MonthsNext == ScenarioStep \/ MonthStep \/ BoardStep
MonthsSpec == MonthsInit /\ [][MonthsNext]_monthsVars

MonthsTypeOK == TypeOK /\ BoardTypeOK /\ ScenarioTypeOK
=============================================================================
