--------------------------- MODULE MCObligations ---------------------------
(***************************************************************************)
(* Instances of Obligations for TLC, of one of two kinds of behaviour.     *)
(* "rounds": two requests at a time and two regenerations, with            *)
(* contributions to the first generation, one pass for overdue occurrences *)
(* and no reminders.  "reminders": one request at a time and one           *)
(* regeneration, with two runs that may crash and no contributions.        *)
(***************************************************************************)
EXTENDS ObligationsProps

CONSTANTS r1, c1  \* the run beside two requests, and the request beside two runs

VARIABLE focus

householdVars == <<focus, obligationsVars>>

HouseholdInit == ObligationsInit /\ focus \in {"rounds", "reminders"}
RoundsWithin ==
    /\ inApp' /\ account' # "deactivated" /\ crashes' = 0
    /\ \A i \in DOMAIN rows' : rows'[i].reminder = "none"
    /\ run'[r1].phase # "remind"
    /\ \A r \in Runs \ {r1} : run'[r] = IdleRun
    /\ contributed' # contributed => Round <= 1
RemindersWithin ==
    /\ Round' <= 2 /\ contributed' = 0
    /\ \A c \in Calls \ {c1} : request'[c] = "none"
Within ==
    /\ focus' = focus
    /\ focus = "rounds" => RoundsWithin
    /\ focus = "reminders" => RemindersWithin
HouseholdNext == ObligationsNext /\ Within
\* FairObligations within these bounds.
HouseholdSpec ==
    /\ HouseholdInit /\ [][HouseholdNext]_householdVars
    /\ WF_householdVars(Tick /\ Within)
    /\ \A c \in Calls : WF_householdVars(EndTx(c) /\ Within)
    /\ \A r \in Runs : SF_householdVars(RunStep(r) /\ Within)
=============================================================================
