--------------------------- MODULE SimulationMonth ---------------------------
(***************************************************************************)
(* A simulated month as its player sees it, without clocks, holds, locks   *)
(* and requests: bills and surprise events turn up, each is settled once,  *)
(* by the player in time or by the calendar after it, and a month that     *)
(* ends leaves nothing unsettled and is rewarded once.                     *)
(***************************************************************************)
EXTENDS Integers

CONSTANTS Days, Bills, Events, Due, TriggerDay

VARIABLES
    phase,   \* "PLANNED", "OPEN", "COMPLETED" or "ABANDONED"
    day,
    fate,    \* of each bill and event: "AWAY", "OPEN", "DONE" or "LATE"
    prizes   \* rewards for completing the month

vars == <<phase, day, fate, prizes>>

Things == Bills \cup Events
\* The last day on which a thing can be settled by the player.
LastDay(i) == IF i \in Bills THEN Due[i] ELSE TriggerDay[i]

Init == /\ phase = "PLANNED" /\ day = 0 /\ prizes = 0
        /\ \E known \in SUBSET Bills :
             fate = [i \in Things |-> IF i \in known THEN "OPEN" ELSE "AWAY"]

Start == phase = "PLANNED" /\ phase' = "OPEN" /\ UNCHANGED <<day, fate, prizes>>

\* What may become of a thing by day d: nothing new turns up too late to be
\* dealt with, an event happens on its day, and the day does not pass before
\* it is settled.
Fates(i, d) ==
    CASE fate[i] = "AWAY" ->
           IF i \in Bills THEN {"AWAY"} \cup {f \in {"OPEN"} : LastDay(i) >= d}
           ELSE {f \in {"AWAY"} : LastDay(i) >= d} \cup {f \in {"OPEN"} : LastDay(i) = d}
      [] fate[i] = "OPEN" ->
           IF i \in Bills THEN IF LastDay(i) < d THEN {"LATE"} ELSE {"OPEN", "DONE"}
           ELSE {f \in {"OPEN", "DONE", "LATE"} : LastDay(i) = d}
      [] OTHER -> {fate[i]}

\* Days pass, and the player settles one thing at most.
Live == /\ phase = "OPEN"
        /\ \E d \in day..Days :
             /\ day' = d
             /\ fate' \in [Things -> {"AWAY", "OPEN", "DONE", "LATE"}]
             /\ \A i \in Things : fate'[i] \in Fates(i, d)
        /\ \A i, j \in {k \in Things : fate[k] # "DONE" /\ fate'[k] = "DONE"} : i = j
        /\ UNCHANGED <<phase, prizes>>

\* The month closes after its last day: what is open is late.
End == /\ phase = "OPEN" /\ phase' = "COMPLETED" /\ day' = Days
       /\ \A e \in Events : fate[e] \in {"DONE", "LATE"}
       /\ fate' = [i \in Things |-> IF fate[i] = "OPEN" THEN "LATE" ELSE fate[i]]
       /\ prizes' = 1

Abandon == /\ phase \in {"PLANNED", "OPEN"} /\ phase' = "ABANDONED"
           /\ UNCHANGED <<day, fate, prizes>>

Next == Start \/ Live \/ End \/ Abandon
Spec == Init /\ [][Next]_vars
=============================================================================
