----------------------------- MODULE BoardProps -----------------------------
(***************************************************************************)
(* What the board of a simulated month promises the player.                *)
(***************************************************************************)
EXTENDS MonthBoard

\* What the player asks for by pressing a button happens at most once, through
\* every retry of a press that failed, answer that was lost and command that
\* reaches the month late, also in a month that nothing else would protect
\* from a second advance (the kept idempotency keys, and SimulationAction).
DoneAsMeant == \A b \in Buttons : done[b] <= meant[b]

\* A board that shows the month paused does not let it run on: no load answered
\* late shows what the month was before (requestId, which setSimulation of
\* useSimulation increments).  Exceptions, which the code does have: a
\* resumption under way or without an answer, and an answer applied after a
\* later one.
PausedMeansStopped ==
    /\ sees # Nothing
    /\ sees.status = "PAUSED"
    /\ "resume" \notin unsure
    /\ \A c \in Commands : command[c].button # "resume"
    /\ ~overtaken
    => month.status # "ACTIVE"

\* A board does what its player asked for, once, and shows a stopped month only
\* when it is.
BoardIsTrue == DoneAsMeant /\ PausedMeansStopped
=============================================================================
