----------------------------- MODULE QuizProps ------------------------------
(***************************************************************************)
(* What a quiz promises the user who answers it.                           *)
(***************************************************************************)
EXTENDS QuizPage

\* A quiz is finished only when each of its questions was answered rightly,
\* whatever was requeued, answered twice at once or by a page that was left;
\* it stays finished for every submission still under way, it is paid, and a
\* page that says so is right (getNextQuestionId, submitAnswer).
FinishedQuizIsRight ==
    /\ \A s \in Sessions : session[s].status = "COMPLETED" =>
         /\ Right(session[s].answers) = ToSet(Asked[Type(s)])
         /\ paid[s] > 0
    /\ "COMPLETED" \in {shown.status} \cup (IF toast = NoOne THEN {} ELSE {toast.status})
         => session[page].status = "COMPLETED"

\* A quiz is settled once, counts each right answer once and always has a
\* question left until it is finished, after any sequence of wrong answers,
\* lost replies, retries and pages left: only a submission committed over one
\* it had not seen can break that (settleCompletedSession).
QuizSettledOnce == ~raced => \A s \in Sessions :
    LET x == session[s] IN
    /\ paid[s] = IF x.status = "COMPLETED" THEN 1 ELSE 0
    /\ x.score = Cardinality(Right(x.answers))
    /\ x.status = "IN_PROGRESS" => Queue(s, x.answers) # << >>

\* The knowledge streak counts the days in a row, up to the last one, on which
\* a daily quiz was finished, also one of an earlier day that was finished
\* after midnight and one of two finished on one day.
StreakFollowsDays == ~raced =>
    /\ doneOn # {} => \A d \in doneOn : d <= streaks.lastDay
    /\ streaks.lastDay \in doneOn \cup {NoDay}
    /\ {d \in Days : /\ d <= streaks.lastDay
                     /\ d > streaks.lastDay - streaks.streak} \subseteq doneOn
    /\ streaks.lastDay - streaks.streak \notin doneOn

\* A quiz ends rightly, is settled once and counts for its day, through all of
\* that.
QuizIsFair == FinishedQuizIsRight /\ QuizSettledOnce /\ StreakFollowsDays
=============================================================================
