-------------------------- MODULE ObligationsProps --------------------------
(***************************************************************************)
(* What a schedule and its reminders promise the user.                     *)
(***************************************************************************)
EXTENDS Obligations

\* The regeneration that made row j had looked for what is open, and would read
\* the highest number no more, before row i was there.
Overlooked(i, j) == rows[j].after < rows[i].round /\ rows[i].round < rows[j].round

\* However regenerations, archives, payments and passes overlap, each closes what
\* it could see: what is open is of the last generation or one that overlapped
\* it, and later than what an archive could see; a number is given twice only by
\* two that overlapped; and of two that overlapped one has set nothing of the
\* obligation, and therefore locked nothing (update, archive).  Exception, as the
\* code has it: a pass opens a row that was cancelled after it was listed.
EachRoundClosesTheLast ==
    /\ ~stray => \A i \in Rows : rows[i].status \in Open =>
         /\ rows[i].round = Round \/ Overlooked(i, Len(rows))
         /\ bill = "archived" => rows[i].round > closed
    /\ \A i, j \in Rows : i # j /\ rows[i].seq = rows[j].seq =>
         Overlooked(i, j) \/ Overlooked(j, i)
    /\ \A i, j \in Rows : Overlooked(i, j) => ~(rows[i].locked /\ rows[j].locked)

\* A reminder is sent at its time, in one notification or none if they are off,
\* and after a crash neither again nor never: a second notification takes two
\* runs that overlap (processDueReminders).
RemindedOnce == \A i \in Rows :
    /\ rows[i].told > 0 => rows[i].reminder = "SENT" /\ rows[i].due - 1 <= today
    /\ ~doubled => rows[i].told <= 1

\* Every reminder that is due is sent while the account exists, although runs
\* crash, overlap, or stop at a row that is gone (runAll, processDueReminders).
RemindersGoOut ==
    (\E i \in DueReminders : TRUE) ~> (DueReminders = {})
=============================================================================
