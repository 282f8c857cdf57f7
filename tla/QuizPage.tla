------------------------------ MODULE QuizPage ------------------------------
(***************************************************************************)
(* The page on which a quiz is answered, QuizQuestionPage over             *)
(* useQuizSession, and the service of Quiz behind it.                      *)
(*                                                                         *)
(* Opening the page loads its session.  An answer is sent for the question *)
(* shown, and once the reply is there the page pauses and goes on to the   *)
(* question the reply names, or to the results.  Leaving the page forgets  *)
(* what is under way; the server does not.                                 *)
(***************************************************************************)
EXTENDS Quiz

CONSTANTS
    NoOne,     \* no call, no question and no page
    MaxOpened  \* bound: pages opened

Views == [q: Questions \cup {NoOne}, status: {"NONE", "IN_PROGRESS", "COMPLETED"}]

ASSUME PageConstants ==
    /\ MaxOpened \in Nat
    /\ NoOne \notin QuizCalls \cup Sessions \cup Questions \cup Views

VARIABLES
    page,      \* the session whose page is open
    opened,
    resumed,      \* resumeSession: under way (NotLoaded), or what the server answered
    shown,     \* the session as the page knows it
    pending,   \* the submission whose answer the page waits for
    toast      \* the reply during the pause that follows it

pageVars == <<page, opened, resumed, shown, pending, toast>>
playVars == <<quizVars, pageVars>>

NextQuestion(s, x) == LET queue == Queue(s, x.answers) IN
                      IF queue = << >> THEN NoOne ELSE Head(queue)
\* toSessionResponse, and the reply to a submission.
View(s, x) == [q |-> NextQuestion(s, x), status |-> x.status]
NotLoaded == [q |-> NoOne, status |-> "NONE"]

PageTypeOK ==
    /\ QuizTypeOK
    /\ page \in Sessions \cup {NoOne}
    /\ opened \in 0..MaxOpened
    /\ resumed \in Views \cup {NoOne}
    /\ shown \in Views
    /\ pending \in QuizCalls \cup {NoOne}
    /\ toast \in Views \cup {NoOne}

PlayInit ==
    /\ QuizInit
    /\ page = NoOne
    /\ opened = 0
    /\ resumed = NoOne
    /\ shown = NotLoaded
    /\ pending = NoOne
    /\ toast = NoOne

-----------------------------------------------------------------------------
Open(s) ==
    /\ page = NoOne /\ opened < MaxOpened
    /\ session[s] # Absent
    /\ page' = s
    /\ opened' = opened + 1
    /\ resumed' = NotLoaded
    /\ UNCHANGED <<quizVars, shown, pending, toast>>

\* getSession.
ServeLoad ==
    /\ resumed = NotLoaded
    /\ resumed' = View(page, session[page])
    /\ UNCHANGED <<quizVars, page, opened, shown, pending, toast>>
TakeLoad ==
    /\ resumed \notin {NoOne, NotLoaded}
    /\ shown' = resumed
    /\ resumed' = NoOne
    /\ UNCHANGED <<quizVars, page, opened, pending, toast>>
ResumeFails ==
    /\ resumed # NoOne
    /\ resumed' = NoOne
    /\ UNCHANGED <<quizVars, page, opened, shown, pending, toast>>
\* The buttons of the error cards: nothing could be loaded, or no question is
\* left in a session that is not finished.
Retry ==
    /\ page # NoOne /\ resumed = NoOne /\ pending = NoOne /\ toast = NoOne
    /\ shown.q = NoOne /\ shown.status # "COMPLETED"
    /\ resumed' = NotLoaded
    /\ UNCHANGED <<quizVars, page, opened, shown, pending, toast>>

\* handleSubmit: not while an answer is on its way or a reply is shown.
Submit(c, right) ==
    /\ page # NoOne /\ resumed = NoOne /\ pending = NoOne /\ toast = NoOne
    /\ shown.q # NoOne /\ shown.status = "IN_PROGRESS"
    /\ SubmitBegin(c, page, shown.q, right)
    /\ pending' = c
    /\ UNCHANGED <<page, opened, resumed, shown, toast>>

\* answerQuestion returns: feedback is shown for a while, or an error, and the
\* same question can be answered again.
TakeReply(c) ==
    LET k == quizCall[c] IN
    /\ pending = c /\ k.op = "done"
    /\ pending' = NoOne
    /\ toast' = IF k.ok THEN View(k.s, k.seen) ELSE NoOne
    /\ quizCall' = [quizCall EXCEPT ![c] = NoQuizCall]
    /\ UNCHANGED <<today, session, started, paid, streaks, raced, doneOn>>
    /\ UNCHANGED <<page, opened, resumed, shown>>

\* The pause ends by its timer, or by the button of the guide.
Advance ==
    /\ toast # NoOne
    /\ toast' = NoOne
    /\ shown' = toast
    /\ UNCHANGED <<quizVars, page, opened, resumed, pending>>

LeavePage ==
    /\ page # NoOne
    /\ page' = NoOne
    /\ resumed' = NoOne
    /\ shown' = NotLoaded
    /\ pending' = NoOne
    /\ toast' = NoOne
    /\ UNCHANGED <<quizVars, opened>>

\* The answer to a request nobody waits for.
Forget(c) ==
    /\ quizCall[c].op = "done" /\ pending # c
    /\ quizCall' = [quizCall EXCEPT ![c] = NoQuizCall]
    /\ UNCHANGED <<today, session, started, paid, streaks, raced, doneOn>>
    /\ UNCHANGED pageVars

Serve == QuizServer /\ UNCHANGED pageVars
LoseCall(c) == Fail(c) /\ UNCHANGED pageVars

PlayNext ==
    \/ Serve
    \/ \E s \in Sessions : Open(s)
    \/ ServeLoad \/ TakeLoad \/ ResumeFails \/ Retry \/ Advance \/ LeavePage
    \/ \E c \in QuizCalls : TakeReply(c) \/ Forget(c) \/ LoseCall(c)
                        \/ \E right \in BOOLEAN : Submit(c, right)
PlaySpec == PlayInit /\ [][PlayNext]_playVars
=============================================================================
