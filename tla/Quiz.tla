-------------------------------- MODULE Quiz --------------------------------
(***************************************************************************)
(* QuizService for one user: the daily quiz of each day and the quizzes on *)
(* a topic, the queue of questions, and the settlement of a finished quiz. *)
(*                                                                         *)
(* A submission reads the user before its transaction, reads the session   *)
(* in it without a lock, and then writes by id; now is the time at which   *)
(* the request came in.  raced is a history variable: some submission was  *)
(* committed over a session, or a streak, that it had not seen.            *)
(***************************************************************************)
EXTENDS Integers, Sequences, SequencesExt

CONSTANTS
    Asked,      \* the questions of a session, by its type
    QuizCalls,  \* concurrent HTTP requests
    MaxDay,     \* bound: the last day
    MaxTopics,  \* bound: sessions on the topic
    MaxAnswers  \* bound: submissions

ASSUME QuizConstants ==
    /\ DOMAIN Asked = {"DAILY", "TOPIC"}
    \* A session has questions, each of them once.
    /\ \A t \in DOMAIN Asked : /\ Asked[t] \in Seq(ToSet(Asked[t]))
                               /\ Asked[t] # << >> /\ IsInjective(Asked[t])
    /\ {MaxDay, MaxTopics, MaxAnswers} \subseteq Nat

Days == 0..MaxDay
NoDay == -2  \* lastKnowledgeStreakDate without a value
\* A daily session is unique by user and date; those on the topic are numbered.
Sessions == ({"DAILY"} \X Days) \cup ({"TOPIC"} \X (1..MaxTopics))
Type(s) == s[1]
Questions == UNION {ToSet(Asked[t]) : t \in DOMAIN Asked}

VARIABLES
    today,
    session,  \* QuizSession with its QuizSessionAnswers
    started,  \* submissions so far, which orders answeredAt
    paid,     \* settlements of each session: its coins and XP
    streaks,  \* the knowledge streak of the GamificationProfile
    quizCall,
    raced,    \* history
    doneOn    \* history: the days on which a daily quiz was finished

quizVars == <<today, session, started, paid, streaks, quizCall, raced, doneOn>>

Absent == [status |-> "NONE", answers |-> {}, score |-> 0]
Answer == [q: Questions, right: BOOLEAN, at: 1..MaxAnswers]
Session == [status: {"NONE", "IN_PROGRESS", "COMPLETED"},
            answers: SUBSET Answer, score: Nat]
NoQuizCall == [op |-> "none"]
Reply == [op: {"done"}, ok: BOOLEAN, s: Sessions, seen: Session]
Request == [op: {"create"}, s: Sessions, old: BOOLEAN]
    \cup [op: {"answer"}, s: Sessions, day: Days, a: Answer,
          lastDay: Days \cup {NoDay}, read: BOOLEAN, seen: Session]

QuizTypeOK ==
    /\ today \in Days
    /\ session \in [Sessions -> Session]
    /\ started \in 0..MaxAnswers
    /\ paid \in [Sessions -> Nat]
    /\ streaks \in [streak: Nat, longest: Nat, lastDay: Days \cup {NoDay}]
    /\ streaks.streak <= streaks.longest
    /\ quizCall \in [QuizCalls -> {NoQuizCall} \cup Request \cup Reply]
    /\ raced \in BOOLEAN
    /\ doneOn \subseteq Days

QuizInit ==
    /\ today = 0
    /\ session = [s \in Sessions |-> Absent]
    /\ started = 0
    /\ paid = [s \in Sessions |-> 0]
    /\ streaks = [streak |-> 0, longest |-> 0, lastDay |-> NoDay]
    /\ quizCall = [c \in QuizCalls |-> NoQuizCall]
    /\ raced = FALSE
    /\ doneOn = {}

-----------------------------------------------------------------------------
(* The queue of questions                                                  *)

\* An answer takes its question out of the queue; a wrong one puts it back
\* at the end.  An answer to a question that is not queued counts for nothing.
RequeuedNever(queue, a) == RemoveFirst(queue, a.q)
Requeued(queue, a) ==
    LET rest == RemoveFirst(queue, a.q) IN
    IF a.right \/ a.q \notin ToSet(queue) THEN rest ELSE Append(rest, a.q)

\* The queue after the answers, in the order in which they were given.
Queue(s, answers) ==
    LET given(t) == {a \in answers : a.at = t}
        after[t \in 0..MaxAnswers] ==
            IF t = 0 THEN Asked[Type(s)]
            ELSE IF given(t) = {} THEN after[t - 1]
            ELSE Requeued(after[t - 1], CHOOSE a \in given(t) : TRUE)
    IN after[MaxAnswers]
Right(answers) == {a.q : a \in {b \in answers : b.right}}

-----------------------------------------------------------------------------
(* createOrResumeSession                                                   *)

Latest == IF \E n \in 1..MaxTopics : session[<<"TOPIC", n>>] # Absent
          THEN CHOOSE n \in 1..MaxTopics :
                 /\ session[<<"TOPIC", n>>] # Absent
                 /\ \A k \in n + 1..MaxTopics : session[<<"TOPIC", k>>] = Absent
          ELSE 0

\* findMatchingSession: a session in progress is resumed, a finished daily one
\* refused, and otherwise one is created in a statement of its own.
CreateRead(c, type) ==
    LET s == IF type = "DAILY" THEN <<type, today>> ELSE <<type, Latest>> IN
    /\ quizCall[c] = NoQuizCall
    /\ type = "TOPIC" => Latest < MaxTopics
    /\ (s \in Sessions /\ session[s] # Absent) =>
         type = "TOPIC" /\ session[s].status = "COMPLETED"
    /\ quizCall' = [quizCall EXCEPT ![c] =
         [op |-> "create", old |-> FALSE,
          s |-> IF type = "DAILY" THEN s ELSE <<type, Latest + 1>>]]
    /\ UNCHANGED <<today, session, started, paid, streaks, raced, doneOn>>

\* The second daily session of a day violates the unique key; a second one on
\* the topic is one more session.
CreateCommit(c) ==
    LET s == IF Type(quizCall[c].s) = "DAILY" THEN quizCall[c].s
                                              ELSE <<"TOPIC", Latest + 1>>
    IN
    /\ quizCall[c].op = "create"
    /\ session' = IF s \in Sessions /\ session[s] = Absent
                  THEN [session EXCEPT ![s].status = "IN_PROGRESS"]
                  ELSE session
    /\ quizCall' = [quizCall EXCEPT ![c] = NoQuizCall]
    /\ UNCHANGED <<today, started, paid, streaks, raced, doneOn>>

-----------------------------------------------------------------------------
(* submitAnswer                                                            *)

\* The request comes in, and the user is read with the streaks.
SubmitBegin(c, s, q, right) ==
    /\ quizCall[c] = NoQuizCall
    /\ session[s] # Absent
    /\ started < MaxAnswers
    /\ started' = started + 1
    /\ quizCall' = [quizCall EXCEPT ![c] =
         [op |-> "answer", s |-> s, day |-> today,
          a |-> [q |-> q, right |-> right, at |-> started'],
          lastDay |-> streaks.lastDay, read |-> FALSE, seen |-> Absent]]
    /\ UNCHANGED <<today, session, paid, streaks, raced, doneOn>>

Done(c, ok, s, x) ==
    quizCall' = [quizCall EXCEPT ![c] =
                   [op |-> "done", ok |-> ok, s |-> s, seen |-> x]]

\* Only the question at the head of the queue of a session in progress.
Answerable(s, x, q) ==
    LET queue == Queue(s, x.answers) IN
    x.status = "IN_PROGRESS" /\ queue # << >> /\ q = Head(queue)
SubmitRead(c) ==
    LET k == quizCall[c]  x == session[k.s] IN
    /\ k.op = "answer" /\ ~k.read
    /\ IF Answerable(k.s, x, k.a.q)
       THEN quizCall' = [quizCall EXCEPT ![c].read = TRUE, ![c].seen = x]
       ELSE Done(c, FALSE, k.s, Absent)
    /\ UNCHANGED <<today, session, started, paid, streaks, raced, doneOn>>

\* settleCompletedSession: the streak of a daily quiz goes on from yesterday,
\* starts again after a gap, and stays when it has counted today.
GoesOn(day, lastDay) == lastDay = day - 1
Streak(day, lastDay) ==
    LET next == IF GoesOn(day, lastDay) THEN streaks.streak + 1 ELSE 1 IN
    IF lastDay = day THEN streaks
    ELSE [streak |-> next, lastDay |-> day,
          longest |-> IF next > streaks.longest THEN next ELSE streaks.longest]

SubmitCommit(c) ==
    LET k == quizCall[c]
        s == k.s
        after == k.seen.answers \cup {k.a}
        finished == Queue(s, after) = << >>
        score == k.seen.score + IF k.a.right THEN 1 ELSE 0
        daily == finished /\ Type(s) = "DAILY"
    IN
    /\ k.op = "answer" /\ k.read
    /\ session' = [session EXCEPT
         ![s].answers = @ \cup {k.a},
         ![s].score = score,
         ![s].status = IF finished THEN "COMPLETED" ELSE @]
    /\ paid' = [paid EXCEPT ![s] = @ + IF finished THEN 1 ELSE 0]
    /\ streaks' = IF daily THEN Streak(k.day, k.lastDay) ELSE streaks
    /\ doneOn' = IF daily THEN doneOn \cup {k.day} ELSE doneOn
    /\ raced' = (raced \/ k.seen # session[s]
                       \/ (daily /\ k.lastDay # streaks.lastDay))
    /\ Done(c, TRUE, s, [status |-> IF finished THEN "COMPLETED" ELSE k.seen.status,
                         answers |-> after, score |-> score])
    /\ UNCHANGED <<today, started>>

\* The server stops, or the connection is lost before the request arrives.
Fail(c) ==
    /\ quizCall[c].op \in {"create", "answer"}
    /\ IF quizCall[c].op = "create"
       THEN quizCall' = [quizCall EXCEPT ![c] = NoQuizCall]
       ELSE Done(c, FALSE, quizCall[c].s, Absent)
    /\ UNCHANGED <<today, session, started, paid, streaks, raced, doneOn>>

Midnight ==
    /\ today < MaxDay
    /\ today' = today + 1
    /\ UNCHANGED <<session, started, paid, streaks, quizCall, raced, doneOn>>

QuizServer == Midnight \/ \E c \in QuizCalls :
    \/ \E type \in DOMAIN Asked : CreateRead(c, type)
    \/ CreateCommit(c) \/ SubmitRead(c) \/ SubmitCommit(c)
=============================================================================
