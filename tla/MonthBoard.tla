----------------------------- MODULE MonthBoard -----------------------------
(***************************************************************************)
(* The board of a simulated month (SimulationBoard with usePauseControls,  *)
(* useExitControls and useSimulation) and the commands it sends.           *)
(*                                                                         *)
(* A press of a button is a command with an idempotency key.  The key is   *)
(* kept until a press succeeds, so that pressing again after a failure     *)
(* asks for the same thing; the service answers a key it has recorded with *)
(* what it answered then.  A command whose answer is lost goes on at the   *)
(* server.  What a command does inside the month is in Simulation: here    *)
(* the month is its status, its day and whether it waits for a new bill to *)
(* be acknowledged, numbered by its changes (a history variable, as are    *)
(* meant, done, told, unsure and overtaken).                             *)
(***************************************************************************)
EXTENDS Integers, FiniteSets

CONSTANTS
    Commands,   \* HTTP requests under way
    FinalDay,
    NewDay,     \* the day on which a bill turns up
    TimedModes, \* bound: the values of timedMode to explore
    MaxKeys,    \* bound: keys drawn
    MaxReads,   \* bound: the requestId of one board
    MaxBoards,  \* bound: boards opened
    Nothing

ASSUME BoardConstants ==
    /\ {FinalDay, NewDay, MaxKeys, MaxReads, MaxBoards} \subseteq Nat
    /\ TimedModes \subseteq BOOLEAN

VARIABLES
    month, timedMode,
    actions,      \* SimulationAction: the answer recorded under each key
    command,      \* each request: its button, its key, and how far it is
    sees,         \* the simulation the board has, or Nothing
    boards,       \* boards opened, and whether one is
    keptKey,      \* pauseKeyRef, resumeKeyRef, acknowledgeKeyRef, ...
    keys,
    reads,        \* refetches under way
    lastRead,     \* requestId.current
    meant, done,  \* by button: things asked for, and commands recorded
    told,         \* the number of the month in the last answer to a command
    unsure,       \* the buttons with a command whose answer never came
    overtaken   \* an answer was older than one that came before it

boardVars == <<month, timedMode, actions, command, sees, boards, keptKey, keys,
               reads, lastRead, meant, done, told, unsure, overtaken>>
historyVars == <<meant, done, told, unsure, overtaken>>

Buttons == {"pause", "save", "resume", "continue", "advance", "discard"}
Keys == 1..MaxKeys
NoCommand == [button |-> "none", key |-> 0, step |-> "none", live |-> FALSE,
              reply |-> Nothing]
Months == [status: {"ACTIVE", "PAUSED", "COMPLETED", "ABANDONED"},
           hold: {"NONE", "NEW_OBLIGATION", "SUMMARY"}, day: 0..FinalDay, at: Nat]
Seen == Months \cup {Nothing}
Command == [button: Buttons \cup {"none"}, key: Keys \cup {0}, live: BOOLEAN,
            step: {"none", "sent", "looked", "checked", "ok", "refused"}, reply: Seen]

ASSUME NothingIsNoMonth == Nothing \notin Months

BoardTypeOK ==
    /\ month \in Months /\ timedMode \in BOOLEAN
    /\ actions \in [Keys -> Seen]
    /\ command \in [Commands -> Command]
    /\ sees \in Seen
    /\ boards \in [opened: 0..MaxBoards, open: BOOLEAN]
    /\ keptKey \in [Buttons -> Keys \cup {0}]
    /\ keys \in 0..MaxKeys
    /\ lastRead \in Nat
    /\ reads \subseteq [id: 1..lastRead, read: BOOLEAN, got: Seen]
    /\ {meant, done} \subseteq [Buttons -> Nat] /\ told \in Nat
    /\ unsure \subseteq Buttons /\ overtaken \in BOOLEAN

BoardInit ==
    /\ month = [status |-> "ACTIVE", hold |-> "NONE", day |-> 0, at |-> 0]
    /\ timedMode \in TimedModes
    /\ actions = [k \in Keys |-> Nothing]
    /\ command = [c \in Commands |-> NoCommand]
    /\ sees = Nothing
    /\ boards = [opened |-> 0, open |-> FALSE]
    /\ keptKey = [b \in Buttons |-> 0]
    /\ keys = 0
    /\ reads = {}
    /\ lastRead = 0
    /\ meant = [b \in Buttons |-> 0]
    /\ done = meant
    /\ told = 0
    /\ unsure = {}
    /\ overtaken = FALSE

-----------------------------------------------------------------------------
(* The month                                                               *)

Changed(m, status, hold, day) ==
    [status |-> status, hold |-> hold, day |-> day, at |-> m.at + 1]
DayAfter(m) ==
    IF m.day >= FinalDay THEN Changed(m, "COMPLETED", "SUMMARY", m.day)
    ELSE Changed(m, "ACTIVE", IF m.day + 1 = NewDay THEN "NEW_OBLIGATION" ELSE "NONE",
                 m.day + 1)
\* resolveDueTransitions: whether a day of a timed month is over is left open.
DayMayEnd(m) == {m} \cup {n \in {DayAfter(m)} :
                      timedMode /\ m.status = "ACTIVE" /\ m.hold = "NONE"}

\* The assertions of the commands; what waits for the player can be paused.
Allowed(b, m) ==
    CASE b \in {"pause", "save"} -> m.status = "ACTIVE"
      [] b = "resume" -> m.status = "PAUSED"
      [] b = "continue" -> m.status = "ACTIVE" /\ m.hold = "NEW_OBLIGATION"
      [] b = "advance" -> ~timedMode /\ m.status = "ACTIVE" /\ m.hold = "NONE"
      [] b = "discard" -> m.status \in {"ACTIVE", "PAUSED"}
Effect(b, m) ==
    CASE b \in {"pause", "save"} -> Changed(m, "PAUSED", m.hold, m.day)
      [] b = "resume" -> Changed(m, "ACTIVE", m.hold, m.day)
      [] b = "continue" -> Changed(m, "ACTIVE", "NONE", m.day)
      [] b = "discard" -> Changed(m, "ABANDONED", m.hold, m.day)
      [] b = "advance" -> IF m.status = "ACTIVE" /\ m.hold = "NONE"
                          THEN DayAfter(m) ELSE m

-----------------------------------------------------------------------------
(* The service                                                             *)

\* Pausing locks the session before it asserts anything.
LocksFirst == {"pause", "save"}
Respond(c, step, reply) ==
    command' = [command EXCEPT ![c].step = step, ![c].reply = reply]

\* findStatusAction, findContinueAction, findAdvanceAction before anything else.
LookUp(c) ==
    LET known == actions[command[c].key] IN
    /\ command[c].step = "sent"
    /\ IF known # Nothing THEN Respond(c, "ok", known)
                          ELSE Respond(c, "looked", Nothing)
    /\ UNCHANGED <<month, timedMode, actions, sees, boards, keptKey, keys, reads,
                   lastRead, historyVars>>

\* assertResumeAllowed and the like, on a session read without a lock.
CheckCommand(c) ==
    /\ command[c].step = "looked" /\ command[c].button \notin LocksFirst
    /\ Respond(c, IF Allowed(command[c].button, month) THEN "checked" ELSE "refused",
              Nothing)
    /\ UNCHANGED <<month, timedMode, actions, sees, boards, keptKey, keys, reads,
                   lastRead, historyVars>>

\* The action is recorded with the change; a key that was recorded meanwhile
\* rolls the change back and is answered as a replay.
Recorded(k) == actions[k] # Nothing
CommitCommand(c, m) ==
    LET b == command[c].button
        k == command[c].key
    IN IF Recorded(k)
       THEN /\ Respond(c, "ok", actions[k])
            /\ UNCHANGED <<month, actions, done>>
       ELSE /\ month' = Effect(b, m)
            /\ actions' = [actions EXCEPT ![k] = month']
            /\ done' = [done EXCEPT ![b] = @ + 1]
            /\ Respond(c, "ok", month')
Deny(c) == Respond(c, "refused", Nothing) /\ UNCHANGED <<month, actions, done>>

\* pauseSession: a refusal takes back the transition it began with.
PauseOrSave(c) ==
    LET b == command[c].button IN
    /\ command[c].step = "looked" /\ b \in LocksFirst
    /\ \E m \in DayMayEnd(month) : IF Allowed(b, m) THEN CommitCommand(c, m) ELSE Deny(c)
    /\ UNCHANGED <<timedMode, sees, boards, keptKey, keys, reads, lastRead,
                   meant, told, unsure, overtaken>>

\* resumeSession, continueSession, discardSession: a conditional update that
\* matches no row looks for the action again.  advanceSession has none.
UpdateMonth(c) ==
    LET b == command[c].button IN
    /\ command[c].step = "checked"
    /\ IF b = "advance" \/ Allowed(b, month) \/ Recorded(command[c].key)
       THEN CommitCommand(c, month) ELSE Deny(c)
    /\ UNCHANGED <<timedMode, sees, boards, keptKey, keys, reads, lastRead,
                   meant, told, unsure, overtaken>>

\* The request never arrives or the service stops; nobody waits for it.
Vanish(c) ==
    /\ command[c] # NoCommand /\ ~command[c].live
    /\ command' = [command EXCEPT ![c] = NoCommand]
    /\ UNCHANGED <<month, timedMode, actions, sees, boards, keptKey, keys, reads,
                   lastRead, historyVars>>

-----------------------------------------------------------------------------
(* The buttons                                                             *)

Offered(b) ==
    /\ sees # Nothing
    /\ IF b = "discard" THEN TRUE ELSE Allowed(b, sees)
KeyFor(b) == IF keptKey[b] # 0 THEN keptKey[b] ELSE keys + 1

Press(c, b) ==
    LET k == KeyFor(b) IN
    /\ command[c] = NoCommand
    /\ Offered(b)
    /\ \A d \in Commands : ~(command[d].live /\ command[d].button = b)
    /\ k \in Keys
    /\ command' = [command EXCEPT ![c] =
         [button |-> b, key |-> k, step |-> "sent", live |-> TRUE, reply |-> Nothing]]
    /\ keptKey' = [keptKey EXCEPT ![b] = k]
    /\ keys' = IF k > keys THEN k ELSE keys
    /\ meant' = [meant EXCEPT ![b] = @ + IF keptKey[b] = 0 THEN 1 ELSE 0]
    /\ UNCHANGED <<month, timedMode, actions, sees, boards, reads, lastRead,
                   done, told, unsure, overtaken>>

\* The board goes away: nobody waits for what it asked, and its keys are lost.
Close(commands) ==
    /\ sees' = Nothing
    /\ boards' = [boards EXCEPT !.open = FALSE]
    /\ keptKey' = [b \in Buttons |-> 0]
    /\ reads' = {}
    /\ lastRead' = 0
    /\ command' = [c \in Commands |-> [commands[c] EXCEPT !.live = FALSE]]
    /\ unsure' = unsure \cup {commands[c].button : c \in {d \in Commands : commands[d].live}}

\* setSimulation: a refetch under way is not applied any more.
BumpNever(n) == n
Bump(n) == n + 1
TakeResult(c) ==
    LET x == command[c]
        others == [command EXCEPT ![c] = NoCommand]
    IN
    /\ x.live /\ x.step = "ok"
    /\ IF x.button \in {"save", "discard"}
       THEN Close(others)
       ELSE /\ command' = others
            /\ sees' = x.reply
            /\ lastRead' = Bump(lastRead)
            /\ keptKey' = [keptKey EXCEPT ![x.button] = 0]
            /\ UNCHANGED <<boards, reads, unsure>>
    /\ told' = IF x.reply.at > told THEN x.reply.at ELSE told
    /\ overtaken' = (overtaken \/ x.reply.at < told)
    /\ UNCHANGED <<month, timedMode, actions, keys, meant, done>>

\* An error is shown and the key kept; a refused discard ends the visit.
TakeRefusal(c) ==
    LET others == [command EXCEPT ![c] = NoCommand] IN
    /\ command[c].live /\ command[c].step = "refused"
    /\ \/ /\ command[c].button = "discard"
          /\ Close(others)
       \/ /\ command' = others
          /\ UNCHANGED <<sees, boards, keptKey, reads, lastRead, unsure>>
    /\ UNCHANGED <<month, timedMode, actions, keys, meant, done, told, overtaken>>

\* The request times out, or its answer is lost: an error is shown.
GiveUp(c) ==
    /\ command[c].live
    /\ command' = [command EXCEPT ![c].live = FALSE]
    /\ unsure' = unsure \cup {command[c].button}
    /\ UNCHANGED <<month, timedMode, actions, sees, boards, keptKey, keys, reads,
                   lastRead, meant, done, told, overtaken>>

-----------------------------------------------------------------------------
(* Refetches                                                               *)

NewRead(n) == [id |-> n, read |-> FALSE, got |-> Nothing]
OpenBoard ==
    /\ ~boards.open /\ boards.opened < MaxBoards
    /\ boards' = [opened |-> boards.opened + 1, open |-> TRUE]
    /\ reads' = {NewRead(1)}
    /\ lastRead' = 1
    /\ UNCHANGED <<month, timedMode, actions, command, sees, keptKey, keys, historyVars>>

LeaveBoard ==
    /\ boards.open
    /\ Close(command)
    /\ UNCHANGED <<month, timedMode, actions, keys, meant, done, told, overtaken>>

\* shouldPoll; without a simulation there is a button.
Refetches == IF sees = Nothing THEN reads = {}
             ELSE timedMode /\ sees.status = "ACTIVE" /\ sees.hold = "NONE"
Refetch ==
    /\ boards.open /\ Refetches /\ lastRead < MaxReads
    /\ reads' = reads \cup {NewRead(lastRead + 1)}
    /\ lastRead' = lastRead + 1
    /\ UNCHANGED <<month, timedMode, actions, command, sees, boards, keptKey, keys,
                   historyVars>>

\* getSession, which begins with the transitions that are due.
ServeRead(r) ==
    /\ r \in reads /\ ~r.read
    /\ month' \in DayMayEnd(month)
    /\ reads' = (reads \ {r}) \cup {[r EXCEPT !.read = TRUE, !.got = month']}
    /\ UNCHANGED <<timedMode, actions, command, sees, boards, keptKey, keys,
                   lastRead, historyVars>>
ApplyRead(r) ==
    /\ r \in reads /\ r.read
    /\ reads' = reads \ {r}
    /\ sees' = IF r.id = lastRead THEN r.got ELSE sees
    /\ UNCHANGED <<month, timedMode, actions, command, boards, keptKey, keys,
                   lastRead, historyVars>>
ReadFails(r) ==
    /\ r \in reads
    /\ reads' = reads \ {r}
    /\ UNCHANGED <<month, timedMode, actions, command, sees, boards, keptKey, keys,
                   lastRead, historyVars>>

-----------------------------------------------------------------------------
BoardNext ==
    \/ OpenBoard \/ LeaveBoard \/ Refetch
    \/ \E r \in reads : ServeRead(r) \/ ApplyRead(r) \/ ReadFails(r)
    \/ \E c \in Commands :
         \/ \E b \in Buttons : Press(c, b)
         \/ LookUp(c) \/ CheckCommand(c) \/ PauseOrSave(c) \/ UpdateMonth(c) \/ Vanish(c)
         \/ TakeResult(c) \/ TakeRefusal(c) \/ GiveUp(c)
BoardSpec == BoardInit /\ [][BoardNext]_boardVars
=============================================================================
