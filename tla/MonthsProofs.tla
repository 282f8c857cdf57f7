---------------------------- MODULE MonthsProofs ----------------------------
(***************************************************************************)
(* Proofs about simulated months.                                          *)
(*                                                                         *)
(* The board, for any number of days, commands, keys, loads and boards: a  *)
(* command is done as often as it was meant, and a board that shows a      *)
(* stopped month is right.                                                 *)
(*                                                                         *)
(* The session, for any bills, events, budget, clocks and requests: every  *)
(* transition and request, the catching up of a board that has slept       *)
(* included, leaves a sound session, in which one question is asked at a   *)
(* time and points and money add up, and is a step of the month; while no  *)
(* two resumes overlap, the clocks follow what the board holds for, and    *)
(* while no advance is stale, no day goes by behind a result.              *)
(*                                                                         *)
(* The drawing of a month, for any budgets, days and inactive templates:   *)
(* the seeded catalogue makes a month, which can be played and paid for.   *)
(***************************************************************************)
EXTENDS MCMonths, SumTheorems, TLAPS

-----------------------------------------------------------------------------
(* The board: the inductive invariant                                      *)

\* There is a command, or nothing is there; one that nobody waits for any more is
\* among those whose outcome the board does not know.
CommandsAre == \A c \in Commands :
    /\ command[c].button = "none" => ~command[c].live /\ command[c].step = "none"
    /\ command[c].button # "none" /\ ~command[c].live => command[c].button \in unsure
    /\ command[c].live /\ command[c].step = "ok" => command[c].reply # Nothing

\* Each key was drawn for one button, and what was meant and done is counted by
\* the keys drawn and recorded for it.
Meant(own, b) == {k \in Keys : own[k] = b}
Done(own, b) == {k \in Keys : own[k] = b /\ Recorded(k)}
Owned(own) ==
    /\ \A k \in Keys : own[k] = "none" <=> k > keys
    /\ \A k \in Keys : Recorded(k) => own[k] # "none"
    /\ \A c \in Commands : command[c].button # "none" =>
         command[c].key \in Keys /\ own[command[c].key] = command[c].button
    /\ \A b \in Buttons : keptKey[b] # 0 => own[keptKey[b]] = b
    /\ \A b \in Buttons : meant[b] = Cardinality(Meant(own, b))
                          /\ done[b] = Cardinality(Done(own, b))
KeysOwned == \E own \in [Keys -> Buttons \cup {"none"}] : Owned(own)

\* What was seen of the month is not newer than it, and a month that was paused
\* and runs was resumed since: by a command that goes on, that was answered, or
\* whose answer never came.
ResumedBy(c, n) == /\ command[c].button = "resume" /\ command[c].step = "ok"
                   /\ command[c].reply # Nothing /\ command[c].reply.at > n
Resumed(n) == "resume" \in unsure \/ told > n \/ \E c \in Commands : ResumedBy(c, n)
Past(s) == /\ s.at <= month.at
           /\ s.status = "PAUSED" /\ month.status = "ACTIVE" => Resumed(s.at)
Snapshots == {s \in Months :
    \/ s = sees
    \/ \E k \in Keys : s = actions[k]
    \/ \E c \in Commands : s = command[c].reply
    \/ \E r \in reads : s = r.got}
SnapshotsPast == (\A s \in Snapshots : Past(s)) /\ told <= month.at

\* The board shows the latest it was told, or what it read since.
ShowsTold == sees # Nothing /\ ~overtaken => told <= sees.at
ReadsSince == \A r \in reads : r.id = lastRead /\ r.read =>
    r.got # Nothing /\ told <= r.got.at

BoardSafe == BoardTypeOK /\ CommandsAre /\ KeysOwned /\ SnapshotsPast /\ ShowsTold /\ ReadsSince

-----------------------------------------------------------------------------
(* Months and commands                                                     *)

\* The parts of a month.
LEMMA MonthIs ==
  ASSUME NEW m \in Months
  PROVE  /\ m.status \in {"ACTIVE", "PAUSED", "COMPLETED", "ABANDONED"}
         /\ m.hold \in {"NONE", "NEW_OBLIGATION", "SUMMARY"}
         /\ m.day \in 0..FinalDay /\ m.at \in Nat /\ m # Nothing
BY NothingIsNoMonth DEF Months

\* A day that passes is a change of the month, which is numbered.
LEMMA DayAfterIs ==
  ASSUME NEW m \in Months
  PROVE  DayAfter(m) \in Months /\ DayAfter(m).at = m.at + 1
<1>1. /\ m.day \in 0..FinalDay /\ FinalDay \in Nat
      /\ (IF m.day + 1 = NewDay THEN "NEW_OBLIGATION" ELSE "NONE")
           \in {"NONE", "NEW_OBLIGATION", "SUMMARY"}
  BY MonthIs, BoardConstants
<1>2. CASE m.day >= FinalDay
  BY <1>1, <1>2, MonthIs DEF DayAfter, Changed, Months
<1>3. CASE ~(m.day >= FinalDay)
  <2>1. m.day + 1 \in 0..FinalDay
    BY <1>1, <1>3
  <2> QED BY <1>1, <1>3, <2>1, MonthIs DEF DayAfter, Changed, Months
<1> QED BY <1>2, <1>3

\* So is a day that may pass.
LEMMA DayMayEndIs ==
  ASSUME NEW m \in Months, NEW n \in DayMayEnd(m)
  PROVE  n \in Months /\ n.at >= m.at /\ (n.status = "ACTIVE" => m.status = "ACTIVE")
BY MonthIs, DayAfterIs DEF DayMayEnd

\* A command makes the month run only if it ran before, or resumes it.
LEMMA EffectIs ==
  ASSUME NEW m \in Months, NEW b \in Buttons, b = "advance" \/ Allowed(b, m)
  PROVE  /\ Effect(b, m) \in Months /\ Effect(b, m).at >= m.at
         /\ b = "resume" => Effect(b, m).at > m.at
         /\ b # "resume" /\ Effect(b, m).status = "ACTIVE" => m.status = "ACTIVE"
<1>1. /\ m.status \in {"ACTIVE", "PAUSED", "COMPLETED", "ABANDONED"} /\ m.at \in Nat
      /\ m.hold \in {"NONE", "NEW_OBLIGATION", "SUMMARY"} /\ m.day \in 0..FinalDay
  BY MonthIs
<1>2. CASE b \in {"pause", "save"}
  <2>1. /\ Effect(b, m) = [status |-> "PAUSED", hold |-> m.hold, day |-> m.day, at |-> m.at + 1]
        /\ b # "resume"
    BY <1>2 DEF Effect, Changed
  <2> QED BY <1>1, <2>1 DEF Months
<1>3. CASE b = "resume"
  <2>1. Effect(b, m) = [status |-> "ACTIVE", hold |-> m.hold, day |-> m.day, at |-> m.at + 1]
    BY <1>3 DEF Effect, Changed
  <2> QED BY <1>1, <1>3, <2>1 DEF Months
<1>4. CASE b = "continue"
  <2>1. m.status = "ACTIVE"
    BY <1>4 DEF Allowed
  <2>2. Effect(b, m) = [status |-> "ACTIVE", hold |-> "NONE", day |-> m.day, at |-> m.at + 1]
    BY <1>4 DEF Effect, Changed
  <2> QED BY <1>1, <1>4, <2>1, <2>2 DEF Months
<1>5. CASE b = "discard"
  <2>1. Effect(b, m) = [status |-> "ABANDONED", hold |-> m.hold, day |-> m.day, at |-> m.at + 1]
    BY <1>5 DEF Effect, Changed
  <2> QED BY <1>1, <1>5, <2>1 DEF Months
<1>6. CASE b = "advance"
  BY <1>1, <1>6, DayAfterIs DEF Effect
<1> QED BY <1>2, <1>3, <1>4, <1>5, <1>6 DEF Buttons

\* Other commands stay as they are.
Others(c) == \A d \in Commands \ {c} : command'[d] = command[d]

\* What the service does with a command leaves its button and its key.
LEMMA RespondIs ==
  ASSUME BoardTypeOK, NEW c \in Commands, NEW step \in {"looked", "checked", "ok", "refused"},
         NEW reply \in Seen, Respond(c, step, reply)
  PROVE  /\ command' \in [Commands -> Command] /\ Others(c)
         /\ command'[c].button = command[c].button /\ command'[c].key = command[c].key
         /\ command'[c].live = command[c].live
         /\ command'[c].step = step /\ command'[c].reply = reply
<1> DEFINE x == [command[c] EXCEPT !.step = step, !.reply = reply]
<1>1. command \in [Commands -> Command]
  BY DEF BoardTypeOK
<1>2. /\ x \in Command /\ x.button = command[c].button /\ x.key = command[c].key
      /\ x.live = command[c].live /\ x.step = step /\ x.reply = reply
  BY <1>1 DEF Command
<1>3. command' = [command EXCEPT ![c] = x]
  BY <1>1 DEF Respond, Command
<1> HIDE DEF x
<1> QED BY <1>1, <1>2, <1>3 DEF Others

\* No command: nobody waits for it.
LEMMA NoCommandIs ==
  NoCommand \in Command /\ NoCommand.button = "none" /\ ~NoCommand.live
  /\ NoCommand.step = "none" /\ NoCommand.reply = Nothing
BY DEF NoCommand, Command, Seen

\* The parts of a command.
LEMMA CommandIs ==
  ASSUME BoardTypeOK, NEW c \in Commands
  PROVE  /\ command[c].button \in Buttons \cup {"none"} /\ command[c].key \in Keys \cup {0}
         /\ command[c].live \in BOOLEAN /\ command[c].reply \in Seen
         /\ command[c].step \in {"none", "sent", "looked", "checked", "ok", "refused"}
BY DEF BoardTypeOK, Command

\* A board that goes away: its commands go on without it.
LEMMA CloseIs ==
  ASSUME NEW commands \in [Commands -> Command], Close(commands)
  PROVE  /\ command' \in [Commands -> Command]
         /\ \A d \in Commands :
              /\ command'[d].button = commands[d].button /\ command'[d].key = commands[d].key
              /\ command'[d].step = commands[d].step /\ command'[d].reply = commands[d].reply
              /\ ~command'[d].live
              /\ commands[d].live => commands[d].button \in unsure'
         /\ unsure \subseteq unsure'
         /\ sees' = Nothing /\ reads' = {} /\ lastRead' = 0
         /\ boards' = [boards EXCEPT !.open = FALSE] /\ keptKey' = [b \in Buttons |-> 0]
<1>1. \A d \in Commands : LET y == [commands[d] EXCEPT !.live = FALSE] IN
        /\ y \in Command /\ y.button = commands[d].button /\ y.key = commands[d].key
        /\ y.step = commands[d].step /\ y.reply = commands[d].reply /\ ~y.live
  BY DEF Command
<1>2. /\ command' = [c \in Commands |-> [commands[c] EXCEPT !.live = FALSE]]
      /\ unsure' = unsure \cup {commands[c].button : c \in {d \in Commands : commands[d].live}}
      /\ sees' = Nothing /\ reads' = {} /\ lastRead' = 0
      /\ boards' = [boards EXCEPT !.open = FALSE] /\ keptKey' = [b \in Buttons |-> 0]
  BY DEF Close
<1> QED BY <1>1, <1>2

-----------------------------------------------------------------------------
(* What keeps the invariant                                                *)

\* No key is drawn and nothing is recorded: the keys keep their owners.
LEMMA OwnersStay ==
  ASSUME BoardTypeOK, KeysOwned, UNCHANGED <<actions, keys, meant, done>>,
         \A c \in Commands : \/ command'[c].button = "none"
                             \/ /\ command'[c].button = command[c].button
                                /\ command'[c].key = command[c].key,
         \A b \in Buttons : keptKey'[b] = 0 \/ keptKey'[b] = keptKey[b]
  PROVE  KeysOwned'
<1>1. PICK own \in [Keys -> Buttons \cup {"none"}] : Owned(own)
  BY DEF KeysOwned
<1>2. /\ \A k \in Keys : own[k] = "none" <=> k > keys'
      /\ \A k \in Keys : Recorded(k)' => own[k] # "none"
      /\ \A b \in Buttons : keptKey'[b] # 0 => own[keptKey'[b]] = b
  BY <1>1 DEF Owned, Recorded
<1>3. \A c \in Commands : command'[c].button # "none" =>
        command'[c].key \in Keys /\ own[command'[c].key] = command'[c].button
  BY <1>1 DEF Owned
<1>4. \A b \in Buttons : Meant(own, b)' = Meant(own, b) /\ Done(own, b)' = Done(own, b)
  BY DEF Meant, Done, Recorded
<1>5. \A b \in Buttons : meant'[b] = Cardinality(Meant(own, b)') /\ done'[b] = Cardinality(Done(own, b)')
  BY <1>1, <1>4 DEF Owned
<1> QED BY <1>1, <1>2, <1>3, <1>5 DEF KeysOwned, Owned

\* The evidence of a resumption stays, nothing is seen that was not seen before
\* or is not the month as it is now, and a month that runs again was resumed.
ResumesKept == \A n \in Nat : Resumed(n) => Resumed(n)'
NewsKept == \A s \in Months : s \in Snapshots' => s \in Snapshots \/ s = month'
Resumes(c) == /\ command'[c].button = "resume" /\ command'[c].step = "ok"
              /\ command'[c].reply = month' /\ month'.at > month.at
MonthGoesOn == /\ month'.at >= month.at /\ told' <= month'.at
               /\ month'.status = "ACTIVE" =>
                    month.status = "ACTIVE" \/ \E c \in Commands : Resumes(c)

\* What was seen of the month stays past if the evidence of a resumption does.
LEMMA PastStays ==
  ASSUME BoardTypeOK, BoardTypeOK', SnapshotsPast, MonthGoesOn, ResumesKept, NewsKept
  PROVE  SnapshotsPast'
<1>1. month \in Months /\ month' \in Months /\ month.at \in Nat /\ month'.at \in Nat
  BY DEF BoardTypeOK, Months
<1>2. ASSUME NEW s \in Months, Past(s) PROVE Past(s)'
  <2>1. s.at \in Nat /\ s.at <= month.at
    BY <1>2, MonthIs DEF Past
  <2>2. s.at <= month'.at
    BY <1>1, <2>1 DEF MonthGoesOn
  <2>3. ASSUME s.status = "PAUSED", month'.status = "ACTIVE" PROVE Resumed(s.at)'
    <3>1. CASE month.status = "ACTIVE"
      BY <1>2, <2>1, <2>3, <3>1 DEF Past, ResumesKept
    <3>2. ASSUME NEW c \in Commands, Resumes(c) PROVE Resumed(s.at)'
      <4>1. month'.at > s.at /\ month' # Nothing
        BY <1>1, <2>1, <3>2, MonthIs DEF Resumes
      <4> QED BY <3>2, <4>1 DEF Resumed, ResumedBy, Resumes
    <3> QED BY <2>3, <3>1, <3>2 DEF MonthGoesOn
  <2> QED BY <2>2, <2>3 DEF Past
<1>3. Past(month)'
  BY <1>1 DEF Past
<1>4. ASSUME NEW s \in Snapshots' PROVE Past(s)'
  <2>1. s \in Months
    BY <1>4 DEF Snapshots
  <2>2. CASE s \in Snapshots
    BY <1>2, <2>1, <2>2 DEF SnapshotsPast
  <2>3. CASE s = month'
    BY <1>3, <2>3 DEF Past, Resumed, ResumedBy
  <2> QED BY <1>4, <2>1, <2>2, <2>3 DEF NewsKept
<1> QED BY <1>4 DEF SnapshotsPast, MonthGoesOn

-----------------------------------------------------------------------------
(* The steps                                                               *)

\* A board that is opened loads the month.
LEMMA OpenBoardKeeps ==
  ASSUME BoardSafe, OpenBoard
  PROVE  BoardSafe'
<1> USE BoardConstants
<1>0. /\ BoardTypeOK /\ CommandsAre /\ KeysOwned /\ SnapshotsPast /\ ShowsTold /\ ReadsSince
      /\ month \in Months /\ month.at \in Nat /\ told \in Nat /\ told <= month.at
  BY MonthIs DEF BoardSafe, BoardTypeOK, SnapshotsPast
<1>1. BoardTypeOK'
  BY <1>0 DEF OpenBoard, BoardTypeOK, historyVars, NewRead, Seen
<1>2. CommandsAre'
  BY <1>0 DEF OpenBoard, CommandsAre, historyVars
<1>3. KeysOwned'
  BY <1>0, OwnersStay DEF OpenBoard, historyVars
<1>4. MonthGoesOn
  BY <1>0 DEF OpenBoard, MonthGoesOn, historyVars
<1>5. ResumesKept
  BY <1>0 DEF OpenBoard, ResumesKept, Resumed, ResumedBy, historyVars
<1>6. NewsKept
  BY <1>0, MonthIs DEF OpenBoard, NewsKept, Snapshots, NewRead, historyVars
<1>7. ShowsTold' /\ ReadsSince'
  BY <1>0 DEF OpenBoard, ShowsTold, ReadsSince, NewRead, BoardTypeOK, historyVars
<1> QED BY <1>0, <1>1, <1>2, <1>3, <1>4, <1>5, <1>6, <1>7, PastStays DEF BoardSafe

\* And again, when it polls.
LEMMA RefetchKeeps ==
  ASSUME BoardSafe, Refetch
  PROVE  BoardSafe'
<1> USE BoardConstants
<1>0. /\ BoardTypeOK /\ CommandsAre /\ KeysOwned /\ SnapshotsPast /\ ShowsTold /\ ReadsSince
      /\ month \in Months /\ month.at \in Nat /\ told \in Nat /\ told <= month.at
  BY MonthIs DEF BoardSafe, BoardTypeOK, SnapshotsPast
<1>a. /\ NewRead(lastRead + 1) \in [id: 1..(lastRead + 1), read: BOOLEAN, got: Seen]
      /\ reads \subseteq [id: 1..(lastRead + 1), read: BOOLEAN, got: Seen]
  BY <1>0 DEF NewRead, Seen, BoardTypeOK
<1>1. BoardTypeOK'
  <2>1. /\ reads' = reads \cup {NewRead(lastRead + 1)} /\ lastRead' = lastRead + 1 /\ lastRead \in Nat
        /\ UNCHANGED <<month, timedMode, actions, command, sees, boards, keptKey, keys, meant, done,
                       told, unsure, overtaken>>
    BY <1>0 DEF Refetch, BoardTypeOK, historyVars
  <2>2. reads' \subseteq [id: 1..lastRead', read: BOOLEAN, got: Seen]
    BY <1>a, <2>1
  <2> QED BY <1>0, <2>1, <2>2 DEF BoardTypeOK
<1>2. CommandsAre'
  BY <1>0, <1>a DEF Refetch, CommandsAre, historyVars
<1>3. KeysOwned'
  BY <1>0, <1>a, OwnersStay DEF Refetch, historyVars
<1>4. MonthGoesOn
  BY <1>0, <1>a DEF Refetch, MonthGoesOn, historyVars
<1>5. ResumesKept
  BY <1>0, <1>a DEF Refetch, ResumesKept, Resumed, ResumedBy, historyVars
<1>6. NewsKept
  BY <1>0, <1>a, MonthIs DEF Refetch, NewsKept, Snapshots, NewRead, historyVars
<1>7. ShowsTold' /\ ReadsSince'
  BY <1>0, <1>a DEF Refetch, ShowsTold, ReadsSince, NewRead, BoardTypeOK, historyVars
<1> QED BY <1>0, <1>1, <1>2, <1>3, <1>4, <1>5, <1>6, <1>7, PastStays DEF BoardSafe

\* A load that is answered.
LEMMA ServeReadKeeps ==
  ASSUME BoardSafe, NEW r \in reads, ServeRead(r)
  PROVE  BoardSafe'
<1> USE BoardConstants
<1>0. /\ BoardTypeOK /\ CommandsAre /\ KeysOwned /\ SnapshotsPast /\ ShowsTold /\ ReadsSince
      /\ month \in Months /\ month.at \in Nat /\ told \in Nat /\ told <= month.at
  BY MonthIs DEF BoardSafe, BoardTypeOK, SnapshotsPast
<1>a. month' \in Months /\ month'.at >= month.at /\ month'.at \in Nat /\ month' # Nothing
      /\ (month'.status = "ACTIVE" => month.status = "ACTIVE")
      /\ r \in [id: 1..lastRead, read: BOOLEAN, got: Seen] /\ month' \in Seen
  BY <1>0, DayMayEndIs, MonthIs DEF ServeRead, BoardTypeOK, Seen
<1>b. LET y == [r EXCEPT !.read = TRUE, !.got = month'] IN
      /\ reads' = (reads \ {r}) \cup {y}
      /\ y \in [id: 1..lastRead, read: BOOLEAN, got: Seen] /\ y.got = month'
  BY <1>a DEF ServeRead
<1>1. BoardTypeOK'
  BY <1>0, <1>a, <1>b DEF ServeRead, BoardTypeOK, historyVars, NewRead, Seen
<1>2. CommandsAre'
  BY <1>0, <1>a, <1>b DEF ServeRead, CommandsAre, historyVars
<1>3. KeysOwned'
  BY <1>0, <1>a, <1>b, OwnersStay DEF ServeRead, historyVars
<1>4. MonthGoesOn
  BY <1>0, <1>a, <1>b DEF ServeRead, MonthGoesOn, historyVars
<1>5. ResumesKept
  BY <1>0, <1>a, <1>b DEF ServeRead, ResumesKept, Resumed, ResumedBy, historyVars
<1>6. NewsKept
  BY <1>0, <1>a, <1>b, MonthIs DEF ServeRead, NewsKept, Snapshots, NewRead, historyVars
<1>7. ShowsTold' /\ ReadsSince'
  <2>1. UNCHANGED <<sees, overtaken, told, lastRead>> /\ told <= month'.at
    BY <1>0, <1>a DEF ServeRead, historyVars
  <2>2. ShowsTold'
    BY <1>0, <2>1 DEF ShowsTold
  <2>3. ReadsSince'
    BY <1>0, <1>a, <1>b, <2>1 DEF ReadsSince
  <2> QED BY <2>2, <2>3
<1> QED BY <1>0, <1>1, <1>2, <1>3, <1>4, <1>5, <1>6, <1>7, PastStays DEF BoardSafe

\* An answer that is shown, unless it is not the latest.
LEMMA ApplyReadKeeps ==
  ASSUME BoardSafe, NEW r \in reads, ApplyRead(r)
  PROVE  BoardSafe'
<1> USE BoardConstants
<1>0. /\ BoardTypeOK /\ CommandsAre /\ KeysOwned /\ SnapshotsPast /\ ShowsTold /\ ReadsSince
      /\ month \in Months /\ month.at \in Nat /\ told \in Nat /\ told <= month.at
  BY MonthIs DEF BoardSafe, BoardTypeOK, SnapshotsPast
<1>1. BoardTypeOK'
  BY <1>0 DEF ApplyRead, BoardTypeOK, historyVars, NewRead, Seen
<1>2. CommandsAre'
  BY <1>0 DEF ApplyRead, CommandsAre, historyVars
<1>3. KeysOwned'
  BY <1>0, OwnersStay DEF ApplyRead, historyVars
<1>4. MonthGoesOn
  BY <1>0 DEF ApplyRead, MonthGoesOn, historyVars
<1>5. ResumesKept
  BY <1>0 DEF ApplyRead, ResumesKept, Resumed, ResumedBy, historyVars
<1>6. NewsKept
  BY <1>0, MonthIs DEF ApplyRead, NewsKept, Snapshots, NewRead, historyVars
<1>7. ShowsTold' /\ ReadsSince'
  BY <1>0 DEF ApplyRead, ShowsTold, ReadsSince, NewRead, BoardTypeOK, historyVars
<1> QED BY <1>0, <1>1, <1>2, <1>3, <1>4, <1>5, <1>6, <1>7, PastStays DEF BoardSafe

\* A load that fails.
LEMMA ReadFailsKeeps ==
  ASSUME BoardSafe, NEW r \in reads, ReadFails(r)
  PROVE  BoardSafe'
<1> USE BoardConstants
<1>0. /\ BoardTypeOK /\ CommandsAre /\ KeysOwned /\ SnapshotsPast /\ ShowsTold /\ ReadsSince
      /\ month \in Months /\ month.at \in Nat /\ told \in Nat /\ told <= month.at
  BY MonthIs DEF BoardSafe, BoardTypeOK, SnapshotsPast
<1>1. BoardTypeOK'
  BY <1>0 DEF ReadFails, BoardTypeOK, historyVars, NewRead, Seen
<1>2. CommandsAre'
  BY <1>0 DEF ReadFails, CommandsAre, historyVars
<1>3. KeysOwned'
  BY <1>0, OwnersStay DEF ReadFails, historyVars
<1>4. MonthGoesOn
  BY <1>0 DEF ReadFails, MonthGoesOn, historyVars
<1>5. ResumesKept
  BY <1>0 DEF ReadFails, ResumesKept, Resumed, ResumedBy, historyVars
<1>6. NewsKept
  BY <1>0, MonthIs DEF ReadFails, NewsKept, Snapshots, NewRead, historyVars
<1>7. ShowsTold' /\ ReadsSince'
  BY <1>0 DEF ReadFails, ShowsTold, ReadsSince, NewRead, BoardTypeOK, historyVars
<1> QED BY <1>0, <1>1, <1>2, <1>3, <1>4, <1>5, <1>6, <1>7, PastStays DEF BoardSafe

\* A command whose key may be known.
LEMMA LookUpKeeps ==
  ASSUME BoardSafe, NEW c \in Commands, LookUp(c)
  PROVE  BoardSafe'
<1> USE BoardConstants
<1>0. /\ BoardTypeOK /\ CommandsAre /\ KeysOwned /\ SnapshotsPast /\ ShowsTold /\ ReadsSince
      /\ month \in Months /\ month.at \in Nat /\ told \in Nat /\ told <= month.at
  BY MonthIs DEF BoardSafe, BoardTypeOK, SnapshotsPast
<1>a. PICK step \in {"looked", "checked", "ok", "refused"}, reply \in Seen :
        /\ Respond(c, step, reply) /\ (step = "ok" => reply # Nothing)
        /\ reply = Nothing \/ \E k \in Keys : reply = actions[k]
  BY <1>0, CommandIs DEF LookUp, CommandsAre, BoardTypeOK, Seen, KeysOwned, Owned
<1>b. /\ command' \in [Commands -> Command] /\ Others(c)
      /\ command'[c].button = command[c].button /\ command'[c].key = command[c].key
      /\ command'[c].live = command[c].live
      /\ command'[c].step = step /\ command'[c].reply = reply /\ command[c].step \in {"sent", "looked"}
  BY <1>0, <1>a, RespondIs DEF LookUp
<1>1. BoardTypeOK'
  BY <1>0, <1>a, <1>b DEF LookUp, BoardTypeOK, historyVars, NewRead, Seen, Others
<1>2. CommandsAre'
  BY <1>0, <1>a, <1>b DEF LookUp, CommandsAre, historyVars, Others
<1>3. KeysOwned'
  BY <1>0, <1>a, <1>b, OwnersStay DEF LookUp, historyVars, Others
<1>4. MonthGoesOn
  BY <1>0, <1>a, <1>b DEF LookUp, MonthGoesOn, historyVars
<1>5. ResumesKept
  BY <1>0, <1>a, <1>b DEF LookUp, ResumesKept, Resumed, ResumedBy, historyVars, Others
<1>6. NewsKept
  BY <1>0, <1>a, <1>b, MonthIs DEF LookUp, NewsKept, Snapshots, NewRead, historyVars, Others
<1>7. ShowsTold' /\ ReadsSince'
  BY <1>0, <1>a, <1>b DEF LookUp, ShowsTold, ReadsSince, NewRead, BoardTypeOK, historyVars
<1> QED BY <1>0, <1>1, <1>2, <1>3, <1>4, <1>5, <1>6, <1>7, PastStays DEF BoardSafe

\* A command that is checked.
LEMMA CheckCommandKeeps ==
  ASSUME BoardSafe, NEW c \in Commands, CheckCommand(c)
  PROVE  BoardSafe'
<1> USE BoardConstants
<1>0. /\ BoardTypeOK /\ CommandsAre /\ KeysOwned /\ SnapshotsPast /\ ShowsTold /\ ReadsSince
      /\ month \in Months /\ month.at \in Nat /\ told \in Nat /\ told <= month.at
  BY MonthIs DEF BoardSafe, BoardTypeOK, SnapshotsPast
<1>a. PICK step \in {"looked", "checked", "ok", "refused"}, reply \in Seen :
        /\ Respond(c, step, reply) /\ (step = "ok" => reply # Nothing)
        /\ reply = Nothing \/ \E k \in Keys : reply = actions[k]
  BY <1>0, CommandIs DEF CheckCommand, CommandsAre, BoardTypeOK, Seen
<1>b. /\ command' \in [Commands -> Command] /\ Others(c)
      /\ command'[c].button = command[c].button /\ command'[c].key = command[c].key
      /\ command'[c].live = command[c].live
      /\ command'[c].step = step /\ command'[c].reply = reply /\ command[c].step \in {"sent", "looked"}
  BY <1>0, <1>a, RespondIs DEF CheckCommand
<1>1. BoardTypeOK'
  BY <1>0, <1>a, <1>b DEF CheckCommand, BoardTypeOK, historyVars, NewRead, Seen, Others
<1>2. CommandsAre'
  BY <1>0, <1>a, <1>b DEF CheckCommand, CommandsAre, historyVars, Others
<1>3. KeysOwned'
  BY <1>0, <1>a, <1>b, OwnersStay DEF CheckCommand, historyVars, Others
<1>4. MonthGoesOn
  BY <1>0, <1>a, <1>b DEF CheckCommand, MonthGoesOn, historyVars
<1>5. ResumesKept
  BY <1>0, <1>a, <1>b DEF CheckCommand, ResumesKept, Resumed, ResumedBy, historyVars, Others
<1>6. NewsKept
  BY <1>0, <1>a, <1>b, MonthIs DEF CheckCommand, NewsKept, Snapshots, NewRead, historyVars, Others
<1>7. ShowsTold' /\ ReadsSince'
  BY <1>0, <1>a, <1>b DEF CheckCommand, ShowsTold, ReadsSince, NewRead, BoardTypeOK, historyVars
<1> QED BY <1>0, <1>1, <1>2, <1>3, <1>4, <1>5, <1>6, <1>7, PastStays DEF BoardSafe

\* A command that nobody waits for is lost.
LEMMA VanishKeeps ==
  ASSUME BoardSafe, NEW c \in Commands, Vanish(c)
  PROVE  BoardSafe'
<1> USE BoardConstants
<1>0. /\ BoardTypeOK /\ CommandsAre /\ KeysOwned /\ SnapshotsPast /\ ShowsTold /\ ReadsSince
      /\ month \in Months /\ month.at \in Nat /\ told \in Nat /\ told <= month.at
  BY MonthIs DEF BoardSafe, BoardTypeOK, SnapshotsPast
<1>b. /\ command' \in [Commands -> Command] /\ Others(c) /\ command'[c].button = "none"
      /\ ~command'[c].live /\ command'[c].step = "none" /\ command'[c].reply = Nothing
  BY <1>0, NoCommandIs DEF Vanish, BoardTypeOK, Others
<1>1. BoardTypeOK'
  BY <1>0, <1>b DEF Vanish, BoardTypeOK, historyVars, NewRead, Seen, Others
<1>2. CommandsAre'
  BY <1>0, <1>b DEF Vanish, CommandsAre, historyVars, Others
<1>3. KeysOwned'
  BY <1>0, <1>b, OwnersStay DEF Vanish, historyVars, Others
<1>4. MonthGoesOn
  BY <1>0, <1>b DEF Vanish, MonthGoesOn, historyVars
<1>5. ResumesKept
  BY <1>0, <1>b DEF Vanish, ResumesKept, Resumed, ResumedBy, historyVars, Others, CommandsAre
<1>6. NewsKept
  BY <1>0, <1>b, MonthIs DEF Vanish, NewsKept, Snapshots, NewRead, historyVars, Others
<1>7. ShowsTold' /\ ReadsSince'
  BY <1>0, <1>b DEF Vanish, ShowsTold, ReadsSince, NewRead, BoardTypeOK, historyVars
<1> QED BY <1>0, <1>1, <1>2, <1>3, <1>4, <1>5, <1>6, <1>7, PastStays DEF BoardSafe

\* A command whose answer does not come.
LEMMA GiveUpKeeps ==
  ASSUME BoardSafe, NEW c \in Commands, GiveUp(c)
  PROVE  BoardSafe'
<1> USE BoardConstants
<1>0. /\ BoardTypeOK /\ CommandsAre /\ KeysOwned /\ SnapshotsPast /\ ShowsTold /\ ReadsSince
      /\ month \in Months /\ month.at \in Nat /\ told \in Nat /\ told <= month.at
  BY MonthIs DEF BoardSafe, BoardTypeOK, SnapshotsPast
<1>a. LET y == [command[c] EXCEPT !.live = FALSE] IN
      /\ y \in Command /\ y.button = command[c].button /\ y.key = command[c].key
      /\ y.step = command[c].step /\ y.reply = command[c].reply /\ ~y.live
  BY <1>0 DEF BoardTypeOK, Command
<1>b. /\ command' \in [Commands -> Command] /\ Others(c) /\ command[c].button \in Buttons
      /\ command'[c].button = command[c].button /\ command'[c].key = command[c].key
      /\ command'[c].step = command[c].step /\ command'[c].reply = command[c].reply /\ ~command'[c].live
      /\ unsure' = unsure \cup {command[c].button}
  BY <1>0, <1>a, CommandIs DEF GiveUp, BoardTypeOK, Others, CommandsAre
<1>1. BoardTypeOK'
  BY <1>0, <1>b DEF GiveUp, BoardTypeOK, historyVars, NewRead, Seen, Others
<1>2. CommandsAre'
  BY <1>0, <1>b DEF GiveUp, CommandsAre, historyVars, Others
<1>3. KeysOwned'
  BY <1>0, <1>b, OwnersStay DEF GiveUp, historyVars, Others
<1>4. MonthGoesOn
  BY <1>0, <1>b DEF GiveUp, MonthGoesOn, historyVars
<1>5. ResumesKept
  BY <1>0, <1>b DEF GiveUp, ResumesKept, Resumed, ResumedBy, historyVars, Others
<1>6. NewsKept
  BY <1>0, <1>b, MonthIs DEF GiveUp, NewsKept, Snapshots, NewRead, historyVars, Others
<1>7. ShowsTold' /\ ReadsSince'
  BY <1>0, <1>b DEF GiveUp, ShowsTold, ReadsSince, NewRead, BoardTypeOK, historyVars
<1> QED BY <1>0, <1>1, <1>2, <1>3, <1>4, <1>5, <1>6, <1>7, PastStays DEF BoardSafe

\* Finite sets of keys.
LEMMA KeysCount ==
  ASSUME NEW S \in SUBSET Keys
  PROVE  /\ Cardinality(S) \in Nat
         /\ \A T \in SUBSET S : Cardinality(T) <= Cardinality(S)
         /\ \A k \in Keys \ S : Cardinality(S \cup {k}) = Cardinality(S) + 1
<1>1. IsFiniteSet(Keys)
  BY FS_Interval, BoardConstants DEF Keys
<1>2. IsFiniteSet(S)
  BY <1>1, FS_Subset
<1> QED BY <1>2, FS_Subset, FS_AddElement, FS_CardinalityType

\* A press draws a key of its own, unless the button has kept one.
LEMMA PressOwns ==
  ASSUME BoardTypeOK, KeysOwned, NEW c \in Commands, NEW b \in Buttons, Press(c, b),
         command' \in [Commands -> Command], Others(c),
         command'[c].button = b, command'[c].key = KeyFor(b)
  PROVE  KeysOwned' /\ keys' \in 0..MaxKeys /\ meant' \in [Buttons -> Nat]
<1> USE BoardConstants
<1>1. PICK own \in [Keys -> Buttons \cup {"none"}] : Owned(own)
  BY DEF KeysOwned
<1>2. /\ keys \in 0..MaxKeys /\ meant \in [Buttons -> Nat] /\ keptKey \in [Buttons -> Keys \cup {0}]
      /\ keptKey' = [keptKey EXCEPT ![b] = KeyFor(b)] /\ KeyFor(b) \in Keys
      /\ keys' = IF KeyFor(b) > keys THEN KeyFor(b) ELSE keys
      /\ meant' = [meant EXCEPT ![b] = @ + IF keptKey[b] = 0 THEN 1 ELSE 0]
      /\ actions' = actions /\ done' = done
  BY DEF BoardTypeOK, Press
<1>3. CASE keptKey[b] # 0
  <2>1. KeyFor(b) = keptKey[b] /\ keptKey[b] \in Keys /\ own[keptKey[b]] = b
    BY <1>1, <1>2, <1>3 DEF KeyFor, Owned
  <2>2. keptKey[b] <= keys
    BY <1>1, <1>2, <2>1 DEF Owned, Keys, Buttons
  <2>3. UNCHANGED <<keys, meant, keptKey>>
    BY <1>2, <1>3, <2>1, <2>2 DEF Keys
  <2>4. \A a \in Buttons : Meant(own, a)' = Meant(own, a) /\ Done(own, a)' = Done(own, a)
    BY <1>2 DEF Meant, Done, Recorded
  <2>5. Owned(own)'
    BY <1>1, <1>2, <2>1, <2>3, <2>4 DEF Owned, Others, Recorded
  <2> QED BY <1>1, <1>2, <2>3, <2>5 DEF KeysOwned
<1>4. CASE keptKey[b] = 0
  <2>0. PICK k \in Keys : k = keys + 1
    BY <1>2, <1>4 DEF KeyFor
  <2> DEFINE new == [own EXCEPT ![k] = b]
  <2>1. KeyFor(b) = k /\ k \in Keys /\ k > keys /\ keys' = k /\ meant' = [meant EXCEPT ![b] = @ + 1]
    BY <1>2, <1>4, <2>0 DEF KeyFor, Keys
  <2>2. own[k] = "none" /\ ~Recorded(k) /\ b # "none"
    BY <1>1, <2>1 DEF Owned, Buttons
  <2>3. /\ new \in [Keys -> Buttons \cup {"none"}] /\ new[k] = b
        /\ \A j \in Keys \ {k} : new[j] = own[j]
    BY <1>1, <2>1
  <2> HIDE DEF new
  <2>4. \A a \in Buttons : Meant(new, a) = IF a = b THEN Meant(own, a) \cup {k} ELSE Meant(own, a)
    BY <2>1, <2>2, <2>3 DEF Meant, Buttons
  <2>5. \A a \in Buttons : Done(new, a) = Done(own, a) /\ Done(new, a)' = Done(new, a)
    BY <1>2, <2>1, <2>2, <2>3 DEF Done, Recorded, Buttons
  <2>6. k \notin Meant(own, b) /\ Meant(own, b) \in SUBSET Keys
    BY <2>2 DEF Meant
  <2>7. \A a \in Buttons : meant'[a] = Cardinality(Meant(new, a)) /\ meant'[a] \in Nat
    BY <1>1, <1>2, <2>1, <2>4, <2>6, KeysCount DEF Owned
  <2>8. Owned(new)'
    <3>1. \A j \in Keys : new[j] = "none" <=> j > keys'
      BY <1>1, <1>2, <2>0, <2>1, <2>2, <2>3 DEF Owned, Keys
    <3>2. \A j \in Keys : Recorded(j)' => new[j] # "none"
      BY <1>1, <1>2, <2>2, <2>3 DEF Owned, Recorded
    <3>3. \A d \in Commands : command'[d].button # "none" =>
            command'[d].key \in Keys /\ new[command'[d].key] = command'[d].button
      BY <1>1, <2>1, <2>2, <2>3 DEF Owned, Others
    <3>4. \A a \in Buttons : keptKey'[a] # 0 => new[keptKey'[a]] = a
      BY <1>1, <1>2, <2>1, <2>2, <2>3 DEF Owned, Buttons
    <3>5. \A a \in Buttons : /\ meant'[a] = Cardinality(Meant(new, a)')
                              /\ done'[a] = Cardinality(Done(new, a)')
      <4>1. \A a \in Buttons : Meant(new, a)' = Meant(new, a)
        BY DEF Meant
      <4>2. \A a \in Buttons : done'[a] = Cardinality(Done(own, a))
        BY <1>1, <1>2 DEF Owned
      <4> QED BY <2>5, <2>7, <4>1, <4>2
    <3> QED BY <3>1, <3>2, <3>3, <3>4, <3>5 DEF Owned
  <2>9. keys' \in 0..MaxKeys /\ meant' \in [Buttons -> Nat]
    BY <1>2, <2>1, <2>7 DEF Keys
  <2> QED BY <2>3, <2>8, <2>9 DEF KeysOwned
<1> QED BY <1>3, <1>4

\* A press of a button.
LEMMA PressKeeps ==
  ASSUME BoardSafe, NEW c \in Commands, NEW b \in Buttons, Press(c, b)
  PROVE  BoardSafe'
<1>0. /\ BoardTypeOK /\ CommandsAre /\ KeysOwned /\ SnapshotsPast /\ ShowsTold /\ ReadsSince
      /\ month \in Months /\ month.at \in Nat /\ told \in Nat /\ told <= month.at
  BY MonthIs DEF BoardSafe, BoardTypeOK, SnapshotsPast
<1>a. LET x == [button |-> b, key |-> KeyFor(b), step |-> "sent", live |-> TRUE, reply |-> Nothing] IN
      /\ x \in Command /\ x.button = b /\ x.key = KeyFor(b) /\ x.step = "sent"
      /\ x.live /\ x.reply = Nothing
      /\ command' = [command EXCEPT ![c] = x]
  BY DEF Press, Command, Seen
<1>b. /\ command' \in [Commands -> Command] /\ Others(c)
      /\ command'[c].button = b /\ command'[c].key = KeyFor(b) /\ command'[c].live
      /\ command'[c].step = "sent" /\ command'[c].reply = Nothing
      /\ command[c].button = "none" /\ b # "none"
  BY <1>0, <1>a, NoCommandIs DEF Press, BoardTypeOK, Others, Buttons
<1>c. /\ KeysOwned' /\ keys' \in 0..MaxKeys /\ meant' \in [Buttons -> Nat]
      /\ keptKey' \in [Buttons -> Keys \cup {0}]
      /\ UNCHANGED <<month, timedMode, actions, sees, boards, reads, lastRead,
                     done, told, unsure, overtaken>>
  BY <1>0, <1>b, PressOwns DEF Press, BoardTypeOK
<1>1. BoardTypeOK'
  BY <1>0, <1>b, <1>c DEF BoardTypeOK
<1>2. CommandsAre'
  BY <1>0, <1>b, <1>c DEF CommandsAre, Others
<1>4. MonthGoesOn
  BY <1>0, <1>c DEF MonthGoesOn
<1>5. ResumesKept
  BY <1>0, <1>b, <1>c DEF ResumesKept, Resumed, ResumedBy, Others
<1>6. NewsKept
  BY <1>0, <1>b, <1>c, MonthIs DEF NewsKept, Snapshots, Others
<1>7. ShowsTold' /\ ReadsSince'
  BY <1>0, <1>c DEF ShowsTold, ReadsSince
<1> QED BY <1>0, <1>1, <1>2, <1>c, <1>4, <1>5, <1>6, <1>7, PastStays DEF BoardSafe

\* A command that is recorded under its key, which was drawn for its button.
LEMMA RecordOwns ==
  ASSUME BoardTypeOK, KeysOwned, NEW c \in Commands, command[c].button \in Buttons,
         command[c].key \in Keys, ~Recorded(command[c].key), month' \in Months,
         actions' = [actions EXCEPT ![command[c].key] = month'],
         done' = [done EXCEPT ![command[c].button] = @ + 1],
         UNCHANGED <<keys, meant, keptKey>>,
         \A d \in Commands : command'[d].button = command[d].button /\ command'[d].key = command[d].key
  PROVE  KeysOwned' /\ actions' \in [Keys -> Seen] /\ done' \in [Buttons -> Nat]
<1>1. PICK own \in [Keys -> Buttons \cup {"none"}] : Owned(own)
  BY DEF KeysOwned
<1>2. PICK k \in Keys, b \in Buttons : k = command[c].key /\ b = command[c].button
  OBVIOUS
<1>3. /\ actions \in [Keys -> Seen] /\ done \in [Buttons -> Nat] /\ month' # Nothing /\ month' \in Seen
      /\ actions' = [actions EXCEPT ![k] = month'] /\ done' = [done EXCEPT ![b] = @ + 1]
      /\ own[k] = b /\ b # "none" /\ ~Recorded(k)
  BY <1>1, <1>2, MonthIs DEF BoardTypeOK, Seen, Owned, Buttons
<1>4. Recorded(k)' /\ \A j \in Keys \ {k} : Recorded(j)' <=> Recorded(j)
  BY <1>3 DEF Recorded
<1>5. /\ \A a \in Buttons : Meant(own, a)' = Meant(own, a)
      /\ \A a \in Buttons : Done(own, a)' = IF a = b THEN Done(own, a) \cup {k} ELSE Done(own, a)
  BY <1>3, <1>4 DEF Meant, Done
<1>6. k \notin Done(own, b) /\ Done(own, b) \in SUBSET Keys
  BY <1>3 DEF Done
<1>7. \A a \in Buttons : done'[a] = Cardinality(Done(own, a)') /\ done'[a] \in Nat
  BY <1>1, <1>2, <1>3, <1>5, <1>6, KeysCount DEF Owned
<1>8. \A a \in Buttons : meant'[a] = Cardinality(Meant(own, a)')
  BY <1>1, <1>5 DEF Owned
<1>9. Owned(own)'
  BY <1>1, <1>3, <1>4, <1>7, <1>8 DEF Owned
<1> QED BY <1>1, <1>3, <1>7, <1>9 DEF KeysOwned

\* What is not changed by the service.
BoardAsIs == UNCHANGED <<timedMode, sees, boards, keptKey, keys, reads, lastRead, meant, told,
                         unsure, overtaken>>

\* A command that is done, or answered with what it did before.
LEMMA CommitKeeps ==
  ASSUME BoardSafe, NEW c \in Commands, NEW m \in Months, CommitCommand(c, m), BoardAsIs,
         command[c].step \in {"looked", "checked"},
         m.at >= month.at, m.status = "ACTIVE" => month.status = "ACTIVE",
         \/ Recorded(command[c].key) \/ command[c].button = "advance" \/ Allowed(command[c].button, m),
         command[c].button = "resume" => m = month
  PROVE  BoardSafe'
<1>0. /\ BoardTypeOK /\ CommandsAre /\ KeysOwned /\ SnapshotsPast /\ ShowsTold /\ ReadsSince
      /\ month \in Months /\ month.at \in Nat /\ told \in Nat /\ told <= month.at /\ m.at \in Nat
  BY MonthIs DEF BoardSafe, BoardTypeOK, SnapshotsPast
<1>a. command[c].button \in Buttons /\ command[c].key \in Keys
  BY <1>0, CommandIs DEF CommandsAre, KeysOwned, Owned
<1>b. CASE Recorded(command[c].key)
  <2>1. Respond(c, "ok", actions[command[c].key]) /\ UNCHANGED <<month, actions, done>>
    BY <1>b DEF CommitCommand
  <2>2. PICK reply \in Seen : reply = actions[command[c].key] /\ reply # Nothing
    BY <1>0, <1>a, <1>b DEF BoardTypeOK, Recorded
  <2>3. /\ command' \in [Commands -> Command] /\ Others(c)
        /\ command'[c].button = command[c].button /\ command'[c].key = command[c].key
        /\ command'[c].live = command[c].live /\ command'[c].step = "ok" /\ command'[c].reply = reply
    BY <1>0, <2>1, <2>2, RespondIs
  <2>4. BoardTypeOK'
    BY <1>0, <2>1, <2>3 DEF BoardAsIs, BoardTypeOK
  <2>5. CommandsAre'
    BY <1>0, <1>a, <2>2, <2>3 DEF BoardAsIs, CommandsAre, Others, Buttons
  <2>6. KeysOwned'
    BY <1>0, <2>1, <2>3, OwnersStay DEF BoardAsIs, Others
  <2>7. MonthGoesOn
    BY <1>0, <2>1 DEF BoardAsIs, MonthGoesOn
  <2>8. ResumesKept
    BY <1>0, <2>1, <2>3 DEF BoardAsIs, ResumesKept, Resumed, ResumedBy, Others
  <2>9. NewsKept
    BY <1>0, <1>a, <2>1, <2>2, <2>3 DEF BoardAsIs, NewsKept, Snapshots, Others
  <2>10. ShowsTold' /\ ReadsSince'
    BY <1>0 DEF BoardAsIs, ShowsTold, ReadsSince
  <2> QED BY <1>0, <2>4, <2>5, <2>6, <2>7, <2>8, <2>9, <2>10, PastStays DEF BoardSafe
<1>c. CASE ~Recorded(command[c].key)
  <2>1. /\ month' = Effect(command[c].button, m) /\ Respond(c, "ok", month')
        /\ actions' = [actions EXCEPT ![command[c].key] = month']
        /\ done' = [done EXCEPT ![command[c].button] = @ + 1]
    BY <1>c DEF CommitCommand
  <2>2. /\ month' \in Months /\ month'.at \in Nat /\ month'.at >= m.at /\ month' # Nothing
        /\ command[c].button = "resume" => month'.at > month.at
        /\ command[c].button # "resume" /\ month'.status = "ACTIVE" => month.status = "ACTIVE"
    BY <1>0, <1>a, <1>c, <2>1, EffectIs, MonthIs
  <2>3. PICK reply \in Seen : reply = month'
    BY <2>2 DEF Seen
  <2>4. /\ command' \in [Commands -> Command] /\ Others(c)
        /\ command'[c].button = command[c].button /\ command'[c].key = command[c].key
        /\ command'[c].live = command[c].live /\ command'[c].step = "ok" /\ command'[c].reply = month'
    BY <1>0, <2>1, <2>3, RespondIs
  <2>5. KeysOwned' /\ actions' \in [Keys -> Seen] /\ done' \in [Buttons -> Nat]
    BY <1>0, <1>a, <1>c, <2>1, <2>2, <2>4, RecordOwns DEF BoardAsIs, Others
  <2>6. BoardTypeOK'
    BY <1>0, <2>2, <2>4, <2>5 DEF BoardAsIs, BoardTypeOK
  <2>7. CommandsAre'
    BY <1>0, <1>a, <2>2, <2>4 DEF BoardAsIs, CommandsAre, Others, Buttons
  <2>8. MonthGoesOn
    BY <1>0, <2>2, <2>4 DEF BoardAsIs, MonthGoesOn, Resumes
  <2>9. ResumesKept
    BY <1>0, <2>2, <2>4 DEF BoardAsIs, ResumesKept, Resumed, ResumedBy, Others
  <2>10. NewsKept
    BY <1>0, <1>a, <2>1, <2>2, <2>4 DEF BoardAsIs, NewsKept, Snapshots, Others, BoardTypeOK
  <2>11. ShowsTold' /\ ReadsSince'
    BY <1>0 DEF BoardAsIs, ShowsTold, ReadsSince
  <2> QED BY <1>0, <2>5, <2>6, <2>7, <2>8, <2>9, <2>10, <2>11, PastStays DEF BoardSafe
<1> QED BY <1>b, <1>c

\* A command that is refused.
LEMMA DenyKeeps ==
  ASSUME BoardSafe, NEW c \in Commands, Deny(c), BoardAsIs,
         command[c].step \in {"looked", "checked"}
  PROVE  BoardSafe'
<1>0. /\ BoardTypeOK /\ CommandsAre /\ KeysOwned /\ SnapshotsPast /\ ShowsTold /\ ReadsSince
      /\ month \in Months /\ month.at \in Nat /\ told \in Nat /\ told <= month.at
  BY MonthIs DEF BoardSafe, BoardTypeOK, SnapshotsPast
<1>1. Respond(c, "refused", Nothing) /\ UNCHANGED <<month, actions, done>> /\ Nothing \in Seen
  BY DEF Deny, Seen
<1>2. /\ command' \in [Commands -> Command] /\ Others(c)
      /\ command'[c].button = command[c].button /\ command'[c].key = command[c].key
      /\ command'[c].live = command[c].live /\ command'[c].step = "refused"
      /\ command'[c].reply = Nothing
  BY <1>0, <1>1, RespondIs
<1>3. BoardTypeOK'
  BY <1>0, <1>1, <1>2 DEF BoardAsIs, BoardTypeOK
<1>4. CommandsAre'
  BY <1>0, <1>2 DEF BoardAsIs, CommandsAre, Others
<1>5. KeysOwned'
  BY <1>0, <1>1, <1>2, OwnersStay DEF BoardAsIs, Others
<1>6. MonthGoesOn
  BY <1>0, <1>1 DEF BoardAsIs, MonthGoesOn
<1>7. ResumesKept
  BY <1>0, <1>1, <1>2 DEF BoardAsIs, ResumesKept, Resumed, ResumedBy, Others
<1>8. NewsKept
  BY <1>0, <1>1, <1>2, MonthIs DEF BoardAsIs, NewsKept, Snapshots, Others
<1>9. ShowsTold' /\ ReadsSince'
  BY <1>0 DEF BoardAsIs, ShowsTold, ReadsSince
<1> QED BY <1>0, <1>3, <1>4, <1>5, <1>6, <1>7, <1>8, <1>9, PastStays DEF BoardSafe

\* A pause, and the other commands when they are written.
LEMMA WriteKeeps ==
  ASSUME BoardSafe, NEW c \in Commands, PauseOrSave(c) \/ UpdateMonth(c)
  PROVE  BoardSafe'
<1>0. month \in Months /\ month.at \in Nat
  BY MonthIs DEF BoardSafe, BoardTypeOK
<1>1. BoardAsIs
  BY DEF PauseOrSave, UpdateMonth, BoardAsIs
<1>2. CASE PauseOrSave(c)
  <2>1. /\ command[c].step = "looked" /\ command[c].button # "resume"
    BY <1>2 DEF PauseOrSave, LocksFirst
  <2>2. PICK m \in DayMayEnd(month) :
          IF Allowed(command[c].button, m) THEN CommitCommand(c, m) ELSE Deny(c)
    BY <1>2 DEF PauseOrSave
  <2>3. m \in Months /\ m.at >= month.at /\ (m.status = "ACTIVE" => month.status = "ACTIVE")
    BY <1>0, DayMayEndIs
  <2> QED BY <1>1, <2>1, <2>2, <2>3, CommitKeeps, DenyKeeps
<1>3. CASE UpdateMonth(c)
  <2>1. command[c].step = "checked" /\ month.at >= month.at
    BY <1>0, <1>3 DEF UpdateMonth
  <2>2. \/ Deny(c)
        \/ /\ CommitCommand(c, month)
           /\ \/ Recorded(command[c].key) \/ command[c].button = "advance"
              \/ Allowed(command[c].button, month)
    BY <1>3 DEF UpdateMonth
  <2> QED BY <1>0, <1>1, <2>1, <2>2, CommitKeeps, DenyKeeps
<1> QED BY <1>2, <1>3


\* A board that goes away, perhaps with the answer to a command.
LEMMA CloseKeeps ==
  ASSUME BoardSafe, NEW commands \in [Commands -> Command], Close(commands),
         \A d \in Commands : commands[d] = command[d] \/ commands[d] = NoCommand,
         \A d \in Commands : command[d].step = "ok" /\ command[d].reply # Nothing =>
           commands[d] = command[d] \/ told' >= command[d].reply.at,
         told' \in Nat, told' >= told, told' <= month.at, overtaken' \in BOOLEAN,
         UNCHANGED <<month, timedMode, actions, keys, meant, done>>
  PROVE  BoardSafe'
<1>0. /\ BoardTypeOK /\ CommandsAre /\ KeysOwned /\ SnapshotsPast /\ ShowsTold /\ ReadsSince
      /\ month \in Months /\ month.at \in Nat /\ told \in Nat /\ told <= month.at
  BY MonthIs DEF BoardSafe, BoardTypeOK, SnapshotsPast
<1>a. /\ command' \in [Commands -> Command]
      /\ unsure \subseteq unsure'
      /\ sees' = Nothing /\ reads' = {} /\ lastRead' = 0
      /\ boards' = [boards EXCEPT !.open = FALSE] /\ keptKey' = [b \in Buttons |-> 0]
  BY CloseIs
<1>b. \A d \in Commands :
        /\ command'[d].button = commands[d].button /\ command'[d].key = commands[d].key
        /\ command'[d].step = commands[d].step /\ command'[d].reply = commands[d].reply
        /\ ~command'[d].live
        /\ commands[d].live => commands[d].button \in unsure'
  BY CloseIs
<1>c. \A d \in Commands :
        \/ /\ command'[d].button = "none" /\ ~command'[d].live /\ command'[d].step = "none"
           /\ command'[d].reply = Nothing
           /\ command[d].step = "ok" /\ command[d].reply # Nothing => told' >= command[d].reply.at
        \/ /\ command'[d].button = command[d].button /\ command'[d].key = command[d].key
           /\ command'[d].step = command[d].step /\ command'[d].reply = command[d].reply
           /\ ~command'[d].live
           /\ command[d].live => command[d].button \in unsure'
  <2> SUFFICES ASSUME NEW d \in Commands
               PROVE  \/ /\ command'[d].button = "none" /\ ~command'[d].live /\ command'[d].step = "none"
                         /\ command'[d].reply = Nothing
                         /\ command[d].step = "ok" /\ command[d].reply # Nothing =>
                              told' >= command[d].reply.at
                      \/ /\ command'[d].button = command[d].button /\ command'[d].key = command[d].key
                         /\ command'[d].step = command[d].step /\ command'[d].reply = command[d].reply
                         /\ ~command'[d].live
                         /\ command[d].live => command[d].button \in unsure'
    OBVIOUS
  <2>1. CASE commands[d] = command[d]
    BY <1>b, <2>1
  <2>2. CASE commands[d] # command[d]
    BY <1>b, <2>2, NoCommandIs
  <2> QED BY <2>1, <2>2
<1>d. unsure' \subseteq Buttons
  <2>1. unsure' = unsure \cup {commands[d].button : d \in {e \in Commands : commands[e].live}}
    BY DEF Close
  <2>2. \A d \in Commands : commands[d].live => commands[d].button \in Buttons
    BY <1>0, NoCommandIs, CommandIs DEF CommandsAre
  <2> QED BY <1>0, <2>1, <2>2 DEF BoardTypeOK
<1>1. BoardTypeOK'
  <2>1. boards' \in [opened: 0..MaxBoards, open: BOOLEAN] /\ keptKey' \in [Buttons -> Keys \cup {0}]
        /\ reads' \subseteq [id: 1..lastRead', read: BOOLEAN, got: Seen] /\ sees' \in Seen
    BY <1>0, <1>a DEF BoardTypeOK, Seen
  <2> QED BY <1>0, <1>a, <1>d, <2>1 DEF BoardTypeOK
<1>2. CommandsAre'
  BY <1>0, <1>a, <1>c, CommandIs DEF CommandsAre
<1>3. KeysOwned'
  BY <1>0, <1>a, <1>c, OwnersStay
<1>4. MonthGoesOn
  BY <1>0 DEF MonthGoesOn
<1>5. ResumesKept
  <2> SUFFICES ASSUME NEW n \in Nat, Resumed(n) PROVE Resumed(n)'
    BY DEF ResumesKept
  <2>1. CASE "resume" \in unsure \/ told > n
    BY <1>0, <1>a, <2>1 DEF Resumed
  <2>2. ASSUME NEW d \in Commands, ResumedBy(d, n) PROVE Resumed(n)'
    <3>1. command[d].reply.at \in Nat /\ command[d].reply.at > n
      BY <1>0, <2>2, CommandIs, MonthIs DEF ResumedBy, Seen
    <3>2. told' > n \/ ResumedBy(d, n)'
      BY <1>c, <2>2, <3>1 DEF ResumedBy
    <3> QED BY <3>2 DEF Resumed
  <2> QED BY <2>1, <2>2 DEF Resumed
<1>6. NewsKept
  BY <1>0, <1>a, <1>c, MonthIs DEF NewsKept, Snapshots
<1>7. ShowsTold' /\ ReadsSince'
  BY <1>a DEF ShowsTold, ReadsSince
<1> QED BY <1>0, <1>1, <1>2, <1>3, <1>4, <1>5, <1>6, <1>7, PastStays DEF BoardSafe

\* A player who leaves.
LEMMA LeaveBoardKeeps ==
  ASSUME BoardSafe, LeaveBoard
  PROVE  BoardSafe'
<1>1. PICK commands \in [Commands -> Command] : commands = command
  BY DEF BoardSafe, BoardTypeOK
<1>2. /\ Close(commands) /\ UNCHANGED <<month, timedMode, actions, keys, meant, done, told, overtaken>>
      /\ told \in Nat /\ told <= month.at /\ overtaken \in BOOLEAN
  BY <1>1 DEF LeaveBoard, BoardSafe, BoardTypeOK, SnapshotsPast
<1> QED BY <1>1, <1>2, CloseKeeps

\* An answer that is applied; the board was told of the month as it was then.
LEMMA TakeResultKeeps ==
  ASSUME BoardSafe, NEW c \in Commands, TakeResult(c)
  PROVE  BoardSafe'
<1>0. /\ BoardTypeOK /\ CommandsAre /\ KeysOwned /\ SnapshotsPast /\ ShowsTold /\ ReadsSince
      /\ month \in Months /\ month.at \in Nat /\ told \in Nat /\ told <= month.at
      /\ lastRead \in Nat
  BY MonthIs DEF BoardSafe, BoardTypeOK, SnapshotsPast
<1>a. PICK s \in Months : s = command[c].reply
  BY <1>0, CommandIs DEF TakeResult, CommandsAre, Seen
<1>b. /\ s.at \in Nat /\ s.at <= month.at /\ s # Nothing /\ command[c].button \in Buttons
      /\ command[c].live /\ command[c].step = "ok"
  <2>1. s \in Snapshots
    BY <1>a DEF Snapshots
  <2> QED BY <1>0, <1>a, <2>1, CommandIs, MonthIs DEF SnapshotsPast, Past, TakeResult, CommandsAre
<1>c. /\ told' = IF s.at > told THEN s.at ELSE told
      /\ overtaken' = (overtaken \/ s.at < told)
      /\ UNCHANGED <<month, timedMode, actions, keys, meant, done>>
  BY <1>a DEF TakeResult
<1>d. /\ told' \in Nat /\ told' >= told /\ told' >= s.at /\ told' <= month.at /\ overtaken' \in BOOLEAN
      /\ ~overtaken' => told' <= s.at
  <2>1. told' \in Nat /\ told' >= told /\ told' >= s.at /\ told' <= month.at
    BY <1>0, <1>b, <1>c
  <2>2. CASE s.at < told
    BY <1>c, <2>1, <2>2
  <2>3. CASE ~(s.at < told)
    <3>1. told' <= s.at
      BY <1>0, <1>b, <1>c, <2>3
    <3>2. overtaken' = overtaken /\ overtaken \in BOOLEAN
      BY <1>0, <1>c, <2>3 DEF BoardTypeOK
    <3> QED BY <2>1, <3>1, <3>2
  <2> QED BY <2>2, <2>3
<1>e. PICK others \in [Commands -> Command] : others = [command EXCEPT ![c] = NoCommand]
  BY <1>0, NoCommandIs DEF BoardTypeOK
<1>f. others[c] = NoCommand /\ \A d \in Commands \ {c} : others[d] = command[d]
  BY <1>0, <1>e DEF BoardTypeOK
<1>8. CASE command[c].button \in {"save", "discard"}
  <2>1. Close(others)
    BY <1>8, <1>e DEF TakeResult
  <2> QED BY <1>a, <1>c, <1>d, <1>f, <2>1, CloseKeeps
<1>9. CASE command[c].button \notin {"save", "discard"}
  <2>1. /\ command' = others /\ sees' = s /\ lastRead' = lastRead + 1
        /\ keptKey' = [keptKey EXCEPT ![command[c].button] = 0]
        /\ UNCHANGED <<boards, reads, unsure>>
    BY <1>9, <1>a, <1>e DEF TakeResult, Bump
  <2>2. /\ command' \in [Commands -> Command] /\ Others(c) /\ command'[c].button = "none"
        /\ ~command'[c].live /\ command'[c].step = "none" /\ command'[c].reply = Nothing
    BY <1>f, <2>1, NoCommandIs DEF Others
  <2>3. BoardTypeOK'
    <3>1. reads' \subseteq [id: 1..lastRead', read: BOOLEAN, got: Seen]
      <4>1. reads \subseteq [id: 1..(lastRead + 1), read: BOOLEAN, got: Seen]
        BY <1>0 DEF BoardTypeOK
      <4> QED BY <2>1, <4>1
    <3>2. sees' \in Seen /\ lastRead' \in Nat
      BY <1>0, <2>1 DEF Seen
    <3>3. keptKey' \in [Buttons -> Keys \cup {0}]
      <4>1. keptKey \in [Buttons -> Keys \cup {0}]
        BY <1>0 DEF BoardTypeOK
      <4> QED BY <2>1, <4>1
    <3> QED BY <1>0, <1>c, <1>d, <2>1, <2>2, <3>1, <3>2, <3>3 DEF BoardTypeOK
  <2>4. CommandsAre'
    BY <1>0, <2>1, <2>2 DEF CommandsAre, Others
  <2>5. KeysOwned'
    <3>1. \A b \in Buttons : keptKey'[b] = 0 \/ keptKey'[b] = keptKey[b]
      BY <1>0, <2>1 DEF BoardTypeOK
    <3> QED BY <1>0, <1>c, <2>2, <3>1, OwnersStay DEF Others
  <2>6. MonthGoesOn
    BY <1>0, <1>c, <1>d DEF MonthGoesOn
  <2>7. ResumesKept
    <3> SUFFICES ASSUME NEW n \in Nat, Resumed(n) PROVE Resumed(n)'
      BY DEF ResumesKept
    <3>1. CASE "resume" \in unsure \/ told > n
      BY <1>0, <1>d, <2>1, <3>1 DEF Resumed
    <3>2. ASSUME NEW d \in Commands, ResumedBy(d, n) PROVE Resumed(n)'
      <4>1. CASE d = c
        BY <1>a, <1>b, <1>d, <3>2, <4>1 DEF Resumed, ResumedBy
      <4>2. CASE d # c
        BY <2>2, <3>2, <4>2 DEF Resumed, ResumedBy, Others
      <4> QED BY <4>1, <4>2
    <3> QED BY <3>1, <3>2 DEF Resumed
  <2>8. NewsKept
    BY <1>0, <1>a, <1>c, <2>1, <2>2, MonthIs DEF NewsKept, Snapshots, Others
  <2>9. ShowsTold'
    BY <1>d, <2>1 DEF ShowsTold
  <2>10. ReadsSince'
    BY <1>0, <2>1 DEF ReadsSince, BoardTypeOK
  <2> QED BY <1>0, <2>3, <2>4, <2>5, <2>6, <2>7, <2>8, <2>9, <2>10, PastStays DEF BoardSafe
<1> QED BY <1>8, <1>9

\* A refusal that is shown, or ends the visit.
LEMMA TakeRefusalKeeps ==
  ASSUME BoardSafe, NEW c \in Commands, TakeRefusal(c)
  PROVE  BoardSafe'
<1>0. /\ BoardTypeOK /\ CommandsAre /\ KeysOwned /\ SnapshotsPast /\ ShowsTold /\ ReadsSince
      /\ month \in Months /\ month.at \in Nat /\ told \in Nat /\ told <= month.at
      /\ overtaken \in BOOLEAN
  BY MonthIs DEF BoardSafe, BoardTypeOK, SnapshotsPast
<1>a. PICK others \in [Commands -> Command] : others = [command EXCEPT ![c] = NoCommand]
  BY <1>0, NoCommandIs DEF BoardTypeOK
<1>b. /\ others[c] = NoCommand /\ \A d \in Commands \ {c} : others[d] = command[d]
      /\ command[c].step = "refused"
      /\ UNCHANGED <<month, timedMode, actions, keys, meant, done, told, overtaken>>
  BY <1>0, <1>a DEF BoardTypeOK, TakeRefusal
<1>8. CASE Close(others)
  BY <1>0, <1>b, <1>8, CloseKeeps
<1>9. CASE command' = others /\ UNCHANGED <<sees, boards, keptKey, reads, lastRead, unsure>>
  <2>1. /\ command' \in [Commands -> Command] /\ Others(c) /\ command'[c].button = "none"
        /\ ~command'[c].live /\ command'[c].step = "none" /\ command'[c].reply = Nothing
    BY <1>b, <1>9, NoCommandIs DEF Others
  <2>2. BoardTypeOK'
    BY <1>0, <1>b, <1>9, <2>1 DEF BoardTypeOK
  <2>3. CommandsAre'
    BY <1>0, <1>9, <2>1 DEF CommandsAre, Others
  <2>4. KeysOwned'
    BY <1>0, <1>b, <1>9, <2>1, OwnersStay DEF Others
  <2>5. MonthGoesOn
    BY <1>0, <1>b DEF MonthGoesOn
  <2>6. ResumesKept
    BY <1>0, <1>b, <1>9, <2>1 DEF ResumesKept, Resumed, ResumedBy, Others
  <2>7. NewsKept
    BY <1>0, <1>b, <1>9, <2>1, MonthIs DEF NewsKept, Snapshots, Others
  <2>8. ShowsTold' /\ ReadsSince'
    BY <1>0, <1>b, <1>9 DEF ShowsTold, ReadsSince
  <2> QED BY <1>0, <2>2, <2>3, <2>4, <2>5, <2>6, <2>7, <2>8, PastStays DEF BoardSafe
<1> QED BY <1>a, <1>8, <1>9 DEF TakeRefusal

-----------------------------------------------------------------------------
(* The theorems                                                            *)

\* Before the first board is opened nothing was meant, done or seen.
LEMMA BoardBegin ==
  ASSUME BoardInit
  PROVE  BoardSafe
<1> USE BoardConstants
<1>1. BoardTypeOK
  <2>1. month \in Months
    BY DEF BoardInit, Months
  <2>2. command \in [Commands -> Command]
    BY NoCommandIs DEF BoardInit
  <2>3. /\ timedMode \in BOOLEAN /\ actions \in [Keys -> Seen] /\ sees \in Seen
        /\ keptKey \in [Buttons -> Keys \cup {0}]
    BY DEF BoardInit, Seen
  <2>4. boards \in [opened: 0..MaxBoards, open: BOOLEAN]
    BY DEF BoardInit
  <2>5. keys \in 0..MaxKeys /\ lastRead \in Nat /\ reads = {} /\ told \in Nat
    BY DEF BoardInit
  <2>6. meant \in [Buttons -> Nat] /\ done = meant
    BY DEF BoardInit
  <2>7. unsure \subseteq Buttons /\ overtaken \in BOOLEAN
    BY DEF BoardInit
  <2> QED BY <2>1, <2>2, <2>3, <2>4, <2>5, <2>6, <2>7 DEF BoardTypeOK
<1>2. CommandsAre
  BY NoCommandIs DEF BoardInit, CommandsAre
<1>3. KeysOwned
  <2> DEFINE own == [k \in Keys |-> "none"]
  <2>1. own \in [Keys -> Buttons \cup {"none"}] /\ \A k \in Keys : own[k] = "none"
    OBVIOUS
  <2> HIDE DEF own
  <2>2. \A b \in Buttons : Meant(own, b) = {} /\ Done(own, b) = {}
    BY <2>1 DEF Meant, Done, Buttons
  <2>3. \A b \in Buttons : meant[b] = Cardinality(Meant(own, b)) /\ done[b] = Cardinality(Done(own, b))
    BY <2>2, FS_EmptySet DEF BoardInit
  <2>4. /\ \A k \in Keys : own[k] = "none" <=> k > keys
        /\ \A k \in Keys : ~Recorded(k)
    BY <2>1 DEF BoardInit, Keys, Recorded
  <2>5. /\ \A c \in Commands : command[c].button = "none"
        /\ \A b \in Buttons : keptKey[b] = 0
    BY NoCommandIs DEF BoardInit
  <2> QED BY <2>1, <2>3, <2>4, <2>5 DEF KeysOwned, Owned
<1>4. SnapshotsPast
  BY NoCommandIs, NothingIsNoMonth DEF BoardInit, SnapshotsPast, Snapshots
<1>5. ShowsTold /\ ReadsSince
  BY DEF BoardInit, ShowsTold, ReadsSince
<1> QED BY <1>1, <1>2, <1>3, <1>4, <1>5 DEF BoardSafe

\* Every step keeps the invariant.
LEMMA BoardStepKeeps ==
  ASSUME BoardSafe, [BoardNext]_boardVars
  PROVE  BoardSafe'
<1>1. CASE UNCHANGED boardVars
  <2>1. PICK own \in [Keys -> Buttons \cup {"none"}] : Owned(own)
    BY DEF BoardSafe, KeysOwned
  <2>2. \A b \in Buttons : Meant(own, b)' = Meant(own, b) /\ Done(own, b)' = Done(own, b)
    BY <1>1 DEF Meant, Done, Recorded, boardVars
  <2>3. KeysOwned'
    BY <1>1, <2>1, <2>2 DEF Owned, KeysOwned, Recorded, boardVars
  <2>4. BoardTypeOK' /\ CommandsAre'
    BY <1>1 DEF BoardSafe, BoardTypeOK, CommandsAre, boardVars
  <2>5. SnapshotsPast'
    BY <1>1 DEF BoardSafe, SnapshotsPast, Snapshots, Past, Resumed, ResumedBy, boardVars
  <2>6. ShowsTold' /\ ReadsSince'
    BY <1>1 DEF BoardSafe, ShowsTold, ReadsSince, boardVars
  <2> QED BY <2>3, <2>4, <2>5, <2>6 DEF BoardSafe
<1>2. CASE OpenBoard \/ LeaveBoard \/ Refetch
  BY <1>2, OpenBoardKeeps, LeaveBoardKeeps, RefetchKeeps
<1>3. CASE \E r \in reads : ServeRead(r) \/ ApplyRead(r) \/ ReadFails(r)
  BY <1>3, ServeReadKeeps, ApplyReadKeeps, ReadFailsKeeps
<1>4. CASE \E c \in Commands : \E b \in Buttons : Press(c, b)
  BY <1>4, PressKeeps
<1>5. CASE \E c \in Commands : \/ LookUp(c) \/ CheckCommand(c) \/ PauseOrSave(c)
                               \/ UpdateMonth(c) \/ Vanish(c)
  BY <1>5, LookUpKeeps, CheckCommandKeeps, WriteKeeps, VanishKeeps
<1>6. CASE \E c \in Commands : TakeResult(c) \/ TakeRefusal(c) \/ GiveUp(c)
  BY <1>6, TakeResultKeeps, TakeRefusalKeeps, GiveUpKeeps
<1> QED BY <1>1, <1>2, <1>3, <1>4, <1>5, <1>6 DEF BoardNext

\* So it holds throughout.
LEMMA BoardAlways == BoardSpec => []BoardSafe
<1>1. BoardInit => BoardSafe
  BY BoardBegin
<1>2. BoardSafe /\ [BoardNext]_boardVars => BoardSafe'
  BY BoardStepKeeps
<1> QED BY <1>1, <1>2, PTL DEF BoardSpec

\* The month, the records under the keys, the commands and the loads stay what
\* they are, whatever happens to a board.
THEOREM BoardTyped == BoardSpec => []BoardTypeOK
<1>1. BoardSafe => BoardTypeOK
  BY DEF BoardSafe
<1> QED BY <1>1, BoardAlways, PTL

\* A command is recorded under a key that was drawn for it, once.
LEMMA DoneIsMeant ==
  ASSUME BoardSafe
  PROVE  DoneAsMeant
<1>1. PICK own \in [Keys -> Buttons \cup {"none"}] : Owned(own)
  BY DEF BoardSafe, KeysOwned
<1> SUFFICES ASSUME NEW b \in Buttons PROVE done[b] <= meant[b]
  BY DEF DoneAsMeant
<1>2. Done(own, b) \subseteq Meant(own, b) /\ Meant(own, b) \in SUBSET Keys
  BY DEF Done, Meant
<1>3. Cardinality(Done(own, b)) <= Cardinality(Meant(own, b))
  BY <1>2, KeysCount, FS_Subset
<1> QED BY <1>1, <1>3 DEF Owned

\* A month that was paused when the board last heard of it is not resumed without
\* the board being told.
LEMMA PausedIsStopped ==
  ASSUME BoardSafe
  PROVE  PausedMeansStopped
<1> SUFFICES ASSUME sees # Nothing, sees.status = "PAUSED", "resume" \notin unsure,
                    \A c \in Commands : command[c].button # "resume", ~overtaken,
                    month.status = "ACTIVE"
             PROVE  FALSE
  BY DEF PausedMeansStopped
<1>1. PICK s \in Months : s = sees
  BY DEF BoardSafe, BoardTypeOK, Seen
<1>2. s \in Snapshots
  BY <1>1 DEF Snapshots
<1>3. Past(s)
  BY <1>2 DEF BoardSafe, SnapshotsPast
<1>4. Resumed(s.at)
  BY <1>1, <1>3 DEF Past
<1>5. told > s.at
  BY <1>4 DEF Resumed, ResumedBy
<1>6. told <= s.at /\ told \in Nat /\ s.at \in Nat
  BY <1>1, MonthIs DEF BoardSafe, ShowsTold, BoardTypeOK
<1> QED BY <1>5, <1>6

\* What the player asks for by pressing a button happens at most once, through
\* retries, lost answers and late commands; and a board that shows the month
\* paused is right, but for a resumption it asked for itself and does not know
\* the end of, and an answer that another overtook (the idempotency keys with
\* SimulationAction, and requestId of useSimulation).
THEOREM BoardTellsTheTruth == BoardSpec => []BoardIsTrue
<1>1. BoardSafe => BoardIsTrue
  BY DoneIsMeant, PausedIsStopped DEF BoardIsTrue
<1> QED BY <1>1, BoardAlways, PTL

-----------------------------------------------------------------------------
(* The session: numbers                                                    *)

\* The greater of two numbers.
LEMMA MaxIs ==
  ASSUME NEW a \in Int, NEW b \in Int
  PROVE  Max({a, b}) = IF a >= b THEN a ELSE b
BY DEF Max

\* The lesser of two numbers.
LEMMA MinIs ==
  ASSUME NEW a \in Int, NEW b \in Int
  PROVE  Min({a, b}) = IF a <= b THEN a ELSE b
BY DEF Min

\* The ticks that are kept of a deadline.
LEMMA TicksAre ==
  /\ None \in Ticks /\ None \notin Int /\ DayLength \in Ticks /\ DecisionLength \in Ticks
  /\ 0 \in Ticks
  /\ \A t \in Ticks : t # None =>
       /\ t \in Int /\ Later(t) \in Ticks /\ Max({0, t}) \in Ticks \ (-MaxLag)..(-1)
       /\ t <= 0 => t + DayLength \in Ticks
<1>1. /\ DayLength \in Nat /\ DecisionLength \in Nat /\ MaxLag \in Nat /\ None \notin Int
  BY SimulationConstants
<1>2. PICK top \in Nat : /\ top = Max({DayLength, DecisionLength})
                         /\ top >= DayLength /\ top >= DecisionLength
  BY <1>1, MaxIs
<1>3. Ticks = (-MaxLag)..top \cup {None}
  BY <1>2 DEF Ticks
<1>4. ASSUME NEW t \in Ticks, t # None
      PROVE  /\ t \in Int /\ Later(t) \in Ticks /\ Max({0, t}) \in Ticks \ (-MaxLag)..(-1)
             /\ t <= 0 => t + DayLength \in Ticks
  <2>1. t \in Int /\ -MaxLag <= t /\ t <= top
    BY <1>1, <1>3, <1>4
  <2>2. /\ Later(t) = IF t - 1 >= -MaxLag THEN t - 1 ELSE -MaxLag
        /\ Max({0, t}) = IF 0 >= t THEN 0 ELSE t
    BY <1>1, <1>4, <2>1, MaxIs DEF Later
  <2> QED BY <1>1, <1>2, <1>3, <2>1, <2>2
<1> QED BY <1>1, <1>2, <1>3, <1>4

-----------------------------------------------------------------------------
(* What a session is                                                       *)

Sources == {"PAYMENT", "MISSED", "DECISION", "EXPIRY", "BONUS"}
Subjects == Bills \cup Events \cup {None}
Entry == [source: Sources, of: Subjects, points: Int]
Ledgers == UNION {[S -> Nat \ {0}] : S \in SUBSET Entry}
Sessions == [status: Status, hold: Hold, timed: Modes, day: 0..Days,
             nextDay: Ticks, decision: Ticks, paused: Ticks \ (-MaxLag)..(-1),
             bill: [Bills -> {"ABSENT", "SCHEDULED", "PAYABLE", "PAID", "MISSED"}],
             intro: [Scheduled -> {"WAITING", "SHOWN", "SEEN"}],
             event: [Events -> {"SCHEDULED", "REVEALED", "RESOLVED", "EXPIRED"}],
             taken: [Events -> 0..Budget], current: 0..Budget, savings: 0..Budget,
             score: Int, ledger: Ledgers, rewarded: BOOLEAN, xp: Nat]

\* What two sessions have in common.
SameClock(x, y) == /\ y.timed = x.timed /\ y.nextDay = x.nextDay
                   /\ y.decision = x.decision /\ y.paused = x.paused
SamePlace(x, y) == y.status = x.status /\ y.hold = x.hold /\ y.day = x.day
SameThings(x, y) == y.bill = x.bill /\ y.intro = x.intro /\ y.event = x.event
SameMoney(x, y) == y.current = x.current /\ y.savings = x.savings /\ y.taken = x.taken
SameScore(x, y) == y.score = x.score /\ y.ledger = x.ledger
SamePrize(x, y) == y.rewarded = x.rewarded /\ y.xp = x.xp

\* The parts of a session.
LEMMA SessionIs ==
  ASSUME NEW x \in Sessions
  PROVE  /\ x.status \in Status /\ x.hold \in Hold /\ x.timed \in Modes /\ x.day \in 0..Days
         /\ x.nextDay \in Ticks /\ x.decision \in Ticks /\ x.paused \in Ticks \ (-MaxLag)..(-1)
         /\ x.bill \in [Bills -> {"ABSENT", "SCHEDULED", "PAYABLE", "PAID", "MISSED"}]
         /\ x.intro \in [Scheduled -> {"WAITING", "SHOWN", "SEEN"}]
         /\ x.event \in [Events -> {"SCHEDULED", "REVEALED", "RESOLVED", "EXPIRED"}]
         /\ x.taken \in [Events -> 0..Budget] /\ x.current \in 0..Budget /\ x.savings \in 0..Budget
         /\ x.score \in Int /\ x.ledger \in Ledgers /\ x.rewarded \in BOOLEAN /\ x.xp \in Nat
BY DEF Sessions

-----------------------------------------------------------------------------
(* The ledger                                                              *)

\* The entries are there once and add up to the score.
Total(f) == SumFunctionOnSet([r \in DOMAIN f |-> r.points * f[r]], DOMAIN f)
Ledgered(x) == /\ IsFiniteSet(DOMAIN x.ledger)
               /\ \A r \in DOMAIN x.ledger : x.ledger[r] = 1
               /\ Reconciles(x)

\* New entries are added to the score.
LEMMA RecordIs ==
  ASSUME NEW x \in Sessions, Ledgered(x), NEW rows \in SUBSET Entry, IsFiniteSet(rows),
         rows \cap DOMAIN x.ledger = {}
  PROVE  LET y == Record(x, rows) IN
         /\ y \in Sessions /\ Ledgered(y) /\ DOMAIN y.ledger = DOMAIN x.ledger \cup rows
         /\ SameClock(x, y) /\ SamePlace(x, y) /\ SameThings(x, y) /\ SameMoney(x, y)
         /\ SamePrize(x, y)
<1>1. PICK D \in SUBSET Entry : x.ledger \in [D -> Nat \ {0}]
  <2>1. x.ledger \in Ledgers
    BY SessionIs
  <2> QED BY <2>1 DEF Ledgers
<1>2. /\ DOMAIN x.ledger = D /\ IsFiniteSet(D) /\ IsFiniteSet(D \cup rows) /\ D \cap rows = {}
      /\ \A r \in D : x.ledger[r] = 1
  BY <1>1, FS_Union DEF Ledgered
<1> DEFINE f == [r \in D |-> r.points * x.ledger[r]]
           g == [r \in rows |-> r.points]
           new == x.ledger (+) SetToBag(rows)
           h == [r \in D \cup rows |-> r.points * new[r]]
           s == x.score + SumFunctionOnSet(g, rows)
<1>3. /\ new \in [D \cup rows -> Nat \ {0}] /\ \A r \in D \cup rows : new[r] = 1
  BY <1>1, <1>2 DEF SetToBag, (+)
<1>4. /\ \A r \in D : f[r] = r.points /\ h[r] = f[r] /\ f[r] \in Int
      /\ \A r \in rows : g[r] = r.points /\ h[r] = g[r] /\ g[r] \in Int
  BY <1>1, <1>2, <1>3 DEF Entry
<1>5. x.score = SumFunctionOnSet(f, D)
  BY <1>2 DEF Ledgered, Reconciles, BagToSet
<1>6. SumFunctionOnSet(h, D \cup rows) = SumFunctionOnSet(h, D) + SumFunctionOnSet(h, rows)
  <2> HIDE DEF f, g, h
  <2> QED BY <1>2, <1>4, SumUnion
<1>7. SumFunctionOnSet(h, D) = SumFunctionOnSet(f, D)
      /\ SumFunctionOnSet(h, rows) = SumFunctionOnSet(g, rows)
      /\ SumFunctionOnSet(g, rows) \in Int
  <2> HIDE DEF f, g, h
  <2> QED BY <1>2, <1>4, SumEqual, SumTake
<1>8. s = SumFunctionOnSet(h, D \cup rows) /\ s \in Int
  BY <1>5, <1>6, <1>7, SessionIs
<1>9. Record(x, rows) = [x EXCEPT !.score = s, !.ledger = new]
  BY DEF Record
<1>10. new \in Ledgers /\ DOMAIN new = D \cup rows
  BY <1>1, <1>3 DEF Ledgers
<1>11. PICK sum, book : sum = s /\ book = new
  OBVIOUS
<1>12. /\ Record(x, rows) = [x EXCEPT !.score = sum, !.ledger = book]
       /\ sum \in Int /\ book \in Ledgers /\ DOMAIN book = D \cup rows
       /\ \A r \in D \cup rows : book[r] = 1
       /\ sum = SumFunctionOnSet([r \in DOMAIN book |-> r.points * book[r]], DOMAIN book)
  BY <1>3, <1>8, <1>9, <1>10, <1>11
<1> HIDE DEF s, new, f, g, h
<1>13. PICK y \in Sessions : /\ y = Record(x, rows) /\ y.score = sum /\ y.ledger = book
         /\ SameClock(x, y) /\ SamePlace(x, y) /\ SameThings(x, y) /\ SameMoney(x, y)
         /\ SamePrize(x, y)
  BY <1>12 DEF Sessions, SameClock, SamePlace, SameThings, SameMoney, SamePrize
<1>14. Ledgered(y)
  BY <1>2, <1>12, <1>13 DEF Ledgered, Reconciles, BagToSet
<1> QED BY <1>2, <1>12, <1>13, <1>14

\* What has an entry: the settled bills and events, and the end of the month.
Settled(x, source, of) ==
    \/ source = "PAYMENT" /\ of \in Bills /\ x.bill[of] = "PAID"
    \/ source = "MISSED" /\ of \in Bills /\ x.bill[of] = "MISSED"
    \/ source = "DECISION" /\ of \in Events /\ x.event[of] = "RESOLVED"
    \/ source = "EXPIRY" /\ of \in Events /\ x.event[of] = "EXPIRED"
    \/ source = "BONUS" /\ of = None /\ x.status = "COMPLETED"
Booked(x) ==
    /\ Ledgered(x)
    /\ \A r \in DOMAIN x.ledger : Settled(x, r.source, r.of)
    /\ \A s \in Sources, o \in Subjects : Settled(x, s, o) =>
         \E r \in DOMAIN x.ledger : r.source = s /\ r.of = o
    /\ \A r, q \in DOMAIN x.ledger : r.source = q.source /\ r.of = q.of => r = q

\* The entries of what is settled are there.
LEMMA BookIs ==
  ASSUME NEW w \in Sessions, NEW y \in Sessions, Booked(w), Ledgered(y), NEW rows \in SUBSET Entry,
         DOMAIN y.ledger = DOMAIN w.ledger \cup rows,
         \A r, q \in rows : r.source = q.source /\ r.of = q.of => r = q,
         \A r \in rows : ~Settled(w, r.source, r.of),
         \A s \in Sources, o \in Subjects : Settled(y, s, o) <=>
           Settled(w, s, o) \/ \E r \in rows : r.source = s /\ r.of = o
  PROVE  Booked(y)
<1>1. \A r \in DOMAIN y.ledger : r.source \in Sources /\ r.of \in Subjects
  <2>1. y.ledger \in Ledgers
    BY SessionIs
  <2> QED BY <2>1 DEF Ledgers, Entry
<1>2. \A r \in DOMAIN y.ledger : Settled(y, r.source, r.of)
  BY <1>1 DEF Booked
<1>3. \A s \in Sources, o \in Subjects : Settled(y, s, o) =>
        \E r \in DOMAIN y.ledger : r.source = s /\ r.of = o
  BY DEF Booked
<1>4. \A r, q \in DOMAIN y.ledger : r.source = q.source /\ r.of = q.of => r = q
  BY DEF Booked
<1> QED BY <1>2, <1>3, <1>4 DEF Booked

\* They stay as they are when nothing is settled.
LEMMA BookStays ==
  ASSUME NEW x \in Sessions, NEW y \in Sessions, Booked(x), SameScore(x, y),
         x.status = "COMPLETED" <=> y.status = "COMPLETED",
         \A b \in Bills : /\ x.bill[b] = "PAID" <=> y.bill[b] = "PAID"
                          /\ x.bill[b] = "MISSED" <=> y.bill[b] = "MISSED",
         \A e \in Events : /\ x.event[e] = "RESOLVED" <=> y.event[e] = "RESOLVED"
                           /\ x.event[e] = "EXPIRED" <=> y.event[e] = "EXPIRED"
  PROVE  Booked(y)
<1>1. \A s \in Sources, o \in Subjects : Settled(y, s, o) <=> Settled(x, s, o)
  BY DEF Settled
<1>2. Ledgered(y)
  BY DEF Booked, Ledgered, Reconciles, SameScore
<1>3. DOMAIN y.ledger = DOMAIN x.ledger \cup {} /\ {} \in SUBSET Entry
  BY DEF SameScore
<1> QED BY <1>1, <1>2, <1>3, BookIs

\* Bills that are late are missed.
LEMMA MissIs ==
  ASSUME NEW x \in Sessions, Booked(x), NEW late \in SUBSET Bills
  PROVE  LET y == Miss(x, late) IN
         /\ y \in Sessions /\ Booked(y)
         /\ SameClock(x, y) /\ SamePlace(x, y) /\ SameMoney(x, y) /\ SamePrize(x, y)
         /\ y.intro = x.intro /\ y.event = x.event
         /\ \A b \in Bills : y.bill[b] = IF b \in late /\ IsOpen(x, b) THEN "MISSED" ELSE x.bill[b]
<1> DEFINE missed == {b \in late : IsOpen(x, b)}
           bill == [b \in Bills |-> IF b \in missed THEN "MISSED" ELSE x.bill[b]]
           rows == {Row("MISSED", b, -Penalty[b]) : b \in missed}
<1>1. /\ missed \in SUBSET Bills /\ IsFiniteSet(missed)
      /\ \A b \in Bills : b \in missed <=> b \in late /\ IsOpen(x, b)
  BY RowsOfTheirOwn, FS_Subset
<1>2. IsFiniteSet(rows)
  <2> DEFINE M == [b \in missed |-> Row("MISSED", b, -Penalty[b])]
  <2>1. M \in Surjection(missed, rows)
    BY DEF Surjection
  <2> QED BY <1>1, <2>1, FS_Surjection
<1>3. rows \in SUBSET Entry
  BY <1>1, SimulationConstants DEF Entry, Row, Sources, Subjects
<1>4. /\ \A r \in rows : r.source = "MISSED" /\ r.of \in missed
      /\ \A r, q \in rows : r.source = q.source /\ r.of = q.of => r = q
      /\ \A b \in missed : \E r \in rows : r.source = "MISSED" /\ r.of = b
  <2>1. \A b \in missed : /\ Row("MISSED", b, -Penalty[b]) \in rows
                          /\ Row("MISSED", b, -Penalty[b]).source = "MISSED"
                          /\ Row("MISSED", b, -Penalty[b]).of = b
    BY DEF Row
  <2>2. \A r \in rows : \E b \in missed : r = Row("MISSED", b, -Penalty[b])
    OBVIOUS
  <2> HIDE DEF rows, missed
  <2>3. \A r \in rows : r.source = "MISSED" /\ r.of \in missed
    BY <2>1, <2>2
  <2>4. \A r, q \in rows : r.source = q.source /\ r.of = q.of => r = q
    BY <2>1, <2>2
  <2> QED BY <2>1, <2>3, <2>4
<1>5. /\ bill \in [Bills -> {"ABSENT", "SCHEDULED", "PAYABLE", "PAID", "MISSED"}]
      /\ \A b \in Bills : bill[b] = IF b \in missed THEN "MISSED" ELSE x.bill[b]
      /\ [b \in Bills |-> IF b \in missed THEN "MISSED" ELSE x.bill[b]] = bill
  BY SessionIs
<1>6. Miss(x, late) = Record([x EXCEPT !.bill = bill], rows)
  BY DEF Miss
<1>7. \A b \in missed : IsOpen(x, b)
  OBVIOUS
<1>8. PICK entries, gone, m : /\ entries = rows /\ gone = missed /\ m = bill
                             /\ entries \in SUBSET Entry /\ gone \in SUBSET Bills
  BY <1>1, <1>3
<1> HIDE DEF missed, bill, rows
<1>9. PICK w \in Sessions : /\ w = [x EXCEPT !.bill = m] /\ w.bill = m /\ w.intro = x.intro
        /\ w.event = x.event
        /\ SameClock(x, w) /\ SamePlace(x, w) /\ SameMoney(x, w) /\ SamePrize(x, w) /\ SameScore(x, w)
  <2>1. m \in [Bills -> {"ABSENT", "SCHEDULED", "PAYABLE", "PAID", "MISSED"}]
    BY <1>5, <1>8
  <2>2. PICK w : w = [x EXCEPT !.bill = m]
    OBVIOUS
  <2>3. w \in Sessions
    BY <2>1, <2>2 DEF Sessions
  <2>4. /\ w.bill = m /\ w.intro = x.intro /\ w.event = x.event
        /\ SameClock(x, w) /\ SamePlace(x, w) /\ SameMoney(x, w) /\ SamePrize(x, w)
        /\ SameScore(x, w)
    BY <2>2 DEF Sessions, SameClock, SamePlace, SameMoney, SamePrize, SameScore
  <2> QED BY <2>2, <2>3, <2>4
<1>10. Ledgered(w)
  BY <1>9 DEF Booked, Ledgered, Reconciles, SameScore
<1>11. \A r \in entries : ~Settled(x, r.source, r.of)
  BY <1>1, <1>4, <1>7, <1>8 DEF Settled, IsOpen
<1>12. entries \cap DOMAIN w.ledger = {}
  BY <1>9, <1>11 DEF Booked, SameScore
<1>13. PICK y \in Sessions : /\ y = Record(w, entries)
         /\ Ledgered(y) /\ DOMAIN y.ledger = DOMAIN w.ledger \cup entries
         /\ SameClock(w, y) /\ SamePlace(w, y) /\ SameThings(w, y) /\ SameMoney(w, y)
         /\ SamePrize(w, y)
  BY <1>2, <1>8, <1>10, <1>12, RecordIs
<1>14. /\ \A b \in Bills : y.bill[b] = IF b \in gone THEN "MISSED" ELSE x.bill[b]
       /\ y.event = x.event /\ y.intro = x.intro /\ y.status = x.status
       /\ DOMAIN y.ledger = DOMAIN x.ledger \cup entries
  BY <1>5, <1>8, <1>9, <1>13 DEF SameThings, SamePlace, SameScore
<1>15. \A s \in Sources, o \in Subjects : Settled(y, s, o) <=>
         Settled(x, s, o) \/ \E r \in entries : r.source = s /\ r.of = o
  BY <1>4, <1>7, <1>8, <1>14 DEF Settled, IsOpen
<1>16. Booked(y)
  BY <1>4, <1>8, <1>11, <1>13, <1>14, <1>15, BookIs
<1>17. /\ SameClock(x, y) /\ SamePlace(x, y) /\ SameMoney(x, y) /\ SamePrize(x, y)
  BY <1>9, <1>13 DEF SameClock, SamePlace, SameMoney, SamePrize
<1> QED BY <1>1, <1>6, <1>8, <1>9, <1>13, <1>14, <1>16, <1>17

-----------------------------------------------------------------------------
(* The steps of a transition                                               *)

\* Bills fall due.
LEMMA FallIs ==
  ASSUME NEW x \in Sessions, NEW y, y = Fall(x)
  PROVE  /\ y \in Sessions
         /\ SameClock(x, y) /\ SamePlace(x, y) /\ SameMoney(x, y) /\ SamePrize(x, y)
         /\ SameScore(x, y) /\ y.intro = x.intro /\ y.event = x.event
         /\ \A b \in Bills : /\ x.bill[b] \in {"ABSENT", "PAID", "MISSED"} => y.bill[b] = x.bill[b]
                             /\ IsOpen(x, b) => IsOpen(y, b)
<1>1. PICK m : m = [b \in Bills |-> IF x.bill[b] = "SCHEDULED" /\ Due[b] <= x.day
                                    THEN "PAYABLE" ELSE x.bill[b]]
  OBVIOUS
<1>2. m \in [Bills -> {"ABSENT", "SCHEDULED", "PAYABLE", "PAID", "MISSED"}]
  BY <1>1, SessionIs
<1>3. \A b \in Bills : m[b] = IF x.bill[b] = "SCHEDULED" /\ Due[b] <= x.day
                              THEN "PAYABLE" ELSE x.bill[b]
  BY <1>1
<1>4. y = [x EXCEPT !.bill = m]
  BY <1>1 DEF Fall, Sessions
<1>5. y \in Sessions /\ y.bill = m
  BY <1>2, <1>4 DEF Sessions
<1>6. /\ SameClock(x, y) /\ SamePlace(x, y) /\ SameMoney(x, y) /\ SamePrize(x, y)
      /\ SameScore(x, y) /\ y.intro = x.intro /\ y.event = x.event
  BY <1>4 DEF Sessions, SameClock, SamePlace, SameMoney, SamePrize, SameScore
<1> QED BY <1>3, <1>5, <1>6 DEF IsOpen

\* New bills are shown, and the day stands still.
LEMMA ShowIs ==
  ASSUME NEW x \in Sessions, NEW new \in SUBSET Scheduled, NEW y, y = Show(x, new)
  PROVE  /\ y \in Sessions /\ y.hold = "NEW_OBLIGATION" /\ y.nextDay = None
         /\ y.timed = x.timed /\ y.decision = x.decision /\ y.paused = x.paused
         /\ y.status = x.status /\ y.day = x.day /\ y.event = x.event
         /\ SameMoney(x, y) /\ SamePrize(x, y) /\ SameScore(x, y)
         /\ \A s \in Scheduled : y.intro[s] = IF s \in new THEN "SHOWN" ELSE x.intro[s]
         /\ \A b \in Bills : IF b \in new THEN IsOpen(y, b) ELSE y.bill[b] = x.bill[b]
<1>1. PICK m, i : /\ m = [b \in Bills |-> IF b \notin new THEN x.bill[b]
                                         ELSE IF Due[b] <= x.day THEN "PAYABLE"
                                         ELSE "SCHEDULED"]
                  /\ i = [s \in Scheduled |-> IF s \in new THEN "SHOWN" ELSE x.intro[s]]
  OBVIOUS
<1>2. m \in [Bills -> {"ABSENT", "SCHEDULED", "PAYABLE", "PAID", "MISSED"}]
  BY <1>1, SessionIs
<1>3. i \in [Scheduled -> {"WAITING", "SHOWN", "SEEN"}]
  BY <1>1, SessionIs
<1>4. y = [x EXCEPT !.intro = i, !.bill = m, !.hold = "NEW_OBLIGATION", !.nextDay = None]
  BY <1>1 DEF Show, Sessions
<1>5. "NEW_OBLIGATION" \in Hold /\ None \in Ticks
  BY TicksAre DEF Hold
<1>6. /\ y \in Sessions /\ y.bill = m /\ y.intro = i /\ y.hold = "NEW_OBLIGATION"
      /\ y.nextDay = None
  <2>1. y \in Sessions
    <3>1. PICK z \in Sessions : z = [x EXCEPT !.intro = i, !.bill = m]
      BY <1>2, <1>3 DEF Sessions
    <3>2. PICK w \in Sessions : w = [z EXCEPT !.hold = "NEW_OBLIGATION"]
      BY <1>5 DEF Sessions
    <3>3. y = [w EXCEPT !.nextDay = None]
      BY <1>4, <3>1, <3>2
    <3> QED BY <1>5, <3>3 DEF Sessions
  <2>2. y.bill = m /\ y.intro = i
    BY <1>4 DEF Sessions
  <2>3. y.hold = "NEW_OBLIGATION" /\ y.nextDay = None
    BY <1>4 DEF Sessions
  <2> QED BY <2>1, <2>2, <2>3
<1>7. /\ y.timed = x.timed /\ y.decision = x.decision /\ y.paused = x.paused
      /\ y.status = x.status /\ y.day = x.day /\ y.event = x.event
      /\ SameMoney(x, y) /\ SamePrize(x, y) /\ SameScore(x, y)
  BY <1>4 DEF Sessions, SameMoney, SamePrize, SameScore
<1>8. /\ \A s \in Scheduled : i[s] = IF s \in new THEN "SHOWN" ELSE x.intro[s]
      /\ \A b \in Bills : IF b \in new THEN m[b] \in {"SCHEDULED", "PAYABLE"} ELSE m[b] = x.bill[b]
  BY <1>1
<1> QED BY <1>6, <1>7, <1>8 DEF IsOpen

\* An event is revealed, and the day stands still.
LEMMA RevealIs ==
  ASSUME NEW x \in Sessions, NEW e \in Events, NEW y, y = Reveal(x, e)
  PROVE  /\ y \in Sessions /\ y.hold = "EVENT_REVEAL" /\ y.nextDay = None
         /\ y.timed = x.timed /\ y.paused = x.paused
         /\ y.status = x.status /\ y.day = x.day /\ y.bill = x.bill /\ y.intro = x.intro
         /\ SameMoney(x, y) /\ SamePrize(x, y) /\ SameScore(x, y)
         /\ y.event[e] = "REVEALED" /\ \A f \in Events \ {e} : y.event[f] = x.event[f]
<1>1. PICK v, d : /\ v = [x.event EXCEPT ![e] = "REVEALED"]
                  /\ d = IF x.timed THEN DecisionLength ELSE None
  OBVIOUS
<1>2. v \in [Events -> {"SCHEDULED", "REVEALED", "RESOLVED", "EXPIRED"}]
  BY <1>1, SessionIs
<1>3. d \in Ticks /\ "EVENT_REVEAL" \in Hold /\ None \in Ticks
  BY <1>1, TicksAre DEF Hold
<1>4. y = [x EXCEPT !.event = v, !.hold = "EVENT_REVEAL", !.decision = d, !.nextDay = None]
  BY <1>1 DEF Reveal, Sessions
<1>5. /\ y \in Sessions /\ y.event = v /\ y.hold = "EVENT_REVEAL" /\ y.nextDay = None
  <2>1. y \in Sessions
    <3>1. PICK z \in Sessions : z = [x EXCEPT !.event = v, !.hold = "EVENT_REVEAL"]
      BY <1>2, <1>3 DEF Sessions
    <3>2. PICK w \in Sessions : w = [z EXCEPT !.decision = d]
      BY <1>3 DEF Sessions
    <3>3. y = [w EXCEPT !.nextDay = None]
      BY <1>4, <3>1, <3>2
    <3> QED BY <1>3, <3>3 DEF Sessions
  <2>2. y.event = v /\ y.hold = "EVENT_REVEAL"
    BY <1>4 DEF Sessions
  <2>3. y.nextDay = None
    BY <1>4 DEF Sessions
  <2> QED BY <2>1, <2>2, <2>3
<1>6. /\ y.timed = x.timed /\ y.paused = x.paused
      /\ y.status = x.status /\ y.day = x.day /\ y.bill = x.bill /\ y.intro = x.intro
      /\ SameMoney(x, y) /\ SamePrize(x, y) /\ SameScore(x, y)
  BY <1>4 DEF Sessions, SameMoney, SamePrize, SameScore
<1>7. v[e] = "REVEALED" /\ \A f \in Events \ {e} : v[f] = x.event[f]
  BY <1>1, SessionIs
<1> QED BY <1>5, <1>6, <1>7

\* Bills of an outcome turn up.
LEMMA IntroduceIs ==
  ASSUME NEW x \in Sessions, NEW new, NEW d, NEW y, y = Introduce(x, new, d)
  PROVE  /\ y \in Sessions
         /\ SameClock(x, y) /\ SamePlace(x, y) /\ SameMoney(x, y) /\ SamePrize(x, y)
         /\ SameScore(x, y) /\ y.intro = x.intro /\ y.event = x.event
         /\ \A b \in Bills : y.bill[b] = IF b \in new /\ Due[b] > d THEN "SCHEDULED" ELSE x.bill[b]
<1>1. PICK m : m = [b \in Bills |-> IF b \in new /\ Due[b] > d THEN "SCHEDULED" ELSE x.bill[b]]
  OBVIOUS
<1>2. m \in [Bills -> {"ABSENT", "SCHEDULED", "PAYABLE", "PAID", "MISSED"}]
  BY <1>1, SessionIs
<1>3. \A b \in Bills : m[b] = IF b \in new /\ Due[b] > d THEN "SCHEDULED" ELSE x.bill[b]
  BY <1>1
<1>4. y = [x EXCEPT !.bill = m]
  BY <1>1 DEF Introduce, Sessions
<1>5. y \in Sessions /\ y.bill = m
  BY <1>2, <1>4 DEF Sessions
<1>6. /\ SameClock(x, y) /\ SamePlace(x, y) /\ SameMoney(x, y) /\ SamePrize(x, y)
      /\ SameScore(x, y) /\ y.intro = x.intro /\ y.event = x.event
  BY <1>4 DEF Sessions, SameClock, SamePlace, SameMoney, SamePrize, SameScore
<1> QED BY <1>3, <1>5, <1>6

\* A cost is taken from the two accounts, as far as they go.
LEMMA DebitIs ==
  ASSUME NEW x \in Sessions, NEW cost \in Nat, NEW y, y = Debit(x, cost)
  PROVE  /\ y \in Sessions
         /\ SameClock(x, y) /\ SamePlace(x, y) /\ SameThings(x, y) /\ SamePrize(x, y)
         /\ SameScore(x, y) /\ y.taken = x.taken
         /\ x.current \in Nat /\ x.savings \in Nat /\ y.current \in Nat /\ y.savings \in Nat
         /\ Covered(x, cost) \in Nat /\ Covered(x, cost) <= x.current + x.savings
         /\ y.current + y.savings = x.current + x.savings - Covered(x, cost)
         /\ \/ Covered(x, cost) = cost
            \/ Covered(x, cost) < cost /\ y.current = 0 /\ y.savings = 0
         /\ x.current + x.savings >= cost => Covered(x, cost) = cost
<1>1. Budget \in Nat /\ x.current \in 0..Budget /\ x.savings \in 0..Budget
  BY SimulationConstants, SessionIs
<1>2. PICK a, b, c \in Nat :
        /\ a = Min({x.current, cost}) /\ a = IF x.current <= cost THEN x.current ELSE cost
        /\ b = Min({x.savings, cost - a}) /\ b = IF x.savings <= cost - a THEN x.savings ELSE cost - a
        /\ c = Covered(x, cost)
        /\ c = IF cost <= x.current + x.savings THEN cost ELSE x.current + x.savings
  <2>1. PICK a \in Nat : a = Min({x.current, cost}) /\ a = IF x.current <= cost THEN x.current ELSE cost
    BY <1>1, MinIs
  <2>2. cost - a \in Int /\ cost - a >= 0 /\ x.savings \in Nat
    BY <1>1, <2>1
  <2>3. PICK b \in Nat : /\ b = Min({x.savings, cost - a})
                         /\ b = IF x.savings <= cost - a THEN x.savings ELSE cost - a
    BY <2>2, MinIs
  <2>4. PICK c \in Nat : /\ c = Min({cost, x.current + x.savings})
                         /\ c = IF cost <= x.current + x.savings THEN cost ELSE x.current + x.savings
    BY <1>1, MinIs
  <2> QED BY <2>1, <2>3, <2>4 DEF Covered
<1>3. PICK p, q : p = x.current - a /\ q = x.savings - b
  OBVIOUS
<1>4. p \in 0..Budget /\ q \in 0..Budget
  BY <1>1, <1>2, <1>3
<1>5. y = [x EXCEPT !.current = p, !.savings = q]
  BY <1>2, <1>3 DEF Debit, Sessions
<1>6. y \in Sessions /\ y.current = p /\ y.savings = q
  BY <1>4, <1>5 DEF Sessions
<1>7. /\ SameClock(x, y) /\ SamePlace(x, y) /\ SameThings(x, y) /\ SamePrize(x, y)
      /\ SameScore(x, y) /\ y.taken = x.taken
  BY <1>5 DEF Sessions, SameClock, SamePlace, SameThings, SamePrize, SameScore
<1>8. /\ c <= x.current + x.savings
      /\ p + q = x.current + x.savings - c
      /\ \/ c = cost
         \/ c < cost /\ p = 0 /\ q = 0
      /\ x.current + x.savings >= cost => c = cost
  BY <1>1, <1>2, <1>3
<1>9. x.current \in Nat /\ x.savings \in Nat /\ p \in Nat /\ q \in Nat
  BY <1>1, <1>4
<1> QED BY <1>2, <1>6, <1>7, <1>8, <1>9

-----------------------------------------------------------------------------
(* What holds of a session between two requests                            *)

\* The days of what is to come, and bills nobody has been shown yet.
Calendar(x) ==
    /\ \A e \in Events :
         /\ x.event[e] = "SCHEDULED" => x.day <= TriggerDay[e]
         /\ x.event[e] = "REVEALED" => x.day = TriggerDay[e]
         /\ x.event[e] \in {"SCHEDULED", "REVEALED"} =>
              \A o \in Options[e] \cup {Expiry[e]} : \A b \in o.bills : x.bill[b] = "ABSENT"
    /\ \A s \in Scheduled : x.intro[s] = "WAITING" => x.day <= ShowDay[s] /\ x.bill[s] = "ABSENT"
\* No open bill is overdue.
Timely(x) == \A b \in Bills : IsOpen(x, b) => x.day <= Due[b]
Asked(x) ==
    /\ (x.hold = "EVENT_REVEAL") = (Revealed(x) # {})
    /\ \A e, f \in Revealed(x) : e = f
Prized(x) ==
    /\ x.rewarded <=> x.status = "COMPLETED"
    /\ x.xp = IF x.rewarded THEN 1 ELSE 0
Took(x, e) ==
    /\ x.event[e] = "RESOLVED" => \E o \in Options[e] : x.taken[e] = o.cost
    /\ x.event[e] = "EXPIRED" =>
         \/ x.taken[e] = Expiry[e].cost
         \/ x.taken[e] < Expiry[e].cost /\ x.current = 0 /\ x.savings = 0
    /\ x.event[e] \in {"SCHEDULED", "REVEALED"} => x.taken[e] = 0
Paid(x) == {b \in Bills : x.bill[b] = "PAID"}
Funded(x) ==
    /\ x.current + x.savings = Budget - SumFunctionOnSet(Amount, Paid(x))
                                      - SumFunctionOnSet(x.taken, Events)
    /\ \A e \in Events : Took(x, e)
    /\ x.current + x.savings <= Budget
Fresh(x) == x.status = "BRIEFING" =>
    /\ x.current + x.savings = Budget
    /\ \A e \in Events : x.event[e] = "SCHEDULED"
Sound(x) == /\ x \in Sessions /\ Calendar(x) /\ Timely(x) /\ Asked(x) /\ Prized(x)
            /\ Booked(x) /\ Funded(x) /\ Fresh(x)

\* Money is accounted for as before when none moves.
LEMMA FundsStay ==
  ASSUME NEW x \in Sessions, NEW y \in Sessions, Funded(x), SameMoney(x, y),
         \A b \in Bills : x.bill[b] = "PAID" <=> y.bill[b] = "PAID",
         \A e \in Events : /\ x.event[e] = "RESOLVED" <=> y.event[e] = "RESOLVED"
                           /\ x.event[e] = "EXPIRED" <=> y.event[e] = "EXPIRED"
  PROVE  Funded(y)
<1>1. Paid(y) = Paid(x)
  BY DEF Paid
<1>2. y.current = x.current /\ y.savings = x.savings /\ y.taken = x.taken
  BY DEF SameMoney
<1>3. \A e \in Events : y.event[e] \in {"SCHEDULED", "REVEALED"}
                         <=> x.event[e] \in {"SCHEDULED", "REVEALED"}
  BY SessionIs
<1>4. \A e \in Events : Took(y, e)
  BY <1>2, <1>3 DEF Funded, Took
<1> QED BY <1>1, <1>2, <1>4 DEF Funded

\* The event that comes first.
LEMMA FirstEventIs ==
  ASSUME NEW x, DueEvents(x) # {}
  PROVE  FirstEvent(x) \in DueEvents(x)
<1> DEFINE D == DueEvents(x)
           S == {TriggerDay[e] : e \in D}
<1>1. \A e \in D : e \in Events /\ TriggerDay[e] \in Nat
  BY SimulationConstants DEF DueEvents
<1>2. S \in SUBSET Nat /\ S # {}
  BY <1>1
<1>3. PICK m \in S : \A k \in S : m <= k
  <2> HIDE DEF S
  <2> QED BY <1>2, LeastNumber
<1>4. \E e \in D : \A f \in D : TriggerDay[e] <= TriggerDay[f]
  BY <1>3
<1> QED BY <1>4 DEF FirstEvent

\* A day begins.
LEMMA StopForDayIs ==
  ASSUME NEW x \in Sessions, Booked(x), Calendar(x), NEW y, y = StopForDay(x)
  PROVE  /\ y \in Sessions /\ Booked(y) /\ SameMoney(x, y) /\ SamePrize(x, y)
         /\ y.timed = x.timed /\ y.paused = x.paused /\ y.status = x.status /\ y.day = x.day
         /\ \A b \in Bills :
              /\ x.bill[b] \in {"PAID", "MISSED"} => y.bill[b] = x.bill[b]
              /\ IsOpen(x, b) => IF Due[b] < x.day THEN y.bill[b] = "MISSED" ELSE IsOpen(y, b)
              /\ x.bill[b] = "ABSENT" =>
                   IF b \in NewBills(x) THEN IsOpen(y, b) ELSE y.bill[b] = "ABSENT"
         /\ \/ /\ NewBills(x) # {} /\ y.hold = "NEW_OBLIGATION" /\ y.nextDay = None
               /\ y.event = x.event
               /\ \A s \in Scheduled : y.intro[s] = IF s \in NewBills(x) THEN "SHOWN" ELSE x.intro[s]
            \/ /\ NewBills(x) = {} /\ y.hold = "EVENT_REVEAL" /\ y.nextDay = None
               /\ y.intro = x.intro
               /\ \E e \in DueEvents(x) :
                    /\ y.event[e] = "REVEALED"
                    /\ \A f \in Events \ {e} : y.event[f] = x.event[f]
            \/ /\ ~Stops(x) /\ y.hold = x.hold /\ y.nextDay = x.nextDay
               /\ y.decision = x.decision /\ y.event = x.event /\ y.intro = x.intro
<1>1. PICK late \in SUBSET Bills : late = {b \in Bills : Due[b] < x.day}
  OBVIOUS
<1>2. PICK w \in Sessions : /\ w = Miss(x, late) /\ Booked(w)
        /\ SameClock(x, w) /\ SamePlace(x, w) /\ SameMoney(x, w) /\ SamePrize(x, w)
        /\ w.intro = x.intro /\ w.event = x.event
        /\ \A b \in Bills : w.bill[b] = IF b \in late /\ IsOpen(x, b) THEN "MISSED" ELSE x.bill[b]
  BY MissIs
<1>3. NewBills(w) = NewBills(x) /\ DueEvents(w) = DueEvents(x)
  BY <1>2 DEF NewBills, DueEvents, SamePlace
<1>4. y = IF NewBills(w) # {} THEN Show(w, NewBills(w))
          ELSE IF DueEvents(w) # {} THEN Reveal(Fall(w), FirstEvent(w))
          ELSE Fall(w)
  BY <1>1, <1>2 DEF StopForDay
<1>5. \A b \in Bills : b \in late <=> Due[b] < x.day
  BY <1>1
<1>6. CASE NewBills(x) # {}
  <2>1. PICK new \in SUBSET Scheduled : new = NewBills(x)
    BY DEF NewBills
  <2>2. y = Show(w, new)
    BY <1>3, <1>4, <1>6, <2>1
  <2>3. /\ y \in Sessions /\ y.hold = "NEW_OBLIGATION" /\ y.nextDay = None
        /\ y.timed = w.timed /\ y.decision = w.decision /\ y.paused = w.paused
        /\ y.status = w.status /\ y.day = w.day /\ y.event = w.event
        /\ SameMoney(w, y) /\ SamePrize(w, y) /\ SameScore(w, y)
        /\ \A s \in Scheduled : y.intro[s] = IF s \in new THEN "SHOWN" ELSE w.intro[s]
        /\ \A b \in Bills : IF b \in new THEN IsOpen(y, b) ELSE y.bill[b] = w.bill[b]
    BY <2>2, ShowIs
  <2>4. \A b \in new : x.bill[b] = "ABSENT" /\ w.bill[b] = "ABSENT"
    BY <1>2, <2>1, SimulationConstants DEF NewBills, Calendar, IsOpen
  <2>5. Booked(y)
    BY <1>2, <2>3, <2>4, BookStays DEF IsOpen
  <2>6. \A b \in Bills :
          /\ x.bill[b] \in {"PAID", "MISSED"} => y.bill[b] = x.bill[b]
          /\ IsOpen(x, b) => IF Due[b] < x.day THEN y.bill[b] = "MISSED" ELSE IsOpen(y, b)
          /\ x.bill[b] = "ABSENT" => IF b \in new THEN IsOpen(y, b) ELSE y.bill[b] = "ABSENT"
    BY <1>2, <1>5, <2>3, <2>4 DEF IsOpen
  <2>7. /\ SameMoney(x, y) /\ SamePrize(x, y)
        /\ y.timed = x.timed /\ y.paused = x.paused /\ y.status = x.status /\ y.day = x.day
        /\ y.event = x.event
        /\ \A s \in Scheduled : y.intro[s] = IF s \in new THEN "SHOWN" ELSE x.intro[s]
    BY <1>2, <2>3 DEF SameMoney, SamePrize, SameClock, SamePlace
  <2> QED BY <1>6, <2>1, <2>3, <2>5, <2>6, <2>7
<1>7. ASSUME NewBills(x) = {}
      PROVE  \E v \in Sessions :
               /\ v = Fall(w) /\ Booked(v)
               /\ SameClock(x, v) /\ SamePlace(x, v) /\ SameMoney(x, v) /\ SamePrize(x, v)
               /\ v.intro = x.intro /\ v.event = x.event
               /\ \A b \in Bills :
                    /\ x.bill[b] \in {"ABSENT", "PAID", "MISSED"} => v.bill[b] = x.bill[b]
                    /\ IsOpen(x, b) => IF Due[b] < x.day THEN v.bill[b] = "MISSED" ELSE IsOpen(v, b)
  <2>1. PICK v \in Sessions : /\ v = Fall(w)
          /\ SameClock(w, v) /\ SamePlace(w, v) /\ SameMoney(w, v) /\ SamePrize(w, v)
          /\ SameScore(w, v) /\ v.intro = w.intro /\ v.event = w.event
          /\ \A b \in Bills : /\ w.bill[b] \in {"ABSENT", "PAID", "MISSED"} => v.bill[b] = w.bill[b]
                              /\ IsOpen(w, b) => IsOpen(v, b)
    BY FallIs
  <2>2. \A b \in Bills : w.bill[b] \in {"PAID", "MISSED", "ABSENT", "SCHEDULED", "PAYABLE"}
    BY SessionIs
  <2>3. Booked(v)
    <3>1. \A b \in Bills : /\ w.bill[b] = "PAID" <=> v.bill[b] = "PAID"
                           /\ w.bill[b] = "MISSED" <=> v.bill[b] = "MISSED"
      <4> TAKE b \in Bills
      <4>1. /\ w.bill[b] \in {"ABSENT", "PAID", "MISSED"} => v.bill[b] = w.bill[b]
            /\ w.bill[b] \in {"SCHEDULED", "PAYABLE"} => v.bill[b] \in {"SCHEDULED", "PAYABLE"}
            /\ w.bill[b] \in {"PAID", "MISSED", "ABSENT", "SCHEDULED", "PAYABLE"}
        <5>1. /\ w.bill[b] \in {"ABSENT", "PAID", "MISSED"} => v.bill[b] = w.bill[b]
              /\ IsOpen(w, b) => IsOpen(v, b)
              /\ w.bill[b] \in {"PAID", "MISSED", "ABSENT", "SCHEDULED", "PAYABLE"}
          BY <2>1, <2>2
        <5> QED BY <5>1 DEF IsOpen
      <4> QED BY <4>1
    <3> QED BY <1>2, <2>1, <3>1, BookStays DEF SamePlace
  <2>4. \A b \in Bills :
          /\ x.bill[b] \in {"ABSENT", "PAID", "MISSED"} => v.bill[b] = x.bill[b]
          /\ IsOpen(x, b) => IF Due[b] < x.day THEN v.bill[b] = "MISSED" ELSE IsOpen(v, b)
    <3> TAKE b \in Bills
    <3>1. /\ w.bill[b] \in {"ABSENT", "PAID", "MISSED"} => v.bill[b] = w.bill[b]
          /\ w.bill[b] \in {"SCHEDULED", "PAYABLE"} => v.bill[b] \in {"SCHEDULED", "PAYABLE"}
      <4>1. /\ w.bill[b] \in {"ABSENT", "PAID", "MISSED"} => v.bill[b] = w.bill[b]
            /\ IsOpen(w, b) => IsOpen(v, b)
        BY <2>1
      <4> QED BY <4>1 DEF IsOpen
    <3>2. w.bill[b] = IF Due[b] < x.day /\ x.bill[b] \in {"SCHEDULED", "PAYABLE"}
                      THEN "MISSED" ELSE x.bill[b]
      BY <1>2, <1>5 DEF IsOpen
    <3> QED BY <3>1, <3>2 DEF IsOpen
  <2>5. /\ SameClock(x, v) /\ SamePlace(x, v) /\ SameMoney(x, v) /\ SamePrize(x, v)
        /\ v.intro = x.intro /\ v.event = x.event
    BY <1>2, <2>1 DEF SameClock, SamePlace, SameMoney, SamePrize
  <2> QED BY <2>1, <2>3, <2>4, <2>5
<1>8. CASE NewBills(x) = {} /\ DueEvents(x) # {}
  <2>1. PICK v \in Sessions :
               /\ v = Fall(w) /\ Booked(v)
               /\ SameClock(x, v) /\ SamePlace(x, v) /\ SameMoney(x, v) /\ SamePrize(x, v)
               /\ v.intro = x.intro /\ v.event = x.event
               /\ \A b \in Bills :
                    /\ x.bill[b] \in {"ABSENT", "PAID", "MISSED"} => v.bill[b] = x.bill[b]
                    /\ IsOpen(x, b) => IF Due[b] < x.day THEN v.bill[b] = "MISSED" ELSE IsOpen(v, b)
    BY <1>7, <1>8
  <2>2. PICK e \in DueEvents(x) : e = FirstEvent(w)
    BY <1>3, <1>8, FirstEventIs
  <2>3. y = Reveal(v, e) /\ e \in Events
    BY <1>3, <1>4, <1>8, <2>1, <2>2 DEF DueEvents
  <2>4. /\ y \in Sessions /\ y.hold = "EVENT_REVEAL" /\ y.nextDay = None
        /\ y.timed = v.timed /\ y.paused = v.paused
        /\ y.status = v.status /\ y.day = v.day /\ y.bill = v.bill /\ y.intro = v.intro
        /\ SameMoney(v, y) /\ SamePrize(v, y) /\ SameScore(v, y)
        /\ y.event[e] = "REVEALED" /\ \A f \in Events \ {e} : y.event[f] = v.event[f]
    BY <2>3, RevealIs
  <2>5. v.event[e] = "SCHEDULED"
    BY <2>1, <2>2 DEF DueEvents
  <2>6. Booked(y)
    BY <2>1, <2>4, <2>5, BookStays
  <2>7. /\ SameMoney(x, y) /\ SamePrize(x, y)
        /\ y.timed = x.timed /\ y.paused = x.paused /\ y.status = x.status /\ y.day = x.day
        /\ y.intro = x.intro /\ \A f \in Events \ {e} : y.event[f] = x.event[f]
    BY <2>1, <2>4 DEF SameMoney, SamePrize, SameClock, SamePlace
  <2>8. \A b \in Bills :
          /\ x.bill[b] \in {"PAID", "MISSED"} => y.bill[b] = x.bill[b]
          /\ IsOpen(x, b) => IF Due[b] < x.day THEN y.bill[b] = "MISSED" ELSE IsOpen(y, b)
          /\ x.bill[b] = "ABSENT" => y.bill[b] = "ABSENT"
    BY <2>1, <2>4 DEF IsOpen
  <2> QED BY <1>8, <2>2, <2>4, <2>6, <2>7, <2>8
<1>9. CASE NewBills(x) = {} /\ DueEvents(x) = {}
  <2>1. y = Fall(w) /\ ~Stops(x)
    BY <1>3, <1>4, <1>9 DEF Stops
  <2> QED BY <1>7, <1>9, <2>1 DEF SameClock, SamePlace
<1> QED BY <1>6, <1>8, <1>9

\* The months of two sessions: days pass, or the month closes.
Passes(x, y) ==
    /\ x.day <= y.day
    /\ \A b \in Bills :
         /\ x.bill[b] \in {"PAID", "MISSED"} => y.bill[b] = x.bill[b]
         /\ IsOpen(x, b) => IsOpen(y, b) \/ (y.bill[b] = "MISSED" /\ Due[b] < y.day)
         /\ x.bill[b] = "ABSENT" => y.bill[b] = "ABSENT" \/ IsOpen(y, b)
    /\ \A e \in Events :
         /\ x.event[e] \in {"RESOLVED", "EXPIRED"} => y.event[e] = x.event[e]
         /\ x.event[e] = "SCHEDULED" => y.event[e] \in {"SCHEDULED", "REVEALED"}
         /\ x.event[e] = "REVEALED" => \/ y.event[e] = "REVEALED"
                                       \/ y.event[e] = "EXPIRED" /\ TriggerDay[e] = y.day
\* Nothing turns up as they pass.
Runs(x, y) ==
    /\ Passes(x, y) /\ y.event = x.event
    /\ \A b \in Bills : x.bill[b] = "ABSENT" => y.bill[b] = "ABSENT"
Closes(x, y) ==
    /\ x.status = "ACTIVE" /\ y.status = "COMPLETED" /\ y.day = Days
    /\ \A b \in Bills : y.bill[b] = IF IsOpen(x, b) THEN "MISSED" ELSE x.bill[b]
    /\ \A e \in Events : x.event[e] \in {"RESOLVED", "EXPIRED"} /\ y.event[e] = x.event[e]

\* A session at the beginning of a day, whose overdue bills are not yet missed.
Dawn(x) ==
    /\ x \in Sessions /\ Calendar(x) /\ Asked(x) /\ Prized(x) /\ Booked(x) /\ Funded(x)
    /\ x.status = "ACTIVE" /\ Revealed(x) = {}

\* A day begins soundly.
LEMMA DayBreaks ==
  ASSUME NEW x, Dawn(x), NEW y, y = StopForDay(x)
  PROVE  /\ Sound(y) /\ Passes(x, y) /\ y.status = "ACTIVE"
         /\ y.day = x.day /\ y.timed = x.timed
         /\ IF Stops(x) THEN y.nextDay = None
            ELSE Runs(x, y) /\ y.nextDay = x.nextDay /\ y.hold = x.hold /\ ~Stops(y)
<1>1. x \in Sessions /\ Calendar(x) /\ Asked(x) /\ Prized(x) /\ Booked(x) /\ Funded(x)
      /\ x.status = "ACTIVE" /\ Revealed(x) = {}
  BY DEF Dawn
<1>2. /\ y \in Sessions /\ Booked(y) /\ SameMoney(x, y) /\ SamePrize(x, y)
      /\ y.timed = x.timed /\ y.paused = x.paused /\ y.status = x.status /\ y.day = x.day
  BY <1>1, StopForDayIs
<1>3. \A b \in Bills :
        /\ x.bill[b] \in {"PAID", "MISSED"} => y.bill[b] = x.bill[b]
        /\ IsOpen(x, b) => IF Due[b] < x.day THEN y.bill[b] = "MISSED" ELSE IsOpen(y, b)
        /\ x.bill[b] = "ABSENT" => IF b \in NewBills(x) THEN IsOpen(y, b) ELSE y.bill[b] = "ABSENT"
  BY <1>1, StopForDayIs
<1>4. \/ /\ NewBills(x) # {} /\ y.hold = "NEW_OBLIGATION" /\ y.nextDay = None
         /\ y.event = x.event
         /\ \A s \in Scheduled : y.intro[s] = IF s \in NewBills(x) THEN "SHOWN" ELSE x.intro[s]
      \/ /\ NewBills(x) = {} /\ y.hold = "EVENT_REVEAL" /\ y.nextDay = None
         /\ y.intro = x.intro
         /\ \E e \in DueEvents(x) :
              /\ y.event[e] = "REVEALED"
              /\ \A f \in Events \ {e} : y.event[f] = x.event[f]
      \/ /\ ~Stops(x) /\ y.hold = x.hold /\ y.nextDay = x.nextDay
         /\ y.decision = x.decision /\ y.event = x.event /\ y.intro = x.intro
  BY <1>1, StopForDayIs
<1>5. \A b \in Bills : x.bill[b] \in {"ABSENT", "SCHEDULED", "PAYABLE", "PAID", "MISSED"}
  BY <1>1, SessionIs
<1>6. \A e \in Events : x.event[e] \in {"SCHEDULED", "RESOLVED", "EXPIRED"}
  BY <1>1, SessionIs DEF Revealed
<1>7. /\ \A e \in Events : x.event[e] = "SCHEDULED" => TriggerDay[e] >= x.day
      /\ \A e \in DueEvents(x) : /\ x.event[e] = "SCHEDULED" /\ TriggerDay[e] = x.day
                                 /\ e \in Events
  <2>1. \A e \in Events : x.event[e] = "SCHEDULED" => TriggerDay[e] >= x.day
    BY <1>1, SimulationConstants DEF Calendar
  <2>2. x.day \in Int /\ \A e \in Events : TriggerDay[e] \in Int
    BY <1>1, SessionIs, SimulationConstants
  <2> QED BY <2>1, <2>2 DEF DueEvents
<1>8. /\ \A e \in Events : /\ x.event[e] \in {"RESOLVED", "EXPIRED"} => y.event[e] = x.event[e]
                           /\ x.event[e] = "SCHEDULED" =>
                                \/ y.event[e] = "SCHEDULED"
                                \/ y.event[e] = "REVEALED" /\ TriggerDay[e] = x.day
  <2>1. CASE y.event = x.event
    BY <2>1
  <2>2. CASE y.event # x.event
    <3>1. PICK e \in DueEvents(x) : /\ y.event[e] = "REVEALED"
                                    /\ \A f \in Events \ {e} : y.event[f] = x.event[f]
      BY <1>4, <2>2
    <3>2. x.event[e] = "SCHEDULED" /\ TriggerDay[e] = x.day
      BY <1>7
    <3> QED BY <3>1, <3>2
  <2> QED BY <2>1, <2>2
<1>9. Passes(x, y)
  <2>1. x.day <= y.day
    BY <1>1, <1>2, SessionIs
  <2>2. \A b \in Bills :
         /\ x.bill[b] \in {"PAID", "MISSED"} => y.bill[b] = x.bill[b]
         /\ IsOpen(x, b) => IsOpen(y, b) \/ (y.bill[b] = "MISSED" /\ Due[b] < y.day)
         /\ x.bill[b] = "ABSENT" => y.bill[b] = "ABSENT" \/ IsOpen(y, b)
    <3> TAKE b \in Bills
    <3>1. /\ x.bill[b] \in {"PAID", "MISSED"} => y.bill[b] = x.bill[b]
          /\ IsOpen(x, b) => IF Due[b] < x.day THEN y.bill[b] = "MISSED" ELSE IsOpen(y, b)
          /\ x.bill[b] = "ABSENT" => IF b \in NewBills(x) THEN IsOpen(y, b) ELSE y.bill[b] = "ABSENT"
      BY <1>3
    <3>2. y.day = x.day
      BY <1>2
    <3> QED BY <3>1, <3>2, Zenon
  <2>3. \A e \in Events :
         /\ x.event[e] \in {"RESOLVED", "EXPIRED"} => y.event[e] = x.event[e]
         /\ x.event[e] = "SCHEDULED" => y.event[e] \in {"SCHEDULED", "REVEALED"}
         /\ x.event[e] # "REVEALED"
    BY <1>6, <1>8
  <2> QED BY <2>1, <2>2, <2>3 DEF Passes
<1>10. Calendar(y)
  <2>1. \A s \in Scheduled : /\ s \in Bills /\ ShowDay[s] \in Int /\ Due[s] \in Int
                             /\ ShowDay[s] < Due[s]
    BY SimulationConstants
  <2>2. \A s \in NewBills(x) : s \in Scheduled /\ x.intro[s] = "WAITING" /\ x.bill[s] = "ABSENT"
    BY <1>1 DEF NewBills, Calendar
  <2>3. ASSUME NEW e \in Events
        PROVE  /\ y.event[e] = "SCHEDULED" => y.day <= TriggerDay[e]
               /\ y.event[e] = "REVEALED" => y.day = TriggerDay[e]
               /\ y.event[e] \in {"SCHEDULED", "REVEALED"} =>
                    \A o \in Options[e] \cup {Expiry[e]} : \A b \in o.bills : y.bill[b] = "ABSENT"
    <3>1. y.event[e] \in {"SCHEDULED", "REVEALED"} => x.event[e] = "SCHEDULED"
      BY <1>6, <1>8
    <3>2. /\ y.event[e] = "SCHEDULED" => y.day <= TriggerDay[e]
          /\ y.event[e] = "REVEALED" => y.day = TriggerDay[e]
      <4>1. y.event[e] = "SCHEDULED" => x.day <= TriggerDay[e]
        BY <1>1, <3>1 DEF Calendar
      <4>2. y.event[e] = "REVEALED" => x.day = TriggerDay[e]
        BY <1>8, <3>1
      <4> QED BY <1>2, <4>1, <4>2
    <3>3. ASSUME y.event[e] \in {"SCHEDULED", "REVEALED"},
                 NEW o \in Options[e] \cup {Expiry[e]}, NEW b \in o.bills
          PROVE  y.bill[b] = "ABSENT"
      <4>1. x.bill[b] = "ABSENT"
        BY <1>1, <3>1, <3>3 DEF Calendar
      <4>2. b \in Bills /\ b \notin Scheduled
        <5>1. o \in Outcomes
          BY SimulationConstants
        <5> QED BY <5>1, RowsOfTheirOwn DEF Outcomes
      <4>3. b \notin NewBills(x)
        BY <4>2 DEF NewBills
      <4> QED BY <1>3, <4>1, <4>2, <4>3
    <3> QED BY <3>2, <3>3
  <2>4. ASSUME NEW s \in Scheduled, y.intro[s] = "WAITING"
        PROVE  y.day <= ShowDay[s] /\ y.bill[s] = "ABSENT"
    <3>1. x.intro[s] = "WAITING" /\ s \notin NewBills(x)
      BY <1>4, <2>4 DEF Stops
    <3>2. x.day <= ShowDay[s] /\ x.bill[s] = "ABSENT"
      BY <1>1, <3>1 DEF Calendar
    <3> QED BY <1>2, <1>3, <2>1, <3>1, <3>2
  <2> QED BY <2>3, <2>4 DEF Calendar
<1>11. Timely(y)
  <2> SUFFICES ASSUME NEW b \in Bills, IsOpen(y, b)
               PROVE  x.day <= Due[b]
    BY <1>2 DEF Timely
  <2>1. x.day \in Int /\ Due[b] \in Int
    BY <1>1, SessionIs, SimulationConstants
  <2>2. CASE b \in NewBills(x)
    <3>1. b \in Scheduled /\ x.intro[b] = "WAITING" /\ ShowDay[b] <= x.day
      BY <2>2 DEF NewBills
    <3>2. ShowDay[b] \in 1..(Due[b] - 1) /\ x.day <= ShowDay[b]
      BY <1>1, <3>1, SimulationConstants DEF Calendar
    <3> QED BY <2>1, <3>1, <3>2
  <2>3. CASE b \notin NewBills(x)
    <3>1. IsOpen(x, b)
      BY <1>3, <1>5, <2>3 DEF IsOpen
    <3>2. ~(Due[b] < x.day)
      BY <1>3, <3>1 DEF IsOpen
    <3> QED BY <2>1, <3>2
  <2> QED BY <2>2, <2>3
<1>12. Asked(y)
  <2>1. x.hold # "EVENT_REVEAL"
    BY <1>1 DEF Asked
  <2>2. CASE y.event = x.event
    <3>1. Revealed(y) = {}
      BY <1>1, <2>2 DEF Revealed
    <3>2. y.hold # "EVENT_REVEAL"
      <4>1. \A e \in DueEvents(x) : x.event[e] # "REVEALED"
        BY <1>7
      <4> QED BY <1>4, <2>1, <2>2, <4>1
    <3> QED BY <3>1, <3>2 DEF Asked
  <2>3. CASE y.event # x.event
    <3>1. y.hold = "EVENT_REVEAL"
      BY <1>4, <2>3
    <3>2. PICK e \in Events : /\ y.event[e] = "REVEALED"
                              /\ \A f \in Events \ {e} : y.event[f] = x.event[f]
      BY <1>4, <1>7, <2>3
    <3>3. Revealed(y) = {e}
      BY <1>6, <3>2 DEF Revealed
    <3> QED BY <3>1, <3>3 DEF Asked
  <2> QED BY <2>2, <2>3
<1>13. Funded(y)
  <2>1. \A b \in Bills : x.bill[b] = "PAID" <=> y.bill[b] = "PAID"
    BY <1>3, <1>5 DEF IsOpen
  <2>2. \A e \in Events : /\ x.event[e] = "RESOLVED" <=> y.event[e] = "RESOLVED"
                          /\ x.event[e] = "EXPIRED" <=> y.event[e] = "EXPIRED"
    BY <1>6, <1>8
  <2> QED BY <1>1, <1>2, <2>1, <2>2, FundsStay
<1>14. Prized(y) /\ Fresh(y)
  BY <1>1, <1>2 DEF Prized, Fresh, SamePrize
<1>15. Stops(x) => y.nextDay = None
  BY <1>4
<1>16. ASSUME ~Stops(x)
       PROVE  Runs(x, y) /\ y.nextDay = x.nextDay /\ y.hold = x.hold /\ ~Stops(y)
  <2>1. NewBills(x) = {} /\ DueEvents(x) = {}
    BY <1>16 DEF Stops
  <2>2. y.hold = x.hold /\ y.nextDay = x.nextDay /\ y.event = x.event /\ y.intro = x.intro
    BY <1>4, <2>1
  <2>3. ~Stops(y)
    BY <1>2, <2>1, <2>2 DEF Stops, NewBills, DueEvents
  <2>4. Runs(x, y)
    BY <1>3, <1>9, <2>1, <2>2 DEF Runs
  <2> QED BY <2>2, <2>3, <2>4
<1> QED BY <1>1, <1>2, <1>9, <1>10, <1>11, <1>12, <1>13, <1>14, <1>15, <1>16 DEF Sound

\* A completed month is rewarded once.
LEMMA RewardIs ==
  ASSUME NEW x \in Sessions, NEW y, y = Reward(x)
  PROVE  /\ y \in Sessions
         /\ SameClock(x, y) /\ SamePlace(x, y) /\ SameThings(x, y) /\ SameMoney(x, y)
         /\ SameScore(x, y)
         /\ y.rewarded = TRUE /\ y.xp = IF x.rewarded THEN x.xp ELSE x.xp + 1
         /\ x.rewarded => y = x
<1>1. x.rewarded \in BOOLEAN /\ x.xp \in Nat
  BY SessionIs
<1>2. CASE x.rewarded
  BY <1>1, <1>2 DEF Reward, SameClock, SamePlace, SameThings, SameMoney, SameScore
<1>3. CASE ~x.rewarded
  <2>1. PICK n \in Nat : n = x.xp + 1
    BY <1>1
  <2>2. y = [x EXCEPT !.rewarded = TRUE, !.xp = n]
    BY <1>3, <2>1 DEF Reward, Sessions
  <2>3. y \in Sessions /\ y.rewarded = TRUE /\ y.xp = n
    BY <2>2 DEF Sessions
  <2>4. /\ SameClock(x, y) /\ SamePlace(x, y) /\ SameThings(x, y) /\ SameMoney(x, y)
        /\ SameScore(x, y)
    BY <2>2 DEF Sessions, SameClock, SamePlace, SameThings, SameMoney, SameScore
  <2> QED BY <1>3, <2>1, <2>3, <2>4
<1> QED BY <1>2, <1>3

\* The bonus is a number of points.
LEMMA BonusIs ==
  ASSUME NEW x \in Sessions
  PROVE  Bonus(x) \in Int
<1>1. /\ Budget \in Nat /\ Budget > 0 /\ Retention \in Nat /\ BonusCeiling \in Nat
      /\ x.current \in Nat /\ x.savings \in Nat
  BY SimulationConstants, SessionIs
<1>2. PICK p \in Nat : p = x.savings * Retention
  BY <1>1
<1>3. PICK w \in Int : w = x.current + (x.savings * Retention + 50) \div 100
  <2>1. (p + 50) \div 100 \in Int
    OBVIOUS
  <2> QED BY <1>1, <1>2, <2>1
<1>4. PICK m \in Int : m = Min({Budget, w})
  BY <1>1, <1>3, MinIs
<1>5. PICK c \in Int : c = BonusCeiling * m
  BY <1>1, <1>4
<1>6. PICK h \in Int : h = Budget \div 2
  BY <1>1
<1>7. (c + h) \div Budget \in Int
  BY <1>1
<1>8. Bonus(x) = (c + h) \div Budget
  BY <1>3, <1>4, <1>5, <1>6 DEF Bonus
<1> QED BY <1>7, <1>8

\* The month closes.
LEMMA FinalizeIs ==
  ASSUME NEW x, Sound(x), x.status = "ACTIVE", Revealed(x) = {}, ~Stops(x), x.day >= Days,
         NEW y, y = Finalize(x)
  PROVE  Sound(y) /\ Closes(x, y) /\ y.nextDay = None
<1>1. /\ x \in Sessions /\ Calendar(x) /\ Timely(x) /\ Asked(x) /\ Prized(x) /\ Booked(x)
      /\ Funded(x)
  BY DEF Sound
<1>2. PICK w \in Sessions : /\ w = Miss(x, Bills) /\ Booked(w)
        /\ SameClock(x, w) /\ SamePlace(x, w) /\ SameMoney(x, w) /\ SamePrize(x, w)
        /\ w.intro = x.intro /\ w.event = x.event
        /\ \A b \in Bills : w.bill[b] = IF b \in Bills /\ IsOpen(x, b) THEN "MISSED" ELSE x.bill[b]
  <2>1. Bills \in SUBSET Bills
    OBVIOUS
  <2> QED BY <1>1, <2>1, MissIs
<1>3. PICK n \in Int : n = Bonus(w)
  BY BonusIs
<1>4. PICK row \in Entry : row = Row("BONUS", None, n) /\ row.source = "BONUS" /\ row.of = None
  <2>1. PICK row : row = [source |-> "BONUS", of |-> None, points |-> n]
    OBVIOUS
  <2>2. "BONUS" \in Sources /\ None \in Subjects
    BY DEF Sources, Subjects
  <2>3. row \in Entry /\ row.source = "BONUS" /\ row.of = None
    BY <2>1, <2>2 DEF Entry
  <2> QED BY <2>1, <2>3 DEF Row
<1>5. w.status = "ACTIVE"
  BY <1>2 DEF SamePlace
<1>6. PICK rows \in SUBSET Entry : rows = {row} /\ IsFiniteSet(rows)
  BY FS_Singleton
<1>7. rows \cap DOMAIN w.ledger = {}
  <2>1. ~Settled(w, row.source, row.of)
    BY <1>4, <1>5 DEF Settled
  <2> QED BY <1>2, <1>6, <2>1 DEF Booked
<1>8. Ledgered(w)
  BY <1>2 DEF Booked
<1>9. PICK u \in Sessions : /\ u = Record(w, rows)
        /\ Ledgered(u) /\ DOMAIN u.ledger = DOMAIN w.ledger \cup rows
        /\ SameClock(w, u) /\ SamePlace(w, u) /\ SameThings(w, u) /\ SameMoney(w, u)
        /\ SamePrize(w, u)
  BY <1>6, <1>7, <1>8, RecordIs
<1>10. PICK v : v = [u EXCEPT !.status = "COMPLETED", !.hold = "SUMMARY",
                              !.nextDay = None, !.paused = None]
  OBVIOUS
<1>11. v \in Sessions
  <2>1. /\ "COMPLETED" \in Status /\ "SUMMARY" \in Hold /\ None \in Ticks
        /\ None \in Ticks \ (-MaxLag)..(-1)
    BY TicksAre DEF Status, Hold
  <2>2. PICK p \in Sessions : p = [u EXCEPT !.status = "COMPLETED"]
    BY <2>1 DEF Sessions
  <2>3. PICK q \in Sessions : q = [p EXCEPT !.hold = "SUMMARY"]
    BY <2>1 DEF Sessions
  <2>4. PICK r \in Sessions : r = [q EXCEPT !.nextDay = None]
    BY <2>1 DEF Sessions
  <2>5. v = [r EXCEPT !.paused = None]
    BY <1>10, <2>2, <2>3, <2>4
  <2> QED BY <2>1, <2>5 DEF Sessions
<1>12. /\ v.status = "COMPLETED" /\ v.hold = "SUMMARY"
       /\ v.nextDay = None /\ v.day = u.day
  BY <1>10 DEF Sessions
<1>13. /\ SameThings(u, v) /\ SameMoney(u, v) /\ SamePrize(u, v) /\ SameScore(u, v)
  BY <1>10 DEF Sessions, SameThings, SameMoney, SamePrize, SameScore
<1>14. y = Reward(v)
  BY <1>2, <1>3, <1>4, <1>6, <1>9, <1>10 DEF Finalize
<1>15. /\ y \in Sessions
       /\ SameClock(v, y) /\ SamePlace(v, y) /\ SameThings(v, y) /\ SameMoney(v, y)
       /\ SameScore(v, y)
       /\ y.rewarded = TRUE /\ y.xp = IF v.rewarded THEN v.xp ELSE v.xp + 1
  BY <1>11, <1>14, RewardIs
<1>16. /\ y.status = "COMPLETED" /\ y.hold = "SUMMARY" /\ y.nextDay = None /\ y.day = x.day
       /\ y.event = x.event /\ y.intro = x.intro /\ y.bill = w.bill /\ SameMoney(x, y)
  BY <1>2, <1>9, <1>12, <1>13, <1>15 DEF SameThings, SameMoney, SamePlace, SameClock
<1>17. \A b \in Bills : y.bill[b] = IF IsOpen(x, b) THEN "MISSED" ELSE x.bill[b]
  BY <1>2, <1>16
<1>18. x.day = Days /\ x.day \in Int
  <2>1. x.day \in 0..Days /\ Days \in Nat
    BY <1>1, SessionIs, SimulationConstants
  <2> QED BY <2>1
<1>19. \A e \in Events : x.event[e] \in {"RESOLVED", "EXPIRED"}
  <2> TAKE e \in Events
  <2>1. x.event[e] \in {"SCHEDULED", "REVEALED", "RESOLVED", "EXPIRED"}
    BY <1>1, SessionIs
  <2>2. x.event[e] # "REVEALED"
    BY DEF Revealed
  <2>3. x.event[e] # "SCHEDULED"
    <3>1. TriggerDay[e] \in 1..Days
      BY SimulationConstants
    <3> QED BY <1>18, <3>1 DEF Stops, DueEvents
  <2> QED BY <2>1, <2>2, <2>3
<1>20. Closes(x, y)
  BY <1>16, <1>17, <1>18, <1>19 DEF Closes
<1>21. Booked(v)
  <2>1. \A s \in Sources, o \in Subjects : Settled(v, s, o) <=>
          Settled(w, s, o) \/ \E r \in rows : r.source = s /\ r.of = o
    <3>1. v.bill = w.bill /\ v.event = w.event
      BY <1>9, <1>13 DEF SameThings
    <3> QED BY <1>4, <1>5, <1>6, <1>12, <3>1 DEF Settled
  <2>2. Ledgered(v)
    <3>1. Ledgered(u) /\ v.score = u.score /\ v.ledger = u.ledger
      BY <1>9, <1>13 DEF SameScore
    <3> QED BY <3>1 DEF Ledgered, Reconciles
  <2>3. DOMAIN v.ledger = DOMAIN w.ledger \cup rows
    BY <1>9, <1>13 DEF SameScore
  <2>4. \A r \in rows : ~Settled(w, r.source, r.of)
    BY <1>4, <1>5, <1>6 DEF Settled
  <2>5. \A r, q \in rows : r.source = q.source /\ r.of = q.of => r = q
    BY <1>6
  <2> QED BY <1>2, <1>11, <2>1, <2>2, <2>3, <2>4, <2>5, BookIs
<1>22. Booked(y)
  BY <1>11, <1>12, <1>15, <1>21, BookStays DEF SameThings, SamePlace
<1>23. Funded(y)
  <2>1. \A b \in Bills : x.bill[b] = "PAID" <=> y.bill[b] = "PAID"
    BY <1>17 DEF IsOpen
  <2> QED BY <1>1, <1>15, <1>16, <2>1, FundsStay
<1>24. Calendar(y)
  <2>1. \A s \in Scheduled : y.intro[s] # "WAITING"
    <3> TAKE s \in Scheduled
    <3>1. ShowDay[s] <= Days
      BY SimulationConstants
    <3> QED BY <1>16, <1>18, <3>1 DEF Stops, NewBills
  <2>2. \A e \in Events : y.event[e] \in {"RESOLVED", "EXPIRED"}
    BY <1>16, <1>19
  <2> QED BY <2>1, <2>2 DEF Calendar
<1>25. Timely(y)
  BY <1>17 DEF Timely, IsOpen
<1>26. Asked(y)
  BY <1>16, <1>19 DEF Asked, Revealed
<1>27. Prized(y) /\ Fresh(y)
  <2>1. v.rewarded = x.rewarded /\ v.xp = x.xp
    BY <1>2, <1>9, <1>13 DEF SamePrize
  <2>2. x.rewarded = FALSE /\ x.xp = 0
    BY <1>1, SessionIs DEF Prized
  <2> QED BY <1>15, <1>16, <2>1, <2>2 DEF Prized, Fresh
<1> QED BY <1>15, <1>16, <1>20, <1>22, <1>23, <1>24, <1>25, <1>26, <1>27 DEF Sound

\* Days that pass are followed by days that pass, or by the end of the month.
LEMMA RunsOn ==
  ASSUME NEW x \in Sessions, NEW y \in Sessions, NEW z \in Sessions,
         Runs(x, y), Revealed(x) = {}, x.status = "ACTIVE"
  PROVE  /\ Passes(y, z) => Passes(x, z)
         /\ Runs(y, z) => Runs(x, z)
         /\ Closes(y, z) => Closes(x, z)
<1>1. x.day \in Int /\ y.day \in Int /\ z.day \in Int /\ \A b \in Bills : Due[b] \in Int
  BY SessionIs, SimulationConstants
<1>2. y.event = x.event /\ x.day <= y.day
  BY DEF Runs, Passes
<1>3. \A b \in Bills :
         /\ x.bill[b] \in {"PAID", "MISSED"} => y.bill[b] = x.bill[b]
         /\ IsOpen(x, b) => IsOpen(y, b) \/ (y.bill[b] = "MISSED" /\ Due[b] < y.day)
         /\ x.bill[b] = "ABSENT" => y.bill[b] = "ABSENT"
  BY DEF Runs, Passes
<1>4. ASSUME Passes(y, z)
      PROVE  Passes(x, z)
  <2>1. x.day <= z.day
    BY <1>1, <1>2, <1>4 DEF Passes
  <2>2. ASSUME NEW b \in Bills
        PROVE  /\ x.bill[b] \in {"PAID", "MISSED"} => z.bill[b] = x.bill[b]
               /\ IsOpen(x, b) => IsOpen(z, b) \/ (z.bill[b] = "MISSED" /\ Due[b] < z.day)
               /\ x.bill[b] = "ABSENT" => z.bill[b] = "ABSENT" \/ IsOpen(z, b)
    <3>1. /\ y.bill[b] \in {"PAID", "MISSED"} => z.bill[b] = y.bill[b]
          /\ IsOpen(y, b) => IsOpen(z, b) \/ (z.bill[b] = "MISSED" /\ Due[b] < z.day)
          /\ y.bill[b] = "ABSENT" => z.bill[b] = "ABSENT" \/ IsOpen(z, b)
          /\ y.day <= z.day
      BY <1>4 DEF Passes
    <3>2. Due[b] < y.day => Due[b] < z.day
      BY <1>1, <3>1
    <3> QED BY <1>3, <3>1, <3>2
  <2>3. \A e \in Events : x.event[e] # "REVEALED"
    BY DEF Revealed
  <2>4. \A e \in Events :
          /\ x.event[e] \in {"RESOLVED", "EXPIRED"} => z.event[e] = x.event[e]
          /\ x.event[e] = "SCHEDULED" => z.event[e] \in {"SCHEDULED", "REVEALED"}
    BY <1>2, <1>4 DEF Passes
  <2> QED BY <2>1, <2>2, <2>3, <2>4 DEF Passes
<1>5. ASSUME Runs(y, z)
      PROVE  Runs(x, z)
  BY <1>2, <1>3, <1>4, <1>5 DEF Runs
<1>6. ASSUME Closes(y, z)
      PROVE  Closes(x, z)
  <2>1. /\ z.status = "COMPLETED" /\ z.day = Days
        /\ \A b \in Bills : z.bill[b] = IF IsOpen(y, b) THEN "MISSED" ELSE y.bill[b]
        /\ \A e \in Events : y.event[e] \in {"RESOLVED", "EXPIRED"} /\ z.event[e] = y.event[e]
    BY <1>6 DEF Closes
  <2>2. ASSUME NEW b \in Bills
        PROVE  z.bill[b] = IF IsOpen(x, b) THEN "MISSED" ELSE x.bill[b]
    <3>1. x.bill[b] \in {"ABSENT", "SCHEDULED", "PAYABLE", "PAID", "MISSED"}
      BY SessionIs
    <3>2. z.bill[b] = IF y.bill[b] \in {"SCHEDULED", "PAYABLE"} THEN "MISSED" ELSE y.bill[b]
      BY <2>1 DEF IsOpen
    <3>3. /\ x.bill[b] \in {"PAID", "MISSED", "ABSENT"} => y.bill[b] = x.bill[b]
          /\ IsOpen(x, b) => IsOpen(y, b) \/ y.bill[b] = "MISSED"
      BY <1>3
    <3> QED BY <3>1, <3>2, <3>3 DEF IsOpen
  <2> QED BY <1>2, <2>1, <2>2 DEF Closes
<1> QED BY <1>4, <1>5, <1>6

\* A day ends: the next one begins, or the month closes.
LEMMA BoundaryIs ==
  ASSUME NEW x, Sound(x), x.status = "ACTIVE", Revealed(x) = {}, ~Stops(x),
         ~x.timed \/ x.nextDay = None \/ x.nextDay <= 0, NEW y, y = Boundary(x)
  PROVE  /\ Sound(y)
         /\ \/ Closes(x, y) /\ y.nextDay = None
            \/ /\ y.status = "ACTIVE" /\ Passes(x, y)
               /\ y.nextDay # None => Runs(x, y) /\ ~Stops(y) /\ Revealed(y) = {}
<1>1. CASE x.day >= Days
  BY <1>1, FinalizeIs DEF Boundary
<1>2. CASE ~(x.day >= Days)
  <2>1. /\ x \in Sessions /\ Calendar(x) /\ Timely(x) /\ Asked(x) /\ Prized(x) /\ Booked(x)
        /\ Funded(x)
    BY DEF Sound
  <2>2. x.day \in 0..Days /\ Days \in Nat
    BY <2>1, SessionIs, SimulationConstants
  <2>3. PICK d \in 0..Days : d = x.day + 1
    BY <1>2, <2>2
  <2>4. PICK t \in Ticks : t = IF ~x.timed THEN None
                               ELSE IF x.nextDay = None THEN DayLength
                               ELSE x.nextDay + DayLength
    BY <2>1, TicksAre, SessionIs
  <2>5. PICK w : w = [x EXCEPT !.day = d, !.nextDay = t]
    OBVIOUS
  <2>6. w \in Sessions /\ w.day = d /\ w.nextDay = t
    BY <2>1, <2>5 DEF Sessions
  <2>7. /\ w.timed = x.timed /\ w.status = x.status /\ w.hold = x.hold
        /\ SameThings(x, w) /\ SameMoney(x, w) /\ SamePrize(x, w) /\ SameScore(x, w)
    BY <2>1, <2>5 DEF Sessions, SameThings, SameMoney, SamePrize, SameScore
  <2>8. w.bill = x.bill /\ w.event = x.event /\ w.intro = x.intro
    BY <2>7 DEF SameThings
  <2>9. Booked(w) /\ Funded(w)
    BY <2>1, <2>6, <2>7, <2>8, BookStays, FundsStay
  <2>10. Asked(w) /\ Revealed(w) = {} /\ Prized(w)
    BY <2>1, <2>7, <2>8 DEF Asked, Revealed, Prized, SamePrize
  <2>11. Calendar(w)
    <3>1. ASSUME NEW e \in Events, x.event[e] = "SCHEDULED"
          PROVE  d <= TriggerDay[e]
      <4>1. TriggerDay[e] \in Int
        BY SimulationConstants
      <4>2. ~(TriggerDay[e] <= x.day)
        BY <3>1 DEF Stops, DueEvents
      <4> QED BY <2>2, <2>3, <4>1, <4>2
    <3>2. ASSUME NEW s \in Scheduled, x.intro[s] = "WAITING"
          PROVE  d <= ShowDay[s] /\ x.bill[s] = "ABSENT"
      <4>1. ShowDay[s] \in Int
        BY SimulationConstants
      <4>2. ~(ShowDay[s] <= x.day)
        BY <3>2 DEF Stops, NewBills
      <4>3. x.bill[s] = "ABSENT"
        BY <2>1, <3>2 DEF Calendar
      <4> QED BY <2>2, <2>3, <4>1, <4>2, <4>3
    <3>3. \A e \in Events : x.event[e] # "REVEALED"
      BY DEF Revealed
    <3>4. \A e \in Events : x.event[e] \in {"SCHEDULED", "REVEALED"} =>
              \A o \in Options[e] \cup {Expiry[e]} : \A b \in o.bills : x.bill[b] = "ABSENT"
      BY <2>1 DEF Calendar
    <3> QED BY <2>6, <2>8, <3>1, <3>2, <3>3, <3>4 DEF Calendar
  <2>12. Dawn(w)
    BY <2>6, <2>7, <2>9, <2>10, <2>11 DEF Dawn
  <2>13. y = StopForDay(w)
    <3>1. w = [x EXCEPT !.day = @ + 1, !.nextDay = IF ~x.timed THEN None
                                                  ELSE IF @ = None THEN DayLength
                                                  ELSE @ + DayLength]
      BY <2>1, <2>3, <2>4, <2>5 DEF Sessions
    <3> QED BY <1>2, <3>1 DEF Boundary
  <2>14. /\ Sound(y) /\ Passes(w, y) /\ y.status = "ACTIVE"
         /\ IF Stops(w) THEN y.nextDay = None
            ELSE Runs(w, y) /\ y.nextDay = w.nextDay /\ y.hold = w.hold /\ ~Stops(y)
    BY <2>12, <2>13, DayBreaks
  <2>15. Passes(x, y)
    <3>1. x.day <= y.day
      <4>1. y.day \in Int /\ d <= y.day
        BY <2>6, <2>14, SessionIs DEF Passes, Sound
      <4> QED BY <2>2, <2>3, <4>1
    <3>2. \A b \in Bills : IsOpen(w, b) <=> IsOpen(x, b)
      BY <2>8 DEF IsOpen
    <3> QED BY <2>8, <2>14, <3>1, <3>2 DEF Passes
  <2>16. y.nextDay # None => Runs(x, y) /\ ~Stops(y) /\ Revealed(y) = {}
    BY <2>8, <2>10, <2>14, <2>15 DEF Runs, Revealed
  <2> QED BY <2>14, <2>15, <2>16
<1> QED BY <1>1, <1>2

\* What a day does to a session whose deadline lies in the past.
DayStep(y) == IF y.nextDay # None /\ y.nextDay <= 0 THEN Boundary(y) ELSE y

\* The days one after another.
LEMMA DaysExist ==
  ASSUME NEW x, NEW m \in Nat
  PROVE  \E f : f = [n \in 0..m |-> IF n = 0 THEN x ELSE DayStep(f[n - 1])]
<1> DEFINE Bad == {k \in Nat : ~\E f : f = [n \in 0..k |-> IF n = 0 THEN x ELSE DayStep(f[n - 1])]}
<1> SUFFICES ASSUME m \in Bad
             PROVE  FALSE
  OBVIOUS
<1>1. PICK k \in Bad : \A j \in Bad : k <= j
  <2>1. Bad \in SUBSET Nat /\ Bad # {}
    OBVIOUS
  <2> HIDE DEF Bad
  <2> QED BY <2>1, LeastNumber
<1>2. k \in Nat /\ ~\E f : f = [n \in 0..k |-> IF n = 0 THEN x ELSE DayStep(f[n - 1])]
  OBVIOUS
<1>3. CASE k = 0
  <2>1. PICK f : f = [n \in 0..k |-> x]
    OBVIOUS
  <2>2. \A n \in 0..k : n = 0
    BY <1>3
  <2>3. f = [n \in 0..k |-> IF n = 0 THEN x ELSE DayStep(f[n - 1])]
    BY <2>1, <2>2
  <2> QED BY <1>2, <2>3
<1>4. CASE k # 0
  <2>1. k - 1 \in Nat /\ ~(k <= k - 1)
    BY <1>2, <1>4
  <2>2. PICK f : f = [n \in 0..(k - 1) |-> IF n = 0 THEN x ELSE DayStep(f[n - 1])]
    <3>1. k - 1 \notin Bad
      <4> HIDE DEF Bad
      <4> QED BY <1>1, <2>1
    <3> QED BY <2>1, <3>1
  <2>3. PICK g : g = [n \in 0..k |-> IF n = 0 THEN x ELSE DayStep(f[n - 1])]
    OBVIOUS
  <2>4. ASSUME NEW n \in 0..k, n # 0
        PROVE  g[n - 1] = f[n - 1]
    <3>1. n - 1 \in 0..k /\ n - 1 \in 0..(k - 1)
      BY <1>2, <2>4
    <3>2. f[n - 1] = IF n - 1 = 0 THEN x ELSE DayStep(f[(n - 1) - 1])
      BY <2>2, <3>1
    <3>3. g[n - 1] = IF n - 1 = 0 THEN x ELSE DayStep(f[(n - 1) - 1])
      BY <2>3, <3>1
    <3> QED BY <3>2, <3>3
  <2>5. g = [n \in 0..k |-> IF n = 0 THEN x ELSE DayStep(g[n - 1])]
    BY <2>3, <2>4
  <2> QED BY <1>2, <2>5
<1> QED BY <1>3, <1>4

\* What a day keeps, all of them keep.
LEMMA CatchUpIn ==
  ASSUME NEW S, NEW x \in S, \A z \in S : DayStep(z) \in S, NEW y, y = CatchUp(x)
  PROVE  y \in S
<1> DEFINE After(f) == f = [n \in 0..(Days + 1) |-> IF n = 0 THEN x ELSE DayStep(f[n - 1])]
<1>1. Days + 1 \in Nat /\ Days \in Nat
  BY SimulationConstants
<1>2. PICK f : After(f) /\ y = f[Days + 1]
  <2>1. \E f : After(f)
    <3>1. PICK m \in Nat : m = Days + 1
      BY <1>1
    <3>2. \E f : f = [n \in 0..m |-> IF n = 0 THEN x ELSE DayStep(f[n - 1])]
      BY ONLY DaysExist
    <3> QED BY <3>1, <3>2
  <2>2. After(CHOOSE f : After(f))
    <3> HIDE DEF After
    <3> QED BY <2>1
  <2>3. y = (CHOOSE f : After(f))[Days + 1]
    BY DEF CatchUp, DayStep
  <2> HIDE DEF After
  <2> QED BY <2>2, <2>3
<1> DEFINE Bad == {k \in Nat : k \in 0..(Days + 1) /\ f[k] \notin S}
<1>3. Bad = {}
  <2> SUFFICES ASSUME Bad # {}
               PROVE  FALSE
    OBVIOUS
  <2>1. Bad \in SUBSET Nat
    OBVIOUS
  <2>2. PICK k \in Bad : \A j \in Bad : k <= j
    <3> HIDE DEF Bad
    <3> QED BY <2>1, LeastNumber
  <2>3. k \in 0..(Days + 1) /\ k \in Nat /\ f[k] \notin S
    OBVIOUS
  <2>4. CASE k = 0
    BY <1>2, <2>3, <2>4
  <2>5. CASE k # 0
    <3>1. k - 1 \in Nat /\ k - 1 \in 0..(Days + 1) /\ ~(k <= k - 1)
      BY <1>1, <2>3, <2>5
    <3>2. k - 1 \notin Bad
      <4> HIDE DEF Bad
      <4> QED BY <2>2, <3>1
    <3>3. f[k - 1] \in S
      BY <3>1, <3>2
    <3>4. f[k] = DayStep(f[k - 1])
      BY <1>2, <2>3, <2>5
    <3> QED BY <2>3, <3>3, <3>4
  <2> QED BY <2>4, <2>5
<1>4. f[Days + 1] \in S
  <2>1. Days + 1 \in 0..(Days + 1)
    BY <1>1
  <2>2. Days + 1 \notin Bad
    <3> HIDE DEF Bad
    <3> QED BY <1>3
  <2> QED BY <1>1, <2>1, <2>2
<1> HIDE DEF After
<1> QED BY <1>2, <1>4

\* A board that has slept lets the days pass, up to the first that stops it.
LEMMA CatchUpIs ==
  ASSUME NEW x, Sound(x), x.status = "ACTIVE", Revealed(x) = {}, ~Stops(x),
         NEW y, y = CatchUp(x)
  PROVE  Sound(y) /\ (Closes(x, y) \/ (y.status = "ACTIVE" /\ Passes(x, y)))
<1> DEFINE Going(z) == /\ Sound(z)
                       /\ \/ z.nextDay = None
                             /\ (Closes(x, z) \/ (z.status = "ACTIVE" /\ Passes(x, z)))
                          \/ z.status = "ACTIVE" /\ Runs(x, z) /\ ~Stops(z) /\ Revealed(z) = {}
<1>1. x \in Sessions
  BY DEF Sound
<1>2. Runs(x, x)
  <2>1. x.day \in Int
    BY <1>1, SessionIs
  <2> QED BY <2>1 DEF Runs, Passes, Revealed
<1>3. ASSUME NEW z, Going(z)
      PROVE  Going(DayStep(z))
  <2>1. CASE ~(z.nextDay # None /\ z.nextDay <= 0)
    BY <1>3, <2>1 DEF DayStep
  <2>2. CASE z.nextDay # None /\ z.nextDay <= 0
    <3>1. /\ Sound(z) /\ z.status = "ACTIVE" /\ Runs(x, z) /\ ~Stops(z) /\ Revealed(z) = {}
      BY <1>3, <2>2
    <3>2. PICK u : u = Boundary(z)
      OBVIOUS
    <3>3. /\ Sound(u)
          /\ \/ Closes(z, u) /\ u.nextDay = None
             \/ /\ u.status = "ACTIVE" /\ Passes(z, u)
                /\ u.nextDay # None => Runs(z, u) /\ ~Stops(u) /\ Revealed(u) = {}
      BY <2>2, <3>1, <3>2, BoundaryIs
    <3>4. /\ Passes(z, u) => Passes(x, u)
          /\ Runs(z, u) => Runs(x, u)
          /\ Closes(z, u) => Closes(x, u)
      <4>1. z \in Sessions /\ u \in Sessions
        BY <3>1, <3>3 DEF Sound
      <4> QED BY <1>1, <3>1, <4>1, RunsOn
    <3>5. Going(u)
      BY <3>3, <3>4
    <3>6. u = DayStep(z)
      BY <2>2, <3>2 DEF DayStep
    <3> HIDE DEF Going
    <3> QED BY <3>5, <3>6
  <2> QED BY <2>1, <2>2
<1>4. Going(x)
  BY <1>2
<1>5. Going(y)
  <2>1. PICK S : S = {z \in Sessions : Going(z)}
    OBVIOUS
  <2>2. x \in S /\ \A z \in S : DayStep(z) \in S
    <3>1. \A z : Going(z) => z \in Sessions
      BY DEF Sound
    <3> HIDE DEF Going
    <3> QED BY <1>3, <1>4, <2>1, <3>1
  <2>3. y \in S
    BY ONLY <2>2, y = CatchUp(x), CatchUpIn
  <2> HIDE DEF Going
  <2> QED BY <2>1, <2>3
<1>6. Runs(x, y) => Passes(x, y)
  BY DEF Runs
<1> QED BY <1>5, <1>6

\* Events have days of their own, so there are finitely many.
LEMMA EventsFinite == IsFiniteSet(Events)
<1>1. Days \in Nat /\ TriggerDay \in [Events -> 1..Days]
      /\ \A e, f \in Events : TriggerDay[e] = TriggerDay[f] => e = f
  BY SimulationConstants
<1>2. TriggerDay \in Injection(Events, 1..Days)
  BY <1>1 DEF Injection, IsInjective
<1>3. IsFiniteSet(1..Days)
  BY <1>1, FS_Interval
<1> QED BY <1>2, <1>3, FS_Injection

\* What is written about an event that is settled.
Decided(x, d, e, fate, cost) ==
    [d EXCEPT !.event[e] = fate, !.decision = None, !.taken[e] = Covered(x, cost),
              !.nextDay = None, !.hold = "EVENT_RESULT"]

\* What is written when an event is settled.
LEMMA SettleWrites ==
  ASSUME NEW x, Sound(x), x.status = "ACTIVE", NEW e \in Events,
         NEW o \in Options[e] \cup {Expiry[e]}, NEW fate \in {"RESOLVED", "EXPIRED"},
         NEW d, d = Debit(x, o.cost),
         NEW w, w = Decided(x, d, e, fate, o.cost)
  PROVE  /\ w \in Sessions /\ w.nextDay = None /\ w.hold = "EVENT_RESULT"
         /\ w.event[e] = fate /\ \A f \in Events \ {e} : w.event[f] = x.event[f]
         /\ w.taken[e] = Covered(x, o.cost) /\ \A f \in Events \ {e} : w.taken[f] = x.taken[f]
         /\ Covered(x, o.cost) \in Nat
         /\ w.current + w.savings = x.current + x.savings - Covered(x, o.cost)
         /\ \/ Covered(x, o.cost) = o.cost
            \/ Covered(x, o.cost) < o.cost /\ w.current = 0 /\ w.savings = 0
         /\ x.current + x.savings >= o.cost => Covered(x, o.cost) = o.cost
         /\ w.status = "ACTIVE" /\ w.day = x.day /\ w.bill = x.bill /\ w.intro = x.intro
         /\ w.score = x.score /\ w.ledger = x.ledger /\ w.rewarded = x.rewarded /\ w.xp = x.xp
<1>1. /\ x \in Sessions /\ Calendar(x) /\ Timely(x) /\ Asked(x) /\ Prized(x) /\ Booked(x)
      /\ Funded(x)
  BY DEF Sound
<1>2. o \in Outcomes /\ o.cost \in Nat /\ o.bills \in SUBSET Bills
  <2>1. o \in Outcomes
    BY SimulationConstants
  <2> QED BY <2>1 DEF Outcomes
<1>3. /\ d \in Sessions
      /\ SameClock(x, d) /\ SamePlace(x, d) /\ SameThings(x, d) /\ SamePrize(x, d)
      /\ SameScore(x, d) /\ d.taken = x.taken
      /\ Covered(x, o.cost) \in Nat /\ Covered(x, o.cost) <= x.current + x.savings
      /\ d.current + d.savings = x.current + x.savings - Covered(x, o.cost)
      /\ \/ Covered(x, o.cost) = o.cost
         \/ Covered(x, o.cost) < o.cost /\ d.current = 0 /\ d.savings = 0
      /\ x.current + x.savings >= o.cost => Covered(x, o.cost) = o.cost
  <2>0. PICK cost : cost = o.cost
    OBVIOUS
  <2>1. cost \in Nat /\ d = Debit(x, cost) /\ x \in Sessions
    BY <1>1, <1>2, <2>0
  <2>2. d \in Sessions
    BY ONLY <2>1, DebitIs
  <2>3. x.current \in Nat /\ x.savings \in Nat /\ d.current \in Nat /\ d.savings \in Nat
    BY ONLY <2>1, <2>2, SessionIs, SimulationConstants
  <2>4. Covered(x, cost) \in Nat
    BY ONLY <2>1, DebitIs
  <2>5. d.current + d.savings = x.current + x.savings - Covered(x, cost)
    BY ONLY <2>1, <2>2, <2>3, <2>4, DebitIs
  <2>6. x.current + x.savings >= cost => Covered(x, cost) = cost
    BY ONLY <2>1, <2>2, <2>3, <2>4, DebitIs
  <2>7. \/ Covered(x, cost) = cost
        \/ Covered(x, cost) < cost /\ d.current = 0 /\ d.savings = 0
    BY ONLY <2>1, <2>2, <2>3, <2>4, DebitIs
  <2>8. Covered(x, cost) <= x.current + x.savings
    BY ONLY <2>1, <2>2, <2>3, <2>4, DebitIs
  <2>9. /\ SameClock(x, d) /\ SamePlace(x, d) /\ SameThings(x, d) /\ SamePrize(x, d)
        /\ SameScore(x, d) /\ d.taken = x.taken
    BY ONLY <2>1, <2>2, <2>3, <2>4, DebitIs
  <2> QED BY ONLY <2>0, <2>2, <2>3, <2>4, <2>5, <2>6, <2>7, <2>8, <2>9
<1>4. PICK c \in Nat : c = Covered(x, o.cost)
  BY <1>3
<1>5. x.current \in Nat /\ x.savings \in Nat /\ d.current \in Nat /\ d.savings \in Nat
      /\ Budget \in Nat /\ x.current + x.savings <= Budget
  BY <1>1, <1>3, SessionIs, SimulationConstants DEF Funded
<1>6. c \in 0..Budget
  BY <1>3, <1>4, <1>5
<1>7. PICK v, t : /\ v = [x.event EXCEPT ![e] = fate] /\ t = [x.taken EXCEPT ![e] = c]
  OBVIOUS
<1>8. /\ v \in [Events -> {"SCHEDULED", "REVEALED", "RESOLVED", "EXPIRED"}]
      /\ v[e] = fate /\ \A f \in Events \ {e} : v[f] = x.event[f]
  <2>1. fate \in {"SCHEDULED", "REVEALED", "RESOLVED", "EXPIRED"}
    OBVIOUS
  <2>2. x.event \in [Events -> {"SCHEDULED", "REVEALED", "RESOLVED", "EXPIRED"}]
    BY <1>1, SessionIs
  <2> QED BY <1>7, <2>1, <2>2
<1>9. /\ t \in [Events -> 0..Budget]
      /\ t[e] = c /\ \A f \in Events \ {e} : t[f] = x.taken[f]
  <2>1. x.taken \in [Events -> 0..Budget]
    BY <1>1, SessionIs
  <2> QED BY <1>6, <1>7, <2>1
<1>10. w = [d EXCEPT !.event = v, !.decision = None, !.taken = t, !.nextDay = None,
                     !.hold = "EVENT_RESULT"]
  <2>1. d.event = x.event /\ d.taken = x.taken
    BY <1>3 DEF SameThings
  <2> QED BY <1>3, <1>4, <1>7, <2>1 DEF Sessions, Decided
<1>11. w \in Sessions
  <2>1. "EVENT_RESULT" \in Hold /\ None \in Ticks
    BY TicksAre DEF Hold
  <2>2. PICK p \in Sessions : p = [d EXCEPT !.event = v]
    BY <1>3, <1>8 DEF Sessions
  <2>3. PICK q \in Sessions : q = [p EXCEPT !.decision = None]
    BY <2>1 DEF Sessions
  <2>4. PICK r \in Sessions : r = [q EXCEPT !.taken = t]
    BY <1>9 DEF Sessions
  <2>5. PICK s \in Sessions : s = [r EXCEPT !.nextDay = None]
    BY <2>1 DEF Sessions
  <2>6. w = [s EXCEPT !.hold = "EVENT_RESULT"]
    BY <1>10, <2>2, <2>3, <2>4, <2>5
  <2> QED BY <2>1, <2>6 DEF Sessions
<1>12. /\ w.event = v /\ w.taken = t /\ w.nextDay = None /\ w.hold = "EVENT_RESULT"
       /\ w.bill = d.bill /\ w.intro = d.intro
  BY <1>3, <1>10 DEF Sessions
<1>13. /\ w.status = d.status /\ w.day = d.day /\ w.current = d.current /\ w.savings = d.savings
       /\ SamePrize(d, w) /\ SameScore(d, w)
  BY <1>3, <1>10 DEF Sessions, SamePrize, SameScore
<1>14. /\ w.status = "ACTIVE" /\ w.day = x.day /\ w.bill = x.bill /\ w.intro = x.intro
       /\ w.score = x.score /\ w.ledger = x.ledger /\ w.rewarded = x.rewarded /\ w.xp = x.xp
  BY <1>3, <1>12, <1>13 DEF SamePlace, SameThings, SamePrize, SameScore
<1> QED BY <1>3, <1>4, <1>8, <1>9, <1>11, <1>12, <1>13, <1>14

\* The entry of an event that is settled.
LEMMA SettleBooks ==
  ASSUME NEW x \in Sessions, Booked(x), x.status = "ACTIVE", NEW e \in Events,
         x.event[e] = "REVEALED", NEW fate,
         NEW row \in Entry, row.of = e,
         \/ fate = "RESOLVED" /\ row.source = "DECISION"
         \/ fate = "EXPIRED" /\ row.source = "EXPIRY",
         NEW w \in Sessions, w.event[e] = fate, \A f \in Events \ {e} : w.event[f] = x.event[f],
         w.status = "ACTIVE", w.bill = x.bill, w.score = x.score, w.ledger = x.ledger,
         NEW rows \in SUBSET Entry, rows = {row}, NEW u, u = Record(w, rows)
  PROVE  /\ u \in Sessions /\ Booked(u)
         /\ SameClock(w, u) /\ SamePlace(w, u) /\ SameThings(w, u) /\ SameMoney(w, u)
         /\ SamePrize(w, u)
<1>15. IsFiniteSet(rows)
  BY FS_Singleton
<1>16. ~Settled(x, row.source, row.of)
  BY DEF Settled
<1>17. rows \cap DOMAIN w.ledger = {}
  BY <1>16 DEF Booked
<1>18. Ledgered(w)
  BY DEF Booked, Ledgered, Reconciles
<1>19. /\ u \in Sessions /\ Ledgered(u) /\ DOMAIN u.ledger = DOMAIN w.ledger \cup rows
       /\ SameClock(w, u) /\ SamePlace(w, u) /\ SameThings(w, u) /\ SameMoney(w, u)
       /\ SamePrize(w, u)
  BY <1>15, <1>17, <1>18, RecordIs
<1>20. /\ u.status = "ACTIVE" /\ u.bill = x.bill /\ u.event = w.event
       /\ DOMAIN u.ledger = DOMAIN x.ledger \cup rows
  BY <1>19 DEF SamePlace, SameThings
<1>21. Booked(u)
  <2>1. \A s \in Sources, k \in Subjects : Settled(u, s, k) <=>
          Settled(x, s, k) \/ \E r \in rows : r.source = s /\ r.of = k
    <3> TAKE s \in Sources, k \in Subjects
    <3>1. (\E r \in rows : r.source = s /\ r.of = k) <=> s = row.source /\ k = e
      OBVIOUS
    <3>2. (s = "DECISION" /\ k \in Events /\ w.event[k] = "RESOLVED") <=>
            \/ s = "DECISION" /\ k \in Events /\ x.event[k] = "RESOLVED"
            \/ s = "DECISION" /\ s = row.source /\ k = e
      OBVIOUS
    <3>3. (s = "EXPIRY" /\ k \in Events /\ w.event[k] = "EXPIRED") <=>
            \/ s = "EXPIRY" /\ k \in Events /\ x.event[k] = "EXPIRED"
            \/ s = "EXPIRY" /\ s = row.source /\ k = e
      OBVIOUS
    <3>4. s = row.source => s \in {"DECISION", "EXPIRY"}
      OBVIOUS
    <3> QED BY <1>20, <3>1, <3>2, <3>3, <3>4 DEF Settled
  <2>2. \A r, q \in rows : r.source = q.source /\ r.of = q.of => r = q
    OBVIOUS
  <2>3. \A r \in rows : ~Settled(x, r.source, r.of)
    BY <1>16
  <2>4. u \in Sessions /\ Ledgered(u) /\ DOMAIN u.ledger = DOMAIN x.ledger \cup rows
    BY <1>19, <1>20
  <2>5. x \in Sessions /\ Booked(x) /\ rows \in SUBSET Entry
    OBVIOUS
  <2> QED BY ONLY <2>1, <2>2, <2>3, <2>4, <2>5, BookIs
<1> QED BY <1>19, <1>21

\* An event that is settled leaves a sound session.
LEMMA SettleSound ==
  ASSUME NEW x, Sound(x), x.status = "ACTIVE", NEW e \in Events, x.event[e] = "REVEALED",
         NEW o \in Options[e] \cup {Expiry[e]}, NEW fate, NEW c \in Nat,
         \/ fate = "RESOLVED" /\ o \in Options[e] /\ c = o.cost
         \/ fate = "EXPIRED" /\ o = Expiry[e],
         NEW y \in Sessions, y.status = "ACTIVE", y.day = x.day, y.hold = "EVENT_RESULT",
         y.intro = x.intro,
         y.event[e] = fate, \A f \in Events \ {e} : y.event[f] = x.event[f],
         y.taken[e] = c, \A f \in Events \ {e} : y.taken[f] = x.taken[f],
         y.current + y.savings = x.current + x.savings - c,
         c = o.cost \/ (c < o.cost /\ y.current = 0 /\ y.savings = 0),
         y.rewarded = x.rewarded, y.xp = x.xp, Booked(y),
         \A b \in Bills : y.bill[b] = IF b \in o.bills /\ Due[b] > x.day
                                      THEN "SCHEDULED" ELSE x.bill[b]
  PROVE  /\ Sound(y) /\ Revealed(y) = {} /\ Revealed(x) = {e}
         /\ fate = "EXPIRED" => Passes(x, y)
         /\ \A b \in o.bills : x.bill[b] = "ABSENT"
<1>1. /\ x \in Sessions /\ Calendar(x) /\ Timely(x) /\ Asked(x) /\ Prized(x) /\ Booked(x)
      /\ Funded(x)
  BY DEF Sound
<1>5. /\ x.current \in Nat /\ x.savings \in Nat /\ y.current \in Nat /\ y.savings \in Nat
      /\ Budget \in Nat /\ x.current + x.savings <= Budget
  BY <1>1, SessionIs, SimulationConstants DEF Funded
<1>25. \A b \in o.bills : x.bill[b] = "ABSENT"
  BY <1>1 DEF Calendar
<1>27. Timely(y)
  <2> SUFFICES ASSUME NEW b \in Bills, IsOpen(y, b)
               PROVE  x.day <= Due[b]
    BY DEF Timely
  <2>1. x.day \in Int /\ Due[b] \in Int
    BY <1>1, SessionIs, SimulationConstants
  <2>2. CASE b \in o.bills /\ Due[b] > x.day
    BY <2>1, <2>2
  <2>3. CASE ~(b \in o.bills /\ Due[b] > x.day)
    BY <1>1, <2>3 DEF Timely, IsOpen
  <2> QED BY <2>2, <2>3
<1>28. Revealed(x) = {e}
  BY <1>1 DEF Asked, Revealed
<1>29. Revealed(y) = {}
  <2>1. \A f \in Events : y.event[f] # "REVEALED"
    BY <1>28 DEF Revealed
  <2> QED BY <2>1 DEF Revealed
<1>30. Asked(y)
  BY <1>29 DEF Asked
<1>31. Calendar(y)
  <2>1. ASSUME NEW f \in Events, y.event[f] \in {"SCHEDULED", "REVEALED"}
        PROVE  /\ x.event[f] = "SCHEDULED" /\ f # e /\ y.event[f] = "SCHEDULED"
               /\ x.day <= TriggerDay[f]
               /\ \A p \in Options[f] \cup {Expiry[f]} : \A b \in p.bills : y.bill[b] = "ABSENT"
    <3>1. f # e
      BY <2>1
    <3>2. y.event[f] = x.event[f]
      BY <3>1
    <3>3. x.event[f] = "SCHEDULED"
      BY <1>28, <2>1, <3>1, <3>2 DEF Revealed
    <3>4. ASSUME NEW p \in Options[f] \cup {Expiry[f]}, NEW b \in p.bills
          PROVE  y.bill[b] = "ABSENT"
      <4>1. x.bill[b] = "ABSENT"
        BY <1>1, <3>3 DEF Calendar
      <4>2. b \in Bills
        <5>1. p \in Outcomes
          BY SimulationConstants
        <5> QED BY <5>1 DEF Outcomes
      <4>3. b \notin o.bills
        <5>1. o.bills \cap p.bills = {}
          BY <3>1, RowsOfTheirOwn
        <5> QED BY <5>1
      <4> QED BY <4>1, <4>2, <4>3
    <3>5. x.day <= TriggerDay[f]
      BY <1>1, <3>3 DEF Calendar
    <3> QED BY <3>1, <3>2, <3>3, <3>4, <3>5
  <2>2. ASSUME NEW s \in Scheduled, y.intro[s] = "WAITING"
        PROVE  x.day <= ShowDay[s] /\ y.bill[s] = "ABSENT"
    <3>1. x.day <= ShowDay[s] /\ x.bill[s] = "ABSENT"
      BY <1>1, <2>2 DEF Calendar
    <3>2. s \in Bills /\ s \notin o.bills
      BY SimulationConstants, RowsOfTheirOwn
    <3> QED BY <3>1, <3>2
  <2> QED BY <2>1, <2>2 DEF Calendar
<1>32. Funded(y)
  <2>1. Paid(y) = Paid(x)
    BY <1>25 DEF Paid
  <2>2. x.event[e] = "REVEALED" /\ x.taken[e] = 0
    BY <1>1 DEF Funded, Took
  <2>3. SumFunctionOnSet(y.taken, Events) = SumFunctionOnSet(x.taken, Events) + (y.taken[e] - x.taken[e])
    <3>1. \A f \in Events : x.taken[f] \in Int /\ y.taken[f] \in Int
      BY <1>1, SessionIs
    <3>2. \A f \in Events \ {e} : x.taken[f] = y.taken[f]
      OBVIOUS
    <3> QED BY <3>1, <3>2, EventsFinite, SumChange
  <2>4. PICK p, q \in Int : /\ p = SumFunctionOnSet(Amount, Paid(x))
                            /\ q = SumFunctionOnSet(x.taken, Events)
    <3>1. \A f \in Events : x.taken[f] \in Int
      BY <1>1, SessionIs
    <3>2. \A b \in Paid(x) : Amount[b] \in Int
      BY SimulationConstants DEF Paid
    <3>3. IsFiniteSet(Paid(x))
      BY RowsOfTheirOwn, FS_Subset DEF Paid
    <3> QED BY <3>1, <3>2, <3>3, EventsFinite, SumTake
  <2>5. x.current + x.savings = Budget - p - q
    BY <1>1, <2>4 DEF Funded
  <2>6. y.current + y.savings = Budget - p - (q + (c - 0))
    BY <1>5, <2>5
  <2>7. y.current + y.savings = Budget - SumFunctionOnSet(Amount, Paid(y))
                                       - SumFunctionOnSet(y.taken, Events)
    BY <2>1, <2>2, <2>3, <2>4, <2>6
  <2>8. ASSUME NEW f \in Events
        PROVE  Took(y, f)
    <3>1. CASE f = e
      <4>1. y.event[f] = fate /\ y.taken[f] = c
        BY <3>1
      <4>2. CASE fate = "RESOLVED"
        <5>1. o \in Options[e] /\ c = o.cost
          BY <4>2
        <5> QED BY <3>1, <4>1, <4>2, <5>1 DEF Took
      <4>3. CASE fate = "EXPIRED"
        <5>1. o = Expiry[e]
          BY <4>3
        <5>2. \/ c = Expiry[e].cost
              \/ c < Expiry[e].cost /\ y.current = 0 /\ y.savings = 0
          BY <5>1
        <5> QED BY <3>1, <4>1, <4>3, <5>2 DEF Took
      <4> QED BY <4>2, <4>3
    <3>2. CASE f # e
      <4>1. y.event[f] = x.event[f] /\ y.taken[f] = x.taken[f]
        BY <3>2
      <4>2. x.current = 0 /\ x.savings = 0 => y.current = 0 /\ y.savings = 0
        BY <1>5
      <4>3. Took(x, f)
        BY <1>1 DEF Funded
      <4> QED BY <4>1, <4>2, <4>3 DEF Took
    <3> QED BY <3>1, <3>2
  <2>9. y.current + y.savings <= Budget
    BY <1>5
  <2> QED BY <2>7, <2>8, <2>9 DEF Funded
<1>33. Prized(y) /\ Fresh(y)
  BY <1>1 DEF Prized, Fresh
<1>34. Sound(y)
  BY <1>27, <1>30, <1>31, <1>32, <1>33 DEF Sound
<1>35. ASSUME fate = "EXPIRED"
       PROVE  Passes(x, y)
  <2>1. x.day <= y.day
    BY <1>1, SessionIs
  <2>2. \A b \in Bills :
         /\ x.bill[b] \in {"PAID", "MISSED"} => y.bill[b] = x.bill[b]
         /\ IsOpen(x, b) => IsOpen(y, b)
         /\ x.bill[b] = "ABSENT" => y.bill[b] = "ABSENT" \/ IsOpen(y, b)
    BY <1>25 DEF IsOpen
  <2>3. TriggerDay[e] = y.day
    BY <1>1 DEF Calendar
  <2>4. \A f \in Events \ {e} : x.event[f] # "REVEALED" /\ y.event[f] = x.event[f]
    BY <1>28 DEF Revealed
  <2> QED BY <1>35, <2>1, <2>2, <2>3, <2>4 DEF Passes
<1> QED BY <1>25, <1>28, <1>29, <1>34, <1>35

\* An event is settled, by the player or by its deadline.
Settlement(x, e, o, fate, row) ==
    Introduce(Record(Decided(x, Debit(x, o.cost), e, fate, o.cost), {row}), o.bills, x.day)

\* Settling an event leaves a sound session, and the event behind it.
LEMMA SettleIs ==
  ASSUME NEW x, Sound(x), x.status = "ACTIVE", NEW e \in Events, x.event[e] = "REVEALED",
         NEW o \in Options[e] \cup {Expiry[e]}, NEW fate,
         NEW row \in Entry, row.of = e,
         \/ /\ fate = "RESOLVED" /\ row.source = "DECISION" /\ o \in Options[e]
            /\ Covered(x, o.cost) = o.cost
         \/ fate = "EXPIRED" /\ row.source = "EXPIRY" /\ o = Expiry[e],
         NEW y, y = Settlement(x, e, o, fate, row)
  PROVE  /\ Sound(y) /\ Revealed(y) = {} /\ Revealed(x) = {e}
         /\ y.status = "ACTIVE" /\ y.day = x.day /\ y.hold = "EVENT_RESULT"
         /\ y.event[e] = fate /\ \A f \in Events \ {e} : y.event[f] = x.event[f]
         /\ fate = "EXPIRED" => Passes(x, y)
         /\ \A b \in Bills : y.bill[b] = IF b \in o.bills /\ Due[b] > x.day
                                         THEN "SCHEDULED" ELSE x.bill[b]
         /\ \A b \in o.bills : x.bill[b] = "ABSENT"
<1>1. x \in Sessions /\ Booked(x) /\ fate \in {"RESOLVED", "EXPIRED"}
  BY DEF Sound
<1>2. PICK c, d, rows, bills, day :
        /\ c = Covered(x, o.cost) /\ d = Debit(x, o.cost) /\ rows = {row}
        /\ bills = o.bills /\ day = x.day
  OBVIOUS
<1>0. PICK w : w = Decided(x, d, e, fate, o.cost)
  OBVIOUS
<1>6. PICK u : u = Record(w, rows)
  OBVIOUS
<1>3. /\ w \in Sessions /\ w.nextDay = None /\ w.hold = "EVENT_RESULT"
      /\ w.event[e] = fate /\ \A f \in Events \ {e} : w.event[f] = x.event[f]
      /\ w.taken[e] = c /\ \A f \in Events \ {e} : w.taken[f] = x.taken[f]
      /\ c \in Nat
      /\ w.current + w.savings = x.current + x.savings - c
      /\ c = o.cost \/ (c < o.cost /\ w.current = 0 /\ w.savings = 0)
      /\ x.current + x.savings >= o.cost => c = o.cost
      /\ w.status = "ACTIVE" /\ w.day = x.day /\ w.bill = x.bill /\ w.intro = x.intro
      /\ w.score = x.score /\ w.ledger = x.ledger /\ w.rewarded = x.rewarded /\ w.xp = x.xp
  <2>1. /\ Sound(x) /\ x.status = "ACTIVE" /\ e \in Events /\ o \in Options[e] \cup {Expiry[e]}
        /\ d = Debit(x, o.cost)
        /\ w = Decided(x, d, e, fate, o.cost)
    BY <1>0, <1>2
  <2>2. /\ w \in Sessions /\ w.nextDay = None /\ w.hold = "EVENT_RESULT"
        /\ w.event[e] = fate /\ \A f \in Events \ {e} : w.event[f] = x.event[f]
        /\ w.taken[e] = Covered(x, o.cost) /\ \A f \in Events \ {e} : w.taken[f] = x.taken[f]
        /\ Covered(x, o.cost) \in Nat
        /\ w.current + w.savings = x.current + x.savings - Covered(x, o.cost)
        /\ \/ Covered(x, o.cost) = o.cost
           \/ Covered(x, o.cost) < o.cost /\ w.current = 0 /\ w.savings = 0
        /\ x.current + x.savings >= o.cost => Covered(x, o.cost) = o.cost
        /\ w.status = "ACTIVE" /\ w.day = x.day /\ w.bill = x.bill /\ w.intro = x.intro
        /\ w.score = x.score /\ w.ledger = x.ledger /\ w.rewarded = x.rewarded /\ w.xp = x.xp
    BY ONLY <1>1, <2>1, SettleWrites
  <2> QED BY ONLY <1>2, <2>2
<1>4. rows \in SUBSET Entry /\ rows = {row}
  BY <1>2
<1>5. /\ u \in Sessions /\ Booked(u)
      /\ SameClock(w, u) /\ SamePlace(w, u) /\ SameThings(w, u) /\ SameMoney(w, u)
      /\ SamePrize(w, u)
  <2>1. u = Record(w, rows)
    BY <1>6
  <2>2. \/ fate = "RESOLVED" /\ row.source = "DECISION"
        \/ fate = "EXPIRED" /\ row.source = "EXPIRY"
    OBVIOUS
  <2>3. row \in Entry /\ row.of = e /\ x.event[e] = "REVEALED" /\ x.status = "ACTIVE"
        /\ e \in Events
    OBVIOUS
  <2> QED BY ONLY <1>1, <1>3, <1>4, <2>1, <2>2, <2>3, SettleBooks
<1>7. /\ y \in Sessions
      /\ SameClock(u, y) /\ SamePlace(u, y) /\ SameMoney(u, y) /\ SamePrize(u, y)
      /\ SameScore(u, y) /\ y.intro = u.intro /\ y.event = u.event
      /\ \A b \in Bills : y.bill[b] = IF b \in bills /\ Due[b] > day THEN "SCHEDULED" ELSE u.bill[b]
  <2>1. y = Introduce(u, bills, day)
    BY <1>0, <1>2, <1>6 DEF Settlement
  <2> QED BY ONLY <1>5, <2>1, IntroduceIs
<1>8. /\ u.status = "ACTIVE" /\ u.day = x.day /\ u.bill = x.bill
      /\ u.current = w.current /\ u.savings = w.savings
  BY ONLY <1>3, <1>5 DEF SamePlace, SameThings, SameMoney
<1>9. /\ y.status = "ACTIVE" /\ y.day = x.day /\ y.hold = "EVENT_RESULT"
      /\ y.event = w.event /\ y.intro = x.intro /\ y.taken = w.taken /\ y.current = w.current
      /\ y.savings = w.savings /\ y.rewarded = x.rewarded /\ y.xp = x.xp
  BY ONLY <1>3, <1>5, <1>7 DEF SamePlace, SameClock, SameMoney, SamePrize, SameThings
<1>10. \A b \in Bills : y.bill[b] = IF b \in o.bills /\ Due[b] > x.day THEN "SCHEDULED" ELSE x.bill[b]
  BY ONLY <1>2, <1>7, <1>8
<1>11. \A b \in o.bills : x.bill[b] = "ABSENT"
  BY DEF Sound, Calendar
<1>12. Booked(y)
  <2>1. \A b \in Bills : /\ u.bill[b] = "PAID" <=> y.bill[b] = "PAID"
                         /\ u.bill[b] = "MISSED" <=> y.bill[b] = "MISSED"
    BY ONLY <1>8, <1>10, <1>11
  <2>2. y.event = u.event /\ (u.status = "COMPLETED" <=> y.status = "COMPLETED")
    BY ONLY <1>7, <1>8, <1>9
  <2> QED BY ONLY <1>5, <1>7, <2>1, <2>2, BookStays
<1>13. \/ fate = "RESOLVED" /\ o \in Options[e] /\ c = o.cost
       \/ fate = "EXPIRED" /\ o = Expiry[e]
  BY <1>2
<1>14. /\ y \in Sessions /\ y.event[e] = fate /\ \A f \in Events \ {e} : y.event[f] = x.event[f]
       /\ y.taken[e] = c /\ \A f \in Events \ {e} : y.taken[f] = x.taken[f]
       /\ y.current + y.savings = x.current + x.savings - c
       /\ c = o.cost \/ (c < o.cost /\ y.current = 0 /\ y.savings = 0)
       /\ c \in Nat
  BY ONLY <1>3, <1>7, <1>9
<1>15. /\ Sound(x) /\ x.status = "ACTIVE" /\ e \in Events /\ x.event[e] = "REVEALED"
       /\ o \in Options[e] \cup {Expiry[e]}
  OBVIOUS
<1>16. /\ Sound(y) /\ Revealed(y) = {} /\ Revealed(x) = {e}
       /\ fate = "EXPIRED" => Passes(x, y)
  BY ONLY <1>9, <1>10, <1>12, <1>13, <1>14, <1>15, SettleSound
<1> QED BY ONLY <1>9, <1>10, <1>11, <1>14, <1>16

\* A session stays sound as long as nothing is settled, whatever the clocks do.
LEMMA SoundStays ==
  ASSUME NEW x, Sound(x), NEW y \in Sessions, y.day = x.day, y.bill = x.bill, y.event = x.event,
         SameMoney(x, y), SameScore(x, y), SamePrize(x, y),
         y.status = "COMPLETED" <=> x.status = "COMPLETED",
         y.status = "BRIEFING" => x.status = "BRIEFING",
         y.hold = "EVENT_REVEAL" <=> x.hold = "EVENT_REVEAL",
         \A s \in Scheduled : y.intro[s] = "WAITING" => x.intro[s] = "WAITING"
  PROVE  Sound(y) /\ Passes(x, y)
<1>1. /\ x \in Sessions /\ Calendar(x) /\ Timely(x) /\ Asked(x) /\ Prized(x) /\ Booked(x)
      /\ Funded(x) /\ Fresh(x)
  BY DEF Sound
<1>2. Booked(y)
  BY <1>1, BookStays
<1>3. Funded(y)
  BY <1>1, FundsStay
<1>4. Calendar(y)
  BY <1>1 DEF Calendar
<1>5. Timely(y) /\ Asked(y)
  BY <1>1 DEF Timely, Asked, Revealed, IsOpen
<1>6. Prized(y) /\ Fresh(y)
  BY <1>1 DEF Prized, Fresh, SamePrize, SameMoney
<1>7. Passes(x, y)
  BY <1>1, SessionIs DEF Passes, IsOpen, Calendar
<1> QED BY <1>2, <1>3, <1>4, <1>5, <1>6, <1>7 DEF Sound

\* The event of the day is revealed to a player who has seen the new bills.
LEMMA RevealSound ==
  ASSUME NEW x, Sound(x), x.status = "ACTIVE", Revealed(x) = {}, DueEvents(x) # {},
         NEW y, y = Reveal(x, FirstEvent(x))
  PROVE  Sound(y) /\ Passes(x, y) /\ y.status = "ACTIVE"
<1>1. /\ x \in Sessions /\ Calendar(x) /\ Timely(x) /\ Asked(x) /\ Prized(x) /\ Booked(x)
      /\ Funded(x)
  BY DEF Sound
<1>2. PICK e \in Events : /\ e = FirstEvent(x) /\ x.event[e] = "SCHEDULED" /\ TriggerDay[e] <= x.day
  BY FirstEventIs DEF DueEvents
<1>3. /\ y \in Sessions /\ y.hold = "EVENT_REVEAL" /\ y.nextDay = None
      /\ y.timed = x.timed /\ y.paused = x.paused
      /\ y.status = x.status /\ y.day = x.day /\ y.bill = x.bill /\ y.intro = x.intro
      /\ SameMoney(x, y) /\ SamePrize(x, y) /\ SameScore(x, y)
      /\ y.event[e] = "REVEALED" /\ \A f \in Events \ {e} : y.event[f] = x.event[f]
  BY <1>1, <1>2, RevealIs
<1>4. TriggerDay[e] = x.day
  <2>1. x.day <= TriggerDay[e] /\ x.day \in Int /\ TriggerDay[e] \in Int
    BY <1>1, <1>2, SessionIs, SimulationConstants DEF Calendar
  <2> QED BY <1>2, <2>1
<1>5. \A f \in Events : /\ x.event[f] # "REVEALED"
                        /\ x.event[f] = "RESOLVED" <=> y.event[f] = "RESOLVED"
                        /\ x.event[f] = "EXPIRED" <=> y.event[f] = "EXPIRED"
  BY <1>2, <1>3 DEF Revealed
<1>6. Booked(y)
  BY <1>1, <1>3, <1>5, BookStays
<1>7. Funded(y)
  BY <1>1, <1>3, <1>5, FundsStay
<1>8. Calendar(y)
  BY <1>1, <1>2, <1>3, <1>4 DEF Calendar
<1>9. Revealed(y) = {e}
  BY <1>3, <1>5 DEF Revealed
<1>10. Asked(y)
  BY <1>3, <1>9 DEF Asked
<1>11. Timely(y)
  BY <1>1, <1>3 DEF Timely, IsOpen
<1>12. Prized(y) /\ Fresh(y)
  BY <1>1, <1>3 DEF Prized, Fresh, SamePrize
<1>13. Passes(x, y)
  <2>1. x.day <= y.day
    BY <1>1, <1>3, SessionIs
  <2> QED BY <1>2, <1>3, <1>5, <2>1 DEF Passes, IsOpen
<1> QED BY <1>3, <1>6, <1>7, <1>8, <1>10, <1>11, <1>12, <1>13 DEF Sound

\* The transition leaves a sound session, in which days have passed or none.
LEMMA ResolveIs ==
  ASSUME NEW x, Sound(x), NEW manual, NEW y, y = Resolve(x, manual)
  PROVE  /\ Sound(y)
         /\ \/ y = x
            \/ Closes(x, y)
            \/ x.status = "ACTIVE" /\ y.status = "ACTIVE" /\ Passes(x, y)
         /\ \A e \in Revealed(x) : y.event[e] = "REVEALED" => y = x
<1>1. x \in Sessions /\ Calendar(x) /\ Asked(x) /\ Prized(x) /\ Booked(x) /\ Funded(x)
  BY DEF Sound
<1>2. CASE x.status = "COMPLETED"
  <2>1. x.rewarded
    BY <1>1, <1>2 DEF Prized
  <2>2. y = x
    BY <1>2, <2>1 DEF Resolve, Reward
  <2> QED BY <2>2
<1>3. CASE x.status # "ACTIVE" /\ x.status # "COMPLETED"
  BY <1>3 DEF Resolve
<1>4. CASE x.status = "ACTIVE" /\ x.hold = "NEW_OBLIGATION"
  BY <1>4 DEF Resolve
<1>5. CASE x.status = "ACTIVE" /\ x.hold # "NEW_OBLIGATION" /\ Revealed(x) # {}
  <2>1. y = IF TimeIsUp(x) THEN Expire(x, CHOOSE e \in Revealed(x) : TRUE) ELSE x
    BY <1>5 DEF Resolve
  <2>2. CASE ~TimeIsUp(x)
    BY <2>1, <2>2
  <2>3. CASE TimeIsUp(x)
    <3>1. PICK e \in Events : /\ e = (CHOOSE f \in Revealed(x) : TRUE) /\ x.event[e] = "REVEALED"
      BY <1>5 DEF Revealed
    <3>2. PICK o : o = Expiry[e]
      OBVIOUS
    <3>3. o \in Options[e] \cup {Expiry[e]} /\ o.points \in Int
      <4>1. o \in Outcomes
        BY <3>2, SimulationConstants
      <4> QED BY <3>2, <4>1 DEF Outcomes
    <3>4. PICK row \in Entry : row = Row("EXPIRY", e, o.points) /\ row.source = "EXPIRY" /\ row.of = e
      <4>1. PICK row : row = [source |-> "EXPIRY", of |-> e, points |-> o.points]
        OBVIOUS
      <4>2. "EXPIRY" \in Sources /\ e \in Subjects
        BY DEF Sources, Subjects
      <4>3. row \in Entry /\ row.source = "EXPIRY" /\ row.of = e
        BY <3>3, <4>1, <4>2 DEF Entry
      <4> QED BY <4>1, <4>3 DEF Row
    <3>5. PICK fate : fate = "EXPIRED"
      OBVIOUS
    <3>8. y = Settlement(x, e, o, fate, row)
      <4>1. y = Expire(x, e)
        BY <2>1, <2>3, <3>1
      <4> QED BY ONLY <3>2, <3>4, <3>5, <4>1 DEF Expire, Settlement, Decided
    <3>9. /\ Sound(x) /\ x.status = "ACTIVE" /\ row.of = e
          /\ fate = "EXPIRED" /\ row.source = "EXPIRY" /\ o = Expiry[e]
          /\ row \in Entry /\ e \in Events
      BY <1>5, <3>2, <3>4, <3>5
    <3>10. /\ Sound(y) /\ Revealed(y) = {} /\ y.status = "ACTIVE" /\ Passes(x, y)
      <4>1. x.event[e] = "REVEALED"
        BY <3>1
      <4> QED BY ONLY <3>3, <3>8, <3>9, <4>1, SettleIs
    <3>11. \A f \in Revealed(x) : y.event[f] # "REVEALED"
      BY <3>10 DEF Revealed
    <3> QED BY <1>5, <3>10, <3>11
  <2> QED BY <2>2, <2>3
<1>6. CASE x.status = "ACTIVE" /\ x.hold # "NEW_OBLIGATION" /\ Revealed(x) = {}
  <2>1. Dawn(x)
    BY <1>1, <1>6 DEF Dawn
  <2>2. PICK z : z = StopForDay(x)
    OBVIOUS
  <2>3. /\ Sound(z) /\ Passes(x, z) /\ z.status = "ACTIVE"
        /\ z.day = x.day /\ z.timed = x.timed
        /\ IF Stops(x) THEN z.nextDay = None
           ELSE Runs(x, z) /\ z.nextDay = x.nextDay /\ z.hold = x.hold /\ ~Stops(z)
    BY <2>1, <2>2, DayBreaks
  <2>4. y = IF Stops(x) THEN z
            ELSE IF x.timed /\ x.nextDay = None /\ x.hold = "NONE"
            THEN [z EXCEPT !.nextDay = DayLength]
            ELSE IF x.timed THEN (IF manual THEN z ELSE CatchUp(z))
            ELSE IF manual THEN Boundary(z) ELSE z
    BY <1>6, <2>2 DEF Resolve
  <2>5. CASE y = z
    BY <1>6, <2>3, <2>5
  <2>6. CASE ~Stops(x) /\ y = [z EXCEPT !.nextDay = DayLength]
    <3>1. z \in Sessions /\ DayLength \in Ticks
      BY <2>3, TicksAre DEF Sound
    <3>2. y \in Sessions
      BY <2>6, <3>1 DEF Sessions
    <3>3. /\ y.day = z.day /\ y.bill = z.bill /\ y.event = z.event /\ y.intro = z.intro
          /\ y.status = z.status /\ y.hold = z.hold
      BY <2>6, <3>1 DEF Sessions
    <3>4. SameMoney(z, y) /\ SameScore(z, y) /\ SamePrize(z, y)
      BY <2>6, <3>1 DEF Sessions, SameMoney, SameScore, SamePrize
    <3>5. Sound(y) /\ Passes(z, y)
      BY <2>3, <3>2, <3>3, <3>4, SoundStays
    <3>6. Passes(x, y)
      <4>1. Runs(x, z)
        BY <2>3, <2>6
      <4> QED BY <1>1, <1>6, <3>1, <3>2, <3>5, <4>1, RunsOn
    <3> QED BY <1>6, <2>3, <3>3, <3>5, <3>6
  <2>7. ASSUME ~Stops(x), Sound(y), Closes(z, y) \/ (y.status = "ACTIVE" /\ Passes(z, y))
        PROVE  Closes(x, y) \/ (y.status = "ACTIVE" /\ Passes(x, y))
    <3>1. Runs(x, z) /\ z \in Sessions /\ y \in Sessions
      BY <2>3, <2>7 DEF Sound
    <3> QED BY <1>1, <1>6, <2>7, <3>1, RunsOn
  <2>8. ASSUME ~Stops(x)
        PROVE  ~Stops(z) /\ Revealed(z) = {}
    BY <1>6, <2>3, <2>8 DEF Runs, Revealed
  <2>9. CASE ~Stops(x) /\ y = CatchUp(z)
    <3>1. Sound(y) /\ (Closes(z, y) \/ (y.status = "ACTIVE" /\ Passes(z, y)))
      BY <2>3, <2>8, <2>9, CatchUpIs
    <3> QED BY <1>6, <2>7, <2>9, <3>1
  <2>10. CASE ~Stops(x) /\ ~x.timed /\ y = Boundary(z)
    <3>1. Sound(y) /\ (Closes(z, y) \/ (y.status = "ACTIVE" /\ Passes(z, y)))
      BY <2>3, <2>8, <2>10, BoundaryIs
    <3> QED BY <1>6, <2>7, <2>10, <3>1
  <2> QED BY <2>4, <2>5, <2>6, <2>9, <2>10
<1> QED BY <1>2, <1>3, <1>4, <1>5, <1>6

\* What is written when a bill is paid.
PaidOut(d, b) == [d EXCEPT !.bill[b] = "PAID", !.nextDay = None, !.hold = "PAYMENT_RESULT"]

\* What a payment takes, and what it leaves alone.
LEMMA PayWrites ==
  ASSUME NEW x \in Sessions, NEW b \in Bills, NEW d, d = Debit(x, Amount[b]),
         x.current + x.savings >= Amount[b], NEW w, w = PaidOut(d, b)
  PROVE  /\ w \in Sessions /\ w.nextDay = None /\ w.hold = "PAYMENT_RESULT"
         /\ w.bill[b] = "PAID" /\ \A c \in Bills \ {b} : w.bill[c] = x.bill[c]
         /\ w.current + w.savings = x.current + x.savings - Amount[b]
         /\ w.status = x.status /\ w.day = x.day /\ w.event = x.event /\ w.intro = x.intro
         /\ w.taken = x.taken
         /\ w.score = x.score /\ w.ledger = x.ledger /\ w.rewarded = x.rewarded /\ w.xp = x.xp
<1>1. PICK cost : cost = Amount[b] /\ cost \in Nat
  BY SimulationConstants
<1>2. /\ d \in Sessions
      /\ SameClock(x, d) /\ SamePlace(x, d) /\ SameThings(x, d) /\ SamePrize(x, d)
      /\ SameScore(x, d) /\ d.taken = x.taken
      /\ x.current \in Nat /\ x.savings \in Nat /\ d.current \in Nat /\ d.savings \in Nat
      /\ Covered(x, cost) \in Nat
      /\ d.current + d.savings = x.current + x.savings - Covered(x, cost)
      /\ x.current + x.savings >= cost => Covered(x, cost) = cost
  <2>1. cost \in Nat /\ d = Debit(x, cost) /\ x \in Sessions
    BY <1>1
  <2>2. d \in Sessions
    BY ONLY <2>1, DebitIs
  <2>3. x.current \in Nat /\ x.savings \in Nat /\ d.current \in Nat /\ d.savings \in Nat
    BY ONLY <2>1, <2>2, SessionIs, SimulationConstants
  <2>4. Covered(x, cost) \in Nat
    BY ONLY <2>1, DebitIs
  <2>5. d.current + d.savings = x.current + x.savings - Covered(x, cost)
    BY ONLY <2>1, <2>2, <2>3, <2>4, DebitIs
  <2>6. x.current + x.savings >= cost => Covered(x, cost) = cost
    BY ONLY <2>1, <2>2, <2>3, <2>4, DebitIs
  <2>7. \/ Covered(x, cost) = cost
        \/ Covered(x, cost) < cost /\ d.current = 0 /\ d.savings = 0
    BY ONLY <2>1, <2>2, <2>3, <2>4, DebitIs
  <2>8. Covered(x, cost) <= x.current + x.savings
    BY ONLY <2>1, <2>2, <2>3, <2>4, DebitIs
  <2>9. /\ SameClock(x, d) /\ SamePlace(x, d) /\ SameThings(x, d) /\ SamePrize(x, d)
        /\ SameScore(x, d) /\ d.taken = x.taken
    BY ONLY <2>1, <2>2, <2>3, <2>4, DebitIs
  <2> QED BY ONLY <2>2, <2>3, <2>4, <2>5, <2>6, <2>7, <2>8, <2>9
<1>3. PICK m : m = [x.bill EXCEPT ![b] = "PAID"]
  OBVIOUS
<1>4. m \in [Bills -> {"ABSENT", "SCHEDULED", "PAYABLE", "PAID", "MISSED"}]
      /\ m[b] = "PAID" /\ \A c \in Bills \ {b} : m[c] = x.bill[c]
  <2>1. x.bill \in [Bills -> {"ABSENT", "SCHEDULED", "PAYABLE", "PAID", "MISSED"}]
    BY SessionIs
  <2> QED BY <1>3, <2>1
<1>5. w = [d EXCEPT !.bill = m, !.nextDay = None, !.hold = "PAYMENT_RESULT"]
  <2>1. d.bill = x.bill
    BY <1>2 DEF SameThings
  <2> QED BY <1>2, <1>3, <2>1 DEF PaidOut, Sessions
<1>6. w \in Sessions
  <2>1. None \in Ticks /\ "PAYMENT_RESULT" \in Hold
    BY TicksAre DEF Hold
  <2>2. PICK p \in Sessions : p = [d EXCEPT !.bill = m]
    BY <1>2, <1>4 DEF Sessions
  <2>3. PICK q \in Sessions : q = [p EXCEPT !.nextDay = None]
    BY <2>1 DEF Sessions
  <2>4. w = [q EXCEPT !.hold = "PAYMENT_RESULT"]
    BY <1>5, <2>2, <2>3
  <2> QED BY <2>1, <2>4 DEF Sessions
<1>7. /\ w.nextDay = None /\ w.hold = "PAYMENT_RESULT" /\ w.bill = m
      /\ w.event = d.event /\ w.intro = d.intro
  BY <1>2, <1>5 DEF Sessions
<1>8. w.status = d.status /\ w.day = d.day /\ w.current = d.current /\ w.savings = d.savings
      /\ w.taken = d.taken
  BY <1>2, <1>5 DEF Sessions
<1>9. SamePrize(d, w) /\ SameScore(d, w)
  BY <1>2, <1>5 DEF Sessions, SamePrize, SameScore
<1>10. w.current + w.savings = x.current + x.savings - Amount[b]
  BY <1>1, <1>2, <1>8
<1>11. /\ w.status = x.status /\ w.day = x.day /\ w.event = x.event /\ w.intro = x.intro
       /\ w.taken = x.taken
       /\ w.score = x.score /\ w.ledger = x.ledger /\ w.rewarded = x.rewarded /\ w.xp = x.xp
  BY <1>2, <1>7, <1>8, <1>9 DEF SamePlace, SameThings, SamePrize, SameScore
<1> QED BY <1>4, <1>6, <1>7, <1>10, <1>11

\* The entry of a bill that is paid.
LEMMA PayBooks ==
  ASSUME NEW x \in Sessions, Booked(x), x.status = "ACTIVE", NEW b \in Bills, IsOpen(x, b),
         NEW row \in Entry, row.of = b, row.source = "PAYMENT",
         NEW w \in Sessions, w.bill[b] = "PAID", \A c \in Bills \ {b} : w.bill[c] = x.bill[c],
         w.status = "ACTIVE", w.event = x.event, w.score = x.score, w.ledger = x.ledger,
         NEW rows \in SUBSET Entry, rows = {row}, NEW u, u = Record(w, rows)
  PROVE  /\ u \in Sessions /\ Booked(u)
         /\ SameClock(w, u) /\ SamePlace(w, u) /\ SameThings(w, u) /\ SameMoney(w, u)
         /\ SamePrize(w, u)
<1>1. IsFiniteSet(rows)
  BY FS_Singleton
<1>2. ~Settled(x, row.source, row.of)
  BY DEF Settled, IsOpen
<1>3. rows \cap DOMAIN w.ledger = {}
  BY <1>2 DEF Booked
<1>4. Ledgered(w)
  BY DEF Booked, Ledgered, Reconciles
<1>5. /\ u \in Sessions /\ Ledgered(u) /\ DOMAIN u.ledger = DOMAIN w.ledger \cup rows
      /\ SameClock(w, u) /\ SamePlace(w, u) /\ SameThings(w, u) /\ SameMoney(w, u)
      /\ SamePrize(w, u)
  BY <1>1, <1>3, <1>4, RecordIs
<1>6. /\ u.status = "ACTIVE" /\ u.bill = w.bill /\ u.event = x.event
      /\ DOMAIN u.ledger = DOMAIN x.ledger \cup rows
  BY <1>5 DEF SamePlace, SameThings
<1>7. Booked(u)
  <2>1. \A s \in Sources, k \in Subjects : Settled(u, s, k) <=>
          Settled(x, s, k) \/ \E r \in rows : r.source = s /\ r.of = k
    <3> TAKE s \in Sources, k \in Subjects
    <3>1. (\E r \in rows : r.source = s /\ r.of = k) <=> s = "PAYMENT" /\ k = b
      OBVIOUS
    <3>2. (s = "PAYMENT" /\ k \in Bills /\ w.bill[k] = "PAID") <=>
            \/ s = "PAYMENT" /\ k \in Bills /\ x.bill[k] = "PAID"
            \/ s = "PAYMENT" /\ k = b
      OBVIOUS
    <3>3. (s = "MISSED" /\ k \in Bills /\ w.bill[k] = "MISSED") <=>
            s = "MISSED" /\ k \in Bills /\ x.bill[k] = "MISSED"
      BY DEF IsOpen
    <3> QED BY <1>6, <3>1, <3>2, <3>3 DEF Settled
  <2>2. \A r, q \in rows : r.source = q.source /\ r.of = q.of => r = q
    OBVIOUS
  <2>3. \A r \in rows : ~Settled(x, r.source, r.of)
    BY <1>2
  <2>4. u \in Sessions /\ Ledgered(u) /\ DOMAIN u.ledger = DOMAIN x.ledger \cup rows
    BY <1>5, <1>6
  <2>5. x \in Sessions /\ Booked(x) /\ rows \in SUBSET Entry
    OBVIOUS
  <2> QED BY ONLY <2>1, <2>2, <2>3, <2>4, <2>5, BookIs
<1> QED BY <1>5, <1>7
\* A bill that is paid leaves a sound session.
LEMMA PaySound ==
  ASSUME NEW x, Sound(x), x.status = "ACTIVE", x.hold = "NONE", NEW b \in Bills, IsOpen(x, b),
         x.current + x.savings >= Amount[b],
         NEW y \in Sessions, y.status = "ACTIVE", y.day = x.day, y.hold = "PAYMENT_RESULT",
         y.intro = x.intro, y.event = x.event, y.taken = x.taken,
         y.bill[b] = "PAID", \A c \in Bills \ {b} : y.bill[c] = x.bill[c],
         y.current + y.savings = x.current + x.savings - Amount[b],
         y.rewarded = x.rewarded, y.xp = x.xp, Booked(y)
  PROVE  Sound(y)
<1>1. /\ x \in Sessions /\ Calendar(x) /\ Timely(x) /\ Asked(x) /\ Prized(x) /\ Funded(x)
  BY DEF Sound
<1>2. /\ x.current \in Nat /\ x.savings \in Nat /\ y.current \in Nat /\ y.savings \in Nat
      /\ Budget \in Nat /\ x.current + x.savings <= Budget
      /\ Amount[b] \in Nat /\ Amount[b] > 0
  BY <1>1, SessionIs, SimulationConstants DEF Funded
<1>3. Revealed(x) = {} /\ Revealed(y) = {}
  BY <1>1 DEF Asked, Revealed
<1>4. Asked(y)
  BY <1>3 DEF Asked
<1>5. Timely(y)
  <2> SUFFICES ASSUME NEW c \in Bills, IsOpen(y, c)
               PROVE  x.day <= Due[c]
    BY DEF Timely
  <2>1. c # b
    BY DEF IsOpen
  <2>2. IsOpen(x, c)
    BY <2>1 DEF IsOpen
  <2> QED BY <1>1, <2>2 DEF Timely
<1>6. Calendar(y)
  <2>1. \A c \in Bills : x.bill[c] = "ABSENT" => y.bill[c] = "ABSENT"
    BY DEF IsOpen
  <2>2. \A e \in Events : \A o \in Options[e] \cup {Expiry[e]} : o.bills \in SUBSET Bills
    BY SimulationConstants DEF Outcomes
  <2>3. \A s \in Scheduled : s \in Bills
    BY SimulationConstants
  <2>4. ASSUME NEW e \in Events, x.event[e] \in {"SCHEDULED", "REVEALED"},
               NEW o \in Options[e] \cup {Expiry[e]}, NEW c \in o.bills
        PROVE  y.bill[c] = "ABSENT"
    <3>1. x.bill[c] = "ABSENT"
      BY <1>1, <2>4 DEF Calendar
    <3>2. c \in Bills
      BY <2>2
    <3> QED BY <2>1, <3>1, <3>2
  <2>5. ASSUME NEW s \in Scheduled, x.intro[s] = "WAITING"
        PROVE  x.day <= ShowDay[s] /\ y.bill[s] = "ABSENT"
    BY <1>1, <2>1, <2>3, <2>5 DEF Calendar
  <2>6. \A e \in Events : /\ x.event[e] = "SCHEDULED" => x.day <= TriggerDay[e]
                          /\ x.event[e] = "REVEALED" => x.day = TriggerDay[e]
    BY <1>1 DEF Calendar
  <2> QED BY <2>4, <2>5, <2>6 DEF Calendar
<1>7. Funded(y)
  <2>1. Paid(y) = Paid(x) \cup {b} /\ b \notin Paid(x)
    BY DEF Paid, IsOpen
  <2>2. PICK p, q \in Int : /\ p = SumFunctionOnSet(Amount, Paid(x))
                            /\ q = SumFunctionOnSet(x.taken, Events)
    <3>1. \A f \in Events : x.taken[f] \in Int
      BY <1>1, SessionIs
    <3>2. \A c \in Paid(x) : Amount[c] \in Int
      BY SimulationConstants DEF Paid
    <3>3. IsFiniteSet(Paid(x))
      BY RowsOfTheirOwn, FS_Subset DEF Paid
    <3> QED BY <3>1, <3>2, <3>3, EventsFinite, SumTake
  <2>3. SumFunctionOnSet(Amount, Paid(y)) = Amount[b] + p
    <3>1. \A c \in Paid(x) \cup {b} : Amount[c] \in Int
      BY SimulationConstants DEF Paid
    <3>2. IsFiniteSet(Paid(x))
      BY RowsOfTheirOwn, FS_Subset DEF Paid
    <3>3. PICK S : S = Paid(x) /\ b \notin S /\ IsFiniteSet(S) /\ \A c \in S \cup {b} : Amount[c] \in Int
      BY <2>1, <3>1, <3>2
    <3>4. SumFunctionOnSet(Amount, S \cup {b}) = Amount[b] + SumFunctionOnSet(Amount, S)
      BY ONLY <3>3, SumAdd
    <3> QED BY <2>1, <2>2, <3>3, <3>4
  <2>4. x.current + x.savings = Budget - p - q
    BY <1>1, <2>2 DEF Funded
  <2>5. y.current + y.savings = Budget - (Amount[b] + p) - q
    BY <1>2, <2>4
  <2>6. y.current + y.savings <= Budget
    BY <1>2
  <2>7. ~(x.current = 0 /\ x.savings = 0)
    BY <1>2
  <2>8. \A f \in Events : Took(y, f)
    <3> TAKE f \in Events
    <3>1. Took(x, f)
      BY <1>1 DEF Funded
    <3> QED BY <2>7, <3>1 DEF Took
  <2> QED BY <2>2, <2>3, <2>5, <2>6, <2>8 DEF Funded
<1>8. Prized(y) /\ Fresh(y)
  BY <1>1 DEF Prized, Fresh
<1> QED BY <1>4, <1>5, <1>6, <1>7, <1>8 DEF Sound

\* A bill is paid by the player.
Payment(x, b, row) == Record(PaidOut(Debit(x, Amount[b]), b), {row})

\* Paying a bill leaves a sound session, and the bill paid.
LEMMA PayIs ==
  ASSUME NEW x, Sound(x), x.status = "ACTIVE", x.hold = "NONE", NEW b \in Bills, IsOpen(x, b),
         x.current + x.savings >= Amount[b],
         NEW row \in Entry, row.of = b, row.source = "PAYMENT",
         NEW y, y = Payment(x, b, row)
  PROVE  /\ Sound(y) /\ y.status = "ACTIVE" /\ y.day = x.day /\ y.event = x.event
         /\ y.bill[b] = "PAID" /\ \A c \in Bills \ {b} : y.bill[c] = x.bill[c]
<1>1. x \in Sessions /\ Booked(x)
  BY DEF Sound
<1>2. PICK d, rows : d = Debit(x, Amount[b]) /\ rows = {row}
  OBVIOUS
<1>3. PICK w : w = PaidOut(d, b)
  OBVIOUS
<1>4. /\ w \in Sessions /\ w.nextDay = None /\ w.hold = "PAYMENT_RESULT"
      /\ w.bill[b] = "PAID" /\ \A c \in Bills \ {b} : w.bill[c] = x.bill[c]
      /\ w.current + w.savings = x.current + x.savings - Amount[b]
      /\ w.status = x.status /\ w.day = x.day /\ w.event = x.event /\ w.intro = x.intro
      /\ w.taken = x.taken
      /\ w.score = x.score /\ w.ledger = x.ledger /\ w.rewarded = x.rewarded /\ w.xp = x.xp
  <2>1. b \in Bills /\ x.current + x.savings >= Amount[b]
    OBVIOUS
  <2> QED BY ONLY <1>1, <1>2, <1>3, <2>1, PayWrites
<1>5. y = Record(w, rows)
  BY <1>2, <1>3 DEF Payment
<1>6. /\ y \in Sessions /\ Booked(y)
      /\ SameClock(w, y) /\ SamePlace(w, y) /\ SameThings(w, y) /\ SameMoney(w, y)
      /\ SamePrize(w, y)
  <2>1. /\ x.status = "ACTIVE" /\ b \in Bills /\ IsOpen(x, b)
        /\ row \in Entry /\ row.of = b /\ row.source = "PAYMENT"
        /\ rows \in SUBSET Entry /\ rows = {row} /\ w.status = "ACTIVE"
    BY <1>2, <1>4
  <2> QED BY ONLY <1>1, <1>4, <1>5, <2>1, PayBooks
<1>7. /\ y.status = "ACTIVE" /\ y.day = x.day /\ y.hold = "PAYMENT_RESULT" /\ y.intro = x.intro
      /\ y.event = x.event /\ y.taken = x.taken /\ y.bill = w.bill
      /\ y.current = w.current /\ y.savings = w.savings
      /\ y.rewarded = x.rewarded /\ y.xp = x.xp
  BY <1>4, <1>6 DEF SamePlace, SameThings, SameMoney, SamePrize
<1>8. Sound(y)
  <2>1. /\ y.bill[b] = "PAID" /\ \A c \in Bills \ {b} : y.bill[c] = x.bill[c]
        /\ y.current + y.savings = x.current + x.savings - Amount[b]
        /\ y \in Sessions /\ Booked(y)
    BY <1>4, <1>6, <1>7
  <2>2. /\ Sound(x) /\ x.status = "ACTIVE" /\ x.hold = "NONE" /\ b \in Bills /\ IsOpen(x, b)
        /\ x.current + x.savings >= Amount[b]
    OBVIOUS
  <2> QED BY ONLY <1>7, <2>1, <2>2, PaySound
<1> QED BY <1>4, <1>7, <1>8

-----------------------------------------------------------------------------
(* The month as its player sees it                                         *)

\* The views of a session that SimulationProps takes of it.
Phase(x) == CASE x.status = "BRIEFING" -> "PLANNED"
              [] x.status \in {"ACTIVE", "PAUSED"} -> "OPEN"
              [] OTHER -> x.status
BillFate(x, b) == CASE x.bill[b] = "ABSENT" -> "AWAY"
                    [] IsOpen(x, b) -> "OPEN"
                    [] x.bill[b] = "PAID" -> "DONE"
                    [] x.bill[b] = "MISSED" -> "LATE"
EventFate(x, e) == CASE x.event[e] = "SCHEDULED" -> "AWAY"
                     [] x.event[e] = "REVEALED" -> "OPEN"
                     [] x.event[e] = "RESOLVED" -> "DONE"
                     [] x.event[e] = "EXPIRED" -> "LATE"
Fate(x) == [i \in Bills \cup Events |-> IF i \in Bills THEN BillFate(x, i) ELSE EventFate(x, i)]

\* The steps of the month, between two sessions.
Last(i) == IF i \in Bills THEN Due[i] ELSE TriggerDay[i]
FatesBy(f, i, d) ==
    CASE f[i] = "AWAY" ->
           IF i \in Bills THEN {"AWAY"} \cup {g \in {"OPEN"} : Last(i) >= d}
           ELSE {g \in {"AWAY"} : Last(i) >= d} \cup {g \in {"OPEN"} : Last(i) = d}
      [] f[i] = "OPEN" ->
           IF i \in Bills THEN IF Last(i) < d THEN {"LATE"} ELSE {"OPEN", "DONE"}
           ELSE {g \in {"OPEN", "DONE", "LATE"} : Last(i) = d}
      [] OTHER -> {f[i]}
Same(x, y) == Phase(y) = Phase(x) /\ y.day = x.day /\ Fate(y) = Fate(x) /\ y.xp = x.xp
Starts(x, y) == /\ Phase(x) = "PLANNED" /\ Phase(y) = "OPEN"
                /\ y.day = x.day /\ Fate(y) = Fate(x) /\ y.xp = x.xp
Lives(x, y) ==
    /\ Phase(x) = "OPEN" /\ Phase(y) = "OPEN" /\ y.xp = x.xp /\ x.day <= y.day
    /\ \A i \in Bills \cup Events : Fate(y)[i] \in FatesBy(Fate(x), i, y.day)
    /\ \A i, j \in {k \in Bills \cup Events : Fate(x)[k] # "DONE" /\ Fate(y)[k] = "DONE"} : i = j
Ends(x, y) ==
    /\ Phase(x) = "OPEN" /\ Phase(y) = "COMPLETED" /\ y.day = Days /\ y.xp = 1
    /\ \A e \in Events : Fate(x)[e] \in {"DONE", "LATE"}
    /\ Fate(y) = [i \in Bills \cup Events |-> IF Fate(x)[i] = "OPEN" THEN "LATE" ELSE Fate(x)[i]]
Leaves(x, y) == /\ Phase(x) \in {"PLANNED", "OPEN"} /\ Phase(y) = "ABANDONED"
                /\ y.day = x.day /\ Fate(y) = Fate(x) /\ y.xp = x.xp
Moves(x, y) == Same(x, y) \/ Starts(x, y) \/ Lives(x, y) \/ Ends(x, y) \/ Leaves(x, y)

\* The fates of bills and events.
LEMMA FateIs ==
  ASSUME NEW x \in Sessions
  PROVE  /\ \A b \in Bills :
              /\ Fate(x)[b] \in {"AWAY", "OPEN", "DONE", "LATE"}
              /\ Fate(x)[b] = "AWAY" <=> x.bill[b] = "ABSENT"
              /\ Fate(x)[b] = "OPEN" <=> IsOpen(x, b)
              /\ Fate(x)[b] = "DONE" <=> x.bill[b] = "PAID"
              /\ Fate(x)[b] = "LATE" <=> x.bill[b] = "MISSED"
         /\ \A e \in Events :
              /\ Fate(x)[e] \in {"AWAY", "OPEN", "DONE", "LATE"}
              /\ Fate(x)[e] = "AWAY" <=> x.event[e] = "SCHEDULED"
              /\ Fate(x)[e] = "OPEN" <=> x.event[e] = "REVEALED"
              /\ Fate(x)[e] = "DONE" <=> x.event[e] = "RESOLVED"
              /\ Fate(x)[e] = "LATE" <=> x.event[e] = "EXPIRED"
<1>1. ASSUME NEW b \in Bills
      PROVE  /\ Fate(x)[b] \in {"AWAY", "OPEN", "DONE", "LATE"}
             /\ Fate(x)[b] = "AWAY" <=> x.bill[b] = "ABSENT"
             /\ Fate(x)[b] = "OPEN" <=> IsOpen(x, b)
             /\ Fate(x)[b] = "DONE" <=> x.bill[b] = "PAID"
             /\ Fate(x)[b] = "LATE" <=> x.bill[b] = "MISSED"
  <2>1. Fate(x)[b] = BillFate(x, b)
    BY DEF Fate
  <2>2. x.bill[b] \in {"ABSENT", "SCHEDULED", "PAYABLE", "PAID", "MISSED"}
    BY SessionIs
  <2> QED BY <2>1, <2>2 DEF BillFate, IsOpen
<1>2. ASSUME NEW e \in Events
      PROVE  /\ Fate(x)[e] \in {"AWAY", "OPEN", "DONE", "LATE"}
             /\ Fate(x)[e] = "AWAY" <=> x.event[e] = "SCHEDULED"
             /\ Fate(x)[e] = "OPEN" <=> x.event[e] = "REVEALED"
             /\ Fate(x)[e] = "DONE" <=> x.event[e] = "RESOLVED"
             /\ Fate(x)[e] = "LATE" <=> x.event[e] = "EXPIRED"
  <2>1. Fate(x)[e] = EventFate(x, e)
    BY RowsOfTheirOwn DEF Fate
  <2>2. x.event[e] \in {"SCHEDULED", "REVEALED", "RESOLVED", "EXPIRED"}
    BY SessionIs
  <2> QED BY <2>1, <2>2 DEF EventFate
<1> QED BY <1>1, <1>2

\* What may become of a bill and of an event.
LEMMA FatesAre ==
  ASSUME NEW f, NEW d
  PROVE  /\ \A b \in Bills :
              /\ f[b] = "AWAY" => "AWAY" \in FatesBy(f, b, d)
              /\ f[b] = "AWAY" /\ Due[b] >= d => "OPEN" \in FatesBy(f, b, d)
              /\ f[b] = "OPEN" /\ Due[b] < d => "LATE" \in FatesBy(f, b, d)
              /\ f[b] = "OPEN" /\ ~(Due[b] < d) =>
                   "OPEN" \in FatesBy(f, b, d) /\ "DONE" \in FatesBy(f, b, d)
              /\ f[b] \in {"DONE", "LATE"} => f[b] \in FatesBy(f, b, d)
         /\ \A e \in Events :
              /\ f[e] = "AWAY" /\ TriggerDay[e] >= d => "AWAY" \in FatesBy(f, e, d)
              /\ f[e] = "AWAY" /\ TriggerDay[e] = d => "OPEN" \in FatesBy(f, e, d)
              /\ f[e] = "OPEN" /\ TriggerDay[e] = d =>
                   \A g \in {"OPEN", "DONE", "LATE"} : g \in FatesBy(f, e, d)
              /\ f[e] \in {"DONE", "LATE"} => f[e] \in FatesBy(f, e, d)
<1>1. \A b \in Bills :
        /\ f[b] = "AWAY" => "AWAY" \in FatesBy(f, b, d)
        /\ f[b] = "AWAY" /\ Due[b] >= d => "OPEN" \in FatesBy(f, b, d)
        /\ f[b] = "OPEN" /\ Due[b] < d => "LATE" \in FatesBy(f, b, d)
        /\ f[b] = "OPEN" /\ ~(Due[b] < d) =>
             "OPEN" \in FatesBy(f, b, d) /\ "DONE" \in FatesBy(f, b, d)
        /\ f[b] \in {"DONE", "LATE"} => f[b] \in FatesBy(f, b, d)
  BY DEF FatesBy, Last
<1>2. \A e \in Events : e \notin Bills
  BY RowsOfTheirOwn
<1>3. \A e \in Events :
        /\ f[e] = "AWAY" /\ TriggerDay[e] >= d => "AWAY" \in FatesBy(f, e, d)
        /\ f[e] = "AWAY" /\ TriggerDay[e] = d => "OPEN" \in FatesBy(f, e, d)
        /\ f[e] = "OPEN" /\ TriggerDay[e] = d =>
             \A g \in {"OPEN", "DONE", "LATE"} : g \in FatesBy(f, e, d)
        /\ f[e] \in {"DONE", "LATE"} => f[e] \in FatesBy(f, e, d)
  BY <1>2 DEF FatesBy, Last
<1> QED BY <1>1, <1>3
\* Sessions whose bills and events have the same fate.
LEMMA SameFates ==
  ASSUME NEW x \in Sessions, NEW y \in Sessions, \A b \in Bills : y.bill[b] = x.bill[b],
         \A e \in Events : y.event[e] = x.event[e]
  PROVE  Fate(y) = Fate(x)
<1>1. \A b \in Bills : BillFate(y, b) = BillFate(x, b)
  BY DEF BillFate, IsOpen
<1>2. \A e \in Events : EventFate(y, e) = EventFate(x, e)
  BY DEF EventFate
<1>3. \A i \in Bills \cup Events : (IF i \in Bills THEN BillFate(y, i) ELSE EventFate(y, i))
                                   = IF i \in Bills THEN BillFate(x, i) ELSE EventFate(x, i)
  BY <1>1, <1>2
<1> QED BY <1>3 DEF Fate

\* Of a session that goes on the prize is still out.
LEMMA PrizeIs ==
  ASSUME NEW x, Prized(x)
  PROVE  x.xp = IF x.status = "COMPLETED" THEN 1 ELSE 0
BY DEF Prized

\* Days that pass are days of the month.
LEMMA PassesLives ==
  ASSUME NEW x, NEW y, Sound(x), Sound(y), x.status \in {"ACTIVE", "PAUSED"},
         y.status \in {"ACTIVE", "PAUSED"}, Passes(x, y)
  PROVE  Lives(x, y)
<1>1. /\ x \in Sessions /\ Prized(x) /\ y \in Sessions /\ Prized(y) /\ Timely(y) /\ Calendar(y)
  BY DEF Sound
<1>2. PICK f, g, d : f = Fate(x) /\ g = Fate(y) /\ d = y.day
  OBVIOUS
<1>3. /\ \A b \in Bills :
           /\ f[b] \in {"AWAY", "OPEN", "DONE", "LATE"}
           /\ f[b] = "AWAY" <=> x.bill[b] = "ABSENT"
           /\ f[b] = "OPEN" <=> IsOpen(x, b)
           /\ f[b] = "DONE" <=> x.bill[b] = "PAID"
           /\ f[b] = "LATE" <=> x.bill[b] = "MISSED"
      /\ \A e \in Events :
           /\ f[e] \in {"AWAY", "OPEN", "DONE", "LATE"}
           /\ f[e] = "AWAY" <=> x.event[e] = "SCHEDULED"
           /\ f[e] = "OPEN" <=> x.event[e] = "REVEALED"
           /\ f[e] = "DONE" <=> x.event[e] = "RESOLVED"
           /\ f[e] = "LATE" <=> x.event[e] = "EXPIRED"
  BY ONLY <1>1, <1>2, FateIs
<1>4. /\ \A b \in Bills :
           /\ g[b] \in {"AWAY", "OPEN", "DONE", "LATE"}
           /\ g[b] = "AWAY" <=> y.bill[b] = "ABSENT"
           /\ g[b] = "OPEN" <=> IsOpen(y, b)
           /\ g[b] = "DONE" <=> y.bill[b] = "PAID"
           /\ g[b] = "LATE" <=> y.bill[b] = "MISSED"
      /\ \A e \in Events :
           /\ g[e] \in {"AWAY", "OPEN", "DONE", "LATE"}
           /\ g[e] = "AWAY" <=> y.event[e] = "SCHEDULED"
           /\ g[e] = "OPEN" <=> y.event[e] = "REVEALED"
           /\ g[e] = "DONE" <=> y.event[e] = "RESOLVED"
           /\ g[e] = "LATE" <=> y.event[e] = "EXPIRED"
  BY ONLY <1>1, <1>2, FateIs
<1>5. ASSUME NEW b \in Bills
      PROVE  g[b] \in FatesBy(f, b, d) /\ (g[b] = "DONE" => f[b] = "DONE")
  <2>1. /\ x.bill[b] \in {"PAID", "MISSED"} => y.bill[b] = x.bill[b]
        /\ IsOpen(x, b) => IsOpen(y, b) \/ (y.bill[b] = "MISSED" /\ Due[b] < d)
        /\ x.bill[b] = "ABSENT" => y.bill[b] = "ABSENT" \/ IsOpen(y, b)
    BY <1>2 DEF Passes
  <2>2. d \in Int /\ Due[b] \in Int /\ (IsOpen(y, b) => Due[b] >= d /\ ~(Due[b] < d))
    <3>1. d \in Int /\ Due[b] \in Int
      BY <1>1, <1>2, SessionIs, SimulationConstants
    <3>2. IsOpen(y, b) => d <= Due[b]
      BY <1>1, <1>2 DEF Timely
    <3> QED BY <3>1, <3>2
  <2>3. /\ f[b] = "AWAY" => "AWAY" \in FatesBy(f, b, d)
        /\ f[b] = "AWAY" /\ Due[b] >= d => "OPEN" \in FatesBy(f, b, d)
        /\ f[b] = "OPEN" /\ Due[b] < d => "LATE" \in FatesBy(f, b, d)
        /\ f[b] = "OPEN" /\ ~(Due[b] < d) => "OPEN" \in FatesBy(f, b, d)
        /\ f[b] \in {"DONE", "LATE"} => f[b] \in FatesBy(f, b, d)
    BY FatesAre
  <2>4. /\ g[b] \in {"AWAY", "OPEN", "DONE", "LATE"} /\ f[b] \in {"AWAY", "OPEN", "DONE", "LATE"}
    BY <1>3, <1>4
  <2>5. /\ f[b] = "AWAY" => g[b] \in {"AWAY", "OPEN"}
        /\ f[b] = "OPEN" => g[b] = "OPEN" \/ (g[b] = "LATE" /\ Due[b] < d)
        /\ f[b] \in {"DONE", "LATE"} => g[b] = f[b]
        /\ g[b] = "OPEN" => IsOpen(y, b)
    BY <1>3, <1>4, <2>1
  <2> QED BY ONLY <2>2, <2>3, <2>4, <2>5
<1>6. ASSUME NEW e \in Events
      PROVE  g[e] \in FatesBy(f, e, d) /\ (g[e] = "DONE" => f[e] = "DONE")
  <2>1. /\ x.event[e] \in {"RESOLVED", "EXPIRED"} => y.event[e] = x.event[e]
        /\ x.event[e] = "SCHEDULED" => y.event[e] \in {"SCHEDULED", "REVEALED"}
        /\ x.event[e] = "REVEALED" => \/ y.event[e] = "REVEALED"
                                      \/ y.event[e] = "EXPIRED" /\ TriggerDay[e] = d
    BY <1>2 DEF Passes
  <2>2. /\ y.event[e] = "SCHEDULED" => TriggerDay[e] >= d
        /\ y.event[e] = "REVEALED" => TriggerDay[e] = d
    <3>1. d \in Int /\ TriggerDay[e] \in Int
      BY <1>1, <1>2, SessionIs, SimulationConstants
    <3>2. /\ y.event[e] = "SCHEDULED" => d <= TriggerDay[e]
          /\ y.event[e] = "REVEALED" => d = TriggerDay[e]
      BY <1>1, <1>2 DEF Calendar
    <3> QED BY <3>1, <3>2
  <2>3. /\ f[e] = "AWAY" /\ TriggerDay[e] >= d => "AWAY" \in FatesBy(f, e, d)
        /\ f[e] = "AWAY" /\ TriggerDay[e] = d => "OPEN" \in FatesBy(f, e, d)
        /\ f[e] = "OPEN" /\ TriggerDay[e] = d =>
             \A h \in {"OPEN", "DONE", "LATE"} : h \in FatesBy(f, e, d)
        /\ f[e] \in {"DONE", "LATE"} => f[e] \in FatesBy(f, e, d)
    BY FatesAre
  <2>4. /\ g[e] \in {"AWAY", "OPEN", "DONE", "LATE"} /\ f[e] \in {"AWAY", "OPEN", "DONE", "LATE"}
    BY <1>3, <1>4
  <2>5. /\ f[e] = "AWAY" => \/ g[e] = "AWAY" /\ TriggerDay[e] >= d
                            \/ g[e] = "OPEN" /\ TriggerDay[e] = d
        /\ f[e] = "OPEN" => g[e] \in {"OPEN", "LATE"} /\ TriggerDay[e] = d
        /\ f[e] \in {"DONE", "LATE"} => g[e] = f[e]
    BY <1>3, <1>4, <2>1, <2>2
  <2> QED BY ONLY <2>3, <2>4, <2>5
<1>7. /\ Phase(x) = "OPEN" /\ Phase(y) = "OPEN" /\ x.day <= d /\ y.xp = x.xp
  BY <1>1, <1>2, PrizeIs DEF Phase, Passes
<1>8. {k \in Bills \cup Events : f[k] # "DONE" /\ g[k] = "DONE"} = {}
  BY <1>5, <1>6
<1>9. \A i \in Bills \cup Events : g[i] \in FatesBy(f, i, d)
  BY <1>5, <1>6
<1> QED BY <1>2, <1>7, <1>8, <1>9 DEF Lives

\* The month closes.
LEMMA ClosesEnds ==
  ASSUME NEW x, NEW y, Sound(x), Sound(y), Closes(x, y)
  PROVE  Ends(x, y)
<1>1. /\ x \in Sessions /\ y \in Sessions /\ Prized(y)
      /\ x.status = "ACTIVE" /\ y.status = "COMPLETED" /\ y.day = Days
      /\ \A b \in Bills : y.bill[b] = IF IsOpen(x, b) THEN "MISSED" ELSE x.bill[b]
      /\ \A e \in Events : x.event[e] \in {"RESOLVED", "EXPIRED"} /\ y.event[e] = x.event[e]
  BY DEF Sound, Closes
<1>2. Phase(x) = "OPEN" /\ Phase(y) = "COMPLETED" /\ y.xp = 1
  BY <1>1, PrizeIs DEF Phase
<1>3. \A e \in Events : EventFate(x, e) \in {"DONE", "LATE"} /\ EventFate(y, e) = EventFate(x, e)
  BY <1>1 DEF EventFate
<1>4. \A b \in Bills : BillFate(y, b) = IF BillFate(x, b) = "OPEN" THEN "LATE" ELSE BillFate(x, b)
  <2> TAKE b \in Bills
  <2>1. x.bill[b] \in {"ABSENT", "SCHEDULED", "PAYABLE", "PAID", "MISSED"}
    BY <1>1, SessionIs
  <2>2. y.bill[b] = IF IsOpen(x, b) THEN "MISSED" ELSE x.bill[b]
    BY <1>1
  <2> QED BY <2>1, <2>2 DEF BillFate, IsOpen
<1>5. \A e \in Events : e \notin Bills
  BY RowsOfTheirOwn
<1>6. \A i \in Bills \cup Events :
        Fate(x)[i] = IF i \in Bills THEN BillFate(x, i) ELSE EventFate(x, i)
  BY DEF Fate
<1>7. \A i \in Bills \cup Events :
        (IF i \in Bills THEN BillFate(y, i) ELSE EventFate(y, i))
        = IF Fate(x)[i] = "OPEN" THEN "LATE" ELSE Fate(x)[i]
  BY <1>3, <1>4, <1>5, <1>6
<1>8. Fate(y) = [i \in Bills \cup Events |-> IF Fate(x)[i] = "OPEN" THEN "LATE" ELSE Fate(x)[i]]
  BY <1>7 DEF Fate
<1>9. \A e \in Events : Fate(x)[e] \in {"DONE", "LATE"}
  BY <1>3, <1>5, <1>6
<1> QED BY <1>1, <1>2, <1>8, <1>9 DEF Ends
\* A session goes on as it is.
LEMMA PassesSame ==
  ASSUME NEW x, Sound(x)
  PROVE  Passes(x, x)
<1>1. x \in Sessions
  BY DEF Sound
<1>2. SameMoney(x, x) /\ SameScore(x, x) /\ SamePrize(x, x)
  BY DEF SameMoney, SameScore, SamePrize
<1> QED BY <1>1, <1>2, SoundStays

\* Days pass, and the player pays a bill.
LEMMA PaysLives ==
  ASSUME NEW x, NEW z, NEW y, Sound(x), Sound(z), Sound(y),
         x.status = "ACTIVE", z.status = "ACTIVE", y.status = "ACTIVE", Passes(x, z),
         NEW b \in Bills, x.bill[b] # "ABSENT", IsOpen(z, b),
         y.day = z.day, y.event = z.event,
         y.bill[b] = "PAID", \A c \in Bills \ {b} : y.bill[c] = z.bill[c]
  PROVE  Lives(x, y)
<1>1. /\ x \in Sessions /\ Prized(x) /\ y \in Sessions /\ Prized(y) /\ z \in Sessions /\ Timely(z)
  BY DEF Sound
<1>2. PICK f, g, h, d : f = Fate(x) /\ g = Fate(y) /\ h = Fate(z) /\ d = y.day
  OBVIOUS
<1>3. \A c \in Bills : /\ f[c] \in {"AWAY", "OPEN", "DONE", "LATE"}
                       /\ f[c] = "AWAY" <=> x.bill[c] = "ABSENT"
                       /\ f[c] = "OPEN" <=> IsOpen(x, c)
                       /\ f[c] = "DONE" <=> x.bill[c] = "PAID"
                       /\ f[c] = "LATE" <=> x.bill[c] = "MISSED"
  BY ONLY <1>1, <1>2, FateIs
<1>4. /\ \A c \in Bills : g[c] = "DONE" <=> y.bill[c] = "PAID"
      /\ \A e \in Events : g[e] = "DONE" <=> y.event[e] = "RESOLVED"
      /\ \A e \in Events : f[e] = "DONE" <=> x.event[e] = "RESOLVED"
  BY ONLY <1>1, <1>2, FateIs
<1>5. \A i \in (Bills \cup Events) \ {b} : g[i] = h[i]
  <2>1. \A c \in Bills \ {b} : BillFate(y, c) = BillFate(z, c)
    BY DEF BillFate, IsOpen
  <2>2. \A e \in Events : EventFate(y, e) = EventFate(z, e)
    BY DEF EventFate
  <2> QED BY <1>2, <2>1, <2>2 DEF Fate
<1>6. /\ Lives(x, z)
      /\ \A i \in Bills \cup Events : h[i] \in FatesBy(f, i, d)
  <2>1. Lives(x, z)
    BY PassesLives
  <2> QED BY <1>2, <2>1 DEF Lives
<1>7. f[b] = "OPEN" /\ g[b] = "DONE"
  <2>1. x.bill[b] \notin {"PAID", "MISSED"}
    <3>1. x.bill[b] \in {"PAID", "MISSED"} => z.bill[b] = x.bill[b]
      BY DEF Passes
    <3> QED BY <3>1 DEF IsOpen
  <2>2. x.bill[b] \in {"ABSENT", "SCHEDULED", "PAYABLE", "PAID", "MISSED"}
    BY <1>1, SessionIs
  <2>3. IsOpen(x, b)
    BY <2>1, <2>2 DEF IsOpen
  <2> QED BY <1>3, <1>4, <2>3
<1>8. g[b] \in FatesBy(f, b, d)
  <2>1. d \in Int /\ Due[b] \in Int
    BY <1>1, <1>2, SessionIs, SimulationConstants
  <2>2. d <= Due[b]
    BY <1>1, <1>2 DEF Timely
  <2>3. ~(Due[b] < d)
    BY <2>1, <2>2
  <2>4. "DONE" \in FatesBy(f, b, d)
    BY <1>7, <2>3, FatesAre
  <2> QED BY <1>7, <2>4
<1>9. ASSUME NEW i \in Bills \cup Events, f[i] # "DONE", g[i] = "DONE"
      PROVE  i = b
  <2>1. CASE i \in Events
    <3>1. /\ y.event[i] = "RESOLVED" /\ x.event[i] # "RESOLVED" /\ z.event[i] = "RESOLVED"
      BY <1>4, <1>9, <2>1
    <3>2. x.event[i] \in {"SCHEDULED", "REVEALED", "RESOLVED", "EXPIRED"}
      BY <1>1, <2>1, SessionIs
    <3> QED BY <2>1, <3>1, <3>2 DEF Passes
  <2>2. CASE i \in Bills /\ i # b
    <3>1. z.bill[i] = "PAID" /\ x.bill[i] # "PAID"
      BY <1>3, <1>4, <1>9, <2>2
    <3>2. x.bill[i] \in {"ABSENT", "SCHEDULED", "PAYABLE", "PAID", "MISSED"}
      BY <1>1, <2>2, SessionIs
    <3>3. /\ x.bill[i] \in {"PAID", "MISSED"} => z.bill[i] = x.bill[i]
          /\ IsOpen(x, i) => IsOpen(z, i) \/ z.bill[i] = "MISSED"
          /\ x.bill[i] = "ABSENT" => z.bill[i] = "ABSENT" \/ IsOpen(z, i)
      BY <2>2 DEF Passes
    <3> QED BY <3>1, <3>2, <3>3 DEF IsOpen
  <2> QED BY <1>9, <2>1, <2>2
<1>10. /\ Phase(x) = "OPEN" /\ Phase(y) = "OPEN" /\ x.day <= d /\ y.xp = x.xp
  BY <1>1, <1>2, PrizeIs DEF Phase, Passes
<1>11. \A i \in Bills \cup Events : g[i] \in FatesBy(f, i, d)
  BY <1>5, <1>6, <1>8
<1>12. \A i, j \in {k \in Bills \cup Events : f[k] # "DONE" /\ g[k] = "DONE"} : i = j
  BY <1>9
<1> QED BY <1>2, <1>10, <1>11, <1>12 DEF Lives

\* The player decides an event, on its day.
LEMMA DecidesLives ==
  ASSUME NEW x, NEW y, Sound(x), Sound(y), x.status = "ACTIVE", y.status = "ACTIVE",
         NEW e \in Events, x.event[e] = "REVEALED", y.event[e] = "RESOLVED",
         \A f \in Events \ {e} : y.event[f] = x.event[f], Revealed(x) = {e},
         y.day = x.day, NEW new,
         \A b \in Bills : y.bill[b] = IF b \in new /\ Due[b] > x.day THEN "SCHEDULED" ELSE x.bill[b],
         \A b \in new : x.bill[b] = "ABSENT"
  PROVE  Lives(x, y)
<1>1. /\ x \in Sessions /\ Prized(x) /\ y \in Sessions /\ Prized(y) /\ Timely(y) /\ Calendar(x)
      /\ Timely(x) /\ Calendar(y)
  BY DEF Sound
<1>2. PICK f, g, d : f = Fate(x) /\ g = Fate(y) /\ d = y.day
  OBVIOUS
<1>3. /\ \A b \in Bills :
           /\ f[b] \in {"AWAY", "OPEN", "DONE", "LATE"}
           /\ f[b] = "AWAY" <=> x.bill[b] = "ABSENT"
           /\ f[b] = "OPEN" <=> IsOpen(x, b)
           /\ f[b] = "DONE" <=> x.bill[b] = "PAID"
           /\ f[b] = "LATE" <=> x.bill[b] = "MISSED"
      /\ \A i \in Events :
           /\ f[i] \in {"AWAY", "OPEN", "DONE", "LATE"}
           /\ f[i] = "AWAY" <=> x.event[i] = "SCHEDULED"
           /\ f[i] = "OPEN" <=> x.event[i] = "REVEALED"
           /\ f[i] = "DONE" <=> x.event[i] = "RESOLVED"
           /\ f[i] = "LATE" <=> x.event[i] = "EXPIRED"
  BY ONLY <1>1, <1>2, FateIs
<1>4. /\ \A b \in Bills :
           /\ g[b] \in {"AWAY", "OPEN", "DONE", "LATE"}
           /\ g[b] = "AWAY" <=> y.bill[b] = "ABSENT"
           /\ g[b] = "OPEN" <=> IsOpen(y, b)
           /\ g[b] = "DONE" <=> y.bill[b] = "PAID"
           /\ g[b] = "LATE" <=> y.bill[b] = "MISSED"
      /\ \A i \in Events :
           /\ g[i] \in {"AWAY", "OPEN", "DONE", "LATE"}
           /\ g[i] = "AWAY" <=> y.event[i] = "SCHEDULED"
           /\ g[i] = "OPEN" <=> y.event[i] = "REVEALED"
           /\ g[i] = "DONE" <=> y.event[i] = "RESOLVED"
           /\ g[i] = "LATE" <=> y.event[i] = "EXPIRED"
  BY ONLY <1>1, <1>2, FateIs
<1>5. ASSUME NEW b \in Bills
      PROVE  g[b] \in FatesBy(f, b, d) /\ (g[b] = "DONE" => f[b] = "DONE")
  <2>1. d \in Int /\ Due[b] \in Int
    BY <1>1, <1>2, SessionIs, SimulationConstants
  <2>2. IsOpen(y, b) => Due[b] >= d /\ ~(Due[b] < d)
    BY <1>1, <1>2, <2>1 DEF Timely
  <2>3. /\ IsOpen(x, b) => IsOpen(y, b)
        /\ x.bill[b] = "ABSENT" => y.bill[b] = "ABSENT" \/ IsOpen(y, b)
        /\ x.bill[b] \in {"PAID", "MISSED"} => y.bill[b] = x.bill[b]
    BY DEF IsOpen
  <2>4. /\ f[b] = "AWAY" => g[b] \in {"AWAY", "OPEN"}
        /\ f[b] = "OPEN" => g[b] = "OPEN"
        /\ f[b] \in {"DONE", "LATE"} => g[b] = f[b]
        /\ g[b] = "OPEN" => IsOpen(y, b)
        /\ f[b] \in {"AWAY", "OPEN", "DONE", "LATE"}
    BY <1>3, <1>4, <2>3
  <2>5. /\ f[b] = "AWAY" => "AWAY" \in FatesBy(f, b, d)
        /\ f[b] = "AWAY" /\ Due[b] >= d => "OPEN" \in FatesBy(f, b, d)
        /\ f[b] = "OPEN" /\ ~(Due[b] < d) => "OPEN" \in FatesBy(f, b, d)
        /\ f[b] \in {"DONE", "LATE"} => f[b] \in FatesBy(f, b, d)
    BY FatesAre
  <2> QED BY ONLY <2>2, <2>4, <2>5
<1>6. ASSUME NEW i \in Events
      PROVE  g[i] \in FatesBy(f, i, d) /\ (f[i] # "DONE" /\ g[i] = "DONE" => i = e)
  <2>1. /\ f[i] = "AWAY" /\ TriggerDay[i] >= d => "AWAY" \in FatesBy(f, i, d)
        /\ f[i] = "OPEN" /\ TriggerDay[i] = d => "DONE" \in FatesBy(f, i, d)
        /\ f[i] \in {"DONE", "LATE"} => f[i] \in FatesBy(f, i, d)
    BY FatesAre
  <2>2. CASE i = e
    <3>1. TriggerDay[e] = d
      BY <1>1, <1>2 DEF Calendar
    <3> QED BY <1>3, <1>4, <2>1, <2>2, <3>1
  <2>3. CASE i # e
    <3>1. y.event[i] = x.event[i] /\ x.event[i] # "REVEALED"
      BY <2>3 DEF Revealed
    <3>2. f[i] = "AWAY" => TriggerDay[i] >= d
      <4>1. d \in Int /\ TriggerDay[i] \in Int
        BY <1>1, <1>2, SessionIs, SimulationConstants
      <4>2. x.event[i] = "SCHEDULED" => d <= TriggerDay[i]
        BY <1>1, <1>2 DEF Calendar
      <4> QED BY <1>3, <4>1, <4>2
    <3> QED BY <1>3, <1>4, <2>1, <3>1, <3>2
  <2> QED BY <2>2, <2>3
<1>7. /\ Phase(x) = "OPEN" /\ Phase(y) = "OPEN" /\ x.day <= d /\ y.xp = x.xp
  BY <1>1, <1>2, SessionIs, PrizeIs DEF Phase
<1>8. \A i \in Bills \cup Events : g[i] \in FatesBy(f, i, d)
  BY <1>5, <1>6
<1>9. \A i, j \in {k \in Bills \cup Events : f[k] # "DONE" /\ g[k] = "DONE"} : i = j
  BY <1>5, <1>6
<1> QED BY <1>2, <1>7, <1>8, <1>9 DEF Lives

-----------------------------------------------------------------------------
(* The requests, between two sessions                                      *)

\* A transition that leaves the month open has let days pass.
LEMMA ResolveGoesOn ==
  ASSUME NEW x, Sound(x), NEW manual, NEW y, y = Resolve(x, manual), y.status = "ACTIVE"
  PROVE  Sound(y) /\ x.status = "ACTIVE" /\ Passes(x, y)
<1>1. /\ Sound(y)
      /\ \/ y = x
         \/ Closes(x, y)
         \/ x.status = "ACTIVE" /\ y.status = "ACTIVE" /\ Passes(x, y)
  BY ResolveIs
<1>2. Passes(x, x)
  BY PassesSame
<1>3. ~Closes(x, y)
  BY DEF Closes
<1> QED BY <1>1, <1>2, <1>3

\* A transition is a step of the month.
LEMMA ResolveMoves ==
  ASSUME NEW x, Sound(x), NEW manual, NEW y, y = Resolve(x, manual)
  PROVE  Sound(y) /\ Moves(x, y)
<1>1. /\ Sound(y)
      /\ \/ y = x
         \/ Closes(x, y)
         \/ x.status = "ACTIVE" /\ y.status = "ACTIVE" /\ Passes(x, y)
  BY ResolveIs
<1>2. CASE y = x
  BY <1>1, <1>2 DEF Moves, Same
<1>3. CASE Closes(x, y)
  BY <1>1, <1>3, ClosesEnds DEF Moves
<1>4. CASE x.status = "ACTIVE" /\ y.status = "ACTIVE" /\ Passes(x, y)
  BY <1>1, <1>4, PassesLives DEF Moves
<1> QED BY <1>1, <1>2, <1>3, <1>4

\* The player splits the budget, and the month begins.
LEMMA SetupIs ==
  ASSUME NEW x, Sound(x), x.status = "BRIEFING", NEW split \in Splits, NEW y,
         y = [x EXCEPT !.status = "ACTIVE", !.current = split, !.savings = Budget - split,
                       !.nextDay = IF x.timed THEN DayLength ELSE None]
  PROVE  Sound(y) /\ Moves(x, y)
<1>1. /\ x \in Sessions /\ Calendar(x) /\ Timely(x) /\ Asked(x) /\ Prized(x) /\ Booked(x)
      /\ Funded(x) /\ Fresh(x)
  BY DEF Sound
<1>2. PICK rest, t : rest = Budget - split /\ t = IF x.timed THEN DayLength ELSE None
  OBVIOUS
<1>3. /\ split \in 0..Budget /\ rest \in 0..Budget /\ split + rest = Budget
      /\ t \in Ticks
  BY <1>2, TicksAre, SimulationConstants
<1>4. y = [x EXCEPT !.status = "ACTIVE", !.current = split, !.savings = rest, !.nextDay = t]
  BY <1>2
<1>5. y \in Sessions
  <2>1. "ACTIVE" \in Status
    BY DEF Status
  <2>2. PICK p \in Sessions : p = [x EXCEPT !.status = "ACTIVE"]
    BY <1>1, <2>1 DEF Sessions
  <2>3. PICK q \in Sessions : q = [p EXCEPT !.current = split]
    BY <1>3 DEF Sessions
  <2>4. PICK r \in Sessions : r = [q EXCEPT !.savings = rest]
    BY <1>3 DEF Sessions
  <2>5. y = [r EXCEPT !.nextDay = t]
    BY <1>4, <2>2, <2>3, <2>4
  <2> QED BY <1>3, <2>5 DEF Sessions
<1>6. /\ y.status = "ACTIVE" /\ y.hold = x.hold /\ y.day = x.day
      /\ y.current = split /\ y.savings = rest
  BY <1>1, <1>4 DEF Sessions
<1>7. y.bill = x.bill /\ y.intro = x.intro /\ y.event = x.event /\ y.taken = x.taken
  BY <1>1, <1>4 DEF Sessions
<1>8. SamePrize(x, y) /\ SameScore(x, y)
  BY <1>1, <1>4 DEF Sessions, SamePrize, SameScore
<1>9. x.current + x.savings = Budget /\ \A e \in Events : x.event[e] = "SCHEDULED"
  BY <1>1 DEF Fresh
<1>10. Funded(y)
  <2>1. Paid(y) = Paid(x)
    BY <1>7 DEF Paid
  <2>2. \A e \in Events : Took(y, e)
    <3> TAKE e \in Events
    <3>1. Took(x, e) /\ x.event[e] = "SCHEDULED"
      BY <1>1, <1>9 DEF Funded
    <3> QED BY <1>7, <3>1 DEF Took
  <2>3. y.current + y.savings = x.current + x.savings
    BY <1>3, <1>6, <1>9
  <2> QED BY <1>1, <1>7, <2>1, <2>2, <2>3 DEF Funded
<1>11. Booked(y)
  <2>1. /\ x.status = "COMPLETED" <=> y.status = "COMPLETED"
        /\ x \in Sessions /\ Booked(x) /\ SameScore(x, y)
    BY <1>1, <1>6, <1>8
  <2> QED BY ONLY <1>5, <1>7, <2>1, BookStays
<1>12. Calendar(y)
  BY <1>1, <1>6, <1>7 DEF Calendar
<1>13. Timely(y) /\ Asked(y)
  BY <1>1, <1>6, <1>7 DEF Timely, Asked, Revealed, IsOpen
<1>14. Prized(y) /\ Fresh(y)
  BY <1>1, <1>6, <1>8 DEF Prized, Fresh, SamePrize
<1>15. Fate(y) = Fate(x)
  BY <1>1, <1>5, <1>7, SameFates
<1>16. Starts(x, y)
  BY <1>6, <1>8, <1>15 DEF Starts, Phase, SamePrize
<1> QED BY <1>5, <1>10, <1>11, <1>12, <1>13, <1>14, <1>16 DEF Sound, Moves

\* Days pass, and the player pauses the month.
LEMMA PauseIs ==
  ASSUME NEW s, Sound(s), s.status = "ACTIVE", NEW x, Sound(x), x.status = "ACTIVE", Passes(s, x),
         NEW t \in Ticks \ (-MaxLag)..(-1), NEW d \in Ticks, NEW y,
         y = [x EXCEPT !.status = "PAUSED", !.nextDay = None, !.paused = t, !.decision = d]
  PROVE  Sound(y) /\ Moves(s, y)
<1>1. x \in Sessions
  BY DEF Sound
<1>2. y \in Sessions
  <2>1. "PAUSED" \in Status /\ None \in Ticks
    BY TicksAre DEF Status
  <2>2. PICK p \in Sessions : p = [x EXCEPT !.status = "PAUSED"]
    BY <1>1, <2>1 DEF Sessions
  <2>3. PICK q \in Sessions : q = [p EXCEPT !.nextDay = None]
    BY <2>1 DEF Sessions
  <2>4. PICK r \in Sessions : r = [q EXCEPT !.paused = t]
    BY DEF Sessions
  <2>5. y = [r EXCEPT !.decision = d]
    BY <2>2, <2>3, <2>4
  <2> QED BY <2>5 DEF Sessions
<1>3. y.status = "PAUSED" /\ y.hold = x.hold /\ y.day = x.day
  BY <1>1 DEF Sessions
<1>4. y.bill = x.bill /\ y.intro = x.intro /\ y.event = x.event
  BY <1>1 DEF Sessions
<1>5. SameMoney(x, y) /\ SamePrize(x, y) /\ SameScore(x, y)
  BY <1>1 DEF Sessions, SameMoney, SamePrize, SameScore
<1>6. Sound(y)
  BY <1>2, <1>3, <1>4, <1>5, SoundStays
<1>7. Passes(s, y)
  BY <1>3, <1>4 DEF Passes, IsOpen
<1>8. Lives(s, y)
  BY <1>3, <1>6, <1>7, PassesLives
<1> QED BY <1>6, <1>8 DEF Moves

\* The player gives the month up.
LEMMA DiscardIs ==
  ASSUME NEW x, Sound(x), x.status \in {"BRIEFING", "ACTIVE", "PAUSED"}, NEW y,
         y = [x EXCEPT !.status = "ABANDONED", !.nextDay = None, !.paused = None]
  PROVE  Sound(y) /\ Moves(x, y)
<1>1. x \in Sessions
  BY DEF Sound
<1>2. y \in Sessions
  <2>1. "ABANDONED" \in Status /\ None \in Ticks /\ None \in Ticks \ (-MaxLag)..(-1)
    BY TicksAre DEF Status
  <2>2. PICK p \in Sessions : p = [x EXCEPT !.status = "ABANDONED"]
    BY <1>1, <2>1 DEF Sessions
  <2>3. PICK q \in Sessions : q = [p EXCEPT !.nextDay = None]
    BY <2>1 DEF Sessions
  <2>4. y = [q EXCEPT !.paused = None]
    BY <2>2, <2>3
  <2> QED BY <2>1, <2>4 DEF Sessions
<1>3. y.status = "ABANDONED" /\ y.hold = x.hold /\ y.day = x.day
  BY <1>1 DEF Sessions
<1>4. y.bill = x.bill /\ y.intro = x.intro /\ y.event = x.event
  BY <1>1 DEF Sessions
<1>5. SameMoney(x, y) /\ SamePrize(x, y) /\ SameScore(x, y)
  BY <1>1 DEF Sessions, SameMoney, SamePrize, SameScore
<1>6. Sound(y)
  <2>1. /\ y.status = "COMPLETED" <=> x.status = "COMPLETED"
        /\ y.status = "BRIEFING" => x.status = "BRIEFING"
        /\ y.hold = "EVENT_REVEAL" <=> x.hold = "EVENT_REVEAL"
        /\ Sound(x)
    BY <1>3
  <2> QED BY ONLY <1>2, <1>3, <1>4, <1>5, <2>1, SoundStays
<1>7. Fate(y) = Fate(x)
  BY <1>1, <1>2, <1>4, SameFates
<1>8. Leaves(x, y)
  BY <1>3, <1>5, <1>7 DEF Leaves, Phase, SamePrize
<1> QED BY <1>6, <1>8 DEF Moves
\* Clocks run, or a month that was paused runs again.
LEMMA ClocksMove ==
  ASSUME NEW x, Sound(x), x.status \in {"ACTIVE", "PAUSED"}, NEW y \in Sessions,
         y.status = "ACTIVE", y.hold = x.hold, y.day = x.day, y.bill = x.bill, y.intro = x.intro,
         y.event = x.event, SameMoney(x, y), SamePrize(x, y), SameScore(x, y)
  PROVE  Sound(y) /\ Moves(x, y)
<1>1. /\ y.status = "COMPLETED" <=> x.status = "COMPLETED"
      /\ y.status = "BRIEFING" => x.status = "BRIEFING"
      /\ y.hold = "EVENT_REVEAL" <=> x.hold = "EVENT_REVEAL"
      /\ Sound(x)
  OBVIOUS
<1>2. /\ \A s \in Scheduled : y.intro[s] = "WAITING" => x.intro[s] = "WAITING"
      /\ y \in Sessions /\ y.day = x.day /\ y.bill = x.bill /\ y.event = x.event
      /\ SameMoney(x, y) /\ SamePrize(x, y) /\ SameScore(x, y)
  OBVIOUS
<1>3. Sound(y) /\ Passes(x, y)
  BY ONLY <1>1, <1>2, SoundStays
<1>4. Lives(x, y)
  BY <1>3, PassesLives
<1> QED BY <1>3, <1>4 DEF Moves

\* Time passes.
LEMMA TickIs ==
  ASSUME NEW x, Sound(x), x.status = "ACTIVE", NEW y,
         y = [x EXCEPT !.nextDay = Later(@), !.decision = Later(@)]
  PROVE  Sound(y) /\ Moves(x, y)
<1>1. x \in Sessions
  BY DEF Sound
<1>2. PICK t, d : t = Later(x.nextDay) /\ d = Later(x.decision)
  OBVIOUS
<1>3. t \in Ticks /\ d \in Ticks
  <2>1. \A k \in Ticks : Later(k) \in Ticks
    BY TicksAre DEF Later
  <2> QED BY <1>1, <1>2, <2>1, SessionIs
<1>4. y = [x EXCEPT !.nextDay = t, !.decision = d]
  BY <1>1, <1>2 DEF Sessions
<1>5. y \in Sessions
  BY <1>1, <1>3, <1>4 DEF Sessions
<1>6. /\ y.status = x.status /\ y.hold = x.hold /\ y.day = x.day
  BY <1>1, <1>4 DEF Sessions
<1>7. y.bill = x.bill /\ y.intro = x.intro /\ y.event = x.event
  BY <1>1, <1>4 DEF Sessions
<1>8. SameMoney(x, y) /\ SamePrize(x, y) /\ SameScore(x, y)
  BY <1>1, <1>4 DEF Sessions, SameMoney, SamePrize, SameScore
<1> QED BY <1>5, <1>6, <1>7, <1>8, ClocksMove

\* The player goes on with the month, to a deadline that was read before.
LEMMA ResumeIs ==
  ASSUME NEW x, Sound(x), x.status = "PAUSED", NEW t \in Ticks, NEW d \in Ticks, NEW y,
         y = [x EXCEPT !.status = "ACTIVE", !.paused = None, !.nextDay = t, !.decision = d]
  PROVE  Sound(y) /\ Moves(x, y)
<1>1. x \in Sessions
  BY DEF Sound
<1>2. y \in Sessions
  <2>1. "ACTIVE" \in Status /\ None \in Ticks \ (-MaxLag)..(-1)
    BY TicksAre DEF Status
  <2>2. PICK p \in Sessions : p = [x EXCEPT !.status = "ACTIVE"]
    BY <1>1, <2>1 DEF Sessions
  <2>3. PICK q \in Sessions : q = [p EXCEPT !.paused = None]
    BY <2>1 DEF Sessions
  <2>4. PICK r \in Sessions : r = [q EXCEPT !.nextDay = t]
    BY DEF Sessions
  <2>5. y = [r EXCEPT !.decision = d]
    BY <2>2, <2>3, <2>4
  <2> QED BY <2>5 DEF Sessions
<1>3. y.status = "ACTIVE" /\ y.hold = x.hold /\ y.day = x.day
  BY <1>1 DEF Sessions
<1>4. y.bill = x.bill /\ y.intro = x.intro /\ y.event = x.event
  BY <1>1 DEF Sessions
<1>5. SameMoney(x, y) /\ SamePrize(x, y) /\ SameScore(x, y)
  BY <1>1 DEF Sessions, SameMoney, SamePrize, SameScore
<1> QED BY <1>2, <1>3, <1>4, <1>5, ClocksMove

\* The player has seen a result or a new bill, which may let an event happen.
Continued(x, s) == [Acknowledge(x, s) EXCEPT !.hold = "NONE",
                  !.nextDay = IF x.timed THEN DayLength ELSE None]

\* Going on from a result or a new bill is a step of the month.
LEMMA ContinueIs ==
  ASSUME NEW x, Sound(x), x.status = "ACTIVE", x.hold \in Continuable, NEW s,
         NEW z, z = Continued(x, s), NEW y,
         y = z \/ (DueEvents(z) # {} /\ y = Reveal(z, FirstEvent(z)))
  PROVE  Sound(y) /\ Moves(x, y)
<1>1. x \in Sessions /\ Asked(x)
  BY DEF Sound
<1>2. PICK i, t : /\ i = [k \in Scheduled |-> IF k = s THEN "SEEN" ELSE x.intro[k]]
                  /\ t = IF x.timed THEN DayLength ELSE None
  OBVIOUS
<1>3. i \in [Scheduled -> {"WAITING", "SHOWN", "SEEN"}] /\ t \in Ticks
      /\ \A k \in Scheduled : i[k] = "WAITING" => x.intro[k] = "WAITING"
  BY <1>1, <1>2, TicksAre, SessionIs
<1>4. z = [x EXCEPT !.intro = i, !.hold = "NONE", !.nextDay = t]
  BY <1>1, <1>2 DEF Continued, Acknowledge, Sessions
<1>5. z \in Sessions
  <2>1. "NONE" \in Hold
    BY DEF Hold
  <2>2. PICK p \in Sessions : p = [x EXCEPT !.intro = i]
    BY <1>1, <1>3 DEF Sessions
  <2>3. PICK q \in Sessions : q = [p EXCEPT !.hold = "NONE"]
    BY <2>1 DEF Sessions
  <2>4. z = [q EXCEPT !.nextDay = t]
    BY <1>4, <2>2, <2>3
  <2> QED BY <1>3, <2>4 DEF Sessions
<1>6. z.status = "ACTIVE" /\ z.hold = "NONE" /\ z.day = x.day
  BY <1>1, <1>4 DEF Sessions
<1>7. z.bill = x.bill /\ z.intro = i /\ z.event = x.event
  BY <1>1, <1>4 DEF Sessions
<1>8. SameMoney(x, z) /\ SamePrize(x, z) /\ SameScore(x, z)
  BY <1>1, <1>4 DEF Sessions, SameMoney, SamePrize, SameScore
<1>9. x.hold # "EVENT_REVEAL"
  BY DEF Continuable, Results
<1>10. Sound(z) /\ Passes(x, z)
  <2>1. /\ z.status = "COMPLETED" <=> x.status = "COMPLETED"
        /\ z.status = "BRIEFING" => x.status = "BRIEFING"
        /\ z.hold = "EVENT_REVEAL" <=> x.hold = "EVENT_REVEAL"
        /\ \A k \in Scheduled : z.intro[k] = "WAITING" => x.intro[k] = "WAITING"
        /\ Sound(x)
    BY <1>3, <1>6, <1>7, <1>9
  <2> QED BY ONLY <1>5, <1>6, <1>7, <1>8, <2>1, SoundStays
<1>11. Revealed(z) = {}
  BY <1>1, <1>7, <1>9 DEF Asked, Revealed
<1>12. Sound(y) /\ y.status = "ACTIVE" /\ Passes(x, y)
  <2>1. CASE y = z
    BY <1>6, <1>10, <2>1
  <2>2. CASE DueEvents(z) # {} /\ y = Reveal(z, FirstEvent(z))
    <3>1. Sound(y) /\ Passes(z, y) /\ y.status = "ACTIVE"
      BY ONLY <1>6, <1>10, <1>11, <2>2, RevealSound
    <3>2. Passes(x, y)
      BY <1>6, <1>7, <3>1 DEF Passes, IsOpen
    <3> QED BY <3>1, <3>2
  <2> QED BY <2>1, <2>2
<1>13. Lives(x, y)
  BY <1>12, PassesLives
<1> QED BY <1>12, <1>13 DEF Moves
\* The player pays a bill.
LEMMA PayMoves ==
  ASSUME NEW s, Sound(s), NEW x, x = Resolve(s, FALSE), x.status = "ACTIVE", x.hold = "NONE",
         NEW b \in Bills, s.bill[b] # "ABSENT", IsOpen(x, b),
         x.current + x.savings >= Amount[b], NEW y,
         y = Record([Debit(x, Amount[b]) EXCEPT !.bill[b] = "PAID",
                       !.nextDay = None, !.hold = "PAYMENT_RESULT"],
                    {Row("PAYMENT", b, IF x.current >= Amount[b]
                                       THEN Award[b] ELSE SavedAward[b])})
  PROVE  Sound(y) /\ Moves(s, y)
<1>1. Sound(x) /\ s.status = "ACTIVE" /\ Passes(s, x)
  BY ResolveGoesOn
<1>2. PICK n : n = IF x.current >= Amount[b] THEN Award[b] ELSE SavedAward[b]
  OBVIOUS
<1>3. PICK row \in Entry : row = Row("PAYMENT", b, n) /\ row.source = "PAYMENT" /\ row.of = b
  <2>1. PICK row : row = [source |-> "PAYMENT", of |-> b, points |-> n]
    OBVIOUS
  <2>2. "PAYMENT" \in Sources /\ b \in Subjects /\ n \in Int
    <3>1. Award[b] \in Int /\ SavedAward[b] \in Int
      BY SimulationConstants
    <3>2. n = Award[b] \/ n = SavedAward[b]
      BY <1>2
    <3> QED BY <3>1, <3>2 DEF Sources, Subjects
  <2>3. row \in Entry /\ row.source = "PAYMENT" /\ row.of = b
    BY <2>1, <2>2 DEF Entry
  <2> QED BY <2>1, <2>3 DEF Row
<1>4. y = Payment(x, b, row)
  BY <1>2, <1>3 DEF Payment, PaidOut
<1>5. /\ Sound(y) /\ y.status = "ACTIVE" /\ y.day = x.day /\ y.event = x.event
      /\ y.bill[b] = "PAID" /\ \A c \in Bills \ {b} : y.bill[c] = x.bill[c]
  <2>1. /\ x.status = "ACTIVE" /\ x.hold = "NONE" /\ b \in Bills /\ IsOpen(x, b)
        /\ x.current + x.savings >= Amount[b]
        /\ row \in Entry /\ row.of = b /\ row.source = "PAYMENT"
    BY <1>3
  <2> QED BY ONLY <1>1, <1>4, <2>1, PayIs
<1>6. Lives(s, y)
  <2>1. /\ Sound(s) /\ x.status = "ACTIVE" /\ b \in Bills /\ s.bill[b] # "ABSENT" /\ IsOpen(x, b)
    OBVIOUS
  <2> QED BY ONLY <1>1, <1>5, <2>1, PaysLives
<1> QED BY <1>5, <1>6 DEF Moves

\* The player decides an event.
LEMMA DecideMoves ==
  ASSUME NEW s, Sound(s), NEW x, x = Resolve(s, FALSE), NEW e \in Revealed(s),
         NEW o \in Options[e], x.status = "ACTIVE", x.event[e] = "REVEALED",
         x.current + x.savings >= o.cost, NEW y,
         y = Introduce(
               Record([Debit(x, o.cost) EXCEPT !.event[e] = "RESOLVED",
                         !.decision = None, !.taken[e] = Covered(x, o.cost),
                         !.nextDay = None, !.hold = "EVENT_RESULT"],
                      {Row("DECISION", e, o.points)}),
               o.bills, TriggerDay[e])
  PROVE  Sound(y) /\ Moves(s, y)
<1>1. x = s /\ e \in Events
  <2>1. \A f \in Revealed(s) : x.event[f] = "REVEALED" => x = s
    BY ResolveIs
  <2> QED BY <2>1 DEF Revealed
<1>2. x \in Sessions /\ Calendar(x)
  BY <1>1 DEF Sound
<1>3. x.day = TriggerDay[e]
  BY <1>1, <1>2 DEF Calendar
<1>4. o \in Outcomes /\ o.cost \in Nat /\ o.points \in Int
  <2>1. o \in Outcomes
    BY <1>1, SimulationConstants
  <2> QED BY <2>1 DEF Outcomes
<1>5. PICK row \in Entry : row = Row("DECISION", e, o.points) /\ row.source = "DECISION" /\ row.of = e
  <2>1. PICK row : row = [source |-> "DECISION", of |-> e, points |-> o.points]
    OBVIOUS
  <2>2. "DECISION" \in Sources /\ e \in Subjects
    BY <1>1 DEF Sources, Subjects
  <2>3. row \in Entry /\ row.source = "DECISION" /\ row.of = e
    BY <1>4, <2>1, <2>2 DEF Entry
  <2> QED BY <2>1, <2>3 DEF Row
<1>6. Covered(x, o.cost) = o.cost
  <2>1. PICK cost, d : cost = o.cost /\ d = Debit(x, cost)
    OBVIOUS
  <2>2. cost \in Nat
    BY <1>4, <2>1
  <2>3. x.current + x.savings >= cost => Covered(x, cost) = cost
    BY ONLY <1>2, <2>1, <2>2, DebitIs
  <2> QED BY <2>1, <2>3
<1>7. PICK fate : fate = "RESOLVED"
  OBVIOUS
<1>8. y = Settlement(x, e, o, fate, row)
  BY <1>3, <1>5, <1>7 DEF Settlement, Decided
<1>9. /\ Sound(y) /\ Revealed(y) = {} /\ Revealed(x) = {e}
      /\ y.status = "ACTIVE" /\ y.day = x.day /\ y.hold = "EVENT_RESULT"
      /\ y.event[e] = fate /\ \A f \in Events \ {e} : y.event[f] = x.event[f]
      /\ \A b \in Bills : y.bill[b] = IF b \in o.bills /\ Due[b] > x.day
                                      THEN "SCHEDULED" ELSE x.bill[b]
      /\ \A b \in o.bills : x.bill[b] = "ABSENT"
  <2>1. /\ Sound(x) /\ x.status = "ACTIVE" /\ e \in Events /\ x.event[e] = "REVEALED"
        /\ o \in Options[e] \cup {Expiry[e]} /\ row \in Entry /\ row.of = e
    BY <1>1, <1>5
  <2>2. /\ fate = "RESOLVED" /\ row.source = "DECISION" /\ o \in Options[e]
        /\ Covered(x, o.cost) = o.cost
    BY <1>5, <1>6, <1>7
  <2> QED BY ONLY <1>8, <2>1, <2>2, SettleIs
<1>10. Lives(x, y)
  <2>1. PICK new : new = o.bills
    OBVIOUS
  <2>2. /\ \A b \in Bills : y.bill[b] = IF b \in new /\ Due[b] > x.day
                                       THEN "SCHEDULED" ELSE x.bill[b]
        /\ \A b \in new : x.bill[b] = "ABSENT"
    BY ONLY <1>9, <2>1
  <2>3. /\ Sound(x) /\ x.status = "ACTIVE" /\ e \in Events /\ x.event[e] = "REVEALED"
        /\ y.event[e] = "RESOLVED"
    BY <1>1, <1>7, <1>9
  <2> QED BY ONLY <1>9, <2>2, <2>3, DecidesLives
<1> QED BY <1>1, <1>9, <1>10 DEF Moves

-----------------------------------------------------------------------------
(* The invariant                                                           *)

Asking == [op: {"none", "advance", "continue", "resume"}, hold: Hold, paused: Ticks,
           of: Scheduled \cup Events \cup {None}]
\* A sound session, and requests that have read one.
SessionSafe == Sound(session) /\ requests \in [Requests -> Asking]

\* The briefing is sound.
LEMMA BriefingIs ==
  ASSUME NEW x, NEW timed \in Modes,
         x = [status |-> "BRIEFING", hold |-> "NONE", timed |-> timed,
              day |-> 0, nextDay |-> None, decision |-> None, paused |-> None,
              bill |-> [b \in Bills |-> IF b \in Initial THEN "SCHEDULED" ELSE "ABSENT"],
              intro |-> [s \in Scheduled |-> "WAITING"],
              event |-> [e \in Events |-> "SCHEDULED"],
              taken |-> [e \in Events |-> 0],
              current |-> Budget, savings |-> 0,
              score |-> 0, ledger |-> EmptyBag, rewarded |-> FALSE, xp |-> 0]
  PROVE  Sound(x)
<1>1. /\ x.status = "BRIEFING" /\ x.hold = "NONE" /\ x.timed = timed /\ x.day = 0
      /\ x.nextDay = None /\ x.decision = None /\ x.paused = None
      /\ x.current = Budget /\ x.savings = 0 /\ x.score = 0 /\ x.ledger = EmptyBag
      /\ x.rewarded = FALSE /\ x.xp = 0
  OBVIOUS
<1>2. /\ x.bill = [b \in Bills |-> IF b \in Initial THEN "SCHEDULED" ELSE "ABSENT"]
      /\ x.intro = [s \in Scheduled |-> "WAITING"]
      /\ x.event = [e \in Events |-> "SCHEDULED"]
      /\ x.taken = [e \in Events |-> 0]
  OBVIOUS
<1>3. /\ Budget \in Nat /\ Days \in Nat /\ Initial \subseteq Bills /\ Scheduled \subseteq Bills
      /\ Initial \cap Scheduled = {}
  BY SimulationConstants
<1>4. EmptyBag \in Ledgers /\ DOMAIN EmptyBag = {}
  <2>1. EmptyBag \in [{} -> Nat \ {0}] /\ {} \in SUBSET Entry
    BY DEF EmptyBag, SetToBag
  <2>2. EmptyBag \in Ledgers
    BY <2>1 DEF Ledgers
  <2> QED BY <2>1, <2>2
<1>5. x \in Sessions
  <2>1. "BRIEFING" \in Status /\ "NONE" \in Hold
    BY DEF Status, Hold
  <2>2. None \in Ticks /\ None \in Ticks \ (-MaxLag)..(-1)
    BY TicksAre
  <2>3. /\ 0 \in 0..Days /\ Budget \in 0..Budget /\ 0 \in 0..Budget /\ 0 \in Int /\ 0 \in Nat
        /\ FALSE \in BOOLEAN
    BY <1>3
  <2>4. /\ x.bill \in [Bills -> {"ABSENT", "SCHEDULED", "PAYABLE", "PAID", "MISSED"}]
        /\ x.intro \in [Scheduled -> {"WAITING", "SHOWN", "SEEN"}]
        /\ x.event \in [Events -> {"SCHEDULED", "REVEALED", "RESOLVED", "EXPIRED"}]
        /\ x.taken \in [Events -> 0..Budget]
    BY <1>2, <2>3
  <2>5. x = [status |-> x.status, hold |-> x.hold, timed |-> x.timed,
             day |-> x.day, nextDay |-> x.nextDay, decision |-> x.decision, paused |-> x.paused,
             bill |-> x.bill, intro |-> x.intro, event |-> x.event, taken |-> x.taken,
             current |-> x.current, savings |-> x.savings,
             score |-> x.score, ledger |-> x.ledger, rewarded |-> x.rewarded, xp |-> x.xp]
    OBVIOUS
  <2>6. /\ x.status \in Status /\ x.hold \in Hold /\ x.timed \in Modes /\ x.day \in 0..Days
        /\ x.nextDay \in Ticks /\ x.decision \in Ticks /\ x.paused \in Ticks \ (-MaxLag)..(-1)
        /\ x.current \in 0..Budget /\ x.savings \in 0..Budget
        /\ x.score \in Int /\ x.ledger \in Ledgers /\ x.rewarded \in BOOLEAN /\ x.xp \in Nat
    BY <1>1, <1>4, <2>1, <2>2, <2>3
  <2> QED BY ONLY <2>4, <2>5, <2>6 DEF Sessions
<1>6. Calendar(x)
  <2>1. ASSUME NEW e \in Events, NEW o \in Options[e] \cup {Expiry[e]}, NEW b \in o.bills
        PROVE  x.bill[b] = "ABSENT"
    <3>1. o \in Outcomes
      BY SimulationConstants
    <3>2. b \in Bills /\ b \notin Initial
      BY <3>1, RowsOfTheirOwn DEF Outcomes
    <3> QED BY <1>2, <3>2
  <2>2. ASSUME NEW e \in Events
        PROVE  x.event[e] = "SCHEDULED" /\ x.day <= TriggerDay[e]
    <3>1. TriggerDay[e] \in 1..Days
      BY SimulationConstants
    <3> QED BY <1>1, <1>2, <1>3, <3>1
  <2>3. ASSUME NEW s \in Scheduled
        PROVE  x.day <= ShowDay[s] /\ x.bill[s] = "ABSENT"
    <3>1. ShowDay[s] \in 1..(Due[s] - 1) /\ s \in Bills /\ s \notin Initial /\ Due[s] \in Int
      BY SimulationConstants
    <3> QED BY <1>1, <1>2, <3>1
  <2> QED BY <2>1, <2>2, <2>3 DEF Calendar
<1>7. Timely(x)
  <2>1. \A b \in Bills : Due[b] \in 1..Days
    BY SimulationConstants
  <2> QED BY <1>1, <1>3, <2>1 DEF Timely
<1>8. Asked(x)
  BY <1>1, <1>2 DEF Asked, Revealed
<1>9. Prized(x) /\ Fresh(x)
  BY <1>1, <1>2, <1>3 DEF Prized, Fresh
<1>10. Booked(x)
  <2>1. Reconciles(x)
    <3>1. BagToSet(x.ledger) = {}
      BY <1>1, <1>4 DEF BagToSet
    <3> QED BY <1>1, <3>1, SumEmpty DEF Reconciles
  <2>2. Ledgered(x)
    BY <1>1, <1>4, <2>1, FS_EmptySet DEF Ledgered
  <2>3. \A s \in Sources, o \in Subjects : ~Settled(x, s, o)
    BY <1>1, <1>2 DEF Settled
  <2> QED BY <1>1, <1>4, <2>2, <2>3 DEF Booked
<1>11. Funded(x)
  <2>1. Paid(x) = {}
    BY <1>2 DEF Paid
  <2>2. SumFunctionOnSet(Amount, Paid(x)) = 0
    BY <2>1, SumEmpty
  <2>3. SumFunctionOnSet(x.taken, Events) = 0
    <3>1. \A e \in Events : x.taken[e] = 0
      BY <1>2
    <3> QED BY <3>1, EventsFinite, SumZero
  <2>4. \A e \in Events : Took(x, e)
    BY <1>2 DEF Took
  <2>5. /\ x.current + x.savings = Budget - 0 - 0
        /\ x.current + x.savings <= Budget
    BY <1>1, <1>3
  <2> QED BY <2>2, <2>3, <2>4, <2>5 DEF Funded
<1> QED BY <1>5, <1>6, <1>7, <1>8, <1>9, <1>10, <1>11 DEF Sound

\* So a session begins.
LEMMA SessionBegin == Init => SessionSafe
<1> SUFFICES ASSUME Init PROVE SessionSafe
  OBVIOUS
<1>1. PICK timed \in Modes :
         session = [status |-> "BRIEFING", hold |-> "NONE", timed |-> timed,
              day |-> 0, nextDay |-> None, decision |-> None, paused |-> None,
              bill |-> [b \in Bills |-> IF b \in Initial THEN "SCHEDULED" ELSE "ABSENT"],
              intro |-> [s \in Scheduled |-> "WAITING"],
              event |-> [e \in Events |-> "SCHEDULED"],
              taken |-> [e \in Events |-> 0],
              current |-> Budget, savings |-> 0,
              score |-> 0, ledger |-> EmptyBag, rewarded |-> FALSE, xp |-> 0]
  BY DEF Init
<1>2. Sound(session)
  BY <1>1, BriefingIs
<1>3. Idle \in Asking
  BY TicksAre DEF Idle, Asking, Hold
<1> QED BY <1>2, <1>3 DEF SessionSafe, Init
\* Every request leaves a sound session and is a step of the month.
LEMMA RequestIs ==
  ASSUME SessionSafe, Next, NEW x, x = session, NEW y, y = session'
  PROVE  Sound(y) /\ Moves(x, y)
<1>1. Sound(x) /\ x \in Sessions
  BY DEF SessionSafe, Sound
<1>2. CASE \E split \in Splits : Setup(split)
  <2>1. PICK split \in Splits : Setup(split)
    BY <1>2
  <2>2. /\ x.status = "BRIEFING"
        /\ y = [x EXCEPT !.status = "ACTIVE", !.current = split, !.savings = Budget - split,
                         !.nextDay = IF x.timed THEN DayLength ELSE None]
    BY <2>1 DEF Setup
  <2> QED BY ONLY <1>1, <2>2, split \in Splits, SetupIs
<1>3. CASE Poll
  <2>1. y = Resolve(x, FALSE)
    BY <1>3 DEF Poll, Commit
  <2> QED BY ONLY <1>1, <2>1, ResolveMoves
<1>4. CASE \E b \in {c \in Bills : session.bill[c] # "ABSENT"} : Pay(b)
  <2>1. PICK b \in Bills : session.bill[b] # "ABSENT" /\ Pay(b)
    BY <1>4
  <2>2. PICK z : z = Resolve(x, FALSE)
    OBVIOUS
  <2>3. /\ z.status = "ACTIVE" /\ z.hold = "NONE" /\ IsOpen(z, b)
        /\ z.current + z.savings >= Amount[b]
        /\ y = Record([Debit(z, Amount[b]) EXCEPT !.bill[b] = "PAID",
                         !.nextDay = None, !.hold = "PAYMENT_RESULT"],
                      {Row("PAYMENT", b, IF z.current >= Amount[b]
                                         THEN Award[b] ELSE SavedAward[b])})
    BY <2>1, <2>2 DEF Pay, Commit
  <2>4. x.bill[b] # "ABSENT" /\ b \in Bills
    BY <2>1
  <2> QED BY ONLY <1>1, <2>2, <2>3, <2>4, PayMoves
<1>5. CASE \E e \in Revealed(session) : \E o \in Options[e] : ResolveEvent(e, o)
  <2>0. PICK e \in Revealed(x) : \E o \in Options[e] : ResolveEvent(e, o)
    BY <1>5
  <2>1. PICK o \in Options[e] : ResolveEvent(e, o)
    BY <2>0
  <2>2. PICK z : z = Resolve(x, FALSE)
    OBVIOUS
  <2>3. /\ z.status = "ACTIVE" /\ z.event[e] = "REVEALED"
        /\ z.current + z.savings >= o.cost
        /\ y = Introduce(
                 Record([Debit(z, o.cost) EXCEPT !.event[e] = "RESOLVED",
                           !.decision = None, !.taken[e] = Covered(z, o.cost),
                           !.nextDay = None, !.hold = "EVENT_RESULT"],
                        {Row("DECISION", e, o.points)}),
                 o.bills, TriggerDay[e])
    BY <2>1, <2>2 DEF ResolveEvent, Commit
  <2>4. e \in Revealed(x) /\ o \in Options[e]
    BY <2>1
  <2> QED BY ONLY <1>1, <2>2, <2>3, <2>4, DecideMoves
<1>6. CASE Pause
  <2>1. PICK z : z = Resolve(x, FALSE)
    OBVIOUS
  <2>2. PICK end, t, d : /\ end = IF z.hold = "EVENT_REVEAL" THEN z.decision ELSE z.nextDay
                         /\ t = IF end = None THEN None ELSE Max({0, end})
                         /\ d = IF z.hold = "EVENT_REVEAL" THEN None ELSE z.decision
    OBVIOUS
  <2>3. /\ z.status = "ACTIVE"
        /\ y = [z EXCEPT !.status = "PAUSED", !.nextDay = None,
                  !.paused = IF end = None THEN None ELSE Max({0, end}),
                  !.decision = IF z.hold = "EVENT_REVEAL" THEN None ELSE @]
    BY <1>6, <2>1, <2>2 DEF Pause, Commit
  <2>4. Sound(z) /\ x.status = "ACTIVE" /\ Passes(x, z)
    BY ONLY <1>1, <2>1, <2>3, ResolveGoesOn
  <2>5. z \in Sessions
    BY <2>4 DEF Sound
  <2>6. end \in Ticks /\ t \in Ticks \ (-MaxLag)..(-1) /\ d \in Ticks
    <3>1. end \in Ticks /\ d \in Ticks
      BY <2>2, <2>5, SessionIs, TicksAre
    <3>2. None \in Ticks \ (-MaxLag)..(-1)
      BY TicksAre
    <3> QED BY <2>2, <3>1, <3>2, TicksAre
  <2>7. y = [z EXCEPT !.status = "PAUSED", !.nextDay = None, !.paused = t, !.decision = d]
    BY <2>2, <2>3, <2>5 DEF Sessions
  <2>8. z.status = "ACTIVE" /\ Sound(x)
    BY <1>1, <2>3
  <2> QED BY ONLY <2>4, <2>6, <2>7, <2>8, PauseIs
<1>7. CASE Discard
  <2>1. /\ x.status \in {"BRIEFING", "ACTIVE", "PAUSED"}
        /\ y = [x EXCEPT !.status = "ABANDONED", !.nextDay = None, !.paused = None]
    BY <1>7 DEF Discard
  <2> QED BY ONLY <1>1, <2>1, DiscardIs
<1>8. CASE \E r \in Requests : AdvanceRead(r) \/ ContinueRead(r) \/ ResumeRead(r) \/ Drop(r)
  <2>1. y = x
    BY <1>8 DEF AdvanceRead, ContinueRead, ResumeRead, Drop, Begin
  <2> QED BY <1>1, <2>1 DEF Moves, Same
<1>9. CASE \E r \in Requests : AdvanceCommit(r)
  <2>1. y = Resolve(x, TRUE)
    BY <1>9 DEF AdvanceCommit, Commit
  <2> QED BY ONLY <1>1, <2>1, ResolveMoves
<1>10. CASE \E r \in Requests : ContinueCommit(r)
  <2>1. PICK r \in Requests : ContinueCommit(r)
    BY <1>10
  <2>2. PICK s, z : s = requests[r].of /\ z = Continued(x, s)
    OBVIOUS
  <2>3. /\ x.status = "ACTIVE" /\ x.hold \in Continuable
        /\ y = IF requests[r].hold = "NEW_OBLIGATION" /\ DueEvents(z) # {}
               THEN Reveal(z, FirstEvent(z)) ELSE z
    BY <2>1, <2>2 DEF ContinueCommit, Continued
  <2>4. y = z \/ (DueEvents(z) # {} /\ y = Reveal(z, FirstEvent(z)))
    BY <2>3
  <2> QED BY ONLY <1>1, <2>2, <2>3, <2>4, ContinueIs
<1>11. CASE \E r \in Requests : ResumeCommit(r)
  <2>1. PICK r \in Requests : ResumeCommit(r)
    BY <1>11
  <2>2. PICK left, t, d :
          /\ left = Restored(requests[r])
          /\ t = IF requests[r].hold = "NONE" THEN left ELSE None
          /\ d = IF requests[r].hold = "EVENT_REVEAL" /\ left # None
                    /\ requests[r].of \in Revealed(x)
                 THEN left ELSE x.decision
    OBVIOUS
  <2>3. requests[r].paused \in Ticks
    BY DEF SessionSafe, Asking
  <2>4. left \in Ticks
    BY <2>2, <2>3, TicksAre DEF Restored
  <2>5. t \in Ticks /\ d \in Ticks
    BY <1>1, <2>2, <2>4, TicksAre, SessionIs
  <2>6. /\ x.status = "PAUSED"
        /\ y = [x EXCEPT !.status = "ACTIVE", !.paused = None, !.nextDay = t, !.decision = d]
    <3>1. /\ x.status = "PAUSED"
          /\ y = [x EXCEPT !.status = "ACTIVE", !.paused = None,
                    !.nextDay = IF requests[r].hold = "NONE" THEN left ELSE None,
                    !.decision = IF requests[r].hold = "EVENT_REVEAL" /\ left # None
                                    /\ requests[r].of \in Revealed(x)
                                 THEN left ELSE @]
      BY <2>1, <2>2 DEF ResumeCommit
    <3> QED BY <1>1, <2>2, <3>1 DEF Sessions
  <2> QED BY ONLY <1>1, <2>5, <2>6, ResumeIs
<1>12. CASE Tick
  <2>1. /\ x.status = "ACTIVE"
        /\ y = [x EXCEPT !.nextDay = Later(@), !.decision = Later(@)]
    BY <1>12 DEF Tick
  <2> QED BY ONLY <1>1, <2>1, TickIs
<1> QED BY <1>2, <1>3, <1>4, <1>5, <1>6, <1>7, <1>8, <1>9, <1>10, <1>11, <1>12 DEF Next

\* What a request in flight has read stays what a session can be.
LEMMA RequestsStay ==
  ASSUME SessionSafe, Next
  PROVE  requests' \in [Requests -> Asking]
<1>1. requests \in [Requests -> Asking] /\ session \in Sessions
  BY DEF SessionSafe, Sound
<1>2. CASE UNCHANGED requests
  BY <1>1, <1>2
<1>3. CASE \E r \in Requests : Finish(r)
  <2>1. Idle \in Asking
    BY TicksAre DEF Idle, Asking, Hold
  <2> QED BY <1>1, <1>3, <2>1 DEF Finish
<1>4. CASE \E r \in Requests : \E op \in {"advance", "continue", "resume"} :
             \E k \in Scheduled \cup Events \cup {None} : Begin(r, op, k)
  <2>1. PICK r \in Requests, op \in {"advance", "continue", "resume"},
             k \in Scheduled \cup Events \cup {None} : Begin(r, op, k)
    BY <1>4
  <2>2. session.hold \in Hold /\ session.paused \in Ticks
    BY <1>1, SessionIs
  <2>3. PICK new : new = [op |-> op, hold |-> session.hold, paused |-> session.paused, of |-> k]
    OBVIOUS
  <2>4. new \in Asking
    BY <2>2, <2>3 DEF Asking
  <2>5. requests' = [requests EXCEPT ![r] = new]
    BY <2>1, <2>3 DEF Begin
  <2> QED BY <1>1, <2>4, <2>5
<1>5. CASE \/ \E split \in Splits : Setup(split)
           \/ Poll \/ Pause \/ Discard \/ Tick
           \/ \E b \in {c \in Bills : session.bill[c] # "ABSENT"} : Pay(b)
           \/ \E e \in Revealed(session) : \E o \in Options[e] : ResolveEvent(e, o)
  BY <1>2, <1>5 DEF Setup, Poll, Pause, Discard, Tick, Pay, ResolveEvent
<1>6. CASE \E r \in Requests : AdvanceCommit(r) \/ ContinueCommit(r) \/ ResumeCommit(r) \/ Drop(r)
  BY <1>3, <1>6 DEF AdvanceCommit, ContinueCommit, ResumeCommit, Drop
<1>7. CASE \E r \in Requests : AdvanceRead(r) \/ ContinueRead(r) \/ ResumeRead(r)
  <2>1. \E r \in Requests : \E op \in {"advance", "continue", "resume"} :
             \E k \in Scheduled \cup Events \cup {None} : Begin(r, op, k)
    <3>1. PICK r \in Requests : AdvanceRead(r) \/ ContinueRead(r) \/ ResumeRead(r)
      BY <1>7
    <3>2. CASE AdvanceRead(r)
      BY <3>2 DEF AdvanceRead
    <3>3. CASE ContinueRead(r)
      BY <3>3 DEF ContinueRead
    <3>4. CASE ResumeRead(r)
      BY <3>4 DEF ResumeRead
    <3> QED BY <3>1, <3>2, <3>3, <3>4
  <2> QED BY <1>4, <2>1
<1> QED BY <1>5, <1>6, <1>7 DEF Next
\* So it holds throughout.
LEMMA SessionAlways == Spec => []SessionSafe
<1>1. SessionSafe /\ [Next]_vars => SessionSafe'
  <2> SUFFICES ASSUME SessionSafe, [Next]_vars
               PROVE  SessionSafe'
    OBVIOUS
  <2>1. CASE UNCHANGED vars
    <3>1. session' = session /\ requests' = requests
      BY <2>1 DEF vars
    <3> QED BY <3>1 DEF SessionSafe
  <2>2. CASE Next
    <3>1. PICK x, y : x = session /\ y = session'
      OBVIOUS
    <3>2. Sound(y)
      BY <2>2, <3>1, RequestIs
    <3>3. Sound(session')
      BY <3>1, <3>2
    <3>4. requests' \in [Requests -> Asking]
      BY <2>2, RequestsStay
    <3> QED BY <3>3, <3>4 DEF SessionSafe
  <2> QED BY <2>1, <2>2
<1> QED BY <1>1, SessionBegin, PTL DEF Spec

-----------------------------------------------------------------------------
(* What a month promises                                                   *)

\* A session and what its requests have read keep their types, for any bills,
\* events, budget, number of days and of requests in flight.
THEOREM SessionTyped == Spec => []TypeOK
<1>1. SessionSafe => TypeOK
  <2> SUFFICES ASSUME SessionSafe
               PROVE  TypeOK
    OBVIOUS
  <2>1. session \in Sessions
    BY DEF SessionSafe, Sound
  <2>2. IsABag(session.ledger)
    <3>1. session.ledger \in Ledgers
      BY <2>1, SessionIs
    <3>2. PICK S \in SUBSET Entry : session.ledger \in [S -> Nat \ {0}]
      BY <3>1 DEF Ledgers
    <3>3. DOMAIN session.ledger = S /\ \A n \in Nat \ {0} : n \in Nat /\ n > 0
      BY <3>2
    <3>4. session.ledger \in [S -> {n \in Nat : n > 0}]
      BY <3>2, <3>3
    <3> QED BY <3>3, <3>4 DEF IsABag
  <2>3. /\ session.status \in Status /\ session.hold \in Hold /\ session.timed \in Modes
        /\ session.day \in 0..Days
        /\ session.nextDay \in Ticks /\ session.decision \in Ticks
        /\ session.paused \in Ticks \ (-MaxLag)..(-1)
        /\ session.bill \in [Bills -> {"ABSENT", "SCHEDULED", "PAYABLE", "PAID", "MISSED"}]
        /\ session.intro \in [Scheduled -> {"WAITING", "SHOWN", "SEEN"}]
        /\ session.event \in [Events -> {"SCHEDULED", "REVEALED", "RESOLVED", "EXPIRED"}]
        /\ session.taken \in [Events -> 0..Budget]
        /\ session.current \in 0..Budget /\ session.savings \in 0..Budget
        /\ session.score \in Int /\ session.rewarded \in BOOLEAN /\ session.xp \in Nat
    BY <2>1, SessionIs
  <2>4. requests \in [Requests -> [op: {"none", "advance", "continue", "resume"}, hold: Hold,
                                   paused: Ticks, of: Scheduled \cup Events \cup {None}]]
    BY DEF SessionSafe, Asking
  <2> QED BY <2>2, <2>3, <2>4 DEF TypeOK
<1> QED BY <1>1, SessionAlways, PTL

\* A session holds for a surprise event exactly when one, and only one, is
\* revealed and undecided, whatever transitions, decisions and late requests
\* come together (resolveLockedSession, continueSimulation).
THEOREM AsksOneQuestion == Spec => []OneQuestion
<1>1. SessionSafe => OneQuestion
  BY DEF SessionSafe, Sound, Asked, OneQuestion
<1> QED BY <1>1, SessionAlways, PTL

\* What is settled has one entry, and what is not has none.
LEMMA EntriesAre ==
  ASSUME NEW x \in Sessions, Booked(x), NEW s \in Sources, NEW o \in Subjects
  PROVE  SumFunctionOnSet(x.ledger, {r \in BagToSet(x.ledger) : r.source = s /\ r.of = o})
         = IF Settled(x, s, o) THEN 1 ELSE 0
<1>1. PICK f, rows : f = x.ledger /\ rows = {r \in BagToSet(x.ledger) : r.source = s /\ r.of = o}
  OBVIOUS
<1>2. \A r : r \in rows <=> r \in DOMAIN f /\ r.source = s /\ r.of = o
  BY <1>1 DEF BagToSet
<1>3. \A r \in DOMAIN f : f[r] = 1
  BY <1>1 DEF Booked, Ledgered
<1>4. CASE Settled(x, s, o)
  <2>1. PICK r \in DOMAIN f : r.source = s /\ r.of = o
    BY <1>1, <1>4 DEF Booked
  <2>2. \A q \in rows : q = r
    BY <1>1, <1>2, <2>1 DEF Booked
  <2>3. rows = {r} /\ f[r] = 1
    BY <1>2, <1>3, <2>1, <2>2
  <2>4. PICK none : none = {} /\ IsFiniteSet(none) /\ r \notin none /\ rows = none \cup {r}
    BY <2>3, FS_EmptySet
  <2>5. \A q \in none \cup {r} : f[q] \in Int
    BY <2>3, <2>4
  <2>6. SumFunctionOnSet(f, none \cup {r}) = f[r] + SumFunctionOnSet(f, none)
    BY ONLY <2>4, <2>5, SumAdd
  <2>7. SumFunctionOnSet(f, none) = 0
    BY <2>4, SumEmpty
  <2>8. SumFunctionOnSet(f, rows) = 1 + 0
    BY ONLY <2>3, <2>4, <2>6, <2>7
  <2> QED BY <1>1, <1>4, <2>8
<1>5. CASE ~Settled(x, s, o)
  <2>1. rows = {}
    BY <1>1, <1>2, <1>5 DEF Booked
  <2> QED BY <1>1, <1>5, <2>1, SumEmpty
<1> QED BY <1>4, <1>5

\* Points and money of a month are accounted for: every settled bill and event
\* has its one entry, the entries add up to the score, so that the completion of
\* a month (completionSummary) is never refused, and what has left the accounts
\* is the paid bills and what events have taken.
THEOREM MonthsAddUp == Spec => []MonthAddsUp
<1>1. SessionSafe => MonthAddsUp
  <2> SUFFICES ASSUME SessionSafe
               PROVE  ScoreIsExplained /\ MoneyAccounted
    BY DEF MonthAddsUp
  <2>1. session \in Sessions /\ Booked(session) /\ Funded(session)
    BY DEF SessionSafe, Sound
  <2>2. ScoreIsExplained
    <3>1. \A s \in Sources, o \in Subjects :
            SumFunctionOnSet(session.ledger,
              {r \in BagToSet(session.ledger) : r.source = s /\ r.of = o})
            = IF Settled(session, s, o) THEN 1 ELSE 0
      BY <2>1, EntriesAre
    <3>2. /\ {"PAYMENT", "MISSED", "DECISION", "EXPIRY", "BONUS"} \subseteq Sources
          /\ Bills \subseteq Subjects /\ Events \subseteq Subjects /\ None \in Subjects
      BY DEF Sources, Subjects
    <3>3. \A b \in Bills : /\ Settled(session, "PAYMENT", b) <=> session.bill[b] = "PAID"
                           /\ Settled(session, "MISSED", b) <=> session.bill[b] = "MISSED"
      BY DEF Settled
    <3>4. \A e \in Events : /\ Settled(session, "DECISION", e) <=> session.event[e] = "RESOLVED"
                            /\ Settled(session, "EXPIRY", e) <=> session.event[e] = "EXPIRED"
      BY DEF Settled
    <3>5. Settled(session, "BONUS", None) <=> session.status = "COMPLETED"
      BY DEF Settled
    <3>6. Reconciles(session)
      BY <2>1 DEF Booked, Ledgered
    <3> QED BY <3>1, <3>2, <3>3, <3>4, <3>5, <3>6 DEF ScoreIsExplained
  <2>3. MoneyAccounted
    <3>1. session.current + session.savings =
            Budget - SumFunctionOnSet(Amount, {b \in Bills : session.bill[b] = "PAID"})
                   - SumFunctionOnSet(session.taken, Events)
      BY <2>1 DEF Funded, Paid
    <3>2. ASSUME NEW e \in Events
          PROVE  CASE session.event[e] = "RESOLVED" ->
                        \E o \in Options[e] : session.taken[e] = o.cost
                   [] session.event[e] = "EXPIRED" ->
                        \/ session.taken[e] = Expiry[e].cost
                        \/ session.taken[e] < Expiry[e].cost /\ session.current = 0
                           /\ session.savings = 0
                   [] OTHER -> session.taken[e] = 0
      <4>1. Took(session, e)
        BY <2>1 DEF Funded
      <4>2. session.event[e] \in {"SCHEDULED", "REVEALED", "RESOLVED", "EXPIRED"}
        BY <2>1, SessionIs
      <4> QED BY <4>1, <4>2 DEF Took
    <3> QED BY <3>1, <3>2 DEF MoneyAccounted
  <2> QED BY <2>2, <2>3
<1> QED BY <1>1, SessionAlways, PTL

-----------------------------------------------------------------------------
(* Requests and transitions implement the month                            *)

\* The days and fates of a sound session.
LEMMA ViewIs ==
  ASSUME NEW x \in Sessions
  PROVE  /\ x.day \in 0..Days
         /\ Fate(x) \in [Bills \cup Events -> {"AWAY", "OPEN", "DONE", "LATE"}]
<1>1. \A i \in Bills \cup Events : Fate(x)[i] \in {"AWAY", "OPEN", "DONE", "LATE"}
  BY FateIs
<1>2. Fate(x) = [i \in Bills \cup Events |-> Fate(x)[i]]
  BY DEF Fate
<1> QED BY <1>1, <1>2, SessionIs

\* Every step of a session is one of the month, or none.
LEMMA StepOfMonth ==
  ASSUME SessionSafe, [Next]_vars
  PROVE  [Month!Next]_(Month!vars)
<1>1. CASE UNCHANGED vars
  BY <1>1 DEF vars, Month!vars, IsOpen
<1>2. CASE Next
  <2>1. PICK x, y : x = session /\ y = session'
    OBVIOUS
  <2>2. Sound(y) /\ Moves(x, y)
    BY <1>2, <2>1, RequestIs
  <2>3. x \in Sessions /\ y \in Sessions
    BY <2>1, <2>2 DEF Sound, SessionSafe
  <2>4. Moves(session, session')
    BY <2>1, <2>2
  <2>5. /\ session.day \in 0..Days /\ session'.day \in 0..Days
        /\ Fate(session') \in [Bills \cup Events -> {"AWAY", "OPEN", "DONE", "LATE"}]
    BY <2>1, <2>3, ViewIs
  <2>6. CASE Same(session, session')
    BY <2>6 DEF Same, Phase, Fate, BillFate, EventFate, IsOpen, Month!vars
  <2>7. CASE Starts(session, session')
    <3>1. Month!Start
      BY <2>7 DEF Starts, Phase, Fate, BillFate, EventFate, IsOpen, Month!Start
    <3> QED BY <3>1 DEF Month!Next
  <2>8. CASE Leaves(session, session')
    <3>1. Month!Abandon
      BY <2>8 DEF Leaves, Phase, Fate, BillFate, EventFate, IsOpen, Month!Abandon
    <3> QED BY <3>1 DEF Month!Next
  <2>9. CASE Ends(session, session')
    <3>1. Month!End
      BY <2>9 DEF Ends, Phase, Fate, BillFate, EventFate, IsOpen, Month!End, Month!Things
    <3> QED BY <3>1 DEF Month!Next
  <2>10. CASE Lives(session, session')
    <3>2. Month!Things = Bills \cup Events
      BY DEF Month!Things
    <3>3. \A i \in Bills \cup Events, d \in Int : Month!Fates(i, d) = FatesBy(Fate(session), i, d)
      BY DEF Month!Fates, Month!LastDay, FatesBy, Last, Fate, BillFate, EventFate, IsOpen
    <3>4. PICK d \in session.day..Days :
            /\ session'.day = d
            /\ Fate(session') \in [Month!Things -> {"AWAY", "OPEN", "DONE", "LATE"}]
            /\ \A i \in Month!Things : Fate(session')[i] \in Month!Fates(i, d)
      BY <2>5, <2>10, <3>2, <3>3 DEF Lives
    <3>5. /\ Phase(session) = "OPEN" /\ Phase(session') = "OPEN" /\ session'.xp = session.xp
          /\ \A i, j \in {k \in Month!Things : Fate(session)[k] # "DONE"
                                              /\ Fate(session')[k] = "DONE"} : i = j
      BY <2>10, <3>2 DEF Lives
    <3>1. Month!Live
      BY <3>4, <3>5 DEF Phase, Fate, BillFate, EventFate, IsOpen, Month!Live
    <3> QED BY <3>1 DEF Month!Next
  <2> QED BY <2>4, <2>6, <2>7, <2>8, <2>9, <2>10 DEF Moves
<1> QED BY <1>1, <1>2
\* Sessions, with their clocks, holds, locks and late requests, implement the
\* month as its player sees it: each bill and event is settled once, in time by
\* the player or afterwards by the calendar, and a month that ends leaves nothing
\* unsettled and is rewarded once (SimulationTransitionService, payObligation,
\* resolveEvent, completeSimulation).
THEOREM SessionsImplementMonth == Spec => ImplementsMonth
<1>1. Init => Month!Init
  <2> SUFFICES ASSUME Init PROVE Month!Init
    OBVIOUS
  <2>1. PICK x : x = session
    OBVIOUS
  <2>2. /\ x.status = "BRIEFING" /\ x.day = 0 /\ x.xp = 0
        /\ x.bill = [b \in Bills |-> IF b \in Initial THEN "SCHEDULED" ELSE "ABSENT"]
        /\ x.event = [e \in Events |-> "SCHEDULED"]
    BY <2>1 DEF Init
  <2>3. /\ \A b \in Bills : BillFate(x, b) = IF b \in Initial THEN "OPEN" ELSE "AWAY"
        /\ \A e \in Events : EventFate(x, e) = "AWAY"
    BY <2>2 DEF BillFate, EventFate, IsOpen
  <2>4. Initial \in SUBSET Bills /\ \A e \in Events : e \notin Bills
    BY SimulationConstants, RowsOfTheirOwn
  <2>5. \A i \in Bills \cup Events : (IF i \in Bills THEN BillFate(x, i) ELSE EventFate(x, i))
                                     = IF i \in Initial THEN "OPEN" ELSE "AWAY"
    BY <2>3, <2>4
  <2>6. Fate(x) = [i \in Bills \cup Events |-> IF i \in Initial THEN "OPEN" ELSE "AWAY"]
    BY <2>5 DEF Fate
  <2>7. /\ Phase(session) = "PLANNED" /\ session.day = 0 /\ session.xp = 0
        /\ Fate(session) = [i \in Month!Things |-> IF i \in Initial THEN "OPEN" ELSE "AWAY"]
    BY <2>1, <2>2, <2>6 DEF Phase, Month!Things
  <2> QED BY <2>4, <2>7 DEF Month!Init, Phase, Fate, BillFate, EventFate, IsOpen
<1>2. SessionSafe /\ [Next]_vars => [Month!Next]_(Month!vars)
  BY StepOfMonth
<1> QED BY <1>1, <1>2, SessionAlways, PTL DEF Spec, ImplementsMonth, Month!Spec

-----------------------------------------------------------------------------
(* The clocks of a session                                                 *)

\* Whatever a session holds, its fields are those of a session.
Fields == {"status", "hold", "timed", "day", "nextDay", "decision", "paused", "bill", "intro",
           "event", "taken", "current", "savings", "score", "ledger", "rewarded", "xp"}
Shaped(x) == DOMAIN x = Fields /\ x = [f \in Fields |-> x[f]]
KeepsClock(x, y) == /\ Shaped(y) /\ SameClock(x, y) /\ SamePlace(x, y)
                    /\ y.intro = x.intro /\ y.event = x.event

\* A session has these fields.
LEMMA SessionsAreShaped == ASSUME NEW x \in Sessions PROVE Shaped(x)
BY DEF Sessions, Shaped, Fields

\* Money, points and bills change without the clocks.
LEMMA ClocksKept ==
  ASSUME NEW x, Shaped(x)
  PROVE  /\ \A rows : KeepsClock(x, Record(x, rows))
         /\ \A late : KeepsClock(x, Miss(x, late))
         /\ \A new, d : KeepsClock(x, Introduce(x, new, d))
         /\ KeepsClock(x, Fall(x))
         /\ \A cost : KeepsClock(x, Debit(x, cost))
<1>1. ASSUME NEW z, Shaped(z), NEW rows
      PROVE  KeepsClock(z, Record(z, rows))
  <2>1. PICK s, l : Record(z, rows) = [z EXCEPT !.score = s, !.ledger = l]
    BY <1>1 DEF Record
  <2> QED BY <1>1, <2>1 DEF KeepsClock, Shaped, Fields, SameClock, SamePlace
<1>2. ASSUME NEW late
      PROVE  KeepsClock(x, Miss(x, late))
  <2>1. PICK m, rows : Miss(x, late) = Record([x EXCEPT !.bill = m], rows)
    BY DEF Miss
  <2>2. PICK z : z = [x EXCEPT !.bill = m]
    OBVIOUS
  <2>3. KeepsClock(x, z)
    BY <2>2 DEF KeepsClock, Shaped, Fields, SameClock, SamePlace
  <2>4. KeepsClock(z, Record(z, rows))
    BY <1>1, <2>3 DEF KeepsClock
  <2> QED BY <2>1, <2>2, <2>3, <2>4 DEF KeepsClock, SameClock, SamePlace
<1>3. ASSUME NEW new, NEW d
      PROVE  KeepsClock(x, Introduce(x, new, d))
  <2>1. PICK m : Introduce(x, new, d) = [x EXCEPT !.bill = m]
    BY DEF Introduce
  <2> QED BY <2>1 DEF KeepsClock, Shaped, Fields, SameClock, SamePlace
<1>4. KeepsClock(x, Fall(x))
  <2>1. PICK m : Fall(x) = [x EXCEPT !.bill = m]
    BY DEF Fall
  <2> QED BY <2>1 DEF KeepsClock, Shaped, Fields, SameClock, SamePlace
<1>5. ASSUME NEW cost
      PROVE  KeepsClock(x, Debit(x, cost))
  <2>1. PICK a, b : Debit(x, cost) = [x EXCEPT !.current = a, !.savings = b]
    BY DEF Debit
  <2> QED BY <2>1 DEF KeepsClock, Shaped, Fields, SameClock, SamePlace
<1> QED BY <1>1, <1>2, <1>3, <1>4, <1>5

\* What an event or a new bill does to the clocks.
LEMMA StopsClock ==
  ASSUME NEW x, Shaped(x)
  PROVE  /\ \A e : LET y == Reveal(x, e) IN
              /\ Shaped(y) /\ y.status = x.status /\ y.timed = x.timed /\ y.paused = x.paused
              /\ y.hold = "EVENT_REVEAL" /\ y.nextDay = None
              /\ y.decision = IF x.timed THEN DecisionLength ELSE None
         /\ \A new : LET y == Show(x, new) IN
              /\ Shaped(y) /\ y.status = x.status /\ y.timed = x.timed /\ y.paused = x.paused
              /\ y.hold = "NEW_OBLIGATION" /\ y.nextDay = None /\ y.decision = x.decision
<1>1. ASSUME NEW e, NEW y, y = Reveal(x, e)
      PROVE  /\ Shaped(y) /\ y.status = x.status /\ y.timed = x.timed /\ y.paused = x.paused
             /\ y.hold = "EVENT_REVEAL" /\ y.nextDay = None
             /\ y.decision = IF x.timed THEN DecisionLength ELSE None
  <2>1. PICK v, d : /\ d = IF x.timed THEN DecisionLength ELSE None
                    /\ v = [x.event EXCEPT ![e] = "REVEALED"]
    OBVIOUS
  <2>2. y = [x EXCEPT !.event = v, !.hold = "EVENT_REVEAL", !.decision = d, !.nextDay = None]
    BY <1>1, <2>1 DEF Reveal, Shaped, Fields
  <2> QED BY <2>1, <2>2 DEF Shaped, Fields
<1>2. ASSUME NEW new, NEW y, y = Show(x, new)
      PROVE  /\ Shaped(y) /\ y.status = x.status /\ y.timed = x.timed /\ y.paused = x.paused
             /\ y.hold = "NEW_OBLIGATION" /\ y.nextDay = None /\ y.decision = x.decision
  <2>1. PICK i, m : y = [x EXCEPT !.intro = i, !.bill = m, !.hold = "NEW_OBLIGATION",
                                  !.nextDay = None]
    BY <1>2 DEF Show
  <2> QED BY <2>1 DEF Shaped, Fields
<1> QED BY <1>1, <1>2

\* A day begins: it stops for a bill or an event, or the clocks go on.
LEMMA DayClock ==
  ASSUME NEW x, Shaped(x), NEW y, y = StopForDay(x)
  PROVE  /\ Shaped(y) /\ y.status = x.status /\ y.timed = x.timed /\ y.paused = x.paused
         /\ \/ /\ Stops(x) /\ y.hold = "NEW_OBLIGATION" /\ y.nextDay = None
               /\ y.decision = x.decision
            \/ /\ Stops(x) /\ y.hold = "EVENT_REVEAL" /\ y.nextDay = None
               /\ y.decision = IF x.timed THEN DecisionLength ELSE None
            \/ /\ ~Stops(x) /\ y.hold = x.hold /\ y.nextDay = x.nextDay
               /\ y.decision = x.decision
<1>1. PICK w : w = Miss(x, {b \in Bills : Due[b] < x.day}) /\ KeepsClock(x, w)
  BY ClocksKept
<1>2. y = IF NewBills(w) # {} THEN Show(w, NewBills(w))
          ELSE IF DueEvents(w) # {} THEN Reveal(Fall(w), FirstEvent(w))
          ELSE Fall(w)
  BY <1>1 DEF StopForDay
<1>3. NewBills(w) = NewBills(x) /\ DueEvents(w) = DueEvents(x)
  BY <1>1 DEF KeepsClock, SamePlace, NewBills, DueEvents
<1>4. PICK v : v = Fall(w) /\ KeepsClock(w, v)
  BY <1>1, ClocksKept DEF KeepsClock
<1>5. /\ Shaped(w) /\ w.status = x.status /\ w.timed = x.timed /\ w.paused = x.paused
      /\ w.hold = x.hold /\ w.nextDay = x.nextDay /\ w.decision = x.decision
      /\ Shaped(v) /\ v.status = x.status /\ v.timed = x.timed /\ v.paused = x.paused
      /\ v.hold = x.hold /\ v.nextDay = x.nextDay /\ v.decision = x.decision
  BY <1>1, <1>4 DEF KeepsClock, SameClock, SamePlace
<1>6. CASE NewBills(w) # {}
  <2>1. y = Show(w, NewBills(w)) /\ Stops(x)
    BY <1>2, <1>3, <1>6 DEF Stops
  <2> QED BY <1>5, <2>1, StopsClock
<1>7. CASE NewBills(w) = {} /\ DueEvents(w) # {}
  <2>1. y = Reveal(v, FirstEvent(w)) /\ Stops(x)
    BY <1>2, <1>3, <1>4, <1>7 DEF Stops
  <2> QED BY <1>5, <2>1, StopsClock
<1>8. CASE NewBills(w) = {} /\ DueEvents(w) = {}
  <2>1. y = v /\ ~Stops(x)
    BY <1>2, <1>3, <1>4, <1>8 DEF Stops
  <2> QED BY <1>5, <2>1
<1> QED BY <1>6, <1>7, <1>8

\* The clocks run, stop and are kept with what the session holds for.
Clocked(x) ==
    /\ x.status = "BRIEFING" => /\ x.hold = "NONE" /\ x.nextDay = None
                                /\ x.decision = None /\ x.paused = None
    /\ x.status = "ACTIVE" => /\ x.paused = None
                              /\ x.nextDay # None => x.timed /\ x.hold = "NONE"
                              /\ x.decision # None <=> x.timed /\ x.hold = "EVENT_REVEAL"
    /\ x.status = "PAUSED" => /\ x.hold \in Pausable /\ x.nextDay = None /\ x.decision = None
                              /\ x.paused # None <=> x.timed /\ x.hold # "NEW_OBLIGATION"
\* The day clock of a timed day runs.
Ready(x) == x.status = "ACTIVE" /\ x.timed /\ x.hold = "NONE" => x.nextDay # None

\* The next day's clock runs on from the last one.
LEMMA BoundaryClock ==
  ASSUME NEW x, Sound(x), x.status = "ACTIVE", Revealed(x) = {}, ~Stops(x),
         ~x.timed \/ x.nextDay # None, Clocked(x), NEW y, y = Boundary(x)
  PROVE  Clocked(y) /\ Ready(y)
<1>1. x \in Sessions /\ Shaped(x) /\ x.hold # "EVENT_REVEAL"
  BY SessionsAreShaped DEF Sound, Asked
<1>2. /\ x.paused = None /\ (x.nextDay # None => x.timed /\ x.hold = "NONE")
      /\ x.decision = None
  BY <1>1 DEF Clocked
<1>3. CASE x.day >= Days
  <2>1. y.status = "COMPLETED"
    BY <1>3, FinalizeIs DEF Boundary, Closes
  <2> QED BY <2>1 DEF Clocked, Ready
<1>4. CASE ~(x.day >= Days)
  <2>1. PICK d, t : /\ d = x.day + 1
                    /\ t = IF ~x.timed THEN None
                           ELSE IF x.nextDay = None THEN DayLength ELSE x.nextDay + DayLength
    OBVIOUS
  <2>2. PICK w : w = [x EXCEPT !.day = d, !.nextDay = t]
    OBVIOUS
  <2>3. y = StopForDay(w)
    <3>1. w = [x EXCEPT !.day = @ + 1, !.nextDay = IF ~x.timed THEN None
                                                  ELSE IF @ = None THEN DayLength
                                                  ELSE @ + DayLength]
      BY <1>1, <2>1, <2>2 DEF Shaped, Fields
    <3> QED BY <1>4, <3>1 DEF Boundary
  <2>4. /\ Shaped(w) /\ w.status = "ACTIVE" /\ w.timed = x.timed /\ w.paused = None
        /\ w.hold = x.hold /\ w.nextDay = t /\ w.decision = None
    BY <1>1, <1>2, <2>2 DEF Shaped, Fields
  <2>5. ~x.timed => t = None
    BY <2>1
  <2>6. x.timed => t # None /\ x.hold = "NONE"
    <3>1. ASSUME x.timed
          PROVE  t # None /\ x.hold = "NONE"
      <4>1. x.nextDay # None /\ x.nextDay \in Ticks
        BY <1>1, <3>1, SessionIs
      <4>2. x.nextDay \in Int /\ DayLength \in Int /\ None \notin Int
        <5>1. DayLength \in Int /\ None \notin Int
          BY SimulationConstants
        <5> QED BY ONLY <4>1, <5>1, TicksAre
      <4>3. t = x.nextDay + DayLength
        BY <2>1, <3>1, <4>1
      <4>4. t \in Int
        BY <4>2, <4>3
      <4> QED BY <1>2, <4>1, <4>2, <4>4
    <3> QED BY <3>1
  <2>7. DecisionLength # None
    BY SimulationConstants
  <2>8. /\ y.status = "ACTIVE" /\ y.timed = x.timed /\ y.paused = None
        /\ \/ y.hold = "NEW_OBLIGATION" /\ y.nextDay = None /\ y.decision = None
           \/ /\ y.hold = "EVENT_REVEAL" /\ y.nextDay = None
              /\ y.decision = IF x.timed THEN DecisionLength ELSE None
           \/ y.hold = x.hold /\ y.nextDay = t /\ y.decision = None
    BY <2>3, <2>4, DayClock
  <2> QED BY <1>1, <2>5, <2>6, <2>7, <2>8 DEF Clocked, Ready
<1> QED BY <1>3, <1>4

\* And so it does through all the days a board has slept.
LEMMA CatchUpClock ==
  ASSUME NEW x, Sound(x), x.status = "ACTIVE", Revealed(x) = {}, ~Stops(x),
         Clocked(x), Ready(x), NEW y, y = CatchUp(x)
  PROVE  Clocked(y) /\ Ready(y)
<1> DEFINE Going(z) == /\ Sound(z) /\ Clocked(z) /\ Ready(z)
                       /\ z.nextDay # None => z.status = "ACTIVE" /\ Revealed(z) = {} /\ ~Stops(z)
           S == {z \in Sessions : Going(z)}
<1>1. x \in S
  BY DEF Sound
<1>2. ASSUME NEW z \in S
      PROVE  DayStep(z) \in S
  <2>1. Going(z)
    OBVIOUS
  <2>2. CASE ~(z.nextDay # None /\ z.nextDay <= 0)
    BY <2>2 DEF DayStep
  <2>3. CASE z.nextDay # None /\ z.nextDay <= 0
    <3>1. PICK u : u = Boundary(z) /\ u = DayStep(z)
      BY <2>3 DEF DayStep
    <3>2. /\ Sound(z) /\ Clocked(z) /\ z.status = "ACTIVE" /\ Revealed(z) = {} /\ ~Stops(z)
      BY <2>1, <2>3
    <3>3. /\ Sound(u)
          /\ \/ Closes(z, u) /\ u.nextDay = None
             \/ /\ u.status = "ACTIVE" /\ Passes(z, u)
                /\ u.nextDay # None => Runs(z, u) /\ ~Stops(u) /\ Revealed(u) = {}
      BY <2>3, <3>1, <3>2, BoundaryIs
    <3>4. Clocked(u) /\ Ready(u)
      BY <2>3, <3>1, <3>2, BoundaryClock
    <3>5. u \in Sessions
      BY <3>3 DEF Sound
    <3>6. u.nextDay # None => u.status = "ACTIVE" /\ Revealed(u) = {} /\ ~Stops(u)
      BY <3>3
    <3>7. Going(u)
      BY <3>3, <3>4, <3>6
    <3> QED BY <3>1, <3>5, <3>7
  <2> QED BY <2>2, <2>3
<1>3. y \in S
  <2> HIDE DEF S
  <2> QED BY <1>1, <1>2, CatchUpIn
<1> QED BY <1>3

\* The answer to an event: a decision, or its expiry.
Answer(x, e, fate, cost, c, new, d, rows) ==
    Introduce(Record([Debit(x, cost) EXCEPT !.event[e] = fate, !.decision = None,
                        !.taken[e] = c, !.nextDay = None, !.hold = "EVENT_RESULT"],
                     rows), new, d)
\* It stops both clocks.
LEMMA DecidedClock ==
  ASSUME NEW x, Shaped(x), NEW e, NEW fate, NEW cost, NEW c, NEW new, NEW d, NEW rows, NEW y,
         y = Answer(x, e, fate, cost, c, new, d, rows)
  PROVE  /\ y.status = x.status /\ y.timed = x.timed /\ y.paused = x.paused
         /\ y.hold = "EVENT_RESULT" /\ y.nextDay = None /\ y.decision = None
<1>1. PICK w : w = Debit(x, cost) /\ KeepsClock(x, w)
  BY ClocksKept
<1>2. PICK v, t : v = [w.event EXCEPT ![e] = fate] /\ t = [w.taken EXCEPT ![e] = c]
  OBVIOUS
<1>3. PICK u : u = [w EXCEPT !.event = v, !.decision = None, !.taken = t, !.nextDay = None,
                             !.hold = "EVENT_RESULT"]
  OBVIOUS
<1>4. /\ Shaped(u) /\ u.status = x.status /\ u.timed = x.timed /\ u.paused = x.paused
      /\ u.hold = "EVENT_RESULT" /\ u.nextDay = None /\ u.decision = None
  BY <1>1, <1>3 DEF KeepsClock, SameClock, SamePlace, Shaped, Fields
<1>5. y = Introduce(Record(u, rows), new, d)
  BY <1>1, <1>2, <1>3 DEF Answer, KeepsClock, Shaped, Fields
<1>6. PICK r : r = Record(u, rows) /\ KeepsClock(u, r)
  BY <1>4, ClocksKept
<1>7. KeepsClock(r, y)
  BY <1>5, <1>6, ClocksKept DEF KeepsClock
<1> QED BY <1>4, <1>6, <1>7 DEF KeepsClock, SameClock, SamePlace

\* The transition keeps the clocks in order, and starts that of a timed day.
LEMMA ResolveClock ==
  ASSUME NEW x, Sound(x), Clocked(x), NEW manual \in BOOLEAN, NEW y, y = Resolve(x, manual)
  PROVE  Clocked(y) /\ (~manual => Ready(y))
<1>1. /\ x \in Sessions /\ Shaped(x) /\ Asked(x) /\ Calendar(x) /\ Prized(x) /\ Booked(x)
      /\ Funded(x)
  BY SessionsAreShaped DEF Sound
<1>2. CASE x.status = "COMPLETED"
  <2>1. x.rewarded
    BY <1>1, <1>2 DEF Prized
  <2>2. y = x
    BY <1>2, <2>1 DEF Resolve, Reward
  <2> QED BY <1>2, <2>2 DEF Ready
<1>3. CASE x.status # "ACTIVE" /\ x.status # "COMPLETED"
  BY <1>3 DEF Resolve, Ready
<1>4. CASE x.status = "ACTIVE" /\ x.hold = "NEW_OBLIGATION"
  BY <1>4 DEF Resolve, Ready
<1>5. CASE x.status = "ACTIVE" /\ x.hold # "NEW_OBLIGATION" /\ Revealed(x) # {}
  <2>1. y = IF TimeIsUp(x) THEN Expire(x, CHOOSE e \in Revealed(x) : TRUE) ELSE x
    BY <1>5 DEF Resolve
  <2>2. x.hold = "EVENT_REVEAL"
    BY <1>1, <1>5 DEF Asked
  <2>3. CASE ~TimeIsUp(x)
    BY <2>1, <2>2, <2>3 DEF Ready
  <2>4. CASE TimeIsUp(x)
    <3>1. PICK e : y = Expire(x, e)
      BY <2>1, <2>4
    <3>2. PICK o : o = Expiry[e]
      OBVIOUS
    <3>3. PICK c, rows : y = Answer(x, e, "EXPIRED", o.cost, c, o.bills, x.day, rows)
      BY <3>1, <3>2 DEF Expire, Answer
    <3>4. /\ y.status = x.status /\ y.timed = x.timed /\ y.paused = x.paused
          /\ y.hold = "EVENT_RESULT" /\ y.nextDay = None /\ y.decision = None
      BY ONLY <1>1, <3>3, DecidedClock
    <3> QED BY <1>5, <3>4 DEF Clocked, Ready
  <2> QED BY <2>3, <2>4
<1>6. CASE x.status = "ACTIVE" /\ x.hold # "NEW_OBLIGATION" /\ Revealed(x) = {}
  <2>1. Dawn(x) /\ x.hold # "EVENT_REVEAL"
    BY <1>1, <1>6 DEF Dawn, Asked
  <2>2. PICK z : z = StopForDay(x)
    OBVIOUS
  <2>3. /\ Sound(z) /\ z.status = "ACTIVE" /\ z.timed = x.timed
        /\ ~Stops(x) => Runs(x, z) /\ ~Stops(z)
    BY <2>1, <2>2, DayBreaks
  <2>4. /\ Shaped(z) /\ z.paused = x.paused
        /\ \/ /\ Stops(x) /\ z.hold = "NEW_OBLIGATION" /\ z.nextDay = None
              /\ z.decision = x.decision
           \/ /\ Stops(x) /\ z.hold = "EVENT_REVEAL" /\ z.nextDay = None
              /\ z.decision = IF x.timed THEN DecisionLength ELSE None
           \/ /\ ~Stops(x) /\ z.hold = x.hold /\ z.nextDay = x.nextDay
              /\ z.decision = x.decision
    BY <1>1, <2>2, DayClock
  <2>5. /\ x.paused = None /\ (x.nextDay # None => x.timed /\ x.hold = "NONE")
        /\ x.decision = None
    BY <1>6, <2>1 DEF Clocked
  <2>6. DecisionLength # None /\ DayLength # None
    BY SimulationConstants
  <2>7. Clocked(z) /\ (Stops(x) => Ready(z))
    BY <2>1, <2>3, <2>4, <2>5, <2>6 DEF Clocked, Ready
  <2>8. y = IF Stops(x) THEN z
            ELSE IF x.timed /\ x.nextDay = None /\ x.hold = "NONE"
            THEN [z EXCEPT !.nextDay = DayLength]
            ELSE IF x.timed THEN (IF manual THEN z ELSE CatchUp(z))
            ELSE IF manual THEN Boundary(z) ELSE z
    BY <1>6, <2>2 DEF Resolve
  <2>9. CASE Stops(x)
    BY <2>7, <2>8, <2>9
  <2>10. ASSUME ~Stops(x)
         PROVE  /\ z.hold = x.hold /\ z.nextDay = x.nextDay /\ z.decision = None
                /\ ~Stops(z) /\ Revealed(z) = {}
    BY <1>6, <2>3, <2>4, <2>5, <2>10 DEF Runs, Revealed
  <2>11. CASE ~Stops(x) /\ x.timed /\ x.nextDay = None /\ x.hold = "NONE"
    <3>1. y = [z EXCEPT !.nextDay = DayLength]
      BY <2>8, <2>11
    <3>2. /\ y.status = z.status /\ y.timed = z.timed /\ y.paused = z.paused
          /\ y.hold = z.hold /\ y.nextDay = DayLength /\ y.decision = z.decision
      BY <2>4, <3>1 DEF Shaped, Fields
    <3> QED BY <2>3, <2>4, <2>5, <2>6, <2>10, <2>11, <3>2 DEF Clocked, Ready
  <2>12. CASE ~Stops(x) /\ x.timed /\ ~(x.nextDay = None /\ x.hold = "NONE")
    <3>1. Ready(z)
      BY <2>10, <2>12 DEF Ready
    <3>2. CASE manual
      BY <2>7, <2>8, <2>12, <3>2
    <3>3. CASE ~manual
      <4>1. y = CatchUp(z)
        BY <2>8, <2>12, <3>3
      <4> QED BY <2>3, <2>7, <2>10, <2>12, <3>1, <4>1, CatchUpClock
    <3> QED BY <3>2, <3>3
  <2>13. CASE ~Stops(x) /\ ~x.timed
    <3>1. CASE manual
      <4>1. y = Boundary(z)
        BY <2>8, <2>13, <3>1
      <4> QED BY <2>3, <2>7, <2>10, <2>13, <4>1, BoundaryClock
    <3>2. CASE ~manual
      BY <2>3, <2>7, <2>8, <2>13, <3>2 DEF Ready
    <3> QED BY <3>1, <3>2
  <2> QED BY <2>9, <2>11, <2>12, <2>13
<1> QED BY <1>2, <1>3, <1>4, <1>5, <1>6

-----------------------------------------------------------------------------
(* Resumes that do not overlap                                             *)

\* At most one resume is in flight.
OneResume == \A q, r \in Requests :
    requests[q].op = "resume" /\ requests[r].op = "resume" => q = r

\* A resume in flight knows what the pause it is to end has kept.
ResumesKnow == \A r \in Requests : requests[r].op = "resume" =>
    /\ session.status \in {"PAUSED", "ABANDONED"}
    /\ session.status = "PAUSED" =>
         /\ requests[r].hold = session.hold /\ requests[r].paused = session.paused
         /\ session.hold = "EVENT_REVEAL" => requests[r].of \in Revealed(session)

\* A session that is paused or over is only resumed or discarded.
LEMMA StoppedStays ==
  ASSUME SessionSafe, Next, session.status \in {"PAUSED", "ABANDONED"}
  PROVE  \/ session' = session
         \/ session'.status = "ABANDONED" /\ UNCHANGED requests
         \/ \E r \in Requests : ResumeCommit(r)
<1>1. \A manual : Resolve(session, manual) = session
  BY DEF Resolve
<1>2. Shaped(session)
  BY SessionsAreShaped DEF SessionSafe, Sound
<1>3. CASE Discard
  BY <1>2, <1>3 DEF Discard, Shaped, Fields
<1>4. CASE Poll
  BY <1>1, <1>4 DEF Poll, Commit
<1>5. CASE \/ \E split \in Splits : Setup(split)
           \/ \E b \in {c \in Bills : session.bill[c] # "ABSENT"} : Pay(b)
           \/ \E e \in Revealed(session) : \E o \in Options[e] : ResolveEvent(e, o)
           \/ Pause \/ Tick
  BY <1>1, <1>5 DEF Setup, Pay, ResolveEvent, Pause, Tick
<1>6. ASSUME NEW r \in Requests,
             \/ AdvanceRead(r) \/ AdvanceCommit(r) \/ ContinueRead(r) \/ ContinueCommit(r)
             \/ ResumeRead(r) \/ Drop(r)
      PROVE  session' = session
  BY <1>1, <1>6 DEF AdvanceRead, AdvanceCommit, ContinueRead, ContinueCommit, ResumeRead, Drop,
                    Begin, Commit
<1> QED BY <1>3, <1>4, <1>5, <1>6 DEF Next

-----------------------------------------------------------------------------
(* Every request leaves the clocks in order                                *)

\* The setup of a timed month starts the day clock.
LEMMA SetupClock ==
  ASSUME NEW x, Shaped(x), x.status = "BRIEFING", Clocked(x), NEW a, NEW b, NEW y,
         y = [x EXCEPT !.status = "ACTIVE", !.current = a, !.savings = b,
                       !.nextDay = IF x.timed THEN DayLength ELSE None]
  PROVE  Clocked(y)
<1>1. PICK t : t = IF x.timed THEN DayLength ELSE None
  OBVIOUS
<1>2. y = [x EXCEPT !.status = "ACTIVE", !.current = a, !.savings = b, !.nextDay = t]
  BY <1>1
<1>3. /\ y.status = "ACTIVE" /\ y.timed = x.timed /\ y.hold = x.hold /\ y.nextDay = t
      /\ y.decision = x.decision /\ y.paused = x.paused
  BY <1>2 DEF Shaped, Fields
<1>4. x.hold = "NONE" /\ x.decision = None /\ x.paused = None
  BY DEF Clocked
<1>5. t # None => x.timed
  BY <1>1
<1> QED BY <1>3, <1>4, <1>5 DEF Clocked

\* A deadline stays one.
LEMMA LaterIs == ASSUME NEW t \in Ticks PROVE Later(t) = None <=> t = None
<1>1. CASE t = None
  BY <1>1 DEF Later
<1>2. CASE t # None
  <2>1. t \in Int /\ MaxLag \in Nat /\ None \notin Int
    BY <1>2, TicksAre, SimulationConstants
  <2>2. PICK a, b : a = t - 1 /\ b = -MaxLag
    OBVIOUS
  <2>3. a \in Int /\ b \in Int
    BY <2>1, <2>2
  <2>4. Later(t) = Max({a, b})
    BY <1>2, <2>2 DEF Later
  <2>5. Max({a, b}) \in Int
    BY ONLY <2>3, MaxIs
  <2> QED BY <1>2, <2>1, <2>4, <2>5
<1> QED BY <1>1, <1>2

\* Time that passes stops and starts no clock.
LEMMA TickClock ==
  ASSUME NEW x \in Sessions, x.status = "ACTIVE", Clocked(x), NEW y,
         y = [x EXCEPT !.nextDay = Later(@), !.decision = Later(@)]
  PROVE  Clocked(y)
<1>1. PICK t, d : t = Later(x.nextDay) /\ d = Later(x.decision)
  OBVIOUS
<1>2. y = [x EXCEPT !.nextDay = t, !.decision = d]
  BY <1>1 DEF Sessions
<1>3. /\ y.status = "ACTIVE" /\ y.timed = x.timed /\ y.hold = x.hold /\ y.nextDay = t
      /\ y.decision = d /\ y.paused = x.paused
  BY <1>2 DEF Sessions
<1>4. (t = None <=> x.nextDay = None) /\ (d = None <=> x.decision = None)
  BY <1>1, LaterIs, SessionIs
<1> QED BY <1>3, <1>4 DEF Clocked

\* The session after a payment.
AfterPaying(x, b, cost, rows) ==
    Record([Debit(x, cost) EXCEPT !.bill[b] = "PAID", !.nextDay = None,
                                  !.hold = "PAYMENT_RESULT"], rows)
\* A bill paid stops the day.
LEMMA PaidClock ==
  ASSUME NEW x, Shaped(x), NEW b, NEW cost, NEW rows, NEW y,
         y = AfterPaying(x, b, cost, rows)
  PROVE  /\ y.status = x.status /\ y.timed = x.timed /\ y.paused = x.paused
         /\ y.hold = "PAYMENT_RESULT" /\ y.nextDay = None /\ y.decision = x.decision
<1>1. PICK w : w = Debit(x, cost) /\ KeepsClock(x, w)
  BY ClocksKept
<1>2. PICK m : m = [w.bill EXCEPT ![b] = "PAID"]
  OBVIOUS
<1>3. PICK u : u = [w EXCEPT !.bill = m, !.nextDay = None, !.hold = "PAYMENT_RESULT"]
  OBVIOUS
<1>4. /\ Shaped(u) /\ u.status = x.status /\ u.timed = x.timed /\ u.paused = x.paused
      /\ u.hold = "PAYMENT_RESULT" /\ u.nextDay = None /\ u.decision = x.decision
  BY <1>1, <1>3 DEF KeepsClock, SameClock, SamePlace, Shaped, Fields
<1>5. y = Record(u, rows)
  BY <1>1, <1>2, <1>3 DEF AfterPaying, KeepsClock, Shaped, Fields
<1>6. KeepsClock(u, y)
  BY <1>4, <1>5, ClocksKept
<1> QED BY <1>4, <1>6 DEF KeepsClock, SameClock, SamePlace

\* And leaves the other clocks as they are.
LEMMA PayClock ==
  ASSUME NEW x, Shaped(x), x.status = "ACTIVE", x.hold = "NONE", Clocked(x),
         NEW b, NEW cost, NEW rows, NEW y,
         y = AfterPaying(x, b, cost, rows)
  PROVE  Clocked(y)
<1>1. /\ y.status = x.status /\ y.timed = x.timed /\ y.paused = x.paused
      /\ y.hold = "PAYMENT_RESULT" /\ y.nextDay = None /\ y.decision = x.decision
  BY PaidClock
<1>2. x.paused = None /\ x.decision = None
  BY DEF Clocked
<1> QED BY <1>1, <1>2 DEF Clocked

\* A pause keeps the clock that was running.
LEMMA PauseClock ==
  ASSUME NEW z \in Sessions, Clocked(z), Ready(z), z.status = "ACTIVE", z.hold \in Pausable,
         NEW end, end = IF z.hold = "EVENT_REVEAL" THEN z.decision ELSE z.nextDay, NEW y,
         y = [z EXCEPT !.status = "PAUSED", !.nextDay = None,
                !.paused = IF end = None THEN None ELSE Max({0, end}),
                !.decision = IF z.hold = "EVENT_REVEAL" THEN None ELSE @]
  PROVE  Clocked(y)
<1>1. PICK t, d : /\ t = IF end = None THEN None ELSE Max({0, end})
                  /\ d = IF z.hold = "EVENT_REVEAL" THEN None ELSE z.decision
  OBVIOUS
<1>2. y = [z EXCEPT !.status = "PAUSED", !.nextDay = None, !.paused = t, !.decision = d]
  BY <1>1 DEF Sessions
<1>3. /\ y.status = "PAUSED" /\ y.timed = z.timed /\ y.hold = z.hold /\ y.nextDay = None
      /\ y.decision = d /\ y.paused = t
  BY <1>2 DEF Sessions
<1>4. t = None <=> end = None
  <2>1. ASSUME end # None
        PROVE  t # None
    <3>1. end \in Ticks
      BY SessionIs
    <3>2. end \in Int /\ None \notin Int
      <4>1. end # None
        BY <2>1
      <4>2. end \in Int
        BY ONLY <3>1, <4>1, TicksAre
      <4>3. None \notin Int
        BY SimulationConstants
      <4> QED BY <4>2, <4>3
    <3>3. Max({0, end}) \in Int
      BY ONLY <3>2, 0 \in Int, MaxIs
    <3> QED BY <1>1, <2>1, <3>2, <3>3
  <2> QED BY <1>1, <2>1
<1>5. d = None
  BY <1>1 DEF Clocked
<1>6. end # None <=> z.timed /\ z.hold # "NEW_OBLIGATION"
  BY DEF Clocked, Ready, Pausable
<1> QED BY <1>3, <1>4, <1>5, <1>6 DEF Clocked

\* Going on from a result or a new bill starts the day's clock, or stops for an event.
LEMMA ContinueClock ==
  ASSUME NEW x, Shaped(x), x.status = "ACTIVE", x.hold \in Continuable, Clocked(x),
         NEW s, NEW z, z = Continued(x, s), NEW y,
         y = z \/ \E e : y = Reveal(z, e)
  PROVE  Clocked(y)
<1>1. PICK i, t : /\ i = [k \in Scheduled |-> IF k = s THEN "SEEN" ELSE x.intro[k]]
                  /\ t = IF x.timed THEN DayLength ELSE None
  OBVIOUS
<1>2. z = [x EXCEPT !.intro = i, !.hold = "NONE", !.nextDay = t]
  BY <1>1 DEF Continued, Acknowledge, Shaped, Fields
<1>3. /\ Shaped(z) /\ z.status = "ACTIVE" /\ z.timed = x.timed /\ z.paused = x.paused
      /\ z.hold = "NONE" /\ z.nextDay = t /\ z.decision = x.decision
  BY <1>2 DEF Shaped, Fields
<1>4. x.paused = None /\ x.decision = None
  BY DEF Clocked, Continuable, Results
<1>5. t # None => x.timed
  BY <1>1
<1>6. CASE y = z
  BY <1>3, <1>4, <1>5, <1>6 DEF Clocked
<1>7. CASE \E e : y = Reveal(z, e)
  <2>1. /\ y.status = "ACTIVE" /\ y.timed = x.timed /\ y.paused = None
        /\ y.hold = "EVENT_REVEAL" /\ y.nextDay = None
        /\ y.decision = IF x.timed THEN DecisionLength ELSE None
    BY <1>3, <1>4, <1>7, StopsClock
  <2>2. DecisionLength # None
    BY SimulationConstants
  <2> QED BY <2>1, <2>2 DEF Clocked
<1> QED BY <1>6, <1>7

\* The session a resume makes of a paused one.
Restarted(x, hold, left, known) ==
    [x EXCEPT !.status = "ACTIVE", !.paused = None,
              !.nextDay = IF hold = "NONE" THEN left ELSE None,
              !.decision = IF hold = "EVENT_REVEAL" /\ left # None /\ known THEN left ELSE @]
\* A resume that knows the pause starts the clock the pause has kept.
LEMMA ResumeClock ==
  ASSUME NEW x, Shaped(x), x.status = "PAUSED", Clocked(x), NEW hold, hold = x.hold,
         NEW known \in BOOLEAN, x.hold = "EVENT_REVEAL" => known,
         NEW left, left = IF ~x.timed THEN None ELSE IF x.paused = None THEN 0 ELSE x.paused,
         NEW y, y = Restarted(x, hold, left, known)
  PROVE  Clocked(y)
<1>1. PICK t, d : /\ t = IF hold = "NONE" THEN left ELSE None
                  /\ d = IF hold = "EVENT_REVEAL" /\ left # None /\ known
                         THEN left ELSE x.decision
  OBVIOUS
<1>2. y = [x EXCEPT !.status = "ACTIVE", !.paused = None, !.nextDay = t, !.decision = d]
  BY <1>1 DEF Restarted, Shaped, Fields
<1>3. /\ y.status = "ACTIVE" /\ y.timed = x.timed /\ y.hold = x.hold /\ y.nextDay = t
      /\ y.decision = d /\ y.paused = None
  BY <1>2 DEF Shaped, Fields
<1>4. left # None <=> x.timed
  BY SimulationConstants
<1>5. x.decision = None
  BY DEF Clocked
<1>6. t # None => x.timed /\ x.hold = "NONE"
  BY <1>1, <1>4
<1>7. d # None <=> x.timed /\ x.hold = "EVENT_REVEAL"
  BY <1>1, <1>4, <1>5
<1> QED BY <1>3, <1>6, <1>7 DEF Clocked

\* So does every request, as long as the resumes in flight know the pause.
LEMMA RequestClock ==
  ASSUME SessionSafe, Next, ResumesKnow, NEW x, x = session, Clocked(x), NEW y, y = session'
  PROVE  Clocked(y)
<1>1. Sound(x) /\ x \in Sessions /\ Shaped(x)
  BY SessionsAreShaped DEF SessionSafe, Sound
<1>2. CASE \E split \in Splits : Setup(split)
  <2>1. PICK split \in Splits : Setup(split)
    BY <1>2
  <2>2. PICK rest : rest = Budget - split
    OBVIOUS
  <2>3. /\ x.status = "BRIEFING"
        /\ y = [x EXCEPT !.status = "ACTIVE", !.current = split, !.savings = rest,
                         !.nextDay = IF x.timed THEN DayLength ELSE None]
    BY <2>1, <2>2 DEF Setup
  <2> QED BY ONLY <1>1, <2>3, Clocked(x), SetupClock
<1>3. CASE Poll
  <2>1. y = Resolve(x, FALSE)
    BY <1>3 DEF Poll, Commit
  <2> QED BY ONLY <1>1, <2>1, Clocked(x), ResolveClock
<1>4. CASE \E b \in {c \in Bills : session.bill[c] # "ABSENT"} : Pay(b)
  <2>1. PICK b \in Bills : Pay(b)
    BY <1>4
  <2>2. PICK z : z = Resolve(x, FALSE)
    OBVIOUS
  <2>3. PICK cost, rows :
          /\ z.status = "ACTIVE" /\ z.hold = "NONE"
          /\ y = AfterPaying(z, b, cost, rows)
    BY <2>1, <2>2 DEF Pay, Commit, AfterPaying
  <2>4. Clocked(z)
    BY ONLY <1>1, <2>2, Clocked(x), ResolveClock
  <2>5. Shaped(z)
    <3>1. Sound(z)
      BY ONLY <1>1, <2>2, <2>3, ResolveGoesOn
    <3> QED BY <3>1, SessionsAreShaped DEF Sound
  <2> QED BY ONLY <2>3, <2>4, <2>5, PayClock
<1>5. CASE \E e \in Revealed(session) : \E o \in Options[e] : ResolveEvent(e, o)
  <2>1. PICK e, o : ResolveEvent(e, o)
    BY <1>5
  <2>2. PICK z : z = Resolve(x, FALSE)
    OBVIOUS
  <2>3. PICK fate, cost, c, new, d, rows :
          /\ z.status = "ACTIVE"
          /\ y = Answer(z, e, fate, cost, c, new, d, rows)
    BY <2>1, <2>2 DEF ResolveEvent, Commit, Answer
  <2>4. Clocked(z)
    BY ONLY <1>1, <2>2, Clocked(x), ResolveClock
  <2>5. Shaped(z)
    <3>1. Sound(z)
      BY ONLY <1>1, <2>2, <2>3, ResolveGoesOn
    <3> QED BY <3>1, SessionsAreShaped DEF Sound
  <2>6. /\ y.status = z.status /\ y.timed = z.timed /\ y.paused = z.paused
        /\ y.hold = "EVENT_RESULT" /\ y.nextDay = None /\ y.decision = None
    BY ONLY <2>3, <2>5, DecidedClock
  <2> QED BY <2>3, <2>4, <2>6 DEF Clocked
<1>6. CASE Pause
  <2>1. PICK z : z = Resolve(x, FALSE)
    OBVIOUS
  <2>2. PICK end : end = IF z.hold = "EVENT_REVEAL" THEN z.decision ELSE z.nextDay
    OBVIOUS
  <2>3. /\ z.status = "ACTIVE" /\ z.hold \in Pausable
        /\ y = [z EXCEPT !.status = "PAUSED", !.nextDay = None,
                  !.paused = IF end = None THEN None ELSE Max({0, end}),
                  !.decision = IF z.hold = "EVENT_REVEAL" THEN None ELSE @]
    BY <1>6, <2>1, <2>2 DEF Pause, Commit
  <2>4. Clocked(z) /\ Ready(z)
    <3>1. FALSE \in BOOLEAN
      OBVIOUS
    <3> QED BY ONLY <1>1, <2>1, <3>1, Clocked(x), ResolveClock
  <2>5. z \in Sessions
    <3>1. Sound(z)
      BY ONLY <1>1, <2>1, <2>3, ResolveGoesOn
    <3> QED BY <3>1 DEF Sound
  <2> QED BY ONLY <2>2, <2>3, <2>4, <2>5, PauseClock
<1>7. CASE Discard
  <2>1. y = [x EXCEPT !.status = "ABANDONED", !.nextDay = None, !.paused = None]
    BY <1>7 DEF Discard
  <2>2. y.status = "ABANDONED"
    BY <1>1, <2>1 DEF Shaped, Fields
  <2> QED BY <2>2 DEF Clocked
<1>8. CASE \E r \in Requests : AdvanceRead(r) \/ ContinueRead(r) \/ ResumeRead(r) \/ Drop(r)
  <2>1. y = x
    BY <1>8 DEF AdvanceRead, ContinueRead, ResumeRead, Drop, Begin
  <2> QED BY <2>1
<1>9. CASE \E r \in Requests : AdvanceCommit(r)
  <2>1. y = Resolve(x, TRUE)
    BY <1>9 DEF AdvanceCommit, Commit
  <2> QED BY ONLY <1>1, <2>1, Clocked(x), ResolveClock
<1>10. CASE \E r \in Requests : ContinueCommit(r)
  <2>1. PICK r \in Requests : ContinueCommit(r)
    BY <1>10
  <2>2. PICK s, z : s = requests[r].of /\ z = Continued(x, s)
    OBVIOUS
  <2>3. /\ x.status = "ACTIVE" /\ x.hold \in Continuable
        /\ y = IF requests[r].hold = "NEW_OBLIGATION" /\ DueEvents(z) # {}
               THEN Reveal(z, FirstEvent(z)) ELSE z
    BY <2>1, <2>2 DEF ContinueCommit, Continued
  <2>4. y = z \/ \E e : y = Reveal(z, e)
    BY <2>3
  <2> QED BY ONLY <1>1, <2>2, <2>3, <2>4, Clocked(x), ContinueClock
<1>11. CASE \E r \in Requests : ResumeCommit(r)
  <2>1. PICK r \in Requests : ResumeCommit(r)
    BY <1>11
  <2>2. PICK left, hold, known :
          /\ left = Restored(requests[r]) /\ hold = requests[r].hold
          /\ known \in BOOLEAN /\ (known <=> requests[r].of \in Revealed(x))
    OBVIOUS
  <2>3. /\ requests[r].op = "resume" /\ x.status = "PAUSED"
        /\ y = Restarted(x, hold, left, known)
    BY <2>1, <2>2 DEF ResumeCommit, Restarted
  <2>4. /\ hold = x.hold /\ requests[r].paused = x.paused
        /\ x.hold = "EVENT_REVEAL" => known
    BY <2>2, <2>3 DEF ResumesKnow
  <2>5. left = IF ~x.timed THEN None ELSE IF x.paused = None THEN 0 ELSE x.paused
    BY <2>2, <2>4 DEF Restored
  <2> QED BY ONLY <1>1, <2>2, <2>3, <2>4, <2>5, Clocked(x), ResumeClock
<1>12. CASE Tick
  <2>1. /\ x.status = "ACTIVE"
        /\ y = [x EXCEPT !.nextDay = Later(@), !.decision = Later(@)]
    BY <1>12 DEF Tick
  <2> QED BY ONLY <1>1, <2>1, Clocked(x), TickClock
<1> QED BY <1>2, <1>3, <1>4, <1>5, <1>6, <1>7, <1>8, <1>9, <1>10, <1>11, <1>12 DEF Next

\* And the resumes in flight go on knowing the pause, if there is one of them.
LEMMA ResumesStay ==
  ASSUME SessionSafe, Next, OneResume, ResumesKnow
  PROVE  ResumesKnow'
<1>1. requests \in [Requests -> Asking]
  BY DEF SessionSafe
<1> SUFFICES ASSUME NEW q \in Requests, requests'[q].op = "resume"
             PROVE  /\ session'.status \in {"PAUSED", "ABANDONED"}
                    /\ session'.status = "PAUSED" =>
                         /\ requests'[q].hold = session'.hold
                         /\ requests'[q].paused = session'.paused
                         /\ session'.hold = "EVENT_REVEAL" => requests'[q].of \in Revealed(session')
  BY DEF ResumesKnow, Revealed
<1>2. CASE ResumeRead(q)
  <2>1. /\ session.status = "PAUSED" /\ session' = session
        /\ requests'[q].hold = session.hold /\ requests'[q].paused = session.paused
    BY <1>1, <1>2 DEF ResumeRead, Begin
  <2>2. session.hold = "EVENT_REVEAL" => requests'[q].of \in Revealed(session)
    <3>1. ASSUME session.hold = "EVENT_REVEAL"
          PROVE  requests'[q].of \in Revealed(session)
      <4>1. PICK e \in Events : Revealed(session) = {e} /\ Begin(q, "resume", e)
        BY <1>2, <3>1 DEF ResumeRead
      <4>2. requests'[q].of = e
        BY <1>1, <4>1 DEF Begin
      <4> QED BY <4>1, <4>2
    <3> QED BY <3>1
  <2> QED BY <2>1, <2>2
<1>3. CASE ~ResumeRead(q)
  <2>1. /\ requests'[q] = requests[q] /\ requests[q].op = "resume"
        /\ \A r \in Requests : ~ResumeCommit(r)
    <3>1. CASE UNCHANGED requests /\ \A r \in Requests : ~ResumeCommit(r)
      BY <3>1
    <3>2. ASSUME NEW r \in Requests, Finish(r)
          PROVE  requests'[q] = requests[q] /\ requests[q].op = "resume" /\ r # q
      BY <1>1, <3>2 DEF Finish, Idle
    <3>3. ASSUME NEW r \in Requests, AdvanceCommit(r) \/ ContinueCommit(r) \/ Drop(r)
          PROVE  requests'[q] = requests[q] /\ requests[q].op = "resume"
      BY <3>2, <3>3 DEF AdvanceCommit, ContinueCommit, Drop
    <3>4. ASSUME NEW r \in Requests
          PROVE  ~ResumeCommit(r)
      <4>1. SUFFICES ASSUME ResumeCommit(r) PROVE FALSE
        OBVIOUS
      <4>2. Finish(r) /\ requests[r].op = "resume"
        BY <4>1 DEF ResumeCommit
      <4>3. requests[q].op = "resume" /\ r # q
        BY <3>2, <4>2
      <4> QED BY <4>2, <4>3 DEF OneResume
    <3>5. ASSUME NEW r \in Requests, NEW op, NEW of, Begin(r, op, of), op # "resume" \/ r # q
          PROVE  requests'[q] = requests[q] /\ requests[q].op = "resume"
      BY <1>1, <3>5 DEF Begin
    <3>6. ASSUME NEW r \in Requests, AdvanceRead(r) \/ ContinueRead(r)
          PROVE  requests'[q] = requests[q] /\ requests[q].op = "resume"
      <4>1. "advance" # "resume" /\ "continue" # "resume"
        OBVIOUS
      <4>2. CASE AdvanceRead(r)
        BY <3>5, <4>1, <4>2 DEF AdvanceRead
      <4>3. CASE ContinueRead(r)
        BY <3>5, <4>1, <4>3 DEF ContinueRead
      <4> QED BY <3>6, <4>2, <4>3
    <3>7. ASSUME NEW r \in Requests, ResumeRead(r)
          PROVE  requests'[q] = requests[q] /\ requests[q].op = "resume"
      <4>1. r # q
        BY <1>3, <3>7
      <4> QED BY <3>5, <3>7, <4>1 DEF ResumeRead
    <3>8. CASE \/ \E split \in Splits : Setup(split)
               \/ Poll \/ Pause \/ Discard \/ Tick
               \/ \E b \in {c \in Bills : session.bill[c] # "ABSENT"} : Pay(b)
               \/ \E e \in Revealed(session) : \E o \in Options[e] : ResolveEvent(e, o)
      <4>1. UNCHANGED requests
        BY <3>8 DEF Setup, Poll, Pause, Discard, Tick, Pay, ResolveEvent
      <4> QED BY <3>4, <4>1
    <3> QED BY <3>3, <3>4, <3>6, <3>7, <3>8 DEF Next
  <2>2. /\ session.status \in {"PAUSED", "ABANDONED"}
        /\ session.status = "PAUSED" =>
             /\ requests[q].hold = session.hold /\ requests[q].paused = session.paused
             /\ session.hold = "EVENT_REVEAL" => requests[q].of \in Revealed(session)
    BY <2>1 DEF ResumesKnow
  <2>3. session' = session \/ session'.status = "ABANDONED"
    BY <2>1, <2>2, StoppedStays
  <2>4. CASE session' = session
    BY <2>1, <2>2, <2>4
  <2>5. CASE session'.status = "ABANDONED"
    BY <2>5
  <2> QED BY <2>3, <2>4, <2>5
<1> QED BY <1>2, <1>3

\* The day clock runs only while nothing waits for the player, a timed decision
\* has its deadline and an untimed one has none, and a pause keeps exactly the
\* clock it stopped: for any bills, events and clocks, and in every behaviour in
\* which no two resumes are in flight at once.
THEOREM ClocksFollow == Spec /\ []OneResume => []ClocksFollowHold
<1> DEFINE Safe == Clocked(session) /\ ResumesKnow
<1>1. Init => Safe
  <2> SUFFICES ASSUME Init PROVE Safe
    OBVIOUS
  <2>1. /\ session.status = "BRIEFING" /\ session.hold = "NONE" /\ session.nextDay = None
        /\ session.decision = None /\ session.paused = None
    BY DEF Init
  <2>2. \A r \in Requests : requests[r].op = "none"
    BY DEF Init, Idle
  <2> QED BY <2>1, <2>2 DEF Clocked, ResumesKnow
<1>2. SessionSafe /\ OneResume /\ Safe /\ [Next]_vars => Safe'
  <2> SUFFICES ASSUME SessionSafe, OneResume, Safe, [Next]_vars
               PROVE  Safe'
    OBVIOUS
  <2>1. CASE UNCHANGED vars
    <3>1. session' = session /\ requests' = requests
      BY <2>1 DEF vars
    <3> QED BY <3>1 DEF Clocked, ResumesKnow, Revealed
  <2>2. CASE Next
    <3>1. PICK x, y : x = session /\ y = session'
      OBVIOUS
    <3>2. Clocked(y)
      BY <2>2, <3>1, RequestClock
    <3>3. Clocked(session')
      BY <3>1, <3>2
    <3>4. ResumesKnow'
      BY <2>2, ResumesStay
    <3> QED BY <3>3, <3>4
  <2> QED BY <2>1, <2>2
<1>3. SessionSafe /\ Safe => ClocksFollowHold
  <2> SUFFICES ASSUME SessionSafe, Safe PROVE ClocksFollowHold
    OBVIOUS
  <2>1. session.timed \in BOOLEAN
    BY SessionIs, SimulationConstants DEF SessionSafe, Sound
  <2> QED BY <2>1 DEF Clocked, ClocksFollowHold
<1> QED BY <1>1, <1>2, <1>3, SessionAlways, PTL DEF Spec

-----------------------------------------------------------------------------
(* Results on the board                                                    *)

\* Nothing is on the board before the month, and no day runs behind a result.
Quiet(x) == /\ x.status = "BRIEFING" => x.hold = "NONE"
            /\ x.hold \in Results => x.nextDay = None
\* The board of a month under way shows no result.
Plain(x) == Shaped(x) /\ x.status # "BRIEFING" /\ x.hold \notin Results

\* The end of a month leaves its summary on the board.
LEMMA FinalizePlain ==
  ASSUME NEW x, Shaped(x), NEW y, y = Finalize(x)
  PROVE  Plain(y)
<1>1. PICK w : w = Miss(x, Bills) /\ KeepsClock(x, w)
  BY ClocksKept
<1>2. PICK v, rows : v = Record(w, rows) /\ KeepsClock(w, v) /\
        y = Reward([v EXCEPT !.status = "COMPLETED", !.hold = "SUMMARY",
                             !.nextDay = None, !.paused = None])
  BY <1>1, ClocksKept DEF Finalize, KeepsClock
<1>3. PICK u : u = [v EXCEPT !.status = "COMPLETED", !.hold = "SUMMARY",
                             !.nextDay = None, !.paused = None]
  OBVIOUS
<1>4. Shaped(u) /\ u.status = "COMPLETED" /\ u.hold = "SUMMARY"
  BY <1>2, <1>3 DEF KeepsClock, Shaped, Fields
<1>5. y = Reward(u)
  BY <1>2, <1>3
<1>6. Shaped(y) /\ y.status = "COMPLETED" /\ y.hold = "SUMMARY"
  BY <1>4, <1>5 DEF Reward, Shaped, Fields
<1> QED BY <1>6 DEF Plain, Results

\* A day that ends shows no result, and starts no clock in an untimed month.
LEMMA BoundaryPlain ==
  ASSUME NEW x, Shaped(x), x.status = "ACTIVE", NEW y, y = Boundary(x)
  PROVE  /\ x.hold \notin Results => Plain(y)
         /\ ~x.timed => Quiet(y)
<1>1. CASE x.day >= Days
  BY <1>1, FinalizePlain DEF Boundary, Plain, Quiet
<1>2. CASE ~(x.day >= Days)
  <2>1. PICK d, t : /\ d = x.day + 1
                    /\ t = IF ~x.timed THEN None
                           ELSE IF x.nextDay = None THEN DayLength ELSE x.nextDay + DayLength
    OBVIOUS
  <2>2. PICK w : w = [x EXCEPT !.day = d, !.nextDay = t]
    OBVIOUS
  <2>3. y = StopForDay(w)
    <3>1. w = [x EXCEPT !.day = @ + 1, !.nextDay = IF ~x.timed THEN None
                                                  ELSE IF @ = None THEN DayLength
                                                  ELSE @ + DayLength]
      BY <2>1, <2>2 DEF Shaped, Fields
    <3> QED BY <1>2, <3>1 DEF Boundary
  <2>4. Shaped(w) /\ w.status = "ACTIVE" /\ w.hold = x.hold /\ w.nextDay = t
    BY <2>2 DEF Shaped, Fields
  <2>5. /\ Shaped(y) /\ y.status = "ACTIVE"
        /\ \/ y.hold = "NEW_OBLIGATION" \/ y.hold = "EVENT_REVEAL"
           \/ y.hold = x.hold /\ y.nextDay = t
    BY ONLY <2>3, <2>4, DayClock
  <2>6. ~x.timed => t = None
    BY <2>1
  <2> QED BY <2>5, <2>6 DEF Plain, Quiet, Results
<1> QED BY <1>1, <1>2

\* No result appears in the days a board has slept.
LEMMA CatchUpPlain ==
  ASSUME NEW x, Plain(x), x \in Sessions, x.status = "ACTIVE", Sound(x), ~Stops(x),
         Revealed(x) = {}, NEW y, y = CatchUp(x)
  PROVE  Plain(y)
<1> DEFINE S == {z \in Sessions : /\ Plain(z) /\ Sound(z)
                                  /\ z.nextDay # None => /\ z.status = "ACTIVE"
                                                         /\ Revealed(z) = {} /\ ~Stops(z)}
<1>1. x \in S
  OBVIOUS
<1>2. ASSUME NEW z \in S
      PROVE  DayStep(z) \in S
  <2>1. CASE ~(z.nextDay # None /\ z.nextDay <= 0)
    BY <2>1 DEF DayStep
  <2>2. CASE z.nextDay # None /\ z.nextDay <= 0
    <3>1. PICK u : u = Boundary(z) /\ u = DayStep(z)
      BY <2>2 DEF DayStep
    <3>2. /\ Sound(z) /\ Plain(z) /\ z.status = "ACTIVE" /\ Revealed(z) = {} /\ ~Stops(z)
      BY <2>2
    <3>3. /\ Sound(u)
          /\ \/ Closes(z, u) /\ u.nextDay = None
             \/ /\ u.status = "ACTIVE" /\ Passes(z, u)
                /\ u.nextDay # None => Runs(z, u) /\ ~Stops(u) /\ Revealed(u) = {}
      BY <2>2, <3>1, <3>2, BoundaryIs
    <3>4. Plain(u)
      BY <3>1, <3>2, BoundaryPlain DEF Plain
    <3>5. u \in Sessions
      BY <3>3 DEF Sound
    <3>6. u.nextDay # None => u.status = "ACTIVE" /\ Revealed(u) = {} /\ ~Stops(u)
      BY <3>3
    <3> QED BY <3>1, <3>3, <3>4, <3>5, <3>6
  <2> QED BY <2>1, <2>2
<1>3. y \in S
  <2> HIDE DEF S
  <2> QED BY <1>1, <1>2, CatchUpIn
<1> QED BY <1>3

\* Days on end are no days while no deadline runs.
LEMMA CatchUpStill ==
  ASSUME NEW x, x.nextDay = None, NEW y, y = CatchUp(x)
  PROVE  y = x
<1>1. \A z \in {x} : DayStep(z) \in {x}
  BY DEF DayStep
<1>2. y \in {x}
  BY <1>1, CatchUpIn
<1> QED BY <1>2

\* The transition starts no day behind a result, and by itself it leaves the
\* day of a board with a result.
LEMMA ResolveQuiet ==
  ASSUME NEW x, Sound(x), Quiet(x), NEW manual \in BOOLEAN, NEW y, y = Resolve(x, manual)
  PROVE  /\ Quiet(y)
         /\ x.hold \in Results /\ ~manual => y.day = x.day /\ y.hold # "NONE"
<1>1. x \in Sessions /\ Shaped(x) /\ Asked(x) /\ Calendar(x) /\ Prized(x) /\ Booked(x)
      /\ Funded(x)
  BY SessionsAreShaped DEF Sound
<1>2. CASE y = x
  BY <1>2 DEF Results
<1>3. CASE x.status = "COMPLETED"
  <2>1. x.rewarded
    BY <1>1, <1>3 DEF Prized
  <2>2. y = x
    BY <1>3, <2>1 DEF Resolve, Reward
  <2> QED BY <1>2, <2>2
<1>4. CASE x.status # "COMPLETED" /\ (x.status # "ACTIVE" \/ x.hold = "NEW_OBLIGATION")
  <2>1. y = x
    BY <1>4 DEF Resolve
  <2> QED BY <1>2, <2>1
<1>5. CASE x.status = "ACTIVE" /\ x.hold # "NEW_OBLIGATION" /\ Revealed(x) # {}
  <2>1. y = IF TimeIsUp(x) THEN Expire(x, CHOOSE e \in Revealed(x) : TRUE) ELSE x
    BY <1>5 DEF Resolve
  <2>2. x.hold \notin Results
    BY <1>1, <1>5 DEF Asked, Results
  <2>3. CASE TimeIsUp(x)
    <3>1. PICK e : y = Expire(x, e)
      BY <2>1, <2>3
    <3>2. PICK o : o = Expiry[e]
      OBVIOUS
    <3>3. PICK c, rows : y = Answer(x, e, "EXPIRED", o.cost, c, o.bills, x.day, rows)
      BY <3>1, <3>2 DEF Expire, Answer
    <3>4. y.status = x.status /\ y.nextDay = None
      BY ONLY <1>1, <3>3, DecidedClock
    <3> QED BY <1>5, <2>2, <3>4 DEF Quiet
  <2> QED BY <1>2, <2>1, <2>3
<1>6. CASE x.status = "ACTIVE" /\ x.hold # "NEW_OBLIGATION" /\ Revealed(x) = {}
  <2>1. Dawn(x)
    BY <1>1, <1>6 DEF Dawn
  <2>2. PICK z : z = StopForDay(x)
    OBVIOUS
  <2>3. /\ Sound(z) /\ z.status = "ACTIVE" /\ z.timed = x.timed /\ z.day = x.day
        /\ ~Stops(x) => Runs(x, z) /\ ~Stops(z)
    BY <2>1, <2>2, DayBreaks
  <2>4. /\ Shaped(z)
        /\ \/ Stops(x) /\ z.hold = "NEW_OBLIGATION"
           \/ Stops(x) /\ z.hold = "EVENT_REVEAL"
           \/ ~Stops(x) /\ z.hold = x.hold /\ z.nextDay = x.nextDay
    BY ONLY <1>1, <2>2, DayClock
  <2>5. Quiet(z) /\ (x.hold \in Results => z.hold # "NONE")
    BY <2>3, <2>4 DEF Quiet, Results
  <2>6. y = IF Stops(x) THEN z
            ELSE IF x.timed /\ x.nextDay = None /\ x.hold = "NONE"
            THEN [z EXCEPT !.nextDay = DayLength]
            ELSE IF x.timed THEN (IF manual THEN z ELSE CatchUp(z))
            ELSE IF manual THEN Boundary(z) ELSE z
    BY <1>6, <2>2 DEF Resolve
  <2>7. CASE y = z
    BY <2>3, <2>5, <2>7
  <2>8. CASE ~Stops(x) /\ x.timed /\ x.nextDay = None /\ x.hold = "NONE"
    <3>1. y = [z EXCEPT !.nextDay = DayLength]
      BY <2>6, <2>8
    <3>2. y.status = z.status /\ y.hold = z.hold
      BY <2>4, <3>1 DEF Shaped, Fields
    <3> QED BY <2>3, <2>4, <2>8, <3>2 DEF Quiet, Results
  <2>9. CASE ~Stops(x) /\ x.timed /\ ~manual /\ y = CatchUp(z)
    <3>1. CASE x.hold \in Results
      <4>1. z.nextDay = None
        BY <2>4, <2>9, <3>1 DEF Quiet
      <4> QED BY <2>7, <2>9, <4>1, CatchUpStill
    <3>2. CASE x.hold \notin Results
      <4>1. Plain(z) /\ ~Stops(z) /\ Revealed(z) = {} /\ z \in Sessions
        BY <1>6, <2>3, <2>4, <2>9, <3>2 DEF Plain, Runs, Revealed, Sound
      <4>2. Plain(y)
        BY <2>3, <2>9, <4>1, CatchUpPlain
      <4> QED BY <3>2, <4>2 DEF Plain, Quiet
    <3> QED BY <3>1, <3>2
  <2>10. CASE ~Stops(x) /\ ~x.timed /\ manual /\ y = Boundary(z)
    <3>1. Quiet(y)
      BY <2>3, <2>4, <2>10, BoundaryPlain
    <3> QED BY <2>10, <3>1
  <2> QED BY <2>6, <2>7, <2>8, <2>9, <2>10
<1> QED BY <1>3, <1>4, <1>5, <1>6

\* Every request keeps the day still behind a result.
LEMMA RequestQuiet ==
  ASSUME SessionSafe, Next, NEW x, x = session, Quiet(x), NEW y, y = session'
  PROVE  Quiet(y)
<1>1. Sound(x) /\ x \in Sessions /\ Shaped(x)
  BY SessionsAreShaped DEF SessionSafe, Sound
<1>2. CASE \E split \in Splits : Setup(split)
  <2>1. PICK split \in Splits : Setup(split)
    BY <1>2
  <2>2. PICK rest, t : rest = Budget - split /\ t = IF x.timed THEN DayLength ELSE None
    OBVIOUS
  <2>3. /\ x.status = "BRIEFING"
        /\ y = [x EXCEPT !.status = "ACTIVE", !.current = split, !.savings = rest,
                         !.nextDay = t]
    BY <2>1, <2>2 DEF Setup
  <2>4. y.status = "ACTIVE" /\ y.hold = x.hold
    BY <1>1, <2>3 DEF Shaped, Fields
  <2> QED BY <2>3, <2>4 DEF Quiet, Results
<1>3. CASE Poll \/ \E r \in Requests : AdvanceCommit(r)
  <2>1. PICK manual \in BOOLEAN : y = Resolve(x, manual)
    BY <1>3 DEF Poll, AdvanceCommit, Commit
  <2> QED BY ONLY <1>1, <2>1, Quiet(x), ResolveQuiet
<1>4. CASE \E b \in {c \in Bills : session.bill[c] # "ABSENT"} : Pay(b)
  <2>1. PICK b \in Bills : Pay(b)
    BY <1>4
  <2>2. PICK z : z = Resolve(x, FALSE)
    OBVIOUS
  <2>3. PICK cost, rows : z.status = "ACTIVE" /\ y = AfterPaying(z, b, cost, rows)
    BY <2>1, <2>2 DEF Pay, Commit, AfterPaying
  <2>4. Shaped(z)
    <3>1. Sound(z)
      BY ONLY <1>1, <2>2, <2>3, ResolveGoesOn
    <3> QED BY <3>1, SessionsAreShaped DEF Sound
  <2>5. y.status = z.status /\ y.nextDay = None
    BY ONLY <2>3, <2>4, PaidClock
  <2> QED BY <2>3, <2>5 DEF Quiet
<1>5. CASE \E e \in Revealed(session) : \E o \in Options[e] : ResolveEvent(e, o)
  <2>1. PICK e, o : ResolveEvent(e, o)
    BY <1>5
  <2>2. PICK z : z = Resolve(x, FALSE)
    OBVIOUS
  <2>3. PICK fate, cost, c, new, d, rows :
          /\ z.status = "ACTIVE"
          /\ y = Answer(z, e, fate, cost, c, new, d, rows)
    BY <2>1, <2>2 DEF ResolveEvent, Commit, Answer
  <2>4. Shaped(z)
    <3>1. Sound(z)
      BY ONLY <1>1, <2>2, <2>3, ResolveGoesOn
    <3> QED BY <3>1, SessionsAreShaped DEF Sound
  <2>5. y.status = z.status /\ y.nextDay = None
    BY ONLY <2>3, <2>4, DecidedClock
  <2> QED BY <2>3, <2>5 DEF Quiet
<1>6. CASE Pause
  <2>1. PICK z : z = Resolve(x, FALSE)
    OBVIOUS
  <2>2. PICK p, d : /\ z.status = "ACTIVE"
                    /\ y = [z EXCEPT !.status = "PAUSED", !.nextDay = None, !.paused = p,
                                     !.decision = d]
    <3>1. PICK end, d : /\ end = IF z.hold = "EVENT_REVEAL" THEN z.decision ELSE z.nextDay
                        /\ d = IF z.hold = "EVENT_REVEAL" THEN None ELSE z.decision
      OBVIOUS
    <3>2. PICK p : p = IF end = None THEN None ELSE Max({0, end})
      OBVIOUS
    <3>3. /\ z.status = "ACTIVE"
          /\ y = [z EXCEPT !.status = "PAUSED", !.nextDay = None,
                    !.paused = IF end = None THEN None ELSE Max({0, end}),
                    !.decision = IF z.hold = "EVENT_REVEAL" THEN None ELSE @]
      BY <1>6, <2>1, <3>1 DEF Pause, Commit
    <3>4. Shaped(z)
      <4>1. Sound(z)
        BY ONLY <1>1, <2>1, <3>3, ResolveGoesOn
      <4> QED BY <4>1, SessionsAreShaped DEF Sound
    <3>5. y = [z EXCEPT !.status = "PAUSED", !.nextDay = None, !.paused = p, !.decision = d]
      BY ONLY <3>1, <3>2, <3>3, <3>4 DEF Shaped, Fields
    <3> QED BY <3>3, <3>5
  <2>3. Shaped(z)
    <3>1. Sound(z)
      BY ONLY <1>1, <2>1, <2>2, ResolveGoesOn
    <3> QED BY <3>1, SessionsAreShaped DEF Sound
  <2>4. y.status = "PAUSED" /\ y.nextDay = None
    BY ONLY <2>2, <2>3 DEF Shaped, Fields
  <2> QED BY <2>4 DEF Quiet
<1>7. CASE Discard
  <2>1. y = [x EXCEPT !.status = "ABANDONED", !.nextDay = None, !.paused = None]
    BY <1>7 DEF Discard
  <2>2. y.status = "ABANDONED" /\ y.nextDay = None
    BY <1>1, <2>1 DEF Shaped, Fields
  <2> QED BY <2>2 DEF Quiet
<1>8. CASE \E r \in Requests : AdvanceRead(r) \/ ContinueRead(r) \/ ResumeRead(r) \/ Drop(r)
  <2>1. y = x
    BY <1>8 DEF AdvanceRead, ContinueRead, ResumeRead, Drop, Begin
  <2> QED BY <2>1
<1>9. CASE \E r \in Requests : ContinueCommit(r)
  <2>1. PICK r \in Requests : ContinueCommit(r)
    BY <1>9
  <2>2. PICK s, z : s = requests[r].of /\ z = Continued(x, s)
    OBVIOUS
  <2>3. /\ x.status = "ACTIVE"
        /\ y = IF requests[r].hold = "NEW_OBLIGATION" /\ DueEvents(z) # {}
               THEN Reveal(z, FirstEvent(z)) ELSE z
    BY <2>1, <2>2 DEF ContinueCommit, Continued
  <2>4. PICK i, t : z = [x EXCEPT !.intro = i, !.hold = "NONE", !.nextDay = t]
    BY <2>2 DEF Continued, Acknowledge
  <2>5. Shaped(z) /\ z.status = x.status /\ z.hold = "NONE"
    BY <1>1, <2>4 DEF Shaped, Fields
  <2>6. y = z \/ \E e : y = Reveal(z, e)
    BY <2>3
  <2>7. y.status = "ACTIVE" /\ y.hold \in {"NONE", "EVENT_REVEAL"}
    BY ONLY <2>3, <2>5, <2>6, x.status = "ACTIVE", StopsClock
  <2> QED BY <2>7 DEF Quiet, Results
<1>10. CASE \E r \in Requests : ResumeCommit(r)
  <2>1. PICK r \in Requests : ResumeCommit(r)
    BY <1>10
  <2>2. PICK left, hold, known : y = Restarted(x, hold, left, known) /\ x.hold \in Pausable
    BY <2>1 DEF ResumeCommit, Restarted
  <2>3. PICK t, d : y = [x EXCEPT !.status = "ACTIVE", !.paused = None, !.nextDay = t,
                                  !.decision = d]
    BY <2>2 DEF Restarted
  <2>4. y.status = "ACTIVE" /\ y.hold = x.hold
    BY <1>1, <2>3 DEF Shaped, Fields
  <2> QED BY <2>2, <2>4 DEF Quiet, Pausable, Results
<1>11. CASE Tick
  <2>1. PICK d : y = [x EXCEPT !.nextDay = Later(x.nextDay), !.decision = d]
    BY <1>11 DEF Tick
  <2>2. y.status = x.status /\ y.hold = x.hold /\ y.nextDay = Later(x.nextDay)
    BY <1>1, <2>1 DEF Shaped, Fields
  <2> QED BY <2>2 DEF Quiet, Later
<1> QED BY <1>2, <1>3, <1>4, <1>5, <1>6, <1>7, <1>8, <1>9, <1>10, <1>11 DEF Next

\* Every advance in flight still finds the board free of results.
AdvancesAreCurrent == \A r \in Requests :
    requests[r].op = "advance" => session.hold \notin Results

\* Behind a result, a request other than an advance leaves the day as it is.
LEMMA ResultsHoldTheDay ==
  ASSUME SessionSafe, AdvancesAreCurrent, Next, NEW x, x = session, Quiet(x),
         x.hold \in Results, NEW y, y = session'
  PROVE  y.day = x.day
<1>1. Sound(x) /\ x \in Sessions /\ Shaped(x) /\ Asked(x)
  BY SessionsAreShaped DEF SessionSafe, Sound
<1>2. x.status # "BRIEFING"
  BY DEF Quiet, Results
<1>3. PICK z : z = Resolve(x, FALSE)
  OBVIOUS
<1>4. z.day = x.day /\ z.hold # "NONE"
  <2>1. FALSE \in BOOLEAN
    OBVIOUS
  <2> QED BY ONLY <1>1, <1>3, <2>1, Quiet(x), x.hold \in Results, ResolveQuiet
<1>5. CASE \E split \in Splits : Setup(split)
  BY <1>2, <1>5 DEF Setup
<1>6. CASE Poll
  BY <1>3, <1>4, <1>6 DEF Poll, Commit
<1>7. CASE \E b \in {c \in Bills : session.bill[c] # "ABSENT"} : Pay(b)
  BY <1>3, <1>4, <1>7 DEF Pay
<1>8. CASE \E e \in Revealed(session) : \E o \in Options[e] : ResolveEvent(e, o)
  BY <1>1, <1>8 DEF Asked, Results
<1>9. CASE Pause
  <2>1. PICK p, d : /\ z.status = "ACTIVE"
                    /\ y = [z EXCEPT !.status = "PAUSED", !.nextDay = None, !.paused = p,
                                     !.decision = d]
    <3>1. PICK end, d : /\ end = IF z.hold = "EVENT_REVEAL" THEN z.decision ELSE z.nextDay
                        /\ d = IF z.hold = "EVENT_REVEAL" THEN None ELSE z.decision
      OBVIOUS
    <3>2. PICK p : p = IF end = None THEN None ELSE Max({0, end})
      OBVIOUS
    <3>3. /\ z.status = "ACTIVE"
          /\ y = [z EXCEPT !.status = "PAUSED", !.nextDay = None,
                    !.paused = IF end = None THEN None ELSE Max({0, end}),
                    !.decision = IF z.hold = "EVENT_REVEAL" THEN None ELSE @]
      BY <1>3, <1>9, <3>1 DEF Pause, Commit
    <3>4. Shaped(z)
      <4>1. Sound(z)
        BY ONLY <1>1, <1>3, <3>3, ResolveGoesOn
      <4> QED BY <4>1, SessionsAreShaped DEF Sound
    <3>5. y = [z EXCEPT !.status = "PAUSED", !.nextDay = None, !.paused = p, !.decision = d]
      BY ONLY <3>1, <3>2, <3>3, <3>4 DEF Shaped, Fields
    <3> QED BY <3>3, <3>5
  <2>2. Shaped(z)
    <3>1. Sound(z)
      BY ONLY <1>1, <1>3, <2>1, ResolveGoesOn
    <3> QED BY <3>1, SessionsAreShaped DEF Sound
  <2>3. y.day = z.day
    BY ONLY <2>1, <2>2 DEF Shaped, Fields
  <2> QED BY <1>4, <2>3
<1>10. CASE Discard
  <2>1. y = [x EXCEPT !.status = "ABANDONED", !.nextDay = None, !.paused = None]
    BY <1>10 DEF Discard
  <2> QED BY <1>1, <2>1 DEF Shaped, Fields
<1>11. CASE \E r \in Requests : AdvanceRead(r) \/ ContinueRead(r) \/ ResumeRead(r) \/ Drop(r)
  BY <1>11 DEF AdvanceRead, ContinueRead, ResumeRead, Drop, Begin
<1>12. CASE \E r \in Requests : AdvanceCommit(r)
  BY <1>12 DEF AdvanceCommit, AdvancesAreCurrent
<1>13. CASE \E r \in Requests : ContinueCommit(r)
  <2>1. PICK r \in Requests : ContinueCommit(r)
    BY <1>13
  <2>2. PICK s, w : s = requests[r].of /\ w = Continued(x, s)
    OBVIOUS
  <2>3. y = IF requests[r].hold = "NEW_OBLIGATION" /\ DueEvents(w) # {}
            THEN Reveal(w, FirstEvent(w)) ELSE w
    BY <2>1, <2>2 DEF ContinueCommit, Continued
  <2>4. PICK i, t : w = [x EXCEPT !.intro = i, !.hold = "NONE", !.nextDay = t]
    BY <2>2 DEF Continued, Acknowledge
  <2>5. Shaped(w) /\ w.day = x.day
    BY <1>1, <2>4 DEF Shaped, Fields
  <2>6. \A e : Reveal(w, e).day = w.day
    BY <2>5 DEF Reveal, Shaped, Fields
  <2> QED BY <2>3, <2>5, <2>6
<1>14. CASE \E r \in Requests : ResumeCommit(r)
  BY <1>14 DEF ResumeCommit, Pausable, Results
<1>15. CASE Tick
  <2>1. PICK t, d : y = [x EXCEPT !.nextDay = t, !.decision = d]
    BY <1>15 DEF Tick
  <2> QED BY <1>1, <2>1 DEF Shaped, Fields
<1> QED BY <1>5, <1>6, <1>7, <1>8, <1>9, <1>10, <1>11, <1>12, <1>13, <1>14, <1>15 DEF Next

\* What waits for the player is not passed over as long as no manual advance
\* commits on a session that has changed since it was read: however polls,
\* pauses, payments and overlapping requests mix, nothing but a stale advance
\* lets a day go by behind a result (assertManualAdvanceAllowed).
THEOREM CurrentAdvancesHoldTheDay == Spec /\ []AdvancesAreCurrent => PendingHoldsTheDay
<1>1. Init => Quiet(session)
  BY DEF Init, Quiet, Results
<1>2. SessionSafe /\ Quiet(session) /\ [Next]_vars => Quiet(session)'
  <2> SUFFICES ASSUME SessionSafe, Quiet(session), [Next]_vars
               PROVE  Quiet(session')
    OBVIOUS
  <2>1. PICK x, y : x = session /\ y = session'
    OBVIOUS
  <2>2. CASE UNCHANGED vars
    BY <2>2 DEF vars
  <2>3. CASE Next
    BY <2>1, <2>3, RequestQuiet
  <2> QED BY <2>2, <2>3
<1>3. SessionSafe /\ Quiet(session) /\ AdvancesAreCurrent /\ [Next]_vars
        => [session.hold \in Results => session'.day = session.day]_vars
  <2> SUFFICES ASSUME SessionSafe, Quiet(session), AdvancesAreCurrent, Next,
                      session.hold \in Results
               PROVE  session'.day = session.day
    OBVIOUS
  <2>1. PICK x, y : x = session /\ y = session'
    OBVIOUS
  <2>2. y.day = x.day
    BY <2>1, ResultsHoldTheDay
  <2> QED BY <2>1, <2>2
<1> QED BY <1>1, <1>2, <1>3, SessionAlways, PTL DEF Spec, PendingHoldsTheDay

-----------------------------------------------------------------------------
(* The drawing of a month: the catalogue                                   *)

Templates == DOMAIN ObligationTemplates

\* The seeded templates.
LEMMA TemplatesAre ==
  /\ Templates = {"rent", "groceries", "transport", "electricity", "phone", "internet",
                  "medical_aid", "debt", "car_repair", "medical_plan", "family_loan",
                  "home_repair", "friend_iou"}
  /\ ObligationTemplates["rent"] = Template(1800, 3, FALSE)
  /\ ObligationTemplates["groceries"] = Template(650, 5, FALSE)
  /\ ObligationTemplates["transport"] = Template(450, 7, FALSE)
  /\ ObligationTemplates["electricity"] = Template(420, 9, FALSE)
  /\ ObligationTemplates["phone"] = Template(250, 11, FALSE)
  /\ ObligationTemplates["internet"] = Template(400, 14, FALSE)
  /\ ObligationTemplates["medical_aid"] = Template(550, 15, FALSE)
  /\ ObligationTemplates["debt"] = Template(600, 19, FALSE)
  /\ ObligationTemplates["car_repair"] = Template(500, 25, TRUE)
  /\ ObligationTemplates["medical_plan"] = Template(450, 26, TRUE)
  /\ ObligationTemplates["family_loan"] = Template(350, 27, TRUE)
  /\ ObligationTemplates["home_repair"] = Template(550, 28, TRUE)
  /\ ObligationTemplates["friend_iou"] = Template(100, 18, FALSE)
<1>1. DOMAIN Essentials = {"rent", "groceries", "transport", "electricity", "phone", "internet",
                           "medical_aid"}
  BY DEF Essentials
<1>2. DOMAIN Debts = {"debt", "car_repair", "medical_plan", "family_loan", "home_repair",
                      "friend_iou"}
  BY DEF Debts
<1>3. Templates = {"rent", "groceries", "transport", "electricity", "phone", "internet",
                  "medical_aid", "debt", "car_repair", "medical_plan", "family_loan",
                  "home_repair", "friend_iou"}
  BY <1>1, <1>2 DEF Templates, ObligationTemplates
<1>4. ObligationTemplates["rent"] = Template(1800, 3, FALSE)
  <2>1. ObligationTemplates["rent"] = Essentials["rent"]
    BY <1>1 DEF ObligationTemplates
  <2>2. Essentials["rent"] = Template(1800, 3, FALSE)
    BY DEF Essentials
  <2> QED BY ONLY <2>1, <2>2
<1>5. ObligationTemplates["groceries"] = Template(650, 5, FALSE)
  <2>1. ObligationTemplates["groceries"] = Essentials["groceries"]
    BY <1>1 DEF ObligationTemplates
  <2>2. Essentials["groceries"] = Template(650, 5, FALSE)
    BY DEF Essentials
  <2> QED BY ONLY <2>1, <2>2
<1>6. ObligationTemplates["transport"] = Template(450, 7, FALSE)
  <2>1. ObligationTemplates["transport"] = Essentials["transport"]
    BY <1>1 DEF ObligationTemplates
  <2>2. Essentials["transport"] = Template(450, 7, FALSE)
    BY DEF Essentials
  <2> QED BY ONLY <2>1, <2>2
<1>7. ObligationTemplates["electricity"] = Template(420, 9, FALSE)
  <2>1. ObligationTemplates["electricity"] = Essentials["electricity"]
    BY <1>1 DEF ObligationTemplates
  <2>2. Essentials["electricity"] = Template(420, 9, FALSE)
    BY DEF Essentials
  <2> QED BY ONLY <2>1, <2>2
<1>8. ObligationTemplates["phone"] = Template(250, 11, FALSE)
  <2>1. ObligationTemplates["phone"] = Essentials["phone"]
    BY <1>1 DEF ObligationTemplates
  <2>2. Essentials["phone"] = Template(250, 11, FALSE)
    BY DEF Essentials
  <2> QED BY ONLY <2>1, <2>2
<1>9. ObligationTemplates["internet"] = Template(400, 14, FALSE)
  <2>1. ObligationTemplates["internet"] = Essentials["internet"]
    BY <1>1 DEF ObligationTemplates
  <2>2. Essentials["internet"] = Template(400, 14, FALSE)
    BY DEF Essentials
  <2> QED BY ONLY <2>1, <2>2
<1>10. ObligationTemplates["medical_aid"] = Template(550, 15, FALSE)
  <2>1. ObligationTemplates["medical_aid"] = Essentials["medical_aid"]
    BY <1>1 DEF ObligationTemplates
  <2>2. Essentials["medical_aid"] = Template(550, 15, FALSE)
    BY DEF Essentials
  <2> QED BY ONLY <2>1, <2>2
<1>11. ObligationTemplates["debt"] = Template(600, 19, FALSE)
  <2>1. ObligationTemplates["debt"] = Debts["debt"]
    BY <1>1, <1>2 DEF ObligationTemplates
  <2>2. Debts["debt"] = Template(600, 19, FALSE)
    BY DEF Debts
  <2> QED BY ONLY <2>1, <2>2
<1>12. ObligationTemplates["car_repair"] = Template(500, 25, TRUE)
  <2>1. ObligationTemplates["car_repair"] = Debts["car_repair"]
    BY <1>1, <1>2 DEF ObligationTemplates
  <2>2. Debts["car_repair"] = Template(500, 25, TRUE)
    BY DEF Debts
  <2> QED BY ONLY <2>1, <2>2
<1>13. ObligationTemplates["medical_plan"] = Template(450, 26, TRUE)
  <2>1. ObligationTemplates["medical_plan"] = Debts["medical_plan"]
    BY <1>1, <1>2 DEF ObligationTemplates
  <2>2. Debts["medical_plan"] = Template(450, 26, TRUE)
    BY DEF Debts
  <2> QED BY ONLY <2>1, <2>2
<1>14. ObligationTemplates["family_loan"] = Template(350, 27, TRUE)
  <2>1. ObligationTemplates["family_loan"] = Debts["family_loan"]
    BY <1>1, <1>2 DEF ObligationTemplates
  <2>2. Debts["family_loan"] = Template(350, 27, TRUE)
    BY DEF Debts
  <2> QED BY ONLY <2>1, <2>2
<1>15. ObligationTemplates["home_repair"] = Template(550, 28, TRUE)
  <2>1. ObligationTemplates["home_repair"] = Debts["home_repair"]
    BY <1>1, <1>2 DEF ObligationTemplates
  <2>2. Debts["home_repair"] = Template(550, 28, TRUE)
    BY DEF Debts
  <2> QED BY ONLY <2>1, <2>2
<1>16. ObligationTemplates["friend_iou"] = Template(100, 18, FALSE)
  <2>1. ObligationTemplates["friend_iou"] = Debts["friend_iou"]
    BY <1>1, <1>2 DEF ObligationTemplates
  <2>2. Debts["friend_iou"] = Template(100, 18, FALSE)
    BY DEF Debts
  <2> QED BY ONLY <2>1, <2>2
<1> QED BY ONLY <1>3, <1>4, <1>5, <1>6, <1>7, <1>8, <1>9, <1>10, <1>11, <1>12, <1>13, <1>14, <1>15, <1>16

\* Their amounts.
LEMMA AmountsAre ==
  /\ Amounts["rent"] = 1800
  /\ Amounts["groceries"] = 650
  /\ Amounts["transport"] = 450
  /\ Amounts["electricity"] = 420
  /\ Amounts["phone"] = 250
  /\ Amounts["internet"] = 400
  /\ Amounts["medical_aid"] = 550
  /\ Amounts["debt"] = 600
  /\ Amounts["car_repair"] = 500
  /\ Amounts["medical_plan"] = 450
  /\ Amounts["family_loan"] = 350
  /\ Amounts["home_repair"] = 550
  /\ Amounts["friend_iou"] = 100
<1>1. Templates = {"rent", "groceries", "transport", "electricity", "phone", "internet",
                  "medical_aid", "debt", "car_repair", "medical_plan", "family_loan",
                  "home_repair", "friend_iou"}
  BY TemplatesAre
<1>2. Amounts["rent"] = 1800
  <2>1. Amounts["rent"] = ObligationTemplates["rent"].amount
    BY <1>1 DEF Amounts, Templates
  <2>2. ObligationTemplates["rent"] = Template(1800, 3, FALSE)
    BY TemplatesAre
  <2> QED BY ONLY <2>1, <2>2 DEF Template
<1>3. Amounts["groceries"] = 650
  <2>1. Amounts["groceries"] = ObligationTemplates["groceries"].amount
    BY <1>1 DEF Amounts, Templates
  <2>2. ObligationTemplates["groceries"] = Template(650, 5, FALSE)
    BY TemplatesAre
  <2> QED BY ONLY <2>1, <2>2 DEF Template
<1>4. Amounts["transport"] = 450
  <2>1. Amounts["transport"] = ObligationTemplates["transport"].amount
    BY <1>1 DEF Amounts, Templates
  <2>2. ObligationTemplates["transport"] = Template(450, 7, FALSE)
    BY TemplatesAre
  <2> QED BY ONLY <2>1, <2>2 DEF Template
<1>5. Amounts["electricity"] = 420
  <2>1. Amounts["electricity"] = ObligationTemplates["electricity"].amount
    BY <1>1 DEF Amounts, Templates
  <2>2. ObligationTemplates["electricity"] = Template(420, 9, FALSE)
    BY TemplatesAre
  <2> QED BY ONLY <2>1, <2>2 DEF Template
<1>6. Amounts["phone"] = 250
  <2>1. Amounts["phone"] = ObligationTemplates["phone"].amount
    BY <1>1 DEF Amounts, Templates
  <2>2. ObligationTemplates["phone"] = Template(250, 11, FALSE)
    BY TemplatesAre
  <2> QED BY ONLY <2>1, <2>2 DEF Template
<1>7. Amounts["internet"] = 400
  <2>1. Amounts["internet"] = ObligationTemplates["internet"].amount
    BY <1>1 DEF Amounts, Templates
  <2>2. ObligationTemplates["internet"] = Template(400, 14, FALSE)
    BY TemplatesAre
  <2> QED BY ONLY <2>1, <2>2 DEF Template
<1>8. Amounts["medical_aid"] = 550
  <2>1. Amounts["medical_aid"] = ObligationTemplates["medical_aid"].amount
    BY <1>1 DEF Amounts, Templates
  <2>2. ObligationTemplates["medical_aid"] = Template(550, 15, FALSE)
    BY TemplatesAre
  <2> QED BY ONLY <2>1, <2>2 DEF Template
<1>9. Amounts["debt"] = 600
  <2>1. Amounts["debt"] = ObligationTemplates["debt"].amount
    BY <1>1 DEF Amounts, Templates
  <2>2. ObligationTemplates["debt"] = Template(600, 19, FALSE)
    BY TemplatesAre
  <2> QED BY ONLY <2>1, <2>2 DEF Template
<1>10. Amounts["car_repair"] = 500
  <2>1. Amounts["car_repair"] = ObligationTemplates["car_repair"].amount
    BY <1>1 DEF Amounts, Templates
  <2>2. ObligationTemplates["car_repair"] = Template(500, 25, TRUE)
    BY TemplatesAre
  <2> QED BY ONLY <2>1, <2>2 DEF Template
<1>11. Amounts["medical_plan"] = 450
  <2>1. Amounts["medical_plan"] = ObligationTemplates["medical_plan"].amount
    BY <1>1 DEF Amounts, Templates
  <2>2. ObligationTemplates["medical_plan"] = Template(450, 26, TRUE)
    BY TemplatesAre
  <2> QED BY ONLY <2>1, <2>2 DEF Template
<1>12. Amounts["family_loan"] = 350
  <2>1. Amounts["family_loan"] = ObligationTemplates["family_loan"].amount
    BY <1>1 DEF Amounts, Templates
  <2>2. ObligationTemplates["family_loan"] = Template(350, 27, TRUE)
    BY TemplatesAre
  <2> QED BY ONLY <2>1, <2>2 DEF Template
<1>13. Amounts["home_repair"] = 550
  <2>1. Amounts["home_repair"] = ObligationTemplates["home_repair"].amount
    BY <1>1 DEF Amounts, Templates
  <2>2. ObligationTemplates["home_repair"] = Template(550, 28, TRUE)
    BY TemplatesAre
  <2> QED BY ONLY <2>1, <2>2 DEF Template
<1>14. Amounts["friend_iou"] = 100
  <2>1. Amounts["friend_iou"] = ObligationTemplates["friend_iou"].amount
    BY <1>1 DEF Amounts, Templates
  <2>2. ObligationTemplates["friend_iou"] = Template(100, 18, FALSE)
    BY TemplatesAre
  <2> QED BY ONLY <2>1, <2>2 DEF Template
<1> QED BY ONLY <1>2, <1>3, <1>4, <1>5, <1>6, <1>7, <1>8, <1>9, <1>10, <1>11, <1>12, <1>13, <1>14

\* Their due days, and whether they may turn up.
LEMMA DuesAre ==
  /\ ObligationTemplates["rent"].due = 3 /\ ObligationTemplates["rent"].eligible = FALSE
  /\ ObligationTemplates["groceries"].due = 5 /\ ObligationTemplates["groceries"].eligible = FALSE
  /\ ObligationTemplates["transport"].due = 7 /\ ObligationTemplates["transport"].eligible = FALSE
  /\ ObligationTemplates["electricity"].due = 9 /\ ObligationTemplates["electricity"].eligible = FALSE
  /\ ObligationTemplates["phone"].due = 11 /\ ObligationTemplates["phone"].eligible = FALSE
  /\ ObligationTemplates["internet"].due = 14 /\ ObligationTemplates["internet"].eligible = FALSE
  /\ ObligationTemplates["medical_aid"].due = 15 /\ ObligationTemplates["medical_aid"].eligible = FALSE
  /\ ObligationTemplates["debt"].due = 19 /\ ObligationTemplates["debt"].eligible = FALSE
  /\ ObligationTemplates["car_repair"].due = 25 /\ ObligationTemplates["car_repair"].eligible = TRUE
  /\ ObligationTemplates["medical_plan"].due = 26 /\ ObligationTemplates["medical_plan"].eligible = TRUE
  /\ ObligationTemplates["family_loan"].due = 27 /\ ObligationTemplates["family_loan"].eligible = TRUE
  /\ ObligationTemplates["home_repair"].due = 28 /\ ObligationTemplates["home_repair"].eligible = TRUE
  /\ ObligationTemplates["friend_iou"].due = 18 /\ ObligationTemplates["friend_iou"].eligible = FALSE
<1>1. ObligationTemplates["rent"].due = 3 /\ ObligationTemplates["rent"].eligible = FALSE
  <2>1. ObligationTemplates["rent"] = Template(1800, 3, FALSE)
    BY TemplatesAre
  <2> QED BY ONLY <2>1 DEF Template
<1>2. ObligationTemplates["groceries"].due = 5 /\ ObligationTemplates["groceries"].eligible = FALSE
  <2>1. ObligationTemplates["groceries"] = Template(650, 5, FALSE)
    BY TemplatesAre
  <2> QED BY ONLY <2>1 DEF Template
<1>3. ObligationTemplates["transport"].due = 7 /\ ObligationTemplates["transport"].eligible = FALSE
  <2>1. ObligationTemplates["transport"] = Template(450, 7, FALSE)
    BY TemplatesAre
  <2> QED BY ONLY <2>1 DEF Template
<1>4. ObligationTemplates["electricity"].due = 9 /\ ObligationTemplates["electricity"].eligible = FALSE
  <2>1. ObligationTemplates["electricity"] = Template(420, 9, FALSE)
    BY TemplatesAre
  <2> QED BY ONLY <2>1 DEF Template
<1>5. ObligationTemplates["phone"].due = 11 /\ ObligationTemplates["phone"].eligible = FALSE
  <2>1. ObligationTemplates["phone"] = Template(250, 11, FALSE)
    BY TemplatesAre
  <2> QED BY ONLY <2>1 DEF Template
<1>6. ObligationTemplates["internet"].due = 14 /\ ObligationTemplates["internet"].eligible = FALSE
  <2>1. ObligationTemplates["internet"] = Template(400, 14, FALSE)
    BY TemplatesAre
  <2> QED BY ONLY <2>1 DEF Template
<1>7. ObligationTemplates["medical_aid"].due = 15 /\ ObligationTemplates["medical_aid"].eligible = FALSE
  <2>1. ObligationTemplates["medical_aid"] = Template(550, 15, FALSE)
    BY TemplatesAre
  <2> QED BY ONLY <2>1 DEF Template
<1>8. ObligationTemplates["debt"].due = 19 /\ ObligationTemplates["debt"].eligible = FALSE
  <2>1. ObligationTemplates["debt"] = Template(600, 19, FALSE)
    BY TemplatesAre
  <2> QED BY ONLY <2>1 DEF Template
<1>9. ObligationTemplates["car_repair"].due = 25 /\ ObligationTemplates["car_repair"].eligible = TRUE
  <2>1. ObligationTemplates["car_repair"] = Template(500, 25, TRUE)
    BY TemplatesAre
  <2> QED BY ONLY <2>1 DEF Template
<1>10. /\ ObligationTemplates["medical_plan"].due = 26
       /\ ObligationTemplates["medical_plan"].eligible = TRUE
  <2>1. ObligationTemplates["medical_plan"] = Template(450, 26, TRUE)
    BY TemplatesAre
  <2> QED BY ONLY <2>1 DEF Template
<1>11. ObligationTemplates["family_loan"].due = 27 /\ ObligationTemplates["family_loan"].eligible = TRUE
  <2>1. ObligationTemplates["family_loan"] = Template(350, 27, TRUE)
    BY TemplatesAre
  <2> QED BY ONLY <2>1 DEF Template
<1>12. ObligationTemplates["home_repair"].due = 28 /\ ObligationTemplates["home_repair"].eligible = TRUE
  <2>1. ObligationTemplates["home_repair"] = Template(550, 28, TRUE)
    BY TemplatesAre
  <2> QED BY ONLY <2>1 DEF Template
<1>13. ObligationTemplates["friend_iou"].due = 18 /\ ObligationTemplates["friend_iou"].eligible = FALSE
  <2>1. ObligationTemplates["friend_iou"] = Template(100, 18, FALSE)
    BY TemplatesAre
  <2> QED BY ONLY <2>1 DEF Template
<1> QED BY ONLY <1>1, <1>2, <1>3, <1>4, <1>5, <1>6, <1>7, <1>8, <1>9, <1>10, <1>11, <1>12, <1>13

\* No bill of the catalogue is negative,
LEMMA AmountsAreNatural == \A t \in Templates : Amounts[t] \in Nat
BY TemplatesAre, AmountsAre

\* and the catalogue is finite.
LEMMA TemplatesAreFinite == IsFiniteSet(Templates)
<1>1. IsFiniteSet({})
  BY FS_EmptySet
<1>2. IsFiniteSet({"rent"})
  BY <1>1, FS_AddElement
<1>3. IsFiniteSet({"rent", "groceries"})
  BY <1>2, FS_AddElement
<1>4. IsFiniteSet({"rent", "groceries", "transport"})
  BY <1>3, FS_AddElement
<1>5. IsFiniteSet({"rent", "groceries", "transport", "electricity"})
  BY <1>4, FS_AddElement
<1>6. IsFiniteSet({"rent", "groceries", "transport", "electricity", "phone"})
  BY <1>5, FS_AddElement
<1>7. IsFiniteSet({"rent", "groceries", "transport", "electricity", "phone", "internet"})
  BY <1>6, FS_AddElement
<1>8. IsFiniteSet({"rent", "groceries", "transport", "electricity", "phone", "internet",
                  "medical_aid"})
  BY <1>7, FS_AddElement
<1>9. IsFiniteSet({"rent", "groceries", "transport", "electricity", "phone", "internet",
                  "medical_aid", "debt"})
  BY <1>8, FS_AddElement
<1>10. IsFiniteSet({"rent", "groceries", "transport", "electricity", "phone", "internet",
                  "medical_aid", "debt", "car_repair"})
  BY <1>9, FS_AddElement
<1>11. IsFiniteSet({"rent", "groceries", "transport", "electricity", "phone", "internet",
                  "medical_aid", "debt", "car_repair", "medical_plan"})
  BY <1>10, FS_AddElement
<1>12. IsFiniteSet({"rent", "groceries", "transport", "electricity", "phone", "internet",
                  "medical_aid", "debt", "car_repair", "medical_plan", "family_loan"})
  BY <1>11, FS_AddElement
<1>13. IsFiniteSet({"rent", "groceries", "transport", "electricity", "phone", "internet",
                  "medical_aid", "debt", "car_repair", "medical_plan", "family_loan",
                  "home_repair"})
  BY <1>12, FS_AddElement
<1>14. IsFiniteSet({"rent", "groceries", "transport", "electricity", "phone", "internet",
                  "medical_aid", "debt", "car_repair", "medical_plan", "family_loan",
                  "home_repair", "friend_iou"})
  BY <1>13, FS_AddElement
<1> QED BY <1>14, TemplatesAre

\* The templates that may turn up are four.
Late == {"car_repair", "medical_plan", "family_loan", "home_repair"}
LEMMA LateAre ==
  /\ Late = {t \in Templates : ObligationTemplates[t].eligible
                               /\ ObligationTemplates[t].due > LastIntroduction}
  /\ \A t \in Late : ObligationTemplates[t].due \in 25..28
  /\ \A t \in Late : Amounts[t] <= 550
  /\ \A t, u \in Late : t # u => Amounts[t] + Amounts[u] <= 1050
<1>2. Late = {t \in Templates : ObligationTemplates[t].eligible
                               /\ ObligationTemplates[t].due > LastIntroduction}
  <2>1. Templates = {"rent", "groceries", "transport", "electricity", "phone", "internet",
                  "medical_aid", "debt", "car_repair", "medical_plan", "family_loan",
                  "home_repair", "friend_iou"}
    BY TemplatesAre
  <2>2. \A t \in Templates : t \in Late <=> /\ ObligationTemplates[t].eligible
                                           /\ ObligationTemplates[t].due > LastIntroduction
    BY ONLY <2>1, DuesAre DEF Late, LastIntroduction
  <2>3. Late \subseteq Templates
    BY ONLY <2>1 DEF Late
  <2> QED BY ONLY <2>2, <2>3
<1>3. \A t \in Late : ObligationTemplates[t].due \in 25..28
  BY DuesAre DEF Late
<1>4. \A t \in Late : Amounts[t] <= 550
  BY AmountsAre DEF Late
<1>5. \A t, u \in Late : t # u => Amounts[t] + Amounts[u] <= 1050
  BY AmountsAre DEF Late
<1> QED BY <1>2, <1>3, <1>4, <1>5

\* Every event can be passed, leaves no bill when it expires, and is available
\* when all templates are.
LEMMA EventsArePassable ==
  \A e \in DOMAIN EventTemplates :
     /\ \E c \in DOMAIN EventTemplates[e].choices :
          /\ EventTemplates[e].choices[c].cost = 0
          /\ EventTemplates[e].choices[c].bill = NoBill
     /\ EventTemplates[e].expiry.bill = NoBill
<1>1. \A a, f, p, b : Choice(a, f, p, b).cost = a + f /\ Choice(a, f, p, b).bill = b
  BY DEF Choice
<1>2. /\ CarRepair.choices.decline = Choice(0, 0, -20, NoBill) /\ "decline" \in DOMAIN CarRepair.choices
      /\ CarRepair.expiry = Choice(0, 150, -12, NoBill)
  BY DEF CarRepair, Surprise
<1>3. /\ MedicalCost.choices.decline = Choice(0, 0, -25, NoBill)
      /\ "decline" \in DOMAIN MedicalCost.choices
      /\ MedicalCost.expiry = Choice(0, 180, -15, NoBill)
  BY DEF MedicalCost, Surprise
<1>4. /\ FamilyRequest.choices.decline = Choice(0, 0, 4, NoBill)
      /\ "decline" \in DOMAIN FamilyRequest.choices
      /\ FamilyRequest.expiry = Choice(0, 0, 4, NoBill)
  BY DEF FamilyRequest, Surprise
<1>5. /\ IncomeShortfall.choices.reduce = Choice(0, 0, 10, NoBill)
      /\ "reduce" \in DOMAIN IncomeShortfall.choices
      /\ IncomeShortfall.expiry = Choice(0, 140, -12, NoBill)
  BY DEF IncomeShortfall, Surprise
<1>6. /\ HomeRepair.choices.defer = Choice(0, 0, -20, NoBill) /\ "defer" \in DOMAIN HomeRepair.choices
      /\ HomeRepair.expiry = Choice(0, 180, -14, NoBill)
  BY DEF HomeRepair, Surprise
<1>7. /\ UtilitySpike.choices.extension = Choice(0, 0, -8, NoBill)
      /\ "extension" \in DOMAIN UtilitySpike.choices
      /\ UtilitySpike.expiry = Choice(0, 130, -11, NoBill)
  BY DEF UtilitySpike, Surprise
<1>8. /\ DOMAIN EventTemplates = {"car", "medical", "family", "income", "home", "utility"}
      /\ EventTemplates["car"] = CarRepair /\ EventTemplates["medical"] = MedicalCost
      /\ EventTemplates["family"] = FamilyRequest /\ EventTemplates["income"] = IncomeShortfall
      /\ EventTemplates["home"] = HomeRepair /\ EventTemplates["utility"] = UtilitySpike
  BY DEF EventTemplates
<1>9. 0 + 0 = 0
  OBVIOUS
<1> QED BY <1>1, <1>2, <1>3, <1>4, <1>5, <1>6, <1>7, <1>8, <1>9

\* A bill that an event may introduce may turn up, and is due after every event.
LEMMA EventBillsAre ==
  \A e \in DOMAIN EventTemplates :
     /\ EventTemplates[e].day \in 1..24
     /\ \A c \in DOMAIN EventTemplates[e].choices :
          EventTemplates[e].choices[c].bill \in Late \cup {NoBill}
<1>1. \A a, f, p, b : Choice(a, f, p, b).bill = b
  BY DEF Choice
<1>2. /\ CarRepair.day = 4
      /\ \A c \in DOMAIN CarRepair.choices : CarRepair.choices[c].bill \in Late \cup {NoBill}
  BY DEF CarRepair, Surprise, Choice, Late
<1>3. /\ MedicalCost.day = 6
      /\ \A c \in DOMAIN MedicalCost.choices : MedicalCost.choices[c].bill \in Late \cup {NoBill}
  BY DEF MedicalCost, Surprise, Choice, Late
<1>4. /\ FamilyRequest.day = 8
      /\ \A c \in DOMAIN FamilyRequest.choices : FamilyRequest.choices[c].bill \in Late \cup {NoBill}
  BY DEF FamilyRequest, Surprise, Choice, Late
<1>5. /\ IncomeShortfall.day = 10
      /\ \A c \in DOMAIN IncomeShortfall.choices :
            IncomeShortfall.choices[c].bill \in Late \cup {NoBill}
  BY DEF IncomeShortfall, Surprise, Choice, Late
<1>6. /\ HomeRepair.day = 13
      /\ \A c \in DOMAIN HomeRepair.choices : HomeRepair.choices[c].bill \in Late \cup {NoBill}
  BY DEF HomeRepair, Surprise, Choice, Late
<1>7. /\ UtilitySpike.day = 24
      /\ \A c \in DOMAIN UtilitySpike.choices : UtilitySpike.choices[c].bill \in Late \cup {NoBill}
  BY DEF UtilitySpike, Surprise, Choice, Late
<1>8. /\ DOMAIN EventTemplates = {"car", "medical", "family", "income", "home", "utility"}
      /\ EventTemplates["car"] = CarRepair /\ EventTemplates["medical"] = MedicalCost
      /\ EventTemplates["family"] = FamilyRequest /\ EventTemplates["income"] = IncomeShortfall
      /\ EventTemplates["home"] = HomeRepair /\ EventTemplates["utility"] = UtilitySpike
  BY DEF EventTemplates
<1> QED BY <1>2, <1>3, <1>4, <1>5, <1>6, <1>7, <1>8

-----------------------------------------------------------------------------
(* The draws                                                               *)

\* What bills add up to.
LEMMA TotalIs ==
  ASSUME NEW S \in SUBSET Templates
  PROVE  IsFiniteSet(S) /\ TotalDue(S) \in Nat
<1>1. IsFiniteSet(S) /\ \A x \in S : Amounts[x] \in Nat
  BY TemplatesAreFinite, FS_Subset, AmountsAreNatural
<1> QED BY <1>1, SumNatural DEF TotalDue

\* A bill adds its amount to what is due.
LEMMA TotalGrows ==
  ASSUME NEW S \in SUBSET Templates, NEW t \in Templates \ S
  PROVE  TotalDue(S \cup {t}) = Amounts[t] + TotalDue(S)
<1>1. PICK f : f = Amounts
  OBVIOUS
<1>2. IsFiniteSet(S) /\ t \notin S /\ \A y \in S \cup {t} : f[y] \in Int
  BY <1>1, TotalIs, AmountsAreNatural
<1>3. SumFunctionOnSet(f, S \cup {t}) = f[t] + SumFunctionOnSet(f, S)
  BY ONLY <1>2, SumAdd
<1> QED BY <1>1, <1>3 DEF TotalDue

\* Every budget leaves room for the bills of the briefing and two that turn up.
LEMMA BudgetsAre ==
  ASSUME NEW b \in StartingBudgets
  PROVE  /\ b \in Int /\ b >= 4000
         /\ Cap(b) \in Int /\ Cap(b) >= 2800 /\ Cap(b) + 1050 <= b
<1>1. b \in Int /\ b >= 4000
  BY ScenarioConstants
<1>2. Cap(b) \in Int /\ Cap(b) >= 2800 /\ Cap(b) + 1050 <= b
  BY <1>1 DEF Cap
<1> QED BY <1>1, <1>2

\* Five bills that fit every budget and are spread over the month.
Five == {"groceries", "transport", "phone", "friend_iou", "car_repair"}
LEMMA FiveAre ==
  Five \in SUBSET Templates /\ Cardinality(Five) = 5 /\ TotalDue(Five) = 1950 /\ HasDueDaySpread(Five)
<1>1. Five \in SUBSET Templates
  BY TemplatesAre DEF Five
<1>2. IsFiniteSet({}) /\ Cardinality({}) = 0 /\ TotalDue({}) = 0
  BY FS_EmptySet, SumEmpty DEF TotalDue
<1>3. PICK A : A = {"groceries"}
  OBVIOUS
<1>4. /\ A = {} \cup {"groceries"} /\ "groceries" \in Templates
      /\ "groceries" \notin {} /\ {} \in SUBSET Templates
  BY <1>3, TemplatesAre
<1>5. IsFiniteSet(A) /\ Cardinality(A) = 1 /\ TotalDue(A) = 650
  <2>1. IsFiniteSet(A) /\ Cardinality(A) = 0 + 1
    BY <1>2, <1>4, FS_AddElement
  <2>2. TotalDue(A) = Amounts["groceries"] + TotalDue({})
    BY <1>4, TotalGrows
  <2> QED BY <1>2, <2>1, <2>2, AmountsAre
<1>6. PICK B : B = A \cup {"transport"}
  OBVIOUS
<1>7. /\ "transport" \in Templates \ A /\ A \in SUBSET Templates
  BY <1>3, TemplatesAre
<1>8. IsFiniteSet(B) /\ Cardinality(B) = 2 /\ TotalDue(B) = 1100
  <2>1. IsFiniteSet(B) /\ Cardinality(B) = 1 + 1
    BY <1>5, <1>6, <1>7, FS_AddElement
  <2>2. TotalDue(B) = Amounts["transport"] + TotalDue(A)
    BY <1>6, <1>7, TotalGrows
  <2> QED BY <1>5, <2>1, <2>2, AmountsAre
<1>9. PICK C : C = B \cup {"phone"}
  OBVIOUS
<1>10. /\ "phone" \in Templates \ B /\ B \in SUBSET Templates
  BY <1>3, <1>6, TemplatesAre
<1>11. IsFiniteSet(C) /\ Cardinality(C) = 3 /\ TotalDue(C) = 1350
  <2>1. IsFiniteSet(C) /\ Cardinality(C) = 2 + 1
    BY <1>8, <1>9, <1>10, FS_AddElement
  <2>2. TotalDue(C) = Amounts["phone"] + TotalDue(B)
    BY <1>9, <1>10, TotalGrows
  <2> QED BY <1>8, <2>1, <2>2, AmountsAre
<1>12. PICK D : D = C \cup {"friend_iou"}
  OBVIOUS
<1>13. /\ "friend_iou" \in Templates \ C /\ C \in SUBSET Templates
  BY <1>3, <1>6, <1>9, TemplatesAre
<1>14. IsFiniteSet(D) /\ Cardinality(D) = 4 /\ TotalDue(D) = 1450
  <2>1. IsFiniteSet(D) /\ Cardinality(D) = 3 + 1
    BY <1>11, <1>12, <1>13, FS_AddElement
  <2>2. TotalDue(D) = Amounts["friend_iou"] + TotalDue(C)
    BY <1>12, <1>13, TotalGrows
  <2> QED BY <1>11, <2>1, <2>2, AmountsAre
<1>15. Five = D \cup {"car_repair"} /\ "car_repair" \in Templates \ D /\ D \in SUBSET Templates
  BY <1>3, <1>6, <1>9, <1>12, TemplatesAre DEF Five
<1>16. Cardinality(Five) = 5 /\ TotalDue(Five) = 1950
  <2>1. Cardinality(Five) = 4 + 1
    BY <1>14, <1>15, FS_AddElement
  <2>2. TotalDue(Five) = Amounts["car_repair"] + TotalDue(D)
    BY <1>15, TotalGrows
  <2> QED BY <1>14, <2>1, <2>2, AmountsAre
<1>17. HasDueDaySpread(Five)
  BY DuesAre DEF HasDueDaySpread, Five
<1> QED BY <1>1, <1>16, <1>17

\* Five bills spread over the month leave one that may turn up.
LEMMA OneRemains ==
  ASSUME NEW S \in SUBSET Templates, Cardinality(S) = 5, HasDueDaySpread(S)
  PROVE  Late \ S # {}
<1> SUFFICES ASSUME Late \subseteq S PROVE FALSE
  OBVIOUS
<1>1. PICK t \in S : ObligationTemplates[t].due \in 1..10
  BY DEF HasDueDaySpread
<1>2. PICK u \in S : ObligationTemplates[u].due \in 11..20
  BY DEF HasDueDaySpread
<1>3. t # u /\ t \notin Late /\ u \notin Late
  BY <1>1, <1>2, LateAre
<1>4. IsFiniteSet(Late) /\ Cardinality(Late) = 4
  <2>1. PICK A, B, C : /\ A = {"car_repair"} /\ B = A \cup {"medical_plan"}
                       /\ C = B \cup {"family_loan"}
    OBVIOUS
  <2>2. IsFiniteSet(A) /\ Cardinality(A) = 1
    BY <2>1, FS_Singleton
  <2>3. IsFiniteSet(B) /\ Cardinality(B) = 2
    <3>1. "medical_plan" \notin A
      BY <2>1
    <3>2. IsFiniteSet(B) /\ Cardinality(B) = 1 + 1
      BY <2>1, <2>2, <3>1, FS_AddElement
    <3> QED BY <3>2
  <2>4. IsFiniteSet(C) /\ Cardinality(C) = 3
    BY <2>1, <2>3, FS_AddElement
  <2>5. Late = C \cup {"home_repair"} /\ "home_repair" \notin C
    BY <2>1 DEF Late
  <2> QED BY <2>4, <2>5, FS_AddElement
<1>5. PICK A, B : A = Late \cup {t} /\ B = A \cup {u}
  OBVIOUS
<1>6. IsFiniteSet(A) /\ Cardinality(A) = 5
  BY <1>3, <1>4, <1>5, FS_AddElement
<1>7. IsFiniteSet(B) /\ Cardinality(B) = 6
  <2>1. u \notin A
    BY <1>3, <1>5
  <2> QED BY <1>5, <1>6, <2>1, FS_AddElement
<1>8. IsFiniteSet(S) /\ B \subseteq S
  BY <1>5, TotalIs
<1> QED BY <1>7, <1>8, FS_Subset

\* One or two bills that may turn up take little.
LEMMA LateTakeLittle ==
  ASSUME NEW S \in SUBSET Late, Cardinality(S) \in 1..2
  PROVE  TotalDue(S) <= 1050
<1>1. Late \subseteq Templates
  BY LateAre
<1>2. S \in SUBSET Templates /\ IsFiniteSet(S)
  BY <1>1, TotalIs
<1>3. PICK t : t \in S
  BY <1>2, FS_EmptySet
<1>4. PICK R : R = S \ {t}
  OBVIOUS
<1>5. IsFiniteSet(R) /\ Cardinality(R) = Cardinality(S) - 1 /\ R \in SUBSET Templates
      /\ t \in Templates \ R /\ S = R \cup {t}
  BY <1>2, <1>3, <1>4, FS_RemoveElement
<1>6. TotalDue(S) = Amounts[t] + TotalDue(R)
  BY <1>5, TotalGrows
<1>7. CASE R = {}
  <2>1. TotalDue(R) = 0
    BY <1>7, SumEmpty DEF TotalDue
  <2>2. Amounts[t] <= 550 /\ Amounts[t] \in Nat
    BY <1>1, <1>3, LateAre, AmountsAreNatural
  <2> QED BY <1>6, <2>1, <2>2
<1>8. CASE R # {}
  <2>1. PICK u : u \in R
    BY <1>8
  <2>2. IsFiniteSet(R \ {u}) /\ Cardinality(R \ {u}) = Cardinality(R) - 1
    BY <1>5, <2>1, FS_RemoveElement
  <2>3. Cardinality(R \ {u}) \in Nat
    BY <2>2, FS_CardinalityType
  <2>4. Cardinality(R \ {u}) = 0
    BY <1>5, <2>2, <2>3
  <2>5. R \ {u} = {}
    BY <2>2, <2>4, FS_EmptySet
  <2>6. R = {} \cup {u} /\ u \in Templates \ {} /\ {} \in SUBSET Templates
    BY <1>5, <2>1, <2>5
  <2>7. TotalDue(R) = Amounts[u] + TotalDue({})
    BY <2>6, TotalGrows
  <2>8. TotalDue({}) = 0
    BY SumEmpty DEF TotalDue
  <2>9. t # u /\ t \in Late /\ u \in Late
    BY <1>3, <1>4, <2>1
  <2>10. PICK a, b : a = Amounts[t] /\ b = Amounts[u]
    OBVIOUS
  <2>11. a \in Nat /\ b \in Nat /\ a + b <= 1050
    BY <1>1, <2>9, <2>10, LateAre, AmountsAreNatural
  <2> QED BY <1>6, <2>7, <2>8, <2>10, <2>11
<1> QED BY <1>7, <1>8

\* There is a day for every bill.
LEMMA DayIs == \E d : d \in FutureDays
<1> SUFFICES ASSUME FutureDays = {} PROVE FALSE
  OBVIOUS
<1> QED BY ScenarioConstants, FS_EmptySet

-----------------------------------------------------------------------------
(* The invariant of the build                                              *)

\* A refusal says that a template was inactive; until then, what was drawn is
\* what the step says, from the templates that are active.
LaterDays == UNION {[bills -> FutureDays] : bills \in SUBSET Templates}
Build == [step: Steps, inactive: Deactivated, budget: StartingBudgets \cup {0},
          initial: SUBSET Templates, later: LaterDays, events: SUBSET DOMAIN EventTemplates]
Drew(step, budget, initial, later) ==
    /\ step \in {"budget", "bills", "future", "briefing"} => budget \in StartingBudgets
    /\ step \in {"bills", "future", "briefing"} => initial \in InitialChoices(budget)
    /\ step \in {"future", "briefing"} =>
         \E n \in 1..2 : \E bills \in kSubset(n, FutureCandidates(initial)) : later \in OwnDays(bills)
ScenarioInv ==
    /\ scenario \in Build
    /\ scenario.inactive = {} => scenario.step # "refused"
    /\ Drew(scenario.step, scenario.budget, scenario.initial, scenario.later)

\* The choices of the first draw of bills, and what may turn up after it.
LEMMA ChoicesAre ==
  ASSUME NEW budget, NEW s \in InitialChoices(budget)
  PROVE  /\ s \in SUBSET Templates /\ Cardinality(s) = 5 /\ TotalDue(s) <= Cap(budget)
         /\ FutureCandidates(s) = {t \in Late : t \notin s /\ t \notin scenario.inactive}
         /\ scenario.inactive = {} => FutureCandidates(s) # {}
<1>1. s \in SUBSET Templates /\ Cardinality(s) = 5 /\ TotalDue(s) <= Cap(budget) /\ HasDueDaySpread(s)
  BY DEF InitialChoices, kSubset, ActiveTemplates, Templates
<1>2. FutureCandidates(s) = {t \in Late : t \notin s /\ t \notin scenario.inactive}
  BY LateAre DEF FutureCandidates, ActiveTemplates, Templates
<1> QED BY <1>1, <1>2, OneRemains

\* A drawing that has not begun is sound,
LEMMA ScenarioStarts == ScenarioInit => ScenarioInv
<1> SUFFICES ASSUME NEW off \in Deactivated,
                    scenario = [step |-> "start", inactive |-> off, budget |-> 0, initial |-> {},
                                later |-> << >>, events |-> {}]
             PROVE  ScenarioInv
  BY DEF ScenarioInit
<1>1. << >> \in [{} -> FutureDays]
  OBVIOUS
<1>2. << >> \in LaterDays
  BY <1>1 DEF LaterDays
<1>3. scenario \in Build
  BY <1>2 DEF Build, Steps
<1> QED BY <1>3 DEF ScenarioInv, Drew

\* What a draw does.
LEMMA DrawnIs ==
  ASSUME NEW step, NEW choices, Drawn(step, choices)
  PROVE  IF choices = {} THEN scenario' = [scenario EXCEPT !.step = "refused"]
         ELSE \E c \in choices : scenario' = [c EXCEPT !.step = step]
BY DEF Drawn

\* as it is when the budget is drawn,
LEMMA DrawBudgetKeeps == ScenarioInv /\ DrawBudget => ScenarioInv'
<1> SUFFICES ASSUME ScenarioInv, DrawBudget PROVE ScenarioInv'
  OBVIOUS
<1>1. PICK choices : choices = {[scenario EXCEPT !.budget = b] : b \in StartingBudgets}
  OBVIOUS
<1>2. choices # {} /\ Drawn("budget", choices)
  <2>1. PICK b : b \in StartingBudgets
    BY ScenarioConstants
  <2>2. Drawn("budget", choices)
    BY <1>1 DEF DrawBudget
  <2> QED BY <1>1, <2>1, <2>2
<1>3. PICK c \in choices : scenario' = [c EXCEPT !.step = "budget"]
  BY <1>2, DrawnIs
<1>4. PICK b \in StartingBudgets : c = [scenario EXCEPT !.budget = b]
  BY <1>1
<1>5. scenario \in Build
  BY DEF ScenarioInv
<1>6. scenario' \in Build
  BY <1>3, <1>4, <1>5 DEF Build, Steps
<1>7. scenario'.step = "budget" /\ scenario'.budget = b
  BY <1>3, <1>4, <1>5 DEF Build
<1> QED BY <1>6, <1>7 DEF ScenarioInv, Drew

\* with every bill of the briefing that is drawn,
LEMMA DrawInitialKeeps == ScenarioInv /\ DrawInitial => ScenarioInv'
<1> SUFFICES ASSUME ScenarioInv, DrawInitial PROVE ScenarioInv'
  OBVIOUS
<1>1. PICK choices : choices = {[scenario EXCEPT !.initial = s] : s \in InitialChoices(scenario.budget)}
  OBVIOUS
<1>2. Drawn("bills", choices) /\ scenario.step = "budget"
  BY <1>1 DEF DrawInitial
<1>3. scenario \in Build /\ scenario.budget \in StartingBudgets
  BY <1>2 DEF ScenarioInv, Drew
<1>4. CASE choices = {}
  <2>1. scenario' = [scenario EXCEPT !.step = "refused"]
    BY <1>2, <1>4, DrawnIs
  <2>2. scenario.inactive # {}
    <3> SUFFICES ASSUME scenario.inactive = {} PROVE FALSE
      OBVIOUS
    <3>1. Five \in InitialChoices(scenario.budget)
      <4>1. TotalDue(Five) <= Cap(scenario.budget)
        BY <1>3, FiveAre, BudgetsAre
      <4> QED BY <4>1, FiveAre DEF InitialChoices, kSubset, ActiveTemplates, Templates
    <3> QED BY <1>1, <1>4, <3>1
  <2>3. scenario' \in Build /\ scenario'.step = "refused" /\ scenario'.inactive = scenario.inactive
    BY <1>3, <2>1 DEF Build, Steps
  <2> QED BY <2>2, <2>3 DEF ScenarioInv, Drew
<1>5. CASE choices # {}
  <2>1. PICK c \in choices : scenario' = [c EXCEPT !.step = "bills"]
    BY <1>2, <1>5, DrawnIs
  <2>2. PICK s \in InitialChoices(scenario.budget) : c = [scenario EXCEPT !.initial = s]
    BY <1>1
  <2>3. s \in SUBSET Templates
    BY ChoicesAre
  <2>4. scenario' \in Build
    BY <1>3, <2>1, <2>2, <2>3 DEF Build, Steps
  <2>5. /\ scenario'.step = "bills" /\ scenario'.budget = scenario.budget /\ scenario'.initial = s
        /\ scenario'.inactive = scenario.inactive
    BY <1>3, <2>1, <2>2 DEF Build
  <2>6. s \in InitialChoices(scenario.budget)'
    BY <2>5 DEF InitialChoices, ActiveTemplates
  <2> QED BY <1>3, <2>4, <2>5, <2>6 DEF ScenarioInv, Drew
<1> QED BY <1>4, <1>5

\* with every bill that turns up,
LEMMA DrawFutureKeeps == ScenarioInv /\ DrawFuture => ScenarioInv'
<1> SUFFICES ASSUME ScenarioInv, DrawFuture PROVE ScenarioInv'
  OBVIOUS
<1> DEFINE some == UNION {kSubset(n, FutureCandidates(scenario.initial)) : n \in 1..2}
<1>1. PICK choices : choices = {[scenario EXCEPT !.later = days] :
                                  days \in UNION {OwnDays(bills) : bills \in some}}
  OBVIOUS
<1>2. Drawn("future", choices) /\ scenario.step = "bills"
  BY <1>1 DEF DrawFuture
<1>3. /\ scenario \in Build /\ scenario.budget \in StartingBudgets
      /\ scenario.initial \in InitialChoices(scenario.budget)
  BY <1>2 DEF ScenarioInv, Drew
<1>4. FutureCandidates(scenario.initial) \subseteq Templates
  BY DEF FutureCandidates, ActiveTemplates, Templates
<1>5. CASE choices = {}
  <2>1. scenario' = [scenario EXCEPT !.step = "refused"]
    BY <1>2, <1>5, DrawnIs
  <2>2. scenario.inactive # {}
    <3> SUFFICES ASSUME scenario.inactive = {} PROVE FALSE
      OBVIOUS
    <3>1. PICK t \in FutureCandidates(scenario.initial), d \in FutureDays : TRUE
      BY <1>3, ChoicesAre, DayIs
    <3>2. {t} \in kSubset(1, FutureCandidates(scenario.initial))
      BY FS_Singleton DEF kSubset
    <3>3. {t} \in some
      BY <3>2
    <3>4. [x \in {t} |-> d] \in OwnDays({t})
      BY DEF OwnDays
    <3>5. choices # {}
      <4>1. PICK days \in UNION {OwnDays(bills) : bills \in some} : TRUE
        BY <3>3, <3>4
      <4> HIDE DEF some
      <4> QED BY <1>1, <4>1
    <3> QED BY <1>5, <3>5
  <2>3. scenario' \in Build /\ scenario'.step = "refused" /\ scenario'.inactive = scenario.inactive
    BY <1>3, <2>1 DEF Build, Steps
  <2> QED BY <2>2, <2>3 DEF ScenarioInv, Drew
<1>6. CASE choices # {}
  <2>1. PICK c \in choices : scenario' = [c EXCEPT !.step = "future"]
    BY <1>2, <1>6, DrawnIs
  <2>2. PICK n \in 1..2 :
          \E bills \in kSubset(n, FutureCandidates(scenario.initial)) :
            \E days \in OwnDays(bills) : c = [scenario EXCEPT !.later = days]
    BY <1>1
  <2>3. PICK bills \in kSubset(n, FutureCandidates(scenario.initial)) :
          \E days \in OwnDays(bills) : c = [scenario EXCEPT !.later = days]
    BY <2>2
  <2>4. PICK days \in OwnDays(bills) : c = [scenario EXCEPT !.later = days]
    BY <2>3
  <2>5. days \in LaterDays
    BY <1>4 DEF OwnDays, kSubset, LaterDays
  <2>6. scenario' \in Build
    BY <1>3, <2>1, <2>4, <2>5 DEF Build, Steps
  <2>7. /\ scenario'.step = "future" /\ scenario'.budget = scenario.budget
        /\ scenario'.initial = scenario.initial /\ scenario'.later = days
        /\ scenario'.inactive = scenario.inactive
    BY <1>3, <2>1, <2>4 DEF Build
  <2>8. /\ InitialChoices(scenario.budget)' = InitialChoices(scenario.budget)
        /\ FutureCandidates(scenario.initial)' = FutureCandidates(scenario.initial)
    BY <2>7 DEF InitialChoices, FutureCandidates, ActiveTemplates
  <2>9. Drew(scenario.step, scenario.budget, scenario.initial, scenario.later)'
    BY <1>3, <2>2, <2>7, <2>8 DEF Drew
  <2> QED BY <2>6, <2>7, <2>9 DEF ScenarioInv
<1> QED BY <1>5, <1>6

\* No event is unavailable when every template is active.
LEMMA AllAreAvailable ==
  ASSUME scenario.inactive = {}, NEW e \in DOMAIN EventTemplates
  PROVE  ~Unavailable(e)
<1>1. ActiveTemplates = Templates
  BY DEF ActiveTemplates, Templates
<1>2. ASSUME NEW c \in DOMAIN EventTemplates[e].choices, EventTemplates[e].choices[c].bill # NoBill
      PROVE  LET bill == EventTemplates[e].choices[c].bill IN
             /\ bill \in Templates /\ ObligationTemplates[bill].eligible
             /\ ObligationTemplates[bill].due \in (EventTemplates[e].day + 1)..30
  <2>1. PICK bill : bill = EventTemplates[e].choices[c].bill
    OBVIOUS
  <2>2. bill \in Late /\ EventTemplates[e].day \in 1..24
    BY <1>2, <2>1, EventBillsAre
  <2>3. /\ bill \in Templates /\ ObligationTemplates[bill].eligible
        /\ ObligationTemplates[bill].due \in 25..28
    BY <2>2, LateAre
  <2>4. ObligationTemplates[bill].due \in (EventTemplates[e].day + 1)..30
    BY <2>2, <2>3
  <2> QED BY <2>1, <2>3, <2>4
<1> QED BY <1>1, <1>2 DEF Unavailable

\* and when the briefing is written.
LEMMA WriteBriefingKeeps == ScenarioInv /\ WriteBriefing => ScenarioInv'
<1> SUFFICES ASSUME ScenarioInv, WriteBriefing PROVE ScenarioInv'
  OBVIOUS
<1>1. PICK s \in EventDraws : Drawn("briefing", {x \in {[scenario EXCEPT !.events = s]} :
                                                   \A e \in s : ~Unavailable(e)})
  BY DEF WriteBriefing
<1>2. PICK choices : choices = {x \in {[scenario EXCEPT !.events = s]} : \A e \in s : ~Unavailable(e)}
  OBVIOUS
<1>3. Drawn("briefing", choices) /\ scenario.step = "future"
  BY <1>1, <1>2 DEF WriteBriefing
<1>4. /\ scenario \in Build /\ scenario.budget \in StartingBudgets
      /\ scenario.initial \in InitialChoices(scenario.budget)
      /\ Drew("future", scenario.budget, scenario.initial, scenario.later)
  BY <1>3 DEF ScenarioInv, Drew
<1>5. s \in SUBSET DOMAIN EventTemplates
  BY DEF EventDraws, kSubset
<1>6. CASE choices = {}
  <2>1. scenario' = [scenario EXCEPT !.step = "refused"]
    BY <1>3, <1>6, DrawnIs
  <2>2. scenario.inactive # {}
    BY <1>2, <1>5, <1>6, AllAreAvailable
  <2>3. scenario' \in Build /\ scenario'.step = "refused" /\ scenario'.inactive = scenario.inactive
    BY <1>4, <2>1 DEF Build, Steps
  <2> QED BY <2>2, <2>3 DEF ScenarioInv, Drew
<1>7. CASE choices # {}
  <2>1. PICK c \in choices : scenario' = [c EXCEPT !.step = "briefing"]
    BY <1>3, <1>7, DrawnIs
  <2>2. c = [scenario EXCEPT !.events = s]
    BY <1>2
  <2>3. scenario' \in Build
    BY <1>4, <1>5, <2>1, <2>2 DEF Build, Steps
  <2>4. /\ scenario'.step = "briefing" /\ scenario'.budget = scenario.budget
        /\ scenario'.initial = scenario.initial /\ scenario'.later = scenario.later
        /\ scenario'.inactive = scenario.inactive
    BY <1>4, <2>1, <2>2 DEF Build
  <2>5. /\ InitialChoices(scenario.budget)' = InitialChoices(scenario.budget)
        /\ FutureCandidates(scenario.initial)' = FutureCandidates(scenario.initial)
    BY <2>4 DEF InitialChoices, FutureCandidates, ActiveTemplates
  <2>6. Drew(scenario.step, scenario.budget, scenario.initial, scenario.later)'
    BY <1>4, <2>4, <2>5 DEF Drew
  <2> QED BY <2>3, <2>4, <2>6 DEF ScenarioInv
<1> QED BY <1>6, <1>7

\* So it is throughout.
LEMMA ScenarioAlways == ScenarioSpec => []ScenarioInv
<1>1. ScenarioInv /\ UNCHANGED scenario => ScenarioInv'
  BY DEF ScenarioInv, Drew, InitialChoices, FutureCandidates, ActiveTemplates
<1>2. ScenarioInv /\ [ScenarioNext]_scenario => ScenarioInv'
  BY <1>1, DrawBudgetKeeps, DrawInitialKeeps, DrawFutureKeeps, WriteBriefingKeeps DEF ScenarioNext
<1> QED BY <1>2, ScenarioStarts, PTL DEF ScenarioSpec

\* What has been drawn of a month has its type (buildSimulationScenario).
THEOREM ScenarioTyped == ScenarioSpec => []ScenarioTypeOK
<1>1. ScenarioInv => ScenarioTypeOK
  <2> SUFFICES ASSUME ScenarioInv PROVE ScenarioTypeOK
    OBVIOUS
  <2>1. scenario \in Build
    BY DEF ScenarioInv
  <2>2. PICK bills \in SUBSET Templates : scenario.later \in [bills -> FutureDays]
    BY <2>1 DEF Build, LaterDays
  <2> QED BY <2>1, <2>2 DEF ScenarioTypeOK, Build, Templates
<1> QED BY <1>1, ScenarioAlways, PTL

\* The seeded catalogue makes a month whichever budget, days and bills are
\* drawn, and the month can be played and paid for (buildSimulationScenario).
THEOREM MonthsArePlayable == ScenarioSpec => []MonthIsPlayable
<1>1. ScenarioInv => MonthIsPlayable
  <2> SUFFICES ASSUME ScenarioInv, scenario.step = "briefing"
               PROVE  LET future == DOMAIN scenario.later IN
                      /\ scenario.initial \cap future = {}
                      /\ \A t \in future : scenario.later[t] < ObligationTemplates[t].due
                      /\ TotalDue(scenario.initial) + TotalDue(future) <= scenario.budget
                      /\ \A e \in scenario.events :
                           LET x == EventTemplates[e] IN
                           /\ \E c \in DOMAIN x.choices :
                                x.choices[c].cost = 0 /\ x.choices[c].bill = NoBill
                           /\ x.expiry.bill = NoBill
    BY DEF ScenarioInv, MonthIsPlayable
  <2>1. /\ scenario \in Build /\ scenario.budget \in StartingBudgets
        /\ scenario.initial \in InitialChoices(scenario.budget)
    BY DEF ScenarioInv, Drew
  <2>2. PICK n \in 1..2 : \E bills \in kSubset(n, FutureCandidates(scenario.initial)) :
          scenario.later \in OwnDays(bills)
    BY DEF ScenarioInv, Drew
  <2>3. PICK bills \in kSubset(n, FutureCandidates(scenario.initial)) :
          scenario.later \in OwnDays(bills)
    BY <2>2
  <2>4. DOMAIN scenario.later = bills /\ \A t \in bills : scenario.later[t] \in FutureDays
    BY <2>3 DEF OwnDays
  <2>5. bills \in SUBSET Late /\ bills \cap scenario.initial = {} /\ Cardinality(bills) \in 1..2
    BY <2>1, <2>3, ChoicesAre DEF kSubset
  <2>6. \A t \in bills : scenario.later[t] < ObligationTemplates[t].due
    <3> SUFFICES ASSUME NEW t \in bills PROVE scenario.later[t] < ObligationTemplates[t].due
      OBVIOUS
    <3>1. scenario.later[t] \in 3..24
      <4>1. scenario.later[t] \in FutureDays
        BY <2>4
      <4>2. FutureDays \subseteq 3..24
        BY ScenarioConstants
      <4> QED BY <4>1, <4>2
    <3>2. ObligationTemplates[t].due \in 25..28
      BY <2>5, LateAre
    <3> QED BY <3>1, <3>2
  <2>7. TotalDue(scenario.initial) + TotalDue(bills) <= scenario.budget
    <3>1. PICK x, y, b, cap : /\ x = TotalDue(scenario.initial) /\ y = TotalDue(bills)
                              /\ b = scenario.budget /\ cap = Cap(b)
      OBVIOUS
    <3>2. x \in Nat /\ x <= cap
      BY <2>1, <3>1, ChoicesAre, TotalIs
    <3>3. y \in Nat /\ y <= 1050
      <4>1. bills \in SUBSET Templates
        BY <2>5, LateAre
      <4> QED BY <2>5, <3>1, <4>1, LateTakeLittle, TotalIs
    <3>4. b \in Int /\ cap \in Int /\ cap + 1050 <= b
      BY <2>1, <3>1, BudgetsAre
    <3> QED BY <3>1, <3>2, <3>3, <3>4
  <2>8. scenario.events \subseteq DOMAIN EventTemplates
    BY <2>1 DEF Build
  <2> QED BY <2>4, <2>5, <2>6, <2>7, <2>8, EventsArePassable
<1> QED BY <1>1, ScenarioAlways, PTL

-----------------------------------------------------------------------------
(* The three together, as TLC runs them                                    *)

\* What TLC runs is a behaviour of the drawing, of the session and of the board:
\* what is proved of any of them holds of it.
THEOREM MonthsAreEach == MonthsSpec => ScenarioSpec /\ Spec /\ BoardSpec
<1>1. MonthsInit => ScenarioInit /\ Init /\ BoardInit
  BY DEF MonthsInit
<1>2. ASSUME [MonthsNext]_monthsVars
      PROVE  [ScenarioNext]_scenario /\ [Next]_vars /\ [BoardNext]_boardVars
  <2>1. CASE ScenarioStep
    BY <2>1 DEF ScenarioStep
  <2>2. CASE MonthStep
    BY <2>2 DEF MonthStep
  <2>3. CASE BoardStep
    BY <2>3 DEF BoardStep
  <2>4. CASE UNCHANGED monthsVars
    BY <2>4 DEF monthsVars
  <2> QED BY <1>2, <2>1, <2>2, <2>3, <2>4 DEF MonthsNext
<1> QED BY <1>1, <1>2, PTL DEF MonthsSpec, ScenarioSpec, Spec, BoardSpec

\* All three keep their types in it.
THEOREM MonthsTyped == MonthsSpec => []MonthsTypeOK
<1>1. ScenarioTypeOK /\ TypeOK /\ BoardTypeOK => MonthsTypeOK
  BY DEF MonthsTypeOK
<1> QED BY <1>1, MonthsAreEach, ScenarioTyped, SessionTyped, BoardTyped, PTL

=============================================================================
