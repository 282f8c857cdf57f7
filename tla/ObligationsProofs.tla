------------------------- MODULE ObligationsProofs -------------------------
(***************************************************************************)
(* Proofs about schedules and reminders, for every schedule and any number *)
(* of requests, runs, regenerations, accounts and crashes: what a          *)
(* transaction has seen stays closed or in its hands, what a run has       *)
(* listed stays in the schedule for as long as the account exists, and two *)
(* runs remind of the same occurrence only if both have listed it.         *)
(***************************************************************************)
EXTENDS ObligationsProps, TLAPS

-----------------------------------------------------------------------------
(* The inductive invariant                                                 *)

\* What one generation can add at most.
MostNew == Total + Horizon + 1
RowsFit == Len(rows) <= Round * MostNew

AccountCounts == account # "none" => lives >= 1

\* Generations are counted, and one occurrence has the highest number.
RoundsUpTo == closed <= Round /\ \A i \in Rows : rows[i].round <= Round
HasHighest == rows # << >> => \E j \in Rows : \A i \in Rows : rows[i].seq <= rows[j].seq

\* A transaction is of an obligation that is there, and knows no generation and
\* no occurrence that is not.
TxKnown == \A c \in Calls :
    /\ bill = "none" => tx[c] = NoTx
    /\ tx[c].after <= Round /\ tx[c].sees \subseteq Rows

\* Of the generations it could see a transaction sees all that is open, and once
\* it has cancelled knows the highest number.
OpenSeen == ~stray => \A c \in Calls : tx[c].step # "none" =>
    \A i \in Rows : rows[i].status \in Open /\ rows[i].round <= tx[c].after =>
      i \in tx[c].sees
NumbersSeen == \A c \in Calls : tx[c].step = "cancelled" =>
    \A i \in Rows : rows[i].round <= tx[c].after => rows[i].seq <= tx[c].seq

\* What is open is later than what the last generation, or an archive, could see.
OpenAreLast == ~stray => \A i \in Rows : rows[i].status \in Open =>
    /\ rows[i].round > rows[Len(rows)].after
    /\ bill = "archived" => rows[i].round > closed

\* A number is given twice only by generations that overlapped.
NumbersApart == \A i, j \in Rows : i # j /\ rows[i].seq = rows[j].seq =>
    Overlooked(i, j) \/ Overlooked(j, i)

\* One transaction at a time has the obligation's row, and none that has it
\* overlooks another that had it.
LocksExclude == \A c, d \in Calls : tx[c].locks /\ tx[d].locks => c = d
LockedUnseen == \A c \in Calls : tx[c].locks =>
    \A i \in Rows : rows[i].locked => rows[i].round <= tx[c].after
LockedApart == \A i, j \in Rows : Overlooked(i, j) => ~(rows[i].locked /\ rows[j].locked)

\* What a run has listed of the account that exists is still in the schedule.
ListsKnown == \A r \in Runs : \A i \in run[r].list :
    /\ i[1] <= lives
    /\ i[1] = lives /\ account # "none" => i[2] \in Rows

\* What it has listed to remind of is due, and nobody has reminded of it but a
\* run that has listed it too.
ListsDue == \A r \in Runs : run[r].phase = "remind" => \A i \in run[r].list :
    i[1] = lives /\ i[2] \in Rows =>
      /\ rows[i[2]].due - 1 <= today
      /\ ~doubled => rows[i[2]].told = 0
ListsApart == ~doubled => \A q, r \in Runs :
    q # r /\ run[q].phase = "remind" /\ run[r].phase = "remind" =>
      run[q].list \cap run[r].list = {}

ScheduleSafe ==
    /\ ObligationsTypeOK
    /\ RowsFit
    /\ AccountCounts
    /\ RoundsUpTo
    /\ HasHighest
    /\ TxKnown
    /\ OpenSeen
    /\ OpenAreLast
    /\ NumbersSeen
    /\ NumbersApart
    /\ LocksExclude
    /\ LockedUnseen
    /\ LockedApart
    /\ ListsKnown
    /\ ListsDue
    /\ ListsApart
    /\ RemindedOnce

-----------------------------------------------------------------------------
(* Schedules                                                               *)

\* The occurrences are numbered from one.
LEMMA RowsAre ==
  ASSUME ObligationsTypeOK
  PROVE  /\ Len(rows) \in Nat /\ Rows = 1..Len(rows)
         /\ \A i \in Rows : rows[i] \in Row
         /\ Round \in 0..MaxRounds
         /\ Round = 0 <=> rows = << >>
<1>1. /\ Len(rows) \in Nat /\ Rows = 1..Len(rows)
      /\ \A i \in Rows : rows[i] \in Row
  BY DEF ObligationsTypeOK, Rows
<1>2. CASE rows = << >>
  BY <1>1, <1>2, ObligationsConstants DEF Round
<1>3. CASE rows # << >>
  <2>1. Len(rows) \in Rows
    BY <1>1, <1>3 DEF ObligationsTypeOK
  <2> QED BY <1>1, <1>3, <2>1, ObligationsConstants DEF Round, Row
<1> QED BY <1>1, <1>2, <1>3

\* A function on 1..n is a sequence of n values.
LEMMA Sequence ==
  ASSUME NEW S, NEW n \in Nat, NEW f \in [1..n -> S]
  PROVE  f \in Seq(S) /\ Len(f) = n /\ DOMAIN f = 1..n
OBVIOUS

\* Two sequences are as long together as each.
LEMMA Joined ==
  ASSUME NEW S, NEW s \in Seq(S), NEW t \in Seq(S)
  PROVE  Len(s \o t) = Len(s) + Len(t)
OBVIOUS

\* No generation makes a negative number of rows.
LEMMA MostTyped == MostNew \in Nat
BY ObligationsConstants DEF MostNew

\* The dates of a schedule that starts near today.
LEMMA DatesTyped ==
  ASSUME ObligationsTypeOK, NEW from \in Int, from >= today - 1, from <= today + 1
  PROVE  /\ Dates(from) \in Seq(Days)
         /\ Len(Dates(from)) \in 0..MostNew
         /\ from = today => Len(Dates(from)) > 0
<1> DEFINE count == CASE Frequency = "ONCE" -> 1
                      [] Frequency = "FIXED_INSTALLMENT" -> Total
                      [] Frequency = "MONTHLY" -> IF from > today + Horizon THEN 0
                                                  ELSE today + Horizon - from + 1
<1>1. /\ today \in Nat /\ MaxDay \in Nat /\ today <= MaxDay
      /\ Horizon \in Nat /\ Total \in Nat /\ Total >= 1
  BY ObligationsConstants DEF ObligationsTypeOK
<1>2. /\ count \in 0..MostNew
      /\ from = today => count > 0
      /\ from + count - 1 <= MaxDay + Total + Horizon
  <2>1. CASE Frequency = "ONCE"
    BY <1>1, <2>1 DEF MostNew
  <2>2. CASE Frequency = "FIXED_INSTALLMENT"
    BY <1>1, <2>2 DEF MostNew
  <2>3. CASE Frequency = "MONTHLY"
    BY <1>1, <2>3 DEF MostNew
  <2> QED BY <2>1, <2>2, <2>3, ObligationsConstants
<1>3. Dates(from) = [n \in 1..count |-> from + n - 1]
  BY DEF Dates
<1> HIDE DEF count
<1>4. MostNew \in Nat
  BY <1>1 DEF MostNew
<1>5. ASSUME NEW n \in 1..count PROVE from + n - 1 \in Days
  BY <1>1, <1>2, <1>4 DEF Days
<1>6. Dates(from) \in [1..count -> Days] /\ count \in Nat
  <2>1. count \in Nat
    BY <1>2, <1>4
  <2>2. [n \in 1..count |-> from + n - 1] \in [1..count -> Days]
    BY <1>5
  <2> QED BY <1>3, <2>1, <2>2
<1>7. Dates(from) \in Seq(Days) /\ Len(Dates(from)) = count
  BY <1>6, Sequence
<1> QED BY <1>2, <1>7

\* The occurrences that are generated for some dates.
NewIs(new, n, seq, after, locked) ==
    /\ new \in Seq(Row) /\ Len(new) = n
    /\ \A k \in 1..n :
         /\ new[k].seq = seq + k /\ new[k].round = Round + 1
         /\ new[k].after = after /\ new[k].locked = locked
         /\ new[k].told = 0
LEMMA NewTyped ==
  ASSUME ObligationsTypeOK, NEW dates \in Seq(Days), NEW seq \in Nat,
         NEW after \in Nat, after <= MaxRounds, NEW locked \in BOOLEAN,
         NEW reminded \in BOOLEAN, Round < MaxRounds
  PROVE  NewIs(NewRows(dates, seq, after, locked, reminded), Len(dates), seq, after, locked)
<1> DEFINE new == NewRows(dates, seq, after, locked, reminded)
           row(n) == [due |-> dates[n], status |-> "PENDING", seq |-> seq + n,
                      round |-> Round + 1, after |-> after, locked |-> locked,
                      reminder |-> IF reminded /\ dates[n] - 1 > today THEN "SCHEDULED"
                                   ELSE "none",
                      told |-> 0]
<1>1. DOMAIN dates = 1..Len(dates) /\ Len(dates) \in Nat
  OBVIOUS
<1>2. new = [n \in 1..Len(dates) |-> row(n)]
  BY <1>1 DEF NewRows
<1>3. ASSUME NEW n \in 1..Len(dates) PROVE row(n) \in Row
  <2>1. dates[n] \in Days /\ seq + n \in Nat \ {0}
    BY <1>1
  <2>2. Round + 1 \in 1..MaxRounds
    BY RowsAre, ObligationsConstants
  <2> QED BY <2>1, <2>2 DEF Row, Open
<1>4. new \in [1..Len(dates) -> Row]
  BY <1>2, <1>3
<1>5. new \in Seq(Row) /\ Len(new) = Len(dates)
  BY <1>1, <1>4, Sequence
<1>6. \A n \in 1..Len(dates) : /\ new[n].seq = seq + n /\ new[n].round = Round + 1
                               /\ new[n].after = after /\ new[n].locked = locked
                               /\ new[n].told = 0
  BY <1>2
<1> HIDE DEF new
<1>7. NewIs(new, Len(dates), seq, after, locked)
  BY <1>5, <1>6 DEF NewIs
<1> QED BY <1>7 DEF new

\* Two states of an occurrence that differ in what no generation sets, and two
\* that differ in the status alone.
SameOrigin(x, y) ==
    /\ x.seq = y.seq /\ x.round = y.round /\ x.due = y.due
    /\ x.after = y.after /\ x.locked = y.locked
SameRow(x, y) == SameOrigin(x, y) /\ x.told = y.told /\ x.reminder = y.reminder

\* What is cancelled is closed and keeps everything but its status.
LEMMA CancelledTyped ==
  ASSUME ObligationsTypeOK, NEW seen
  PROVE  /\ Cancelled(seen) \in Seq(Row) /\ Len(Cancelled(seen)) = Len(rows)
         /\ \A i \in Rows :
              /\ i \in seen => Cancelled(seen)[i].status \notin Open
              /\ i \notin seen => Cancelled(seen)[i] = rows[i]
              /\ SameRow(Cancelled(seen)[i], rows[i])
<1> DEFINE after == Cancelled(seen)
<1>1. /\ Len(rows) \in Nat /\ Rows = 1..Len(rows) /\ \A i \in Rows : rows[i] \in Row
  BY RowsAre
<1>2. ASSUME NEW i \in Rows
      PROVE  /\ after[i] \in Row
             /\ i \in seen => after[i].status \notin Open
             /\ i \notin seen => after[i] = rows[i]
             /\ SameRow(after[i], rows[i])
  <2>1. CASE i \in seen
    <3>1. after[i] = [rows[i] EXCEPT !.status = "CANCELLED"]
      BY <2>1 DEF Cancelled
    <3> QED BY <1>1, <2>1, <3>1 DEF Row, Open, SameRow, SameOrigin
  <2>2. CASE i \notin seen
    <3>1. after[i] = rows[i]
      BY <2>2 DEF Cancelled
    <3> QED BY <1>1, <2>2, <3>1 DEF SameRow, SameOrigin
  <2> QED BY <2>1, <2>2
<1>3. after \in [1..Len(rows) -> Row]
  BY <1>1, <1>2 DEF Cancelled
<1>4. after \in Seq(Row) /\ Len(after) = Len(rows)
  BY <1>1, <1>3, Sequence
<1> QED BY <1>2, <1>4

\* The highest number is one, and none is higher.
LEMMA LastIs ==
  ASSUME ObligationsTypeOK, HasHighest
  PROVE  LastSeq \in Nat /\ \A i \in Rows : rows[i].seq <= LastSeq
<1> DEFINE S == {0} \cup {rows[i].seq : i \in Rows}
<1>1. \A i \in Rows : rows[i].seq \in Nat
  BY RowsAre DEF Row
<1>2. S \subseteq Nat
  BY <1>1
<1>3. \E x \in S : \A y \in S : x >= y
  <2>1. CASE rows = << >>
    <3>1. S = {0}
      BY <2>1 DEF Rows
    <3> QED BY <3>1
  <2>2. CASE rows # << >>
    <3>1. PICK j \in Rows : \A i \in Rows : rows[i].seq <= rows[j].seq
      BY <2>2 DEF HasHighest
    <3>2. rows[j].seq \in S /\ \A y \in S : rows[j].seq >= y
      BY <1>1, <3>1
    <3> QED BY <3>2
  <2> QED BY <2>1, <2>2
<1>4. Max(S) \in S /\ \A y \in S : Max(S) >= y
  BY <1>3 DEF Max
<1>5. \A i \in Rows : rows[i].seq \in S
  OBVIOUS
<1>6. LastSeq = Max(S)
  BY DEF LastSeq
<1> HIDE DEF S
<1> QED BY <1>1, <1>2, <1>4, <1>5, <1>6

-----------------------------------------------------------------------------
(* How a step changes the schedule                                         *)

\* The occurrences keep what their generation has set.
Kept ==
    /\ rows' \in Seq(Row) /\ Len(rows') = Len(rows)
    /\ \A j \in Rows : SameOrigin(rows'[j], rows[j])

\* A new generation follows what there is, of which some may have been closed.
Grown ==
    /\ rows' \in Seq(Row)
    /\ Len(rows') >= Len(rows) /\ Len(rows') <= Len(rows) + MostNew
    /\ Round < MaxRounds
    /\ rows' = << >> \/ Round' = Round + 1
    /\ \A j \in Rows :
         /\ SameRow(rows'[j], rows[j])
         /\ rows'[j].status \in Open => rows[j].status \in Open
    /\ \A j \in 1..Len(rows') \ Rows : rows'[j].round = Round + 1 /\ rows'[j].told = 0
\* What its transaction has set of it.
NewAre(after, locked, seq) == \A j \in 1..Len(rows') \ Rows :
    rows'[j].after = after /\ rows'[j].locked = locked
    /\ rows'[j].seq = seq + (j - Len(rows))

\* One occurrence changes in what a generation does not set.
LEMMA OneChanges ==
  ASSUME ObligationsTypeOK, NEW k \in Rows, NEW x \in Row, rows' = [rows EXCEPT ![k] = x],
         SameOrigin(x, rows[k])
  PROVE  Kept /\ rows'[k] = x /\ \A j \in Rows \ {k} : rows'[j] = rows[j]
<1>1. /\ Len(rows) \in Nat /\ Rows = 1..Len(rows) /\ rows \in [Rows -> Row]
  BY RowsAre DEF ObligationsTypeOK, Rows
<1>2. rows' \in [1..Len(rows) -> Row]
  BY <1>1
<1>3. rows' \in Seq(Row) /\ Len(rows') = Len(rows)
  BY <1>1, <1>2, Sequence
<1> QED BY <1>1, <1>3 DEF Kept, SameOrigin

\* A payment changes the status of one row, and nothing else of any.
LEMMA PayChanges ==
  ASSUME ObligationsTypeOK, NEW i \in Rows, NEW status \in {"PARTIALLY_PAID", "PAID"},
         Pay(i, status)
  PROVE  /\ Kept /\ rows'[i].status = status
         /\ rows'[i].told = rows[i].told /\ rows'[i].reminder = rows[i].reminder
         /\ \A j \in Rows \ {i} : rows'[j] = rows[j]
<1> DEFINE x == [rows[i] EXCEPT !.status = status]
<1>1. rows[i] \in Row
  BY RowsAre
<1>2. /\ x \in Row /\ x.status = status
      /\ SameOrigin(x, rows[i])
      /\ x.told = rows[i].told /\ x.reminder = rows[i].reminder
  BY <1>1 DEF Row, SameOrigin
<1>3. rows' = [rows EXCEPT ![i] = x]
  BY DEF Pay
<1> HIDE DEF x
<1> QED BY <1>2, <1>3, OneChanges

\* The overdue pass changes one row of the obligation that is there, keeping
\* what was sent for it, or no row at all.
LEMMA OverdueChanges ==
  ASSUME ObligationsTypeOK, NEW r \in Runs, NEW i \in run[r].list, OverdueNext(r, i)
  PROVE  \/ /\ i[1] = lives /\ i[2] \in Rows
            /\ Kept
            /\ rows'[i[2]].told = rows[i[2]].told
            /\ rows'[i[2]].reminder = rows[i[2]].reminder
            /\ \A j \in Rows \ {i[2]} : rows'[j] = rows[j]
            /\ stray' = (stray \/ rows[i[2]].status # "PENDING")
            /\ run' = [run EXCEPT ![r].list = @ \ {i}]
         \/ /\ UNCHANGED <<rows, stray>>
            /\ run' = [run EXCEPT ![r] = IdleRun]
<1> DEFINE k == i[2]
           x == [rows[k] EXCEPT !.status = "OVERDUE"]
<1>1. CASE i[1] = lives /\ k \in Rows
  <2>1. rows[k] \in Row
    BY <1>1, RowsAre
  <2>2. /\ x \in Row
        /\ SameOrigin(x, rows[k])
        /\ x.told = rows[k].told /\ x.reminder = rows[k].reminder
    BY <2>1 DEF Row, Open, SameOrigin
  <2>3. /\ rows' = [rows EXCEPT ![k] = x]
        /\ stray' = (stray \/ rows[k].status # "PENDING")
        /\ run' = [run EXCEPT ![r].list = @ \ {i}]
    BY <1>1 DEF OverdueNext
  <2> HIDE DEF x, k
  <2>4. /\ Kept /\ rows'[k] = x /\ \A j \in Rows \ {k} : rows'[j] = rows[j]
    BY <1>1, <2>2, <2>3, OneChanges
  <2> QED BY <1>1, <2>2, <2>3, <2>4 DEF k
<1>2. CASE ~(i[1] = lives /\ k \in Rows)
  BY <1>2 DEF OverdueNext
<1> QED BY <1>1, <1>2

\* A reminder that goes out is marked as sent, tells at most once, and leaves
\* the status of its row alone; the other steps of the pass change no row.
LEMMA RemindChanges ==
  ASSUME ObligationsTypeOK, NEW r \in Runs, NEW i \in run[r].list, RemindNext(r, i)
  PROVE  \/ /\ i[1] = lives /\ i[2] \in Rows
            /\ Kept
            /\ rows'[i[2]].status = rows[i[2]].status
            /\ rows'[i[2]].reminder = "SENT"
            /\ rows'[i[2]].told \in {rows[i[2]].told, rows[i[2]].told + 1}
            /\ \A j \in Rows \ {i[2]} : rows'[j] = rows[j]
            /\ run' = [run EXCEPT ![r].list = @ \ {i}]
         \/ /\ UNCHANGED rows
            /\ run' = [run EXCEPT ![r] = IdleRun]
<1> DEFINE k == i[2]
           x == Reminded(rows[k])
<1>1. CASE i[1] = lives /\ k \in Rows
  <2>1. rows[k] \in Row
    BY <1>1, RowsAre
  <2> DEFINE told == rows[k].told + IF inApp THEN 1 ELSE 0
  <2>2. told \in Nat /\ told \in {rows[k].told, rows[k].told + 1}
    BY <2>1 DEF Row
  <2>3. x = [rows[k] EXCEPT !.reminder = "SENT", !.told = told]
    BY DEF Reminded
  <2> HIDE DEF told, x
  <2>4. /\ x \in Row
        /\ SameOrigin(x, rows[k])
        /\ x.status = rows[k].status /\ x.told = told /\ x.reminder = "SENT"
    BY <2>1, <2>2, <2>3 DEF Row, SameOrigin
  <2>5. /\ rows' = [rows EXCEPT ![k] = x]
        /\ run' = [run EXCEPT ![r].list = @ \ {i}]
    BY <1>1 DEF RemindNext, x
  <2> HIDE DEF k
  <2>6. /\ Kept /\ rows'[k] = x /\ \A j \in Rows \ {k} : rows'[j] = rows[j]
    BY <1>1, <2>4, <2>5, OneChanges
  <2> QED BY <1>1, <2>2, <2>4, <2>5, <2>6 DEF k
<1>2. CASE ~(i[1] = lives /\ k \in Rows)
  BY <1>2 DEF RemindNext
<1> QED BY <1>1, <1>2

\* An archive closes what it sees and leaves the rest as it is.
LEMMA ArchiveChanges ==
  ASSUME ObligationsTypeOK, NEW c \in Calls, ArchiveCommit(c)
  PROVE  /\ Kept
         /\ \A j \in Rows :
              /\ rows'[j].status \in Open => rows[j].status \in Open /\ j \notin tx[c].sees
              /\ rows'[j].told = rows[j].told /\ rows'[j].reminder = rows[j].reminder
<1> DEFINE seen == StillOpen(c)
<1>1. rows' = Cancelled(seen)
  BY DEF ArchiveCommit
<1>2. /\ Cancelled(seen) \in Seq(Row) /\ Len(Cancelled(seen)) = Len(rows)
      /\ \A i \in Rows :
           /\ i \in seen => Cancelled(seen)[i].status \notin Open
           /\ i \notin seen => Cancelled(seen)[i] = rows[i]
           /\ SameRow(Cancelled(seen)[i], rows[i])
  BY CancelledTyped
<1>3. \A i \in Rows : i \in tx[c].sees /\ rows[i].status \in Open => i \in seen
  BY DEF StillOpen, OpenRows, Cancels
<1> HIDE DEF seen
<1>4. Kept
  BY <1>1, <1>2 DEF Kept, SameRow
<1> QED BY <1>1, <1>2, <1>3, <1>4 DEF SameRow

\* A creation makes the first generation: it adds rows to none.
LEMMA CreateGrows ==
  ASSUME ObligationsTypeOK, NEW c \in Calls, NEW day \in Starts, NEW reminded \in BOOLEAN,
         CreateCommit(c, today + day, reminded)
  PROVE  Grown /\ rows = << >> /\ NewAre(0, TRUE, 0)
<1> DEFINE dates == Dates(today + day)
<1>1. rows = << >> /\ Len(rows) = 0 /\ Rows = {} /\ Round = 0 /\ Round < MaxRounds
      /\ 0 <= MaxRounds
  BY RowsAre, ObligationsConstants DEF CreateCommit, ObligationsTypeOK, Round
<1>2. dates \in Seq(Days) /\ Len(dates) \in 0..MostNew
  <2>1. today \in Nat /\ day \in {-1, 0, 1}
    BY ObligationsConstants DEF ObligationsTypeOK
  <2>2. today + day \in Int /\ today + day >= today - 1 /\ today + day <= today + 1
    BY <2>1
  <2> HIDE DEF dates
  <2> QED BY <2>2, DatesTyped DEF dates
<1> DEFINE new == NewRows(dates, 0, 0, TRUE, reminded)
<1>3. rows' = new
  BY DEF CreateCommit
<1> HIDE DEF dates
<1>4. /\ rows' \in Seq(Row) /\ Len(rows') = Len(dates)
      /\ \A n \in 1..Len(rows') :
           /\ rows'[n].seq = n /\ rows'[n].round = Round + 1 /\ rows'[n].told = 0
           /\ rows'[n].after = 0 /\ rows'[n].locked = TRUE
  <2> DEFINE first == 0
             lock == TRUE
  <2>2. first \in Nat /\ first <= MaxRounds /\ lock \in BOOLEAN
        /\ new = NewRows(dates, first, first, lock, reminded)
    BY <1>1
  <2> HIDE DEF first, lock, new
  <2>1. NewIs(new, Len(dates), first, first, lock)
    <3>1. dates \in Seq(Days) /\ Round < MaxRounds
      BY <1>1, <1>2
    <3> QED BY <2>2, <3>1, NewTyped
  <2> USE DEF first, lock
  <2> QED BY <1>2, <1>3, <2>1 DEF NewIs
<1>5. rows' = << >> \/ Round' = Round + 1
  BY <1>2, <1>4 DEF Round
<1>6. Len(rows') >= Len(rows) /\ Len(rows') <= Len(rows) + MostNew
  BY <1>1, <1>2, <1>4, MostTyped
<1>7. NewAre(0, TRUE, 0)
  BY <1>1, <1>4 DEF NewAre
<1> QED BY <1>1, <1>4, <1>5, <1>6, <1>7 DEF Grown

\* An update adds a generation behind the rows it has seen, now closed, and
\* those that it has not.
LEMMA RegenerateGrows ==
  ASSUME ObligationsTypeOK, NEW c \in Calls, RegenerateCommit(c)
  PROVE  /\ Grown /\ rows' # << >>
         /\ NewAre(tx[c].after, tx[c].locks, tx[c].seq)
         /\ \A j \in Rows : rows'[j].status \in Open => j \notin tx[c].sees
<1> DEFINE dates == Dates(today)
           seen == tx[c].sees
           new == NewRows(dates, tx[c].seq, tx[c].after, tx[c].locks, FALSE)
<1>1. /\ Len(rows) \in Nat /\ Rows = 1..Len(rows) /\ Round \in Nat /\ MaxRounds \in Nat
      /\ tx[c].seq \in Nat /\ tx[c].after \in Nat /\ tx[c].after <= MaxRounds
      /\ tx[c].locks \in BOOLEAN
  BY RowsAre, ObligationsConstants DEF ObligationsTypeOK, Tx
<1>2. Round < MaxRounds /\ rows' = Cancelled(seen) \o new
  BY DEF RegenerateCommit
<1>3. dates \in Seq(Days) /\ Len(dates) \in 0..MostNew /\ Len(dates) > 0
  <2>1. today \in Int /\ today >= today - 1 /\ today <= today + 1
    BY DEF ObligationsTypeOK
  <2> QED BY <2>1, DatesTyped
<1> HIDE DEF dates
<1>4. /\ new \in Seq(Row) /\ Len(new) = Len(dates)
      /\ \A n \in 1..Len(dates) :
           /\ new[n].seq = tx[c].seq + n /\ new[n].round = Round + 1
           /\ new[n].after = tx[c].after /\ new[n].locked = tx[c].locks
           /\ new[n].told = 0
  <2> DEFINE first == tx[c].seq
             after == tx[c].after
             lock == tx[c].locks
  <2>1. /\ first \in Nat /\ after \in Nat /\ after <= MaxRounds /\ lock \in BOOLEAN
        /\ FALSE \in BOOLEAN /\ dates \in Seq(Days) /\ Round < MaxRounds
    BY <1>1, <1>2, <1>3
  <2>2. new = NewRows(dates, first, after, lock, FALSE)
    OBVIOUS
  <2> HIDE DEF new, first, after, lock
  <2>3. NewIs(new, Len(dates), first, after, lock)
    BY <2>1, <2>2, NewTyped
  <2> QED BY <2>3 DEF NewIs, first, after, lock
<1> HIDE DEF new, seen
<1> DEFINE old == Cancelled(seen)
<1>5. /\ old \in Seq(Row) /\ Len(old) = Len(rows)
      /\ \A j \in Rows : /\ SameRow(old[j], rows[j])
                         /\ j \in seen => old[j].status \notin Open
                         /\ j \notin seen => old[j] = rows[j]
  BY CancelledTyped
<1> HIDE DEF old
<1>6. /\ rows' \in Seq(Row) /\ Len(rows') = Len(rows) + Len(dates)
      /\ \A j \in Rows : rows'[j] = old[j]
      /\ \A j \in 1..Len(rows') \ Rows : rows'[j] = new[j - Len(rows)]
                                         /\ j - Len(rows) \in 1..Len(dates)
  <2>0. rows' = old \o new
    BY <1>2 DEF old
  <2>1. Len(dates) \in Nat
    BY <1>3
  <2>s. old \in Seq(Row) /\ new \in Seq(Row) /\ Len(old) = Len(rows) /\ Len(new) = Len(dates)
    BY <1>4, <1>5
  <2>2. rows' \in Seq(Row)
    BY <2>0, <2>s
  <2>3. Len(rows') = Len(rows) + Len(dates)
    BY <2>0, <2>s, Joined
  <2>4. \A j \in Rows : rows'[j] = old[j]
    BY <1>1, <1>4, <1>5, <2>0
  <2>5. ASSUME NEW j \in 1..Len(rows') \ Rows
        PROVE  rows'[j] = new[j - Len(rows)] /\ j - Len(rows) \in 1..Len(dates)
    BY <1>1, <1>4, <1>5, <2>0, <2>1, <2>3
  <2> QED BY <2>2, <2>3, <2>4, <2>5
<1>7. \A j \in 1..Len(rows') \ Rows :
        /\ rows'[j].seq = tx[c].seq + (j - Len(rows))
        /\ rows'[j].round = Round + 1 /\ rows'[j].told = 0
        /\ rows'[j].after = tx[c].after /\ rows'[j].locked = tx[c].locks
  BY <1>4, <1>6
<1>8. Round' = Round + 1 /\ rows' # << >>
  <2>1. Len(rows') \in 1..Len(rows') \ Rows
    BY <1>1, <1>3, <1>6
  <2> QED BY <1>7, <2>1 DEF Round
<1>9. Len(rows') >= Len(rows) /\ Len(rows') <= Len(rows) + MostNew
  BY <1>1, <1>3, <1>6, MostTyped
<1>10. Grown
  BY <1>2, <1>5, <1>6, <1>7, <1>8, <1>9 DEF Grown
<1>11. NewAre(tx[c].after, tx[c].locks, tx[c].seq)
  BY <1>7 DEF NewAre
<1>12. \A j \in Rows : rows'[j].status \in Open => j \notin tx[c].sees
  BY <1>5, <1>6 DEF seen
<1> QED BY <1>8, <1>10, <1>11, <1>12

\* The steps that change the obligation or its occurrences.
LEMMA Movers ==
  ASSUME [ObligationsNext]_obligationsVars
  PROVE  \/ UNCHANGED <<billVars, closed, stray>>
         \/ DeleteAll
         \/ \E c \in Calls : \/ RegenerateCommit(c) \/ ArchiveCommit(c)
                             \/ \E day \in Starts, reminded \in BOOLEAN :
                                  CreateCommit(c, today + day, reminded)
         \/ \E i \in Rows, status \in {"PARTIALLY_PAID", "PAID"} : Pay(i, status)
         \/ \E r \in Runs : \E i \in run[r].list : OverdueNext(r, i) \/ RemindNext(r, i)
BY DEF ObligationsNext, RequestStep, RunStep, obligationsVars, billVars, historyVars, Tick,
       Crash, SignIn, SignUp, Drop, Create, Regenerate, Archive, Begin, RegenerateCancel,
       Deactivate, SetPreferences, OverdueList, RemindList, RunEnd

\* What a step does to the occurrences as a whole.
LEMMA RowsMove ==
  ASSUME ObligationsTypeOK, [ObligationsNext]_obligationsVars
  PROVE  \/ Kept
         \/ /\ Grown /\ account # "none"
            /\ \/ rows = << >> /\ bill = "none" /\ NewAre(0, TRUE, 0)
               \/ \E c \in Calls : RegenerateCommit(c)
         \/ rows' = << >> /\ account' = "none" /\ DeleteAll
<1>1. CASE UNCHANGED <<billVars, closed, stray>>
  BY <1>1 DEF billVars, Kept, SameOrigin, ObligationsTypeOK
<1>2. CASE DeleteAll
  BY <1>2 DEF DeleteAll, RowsLeft
<1>3. ASSUME NEW c \in Calls, ArchiveCommit(c) PROVE Kept
  BY <1>3, ArchiveChanges
<1>4. ASSUME NEW r \in Runs, NEW i \in run[r].list, OverdueNext(r, i) \/ RemindNext(r, i)
      PROVE  Kept
  <2>1. Kept \/ rows' = rows
    BY <1>4, OverdueChanges, RemindChanges
  <2> QED BY <2>1 DEF Kept, SameOrigin, ObligationsTypeOK
<1>5. ASSUME NEW c \in Calls, RegenerateCommit(c) PROVE Grown /\ account # "none"
  BY <1>5, RegenerateGrows DEF RegenerateCommit, ObligationsTypeOK
<1>6. ASSUME NEW c \in Calls, NEW day \in Starts, NEW reminded \in BOOLEAN,
             CreateCommit(c, today + day, reminded)
      PROVE  Grown /\ account # "none" /\ rows = << >> /\ bill = "none" /\ NewAre(0, TRUE, 0)
  BY <1>6, CreateGrows DEF CreateCommit
<1> QED BY <1>1, <1>2, <1>3, <1>4, <1>5, <1>6, Movers, PayChanges

\* The generation is that of the last occurrence.
LEMMA KeptRound == ASSUME ObligationsTypeOK, Kept PROVE Round' = Round
<1>1. Len(rows) \in Nat /\ Rows = 1..Len(rows)
  BY RowsAre
<1>2. rows' = << >> <=> rows = << >>
  BY <1>1 DEF Kept, ObligationsTypeOK
<1>3. rows # << >> => Len(rows) \in Rows
  BY <1>1 DEF ObligationsTypeOK
<1> QED BY <1>2, <1>3 DEF Kept, SameOrigin, Round

\* No more rows than the rounds allow: a generation counts as a round.
LEMMA FitStep ==
  ASSUME ObligationsTypeOK, RowsFit, [ObligationsNext]_obligationsVars
  PROVE  RowsFit'
<1>1. Len(rows) \in Nat /\ Round \in Nat /\ MostNew \in Nat
  BY RowsAre, MostTyped, ObligationsConstants
<1>2. CASE Kept
  BY <1>2, KeptRound DEF Kept, RowsFit, MostNew
<1>3. CASE rows' = << >>
  BY <1>3, MostTyped DEF RowsFit, Round, MostNew
<1>4. CASE Grown /\ rows' # << >>
  <2>1. Len(rows') \in Nat /\ Len(rows') <= Len(rows) + MostNew /\ Round' = Round + 1
    BY <1>1, <1>4 DEF Grown
  <2>2. (Round + 1) * MostNew = Round * MostNew + MostNew /\ Round * MostNew \in Nat
    BY <1>1
  <2>3. Len(rows') <= (Round + 1) * MostNew
    BY <1>1, <2>1, <2>2 DEF RowsFit
  <2> QED BY <2>1, <2>3 DEF RowsFit, MostNew
<1> QED BY <1>2, <1>3, <1>4, RowsMove

\* What a run lists has a type.
LEMMA IdTyped ==
  ASSUME ObligationsTypeOK, RowsFit, AccountCounts, NEW i \in Rows
  PROVE  i \in 1..MostRows /\ Id(i) \in (1..MaxLives) \X (1..MostRows)
<1>1. /\ Len(rows) \in Nat /\ Rows = 1..Len(rows) /\ Round \in Nat /\ Round <= MaxRounds
      /\ MostNew \in Nat /\ MaxRounds \in Nat
  BY RowsAre, MostTyped, ObligationsConstants
<1>2. lives \in 1..MaxLives
  <2>1. account # "none"
    BY <1>1 DEF ObligationsTypeOK
  <2> QED BY <2>1, ObligationsConstants DEF AccountCounts, ObligationsTypeOK
<1>3. Round * MostNew <= MaxRounds * MostNew /\ Round * MostNew \in Nat
      /\ MaxRounds * MostNew \in Nat
  <2>1. \A a, b, c \in Nat : a <= b => a * c <= b * c /\ a * c \in Nat /\ b * c \in Nat
    OBVIOUS
  <2> QED BY <1>1, <2>1
<1>4. i \in 1..MaxRounds * MostNew
  BY <1>1, <1>3 DEF RowsFit
<1>5. MaxRounds * MostNew = MostRows
  BY DEF MostNew, MostRows
<1> QED BY <1>2, <1>4, <1>5 DEF Id

\* The steps that change the account.
LEMMA AccountMoves ==
  ASSUME [ObligationsNext]_obligationsVars
  PROVE  \/ UNCHANGED accountVars
         \/ \E c \in Calls : SignUp(c)
         \/ Deactivate
         \/ DeleteAll
<1>1. ASSUME NEW r \in Runs, NEW i \in run[r].list, OverdueNext(r, i) \/ RemindNext(r, i)
      PROVE  UNCHANGED accountVars
  BY <1>1 DEF OverdueNext, RemindNext
<1>2. ASSUME NEW i \in Rows, NEW status \in {"PARTIALLY_PAID", "PAID"}, Pay(i, status)
      PROVE  UNCHANGED accountVars
  BY <1>2 DEF Pay
<1>3. ASSUME NEW c \in Calls, RequestStep, ~SignUp(c) PROVE
         UNCHANGED accountVars \/ \E d \in Calls : SignUp(d)
  BY <1>3 DEF RequestStep, SignIn, Drop, Create, Regenerate, Archive, Begin,
              RegenerateCancel, RegenerateCommit, ArchiveCommit, CreateCommit
<1>4. ASSUME NEW r \in Runs, OverdueList(r) \/ RemindList(r) \/ RunEnd(r)
      PROVE  UNCHANGED accountVars
  BY <1>4 DEF OverdueList, RemindList, RunEnd
<1>5. CASE Tick \/ Crash \/ SetPreferences \/ UNCHANGED obligationsVars
  BY <1>5 DEF Tick, Crash, SetPreferences, obligationsVars
<1>6. CASE RequestStep
  <2>1. PICK c \in Calls : TRUE
    BY <1>6 DEF RequestStep
  <2> QED BY <1>3, <1>6, <2>1
<1> QED BY <1>1, <1>2, <1>4, <1>5, <1>6 DEF ObligationsNext, RunStep

\* The lives of an account are counted at its first request, and only there.
LEMMA AccountStep ==
  ASSUME ObligationsTypeOK, AccountCounts, [ObligationsNext]_obligationsVars
  PROVE  AccountCounts'
<1>1. CASE UNCHANGED accountVars
  BY <1>1 DEF accountVars, AccountCounts
<1>2. ASSUME NEW c \in Calls, SignUp(c) PROVE AccountCounts'
  BY <1>2 DEF SignUp, AccountCounts, ObligationsTypeOK
<1>3. CASE Deactivate
  BY <1>3 DEF Deactivate, AccountCounts
<1>4. CASE DeleteAll
  BY <1>4 DEF DeleteAll, AccountCounts
<1> QED BY <1>1, <1>2, <1>3, <1>4, AccountMoves

-----------------------------------------------------------------------------
(* Type correctness                                                        *)

Lists == SUBSET ((1..MaxLives) \X (1..MostRows))
Asked == {"none", "signIn", "create", "regenerate", "archive"}
RunTyped == run \in [Runs -> [phase: {"idle", "overdue", "remind"}, list: Lists]]
CallsTyped == request \in [Calls -> Asked] /\ tx \in [Calls -> Tx]

\* No transaction has the type of one.
LEMMA NoTxTyped == NoTx \in Tx
BY ObligationsConstants DEF NoTx, Tx

\* The initial state has the declared types.
LEMMA TypeInit == ObligationsInit => ObligationsTypeOK
<1> SUFFICES ASSUME ObligationsInit PROVE ObligationsTypeOK
  OBVIOUS
<1>1. /\ MaxDay \in Nat /\ MaxLives \in Nat /\ MaxPaid \in Nat /\ MaxCrashes \in Nat
      /\ MaxRounds \in Nat
  BY ObligationsConstants
<1>2. rows \in Seq(Row)
  BY DEF ObligationsInit
<1>3. run \in [Runs -> [phase: {"idle", "overdue", "remind"}, list: Lists]]
  BY DEF ObligationsInit, IdleRun, Lists
<1>4. request \in [Calls -> Asked] /\ tx \in [Calls -> Tx]
  BY NoTxTyped DEF ObligationsInit, Asked
<1>5. today \in 0..MaxDay /\ lives \in 0..MaxLives /\ contributed \in 0..MaxPaid
      /\ crashes \in 0..MaxCrashes /\ closed \in 0..MaxRounds
  BY <1>1 DEF ObligationsInit
<1> QED BY <1>2, <1>3, <1>4, <1>5 DEF ObligationsInit, ObligationsTypeOK, Lists, Asked

\* Every step keeps the types of requests and transactions.
LEMMA CallsStep ==
  ASSUME ObligationsTypeOK, RowsFit, AccountCounts, HasHighest, TxKnown,
         [ObligationsNext]_obligationsVars
  PROVE  CallsTyped'
<1>t. request \in [Calls -> Asked] /\ tx \in [Calls -> Tx]
  BY DEF ObligationsTypeOK, Asked
<1>1. ASSUME NEW c \in Calls, NEW what \in Asked, Ask(c, what) PROVE CallsTyped'
  BY <1>1, <1>t DEF Ask, CallsTyped
<1>2. ASSUME NEW c \in Calls, request' = [request EXCEPT ![c] = "none"],
             tx' = [tx EXCEPT ![c] = NoTx]
      PROVE  CallsTyped'
  BY <1>2, <1>t, NoTxTyped DEF CallsTyped, Asked
<1>3. ASSUME NEW c \in Calls, NEW what, Answered(c, what) PROVE CallsTyped'
  BY <1>2, <1>3 DEF Answered
<1>4. CASE UNCHANGED requestVars
  BY <1>4, <1>t DEF requestVars, CallsTyped
<1>r. /\ Round \in 0..MaxRounds /\ Rows \subseteq 1..MostRows
      /\ LastSeq \in Nat
  BY RowsAre, IdTyped, LastIs
<1>5. ASSUME NEW c \in Calls, NEW locks \in BOOLEAN, Begin(c, locks) PROVE CallsTyped'
  <2> DEFINE t == [step |-> "begun", locks |-> locks, after |-> Round, sees |-> OpenRows,
                   seq |-> 0]
  <2>1. tx' = [tx EXCEPT ![c] = t] /\ request' = request
    BY <1>5 DEF Begin
  <2>2. OpenRows \in SUBSET (1..MostRows)
    BY <1>r DEF OpenRows
  <2>3. t \in Tx
    BY <1>r, <2>2 DEF Tx
  <2> HIDE DEF t
  <2> QED BY <1>t, <2>1, <2>3 DEF CallsTyped
<1>6. ASSUME NEW c \in Calls, RegenerateCancel(c) PROVE CallsTyped'
  <2> DEFINE t == [tx[c] EXCEPT !.step = "cancelled", !.sees = StillOpen(c), !.seq = LastSeq]
  <2>1. tx' = [tx EXCEPT ![c] = t] /\ request' = request
    BY <1>6, <1>t DEF RegenerateCancel
  <2>2. StillOpen(c) \in SUBSET (1..MostRows)
    BY <1>r DEF StillOpen, OpenRows
  <2>3. tx[c] \in Tx
    BY <1>t
  <2>4. t \in Tx
    BY <1>r, <2>2, <2>3 DEF Tx
  <2> HIDE DEF t
  <2> QED BY <1>t, <2>1, <2>4 DEF CallsTyped
<1>7. CASE Crash \/ DeleteAll
  <2>1. request' \in [Calls -> Asked]
    BY <1>7 DEF Crash, DeleteAll, Asked
  <2>2. tx' = [c \in Calls |-> NoTx]
    BY <1>7 DEF Crash, DeleteAll
  <2> QED BY <2>1, <2>2, NoTxTyped DEF CallsTyped
<1>8. ASSUME NEW c \in Calls, SignIn(c) \/ Create(c) \/ Regenerate(c) \/ Archive(c)
      PROVE  CallsTyped'
  BY <1>1, <1>8 DEF SignIn, Create, Regenerate, Archive, Asked
<1>9. ASSUME NEW c \in Calls, \/ SignUp(c) \/ Drop(c) \/ RegenerateCommit(c) \/ ArchiveCommit(c)
                              \/ \E day \in Starts, reminded \in BOOLEAN :
                                   CreateCommit(c, today + day, reminded)
      PROVE  CallsTyped'
  BY <1>2, <1>3, <1>9 DEF SignUp, Drop, RegenerateCommit, ArchiveCommit, CreateCommit
<1>10. CASE RequestStep
  BY <1>5, <1>6, <1>8, <1>9, <1>10 DEF RequestStep
<1>11. CASE \/ Tick \/ Deactivate \/ SetPreferences
            \/ \E i \in Rows, status \in {"PARTIALLY_PAID", "PAID"} : Pay(i, status)
            \/ \E r \in Runs : RunStep(r)
  BY <1>4, <1>11 DEF Tick, Deactivate, SetPreferences, Pay, RunStep, OverdueList, RemindList,
                     RunEnd, OverdueNext, RemindNext
<1>12. CASE UNCHANGED obligationsVars
  BY <1>4, <1>12 DEF obligationsVars
<1> QED BY <1>7, <1>10, <1>11, <1>12 DEF ObligationsNext

\* Every step keeps the types.
LEMMA TypeStep ==
  ASSUME ObligationsTypeOK, RowsFit, AccountCounts, HasHighest, TxKnown,
         [ObligationsNext]_obligationsVars
  PROVE  ObligationsTypeOK'
<1> USE DEF accountVars, billVars, historyVars
<1>c. /\ MaxDay \in Nat /\ MaxLives \in Nat /\ MaxPaid \in Nat /\ MaxCrashes \in Nat
      /\ MaxRounds \in Nat
      /\ lives \in Nat /\ contributed \in Nat /\ crashes \in Nat
  BY ObligationsConstants DEF ObligationsTypeOK
<1>q. /\ request' \in [Calls -> {"none", "signIn", "create", "regenerate", "archive"}]
      /\ tx' \in [Calls -> Tx]
  BY CallsStep DEF CallsTyped, Asked
<1>r. ASSUME NEW r \in Runs, NEW phase \in {"idle", "overdue", "remind"}, NEW list \in Lists,
             run' = [run EXCEPT ![r] = [phase |-> phase, list |-> list]]
      PROVE  RunTyped'
  BY <1>r DEF ObligationsTypeOK, Lists, RunTyped
<1>i. IdleRun = [phase |-> "idle", list |-> {}] /\ {} \in Lists
  BY DEF IdleRun, Lists
<1>t. /\ run \in [Runs -> [phase: {"idle", "overdue", "remind"}, list: Lists]]
      /\ RunTyped' => run' \in [Runs -> [phase: {"idle", "overdue", "remind"},
                                   list: SUBSET ((1..MaxLives) \X (1..MostRows))]]
  BY DEF ObligationsTypeOK, Lists, RunTyped
<1>1. CASE Tick
  BY <1>1, <1>c, <1>q DEF Tick, ObligationsTypeOK
<1>2. CASE Crash
  <2>1. RunTyped'
    BY <1>2, <1>i DEF Crash, RunTyped
  <2> QED BY <1>2, <1>c, <1>q, <1>t, <2>1 DEF Crash, ObligationsTypeOK
<1>3. ASSUME NEW c \in Calls, \/ SignIn(c) \/ Drop(c) \/ Create(c) \/ Regenerate(c) \/ Archive(c)
                              \/ RegenerateCancel(c) \/ \E locks \in BOOLEAN : Begin(c, locks)
      PROVE  ObligationsTypeOK'
  <2>2. UNCHANGED <<today, account, lives, bill, rows, contributed, inApp, run, crashes,
                    closed, stray, doubled>>
    BY <1>3 DEF SignIn, Drop, Create, Regenerate, Archive, Begin, RegenerateCancel
  <2> QED BY <1>q, <2>2 DEF ObligationsTypeOK
<1>4. ASSUME NEW c \in Calls, SignUp(c) PROVE ObligationsTypeOK'
  <2>1. lives' \in 0..MaxLives /\ account' = "active" /\ inApp' \in BOOLEAN
    BY <1>4, <1>c DEF SignUp
  <2>2. UNCHANGED <<today, bill, rows, contributed, run, crashes, closed, stray, doubled>>
    BY <1>4 DEF SignUp
  <2> QED BY <1>q, <2>1, <2>2 DEF ObligationsTypeOK
<1>5. CASE Deactivate
  BY <1>5, <1>q DEF Deactivate, ObligationsTypeOK
<1>6. CASE DeleteAll
  <2>2. rows' = << >> /\ rows' \in Seq(Row) /\ contributed' = 0 /\ bill' = "none"
        /\ account' = "none" /\ closed' \in 0..MaxRounds
    BY <1>6, <1>c DEF DeleteAll, RowsLeft
  <2>3. UNCHANGED <<today, lives, inApp, run, crashes, stray, doubled>> /\ contributed' = contributed
    BY <1>6 DEF DeleteAll
  <2> QED BY <1>q, <2>2, <2>3 DEF ObligationsTypeOK
<1>7. CASE SetPreferences
  BY <1>7, <1>q DEF SetPreferences, ObligationsTypeOK
<1>8. ASSUME NEW c \in Calls, NEW day \in Starts, NEW reminded \in BOOLEAN,
             CreateCommit(c, today + day, reminded)
      PROVE  ObligationsTypeOK'
  <2>1. rows' \in Seq(Row)
    BY <1>8, CreateGrows DEF Grown
  <2>2. /\ account # "none" /\ bill' = "active"
        /\ UNCHANGED <<today, account, lives, contributed, inApp, run, crashes, closed, stray,
                       doubled>>
    BY <1>8 DEF CreateCommit
  <2> QED BY <1>q, <2>1, <2>2 DEF ObligationsTypeOK
<1>9. ASSUME NEW c \in Calls, RegenerateCommit(c) PROVE ObligationsTypeOK'
  <2>1. rows' \in Seq(Row)
    BY <1>9, RegenerateGrows DEF Grown
  <2>2. /\ bill # "none"
        /\ UNCHANGED <<today, account, lives, bill, contributed, inApp, run, crashes, closed,
                       stray, doubled>>
    BY <1>9 DEF RegenerateCommit
  <2> QED BY <1>q, <2>1, <2>2 DEF ObligationsTypeOK
<1>10. ASSUME NEW c \in Calls, ArchiveCommit(c) PROVE ObligationsTypeOK'
  <2>1. rows' \in Seq(Row)
    BY <1>10, ArchiveChanges DEF Kept
  <2>2. /\ bill # "none" /\ bill' = "archived" /\ closed' = tx[c].after
        /\ UNCHANGED <<today, account, lives, contributed, inApp, run, crashes, stray, doubled>>
    BY <1>10 DEF ArchiveCommit
  <2>3. tx[c].after \in 0..MaxRounds
    BY DEF ObligationsTypeOK, Tx
  <2> QED BY <1>q, <2>1, <2>2, <2>3 DEF ObligationsTypeOK
<1>11. ASSUME NEW i \in Rows, NEW status \in {"PARTIALLY_PAID", "PAID"}, Pay(i, status)
       PROVE  ObligationsTypeOK'
  <2>1. rows' \in Seq(Row)
    BY <1>11, PayChanges DEF Kept
  <2>2. contributed' \in 0..MaxPaid
    BY <1>11, <1>c DEF Pay
  <2>3. rows # << >>
    BY RowsAre
  <2>4. UNCHANGED <<today, account, lives, bill, inApp, run, crashes, closed, stray, doubled>>
    BY <1>11 DEF Pay
  <2> QED BY <1>q, <2>1, <2>2, <2>3, <2>4 DEF ObligationsTypeOK
<1>l. ASSUME NEW S \in SUBSET Rows PROVE {Id(i) : i \in S} \in Lists
  BY IdTyped DEF Lists
<1>12. ASSUME NEW r \in Runs, OverdueList(r) PROVE ObligationsTypeOK'
  <2> DEFINE S == {j \in Rows : rows[j].status = "PENDING" /\ rows[j].due < today}
             list == {Id(i) : i \in S}
  <2>1. /\ run' = [run EXCEPT ![r] = [phase |-> "overdue", list |-> list]]
        /\ UNCHANGED <<today, account, lives, bill, rows, contributed, inApp, crashes,
                       closed, stray, doubled>>
    BY <1>12 DEF OverdueList
  <2>2. list \in Lists
    BY <1>l
  <2> HIDE DEF list
  <2>3. RunTyped'
    BY <1>r, <2>1, <2>2
  <2> QED BY <1>q, <1>t, <2>1, <2>3 DEF ObligationsTypeOK
<1>13. ASSUME NEW r \in Runs, RemindList(r) PROVE ObligationsTypeOK'
  <2> DEFINE list == {Id(i) : i \in DueReminders}
  <2>1. /\ run' = [run EXCEPT ![r] = [phase |-> "remind", list |-> list]]
        /\ doubled' \in BOOLEAN
        /\ UNCHANGED <<today, account, lives, bill, rows, contributed, inApp, crashes,
                       closed, stray>>
    BY <1>13 DEF RemindList
  <2>2. list \in Lists
    BY <1>l DEF DueReminders
  <2> HIDE DEF list
  <2>3. RunTyped'
    BY <1>r, <2>1, <2>2
  <2> QED BY <1>q, <1>t, <2>1, <2>3 DEF ObligationsTypeOK
<1>14. ASSUME NEW r \in Runs, RunEnd(r) PROVE ObligationsTypeOK'
  <2>1. run' = [run EXCEPT ![r] = [phase |-> "idle", list |-> {}]]
        /\ UNCHANGED <<today, account, lives, bill, rows, contributed, inApp, crashes,
                       closed, stray, doubled>>
    BY <1>14 DEF RunEnd, IdleRun
  <2>2. RunTyped'
    BY <1>i, <1>r, <2>1
  <2> QED BY <1>q, <1>t, <2>1, <2>2 DEF ObligationsTypeOK
<1>15. ASSUME NEW r \in Runs, NEW i \in run[r].list,
              \/ run' = [run EXCEPT ![r].list = @ \ {i}]
              \/ run' = [run EXCEPT ![r] = IdleRun]
       PROVE  RunTyped'
  <2>1. CASE run' = [run EXCEPT ![r] = IdleRun]
    BY <1>i, <1>r, <2>1
  <2>2. CASE run' = [run EXCEPT ![r].list = @ \ {i}]
    <3>1. run[r].list \ {i} \in Lists
      BY <1>t DEF Lists
    <3> QED BY <1>t, <2>2, <3>1 DEF RunTyped
  <2> QED BY <1>15, <2>1, <2>2
<1>16. ASSUME NEW r \in Runs, NEW i \in run[r].list, OverdueNext(r, i) \/ RemindNext(r, i)
       PROVE  ObligationsTypeOK'
  <2>1. RunTyped'
    BY <1>15, <1>16, OverdueChanges, RemindChanges
  <2>2. rows' \in Seq(Row) /\ (rows = << >> => rows' = << >>)
    <3>1. Kept \/ rows' = rows
      BY <1>16, OverdueChanges, RemindChanges
    <3>2. rows \in Seq(Row)
      BY DEF ObligationsTypeOK
    <3> QED BY <3>1, <3>2 DEF Kept
  <2>3. /\ stray' \in BOOLEAN
        /\ UNCHANGED <<today, account, lives, bill, contributed, inApp, crashes, closed, doubled>>
    BY <1>16 DEF OverdueNext, RemindNext, ObligationsTypeOK
  <2> QED BY <1>q, <1>t, <2>1, <2>2, <2>3 DEF ObligationsTypeOK
<1>17. CASE UNCHANGED obligationsVars
  BY <1>17, <1>q DEF obligationsVars, ObligationsTypeOK
<1> QED BY <1>1, <1>2, <1>3, <1>4, <1>5, <1>6, <1>7, <1>8, <1>9, <1>10, <1>11, <1>12, <1>13,
           <1>14, <1>16, <1>17 DEF ObligationsNext, RequestStep, RunStep

-----------------------------------------------------------------------------
(* What is open                                                            *)

\* A pass that writes only what is as it was listed opens nothing, and nothing
\* else does but a new generation.
LEMMA OpensNothing ==
  ASSUME ObligationsTypeOK, [ObligationsNext]_obligationsVars, ~stray', NEW j \in Rows,
         rows' # << >>, rows'[j].status \in Open
  PROVE  ~stray /\ rows[j].status \in Open
<1>1. CASE UNCHANGED <<billVars, closed, stray>>
  BY <1>1 DEF billVars
<1>2. CASE DeleteAll
  BY <1>2 DEF DeleteAll, RowsLeft
<1>3. ASSUME NEW c \in Calls, RegenerateCommit(c) PROVE ~stray /\ rows[j].status \in Open
  BY <1>3, RegenerateGrows DEF RegenerateCommit, historyVars, Grown
<1>4. ASSUME NEW c \in Calls, ArchiveCommit(c) PROVE ~stray /\ rows[j].status \in Open
  BY <1>4, ArchiveChanges DEF ArchiveCommit
<1>5. ASSUME NEW c \in Calls, NEW day \in Starts, NEW reminded \in BOOLEAN,
             CreateCommit(c, today + day, reminded)
      PROVE  FALSE
  <2>1. rows = << >>
    BY <1>5 DEF CreateCommit, ObligationsTypeOK
  <2> QED BY <2>1 DEF Rows
<1>6. ASSUME NEW i \in Rows, NEW status \in {"PARTIALLY_PAID", "PAID"}, Pay(i, status)
      PROVE  ~stray /\ rows[j].status \in Open
  <2>1. stray' = stray
    BY <1>6 DEF Pay, historyVars
  <2>2. rows'[i].status \notin Open /\ \A k \in Rows \ {i} : rows'[k] = rows[k]
    BY <1>6, PayChanges DEF Open
  <2> QED BY <2>1, <2>2
<1>7. ASSUME NEW r \in Runs, NEW i \in run[r].list, OverdueNext(r, i)
      PROVE  ~stray /\ rows[j].status \in Open
  <2>1. CASE UNCHANGED <<rows, stray>>
    BY <2>1
  <2>2. CASE /\ \A k \in Rows \ {i[2]} : rows'[k] = rows[k]
             /\ stray' = (stray \/ rows[i[2]].status # "PENDING")
    BY <2>2 DEF Open
  <2> QED BY <1>7, <2>1, <2>2, OverdueChanges
<1>8. ASSUME NEW r \in Runs, NEW i \in run[r].list, RemindNext(r, i)
      PROVE  ~stray /\ rows[j].status \in Open
  <2>1. stray' = stray
    BY <1>8 DEF RemindNext, historyVars
  <2>2. CASE UNCHANGED rows
    BY <2>1, <2>2
  <2>3. CASE /\ rows'[i[2]].status = rows[i[2]].status
             /\ \A k \in Rows \ {i[2]} : rows'[k] = rows[k]
    BY <2>1, <2>3
  <2> QED BY <1>8, <2>2, <2>3, RemindChanges
<1> QED BY <1>1, <1>2, <1>3, <1>4, <1>5, <1>6, <1>7, <1>8, Movers

\* Only an archive that has looked for what is open archives the obligation.
LEMMA ClosedMoves ==
  ASSUME [ObligationsNext]_obligationsVars
  PROVE  \/ closed' = closed /\ bill' = bill
         \/ closed' = closed /\ bill' = "active" /\ bill = "none"
         \/ \E c \in Calls : ArchiveCommit(c)
         \/ DeleteAll
<1>1. CASE UNCHANGED <<billVars, closed, stray>>
  BY <1>1 DEF billVars
<1>2. ASSUME NEW c \in Calls, RegenerateCommit(c) PROVE closed' = closed /\ bill' = bill
  BY <1>2 DEF RegenerateCommit, historyVars
<1>3. ASSUME NEW c \in Calls, NEW day \in Starts, NEW reminded \in BOOLEAN,
             CreateCommit(c, today + day, reminded)
      PROVE  closed' = closed /\ bill' = "active" /\ bill = "none"
  BY <1>3 DEF CreateCommit, historyVars
<1>4. ASSUME NEW i \in Rows, NEW status \in {"PARTIALLY_PAID", "PAID"}, Pay(i, status)
      PROVE  closed' = closed /\ bill' = bill
  BY <1>4 DEF Pay, historyVars
<1>5. ASSUME NEW r \in Runs, NEW i \in run[r].list, OverdueNext(r, i) \/ RemindNext(r, i)
      PROVE  closed' = closed /\ bill' = bill
  BY <1>5 DEF OverdueNext, RemindNext, historyVars
<1> QED BY <1>1, <1>2, <1>3, <1>4, <1>5, Movers

\* A transaction begins, cancels, ends, or waits.
LEMMA TxMoves ==
  ASSUME ObligationsTypeOK, [ObligationsNext]_obligationsVars, NEW c \in Calls
  PROVE  \/ tx'[c] = tx[c]
         \/ tx'[c] = NoTx
         \/ \E locks \in BOOLEAN : Begin(c, locks)
         \/ RegenerateCancel(c)
<1>t. tx \in [Calls -> Tx]
  BY DEF ObligationsTypeOK
<1>1. CASE tx' = tx
  BY <1>1
<1>2. ASSUME NEW d \in Calls, tx' = [tx EXCEPT ![d] = NoTx]
      PROVE  tx'[c] = tx[c] \/ tx'[c] = NoTx
  BY <1>2, <1>t
<1>3. ASSUME NEW d \in Calls, NEW locks \in BOOLEAN, Begin(d, locks)
      PROVE  tx'[c] = tx[c] \/ Begin(c, locks)
  BY <1>3, <1>t DEF Begin
<1>4. ASSUME NEW d \in Calls, RegenerateCancel(d) PROVE tx'[c] = tx[c] \/ RegenerateCancel(c)
  <2>1. CASE d = c
    BY <1>4, <2>1
  <2>2. CASE d # c
    BY <1>4, <1>t, <2>2 DEF RegenerateCancel
  <2> QED BY <2>1, <2>2
<1>5. ASSUME NEW d \in Calls, NEW what, Ask(d, what) \/ Answered(d, what)
      PROVE  tx'[c] = tx[c] \/ tx'[c] = NoTx
  BY <1>1, <1>2, <1>5 DEF Ask, Answered
<1>6. CASE Crash \/ DeleteAll
  BY <1>6 DEF Crash, DeleteAll
<1>7. CASE RequestStep
  BY <1>2, <1>3, <1>4, <1>5, <1>7 DEF RequestStep, SignIn, SignUp, Drop, Create, Regenerate,
     Archive, RegenerateCommit, ArchiveCommit, CreateCommit
<1>8. CASE \/ Tick \/ Deactivate \/ SetPreferences
           \/ \E i \in Rows, status \in {"PARTIALLY_PAID", "PAID"} : Pay(i, status)
           \/ \E r \in Runs : RunStep(r)
           \/ UNCHANGED obligationsVars
  BY <1>1, <1>8 DEF Tick, Deactivate, SetPreferences, Pay, RunStep, OverdueList, RemindList,
                    RunEnd, OverdueNext, RemindNext, requestVars, obligationsVars
<1> QED BY <1>6, <1>7, <1>8 DEF ObligationsNext

\* A transaction that begins, and one that cancels, leave the schedule alone.
LEMMA TxLooks ==
  ASSUME NEW c \in Calls, RegenerateCancel(c) \/ \E locks \in BOOLEAN : Begin(c, locks)
  PROVE  UNCHANGED <<bill, rows, closed, stray>> /\ Rows' = Rows /\ Round' = Round
BY DEF Begin, RegenerateCancel, billVars, historyVars, Rows, Round

\* Where the rows are after a step that keeps them or adds to them.
LEMMA RowsAfter ==
  ASSUME ObligationsTypeOK
  PROVE  /\ Kept => Rows' = Rows /\ Round' = Round
         /\ Grown => /\ Rows' = 1..Len(rows') /\ Rows \subseteq Rows'
                     /\ Len(rows') \in Nat /\ Len(rows) \in Nat
                     /\ Round' \in Nat /\ Round \in Nat
                     /\ rows' # << >> => Round' = Round + 1 /\ Len(rows') \in Rows'
                     /\ rows' = << >> => Rows = {} /\ Round' = 0 /\ Round = 0
<1>1. /\ Len(rows) \in Nat /\ Rows = 1..Len(rows) /\ Round \in Nat
      /\ (Round = 0 <=> rows = << >>) /\ (Len(rows) = 0 => rows = << >>)
  BY RowsAre DEF ObligationsTypeOK
<1>2. Kept => Rows' = Rows /\ Round' = Round
  BY <1>1, KeptRound DEF Kept, Rows
<1>3. ASSUME Grown
      PROVE  /\ Rows' = 1..Len(rows') /\ Rows \subseteq Rows'
             /\ Len(rows') \in Nat
  BY <1>1, <1>3 DEF Grown, Rows
<1>4. ASSUME Grown, rows' # << >>
      PROVE  Round' = Round + 1 /\ Len(rows') \in Rows'
  BY <1>3, <1>4 DEF Grown
<1>5. ASSUME Grown, rows' = << >>
      PROVE  Rows = {} /\ Round' = 0 /\ Round = 0
  <2>1. Len(rows) = 0
    BY <1>1, <1>5 DEF Grown
  <2> QED BY <1>1, <1>5, <2>1 DEF Round
<1> QED BY <1>1, <1>2, <1>3, <1>4, <1>5

\* Rounds are counted by the generations, and an archive knows no later one.
LEMMA RoundsStep ==
  ASSUME ObligationsTypeOK, RoundsUpTo, TxKnown, [ObligationsNext]_obligationsVars
  PROVE  RoundsUpTo'
<1>r. /\ Rows = 1..Len(rows) /\ closed \in Nat /\ Round \in Nat
      /\ \A i \in Rows : rows[i].round \in Nat
  BY RowsAre, ObligationsConstants DEF ObligationsTypeOK, Row
<1>1. \A i \in Rows' : rows'[i].round <= Round'
  <2>1. CASE Kept
    BY <2>1, RowsAfter DEF Kept, SameOrigin, RoundsUpTo
  <2>2. CASE Grown
    <3> SUFFICES ASSUME NEW i \in Rows' PROVE rows'[i].round <= Round'
      OBVIOUS
    <3>1. rows' # << >> /\ Round' = Round + 1
      BY <2>2, RowsAfter DEF Rows
    <3>2. CASE i \in Rows
      BY <1>r, <2>2, <3>1, <3>2 DEF Grown, SameRow, SameOrigin, RoundsUpTo
    <3>3. CASE i \notin Rows
      BY <1>r, <2>2, <3>1, <3>3, RowsAfter DEF Grown
    <3> QED BY <3>2, <3>3
  <2>3. CASE rows' = << >>
    BY <2>3 DEF Rows
  <2> QED BY <2>1, <2>2, <2>3, RowsMove
<1>2. closed' <= Round'
  <2>1. CASE DeleteAll
    BY <2>1 DEF DeleteAll, RowsLeft, Round
  <2>2. ASSUME NEW c \in Calls, ArchiveCommit(c) PROVE closed' <= Round'
    BY <2>2, ArchiveChanges, RowsAfter DEF ArchiveCommit, TxKnown
  <2>3. CASE closed' = closed /\ (Kept \/ Grown)
    BY <1>r, <2>3, RowsAfter DEF RoundsUpTo
  <2> QED BY <2>1, <2>2, <2>3, ClosedMoves, RowsMove
<1> QED BY <1>1, <1>2 DEF RoundsUpTo

\* What a transaction knows stays there: rows are added, and only the deletion,
\* which ends it, removes any.
LEMMA TxKnownStep ==
  ASSUME ObligationsTypeOK, TxKnown, [ObligationsNext]_obligationsVars
  PROVE  TxKnown'
<1> SUFFICES ASSUME NEW c \in Calls
             PROVE  /\ bill' = "none" => tx'[c] = NoTx
                    /\ tx'[c].after <= Round' /\ tx'[c].sees \subseteq Rows'
  BY DEF TxKnown
<1>t. /\ tx[c] \in Tx /\ tx[c].after \in Nat
      /\ Round \in Nat /\ (bill = "none" => tx[c] = NoTx)
      /\ tx[c].after <= Round /\ tx[c].sees \subseteq Rows
  BY RowsAre, ObligationsConstants DEF ObligationsTypeOK, Tx, TxKnown
<1>0. NoTx.after = 0 /\ NoTx.sees = {}
  BY DEF NoTx
<1>1. CASE DeleteAll
  BY <1>0, <1>1 DEF DeleteAll, RowsLeft, Round
<1>2. CASE ~DeleteAll
  <2>1. /\ Rows \subseteq Rows' /\ Round <= Round' /\ Round' \in Nat
    <3>1. Kept \/ Grown
      BY <1>2, RowsMove
    <3> QED BY <1>t, <3>1, RowsAfter
  <2>2. bill' = "none" => bill = "none"
    <3>1. ASSUME NEW d \in Calls, ArchiveCommit(d) PROVE bill' # "none"
      BY <3>1 DEF ArchiveCommit
    <3> QED BY <1>2, <3>1, ClosedMoves
  <2>3. CASE tx'[c] = tx[c]
    BY <1>t, <2>1, <2>2, <2>3
  <2>4. CASE tx'[c] = NoTx
    BY <1>0, <2>1, <2>4
  <2>5. ASSUME NEW locks \in BOOLEAN, Begin(c, locks)
        PROVE  bill' # "none" /\ tx'[c].after <= Round' /\ tx'[c].sees \subseteq Rows'
    <3>1. tx'[c] = [step |-> "begun", locks |-> locks, after |-> Round, sees |-> OpenRows,
                    seq |-> 0]
      BY <2>5 DEF Begin, ObligationsTypeOK
    <3>2. bill # "none" /\ bill' = bill /\ Rows' = Rows /\ Round' = Round
      BY <2>5, TxLooks DEF Begin
    <3> QED BY <1>t, <3>1, <3>2 DEF OpenRows
  <2>6. CASE RegenerateCancel(c)
    <3>1. tx'[c].after = tx[c].after /\ tx'[c].sees = StillOpen(c)
      BY <1>t, <2>6 DEF RegenerateCancel, ObligationsTypeOK, Tx
    <3>2. tx[c].step = "begun" /\ bill' = bill /\ Rows' = Rows /\ Round' = Round
      BY <2>6, TxLooks DEF RegenerateCancel
    <3>3. tx[c] # NoTx
      BY <3>2 DEF NoTx
    <3> QED BY <1>t, <3>1, <3>2, <3>3 DEF StillOpen
  <2> QED BY <2>3, <2>4, <2>5, <2>6, TxMoves
<1> QED BY <1>1, <1>2

\* A transaction goes on seeing all that is open of the generations it could see.
LEMMA OpenSeenStep ==
  ASSUME ObligationsTypeOK, TxKnown, OpenSeen, [ObligationsNext]_obligationsVars
  PROVE  OpenSeen'
<1> SUFFICES ASSUME ~stray', NEW c \in Calls, tx'[c].step # "none", NEW i \in Rows',
                    rows'[i].status \in Open, rows'[i].round <= tx'[c].after
             PROVE  i \in tx'[c].sees
  BY DEF OpenSeen
<1>n. rows' # << >>
  BY DEF Rows
<1>1. CASE tx'[c] = tx[c]
  <2>1. ASSUME i \in Rows, rows'[i].round = rows[i].round PROVE i \in tx[c].sees
    BY <1>1, <1>n, <2>1, OpensNothing DEF OpenSeen
  <2>2. CASE Kept
    BY <1>1, <2>1, <2>2, RowsAfter DEF Kept, SameOrigin
  <2>3. CASE Grown
    <3>1. i \in Rows => rows'[i].round = rows[i].round
      BY <2>3 DEF Grown, SameRow, SameOrigin
    <3>2. i \notin Rows => rows'[i].round = Round + 1
      BY <2>3, RowsAfter DEF Grown
    <3>3. tx[c].after <= Round /\ tx[c].after \in Nat /\ Round \in Nat
      BY RowsAre, ObligationsConstants DEF TxKnown, ObligationsTypeOK, Tx
    <3> QED BY <1>1, <2>1, <3>1, <3>2, <3>3
  <2> QED BY <1>1, <1>n, <2>2, <2>3, RowsMove
<1>2. CASE tx'[c] = NoTx
  BY <1>2 DEF NoTx
<1>3. ASSUME NEW locks \in BOOLEAN, Begin(c, locks) PROVE i \in tx'[c].sees
  <2>1. tx'[c].sees = OpenRows
    BY <1>3 DEF Begin, ObligationsTypeOK
  <2>2. rows' = rows /\ Rows' = Rows
    BY <1>3, TxLooks
  <2> QED BY <2>1, <2>2 DEF OpenRows, Cancels
<1>4. CASE RegenerateCancel(c)
  <2>1. tx'[c].after = tx[c].after /\ tx'[c].sees = StillOpen(c)
    BY <1>4 DEF RegenerateCancel, ObligationsTypeOK, Tx
  <2>2. tx[c].step # "none" /\ rows' = rows /\ Rows' = Rows /\ stray' = stray
    BY <1>4, TxLooks DEF RegenerateCancel
  <2> QED BY <2>1, <2>2 DEF OpenSeen, StillOpen, OpenRows, Cancels
<1> QED BY <1>1, <1>2, <1>3, <1>4, TxMoves

\* What a step leaves open is of no generation that the last one could see.
LEMMA OpenStep ==
  ASSUME ObligationsTypeOK, RoundsUpTo, TxKnown, OpenSeen, OpenAreLast,
         [ObligationsNext]_obligationsVars
  PROVE  OpenAreLast'
<1> SUFFICES ASSUME ~stray', NEW i \in Rows', rows'[i].status \in Open
             PROVE  /\ rows'[i].round > rows'[Len(rows')].after
                    /\ bill' = "archived" => rows'[i].round > closed'
  BY DEF OpenAreLast
<1>n. rows' # << >>
  BY DEF Rows
<1>r. /\ Rows = 1..Len(rows) /\ Len(rows) \in Nat /\ Round \in Nat /\ closed \in Nat
      /\ \A j \in Rows : rows[j].round \in Nat /\ rows[j].after \in Nat
      /\ closed <= Round /\ (rows # << >> => Len(rows) \in Rows)
      /\ \A c \in Calls : tx[c].after \in Nat /\ tx[c].after <= Round
  <2>1. /\ Rows = 1..Len(rows) /\ Len(rows) \in Nat /\ Round \in Nat /\ closed \in Nat
        /\ closed <= Round
    BY RowsAre, ObligationsConstants DEF ObligationsTypeOK, RoundsUpTo
  <2>2. \A j \in Rows : rows[j].round \in Nat /\ rows[j].after \in Nat
    BY RowsAre, ObligationsConstants DEF Row
  <2>3. rows # << >> => Len(rows) \in Rows
    BY <2>1 DEF ObligationsTypeOK
  <2>4. \A c \in Calls : tx[c].after \in Nat /\ tx[c].after <= Round
    BY ObligationsConstants DEF ObligationsTypeOK, TxKnown, Tx
  <2> QED BY <2>1, <2>2, <2>3, <2>4
<1>o. ASSUME i \in Rows
      PROVE  /\ ~stray /\ rows[i].status \in Open
             /\ rows[i].round > rows[Len(rows)].after
             /\ bill = "archived" => rows[i].round > closed
  BY <1>n, <1>o, OpensNothing DEF OpenAreLast
<1>1. CASE Kept
  <2>1. /\ i \in Rows /\ rows'[i].round = rows[i].round
        /\ rows'[Len(rows')].after = rows[Len(rows)].after
    <3>1. Rows' = Rows /\ Len(rows') = Len(rows) /\ rows # << >>
      BY <1>1, RowsAfter DEF Kept, Rows
    <3> QED BY <1>1, <1>r, <3>1 DEF Kept, SameOrigin
  <2>2. CASE closed' = closed /\ bill' = bill
    BY <1>o, <2>1, <2>2
  <2>3. CASE closed' = closed /\ bill' = "active"
    BY <1>o, <2>1, <2>3
  <2>4. ASSUME NEW c \in Calls, ArchiveCommit(c) PROVE rows'[i].round > closed'
    <3>1. tx[c].step # "none" /\ closed' = tx[c].after
      BY <2>4 DEF ArchiveCommit
    <3>2. i \notin tx[c].sees
      BY <2>1, <2>4, ArchiveChanges
    <3>3. ~(rows[i].round <= tx[c].after)
      BY <1>o, <2>1, <3>1, <3>2 DEF OpenSeen
    <3> QED BY <1>r, <2>1, <3>1, <3>3
  <2>5. CASE DeleteAll
    BY <1>n, <2>5 DEF DeleteAll, RowsLeft
  <2> QED BY <1>o, <2>1, <2>2, <2>3, <2>4, <2>5, ClosedMoves
<1>2. ASSUME Grown, NEW after \in Nat, NEW locked, NEW seq, NewAre(after, locked, seq),
             after <= Round, closed' = closed, bill' = "archived" => bill = "archived",
             i \in Rows => rows[i].round > after,
             i \notin Rows \/ Len(rows') \notin Rows
      PROVE  /\ rows'[i].round > rows'[Len(rows')].after
             /\ bill' = "archived" => rows'[i].round > closed'
  <2>1. Len(rows') \in 1..Len(rows') /\ Rows' = 1..Len(rows')
    BY <1>2, <1>n, RowsAfter
  <2>2. Len(rows') \notin Rows
    BY <1>2, <1>r, <2>1
  <2>3. rows'[Len(rows')].after = after
    BY <1>2, <2>1, <2>2 DEF NewAre
  <2>4. CASE i \in Rows
    <3>1. rows'[i].round = rows[i].round
      BY <1>2, <2>4 DEF Grown, SameRow, SameOrigin
    <3> QED BY <1>2, <1>o, <2>3, <2>4, <3>1
  <2>5. CASE i \notin Rows
    <3>1. rows'[i].round = Round + 1
      BY <1>2, <2>1, <2>5 DEF Grown
    <3> QED BY <1>2, <1>r, <2>3, <3>1
  <2> QED BY <2>4, <2>5
<1>3. ASSUME NEW c \in Calls, RegenerateCommit(c)
      PROVE  /\ rows'[i].round > rows'[Len(rows')].after
             /\ bill' = "archived" => rows'[i].round > closed'
  <2>1. /\ Grown /\ NewAre(tx[c].after, tx[c].locks, tx[c].seq)
        /\ i \in Rows => i \notin tx[c].sees
    BY <1>3, RegenerateGrows
  <2>2. tx[c].step # "none" /\ closed' = closed /\ bill' = bill
    BY <1>3 DEF RegenerateCommit, historyVars
  <2>3. i \in Rows => rows[i].round > tx[c].after
    BY <1>o, <1>r, <2>1, <2>2 DEF OpenSeen
  <2>4. Len(rows') \notin Rows
    <3>1. Round' = Round + 1
      BY <1>n, <2>1, RowsAfter
    <3>2. Len(rows') \in Rows => rows'[Len(rows')].round = rows[Len(rows')].round
      BY <2>1 DEF Grown, SameRow, SameOrigin
    <3>3. rows'[Len(rows')].round = Round'
      BY <1>n DEF Round
    <3> QED BY <1>r, <3>1, <3>2, <3>3 DEF RoundsUpTo
  <2> QED BY <1>2, <1>r, <2>1, <2>2, <2>3, <2>4
<1>4. CASE Grown /\ rows = << >> /\ bill = "none" /\ NewAre(0, TRUE, 0)
  <2>1. Rows = {} /\ 0 <= Round
    BY <1>4, <1>r DEF Rows
  <2>2. closed' = closed /\ (bill' = "archived" => bill = "archived")
    <3>1. ASSUME NEW c \in Calls, ArchiveCommit(c) PROVE FALSE
      BY <1>4, <3>1 DEF ArchiveCommit
    <3>2. ~DeleteAll
      BY <1>n DEF DeleteAll, RowsLeft
    <3> QED BY <3>1, <3>2, ClosedMoves
  <2> DEFINE zero == 0
             lock == TRUE
  <2>3. zero \in Nat /\ zero <= Round /\ NewAre(zero, lock, zero)
    BY <1>4, <2>1
  <2> HIDE DEF zero, lock
  <2> QED BY <1>2, <1>4, <2>1, <2>2, <2>3
<1> QED BY <1>1, <1>3, <1>4, <1>n, RowsMove

-----------------------------------------------------------------------------
(* Numbers and locks                                                       *)

\* A transaction that has read the highest number knows the numbers it could see.
LEMMA SeenStep ==
  ASSUME ObligationsTypeOK, HasHighest, TxKnown, NumbersSeen,
         [ObligationsNext]_obligationsVars
  PROVE  NumbersSeen'
<1> SUFFICES ASSUME NEW c \in Calls, tx'[c].step = "cancelled", NEW i \in Rows',
                    rows'[i].round <= tx'[c].after
             PROVE  rows'[i].seq <= tx'[c].seq
  BY DEF NumbersSeen
<1>n. rows' # << >>
  BY DEF Rows
<1>1. CASE tx'[c] = tx[c]
  <2>1. ASSUME i \in Rows, SameOrigin(rows'[i], rows[i]) PROVE rows'[i].seq <= tx[c].seq
    BY <1>1, <2>1 DEF NumbersSeen, SameOrigin
  <2>2. CASE Kept
    BY <1>1, <2>1, <2>2, RowsAfter DEF Kept
  <2>3. CASE Grown
    <3>1. i \in Rows => SameOrigin(rows'[i], rows[i])
      BY <2>3 DEF Grown, SameRow
    <3>2. i \notin Rows => rows'[i].round = Round + 1
      BY <2>3, RowsAfter DEF Grown
    <3>3. tx[c].after <= Round /\ tx[c].after \in Nat /\ Round \in Nat
      BY RowsAre, ObligationsConstants DEF TxKnown, ObligationsTypeOK, Tx
    <3> QED BY <1>1, <2>1, <3>1, <3>2, <3>3
  <2> QED BY <1>1, <1>n, <2>2, <2>3, RowsMove
<1>2. CASE tx'[c] = NoTx
  BY <1>2 DEF NoTx
<1>3. ASSUME NEW locks \in BOOLEAN, Begin(c, locks) PROVE FALSE
  BY <1>3 DEF Begin, ObligationsTypeOK
<1>4. CASE RegenerateCancel(c)
  <2>1. tx'[c].seq = LastSeq
    BY <1>4 DEF RegenerateCancel, ObligationsTypeOK, Tx
  <2>2. rows' = rows /\ Rows' = Rows
    BY <1>4, TxLooks
  <2> QED BY <2>1, <2>2, LastIs
<1> QED BY <1>1, <1>2, <1>3, <1>4, TxMoves

\* There is a highest number: the old one, or that of the last new occurrence.
LEMMA HighestStep ==
  ASSUME ObligationsTypeOK, HasHighest, [ObligationsNext]_obligationsVars
  PROVE  HasHighest'
<1>r. Len(rows) \in Nat /\ Rows = 1..Len(rows) /\ \A i \in Rows : rows[i].seq \in Nat
  BY RowsAre DEF Row
<1>1. CASE Kept
  <2>1. rows' # << >> => rows # << >>
    BY <1>1, <1>r DEF Kept, ObligationsTypeOK
  <2>2. Rows' = Rows /\ \A i \in Rows : rows'[i].seq = rows[i].seq
    BY <1>1, RowsAfter DEF Kept, SameOrigin
  <2> QED BY <2>1, <2>2 DEF HasHighest
<1>2. ASSUME Grown, NEW after, NEW locked, NEW seq \in Nat, NewAre(after, locked, seq)
      PROVE  HasHighest'
  <2> SUFFICES ASSUME rows' # << >>
               PROVE  \E j \in Rows' : \A i \in Rows' : rows'[i].seq <= rows'[j].seq
    BY DEF HasHighest
  <2> DEFINE n == Len(rows')
  <2>1. /\ Rows' = 1..n /\ Rows \subseteq Rows' /\ n \in Rows' /\ n \in Nat
        /\ n >= Len(rows)
    BY <1>2, RowsAfter DEF Grown
  <2>2. /\ \A i \in Rows : rows'[i].seq = rows[i].seq
        /\ \A i \in Rows' \ Rows : rows'[i].seq = seq + (i - Len(rows))
    BY <1>2, <2>1 DEF Grown, SameRow, SameOrigin, NewAre
  <2>3. CASE n = Len(rows)
    <3>1. Rows' = Rows /\ rows # << >>
      BY <1>r, <2>1, <2>3
    <3> QED BY <2>2, <3>1 DEF HasHighest
  <2>4. CASE n > Len(rows)
    <3> HIDE DEF n
    <3>1. n \in Rows' \ Rows
      BY <1>r, <2>1, <2>4
    <3>2. rows'[n].seq \in Nat /\ \A i \in Rows' \ Rows : rows'[i].seq <= rows'[n].seq
      BY <1>r, <2>1, <2>2, <2>4, <3>1
    <3>3. CASE rows = << >>
      <4>1. Rows = {}
        BY <3>3 DEF Rows
      <4> QED BY <2>1, <3>2, <4>1
    <3>4. CASE rows # << >>
      <4>1. PICK j \in Rows : \A i \in Rows : rows[i].seq <= rows[j].seq
        BY <3>4 DEF HasHighest
      <4>2. rows'[j].seq \in Nat /\ \A i \in Rows : rows'[i].seq <= rows'[j].seq
        BY <1>r, <2>2, <4>1
      <4>3. \A i \in Rows' : rows'[i].seq \in Nat
        BY <1>r, <2>1, <2>2
      <4>4. CASE rows'[j].seq <= rows'[n].seq
        <5>1. ASSUME NEW i \in Rows' PROVE rows'[i].seq <= rows'[n].seq
          <6>1. rows'[i].seq \in Nat /\ rows'[j].seq \in Nat /\ rows'[n].seq \in Nat
            BY <3>2, <4>2, <4>3
          <6>2. i \in Rows => rows'[i].seq <= rows'[j].seq
            BY <4>2
          <6>3. i \notin Rows => rows'[i].seq <= rows'[n].seq
            BY <3>2
          <6> QED BY <4>4, <6>1, <6>2, <6>3
        <5> QED BY <2>1, <5>1 DEF n
      <4>5. CASE rows'[n].seq <= rows'[j].seq
        <5>1. ASSUME NEW i \in Rows' PROVE rows'[i].seq <= rows'[j].seq
          <6>1. rows'[i].seq \in Nat /\ rows'[j].seq \in Nat /\ rows'[n].seq \in Nat
            BY <3>2, <4>2, <4>3
          <6>2. i \in Rows => rows'[i].seq <= rows'[j].seq
            BY <4>2
          <6>3. i \notin Rows => rows'[i].seq <= rows'[n].seq
            BY <3>2
          <6> QED BY <4>5, <6>1, <6>2, <6>3
        <5> QED BY <2>1, <4>1, <5>1
      <4> QED BY <3>2, <4>2, <4>4, <4>5
    <3> QED BY <3>3, <3>4
  <2> QED BY <1>r, <2>1, <2>3, <2>4
<1>3. ASSUME NEW c \in Calls, RegenerateCommit(c) PROVE HasHighest'
  <2>1. tx[c].seq \in Nat
    BY DEF ObligationsTypeOK, Tx
  <2> QED BY <1>2, <1>3, <2>1, RegenerateGrows
<1>4. CASE Grown /\ NewAre(0, TRUE, 0)
  <2> DEFINE zero == 0
  <2>1. zero \in Nat /\ NewAre(zero, TRUE, zero)
    BY <1>4
  <2> HIDE DEF zero
  <2> QED BY <1>2, <1>4, <2>1
<1>5. CASE rows' = << >>
  BY <1>5 DEF HasHighest
<1> QED BY <1>1, <1>3, <1>4, <1>5, RowsMove

\* Two numbers are the same only where generations overlapped: a transaction
\* numbers on from all it could see.
LEMMA ApartNumbersStep ==
  ASSUME ObligationsTypeOK, RoundsUpTo, TxKnown, NumbersSeen, NumbersApart,
         [ObligationsNext]_obligationsVars
  PROVE  NumbersApart'
<1> SUFFICES ASSUME NEW i \in Rows', NEW j \in Rows', i # j, rows'[i].seq = rows'[j].seq
             PROVE  Overlooked(i, j)' \/ Overlooked(j, i)'
  BY DEF NumbersApart
<1>n. rows' # << >>
  BY DEF Rows
<1>r. /\ Len(rows) \in Nat /\ Rows = 1..Len(rows) /\ Round \in Nat
      /\ \A k \in Rows : rows[k].seq \in Nat /\ rows[k].round \in Nat /\ rows[k].round <= Round
  BY RowsAre, ObligationsConstants DEF Row, RoundsUpTo
<1>s. ASSUME i \in Rows, j \in Rows, SameOrigin(rows'[i], rows[i]), SameOrigin(rows'[j], rows[j])
      PROVE  Overlooked(i, j)' \/ Overlooked(j, i)'
  BY <1>s DEF NumbersApart, Overlooked, SameOrigin
<1>1. CASE Kept
  BY <1>1, <1>s, RowsAfter DEF Kept
<1>2. ASSUME NEW c \in Calls, RegenerateCommit(c)
      PROVE  Overlooked(i, j)' \/ Overlooked(j, i)'
  <2>1. /\ Grown /\ NewAre(tx[c].after, tx[c].locks, tx[c].seq)
        /\ tx[c].seq \in Nat /\ tx[c].after \in Nat
    BY <1>2, RegenerateGrows, ObligationsConstants DEF ObligationsTypeOK, Tx
  <2>2. tx[c].step = "cancelled"
    BY <1>2 DEF RegenerateCommit
  <2>3. ASSUME NEW k \in Rows'
        PROVE  /\ k \in Rows => SameOrigin(rows'[k], rows[k])
               /\ k \notin Rows => /\ rows'[k].seq = tx[c].seq + (k - Len(rows))
                                   /\ rows'[k].after = tx[c].after
                                   /\ rows'[k].round = Round + 1
                                   /\ k \in Nat /\ k > Len(rows)
    BY <1>r, <2>1, <2>3, RowsAfter DEF Grown, SameRow, NewAre
  <2>4. ASSUME NEW k \in Rows, NEW l \in Rows' \ Rows, rows'[k].seq = rows'[l].seq,
               k \in Rows'
        PROVE  Overlooked(k, l)'
    <3>1. /\ rows'[k].seq = rows[k].seq /\ rows'[k].round = rows[k].round
          /\ rows'[l].seq > tx[c].seq
          /\ rows'[l].after = tx[c].after /\ rows'[l].round = Round + 1
      BY <1>r, <2>1, <2>3, <2>4 DEF SameOrigin
    <3>2. ~(rows[k].seq <= tx[c].seq)
      BY <1>r, <2>1, <2>4, <3>1
    <3>3. rows[k].round > tx[c].after
      BY <1>r, <2>1, <2>2, <3>2 DEF NumbersSeen
    <3> QED BY <1>r, <3>1, <3>3 DEF Overlooked
  <2>5. CASE i \in Rows /\ j \in Rows
    BY <1>s, <2>3, <2>5
  <2>6. CASE i \notin Rows /\ j \notin Rows
    BY <1>r, <2>1, <2>3, <2>6
  <2>7. CASE i \in Rows /\ j \notin Rows
    BY <2>4, <2>7
  <2>8. CASE i \notin Rows /\ j \in Rows
    BY <2>4, <2>8
  <2> QED BY <2>5, <2>6, <2>7, <2>8
<1>3. CASE Grown /\ rows = << >> /\ NewAre(0, TRUE, 0)
  <2>1. Len(rows) = 0 /\ Rows = {}
    BY <1>3 DEF Rows
  <2>2. Rows' = 1..Len(rows')
    BY <1>3, RowsAfter
  <2>3. /\ rows'[i].seq = 0 + (i - Len(rows)) /\ rows'[j].seq = 0 + (j - Len(rows))
        /\ i \in Int /\ j \in Int
    BY <1>3, <2>1, <2>2 DEF NewAre
  <2>4. i = j
    <3>1. i - Len(rows) = i /\ j - Len(rows) = j
      BY <2>1, <2>3
    <3>2. 0 + (i - Len(rows)) = 0 + (j - Len(rows))
      BY <2>3
    <3> QED BY <2>3, <3>1, <3>2
  <2> QED BY <2>4
<1> QED BY <1>1, <1>2, <1>3, <1>n, RowsMove

\* One transaction at a time has the obligation's row.
LEMMA ExcludeStep ==
  ASSUME ObligationsTypeOK, LocksExclude, [ObligationsNext]_obligationsVars
  PROVE  LocksExclude'
<1> SUFFICES ASSUME NEW c \in Calls, NEW d \in Calls, tx'[c].locks, tx'[d].locks
             PROVE  c = d
  BY DEF LocksExclude
<1>1. ASSUME NEW b \in Calls, tx'[b].locks
      PROVE  \/ tx[b].locks
             \/ \A a \in Calls : ~tx[a].locks /\ (a # b => tx'[a] = tx[a])
  <2>1. CASE tx'[b] = tx[b]
    BY <1>1, <2>1
  <2>2. CASE tx'[b] = NoTx
    BY <1>1, <2>2 DEF NoTx
  <2>3. ASSUME NEW locks \in BOOLEAN, Begin(b, locks)
        PROVE  \A a \in Calls : ~tx[a].locks /\ (a # b => tx'[a] = tx[a])
    <3>1. tx'[b].locks = locks /\ \A a \in Calls : a # b => tx'[a] = tx[a]
      BY <2>3 DEF Begin, ObligationsTypeOK
    <3> QED BY <1>1, <2>3, <3>1 DEF Begin
  <2>4. CASE RegenerateCancel(b)
    <3>1. tx'[b].locks = tx[b].locks
      BY <2>4 DEF RegenerateCancel, ObligationsTypeOK, Tx
    <3> QED BY <1>1, <3>1
  <2> QED BY <2>1, <2>2, <2>3, <2>4, TxMoves
<1> QED BY <1>1 DEF LocksExclude

\* While a transaction has the obligation's row, no other adds a generation that
\* had it too.
LEMMA UnseenStep ==
  ASSUME ObligationsTypeOK, RoundsUpTo, TxKnown, LocksExclude, LockedUnseen,
         [ObligationsNext]_obligationsVars
  PROVE  LockedUnseen'
<1> SUFFICES ASSUME NEW c \in Calls, tx'[c].locks, NEW i \in Rows', rows'[i].locked
             PROVE  rows'[i].round <= tx'[c].after
  BY DEF LockedUnseen
<1>n. rows' # << >>
  BY DEF Rows
<1>1. CASE tx'[c] = tx[c]
  <2>1. ASSUME i \in Rows, SameOrigin(rows'[i], rows[i]) PROVE rows'[i].round <= tx[c].after
    BY <1>1, <2>1 DEF LockedUnseen, SameOrigin
  <2>2. CASE Kept
    BY <1>1, <2>1, <2>2, RowsAfter DEF Kept
  <2>3. ASSUME Grown, i \in Rows PROVE rows'[i].round <= tx[c].after
    BY <2>1, <2>3 DEF Grown, SameRow
  <2>4. ASSUME NEW d \in Calls, RegenerateCommit(d), i \notin Rows PROVE FALSE
    <3>1. rows'[i].locked = tx[d].locks
      BY <2>4, RegenerateGrows, RowsAfter DEF NewAre
    <3>2. d = c
      BY <1>1, <3>1 DEF LocksExclude
    <3>3. tx'[d] = NoTx
      BY <2>4 DEF RegenerateCommit, Answered, ObligationsTypeOK
    <3> QED BY <3>2, <3>3 DEF NoTx
  <2>5. CASE bill = "none"
    BY <1>1, <2>5 DEF TxKnown, NoTx
  <2>6. ASSUME NEW d \in Calls, RegenerateCommit(d) PROVE rows'[i].round <= tx[c].after
    BY <2>3, <2>4, <2>6, RegenerateGrows
  <2> QED BY <1>1, <1>n, <2>2, <2>5, <2>6, RowsMove
<1>2. CASE tx'[c] = NoTx
  BY <1>2 DEF NoTx
<1>3. ASSUME NEW locks \in BOOLEAN, Begin(c, locks) PROVE rows'[i].round <= tx'[c].after
  <2>1. tx'[c].after = Round
    BY <1>3 DEF Begin, ObligationsTypeOK
  <2>2. rows' = rows /\ Rows' = Rows
    BY <1>3, TxLooks
  <2> QED BY <2>1, <2>2 DEF RoundsUpTo
<1>4. CASE RegenerateCancel(c)
  <2>1. tx'[c].after = tx[c].after /\ tx'[c].locks = tx[c].locks
    BY <1>4 DEF RegenerateCancel, ObligationsTypeOK, Tx
  <2>2. rows' = rows /\ Rows' = Rows
    BY <1>4, TxLooks
  <2> QED BY <2>1, <2>2 DEF LockedUnseen
<1> QED BY <1>1, <1>2, <1>3, <1>4, TxMoves

\* Of two generations that overlapped, one had not the obligation's row.
LEMMA LockedStep ==
  ASSUME ObligationsTypeOK, RoundsUpTo, TxKnown, LockedUnseen, LockedApart,
         [ObligationsNext]_obligationsVars
  PROVE  LockedApart'
<1> SUFFICES ASSUME NEW i \in Rows', NEW j \in Rows', Overlooked(i, j)',
                    rows'[i].locked, rows'[j].locked
             PROVE  FALSE
  BY DEF LockedApart
<1>n. rows' # << >>
  BY DEF Rows
<1>o. rows'[j].after < rows'[i].round /\ rows'[i].round < rows'[j].round
  BY DEF Overlooked
<1>r. /\ Round \in Nat
      /\ \A k \in Rows : rows[k].round \in Nat /\ rows[k].round <= Round
  BY RowsAre, ObligationsConstants DEF Row, RoundsUpTo
<1>s. ASSUME i \in Rows, j \in Rows, SameOrigin(rows'[i], rows[i]), SameOrigin(rows'[j], rows[j])
      PROVE  FALSE
  BY <1>o, <1>s DEF LockedApart, Overlooked, SameOrigin
<1>1. CASE Kept
  BY <1>1, <1>s, RowsAfter DEF Kept
<1>2. CASE Grown /\ i \notin Rows
  <2>1. rows'[i].round = Round + 1
    BY <1>2, RowsAfter DEF Grown
  <2>2. j \in Rows => rows'[j].round = rows[j].round
    BY <1>2 DEF Grown, SameRow, SameOrigin
  <2>3. j \notin Rows => rows'[j].round = Round + 1
    BY <1>2, RowsAfter DEF Grown
  <2> QED BY <1>o, <1>r, <2>1, <2>2, <2>3
<1>3. CASE Grown /\ i \in Rows /\ j \in Rows
  BY <1>3, <1>s DEF Grown, SameRow
<1>4. ASSUME NEW c \in Calls, RegenerateCommit(c), i \in Rows, j \notin Rows PROVE FALSE
  <2>1. Grown /\ rows'[j].locked = tx[c].locks /\ rows'[j].after = tx[c].after
    BY <1>4, RegenerateGrows, RowsAfter DEF NewAre
  <2>2. rows'[i].locked = rows[i].locked /\ rows'[i].round = rows[i].round
    BY <1>4, <2>1 DEF Grown, SameRow, SameOrigin
  <2>3. rows[i].round <= tx[c].after
    BY <1>4, <2>1, <2>2 DEF LockedUnseen
  <2>4. tx[c].after \in Nat
    BY ObligationsConstants DEF ObligationsTypeOK, Tx
  <2> QED BY <1>4, <1>o, <1>r, <2>1, <2>2, <2>3, <2>4
<1>5. CASE Grown /\ rows = << >>
  <2>1. i \notin Rows
    BY <1>5 DEF Rows
  <2> QED BY <1>2, <1>5, <2>1
<1> QED BY <1>1, <1>2, <1>3, <1>4, <1>5, <1>n, RowsMove

-----------------------------------------------------------------------------
(* What the runs have listed                                               *)

\* A run keeps what it has listed or a part of it, or lists what is there.
LEMMA RunMoves ==
  ASSUME ObligationsTypeOK, [ObligationsNext]_obligationsVars, NEW r \in Runs
  PROVE  \/ /\ run'[r].list \subseteq run[r].list
            /\ run'[r].phase = "remind" => run[r].phase = "remind"
         \/ /\ OverdueList(r)
            /\ run'[r].phase = "overdue" /\ run'[r].list \subseteq {Id(i) : i \in Rows}
            /\ UNCHANGED <<accountVars, rows>>
         \/ /\ RemindList(r)
            /\ run'[r].phase = "remind" /\ run'[r].list = {Id(i) : i \in DueReminders}
            /\ UNCHANGED <<today, accountVars, rows>>
<1>1. CASE run' = run
  BY <1>1
<1>2. ASSUME NEW q \in Runs, OverdueList(q)
      PROVE  \/ run'[r] = run[r]
             \/ /\ q = r
                /\ run'[r].phase = "overdue" /\ run'[r].list \subseteq {Id(i) : i \in Rows}
                /\ UNCHANGED <<accountVars, rows>>
  BY <1>2 DEF OverdueList, ObligationsTypeOK, billVars
<1>3. ASSUME NEW q \in Runs, RemindList(q)
      PROVE  \/ run'[r] = run[r]
             \/ /\ q = r
                /\ run'[r].phase = "remind" /\ run'[r].list = {Id(i) : i \in DueReminders}
                /\ UNCHANGED <<today, accountVars, rows>>
  BY <1>3 DEF RemindList, ObligationsTypeOK, billVars
<1>4. ASSUME NEW q \in Runs, \/ run' = [run EXCEPT ![q] = IdleRun]
                             \/ \E i : run' = [run EXCEPT ![q].list = @ \ {i}]
      PROVE  /\ run'[r].list \subseteq run[r].list
             /\ run'[r].phase = "remind" => run[r].phase = "remind"
  <2>1. run \in [Runs -> [phase: {"idle", "overdue", "remind"}, list: Lists]]
    BY DEF ObligationsTypeOK, Lists
  <2> QED BY <1>4, <2>1 DEF IdleRun
<1>5. ASSUME NEW q \in Runs, NEW i \in run[q].list, OverdueNext(q, i) \/ RemindNext(q, i)
      PROVE  \/ run' = [run EXCEPT ![q] = IdleRun]
             \/ run' = [run EXCEPT ![q].list = @ \ {i}]
  BY <1>5, OverdueChanges, RemindChanges
<1>6. ASSUME NEW q \in Runs, RunEnd(q) PROVE run' = [run EXCEPT ![q] = IdleRun]
  BY <1>6 DEF RunEnd
<1>7. CASE Crash
  BY <1>7 DEF Crash, IdleRun
<1>8. CASE RequestStep
  BY <1>1, <1>8 DEF RequestStep, SignIn, SignUp, Drop, Create, Regenerate, Archive, Begin,
                    RegenerateCancel, RegenerateCommit, ArchiveCommit, CreateCommit
<1>9. CASE Tick \/ Deactivate \/ DeleteAll \/ SetPreferences \/ UNCHANGED obligationsVars
  BY <1>1, <1>9 DEF Tick, Deactivate, DeleteAll, SetPreferences, obligationsVars
<1>10. ASSUME NEW i \in Rows, NEW status \in {"PARTIALLY_PAID", "PAID"}, Pay(i, status)
       PROVE  run' = run
  BY <1>10 DEF Pay
<1> QED BY <1>1, <1>2, <1>3, <1>4, <1>5, <1>6, <1>7, <1>8, <1>9, <1>10
        DEF ObligationsNext, RunStep

\* The account counts on, and what was listed before it is not of the next one.
LEMMA LivesMove ==
  ASSUME ObligationsTypeOK, [ObligationsNext]_obligationsVars
  PROVE  /\ lives \in Nat /\ lives' >= lives /\ lives' \in Nat
         /\ lives' = lives /\ account' # "none" => account # "none"
<1>0. lives \in Nat
  BY DEF ObligationsTypeOK
<1>1. ASSUME NEW c \in Calls, SignUp(c) PROVE lives' = lives + 1
  BY <1>1 DEF SignUp
<1>2. CASE Deactivate \/ DeleteAll
  BY <1>0, <1>2 DEF Deactivate, DeleteAll
<1>3. CASE UNCHANGED accountVars
  BY <1>0, <1>3 DEF accountVars
<1> QED BY <1>0, <1>1, <1>2, <1>3, AccountMoves

\* An occurrence that was listed stays where it is for as long as the account
\* exists.
LEMMA StaysThere ==
  ASSUME ObligationsTypeOK, ListsKnown, [ObligationsNext]_obligationsVars,
         NEW r \in Runs, NEW i \in run[r].list, i[1] = lives'
  PROVE  /\ lives' = lives
         /\ account' # "none" => i[2] \in Rows'
         /\ i[2] \in Rows' => /\ account # "none" /\ i[2] \in Rows
                              /\ rows'[i[2]].due = rows[i[2]].due
<1>r. Len(rows) \in Nat /\ Rows = 1..Len(rows) /\ (account = "none" => rows = << >>)
  BY RowsAre DEF ObligationsTypeOK
<1>1. i[1] <= lives /\ (i[1] = lives /\ account # "none" => i[2] \in Rows)
  BY DEF ListsKnown
<1>2. lives' = lives
  BY <1>1, LivesMove
<1>3. account' # "none" => account # "none"
  BY <1>2, LivesMove
<1>4. CASE Kept
  BY <1>r, <1>1, <1>2, <1>3, <1>4 DEF Kept, SameOrigin, Rows
<1>5. CASE Grown /\ account # "none"
  BY <1>r, <1>1, <1>2, <1>5 DEF Grown, SameRow, SameOrigin, Rows
<1>6. CASE rows' = << >> /\ account' = "none"
  BY <1>2, <1>6 DEF Rows
<1> QED BY <1>4, <1>5, <1>6, RowsMove

\* What a run has listed is a row there is, or one of an account that was
\* deleted since: rows are added, and only the deletion removes any.
LEMMA KnownStep ==
  ASSUME ObligationsTypeOK, ListsKnown, [ObligationsNext]_obligationsVars
  PROVE  ListsKnown'
<1> SUFFICES ASSUME NEW r \in Runs, NEW i \in run'[r].list
             PROVE  /\ i[1] <= lives'
                    /\ i[1] = lives' /\ account' # "none" => i[2] \in Rows'
  BY DEF ListsKnown
<1>1. CASE i \in run[r].list
  <2>1. i[1] <= lives /\ i[1] \in Nat
    BY <1>1 DEF ListsKnown, ObligationsTypeOK
  <2> QED BY <1>1, <2>1, LivesMove, StaysThere
<1>2. CASE UNCHANGED <<accountVars, rows>> /\ i \in {Id(j) : j \in Rows}
  <2>1. PICK j \in Rows : i = Id(j)
    BY <1>2
  <2>2. i[1] = lives /\ i[2] = j /\ lives' = lives /\ Rows' = Rows
    BY <1>2, <2>1 DEF Id, accountVars, Rows
  <2> QED BY <2>2, LivesMove
<1> QED BY <1>1, <1>2, RunMoves DEF DueReminders

-----------------------------------------------------------------------------
(* Reminders                                                               *)

\* An occurrence is reminded of only by a run that has listed it to remind.
LEMMA ToldMoves ==
  ASSUME ObligationsTypeOK, [ObligationsNext]_obligationsVars,
         NEW j \in Rows, rows' # << >>
  PROVE  \/ rows'[j].told = rows[j].told /\ rows'[j].reminder = rows[j].reminder
         \/ \E r \in Runs :
              /\ run[r].phase = "remind" /\ Id(j) \in run[r].list
              /\ run'[r].list = run[r].list \ {Id(j)}
              /\ rows'[j].reminder = "SENT"
              /\ rows'[j].told \in {rows[j].told, rows[j].told + 1}
<1>1. CASE UNCHANGED <<billVars, closed, stray>>
  BY <1>1 DEF billVars
<1>2. CASE DeleteAll
  BY <1>2 DEF DeleteAll, RowsLeft
<1>3. ASSUME NEW c \in Calls, RegenerateCommit(c)
      PROVE  rows'[j].told = rows[j].told /\ rows'[j].reminder = rows[j].reminder
  BY <1>3, RegenerateGrows DEF Grown, SameRow
<1>4. ASSUME NEW c \in Calls, NEW day \in Starts, NEW reminded \in BOOLEAN,
             CreateCommit(c, today + day, reminded)
      PROVE  FALSE
  <2>1. rows = << >>
    BY <1>4 DEF CreateCommit, ObligationsTypeOK
  <2> QED BY <2>1 DEF Rows
<1>5. ASSUME NEW c \in Calls, ArchiveCommit(c)
      PROVE  rows'[j].told = rows[j].told /\ rows'[j].reminder = rows[j].reminder
  BY <1>5, ArchiveChanges
<1>6. ASSUME NEW i \in Rows, NEW status \in {"PARTIALLY_PAID", "PAID"}, Pay(i, status)
      PROVE  rows'[j].told = rows[j].told /\ rows'[j].reminder = rows[j].reminder
  BY <1>6, PayChanges
<1>7. ASSUME NEW r \in Runs, NEW i \in run[r].list, OverdueNext(r, i)
      PROVE  rows'[j].told = rows[j].told /\ rows'[j].reminder = rows[j].reminder
  BY <1>7, OverdueChanges
<1>8. ASSUME NEW r \in Runs, NEW i \in run[r].list, RemindNext(r, i)
      PROVE  \/ rows'[j].told = rows[j].told /\ rows'[j].reminder = rows[j].reminder
             \/ /\ run[r].phase = "remind" /\ Id(j) \in run[r].list
                /\ run'[r].list = run[r].list \ {Id(j)}
                /\ rows'[j].reminder = "SENT"
                /\ rows'[j].told \in {rows[j].told, rows[j].told + 1}
  <2>1. CASE UNCHANGED rows \/ j # i[2]
    BY <1>8, <2>1, RemindChanges
  <2>2. CASE /\ i[1] = lives /\ j = i[2]
             /\ rows'[i[2]].reminder = "SENT"
             /\ rows'[i[2]].told \in {rows[i[2]].told, rows[i[2]].told + 1}
             /\ run' = [run EXCEPT ![r].list = @ \ {i}]
    <3>1. i = Id(j)
      BY <2>2 DEF ObligationsTypeOK, Id
    <3>2. run[r].phase = "remind"
      BY <1>8 DEF RemindNext
    <3>3. run'[r].list = run[r].list \ {i}
      BY <2>2 DEF ObligationsTypeOK
    <3> QED BY <2>2, <3>1, <3>2, <3>3
  <2> QED BY <1>8, <2>1, <2>2, RemindChanges
<1> QED BY <1>1, <1>2, <1>3, <1>4, <1>5, <1>6, <1>7, <1>8, Movers

\* Time goes on, and two lists that have met stay so in history.
LEMMA HistoryMoves ==
  ASSUME ObligationsTypeOK, [ObligationsNext]_obligationsVars
  PROVE  /\ today \in Int /\ today' \in Int /\ today' >= today
         /\ doubled => doubled'
<1>0. today \in Int
  BY DEF ObligationsTypeOK
<1>1. today' = today \/ today' = today + 1
  BY DEF ObligationsNext, RequestStep, RunStep, obligationsVars, Tick, Crash, SignIn, SignUp,
         Drop, Create, Regenerate, Archive, Begin, RegenerateCancel, Deactivate,
         SetPreferences, OverdueList,
         RemindList, RunEnd, DeleteAll, RegenerateCommit, ArchiveCommit, CreateCommit, Pay,
         OverdueNext, RemindNext
<1>2. doubled' = doubled \/ \E r \in Runs : RemindList(r)
  BY DEF historyVars, ObligationsNext, RequestStep, RunStep, obligationsVars, Tick, Crash, SignIn, SignUp,
         Drop, Create, Regenerate, Archive, Begin, RegenerateCancel, Deactivate,
         SetPreferences, OverdueList,
         RunEnd, DeleteAll, RegenerateCommit, ArchiveCommit, CreateCommit, Pay,
         OverdueNext, RemindNext
<1>3. ASSUME NEW r \in Runs, RemindList(r) PROVE doubled => doubled'
  BY <1>3 DEF RemindList
<1> QED BY <1>0, <1>1, <1>2, <1>3

\* Unless two runs have listed the same reminder, two runs have none in common.
LEMMA ApartStep ==
  ASSUME ObligationsTypeOK, ListsApart, [ObligationsNext]_obligationsVars
  PROVE  ListsApart'
<1> SUFFICES ASSUME ~doubled', NEW q \in Runs, NEW r \in Runs, q # r,
                    run'[q].phase = "remind", run'[r].phase = "remind"
             PROVE  run'[q].list \cap run'[r].list = {}
  BY DEF ListsApart
<1>1. ~doubled
  BY HistoryMoves
<1>2. ASSUME NEW a \in Runs, NEW b \in Runs, a # b, RemindList(a), run'[b].phase = "remind"
      PROVE  run'[b].list \cap run'[a].list = {}
  <2> DEFINE list == {Id(i) : i \in DueReminders}
  <2>1. /\ run' = [run EXCEPT ![a] = [phase |-> "remind", list |-> list]]
        /\ doubled' = (doubled \/ \E c \in Runs \ {a} :
                         run[c].phase = "remind" /\ run[c].list \cap list # {})
    BY <1>2 DEF RemindList
  <2> HIDE DEF list
  <2>2. run'[b] = run[b] /\ run'[a].list = list
    BY <1>2, <2>1 DEF ObligationsTypeOK
  <2> QED BY <1>2, <2>1, <2>2
<1>3. CASE RemindList(q) \/ RemindList(r)
  BY <1>2, <1>3
<1>4. CASE ~RemindList(q) /\ ~RemindList(r)
  <2>1. /\ run'[q].list \subseteq run[q].list /\ run[q].phase = "remind"
        /\ run'[r].list \subseteq run[r].list /\ run[r].phase = "remind"
    BY <1>4, RunMoves
  <2> QED BY <1>1, <2>1 DEF ListsApart
<1> QED BY <1>3, <1>4

\* What a run has listed to remind of was due when listed and stays due, and
\* unless two runs list it nobody has been told of it.
LEMMA DueStep ==
  ASSUME ObligationsTypeOK, ListsKnown, ListsDue, ListsApart, RemindedOnce,
         [ObligationsNext]_obligationsVars
  PROVE  ListsDue'
<1> SUFFICES ASSUME NEW r \in Runs, run'[r].phase = "remind", NEW i \in run'[r].list,
                    i[1] = lives', i[2] \in Rows'
             PROVE  /\ rows'[i[2]].due - 1 <= today'
                    /\ ~doubled' => rows'[i[2]].told = 0
  BY DEF ListsDue
<1>1. CASE /\ run'[r].list = {Id(j) : j \in DueReminders}
           /\ UNCHANGED <<today, accountVars, rows>>
  <2>1. PICK j \in DueReminders : i = Id(j)
    BY <1>1
  <2>2. j \in Rows /\ i[2] = j /\ rows[j].reminder = "SCHEDULED" /\ rows[j].due - 1 <= today
    BY <2>1 DEF Id, DueReminders
  <2>3. rows[j].told = 0
    <3>1. rows[j].told \in Nat
      BY <2>2, RowsAre DEF Row
    <3> QED BY <2>2, <3>1 DEF RemindedOnce
  <2> QED BY <1>1, <2>2, <2>3
<1>2. CASE run'[r].list \subseteq run[r].list /\ run[r].phase = "remind"
  <2> DEFINE j == i[2]
  <2>1. i \in run[r].list
    BY <1>2
  <2>2. lives' = lives /\ j \in Rows /\ rows'[j].due = rows[j].due
    BY <2>1, StaysThere
  <2>3. i = Id(j)
    BY <2>1, <2>2 DEF Id, ObligationsTypeOK
  <2>4. rows[j].due - 1 <= today /\ (~doubled => rows[j].told = 0)
    BY <1>2, <2>1, <2>2 DEF ListsDue
  <2>5. rows[j].due \in Int
    BY <2>2, RowsAre DEF Row, Days
  <2>6. rows'[j].due - 1 <= today'
    BY <2>2, <2>4, <2>5, HistoryMoves
  <2>7. ASSUME ~doubled' PROVE rows'[j].told = 0
    <3>1. ~doubled /\ rows[j].told = 0
      BY <2>4, <2>7, HistoryMoves
    <3>2. ASSUME NEW q \in Runs, run[q].phase = "remind", Id(j) \in run[q].list,
                 run'[q].list = run[q].list \ {Id(j)}
          PROVE  FALSE
      <4>1. CASE q = r
        BY <2>3, <3>2, <4>1
      <4>2. CASE q # r
        BY <1>2, <2>1, <2>3, <3>1, <3>2, <4>2 DEF ListsApart
      <4> QED BY <4>1, <4>2
    <3>3. rows' # << >>
      BY DEF Rows
    <3> QED BY <2>2, <3>1, <3>2, <3>3, ToldMoves
  <2> QED BY <2>6, <2>7
<1> QED BY <1>1, <1>2, RunMoves

\* A step leaves every occurrence with one notification at most, at its time.
LEMMA RemindedStep ==
  ASSUME ObligationsTypeOK, ListsDue, RemindedOnce,
         [ObligationsNext]_obligationsVars
  PROVE  RemindedOnce'
<1> SUFFICES ASSUME NEW j \in Rows'
             PROVE  /\ rows'[j].told > 0 => rows'[j].reminder = "SENT" /\ rows'[j].due - 1 <= today'
                    /\ ~doubled' => rows'[j].told <= 1
  BY DEF RemindedOnce
<1>r. Len(rows) \in Nat /\ Rows = 1..Len(rows) /\ \A i \in Rows : rows[i] \in Row
  BY RowsAre
<1>n. rows' # << >>
  BY DEF Rows
<1>1. CASE j \in Rows /\ rows'[j].due = rows[j].due
  <2>1. /\ rows[j].told \in Nat /\ rows[j].due \in Int
        /\ rows[j].told > 0 => rows[j].reminder = "SENT" /\ rows[j].due - 1 <= today
        /\ ~doubled => rows[j].told <= 1
    BY <1>r, <1>1 DEF RemindedOnce, Row, Days
  <2>2. CASE rows'[j].told = rows[j].told /\ rows'[j].reminder = rows[j].reminder
    BY <1>1, <2>1, <2>2, HistoryMoves
  <2>3. ASSUME NEW r \in Runs, run[r].phase = "remind", Id(j) \in run[r].list,
               rows'[j].reminder = "SENT",
               rows'[j].told \in {rows[j].told, rows[j].told + 1}
        PROVE  /\ rows'[j].told > 0 => rows'[j].reminder = "SENT" /\ rows'[j].due - 1 <= today'
               /\ ~doubled' => rows'[j].told <= 1
    <3>1. rows[j].due - 1 <= today /\ (~doubled => rows[j].told = 0)
      BY <1>1, <2>3 DEF ListsDue, Id
    <3> QED BY <1>1, <2>1, <2>3, <3>1, HistoryMoves
  <2> QED BY <1>1, <1>n, <2>2, <2>3, ToldMoves
<1>2. CASE j \in 1..Len(rows') \ Rows /\ Grown
  BY <1>2 DEF Grown
<1>3. CASE Kept
  <2>1. j \in Rows /\ rows'[j].due = rows[j].due
    BY <1>r, <1>3 DEF Kept, SameOrigin, Rows
  <2> QED BY <1>1, <2>1
<1>4. CASE Grown
  <2>1. Rows' = 1..Len(rows')
    BY <1>4 DEF Grown, Rows
  <2>2. j \in Rows => rows'[j].due = rows[j].due
    BY <1>4 DEF Grown, SameRow, SameOrigin
  <2> QED BY <1>1, <1>2, <1>4, <2>1, <2>2
<1> QED BY <1>n, <1>3, <1>4, RowsMove

-----------------------------------------------------------------------------
(* Theorems                                                                *)

\* The inductive invariant holds of every reachable state.
LEMMA ScheduleIsSafe == ObligationsSpec => []ScheduleSafe
<1>1. ObligationsInit => ScheduleSafe
  <2> SUFFICES ASSUME ObligationsInit PROVE ScheduleSafe
    OBVIOUS
  <2>1. rows = << >> /\ Rows = {} /\ Len(rows) = 0 /\ Round = 0 /\ account = "none"
    BY DEF ObligationsInit, Rows, Round
  <2>2. \A r \in Runs : run[r].phase = "idle" /\ run[r].list = {}
    BY DEF ObligationsInit, IdleRun
  <2>3. RowsFit
    BY <2>1, MostTyped DEF RowsFit
  <2>4. /\ AccountCounts /\ HasHighest /\ OpenSeen /\ OpenAreLast /\ NumbersApart
        /\ LockedUnseen /\ LockedApart /\ RemindedOnce
    BY <2>1 DEF AccountCounts, HasHighest, OpenSeen, OpenAreLast, NumbersApart,
                LockedUnseen, LockedApart, RemindedOnce
  <2>t. \A c \in Calls : tx[c] = NoTx
    BY DEF ObligationsInit
  <2>6. TxKnown /\ NumbersSeen /\ LocksExclude
    BY <2>1, <2>t DEF TxKnown, NumbersSeen, LocksExclude, NoTx
  <2>7. RoundsUpTo
    BY <2>1 DEF RoundsUpTo, ObligationsInit
  <2>5. ListsKnown /\ ListsDue /\ ListsApart
    BY <2>2 DEF ListsKnown, ListsDue, ListsApart
  <2> QED BY <2>3, <2>4, <2>5, <2>6, <2>7, TypeInit DEF ScheduleSafe
<1>2. ScheduleSafe /\ [ObligationsNext]_obligationsVars => ScheduleSafe'
  BY TypeStep, FitStep, AccountStep, RoundsStep, HighestStep, TxKnownStep, OpenSeenStep,
     OpenStep, SeenStep, ApartNumbersStep, ExcludeStep, UnseenStep, LockedStep, KnownStep,
     ApartStep, DueStep, RemindedStep DEF ScheduleSafe
<1> QED BY <1>1, <1>2, PTL DEF ObligationsSpec

\* Accounts, obligations, occurrences and the lists of the runs keep their types:
\* no schedule outgrows the rows that a run may list, and without an account or
\* an obligation there are none.
THEOREM SchedulesTyped == ObligationsSpec => []ObligationsTypeOK
<1>1. ScheduleSafe => ObligationsTypeOK
  BY DEF ScheduleSafe
<1> QED BY <1>1, ScheduleIsSafe, PTL

\* However many regenerations and archives overlap, with passes and payments
\* between their statements, each closes all it could see and numbers on from
\* it, and two that overlook each other's occurrences are never both of updates
\* that set something of the obligation (update, archive).
THEOREM RoundsCloseTheLast == ObligationsSpec => []EachRoundClosesTheLast
<1>1. ScheduleSafe => EachRoundClosesTheLast
  <2> SUFFICES ASSUME ScheduleSafe PROVE EachRoundClosesTheLast
    OBVIOUS
  <2>1. ASSUME ~stray, NEW i \in Rows, rows[i].status \in Open
        PROVE  /\ rows[i].round = Round \/ Overlooked(i, Len(rows))
               /\ bill = "archived" => rows[i].round > closed
    <3>1. rows # << >> /\ Round = rows[Len(rows)].round
      BY DEF Rows, Round
    <3>t. ObligationsTypeOK
      BY DEF ScheduleSafe
    <3>l. Len(rows) \in Rows
      BY <3>1, <3>t, RowsAre DEF ObligationsTypeOK
    <3>2. rows[i].round \in Nat /\ Round \in Nat /\ rows[Len(rows)].after \in Nat
      <4>1. rows[i] \in Row /\ rows[Len(rows)] \in Row
        BY <3>t, <3>l, RowsAre
      <4>2. Round \in Nat
        BY <3>t, RowsAre, ObligationsConstants
      <4>3. \A x \in Row : x.round \in Nat /\ x.after \in Nat
        BY ObligationsConstants DEF Row
      <4> QED BY <4>1, <4>2, <4>3
    <3>3. rows[i].round <= Round
      BY DEF ScheduleSafe, RoundsUpTo
    <3>4. /\ rows[i].round > rows[Len(rows)].after
          /\ bill = "archived" => rows[i].round > closed
      BY <2>1 DEF ScheduleSafe, OpenAreLast
    <3> QED BY <2>1, <3>1, <3>2, <3>3, <3>4 DEF Overlooked
  <2>2. NumbersApart /\ LockedApart
    BY DEF ScheduleSafe
  <2> QED BY <2>1, <2>2 DEF EachRoundClosesTheLast, NumbersApart, LockedApart
<1> QED BY <1>1, ScheduleIsSafe, PTL

\* With any number of runs and crashes, a reminder is sent at its time and once:
\* a second notification takes two runs that have listed it (processDueReminders).
THEOREM RemindersOnce == ObligationsSpec => []RemindedOnce
<1>1. ScheduleSafe => RemindedOnce
  BY DEF ScheduleSafe
<1> QED BY <1>1, ScheduleIsSafe, PTL

=============================================================================
