--------------------------- MODULE PayDeskProofs ----------------------------
(***************************************************************************)
(* Proofs about the pages on which a bill is paid, for any bills, keys,    *)
(* requests and visits: what the service does to the payments of Payments  *)
(* is a behaviour of theirs, a page tells the truth, and a page that stays *)
(* open pays once.                                                         *)
(***************************************************************************)
EXTENDS PayDeskProps, PaymentsProofs, FiniteSetTheorems

-----------------------------------------------------------------------------
(* The inductive invariant                                                 *)

\* A request that pays, or that makes something new, and waits at the service.
Payment(x) == x.kind \in {"pay", "new"}
Asking(x) == Payment(x) /\ x.step = "sent"
Refused(x) == Payment(x) /\ x.step \in {"balance", "scan"}
\* A page waits for its payment, or for the balance before it.
Paying(x) == x.kind \in {"check", "pay"} /\ x.live

\* The key of a payment was drawn for its kind, by the visit that goes on if the
\* page may send it again.
KeysDrawn == \A c \in Sends : Payment(send[c]) =>
    send[c].key \in Keys /\ use[send[c].key].kind = send[c].kind
AttemptDrawn == attempt # None =>
    desk # NoPage /\ use[attempt.key] = [visit |-> opened, kind |-> "pay"]
DrawnBefore == \A k \in Keys : use[k].visit <= opened

\* Something new is asked for once.
NewOnce == \A c, d \in Sends :
    send[c].kind = "new" /\ send[d].kind = "new" /\ send[c].key = send[d].key => c = d

\* Requests wait for the page that is open, and it pays one thing at a time.
LiveOnPage == \A c \in Sends : send[c].kind # "none" /\ send[c].live => desk # NoPage
OnePays == \A c, d \in Sends : Paying(send[c]) /\ Paying(send[d]) => c = d
AttemptIsPaid == \A c \in Sends : Paying(send[c]) =>
    IF send[c].kind = "check" THEN attempt = None
    ELSE attempt # None /\ attempt.key = send[c].key

\* A success names a payment that was made.  A refusal names one that was not and,
\* but for a copy on its way, cannot be any more.
AnswersTrue == \A c \in Sends :
    Payment(send[c]) /\ send[c].step = "ok" => Made(send[c].key)
Hopeless(k) == ~Made(k) /\ \A d \in Sends : Asking(send[d]) => send[d].key # k
RefusalsTrue == \A c \in Sends :
    Refused(send[c]) /\ send[c].live /\ send[c].key \notin strays => Hopeless(send[c].key)
NewUnmade == \A c \in Sends : Asking(send[c]) /\ send[c].kind = "new" => ~Made(send[c].key)

\* What a page said was not made it never asks for again.
DeniedForGood == \A k \in denied :
    /\ use[k].kind # "none"
    /\ attempt # None => attempt.key # k
    /\ k \notin strays \cup lost => Hopeless(k)
\* Only something new is given up for lost.
LostAreNew == \A k \in lost : use[k].kind = "new"

\* A visit draws a new key only when those it has drawn were refused.
DrawsInTurn == \A j, k \in Keys :
    use[j] = use[k] /\ use[j].kind = "pay" /\ j # k => j \in denied \/ k \in denied
Drawn(k) == use[k] = [visit |-> opened, kind |-> "pay"]
MayDraw == /\ desk # NoPage /\ attempt = None
           /\ recorded = None \/ \E c \in Sends : send[c].kind = "check" /\ send[c].live
NextDraw == MayDraw => \A k \in Keys : Drawn(k) => k \in denied
LastDraw == attempt # None => \A k \in Keys : Drawn(k) /\ k # attempt.key => k \in denied

RecordedIsMade == recorded # None => Made(recorded)

Asks == KeysDrawn /\ AttemptDrawn /\ DrawnBefore /\ NewOnce /\ LiveOnPage /\ OnePays /\ AttemptIsPaid
Tells ==
    AnswersTrue /\ RefusalsTrue /\ NewUnmade /\ DeniedForGood /\ LostAreNew /\ RecordedIsMade
Draws == DrawsInTurn /\ NextDraw /\ LastDraw

DeskSafe == Typed /\ DeskTypeOK /\ Asks /\ Tells /\ Draws

-----------------------------------------------------------------------------
(* What the pages do to the payments                                       *)

\* Where there is nothing there is no request, key or attempt.
LEMMA NothingIsSomething == NoSend.kind = "none" /\ Unused.kind = "none" /\ None \notin Attempts
BY DeskConstants DEF NoSend, Unused, Attempts

\* A request is a record, or there is none.
LEMMA SendIs ==
  ASSUME DeskTypeOK, NEW c \in Sends
  PROVE  /\ send[c] = NoSend \/ send[c] \in Send
         /\ send[c] \in Send <=> send[c] # NoSend
         /\ send[c] # NoSend <=> send[c].kind # "none"
         /\ send[c] \in Send =>
              /\ send[c].kind \in {"check", "pay", "new"}
              /\ send[c].key \in Keys \cup {None} /\ send[c].amount \in Nat \ {0}
              /\ send[c].scan \in Scans \cup {None} /\ send[c].seen \in Balances
              /\ send[c].step \in {"sent", "ok", "balance", "scan"} /\ send[c].live \in BOOLEAN
<1>1. send[c] \in Send \cup {NoSend} /\ NoSend.kind = "none"
  BY NothingIsSomething DEF DeskTypeOK
<1>2. send[c] \in Send => send[c].kind \in {"check", "pay", "new"}
  BY DEF Send
<1> QED BY <1>1, <1>2 DEF Send

\* A contribution of a page is one of the steps of Payments.
LEMMA ServeIsPayment ==
  ASSUME Typed, DeskTypeOK, NEW c \in Sends, send[c] \in Send, send[c].key \in Keys,
         NEW late \in BOOLEAN,
         CreateContribution(Bill, send[c].key, send[c].amount, send[c].scan, late)
  PROVE  Next
<1>1. /\ Bill \in Occs /\ send[c].scan \in Scans \cup {None}
      /\ send[c].amount \in Nat \ {0} /\ amountPaid[Bill] \in Nat /\ AmountDue[Bill] \in Nat
  BY SendIs, DeskConstants, PaymentConstants DEF Typed, TypeOK
<1>2. amountPaid[Bill] + send[c].amount <= AmountDue[Bill]
  BY DEF CreateContribution, AmountFits
<1>3. send[c].amount \in 1..AmountDue[Bill]
  BY <1>1, <1>2
<1> QED BY <1>1, <1>3 DEF Next, ContributionStep

\* A key of a request that pays is one of the keys.
LEMMA KeyIs ==
  ASSUME DeskTypeOK, KeysDrawn, NEW c \in Sends, Payment(send[c])
  PROVE  send[c] \in Send /\ send[c] # NoSend /\ send[c].key \in Keys /\ send[c].key # None
<1>1. send[c].key \in Keys /\ send[c] \in Send
  BY SendIs, NothingIsSomething DEF KeysDrawn, Payment
<1> QED BY <1>1, SendIs, NoneIsNoRow

\* Pages and service change the payments by steps of Payments, or not at all.
LEMMA DeskPays ==
  ASSUME Typed, DeskTypeOK, KeysDrawn, [DeskNext]_deskVars
  PROVE  [Next]_vars
<1> USE DeskConstants
<1>1. CASE UNCHANGED deskVars \/ DeskStep
  BY <1>1 DEF deskVars, DeskStep
<1>2. ASSUME NEW c \in Sends, Serve(c) PROVE [Next]_vars
  <2>1. Payment(send[c])
    BY <1>2 DEF Serve, Payment
  <2> QED BY <1>2, <2>1, KeyIs, ServeIsPayment DEF Serve
<1>3. ASSUME NEW c \in Sends, ServeNew(c) PROVE [Next]_vars
  <2>1. Payment(send[c])
    BY <1>3 DEF ServeNew, Payment
  <2>2. send[c].key \in Keys /\ send[c].scan \in Scans \cup {None}
    BY <2>1, KeyIs, SendIs
  <2> QED BY <1>3, <2>2 DEF ServeNew, Next, ContributionStep
<1>4. CASE ServeStep
  BY <1>2, <1>3, <1>4 DEF ServeStep, ServeContribution, ServeConfirm
<1>5. CASE MeanwhileStep
  <2>1. scanned \subseteq Scans
    BY DEF DeskTypeOK
  <2>2. ASSUME NEW o \in Occs, NEW k \in Keys, NEW s \in scanned \cup {None},
               NEW a \in 1..AmountDue[o], CreateContribution(o, k, a, s, FALSE)
        PROVE  Next
    BY <2>1, <2>2 DEF Next, ContributionStep
  <2>3. ASSUME NEW o \in Occs, NEW k \in Keys, NEW s \in scanned \cup {None}, CreateSettled(o, k, s)
        PROVE  Next
    BY <2>1, <2>3 DEF Next, ContributionStep
  <2> QED BY <1>5, <2>2, <2>3 DEF MeanwhileStep, Next
<1> QED BY <1>1, <1>4, <1>5 DEF DeskNext

\* A payment that was made stays made.
LEMMA MadeStays ==
  ASSUME Typed, [Next]_vars, NEW k \in Keys, Made(k)
  PROVE  Made(k)'
<1> USE NoneIsNoRow
<1>1. ASSUME NEW o, NEW j, NEW a, NEW s, Post(o, j, a, s), FreshKey(j) PROVE Made(k)'
  BY <1>1 DEF Post, FreshKey, Made, Typed, TypeOK
<1>2. ASSUME NEW v \in Voiders, VoidCommit(v) PROVE Made(k)'
  <2>1. voiding[v] \in Keys /\ row[voiding[v]] \in Contribution
    BY <1>2 DEF Typed, TypeOK, VoidingHasRow, VoidCommit
  <2>2. [row[voiding[v]] EXCEPT !.state = "VOIDED"] \in Contribution
    BY <2>1 DEF Contribution
  <2> QED BY <1>2, <2>1, <2>2 DEF VoidCommit, Made, Typed, TypeOK
<1>3. CASE UNCHANGED row
  BY <1>3 DEF Made
<1>4. CASE ContributionStep
  <2>1. ASSUME NEW o, NEW j, NEW a, NEW s, NEW late, CreateContribution(o, j, a, s, late)
        PROVE  Made(k)'
    BY <1>1, <2>1 DEF CreateContribution
  <2>2. ASSUME NEW o, NEW j, NEW s, CreateSettled(o, j, s) PROVE Made(k)'
    BY <1>1, <2>2 DEF CreateSettled
  <2> QED BY <1>4, <2>1, <2>2 DEF ContributionStep
<1>5. CASE VoidStep
  BY <1>2, <1>3, <1>5 DEF VoidStep, VoidRead, VoidAbort, dbVars
<1>6. CASE LogStep \/ ObligationStep
  BY <1>3, <1>6 DEF LogStep, LogRead, LogCommit, LogAbort, ObligationStep, CreateOccurrence,
     CancelUnpaid, dbVars
<1>7. ASSUME NEW r \in Runs, RunStep(r) \/ RunCrash(r) PROVE Made(k)'
  BY <1>3, <1>7 DEF RunStep, OverdueScan, MarkOverdue, MissedScan, MarkMissed, RunEnd, RunCrash,
     dbVars
<1>8. CASE Tick \/ UNCHANGED vars
  BY <1>3, <1>8 DEF Tick, dbVars, vars
<1> QED BY <1>4, <1>5, <1>6, <1>7, <1>8 DEF Next

\* What others pay meanwhile has keys the pages have not drawn.
LEMMA OthersPay ==
  ASSUME Typed, MeanwhileStep, NEW k \in Keys, ~Made(k), Made(k)'
  PROVE  use[k] = Unused
<1>1. ASSUME NEW j \in Keys, use[j] = Unused, NEW o, NEW a, NEW s, Post(o, j, a, s)
      PROVE  use[k] = Unused
  BY <1>1 DEF Post, Made, Typed, TypeOK
<1>2. ASSUME NEW v \in Voiders, VoidCommit(v) PROVE FALSE
  <2>1. voiding[v] \in Keys /\ Made(voiding[v])
    BY <1>2 DEF Typed, TypeOK, VoidingHasRow, VoidCommit, Made
  <2> QED BY <1>2, <2>1 DEF VoidCommit, Made, Typed, TypeOK
<1>3. CASE UNCHANGED row
  BY <1>3 DEF Made
<1> QED BY <1>1, <1>2, <1>3
        DEF MeanwhileStep, CreateContribution, CreateSettled, VoidStep, VoidRead, VoidAbort,
            LogStep, LogRead, LogCommit, LogAbort, ObligationStep, CreateOccurrence, CancelUnpaid,
            RunStep, OverdueScan, MarkOverdue, MissedScan, MarkMissed, RunEnd, Tick, dbVars

-----------------------------------------------------------------------------
(* How requests change                                                     *)

OthersKept(c) == \A d \in Sends \ {c} : send'[d] = send[d]

\* A request that is sent off: what it asks, and that a page waits.
LEMMA SendOffIs ==
  ASSUME DeskTypeOK, NEW c \in Sends, NEW kind \in {"check", "pay", "new"},
         NEW k \in Keys \cup {None}, NEW a \in Nat \ {0}, SendOff(c, kind, k, a)
  PROVE  /\ send' \in [Sends -> Send \cup {NoSend}] /\ OthersKept(c)
         /\ send'[c].kind = kind /\ send'[c].key = k /\ send'[c].amount = a
         /\ send'[c].step = "sent" /\ send'[c].live
<1> DEFINE x == [kind |-> kind, key |-> k, amount |-> a, scan |-> desk.scan,
                 seen |-> IF kind = "check" THEN shown ELSE NoBalance,
                 step |-> "sent", live |-> TRUE]
<1>1. NoBalance \in Balances
  BY DEF NoBalance, Balances, Status
<1>2. desk.scan \in Scans \cup {None} /\ shown \in Balances
  BY DEF DeskTypeOK
<1>3. /\ x \in Send /\ x.kind = kind /\ x.key = k /\ x.amount = a
      /\ x.step = "sent" /\ x.live
  BY <1>1, <1>2 DEF Send
<1>4. send' = [send EXCEPT ![c] = x]
  BY DEF SendOff
<1> HIDE DEF x
<1> QED BY <1>3, <1>4 DEF DeskTypeOK, OthersKept

\* A request that is answered stays what it was but for its step.
LEMMA RespondIs ==
  ASSUME DeskTypeOK, NEW c \in Sends, send[c] \in Send,
         NEW step \in {"ok", "balance", "scan"}, Respond(c, step)
  PROVE  /\ send' \in [Sends -> Send \cup {NoSend}] /\ OthersKept(c)
         /\ send'[c].kind = send[c].kind /\ send'[c].key = send[c].key
         /\ send'[c].step = step /\ send'[c].live = send[c].live
<1> DEFINE x == [send[c] EXCEPT !.step = step]
<1>1. /\ x \in Send /\ x.kind = send[c].kind /\ x.key = send[c].key
      /\ x.step = step /\ x.live = send[c].live
  BY DEF Send
<1>2. send' = [send EXCEPT ![c] = x]
  BY DEF Respond
<1> HIDE DEF x
<1> QED BY <1>1, <1>2 DEF DeskTypeOK, OthersKept

\* A request that nobody waits for any more.
LEMMA LeftIs ==
  ASSUME NEW x \in Send
  PROVE  LET y == [x EXCEPT !.live = FALSE] IN
         /\ y \in Send /\ y.kind = x.kind /\ y.key = x.key
         /\ y.step = x.step /\ ~y.live
BY DEF Send

\* A request that ends.
LEMMA DropIs ==
  ASSUME DeskTypeOK, NEW c \in Sends, send' = [send EXCEPT ![c] = NoSend]
  PROVE  /\ send' \in [Sends -> Send \cup {NoSend}] /\ OthersKept(c)
         /\ send'[c] = NoSend /\ send'[c].kind = "none"
BY NothingIsSomething DEF DeskTypeOK, OthersKept

-----------------------------------------------------------------------------
(* Kinds of steps                                                          *)

\* The page is opened, or loads something; nothing is asked.
Looks ==
    /\ UNCHANGED <<row, send, use, denied, lost, strays, attempt, recorded>>
    /\ \/ UNCHANGED <<desk, opened>>
       \/ desk = NoPage /\ desk' # NoPage /\ opened' = opened + 1

\* A request begins.
AsksBalance(c) ==
    /\ UNCHANGED <<row, desk, opened, use, denied, lost, strays, attempt, recorded>>
    /\ recorded = None /\ attempt = None /\ desk # NoPage /\ ~Waiting({"check", "pay"})
    /\ OthersKept(c) /\ send'[c].kind = "check" /\ send'[c].live
AsksAgain(c) ==
    /\ UNCHANGED <<row, desk, opened, use, denied, lost, strays, attempt, recorded>>
    /\ recorded = None /\ attempt # None /\ desk # NoPage /\ ~Waiting({"check", "pay"})
    /\ OthersKept(c) /\ send'[c].kind = "pay" /\ send'[c].live
    /\ send'[c].key = attempt.key /\ send'[c].step = "sent"
AsksFirst(c, k) ==
    /\ UNCHANGED <<row, desk, opened, denied, lost, strays, recorded>>
    /\ send[c].kind = "check" /\ send[c].live
    /\ Drawable(k) /\ Draw(k, "pay") /\ attempt' # None /\ attempt'.key = k
    /\ OthersKept(c) /\ send'[c].kind = "pay" /\ send'[c].live
    /\ send'[c].key = k /\ send'[c].step = "sent"
AsksNew(c, k) ==
    /\ UNCHANGED <<row, desk, opened, denied, lost, strays, attempt, recorded>>
    /\ desk # NoPage /\ recorded = None /\ send[c] = NoSend
    /\ Drawable(k) /\ Draw(k, "new")
    /\ OthersKept(c) /\ send'[c].kind = "new" /\ send'[c].live
    /\ send'[c].key = k /\ send'[c].step = "sent"

\* A request ends: its answer is taken, or it is forgotten.
Forgets(c) ==
    /\ UNCHANGED <<row, desk, opened, use, denied, lost, strays, attempt, recorded>>
    /\ OthersKept(c) /\ send'[c].kind = "none"
TakesOk(c) ==
    /\ UNCHANGED <<row, desk, opened, use, denied, lost, strays>>
    /\ OthersKept(c) /\ send'[c].kind = "none"
    /\ Payment(send[c]) /\ send[c].live /\ send[c].step = "ok"
    /\ recorded' = send[c].key
    /\ attempt' = IF send[c].kind = "pay" THEN None ELSE attempt
TakesRefusal(c) ==
    /\ UNCHANGED <<row, desk, opened, use, recorded, lost, strays>>
    /\ OthersKept(c) /\ send'[c].kind = "none"
    /\ Refused(send[c]) /\ send[c].live
    /\ denied' = denied \cup {send[c].key}
    /\ attempt' = IF send[c].kind = "pay" THEN None ELSE attempt

\* A page stops waiting for a payment, of something new, or for all of them.
Leaves(c) ==
    /\ UNCHANGED <<row, desk, opened, use, denied, lost, strays, attempt, recorded>>
    /\ OthersKept(c) /\ Payment(send[c])
    /\ send'[c].kind = send[c].kind /\ send'[c].key = send[c].key
    /\ send'[c].step = send[c].step /\ ~send'[c].live
LeavesNew(c) ==
    /\ UNCHANGED <<row, desk, opened, use, strays, attempt, recorded>>
    /\ OthersKept(c) /\ send[c].kind = "new" /\ send[c].key \in Keys
    /\ send'[c].kind = "new" /\ send'[c].key = send[c].key
    /\ send'[c].step = send[c].step /\ ~send'[c].live
    /\ denied' = denied \cup {send[c].key} /\ lost' = lost \cup {send[c].key}
LeavesAll ==
    /\ UNCHANGED <<row, opened, use, denied, lost, strays>>
    /\ desk' = NoPage /\ attempt' = None /\ recorded' = None
    /\ \A c \in Sends : \/ send'[c].kind = "none"
                        \/ /\ Payment(send[c])
                           /\ send'[c].kind = send[c].kind /\ send'[c].key = send[c].key
                           /\ send'[c].step = send[c].step /\ ~send'[c].live

\* The service answers.
Answers(c) ==
    /\ UNCHANGED <<desk, opened, use, denied, lost, attempt, recorded>>
    /\ OthersKept(c) /\ Asking(send[c])
    /\ send'[c].kind = send[c].kind /\ send'[c].key = send[c].key
    /\ send'[c].live = send[c].live
Fulfils(c, k) ==
    /\ Answers(c) /\ UNCHANGED strays /\ send'[c].step = "ok" /\ k = send[c].key
    /\ Made(k)' /\ \A j \in Keys \ {k} : Made(j)' <=> Made(j)
Rejects(c) ==
    /\ Answers(c) /\ UNCHANGED row /\ send'[c].step \in {"balance", "scan"}
    /\ IF send[c].kind = "pay"
       THEN /\ ~Made(send[c].key)
            /\ strays' = IF Copies(c) = {} THEN strays ELSE strays \cup {send[c].key}
       ELSE UNCHANGED strays

\* Others pay.
Elsewise ==
    /\ UNCHANGED <<pageVars, send, use, denied, lost, strays>>
    /\ \A k \in Keys : /\ Made(k) => Made(k)'
                       /\ Made(k)' => Made(k) \/ use[k] = Unused

DeskKinds ==
    \/ Looks \/ LeavesAll \/ Elsewise
    \/ \E c \in Sends :
         \/ AsksBalance(c) \/ AsksAgain(c) \/ Forgets(c)
         \/ \E k \in Keys : AsksFirst(c, k) \/ AsksNew(c, k) \/ Fulfils(c, k)
         \/ TakesOk(c) \/ TakesRefusal(c) \/ Leaves(c) \/ LeavesNew(c) \/ Rejects(c)

\* A press of a button keeps the types.
LEMMA PressKinds ==
  ASSUME Typed, DeskTypeOK, KeysDrawn, NEW c \in Sends,
         UNCHANGED <<vars, others, strays>>,
         \/ \E a \in 1..AmountDue[Bill] : AddPayment(c, a) \/ ConfirmPayment(c, a)
         \/ \E k \in Keys : Checked(c, k) \/ PayOneOff(c, k) \/ CreateFromReceipt(c, k)
         \/ TakeOutcome(c) \/ GiveUp(c)
  PROVE  DeskKinds /\ DeskTypeOK'
<1> USE DeskConstants
<1>0. /\ row' = row /\ AmountDue[Bill] \in Nat /\ NoPage.kind = "none"
      /\ attempt # None => attempt \in Attempts /\ attempt.key \in Keys /\ attempt.amount \in Nat \ {0}
      /\ Balance \in Balances /\ NoBalance \in Balances /\ opened \in 0..MaxOpened
  BY PaymentConstants DEF vars, DeskTypeOK, Attempts, Typed, TypeOK, Balances, Balance,
     NoBalance, Status, NoPage
<1>1. ASSUME NEW a \in 1..AmountDue[Bill], AddPayment(c, a) \/ ConfirmPayment(c, a)
      PROVE  DeskKinds /\ DeskTypeOK'
  <2>1. Pay(c, a) /\ desk # NoPage /\ ~Waiting({"check", "pay"}) /\ a \in Nat \ {0}
    BY <1>0, <1>1 DEF AddPayment, ConfirmPayment, Waiting
  <2>2. CASE attempt = None
    <3>1. SendOff(c, "check", None, a)
      BY <2>1, <2>2 DEF Pay
    <3>2. send' \in [Sends -> Send \cup {NoSend}] /\ AsksBalance(c)
      BY <1>0, <2>1, <2>2, <3>1, SendOffIs DEF Pay, AsksBalance, pageVars
    <3> QED BY <2>1, <3>2 DEF Pay, pageVars, DeskKinds, DeskTypeOK
  <2>3. CASE attempt # None
    <3>1. SendOff(c, "pay", attempt.key, a)
      BY <2>1, <2>3 DEF Pay
    <3>2. send' \in [Sends -> Send \cup {NoSend}] /\ AsksAgain(c)
      BY <1>0, <2>1, <2>3, <3>1, SendOffIs DEF Pay, AsksAgain, pageVars
    <3> QED BY <2>1, <3>2 DEF Pay, pageVars, DeskKinds, DeskTypeOK
  <2> QED BY <2>2, <2>3
<1>2. ASSUME NEW k \in Keys, Checked(c, k) PROVE DeskKinds /\ DeskTypeOK'
  <2>1. /\ send[c].kind = "check" /\ send[c].live /\ shown' = Balance
        /\ UNCHANGED <<desk, opened, recorded, scanned, denied, lost>>
    BY <1>2 DEF Checked
  <2>2. CASE Balance # send[c].seen
    <3>1. send' = [send EXCEPT ![c] = NoSend] /\ UNCHANGED <<attempt, use>>
      BY <1>2, <2>2 DEF Checked
    <3>2. send' \in [Sends -> Send \cup {NoSend}] /\ Forgets(c)
      BY <1>0, <2>1, <3>1, DropIs DEF Forgets
    <3> QED BY <1>0, <2>1, <3>1, <3>2 DEF DeskKinds, DeskTypeOK
  <2>3. CASE Balance = send[c].seen
    <3>1. /\ Drawable(k) /\ Draw(k, "pay") /\ SendOff(c, "pay", k, send[c].amount)
          /\ attempt' = [key |-> k, amount |-> send[c].amount]
      BY <1>2, <2>3 DEF Checked
    <3>2. send[c] \in Send /\ send[c].amount \in Nat \ {0}
      BY <2>1, SendIs, NothingIsSomething
    <3>3. attempt' \in Attempts /\ attempt' # None /\ attempt'.key = k
      BY <3>1, <3>2, NothingIsSomething DEF Attempts
    <3>4. send' \in [Sends -> Send \cup {NoSend}] /\ AsksFirst(c, k)
      BY <1>0, <2>1, <3>1, <3>2, <3>3, SendOffIs DEF AsksFirst
    <3>5. use' \in [Keys -> [visit: 0..MaxOpened, kind: {"none", "pay", "new"}]]
      BY <1>0, <3>1 DEF Draw, DeskTypeOK
    <3> QED BY <1>0, <2>1, <3>3, <3>4, <3>5 DEF DeskKinds, DeskTypeOK
  <2> QED BY <2>2, <2>3
<1>3. ASSUME NEW k \in Keys, PayOneOff(c, k) \/ CreateFromReceipt(c, k) PROVE DeskKinds /\ DeskTypeOK'
  <2>1. PayNew(c, k) /\ desk # NoPage
    BY <1>0, <1>3 DEF PayOneOff, CreateFromReceipt
  <2>2. /\ Drawable(k) /\ Draw(k, "new") /\ SendOff(c, "new", k, 1)
        /\ recorded = None /\ send[c] = NoSend /\ UNCHANGED <<pageVars, denied, lost>>
    BY <2>1 DEF PayNew
  <2>3. send' \in [Sends -> Send \cup {NoSend}] /\ AsksNew(c, k)
    BY <1>0, <2>1, <2>2, SendOffIs DEF AsksNew, pageVars
  <2>4. use' \in [Keys -> [visit: 0..MaxOpened, kind: {"none", "pay", "new"}]]
    BY <1>0, <2>2 DEF Draw, DeskTypeOK
  <2> QED BY <2>2, <2>3, <2>4 DEF DeskKinds, DeskTypeOK, pageVars
<1>4. CASE TakeOutcome(c)
  <2>1. /\ Payment(send[c]) /\ send[c].live /\ send[c].step # "sent"
        /\ send' = [send EXCEPT ![c] = NoSend]
        /\ attempt' = IF send[c].kind = "pay" THEN None ELSE attempt
        /\ UNCHANGED <<desk, opened, scanned, use, lost>>
    BY <1>4 DEF TakeOutcome, Payment
  <2>2. send[c] \in Send /\ send[c].key \in Keys /\ send' \in [Sends -> Send \cup {NoSend}]
    BY <2>1, KeyIs, DropIs
  <2>3. CASE send[c].step = "ok"
    <3>1. recorded' = send[c].key /\ UNCHANGED <<denied, shown>>
      BY <1>4, <2>3 DEF TakeOutcome
    <3>2. TakesOk(c)
      BY <1>0, <2>1, <2>3, <3>1, DropIs DEF TakesOk
    <3> QED BY <2>1, <2>2, <3>1, <3>2 DEF DeskKinds, DeskTypeOK
  <2>4. CASE send[c].step # "ok"
    <3>1. denied' = denied \cup {send[c].key} /\ AfterRefusal(send[c]) /\ UNCHANGED recorded
      BY <1>4, <2>4 DEF TakeOutcome
    <3>2. TakesRefusal(c)
      BY <1>0, <2>1, <2>2, <2>4, <3>1, DropIs, SendIs DEF TakesRefusal, Refused
    <3>3. shown' \in Balances
      BY <1>0, <3>1 DEF AfterRefusal, DeskTypeOK
    <3> QED BY <2>1, <2>2, <3>1, <3>2, <3>3 DEF DeskKinds, DeskTypeOK
  <2> QED BY <2>3, <2>4
<1>5. CASE GiveUp(c)
  <2>1. /\ send[c] \in Send /\ send[c].kind \in {"check", "pay", "new"} /\ attempt' = attempt
        /\ UNCHANGED <<desk, opened, shown, recorded, scanned, use>>
    BY <1>5, SendIs DEF GiveUp, AttemptKept
  <2>2. CASE send[c].kind = "check"
    <3>1. send' = [send EXCEPT ![c] = NoSend] /\ UNCHANGED <<denied, lost>>
      BY <1>5, <2>2 DEF GiveUp
    <3>2. send' \in [Sends -> Send \cup {NoSend}] /\ Forgets(c)
      BY <1>0, <2>1, <3>1, DropIs DEF Forgets
    <3> QED BY <2>1, <3>1, <3>2 DEF DeskKinds, DeskTypeOK
  <2>3. CASE send[c].kind # "check"
    <3> DEFINE y == [send[c] EXCEPT !.live = FALSE]
    <3>1. send' = [send EXCEPT ![c] = y]
      BY <1>5, <2>3 DEF GiveUp
    <3>2. /\ y \in Send /\ y.kind = send[c].kind /\ y.key = send[c].key
          /\ y.step = send[c].step /\ ~y.live
      BY <2>1, LeftIs
    <3> HIDE DEF y
    <3>3. send' \in [Sends -> Send \cup {NoSend}] /\ OthersKept(c) /\ send'[c] = y
      BY <3>1, <3>2 DEF OthersKept, DeskTypeOK
    <3>4. CASE send[c].kind = "pay"
      <4>1. UNCHANGED <<denied, lost>>
        BY <1>5, <3>4 DEF GiveUp
      <4>2. Leaves(c)
        BY <1>0, <2>1, <3>2, <3>3, <3>4, <4>1 DEF Leaves, Payment
      <4> QED BY <2>1, <3>3, <4>1, <4>2 DEF DeskKinds, DeskTypeOK
    <3>5. CASE send[c].kind = "new"
      <4>1. send[c].key \in Keys
        BY <3>5, KeyIs DEF Payment
      <4>2. denied' = denied \cup {send[c].key} /\ lost' = lost \cup {send[c].key}
        BY <1>5, <3>5 DEF GiveUp
      <4>3. LeavesNew(c)
        BY <1>0, <2>1, <3>2, <3>3, <3>5, <4>1, <4>2 DEF LeavesNew
      <4> QED BY <2>1, <3>3, <4>1, <4>2, <4>3 DEF DeskKinds, DeskTypeOK
    <3> QED BY <2>1, <2>3, <3>4, <3>5
  <2> QED BY <2>2, <2>3
<1> QED BY <1>1, <1>2, <1>3, <1>4, <1>5

\* So does a page that is opened, or loads a balance or a scan.
LEMMA LookKinds ==
  ASSUME Typed, DeskTypeOK, VisitStep, UNCHANGED <<vars, others, strays>>
  PROVE  DeskKinds /\ DeskTypeOK'
<1> USE DeskConstants
<1>0. Balance \in Balances /\ NoBalance \in Balances /\ opened \in 0..MaxOpened
  BY DEF DeskTypeOK, Typed, TypeOK, Balances, Balance, NoBalance, Status
<1>1. ASSUME NEW s \in Scans, ScanReceipt(s) PROVE DeskKinds /\ DeskTypeOK'
  BY <1>1 DEF ScanReceipt, VisitStep, DeskKinds, Looks, DeskTypeOK, vars
<1>2. ASSUME NEW kind \in {"form", "review"}, NEW s \in Scans \cup {None}, OpenAt(kind, s)
      PROVE  DeskKinds /\ DeskTypeOK'
  <2>1. /\ desk = NoPage /\ opened < MaxOpened /\ opened' = opened + 1
        /\ desk' = [kind |-> kind, scan |-> s] /\ UNCHANGED <<shown, attempt, recorded, scanned>>
    BY <1>2 DEF OpenAt
  <2>2. desk'.kind = kind /\ desk'.kind # NoPage.kind /\ opened' \in 0..MaxOpened
    BY <1>0, <2>1 DEF NoPage
  <2>3. DeskKinds
    BY <2>1, <2>2 DEF VisitStep, DeskKinds, Looks, vars
  <2>4. desk' \in [kind: {"none", "form", "review"}, scan: Scans \cup {None}]
    BY <2>1
  <2>5. use' \in [Keys -> [visit: 0..MaxOpened, kind: {"none", "pay", "new"}]]
    BY DEF VisitStep, DeskTypeOK
  <2> QED BY <2>1, <2>2, <2>3, <2>4, <2>5 DEF VisitStep, DeskTypeOK
<1>3. ASSUME NEW kind, LoadAt(kind) PROVE DeskKinds /\ DeskTypeOK'
  BY <1>0, <1>3 DEF LoadAt, VisitStep, DeskKinds, Looks, DeskTypeOK, vars
<1> QED BY <1>1, <1>2, <1>3 DEF VisitStep, OpenForm, OpenReview, LoadBalance, PickOccurrence

\* Leaving a page keeps them too.
LEMMA LeaveKinds ==
  ASSUME Typed, DeskTypeOK, LeavePage, UNCHANGED <<vars, others, strays>>
  PROVE  DeskKinds /\ DeskTypeOK'
<1>1. /\ desk' = NoPage /\ shown' = NoBalance /\ attempt' = None /\ recorded' = None
      /\ UNCHANGED <<opened, scanned, use, denied, lost>> /\ row' = row
      /\ send' = [c \in Sends |-> IF send[c] = NoSend \/ send[c].kind = "check" THEN NoSend
                                  ELSE [send[c] EXCEPT !.live = FALSE]]
  BY DEF LeavePage, vars
<1>2. NoPage \in [kind: {"none", "form", "review"}, scan: Scans \cup {None}]
  BY DEF NoPage
<1>3. NoBalance \in Balances
  BY DEF Balances, NoBalance, Status
<1>4. ASSUME NEW c \in Sends
      PROVE  /\ send'[c] \in Send \cup {NoSend}
             /\ \/ send'[c].kind = "none"
                \/ /\ Payment(send[c])
                   /\ send'[c].kind = send[c].kind /\ send'[c].key = send[c].key
                   /\ send'[c].step = send[c].step /\ ~send'[c].live
  <2>1. CASE send[c] = NoSend \/ send[c].kind = "check"
    BY <1>1, <2>1, NothingIsSomething
  <2>2. CASE ~(send[c] = NoSend \/ send[c].kind = "check")
    <3> DEFINE y == [send[c] EXCEPT !.live = FALSE]
    <3>1. send'[c] = y
      BY <1>1, <2>2
    <3>2. send[c] \in Send /\ Payment(send[c])
      BY <2>2, SendIs DEF Payment
    <3>3. /\ y \in Send /\ y.kind = send[c].kind /\ y.key = send[c].key
          /\ y.step = send[c].step /\ ~y.live
      BY <3>2, LeftIs
    <3> HIDE DEF y
    <3> QED BY <3>1, <3>2, <3>3
  <2> QED BY <2>1, <2>2
<1>5. send' \in [Sends -> Send \cup {NoSend}]
  <2>1. \A c \in Sends : (IF send[c] = NoSend \/ send[c].kind = "check" THEN NoSend
                          ELSE [send[c] EXCEPT !.live = FALSE]) \in Send \cup {NoSend}
    BY <1>1, <1>4
  <2> QED BY <1>1, <2>1
<1>6. LeavesAll
  BY <1>1, <1>4 DEF LeavesAll
<1> QED BY <1>1, <1>2, <1>3, <1>5, <1>6 DEF DeskKinds, DeskTypeOK

\* And an answer of the service.
LEMMA ServeKinds ==
  ASSUME Typed, Typed', DeskTypeOK, KeysDrawn, ServeStep
  PROVE  DeskKinds /\ DeskTypeOK'
<1> USE DeskConstants
<1>0. UNCHANGED <<desk, opened, shown, attempt, recorded, scanned, others, use, denied, lost>>
  BY DEF ServeStep, pageVars
<1>1. ASSUME NEW c \in Sends, Asking(send[c]), NEW step \in {"ok", "balance", "scan"}, Respond(c, step)
      PROVE  /\ send' \in [Sends -> Send \cup {NoSend}] /\ Answers(c) /\ send'[c].step = step
             /\ send[c] \in Send /\ send[c].key \in Keys
             /\ strays' \subseteq Keys => DeskTypeOK'
  BY <1>0, <1>1, KeyIs, RespondIs DEF Asking, Answers, DeskTypeOK
<1>2. ASSUME NEW c \in Sends, Serve(c) PROVE DeskKinds /\ DeskTypeOK'
  <2>1. send[c].kind = "pay" /\ Asking(send[c])
    BY <1>2 DEF Serve, Asking, Payment
  <2>2. CASE Replayed(send[c]) /\ Respond(c, "ok") /\ UNCHANGED <<vars, strays>>
    <3>1. row' = row /\ Made(send[c].key) /\ strays' = strays /\ strays \subseteq Keys
      BY <2>2 DEF vars, Replayed, Made, DeskTypeOK
    <3>2. Answers(c) /\ send'[c].step = "ok" /\ DeskTypeOK'
      BY <1>1, <2>1, <2>2, <3>1
    <3>3. PICK k \in Keys : k = send[c].key
      BY <1>1, <2>1, <2>2
    <3>4. Made(k)' /\ \A j \in Keys \ {k} : Made(j)' <=> Made(j)
      BY <3>1, <3>3 DEF Made
    <3> QED BY <3>1, <3>2, <3>3, <3>4 DEF DeskKinds, Fulfils
  <2>3. ASSUME NEW late \in BOOLEAN, Respond(c, "ok"), UNCHANGED strays,
               CreateContribution(Bill, send[c].key, send[c].amount, send[c].scan, late)
        PROVE  DeskKinds /\ DeskTypeOK'
    <3>1. Answers(c) /\ send'[c].step = "ok" /\ send[c] \in Send /\ send[c].key \in Keys /\ DeskTypeOK'
      BY <1>1, <2>1, <2>3 DEF DeskTypeOK
    <3>2. Post(Bill, send[c].key, send[c].amount, send[c].scan)
      BY <2>3 DEF CreateContribution
    <3>3. [occ |-> Bill, amount |-> send[c].amount, scan |-> send[c].scan, state |-> "POSTED"]
            \in Contribution
      BY <3>1, SendIs DEF Contribution
    <3>4. PICK k \in Keys : k = send[c].key
      BY <3>1
    <3>5. Made(k)' /\ \A j \in Keys \ {k} : Made(j)' <=> Made(j)
      BY <3>2, <3>3, <3>4, NoneIsNoRow DEF Post, Made, Typed, TypeOK
    <3> QED BY <2>3, <3>1, <3>4, <3>5 DEF Fulfils, DeskKinds
  <2>4. CASE /\ ~Replayed(send[c]) /\ Respond(c, Refusal(send[c])) /\ UNCHANGED vars
             /\ strays' = IF Copies(c) = {} THEN strays ELSE strays \cup {send[c].key}
    <3>1. Refusal(send[c]) \in {"balance", "scan"} /\ row' = row /\ ~Made(send[c].key)
      BY <2>4 DEF Refusal, vars, Replayed, Made
    <3>2. /\ Answers(c) /\ send'[c].step \in {"balance", "scan"} /\ send[c].key \in Keys
          /\ strays' \subseteq Keys => DeskTypeOK'
      BY <1>1, <2>1, <2>4, <3>1
    <3>3. strays' \subseteq Keys
      BY <2>4, <3>2 DEF DeskTypeOK
    <3> QED BY <2>1, <2>4, <3>1, <3>2, <3>3 DEF Rejects, DeskKinds
  <2> QED BY <1>2, <2>2, <2>3, <2>4 DEF Serve
<1>3. ASSUME NEW c \in Sends, ServeNew(c) PROVE DeskKinds /\ DeskTypeOK'
  <2>1. send[c].kind = "new" /\ Asking(send[c]) /\ strays' = strays /\ strays \subseteq Keys
    BY <1>3 DEF ServeNew, Asking, Payment, DeskTypeOK
  <2>2. ASSUME NEW o \in Occs, CreateSettled(o, send[c].key, send[c].scan), Respond(c, "ok")
        PROVE  DeskKinds /\ DeskTypeOK'
    <3>1. Answers(c) /\ send'[c].step = "ok" /\ send[c] \in Send /\ send[c].key \in Keys /\ DeskTypeOK'
      BY <1>1, <2>1, <2>2
    <3>2. Post(o, send[c].key, AmountDue[o], send[c].scan)
      BY <2>2 DEF CreateSettled
    <3>3. [occ |-> o, amount |-> AmountDue[o], scan |-> send[c].scan, state |-> "POSTED"]
            \in Contribution
      BY <3>1, SendIs, PaymentConstants DEF Contribution
    <3>4. PICK k \in Keys : k = send[c].key
      BY <3>1
    <3>5. Made(k)' /\ \A j \in Keys \ {k} : Made(j)' <=> Made(j)
      BY <3>2, <3>3, <3>4, NoneIsNoRow DEF Post, Made, Typed, TypeOK
    <3> QED BY <2>1, <3>1, <3>4, <3>5 DEF Fulfils, DeskKinds
  <2>3. CASE Respond(c, "scan") /\ UNCHANGED vars
    <3>1. row' = row
      BY <2>3 DEF vars
    <3> QED BY <1>1, <2>1, <2>3, <3>1 DEF Rejects, DeskKinds
  <2> QED BY <1>3, <2>2, <2>3 DEF ServeNew
<1>4. ASSUME NEW c \in Sends, LoseSend(c), UNCHANGED <<vars, strays>> PROVE DeskKinds /\ DeskTypeOK'
  <2>1. send' = [send EXCEPT ![c] = NoSend] /\ row' = row
    BY <1>4 DEF LoseSend, vars
  <2>2. send' \in [Sends -> Send \cup {NoSend}] /\ Forgets(c)
    BY <1>0, <1>4, <2>1, DropIs DEF Forgets
  <2> QED BY <1>0, <1>4, <2>2 DEF DeskKinds, DeskTypeOK
<1> QED BY <1>2, <1>3, <1>4 DEF ServeStep, ServeContribution, ServeConfirm

\* And whatever others do.
LEMMA MeanwhileKinds ==
  ASSUME Typed, [Next]_vars, DeskTypeOK, MeanwhileStep
  PROVE  DeskKinds /\ DeskTypeOK'
<1>1. /\ UNCHANGED <<pageVars, send, use, denied, lost, strays>>
      /\ UNCHANGED <<desk, opened, shown, attempt, recorded, scanned>>
      /\ others < MaxOthers /\ others' = others + 1
  BY DEF MeanwhileStep, pageVars
<1>2. others' \in 0..MaxOthers
  BY <1>1, DeskConstants DEF DeskTypeOK
<1>3. DeskTypeOK'
  BY <1>1, <1>2 DEF DeskTypeOK
<1>4. Elsewise
  BY <1>1, MadeStays, OthersPay DEF Elsewise
<1> QED BY <1>3, <1>4 DEF DeskKinds

-----------------------------------------------------------------------------
(* The invariant is kept                                                   *)

\* A step that asks for nothing.
LEMMA LooksKeeps ==
  ASSUME DeskTypeOK, DeskTypeOK', Asks, Tells, Draws, Looks
  PROVE  Asks' /\ Tells' /\ Draws'
<1>1. Asks'
  BY DEF Looks, Asks, DeskTypeOK, KeysDrawn, AttemptDrawn, DrawnBefore, NewOnce, LiveOnPage,
     OnePays, AttemptIsPaid
<1>2. Tells'
  BY DEF Looks, Tells, AnswersTrue, RefusalsTrue, NewUnmade, DeniedForGood, LostAreNew, RecordedIsMade,
     Hopeless, Made
<1>3. Draws'
  BY DEF Looks, Asks, Draws, DeskTypeOK, DrawsInTurn, NextDraw, LastDraw, Drawn, MayDraw,
     DrawnBefore
<1> QED BY <1>1, <1>2, <1>3

\* A balance that is asked for.
LEMMA AsksBalanceKeeps ==
  ASSUME DeskTypeOK, DeskTypeOK', Asks, Tells, Draws, NEW c \in Sends, AsksBalance(c)
  PROVE  Asks' /\ Tells' /\ Draws'
<1>1. Asks'
  BY DEF AsksBalance, Waiting, Asks, KeysDrawn, AttemptDrawn, DrawnBefore, NewOnce, LiveOnPage,
     OnePays, AttemptIsPaid, Payment, Paying, OthersKept
<1>2. Tells'
  BY DEF AsksBalance, Tells, AnswersTrue, RefusalsTrue, NewUnmade, DeniedForGood,
     LostAreNew, RecordedIsMade, Hopeless, Made, Payment, Asking, Refused, OthersKept
<1>3. Draws'
  BY DEF AsksBalance, Draws, DrawsInTurn, NextDraw, LastDraw, Drawn, MayDraw
<1> QED BY <1>1, <1>2, <1>3

\* The attempt that is sent again.
LEMMA AsksAgainKeeps ==
  ASSUME DeskTypeOK, DeskTypeOK', Asks, Tells, Draws, NEW c \in Sends, AsksAgain(c)
  PROVE  Asks' /\ Tells' /\ Draws'
<1> USE DEF Asks, Tells, Draws, OthersKept, DeskTypeOK
<1>1. Asks'
  <2>1. KeysDrawn'
    BY DEF AsksAgain, KeysDrawn, AttemptDrawn, Attempts
  <2>2. AttemptDrawn'
    BY DEF AsksAgain, AttemptDrawn
  <2>3. DrawnBefore'
    BY DEF AsksAgain, DrawnBefore
  <2>4. NewOnce'
    BY DEF AsksAgain, NewOnce
  <2>5. LiveOnPage'
    BY DEF AsksAgain, LiveOnPage
  <2>6. OnePays'
    BY DEF AsksAgain, Waiting, OnePays, Paying
  <2>7. AttemptIsPaid'
    BY DEF AsksAgain, AttemptIsPaid
  <2> QED BY <2>1, <2>2, <2>3, <2>4, <2>5, <2>6, <2>7
<1>2. Tells'
  <2>1. AnswersTrue'
    BY DEF AsksAgain, AnswersTrue, Made
  <2>2. RefusalsTrue'
    BY DEF AsksAgain, Waiting, RefusalsTrue, Hopeless, KeysDrawn, Refused, Payment, Made,
       AttemptDrawn
  <2>3. NewUnmade'
    BY DEF AsksAgain, NewUnmade, Made
  <2>4. DeniedForGood'
    BY DEF AsksAgain, LostAreNew, DeniedForGood, Hopeless, Made
  <2>5. RecordedIsMade'
    BY DEF AsksAgain, RecordedIsMade
  <2>6. LostAreNew'
    BY DEF AsksAgain, LostAreNew, DeskTypeOK
  <2> QED BY <2>1, <2>2, <2>3, <2>4, <2>5, <2>6
<1>3. Draws'
  BY DEF AsksAgain, DrawsInTurn, NextDraw, LastDraw, Drawn, MayDraw
<1> QED BY <1>1, <1>2, <1>3

\* A payment that is sent for the first time.
LEMMA AsksFirstKeeps ==
  ASSUME DeskTypeOK, DeskTypeOK', Asks, Tells, Draws, NEW c \in Sends, NEW k \in Keys, AsksFirst(c, k)
  PROVE  Asks' /\ Tells' /\ Draws'
<1> USE DEF Asks, Tells, Draws, OthersKept
<1>0. /\ use[k].kind = "none" /\ use[k].visit = 0 /\ ~Made(k) /\ k # None
      /\ use'[k].kind = "pay" /\ use'[k].visit = opened /\ use'[k] = [visit |-> opened, kind |-> "pay"]
      /\ \A j \in Keys \ {k} : use'[j] = use[j]
  BY NoneIsNoRow DEF AsksFirst, Drawable, Draw, Unused, FreshKey, Made, DeskTypeOK
<1>a. desk # NoPage /\ (\A j \in Keys : Drawn(j) => j \in denied) /\ denied \subseteq Keys
  BY DEF AsksFirst, LiveOnPage, AttemptIsPaid, Paying, NextDraw, MayDraw, DeskTypeOK
<1>1. Asks'
  <2>1. KeysDrawn'
    BY <1>0 DEF AsksFirst, KeysDrawn, Payment
  <2>2. AttemptDrawn'
    BY <1>0, <1>a DEF AsksFirst, AttemptDrawn
  <2>3. DrawnBefore'
    BY <1>0 DEF AsksFirst, DrawnBefore, DeskTypeOK
  <2>4. NewOnce'
    BY DEF AsksFirst, NewOnce
  <2>5. LiveOnPage'
    BY DEF AsksFirst, LiveOnPage
  <2>6. OnePays'
    BY DEF AsksFirst, OnePays, Paying
  <2>7. AttemptIsPaid'
    BY DEF AsksFirst, AttemptIsPaid, OnePays, Paying
  <2> QED BY <2>1, <2>2, <2>3, <2>4, <2>5, <2>6, <2>7
<1>2. Tells'
  <2>1. AnswersTrue'
    BY DEF AsksFirst, AnswersTrue, Made
  <2>2. RefusalsTrue'
    BY <1>0 DEF AsksFirst, RefusalsTrue, Hopeless, KeysDrawn, Refused, Payment, Made
  <2>3. NewUnmade'
    BY DEF AsksFirst, NewUnmade, Made
  <2>4. DeniedForGood'
    BY <1>0, <1>a DEF AsksFirst, LostAreNew, DeniedForGood, Hopeless, Made
  <2>5. RecordedIsMade'
    BY DEF AsksFirst, RecordedIsMade, Made
  <2>6. LostAreNew'
    BY <1>0 DEF AsksFirst, LostAreNew, DeskTypeOK
  <2> QED BY <2>1, <2>2, <2>3, <2>4, <2>5, <2>6
<1>3. Draws'
  <2>1. DrawsInTurn'
    BY <1>0, <1>a DEF AsksFirst, DrawsInTurn, Drawn
  <2>2. NextDraw'
    BY DEF AsksFirst, NextDraw, MayDraw
  <2>3. LastDraw'
    BY <1>0, <1>a DEF AsksFirst, LastDraw, Drawn
  <2> QED BY <2>1, <2>2, <2>3
<1> QED BY <1>1, <1>2, <1>3

\* Something new that is paid.
LEMMA AsksNewKeeps ==
  ASSUME DeskTypeOK, DeskTypeOK', Asks, Tells, Draws, NEW c \in Sends, NEW k \in Keys, AsksNew(c, k)
  PROVE  Asks' /\ Tells' /\ Draws'
<1> USE DEF Asks, Tells, Draws, OthersKept, DeskTypeOK
<1>0. /\ use[k].kind = "none" /\ use[k].visit = 0 /\ ~Made(k) /\ k # None
      /\ use'[k].kind = "new" /\ use'[k].visit = opened /\ use'[k] = [visit |-> opened, kind |-> "new"]
      /\ \A j \in Keys \ {k} : use'[j] = use[j]
  BY NoneIsNoRow DEF AsksNew, Drawable, Draw, Unused, FreshKey, Made
<1>1. Asks'
  <2>1. KeysDrawn'
    BY <1>0, NothingIsSomething DEF AsksNew, KeysDrawn, Payment
  <2>2. AttemptDrawn'
    BY <1>0 DEF AsksNew, AttemptDrawn, Attempts
  <2>3. DrawnBefore'
    BY <1>0 DEF AsksNew, DrawnBefore
  <2>4. NewOnce'
    BY <1>0 DEF AsksNew, NewOnce, KeysDrawn, Payment
  <2>5. LiveOnPage'
    BY DEF AsksNew, LiveOnPage
  <2>6. OnePays'
    BY DEF AsksNew, OnePays, Paying
  <2>7. AttemptIsPaid'
    BY DEF AsksNew, AttemptIsPaid, Paying
  <2> QED BY <2>1, <2>2, <2>3, <2>4, <2>5, <2>6, <2>7
<1>2. Tells'
  <2>1. AnswersTrue'
    BY DEF AsksNew, AnswersTrue, Made
  <2>2. RefusalsTrue'
    <3> SUFFICES ASSUME NEW d \in Sends, Refused(send[d])', send'[d].live,
                        send'[d].key \notin strays'
                 PROVE  Hopeless(send[d].key)'
      BY DEF RefusalsTrue
    <3>1. d # c /\ send'[d] = send[d] /\ send[d].key # k
      BY <1>0 DEF AsksNew, KeysDrawn, Refused, Payment
    <3>2. Hopeless(send[d].key)
      BY <3>1 DEF AsksNew, RefusalsTrue
    <3> QED BY <3>1, <3>2 DEF AsksNew, Hopeless, Asking, Payment, Made
  <2>3. NewUnmade'
    BY <1>0 DEF AsksNew, NewUnmade, Made
  <2>4. DeniedForGood'
    BY <1>0 DEF AsksNew, LostAreNew, DeniedForGood, Hopeless, Made
  <2>5. RecordedIsMade'
    BY DEF AsksNew, RecordedIsMade
  <2>6. LostAreNew'
    BY <1>0 DEF AsksNew, LostAreNew, DeskTypeOK
  <2> QED BY <2>1, <2>2, <2>3, <2>4, <2>5, <2>6
<1>3. Draws'
  <2>1. DrawsInTurn'
    BY <1>0 DEF AsksNew, DrawsInTurn
  <2>2. NextDraw'
    BY <1>0 DEF AsksNew, NextDraw, MayDraw, Drawn
  <2>3. LastDraw'
    BY <1>0 DEF AsksNew, LastDraw, Drawn
  <2> QED BY <2>1, <2>2, <2>3
<1> QED BY <1>1, <1>2, <1>3

\* A request that ends.
LEMMA ForgetsKeeps ==
  ASSUME DeskTypeOK, DeskTypeOK', Asks, Tells, Draws, NEW c \in Sends, Forgets(c)
  PROVE  Asks' /\ Tells' /\ Draws'
<1> USE DEF Asks, Tells, Draws, OthersKept, DeskTypeOK
<1>1. Asks'
  BY DEF Forgets, KeysDrawn, AttemptDrawn, DrawnBefore, NewOnce, LiveOnPage, OnePays,
     AttemptIsPaid, Payment, Paying
<1>2. Tells'
  <2>1. AnswersTrue'
    BY DEF Forgets, AnswersTrue, Payment, Made
  <2>2. RefusalsTrue'
    BY DEF Forgets, RefusalsTrue, Hopeless, Refused, Asking, Payment, Made
  <2>3. NewUnmade'
    BY DEF Forgets, NewUnmade, Made
  <2>4. DeniedForGood'
    BY DEF Forgets, LostAreNew, DeniedForGood, Hopeless, Asking, Payment, Made
  <2>5. RecordedIsMade'
    BY DEF Forgets, RecordedIsMade, Made
  <2>6. LostAreNew'
    BY DEF Forgets, LostAreNew, DeskTypeOK
  <2> QED BY <2>1, <2>2, <2>3, <2>4, <2>5, <2>6
<1>3. Draws'
  BY DEF Forgets, DrawsInTurn, NextDraw, LastDraw, Drawn, MayDraw
<1> QED BY <1>1, <1>2, <1>3

\* A success the page hears of.
LEMMA TakesOkKeeps ==
  ASSUME DeskTypeOK, DeskTypeOK', Asks, Tells, Draws, NEW c \in Sends, TakesOk(c)
  PROVE  Asks' /\ Tells' /\ Draws'
<1>0. send[c].key # None
  BY KeyIs DEF TakesOk, Asks
<1>1. Asks'
  BY DEF TakesOk, Asks, KeysDrawn, AttemptDrawn, DrawnBefore, NewOnce, LiveOnPage, OnePays,
     AttemptIsPaid, Payment, Paying, OthersKept
<1>2. Tells'
  BY DEF TakesOk, Tells, AnswersTrue, RefusalsTrue, NewUnmade, DeniedForGood, LostAreNew, RecordedIsMade,
     Hopeless, Made, Payment, Asking, Refused, OthersKept
<1>3. Draws'
  BY <1>0 DEF TakesOk, Asks, Draws, DrawsInTurn, NextDraw, LastDraw, Drawn, MayDraw,
     AttemptIsPaid, Paying, OthersKept
<1> QED BY <1>1, <1>2, <1>3

\* A refusal the page hears of.
LEMMA TakesRefusalKeeps ==
  ASSUME DeskTypeOK, DeskTypeOK', Asks, Tells, Draws, NEW c \in Sends, TakesRefusal(c)
  PROVE  Asks' /\ Tells' /\ Draws'
<1>1. Asks'
  BY DEF TakesRefusal, Asks, KeysDrawn, AttemptDrawn, DrawnBefore, NewOnce, LiveOnPage, OnePays,
     AttemptIsPaid, Payment, Paying, OthersKept
<1>2. Tells'
  BY DEF TakesRefusal, Asks, Tells, AnswersTrue, RefusalsTrue, NewUnmade, DeniedForGood,
     LostAreNew, RecordedIsMade, Hopeless, Made, KeysDrawn, AttemptDrawn, Payment, Asking, Refused,
     OthersKept
<1>3. Draws'
  BY DEF TakesRefusal, Asks, Draws, DrawsInTurn, NextDraw, LastDraw, Drawn, MayDraw,
     AttemptIsPaid, Paying, OthersKept
<1> QED BY <1>1, <1>2, <1>3

\* A page that stops waiting.
LEMMA LeavesKeeps ==
  ASSUME DeskTypeOK, DeskTypeOK', Asks, Tells, Draws, NEW c \in Sends, Leaves(c)
  PROVE  Asks' /\ Tells' /\ Draws'
<1>1. Asks'
  BY DEF Leaves, Asks, Tells, KeysDrawn, AttemptDrawn, DrawnBefore, NewOnce, LiveOnPage,
     OnePays, AttemptIsPaid, Paying, OthersKept
<1>2. Tells'
  BY DEF Leaves, Tells, AnswersTrue, RefusalsTrue, NewUnmade, DeniedForGood, LostAreNew, RecordedIsMade,
     Hopeless, Made, Asking, OthersKept
<1>3. Draws'
  BY DEF Leaves, Draws, DrawsInTurn, NextDraw, LastDraw, Drawn, MayDraw, OthersKept
<1> QED BY <1>1, <1>2, <1>3

\* A page that stops waiting for something new.
LEMMA LeavesNewKeeps ==
  ASSUME DeskTypeOK, DeskTypeOK', Asks, Tells, Draws, NEW c \in Sends, LeavesNew(c)
  PROVE  Asks' /\ Tells' /\ Draws'
<1> USE DEF Asks, Tells, Draws, OthersKept
<1>0. use[send[c].key].kind = "new"
  BY DEF LeavesNew, KeysDrawn, Payment
<1>1. Asks'
  BY DEF LeavesNew, KeysDrawn, AttemptDrawn, DrawnBefore, NewOnce, LiveOnPage, OnePays,
     AttemptIsPaid, Paying, Payment
<1>2. Tells'
  <2>1. AnswersTrue'
    BY DEF LeavesNew, AnswersTrue, Payment, Made
  <2>2. RefusalsTrue'
    BY DEF LeavesNew, RefusalsTrue, Hopeless, Refused, Asking, Payment, Made
  <2>3. NewUnmade'
    BY DEF LeavesNew, NewUnmade, Asking, Payment, Made
  <2>4. DeniedForGood'
    BY <1>0 DEF LeavesNew, DeniedForGood, AttemptDrawn, Hopeless, Asking, Payment, Made
  <2>5. RecordedIsMade'
    BY DEF LeavesNew, RecordedIsMade, Made
  <2>6. LostAreNew'
    BY <1>0 DEF LeavesNew, LostAreNew
  <2> QED BY <2>1, <2>2, <2>3, <2>4, <2>5, <2>6
<1>3. Draws'
  BY DEF LeavesNew, DrawsInTurn, NextDraw, LastDraw, Drawn, MayDraw
<1> QED BY <1>1, <1>2, <1>3

\* A page that is left.
LEMMA LeavesAllKeeps ==
  ASSUME DeskTypeOK, DeskTypeOK', Asks, Tells, Draws, LeavesAll
  PROVE  Asks' /\ Tells' /\ Draws'
<1>1. Asks'
  BY DEF LeavesAll, Asks, KeysDrawn, AttemptDrawn, DrawnBefore, NewOnce, LiveOnPage, OnePays,
     AttemptIsPaid, Payment, Paying
<1>2. Tells'
  BY DEF LeavesAll, Tells, AnswersTrue, RefusalsTrue, NewUnmade, DeniedForGood, LostAreNew,
     RecordedIsMade, Hopeless, Made, Payment, Asking, Refused
<1>3. Draws'
  BY DEF LeavesAll, Draws, DrawsInTurn, NextDraw, LastDraw, MayDraw
<1> QED BY <1>1, <1>2, <1>3

\* A payment the service makes or has made.
LEMMA FulfilsKeeps ==
  ASSUME DeskTypeOK, DeskTypeOK', Asks, Tells, Draws, NEW c \in Sends, NEW k \in Keys, Fulfils(c, k)
  PROVE  Asks' /\ Tells' /\ Draws'
<1> USE DEF Asks, Tells, Draws, OthersKept, DeskTypeOK
<1>1. Asks'
  BY NothingIsSomething DEF Fulfils, Answers, KeysDrawn, AttemptDrawn, DrawnBefore, NewOnce,
     LiveOnPage, OnePays, AttemptIsPaid, Asking, Paying
<1>2. Tells'
  <2>1. AnswersTrue'
    BY DEF Fulfils, Answers, AnswersTrue, KeysDrawn
  <2>2. RefusalsTrue'
    BY DEF Fulfils, Answers, RefusalsTrue, Hopeless, KeysDrawn, Refused
  <2>3. NewUnmade'
    BY DEF Fulfils, Answers, NewUnmade, NewOnce, KeysDrawn, Asking
  <2>4. DeniedForGood'
    BY DEF Fulfils, LostAreNew, Answers, DeniedForGood, Hopeless
  <2>5. RecordedIsMade'
    BY DEF Fulfils, Answers, RecordedIsMade
  <2>6. LostAreNew'
    BY DEF Fulfils, Answers, LostAreNew, DeskTypeOK
  <2> QED BY <2>1, <2>2, <2>3, <2>4, <2>5, <2>6
<1>3. Draws'
  BY DEF Fulfils, Answers, DrawsInTurn, NextDraw, LastDraw, Drawn, MayDraw
<1> QED BY <1>1, <1>2, <1>3

\* A payment the service refuses.
LEMMA RejectsKeeps ==
  ASSUME DeskTypeOK, DeskTypeOK', Asks, Tells, Draws, NEW c \in Sends, Rejects(c)
  PROVE  Asks' /\ Tells' /\ Draws'
<1>1. Asks'
  BY DEF Rejects, Answers, Asks, KeysDrawn, AttemptDrawn, DrawnBefore, NewOnce, LiveOnPage,
     OnePays, AttemptIsPaid, Asking, Paying, OthersKept
<1>2. Tells'
  BY DEF Rejects, Answers, Copies, Asks, Tells, AnswersTrue, RefusalsTrue, NewUnmade,
     DeniedForGood, LostAreNew, RecordedIsMade, Hopeless, Made, KeysDrawn, NewOnce, Payment, Asking,
     OthersKept
<1>3. Draws'
  BY DEF Rejects, Answers, Draws, DrawsInTurn, NextDraw, LastDraw, Drawn, MayDraw, OthersKept
<1> QED BY <1>1, <1>2, <1>3

\* What others pay.
LEMMA ElsewiseKeeps ==
  ASSUME DeskTypeOK, DeskTypeOK', Asks, Tells, Draws, Elsewise
  PROVE  Asks' /\ Tells' /\ Draws'
<1>1. Asks'
  BY DEF Elsewise, pageVars, Asks, KeysDrawn, AttemptDrawn, DrawnBefore, NewOnce, LiveOnPage,
     OnePays, AttemptIsPaid
<1>2. Tells'
  BY NothingIsSomething DEF Elsewise, pageVars, Asks, Tells, DeskTypeOK, AnswersTrue,
     RefusalsTrue, NewUnmade, DeniedForGood, LostAreNew, RecordedIsMade, Hopeless, KeysDrawn, Payment,
     Refused
<1>3. Draws'
  BY DEF Elsewise, pageVars, Draws, DrawsInTurn, NextDraw, LastDraw, Drawn, MayDraw
<1> QED BY <1>1, <1>2, <1>3

\* Every kind of step keeps the invariant.
LEMMA KindsKeep ==
  ASSUME DeskTypeOK, DeskTypeOK', Asks, Tells, Draws, DeskKinds
  PROVE  Asks' /\ Tells' /\ Draws'
BY LooksKeeps, AsksBalanceKeeps, AsksAgainKeeps, AsksFirstKeeps, AsksNewKeeps, ForgetsKeeps,
   TakesOkKeeps, TakesRefusalKeeps, LeavesKeeps, LeavesNewKeeps, LeavesAllKeeps, FulfilsKeeps,
   RejectsKeeps, ElsewiseKeeps DEF DeskKinds

-----------------------------------------------------------------------------
(* The theorems                                                            *)

\* No page is open at first, and no key is drawn.
LEMMA DeskBegin == DeskInit => DeskSafe
<1> SUFFICES ASSUME DeskInit PROVE DeskSafe
  OBVIOUS
<1> USE DeskConstants
<1>1. Typed
  BY TypedInit DEF DeskInit
<1>2. /\ desk = NoPage /\ opened = 0 /\ shown = NoBalance /\ attempt = None /\ recorded = None
      /\ send = [c \in Sends |-> NoSend] /\ scanned = {} /\ others = 0
      /\ use = [k \in Keys |-> Unused] /\ denied = {} /\ lost = {} /\ strays = {}
  BY DEF DeskInit
<1>3. DeskTypeOK
  BY <1>2 DEF DeskTypeOK, NoPage, NoBalance, Balances, Status, Unused
<1>4. /\ \A c \in Sends : send[c].kind = "none"
      /\ \A k \in Keys : use[k].kind = "none" /\ use[k].visit = 0
  BY <1>2 DEF NoSend, Unused
<1>5. Asks /\ Tells
  BY <1>2, <1>4 DEF Asks, KeysDrawn, AttemptDrawn, DrawnBefore, NewOnce, LiveOnPage, OnePays,
     AttemptIsPaid, Tells, AnswersTrue, RefusalsTrue, NewUnmade, DeniedForGood, LostAreNew,
     RecordedIsMade, Payment, Asking, Refused, Paying
<1>6. Draws
  BY <1>2, <1>4 DEF Draws, DrawsInTurn, NextDraw, MayDraw, LastDraw
<1> QED BY <1>1, <1>3, <1>5, <1>6 DEF DeskSafe

\* Every step is of one of the kinds, over a step of Payments.
LEMMA DeskSafeStep == DeskSafe /\ [DeskNext]_deskVars => DeskSafe'
<1> SUFFICES ASSUME DeskSafe, [DeskNext]_deskVars PROVE DeskSafe'
  OBVIOUS
<1>1. Typed /\ DeskTypeOK /\ Asks /\ Tells /\ Draws /\ KeysDrawn
  BY DEF DeskSafe, Asks
<1>2. [Next]_vars
  BY <1>1, DeskPays
<1>3. Typed'
  BY <1>1, <1>2, TypedStep
<1>4. DeskKinds /\ DeskTypeOK'
  <2>1. CASE DeskStep
    BY <1>1, <2>1, PressKinds, LookKinds, LeaveKinds DEF DeskStep, PressStep
  <2>2. CASE ServeStep
    BY <1>1, <1>3, <2>2, ServeKinds
  <2>3. CASE MeanwhileStep
    BY <1>1, <1>2, <2>3, MeanwhileKinds
  <2>4. CASE UNCHANGED deskVars
    <3>1. UNCHANGED <<row, pageVars, send, use, denied, lost, strays>> /\ others' = others
      BY <2>4 DEF deskVars, vars
    <3>2. Elsewise
      BY <3>1 DEF Elsewise, Made
    <3>3. DeskTypeOK'
      BY <1>1, <3>1 DEF DeskTypeOK, pageVars
    <3> QED BY <3>2, <3>3 DEF DeskKinds
  <2> QED BY <2>1, <2>2, <2>3, <2>4 DEF DeskNext
<1> QED BY <1>1, <1>3, <1>4, KindsKeep DEF DeskSafe

\* The invariant holds in every reachable state.
LEMMA DeskAlways == DeskSpec => []DeskSafe
BY DeskBegin, DeskSafeStep, PTL DEF DeskSpec

\* Whatever the pages and the service do with each other, the payments behave as
\* Payments says: every theorem about those holds with the pages before them.
THEOREM PagesPayAsPaymentsDo == DeskSpec => Spec
<1>1. DeskInit => Init
  BY DEF DeskInit
<1>2. DeskSafe /\ [DeskNext]_deskVars => [Next]_vars
  BY DeskPays DEF DeskSafe, Asks
<1> QED BY <1>1, <1>2, DeskAlways, PTL DEF DeskSpec, Spec

\* The pages, their requests and the keys they drew have their types.
THEOREM DeskTyped == DeskSpec => []DeskTypeOK
<1>1. DeskSafe => DeskTypeOK
  BY DEF DeskSafe
<1> QED BY <1>1, DeskAlways, PTL

\* A page tells the truth: what it says is recorded is, and what it says was not
\* made is not and never will be (the answers of getIdempotentReplay), but for a
\* copy on its way and for something new whose answer was lost, of which the page
\* says what it says of a refusal (onSubmit, handleCreateObligation).
THEOREM PagesTellTheTruth == DeskSpec => []TellsTheTruth
<1>1. DeskSafe => TellsTheTruth
  BY DEF DeskSafe, Tells, TellsTheTruth, DeskTypeOK, DeniedForGood, LostAreNew, RecordedIsMade,
     Hopeless
<1> QED BY <1>1, DeskAlways, PTL

\* While a page stays open, the bill is paid from it at most once (attempt and its
\* key in onSubmit and handleConfirm).
THEOREM PagesPayOnce == DeskSpec => []PaysOnce
<1>1. ASSUME DeskSafe, NEW v \in 1..MaxOpened PROVE
      Cardinality({k \in Keys \ strays : use[k] = [visit |-> v, kind |-> "pay"] /\ Made(k)}) <= 1
  <2> DEFINE Paid == {k \in Keys \ strays : use[k] = [visit |-> v, kind |-> "pay"] /\ Made(k)}
  <2>1. \A j, k \in Paid : j = k
    BY <1>1 DEF DeskSafe, Draws, DrawsInTurn, Tells, DeniedForGood, LostAreNew, Hopeless
  <2>2. Paid = {} \/ \E k \in Paid : Paid = {k}
    BY <2>1
  <2> HIDE DEF Paid
  <2>3. Cardinality({}) = 0 /\ \A k : Cardinality({k}) = 1
    BY FS_EmptySet, FS_Singleton
  <2>4. Cardinality(Paid) <= 1
    <3>1. CASE Paid = {}
      BY <2>3, <3>1
    <3>2. ASSUME NEW k \in Paid, Paid = {k} PROVE Cardinality(Paid) <= 1
      <4>1. Cardinality(Paid) = 1
        BY <2>3, <3>2
      <4> QED BY <4>1
    <3> QED BY <2>2, <3>1, <3>2
  <2> QED BY <2>4 DEF Paid
<1>2. DeskSafe => PaysOnce
  BY <1>1 DEF PaysOnce
<1> QED BY <1>2, DeskAlways, PTL
=============================================================================
