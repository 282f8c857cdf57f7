------------------------------ MODULE PayDesk -------------------------------
(***************************************************************************)
(* The pages on which a bill is paid, and the service of Payments behind:  *)
(* the payment form (PaymentForm) and the review of a scanned receipt      *)
(* (ReceiptReviewPage with ReceiptConfirmationPanel).                      *)
(*                                                                         *)
(* Both fetch the balance before they send a payment, and draw a key for   *)
(* it that they keep until the service has answered, so that pressing      *)
(* again after a lost answer asks for the same payment.  A payment of      *)
(* something new has a key of its own with every press.  A request whose   *)
(* answer is lost, or whose page was left, may reach the service later.    *)
(* use, denied, lost and strays are history variables.                     *)
(***************************************************************************)
EXTENDS Payments

CONSTANTS
    Sends,      \* requests of the pages under way
    Bill,       \* the occurrence the pages are opened for
    MaxOpened,  \* bound: pages opened
    MaxOthers   \* bound: what happens besides the pages

ASSUME DeskConstants ==
    /\ Bill \in Occs
    /\ MaxOpened \in Nat
    /\ MaxOthers \in Nat
    /\ None \notin [key: Keys, amount: Nat \ {0}]

VARIABLES
    desk,      \* the page that is open, and its receipt scan
    opened,
    shown,     \* the balance the page shows
    attempt,   \* the payment whose outcome the page does not know
    recorded,  \* the key of the payment the page says is recorded
    send,      \* each request: what it asks for and how far it is
    scanned,   \* the scans made on the scan page
    others,
    use,       \* the visit and the kind of payment each key was drawn for
    denied,    \* the keys whose payment a page said was not made
    lost,      \* those of something new that the page had no answer about
    strays     \* those that were refused while a copy was on its way

pageVars == <<desk, opened, shown, attempt, recorded, scanned>>
deskVars == <<vars, pageVars, send, others, use, denied, lost, strays>>

NoPage == [kind |-> "none", scan |-> None]
NoBalance == [paid |-> 0, status |-> "ABSENT"]
NoSend == [kind |-> "none"]
Unused == [visit |-> 0, kind |-> "none"]
Balances == [paid: Nat, status: Status]
Attempts == [key: Keys, amount: Nat \ {0}]
\* A request is at the service or answered; live is whether its page waits, and
\* seen the balance that was shown when a payment was pressed that is checked.
Send == [kind: {"check", "pay", "new"}, key: Keys \cup {None}, amount: Nat \ {0},
         scan: Scans \cup {None}, seen: Balances,
         step: {"sent", "ok", "balance", "scan"}, live: BOOLEAN]

DeskTypeOK ==
    /\ desk \in [kind: {"none", "form", "review"}, scan: Scans \cup {None}]
    /\ opened \in 0..MaxOpened
    /\ shown \in Balances
    /\ attempt \in Attempts \cup {None}
    /\ recorded \in Keys \cup {None}
    /\ send \in [Sends -> Send \cup {NoSend}]
    /\ scanned \subseteq Scans
    /\ others \in 0..MaxOthers
    /\ use \in [Keys -> [visit: 0..MaxOpened, kind: {"none", "pay", "new"}]]
    /\ denied \cup lost \cup strays \subseteq Keys

DeskInit ==
    /\ Init /\ status[Bill] = "ABSENT"
    /\ desk = NoPage /\ opened = 0
    /\ shown = NoBalance /\ attempt = None /\ recorded = None
    /\ send = [c \in Sends |-> NoSend]
    /\ scanned = {}
    /\ others = 0
    /\ use = [k \in Keys |-> Unused] /\ denied = {} /\ lost = {} /\ strays = {}

-----------------------------------------------------------------------------
(* The pages                                                               *)

\* GET /payments/occurrences/:id/balance.
Balance == [paid |-> amountPaid[Bill], status |-> status[Bill]]
Remaining(b) == AmountDue[Bill] - b.paid
CanRecord(b) == b.status \in Payable /\ Remaining(b) > 0

Waiting(kinds) == \E c \in Sends : send[c].kind \in kinds /\ send[c].live
Drawable(k) == use[k] = Unused /\ FreshKey(k)
Draw(k, kind) == use' = [use EXCEPT ![k] = [visit |-> opened, kind |-> kind]]
SendOff(c, kind, k, a) ==
    send' = [send EXCEPT ![c] =
               [kind |-> kind, key |-> k, amount |-> a, scan |-> desk.scan,
                seen |-> IF kind = "check" THEN shown ELSE NoBalance,
                step |-> "sent", live |-> TRUE]]

\* POST /receipts/scans: the image is checked, read by the OCR service, and kept
\* for review if anything was read.  A failure leaves nothing behind.
Readable(s) == s \notin scanned
ScanReceipt(s) ==
    /\ Readable(s)
    /\ scanned' = scanned \cup {s}
    /\ UNCHANGED <<desk, opened, shown, attempt, recorded>>

\* A page is opened; its balance is not there yet.
OpenAt(kind, s) ==
    /\ desk = NoPage /\ opened < MaxOpened
    /\ desk' = [kind |-> kind, scan |-> s] /\ opened' = opened + 1
    /\ UNCHANGED <<shown, attempt, recorded, scanned>>
OpenForm == OpenAt("form", None)
\* GET /receipts/scans/:id answers for a scan that is neither used nor expired.
Reviewable(s) == s \in scanned /\ ScanUsable(s)
OpenReview(s) == Reviewable(s) /\ OpenAt("review", s)

\* The balance card of the form, and the picker of the review, load or refresh the
\* balance; the picker may have none while it does.
LoadAt(kind) ==
    /\ desk.kind = kind
    /\ shown' \in {Balance, NoBalance} \ {shown}
    /\ UNCHANGED <<desk, opened, attempt, recorded, scanned>>
LoadBalance == LoadAt("form")
PickOccurrence == LoadAt("review")

\* An attempt that is not settled is sent again as it was, and only that; any
\* other begins by fetching the balance.
Pay(c, a) ==
    /\ recorded = None /\ send[c] = NoSend
    /\ CanRecord(shown) /\ a <= Remaining(shown)
    /\ IF attempt = None THEN SendOff(c, "check", None, a)
       ELSE a = attempt.amount /\ SendOff(c, "pay", attempt.key, a)
    /\ UNCHANGED <<pageVars, use, denied, lost>>
\* "Add payment" waits for whatever it has sent; "Confirm payment" only for itself.
AddPayment(c, a) ==
    desk.kind = "form" /\ ~Waiting({"check", "pay", "new"}) /\ Pay(c, a)
ConfirmPayment(c, a) ==
    desk.kind = "review" /\ ~Waiting({"check", "pay"}) /\ Pay(c, a)

\* The balance that was fetched differs from the one shown at the press: the user
\* is asked to look again.  Otherwise the payment is sent with a new key.
Checked(c, k) ==
    /\ send[c].kind = "check" /\ send[c].live
    /\ shown' = Balance
    /\ IF Balance # send[c].seen
       THEN /\ send' = [send EXCEPT ![c] = NoSend]
            /\ UNCHANGED <<attempt, use>>
       ELSE /\ Drawable(k) /\ Draw(k, "pay")
            /\ attempt' = [key |-> k, amount |-> send[c].amount]
            /\ SendOff(c, "pay", k, send[c].amount)
    /\ UNCHANGED <<desk, opened, recorded, scanned, denied, lost>>

\* A payment of something new, with a new key at every press: one-off on the form,
\* an obligation made from the receipt on the review.
PayNew(c, k) ==
    /\ recorded = None /\ send[c] = NoSend
    /\ Drawable(k) /\ Draw(k, "new")
    /\ SendOff(c, "new", k, 1)
    /\ UNCHANGED <<pageVars, denied, lost>>
PayOneOff(c, k) ==
    desk.kind = "form" /\ ~Waiting({"check", "pay", "new"}) /\ PayNew(c, k)
CreateFromReceipt(c, k) ==
    desk.kind = "review" /\ ~Waiting({"new"}) /\ PayNew(c, k)

\* The answer arrives: a refusal of whatever kind forgets the attempt.  It comes
\* with a status and a message but no code, so that only the form, which looks at
\* the message, knows when the balance was the reason, and loads it again.
TellsBalance(x) == x.kind = "pay" /\ x.step = "balance" /\ desk.kind = "form"
AfterRefusal(x) ==
    IF TellsBalance(x) THEN shown' \in {Balance, NoBalance} ELSE UNCHANGED shown
TakeOutcome(c) ==
    LET x == send[c] IN
    /\ x.kind \in {"pay", "new"} /\ x.live /\ x.step # "sent"
    /\ send' = [send EXCEPT ![c] = NoSend]
    /\ attempt' = IF x.kind = "pay" THEN None ELSE attempt
    /\ IF x.step = "ok"
       THEN recorded' = x.key /\ UNCHANGED <<denied, shown>>
       ELSE denied' = denied \cup {x.key} /\ AfterRefusal(x) /\ UNCHANGED recorded
    /\ UNCHANGED <<desk, opened, scanned, use, lost>>

\* No answer: the page keeps the attempt of a payment it has sent, and says that it
\* could not confirm it.  Of something new it says that it was not made, in the one
\* message it has for a refusal and for a lost answer.
AttemptDropped == None
AttemptKept == attempt
GiveUp(c) ==
    /\ send[c] # NoSend /\ send[c].live
    /\ send' = [send EXCEPT ![c] = IF @.kind = "check" THEN NoSend ELSE [@ EXCEPT !.live = FALSE]]
    /\ attempt' = IF send[c].kind = "pay" THEN AttemptKept ELSE attempt
    /\ IF send[c].kind = "new"
       THEN denied' = denied \cup {send[c].key} /\ lost' = lost \cup {send[c].key}
       ELSE UNCHANGED <<denied, lost>>
    /\ UNCHANGED <<desk, opened, shown, recorded, scanned, use>>

LeavePage ==
    /\ desk # NoPage
    /\ desk' = NoPage /\ shown' = NoBalance /\ attempt' = None /\ recorded' = None
    /\ send' = [c \in Sends |-> IF send[c] = NoSend \/ send[c].kind = "check" THEN NoSend
                                ELSE [send[c] EXCEPT !.live = FALSE]]
    /\ UNCHANGED <<opened, scanned, use, denied, lost>>

-----------------------------------------------------------------------------
(* The service                                                             *)

\* A key that has its contribution is answered with it, before anything about the
\* occurrence or the scan is looked at (getIdempotentReplay).
ReplayedIfPayable(x) == row[x.key] # None /\ status[Bill] \in Payable
Replayed(x) == row[x.key] # None

Refusal(x) == IF ~ScanUsable(x.scan) THEN "scan" ELSE "balance"
Respond(c, step) == send' = [send EXCEPT ![c].step = step]
Copies(c) == {d \in Sends \ {c} : send[d].kind = "pay" /\ send[d].key = send[c].key
                                  /\ send[d].step = "sent"}

Serve(c) ==
    /\ send[c].kind = "pay" /\ send[c].step = "sent"
    /\ \/ /\ Replayed(send[c])
          /\ Respond(c, "ok")
          /\ UNCHANGED <<vars, strays>>
       \/ /\ \E late \in BOOLEAN :
               CreateContribution(Bill, send[c].key, send[c].amount, send[c].scan, late)
          /\ Respond(c, "ok")
          /\ UNCHANGED strays
       \/ /\ ~Replayed(send[c])
          /\ ~(/\ FreshKey(send[c].key) /\ ScanUsable(send[c].scan)
               /\ status[Bill] \in Payable /\ AmountFits(Bill, send[c].amount))
          /\ Respond(c, Refusal(send[c]))
          /\ strays' = IF Copies(c) = {} THEN strays ELSE strays \cup {send[c].key}
          /\ UNCHANGED vars
\* POST /payments/contributions and POST /receipts/scans/:id/confirm.
ServeContribution(c) == send[c] # NoSend /\ send[c].scan = None /\ Serve(c)
ServeConfirm(c) == send[c] # NoSend /\ send[c].scan # None /\ Serve(c)

\* POST /payments/one-off and POST /receipts/scans/:id/create-obligation: the
\* obligation, its one occurrence and the payment are one transaction.
ServeNew(c) ==
    /\ send[c].kind = "new" /\ send[c].step = "sent"
    /\ \/ /\ \E o \in Occs \ {Bill} : CreateSettled(o, send[c].key, send[c].scan)
          /\ Respond(c, "ok")
       \/ /\ ~ScanUsable(send[c].scan)
          /\ Respond(c, "scan")
          /\ UNCHANGED vars
    /\ UNCHANGED strays

\* A request that no page waits for is lost on its way, or its answer is.
LoseSend(c) ==
    /\ send[c] # NoSend /\ ~send[c].live
    /\ send' = [send EXCEPT ![c] = NoSend]

-----------------------------------------------------------------------------
\* What other devices and the scheduler do meanwhile.
MeanwhileStep ==
    /\ others < MaxOthers /\ others' = others + 1
    /\ \/ \E o \in Occs, k \in {x \in Keys : use[x] = Unused}, s \in scanned \cup {None} :
            \/ \E a \in 1..AmountDue[o] : CreateContribution(o, k, a, s, FALSE)
            \/ CreateSettled(o, k, s)
       \/ VoidStep \/ LogStep \/ ObligationStep \/ Tick
       \/ \E r \in Runs : RunStep(r)
    /\ UNCHANGED <<pageVars, send, use, denied, lost, strays>>

VisitStep ==
    /\ \/ \E s \in Scans : ScanReceipt(s)
       \/ OpenForm \/ \E s \in Scans : OpenReview(s)
       \/ LoadBalance \/ PickOccurrence
    /\ UNCHANGED <<send, use, denied, lost>>
PressStep == \E c \in Sends :
    \/ \E a \in 1..AmountDue[Bill] : AddPayment(c, a) \/ ConfirmPayment(c, a)
    \/ \E k \in Keys : Checked(c, k) \/ PayOneOff(c, k) \/ CreateFromReceipt(c, k)
    \/ TakeOutcome(c) \/ GiveUp(c)
DeskStep == (VisitStep \/ PressStep \/ LeavePage) /\ UNCHANGED <<vars, others, strays>>
ServeStep == \E c \in Sends :
    /\ \/ ServeContribution(c) \/ ServeConfirm(c) \/ ServeNew(c)
       \/ LoseSend(c) /\ UNCHANGED <<vars, strays>>
    /\ UNCHANGED <<pageVars, others, use, denied, lost>>

DeskNext == DeskStep \/ ServeStep \/ MeanwhileStep
DeskSpec == DeskInit /\ [][DeskNext]_deskVars
=============================================================================
