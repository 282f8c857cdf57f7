---------------------------- MODULE PayDeskProps ----------------------------
(***************************************************************************)
(* What the pages on which a bill is paid promise the user.                *)
(***************************************************************************)
EXTENDS PayDesk, FiniteSets

Made(k) == row[k] # None

\* While a page stays open, the bill is paid from it at most once, through lost
\* answers, retries, balances that change and requests that arrive late (attempt
\* and its key in onSubmit and handleConfirm).  Exception, as the code has it: a
\* refusal forgets the attempt although another copy of it may be on its way.
PaysOnce == \A v \in 1..MaxOpened :
    Cardinality({k \in Keys \ strays : use[k] = [visit |-> v, kind |-> "pay"]
                                       /\ Made(k)}) <= 1

\* A page tells the truth: what it says is recorded is, and what it says was not
\* made is not and never will be, whichever copy of a request was answered and
\* whatever happened to the bill in between (getIdempotentReplay comes before
\* every other check).  Exceptions, as the code has them: a refusal while a copy was
\* on its way, and a payment of something new whose answer was lost.  The catch
\* blocks of onSubmit and handleCreateObligation say "Unable to create the payment"
\* and "Unable to record this receipt" of that one too, although it may be made.  No
\* page says this of a payment towards a bill unless the service refused it.
TellsTheTruth ==
    /\ recorded # None => Made(recorded)
    /\ \A k \in denied \ strays : Made(k) => k \in lost /\ use[k].kind = "new"
=============================================================================
