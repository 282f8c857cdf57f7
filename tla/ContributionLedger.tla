------------------------- MODULE ContributionLedger -------------------------
(***************************************************************************)
(* What the contribution API promises of the money on each occurrence,     *)
(* with requests, locks, statuses and the scheduler left out: a key buys   *)
(* one contribution ever, a contribution fits what remains to be paid, and *)
(* money comes off again only as a whole contribution, never below zero.   *)
(***************************************************************************)
EXTENDS Integers

CONSTANTS Occs, Keys, AmountDue, None

VARIABLES
    paid,   \* money on each occurrence
    posted  \* what each key bought: an occurrence and an amount, or None

vars == <<paid, posted>>

Init == paid = [o \in Occs |-> 0] /\ posted = [k \in Keys |-> None]

Post(o, k, a) ==
    /\ posted[k] = None
    /\ paid[o] + a <= AmountDue[o]
    /\ posted' = [posted EXCEPT ![k] = [occ |-> o, amount |-> a]]
    /\ paid' = [paid EXCEPT ![o] = @ + a]

Reverse(k) ==
    /\ posted[k] # None
    /\ paid[posted[k].occ] >= posted[k].amount
    /\ paid' = [paid EXCEPT ![posted[k].occ] = @ - posted[k].amount]
    /\ UNCHANGED posted

Next == \E k \in Keys :
    \/ \E o \in Occs : \E a \in 1..AmountDue[o] : Post(o, k, a)
    \/ Reverse(k)

Spec == Init /\ [][Next]_vars
=============================================================================
