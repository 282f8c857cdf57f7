----------------------------- MODULE WagerBook ------------------------------
(***************************************************************************)
(* What a wager promises its two players, with requests, transactions,     *)
(* row locks and the scheduler left out: nothing is staked before the      *)
(* invitation is accepted, both stakes are taken together, and a result    *)
(* pays them out once, to one player or back to both.                      *)
(***************************************************************************)
EXTENDS Integers

CONSTANTS Wagers, Stake

VARIABLES
    state,  \* "ABSENT", "PENDING", "ACTIVE", "COMPLETED", Closed or "DELETED"
    net     \* coins each player of a wager has gained from it, by side

vars == <<state, net>>

Closed == {"DECLINED", "CANCELLED", "EXPIRED"}
Nothing == [creator |-> 0, opponent |-> 0]
Staked(w) == [creator |-> -Stake[w], opponent |-> -Stake[w]]
Results(w) == {Nothing,
               [creator |-> Stake[w], opponent |-> -Stake[w]],
               [creator |-> -Stake[w], opponent |-> Stake[w]]}

Init == /\ state = [w \in Wagers |-> "ABSENT"]
        /\ net = [w \in Wagers |-> Nothing]

Invite(w) == /\ state[w] = "ABSENT"
             /\ state' = [state EXCEPT ![w] = "PENDING"]
             /\ UNCHANGED net

Start(w) == /\ state[w] = "PENDING"
            /\ state' = [state EXCEPT ![w] = "ACTIVE"]
            /\ net' = [net EXCEPT ![w] = Staked(w)]

Settle(w) == /\ state[w] = "ACTIVE"
             /\ state' = [state EXCEPT ![w] = "COMPLETED"]
             /\ \E r \in Results(w) : net' = [net EXCEPT ![w] = r]

\* One request closes one invitation, an expiry may close several at once.
Close(W, how) == /\ \A w \in W : state[w] = "PENDING"
                 /\ state' = [w \in Wagers |-> IF w \in W THEN how ELSE state[w]]
                 /\ UNCHANGED net

\* The account of a player is erased, and its wagers with it.
Erase(W) == /\ \A w \in W : state[w] # "ABSENT"
            /\ state' = [w \in Wagers |-> IF w \in W THEN "DELETED" ELSE state[w]]
            /\ UNCHANGED net

Next == \/ \E w \in Wagers : Invite(w) \/ Start(w) \/ Settle(w)
        \/ \E W \in SUBSET Wagers : Erase(W) \/ \E how \in Closed : Close(W, how)

Spec == Init /\ [][Next]_vars
=============================================================================
