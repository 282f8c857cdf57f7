----------------------------- MODULE FriendBook -----------------------------
(***************************************************************************)
(* What friends promise each other, without calls, checks made too early,  *)
(* locks and half-done transactions: an invitation is answered once, an    *)
(* acceptance and nothing else makes two users friends of each other, and  *)
(* a friendship ends for both.                                             *)
(***************************************************************************)
CONSTANT Users

VARIABLES
    request,  \* of each sender and receiver: "NONE", "PENDING" or its answer
    friend    \* who is a friend of whom

vars == <<request, friend>>

Pairs == {p \in Users \X Users : p[1] # p[2]}
Both(p) == {p, <<p[2], p[1]>>}

Init == request = [p \in Pairs |-> "NONE"] /\ friend = {}

Invite(p) == /\ request[p] = "NONE"
             /\ request' = [request EXCEPT ![p] = "PENDING"]
             /\ UNCHANGED friend

Refuse(p) == /\ request[p] = "PENDING"
             /\ \E answer \in {"DECLINED", "CANCELLED"} :
                  request' = [request EXCEPT ![p] = answer]
             /\ UNCHANGED friend

Accept(p) == /\ request[p] = "PENDING"
             /\ request' = [request EXCEPT ![p] = "ACCEPTED"]
             /\ friend' = friend \cup Both(p)

Part(p) == /\ p \in friend
           /\ friend' = friend \ Both(p)
           /\ UNCHANGED request

\* A user's account is erased.
Erase(u) == LET mine == {p \in Pairs : u \in {p[1], p[2]}} IN
            /\ request' = [p \in Pairs |-> IF p \in mine THEN "NONE" ELSE request[p]]
            /\ friend' = friend \ mine

\* A step changes the book: said first, it spares TLC the rest for the many
\* steps of Social that do not.
Next == /\ request' # request \/ friend' # friend
        /\ \/ \E p \in Pairs : Invite(p) \/ Refuse(p) \/ Accept(p) \/ Part(p)
           \/ \E u \in Users : Erase(u)

Spec == Init /\ [][Next]_vars
=============================================================================
