------------------------------ MODULE MCWagers ------------------------------
(***************************************************************************)
(* Instances of Wagers for TLC.                                            *)
(***************************************************************************)
EXTENDS WagersProps, TLC

CONSTANTS u1, u2, w1, w2

\* Two wagers in opposite directions, so that their transactions lock the
\* profiles of the players in opposite order.
Creators == [w \in Wagers |-> IF w = w1 THEN u1 ELSE u2]
Opponents == [w \in Wagers |-> IF w = w1 THEN u2 ELSE u1]
OneEach == [w \in Wagers |-> 1]
OneCoin == [u \in Users |-> 1]
TwoCoins == [u \in Users |-> 2]

\* Requests are alike, and so are the runs of the scheduler.
Alike == Permutations(Clients) \cup Permutations(Runs)
=============================================================================
