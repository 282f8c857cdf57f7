---------------------------- MODULE MCPayments ------------------------------
(***************************************************************************)
(* Instances of Payments for TLC.                                          *)
(***************************************************************************)
EXTENDS PaymentsProps, TLC

CONSTANTS o1, o2, b1

\* One occurrence, due at time 0.
OneObligation == [o \in Occs |-> b1]
TwoUnits == [o \in Occs |-> 2]
ThreeUnits == [o \in Occs |-> 3]
DueAtZero == [o \in Occs |-> 0]

Symmetry == Permutations(Keys) \cup Permutations(Voiders)
            \cup Permutations(Runs)
=============================================================================
