----------------------------- MODULE MCSimulation -----------------------------
(***************************************************************************)
(* Instances of Simulation for TLC: a month of three days.                 *)
(***************************************************************************)
EXTENDS SimulationProps

CONSTANTS rent, phone, plan, repair, visit

\* The rent is known from the start, the phone bill turns up on day 1 together
\* with the repair, and the repair can bring a repayment plan.
DueDays == [b \in Bills |-> CASE b = rent -> 1 [] b = phone -> 3 [] b = plan -> 2]
AmountOf == [b \in Bills |-> IF b = rent THEN 2 ELSE 1]
Awards == [b \in Bills |-> 4]
SavedAwards == [b \in Bills |-> 2]
Penalties == [b \in Bills |-> IF b = rent THEN 3 ELSE 1]
ShowDays == [s \in Scheduled |-> 1]
Triggers == [e \in Events |-> IF e = repair THEN 1 ELSE 3]
PayNow == [cost |-> 1, points |-> 2, bills |-> {}]
Spread == [cost |-> 0, points |-> 1, bills |-> {plan}]
Delay == [cost |-> 2, points |-> -2, bills |-> {}]
Refer == [cost |-> 1, points |-> -1, bills |-> {}]
OptionsOf == [e \in Events |-> IF e = repair THEN {PayNow, Spread} ELSE {Refer}]
ExpiryOf == [e \in Events |-> IF e = repair THEN Spread ELSE Delay]
Alike == Permutations(Requests)
=============================================================================
