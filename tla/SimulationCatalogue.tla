------------------------- MODULE SimulationCatalogue -------------------------
(***************************************************************************)
(* The catalogue a simulated month is drawn from                           *)
(* (prisma/seed/simulation-catalogue.ts), in rands and days: amount, due   *)
(* day and eligibility of the obligation templates; day, choices and       *)
(* expiry of the event templates.  Selection weights are all positive, so  *)
(* that every template can be drawn; what scores a bill is left out.       *)
(***************************************************************************)
EXTENDS Integers

Template(amount, due, eligible) ==
    [amount |-> amount, due |-> due, eligible |-> eligible]
Essentials ==
    [rent        |-> Template(1800, 3, FALSE), groceries  |-> Template(650, 5, FALSE),
     transport   |-> Template(450, 7, FALSE),  electricity |-> Template(420, 9, FALSE),
     phone       |-> Template(250, 11, FALSE), internet   |-> Template(400, 14, FALSE),
     medical_aid |-> Template(550, 15, FALSE)]
Debts ==
    [debt          |-> Template(600, 19, FALSE), car_repair   |-> Template(500, 25, TRUE),
     medical_plan  |-> Template(450, 26, TRUE),  family_loan  |-> Template(350, 27, TRUE),
     home_repair   |-> Template(550, 28, TRUE),  friend_iou   |-> Template(100, 18, FALSE)]
ObligationTemplates == [t \in DOMAIN Essentials \cup DOMAIN Debts |->
    IF t \in DOMAIN Essentials THEN Essentials[t] ELSE Debts[t]]

\* An outcome takes its immediate cost and its fee, and may introduce a bill.
NoBill == "none"
Choice(cost, fee, points, bill) ==
    [cost |-> cost + fee, points |-> points, bill |-> bill]
Surprise(day, choices, expiry) ==
    [day |-> day, choices |-> choices, expiry |-> choices[expiry]]

CarRepair == Surprise(4,
    [pay_now      |-> Choice(600, 0, 12, NoBill),
     payment_plan |-> Choice(150, 80, 4, "car_repair"),
     delay        |-> Choice(0, 150, -12, NoBill),
     decline      |-> Choice(0, 0, -20, NoBill)], "delay")
MedicalCost == Surprise(6,
    [pay_now      |-> Choice(500, 0, 12, NoBill),
     payment_plan |-> Choice(120, 60, 3, "medical_plan"),
     skip         |-> Choice(0, 180, -15, NoBill),
     decline      |-> Choice(0, 0, -25, NoBill)], "skip")
FamilyRequest == Surprise(8,
    [help_full |-> Choice(400, 0, 6, NoBill),
     lend      |-> Choice(150, 0, 8, "family_loan"),
     decline   |-> Choice(0, 0, 4, NoBill)], "decline")
IncomeShortfall == Surprise(10,
    [reduce |-> Choice(0, 0, 10, NoBill),
     borrow |-> Choice(0, 100, -2, "family_loan"),
     ignore |-> Choice(0, 140, -12, NoBill)], "ignore")
HomeRepair == Surprise(13,
    [pay_now |-> Choice(450, 0, 10, NoBill),
     finance |-> Choice(100, 90, 2, "home_repair"),
     delay   |-> Choice(0, 180, -14, NoBill),
     defer   |-> Choice(0, 0, -20, NoBill)], "delay")
UtilitySpike == Surprise(24,
    [pay_now      |-> Choice(380, 0, 10, NoBill),
     payment_plan |-> Choice(100, 75, 2, "home_repair"),
     delay        |-> Choice(0, 130, -11, NoBill),
     extension    |-> Choice(0, 0, -8, NoBill)], "delay")
EventTemplates ==
    [car |-> CarRepair, medical |-> MedicalCost, family |-> FamilyRequest,
     income |-> IncomeShortfall, home |-> HomeRepair, utility |-> UtilitySpike]
=============================================================================
