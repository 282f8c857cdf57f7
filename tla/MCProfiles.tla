---------------------------- MODULE MCProfiles ----------------------------
(***************************************************************************)
(* Instances for TLC of what concurrent transactions add to a user's       *)
(* profiles: gamification (Rewards), credit (CreditScore), and the quizzes *)
(* with their streak (QuizPage).  They share no rows here, so a behaviour  *)
(* is one of one of them and the others stay as they begin; the quizzes    *)
(* are the daily ones of some days, or those on the topic of one day.      *)
(***************************************************************************)
EXTENDS RewardsProps, CreditScoreProps, QuizProps, TLC

CONSTANTS cap, hat, o1, o2, q1, q2

VARIABLE profileKind

profilesVars == <<profileKind, rewardVars, creditVars, playVars>>

ProfilesInit ==
    /\ profileKind \in {"gamification", "credit", "DAILY", "TOPIC"}
    /\ RewardsInit /\ CreditInit /\ PlayInit
    /\ profileKind # "credit" => budget = 0
    /\ profileKind # "gamification" => \A i \in Items : bag[i] = "none"
RewardsStep == /\ profileKind = "gamification" /\ RewardsNext
               /\ UNCHANGED <<profileKind, creditVars, playVars>>
CreditStep == /\ profileKind = "credit" /\ CreditNext
              /\ UNCHANGED <<profileKind, rewardVars, playVars>>
QuizStep == /\ profileKind \in {"DAILY", "TOPIC"} /\ PlayNext
            /\ \A s \in Sessions :
                 session'[s] # Absent => Type(s) = profileKind
            /\ profileKind = "TOPIC" => today' = 0
            /\ UNCHANGED <<profileKind, rewardVars, creditVars>>
ProfilesNext == RewardsStep \/ CreditStep \/ QuizStep
ProfilesSpec == ProfilesInit /\ [][ProfilesNext]_profilesVars

ProfilesTypeOK == RewardsTypeOK /\ CreditTypeOK /\ PageTypeOK

OneSlot == [i \in Items |-> "HEAD"]
OneCoin == [i \in Items |-> 1]

\* A critical obligation and a low one of two types, both due on the first day.
DueAtOnce == [o \in Occs |-> 0]
TwoKinds == [o \in Occs |-> o]
HighAndLow == (o1 :> "CRITICAL" @@ o2 :> "LOW")
ThreeEach == [o \in Occs |-> 3]
\* On time, later that day, three, twenty and thirty-one days late.
FiveDelays == {0, 1, 6, 40, 62}
\* The first day, when the pass can mark it missed, and when it is not recent.
ThreeTimes == {0, 70, 190}

\* A daily quiz of one question shows the days, one of two the queue.
OneAndTwo == [DAILY |-> <<q1>>, TOPIC |-> <<q1, q2>>]

\* The instance gives the transactions, the recalculations and the requests of
\* a quiz the same names.
Alike == Permutations(Txs)
=============================================================================
