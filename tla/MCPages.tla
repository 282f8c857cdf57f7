------------------------------ MODULE MCPages -------------------------------
(***************************************************************************)
(* Instances for TLC of the pages that list friends and requests (Social), *)
(* of those on which a bill is paid (PayDesk), and of the guidance around  *)
(* all pages (Guidance), each with its service.  A behaviour is of one of  *)
(* them and the others stay as they begin.  In one of the lists, what the  *)
(* other calls do is of one kind; one of the guidance has either a tour or *)
(* choices in the settings, with a midnight or more changes of account.    *)
(***************************************************************************)
EXTENDS SocialProps, PayDeskProps, GuidanceProps

CONSTANTS o1, o2, b1, k1, k2, k3

VARIABLE site

OneListPages == {{r} : r \in Resources}

OneObligation == [o \in Occs |-> b1]
TwoUnits == [o \in Occs |-> 2]
DueAtZero == [o \in Occs |-> 0]

\* Two stops on the first page of the tour and one on the second.
TwoPages == <<2, 1>>

pagesVars == <<site, socialVars, deskVars, guidanceVars>>

PagesInit ==
    /\ site \in OtherOps \cup {"payments", "tour", "settings"}
    /\ SocialInit /\ DeskInit /\ GuidanceInit
    /\ site \notin OtherOps => mounted = {"friends"}
    /\ site # "tour" => path = Elsewhere
AtFriends ==
    /\ site \in OtherOps /\ SocialNext
    /\ \A c \in Calls \ {Mine} : call'[c] = Idle \/ call'[c].op = site
    /\ UNCHANGED <<site, deskVars, guidanceVars>>
AtPayments ==
    /\ site = "payments" /\ DeskNext
    /\ UNCHANGED <<site, socialVars, guidanceVars>>
AtGuidance ==
    /\ site \in {"tour", "settings"} /\ GuidanceNext
    /\ IF site = "tour" THEN date' = 0 /\ sessions' <= 1
       ELSE path' = Elsewhere /\ ~tourVisible' /\ date' + sessions' <= 2
    /\ UNCHANGED <<site, socialVars, deskVars>>
PagesNext == AtFriends \/ AtPayments \/ AtGuidance
PagesSpec == PagesInit /\ [][PagesNext]_pagesVars

\* Keys are alike: it is enough that they are first used in one order.
KeysInOrder ==
    LET used(k) == use[k] # Unused \/ ~FreshKey(k) IN
    (used(k2) => used(k1)) /\ (used(k3) => used(k2))

PagesTypeOK == SocialTypeOK /\ DeskTypeOK /\ GuidanceTypeOK
=============================================================================
