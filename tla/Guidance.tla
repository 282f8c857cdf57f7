------------------------------ MODULE Guidance ------------------------------
(***************************************************************************)
(* The guidance of the mascot: a row per user with two switches, a tour    *)
(* and the tips hidden today (GuidanceService), and the provider around    *)
(* the pages that shows it, saves each choice and guides the tour.         *)
(*                                                                         *)
(* updateState reads the row and then writes the tour and the hidden tips  *)
(* that it computed, but only those switches that the patch names.  The    *)
(* provider shows a choice before it is saved and what the server answers  *)
(* after that.  Answers come in any order, late, or not at all; a route    *)
(* that was asked for is rendered later than what its click changed.       *)
(*                                                                         *)
(* Steps of the tour name their routes; every other route is Elsewhere.    *)
(* An absent row reads as the defaults, and is modelled as them; all tips  *)
(* hidden in a row are of one day, since a write drops those of others.    *)
(*                                                                         *)
(* alone, blurred, strayed and meant are history variables: whether the    *)
(* exchange under way, the last one begun, had no other and no midnight    *)
(* beside it; whether some overlapped, or a choice was dropped, since one  *)
(* that had none, and since the tour was moved; what the user has chosen.  *)
(***************************************************************************)
EXTENDS Integers, Sequences

CONSTANTS
    Tips,       \* dismissible tips
    Switches,   \* bound: the switches in use
    Stops,      \* the stops of each step of the tour
    Accounts,
    NoAccount, NoPatch, NoLoad, NoRoute, Elsewhere,
    MaxSaves,   \* bound: saves
    MaxNight,   \* bound: the last day
    MaxSessions \* bound: changes of the account

ASSUME GuidanceConstants ==
    /\ Stops \in Seq(Nat \ {0}) /\ Stops # << >>
    /\ "tipsEnabled" \in Switches
    /\ Switches \subseteq {"tipsEnabled", "dailyExpansionEnabled"}
    /\ {MaxSaves, MaxNight, MaxSessions} \subseteq Nat

LastStep == Len(Stops) - 1
TourSteps == 0..LastStep
Routes == TourSteps \cup {Elsewhere}
StopCount(step) == Stops[step + 1]
Dates == 0..MaxNight
TourStatus == {"NOT_STARTED", "IN_PROGRESS", "COMPLETED", "SKIPPED"}

Guide == [on: SUBSET Switches, status: TourStatus, step: TourSteps,
          hidden: SUBSET Tips]
DefaultGuide == [on |-> Switches, status |-> "NOT_STARTED", step |-> 0,
                 hidden |-> {}]
Patch == [op: {"switch"}, which: Switches, to: BOOLEAN]
    \cup [op: {"dismiss"}, tip: Tips]
    \cup [op: {"reset", "replay"}]
    \cup [op: {"tour"}, status: TourStatus, step: TourSteps]

ASSUME NothingIsNoGuide ==
    /\ NoAccount \notin Accounts /\ NoPatch \notin Patch
    /\ NoLoad \notin [read: BOOLEAN, seen: Guide]
    /\ Elsewhere \notin TourSteps /\ NoRoute \notin Routes

VARIABLES
    \* the server
    guideRow,  \* GuidanceState by account, and the day of its hidden tips
    date,
    saves,     \* PATCH requests under way
    \* the provider
    owner, guide, unsynced, pendingPatch, localDate,
    guideLoad, \* the GET of the last load
    tourVisible, tourStop, path,
    going,     \* the route asked for and not rendered yet
    \* bounds and history
    saved, sessions, alone, blurred, strayed, meant

guideHistory == <<alone, blurred, strayed, meant>>
tourVars == <<tourVisible, tourStop, path, going>>
providerVars == <<owner, guide, unsynced, pendingPatch, localDate>>
guidanceVars == <<guideRow, date, saves, providerVars, guideLoad, tourVars,
                  saved, sessions, guideHistory>>

Save == [id: 1..MaxSaves, owner: Accounts, patch: Patch, retry: BOOLEAN,
         waited: BOOLEAN, stage: {"sent", "read", "done"}, day: Dates,
         seen: Guide]

GuidanceTypeOK ==
    /\ guideRow \in [Accounts -> [guide: Guide, day: Dates]]
    /\ date \in Dates /\ localDate \in 0..date
    /\ saves \subseteq Save
    /\ owner \in Accounts \cup {NoAccount}
    /\ guide \in Guide /\ meant \in Guide
    /\ pendingPatch \in Patch \cup {NoPatch}
    /\ pendingPatch # NoPatch => unsynced
    /\ guideLoad = NoLoad \/ guideLoad \in [read: BOOLEAN, seen: Guide]
    /\ tourStop \in Nat /\ path \in Routes /\ going \in Routes \cup {NoRoute}

GuidanceInit ==
    /\ guideRow = [a \in Accounts |-> [guide |-> DefaultGuide, day |-> 0]]
    /\ date = 0 /\ localDate = 0
    /\ saves = {} /\ guideLoad = NoLoad
    /\ owner = NoAccount
    /\ guide = DefaultGuide /\ meant = DefaultGuide
    /\ unsynced = FALSE /\ pendingPatch = NoPatch
    /\ tourVisible = FALSE /\ tourStop = 0
    /\ path \in {0, Elsewhere} /\ going = NoRoute
    /\ saved = 0 /\ sessions = 0
    /\ alone = TRUE /\ blurred = TRUE /\ strayed = FALSE

-----------------------------------------------------------------------------
(* The server                                                              *)

\* getState: hidden tips of another day are not hidden any more.
GuideOnAnyDay(a, day) == guideRow[a].guide
GuideOn(a, day) ==
    LET r == guideRow[a] IN
    [r.guide EXCEPT !.hidden = IF r.day = day THEN @ ELSE {}]

\* The tour and the hidden tips that updateState computes from what it read.
Updated(g, p) ==
    CASE p.op = "dismiss" -> [g EXCEPT !.hidden = @ \cup {p.tip}]
      [] p.op = "reset" -> [g EXCEPT !.hidden = {}]
      [] p.op = "tour" -> [g EXCEPT !.status = p.status, !.step = p.step]
      [] p.op = "replay" -> [g EXCEPT !.status = "IN_PROGRESS", !.step = 0]
      [] OTHER -> g
Switched(on, p) ==
    IF p.op # "switch" THEN on
    ELSE IF p.to THEN on \cup {p.which} ELSE on \ {p.which}

Quiet == saves = {} /\ guideLoad = NoLoad

SaveRead(m) ==
    /\ m \in saves /\ m.stage = "sent"
    /\ saves' = (saves \ {m}) \cup
         {[m EXCEPT !.stage = "read", !.day = date,
                    !.seen = GuideOn(m.owner, date)]}
    /\ UNCHANGED <<guideRow, date, providerVars, guideLoad, tourVars, saved,
                   sessions, guideHistory>>

\* The upsert; it answers with the row it wrote.
SaveCommit(m) ==
    LET written == [Updated(m.seen, m.patch) EXCEPT
                      !.on = Switched(guideRow[m.owner].guide.on, m.patch)]
    IN
    /\ m \in saves /\ m.stage = "read"
    /\ guideRow' = [guideRow EXCEPT ![m.owner] =
                      [guide |-> written, day |-> m.day]]
    /\ saves' = (saves \ {m}) \cup
         (IF m.waited THEN {[m EXCEPT !.stage = "done", !.seen = written]}
                      ELSE {})
    /\ UNCHANGED <<date, providerVars, guideLoad, tourVars, saved, sessions,
                   guideHistory>>

\* Midnight in Johannesburg: what was hidden is shown again.
DatePasses ==
    /\ date < MaxNight
    /\ date' = date + 1
    /\ meant' = [meant EXCEPT !.hidden = {}]
    /\ alone' = (alone /\ Quiet) /\ blurred' = (blurred \/ ~Quiet)
    /\ UNCHANGED <<guideRow, saves, providerVars, guideLoad, tourVars, saved,
                   sessions, strayed>>

-----------------------------------------------------------------------------
(* Exchanges of the provider                                               *)

\* The history of an exchange that begins beside others, if there are some.
Begins(others) == alone' = ~others /\ blurred' = (blurred \/ others)
Moves(p) == p.op \in {"tour", "replay"}
\* And of one that ends with the server's answer.
Concluded(answer, dropped) ==
    /\ blurred' = (blurred /\ ~alone)
    /\ meant' = IF alone /\ (blurred \/ dropped) THEN answer ELSE meant
    /\ strayed' = (strayed \/ dropped)
    /\ UNCHANGED alone

Optimistic(g, p) == [Updated(g, p) EXCEPT !.on = Switched(g.on, p)]

SendSave(a, p, retry, others) ==
    /\ saved < MaxSaves
    /\ saved' = saved + 1
    /\ saves' = saves \cup
         {[id |-> saved', owner |-> a, patch |-> p, retry |-> retry,
           waited |-> TRUE, stage |-> "sent", day |-> date,
           seen |-> DefaultGuide]}
    /\ meant' = Optimistic(meant, p)
    /\ Begins(others)
    /\ strayed' = (others \/ IF Moves(p) THEN retry ELSE strayed)

\* save: the choice shows at once; without an account it is only shown.
SaveGuide(p) ==
    /\ guide' = Optimistic(guide, p)
    /\ IF owner = NoAccount
       THEN blurred' = TRUE /\ UNCHANGED <<saves, saved, alone, strayed, meant>>
       ELSE SendSave(owner, p, FALSE, ~Quiet)
    /\ UNCHANGED <<guideRow, date, owner, unsynced, pendingPatch, localDate,
                   guideLoad, sessions>>
SavesNothing == UNCHANGED <<guideRow, date, saves, providerVars, guideLoad,
                            saved, sessions, guideHistory>>

RetrySync ==
    /\ path = Elsewhere
    /\ pendingPatch # NoPatch /\ owner # NoAccount
    /\ SendSave(owner, pendingPatch, TRUE, ~Quiet)
    /\ UNCHANGED <<guideRow, date, providerVars, guideLoad, tourVars, sessions>>

\* Any success clears the patch that is kept for a retry, also that of another
\* save, which is dropped.
SaveAnswered(m) ==
    /\ m \in saves /\ m.waited /\ m.stage = "done"
    /\ saves' = saves \ {m}
    /\ guide' = m.seen
    /\ unsynced' = FALSE
    /\ pendingPatch' = NoPatch
    /\ Concluded(m.seen, pendingPatch \notin {NoPatch, m.patch})
    /\ UNCHANGED <<guideRow, date, owner, localDate, guideLoad, tourVars,
                   saved, sessions>>

\* The request or its answer is lost, or the page does not wait any longer for
\* what the server still does.  Only the last failed patch is kept.
SaveFailed(m) ==
    /\ m \in saves /\ m.waited
    /\ \/ saves' = saves \ {m}
       \/ /\ m.stage # "done"
          /\ saves' = (saves \ {m}) \cup {[m EXCEPT !.waited = FALSE]}
    /\ unsynced' = TRUE
    /\ pendingPatch' = IF m.retry THEN pendingPatch ELSE m.patch
    /\ LET drops == pendingPatch \notin {NoPatch, m.patch} IN
       blurred' = (blurred \/ drops) /\ strayed' = (strayed \/ drops)
    /\ UNCHANGED <<guideRow, date, owner, guide, localDate, guideLoad,
                   tourVars, saved, sessions, alone, meant>>

LoadSees ==
    /\ guideLoad # NoLoad /\ ~guideLoad.read
    /\ guideLoad' = [read |-> TRUE, seen |-> GuideOn(owner, date)]
    /\ UNCHANGED <<guideRow, date, saves, providerVars, tourVars, saved,
                   sessions, guideHistory>>
LoadAnswered ==
    /\ guideLoad # NoLoad /\ guideLoad.read
    /\ guideLoad' = NoLoad
    /\ guide' = guideLoad.seen
    /\ Concluded(guide', FALSE)
    /\ UNCHANGED <<guideRow, date, saves, owner, unsynced, pendingPatch,
                   localDate, tourVars, saved, sessions>>
\* A load that fails shows the defaults.
GuideLoadFailed ==
    /\ guideLoad # NoLoad
    /\ guideLoad' = NoLoad
    /\ guide' = DefaultGuide
    /\ blurred' = TRUE /\ strayed' = TRUE
    /\ UNCHANGED <<guideRow, date, saves, owner, unsynced, pendingPatch,
                   localDate, tourVars, saved, sessions, alone, meant>>

Tour(status, step) == [op |-> "tour", status |-> status, step |-> step]
NewLoad == [read |-> FALSE, seen |-> DefaultGuide]
\* The window has the focus again and the day has changed: a new load, and an
\* answer to the one before is ignored.
WindowFocus ==
    /\ localDate # date
    /\ localDate' = date
    /\ IF owner = NoAccount
       THEN UNCHANGED <<guideLoad, alone, blurred, strayed>>
       ELSE /\ guideLoad' = NewLoad /\ Begins(saves # {})
            /\ strayed' = (strayed \/ saves # {})
    /\ UNCHANGED <<guideRow, date, saves, owner, guide, unsynced,
                   pendingPatch, tourVars, saved, sessions, meant>>

\* The session is read again with each route: it has come, ended or changed.
\* Answers to saves of the account before still count when they come.  A tour
\* that began before the session came follows the route for its account.
AccountChanges(a) ==
    /\ a # owner /\ sessions < MaxSessions
    /\ owner # NoAccount => path = Elsewhere
    /\ sessions' = sessions + 1
    /\ owner' = a
    /\ unsynced' = FALSE /\ pendingPatch' = NoPatch
    /\ tourVisible' = (tourVisible /\ owner = NoAccount)
    /\ guideLoad' = IF a = NoAccount THEN NoLoad ELSE NewLoad
    /\ IF tourVisible' /\ path \in TourSteps \ {0}
       THEN /\ guide' = Optimistic(DefaultGuide, Tour("IN_PROGRESS", path))
            /\ tourStop' = 0
            /\ SendSave(a, Tour("IN_PROGRESS", path), FALSE, TRUE)
       ELSE /\ guide' = DefaultGuide
            /\ alone' = (saves = {}) /\ blurred' = TRUE /\ strayed' = TRUE
            /\ UNCHANGED <<saves, saved, tourStop, meant>>
    /\ UNCHANGED <<guideRow, date, localDate, path, going>>

-----------------------------------------------------------------------------
(* Choices                                                                 *)

SwitchGuide(which) ==
    /\ path = Elsewhere
    /\ SaveGuide([op |-> "switch", which |-> which,
                  to |-> which \notin guide.on])
    /\ UNCHANGED tourVars

\* A tip is shown beside no tour, and while it is not hidden; on the dashboard,
\* where the user opens the guide, also with the tips switched off.
DismissTip(tip) ==
    /\ ~tourVisible /\ ("tipsEnabled" \in guide.on \/ path = 0)
    /\ tip \notin guide.hidden
    /\ SaveGuide([op |-> "dismiss", tip |-> tip])
    /\ UNCHANGED tourVars

ResetTips ==
    /\ path = Elsewhere /\ guide.hidden # {}
    /\ SaveGuide([op |-> "reset"])
    /\ UNCHANGED tourVars

-----------------------------------------------------------------------------
(* The tour                                                                *)

\* navigate, unless the route is the one that is rendered.
ShowStep(step) == going' = IF step # path THEN step ELSE going

Invited(statuses) == /\ ~tourVisible /\ guide.status \in statuses
                     /\ path \in {0, Elsewhere}
StartTour ==
    /\ Invited({"NOT_STARTED"})
    /\ tourVisible' = TRUE /\ tourStop' = 0
    /\ SaveGuide(Tour("IN_PROGRESS", 0))
    /\ ShowStep(0) /\ UNCHANGED path
ReplayTour ==
    /\ path = Elsewhere
    /\ tourVisible' = TRUE /\ tourStop' = 0
    /\ SaveGuide([op |-> "replay"])
    /\ ShowStep(0) /\ UNCHANGED path

\* The tour follows the route that is rendered, when that or its visibility
\* changes.
Follow(route) ==
    /\ tourStop' = 0
    /\ SaveGuide(Tour("IN_PROGRESS", route))
OffStep(route) == route \in TourSteps /\ route # guide.step

\* Resumed on the dashboard, the tour first follows it and then the route of
\* the step it was paused at, which is rendered later.
ResumeTour ==
    /\ Invited({"IN_PROGRESS"})
    /\ tourVisible' = TRUE
    /\ ShowStep(guide.step) /\ UNCHANGED path
    /\ IF OffStep(path) THEN Follow(path) ELSE tourStop' = 0 /\ SavesNothing

Navigate(route) ==
    /\ route # path /\ going = NoRoute
    /\ going' = route
    /\ UNCHANGED <<tourVisible, tourStop, path>> /\ SavesNothing
Arrive ==
    /\ going # NoRoute
    /\ path' = going /\ going' = NoRoute
    /\ UNCHANGED tourVisible
    /\ IF tourVisible /\ OffStep(going) THEN Follow(going)
                                        ELSE UNCHANGED tourStop /\ SavesNothing

GoToStep(step) == /\ SaveGuide(Tour("IN_PROGRESS", step))
                  /\ ShowStep(step)
                  /\ UNCHANGED <<tourVisible, path>>
CompleteTour == /\ tourVisible' = FALSE
                /\ SaveGuide(Tour("COMPLETED", LastStep))
                /\ ShowStep(0) /\ UNCHANGED <<tourStop, path>>
GoToStop(stop) == /\ tourStop' = stop
                  /\ UNCHANGED <<tourVisible, path, going>> /\ SavesNothing

NextStop ==
    /\ tourVisible
    /\ IF tourStop + 1 < StopCount(guide.step) THEN GoToStop(tourStop + 1)
       ELSE IF guide.step < LastStep
       THEN tourStop' = 0 /\ GoToStep(guide.step + 1)
       ELSE CompleteTour
BackStop ==
    /\ tourVisible
    /\ IF tourStop > 0 THEN GoToStop(tourStop - 1)
       ELSE /\ guide.step > 0
            /\ tourStop' = StopCount(guide.step - 1) - 1
            /\ GoToStep(guide.step - 1)
JumpToStop(stop) ==
    /\ tourVisible
    /\ stop # tourStop /\ stop < StopCount(guide.step)
    /\ GoToStop(stop)
SkipFeature ==
    /\ tourVisible
    /\ IF guide.step < LastStep THEN tourStop' = 0 /\ GoToStep(guide.step + 1)
                                ELSE CompleteTour
\* End the tour, close it, press Escape, or decline the invitation.
SkipTour ==
    /\ tourVisible \/ Invited({"NOT_STARTED", "IN_PROGRESS"})
    /\ tourVisible' = FALSE
    /\ SaveGuide(Tour("SKIPPED", guide.step))
    /\ UNCHANGED <<tourStop, path, going>>

-----------------------------------------------------------------------------
ChooseGuide ==
    \/ \E which \in Switches : SwitchGuide(which)
    \/ \E tip \in Tips : DismissTip(tip)
    \/ ResetTips \/ RetrySync
TakeTour ==
    \/ StartTour \/ ReplayTour \/ ResumeTour \/ NextStop \/ BackStop
    \/ SkipFeature \/ SkipTour \/ Arrive
    \/ \E stop \in 0..(Stops[1] - 1) : JumpToStop(stop)
    \/ \E route \in Routes : Navigate(route)
Exchange ==
    \/ \E m \in saves : \/ SaveRead(m) \/ SaveCommit(m)
                        \/ SaveAnswered(m) \/ SaveFailed(m)
    \/ LoadSees \/ LoadAnswered \/ GuideLoadFailed
    \/ DatePasses \/ WindowFocus
    \/ \E a \in Accounts \cup {NoAccount} : AccountChanges(a)
GuidanceNext == ChooseGuide \/ TakeTour \/ Exchange
GuidanceSpec == GuidanceInit /\ [][GuidanceNext]_guidanceVars
=============================================================================
