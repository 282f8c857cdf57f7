--------------------------- MODULE GuidanceProps ----------------------------
(***************************************************************************)
(* What the guidance of the mascot promises.  Each holds while the page is *)
(* quiet, does not warn that a choice is unsaved, and no overlap or drop   *)
(* of saves is left to be cleared by an exchange with nothing beside it.   *)
(***************************************************************************)
EXTENDS Guidance

GuideSettled == owner # NoAccount /\ Quiet /\ ~unsynced /\ ~blurred

\* The page shows what the account has, as of a day the page has seen, through
\* failed saves, retries, midnights, and changes of the account
\* (GuidanceProvider's save, retrySync and load).
ShowsTheAccount ==
    GuideSettled => \E d \in localDate..date : guide = GuideOn(owner, d)

\* The account has what the user chose, and hides a tip until midnight: no
\* save writes over a choice it does not name, although it writes the tour
\* and the tips of what it read (updateState, todaysDismissals).
HasTheChoices == GuideSettled => GuideOn(owner, date) = meant

\* A tour in view, on a page that is part of it, is at the step of that page:
\* whichever way the user came there (syncWalkthroughToRoute).
TourIsOnItsPage ==
    /\ GuideSettled /\ ~strayed
    /\ tourVisible /\ going = NoRoute /\ path \in TourSteps
    => guide.step = path

GuidanceIsKept == ShowsTheAccount /\ HasTheChoices /\ TourIsOnItsPage
=============================================================================
