------------------------------- MODULE Social -------------------------------
(***************************************************************************)
(* The friends pages of one user: useFriends, useFriendRequests and        *)
(* useFriendsLeaderboard, each a copy of what the server has, the          *)
(* mutations that invalidate them, and the service of Friends behind.      *)
(*                                                                         *)
(* Each hook numbers its loads and applies an answer only if no later load *)
(* was started; answers come in any order.  version and since are history  *)
(* variables: how often the rows of a resource changed since the page was  *)
(* opened, and at which version a mutation of this user that was           *)
(* acknowledged changed them.                                              *)
(***************************************************************************)
EXTENDS Friends

CONSTANTS
    Me,        \* the user of the pages
    Mine,      \* the mutation the pages have under way, one of Calls
    Pages,     \* the resources each page shows
    MaxLoads,  \* bound: loads of one resource on one page
    MaxVisits, \* bound: pages visited
    OtherOps   \* bound: what is done besides the mutation of the pages

Resources == {"friends", "friendRequests", "leaderboard"}

ASSUME SocialConstants ==
    /\ Me \in Users /\ Mine \in Calls
    /\ Pages \subseteq SUBSET Resources
    /\ MaxLoads \in Nat /\ MaxVisits \in Nat \ {0}
    /\ OtherOps \subseteq Ops

VARIABLES
    mounted,  \* the hooks of the page that is open
    visits,
    latest,   \* requestId.current of each hook
    load,     \* its loads that are not answered
    view,     \* its data: whom it lists, and the version it was read at
    failed,   \* its error
    version, owed, since

viewVars == <<mounted, visits, latest, load, view, failed>>
socialVars == <<friendVars, viewVars, version, owed, since>>

NoView == [items |-> {}, at |-> -1]
Load == [id: 1..MaxLoads + 2, read: BOOLEAN, items: SUBSET Users, at: Nat]

\* What the server would answer, given the rows: listFriends, listRequests
\* with direction incoming, listLeaderboard.
Content(r, req, fr, acc) ==
    CASE r = "friends" -> {v \in Users : <<Me, v>> \in fr}
      [] r = "friendRequests" ->
           {v \in Users : v # Me /\ req[<<v, Me>>] = "PENDING"}
      [] OTHER -> {v \in Users : acc[v] = "ACTIVE" /\
                                 (v = Me \/ <<Me, v>> \in fr)}
Now(r) == Content(r, request, friend, account)

SocialTypeOK ==
    /\ FriendsTypeOK
    /\ mounted \in Pages
    /\ visits \in 1..MaxVisits
    /\ latest \in [Resources -> Nat]
    /\ load \in [Resources -> SUBSET Load]
    /\ view \in [Resources -> [items: SUBSET Users, at: Int]]
    /\ failed \in [Resources -> BOOLEAN]
    /\ {version, owed, since} \subseteq [Resources -> Nat]

\* A page is mounted, and each of its hooks starts its first load.
FirstLoadUnnumbered == [id |-> 0, read |-> FALSE, items |-> {}, at |-> 0]
FirstLoad == [id |-> 1, read |-> FALSE, items |-> {}, at |-> 0]
SocialInit ==
    /\ FriendsInit
    /\ mounted \in Pages
    /\ visits = 1
    /\ latest = [r \in Resources |-> 1]
    /\ load = [r \in Resources |-> IF r \in mounted THEN {FirstLoad} ELSE {}]
    /\ view = [r \in Resources |-> NoView]
    /\ failed = [r \in Resources |-> FALSE]
    /\ version = [r \in Resources |-> 0]
    /\ owed = version
    /\ since = version

-----------------------------------------------------------------------------
(* Loads                                                                   *)

\* Another page: its hooks are new, and answers to the old ones are ignored.
\* A mutation under way goes on; only then is leaving more than a new start.
Visit(page) ==
    /\ visits < MaxVisits
    /\ call[Mine] # Idle
    /\ page # mounted
    /\ mounted' = page
    /\ visits' = visits + 1
    /\ latest' = [r \in Resources |-> 1]
    /\ load' = [r \in Resources |-> IF r \in page THEN {FirstLoad} ELSE {}]
    /\ view' = [r \in Resources |-> NoView]
    /\ failed' = [r \in Resources |-> FALSE]
    /\ version' = [r \in Resources |-> 0]
    /\ owed' = version'
    /\ since' = version'
    /\ UNCHANGED friendVars

\* A load by each mounted hook of the resources rs; its error is cleared.
StartLoads(resources) ==
    LET rs == resources \cap mounted IN
    /\ latest' = [r \in Resources |-> latest[r] + IF r \in rs THEN 1 ELSE 0]
    /\ load' = [r \in Resources |-> IF r \in rs
                  THEN load[r] \cup {[FirstLoad EXCEPT !.id = latest[r] + 1]}
                  ELSE load[r]]
    /\ failed' = [r \in Resources |-> failed[r] /\ r \notin rs]
    /\ UNCHANGED <<mounted, visits>>
IsLoading(r) == \E l \in load[r] : l.id = latest[r]
Current(r, l) == l.id = latest[r]

Reload(r) ==
    /\ r \in mounted /\ latest[r] < MaxLoads
    /\ StartLoads({r})
    /\ UNCHANGED <<friendVars, view, version, owed, since>>

ServerReads(r, l) ==
    /\ l \in load[r] /\ ~l.read
    /\ load' = [load EXCEPT ![r] = (@ \ {l}) \cup
         {[l EXCEPT !.read = TRUE, !.items = Now(r), !.at = version[r]]}]
    /\ UNCHANGED <<friendVars, mounted, visits, latest, view, failed, version, owed, since>>

Apply(r, l) ==
    /\ l \in load[r] /\ l.read
    /\ load' = [load EXCEPT ![r] = @ \ {l}]
    /\ view' = IF Current(r, l)
               THEN [view EXCEPT ![r] = [items |-> l.items, at |-> l.at]]
               ELSE view
    /\ UNCHANGED <<friendVars, mounted, visits, latest, failed, version, owed, since>>

\* The request or its answer is lost.
LoadFails(r, l) ==
    /\ l \in load[r]
    /\ load' = [load EXCEPT ![r] = @ \ {l}]
    /\ failed' = [failed EXCEPT ![r] = @ \/ Current(r, l)]
    /\ UNCHANGED <<friendVars, mounted, visits, latest, view, version, owed, since>>

-----------------------------------------------------------------------------
(* Mutations of this user                                                  *)

\* A request is answered on a card that lists it; what the search and the
\* profile page show may be old.
Shown(r) == IF r \notin mounted \/ IsLoading(r) \/ failed[r]
            THEN {} ELSE view[r].items
Act(v) ==
    /\ \A r \in Resources : latest[r] < MaxLoads
    /\ \/ SendBegin(Mine, Me, v)
       \/ RemoveBegin(Mine, Me, v)
       \/ /\ v \in Shown("friendRequests") /\ v # Me
          /\ \E op \in {"accept", "decline"} :
               AnswerBegin(Mine, op, Me, <<v, Me>>)
       \/ v # Me /\ AnswerBegin(Mine, "cancel", Me, <<Me, v>>)

\* invalidateSocial in each mutation hook.
InvalidatesLists(op) ==
    CASE op = "accept" -> {"friends", "friendRequests"}
      [] op = "remove" -> {"friends", "leaderboard"}
      [] OTHER -> {"friendRequests"}
Invalidates(op) ==
    CASE op = "accept" -> Resources
      [] op = "remove" -> {"friends", "leaderboard"}
      [] OTHER -> {"friendRequests"}

\* The answer: on success the resources are loaded again and a request that
\* was answered is taken off the list at once; on an error nothing is.
TakeAnswer(c) ==
    LET x == call[c]
        answered == IF x.op \in {"accept", "decline"} THEN {x.pair[1]} ELSE {}
    IN
    /\ Take(c)
    /\ IF x.step = "ok"
       THEN /\ StartLoads(Invalidates(x.op))
            /\ view' = [view EXCEPT !["friendRequests"].items = @ \ answered]
            /\ since' = [r \in Resources |-> IF owed[r] > since[r]
                                             THEN owed[r] ELSE since[r]]
       ELSE UNCHANGED <<viewVars, since>>
    /\ owed' = [r \in Resources |-> 0]
    /\ UNCHANGED version

\* The history of a step of the server: whether it changed what r lists, and
\* whether it was the commit of this user's mutation.
Noted(own) ==
    LET changed == {r \in Resources :
                      r \in mounted /\
                      Content(r, request', friend', account') # Now(r)}
    IN
    /\ version' = [r \in Resources |-> version[r] + IF r \in changed THEN 1 ELSE 0]
    /\ owed' = [r \in Resources |-> IF own /\ r \in changed THEN version[r] + 1
                                                            ELSE owed[r]]
ServerStep ==
    /\ \/ Leave /\ Noted(FALSE)
       \/ \E c \in Calls : (Work(c) \/ Lose(c)) /\ Noted(c = Mine)
    /\ UNCHANGED <<viewVars, since>>

\* Other users, and this one in another window.
OthersStep ==
    /\ \E c \in Calls \ {Mine} :
         (Start(c) /\ call'[c].op \in OtherOps) \/ Take(c)
    /\ UNCHANGED <<viewVars, version, owed, since>>

-----------------------------------------------------------------------------
PageStep ==
    \/ \E v \in Users : Act(v) /\ UNCHANGED <<viewVars, version, owed, since>>
    \/ TakeAnswer(Mine)
    \/ \E page \in Pages : Visit(page)
    \/ \E r \in Resources : Reload(r)
    \/ \E r \in Resources : \E l \in load[r] :
         ServerReads(r, l) \/ Apply(r, l) \/ LoadFails(r, l)
SocialNext == PageStep \/ ServerStep \/ OthersStep
SocialSpec == SocialInit /\ [][SocialNext]_socialVars
=============================================================================
