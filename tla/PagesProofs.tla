---------------------------- MODULE PagesProofs ----------------------------
(***************************************************************************)
(* Proofs about friends and the pages that show them, for any set of users *)
(* and calls: the two rows of a friendship stay together and the calls     *)
(* implement the friendships users see, and a page shows what its user     *)
(* did, however its loads and those of the pages before it are answered.   *)
(* About guidance, for any accounts, switches, tips and stops of the tour: *)
(* a page that has its answers shows its user's own guidance, with what    *)
(* was chosen, and the tour is where the user is.  And about the pages     *)
(* together: what is checked of them at once is checked of each.           *)
(***************************************************************************)
EXTENDS MCPages, PayDeskProofs, SequenceTheorems

-----------------------------------------------------------------------------
(* The inductive invariant of the calls                                    *)

\* A request that an acceptance has claimed waits, and no other has claimed it.
ClaimsHold == \A c \in Calls, p \in Pairs : Claims(c, p) => request[p] = "PENDING"
ClaimsAlone == \A c, d \in Calls, p \in Pairs : Claims(c, p) /\ Claims(d, p) => c = d

\* A friendship is two rows, in what is committed.
BothWays == \A p \in friend : Rev(p) \in friend

\* A row is held by the acceptance that inserted it, which is then not there
\* for anybody else, or by the removal that deletes it.
Inserts(c, p) ==
    \/ At(c, "accept", "first") /\ p = Rev(call[c].pair)
    \/ At(c, "accept", "second") /\ p \in {call[c].pair, Rev(call[c].pair)}
Deletes(c, p) == At(c, "remove", "first") /\ p = call[c].pair
HoldersKnown == \A c \in Calls, p \in Pairs : holder[p] = c =>
    \/ Inserts(c, p) /\ p \notin friend
    \/ Deletes(c, p) /\ p \in friend

\* A removal holds the row of its caller from its first statement on.
RemovalsHold == \A c \in Calls :
    At(c, "remove", "first") => holder[call[c].pair] = c

\* An acceptance that inserted the receiver's row inserted the sender's.
InsertsBoth == \A c \in Calls :
    At(c, "accept", "second") /\ holder[Rev(call[c].pair)] = c => holder[call[c].pair] = c

FriendsSafe ==
    /\ FriendsTypeOK
    /\ ClaimsHold
    /\ ClaimsAlone
    /\ BothWays
    /\ HoldersKnown
    /\ RemovalsHold
    /\ InsertsBoth

-----------------------------------------------------------------------------
(* The inductive invariant of the pages                                    *)

\* A load is numbered up to the latest; what the latest has read includes what
\* the user was told is done.
LoadsInTime == \A r \in mounted : \A l \in load[r] :
    /\ l.id <= latest[r]
    /\ Current(r, l) /\ l.read => l.at >= since[r]

\* What is acknowledged is in the rows, and so is what is about to be.
ChangesCounted == \A r \in Resources :
    since[r] <= version[r] /\ owed[r] <= version[r]

\* What the mutation under way has changed is what its success invalidates.
OwedIsInvalidated == \A r \in mounted : owed[r] > 0 =>
    call[Mine].op # "none" /\ r \in Invalidates(call[Mine].op)

\* Only a mutation starts loads beyond the bound, one at a time.
LoadsBounded == \A r \in Resources :
    /\ latest[r] \in 1..MaxLoads + 1
    /\ call[Mine] # Idle => latest[r] <= MaxLoads

SocialSafe ==
    /\ SocialTypeOK
    /\ LoadsInTime
    /\ ChangesCounted
    /\ OwedIsInvalidated
    /\ LoadsBounded
    /\ OwnActionsShow

-----------------------------------------------------------------------------
(* Calls and rows                                                          *)

\* The two rows of a friendship name each other.
LEMMA Reversed ==
  ASSUME NEW p \in Pairs
  PROVE  Rev(p) \in Pairs /\ Rev(Rev(p)) = p /\ Rev(p) # p
BY DEF Pairs, Rev

\* A call that does something is a record of what it does.
LEMMA CallIs ==
  ASSUME FriendsTypeOK, NEW c \in Calls
  PROVE  /\ call[c] = Idle \/ call[c] \in Call
         /\ call[c] = Idle => call[c].op = "none"
         /\ call[c] \in Call => call[c].op \in Ops
         /\ call[c].op # "none" =>
              /\ call[c] \in Call
              /\ call[c].by \in Users
              /\ call[c].pair \in Pairs /\ Rev(call[c].pair) \in Pairs
              /\ call[c].step \in Steps
<1>1. call[c] \in Call \cup {Idle}
  BY DEF FriendsTypeOK
<1>2. Idle.op = "none"
  BY DEF Idle
<1>3. call[c] \in Call => /\ call[c].op \in Ops /\ call[c].op # "none"
                          /\ call[c].by \in Users /\ call[c].pair \in Pairs
                          /\ call[c].step \in Steps
  BY DEF Call, Ops
<1> QED BY <1>1, <1>2, <1>3, Reversed

\* A call under way that goes on is the same call at another step.
LEMMA Moved ==
  ASSUME FriendsTypeOK, NEW c \in Calls, call[c].op # "none", NEW step \in Steps, Move(c, step)
  PROVE  /\ call' \in [Calls -> Call \cup {Idle}]
         /\ call'[c].op = call[c].op /\ call'[c].pair = call[c].pair
         /\ call'[c].by = call[c].by /\ call'[c].step = step
         /\ \A d \in Calls \ {c} : call'[d] = call[d]
<1>1. call[c] \in Call /\ call \in [Calls -> Call \cup {Idle}]
  BY CallIs DEF FriendsTypeOK
<1> DEFINE x == [call[c] EXCEPT !.step = step]
<1>2. /\ x \in Call /\ x.op = call[c].op /\ x.pair = call[c].pair
      /\ x.by = call[c].by /\ x.step = step
  BY <1>1 DEF Call
<1>3. call' = [call EXCEPT ![c] = x]
  BY DEF Move
<1> HIDE DEF x
<1> QED BY <1>1, <1>2, <1>3

\* A call that begins has its type.
LEMMA Began ==
  ASSUME FriendsTypeOK, NEW c \in Calls, NEW op \in Ops, NEW u \in Users, NEW p \in Pairs,
         Begin(c, op, u, p) \/ Refuse(c, op, u, p)
  PROVE  /\ call' \in [Calls -> Call \cup {Idle}]
         /\ call'[c].op = op /\ call'[c].pair = p /\ call'[c].by = u
         /\ call'[c].step \in {"checked", "refused"}
         /\ \A d \in Calls \ {c} : call'[d] = call[d]
<1>1. call \in [Calls -> Call \cup {Idle}]
  BY DEF FriendsTypeOK
<1> DEFINE x(step) == [op |-> op, by |-> u, pair |-> p, step |-> step]
<1>2. \A step \in {"checked", "refused"} :
        /\ x(step) \in Call /\ x(step).op = op /\ x(step).pair = p
        /\ x(step).by = u /\ x(step).step = step
  BY DEF Call, Steps, Results
<1>3. \E step \in {"checked", "refused"} : call' = [call EXCEPT ![c] = x(step)]
  BY DEF Begin, Refuse
<1> HIDE DEF x
<1> QED BY <1>1, <1>2, <1>3

-----------------------------------------------------------------------------
(* Kinds of steps                                                          *)

\* What a call at this point of its work has neither claimed nor held.
Light(x) == /\ ~(x.op = "accept" /\ x.step \in {"claimed", "first", "second"})
            /\ ~(x.op = "remove" /\ x.step = "first")
Others(c) == \A d \in Calls \ {c} : call'[d] = call[d]
Same(c) == call'[c].op = call[c].op /\ call'[c].pair = call[c].pair
SameRows == UNCHANGED <<request, friend, holder>>

\* A call begins, is refused before it holds anything, is answered, or sends,
\* declines or cancels: at most one request changes, which nobody has claimed.
Speaks(c) ==
    /\ Others(c) /\ Light(call[c]) /\ Light(call'[c])
    /\ UNCHANGED <<friend, holder, account>>
    /\ \/ UNCHANGED request
       \/ \E p \in Pairs :
            \/ /\ request[p] = "NONE"
               /\ request' = [request EXCEPT ![p] = "PENDING"]
            \/ /\ request[p] = "PENDING" /\ ~Locked(p)
               /\ \E answer \in {"DECLINED", "CANCELLED"} :
                    request' = [request EXCEPT ![p] = answer]

\* An acceptance claims its request.
ClaimsIt(c) ==
    /\ Others(c) /\ Same(c) /\ SameRows /\ UNCHANGED account
    /\ At(c, "accept", "checked") /\ call'[c].step = "claimed"
    /\ request[call[c].pair] = "PENDING" /\ ~Locked(call[c].pair)

\* It inserts or skips the first or the second row.
InsertsRow(c, n) ==
    /\ Others(c) /\ Same(c) /\ UNCHANGED <<request, friend, account>>
    /\ At(c, "accept", IF n = 1 THEN "claimed" ELSE "first")
    /\ call'[c].step = IF n = 1 THEN "first" ELSE "second"
    /\ Insert(c, RowOf(c, n))

\* It ends with the friendship in place, or a removal with the friendship gone.
Befriends(c) ==
    /\ Others(c) /\ Light(call'[c]) /\ At(c, "accept", "second") /\ UNCHANGED account
    /\ Visible(c, Rev(call[c].pair))
    /\ request' = [request EXCEPT ![call[c].pair] = "ACCEPTED"]
    /\ friend' = friend \cup Held(c)
    /\ holder' = Release(c)
Parts(c) ==
    /\ Others(c) /\ Light(call'[c]) /\ At(c, "remove", "first") /\ UNCHANGED <<request, account>>
    /\ Rev(call[c].pair) \in friend => holder[Rev(call[c].pair)] = NoCall
    /\ friend' = friend \ {call[c].pair, Rev(call[c].pair)}
    /\ holder' = Release(c)

\* A removal takes the row of its caller.
TakesRow(c) ==
    /\ Others(c) /\ Same(c) /\ UNCHANGED <<request, friend, account>>
    /\ At(c, "remove", "checked") /\ call'[c].step = "first"
    /\ call[c].pair \in friend /\ holder[call[c].pair] = NoCall
    /\ holder' = [holder EXCEPT ![call[c].pair] = c]

\* A call is rolled back.
Ends(c) == /\ Others(c) /\ Light(call'[c]) /\ UNCHANGED <<request, friend, account>>
           /\ holder' = Release(c)

Kinds(c) == \/ Speaks(c) \/ ClaimsIt(c) \/ InsertsRow(c, 1) \/ InsertsRow(c, 2)
            \/ Befriends(c) \/ Parts(c) \/ TakesRow(c) \/ Ends(c)

\* Every step of a call is of one of these kinds, and keeps the type of call.
LEMMA StepKinds ==
  ASSUME FriendsTypeOK, NEW c \in Calls, Start(c) \/ Work(c) \/ Lose(c) \/ Take(c)
  PROVE  Kinds(c) /\ call' \in [Calls -> Call \cup {Idle}]
<1> USE CallIs
<1>1. ASSUME NEW u \in Users, NEW v \in Users, SendBegin(c, u, v)
      PROVE  Speaks(c) /\ call' \in [Calls -> Call \cup {Idle}]
  <2>1. <<u, v>> \in Pairs /\ "send" \in Ops /\ Light(call[c])
    BY <1>1 DEF SendBegin, Pairs, Ops, Light
  <2>2. Begin(c, "send", u, <<u, v>>) \/ Refuse(c, "send", u, <<u, v>>)
    BY <1>1 DEF SendBegin
  <2> QED BY <1>1, <2>1, <2>2, Began DEF SendBegin, Speaks, Light, Others
<1>2. ASSUME NEW u \in Users, NEW v \in Users, RemoveBegin(c, u, v)
      PROVE  Speaks(c) /\ call' \in [Calls -> Call \cup {Idle}]
  <2>1. <<u, v>> \in Pairs /\ "remove" \in Ops /\ Light(call[c])
    BY <1>2 DEF RemoveBegin, Pairs, Ops, Light
  <2>2. Begin(c, "remove", u, <<u, v>>)
    BY <1>2 DEF RemoveBegin
  <2> QED BY <1>2, <2>1, <2>2, Began DEF RemoveBegin, Speaks, Light, Others
<1>3. ASSUME NEW u \in Users, NEW p \in Pairs, NEW op \in Ops, AnswerBegin(c, op, u, p)
      PROVE  Speaks(c) /\ call' \in [Calls -> Call \cup {Idle}]
  <2>1. Light(call[c]) /\ (Begin(c, op, u, p) \/ Refuse(c, op, u, p))
    BY <1>3 DEF AnswerBegin, Light
  <2> QED BY <1>3, <2>1, Began DEF AnswerBegin, Speaks, Light, Others
<1>4. CASE SendInsert(c)
  <2>1. call[c].op # "none" /\ {"created", "refused"} \subseteq Steps /\ Light(call[c])
    BY <1>4 DEF SendInsert, At, Steps, Results, Light
  <2> QED BY <1>4, <2>1, Moved DEF SendInsert, Speaks, Light, Others, Insertable, At, Kinds
<1>5. CASE SendNotify(c)
  <2>1. call[c].op # "none" /\ "ok" \in Steps /\ Light(call[c])
    BY <1>5 DEF SendNotify, At, Steps, Results, Light
  <2> QED BY <1>5, <2>1, Moved DEF SendNotify, Speaks, Light, Others, At, Kinds
<1>6. ASSUME NEW op, AnswerCommit(c, op) PROVE Speaks(c) /\ call' \in [Calls -> Call \cup {Idle}]
  <2>1. call[c].op # "none" /\ {"ok", "refused"} \subseteq Steps /\ Light(call[c])
    BY <1>6 DEF AnswerCommit, At, Steps, Results, Light
  <2> QED BY <1>6, <2>1, Moved DEF AnswerCommit, Speaks, Light, Others, At, StillPending
<1>7. CASE AcceptClaim(c)
  <2>1. call[c].op # "none" /\ {"claimed", "refused"} \subseteq Steps
    BY <1>7 DEF AcceptClaim, At, Steps, Results
  <2> QED BY <1>7, <2>1, Moved DEF AcceptClaim, Speaks, ClaimsIt, Same, SameRows, Light, Others,
                                   At, StillPending, Kinds
<1>8. ASSUME NEW n \in 1..2, AcceptInsert(c, n)
      PROVE  InsertsRow(c, n) /\ call' \in [Calls -> Call \cup {Idle}]
  <2>1. call[c].op # "none" /\ {"first", "second"} \subseteq Steps
    BY <1>8 DEF AcceptInsert, At, Steps, Results
  <2> QED BY <1>8, <2>1, Moved DEF AcceptInsert, InsertsRow, Same, Others, At
<1>9. CASE AcceptFinish(c)
  <2>1. call[c].op # "none" /\ {"ok", "refused"} \subseteq Steps
    BY <1>9 DEF AcceptFinish, At, Steps, Results
  <2>2. RowOf(c, 1) = Rev(call[c].pair)
    BY DEF RowOf
  <2> QED BY <1>9, <2>1, <2>2, Moved DEF AcceptFinish, Befriends, Ends, Light, Others, At, Kinds
<1>10. CASE RemoveOwnRow(c)
  <2>1. call[c].op # "none" /\ {"first", "refused"} \subseteq Steps
    BY <1>10 DEF RemoveOwnRow, At, Steps, Results
  <2> QED BY <1>10, <2>1, Moved DEF RemoveOwnRow, TakesRow, Speaks, Same, Light, Others, At, Kinds
<1>11. CASE RemoveFinish(c)
  <2>1. call[c].op # "none" /\ "ok" \in Steps
    BY <1>11 DEF RemoveFinish, At, Steps, Results
  <2> QED BY <1>11, <2>1, Moved DEF RemoveFinish, Parts, Light, Others, At, Kinds
<1>12. ASSUME NEW step \in {"refused", "lost"}, Abort(c, step)
       PROVE  Ends(c) /\ call' \in [Calls -> Call \cup {Idle}]
  <2>1. call[c].op # "none" /\ step \in Steps
    BY <1>12 DEF Abort, Running, Steps, Results
  <2> QED BY <1>12, <2>1, Moved DEF Abort, Ends, Light, Others
<1>13. CASE Take(c)
  <2>1. /\ call' \in [Calls -> Call \cup {Idle}]
        /\ call'[c] = Idle /\ Idle.op = "none" /\ Others(c)
    BY <1>13 DEF Take, Others, FriendsTypeOK, Idle
  <2>2. Light(call[c])
    BY <1>13 DEF Take, Light, Results
  <2> QED BY <1>13, <2>1, <2>2 DEF Take, Speaks, Light, Kinds
<1>14. CASE Victim(c)
  BY <1>14, <1>12 DEF Victim, Kinds
<1>15. CASE Lose(c)
  BY <1>15, <1>12 DEF Lose, Kinds
<1>16. Start(c) => Kinds(c) /\ call' \in [Calls -> Call \cup {Idle}]
  BY <1>1, <1>2, <1>3 DEF Start, Kinds
<1>17. Work(c) => Kinds(c) /\ call' \in [Calls -> Call \cup {Idle}]
  BY <1>4, <1>5, <1>6, <1>7, <1>8, <1>9, <1>10, <1>11, <1>14 DEF Work, Kinds
<1> QED BY <1>13, <1>15, <1>16, <1>17

\* A step of the service is one of these kinds, or a user leaves.
LEMMA StepOf ==
  ASSUME FriendsTypeOK, FriendsNext
  PROVE  \/ \E c \in Calls : Kinds(c) /\ call' \in [Calls -> Call \cup {Idle}]
         \/ \E u \in Users : Deactivate(u)
         \/ \E u \in Users : DeleteUser(u)
BY StepKinds DEF FriendsNext, Leave

\* Releasing a call's rows leaves those of the others.
LEMMA Released ==
  ASSUME FriendsTypeOK, FriendsConstants, NEW c \in Calls
  PROVE  /\ Release(c) \in [Pairs -> Calls \cup {NoCall}]
         /\ \A p \in Pairs, d \in Calls : Release(c)[p] = d <=> holder[p] = d /\ d # c
BY DEF Release, FriendsTypeOK, FriendsConstants

-----------------------------------------------------------------------------
(* Every step keeps the rows of the service as they should be              *)

\* Calls and rows keep their types.
LEMMA FriendsTyped ==
  ASSUME FriendsTypeOK, [FriendsNext]_friendVars
  PROVE  FriendsTypeOK'
<1> USE FriendsConstants
<1>1. ASSUME NEW c \in Calls, Kinds(c), call' \in [Calls -> Call \cup {Idle}] PROVE FriendsTypeOK'
  <2>1. CASE Speaks(c)
    BY <1>1, <2>1 DEF Speaks, FriendsTypeOK, Answered
  <2>2. CASE ClaimsIt(c) \/ Ends(c)
    BY <1>1, <2>2, Released DEF ClaimsIt, SameRows, Ends, FriendsTypeOK
  <2>3. ASSUME NEW n \in 1..2, InsertsRow(c, n) PROVE FriendsTypeOK'
    <3>1. holder' = holder \/ \E p : holder' = [holder EXCEPT ![p] = c]
      BY <2>3 DEF InsertsRow, Insert
    <3> QED BY <1>1, <2>3, <3>1 DEF InsertsRow, FriendsTypeOK
  <2>4. CASE Befriends(c)
    BY <1>1, <2>4, Released DEF Befriends, Held, FriendsTypeOK, Answered
  <2>5. CASE Parts(c)
    BY <1>1, <2>5, Released DEF Parts, FriendsTypeOK
  <2>6. CASE TakesRow(c)
    BY <1>1, <2>6 DEF TakesRow, FriendsTypeOK
  <2> QED BY <1>1, <2>1, <2>2, <2>3, <2>4, <2>5, <2>6 DEF Kinds
<1>2. ASSUME NEW u \in Users, Deactivate(u) PROVE FriendsTypeOK'
  BY <1>2 DEF Deactivate, FriendsTypeOK
<1>3. ASSUME NEW u \in Users, DeleteUser(u) PROVE FriendsTypeOK'
  BY <1>3 DEF DeleteUser, FriendsTypeOK
<1>4. CASE UNCHANGED friendVars
  BY <1>4 DEF friendVars, FriendsTypeOK
<1> QED BY <1>1, <1>2, <1>3, <1>4, StepOf

\* What a call has claimed stays claimed while the others go on.
LEMMA ClaimsStep ==
  ASSUME FriendsTypeOK, ClaimsHold, ClaimsAlone, [FriendsNext]_friendVars
  PROVE  ClaimsHold' /\ ClaimsAlone'
<1> USE FriendsConstants
<1>1. ASSUME NEW c \in Calls, Kinds(c), call' \in [Calls -> Call \cup {Idle}]
      PROVE  ClaimsHold' /\ ClaimsAlone'
  <2>0. \A d \in Calls \ {c}, p \in Pairs : Others(c) => (Claims(d, p)' <=> Claims(d, p))
    BY DEF Others, Claims
  <2>1. CASE Speaks(c)
    <3>1. \A p \in Pairs : ~Claims(c, p)'
      BY <2>1 DEF Speaks, Light, Claims
    <3>2. \A d \in Calls, p \in Pairs : Claims(d, p)' => Claims(d, p)
      BY <2>0, <2>1, <3>1 DEF Speaks
    <3>3. \A d \in Calls, p \in Pairs : Claims(d, p)' => request'[p] = "PENDING"
      <4> SUFFICES ASSUME NEW d \in Calls, NEW p \in Pairs, Claims(d, p)'
                   PROVE  request'[p] = "PENDING"
        OBVIOUS
      <4>1. Claims(d, p) /\ Locked(p) /\ request[p] = "PENDING"
        BY <3>2 DEF Locked, ClaimsHold
      <4> QED BY <2>1, <4>1 DEF Speaks, FriendsTypeOK
    <3> QED BY <3>2, <3>3 DEF ClaimsHold, ClaimsAlone
  <2>2. CASE ClaimsIt(c)
    <3>1. \A p \in Pairs : Claims(c, p)' => p = call[c].pair /\ request[p] = "PENDING" /\ ~Locked(p)
      BY <2>2 DEF ClaimsIt, Same, Claims
    <3>2. request' = request
      BY <2>2 DEF ClaimsIt, SameRows
    <3>3. \A d \in Calls \ {c}, p \in Pairs : Claims(d, p)' => ~Claims(c, p)'
      BY <2>0, <2>2, <3>1 DEF ClaimsIt, Locked
    <3> QED BY <2>0, <2>2, <3>1, <3>2, <3>3 DEF ClaimsHold, ClaimsAlone, ClaimsIt
  <2>3. CASE InsertsRow(c, 1) \/ InsertsRow(c, 2) \/ TakesRow(c)
    <3>1. \A d \in Calls, p \in Pairs : Claims(d, p)' => Claims(d, p)
      BY <2>0, <2>3 DEF InsertsRow, TakesRow, Same, Claims, At
    <3> QED BY <2>3, <3>1 DEF ClaimsHold, ClaimsAlone, InsertsRow, TakesRow
  <2>4. CASE Befriends(c)
    <3>1. \A p \in Pairs : ~Claims(c, p)'
      BY <2>4 DEF Befriends, Light, Claims
    <3>2. \A d \in Calls, p \in Pairs : Claims(d, p)' => d # c /\ Claims(d, p)
      BY <2>0, <2>4, <3>1 DEF Befriends
    <3>3. call[c].pair \in Pairs /\ Claims(c, call[c].pair)
      BY <2>4, CallIs DEF Befriends, At, Claims
    <3>4. \A d \in Calls, p \in Pairs : Claims(d, p)' => p # call[c].pair
      BY <3>2, <3>3 DEF ClaimsAlone
    <3> QED BY <2>4, <3>2, <3>4 DEF ClaimsHold, ClaimsAlone, Befriends, FriendsTypeOK
  <2>5. CASE Parts(c) \/ Ends(c)
    <3>1. \A p \in Pairs : ~Claims(c, p)'
      BY <2>5 DEF Parts, Ends, Light, Claims
    <3>2. \A d \in Calls, p \in Pairs : Claims(d, p)' => Claims(d, p)
      BY <2>0, <2>5, <3>1 DEF Parts, Ends
    <3> QED BY <2>5, <3>2 DEF ClaimsHold, ClaimsAlone, Parts, Ends
  <2> QED BY <1>1, <2>1, <2>2, <2>3, <2>4, <2>5 DEF Kinds
<1>2. ASSUME NEW u \in Users, Deactivate(u) PROVE ClaimsHold' /\ ClaimsAlone'
  BY <1>2 DEF Deactivate, ClaimsHold, ClaimsAlone, Claims
<1>3. ASSUME NEW u \in Users, DeleteUser(u) PROVE ClaimsHold' /\ ClaimsAlone'
  <2>1. \A p \in Pairs : Locked(p) => request'[p] = request[p]
    BY <1>3 DEF DeleteUser
  <2>2. \A d \in Calls, p \in Pairs : Claims(d, p)' <=> Claims(d, p)
    BY <1>3 DEF DeleteUser, Claims
  <2> QED BY <2>1, <2>2 DEF ClaimsHold, ClaimsAlone, Locked
<1>4. CASE UNCHANGED friendVars
  BY <1>4 DEF friendVars, ClaimsHold, ClaimsAlone, Claims
<1> QED BY <1>1, <1>2, <1>3, <1>4, StepOf

\* What an acceptance that ends has inserted, and what was there, is all of the
\* friendship or nothing of it.
LEMMA WholeFriendship ==
  ASSUME FriendsSafe, NEW c \in Calls, Befriends(c)
  PROVE  /\ call[c].pair \in Pairs
         /\ friend' = friend \cup {call[c].pair, Rev(call[c].pair)}
         /\ request[call[c].pair] = "PENDING"
         /\ \A p \in Pairs : holder[p] = c => p \in {call[c].pair, Rev(call[c].pair)}
<1> DEFINE p == call[c].pair
           q == Rev(call[c].pair)
<1>1. p \in Pairs /\ q \in Pairs /\ Rev(q) = p /\ Claims(c, p) /\ At(c, "accept", "second")
  BY CallIs, Reversed DEF Befriends, At, FriendsSafe, Claims
<1>2. request[p] = "PENDING"
  BY <1>1 DEF FriendsSafe, ClaimsHold
<1>3. \A r \in Pairs : holder[r] = c => r \in {p, q} /\ r \notin friend
  BY <1>1 DEF FriendsSafe, HoldersKnown, Inserts, Deletes, At
<1>4. Held(c) \subseteq {p, q}
  BY <1>3 DEF Held
<1>5. CASE q \in friend
  <2>1. p \in friend
    BY <1>1, <1>5 DEF FriendsSafe, BothWays
  <2> QED BY <1>1, <1>2, <1>3, <1>4, <1>5, <2>1 DEF Befriends
<1>6. CASE holder[q] = c
  <2>1. holder[p] = c
    BY <1>1, <1>6 DEF FriendsSafe, InsertsBoth
  <2>2. Held(c) = {p, q}
    BY <1>1, <1>4, <1>6, <2>1 DEF Held
  <2> QED BY <1>1, <1>2, <1>3, <2>2 DEF Befriends
<1> QED BY <1>5, <1>6 DEF Befriends, Visible

\* What a removal that ends has deleted is all of the friendship.
LEMMA WholeParting ==
  ASSUME FriendsSafe, NEW c \in Calls, Parts(c)
  PROVE  /\ call[c].pair \in Pairs /\ call[c].pair \in friend
         /\ friend' = friend \ {call[c].pair, Rev(call[c].pair)}
         /\ Rev(call[c].pair) \in friend
         /\ holder[call[c].pair] = c /\ holder[Rev(call[c].pair)] = NoCall
<1>1. call[c].pair \in Pairs /\ At(c, "remove", "first")
  BY CallIs DEF Parts, At, FriendsSafe
<1>2. holder[call[c].pair] = c /\ call[c].pair \in friend
  BY <1>1 DEF FriendsSafe, HoldersKnown, RemovalsHold, Inserts, Deletes, At
<1> QED BY <1>1, <1>2 DEF Parts, FriendsSafe, BothWays

\* Both rows of a friendship come and go together.
LEMMA BothWaysStep ==
  ASSUME FriendsSafe, [FriendsNext]_friendVars
  PROVE  BothWays'
<1>1. ASSUME NEW c \in Calls, Kinds(c) PROVE BothWays'
  <2>1. CASE Befriends(c)
    BY <2>1, WholeFriendship, Reversed DEF FriendsSafe, BothWays
  <2>2. CASE Parts(c)
    <3>1. \A p \in friend : p \in Pairs /\ Rev(p) \in friend /\ Rev(Rev(p)) = p
      BY Reversed DEF FriendsSafe, FriendsTypeOK, BothWays
    <3> QED BY <2>2, <3>1, WholeParting DEF BothWays
  <2>3. CASE UNCHANGED friend
    BY <2>3 DEF FriendsSafe, BothWays
  <2> QED BY <1>1, <2>1, <2>2, <2>3
          DEF Kinds, Speaks, ClaimsIt, SameRows, InsertsRow, TakesRow, Ends
<1>2. ASSUME NEW u \in Users, DeleteUser(u) PROVE BothWays'
  <2>1. \A p \in friend : p \in Pairs /\ Rev(p) \in friend /\ Rev(p) \in Pairs
    BY Reversed DEF FriendsSafe, FriendsTypeOK, BothWays
  <2>2. \A p \in Pairs : u \in {p[1], p[2]} <=> u \in {Rev(p)[1], Rev(p)[2]}
    BY DEF Rev
  <2> QED BY <1>2, <2>1, <2>2 DEF DeleteUser, BothWays
<1>3. ASSUME NEW u \in Users, Deactivate(u) PROVE BothWays'
  BY <1>3 DEF Deactivate, FriendsSafe, BothWays
<1>4. CASE UNCHANGED friendVars
  BY <1>4 DEF friendVars, FriendsSafe, BothWays
<1> QED BY <1>1, <1>2, <1>3, <1>4, StepOf DEF FriendsSafe

\* A held row stays with its call, and is there for the others or not, until the
\* call ends.
LEMMA HoldersStep ==
  ASSUME FriendsSafe, [FriendsNext]_friendVars
  PROVE  HoldersKnown' /\ RemovalsHold' /\ InsertsBoth'
<1> USE FriendsConstants
<1>1. ASSUME NEW c \in Calls, Kinds(c) PROVE HoldersKnown' /\ RemovalsHold' /\ InsertsBoth'
  <2>0. \A d \in Calls \ {c} : call'[d] = call[d]
    BY <1>1 DEF Kinds, Speaks, ClaimsIt, InsertsRow, Befriends, Parts, TakesRow, Ends, Others
  <2>1. \A d \in Calls \ {c}, p \in Pairs : /\ Inserts(d, p)' <=> Inserts(d, p)
                                            /\ Deletes(d, p)' <=> Deletes(d, p)
    BY <2>0 DEF Inserts, Deletes, At
  <2>10. \A d \in Calls \ {c} : /\ At(d, "remove", "first")' <=> At(d, "remove", "first")
                                /\ At(d, "accept", "second")' <=> At(d, "accept", "second")
    BY <2>0 DEF At
  <2>2. \A d \in Calls : /\ At(d, "remove", "first") => call[d].pair \in Pairs
                         /\ At(d, "accept", "first") \/ At(d, "accept", "second") =>
                              call[d].pair \in Pairs /\ Rev(call[d].pair) \in Pairs
    BY CallIs DEF At, FriendsSafe
  <2>3. CASE Speaks(c) \/ ClaimsIt(c)
    <3>1. /\ UNCHANGED <<friend, holder>>
          /\ \A p \in Pairs : holder[p] # c
          /\ ~At(c, "remove", "first")' /\ ~At(c, "accept", "second")'
      BY <2>3 DEF Speaks, ClaimsIt, SameRows, Same, Light, At, FriendsSafe, HoldersKnown, Inserts,
                  Deletes
    <3>2. HoldersKnown'
      BY <2>1, <2>3, <3>1 DEF Speaks, ClaimsIt, FriendsSafe, HoldersKnown
    <3>3. RemovalsHold' /\ InsertsBoth'
      BY <2>0, <2>10, <2>2, <3>1 DEF FriendsSafe, RemovalsHold, InsertsBoth
    <3> QED BY <3>2, <3>3
  <2>4. CASE Ends(c)
    <3>1. /\ UNCHANGED friend
          /\ \A p \in Pairs, d \in Calls : holder'[p] = d <=> holder[p] = d /\ d # c
          /\ ~At(c, "remove", "first")' /\ ~At(c, "accept", "second")'
      BY <2>4, Released DEF Ends, Light, At, FriendsSafe
    <3>2. HoldersKnown'
      BY <2>1, <2>4, <3>1 DEF Ends, FriendsSafe, HoldersKnown
    <3>3. RemovalsHold' /\ InsertsBoth'
      BY <2>0, <2>10, <2>2, <3>1 DEF FriendsSafe, RemovalsHold, InsertsBoth
    <3> QED BY <3>2, <3>3
  <2>5. CASE InsertsRow(c, 1)
    <3> DEFINE q == Rev(call[c].pair)
    <3>1. /\ q \in Pairs /\ RowOf(c, 1) = q /\ holder[q] = NoCall
          /\ UNCHANGED friend
          /\ \A p \in Pairs : holder[p] # c
          /\ At(c, "accept", "first")' /\ call'[c].pair = call[c].pair
      BY <2>5, CallIs DEF InsertsRow, Insert, RowOf, Same, At, FriendsSafe, HoldersKnown, Inserts,
                          Deletes
    <3>2. \A p \in Pairs : holder'[p] = holder[p] \/ (p = q /\ holder'[p] = c /\ q \notin friend)
      BY <2>5, <3>1 DEF InsertsRow, Insert, FriendsSafe, FriendsTypeOK
    <3>3. Inserts(c, q)'
      BY <3>1 DEF Inserts
    <3>4. HoldersKnown'
      BY <2>1, <2>5, <3>1, <3>2, <3>3 DEF InsertsRow, FriendsSafe, HoldersKnown
    <3>5. ~At(c, "remove", "first")' /\ ~At(c, "accept", "second")'
      BY <3>1 DEF At
    <3>6. \A d \in Calls \ {c}, p \in Pairs : holder'[p] = d <=> holder[p] = d
      BY <3>1, <3>2
    <3>7. RemovalsHold' /\ InsertsBoth'
      BY <2>0, <2>10, <2>2, <3>5, <3>6 DEF FriendsSafe, RemovalsHold, InsertsBoth
    <3> QED BY <3>4, <3>7
  <2>6. CASE InsertsRow(c, 2)
    <3> DEFINE r == call[c].pair
    <3>1. /\ r \in Pairs /\ Rev(r) \in Pairs /\ Rev(Rev(r)) = r /\ Rev(r) # r /\ RowOf(c, 2) = r
          /\ holder[r] = NoCall /\ UNCHANGED friend
          /\ \A p \in Pairs : holder[p] = c => p = Rev(r) /\ p \notin friend
          /\ At(c, "accept", "second")' /\ call'[c].pair = call[c].pair
      BY <2>6, CallIs, Reversed DEF InsertsRow, Insert, RowOf, Same, At, FriendsSafe, HoldersKnown,
                                    Inserts, Deletes
    <3>2. \A p \in Pairs : holder'[p] = holder[p] \/ (p = r /\ holder'[p] = c /\ r \notin friend)
      BY <2>6, <3>1 DEF InsertsRow, Insert, FriendsSafe, FriendsTypeOK
    <3>3. Inserts(c, r)' /\ Inserts(c, Rev(r))'
      BY <3>1 DEF Inserts
    <3>4. HoldersKnown'
      BY <2>1, <2>6, <3>1, <3>2, <3>3 DEF InsertsRow, FriendsSafe, HoldersKnown
    <3>5. ~At(c, "remove", "first")'
      BY <3>1 DEF At
    <3>6. \A d \in Calls \ {c}, p \in Pairs : holder'[p] = d <=> holder[p] = d
      BY <3>1, <3>2
    <3>7. holder'[Rev(r)] = c => holder'[r] = c
      <4> SUFFICES ASSUME holder'[Rev(r)] = c PROVE holder'[r] = c
        OBVIOUS
      <4>1. Rev(r) \notin friend
        BY <3>1, <3>2
      <4>2. r \notin friend
        BY <3>1, <4>1 DEF FriendsSafe, BothWays
      <4> QED BY <2>6, <3>1, <4>2 DEF InsertsRow, Insert, FriendsSafe, FriendsTypeOK
    <3>8. RemovalsHold' /\ InsertsBoth'
      BY <2>0, <2>10, <2>2, <3>1, <3>5, <3>6, <3>7 DEF FriendsSafe, RemovalsHold, InsertsBoth
    <3> QED BY <3>4, <3>8
  <2>7. CASE Befriends(c)
    <3>1. /\ call[c].pair \in Pairs
          /\ friend' = friend \cup {call[c].pair, Rev(call[c].pair)}
      BY <2>7, WholeFriendship
    <3>2. /\ \A p \in Pairs, d \in Calls : holder'[p] = d <=> holder[p] = d /\ d # c
          /\ ~At(c, "remove", "first")' /\ ~At(c, "accept", "second")'
      BY <2>7, Released DEF Befriends, Light, At, FriendsSafe
    <3>3. \A p \in Pairs : p \in friend' /\ p \notin friend => holder[p] = c
      BY <2>7 DEF Befriends, Held
    <3>4. HoldersKnown'
      <4> SUFFICES ASSUME NEW d \in Calls, NEW p \in Pairs, holder'[p] = d
                   PROVE  \/ Inserts(d, p)' /\ p \notin friend'
                          \/ Deletes(d, p)' /\ p \in friend'
        BY DEF HoldersKnown
      <4>1. holder[p] = d /\ d # c
        BY <3>2
      <4>2. p \in friend' <=> p \in friend
        BY <3>1, <3>3, <4>1
      <4> QED BY <2>1, <2>7, <4>1, <4>2 DEF Befriends, FriendsSafe, HoldersKnown
    <3>5. RemovalsHold' /\ InsertsBoth'
      BY <2>0, <2>10, <2>2, <3>2 DEF FriendsSafe, RemovalsHold, InsertsBoth
    <3> QED BY <3>4, <3>5
  <2>8. CASE Parts(c)
    <3>1. /\ friend' = friend \ {call[c].pair, Rev(call[c].pair)}
          /\ holder[call[c].pair] = c /\ holder[Rev(call[c].pair)] = NoCall
      BY <2>8, WholeParting
    <3>2. /\ \A p \in Pairs, d \in Calls : holder'[p] = d <=> holder[p] = d /\ d # c
          /\ ~At(c, "remove", "first")' /\ ~At(c, "accept", "second")'
      BY <2>8, Released DEF Parts, Light, At, FriendsSafe
    <3>3. \A d \in Calls \ {c}, p \in Pairs : holder[p] = d => (p \in friend' <=> p \in friend)
      BY <3>1
    <3>4. HoldersKnown'
      BY <2>1, <2>8, <3>2, <3>3 DEF Parts, FriendsSafe, HoldersKnown
    <3>5. RemovalsHold' /\ InsertsBoth'
      BY <2>0, <2>10, <2>2, <3>2 DEF FriendsSafe, RemovalsHold, InsertsBoth
    <3> QED BY <3>4, <3>5
  <2>9. CASE TakesRow(c)
    <3> DEFINE r == call[c].pair
    <3>1. /\ r \in Pairs /\ r \in friend /\ holder[r] = NoCall /\ UNCHANGED friend
          /\ \A p \in Pairs : holder[p] # c
          /\ At(c, "remove", "first")' /\ call'[c].pair = call[c].pair
      BY <2>9, CallIs DEF TakesRow, Same, At, FriendsSafe, HoldersKnown, Inserts, Deletes
    <3>2. \A p \in Pairs : holder'[p] = IF p = r THEN c ELSE holder[p]
      BY <2>9, <3>1 DEF TakesRow, FriendsSafe, FriendsTypeOK
    <3>3. Deletes(c, r)'
      BY <3>1 DEF Deletes
    <3>4. HoldersKnown'
      BY <2>1, <2>9, <3>1, <3>2, <3>3 DEF TakesRow, FriendsSafe, HoldersKnown
    <3>5. ~At(c, "accept", "second")'
      BY <3>1 DEF At
    <3>6. \A d \in Calls \ {c}, p \in Pairs : holder'[p] = d <=> holder[p] = d
      BY <3>1, <3>2
    <3>7. RemovalsHold' /\ InsertsBoth'
      BY <2>0, <2>10, <2>2, <3>1, <3>2, <3>5, <3>6 DEF FriendsSafe, RemovalsHold, InsertsBoth
    <3> QED BY <3>4, <3>7
  <2> QED BY <1>1, <2>3, <2>4, <2>5, <2>6, <2>7, <2>8, <2>9 DEF Kinds
<1>2. ASSUME NEW u \in Users, DeleteUser(u) PROVE HoldersKnown' /\ RemovalsHold' /\ InsertsBoth'
  <2>1. /\ UNCHANGED <<holder, call>>
        /\ \A c \in Calls, p \in Pairs : holder[p] = c => (p \in friend' <=> p \in friend)
    BY <1>2 DEF DeleteUser
  <2>2. HoldersKnown'
    BY <2>1 DEF FriendsSafe, HoldersKnown, Inserts, Deletes, At
  <2>3. RemovalsHold' /\ InsertsBoth'
    BY <2>1 DEF FriendsSafe, RemovalsHold, InsertsBoth, At
  <2> QED BY <2>2, <2>3
<1>3. ASSUME UNCHANGED <<friend, holder, call>> PROVE HoldersKnown' /\ RemovalsHold' /\ InsertsBoth'
  BY <1>3 DEF FriendsSafe, HoldersKnown, RemovalsHold, InsertsBoth, Inserts, Deletes, At
<1> QED BY <1>1, <1>2, <1>3, StepOf DEF FriendsSafe, Deactivate, friendVars

\* Every statement of every call keeps the invariant.
LEMMA FriendsStep == FriendsSafe /\ [FriendsNext]_friendVars => FriendsSafe'
<1> SUFFICES ASSUME FriendsSafe, [FriendsNext]_friendVars PROVE FriendsSafe'
  OBVIOUS
<1>1. FriendsTypeOK' /\ ClaimsHold' /\ ClaimsAlone'
  BY FriendsTyped, ClaimsStep DEF FriendsSafe
<1> QED BY <1>1, BothWaysStep, HoldersStep DEF FriendsSafe

\* There are no calls at first, and no rows.
LEMMA FriendsBegin == FriendsInit => FriendsSafe
<1> SUFFICES ASSUME FriendsInit PROVE FriendsSafe
  OBVIOUS
<1>1. /\ \A c \in Calls : call[c].op = "none"
      /\ \A c \in Calls, p \in Pairs : holder[p] # c
      /\ friend = {}
  BY FriendsConstants DEF FriendsInit, Idle
<1>2. FriendsTypeOK
  BY DEF FriendsInit, FriendsTypeOK
<1> QED BY <1>1, <1>2
        DEF FriendsSafe, ClaimsHold, ClaimsAlone, BothWays, HoldersKnown, RemovalsHold,
            InsertsBoth, Claims, At

-----------------------------------------------------------------------------
(* Every commit is a step of the book                                      *)

\* A commit is a step of the friendships users see; any other statement is not seen.
LEMMA BookStep ==
  FriendsSafe /\ [FriendsNext]_friendVars => [FriendsSeen!Next]_(FriendsSeen!vars)
<1> SUFFICES ASSUME FriendsSafe, [FriendsNext]_friendVars, ~UNCHANGED <<request, friend>>
             PROVE  FriendsSeen!Next
  BY DEF FriendsSeen!vars
<1>1. FriendsSeen!Pairs = Pairs /\ \A p : FriendsSeen!Both(p) = {p, Rev(p)}
  BY DEF FriendsSeen!Pairs, Pairs, FriendsSeen!Both, Rev
<1>2. ASSUME NEW c \in Calls, Kinds(c)
      PROVE  \E p \in Pairs : \/ FriendsSeen!Invite(p) \/ FriendsSeen!Refuse(p)
                              \/ FriendsSeen!Accept(p) \/ FriendsSeen!Part(p)
  <2>1. CASE Speaks(c)
    BY <2>1 DEF Speaks, FriendsSeen!Invite, FriendsSeen!Refuse
  <2>2. CASE Befriends(c)
    <3>1. call[c].pair \in Pairs /\ FriendsSeen!Accept(call[c].pair)
      BY <1>1, <2>2, WholeFriendship DEF Befriends, FriendsSeen!Accept
    <3> QED BY <3>1
  <2>3. CASE Parts(c)
    <3>1. call[c].pair \in Pairs /\ FriendsSeen!Part(call[c].pair)
      BY <1>1, <2>3, WholeParting DEF Parts, FriendsSeen!Part
    <3> QED BY <3>1
  <2> QED BY <1>2, <2>1, <2>2, <2>3
          DEF Kinds, ClaimsIt, SameRows, InsertsRow, TakesRow, Ends
<1>3. ASSUME NEW u \in Users, DeleteUser(u) PROVE FriendsSeen!Erase(u)
  BY <1>1, <1>3 DEF DeleteUser, FriendsSeen!Erase
<1>4. FriendsNext
  BY DEF friendVars
<1>5. FriendsTypeOK
  BY DEF FriendsSafe
<1>6. ASSUME NEW u \in Users, Deactivate(u) PROVE FALSE
  BY <1>6 DEF Deactivate
<1> QED BY <1>1, <1>2, <1>3, <1>4, <1>5, <1>6, StepOf DEF FriendsSeen!Next

-----------------------------------------------------------------------------
(* The pages ask the service for its own steps                             *)

\* The pages change the rows of friends through the calls only.
LEMMA PagesAsk == [SocialNext]_socialVars => [FriendsNext]_friendVars
<1> USE SocialConstants
<1>1. ASSUME NEW v \in Users, Act(v) PROVE Start(Mine)
  <2>1. \/ SendBegin(Mine, Me, v) \/ RemoveBegin(Mine, Me, v)
        \/ \E p \in Pairs, op \in Ops : AnswerBegin(Mine, op, Me, p)
    BY <1>1 DEF Act, Pairs, Ops
  <2> QED BY <2>1 DEF Start
<1>2. ASSUME SocialNext PROVE [FriendsNext]_friendVars
  BY <1>1, <1>2 DEF SocialNext, PageStep, ServerStep, OthersStep, TakeAnswer, Visit, Reload,
     ServerReads, Apply, LoadFails, FriendsNext
<1> QED BY <1>2 DEF socialVars, friendVars

\* What a call's work touches is known from what the call does.
LEMMA Touches ==
  ASSUME FriendsTypeOK, NEW c \in Calls, Work(c) \/ Lose(c)
  PROVE  /\ account' = account
         /\ call[c].op # "none" /\ call'[c].op = call[c].op
         /\ \A d \in Calls \ {c} : call'[d] = call[d]
         /\ request' # request => call[c].op # "remove"
         /\ friend' # friend => call[c].op \in {"accept", "remove"}
<1>1. ASSUME NEW step \in Steps, Move(c, step), call[c].op # "none"
      PROVE  call'[c].op = call[c].op /\ \A d \in Calls \ {c} : call'[d] = call[d]
  BY <1>1, Moved
<1>2. {"created", "claimed", "first", "second", "ok", "refused", "lost"} \subseteq Steps
  BY DEF Steps, Results
<1> DEFINE Known == /\ account' = account
                    /\ call[c].op # "none" /\ \E step \in Steps : Move(c, step)
                    /\ request' # request => call[c].op # "remove"
                    /\ friend' # friend => call[c].op \in {"accept", "remove"}
<1>3. Known
  <2>1. CASE Lose(c) \/ Victim(c)
    BY <1>2, <2>1 DEF Lose, Victim, Abort, Running
  <2>2. CASE SendInsert(c) \/ SendNotify(c)
    BY <1>2, <2>2 DEF SendInsert, SendNotify, At
  <2>3. ASSUME NEW op \in {"decline", "cancel"}, AnswerCommit(c, op)
        PROVE  Known
    BY <1>2, <2>3 DEF AnswerCommit, At
  <2>4. CASE AcceptClaim(c) \/ AcceptFinish(c)
    BY <1>2, <2>4 DEF AcceptClaim, AcceptFinish, At
  <2>5. ASSUME NEW n \in 1..2, AcceptInsert(c, n)
        PROVE  Known
    BY <1>2, <2>5 DEF AcceptInsert, At
  <2>6. CASE RemoveOwnRow(c) \/ RemoveFinish(c)
    BY <1>2, <2>6 DEF RemoveOwnRow, RemoveFinish, At
  <2> QED BY <2>1, <2>2, <2>3, <2>4, <2>5, <2>6 DEF Work
<1> QED BY <1>1, <1>3

\* What a call changes of a list is what its success invalidates.
LEMMA ChangesAreInvalidated ==
  ASSUME FriendsTypeOK, NEW c \in Calls, Work(c) \/ Lose(c), NEW r \in Resources,
         Content(r, request', friend', account') # Now(r)
  PROVE  r \in Invalidates(call[c].op)
<1>1. request' # request \/ friend' # friend
  BY Touches DEF Now
<1>2. CASE call[c].op = "accept"
  BY <1>2 DEF Invalidates
<1>3. CASE call[c].op = "remove"
  <2>1. r # "friendRequests"
    BY <1>3, Touches DEF Content, Now
  <2> QED BY <1>3, <2>1 DEF Invalidates, Resources
<1>4. CASE call[c].op \notin {"accept", "remove"}
  <2>1. friend' = friend /\ account' = account
    BY <1>4, Touches
  <2>2. r = "friendRequests"
    BY <2>1 DEF Content, Now, Resources
  <2> QED BY <1>4, <2>2 DEF Invalidates
<1> QED BY <1>2, <1>3, <1>4

\* What a page lists is a set of users.
LEMMA Lists ==
  ASSUME NEW r \in Resources, NEW req, NEW fr, NEW acc
  PROVE  Content(r, req, fr, acc) \in SUBSET Users
BY DEF Content, Resources

-----------------------------------------------------------------------------
(* Every step keeps the pages as they should be                            *)

\* A load that starts has its number and nothing else yet.
LEMMA Numbered ==
  ASSUME NEW n \in 1..MaxLoads + 2
  PROVE  /\ [FirstLoad EXCEPT !.id = n] \in Load
         /\ [FirstLoad EXCEPT !.id = n].id = n
         /\ ~[FirstLoad EXCEPT !.id = n].read
<1>1. FirstLoad \in [id: Int, read: BOOLEAN, items: SUBSET Users, at: Nat] /\ ~FirstLoad.read
  BY DEF FirstLoad
<1> QED BY <1>1 DEF Load

\* What the answer of a mutation does.
LEMMA TakeKeeps ==
  ASSUME SocialSafe, TakeAnswer(Mine)
  PROVE  SocialSafe'
<1> USE SocialConstants
<1> DEFINE x == call[Mine]
           rs == Invalidates(x.op) \cap mounted
           answered == IF x.op \in {"accept", "decline"} THEN {x.pair[1]} ELSE {}
<1>1. /\ SocialTypeOK /\ FriendsTypeOK /\ x # Idle /\ x.op # "none"
      /\ \A r \in Resources : latest[r] \in 1..MaxLoads
      /\ MaxLoads \in Nat
  BY DEF TakeAnswer, Take, SocialSafe, SocialTypeOK, LoadsBounded, Idle
<1>2. FriendsTypeOK'
  BY <1>1, PagesAsk, FriendsTyped DEF SocialNext, PageStep
<1>3. call'[Mine] = Idle /\ owed' = [r \in Resources |-> 0] /\ version' = version
  BY <1>1 DEF TakeAnswer, Take, FriendsTypeOK
<1>4. CASE x.step # "ok"
  <2>1. UNCHANGED <<viewVars, since, version>>
    BY <1>4 DEF TakeAnswer
  <2>2. SocialTypeOK'
    BY <1>1, <1>2, <1>3, <2>1 DEF SocialTypeOK, viewVars
  <2>3. LoadsInTime' /\ OwnActionsShow'
    BY <2>1 DEF SocialSafe, LoadsInTime, OwnActionsShow, viewVars, Current, IsLoading
  <2>4. ChangesCounted' /\ OwedIsInvalidated' /\ LoadsBounded'
    BY <1>1, <1>3, <2>1 DEF SocialSafe, SocialTypeOK, ChangesCounted, OwedIsInvalidated,
                            LoadsBounded, viewVars
  <2> QED BY <2>2, <2>3, <2>4 DEF SocialSafe
<1>5. CASE x.step = "ok"
  <2> DEFINE new(r) == [FirstLoad EXCEPT !.id = latest[r] + 1]
  <2>1. /\ latest' = [r \in Resources |-> latest[r] + IF r \in rs THEN 1 ELSE 0]
        /\ load' = [r \in Resources |-> IF r \in rs THEN load[r] \cup {new(r)} ELSE load[r]]
        /\ failed' = [r \in Resources |-> failed[r] /\ r \notin rs]
        /\ UNCHANGED <<mounted, visits>>
        /\ view' = [view EXCEPT !["friendRequests"].items = @ \ answered]
        /\ since' = [r \in Resources |-> IF owed[r] > since[r] THEN owed[r] ELSE since[r]]
    BY <1>5 DEF TakeAnswer, StartLoads
  <2>2. \A r \in Resources : /\ new(r) \in Load
                             /\ new(r).id = latest[r] + 1 /\ ~new(r).read
    <3> SUFFICES ASSUME NEW r \in Resources
                 PROVE  new(r) \in Load /\ new(r).id = latest[r] + 1 /\ ~new(r).read
      OBVIOUS
    <3>1. latest[r] + 1 \in 1..MaxLoads + 2
      BY <1>1
    <3> QED BY <3>1, Numbered
  <2> HIDE DEF new, answered
  <2>3. \A r \in Resources : /\ latest'[r] \in 1..MaxLoads + 1
                             /\ load'[r] \subseteq Load
                             /\ since'[r] \in Nat /\ since'[r] <= version[r]
    BY <1>1, <2>1, <2>2 DEF SocialSafe, SocialTypeOK, ChangesCounted
  <2>4. SocialTypeOK'
    <3>1. view' \in [Resources -> [items: SUBSET Users, at: Int]]
      <4> DEFINE v == [view["friendRequests"] EXCEPT !.items = @ \ answered]
      <4>1. view \in [Resources -> [items: SUBSET Users, at: Int]] /\ "friendRequests" \in Resources
        BY <1>1 DEF SocialTypeOK, Resources
      <4>2. v \in [items: SUBSET Users, at: Int]
        BY <4>1
      <4>3. view' = [view EXCEPT !["friendRequests"] = v]
        BY <2>1
      <4> HIDE DEF v
      <4> QED BY <4>1, <4>2, <4>3
    <3>2. /\ latest' \in [Resources -> Nat] /\ load' \in [Resources -> SUBSET Load]
          /\ since' \in [Resources -> Nat] /\ failed' \in [Resources -> BOOLEAN]
      BY <1>1, <2>1, <2>3 DEF SocialTypeOK
    <3> QED BY <1>1, <1>2, <1>3, <2>1, <3>1, <3>2 DEF SocialTypeOK
  <2>5. \A r \in mounted : r \in Resources /\ (r \notin rs => since'[r] = since[r])
    BY <1>1, <2>1 DEF SocialSafe, SocialTypeOK, OwedIsInvalidated
  <2>6. LoadsInTime'
    <3> SUFFICES ASSUME NEW r \in mounted, NEW l \in load'[r]
                 PROVE  /\ l.id <= latest'[r]
                        /\ l.id = latest'[r] /\ l.read => l.at >= since'[r]
      BY <2>1 DEF LoadsInTime, Current
    <3>1. r \in Resources /\ load[r] \subseteq Load
      BY <1>1, <2>5 DEF SocialTypeOK
    <3>2. \A k \in load[r] : k.id \in Nat /\ k.id <= latest[r]
      BY <3>1, <1>1 DEF SocialSafe, LoadsInTime, Load
    <3>3. CASE r \in rs
      BY <1>1, <2>1, <2>2, <3>1, <3>2, <3>3
    <3>4. CASE r \notin rs
      BY <1>1, <2>1, <2>5, <3>1, <3>4 DEF SocialSafe, LoadsInTime, Current
    <3> QED BY <3>3, <3>4
  <2>7. OwnActionsShow'
    <3> SUFFICES ASSUME NEW r \in mounted, ~IsLoading(r)', ~failed'[r]
                 PROVE  view'[r].at >= since'[r]
      BY <2>1 DEF OwnActionsShow
    <3>1. r \in Resources
      BY <2>5
    <3>2. r \notin rs
      <4>1. r \in rs => new(r) \in load'[r] /\ latest'[r] = latest[r] + 1
        BY <2>1, <3>1
      <4> QED BY <2>2, <3>1, <4>1 DEF IsLoading
    <3>3. load'[r] = load[r] /\ latest'[r] = latest[r] /\ failed'[r] = failed[r]
      BY <1>1, <2>1, <3>1, <3>2 DEF SocialTypeOK
    <3>4. view'[r].at = view[r].at
      BY <1>1, <2>1, <3>1 DEF SocialTypeOK
    <3> QED BY <2>5, <3>2, <3>3, <3>4 DEF SocialSafe, OwnActionsShow, IsLoading
  <2>8. ChangesCounted' /\ OwedIsInvalidated' /\ LoadsBounded'
    BY <1>1, <1>3, <2>1, <2>3, <2>5 DEF SocialTypeOK, ChangesCounted, OwedIsInvalidated, LoadsBounded
  <2> QED BY <2>4, <2>6, <2>7, <2>8 DEF SocialSafe
<1> QED BY <1>4, <1>5

\* Steps that touch neither loads nor what is counted, but may begin a mutation.
LEMMA BeginKeeps ==
  ASSUME SocialSafe, FriendsTypeOK', UNCHANGED <<viewVars, version, owed, since>>,
         \/ call'[Mine] = call[Mine]
         \/ call[Mine] = Idle /\ \A r \in Resources : latest[r] < MaxLoads
  PROVE  SocialSafe'
<1> USE SocialConstants
<1>1. SocialTypeOK' /\ LoadsInTime' /\ OwnActionsShow' /\ ChangesCounted'
  BY DEF SocialSafe, SocialTypeOK, LoadsInTime, OwnActionsShow, ChangesCounted, viewVars, Current,
         IsLoading
<1>2. Idle.op = "none"
  BY DEF Idle
<1>3. OwedIsInvalidated'
  BY <1>2 DEF SocialSafe, OwedIsInvalidated, viewVars
<1>4. LoadsBounded'
  BY DEF SocialSafe, LoadsBounded, viewVars
<1> QED BY <1>1, <1>3, <1>4 DEF SocialSafe

\* Another page begins anew.
LEMMA VisitKeeps ==
  ASSUME SocialSafe, NEW page \in Pages, Visit(page)
  PROVE  SocialSafe'
<1> USE SocialConstants
<1>1. /\ SocialTypeOK /\ call[Mine] # Idle /\ page \subseteq Resources
      /\ MaxLoads \in Nat /\ MaxVisits \in Nat /\ 1 <= MaxLoads
  BY DEF Visit, SocialSafe, LoadsBounded, Resources
<1>2. FriendsTypeOK'
  BY <1>1 DEF Visit, friendVars, SocialTypeOK, FriendsTypeOK
<1>3. FirstLoad \in Load /\ FirstLoad.id = 1 /\ ~FirstLoad.read
  BY <1>1 DEF FirstLoad, Load
<1>4. /\ mounted' = page /\ visits' = visits + 1 /\ visits < MaxVisits
      /\ latest' = [r \in Resources |-> 1]
      /\ load' = [r \in Resources |-> IF r \in page THEN {FirstLoad} ELSE {}]
      /\ view' = [r \in Resources |-> NoView]
      /\ failed' = [r \in Resources |-> FALSE]
      /\ version' = [r \in Resources |-> 0] /\ owed' = version' /\ since' = version'
      /\ call' = call
  BY DEF Visit, friendVars
<1>5. SocialTypeOK'
  <2>1. NoView \in [items: SUBSET Users, at: Int]
    BY DEF NoView
  <2>2. load' \in [Resources -> SUBSET Load]
    BY <1>3, <1>4
  <2> QED BY <1>1, <1>2, <1>4, <2>1, <2>2 DEF SocialTypeOK
<1>6. LoadsInTime' /\ ChangesCounted' /\ OwedIsInvalidated'
  BY <1>1, <1>3, <1>4 DEF LoadsInTime, ChangesCounted, OwedIsInvalidated, Current
<1>7. LoadsBounded'
  BY <1>1, <1>4 DEF LoadsBounded
<1>8. OwnActionsShow'
  <2>1. \A r \in page : FirstLoad \in load'[r] /\ latest'[r] = 1
    BY <1>1, <1>4
  <2> QED BY <1>3, <1>4, <2>1 DEF OwnActionsShow, IsLoading
<1> QED BY <1>5, <1>6, <1>7, <1>8 DEF SocialSafe

\* A load that begins keeps the invariant.
LEMMA ReloadKeeps ==
  ASSUME SocialSafe, NEW x \in Resources, Reload(x)
  PROVE  SocialSafe'
<1> USE SocialConstants
<1> DEFINE new == [FirstLoad EXCEPT !.id = latest[x] + 1]
<1>1. /\ SocialTypeOK /\ x \in mounted /\ latest[x] \in 1..MaxLoads /\ latest[x] < MaxLoads
      /\ MaxLoads \in Nat /\ UNCHANGED <<friendVars, mounted, visits, view, version, owed, since>>
      /\ call' = call
  BY DEF Reload, StartLoads, SocialSafe, LoadsBounded, friendVars
<1>2. /\ latest' = [r \in Resources |-> latest[r] + IF r = x THEN 1 ELSE 0]
      /\ load' = [r \in Resources |-> IF r = x THEN load[r] \cup {new} ELSE load[r]]
      /\ failed' = [r \in Resources |-> failed[r] /\ r # x]
  BY <1>1 DEF Reload, StartLoads
<1>3. new \in Load /\ new.id = latest[x] + 1 /\ ~new.read
  <2>1. latest[x] + 1 \in 1..MaxLoads + 2
    BY <1>1
  <2> QED BY <2>1, Numbered
<1> HIDE DEF new
<1>4. SocialTypeOK'
  <2>1. FriendsTypeOK'
    BY <1>1 DEF friendVars, SocialTypeOK, FriendsTypeOK
  <2>2. /\ load' \in [Resources -> SUBSET Load] /\ latest' \in [Resources -> Nat]
        /\ failed' \in [Resources -> BOOLEAN]
    BY <1>1, <1>2, <1>3 DEF SocialTypeOK
  <2> QED BY <1>1, <2>1, <2>2 DEF SocialTypeOK
<1>5. LoadsInTime'
  <2> SUFFICES ASSUME NEW r \in mounted, NEW l \in load'[r]
               PROVE  /\ l.id <= latest'[r]
                      /\ l.id = latest'[r] /\ l.read => l.at >= since'[r]
    BY <1>1 DEF LoadsInTime, Current
  <2>1. r \in Resources /\ load[r] \subseteq Load /\ latest[r] \in Nat
    BY <1>1 DEF SocialTypeOK, SocialConstants
  <2>2. \A k \in load[r] : k.id \in Nat /\ k.id <= latest[r]
    BY <1>1, <2>1 DEF SocialSafe, LoadsInTime, Load
  <2>3. CASE r = x
    BY <1>1, <1>2, <1>3, <2>1, <2>2, <2>3
  <2>4. CASE r # x
    <3>1. load'[r] = load[r] /\ latest'[r] = latest[r]
      BY <1>2, <2>1, <2>4
    <3> QED BY <1>1, <3>1 DEF SocialSafe, LoadsInTime, Current
  <2> QED BY <2>3, <2>4
<1>6. OwnActionsShow'
  <2> SUFFICES ASSUME NEW r \in mounted, ~IsLoading(r)', ~failed'[r]
               PROVE  view'[r].at >= since'[r]
    BY <1>1 DEF OwnActionsShow
  <2>1. r \in Resources
    BY <1>1 DEF SocialTypeOK, SocialConstants
  <2>2. r # x
    <3>1. r = x => new \in load'[r] /\ latest'[r] = latest[x] + 1
      BY <1>2, <2>1
    <3> QED BY <1>3, <3>1 DEF IsLoading
  <2>3. load'[r] = load[r] /\ latest'[r] = latest[r] /\ failed'[r] = failed[r]
    BY <1>1, <1>2, <2>1, <2>2 DEF SocialTypeOK
  <2> QED BY <1>1, <2>3 DEF SocialSafe, OwnActionsShow, IsLoading
<1>7. ChangesCounted' /\ OwedIsInvalidated'
  BY <1>1 DEF SocialSafe, ChangesCounted, OwedIsInvalidated
<1>8. LoadsBounded'
  BY <1>1, <1>2 DEF SocialSafe, LoadsBounded
<1> QED BY <1>4, <1>5, <1>6, <1>7, <1>8 DEF SocialSafe

\* The server reads the rows for a load, at the version they have.
LEMMA ReadKeeps ==
  ASSUME SocialSafe, NEW x \in Resources, NEW m \in load[x], ServerReads(x, m)
  PROVE  SocialSafe'
<1> USE SocialConstants
<1> DEFINE new == [m EXCEPT !.read = TRUE, !.items = Now(x), !.at = version[x]]
<1>1. /\ SocialTypeOK /\ m \in Load /\ version[x] \in Nat /\ ~m.read
      /\ UNCHANGED <<friendVars, mounted, visits, latest, view, failed, version, owed, since>>
      /\ call' = call
  BY DEF ServerReads, SocialSafe, SocialTypeOK, friendVars
<1>2. new \in Load /\ new.id = m.id /\ new.read /\ new.at = version[x]
  BY <1>1, Lists DEF Load, Now
<1>3. load' = [load EXCEPT ![x] = (load[x] \ {m}) \cup {new}]
  BY DEF ServerReads
<1> HIDE DEF new
<1>4. SocialTypeOK'
  <2>1. FriendsTypeOK'
    BY <1>1 DEF friendVars, SocialTypeOK, FriendsTypeOK
  <2>2. load' \in [Resources -> SUBSET Load]
    BY <1>1, <1>2, <1>3 DEF SocialTypeOK
  <2> QED BY <1>1, <2>1, <2>2 DEF SocialTypeOK
<1>5. LoadsInTime'
  <2> SUFFICES ASSUME NEW r \in mounted, NEW l \in load'[r]
               PROVE  /\ l.id <= latest[r]
                      /\ l.id = latest[r] /\ l.read => l.at >= since[r]
    BY <1>1 DEF LoadsInTime, Current
  <2>1. r \in Resources
    BY <1>1 DEF SocialTypeOK
  <2>2. l \in load[r] \/ (r = x /\ l = new)
    BY <1>1, <1>3, <2>1 DEF SocialTypeOK
  <2>3. r = x => m.id <= latest[r] /\ since[r] <= version[r]
    BY <2>1 DEF SocialSafe, LoadsInTime, ChangesCounted
  <2>4. version[r] \in Nat /\ since[r] \in Nat
    BY <1>1, <2>1 DEF SocialTypeOK
  <2> QED BY <1>2, <2>2, <2>3, <2>4 DEF SocialSafe, LoadsInTime, Current
<1>6. OwnActionsShow'
  <2> SUFFICES ASSUME NEW r \in mounted, ~IsLoading(r)', ~failed[r]
               PROVE  view[r].at >= since[r]
    BY <1>1 DEF OwnActionsShow
  <2>1. r \in Resources
    BY <1>1 DEF SocialTypeOK
  <2>2. IsLoading(r) => IsLoading(r)'
    <3> SUFFICES ASSUME NEW l \in load[r], l.id = latest[r] PROVE \E k \in load'[r] : k.id = latest[r]
      BY <1>1 DEF IsLoading
    <3>1. CASE l \in load'[r]
      BY <3>1
    <3>2. CASE l \notin load'[r]
      <4>1. r = x /\ l = m /\ new \in load'[r]
        BY <1>1, <1>3, <2>1, <3>2 DEF SocialTypeOK
      <4> QED BY <1>2, <4>1
    <3> QED BY <3>1, <3>2
  <2> QED BY <2>2 DEF SocialSafe, OwnActionsShow
<1>7. ChangesCounted' /\ OwedIsInvalidated' /\ LoadsBounded'
  BY <1>1 DEF SocialSafe, ChangesCounted, OwedIsInvalidated, LoadsBounded
<1> QED BY <1>4, <1>5, <1>6, <1>7 DEF SocialSafe

\* An answer is shown if it is that of the latest load, and is dropped otherwise.
LEMMA AnswerKeeps ==
  ASSUME SocialSafe, NEW x \in Resources, NEW m \in load[x], Apply(x, m) \/ LoadFails(x, m)
  PROVE  SocialSafe'
<1> USE SocialConstants
<1>1. /\ SocialTypeOK /\ m \in Load
      /\ load' = [load EXCEPT ![x] = load[x] \ {m}]
      /\ UNCHANGED <<friendVars, mounted, visits, latest, version, owed, since>>
      /\ call' = call
  BY DEF Apply, LoadFails, SocialSafe, SocialTypeOK, friendVars
<1>2. \/ /\ Current(x, m) /\ m.read /\ failed' = failed
         /\ view' = [view EXCEPT ![x] = [items |-> m.items, at |-> m.at]]
      \/ /\ Current(x, m) /\ view' = view
         /\ failed' = [failed EXCEPT ![x] = TRUE]
      \/ ~Current(x, m) /\ view' = view /\ failed' = failed
  <2>1. CASE Apply(x, m)
    BY <2>1 DEF Apply
  <2>2. CASE LoadFails(x, m)
    <3>1. failed \in [Resources -> BOOLEAN]
      BY <1>1 DEF SocialTypeOK
    <3>2. failed' = [failed EXCEPT ![x] = failed[x] \/ Current(x, m)] /\ view' = view
      BY <2>2 DEF LoadFails
    <3>3. CASE Current(x, m)
      BY <3>1, <3>2, <3>3
    <3>4. CASE ~Current(x, m)
      BY <3>1, <3>2, <3>4
    <3> QED BY <3>3, <3>4
  <2> QED BY <2>1, <2>2
<1>3. SocialTypeOK'
  <2>1. FriendsTypeOK'
    BY <1>1 DEF friendVars, SocialTypeOK, FriendsTypeOK
  <2>2. [items |-> m.items, at |-> m.at] \in [items: SUBSET Users, at: Int]
    BY <1>1 DEF Load
  <2>3. load' \in [Resources -> SUBSET Load]
    BY <1>1 DEF SocialTypeOK
  <2>4. /\ view' \in [Resources -> [items: SUBSET Users, at: Int]]
        /\ failed' \in [Resources -> BOOLEAN]
    <3>1. /\ view \in [Resources -> [items: SUBSET Users, at: Int]]
          /\ failed \in [Resources -> BOOLEAN]
      BY <1>1 DEF SocialTypeOK
    <3>2. CASE view' = view
      BY <1>2, <3>1, <3>2
    <3>3. CASE view' = [view EXCEPT ![x] = [items |-> m.items, at |-> m.at]] /\ failed' = failed
      BY <2>2, <3>1, <3>3
    <3> QED BY <1>2, <3>2, <3>3
  <2> QED BY <1>1, <2>1, <2>3, <2>4 DEF SocialTypeOK
<1>4. \A r \in Resources : load'[r] = IF r = x THEN load[r] \ {m} ELSE load[r]
  BY <1>1 DEF SocialTypeOK
<1>5. LoadsInTime'
  BY <1>1, <1>4 DEF SocialSafe, SocialTypeOK, LoadsInTime, Current
<1>6. OwnActionsShow'
  <2> SUFFICES ASSUME NEW r \in mounted, ~IsLoading(r)', ~failed'[r]
               PROVE  view'[r].at >= since[r]
    BY <1>1 DEF OwnActionsShow
  <2>1. r \in Resources
    BY <1>1 DEF SocialTypeOK
  <2>2. CASE r = x /\ Current(x, m)
    <3>1. m.read /\ view' = [view EXCEPT ![x] = [items |-> m.items, at |-> m.at]]
      BY <1>1, <1>2, <2>2 DEF SocialTypeOK
    <3>2. view'[r].at = m.at
      BY <1>1, <2>2, <3>1 DEF SocialTypeOK
    <3>3. m.at >= since[r]
      BY <2>2, <3>1 DEF SocialSafe, LoadsInTime
    <3> QED BY <3>2, <3>3
  <2>3. CASE ~(r = x /\ Current(x, m))
    <3>1. view'[r] = view[r] /\ failed'[r] = failed[r]
      BY <1>1, <1>2, <2>1, <2>3 DEF SocialTypeOK
    <3>2. IsLoading(r) => IsLoading(r)'
      BY <1>1, <1>4, <2>1, <2>3 DEF IsLoading, Current
    <3> QED BY <3>1, <3>2 DEF SocialSafe, OwnActionsShow
  <2> QED BY <2>2, <2>3
<1>7. ChangesCounted' /\ OwedIsInvalidated' /\ LoadsBounded'
  BY <1>1 DEF SocialSafe, ChangesCounted, OwedIsInvalidated, LoadsBounded
<1> QED BY <1>3, <1>5, <1>6, <1>7 DEF SocialSafe

\* The service goes on: what is owed to this user is what its mutation did.
LEMMA ServiceKeeps ==
  ASSUME SocialSafe, FriendsTypeOK', ServerStep
  PROVE  SocialSafe'
<1> USE SocialConstants
<1>1. SocialTypeOK /\ FriendsTypeOK /\ UNCHANGED <<viewVars, since>>
  BY DEF ServerStep, SocialSafe, SocialTypeOK
<1>2. PICK own \in BOOLEAN : /\ Noted(own)
                             /\ own => Work(Mine) \/ Lose(Mine)
                             /\ call'[Mine].op = call[Mine].op
                             /\ call'[Mine] # Idle => call[Mine] # Idle
  <2>1. ASSUME Leave, Noted(FALSE) PROVE call' = call
    BY <2>1 DEF Leave, Deactivate, DeleteUser
  <2>2. ASSUME NEW c \in Calls, Work(c) \/ Lose(c)
        PROVE  call'[Mine].op = call[Mine].op /\ (c # Mine => call'[Mine] = call[Mine])
    BY <1>1, <2>2, Touches
  <2>3. Work(Mine) \/ Lose(Mine) => call[Mine] # Idle
    BY <1>1, Touches DEF Idle
  <2> QED BY <2>1, <2>2, <2>3 DEF ServerStep
<1> DEFINE changed == {r \in Resources : r \in mounted
                           /\ Content(r, request', friend', account') # Now(r)}
<1>3. /\ version' = [r \in Resources |-> version[r] + IF r \in changed THEN 1 ELSE 0]
      /\ owed' = [r \in Resources |-> IF own /\ r \in changed THEN version[r] + 1 ELSE owed[r]]
  BY <1>2 DEF Noted
<1>4. \A r \in Resources : own /\ r \in changed =>
        call[Mine].op # "none" /\ r \in Invalidates(call[Mine].op)
  BY <1>1, <1>2, ChangesAreInvalidated, Touches
<1> HIDE DEF changed
<1>5. \A r \in Resources : /\ version[r] \in Nat /\ owed[r] \in Nat /\ since[r] \in Nat
                           /\ since[r] <= version[r] /\ owed[r] <= version[r]
  BY <1>1 DEF SocialSafe, SocialTypeOK, ChangesCounted
<1>6. SocialTypeOK'
  <2>1. version' \in [Resources -> Nat] /\ owed' \in [Resources -> Nat]
    BY <1>3, <1>5
  <2> QED BY <1>1, <2>1 DEF SocialTypeOK, viewVars
<1>7. LoadsInTime' /\ OwnActionsShow'
  BY <1>1 DEF SocialSafe, LoadsInTime, OwnActionsShow, viewVars, Current, IsLoading
<1>8. ChangesCounted'
  BY <1>1, <1>3, <1>5 DEF ChangesCounted
<1>9. OwedIsInvalidated'
  BY <1>1, <1>2, <1>3, <1>4 DEF SocialSafe, SocialTypeOK, OwedIsInvalidated, viewVars
<1>10. LoadsBounded'
  BY <1>1, <1>2 DEF SocialSafe, LoadsBounded, viewVars
<1> QED BY <1>6, <1>7, <1>8, <1>9, <1>10 DEF SocialSafe

\* Every step of pages and calls keeps it.
LEMMA SocialStep ==
  SocialSafe /\ [SocialNext]_socialVars => SocialSafe'
<1> SUFFICES ASSUME SocialSafe, [SocialNext]_socialVars PROVE SocialSafe'
  OBVIOUS
<1> USE SocialConstants
<1>1. FriendsTypeOK'
  BY PagesAsk, FriendsTyped DEF SocialSafe, SocialTypeOK
<1>2. CASE UNCHANGED socialVars
  BY <1>1, <1>2, BeginKeeps DEF socialVars, friendVars
<1>3. ASSUME NEW v \in Users, Act(v), UNCHANGED <<viewVars, version, owed, since>> PROVE SocialSafe'
  <2>1. call[Mine] = Idle /\ \A r \in Resources : latest[r] < MaxLoads
    BY <1>3 DEF Act, SendBegin, RemoveBegin, AnswerBegin
  <2> QED BY <1>1, <1>3, <2>1, BeginKeeps
<1>4. CASE OthersStep
  <2>1. FriendsTypeOK /\ \E c \in Calls \ {Mine} : Start(c) \/ Take(c)
    BY <1>4 DEF OthersStep, SocialSafe, SocialTypeOK
  <2>2. call'[Mine] = call[Mine]
    BY <2>1, StepKinds DEF Kinds, Speaks, ClaimsIt, InsertsRow, Befriends, Parts, TakesRow, Ends, Others
  <2> QED BY <1>1, <1>4, <2>2, BeginKeeps DEF OthersStep
<1>5. CASE ServerStep
  BY <1>1, <1>5, ServiceKeeps
<1> QED BY <1>2, <1>3, <1>4, <1>5, TakeKeeps, VisitKeeps, ReloadKeeps, ReadKeeps, AnswerKeeps
        DEF SocialNext, PageStep

\* No page is open at first, and nothing has been done.
LEMMA SocialBegin == SocialInit => SocialSafe
<1> SUFFICES ASSUME SocialInit PROVE SocialSafe
  OBVIOUS
<1> USE SocialConstants
<1>1. /\ FriendsTypeOK /\ call[Mine] = Idle /\ mounted \in Pages /\ mounted \subseteq Resources
      /\ visits = 1 /\ MaxLoads \in Nat /\ MaxVisits \in Nat \ {0}
  BY FriendsBegin DEF SocialInit, FriendsSafe, FriendsInit
<1>2. /\ latest = [r \in Resources |-> 1]
      /\ load = [r \in Resources |-> IF r \in mounted THEN {FirstLoad} ELSE {}]
      /\ view = [r \in Resources |-> NoView]
      /\ failed = [r \in Resources |-> FALSE]
      /\ version = [r \in Resources |-> 0] /\ owed = version /\ since = version
  BY DEF SocialInit
<1>3. FirstLoad \in Load /\ FirstLoad.id = 1 /\ ~FirstLoad.read
  BY <1>1 DEF FirstLoad, Load
<1>4. SocialTypeOK
  <2>1. NoView \in [items: SUBSET Users, at: Int]
    BY DEF NoView
  <2>2. load \in [Resources -> SUBSET Load]
    BY <1>2, <1>3
  <2> QED BY <1>1, <1>2, <2>1, <2>2 DEF SocialTypeOK
<1>5. LoadsInTime /\ ChangesCounted /\ OwedIsInvalidated /\ LoadsBounded
  BY <1>1, <1>2, <1>3 DEF LoadsInTime, ChangesCounted, OwedIsInvalidated, LoadsBounded, Current
<1>6. OwnActionsShow
  <2>1. \A r \in mounted : FirstLoad \in load[r] /\ latest[r] = 1
    BY <1>1, <1>2
  <2> QED BY <1>3, <2>1 DEF OwnActionsShow, IsLoading
<1> QED BY <1>4, <1>5, <1>6 DEF SocialSafe

-----------------------------------------------------------------------------
(* What is proved of every behaviour                                       *)

\* The invariant of the calls holds in every reachable state.
LEMMA FriendsAlways == SocialSpec => []FriendsSafe
<1>1. SocialInit => FriendsSafe
  BY FriendsBegin DEF SocialInit
<1>2. FriendsSafe /\ [SocialNext]_socialVars => FriendsSafe'
  BY PagesAsk, FriendsStep
<1> QED BY <1>1, <1>2, PTL DEF SocialSpec

\* That of the pages does, too.
LEMMA PagesAlways == SocialSpec => []SocialSafe
BY SocialBegin, SocialStep, PTL DEF SocialSpec

\* Requests, friendships, held rows, calls, loads and views keep their types, and
\* what a page loads stays within its bound.
THEOREM PagesTyped == SocialSpec => []SocialTypeOK
<1>1. SocialSafe => SocialTypeOK
  BY DEF SocialSafe
<1> QED BY <1>1, PagesAlways, PTL

\* Whatever calls cross, wait, deadlock, are lost or find their user gone, the
\* committed rows are those of friendships that begin by an acceptance and end
\* for both, and of requests that are answered once.
THEOREM FriendshipsAreWhole == SocialSpec => ImplementsFriendBook
<1>1. SocialInit => FriendsSeen!Init
  BY DEF SocialInit, FriendsInit, FriendsSeen!Init, FriendsSeen!Pairs, Pairs
<1>2. FriendsSafe /\ [SocialNext]_socialVars => [FriendsSeen!Next]_(FriendsSeen!vars)
  BY PagesAsk, BookStep
<1> QED BY <1>1, <1>2, FriendsAlways, PTL DEF SocialSpec, ImplementsFriendBook, FriendsSeen!Spec

\* Whatever loads were under way, and in whatever order they are answered, a page
\* that neither loads nor has failed shows what its user was told is done.
THEOREM PagesShowWhatWasDone == SocialSpec => []OwnActionsShow
<1>1. SocialSafe => OwnActionsShow
  BY DEF SocialSafe
<1> QED BY <1>1, PagesAlways, PTL

-----------------------------------------------------------------------------
(* Guidance: the inductive invariant                                       *)

\* The guide of an account has not been of a later day, nor has what a save read.
GuideShape ==
    /\ GuidanceTypeOK
    /\ {unsynced, tourVisible, alone, blurred, strayed} \subseteq BOOLEAN
    /\ saved \in Nat
    /\ \A a \in Accounts : guideRow[a].day <= date
    /\ \A m \in saves : m.day <= date
    /\ guideLoad # NoLoad => owner # NoAccount

\* An exchange that is alone, or of a tour that has not strayed, is the only
\* one, and for the account the page is about; any other blurs the page.
OneAtATime ==
    /\ alone \/ ~strayed =>
         \A m \in saves : saves = {m} /\ guideLoad = NoLoad /\ m.owner = owner
    /\ ~Quiet /\ ~alone => blurred

Present == GuideOn(owner, date)

\* One that is alone has read what the account has now.
AloneSees == alone =>
    /\ \A m \in saves :
         /\ m.stage = "read" => m.seen = Present /\ m.day = date
         /\ m.stage = "done" => m.seen = guideRow[owner].guide /\ guideRow[owner].day = date
    /\ guideLoad # NoLoad /\ guideLoad.read => guideLoad.seen = Present

\* What the user chose is what the account has, once the patch that is kept, or
\* the save under way, is applied to it.
Reached(p) == IF p = NoPatch THEN Present = meant
              ELSE Optimistic(Present, p) = Optimistic(meant, p)
ChoicesReached == ~blurred /\ owner # NoAccount =>
    /\ saves = {} => Reached(pendingPatch)
    /\ \A m \in saves :
         /\ pendingPatch \in {NoPatch, m.patch} =>
              IF m.stage = "done" THEN Present = meant
              ELSE Optimistic(Present, m.patch) = meant
         /\ m.retry \/ ~m.waited => pendingPatch = m.patch

\* The step of the tour, on the page and in the row: a move under way shows its
\* step, and what a failed move has left is not known.
Stepped(p) == IF p.op = "replay" THEN 0 ELSE p.step
MoveKept == pendingPatch # NoPatch /\ Moves(pendingPatch)
Row == guideRow[owner].guide
OnItsPage == tourVisible /\ going = NoRoute /\ path \in TourSteps => guide.step = path
TourKnown == ~strayed =>
    /\ \A m \in saves :
         /\ m.stage # "sent" => m.seen.step = IF m.stage = "done" /\ Moves(m.patch)
                                              THEN Stepped(m.patch) ELSE Row.step
         /\ Moves(m.patch) => ~m.retry
         /\ Moves(m.patch) /\ m.stage = "done" => Row.step = Stepped(m.patch)
         /\ Moves(m.patch) /\ m.waited => guide.step = Stepped(m.patch)
         /\ Moves(m.patch) /\ ~m.waited => pendingPatch = m.patch
         /\ m.stage = "done" => m.waited
    /\ guideLoad # NoLoad /\ guideLoad.read => guideLoad.seen.step = Row.step
    /\ owner # NoAccount /\ ~MoveKept /\ (\A m \in saves : ~Moves(m.patch)) =>
         guide.step = Row.step
    /\ ~MoveKept \/ (\E m \in saves : m.waited /\ Moves(m.patch)) => OnItsPage

GuideInv ==
    /\ GuideShape
    /\ OneAtATime
    /\ AloneSees
    /\ ChoicesReached
    /\ ShowsTheAccount
    /\ TourKnown

-----------------------------------------------------------------------------
(* Guidance: patches                                                       *)

\* What a patch does to each part of a guide.
Hides(hidden, p) == IF p.op = "dismiss" THEN hidden \cup {p.tip}
                    ELSE IF p.op = "reset" THEN {} ELSE hidden
Staged(progress, p) == IF p.op = "tour" THEN p.status
                       ELSE IF p.op = "replay" THEN "IN_PROGRESS" ELSE progress
Placed(step, p) == IF Moves(p) THEN Stepped(p) ELSE step

\* The patches, by what they ask for.
LEMMA PatchIs ==
  ASSUME NEW p \in Patch
  PROVE  /\ p.op \in {"switch", "dismiss", "reset", "replay", "tour"}
         /\ p.op = "switch" => p.which \in Switches /\ p.to \in BOOLEAN
         /\ p.op = "dismiss" => p.tip \in Tips
         /\ p.op = "tour" => p.status \in TourStatus /\ p.step \in TourSteps
<1>1. CASE p \in [op: {"switch"}, which: Switches, to: BOOLEAN]
  BY <1>1
<1>2. CASE p \in [op: {"dismiss"}, tip: Tips]
  BY <1>2
<1>3. CASE p \in [op: {"reset", "replay"}]
  BY <1>3
<1>4. CASE p \in [op: {"tour"}, status: TourStatus, step: TourSteps]
  BY <1>4
<1> QED BY <1>1, <1>2, <1>3, <1>4 DEF Patch

\* The tour has steps, and they have stops.
LEMMA StepsAre ==
  /\ LastStep \in Nat /\ 0 \in TourSteps /\ LastStep \in TourSteps
  /\ \A step \in TourSteps : step \in Nat /\ StopCount(step) \in Nat \ {0}
<1>1. Stops \in Seq(Nat \ {0}) /\ Stops # << >>
  BY GuidanceConstants
<1>2. Len(Stops) \in Nat \ {0}
  BY <1>1, EmptySeq
<1>3. PICK n \in Nat : n = Len(Stops) /\ n # 0
  BY <1>2
<1>4. \A i \in 1..n : Stops[i] \in Nat \ {0}
  BY <1>1, <1>3, ElementOfSeq
<1>5. LastStep = n - 1
  BY <1>3 DEF LastStep
<1>6. \A step \in 0..(n - 1) : step \in Nat /\ step + 1 \in 1..n
  BY <1>3
<1> QED BY <1>3, <1>4, <1>5, <1>6 DEF TourSteps, StopCount

\* Two rows with the same fields are one.
LEMMA SameGuide ==
  ASSUME NEW g \in Guide, NEW h \in Guide,
         g.on = h.on, g.status = h.status, g.step = h.step, g.hidden = h.hidden
  PROVE  g = h
BY DEF Guide

\* What the server makes of a patch, field by field.
LEMMA UpdatedIs ==
  ASSUME NEW g \in Guide, NEW p \in Patch
  PROVE  /\ Updated(g, p) \in Guide
         /\ Updated(g, p).on = g.on
         /\ Updated(g, p).status = Staged(g.status, p)
         /\ Updated(g, p).step = Placed(g.step, p)
         /\ Updated(g, p).hidden = Hides(g.hidden, p)
<1>1. /\ g.on \subseteq Switches /\ g.status \in TourStatus /\ g.step \in TourSteps
      /\ g.hidden \subseteq Tips
  BY DEF Guide
<1>2. g = [on |-> g.on, status |-> g.status, step |-> g.step, hidden |-> g.hidden]
  BY DEF Guide
<1>3. CASE p.op = "switch"
  <2>1. Updated(g, p) = g
    BY <1>3 DEF Updated
  <2> QED BY <1>3, <2>1 DEF Staged, Placed, Hides, Moves
<1>4. CASE p.op = "dismiss"
  <2>1. Updated(g, p) = [g EXCEPT !.hidden = @ \cup {p.tip}]
    BY <1>4 DEF Updated
  <2>2. p.tip \in Tips
    BY <1>4, PatchIs
  <2> QED BY <1>1, <1>4, <2>1, <2>2 DEF Guide, Staged, Placed, Hides, Moves
<1>5. CASE p.op = "reset"
  <2>1. Updated(g, p) = [g EXCEPT !.hidden = {}]
    BY <1>5 DEF Updated
  <2> QED BY <1>1, <1>5, <2>1 DEF Guide, Staged, Placed, Hides, Moves
<1>6. CASE p.op = "tour"
  <2>1. Updated(g, p) = [g EXCEPT !.status = p.status, !.step = p.step]
    BY <1>6 DEF Updated
  <2>2. p.status \in TourStatus /\ p.step \in TourSteps
    BY <1>6, PatchIs
  <2> QED BY <1>1, <1>6, <2>1, <2>2 DEF Guide, Staged, Placed, Hides, Moves, Stepped
<1>7. CASE p.op = "replay"
  <2>1. Updated(g, p) = [g EXCEPT !.status = "IN_PROGRESS", !.step = 0]
    BY <1>7 DEF Updated
  <2> QED BY <1>1, <1>7, <2>1, StepsAre DEF Guide, TourStatus, Staged, Placed, Hides, Moves, Stepped
<1> QED BY <1>3, <1>4, <1>5, <1>6, <1>7, PatchIs

\* To switch twice is to switch once.
LEMMA SwitchedIs ==
  ASSUME NEW on \in SUBSET Switches, NEW p \in Patch
  PROVE  Switched(on, p) \subseteq Switches /\ Switched(Switched(on, p), p) = Switched(on, p)
<1>1. p.op = "switch" => p.which \in Switches
  BY PatchIs
<1> QED BY <1>1 DEF Switched

\* What the page shows before the server answers, field by field.
LEMMA OptimisticIs ==
  ASSUME NEW g \in Guide, NEW p \in Patch
  PROVE  /\ Optimistic(g, p) \in Guide
         /\ Optimistic(g, p).on = Switched(g.on, p)
         /\ Optimistic(g, p).status = Staged(g.status, p)
         /\ Optimistic(g, p).step = Placed(g.step, p)
         /\ Optimistic(g, p).hidden = Hides(g.hidden, p)
<1>1. PICK u \in Guide : /\ u = Updated(g, p) /\ u.status = Staged(g.status, p)
                         /\ u.step = Placed(g.step, p) /\ u.hidden = Hides(g.hidden, p)
  BY UpdatedIs
<1>2. Optimistic(g, p) = [u EXCEPT !.on = Switched(g.on, p)]
  BY <1>1 DEF Optimistic
<1>3. Switched(g.on, p) \subseteq Switches
  BY SwitchedIs DEF Guide
<1> QED BY <1>1, <1>2, <1>3 DEF Guide

\* A patch that is applied again changes nothing.
LEMMA OptimisticTwice ==
  ASSUME NEW g \in Guide, NEW p \in Patch
  PROVE  Optimistic(Optimistic(g, p), p) = Optimistic(g, p)
<1>1. PICK h \in Guide : h = Optimistic(g, p)
  BY OptimisticIs
<1>2. /\ h.on = Switched(g.on, p) /\ h.status = Staged(g.status, p)
      /\ h.step = Placed(g.step, p) /\ h.hidden = Hides(g.hidden, p)
  BY <1>1, OptimisticIs
<1>3. PICK k \in Guide : k = Optimistic(h, p)
  BY OptimisticIs
<1>4. /\ k.on = Switched(h.on, p) /\ k.status = Staged(h.status, p)
      /\ k.step = Placed(h.step, p) /\ k.hidden = Hides(h.hidden, p)
  BY <1>3, OptimisticIs
<1>5. k.on = h.on
  BY <1>2, <1>4, SwitchedIs DEF Guide
<1>6. k.status = h.status /\ k.step = h.step /\ k.hidden = h.hidden
  BY <1>2, <1>4 DEF Staged, Placed, Hides
<1> QED BY <1>1, <1>3, <1>5, <1>6, SameGuide

\* The guide of an account on a day.
LEMMA GuideOnIs ==
  ASSUME GuidanceTypeOK, NEW a \in Accounts, NEW day
  PROVE  /\ GuideOn(a, day) \in Guide /\ guideRow[a].guide \in Guide
         /\ guideRow[a].day \in Dates
         /\ GuideOn(a, day).on = guideRow[a].guide.on
         /\ GuideOn(a, day).status = guideRow[a].guide.status
         /\ GuideOn(a, day).step = guideRow[a].guide.step
         /\ GuideOn(a, day).hidden = IF guideRow[a].day = day THEN guideRow[a].guide.hidden
                                                            ELSE {}
         /\ guideRow[a].day = day => GuideOn(a, day) = guideRow[a].guide
<1>1. PICK r \in [guide: Guide, day: Dates] : r = guideRow[a]
  BY DEF GuidanceTypeOK
<1>2. PICK g \in Guide : g = r.guide /\ g = guideRow[a].guide
  BY <1>1
<1>3. GuideOn(a, day) = [g EXCEPT !.hidden = IF r.day = day THEN @ ELSE {}]
  BY <1>1, <1>2 DEF GuideOn
<1>4. g = [on |-> g.on, status |-> g.status, step |-> g.step, hidden |-> g.hidden]
      /\ g.on \subseteq Switches /\ g.status \in TourStatus /\ g.step \in TourSteps
      /\ g.hidden \subseteq Tips
  BY DEF Guide
<1>5. GuideOn(a, day) = [on |-> g.on, status |-> g.status, step |-> g.step,
                         hidden |-> IF r.day = day THEN g.hidden ELSE {}]
  BY <1>3, <1>4
<1> QED BY <1>1, <1>2, <1>4, <1>5 DEF Guide

\* Two guides that a patch makes alike stay so when the day ends for both.
LEMMA AlikeAfterMidnight ==
  ASSUME NEW g \in Guide, NEW h \in Guide, NEW g2 \in Guide, NEW h2 \in Guide, NEW p \in Patch,
         Optimistic(g, p) = Optimistic(h, p),
         g2.on = g.on, g2.status = g.status, g2.step = g.step, g2.hidden = {},
         h2.on = h.on, h2.status = h.status, h2.step = h.step, h2.hidden = {}
  PROVE  Optimistic(g2, p) = Optimistic(h2, p)
<1>1. PICK k \in Guide : k = Optimistic(g, p)
  BY OptimisticIs
<1>2. /\ k.on = Switched(g.on, p) /\ k.status = Staged(g.status, p) /\ k.step = Placed(g.step, p)
      /\ k.on = Switched(h.on, p) /\ k.status = Staged(h.status, p) /\ k.step = Placed(h.step, p)
  BY <1>1, OptimisticIs
<1>3. PICK g3 \in Guide : g3 = Optimistic(g2, p)
  BY OptimisticIs
<1>4. PICK h3 \in Guide : h3 = Optimistic(h2, p)
  BY OptimisticIs
<1>5. /\ g3.on = k.on /\ g3.status = k.status /\ g3.step = k.step /\ g3.hidden = Hides({}, p)
  <2>1. /\ g3.on = Switched(g2.on, p) /\ g3.status = Staged(g2.status, p)
        /\ g3.step = Placed(g2.step, p) /\ g3.hidden = Hides(g2.hidden, p)
    BY <1>3, OptimisticIs
  <2> QED BY <1>2, <2>1
<1>6. /\ h3.on = k.on /\ h3.status = k.status /\ h3.step = k.step /\ h3.hidden = Hides({}, p)
  <2>1. /\ h3.on = Switched(h2.on, p) /\ h3.status = Staged(h2.status, p)
        /\ h3.step = Placed(h2.step, p) /\ h3.hidden = Hides(h2.hidden, p)
    BY <1>4, OptimisticIs
  <2> QED BY <1>2, <2>1
<1> QED BY <1>3, <1>4, <1>5, <1>6, SameGuide


-----------------------------------------------------------------------------
\* A save beside which nothing has blurred the page, or led the tour astray, is
\* the only exchange.
LEMMA OnlyExchange ==
  ASSUME GuideInv, NEW m \in saves, alone \/ ~strayed \/ ~blurred
  PROVE  saves = {m} /\ guideLoad = NoLoad /\ m.owner = owner /\ owner # NoAccount
<1>1. m.owner \in Accounts
  BY DEF GuideInv, GuideShape, GuidanceTypeOK, Save
<1>2. alone \/ ~strayed
  BY DEF GuideInv, OneAtATime, Quiet
<1>3. saves = {m} /\ guideLoad = NoLoad /\ m.owner = owner
  BY <1>2 DEF GuideInv, OneAtATime
<1> QED BY <1>1, <1>3, NothingIsNoGuide

\* A load that nothing else is in flight with is of the account on the page.
LEMMA OnlyLoad ==
  ASSUME GuideInv, guideLoad # NoLoad, alone \/ ~strayed \/ ~blurred
  PROVE  /\ saves = {} /\ owner \in Accounts /\ owner # NoAccount
         /\ ~blurred => alone
         /\ guideLoad \in [read: BOOLEAN, seen: Guide]
<1>1. ~blurred => alone
  BY DEF GuideInv, OneAtATime, Quiet
<1>2. saves = {}
  BY <1>1 DEF GuideInv, OneAtATime
<1> QED BY <1>1, <1>2, NothingIsNoGuide DEF GuideInv, GuideShape, GuidanceTypeOK

\* A choice is sent, for the first time or again.
LEMMA SendFits ==
  ASSUME GuideInv, owner # NoAccount, NEW p \in Patch, NEW retry \in BOOLEAN,
         retry => pendingPatch = p,
         SendSave(owner, p, retry, ~Quiet),
         guide' \in Guide,
         guide'.step = IF retry THEN guide.step ELSE Placed(guide.step, p),
         UNCHANGED <<guideRow, date, owner, unsynced, pendingPatch, localDate, guideLoad, sessions>>,
         tourVisible' \in BOOLEAN, tourStop' \in Nat, path' \in Routes,
         going' \in Routes \cup {NoRoute},
         Moves(p) /\ ~retry => OnItsPage',
         ~Moves(p) /\ OnItsPage => OnItsPage'
  PROVE  GuideInv'
<1>1. PICK m : m = [id |-> saved', owner |-> owner, patch |-> p, retry |-> retry,
                    waited |-> TRUE, stage |-> "sent", day |-> date, seen |-> DefaultGuide]
  OBVIOUS
<1>2. /\ saved < MaxSaves /\ saved' = saved + 1 /\ saves' = saves \cup {m}
      /\ meant' = Optimistic(meant, p)
      /\ alone' = Quiet /\ blurred' = (blurred \/ ~Quiet)
      /\ strayed' = (~Quiet \/ IF Moves(p) THEN retry ELSE strayed)
  <2>1. saved < MaxSaves /\ saved' = saved + 1 /\ saves' = saves \cup {m}
        /\ meant' = Optimistic(meant, p)
    BY <1>1 DEF SendSave
  <2>2. alone' = ~~Quiet /\ blurred' = (blurred \/ ~Quiet)
    BY DEF SendSave, Begins
  <2>3. strayed' = (~Quiet \/ IF Moves(p) THEN retry ELSE strayed)
    BY DEF SendSave
  <2>4. Quiet \in BOOLEAN
    BY DEF Quiet
  <2>5. alone' = Quiet
    BY <2>2, <2>4
  <2> QED BY <2>1, <2>2, <2>3, <2>5
<1>3. GuideShape /\ GuidanceTypeOK
  BY DEF GuideInv, GuideShape
<1>4. owner \in Accounts /\ saved \in Nat /\ MaxSaves \in Nat /\ date \in Dates /\ date \in Nat
  BY <1>3, GuidanceConstants DEF GuideShape, GuidanceTypeOK, Dates
<1>5. DefaultGuide \in Guide
  BY StepsAre DEF DefaultGuide, Guide, TourStatus
<1>6. m \in Save
  <2>1. saved' \in 1..MaxSaves
    BY <1>2, <1>4
  <2> QED BY <1>1, <1>4, <1>5, <2>1 DEF Save
<1>7. /\ m.owner = owner /\ m.patch = p /\ m.retry = retry /\ m.waited /\ m.stage = "sent"
      /\ m.day = date
  BY <1>1
<1>8. meant' \in Guide
  BY <1>2, <1>3, OptimisticIs DEF GuidanceTypeOK
<1>9. GuideShape'
  <2>1. GuidanceTypeOK'
    BY <1>2, <1>3, <1>6, <1>8 DEF GuidanceTypeOK
  <2>2. {unsynced', tourVisible', alone', blurred', strayed'} \subseteq BOOLEAN
    BY <1>2, <1>3 DEF GuideShape, Quiet
  <2>3. saved' \in Nat /\ \A n \in saves' : n.day <= date
    BY <1>2, <1>3, <1>4, <1>7 DEF GuideShape
  <2> QED BY <1>3, <2>1, <2>2, <2>3 DEF GuideShape
<1>10. Quiet => saves' = {m} /\ guideLoad = NoLoad
  BY <1>2 DEF Quiet
<1>11. OneAtATime'
  <2>1. alone' \/ ~strayed' => Quiet
    BY <1>2
  <2>2. ~Quiet => blurred'
    BY <1>2
  <2> QED BY <1>2, <1>7, <1>10, <2>1, <2>2 DEF OneAtATime, Quiet
<1>12. AloneSees'
  BY <1>2, <1>7, <1>10 DEF AloneSees, Quiet
<1>13. Present' = Present
  BY DEF Present, GuideOn
<1>14. ChoicesReached'
  <2> SUFFICES ASSUME ~blurred'
               PROVE  /\ saves' # {}
                      /\ \A n \in saves' :
                           /\ pendingPatch \in {NoPatch, n.patch} =>
                                IF n.stage = "done" THEN Present = meant'
                                ELSE Optimistic(Present, n.patch) = meant'
                           /\ n.retry \/ ~n.waited => pendingPatch = n.patch
    BY <1>2, <1>13 DEF ChoicesReached
  <2>1. ~blurred /\ Quiet
    BY <1>2
  <2>2. Reached(pendingPatch)
    BY <2>1 DEF GuideInv, ChoicesReached, Quiet
  <2>3. pendingPatch \in {NoPatch, p} => Optimistic(Present, p) = meant'
    BY <1>2, <2>2, NothingIsNoGuide DEF Reached
  <2> QED BY <1>7, <1>10, <2>1, <2>3
<1>15. ShowsTheAccount'
  BY <1>2 DEF ShowsTheAccount, GuideSettled, Quiet
<1>16. TourKnown'
  <2> SUFFICES ASSUME ~strayed'
               PROVE  TourKnown'
    BY DEF TourKnown
  <2>1. Quiet /\ (Moves(p) => ~retry) /\ (~Moves(p) => ~strayed)
    BY <1>2
  <2>2. Row' = Row /\ MoveKept' = MoveKept
    BY DEF Row, MoveKept
  <2>3. Moves(p) => guide'.step = Stepped(p) /\ OnItsPage'
    BY <2>1 DEF Placed
  <2>4. ~Moves(p) => guide'.step = guide.step
    BY DEF Placed
  <2>5. ~Moves(p) /\ ~MoveKept => guide.step = Row.step /\ OnItsPage
    BY <2>1 DEF GuideInv, TourKnown, Quiet
  <2> QED BY <1>7, <1>10, <2>1, <2>2, <2>3, <2>4, <2>5 DEF TourKnown
<1> QED BY <1>9, <1>11, <1>12, <1>14, <1>15, <1>16 DEF GuideInv

\* A choice of the user.
LEMMA ChoiceFits ==
  ASSUME GuideInv, NEW p \in Patch, SaveGuide(p),
         tourVisible' \in BOOLEAN, tourStop' \in Nat, path' \in Routes,
         going' \in Routes \cup {NoRoute},
         Moves(p) => OnItsPage',
         ~Moves(p) => UNCHANGED <<tourVisible, path, going>>
  PROVE  GuideInv'
<1>1. guide \in Guide
  BY DEF GuideInv, GuideShape, GuidanceTypeOK
<1>2. guide' \in Guide /\ guide'.step = Placed(guide.step, p)
  BY <1>1, OptimisticIs DEF SaveGuide
<1>3. ~Moves(p) /\ OnItsPage => OnItsPage'
  BY <1>2 DEF OnItsPage, Placed
<1>4. UNCHANGED <<guideRow, date, owner, unsynced, pendingPatch, localDate, guideLoad, sessions>>
  BY DEF SaveGuide
<1>5. CASE owner # NoAccount
  <2>1. SendSave(owner, p, FALSE, ~Quiet)
    BY <1>5 DEF SaveGuide
  <2> QED BY <1>2, <1>3, <1>4, <1>5, <2>1, SendFits
<1>6. CASE owner = NoAccount
  <2>1. blurred' /\ UNCHANGED <<saves, saved, alone, strayed, meant>>
    BY <1>6 DEF SaveGuide
  <2>2. GuideShape'
    <3>1. GuidanceTypeOK'
      BY <1>2, <1>4, <2>1 DEF GuideInv, GuideShape, GuidanceTypeOK
    <3>2. {unsynced', tourVisible', alone', blurred', strayed'} \subseteq BOOLEAN
      <4>1. blurred' \in BOOLEAN
        BY <1>6 DEF SaveGuide
      <4> QED BY <1>4, <2>1, <4>1 DEF GuideInv, GuideShape
    <3> QED BY <1>4, <2>1, <3>1, <3>2 DEF GuideInv, GuideShape
  <2>3. OneAtATime' /\ AloneSees'
    BY <1>4, <2>1 DEF GuideInv, OneAtATime, AloneSees, Quiet, Present, GuideOn
  <2>4. ChoicesReached' /\ ShowsTheAccount'
    BY <2>1 DEF ChoicesReached, ShowsTheAccount, GuideSettled
  <2>5. TourKnown'
    <3> SUFFICES ASSUME ~strayed'
                 PROVE  TourKnown'
      BY DEF TourKnown
    <3>1. ~strayed
      BY <2>1
    <3>2. saves = {} /\ guideLoad = NoLoad
      BY <1>6, <3>1, OnlyExchange DEF GuideInv, GuideShape
    <3>3. ~MoveKept' => OnItsPage'
      <4>1. MoveKept' = MoveKept
        BY <1>4 DEF MoveKept
      <4> QED BY <1>3, <3>1, <4>1 DEF GuideInv, TourKnown
    <3> QED BY <1>4, <1>6, <2>1, <3>2, <3>3 DEF TourKnown
  <2> QED BY <2>2, <2>3, <2>4, <2>5 DEF GuideInv
<1> QED BY <1>5, <1>6

\* The last failed choice is sent again.
LEMMA RetryFits == GuideInv /\ RetrySync => GuideInv'
<1> SUFFICES ASSUME GuideInv, RetrySync
             PROVE  GuideInv'
  OBVIOUS
<1>1. /\ pendingPatch # NoPatch /\ owner # NoAccount
      /\ SendSave(owner, pendingPatch, TRUE, ~Quiet)
      /\ UNCHANGED <<guideRow, date, owner, unsynced, pendingPatch, localDate, guideLoad, sessions>>
      /\ guide' = guide /\ UNCHANGED <<tourVisible, tourStop, path, going>>
  BY DEF RetrySync, providerVars, tourVars
<1>2. pendingPatch \in Patch /\ guide' \in Guide
  BY <1>1 DEF GuideInv, GuideShape, GuidanceTypeOK
<1>3. /\ tourVisible' \in BOOLEAN /\ tourStop' \in Nat /\ path' \in Routes
      /\ going' \in Routes \cup {NoRoute}
  BY <1>1 DEF GuideInv, GuideShape, GuidanceTypeOK
<1>4. OnItsPage' = OnItsPage
  BY <1>1 DEF OnItsPage
<1>5. PICK p \in Patch : p = pendingPatch
  BY <1>2
<1>6. SendSave(owner, p, TRUE, ~Quiet)
  BY <1>1, <1>5
<1> QED BY <1>1, <1>2, <1>3, <1>4, <1>5, <1>6, SendFits

\* The tour moves about without a choice.
LEMMA PageMoves ==
  ASSUME GuideInv, SavesNothing,
         tourVisible' \in BOOLEAN, tourStop' \in Nat, path' \in Routes,
         going' \in Routes \cup {NoRoute},
         OnItsPage => OnItsPage'
  PROVE  GuideInv'
<1>1. /\ UNCHANGED <<guideRow, date, saves, guideLoad, saved, sessions, alone, blurred, strayed,
                     meant>>
      /\ UNCHANGED <<owner, guide, unsynced, pendingPatch, localDate>>
  BY DEF SavesNothing, providerVars, guideHistory
<1>2. GuideShape'
  <2>1. GuidanceTypeOK'
    BY <1>1 DEF GuideInv, GuideShape, GuidanceTypeOK
  <2> QED BY <1>1, <2>1 DEF GuideInv, GuideShape
<1>3. OneAtATime' /\ AloneSees'
  BY <1>1 DEF GuideInv, OneAtATime, AloneSees, Quiet, Present, GuideOn
<1>4. ChoicesReached' /\ ShowsTheAccount'
  BY <1>1 DEF GuideInv, ChoicesReached, Reached, ShowsTheAccount, GuideSettled, Quiet, Present, GuideOn
<1>5. TourKnown'
  BY <1>1 DEF GuideInv, TourKnown, Row, MoveKept
<1> QED BY <1>2, <1>3, <1>4, <1>5 DEF GuideInv


-----------------------------------------------------------------------------
\* What a save is, and what it writes.
LEMMA SaveIs ==
  ASSUME GuideInv, NEW m \in saves
  PROVE  /\ m \in Save /\ m.patch \in Patch /\ m.patch # NoPatch /\ m.owner \in Accounts
         /\ m.seen \in Guide /\ m.day \in Dates /\ m.retry \in BOOLEAN /\ m.waited \in BOOLEAN
         /\ m.stage \in {"sent", "read", "done"}
<1>1. m \in Save
  BY DEF GuideInv, GuideShape, GuidanceTypeOK
<1> QED BY <1>1, NothingIsNoGuide DEF Save

\* What a save writes, field by field; with the switches it has read unchanged, it
\* is what the page shows.
LEMMA WrittenIs ==
  ASSUME NEW g \in Guide, NEW p \in Patch, NEW on \in SUBSET Switches,
         NEW written, written = [Updated(g, p) EXCEPT !.on = Switched(on, p)]
  PROVE  /\ written \in Guide /\ written.step = Placed(g.step, p)
         /\ g.on = on => written = Optimistic(g, p)
<1>1. Updated(g, p) \in Guide /\ Updated(g, p).step = Placed(g.step, p)
  BY UpdatedIs
<1>2. Switched(on, p) \subseteq Switches
  BY SwitchedIs
<1>3. written \in Guide /\ written.step = Placed(g.step, p)
  BY <1>1, <1>2 DEF Guide
<1>4. g.on = on => written = Optimistic(g, p)
  BY DEF Optimistic
<1> QED BY <1>3, <1>4

\* A save reads the row.
LEMMA SaveReadFits ==
  ASSUME GuideInv, NEW m \in saves, SaveRead(m)
  PROVE  GuideInv'
<1>1. PICK n : n = [m EXCEPT !.stage = "read", !.day = date, !.seen = GuideOn(m.owner, date)]
  OBVIOUS
<1>2. /\ m.stage = "sent" /\ saves' = (saves \ {m}) \cup {n}
      /\ UNCHANGED <<guideRow, date, guideLoad, saved, sessions, alone, blurred, strayed, meant>>
      /\ UNCHANGED <<owner, guide, unsynced, pendingPatch, localDate>>
      /\ UNCHANGED <<tourVisible, tourStop, path, going>>
  BY <1>1 DEF SaveRead, providerVars, tourVars, guideHistory
<1>3. m \in Save /\ m.patch \in Patch /\ m.owner \in Accounts
  BY SaveIs
<1>4. GuidanceTypeOK /\ date \in Dates /\ date \in Int
  BY GuidanceConstants DEF GuideInv, GuideShape, GuidanceTypeOK, Dates
<1>5. GuideOn(m.owner, date) \in Guide
  BY <1>3, <1>4, GuideOnIs
<1>6. /\ n \in Save /\ n.stage = "read" /\ n.day = date /\ n.seen = GuideOn(m.owner, date)
      /\ n.owner = m.owner /\ n.patch = m.patch /\ n.retry = m.retry /\ n.waited = m.waited
  BY <1>1, <1>3, <1>4, <1>5 DEF Save
<1>7. GuideShape'
  <2>1. GuidanceTypeOK'
    BY <1>2, <1>4, <1>6 DEF GuidanceTypeOK
  <2>2. \A k \in saves' : k.day <= date
    BY <1>2, <1>4, <1>6 DEF GuideInv, GuideShape
  <2> QED BY <1>2, <2>1, <2>2 DEF GuideInv, GuideShape
<1>8. alone \/ ~strayed \/ ~blurred =>
        saves = {m} /\ saves' = {n} /\ guideLoad = NoLoad /\ m.owner = owner /\ owner # NoAccount
  BY <1>2, OnlyExchange
<1>9. OneAtATime'
  <2>1. ~Quiet
    BY DEF Quiet
  <2> QED BY <1>2, <1>6, <1>8, <2>1 DEF GuideInv, OneAtATime
<1>10. Present' = Present /\ Row' = Row
  BY <1>2 DEF Present, GuideOn, Row
<1>11. AloneSees'
  BY <1>2, <1>6, <1>8, <1>10 DEF AloneSees, Present
<1>12. ChoicesReached'
  <2> SUFFICES ASSUME ~blurred
               PROVE  ChoicesReached'
    BY <1>2 DEF ChoicesReached
  <2>1. /\ pendingPatch \in {NoPatch, m.patch} => Optimistic(Present, m.patch) = meant
        /\ m.retry \/ ~m.waited => pendingPatch = m.patch
    BY <1>2, <1>8 DEF GuideInv, ChoicesReached
  <2> QED BY <1>2, <1>6, <1>8, <1>10, <2>1 DEF ChoicesReached
<1>13. ShowsTheAccount'
  <2>1. ~Quiet'
    BY <1>2 DEF Quiet
  <2> QED BY <2>1 DEF ShowsTheAccount, GuideSettled
<1>14. TourKnown'
  <2> SUFFICES ASSUME ~strayed
               PROVE  TourKnown'
    BY <1>2 DEF TourKnown
  <2>1. TourKnown
    BY DEF GuideInv
  <2>2. n.seen.step = Row.step
    BY <1>3, <1>4, <1>6, <1>8, GuideOnIs DEF Row
  <2>3. MoveKept' = MoveKept /\ OnItsPage' = OnItsPage
    BY <1>2 DEF MoveKept, OnItsPage
  <2>4. /\ Moves(m.patch) => ~m.retry
        /\ Moves(m.patch) /\ m.waited => guide.step = Stepped(m.patch)
        /\ Moves(m.patch) /\ ~m.waited => pendingPatch = m.patch
        /\ owner # NoAccount /\ ~MoveKept /\ ~Moves(m.patch) => guide.step = Row.step
        /\ ~MoveKept \/ (m.waited /\ Moves(m.patch)) => OnItsPage
    BY <1>8, <2>1 DEF TourKnown
  <2> QED BY <1>2, <1>6, <1>8, <1>10, <2>2, <2>3, <2>4 DEF TourKnown
<1> QED BY <1>7, <1>9, <1>11, <1>12, <1>13, <1>14 DEF GuideInv

\* A save writes the row, and answers if it is waited for.
LEMMA SaveCommitFits ==
  ASSUME GuideInv, NEW m \in saves, SaveCommit(m)
  PROVE  GuideInv'
<1>1. PICK p \in Patch : p = m.patch
  BY SaveIs
<1>2. PICK written : written = [Updated(m.seen, p) EXCEPT
                                  !.on = Switched(guideRow[m.owner].guide.on, p)]
  OBVIOUS
<1>3. PICK n : n = [m EXCEPT !.stage = "done", !.seen = written]
  OBVIOUS
<1>4. /\ m.stage = "read"
      /\ guideRow' = [guideRow EXCEPT ![m.owner] = [guide |-> written, day |-> m.day]]
      /\ saves' = (saves \ {m}) \cup (IF m.waited THEN {n} ELSE {})
      /\ UNCHANGED <<date, guideLoad, saved, sessions, alone, blurred, strayed, meant>>
      /\ UNCHANGED <<owner, guide, unsynced, pendingPatch, localDate>>
      /\ UNCHANGED <<tourVisible, tourStop, path, going>>
  BY <1>1, <1>2, <1>3 DEF SaveCommit, providerVars, tourVars, guideHistory
<1>5. /\ m \in Save /\ m.seen \in Guide /\ m.owner \in Accounts /\ m.day \in Dates
      /\ m.waited \in BOOLEAN /\ p # NoPatch
  BY <1>1, SaveIs
<1>6. GuidanceTypeOK /\ guideRow \in [Accounts -> [guide: Guide, day: Dates]]
  BY DEF GuideInv, GuideShape, GuidanceTypeOK
<1>7. guideRow[m.owner].guide \in Guide
  BY <1>5, <1>6
<1>8. guideRow[m.owner].guide.on \subseteq Switches
  BY <1>7 DEF Guide
<1>9. /\ written \in Guide /\ written.step = Placed(m.seen.step, p)
      /\ m.seen.on = guideRow[m.owner].guide.on => written = Optimistic(m.seen, p)
  <2>1. PICK on \in SUBSET Switches : on = guideRow[m.owner].guide.on
    BY <1>8
  <2>2. PICK g \in Guide : g = m.seen
    BY <1>5
  <2>3. written = [Updated(g, p) EXCEPT !.on = Switched(on, p)]
    BY <1>2, <2>1, <2>2
  <2>4. /\ written \in Guide /\ written.step = Placed(g.step, p)
        /\ g.on = on => written = Optimistic(g, p)
    BY <2>3, WrittenIs
  <2> QED BY <2>1, <2>2, <2>4
<1>10. /\ n \in Save /\ n.stage = "done" /\ n.seen = written /\ n.day = m.day
       /\ n.owner = m.owner /\ n.patch = p /\ n.retry = m.retry /\ n.waited = m.waited
  BY <1>1, <1>3, <1>5, <1>9 DEF Save
<1>11. /\ guideRow' \in [Accounts -> [guide: Guide, day: Dates]]
       /\ guideRow'[m.owner].guide = written /\ guideRow'[m.owner].day = m.day
       /\ \A a \in Accounts : a # m.owner => guideRow'[a] = guideRow[a]
  BY <1>4, <1>5, <1>6, <1>9
<1>12. GuideShape'
  <2>1. GuidanceTypeOK'
    BY <1>4, <1>6, <1>10, <1>11 DEF GuidanceTypeOK
  <2>2. \A k \in saves' : k.day <= date
    BY <1>4, <1>10 DEF GuideInv, GuideShape
  <2>3. \A a \in Accounts : guideRow'[a].day <= date
    BY <1>11 DEF GuideInv, GuideShape
  <2> QED BY <1>4, <2>1, <2>2, <2>3 DEF GuideInv, GuideShape
<1>13. alone \/ ~strayed \/ ~blurred =>
         /\ saves = {m} /\ saves' = (IF m.waited THEN {n} ELSE {})
         /\ guideLoad = NoLoad /\ m.owner = owner /\ owner # NoAccount
  BY <1>4, OnlyExchange
<1>14. ~Quiet
  BY DEF Quiet
<1>15. OneAtATime'
  BY <1>4, <1>10, <1>13, <1>14 DEF GuideInv, OneAtATime
<1>16. ~blurred => alone
  BY <1>14 DEF GuideInv, OneAtATime
<1>17. ASSUME alone
       PROVE  /\ m.day = date /\ Present' = written /\ written = Optimistic(Present, p)
              /\ Row' = written /\ guideRow'[owner].day = date
  <2>1. m.seen = Present /\ m.day = date
    BY <1>4, <1>17 DEF GuideInv, AloneSees
  <2>2. m.owner = owner
    BY <1>13, <1>17
  <2>3. m.seen.on = guideRow[m.owner].guide.on
    BY <1>5, <1>6, <2>1, <2>2, GuideOnIs DEF Present
  <2>4. guideRow'[owner].guide = written /\ guideRow'[owner].day = date
    BY <1>11, <2>1, <2>2
  <2>5. written = [on |-> written.on, status |-> written.status, step |-> written.step,
                   hidden |-> written.hidden]
    BY <1>9 DEF Guide
  <2>6. [written EXCEPT !.hidden = @] = written
    BY <2>5
  <2>7. Present' = written
    BY <1>4, <2>4, <2>6 DEF Present, GuideOn
  <2> QED BY <1>4, <1>9, <2>1, <2>3, <2>4, <2>7 DEF Row
<1>18. AloneSees'
  BY <1>4, <1>10, <1>13, <1>17 DEF AloneSees, Row
<1>19. ASSUME ~blurred
       PROVE  /\ pendingPatch \in {NoPatch, p} => Present' = meant
              /\ m.retry \/ ~m.waited => pendingPatch = p
  <2>1. /\ pendingPatch \in {NoPatch, p} => Optimistic(Present, p) = meant
        /\ m.retry \/ ~m.waited => pendingPatch = p
    BY <1>1, <1>4, <1>13, <1>19 DEF GuideInv, ChoicesReached
  <2> QED BY <1>16, <1>17, <1>19, <2>1
<1>20. ChoicesReached'
  <2> SUFFICES ASSUME ~blurred
               PROVE  ChoicesReached'
    BY <1>4 DEF ChoicesReached
  <2>1. CASE m.waited
    <3>1. saves' = {n}
      BY <1>13, <2>1
    <3>2. /\ pendingPatch \in {NoPatch, n.patch} => Present' = meant
          /\ n.retry \/ ~n.waited => pendingPatch = n.patch
      BY <1>10, <1>19
    <3> QED BY <1>4, <1>10, <3>1, <3>2 DEF ChoicesReached
  <2>2. CASE ~m.waited
    <3>1. saves' = {} /\ pendingPatch = p /\ Present' = meant
      BY <1>13, <1>19, <2>2
    <3>2. Reached(pendingPatch)'
      BY <1>4, <1>5, <3>1 DEF Reached
    <3> QED BY <1>4, <3>1, <3>2 DEF ChoicesReached
  <2> QED BY <2>1, <2>2
<1>21. ShowsTheAccount'
  <2> SUFFICES ASSUME GuideSettled'
               PROVE  FALSE
    BY DEF ShowsTheAccount
  <2>1. saves' = {} /\ ~blurred /\ ~unsynced
    BY <1>4 DEF GuideSettled, Quiet
  <2>2. ~m.waited
    BY <1>4, <2>1
  <2>3. pendingPatch = p
    BY <1>19, <2>1, <2>2
  <2> QED BY <1>5, <2>1, <2>3 DEF GuideInv, GuideShape, GuidanceTypeOK
<1>22. TourKnown'
  <2> SUFFICES ASSUME ~strayed
               PROVE  TourKnown'
    BY <1>4 DEF TourKnown
  <2>1. TourKnown
    BY DEF GuideInv
  <2>2. m.seen.step = Row.step
    BY <1>4, <1>13, <2>1 DEF TourKnown
  <2>3. Row'.step = Placed(Row.step, p) /\ written.step = Row'.step
    BY <1>4, <1>9, <1>11, <1>13, <2>2 DEF Row
  <2>4. MoveKept' = MoveKept /\ OnItsPage' = OnItsPage
    BY <1>4 DEF MoveKept, OnItsPage
  <2>5. /\ Moves(p) => ~m.retry
        /\ Moves(p) /\ m.waited => guide.step = Stepped(p)
        /\ Moves(p) /\ ~m.waited => pendingPatch = p
        /\ owner # NoAccount /\ ~MoveKept /\ ~Moves(p) => guide.step = Row.step
        /\ ~MoveKept \/ (m.waited /\ Moves(p)) => OnItsPage
    BY <1>1, <1>13, <2>1 DEF TourKnown
  <2>6. Moves(p) => Row'.step = Stepped(p)
    BY <2>3 DEF Placed
  <2>7. ~Moves(p) => Row'.step = Row.step
    BY <2>3 DEF Placed
  <2>8. CASE m.waited
    <3>1. saves' = {n}
      BY <1>13, <2>8
    <3> QED BY <1>4, <1>10, <1>13, <2>3, <2>4, <2>5, <2>6, <2>7, <3>1 DEF TourKnown
  <2>9. CASE ~m.waited
    <3>1. saves' = {}
      BY <1>13, <2>9
    <3>2. Moves(p) => MoveKept
      BY <1>5, <2>5, <2>9 DEF MoveKept
    <3> QED BY <1>4, <1>13, <2>4, <2>5, <2>7, <3>1, <3>2 DEF TourKnown
  <2> QED BY <2>8, <2>9
<1> QED BY <1>12, <1>15, <1>18, <1>20, <1>21, <1>22 DEF GuideInv

\* Midnight.
LEMMA DateFits ==
  ASSUME GuideInv, DatePasses
  PROVE  GuideInv'
<1>1. /\ date < MaxNight /\ date' = date + 1 /\ meant' = [meant EXCEPT !.hidden = {}]
      /\ alone' = (alone /\ Quiet) /\ blurred' = (blurred \/ ~Quiet)
      /\ UNCHANGED <<guideRow, saves, guideLoad, saved, sessions, strayed>>
      /\ UNCHANGED <<owner, guide, unsynced, pendingPatch, localDate>>
      /\ UNCHANGED <<tourVisible, tourStop, path, going>>
  BY DEF DatePasses, providerVars, tourVars
<1>2. GuidanceTypeOK /\ MaxNight \in Nat /\ date \in Dates /\ meant \in Guide
  BY GuidanceConstants DEF GuideInv, GuideShape, GuidanceTypeOK
<1>3. date \in Nat /\ date' \in Dates /\ date' \in Nat
  BY <1>1, <1>2 DEF Dates
<1>4. localDate \in 0..date /\ localDate' \in 0..date'
  BY <1>1, <1>2, <1>3 DEF GuidanceTypeOK
<1>5. /\ meant' \in Guide /\ meant'.on = meant.on /\ meant'.status = meant.status
      /\ meant'.step = meant.step /\ meant'.hidden = {}
  BY <1>1, <1>2 DEF Guide
<1>6. \A a \in Accounts : guideRow[a].day \in Int /\ guideRow[a].day <= date
  BY <1>2, GuideOnIs DEF Dates, GuideInv, GuideShape
<1>7. \A m \in saves : m.day \in Int /\ m.day <= date
  BY SaveIs DEF Dates, GuideInv, GuideShape
<1>8. GuideShape'
  <2>1. GuidanceTypeOK'
    BY <1>1, <1>2, <1>3, <1>4, <1>5 DEF GuidanceTypeOK
  <2>2. (\A a \in Accounts : guideRow[a].day <= date') /\ \A m \in saves : m.day <= date'
    BY <1>1, <1>3, <1>6, <1>7
  <2>3. alone' \in BOOLEAN /\ blurred' \in BOOLEAN
    BY <1>1
  <2> QED BY <1>1, <2>1, <2>2, <2>3 DEF GuideInv, GuideShape
<1>9. Quiet' = Quiet
  BY <1>1 DEF Quiet
<1>10. OneAtATime'
  BY <1>1, <1>9 DEF GuideInv, OneAtATime
<1>11. AloneSees'
  BY <1>1 DEF AloneSees, Quiet
<1>12. ChoicesReached'
  <2> SUFFICES ASSUME ~blurred', owner # NoAccount
               PROVE  Reached(pendingPatch)' /\ saves = {}
    BY <1>1 DEF ChoicesReached
  <2>1. ~blurred /\ Quiet
    BY <1>1
  <2>2. Reached(pendingPatch) /\ saves = {} /\ owner \in Accounts
    BY <1>2, <2>1 DEF GuideInv, ChoicesReached, Quiet, GuidanceTypeOK
  <2>3. PICK g \in Guide : g = Present
    BY <1>2, <2>2, GuideOnIs DEF Present
  <2>4. PICK g2 \in Guide : g2 = GuideOn(owner, date')
    BY <1>2, <2>2, GuideOnIs
  <2>5. g2.on = g.on /\ g2.status = g.status /\ g2.step = g.step
    BY <1>2, <2>2, <2>3, <2>4, GuideOnIs DEF Present
  <2>6. g2.hidden = {}
    <3>1. guideRow[owner].day # date'
      BY <1>1, <1>3, <1>6, <2>2
    <3> QED BY <1>2, <2>2, <2>4, <3>1, GuideOnIs
  <2>7. Present' = g2
    BY <1>1, <2>4 DEF Present, GuideOn
  <2>8. CASE pendingPatch = NoPatch
    <3>1. g = meant
      BY <2>2, <2>3, <2>8 DEF Reached
    <3>2. g2 = meant'
      BY <1>5, <2>5, <2>6, <3>1, SameGuide
    <3> QED BY <1>1, <2>2, <2>7, <2>8, <3>2 DEF Reached
  <2>9. CASE pendingPatch # NoPatch
    <3>1. PICK p \in Patch : p = pendingPatch
      BY <1>2, <2>9 DEF GuidanceTypeOK
    <3>2. Optimistic(g, p) = Optimistic(meant, p)
      BY <2>2, <2>3, <2>9, <3>1 DEF Reached
    <3>3. PICK h \in Guide : h = meant'
      BY <1>5
    <3>4. Optimistic(g2, p) = Optimistic(h, p)
      BY <1>2, <1>5, <2>5, <2>6, <3>2, <3>3, AlikeAfterMidnight
    <3>5. pendingPatch' = p /\ Optimistic(g2, p) = Optimistic(meant', p)
      BY <1>1, <3>1, <3>3, <3>4
    <3>6. Reached(pendingPatch)' = (Optimistic(Present', p) = Optimistic(meant', p))
      BY <2>9, <3>1, <3>5 DEF Reached, Optimistic, Updated, Switched
    <3> QED BY <2>2, <2>7, <3>5, <3>6
  <2> QED BY <2>8, <2>9
<1>13. ShowsTheAccount'
  <2> SUFFICES ASSUME GuideSettled'
               PROVE  \E d \in localDate..date' : guide = GuideOn(owner, d)
    BY <1>1 DEF ShowsTheAccount, GuideOn
  <2>1. GuideSettled
    BY <1>1 DEF GuideSettled, Quiet
  <2>2. PICK d \in localDate..date : guide = GuideOn(owner, d)
    BY <2>1 DEF GuideInv, ShowsTheAccount
  <2>3. d \in localDate..date'
    BY <1>1, <1>3, <1>4
  <2> QED BY <2>2, <2>3
<1>14. TourKnown'
  BY <1>1 DEF GuideInv, TourKnown, Row, MoveKept, OnItsPage
<1> QED BY <1>8, <1>10, <1>11, <1>12, <1>13, <1>14 DEF GuideInv


\* The server has answered, and its answer is shown.
LEMMA SaveAnsweredFits ==
  ASSUME GuideInv, NEW m \in saves, SaveAnswered(m)
  PROVE  GuideInv'
<1>1. PICK p \in Patch : p = m.patch
  BY SaveIs
<1>2. PICK dropped \in BOOLEAN : dropped = (pendingPatch \notin {NoPatch, p})
  OBVIOUS
<1>3. /\ m.waited /\ m.stage = "done" /\ saves' = saves \ {m} /\ guide' = m.seen
      /\ ~unsynced' /\ unsynced' \in BOOLEAN /\ pendingPatch' = NoPatch
      /\ alone' = alone
      /\ UNCHANGED <<guideRow, date, owner, localDate, guideLoad, saved, sessions>>
      /\ UNCHANGED <<tourVisible, tourStop, path, going>>
  BY DEF SaveAnswered, Concluded, tourVars
<1>4. blurred' = (blurred /\ ~alone)
  BY DEF SaveAnswered, Concluded
<1>5. meant' = IF alone /\ (blurred \/ dropped) THEN m.seen ELSE meant
  BY <1>1, <1>2 DEF SaveAnswered, Concluded
<1>6. strayed' = (strayed \/ dropped)
  BY <1>1, <1>2 DEF SaveAnswered, Concluded
<1>7. m.seen \in Guide /\ m.owner \in Accounts
  BY SaveIs
<1>8. GuidanceTypeOK /\ {unsynced, tourVisible, alone, blurred, strayed} \subseteq BOOLEAN
  BY DEF GuideInv, GuideShape
<1>9. GuideShape'
  <2>1. GuidanceTypeOK'
    BY <1>3, <1>5, <1>7, <1>8 DEF GuidanceTypeOK
  <2>2. {unsynced', tourVisible', alone', blurred', strayed'} \subseteq BOOLEAN
    BY <1>2, <1>3, <1>4, <1>6, <1>8
  <2> QED BY <1>3, <2>1, <2>2 DEF GuideInv, GuideShape
<1>10. ~Quiet
  BY DEF Quiet
<1>11. ~blurred => alone
  BY <1>10 DEF GuideInv, OneAtATime
<1>12. alone \/ ~strayed =>
         saves = {m} /\ saves' = {} /\ guideLoad = NoLoad /\ m.owner = owner /\ owner # NoAccount
  BY <1>3, OnlyExchange
<1>13. OneAtATime'
  <2>1. ~strayed' => ~strayed
    BY <1>6
  <2>2. ~alone => blurred'
    BY <1>4, <1>11
  <2> QED BY <1>3, <1>12, <2>1, <2>2 DEF OneAtATime, Quiet
<1>14. AloneSees'
  BY <1>3, <1>12 DEF AloneSees
<1>15. ~blurred' => alone
  BY <1>4, <1>11
<1>16. ASSUME alone
       PROVE  Present' = m.seen /\ Present = m.seen
  <2>1. m.seen = guideRow[owner].guide /\ guideRow[owner].day = date
    BY <1>3, <1>16 DEF GuideInv, AloneSees
  <2>2. owner \in Accounts
    BY <1>7, <1>12, <1>16
  <2>3. Present = m.seen
    BY <1>8, <2>1, <2>2, GuideOnIs DEF Present
  <2>4. Present' = Present
    BY <1>3 DEF Present, GuideOn
  <2> QED BY <2>3, <2>4
<1>17. ChoicesReached'
  <2> SUFFICES ASSUME ~blurred'
               PROVE  saves' = {} /\ Present' = meant'
    BY <1>3 DEF ChoicesReached, Reached
  <2>1. alone /\ saves = {m} /\ saves' = {}
    BY <1>12, <1>15
  <2>2. CASE blurred \/ dropped
    BY <1>5, <1>16, <2>1, <2>2
  <2>3. CASE ~blurred /\ ~dropped
    <3>1. Present = meant
      BY <1>1, <1>2, <1>3, <1>12, <2>1, <2>3 DEF GuideInv, ChoicesReached
    <3> QED BY <1>5, <1>16, <2>1, <2>3, <3>1
  <2> QED BY <2>2, <2>3
<1>18. ShowsTheAccount'
  <2> SUFFICES ASSUME ~blurred'
               PROVE  \E d \in localDate'..date' : guide' = GuideOn(owner, d)'
    BY DEF ShowsTheAccount, GuideSettled
  <2>1. guide' = Present'
    BY <1>3, <1>15, <1>16
  <2>2. date \in localDate..date
    BY <1>8, GuidanceConstants DEF GuidanceTypeOK, Dates
  <2> QED BY <1>3, <2>1, <2>2 DEF Present
<1>19. TourKnown'
  <2> SUFFICES ASSUME ~strayed'
               PROVE  TourKnown'
    BY DEF TourKnown
  <2>1. ~strayed /\ pendingPatch \in {NoPatch, p}
    BY <1>2, <1>6
  <2>2. TourKnown /\ saves = {m} /\ saves' = {} /\ guideLoad = NoLoad /\ owner # NoAccount
    BY <1>12, <2>1 DEF GuideInv
  <2>3. /\ m.seen.step = IF Moves(p) THEN Stepped(p) ELSE Row.step
        /\ Moves(p) => Row.step = Stepped(p) /\ guide.step = Stepped(p) /\ OnItsPage
        /\ ~MoveKept /\ ~Moves(p) => guide.step = Row.step /\ OnItsPage
    BY <1>1, <1>3, <2>1, <2>2 DEF TourKnown
  <2>4. ~Moves(p) => ~MoveKept
    BY <2>1 DEF MoveKept
  <2>5. guide'.step = guide.step /\ guide'.step = Row.step /\ OnItsPage
    BY <1>3, <2>3, <2>4
  <2>6. OnItsPage' /\ Row' = Row
    BY <1>3, <2>5 DEF OnItsPage, Row
  <2> QED BY <1>3, <2>2, <2>5, <2>6 DEF TourKnown
<1> QED BY <1>9, <1>13, <1>14, <1>17, <1>18, <1>19 DEF GuideInv

\* A save is lost, or not waited for any longer.
LEMMA SaveFailedFits ==
  ASSUME GuideInv, NEW m \in saves, SaveFailed(m)
  PROVE  GuideInv'
<1>1. PICK p \in Patch : p = m.patch
  BY SaveIs
<1>2. PICK drops \in BOOLEAN : drops = (pendingPatch \notin {NoPatch, p})
  OBVIOUS
<1>3. PICK n : n = [m EXCEPT !.waited = FALSE]
  OBVIOUS
<1>4. /\ m.waited /\ unsynced' /\ unsynced' \in BOOLEAN
      /\ pendingPatch' = IF m.retry THEN pendingPatch ELSE p
      /\ UNCHANGED <<guideRow, date, owner, guide, localDate, guideLoad, saved, sessions>>
      /\ UNCHANGED <<alone, meant, tourVisible, tourStop, path, going>>
  BY <1>1 DEF SaveFailed, tourVars
<1>5. blurred' = (blurred \/ drops) /\ strayed' = (strayed \/ drops)
  BY <1>1, <1>2 DEF SaveFailed
<1>6. saves' = saves \ {m} \/ (m.stage # "done" /\ saves' = (saves \ {m}) \cup {n})
  BY <1>3 DEF SaveFailed
<1>7. m \in Save /\ p # NoPatch /\ m.retry \in BOOLEAN
  BY <1>1, SaveIs
<1>8. /\ n \in Save /\ ~n.waited /\ n.stage = m.stage /\ n.seen = m.seen /\ n.day = m.day
      /\ n.owner = m.owner /\ n.patch = p /\ n.retry = m.retry
  BY <1>1, <1>3, <1>7 DEF Save
<1>9. GuidanceTypeOK /\ {unsynced, tourVisible, alone, blurred, strayed} \subseteq BOOLEAN
  BY DEF GuideInv, GuideShape
<1>10. GuideShape'
  <2>1. GuidanceTypeOK'
    <3>1. saves' \subseteq Save
      BY <1>6, <1>8, <1>9 DEF GuidanceTypeOK
    <3>2. pendingPatch' \in Patch \cup {NoPatch}
      BY <1>4, <1>9 DEF GuidanceTypeOK
    <3> QED BY <1>4, <1>9, <3>1, <3>2 DEF GuidanceTypeOK
  <2>2. \A k \in saves' : k.day <= date
    BY <1>6, <1>8 DEF GuideInv, GuideShape
  <2>3. {unsynced', tourVisible', alone', blurred', strayed'} \subseteq BOOLEAN
    BY <1>2, <1>4, <1>5, <1>9
  <2> QED BY <1>4, <2>1, <2>2, <2>3 DEF GuideInv, GuideShape
<1>11. ~Quiet
  BY DEF Quiet
<1>12. ~blurred => alone
  BY <1>11 DEF GuideInv, OneAtATime
<1>13. alone \/ ~strayed =>
         /\ saves = {m} /\ (saves' = {} \/ (m.stage # "done" /\ saves' = {n}))
         /\ guideLoad = NoLoad /\ m.owner = owner /\ owner # NoAccount
  BY <1>6, OnlyExchange
<1>14. OneAtATime'
  <2>1. ~strayed' => ~strayed
    BY <1>5
  <2>2. ~alone => blurred'
    BY <1>5, <1>12
  <2> QED BY <1>4, <1>8, <1>13, <2>1, <2>2 DEF OneAtATime
<1>15. Present' = Present /\ Row' = Row
  BY <1>4 DEF Present, GuideOn, Row
<1>16. AloneSees'
  BY <1>4, <1>8, <1>13, <1>15 DEF GuideInv, AloneSees
<1>17. ChoicesReached'
  <2> SUFFICES ASSUME ~blurred'
               PROVE  ChoicesReached'
    BY DEF ChoicesReached
  <2>1. ~blurred /\ pendingPatch \in {NoPatch, p} /\ alone
    BY <1>2, <1>5, <1>12
  <2>2. /\ IF m.stage = "done" THEN Present = meant ELSE Optimistic(Present, p) = meant
        /\ m.retry => pendingPatch = p
    BY <1>1, <1>13, <2>1 DEF GuideInv, ChoicesReached
  <2>3. pendingPatch' = p
    BY <1>4, <2>2
  <2>4. PICK g \in Guide : g = Present
    <3>1. owner \in Accounts
      BY <1>9, <1>13, <2>1 DEF GuidanceTypeOK
    <3> QED BY <1>9, <3>1, GuideOnIs DEF Present
  <2>5. Optimistic(Present, p) = Optimistic(meant, p)
    BY <2>2, <2>4, OptimisticTwice
  <2>6. Reached(pendingPatch)'
    <3>1. meant' = meant
      BY <1>4
    <3>2. Reached(pendingPatch)' = (Optimistic(Present', p) = Optimistic(meant', p))
      BY <1>7, <2>3 DEF Reached, Optimistic, Updated, Switched
    <3> QED BY <1>15, <2>5, <3>1, <3>2
  <2>7. CASE saves' = {}
    BY <2>6, <2>7 DEF ChoicesReached
  <2>8. CASE m.stage # "done" /\ saves' = {n}
    BY <1>4, <1>8, <1>15, <2>2, <2>3, <2>8 DEF ChoicesReached
  <2> QED BY <1>13, <2>1, <2>7, <2>8
<1>18. ShowsTheAccount'
  BY <1>4 DEF ShowsTheAccount, GuideSettled
<1>19. TourKnown'
  <2> SUFFICES ASSUME ~strayed'
               PROVE  TourKnown'
    BY DEF TourKnown
  <2>1. ~strayed /\ pendingPatch \in {NoPatch, p}
    BY <1>2, <1>5
  <2>2. TourKnown /\ saves = {m} /\ guideLoad = NoLoad /\ owner # NoAccount
    BY <1>13, <2>1 DEF GuideInv
  <2>3. /\ m.stage = "read" => m.seen.step = Row.step
        /\ Moves(p) => ~m.retry
        /\ ~MoveKept /\ ~Moves(p) => guide.step = Row.step /\ OnItsPage
    BY <1>1, <2>1, <2>2 DEF TourKnown
  <2>4. Moves(p) => pendingPatch' = p /\ MoveKept'
    BY <1>4, <1>7, <2>3 DEF MoveKept
  <2>5. ~Moves(p) => ~MoveKept /\ ~MoveKept'
    BY <1>4, <2>1 DEF MoveKept
  <2>6. OnItsPage' = OnItsPage
    BY <1>4 DEF OnItsPage
  <2>7. CASE saves' = {}
    BY <1>4, <1>15, <2>2, <2>3, <2>4, <2>5, <2>6, <2>7 DEF TourKnown
  <2>8. CASE m.stage # "done" /\ saves' = {n}
    <3>1. m.stage # "sent" => m.stage = "read"
      BY <2>8, SaveIs
    <3> QED BY <1>4, <1>8, <1>15, <2>2, <2>3, <2>4, <2>5, <2>6, <2>8, <3>1 DEF TourKnown
  <2> QED BY <1>13, <2>1, <2>7, <2>8
<1> QED BY <1>10, <1>14, <1>16, <1>17, <1>18, <1>19 DEF GuideInv

\* A load sees the row, is answered, or fails.
LEMMA LoadFits ==
  ASSUME GuideInv, LoadSees \/ LoadAnswered \/ GuideLoadFailed
  PROVE  GuideInv'
<1>1. /\ guideLoad # NoLoad
      /\ UNCHANGED <<guideRow, date, saves, owner, unsynced, pendingPatch, localDate, saved, sessions>>
      /\ UNCHANGED <<tourVisible, tourStop, path, going, alone>>
  BY DEF LoadSees, LoadAnswered, GuideLoadFailed, Concluded, providerVars, tourVars, guideHistory
<1>2. GuidanceTypeOK /\ {unsynced, tourVisible, alone, blurred, strayed} \subseteq BOOLEAN
      /\ owner # NoAccount /\ owner \in Accounts /\ guideLoad \in [read: BOOLEAN, seen: Guide]
  BY <1>1 DEF GuideInv, GuideShape, GuidanceTypeOK
<1>3. alone \/ ~strayed \/ ~blurred => saves = {}
  BY <1>1, OnlyLoad
<1>4. ~Quiet /\ (~blurred => alone)
  BY <1>1 DEF GuideInv, OneAtATime, Quiet
<1>5. Present' = Present /\ Row' = Row /\ MoveKept' = MoveKept
  BY <1>1 DEF Present, GuideOn, Row, MoveKept
<1>6. Present \in Guide /\ Present.step = Row.step
  BY <1>2, GuideOnIs DEF Present, Row
<1>7. CASE LoadSees
  <2>1. guideLoad' = [read |-> TRUE, seen |-> Present]
        /\ UNCHANGED <<guide, meant, blurred, strayed>>
    BY <1>7 DEF LoadSees, Present, providerVars, guideHistory
  <2>2. guideLoad' \in [read: BOOLEAN, seen: Guide] /\ guideLoad' # NoLoad
        /\ guideLoad'.seen = Present
    <3>1. guideLoad' \in [read: BOOLEAN, seen: Guide]
      BY <1>6, <2>1
    <3>2. guideLoad' # NoLoad
      BY <3>1, NothingIsNoGuide
    <3>3. guideLoad'.seen = Present
      BY <2>1
    <3> QED BY <3>1, <3>2, <3>3
  <2>3. GuideShape'
    <3>1. GuidanceTypeOK'
      BY <1>1, <1>2, <2>1, <2>2 DEF GuidanceTypeOK
    <3> QED BY <1>1, <2>1, <2>2, <3>1 DEF GuideInv, GuideShape
  <2>4. OneAtATime' /\ AloneSees'
    BY <1>1, <1>3, <1>4, <1>5, <2>1, <2>2 DEF OneAtATime, AloneSees
  <2>5. ChoicesReached' /\ ShowsTheAccount'
    <3>1. ~Quiet'
      BY <2>2 DEF Quiet
    <3>2. ChoicesReached'
      BY <1>1, <1>5, <2>1 DEF GuideInv, ChoicesReached, Reached
    <3> QED BY <3>1, <3>2 DEF ShowsTheAccount, GuideSettled
  <2>6. TourKnown'
    BY <1>1, <1>3, <1>5, <1>6, <2>1, <2>2 DEF GuideInv, TourKnown, OnItsPage
  <2> QED BY <2>3, <2>4, <2>5, <2>6 DEF GuideInv
<1>8. CASE GuideLoadFailed
  <2>1. guideLoad' = NoLoad /\ guide' = DefaultGuide /\ blurred' = TRUE /\ strayed' = TRUE
        /\ meant' = meant
    BY <1>8 DEF GuideLoadFailed
  <2>2. DefaultGuide \in Guide
    BY StepsAre DEF DefaultGuide, Guide, TourStatus
  <2>3. GuideShape'
    <3>1. GuidanceTypeOK'
      BY <1>1, <1>2, <2>1, <2>2 DEF GuidanceTypeOK
    <3> QED BY <1>1, <1>2, <2>1, <3>1 DEF GuideInv, GuideShape
  <2>4. OneAtATime' /\ AloneSees'
    BY <1>1, <1>3, <2>1 DEF OneAtATime, AloneSees
  <2>5. ChoicesReached' /\ ShowsTheAccount' /\ TourKnown'
    BY <2>1 DEF ChoicesReached, ShowsTheAccount, GuideSettled, TourKnown
  <2> QED BY <2>3, <2>4, <2>5 DEF GuideInv
<1>9. CASE LoadAnswered
  <2>1. guideLoad.read /\ guideLoad' = NoLoad /\ guide' = guideLoad.seen
        /\ meant' = IF alone /\ blurred THEN guideLoad.seen ELSE meant
    BY <1>9 DEF LoadAnswered, Concluded
  <2>2. blurred' = (blurred /\ ~alone) /\ strayed' = strayed
    BY <1>2, <1>9 DEF LoadAnswered, Concluded
  <2>3. guide' \in Guide /\ meant' \in Guide
    BY <1>2, <2>1 DEF GuidanceTypeOK
  <2>4. GuideShape'
    <3>1. GuidanceTypeOK'
      BY <1>1, <1>2, <2>1, <2>3 DEF GuidanceTypeOK
    <3>2. blurred' \in BOOLEAN
      BY <2>2
    <3> QED BY <1>1, <1>2, <2>1, <2>2, <3>1, <3>2 DEF GuideInv, GuideShape
  <2>5. OneAtATime' /\ AloneSees'
    <3>1. ~alone => blurred'
      BY <1>4, <2>2
    <3> QED BY <1>1, <1>3, <2>1, <2>2, <3>1 DEF OneAtATime, AloneSees
  <2>6. ~blurred' => alone /\ saves = {} /\ guide' = Present
    <3>1. ~blurred' => alone
      BY <1>4, <2>2
    <3> QED BY <1>1, <1>3, <2>1, <3>1 DEF GuideInv, AloneSees
  <2>7. ChoicesReached'
    <3> SUFFICES ASSUME ~blurred'
                 PROVE  Reached(pendingPatch)' /\ saves' = {}
      BY <1>1 DEF ChoicesReached
    <3>1. CASE blurred
      <4>1. meant' = Present'
        BY <1>5, <2>1, <2>6, <3>1
      <4> QED BY <1>1, <2>6, <4>1 DEF Reached
    <3>2. CASE ~blurred
      <4>1. meant' = meant /\ Reached(pendingPatch)
        BY <1>2, <2>1, <2>6, <3>2 DEF GuideInv, ChoicesReached
      <4> QED BY <1>1, <1>5, <2>6, <4>1 DEF Reached
    <3> QED BY <3>1, <3>2
  <2>8. ShowsTheAccount'
    <3> SUFFICES ASSUME ~blurred'
                 PROVE  \E d \in localDate'..date' : guide' = GuideOn(owner, d)'
      BY DEF ShowsTheAccount, GuideSettled
    <3>1. date \in localDate..date
      BY <1>2, GuidanceConstants DEF GuidanceTypeOK, Dates
    <3>2. guide' = Present'
      BY <1>5, <2>6
    <3> QED BY <1>1, <3>1, <3>2 DEF Present
  <2>9. TourKnown'
    <3> SUFFICES ASSUME ~strayed
                 PROVE  TourKnown'
      BY <2>2 DEF TourKnown
    <3>1. guide'.step = Row.step /\ saves = {}
      BY <1>1, <1>3, <2>1 DEF GuideInv, TourKnown
    <3>2. ~MoveKept => guide.step = Row.step /\ OnItsPage
      BY <1>2, <3>1 DEF GuideInv, TourKnown
    <3>3. ~MoveKept => OnItsPage'
      BY <1>1, <3>1, <3>2 DEF OnItsPage
    <3> QED BY <1>1, <1>5, <2>1, <3>1, <3>3 DEF TourKnown
  <2> QED BY <2>4, <2>5, <2>7, <2>8, <2>9 DEF GuideInv
<1> QED BY <1>7, <1>8, <1>9

\* The window has the focus on a new day.
LEMMA WindowFocusFits == GuideInv /\ WindowFocus => GuideInv'
<1> SUFFICES ASSUME GuideInv, WindowFocus
             PROVE  GuideInv'
  OBVIOUS
<1>1. /\ localDate' = date
      /\ UNCHANGED <<guideRow, date, saves, owner, guide, unsynced, pendingPatch, saved, sessions,
                     meant>>
      /\ UNCHANGED <<tourVisible, tourStop, path, going>>
  BY DEF WindowFocus, tourVars
<1>2. GuidanceTypeOK /\ {unsynced, tourVisible, alone, blurred, strayed} \subseteq BOOLEAN
  BY DEF GuideInv, GuideShape
<1>3. date \in Nat /\ localDate \in 0..date
  BY <1>2, GuidanceConstants DEF GuidanceTypeOK, Dates
<1>4. localDate' \in 0..date'
  BY <1>1, <1>3
<1>5. Present' = Present /\ Row' = Row /\ MoveKept' = MoveKept /\ OnItsPage' = OnItsPage
  BY <1>1 DEF Present, GuideOn, Row, MoveKept, OnItsPage
<1>6. CASE owner = NoAccount
  <2>1. UNCHANGED <<guideLoad, alone, blurred, strayed>>
    BY <1>6 DEF WindowFocus
  <2>2. GuideShape'
    <3>1. GuidanceTypeOK'
      BY <1>1, <1>2, <1>4, <2>1 DEF GuidanceTypeOK
    <3> QED BY <1>1, <2>1, <3>1 DEF GuideInv, GuideShape
  <2>3. OneAtATime' /\ AloneSees'
    BY <1>1, <1>5, <2>1 DEF GuideInv, OneAtATime, AloneSees, Quiet
  <2>4. ChoicesReached' /\ ShowsTheAccount'
    BY <1>1, <1>6 DEF ChoicesReached, ShowsTheAccount, GuideSettled
  <2>5. TourKnown'
    BY <1>1, <1>5, <2>1 DEF GuideInv, TourKnown
  <2> QED BY <2>2, <2>3, <2>4, <2>5 DEF GuideInv
<1>7. CASE owner # NoAccount
  <2>1. guideLoad' = NewLoad
    BY <1>7 DEF WindowFocus
  <2>2. alone' = ~(saves # {}) /\ blurred' = (blurred \/ saves # {})
        /\ strayed' = (strayed \/ saves # {})
    BY <1>7 DEF WindowFocus, Begins
  <2>3. NewLoad \in [read: BOOLEAN, seen: Guide]
    BY StepsAre DEF NewLoad, DefaultGuide, Guide, TourStatus
  <2>4. NewLoad # NoLoad
    BY <2>3, NothingIsNoGuide
  <2>5. ~NewLoad.read
    BY DEF NewLoad
  <2>6. GuideShape'
    <3>1. GuidanceTypeOK'
      BY <1>1, <1>2, <1>4, <2>1, <2>3 DEF GuidanceTypeOK
    <3>2. alone' \in BOOLEAN /\ blurred' \in BOOLEAN /\ strayed' \in BOOLEAN
      BY <2>2
    <3> QED BY <1>1, <1>7, <3>1, <3>2 DEF GuideInv, GuideShape
  <2>7. alone' \/ ~strayed' \/ ~blurred' => saves = {} /\ saves' = {}
    BY <1>1, <2>2
  <2>8. OneAtATime'
    <3>1. ~alone' => blurred'
      BY <2>2
    <3> QED BY <2>7, <3>1 DEF OneAtATime
  <2>9. AloneSees'
    BY <2>1, <2>5, <2>7 DEF AloneSees
  <2>10. ChoicesReached'
    <3> SUFFICES ASSUME ~blurred'
                 PROVE  ChoicesReached'
      BY DEF ChoicesReached
    <3>1. ~blurred /\ saves = {} /\ saves' = {}
      BY <1>1, <2>2
    <3>2. Reached(pendingPatch)
      BY <1>7, <3>1 DEF GuideInv, ChoicesReached
    <3>3. Reached(pendingPatch)'
      BY <1>1, <1>5, <3>2 DEF Reached, Optimistic, Updated, Switched
    <3> QED BY <3>1, <3>3 DEF ChoicesReached
  <2>11. ShowsTheAccount'
    BY <2>1, <2>4 DEF ShowsTheAccount, GuideSettled, Quiet
  <2>12. TourKnown'
    <3> SUFFICES ASSUME ~strayed'
                 PROVE  TourKnown'
      BY DEF TourKnown
    <3>1. ~strayed /\ saves = {} /\ saves' = {}
      BY <1>1, <2>2
    <3> QED BY <1>1, <1>5, <2>1, <2>5, <3>1 DEF GuideInv, TourKnown
  <2> QED BY <2>6, <2>8, <2>9, <2>10, <2>11, <2>12 DEF GuideInv
<1> QED BY <1>6, <1>7

\* Another account: nothing is known of the page until its load is answered.
LEMMA AccountFits ==
  ASSUME GuideInv, NEW a \in Accounts \cup {NoAccount}, AccountChanges(a)
  PROVE  GuideInv'
<1>1. /\ a # owner /\ owner' = a /\ unsynced' = FALSE /\ pendingPatch' = NoPatch
      /\ guideLoad' = IF a = NoAccount THEN NoLoad ELSE NewLoad
      /\ UNCHANGED <<guideRow, date, localDate, path, going>>
  BY DEF AccountChanges
<1>2. tourVisible' = (tourVisible /\ owner = NoAccount)
  BY DEF AccountChanges
<1>3. GuidanceTypeOK /\ {unsynced, tourVisible, alone, blurred, strayed} \subseteq BOOLEAN
      /\ saved \in Nat
  BY DEF GuideInv, GuideShape
<1>4. NewLoad \in [read: BOOLEAN, seen: Guide] /\ DefaultGuide \in Guide
  BY StepsAre DEF NewLoad, DefaultGuide, Guide, TourStatus
<1>5. NewLoad # NoLoad /\ ~NewLoad.read
  <2>1. NewLoad # NoLoad
    BY <1>4, NothingIsNoGuide
  <2> QED BY <2>1 DEF NewLoad
<1>6. guideLoad' # NoLoad => a # NoAccount /\ ~guideLoad'.read
  BY <1>1, <1>5
<1>7. guideLoad' = NoLoad \/ guideLoad' \in [read: BOOLEAN, seen: Guide]
  BY <1>1, <1>4
<1>8. CASE tourVisible' /\ path \in TourSteps \ {0}
  <2>1. PICK p : p = Tour("IN_PROGRESS", path)
    OBVIOUS
  <2>2. p \in Patch
    BY <1>8, <2>1 DEF Tour, Patch, TourStatus
  <2>3. guide' = Optimistic(DefaultGuide, p) /\ tourStop' = 0 /\ SendSave(a, p, FALSE, TRUE)
    BY <1>8, <2>1 DEF AccountChanges
  <2>4. a \in Accounts /\ a # NoAccount
    BY <1>1, <1>2, <1>8, NothingIsNoGuide
  <2>5. PICK m : m = [id |-> saved', owner |-> a, patch |-> p, retry |-> FALSE,
                      waited |-> TRUE, stage |-> "sent", day |-> date, seen |-> DefaultGuide]
    OBVIOUS
  <2>6. /\ saved < MaxSaves /\ saved' = saved + 1 /\ saves' = saves \cup {m}
        /\ meant' = Optimistic(meant, p)
    BY <2>3, <2>5 DEF SendSave
  <2>7. alone' = FALSE /\ blurred' = TRUE
    BY <2>3 DEF SendSave, Begins
  <2>8. strayed' = TRUE
    BY <2>3 DEF SendSave
  <2>9. date \in Dates /\ date \in Nat /\ MaxSaves \in Nat
    BY <1>3, GuidanceConstants DEF GuidanceTypeOK, Dates
  <2>10. m \in Save
    <3>1. saved' \in 1..MaxSaves
      BY <1>3, <2>6, <2>9
    <3> QED BY <1>4, <2>2, <2>4, <2>5, <2>9, <3>1 DEF Save
  <2>11. m.day = date
    BY <2>5
  <2>12. guide' \in Guide /\ meant' \in Guide
    BY <1>3, <1>4, <2>2, <2>3, <2>6, OptimisticIs DEF GuidanceTypeOK
  <2>13. GuideShape'
    <3>1. GuidanceTypeOK'
      <4>1. saves' \subseteq Save
        BY <1>3, <2>6, <2>10 DEF GuidanceTypeOK
      <4>2. tourStop' \in Nat
        BY <2>3
      <4>3. pendingPatch' \in Patch \cup {NoPatch} /\ (pendingPatch' # NoPatch => unsynced')
        BY <1>1
      <4> QED BY <1>1, <1>3, <1>7, <2>4, <2>12, <4>1, <4>2, <4>3 DEF GuidanceTypeOK
    <3>2. {unsynced', tourVisible', alone', blurred', strayed'} \subseteq BOOLEAN
      BY <1>1, <1>2, <2>7, <2>8
    <3>3. saved' \in Nat
      BY <1>3, <2>6
    <3>4. \A n \in saves' : n.day <= date
      BY <2>6, <2>9, <2>11 DEF GuideInv, GuideShape
    <3> QED BY <1>1, <1>6, <3>1, <3>2, <3>3, <3>4 DEF GuideInv, GuideShape
  <2> QED BY <2>7, <2>8, <2>13
       DEF GuideInv, OneAtATime, AloneSees, ChoicesReached, ShowsTheAccount, GuideSettled, TourKnown
<1>9. CASE ~(tourVisible' /\ path \in TourSteps \ {0})
  <2>1. guide' = DefaultGuide /\ blurred' = TRUE /\ strayed' = TRUE
        /\ UNCHANGED <<saves, saved, tourStop, meant>>
    BY <1>9 DEF AccountChanges
  <2>2. alone' = (saves = {})
    BY <1>9 DEF AccountChanges
  <2>3. GuideShape'
    <3>1. GuidanceTypeOK'
      <4>1. pendingPatch' \in Patch \cup {NoPatch} /\ (pendingPatch' # NoPatch => unsynced')
        BY <1>1
      <4> QED BY <1>1, <1>3, <1>4, <1>7, <2>1, <4>1 DEF GuidanceTypeOK
    <3>2. {unsynced', tourVisible', alone', blurred', strayed'} \subseteq BOOLEAN
      BY <1>1, <1>2, <2>1, <2>2
    <3> QED BY <1>1, <1>6, <2>1, <3>1, <3>2 DEF GuideInv, GuideShape
  <2>4. OneAtATime' /\ AloneSees'
    BY <1>6, <2>1, <2>2 DEF OneAtATime, AloneSees
  <2>5. ChoicesReached' /\ ShowsTheAccount' /\ TourKnown'
    BY <2>1 DEF ChoicesReached, ShowsTheAccount, GuideSettled, TourKnown
  <2> QED BY <2>3, <2>4, <2>5 DEF GuideInv
<1> QED BY <1>8, <1>9

\* Each status and step of the tour has a patch that sets them.
LEMMA ToursArePatches ==
  ASSUME NEW progress \in TourStatus, NEW step \in TourSteps
  PROVE  /\ Tour(progress, step) \in Patch
         /\ Moves(Tour(progress, step)) /\ Stepped(Tour(progress, step)) = step
<1>1. Tour(progress, step) \in Patch
  BY DEF Tour, Patch
<1>2. Tour(progress, step).op = "tour" /\ Tour(progress, step).step = step
  BY DEF Tour
<1> QED BY <1>1, <1>2 DEF Moves, Stepped

\* The parts of the tour.
LEMMA TourIsTyped == GuideInv =>
  /\ tourVisible \in BOOLEAN /\ tourStop \in Nat /\ path \in Routes
  /\ going \in Routes \cup {NoRoute} /\ guide \in Guide /\ guide.step \in TourSteps
BY DEF GuideInv, GuideShape, GuidanceTypeOK, Guide

\* A step of the tour is chosen, and its page is asked for or is there.
LEMMA StepFits ==
  ASSUME GuideInv, NEW p \in Patch, Moves(p), SaveGuide(p),
         Stepped(p) \in TourSteps, ShowStep(Stepped(p)) \/ Stepped(p) = path' \/ ~tourVisible',
         tourVisible' \in BOOLEAN, tourStop' \in Nat, path' \in Routes,
         ShowStep(Stepped(p)) => path' = path, going' \in Routes \cup {NoRoute}
  PROVE  GuideInv'
<1>1. guide \in Guide
  BY TourIsTyped
<1>2. guide'.step = Stepped(p)
  BY <1>1, OptimisticIs DEF SaveGuide, Placed
<1>3. Stepped(p) # NoRoute
  BY NothingIsNoGuide DEF Routes
<1>4. OnItsPage'
  BY <1>2, <1>3 DEF OnItsPage, ShowStep
<1> QED BY <1>4, ChoiceFits

\* A choice beside the tour.
LEMMA BesideFits ==
  ASSUME GuideInv, NEW p \in Patch, ~Moves(p), SaveGuide(p), UNCHANGED tourVars
  PROVE  GuideInv'
<1>1. UNCHANGED <<tourVisible, tourStop, path, going>>
  BY DEF tourVars
<1>2. /\ tourVisible' \in BOOLEAN /\ tourStop' \in Nat /\ path' \in Routes
      /\ going' \in Routes \cup {NoRoute}
  BY <1>1, TourIsTyped
<1> QED BY <1>1, <1>2, ChoiceFits

\* The choices of the user.
LEMMA ChoicesFit == GuideInv /\ ChooseGuide => GuideInv'
<1> SUFFICES ASSUME GuideInv, ChooseGuide
             PROVE  GuideInv'
  OBVIOUS
<1>1. ASSUME NEW which \in Switches, SwitchGuide(which)
      PROVE  GuideInv'
  <2>1. PICK p : p = [op |-> "switch", which |-> which, to |-> which \notin guide.on]
    OBVIOUS
  <2>2. p \in Patch /\ p.op = "switch"
    BY <2>1 DEF Patch
  <2>3. SaveGuide(p) /\ UNCHANGED tourVars
    BY <1>1, <2>1 DEF SwitchGuide
  <2>4. ~Moves(p)
    BY <2>2 DEF Moves
  <2> QED BY <2>2, <2>3, <2>4, BesideFits
<1>2. ASSUME NEW tip \in Tips, DismissTip(tip)
      PROVE  GuideInv'
  <2>1. PICK p : p = [op |-> "dismiss", tip |-> tip]
    OBVIOUS
  <2>2. p \in Patch /\ p.op = "dismiss"
    BY <2>1 DEF Patch
  <2>3. SaveGuide(p) /\ UNCHANGED tourVars
    BY <1>2, <2>1 DEF DismissTip
  <2>4. ~Moves(p)
    BY <2>2 DEF Moves
  <2> QED BY <2>2, <2>3, <2>4, BesideFits
<1>3. CASE ResetTips
  <2>1. PICK p : p = [op |-> "reset"]
    OBVIOUS
  <2>2. p \in Patch /\ p.op = "reset"
    BY <2>1 DEF Patch
  <2>3. SaveGuide(p) /\ UNCHANGED tourVars
    BY <1>3, <2>1 DEF ResetTips
  <2>4. ~Moves(p)
    BY <2>2 DEF Moves
  <2> QED BY <2>2, <2>3, <2>4, BesideFits
<1> QED BY <1>1, <1>2, <1>3, RetryFits DEF ChooseGuide

\* The tour goes to the next step or to one before.
LEMMA GoToStepFits ==
  ASSUME GuideInv, NEW step \in TourSteps, GoToStep(step), tourStop' \in Nat
  PROVE  GuideInv'
<1>1. PICK p \in Patch : p = Tour("IN_PROGRESS", step) /\ Moves(p) /\ Stepped(p) = step
  BY ToursArePatches DEF TourStatus
<1>2. SaveGuide(p) /\ ShowStep(step) /\ tourVisible' = tourVisible /\ path' = path
  BY <1>1 DEF GoToStep
<1>3. going' \in Routes \cup {NoRoute}
  BY <1>2, TourIsTyped DEF ShowStep, Routes
<1> QED BY <1>1, <1>2, <1>3, TourIsTyped, StepFits

\* The tour is over.
LEMMA CompleteFits == GuideInv /\ CompleteTour => GuideInv'
<1> SUFFICES ASSUME GuideInv, CompleteTour
             PROVE  GuideInv'
  OBVIOUS
<1>1. PICK p \in Patch : p = Tour("COMPLETED", LastStep) /\ Moves(p) /\ Stepped(p) = LastStep
  BY ToursArePatches, StepsAre DEF TourStatus
<1>2. SaveGuide(p) /\ ShowStep(0) /\ tourVisible' = FALSE /\ path' = path /\ tourStop' = tourStop
  BY <1>1 DEF CompleteTour
<1>3. going' \in Routes \cup {NoRoute}
  BY <1>2, TourIsTyped, StepsAre DEF ShowStep, Routes
<1> QED BY <1>1, <1>2, <1>3, TourIsTyped, StepsAre, StepFits

\* The tour moves to another stop of its step.
LEMMA GoToStopFits ==
  ASSUME GuideInv, NEW stop \in Nat, GoToStop(stop)
  PROVE  GuideInv'
<1>1. tourStop' = stop /\ UNCHANGED <<tourVisible, path, going>> /\ SavesNothing
  BY DEF GoToStop
<1>2. OnItsPage => OnItsPage'
  BY <1>1 DEF OnItsPage, SavesNothing, providerVars
<1> QED BY <1>1, <1>2, TourIsTyped, PageMoves

\* The tour is begun, or begun again.
LEMMA StartFits == GuideInv /\ (StartTour \/ ReplayTour) => GuideInv'
<1> SUFFICES ASSUME GuideInv, StartTour \/ ReplayTour
             PROVE  GuideInv'
  OBVIOUS
<1>1. tourVisible' = TRUE /\ tourStop' = 0 /\ ShowStep(0) /\ path' = path
  BY DEF StartTour, ReplayTour
<1>2. going' \in Routes \cup {NoRoute}
  BY <1>1, TourIsTyped, StepsAre DEF ShowStep, Routes
<1>3. PICK p \in Patch : SaveGuide(p) /\ Moves(p) /\ Stepped(p) = 0
  <2>1. CASE StartTour
    BY <2>1, ToursArePatches, StepsAre DEF StartTour, TourStatus
  <2>2. CASE ReplayTour
    <3>1. PICK p : p = [op |-> "replay"]
      OBVIOUS
    <3>2. p \in Patch /\ p.op = "replay"
      BY <3>1 DEF Patch
    <3> QED BY <2>2, <3>1, <3>2 DEF ReplayTour, Moves, Stepped
  <2> QED BY <2>1, <2>2
<1> QED BY <1>1, <1>2, <1>3, TourIsTyped, StepsAre, StepFits

\* The tour follows a route.
LEMMA FollowFits ==
  ASSUME GuideInv, NEW route \in TourSteps, Follow(route), path' = route,
         tourVisible' \in BOOLEAN, going' \in Routes \cup {NoRoute},
         ShowStep(route) => path' = path
  PROVE  GuideInv'
<1>1. PICK p \in Patch : p = Tour("IN_PROGRESS", route) /\ Moves(p) /\ Stepped(p) = route
  BY ToursArePatches DEF TourStatus
<1>2. SaveGuide(p) /\ tourStop' = 0
  BY <1>1 DEF Follow
<1>3. guide'.step = route
  BY <1>1, <1>2, TourIsTyped, OptimisticIs DEF SaveGuide, Placed
<1>4. OnItsPage' /\ path' \in Routes
  BY <1>3 DEF OnItsPage, Routes
<1> QED BY <1>1, <1>2, <1>4, ChoiceFits

\* The tour goes on where it was left.
LEMMA ResumeFits == GuideInv /\ ResumeTour => GuideInv'
<1> SUFFICES ASSUME GuideInv, ResumeTour
             PROVE  GuideInv'
  OBVIOUS
<1>1. tourVisible' = TRUE /\ ShowStep(guide.step) /\ path' = path
  BY DEF ResumeTour
<1>2. going' \in Routes \cup {NoRoute}
  BY <1>1, TourIsTyped DEF ShowStep, Routes
<1>3. CASE OffStep(path)
  BY <1>1, <1>2, <1>3, FollowFits DEF ResumeTour, OffStep
<1>4. CASE ~OffStep(path)
  <2>1. tourStop' = 0 /\ SavesNothing
    BY <1>4 DEF ResumeTour
  <2>2. OnItsPage'
    BY <1>1, <1>4, <2>1 DEF OnItsPage, OffStep, SavesNothing, providerVars
  <2> QED BY <1>1, <1>2, <2>1, <2>2, TourIsTyped, PageMoves
<1> QED BY <1>3, <1>4

\* The route that was asked for is rendered.
LEMMA ArriveFits == GuideInv /\ Arrive => GuideInv'
<1> SUFFICES ASSUME GuideInv, Arrive
             PROVE  GuideInv'
  OBVIOUS
<1>1. going \in Routes /\ path' = going /\ going' = NoRoute /\ tourVisible' = tourVisible
  BY TourIsTyped DEF Arrive
<1>2. CASE tourVisible /\ OffStep(going)
  <2>1. Follow(going) /\ going \in TourSteps
    BY <1>2 DEF Arrive, OffStep
  <2>2. ShowStep(going) => path' = path
    BY <1>1, NothingIsNoGuide DEF ShowStep
  <2> QED BY <1>1, <2>1, <2>2, TourIsTyped, FollowFits
<1>3. CASE ~(tourVisible /\ OffStep(going))
  <2>1. tourStop' = tourStop /\ SavesNothing
    BY <1>3 DEF Arrive
  <2>2. OnItsPage'
    BY <1>1, <1>3, <2>1 DEF OnItsPage, OffStep, SavesNothing, providerVars
  <2> QED BY <1>1, <2>1, <2>2, TourIsTyped, PageMoves
<1> QED BY <1>2, <1>3

\* Next, back, skip a step, or end the tour.
LEMMA WalkFits == GuideInv /\ (NextStop \/ BackStop \/ SkipFeature \/ SkipTour) => GuideInv'
<1> SUFFICES ASSUME GuideInv, NextStop \/ BackStop \/ SkipFeature \/ SkipTour
             PROVE  GuideInv'
  OBVIOUS
<1>1. PICK step \in TourSteps : step = guide.step
  BY TourIsTyped
<1>2. tourStop \in Nat /\ step \in Nat /\ LastStep \in Nat /\ 0 <= step /\ step <= LastStep
  BY TourIsTyped, StepsAre DEF TourSteps
<1>3. step < LastStep => step + 1 \in TourSteps
  BY <1>2 DEF TourSteps
<1>4. step > 0 => step - 1 \in TourSteps
  BY <1>2 DEF TourSteps
<1>5. CASE NextStop \/ SkipFeature
  <2>1. \/ NextStop /\ GoToStop(tourStop + 1)
        \/ step < LastStep /\ tourStop' = 0 /\ GoToStep(step + 1)
        \/ CompleteTour
    BY <1>1, <1>5 DEF NextStop, SkipFeature
  <2>2. tourStop + 1 \in Nat /\ 0 \in Nat
    BY <1>2
  <2> QED BY <1>3, <2>1, <2>2, GoToStopFits, GoToStepFits, CompleteFits
<1>6. CASE BackStop
  <2>1. CASE tourStop > 0
    <3>1. GoToStop(tourStop - 1) /\ tourStop - 1 \in Nat
      BY <1>2, <1>6, <2>1 DEF BackStop
    <3> QED BY <3>1, GoToStopFits
  <2>2. CASE ~(tourStop > 0)
    <3>1. step > 0 /\ tourStop' = StopCount(step - 1) - 1 /\ GoToStep(step - 1)
      BY <1>1, <1>6, <2>2 DEF BackStop
    <3>2. PICK count \in Nat \ {0} : count = StopCount(step - 1)
      BY <1>4, <3>1, StepsAre
    <3>3. tourStop' \in Nat
      BY <3>1, <3>2
    <3> QED BY <1>4, <3>1, <3>3, GoToStepFits
  <2> QED BY <2>1, <2>2
<1>7. CASE SkipTour
  <2>1. PICK p \in Patch : p = Tour("SKIPPED", step) /\ Moves(p) /\ Stepped(p) = step
    BY ToursArePatches DEF TourStatus
  <2>2. SaveGuide(p) /\ tourVisible' = FALSE /\ UNCHANGED <<tourStop, path, going>>
    BY <1>1, <1>7, <2>1 DEF SkipTour
  <2> QED BY <2>1, <2>2, TourIsTyped, StepFits
<1> QED BY <1>5, <1>6, <1>7

\* A route is asked for.
LEMMA NavigateFits ==
  ASSUME GuideInv, NEW route \in Routes, Navigate(route)
  PROVE  GuideInv'
<1>1. going' = route /\ UNCHANGED <<tourVisible, tourStop, path>> /\ SavesNothing
  BY DEF Navigate
<1>2. OnItsPage'
  BY <1>1, NothingIsNoGuide DEF OnItsPage
<1> QED BY <1>1, <1>2, TourIsTyped, PageMoves

\* The whole of the tour.
LEMMA TourFits == GuideInv /\ TakeTour => GuideInv'
<1> SUFFICES ASSUME GuideInv, TakeTour
             PROVE  GuideInv'
  OBVIOUS
<1>1. ASSUME NEW stop \in 0..(Stops[1] - 1), JumpToStop(stop)
      PROVE  GuideInv'
  <2>1. stop \in Nat
    <3>1. PICK count \in Nat : count = Stops[1]
      <4>1. StopCount(0) \in Nat
        BY StepsAre
      <4> QED BY <4>1 DEF StopCount
    <3>2. stop \in 0..(count - 1)
      BY <3>1
    <3> QED BY <3>1, <3>2
  <2>2. GoToStop(stop)
    BY <1>1 DEF JumpToStop
  <2> QED BY <2>1, <2>2, GoToStopFits
<1> QED BY <1>1, StartFits, ResumeFits, ArriveFits, WalkFits, NavigateFits DEF TakeTour

\* What the page and the server tell each other, and the time.
LEMMA ExchangeFits == GuideInv /\ Exchange => GuideInv'
<1> SUFFICES ASSUME GuideInv, Exchange
             PROVE  GuideInv'
  OBVIOUS
<1> QED BY SaveReadFits, SaveCommitFits, SaveAnsweredFits, SaveFailedFits, LoadFits, DateFits,
           WindowFocusFits, AccountFits DEF Exchange

\* The page that has just been opened.
LEMMA GuideStarts == GuidanceInit => GuideInv
<1> SUFFICES ASSUME GuidanceInit
             PROVE  GuideInv
  OBVIOUS
<1>1. DefaultGuide \in Guide /\ 0 \in TourSteps
  BY StepsAre DEF DefaultGuide, Guide, TourStatus
<1>2. MaxNight \in Nat /\ 0 \in Dates /\ 0 \in 0..0
  BY GuidanceConstants DEF Dates
<1>3. GuideShape
  <2>1. guideRow \in [Accounts -> [guide: Guide, day: Dates]]
    BY <1>1, <1>2 DEF GuidanceInit
  <2>2. \A a \in Accounts : guideRow[a].day <= date
    BY DEF GuidanceInit
  <2>3. GuidanceTypeOK
    BY <1>1, <1>2, <2>1 DEF GuidanceInit, GuidanceTypeOK, Routes
  <2> QED BY <2>2, <2>3 DEF GuidanceInit, GuideShape
<1> QED BY <1>3 DEF GuidanceInit, GuideInv, OneAtATime, AloneSees, ChoicesReached, ShowsTheAccount,
          GuideSettled, TourKnown, Quiet, OnItsPage

\* Each step keeps the invariant.
LEMMA GuideGoesOn == GuideInv /\ [GuidanceNext]_guidanceVars => GuideInv'
<1> SUFFICES ASSUME GuideInv, [GuidanceNext]_guidanceVars
             PROVE  GuideInv'
  OBVIOUS
<1>1. CASE UNCHANGED guidanceVars
  <2>1. SavesNothing /\ UNCHANGED <<tourVisible, tourStop, path, going>>
    BY <1>1 DEF guidanceVars, SavesNothing, tourVars, providerVars, guideHistory
  <2>2. OnItsPage => OnItsPage'
    BY <2>1 DEF OnItsPage, SavesNothing, providerVars
  <2> QED BY <2>1, <2>2, TourIsTyped, PageMoves
<1> QED BY <1>1, ChoicesFit, TourFits, ExchangeFits DEF GuidanceNext

\* What the invariant says of a page that has settled.
LEMMA GuideIsKept == GuideInv => GuidanceTypeOK /\ GuidanceIsKept
<1> SUFFICES ASSUME GuideInv
             PROVE  GuidanceTypeOK /\ GuidanceIsKept
  OBVIOUS
<1>1. GuidanceTypeOK /\ ShowsTheAccount
  BY DEF GuideInv, GuideShape
<1>2. GuideSettled => pendingPatch = NoPatch /\ saves = {} /\ owner # NoAccount /\ ~blurred
  BY <1>1 DEF GuideSettled, Quiet, GuidanceTypeOK
<1>3. HasTheChoices
  BY <1>2 DEF GuideInv, ChoicesReached, Reached, Present, HasTheChoices
<1>4. TourIsOnItsPage
  BY <1>2 DEF GuideInv, TourKnown, MoveKept, OnItsPage, TourIsOnItsPage
<1> QED BY <1>1, <1>3, <1>4 DEF GuidanceIsKept

\* The guidance of the mascot is always well formed: no choice is kept for a
\* retry without the warning, and no page has seen a day that has not come.
THEOREM GuidanceTyped == GuidanceSpec => []GuidanceTypeOK
<1>1. GuideInv => GuidanceTypeOK
  BY GuideIsKept
<1> QED BY <1>1, GuideStarts, GuideGoesOn, PTL DEF GuidanceSpec

\* A page that has settled shows what the account has, the account has what the
\* user chose, and a tour in view is at the step of its page; through any order
\* of saves, answers, failures, retries, midnights and changes of the account.
THEOREM GuidanceKept == GuidanceSpec => []GuidanceIsKept
<1>1. GuideInv => GuidanceIsKept
  BY GuideIsKept
<1> QED BY <1>1, GuideStarts, GuideGoesOn, PTL DEF GuidanceSpec

-----------------------------------------------------------------------------
(* The pages together, as TLC runs them                                    *)

\* What TLC runs is a behaviour of the friends, of the bill and of the guidance:
\* what is proved of any of them holds of it.
THEOREM PagesAreEach == PagesSpec => SocialSpec /\ DeskSpec /\ GuidanceSpec
<1>1. PagesInit => SocialInit /\ DeskInit /\ GuidanceInit
  BY DEF PagesInit
<1>2. ASSUME [PagesNext]_pagesVars
      PROVE  [SocialNext]_socialVars /\ [DeskNext]_deskVars /\ [GuidanceNext]_guidanceVars
  <2>1. CASE AtFriends
    BY <2>1 DEF AtFriends
  <2>2. CASE AtPayments
    BY <2>2 DEF AtPayments
  <2>3. CASE AtGuidance
    BY <2>3 DEF AtGuidance
  <2>4. CASE UNCHANGED pagesVars
    BY <2>4 DEF pagesVars
  <2> QED BY <1>2, <2>1, <2>2, <2>3, <2>4 DEF PagesNext
<1> QED BY <1>1, <1>2, PTL DEF PagesSpec, SocialSpec, DeskSpec, GuidanceSpec

\* All of them keep their types in it.
THEOREM PagesKeepTypes == PagesSpec => []PagesTypeOK
<1>1. SocialTypeOK /\ DeskTypeOK /\ GuidanceTypeOK => PagesTypeOK
  BY DEF PagesTypeOK
<1> QED BY <1>1, PagesAreEach, PagesTyped, DeskTyped, GuidanceTyped, PTL

=============================================================================
