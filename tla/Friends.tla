------------------------------ MODULE Friends -------------------------------
(***************************************************************************)
(* FriendsService: requests between users and the friendships they lead    *)
(* to.  A friendship is two rows, one for each direction, and a request    *)
(* row is unique by sender and receiver whatever its status.               *)
(*                                                                         *)
(* A call reads before its transaction or before its only write, and the   *)
(* transactions that touch both rows of a friendship take them one after   *)
(* the other; the variables are the committed rows, and a row inserted or  *)
(* deleted by a transaction that is still open is in holder.               *)
(***************************************************************************)
EXTENDS FiniteSets, Integers

CONSTANTS
    Users,
    Calls,    \* concurrent HTTP requests
    Leavers,  \* bound: the users who may close their account
    NoCall

ASSUME FriendsConstants ==
    /\ Leavers \subseteq Users
    /\ NoCall \notin Calls

Pairs == {p \in Users \X Users : p[1] # p[2]}
Rev(p) == <<p[2], p[1]>>

VARIABLES
    request,  \* FriendRequest.status by <<sender, receiver>>, "NONE" without row
    friend,   \* Friendship: the rows <<userId, friendId>>
    holder,   \* the open transaction that inserted or deleted a friendship row
    account,  \* User.deletedAt, and whether the user exists
    call      \* each HTTP request: what it does and how far it is

friendVars == <<request, friend, holder, account, call>>

Answered == {"DECLINED", "CANCELLED", "ACCEPTED"}
Ops == {"send", "accept", "decline", "cancel", "remove"}
Results == {"ok", "refused", "lost"}
Steps == {"checked", "created", "claimed", "first", "second"} \cup Results
Idle == [op |-> "none"]
\* by is the caller; pair is the request, or the caller's row of a friendship.
Call == [op: Ops, by: Users, pair: Pairs, step: Steps]

FriendsTypeOK ==
    /\ request \in [Pairs -> {"NONE", "PENDING"} \cup Answered]
    /\ friend \subseteq Pairs
    /\ holder \in [Pairs -> Calls \cup {NoCall}]
    /\ account \in [Users -> {"ACTIVE", "DEACTIVATED", "DELETED"}]
    /\ call \in [Calls -> Call \cup {Idle}]

FriendsInit ==
    /\ request = [p \in Pairs |-> "NONE"]
    /\ friend = {}
    /\ holder = [p \in Pairs |-> NoCall]
    /\ account = [u \in Users |-> "ACTIVE"]
    /\ call = [c \in Calls |-> Idle]

-----------------------------------------------------------------------------
(* Calls and the rows they hold                                            *)

Running(c) == call[c].op # "none" /\ call[c].step \notin Results
At(c, op, step) == call[c].op = op /\ call[c].step = step
Move(c, step) == call' = [call EXCEPT ![c].step = step]
Release(c) == [p \in Pairs |-> IF holder[p] = c THEN NoCall ELSE holder[p]]
Held(c) == {p \in Pairs : holder[p] = c}
\* An acceptance holds its request from the first statement to the commit.
Claims(c, p) == call[c].op = "accept" /\ call[c].pair = p
                /\ call[c].step \in {"claimed", "first", "second"}
Locked(p) == \E c \in Calls : Claims(c, p)
Begin(c, op, u, p) ==
    call' = [call EXCEPT ![c] = [op |-> op, by |-> u, pair |-> p,
                                 step |-> "checked"]]
Refuse(c, op, u, p) ==
    call' = [call EXCEPT ![c] = [op |-> op, by |-> u, pair |-> p,
                                 step |-> "refused"]]

\* The rows of an acceptance: the receiver's first.
RowOf(c, n) == IF n = 1 THEN Rev(call[c].pair) ELSE call[c].pair

-----------------------------------------------------------------------------
(* createRequest: the checks, the insert, the notification                 *)

\* Only a request that waits or was accepted, in either direction, or a
\* friendship forbids a new one.
Blocked(p) ==
    \/ {request[p], request[Rev(p)]} \cap {"PENDING", "ACCEPTED"} # {}
    \/ {p, Rev(p)} \cap friend # {}

SendBegin(c, u, v) ==
    /\ call[c] = Idle
    /\ u # v
    /\ account[u] = "ACTIVE"
    /\ IF account[v] = "ACTIVE" /\ ~Blocked(<<u, v>>)
       THEN Begin(c, "send", u, <<u, v>>)
       ELSE Refuse(c, "send", u, <<u, v>>)
    /\ UNCHANGED <<request, friend, holder, account>>

\* A row of the same sender and receiver, of whatever status, is a violation
\* of the unique key, and a user who is gone one of the foreign key.
Insertable(p) ==
    /\ request[p] = "NONE"
    /\ \A u \in {p[1], p[2]} : account[u] # "DELETED"
SendInsert(c) ==
    LET p == call[c].pair IN
    /\ At(c, "send", "checked")
    /\ IF Insertable(p)
       THEN /\ request' = [request EXCEPT ![p] = "PENDING"]
            /\ Move(c, "created")
       ELSE Move(c, "refused") /\ UNCHANGED request
    /\ UNCHANGED <<friend, holder, account>>

SendNotify(c) ==
    /\ At(c, "send", "created")
    /\ Move(c, "ok")
    /\ UNCHANGED <<request, friend, holder, account>>

-----------------------------------------------------------------------------
(* acceptRequest, declineRequest, cancelRequest                            *)

\* getRequestForAction: the request must wait, and the caller must be its
\* receiver, or its sender for a cancellation.
AnswerBegin(c, op, u, p) ==
    /\ call[c] = Idle
    /\ account[u] = "ACTIVE"
    /\ op \in {"accept", "decline", "cancel"}
    /\ u = IF op = "cancel" THEN p[1] ELSE p[2]
    /\ IF request[p] = "PENDING" THEN Begin(c, op, u, p)
                                 ELSE Refuse(c, op, u, p)
    /\ UNCHANGED <<request, friend, holder, account>>

\* updatePendingRequest, and the first statement of an acceptance: the row is
\* updated only while it is pending.
StillPendingById(p) == TRUE
StillPending(p) == request[p] = "PENDING"
AnswerCommit(c, op) ==
    LET p == call[c].pair IN
    /\ op \in {"decline", "cancel"}
    /\ At(c, op, "checked")
    /\ ~Locked(p)
    /\ IF StillPending(p)
       THEN /\ request' = [request EXCEPT ![p] =
                 IF op = "decline" THEN "DECLINED" ELSE "CANCELLED"]
            /\ Move(c, "ok")
       ELSE Move(c, "refused") /\ UNCHANGED request
    /\ UNCHANGED <<friend, holder, account>>

AcceptClaim(c) ==
    LET p == call[c].pair IN
    /\ At(c, "accept", "checked")
    /\ ~Locked(p)
    /\ Move(c, IF StillPending(p) THEN "claimed" ELSE "refused")
    /\ UNCHANGED <<request, friend, holder, account>>

\* createMany with skipDuplicates inserts the rows in turn: it waits for an
\* open transaction on the row, then skips a row that is there.
Insert(c, p) ==
    /\ holder[p] = NoCall
    /\ holder' = IF p \in friend THEN holder ELSE [holder EXCEPT ![p] = c]
AcceptInsert(c, n) ==
    /\ At(c, "accept", IF n = 1 THEN "claimed" ELSE "first")
    /\ Insert(c, RowOf(c, n))
    /\ Move(c, IF n = 1 THEN "first" ELSE "second")
    /\ UNCHANGED <<request, friend, account>>

\* The row is read back: one that was skipped may be gone by now, and then the
\* acceptance is rolled back.
Visible(c, p) == p \in friend \/ holder[p] = c
AcceptFinish(c) ==
    LET p == call[c].pair IN
    /\ At(c, "accept", "second")
    /\ IF Visible(c, RowOf(c, 1))
       THEN /\ request' = [request EXCEPT ![p] = "ACCEPTED"]
            /\ friend' = friend \cup Held(c)
            /\ Move(c, "ok")
       ELSE Move(c, "refused") /\ UNCHANGED <<request, friend>>
    /\ holder' = Release(c)
    /\ UNCHANGED account

-----------------------------------------------------------------------------
(* removeFriend: one row, then the other                                   *)

RemoveBegin(c, u, v) ==
    /\ call[c] = Idle
    /\ u # v
    /\ account[u] = "ACTIVE"
    /\ Begin(c, "remove", u, <<u, v>>)
    /\ UNCHANGED <<request, friend, holder, account>>

\* A delete does not see a row that another transaction is inserting, and
\* waits for one that another transaction is deleting.
RemoveOwnRow(c) ==
    LET p == call[c].pair IN
    /\ At(c, "remove", "checked")
    /\ p \in friend => holder[p] = NoCall
    /\ IF p \in friend
       THEN holder' = [holder EXCEPT ![p] = c] /\ Move(c, "first")
       ELSE Move(c, "refused") /\ UNCHANGED holder
    /\ UNCHANGED <<request, friend, account>>
RemoveFinish(c) ==
    LET p == call[c].pair IN
    /\ At(c, "remove", "first")
    /\ Rev(p) \in friend => holder[Rev(p)] = NoCall
    /\ friend' = friend \ {p, Rev(p)}
    /\ holder' = Release(c)
    /\ Move(c, "ok")
    /\ UNCHANGED <<request, account>>

-----------------------------------------------------------------------------
(* Deadlocks, lost calls, closed accounts                                  *)

\* The row a call waits for.
Wants(c) ==
    CASE At(c, "accept", "claimed") -> {RowOf(c, 1)}
      [] At(c, "accept", "first") -> {RowOf(c, 2)}
      [] At(c, "remove", "checked") -> friend \cap {call[c].pair}
      [] At(c, "remove", "first") -> friend \cap {Rev(call[c].pair)}
      [] OTHER -> {}
WaitsFor(c, d) == c # d /\ \E p \in Wants(c) : holder[p] = d
Deadlocked(c) == \E d \in Calls : WaitsFor(c, d) /\ WaitsFor(d, c)

\* What the call has not committed is rolled back.
Abort(c, step) ==
    /\ Running(c)
    /\ holder' = Release(c)
    /\ Move(c, step)
    /\ UNCHANGED <<request, friend, account>>
Victim(c) == Running(c) /\ Deadlocked(c) /\ Abort(c, "refused")
\* The server or the connection is gone; the caller learns nothing.
Lose(c) == Abort(c, "lost")

\* The caller takes the answer.
Take(c) ==
    /\ call[c].op # "none" /\ call[c].step \in Results
    /\ call' = [call EXCEPT ![c] = Idle]
    /\ UNCHANGED <<request, friend, holder, account>>

Deactivate(u) ==
    /\ u \in Leavers /\ account[u] = "ACTIVE"
    /\ account' = [account EXCEPT ![u] = "DEACTIVATED"]
    /\ UNCHANGED <<request, friend, holder, call>>

\* deleteAllUserData: requests and friendships cascade with the user.  An open
\* transaction on one of those rows keeps the user's row locked.
DeleteUser(u) ==
    LET mine == {p \in Pairs : u \in {p[1], p[2]}} IN
    /\ u \in Leavers /\ account[u] # "DELETED"
    /\ \A p \in mine : holder[p] = NoCall /\ ~Locked(p)
    /\ account' = [account EXCEPT ![u] = "DELETED"]
    /\ request' = [p \in Pairs |-> IF p \in mine THEN "NONE" ELSE request[p]]
    /\ friend' = friend \ mine
    /\ UNCHANGED <<holder, call>>

-----------------------------------------------------------------------------
Start(c) == \E u \in Users :
    \/ \E v \in Users : SendBegin(c, u, v) \/ RemoveBegin(c, u, v)
    \/ \E p \in Pairs, op \in Ops : AnswerBegin(c, op, u, p)
Work(c) ==
    \/ SendInsert(c) \/ SendNotify(c)
    \/ \E op \in {"decline", "cancel"} : AnswerCommit(c, op)
    \/ AcceptClaim(c) \/ \E n \in 1..2 : AcceptInsert(c, n)
    \/ AcceptFinish(c)
    \/ RemoveOwnRow(c) \/ RemoveFinish(c)
    \/ Victim(c)
Leave == \E u \in Users : Deactivate(u) \/ DeleteUser(u)

FriendsNext == Leave \/ \E c \in Calls : Start(c) \/ Work(c) \/ Lose(c) \/ Take(c)
FriendsSpec == FriendsInit /\ [][FriendsNext]_friendVars
=============================================================================
