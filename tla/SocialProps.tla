---------------------------- MODULE SocialProps -----------------------------
(***************************************************************************)
(* What the friends of a user, and the pages that show them, promise.      *)
(***************************************************************************)
EXTENDS Social

\* The calls implement the friendships their users see: of an acceptance, a
\* refusal and a cancellation that race for a request one wins for good, and
\* crossing acceptances, removals by both sides and the rows they skip, wait
\* for or roll back never leave one of the two rows of a friendship alone
\* (updatePendingRequest, acceptRequest, removeFriend).
FriendsSeen == INSTANCE FriendBook
ImplementsFriendBook == FriendsSeen!Spec

\* A page that shows its data, neither loading nor failed, shows what the user
\* has done and was told is done, whatever page it was done on, whichever loads
\* were under way and in whatever order they are answered (invalidateSocial,
\* and requestId in useFriends, useFriendRequests and useFriendsLeaderboard).
OwnActionsShow == \A r \in mounted :
    ~IsLoading(r) /\ ~failed[r] => view[r].at >= since[r]
=============================================================================
