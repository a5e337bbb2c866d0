------------------------------- MODULE Forum -------------------------------
(***************************************************************************)
(* The forum as FetchPage (internal/manager/forum.go) sees it: for each    *)
(* forum user a list of notifications that only grows, shown newest first  *)
(* in pages, to whoever holds a cookie that is still logged in.            *)
(***************************************************************************)
EXTENDS Naturals, Sequences, FiniteSets

CONSTANTS
  ForumUser,   \* forum UIDs
  Cookie,      \* login cookies
  Owner,       \* [Cookie -> ForumUser]: a credential is a cookie and its UID
  PageSize,    \* the notifications on a page
  MaxFeed,     \* bound of the model: the notifications of a forum user
  Id           \* [Notification -> ids]: what the parser identifies each one by

ASSUME ForumAssumption ==
  /\ Owner \in [Cookie -> ForumUser]
  /\ PageSize \in Nat \ {0}
  /\ MaxFeed \in Nat

VARIABLES
  feed,        \* [ForumUser -> Nat]: how many notifications there are
  live         \* the cookies the forum accepts

forum == <<feed, live>>

\* A notification is its forum user and its place in that user's list.
Notification == ForumUser \X (1 .. MaxFeed)

ASSUME IdAssumption == DOMAIN Id = Notification

\* The bot knows notifications by what notificationID makes of them.  Two may have
\* the same id: with a reply_id it is the path, the reply and the kind, and neither
\* the actor nor the time.
SameId(m, n) == Id[m] = Id[n]

ForumTypeOK ==
  /\ feed \in [ForumUser -> 0 .. MaxFeed]
  /\ live \in SUBSET Cookie

ForumInit ==
  /\ feed \in [ForumUser -> {0, 1, 2} \cap (0 .. MaxFeed)]
  /\ live = Cookie

-----------------------------------------------------------------------------
(* What page p of f holds now.                                             *)

Top(f, p) == IF feed[f] > (p - 1) * PageSize THEN feed[f] - (p - 1) * PageSize ELSE 0

PageItems(f, p) ==
  [i \in 1 .. (IF Top(f, p) < PageSize THEN Top(f, p) ELSE PageSize) |->
     <<f, Top(f, p) - i + 1>>]

HasNext(f, p) == Top(f, p) > PageSize

-----------------------------------------------------------------------------

\* Something happens to a forum user that the forum notifies.
Post(f) ==
  /\ feed[f] < MaxFeed
  /\ feed' = [feed EXCEPT ![f] = @ + 1]
  /\ UNCHANGED live

\* The forum logs a session out.
Expire(c) ==
  /\ c \in live
  /\ live' = live \ {c}
  /\ UNCHANGED feed
=============================================================================
