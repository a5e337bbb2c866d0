------------------------------ MODULE Delivery ------------------------------
(***************************************************************************)
(* What the bot promises about deliveries, whatever polls, bindings,       *)
(* faults and restarts do: a user gets only what the forum has posted, one *)
(* notification at a time and each forum user's in order, where it may get *)
(* one again, and does not get what was there when it bound, but for the   *)
(* latest, nor what has sunk below the pages that a poll reads, nor what   *)
(* lies behind a notification with the id of one that was dealt with.      *)
(***************************************************************************)
EXTENDS Integers

CONSTANTS
  User,
  ForumUser,
  MaxFeed,     \* bound of the model: the notifications of a forum user
  Id,          \* [Notification -> ids]: what the bot knows each one by
  Reach        \* how many of them a poll can see

VARIABLES
  feed,        \* [ForumUser -> Nat]: how many notifications there are
  sent,        \* [User -> SUBSET Notification]: what was delivered
  left,        \* [User -> SUBSET Notification]: what a binding left unsent
  hidden       \* [User -> SUBSET Notification]: what an equal id has hidden

vars == <<feed, sent, left, hidden>>

Notification == ForumUser \X (1 .. MaxFeed)

Init ==
  /\ feed \in [ForumUser -> 0 .. MaxFeed]
  /\ sent = [u \in User |-> {}]
  /\ left = [u \in User |-> {}]
  /\ hidden = [u \in User |-> {}]

Posted == {n \in Notification : n[2] <= feed[n[1]]}

Before(n) == {<<n[1], k>> : k \in 1 .. (n[2] - 1)}

Sunk == {n \in Notification : n[2] <= feed[n[1]] - Reach}

Post(f) ==
  /\ feed[f] < MaxFeed
  /\ feed' = [feed EXCEPT ![f] = @ + 1]
  /\ UNCHANGED <<sent, left, hidden>>

\* A first delivery comes after those of everything before it.
Deliver(u, n) ==
  /\ n \in Posted
  /\ Before(n) \subseteq sent[u] \cup left[u] \cup hidden[u] \cup Sunk
  /\ sent' = [sent EXCEPT ![u] = @ \cup {n}]
  /\ UNCHANGED <<feed, left, hidden>>

\* A binding finds n to be the latest.
Bind(u, n) ==
  /\ n \in Posted
  /\ left' = [left EXCEPT ![u] = @ \cup (Before(n) \ sent[u])]
  /\ UNCHANGED <<feed, sent, hidden>>

\* n is taken for one with its id that was delivered or left, and with n whatever
\* is before it for something that was dealt with.
Hide(u, n) ==
  /\ n \in Posted \ (sent[u] \cup left[u])
  /\ \E m \in sent[u] \cup left[u] : Id[m] = Id[n]
  /\ hidden' = [hidden EXCEPT ![u] =
                  @ \cup (({n} \cup Before(n)) \ (sent[u] \cup left[u]))]
  /\ UNCHANGED <<feed, sent, left>>

Next ==
  \/ \E f \in ForumUser : Post(f)
  \/ \E u \in User, n \in Notification : Deliver(u, n) \/ Bind(u, n) \/ Hide(u, n)

Spec == Init /\ [][Next]_vars
=============================================================================
