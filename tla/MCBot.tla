------------------------------- MODULE MCBot -------------------------------
(* Instances of Bot for TLC. *)
EXTENDS Bot, TLC

CONSTANTS u1, u2, f1, f2, c1, c2

\* One forum user with two cookies, or two with one each.
OneUid == [c \in {c1, c2} |-> f1]
OneCookie == [c \in {c1} |-> f1]
TwoUids == [c \in {c1, c2} |-> IF c = c1 THEN f1 ELSE f2]

\* Every notification has an id of its own.
Distinct == [n \in Notification |-> n]

\* The first and the third notification of a forum user are about one reply.
FirstIsThird == [n \in Notification |-> <<n[1], IF n[2] = 3 THEN 1 ELSE n[2]>>]

\* The forum users' notifications are about the same replies.
SameReplies == [n \in Notification |-> n[2]]

\* With TwoUids the two forum users may change places, if their cookies do.
Swap == {(f1 :> f2 @@ f2 :> f1 @@ c1 :> c2 @@ c2 :> c1)}
=============================================================================
