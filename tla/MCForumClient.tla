---------------------------- MODULE MCForumClient ----------------------------
(* An instance of ForumClient for TLC. *)
EXTENDS ForumClient

CONSTANTS p, q   \* clients

To(host, reply, url) == [host |-> host, path |-> 1, reply |-> reply, url |-> url]

N(whole, kind, content, target) ==
  [whole |-> whole, kind |-> kind, actor |-> kind, content |-> content, time |-> 1,
   target |-> target]

\* A reply, and the longest texts with many and with few places to cut.
Short == N(TRUE, {0, 2}, {0, 3}, To("forum", 5, {0, 4}))
Long == N(TRUE, 0 .. 9, 0 .. 30, To("forum", NoReply, 0 .. 30))
Blocks == N(TRUE, {0, 5}, {0, 6, 12, 30}, NoTarget)

D(login, tab, items) == [login |-> login, tab |-> tab, items |-> items, links |-> {2}]

Docs ==
  {D(FALSE, TRUE, <<>>), D(FALSE, TRUE, <<Short, Long, Blocks>>),
   D(FALSE, TRUE, <<Short, N(FALSE, {0, 2}, {0}, NoTarget)>>),
   D(FALSE, TRUE, <<N(TRUE, {0, 2}, {0, 3}, To("other", 5, {0, 4}))>>),
   D(FALSE, FALSE, <<>>), D(TRUE, FALSE, <<>>)}

NoDoc == D(FALSE, FALSE, <<>>)

A(code, path, large, doc, h) ==
  [code |-> code, path |-> path, large |-> large, doc |-> doc, retryAfter |-> h]

None == [form |-> "none", n |-> 0]

\* A second, two seconds, a number of them that wraps to a past time, a date.
Headers ==
  {None} \cup [form : {"seconds"}, n : {1, 2, 5}] \cup [form : {"date"}, n : {-1, 1}]

AllAnswers ==
  {A(200, "page", FALSE, doc, None) : doc \in Docs}
  \cup {A(200, "login", FALSE, NoDoc, None), A(200, "page", TRUE, NoDoc, None),
        A(403, "page", FALSE, NoDoc, None), A(500, "page", FALSE, NoDoc, None)}
  \cup {A(429, "page", FALSE, NoDoc, h) : h \in Headers}
=============================================================================
