----------------------------- MODULE ForumClient -----------------------------
(***************************************************************************)
(* ForumClient of internal/manager/forum.go: the gate before each request, *)
(* and what is made of each answer.                                        *)
(***************************************************************************)
EXTENDS RequestGate, Page, Message

CONSTANTS
  Answers,     \* what the forum may answer: [code, path, large, doc, retryAfter]
  Nothing      \* no result

\* An item whose texts have lengths.
Item == [whole : BOOLEAN, kind : Text, actor : Text, content : Text, time : Nat,
         target : {NoTarget} \cup [host : {"forum", "other"}, path : Nat,
                                   reply : Nat \cup {NoReply}, url : Text]]

Document == [login : BOOLEAN, tab : BOOLEAN, items : Seq(Item), links : SUBSET Nat]

ASSUME AnswersAssumption ==
  Answers \subseteq [code : Nat, path : {"page", "login"}, large : BOOLEAN,
                     doc : Document, retryAfter : Header]

VARIABLE fetched   \* the latest answer and result, or Nothing once something else happened

client == <<gate, fetched>>

Exchanges == {[answer |-> a, result |-> FetchResult(a, 1)] : a \in Answers}

Limited == {x \in Exchanges : x.result.error = "rate limit"}

ClientTypeOK == GateTypeOK /\ fetched \in Exchanges \cup {Nothing}

ClientInit == GateInit /\ fetched = Nothing

\* FetchPage returns with the answer of the forum.
Receive(c) ==
  \/ \E x \in Limited :
       TooManyRequests(c, x.answer.retryAfter) /\ fetched' = Nothing
  \/ \E x \in Exchanges \ Limited :
       Answered(c) /\ fetched' = x

WaitStep(c) == Wait(c) /\ fetched' = Nothing

ClockStep == Tick /\ fetched' = Nothing

ClientNext ==
  \/ \E c \in Client : WaitStep(c) \/ Receive(c)
  \/ GateStop /\ fetched' = Nothing
  \/ ClockStep

ClientSpec == ClientInit /\ [][ClientNext]_client

\* Goroutines are scheduled, the HTTP client has a timeout, and time passes.
FairClientSpec ==
  /\ ClientSpec
  /\ \A c \in Client : WF_client(at[c] # "idle" /\ (WaitStep(c) \/ Receive(c)))
  /\ WF_client(ClockStep)

-----------------------------------------------------------------------------
(* What has to hold.                                                       *)

\* README.md:69 "全部论坛分页请求共享 3 RPS 限制": in k consecutive ticks no more
\* requests leave than the burst, the tokens earned meanwhile, and one for each
\* client whose goroutine woke up late.
RateIsKept ==
  \A k \in 1 .. Window : recent[k] <= Burst + (k - 1) + Cardinality(Client)

\* README.md:70 "HTTP 429 遵守 Retry-After": a client that was told to wait sends
\* nothing before, whatever shorter Retry-After another client is told later.
OwnRetryAfterIsKept ==
  [][\A c \in Client : at[c] = "queued" /\ at'[c] = "request" => owed[c] = 0]_client

\* README.md:70 "并触发共享冷却": Wait does not look at the cool-down again once it
\* queues, so requests do leave during one; but no client leaves twice before
\* the cool-down is over or raised again.
OnceDuringCooldown ==
  [][\A c \in Client : at[c] = "queued" /\ at'[c] = "request" => c \notin left]_client

\* A client that asks for a page gets an answer or an error, even if others are
\* told to wait again and again, and after a stop too.
EveryFetchEnds == \A c \in Client : at[c] # "idle" ~> at[c] = "idle"

\* README.md:71 and 72: what the forum shows to a client that is not logged in
\* is never taken for a change of its pages, which would pause everybody.
LoggedOutIsNotStructure ==
  fetched # Nothing
    /\ (fetched.answer.code \in {401, 403} \/ fetched.answer.path = "login"
          \/ fetched.answer.doc.login)
    => fetched.result.error # "structure"

\* What is delivered when the page is new to its reader: the items.
Delivered ==
  IF fetched # Nothing /\ fetched.result.error = "none"
  THEN {fetched.answer.doc.items[i] : i \in DOMAIN fetched.answer.doc.items}
  ELSE {}

\* README.md:72 "不更新任何用户的去重状态": a page is understood as a whole or not at
\* all; poll never sees one from which an item is missing.
PageIsWhole ==
  fetched # Nothing =>
    {fetched.result.ids[i] : i \in DOMAIN fetched.result.ids}
      = {notificationID(n) : n \in Delivered}

Link(n) == IF n.target = NoTarget THEN {0} ELSE n.target.url

\* message.go:8: no message is longer than maxMessageBytes, whatever the texts
\* are and however much escaping makes of them; Telegram would refuse it, and
\* poll would retry it for ever and never reach the newer ones.
MessageFits ==
  \A n \in Delivered :
    FormatNotification(n.kind, n.actor, n.content, Link(n)) <= MaxMessage

\* Long names and a long link leave room for the content or its ellipsis.
ContentIsShown ==
  \A n \in Delivered :
    Longest(n.content) > 0 =>
      escapeWithinBytes(n.content, Budget(n.kind, n.actor, Link(n))) > 0
=============================================================================
