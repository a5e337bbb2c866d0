-------------------------------- MODULE Bot --------------------------------
(***************************************************************************)
(* The whole bot: the polls of module Poller and the handlers of module    *)
(* Controller share the database of module Store and the forum of module   *)
(* Forum, and the process may be killed and started again at any point.    *)
(***************************************************************************)
EXTENDS Poller, Controller

VARIABLES
  history,     \* [User -> SUBSET Notification]: what a binding found and left unsent
  begun,       \* [User -> Nat]: the bindings to a first or another forum user
  hidden       \* [User -> SUBSET Notification]: what an equal id hid from a poll

vars == <<store, forum, poller, controller, history, begun, hidden>>

TypeOK ==
  /\ ForumTypeOK
  /\ StoreTypeOK
  /\ PollerTypeOK
  /\ ControllerTypeOK
  /\ history \in [User -> SUBSET Notification]
  /\ begun \in [User -> Nat]
  /\ hidden \in [User -> SUBSET Notification]

Init ==
  /\ ForumInit
  /\ StoreInit
  /\ PollerInit
  /\ ControllerInit
  /\ history = [u \in User |-> {}]
  /\ begun = [u \in User |-> 0]
  /\ hidden = [u \in User |-> {}]

\* The process ends, by a signal or a crash, and starts again: the database
\* and the forum are as they were, every poll and every handler is gone.
Restart ==
  /\ Fault
  /\ ForgetPolls
  /\ ForgetHandlers
  /\ UNCHANGED <<store, forum, ghosts, binds, history, begun, hidden>>

others == <<controller, history, begun, hidden>>

\* What has been dealt with.
Known(u) == sent[u] \cup history[u]

\* The step ends the search at a notification that only shares the id of a known one.
Mistakes(u) ==
  /\ At(u, "check") /\ items[u] # <<>> /\ pc'[u] = "send"
  /\ Head(items[u]) \notin Known(u)
  /\ \E m \in Known(u) : SameId(m, Head(items[u]))

\* n and what is older than it.
UpTo(n) == {<<n[1], k>> : k \in 1 .. n[2]}

PollStep(u) ==
  /\ Poll(u)
  /\ hidden' = IF Mistakes(u)
               THEN [hidden EXCEPT ![u] = @ \cup (UpTo(Head(items[u])) \ Known(u))]
               ELSE hidden
  /\ UNCHANGED <<controller, history, begun>>

EnqueueStep(u) == Enqueue(u) /\ UNCHANGED others

ClockStep(u) == BecomeDue(u) /\ UNCHANGED others

\* The handler's step binds u to another forum user than before, or to a first one.
NewBinding(u) ==
  LET f == Owner[cred[u]]
  IN  /\ In(u, "bind")
      /\ Changed(u, f)
      /\ account'[u] # NoAccount
      /\ account'[u].forum = f

\* What the forum user had before the latest notification of the page.
Earlier(u) ==
  IF latest[u] = <<>> THEN {}
  ELSE {<<Owner[cred[u]], k>> : k \in 1 .. (Head(latest[u])[2] - 1)}

HandlerStep(u) ==
  /\ Handle(u)
  /\ UNCHANGED <<batch, pc, locals, faults, sent, repeats, alerts, hidden>>
  /\ IF NewBinding(u)
     THEN /\ history' = [history EXCEPT ![u] = @ \cup (Earlier(u) \ sent[u])]
          /\ begun' = [begun EXCEPT ![u] = @ + 1]
          /\ strays' = [strays EXCEPT ![u] = 0]
     ELSE UNCHANGED <<history, begun, strays>>

CommandStep ==
  /\ (\E u \in User : Command(u)) \/ SetGlobalPaused
  /\ UNCHANGED <<poller, history, begun, hidden>>

ForumStep ==
  /\ (\E f \in ForumUser : Post(f)) \/ (\E c \in Cookie : Expire(c))
  /\ UNCHANGED <<store, poller, others>>

Next ==
  \/ \E u \in User : EnqueueStep(u) \/ PollStep(u) \/ ClockStep(u) \/ HandlerStep(u)
  \/ CommandStep
  \/ ForumStep
  \/ Restart

Spec == Init /\ [][Next]_vars

(***************************************************************************)
(* Fairness: the ticker keeps running enqueue, next_poll_at is reached, a  *)
(* poll and a handler make their next step because each call they make has *)
(* a timeout.  Users, administrators and the forum do as they like.        *)
(***************************************************************************)
Fairness ==
  \A u \in User :
    /\ WF_vars(EnqueueStep(u))
    /\ WF_vars(PollStep(u))
    /\ WF_vars(ClockStep(u))
    /\ WF_vars(HandlerStep(u))

FairSpec == Spec /\ Fairness

-----------------------------------------------------------------------------
(* What has to hold.                                                       *)

\* README.md:73 "Telegram 发送成功后才记录 seen": whatever is in the history of a user
\* was delivered before, or was there when the user bound.
SeenWasSent == \A u \in User : SeenIds(u) \subseteq Known(u)

\* Older than the MaxPages pages that poll looks at.
OutOfReach(n) == n[2] <= feed[n[1]] - MaxPages * PageSize

\* A notification is passed over for no other reason than these: when one has been
\* delivered, every earlier one of the same forum user was delivered too, was there
\* before the binding, lies beyond the pages a poll reads, or was hidden from a poll
\* by an id that is not unique.  Neither a fault between two deliveries, nor a
\* notification that moves to another page during a poll, nor a poll that outlives
\* its binding makes a hole.
NothingSkipped ==
  \A u \in User : \A n \in sent[u] : \A k \in 1 .. (n[2] - 1) :
    <<n[1], k>> \in Known(u) \cup hidden[u] \/ OutOfReach(<<n[1], k>>)

\* The user was bound once and never left since, though the cookie may have been
\* replaced any number of times.
FirstBinding(u) == Bound(u) /\ begun[u] = 1

\* Only what poll did not record can be delivered again: while the forum user has no
\* more than a page, each repeat costs a fault of its own, a restart included.
RepeatsAreFaults ==
  \A u \in User :
    FirstBinding(u) /\ feed[account[u].forum] <= PageSize => repeats[u] <= faults

\* README.md:51 "首次绑定只发送当前最新一条": what is older is not sent, however many polls
\* fail, and whenever the cookie is replaced.
HistoryIsNotSent ==
  \A u \in User : FirstBinding(u) => sent[u] \cap history[u] = {}

\* README.md:71 "只告警一次": a binding is worth one warning, however often the row
\* is marked, paused and resumed in between.
OneWarningPerBinding == \A u \in User : alerts[u] <= binds[u]

\* An account that was deleted takes its history along, and no poll that is
\* still running brings it back.
NoHistoryWithoutAccount == \A u \in User : ~ Bound(u) => seen[u] = <<>>

\* After /unbind or a ban at most the poll that is running and the one that is
\* waiting deliver, one message each: AddSeen fails for want of the row.
FewStrays == \A u \in User : strays[u] <= 2

\* README.md:73 "每用户最多保留最近 2048 条": of deliveries; a baseline may be longer.
HistoryIsBounded ==
  \A u \in User : Len(seen[u]) <= SeenLimit \/ Len(seen[u]) <= PageSize - 1

\* MAX_USERS bounds the accounts, whoever binds at the same time.
WithinCapacity == Cardinality({u \in User : Bound(u)}) <= MaxUsers

\* The bot polls for u and the forum answers.
Serving(u) ==
  /\ Bound(u)
  /\ account[u].status = "active"
  /\ account[u].cookie \in live
  /\ ~ globalPause

\* Every notification that a user's poll can reach is delivered in the end,
\* whatever fails on the way, unless the user stops being served or an id that
\* is not unique hides it.
EverythingArrives ==
  \A u \in User, f \in ForumUser, k \in 1 .. MaxFeed :
    LET n == <<f, k>>
        Owed == Serving(u) /\ account[u].forum = f /\ k <= feed[f]
    IN  Owed ~> (~ Owed \/ n \in Known(u) \cup hidden[u] \/ OutOfReach(n))

\* README.md:71 "Cookie 失效后用户变为 rebind_required，停止轮询": an expired cookie does
\* not stay in an account that is polled.
ExpiryIsNoticed ==
  \A u \in User :
    LET Stale == Bound(u) /\ account[u].status = "active" /\ account[u].cookie \notin live
    IN  (Stale /\ ~ globalPause) ~> (~ Stale \/ globalPause)

-----------------------------------------------------------------------------
(* The bot implements Delivery.                                            *)

Promise == INSTANCE Delivery WITH left <- history, Reach <- MaxPages * PageSize

\* Every step of the bot posts, delivers, binds or mistakes an id as Delivery allows,
\* or leaves it alone.
ImplementsDelivery == Promise!Spec

-----------------------------------------------------------------------------
(* What the documents say and the code does not keep.                      *)

\* controller.go:209 "不能暂停或恢复旧凭据": only a new credential ends rebind_required.
RebindStands ==
  [][\A u \in User :
       Bound(u) /\ account[u].status = "rebind_required" /\ account'[u] # NoAccount
         => account'[u].status = "rebind_required" \/ In(u, "bind")]_vars

\* README.md:71 "Cookie 失效后用户变为 rebind_required": a row in that state holds a
\* cookie that the forum refuses.
RebindIsDeserved ==
  \A u \in User :
    Bound(u) /\ account[u].status = "rebind_required" => account[u].cookie \notin live

\* controller.go:180 "之后自动去重": without faults nothing is sent twice.
NoRepeats == \A u \in User : repeats[u] = 0

\* store_test.go:133 "ban did not remove account".
BannedIsUnbound == \A u \in banned : ~ Bound(u)
=============================================================================
