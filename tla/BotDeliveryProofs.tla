--------------------------- MODULE BotDeliveryProofs ---------------------------
(***************************************************************************)
(* The bot implements Delivery, for every set of users, every page size    *)
(* and every bound.  That a delivery comes after everything before it is   *)
(* what module BotOrderProofs shows; added here is that whatever is read   *)
(* from a page, listed as new or found by a binding has been posted.       *)
(***************************************************************************)
EXTENDS BotOrderProofs

USE DEF store, forum, locals, ghosts, poller, handler, controller, others

-----------------------------------------------------------------------------
(* The invariant.                                                          *)

Exists(n) == n[2] <= feed[n[1]]

Shown(s) == \A i \in 1 .. Len(s) : Exists(s[i])

NothingInvented == \A u \in User : Shown(items[u]) /\ Shown(fresh[u]) /\ Shown(latest[u])

LEMMA EmptyIsShown == Shown(<<>>)
BY DEF Shown

LEMMA TailIsShown ==
  ASSUME NEW s \in Seq(Notification), s # <<>>, Shown(s)
  PROVE  Shown(Tail(s)) /\ Exists(Head(s))
<1>1. Len(Tail(s)) = Len(s) - 1 /\ Len(s) \in Nat \ {0}
  OBVIOUS
<1>2. ASSUME NEW i \in 1 .. Len(Tail(s)) PROVE Exists(Tail(s)[i])
  <2>1. i + 1 \in 1 .. Len(s) /\ Tail(s)[i] = s[i + 1]
    BY <1>1
  <2> QED BY <2>1 DEF Shown
<1>3. Head(s) = s[1] /\ 1 \in 1 .. Len(s)
  BY <1>1
<1> QED BY <1>2, <1>3 DEF Shown

LEMMA LongerIsShown ==
  ASSUME NEW s \in Seq(Notification), Shown(s), NEW n \in Notification, Exists(n)
  PROVE  Shown(<<n>> \o s)
<1>1. Len(<<n>> \o s) = Len(s) + 1 /\ Len(s) \in Nat
  OBVIOUS
<1>2. ASSUME NEW i \in 1 .. Len(<<n>> \o s) PROVE Exists((<<n>> \o s)[i])
  <2>1. CASE i = 1
    <3>1. (<<n>> \o s)[i] = n
      BY <2>1
    <3> QED BY <3>1
  <2>2. CASE i # 1
    <3>1. i - 1 \in 1 .. Len(s) /\ (<<n>> \o s)[i] = s[i - 1]
      BY <1>1, <2>2
    <3> QED BY <3>1 DEF Shown
  <2> QED BY <2>1, <2>2
<1> QED BY <1>2 DEF Shown

LEMMA PageIsShown ==
  ASSUME TypeOK, NEW f \in ForumUser, NEW p \in Nat \ {0}
  PROVE  Shown(PageItems(f, p))
<1>1. Top(f, p) \in Nat /\ Top(f, p) <= feed[f]
  <2> DEFINE m == (p - 1) * PageSize
  <2>1. m \in Nat
    BY ForumAssumption
  <2>2. Top(f, p) = IF feed[f] > m THEN feed[f] - m ELSE 0
    BY DEF Top
  <2> HIDE DEF m
  <2> QED BY <2>1, <2>2 DEF TypeOK, ForumTypeOK
<1>2. ASSUME NEW i \in 1 .. Len(PageItems(f, p)) PROVE Exists(PageItems(f, p)[i])
  <2>1. PageItems(f, p)[i] = <<f, Top(f, p) - i + 1>>
    BY PageIsRun DEF TypeOK
  <2>2. Len(PageItems(f, p)) \in Nat
    BY <1>1, PageIsRun, ForumAssumption DEF TypeOK
  <2>3. Top(f, p) - i + 1 <= feed[f]
    BY <1>1, <2>2 DEF TypeOK, ForumTypeOK
  <2> QED BY <2>1, <2>3 DEF Exists
<1> QED BY <1>2 DEF Shown

\* What was posted stays posted.
LEMMA ShownStays ==
  ASSUME HistoryIsJustified, [Next]_vars, NEW s \in Seq(Notification), Shown(s)
  PROVE  Shown(s)'
<1>1. ASSUME NEW i \in 1 .. Len(s) PROVE s[i][2] <= feed'[s[i][1]]
  <2>1. s[i][1] \in ForumUser /\ s[i][2] \in Nat /\ s[i][2] <= feed[s[i][1]]
    BY DEF Shown, Exists, Notification
  <2> QED BY <2>1, FeedGrows
<1> QED BY <1>1 DEF Shown, Exists

-----------------------------------------------------------------------------
(* What the steps do to the three lists.                                   *)

LEMMA PollLists ==
  ASSUME TypeOK, NEW u \in User, PollStep(u)
  PROVE  /\ \/ items'[u] = items[u] \/ items'[u] = <<>>
            \/ items[u] # <<>> /\ items'[u] = Tail(items[u])
            \/ \E f \in ForumUser, p \in Nat \ {0} : items'[u] = PageItems(f, p)
         /\ \/ fresh'[u] = fresh[u] \/ fresh'[u] = <<>>
            \/ fresh[u] # <<>> /\ fresh'[u] = Tail(fresh[u])
            \/ items[u] # <<>> /\ fresh'[u] = <<Head(items[u])>> \o fresh[u]
<1> USE DEF TypeOK, PollerTypeOK
<1>1. CASE FetchPage(u)
  <2>1. job[u].forum \in ForumUser /\ page[u] \in Nat \ {0}
    BY <1>1, PollHasForum DEF FetchPage, At
  <2> QED BY <1>1, <2>1 DEF FetchPage
<1>2. CASE FetchRefused(u) \/ FetchFails(u) \/ CheckFails(u) \/ TurnPage(u) \/ Send(u) \/ SendFails(u)
  BY <1>2 DEF FetchRefused, FetchFails, CheckFails, TurnPage, Send, SendFails
<1>3. CASE CheckNew(u) \/ CheckKnown(u)
  BY <1>3 DEF CheckNew, CheckKnown
<1>4. CASE Record(u)
  <2>1. fresh'[u] = Tail(fresh[u]) /\ items'[u] = items[u]
    BY <1>4 DEF Record
  <2>2. fresh[u] = <<>> => Tail(fresh[u]) = <<>>
    OBVIOUS
  <2> QED BY <2>1, <2>2
<1>5. CASE RecordFails(u) \/ Finish(u) \/ Retry(u) \/ MarkFails(u) \/ Alert(u) \/ Trip(u)
  BY <1>5 DEF RecordFails, Finish, Retry, Reschedule, MarkFails, Alert, Trip, Return
<1>6. CASE MarkRead(u) \/ MarkWrite(u)
  BY <1>6 DEF MarkRead, MarkWrite, Return
<1> QED BY <1>1, <1>2, <1>3, <1>4, <1>5, <1>6 DEF PollStep, Poll

LEMMA HandlerLists ==
  ASSUME TypeOK, NEW u \in User, HandlerStep(u)
  PROVE  /\ \A v \in User \ {u} : latest'[v] = latest[v]
         /\ \/ latest'[u] = latest[u] \/ latest'[u] = <<>>
            \/ \E f \in ForumUser : latest'[u] = PageItems(f, 1)
<1> USE DEF TypeOK, ControllerTypeOK
<1>1. CASE Validate(u)
  <2>1. Owner[cred[u]] \in ForumUser
    BY <1>1, ForumAssumption DEF Validate, In
  <2> QED BY <1>1, <2>1 DEF Validate
<1>2. CASE Lookup(u)
  BY <1>2 DEF Lookup
<1>3. CASE \/ ValidateFails(u) \/ Save(u) \/ SaveFails(u)
           \/ StatusWrite(u) \/ StatusWriteFails(u) \/ ScheduleNow(u)
  BY <1>3 DEF ValidateFails, Save, SaveFails, StatusWrite, StatusWriteFails, ScheduleNow, Done
<1> QED BY <1>1, <1>2, <1>3 DEF HandlerStep, Handle

LEMMA NothingInventedStep ==
  HistoryIsJustified /\ NothingInvented /\ [Next]_vars => NothingInvented'
<1> SUFFICES ASSUME HistoryIsJustified, NothingInvented, [Next]_vars PROVE NothingInvented'
  OBVIOUS
<1>0. TypeOK
  BY DEF HistoryIsJustified
<1>1. \A v \in User : /\ items[v] \in Seq(Notification) /\ fresh[v] \in Seq(Notification)
                      /\ latest[v] \in Seq(Notification)
  BY <1>0 DEF TypeOK, PollerTypeOK, ControllerTypeOK
<1>2. ASSUME NEW s \in Seq(Notification), NEW t, t = s \/ t = <<>> \/ (s # <<>> /\ t = Tail(s)),
             Shown(s)
      PROVE  Shown(t) /\ t \in Seq(Notification)
  <2>1. s # <<>> => Shown(Tail(s)) /\ Tail(s) \in Seq(Notification)
    BY <1>2, TailIsShown, HeadTailProperties
  <2>2. <<>> \in Seq(Notification)
    OBVIOUS
  <2> QED BY <1>2, <2>1, <2>2, EmptyIsShown, Zenon
<1>3. ASSUME NEW v \in User,
             items'[v] = items[v] \/ items'[v] = <<>>,
             fresh'[v] = fresh[v] \/ fresh'[v] = <<>>,
             latest'[v] = latest[v] \/ latest'[v] = <<>>
      PROVE  Shown(items[v])' /\ Shown(fresh[v])' /\ Shown(latest[v])'
  <2>1. Shown(items[v]) /\ Shown(fresh[v]) /\ Shown(latest[v])
    BY DEF NothingInvented
  <2>2. Shown(items[v])'
    <3>1. CASE items'[v] = items[v]
      BY <1>1, <2>1, <3>1, ShownStays DEF Shown
    <3>2. CASE items'[v] = <<>>
      BY <3>2 DEF Shown
    <3> QED BY <1>3, <3>1, <3>2
  <2>3. Shown(fresh[v])'
    <3>1. CASE fresh'[v] = fresh[v]
      BY <1>1, <2>1, <3>1, ShownStays DEF Shown
    <3>2. CASE fresh'[v] = <<>>
      BY <3>2 DEF Shown
    <3> QED BY <1>3, <3>1, <3>2
  <2>4. Shown(latest[v])'
    <3>1. CASE latest'[v] = latest[v]
      BY <1>1, <2>1, <3>1, ShownStays DEF Shown
    <3>2. CASE latest'[v] = <<>>
      BY <3>2 DEF Shown
    <3> QED BY <1>3, <3>1, <3>2
  <2> QED BY <2>2, <2>3, <2>4
<1>4. ASSUME NEW u \in User, PollStep(u) PROVE NothingInvented'
  <2>1. UNCHANGED latest
    BY <1>4 DEF PollStep
  <2>2. Shown(items'[u]) /\ items'[u] \in Seq(Notification)
    <3>1. items[u] \in Seq(Notification) /\ Shown(items[u])
      BY <1>1 DEF NothingInvented
    <3>2. ASSUME NEW f \in ForumUser, NEW p \in Nat \ {0}, items'[u] = PageItems(f, p)
          PROVE  Shown(items'[u]) /\ items'[u] \in Seq(Notification)
      BY <1>0, <3>2, PageIsShown, PageItemsType DEF TypeOK
    <3> QED BY <1>0, <1>2, <1>4, <3>1, <3>2, PollLists
  <2>3. Shown(fresh'[u]) /\ fresh'[u] \in Seq(Notification)
    <3>1. fresh[u] \in Seq(Notification) /\ Shown(fresh[u])
      BY <1>1 DEF NothingInvented
    <3>2. CASE items[u] # <<>> /\ fresh'[u] = <<Head(items[u])>> \o fresh[u]
      <4>1. items[u] \in Seq(Notification) /\ Shown(items[u])
        BY <1>1 DEF NothingInvented
      <4>2. Head(items[u]) \in Notification /\ Exists(Head(items[u]))
        BY <3>2, <4>1, TailIsShown, HeadTailProperties
      <4>3. <<Head(items[u])>> \o fresh[u] \in Seq(Notification)
        BY <3>1, <4>2
      <4> QED BY <3>1, <3>2, <4>2, <4>3, LongerIsShown
    <3> QED BY <1>0, <1>2, <1>4, <3>1, <3>2, PollLists
  <2>4. Shown(items[u])' /\ Shown(fresh[u])'
    <3>1. PICK s \in Seq(Notification), t \in Seq(Notification) :
            s = items'[u] /\ t = fresh'[u] /\ Shown(s) /\ Shown(t)
      BY <2>2, <2>3
    <3>2. Shown(s)' /\ Shown(t)'
      BY <3>1, ShownStays
    <3> QED BY <3>1, <3>2 DEF Shown
  <2>5. Shown(latest[u])'
    <3>1. Shown(latest[u])
      BY DEF NothingInvented
    <3> QED BY <1>1, <2>1, <3>1, ShownStays DEF Shown
  <2>6. ASSUME NEW v \in User, v # u
        PROVE  Shown(items[v])' /\ Shown(fresh[v])' /\ Shown(latest[v])'
    BY <1>0, <1>3, <1>4, <2>1, <2>6, PollIsItsOwn
  <2> QED BY <2>4, <2>5, <2>6 DEF NothingInvented
<1>5. ASSUME NEW u \in User, HandlerStep(u) PROVE NothingInvented'
  <2>1. UNCHANGED <<items, fresh>>
    BY <1>5 DEF HandlerStep
  <2>2. CASE latest'[u] = latest[u] \/ latest'[u] = <<>>
    BY <1>0, <1>3, <1>5, <2>1, <2>2, HandlerLists DEF NothingInvented
  <2>3. ASSUME NEW f \in ForumUser, latest'[u] = PageItems(f, 1) PROVE NothingInvented'
    <3>1. PICK s \in Seq(Notification) : s = latest'[u] /\ Shown(s)
      BY <1>0, <2>3, PageIsShown, PageItemsType DEF TypeOK
    <3>2. Shown(s)'
      BY <3>1, ShownStays
    <3>3. Shown(latest[u])'
      BY <3>1, <3>2 DEF Shown
    <3>4. Shown(items[u])' /\ Shown(fresh[u])'
      <4>1. Shown(items[u]) /\ Shown(fresh[u])
        BY DEF NothingInvented
      <4> QED BY <1>1, <2>1, <4>1, ShownStays DEF Shown
    <3>5. ASSUME NEW v \in User, v # u
          PROVE  Shown(items[v])' /\ Shown(fresh[v])' /\ Shown(latest[v])'
      BY <1>0, <1>3, <1>5, <2>1, <3>5, HandlerLists
    <3> QED BY <3>3, <3>4, <3>5 DEF NothingInvented
  <2> QED BY <1>0, <1>5, <2>2, <2>3, HandlerLists
<1>6. CASE UNCHANGED <<items, fresh, latest>>
  BY <1>3, <1>6 DEF NothingInvented
<1>7. ASSUME NEW u \in User, EnqueueStep(u) \/ ClockStep(u)
      PROVE  UNCHANGED <<items, fresh, latest>>
  BY <1>7 DEF EnqueueStep, Enqueue, ReadDue, PassOver, StartPoll, ClockStep, BecomeDue
<1>8. CASE CommandStep
  BY <1>6, <1>8 DEF CommandStep, Command, CredentialReceive, StatusRead, Unbind, Ban, Unban,
                    SetGlobalPaused
<1>9. CASE Restart
  BY <1>3, <1>9 DEF Restart, ForgetPolls, ForgetHandlers, NothingInvented
<1>10. CASE ForumStep \/ UNCHANGED vars
  BY <1>6, <1>10 DEF ForumStep, vars
<1> QED BY <1>4, <1>5, <1>6, <1>7, <1>8, <1>9, <1>10 DEF Next

-----------------------------------------------------------------------------
(* The steps.                                                              *)

\* Everything before the first of the list that is being sent needs nothing.
LEMMA DeliverIsDeliver ==
  ASSUME HistoryIsJustified, NothingIsLeftOut, NothingInvented, NEW u \in User,
         At(u, "send"), fresh[u] # <<>>, Deliver(u, Head(fresh[u])),
         UNCHANGED <<feed, history, hidden>>
  PROVE  Promise!Next
<1> DEFINE n == Head(fresh[u])
<1>1. fresh[u] \in Seq(Notification)
  BY DEF HistoryIsJustified, TypeOK, PollerTypeOK
<1>2. n = fresh[u][1] /\ 1 \in 1 .. Len(fresh[u]) /\ n \in Notification
  BY <1>1
<1>3. Exists(n)
  BY <1>1, TailIsShown DEF NothingInvented
<1>4. job[u].forum \in ForumUser
  BY PollHasForum DEF At, HistoryIsJustified
<1>5. Looking(u) /\ FreshIsClosed(u)
  BY DEF NothingIsLeftOut, InOrder, Looking, At
<1>6. n[1] = job[u].forum
  BY <1>2, <1>5 DEF FreshIsClosed
<1>7. ASSUME NEW k \in 1 .. (n[2] - 1) PROVE Covered(u, <<n[1], k>>)
  <2>1. ~ ToLookAt(u, k)
    BY DEF ToLookAt, At
  <2> QED BY <1>2, <1>5, <1>6, <2>1 DEF FreshIsClosed
<1> HIDE DEF n
<1>8. ASSUME NEW k \in 1 .. (n[2] - 1)
      PROVE  <<n[1], k>> \in sent[u] \cup history[u] \cup hidden[u] \cup Promise!Sunk
  <2>1. <<n[1], k>> \in Notification
    BY <1>2, ForumAssumption DEF Notification
  <2> QED BY <1>7, <2>1 DEF Covered, Known, OutOfReach, Promise!Sunk, Promise!Notification, Notification
<1>9. n \in Promise!Posted
  BY <1>2, <1>3 DEF Exists, Promise!Posted, Promise!Notification, Notification
<1>10. sent' = [sent EXCEPT ![u] = @ \cup {n}]
  BY DEF Deliver, n
<1>11. Promise!Deliver(u, n)
  BY <1>8, <1>9, <1>10 DEF Promise!Deliver, Promise!Before
<1> QED BY <1>2, <1>11 DEF Promise!Next, Promise!Notification, Notification

LEMMA BindingIsBind ==
  ASSUME HistoryIsJustified, NothingInvented, NEW u \in User, HandlerStep(u), NewBinding(u)
  PROVE  Promise!Next \/ UNCHANGED <<feed, sent, history, hidden>>
<1>1. /\ history' = [history EXCEPT ![u] = @ \cup (Earlier(u) \ sent[u])]
      /\ UNCHANGED <<sent, hidden>>
  BY DEF HandlerStep
<1>2. UNCHANGED feed
  BY HandleType DEF HandlerStep, HistoryIsJustified
<1>3. CASE latest[u] = <<>>
  <2>1. Earlier(u) = {}
    BY <1>3 DEF Earlier
  <2>2. history' = history
    BY <1>1, <2>1 DEF HistoryIsJustified, TypeOK
  <2> QED BY <1>1, <1>2, <2>2
<1>4. CASE latest[u] # <<>>
  <2> DEFINE n == Head(latest[u])
  <2>1. latest[u] \in Seq(Notification)
    BY DEF HistoryIsJustified, TypeOK, ControllerTypeOK
  <2>2. n = latest[u][1] /\ 1 \in 1 .. Len(latest[u]) /\ n \in Notification
    BY <1>4, <2>1
  <2>3. n[1] = Owner[cred[u]]
    <3>1. OrderedPage(u) /\ In(u, "bind")
      BY DEF HistoryIsJustified, PageIsInOrder, NewBinding
    <3>2. latest[u][1] = <<Owner[cred[u]], latest[u][1][2] - 1 + 1>>
      BY <2>2, <3>1 DEF OrderedPage
    <3> QED BY <2>2, <3>2
  <2>4. Exists(n)
    BY <1>4, <2>1, TailIsShown DEF NothingInvented
  <2>5. Earlier(u) = Promise!Before(n)
    BY <1>4, <2>3 DEF Earlier, Promise!Before
  <2> HIDE DEF n
  <2>6. n \in Promise!Posted
    BY <2>2, <2>4 DEF Exists, Promise!Posted, Promise!Notification, Notification
  <2>7. Promise!Bind(u, n)
    BY <1>1, <1>2, <2>5, <2>6 DEF Promise!Bind
  <2> QED BY <2>2, <2>7 DEF Promise!Next, Promise!Notification, Notification
<1> QED BY <1>3, <1>4

\* A mistaken id hides what Delivery allows it to hide.
LEMMA MistakeIsHide ==
  ASSUME HistoryIsJustified, NothingInvented, NEW u \in User, PollStep(u), Mistakes(u),
         UNCHANGED <<feed, sent, history>>
  PROVE  Promise!Next
<1> DEFINE n == Head(items[u])
<1>1. items[u] \in Seq(Notification) /\ items[u] # <<>>
  BY DEF Mistakes, HistoryIsJustified, TypeOK, PollerTypeOK
<1>2. n \in Notification /\ Exists(n)
  BY <1>1, TailIsShown, HeadTailProperties DEF NothingInvented
<1>3. n \notin Known(u) /\ \E m \in Known(u) : SameId(m, n)
  BY DEF Mistakes
<1>4. hidden' = [hidden EXCEPT ![u] = @ \cup (UpTo(n) \ Known(u))]
  BY DEF PollStep
<1> HIDE DEF n
<1>5. UpTo(n) = {n} \cup Promise!Before(n)
  <2>1. PICK f \in ForumUser, h \in 1 .. MaxFeed : n = <<f, h>>
    BY <1>2 DEF Notification
  <2>2. n[1] = f /\ n[2] = h /\ h \in Nat \ {0}
    BY <2>1, ForumAssumption
  <2>3. 1 .. h = {h} \cup (1 .. (h - 1))
    BY <2>2
  <2>4. UpTo(n) = {<<f, k>> : k \in 1 .. h}
    BY <2>2 DEF UpTo
  <2>5. Promise!Before(n) = {<<f, k>> : k \in 1 .. (h - 1)}
    BY <2>2 DEF Promise!Before
  <2> QED BY <2>1, <2>3, <2>4, <2>5, Zenon
<1>6. n \in Promise!Posted
  BY <1>2 DEF Exists, Promise!Posted, Promise!Notification, Notification
<1>7. Promise!Hide(u, n)
  BY <1>3, <1>4, <1>5, <1>6 DEF Promise!Hide, Known, SameId
<1> QED BY <1>2, <1>7 DEF Promise!Next, Promise!Notification, Notification

LEMMA DeliveryStep ==
  HistoryIsJustified /\ NothingIsLeftOut /\ NothingInvented /\ [Next]_vars
    => [Promise!Next]_(Promise!vars)
<1> USE DEF Promise!vars
<1> SUFFICES ASSUME HistoryIsJustified, NothingIsLeftOut, NothingInvented, [Next]_vars
             PROVE  Promise!Next \/ UNCHANGED <<feed, sent, history, hidden>>
  OBVIOUS
<1>0. TypeOK
  BY DEF HistoryIsJustified
<1>1. ASSUME NEW u \in User, PollStep(u)
      PROVE  Promise!Next \/ UNCHANGED <<feed, sent, history, hidden>>
  <2>1. UNCHANGED <<feed, history>>
    BY <1>0, <1>1, PagesType, DeliveriesType, ErrorsType
       DEF PollStep, Poll, HistoryIsJustified
  <2>2. \/ UNCHANGED sent
        \/ At(u, "send") /\ fresh[u] # <<>> /\ Deliver(u, Head(fresh[u]))
    BY <1>1 DEF PollStep, Poll, FetchPage, FetchRefused, FetchFails, CheckNew,
        CheckKnown, CheckFails, TurnPage, Send, SendFails, Record, RecordFails, Finish,
        Retry, Reschedule, MarkRead, MarkWrite, MarkFails, Alert, Trip
  <2>3. CASE Mistakes(u)
    <3>1. UNCHANGED sent
      BY <2>2, <2>3 DEF Mistakes, At
    <3> QED BY <1>1, <2>1, <2>3, <3>1, MistakeIsHide
  <2>4. CASE ~ Mistakes(u)
    <3>1. UNCHANGED hidden
      BY <1>1, <2>4 DEF PollStep
    <3> QED BY <2>1, <2>2, <3>1, DeliverIsDeliver
  <2> QED BY <2>3, <2>4
<1>2. ASSUME NEW u \in User, HandlerStep(u)
      PROVE  Promise!Next \/ UNCHANGED <<feed, sent, history, hidden>>
  <2>1. CASE NewBinding(u)
    BY <1>2, <2>1, BindingIsBind
  <2>2. CASE ~ NewBinding(u)
    BY <1>0, <1>2, <2>2, HandleType DEF HandlerStep
  <2> QED BY <2>1, <2>2
<1>3. ASSUME NEW u \in User, EnqueueStep(u) \/ ClockStep(u)
      PROVE  UNCHANGED <<feed, sent, history, hidden>>
  BY <1>3 DEF EnqueueStep, Enqueue, ReadDue, PassOver, StartPoll, ClockStep, BecomeDue
<1>4. CASE CommandStep
  BY <1>4 DEF CommandStep, Command, CredentialReceive, StatusRead, Unbind, Ban, Unban,
              SetGlobalPaused
<1>5. CASE ForumStep
  <2>1. ASSUME NEW f \in ForumUser, Post(f) PROVE Promise!Next
    BY <1>5, <2>1 DEF ForumStep, Post, Promise!Next, Promise!Post
  <2>2. ASSUME NEW c \in Cookie, Expire(c) PROVE UNCHANGED <<feed, sent, history, hidden>>
    BY <1>5, <2>2 DEF ForumStep, Expire
  <2> QED BY <1>5, <2>1, <2>2 DEF ForumStep
<1>6. CASE Restart \/ UNCHANGED vars
  BY <1>6 DEF Restart, vars
<1> QED BY <1>1, <1>2, <1>3, <1>4, <1>5, <1>6 DEF Next

-----------------------------------------------------------------------------
LEMMA InitDelivers == Init => NothingInvented /\ Promise!Init
<1> SUFFICES ASSUME Init PROVE NothingInvented /\ Promise!Init
  OBVIOUS
<1>1. \A u \in User : items[u] = <<>> /\ fresh[u] = <<>> /\ latest[u] = <<>>
  BY DEF Init, PollerInit, PollerIdle, ControllerInit, HandlersIdle
<1>2. NothingInvented
  BY <1>1 DEF NothingInvented, Shown
<1>3. feed \in [ForumUser -> 0 .. MaxFeed]
  BY BotInitType DEF TypeOK, ForumTypeOK
<1> QED BY <1>2, <1>3 DEF Init, PollerInit, Promise!Init

\* For any users, pages and bounds every step of the bot is a step of Delivery or
\* leaves it alone: nothing is delivered that was not posted, and nothing before
\* what comes earlier and no shared id has hidden, whatever polls, bindings, bans,
\* faults and restarts do.
THEOREM BotImplementsDelivery == Spec => ImplementsDelivery
<1>1. Init => Promise!Init /\ NothingInvented /\ NothingIsLeftOut
  BY InitDelivers, InitLeftOut
<1>2. HistoryIsJustified /\ NothingInvented /\ NothingIsLeftOut /\ [Next]_vars =>
        NothingInvented' /\ NothingIsLeftOut'
  BY NothingInventedStep, NextLeftOut
<1>3. HistoryIsJustified /\ NothingIsLeftOut /\ NothingInvented /\ [Next]_vars
        => [Promise!Next]_(Promise!vars)
  BY DeliveryStep
<1> QED BY <1>1, <1>2, <1>3, AlwaysJustified, PTL DEF Spec, ImplementsDelivery, Promise!Spec
=============================================================================
