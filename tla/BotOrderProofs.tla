---------------------------- MODULE BotOrderProofs ----------------------------
(***************************************************************************)
(* Why no notification is ever passed over, for every set of users, every  *)
(* page size and every bound.  A poll looks at a user's notifications from *)
(* the newest downwards, over pages that shift while it reads them, and    *)
(* sends what is new upwards.  At every step of it, whatever is older than *)
(* a notification it is going to send is delivered, older than the         *)
(* binding, hidden, out of reach, to be sent before, or still to be looked *)
(* at.                                                                     *)
(***************************************************************************)
EXTENDS BotProofs

USE DEF store, forum, locals, ghosts, poller, handler, controller, others

-----------------------------------------------------------------------------
(* The invariant.                                                          *)

\* Nothing has to be done about n any more.
Covered(u, n) == n \in Known(u) \cup hidden[u] \/ OutOfReach(n)

\* What a binding left unsent has no gaps but what was delivered.
HistoryReachesBack ==
  \A u \in User : \A n \in history[u] : \A k \in 1 .. (n[2] - 1) :
    <<n[1], k>> \in sent[u] \cup history[u]

\* The poll may still come to the notification k of its forum user.
ToLookAt(u, k) ==
  \/ At(u, "fetch") /\ k <= Top(job[u].forum, page[u])
  \/ At(u, "check") /\ items[u] # <<>> /\ k <= items[u][1][2]
  \/ At(u, "check") /\ items[u] = <<>> /\ more[u] /\ k <= Top(job[u].forum, page[u] + 1)

Blank(u) == At(u, "rest") => fresh[u] = <<>>

\* What is below the page can still be found on the next one, however much was
\* posted since the page was fetched.
PageJoins(u) ==
  At(u, "check") /\ items[u] # <<>> =>
    /\ \A i \in 1 .. Len(items[u]) : items[u][i] = <<job[u].forum, items[u][1][2] - i + 1>>
    /\ IF more[u]
       THEN items[u][1][2] - Len(items[u]) <= Top(job[u].forum, page[u] + 1)
       ELSE items[u][1][2] = Len(items[u])

Looking(u) == pc[u] \in {"fetch", "check", "send", "record"}

FreshIsClosed(u) ==
  Looking(u) =>
    \A i \in 1 .. Len(fresh[u]) :
      /\ fresh[u][i][1] = job[u].forum
      /\ \A k \in 1 .. (fresh[u][i][2] - 1) :
           \/ Covered(u, <<job[u].forum, k>>)
           \/ \E j \in 1 .. (i - 1) : fresh[u][j] = <<job[u].forum, k>>
           \/ ToLookAt(u, k)

InOrder(u) == Blank(u) /\ PageJoins(u) /\ FreshIsClosed(u)

NothingIsLeftOut == NothingSkipped /\ HistoryReachesBack /\ \A u \in User : InOrder(u)

-----------------------------------------------------------------------------
(* Pages.                                                                  *)

LEMMA TopType ==
  ASSUME ForumTypeOK, NEW f \in ForumUser, NEW p \in Nat \ {0}
  PROVE  Top(f, p) \in Nat
<1>1. (p - 1) * PageSize \in Nat
  BY ForumAssumption
<1> QED BY <1>1 DEF Top, ForumTypeOK

\* A page that has a next one joins it.
LEMMA TopNext ==
  ASSUME ForumTypeOK, NEW f \in ForumUser, NEW p \in Nat \ {0}, Top(f, p) > PageSize
  PROVE  Top(f, p + 1) = Top(f, p) - PageSize
<1> DEFINE m == (p - 1) * PageSize
<1>1. m \in Nat /\ (p + 1 - 1) * PageSize = m + PageSize
  BY ForumAssumption
<1>2. Top(f, p) = IF feed[f] > m THEN feed[f] - m ELSE 0
  BY DEF Top
<1>3. Top(f, p + 1) = IF feed[f] > m + PageSize THEN feed[f] - (m + PageSize) ELSE 0
  BY <1>1 DEF Top
<1> HIDE DEF m
<1> QED BY <1>1, <1>2, <1>3, ForumAssumption DEF ForumTypeOK

LEMMA TopGrows ==
  ASSUME ForumTypeOK, NEW f \in ForumUser, NEW p \in Nat \ {0},
         feed'[f] \in Nat, feed[f] <= feed'[f]
  PROVE  Top(f, p)' \in Nat /\ Top(f, p) <= Top(f, p)'
<1> DEFINE m == (p - 1) * PageSize
<1>1. m \in Nat
  BY ForumAssumption
<1>2. /\ Top(f, p) = IF feed[f] > m THEN feed[f] - m ELSE 0
      /\ Top(f, p)' = IF feed'[f] > m THEN feed'[f] - m ELSE 0
  BY DEF Top
<1> HIDE DEF m
<1> QED BY <1>1, <1>2 DEF ForumTypeOK

\* What follows the last page that poll reads.
LEMMA BelowTheLastPage ==
  ASSUME ForumTypeOK, NEW f \in ForumUser, NEW k \in Nat \ {0},
         NEW p \in Nat \ {0}, p = MaxPages, k <= Top(f, p + 1)
  PROVE  OutOfReach(<<f, k>>)
<1> DEFINE m == p * PageSize
<1>1. m \in Nat /\ (p + 1 - 1) * PageSize = m /\ MaxPages * PageSize = m
  BY ForumAssumption
<1>2. Top(f, p + 1) = IF feed[f] > m THEN feed[f] - m ELSE 0
  BY <1>1 DEF Top
<1> HIDE DEF m
<1>3. k <= feed[f] - m
  BY <1>1, <1>2 DEF ForumTypeOK
<1> QED BY <1>1, <1>3 DEF OutOfReach

LEMMA PageIsRun ==
  ASSUME ForumTypeOK, NEW f \in ForumUser, NEW p \in Nat \ {0}
  PROVE  /\ Len(PageItems(f, p)) = IF Top(f, p) < PageSize THEN Top(f, p) ELSE PageSize
         /\ \A i \in 1 .. Len(PageItems(f, p)) : PageItems(f, p)[i] = <<f, Top(f, p) - i + 1>>
<1> DEFINE n == IF Top(f, p) < PageSize THEN Top(f, p) ELSE PageSize
<1>1. n \in Nat
  BY TopType, ForumAssumption
<1>2. PageItems(f, p) = [i \in 1 .. n |-> <<f, Top(f, p) - i + 1>>]
  BY DEF PageItems
<1> HIDE DEF n
<1>3. Len(PageItems(f, p)) = n
  BY <1>1, <1>2
<1> QED BY <1>2, <1>3 DEF n

-----------------------------------------------------------------------------
(* What only grows.                                                        *)

LEMMA FeedGrows ==
  ASSUME HistoryIsJustified, [Next]_vars, NEW f \in ForumUser
  PROVE  feed[f] \in Nat /\ feed'[f] \in Nat /\ feed[f] <= feed'[f]
<1> USE DEF HistoryIsJustified
<1>1. feed[f] \in Nat
  BY DEF TypeOK, ForumTypeOK
<1>2. CASE UNCHANGED feed
  BY <1>1, <1>2
<1>3. CASE ForumStep
  BY <1>1, <1>2, <1>3 DEF ForumStep, Post, Expire, TypeOK, ForumTypeOK
<1>4. ASSUME NEW u \in User, PollStep(u) PROVE UNCHANGED feed
  BY <1>4, PagesType, DeliveriesType, ErrorsType DEF PollStep, Poll
<1>5. ASSUME NEW u \in User, EnqueueStep(u) \/ ClockStep(u) \/ HandlerStep(u)
      PROVE  UNCHANGED feed
  BY <1>5, EnqueueType, HandleType DEF EnqueueStep, ClockStep, BecomeDue, HandlerStep
<1>6. CASE CommandStep
  <2>1. UNCHANGED feed
    BY <1>6, CommandType, SetGlobalPausedType DEF CommandStep
  <2> QED BY <1>2, <2>1
<1>7. CASE Restart \/ UNCHANGED vars
  BY <1>2, <1>7 DEF Restart, vars
<1> QED BY <1>2, <1>3, <1>4, <1>5, <1>6, <1>7 DEF Next

LEMMA CoveredStays ==
  ASSUME HistoryIsJustified, [Next]_vars, NEW u \in User,
         NEW f \in ForumUser, NEW k \in Nat, Covered(u, <<f, k>>)
  PROVE  Covered(u, <<f, k>>)'
<1>1. Known(u) \subseteq Known(u)' /\ hidden[u] \subseteq hidden'[u]
  BY GhostsGrow DEF HistoryIsJustified, Known
<1>2. OutOfReach(<<f, k>>) => OutOfReach(<<f, k>>)'
  <2> DEFINE m == MaxPages * PageSize
  <2>1. m \in Nat
    BY ForumAssumption, PollerAssumption
  <2>2. /\ OutOfReach(<<f, k>>) <=> k <= feed[f] - m
        /\ OutOfReach(<<f, k>>)' <=> k <= feed'[f] - m
    BY DEF OutOfReach
  <2> HIDE DEF m
  <2> QED BY <2>1, <2>2, FeedGrows
<1> QED BY <1>1, <1>2 DEF Covered

\* The forum user of a poll under way.
LEMMA PollHasForum ==
  ASSUME TypeOK, NEW u \in User, pc[u] # "rest"
  PROVE  job[u].forum \in ForumUser /\ page[u] \in Nat \ {0}
BY PollerAssumption DEF TypeOK, PollerTypeOK, Job

\* A step that leaves the list of what is new alone, and forgets nothing that
\* the poll still has to look at.
LEMMA StillClosed ==
  ASSUME HistoryIsJustified, [Next]_vars, NEW u \in User, FreshIsClosed(u), Looking(u),
         NEW f \in ForumUser, f = job[u].forum, f = job'[u].forum, fresh'[u] = fresh[u],
         \A k \in Nat \ {0} : ToLookAt(u, k) => ToLookAt(u, k)' \/ Covered(u, <<f, k>>)'
  PROVE  FreshIsClosed(u)'
<1> USE DEF HistoryIsJustified
<1>1. \A i \in 1 .. Len(fresh[u]) : fresh[u][i][2] \in Nat
  BY DEF TypeOK, PollerTypeOK, Notification
<1>2. ASSUME NEW i \in 1 .. Len(fresh[u]), NEW k \in 1 .. (fresh[u][i][2] - 1)
      PROVE  \/ Covered(u, <<f, k>>)'
             \/ \E j \in 1 .. (i - 1) : fresh[u][j] = <<f, k>>
             \/ ToLookAt(u, k)'
  <2>1. k \in Nat \ {0}
    BY <1>1
  <2>2. \/ Covered(u, <<f, k>>)
        \/ \E j \in 1 .. (i - 1) : fresh[u][j] = <<f, k>>
        \/ ToLookAt(u, k)
    BY DEF FreshIsClosed
  <2> QED BY <2>1, <2>2, CoveredStays
<1>3. \A i \in 1 .. Len(fresh[u]) : fresh[u][i][1] = f
  BY DEF FreshIsClosed
<1> QED BY <1>2, <1>3 DEF FreshIsClosed

\* A step that does not touch the local variables of a poll.
LEMMA StillInOrder ==
  ASSUME HistoryIsJustified, [Next]_vars, NEW u \in User, InOrder(u),
         UNCHANGED <<pc[u], job[u], page[u], items[u], more[u], fresh[u]>>
  PROVE  InOrder(u)'
<1> USE DEF HistoryIsJustified
<1>1. Blank(u)'
  BY DEF InOrder, Blank, At
<1>2. CASE pc[u] = "rest"
  BY <1>1, <1>2 DEF InOrder, PageJoins, FreshIsClosed, Looking, At
<1>3. CASE pc[u] # "rest"
  <2>1. PICK f \in ForumUser, p \in Nat \ {0} : f = job[u].forum /\ p = page[u]
    BY <1>3, PollHasForum
  <2>2. /\ Top(f, p) \in Nat /\ Top(f, p)' \in Nat /\ Top(f, p) <= Top(f, p)'
        /\ Top(f, p + 1) \in Nat /\ Top(f, p + 1)' \in Nat
        /\ Top(f, p + 1) <= Top(f, p + 1)'
    BY TopType, TopGrows, FeedGrows DEF TypeOK
  <2>3. items[u] \in Seq(Notification) /\ fresh[u] \in Seq(Notification)
    BY DEF TypeOK, PollerTypeOK
  <2>4. PageJoins(u)'
    <3>1. items[u] # <<>> => items[u][1][2] \in Nat /\ Len(items[u]) \in Nat
      BY <2>3 DEF Notification
    <3>2. CASE At(u, "check") /\ items[u] # <<>>
      <4>1. \A i \in 1 .. Len(items[u]) : items[u][i] = <<f, items[u][1][2] - i + 1>>
        BY <2>1, <3>2 DEF InOrder, PageJoins
      <4>2. IF more[u] THEN items[u][1][2] - Len(items[u]) <= Top(f, p + 1)
                       ELSE items[u][1][2] = Len(items[u])
        BY <2>1, <3>2 DEF InOrder, PageJoins
      <4>3. more[u] => items[u][1][2] - Len(items[u]) <= Top(f, p + 1)'
        BY <2>2, <3>1, <3>2, <4>2
      <4> QED BY <2>1, <4>1, <4>2, <4>3 DEF PageJoins
    <3>3. CASE ~ (At(u, "check") /\ items[u] # <<>>)
      BY <3>3 DEF PageJoins, At
    <3> QED BY <3>2, <3>3
  <2>5. ASSUME NEW k \in Nat, ToLookAt(u, k) PROVE ToLookAt(u, k)'
    BY <2>1, <2>2, <2>5 DEF ToLookAt, At
  <2>6. FreshIsClosed(u)'
    <3>1. CASE Looking(u)
      BY <2>1, <2>5, <3>1, StillClosed DEF InOrder
    <3>2. CASE ~ Looking(u)
      BY <3>2 DEF FreshIsClosed, Looking
    <3> QED BY <3>1, <3>2
  <2> QED BY <1>1, <2>4, <2>6 DEF InOrder
<1> QED BY <1>2, <1>3

-----------------------------------------------------------------------------
(* The steps of the poll.                                                  *)

\* The poll is over, or left to handleError.
LEMMA LeftInOrder ==
  ASSUME TypeOK, NEW u \in User,
         Return(u) \/ \E s \in {"retry", "mark", "markWrite", "alert", "trip"} : Goto(u, s)
  PROVE  InOrder(u)'
<1>1. pc'[u] \notin {"fetch", "check", "send", "record"}
  BY DEF Return, Goto, TypeOK, PollerTypeOK
<1>2. pc'[u] = "rest" => fresh'[u] = <<>>
  BY DEF Return, Goto, TypeOK, PollerTypeOK
<1> QED BY <1>1, <1>2 DEF InOrder, Blank, PageJoins, FreshIsClosed, Looking, At

LEMMA StartInOrder ==
  ASSUME TypeOK, NEW u \in User, StartPoll(u), InOrder(u)
  PROVE  InOrder(u)'
<1>1. pc'[u] = "fetch" /\ fresh'[u] = <<>>
  BY DEF StartPoll, Goto, InOrder, Blank, TypeOK, PollerTypeOK
<1> QED BY <1>1 DEF InOrder, Blank, PageJoins, FreshIsClosed, At

\* The page holds what was to be looked at, or its next one will.
LEMMA FetchInOrder ==
  ASSUME HistoryIsJustified, [Next]_vars, NEW u \in User, FetchPage(u), InOrder(u)
  PROVE  InOrder(u)'
<1> USE DEF HistoryIsJustified
<1>1. PICK f \in ForumUser, p \in Nat \ {0} : f = job[u].forum /\ p = page[u]
  BY PollHasForum DEF FetchPage, At
<1>2. /\ items'[u] = PageItems(f, p) /\ more'[u] = HasNext(f, p) /\ pc'[u] = "check"
      /\ f = job'[u].forum /\ p = page'[u] /\ fresh'[u] = fresh[u]
      /\ UNCHANGED feed
  BY <1>1 DEF FetchPage, Goto, TypeOK, PollerTypeOK
<1>3. /\ Top(f, p) \in Nat
      /\ Len(items'[u]) = IF Top(f, p) < PageSize THEN Top(f, p) ELSE PageSize
      /\ \A i \in 1 .. Len(items'[u]) : items'[u][i] = <<f, Top(f, p) - i + 1>>
      /\ items'[u] \in Seq(Notification)
  <2>1. ForumTypeOK
    BY DEF TypeOK
  <2>2. Top(f, p) \in Nat /\ PageItems(f, p) \in Seq(Notification)
    BY <2>1, TopType, PageItemsType
  <2>3. /\ Len(PageItems(f, p)) = IF Top(f, p) < PageSize THEN Top(f, p) ELSE PageSize
        /\ \A i \in 1 .. Len(PageItems(f, p)) : PageItems(f, p)[i] = <<f, Top(f, p) - i + 1>>
    BY <2>1, PageIsRun
  <2> QED BY <1>2, <2>2, <2>3
<1>4. items'[u] # <<>> => items'[u][1] = <<f, Top(f, p)>>
  <2>1. items'[u] # <<>> => 1 \in 1 .. Len(items'[u])
    BY <1>3
  <2> QED BY <1>3, <2>1
<1>5. more'[u] => Top(f, p + 1)' = Top(f, p) - PageSize
  <2>1. Top(f, p + 1)' = Top(f, p + 1)
    BY <1>2 DEF Top
  <2> QED BY <1>2, <2>1, TopNext DEF HasNext, TypeOK
<1>6. PageJoins(u)'
  <2>1. CASE items'[u] = <<>>
    BY <2>1 DEF PageJoins
  <2>2. CASE items'[u] # <<>>
    <3>1. items'[u][1][2] = Top(f, p)
      BY <1>4, <2>2
    <3>2. CASE more'[u]
      <4>1. Top(f, p) > PageSize /\ PageSize \in Nat
        BY <1>2, <3>2, ForumAssumption DEF HasNext
      <4>2. Len(items'[u]) = PageSize
        BY <1>3, <4>1
      <4>3. Top(f, p) - Len(items'[u]) = Top(f, p + 1)'
        BY <1>5, <3>2, <4>2
      <4>4. Top(f, p) - Len(items'[u]) <= Top(f, p + 1)'
        BY <1>3, <4>1, <4>2, <4>3
      <4> QED BY <1>2, <1>3, <3>1, <3>2, <4>4 DEF PageJoins
    <3>3. CASE ~ more'[u]
      <4>1. ~ (Top(f, p) > PageSize)
        BY <1>2, <3>3 DEF HasNext
      <4>2. Top(f, p) = Len(items'[u])
        BY <1>3, <4>1, ForumAssumption
      <4> QED BY <1>2, <1>3, <3>1, <3>3, <4>2 DEF PageJoins
    <3> QED BY <3>2, <3>3
  <2> QED BY <2>1, <2>2
<1>7. ASSUME NEW k \in Nat \ {0}, ToLookAt(u, k) PROVE ToLookAt(u, k)'
  <2>1. k <= Top(f, p)
    BY <1>1, <1>7 DEF ToLookAt, FetchPage, At
  <2>2. items'[u] # <<>>
    BY <1>3, <2>1, ForumAssumption
  <2> QED BY <1>2, <1>4, <2>1, <2>2 DEF ToLookAt, At
<1>8. FreshIsClosed(u)'
  BY <1>1, <1>2, <1>7, StillClosed DEF InOrder, Looking, FetchPage, At
<1> QED BY <1>2, <1>6, <1>8 DEF InOrder, Blank, At

\* A notification that is new heads the list, and what is older than it is
\* further down.
LEMMA CheckNewInOrder ==
  ASSUME HistoryIsJustified, [Next]_vars, NEW u \in User, CheckNew(u), InOrder(u)
  PROVE  InOrder(u)'
<1> USE DEF HistoryIsJustified
<1>1. PICK f \in ForumUser, p \in Nat \ {0} : f = job[u].forum /\ p = page[u]
  BY PollHasForum DEF CheckNew, At
<1>2. /\ pc[u] = "check" /\ items[u] # <<>> /\ items'[u] = Tail(items[u])
      /\ fresh'[u] = <<Head(items[u])>> \o fresh[u]
      /\ pc'[u] = "check" /\ f = job'[u].forum /\ p = page'[u] /\ more'[u] = more[u]
      /\ UNCHANGED feed
  BY <1>1 DEF CheckNew, At, TypeOK, PollerTypeOK
<1>3. items[u] \in Seq(Notification) /\ fresh[u] \in Seq(Notification)
  BY DEF TypeOK, PollerTypeOK
<1>4. /\ \A i \in 1 .. Len(items[u]) : items[u][i] = <<f, items[u][1][2] - i + 1>>
      /\ IF more[u] THEN items[u][1][2] - Len(items[u]) <= Top(f, p + 1)
                    ELSE items[u][1][2] = Len(items[u])
  BY <1>1, <1>2 DEF InOrder, PageJoins, At
<1>5. PICK h \in Nat \ {0} : items[u][1][2] = h /\ Head(items[u]) = <<f, h>>
  <2>1. 1 \in 1 .. Len(items[u]) /\ items[u][1] \in Notification
        /\ Head(items[u]) = items[u][1]
    BY <1>2, <1>3
  <2>2. items[u][1][2] \in Nat \ {0}
    BY <2>1 DEF Notification
  <2>3. items[u][1] = <<f, items[u][1][2]>>
    BY <1>4, <2>1, <2>2
  <2> QED BY <2>1, <2>2, <2>3
<1>6. /\ Len(items[u]) \in Nat \ {0}
      /\ items'[u] \in Seq(Notification) /\ Len(items'[u]) = Len(items[u]) - 1
      /\ \A i \in 1 .. Len(items'[u]) : items'[u][i] = items[u][i + 1]
  BY <1>2, <1>3, HeadTailProperties
<1>7. ASSUME NEW i \in 1 .. Len(items'[u])
      PROVE  items'[u][i] = <<f, h - i>> /\ h - i = (h - 1) - i + 1
  <2>1. i + 1 \in 1 .. Len(items[u])
    BY <1>6
  <2>2. items'[u][i] = items[u][i + 1]
    BY <1>6
  <2>3. items[u][i + 1] = <<f, h - (i + 1) + 1>>
    BY <1>4, <1>5, <2>1
  <2>4. h - (i + 1) + 1 = h - i /\ h - i = (h - 1) - i + 1
    BY <1>6
  <2> QED BY <2>2, <2>3, <2>4
<1>8. items'[u] # <<>> => items'[u][1] = <<f, h - 1>>
  BY <1>6, <1>7
<1>9. Top(f, p + 1) \in Nat /\ Top(f, p + 1)' = Top(f, p + 1)
  <2>1. p + 1 \in Nat \ {0} /\ ForumTypeOK
    BY DEF TypeOK
  <2>2. Top(f, p + 1) \in Nat
    BY <2>1, TopType
  <2>3. Top(f, p + 1)' = Top(f, p + 1)
    BY <1>2 DEF Top
  <2> QED BY <2>2, <2>3
<1>10. PageJoins(u)'
  <2>1. CASE items'[u] # <<>>
    <3>1. items'[u][1][2] = h - 1
      BY <1>8, <2>1
    <3>2. \A i \in 1 .. Len(items'[u]) : items'[u][i] = <<f, (h - 1) - i + 1>>
      BY <1>7
    <3>3. (h - 1) - Len(items'[u]) = h - Len(items[u])
      BY <1>6
    <3>4. IF more'[u] THEN (h - 1) - Len(items'[u]) <= Top(f, p + 1)'
                      ELSE h - 1 = Len(items'[u])
      <4>1. CASE more[u]
        BY <1>2, <1>4, <1>5, <1>9, <3>3, <4>1
      <4>2. CASE ~ more[u]
        BY <1>2, <1>4, <1>5, <1>6, <4>2
      <4> QED BY <1>2, <4>1, <4>2
    <3> QED BY <1>2, <3>1, <3>2, <3>4 DEF PageJoins
  <2>2. CASE items'[u] = <<>>
    BY <2>2 DEF PageJoins
  <2> QED BY <2>1, <2>2
<1>11. ASSUME NEW k \in 1 .. (h - 1) PROVE ToLookAt(u, k)'
  <2>1. CASE items'[u] # <<>>
    <3>1. k <= items'[u][1][2]
      BY <1>8, <2>1
    <3> QED BY <1>2, <2>1, <3>1 DEF ToLookAt, At
  <2>2. CASE items'[u] = <<>>
    <3>1. Len(items[u]) = 1
      BY <1>6, <2>2
    <3>2. more'[u] /\ k <= Top(f, p + 1)'
      BY <1>2, <1>4, <1>5, <1>9, <3>1
    <3> QED BY <1>2, <2>2, <3>2 DEF ToLookAt, At
  <2> QED BY <2>1, <2>2
<1>12. /\ Len(fresh'[u]) = Len(fresh[u]) + 1 /\ Len(fresh[u]) \in Nat
       /\ fresh'[u][1] = <<f, h>>
       /\ \A i \in 2 .. Len(fresh'[u]) : fresh'[u][i] = fresh[u][i - 1]
       /\ \A j \in 1 .. Len(fresh[u]) : fresh'[u][j + 1] = fresh[u][j]
  <2>1. Head(items[u]) \in Notification
    BY <1>2, <1>3, HeadTailProperties
  <2>2. <<Head(items[u])>> \in Seq(Notification)
    BY <2>1
  <2> QED BY <1>2, <1>3, <1>5, <2>1, <2>2
<1>13. ASSUME NEW i \in 1 .. Len(fresh'[u])
       PROVE  /\ fresh'[u][i][1] = f
              /\ \A k \in 1 .. (fresh'[u][i][2] - 1) :
                    \/ Covered(u, <<f, k>>)'
                    \/ \E j \in 1 .. (i - 1) : fresh'[u][j] = <<f, k>>
                    \/ ToLookAt(u, k)'
  <2>1. CASE i = 1
    BY <1>11, <1>12, <2>1
  <2>2. CASE i > 1
    <3>1. i - 1 \in 1 .. Len(fresh[u]) /\ fresh'[u][i] = fresh[u][i - 1]
      BY <1>12, <2>2
    <3>2. fresh[u][i - 1][1] = f /\ fresh[u][i - 1][2] \in Nat
      <4>1. fresh[u][i - 1][1] = f
        BY <1>1, <1>2, <3>1 DEF InOrder, FreshIsClosed, Looking
      <4>2. fresh[u][i - 1] \in Notification
        BY <1>3, <3>1
      <4> QED BY <4>1, <4>2 DEF Notification
    <3>3. ASSUME NEW k \in 1 .. (fresh[u][i - 1][2] - 1)
          PROVE  \/ Covered(u, <<f, k>>)'
                 \/ \E j \in 1 .. (i - 1) : fresh'[u][j] = <<f, k>>
                 \/ ToLookAt(u, k)'
      <4>0. k \in Nat \ {0}
        BY <3>2
      <4>1. \/ Covered(u, <<f, k>>)
            \/ \E j \in 1 .. (i - 1 - 1) : fresh[u][j] = <<f, k>>
            \/ ToLookAt(u, k)
        BY <1>1, <1>2, <3>1 DEF InOrder, FreshIsClosed, Looking
      <4>2. CASE Covered(u, <<f, k>>)
        BY <4>0, <4>2, CoveredStays
      <4>3. CASE \E j \in 1 .. (i - 1 - 1) : fresh[u][j] = <<f, k>>
        <5>1. PICK j \in 1 .. (i - 1 - 1) : fresh[u][j] = <<f, k>>
          BY <4>3
        <5>2. j + 1 \in 1 .. (i - 1) /\ j \in 1 .. Len(fresh[u])
          <6>1. i \in Nat /\ Len(fresh[u]) \in Nat /\ i - 1 <= Len(fresh[u])
            BY <1>12, <3>1
          <6>2. j \in Nat /\ 1 <= j /\ j <= i - 2
            BY <5>1, <6>1
          <6> QED BY ONLY <6>1, <6>2
        <5>3. fresh'[u][j + 1] = <<f, k>>
          BY <1>12, <5>1, <5>2
        <5> QED BY <5>2, <5>3
      <4>4. CASE ToLookAt(u, k)
        <5>1. k <= h
          BY <1>2, <1>5, <4>4 DEF ToLookAt, At
        <5>2. CASE k = h
          <6>1. 1 \in 1 .. (i - 1)
            BY <2>2
          <6> QED BY <1>12, <5>2, <6>1
        <5>3. CASE k # h
          BY <1>11, <4>0, <5>1, <5>3
        <5> QED BY <5>2, <5>3
      <4> QED BY <4>1, <4>2, <4>3, <4>4
    <3> QED BY ONLY <3>1, <3>2, <3>3
  <2>3. i = 1 \/ i > 1
    BY <1>12
  <2> QED BY ONLY <2>1, <2>2, <2>3
<1>14. FreshIsClosed(u)'
  BY <1>2, <1>13 DEF FreshIsClosed
<1> QED BY <1>2, <1>10, <1>14 DEF InOrder, Blank, At

\* Whatever is older than a notification that was dealt with needs nothing.
LEMMA BelowTheKnown ==
  ASSUME NothingIsLeftOut, NEW u \in User,
         NEW f \in ForumUser, NEW h \in Nat \ {0}, <<f, h>> \in Known(u),
         NEW k \in Nat \ {0}, k <= h
  PROVE  Covered(u, <<f, k>>)
<1>1. CASE k = h
  BY <1>1 DEF Covered
<1>2. CASE k # h
  <2>1. k \in 1 .. (h - 1)
    BY <1>2
  <2>2. <<f, h>>[1] = f /\ <<f, h>>[2] = h
    OBVIOUS
  <2>3. CASE <<f, h>> \in sent[u]
    BY <2>1, <2>2, <2>3 DEF NothingIsLeftOut, NothingSkipped, Covered
  <2>4. CASE <<f, h>> \in history[u]
    BY <2>1, <2>2, <2>4 DEF NothingIsLeftOut, HistoryReachesBack, Covered, Known
  <2> QED BY <2>3, <2>4 DEF Known
<1> QED BY <1>1, <1>2

\* Nor does what is older than the notification that ends the search: it was dealt
\* with, or it has the id of one that was, and hides what is below it.
LEMMA BelowTheFound ==
  ASSUME HistoryIsJustified, NothingIsLeftOut, [Next]_vars, NEW u \in User,
         PollStep(u), CheckKnown(u),
         NEW f \in ForumUser, NEW h \in Nat \ {0}, Head(items[u]) = <<f, h>>,
         NEW k \in Nat \ {0}, k <= h
  PROVE  Covered(u, <<f, k>>)'
<1>1. CASE <<f, h>> \in Known(u)
  BY <1>1, BelowTheKnown, CoveredStays
<1>2. CASE <<f, h>> \notin Known(u)
  <2>1. PICK m \in SeenIds(u) : SameId(m, <<f, h>>)
    BY DEF CheckKnown, IsSeen
  <2>2. m \in Known(u)
    BY <2>1 DEF HistoryIsJustified, SeenWasSent
  <2>3. At(u, "check") /\ items[u] # <<>> /\ pc'[u] = "send"
    BY DEF CheckKnown, Goto, HistoryIsJustified, TypeOK, PollerTypeOK
  <2>4. Mistakes(u)
    BY <1>2, <2>1, <2>2, <2>3 DEF Mistakes
  <2>5. hidden' = [hidden EXCEPT ![u] = @ \cup (UpTo(<<f, h>>) \ Known(u))]
    BY <2>4 DEF PollStep
  <2>6. hidden'[u] = hidden[u] \cup (UpTo(<<f, h>>) \ Known(u))
    BY <2>5 DEF HistoryIsJustified, TypeOK
  <2>7. <<f, k>> \in UpTo(<<f, h>>)
    BY DEF UpTo
  <2>8. Known(u) \subseteq Known(u)'
    BY GhostsGrow DEF HistoryIsJustified, Known
  <2> QED BY <2>6, <2>7, <2>8 DEF Covered
<1> QED BY <1>1, <1>2

\* The first known notification ends the search.
LEMMA CheckKnownInOrder ==
  ASSUME HistoryIsJustified, NothingIsLeftOut, [Next]_vars, NEW u \in User,
         PollStep(u), CheckKnown(u)
  PROVE  InOrder(u)'
<1> USE DEF HistoryIsJustified
<1>0. InOrder(u)
  BY DEF NothingIsLeftOut
<1>1. PICK f \in ForumUser, p \in Nat \ {0} : f = job[u].forum /\ p = page[u]
  BY PollHasForum DEF CheckKnown, At
<1>2. /\ pc[u] = "check" /\ items[u] # <<>> /\ pc'[u] = "send"
      /\ f = job'[u].forum /\ fresh'[u] = fresh[u]
  BY <1>1 DEF CheckKnown, At, Goto, TypeOK, PollerTypeOK
<1>3. PICK h \in Nat \ {0} : items[u][1][2] = h /\ Head(items[u]) = <<f, h>>
  <2>1. items[u] \in Seq(Notification)
    BY DEF TypeOK, PollerTypeOK
  <2>2. 1 \in 1 .. Len(items[u]) /\ items[u][1] \in Notification
        /\ Head(items[u]) = items[u][1]
    BY <1>2, <2>1
  <2>3. items[u][1][2] \in Nat \ {0}
    BY <2>2 DEF Notification
  <2>4. items[u][1] = <<f, items[u][1][2]>>
    <3>1. items[u][1] = <<f, items[u][1][2] - 1 + 1>>
      BY <1>0, <1>1, <1>2, <2>2 DEF InOrder, PageJoins, At
    <3> QED BY <2>3, <3>1
  <2> QED BY <2>2, <2>3, <2>4
<1>4. ASSUME NEW k \in Nat \ {0}, ToLookAt(u, k) PROVE Covered(u, <<f, k>>)'
  <2>1. k <= h
    BY <1>2, <1>3, <1>4 DEF ToLookAt, At
  <2> QED BY <1>3, <2>1, BelowTheFound
<1>5. FreshIsClosed(u)'
  BY <1>0, <1>1, <1>2, <1>4, StillClosed DEF InOrder, Looking
<1> QED BY <1>2, <1>5 DEF InOrder, Blank, PageJoins, At

\* The page held nothing known: the next one is read, or there is none, or what
\* it holds is out of reach.
LEMMA TurnInOrder ==
  ASSUME HistoryIsJustified, [Next]_vars, NEW u \in User, TurnPage(u), InOrder(u)
  PROVE  InOrder(u)'
<1> USE DEF HistoryIsJustified
<1>1. PICK f \in ForumUser, p \in Nat \ {0} : f = job[u].forum /\ p = page[u]
  BY PollHasForum DEF TurnPage, At
<1>2. /\ pc[u] = "check" /\ items[u] = <<>> /\ f = job'[u].forum
      /\ fresh'[u] = fresh[u] /\ UNCHANGED feed
  BY <1>1 DEF TurnPage, At, TypeOK, PollerTypeOK
<1>3. CASE more[u] /\ p < MaxPages
  <2>1. pc'[u] = "fetch" /\ page'[u] = p + 1
    BY <1>1, <1>3 DEF TurnPage, Goto, TypeOK, PollerTypeOK
  <2>2. ASSUME NEW k \in Nat \ {0}, ToLookAt(u, k) PROVE ToLookAt(u, k)'
    <3>1. k <= Top(f, p + 1)
      BY <1>1, <1>2, <2>2 DEF ToLookAt, At
    <3>2. Top(f, p + 1)' = Top(f, p + 1)
      BY <1>2 DEF Top
    <3> QED BY <1>2, <2>1, <3>1, <3>2 DEF ToLookAt, At
  <2>3. FreshIsClosed(u)'
    BY <1>1, <1>2, <2>2, StillClosed DEF InOrder, Looking
  <2> QED BY <2>1, <2>3 DEF InOrder, Blank, PageJoins, At
<1>4. CASE ~ (more[u] /\ p < MaxPages)
  <2>1. pc'[u] = "send"
    BY <1>1, <1>4 DEF TurnPage, Goto, TypeOK, PollerTypeOK
  <2>2. ASSUME NEW k \in Nat \ {0}, ToLookAt(u, k) PROVE Covered(u, <<f, k>>)'
    <3>1. more[u] /\ k <= Top(f, p + 1)
      BY <1>1, <1>2, <2>2 DEF ToLookAt, At
    <3>2. p = MaxPages
      BY <1>1, <1>4, <3>1, PollerAssumption DEF TypeOK, PollerTypeOK
    <3>3. Covered(u, <<f, k>>)
      BY <3>1, <3>2, BelowTheLastPage DEF Covered, TypeOK
    <3> QED BY <3>3, CoveredStays
  <2>3. FreshIsClosed(u)'
    BY <1>1, <1>2, <2>2, StillClosed DEF InOrder, Looking
  <2> QED BY <2>1, <2>3 DEF InOrder, Blank, PageJoins, At
<1> QED BY <1>3, <1>4

LEMMA SendInOrder ==
  ASSUME HistoryIsJustified, [Next]_vars, NEW u \in User, Send(u), InOrder(u)
  PROVE  InOrder(u)'
<1> USE DEF HistoryIsJustified
<1>1. PICK f \in ForumUser : f = job[u].forum
  BY PollHasForum DEF Send, At
<1>2. /\ pc[u] = "send" /\ pc'[u] = "record" /\ f = job'[u].forum
      /\ fresh'[u] = fresh[u]
  BY <1>1 DEF Send, At, Goto, TypeOK, PollerTypeOK
<1>3. FreshIsClosed(u)'
  BY <1>1, <1>2, StillClosed DEF InOrder, Looking, ToLookAt, At
<1> QED BY <1>2, <1>3 DEF InOrder, Blank, PageJoins, At

\* What leaves the list has been delivered.
LEMMA RecordInOrder ==
  ASSUME HistoryIsJustified, [Next]_vars, NEW u \in User, Record(u), InOrder(u)
  PROVE  InOrder(u)'
<1> USE DEF HistoryIsJustified
<1>1. PICK f \in ForumUser : f = job[u].forum
  BY PollHasForum DEF Record, At
<1>2. /\ pc[u] = "record" /\ pc'[u] = "send" /\ f = job'[u].forum
      /\ fresh'[u] = Tail(fresh[u])
  BY <1>1 DEF Record, At, Goto, TypeOK, PollerTypeOK
<1>3. fresh[u] \in Seq(Notification) /\ fresh[u] # <<>>
  BY <1>2 DEF TypeOK, PollerTypeOK, RecordedIsSent, At
<1>4. /\ Len(fresh[u]) \in Nat /\ Len(fresh'[u]) = Len(fresh[u]) - 1
      /\ \A i \in 1 .. Len(fresh'[u]) : fresh'[u][i] = fresh[u][i + 1]
  BY <1>2, <1>3, HeadTailProperties
<1>5. fresh[u][1] \in sent[u]
  BY <1>2, <1>3 DEF RecordedIsSent, At
<1>6. ASSUME NEW i \in 1 .. Len(fresh'[u])
      PROVE  /\ fresh'[u][i][1] = f
             /\ \A k \in 1 .. (fresh'[u][i][2] - 1) :
                   \/ Covered(u, <<f, k>>)'
                   \/ \E j \in 1 .. (i - 1) : fresh'[u][j] = <<f, k>>
  <2>1. i + 1 \in 1 .. Len(fresh[u]) /\ fresh'[u][i] = fresh[u][i + 1]
    BY <1>4
  <2>2. fresh[u][i + 1][1] = f /\ fresh[u][i + 1][2] \in Nat
    <3>1. fresh[u][i + 1][1] = f
      BY <1>1, <1>2, <2>1 DEF InOrder, FreshIsClosed, Looking
    <3>2. fresh[u][i + 1] \in Notification
      BY <1>3, <2>1
    <3> QED BY <3>1, <3>2 DEF Notification
  <2>3. ASSUME NEW k \in 1 .. (fresh[u][i + 1][2] - 1)
        PROVE  \/ Covered(u, <<f, k>>)'
               \/ \E j \in 1 .. (i - 1) : fresh'[u][j] = <<f, k>>
    <3>0. k \in Nat \ {0}
      BY <2>2
    <3>1. \/ Covered(u, <<f, k>>)
          \/ \E j \in 1 .. (i + 1 - 1) : fresh[u][j] = <<f, k>>
      <4>1. ~ ToLookAt(u, k)
        BY <1>2 DEF ToLookAt, At
      <4>2. FreshIsClosed(u) /\ Looking(u)
        BY <1>2 DEF InOrder, Looking
      <4>3. \A q \in 1 .. Len(fresh[u]) : \A m \in 1 .. (fresh[u][q][2] - 1) :
              \/ Covered(u, <<f, m>>)
              \/ \E j \in 1 .. (q - 1) : fresh[u][j] = <<f, m>>
              \/ ToLookAt(u, m)
        BY <1>1, <4>2 DEF FreshIsClosed
      <4>4. PICK q \in 1 .. Len(fresh[u]) : q = i + 1
        BY <2>1
      <4>5. k \in 1 .. (fresh[u][q][2] - 1)
        BY <4>4
      <4>6. \/ Covered(u, <<f, k>>)
            \/ \E j \in 1 .. (q - 1) : fresh[u][j] = <<f, k>>
        BY <4>1, <4>3, <4>5
      <4> QED BY ONLY <4>4, <4>6
    <3>2. CASE Covered(u, <<f, k>>)
      BY <3>0, <3>2, CoveredStays
    <3>3. ASSUME NEW j \in 1 .. (i + 1 - 1), fresh[u][j] = <<f, k>>
          PROVE  \/ Covered(u, <<f, k>>)'
                 \/ \E l \in 1 .. (i - 1) : fresh'[u][l] = <<f, k>>
      <4>1. CASE j = 1
        <5>1. Covered(u, <<f, k>>)
          BY <1>5, <3>3, <4>1 DEF Covered, Known
        <5> QED BY <3>0, <5>1, CoveredStays
      <4>2. CASE j # 1
        <5>1. j - 1 \in 1 .. (i - 1) /\ j - 1 \in 1 .. Len(fresh'[u])
          BY <1>4, <4>2
        <5>2. fresh'[u][j - 1] = fresh[u][j]
          BY <1>4, <5>1
        <5> QED BY <3>3, <5>1, <5>2
      <4> QED BY <4>1, <4>2
    <3> QED BY <3>1, <3>2, <3>3
  <2> QED BY <2>1, <2>2, <2>3
<1>7. FreshIsClosed(u)'
  BY <1>2, <1>6 DEF FreshIsClosed
<1> QED BY <1>2, <1>7 DEF InOrder, Blank, PageJoins, At

\* A poll keeps the order of its own notifications.
LEMMA PollInOrder ==
  ASSUME HistoryIsJustified, NothingIsLeftOut, [Next]_vars, NEW u \in User, PollStep(u)
  PROVE  InOrder(u)'
<1>1. TypeOK /\ InOrder(u) /\ Poll(u)
  BY DEF HistoryIsJustified, NothingIsLeftOut, PollStep
<1>2. CASE FetchPage(u) \/ CheckNew(u) \/ CheckKnown(u) \/ TurnPage(u) \/ Send(u) \/ Record(u)
  BY <1>1, <1>2, FetchInOrder, CheckNewInOrder, CheckKnownInOrder, TurnInOrder,
     SendInOrder, RecordInOrder
<1>3. CASE FetchRefused(u) \/ FetchFails(u) \/ CheckFails(u) \/ SendFails(u) \/ RecordFails(u)
  <2>1. Return(u) \/ \E s \in {"retry", "mark", "markWrite", "alert", "trip"} : Goto(u, s)
    BY <1>3 DEF FetchRefused, FetchFails, CheckFails, SendFails, RecordFails
  <2> QED BY <1>1, <2>1, LeftInOrder
<1>4. CASE \/ Finish(u) \/ Retry(u) \/ MarkRead(u) \/ MarkWrite(u) \/ MarkFails(u)
           \/ Alert(u) \/ Trip(u)
  <2>1. Return(u) \/ \E s \in {"retry", "mark", "markWrite", "alert", "trip"} : Goto(u, s)
    BY <1>4 DEF Finish, Retry, Reschedule, MarkRead, MarkWrite, MarkFails, Alert, Trip
  <2> QED BY <1>1, <2>1, LeftInOrder
<1> QED BY <1>1, <1>2, <1>3, <1>4 DEF Poll

\* A poll touches no other poll.
LEMMA PollIsItsOwn ==
  ASSUME TypeOK, NEW u \in User, PollStep(u) \/ StartPoll(u), NEW v \in User, v # u
  PROVE  UNCHANGED <<pc[v], job[v], page[v], items[v], more[v], fresh[v]>>
<1> USE DEF TypeOK, PollerTypeOK, Goto, Return
<1>1. CASE StartPoll(u)
  BY <1>1 DEF StartPoll
<1>2. CASE FetchPage(u) \/ FetchRefused(u) \/ FetchFails(u) \/ CheckFails(u)
  BY <1>2 DEF FetchPage, FetchRefused, FetchFails, CheckFails
<1>3. CASE CheckNew(u) \/ CheckKnown(u) \/ TurnPage(u)
  <2>1. CASE CheckNew(u)
    BY <2>1 DEF CheckNew
  <2>2. CASE CheckKnown(u)
    BY <2>2 DEF CheckKnown
  <2>3. CASE TurnPage(u)
    BY <2>3 DEF TurnPage
  <2> QED BY <1>3, <2>1, <2>2, <2>3
<1>4. CASE Send(u) \/ SendFails(u) \/ Record(u) \/ RecordFails(u)
  BY <1>4 DEF Send, SendFails, Record, RecordFails
<1>5. CASE Finish(u) \/ Retry(u)
  BY <1>5 DEF Finish, Retry, Reschedule
<1>6. CASE MarkRead(u) \/ MarkWrite(u) \/ MarkFails(u) \/ Alert(u) \/ Trip(u)
  BY <1>6 DEF MarkRead, MarkWrite, MarkFails, Alert, Trip
<1> QED BY <1>1, <1>2, <1>3, <1>4, <1>5, <1>6 DEF PollStep, Poll

LEMMA OrderStep ==
  ASSUME HistoryIsJustified, NothingIsLeftOut, [Next]_vars
  PROVE  \A v \in User : InOrder(v)'
<1>0. TypeOK /\ \A v \in User : InOrder(v)
  BY DEF HistoryIsJustified, NothingIsLeftOut
<1>1. ASSUME NEW v \in User, UNCHANGED <<pc[v], job[v], page[v], items[v], more[v], fresh[v]>>
      PROVE  InOrder(v)'
  BY <1>0, <1>1, StillInOrder
<1>2. ASSUME NEW u \in User, PollStep(u), NEW v \in User PROVE InOrder(v)'
  BY <1>0, <1>1, <1>2, PollInOrder, PollIsItsOwn
<1>3. ASSUME NEW u \in User, EnqueueStep(u), NEW v \in User PROVE InOrder(v)'
  <2>1. CASE StartPoll(u)
    BY <1>0, <1>1, <2>1, StartInOrder, PollIsItsOwn
  <2>2. CASE ReadDue(u) \/ PassOver(u)
    BY <1>1, <2>2 DEF ReadDue, PassOver
  <2> QED BY <1>3, <2>1, <2>2 DEF EnqueueStep, Enqueue
<1>4. ASSUME NEW u \in User, ClockStep(u) \/ HandlerStep(u), NEW v \in User
      PROVE  InOrder(v)'
  BY <1>1, <1>4 DEF ClockStep, BecomeDue, HandlerStep
<1>5. CASE CommandStep \/ ForumStep \/ UNCHANGED vars
  BY <1>1, <1>5 DEF CommandStep, ForumStep, vars
<1>6. CASE Restart
  BY <1>6 DEF Restart, ForgetPolls, InOrder, Blank, PageJoins, FreshIsClosed, Looking, At
<1> QED BY <1>2, <1>3, <1>4, <1>5, <1>6 DEF Next

\* What leaves the list first has nothing undelivered before it.
LEMMA SkippedStep ==
  ASSUME HistoryIsJustified, NothingIsLeftOut, [Next]_vars
  PROVE  NothingSkipped'
<1> USE DEF HistoryIsJustified
<1>1. ASSUME NEW v \in User, NEW n \in sent[v], NEW k \in 1 .. (n[2] - 1)
      PROVE  Covered(v, <<n[1], k>>)'
  <2>1. n \in Notification
    BY DEF TypeOK, PollerTypeOK
  <2>2. n[1] \in ForumUser /\ k \in Nat
    BY <2>1 DEF Notification
  <2>3. Covered(v, <<n[1], k>>)
    BY DEF NothingIsLeftOut, NothingSkipped, Covered
  <2> QED BY <2>2, <2>3, CoveredStays
<1>2. ASSUME NEW v \in User, sent'[v] \subseteq sent[v], NEW n \in sent'[v],
             NEW k \in 1 .. (n[2] - 1)
      PROVE  Covered(v, <<n[1], k>>)'
  BY <1>1, <1>2
<1>3. ASSUME NEW u \in User, At(u, "send"), fresh[u] # <<>>, Deliver(u, Head(fresh[u])),
             NEW v \in User, NEW n \in sent'[v], NEW k \in 1 .. (n[2] - 1)
      PROVE  Covered(v, <<n[1], k>>)'
  <2>1. CASE n \in sent[v]
    BY <1>1, <2>1
  <2>2. CASE n \notin sent[v]
    <3>1. v = u /\ n = Head(fresh[u])
      BY <1>3, <2>2 DEF Deliver, TypeOK, PollerTypeOK
    <3>2. fresh[u] \in Seq(Notification)
      BY DEF TypeOK, PollerTypeOK
    <3>3. n = fresh[u][1] /\ 1 \in 1 .. Len(fresh[u]) /\ n \in Notification
      BY <1>3, <3>1, <3>2
    <3>4. PICK f \in ForumUser : f = job[u].forum
      BY <1>3, PollHasForum DEF At
    <3>5. n[1] = f /\ k \in Nat
      BY <1>3, <3>3, <3>4 DEF NothingIsLeftOut, InOrder, FreshIsClosed, Looking, At, Notification
    <3>6. ~ ToLookAt(u, k)
      BY <1>3 DEF ToLookAt, At
    <3>7. Looking(u) /\ FreshIsClosed(u)
      BY <1>3 DEF NothingIsLeftOut, InOrder, Looking, At
    <3>8. Covered(u, <<f, k>>)
      BY <3>3, <3>4, <3>6, <3>7 DEF FreshIsClosed
    <3> QED BY <3>1, <3>5, <3>8, CoveredStays
  <2> QED BY <2>1, <2>2
<1>4. ASSUME UNCHANGED sent PROVE NothingSkipped'
  BY <1>2, <1>4 DEF NothingSkipped, Covered
<1>5. ASSUME NEW u \in User, PollStep(u) PROVE NothingSkipped'
  <2>1. \/ UNCHANGED sent
        \/ At(u, "send") /\ fresh[u] # <<>> /\ Deliver(u, Head(fresh[u]))
    BY <1>5 DEF PollStep, Poll, FetchPage, FetchRefused, FetchFails, CheckNew,
        CheckKnown, CheckFails, TurnPage, Send, SendFails, Record, RecordFails, Finish,
        Retry, Reschedule, MarkRead, MarkWrite, MarkFails, Alert, Trip
  <2> QED BY <1>3, <1>4, <2>1 DEF NothingSkipped, Covered
<1>6. ASSUME NEW u \in User, EnqueueStep(u) \/ ClockStep(u) \/ HandlerStep(u)
      PROVE  UNCHANGED sent
  BY <1>6 DEF EnqueueStep, Enqueue, ReadDue, PassOver, StartPoll, ClockStep, BecomeDue,
              HandlerStep
<1>7. CASE CommandStep \/ ForumStep \/ Restart \/ UNCHANGED vars
  BY <1>4, <1>7 DEF CommandStep, ForumStep, Restart, vars
<1> QED BY <1>4, <1>5, <1>6, <1>7 DEF Next

LEMMA ReachesBackStep ==
  ASSUME HistoryIsJustified, NothingIsLeftOut, [Next]_vars
  PROVE  HistoryReachesBack'
<1>0. TypeOK
  BY DEF HistoryIsJustified
<1>1. ASSUME NEW v \in User, NEW n \in history[v], NEW k \in 1 .. (n[2] - 1)
      PROVE  <<n[1], k>> \in sent'[v] \cup history'[v]
  BY <1>0, GhostsGrow DEF NothingIsLeftOut, HistoryReachesBack
<1>2. CASE UNCHANGED history
  BY <1>1, <1>2 DEF HistoryReachesBack
<1>3. ASSUME NEW u \in User, HandlerStep(u), NewBinding(u) PROVE HistoryReachesBack'
  <2>1. history' = [history EXCEPT ![u] = @ \cup (Earlier(u) \ sent[u])] /\ UNCHANGED sent
    BY <1>3 DEF HandlerStep
  <2>2. ASSUME NEW v \in User, NEW n \in history'[v], NEW k \in 1 .. (n[2] - 1)
        PROVE  <<n[1], k>> \in sent'[v] \cup history'[v]
    <3>1. CASE n \in history[v]
      BY <1>1, <3>1
    <3>2. CASE n \notin history[v]
      <4>1. v = u /\ n \in Earlier(u)
        BY <1>0, <2>1, <3>2 DEF TypeOK
      <4> DEFINE top == Head(latest[u])[2]
      <4>2. latest[u] # <<>> /\ \E i \in 1 .. (top - 1) : n = <<Owner[cred[u]], i>>
        BY <4>1 DEF Earlier
      <4>3. top \in Nat
        <5>1. latest[u] \in Seq(Notification)
          BY <1>0 DEF TypeOK, ControllerTypeOK
        <5>2. Head(latest[u]) \in Notification
          BY <4>2, <5>1, HeadTailProperties
        <5> QED BY <5>2 DEF Notification
      <4>4. PICK i \in 1 .. (top - 1) : n = <<Owner[cred[u]], i>>
        BY <4>2
      <4>5. k \in 1 .. (top - 1)
        <5>1. n[2] = i
          BY <4>4
        <5> HIDE DEF top
        <5> QED BY <4>3, <5>1
      <4>6. <<n[1], k>> \in Earlier(u)
        BY <4>2, <4>4, <4>5 DEF Earlier
      <4> QED BY <1>0, <2>1, <4>1, <4>6 DEF TypeOK
    <3> QED BY <3>1, <3>2
  <2> QED BY <2>2 DEF HistoryReachesBack
<1>4. CASE ~ UNCHANGED history
  BY <1>3, <1>4 DEF Next, vars, PollStep, EnqueueStep, ClockStep, HandlerStep, CommandStep,
                    ForumStep, Restart
<1> QED BY <1>2, <1>4

-----------------------------------------------------------------------------
LEMMA InitLeftOut == Init => NothingIsLeftOut
<1> SUFFICES ASSUME Init PROVE NothingIsLeftOut
  OBVIOUS
<1>1. \A u \in User : /\ sent[u] = {} /\ history[u] = {}
                      /\ pc[u] = "rest" /\ fresh[u] = <<>>
  BY DEF Init, PollerInit, PollerIdle
<1>2. NothingSkipped /\ HistoryReachesBack
  BY <1>1 DEF NothingSkipped, HistoryReachesBack
<1>3. \A u \in User : InOrder(u)
  BY <1>1 DEF InOrder, Blank, PageJoins, FreshIsClosed, Looking, At
<1> QED BY <1>2, <1>3 DEF NothingIsLeftOut

LEMMA NextLeftOut ==
  HistoryIsJustified /\ NothingIsLeftOut /\ [Next]_vars => NothingIsLeftOut'
BY SkippedStep, ReachesBackStep, OrderStep DEF NothingIsLeftOut

\* Whenever a notification has been delivered, every earlier one of the same forum
\* user was delivered too, was there before the binding, lies beyond the pages that
\* poll reads, or was hidden by one with the id of another: whatever the ids are, and
\* through faults between two deliveries, notifications that move to another page
\* during a poll, restarts, and polls that outlive their binding.
THEOREM NeverSkipped == Spec => []NothingSkipped
<1>1. NothingIsLeftOut => NothingSkipped
  BY DEF NothingIsLeftOut
<1> QED BY <1>1, InitLeftOut, NextLeftOut, AlwaysJustified, PTL DEF Spec
=============================================================================
