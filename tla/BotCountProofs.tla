---------------------------- MODULE BotCountProofs ----------------------------
(***************************************************************************)
(* What the bot counts, for every set of users and every bound: a history  *)
(* is trimmed, a binding is worth one warning, and a deleted account two   *)
(* messages at most.                                                       *)
(***************************************************************************)
EXTENDS BotProofs

USE DEF store, forum, locals, ghosts, poller, handler, controller, others

-----------------------------------------------------------------------------
(* The length of a history.                                                *)

PagesFit ==
  \A u \in User : Len(latest[u]) <= PageSize /\ Len(baseline[u]) <= PageSize - 1

LEMMA PageFits ==
  ASSUME ForumTypeOK, NEW f \in ForumUser
  PROVE  Len(PageItems(f, 1)) <= PageSize
<1> DEFINE n == IF Top(f, 1) < PageSize THEN Top(f, 1) ELSE PageSize
<1>1. Top(f, 1) \in Nat
  BY ForumAssumption DEF Top, ForumTypeOK
<1>2. n \in Nat /\ n <= PageSize
  BY <1>1, ForumAssumption
<1>3. Len([i \in 1 .. n |-> <<f, Top(f, 1) - i + 1>>]) = n
  BY <1>2
<1> QED BY <1>2, <1>3 DEF PageItems

LEMMA TrimmedFits ==
  ASSUME NEW S, NEW s \in Seq(S)
  PROVE  Len(Trimmed(s)) <= SeenLimit
<1>1. CASE Len(s) <= SeenLimit
  BY <1>1 DEF Trimmed
<1>2. CASE ~ (Len(s) <= SeenLimit)
  <2> DEFINE m == Len(s) - SeenLimit + 1
  <2>1. m \in 1 .. Len(s) /\ Trimmed(s) = SubSeq(s, m, Len(s))
    BY <1>2, StoreAssumption DEF Trimmed
  <2>2. \A i \in m .. Len(s) : s[i] \in S
    BY <2>1
  <2>3. Len(Trimmed(s)) = Len(s) - m + 1
    BY <2>1, <2>2, SubSeqProperties
  <2> QED BY <2>1, <2>3, StoreAssumption
<1> QED BY <1>1, <1>2

\* The page a binding was validated with, and the baseline taken from it.
LEMMA PagesFitStep == TypeOK /\ PagesFit /\ [Next]_vars => PagesFit'
<1> SUFFICES ASSUME TypeOK, PagesFit, [Next]_vars PROVE PagesFit'
  OBVIOUS
<1> USE DEF PagesFit
<1>1. CASE UNCHANGED <<latest, baseline>>
  BY <1>1
<1>2. ASSUME NEW u \in User, Handle(u) PROVE PagesFit'
  <2>1. CASE Validate(u)
    <3>1. Owner[cred[u]] \in ForumUser
      BY <2>1, ForumAssumption DEF Validate, In, TypeOK, ControllerTypeOK
    <3>2. Len(PageItems(Owner[cred[u]], 1)) <= PageSize
      BY <3>1, PageFits DEF TypeOK
    <3> QED BY <2>1, <3>2 DEF Validate, TypeOK, ControllerTypeOK
  <2>2. CASE Lookup(u)
    <3>1. latest[u] # <<>> => Len(Tail(latest[u])) = Len(latest[u]) - 1
      BY DEF TypeOK, ControllerTypeOK
    <3>2. Len(latest[u]) <= PageSize
      OBVIOUS
    <3>3. \/ baseline'[u] = Tail(latest[u]) /\ latest[u] # <<>>
          \/ baseline'[u] = <<>>
      BY <2>2 DEF Lookup, TypeOK, ControllerTypeOK
    <3>4. Len(baseline'[u]) <= PageSize - 1
      BY <3>1, <3>2, <3>3, ForumAssumption DEF TypeOK, ControllerTypeOK
    <3>5. \A v \in User \ {u} : baseline'[v] = baseline[v]
      BY <2>2 DEF Lookup, TypeOK, ControllerTypeOK
    <3> QED BY <2>2, <3>4, <3>5 DEF Lookup
  <2>3. CASE Done(u)
    <3>1. /\ Len(latest'[u]) = 0 /\ Len(baseline'[u]) = 0
          /\ \A v \in User \ {u} : latest'[v] = latest[v] /\ baseline'[v] = baseline[v]
      BY <2>3 DEF Done, TypeOK, ControllerTypeOK
    <3> QED BY <3>1, ForumAssumption
  <2>4. UNCHANGED <<latest, baseline>> \/ Validate(u) \/ Lookup(u) \/ Done(u)
    BY <1>2 DEF Handle, ValidateFails, Save, SaveFails, StatusWrite,
                StatusWriteFails, ScheduleNow
  <2> QED BY <1>1, <2>1, <2>2, <2>3, <2>4
<1>3. CASE CommandStep
  BY <1>1, <1>3 DEF CommandStep, Command, CredentialReceive, StatusRead, Unbind, Ban,
                    Unban, SetGlobalPaused
<1>4. CASE Restart
  <2>1. \A u \in User : Len(latest'[u]) = 0 /\ Len(baseline'[u]) = 0
    BY <1>4 DEF Restart, ForgetHandlers
  <2> QED BY <2>1, ForumAssumption
<1>5. ASSUME NEW u \in User, EnqueueStep(u) \/ PollStep(u) \/ ClockStep(u)
      PROVE  PagesFit'
  BY <1>1, <1>5 DEF EnqueueStep, PollStep, ClockStep
<1>6. CASE ForumStep \/ UNCHANGED vars
  BY <1>1, <1>6 DEF ForumStep, vars
<1> QED BY <1>2, <1>3, <1>4, <1>5, <1>6 DEF Next, HandlerStep

LEMMA BoundedStep ==
  TypeOK /\ RecordedIsSent /\ PagesFit /\ HistoryIsBounded /\ [Next]_vars => HistoryIsBounded'
<1> SUFFICES ASSUME TypeOK, RecordedIsSent, PagesFit, HistoryIsBounded, [Next]_vars
             PROVE  HistoryIsBounded'
  OBVIOUS
<1> USE DEF HistoryIsBounded
<1>1. CASE UNCHANGED seen
  BY <1>1
<1>2. ASSUME NEW u \in User, Record(u) PROVE HistoryIsBounded'
  <2> DEFINE n == Head(fresh[u])
             s == IF IsSeen(u, n) THEN seen[u] ELSE Append(seen[u], n)
  <2>1. n \in Notification
    BY <1>2, HeadTailProperties DEF Record, RecordedIsSent, TypeOK, PollerTypeOK
  <2>2. s \in Seq(Notification)
    BY <2>1 DEF TypeOK, StoreTypeOK
  <2>3. seen' = [seen EXCEPT ![u] = Trimmed(s)]
    BY <1>2 DEF Record, AddSeen
  <2> HIDE DEF s
  <2>4. Len(Trimmed(s)) <= SeenLimit
    BY <2>2, TrimmedFits
  <2> QED BY <2>3, <2>4 DEF TypeOK, StoreTypeOK
<1>3. ASSUME NEW u \in User, Save(u) PROVE HistoryIsBounded'
  <2>1. CASE InsertAll(u, baseline[u])
    <3>1. baseline[u] \in Seq(Notification) /\ Len(baseline[u]) <= PageSize - 1
      BY DEF PagesFit, TypeOK, ControllerTypeOK
    <3>2. /\ \A v \in User \ {u} : seen'[v] = seen[v]
          /\ Len(seen'[u]) <= Len(baseline[u]) /\ Len(seen'[u]) \in Nat
      BY <2>1, <3>1, InsertAllType DEF TypeOK
    <3>3. Len(seen'[u]) <= PageSize - 1
      BY <3>1, <3>2, ForumAssumption
    <3> QED BY <3>2, <3>3
  <2> QED BY <1>1, <1>3, <2>1 DEF Save, Bind
<1>4. ASSUME NEW u \in User, Unbind(u) \/ Ban(u) PROVE HistoryIsBounded'
  <2>1. seen' = [seen EXCEPT ![u] = <<>>]
    BY <1>4 DEF Unbind, Ban, Delete
  <2> QED BY <2>1, StoreAssumption DEF TypeOK, StoreTypeOK
<1>5. ASSUME NEW u \in User, PollStep(u) PROVE HistoryIsBounded'
  BY <1>1, <1>2, <1>5, PollKeepsSeen
<1>6. ASSUME NEW u \in User, HandlerStep(u) PROVE HistoryIsBounded'
  BY <1>1, <1>3, <1>6 DEF HandlerStep, Handle, Validate, ValidateFails, Lookup, SaveFails,
                          StatusWrite, StatusWriteFails, ScheduleNow
<1>7. CASE CommandStep
  BY <1>1, <1>4, <1>7 DEF CommandStep, Command, CredentialReceive, StatusRead, Unban,
                          SetGlobalPaused
<1>8. ASSUME NEW u \in User, EnqueueStep(u) \/ ClockStep(u) PROVE HistoryIsBounded'
  BY <1>1, <1>8 DEF EnqueueStep, Enqueue, ReadDue, PassOver, StartPoll, ClockStep, BecomeDue
<1>9. CASE ForumStep \/ Restart \/ UNCHANGED vars
  BY <1>1, <1>9 DEF ForumStep, Restart, vars
<1> QED BY <1>5, <1>6, <1>7, <1>8, <1>9 DEF Next

\* README.md:73 "每用户最多保留最近 2048 条": no history is longer than that, or than
\* the page its binding found, through rebinding, refused records and restarts.
THEOREM HistoryStaysBounded == Spec => []HistoryIsBounded
<1>1. Init => PagesFit /\ HistoryIsBounded
  <2> SUFFICES ASSUME Init PROVE PagesFit /\ HistoryIsBounded
    OBVIOUS
  <2>1. \A u \in User : Len(latest[u]) = 0 /\ Len(baseline[u]) = 0 /\ Len(seen[u]) = 0
    BY DEF Init, StoreInit, ControllerInit, HandlersIdle
  <2> QED BY <2>1, ForumAssumption, StoreAssumption DEF PagesFit, HistoryIsBounded
<1>2. HistoryIsJustified => TypeOK /\ RecordedIsSent
  BY DEF HistoryIsJustified
<1> QED BY <1>1, <1>2, PagesFitStep, BoundedStep, AlwaysJustified, PTL DEF Spec

-----------------------------------------------------------------------------
(* The warnings.                                                           *)

One(b) == IF b THEN 1 ELSE 0

\* The row of u still allows a warning.
Unwarned(u) == Bound(u) /\ ~ account[u].alerted

\* A binding pays for the warnings delivered, the one on its way, and the one that
\* an unmarked row allows; MarkRebind has read such a row, or one that has gone.
Paid(u) ==
  /\ alerts[u] + One(At(u, "alert")) + One(Unwarned(u)) <= binds[u]
  /\ At(u, "markWrite") /\ first[u] =>
       alerts[u] + 1 <= binds[u] /\ (Bound(u) => Unwarned(u))

WarningsArePaid == \A u \in User : Paid(u)

\* The updates of a row other than MarkRebind leave the mark alone.
LEMMA UpdateKeepsMark ==
  ASSUME TypeOK, NEW u \in User, NEW row, Update(u, row),
         Bound(u) => row \in Account /\ row.alerted = account[u].alerted, NEW v \in User
  PROVE  (Bound(v)' <=> Bound(v)) /\ (Unwarned(v)' <=> Unwarned(v))
BY NoAccountAssumption DEF TypeOK, StoreTypeOK, Update, Bound, Unwarned

LEMMA ScheduleKeepsMark ==
  ASSUME TypeOK, NEW u \in User, NEW now \in BOOLEAN, Schedule(u, now), NEW v \in User
  PROVE  (Bound(v)' <=> Bound(v)) /\ (Unwarned(v)' <=> Unwarned(v))
<1>1. Bound(u) => LET row == [account[u] EXCEPT !.due = now]
                  IN  row \in Account /\ row.alerted = account[u].alerted
  BY RowType DEF TypeOK, Account
<1> QED BY <1>1, UpdateKeepsMark DEF Schedule

LEMMA SetStatusKeepsMark ==
  ASSUME TypeOK, NEW u \in User, NEW s \in Status, SetStatus(u, s), NEW v \in User
  PROVE  (Bound(v)' <=> Bound(v)) /\ (Unwarned(v)' <=> Unwarned(v))
<1>1. Bound(u) => LET row == [account[u] EXCEPT !.status = s]
                  IN  row \in Account /\ row.alerted = account[u].alerted
  BY RowType DEF TypeOK, Account
<1> QED BY <1>1, UpdateKeepsMark DEF SetStatus

LEMMA PaidType ==
  ASSUME TypeOK, NEW u \in User
  PROVE  /\ alerts[u] \in Nat /\ binds[u] \in Nat
         /\ One(At(u, "alert")) \in {0, 1} /\ One(Unwarned(u)) \in {0, 1}
BY DEF TypeOK, PollerTypeOK, ControllerTypeOK, One

\* What a step may do to a user without a new debt.
LEMMA StillPaid ==
  ASSUME TypeOK, NEW v \in User, Paid(v),
         UNCHANGED <<alerts[v], binds[v]>>,
         At(v, "alert")' => At(v, "alert"),
         At(v, "markWrite")' /\ first'[v] => At(v, "markWrite") /\ first[v],
         Unwarned(v)' => Unwarned(v),
         Bound(v)' => Bound(v) /\ (Unwarned(v) => Unwarned(v)')
  PROVE  Paid(v)'
<1>1. (At(v, "markWrite") /\ first[v])' =>
        (alerts[v] + 1 <= binds[v] /\ (Bound(v) => Unwarned(v)))'
  BY DEF Paid
<1>2. One(At(v, "alert"))' <= One(At(v, "alert")) /\ One(Unwarned(v))' <= One(Unwarned(v))
  BY DEF One
<1>3. /\ One(At(v, "alert"))' \in {0, 1} /\ One(Unwarned(v))' \in {0, 1}
      /\ One(At(v, "alert")) \in {0, 1} /\ One(Unwarned(v)) \in {0, 1}
  BY DEF One
<1>4. (alerts[v] + One(At(v, "alert")) + One(Unwarned(v)) <= binds[v])'
  BY <1>2, <1>3, PaidType DEF Paid
<1> QED BY <1>1, <1>4 DEF Paid

\* A poll touches its own user's warnings only.
LEMMA PollOfAnother ==
  ASSUME TypeOK, NEW u \in User, PollStep(u), NEW v \in User \ {u}
  PROVE  UNCHANGED <<account[v], pc[v], first[v], alerts[v], binds[v], strays[v], batch[v]>>
<1>1. UNCHANGED <<pc[v], first[v], batch[v]>>
  BY DEF PollStep, Poll, FetchPage, FetchRefused, FetchFails, CheckNew, CheckKnown,
    CheckFails, TurnPage, Send, SendFails, Record, RecordFails, Finish, Retry, Reschedule,
    MarkRead, MarkWrite, MarkFails, Alert, Trip, Goto, Return, TypeOK, PollerTypeOK
<1>2. UNCHANGED <<alerts[v], strays[v], binds[v]>>
  BY DEF PollStep, Poll, FetchPage, FetchRefused, FetchFails, CheckNew, CheckKnown,
    CheckFails, TurnPage, Send, SendFails, Record, RecordFails, Finish, Retry, Reschedule,
    MarkRead, MarkWrite, MarkFails, Alert, Trip, Deliver, TypeOK, PollerTypeOK
<1>3. UNCHANGED account \/ MarkRebind(u) \/ Schedule(u, FALSE)
  BY DEF PollStep, Poll, FetchPage, FetchRefused, FetchFails, CheckNew, CheckKnown,
    CheckFails, TurnPage, Send, SendFails, Record, RecordFails, Finish, Retry, Reschedule,
    MarkRead, MarkWrite, MarkFails, Alert, Trip
<1>4. UNCHANGED account[v]
  BY <1>3 DEF MarkRebind, Schedule, Update, TypeOK, StoreTypeOK
<1> QED BY <1>1, <1>2, <1>4

LEMMA PollPays ==
  ASSUME TypeOK, NEW u \in User, PollStep(u), Paid(u)
  PROVE  Paid(u)'
<1>1. CASE MarkRead(u)
  <2>1. UNCHANGED <<alerts[u], binds[u], account>>
    BY <1>1 DEF MarkRead, PollStep
  <2>2. CASE Bound(u)
    <3>1. first'[u] = ~ account[u].alerted /\ At(u, "markWrite")' /\ ~ At(u, "alert")
      BY <1>1, <2>2 DEF MarkRead, Goto, At, TypeOK, PollerTypeOK
    <3>2. ~ At(u, "alert")' /\ (Unwarned(u)' <=> Unwarned(u)) /\ (Bound(u)' <=> Bound(u))
      BY <2>1, <3>1 DEF At, Unwarned, Bound
    <3>3. Unwarned(u) => alerts[u] + 1 <= binds[u]
      BY <3>1, PaidType DEF Paid, One
    <3>4. (alerts[u] + One(At(u, "alert")) + One(Unwarned(u)) <= binds[u])'
      BY <2>1, <3>1, <3>2, PaidType DEF Paid, One
    <3> QED BY <2>1, <2>2, <3>1, <3>2, <3>3, <3>4 DEF Paid, Unwarned
  <2>3. CASE ~ Bound(u)
    <3>1. ~ At(u, "alert")' /\ ~ At(u, "markWrite")'
      BY <1>1, <2>3 DEF MarkRead, Return, Goto, At, TypeOK, PollerTypeOK
    <3> QED BY <2>1, <3>1, StillPaid DEF Unwarned, Bound
  <2> QED BY <2>2, <2>3
<1>2. CASE MarkWrite(u)
  <2>1. UNCHANGED <<alerts[u], binds[u]>> /\ ~ Unwarned(u)' /\ ~ At(u, "markWrite")'
    <3>1. UNCHANGED <<alerts[u], binds[u]>> /\ ~ At(u, "markWrite")'
      BY <1>2 DEF MarkWrite, Goto, Return, At, PollStep, TypeOK, PollerTypeOK
    <3>2. Bound(u) => account[u] \in Account
      BY RowType DEF TypeOK
    <3>3. ~ Unwarned(u)'
      BY <1>2, <3>2 DEF MarkWrite, MarkRebind, Update, Unwarned, Bound, TypeOK, StoreTypeOK,
                        Account
    <3> QED BY <3>1, <3>3
  <2>2. CASE first[u]
    <3>1. alerts[u] + 1 <= binds[u]
      BY <1>2, <2>2 DEF MarkWrite, Paid
    <3> QED BY <2>1, <3>1, PaidType DEF Paid, One
  <2>3. CASE ~ first[u]
    <3>1. ~ At(u, "alert")'
      BY <1>2, <2>3 DEF MarkWrite, Return, Goto, At, TypeOK, PollerTypeOK
    <3> QED BY <2>1, <3>1, PaidType DEF Paid, One
  <2> QED BY <2>2, <2>3
<1>3. CASE Alert(u)
  <2>1. /\ UNCHANGED account /\ UNCHANGED binds[u]
        /\ At(u, "alert") /\ ~ At(u, "alert")' /\ ~ At(u, "markWrite")'
        /\ alerts'[u] \in {alerts[u], alerts[u] + 1}
    BY <1>3 DEF Alert, Return, Goto, At, PollStep, TypeOK, PollerTypeOK
  <2>2. One(Unwarned(u))' = One(Unwarned(u))
    BY <2>1 DEF Unwarned, Bound, One
  <2>3. alerts[u] + 1 + One(Unwarned(u)) <= binds[u]
    BY <2>1 DEF Paid, One
  <2>4. (alerts[u] + One(At(u, "alert")) + One(Unwarned(u)) <= binds[u])'
    BY <2>1, <2>2, <2>3, PaidType DEF One
  <2> QED BY <2>1, <2>4 DEF Paid
<1>4. CASE Reschedule(u)
  <2>1. UNCHANGED <<alerts[u], binds[u]>> /\ ~ At(u, "alert")' /\ ~ At(u, "markWrite")'
    BY <1>4 DEF Reschedule, Return, Goto, At, PollStep, TypeOK, PollerTypeOK
  <2>2. (Bound(u)' <=> Bound(u)) /\ (Unwarned(u)' <=> Unwarned(u))
    BY <1>4, ScheduleKeepsMark DEF Reschedule, Bound, Unwarned
  <2> QED BY <2>1, <2>2, StillPaid
<1>5. CASE ~ MarkRead(u) /\ ~ MarkWrite(u) /\ ~ Alert(u) /\ ~ Reschedule(u)
  <2>1. UNCHANGED <<account, alerts[u], binds[u]>>
    BY <1>5 DEF PollStep, Poll, FetchPage, FetchRefused, FetchFails, CheckNew, CheckKnown,
      CheckFails, TurnPage, Send, SendFails, Record, RecordFails, Finish, Retry,
      MarkFails, Trip, Deliver
  <2>2. /\ At(u, "alert")' => At(u, "alert")
        /\ At(u, "markWrite")' => At(u, "markWrite") /\ first'[u] = first[u]
    BY <1>5 DEF PollStep, Poll, FetchPage, FetchRefused, FetchFails, CheckNew, CheckKnown,
      CheckFails, TurnPage, Send, SendFails, Record, RecordFails, Finish, Retry,
      MarkFails, Trip, Goto, Return, At, TypeOK, PollerTypeOK
  <2> QED BY <2>1, <2>2, StillPaid DEF Unwarned, Bound
<1> QED BY <1>1, <1>2, <1>3, <1>4, <1>5

LEMMA HandlerPays ==
  ASSUME TypeOK, WarningsArePaid, NEW u \in User, HandlerStep(u), NEW v \in User
  PROVE  Paid(v)'
<1>0. Paid(v) /\ UNCHANGED <<pc, first, alerts>>
  BY DEF WarningsArePaid, HandlerStep
<1>1. CASE Save(u)
  <2>1. CASE v = u
    <3>1. binds'[u] = binds[u] + 1 /\ UNCHANGED alerts[u]
      BY <1>0, <1>1 DEF Save, TypeOK, ControllerTypeOK
    <3>2. Unwarned(u)'
      <4> DEFINE row == [forum |-> Owner[cred[u]], cookie |-> cred[u], status |-> "active",
                         due |-> TRUE, alerted |-> FALSE]
      <4>1. account' = [account EXCEPT ![u] = row]
        BY <1>1 DEF Save, Bind
      <4>2. account'[u] = row
        BY <4>1 DEF TypeOK, StoreTypeOK
      <4> QED BY <1>1, <4>2, SaveBinds DEF Unwarned
    <3>3. alerts[u] + One(At(u, "alert")) <= binds[u]
      BY <1>0, <2>1, PaidType DEF Paid, One
    <3>4. One(At(u, "alert"))' = One(At(u, "alert")) /\ One(Unwarned(u))' = 1
      BY <1>0, <3>2 DEF One, At
    <3>5. /\ (alerts[u] + One(At(u, "alert")) + One(Unwarned(u)) <= binds[u])'
          /\ (alerts[u] + 1 <= binds[u])'
      BY <3>1, <3>3, <3>4, PaidType
    <3> QED BY <2>1, <3>2, <3>5 DEF Paid
  <2>2. CASE v # u
    <3>1. UNCHANGED <<account[v], binds[v]>>
      BY <1>1, <2>2 DEF Save, Bind, TypeOK, StoreTypeOK, ControllerTypeOK
    <3> QED BY <1>0, <3>1, StillPaid DEF At, Unwarned, Bound
  <2> QED BY <2>1, <2>2
<1>2. CASE ~ Save(u)
  <2>1. UNCHANGED binds
    BY <1>2 DEF HandlerStep, Handle, Validate, ValidateFails, Lookup, SaveFails,
                StatusWrite, StatusWriteFails, ScheduleNow
  <2>2. (Bound(v)' <=> Bound(v)) /\ (Unwarned(v)' <=> Unwarned(v))
    <3>1. CASE StatusWrite(u)
      BY <3>1, SetStatusKeepsMark DEF StatusWrite, TypeOK, ControllerTypeOK, Status
    <3>2. CASE ScheduleNow(u)
      <4>1. Schedule(u, TRUE) \/ UNCHANGED account
        BY <3>2 DEF ScheduleNow
      <4> QED BY <4>1, ScheduleKeepsMark DEF Bound, Unwarned
    <3>3. CASE UNCHANGED account
      BY <3>3 DEF Bound, Unwarned
    <3> QED BY <1>2, <3>1, <3>2, <3>3
            DEF HandlerStep, Handle, Validate, ValidateFails, Lookup, SaveFails,
                StatusWriteFails
  <2> QED BY <1>0, <2>1, <2>2, StillPaid DEF At
<1> QED BY <1>1, <1>2

LEMMA WarningsStep == TypeOK /\ WarningsArePaid /\ [Next]_vars => WarningsArePaid'
<1> SUFFICES ASSUME TypeOK, WarningsArePaid, [Next]_vars, NEW v \in User PROVE Paid(v)'
  BY DEF WarningsArePaid
<1>0. Paid(v)
  BY DEF WarningsArePaid
<1>1. CASE UNCHANGED <<account, pc, first, alerts, binds>>
  BY <1>0, <1>1, StillPaid DEF At, Unwarned, Bound
<1>2. ASSUME NEW u \in User, PollStep(u) PROVE Paid(v)'
  <2>1. CASE v = u
    BY <1>0, <1>2, <2>1, PollPays
  <2>2. CASE v # u
    <3>1. UNCHANGED <<account[v], pc[v], first[v], alerts[v], binds[v]>>
      BY <1>2, <2>2, PollOfAnother
    <3> QED BY <1>0, <3>1, StillPaid DEF At, Unwarned, Bound
  <2> QED BY <2>1, <2>2
<1>3. ASSUME NEW u \in User, HandlerStep(u) PROVE Paid(v)'
  BY <1>3, HandlerPays
<1>4. ASSUME NEW u \in User, EnqueueStep(u) PROVE Paid(v)'
  <2>1. UNCHANGED <<account, first, alerts, binds>> /\ (~ UNCHANGED pc => StartPoll(u))
    BY <1>4 DEF EnqueueStep, Enqueue, ReadDue, PassOver, StartPoll
  <2>2. (At(v, "alert")' => At(v, "alert")) /\ (At(v, "markWrite")' => At(v, "markWrite"))
    BY <2>1 DEF StartPoll, Goto, At, TypeOK, PollerTypeOK
  <2> QED BY <1>0, <2>1, <2>2, StillPaid DEF Unwarned, Bound
<1>5. ASSUME NEW u \in User, ClockStep(u) PROVE Paid(v)'
  <2>1. UNCHANGED <<pc, first, alerts, binds>> /\ Schedule(u, TRUE)
    BY <1>5 DEF ClockStep, BecomeDue
  <2>2. (Bound(v)' <=> Bound(v)) /\ (Unwarned(v)' <=> Unwarned(v))
    BY <2>1, ScheduleKeepsMark
  <2> QED BY <1>0, <2>1, <2>2, StillPaid DEF At
<1>6. CASE CommandStep
  <2>1. UNCHANGED <<pc, first, alerts, binds>>
    BY <1>6 DEF CommandStep, Command, CredentialReceive, StatusRead, Unbind, Ban, Unban,
                SetGlobalPaused
  <2>2. UNCHANGED account \/ \E u \in User : account' = [account EXCEPT ![u] = NoAccount]
    BY <1>6 DEF CommandStep, Command, CredentialReceive, StatusRead, Unbind, Ban, Unban,
                SetGlobalPaused, Delete
  <2>3. UNCHANGED account[v] \/ account'[v] = NoAccount
    BY <2>2 DEF TypeOK, StoreTypeOK
  <2> QED BY <1>0, <2>1, <2>3, StillPaid DEF At, Unwarned, Bound
<1>7. CASE Restart
  <2>1. UNCHANGED <<account, alerts, binds>> /\ pc'[v] = "rest"
    BY <1>7 DEF Restart, ForgetPolls
  <2> QED BY <1>0, <2>1, StillPaid DEF At, Unwarned, Bound
<1>8. CASE ForumStep \/ UNCHANGED vars
  BY <1>1, <1>8 DEF ForumStep, vars
<1> QED BY <1>2, <1>3, <1>4, <1>5, <1>6, <1>7, <1>8 DEF Next

\* README.md:71 "只告警一次": a binding is worth one warning, although MarkRebind reads
\* and writes the mark in two statements, with bindings, commands and restarts in between.
THEOREM OneWarning == Spec => []OneWarningPerBinding
<1>1. Init => WarningsArePaid
  <2> SUFFICES ASSUME Init, NEW u \in User PROVE Paid(u)
    BY DEF WarningsArePaid
  <2>1. pc[u] = "rest" /\ alerts[u] = 0 /\ binds[u] = 0 /\ ~ Bound(u)
    BY DEF Init, StoreInit, PollerInit, PollerIdle, ControllerInit, Bound
  <2> QED BY <2>1 DEF Paid, One, At, Unwarned
<1>2. TypeOK /\ WarningsArePaid => OneWarningPerBinding
  <2> SUFFICES ASSUME TypeOK, WarningsArePaid, NEW u \in User PROVE alerts[u] <= binds[u]
    BY DEF OneWarningPerBinding
  <2> QED BY PaidType DEF WarningsArePaid, Paid
<1> QED BY <1>1, <1>2, WarningsStep, BotTypeCorrect, PTL DEF Spec

-----------------------------------------------------------------------------
(* The messages after an unbinding.                                        *)

CanSend(u) == At(u, "fetch") \/ At(u, "check") \/ At(u, "send")

\* As long as there is a row nothing is stray.  Without one, the waiting row and the
\* poll that is running can still send one message each: none gets past Record.
Spare(u) ==
  /\ Bound(u) => strays[u] = 0
  /\ strays[u] + One(batch[u] # NoJob) + One(CanSend(u)) <= 2

StraysAreFew == \A u \in User : Spare(u)

LEMMA SpareType ==
  ASSUME TypeOK, NEW u \in User
  PROVE  strays[u] \in Nat /\ One(batch[u] # NoJob) \in {0, 1} /\ One(CanSend(u)) \in {0, 1}
BY DEF TypeOK, PollerTypeOK, One

LEMMA StillSpare ==
  ASSUME TypeOK, NEW v \in User, Spare(v),
         UNCHANGED strays[v],
         Bound(v)' => Bound(v),
         Bound(v) \/ (((batch[v] # NoJob)' => batch[v] # NoJob) /\ (CanSend(v)' => CanSend(v)))
  PROVE  Spare(v)'
<1>1. CASE Bound(v)
  BY <1>1, SpareType DEF Spare, One
<1>2. CASE ~ Bound(v)
  <2>1. /\ One(batch[v] # NoJob)' <= One(batch[v] # NoJob)
        /\ One(CanSend(v))' <= One(CanSend(v))
    BY <1>2 DEF One
  <2>2. /\ One(batch[v] # NoJob)' \in {0, 1} /\ One(CanSend(v))' \in {0, 1}
        /\ One(batch[v] # NoJob) \in {0, 1} /\ One(CanSend(v)) \in {0, 1}
    BY DEF One
  <2>3. (strays[v] + One(batch[v] # NoJob) + One(CanSend(v)) <= 2)'
    BY <2>1, <2>2, SpareType DEF Spare
  <2> QED BY <1>2, <2>3 DEF Spare
<1> QED BY <1>1, <1>2

\* With the row there, or with a message less to come, a delivery is in order.
LEMMA SendSpares ==
  ASSUME TypeOK, NEW u \in User, Spare(u), At(u, "send"), ~ CanSend(u)',
         (\E n \in {Head(fresh[u])} : Deliver(u, n)) \/ UNCHANGED ghosts, UNCHANGED <<account, batch>>
  PROVE  Spare(u)'
<1>1. Bound(u)' <=> Bound(u)
  BY DEF Bound
<1>2. CASE UNCHANGED strays[u]
  BY <1>1, <1>2, StillSpare
<1>3. CASE ~ Bound(u) /\ strays'[u] = strays[u] + 1
  <2>1. strays[u] + One(batch[u] # NoJob) + 1 <= 2
    BY SpareType DEF Spare, CanSend, One
  <2>2. One(batch[u] # NoJob)' = One(batch[u] # NoJob) /\ One(CanSend(u))' = 0
    BY DEF One
  <2> QED BY <1>1, <1>3, <2>1, <2>2, SpareType DEF Spare
<1>4. UNCHANGED strays[u] \/ (~ Bound(u) /\ strays'[u] = strays[u] + 1)
  BY DEF Deliver, TypeOK, PollerTypeOK
<1> QED BY <1>2, <1>3, <1>4

LEMMA PollSpares ==
  ASSUME TypeOK, NEW u \in User, PollStep(u), Spare(u)
  PROVE  Spare(u)'
<1>0. UNCHANGED batch[u] /\ (Bound(u)' <=> Bound(u))
  BY PollKeepsRows DEF PollStep, Poll, FetchPage, FetchRefused, FetchFails, CheckNew,
    CheckKnown, CheckFails, TurnPage, Send, SendFails, Record, RecordFails, Finish, Retry,
    Reschedule, MarkRead, MarkWrite, MarkFails, Alert, Trip, Return
<1>1. CASE Send(u) \/ SendFails(u)
  <2>1. At(u, "send") /\ ~ CanSend(u)'
    BY <1>1 DEF Send, SendFails, Goto, At, CanSend, TypeOK, PollerTypeOK
  <2>2. /\ (\E n \in {Head(fresh[u])} : Deliver(u, n)) \/ UNCHANGED ghosts
        /\ UNCHANGED <<account, batch>>
    BY <1>1 DEF Send, SendFails
  <2> QED BY <2>1, <2>2, SendSpares
<1>2. CASE ~ Send(u) /\ ~ SendFails(u)
  <2>1. UNCHANGED strays[u]
    BY <1>2 DEF PollStep, Poll, FetchPage, FetchRefused, FetchFails, CheckNew,
      CheckKnown, CheckFails, TurnPage, Record, RecordFails, Finish, Retry, Reschedule,
      MarkRead, MarkWrite, MarkFails, Alert, Trip
  <2>2. CASE Record(u)
    <3>1. Bound(u)
      BY <2>2 DEF Record, AddSeen
    <3> QED BY <1>0, <2>1, <3>1, StillSpare
  <2>3. CASE ~ Record(u)
    <3>1. CanSend(u)' => CanSend(u)
      BY <1>2, <2>3 DEF PollStep, Poll, FetchPage, FetchRefused, FetchFails, CheckNew,
        CheckKnown, CheckFails, TurnPage, RecordFails, Finish, Retry, Reschedule,
        MarkRead, MarkWrite, MarkFails, Alert, Trip, Goto, Return, CanSend, At,
        TypeOK, PollerTypeOK
    <3> QED BY <1>0, <2>1, <3>1, StillSpare
  <2> QED BY <2>2, <2>3
<1> QED BY <1>1, <1>2

LEMMA EnqueueSpares ==
  ASSUME TypeOK, NEW u \in User, EnqueueStep(u), NEW v \in User, Spare(v)
  PROVE  Spare(v)'
<1>0. UNCHANGED <<strays, account>> /\ (Bound(v)' <=> Bound(v))
  BY DEF EnqueueStep, Enqueue, ReadDue, PassOver, StartPoll, Bound
<1>1. CASE v # u
  <2>1. UNCHANGED <<batch[v], pc[v]>>
    BY <1>1 DEF EnqueueStep, Enqueue, ReadDue, PassOver, StartPoll, Goto, TypeOK, PollerTypeOK
  <2> QED BY <1>0, <2>1, StillSpare DEF CanSend, At
<1>2. CASE v = u /\ ReadDue(u)
  <2>1. Bound(u)
    BY <1>2 DEF ReadDue, Due
  <2> QED BY <1>0, <1>2, <2>1, StillSpare
<1>3. CASE v = u /\ PassOver(u)
  <2>1. batch'[u] = NoJob /\ UNCHANGED pc
    BY <1>3 DEF PassOver, TypeOK, PollerTypeOK
  <2> QED BY <1>0, <1>3, <2>1, StillSpare DEF CanSend, At
<1>4. CASE v = u /\ StartPoll(u)
  <2>1. batch[u] # NoJob /\ batch'[u] = NoJob /\ ~ CanSend(u)
    BY <1>4 DEF StartPoll, CanSend, At, TypeOK, PollerTypeOK
  <2>2. One(batch[u] # NoJob) = 1 /\ One(batch[u] # NoJob)' = 0 /\ One(CanSend(u)) = 0
    BY <2>1 DEF One
  <2>3. One(CanSend(u))' \in {0, 1}
    BY DEF One
  <2> QED BY <1>0, <1>4, <2>2, <2>3, SpareType DEF Spare
<1> QED BY <1>1, <1>2, <1>3, <1>4 DEF EnqueueStep, Enqueue

\* A first binding, and one to another forum user, start the count again.
LEMMA HandlerSpares ==
  ASSUME TypeOK, NEW u \in User, HandlerStep(u), NEW v \in User, Spare(v)
  PROVE  Spare(v)'
<1>0. UNCHANGED <<batch, pc>>
  BY DEF HandlerStep
<1>1. CASE NewBinding(u) /\ v = u
  <2>1. strays'[u] = 0
    BY <1>1 DEF HandlerStep, TypeOK, PollerTypeOK
  <2>2. One(batch[u] # NoJob)' \in {0, 1} /\ One(CanSend(u))' \in {0, 1}
    BY DEF One
  <2> QED BY <1>1, <2>1, <2>2 DEF Spare
<1>2. CASE ~ (NewBinding(u) /\ v = u)
  <2>1. UNCHANGED strays[v]
    BY <1>2 DEF HandlerStep, TypeOK, PollerTypeOK
  <2>2. Bound(v)' => Bound(v)
    <3>1. CASE Save(u)
      <4>1. v = u => Bound(u)
        BY <1>2, <3>1, SaveBinds DEF NewBinding, Save, Changed, Bound
      <4> QED BY <3>1, <4>1, SaveBinds
    <3>2. CASE StatusWrite(u)
      BY <3>2, SetStatusType DEF StatusWrite, TypeOK, ControllerTypeOK, Status
    <3>3. CASE ScheduleNow(u)
      <4>1. Schedule(u, TRUE) \/ UNCHANGED account
        BY <3>3 DEF ScheduleNow
      <4> QED BY <4>1, ScheduleType DEF TypeOK, Bound
    <3>4. CASE UNCHANGED account
      BY <3>4 DEF Bound
    <3> QED BY <3>1, <3>2, <3>3, <3>4
            DEF HandlerStep, Handle, Validate, ValidateFails, Lookup, SaveFails,
                StatusWriteFails
  <2> QED BY <1>0, <2>1, <2>2, StillSpare DEF CanSend, At
<1> QED BY <1>1, <1>2

LEMMA StraysStep == TypeOK /\ StraysAreFew /\ [Next]_vars => StraysAreFew'
<1> SUFFICES ASSUME TypeOK, StraysAreFew, [Next]_vars, NEW v \in User PROVE Spare(v)'
  BY DEF StraysAreFew
<1>0. Spare(v)
  BY DEF StraysAreFew
<1>1. CASE UNCHANGED <<account, batch, pc, strays>>
  BY <1>0, <1>1, StillSpare DEF CanSend, At, Bound
<1>2. ASSUME NEW u \in User, PollStep(u) PROVE Spare(v)'
  <2>1. CASE v = u
    BY <1>0, <1>2, <2>1, PollSpares
  <2>2. CASE v # u
    <3>1. UNCHANGED <<account[v], batch[v], pc[v], strays[v]>>
      BY <1>2, <2>2, PollOfAnother
    <3> QED BY <1>0, <3>1, StillSpare DEF CanSend, At, Bound
  <2> QED BY <2>1, <2>2
<1>3. ASSUME NEW u \in User, HandlerStep(u) PROVE Spare(v)'
  BY <1>0, <1>3, HandlerSpares
<1>4. ASSUME NEW u \in User, EnqueueStep(u) PROVE Spare(v)'
  BY <1>0, <1>4, EnqueueSpares
<1>5. ASSUME NEW u \in User, ClockStep(u) PROVE Spare(v)'
  <2>1. UNCHANGED <<batch, pc, strays>> /\ Schedule(u, TRUE)
    BY <1>5 DEF ClockStep, BecomeDue
  <2>2. Bound(v)' <=> Bound(v)
    BY <2>1, ScheduleType DEF TypeOK
  <2> QED BY <1>0, <2>1, <2>2, StillSpare DEF CanSend, At
<1>6. CASE CommandStep
  <2>1. UNCHANGED <<batch, pc, strays>>
    BY <1>6 DEF CommandStep
  <2>2. UNCHANGED account \/ \E u \in User : account' = [account EXCEPT ![u] = NoAccount]
    BY <1>6 DEF CommandStep, Command, CredentialReceive, StatusRead, Unbind, Ban, Unban,
                SetGlobalPaused, Delete
  <2>3. UNCHANGED account[v] \/ account'[v] = NoAccount
    BY <2>2 DEF TypeOK, StoreTypeOK
  <2> QED BY <1>0, <2>1, <2>3, StillSpare DEF CanSend, At, Bound
<1>7. CASE Restart
  <2>1. UNCHANGED <<account, strays>> /\ batch'[v] = NoJob /\ pc'[v] = "rest"
    BY <1>7 DEF Restart, ForgetPolls
  <2> QED BY <1>0, <2>1, StillSpare DEF CanSend, At, Bound
<1>8. CASE ForumStep \/ UNCHANGED vars
  BY <1>1, <1>8 DEF ForumStep, vars
<1> QED BY <1>2, <1>3, <1>4, <1>5, <1>6, <1>7, <1>8 DEF Next

\* After /unbind or a ban at most the poll that is running and the row that is waiting
\* deliver, one message each, because AddSeen is refused without a row.
THEOREM TwoStrays == Spec => []FewStrays
<1>1. Init => StraysAreFew
  <2> SUFFICES ASSUME Init, NEW u \in User PROVE Spare(u)
    BY DEF StraysAreFew
  <2>1. strays[u] = 0 /\ batch[u] = NoJob /\ pc[u] = "rest"
    BY DEF Init, PollerInit, PollerIdle
  <2> QED BY <2>1 DEF Spare, One, CanSend, At
<1>2. TypeOK /\ StraysAreFew => FewStrays
  <2> SUFFICES ASSUME TypeOK, StraysAreFew, NEW u \in User PROVE strays[u] <= 2
    BY DEF FewStrays
  <2> QED BY SpareType DEF StraysAreFew, Spare
<1> QED BY <1>1, <1>2, StraysStep, BotTypeCorrect, PTL DEF Spec
=============================================================================
