---------------------------- MODULE BotRepeatProofs ----------------------------
(***************************************************************************)
(* What is delivered twice, and what is never delivered, for every set of  *)
(* users and every bound.  The history is behind whatever a poll lists as  *)
(* new, and what was sent joins it: so a user's first binding sends        *)
(* nothing that was there before, and, while the forum user has no more    *)
(* than a page, repeats only what a fault left unrecorded.                 *)
(***************************************************************************)
EXTENDS BotCountProofs, BotDeliveryProofs

USE DEF store, forum, locals, ghosts, poller, handler, controller, others

-----------------------------------------------------------------------------
(* The invariant of every binding.                                         *)

\* Before its first binding nothing has been done for the user.
Untouched(u) ==
  begun[u] = 0 =>
    /\ ~ Bound(u) /\ batch[u] = NoJob /\ At(u, "rest")
    /\ sent[u] = {} /\ history[u] = {} /\ repeats[u] = 0

\* A poll starts with the first page.
StartsOver(u) == At(u, "rest") => page[u] = 1

\* What was sent or left unsent had been posted.
WasPosted(u) == \A n \in sent[u] \cup history[u] : Exists(n)

\* During the first binding everything is about its forum user.
OneForum(u) ==
  FirstBinding(u) =>
    /\ batch[u] # NoJob => batch[u].forum = account[u].forum
    /\ ~ At(u, "rest") => job[u].forum = account[u].forum
    /\ \A n \in sent[u] \cup history[u] : n[1] = account[u].forum

\* The pages that a poll has not looked at hold whatever is in the history.
SeenIsAhead(u) ==
  FirstBinding(u) /\ pc[u] \in {"fetch", "check"} =>
    \A n \in SeenIds(u) : ToLookAt(u, n[2])

FirstBindingIsKnown ==
  \A u \in User :
    Untouched(u) /\ StartsOver(u) /\ WasPosted(u) /\ OneForum(u) /\ SeenIsAhead(u)

\* What a poll lists as new is in the history neither itself nor by its id, until
\* AddSeen has trimmed the history.
FreshIsUnseen(u) ==
  FirstBinding(u) /\ Looking(u) /\ (pc[u] \in {"fetch", "check"} \/ Len(seen[u]) > SeenLimit) =>
    \A i \in 1 .. Len(fresh[u]) : ~ IsSeen(u, fresh[u][i])

NewIsUnseen == \A u \in User : FreshIsUnseen(u)

\* The history holds something at least as new as the notification k.
Reaches(u, k) == \E n \in SeenIds(u) : n[2] >= k

-----------------------------------------------------------------------------
(* What the first binding left unsent.                                     *)

\* It is behind the history and behind whatever is sent.
HistoryIsBehind(u) ==
  FirstBinding(u) =>
    /\ sent[u] \cap history[u] = {}
    /\ \A n \in history[u] : Reaches(u, n[2])
    /\ Looking(u) =>
         \A n \in history[u] : \A i \in 1 .. Len(fresh[u]) : n[2] < fresh[u][i][2]

\* The baseline of a first binding is all of the page but its latest notification.
BaselineIsRest(u) ==
  /\ In(u, "lookup") \/ In(u, "bind") =>
       latest[u] = <<>> \/ Len(latest[u]) > 1 \/ latest[u][1][2] = 1
  /\ In(u, "bind") /\ begun[u] = 0 =>
       baseline[u] = IF latest[u] = <<>> THEN <<>> ELSE Tail(latest[u])

HistoryIsLeft == \A u \in User : HistoryIsBehind(u) /\ BaselineIsRest(u)

-----------------------------------------------------------------------------
(* What is repeated.                                                       *)

OnePage(u) == FirstBinding(u) /\ feed[account[u].forum] <= PageSize

\* A poll stops at n, unless it stops at something newer.
Stop(u, n) ==
  /\ n[1] = account[u].forum /\ Exists(n) /\ IsSeen(u, n)
  /\ pc[u] \in {"fetch", "check"} => ToLookAt(u, n[2])

StopsFrom(u, k) == \E n \in Notification : Stop(u, n) /\ n[2] >= k

\* The list of what is new has no gaps.
FreshIsRun(u) ==
  Looking(u) => \A i \in 1 .. Len(fresh[u]) : fresh[u][i][2] = fresh[u][1][2] + i - 1

\* It joins what is still to be looked at, and in the end what the poll stopped at.
FreshJoins(u) ==
  /\ At(u, "fetch") => page[u] = 1 /\ fresh[u] = <<>>
  /\ At(u, "check") => ~ more[u]
  /\ At(u, "check") /\ fresh[u] # <<>> =>
       fresh[u][1][2] = IF items[u] = <<>> THEN 1 ELSE items[u][1][2] + 1
  /\ pc[u] \in {"send", "record"} /\ fresh[u] # <<>> =>
       fresh[u][1][2] = 1 \/ StopsFrom(u, fresh[u][1][2] - 1)

\* Nothing newer than the next delivery was sent, and if that one was sent, its id
\* is not in the history.
SentIsBehind(u) ==
  pc[u] \in {"send", "record"} /\ fresh[u] # <<>> =>
    /\ \A n \in sent[u] : n[2] <= fresh[u][1][2]
    /\ At(u, "send") /\ fresh[u][1] \in sent[u] => ~ IsSeen(u, fresh[u][1])

\* No poll lists again what was sent, unless it is next to what the poll stops at.
SentIsNext(u) == \A n \in sent[u] : n[2] = 1 \/ StopsFrom(u, n[2] - 1)

\* A delivery, and whatever was delivered after it, has not been recorded.
Unrecorded(u) == \E n \in sent[u] : \A m \in sent[u] : IsSeen(u, m) => m[2] < n[2]

\* Each repeat, and each delivery that will be repeated, is paid for with a fault.
RepeatsArePaid(u) ==
  /\ repeats[u] <= faults
  /\ ~ At(u, "record") /\ Unrecorded(u) => repeats[u] < faults

Accounted(u) ==
  FreshIsRun(u) /\ FreshJoins(u) /\ SentIsBehind(u) /\ SentIsNext(u) /\ RepeatsArePaid(u)

RepeatsAreKnown == \A u \in User : OnePage(u) => Accounted(u)

-----------------------------------------------------------------------------
(* What a step is for one user.                                            *)

\* A step of the poll or of the loop that feeds it, a restart, or none of them.
LEMMA StepForUser ==
  ASSUME TypeOK, [Next]_vars, NEW v \in User
  PROVE  \/ PollStep(v) \/ EnqueueStep(v) \/ Restart
         \/ /\ UNCHANGED <<batch[v], pc[v], job[v], page[v], items[v], more[v], fresh[v]>>
            /\ UNCHANGED <<sent[v], repeats[v]>>
            /\ faults <= faults'
<1> DEFINE Same ==
      /\ UNCHANGED <<batch[v], pc[v], job[v], page[v], items[v], more[v], fresh[v]>>
      /\ UNCHANGED <<sent[v], repeats[v]>>
      /\ faults <= faults'
<1>0. faults \in Nat /\ faults <= faults
  BY DEF TypeOK, PollerTypeOK
<1>1. CASE UNCHANGED <<batch, pc, locals, faults, sent, repeats>>
  BY <1>0, <1>1
<1>2. ASSUME NEW u \in User, PollStep(u), u # v PROVE Same
  <2>1. UNCHANGED <<pc[v], job[v], page[v], items[v], more[v], fresh[v]>>
    BY <1>2, PollIsItsOwn
  <2>2. UNCHANGED batch
    BY <1>2 DEF PollStep, Poll, FetchPage, FetchRefused, FetchFails, CheckNew,
        CheckKnown, CheckFails, TurnPage, Send, SendFails, Record, RecordFails, Finish,
        Retry, Reschedule, MarkRead, MarkWrite, MarkFails, Alert, Trip, Return
  <2>3. UNCHANGED <<sent, repeats>> \/ Deliver(u, Head(fresh[u]))
    BY <1>2 DEF PollStep, Poll, FetchPage, FetchRefused, FetchFails, CheckNew,
        CheckKnown, CheckFails, TurnPage, Send, SendFails, Record, RecordFails, Finish,
        Retry, Reschedule, MarkRead, MarkWrite, MarkFails, Alert, Trip
  <2>4. UNCHANGED <<sent[v], repeats[v]>>
    <3>1. CASE Deliver(u, Head(fresh[u]))
      <4>1. sent'[v] = sent[v]
        BY <1>2, <3>1 DEF Deliver, TypeOK, PollerTypeOK
      <4>2. repeats'[v] = repeats[v]
        BY <1>2, <3>1 DEF Deliver, TypeOK, PollerTypeOK
      <4> QED BY <4>1, <4>2
    <3> QED BY <2>3, <3>1
  <2>5. UNCHANGED faults \/ Fault
    BY <1>2 DEF PollStep, Poll, FetchPage, FetchRefused, FetchFails, CheckNew,
        CheckKnown, CheckFails, TurnPage, Send, SendFails, Record, RecordFails, Finish,
        Retry, Reschedule, MarkRead, MarkWrite, MarkFails, Alert, Trip
  <2> QED BY <1>0, <2>1, <2>2, <2>4, <2>5 DEF Fault
<1>3. ASSUME NEW u \in User, EnqueueStep(u), u # v PROVE Same
  BY <1>0, <1>3 DEF EnqueueStep, Enqueue, ReadDue, PassOver, StartPoll, Goto, TypeOK,
                    PollerTypeOK
<1>4. ASSUME NEW u \in User, ClockStep(u) \/ HandlerStep(u)
      PROVE  UNCHANGED <<batch, pc, locals, faults, sent, repeats>>
  BY <1>4 DEF ClockStep, BecomeDue, HandlerStep
<1>5. CASE CommandStep \/ ForumStep \/ UNCHANGED vars
  BY <1>1, <1>5 DEF CommandStep, ForumStep, vars
<1> QED BY <1>1, <1>2, <1>3, <1>4, <1>5 DEF Next

\* The updates of a row keep its forum user.
LEMMA UpdateKeepsForum ==
  ASSUME TypeOK, NEW u \in User, NEW row, Update(u, row),
         Bound(u) => row \in Account /\ row.forum = account[u].forum, NEW v \in User
  PROVE  (Bound(v)' <=> Bound(v)) /\ (Bound(v) => account'[v].forum = account[v].forum)
BY NoAccountAssumption DEF TypeOK, StoreTypeOK, Update, Bound

LEMMA ScheduleKeepsForum ==
  ASSUME TypeOK, NEW u \in User, NEW now \in BOOLEAN, Schedule(u, now), NEW v \in User
  PROVE  (Bound(v)' <=> Bound(v)) /\ (Bound(v) => account'[v].forum = account[v].forum)
<1>1. Bound(u) => LET row == [account[u] EXCEPT !.due = now]
                  IN  row \in Account /\ row.forum = account[u].forum
  BY RowType DEF TypeOK, Account
<1> QED BY <1>1, UpdateKeepsForum DEF Schedule

LEMMA SetStatusKeepsForum ==
  ASSUME TypeOK, NEW u \in User, NEW s \in Status, SetStatus(u, s), NEW v \in User
  PROVE  (Bound(v)' <=> Bound(v)) /\ (Bound(v) => account'[v].forum = account[v].forum)
<1>1. Bound(u) => LET row == [account[u] EXCEPT !.status = s]
                  IN  row \in Account /\ row.forum = account[u].forum
  BY RowType DEF TypeOK, Account
<1> QED BY <1>1, UpdateKeepsForum DEF SetStatus

LEMMA MarkRebindKeepsForum ==
  ASSUME TypeOK, NEW u \in User, MarkRebind(u), NEW v \in User
  PROVE  (Bound(v)' <=> Bound(v)) /\ (Bound(v) => account'[v].forum = account[v].forum)
<1>1. Bound(u) => LET row == [account[u] EXCEPT !.status = "rebind_required", !.alerted = TRUE]
                  IN  row \in Account /\ row.forum = account[u].forum
  BY RowType DEF TypeOK, Account, Status
<1> QED BY <1>1, UpdateKeepsForum DEF MarkRebind

LEMMA PollKeepsForum ==
  ASSUME TypeOK, NEW u \in User, PollStep(u), NEW v \in User
  PROVE  (Bound(v)' <=> Bound(v)) /\ (Bound(v) => account'[v].forum = account[v].forum)
<1>1. CASE UNCHANGED account
  BY <1>1 DEF Bound
<1>2. CASE MarkWrite(u)
  BY <1>2, MarkRebindKeepsForum DEF MarkWrite
<1>3. CASE Reschedule(u)
  <2>1. CASE Schedule(u, FALSE)
    BY <2>1, ScheduleKeepsForum
  <2> QED BY <1>1, <1>3, <2>1 DEF Reschedule
<1>4. UNCHANGED account \/ MarkWrite(u) \/ Reschedule(u)
  BY DEF PollStep, Poll, FetchPage, FetchRefused, FetchFails, CheckNew,
        CheckKnown, CheckFails, TurnPage, Send, SendFails, Record, RecordFails, Finish,
        Retry, MarkRead, MarkFails, Alert, Trip
<1> QED BY <1>1, <1>2, <1>3, <1>4

\* The first binding goes on, and of its history only Record makes more.
Continues(u) ==
  /\ FirstBinding(u)
  /\ account'[u].forum = account[u].forum
  /\ history'[u] = history[u]
  /\ (PollStep(u) /\ Record(u)) \/ seen'[u] = seen[u]

\* The first binding is saved.
Begins(u) ==
  /\ begun[u] = 0
  /\ HandlerStep(u) /\ In(u, "bind")
  /\ account'[u].forum = Owner[cred[u]]
  /\ \A i \in 1 .. Len(seen'[u]) : \E j \in 1 .. Len(baseline[u]) : seen'[u][i] = baseline[u][j]
  /\ baseline[u] # <<>> => baseline[u][1] \in SeenIds(u)'
  /\ history'[u] = history[u] \cup (Earlier(u) \ sent[u])

LEMMA HandlerOnFirstBinding ==
  ASSUME TypeOK, NEW u \in User, HandlerStep(u), FirstBinding(u)'
  PROVE  Continues(u) \/ Begins(u)
<1>1. CASE Save(u)
  <2>1. account'[u].forum = Owner[cred[u]] /\ Bound(u)' /\ In(u, "bind")
    BY <1>1, SaveBinds DEF Save
  <2>2. CASE Changed(u, Owner[cred[u]])
    <3>1. NewBinding(u)
      BY <2>1, <2>2 DEF NewBinding, Bound
    <3>2. /\ history'[u] = history[u] \cup (Earlier(u) \ sent[u])
          /\ begun'[u] = begun[u] + 1
      BY <3>1 DEF HandlerStep, TypeOK
    <3>3. begun[u] = 0
      BY <3>2 DEF FirstBinding, TypeOK
    <3>4. /\ \A i \in 1 .. Len(seen'[u]) :
               \E j \in 1 .. Len(baseline[u]) : seen'[u][i] = baseline[u][j]
          /\ baseline[u] # <<>> => baseline[u][1] \in SeenIds(u)'
      <4>1. baseline[u] \in Seq(Notification) /\ InsertAll(u, baseline[u])
        BY <1>1, <2>2 DEF Save, Bind, TypeOK, ControllerTypeOK
      <4> QED BY <4>1, InsertAllType DEF TypeOK
    <3> QED BY <2>1, <3>2, <3>3, <3>4 DEF Begins
  <2>3. CASE ~ Changed(u, Owner[cred[u]])
    <3>1. Bound(u) /\ account[u].forum = Owner[cred[u]] /\ UNCHANGED seen
      BY <1>1, <2>3 DEF Save, Bind, Changed
    <3>2. UNCHANGED <<history, begun>>
      BY <2>3 DEF HandlerStep, NewBinding
    <3> QED BY <2>1, <3>1, <3>2 DEF Continues, FirstBinding
  <2> QED BY <2>2, <2>3
<1>2. CASE ~ Save(u)
  <2>1. UNCHANGED seen
    BY <1>2 DEF HandlerStep, Handle, Validate, ValidateFails, Lookup, SaveFails,
                StatusWrite, StatusWriteFails, ScheduleNow
  <2>2. (Bound(u)' <=> Bound(u)) /\ (Bound(u) => account'[u].forum = account[u].forum)
    <3>1. CASE StatusWrite(u)
      BY <3>1, SetStatusKeepsForum DEF StatusWrite, TypeOK, ControllerTypeOK, Status
    <3>2. CASE ScheduleNow(u)
      BY <3>2, ScheduleKeepsForum DEF ScheduleNow, Bound
    <3>3. CASE Validate(u) \/ ValidateFails(u) \/ Lookup(u) \/ SaveFails(u) \/ StatusWriteFails(u)
      BY <3>3 DEF Validate, ValidateFails, Lookup, SaveFails, StatusWriteFails, Bound
    <3> QED BY <1>2, <3>1, <3>2, <3>3 DEF HandlerStep, Handle
  <2>3. ~ NewBinding(u)
    BY <2>2 DEF NewBinding, Changed, Bound
  <2> QED BY <2>1, <2>2, <2>3 DEF HandlerStep, Continues, FirstBinding
<1> QED BY <1>1, <1>2

\* However the row of a user changes, the first binding goes on or begins.
LEMMA FirstBindingStep ==
  ASSUME TypeOK, [Next]_vars, NEW v \in User, FirstBinding(v)'
  PROVE  Continues(v) \/ Begins(v)
<1>1. CASE /\ (Bound(v)' <=> Bound(v)) /\ (Bound(v) => account'[v].forum = account[v].forum)
           /\ UNCHANGED <<history[v], begun[v], seen[v]>>
  BY <1>1 DEF Continues, FirstBinding
<1>2. CASE UNCHANGED <<account, seen, history, begun>>
  BY <1>1, <1>2 DEF Bound
<1>3. ASSUME NEW u \in User, PollStep(u) PROVE Continues(v)
  <2>1. (Bound(v)' <=> Bound(v)) /\ (Bound(v) => account'[v].forum = account[v].forum)
    BY <1>3, PollKeepsForum
  <2>2. UNCHANGED <<history, begun>>
    BY <1>3 DEF PollStep
  <2>3. (u = v /\ Record(u)) \/ seen'[v] = seen[v]
    <3>1. CASE Record(u)
      BY <3>1 DEF Record, AddSeen, TypeOK, StoreTypeOK
    <3>2. CASE ~ Record(u)
      BY <1>3, <3>2, PollKeepsSeen
    <3> QED BY <3>1, <3>2
  <2> QED BY <1>3, <2>1, <2>2, <2>3 DEF Continues, FirstBinding
<1>4. ASSUME NEW u \in User, HandlerStep(u) PROVE Continues(v) \/ Begins(v)
  <2>1. CASE u = v
    BY <1>4, <2>1, HandlerOnFirstBinding
  <2>2. CASE u # v
    <3>1. UNCHANGED <<history[v], begun[v]>>
      BY <1>4, <2>2 DEF HandlerStep, TypeOK
    <3>2. UNCHANGED <<account[v], seen[v]>>
      <4>1. CASE Save(u)
        <5>1. account'[v] = account[v]
          BY <2>2, <4>1 DEF Save, Bind, TypeOK, StoreTypeOK
        <5>2. UNCHANGED seen \/ InsertAll(u, baseline[u])
          BY <4>1 DEF Save, Bind
        <5>3. baseline[u] \in Seq(Notification)
          BY DEF TypeOK, ControllerTypeOK
        <5> QED BY <2>2, <5>1, <5>2, <5>3, InsertAllType DEF TypeOK
      <4>2. CASE ~ Save(u)
        BY <1>4, <2>2, <4>2 DEF HandlerStep, Handle, Validate, ValidateFails, Lookup, SaveFails,
          StatusWrite, StatusWriteFails, SetStatus, ScheduleNow, Schedule, Update, TypeOK,
          StoreTypeOK
      <4> QED BY <4>1, <4>2
    <3> QED BY <1>1, <3>1, <3>2 DEF Bound
  <2> QED BY <2>1, <2>2
<1>5. ASSUME NEW u \in User, EnqueueStep(u) PROVE Continues(v)
  BY <1>2, <1>5 DEF EnqueueStep, Enqueue, ReadDue, PassOver, StartPoll, Bound, Continues,
                    FirstBinding
<1>6. ASSUME NEW u \in User, ClockStep(u) PROVE Continues(v) \/ Begins(v)
  BY <1>1, <1>6, ScheduleKeepsForum DEF ClockStep, BecomeDue
<1>7. CASE CommandStep
  <2>1. UNCHANGED <<history, begun>>
    BY <1>7 DEF CommandStep
  <2>2. ASSUME NEW u \in User, Unbind(u) \/ Ban(u) PROVE Continues(v)
    <3>1. account' = [account EXCEPT ![u] = NoAccount] /\ seen' = [seen EXCEPT ![u] = <<>>]
      BY <2>2 DEF Unbind, Ban, Delete
    <3>2. u # v
      BY <3>1 DEF FirstBinding, Bound, TypeOK, StoreTypeOK
    <3> QED BY <2>1, <3>1, <3>2 DEF Continues, FirstBinding, Bound, TypeOK, StoreTypeOK
  <2>3. CASE SetGlobalPaused \/ \E u \in User :
               CredentialReceive(u) \/ StatusRead(u) \/ Unban(u)
    BY <1>2, <2>1, <2>3 DEF SetGlobalPaused, CredentialReceive, StatusRead, Unban
  <2> QED BY <1>7, <2>2, <2>3 DEF CommandStep, Command
<1>8. CASE ForumStep \/ Restart \/ UNCHANGED vars
  BY <1>2, <1>8 DEF ForumStep, Restart, vars
<1> QED BY <1>3, <1>4, <1>5, <1>6, <1>7, <1>8 DEF Next

\* The steps that end a poll, or leave it to handleError.
LEMMA LeavingStep ==
  ASSUME TypeOK, NEW u \in User, PollStep(u), ~ FetchPage(u), ~ CheckNew(u), ~ CheckKnown(u),
         ~ TurnPage(u), ~ Send(u), ~ Record(u)
  PROVE  /\ ~ Looking(u)' /\ (At(u, "rest")' => page'[u] = 1)
         /\ \/ /\ UNCHANGED <<sent, repeats>>
               /\ faults' = faults \/ faults' = faults + 1
               /\ At(u, "record") /\ Bound(u) => faults' = faults + 1
            \/ /\ At(u, "send") /\ fresh[u] # <<>>
               /\ Deliver(u, Head(fresh[u])) /\ faults' = faults + 1
<1> USE DEF TypeOK, PollerTypeOK, Goto, Return, At, Looking, Fault
<1>1. CASE FetchRefused(u) \/ FetchFails(u) \/ CheckFails(u)
  BY <1>1 DEF FetchRefused, FetchFails, CheckFails
<1>2. CASE SendFails(u)
  BY <1>2 DEF SendFails
<1>3. CASE RecordFails(u)
  BY <1>3 DEF RecordFails
<1>4. CASE Finish(u) \/ Retry(u)
  BY <1>4 DEF Finish, Retry, Reschedule
<1>5. CASE MarkRead(u) \/ MarkWrite(u) \/ MarkFails(u)
  BY <1>5 DEF MarkRead, MarkWrite, MarkFails
<1>6. CASE Alert(u) \/ Trip(u)
  BY <1>6 DEF Alert, Trip
<1> QED BY <1>1, <1>2, <1>3, <1>4, <1>5, <1>6 DEF PollStep, Poll

-----------------------------------------------------------------------------
(* The invariant of every binding.                                         *)

\* What the other proofs have shown.
Established == HistoryIsJustified /\ NothingIsLeftOut /\ NothingInvented

LEMMA EstablishedType ==
  ASSUME Established
  PROVE  TypeOK /\ \A u \in User : InOrder(u)
BY DEF Established, HistoryIsJustified, NothingIsLeftOut

\* What a poll does to its own task.
LEMMA PollKeepsTask ==
  ASSUME TypeOK, NEW u \in User, PollStep(u)
  PROVE  /\ UNCHANGED batch /\ ~ At(u, "rest")
         /\ At(u, "rest")' \/ job'[u] = job[u]
         /\ UNCHANGED sent \/ (At(u, "send") /\ fresh[u] # <<>> /\ Deliver(u, Head(fresh[u])))
<1> USE DEF TypeOK, PollerTypeOK, Goto, Return, At
<1>1. CASE FetchPage(u) \/ FetchRefused(u) \/ FetchFails(u)
  BY <1>1 DEF FetchPage, FetchRefused, FetchFails
<1>2. CASE CheckNew(u) \/ CheckKnown(u) \/ CheckFails(u) \/ TurnPage(u)
  BY <1>2 DEF CheckNew, CheckKnown, CheckFails, TurnPage
<1>3. CASE Send(u) \/ SendFails(u) \/ Record(u) \/ RecordFails(u)
  BY <1>3 DEF Send, SendFails, Record, RecordFails
<1>4. CASE Finish(u) \/ Retry(u)
  BY <1>4 DEF Finish, Retry, Reschedule
<1>5. CASE MarkRead(u) \/ MarkWrite(u) \/ MarkFails(u)
  BY <1>5 DEF MarkRead, MarkWrite, MarkFails
<1>6. CASE Alert(u) \/ Trip(u)
  BY <1>6 DEF Alert, Trip
<1> QED BY <1>1, <1>2, <1>3, <1>4, <1>5, <1>6 DEF PollStep, Poll

\* Only a first binding touches a user that has none.
LEMMA UntouchedStep ==
  ASSUME TypeOK, [Next]_vars, NEW v \in User, Untouched(v)
  PROVE  Untouched(v)'
<1> SUFFICES ASSUME begun'[v] = 0
             PROVE  /\ ~ Bound(v)' /\ batch'[v] = NoJob /\ At(v, "rest")'
                    /\ sent'[v] = {} /\ history'[v] = {} /\ repeats'[v] = 0
  BY DEF Untouched
<1>1. begun[v] = 0 /\ history'[v] = history[v] /\ ~ (HandlerStep(v) /\ NewBinding(v))
  <2>1. ASSUME NEW u \in User, HandlerStep(u)
        PROVE  begun[v] = 0 /\ history'[v] = history[v] /\ ~ (u = v /\ NewBinding(v))
    BY <2>1 DEF HandlerStep, TypeOK
  <2>2. CASE UNCHANGED <<history, begun>>
    BY <2>1, <2>2
  <2> QED BY <2>1, <2>2 DEF Next, vars, PollStep, EnqueueStep, ClockStep, CommandStep,
                            ForumStep, Restart
<1>2. ~ Bound(v)
  BY <1>1 DEF Untouched
<1>3. ~ Bound(v)'
  <2>1. ASSUME NEW u \in User, HandlerStep(u) PROVE ~ Bound(v)'
    <3>1. CASE Save(u)
      <4>1. u = v => NewBinding(v)
        BY <1>2, <3>1, SaveBinds DEF NewBinding, Changed, Save, Bound
      <4> QED BY <1>1, <1>2, <2>1, <3>1, <4>1, SaveBinds
    <3>2. CASE StatusWrite(u)
      BY <1>2, <3>2, SetStatusType DEF StatusWrite, TypeOK, ControllerTypeOK, Status
    <3>3. CASE ScheduleNow(u)
      BY <1>2, <3>3, ScheduleType DEF ScheduleNow, TypeOK, Bound
    <3>4. CASE Validate(u) \/ ValidateFails(u) \/ Lookup(u) \/ SaveFails(u) \/ StatusWriteFails(u)
      BY <1>2, <3>4 DEF Validate, ValidateFails, Lookup, SaveFails, StatusWriteFails, Bound
    <3> QED BY <2>1, <3>1, <3>2, <3>3, <3>4 DEF HandlerStep, Handle
  <2>2. ASSUME NEW u \in User, PollStep(u) \/ EnqueueStep(u) \/ ClockStep(u) PROVE ~ Bound(v)'
    <3>1. CASE PollStep(u)
      BY <1>2, <3>1, PollKeepsRows
    <3>2. CASE EnqueueStep(u)
      BY <1>2, <3>2 DEF EnqueueStep, Enqueue, ReadDue, PassOver, StartPoll, Bound
    <3>3. CASE ClockStep(u)
      BY <1>2, <3>3, ScheduleType DEF ClockStep, BecomeDue, TypeOK
    <3> QED BY <2>2, <3>1, <3>2, <3>3
  <2>3. CASE CommandStep
    BY <1>2, <2>3 DEF CommandStep, Command, CredentialReceive, StatusRead, Unbind, Ban, Unban,
                      Delete, SetGlobalPaused, Bound, TypeOK, StoreTypeOK
  <2>4. CASE ForumStep \/ Restart \/ UNCHANGED vars
    BY <1>2, <2>4 DEF ForumStep, Restart, vars, Bound
  <2> QED BY <2>1, <2>2, <2>3, <2>4 DEF Next
<1>4. ~ PollStep(v)
  BY <1>1, PollKeepsTask DEF Untouched
<1>5. ~ EnqueueStep(v)
  BY <1>1 DEF Untouched, EnqueueStep, Enqueue, ReadDue, PassOver, StartPoll, Due
<1>6. CASE Restart
  BY <1>1, <1>3, <1>6 DEF Restart, ForgetPolls, Untouched, At
<1>7. CASE UNCHANGED <<batch[v], pc[v], sent[v], repeats[v]>>
  BY <1>1, <1>3, <1>7 DEF Untouched, At
<1> QED BY <1>4, <1>5, <1>6, <1>7, StepForUser

LEMMA StartsOverStep ==
  ASSUME TypeOK, [Next]_vars, NEW v \in User, StartsOver(v)
  PROVE  StartsOver(v)'
<1>1. CASE PollStep(v)
  <2>1. CASE FetchPage(v) \/ CheckNew(v) \/ CheckKnown(v) \/ TurnPage(v) \/ Send(v) \/ Record(v)
    BY <2>1 DEF FetchPage, CheckNew, CheckKnown, TurnPage, Send, Record, Goto, StartsOver, At,
                TypeOK, PollerTypeOK
  <2> QED BY <1>1, <2>1, LeavingStep DEF StartsOver
<1>2. CASE EnqueueStep(v)
  BY <1>2 DEF EnqueueStep, Enqueue, ReadDue, PassOver, StartPoll, Goto, StartsOver, At,
              TypeOK, PollerTypeOK
<1>3. CASE Restart
  BY <1>3 DEF Restart, ForgetPolls, StartsOver
<1>4. CASE UNCHANGED <<pc[v], page[v]>>
  BY <1>4 DEF StartsOver, At
<1> QED BY <1>1, <1>2, <1>3, <1>4, StepForUser

\* What Delivery lets a user have, or a binding leave unsent, has been posted.
LEMMA WasPostedStep ==
  ASSUME Established, [Next]_vars, NEW v \in User, WasPosted(v)
  PROVE  WasPosted(v)'
<1>0. TypeOK /\ HistoryIsJustified /\ NothingIsLeftOut /\ NothingInvented
  BY EstablishedType DEF Established
<1>1. sent[v] \cup history[v] \subseteq Notification
  BY <1>0 DEF TypeOK, PollerTypeOK
<1>2. ASSUME NEW n \in sent[v] \cup history[v] PROVE Exists(n)'
  <2>1. n[1] \in ForumUser /\ n[2] \in Nat /\ n[2] <= feed[n[1]]
    BY <1>1 DEF WasPosted, Exists, Notification
  <2> QED BY <1>0, <2>1, FeedGrows DEF Exists
<1>3. CASE UNCHANGED <<sent, history>>
  BY <1>2, <1>3 DEF WasPosted
<1>4. ASSUME NEW f \in ForumUser, Promise!Post(f) PROVE WasPosted(v)'
  BY <1>3, <1>4 DEF Promise!Post
<1>5. ASSUME NEW u \in User, NEW n, Promise!Deliver(u, n) PROVE WasPosted(v)'
  <2>1. sent'[v] \subseteq sent[v] \cup {n} /\ UNCHANGED <<feed, history>>
    BY <1>0, <1>5 DEF Promise!Deliver, TypeOK, PollerTypeOK
  <2>2. Exists(n)'
    BY <1>5, <2>1 DEF Promise!Deliver, Promise!Posted, Exists
  <2> QED BY <1>2, <2>1, <2>2 DEF WasPosted
<1>6. ASSUME NEW u \in User, NEW n, Promise!Bind(u, n) PROVE WasPosted(v)'
  <2>1. history'[v] \subseteq history[v] \cup Promise!Before(n) /\ UNCHANGED <<feed, sent>>
    BY <1>0, <1>6 DEF Promise!Bind, TypeOK
  <2>2. ASSUME NEW m \in Promise!Before(n) PROVE Exists(m)'
    <3>1. n[1] \in ForumUser /\ n[2] \in Nat /\ n[2] <= feed[n[1]]
      BY <1>6 DEF Promise!Bind, Promise!Posted, Promise!Notification
    <3>2. PICK k \in 1 .. (n[2] - 1) : m = <<n[1], k>>
      BY DEF Promise!Before
    <3>3. m[1] = n[1] /\ m[2] <= feed[n[1]]
      BY <1>0, <3>1, <3>2 DEF TypeOK, ForumTypeOK
    <3> QED BY <2>1, <3>3 DEF Exists
  <2> QED BY <1>2, <2>1, <2>2 DEF WasPosted
<1>7. ASSUME NEW u \in User, NEW n, Promise!Hide(u, n) PROVE WasPosted(v)'
  BY <1>3, <1>7 DEF Promise!Hide
<1>8. Promise!Next \/ UNCHANGED <<feed, sent, history>>
  BY <1>0, DeliveryStep DEF Promise!vars
<1> QED BY <1>3, <1>4, <1>5, <1>6, <1>7, <1>8 DEF Promise!Next

\* A binding begins with nothing queued, running, sent or left unsent.
LEMMA BeginsFromNothing ==
  ASSUME Established, NEW u \in User, Untouched(u), Begins(u)
  PROVE  /\ batch'[u] = NoJob /\ pc'[u] = "rest"
         /\ sent'[u] = {} /\ history'[u] = Earlier(u) /\ repeats'[u] = 0
         /\ SeenIds(u)' \subseteq Earlier(u)
<1>1. /\ batch'[u] = NoJob /\ pc'[u] = "rest" /\ sent'[u] = {} /\ repeats'[u] = 0
      /\ history'[u] = Earlier(u)
  BY DEF Begins, Untouched, At, HandlerStep
<1>2. \A i \in 1 .. Len(baseline[u]) : baseline[u][i] \in Earlier(u)
  BY DEF Begins, Established, HistoryIsJustified, BaselineIsEarlier, EarlierBaseline
<1>3. ASSUME NEW n \in SeenIds(u)' PROVE n \in Earlier(u)
  <2>1. PICK i \in 1 .. Len(seen'[u]) : n = seen'[u][i]
    BY DEF SeenIds
  <2>2. PICK j \in 1 .. Len(baseline[u]) : n = baseline[u][j]
    BY <2>1 DEF Begins
  <2> QED BY <1>2, <2>2
<1> QED BY <1>1, <1>3

LEMMA EarlierIsOfOwner ==
  ASSUME NEW u \in User, NEW n \in Earlier(u)
  PROVE  /\ latest[u] # <<>>
         /\ \E k \in 1 .. (Head(latest[u])[2] - 1) : n = <<Owner[cred[u]], k>>
BY DEF Earlier

LEMMA OneForumStep ==
  ASSUME Established, [Next]_vars, NEW v \in User, Untouched(v), OneForum(v)
  PROVE  OneForum(v)'
<1>0. TypeOK /\ InOrder(v)
  BY EstablishedType
<1> SUFFICES ASSUME FirstBinding(v)'
             PROVE  /\ batch'[v] # NoJob => batch'[v].forum = account'[v].forum
                    /\ ~ At(v, "rest")' => job'[v].forum = account'[v].forum
                    /\ \A n \in sent'[v] \cup history'[v] : n[1] = account'[v].forum
  BY DEF OneForum
<1>1. CASE Begins(v)
  <2>1. \A n \in Earlier(v) : n[1] = account'[v].forum
    BY <1>1, EarlierIsOfOwner DEF Begins
  <2> QED BY <1>1, <2>1, BeginsFromNothing DEF At
<1>2. CASE Continues(v)
  <2> DEFINE f == account[v].forum
  <2>1. /\ account'[v].forum = f /\ history'[v] = history[v]
        /\ batch[v] # NoJob => batch[v].forum = f
        /\ ~ At(v, "rest") => job[v].forum = f
        /\ \A n \in sent[v] \cup history[v] : n[1] = f
    BY <1>2 DEF Continues, OneForum
  <2> HIDE DEF f
  <2>2. CASE PollStep(v)
    <3>1. batch'[v] = batch[v] /\ (~ At(v, "rest")' => job'[v].forum = f)
      BY <1>0, <2>1, <2>2, PollKeepsTask
    <3>2. ASSUME NEW n \in sent'[v] PROVE n[1] = f
      <4>1. CASE n \in sent[v]
        BY <2>1, <4>1
      <4>2. CASE n \notin sent[v]
        <5>1. At(v, "send") /\ fresh[v] # <<>> /\ n = Head(fresh[v])
          BY <1>0, <2>2, <4>2, PollKeepsTask DEF Deliver, TypeOK, PollerTypeOK
        <5>2. n = fresh[v][1] /\ 1 \in 1 .. Len(fresh[v])
          BY <1>0, <5>1 DEF TypeOK, PollerTypeOK
        <5>3. n[1] = job[v].forum
          BY <1>0, <5>1, <5>2 DEF InOrder, FreshIsClosed, Looking, At
        <5> QED BY <2>1, <5>1, <5>3 DEF At
      <4> QED BY <4>1, <4>2
    <3> QED BY <2>1, <3>1, <3>2
  <2>3. CASE EnqueueStep(v)
    <3>1. UNCHANGED sent
      BY <2>3 DEF EnqueueStep, Enqueue, ReadDue, PassOver, StartPoll
    <3>2. CASE ReadDue(v)
      <4>1. batch'[v].forum = f /\ UNCHANGED <<pc, job>>
        BY <1>0, <3>2 DEF ReadDue, f, TypeOK, PollerTypeOK
      <4> QED BY <2>1, <3>1, <4>1 DEF At
    <3>3. CASE PassOver(v)
      BY <1>0, <2>1, <3>1, <3>3 DEF PassOver, At, TypeOK, PollerTypeOK
    <3>4. CASE StartPoll(v)
      <4>1. batch'[v] = NoJob /\ batch[v] # NoJob /\ job'[v] = batch[v]
        BY <1>0, <3>4 DEF StartPoll, TypeOK, PollerTypeOK
      <4> QED BY <2>1, <3>1, <4>1
    <3> QED BY <2>3, <3>2, <3>3, <3>4 DEF EnqueueStep, Enqueue
  <2>4. CASE Restart
    <3>1. batch'[v] = NoJob /\ At(v, "rest")' /\ UNCHANGED sent
      BY <2>4 DEF Restart, ForgetPolls, At
    <3> QED BY <2>1, <3>1
  <2>5. CASE UNCHANGED <<batch[v], pc[v], job[v], sent[v]>>
    BY <2>1, <2>5 DEF At
  <2> QED BY <1>0, <2>2, <2>3, <2>4, <2>5, StepForUser
<1> QED BY <1>0, <1>1, <1>2, FirstBindingStep

\* The history of the first binding is of the forum user that is polled for.
LEMMA SeenIsOfForum ==
  ASSUME Established, NEW u \in User, FirstBinding(u), OneForum(u), ~ At(u, "rest"),
         NEW n \in SeenIds(u)
  PROVE  /\ n \in sent[u] \cup history[u] /\ n \in Notification
         /\ n[2] \in Nat \ {0} /\ n = <<job[u].forum, n[2]>>
<1>1. n \in sent[u] \cup history[u]
  BY DEF Established, HistoryIsJustified, SeenWasSent, Known
<1>2. n \in Notification
  BY <1>1, EstablishedType DEF TypeOK, PollerTypeOK
<1>3. n[1] = job[u].forum
  BY <1>1 DEF OneForum
<1> QED BY <1>1, <1>2, <1>3 DEF Notification

-----------------------------------------------------------------------------
(* What a poll has still to look at.                                       *)

\* The next notification of a page, and the rest of the page.
LEMMA NextOfPage ==
  ASSUME Established, NEW u \in User, At(u, "check"), items[u] # <<>>
  PROVE  /\ items[u] \in Seq(Notification) /\ items[u][1][2] \in Nat \ {0}
         /\ Head(items[u]) = <<job[u].forum, items[u][1][2]>>
         /\ Head(items[u]) = items[u][1] /\ Head(items[u]) \in Notification
<1>0. TypeOK /\ InOrder(u)
  BY EstablishedType
<1>1. items[u] \in Seq(Notification)
  BY <1>0 DEF TypeOK, PollerTypeOK
<1>2. 1 \in 1 .. Len(items[u]) /\ items[u][1] \in Notification /\ Head(items[u]) = items[u][1]
  BY <1>1
<1>3. items[u][1][2] \in Nat \ {0}
  BY <1>2 DEF Notification
<1>4. items[u][1] = <<job[u].forum, items[u][1][2] - 1 + 1>>
  BY <1>0, <1>2 DEF InOrder, PageJoins
<1> QED BY <1>1, <1>2, <1>3, <1>4

\* What CheckNew leaves of the page.
LEMMA RestOfPage ==
  ASSUME Established, NEW u \in User, CheckNew(u)
  PROVE  /\ At(u, "check") /\ At(u, "check")' /\ items[u] # <<>> /\ items'[u] = Tail(items[u])
         /\ items'[u] # <<>> => items'[u][1][2] = items[u][1][2] - 1
         /\ items'[u] = <<>> => IF more[u] THEN items[u][1][2] - 1 <= Top(job[u].forum, page[u] + 1)
                                           ELSE items[u][1][2] = 1
<1>0. TypeOK /\ InOrder(u)
  BY EstablishedType
<1>1. /\ At(u, "check") /\ At(u, "check")' /\ items[u] # <<>> /\ items'[u] = Tail(items[u])
  BY <1>0 DEF CheckNew, At, TypeOK, PollerTypeOK
<1>2. items[u] \in Seq(Notification) /\ items[u][1][2] \in Nat \ {0}
  BY <1>1, NextOfPage
<1>3. /\ \A i \in 1 .. Len(items[u]) : items[u][i] = <<job[u].forum, items[u][1][2] - i + 1>>
      /\ IF more[u]
         THEN items[u][1][2] - Len(items[u]) <= Top(job[u].forum, page[u] + 1)
         ELSE items[u][1][2] = Len(items[u])
  BY <1>0, <1>1 DEF InOrder, PageJoins
<1>4. CASE items'[u] # <<>>
  <2>1. 2 \in 1 .. Len(items[u]) /\ items'[u][1] = items[u][2]
    BY <1>1, <1>2, <1>4
  <2>2. items[u][2] = <<job[u].forum, items[u][1][2] - 2 + 1>>
    BY <1>3, <2>1
  <2>3. items[u][2][2] = items[u][1][2] - 1
    BY <1>2, <2>2
  <2>4. items'[u][1][2] = items[u][1][2] - 1
    BY <2>1, <2>3
  <2> QED BY <1>1, <1>4, <2>4
<1>5. CASE items'[u] = <<>>
  <2>1. Len(items[u]) = 1
    <3>1. /\ Len(items'[u]) = Len(items[u]) - 1 /\ Len(items[u]) \in Nat
          /\ items'[u] \in Seq(Notification)
      BY <1>1, <1>2, HeadTailProperties
    <3> QED BY <1>5, <3>1
  <2>2. more[u] => items[u][1][2] - 1 <= Top(job[u].forum, page[u] + 1)
    BY <1>2, <1>3, <2>1
  <2>3. ~ more[u] => items[u][1][2] = 1
    BY <1>2, <1>3, <2>1
  <2> QED BY <1>1, <1>5, <2>2, <2>3
<1> QED BY <1>4, <1>5

LEMMA FetchLooksOn ==
  ASSUME TypeOK, NEW u \in User, FetchPage(u), NEW k \in Nat \ {0}, ToLookAt(u, k)
  PROVE  ToLookAt(u, k)'
<1>1. PICK f \in ForumUser, p \in Nat \ {0} : f = job[u].forum /\ p = page[u]
  BY PollHasForum DEF FetchPage, At
<1>2. items'[u] = PageItems(f, p) /\ pc'[u] = "check"
  BY <1>1 DEF FetchPage, Goto, TypeOK, PollerTypeOK
<1>3. k <= Top(f, p)
  BY <1>1 DEF ToLookAt, FetchPage, At
<1>4. Len(items'[u]) \in Nat \ {0} /\ items'[u] \in Seq(Notification)
  <2>1. Top(f, p) \in Nat
    BY TopType DEF TypeOK
  <2>2. PageItems(f, p) \in Seq(Notification)
    BY PageItemsType DEF TypeOK
  <2>3. Len(items'[u]) = IF Top(f, p) < PageSize THEN Top(f, p) ELSE PageSize
    BY <1>2, PageIsRun DEF TypeOK
  <2> QED BY <1>2, <1>3, <2>1, <2>2, <2>3, ForumAssumption
<1>5. items'[u][1][2] = Top(f, p)
  <2>1. items'[u][1] = <<f, Top(f, p) - 1 + 1>>
    BY <1>2, <1>4, PageIsRun DEF TypeOK
  <2>2. Top(f, p) \in Nat
    BY TopType DEF TypeOK
  <2> QED BY <2>1, <2>2
<1> QED BY <1>2, <1>3, <1>4, <1>5 DEF ToLookAt, At

\* What is new on a page is newer than anything there that is not.
LEMMA StopIsBelowNext ==
  ASSUME Established, NEW u \in User, CheckNew(u),
         NEW n \in Notification, n[1] = job[u].forum, IsSeen(u, n), ToLookAt(u, n[2])
  PROVE  n[2] < items[u][1][2]
<1>1. At(u, "check") /\ items[u] # <<>> /\ items[u][1][2] \in Nat \ {0}
  BY NextOfPage DEF CheckNew
<1>2. n[2] \in Nat \ {0} /\ n = <<job[u].forum, n[2]>>
  BY DEF Notification
<1>3. n[2] <= items[u][1][2]
  BY <1>1 DEF ToLookAt, At
<1>4. n[2] # items[u][1][2]
  <2>1. ~ IsSeen(u, Head(items[u])) /\ Head(items[u]) = <<job[u].forum, items[u][1][2]>>
    BY <1>1, NextOfPage DEF CheckNew
  <2> QED BY <1>2, <2>1
<1> QED BY <1>1, <1>2, <1>3, <1>4

LEMMA SeenIsBelowNext ==
  ASSUME Established, NEW u \in User, FirstBinding(u), OneForum(u), SeenIsAhead(u),
         CheckNew(u), NEW n \in SeenIds(u)
  PROVE  n[2] < items[u][1][2]
<1>1. At(u, "check")
  BY DEF CheckNew
<1>2. n \in Notification /\ n[1] = job[u].forum
  BY <1>1, SeenIsOfForum DEF At
<1>3. IsSeen(u, n) /\ ToLookAt(u, n[2])
  BY <1>1 DEF IsSeen, SameId, SeenIsAhead, At
<1> QED BY <1>2, <1>3, StopIsBelowNext

\* What is posted meanwhile puts nothing out of sight.
LEMMA StillLooksOn ==
  ASSUME HistoryIsJustified, [Next]_vars, NEW u \in User, ~ At(u, "rest"),
         UNCHANGED <<pc[u], job[u], page[u], items[u], more[u]>>,
         NEW k \in Nat, ToLookAt(u, k)
  PROVE  ToLookAt(u, k)'
<1>0. TypeOK
  BY DEF HistoryIsJustified
<1>1. PICK f \in ForumUser, p \in Nat \ {0} : f = job[u].forum /\ p = page[u]
  BY <1>0, PollHasForum DEF At
<1>2. /\ Top(f, p) \in Nat /\ Top(f, p)' \in Nat /\ Top(f, p) <= Top(f, p)'
      /\ Top(f, p + 1) \in Nat /\ Top(f, p + 1)' \in Nat
      /\ Top(f, p + 1) <= Top(f, p + 1)'
  BY <1>0, TopType, TopGrows, FeedGrows DEF TypeOK
<1> QED BY <1>1, <1>2 DEF ToLookAt, At

\* A poll passes no place to stop at before it stops looking.
LEMMA StillAhead ==
  ASSUME Established, [Next]_vars, NEW v \in User, StartsOver(v), OneForum(v),
         FirstBinding(v), ~ Record(v), NEW n \in Notification, Stop(v, n),
         pc'[v] \in {"fetch", "check"}
  PROVE  ToLookAt(v, n[2])'
<1>0. TypeOK /\ HistoryIsJustified
  BY EstablishedType DEF Established
<1>1. FirstBinding(v) /\ ~ Record(v)
  OBVIOUS
<1>3. n[1] = account[v].forum /\ n[2] \in Nat \ {0}
  BY DEF Stop, Notification
<1>4. CASE PollStep(v)
  <2>1. ~ At(v, "rest")
    BY <1>0, <1>4, PollKeepsTask
  <2>2. n[1] = job[v].forum /\ n[2] \in Nat \ {0}
    BY <1>1, <1>3, <2>1 DEF OneForum
  <2>3. pc[v] \in {"fetch", "check"} => ToLookAt(v, n[2])
    BY DEF Stop
  <2>4. CASE FetchPage(v)
    BY <1>0, <2>2, <2>3, <2>4, FetchLooksOn DEF FetchPage, At
  <2>5. CASE CheckNew(v)
    <3>1. At(v, "check") /\ items[v] # <<>> /\ items[v][1][2] \in Nat \ {0}
      BY <2>5, NextOfPage DEF CheckNew
    <3>2. n[2] <= items[v][1][2] - 1
      <4>1. IsSeen(v, n) /\ ToLookAt(v, n[2])
        BY <2>3, <3>1 DEF Stop, At
      <4> QED BY <2>2, <2>5, <3>1, <4>1, StopIsBelowNext
    <3>3. CASE items'[v] # <<>>
      BY <2>5, <3>2, <3>3, RestOfPage DEF ToLookAt
    <3>4. CASE items'[v] = <<>>
      <4>1. UNCHANGED <<feed, job, page, more>>
        BY <2>5 DEF CheckNew
      <4>2. more[v] /\ items[v][1][2] - 1 <= Top(job[v].forum, page[v] + 1)
        BY <2>2, <2>5, <3>1, <3>2, <3>4, RestOfPage
      <4>3. Top(job[v].forum, page[v] + 1) \in Nat
        <5>1. job[v].forum \in ForumUser /\ page[v] \in Nat \ {0}
          BY <1>0, <2>1, PollHasForum DEF At
        <5> QED BY <1>0, <5>1, TopType DEF TypeOK
      <4>4. n[2] <= Top(job[v].forum, page[v] + 1)
        BY <2>2, <3>1, <3>2, <4>2, <4>3
      <4>5. n[2] <= Top(job[v].forum, page[v] + 1)' /\ more'[v]
        BY <4>1, <4>2, <4>4 DEF Top
      <4> QED BY <2>5, <3>4, <4>1, <4>5, RestOfPage DEF ToLookAt
    <3> QED BY <3>3, <3>4
  <2>6. CASE TurnPage(v)
    <3>1. At(v, "check") /\ items[v] = <<>> /\ UNCHANGED <<feed, job>>
      BY <2>6 DEF TurnPage
    <3>2. pc'[v] = "fetch" /\ page'[v] = page[v] + 1
      BY <1>0, <2>6 DEF TurnPage, Goto, TypeOK, PollerTypeOK
    <3>3. n[2] <= Top(job[v].forum, page[v] + 1)
      BY <2>3, <3>1 DEF ToLookAt, At
    <3> QED BY <3>1, <3>2, <3>3 DEF ToLookAt, At, Top
  <2>7. CASE CheckKnown(v) \/ Send(v)
    BY <1>0, <2>7 DEF CheckKnown, Send, Goto, TypeOK, PollerTypeOK
  <2>8. FetchPage(v) \/ CheckNew(v) \/ TurnPage(v) \/ CheckKnown(v) \/ Send(v)
    BY <1>0, <1>1, <1>4, LeavingStep DEF Looking
  <2> QED BY <2>4, <2>5, <2>6, <2>7, <2>8
<1>5. CASE UNCHANGED <<pc[v], job[v], page[v], items[v], more[v]>>
  <2>1. ~ At(v, "rest") /\ pc[v] \in {"fetch", "check"}
    BY <1>5 DEF At
  <2>2. n[2] \in Nat \ {0} /\ ToLookAt(v, n[2])
    BY <1>3, <2>1 DEF Stop
  <2> QED BY <1>0, <1>5, <2>1, <2>2, StillLooksOn
<1>6. CASE EnqueueStep(v)
  <2>1. CASE StartPoll(v)
    <3>1. /\ pc'[v] = "fetch" /\ page'[v] = 1 /\ job'[v].forum = account[v].forum
          /\ UNCHANGED feed
      <4>1. /\ batch[v] # NoJob /\ At(v, "rest") /\ pc'[v] = "fetch"
            /\ job'[v] = batch[v] /\ page'[v] = page[v] /\ UNCHANGED feed
        BY <1>0, <2>1 DEF StartPoll, Goto, TypeOK, PollerTypeOK
      <4> QED BY <1>1, <4>1 DEF OneForum, StartsOver
    <3>2. n[2] <= feed[account[v].forum] /\ n[1] = account[v].forum
      BY DEF Stop, Exists
    <3>3. PICK f \in ForumUser : f = account[v].forum
      BY <3>2 DEF Notification
    <3>4. Top(f, 1) = feed[f]
      BY <1>0, ForumAssumption DEF Top, TypeOK, ForumTypeOK
    <3>5. n[2] <= Top(f, 1)'
      BY <3>1, <3>2, <3>3, <3>4 DEF Top
    <3> QED BY <3>1, <3>3, <3>5 DEF ToLookAt, At
  <2>2. CASE ReadDue(v) \/ PassOver(v)
    BY <1>5, <2>2 DEF ReadDue, PassOver
  <2> QED BY <1>6, <2>1, <2>2 DEF EnqueueStep, Enqueue
<1>7. CASE Restart
  BY <1>7 DEF Restart, ForgetPolls
<1> QED BY <1>0, <1>4, <1>5, <1>6, <1>7, StepForUser

\* Only Record makes a poll stop elsewhere.
LEMMA StillStops ==
  ASSUME Established, [Next]_vars, NEW v \in User, StartsOver(v), OneForum(v),
         Continues(v), ~ Record(v), NEW n \in Notification, Stop(v, n)
  PROVE  Stop(v, n)'
<1>1. /\ FirstBinding(v) /\ account'[v].forum = account[v].forum /\ seen'[v] = seen[v]
  BY DEF Continues
<1>2. Exists(n)'
  <2>1. n[1] \in ForumUser /\ n[2] \in Nat /\ n[2] <= feed[n[1]]
    BY DEF Stop, Exists, Notification
  <2> QED BY <2>1, FeedGrows DEF Exists, Established
<1>3. IsSeen(v, n)'
  BY <1>1 DEF Stop, IsSeen, SeenIds
<1>4. pc'[v] \in {"fetch", "check"} => ToLookAt(v, n[2])'
  BY <1>1, StillAhead
<1> QED BY <1>1, <1>2, <1>3, <1>4 DEF Stop

LEMMA SeenIsAheadStep ==
  ASSUME Established, [Next]_vars, NEW v \in User,
         Untouched(v), StartsOver(v), WasPosted(v), OneForum(v), SeenIsAhead(v)
  PROVE  SeenIsAhead(v)'
<1> SUFFICES ASSUME FirstBinding(v)', pc'[v] \in {"fetch", "check"}, NEW n \in SeenIds(v)'
             PROVE  ToLookAt(v, n[2])'
  BY DEF SeenIsAhead
<1>0. TypeOK
  BY EstablishedType
<1>1. Continues(v)
  <2>1. ~ Begins(v)
    BY BeginsFromNothing
  <2> QED BY <1>0, <2>1, FirstBindingStep
<1>2. ~ Record(v)
  BY <1>0 DEF Record, Goto, TypeOK, PollerTypeOK
<1>3. FirstBinding(v) /\ n \in SeenIds(v)
  BY <1>1, <1>2 DEF Continues, SeenIds
<1>4. n \in sent[v] \cup history[v]
  BY <1>3 DEF Established, HistoryIsJustified, SeenWasSent, Known
<1>5. n \in Notification /\ n[1] = account[v].forum /\ Exists(n)
  BY <1>0, <1>3, <1>4 DEF TypeOK, PollerTypeOK, OneForum, WasPosted
<1>6. Stop(v, n)
  BY <1>3, <1>5 DEF Stop, IsSeen, SameId, SeenIsAhead
<1> QED BY <1>2, <1>3, <1>5, <1>6, StillAhead

LEMMA KnownStep ==
  Established /\ FirstBindingIsKnown /\ [Next]_vars => FirstBindingIsKnown'
<1> SUFFICES ASSUME Established, FirstBindingIsKnown, [Next]_vars, NEW v \in User
             PROVE  (Untouched(v) /\ StartsOver(v) /\ WasPosted(v) /\ OneForum(v)
                       /\ SeenIsAhead(v))'
  BY DEF FirstBindingIsKnown
<1>1. /\ TypeOK
      /\ Untouched(v) /\ StartsOver(v) /\ WasPosted(v) /\ OneForum(v) /\ SeenIsAhead(v)
  BY EstablishedType DEF FirstBindingIsKnown
<1> QED BY <1>1, UntouchedStep, StartsOverStep, WasPostedStep, OneForumStep, SeenIsAheadStep

-----------------------------------------------------------------------------
(* The recording.                                                          *)

\* Trimming keeps the latest entry.
LEMMA TrimmedKeepsLast ==
  ASSUME NEW S, NEW s \in Seq(S), s # <<>>
  PROVE  \E i \in 1 .. Len(Trimmed(s)) : Trimmed(s)[i] = s[Len(s)]
<1>0. Len(s) \in Nat \ {0}
  OBVIOUS
<1>1. CASE Len(s) <= SeenLimit
  BY <1>0, <1>1 DEF Trimmed
<1>2. CASE ~ (Len(s) <= SeenLimit)
  <2> DEFINE m == Len(s) - SeenLimit + 1
  <2>1. m \in 1 .. Len(s) /\ Trimmed(s) = SubSeq(s, m, Len(s))
    BY <1>2, StoreAssumption DEF Trimmed
  <2>2. \A i \in m .. Len(s) : s[i] \in S
    BY <2>1
  <2>3. /\ Len(Trimmed(s)) = Len(s) - m + 1
        /\ \A i \in 1 .. Len(s) - m + 1 : Trimmed(s)[i] = s[m + i - 1]
    BY <2>1, <2>2, SubSeqProperties
  <2>4. Len(s) - m + 1 \in 1 .. Len(Trimmed(s)) /\ m + (Len(s) - m + 1) - 1 = Len(s)
    BY <2>1, <2>3
  <2> HIDE DEF m
  <2>5. Trimmed(s)[Len(s) - m + 1] = s[Len(s)]
    BY <2>3, <2>4
  <2> QED BY <2>4, <2>5
<1> QED BY <1>1, <1>2

\* The delivered notification is the latest of the history, unless its id is in it.
LEMMA RecordReaches ==
  ASSUME HistoryIsJustified, NEW u \in User, Record(u)
  PROVE  /\ At(u, "record") /\ At(u, "send")'
         /\ fresh[u] # <<>> /\ fresh[u] \in Seq(Notification) /\ fresh'[u] = Tail(fresh[u])
         /\ Head(fresh[u]) = fresh[u][1] /\ fresh[u][1] \in Notification
         /\ Len(seen'[u]) <= SeenLimit /\ SeenIds(u)' \subseteq SeenIds(u) \cup {fresh[u][1]}
         /\ IF IsSeen(u, fresh[u][1])
            THEN Len(seen[u]) <= SeenLimit => seen'[u] = seen[u]
            ELSE fresh[u][1] \in SeenIds(u)'
<1>0. TypeOK
  BY DEF HistoryIsJustified
<1>1. /\ At(u, "record") /\ At(u, "send")' /\ fresh[u] # <<>>
      /\ fresh'[u] = Tail(fresh[u]) /\ fresh[u] \in Seq(Notification)
  BY <1>0 DEF HistoryIsJustified, RecordedIsSent, Record, Goto, At, TypeOK, PollerTypeOK
<1> DEFINE n == Head(fresh[u])
           s == IF IsSeen(u, n) THEN seen[u] ELSE Append(seen[u], n)
<1>2. n = fresh[u][1] /\ n \in Notification
  BY <1>1
<1>3. s \in Seq(Notification) /\ seen[u] \in Seq(Notification)
  BY <1>0, <1>2 DEF TypeOK, StoreTypeOK
<1>4. seen'[u] = Trimmed(s)
  BY <1>0 DEF Record, AddSeen, TypeOK, StoreTypeOK
<1>5. Len(seen'[u]) <= SeenLimit
  BY <1>3, <1>4, TrimmedFits
<1>6. SeenIds(u)' \subseteq SeenIds(u) \cup {n}
  BY <1>0, <1>2, AddSeenType DEF Record, TypeOK
<1>7. CASE IsSeen(u, n)
  <2>1. seen'[u] = Trimmed(seen[u])
    BY <1>4, <1>7
  <2>2. Len(seen[u]) <= SeenLimit => seen'[u] = seen[u]
    BY <2>1 DEF Trimmed
  <2> QED BY <1>1, <1>2, <1>5, <1>6, <1>7, <2>2
<1>8. CASE ~ IsSeen(u, n)
  <2>1. s = Append(seen[u], n)
    BY <1>8
  <2>2. s # <<>> /\ s[Len(s)] = n
    BY <1>2, <1>3, <2>1
  <2> HIDE DEF n, s
  <2>3. n \in SeenIds(u)'
    BY <1>3, <1>4, <2>2, TrimmedKeepsLast DEF SeenIds
  <2> QED BY <1>1, <1>2, <1>5, <1>6, <1>8, <2>3
<1> QED BY <1>7, <1>8

\* What CheckNew does to the list.
LEMMA ListGrows ==
  ASSUME Established, NEW u \in User, CheckNew(u)
  PROVE  /\ fresh[u] \in Seq(Notification) /\ fresh'[u] # <<>>
         /\ Len(fresh'[u]) = Len(fresh[u]) + 1 /\ fresh'[u][1][2] = items[u][1][2]
         /\ \A i \in 2 .. Len(fresh'[u]) : fresh'[u][i] = fresh[u][i - 1]
<1>0. TypeOK
  BY EstablishedType
<1>1. Head(items[u]) \in Notification /\ Head(items[u]) = items[u][1]
  BY NextOfPage DEF CheckNew
<1>2. fresh'[u] = <<Head(items[u])>> \o fresh[u] /\ fresh[u] \in Seq(Notification)
  BY <1>0 DEF CheckNew, TypeOK, PollerTypeOK
<1>3. <<Head(items[u])>> \in Seq(Notification)
  BY <1>1
<1> QED BY <1>1, <1>2, <1>3

LEMMA UnseenStep ==
  Established /\ FirstBindingIsKnown /\ NewIsUnseen /\ [Next]_vars => NewIsUnseen'
<1> SUFFICES ASSUME Established, FirstBindingIsKnown, NewIsUnseen, [Next]_vars, NEW v \in User,
                    FirstBinding(v)', Looking(v)',
                    pc'[v] \in {"fetch", "check"} \/ Len(seen'[v]) > SeenLimit,
                    NEW i \in 1 .. Len(fresh'[v])
             PROVE  \A m \in SeenIds(v)' : ~ SameId(m, fresh'[v][i])
  BY DEF NewIsUnseen, FreshIsUnseen, IsSeen
<1>0. TypeOK /\ HistoryIsJustified /\ InOrder(v) /\ Untouched(v)
  BY EstablishedType DEF Established, FirstBindingIsKnown
<1>1. Continues(v)
  <2>1. ~ Begins(v)
    BY <1>0, BeginsFromNothing DEF Looking
  <2> QED BY <1>0, <2>1, FirstBindingStep
<1>2. ~ Record(v)
  <2>1. ASSUME Record(v) PROVE FALSE
    <3>1. pc'[v] = "send" /\ Len(seen'[v]) <= SeenLimit
      BY <1>0, <2>1, RecordReaches DEF At
    <3>2. Len(seen'[v]) \in Nat
      <4>1. seen'[v] \in Seq(Notification)
        BY <1>0, NextType DEF HistoryIsJustified, TypeOK, StoreTypeOK
      <4> QED BY <4>1
    <3> QED BY <3>1, <3>2, StoreAssumption
  <2> QED BY <2>1
<1>3. FirstBinding(v) /\ seen'[v] = seen[v]
  BY <1>1, <1>2 DEF Continues
<1>4. Looking(v) /\ (pc[v] \in {"fetch", "check"} \/ Len(seen[v]) > SeenLimit) =>
        \A j \in 1 .. Len(fresh[v]) : \A m \in SeenIds(v)' : ~ SameId(m, fresh[v][j])
  BY <1>3 DEF NewIsUnseen, FreshIsUnseen, IsSeen, SeenIds
<1>5. CASE CheckNew(v)
  <2>1. At(v, "check") /\ ~ IsSeen(v, Head(items[v])) /\ Head(items[v]) = items[v][1]
        /\ fresh'[v] = <<Head(items[v])>> \o fresh[v] /\ fresh[v] \in Seq(Notification)
    BY <1>0, <1>5, NextOfPage DEF CheckNew, TypeOK, PollerTypeOK
  <2>2. CASE i = 1
    <3>1. fresh'[v][i] = Head(items[v])
      BY <2>1, <2>2
    <3> QED BY <1>3, <2>1, <3>1 DEF IsSeen, SeenIds
  <2>3. CASE i # 1
    <3>1. i - 1 \in 1 .. Len(fresh[v]) /\ fresh'[v][i] = fresh[v][i - 1]
      BY <1>5, <2>1, <2>3, ListGrows
    <3> QED BY <1>4, <2>1, <3>1 DEF Looking, At
  <2> QED BY <2>2, <2>3
<1>6. CASE FetchPage(v) \/ CheckKnown(v) \/ TurnPage(v) \/ Send(v)
  <2>1. UNCHANGED fresh /\ Looking(v)
        /\ (pc[v] \in {"fetch", "check"} \/ pc'[v] = "record")
    BY <1>0, <1>6 DEF FetchPage, CheckKnown, TurnPage, Send, Looking, Goto, At, TypeOK,
                      PollerTypeOK
  <2> QED BY <1>3, <1>4, <2>1
<1>7. CASE PollStep(v)
  BY <1>0, <1>2, <1>5, <1>6, <1>7, LeavingStep
<1>8. CASE EnqueueStep(v)
  <2>1. fresh'[v] = fresh[v] /\ (At(v, "rest") \/ pc'[v] = pc[v])
    BY <1>8 DEF EnqueueStep, Enqueue, ReadDue, PassOver, StartPoll
  <2>2. CASE At(v, "rest")
    BY <1>0, <2>1, <2>2 DEF InOrder, Blank
  <2>3. CASE pc'[v] = pc[v]
    BY <1>3, <1>4, <2>1, <2>3 DEF Looking
  <2> QED BY <2>1, <2>2, <2>3
<1>9. CASE Restart
  BY <1>9 DEF Restart, ForgetPolls, Looking
<1>10. CASE UNCHANGED <<pc[v], fresh[v]>>
  BY <1>3, <1>4, <1>10 DEF Looking
<1> QED BY <1>0, <1>7, <1>8, <1>9, <1>10, StepForUser

\* What was recorded stops the next poll.
LEMMA RecordIsSeen ==
  ASSUME Established, NEW u \in User, FirstBinding(u), FreshIsUnseen(u), Record(u)
  PROVE  \E m \in SeenIds(u)' : SameId(m, fresh[u][1])
<1>1. /\ At(u, "record") /\ fresh[u] # <<>> /\ fresh[u] \in Seq(Notification)
      /\ IF IsSeen(u, fresh[u][1])
         THEN Len(seen[u]) <= SeenLimit => seen'[u] = seen[u]
         ELSE fresh[u][1] \in SeenIds(u)'
  BY RecordReaches DEF Established
<1>2. CASE IsSeen(u, fresh[u][1])
  <2>1. Len(seen[u]) <= SeenLimit
    <3>1. 1 \in 1 .. Len(fresh[u])
      BY <1>1
    <3>2. Len(seen[u]) \in Nat
      <4>1. seen[u] \in Seq(Notification)
        BY EstablishedType DEF TypeOK, StoreTypeOK
      <4> QED BY <4>1
    <3> QED BY <1>1, <1>2, <3>1, <3>2, StoreAssumption DEF FreshIsUnseen, Looking, At
  <2> QED BY <1>1, <1>2, <2>1 DEF IsSeen, SeenIds
<1>3. CASE ~ IsSeen(u, fresh[u][1])
  BY <1>1, <1>3 DEF IsSeen, SameId
<1> QED BY <1>2, <1>3

-----------------------------------------------------------------------------
(* What the first binding left unsent.                                     *)

LEMMA BaselineIsRestStep ==
  ASSUME Established, PageSize > 1, [Next]_vars, NEW v \in User,
         Untouched(v), BaselineIsRest(v)
  PROVE  BaselineIsRest(v)'
<1>0. TypeOK
  BY EstablishedType
<1>1. CASE UNCHANGED <<cpc[v], latest[v], baseline[v], begun[v]>>
  BY <1>1 DEF BaselineIsRest, In
<1>2. CASE cpc'[v] \notin {"lookup", "bind"}
  BY <1>2 DEF BaselineIsRest, In
<1>3. ASSUME NEW u \in User, HandlerStep(u) PROVE BaselineIsRest(v)'
  <2>1. CASE u # v
    <3>1. UNCHANGED begun[v]
      BY <1>0, <1>3, <2>1 DEF HandlerStep, TypeOK
    <3>2. UNCHANGED <<cpc[v], latest[v], baseline[v]>>
      BY <1>0, <1>3, <2>1 DEF HandlerStep, Handle, Validate, ValidateFails, Lookup, Save, SaveFails,
        StatusWrite, StatusWriteFails, ScheduleNow, Stay, Done, TypeOK, ControllerTypeOK
    <3> QED BY <1>1, <3>1, <3>2
  <2>2. CASE Validate(v)
    <3>1. PICK f \in ForumUser : f = Owner[cred[v]]
      BY <1>0, <2>2, ForumAssumption DEF Validate, In, TypeOK, ControllerTypeOK
    <3>2. cpc'[v] = "lookup" /\ latest'[v] = PageItems(f, 1)
      BY <1>0, <2>2, <3>1 DEF Validate, Stay, TypeOK, ControllerTypeOK
    <3>3. /\ Top(f, 1) \in Nat
          /\ Len(latest'[v]) = IF Top(f, 1) < PageSize THEN Top(f, 1) ELSE PageSize
          /\ \A i \in 1 .. Len(latest'[v]) : latest'[v][i] = <<f, Top(f, 1) - i + 1>>
          /\ latest'[v] \in Seq(Notification)
      BY <1>0, <3>2, TopType, PageIsRun, PageItemsType DEF TypeOK
    <3>4. latest'[v] # <<>> => Len(latest'[v]) \in Nat \ {0}
      BY <3>3
    <3>5. latest'[v] = <<>> \/ Len(latest'[v]) > 1 \/ latest'[v][1][2] = 1
      BY <3>3, <3>4, ForumAssumption
    <3> QED BY <3>2, <3>5 DEF BaselineIsRest, In
  <2>3. CASE Lookup(v)
    <3>1. /\ In(v, "lookup") /\ cpc'[v] = "bind" /\ latest'[v] = latest[v]
          /\ baseline'[v] = IF Changed(v, Owner[cred[v]]) /\ latest[v] # <<>>
                            THEN Tail(latest[v]) ELSE <<>>
      BY <1>0, <2>3 DEF Lookup, Stay, TypeOK, ControllerTypeOK
    <3>2. UNCHANGED begun[v]
      BY <1>0, <1>3, <3>1 DEF HandlerStep, NewBinding, In, TypeOK
    <3>3. begun[v] = 0 => Changed(v, Owner[cred[v]])
      BY DEF Untouched, Changed
    <3> QED BY <3>1, <3>2, <3>3 DEF BaselineIsRest, In
  <2>4. CASE \/ ValidateFails(v) \/ Save(v) \/ SaveFails(v)
             \/ StatusWrite(v) \/ StatusWriteFails(v) \/ ScheduleNow(v)
    <3>1. cpc'[v] \notin {"lookup", "bind"}
      BY <1>0, <2>4 DEF ValidateFails, Save, SaveFails, StatusWrite, StatusWriteFails, ScheduleNow,
                        Stay, Done, TypeOK, ControllerTypeOK
    <3> QED BY <1>2, <3>1
  <2> QED BY <1>3, <2>1, <2>2, <2>3, <2>4 DEF HandlerStep, Handle
<1>4. CASE CommandStep
  <2>1. UNCHANGED begun
    BY <1>4 DEF CommandStep
  <2>2. ASSUME NEW u \in User, CredentialReceive(u) \/ StatusRead(u) PROVE BaselineIsRest(v)'
    <3>1. CASE u = v
      <4>1. cpc'[v] \notin {"lookup", "bind"}
        BY <1>0, <2>2, <3>1 DEF CredentialReceive, StatusRead, Stay, TypeOK, ControllerTypeOK
      <4> QED BY <1>2, <4>1
    <3>2. CASE u # v
      BY <1>0, <1>1, <2>1, <2>2, <3>2 DEF CredentialReceive, StatusRead, Stay, TypeOK,
                                          ControllerTypeOK
    <3> QED BY <3>1, <3>2
  <2>3. CASE SetGlobalPaused \/ \E u \in User : Unbind(u) \/ Ban(u) \/ Unban(u)
    BY <1>1, <2>1, <2>3 DEF SetGlobalPaused, Unbind, Ban, Unban
  <2> QED BY <1>4, <2>2, <2>3 DEF CommandStep, Command
<1>5. ASSUME NEW u \in User, EnqueueStep(u) \/ PollStep(u) \/ ClockStep(u)
      PROVE  BaselineIsRest(v)'
  BY <1>1, <1>5 DEF EnqueueStep, PollStep, ClockStep
<1>6. CASE Restart
  BY <1>2, <1>6 DEF Restart, ForgetHandlers
<1>7. CASE ForumStep \/ UNCHANGED vars
  BY <1>1, <1>7 DEF ForumStep, vars
<1> QED BY <1>3, <1>4, <1>5, <1>6, <1>7 DEF Next

\* The baseline of the first binding reaches the newest of what it leaves unsent.
LEMMA BaselineReaches ==
  ASSUME Established, NEW u \in User, Untouched(u), BaselineIsRest(u), Begins(u),
         NEW n \in Earlier(u)
  PROVE  Reaches(u, n[2])'
<1>1. /\ In(u, "bind") /\ begun[u] = 0
      /\ baseline[u] # <<>> => baseline[u][1] \in SeenIds(u)'
  BY DEF Begins
<1>2. latest[u] # <<>> /\ latest[u] \in Seq(Notification)
  BY EarlierIsOfOwner, EstablishedType DEF TypeOK, ControllerTypeOK
<1>3. PICK h \in Nat \ {0} : h = latest[u][1][2]
  <2>1. latest[u][1] \in Notification
    BY <1>2
  <2> QED BY <2>1 DEF Notification
<1>4. n[2] \in Nat \ {0} /\ n[2] <= h - 1
  <2>1. Head(latest[u])[2] = h
    BY <1>2, <1>3
  <2>2. PICK k \in 1 .. (h - 1) : n = <<Owner[cred[u]], k>>
    BY <2>1, EarlierIsOfOwner
  <2> QED BY <2>2
<1>5. Len(latest[u]) > 1 /\ baseline[u] = Tail(latest[u])
  BY <1>1, <1>2, <1>3, <1>4 DEF BaselineIsRest
<1>6. baseline[u] # <<>> /\ baseline[u][1] = latest[u][2] /\ Len(latest[u]) \in Nat
  <2> DEFINE l == latest[u]
  <2>1. l \in Seq(Notification) /\ l # <<>> /\ Len(l) \in Nat /\ Len(l) > 1
    BY <1>2, <1>5
  <2> HIDE DEF l
  <2>2. Len(Tail(l)) = Len(l) - 1 /\ Tail(l)[1] = l[2]
    BY <2>1
  <2>3. Tail(l) \in Seq(Notification) /\ Len(Tail(l)) # 0
    BY <2>1, <2>2, HeadTailProperties
  <2>4. Tail(l) # <<>>
    BY <2>3, EmptySeq
  <2> QED BY <1>5, <2>1, <2>2, <2>4 DEF l
<1>7. latest[u][2] = <<Owner[cred[u]], h - 2 + 1>>
  <2>1. OrderedPage(u)
    BY DEF Established, HistoryIsJustified, PageIsInOrder
  <2>2. 2 \in 1 .. Len(latest[u])
    BY <1>5, <1>6
  <2> QED BY <1>1, <1>3, <2>1, <2>2 DEF OrderedPage
<1>8. baseline[u][1] \in SeenIds(u)' /\ baseline[u][1][2] = h - 1
  BY <1>1, <1>3, <1>6, <1>7
<1> QED BY <1>4, <1>8 DEF Reaches

LEMMA HistoryIsBehindStep ==
  ASSUME Established, [Next]_vars, NEW v \in User,
         Untouched(v), OneForum(v), SeenIsAhead(v), FreshIsUnseen(v), BaselineIsRest(v),
         HistoryIsBehind(v)
  PROVE  HistoryIsBehind(v)'
<1>0. TypeOK /\ HistoryIsJustified /\ InOrder(v)
  BY EstablishedType DEF Established
<1> SUFFICES ASSUME FirstBinding(v)' PROVE HistoryIsBehind(v)'
  BY DEF HistoryIsBehind
<1>1. CASE Begins(v)
  <2>1. sent'[v] = {} /\ history'[v] = Earlier(v) /\ ~ Looking(v)'
    BY <1>1, BeginsFromNothing DEF Looking
  <2>2. \A n \in history'[v] : Reaches(v, n[2])'
    BY <1>1, <2>1, BaselineReaches
  <2> QED BY <2>1, <2>2 DEF HistoryIsBehind
<1>2. CASE Continues(v)
  <2> DEFINE left == history[v]
  <2>1. FirstBinding(v) /\ history'[v] = left
    BY <1>2 DEF Continues
  <2>2. /\ sent[v] \cap left = {}
        /\ \A n \in left : Reaches(v, n[2]) /\ n[2] \in Nat
        /\ Looking(v) => \A n \in left : \A i \in 1 .. Len(fresh[v]) : n[2] < fresh[v][i][2]
    BY <1>0, <2>1 DEF HistoryIsBehind, TypeOK, Notification
  <2> HIDE DEF left
  <2>3. ASSUME seen'[v] = seen[v], sent'[v] \cap left = {},
               Looking(v)' => \A n \in left : \A i \in 1 .. Len(fresh'[v]) : n[2] < fresh'[v][i][2]
        PROVE  HistoryIsBehind(v)'
    BY <2>1, <2>2, <2>3 DEF HistoryIsBehind, Reaches, SeenIds
  <2>4. CASE Record(v)
    <3>1. /\ At(v, "record") /\ fresh[v] # <<>> /\ fresh[v] \in Seq(Notification)
          /\ fresh'[v] = Tail(fresh[v]) /\ Len(seen'[v]) <= SeenLimit
          /\ fresh[v][1] \in Notification
          /\ IF IsSeen(v, fresh[v][1])
             THEN Len(seen[v]) <= SeenLimit => seen'[v] = seen[v]
             ELSE fresh[v][1] \in SeenIds(v)'
      BY <1>0, <2>4, RecordReaches
    <3>2. UNCHANGED sent
      BY <2>4 DEF Record
    <3>3. \A n \in left : \A i \in 1 .. Len(fresh[v]) : n[2] < fresh[v][i][2]
      BY <2>2, <3>1 DEF Looking, At
    <3>4. \A n \in left : \A i \in 1 .. Len(fresh'[v]) : n[2] < fresh'[v][i][2]
      <4>1. \A i \in 1 .. Len(fresh'[v]) : i + 1 \in 1 .. Len(fresh[v])
                                          /\ fresh'[v][i] = fresh[v][i + 1]
        BY <3>1
      <4> QED BY <3>3, <4>1
    <3>5. 1 \in 1 .. Len(fresh[v]) /\ \A n \in left : n[2] < fresh[v][1][2]
      BY <3>1, <3>3
    <3>6. CASE IsSeen(v, fresh[v][1])
      <4>1. Len(seen[v]) \in Nat
        <5>1. seen[v] \in Seq(Notification)
          BY <1>0 DEF TypeOK, StoreTypeOK
        <5> QED BY <5>1
      <4>2. Len(seen[v]) <= SeenLimit
        BY <2>1, <3>1, <3>5, <3>6, <4>1, StoreAssumption DEF FreshIsUnseen, Looking, At
      <4>3. seen'[v] = seen[v]
        BY <3>1, <3>6, <4>2
      <4> QED BY <2>2, <2>3, <3>2, <3>4, <4>3
    <3>7. CASE ~ IsSeen(v, fresh[v][1])
      <4>1. \A n \in left : Reaches(v, n[2])'
        BY <2>2, <3>1, <3>5, <3>7 DEF Reaches, Notification
      <4> QED BY <2>1, <2>2, <3>1, <3>2, <3>4, <4>1 DEF HistoryIsBehind
    <3> QED BY <3>6, <3>7
  <2>5. CASE PollStep(v) /\ ~ Record(v)
    <3>1. seen'[v] = seen[v]
      BY <2>5, PollKeepsSeen
    <3>2. sent'[v] \cap left = {}
      <4>1. CASE UNCHANGED sent
        BY <2>2, <4>1
      <4>2. CASE At(v, "send") /\ fresh[v] # <<>> /\ Deliver(v, Head(fresh[v]))
        <5>1. sent'[v] = sent[v] \cup {fresh[v][1]} /\ 1 \in 1 .. Len(fresh[v])
          BY <1>0, <4>2 DEF Deliver, TypeOK, PollerTypeOK
        <5>2. \A n \in left : n[2] < fresh[v][1][2]
          BY <2>2, <4>2, <5>1 DEF Looking, At
        <5>3. fresh[v][1] \notin left
          BY <2>2, <5>2
        <5> QED BY <2>2, <5>1, <5>3
      <4> QED BY <1>0, <2>5, <4>1, <4>2, PollKeepsTask
    <3>3. Looking(v)' => \A n \in left : \A i \in 1 .. Len(fresh'[v]) : n[2] < fresh'[v][i][2]
      <4>1. CASE CheckNew(v)
        <5>1. /\ \A i \in 2 .. Len(fresh'[v]) : fresh'[v][i] = fresh[v][i - 1]
              /\ Len(fresh'[v]) = Len(fresh[v]) + 1 /\ fresh'[v][1][2] = items[v][1][2]
              /\ fresh[v] \in Seq(Notification)
          BY <4>1, ListGrows
        <5>2. \A n \in left : n[2] < items[v][1][2]
          <6>1. ASSUME NEW n \in left, NEW m \in SeenIds(v), m[2] >= n[2]
                PROVE  n[2] < items[v][1][2]
            <7>1. m[2] < items[v][1][2]
              BY <2>1, <4>1, SeenIsBelowNext
            <7>2. m[2] \in Nat /\ items[v][1][2] \in Nat
              BY <2>1, <4>1, SeenIsOfForum, NextOfPage DEF CheckNew, At
            <7> QED BY <2>2, <6>1, <7>1, <7>2
          <6> QED BY <2>2, <6>1 DEF Reaches
        <5>3. ASSUME NEW n \in left, NEW i \in 1 .. Len(fresh'[v]) PROVE n[2] < fresh'[v][i][2]
          <6>1. CASE i = 1
            BY <5>1, <5>2, <6>1
          <6>2. CASE i # 1
            <7>1. i \in 2 .. Len(fresh'[v]) /\ i - 1 \in 1 .. Len(fresh[v])
              BY <5>1, <6>2
            <7>2. n[2] < fresh[v][i - 1][2]
              BY <2>2, <4>1, <7>1 DEF CheckNew, Looking, At
            <7> QED BY <5>1, <7>1, <7>2
          <6> QED BY <6>1, <6>2
        <5> QED BY <5>3
      <4>2. CASE FetchPage(v) \/ CheckKnown(v) \/ TurnPage(v) \/ Send(v)
        <5>1. UNCHANGED fresh /\ Looking(v)
          BY <4>2 DEF FetchPage, CheckKnown, TurnPage, Send, Looking, At
        <5> QED BY <2>2, <5>1
      <4> QED BY <1>0, <2>5, <4>1, <4>2, LeavingStep
    <3> QED BY <2>3, <3>1, <3>2, <3>3
  <2>6. CASE ~ PollStep(v)
    <3>1. seen'[v] = seen[v]
      BY <1>2, <2>6 DEF Continues
    <3>2. CASE EnqueueStep(v)
      <4>1. UNCHANGED <<sent, fresh>>
        BY <3>2 DEF EnqueueStep, Enqueue, ReadDue, PassOver, StartPoll
      <4>2. Looking(v)' => Looking(v) \/ fresh[v] = <<>>
        BY <1>0, <3>2 DEF EnqueueStep, Enqueue, ReadDue, PassOver, StartPoll, InOrder, Blank,
                          Looking
      <4> QED BY <2>2, <2>3, <3>1, <4>1, <4>2
    <3>3. CASE Restart
      BY <2>2, <2>3, <3>1, <3>3 DEF Restart, ForgetPolls, Looking
    <3>4. CASE UNCHANGED <<pc[v], fresh[v], sent[v]>>
      BY <2>2, <2>3, <3>1, <3>4 DEF Looking
    <3> QED BY <1>0, <2>6, <3>2, <3>3, <3>4, StepForUser
  <2> QED BY <2>4, <2>5, <2>6
<1> QED BY <1>0, <1>1, <1>2, FirstBindingStep

LEMMA HistoryLeftStep ==
  ASSUME PageSize > 1
  PROVE  Established /\ FirstBindingIsKnown /\ NewIsUnseen /\ HistoryIsLeft /\ [Next]_vars
           => HistoryIsLeft'
<1> SUFFICES ASSUME Established, FirstBindingIsKnown, NewIsUnseen, HistoryIsLeft, [Next]_vars,
                    NEW v \in User
             PROVE  HistoryIsBehind(v)' /\ BaselineIsRest(v)'
  BY DEF HistoryIsLeft
<1>1. /\ Untouched(v) /\ OneForum(v) /\ SeenIsAhead(v) /\ FreshIsUnseen(v)
      /\ HistoryIsBehind(v) /\ BaselineIsRest(v)
  BY DEF FirstBindingIsKnown, NewIsUnseen, HistoryIsLeft
<1> QED BY <1>1, HistoryIsBehindStep, BaselineIsRestStep

\* Where nothing has begun, there is nothing to be known.
LEMMA InitIsBlank ==
  ASSUME Init, NEW u \in User
  PROVE  /\ begun[u] = 0 /\ ~ Bound(u) /\ batch[u] = NoJob /\ pc[u] = "rest" /\ page[u] = 1
         /\ sent[u] = {} /\ history[u] = {} /\ repeats[u] = 0 /\ cpc[u] = "idle"
BY DEF Init, StoreInit, PollerInit, PollerIdle, ControllerInit, HandlersIdle, Bound

LEMMA InitFirstBinding == Init => FirstBindingIsKnown /\ NewIsUnseen /\ HistoryIsLeft
<1> SUFFICES ASSUME Init, NEW u \in User
             PROVE  /\ Untouched(u) /\ StartsOver(u) /\ WasPosted(u) /\ OneForum(u)
                    /\ SeenIsAhead(u) /\ FreshIsUnseen(u) /\ HistoryIsBehind(u)
                    /\ BaselineIsRest(u)
  BY DEF FirstBindingIsKnown, NewIsUnseen, HistoryIsLeft
<1>1. ~ FirstBinding(u)
  BY InitIsBlank DEF FirstBinding
<1>2. Untouched(u) /\ StartsOver(u) /\ WasPosted(u)
  BY InitIsBlank DEF Untouched, StartsOver, WasPosted, At
<1>3. BaselineIsRest(u)
  BY InitIsBlank DEF BaselineIsRest, In
<1> QED BY <1>1, <1>2, <1>3 DEF OneForum, SeenIsAhead, FreshIsUnseen, HistoryIsBehind

LEMMA InitEstablished == Init => Established
<1> SUFFICES ASSUME Init PROVE Established
  OBVIOUS
<1>1. HistoryIsJustified
  BY InitJustified
<1> QED BY <1>1, InitLeftOut, InitDelivers DEF Established

LEMMA EstablishedStep == Established /\ [Next]_vars => Established'
BY NextJustified, NextLeftOut, NothingInventedStep DEF Established

\* README.md:51 "首次绑定只发送当前最新一条": as long as a user keeps to the first binding,
\* nothing is sent that the forum user had before the latest notification of the
\* page it was bound with, though polls fail, the process is restarted and the
\* cookie is replaced.  A page that shows one notification would leave the
\* history empty, and poll without a place to stop.
THEOREM HistoryIsNeverSent ==
  ASSUME PageSize > 1
  PROVE  Spec => []HistoryIsNotSent
<1> DEFINE Inv == Established /\ FirstBindingIsKnown /\ NewIsUnseen /\ HistoryIsLeft
<1>1. Init => Inv
  BY InitEstablished, InitFirstBinding
<1>2. Inv /\ [Next]_vars => Inv'
  BY EstablishedStep, KnownStep, UnseenStep, HistoryLeftStep
<1>3. Inv => HistoryIsNotSent
  BY DEF HistoryIsLeft, HistoryIsBehind, HistoryIsNotSent
<1> HIDE DEF Inv
<1> QED BY <1>1, <1>2, <1>3, PTL DEF Spec

-----------------------------------------------------------------------------
(* What is repeated, while there is one page.                              *)

\* What is listed, and the history, have places in the forum user's list.
LEMMA Places ==
  ASSUME TypeOK, NEW u \in User
  PROVE  /\ fresh[u] \in Seq(Notification) /\ Len(fresh[u]) \in Nat
         /\ \A i \in 1 .. Len(fresh[u]) :
              fresh[u][i] \in Notification /\ fresh[u][i][2] \in Nat \ {0}
         /\ \A n \in SeenIds(u) \cup sent[u] : n[2] \in Nat \ {0}
         /\ fresh[u] # <<>> => 1 \in 1 .. Len(fresh[u]) /\ Head(fresh[u]) = fresh[u][1]
         /\ repeats[u] \in Nat /\ faults \in Nat
<1>1. fresh[u] \in Seq(Notification) /\ sent[u] \in SUBSET Notification
  BY DEF TypeOK, PollerTypeOK
<1>2. Len(fresh[u]) \in Nat /\ \A i \in 1 .. Len(fresh[u]) : fresh[u][i] \in Notification
  BY <1>1
<1>3. SeenIds(u) \subseteq Notification
  <2>1. seen[u] \in Seq(Notification)
    BY DEF TypeOK, StoreTypeOK
  <2> QED BY <2>1 DEF SeenIds
<1>4. \A n \in Notification : n[2] \in Nat \ {0}
  BY DEF Notification
<1>5. fresh[u] # <<>> => 1 \in 1 .. Len(fresh[u]) /\ Head(fresh[u]) = fresh[u][1]
  BY <1>1
<1>6. repeats[u] \in Nat /\ faults \in Nat
  BY DEF TypeOK, PollerTypeOK
<1> QED BY <1>1, <1>2, <1>3, <1>4, <1>5, <1>6

\* Where nothing is delivered and nothing recorded, the account stays balanced,
\* and a delivery that is given up costs a fault.
LEMMA StillBalanced ==
  ASSUME TypeOK, NEW u \in User,
         UNCHANGED <<seen[u], sent[u], repeats[u]>>, faults' \in Nat, faults <= faults',
         At(u, "record") => At(u, "record")' \/ faults < faults',
         RepeatsArePaid(u)
  PROVE  RepeatsArePaid(u)'
<1>1. repeats[u] \in Nat /\ faults \in Nat
  BY DEF TypeOK, PollerTypeOK
<1>2. Unrecorded(u)' => Unrecorded(u)
  BY DEF Unrecorded, IsSeen, SeenIds
<1>3. repeats'[u] <= faults'
  BY <1>1 DEF RepeatsArePaid
<1>4. ASSUME ~ At(u, "record")', Unrecorded(u)' PROVE repeats'[u] < faults'
  <2>1. CASE At(u, "record")
    BY <1>1, <1>4, <2>1 DEF RepeatsArePaid
  <2>2. CASE ~ At(u, "record")
    BY <1>1, <1>2, <1>4, <2>2 DEF RepeatsArePaid
  <2> QED BY <2>1, <2>2
<1> QED BY <1>3, <1>4 DEF RepeatsArePaid

\* Where nothing is recorded, a poll stops where it would have stopped.
LEMMA StopsFromStays ==
  ASSUME Established, [Next]_vars, NEW u \in User, StartsOver(u), OneForum(u),
         Continues(u), ~ Record(u), NEW k, StopsFrom(u, k)
  PROVE  StopsFrom(u, k)'
<1>1. PICK n \in Notification : Stop(u, n) /\ n[2] >= k
  BY DEF StopsFrom
<1>2. Stop(u, n)'
  BY <1>1, StillStops
<1> QED BY <1>1, <1>2 DEF StopsFrom

LEMMA StillNext ==
  ASSUME Established, [Next]_vars, NEW u \in User, StartsOver(u), OneForum(u),
         Continues(u), ~ Record(u), sent'[u] = sent[u], SentIsNext(u)
  PROVE  SentIsNext(u)'
<1> SUFFICES ASSUME NEW n \in sent[u], n[2] # 1 PROVE StopsFrom(u, n[2] - 1)'
  BY DEF SentIsNext
<1>1. StopsFrom(u, n[2] - 1)
  BY DEF SentIsNext
<1> QED BY <1>1, StopsFromStays

\* What is delivered again had not been recorded, and so is paid for.
LEMMA DeliverIsPaid ==
  ASSUME Established, [Next]_vars, NEW u \in User, StartsOver(u), OneForum(u),
         Continues(u), ~ Record(u), At(u, "send"), fresh[u] # <<>>, Accounted(u),
         Deliver(u, Head(fresh[u]))
  PROVE  SentIsNext(u)' /\ repeats'[u] <= faults
<1>0. TypeOK
  BY EstablishedType
<1>1. 1 \in 1 .. Len(fresh[u]) /\ Head(fresh[u]) = fresh[u][1] /\ fresh[u][1][2] \in Nat \ {0}
  BY <1>0, Places
<1>2. repeats[u] \in Nat /\ faults \in Nat /\ repeats[u] <= faults
  BY <1>0, Places DEF Accounted, RepeatsArePaid
<1>3. sent'[u] = sent[u] \cup {fresh[u][1]}
  BY <1>0, <1>1 DEF Deliver, TypeOK, PollerTypeOK
<1>4. SentIsNext(u)'
  <2> SUFFICES ASSUME NEW n \in sent[u] \cup {fresh[u][1]}, n[2] # 1
               PROVE  StopsFrom(u, n[2] - 1)'
    BY <1>3 DEF SentIsNext
  <2>1. StopsFrom(u, n[2] - 1)
    BY DEF Accounted, SentIsNext, FreshJoins, At
  <2> QED BY <2>1, StopsFromStays
<1>5. CASE fresh[u][1] \in sent[u]
  <2> DEFINE n == fresh[u][1]
  <2>1. ASSUME NEW m \in sent[u], IsSeen(u, m) PROVE m[2] < n[2]
    <3>1. m[2] <= n[2] /\ ~ IsSeen(u, n)
      BY <1>5 DEF Accounted, SentIsBehind, At
    <3>2. m \in Notification /\ n \in Notification
      BY <1>0, <1>5 DEF TypeOK, PollerTypeOK
    <3>3. m[1] = n[1]
      BY <1>5 DEF OneForum, Continues
    <3>4. m[2] # n[2]
      BY <2>1, <3>1, <3>2, <3>3 DEF Notification
    <3> QED BY <3>1, <3>2, <3>4 DEF Notification
  <2>2. repeats[u] < faults
    BY <1>5, <2>1 DEF Accounted, RepeatsArePaid, Unrecorded, At
  <2>3. repeats'[u] = repeats[u] + 1
    BY <1>0, <1>1, <1>5 DEF Deliver, TypeOK, PollerTypeOK
  <2> QED BY <1>2, <1>4, <2>2, <2>3
<1>6. CASE fresh[u][1] \notin sent[u]
  BY <1>1, <1>2, <1>4, <1>6 DEF Deliver
<1> QED BY <1>5, <1>6

LEMMA FetchIsAccounted ==
  ASSUME Established, Established', NEW u \in User, OnePage(u), OneForum(u), Accounted(u),
         SentIsNext(u)', FetchPage(u)
  PROVE  Accounted(u)'
<1>0. TypeOK /\ TypeOK'
  BY EstablishedType DEF Established, HistoryIsJustified
<1>1. At(u, "fetch") /\ UNCHANGED <<store, feed, job, page, fresh, faults, ghosts>>
  BY DEF FetchPage
<1>2. page[u] = 1 /\ fresh[u] = <<>>
  BY <1>1 DEF Accounted, FreshJoins
<1>3. PICK f \in ForumUser : f = job[u].forum
  BY <1>0, <1>1, PollHasForum DEF At
<1>4. pc'[u] = "check" /\ more'[u] = HasNext(f, 1)
  BY <1>0, <1>2, <1>3 DEF FetchPage, Goto, TypeOK, PollerTypeOK
<1>5. feed[f] \in Nat /\ feed[f] <= PageSize
  <2>1. f = account[u].forum
    BY <1>1, <1>3 DEF OnePage, OneForum, At
  <2> QED BY <1>0, <2>1 DEF OnePage, TypeOK, ForumTypeOK
<1>6. Top(f, 1) = feed[f]
  BY <1>5, ForumAssumption DEF Top
<1>7. ~ more'[u]
  <2>1. ~ HasNext(f, 1)
    BY <1>5, <1>6, ForumAssumption DEF HasNext
  <2> QED BY <1>4, <2>1
<1>8. FreshIsRun(u)' /\ FreshJoins(u)' /\ SentIsBehind(u)'
  BY <1>1, <1>2, <1>4, <1>7 DEF FreshIsRun, FreshJoins, SentIsBehind, At
<1>9. RepeatsArePaid(u)'
  <2>1. /\ ~ At(u, "record") /\ faults' \in Nat /\ faults <= faults'
        /\ UNCHANGED <<seen[u], sent[u], repeats[u]>>
    BY <1>0, <1>1 DEF At, TypeOK, PollerTypeOK
  <2> QED BY <1>0, <2>1, StillBalanced DEF Accounted
<1> QED BY <1>8, <1>9 DEF Accounted

LEMMA CheckIsAccounted ==
  ASSUME Established, Established', NEW u \in User, OnePage(u), Accounted(u),
         SentIsNext(u)', CheckNew(u)
  PROVE  Accounted(u)'
<1>0. TypeOK /\ TypeOK'
  BY EstablishedType DEF Established, HistoryIsJustified
<1>1. At(u, "check") /\ At(u, "check")' /\ UNCHANGED <<store, more, faults, ghosts>>
  BY RestOfPage DEF CheckNew
<1>2. PICK k \in Nat \ {0} : k = items[u][1][2]
  BY NextOfPage DEF CheckNew
<1>3. items[u] # <<>> /\ ~ more[u]
      /\ (fresh[u] # <<>> => fresh[u][1][2] = k + 1)
  BY <1>1, <1>2 DEF CheckNew, Accounted, FreshJoins
<1>4. /\ Len(fresh'[u]) = Len(fresh[u]) + 1 /\ fresh'[u][1][2] = k
      /\ \A i \in 2 .. Len(fresh'[u]) : fresh'[u][i] = fresh[u][i - 1]
      /\ fresh[u] \in Seq(Notification)
  BY <1>2, ListGrows
<1>5. ASSUME NEW i \in 1 .. Len(fresh'[u]) PROVE fresh'[u][i][2] = k + i - 1
  <2>1. CASE i = 1
    BY <1>4, <2>1
  <2>2. CASE i # 1
    <3>1. i \in 2 .. Len(fresh'[u]) /\ i - 1 \in 1 .. Len(fresh[u]) /\ fresh[u] # <<>>
      BY <1>4, <2>2
    <3>2. fresh[u][i - 1][2] = fresh[u][1][2] + (i - 1) - 1
      BY <1>1, <3>1 DEF Accounted, FreshIsRun, Looking, At
    <3>3. fresh'[u][i] = fresh[u][i - 1]
      BY <1>4, <3>1
    <3>4. fresh[u][1][2] = k + 1
      BY <1>3, <3>1
    <3>5. fresh'[u][i][2] = k + 1 + (i - 1) - 1
      BY <3>2, <3>3, <3>4, Zenon
    <3>6. i \in Int
      <4>1. Len(fresh[u]) \in Nat
        BY <1>4, LenProperties
      <4> QED BY <1>4, <4>1
    <3>7. k + 1 + (i - 1) - 1 = k + i - 1
      BY <3>6
    <3> QED BY <3>5, <3>7, Zenon
  <2> QED BY <2>1, <2>2
<1>7. FreshIsRun(u)' /\ SentIsBehind(u)'
  BY <1>1, <1>4, <1>5 DEF FreshIsRun, SentIsBehind, At
<1>8. FreshJoins(u)'
  <2>1. k = IF items'[u] = <<>> THEN 1 ELSE items'[u][1][2] + 1
    BY <1>2, <1>3, RestOfPage
  <2> QED BY <1>1, <1>3, <1>4, <2>1 DEF FreshJoins, At
<1>9. RepeatsArePaid(u)'
  <2>1. /\ ~ At(u, "record") /\ faults' \in Nat /\ faults <= faults'
        /\ UNCHANGED <<seen[u], sent[u], repeats[u]>>
    BY <1>0, <1>1 DEF At, TypeOK, PollerTypeOK
  <2> QED BY <1>0, <2>1, StillBalanced DEF Accounted
<1> QED BY <1>7, <1>8, <1>9 DEF Accounted

LEMMA LookedIsAccounted ==
  ASSUME Established, Established', [Next]_vars, NEW u \in User, Continues(u), StartsOver(u),
         OneForum(u), FreshIsUnseen(u), Accounted(u), CheckKnown(u) \/ TurnPage(u)
  PROVE  Accounted(u)'
<1>0. TypeOK /\ TypeOK' /\ FirstBinding(u)
  BY EstablishedType DEF Established, HistoryIsJustified, Continues
<1>1. At(u, "check") /\ ~ Record(u) /\ UNCHANGED <<store, fresh, faults, ghosts>>
  BY DEF CheckKnown, TurnPage, Record, At
<1>2. ~ more[u]
  BY <1>1 DEF Accounted, FreshJoins
<1>3. pc'[u] = "send"
  BY <1>0, <1>2 DEF CheckKnown, TurnPage, Goto, TypeOK, PollerTypeOK
<1>4. fresh[u] # <<>> =>
        /\ 1 \in 1 .. Len(fresh[u])
        /\ fresh[u][1][2] = IF items[u] = <<>> THEN 1 ELSE items[u][1][2] + 1
  BY <1>0, <1>1, Places DEF Accounted, FreshJoins
<1>5. ASSUME items[u] # <<>>
      PROVE  /\ items[u][1] \in Notification /\ items[u][1][2] \in Nat
             /\ \A k : k <= items[u][1][2] => StopsFrom(u, k)'
  <2>1. /\ items[u] \in Seq(Notification) /\ Head(items[u]) = items[u][1]
        /\ items[u][1] = <<job[u].forum, items[u][1][2]>> /\ items[u][1][2] \in Nat
    BY <1>1, <1>5, NextOfPage
  <2>2. PICK n \in Notification : n = items[u][1]
    BY <1>1, <1>5, NextOfPage
  <2>3. IsSeen(u, n) /\ UNCHANGED feed
    BY <1>5, <2>1, <2>2 DEF CheckKnown, TurnPage
  <2>4. Exists(n)
    <3>1. 1 \in 1 .. Len(items[u])
      BY <1>5, <2>1
    <3> QED BY <2>2, <3>1 DEF Established, NothingInvented, Shown
  <2>5. n[1] = account[u].forum
    BY <1>0, <1>1, <2>1, <2>2 DEF OneForum, At
  <2>6. Stop(u, n)'
    BY <1>1, <1>3, <2>3, <2>4, <2>5 DEF Stop, Exists, IsSeen, SeenIds
  <2> QED BY <2>1, <2>2, <2>6 DEF StopsFrom
<1>6. FreshJoins(u)'
  <2>1. ASSUME fresh[u] # <<>>, fresh[u][1][2] # 1, NEW k, k = fresh[u][1][2] - 1
        PROVE  StopsFrom(u, k)'
    <3>1. items[u] # <<>> /\ fresh[u][1][2] = items[u][1][2] + 1
      BY <1>4, <2>1
    <3>2. k <= items[u][1][2]
      BY <1>5, <2>1, <3>1
    <3> QED BY <1>5, <3>1, <3>2
  <2> QED BY <1>1, <1>3, <2>1 DEF FreshJoins, At
<1>7. SentIsBehind(u)'
  <2> SUFFICES ASSUME fresh[u] # <<>>
               PROVE  /\ \A n \in sent[u] : n[2] <= fresh[u][1][2]
                      /\ ~ IsSeen(u, fresh[u][1])
    BY <1>1 DEF SentIsBehind, IsSeen, SeenIds
  <2>1. ASSUME NEW n \in sent[u] PROVE n[2] <= fresh[u][1][2]
    <3>1. n[2] \in Nat \ {0}
      BY <1>0, Places
    <3>2. CASE n[2] = 1
      BY <1>4, <1>5, <3>1, <3>2
    <3>3. CASE n[2] # 1
      <4>1. PICK m \in Notification : Stop(u, m) /\ m[2] >= n[2] - 1
        BY <3>3 DEF Accounted, SentIsNext, StopsFrom
      <4>2. ToLookAt(u, m[2])
        BY <1>1, <4>1 DEF Stop, At
      <4>3. items[u] # <<>> /\ m[2] <= items[u][1][2] /\ m[2] \in Nat
        BY <1>1, <1>2, <4>2 DEF ToLookAt, At, Notification
      <4> QED BY <1>4, <1>5, <3>1, <4>1, <4>3
    <3> QED BY <3>2, <3>3
  <2>2. ~ IsSeen(u, fresh[u][1])
    BY <1>0, <1>1, <1>4 DEF FreshIsUnseen, Looking, At
  <2> QED BY <2>1, <2>2
<1>8. FreshIsRun(u)'
  BY <1>1 DEF Accounted, FreshIsRun, Looking, At
<1>9. RepeatsArePaid(u)'
  <2>1. /\ ~ At(u, "record") /\ faults' \in Nat /\ faults <= faults'
        /\ UNCHANGED <<seen[u], sent[u], repeats[u]>>
    BY <1>0, <1>1 DEF At, TypeOK, PollerTypeOK
  <2> QED BY <1>0, <2>1, StillBalanced DEF Accounted
<1>10. SentIsNext(u)'
  BY <1>1, StillNext DEF Accounted
<1> QED BY <1>6, <1>7, <1>8, <1>9, <1>10 DEF Accounted

LEMMA SendIsAccounted ==
  ASSUME Established, [Next]_vars, NEW u \in User, Continues(u), StartsOver(u), OneForum(u),
         Accounted(u), Send(u)
  PROVE  Accounted(u)'
<1>0. TypeOK
  BY EstablishedType
<1>1. /\ At(u, "send") /\ fresh[u] # <<>> /\ Deliver(u, Head(fresh[u])) /\ ~ Record(u)
      /\ pc'[u] = "record" /\ UNCHANGED <<fresh, faults>>
  BY <1>0 DEF Send, Record, Goto, At, TypeOK, PollerTypeOK
<1>2. SentIsNext(u)' /\ repeats'[u] <= faults
  BY <1>1, DeliverIsPaid
<1>3. RepeatsArePaid(u)'
  BY <1>1, <1>2 DEF RepeatsArePaid, At
<1>4. FreshJoins(u)'
  <2>1. fresh[u][1][2] = 1 \/ StopsFrom(u, fresh[u][1][2] - 1)'
    BY <1>1, StopsFromStays DEF Accounted, FreshJoins, At
  <2> QED BY <1>1, <2>1 DEF FreshJoins, At
<1>5. SentIsBehind(u)'
  <2>1. fresh[u][1][2] \in Nat /\ sent'[u] = sent[u] \cup {fresh[u][1]}
    BY <1>0, <1>1, Places DEF Deliver, TypeOK, PollerTypeOK
  <2>2. \A n \in sent[u] : n[2] <= fresh[u][1][2]
    BY <1>1 DEF Accounted, SentIsBehind, At
  <2> QED BY <1>1, <2>1, <2>2 DEF SentIsBehind, At
<1>6. FreshIsRun(u)'
  BY <1>1 DEF Accounted, FreshIsRun, Looking, At
<1> QED BY <1>2, <1>3, <1>4, <1>5, <1>6 DEF Accounted

LEMMA RecordIsAccounted ==
  ASSUME Established, NEW u \in User, Continues(u), WasPosted(u), OneForum(u),
         FreshIsUnseen(u), Accounted(u), Record(u)
  PROVE  Accounted(u)'
<1>0. TypeOK /\ HistoryIsJustified /\ FirstBinding(u)
  BY EstablishedType DEF Established, Continues
<1>1. /\ At(u, "record") /\ pc'[u] = "send" /\ fresh[u] # <<>> /\ fresh'[u] = Tail(fresh[u])
      /\ fresh[u][1] \in Notification /\ Head(fresh[u]) = fresh[u][1]
  BY <1>0, RecordReaches DEF At
<1>2. UNCHANGED <<feed, faults, sent, repeats>> /\ account'[u].forum = account[u].forum
  BY DEF Record
<1>3. PICK k \in Nat \ {0} : k = fresh[u][1][2]
  BY <1>0, <1>1, Places
<1>4. fresh[u][1] \in sent[u]
  BY <1>0, <1>1 DEF HistoryIsJustified, RecordedIsSent
<1>5. PICK z \in Notification : z = fresh[u][1] /\ z \in sent[u] /\ z[2] = k
                                /\ IsSeen(u, z)' /\ Stop(u, z)'
  <2>1. PICK z \in Notification : z = fresh[u][1]
    BY <1>1
  <2>2. IsSeen(u, z)'
    BY <1>0, <2>1, RecordIsSeen DEF IsSeen
  <2>3. z[1] = account'[u].forum /\ Exists(z)'
    BY <1>0, <1>2, <1>4, <2>1 DEF WasPosted, Exists, OneForum
  <2>4. Stop(u, z)'
    BY <1>1, <2>2, <2>3 DEF Stop
  <2> QED BY <1>3, <1>4, <2>1, <2>2, <2>4
<1>6. /\ Len(fresh'[u]) = Len(fresh[u]) - 1
      /\ \A i \in 1 .. Len(fresh'[u]) : /\ i + 1 \in 1 .. Len(fresh[u])
                                        /\ fresh'[u][i] = fresh[u][i + 1]
      /\ fresh'[u] # <<>> => 1 \in 1 .. Len(fresh'[u])
  <2> DEFINE s == fresh[u]
  <2>1. s \in Seq(Notification) /\ s # <<>> /\ Len(s) \in Nat
    BY <1>0, <1>1, Places
  <2> HIDE DEF s
  <2>2. /\ Tail(s) \in Seq(Notification) /\ Len(Tail(s)) = Len(s) - 1
        /\ \A i \in 1 .. Len(Tail(s)) : Tail(s)[i] = s[i + 1]
    BY <2>1, HeadTailProperties
  <2>3. \A i \in 1 .. Len(Tail(s)) : i + 1 \in 1 .. Len(s)
    BY <2>1, <2>2
  <2>4. Tail(s) # <<>> => 1 \in 1 .. Len(Tail(s))
    BY <2>2
  <2> QED BY <1>1, <2>2, <2>3, <2>4 DEF s
<1>7. \A i \in 1 .. Len(fresh'[u]) : fresh'[u][i][2] = k + i
  <2> SUFFICES ASSUME NEW i \in 1 .. Len(fresh'[u]) PROVE fresh'[u][i][2] = k + i
    OBVIOUS
  <2>1. fresh[u][i + 1][2] = k + (i + 1) - 1
    BY <1>1, <1>3, <1>6 DEF Accounted, FreshIsRun, Looking, At
  <2>2. Len(fresh'[u]) \in Int
    BY <1>0, <1>6, Places
  <2>3. k + (i + 1) - 1 = k + i
    BY <1>3, <2>2
  <2>4. fresh'[u][i][2] = fresh[u][i + 1][2]
    BY <1>6
  <2> QED BY <2>1, <2>3, <2>4
<1>8. fresh'[u] # <<>> => fresh'[u][1][2] = k + 1
  BY <1>6, <1>7
<1>9. FreshIsRun(u)'
  <2>1. \A i \in 1 .. Len(fresh'[u]) : fresh'[u] # <<>> /\ i \in Int
    BY <1>0, <1>6, Places
  <2>2. \A i \in 1 .. Len(fresh'[u]) : fresh'[u][i][2] = fresh'[u][1][2] + i - 1
    BY <1>7, <1>8, <2>1
  <2> QED BY <2>2 DEF FreshIsRun
<1>10. FreshJoins(u)'
  <2>1. fresh'[u] # <<>> => k >= fresh'[u][1][2] - 1
    BY <1>8
  <2>2. fresh'[u] # <<>> => StopsFrom(u, fresh[u][1][2] - 1)'
    BY <1>5, <2>1 DEF StopsFrom
  <2> QED BY <1>1, <2>2 DEF FreshJoins, At
<1>11. \A n \in sent[u] : n[2] \in Nat \ {0} /\ n[2] <= k
  BY <1>0, <1>1, <1>3, Places DEF Accounted, SentIsBehind, At
<1>12. SentIsBehind(u)'
  <2> SUFFICES ASSUME fresh'[u] # <<>>
               PROVE  /\ \A n \in sent[u] : n[2] <= fresh'[u][1][2]
                      /\ fresh'[u][1] \notin sent[u]
    BY <1>2 DEF SentIsBehind
  <2>1. fresh'[u][1][2] = k + 1
    BY <1>8
  <2> QED BY <1>11, <2>1
<1>13. SentIsNext(u)' /\ ~ Unrecorded(u)'
  <2>1. \A n \in sent[u] : k >= n[2] - 1 /\ ~ (k < n[2])
    BY <1>11
  <2>2. \A n \in sent[u] : StopsFrom(u, n[2] - 1)'
    BY <1>5, <2>1 DEF StopsFrom
  <2>3. \A n \in sent[u] : ~ (z[2] < n[2])
    BY <1>5, <2>1
  <2>4. ~ Unrecorded(u)'
    BY <1>2, <1>5, <2>3 DEF Unrecorded
  <2> QED BY <1>2, <2>2, <2>4 DEF SentIsNext
<1>14. RepeatsArePaid(u)'
  BY <1>2, <1>13 DEF Accounted, RepeatsArePaid
<1> QED BY <1>9, <1>10, <1>12, <1>13, <1>14 DEF Accounted

\* Whoever leaves a poll before its recording pays for it.
LEMMA LeavingIsAccounted ==
  ASSUME Established, Established', [Next]_vars, NEW u \in User, Continues(u), StartsOver(u),
         OneForum(u), Accounted(u), PollStep(u),
         ~ FetchPage(u), ~ CheckNew(u), ~ CheckKnown(u), ~ TurnPage(u), ~ Send(u), ~ Record(u)
  PROVE  Accounted(u)'
<1>0. TypeOK /\ TypeOK' /\ Bound(u)
  BY EstablishedType DEF Established, HistoryIsJustified, Continues, FirstBinding
<1>1. ~ Looking(u)'
  BY <1>0, LeavingStep
<1>2. FreshIsRun(u)' /\ FreshJoins(u)' /\ SentIsBehind(u)'
  BY <1>1 DEF FreshIsRun, FreshJoins, SentIsBehind, Looking, At
<1>3. seen'[u] = seen[u]
  BY PollKeepsSeen
<1>4. faults \in Nat /\ faults' \in Nat
  BY <1>0 DEF TypeOK, PollerTypeOK
<1>5. CASE /\ UNCHANGED <<sent, repeats>>
           /\ faults' = faults \/ faults' = faults + 1
           /\ At(u, "record") /\ Bound(u) => faults' = faults + 1
  <2>1. /\ faults <= faults' /\ (At(u, "record") => faults < faults')
        /\ UNCHANGED <<seen[u], sent[u], repeats[u]>>
    BY <1>0, <1>3, <1>4, <1>5
  <2>2. RepeatsArePaid(u)'
    BY <1>0, <1>4, <2>1, StillBalanced DEF Accounted
  <2>3. SentIsNext(u)'
    BY <2>1, StillNext DEF Accounted
  <2> QED BY <1>2, <2>2, <2>3 DEF Accounted
<1>6. CASE /\ At(u, "send") /\ fresh[u] # <<>>
           /\ Deliver(u, Head(fresh[u])) /\ faults' = faults + 1
  <2>1. SentIsNext(u)' /\ repeats'[u] <= faults
    BY <1>6, DeliverIsPaid
  <2>2. repeats'[u] \in Nat
    BY <1>0 DEF TypeOK, PollerTypeOK
  <2>3. RepeatsArePaid(u)'
    BY <1>4, <1>6, <2>1, <2>2 DEF RepeatsArePaid
  <2> QED BY <1>2, <2>1, <2>3 DEF Accounted
<1> QED BY <1>0, <1>5, <1>6, LeavingStep

\* Only the first binding goes on to one page, or begins with it.
LEMMA OnePageStep ==
  ASSUME Established, [Next]_vars, NEW v \in User, OnePage(v)', ~ Begins(v)
  PROVE  OnePage(v) /\ Continues(v)
<1>0. TypeOK /\ HistoryIsJustified
  BY EstablishedType DEF Established
<1>1. Continues(v)
  BY <1>0, FirstBindingStep DEF OnePage
<1>2. PICK f \in ForumUser : f = account[v].forum /\ f = account'[v].forum
  BY <1>0, <1>1 DEF Continues, FirstBinding, Bound, TypeOK, StoreTypeOK, Account
<1>3. feed[f] \in Nat /\ feed'[f] \in Nat /\ feed[f] <= feed'[f]
  BY <1>0, FeedGrows
<1>4. feed[f] <= PageSize
  BY <1>2, <1>3, ForumAssumption DEF OnePage
<1> QED BY <1>1, <1>2, <1>4 DEF OnePage, Continues

LEMMA RepeatsStep ==
  Established /\ FirstBindingIsKnown /\ NewIsUnseen /\ RepeatsAreKnown /\ [Next]_vars
    => RepeatsAreKnown'
<1> SUFFICES ASSUME Established, FirstBindingIsKnown, NewIsUnseen, RepeatsAreKnown, [Next]_vars,
                    NEW v \in User, OnePage(v)'
             PROVE  Accounted(v)'
  BY DEF RepeatsAreKnown
<1>0. Established' /\ TypeOK /\ TypeOK' /\ Untouched(v) /\ StartsOver(v) /\ WasPosted(v)
      /\ OneForum(v) /\ FreshIsUnseen(v) /\ InOrder(v)
  BY EstablishedStep, EstablishedType
     DEF FirstBindingIsKnown, NewIsUnseen, Established, HistoryIsJustified
<1>1. faults \in Nat /\ faults' \in Nat
  BY <1>0 DEF TypeOK, PollerTypeOK
<1>2. CASE Begins(v)
  <2>1. pc'[v] = "rest" /\ sent'[v] = {} /\ repeats'[v] = 0
    BY <1>0, <1>2, BeginsFromNothing
  <2> QED BY <1>1, <2>1 DEF Accounted, FreshIsRun, FreshJoins, SentIsBehind, SentIsNext, RepeatsArePaid,
                            Unrecorded, Looking, At
<1>3. CASE ~ Begins(v)
  <2>1. OnePage(v) /\ Continues(v) /\ Accounted(v) /\ Bound(v)
    BY <1>3, OnePageStep DEF RepeatsAreKnown, OnePage, FirstBinding
  <2>2. CASE PollStep(v)
    <3>1. CASE FetchPage(v) \/ CheckNew(v)
      <4>1. ~ Record(v) /\ sent'[v] = sent[v]
        BY <3>1 DEF FetchPage, CheckNew, Record, At
      <4>2. SentIsNext(v)'
        BY <1>0, <2>1, <4>1, StillNext DEF Accounted
      <4> QED BY <1>0, <2>1, <3>1, <4>2, FetchIsAccounted, CheckIsAccounted
    <3>2. CASE CheckKnown(v) \/ TurnPage(v)
      BY <1>0, <2>1, <3>2, LookedIsAccounted
    <3>3. CASE Send(v)
      BY <1>0, <2>1, <3>3, SendIsAccounted
    <3>4. CASE Record(v)
      BY <1>0, <2>1, <3>4, RecordIsAccounted
    <3> QED BY <1>0, <2>1, <2>2, <3>1, <3>2, <3>3, <3>4, LeavingIsAccounted
  <2>3. CASE ~ PollStep(v) /\ ~ Record(v)
    <3>1. seen'[v] = seen[v]
      BY <2>1, <2>3 DEF Continues
    <3>2. ASSUME UNCHANGED <<sent[v], repeats[v]>>, faults <= faults',
                 At(v, "record") => At(v, "record")' \/ faults < faults'
          PROVE  SentIsNext(v)' /\ RepeatsArePaid(v)'
      BY <1>0, <1>1, <2>1, <2>3, <3>1, <3>2, StillBalanced, StillNext DEF Accounted
    <3>3. CASE Restart
      <4>1. /\ UNCHANGED <<sent[v], repeats[v]>> /\ faults < faults' /\ faults <= faults'
            /\ pc'[v] = "rest"
        BY <1>1, <3>3 DEF Restart, ForgetPolls, Fault
      <4>2. SentIsNext(v)' /\ RepeatsArePaid(v)'
        BY <3>2, <4>1
      <4> QED BY <4>1, <4>2 DEF Accounted, FreshIsRun, FreshJoins, SentIsBehind, Looking, At
    <3>4. CASE StartPoll(v)
      <4>1. /\ UNCHANGED <<sent[v], repeats[v]>> /\ faults <= faults' /\ ~ At(v, "record")
            /\ pc'[v] = "fetch" /\ page'[v] = 1 /\ fresh'[v] = <<>>
        BY <1>0, <1>1, <3>4 DEF StartPoll, StartsOver, InOrder, Blank, Goto, At, TypeOK,
                                PollerTypeOK
      <4>2. SentIsNext(v)' /\ RepeatsArePaid(v)'
        BY <3>2, <4>1
      <4> QED BY <4>1, <4>2 DEF Accounted, FreshIsRun, FreshJoins, SentIsBehind, Looking, At
    <3>5. CASE /\ UNCHANGED <<pc[v], page[v], items[v], more[v], fresh[v], sent[v], repeats[v]>>
               /\ faults <= faults'
      <4>1. SentIsNext(v)' /\ RepeatsArePaid(v)'
        BY <3>2, <3>5 DEF At
      <4>2. FreshIsRun(v)' /\ SentIsBehind(v)'
        BY <2>1, <3>1, <3>5
           DEF Accounted, FreshIsRun, SentIsBehind, Looking, At, IsSeen, SeenIds
      <4>3. FreshJoins(v)'
        <5>1. \A k : StopsFrom(v, k) => StopsFrom(v, k)'
          BY <1>0, <2>1, <2>3, StopsFromStays
        <5>2. StopsFrom(v, fresh[v][1][2] - 1) => StopsFrom(v, fresh[v][1][2] - 1)'
          BY <3>5, <5>1
        <5> QED BY <2>1, <3>5, <5>2 DEF Accounted, FreshJoins, At
      <4> QED BY <4>1, <4>2, <4>3 DEF Accounted
    <3>6. CASE ReadDue(v) \/ PassOver(v)
      BY <1>1, <3>5, <3>6 DEF ReadDue, PassOver
    <3> QED BY <1>0, <2>3, <3>3, <3>4, <3>5, <3>6, StepForUser DEF EnqueueStep, Enqueue
  <2>4. PollStep(v) \/ ~ Record(v)
    <3> SUFFICES ASSUME Record(v), ~ PollStep(v) PROVE FALSE
      OBVIOUS
    <3>1. pc[v] = "record" /\ pc'[v] = "send"
      BY <1>0 DEF Record, Goto, At, TypeOK, PollerTypeOK
    <3>2. EnqueueStep(v) => pc'[v] \in {pc[v], "fetch"}
      BY <1>0 DEF EnqueueStep, Enqueue, ReadDue, PassOver, StartPoll, Goto, TypeOK, PollerTypeOK
    <3>3. Restart => pc'[v] = "rest"
      BY DEF Restart, ForgetPolls
    <3> QED BY <1>0, <3>1, <3>2, <3>3, StepForUser
  <2> QED BY <2>2, <2>3, <2>4
<1> QED BY <1>2, <1>3

\* While a user keeps to the first binding, and the forum user has no more than a
\* page, each notification that is sent again costs a fault of its own: a failing
\* call or the end of the process between a delivery and its AddSeen.  Commands,
\* a changed cookie and what is posted meanwhile cause no repeat, and neither do
\* the trimming of the history, whatever SeenLimit is, and ids that are shared.
THEOREM RepeatsNeedFaults == Spec => []RepeatsAreFaults
<1> DEFINE Inv == Established /\ FirstBindingIsKnown /\ NewIsUnseen /\ RepeatsAreKnown
<1>1. Init => Inv
  <2>1. Init => RepeatsAreKnown
    BY InitIsBlank DEF RepeatsAreKnown, OnePage, FirstBinding
  <2> QED BY <2>1, InitEstablished, InitFirstBinding
<1>2. Inv /\ [Next]_vars => Inv'
  BY EstablishedStep, KnownStep, UnseenStep, RepeatsStep
<1>3. Inv => RepeatsAreFaults
  BY DEF RepeatsAreKnown, OnePage, Accounted, RepeatsArePaid, RepeatsAreFaults
<1> HIDE DEF Inv
<1> QED BY <1>1, <1>2, <1>3, PTL DEF Spec
=============================================================================
