------------------------------ MODULE BotProofs ------------------------------
(***************************************************************************)
(* Proofs about the whole bot, for every set of users, forum users and     *)
(* cookies and every bound: its variables keep their types, an account     *)
(* that is gone leaves no history behind, and a history holds nothing but  *)
(* what was delivered or was there before the binding.                     *)
(***************************************************************************)
EXTENDS Bot, SequenceTheorems, FiniteSetTheorems, TLAPS

-----------------------------------------------------------------------------
(* The strengthening: what the steps of a poll and of a binding know of    *)
(* the local variables that the next step uses.                            *)

\* What poll is about to record is the notification that it has just sent.
RecordedIsSent ==
  \A u \in User : At(u, "record") => fresh[u] # <<>> /\ Head(fresh[u]) \in sent[u]

\* The page of a binding lists the forum user's notifications downwards.
OrderedPage(u) ==
  In(u, "lookup") \/ In(u, "bind") =>
    \A i \in 1 .. Len(latest[u]) :
      latest[u][i] = <<Owner[cred[u]], latest[u][1][2] - i + 1>>

PageIsInOrder == \A u \in User : OrderedPage(u)

\* The baseline of a binding is older than the latest notification of its page.
EarlierBaseline(u) ==
  In(u, "bind") => \A i \in 1 .. Len(baseline[u]) : baseline[u][i] \in Earlier(u)

BaselineIsEarlier == \A u \in User : EarlierBaseline(u)

HistoryIsJustified ==
  /\ TypeOK
  /\ RecordedIsSent
  /\ PageIsInOrder
  /\ BaselineIsEarlier
  /\ SeenWasSent
  /\ NoHistoryWithoutAccount

-----------------------------------------------------------------------------
(* Operators.                                                              *)

\* The pages of the forum hold notifications, each one older than the last.
LEMMA PageItemsType ==
  ASSUME ForumTypeOK, NEW f \in ForumUser, NEW p \in Nat \ {0}
  PROVE  /\ PageItems(f, p) \in Seq(Notification)
         /\ \A i \in 1 .. Len(PageItems(f, p)) :
              PageItems(f, p)[i] = <<f, PageItems(f, p)[1][2] - i + 1>>
<1> DEFINE n == IF Top(f, p) < PageSize THEN Top(f, p) ELSE PageSize
<1>1. (p - 1) * PageSize \in Nat
  BY ForumAssumption
<1>2. Top(f, p) \in Nat /\ Top(f, p) <= MaxFeed
  BY <1>1, ForumAssumption DEF Top, ForumTypeOK
<1>3. n \in Nat /\ n <= Top(f, p)
  BY <1>2, ForumAssumption
<1>4. \A i \in 1 .. n : <<f, Top(f, p) - i + 1>> \in Notification
  BY <1>2, <1>3, ForumAssumption DEF Notification
<1>5. PageItems(f, p) = [i \in 1 .. n |-> <<f, Top(f, p) - i + 1>>]
  BY DEF PageItems
<1>6. PageItems(f, p) \in Seq(Notification) /\ Len(PageItems(f, p)) = n
  BY <1>3, <1>4, <1>5
<1>7. ASSUME NEW i \in 1 .. n
      PROVE  PageItems(f, p)[i] = <<f, PageItems(f, p)[1][2] - i + 1>>
  <2>1. 1 \in 1 .. n
    BY <1>3
  <2>2. PageItems(f, p)[1] = <<f, Top(f, p)>>
    BY <1>2, <1>5, <2>1
  <2> QED BY <1>5, <2>2
<1> QED BY <1>6, <1>7

\* Trimming keeps a sequence a sequence of elements that it had.
LEMMA TrimmedType ==
  ASSUME NEW S, NEW s \in Seq(S)
  PROVE  /\ Trimmed(s) \in Seq(S)
         /\ \A i \in 1 .. Len(Trimmed(s)) : \E j \in 1 .. Len(s) : Trimmed(s)[i] = s[j]
<1>1. CASE Len(s) <= SeenLimit
  BY <1>1 DEF Trimmed
<1>2. CASE ~ (Len(s) <= SeenLimit)
  <2> DEFINE m == Len(s) - SeenLimit + 1
  <2>1. m \in 1 .. Len(s) /\ Trimmed(s) = SubSeq(s, m, Len(s))
    BY <1>2, StoreAssumption DEF Trimmed
  <2>2. \A i \in m .. Len(s) : s[i] \in S
    BY <2>1
  <2>3. /\ Trimmed(s) \in Seq(S)
        /\ Len(Trimmed(s)) = Len(s) - m + 1
        /\ \A i \in 1 .. Len(s) - m + 1 : Trimmed(s)[i] = s[m + i - 1]
    BY <2>1, <2>2, SubSeqProperties
  <2>4. ASSUME NEW i \in 1 .. Len(Trimmed(s))
        PROVE  \E j \in 1 .. Len(s) : Trimmed(s)[i] = s[j]
    <3>1. i \in 1 .. Len(s) - m + 1 /\ m + i - 1 \in 1 .. Len(s)
      BY <2>1, <2>3
    <3> QED BY <2>3, <3>1
  <2> QED BY <2>3, <2>4
<1> QED BY <1>1, <1>2

\* The history of a new binding: of the baseline, the first of each id, in order.
LEMMA InsertAllType ==
  ASSUME StoreTypeOK, NEW u \in User, NEW s \in Seq(Notification), InsertAll(u, s)
  PROVE  /\ seen' \in [User -> Seq(Notification)]
         /\ \A v \in User \ {u} : seen'[v] = seen[v]
         /\ Len(seen'[u]) <= Len(s)
         /\ \A i \in 1 .. Len(seen'[u]) : \E j \in 1 .. Len(s) : seen'[u][i] = s[j]
         /\ s # <<>> => s[1] \in SeenIds(u)'
<1> DEFINE kept == {i \in 1 .. Len(s) : \A j \in 1 .. (i - 1) : ~ SameId(s[j], s[i])}
           Row(row) == [r \in DOMAIN row |-> s[row[r]]]
<1>1. /\ kept \subseteq 1 .. Len(s) /\ Len(s) \in Nat
      /\ Cardinality(kept) \in Nat /\ Cardinality(kept) <= Len(s)
  <2>1. IsFiniteSet(1 .. Len(s)) /\ Cardinality(1 .. Len(s)) = Len(s)
    <3> DEFINE n == Len(s)
    <3>1. n \in Nat
      OBVIOUS
    <3> HIDE DEF n
    <3>2. /\ IsFiniteSet(1 .. n)
          /\ Cardinality(1 .. n) = IF 1 > n THEN 0 ELSE n - 1 + 1
      BY <3>1, FS_Interval
    <3>3. (IF 1 > n THEN 0 ELSE n - 1 + 1) = n
      BY <3>1
    <3> QED BY <3>2, <3>3 DEF n
  <2>2. kept \in SUBSET (1 .. Len(s))
    OBVIOUS
  <2> HIDE DEF kept
  <2>3. IsFiniteSet(kept) /\ Cardinality(kept) <= Cardinality(1 .. Len(s))
    BY <2>1, <2>2, FS_Subset
  <2>4. Cardinality(kept) \in Nat
    BY <2>3, FS_CardinalityType
  <2> QED BY <2>1, <2>2, <2>3, <2>4
<1>2. s # <<>> => 1 \in kept
  OBVIOUS
<1>3. PICK row \in [1 .. Cardinality(kept) -> kept] :
        /\ \A i \in kept : \E r \in DOMAIN row : row[r] = i
        /\ seen' = [seen EXCEPT ![u] = Row(row)]
  BY DEF InsertAll
<1> HIDE DEF kept
<1>4. \A r \in 1 .. Cardinality(kept) : row[r] \in 1 .. Len(s) /\ s[row[r]] \in Notification
  <2>1. \A r \in 1 .. Cardinality(kept) : row[r] \in kept
    OBVIOUS
  <2>2. \A j \in 1 .. Len(s) : s[j] \in Notification
    OBVIOUS
  <2> QED BY <1>1, <2>1, <2>2
<1>5. /\ Row(row) \in Seq(Notification)
      /\ Len(Row(row)) = Cardinality(kept)
      /\ \A r \in 1 .. Cardinality(kept) : Row(row)[r] = s[row[r]]
  BY <1>1, <1>3, <1>4
<1> HIDE DEF Row
<1>6. seen'[u] = Row(row) /\ \A v \in User \ {u} : seen'[v] = seen[v]
  BY <1>3 DEF StoreTypeOK
<1>7. seen' \in [User -> Seq(Notification)]
  BY <1>3, <1>5 DEF StoreTypeOK
<1>8. \A i \in 1 .. Len(seen'[u]) : \E j \in 1 .. Len(s) : seen'[u][i] = s[j]
  BY <1>4, <1>5, <1>6
<1>9. ASSUME s # <<>> PROVE s[1] \in SeenIds(u)'
  <2>1. PICK r \in 1 .. Cardinality(kept) : row[r] = 1
    BY <1>2, <1>3, <1>9
  <2> QED BY <1>5, <1>6, <2>1 DEF SeenIds
<1> QED BY <1>1, <1>5, <1>6, <1>7, <1>8, <1>9

\* A notification and those before it.
LEMMA UpToType ==
  ASSUME NEW n \in Notification
  PROVE  UpTo(n) \subseteq Notification
<1>1. n[1] \in ForumUser /\ n[2] \in 1 .. MaxFeed
  BY DEF Notification
<1> QED BY <1>1, ForumAssumption DEF UpTo, Notification

-----------------------------------------------------------------------------
(* Types.                                                                  *)

USE DEF store, forum, locals, ghosts, poller, handler, controller, others

LEMMA BotInitType == Init => TypeOK
<1> SUFFICES ASSUME Init PROVE TypeOK
  OBVIOUS
<1> USE DEF Init
<1>1. ForumTypeOK
  BY ForumAssumption DEF ForumInit, ForumTypeOK
<1>2. StoreTypeOK
  <2>1. /\ account \in [User -> Account \cup {NoAccount}]
        /\ seen \in [User -> Seq(Notification)]
        /\ banned \in SUBSET User
    BY DEF StoreInit
  <2>2. globalPause \in BOOLEAN
    BY DEF StoreInit
  <2> QED BY <2>1, <2>2 DEF StoreTypeOK
<1>3. PollerTypeOK
  <2>1. more \in [User -> BOOLEAN] /\ first \in [User -> BOOLEAN]
    BY DEF PollerInit, PollerIdle
  <2>2. /\ page \in [User -> 1 .. MaxPages] /\ faults \in 0 .. MaxFaults
        /\ repeats \in [User -> Nat] /\ strays \in [User -> Nat] /\ alerts \in [User -> Nat]
    BY PollerAssumption DEF PollerInit, PollerIdle
  <2>3. /\ pc \in [User -> Step] /\ \A u \in User : pc[u] = "rest"
        /\ items \in [User -> Seq(Notification)] /\ fresh \in [User -> Seq(Notification)]
        /\ batch \in [User -> Job \cup {NoJob}] /\ job \in [User -> Job \cup {NoJob}]
        /\ sent \in [User -> SUBSET Notification]
    BY DEF PollerInit, PollerIdle, Step
  <2> QED BY <2>1, <2>2, <2>3 DEF PollerTypeOK
<1>4. ControllerTypeOK
  BY ControllerAssumption DEF ControllerInit, HandlersIdle, ControllerTypeOK, Stage
<1>5. /\ history \in [User -> SUBSET Notification] /\ begun \in [User -> Nat]
      /\ hidden \in [User -> SUBSET Notification]
  OBVIOUS
<1> QED BY <1>1, <1>2, <1>3, <1>4, <1>5 DEF TypeOK

\* A poll that returns.
LEMMA ReturnType ==
  ASSUME PollerTypeOK, NEW u \in User, Return(u),
         faults' \in 0 .. MaxFaults, sent' \in [User -> SUBSET Notification],
         repeats' \in [User -> Nat], strays' \in [User -> Nat], alerts' \in [User -> Nat]
  PROVE  PollerTypeOK'
<1> USE DEF PollerTypeOK, Return
<1>1. more' \in [User -> BOOLEAN] /\ first' \in [User -> BOOLEAN]
  OBVIOUS
<1>2. page' \in [User -> 1 .. MaxPages]
  BY PollerAssumption
<1>3. pc' \in [User -> Step] /\ \A v \in User : pc'[v] # "rest" => job'[v] \in Job
  BY DEF Goto, Step
<1>4. /\ items' \in [User -> Seq(Notification)] /\ fresh' \in [User -> Seq(Notification)]
      /\ batch' \in [User -> Job \cup {NoJob}] /\ job' \in [User -> Job \cup {NoJob}]
  OBVIOUS
<1> QED BY <1>1, <1>2, <1>3, <1>4

LEMMA FaultType ==
  ASSUME PollerTypeOK, Fault
  PROVE  faults' \in 0 .. MaxFaults
BY PollerAssumption DEF PollerTypeOK, Fault

\* The updates of a row keep the table typed, and neither add nor delete one.
LEMMA UpdateType ==
  ASSUME StoreTypeOK, NEW u \in User, NEW row, Bound(u) => row \in Account, Update(u, row)
  PROVE  /\ account' \in [User -> Account \cup {NoAccount}]
         /\ \A v \in User : Bound(v)' <=> Bound(v)
BY NoAccountAssumption DEF StoreTypeOK, Update, Bound

LEMMA RowType ==
  ASSUME StoreTypeOK, NEW u \in User, Bound(u)
  PROVE  account[u] \in Account
BY DEF StoreTypeOK, Bound

LEMMA ScheduleType ==
  ASSUME StoreTypeOK, NEW u \in User, NEW now \in BOOLEAN, Schedule(u, now)
  PROVE  /\ account' \in [User -> Account \cup {NoAccount}]
         /\ \A v \in User : Bound(v)' <=> Bound(v)
<1>1. Bound(u) => [account[u] EXCEPT !.due = now] \in Account
  BY RowType DEF Account
<1> QED BY <1>1, UpdateType DEF Schedule

LEMMA SetStatusType ==
  ASSUME StoreTypeOK, NEW u \in User, NEW s \in Status, SetStatus(u, s)
  PROVE  /\ account' \in [User -> Account \cup {NoAccount}]
         /\ \A v \in User : Bound(v)' <=> Bound(v)
<1>1. Bound(u) => [account[u] EXCEPT !.status = s] \in Account
  BY RowType DEF Account
<1> QED BY <1>1, UpdateType DEF SetStatus

LEMMA MarkRebindType ==
  ASSUME StoreTypeOK, NEW u \in User, MarkRebind(u)
  PROVE  /\ account' \in [User -> Account \cup {NoAccount}]
         /\ \A v \in User : Bound(v)' <=> Bound(v)
<1>1. Bound(u) =>
        [account[u] EXCEPT !.status = "rebind_required", !.alerted = TRUE] \in Account
  BY RowType DEF Account, Status
<1> QED BY <1>1, UpdateType DEF MarkRebind

-----------------------------------------------------------------------------
(* Types: the steps of a poll.  The lemma of each group says what it keeps *)
(* of the tables and of the poller; the rest of the state is UNCHANGED.    *)

LEMMA EnqueueType ==
  ASSUME TypeOK, NEW u \in User, Enqueue(u)
  PROVE  PollerTypeOK' /\ UNCHANGED <<store, forum>>
<1> USE DEF TypeOK
<1>1. CASE ReadDue(u)
  <2>1. [forum |-> account[u].forum, cookie |-> account[u].cookie] \in Job
    BY <1>1, RowType DEF ReadDue, Due, Account, Job
  <2>2. batch' \in [User -> Job \cup {NoJob}]
    BY <1>1, <2>1 DEF ReadDue, PollerTypeOK
  <2> QED BY <1>1, <2>2 DEF ReadDue, PollerTypeOK
<1>2. CASE PassOver(u)
  BY <1>2 DEF PassOver, PollerTypeOK
<1>3. CASE StartPoll(u)
  <2>1. batch[u] \in Job
    BY <1>3 DEF StartPoll, PollerTypeOK
  <2>2. /\ batch' \in [User -> Job \cup {NoJob}] /\ job' \in [User -> Job \cup {NoJob}]
        /\ pc' \in [User -> Step] /\ \A v \in User : pc'[v] # "rest" => job'[v] \in Job
    BY <1>3, <2>1 DEF StartPoll, Goto, Step, PollerTypeOK
  <2> QED BY <1>3, <2>2 DEF StartPoll, PollerTypeOK
<1> QED BY <1>1, <1>2, <1>3 DEF Enqueue

\* A poll that goes on to another step keeps its argument.
LEMMA GotoType ==
  ASSUME PollerTypeOK, NEW u \in User, NEW s \in Step, ~ At(u, "rest"), Goto(u, s),
         UNCHANGED job
  PROVE  pc' \in [User -> Step] /\ \A v \in User : pc'[v] # "rest" => job'[v] \in Job
BY DEF PollerTypeOK, Goto, At

LEMMA PagesType ==
  ASSUME TypeOK, NEW u \in User,
         \/ FetchPage(u) \/ FetchRefused(u) \/ FetchFails(u)
         \/ CheckNew(u) \/ CheckKnown(u) \/ CheckFails(u) \/ TurnPage(u)
  PROVE  PollerTypeOK' /\ UNCHANGED <<store, forum>>
<1> USE DEF TypeOK
<1> DEFINE Control ==
      pc' \in [User -> Step] /\ \A v \in User : pc'[v] # "rest" => job'[v] \in Job
<1>1. CASE FetchPage(u)
  <2>1. job[u] \in Job /\ page[u] \in Nat \ {0}
    BY <1>1, PollerAssumption DEF FetchPage, At, PollerTypeOK
  <2>2. PageItems(job[u].forum, page[u]) \in Seq(Notification)
    BY <2>1, PageItemsType DEF Job
  <2>3. items' \in [User -> Seq(Notification)]
    BY <1>1, <2>2 DEF FetchPage, PollerTypeOK
  <2>4. HasNext(job[u].forum, page[u]) \in BOOLEAN
    BY DEF HasNext
  <2>5. more' \in [User -> BOOLEAN]
    BY <1>1, <2>4 DEF FetchPage, PollerTypeOK
  <2>6. Control
    BY <1>1, GotoType DEF FetchPage, At, Step
  <2> QED BY <1>1, <2>3, <2>5, <2>6 DEF FetchPage, PollerTypeOK
<1>2. CASE FetchRefused(u)
  <2>1. Control
    BY <1>2, GotoType DEF FetchRefused, At, Step
  <2> QED BY <1>2, <2>1 DEF FetchRefused, PollerTypeOK
<1>3. CASE FetchFails(u)
  <2>1. PICK s \in {"trip", "retry"} : Goto(u, s)
    BY <1>3 DEF FetchFails
  <2>2. Control
    BY <1>3, <2>1, GotoType DEF FetchFails, At, Step
  <2>3. faults' \in 0 .. MaxFaults
    BY <1>3, FaultType DEF FetchFails
  <2> QED BY <1>3, <2>2, <2>3 DEF FetchFails, PollerTypeOK
<1>4. CASE CheckNew(u)
  <2>1. Head(items[u]) \in Notification /\ Tail(items[u]) \in Seq(Notification)
    BY <1>4, HeadTailProperties DEF CheckNew, PollerTypeOK
  <2>2. <<Head(items[u])>> \o fresh[u] \in Seq(Notification)
    BY <2>1 DEF PollerTypeOK
  <2>3. /\ items' \in [User -> Seq(Notification)]
        /\ fresh' \in [User -> Seq(Notification)]
    BY <1>4, <2>1, <2>2 DEF CheckNew, PollerTypeOK
  <2> QED BY <1>4, <2>3 DEF CheckNew, PollerTypeOK
<1>5. CASE CheckKnown(u)
  <2>1. Control
    BY <1>5, GotoType DEF CheckKnown, At, Step
  <2>2. items' \in [User -> Seq(Notification)]
    BY <1>5 DEF CheckKnown, PollerTypeOK
  <2> QED BY <1>5, <2>1, <2>2 DEF CheckKnown, PollerTypeOK
<1>6. CASE CheckFails(u)
  <2>1. Control
    BY <1>6, GotoType DEF CheckFails, At, Step
  <2>2. faults' \in 0 .. MaxFaults
    BY <1>6, FaultType DEF CheckFails
  <2> QED BY <1>6, <2>1, <2>2 DEF CheckFails, PollerTypeOK
<1>7. CASE TurnPage(u)
  <2>1. Control
    BY <1>7, GotoType DEF TurnPage, At, Step
  <2>2. page' \in [User -> 1 .. MaxPages]
    <3>1. CASE more[u] /\ page[u] < MaxPages
      <4>1. page[u] + 1 \in 1 .. MaxPages
        BY <3>1, PollerAssumption DEF PollerTypeOK
      <4>2. page' = [page EXCEPT ![u] = page[u] + 1]
        BY <1>7, <3>1 DEF TurnPage
      <4> QED BY <4>1, <4>2 DEF PollerTypeOK
    <3>2. CASE ~ (more[u] /\ page[u] < MaxPages)
      <4>1. page' = page
        BY <1>7, <3>2 DEF TurnPage
      <4> QED BY <4>1 DEF PollerTypeOK
    <3> QED BY <3>1, <3>2
  <2> QED BY <1>7, <2>1, <2>2 DEF TurnPage, PollerTypeOK
<1> QED BY <1>1, <1>2, <1>3, <1>4, <1>5, <1>6, <1>7

LEMMA DeliverType ==
  ASSUME PollerTypeOK, NEW u \in User, NEW n \in Notification,
         Deliver(u, n) \/ UNCHANGED ghosts
  PROVE  /\ sent' \in [User -> SUBSET Notification] /\ repeats' \in [User -> Nat]
         /\ strays' \in [User -> Nat] /\ alerts' \in [User -> Nat]
<1>1. CASE Deliver(u, n)
  <2>1. sent' \in [User -> SUBSET Notification]
    BY <1>1 DEF Deliver, PollerTypeOK
  <2>2. repeats' \in [User -> Nat]
    BY <1>1 DEF Deliver, PollerTypeOK
  <2>3. strays' \in [User -> Nat]
    BY <1>1 DEF Deliver, PollerTypeOK
  <2>4. alerts' \in [User -> Nat]
    BY <1>1 DEF Deliver, PollerTypeOK
  <2> QED BY <2>1, <2>2, <2>3, <2>4
<1>2. CASE UNCHANGED ghosts
  BY <1>2 DEF PollerTypeOK
<1> QED BY <1>1, <1>2

LEMMA AddSeenType ==
  ASSUME StoreTypeOK, NEW u \in User, NEW n \in Notification, AddSeen(u, n)
  PROVE  /\ seen' \in [User -> Seq(Notification)]
         /\ \A v \in User \ {u} : seen'[v] = seen[v]
         /\ SeenIds(u)' \subseteq SeenIds(u) \cup {n}
<1> DEFINE old == seen[u]
           new == IF IsSeen(u, n) THEN old ELSE Append(old, n)
<1>1. old \in Seq(Notification)
  BY DEF StoreTypeOK
<1>2. /\ new \in Seq(Notification)
      /\ \A i \in 1 .. Len(new) : new[i] = n \/ \E j \in 1 .. Len(old) : new[i] = old[j]
  BY <1>1
<1>3. seen' = [seen EXCEPT ![u] = Trimmed(new)]
  BY DEF AddSeen
<1> HIDE DEF new
<1>4. /\ Trimmed(new) \in Seq(Notification)
      /\ \A i \in 1 .. Len(Trimmed(new)) : \E j \in 1 .. Len(new) : Trimmed(new)[i] = new[j]
  BY <1>2, TrimmedType
<1>5. seen'[u] = Trimmed(new) /\ \A v \in User \ {u} : seen'[v] = seen[v]
  BY <1>3 DEF StoreTypeOK
<1>6. \A i \in 1 .. Len(seen'[u]) : seen'[u][i] \in SeenIds(u) \cup {n}
  <2> SUFFICES ASSUME NEW i \in 1 .. Len(Trimmed(new))
               PROVE  Trimmed(new)[i] \in SeenIds(u) \cup {n}
    BY <1>5
  <2>1. PICK j \in 1 .. Len(new) : Trimmed(new)[i] = new[j]
    BY <1>4
  <2>2. CASE new[j] = n
    BY <2>1, <2>2
  <2>3. CASE \E k \in 1 .. Len(old) : new[j] = old[k]
    BY <2>1, <2>3 DEF SeenIds
  <2> QED BY <1>2, <2>2, <2>3
<1>7. SeenIds(u)' \subseteq SeenIds(u) \cup {n}
  BY <1>6 DEF SeenIds
<1>8. seen' \in [User -> Seq(Notification)]
  BY <1>3, <1>4 DEF StoreTypeOK
<1> QED BY <1>5, <1>7, <1>8

LEMMA RescheduleType ==
  ASSUME TypeOK, NEW u \in User, Reschedule(u)
  PROVE  StoreTypeOK' /\ PollerTypeOK' /\ UNCHANGED <<seen, forum>>
<1> USE DEF TypeOK
<1>1. account' \in [User -> Account \cup {NoAccount}] /\ faults' \in 0 .. MaxFaults
  <2>1. CASE Schedule(u, FALSE) /\ UNCHANGED faults
    BY <2>1, ScheduleType DEF PollerTypeOK
  <2>2. CASE Fault /\ UNCHANGED account
    BY <2>2, FaultType DEF StoreTypeOK
  <2> QED BY <2>1, <2>2 DEF Reschedule
<1>2. Return(u) /\ UNCHANGED <<seen, banned, globalPause, forum, ghosts>>
  BY DEF Reschedule
<1>3. PollerTypeOK'
  <2>1. /\ sent' \in [User -> SUBSET Notification] /\ repeats' \in [User -> Nat]
        /\ strays' \in [User -> Nat] /\ alerts' \in [User -> Nat]
    BY <1>2 DEF PollerTypeOK
  <2> QED BY <1>1, <1>2, <2>1, ReturnType
<1>4. StoreTypeOK'
  BY <1>1, <1>2 DEF StoreTypeOK
<1> QED BY <1>2, <1>3, <1>4

LEMMA DeliveriesType ==
  ASSUME TypeOK, RecordedIsSent, NEW u \in User,
         Send(u) \/ SendFails(u) \/ Record(u) \/ RecordFails(u) \/ Finish(u) \/ Retry(u)
  PROVE  StoreTypeOK' /\ PollerTypeOK' /\ UNCHANGED forum
<1> USE DEF TypeOK
<1> DEFINE Control ==
      pc' \in [User -> Step] /\ \A v \in User : pc'[v] # "rest" => job'[v] \in Job
<1>1. CASE Send(u)
  <2>1. Control
    BY <1>1, GotoType DEF Send, At, Step
  <2>2. Head(fresh[u]) \in Notification
    BY <1>1, HeadTailProperties DEF Send, PollerTypeOK
  <2>3. /\ sent' \in [User -> SUBSET Notification] /\ repeats' \in [User -> Nat]
        /\ strays' \in [User -> Nat] /\ alerts' \in [User -> Nat]
    BY <1>1, <2>2, DeliverType DEF Send
  <2> QED BY <1>1, <2>1, <2>3 DEF Send, PollerTypeOK, StoreTypeOK
<1>2. CASE SendFails(u)
  <2>1. Control
    BY <1>2, GotoType DEF SendFails, At, Step
  <2>2. Head(fresh[u]) \in Notification
    BY <1>2, HeadTailProperties DEF SendFails, PollerTypeOK
  <2>3. /\ sent' \in [User -> SUBSET Notification] /\ repeats' \in [User -> Nat]
        /\ strays' \in [User -> Nat] /\ alerts' \in [User -> Nat]
    BY <1>2, <2>2, DeliverType DEF SendFails
  <2>4. faults' \in 0 .. MaxFaults
    BY <1>2, FaultType DEF SendFails
  <2> QED BY <1>2, <2>1, <2>3, <2>4 DEF SendFails, PollerTypeOK, StoreTypeOK
<1>3. CASE Record(u)
  <2>1. Control
    BY <1>3, GotoType DEF Record, At, Step
  <2>2. Head(fresh[u]) \in Notification /\ Tail(fresh[u]) \in Seq(Notification)
    BY <1>3, HeadTailProperties DEF Record, RecordedIsSent, PollerTypeOK
  <2>3. fresh' \in [User -> Seq(Notification)]
    BY <1>3, <2>2 DEF Record, PollerTypeOK
  <2>4. seen' \in [User -> Seq(Notification)]
    BY <1>3, <2>2, AddSeenType DEF Record
  <2> QED BY <1>3, <2>1, <2>3, <2>4 DEF Record, PollerTypeOK, StoreTypeOK
<1>4. CASE RecordFails(u)
  <2>1. faults' \in 0 .. MaxFaults
    BY <1>4, FaultType DEF RecordFails, PollerTypeOK
  <2>2. Return(u) /\ UNCHANGED <<store, forum, ghosts>>
    BY <1>4 DEF RecordFails
  <2>3. /\ sent' \in [User -> SUBSET Notification] /\ repeats' \in [User -> Nat]
        /\ strays' \in [User -> Nat] /\ alerts' \in [User -> Nat]
    BY <2>2 DEF PollerTypeOK
  <2> QED BY <2>1, <2>2, <2>3, ReturnType DEF StoreTypeOK
<1>5. CASE Finish(u) \/ Retry(u)
  <2>1. Reschedule(u)
    BY <1>5 DEF Finish, Retry
  <2> QED BY <2>1, RescheduleType
<1> QED BY <1>1, <1>2, <1>3, <1>4, <1>5

LEMMA ErrorsType ==
  ASSUME TypeOK, NEW u \in User,
         MarkRead(u) \/ MarkWrite(u) \/ MarkFails(u) \/ Alert(u) \/ Trip(u)
  PROVE  StoreTypeOK' /\ PollerTypeOK' /\ UNCHANGED <<seen, forum>>
<1> USE DEF TypeOK
<1> DEFINE Control ==
      pc' \in [User -> Step] /\ \A v \in User : pc'[v] # "rest" => job'[v] \in Job
           Ghosts ==
      /\ sent' \in [User -> SUBSET Notification] /\ repeats' \in [User -> Nat]
      /\ strays' \in [User -> Nat] /\ alerts' \in [User -> Nat]
<1>0. UNCHANGED ghosts => Ghosts
  BY DEF PollerTypeOK
<1>1. CASE MarkRead(u)
  <2>1. StoreTypeOK' /\ UNCHANGED <<store, forum, faults, ghosts>>
    BY <1>1 DEF MarkRead, StoreTypeOK
  <2>2. CASE Bound(u)
    <3>1. Control
      BY <1>1, <2>2, GotoType DEF MarkRead, At, Step
    <3>2. account[u].alerted \in BOOLEAN
      BY <2>2, RowType DEF Account
    <3>3. first' \in [User -> BOOLEAN]
      BY <1>1, <2>2, <3>2 DEF MarkRead, PollerTypeOK
    <3> QED BY <1>1, <2>1, <2>2, <3>1, <3>3 DEF MarkRead, PollerTypeOK
  <2>3. CASE ~ Bound(u)
    BY <1>0, <1>1, <2>1, <2>3, ReturnType DEF MarkRead, PollerTypeOK
  <2> QED BY <2>1, <2>2, <2>3
<1>2. CASE MarkWrite(u)
  <2>1. account' \in [User -> Account \cup {NoAccount}]
    BY <1>2, MarkRebindType DEF MarkWrite
  <2>2. StoreTypeOK' /\ UNCHANGED <<seen, forum, faults, ghosts>>
    BY <1>2, <2>1 DEF MarkWrite, StoreTypeOK
  <2>3. CASE first[u]
    <3>1. Control
      BY <1>2, <2>3, GotoType DEF MarkWrite, At, Step
    <3> QED BY <1>2, <2>2, <2>3, <3>1 DEF MarkWrite, PollerTypeOK
  <2>4. CASE ~ first[u]
    BY <1>0, <1>2, <2>2, <2>4, ReturnType DEF MarkWrite, PollerTypeOK
  <2> QED BY <2>2, <2>3, <2>4
<1>3. CASE MarkFails(u)
  BY <1>0, <1>3, FaultType, ReturnType DEF MarkFails, StoreTypeOK
<1>4. CASE Alert(u)
  <2>1. faults' \in 0 .. MaxFaults
    BY <1>4, FaultType DEF Alert, PollerTypeOK
  <2>2. Ghosts
    <3>1. alerts' \in [User -> Nat]
      <4>1. CASE alerts' = [alerts EXCEPT ![u] = @ + 1]
        BY <4>1 DEF PollerTypeOK
      <4>2. CASE UNCHANGED alerts
        BY <4>2 DEF PollerTypeOK
      <4> QED BY <1>4, <4>1, <4>2 DEF Alert
    <3>2. UNCHANGED <<sent, repeats, strays>>
      BY <1>4 DEF Alert
    <3> QED BY <3>1, <3>2 DEF PollerTypeOK
  <2>3. Return(u) /\ UNCHANGED <<store, forum>>
    BY <1>4 DEF Alert
  <2> QED BY <2>1, <2>2, <2>3, ReturnType DEF StoreTypeOK
<1>5. CASE Trip(u)
  <2>1. faults' \in 0 .. MaxFaults
    BY <1>5, FaultType DEF Trip, PollerTypeOK
  <2>2. Return(u) /\ UNCHANGED <<account, seen, banned, forum, ghosts>>
    BY <1>5 DEF Trip
  <2>3. PollerTypeOK'
    BY <1>0, <2>1, <2>2, ReturnType
  <2>4. globalPause' \in BOOLEAN
    BY <1>5, Zenon DEF Trip, StoreTypeOK
  <2> QED BY <2>2, <2>3, <2>4 DEF StoreTypeOK
<1> QED BY <1>1, <1>2, <1>3, <1>4, <1>5

-----------------------------------------------------------------------------
(* Types: the steps of the handlers.                                       *)

LEMMA DoneType ==
  ASSUME ControllerTypeOK, NEW u \in User, Done(u), binds' \in [User -> Nat]
  PROVE  ControllerTypeOK'
<1> USE DEF ControllerTypeOK, Done
<1>1. /\ cpc' \in [User -> Stage] /\ cred' \in [User -> Cookie \cup {NoCookie}]
      /\ \A v \in User : cpc'[v] \in {"validate", "lookup", "bind"} => cred'[v] \in Cookie
  BY DEF Stay, Stage
<1>2. /\ latest' \in [User -> Seq(Notification)] /\ baseline' \in [User -> Seq(Notification)]
      /\ target' \in [User -> {"active", "paused"}]
  OBVIOUS
<1> QED BY <1>1, <1>2

\* A handler that goes on to another stage keeps its credential.
LEMMA StayType ==
  ASSUME ControllerTypeOK, NEW u \in User, NEW s \in Stage, Stay(u, s), UNCHANGED cred,
         s \in {"lookup", "bind"} => cred[u] \in Cookie, s # "validate"
  PROVE  /\ cpc' \in [User -> Stage] /\ cred' \in [User -> Cookie \cup {NoCookie}]
         /\ \A v \in User : cpc'[v] \in {"validate", "lookup", "bind"} => cred'[v] \in Cookie
BY DEF ControllerTypeOK, Stay

LEMMA HandleType ==
  ASSUME TypeOK, NEW u \in User, Handle(u)
  PROVE  StoreTypeOK' /\ ControllerTypeOK' /\ UNCHANGED forum
<1> USE DEF TypeOK
<1>1. CASE Validate(u)
  <2>1. cred[u] \in Cookie /\ Owner[cred[u]] \in ForumUser
    BY <1>1, ForumAssumption DEF Validate, In, ControllerTypeOK
  <2>2. PageItems(Owner[cred[u]], 1) \in Seq(Notification)
    BY <2>1, PageItemsType
  <2>3. latest' \in [User -> Seq(Notification)]
    BY <1>1, <2>2 DEF Validate, ControllerTypeOK
  <2>4. /\ cpc' \in [User -> Stage] /\ cred' \in [User -> Cookie \cup {NoCookie}]
        /\ \A v \in User : cpc'[v] \in {"validate", "lookup", "bind"} => cred'[v] \in Cookie
    BY <1>1, <2>1, StayType DEF Validate, Stage
  <2> QED BY <1>1, <2>3, <2>4 DEF Validate, ControllerTypeOK, StoreTypeOK
<1>2. CASE ValidateFails(u) \/ SaveFails(u) \/ StatusWriteFails(u)
  <2>1. Done(u) /\ UNCHANGED <<store, forum, binds>>
    BY <1>2 DEF ValidateFails, SaveFails, StatusWriteFails
  <2>2. ControllerTypeOK'
    BY <2>1, DoneType DEF ControllerTypeOK
  <2> QED BY <2>1, <2>2 DEF StoreTypeOK
<1>3. CASE Lookup(u)
  <2>1. cred[u] \in Cookie
    BY <1>3 DEF Lookup, In, ControllerTypeOK
  <2>2. latest[u] # <<>> => Tail(latest[u]) \in Seq(Notification)
    BY HeadTailProperties DEF ControllerTypeOK
  <2>3. baseline' \in [User -> Seq(Notification)]
    BY <1>3, <2>2 DEF Lookup, ControllerTypeOK
  <2>4. /\ cpc' \in [User -> Stage] /\ cred' \in [User -> Cookie \cup {NoCookie}]
        /\ \A v \in User : cpc'[v] \in {"validate", "lookup", "bind"} => cred'[v] \in Cookie
    BY <1>3, <2>1, StayType DEF Lookup, Stage
  <2> QED BY <1>3, <2>3, <2>4 DEF Lookup, ControllerTypeOK, StoreTypeOK
<1>4. CASE Save(u)
  <2>1. cred[u] \in Cookie /\ Owner[cred[u]] \in ForumUser
    BY <1>4, ForumAssumption DEF Save, In, ControllerTypeOK
  <2>2. [forum |-> Owner[cred[u]], cookie |-> cred[u], status |-> "active",
         due |-> TRUE, alerted |-> FALSE] \in Account
    BY <2>1 DEF Account, Status
  <2>3. account' \in [User -> Account \cup {NoAccount}]
    BY <1>4, <2>2 DEF Save, Bind, StoreTypeOK
  <2>4. seen' \in [User -> Seq(Notification)]
    <3>1. baseline[u] \in Seq(Notification)
      BY DEF ControllerTypeOK
    <3>2. InsertAll(u, baseline[u]) \/ UNCHANGED seen
      BY <1>4 DEF Save, Bind
    <3> QED BY <3>1, <3>2, InsertAllType DEF StoreTypeOK
  <2>5. binds' \in [User -> Nat]
    BY <1>4 DEF Save, ControllerTypeOK
  <2>6. ControllerTypeOK'
    BY <1>4, <2>5, DoneType DEF Save
  <2> QED BY <1>4, <2>3, <2>4, <2>6 DEF Save, StoreTypeOK
<1>5. CASE StatusWrite(u)
  <2>1. account' \in [User -> Account \cup {NoAccount}]
    BY <1>5, SetStatusType DEF StatusWrite, ControllerTypeOK, Status
  <2>2. ControllerTypeOK'
    <3>1. CASE Done(u)
      BY <1>5, <3>1, DoneType DEF StatusWrite, ControllerTypeOK
    <3>2. CASE Stay(u, "now") /\ UNCHANGED <<cred, latest, baseline, target>>
      BY <1>5, <3>2, StayType DEF StatusWrite, ControllerTypeOK, Stage
    <3> QED BY <1>5, <3>1, <3>2 DEF StatusWrite
  <2> QED BY <1>5, <2>1, <2>2 DEF StatusWrite, StoreTypeOK
<1>6. CASE ScheduleNow(u)
  <2>1. account' \in [User -> Account \cup {NoAccount}]
    <3>1. Schedule(u, TRUE) \/ UNCHANGED account
      BY <1>6 DEF ScheduleNow
    <3> QED BY <3>1, ScheduleType DEF StoreTypeOK
  <2>2. ControllerTypeOK'
    BY <1>6, DoneType DEF ScheduleNow, ControllerTypeOK
  <2> QED BY <1>6, <2>1, <2>2 DEF ScheduleNow, StoreTypeOK
<1> QED BY <1>1, <1>2, <1>3, <1>4, <1>5, <1>6 DEF Handle

LEMMA CommandType ==
  ASSUME TypeOK, NEW u \in User, Command(u)
  PROVE  StoreTypeOK' /\ ControllerTypeOK' /\ UNCHANGED forum
<1> USE DEF TypeOK
<1>1. CASE CredentialReceive(u)
  <2>1. PICK c \in Cookie : cred' = [cred EXCEPT ![u] = c]
    BY <1>1 DEF CredentialReceive
  <2>2. cpc' = [cpc EXCEPT ![u] = "validate"]
    BY <1>1 DEF CredentialReceive, Stay
  <2>3. /\ cpc' \in [User -> Stage] /\ cred' \in [User -> Cookie \cup {NoCookie}]
        /\ \A v \in User : cpc'[v] \in {"validate", "lookup", "bind"} => cred'[v] \in Cookie
    BY <2>1, <2>2 DEF ControllerTypeOK, Stage
  <2> QED BY <1>1, <2>3 DEF CredentialReceive, ControllerTypeOK, StoreTypeOK
<1>2. CASE StatusRead(u)
  <2>1. /\ cpc' \in [User -> Stage] /\ cred' \in [User -> Cookie \cup {NoCookie}]
        /\ \A v \in User : cpc'[v] \in {"validate", "lookup", "bind"} => cred'[v] \in Cookie
    BY <1>2, StayType DEF StatusRead, Stage
  <2>2. target' \in [User -> {"active", "paused"}]
    BY <1>2 DEF StatusRead, ControllerTypeOK
  <2> QED BY <1>2, <2>1, <2>2 DEF StatusRead, ControllerTypeOK, StoreTypeOK
<1>3. CASE Unbind(u) \/ Ban(u)
  <2>1. Delete(u) /\ UNCHANGED <<globalPause, forum, controller>>
    BY <1>3 DEF Unbind, Ban
  <2>2. account' \in [User -> Account \cup {NoAccount}] /\ seen' \in [User -> Seq(Notification)]
    BY <2>1 DEF Delete, StoreTypeOK
  <2>3. banned' \in SUBSET User
    BY <1>3 DEF Unbind, Ban, StoreTypeOK
  <2> QED BY <2>1, <2>2, <2>3 DEF ControllerTypeOK, StoreTypeOK
<1>4. CASE Unban(u)
  BY <1>4 DEF Unban, ControllerTypeOK, StoreTypeOK
<1> QED BY <1>1, <1>2, <1>3, <1>4 DEF Command

LEMMA SetGlobalPausedType ==
  ASSUME TypeOK, SetGlobalPaused
  PROVE  StoreTypeOK' /\ ControllerTypeOK' /\ UNCHANGED forum
<1> USE DEF TypeOK
<1>1. globalPause' \in BOOLEAN
  BY Zenon DEF SetGlobalPaused, StoreTypeOK
<1> QED BY <1>1 DEF SetGlobalPaused, ControllerTypeOK, StoreTypeOK

LEMMA ForumStepType ==
  ASSUME TypeOK, ForumStep
  PROVE  ForumTypeOK'
<1>1. ASSUME NEW f \in ForumUser, Post(f) PROVE ForumTypeOK'
  BY <1>1, ForumAssumption DEF TypeOK, Post, ForumTypeOK
<1>2. ASSUME NEW c \in Cookie, Expire(c) PROVE ForumTypeOK'
  BY <1>2 DEF TypeOK, Expire, ForumTypeOK
<1> QED BY <1>1, <1>2 DEF ForumStep

LEMMA RestartType ==
  ASSUME TypeOK, Restart
  PROVE  PollerTypeOK' /\ ControllerTypeOK'
<1> USE DEF TypeOK, Restart
<1>1. PollerTypeOK'
  <2> USE DEF ForgetPolls
  <2>1. more' \in [User -> BOOLEAN] /\ first' \in [User -> BOOLEAN]
    OBVIOUS
  <2>2. page' \in [User -> 1 .. MaxPages]
    BY PollerAssumption
  <2>3. /\ pc' \in [User -> Step] /\ \A u \in User : pc'[u] = "rest"
        /\ items' \in [User -> Seq(Notification)] /\ fresh' \in [User -> Seq(Notification)]
        /\ batch' \in [User -> Job \cup {NoJob}] /\ job' \in [User -> Job \cup {NoJob}]
    BY DEF Step
  <2>4. faults' \in 0 .. MaxFaults
    BY FaultType
  <2> QED BY <2>1, <2>2, <2>3, <2>4 DEF PollerTypeOK
<1>2. ControllerTypeOK'
  BY DEF ForgetHandlers, ControllerTypeOK, Stage
<1> QED BY <1>1, <1>2

\* The steps of a handler add what they leave unsent to history.
LEMMA HandlerStepType ==
  ASSUME TypeOK, NEW u \in User, HandlerStep(u)
  PROVE  TypeOK'
<1>1. StoreTypeOK' /\ ControllerTypeOK' /\ UNCHANGED forum
  BY HandleType DEF HandlerStep
<1>2. /\ history' \in [User -> SUBSET Notification] /\ begun' \in [User -> Nat]
      /\ strays' \in [User -> Nat]
  <2>1. CASE NewBinding(u)
    <3>1. cred[u] \in Cookie /\ latest[u] \in Seq(Notification)
      BY <2>1 DEF NewBinding, In, TypeOK, ControllerTypeOK
    <3>2. latest[u] # <<>> => Head(latest[u]) \in Notification
      BY <3>1, HeadTailProperties
    <3>3. Earlier(u) \subseteq Notification
      BY <3>1, <3>2, ForumAssumption DEF Earlier, Notification
    <3>4. /\ history' = [history EXCEPT ![u] = @ \cup (Earlier(u) \ sent[u])]
          /\ begun' = [begun EXCEPT ![u] = @ + 1]
          /\ strays' = [strays EXCEPT ![u] = 0]
      BY <2>1 DEF HandlerStep
    <3> QED BY <3>3, <3>4 DEF TypeOK, PollerTypeOK
  <2>2. CASE ~ NewBinding(u)
    BY <2>2 DEF HandlerStep, TypeOK, PollerTypeOK
  <2> QED BY <2>1, <2>2
<1>3. PollerTypeOK'
  BY <1>2 DEF HandlerStep, TypeOK, PollerTypeOK
<1>4. hidden' \in [User -> SUBSET Notification]
  BY DEF HandlerStep, TypeOK
<1> QED BY <1>1, <1>2, <1>3, <1>4 DEF TypeOK, ForumTypeOK

LEMMA NextType == TypeOK /\ RecordedIsSent /\ [Next]_vars => TypeOK'
<1> SUFFICES ASSUME TypeOK, RecordedIsSent, [Next]_vars PROVE TypeOK'
  OBVIOUS
<1>1. ASSUME NEW u \in User, EnqueueStep(u) PROVE TypeOK'
  BY <1>1, EnqueueType
     DEF EnqueueStep, TypeOK, ForumTypeOK, StoreTypeOK, ControllerTypeOK
<1>2. ASSUME NEW u \in User, PollStep(u) PROVE TypeOK'
  <2>1. StoreTypeOK' /\ PollerTypeOK' /\ UNCHANGED forum
    BY <1>2, PagesType, DeliveriesType, ErrorsType DEF PollStep, Poll, TypeOK, StoreTypeOK
  <2>2. hidden' \in [User -> SUBSET Notification]
    <3>1. CASE Mistakes(u)
      <4>1. Head(items[u]) \in Notification
        BY <3>1, HeadTailProperties DEF Mistakes, TypeOK, PollerTypeOK
      <4>2. UpTo(Head(items[u])) \subseteq Notification
        BY <4>1, UpToType
      <4>3. hidden' = [hidden EXCEPT ![u] = @ \cup (UpTo(Head(items[u])) \ Known(u))]
        BY <1>2, <3>1 DEF PollStep
      <4> QED BY <4>2, <4>3 DEF TypeOK
    <3>2. CASE ~ Mistakes(u)
      BY <1>2, <3>2 DEF PollStep, TypeOK
    <3> QED BY <3>1, <3>2
  <2>3. UNCHANGED <<controller, history, begun>>
    BY <1>2 DEF PollStep
  <2> QED BY <2>1, <2>2, <2>3 DEF TypeOK, ForumTypeOK, ControllerTypeOK
<1>3. ASSUME NEW u \in User, ClockStep(u) PROVE TypeOK'
  <2>1. account' \in [User -> Account \cup {NoAccount}]
    BY <1>3, ScheduleType DEF ClockStep, BecomeDue, TypeOK
  <2> QED BY <1>3, <2>1 DEF ClockStep, BecomeDue, TypeOK, ForumTypeOK, StoreTypeOK,
                           PollerTypeOK, ControllerTypeOK
<1>4. ASSUME NEW u \in User, HandlerStep(u) PROVE TypeOK'
  BY <1>4, HandlerStepType
<1>5. CASE CommandStep
  <2>1. StoreTypeOK' /\ ControllerTypeOK' /\ UNCHANGED forum
    BY <1>5, CommandType, SetGlobalPausedType DEF CommandStep
  <2> QED BY <1>5, <2>1 DEF CommandStep, TypeOK, ForumTypeOK, PollerTypeOK
<1>6. CASE ForumStep
  BY <1>6, ForumStepType
     DEF ForumStep, TypeOK, StoreTypeOK, PollerTypeOK, ControllerTypeOK
<1>7. CASE Restart
  BY <1>7, RestartType DEF Restart, TypeOK, ForumTypeOK, StoreTypeOK
<1>8. CASE UNCHANGED vars
  BY <1>8 DEF vars, TypeOK, ForumTypeOK, StoreTypeOK, PollerTypeOK, ControllerTypeOK
<1> QED BY <1>1, <1>2, <1>3, <1>4, <1>5, <1>6, <1>7, <1>8 DEF Next

-----------------------------------------------------------------------------
(* The history.                                                            *)

\* Only Send leads to the recording, and it has just delivered the notification.
LEMMA RecordedStep ==
  TypeOK /\ RecordedIsSent /\ [Next]_vars => RecordedIsSent'
<1> SUFFICES ASSUME TypeOK, RecordedIsSent, [Next]_vars, NEW v \in User, At(v, "record")'
             PROVE  (fresh[v] # <<>> /\ Head(fresh[v]) \in sent[v])'
  BY DEF RecordedIsSent
<1>1. CASE UNCHANGED <<pc, fresh, sent>>
  BY <1>1 DEF RecordedIsSent, At
<1>2. ASSUME NEW u \in User, PollStep(u)
      PROVE  (fresh[v] # <<>> /\ Head(fresh[v]) \in sent[v])'
  <2>1. CASE v # u
    <3>1. pc'[v] = pc[v] /\ fresh'[v] = fresh[v]
      BY <1>2, <2>1 DEF PollStep, Poll, FetchPage, FetchRefused, FetchFails, CheckNew,
        CheckKnown, CheckFails, TurnPage, Send, SendFails, Record, RecordFails, Finish,
        Retry, Reschedule, MarkRead, MarkWrite, MarkFails, Alert, Trip, Goto, Return,
        TypeOK, PollerTypeOK
    <3>2. sent'[v] = sent[v]
      BY <1>2, <2>1 DEF PollStep, Poll, FetchPage, FetchRefused, FetchFails, CheckNew,
        CheckKnown, CheckFails, TurnPage, Send, SendFails, Record, RecordFails, Finish,
        Retry, Reschedule, MarkRead, MarkWrite, MarkFails, Alert, Trip, Deliver,
        TypeOK, PollerTypeOK
    <3> QED BY <3>1, <3>2 DEF RecordedIsSent, At
  <2>2. CASE v = u
    <3>1. CASE Send(u)
      BY <2>2, <3>1 DEF Send, Deliver, TypeOK, PollerTypeOK
    <3>2. CASE ~ Send(u)
      <4>1. pc'[u] # "record"
        BY <1>2, <3>2 DEF PollStep, Poll, FetchPage, FetchRefused, FetchFails, CheckNew,
          CheckKnown, CheckFails, TurnPage, SendFails, Record, RecordFails, Finish, Retry,
          Reschedule, MarkRead, MarkWrite, MarkFails, Alert, Trip, At, Goto, Return,
          TypeOK, PollerTypeOK
      <4> QED BY <2>2, <4>1 DEF At
    <3> QED BY <3>1, <3>2
  <2> QED BY <2>1, <2>2
<1>3. ASSUME NEW u \in User, EnqueueStep(u)
      PROVE  (fresh[v] # <<>> /\ Head(fresh[v]) \in sent[v])'
  BY <1>3 DEF EnqueueStep, Enqueue, ReadDue, PassOver, StartPoll, Goto, At,
              RecordedIsSent, TypeOK, PollerTypeOK
<1>4. ASSUME NEW u \in User, ClockStep(u) \/ HandlerStep(u)
      PROVE  UNCHANGED <<pc, fresh, sent>>
  BY <1>4 DEF ClockStep, BecomeDue, HandlerStep
<1>5. CASE CommandStep \/ ForumStep \/ UNCHANGED vars
  BY <1>1, <1>5 DEF CommandStep, ForumStep, vars
<1>6. CASE Restart
  BY <1>6 DEF Restart, ForgetPolls, At
<1> QED BY <1>1, <1>2, <1>3, <1>4, <1>5, <1>6 DEF Next

\* Validate reads a page, and Lookup takes the baseline from it.
LEMMA BindingStep ==
  TypeOK /\ PageIsInOrder /\ BaselineIsEarlier /\ [Next]_vars
    => PageIsInOrder' /\ BaselineIsEarlier'
<1> SUFFICES ASSUME TypeOK, PageIsInOrder, BaselineIsEarlier, [Next]_vars
             PROVE  PageIsInOrder' /\ BaselineIsEarlier'
  OBVIOUS
<1> USE DEF PageIsInOrder, BaselineIsEarlier
<1>1. CASE UNCHANGED <<cpc, cred, latest, baseline>>
  <2> SUFFICES ASSUME NEW u \in User PROVE OrderedPage(u)' /\ EarlierBaseline(u)'
    OBVIOUS
  <2>1. OrderedPage(u)'
    BY <1>1 DEF OrderedPage, In
  <2>2. Earlier(u)' = Earlier(u)
    BY <1>1 DEF Earlier
  <2>3. EarlierBaseline(u)'
    BY <1>1, <2>2 DEF EarlierBaseline, In
  <2> QED BY <2>1, <2>3
<1>2. ASSUME NEW u \in User, NEW v \in User \ {u}, Handle(u) \/ Command(u)
      PROVE  OrderedPage(v)' /\ EarlierBaseline(v)'
  <2>1. /\ cpc'[v] = cpc[v] /\ cred'[v] = cred[v]
        /\ latest'[v] = latest[v] /\ baseline'[v] = baseline[v]
    BY <1>2 DEF Handle, Validate, ValidateFails, Lookup, Save, SaveFails, StatusWrite,
      StatusWriteFails, ScheduleNow, Command, CredentialReceive, StatusRead, Unbind, Ban, Unban, Stay, Done,
      TypeOK, ControllerTypeOK
  <2>2. Earlier(v)' = Earlier(v)
    BY <2>1 DEF Earlier
  <2> QED BY <2>1, <2>2 DEF OrderedPage, EarlierBaseline, In
<1>3. ASSUME NEW u \in User, Handle(u) \/ Command(u),
             cpc'[u] # "lookup", cpc'[u] # "bind"
      PROVE  PageIsInOrder' /\ BaselineIsEarlier'
  <2>1. OrderedPage(u)' /\ EarlierBaseline(u)'
    BY <1>3 DEF OrderedPage, EarlierBaseline, In
  <2> QED BY <1>2, <1>3, <2>1
<1>4. ASSUME NEW u \in User, Handle(u) PROVE PageIsInOrder' /\ BaselineIsEarlier'
  <2>1. CASE Validate(u)
    <3>1. cred[u] \in Cookie /\ Owner[cred[u]] \in ForumUser
      BY <2>1, ForumAssumption DEF Validate, In, TypeOK, ControllerTypeOK
    <3>2. /\ cpc'[u] = "lookup" /\ cred'[u] = cred[u]
          /\ latest'[u] = PageItems(Owner[cred[u]], 1)
      BY <2>1 DEF Validate, Stay, TypeOK, ControllerTypeOK
    <3>3. \A i \in 1 .. Len(latest'[u]) :
            latest'[u][i] = <<Owner[cred'[u]], latest'[u][1][2] - i + 1>>
      BY <3>1, <3>2, PageItemsType DEF TypeOK
    <3>4. OrderedPage(u)' /\ EarlierBaseline(u)'
      BY <3>2, <3>3 DEF OrderedPage, EarlierBaseline, In
    <3> QED BY <1>2, <1>4, <3>4
  <2>2. CASE Lookup(u)
    <3>1. /\ In(u, "lookup") /\ cpc'[u] = "bind" /\ cred'[u] = cred[u]
          /\ latest'[u] = latest[u]
          /\ baseline'[u] = <<>> \/ (latest[u] # <<>> /\ baseline'[u] = Tail(latest[u]))
      BY <2>2 DEF Lookup, Stay, TypeOK, ControllerTypeOK
    <3>2. latest[u] \in Seq(Notification)
      BY DEF TypeOK, ControllerTypeOK
    <3>3. ASSUME latest[u] # <<>>, NEW i \in 1 .. Len(Tail(latest[u]))
          PROVE  Tail(latest[u])[i] \in Earlier(u)
      <4>1. /\ Tail(latest[u])[i] = latest[u][i + 1]
            /\ i + 1 \in 1 .. Len(latest[u]) /\ 1 \in 1 .. Len(latest[u])
        BY <3>2, <3>3, HeadTailProperties
      <4>2. latest[u][i + 1] = <<Owner[cred[u]], latest[u][1][2] - (i + 1) + 1>>
        BY <3>1, <4>1 DEF OrderedPage
      <4>3. latest[u][1] \in Notification /\ latest[u][i + 1] \in Notification
        BY <3>2, <4>1
      <4>4. latest[u][1][2] \in Nat /\ latest[u][i + 1][2] \in 1 .. MaxFeed
        BY <4>3, ForumAssumption DEF Notification
      <4> DEFINE k == latest[u][1][2] - (i + 1) + 1
      <4>5. k \in 1 .. (Head(latest[u])[2] - 1)
        BY <4>1, <4>2, <4>4
      <4>6. Tail(latest[u])[i] = <<Owner[cred[u]], k>>
        BY <4>1, <4>2
      <4> QED BY <3>3, <4>5, <4>6 DEF Earlier
    <3>4. Earlier(u)' = Earlier(u)
      BY <3>1 DEF Earlier
    <3>5. \A i \in 1 .. Len(baseline'[u]) : baseline'[u][i] \in Earlier(u)
      <4>1. CASE baseline'[u] = <<>>
        BY <4>1
      <4>2. CASE latest[u] # <<>> /\ baseline'[u] = Tail(latest[u])
        BY <3>3, <4>2
      <4> QED BY <3>1, <4>1, <4>2
    <3>6. OrderedPage(u)'
      BY <3>1 DEF OrderedPage, In
    <3>7. EarlierBaseline(u)'
      BY <3>4, <3>5 DEF EarlierBaseline
    <3> QED BY <1>2, <1>4, <3>6, <3>7
  <2>3. CASE ~ Validate(u) /\ ~ Lookup(u)
    <3>1. cpc'[u] # "lookup" /\ cpc'[u] # "bind"
      BY <1>4, <2>3 DEF Handle, ValidateFails, Save, SaveFails, StatusWrite,
                        StatusWriteFails, ScheduleNow,
                        Stay, Done, TypeOK, ControllerTypeOK
    <3> QED BY <1>3, <1>4, <3>1
  <2> QED BY <2>1, <2>2, <2>3
<1>5. CASE CommandStep
  <2>1. ASSUME NEW u \in User, CredentialReceive(u) \/ StatusRead(u)
        PROVE  PageIsInOrder' /\ BaselineIsEarlier'
    <3>1. cpc'[u] # "lookup" /\ cpc'[u] # "bind"
      BY <2>1 DEF CredentialReceive, StatusRead, Stay, TypeOK, ControllerTypeOK
    <3> QED BY <1>3, <2>1, <3>1 DEF Command
  <2>2. CASE SetGlobalPaused \/ \E u \in User : Unbind(u) \/ Ban(u) \/ Unban(u)
    BY <1>1, <2>2 DEF SetGlobalPaused, Unbind, Ban, Unban
  <2> QED BY <1>5, <2>1, <2>2 DEF CommandStep, Command
<1>6. CASE Restart
  BY <1>6 DEF Restart, ForgetHandlers, OrderedPage, EarlierBaseline, In
<1>7. ASSUME NEW u \in User, EnqueueStep(u) \/ PollStep(u) \/ ClockStep(u)
      PROVE  PageIsInOrder' /\ BaselineIsEarlier'
  BY <1>1, <1>7 DEF EnqueueStep, PollStep, ClockStep
<1>8. CASE ForumStep \/ UNCHANGED vars
  BY <1>1, <1>8 DEF ForumStep, Post, Expire, vars
<1> QED BY <1>4, <1>5, <1>6, <1>7, <1>8 DEF Next, HandlerStep

\* Nothing takes back what was delivered or left unsent.
LEMMA GhostsGrow ==
  ASSUME TypeOK, [Next]_vars, NEW v \in User
  PROVE  /\ sent[v] \subseteq sent'[v] /\ history[v] \subseteq history'[v]
         /\ hidden[v] \subseteq hidden'[v]
<1>1. ASSUME NEW u \in User, PollStep(u)
      PROVE  sent[v] \subseteq sent'[v] /\ hidden[v] \subseteq hidden'[v]
  <2>1. UNCHANGED sent \/ \E n \in {Head(fresh[u])} : Deliver(u, n)
    BY <1>1 DEF PollStep, Poll, FetchPage, FetchRefused, FetchFails, CheckNew,
        CheckKnown, CheckFails, TurnPage, Send, SendFails, Record, RecordFails, Finish,
        Retry, Reschedule, MarkRead, MarkWrite, MarkFails, Alert, Trip
  <2>2. ASSUME NEW n, Deliver(u, n) PROVE sent[v] \subseteq sent'[v]
    <3>1. sent' = [sent EXCEPT ![u] = @ \cup {n}] /\ sent \in [User -> SUBSET Notification]
      BY <2>2 DEF Deliver, TypeOK, PollerTypeOK
    <3> QED BY <3>1
  <2>3. \/ UNCHANGED hidden
        \/ hidden' = [hidden EXCEPT ![u] = @ \cup (UpTo(Head(items[u])) \ Known(u))]
    BY <1>1 DEF PollStep
  <2>4. hidden[v] \subseteq hidden'[v]
    BY <2>3 DEF TypeOK
  <2> QED BY <2>1, <2>2, <2>4
<1>2. ASSUME NEW u \in User, HandlerStep(u)
      PROVE  history[v] \subseteq history'[v] /\ UNCHANGED <<sent, hidden>>
  <2>1. \/ UNCHANGED history
        \/ history' = [history EXCEPT ![u] = @ \cup (Earlier(u) \ sent[u])]
    BY <1>2 DEF HandlerStep
  <2> QED BY <1>2, <2>1 DEF HandlerStep, TypeOK
<1>3. ASSUME NEW u \in User, EnqueueStep(u) \/ ClockStep(u)
      PROVE  UNCHANGED <<sent, history, hidden>>
  BY <1>3 DEF EnqueueStep, Enqueue, ReadDue, PassOver, StartPoll, ClockStep, BecomeDue
<1>4. CASE CommandStep \/ ForumStep \/ Restart \/ UNCHANGED vars
  BY <1>4 DEF CommandStep, ForumStep, Restart, vars
<1> QED BY <1>1, <1>2, <1>3, <1>4 DEF Next, PollStep

\* Only commands and bindings add and delete rows.
LEMMA PollKeepsRows ==
  ASSUME TypeOK, NEW u \in User, PollStep(u), NEW v \in User
  PROVE  Bound(v)' <=> Bound(v)
<1>1. CASE UNCHANGED account
  BY <1>1 DEF Bound
<1>2. CASE MarkWrite(u)
  BY <1>2, MarkRebindType DEF MarkWrite, TypeOK
<1>3. CASE Reschedule(u)
  <2>1. CASE Schedule(u, FALSE)
    BY <2>1, ScheduleType DEF TypeOK
  <2> QED BY <1>1, <1>3, <2>1 DEF Reschedule
<1>4. UNCHANGED account \/ MarkWrite(u) \/ Reschedule(u)
  BY DEF PollStep, Poll, FetchPage, FetchRefused, FetchFails, CheckNew,
        CheckKnown, CheckFails, TurnPage, Send, SendFails, Record, RecordFails, Finish,
        Retry, MarkRead, MarkFails, Alert, Trip
<1> QED BY <1>1, <1>2, <1>3, <1>4

\* Of a poll's steps only Record writes the history.
LEMMA PollKeepsSeen ==
  ASSUME NEW u \in User, PollStep(u), ~ Record(u)
  PROVE  UNCHANGED seen
BY DEF PollStep, Poll, FetchPage, FetchRefused, FetchFails, CheckNew, CheckKnown,
  CheckFails, TurnPage, Send, SendFails, RecordFails, Finish, Retry, Reschedule,
  MarkRead, MarkWrite, MarkFails, Alert, Trip

\* Save leaves a row for its user and does not touch the others.
LEMMA SaveBinds ==
  ASSUME TypeOK, NEW u \in User, Save(u)
  PROVE  /\ Bound(u)' /\ account'[u].forum = Owner[cred[u]]
         /\ \A v \in User \ {u} : Bound(v)' <=> Bound(v)
<1>1. cred[u] \in Cookie /\ Owner[cred[u]] \in ForumUser
  BY ForumAssumption DEF Save, In, TypeOK, ControllerTypeOK
<1> DEFINE row == [forum |-> Owner[cred[u]], cookie |-> cred[u], status |-> "active",
                   due |-> TRUE, alerted |-> FALSE]
<1>2. row \in Account /\ row.forum = Owner[cred[u]]
  BY <1>1 DEF Account, Status
<1>3. account' = [account EXCEPT ![u] = row]
  BY DEF Save, Bind
<1>4. account'[u] = row /\ \A v \in User \ {u} : account'[v] = account[v]
  BY <1>3 DEF TypeOK, StoreTypeOK
<1> QED BY <1>2, <1>4, NoAccountAssumption DEF Bound

LEMMA HistoryStep ==
  HistoryIsJustified /\ [Next]_vars => SeenWasSent' /\ NoHistoryWithoutAccount'
<1> SUFFICES ASSUME HistoryIsJustified, [Next]_vars
             PROVE  SeenWasSent' /\ NoHistoryWithoutAccount'
  OBVIOUS
<1> USE DEF HistoryIsJustified
<1>1. ASSUME NEW v \in User
      PROVE  Known(v) \subseteq Known(v)'
  BY <1>1, GhostsGrow DEF Known
<1>2. CASE UNCHANGED seen /\ \A v \in User : Bound(v)' <=> Bound(v)
  BY <1>1, <1>2 DEF SeenWasSent, NoHistoryWithoutAccount, SeenIds
<1>3. CASE UNCHANGED <<account, seen>>
  BY <1>2, <1>3 DEF Bound
<1>4. ASSUME NEW u \in User, PollStep(u)
      PROVE  SeenWasSent' /\ NoHistoryWithoutAccount'
  <2>1. CASE Record(u)
    <3>1. Head(fresh[u]) \in sent[u] /\ Head(fresh[u]) \in Notification
      BY <2>1, HeadTailProperties DEF Record, RecordedIsSent, TypeOK, PollerTypeOK
    <3>2. /\ \A v \in User \ {u} : seen'[v] = seen[v]
          /\ SeenIds(u)' \subseteq SeenIds(u) \cup {Head(fresh[u])}
      BY <2>1, <3>1, AddSeenType DEF Record, TypeOK
    <3>3. SeenWasSent'
      <4>1. \A v \in User \ {u} : SeenIds(v)' = SeenIds(v)
        BY <3>2 DEF SeenIds
      <4> QED BY <1>1, <3>1, <3>2, <4>1 DEF SeenWasSent, Known
    <3>4. Bound(u) /\ UNCHANGED account
      BY <2>1 DEF Record, AddSeen
    <3>5. NoHistoryWithoutAccount'
      BY <3>2, <3>4 DEF NoHistoryWithoutAccount, Bound
    <3> QED BY <3>3, <3>5
  <2>2. CASE ~ Record(u)
    BY <1>2, <1>4, <2>2, PollKeepsSeen, PollKeepsRows
  <2> QED BY <2>1, <2>2
<1>5. ASSUME NEW u \in User, HandlerStep(u)
      PROVE  SeenWasSent' /\ NoHistoryWithoutAccount'
  <2>1. CASE Save(u)
    <3>1. Bound(u)' /\ \A v \in User \ {u} : Bound(v)' <=> Bound(v)
      BY <2>1, SaveBinds
    <3>2. CASE Changed(u, Owner[cred[u]])
      <4>1. NewBinding(u)
        BY <2>1, <3>1, <3>2, SaveBinds DEF NewBinding, Save, Bound
      <4>2. history' = [history EXCEPT ![u] = @ \cup (Earlier(u) \ sent[u])]
            /\ UNCHANGED sent
        BY <1>5, <4>1 DEF HandlerStep
      <4>3. /\ \A i \in 1 .. Len(seen'[u]) :
                 \E j \in 1 .. Len(baseline[u]) : seen'[u][i] = baseline[u][j]
            /\ \A v \in User \ {u} : seen'[v] = seen[v]
        <5>1. baseline[u] \in Seq(Notification)
          BY DEF TypeOK, ControllerTypeOK
        <5>2. InsertAll(u, baseline[u])
          BY <2>1, <3>2 DEF Save, Bind
        <5> QED BY <5>1, <5>2, InsertAllType DEF TypeOK
      <4>4. \A i \in 1 .. Len(baseline[u]) : baseline[u][i] \in Earlier(u)
        BY <2>1 DEF Save, BaselineIsEarlier, EarlierBaseline
      <4>5. SeenIds(u)' \subseteq Known(u)'
        <5>1. SeenIds(u)' \subseteq Earlier(u)
          BY <4>3, <4>4 DEF SeenIds
        <5>2. Earlier(u) \subseteq sent'[u] \cup history'[u]
          BY <4>2 DEF TypeOK
        <5> QED BY <5>1, <5>2 DEF Known
      <4>6. \A v \in User \ {u} : SeenIds(v)' = SeenIds(v)
        BY <4>3 DEF SeenIds
      <4>7. SeenWasSent'
        BY <1>1, <4>5, <4>6 DEF SeenWasSent
      <4> QED BY <3>1, <4>3, <4>7 DEF NoHistoryWithoutAccount
    <3>3. CASE ~ Changed(u, Owner[cred[u]])
      <4>1. UNCHANGED seen
        BY <2>1, <3>3 DEF Save, Bind
      <4>2. SeenWasSent'
        BY <1>1, <4>1 DEF SeenWasSent, SeenIds
      <4> QED BY <3>1, <4>1, <4>2 DEF NoHistoryWithoutAccount
    <3> QED BY <3>2, <3>3
  <2>2. CASE StatusWrite(u)
    BY <1>2, <2>2, SetStatusType
       DEF StatusWrite, TypeOK, ControllerTypeOK, Status
  <2>3. CASE ScheduleNow(u)
    <3>1. UNCHANGED seen /\ (Schedule(u, TRUE) \/ UNCHANGED account)
      BY <2>3 DEF ScheduleNow
    <3> QED BY <1>2, <1>3, <3>1, ScheduleType DEF TypeOK
  <2>4. CASE \/ Validate(u) \/ ValidateFails(u) \/ Lookup(u) \/ SaveFails(u)
             \/ StatusWriteFails(u)
    BY <1>3, <2>4 DEF Validate, ValidateFails, Lookup, SaveFails, StatusWriteFails
  <2> QED BY <1>5, <2>1, <2>2, <2>3, <2>4 DEF HandlerStep, Handle
<1>6. CASE CommandStep
  <2>1. ASSUME NEW u \in User, Unbind(u) \/ Ban(u)
        PROVE  SeenWasSent' /\ NoHistoryWithoutAccount'
    <3>1. /\ seen'[u] = <<>>
          /\ \A v \in User \ {u} : seen'[v] = seen[v] /\ (Bound(v)' <=> Bound(v))
      BY <2>1 DEF Unbind, Ban, Delete, TypeOK, StoreTypeOK, Bound
    <3> QED BY <1>1, <3>1 DEF SeenWasSent, NoHistoryWithoutAccount, SeenIds
  <2>2. CASE SetGlobalPaused \/ \E u \in User :
               CredentialReceive(u) \/ StatusRead(u) \/ Unban(u)
    BY <1>3, <2>2 DEF SetGlobalPaused, CredentialReceive, StatusRead, Unban
  <2> QED BY <1>6, <2>1, <2>2 DEF CommandStep, Command
<1>7. ASSUME NEW u \in User, EnqueueStep(u) \/ ClockStep(u)
      PROVE  SeenWasSent' /\ NoHistoryWithoutAccount'
  <2>1. CASE EnqueueStep(u)
    BY <1>3, <2>1 DEF EnqueueStep, Enqueue, ReadDue, PassOver, StartPoll
  <2>2. CASE ClockStep(u)
    BY <1>2, <2>2, ScheduleType DEF ClockStep, BecomeDue, TypeOK
  <2> QED BY <1>7, <2>1, <2>2
<1>8. CASE ForumStep \/ Restart \/ UNCHANGED vars
  BY <1>3, <1>8 DEF ForumStep, Restart, vars
<1> QED BY <1>4, <1>5, <1>6, <1>7, <1>8 DEF Next

-----------------------------------------------------------------------------
LEMMA InitJustified == Init => HistoryIsJustified
<1> SUFFICES ASSUME Init PROVE HistoryIsJustified
  OBVIOUS
<1>1. \A u \in User : seen[u] = <<>> /\ pc[u] = "rest" /\ cpc[u] = "idle"
  BY DEF Init, StoreInit, PollerInit, PollerIdle, ControllerInit, HandlersIdle
<1>2. SeenWasSent /\ NoHistoryWithoutAccount
  BY <1>1 DEF SeenWasSent, NoHistoryWithoutAccount, SeenIds
<1>3. RecordedIsSent /\ PageIsInOrder /\ BaselineIsEarlier
  BY <1>1 DEF RecordedIsSent, PageIsInOrder, BaselineIsEarlier, OrderedPage,
              EarlierBaseline, At, In
<1> QED BY <1>2, <1>3, BotInitType DEF HistoryIsJustified

LEMMA NextJustified == HistoryIsJustified /\ [Next]_vars => HistoryIsJustified'
BY NextType, RecordedStep, BindingStep, HistoryStep DEF HistoryIsJustified

LEMMA AlwaysJustified == Spec => []HistoryIsJustified
BY InitJustified, NextJustified, PTL DEF Spec

\* The variables of the whole bot keep their types; in particular a poll that is
\* under way has its account, and a binding its credential.
THEOREM BotTypeCorrect == Spec => []TypeOK
<1>1. HistoryIsJustified => TypeOK
  BY DEF HistoryIsJustified
<1> QED BY <1>1, AlwaysJustified, PTL

\* README.md:73 "Telegram 发送成功后才记录 seen": whatever poll takes for known was
\* delivered before or was there when the user bound, through every failure,
\* restart, ban, unbinding and change of the forum user.
THEOREM HistoryWasSent == Spec => []SeenWasSent
<1>1. HistoryIsJustified => SeenWasSent
  BY DEF HistoryIsJustified
<1> QED BY <1>1, AlwaysJustified, PTL

\* An account that is deleted leaves no history, and no poll that is still running
\* brings it back.
THEOREM HistoryNeedsAccount == Spec => []NoHistoryWithoutAccount
<1>1. HistoryIsJustified => NoHistoryWithoutAccount
  BY DEF HistoryIsJustified
<1> QED BY <1>1, AlwaysJustified, PTL

-----------------------------------------------------------------------------
(* The capacity.  User may be infinite; the rows never are.                *)

Rows == {v \in User : Bound(v)}

RowsFit == IsFiniteSet(Rows) /\ Cardinality(Rows) <= MaxUsers

\* A step adds a row only through Save, which looks for room in the transaction.
LEMMA RowsStep ==
  ASSUME TypeOK, [Next]_vars
  PROVE  \/ Rows' = Rows
         \/ \E u \in User : Save(u) /\ ~ Bound(u) /\ Rows' = Rows \cup {u}
         \/ \E u \in User : Rows' = Rows \ {u}
<1>1. ASSUME NEW u \in User, PollStep(u) PROVE Rows' = Rows
  BY <1>1, PollKeepsRows DEF Rows
<1>2. ASSUME UNCHANGED account PROVE Rows' = Rows
  BY <1>2 DEF Rows, Bound
<1>3. ASSUME NEW u \in User, HandlerStep(u)
      PROVE  Rows' = Rows \/ (Save(u) /\ ~ Bound(u) /\ Rows' = Rows \cup {u})
  <2>1. CASE Save(u)
    BY <2>1, SaveBinds DEF Rows
  <2>2. CASE StatusWrite(u)
    BY <2>2, SetStatusType DEF StatusWrite, TypeOK, ControllerTypeOK, Status, Rows
  <2>3. CASE ScheduleNow(u)
    <3>1. Schedule(u, TRUE) \/ UNCHANGED account
      BY <2>3 DEF ScheduleNow
    <3> QED BY <1>2, <3>1, ScheduleType DEF TypeOK, Rows
  <2>4. CASE \/ Validate(u) \/ ValidateFails(u) \/ Lookup(u) \/ SaveFails(u)
             \/ StatusWriteFails(u)
    BY <1>2, <2>4 DEF Validate, ValidateFails, Lookup, SaveFails, StatusWriteFails
  <2> QED BY <1>3, <2>1, <2>2, <2>3, <2>4 DEF HandlerStep, Handle
<1>4. CASE CommandStep
  <2>1. ASSUME NEW u \in User, Unbind(u) \/ Ban(u) PROVE Rows' = Rows \ {u}
    BY <2>1 DEF Unbind, Ban, Delete, TypeOK, StoreTypeOK, Bound, Rows
  <2>2. CASE SetGlobalPaused \/ \E u \in User :
               CredentialReceive(u) \/ StatusRead(u) \/ Unban(u)
    BY <1>2, <2>2 DEF SetGlobalPaused, CredentialReceive, StatusRead, Unban
  <2> QED BY <1>4, <2>1, <2>2 DEF CommandStep, Command
<1>5. ASSUME NEW u \in User, EnqueueStep(u) \/ ClockStep(u) PROVE Rows' = Rows
  <2>1. CASE EnqueueStep(u)
    BY <1>2, <2>1 DEF EnqueueStep, Enqueue, ReadDue, PassOver, StartPoll
  <2>2. CASE ClockStep(u)
    BY <2>2, ScheduleType DEF ClockStep, BecomeDue, TypeOK, Rows
  <2> QED BY <1>5, <2>1, <2>2
<1>6. CASE ForumStep \/ Restart \/ UNCHANGED vars
  BY <1>2, <1>6 DEF ForumStep, Restart, vars
<1> QED BY <1>1, <1>3, <1>4, <1>5, <1>6 DEF Next

LEMMA RowsFitStep == TypeOK /\ RowsFit /\ [Next]_vars => RowsFit'
<1> SUFFICES ASSUME TypeOK, RowsFit, [Next]_vars PROVE RowsFit'
  OBVIOUS
<1>0. Cardinality(Rows) \in Nat
  BY FS_CardinalityType DEF RowsFit
<1>1. CASE Rows' = Rows
  BY <1>1 DEF RowsFit
<1>2. ASSUME NEW u \in User, Save(u), ~ Bound(u), Rows' = Rows \cup {u} PROVE RowsFit'
  <2>1. Cardinality(Rows) < MaxUsers
    BY <1>2, Zenon DEF Save, HasRoom, Rows
  <2>2. u \notin Rows
    BY <1>2 DEF Rows
  <2>3. IsFiniteSet(Rows \cup {u}) /\ Cardinality(Rows \cup {u}) = Cardinality(Rows) + 1
    BY <2>2, FS_AddElement DEF RowsFit
  <2> QED BY <1>0, <1>2, <2>1, <2>3, StoreAssumption DEF RowsFit
<1>3. ASSUME NEW u \in User, Rows' = Rows \ {u} PROVE RowsFit'
  <2>1. IsFiniteSet(Rows \ {u}) /\ Cardinality(Rows \ {u}) <= Cardinality(Rows)
    <3>1. Rows \ {u} \in SUBSET Rows
      OBVIOUS
    <3> QED BY <3>1, FS_Subset DEF RowsFit
  <2>2. Cardinality(Rows \ {u}) \in Nat
    BY <2>1, FS_CardinalityType
  <2> QED BY <1>0, <1>3, <2>1, <2>2, StoreAssumption DEF RowsFit
<1> QED BY <1>1, <1>2, <1>3, RowsStep

\* MAX_USERS bounds the accounts, however many users bind at the same time.
THEOREM CapacityIsKept == Spec => []WithinCapacity
<1>1. Init => RowsFit
  <2> SUFFICES ASSUME Init PROVE RowsFit
    OBVIOUS
  <2>1. Rows = {}
    BY DEF Init, StoreInit, Rows, Bound
  <2> QED BY <2>1, FS_EmptySet, StoreAssumption DEF RowsFit
<1>2. TypeOK /\ RowsFit /\ [Next]_vars => RowsFit'
  BY RowsFitStep
<1>3. RowsFit => WithinCapacity
  BY DEF RowsFit, WithinCapacity, Rows
<1> QED BY <1>1, <1>2, <1>3, BotTypeCorrect, PTL DEF Spec
=============================================================================
