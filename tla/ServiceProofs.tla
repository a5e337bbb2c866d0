---------------------------- MODULE ServiceProofs ----------------------------
(***************************************************************************)
(* Proofs about the updates and the life of the process, for every number  *)
(* of workers, updates, locks and stops and every limit: no user gets twice *)
(* the limit through, or a limit more for each restart, no two handlers of *)
(* a user overlap, the offset loses and repeats nothing, and the store is  *)
(* closed last.                                                            *)
(***************************************************************************)
EXTENDS Service, SequenceTheorems, TLAPS

-----------------------------------------------------------------------------
(* Types.  What a process leaves behind matters to them: the workers of    *)
(* the next one start with nothing in their hands.                         *)

Asleep == phase = "down" => queue = <<>> /\ \A w \in Worker : stage[w] = "gone"

Typed == TypeOK /\ Asleep

LEMMA InitType == Init => Typed
<1> SUFFICES ASSUME Init PROVE Typed
  OBVIOUS
<1>1. window \in [Sender -> [age : 0 .. Period, count : 0 .. Limit]]
      /\ ages \in [Sender -> [1 .. Depth -> 0 .. Period]]
      /\ ends \in [1 .. MaxStops + 1 -> 0 .. Period]
  BY UpdatesAssumption DEF Init, UpdatesInit, NoWindow
<1>2. stage \in [Worker -> Stage] /\ update \in [Worker -> Update \cup {0}]
      /\ \A w \in Worker : update[w] # 0 <=> stage[w] \notin {"free", "gone"}
  BY DEF Init, UpdatesInit, Stage
<1>3. queue \in Seq(Update) /\ locked \in SUBSET (0 .. (Locks - 1))
      /\ handled \in SUBSET Update /\ recorded \in SUBSET Update
      /\ dropped \in SUBSET Update
  BY DEF Init, UpdatesInit
<1>4. confirmed \in 0 .. MaxUpdate /\ stored \in 0 .. (MaxUpdate + 1)
      /\ fetched \in 0 .. MaxUpdate
  BY UpdatesAssumption DEF Init, UpdatesInit
<1>5. UpdatesTypeOK
  BY <1>1, <1>2, <1>3, <1>4 DEF UpdatesTypeOK
<1>6. stops \in 0 .. MaxStops
  BY UpdatesAssumption DEF Init
<1>7. polling \in BOOLEAN /\ probing \in BOOLEAN /\ late \in BOOLEAN
  BY DEF Init
<1>8. phase \in Phase
  BY DEF Init, Phase
<1>9. Asleep
  BY DEF Init, UpdatesInit, Asleep
<1> QED BY <1>5, <1>6, <1>7, <1>8, <1>9 DEF Typed, TypeOK

\* An entry of the rate limit that allows a command has room for it.
LEMMA EntryType ==
  ASSUME TypeOK, NEW s \in Sender
  PROVE  /\ Entry(s) \in [age : 0 .. Period, count : 0 .. Limit]
         /\ Allowed(s) => Entry(s).count + 1 \in 0 .. Limit
BY UpdatesAssumption DEF TypeOK, UpdatesTypeOK, Entry, Allowed

LEMMA OlderType == ASSUME NEW a \in 0 .. Period PROVE Older(a) \in 0 .. Period
BY UpdatesAssumption DEF Older

LEMMA LaterType ==
  ASSUME NEW n \in Nat, NEW a \in [1 .. n -> 0 .. Period]
  PROVE  Later(a) \in [1 .. n -> 0 .. Period]
<1>1. ASSUME NEW k \in 1 .. n PROVE (IF k = 1 THEN 0 ELSE a[k - 1]) \in 0 .. Period
  <2>1. k # 1 => k - 1 \in 1 .. n
    OBVIOUS
  <2> QED BY <2>1, UpdatesAssumption
<1> QED BY <1>1 DEF Later

LEMMA LockType == ASSUME NEW u \in Update PROVE Lock(u) \in 0 .. (Locks - 1)
<1>1. From[u] \in Nat /\ Locks \in Nat \ {0}
  BY UpdatesAssumption
<1> QED BY <1>1 DEF Lock

\* What a worker is busy with is an update.
LEMMA BusyType ==
  ASSUME TypeOK, NEW w \in Worker, stage[w] \notin {"free", "gone"}
  PROVE  update[w] \in Update /\ From[update[w]] \in Sender
BY DEF TypeOK, UpdatesTypeOK, Sender

LEMMA ReceiveType == TypeOK /\ Receive => UpdatesTypeOK'
<1> SUFFICES ASSUME TypeOK, Receive PROVE UpdatesTypeOK'
  OBVIOUS
<1> DEFINE after == Larger(confirmed, fetched)
<1>1. PICK n \in after .. MaxUpdate : Receive!(n)
  BY DEF Receive
<1>2. after \in 0 .. MaxUpdate
  BY UpdatesAssumption DEF TypeOK, UpdatesTypeOK, Larger
<1> DEFINE more == [i \in 1 .. (n - after) |-> after + i]
<1>3. n \in 0 .. MaxUpdate /\ n - after \in Nat
  BY <1>1, <1>2, UpdatesAssumption
<1>4. more \in Seq(Update)
  <2>1. \A i \in 1 .. (n - after) : after + i \in Update
    BY <1>2, <1>3, UpdatesAssumption DEF Update
  <2> HIDE DEF after
  <2> QED BY <1>3, <2>1
<1>5. queue' \in Seq(Update)
  BY <1>1, <1>4 DEF TypeOK, UpdatesTypeOK
<1>6. fetched' \in 0 .. MaxUpdate /\ confirmed' \in 0 .. MaxUpdate
  BY <1>1, <1>2, <1>3 DEF TypeOK, UpdatesTypeOK
<1> QED BY <1>1, <1>5, <1>6 DEF TypeOK, UpdatesTypeOK, workers, rate, fate

LEMMA EndType == TypeOK /\ EndUpdates => UpdatesTypeOK'
<1> SUFFICES ASSUME TypeOK, EndUpdates PROVE UpdatesTypeOK'
  OBVIOUS
<1>1. window' \in [Sender -> [age : 0 .. Period, count : 0 .. Limit]]
      /\ ages' \in [Sender -> [1 .. Depth -> 0 .. Period]]
  BY UpdatesAssumption DEF EndUpdates, NoWindow, TypeOK, UpdatesTypeOK
<1>6. ends' \in [1 .. MaxStops + 1 -> 0 .. Period]
  <2>1. MaxStops + 1 \in Nat /\ ends \in [1 .. MaxStops + 1 -> 0 .. Period]
    BY UpdatesAssumption DEF TypeOK, UpdatesTypeOK
  <2>2. Later(ends) \in [1 .. MaxStops + 1 -> 0 .. Period]
    BY <2>1, LaterType
  <2> QED BY <2>2 DEF EndUpdates
<1>2. InHand \subseteq Update
  BY DEF TypeOK, UpdatesTypeOK, InHand, Range
<1>3. dropped' \in SUBSET Update
  BY <1>2 DEF EndUpdates, TypeOK, UpdatesTypeOK
<1>4. /\ queue' \in Seq(Update)
      /\ stage' \in [Worker -> Stage]
      /\ update' \in [Worker -> Update \cup {0}]
      /\ \A w \in Worker : update'[w] = 0 /\ stage'[w] = "gone"
      /\ locked' = {}
  BY DEF EndUpdates, Stage
<1>5. fetched' \in 0 .. MaxUpdate /\ UNCHANGED <<confirmed, stored, recorded, handled>>
  BY UpdatesAssumption DEF EndUpdates
<1> QED BY <1>1, <1>3, <1>4, <1>5, <1>6 DEF TypeOK, UpdatesTypeOK

LEMMA UpdateStepType == ASSUME TypeOK, NEW w \in Worker, UpdateStep(w) PROVE TypeOK'
<1> USE DEF api, workers, rate, fate, run
<1>1. UNCHANGED run
  BY DEF UpdateStep
<1>2. CASE Take(w)
  <2>1. Head(queue) \in Update /\ Tail(queue) \in Seq(Update)
    BY <1>2 DEF Take, TypeOK, UpdatesTypeOK
  <2>2. PICK k \in Kinds[Head(queue)] : Step(w, "free", k)
    BY <1>2 DEF Take
  <2>3. k \in Kind
    BY <2>1, <2>2, UpdatesAssumption
  <2>4. stage' \in [Worker -> Stage] /\ update' \in [Worker -> Update \cup {0}]
    BY <1>2, <2>1, <2>2, <2>3 DEF Take, Step, TypeOK, UpdatesTypeOK, Stage
  <2>5. \A v \in Worker : update'[v] # 0 <=> stage'[v] \notin {"free", "gone"}
    BY <1>2, <2>1, <2>2, <2>3, UpdatesAssumption
       DEF Take, Step, TypeOK, UpdatesTypeOK, Kind, Update
  <2> QED BY <1>1, <1>2, <2>1, <2>4, <2>5 DEF Take, TypeOK, UpdatesTypeOK
<1>3. CASE Admit(w)
  <2>1. update[w] \in Update /\ From[update[w]] \in Sender
    BY <1>3, BusyType DEF Admit, Enter, Step
  <2>2. locked' \in SUBSET (0 .. (Locks - 1))
    BY <1>3, <2>1, LockType DEF Admit, Enter, TypeOK, UpdatesTypeOK
  <2>3. [Entry(From[update[w]]) EXCEPT !.count = @ + 1]
          \in [age : 0 .. Period, count : 0 .. Limit]
    BY <1>3, <2>1, EntryType DEF Admit
  <2>4. window' \in [Sender -> [age : 0 .. Period, count : 0 .. Limit]]
    BY <1>3, <2>1, <2>3 DEF Admit, TypeOK, UpdatesTypeOK
  <2>5. ages' \in [Sender -> [1 .. Depth -> 0 .. Period]]
    <3> DEFINE s == From[update[w]]
    <3>1. ages[s] \in [1 .. Depth -> 0 .. Period] /\ Depth \in Nat
      BY <2>1, UpdatesAssumption DEF Depth, TypeOK, UpdatesTypeOK
    <3>2. Later(ages[s]) \in [1 .. Depth -> 0 .. Period]
      BY <3>1, LaterType
    <3>3. ages' = [ages EXCEPT ![s] = Later(ages[s])]
      BY <1>3 DEF Admit
    <3> QED BY <3>2, <3>3 DEF TypeOK, UpdatesTypeOK
  <2>6. /\ stage' \in [Worker -> Stage]
        /\ \A v \in Worker : update'[v] # 0 <=> stage'[v] \notin {"free", "gone"}
    BY <1>3 DEF Admit, Enter, Step, TypeOK, UpdatesTypeOK, Stage
  <2> QED BY <1>1, <1>3, <2>2, <2>4, <2>5, <2>6 DEF Admit, TypeOK, UpdatesTypeOK
<1>4. CASE TurnAway(w) \/ Press(w)
  <2>1. update[w] \in Update
    BY <1>4, BusyType DEF TurnAway, Press, Enter, Step
  <2>2. locked' \in SUBSET (0 .. (Locks - 1))
    <3>1. Lock(update[w]) \in 0 .. (Locks - 1)
      BY <2>1, LockType
    <3>2. locked' = locked \cup {Lock(update[w])}
      BY <1>4 DEF TurnAway, Press, Enter
    <3> QED BY <3>1, <3>2 DEF TypeOK, UpdatesTypeOK
  <2>3. /\ stage' \in [Worker -> Stage]
        /\ \A v \in Worker : update'[v] # 0 <=> stage'[v] \notin {"free", "gone"}
    <3>1. \/ stage' = [stage EXCEPT ![w] = "act"]
          \/ stage' = [stage EXCEPT ![w] = "refuse"]
      BY <1>4 DEF TurnAway, Press, Enter, Step
    <3>2. update' = update
      BY <1>4 DEF TurnAway, Press
    <3>3. stage[w] \notin {"free", "gone"}
      BY <1>4 DEF TurnAway, Press, Enter, Step
    <3> QED BY <3>1, <3>2, <3>3 DEF TypeOK, UpdatesTypeOK, Stage
  <2> QED BY <1>1, <1>4, <2>2, <2>3 DEF TurnAway, Press, TypeOK, UpdatesTypeOK
<1>5. CASE Ignore(w) \/ Act(w) \/ Refuse(w) \/ Abandon(w)
  <2>1. update[w] \in Update
    BY <1>5, BusyType DEF Ignore, Act, Refuse, Abandon, Step
  <2>2. handled' \in SUBSET Update /\ dropped' \in SUBSET Update
        /\ locked' \in SUBSET (0 .. (Locks - 1))
    BY <1>5, <2>1 DEF Ignore, Act, Refuse, Abandon, Handled, TypeOK, UpdatesTypeOK
  <2>3. /\ stage' \in [Worker -> Stage]
        /\ update' = update
        /\ \A v \in Worker : update'[v] # 0 <=> stage'[v] \notin {"free", "gone"}
    BY <1>5 DEF Ignore, Act, Refuse, Abandon, Handled, Step, TypeOK, UpdatesTypeOK, Stage
  <2> QED BY <1>1, <1>5, <2>2, <2>3
          DEF Ignore, Act, Refuse, Abandon, Handled, TypeOK, UpdatesTypeOK
<1>6. CASE Record(w) \/ RecordFails(w)
  <2>1. update[w] \in Update
    BY <1>6, BusyType DEF Record, RecordFails, Finish, Step
  <2>2. stored' \in 0 .. (MaxUpdate + 1)
    <3>1. CASE Record(w)
      BY <2>1, <3>1, UpdatesAssumption
         DEF Record, StoreOffset, Larger, Update, TypeOK, UpdatesTypeOK
    <3> QED BY <1>6, <3>1 DEF RecordFails, TypeOK, UpdatesTypeOK
  <2>4. recorded' \in SUBSET Update
    BY <1>6, <2>1 DEF Record, RecordFails, TypeOK, UpdatesTypeOK
  <2>3. /\ stage' \in [Worker -> Stage]
        /\ update' \in [Worker -> Update \cup {0}]
        /\ \A v \in Worker : update'[v] # 0 <=> stage'[v] \notin {"free", "gone"}
    BY <1>6 DEF Record, RecordFails, Finish, Step, TypeOK, UpdatesTypeOK, Stage
  <2> QED BY <1>1, <1>6, <2>2, <2>3, <2>4 DEF Record, RecordFails, TypeOK, UpdatesTypeOK
<1>7. CASE WorkerReturns(w)
  <2>1. /\ stage' \in [Worker -> Stage]
        /\ \A v \in Worker : update'[v] # 0 <=> stage'[v] \notin {"free", "gone"}
    BY <1>7 DEF WorkerReturns, Step, TypeOK, UpdatesTypeOK, Stage
  <2> QED BY <1>1, <1>7, <2>1 DEF WorkerReturns, TypeOK, UpdatesTypeOK
<1> QED BY <1>2, <1>3, <1>4, <1>5, <1>6, <1>7 DEF UpdateStep

\* The steps of run itself, as far as the updates are concerned.
LEMMA RunStep ==
  PollEnds \/ ProbeEnds \/ Signal \/ Drained \/ Close \/ TimeOut => UNCHANGED updates
BY DEF PollEnds, ProbeEnds, Signal, Drained, Close, TimeOut

LEMMA AsleepStep == Typed /\ [Next]_vars => Asleep'
<1> SUFFICES ASSUME Typed, [Next]_vars, phase' = "down"
             PROVE  queue' = <<>> /\ \A w \in Worker : stage'[w] = "gone"
  BY DEF Asleep
<1>1. CASE phase = "down"
  <2>1. UNCHANGED <<queue, stage>>
    <3>1. CASE \E w \in Worker : UpdateStep(w)
      <4>1. PICK w \in Worker : UpdateStep(w)
        BY <3>1
      <4>2. stage[w] = "gone"
        BY <1>1 DEF Typed, Asleep
      <4> QED BY <1>1, <4>1, <4>2
              DEF UpdateStep, Running, Abandon, WorkerReturns, Step
    <3>2. CASE PollEnds \/ ProbeEnds \/ Signal \/ Drained \/ Close \/ TimeOut
      BY <3>2, RunStep DEF updates, api, workers
    <3> QED BY <1>1, <3>1, <3>2
            DEF Next, Start, Goto, ReceiveStep, RateTick, Exit, Crash, Running, vars,
                updates, api, workers
  <2> QED BY <1>1, <2>1 DEF Typed, Asleep
<1>2. CASE Exit \/ Crash
  BY <1>2 DEF Exit, Crash, End, EndUpdates
<1> QED BY <1>1, <1>2
        DEF Next, Start, ReceiveStep, UpdateStep, PollEnds, ProbeEnds, Signal, Drained,
            Close, TimeOut, Goto, run, vars

LEMMA NextType == Typed /\ [Next]_vars => Typed'
<1> SUFFICES ASSUME Typed, [Next]_vars PROVE TypeOK'
  BY AsleepStep DEF Typed
<1> USE DEF Typed
<1> USE DEF updates, api, workers, rate, fate, run
<1>1. CASE Start
  <2>1. InitialOffset \in 0 .. MaxUpdate
    BY UpdatesAssumption DEF InitialOffset, TypeOK, UpdatesTypeOK
  <2>2. stage' \in [Worker -> Stage]
    BY <1>1 DEF Start, StartUpdates, Stage
  <2>3. \A w \in Worker : update'[w] # 0 <=> stage'[w] \notin {"free", "gone"}
    BY <1>1 DEF Start, StartUpdates, Asleep, TypeOK, UpdatesTypeOK
  <2> QED BY <1>1, <2>1, <2>2, <2>3
          DEF Start, StartUpdates, Goto, Phase, TypeOK, UpdatesTypeOK
<1>2. CASE ReceiveStep
  BY <1>2, ReceiveType DEF ReceiveStep, TypeOK
<1>3. CASE \E w \in Worker : UpdateStep(w)
  BY <1>3, UpdateStepType
<1>4. CASE RateTick /\ UNCHANGED run
  <2>1. window' \in [Sender -> [age : 0 .. Period, count : 0 .. Limit]]
    BY <1>4, OlderType DEF RateTick, TypeOK, UpdatesTypeOK
  <2>2. /\ ages' \in [Sender -> [1 .. Depth -> 0 .. Period]]
        /\ ends' \in [1 .. MaxStops + 1 -> 0 .. Period]
    BY <1>4, OlderType DEF RateTick, TypeOK, UpdatesTypeOK
  <2> QED BY <1>4, <2>1, <2>2 DEF RateTick, TypeOK, UpdatesTypeOK
<1>5. CASE PollEnds \/ ProbeEnds \/ Signal \/ Drained \/ Close \/ TimeOut
  <2>1. UpdatesTypeOK'
    BY <1>5, RunStep DEF TypeOK, UpdatesTypeOK
  <2>2. /\ polling' \in BOOLEAN /\ probing' \in BOOLEAN /\ late' \in BOOLEAN
        /\ phase' \in Phase
    BY <1>5 DEF PollEnds, ProbeEnds, Signal, Drained, Close, TimeOut, Goto, Phase, TypeOK
  <2>3. stops' \in 0 .. MaxStops
    BY <1>5, UpdatesAssumption
       DEF PollEnds, ProbeEnds, Signal, Drained, Close, TimeOut, TypeOK
  <2> QED BY <2>1, <2>2, <2>3 DEF TypeOK
<1>6. CASE Exit \/ Crash
  <2>1. UpdatesTypeOK'
    BY <1>6, EndType DEF Exit, Crash, End
  <2>2. stops' \in 0 .. MaxStops
    BY <1>6, UpdatesAssumption DEF Exit, Crash, TypeOK
  <2>3. polling' \in BOOLEAN /\ probing' \in BOOLEAN /\ late' \in BOOLEAN
    BY <1>6 DEF Exit, Crash, End
  <2>4. phase' \in Phase
    BY <1>6 DEF Exit, Crash, End, Goto, Phase
  <2> QED BY <2>1, <2>2, <2>3, <2>4 DEF TypeOK
<1>7. CASE UNCHANGED vars
  BY <1>7 DEF vars, TypeOK, UpdatesTypeOK
<1> QED BY <1>1, <1>2, <1>3, <1>4, <1>5, <1>6, <1>7 DEF Next

LEMMA AlwaysTyped == Spec => []Typed
BY InitType, NextType, PTL DEF Spec

\* Every variable keeps its type.
THEOREM TypeCorrect == Spec => []TypeOK
<1>1. Typed => TypeOK
  BY DEF Typed
<1> QED BY <1>1, AlwaysTyped, PTL

-----------------------------------------------------------------------------
(* The rate limit.  The latest commands are older the further back they    *)
(* are, and an open window is as old as the first command it counts.  A    *)
(* whole limit of commands before that one, nothing is younger than the    *)
(* end of the process before this one or than a window; a limit further    *)
(* back, nothing is younger than the end before that, and so on.           *)

Rank == 1 .. Depth

\* How many commands the window of a user counts that is still open.
Counted(s) == IF window[s].age < Period THEN window[s].count ELSE 0

RateOf(s) ==
  /\ \A j, k \in Rank : j <= k => ages[s][j] <= ages[s][k]
  /\ window[s].age < Period => window[s].count > 0 /\ ages[s][window[s].count] = window[s].age
  /\ \A q \in 0 .. MaxStops : ends[q + 1] <= ages[s][Counted(s) + (1 + q) * Limit]

RateInvariant == \A s \in Sender : RateOf(s)

\* Looking back over the window and some ends of the process stays within ages.
LEMMA RankOf ==
  ASSUME NEW q \in 0 .. MaxStops, NEW n \in 0 .. Limit
  PROVE  /\ Limit \in Nat \ {0} /\ Depth \in Nat /\ Limit <= Depth
         /\ n + (1 + q) * Limit \in Rank
         /\ (1 + q) * Limit \in Nat /\ (1 + q) * Limit >= Limit
         /\ (2 + q) * Limit = Limit + (1 + q) * Limit
         /\ q > 0 => (1 + q) * Limit = Limit + (1 + (q - 1)) * Limit
<1>1. Limit \in Nat \ {0} /\ MaxStops \in Nat
  BY UpdatesAssumption
<1> DEFINE rest == (MaxStops - q) * Limit
           more == q * Limit
<1>2. rest \in Nat /\ more \in Nat
  <2>1. MaxStops - q \in Nat /\ q \in Nat
    BY <1>1
  <2> QED BY <1>1, <2>1
<1>3. (1 + q) * Limit = Limit + more /\ (2 + q) * Limit = 2 * Limit + more
  BY <1>1
<1>4. Depth = 2 * Limit + more + rest
  BY <1>1 DEF Depth
<1>5. q > 0 => (1 + (q - 1)) * Limit = more
  BY <1>1
<1> HIDE DEF rest, more
<1> QED BY <1>1, <1>2, <1>3, <1>4, <1>5 DEF Rank

LEMMA RateInit == Init => RateInvariant
<1> SUFFICES ASSUME Init, NEW s \in Sender PROVE RateOf(s)
  BY DEF RateInvariant
<1>1. /\ ages[s] = [k \in Rank |-> Period] /\ window[s].age = Period
      /\ ends = [q \in 1 .. MaxStops + 1 |-> Period] /\ Period \in Nat
  BY UpdatesAssumption DEF Init, UpdatesInit, NoWindow, Rank
<1>2. Counted(s) = 0
  BY <1>1 DEF Counted
<1>3. ASSUME NEW q \in 0 .. MaxStops PROVE ends[q + 1] <= ages[s][0 + (1 + q) * Limit]
  <2>1. 0 + (1 + q) * Limit \in Rank /\ q + 1 \in 1 .. MaxStops + 1
    <3>1. 0 \in 0 .. Limit /\ MaxStops \in Nat
      BY UpdatesAssumption
    <3>2. 0 + (1 + q) * Limit \in Rank
      BY <3>1, RankOf
    <3> QED BY <3>1, <3>2
  <2>2. ends[q + 1] = Period /\ ages[s][0 + (1 + q) * Limit] = Period
    BY <1>1, <2>1
  <2> QED BY <1>1, <2>2
<1>4. \A j, k \in Rank : j <= k => ages[s][j] <= ages[s][k]
  BY <1>1
<1>5. ~ window[s].age < Period
  BY <1>1
<1> QED BY <1>2, <1>3, <1>4, <1>5 DEF RateOf

\* What the invariant says of one user, with the types of the parts.
LEMMA RateFacts ==
  ASSUME Typed, RateInvariant, NEW s \in Sender
  PROVE  /\ Limit \in Nat \ {0} /\ Period \in Nat \ {0} /\ MaxStops \in Nat
         /\ window[s] \in [age : 0 .. Period, count : 0 .. Limit]
         /\ ages[s] \in [Rank -> 0 .. Period]
         /\ ends \in [1 .. MaxStops + 1 -> 0 .. Period]
         /\ Counted(s) \in 0 .. Limit
         /\ RateOf(s)
BY UpdatesAssumption
   DEF Typed, TypeOK, UpdatesTypeOK, Rank, RateInvariant, Counted

\* A command is admitted to the window of its sender or opens a new one.
LEMMA RateAdmit ==
  ASSUME Typed, RateInvariant, NEW w \in Worker, Admit(w)
  PROVE  RateInvariant'
<1>1. PICK s \in Sender : s = From[update[w]]
  BY BusyType DEF Typed, Admit, Enter, Step
<1> DEFINE later == Later(ages[s])
<1>2. /\ window \in [Sender -> [age : 0 .. Period, count : 0 .. Limit]]
      /\ ages \in [Sender -> [Rank -> 0 .. Period]]
  BY DEF Typed, TypeOK, UpdatesTypeOK, Rank
<1>3. /\ window' = [window EXCEPT ![s] = [Entry(s) EXCEPT !.count = @ + 1]]
      /\ ages' = [ages EXCEPT ![s] = later]
      /\ Entry(s).count < Limit
      /\ ends' = ends
  BY <1>1 DEF Admit, Allowed
<1>4. ASSUME NEW r \in Sender, r # s PROVE RateOf(r)'
  <2>1. ages'[r] = ages[r] /\ window'[r] = window[r]
    BY <1>2, <1>3, <1>4
  <2> QED BY <1>3, <2>1 DEF RateInvariant, RateOf, Counted
<1>5. RateOf(s)'
  <2> DEFINE g == ages[s]
             m == Counted(s)
  <2>1. /\ Limit \in Nat \ {0} /\ Period \in Nat \ {0} /\ MaxStops \in Nat
        /\ window[s] \in [age : 0 .. Period, count : 0 .. Limit]
        /\ g \in [Rank -> 0 .. Period] /\ ends \in [1 .. MaxStops + 1 -> 0 .. Period]
        /\ m \in 0 .. Limit
        /\ RateOf(s)
    BY RateFacts
  <2>2. /\ \A j, k \in Rank : j <= k => g[j] <= g[k]
        /\ \A q \in 0 .. MaxStops : ends[q + 1] <= g[m + (1 + q) * Limit]
    BY <2>1 DEF RateOf
  <2>3. /\ m = Entry(s).count
        /\ Entry(s).age = IF m = 0 THEN 0 ELSE g[m]
        /\ Entry(s).age < Period
    BY <2>1 DEF Entry, Counted, RateOf
  <2>4. m < Limit
    BY <1>3, <2>3
  <2>5. /\ ages'[s] = later
        /\ window'[s].count = m + 1
        /\ window'[s].age = Entry(s).age
    BY <1>1, <1>2, <1>3, <2>1, <2>3 DEF Entry
  <2>6. /\ 1 \in Rank /\ later[1] = 0
        /\ \A k \in Rank : k # 1 => k - 1 \in Rank /\ later[k] = g[k - 1]
    <3>1. DOMAIN g = Rank
      BY <2>1
    <3>2. Depth \in Nat /\ Limit <= Depth
      BY <2>1, RankOf
    <3> QED BY <2>1, <3>1, <3>2 DEF Later, Rank
  <2>7. \A j, k \in Rank : j <= k => later[j] <= later[k]
    <3> SUFFICES ASSUME NEW j \in Rank, NEW k \in Rank, j <= k
                 PROVE  later[j] <= later[k]
      OBVIOUS
    <3> HIDE DEF later, g
    <3>1. k # 1 => k - 1 \in Rank /\ later[k] = g[k - 1]
      BY <2>6
    <3>2. j # 1 => j - 1 \in Rank /\ later[j] = g[j - 1] /\ k # 1 /\ j - 1 <= k - 1
      BY <2>6 DEF Rank
    <3>3. CASE j = 1
      <4>1. later[j] = 0
        BY <2>6, <3>3
      <4>2. CASE k = 1
        BY <3>3, <4>1, <4>2
      <4>3. CASE k # 1
        <5>1. g[k - 1] \in 0 .. Period
          BY <2>1, <3>1, <4>3
        <5> QED BY <2>1, <3>1, <4>1, <4>3, <5>1
      <4> QED BY <4>2, <4>3
    <3>4. CASE j # 1
      BY <2>2, <3>1, <3>2, <3>4
    <3> QED BY <3>3, <3>4
  <2>8. m + 1 \in Rank /\ later[m + 1] = Entry(s).age
    <3>1. Depth \in Nat /\ Limit <= Depth
      BY <2>1, RankOf
    <3>2. m + 1 \in Rank
      BY <2>1, <2>4, <3>1 DEF Rank
    <3> HIDE DEF later, m, g
    <3>3. CASE m = 0
      BY <2>3, <2>6, <3>3, <3>2
    <3>4. CASE m # 0
      <4>1. m + 1 # 1 /\ (m + 1) - 1 = m
        BY <2>1, <3>4
      <4>2. later[m + 1] = g[(m + 1) - 1]
        BY <2>6, <3>2, <4>1
      <4> QED BY <2>3, <3>2, <3>4, <4>1, <4>2
    <3> QED BY <3>3, <3>4
  <2>9. ASSUME NEW q \in 0 .. MaxStops
        PROVE  ends[q + 1] <= later[m + 1 + (1 + q) * Limit]
    <3> HIDE DEF later, m, g
    <3> DEFINE k == m + (1 + q) * Limit
    <3>1. k \in Rank /\ (m + 1) + (1 + q) * Limit \in Rank
      <4>1. m + 1 \in 0 .. Limit
        BY <2>1, <2>4
      <4> QED BY <2>1, <4>1, RankOf
    <3>2. (1 + q) * Limit \in Nat
      BY <2>1, RankOf
    <3>3. m + 1 + (1 + q) * Limit = k + 1
      BY <2>1, <3>2
    <3>4. PICK i \in Rank : i = k + 1
      BY <3>1, <3>3
    <3>5. i # 1 /\ i - 1 = k
      <4>1. k \in Nat /\ k >= 1
        <5> HIDE DEF k
        <5> QED BY <3>1 DEF Rank
      <4> HIDE DEF k
      <4> QED BY <3>4, <4>1
    <3>6. later[i] = g[i - 1]
      BY <2>6, <3>5
    <3>7. ends[q + 1] <= g[k]
      BY <2>2
    <3> HIDE DEF k
    <3>8. ends[q + 1] <= later[i]
      BY <3>5, <3>6, <3>7
    <3> QED BY <3>3, <3>4, <3>8
  <2>10. Counted(s)' = m + 1
    BY <2>3, <2>5 DEF Counted
  <2>11. m + 1 > 0
    BY <2>1
  <2> HIDE DEF later, m
  <2> QED BY <1>3, <2>5, <2>7, <2>8, <2>9, <2>10, <2>11 DEF RateOf
<1> QED BY <1>4, <1>5 DEF RateInvariant

\* Everything grows older together; the window that closes was as old as the first
\* command it counted, and what is older than that was a window ago.
LEMMA RateClock == Typed /\ RateInvariant /\ RateTick => RateInvariant'
<1> SUFFICES ASSUME Typed, RateInvariant, RateTick, NEW s \in Sender PROVE RateOf(s)'
  BY DEF RateInvariant
<1>1. /\ Limit \in Nat \ {0} /\ Period \in Nat \ {0} /\ MaxStops \in Nat
      /\ window[s] \in [age : 0 .. Period, count : 0 .. Limit]
      /\ ages[s] \in [Rank -> 0 .. Period] /\ ends \in [1 .. MaxStops + 1 -> 0 .. Period]
      /\ Counted(s) \in 0 .. Limit
      /\ RateOf(s)
  BY RateFacts
<1>2. /\ window'[s].count = window[s].count
      /\ window'[s].age = Older(window[s].age)
      /\ \A k \in Rank : ages'[s][k] = Older(ages[s][k])
      /\ \A q \in 0 .. MaxStops : ends'[q + 1] = Older(ends[q + 1])
  <2>1. window'[s] = [window[s] EXCEPT !.age = Older(@)]
    BY DEF RateTick
  <2>2. ages'[s] = [k \in Rank |-> Older(ages[s][k])]
    BY DEF RateTick, Rank
  <2>3. ends' = [q \in 1 .. MaxStops + 1 |-> Older(ends[q])]
    BY DEF RateTick
  <2>4. window'[s].count = window[s].count /\ window'[s].age = Older(window[s].age)
    BY <1>1, <2>1
  <2>5. ASSUME NEW q \in 0 .. MaxStops PROVE ends'[q + 1] = Older(ends[q + 1])
    <3>1. q + 1 \in 1 .. MaxStops + 1
      BY <1>1
    <3> QED BY <2>3, <3>1
  <2> QED BY <2>2, <2>4, <2>5
<1>3. window[s].count > 0 => window[s].count \in Rank
  <2>1. Depth \in Nat /\ Limit <= Depth
    <3>1. 0 \in 0 .. Limit /\ 0 \in 0 .. MaxStops
      BY <1>1
    <3> QED BY <3>1, RankOf
  <2>2. window[s].count \in 0 .. Limit
    BY <1>1
  <2> QED BY <1>1, <2>1, <2>2 DEF Rank
<1>4. ASSUME NEW j \in Rank, NEW k \in Rank, j <= k PROVE ages'[s][j] <= ages'[s][k]
  <2>1. /\ ages[s][j] <= ages[s][k] /\ ages[s][j] \in 0 .. Period /\ ages[s][k] \in 0 .. Period
    BY <1>1, <1>4 DEF RateOf
  <2>2. ages'[s][j] = Older(ages[s][j]) /\ ages'[s][k] = Older(ages[s][k])
    BY <1>2
  <2> QED BY <1>1, <2>1, <2>2 DEF Older
<1>5. window'[s].age < Period
        => /\ window'[s].count > 0 /\ ages'[s][window'[s].count] = window'[s].age
           /\ window[s].age < Period
  BY <1>1, <1>2, <1>3 DEF RateOf, Older
<1>6. ASSUME NEW q \in 0 .. MaxStops
      PROVE  ends'[q + 1] <= ages'[s][Counted(s)' + (1 + q) * Limit]
  <2> DEFINE k == Counted(s) + (1 + q) * Limit
             j == (1 + q) * Limit
  <2>1. k \in Rank /\ 0 + j \in Rank /\ j \in Nat /\ j >= Limit
    <3>1. 0 \in 0 .. Limit
      BY <1>1
    <3> QED BY <1>1, <3>1, RankOf
  <2>2. j \in Rank
    BY <2>1
  <2>3. ends'[q + 1] <= ages'[s][k]
    <3>1. ends[q + 1] <= ages[s][k]
      BY <1>1 DEF RateOf
    <3> HIDE DEF k
    <3>2. ends[q + 1] \in 0 .. Period /\ ages[s][k] \in 0 .. Period
      <4>1. q + 1 \in 1 .. MaxStops + 1
        BY <1>1
      <4>2. ends[q + 1] \in 0 .. Period
        BY <1>1, <4>1
      <4>3. ages[s][k] \in 0 .. Period
        BY <1>1, <2>1
      <4> QED BY <4>2, <4>3
    <3>3. ends'[q + 1] = Older(ends[q + 1]) /\ ages'[s][k] = Older(ages[s][k])
      BY <1>2, <2>1
    <3>4. ASSUME NEW a \in 0 .. Period, NEW b \in 0 .. Period, a <= b
          PROVE  Older(a) <= Older(b)
      BY <1>1, <3>4 DEF Older
    <3>5. Older(ends[q + 1]) <= Older(ages[s][k])
      BY <3>1, <3>2, <3>4
    <3> QED BY <3>3, <3>5
  <2>4. CASE window'[s].age < Period
    <3>1. Counted(s)' = Counted(s)
      BY <1>2, <1>5, <2>4 DEF Counted
    <3> QED BY <2>3, <3>1
  <2>5. CASE ~ window'[s].age < Period
    <3>1. Counted(s)' = 0
      BY <2>5 DEF Counted
    <3>2. CASE window[s].age < Period
      <4>1. /\ window[s].count \in Rank /\ ages'[s][window[s].count] >= Period
            /\ window[s].count <= j
        <5>1. window[s].count > 0 /\ ages[s][window[s].count] = window[s].age
          BY <1>1, <3>2 DEF RateOf
        <5>2. window[s].count \in Rank
          BY <1>3, <5>1
        <5>3. ages'[s][window[s].count] = window'[s].age
          BY <1>2, <5>1, <5>2
        <5>4. window'[s].age \in Int /\ window[s].count \in 0 .. Limit
          BY <1>1, <1>2 DEF Older
        <5>5. window'[s].age >= Period /\ window[s].count <= Limit
          BY <1>1, <2>5, <5>4
        <5>6. window[s].count <= j
          <6> HIDE DEF j
          <6> QED BY <1>1, <2>1, <5>4
        <5> QED BY <5>2, <5>3, <5>5, <5>6
      <4>2. ages'[s][window[s].count] <= ages'[s][j]
        BY <1>4, <2>2, <4>1
      <4>3. PICK n \in Rank : n = window[s].count
        BY <4>1
      <4>4. /\ ages[s][j] \in 0 .. Period /\ ages[s][n] \in 0 .. Period
            /\ ends[q + 1] \in 0 .. Period
        <5>1. q + 1 \in 1 .. MaxStops + 1
          BY <1>1
        <5> QED BY <1>1, <2>2, <5>1
      <4>5. /\ ages'[s][j] \in 0 .. Period /\ ages'[s][n] \in 0 .. Period
            /\ ends'[q + 1] \in 0 .. Period
        BY <1>2, <2>2, <4>4, OlderType
      <4>6. ends'[q + 1] <= ages'[s][j]
        <5>1. Period <= ages'[s][n] /\ ages'[s][n] <= ages'[s][j]
          BY <4>1, <4>2, <4>3
        <5>2. ends'[q + 1] <= Period
          BY <1>1, <4>5
        <5>3. ASSUME NEW a \in Int, NEW b \in Int, NEW c \in Int, NEW d \in Int,
                     a <= b, b <= c, c <= d
              PROVE  a <= d
          BY <5>3
        <5> HIDE DEF j
        <5>4. ends'[q + 1] \in Int /\ ages'[s][n] \in Int /\ ages'[s][j] \in Int
          BY <4>5
        <5>5. Period \in Int
          BY <1>1
        <5> QED BY <5>1, <5>2, <5>3, <5>4, <5>5
      <4>7. Counted(s)' + (1 + q) * Limit = j
        BY <2>1, <3>1
      <4> QED BY <4>6, <4>7
    <3>3. CASE ~ window[s].age < Period
      <4>1. Counted(s) = 0
        BY <3>3 DEF Counted
      <4> QED BY <2>3, <3>1, <4>1
    <3> QED BY <3>2, <3>3
  <2> QED BY <2>4, <2>5
<1> QED BY <1>4, <1>5, <1>6 DEF RateOf

\* The window is forgotten, and every earlier end is one end further back.
LEMMA RateEnd == Typed /\ RateInvariant /\ EndUpdates => RateInvariant'
<1> SUFFICES ASSUME Typed, RateInvariant, EndUpdates, NEW s \in Sender PROVE RateOf(s)'
  BY DEF RateInvariant
<1>1. /\ Limit \in Nat \ {0} /\ Period \in Nat \ {0} /\ MaxStops \in Nat
      /\ ages[s] \in [Rank -> 0 .. Period] /\ ends \in [1 .. MaxStops + 1 -> 0 .. Period]
      /\ Counted(s) \in 0 .. Limit
      /\ RateOf(s)
  BY RateFacts
<1>2. /\ ages' = ages /\ window'[s].age = Period /\ ends' = Later(ends)
  BY DEF EndUpdates, NoWindow
<1>3. Counted(s)' = 0
  BY <1>1, <1>2 DEF Counted
<1>4. ASSUME NEW q \in 0 .. MaxStops PROVE ends'[q + 1] <= ages[s][0 + (1 + q) * Limit]
  <2> DEFINE j == 0 + (1 + q) * Limit
  <2>1. j \in Rank
    <3>1. 0 \in 0 .. Limit
      BY <1>1
    <3> QED BY <3>1, RankOf
  <2>2. ends'[q + 1] = IF q + 1 = 1 THEN 0 ELSE ends[q + 1 - 1]
    BY <1>1, <1>2 DEF Later
  <2>3. CASE q = 0
    <3>1. ages[s][j] \in 0 .. Period
      BY <1>1, <2>1
    <3> QED BY <2>2, <2>3, <3>1
  <2>4. CASE q > 0
    <3> DEFINE i == Counted(s) + (1 + (q - 1)) * Limit
    <3>1. q - 1 \in 0 .. MaxStops /\ (q - 1) + 1 = q /\ q + 1 - 1 = q
      BY <1>1, <2>4
    <3>2. ends[q] <= ages[s][i]
      BY <1>1, <3>1 DEF RateOf
    <3>3. i \in Rank /\ (1 + (q - 1)) * Limit \in Nat
      BY <1>1, <3>1, RankOf
    <3>4. i <= j
      <4>1. (1 + q) * Limit = Limit + (1 + (q - 1)) * Limit
        BY <1>1, <2>4, RankOf
      <4> QED BY <1>1, <3>3, <4>1
    <3> HIDE DEF i, j
    <3>5. ages[s][i] <= ages[s][j]
      BY <1>1, <2>1, <3>3, <3>4 DEF RateOf
    <3>6. ends'[q + 1] = ends[q] /\ ends[q] \in 0 .. Period
      <4>1. q + 1 # 1 /\ q \in 1 .. MaxStops + 1
        BY <1>1, <2>4
      <4> QED BY <1>1, <2>2, <3>1, <4>1
    <3>7. ages[s][i] \in 0 .. Period /\ ages[s][j] \in 0 .. Period
      BY <1>1, <2>1, <3>3
    <3>8. ends'[q + 1] <= ages[s][j]
      BY <1>1, <3>2, <3>5, <3>6, <3>7
    <3> QED BY <3>8 DEF j
  <2> QED BY <1>1, <2>3, <2>4
<1>5. \A j, k \in Rank : j <= k => ages'[s][j] <= ages'[s][k]
  BY <1>1, <1>2 DEF RateOf
<1>6. ~ window'[s].age < Period
  BY <1>1, <1>2
<1> QED BY <1>2, <1>3, <1>4, <1>5, <1>6 DEF RateOf

LEMMA RateStep == Typed /\ RateInvariant /\ [Next]_vars => RateInvariant'
<1> SUFFICES ASSUME Typed, RateInvariant, [Next]_vars PROVE RateInvariant'
  OBVIOUS
<1>1. CASE \E w \in Worker : Admit(w)
  BY <1>1, RateAdmit
<1>2. CASE RateTick
  BY <1>2, RateClock
<1>3. CASE EndUpdates
  BY <1>3, RateEnd
<1>4. CASE UNCHANGED rate
  BY <1>4 DEF rate, RateInvariant, RateOf, Counted
<1>5. (\E w \in Worker : UpdateStep(w)) => UNCHANGED rate \/ \E w \in Worker : Admit(w)
  BY DEF UpdateStep, rate, Take, TurnAway, Press, Ignore, Act, Refuse, Handled,
         RecordFails, Record, Abandon, WorkerReturns
<1> QED BY <1>1, <1>2, <1>3, <1>4, <1>5, RunStep
        DEF Next, Start, StartUpdates, ReceiveStep, Receive, Exit, Crash, End,
            vars, updates, rate

\* controller.go:55: whatever the limit, the window and the number of restarts, a user
\* never gets twice the limit through in any time as long as a window, or one limit
\* more for each end of the process in that time.
THEOREM NeverOverTwice == Spec => []TwiceTheLimit
<1>1. Typed /\ RateInvariant => TwiceTheLimit
  <2> SUFFICES ASSUME Typed, RateInvariant, NEW s \in Sender, NEW q \in 0 .. MaxStops,
                      ends[q + 1] = Period
               PROVE  ages[s][(2 + q) * Limit] = Period
    BY DEF TwiceTheLimit
  <2> DEFINE i == Counted(s) + (1 + q) * Limit
             k == Limit + (1 + q) * Limit
  <2>1. /\ Limit \in Nat \ {0} /\ Period \in Nat
        /\ ages[s] \in [Rank -> 0 .. Period] /\ Counted(s) \in 0 .. Limit /\ RateOf(s)
    BY RateFacts
  <2>2. /\ i \in Rank /\ (1 + q) * Limit \in Nat /\ (2 + q) * Limit = k
    BY <2>1, RankOf
  <2>3. k \in Rank
    <3>1. Limit \in 0 .. Limit
      BY <2>1
    <3> QED BY <3>1, RankOf
  <2>4. i <= k
    BY <2>1, <2>2
  <2>5. Period <= ages[s][i]
    BY <2>1 DEF RateOf
  <2> HIDE DEF i, k
  <2>6. ages[s][i] <= ages[s][k] /\ ages[s][i] \in 0 .. Period /\ ages[s][k] \in 0 .. Period
    BY <2>1, <2>2, <2>3, <2>4 DEF RateOf
  <2> QED BY <2>1, <2>2, <2>5, <2>6
<1> QED BY <1>1, RateInit, RateStep, AlwaysTyped, PTL DEF Spec

-----------------------------------------------------------------------------
(* The locks of the users are those of the workers between Lock and Unlock.*)

LocksAreHeld ==
  /\ \A v, w \in Inside : Lock(update[v]) = Lock(update[w]) => v = w
  /\ \A w \in Inside : Lock(update[w]) \in locked
  /\ \A l \in locked : \E w \in Inside : Lock(update[w]) = l

LEMMA LocksInit == Init => LocksAreHeld
BY DEF Init, UpdatesInit, Inside, LocksAreHeld

LEMMA LocksEnter ==
  ASSUME Typed, LocksAreHeld, NEW w \in Worker, NEW k \in Kind,
         NEW to \in {"act", "refuse"}, Enter(w, k, to), UNCHANGED update
  PROVE  LocksAreHeld'
<1>1. Inside' = Inside \cup {w} /\ w \notin Inside
  BY DEF Enter, Step, Inside, Kind, Typed, TypeOK, UpdatesTypeOK
<1> QED BY <1>1 DEF Enter, LocksAreHeld, Lock

LEMMA LocksLeave ==
  ASSUME Typed, LocksAreHeld, NEW w \in Inside, stage' = [stage EXCEPT ![w] = "record"],
         locked' = locked \ {Lock(update[w])}, UNCHANGED update
  PROVE  LocksAreHeld'
<1>1. Inside' = Inside \ {w}
  BY DEF Inside, Typed, TypeOK, UpdatesTypeOK
<1> QED BY <1>1 DEF LocksAreHeld, Lock

\* A worker outside that stays outside.
LEMMA LocksOutside ==
  ASSUME Typed, LocksAreHeld, NEW w \in Worker \ Inside, UNCHANGED locked,
         NEW p \in Stage \ {"act", "refuse"}, stage' = [stage EXCEPT ![w] = p],
         NEW u, update' = [update EXCEPT ![w] = u]
  PROVE  LocksAreHeld'
<1>1. Inside' = Inside
  BY DEF Inside, Typed, TypeOK, UpdatesTypeOK
<1>2. \A v \in Inside : update'[v] = update[v]
  BY DEF Inside, Typed, TypeOK, UpdatesTypeOK
<1>3. \A v \in Inside : Lock(update[v])' = Lock(update[v])
  BY <1>2 DEF Lock
<1> QED BY <1>1, <1>3 DEF LocksAreHeld

LEMMA LocksStep == Typed /\ LocksAreHeld /\ [Next]_vars => LocksAreHeld'
<1> SUFFICES ASSUME Typed, LocksAreHeld, [Next]_vars PROVE LocksAreHeld'
  OBVIOUS
<1>1. CASE \E w \in Worker : UpdateStep(w)
  <2> PICK w \in Worker : UpdateStep(w)
    BY <1>1
  <2>1. CASE Admit(w) \/ TurnAway(w) \/ Press(w)
    <3>1. PICK k \in Kind, to \in {"act", "refuse"} : Enter(w, k, to)
      BY <2>1 DEF Admit, TurnAway, Press, Kind
    <3> QED BY <2>1, <3>1, LocksEnter DEF Admit, TurnAway, Press
  <2>2. CASE Act(w) \/ Refuse(w) \/ Abandon(w)
    <3>1. w \in Inside
      BY <2>2 DEF Act, Refuse, Abandon, Step, Inside
    <3> QED BY <2>2, <3>1, LocksLeave DEF Act, Refuse, Abandon, Handled, Step
  <2>3. CASE Take(w) \/ Ignore(w) \/ Record(w) \/ RecordFails(w) \/ WorkerReturns(w)
    <3>1. w \in Worker \ Inside /\ UNCHANGED locked
      BY <2>3 DEF Take, Ignore, Record, RecordFails, Finish, WorkerReturns, Step, Inside
    <3>2. CASE Take(w)
      <4>1. PICK k \in Kinds[Head(queue)] : Step(w, "free", k)
        BY <3>2 DEF Take
      <4>2. Head(queue) \in Update
        BY <3>2 DEF Take, Typed, TypeOK, UpdatesTypeOK
      <4>3. k \in Kind
        BY <4>1, <4>2, UpdatesAssumption
      <4>4. k \in Stage \ {"act", "refuse"}
        BY <4>3 DEF Stage, Kind
      <4> QED BY <3>1, <3>2, <4>1, <4>4, LocksOutside DEF Take, Step
    <3>3. CASE Record(w) \/ RecordFails(w)
      BY <3>1, <3>3, LocksOutside DEF Record, RecordFails, Finish, Step, Stage
    <3>4. CASE Ignore(w) \/ WorkerReturns(w)
      <4>1. update' = [update EXCEPT ![w] = update[w]]
        BY <3>4 DEF Ignore, WorkerReturns, Typed, TypeOK, UpdatesTypeOK
      <4> QED BY <3>1, <3>4, <4>1, LocksOutside DEF Ignore, WorkerReturns, Step, Stage
    <3> QED BY <2>3, <3>2, <3>3, <3>4
  <2> QED BY <2>1, <2>2, <2>3 DEF UpdateStep
<1>2. CASE Start
  BY <1>2 DEF Start, StartUpdates, Inside, LocksAreHeld, Typed, Asleep
<1>3. CASE EndUpdates
  BY <1>3 DEF EndUpdates, Inside, LocksAreHeld
<1>4. CASE UNCHANGED workers
  BY <1>4 DEF workers, Inside, LocksAreHeld, Lock
<1> QED BY <1>1, <1>2, <1>3, <1>4, RunStep
        DEF Next, ReceiveStep, Receive, RateTick, Exit, Crash, End, vars, updates

\* controller.go:76: two handlers of a user never overlap, and every lock is held by a
\* worker that is going to release it.
THEOREM NeverTwoHandlers == Spec => []OneHandlerPerUser
<1>1. LocksAreHeld => OneHandlerPerUser
  BY DEF LocksAreHeld, OneHandlerPerUser, Lock
<1> QED BY <1>1, LocksInit, LocksStep, AlwaysTyped, PTL DEF Spec

-----------------------------------------------------------------------------
(* The shutdown.                                                           *)

InOrder ==
  ~ late =>
    /\ phase \in {"waiting", "closed"} => ~ probing
    /\ phase = "closed" => ServicesDone

LEMMA InOrderStep == Typed /\ InOrder /\ [Next]_vars => InOrder'
<1> SUFFICES ASSUME Typed, InOrder, [Next]_vars PROVE InOrder'
  OBVIOUS
<1>1. CASE \E w \in Worker : UpdateStep(w)
  <2> PICK w \in Worker : UpdateStep(w)
    BY <1>1
  <2>1. stage[w] # "gone"
    BY DEF UpdateStep, Take, Admit, TurnAway, Press, Ignore, Act, Refuse, RecordFails,
           Record, Finish, Abandon, WorkerReturns, Enter, Step, Kind
  <2> QED BY <2>1 DEF UpdateStep, run, InOrder, ServicesDone
<1>2. CASE ReceiveStep \/ (RateTick /\ UNCHANGED run)
  BY <1>2 DEF ReceiveStep, Receive, RateTick, run, workers, InOrder, ServicesDone
<1>3. CASE PollEnds \/ ProbeEnds \/ Signal \/ Drained \/ Close \/ TimeOut
  BY <1>3 DEF PollEnds, ProbeEnds, Signal, Drained, Close, TimeOut, Goto, updates,
              workers, InOrder, ServicesDone
<1>4. CASE Start \/ Exit \/ Crash
  BY <1>4 DEF Start, Exit, Crash, End, Goto, InOrder
<1>5. CASE UNCHANGED vars
  BY <1>5 DEF vars, updates, workers, run, InOrder, ServicesDone
<1> QED BY <1>1, <1>2, <1>3, <1>4, <1>5 DEF Next

\* main.go:120: nothing uses the store any more when it is closed, unless the
\* shutdown took too long.
THEOREM ClosedLast == Spec => []CloseIsLast
<1>1. Init => InOrder
  BY DEF Init, InOrder
<1>2. InOrder => CloseIsLast
  BY DEF InOrder, CloseIsLast
<1> QED BY <1>1, <1>2, InOrderStep, AlwaysTyped, PTL DEF Spec

-----------------------------------------------------------------------------
(* The offset.  What waits in the queue is the end of what the process has *)
(* fetched; what the workers have, and what was stored, comes before it.   *)

Begun == fetched - Len(queue)

InSequence ==
  /\ Begun >= 0
  /\ queue # <<>> => confirmed <= fetched
  /\ \A i \in 1 .. Len(queue) : queue[i] = Begun + i
  /\ \A w \in Worker : update[w] <= Begun
  /\ phase # "down" => stored <= Begun + 1
  /\ \A u \in recorded : u < stored

\* A worker stores the offset of what was handled or given up.
StoredIsDone == \A w \in Worker : stage[w] = "record" => update[w] \in handled \cup dropped

OffsetInvariant == InSequence /\ StoredIsDone /\ NothingIsOverlooked

LEMMA OffsetInit == Init => OffsetInvariant
<1> SUFFICES ASSUME Init PROVE OffsetInvariant
  OBVIOUS
<1>1. InSequence
  BY DEF Init, UpdatesInit, InSequence, Begun
<1>2. StoredIsDone
  BY DEF Init, UpdatesInit, StoredIsDone
<1>3. NothingIsOverlooked
  BY DEF Init, UpdatesInit, NothingIsOverlooked, Ahead, Larger, InitialOffset, Update
<1> QED BY <1>1, <1>2, <1>3 DEF OffsetInvariant

LEMMA OffsetReceive == Typed /\ OffsetInvariant /\ ReceiveStep => OffsetInvariant'
<1> SUFFICES ASSUME Typed, OffsetInvariant, ReceiveStep PROVE OffsetInvariant'
  OBVIOUS
<1> DEFINE after == Larger(confirmed, fetched)
<1>1. PICK n \in after .. MaxUpdate : Receive!(n)
  BY DEF ReceiveStep, Receive
<1>2. /\ confirmed \in Nat /\ fetched \in Nat /\ queue \in Seq(Update)
      /\ after \in Nat /\ after >= fetched /\ after >= confirmed
      /\ queue # <<>> => after = fetched
  BY DEF Typed, TypeOK, UpdatesTypeOK, Larger, OffsetInvariant, InSequence
<1>3. n \in Nat /\ n >= after /\ n - after \in Nat /\ MaxUpdate \in Nat
  BY <1>1, <1>2, UpdatesAssumption
<1> DEFINE more == [i \in 1 .. (n - after) |-> after + i]
<1>4. /\ more \in Seq(Update) /\ Len(more) = n - after
      /\ \A i \in 1 .. (n - after) : more[i] = after + i
  <2>1. \A i \in 1 .. (n - after) : after + i \in Update
    BY <1>1, <1>2, <1>3 DEF Update
  <2> HIDE DEF after
  <2> QED BY <1>3, <2>1
<1>5. /\ queue' = queue \o more
      /\ fetched' = (IF n > after THEN n ELSE fetched)
      /\ confirmed' = after
      /\ UNCHANGED <<stored, stage, update, handled, recorded, dropped, phase>>
  BY <1>1 DEF ReceiveStep, workers, fate, run
<1> HIDE DEF more, after
<1>6. /\ Len(queue') = Len(queue) + (n - after)
      /\ \A i \in 1 .. Len(queue) : queue'[i] = queue[i]
      /\ \A i \in Len(queue) + 1 .. Len(queue') : queue'[i] = more[i - Len(queue)]
  <2>1. /\ Len(queue \o more) = Len(queue) + Len(more)
        /\ \A i \in 1 .. Len(queue) + Len(more) :
             (queue \o more)[i] = IF i <= Len(queue) THEN queue[i] ELSE more[i - Len(queue)]
    BY <1>2, <1>4, ConcatProperties
  <2>2. Len(queue) \in Nat
    BY <1>2
  <2> QED BY <1>3, <1>4, <1>5, <2>1, <2>2
<1>7. Len(queue) \in Nat /\ (queue = <<>> <=> Len(queue) = 0) /\ queue' # <<>> => n > after \/ queue # <<>>
  BY <1>2, <1>3, <1>5, <1>6
<1>8. /\ n > after => Begun' = (IF queue = <<>> THEN after ELSE Begun)
      /\ n = after => Begun' = Begun
      /\ Begun' >= Begun
  <2>1. Len(queue') \in Nat /\ Begun \in Int /\ fetched' \in Nat
    BY <1>2, <1>3, <1>5, <1>6, <1>7 DEF Begun
  <2>2. n > after => Begun' = after - Len(queue)
    BY <1>2, <1>3, <1>5, <1>6, <1>7 DEF Begun
  <2>3. n = after => Begun' = Begun
    BY <1>2, <1>3, <1>5, <1>6, <1>7 DEF Begun
  <2>4. queue = <<>> => Begun = fetched /\ after - Len(queue) = after
    BY <1>2, <1>7 DEF Begun
  <2>5. queue # <<>> => after - Len(queue) = Begun
    BY <1>2 DEF Begun
  <2> QED BY <1>2, <1>3, <2>1, <2>2, <2>3, <2>4, <2>5
<1>9. InSequence'
  <2>1. queue' # <<>> => confirmed' <= fetched'
    BY <1>2, <1>3, <1>5, <1>7
  <2>2. ASSUME NEW i \in 1 .. Len(queue') PROVE queue'[i] = Begun' + i
    <3>1. CASE i \in 1 .. Len(queue)
      BY <1>2, <1>3, <1>5, <1>6, <1>7, <1>8, <3>1 DEF OffsetInvariant, InSequence
    <3>2. CASE i \in Len(queue) + 1 .. Len(queue')
      BY <1>2, <1>3, <1>4, <1>5, <1>6, <1>7, <1>8, <3>2 DEF Begun
    <3> QED BY <1>6, <1>7, <3>1, <3>2
  <2>3. Begun \in Int /\ Begun' \in Int /\ stored \in Nat
        /\ \A w \in Worker : update[w] \in Nat
    BY <1>2, <1>3, <1>5, <1>6, <1>7
       DEF Begun, Typed, TypeOK, UpdatesTypeOK, Update
  <2>4. \A w \in Worker : update'[w] <= Begun'
    BY <1>5, <1>8, <2>3 DEF OffsetInvariant, InSequence
  <2>5. stored' <= Begun' + 1
    <3>1. stored <= Begun + 1 /\ stored' = stored
      BY <1>5 DEF ReceiveStep, OffsetInvariant, InSequence
    <3>2. Begun' >= Begun /\ Begun \in Int /\ Begun' \in Int /\ stored \in Nat
      BY <1>8, <2>3
    <3> QED BY <3>1, <3>2 DEF Begun
  <2>6. Begun' >= 0 /\ \A u \in recorded' : u < stored'
    BY <1>5, <1>8, <2>3 DEF OffsetInvariant, InSequence
  <2> QED BY <2>1, <2>2, <2>4, <2>5, <2>6 DEF InSequence
<1>10. StoredIsDone'
  BY <1>5 DEF OffsetInvariant, StoredIsDone
<1>11. NothingIsOverlooked'
  <2> SUFFICES ASSUME NEW u \in Update, u \notin handled, u \notin dropped
               PROVE  (u \in InHand \/ Ahead(u))'
    BY <1>5 DEF NothingIsOverlooked
  <2>1. phase # "down" /\ phase' # "down"
    BY <1>5 DEF ReceiveStep
  <2>2. CASE u \in InHand
    <3>1. CASE u \in Range(queue)
      <4>1. PICK i \in 1 .. Len(queue) : queue[i] = u
        BY <1>2, <3>1 DEF Range
      <4>2. i \in 1 .. Len(queue') /\ queue'[i] = u
        BY <1>3, <1>6, <1>7, <4>1
      <4>3. DOMAIN queue' = 1 .. Len(queue')
        BY <1>2, <1>4, <1>5 DEF Update
      <4> QED BY <4>2, <4>3 DEF InHand, Range
    <3> QED BY <1>5, <2>2, <3>1 DEF InHand
  <2>3. CASE u > after
    <3>1. CASE u <= n
      <4>1. /\ u - after \in 1 .. (n - after)
            /\ Len(queue) + (u - after) \in Len(queue) + 1 .. Len(queue')
        BY <1>2, <1>3, <1>6, <1>7, <2>3, <3>1 DEF Update
      <4>2. queue'[Len(queue) + (u - after)] = u
        <5>1. Len(queue) + (u - after) - Len(queue) = u - after /\ after + (u - after) = u
          BY <1>2, <1>7 DEF Update
        <5> QED BY <1>4, <1>6, <4>1, <5>1
      <4>3. DOMAIN queue' = 1 .. Len(queue')
        BY <1>2, <1>4, <1>5 DEF Update
      <4>4. Len(queue) + (u - after) \in 1 .. Len(queue')
        BY <1>7, <4>1
      <4> QED BY <4>2, <4>3, <4>4 DEF InHand, Range
    <3>2. CASE ~ u <= n
      BY <1>2, <1>3, <1>5, <2>1, <2>3, <3>2 DEF Ahead, Larger, Update
    <3> QED BY <3>1, <3>2
  <2>4. u \in InHand \/ u > after
    BY <2>1 DEF OffsetInvariant, NothingIsOverlooked, Ahead, after
  <2> QED BY <2>2, <2>3, <2>4
<1> QED BY <1>9, <1>10, <1>11 DEF OffsetInvariant

\* Whatever a worker does but Take, Record and RecordFails keeps the queue and what
\* the workers have.
LEMMA OffsetWithin ==
  ASSUME Typed, OffsetInvariant, NEW w \in Worker, UpdateStep(w),
         UNCHANGED <<update, queue, fetched, confirmed, stored, recorded>>
  PROVE  OffsetInvariant'
<1>1. UNCHANGED phase
  BY DEF UpdateStep, run
<1>2. InSequence'
  BY <1>1 DEF OffsetInvariant, InSequence, Begun
<1>3. handled \subseteq handled' /\ dropped \subseteq dropped'
  BY DEF UpdateStep, Take, Admit, TurnAway, Press, Ignore, Act, Refuse, Handled,
         RecordFails, Record, Abandon, WorkerReturns, fate
<1>4. NothingIsOverlooked'
  BY <1>1, <1>3
     DEF OffsetInvariant, NothingIsOverlooked, InHand, Range, Ahead, InitialOffset, Larger
<1>5. \A v \in Worker : v # w => stage'[v] = stage[v]
  BY DEF UpdateStep, Take, Admit, TurnAway, Press, Enter, Ignore, Act, Refuse, Step,
         RecordFails, Record, Finish, Abandon, WorkerReturns, Typed, TypeOK, UpdatesTypeOK
<1>6. stage'[w] = "record" => update[w] \in handled' \cup dropped'
  BY DEF UpdateStep, Take, Admit, TurnAway, Press, Enter, Ignore, Act, Refuse, Step,
         RecordFails, Record, Finish, Abandon, WorkerReturns, Handled, Kind,
         Typed, TypeOK, UpdatesTypeOK
<1>7. StoredIsDone'
  BY <1>3, <1>5, <1>6 DEF OffsetInvariant, StoredIsDone
<1> QED BY <1>2, <1>4, <1>7 DEF OffsetInvariant

LEMMA OffsetTake ==
  ASSUME Typed, OffsetInvariant, NEW w \in Worker, UpdateStep(w), Take(w)
  PROVE  OffsetInvariant' /\ update'[w] \notin recorded
<1>1. /\ queue \in Seq(Update) /\ queue # <<>> /\ fetched \in Nat /\ stored \in Nat
      /\ update \in [Worker -> Update \cup {0}] /\ stage \in [Worker -> Stage]
      /\ update[w] = 0 /\ phase # "down"
  BY DEF Take, Step, Typed, Asleep, TypeOK, UpdatesTypeOK
<1>2. /\ queue' = Tail(queue)
      /\ update' = [update EXCEPT ![w] = Head(queue)]
      /\ \E k \in Kinds[Head(queue)] : stage' = [stage EXCEPT ![w] = k]
      /\ UNCHANGED <<fetched, confirmed, stored, recorded, handled, dropped, phase>>
  BY DEF Take, Step, UpdateStep, run, fate
<1>3. /\ Len(queue) \in Nat \ {0} /\ Head(queue) = queue[1] /\ Head(queue) \in Update
      /\ Len(queue') = Len(queue) - 1
      /\ \A i \in 1 .. Len(queue') : queue'[i] = queue[i + 1]
  BY <1>1, <1>2
<1>4. Begun' = Begun + 1 /\ Begun \in Int
  BY <1>1, <1>2, <1>3 DEF Begun
<1>5. Head(queue) = Begun + 1
  BY <1>3 DEF OffsetInvariant, InSequence
<1>6. InSequence'
  <2>1. \A v \in Worker : update'[v] <= Begun'
    BY <1>1, <1>2, <1>4, <1>5 DEF OffsetInvariant, InSequence, Update
  <2>2. ASSUME NEW i \in 1 .. Len(queue') PROVE queue'[i] = Begun' + i
    <3>1. i + 1 \in 1 .. Len(queue)
      BY <1>3
    <3> QED BY <1>3, <1>4, <3>1 DEF OffsetInvariant, InSequence
  <2> QED BY <1>1, <1>2, <1>3, <1>4, <2>1, <2>2 DEF OffsetInvariant, InSequence
<1>7. StoredIsDone'
  <2>1. \A k \in Kinds[Head(queue)] : k # "record"
    BY <1>3, UpdatesAssumption DEF Kind
  <2> QED BY <1>1, <1>2, <2>1 DEF OffsetInvariant, StoredIsDone
<1>8. InHand \subseteq InHand'
  <2> SUFFICES ASSUME NEW u \in InHand PROVE u \in InHand'
    OBVIOUS
  <2>1. CASE u \in Range(queue)
    <3>1. PICK i \in 1 .. Len(queue) : queue[i] = u
      BY <1>1, <2>1 DEF Range
    <3>2. CASE i = 1
      BY <1>1, <1>2, <1>3, <3>1, <3>2, UpdatesAssumption DEF InHand, Update
    <3>3. CASE i # 1
      <4>1. i - 1 \in 1 .. Len(queue') /\ queue'[i - 1] = u
        BY <1>3, <3>1, <3>3
      <4>2. DOMAIN queue' = 1 .. Len(queue')
        BY <1>1, <1>2
      <4> QED BY <4>1, <4>2 DEF InHand, Range
    <3> QED BY <3>2, <3>3
  <2>2. CASE u \in {update[v] : v \in Worker} \ {0}
    BY <1>1, <1>2, <2>2 DEF InHand
  <2> QED BY <2>1, <2>2 DEF InHand
<1>9. NothingIsOverlooked'
  BY <1>2, <1>8 DEF OffsetInvariant, NothingIsOverlooked, Ahead, Larger, InitialOffset
<1>10. Head(queue) \notin recorded
  BY <1>1, <1>4, <1>5, SMT DEF OffsetInvariant, InSequence, Typed, TypeOK, UpdatesTypeOK, Update
<1> QED BY <1>1, <1>2, <1>6, <1>7, <1>9, <1>10 DEF OffsetInvariant

LEMMA OffsetFinish ==
  ASSUME Typed, OffsetInvariant, NEW w \in Worker, UpdateStep(w),
         Record(w) \/ RecordFails(w)
  PROVE  OffsetInvariant'
<1>1. /\ update[w] \in Update /\ stage[w] = "record" /\ fetched \in Nat /\ stored \in Nat
      /\ update \in [Worker -> Update \cup {0}] /\ stage \in [Worker -> Stage]
      /\ queue \in Seq(Update) /\ phase # "down"
  <2>1. stage[w] = "record"
    BY DEF Record, RecordFails, Finish, Step
  <2>2. /\ update \in [Worker -> Update \cup {0}] /\ stage \in [Worker -> Stage]
        /\ queue \in Seq(Update) /\ fetched \in Nat /\ stored \in Nat
    BY DEF Typed, TypeOK, UpdatesTypeOK
  <2>3. update[w] # 0
    BY <2>1 DEF Typed, TypeOK, UpdatesTypeOK
  <2>4. phase # "down"
    BY <2>1 DEF Typed, Asleep
  <2> QED BY <2>1, <2>2, <2>3, <2>4
<1>2. /\ update' = [update EXCEPT ![w] = 0]
      /\ stage' = [stage EXCEPT ![w] = "free"]
      /\ UNCHANGED <<fetched, confirmed, queue, handled, dropped, phase>>
  BY DEF Record, RecordFails, Finish, Step, UpdateStep, run, api, fate
<1>3. /\ stored' \in Nat
      /\ stored' <= Begun + 1
      /\ \A u \in recorded' : u < stored'
  <2>1. Begun \in Int /\ update[w] <= Begun /\ stored <= Begun + 1 /\ recorded \subseteq Update
        /\ \A u \in recorded : u < stored
    BY <1>1 DEF Begun, OffsetInvariant, InSequence, Typed, TypeOK, UpdatesTypeOK
  <2>2. CASE Record(w)
    BY <1>1, <2>1, <2>2 DEF Record, StoreOffset, Larger, Update
  <2>3. CASE RecordFails(w)
    BY <1>1, <2>1, <2>3 DEF RecordFails, fate
  <2> QED BY <2>2, <2>3
<1>4. InSequence'
  <2>1. Begun' = Begun /\ Begun \in Int
    BY <1>1, <1>2 DEF Begun
  <2>2. \A v \in Worker : update'[v] <= Begun'
    BY <1>1, <1>2, <2>1 DEF OffsetInvariant, InSequence
  <2> QED BY <1>1, <1>2, <1>3, <2>1, <2>2 DEF OffsetInvariant, InSequence
<1>5. StoredIsDone'
  BY <1>1, <1>2 DEF OffsetInvariant, StoredIsDone
<1>6. \A u \in InHand : u \in InHand' \/ u = update[w]
  BY <1>1, <1>2 DEF InHand, Range
<1>7. update[w] \in handled \cup dropped
  BY <1>1 DEF OffsetInvariant, StoredIsDone
<1>8. NothingIsOverlooked'
  BY <1>1, <1>2, <1>6, <1>7 DEF OffsetInvariant, NothingIsOverlooked, Ahead, Larger
<1> QED BY <1>4, <1>5, <1>8 DEF OffsetInvariant

\* A new process asks for what the offset leaves out, and nothing is in its hands.
LEMMA OffsetStart == Typed /\ OffsetInvariant /\ Start => OffsetInvariant'
<1> SUFFICES ASSUME Typed, OffsetInvariant, Start PROVE OffsetInvariant'
  OBVIOUS
<1>1. /\ queue = <<>> /\ queue' = <<>> /\ fetched' = InitialOffset /\ stored \in Nat
      /\ phase = "down" /\ phase' = "up"
      /\ \A w \in Worker : update[w] = 0 /\ stage'[w] = "free"
      /\ UNCHANGED <<update, confirmed, stored, handled, recorded, dropped>>
  BY DEF Start, StartUpdates, Goto, fate, Typed, Asleep, TypeOK, UpdatesTypeOK
<1>2. Begun' = InitialOffset /\ InitialOffset \in Nat /\ stored <= InitialOffset + 1
  BY <1>1 DEF Begun, InitialOffset
<1>3. InSequence'
  BY <1>1, <1>2 DEF OffsetInvariant, InSequence
<1>4. StoredIsDone'
  BY <1>1 DEF StoredIsDone
<1>5. NothingIsOverlooked'
  BY <1>1 DEF OffsetInvariant, NothingIsOverlooked, InHand, Range, Ahead
<1> QED BY <1>3, <1>4, <1>5 DEF OffsetInvariant

\* What the offset leaves out is at most what had been fetched.
LEMMA OffsetEnd == Typed /\ OffsetInvariant /\ phase # "down" /\ End => OffsetInvariant'
<1> SUFFICES ASSUME Typed, OffsetInvariant, phase # "down", End PROVE OffsetInvariant'
  OBVIOUS
<1>1. /\ queue' = <<>> /\ fetched' = 0 /\ phase' = "down"
      /\ \A w \in Worker : update'[w] = 0 /\ stage'[w] = "gone"
      /\ dropped' = dropped \cup (InHand \ handled)
      /\ UNCHANGED <<confirmed, stored, handled, recorded>>
  BY DEF End, EndUpdates, Goto
<1>2. /\ stored \in Nat /\ fetched \in Nat /\ confirmed \in Nat /\ Len(queue) \in Nat
      /\ stored <= fetched - Len(queue) + 1
  BY DEF OffsetInvariant, InSequence, Begun, Typed, TypeOK, UpdatesTypeOK
<1>3. InitialOffset <= fetched /\ InitialOffset \in Nat /\ InitialOffset' = InitialOffset
  BY <1>1, <1>2 DEF InitialOffset
<1>4. InSequence'
  BY <1>1 DEF OffsetInvariant, InSequence, Begun
<1>5. StoredIsDone'
  BY <1>1 DEF StoredIsDone
<1>6. ASSUME NEW u \in Update, Ahead(u) PROVE Ahead(u)'
  <2>1. u > confirmed /\ u > fetched
    BY <1>2, <1>6 DEF Ahead, Larger, Update
  <2> QED BY <1>1, <1>2, <1>3, <2>1 DEF Ahead, Larger, Update
<1>7. NothingIsOverlooked'
  BY <1>1, <1>6 DEF OffsetInvariant, NothingIsOverlooked
<1> QED BY <1>4, <1>5, <1>7 DEF OffsetInvariant

LEMMA OffsetStep == Typed /\ OffsetInvariant /\ [Next]_vars => OffsetInvariant'
<1> SUFFICES ASSUME Typed, OffsetInvariant, [Next]_vars PROVE OffsetInvariant'
  OBVIOUS
<1>1. ASSUME NEW w \in Worker, UpdateStep(w) PROVE OffsetInvariant'
  <2>1. \/ Take(w) \/ Record(w) \/ RecordFails(w)
        \/ UNCHANGED <<update, queue, fetched, confirmed, stored, recorded>>
    BY <1>1 DEF UpdateStep, Admit, TurnAway, Press, Ignore, Act, Refuse, Handled,
                Abandon, WorkerReturns, api, fate
  <2> QED BY <1>1, <2>1, OffsetTake, OffsetFinish, OffsetWithin
<1>2. CASE Exit \/ Crash
  <2>1. phase # "down" /\ End
    BY <1>2 DEF Exit, Crash, Running
  <2> QED BY <2>1, OffsetEnd
<1>3. ASSUME UNCHANGED <<api, stored, workers, fate>>, phase' = "down" <=> phase = "down"
      PROVE  OffsetInvariant'
  BY <1>3 DEF api, workers, fate, OffsetInvariant, InSequence, Begun, StoredIsDone,
              NothingIsOverlooked, InHand, Range, Ahead, Larger, InitialOffset
<1>4. CASE PollEnds \/ ProbeEnds \/ Signal \/ Drained \/ Close \/ TimeOut
  BY <1>3, <1>4, RunStep
     DEF updates, PollEnds, ProbeEnds, Signal, Drained, Close, TimeOut, Goto
<1>5. CASE RateTick /\ UNCHANGED run
  BY <1>3, <1>5 DEF RateTick, run
<1>6. CASE UNCHANGED vars
  BY <1>3, <1>6 DEF vars, updates, run
<1> QED BY <1>1, <1>2, <1>4, <1>5, <1>6, OffsetStart, OffsetReceive DEF Next

LEMMA AlwaysInSequence == Spec => []OffsetInvariant
BY OffsetInit, OffsetStep, AlwaysTyped, PTL DEF Spec

\* telegram.go:24: an update is handled, in somebody's hands, cost by the end of a
\* process, or still ahead, after any number of restarts.
THEOREM NeverOverlooked == Spec => []NothingIsOverlooked
<1>1. OffsetInvariant => NothingIsOverlooked
  BY DEF OffsetInvariant
<1> QED BY <1>1, AlwaysInSequence, PTL

\* An update whose offset was stored is never handled again.
THEOREM NeverRepeated == Spec => RecordedIsOver
<1>1. Typed /\ OffsetInvariant /\ [Next]_vars =>
        [\A w \in Worker : stage[w] = "free" /\ stage'[w] \in Kind
                            => update'[w] \notin recorded]_vars
  <2> SUFFICES ASSUME Typed, OffsetInvariant, [Next]_vars, NEW w \in Worker,
                      stage[w] = "free", stage'[w] \in Kind
               PROVE  update'[w] \notin recorded
    OBVIOUS
  <2>1. CASE \E v \in Worker : UpdateStep(v)
    <3>1. PICK v \in Worker : UpdateStep(v)
      BY <2>1
    <3>2. v = w /\ Take(w)
      BY <3>1 DEF UpdateStep, Take, Admit, TurnAway, Press, Enter, Ignore, Act, Refuse,
                  Step, RecordFails, Record, Finish, Abandon, WorkerReturns, Handled,
                  Kind, Typed, TypeOK, UpdatesTypeOK
    <3> QED BY <3>1, <3>2, OffsetTake
  <2>2. CASE ~ \E v \in Worker : UpdateStep(v)
    <3>1. stage'[w] \in {"free", "gone"}
      BY <2>2, RunStep
         DEF Next, Start, StartUpdates, ReceiveStep, Receive, RateTick, Exit, Crash, End,
             EndUpdates, vars, updates, workers
    <3> QED BY <3>1 DEF Kind
  <2> QED BY <2>1, <2>2
<1> QED BY <1>1, AlwaysTyped, AlwaysInSequence, PTL DEF Spec, RecordedIsOver

\* store_test.go:167: the offset never moves backward.
THEOREM NeverBackward == Spec => OffsetNeverFalls
<1>1. Typed /\ [Next]_vars => [stored' >= stored]_vars
  <2> SUFFICES ASSUME Typed, [Next]_vars PROVE stored' >= stored
    OBVIOUS
  <2>1. stored \in Nat
    BY DEF Typed, TypeOK, UpdatesTypeOK
  <2>2. CASE \E w \in Worker : Record(w)
    <3>1. PICK w \in Worker : Record(w)
      BY <2>2
    <3>2. update[w] \in Nat
      BY DEF Typed, TypeOK, UpdatesTypeOK, Update
    <3> QED BY <2>1, <3>1, <3>2 DEF Record, StoreOffset, Larger
  <2>3. CASE ~ \E w \in Worker : Record(w)
    <3>1. UNCHANGED stored
      BY <2>3, RunStep
         DEF Next, Start, StartUpdates, ReceiveStep, Receive, RateTick, Exit, Crash, End,
             EndUpdates, UpdateStep, Take, Admit, TurnAway, Press, Ignore, Act, Refuse,
             Handled, RecordFails, Abandon, WorkerReturns, vars, updates
    <3> QED BY <2>1, <3>1
  <2> QED BY <2>2, <2>3
<1> QED BY <1>1, AlwaysTyped, PTL DEF Spec, OffsetNeverFalls
=============================================================================
