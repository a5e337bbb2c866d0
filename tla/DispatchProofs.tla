--------------------------- MODULE DispatchProofs ---------------------------
(***************************************************************************)
(* Proofs about the scheduler, for every set of users and of workers and   *)
(* every choice of delays: its variables keep their types, no account is   *)
(* queued or polled twice at the same time, inFlight holds exactly the     *)
(* accounts that are queued or polled, and the scheduler implements        *)
(* PollSession.                                                            *)
(***************************************************************************)
EXTENDS Dispatch, FiniteSetTheorems, TLAPS

-----------------------------------------------------------------------------
(* Operators.                                                              *)

\* A set of users has a size, and so every row of DueRows has a place.
LEMMA SizeIsNat ==
  ASSUME NEW S, S \subseteq User
  PROVE  Cardinality(S) \in Nat
BY FS_Subset, FS_CardinalityType, DispatchAssumption

LEMMA CapIsNat == Cap \in Nat
BY FS_CardinalityType, DispatchAssumption DEF Cap

\* What Due returns are rows.
LEMMA DueRowsType == TypeOK => DueRows \subseteq Row
<1> SUFFICES ASSUME TypeOK, NEW u \in User
             PROVE  [job |-> [id |-> u, failures |-> failures[u]], place |-> Place(u)] \in Row
  BY DEF DueRows, DueUsers
<1>1. Place(u) \in Nat
  BY SizeIsNat DEF Place, DueUsers
<1> QED BY <1>1 DEF TypeOK, Row, Job

\* The lateness of an account is a natural number.
LEMMA LatenessType ==
  ASSUME NEW w \in [User -> Int], NEW u \in User
  PROVE  Lateness(w, u) \in Nat
<1>1. Cardinality(LateAs(w, u)) \in Nat
  BY SizeIsNat DEF LateAs
<1> QED BY <1>1, DispatchAssumption DEF Lateness

\* The failure count stays within the backoffs, and indexes them.
LEMMA NextCountType ==
  ASSUME NEW c \in 0 .. Len(Backoffs)
  PROVE  NextCount(c) \in 1 .. Len(Backoffs)
BY DispatchAssumption DEF NextCount

LEMMA DelayType ==
  ASSUME NEW c \in 1 .. Len(Backoffs), NEW r \in RetryAfter
  PROVE  Delay(c, r) \in Nat
BY DispatchAssumption DEF Delay

-----------------------------------------------------------------------------
(* Types.                                                                  *)

LEMMA InitType == Init => TypeOK
BY CapIsNat, DispatchAssumption DEF Init, TypeOK, Status

\* Schedule keeps the columns within their types.
LEMMA ScheduleType ==
  ASSUME TypeOK, NEW u \in User, NEW d \in Int, NEW c \in 0 .. Len(Backoffs),
         Schedule(u, d, c)
  PROVE  wait' \in [User -> Int] /\ failures' \in [User -> 0 .. Len(Backoffs)]
BY DEF TypeOK, Schedule

LEMMA NextType == TypeOK /\ [Next]_vars => TypeOK'
<1> SUFFICES ASSUME TypeOK, [Next]_vars PROVE TypeOK'
  OBVIOUS
<1> USE DEF rows, scheduler, workers, machinery
<1>1. CASE Enqueue
  <2>1. CASE EnqueueBegin
    BY <2>1 DEF TypeOK, EnqueueBegin
  <2>2. CASE EnqueueLoad
    BY <2>2, DueRowsType DEF TypeOK, EnqueueLoad
  <2>3. CASE EnqueueError
    BY <2>3, DispatchAssumption DEF TypeOK, EnqueueError
  <2>4. CASE EnqueueSkip
    BY <2>4 DEF TypeOK, EnqueueSkip, Leave
  <2>5. CASE EnqueuePush
    <3>1. PICK r \in Foremost : EnqueuePush!(r)
      BY <2>5 DEF EnqueuePush
    <3>2. r.job \in Job /\ r.job.id \in User
      BY <3>1 DEF TypeOK, Foremost, Row, Job
    <3>3. jobs' \in Seq(Job) /\ Len(jobs') <= Cap
      BY <3>1, <3>2, CapIsNat DEF TypeOK
    <3>4. inFlight' \in SUBSET User
      BY <3>1, <3>2 DEF TypeOK
    <3>5. batch' \in SUBSET Row /\ round' \in {"idle", "load", "push"}
      BY <3>1 DEF TypeOK, Leave
    <3> QED BY <3>1, <3>3, <3>4, <3>5 DEF TypeOK
  <2>6. CASE EnqueueFull
    BY <2>6 DEF TypeOK, EnqueueFull, Leave
  <2> QED BY <1>1, <2>1, <2>2, <2>3, <2>4, <2>5, <2>6 DEF Enqueue
<1>2. ASSUME NEW w \in Worker, Work(w) PROVE TypeOK'
  <2>1. CASE Take(w)
    <3>1. Head(jobs) \in Job /\ Tail(jobs) \in Seq(Job) /\ Len(Tail(jobs)) <= Len(jobs)
      BY <2>1 DEF TypeOK, Take
    <3>2. running' \in [Worker -> Job \cup {NoJob}]
      BY <2>1, <3>1 DEF TypeOK, Take
    <3>3. step' \in [Worker -> {"idle", "poll", "done"}]
      BY <2>1 DEF TypeOK, Take
    <3>4. \A v \in Worker : step'[v] # "idle" => running'[v] \in Job
      BY <2>1, <3>1 DEF TypeOK, Take
    <3>5. jobs' \in Seq(Job) /\ Len(jobs') <= Cap
      BY <2>1, <3>1, CapIsNat DEF TypeOK, Take
    <3> QED BY <2>1, <3>2, <3>3, <3>4, <3>5 DEF TypeOK, Take
  <2>2. CASE PollEnds(w)
    <3>1. running[w] \in Job /\ running[w].id \in User
      /\ running[w].failures \in 0 .. Len(Backoffs)
      BY <2>2 DEF PollEnds, PollSucceeds, PollFails, PollRejected, PollAbandoned,
                  Return, TypeOK, Job
    <3>2. /\ step' \in [Worker -> {"idle", "poll", "done"}]
          /\ \A v \in Worker : step'[v] # "idle" => running'[v] \in Job
          /\ UNCHANGED <<round, batch, jobs, inFlight, running>>
      BY <2>2 DEF PollEnds, PollSucceeds, PollFails, PollRejected, PollAbandoned,
                  Return, TypeOK
    <3>3. CASE PollSucceeds(w)
      <4>1. wait' \in [User -> Int] /\ failures' \in [User -> 0 .. Len(Backoffs)]
        <5>1. PICK j \in Jitter : Schedule(running[w].id, Interval + j, 0)
          BY <3>3 DEF PollSucceeds
        <5>2. Interval + j \in Int /\ 0 \in 0 .. Len(Backoffs)
          BY DispatchAssumption
        <5> QED BY <3>1, <5>1, <5>2, ScheduleType
      <4> QED BY <3>2, <3>3, <4>1 DEF TypeOK, PollSucceeds
    <3>4. CASE PollFails(w)
      <4>1. wait' \in [User -> Int] /\ failures' \in [User -> 0 .. Len(Backoffs)]
        <5> DEFINE c == NextCount(running[w].failures)
        <5>1. PICK r \in RetryAfter : Schedule(running[w].id, Delay(c, r), c)
          BY <3>4 DEF PollFails
        <5>2. c \in 1 .. Len(Backoffs)
          BY <3>1, NextCountType
        <5>3. Delay(c, r) \in Int /\ c \in 0 .. Len(Backoffs)
          BY <5>2, DelayType
        <5> QED BY <3>1, <5>1, <5>3, ScheduleType
      <4> QED BY <3>2, <3>4, <4>1 DEF TypeOK, PollFails
    <3>5. CASE PollRejected(w)
      BY <3>1, <3>2, <3>5 DEF TypeOK, PollRejected, Status
    <3>6. CASE PollAbandoned(w)
      <4>1. globalPause' \in BOOLEAN
        BY <3>6, Zenon DEF TypeOK, PollAbandoned
      <4>2. faults' \in 0 .. MaxFaults
        BY <3>6, DispatchAssumption DEF TypeOK, PollAbandoned
      <4> QED BY <3>2, <3>6, <4>1, <4>2 DEF TypeOK, PollAbandoned
    <3> QED BY <2>2, <3>3, <3>4, <3>5, <3>6 DEF PollEnds
  <2>3. CASE Release(w)
    BY <2>3 DEF TypeOK, Release
  <2> QED BY <1>2, <2>1, <2>2, <2>3 DEF Work
<1>3. CASE Control
  <2>1. ASSUME NEW u \in Commanding, Bind(u) PROVE TypeOK'
    BY <2>1, DispatchAssumption DEF TypeOK, Bind, Status
  <2>2. ASSUME NEW u \in Commanding, SetStatus(u) PROVE TypeOK'
    BY <2>2 DEF TypeOK, SetStatus, Status
  <2>3. ASSUME NEW u \in Commanding, ScheduleNow(u) PROVE TypeOK'
    <3>1. wait' \in [User -> Int] /\ failures' \in [User -> 0 .. Len(Backoffs)]
      BY <2>3, ScheduleType, DispatchAssumption DEF ScheduleNow
    <3> QED BY <2>3, <3>1 DEF TypeOK, ScheduleNow
  <2>4. ASSUME NEW u \in Commanding, Remove(u) PROVE TypeOK'
    BY <2>4, DispatchAssumption DEF TypeOK, Remove, Status
  <2>5. CASE SetGlobalPaused
    BY <2>5 DEF TypeOK, SetGlobalPaused
  <2> QED BY <1>3, <2>1, <2>2, <2>3, <2>4, <2>5 DEF Control
<1>4. CASE Tick
  <2> DEFINE w == [u \in User |-> wait[u] - 1]
  <2>1. w \in [User -> Int]
    BY DEF TypeOK
  <2>2. \A u \in User : Lateness(w, u) \in Nat
    BY <2>1, LatenessType
  <2>3. wait' = [u \in User |-> IF w[u] >= 0 THEN w[u] ELSE -Lateness(w, u)]
    BY <1>4 DEF Tick
  <2> HIDE DEF w
  <2>4. wait' \in [User -> Int]
    BY <2>1, <2>2, <2>3
  <2> QED BY <1>4, <2>4 DEF TypeOK, Tick
<1>5. CASE UNCHANGED vars
  BY <1>5 DEF TypeOK, vars
<1> QED BY <1>1, <1>2, <1>3, <1>4, <1>5 DEF Next

\* The variables of the scheduler keep their types; in particular the channel
\* never holds more than Cap jobs, and a worker that polls holds a job.
THEOREM TypeCorrect == Spec => []TypeOK
<1>1. Init => TypeOK
  BY InitType
<1>2. TypeOK /\ [Next]_vars => TypeOK'
  BY NextType
<1> QED BY <1>1, <1>2, PTL DEF Spec

-----------------------------------------------------------------------------
(* One poll per account.  Each of the two invariants needs the other: the  *)
(* test of inFlight in enqueue keeps jobs apart only while inFlight is     *)
(* exact, and Release keeps inFlight exact only while the account it frees *)
(* is queued or polled nowhere else.  Their conjunction is inductive.      *)

Exclusion == OnePollPerAccount /\ InFlightIsExact

LEMMA InitExclusion == Init => Exclusion
BY DEF Init, Exclusion, OnePollPerAccount, InFlightIsExact, QueuedIds, PolledIds, Polling

\* A step that leaves the channel, the marks and the workers alone.
LEMMA ExclusionStutter ==
  Exclusion /\ UNCHANGED <<jobs, inFlight, running, step>> => Exclusion'
<1> SUFFICES ASSUME Exclusion, UNCHANGED <<jobs, inFlight, running, step>> PROVE Exclusion'
  OBVIOUS
<1>1. QueuedIds' = QueuedIds /\ PolledIds' = PolledIds
  BY DEF QueuedIds, PolledIds, Polling
<1>2. OnePollPerAccount'
  BY <1>1 DEF Exclusion, OnePollPerAccount, Polling
<1>3. InFlightIsExact'
  BY <1>1 DEF Exclusion, InFlightIsExact
<1> QED BY <1>2, <1>3 DEF Exclusion

\* An account that is not marked is new to both the channel and the workers.
LEMMA PushIds ==
  ASSUME TypeOK, Exclusion, NEW r \in Foremost, EnqueuePush!(r)
  PROVE  /\ r.job.id \in User
         /\ r.job.id \notin QueuedIds /\ r.job.id \notin PolledIds
         /\ QueuedIds' = QueuedIds \cup {r.job.id}
         /\ PolledIds' = PolledIds
<1>1. r.job \in Job /\ r.job.id \in User
  BY DEF TypeOK, Foremost, Row, Job
<1>2. /\ Len(jobs') = Len(jobs) + 1 /\ Len(jobs) \in Nat
      /\ \A i \in 1 .. Len(jobs) : jobs'[i] = jobs[i]
      /\ jobs'[Len(jobs) + 1] = r.job
  BY <1>1 DEF TypeOK
<1>3. PolledIds' = PolledIds
  BY DEF workers, PolledIds, Polling
<1>4. QueuedIds' = QueuedIds \cup {r.job.id}
  BY <1>2 DEF QueuedIds
<1>5. r.job.id \notin QueuedIds /\ r.job.id \notin PolledIds
  BY DEF Exclusion, InFlightIsExact
<1> QED BY <1>1, <1>3, <1>4, <1>5

LEMMA PushExclusion == TypeOK /\ Exclusion /\ EnqueuePush => Exclusion'
<1> SUFFICES ASSUME TypeOK, Exclusion, EnqueuePush PROVE Exclusion'
  OBVIOUS
<1>1. PICK r \in Foremost : EnqueuePush!(r)
  BY DEF EnqueuePush
<1>2. r.job \in Job
  BY <1>1 DEF TypeOK, Foremost, Row
<1>3. /\ Len(jobs') = Len(jobs) + 1 /\ Len(jobs) \in Nat
      /\ \A i \in 1 .. Len(jobs) : jobs'[i] = jobs[i]
      /\ jobs'[Len(jobs) + 1] = r.job
  BY <1>1, <1>2 DEF TypeOK
<1>4. inFlight' = inFlight \cup {r.job.id} /\ UNCHANGED <<running, step>>
  BY <1>1 DEF workers
<1>5. /\ r.job.id \notin QueuedIds /\ r.job.id \notin PolledIds
      /\ QueuedIds' = QueuedIds \cup {r.job.id}
      /\ PolledIds' = PolledIds
  BY <1>1, PushIds
<1>6. \A i, j \in 1 .. Len(jobs') : jobs'[i].id = jobs'[j].id => i = j
  <2>1. \A i \in 1 .. Len(jobs) : jobs[i].id # r.job.id
    BY <1>5 DEF QueuedIds
  <2>2. \A i, j \in 1 .. Len(jobs) : jobs[i].id = jobs[j].id => i = j
    BY DEF Exclusion, OnePollPerAccount
  <2>3. \A i \in 1 .. Len(jobs') : i \in 1 .. Len(jobs) \/ i = Len(jobs) + 1
    BY <1>3
  <2> QED BY <1>3, <2>1, <2>2, <2>3
<1>7. \A v, w \in Worker :
        (Polling(v) /\ Polling(w) /\ running[v].id = running[w].id => v = w)'
  BY <1>4 DEF Exclusion, OnePollPerAccount, Polling
<1>8. (QueuedIds \cap PolledIds)' = {}
  BY <1>5 DEF Exclusion, OnePollPerAccount
<1>9. inFlight' = (QueuedIds \cup PolledIds)'
  BY <1>4, <1>5 DEF Exclusion, InFlightIsExact
<1> QED BY <1>6, <1>7, <1>8, <1>9 DEF Exclusion, OnePollPerAccount, InFlightIsExact

\* The account at the head of the channel moves to the worker.
LEMMA TakeIds ==
  ASSUME TypeOK, Exclusion, NEW w \in Worker, Take(w)
  PROVE  LET u == Head(jobs).id
         IN  /\ u \notin QueuedIds' /\ u \notin PolledIds
             /\ QueuedIds = QueuedIds' \cup {u}
             /\ PolledIds' = PolledIds \cup {u}
<1> DEFINE u == Head(jobs).id
<1>1. /\ Len(jobs) \in Nat /\ Len(jobs) >= 1
      /\ u = jobs[1].id
      /\ Len(jobs') = Len(jobs) - 1
      /\ \A i \in 1 .. Len(jobs') : jobs'[i] = jobs[i + 1]
  BY DEF TypeOK, Take
<1>2. /\ \A v \in Worker : Polling(v)' <=> Polling(v) \/ v = w
      /\ ~ Polling(w)
      /\ \A v \in Worker \ {w} : running'[v] = running[v]
      /\ running'[w].id = u
      /\ inFlight' = inFlight
  BY DEF TypeOK, Take, Polling
<1> HIDE DEF u
<1>3. \A i, j \in 1 .. Len(jobs) : jobs[i].id = jobs[j].id => i = j
  BY DEF Exclusion, OnePollPerAccount
<1>4. QueuedIds = QueuedIds' \cup {u}
  <2>1. \A x : x \in QueuedIds <=> \E i \in 1 .. Len(jobs) : x = jobs[i].id
    BY DEF QueuedIds
  <2>2. \A x : x \in QueuedIds' <=> \E i \in 1 .. Len(jobs') : x = jobs'[i].id
    BY DEF QueuedIds
  <2>3. \A x : x \in QueuedIds' => x \in QueuedIds
    BY <1>1, <2>1, <2>2
  <2>4. ASSUME NEW x, x \in QueuedIds PROVE x \in QueuedIds' \/ x = u
    <3>1. PICK i \in 1 .. Len(jobs) : x = jobs[i].id
      BY <2>1, <2>4
    <3>2. CASE i = 1
      BY <1>1, <3>1, <3>2
    <3>3. CASE i # 1
      <4>1. i - 1 \in 1 .. Len(jobs') /\ jobs'[i - 1] = jobs[i]
        BY <1>1, <3>3
      <4> QED BY <2>2, <3>1, <4>1
    <3> QED BY <3>2, <3>3
  <2>5. u \in QueuedIds
    BY <1>1, <2>1
  <2> QED BY <2>3, <2>4, <2>5
<1>5. u \notin QueuedIds'
  <2> SUFFICES ASSUME NEW i \in 1 .. Len(jobs'), jobs'[i].id = u PROVE FALSE
    BY DEF QueuedIds
  <2>1. i + 1 \in 1 .. Len(jobs) /\ 1 \in 1 .. Len(jobs) /\ jobs[i + 1].id = jobs[1].id
    BY <1>1
  <2> QED BY <1>3, <2>1
<1>6. PolledIds' = PolledIds \cup {u}
  BY <1>2 DEF PolledIds
<1>7. u \notin PolledIds
  BY <1>4 DEF Exclusion, OnePollPerAccount
<1> QED BY <1>4, <1>5, <1>6, <1>7 DEF u

LEMMA TakeExclusion ==
  ASSUME TypeOK, Exclusion, NEW w \in Worker, Take(w)
  PROVE  Exclusion'
<1> DEFINE u == Head(jobs).id
<1>1. /\ u \notin QueuedIds' /\ u \notin PolledIds
      /\ QueuedIds = QueuedIds' \cup {u}
      /\ PolledIds' = PolledIds \cup {u}
  BY TakeIds
<1>2. /\ Len(jobs) \in Nat /\ Len(jobs) >= 1
      /\ Len(jobs') = Len(jobs) - 1
      /\ \A i \in 1 .. Len(jobs') : jobs'[i] = jobs[i + 1]
  BY DEF TypeOK, Take
<1>3. /\ \A v \in Worker : Polling(v)' <=> Polling(v) \/ v = w
      /\ \A v \in Worker \ {w} : running'[v] = running[v]
      /\ running'[w].id = u
      /\ inFlight' = inFlight
  BY DEF TypeOK, Take, Polling
<1> HIDE DEF u
<1>4. \A i, j \in 1 .. Len(jobs') : jobs'[i].id = jobs'[j].id => i = j
  <2> SUFFICES ASSUME NEW i \in 1 .. Len(jobs'), NEW j \in 1 .. Len(jobs'),
                      jobs'[i].id = jobs'[j].id
               PROVE  i = j
    OBVIOUS
  <2>1. i + 1 \in 1 .. Len(jobs) /\ j + 1 \in 1 .. Len(jobs)
    BY <1>2
  <2>2. i + 1 = j + 1
    BY <1>2, <2>1 DEF Exclusion, OnePollPerAccount
  <2> QED BY <2>2
<1>5. \A v, x \in Worker :
        (Polling(v) /\ Polling(x) /\ running[v].id = running[x].id => v = x)'
  <2>1. \A v \in Worker \ {w} : Polling(v) => running[v].id # u
    BY <1>1 DEF PolledIds
  <2> QED BY <1>3, <2>1 DEF Exclusion, OnePollPerAccount
<1>6. (QueuedIds \cap PolledIds)' = {}
  BY <1>1 DEF Exclusion, OnePollPerAccount
<1>7. inFlight' = (QueuedIds \cup PolledIds)'
  BY <1>1, <1>3 DEF Exclusion, InFlightIsExact
<1> QED BY <1>4, <1>5, <1>6, <1>7 DEF Exclusion, OnePollPerAccount, InFlightIsExact

\* The account the worker gives back is queued or polled by nobody else.
LEMMA ReleaseIds ==
  ASSUME TypeOK, Exclusion, NEW w \in Worker, Release(w)
  PROVE  /\ running[w].id \in PolledIds /\ running[w].id \notin QueuedIds
         /\ PolledIds' = PolledIds \ {running[w].id}
         /\ QueuedIds' = QueuedIds
<1> DEFINE u == running[w].id
<1>1. /\ \A v \in Worker : Polling(v)' <=> Polling(v) /\ v # w
      /\ Polling(w)
      /\ \A v \in Worker \ {w} : running'[v] = running[v]
      /\ jobs' = jobs
  BY DEF TypeOK, Release, Polling
<1>2. \A v \in Worker \ {w} : Polling(v) => running[v].id # u
  BY <1>1 DEF Exclusion, OnePollPerAccount
<1>3. PolledIds' = PolledIds \ {u} /\ u \in PolledIds
  BY <1>1, <1>2 DEF PolledIds
<1>4. QueuedIds' = QueuedIds /\ u \notin QueuedIds
  BY <1>1, <1>3 DEF QueuedIds, Exclusion, OnePollPerAccount
<1> QED BY <1>3, <1>4

LEMMA ReleaseExclusion ==
  ASSUME TypeOK, Exclusion, NEW w \in Worker, Release(w)
  PROVE  Exclusion'
<1> DEFINE u == running[w].id
<1>1. /\ \A v \in Worker : Polling(v)' <=> Polling(v) /\ v # w
      /\ \A v \in Worker \ {w} : running'[v] = running[v]
      /\ inFlight' = inFlight \ {u}
      /\ jobs' = jobs
  BY DEF TypeOK, Release, Polling
<1>2. /\ u \in PolledIds /\ u \notin QueuedIds
      /\ PolledIds' = PolledIds \ {u}
      /\ QueuedIds' = QueuedIds
  BY ReleaseIds
<1>3. inFlight' = (QueuedIds \cup PolledIds)'
  BY <1>1, <1>2 DEF Exclusion, InFlightIsExact
<1>4. OnePollPerAccount'
  BY <1>1, <1>2 DEF Exclusion, OnePollPerAccount
<1> QED BY <1>3, <1>4 DEF Exclusion, InFlightIsExact

\* A worker that polls keeps its job until it is done.
LEMMA PollExclusion ==
  ASSUME TypeOK, Exclusion, NEW w \in Worker, PollEnds(w)
  PROVE  Exclusion'
<1>1. Return(w)
  BY DEF PollEnds, PollSucceeds, PollFails, PollRejected, PollAbandoned
<1>2. /\ \A v \in Worker : Polling(v)' <=> Polling(v)
      /\ UNCHANGED <<jobs, inFlight, running>>
  BY <1>1 DEF Return, Polling, TypeOK
<1>3. PolledIds' = PolledIds /\ QueuedIds' = QueuedIds
  BY <1>2 DEF PolledIds, QueuedIds
<1> QED BY <1>2, <1>3 DEF Exclusion, OnePollPerAccount, InFlightIsExact

LEMMA NextExclusion == TypeOK /\ Exclusion /\ [Next]_vars => Exclusion'
<1> SUFFICES ASSUME TypeOK, Exclusion, [Next]_vars PROVE Exclusion'
  OBVIOUS
<1> USE DEF rows, scheduler, workers, machinery
<1>1. CASE Enqueue
  <2>1. CASE EnqueuePush
    BY <2>1, PushExclusion
  <2>2. CASE ~ EnqueuePush
    BY <1>1, <2>2, ExclusionStutter
    DEF Enqueue, EnqueueBegin, EnqueueLoad, EnqueueError, EnqueueSkip, EnqueueFull
  <2> QED BY <2>1, <2>2
<1>2. ASSUME NEW w \in Worker, Work(w) PROVE Exclusion'
  BY <1>2, TakeExclusion, PollExclusion, ReleaseExclusion DEF Work
<1>3. CASE Control
  BY <1>3, ExclusionStutter
  DEF Control, Bind, SetStatus, ScheduleNow, Remove, SetGlobalPaused
<1>4. CASE Tick
  BY <1>4, ExclusionStutter DEF Tick
<1>5. CASE UNCHANGED vars
  BY <1>5, ExclusionStutter DEF vars
<1> QED BY <1>1, <1>2, <1>3, <1>4, <1>5 DEF Next

LEMMA ExclusionHolds == Spec => []Exclusion
<1>1. TypeOK /\ Exclusion /\ [Next]_vars => Exclusion'
  BY NextExclusion
<1> QED BY <1>1, InitExclusion, TypeCorrect, PTL DEF Spec

\* No account is queued twice, polled twice or queued while it is polled: the
\* snapshots enqueue works on may be old, the mark it tests is not.
THEOREM AtMostOnePoll == Spec => []OnePollPerAccount
<1>1. Exclusion => OnePollPerAccount
  BY DEF Exclusion
<1> QED BY <1>1, ExclusionHolds, PTL

\* inFlight is exactly what is queued or polled: no account is left marked, and
\* so shut out of polling, by any path through enqueue or the workers.
THEOREM MarksAreExact == Spec => []InFlightIsExact
<1>1. Exclusion => InFlightIsExact
  BY DEF Exclusion
<1> QED BY <1>1, ExclusionHolds, PTL

-----------------------------------------------------------------------------
(* The scheduler implements PollSession.  PushIds, TakeIds and ReleaseIds  *)
(* say how an account changes its phase; what is left are the two bounds:  *)
(* the channel has as many jobs as there are queued accounts, and every    *)
(* account that is polled has a worker of its own.                         *)

PhaseOf(queued, polled) ==
  [u \in User |-> IF u \in polled THEN "polled"
                  ELSE IF u \in queued THEN "queued" ELSE "resting"]

\* The instance has a Cardinality of its own.
LEMMA SessionCardinality == \A S : Session!Cardinality(S) = Cardinality(S)
BY DEF Cardinality, Session!Cardinality

LEMMA PhaseIs ==
  /\ Phase = PhaseOf(QueuedIds, PolledIds)
  /\ Phase' = PhaseOf(QueuedIds', PolledIds')
BY DEF Phase, PhaseOf

\* The accounts in a phase.
LEMMA InPhaseIs ==
  ASSUME TypeOK, Exclusion
  PROVE  /\ QueuedIds \subseteq User /\ PolledIds \subseteq User
         /\ Session!InPhase("queued") = QueuedIds
         /\ Session!InPhase("polled") = PolledIds
<1>1. QueuedIds \subseteq User
  <2>1. \A i \in 1 .. Len(jobs) : jobs[i] \in Job
    BY DEF TypeOK
  <2>2. \A j \in Job : j.id \in User
    BY DEF Job
  <2> QED BY <2>1, <2>2 DEF QueuedIds
<1>2. PolledIds \subseteq User
  BY DEF TypeOK, Job, PolledIds, Polling
<1>3. QueuedIds \cap PolledIds = {}
  BY DEF Exclusion, OnePollPerAccount
<1>4. \A u \in User : /\ Phase[u] = "queued" <=> u \in QueuedIds
                      /\ Phase[u] = "polled" <=> u \in PolledIds
  BY <1>3, PhaseIs DEF PhaseOf
<1> QED BY <1>1, <1>2, <1>4 DEF Session!InPhase

LEMMA QueueFits ==
  ASSUME TypeOK
  PROVE  Cardinality(QueuedIds) \in Nat /\ Cardinality(QueuedIds) <= Len(jobs)
<1> DEFINE ids == [i \in 1 .. Len(jobs) |-> jobs[i].id]
<1>1. Len(jobs) \in Nat
  BY DEF TypeOK
<1>2. ids \in Surjection(1 .. Len(jobs), QueuedIds)
  BY DEF Surjection, QueuedIds
<1> HIDE DEF ids
<1>3. IsFiniteSet(1 .. Len(jobs)) /\ Cardinality(1 .. Len(jobs)) = Len(jobs)
  <2>1. 1 \in Int /\ Len(jobs) \in Int
    BY <1>1
  <2>2. /\ IsFiniteSet(1 .. Len(jobs))
        /\ Cardinality(1 .. Len(jobs)) = IF 1 > Len(jobs) THEN 0 ELSE Len(jobs) - 1 + 1
    BY <2>1, FS_Interval
  <2> QED BY <1>1, <2>2
<1>4. IsFiniteSet(QueuedIds) /\ Cardinality(QueuedIds) <= Len(jobs)
  BY <1>2, <1>3, FS_Surjection
<1> QED BY <1>4, FS_CardinalityType

\* While a worker is idle, there is one for another account.
LEMMA WorkersSuffice ==
  ASSUME NEW w \in Worker, ~ Polling(w)
  PROVE  Cardinality(PolledIds) < Cardinality(Worker)
<1> DEFINE Busy == {v \in Worker : Polling(v)}
           ids == [v \in Busy |-> running[v].id]
<1>1. ids \in Surjection(Busy, PolledIds)
  BY DEF Surjection, PolledIds
<1>2. Busy \in SUBSET (Worker \ {w})
  OBVIOUS
<1> HIDE DEF ids, Busy
<1>3. /\ IsFiniteSet(Worker \ {w}) /\ Cardinality(Worker) \in Nat
      /\ Cardinality(Worker \ {w}) = Cardinality(Worker) - 1
  BY DispatchAssumption, FS_RemoveElement, FS_CardinalityType
<1>4. IsFiniteSet(Busy) /\ Cardinality(Busy) <= Cardinality(Worker \ {w})
  BY <1>2, <1>3, FS_Subset
<1>5. IsFiniteSet(PolledIds) /\ Cardinality(PolledIds) <= Cardinality(Busy)
  BY <1>1, <1>4, FS_Surjection
<1>6. Cardinality(Busy) \in Nat /\ Cardinality(PolledIds) \in Nat
  BY <1>4, <1>5, FS_CardinalityType
<1> QED BY <1>3, <1>4, <1>5, <1>6

LEMMA SessionInit == Init => Session!Init
<1> SUFFICES ASSUME Init PROVE Session!Init
  OBVIOUS
<1>1. QueuedIds = {} /\ PolledIds = {}
  BY DEF Init, QueuedIds, PolledIds, Polling
<1> QED BY <1>1, PhaseIs DEF PhaseOf, Session!Init

\* What leaves the channel and the workers alone is a stutter.
LEMMA SessionStutter ==
  ASSUME UNCHANGED <<jobs, running, step>>
  PROVE  Phase' = Phase
<1>1. QueuedIds' = QueuedIds /\ PolledIds' = PolledIds
  BY DEF QueuedIds, PolledIds, Polling
<1> QED BY <1>1, PhaseIs

LEMMA PushIsQueue ==
  ASSUME TypeOK, Exclusion, EnqueuePush
  PROVE  Session!Next
<1>1. PICK r \in Foremost : EnqueuePush!(r)
  BY DEF EnqueuePush
<1> DEFINE u == r.job.id
<1>2. /\ u \in User
      /\ u \notin QueuedIds /\ u \notin PolledIds
      /\ QueuedIds' = QueuedIds \cup {u}
      /\ PolledIds' = PolledIds
  BY <1>1, PushIds
<1>3. Len(jobs) < Cap /\ Len(jobs) \in Nat
  BY <1>1 DEF TypeOK
<1> HIDE DEF u
<1>4. Phase[u] = "resting" /\ Phase' = [Phase EXCEPT ![u] = "queued"]
  BY <1>2, PhaseIs DEF PhaseOf
<1>5. Cardinality(Session!InPhase("queued")) < Cap
  BY <1>3, InPhaseIs, QueueFits, CapIsNat
<1>6. Session!Queue(u)
  BY <1>4, <1>5, SessionCardinality DEF Session!Queue
<1> QED BY <1>2, <1>6 DEF Session!Next

LEMMA TakeIsStart ==
  ASSUME TypeOK, Exclusion, NEW w \in Worker, Take(w)
  PROVE  Session!Next
<1> DEFINE u == Head(jobs).id
<1>1. /\ u \notin QueuedIds' /\ u \notin PolledIds
      /\ QueuedIds = QueuedIds' \cup {u}
      /\ PolledIds' = PolledIds \cup {u}
  BY TakeIds
<1> HIDE DEF u
<1>2. u \in User
  BY <1>1, InPhaseIs
<1>3. Phase[u] = "queued" /\ Phase' = [Phase EXCEPT ![u] = "polled"]
  BY <1>1, <1>2, PhaseIs DEF PhaseOf
<1>4. Cardinality(Session!InPhase("polled")) < Cardinality(Worker)
  BY InPhaseIs, WorkersSuffice DEF Take, Polling
<1>5. Session!Start(u)
  BY <1>3, <1>4, SessionCardinality DEF Session!Start
<1> QED BY <1>2, <1>5 DEF Session!Next

LEMMA ReleaseIsEnd ==
  ASSUME TypeOK, Exclusion, NEW w \in Worker, Release(w)
  PROVE  Session!Next
<1> DEFINE u == running[w].id
<1>1. /\ u \in PolledIds /\ u \notin QueuedIds
      /\ PolledIds' = PolledIds \ {u}
      /\ QueuedIds' = QueuedIds
  BY ReleaseIds
<1> HIDE DEF u
<1>2. u \in User
  BY <1>1, InPhaseIs
<1>3. Phase[u] = "polled" /\ Phase' = [Phase EXCEPT ![u] = "resting"]
  BY <1>1, <1>2, PhaseIs DEF PhaseOf
<1> QED BY <1>2, <1>3 DEF Session!End, Session!Next

\* A worker that polls keeps its job until it is done.
LEMMA PollIsStutter ==
  ASSUME TypeOK, NEW w \in Worker, PollEnds(w)
  PROVE  Phase' = Phase
<1>1. /\ \A v \in Worker : Polling(v)' <=> Polling(v)
      /\ UNCHANGED <<jobs, running>>
  BY DEF PollEnds, PollSucceeds, PollFails, PollRejected, PollAbandoned, Return, Polling, TypeOK
<1>2. PolledIds' = PolledIds /\ QueuedIds' = QueuedIds
  BY <1>1 DEF PolledIds, QueuedIds
<1> QED BY <1>2, PhaseIs

LEMMA SessionStep == TypeOK /\ Exclusion /\ [Next]_vars => [Session!Next]_Phase
<1> SUFFICES ASSUME TypeOK, Exclusion, [Next]_vars PROVE Session!Next \/ Phase' = Phase
  OBVIOUS
<1> USE DEF rows, scheduler, workers, machinery
<1>1. CASE Enqueue
  <2>1. CASE EnqueuePush
    BY <2>1, PushIsQueue
  <2>2. CASE ~ EnqueuePush
    BY <1>1, <2>2, SessionStutter
    DEF Enqueue, EnqueueBegin, EnqueueLoad, EnqueueError, EnqueueSkip, EnqueueFull
  <2> QED BY <2>1, <2>2
<1>2. ASSUME NEW w \in Worker, Work(w) PROVE Session!Next \/ Phase' = Phase
  BY <1>2, TakeIsStart, PollIsStutter, ReleaseIsEnd DEF Work
<1>3. CASE Control
  BY <1>3, SessionStutter
  DEF Control, Bind, SetStatus, ScheduleNow, Remove, SetGlobalPaused
<1>4. CASE Tick
  BY <1>4, SessionStutter DEF Tick
<1>5. CASE UNCHANGED vars
  BY <1>5, SessionStutter DEF vars
<1> QED BY <1>1, <1>2, <1>3, <1>4, <1>5 DEF Next

\* For any number of users and workers every step of enqueue and of the workers
\* is a step of PollSession: an account is queued at rest and within the capacity
\* of the channel, polled once by a worker that has no other, and at rest again.
THEOREM SchedulerImplementsSession == Spec => ImplementsPollSession
<1>1. Init => Session!Init
  BY SessionInit
<1>2. TypeOK /\ Exclusion /\ [Next]_vars => [Session!Next]_Phase
  BY SessionStep
<1> QED BY <1>1, <1>2, TypeCorrect, ExclusionHolds, PTL
        DEF Spec, ImplementsPollSession, Session!Spec
=============================================================================
