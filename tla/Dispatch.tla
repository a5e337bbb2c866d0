------------------------------ MODULE Dispatch ------------------------------
(***************************************************************************)
(* The scheduler of internal/manager/poller.go: the ticker that runs       *)
(* enqueue, the buffered channel jobs, the workers, the set inFlight that  *)
(* both sides lock, and the columns of the accounts table that decide who  *)
(* is due (status, next_poll_at, failure_count).  What a worker does to    *)
(* one account is reduced here to how poll can end and what it then writes *)
(* to those columns; modules Poller and Bot hold its body.                 *)
(*                                                                         *)
(* Time is relative: wait[u] is next_poll_at - now in seconds, so that     *)
(* Tick lowers every wait and "due" is wait <= 0.  By how much an account  *)
(* is overdue matters only against the other overdue accounts, so below 0  *)
(* Tick keeps their order and their ties and not the seconds, and no more  *)
(* than MaxLate steps of it (Cardinality(User) steps lose nothing).        *)
(***************************************************************************)
EXTENDS Integers, Sequences, FiniteSets

CONSTANTS
  User,         \* Telegram ids: numbers, for the ORDER BY of Due breaks ties on them
  Worker,       \* the goroutines Run starts
  Interval,     \* POLL_INTERVAL
  Jitter,       \* the delays jitter may add to Interval
  Backoffs,     \* the sequence of retry delays of handleError
  RetryAfter,   \* the Retry-After values an HTTP 429 may carry, 0 for no 429
  Commanding,   \* bound of the model: the users whose commands are handled
  MaxLate,      \* bound of the model: how much lateness is told apart
  MaxFaults,    \* bound of the model: store errors and page-structure errors
  NoJob         \* what a worker holds between two polls

ASSUME DispatchAssumption ==
  /\ User \subseteq Nat
  /\ IsFiniteSet(User)
  /\ IsFiniteSet(Worker)
  /\ Interval \in Nat
  /\ Jitter \subseteq Nat
  /\ Backoffs \in Seq(Nat)
  /\ Backoffs # <<>>
  /\ RetryAfter \subseteq Nat
  /\ Commanding \subseteq User
  /\ MaxLate \in Nat
  /\ MaxFaults \in Nat

VARIABLES
  status,       \* [User -> Status]: the column, or "unbound" when there is no row
  wait,         \* [User -> Int]: next_poll_at relative to now
  failures,     \* failure_count; counts past the last backoff act alike and are one
  globalPause,  \* the row global_pause of runtime_settings
  round,        \* where enqueue is: "idle", "load", "push"
  batch,        \* the rows Due returned and enqueue has not handled yet
  jobs,         \* the buffered channel
  inFlight,     \* the ids in the map inFlight
  running,      \* [Worker -> Job \cup {NoJob}]: the argument of poll
  step,         \* [Worker -> {"idle", "poll", "done"}]
  faults        \* how many store and page-structure errors there were

rows == <<status, wait, failures, globalPause>>
scheduler == <<round, batch>>
workers == <<running, step>>
vars == <<rows, scheduler, jobs, inFlight, workers, faults>>

Status == {"unbound", "active", "paused", "rebind_required"}

\* The Account value that goes from Due through the channel to poll: read once,
\* never refreshed.  Due returns a list of them: a set of rows with their places.
Job == [id : User, failures : 0 .. Len(Backoffs)]
Row == [job : Job, place : Nat]

Cap == 2 * Cardinality(Worker)

TypeOK ==
  /\ status \in [User -> Status]
  /\ wait \in [User -> Int]
  /\ failures \in [User -> 0 .. Len(Backoffs)]
  /\ globalPause \in BOOLEAN
  /\ round \in {"idle", "load", "push"}
  /\ batch \in SUBSET Row
  /\ jobs \in Seq(Job)
  /\ Len(jobs) <= Cap
  /\ inFlight \in SUBSET User
  /\ running \in [Worker -> Job \cup {NoJob}]
  /\ step \in [Worker -> {"idle", "poll", "done"}]
  /\ \A w \in Worker : step[w] # "idle" => running[w] \in Job
  /\ faults \in 0 .. MaxFaults

\* The process starts on the rows that the one before it left.
Init ==
  /\ status \in [User -> Status]
  /\ wait = [u \in User |-> 0]
  /\ failures = [u \in User |-> 0]
  /\ globalPause \in BOOLEAN
  /\ round = "idle"
  /\ batch = {}
  /\ jobs = <<>>
  /\ inFlight = {}
  /\ running = [w \in Worker |-> NoJob]
  /\ step = [w \in Worker |-> "idle"]
  /\ faults = 0

-----------------------------------------------------------------------------
(* The query of Due: the Cap earliest active accounts whose time has come. *)

DueUsers == {u \in User : status[u] = "active" /\ wait[u] <= 0}

DueBeforeById(u, v) == u < v   \* mutant: the rows in the order of the table

DueBefore(u, v) == wait[u] < wait[v] \/ (wait[u] = wait[v] /\ u < v)

Place(u) == Cardinality({v \in DueUsers : DueBefore(v, u)})

DueRows ==
  {[job |-> [id |-> u, failures |-> failures[u]], place |-> Place(u)] :
     u \in {v \in DueUsers : Place(v) < Cap}}

\* The rows of the batch that the loop of enqueue may reach next: the first one.
Foremost == {r \in batch : \A q \in batch : r.place <= q.place}

-----------------------------------------------------------------------------
(* enqueue, run at start-up and on every tick.                             *)

EnqueueBeginAnyway ==   \* mutant: the pause is not looked at
  /\ round = "idle"
  /\ round' = "load"
  /\ UNCHANGED <<rows, batch, jobs, inFlight, workers, faults>>

\* GlobalPaused is read first, and a paused round ends there.
EnqueueBegin ==
  /\ round = "idle"
  /\ ~globalPause
  /\ round' = "load"
  /\ UNCHANGED <<rows, batch, jobs, inFlight, workers, faults>>

\* Due is read once for the whole round.
EnqueueLoad ==
  /\ round = "load"
  /\ batch' = DueRows
  /\ round' = IF DueRows = {} THEN "idle" ELSE "push"
  /\ UNCHANGED <<rows, jobs, inFlight, workers, faults>>

\* Due failed: the round is over.
EnqueueError ==
  /\ round = "load"
  /\ faults < MaxFaults
  /\ faults' = faults + 1
  /\ round' = "idle"
  /\ UNCHANGED <<rows, batch, jobs, inFlight, workers>>

Leave(b) ==
  /\ batch' = b
  /\ round' = IF b = {} THEN "idle" ELSE "push"

\* An account that is queued or being polled is passed over.
EnqueueSkip ==
  \E r \in Foremost :
    /\ r.job.id \in inFlight
    /\ Leave(batch \ {r})
    /\ UNCHANGED <<rows, jobs, inFlight, workers, faults>>

EnqueuePushTwice ==   \* mutant: the check and the mark are not one step
  \E r \in Foremost :
    /\ Len(jobs) < Cap
    /\ jobs' = Append(jobs, r.job)
    /\ inFlight' = inFlight \cup {r.job.id}
    /\ Leave(batch \ {r})
    /\ UNCHANGED <<rows, workers, faults>>

EnqueuePushBeyond ==   \* mutant: the channel has no capacity
  \E r \in Foremost :
    /\ r.job.id \notin inFlight
    /\ jobs' = Append(jobs, r.job)
    /\ inFlight' = inFlight \cup {r.job.id}
    /\ Leave(batch \ {r})
    /\ UNCHANGED <<rows, workers, faults>>

\* The account is marked and its snapshot sent to the channel.
EnqueuePush ==
  \E r \in Foremost :
    /\ r.job.id \notin inFlight
    /\ Len(jobs) < Cap
    /\ jobs' = Append(jobs, r.job)
    /\ inFlight' = inFlight \cup {r.job.id}
    /\ Leave(batch \ {r})
    /\ UNCHANGED <<rows, workers, faults>>

EnqueueFullMarked ==   \* mutant: the default branch leaves the mark behind
  \E r \in Foremost :
    /\ r.job.id \notin inFlight
    /\ Len(jobs) >= Cap
    /\ inFlight' = inFlight \cup {r.job.id}
    /\ Leave({})
    /\ UNCHANGED <<rows, jobs, workers, faults>>

\* The channel is full: the mark is taken back and the round given up.
EnqueueFull ==
  \E r \in Foremost :
    /\ r.job.id \notin inFlight
    /\ Len(jobs) >= Cap
    /\ Leave({})
    /\ UNCHANGED <<rows, jobs, inFlight, workers, faults>>

Enqueue ==
  EnqueueBegin \/ EnqueueLoad \/ EnqueueError \/ EnqueueSkip \/ EnqueuePush \/ EnqueueFull

-----------------------------------------------------------------------------
(* A worker: take a job, poll, clear the mark.                             *)

TakeAndRelease(w) ==   \* mutant: the mark is cleared before the poll
  /\ step[w] = "idle"
  /\ jobs # <<>>
  /\ running' = [running EXCEPT ![w] = Head(jobs)]
  /\ step' = [step EXCEPT ![w] = "poll"]
  /\ inFlight' = inFlight \ {Head(jobs).id}
  /\ jobs' = Tail(jobs)
  /\ UNCHANGED <<rows, scheduler, faults>>

Take(w) ==
  /\ step[w] = "idle"
  /\ jobs # <<>>
  /\ running' = [running EXCEPT ![w] = Head(jobs)]
  /\ step' = [step EXCEPT ![w] = "poll"]
  /\ jobs' = Tail(jobs)
  /\ UNCHANGED <<rows, scheduler, inFlight, faults>>

Return(w) ==
  /\ step[w] = "poll"
  /\ step' = [step EXCEPT ![w] = "done"]
  /\ UNCHANGED <<scheduler, jobs, inFlight, running>>

\* Schedule updates the row if there is one, without looking at its status.
Schedule(u, delay, count) ==
  /\ wait' = IF status[u] = "unbound" THEN wait ELSE [wait EXCEPT ![u] = delay]
  /\ failures' = IF status[u] = "unbound" THEN failures ELSE [failures EXCEPT ![u] = count]

PollSucceeds(w) ==
  /\ Return(w)
  /\ \E j \in Jitter : Schedule(running[w].id, Interval + j, 0)
  /\ UNCHANGED <<status, globalPause, faults>>

\* handleError's backoff: one more failure than the snapshot had.
NextCount(count) == IF count < Len(Backoffs) THEN count + 1 ELSE count

Delay(count, retryAfter) ==
  IF retryAfter > Backoffs[count] THEN retryAfter ELSE Backoffs[count]

PollFails(w) ==
  /\ Return(w)
  /\ LET count == NextCount(running[w].failures)
     IN  \E r \in RetryAfter : Schedule(running[w].id, Delay(count, r), count)
  /\ UNCHANGED <<status, globalPause, faults>>

\* The forum refused the cookie: MarkRebind.
PollRejected(w) ==
  /\ Return(w)
  /\ LET u == running[w].id
     IN  status' = IF status[u] = "unbound" THEN status
                   ELSE [status EXCEPT ![u] = "rebind_required"]
  /\ UNCHANGED <<wait, failures, globalPause, faults>>

\* The page structure changed, which pauses everybody, or the store failed:
\* either way no row is rescheduled.
PollAbandoned(w) ==
  /\ Return(w)
  /\ faults < MaxFaults
  /\ faults' = faults + 1
  /\ globalPause' \in {globalPause, TRUE}
  /\ UNCHANGED <<status, wait, failures>>

ReleaseNothing(w) ==   \* mutant: a path out of poll keeps the mark
  /\ step[w] = "done"
  /\ running' = [running EXCEPT ![w] = NoJob]
  /\ step' = [step EXCEPT ![w] = "idle"]
  /\ UNCHANGED <<rows, scheduler, jobs, inFlight, faults>>

Release(w) ==
  /\ step[w] = "done"
  /\ inFlight' = inFlight \ {running[w].id}
  /\ running' = [running EXCEPT ![w] = NoJob]
  /\ step' = [step EXCEPT ![w] = "idle"]
  /\ UNCHANGED <<rows, scheduler, jobs, faults>>

PollEnds(w) ==
  PollSucceeds(w) \/ PollFails(w) \/ PollRejected(w) \/ PollAbandoned(w)

-----------------------------------------------------------------------------
(* The controller's writes to the same rows, each one statement, and time. *)

machinery == <<scheduler, jobs, inFlight, workers, faults>>

\* Store.Bind: a new row, or the old one made active and due at once.
Bind(u) ==
  /\ status' = [status EXCEPT ![u] = "active"]
  /\ wait' = [wait EXCEPT ![u] = 0]
  /\ failures' = [failures EXCEPT ![u] = 0]
  /\ UNCHANGED <<globalPause, machinery>>

\* SetStatus, for /pause and /resume.  The handler looked at the status in an
\* earlier statement, so the update may land on any row that is still there.
SetStatus(u) ==
  /\ status[u] # "unbound"
  /\ \E s \in {"active", "paused"} : status' = [status EXCEPT ![u] = s]
  /\ UNCHANGED <<wait, failures, globalPause, machinery>>

\* The second statement of /resume: Schedule for now.
ScheduleNow(u) ==
  /\ status[u] # "unbound"
  /\ Schedule(u, 0, 0)
  /\ UNCHANGED <<status, globalPause, machinery>>

\* Store.Unbind and Store.Ban delete the row; its columns go with it.
Remove(u) ==
  /\ status' = [status EXCEPT ![u] = "unbound"]
  /\ wait' = [wait EXCEPT ![u] = 0]
  /\ failures' = [failures EXCEPT ![u] = 0]
  /\ UNCHANGED <<globalPause, machinery>>

\* /admin_pause and /admin_resume.
SetGlobalPaused ==
  /\ globalPause' = ~globalPause
  /\ UNCHANGED <<status, wait, failures, machinery>>

\* The accounts at most as late as u, u among them.
LateAs(w, u) == {v \in User : w[u] <= w[v] /\ w[v] < 0}

Lateness(w, u) ==
  IF Cardinality(LateAs(w, u)) < MaxLate THEN Cardinality(LateAs(w, u)) ELSE MaxLate

\* One second passes.
Tick ==
  /\ LET w == [u \in User |-> wait[u] - 1]
     IN  wait' = [u \in User |-> IF w[u] >= 0 THEN w[u] ELSE -Lateness(w, u)]
  /\ wait' # wait
  /\ UNCHANGED <<status, failures, globalPause, machinery>>

Control ==
  \/ \E u \in Commanding : Bind(u) \/ SetStatus(u) \/ ScheduleNow(u) \/ Remove(u)
  \/ SetGlobalPaused

Work(w) == Take(w) \/ PollEnds(w) \/ Release(w)

Next == Enqueue \/ (\E w \in Worker : Work(w)) \/ Control \/ Tick

Spec == Init /\ [][Next]_vars

(***************************************************************************)
(* Fairness: the runtime schedules every goroutine, the ticker fires, time *)
(* passes, and a poll returns because every request it makes has a timeout *)
(* (http.Client.Timeout, the Bot API client, the bounded cool-down).       *)
(***************************************************************************)
Fairness ==
  /\ WF_vars(Enqueue)
  /\ WF_vars(Tick)
  /\ \A w \in Worker : WF_vars(Work(w))

FairSpec == Spec /\ Fairness

-----------------------------------------------------------------------------
(* What the scheduler has to get right.                                    *)

QueuedIds == {jobs[i].id : i \in 1 .. Len(jobs)}
Polling(w) == step[w] # "idle"
PolledIds == {running[w].id : w \in {v \in Worker : Polling(v)}}

\* No account is queued twice, polled by two workers, or queued while it is
\* polled: the check of inFlight in enqueue and its removal by the worker
\* exclude each other whatever snapshot enqueue acts on.
OnePollPerAccount ==
  /\ \A i, j \in 1 .. Len(jobs) : jobs[i].id = jobs[j].id => i = j
  /\ \A v, w \in Worker : Polling(v) /\ Polling(w) /\ running[v].id = running[w].id => v = w
  /\ QueuedIds \cap PolledIds = {}

\* inFlight holds exactly the accounts that are queued or polled: no mark is
\* left behind on the full-channel path or by a worker, which would keep the
\* account from ever being polled again.
InFlightIsExact == inFlight = QueuedIds \cup PolledIds

\* An account that stays due while polling is not paused is claimed again and
\* again, however many other accounts there are and whatever their owners do:
\* enqueue serves by next_poll_at.  (Its own /resume or /bind sends it back to
\* the end of the line; that has to stop.)
DueAccountIsClaimed ==
  \A u \in User :
    /\ <>[](u \in DueUsers \cup inFlight /\ ~globalPause)
    /\ <>[][wait'[u] # 0 \/ wait[u] > 0]_wait
    => []<>(u \in inFlight)

\* A claimed account is eventually given back, on every path out of poll.
ClaimIsReleased == \A u \in User : u \in inFlight ~> u \notin inFlight

\* Once an administrator or the circuit breaker has paused polling for good,
\* what was queued or polled drains and nothing follows.
PauseQuiesces == <>[]globalPause => <>[](inFlight = {})

\* README.md:70 "网络错误采用 1、2、4、8、15 分钟退避": a poll of an account that last
\* failed starts no earlier than the next_poll_at which handleError gave it.
BackoffIsKept ==
  [][\A w \in Worker :
       step[w] = "idle" /\ step'[w] = "poll" /\ failures[running'[w].id] > 0
         => wait[running'[w].id] <= 0]_vars

-----------------------------------------------------------------------------
(* The scheduler implements PollSession.                                   *)

Phase ==
  [u \in User |-> CASE u \in PolledIds -> "polled"
                    [] u \in QueuedIds \ PolledIds -> "queued"
                    [] OTHER -> "resting"]

Session == INSTANCE PollSession
             WITH Account <- User, Capacity <- Cap,
                  Parallelism <- Cardinality(Worker), phase <- Phase

\* Every step of the scheduler is a step of PollSession or leaves it alone.
ImplementsPollSession == Session!Spec
=============================================================================
