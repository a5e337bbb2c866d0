------------------------------- MODULE Poller -------------------------------
(***************************************************************************)
(* poll and handleError of internal/manager/poller.go, statement by        *)
(* statement: every call of the forum, of the store and of Telegram is a   *)
(* step, so that commands, the forum and other polls can come in between.  *)
(* All of a poll works on the snapshot job, which is never read again.     *)
(*                                                                         *)
(* At most one poll per user runs at a time (module Dispatch proves it),   *)
(* so the local variables of poll are functions on User.  The row that     *)
(* enqueue has read and not yet handed over may be a second snapshot of    *)
(* the same user: batch.                                                   *)
(***************************************************************************)
EXTENDS Store

CONSTANTS
  MaxPages,    \* the 10 of poll
  NoJob,       \* no snapshot
  MaxFaults    \* bound of the model: failing calls and crashes

ASSUME PollerAssumption ==
  /\ MaxPages \in Nat \ {0}
  /\ MaxFaults \in Nat

VARIABLES
  batch,       \* [User -> Job \cup {NoJob}]: rows of enqueue's loop
  pc,          \* [User -> Step]: where poll is
  job,         \* [User -> Job \cup {NoJob}]: poll's argument a
  page,        \* [User -> Nat]
  items,       \* [User -> Seq(Notification)]: the rest of the page, newest first
  more,        \* [User -> BOOLEAN]: result.HasNext
  fresh,       \* [User -> Seq(Notification)]: oldest first, the order of sending
  first,       \* [User -> BOOLEAN]: MarkRebind's result
  faults,      \* the faults so far
  sent,        \* [User -> SUBSET Notification]: what Telegram delivered
  repeats,     \* [User -> Nat]: deliveries of something delivered before
  strays,      \* [User -> Nat]: deliveries since the user's row was deleted
  alerts       \* [User -> Nat]: authentication warnings delivered

Job == [forum : ForumUser, cookie : Cookie]

Step == {"rest", "fetch", "check", "send", "record", "retry", "mark", "markWrite",
         "alert", "trip"}

locals == <<job, page, items, more, fresh, first>>
ghosts == <<sent, repeats, strays, alerts>>
poller == <<batch, pc, locals, faults, ghosts>>

PollerTypeOK ==
  /\ batch \in [User -> Job \cup {NoJob}]
  /\ pc \in [User -> Step]
  /\ job \in [User -> Job \cup {NoJob}]
  /\ \A u \in User : pc[u] # "rest" => job[u] \in Job
  /\ page \in [User -> 1 .. MaxPages]
  /\ items \in [User -> Seq(Notification)]
  /\ more \in [User -> BOOLEAN]
  /\ fresh \in [User -> Seq(Notification)]
  /\ first \in [User -> BOOLEAN]
  /\ faults \in 0 .. MaxFaults
  /\ sent \in [User -> SUBSET Notification]
  /\ repeats \in [User -> Nat]
  /\ strays \in [User -> Nat]
  /\ alerts \in [User -> Nat]

\* Nothing is queued or polled.
PollerIdle ==
  /\ batch = [u \in User |-> NoJob]
  /\ pc = [u \in User |-> "rest"]
  /\ job = [u \in User |-> NoJob]
  /\ page = [u \in User |-> 1]
  /\ items = [u \in User |-> <<>>]
  /\ more = [u \in User |-> FALSE]
  /\ fresh = [u \in User |-> <<>>]
  /\ first = [u \in User |-> FALSE]

\* The end of the process: every queued or running poll is gone.
ForgetPolls ==
  /\ batch' = [u \in User |-> NoJob]
  /\ pc' = [u \in User |-> "rest"]
  /\ job' = [u \in User |-> NoJob]
  /\ page' = [u \in User |-> 1]
  /\ items' = [u \in User |-> <<>>]
  /\ more' = [u \in User |-> FALSE]
  /\ fresh' = [u \in User |-> <<>>]
  /\ first' = [u \in User |-> FALSE]

PollerInit ==
  /\ PollerIdle
  /\ faults = 0
  /\ sent = [u \in User |-> {}]
  /\ repeats = [u \in User |-> 0]
  /\ strays = [u \in User |-> 0]
  /\ alerts = [u \in User |-> 0]

-----------------------------------------------------------------------------
Goto(u, s) == pc' = [pc EXCEPT ![u] = s]

At(u, s) == pc[u] = s

Fault == faults < MaxFaults /\ faults' = faults + 1

ReturnMissing(u) ==   \* mutant: poll goes on after an error it has handled
  /\ job' = [job EXCEPT ![u] = NoJob]
  /\ UNCHANGED <<batch, pc, page, items, more, fresh, first>>

\* poll returns: the worker clears the mark and forgets its locals.
Return(u) ==
  /\ Goto(u, "rest")
  /\ job' = [job EXCEPT ![u] = NoJob]
  /\ page' = [page EXCEPT ![u] = 1]
  /\ items' = [items EXCEPT ![u] = <<>>]
  /\ more' = [more EXCEPT ![u] = FALSE]
  /\ fresh' = [fresh EXCEPT ![u] = <<>>]
  /\ first' = [first EXCEPT ![u] = FALSE]
  /\ UNCHANGED batch

-----------------------------------------------------------------------------
(* enqueue.  Dispatch has its rounds, limits and queue; here one row of    *)
(* Due may wait in the loop for any time before it becomes a job.          *)

ReadDue(u) ==
  /\ ~ globalPause
  /\ u \in Due
  /\ batch[u] = NoJob
  /\ batch' = [batch EXCEPT ![u] = [forum |-> account[u].forum, cookie |-> account[u].cookie]]
  /\ UNCHANGED <<store, forum, pc, locals, faults, ghosts>>

\* The user is in flight.
PassOver(u) ==
  /\ batch[u] # NoJob
  /\ ~ At(u, "rest")
  /\ batch' = [batch EXCEPT ![u] = NoJob]
  /\ UNCHANGED <<store, forum, pc, locals, faults, ghosts>>

StartPoll(u) ==
  /\ batch[u] # NoJob
  /\ At(u, "rest")
  /\ job' = [job EXCEPT ![u] = batch[u]]
  /\ batch' = [batch EXCEPT ![u] = NoJob]
  /\ Goto(u, "fetch")
  /\ UNCHANGED <<store, forum, page, items, more, fresh, first, faults, ghosts>>

-----------------------------------------------------------------------------
(* The pages, until one holds a notification that was seen before.         *)

FetchPage(u) ==
  /\ At(u, "fetch")
  /\ job[u].cookie \in live
  /\ items' = [items EXCEPT ![u] = PageItems(job[u].forum, page[u])]
  /\ more' = [more EXCEPT ![u] = HasNext(job[u].forum, page[u])]
  /\ Goto(u, "check")
  /\ UNCHANGED <<store, forum, batch, job, page, fresh, first, faults, ghosts>>

FetchRefusedForNow(u) ==   \* mutant: a refused cookie is retried
  /\ At(u, "fetch")
  /\ job[u].cookie \notin live
  /\ Goto(u, "retry")
  /\ UNCHANGED <<store, forum, batch, locals, faults, ghosts>>

\* ErrAuthentication.
FetchRefused(u) ==
  /\ At(u, "fetch")
  /\ job[u].cookie \notin live
  /\ Goto(u, "mark")
  /\ UNCHANGED <<store, forum, batch, locals, faults, ghosts>>

\* ErrPageStructure, or any other error (the network, HTTP 429, HTTP 5xx).
FetchFails(u) ==
  /\ At(u, "fetch")
  /\ Fault
  /\ \E s \in {"trip", "retry"} : Goto(u, s)
  /\ UNCHANGED <<store, forum, batch, locals, ghosts>>

CheckNewLast(u) ==   \* mutant: the newest is sent first
  /\ At(u, "check")
  /\ items[u] # <<>>
  /\ ~ IsSeen(u, Head(items[u]))
  /\ fresh' = [fresh EXCEPT ![u] = Append(@, Head(items[u]))]
  /\ items' = [items EXCEPT ![u] = Tail(@)]
  /\ UNCHANGED <<store, forum, batch, pc, job, page, more, first, faults, ghosts>>

\* IsSeen of the next notification of the page.
CheckNew(u) ==
  /\ At(u, "check")
  /\ items[u] # <<>>
  /\ ~ IsSeen(u, Head(items[u]))
  /\ fresh' = [fresh EXCEPT ![u] = <<Head(items[u])>> \o @]
  /\ items' = [items EXCEPT ![u] = Tail(@)]
  /\ UNCHANGED <<store, forum, batch, pc, job, page, more, first, faults, ghosts>>

CheckKnown(u) ==
  /\ At(u, "check")
  /\ items[u] # <<>>
  /\ IsSeen(u, Head(items[u]))
  /\ items' = [items EXCEPT ![u] = <<>>]
  /\ Goto(u, "send")
  /\ UNCHANGED <<store, forum, batch, job, page, more, fresh, first, faults, ghosts>>

CheckFails(u) ==
  /\ At(u, "check")
  /\ items[u] # <<>>
  /\ Fault
  /\ Goto(u, "retry")
  /\ UNCHANGED <<store, forum, batch, locals, ghosts>>

TurnPageNever(u) ==   \* mutant: only the first page is read
  /\ At(u, "check")
  /\ items[u] = <<>>
  /\ Goto(u, "send")
  /\ UNCHANGED <<store, forum, batch, job, page, items, more, fresh, first, faults, ghosts>>

\* The page held nothing known.
TurnPage(u) ==
  /\ At(u, "check")
  /\ items[u] = <<>>
  /\ IF more[u] /\ page[u] < MaxPages
     THEN /\ page' = [page EXCEPT ![u] = @ + 1]
          /\ Goto(u, "fetch")
     ELSE /\ Goto(u, "send")
          /\ UNCHANGED page
  /\ UNCHANGED <<store, forum, batch, job, items, more, fresh, first, faults, ghosts>>

-----------------------------------------------------------------------------
(* The deliveries, oldest first, each one recorded before the next.        *)

Deliver(u, n) ==
  /\ sent' = [sent EXCEPT ![u] = @ \cup {n}]
  /\ repeats' = IF n \in sent[u] THEN [repeats EXCEPT ![u] = @ + 1] ELSE repeats
  /\ strays' = IF Bound(u) THEN strays ELSE [strays EXCEPT ![u] = @ + 1]
  /\ UNCHANGED alerts

Send(u) ==
  /\ At(u, "send")
  /\ fresh[u] # <<>>
  /\ Deliver(u, Head(fresh[u]))
  /\ Goto(u, "record")
  /\ UNCHANGED <<store, forum, batch, locals, faults>>

SendFailsUnnoticed(u) ==   \* mutant: the error of SendHTML is dropped
  /\ At(u, "send")
  /\ fresh[u] # <<>>
  /\ Fault
  /\ Deliver(u, Head(fresh[u])) \/ UNCHANGED ghosts
  /\ Goto(u, "record")
  /\ UNCHANGED <<store, forum, batch, locals>>

\* SendHTML returned an error, which may have come after the delivery.
SendFails(u) ==
  /\ At(u, "send")
  /\ fresh[u] # <<>>
  /\ Fault
  /\ Deliver(u, Head(fresh[u])) \/ UNCHANGED ghosts
  /\ Goto(u, "retry")
  /\ UNCHANGED <<store, forum, batch, locals>>

Record(u) ==
  /\ At(u, "record")
  /\ AddSeen(u, Head(fresh[u]))
  /\ fresh' = [fresh EXCEPT ![u] = Tail(@)]
  /\ Goto(u, "send")
  /\ UNCHANGED <<account, banned, globalPause, forum, batch, job, page, items, more,
                 first, faults, ghosts>>

\* AddSeen failed, because the row is gone or the database is: poll returns
\* without a new next_poll_at.
RecordFails(u) ==
  /\ At(u, "record")
  /\ (~ Bound(u) /\ UNCHANGED faults) \/ Fault
  /\ Return(u)
  /\ UNCHANGED <<store, forum, ghosts>>

Reschedule(u) ==
  /\ \/ Schedule(u, FALSE) /\ UNCHANGED faults
     \/ Fault /\ UNCHANGED account
  /\ Return(u)
  /\ UNCHANGED <<seen, banned, globalPause, forum, ghosts>>

\* Everything is delivered.
Finish(u) ==
  /\ At(u, "send")
  /\ fresh[u] = <<>>
  /\ Reschedule(u)

-----------------------------------------------------------------------------
(* handleError.                                                            *)

\* Back off.
Retry(u) ==
  /\ At(u, "retry")
  /\ Reschedule(u)

MarkReadAnyway(u) ==   \* mutant: auth_alerted is not looked at
  /\ At(u, "mark")
  /\ IF Bound(u)
     THEN /\ first' = [first EXCEPT ![u] = TRUE]
          /\ Goto(u, "markWrite")
          /\ UNCHANGED <<batch, job, page, items, more, fresh>>
     ELSE Return(u)
  /\ UNCHANGED <<store, forum, faults, ghosts>>

\* MarkRebind: the row is read, and then updated.
MarkRead(u) ==
  /\ At(u, "mark")
  /\ IF Bound(u)
     THEN /\ first' = [first EXCEPT ![u] = ~ account[u].alerted]
          /\ Goto(u, "markWrite")
          /\ UNCHANGED <<batch, job, page, items, more, fresh>>
     ELSE Return(u)
  /\ UNCHANGED <<store, forum, faults, ghosts>>

MarkWrite(u) ==
  /\ At(u, "markWrite")
  /\ MarkRebind(u)
  /\ IF first[u]
     THEN Goto(u, "alert") /\ UNCHANGED <<batch, locals>>
     ELSE Return(u)
  /\ UNCHANGED <<seen, banned, globalPause, forum, faults, ghosts>>

\* Either statement of MarkRebind failed.
MarkFails(u) ==
  /\ At(u, "mark") \/ At(u, "markWrite")
  /\ Fault
  /\ Return(u)
  /\ UNCHANGED <<store, forum, ghosts>>

\* The warning; nobody looks whether it arrived.
Alert(u) ==
  /\ At(u, "alert")
  /\ \/ alerts' = [alerts EXCEPT ![u] = @ + 1] /\ UNCHANGED faults
     \/ Fault /\ UNCHANGED alerts
  /\ Return(u)
  /\ UNCHANGED <<store, forum, sent, repeats, strays>>

\* ActivateGlobalPause, and the message to the administrators.
Trip(u) ==
  /\ At(u, "trip")
  /\ \/ globalPause' = TRUE /\ UNCHANGED faults
     \/ Fault /\ UNCHANGED globalPause
  /\ Return(u)
  /\ UNCHANGED <<account, seen, banned, forum, ghosts>>

Enqueue(u) == ReadDue(u) \/ PassOver(u) \/ StartPoll(u)

Poll(u) ==
  \/ FetchPage(u) \/ FetchRefused(u) \/ FetchFails(u)
  \/ CheckNew(u) \/ CheckKnown(u) \/ CheckFails(u) \/ TurnPage(u)
  \/ Send(u) \/ SendFails(u) \/ Record(u) \/ RecordFails(u)
  \/ Finish(u) \/ Retry(u)
  \/ MarkRead(u) \/ MarkWrite(u) \/ MarkFails(u) \/ Alert(u) \/ Trip(u)

\* next_poll_at is reached.
BecomeDue(u) ==
  /\ Bound(u)
  /\ ~ account[u].due
  /\ Schedule(u, TRUE)
  /\ UNCHANGED <<seen, banned, globalPause, forum, poller>>
=============================================================================
