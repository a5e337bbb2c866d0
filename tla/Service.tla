------------------------------- MODULE Service -------------------------------
(***************************************************************************)
(* main.run of cmd/sb-manager-bot/main.go: it opens the store, refuses to  *)
(* start with cookies that the key does not open, starts the poller, the   *)
(* update workers and the health server, and on a signal stops them in     *)
(* order before it closes the store.  The updates are those of module      *)
(* Updates; of a poll only matters here that it uses the store.            *)
(***************************************************************************)
EXTENDS Updates

VARIABLES
  phase,       \* where run is
  polling,     \* after the cancellation: a poll worker has not returned yet
  probing,     \* after the cancellation: /readyz is still being answered
  late,        \* the ten seconds of the shutdown were over before its end
  stops

run == <<phase, polling, probing, late, stops>>
vars == <<updates, run>>

Phase == {"down", "up", "draining", "waiting", "closed"}

TypeOK ==
  /\ UpdatesTypeOK
  /\ phase \in Phase
  /\ polling \in BOOLEAN
  /\ probing \in BOOLEAN
  /\ late \in BOOLEAN
  /\ stops \in 0 .. MaxStops

Init ==
  /\ UpdatesInit
  /\ phase = "down"
  /\ polling = FALSE
  /\ probing = FALSE
  /\ late = FALSE
  /\ stops = 0

Goto(p) == phase' = p

Running == phase \in {"up", "draining", "waiting", "closed"}

-----------------------------------------------------------------------------
(* Start.                                                                  *)

\* With a key that opens every stored cookie, or it ends at once.
Start ==
  /\ phase = "down"
  /\ StartUpdates
  /\ Goto("up")
  /\ UNCHANGED <<polling, probing, late, stops>>

-----------------------------------------------------------------------------
(* The services.  The two loops end with the context; what a worker has    *)
(* begun it finishes, with calls that fail.                                *)

UpdateStep(w) ==
  /\ \/ Running /\ (Take(w) \/ Admit(w) \/ TurnAway(w) \/ Press(w) \/ Ignore(w)
                    \/ Act(w) \/ Refuse(w) \/ RecordFails(w))
     \/ phase = "up" /\ Record(w)
     \/ phase # "up" /\ (Abandon(w) \/ WorkerReturns(w))
  /\ UNCHANGED run

ReceiveStep == phase = "up" /\ Receive /\ UNCHANGED run

\* Its calls have failed, and the worker returns.
PollEnds ==
  /\ polling
  /\ polling' = FALSE
  /\ UNCHANGED <<updates, phase, probing, late, stops>>

\* Writable returned.
ProbeEnds ==
  /\ probing
  /\ probing' = FALSE
  /\ UNCHANGED <<updates, phase, polling, late, stops>>

-----------------------------------------------------------------------------
(* The end.                                                                *)

\* A signal, or the health server failed: the context is cancelled, with a poll
\* and a probe under way.
Signal ==
  /\ phase = "up"
  /\ stops < MaxStops
  /\ stops' = stops + 1
  /\ Goto("draining")
  /\ polling' = TRUE
  /\ probing' = TRUE
  /\ UNCHANGED <<updates, late>>

\* server.Shutdown returns: no request is being answered.
Drained ==
  /\ phase = "draining"
  /\ ~ probing
  /\ Goto("waiting")
  /\ UNCHANGED <<updates, polling, probing, late, stops>>

\* Both services have returned.
ServicesDone == ~ polling /\ \A w \in Worker : stage[w] = "gone"

CloseWithoutPoller ==   \* mutant: services.Add(1), for Telegram only
  /\ phase = "waiting"
  /\ \A w \in Worker : stage[w] = "gone"
  /\ Goto("closed")
  /\ UNCHANGED <<updates, polling, probing, late, stops>>

\* services.Wait returns, and the deferred Close runs.
Close ==
  /\ phase = "waiting"
  /\ ServicesDone
  /\ Goto("closed")
  /\ UNCHANGED <<updates, polling, probing, late, stops>>

\* shutdownCtx is over first, in Shutdown or in the select after it.
TimeOut ==
  /\ phase \in {"draining", "waiting"}
  /\ late' = TRUE
  /\ Goto(IF phase = "draining" THEN "waiting" ELSE "closed")
  /\ UNCHANGED <<updates, polling, probing, stops>>

\* main returns, and every goroutine that is left ends.
End ==
  /\ EndUpdates
  /\ Goto("down")
  /\ polling' = FALSE
  /\ probing' = FALSE
  /\ late' = FALSE

Exit == phase = "closed" /\ End /\ UNCHANGED stops

Crash ==
  /\ Running
  /\ stops < MaxStops
  /\ stops' = stops + 1
  /\ End

-----------------------------------------------------------------------------
Next ==
  \/ Start
  \/ ReceiveStep
  \/ \E w \in Worker : UpdateStep(w)
  \/ RateTick /\ UNCHANGED run
  \/ PollEnds \/ ProbeEnds
  \/ Signal \/ Drained \/ Close \/ TimeOut \/ Exit \/ Crash

Spec == Init /\ [][Next]_vars

(***************************************************************************)
(* Fairness: goroutines are scheduled and every call they make ends, with  *)
(* an answer, a timeout or the context; run goes on to its end; the        *)
(* service is started again; Telegram gives what it has.  Nothing makes    *)
(* the shutdown's timeout come.                                            *)
(***************************************************************************)
FairSpec ==
  /\ Spec
  /\ \A w \in Worker : WF_vars(UpdateStep(w))
  /\ WF_vars(PollEnds)
  /\ WF_vars(ProbeEnds)
  /\ WF_vars(Drained \/ Close \/ Exit)
  /\ WF_vars(Start)
  /\ WF_vars(ReceiveStep /\ fetched' # fetched)

-----------------------------------------------------------------------------
(* What has to hold.                                                       *)

\* store_test.go:167: the offset never moves backward, although eight workers
\* finish in any order and the process ends at any time.
OffsetNeverFalls == [][stored' >= stored]_vars

\* Where an update that nobody has handled can still be.
Ahead(u) == u > Larger(confirmed, IF phase = "down" THEN InitialOffset ELSE fetched)

\* telegram.go:24: an update is handled, or will be, unless a process ended that
\* had it in its hands.
NothingIsOverlooked ==
  \A u \in Update : u \in handled \/ u \in dropped \/ u \in InHand \/ Ahead(u)

\* An update whose offset was stored is never handled a second time, by this
\* process or a later one.
RecordedIsOver ==
  [][\A w \in Worker : stage[w] = "free" /\ stage'[w] \in Kind => update'[w] \notin recorded]_vars

\* controller.go:55: a fixed window lets through more than the limit around its
\* border, but fewer than twice as much in any time as long as a window, and for
\* each end of the process in that time, which forgets the window, at most the
\* limit more.
TwiceTheLimit ==
  \A s \in Sender, q \in 0 .. MaxStops :
    ends[q + 1] = Period => ages[s][(2 + q) * Limit] = Period

\* The workers between Lock and Unlock.
Inside == {w \in Worker : stage[w] \in {"act", "refuse"}}

\* controller.go:76: of eight workers at most one handles a command of a user,
\* and no lock is held by nobody, which would be for ever.
OneHandlerPerUser ==
  /\ \A v, w \in Inside : From[update[v]] = From[update[w]] => v = w
  /\ \A l \in locked : \E w \in Inside : Lock(update[w]) = l

\* main.go:120: no statement of a poll, a handler or a probe meets a closed
\* store, unless the shutdown took too long.
CloseIsLast == phase = "closed" /\ ~ late => ServicesDone /\ ~ probing

\* Every update is handled in the end, whatever became of the workers and of the
\* processes before, unless the end of a process has cost it.
EveryUpdateEnds == \A u \in Update : <>(u \in handled \cup dropped)

\* main.go:115: a signal ends the process, without the help of the timeout.
ShutdownEnds == phase = "draining" ~> phase = "down"
=============================================================================
