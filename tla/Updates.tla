------------------------------- MODULE Updates -------------------------------
(***************************************************************************)
(* The way of an update from Telegram to a handler and into update_offset: *)
(* internal/manager/telegram.go, the locks and the rate limit of           *)
(* controller.go, UpdateOffset of store.go.  The library that asks for the *)
(* updates and hands them to its workers is external: it keeps the last id *)
(* it has seen, asks for what comes after, and Telegram forgets what it is *)
(* not asked for any more.                                                 *)
(***************************************************************************)
EXTENDS Integers, Sequences, FiniteSets, Functions

CONSTANTS
  Worker,      \* the 8 workers of the library
  MaxUpdate,   \* bound of the model: the updates are 1 .. MaxUpdate
  From,        \* [1 .. MaxUpdate -> Nat]: TelegramID
  Kinds,       \* [1 .. MaxUpdate -> SUBSET Kind]: what an update can be
  Locks,       \* the 64 of userLocks
  Limit,       \* how many commands allow admits in a window
  Period,      \* the length of the window, in ticks
  MaxStops     \* bound of the model: how often the process ends

Update == 1 .. MaxUpdate

\* A text or a button of a private chat, or something from another chat.  A text
\* is a command; a credential is counted in a map of its own by the same allow.
Kind == {"text", "button", "group"}

ASSUME UpdatesAssumption ==
  /\ MaxUpdate \in Nat
  /\ From \in [Update -> Nat]
  /\ Kinds \in [Update -> SUBSET Kind]
  /\ Locks \in Nat \ {0}
  /\ Limit \in Nat \ {0}
  /\ Period \in Nat \ {0}
  /\ MaxStops \in Nat

VARIABLES
  confirmed,   \* Telegram has forgotten the updates up to here
  stored,      \* update_offset, 0 if there is none
  fetched,     \* the library's last id
  queue,       \* Seq(Update): what no worker has taken yet
  stage,       \* [Worker -> Stage]
  update,      \* [Worker -> Update \cup {0}]
  locked,      \* the userLocks that are held
  window,      \* [Sender -> [age, count]]: c.commands
  ages,        \* [Sender -> [1 .. Depth -> 0 .. Period]]: how long ago the latest
               \* commands were admitted, by any process, the last one first
  ends,        \* [1 .. MaxStops + 1 -> 0 .. Period]: the same of the latest ends
               \* of the process
  handled,     \* the updates that were handled or refused
  recorded,    \* the updates whose UpdateOffset succeeded
  dropped      \* the updates that the end of a process has cost

Sender == {From[u] : u \in Update}

\* How many commands ages looks back.
Depth == (2 + MaxStops) * Limit

Stage == {"free", "act", "refuse", "record", "gone"} \cup Kind

api == <<confirmed, fetched, queue>>
workers == <<stage, update, locked>>
rate == <<window, ages, ends>>
fate == <<handled, recorded, dropped>>
updates == <<api, stored, workers, rate, fate>>

UpdatesTypeOK ==
  /\ confirmed \in 0 .. MaxUpdate
  /\ stored \in 0 .. (MaxUpdate + 1)
  /\ fetched \in 0 .. MaxUpdate
  /\ queue \in Seq(Update)
  /\ stage \in [Worker -> Stage]
  /\ update \in [Worker -> Update \cup {0}]
  /\ \A w \in Worker : update[w] # 0 <=> stage[w] \notin {"free", "gone"}
  /\ locked \in SUBSET (0 .. (Locks - 1))
  /\ window \in [Sender -> [age : 0 .. Period, count : 0 .. Limit]]
  /\ ages \in [Sender -> [1 .. Depth -> 0 .. Period]]
  /\ ends \in [1 .. MaxStops + 1 -> 0 .. Period]
  /\ handled \in SUBSET Update
  /\ recorded \in SUBSET Update
  /\ dropped \in SUBSET Update

NoWindow == [s \in Sender |-> [age |-> Period, count |-> 0]]

\* ages, with one that begins now.
Later(a) == [k \in DOMAIN a |-> IF k = 1 THEN 0 ELSE a[k - 1]]

UpdatesInit ==
  /\ confirmed = 0
  /\ stored = 0
  /\ fetched = 0
  /\ queue = <<>>
  /\ stage = [w \in Worker |-> "gone"]
  /\ update = [w \in Worker |-> 0]
  /\ locked = {}
  /\ window = NoWindow
  /\ ages = [s \in Sender |-> [k \in 1 .. Depth |-> Period]]
  /\ ends = [q \in 1 .. MaxStops + 1 |-> Period]
  /\ handled = {}
  /\ recorded = {}
  /\ dropped = {}

-----------------------------------------------------------------------------
(* Telegram and the library.                                               *)

Larger(m, n) == IF m > n THEN m ELSE n

\* getUpdates with the offset fetched + 1: what is below is confirmed, and what
\* has been written to the bot above it comes back, or nothing.
Receive ==
  \E n \in Larger(confirmed, fetched) .. MaxUpdate :
    LET after == Larger(confirmed, fetched)
    IN  /\ queue' = queue \o [i \in 1 .. (n - after) |-> after + i]
        /\ fetched' = IF n > after THEN n ELSE fetched
        /\ confirmed' = after
        /\ UNCHANGED <<stored, workers, rate, fate>>

InitialOffsetAsStored == stored   \* mutant: not decremented

\* WithInitialOffset: the library asks for what comes after it.
InitialOffset == IF stored > 0 THEN stored - 1 ELSE 0

\* NewTelegram and NewController of a new process.
StartUpdates ==
  /\ fetched' = InitialOffset
  /\ stage' = [w \in Worker |-> "free"]
  /\ UNCHANGED <<confirmed, stored, queue, update, locked, rate, fate>>

\* What the process has fetched and not finished.
InHand == Range(queue) \cup ({update[w] : w \in Worker} \ {0})

\* The process ends, and its rate limit with it.
EndUpdates ==
  /\ dropped' = dropped \cup (InHand \ handled)
  /\ queue' = <<>>
  /\ stage' = [w \in Worker |-> "gone"]
  /\ update' = [w \in Worker |-> 0]
  /\ fetched' = 0
  /\ locked' = {}
  /\ window' = NoWindow
  /\ ends' = Later(ends)
  /\ UNCHANGED <<confirmed, stored, ages, handled, recorded>>

-----------------------------------------------------------------------------
(* The workers.                                                            *)

Step(w, from, to) ==
  /\ stage[w] = from
  /\ stage' = [stage EXCEPT ![w] = to]

Finish(w) ==
  /\ Step(w, "record", "free")
  /\ update' = [update EXCEPT ![w] = 0]

Lock(u) == From[u] % Locks

Take(w) ==
  /\ queue # <<>>
  /\ \E k \in Kinds[Head(queue)] : Step(w, "free", k)
  /\ update' = [update EXCEPT ![w] = Head(queue)]
  /\ queue' = Tail(queue)
  /\ UNCHANGED <<confirmed, fetched, stored, locked, rate, fate>>

\* The entry as allow finds it.
Entry(s) == IF window[s].age >= Period THEN [age |-> 0, count |-> 0] ELSE window[s]

AllowedOneMore(s) == Entry(s).count <= Limit   \* mutant: off by one

Allowed(s) == Entry(s).count < Limit

EnterUnlocked(w, k, to) ==   \* mutant: without userLocks
  /\ Step(w, k, to)
  /\ UNCHANGED locked

\* userLock.Lock() returns.
Enter(w, k, to) ==
  /\ Step(w, k, to)
  /\ Lock(update[w]) \notin locked
  /\ locked' = locked \cup {Lock(update[w])}

\* The lock of the sender is free, and allow counts the command.
Admit(w) ==
  LET s == From[update[w]]
  IN  /\ Enter(w, "text", "act")
      /\ Allowed(s)
      /\ window' = [window EXCEPT ![s] = [Entry(s) EXCEPT !.count = @ + 1]]
      /\ ages' = [ages EXCEPT ![s] = Later(@)]
      /\ UNCHANGED <<api, stored, update, ends, fate>>

\* The lock is free, but the sender has used up the window.
TurnAway(w) ==
  /\ Enter(w, "text", "refuse")
  /\ ~ Allowed(From[update[w]])
  /\ UNCHANGED <<api, stored, update, rate, fate>>

\* HandleCallback does not count.
Press(w) ==
  /\ Enter(w, "button", "act")
  /\ UNCHANGED <<api, stored, update, rate, fate>>

\* Both handlers return at once.
Ignore(w) ==
  /\ Step(w, "group", "record")
  /\ handled' = handled \cup {update[w]}
  /\ UNCHANGED <<api, stored, update, locked, rate, recorded, dropped>>

Handled(w) ==
  /\ handled' = handled \cup {update[w]}
  /\ locked' = locked \ {Lock(update[w])}
  /\ UNCHANGED <<api, stored, update, rate, recorded, dropped>>

\* The command is done, and the lock released.
Act(w) == Step(w, "act", "record") /\ Handled(w)

\* The context was cancelled before the command was done.
Abandon(w) ==
  /\ Step(w, "act", "record")
  /\ locked' = locked \ {Lock(update[w])}
  /\ dropped' = dropped \cup ({update[w]} \ handled)
  /\ UNCHANGED <<api, stored, update, rate, handled, recorded>>

RefuseLocked(w) ==   \* mutant: a return without Unlock
  /\ Step(w, "refuse", "record")
  /\ handled' = handled \cup {update[w]}
  /\ UNCHANGED <<api, stored, update, locked, rate, recorded, dropped>>

\* The sender is told to wait, and the lock released.
Refuse(w) == Step(w, "refuse", "record") /\ Handled(w)

StoreLatest(u) == stored' = u + 1   \* mutant: without CASE WHEN

StoreDone(u) == stored' = Larger(stored, u)   \* mutant: the offset of the update itself

\* UpdateOffset(u + 1).
StoreOffset(u) == stored' = Larger(stored, u + 1)

Record(w) ==
  /\ Finish(w)
  /\ StoreOffset(update[w])
  /\ recorded' = recorded \cup {update[w]}
  /\ UNCHANGED <<api, locked, rate, handled, dropped>>

\* UpdateOffset failed, as it does when the context is cancelled.
RecordFails(w) ==
  /\ Finish(w)
  /\ UNCHANGED <<api, stored, locked, rate, fate>>

\* The context is cancelled.
WorkerReturns(w) ==
  /\ Step(w, "free", "gone")
  /\ UNCHANGED <<api, stored, update, locked, rate, fate>>

Older(a) == IF a < Period THEN a + 1 ELSE Period

RateTick ==
  /\ window' = [s \in Sender |-> [window[s] EXCEPT !.age = Older(@)]]
  /\ ages' = [s \in Sender |-> [k \in 1 .. Depth |-> Older(ages[s][k])]]
  /\ ends' = [q \in 1 .. MaxStops + 1 |-> Older(ends[q])]
  /\ UNCHANGED <<api, stored, workers, fate>>
=============================================================================
