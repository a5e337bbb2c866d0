----------------------------- MODULE RequestGate -----------------------------
(***************************************************************************)
(* RequestGate of internal/manager/forum.go.  Every client (a poll worker, *)
(* or a handler that validates a credential) passes it before each page:   *)
(* Wait looks at the shared cool-down once, sleeps it out, and then queues *)
(* at the shared limiter; an HTTP 429 raises the cool-down for everybody.  *)
(*                                                                         *)
(* Time is discrete and relative: in a tick the limiter earns a token.     *)
(* The clock does not wait for a goroutine whose timer has run out.        *)
(***************************************************************************)
EXTENDS Integers, FiniteSets

CONSTANTS
  Client,      \* the goroutines that fetch pages
  Burst,       \* max(1, int(FORUM_REQUEST_RATE))
  Second,      \* a second in ticks
  Minute,      \* what a 429 without a usable Retry-After costs, in ticks
  Half,        \* a time.Duration lies in -Half .. Half - 1
  Window       \* bound of the model: for how many ticks departures are remembered

ASSUME GateAssumption ==
  /\ IsFiniteSet(Client)
  /\ Burst \in Nat \ {0}
  /\ Second \in Nat \ {0}
  /\ Minute \in Nat \ {0}
  /\ Half \in Nat \ {0}
  /\ Window \in Nat \ {0}

VARIABLES
  at,          \* [Client -> Place]: where FetchPage is
  timer,       \* [Client -> Nat]: what is left of the time it sleeps
  cooldown,    \* what is left of the cool-down
  tokens,      \* the limiter's; negative when future ones are reserved
  stopping,    \* the context has been cancelled
  recent,      \* [1 .. Window -> Nat]: the requests that left in the latest so many ticks
  left,        \* the clients that left since the cool-down was last raised
  owed         \* [Client -> Nat]: for how long its last Retry-After binds it

sleep == <<at, timer>>
ghosts == <<recent, left, owed>>
gate == <<sleep, cooldown, tokens, stopping, ghosts>>

Place == {"idle", "cooling", "limit", "queued", "request"}

GateTypeOK ==
  /\ at \in [Client -> Place]
  /\ timer \in [Client -> Nat]
  /\ cooldown \in Nat
  /\ tokens \in Int
  /\ stopping \in BOOLEAN
  /\ recent \in [1 .. Window -> Nat]
  /\ left \in SUBSET Client
  /\ owed \in [Client -> Nat]

GateInit ==
  /\ at = [c \in Client |-> "idle"]
  /\ timer = [c \in Client |-> 0]
  /\ cooldown = 0
  /\ tokens = Burst
  /\ stopping = FALSE
  /\ recent = [k \in 1 .. Window |-> 0]
  /\ left = {}
  /\ owed = [c \in Client |-> 0]

Move(c, p, t) ==
  /\ at' = [at EXCEPT ![c] = p]
  /\ timer' = [timer EXCEPT ![c] = t]

-----------------------------------------------------------------------------
(* Wait.                                                                   *)

LookNever(c) ==   \* mutant: the cool-down is not looked at
  /\ at[c] = "idle"
  /\ ~ stopping
  /\ Move(c, "limit", 0)
  /\ UNCHANGED <<cooldown, tokens, stopping, ghosts>>

\* The cool-down is read under the mutex, and slept on without it.
Look(c) ==
  /\ at[c] = "idle"
  /\ ~ stopping
  /\ IF cooldown > 0 THEN Move(c, "cooling", cooldown) ELSE Move(c, "limit", 0)
  /\ UNCHANGED <<cooldown, tokens, stopping, ghosts>>

WakeAndLook(c) ==   \* mutant: the cool-down is looked at until it is over
  /\ at[c] = "cooling"
  /\ timer[c] = 0
  /\ IF cooldown > 0 THEN Move(c, "cooling", cooldown) ELSE Move(c, "limit", 0)
  /\ UNCHANGED <<cooldown, tokens, stopping, ghosts>>

\* The timer fires, and the cool-down is not read again.
Wake(c) ==
  /\ at[c] = "cooling"
  /\ timer[c] = 0
  /\ Move(c, "limit", 0)
  /\ UNCHANGED <<cooldown, tokens, stopping, ghosts>>

ReserveFree(c) ==   \* mutant: the limiter lets everybody through
  /\ at[c] = "limit"
  /\ ~ stopping
  /\ Move(c, "queued", 0)
  /\ UNCHANGED <<cooldown, tokens, stopping, ghosts>>

ReserveBefore(c) ==   \* mutant: tokens in hand are counted as time
  /\ at[c] = "limit"
  /\ ~ stopping
  /\ Move(c, "queued", 1 - tokens)
  /\ tokens' = tokens - 1
  /\ UNCHANGED <<cooldown, stopping, ghosts>>

\* limiter.Wait takes a token, or the next one to come and sleeps until then.
Reserve(c) ==
  /\ at[c] = "limit"
  /\ ~ stopping
  /\ Move(c, "queued", IF tokens > 0 THEN 0 ELSE 1 - tokens)
  /\ tokens' = tokens - 1
  /\ UNCHANGED <<cooldown, stopping, ghosts>>

\* limiter.Wait returns and the request goes out.
Leave(c) ==
  /\ at[c] = "queued"
  /\ timer[c] = 0
  /\ ~ stopping
  /\ Move(c, "request", 0)
  /\ recent' = [k \in 1 .. Window |-> recent[k] + 1]
  /\ left' = IF cooldown > 0 THEN left \cup {c} ELSE left
  /\ UNCHANGED <<cooldown, tokens, stopping, owed>>

\* The context is cancelled, and whoever waits or asks returns with its error.
GateStop ==
  /\ ~ stopping
  /\ stopping' = TRUE
  /\ UNCHANGED <<sleep, cooldown, tokens, ghosts>>

GiveUp(c) ==
  /\ stopping
  /\ at[c] # "idle"
  /\ Move(c, "idle", 0)
  /\ UNCHANGED <<cooldown, tokens, stopping, ghosts>>

Wait(c) == Look(c) \/ Wake(c) \/ Reserve(c) \/ Leave(c) \/ GiveUp(c)

-----------------------------------------------------------------------------
(* Retry-After: a number of seconds, a date that many ticks ahead, or      *)
(* nothing that parses.                                                    *)

Header == [form : {"seconds", "none"}, n : Nat] \cup [form : {"date"}, n : Int]

\* The product of two durations keeps 64 bits.
Wrapped(x) == ((x + Half) % (2 * Half)) - Half

parseRetryAfter(h) ==
  CASE h.form = "seconds" -> Wrapped(h.n * Second)
    [] h.form = "date" /\ h.n > 0 -> h.n
    [] OTHER -> 0

RetryAfter(h) == IF parseRetryAfter(h) > 0 THEN parseRetryAfter(h) ELSE Minute

\* What the header asks for: nothing, if no duration can hold it.
Binding(h) ==
  CASE h.form = "seconds" /\ h.n > 0 -> IF h.n * Second < Half THEN h.n * Second ELSE 0
    [] h.form = "date" /\ h.n > 0 -> h.n
    [] OTHER -> Minute

CooldownLatest(d) == cooldown' = d   \* mutant: the last 429 wins

\* Only ever raised.
Cooldown(d) == cooldown' = IF d > cooldown THEN d ELSE cooldown

\* HTTP 429.
TooManyRequests(c, h) ==
  /\ at[c] = "request"
  /\ Cooldown(RetryAfter(h))
  /\ Move(c, "idle", 0)
  /\ left' = IF RetryAfter(h) > cooldown THEN {} ELSE left
  /\ owed' = [owed EXCEPT ![c] = Binding(h)]
  /\ UNCHANGED <<tokens, stopping, recent>>

\* Any other answer, or none within the client's timeout.
Answered(c) ==
  /\ at[c] = "request"
  /\ Move(c, "idle", 0)
  /\ UNCHANGED <<cooldown, tokens, stopping, ghosts>>

-----------------------------------------------------------------------------
Less(n) == IF n > 0 THEN n - 1 ELSE 0

Tick ==
  /\ cooldown' = Less(cooldown)
  /\ timer' = [c \in Client |-> Less(timer[c])]
  /\ tokens' = IF tokens < Burst THEN tokens + 1 ELSE Burst
  /\ recent' = [k \in 1 .. Window |-> IF k = 1 THEN 0 ELSE recent[k - 1]]
  /\ left' = IF cooldown' = 0 THEN {} ELSE left
  /\ owed' = [c \in Client |-> Less(owed[c])]
  /\ UNCHANGED <<at, stopping>>
=============================================================================
