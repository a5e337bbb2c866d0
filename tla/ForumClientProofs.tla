-------------------------- MODULE ForumClientProofs --------------------------
(***************************************************************************)
(* Proofs about the client of the forum, for every number of clients, rate *)
(* and length of a cool-down, every answer of the forum and every text: a   *)
(* 429 is obeyed, a page is understood as a whole, and a message fits.     *)
(***************************************************************************)
EXTENDS ForumClient, FiniteSetTheorems, WellFoundedInduction, TLAPS

-----------------------------------------------------------------------------
(* Retry-After.                                                            *)

LEMMA ModuloRange ==
  ASSUME NEW x \in Int, NEW m \in Nat \ {0}
  PROVE  x % m \in 0 .. (m - 1)
OBVIOUS

LEMMA ModuloSmall ==
  ASSUME NEW m \in Nat \ {0}, NEW x \in 0 .. (m - 1)
  PROVE  x % m = x
OBVIOUS

LEMMA ProductType ==
  ASSUME NEW x \in Nat, NEW y \in Nat \ {0}
  PROVE  x * y \in Nat /\ (x > 0 => x * y > 0)
OBVIOUS

\* What a duration can hold is kept.
LEMMA WrappedKeeps ==
  ASSUME NEW x \in Nat
  PROVE  Wrapped(x) \in Int /\ (x < Half => Wrapped(x) = x)
<1>1. Half \in Nat \ {0} /\ 2 * Half \in Nat \ {0} /\ x + Half \in Nat
  BY GateAssumption
<1>2. (x + Half) % (2 * Half) \in 0 .. (2 * Half - 1)
  BY <1>1, ModuloRange
<1>3. x < Half => x + Half \in 0 .. (2 * Half - 1)
  BY <1>1
<1>4. x < Half => (x + Half) % (2 * Half) = x + Half
  BY <1>1, <1>3, ModuloSmall
<1> QED BY <1>1, <1>2, <1>4 DEF Wrapped

\* The cool-down is at least as long as what the header asks for.
LEMMA RetryAfterType ==
  ASSUME NEW h \in Header
  PROVE  RetryAfter(h) \in Nat /\ Binding(h) \in Nat /\ Binding(h) <= RetryAfter(h)
<1>1. Minute \in Nat \ {0} /\ Second \in Nat \ {0} /\ Half \in Nat \ {0}
  BY GateAssumption
<1>2. CASE h.form = "seconds"
  <2>1. h.n \in Nat /\ h.n * Second \in Nat /\ (h.n > 0 => h.n * Second > 0)
    BY <1>1, <1>2, ProductType DEF Header
  <2> DEFINE x == h.n * Second
  <2>2. Wrapped(x) \in Int /\ (x < Half => Wrapped(x) = x)
    BY <2>1, WrappedKeeps
  <2>3. parseRetryAfter(h) = Wrapped(x)
    BY <1>2 DEF parseRetryAfter
  <2>4. Binding(h) = IF h.n > 0 THEN IF x < Half THEN x ELSE 0 ELSE Minute
    BY <1>2 DEF Binding
  <2>5. h.n = 0 => x = 0
    BY <1>1
  <2> HIDE DEF x
  <2> QED BY <1>1, <2>1, <2>2, <2>3, <2>4, <2>5 DEF RetryAfter, x
<1>3. CASE h.form = "date"
  <2>1. h.n \in Int
    BY <1>3 DEF Header
  <2> QED BY <1>1, <1>3, <2>1 DEF RetryAfter, parseRetryAfter, Binding
<1>4. CASE h.form = "none"
  BY <1>1, <1>4 DEF RetryAfter, parseRetryAfter, Binding
<1> QED BY <1>2, <1>3, <1>4 DEF Header

-----------------------------------------------------------------------------
(* Types.                                                                  *)

LEMMA LessType == ASSUME NEW n \in Nat PROVE Less(n) \in Nat /\ Less(n) <= n
BY DEF Less

LEMMA HeaderOfExchange == \A x \in Exchanges : x.answer.retryAfter \in Header
<1> SUFFICES ASSUME NEW a \in Answers PROVE a.retryAfter \in Header
  BY DEF Exchanges
<1> QED BY AnswersAssumption

LEMMA ReceiveType ==
  ASSUME ClientTypeOK, NEW c \in Client, Receive(c)
  PROVE  ClientTypeOK'
<1>1. CASE \E x \in Limited : TooManyRequests(c, x.answer.retryAfter) /\ fetched' = Nothing
  <2>1. PICK h \in Header : TooManyRequests(c, h) /\ fetched' = Nothing
    BY <1>1, HeaderOfExchange DEF Limited
  <2>2. RetryAfter(h) \in Nat /\ Binding(h) \in Nat
    BY RetryAfterType
  <2>3. cooldown' \in Nat
    BY <2>1, <2>2 DEF TooManyRequests, Cooldown, ClientTypeOK, GateTypeOK
  <2>4. left' \in SUBSET Client /\ owed' \in [Client -> Nat]
    BY <2>1, <2>2 DEF TooManyRequests, ClientTypeOK, GateTypeOK
  <2>5. at' \in [Client -> Place] /\ timer' \in [Client -> Nat]
    BY <2>1 DEF TooManyRequests, Move, Place, ClientTypeOK, GateTypeOK
  <2> QED BY <2>1, <2>3, <2>4, <2>5 DEF TooManyRequests, ClientTypeOK, GateTypeOK
<1>2. CASE \E x \in Exchanges \ Limited : Answered(c) /\ fetched' = x
  <2>1. at' \in [Client -> Place] /\ timer' \in [Client -> Nat]
    BY <1>2 DEF Answered, Move, Place, ClientTypeOK, GateTypeOK
  <2> QED BY <1>2, <2>1 DEF Answered, ghosts, ClientTypeOK, GateTypeOK
<1> QED BY <1>1, <1>2 DEF Receive

LEMMA WaitType ==
  ASSUME ClientTypeOK, NEW c \in Client, WaitStep(c)
  PROVE  ClientTypeOK'
<1> USE DEF ghosts
<1>1. fetched' \in Exchanges \cup {Nothing}
  BY DEF WaitStep
<1>2. CASE Look(c) \/ Wake(c) \/ GiveUp(c)
  <2>1. at' \in [Client -> Place] /\ timer' \in [Client -> Nat]
    <3>1. PICK p \in Place, t \in Nat : Move(c, p, t)
      BY <1>2 DEF Look, Wake, GiveUp, Place, ClientTypeOK, GateTypeOK
    <3> QED BY <3>1 DEF Move, ClientTypeOK, GateTypeOK
  <2> QED BY <1>1, <1>2, <2>1 DEF Look, Wake, GiveUp, ClientTypeOK, GateTypeOK
<1>3. CASE Reserve(c)
  <2>1. tokens \in Int /\ (IF tokens > 0 THEN 0 ELSE 1 - tokens) \in Nat
    BY DEF ClientTypeOK, GateTypeOK
  <2>2. at' \in [Client -> Place] /\ timer' \in [Client -> Nat]
    BY <1>3, <2>1 DEF Reserve, Move, Place, ClientTypeOK, GateTypeOK
  <2>3. tokens' \in Int
    BY <1>3, <2>1 DEF Reserve
  <2> QED BY <1>1, <1>3, <2>2, <2>3 DEF Reserve, ClientTypeOK, GateTypeOK
<1>4. CASE Leave(c)
  <2>1. at' \in [Client -> Place] /\ timer' \in [Client -> Nat]
    BY <1>4 DEF Leave, Move, Place, ClientTypeOK, GateTypeOK
  <2>2. recent' \in [1 .. Window -> Nat]
    BY <1>4 DEF Leave, ClientTypeOK, GateTypeOK
  <2>3. left' \in SUBSET Client
    BY <1>4 DEF Leave, ClientTypeOK, GateTypeOK
  <2> QED BY <1>1, <1>4, <2>1, <2>2, <2>3 DEF Leave, ClientTypeOK, GateTypeOK
<1> QED BY <1>2, <1>3, <1>4 DEF WaitStep, Wait

LEMMA ClockType == ClientTypeOK /\ ClockStep => ClientTypeOK'
<1> SUFFICES ASSUME ClientTypeOK, ClockStep PROVE ClientTypeOK'
  OBVIOUS
<1>1. cooldown' \in Nat /\ timer' \in [Client -> Nat] /\ owed' \in [Client -> Nat]
  BY LessType DEF ClockStep, Tick, ClientTypeOK, GateTypeOK
<1>2. tokens' \in Int
  BY GateAssumption DEF ClockStep, Tick, ClientTypeOK, GateTypeOK
<1>3. recent' \in [1 .. Window -> Nat]
  <2>1. \A k \in 1 .. Window : k # 1 => k - 1 \in 1 .. Window
    BY GateAssumption
  <2> QED BY <2>1 DEF ClockStep, Tick, ClientTypeOK, GateTypeOK
<1> QED BY <1>1, <1>2, <1>3 DEF ClockStep, Tick, ClientTypeOK, GateTypeOK

LEMMA InitType == ClientInit => ClientTypeOK
<1> SUFFICES ASSUME ClientInit PROVE ClientTypeOK
  OBVIOUS
<1>1. at \in [Client -> Place] /\ timer \in [Client -> Nat] /\ owed \in [Client -> Nat]
      /\ recent \in [1 .. Window -> Nat]
  BY DEF ClientInit, GateInit, Place
<1>2. tokens \in Int /\ cooldown \in Nat /\ left \in SUBSET Client
  BY GateAssumption DEF ClientInit, GateInit
<1>3. stopping \in BOOLEAN
  BY DEF ClientInit, GateInit
<1>4. fetched \in Exchanges \cup {Nothing}
  BY DEF ClientInit
<1> QED BY <1>1, <1>2, <1>3, <1>4 DEF ClientTypeOK, GateTypeOK

LEMMA NextType == ClientTypeOK /\ [ClientNext]_client => ClientTypeOK'
<1> SUFFICES ASSUME ClientTypeOK, [ClientNext]_client PROVE ClientTypeOK'
  OBVIOUS
<1>1. CASE GateStop /\ fetched' = Nothing
  BY <1>1 DEF GateStop, sleep, ghosts, ClientTypeOK, GateTypeOK
<1>2. CASE UNCHANGED client
  BY <1>2 DEF client, gate, sleep, ghosts, ClientTypeOK, GateTypeOK
<1> QED BY <1>1, <1>2, ReceiveType, WaitType, ClockType DEF ClientNext

\* Every variable keeps its type, and every result is that of an answer.
THEOREM TypeCorrect == ClientSpec => []ClientTypeOK
BY InitType, NextType, PTL DEF ClientSpec

-----------------------------------------------------------------------------
(* The cool-down.                                                          *)

\* Who left during the cool-down is either between two pages or sleeps till its end.
LeftSleep ==
  /\ left # {} => cooldown > 0
  /\ \A c \in left :
       \/ at[c] \in {"idle", "request"}
       \/ at[c] = "cooling" /\ timer[c] >= cooldown

LEMMA LeftSleepWait ==
  ASSUME ClientTypeOK, LeftSleep, NEW c \in Client, WaitStep(c)
  PROVE  LeftSleep' /\ (Leave(c) => c \notin left)
<1>1. timer[c] \in Nat /\ cooldown \in Nat /\ timer \in [Client -> Nat]
      /\ at \in [Client -> Place] /\ left \subseteq Client
  BY DEF ClientTypeOK, GateTypeOK
<1>2. CASE Look(c) \/ Reserve(c) \/ GiveUp(c)
  BY <1>1, <1>2 DEF Look, Reserve, GiveUp, Leave, Move, ghosts, LeftSleep
<1>3. CASE Wake(c)
  <2>1. c \notin left
    BY <1>1, <1>3 DEF Wake, LeftSleep
  <2> QED BY <1>1, <1>3, <2>1 DEF Wake, Leave, Move, ghosts, LeftSleep
<1>4. CASE Leave(c)
  BY <1>1, <1>4 DEF Leave, Move, LeftSleep
<1> QED BY <1>2, <1>3, <1>4 DEF WaitStep, Wait

LEMMA LeftSleepStep == ClientTypeOK /\ LeftSleep /\ [ClientNext]_client => LeftSleep'
<1> SUFFICES ASSUME ClientTypeOK, LeftSleep, [ClientNext]_client PROVE LeftSleep'
  OBVIOUS
<1>1. timer \in [Client -> Nat] /\ cooldown \in Nat /\ at \in [Client -> Place]
      /\ left \subseteq Client
  BY DEF ClientTypeOK, GateTypeOK
<1>2. ASSUME NEW c \in Client, Receive(c) PROVE LeftSleep'
  <2>1. CASE \E h \in Header : TooManyRequests(c, h)
    <3>1. PICK h \in Header : TooManyRequests(c, h)
      BY <2>1
    <3>2. RetryAfter(h) \in Nat
      BY RetryAfterType
    <3> QED BY <1>1, <3>1, <3>2 DEF TooManyRequests, Cooldown, Move, LeftSleep
  <2>2. CASE Answered(c)
    BY <1>1, <2>2 DEF Answered, Move, ghosts, LeftSleep
  <2> QED BY <1>2, <2>1, <2>2, HeaderOfExchange DEF Receive, Limited
<1>3. CASE ClockStep
  <2>1. \A c \in Client : timer'[c] = Less(timer[c])
    BY <1>3 DEF ClockStep, Tick
  <2>2. /\ at' = at /\ cooldown' = Less(cooldown)
        /\ left' = IF cooldown' = 0 THEN {} ELSE left
    BY <1>3 DEF ClockStep, Tick
  <2> QED BY <1>1, <2>1, <2>2 DEF Less, LeftSleep
<1>4. CASE (GateStop /\ fetched' = Nothing) \/ UNCHANGED client
  BY <1>4 DEF GateStop, client, gate, sleep, ghosts, LeftSleep
<1> QED BY <1>2, <1>3, <1>4, LeftSleepWait DEF ClientNext

\* README.md:70: although Wait looks at the cool-down only once, no client leaves twice
\* before it is over or raised again.
THEOREM OncePerCooldown == ClientSpec => OnceDuringCooldown
<1>1. ClientInit => LeftSleep
  BY DEF ClientInit, GateInit, LeftSleep
<1>2. ClientTypeOK /\ LeftSleep /\ [ClientNext]_client =>
        [\A c \in Client : at[c] = "queued" /\ at'[c] = "request" => c \notin left]_client
  <2> SUFFICES ASSUME ClientTypeOK, LeftSleep, NEW c \in Client, at[c] = "queued"
               PROVE  c \notin left
    OBVIOUS
  <2> QED BY DEF LeftSleep
<1> QED BY <1>1, <1>2, LeftSleepStep, TypeCorrect, PTL DEF ClientSpec, OnceDuringCooldown

\* What a client owes is within the cool-down, within its sleep, and paid when it queues.
Obeyed ==
  \A c \in Client :
    /\ owed[c] <= cooldown
    /\ at[c] = "cooling" => owed[c] <= timer[c]
    /\ at[c] \in {"limit", "queued", "request"} => owed[c] = 0

LEMMA ObeyedStep == ClientTypeOK /\ Obeyed /\ [ClientNext]_client => Obeyed'
<1> SUFFICES ASSUME ClientTypeOK, Obeyed, [ClientNext]_client PROVE Obeyed'
  OBVIOUS
<1>1. timer \in [Client -> Nat] /\ owed \in [Client -> Nat] /\ cooldown \in Nat
      /\ at \in [Client -> Place]
  BY DEF ClientTypeOK, GateTypeOK
<1>2. ASSUME NEW c \in Client, WaitStep(c) PROVE Obeyed'
  <2>1. CASE Look(c)
    BY <1>1, <2>1 DEF Look, Move, ghosts, Obeyed
  <2>2. CASE Wake(c) \/ Reserve(c) \/ Leave(c) \/ GiveUp(c)
    BY <1>1, <2>2 DEF Wake, Reserve, Leave, GiveUp, Move, ghosts, Obeyed
  <2> QED BY <1>2, <2>1, <2>2 DEF WaitStep, Wait
<1>3. ASSUME NEW c \in Client, Receive(c) PROVE Obeyed'
  <2>1. CASE \E h \in Header : TooManyRequests(c, h)
    <3>1. PICK h \in Header : TooManyRequests(c, h)
      BY <2>1
    <3>2. RetryAfter(h) \in Nat /\ Binding(h) \in Nat /\ Binding(h) <= RetryAfter(h)
      BY RetryAfterType
    <3> QED BY <1>1, <3>1, <3>2 DEF TooManyRequests, Cooldown, Move, Obeyed
  <2>2. CASE Answered(c)
    BY <1>1, <2>2 DEF Answered, Move, ghosts, Obeyed
  <2> QED BY <1>3, <2>1, <2>2, HeaderOfExchange DEF Receive, Limited
<1>4. CASE ClockStep
  <2>1. \A c \in Client : timer'[c] = Less(timer[c]) /\ owed'[c] = Less(owed[c])
    BY <1>4 DEF ClockStep, Tick
  <2>2. at' = at /\ cooldown' = Less(cooldown)
    BY <1>4 DEF ClockStep, Tick
  <2> QED BY <1>1, <2>1, <2>2 DEF Less, Obeyed
<1>5. CASE (GateStop /\ fetched' = Nothing) \/ UNCHANGED client
  BY <1>5 DEF GateStop, client, gate, sleep, ghosts, Obeyed
<1> QED BY <1>2, <1>3, <1>4, <1>5 DEF ClientNext

\* README.md:70: a client sends nothing before its own Retry-After is over, whatever the
\* others are told.
THEOREM RetryAfterIsObeyed == ClientSpec => OwnRetryAfterIsKept
<1>1. ClientInit => Obeyed
  BY DEF ClientInit, GateInit, Obeyed
<1>2. Obeyed /\ [ClientNext]_client =>
        [\A c \in Client : at[c] = "queued" /\ at'[c] = "request" => owed[c] = 0]_client
  BY DEF Obeyed
<1> QED BY <1>1, <1>2, ObeyedStep, TypeCorrect, PTL DEF ClientSpec, OwnRetryAfterIsKept

-----------------------------------------------------------------------------
(* The rate.                                                               *)

\* The clients that may leave at any moment.
Ready == {c \in Client : at[c] = "queued" /\ timer[c] = 0}

\* The tokens that nobody has reserved.
InHand == IF tokens > 0 THEN tokens ELSE 0

\* Reserved tokens come one at a time, and the tokens owed reach to the last of them.
Reservations ==
  /\ tokens <= Burst
  /\ \A c \in Client :
       at[c] = "queued" /\ timer[c] > 0 =>
         /\ timer[c] <= - tokens
         /\ \A d \in Client \ {c} : at[d] = "queued" => timer[d] # timer[c]

\* Whoever may leave now, and each token in hand, is as good as gone.
Spent ==
  \A k \in 1 .. Window :
    recent[k] + Cardinality(Ready) + InHand <= Burst + (k - 1) + Cardinality(Client)

RateInvariant == Reservations /\ Spent

LEMMA ReadyType ==
  /\ IsFiniteSet(Ready)
  /\ Cardinality(Ready) \in Nat
  /\ Cardinality(Client) \in Nat
  /\ Cardinality(Ready) <= Cardinality(Client)
<1>1. Ready \subseteq Client /\ IsFiniteSet(Client)
  BY GateAssumption DEF Ready
<1> QED BY <1>1, FS_Subset, FS_CardinalityType

\* One more or one less may leave.
LEMMA ReadyMoves ==
  ASSUME ClientTypeOK, NEW c \in Client, NEW p, NEW t, Move(c, p, t)
  PROVE  /\ Cardinality(Ready)' \in Nat
         /\ p = "queued" /\ t = 0 => Cardinality(Ready)' <= Cardinality(Ready) + 1
         /\ ~ (p = "queued" /\ t = 0) => Cardinality(Ready)' <= Cardinality(Ready)
         /\ ~ (p = "queued" /\ t = 0) /\ c \in Ready =>
              Cardinality(Ready)' = Cardinality(Ready) - 1
<1>1. IsFiniteSet(Ready) /\ Cardinality(Ready) \in Nat
  BY ReadyType
<1>2. Ready' = IF p = "queued" /\ t = 0 THEN Ready \cup {c} ELSE Ready \ {c}
  BY DEF Ready, Move, ClientTypeOK, GateTypeOK
<1>3. /\ Cardinality(Ready \cup {c}) = IF c \in Ready THEN Cardinality(Ready)
                                       ELSE Cardinality(Ready) + 1
      /\ Cardinality(Ready \ {c}) = IF c \in Ready THEN Cardinality(Ready) - 1
                                    ELSE Cardinality(Ready)
  BY <1>1, FS_AddElement, FS_RemoveElement
<1>4. Cardinality(Ready \ {c}) \in Nat
  BY <1>1, FS_RemoveElement, FS_CardinalityType
<1> QED BY <1>1, <1>2, <1>3, <1>4

\* A step that takes no token and sends no request.
LEMMA SpentByNobody ==
  ASSUME ClientTypeOK, Spent, UNCHANGED <<tokens, recent>>,
         Cardinality(Ready)' \in Nat, Cardinality(Ready)' <= Cardinality(Ready)
  PROVE  Spent'
<1>1. /\ Cardinality(Ready) \in Nat /\ Cardinality(Client) \in Nat /\ Burst \in Nat
      /\ InHand \in Nat /\ InHand' = InHand
  BY ReadyType, GateAssumption DEF InHand, ClientTypeOK, GateTypeOK
<1>2. \A k \in 1 .. Window : recent[k] \in Nat
  BY DEF ClientTypeOK, GateTypeOK
<1> QED BY <1>1, <1>2, GateAssumption DEF Spent

LEMMA WaitSpends ==
  ASSUME ClientTypeOK, RateInvariant, NEW c \in Client, WaitStep(c)
  PROVE  RateInvariant'
<1>1. /\ at \in [Client -> Place] /\ timer \in [Client -> Nat] /\ tokens \in Int
      /\ Burst \in Nat /\ Window \in Nat /\ \A k \in 1 .. Window : recent[k] \in Nat
      /\ Cardinality(Ready) \in Nat /\ Cardinality(Client) \in Nat /\ InHand \in Nat
  BY ReadyType, GateAssumption DEF InHand, ClientTypeOK, GateTypeOK
<1>2. CASE Look(c) \/ Wake(c) \/ GiveUp(c)
  <2>1. PICK p \in Place \ {"queued"}, t \in Nat : Move(c, p, t)
    BY <1>2 DEF Look, Wake, GiveUp, Place, ClientTypeOK, GateTypeOK
  <2>2. UNCHANGED <<tokens, recent>>
    BY <1>2 DEF Look, Wake, GiveUp, ghosts
  <2>3. Reservations'
    BY <1>1, <2>1, <2>2 DEF Move, RateInvariant, Reservations
  <2>4. Spent'
    BY <2>1, <2>2, ReadyMoves, SpentByNobody DEF RateInvariant
  <2> QED BY <2>3, <2>4 DEF RateInvariant
<1>3. CASE Reserve(c)
  <2>1. /\ Move(c, "queued", IF tokens > 0 THEN 0 ELSE 1 - tokens)
        /\ tokens' = tokens - 1 /\ recent' = recent
    BY <1>3 DEF Reserve, ghosts
  <2>2. Reservations'
    <3>1. \A d \in Client \ {c} : at'[d] = at[d] /\ timer'[d] = timer[d]
      BY <2>1 DEF Move
    <3>2. at'[c] = "queued" /\ timer'[c] = IF tokens > 0 THEN 0 ELSE 1 - tokens
      BY <1>1, <2>1 DEF Move
    <3>3. \A d \in Client : at[d] = "queued" /\ timer[d] > 0 => timer[d] <= - tokens
      BY DEF RateInvariant, Reservations
    <3> QED BY <1>1, <2>1, <3>1, <3>2, <3>3 DEF RateInvariant, Reservations
  <2>3. Spent'
    <3>1. CASE tokens > 0
      <4>1. Cardinality(Ready)' \in Nat /\ Cardinality(Ready)' <= Cardinality(Ready) + 1
        BY <2>1, <3>1, ReadyMoves
      <4>2. InHand' = InHand - 1
        BY <1>1, <2>1, <3>1 DEF InHand
      <4> QED BY <1>1, <2>1, <4>1, <4>2 DEF RateInvariant, Spent
    <3>2. CASE ~ (tokens > 0)
      <4>1. Cardinality(Ready)' \in Nat /\ Cardinality(Ready)' <= Cardinality(Ready)
        BY <1>1, <2>1, <3>2, ReadyMoves
      <4>2. InHand' = InHand
        BY <1>1, <2>1, <3>2 DEF InHand
      <4> QED BY <1>1, <2>1, <4>1, <4>2 DEF RateInvariant, Spent
    <3> QED BY <3>1, <3>2
  <2> QED BY <2>2, <2>3 DEF RateInvariant
<1>4. CASE Leave(c)
  <2>1. /\ c \in Ready /\ Move(c, "request", 0) /\ tokens' = tokens
        /\ \A k \in 1 .. Window : recent'[k] = recent[k] + 1
    BY <1>4 DEF Leave, Ready
  <2>2. Reservations'
    BY <1>1, <2>1 DEF Move, RateInvariant, Reservations
  <2>3. Cardinality(Ready)' = Cardinality(Ready) - 1 /\ InHand' = InHand
    BY <2>1, ReadyMoves DEF InHand
  <2>4. Spent'
    BY <1>1, <2>1, <2>3 DEF RateInvariant, Spent
  <2> QED BY <2>2, <2>4 DEF RateInvariant
<1> QED BY <1>2, <1>3, <1>4 DEF WaitStep, Wait

\* In a tick at most one reservation falls due, and then no token is in hand; the
\* window that ends with the tick started a tick later.
LEMMA TickSpends ==
  ASSUME ClientTypeOK, RateInvariant, Tick
  PROVE  RateInvariant'
<1>1. /\ at \in [Client -> Place] /\ timer \in [Client -> Nat] /\ tokens \in Int
      /\ Burst \in Nat \ {0} /\ Window \in Nat /\ \A k \in 1 .. Window : recent[k] \in Nat
      /\ Cardinality(Ready) \in Nat /\ Cardinality(Client) \in Nat /\ InHand \in Nat
      /\ IsFiniteSet(Ready)
  BY ReadyType, GateAssumption DEF InHand, ClientTypeOK, GateTypeOK
<1>2. /\ at' = at /\ tokens' = IF tokens < Burst THEN tokens + 1 ELSE Burst
      /\ \A c \in Client : timer'[c] = IF timer[c] > 0 THEN timer[c] - 1 ELSE 0
  BY DEF Tick, Less
<1>3. tokens <= Burst /\ tokens' <= Burst /\ tokens' <= tokens + 1
  BY <1>1, <1>2 DEF RateInvariant, Reservations
<1>4. Reservations'
  BY <1>1, <1>2 DEF RateInvariant, Reservations
<1>5. Cardinality(Ready)' \in Nat /\ Cardinality(Ready)' <= Cardinality(Client)
  <2>1. Ready' \subseteq Client /\ IsFiniteSet(Client)
    BY GateAssumption DEF Ready
  <2> QED BY <2>1, FS_Subset, FS_CardinalityType
<1>6. Cardinality(Ready)' + InHand' <= Cardinality(Ready) + InHand + 1
  <2> DEFINE Falls(c) == at[c] = "queued" /\ timer[c] = 1
  <2>1. CASE \E c \in Client : Falls(c)
    <3>1. PICK c \in Client : Falls(c)
      BY <2>1
    <3>2. Ready' = Ready \cup {c} /\ c \notin Ready
      BY <1>1, <1>2, <3>1 DEF Ready, RateInvariant, Reservations
    <3>3. Cardinality(Ready)' = Cardinality(Ready) + 1
      BY <1>1, <3>2, FS_AddElement
    <3>4. tokens <= -1
      BY <1>1, <3>1 DEF RateInvariant, Reservations
    <3>5. InHand' = 0
      BY <1>1, <1>2, <3>4 DEF InHand
    <3> QED BY <1>1, <3>3, <3>5
  <2>2. CASE ~ \E c \in Client : Falls(c)
    <3>1. Ready' = Ready
      BY <1>1, <1>2, <2>2 DEF Ready
    <3>2. InHand' <= InHand + 1
      BY <1>1, <1>2, <1>3 DEF InHand
    <3>3. InHand' \in Nat
      BY <1>1, <1>2 DEF InHand
    <3> QED BY <1>1, <3>1, <3>2, <3>3
  <2> QED BY <2>1, <2>2
<1>7. InHand' \in Nat /\ InHand' <= Burst
  BY <1>1, <1>2, <1>3 DEF InHand
<1>8. Spent'
  <2> SUFFICES ASSUME NEW k \in 1 .. Window
               PROVE  recent'[k] + Cardinality(Ready)' + InHand'
                        <= Burst + (k - 1) + Cardinality(Client)
    BY DEF Spent
  <2>1. CASE k = 1
    <3>1. recent'[k] = 0
      BY <2>1 DEF Tick
    <3> QED BY <1>1, <1>5, <1>7, <2>1, <3>1
  <2>2. CASE k # 1
    <3>1. k - 1 \in 1 .. Window /\ recent'[k] = recent[k - 1]
      BY <1>1, <2>2 DEF Tick
    <3>2. recent[k - 1] + Cardinality(Ready) + InHand
            <= Burst + (k - 1 - 1) + Cardinality(Client)
      BY <3>1 DEF RateInvariant, Spent
    <3>3. recent[k - 1] \in Nat
      BY <1>1, <3>1
    <3> QED BY <1>1, <1>5, <1>6, <1>7, <3>1, <3>2, <3>3
  <2> QED BY <2>1, <2>2
<1> QED BY <1>4, <1>8 DEF RateInvariant

LEMMA RateStep == ClientTypeOK /\ RateInvariant /\ [ClientNext]_client => RateInvariant'
<1> SUFFICES ASSUME ClientTypeOK, RateInvariant, [ClientNext]_client PROVE RateInvariant'
  OBVIOUS
<1>1. ASSUME NEW c \in Client, Receive(c) PROVE RateInvariant'
  <2>1. Move(c, "idle", 0) /\ UNCHANGED <<tokens, recent>>
    BY <1>1 DEF Receive, TooManyRequests, Answered, ghosts
  <2>2. Reservations'
    BY <2>1 DEF Move, RateInvariant, Reservations, ClientTypeOK, GateTypeOK
  <2>3. Spent'
    BY <2>1, ReadyMoves, SpentByNobody DEF RateInvariant
  <2> QED BY <2>2, <2>3 DEF RateInvariant
<1>2. CASE (GateStop /\ fetched' = Nothing) \/ UNCHANGED client
  <2>1. UNCHANGED <<at, timer, tokens, recent>>
    BY <1>2 DEF GateStop, client, gate, sleep, ghosts
  <2> QED BY <2>1 DEF RateInvariant, Reservations, Spent, Ready, InHand
<1> QED BY <1>1, <1>2, WaitSpends, TickSpends DEF ClientNext, ClockStep

\* README.md:69: over any number of ticks the requests of all clients together stay within
\* the burst, the tokens earned, and one for each client that woke up late.
THEOREM RateStays == ClientSpec => []RateIsKept
<1>1. ClientInit => RateInvariant
  <2> SUFFICES ASSUME ClientInit PROVE RateInvariant
    OBVIOUS
  <2>1. Ready = {} /\ InHand = Burst /\ tokens = Burst
    BY GateAssumption DEF ClientInit, GateInit, Ready, InHand
  <2>2. \A k \in 1 .. Window : recent[k] = 0
    BY DEF ClientInit, GateInit
  <2>3. Cardinality(Ready) = 0 /\ Cardinality(Client) \in Nat
    BY <2>1, FS_EmptySet, ReadyType
  <2>4. Reservations
    BY <2>1, GateAssumption DEF ClientInit, GateInit, Reservations
  <2> QED BY <2>1, <2>2, <2>3, <2>4, GateAssumption DEF RateInvariant, Spent
<1>2. ClientTypeOK /\ RateInvariant => RateIsKept
  <2> SUFFICES ASSUME ClientTypeOK, RateInvariant, NEW k \in 1 .. Window
               PROVE  recent[k] <= Burst + (k - 1) + Cardinality(Client)
    BY DEF RateIsKept
  <2>1. /\ recent[k] \in Nat /\ Cardinality(Ready) \in Nat /\ InHand \in Nat
        /\ Burst \in Nat /\ Cardinality(Client) \in Nat
    BY ReadyType, GateAssumption DEF InHand, ClientTypeOK, GateTypeOK
  <2>2. recent[k] + Cardinality(Ready) + InHand <= Burst + (k - 1) + Cardinality(Client)
    BY DEF RateInvariant, Spent
  <2> QED BY <2>1, <2>2
<1> QED BY <1>1, <1>2, RateStep, TypeCorrect, PTL DEF ClientSpec

-----------------------------------------------------------------------------
(* Pages.                                                                  *)

\* README.md:71: what a client sees that is not logged in is no change of the pages.
THEOREM LoginIsTold == ClientSpec => []LoggedOutIsNotStructure
<1>1. ClientTypeOK => LoggedOutIsNotStructure
  <2> SUFFICES ASSUME NEW a \in Answers,
                      a.code \in {401, 403} \/ a.path = "login" \/ a.doc.login
               PROVE  FetchResult(a, 1).error # "structure"
    BY DEF ClientTypeOK, Exchanges, LoggedOutIsNotStructure
  <2> QED BY DEF FetchResult, ParseNotificationPage, Failure
<1> QED BY <1>1, TypeCorrect, PTL

\* README.md:72: what is understood of a page is all of it.
THEOREM PageIsUnderstood == ClientSpec => []PageIsWhole
<1>1. ClientTypeOK => PageIsWhole
  <2> SUFFICES ASSUME ClientTypeOK, fetched # Nothing
               PROVE  {fetched.result.ids[i] : i \in DOMAIN fetched.result.ids}
                        = {notificationID(n) : n \in Delivered}
    BY DEF PageIsWhole
  <2>1. PICK a \in Answers : fetched = [answer |-> a, result |-> FetchResult(a, 1)]
    BY DEF ClientTypeOK, Exchanges
  <2>2. CASE FetchResult(a, 1).error = "none"
    <3>1. FetchResult(a, 1).ids
            = [i \in DOMAIN a.doc.items |-> notificationID(a.doc.items[i])]
      BY <2>2 DEF FetchResult, ParseNotificationPage, Failure
    <3>2. Delivered = {a.doc.items[i] : i \in DOMAIN a.doc.items}
      BY <2>1, <2>2 DEF Delivered
    <3> QED BY <2>1, <3>1, <3>2
  <2>3. CASE FetchResult(a, 1).error # "none"
    <3>1. FetchResult(a, 1).ids = <<>>
      BY <2>3 DEF FetchResult, ParseNotificationPage, Failure
    <3>2. Delivered = {}
      BY <2>1, <2>3 DEF Delivered
    <3> QED BY <2>1, <3>1, <3>2
  <2> QED BY <2>2, <2>3
<1> QED BY <1>1, TypeCorrect, PTL

-----------------------------------------------------------------------------
(* Messages.                                                               *)

\* A bounded set of numbers has a largest one: the smallest of its bounds.
LEMMA LongestExists ==
  ASSUME NEW places \in SUBSET Nat, places # {}, NEW bound \in Nat,
         \A n \in places : n <= bound
  PROVE  Longest(places) \in places /\ \A n \in places : n <= Longest(places)
<1> DEFINE bounds == {b \in Nat : \A n \in places : n <= b}
<1>1. bound \in bounds
  OBVIOUS
<1>2. PICK b \in bounds : \A y \in bounds : ~ (<<y, b>> \in OpToRel(<, Nat))
  BY <1>1, NatLessThanWellFounded, WFMin
<1>3. \A y \in bounds : ~ y < b
  BY <1>2 DEF OpToRel
<1>4. b \in places
  <2>1. CASE b = 0
    <3>1. PICK n \in places : n <= b
      OBVIOUS
    <3> QED BY <2>1, <3>1
  <2>2. CASE b # 0
    <3>1. b - 1 \in Nat /\ b - 1 < b
      BY <2>2
    <3>2. b - 1 \notin bounds
      BY <1>3, <3>1
    <3> QED BY <3>1, <3>2
  <2> QED BY <2>1, <2>2
<1>5. \E n \in places : \A m \in places : m <= n
  BY <1>4
<1> QED BY <1>5 DEF Longest

LEMMA LongestOfText ==
  ASSUME NEW text \in Text
  PROVE  Longest(text) \in text /\ Longest(text) \in Nat
BY DEF Text, Longest

\* Cut or not, a text takes no more than its room, and something of it is left.
LEMMA EscapedFits ==
  ASSUME NEW text \in Text, NEW max \in Int
  PROVE  /\ escapeWithinBytes(text, max) \in Nat
         /\ max >= 0 => escapeWithinBytes(text, max) <= max
         /\ max <= 0 => escapeWithinBytes(text, max) = 0
         /\ Longest(text) > 0 /\ max >= Ellipsis => escapeWithinBytes(text, max) > 0
<1>1. Ellipsis \in Nat \ {0} /\ Longest(text) \in Nat
  BY MessageAssumption, LongestOfText
<1> DEFINE room == {n \in text : n = 0 \/ n <= max - Ellipsis}
           used == Longest(room)
<1>2. used \in room
  <2>1. room \in SUBSET Nat /\ 0 \in room
    BY DEF Text
  <2>2. \E b \in Nat : \A n \in room : n <= b
    <3>1. CASE max - Ellipsis >= 0
      BY <1>1, <2>1, <3>1
    <3>2. CASE ~ (max - Ellipsis >= 0)
      BY <1>1, <2>1, <3>2
    <3> QED BY <3>1, <3>2
  <2> HIDE DEF room
  <2> QED BY <2>1, <2>2, LongestExists
<1>3. used \in Nat /\ (used = 0 \/ used <= max - Ellipsis)
  BY <1>2 DEF Text
<1>4. escapeWithinBytes(text, max) =
        IF max <= 0 \/ Longest(text) = 0 THEN 0
        ELSE IF Longest(text) <= max - Ellipsis THEN Longest(text)
        ELSE IF used + Ellipsis <= max THEN used + Ellipsis ELSE used
  BY DEF escapeWithinBytes
<1> HIDE DEF used
<1> QED BY <1>1, <1>3, <1>4

LEMMA BudgetIsEnough ==
  ASSUME NEW kind \in Text, NEW actor \in Text, NEW target \in Text
  PROVE  /\ Budget(kind, actor, target) \in Nat
         /\ Budget(kind, actor, target) >= Ellipsis
         /\ HeaderSize(kind, actor) \in Nat /\ FooterSize(target) \in Nat
<1>1. /\ MaxName \in Nat /\ MaxLink \in Nat /\ InBold \in Nat /\ Dot \in Nat
      /\ InLink \in Nat /\ Gap \in Nat /\ Ellipsis \in Nat /\ MaxMessage \in Nat
      /\ InBold + MaxName + Dot + MaxName + InLink + MaxLink + Gap + Ellipsis < MaxMessage
  BY MessageAssumption
<1>2. /\ escapeWithinBytes(kind, MaxName) \in 0 .. MaxName
      /\ escapeWithinBytes(actor, MaxName) \in 0 .. MaxName
      /\ escapeWithinBytes(target, MaxLink) \in 0 .. MaxLink
  BY <1>1, EscapedFits
<1>3. HeaderSize(kind, actor) \in 0 .. (InBold + MaxName + Dot + MaxName)
  BY <1>1, <1>2 DEF HeaderSize
<1>4. FooterSize(target) \in 0 .. (InLink + MaxLink)
  BY <1>1, <1>2 DEF FooterSize
<1> QED BY <1>1, <1>3, <1>4 DEF Budget

LEMMA DeliveredTexts ==
  ASSUME ClientTypeOK, NEW n \in Delivered
  PROVE  n.kind \in Text /\ n.actor \in Text /\ n.content \in Text /\ Link(n) \in Text
<1>1. PICK a \in Answers : \E i \in DOMAIN a.doc.items : n = a.doc.items[i]
  BY DEF ClientTypeOK, Exchanges, Delivered
<1>2. a.doc.items \in Seq(Item)
  BY AnswersAssumption DEF Document
<1>3. n \in Item
  BY <1>1, <1>2
<1>4. {0} \in Text
  BY DEF Text
<1> QED BY <1>3, <1>4 DEF Item, Link

\* message.go:8: no message is too long for Telegram, whatever the texts.
THEOREM EveryMessageFits == ClientSpec => []MessageFits
<1>1. ClientTypeOK => MessageFits
  <2> SUFFICES ASSUME ClientTypeOK, NEW n \in Delivered
               PROVE  FormatNotification(n.kind, n.actor, n.content, Link(n)) <= MaxMessage
    BY DEF MessageFits
  <2>1. n.kind \in Text /\ n.actor \in Text /\ n.content \in Text /\ Link(n) \in Text
    BY DeliveredTexts
  <2> DEFINE room == Budget(n.kind, n.actor, Link(n))
             header == HeaderSize(n.kind, n.actor)
             footer == FooterSize(Link(n))
  <2>2. room \in Nat /\ header \in Nat /\ footer \in Nat
    BY <2>1, BudgetIsEnough
  <2>3. room = MaxMessage - header - footer - Gap
    BY DEF Budget
  <2>4. escapeWithinBytes(n.content, room) \in Nat /\ escapeWithinBytes(n.content, room) <= room
    BY <2>1, <2>2, EscapedFits
  <2>5. FormatNotification(n.kind, n.actor, n.content, Link(n))
          = header + Gap + escapeWithinBytes(n.content, room) + footer
    BY DEF FormatNotification
  <2>6. Gap \in Nat /\ MaxMessage \in Nat
    BY MessageAssumption
  <2> HIDE DEF room, header, footer
  <2> QED BY <2>2, <2>3, <2>4, <2>5, <2>6
<1> QED BY <1>1, TypeCorrect, PTL

\* Whatever else a message holds, something of its content is shown.
THEOREM SomeContentIsShown == ClientSpec => []ContentIsShown
<1>1. ClientTypeOK => ContentIsShown
  <2> SUFFICES ASSUME ClientTypeOK, NEW n \in Delivered, Longest(n.content) > 0
               PROVE  escapeWithinBytes(n.content, Budget(n.kind, n.actor, Link(n))) > 0
    BY DEF ContentIsShown
  <2> QED BY DeliveredTexts, BudgetIsEnough, EscapedFits
<1> QED BY <1>1, TypeCorrect, PTL
=============================================================================
