---------------------------- MODULE PollSession ----------------------------
(***************************************************************************)
(* What the scheduler and its workers promise about one account, whatever  *)
(* the order of their steps: an account is queued only when it is at rest, *)
(* a queued account is polled once, by one worker, and only then is it at  *)
(* rest again.  At most Capacity accounts are queued and at most           *)
(* Parallelism are polled at any moment.                                   *)
(***************************************************************************)
EXTENDS Naturals, FiniteSets

CONSTANTS
  Account,      \* the accounts that may be polled
  Capacity,     \* the accounts the job channel can hold
  Parallelism   \* the accounts the workers can poll side by side

VARIABLE phase  \* [Account -> {"resting", "queued", "polled"}]

InPhase(p) == {a \in Account : phase[a] = p}

Init == phase = [a \in Account |-> "resting"]

\* The scheduler hands a resting account to the job channel.
Queue(a) ==
  /\ phase[a] = "resting"
  /\ Cardinality(InPhase("queued")) < Capacity
  /\ phase' = [phase EXCEPT ![a] = "queued"]

\* A worker takes a queued account.
Start(a) ==
  /\ phase[a] = "queued"
  /\ Cardinality(InPhase("polled")) < Parallelism
  /\ phase' = [phase EXCEPT ![a] = "polled"]

\* The worker returns from the poll.
End(a) ==
  /\ phase[a] = "polled"
  /\ phase' = [phase EXCEPT ![a] = "resting"]

Next == \E a \in Account : Queue(a) \/ Start(a) \/ End(a)

Spec == Init /\ [][Next]_phase
=============================================================================
