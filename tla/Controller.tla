----------------------------- MODULE Controller -----------------------------
(***************************************************************************)
(* The handlers of internal/manager/controller.go that touch the database. *)
(* The lock of a user (userLocks) admits one handler at a time, so its     *)
(* local variables are functions on User; the handlers of other users, the *)
(* administrators and the polls run in between its statements.             *)
(***************************************************************************)
EXTENDS Store

CONSTANTS
  NoCookie,    \* no credential
  Commands,    \* bound of the model: the kinds of command that are sent
  MaxBinds     \* bound of the model: bindings per user

ASSUME ControllerAssumption ==
  /\ Commands \subseteq {"bind", "status", "unbind", "ban", "pause"}
  /\ MaxBinds \in Nat

VARIABLES
  cpc,         \* [User -> Stage]: where the handler of the user is
  cred,        \* [User -> Cookie \cup {NoCookie}]: the credential being bound
  latest,      \* [User -> Seq(Notification)]: the page it was validated with
  baseline,    \* [User -> Seq(Notification)]
  target,      \* [User -> {"active", "paused"}]: setStatus's argument
  binds        \* [User -> Nat]: how often Store.Bind succeeded

Stage == {"idle", "validate", "lookup", "bind", "status", "now"}

handler == <<cpc, cred, latest, baseline, target>>
controller == <<handler, binds>>

ControllerTypeOK ==
  /\ cpc \in [User -> Stage]
  /\ cred \in [User -> Cookie \cup {NoCookie}]
  /\ \A u \in User : cpc[u] \in {"validate", "lookup", "bind"} => cred[u] \in Cookie
  /\ latest \in [User -> Seq(Notification)]
  /\ baseline \in [User -> Seq(Notification)]
  /\ target \in [User -> {"active", "paused"}]
  /\ binds \in [User -> Nat]

\* No handler is running.
HandlersIdle ==
  /\ cpc = [u \in User |-> "idle"]
  /\ cred = [u \in User |-> NoCookie]
  /\ latest = [u \in User |-> <<>>]
  /\ baseline = [u \in User |-> <<>>]
  /\ target = [u \in User |-> "active"]

\* The end of the process: every running handler is gone.
ForgetHandlers ==
  /\ cpc' = [u \in User |-> "idle"]
  /\ cred' = [u \in User |-> NoCookie]
  /\ latest' = [u \in User |-> <<>>]
  /\ baseline' = [u \in User |-> <<>>]
  /\ target' = [u \in User |-> "active"]

ControllerInit ==
  /\ HandlersIdle
  /\ binds = [u \in User |-> 0]

-----------------------------------------------------------------------------
Stay(u, s) == cpc' = [cpc EXCEPT ![u] = s]

In(u, s) == cpc[u] = s

\* The handler returns and unlocks.
Done(u) ==
  /\ Stay(u, "idle")
  /\ cred' = [cred EXCEPT ![u] = NoCookie]
  /\ latest' = [latest EXCEPT ![u] = <<>>]
  /\ baseline' = [baseline EXCEPT ![u] = <<>>]
  /\ target' = [target EXCEPT ![u] = "active"]

-----------------------------------------------------------------------------
(* handleCredential.                                                       *)

\* The message is deleted, the rate limit allows it, and the user is not banned.
CredentialReceive(u) ==
  /\ "bind" \in Commands
  /\ In(u, "idle")
  /\ u \notin banned
  /\ binds[u] < MaxBinds
  /\ \E c \in Cookie : cred' = [cred EXCEPT ![u] = c]
  /\ Stay(u, "validate")
  /\ UNCHANGED <<store, forum, latest, baseline, target, binds>>

\* FetchPage of page 1 with the new credential.
Validate(u) ==
  /\ In(u, "validate")
  /\ cred[u] \in live
  /\ latest' = [latest EXCEPT ![u] = PageItems(Owner[cred[u]], 1)]
  /\ Stay(u, "lookup")
  /\ UNCHANGED <<store, forum, cred, baseline, target, binds>>

\* It failed: nothing is saved.
ValidateFails(u) ==
  /\ In(u, "validate")
  /\ Done(u)
  /\ UNCHANGED <<store, forum, binds>>

LookupNothing(u) ==   \* mutant: a new binding has no baseline
  /\ In(u, "lookup")
  /\ baseline' = [baseline EXCEPT ![u] = <<>>]
  /\ Stay(u, "bind")
  /\ UNCHANGED <<store, forum, cred, latest, target, binds>>

LookupWholePage(u) ==   \* mutant: the latest notification is in the baseline too
  /\ In(u, "lookup")
  /\ baseline' = [baseline EXCEPT ![u] =
                    IF Changed(u, Owner[cred[u]]) THEN latest[u] ELSE <<>>]
  /\ Stay(u, "bind")
  /\ UNCHANGED <<store, forum, cred, latest, target, binds>>

\* Account: for a new user or a changed UID all but the latest notification of
\* the page become the baseline.
Lookup(u) ==
  /\ In(u, "lookup")
  /\ baseline' = [baseline EXCEPT ![u] =
                    IF Changed(u, Owner[cred[u]]) /\ latest[u] # <<>>
                    THEN Tail(latest[u]) ELSE <<>>]
  /\ Stay(u, "bind")
  /\ UNCHANGED <<store, forum, cred, latest, target, binds>>

\* Store.Bind.
Save(u) ==
  /\ In(u, "bind")
  /\ HasRoom(u)
  /\ Bind(u, Owner[cred[u]], cred[u], baseline[u])
  /\ binds' = [binds EXCEPT ![u] = @ + 1]
  /\ Done(u)
  /\ UNCHANGED <<banned, globalPause, forum>>

\* ErrCapacity, or the database failed.
SaveFails(u) ==
  /\ In(u, "bind")
  /\ Done(u)
  /\ UNCHANGED <<store, forum, binds>>

-----------------------------------------------------------------------------
(* /pause and /resume: setStatus.                                          *)

\* IsBanned and Account: the credential must not be known to have failed.
StatusRead(u) ==
  /\ "status" \in Commands
  /\ In(u, "idle")
  /\ u \notin banned
  /\ Bound(u)
  /\ account[u].status # "rebind_required"
  /\ \E s \in {"active", "paused"} : target' = [target EXCEPT ![u] = s]
  /\ Stay(u, "status")
  /\ UNCHANGED <<store, forum, cred, latest, baseline, binds>>

\* UPDATE of the status; where no row is left to update, nothing else follows.
StatusWrite(u) ==
  /\ In(u, "status")
  /\ SetStatus(u, target[u])
  /\ IF Bound(u) /\ target[u] = "active"
     THEN Stay(u, "now") /\ UNCHANGED <<cred, latest, baseline, target>>
     ELSE Done(u)
  /\ UNCHANGED <<seen, banned, globalPause, forum, binds>>

\* The database failed.
StatusWriteFails(u) ==
  /\ In(u, "status")
  /\ Done(u)
  /\ UNCHANGED <<store, forum, binds>>

\* Nobody looks whether Schedule failed.
ScheduleNow(u) ==
  /\ In(u, "now")
  /\ Schedule(u, TRUE) \/ UNCHANGED account
  /\ Done(u)
  /\ UNCHANGED <<seen, banned, globalPause, forum, binds>>

-----------------------------------------------------------------------------
(* The confirmed /unbind, which no ban stops, and the administrators'      *)
(* commands, which do not hold the lock of the user they name.             *)

Unbind(u) ==
  /\ "unbind" \in Commands
  /\ In(u, "idle")
  /\ Delete(u)
  /\ UNCHANGED <<banned, globalPause, forum, controller>>

Ban(u) ==
  /\ "ban" \in Commands
  /\ Delete(u)
  /\ banned' = banned \cup {u}
  /\ UNCHANGED <<globalPause, forum, controller>>

Unban(u) ==
  /\ "ban" \in Commands
  /\ banned' = banned \ {u}
  /\ UNCHANGED <<account, seen, globalPause, forum, controller>>

SetGlobalPaused ==
  /\ "pause" \in Commands
  /\ globalPause' = ~ globalPause
  /\ UNCHANGED <<account, seen, banned, forum, controller>>

Handle(u) ==
  \/ Validate(u) \/ ValidateFails(u) \/ Lookup(u) \/ Save(u) \/ SaveFails(u)
  \/ StatusWrite(u) \/ StatusWriteFails(u) \/ ScheduleNow(u)

Command(u) ==
  CredentialReceive(u) \/ StatusRead(u) \/ Unbind(u) \/ Ban(u) \/ Unban(u)
=============================================================================
