------------------------------- MODULE Store -------------------------------
(***************************************************************************)
(* The SQLite database of internal/manager/store.go.  One connection       *)
(* (SetMaxOpenConns(1)) makes each statement, and each transaction, one    *)
(* step; foreign keys are on.  The operators are the statements: a query   *)
(* is a state function, an update a constraint on the primed tables that   *)
(* it writes.                                                              *)
(*                                                                         *)
(* The tables hold forum users, cookies and notifications of module Forum; *)
(* next_poll_at is kept as due, whether it has been reached; ciphers and   *)
(* chat ids do not vary once the cookie and the user are given.            *)
(***************************************************************************)
EXTENDS Forum

CONSTANTS
  User,        \* Telegram ids
  MaxUsers,    \* MAX_USERS
  SeenLimit,   \* the 2048 of AddSeen
  NoAccount    \* no row in accounts

ASSUME StoreAssumption ==
  /\ MaxUsers \in Nat
  /\ SeenLimit \in Nat \ {0}

VARIABLES
  account,     \* [User -> Account \cup {NoAccount}]
  seen,        \* [User -> Seq(Notification)]: seen_notifications in the order of seen_at,
               \* each row the notification whose id was inserted
  banned,      \* banned_users
  globalPause  \* runtime_settings.global_pause

store == <<account, seen, banned, globalPause>>

Status == {"active", "paused", "rebind_required"}

Account == [forum : ForumUser, cookie : Cookie, status : Status,
            due : BOOLEAN, alerted : BOOLEAN]

ASSUME NoAccountAssumption == NoAccount \notin Account

Bound(u) == account[u] # NoAccount

SeenIds(u) == {seen[u][i] : i \in 1 .. Len(seen[u])}

StoreTypeOK ==
  /\ account \in [User -> Account \cup {NoAccount}]
  /\ seen \in [User -> Seq(Notification)]
  /\ banned \in SUBSET User
  /\ globalPause \in BOOLEAN

StoreInit ==
  /\ account = [u \in User |-> NoAccount]
  /\ seen = [u \in User |-> <<>>]
  /\ banned = {}
  /\ globalPause = FALSE

-----------------------------------------------------------------------------
(* Queries.                                                                *)

IsSeen(u, n) == \E m \in SeenIds(u) : SameId(m, n)

Due == {u \in User : Bound(u) /\ account[u].status = "active" /\ account[u].due}

-----------------------------------------------------------------------------
(* Updates of accounts: an UPDATE that finds no row changes nothing.       *)

Update(u, row) == account' = IF Bound(u) THEN [account EXCEPT ![u] = row] ELSE account

Schedule(u, now) == Update(u, [account[u] EXCEPT !.due = now])

SetStatus(u, s) == Update(u, [account[u] EXCEPT !.status = s])

\* The second statement of MarkRebind.
MarkRebind(u) ==
  Update(u, [account[u] EXCEPT !.status = "rebind_required", !.alerted = TRUE])

-----------------------------------------------------------------------------
(* Bind, one transaction.                                                  *)

Changed(u, f) == ~ Bound(u) \/ account[u].forum # f

HasRoomForOneMore(u) ==   \* mutant: the limit is off by one
  Bound(u) \/ Cardinality({v \in User : Bound(v)}) <= MaxUsers

HasRoom(u) == Bound(u) \/ Cardinality({v \in User : Bound(v)}) < MaxUsers

\* INSERT OR IGNORE of all of s into an empty history: the first of each id.
InsertAll(u, s) ==
  LET kept == {i \in 1 .. Len(s) : \A j \in 1 .. (i - 1) : ~ SameId(s[j], s[i])}
  IN  \E row \in [1 .. Cardinality(kept) -> kept] :
        /\ \A q, r \in DOMAIN row : q < r => row[q] < row[r]
        /\ \A i \in kept : \E r \in DOMAIN row : row[r] = i
        /\ seen' = [seen EXCEPT ![u] = [r \in DOMAIN row |-> s[row[r]]]]

Bind(u, f, c, baseline) ==
  /\ account' = [account EXCEPT ![u] =
                   [forum |-> f, cookie |-> c, status |-> "active",
                    due |-> TRUE, alerted |-> FALSE]]
  /\ IF Changed(u, f) THEN InsertAll(u, baseline) ELSE UNCHANGED seen

\* Unbind, and the DELETE of Ban: ON DELETE CASCADE empties the history.
Delete(u) ==
  /\ account' = [account EXCEPT ![u] = NoAccount]
  /\ seen' = [seen EXCEPT ![u] = <<>>]

-----------------------------------------------------------------------------
(* AddSeen, one transaction.  The foreign key refuses it without a row;    *)
(* INSERT OR IGNORE keeps the first seen_at; the oldest rows are trimmed.  *)

TrimmedNever(s) == s   \* mutant: the DELETE is missing

\* mutant: the DELETE keeps the oldest
TrimmedLatest(s) == IF Len(s) <= SeenLimit THEN s ELSE SubSeq(s, 1, SeenLimit)

Trimmed(s) == IF Len(s) <= SeenLimit THEN s ELSE SubSeq(s, Len(s) - SeenLimit + 1, Len(s))

AddSeenWithoutRow(u, n) ==   \* mutant: foreign_keys is off
  seen' = [seen EXCEPT ![u] = Trimmed(IF IsSeen(u, n) THEN @ ELSE Append(@, n))]

AddSeen(u, n) ==
  /\ Bound(u)
  /\ seen' = [seen EXCEPT ![u] = Trimmed(IF IsSeen(u, n) THEN @ ELSE Append(@, n))]
=============================================================================
