# A verification of sb-manager-bot

sb-manager-bot is a Telegram bot (Go, `src/`) that logs in to a forum with the
cookies its users give it, polls each user's notification pages and forwards
what is new.  This directory holds TLA+ modules translated from its source, TLC
configurations that check them on small instances, and proofs that TLAPS checks.
Line numbers refer to `src/internal/manager/` unless another path is given.

    tlc -workers 2 -config Bot_races.cfg MCBot.tla     # any run below
    tlapm DispatchProofs.tla      # the proofs, and BotProofs, BotCountProofs,
                                  # BotOrderProofs, BotDeliveryProofs, BotRepeatProofs,
                                  # ForumClientProofs, ServiceProofs

## Inventory

| component | state | operations | correct when |
|---|---|---|---|
| Scheduler and workers: `Poller.Run`, `enqueue` (poller.go) | channel `jobs` (twice the workers), map `inFlight`, the local rows of a round, one `Account` value per worker | ticker round: pause check, `Due`, per row test-and-set of the mark, push or take the mark back; worker: take, poll, delete the mark | an account is queued or polled at most once; no mark is left behind; no account starves; after a pause everything drains |
| Poll of one account: `poll`, `handleError` (poller.go) | the account snapshot, the page, `fresh` | up to ten `FetchPage`, `IsSeen` per item, `SendHTML` + `AddSeen` oldest first, `Schedule`, `MarkRebind` + warning, breaker | nothing skipped, nothing lost, repeats only where a step failed, one warning per credential |
| Store (store.go) | `accounts`, `seen_notifications`, `banned_users`, `runtime_settings` | one SQL statement or transaction per call, on one connection | capacity, cascade, bounded history |
| Command handlers: `Controller` (controller.go) | a lock per user, rate windows | `/bind`, `/pause`, `/resume`, `/unbind`, `/status`, administrators' statistics, pause, resume, ban, unban | a check still holds when its write happens |
| Forum client and request gate (forum.go) | shared limiter, cool-down time | `Wait`, `Cooldown`, `FetchPage`, `parseRetryAfter` | at most the configured rate; a client that was told to wait waits; one request at most per client and cool-down; every fetch ends |
| Page parser (parser.go) | none | items, their ids, next page, login and structure errors | a page is understood as a whole or not at all; a logged-out session is told from a changed page |
| Messages (message.go) | none | `FormatNotification`, `escapeWithinBytes` | never above the limit, whatever the texts are; the content still shows |
| Credential parser, cipher (credential.go, cipher.go) | none | pure conversions | values round-trip |
| Telegram adapter (telegram.go) | `update_offset`, eight update workers | fetch, dispatch, store the offset | no update overlooked, none repeated that was recorded |
| Health endpoint, life cycle, configuration (health.go, config.go, cmd/sb-manager-bot/main.go) | contexts and wait groups | start, `/readyz`, ordered shutdown | ends in time, nothing is used after it is closed |
| Browser extension and userscript | none | make the credential text | (outside the bot) |

How they interact: the ticker hands `Account` values that it read from the store
to workers over the channel; a value is never read again.  A poll and the command
handlers meet only in the database, where every statement is atomic and no
transaction spans two calls.  The forum changes under a poll.  The
process may end at any time, and only the database survives.

What is hard: a row that is stale by the time it is used (queue, poll, handler);
check-then-write in two statements; pages of one poll that are fetched at
different times; ids that the parser gives twice; a cool-down that is looked at once by clients that then queue; updates that
finish in another order than they came; the order in which a shutdown waits and closes; the step between a delivery and its record; the bookkeeping of
marks on the path where the channel is full; starvation behind the limit of
`Due`.  `PROJECT.json` lists these as hazards, each with its line and the
properties for it.

## Modules

| module | models | built on |
|---|---|---|
| `PollSession` | abstract: an account rests, is queued, or is polled, within the capacity of the queue and the number of workers | |
| `Dispatch` | `Run`, `enqueue`, the workers, and the columns that make an account due | shown to implement `PollSession` |
| `DispatchProofs` | theorems about `Dispatch` | `Dispatch` |
| `Forum` | the forum as `FetchPage` sees it (external, from the use made of it) | |
| `Store` | the tables and the statements | `Forum` |
| `Poller` | `poll` and `handleError`, one step per call | `Store` |
| `Controller` | the handlers that write to the database, one step per statement | `Store` |
| `Delivery` | abstract: what is posted is delivered in order, one at a time, from a binding on, unless an id that comes twice hides it | |
| `Bot` | polls, handlers, forum, clock and restarts together | `Poller`, `Controller`; shown to implement `Delivery` |
| `BotProofs` | theorems about `Bot`: types, what a history holds, the capacity | `Bot` |
| `BotCountProofs` | theorems about `Bot`: lengths, warnings, strays | `BotProofs` |
| `BotOrderProofs` | the theorem that nothing is skipped | `BotProofs` |
| `BotDeliveryProofs` | the theorem that `Bot` implements `Delivery` | `BotOrderProofs` |
| `BotRepeatProofs` | theorems about what is repeated, and what a first binding leaves unsent | `BotCountProofs`, `BotDeliveryProofs` |
| `RequestGate` | `Wait`, `Cooldown`, `parseRetryAfter`, in ticks | |
| `Page` | `FetchPage`'s reading of an answer, `ParseNotificationPage`, `notificationID`, `resolveForumURL` | |
| `Message` | `FormatNotification`, `escapeWithinBytes`, in bytes | |
| `ForumClient` | the clients of the forum: gate, answer, and the message made of an item | `RequestGate`, `Page`, `Message` |
| `ForumClientProofs` | theorems about `ForumClient` | `ForumClient` |
| `Updates` | from Telegram over the library's workers, the user locks and the rate limit to `update_offset` | |
| `Service` | `main.run`: start, ordered shutdown, crash | `Updates` |
| `ServiceProofs` | theorems about `Service` | `Service` |
| `MCDispatch`, `MCBot`, `MCForumClient`, `MCService` | values of constants for TLC | |

**Dispatch.**  `round` is where `enqueue` is and `batch` the rows `Due` returned.
`EnqueueBegin` is the pause check (poller.go:80), `EnqueueLoad` the query with its
`ORDER BY next_poll_at LIMIT` (store.go:231), and each row in its place is one of
`EnqueueSkip`, `EnqueuePush`, `EnqueueFull` (the `default` of the `select`,
poller.go:101).  Test and set of the mark and the push are one action because they
do not give up the mutex to anybody who could tell; the worker's receive, poll
and deletion of the mark are three.  A poll ends in one of four ways:
`PollSucceeds`, `PollFails`, `PollRejected`, `PollAbandoned`, each with exactly
what it writes to the row.  Time is relative: `wait[u]` is `next_poll_at` minus
now, `Tick` lowers all of them, and how far an account is overdue is kept only as
its rank among the others up to `MaxLate`, which is all that `Due` compares.

**Store, Poller, Controller, Bot.**  The operators of `Store` are the SQL
statements: an `UPDATE` that finds no row changes nothing, `ON DELETE CASCADE`
empties the history, `AddSeen` fails without its parent row, ignores a duplicate
and trims.  In `Poller`, `pc[u]` is the next call `poll` makes for user u; the
local variables are functions on users because at most one poll per user runs at
a time, which is theorem `AtMostOnePoll`.  The row that `enqueue` has read and not
yet pushed is `batch[u]` and may be older than the poll that is running:
`ReadDue` and `StartPoll` are two steps, and any time may pass between them.
In `Controller`, `cpc[u]` is where the handler of user u is;
the lock of a user lets one run at a time, which is theorem `NeverTwoHandlers` of
`ServiceProofs` (users whose ids collide in `userLocks` even share one, which only removes
interleavings), and an administrator's command does not
take the lock of the user it names.  `Bot` adds `Restart` (a stop
or a crash, at any point) and the variable `history`: what a user's binding found
on the forum and, as README.md:51 promises, does not send.  `hidden` holds what a poll has passed over because of an id.  `sent`, `repeats`,
`strays`, `alerts`, `binds` and `begun` (the bindings to a first or another forum user) record
what happened and no step depends on them, except that `binds` and `faults` bound the model.

**RequestGate, Page, Message, ForumClient.**  `at[c]` is where client c is in `FetchPage`:
it looks at the cool-down (`Look`) and sleeps it out without the mutex (`Wake`), takes a token
or reserves a future one (`Reserve`, the limiter's own accounting, with `tokens` below zero
for reservations), leaves, and meets one of the answers.  Time is discrete: in a `Tick` the limiter earns a
token, and every timer loses one.  A timer that has run out does not hold up the clock, so a
goroutine may wake up as late as it likes.  `Wrapped` is the multiplication of `Retry-After` in a
duration of finite width: `Half` stands for 2^63 nanoseconds.  A 429 raises the
cool-down and never lowers it.  `recent`, `left` and `owed` record departures and debts
and are read by no step; `recent[k]` counts the departures of the latest k ticks, so that no
property needs a sum.  In `Page` a document is the outcome of the searches in its HTML, and the
results are those of the code's checks, in their order.  In `Message` a text is the set of
places where it can be cut, in bytes after escaping, because that is all that
`escapeWithinBytes` looks at: an escaped character can be cut before or after, never inside.
`fetched` is the latest exchange, on which the properties of pages and messages are stated.

**Updates, Service.**  Telegram and the library are external: the library keeps the last id it
saw, confirms everything up to it with the next request, and hands the updates to
workers that finish in any order.  `stage[w]` is where worker w is in `handle` (telegram.go:50): it
takes an update, gets the sender's lock, is counted by `allow` or turned away, acts, unlocks, and records
`UpdateOffset(id + 1)`, which only raises the stored value.  `window` is the entry of
`c.commands`; the map for credentials is used by the same function with other numbers.
`phase` is where `main.run` is: up, draining the health server, waiting
for the services, closed, down.  A cancelled context makes the calls of a worker fail
(`Abandon`, `RecordFails`) and ends its loop (`WorkerReturns`); polls and probes matter here only
because they use the store until they return (`polling`, `probing`).  `TimeOut` is the ten
seconds of the shutdown and may come at any time; `Crash` ends the process at any step.
`ages` and `ends` say how long ago the latest commands were admitted, by any process, and the latest processes ended; with `handled`, `recorded`, `dropped` and `late` they record what happened.

**Ids.**  The bot tells notifications apart by `notificationID` (parser.go:86), and for one with a
`reply_id` this is the path, the reply and the kind: two that differ only in actor or time
have the same id.  A notification of the model is its forum user and its number in that user's
list, and the constant `Id` gives the id of each; any function will do, one with an id per
notification as well as one with the same id for all.  The history holds the notifications whose
ids were inserted, at most one of each id (`INSERT OR IGNORE`, in `InsertAll` and `AddSeen`), and `IsSeen`
compares ids.  When a poll meets an id that it has dealt with on another notification
it stops there, and that notification and whatever is unseen below it are never sent; the step
that does so puts them into `hidden` (`Mistakes`, and `Hide` in `Delivery`).  So the loss is in the properties, as what
it is: `NothingSkipped`, `EverythingArrives` and `ImplementsDelivery` allow it where such an id was met, and nowhere else.

**Abstractions.**  A credential is a cookie and its forum user;
opening a stored cookie cannot fail, since the key is validated at start-up
(`ValidateCookies`); message texts, logs and redaction are left out.  A failing
store, forum or Telegram call of a poll is a step of its own that costs one of
`MaxFaults`; a failing send may have delivered.  The handlers' failing calls are steps too and cost nothing (`ValidateFails`, `SaveFails`, `StatusWriteFails`, the `Schedule` of
`ScheduleNow`); a command whose single call fails changes nothing and has no step.  In `Bot` the rate limit of
commands only drops commands, which the model may do anyway.  `BaselineFirstPage` has no caller
and is left out.

## Runs

| run | instance | shows |
|---|---|---|
| `dispatch_turns` | 3 users, 1 worker, so 2 places in the channel and a limit of 2 rows | `TypeOK`, `InFlightIsExact`, `DueAccountIsClaimed` (fair), and `ImplementsPollSession` |
| `dispatch_workers` | 2 users, 2 workers, commands for one user, one fault | `OnePollPerAccount`, `ClaimIsReleased`, `PauseQuiesces` (fair) |
| `bot_races` | 1 user, 2 forum users with a cookie each and the same ids, binds twice, unbind, ban | `TypeOK`, `SeenWasSent`, `NothingSkipped`, `OneWarningPerBinding`, `NoHistoryWithoutAccount`, `FewStrays`, `HistoryIsBounded` |
| `bot_single` | 2 users for one place (`MAX_USERS`), two bindings each, all on one page, the first and the third notification with one id, pause and resume, a fault or restart | `RepeatsAreFaults`, `HistoryIsNotSent`, `WithinCapacity` |
| `bot_live` | 1 user, four notifications on pages of one, two of which a poll reads, the first and the third with one id, global pause, a fault or restart | `SeenWasSent`, `NothingSkipped`, `ImplementsDelivery`, `EverythingArrives`, `ExpiryIsNoticed` (fair) |
| `forum_client` | 2 clients, burst of 2, every kind of answer, a stop; 119 142 states | `ClientTypeOK`, `RateIsKept`, `OwnRetryAfterIsKept`, `OnceDuringCooldown`, `LoggedOutIsNotStructure`, `PageIsWhole`, `MessageFits`, `ContentIsShown`, `EveryFetchEnds` (fair) |
| `service` | 2 workers, 3 updates of 2 users with one lock, one signal or crash; 212 308 states | `TypeOK`, `NothingIsOverlooked`, `RecordedIsOver`, `OffsetNeverFalls`, `TwiceTheLimit`, `OneHandlerPerUser`, `CloseIsLast`, `ShutdownEnds`, `EveryUpdateEnds` (fair) |

What the two last ones say in words.  The gate does not keep the forum free of requests during a
cool-down, since `Wait` looks at it once and then queues: `OnceDuringCooldown` says how far that goes
(a client leaves at most once before the cool-down is over or raised), and
`OwnRetryAfterIsKept` that the client which was told to wait does wait, whatever
shorter time another one is told.  That a client does not look again is also what
makes `EveryFetchEnds` true.  An update is lost only when a process ends with it
in its hands (`NothingIsOverlooked`, `EveryUpdateEnds`): the stored offset is the largest
finished update, so a smaller one that is under way at a crash is not asked
for again; the properties allow this loss and confine it.  An update is never handled twice once it is recorded (`RecordedIsOver`).  A fixed
window lets more than its limit through around its border, but fewer than twice as many in any time as long as a window; each end of the
process in that time forgets the window and lets at most the limit more through (`TwiceTheLimit`).  A signal ends the process without the help of the ten-second timeout (`ShutdownEnds`), and
unless that came first no poll, handler or probe meets a closed store (`CloseIsLast`).

Five further runs show where the code departs from what the repository says of it;
each checks one property and TLC's trace is the argument.

| run | property | what happens |
|---|---|---|
| `dispatch_backoff` | `BackoffIsKept` (README.md:70) | A round reads a row while its account is being polled; the poll fails and schedules its retry; the round then reaches the row, finds no mark and pushes it: the retry comes at once, with the old failure count. |
| `bot_status_race` | `RebindStands` (controller.go:209) | `/resume` reads `active`, a poll marks `rebind_required`, `/resume` writes `active`.  `auth_alerted` stays set, so the next refusal is silent. |
| `bot_ban_race` | `BannedIsUnbound` (store_test.go:133) | `/bind` passes `IsBanned`, the ban deletes the row, `Store.Bind` makes a new one. |
| `bot_page_shift` | `NoRepeats` (controller.go:180) | A notification posted between two `FetchPage` calls moves the last item of page 1 to page 2; `fresh` holds it twice and it is sent twice. |
| `bot_cookie_race` | `RebindIsDeserved` (README.md:71) | A poll is refused with the old cookie, the user binds a good one, `MarkRebind` marks the row by its user id. |

Three relatives of these follow from the same causes and have no run: a ban between the query of the
account (controller.go:160) and `Store.Bind` turns a replaced cookie into a first binding without a
baseline; a poll that outlives a change of forum user files notifications of the old one in the
new history; a poll that outlives `/unbind` finds no baseline and sends one notification that the
binding had left out.  This is
why `RepeatsAreFaults` and `HistoryIsNotSent` are about a user's first binding (`FirstBinding`), and why
`FewStrays` says how many messages a poll can send after its binding has ended.

### Bounds

- `MaxFeed` and `PageSize`: in `bot_live` a poll reads two of four pages of one item, so a page can shift under it, a poll can find
  several new items, a call can fail between two of them, and items sink out of reach; `bot_races` has
  two notifications on one page, and what needs a second page or a fault is left to `bot_live`.
  `bot_single` has one page of 3, because repeats on shifted pages are the subject of
  `bot_page_shift`, and then a baseline of 2, which is longer than its `SeenLimit`.  `MaxPages` is 2, for the code's 10; what it cuts off is `OutOfReach`.
- `Id`: `FirstIsThird` has a known id come back with an unseen notification in between, which is the smallest case
  in which something is hidden below the one that repeats it; `SameReplies` gives the notifications of two forum users
  the same ids, so that those of one could be taken for those of the other when a user changes between them.
  The runs that show a departure of the code have an id for each, so that nothing else is involved.  The theorems have every `Id`.
- `SeenLimit` is 1 where the trim matters: the smallest history that still holds the
  item at which the next poll stops, so a trim of the wrong end shows at once.  It is 3
  in the runs that are not about it.
- `MaxBinds` 2 has a binding after an unbinding, and one that changes the forum user
  while a poll of the first goes on.  A third adds no new pair of a poll and a binding, because
  at most one poll and one waiting row exist.
- `MaxFaults` 1: a failure or restart in any step.  `bot_races` has none, which pays for the second forum
  user: a poll that fails there only ends earlier, as one does that outlives its row.  All invariants
  of `bot_races` and `bot_single` are proved for any number of faults.
- `MaxLate` 3 ranks three users; with less, accounts that are equally late in the
  model would be served by id for ever, which the code does not do.
- `forum_client`: two clients are enough for one to raise the cool-down while the other sleeps, queues or
  asks.  `Burst` 2 lets both leave at once or one of them reserve a future token.  With `Half` 4 a
  header of 5 seconds wraps to a past time; 1 and 2 are shorter than and as long as the default.
  `Window` 3 is longer than it takes to use the burst and earn it back.  `Headers` has every form,
  and `Docs` every outcome of the searches and texts with many, few and no places to cut,
  below and above each size; the sizes keep the order that `MessageAssumption` names.
- `service`: two workers finish two updates of one user in either order, and hold a third one
  that meets the same lock from another user (`1 + Locks`).  With `Limit` and `Period` 1 a second
  command in the same tick takes a restart, which is the case the run shows; the border of a window, which
  takes a limit of two and three commands, is left to the theorem, which has every limit.  `MaxStops` 1 is one end
  of the process in any state and the life of the next one.  `Kinds` has all kinds of update.
- Commands: each run names the kinds it sends; between them all are sent.  The joint
  exchange of forum users and cookies is a symmetry of `bot_races` (`Swap`), since
  nothing orders or names them.

Deadlock is checked in every run.

### Fairness

`Dispatch`: the ticker fires and the loop of `enqueue` goes on (`WF(Enqueue)`), time
passes (`WF(Tick)`), each worker goes on (`WF(Work(w))`): goroutines are scheduled and
every blocking call in a poll has a timeout.  `Bot`: the same for
the steps of a user's poll, of the row that waits, of `next_poll_at`, and of a running
handler.  Commands, the forum and failures are never forced.
`ForumClient`: a client inside `FetchPage` goes on, because goroutines are scheduled and the HTTP client has a timeout,
and the clock ticks; nobody has to ask for a page.  `Service`: each worker goes on, polls and probes
come to an end, `run` makes its next step, the process is started again,
and Telegram gives what it has; the timeout, the signal and the crash are never forced, so
`ShutdownEnds` owes nothing to the timeout.
Weak fairness is enough everywhere.  `DueAccountIsClaimed` supposes that the account
stays due or claimed and that its own owner does not reset its place in line for ever.
`EverythingArrives` and `ExpiryIsNoticed` end when the account stops being
served (paused, unbound, logged out, global pause); with finitely many faults, as
in the model, the retries get through.

## Proofs

`DispatchProofs` proves for every finite set of users and of workers, every interval, jitter,
backoff sequence and Retry-After value (`DispatchAssumption` is all it uses):

- `TypeCorrect`: `Spec => []TypeOK`.  The one part that needs an argument is that the
  channel stays within its capacity, which is the guard of `EnqueuePush`, and that the
  columns stay typed when ranks of lateness are taken (cardinalities of finite sets).
- `AtMostOnePoll`: `Spec => []OnePollPerAccount`, and `MarksAreExact`:
  `Spec => []InFlightIsExact`.  Neither is inductive: the mark that lets `enqueue` push
  keeps jobs apart only while the marks are exact, and a worker's deletion keeps the
  marks exact only while the account it frees is nowhere else.  Their conjunction
  `Exclusion` is inductive; `EnqueuePush`, `Take` and `Release` are the cases with content,
  and every other step leaves the four variables it mentions alone.
- `SchedulerImplementsSession`: `Spec => ImplementsPollSession`.  An account is polled, queued or
  resting as `PolledIds` and `QueuedIds` say; a push, a take and a release move one account from one
  phase to the next (`PushIds`, `TakeIds`, `ReleaseIds`), and nothing else does.  The bounds of `PollSession` follow
  from counting: the jobs of the channel are as many as the queued accounts, and an
  account that is polled has a worker of its own, both by `Exclusion`.

`BotProofs` proves for every set of users, forum users and cookies and every bound
(`ForumAssumption`, `IdAssumption`, which only gives every notification some id, `StoreAssumption`, `NoAccountAssumption`, `PollerAssumption`,
`ControllerAssumption`; the set of users may be infinite):

- `BotTypeCorrect`: `Spec => []TypeOK`.  A page holds notifications only because `Top` stays
  within the feed, and a recorded notification exists only because the send before it
  found one, so the type invariant already needs `RecordedIsSent`.
- `HistoryWasSent`: `Spec => []SeenWasSent`, through every failure, restart, ban, unbinding and
  change of forum user.  The inductive invariant `HistoryIsJustified` adds what the steps in between
  know: what `Record` writes is what `Send` delivered (`RecordedIsSent`), the page of a binding
  counts downwards (`PageIsInOrder`), and therefore its tail, the baseline, is older than its
  head (`BaselineIsEarlier`).  Each is the promise of one step to the next, which survives because
  no other process writes the local variables.
- `HistoryNeedsAccount`: `Spec => []NoHistoryWithoutAccount`.  The updates of a row keep it, `Delete`
  cascades, and `AddSeen` is refused without one.
- `CapacityIsKept`: `Spec => []WithinCapacity`, because the rows are always a finite set and only
  `Save` adds to it, in the transaction that counted them (`RowsStep`).

`BotCountProofs`, from the same assumptions:

- `HistoryStaysBounded`: `Spec => []HistoryIsBounded`; a page holds at most `PageSize` items, the baseline one
  less (`PagesFit`), and `AddSeen` trims what it writes.
- `OneWarning`: `Spec => []OneWarningPerBinding`.  Each binding pays for one warning: those delivered,
  the one on its way and the one that an unmarked row still allows are together no more than
  the bindings (`WarningsArePaid`).  `MarkRebind` may read a row and update another one; the invariant says
  that the one it updates was unmarked, or is gone.
- `TwoStrays`: `Spec => []FewStrays`.  Without a row, the messages sent, the row that waits and the poll that
  can still send are two at most (`StraysAreFew`): none gets past `Record`, which the foreign key stops.

`BotOrderProofs`:

- `NeverSkipped`: `Spec => []NothingSkipped`.  The inductive invariant `NothingIsLeftOut` says of a poll under
  way that everything older than an item of `fresh` is delivered, in the history of the binding, hidden, out of reach,
  earlier in `fresh`, or still to be looked at (`FreshIsClosed`), or hidden.  The last is the rest of the page, and below it
  the next page, which joins it or overlaps, however much was posted in between (`PageJoins`): the feed only grows, so
  `Top` of the next page can only rise.  Where the search stops at a known item, what is below it needs
  nothing by `SeenWasSent`, by the claim itself and because what a binding leaves unsent has no gaps
  (`HistoryReachesBack`), unless the item only has the id of a known one: then what is below it is hidden
by the same step.  Where it stops at the last page, the rest is out of reach.  Nothing is assumed of `Id`.

`BotDeliveryProofs`:

- `BotImplementsDelivery`: `Spec => ImplementsDelivery`.  `history` is `left`, and what a poll reaches is
  `MaxPages * PageSize`.  A send is `Deliver`, by `FreshIsClosed` for the first of the list; a binding is `Bind`
  at the head of its page; a search that ends at an id of another notification is `Hide`; everything else posts or stutters.  Added to the invariants above is that
  what is on a page, in `fresh` or in a handler's page was posted (`NothingInvented`).  A
  repeated delivery is a stutter of `Delivery`: how often that happens is the subject of `RepeatsAreFaults`
  and `bot_page_shift`.

`BotRepeatProofs`, about a user's first binding: bound, and never bound to a forum user before (`FirstBinding`).
It rests on the invariants of the modules above (`Established`) and on `FirstBindingIsKnown`: before it begins
nothing has been queued or sent (`Untouched`), while it lasts everything is about its forum user
(`OneForum`), and what is in the history lies on the pages that a poll has not looked at yet
(`SeenIsAhead`), so that whatever poll takes for new is newer than all of the history, and in the history
neither itself nor by its id (`NewIsUnseen`).  Both theorems hold for every `Id`.

- `HistoryIsNeverSent`: `Spec => []HistoryIsNotSent`, if `PageSize > 1`.  What the binding left unsent is behind the history
  (`HistoryIsBehind`: the history holds something at least as new), therefore below everything in
  `fresh`.  It starts so because the baseline holds the item just below the one that is sent
  (`BaselineIsRest`), and stays so because a trim keeps the newest (`TrimmedKeepsLast`).  With pages of one item the
  baseline would be empty and the claim false; the forum's pages have more.
- `RepeatsNeedFaults`: `Spec => []RepeatsAreFaults`.  A poll stops at the newest notification whose id
  is in the history, or at something newer (`Stop`); this may be another notification than the one that put the id there.  On one
  page the list `fresh` has no gaps and starts right above such a place or at the first notification (`FreshIsRun`,
  `FreshJoins`), and what was sent reaches at most one beyond such a place (`SentIsNext`, `SentIsBehind`): at most one
  delivery that a poll would list again is unrecorded at any time.  Outside
  the step between `Send` and `Record` it has been paid for with a fault that no repeat has used yet
  (`RepeatsArePaid`): a failing call, or the end of the process.

`ForumClientProofs` proves for every finite set of clients, rate, length of the cool-down, answer and text
(`GateAssumption`, `AnswersAssumption`, `MessageAssumption`):

- `TypeCorrect`, and `OncePerCooldown`: `ClientSpec => OnceDuringCooldown`; who left during the cool-down is
  between two pages or sleeps at least to its end (`LeftSleep`).
- `RetryAfterIsObeyed`: `ClientSpec => OwnRetryAfterIsKept`; a debt is within the cool-down, then within the sleep, and
  paid when the client queues (`Obeyed`).  The debt of a header that no duration can hold is zero.
- `RateStays`: `ClientSpec => []RateIsKept`.  Reserved tokens come one at a time, the last of them when the debt of the
  limiter is paid (`Reservations`), so a tick puts one token in hand or lets one client's timer run
  out; and in any window what has left, who may leave now and the tokens in hand together stay within the burst,
  the tokens earned and one for each client (`Spent`).
- `LoginIsTold`, `PageIsUnderstood`: from the order of the checks.
- `EveryMessageFits`, `SomeContentIsShown`: `escapeWithinBytes` stays within its limit, and the
  limits of header, link and ellipsis leave room below the maximum, which is what
  `MessageAssumption` says of the code's constants.

`ServiceProofs` proves for every number of workers, updates, locks and stops and every limit
(`UpdatesAssumption`):

- `TypeCorrect`, with `Typed`: a process that is down has left nothing in its workers' hands.
- `NeverOverTwice`: `Spec => []TwiceTheLimit`.  `RateInvariant` ties the window to the latest commands:
  an open window is as old as the first command it counts; the command a whole limit before that one is at least
  as old as the latest end of the process, or as a window if there was none since; the command a limit before that one
  at least as old as the end before, and so on.  An end of the process (`RateEnd`) moves every end one place back, and with it the
  commands by a limit, since what the window counted is at most that.  The numbers of commands and ends are products
  with the limit; `RankOf` keeps that arithmetic in one place.
- `NeverTwoHandlers`: `Spec => []OneHandlerPerUser`; the locks held are exactly those of the workers inside (`LocksAreHeld`).
- `ClosedLast`: `Spec => []CloseIsLast`, from the order of the shutdown's steps (`InOrder`).
- `NeverOverlooked`, `NeverRepeated`, `NeverBackward`: `NothingIsOverlooked`, `RecordedIsOver` and `OffsetNeverFalls`.  The queue is the end
  of what was fetched, and what the workers have and what was stored comes before it
  (`InSequence`); a worker records only what was handled or given up (`StoredIsDone`).

Every invariant and every action property of the passing runs is proved.  Checked by TLC only:

- everything under fairness: `DueAccountIsClaimed`, `ClaimIsReleased`, `PauseQuiesces`, `EverythingArrives`,
  `ExpiryIsNoticed`, `EveryFetchEnds`, `ShutdownEnds`, `EveryUpdateEnds`.

Beyond the prover: liveness under fairness and `ENABLED`;
induction over data, such as what a recursive function computes for every sequence; and
whatever would need `RECURSIVE` operators, of which no module here has any.

## Not modelled

- The walk over the HTML (`findFirst`, `findAll`, `attr`, `normalizedText`): `Page` starts from what it finds.
- Credential parsing: a chain of checks with one outcome, a refusal, which is `ValidateFails`; its
  content is base64 and JSON.
- Cryptography, SQLite itself, HTTP and the Bot API: libraries, seen only through
  the outcomes of the calls.  Redirects that `net/http` follows do not pass the gate and
  appear only as the path where they end.
- The order in which two workers take the lock for two updates of one user: the model has both
  orders, the code promises none, and no property is stated.
- Read-only commands (`/status`, `/start`, `/help`, `/admin_stats`): they change nothing.
- The message to the administrators when the breaker trips, and statistics.
- Configuration: read once; its values are the constants, its limits their assumptions.
- Browser code: it only produces the text that a user pastes.

## What is left

1. The breaker's notice: who is told, and that a restart between the two steps tells nobody (poller.go:175).
2. A replaced cookie that a ban turns into a binding without a baseline (controller.go:160).
3. The redelivered credential message (controller.go:124): the restart is in `Bot`, the update that comes again in `Service`.
