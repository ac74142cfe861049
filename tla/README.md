# poll-bot, verified

poll-bot is a Discord bot that collects the results of polls: commands queue
messages that hold a poll, workers wait for each poll to expire and write its
results to a database, a web API, a CSV export and a Google Sheets script read
them. This directory holds TLA+ models of its parts, the TLC configurations that
check them, and proofs checked by TLAPS. Paths below are relative to
`src/backend/core/root/` unless they start with `src/`.

Run a model with `tlc -config MCInsertBatch.cfg MCInsertBatch`, a proof with
`tlapm InsertBatchProofs.tla`.

## 1. Inventory

| part | state it keeps | operations | hard behaviour | what makes it correct |
|---|---|---|---|---|
| **Results workers** `managers/polls/results_worker.go`, `finalized.go` (Insert), `polls.go` | per worker: the batch, the cutoff, the halt and acknowledge channels; one Insert goroutine per batch | fill a batch, wait for a poll, run Insert and answer its statuses, requeue, Stop, Close | two unbuffered channels used both ways, a Stop at any point, timeouts, wakeups | a seated poll is not lost; the two goroutines never wait for each other; Stop and Close end |
| **Push and the set** `managers/polls/data.go`, `datas/set` | set of queued ids, without a lock shared with the heap | Push, CleanQueue, hasFinalized | steps of several goroutines on three structures | no id blocks a poll for ever, no poll is seated twice, none is lost |
| **Queue file** `datas/fileheap` | binary heap, database rows | Merge, TryTake, ClearLocked, New, Close | failing statements, crash, restart | heap order; memory and file agree |
| **Atomic queue** `datas/atomicqueue` | ring, head, tail, channel, sleepers | Push, Pop, Await, Close, the worker | lock-free pops, sleepers, full ring | first in, first out; no lost wakeup |
| **Audit log** `managers/audit` | active flag, file, consumer | Add, Warn, Panic, Close, change of file | Close against the consumer, self-enqueue | accepted entries are written; Close flushes |
| **Finalized store** `managers/polls/finalized.go`, `api/polls` | results and manual tables | GetFinalized, Insert, InsertManual, Drop, SetActive, SetTitleOverride; the API's pages, add, drop, set active, set title | requests of several statements without a transaction, failures and crashes between them, workers that write at the same time, paging while rows change | an answered request holds for every reader; a manual row shadows a results row until both are gone; a walk over the pages misses and repeats no more than changed |
| **Components** `managers/components`, `commands/loadchannel`, `commands/credentials` | sessions by group and user, busy locks | Register, AddGroup, TryRun, close; load, stop, close of a channel session | callbacks under a mutex, two maps with their own locks, expiry | a press finds its session; one callback of a session at a time; what a search found is handed to Push once |
| **Login** `api/login` | attempts per address; accounts (rows) and signed tokens | check, count a failure, clear, sweep; create, drop and validate an account | attempts that pass the check together, expiry and the sweep of the map | a bounded number of guesses per window; a ban holds and ends; forgetting is invisible |
| **File dictionaries** `datas/filedict`, `managers/aliases`, `managers/authorize`, `commands/modrank`, `commands/alias`, `api/alias` | a map and its file, rewritten as a whole | Get, Set, Drop, SyncRead, SyncWrite, Close; /alias, /modrank and the API of aliases | changes and rewrites of several requests interleaved, a crash in a rewrite, ranks read before they are used | file and map agree when nobody writes; closed is read-only; a rank comes from above |
| **CSV export** `csv`, `commands/export` | none | ToCSV | votes kept by filtered title | the row of a poll shows its own votes |
| **Commands, session, main** `commands/*`, `bot/session.go`, `src/backend/core/main.go` | Discord session | dispatch, start, EndSession | order of shutdown | nothing runs on a closed manager |
| **Frontend** `src/frontend` | page and login state | fetchContent, edits | paging, retries | shows each poll once |
| **Apps Script** `src/apps-script/Code.gs` | sheet, script properties, triggers | autofetch, mergePages, submit | trigger against flag, partial fetch | a partial fetch never overwrites a sheet |

How they interact. A command or an API call calls **Push**, which consults the
set and the results table and merges into the **queue file**; Push wakes
sleeping **workers** over `queueSubCh`. A worker takes due polls, starts
**Insert**, and the two exchange statuses over `done` and `cher` until the batch
is written; what is not written goes back through Push. `EndSession` calls
`Close`, which stops every worker and closes the heap. All of them write to the
**audit log**, whose consumer reads an **atomic queue**; main closes it last.
Component callbacks run commands' sessions; the API and the export read the
**finalized store**, which workers and the API write. The API's routes stand
behind the **login** limiter; /alias, /modrank and the API change the **file
dictionaries**, which `EndSession` closes after the poll manager.

## 2. Modules

| module | models | composes |
|---|---|---|
| `InsertBatch` | one worker, its Insert goroutine and its Stop, message by message | |
| `InsertBatchPool` | the mapping of `InsertBatch` to a pool of one worker | `InsertBatch`, `PollWorkers` |
| `PollWorkers` | the pool: shared queue, sleep, wake, Stop, Close | |
| `PollPush` | Push, take and CleanQueue, access by access | |
| `FileHeap` | heap and file, Execs that fail, crash and restart | |
| `LossyQueue` | what a queue promises: abstract specification | |
| `AtomicQueue` | the ring, load by load | implements `LossyQueue` |
| `AuditLog` | enqueue, consumer, Close | uses `LossyQueue` |
| `Components` | sessions, presses, close, the search of /load | |
| `PollStore` | both tables, the requests of the API, pages and the client's walk, `ToCSV` | |
| `LoginStrikes` | what the limiter promises: abstract specification | |
| `LoginLimiter` | check, serve, count, sweep | implements `LoginStrikes` |
| `FileDict` | one operation of a dictionary after the other, statement by statement | |
| `Dictionaries` | aliases and ranks with all that changes them, end and restart | extends `FileDict` |
| `PollManagerProofs` | theorems about `PollWorkers` and `PollPush` | |
| `QueueProofs` | theorems about `AtomicQueue` and `AuditLog` | |
| other `*Proofs` | theorems about the module named | |
| `MC*` | instances for TLC | |

**InsertBatch.** `wpc` follows the worker through `Start`, `handleInsertStatus`
and the cleanup; `ipc` follows Insert; `spc` the Stop call. A channel operation
is one step of both sides when both are ready: the channels have no buffer. The
outcome of each fetch (a result, gone, transient error, still open), of each
database lookup and of the final write is chosen by the model. `finalIndex` is
the Go variable and lives across batches as it does in the code. Time is
abstracted: a poll may be due or not whenever the worker looks.

**PollWorkers.** The handshake is reduced to its effects (`Take`, write, give
back, drop, skip). What it adds is the sleep: a worker first looks and fails
(`gapEmpty`, `gapTop`), then waits (`sleepEmpty`, `sleepTop`), and a release
reaches only those that wait. `InsertBatchPool` shows that the handshake is an
implementation of this module with one worker.

**PollPush.** Push is `Has`, `TryInsert`, `HasFinalized`, `UndoInsert`, `Merge`,
because the set has no lock and the three structures have no common one. The places
are of `Callers` (commands) and `Takers` (results workers). A worker's take is two
steps (heap, then set).
CleanQueue holds the heap's lock: `CleanDrop` clears and merges, `CleanSet` takes
one dropped id after the other out of the set, and `CleanFails` is the return
between the two when the merge fails (`data.go:129-131`), after it changed the
memory. `stranded` is the history of the ids such a return left in the set.

**FileHeap.** Each operation is one step, under the heap's lock; `ok` is the
outcome of its Exec. CleanQueue is two steps, `ClearLocked(S)` for the polls `S` it
drops and the merge of those it keeps, since it runs two Execs and a crash can
come in between. `container/heap` is external and modelled as that
package implements it: `Down` is `down(i, n)` with the place where the item sinks
to after each round of its loop, `heapsInit` is `Init`'s loop over `Down`,
`heapsPop` is `Swap`, `down` and the removal of the last place. These loops, and
`Keep` (the filter of CleanQueue), are functions of the number of rounds, so that
they can be proved about. `MaxLen` bounds what Merge accepts; after a restart the
queue can be longer, by the rows that deleting failed for.

**AtomicQueue, LossyQueue, AuditLog.** Each atomic access is a step; a popper
keeps what it loaded (`hd`, `val`) until it swaps. Sleeping on the subscribers'
channel is a place, since
every waiter waits for the same close. The log is built on `LossyQueue`, which
`AtomicQueue` implements, with its Await as a guard.

**Components.** A handler is a goroutine of the gateway that runs a command
(`rules`, `inverse`, `write`: the three locks Register takes in turn) or a press
(`press`, `find`, `swap`, `call`, and `close`, `closing`, `delete` when the
callback is done). `target` is the session a handler holds a pointer to, which
may have left the maps. The manager's mutex is held over more than one step only
by close, whose callback hands polls to Push and calls Discord. Of a search the model
keeps whether it found polls and how often it handed them to Push; a Push that
fails counts too, since the session is stopped by then and does not try again. `Throw` is the end of
the process that the Go runtime forces on a map used by two goroutines at once.
A search does not expire here, because it does not in the code: `expired` gets
its times in the wrong order (`commands/loadchannel/interaction.go:91`).

**PollStore.** SQLite executes one statement at a time, and no request opens a
transaction: a handler has its statements in `todo`, and each is one step
(`Exec`) that can fail, with the workers' batches, the other handlers and a
crash in between. `SetActive` has up to four statements (two tables for the ids
to hide, two for those to show), `SetTitleOverride` and `Drop` have two. Reading
is `Shown`: a manual row hides the results row of its id. `GetFinalized` cuts a
list by offset, `PageRecords` asks for one row more than a page, and `FetchPage`
is the frontend's loop, which keeps asking while the server names a next page. What
the client gets of a page is its export (`PageRows`, `api/polls/polls.go:53`):
`ToCSV` gives no row to a poll that is no rating, nor to a rating that shares its
filtered title with an unrated poll after it (`csv/csv.go:111-133`), so `fetched`
counts rows. Histories exist only for the properties: `clash` (for each request,
the polls for which a later statement of someone else asks for something else),
`lost` and `gained` (how many polls left and joined the list during a walk), and
`steady` (the polls that were listed throughout a walk and were `Plain`: ratings
that share their title with no unrated poll).

**LoginLimiter, LoginStrikes.** A request passes the check (`Admit`), is served
(`Serve`, with any of the answers of the login routes) and is counted
(`recordLoginFailure`, `clearLoginFailures`, `CountNothing`): three steps, as
the mutex of the limiter is not held while the route runs. The sweep is part of
each check. Times are relative to the present, so that `Tick` makes every entry
older. In `LoginStrikes` nothing is swept and there is no map that grows;
`recent` in `LoginLimiter` is a history of counted failures by age; `Guesses` are
those of the last `m` ticks, as a set of (age, number) pairs.

**FileDict, Dictionaries.** An operation looks at `closed`, waits for the mutex
and looks again (`Look`, then the operation or `FindClosed`). `SyncWrite` is
`DeleteAll` and `Replace` under the mutex; each can fail and the process can end
in between. A request is a list of such operations (`todo`) that ends with a
write; /modrank reads the sender's rank, reads the target's rank, sets and
writes, each in a critical section of its own.

## 3. Runs

Passing runs:

| run | bounds | shows |
|---|---|---|
| `insert_batch` | three polls, batches of up to three, each poll submitted once | types; `CutoffCoversRows`: the cutoff covers each row; `TurnsAgree`: the goroutines agree who speaks; `OnlySkippedLost`, `StopReturnsBatch`; liveness `BatchSettles`, `StopHeard`; refinement `ImplementsPool` |
| `poll_workers` | one poll, two workers | `PollsKept`; liveness `CloseEnds`, `TakeWakesSleepers` |
| `poll_push` | two ids, two commands of one poll each, one worker, up to two copies, merges of CleanQueue that fail | `NoOrphan`, `NoTwin`, `PushKeepsPolls` |
| `file_heap` | three polls (one without expiry), up to four places, clock to 2 | `TopIsSoonest`, `QueueIsDurable`, `NoResurrection`, `CleanKeepsCounts` |
| `atomic_queue` | ring of two, channel of one, three pushes, two poppers, both flags | `ImplementsQueue`; liveness `SleepersWake`, `BlockedHasRoom`, `PushReturns` |
| `audit_log` | two clients, five entries, one migration, queue of two | `CloseFlushes`; liveness `NobodyWaits`, `AcceptedIsWritten` |
| `components` | two users, two handlers, two sessions | `InverseHasSession`, `OneCallback`, `SavedOnce`; liveness `HandlersReturn` |
| `poll_store` | three polls, of which two start with one filtered title and the third is no rating and has its own, overrides, pages of one, two handlers, two writes (requests or batches) | `RequestTakes`, `DropUncoversNothing`, `WalkFaithful`, `RowsAreTheirPolls` |
| `login` | two addresses, two handlers, bans of two ticks after three failures | `GuessesBounded`; refinement `ImplementsStrikes`; liveness `BanEnds` |
| `dictionaries` | three users, an id that New refuses, three batches of aliases, two handlers, three requests | `Saved`, `ReadOnlyAfterClose`, `RankFromAbove` |

Why the bounds are enough. A batch of three has a first, a middle and a last
poll, which is all the cutoff can tell apart: a row, drop or skip before, at and
after it. The races of Push are about one id, as another id has its own place in
each structure; a second one is there because CleanQueue merges, and so can fail,
only when it keeps a poll. A worker pushes too, so two commands and a worker are
three goroutines that race in the set. Two workers show one waking the other, and the
proofs below cover any number of polls and workers for the safety properties. A
ring of two wraps with the third push, while a popper still holds the first
slot, and is full with one value more on the way. Three items make a heap with
two children. Two sessions of two users
show a session replaced by its user, invalidated by another user, and closed
while another one is registered (three sessions satisfy the invariants as well,
in a search too long to repeat on each run). A page of one poll is cut as often
as a list of three allows, and a drop or an insert can come before, at or after
the page the client is at. On a page of one no two polls share a title, so that
a rating hides behind an unrated poll only in the whole export; the proof covers
every page size. Two requests or a request and a batch show each
statement of one between any two of the other. Two handlers pass the limiter's
check together, and three of them at one address satisfy the same bound. Three
users are one who may promote, one who may be promoted in between, and one
below; with a user of each rank, the highest is held by one. The clock, the copies,
the length, the pushes and the entries are
bounded by `MaxTime`, `MaxCopies`, `MaxPush` (the polls of one command), `MaxLen`,
`MaxPushes`, `MaxEntries`,
`MaxMigrations`, `MaxSessions`, `MaxWrites` and `MaxRequests`; the state beyond
repeats what is below.

Deadlock is not checked where the system stops by design: after Stop or Close,
after a failed start (`file_heap`), when the log has ended, when `Throw`
ended the process (`components`), and when the bot refuses to start
(`dictionaries`).

Fairness. Goroutines that can run do run (weak fairness of each: Go's scheduler
is preemptive). In `AuditLog` the ten seconds that Close allows its consumer pass (`Timeout`), so
`NobodyWaits` can say that Close ends: its last entry gets into the queue's channel,
and then the log is closed or Close has given up on the consumer. In `LoginLimiter`
that is: a request that passed the check is
served and counted, and time passes. Calls to Discord return, because the HTTP client has a timeout.
Strong fairness is used for `Take` in `PollWorkers` (a queued poll's expiry
passes, so a worker that keeps looking finds one due) and for taking the
subscribers' mutex and the manager's mutex of `Components` (a Go mutex does not
starve its waiters). Nobody has to push,
log, stop or close, and nothing has to fail or to time out.

Runs that show a disagreement:

| run | property | what happens |
|---|---|---|
| `insert_batch_skip` | `NothingLost`: a skipped poll is "retried later" | a later poll of the batch moves the cutoff past it, and it is nowhere |
| `poll_workers_wake` | `PushWakesSleepers`: "release subs if top changes" | a push between look and wait reaches nobody, and the worker sleeps on a queue that holds a poll |

What else the models have as the code does it, without a run of its own because
no single line of the code promises otherwise, or because it follows from one
step:

* `data.go:18` says that Push refuses polls in flight "via set"; the id leaves
  the set when a worker takes the poll (`results_worker.go:119`), so a poll can
  be queued while a worker holds it. The set is also empty after a start
  (`polls.go:158`), when the queue need not be. `results` then gets the same row
  twice, which is harmless unless the API changed it in between: the later batch
  replaces the row with its override and its active flag (`RequestTakes` makes
  an exception of it).
* Push accepts a poll without expiry or guild and New refuses to start with it
  (`polls.go:117`); the API of aliases accepts an id that is no number and New
  refuses it likewise, and it lacks the formatting check of /alias.
* The consumer of the log writes its last entry and waits once more, before
  Close unsets `active` (`audit/log.go:76`); Close does not need it to end.
* A search does not expire (see Components above).
* The sender's rank in /modrank is the one read first: a target promoted in
  between is changed by somebody who is no longer above. `RankFromAbove` is what
  remains true.
* CleanQueue says that a message that is gone "must not keep occupying its slot" in
  the set (`data.go:132-133`). When the merge fails after the clear, it returns
  before (`data.go:129-131`), and the ids it dropped stay in the set until the next
  start; a push of such a poll is refused. `NoOrphan` excepts exactly these ids
  (`stranded`).
* A crash after CleanQueue's clear and before its merge empties the queue's file;
  `CleanKeepsCounts` speaks of cleans that are not cut short.
* A page of the API is an export, so a client does not get polls that are no
  ratings, nor always those that share their filtered title with one
  (`csv/csv.go:111-133`), however still the tables are. `WalkFaithful` speaks of the
  others.
* `GetAliases` runs through the map without its mutex.
* A crash, or a failing REPLACE, after the DELETE of `SyncWrite` leaves an empty file.
* Two polls of one filtered title share votes in an export; `RowsAreTheirPolls`
  speaks of the others.

## 4. Proofs

All are of the specifications themselves, for every set of polls, users, workers
and callers, every batch, page and queue length and every history of failures.

* **InsertBatchProofs**: `TypeCorrect`, `HandshakeAgrees`, `CutoffCorrect`,
  `LossIsSkip`, `StopIsSafe`. The inductive invariant `IInv` needs, beyond the
  properties: what is in flight on the channels at each place (`MessagesInv`);
  that the cutoff lags behind the loop index by at most the row whose index is
  on its way (`CutoffInv`); how far Stop has come, from both ends (`StopInv`);
  that the set is the heap's ids while the heap is open (`SetInv`); and what
  became of each poll below the loop index (`SettledInv`, as long as the heap is
  open), without which a cutoff could cover a poll nobody accounts for. Assumes
  `MaxBatchAssumption`: batches hold at least one poll.

  The same module proves the refinement `WorkerImplementsPool`: the handshake
  implements `PollWorkers` with one worker, step by step. A take is `Take`; the
  start of Insert is `StartInsert`; a poll that is still open and pushed back is
  `Retry`, a gone one `Drop`, the write of the rows (done, failed or with nothing
  to write) `EndInsert`; the requeue of
  what is not below the cutoff is `Finish`, for which `SettledInv` supplies that
  every poll of the batch is given back, lost below the cutoff, queued, written or
  gone; Stop's steps are the pool's; every other exchange on the channels is a
  stutter (`PoolStutters`). So what `PollManagerProofs` shows of any number of
  workers speaks of workers that do run this handshake.
* **PollManagerProofs**, about `PollWorkers`: `PoolTypeCorrect`, `PoolKeepsPolls`. `StopInv` ties a
  worker's place to its Stop, so that a batch handed back by Stop is handed back
  once. Assumes `BatchAssumption`.
  About `PollPush`: `NoOrphanHolds`, `NoTwinHolds`, `PushKeepsPollsHolds`.
  `PlaceInv` says what each goroutine has in hand at each place; a poll seated
  and given back is followed in `due` from hand to hand, and none of those that
  CleanQueue drops, or left in the set, is among them. Assumes
  `CopiesAssumption`, `LoadedAssumption`, `ProcsAssumption` (commands are not
  workers).
* **FileHeapProofs**: `FileHeapTypeCorrect`, `TopIsSoonestHolds`,
  `QueueIsDurableHolds`, `NoResurrectionHolds`, `CleanKeepsCountsHolds`, for every
  length of the queue and every assignment of expiries. The invariant adds to
  durability and its converse (a row is of a queued poll): that the sequence is a
  heap (`IsHeap`), that what is in memory more than once is in `twins` (`Doubles`;
  two copies share one row, so the first take deletes it for both), and that memory
  is empty unless the queue is up and the file is while CleanQueue is between its
  steps. `heapsInitIsHeap` and `heapsPopIsHeap` are the facts about
  container/heap: after each round of `down` the only place that may come before
  its children is the one the item sank to, and the places are a permutation of
  what they were. For `CleanKeepsCounts` the filter of CleanQueue is followed round
  by round (`KeepSifts`): what it has kept so far is the places looked at that are
  not dropped, in one-to-one correspondence, so each survivor has as many copies
  after it as before (`KeepCopies`), and the merge, which starts from an empty
  memory, keeps that number because `Init` permutes. The prover cannot instantiate
  an induction theorem, so induction
  is stated for sets of naturals (`SetInduction`, from the well-foundedness of `<`)
  and a recursive function is shown to exist from its finite beginnings
  (`RecursionExists`). Assumes `ItemsAssumption` (finitely many polls),
  `ExpiryAssumption` (an expiry is a time or there is none), `TimeAssumption`.
* **ComponentsProofs**: `ComponentsTypeCorrect`, `OneCallbackHolds`,
  `SavedOnceHolds`, `InverseHasSessionHolds`, for any number of users, handlers and
  sessions. `ComponentsTypeCorrect` includes that the mutex is held exactly by the
  handler that closes. `BusyInv`: who is between the swap of `busy` and the end of its run
  holds the flag, alone, whatever happened to the maps meanwhile. `PushInv`: a
  session's polls were handed to Push, once, exactly if it found some and its close
  ran. `Filed`: a
  session is only ever in the map of the group it was made for, which is why a
  press that went through `inverse` cannot find another group's. `Serving`: what
  each handler has in hand at each place. Assumes `HandlersAssumption` (nobody is
  no handler) and `BoundAssumption`.
* **LoginLimiterProofs**: `LimiterTypeCorrect`, `LimiterImplementsStrikes`,
  `GuessesBoundedHolds`. `EntryInv` says that an address without an entry stands
  for the zero value, so that a sweep is a stutter of `LoginStrikes` for the
  addresses it forgets. `BoundInv` carries the bound on guesses. The limiter counts
  strikes, not guesses, and forgets the strikes when a ban starts; so the invariant
  says that strikes cover all guesses of the last `m` ticks for which no ban of now
  reaches back, that no guess is younger than `lastFailure` (a window without one
  makes both zero), and that during a ban guesses and requests still served
  together stay within the bound: the one that started the ban is not among those
  served, and each that ends late turns from the one into the other. Assumes
  `LimiterAssumption` (a ban has a length and takes a failure) and
  `HandlersAssumption` (finitely many requests at a time).
* **DictionariesProofs**: `DictionariesTypeCorrect`, `SavedHolds`,
  `ClosedIsReadOnly`, `RanksComeFromAbove`. `WriteInv`: who holds a mutex between
  two steps is in the middle of a rewrite of an open dictionary whose file is
  empty. `TopInv`: there is a highest rank, it bounds every rank a /modrank has
  read, and nobody who holds it is about to be changed; so it stays held however
  stale the ranks compared are. Assumes `DictionariesAssumption` (the key rules
  and the order of ranks), `BatchesAssumption`, `StoredAssumption` (typed files).

* **PollStoreProofs**: `StoreTypeCorrect`, `RequestTakesHolds`,
  `DropUncoversNothingHolds`, `WalkFaithfulHolds`, `RowsAreTheirPollsHolds`.
  `TakeInv` follows a request through its statements:
  for a poll nobody contradicts it about, in each table it has to reach, the last
  statement left that touches the poll does what was asked, or, when none is
  left, the row is as asked. `ShapeInv` says that a manual row is deleted after
  the results row. `WalkInv` follows the client from page to page: of the polls
  that were plain and listed throughout, those whose row it has neither fetched nor still
  ahead are at most as many as left the list; those fetched twice, or fetched and ahead again,
  at most as many as joined. It rests on `Crossing`: when a list changes, at most
  as many polls come to lie beyond an offset as joined it, and, read backwards, at
  most as many come to lie before it as left, whatever else the change did. That the
  export of a page has a row for each plain
  poll on it, and none for a poll that is not on it, is shown from `ToCSV`
  (`PlainHasRow`): of the polls of a title on the page the last one (`Greatest`)
  decides what becomes of it. `WalkFaithful` alone speaks of the end
  of the walk and is not inductive. The export is proved from the definition of
  `ToCSV`: a title of one poll only has one entry in the map of votes. Assumes
  `StoreAssumption` (finitely many ids, which are numbers; pages of at least one
  poll; workers are not handlers; typed tables).

* **QueueProofs**, about `AtomicQueue`: `QueueInvariant`, `QueueImplements`,
  `OnceInOrderHolds`, for every size of the ring and of the channel, any pushers and
  poppers, both flags. The inductive invariant `QueueIInv` says of the worker that
  what it found out before it writes is still true when it does: nobody but the
  worker stores the tail, and a head that moves on only makes more room
  (`WorkerInv`). It says of a popper that the head it loaded is not ahead of the
  head, and that as long as it is the head still, the value read is in the first
  slot (`PopperInv`): the worker may have overwritten the slot since, but then the
  head has moved and the swap fails. Both rest on `MaskApart`: two positions less
  than `RingSize` apart are in different slots, which bounds what a write can hit.

  `QueueImplements` is the refinement of `LossyQueue`, step by step: `Send` is
  `Put`, `DropNext` is `Refuse`, `StoreTail` is `Accept`, a `CompareAndSwap` that
  succeeds is `TakeFirst`, and every other load, store, sleep and signal is a
  stutter (`WriteSlot` among them: the slot it fills is not in the ring yet). The
  items of the ring are a function of its slots, head and tail, whose first element
  is removed by the swap and whose end grows with the tail.

  `OnceInOrder` is what a caller relies on, and stronger than any run states it:
  the values popped rise, so none comes out twice or before an earlier one, and
  those pushed are popped, counted as dropped, in the ring or in the channel.
  `InLine` carries it through the five ways in which a sequence of values changes
  hands. Assumes `SizeAssumption` and `ChannelAssumption` (a ring and a channel
  hold at least one value; the ring of the code is a power of two, for which its
  mask is the remainder) and `PushesAssumption`.

  About `AuditLog`: `CloseFlushesHolds`, for any clients and any sizes of its queue.
  `DueInv` follows what was accepted and unwritten when Close unset `active`: it is
  in the file, among the items or in the consumer's hand, and in the file alone once
  the consumer has seen a closed log with an empty queue; `LogPhase` says that the
  queue is open until the consumer is done, that a consumer which ends has seen
  `active` unset, and that until Close unsets it there is nothing due.
  `WrittenInOrderHolds` says what that is worth: the numbers of the entries in the
  file rise, so no entry stands for another, and the file is what the consumer
  popped but for the entry in its hand.

Only model-checked: liveness (`BatchSettles`, `StopHeard`, `CloseEnds`,
`TakeWakesSleepers`, `SleepersWake`, `BlockedHasRoom`, `PushReturns`, `NobodyWaits`,
`AcceptedIsWritten`, `HandlersReturn`, `BanEnds`), which this prover cannot reach:
it has no rules for ENABLED. Every invariant, every action property and every
refinement that the passing runs check is proved. The two runs that show a
disagreement have nothing to prove.

## 5. What is abstracted or not modelled

* Poll contents, message formats, log wording, SQL text.
* Requests that the API refuses (malformed, unknown column, a poll named twice):
  they change nothing.
* Accounts and tokens of `api/login`: an account is one row changed by single
  statements, and the server keeps no state of a token. How the address of a
  caller is found (`clientip.go`). The limiter reads the clock before it waits
  for its mutex; here it does both at once.
* The voters' columns and names in an export, and its file.
* `view_queue`: it reads the top of the queue in several critical sections and
  cleans it; of two at once the second finds nothing to drop and reports a poll
  as overdue that is gone.
* Wiring of the web server and the commands; the page's presentation; the Apps
  Script, which runs in Google's sheet.
* Real time in the worker models: a due poll, a timeout and a retry are choices.
* Log flags other than the defaults: the program sets no others.
* `SQLite` and `discordgo`: external; an Exec succeeds or fails as a whole.
* Build, deployment, static assets: nothing to check.

## 6. Plan

The safety of every modelled part is proved. What could be modelled next: the merge
of pages in the Apps Script and its trigger; view_queue; the order in which main and
`EndSession` shut everything down.
