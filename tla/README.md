# tokenmeter in TLA+

tokenmeter (`tm`) watches the logs of coding agents, receives their hook events
on a Unix socket, stores sessions, tool calls and token usage in SQLite and
shows the result in a terminal, a status line, a web page and webhooks.  This
directory models the part of it where several goroutines, several processes
and crashes meet, and the computations whose results must agree with one
another, checks the models with TLC and proves theorems about the core with
TLAPS.  Source paths below are relative to the repository root.

## 1. The system

```
 agent logs --> ClaudeLogWatcher, CodexWatcher --ProcessExternalEventAsync--> batchCh
 hooks: tm emit --unix socket--> acceptLoop --> handleConn            batchConsumer
                                                   |                      |
                                                   +---- processEvent ----+
                                                   |            |         |
                                        SQLite statements   BatchWriter   broadcast
                                                   |            |         |
                                                   +--> SQLite <+    TUI, SSE, remote
 loops of the daemon: stale sweep, budgets, tool failures, anomalies, maintenance, backups,
                      checkpoints, webhook retries
 other processes: tm clean, tm restore, tm doctor, tm statusline, tm web, reports --> SQLite, files
```

| component | state | operations | hard because |
|---|---|---|---|
| token usage storage (`internal/storage/db.go`, `token_usage_delete.go`) | `token_usage` rows; totals in `sessions`; `daily_cost_cache` | batch insert, delete by source, clean, prune, backfills, rebuild, recompute | three representations of one sum, changed by increments, subtractions and recomputations from several goroutines and processes; sources are repeated |
| opening and migration (`db.go` `Open`, `migrate`) | columns, `user_version`, an index, old time formats, the cache | the same statements, by every process that opens the database | no transaction around them; a daemon may be writing |
| full-text search (`search_index.go`, `query.go`) | `search_index` beside `tool_calls` and `file_changes` | index after each row, clean, rebuild at opening, search with and without it | row and index row are separate statements |
| model reconciliation (`daemon.go` `reconcileCodexTokenModel`, `repairEmptyTokenModels`) | the same rows | up to five separate statements per model event; the same at startup | not a transaction: anything runs in between, a crash leaves the rest undone |
| session lifecycle (`db.go`, `daemon.go` `processEvent`, sweeps) | `status`, `last_event_time`, `end_time`; tool call status | upsert, historical end, `session_end`, stale sweep, prune, clean | events late, repeated and on several goroutines; each handler several statements |
| event pipeline and shutdown (`daemon.go`, `batch_writer.go`, `cmd/tm/main.go`) | `batchCh`, the writer's queue and buffer, connections, the stage of `Stop` | send, consume, handle, flush, drain, stop | shutdown order, full channels, connections accepted during `Stop`, failed transactions |
| broadcast and subscribers (`daemon.go`, `broadcast_buffer.go`, `subscription.go`, `internal/web/server.go`) | subscriber lists, sockets, channels, the SSE buffer | subscribe, unsubscribe, broadcast, coalesce, flush | many goroutines broadcast at once on snapshots used outside the lock; slow clients, late registrations |
| webhook delivery (`webhook.go`, `webhook_retry.go`) | queue, attempts, dead-letter file | enqueue, attempt, back off, give up | retry racing shutdown |
| alerts (`webhook_events.go`, `anomaly.go`, `internal/storage/budgets.go`) | last budget status, cooldowns | sweep, transition, suppress | state read, then used after a query that may fail; endpoints with different thresholds, reloaded in between |
| Claude log watcher (`internal/collector/claude_log.go`) | offsets, deduplicator | scan, parallel first scan, delete and re-emit | truncation, duplicates across files, a delete that overtakes a queued insert |
| Codex log watcher (`internal/collector/codex.go`) | offsets, model context, pending calls, deferred starts | discovery by workers, scan, difference of totals | partial lines, copied histories, context split over scans |
| daemon singleton (`lock_unix.go`, `socket_unix.go`, `reload.go`) | PID file, sockets, lock | start, stop, reload, doctor's fix | check-then-act between processes, stale files |
| logs and backups (`logfile.go`, `auto_backup.go`, `backup_rotation.go`, `restore.go`) | numbered files, copies | rotate, back up, prune, restore | crash between renames, a restore beside a daemon |
| hooks installation (`cmd/tm/main.go`, `cmd/tm/doctor.go`) | Claude Code's `settings.json` | setup, automatic setup, uninstall, fixes | read, change and write of a file others edit |
| session blocks (`internal/blocks`) | none | split entries into five-hour blocks | boundaries |
| status line, pricing (`internal/statusline`, `internal/pricing`) | a cache file per session, a price file | read, fetch, write | concurrent short-lived processes, staleness |
| other adapters (`internal/collector/*.go`, `cmd/tm/cli/adapters.go`) | none | read thirteen agents' files | inclusive, cumulative, revised and copied records |
| queries, reports, dashboard (`internal/storage/query.go`, `aggregate.go`, `cmd/tm/cli`, `internal/web`) | a cache of daily costs | windows, zones, groups | the same sum made in several places and statements |
| terminal output, CLI, configuration | none | parse, print | - |

What makes each correct, in one line:

- *storage*: a row is counted once in the totals of its session and in the
  cost cache, whatever is repeated, deleted or cleaned (`UsageStore`);
- *opening*: what it is there to do is done, and takes nothing back (`Opening`);
- *search*: rows and index say the same (`SearchIndex`);
- *reconciliation*: exact again once it has finished, and never an error
  outside the sessions whose reconciliation was cut short (`UsageStore`);
- *lifecycle*: a session is closed at its last event, is reopened only by
  evidence, is not running because of old events, and does not run for ever
  (`SessionLifecycle`);
- *pipeline*: an event taken is written or goes down with a reported failure,
  in the order of its producer; nobody uses the database after it is closed;
  `Stop` returns (`DaemonPipeline`, `EventLedger`);
- *broadcast*: a screen shows what each goroutine broadcast since it subscribed, in its
  order and without a gap (`EventStream`);
- *webhooks*: a delivery ends once, in one of the ways the code reports (`WebhookDelivery`);
- *alerts*: no false alarm, none twice, no crossing missed (`Alerts`);
- *Claude watcher*: no line falls between two scans, superseded replays go (`ClaudeWatcher`);
- *Codex watcher*: stored differences never fall short of the last total, and
  context, starts and file changes reach what they belong to (`CodexWatcher`);
- *singleton*: one daemon, and its sockets lead to it (`DaemonSingleton`);
- *files*: a crash loses at most the oldest log, no database, no settings
  (`LogRotation`, `Backups`, `HookSettings`);
- *blocks*: every entry is in one block, windows are apart, one is active (`Blocks`);
- *caches*: what is served was computed from inputs no older than promised (`SharedCaches`);
- *readers*: an entry carries the tokens that were used, a message is one entry (`AgentReaders`);
- *queries and reports*: each adds up to the rows, and they agree with one
  another (`CostQueries`, `UsageReports`).

`PROJECT.json` lists every hazard with its line and the properties that are
about it.

## 2. Modules

| module | role |
|---|---|
| `UsageStore` | token rows, session totals, cost cache, reconciliation, crash and restart |
| `Opening` | what every process does to the database when it opens it |
| `SearchIndex` | the full-text index beside the rows it is about |
| `SessionLifecycle` | status and ends of sessions, status of tool calls, sweeps |
| `EventLedger` | abstract: the fate of an event and when the database may be closed |
| `DaemonPipeline` | goroutines, channels and `Daemon.Stop`; implements `EventLedger` |
| `JsonLines` | a file of JSON objects that grows while it is read |
| `ClaudeWatcher`, `CodexWatcher` | the two log watchers, both on `JsonLines` |
| `Alerts`, `WebhookDelivery` | what is told to the endpoints, and how it gets there |
| `EventStream` | from broadcast to a screen |
| `DaemonSingleton` | PID file, flock and socket files of several processes |
| `LogRotation`, `Backups`, `HookSettings` | files that are renamed, copied and rewritten |
| `SharedCaches` | statusline cache and price cache |
| `AgentReaders` | the readers of thirteen other agents |
| `CostQueries`, `UsageReports` | the dashboard's pages, the reports of the command line |
| `Blocks` | cutting usage entries into session blocks |
| `MC*` | the finite instances TLC checks |
| `UsageStoreProofs`, `SessionLifecycleProofs`, `DaemonPipelineProofs`, `BlocksProofs` | theorems about the module they are named after |
| `WatchersProofs` | theorems about `ClaudeWatcher` and `CodexWatcher` |
| `ReportsProofs` | theorems about what is shown and what it is made from: `EventStream`, `SearchIndex`, `CostQueries`, `UsageReports`, `AgentReaders` |
| `ServicesProofs` | theorems about `Opening`, `LogRotation`, `Backups`, `SharedCaches`, `HookSettings`, `DaemonSingleton`, `Alerts`, `WebhookDelivery`, and about all services together |
| `Sums`, `SumProofs` | sums of a function over a finite set, and what can be said of them |

A definition whose comment begins "Faulty variant" is not a step of the
system.  It is what the definition after it would be with a plausible bug, and
`PROJECT.json` names the property that catches it.

Modules that share no state share a run: `MCWatchers` and `MCServices` choose
one of them at the start (`side`), and every behaviour is one of that
component with all its processes; the others stand still.

### UsageStore

One SQLite statement or transaction is one action.  Inside one process this
grain is exact: `db.SetMaxOpenConns(1)` gives statements one connection, and
between processes SQLite's write lock does.

- *Rows*: `row`, `model`, `cost` are the columns of `token_usage` by
  `source_id`, which is unique; `TokOf`, `SessOf` are what the log line says and
  never change.  The five token counters of a row move together, so one number
  stands for them.  Rows with an empty source are not watched events and are
  left out.
- *Totals*: a total is a sum, and each statement of the code changes it row by
  row.  The model keeps the summands: `tokIn[r]`, `costIn[r]` and `cacheIn[r]`
  are what row `r` contributes now to `total_*_tokens`, `total_cost_usd` and
  the cache line of its day.  A double count is a summand of twice the value,
  a forgotten subtraction a summand without a row.
  `UpdateSessionTokens` and `rebuildDailyCostCache` overwrite, the others add.
- *Sessions*: only whether the row exists and whether it may be cleaned;
  `SessionLifecycle` says when it changes.
- *Handlers*: `job[g]` is the program counter of a goroutine inside
  `reconcileCodexTokenModel` or between upsert and enqueue.  `queue` stands for
  the BatchWriter's channel and buffer: `Flush(B)` takes any part of it, which
  includes the code's size and time triggers and more orders than the channel has.
- *Watchers*: any source may be emitted at any time while the daemon is up,
  repeatedly: offsets are kept in memory, so a restart re-reads the logs.
- *Crash*: what is in memory is gone; rows stay.  `torn` and `tornCache` are
  history variables that remember which reconciliation was cut short.
  `orphan` remembers rows that were inserted while their session had no row.

### SessionLifecycle

`EventArrives` is the upsert every event starts with; `AgeCheck`,
`EndHistorical` and `Act` are the rest of `processEvent`; `session_end` is
`SessionEndArrives` (with `CanEndSession`), `MarkPendingToolCallsInterrupted`
and `EndByEvent`.  Two goroutines interleave at each of these statements.
`StaleSweep`, `StartSweep`, `StartPrune` and `CleanOldSessions` (another process)
run at any time.  Any statement may fail: the first error is logged and the
handler goes on, later errors end it, as the code has it.  Timestamps are
compared as strings of one fixed width in the code, so their order is the order
of times; the model uses small numbers, 0 for NULL.  `start_time` is read by the
code only where `last_event_time` is empty, which rows written by this version
never are, so it is left out.  `CleanOldSessions` may delete any closed session
whose end is in the past: the age is an argument of the command.

### DaemonPipeline and EventLedger

Every goroutine has its own actions: a watcher's send (`Emit`, `SendBlocked`,
`DropOnShutdown` are the two selects of `ProcessExternalEventAsync`), the accept
goroutine, one `handleConn` per connection, `batchConsumer` with its drain loop,
`BatchWriter.run` with its buffer, ticker and drain loop, one background loop for
the seven the daemon starts beside the webhook retries (all wait in the same way), and `Stop`, one
action for each statement or wait, followed by the caller's `db.Close`.  An event
is a producer and a number; `Direct` says which are written by `processEvent`
itself.  A failing statement or transaction is a choice, at most `MaxFault` times.
`Enqueue` may refuse after the writer's own `done` is closed, as the code may;
that this never happens is one thing `LedgerKept` shows, since a refused event
would have no fate.  The ledger has no channels and no goroutines: an
event is unread, taken, stored or lost, one transaction settles a set of
events with one outcome, and the database is closed when none is left as taken.

### Opening

Every command that opens the database runs `migrate`; `FindColumn` to
`FillCache` are its statements in order, each an action because each commits by
itself.  `user[p].at` is the statement process `p` has reached.  One of the
columns that are added, one session with its three times, one day of the cost
cache and a set of file changes stand for all of them: the code does the same for
each.  A session row has a `last_event_time`: the empty one of a row older than that
column, for which the code falls back to `start_time`, is left out.  `LoadTimes` and `UpdateTimes` are the read and the write-back of
`normalizeTimeColumns`; what lies between is why the module exists.  The
daemon is the process that, once open, goes on writing (`Upsert`, `MarkStale`,
`InsertTokens`, `InsertChange`).  `OpeningKeeps` has four parts: a version that is
stamped means normal times (`MigratedIsNormal`), a session is as late as its
latest event (`EventsKept`), the cost cache is empty or whole (`CacheIsWhole`)
and the index of file changes comes back (`IndexComesBack`).  The history
variables `overtaken` and `short` remember the two losses the code does
not exclude: a session updated between the read and the write-back of the
normalisation, and a cost added to an empty cache beside older rows.  A process
that fails while the index is dropped is recorded as a break.

### SearchIndex

`tool_calls`, `file_changes` and `search_index` with one handler per goroutine of
the daemon: `CallStarts`, `CallEnds` and `FileChanges` write the row, `Index` is the
separate statement that follows.  `Clean` is the transaction of `tm clean`, and
`CleanBlind` that of a `tm clean` whose own opening fell back to LIKE (`db.go:782`): it
deletes the rows and leaves the index.  Any
process that opens the database may find the index unstamped and make it anew,
`CountSources` to `Stamp`; `FillRow` adds the rows it loaded before, one by one, so
handlers may add and remove rows meanwhile.  The run starts from a new database and
from an old one with rows and no index.  `SearchesAgree` says `HitsLike`
and `HitsFTS` (the two ways to search) agree on every settled row.  `excused`
remembers the rows two wrote at once, a crash or failure left half done, a daemon without
an index wrote, or a command without one deleted; a call that ended a second time with an empty result keeps
the first in the index, as the code does.

### JsonLines, ClaudeWatcher, CodexWatcher

A line is three units of its file: a fragment, the rest of the object, the newline.
That is enough to tell a fragment (not committed), an object whose newline
is still missing (committed and counted) and a full line apart; `ReadLine` is what
both watchers do with `ReadBytes('\n')`.

*Claude.*  `ClaudeTick` lists the changed files.  The first scan hands them to
workers (`CollectOne`) with a deduplicator each, whose results are taken one
by one (`TakeResult`).  Later scans open a file, read line by line and finish it
(`OpenFile`, `ReadOne`, `FinishFile`); a file that shrank is read from its start.
A better candidate of a message (`Prefers`) deletes the row of the worse one
at once and is emitted after the last line.  `sent` is everything between
`emitFn` and the database; `WriteBatch` is one transaction or its failure.
Processes stop, die and start again, agents append fragments, files are truncated
and grow too old.  `CommittedIsCounted` is the promise that no line falls between two
scans; `ReplaysYield` that a superseded row goes unless it was out of reach
(`excused`); `CatchesUp` that no file is left behind.

*Codex.*  A rollout file is a growing prefix of a script.  `DiscoverOne` and
`MergeResult` are the pool of the first discovery, `ScanKnown`, `ScanRecent` and
`ScanEnds` the later scans; a whole file is read in one action (`ReadRollout`, a
recursive function over `ReadStep`), because a file only changes at its end and the end is
chosen before.  What is carried from one scan to the next is state (offsets,
models, pending calls, deferred starts), what is not is a local of that loop
(the previous total).  `Annotated`, `EmitOrDefer` and `ChangeEvents` are the three
places where context meets what it belongs to, and `ContextReaches` and
`ActivityKept` are about them.  `ActivityKept` asks for the start of a session where its files
begin with the session_meta, as Codex writes them: a meta that comes after the activity
would be deferred until there is more.

### Alerts and WebhookDelivery

`CheckBudgets`, `CheckTools` and `CheckAnomalies` are whole sweeps: they run in one
goroutine each, and what they share with others is read by queries of one
statement.  Between them usage rises, rows disappear, tools fail, the clock ticks
and the configuration is reloaded.  An alarm only joins the set `alarms`;
`AlertsMatchCrossings` compares that set with what the history saw (`calm`:
when a subject was seen below its level).  `RegressionOf` and `SpikeAt` are the
arithmetic of the anomalies with integer rates.

`WebhookDelivery` follows one delivery, `job[d]`: in the queue, in the hands of its
goroutine, waiting for the next attempt, posted directly.  `Dispatch` and `Enqueue` are
separate because the code looks first and sends later; `Enqueue` chooses any ready
case of its `select`, so a delivery can still enter a queue nobody reads.
`StopBegins` to `ProcessExits` are the order of waits in `Stop`.
`DeliveryDecided` says a delivery ends once, in a way that fits its number of
posts, and after `Stop` has returned nothing counted still posts.

### EventStream

`broadcast` is called by every `handleConn`, by `ProcessExternalEvent` and by
`batchConsumer`, each on a goroutine of its own, so each `Caster` has actions of its own and
they interleave: `BeginBroadcast` copies the subscribers, then for one connection after the
other `SetDeadline`, `WriteEvent` or `WriteFails`, `ResetDeadline`, and `RemoveSub` after an
error, while `AddSubscriber`, `Leave` and `SweepSubscribers` change the original.  The
deadline belongs to the connection (`timed`), not to who set it.  A write that fails may
leave part of an event in the socket (`scrap`), behind which nothing can be decoded, and
another goroutine may write more before the subscriber is removed.  A client is a socket
(`wire`), a reader goroutine (`reading`) with a channel (`inbox`), and a screen.  For the
dashboard `Add`, `FlushTick`, `FlushLast` and `TakeBatch` are the `SSEBuffer`; a batch has
no order.

`WholeStream` says what gets into a connection: of each goroutine its broadcasts since the
client was registered, in order, each once and without a gap, up to some point.  Of the order
of two goroutines' events the code promises nothing, and the property says nothing.
`FaithfulScreen` compares the screen with what was written: only that (`OnScreen`), in that
order (`Alike`), and at the end of a stream nothing is missing but what its buffer merged or
counted as dropped.

### DaemonSingleton

`at[p]` is the step a process has reached: the PID check, the removal of a stale file, the
lock, one probe and one bind per socket, the PID file, serving, and the steps of `Stop`
and of the deferred calls in `main` after it.  A dashboard that finds a daemon becomes its
client.  `tm doctor --fix` looks at the PID file and removes it later (`DoctorLooks`,
`DoctorRemoves`).  `Kill` strikes anywhere: the kernel drops the flock and the listeners,
the files stay.

### LogRotation, Backups, HookSettings

Each rename, removal, truncation and copy is an action, so that a kill or a
failure comes between any two.  A log line is a number, and `WholeLog` is what
one reads from the oldest file to the newest.  The database of `Backups`
is one of three contents; `everWhole` remembers that there has been a whole
automatic backup.  The settings of `HookSettings` have hooks per event and a rest (`text`);
`file.by` and `marred` are history: who left the file so, and what was damaged by an
edit under the hands of a run, an unreadable file or a kill during a write.  Hooks
found at the start are any that do not name the command of an unknown binary
twice in one event, which no version of the program wrote.

### SharedCaches

What a process computes is stood for by the time its data was read, a table of prices
by when it was fetched and whether all of it parses (`good`).  Both files are truncated,
then filled; `FillLine` and `WritePrices` may leave the end of another writer's longer content
behind (`torn`).  A process that has prices and refreshes them, or only does that
(`RefreshAsked` is `tm pricing refresh`), may end in the middle: nobody waits for the refresh in
the background.  `FetchPrices` stores only what parses (`writeRuntimeCache`), which is
why `LoadPrices` may ignore the error of a cached table.  `served` and `priced` remember
every output and price table used; `BoundedStaleness` says of them that a line from the
cache is younger than the interval, and that a table of prices is whole and, unless it is used
once more while it is refreshed or there is no network, fetched less than the interval before.
A file is read in one step: a writer in the middle of somebody's read is left out.

### AgentReaders

`Load` is `RunAdapter`: the roots, the files, one reader per agent (which of the recorded
counts it takes, how it makes them disjoint, the model and the time of a record without
one, the key a message is known by), then the window.  `EntryOf` names what each reader
makes of one record.  `Forms` are the ways an agent writes the same usage down.  The state
is the disk: messages are written, revised, copied below another root and grow past a
scanner's limit.  The key of a Pi message holds the project its file lies in (`ProjectOf`,
`pi.go:293`), which a copy below another root may change; that of a Kilo message holds the
path of its database, so Kilo gives one entry per copy, although its comment says otherwise
(section 3, findings).  `RecordsFaithful` compares the entry of each record with the usage
(`UsedTokens`) its message had when it was written, `AdaptersFaithful` the entries of a
whole report: how many there are of a message (`Deduplicated`), whose model they carry, and what
two reports share that meet at an instant.

### CostQueries and UsageReports

A page is a sequence of queries, each of them a statement that runs when it
runs (`RunStatement`), while rows are inserted, deleted and repriced.  A window of
costs is `CostBetween`: the cached days, corrected at both ends.  Days are local and
a zone changes its offset once.  `PagesAddUp` bounds the error of each number
by what was written while the page was served.

`UsageReports` is a pure model of the four places that add up the same rows:
`AggregateUsage` (SQLite), `aggregateEntriesInMemory`, `RunInstances`,
`runSessionDetail`.  What the readers found is `scanned`; `fromAdapters` gives them the
window first, as `aggregate.go:461` does, and those of `DropsEnd` (seven of the thirteen)
leave out an entry exactly at its end, which the closed window of the loop behind them would
let pass.  `ReportsAgree` quantifies over every bucket, zone, window
and mode of `Args`.

### Blocks

One iteration of the loop of `Identify` is one action: `First`, `Joins` or
`Splits`; `IdentifyReturns` is the final flush and `PopulatePerModel` the second
walk.  A closed block names its entries by the numbers `from` to `to` instead of
carrying their tokens, cost and models, which are sums over exactly them.  Entries
come sorted, as the query delivers them, and not later than `now`, since one
machine writes and reads them.

## 3. Runs

| run | checks | shows | states |
|---|---|---|---|
| `usage_store` | TypeOK TokensExact CostsExact CacheExact | totals and cost cache stay exact under two reconciling goroutines, failing batches, deletes, cleans, crash and restart | 1.9 million |
| `usage_orphan` | JoinElisionSafe (violated) | a token row can lack its session | - |
| `session_lifecycle` | TypeOK EndIsLastEvent HistoricalNotRunning NeverPendingAgain ReopenedByEvidence AbandonedCloses | status, end and calls stay consistent in any interleaving; abandoned sessions are closed although one statement fails | 328 thousand |
| `pipeline` | TypeOK LedgerKept | the shutdown of `tm daemon` loses nothing | 69 thousand |
| `pipeline_api` | QuietAfterClose InOrder StopReturns | producers that stop first or go on during `Stop` neither block it nor reach the closed database; order is kept | 434 thousand |
| `pipeline_doc` | ShutdownEventsCounted (violated) | an event sent after the drain is not counted | - |
| `blocks` | TypeOK EachEntryOnce WindowsApart GapsAreSilence OneActive OwnerAgrees | blocks partition the entries, windows do not overlap, gaps are silent, one block is active | 47 thousand |
| `blocks_doc` | WithinHalfOpen (violated) | an entry at the very end of its block has no per-model owner | - |
| `watchers` | TypeOK CommittedIsCounted ReplaysYield CumulativeNotLost ContextReaches ActivityKept CatchesUp | no complete line is lost and no context is split from what it belongs to, however writes are cut into scans | 250 thousand |
| `codex_doc` | TotalsAreDifferences (violated) | a cumulative total is stored again in full by a later scan | - |
| `services` | TypeOK AlertsMatchCrossings DeliveryDecided StreamFaithful OneDaemon FilesSurvive BoundedStaleness ReadersFaithful QueriesAddUp SearchAgrees OpeningHolds | the other services, each with its processes and faults | 872 thousand |
| `opening_doc` | ChangesCountedOnce (violated) | a file change repeated while the index is dropped is stored twice | - |

`services` is fifteen state spaces in one run, since the modules share no
variable: each property is about one of them, or names in MCServices which parts
it joins (`FilesSurvive`: logs, backups, settings; `QueriesAddUp`: pages,
reports).

### Bounds

- `usage_store`: a codex session with one event that has no model and one that
  has, a claude session with one event, two workers and the startup goroutine,
  one fault.  Repricing (0 to 3) and list price (1) differ, so every missing
  update shows.  Two rows of one session are needed for a backfill that hits one
  of them; two workers for a reconciliation inside another; the second session
  for cleaning, deletion and the rebuild that touches rows of others.  The
  theorems hold for any number of all of them.
- `session_lifecycle`: one session, because no statement reads two; one tool
  call; two goroutines; event times 1 and 2 with an age limit of 1, so that each event
  is fresh, historical or overtaken in some behaviour, and a clock up to 5, at
  which all have become old; one fault.
- `pipeline`: two watchers and a connection, channels of one slot so that every
  sender blocks at some point, a buffer of two so that batches of several events
  form and leave a remainder for the drain; one failure.  `pipeline_api` gives
  two producers two events each, of both kinds.
- `blocks`: an hour of two units and sessions of two hours, so that entries fall on
  the hour, between hours and on every boundary; four entries in seven hours make a
  gap, a cut without gap and a block of several entries.  The theorems hold for any
  hour, length and list.
- `watchers`, Claude: a file of two lines, each one of three messages of one uuid (the
  session's own and two replays of different weight), one upset (truncation, ageing,
  restart, failed write), which is all the deduplicator and the offsets need to meet.
  Codex: five scripts of two rollouts, written for the five ways context crosses a
  scan (a context before its totals, a total that falls, a call and its output
  with usage of its own, an unreadable line with a patch, a copied history), one
  upset, and pending calls collected every second scan.
- `services`: two endpoints with different thresholds and a list of endpoints that
  changes, four ticks, of which two make a day; four deliveries through a queue of one;
  two goroutines that broadcast two events and one to two clients, one of them the dashboard,
  channels of one; three
  processes, one a dashboard, one kill, a doctor; two log backups, two mishaps; two kept
  automatic backups of four, two restores; two readers of each cache within three ticks;
  two messages, one revision or copy, two roots, all thirteen agents; two rows and two
  writes around one page, days of two instants, weeks of two days, months of three,
  two zones; one call and one file under two handlers, a command and one failure, three
  things that happen, the last of them to a session that was cleaned (`ComesBack`);
  a daemon, a command, one old session, one change and one failure at the opening;
  two binaries, one user edit and three initial files for the settings.  The sides have
  between 400 and some hundred thousand states.  With both clients subscribed the stream is
  narrowed to what one client cannot show: one reads nothing, neither leaves, and each
  goroutine broadcasts once (`FewScreens`).

Every action and every disjunct of the next-state relations is taken in a passing run.

### Fairness

- Goroutines that can run do run: weak fairness for handlers, the consumer, the
  writer, `Stop`.  The Go scheduler is preemptive and no goroutine here spins.
- Strong fairness only where Go provides it: `select` chooses among ready cases
  at random, so a background loop whose ticker and `done` are both ready takes
  `done` in the end; senders blocked on a channel are queued first in, first
  out, so a blocked `SendBlocked` gets a slot.
- The clock and the ticker of the stale sweep do not stop.
- The polling loop of the Claude watcher goes on as long as its process
  runs (`CatchesUp`).
- None for clients, events, agents that write logs, `tm clean`, the restart of a
  crashed daemon or the user who stops it.  A client that never closes its connection
  is allowed, which is why `Stop` has to close it.
- `services` and the Codex watcher are checked for safety only and assume no
  fairness; `DeliveryDecided` and `StreamFaithful` say what an end means, not that it comes.

### Findings

1. `usage_orphan`: the comment in `internal/storage/aggregate.go` that justifies
   leaving out the JOIN names an invariant of the daemon.  `tm clean` runs in a
   process of its own and can delete a closed session between the upsert and
   the flush of the same event.  Daily sums then contain a row the session
   reports do not.  The next upsert of the session leaves the row out of the
   totals as well: `orphan` in the model.
2. `pipeline_doc`: the comment on `ProcessExternalEventAsync` says events during
   shutdown are counted.  The first, non-blocking send does not look at `done`.
   An event that finds room after `batchConsumer` has left is neither processed
   nor counted.  Both commands that run a daemon stop the watchers before, so
   no event is lost there; run `pipeline` shows that.
3. `blocks_doc`: the comment on `PopulatePerModel` says each entry lies in exactly
   one [StartTime, EndTime).  `Identify` compares with `>`, so an entry exactly
   at the end belongs to the block; its tokens are in the block's totals but in the
   per-model figures of no block, or of the next one.
4. `codex_doc`: `previousTotal` (`internal/collector/codex.go:571`) is a local of
   one scan of one file.  Where Codex writes cumulative totals only, the first total of
   every later scan is stored in full: a session read in two scans stores 2 and then 5
   for a total of 5.  `codex_test.go:807` expects differences and reads its log in one
   scan.  `CumulativeNotLost` shows the error is in this direction only.
5. `opening_doc`: `migrate` drops the unique index of `file_changes` and makes it anew in
   two statements (`internal/storage/db.go:354`), in every command.  A change the daemon
   repeats in between is stored twice, although `CHANGELOG.md:569-570` counts on that
   index; then the index cannot be made any more and opening the database fails.

Behaviour the models contain and a reader should know of, though no run is about it
alone; the first three contradict a comment as well:

- Two goroutines that write to one subscriber share the deadline of its connection
  (`timed`).  The one whose event went through resets it to none (`daemon.go:743`) while the
  other waits for room in the socket of a client that reads no more, and may wait for good.
  `counters_test.go:117` and `daemon.go:116` say such a subscriber is detached, and the
  daemon never stalled.  `StreamFaithful` is about what is delivered, not about when.
- A Kilo message is known by a key that begins with the path of its database
  (`kilo.go:99`): the same database below two roots gives each message twice.  The comment at
  `kilo.go:94-98` says that a remount of the same content still collapses.
- `--until` is handed to the readers, and amp, codebuff, copilot, gemini, openclaw, pi and
  qwen leave out an entry exactly at it (`pi.go:60`), before the filter whose comment
  (`aggregate.go:476-479`) says that it includes that instant as SQL does (`DropsEnd`).
- Replays of one message in two files of the first scan are stored twice
  (`ReplaysYield` excepts them): the deduplicators of the workers are not merged.
  `CHANGELOG.md:15` describes the serial case.
- `broadcast_buffer.go:13` calls token usage events snapshots of which the last
  is enough.  They are differences; the dashboard does not add them up.
- The comment at `aggregate.go:233-239` claims mode auto charges what the rows
  cost; a group of rows with and without a cost is charged less (`PricedAlike`).
- `--until` includes the midnight that ends its day (`aggregate.go:397`), so a row, and an
  entry of six of the readers, at exactly that instant is in the reports of two days
  (`DaysComplete`); an entry of the other seven is in the report of the later day only.
- The repair of an empty cost cache can meet increments of a running daemon and
  leave the cache short, or fail; the normalisation of times may overwrite a newer
  time (`Opening`).
- `settings.json`: a kill between truncation and write loses it, an unreadable file
  is taken for none, a second fix of `tm doctor` overwrites the copy the first one
  made, and the hooks of a binary under another name stay beside the new ones
  (`HookSettings`).
- A `tm clean` whose own opening could not make the search index leaves the index rows of the
  session it deletes: if the session comes back, full-text search finds what LIKE does not
  (`SearchIndex`, `CleanBlind`).
- An alert silences a tool's later crossing for endpoints with higher thresholds
  (`Alerts`), and deliveries waiting for another attempt when the daemon stops are
  dropped without a dead letter (`WebhookDelivery`).

## 4. Theorems

All are proved for every value of the constants that satisfies the ASSUMEs of
the module, which ask for types, for model values that differ, and that a bound
leaves room for what it bounds.

- `UsageStoreProofs`: `TypeCorrect`, `TokensCorrect`, `CostsCorrect`,
  `CacheCorrect`.  The inductive invariant is `StoreInv`.  The three exactness
  properties are not inductive together: an upsert creates a session with totals of
  zero, so one must know that nothing of an absent session is counted and that
  every token row without a session is already recorded as `orphan`; that is
  `AbsentSessions`, which is what a clean, a prune and an insert have to
  establish.  There is one lemma per group of actions: each says what the action
  does to one row, and the invariant is about each row alone.
- `SessionLifecycleProofs`: `EndCorrect` (`EndIsLastEvent`), `TypeCorrect`, `PendingOnce`,
  `ReopenedCorrect`, `RunningCorrect` (`HistoricalNotRunning`). `SessionInv` adds to the
  first the types of the columns and that a handler carries a positive time stamp
  (EndSession writes it), that an active session has seen an event (the sweep copies its
  time into the end), and that a session without a row has no end (an upsert compares with
  it).  `Others` is the rest of the types.  `RunningInv` needs both, with `Unseen`: a
  session without a row has no time on record.  Without it an upsert that makes the row
  could keep an old time no handler carries and no fresh event explains.  The two action
  properties follow from `SessionInv` step by step.
- `DaemonPipelineProofs`.  `CloseIsQuiet` is `QuietAfterClose`.  `StopInv` says for each
  stage of `Stop` which goroutines have ended by then and that they cannot come back: a
  connection accepted while stopping is never registered, since `registerClientConn` looks
  at the flag under the lock. `TypeCorrect` needs it, and `Bounds`: no channel holds more
  than its capacity. `OrderKept` is `InOrder`.  `OrderInv` puts the places an event passes
  through in a row (`Written`, `InBuffer`, `InQueue`, `InHand`, `InChannel`, `Offered`):
  what is in a place further on was sent earlier, and within one place events are sorted.
  `NothingForgotten` says that these places and the losses leave out nothing: with
  `OrderInv` an event is in exactly one of them. `LedgerImplemented` proves the safety
  part of `LedgerKept`: every step is a step of the ledger or a stutter.  It needs all of
  the above, for an event that settles was taken and no sooner settled, and `Still`: once
  the watchers have ended nobody offers an event, so that `db.Close` finds none as taken.
  That is why the theorem assumes `WatchersFirst`, the order in which both commands stop
  their parts; without it `pipeline_doc` has the counterexample.
- `BlocksProofs`: `Partition`, that is `EachEntryOnce`, from the invariant that closed
  blocks follow one another without leaving out an entry (`Chained`); `Disjoint`, that is
  `WindowsApart`, from the invariant that the current block starts on the hour after all
  closed ones and contains its entries so far (`Current`), and two lemmas on rounding down
  to the hour; `TypeCorrect`; `GapsAreSilent`, from `GapInv`, in which a gap also ends no
  later than the last entry walked over; `OnlyOneActive`, from `ActiveInv`: no block
  closed inside the loop is active, since the entry that closes it and `now` are past its
  end or a session after its last entry; `OwnersAgree`, because with disjoint windows the
  first block that matches is the only one.  That first block exists by `Least`, which
  finds the least element of a set of numbers with the well-foundedness theorems of the
  library.
- `ServicesProofs`.  `OneDaemonCorrect` is `OneDaemon`.  `SingletonInv` says that the lock
  is held by exactly the process between taking and dropping it (`LockIsState`), that a
  process listens only between its bind and its close and that the socket file then leads
  to it (`ListenersLead`), and that a serving process listens on both sockets
  (`ServesBoth`).  The PID file appears in none of these: what keeps two daemons apart is
  the flock, not the check. `LogKept`: by `RotationInv` the files are the log cut into
  pieces (`CutAt`), and each rename moves one cut.  `SurvivalCorrect`: `BackupsInv` adds
  that a restore which is about to remove the database has saved it, and that the newest
  file is whole while older ones are removed.  `StalenessBounded`: `CachesInv` dates the
  line in the hands of a process (`StampedBefore`), and says that prices in its hands and
  in a whole file parse and are stamped no later than they were fetched (`FetchedWhole`).  `HooksKept`:
  `SettingsInv` says what a run is about to write (`WellPlanned`) and that the user's part
  is in the file or its copy unless something in `marred` happened; `Filter` is what the
  loop of `removeTokenMeterHook` keeps. `CrossingsMatched`: in `AlertsInv`, what was
  reported is remembered until it is calm again (`BudgetsInv`, `ToolsInv`), a cooldown
  dates from the last alarm (`SpikesInv`), and a sweep that is due has not yet done
  anything at this tick (`QuietInv`).  `DecidedCorrect`: `WebhookInv` says how often a
  delivery was posted in each state (`Asked`), that the queue repeats nothing and holds
  exactly what is queued (`InQueue`), that the dead-letter file holds each delivery that
  used all its attempts once (`Buried`), and which goroutines are left in each stage of
  `Stop` (`Stages`). The services share no variable, so a step of all of them is a step or
  a stutter of each; with that, what is proved of a component, here or in `ReportsProofs`,
  holds in every run of `services`: `FilesKept`, `AlarmsHold`, `DatabaseHolds`,
  `OpeningsHold`, `QueriesServed`, `RecordsHold` and `TypesCorrect`.  The last is the type
  invariant of the run, with the bounds it names: a log holds lines that were written, a
  rate is at most one hundred percent, a queue holds what it can, an opening or a caller
  stands at a step there is. Each service has an invariant of its own for it
  (`...BoundedStep`).
  `OpeningsKeep`: `FormatsInv` says that what a process has in hand covers all that is in
  an old format, `LatestInv` that a row about to be written is as late as the session,
  `IndexInv` who still owes the unique index.
- `ReportsProofs`.  `SearchesMeet`:
  `SearchInv` says of every key whose row is not `excused` that somebody cares for it
  (`Cared`): the index agrees, or a handler or an opener is about to write the row, with
  the text it has by then (`HandlersInv`, `OpenersInv`). `StreamsFaithful`: `StreamInv`
  says where each goroutine's broadcast is with a connection (`Connected`: one that has not
  written to it is newer than all that is in it, and a socket that holds part of an event has
  somebody about to drop it), follows what was written through the channels (`Passing`) to the
  screen (`Showing`) and says what an end leaves (`Ending`). The
  theorem `QueriesServed` rests on two parts.  For `PagesAddUp`, `PageNear` says of each
  query of a page being served that a row is counted, by what has run of it and what is
  left to run, at most once too often or too seldom (`NearTruth`), and that all this
  together (`Gaps`) is no more than what was written since the page was asked for; a page
  nothing of which has run is `Fresh`: the cached days, less the rows before the window
  and after it, are the rows of the window, because local days do not overlap
  (`DayStartIs`) and the cache holds each day's sum (`CacheSums`), which an insert, a
  delete and a rebuild keep.  For `ReportsAgree` nothing changes, so it is a fact about
  the four functions: each assigns a row to one group or line by a key of its own, hence
  adds up to the rows (`KeyedAddsUp`, `FoldAddsUp`), keys of bucket, model and session
  agree between SQL and memory (`SqlMatches`), and a price is linear below its tier, which
  is what a group priced at once needs (`AutoTogether`, `GroupsFair`).
  `RecordsAreFaithful` is `RecordsFaithful` of `AgentReaders`: `ReadersBounded` keeps of
  every record on disk which usage it tells of, in which form and under which model
  (`Recorded`), and the lemmas from `PlainIsRight` to `GooseIsRight` do each reader's
  arithmetic for every form.
- `SumProofs` is the library the sums need: the fold of the community modules over a finite
  set has a value and one more element adds its own (`SumsAre`), by well-founded induction over
  subsets, stated about a set of subsets (`SmallerFirst`); then what a sum of two functions, of
  two parts, of groups, of an image is.
- `WatchersProofs`.  `CommittedCounted` is `CommittedIsCounted`: below every offset that
  was or will be committed each usage line is told, that is stored, on its way, or
  replaced by a candidate that is (`SeenTold`, `ReadTold`, `GotTold`).  It rests on
  `KnownTold`: the deduplicator knows of no message that is not told, and a source it
  withdraws is a replay of the message that takes its place (`Exchanged`).  `ReplaysGive`
  is `ReplaysYield`, from `StoredSingle` and `ReadSingle`: in the database and in what a
  worker has read, a replay that can be reached is the one the deduplicator knows.
  `ContextsReach` and `ActivitiesKept` are `ContextReaches` and `ActivityKept` of the
  Codex watcher.  `HasRead` says what reading a file from one offset to another yields,
  whoever reads it: a model where a context named one (`Contexted`), calls that are
  pending or settled (`CallsKept`, `OutputsKept`), the start (`MetaKept`) and usage that
  is `Explained`.  `CodexInv` has it for the results of the workers that wait for their
  merge (`Found`) and keeps it for each file below its offset (`SeenKept`), with the
  model, the pending calls and the starts the watcher holds by then; `RowsKept` and
  `StartsKept` say it of what was emitted. `TotalsServed` is `CumulativeNotLost`.  It is
  not about the sum but about each number up to a total: below an offset that was or will
  be committed, every one lies in the span of a row (from the total before it, exclusive,
  to its own) that is stored and occurs in every file that holds the total (`LineIn`,
  `Accounted`).  `INSERT OR IGNORE` keeps the first row of an id, perhaps that of another
  file, whose span may start elsewhere; then the number is found at the least position of
  the file where a total reaches it.  That spans which cover a number of tokens add up to
  as many is `SpansAddUp`.  It assumes `Histories`: files of cumulative totals have no
  turn with a total of its own, and share what they share from the start.  `MCWatchers`
  states this of the instance as an ASSUME, so the theorem about the composition,
  `TotalsHold`, needs no assumption of its own. `WatchersHold` has these four, and the
  types, for the runs of `watchers`; `ClaudeBounded` adds the bounds the type invariant
  names.

Model-checked only:

- `ReadersFaithful`, the one safety invariant without a theorem.  Its part about single
  records, the conjunct `RecordsCounted`, is proved (`RecordsHold`); what is left is how often a
  message occurs in a whole report and at its edges, which takes the sorting and the folds of
  thirteen readers, each a loop with an operator of its own;
- the liveness properties `AbandonedCloses`, `StopReturns` and `CatchesUp`, and the
  fairness in the refinement `LedgerKept`.

Outside the prover's reach: liveness and ENABLED.  Induction takes an operator as a
parameter in the library, which cannot be instantiated here; it is in reach where it can be said
of a set: the numbers up to a length, the subsets of a finite set.  So a loop
written as a recursive function on such numbers can be proved about (that of
`removeTokenMeterHook`, the one over the endpoints of an anomaly, the pieces
of the log, the lines the two watchers read), and so can a sum.  A fold with an operator
of its own needs the argument of `SumsAre` again for each operator.

What the theorems assume of the constants, beyond types and bounds that are natural
numbers: no kind of row has a negative count or cost and there are finitely many
(`CostsAssumption`); no zone skips or repeats a midnight (`ZoneAssumption`); no price is
negative and the empty name has none (`PricesAssumption`); an agent is one of the
thirteen, uses no negative number of tokens and searches no directory twice
(`ReadersAssumption`); `Histories`, for `TotalsServed` alone; `WatchersFirst`, for
`LedgerImplemented` alone.

## 5. What is not modelled

Left out of the modelled parts:

- Contents of events, paths, metadata: `UpdateSessionMeta`, `FillSessionMeta` and
  the agents are single idempotent statements nothing else reads back.
  `RepairSyntheticModels` writes only `sessions.model`, which no modelled statement
  reads.
- Floating-point rounding: costs are integers.  Totals are sums of the same
  numbers in different orders, so real ones may differ in the last digits.
- Overflow of token counters: they have 64 bits, and agents count to millions.
- A process id that is used again for another process, on which the PID check
  relies.
- Tokenising, ranking and excerpts of the search; the text of the status line.
- Fractions of failure rates and regression ratios: whole numbers stand for them.
- A second daemon that starts while one runs opens the log before it finds the lock taken
  (`cmd/tm/main.go:506`, `518`) and may write, or rotate it: `LogRotation` has one writer at a
  time.

Not modelled:

- Terminal rendering (`internal/render`), arguments and
  configuration files (`cmd/tm`): no state outlives a call.
- The checks of `tm doctor` that only read, `tm update`, and `tm webhook replay`,
  which posts what is in a file once.
- Insights, forecast, burn rate, projection and token limits: real-valued arithmetic on
  numbers whose sums are modelled.
- The forms for budgets and tags (single statements), authentication and
  static files of the dashboard.
- The table of prices and the lookup of a model by name: data.
- Project filters, git branches and the working directories of Codex sessions:
  text taken from paths.

## 6. Plan

What is left, in this order:

1. `ReadersFaithful`: the readers as loops over a list, each a recursive function on its
   length, and one lemma per key that says which records it takes for the same message.
2. The budget and tag forms, if they come to share state with the alerts.

Runs stay within a few minutes each: two or three actors, channels of one or two
slots, one fault.

## 7. Hazards

Every hazard in `PROJECT.json` has a property.  A `note` says what that property
excepts.  Some exceptions are behaviour the code has and no document promises
otherwise: totals that stay stale after a reconciliation was cut short, a tool
call started between the statements of `session_end` or ended before its start,
a superseded replay that was still in a queue when it was deleted, a
subscriber added after the sweep of `Stop`, a budget that is exceeded when it is first
seen.
