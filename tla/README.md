# TLA+ models of the SagooIOT back end

The repository is the back end of an IoT platform (Go, GoFrame). Devices talk to
it over MQTT or over TCP and UDP connections; it keeps products, devices and
their thing models in MySQL, live state in Redis, measured values in TDengine;
it makes calls to devices, evaluates alarm rules and runs scheduled jobs. Paths
below are relative to `src/`.

## 1. Inventory

| Part | State | Operations | Interacts with |
|---|---|---|---|
| Router `network/core/router.go` | the pool `gPool` | `HandleMessage` for every subscribed topic | pool, pending calls, device cache, handlers under `logic/model` |
| Downlink calls `network/core/logic/baseLogic/asyncMap.go`, `logic/model/down` | `AsyncMapInfo`: message id to response channel | `ServiceCall`, `PropertySet`, `SyncRequest`, `GetCallInfoById` | publishes over MQTT; answered by the router and by the handlers of `*_reply` topics |
| Goroutine pool `pkg/gpool` | semaphore, two counters, error channel | `Acquire`, `Release`, `Go`, `Wait`, `Shutdown`, `ErrChan` | the router |
| Aggregator `pkg/channelx` | bounded channel, a batch per worker, quit channel, wait group | `TryEnqueue`, `Enqueue`, `EnqueueWithRetry`, `Stop`, `SafeStop` | the queue handlers of `internal/queues` |
| Device status `pkg/dcache/device_status.go`, `internal/logic/product/dev_device_{status,deploy}.go`, `internal/queues/deviceInfoUpdate.go` | a key in Redis, the cached detail, the row, status logs in a queue, goroutines that sleep | `UpdateStatus`, `BatchUpdateDeviceStatusInfo`, `Deploy`, `Undeploy` | router, queue, aggregator |
| Periodic jobs `pkg/worker`, `internal/logic/system/sys_job.go`, `pkg/utility/nx` | a Redis hash, asynq tasks, a lock, the table `sys_job` | `Cron`, `Once`, `Remove`, `scan`, `processed`, `clearArchived`, `JobStart`, `JobStop`, `JobRun` | asynq, Redis |
| Servers `network/core/server` (TCP only: `NewServer` gives nil for the other types) | map of servers, map of connections, a record per tunnel in Redis | start, open, accept, register, receive, remove, close | tunnels, devices |
| Client tunnels and devices `network/core/tunnel`, `network/core/device` | link, flags, retry timer, pipe | open, retry, close, `Ask`, `Pipe` | servers, router's handlers |
| Device data cache `pkg/dcache/{redisManager,device_data}.go` | a list of records per device in Redis, with an expiry | `InertTdLog`, `InsertData`, reads by page | a goroutine per message of the router; HTTP handlers |
| Alarm rules `internal/logic/alarm`, `pkg/dcache/device_alarm.go` | rules in MySQL, a list per product in Redis, scheduled checks in memory | `Add`, `Edit`, `Deploy`, `Undeploy`, `Del`, `CacheAllAlarmRule`, `Check` | HTTP handlers; router, jobs, notices |
| Products, devices, gateways `internal/logic/product` | rows, cached details, TDengine tables | add, deploy, undeploy, delete, bind | cache, TDengine |
| Tokens `pkg/gftoken` | a token per user key in the cache | log in, refresh, log out | middleware |
| Time series, system administration, events, plugins, statistics | see PROJECT.json | | |

What is hard here, and hardly reached by tests:

- goroutines of the router, timers and HTTP handlers meet in one map of pending
  calls, partly without its lock;
- bounded resources that block (10000 tokens, an error channel, a response
  channel of one slot, a batch channel) and what frees them;
- state that is read, and acted on after something else has changed it (status
  logs in a queue, entries of the job hash that are written back, the status key);
- restarts: Redis and asynq keep what the process has forgotten;
- one step of several failing (cache and row, entry and task).

For each part, what makes it correct:

- calls: a result is final, an answer belongs to its call, every call returns, the
  map and the channels do not leak and are not used after they are closed;
- pool: never more than the capacity, the counters add up, every job gets through;
- aggregator: an accepted item is handed over exactly once, an offer returns;
- device status: a device that falls silent is noticed, a disabled one stays so;
- periodic jobs: no period is skipped, a started job goes on, a stopped one stops;
- servers: the table of connections is that of the live ones;
- device records: the list is bounded, ordered, and gone when the device is silent;
- alarm rules: the cache agrees with the table, an enabled rule is checked.

## 2. Plan

| # | Modules | Status |
|---|---|---|
| 1 | `RpcCall` (abstract), `DownlinkCall`, proofs | done |
| 2 | `GPool`, proofs | done |
| 3 | `BatchBuffer` (abstract), `Aggregator`, proofs | done |
| 4 | `DeviceStatus`, proofs | done |
| 5 | `PeriodWorker`, proofs | done |
| 6 | `TcpServer`, proofs | done |
| 7 | `AlarmRules`, proofs | done |
| 8 | `DeviceData`, proofs | done |

Considered and left: the data of a TCP connection after its registration (the
buffer that `ReadData` shares with the next read; a data race whose outcomes
are whole messages mixed up, so that only its absence could be stated); the
composition of `GPool` with the reply path of `DownlinkCall` (each is checked with
the other's worst case: jobs that take any time, jobs in any order); client
tunnels, products and tokens (section 6).

The runs are kept few: a component passes in one, which it may share with
components that it shares no state with, and a refuted claim has one of its own.

## 3. Modules and the code

Each component has a module named for it and `...Proofs` with the theorems; the
modules `MC...` have the instances for TLC (`MCPools` for pool and aggregator,
`MCRedisCaches` for `AlarmRules`, `DeviceData` and `DeviceStatus`). PROJECT.json
maps every definition to its lines. A definition whose comment begins with "As a
bug" is a mistake somebody could make at that place; nothing uses it but the check
that the properties notice it. An action is as fine as the code's shared accesses
are: a map access, a channel operation, a Redis command, an SQL statement, a lock.

### DownlinkCall

Each call is a goroutine (`caller[c]`): it publishes (`ServiceCall` or
`PropertySet`), then `SyncRequest` takes the lock, registers a channel of one slot,
unlocks and waits in a select for answer, timer or context; it deletes the
entry under the lock and closes the channel afterwards. A message id stands for
its call (`guid.S()` does not repeat). Each job of the pool handles one reply:
`Peek` is the look-up in the router without the lock, `Push` its send, `Detail` the
device check, `Lookup` is `GetCallInfoById` under the read lock and `PushOutputs` the
send of the handler; property replies are sent by the handler alone. The device
answers a request of call `c` up to `MaxReplies[c]` times, answers may be lost,
and are handled in any order. A send on a closed channel, as a fatal access to
the map, takes the process down; `Restart` loses the callers and the map.

`RpcCall` is what a caller relies on: a call is idle, pending, and then answered
(only if the device replied to it) or failed, for good.

### GPool

A job goes through the steps of `Acquire` (token, counter, wait group), runs, may
fail and then sends its error, and goes through those of `Release`. Cancel and
`Wait` may come in at any time; the select of `Acquire` takes either arm when both
are ready; `Wait` may end by its timer at any count, so nothing depends on it. A
send on the closed `errChan` takes the process down. `Drained` says whether
anybody reads `ErrChan`.

### Aggregator

`offer[i]` is where the goroutine that offers item `i` is, `TryEnqueue` with its
retries or the blocking `Enqueue`; a worker takes items into its batch, hands it
over when it is full, when the timer fires or when it quits. The wait group is
modelled as written: `processBatch` defers `Done` and then `Add`, in the reverse
order of their execution, and `Stop` waits for it: in the gap between the two a
worker is not counted, so that the wait may end before its worker has left, or
panic when the worker counts itself again as it ends. `BatchBuffer` is the promise:
offered, then refused or accepted, then handed over once. What `SafeStop` promises
in addition is `StopIsSafe`, which the code does not keep (disagreement 6); `StopEnds`
is what is left of it.

### DeviceStatus

One device. `job[j]` is the handling of one message: the cached detail, the key,
then either a refresh of its expiry or setting the key and starting a goroutine
(`watcher[j]`), which announces the device on line, looks at the key between
sleeps, and announces it off line when the key is gone. The announcements are
status logs in a queue; `Drop` is a log refused by the aggregator, and a flusher
takes a batch and updates the row status by status, on line first. `Deploy` and
`Undeploy` change row and cache. `starts` numbers the process's starts, so that `key`
says which of them set it. The sleep is computed as in the code: the product of
two durations as a signed 64-bit integer, byte by byte.

With `RedisFails` any command of the cache or of the queue may fail by itself, as
each of them does its own way: a detail that cannot be read ends the handling;
`GetDeviceStatus` takes an error for off line, so that `GetStatus` sets a key that is
there and `Check` gives up one that is; a key that could not be set is watched all
the same; a log that could not be queued is gone; a `Deploy` or `Undeploy` is rolled
back. `misread` is history: a goroutine has failed to read the key that is present.
The two times kept with the status are left out.

### PeriodWorker

One job. `entry` is its entry in the hash (expression and next time), `task` the
asynq task of its id. `scan` reads the entry, enqueues a task for its next time,
and writes the entry back with the time after it; `ProcessTask` runs the job and
`processed` reads the entry and writes it back; `clearArchived` lists, looks at the
entry and deletes; the administrator's operations go through `Cron`, `Remove` and
the update of `sys_job.status` in their own steps. Time is counted in periods of
the job. A job that is started with another policy than "cron" is a `JobRun`.

The lock of `pkg/utility/nx` is not a variable: `tryLock` returns true whatever
SETNX answers, so it excludes nobody.

A command that fails is a `Fault`, as a restart is, and takes the path the code
has for it: `ScanFails`, `ClearFails`, `JobRunFails`, `AdminFails`, and in
`processed` `CountUnread`. That one takes any error of HGET but `redis.Nil` for an
entry, and writes back the empty one that it has (`Blank`), over the job's: it has
no expression and no id, asynq refuses its task, and the job is never run again.
`Uncounted` needs no fault: the context of a task that timed out is done, so that
`processed` ends at the lock or at HSET. `Cron` swallows its own errors:
`errors.Unwrap` of `ErrSaveCron` and of `ErrExprInvalid`, which wrap nothing, is
nil, so that `JobStart` sets the job's status to started although nothing was
saved (`AdminFails` has the former; an expression of the model is valid). The run
count, `EditJob` (which may change the job's id) and `DeleteJobByIds` are left
out.

### TcpServer

One configured server. Each start makes an instance (`NewServerTCP`) of its own:
`StartServer` stores it in `allServers`, over whatever is there, `Open` makes its
listener or fails because another has the port; `RemoveServer` takes it out, and
`Close` closes the tunnels of its table and then the listener. What the handlers of
`network_server.go` do (add, edit, enable, disable, delete) is some order of these.
`acc[i]` is the accept loop, with the connection it holds; `recv[c]` is the receiver
of a connection: `TunnelOnlineAction`, reading, `TunnelOfflineAction`, `RemoveTunnel`.
Whether the database gives a device is open at each look-up. `turn` is history: it
numbers the registrations, so that "newest" can be said. Clients connect, send a
packet that names a device or that `Check` refuses, and hang up, or never do.

`Crash` is the end of the process with everything it holds; the next start is that
of the restarted one. Two things cause it: a receiver whose device is known ends
(`GetDevice` is always nil, and `Stop` of nil panics outside any recover), and an
unlocked access to the table that meets a write (`MapRace`).

### AlarmRules

The rules a report triggers. `status[r]` and `productOf[r]` are the row of rule
`r`, `cached[p]` the list under the key of product `p` in Redis. A request
`req[q]` is an HTTP handler: `Add` inserts the row; the others `Read` it first,
where a row that is gone or has the wrong status ends them, and update it in a
statement of its own (`UpdateEdit`, `UpdateDeploy`, `UpdateUndeploy`, `UpdateDel`;
only `Del` names the status in its WHERE). Then `cacheProductAlarmRuleChange`
lists the rules of the product that was read (`List`; when there are none it sets
nothing) and sets the list (`Set`). An error ends a request anywhere (`Fail`), and
what it has written stays. `Restart` is a new process, whose `CacheAllAlarmRule`
sets the lists of products with enabled rules, of enabled rules alone, some of
which may fail. `Checked` is the loop of `getAlarmRuleList`, which stops at the
first disabled rule.

`alone` and `dirty` are history. A request is alone while nobody else works on its
products; a product is dirty since a refresh of it was overtaken, failed or was not
made at all, until one is made alone, or at a restart. What a rule says, its
trigger type and its actions are left out.

### DeviceData

The records of one device, the newest at the head. `writer[w]` is a goroutine of
`InertTdLog`: `Stamp` takes the time, `Push`, `Trim` and `Expire` are the three Redis
commands of `InsertData`, each of which may fail; only the first failure ends the
insertion. `KeyExpires` is Redis dropping the key, `Crash` the end of the process
between any two commands. A reader takes the length and then the range of its page,
where a range that ends at -1 ends at the last record. `with`, `missedTrims` and
`missedExpire` are history: the records that were on their way when a record got
its time, and the trims and expiries that were lost.

A command that fails is taken not to have been carried out. go-redis may by itself
send a command again whose answer was lost; a record can then be twice in the
list, which is outside this model.

## 4. Runs

| Run | Instance | Shows |
|---|---|---|
| `DownlinkCall` | a service call with 2 replies and a property set with 1, 2 jobs | types, open channels behind entries, entries with waiters, own answers, refinement of `RpcCall`; every call returns, no sender stays blocked |
| `DownlinkPanic` | 1 job | refuted: nobody sends on a closed channel |
| `Pools` | `GPool`: 3 jobs, 2 tokens, errors read; `Aggregator`: 3 items (one offered with `Enqueue`), 2 workers, batches of 2, a channel of 2 slots, 2 retries | bound, counters, every job gets through; conservation, refinement of `BatchBuffer`, offers return, items are handed over, a stop ends with empty batches |
| `GPoolUnreadErrors` | 1 token, errors not read | refuted: every job gets through |
| `AggregatorStop` | the aggregator of `Pools` | refuted: when a stop returns, all workers have left or all items are handed over |
| `StatusSleeps` | 1 message, a time-out of 60 s | refuted: watchers end |
| `StatusReenabled` | 1 message | refuted: only a deploy enables a disabled device |
| `PeriodWorker` | 3 periods, 2 expressions, 1 handler, 1 retry, 1 operation, 1 fault (a restart or a failing command); the job registered at first | no period skipped, the job goes on unless it is blanked |
| `PeriodStarted` | 1 handler, 1 operation | refuted: a started job is registered |
| `TcpServer` | 2 connections, 2 devices, 2 starts | table and receivers, newest listed, what is not listed, unreachable listeners, ended connections go, what stalls the accept loop |
| `RedisCaches` | `AlarmRules`: 2 rules (one stays with its product, one moves), 2 products, 2 requests, 1 restart; `DeviceData`: 2 goroutines, 3 messages, limit and page of 1, 2 pages; `DeviceStatus`: 2 messages, one of them through a gateway, 2 flushers, 2 administrative operations, 1 restart, a time-out of 30 s, any failures | cache and table agree, a refresh made alone is current, the life of a rule; length, expiry, order and pages of the records, a silent device's list goes; watched keys, watchers end |
| `AlarmSilenced` | its rules, without a restart | refuted: an enabled rule is checked |

Bounds. Two calls and two jobs are the least with which an answer can go astray
and a send can meet a close; two replies to a call fill its channel and leave one
to block on it. Two tokens and three jobs make `Acquire` block while others run
and release. Two workers, three items and batches of two make a full and a partial
batch exist at once; `NewAggregator` gives a channel at least as many slots as
there are workers, and the third item finds both taken and retries. Two messages
of a device are the least for a check-then-act race on the key, and the one of the
gateway brings the path without status check. Three periods let the task of one
period, retained or failed for good, stand in the way of the next, and one fault
is what blanks an entry or ends a process; one handler is enough for that, as a
job that timed out keeps running in it while its task is retried or cleared (that
no period is skipped is proved for any number of handlers). Two connections are
the least with which a device reconnects, or a second device waits behind the
first, and two starts those with which one instance is stored over another (the
table is proved for any number of either). Two rules of one product are the least
with which one is listed behind another, two requests the least with which a
refresh is overtaken, and a rule that moves needs a second product. Two goroutines
that record three messages overtake each other, make a list longer than its limit
of one, and meet the expiry of the key between their commands; a page of one
record shows whether a page is too long. The components of `MCRedisCaches`, and
those of `MCPools`, share no state, and are explored each with the others at rest
(`part`). All their safety properties are proved without bounds. Deadlock is not
checked: every system here may come to rest (all calls made, all jobs done, or the
process down).

Fairness is what the Go scheduler, timers and Redis give: each goroutine goes on
(weakly fair per goroutine), a timer fires, a key that is not refreshed expires
(`DeviceData`: each goroutine goes on, and a key that has an expiry goes;
`DeviceStatus`: the goroutines that wait go on, and the key expires, which says
nothing of commands that fail), a scanner runs at its interval. The pool assumes
strong fairness of a job, because Go's channels queue their waiters: a sender that
is again and again served after others is served in the end. Nothing is assumed of
devices, links, TCP clients, the operator, nor of the choice of a select between
ready arms.

### Disagreements found

1. A late reply can panic the process: the router sends on the channel that the
   caller closes (`router.go:90`, `asyncMap.go:42`).
2. Unread errors stop the pool: after as many failed jobs as `errChan` has slots,
   every further one keeps its token (`gpool.go:52`, `router.go:53`).
3. A queued status log enables a disabled device (`dev_device_status.go:88`).
4. Running a started job once deletes its entry (`worker.go:229`, `:294`).
5. An enabled alarm rule is not checked while a newer rule of its product is
   disabled: the loop over the rules returns there (`alarm_rule_check.go:174`).
   A rule is disabled when it is added, so that adding one silences the others.
6. A stop of the aggregator is not safe (`aggregator.go:129`, `:132`): `Done`
   comes before `Add` in `processBatch` (`:168`), so that the wait may end, or
   panic, while a worker is at work, and items in the channel when the workers
   leave are lost. Only its test calls `SafeStop`; the queue handlers never stop
   their aggregators.
7. `timeOutSecond * time.Second` multiplies two durations and overflows
   (`device_status.go:64`). At a time-out of 60 s the goroutine sleeps for 147 years,
   and the device is never announced off line; at 30 s, that of `RedisCaches` and the
   code's default, the product is negative, `Sleep` returns at once and the
   goroutine looks at Redis without a pause. `Wakes` of `DeviceStatus` computes both;
   that it is right for every time-out is `WakesInTime`, and that nobody who sleeps
   at 60 s looks again before the next start is `SixtySleepsOn` (section 5).

Reachable in the models as well, without a run of their own: an entry that
`processed` failed to read is overwritten with a blank one, and the job never runs
again (`worker.go:307`); a goroutine that failed to read the key announces off
line a device whose key is there, and does not wait for it any more
(`dcache.go:18`); a scan that has read an entry before `JobStop` writes it back
afterwards; `scan`, `processed` and `Remove` hold the lock at once; two goroutines
wait for one device when two first messages race; two flushers write off line
before on line; a key that survives a restart has no goroutine; `Deploy` of a
device that a status log has enabled finds nothing to do and leaves the cache
disabled; the answer to a request comes before its call is registered and is
refused; every end of a known device's TCP connection takes the process down; the
receiver of an old connection removes the entry of the new one; a connection that
its instance does not list survives `Close`; a server that is enabled twice leaves
its first listener open for good; two changes of one product set their lists in
the wrong order, so that for instance a rule disabled and deleted at the same time
stays enabled in the cache; a rule that was moved keeps firing for its old
product, and does not for the new one, until each is refreshed; the deleted last
rule of a product stays in its list; after a restart lists have no disabled rules,
so that rules silenced before come alive; each record renews the expiry of the
whole list, where `manifest/docker-compose/iot-open/config/config.yaml:13` says
that data older than that is removed; a page of an empty list shows whatever was
recorded since. Seen while reading, and in no model: `GetDataByLatest` takes the
element at -1, which is the oldest record, where its comment says the newest
(`redisManager.go:156`).

## 5. Proofs

The theorems hold for every value of the constants that satisfies the named
ASSUMEs (kinds of calls, numbers that are naturals, `Capacity > 0`, a time-out of
at least a second, and that sets to be counted are finite). They use no fairness.
Every invariant and every action property without fairness that a run checks is
stated by one. Others are about what no run asks, most of them questions of
extent: where a hazard is real, what is the least that brings it about, and how
far does it go? Each of these formulas, and the inductive invariant behind it,
was model-checked on small instances first.

- `DownlinkCallProofs`. `IInv` ties data to program counters: `CallerOwnsEntry` says
  that the write lock is held by exactly the caller that is registering or
  deleting, and that a caller from registering to closing has an open channel;
  `AnswersTraced` follows an answer from the device through job and buffer to its
  caller. None of the invariants is inductive alone: that an entry's channel is
  open follows only from where its caller is. With it, each step of the calls is
  one of `RpcCall` or a stutter, and from that a result that was returned stays
  (`ResultsStay`). `ChannelsOfCallers` says the converse, that a channel is open only
  while its caller is between registering and closing: so no sender is left with
  a channel that nobody will receive from or close (`SendersEndWithCallers`). How
  far disagreement 1 goes is `OneReplyInTimeIsSafe`: the router dies of a service
  call, a second reply or a late one, and of nothing else. Its invariant
  `LoneReplies` says that the one reply to a property set is in one place at a
  time, on the link, with a job, in the slot or with the caller; so it never blocks
  either (`LoneAnswersFit`).
- `GPoolProofs`. The three counters equal the cardinalities of the sets of jobs
  at the matching steps; a step moves one job in or out of each, by the theorems
  on finite sets. The bound is a corollary, and so is that a pool at rest has given
  everything back (`NothingLeaks`). Its panic needs `Shutdown` (`PanicIsLateReport`).
- `AggregatorProofs`. `Conserved` is inductive together with the types, with where a
  worker may hold which batch (`BatchAtPC`: never a full one in its select, none
  after it was handed over), and with the attempts an offer has left (`TriesLeft`).
  The proof goes operation by operation over the places an item can be. Refinement
  of `BatchBuffer` follows. `WaitGroupIsSound` counts the workers outside the gap
  between `Done` and `Add`, in which the code calls them in that order: the counter
  never goes below zero. Nothing in the channel or in a batch survives the process;
  `CrashLossBounded` says how many items that is at most, by giving each of them a
  place (`Pigeons`: no more items than places), and `StopLosesTheChannel` that after
  an orderly stop those in the channel are lost and no others.
- `AlarmRulesProofs`. `EnabledAgree` needs to know what a request that is alone may
  rely on (`AloneOK`): nobody else touches its product (`Apart`), its rule is still
  where it was read (`Sound`), what it has listed is current (`Current`, which is
  `RefreshIsCurrent`), and when it is going to list nothing then nothing is enabled
  in the cache (`NothingLeft`). `RowsKept` and its like say what a step on one product
  leaves of another, and the proof goes action by action over the requests that
  stay alone, the one that moves, and the products.
- `DeviceDataProofs`. The order of the list needs that of the records on their way
  (`HeldFresh`, `HeldDistinct`: each has a number of its own, and was there when
  any newer one got its time). With one goroutine nothing is recorded meanwhile
  (`NoOverlap`), and the list stays newest first (`SerialRecordsAreOrdered`).
  `Bounded` follows one goroutine into and out of the set of those about to trim;
  `PageFits` needs the shape of a range alone.
- `DeviceStatusProofs`. `PresentIsWatched` is inductive with the types: a job that
  sets the key is about to start its goroutine, and a goroutine gives up only
  after it has seen the key gone, or failed to read it, which `misread` remembers
  until the key expires or is set again. The theorem exempts nothing else:
  whatever other commands fail, a key of this start is watched. `WakesInTime` ties
  the byte-wise product of the model, which TLC's 32-bit integers require, to the
  64-bit one of the code: the carries of the bytes (`Carries`, `CarryEquation`)
  add up to the product, and the rest of its division by 2^64 has the last byte on
  top. `SilenceLasts` bounds disagreement 3: once nothing of a disabled device is
  under way, only `Deploy` changes that, if no gateway reports for it.
- `PeriodWorkerProofs`. `NothingSkipped` needs that every copy of the entry in
  flight (the scanner's, each handler's) is covered as well (`CopiesCovered`), and
  that a registration never counts from an earlier period than the one before it
  (`StartsAhead`): that is what lets a copy read before it be written back after it.
  `ActiveTasksAreAttended` and `TasksStayUnattended` are about the queue: an active
  task has its handler, and a waiting one is not lost while the administrator does
  nothing. The latter needs that `clearArchived`, which looks first and deletes
  later, finds the task still archived when it deletes (`Unattended`); with
  operations TLC finds it deleting a task enqueued in between. `BlankNeedsFault` says
  that the entry that stops a job for good comes of a fault alone: no copy that is
  written back late makes it.
- `TcpServerProofs`. The listing invariants need that a connection is in one place
  (`InOnePlace`: in the backlog, in the hands of one loop, or with a receiver),
  that whatever gets to the table named its device (`Identified`), and that a loop
  runs only after its listener was opened (`IdleUntilOpen`).
  `UnreachableWasReplaced` follows from the order in which instances are made
  (`InOrder`). The same invariant gives two facts about steps: an entry gives way
  to later registrations only (`TableMovesForward`), and a connection is
  registered once, though the instances share one backlog (`OneRegistration`).

Only model-checked: liveness, since fairness and ENABLED are beyond the prover.
That is `CallEnds` and `SenderIsFreed` of the calls, `PoolServes` of the pool,
`OffersReturn`, `AcceptedIsHanded` and `StopEnds` of the aggregator, `WatchersEnd`
of the device status, `KeepsRunning` of the jobs, `EndedConnectionIsUnlisted` and
`OnlySilenceStalls` of the TCP server, and `Cleared` of the records. The refuted
properties are refuted by traces.

## 6. Not modelled

Time series storage, HTTP handlers, system administration, products and tokens:
rows, SQL text and cached values that each request reads or writes whole,
without a protocol of their own. Generated code (`dao`, `entity`, `service`) and the
web client: `manifest/docker-compose/nginx/html/iot-ui` is its minified build, whose
source is not in the repository, and says nothing that could be stated about it.

Client tunnels: `tunnel-manager.go` never stores into `allTunnels`, so that
`GetTunnel` and `RemoveTunnel` find nothing and nobody calls `Close` of a client
tunnel. One that is disabled or deleted goes on retrying for as long as the
process lives, and one that is enabled twice opens a second connection. A
protocol of closing and retrying exists in `tunnel-client.go` but is never entered.

Alarm rules with a schedule (`alarm_rule_cron.go`): their entries are in memory
alone and are not made again after a restart.

Inside the modelled components: message contents, protocol plugins and scripts,
logging, the tunnel path of a service call (its answers carry no message id, so
that such a call ends by its timer), the registration times of devices, errors of
Redis in `DownlinkCall` and `TcpServer`.
