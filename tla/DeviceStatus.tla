---------------------------- MODULE DeviceStatus -----------------------------
(***************************************************************************)
(* How the platform decides that a device is on line.  A message from the  *)
(* device sets or refreshes a key with a time to live in Redis; whoever    *)
(* sets it leaves a goroutine that waits for it to expire.  Both report    *)
(* status logs, which reach the database through a queue and an aggregator *)
(* in no particular order, while Deploy and Undeploy write the same row.   *)
(* One device, with its key, its row, and its cached detail.  A command of *)
(* Redis may fail; it is then taken not to have been carried out.          *)
(***************************************************************************)
EXTENDS Integers, FiniteSets

CONSTANTS
    Jobs,           \* the messages of the device, each handled by one job
    GatewayJobs,    \* those reported in a batch by the gateway
    Flushers,       \* workers of the status aggregator
    Timeout,        \* the device's on-line timeout in seconds
    Overloaded,     \* whether the aggregator's channel may be full
    UpdateFails,    \* whether an UPDATE of the row may fail
    RedisFails,     \* whether a command of the cache or of the queue may fail
    MaxAdmin,       \* bound: calls of Deploy and Undeploy
    MaxStarts       \* bound: starts of the process

ASSUME JobsAssumption == GatewayJobs \subseteq Jobs
ASSUME TimeoutAssumption == Timeout \in Nat \ {0}
ASSUME BoundsAssumption == MaxAdmin \in Nat /\ MaxStarts \in Nat
ASSUME FaultsAssumption ==
    Overloaded \in BOOLEAN /\ UpdateFails \in BOOLEAN /\ RedisFails \in BOOLEAN

VARIABLES
    key,       \* the status key in Redis: 0, or the start that set it
    row,       \* dev_device.status: 0 not enabled, 1 off line, 2 on line
    detail,    \* the cached device detail: "enabled" or "disabled"
    job,       \* job[j]: where the handling of message j is
    watcher,   \* watcher[j]: where the goroutine that j started is
    logs,      \* logs[s]: status logs on their way that report status s
    flush,     \* flush[f]: statuses flusher f has yet to write
    admin,     \* where the Deploy or Undeploy being executed is
    calls,
    starts,    \* which start of the process this is
    misread    \* history: whether a goroutine failed to read the present key

logging == <<logs, flush>>
admining == <<admin, calls>>
statusVars == <<key, row, detail, job, watcher, logging, admining, starts, misread>>

JobPCs     == {"new", "enabled", "refresh", "set", "spawn", "done"}
WatcherPCs == {"none", "online", "check", "sleep", "offline", "ended"}
AdminPCs   == {"idle", "deploy", "deploying", "undeploy", "undeploying"}

StatusTypeOK ==
    /\ key \in 0 .. starts
    /\ row \in 0 .. 2
    /\ detail \in {"enabled", "disabled"}
    /\ job \in [Jobs -> JobPCs]
    /\ watcher \in [Jobs -> WatcherPCs]
    /\ logs \in [1 .. 2 -> Nat]
    /\ flush \in [Flushers -> SUBSET (1 .. 2)]
    /\ admin \in AdminPCs
    /\ calls \in Nat /\ starts \in Nat \ {0}
    /\ misread \in BOOLEAN

StatusInit ==
    /\ key = 0 /\ row = 1 /\ detail = "enabled"
    /\ job = [j \in Jobs |-> "new"]
    /\ watcher = [j \in Jobs |-> "none"]
    /\ logs = [s \in 1 .. 2 |-> 0]
    /\ flush = [f \in Flushers |-> {}]
    /\ admin = "idle" /\ calls = 0 /\ starts = 1 /\ misread = FALSE

-----------------------------------------------------------------------------
(* time.Sleep(timeOutSecond * time.Second), where timeOutSecond is already *)
(* Timeout * time.Second: Timeout * 10^18 nanoseconds as a signed 64-bit   *)
(* integer, here in bytes, the least significant first.  A negative sleep  *)
(* returns at once; one whose last byte is positive lasts for years.       *)
Factor == <<0, 0, 100, 167, 179, 182, 224, 13>>      \* 10^18

Carry[k \in 0 .. 8] ==
    IF k = 0 THEN 0 ELSE (Timeout * Factor[k] + Carry[k - 1]) \div 256

LastByte == (Timeout * Factor[8] + Carry[7]) % 256

Wakes == LastByte = 0 \/ LastByte >= 128

-----------------------------------------------------------------------------
(* A message of the device: HandleMessage, or GatewayBatchReportProperty   *)
(* for a sub-device, up to and with UpdateStatus.                          *)
Handles(j, from, to) ==
    /\ job[j] = from
    /\ job' = [job EXCEPT ![j] = to]

(* A message whose device's detail cannot be read is ignored.  Only        *)
(* HandleMessage looks whether the device is enabled.                      *)
GetDetail(j) ==
    /\ \/ Handles(j, "new", IF j \in GatewayJobs \/ detail = "enabled"
                            THEN "enabled" ELSE "done")
       \/ RedisFails /\ Handles(j, "new", "done")
    /\ UNCHANGED <<key, row, detail, watcher, logging, admining, starts, misread>>

(* GetDeviceStatus: the status that is read may be off line also when the  *)
(* key is there, since an error is returned as off line.                   *)
GetDeviceStatus ==
    (IF key # 0 THEN {2} ELSE {1}) \cup (IF RedisFails THEN {1} ELSE {})

GetStatus(j) ==
    /\ \E ds \in GetDeviceStatus :
         Handles(j, "enabled", IF ds = 2 THEN "refresh" ELSE "set")
    /\ UNCHANGED <<key, row, detail, watcher, logging, admining, starts, misread>>

(* As a bug: the key is written again, not only its time to live. *)
UpdateExpireRevives(j) ==
    /\ Handles(j, "refresh", "done")
    /\ key' = starts
    /\ UNCHANGED <<row, detail, watcher, logging, admining, starts, misread>>

(* Nothing happens to a key that has expired meanwhile, or in an error. *)
UpdateExpire(j) ==
    /\ Handles(j, "refresh", "done")
    /\ UNCHANGED <<key, row, detail, watcher, logging, admining, starts, misread>>

(* The goroutine is started also when the key could not be set. *)
SetKey(j) ==
    /\ Handles(j, "set", "spawn")
    /\ \/ key' = starts /\ misread' = FALSE
       \/ RedisFails /\ UNCHANGED <<key, misread>>
    /\ UNCHANGED <<row, detail, watcher, logging, admining, starts>>

Spawn(j) ==
    /\ Handles(j, "spawn", "done")
    /\ watcher' = [watcher EXCEPT ![j] = "online"]
    /\ UNCHANGED <<key, row, detail, logging, admining, starts, misread>>

UpdateStatus(j) == GetStatus(j) \/ UpdateExpire(j) \/ SetKey(j) \/ Spawn(j)

-----------------------------------------------------------------------------
(* The goroutine of UpdateStatus. *)
Turn(j, from, to) ==
    /\ watcher[j] = from
    /\ watcher' = [watcher EXCEPT ![j] = to]
    /\ UNCHANGED <<key, row, detail, job, flush, admining, starts>>

(* A log that cannot be queued is given up. *)
pushDeviceStatus(s) ==
    /\ logs' = [logs EXCEPT ![s] = @ + 1] \/ (RedisFails /\ UNCHANGED logs)
    /\ UNCHANGED misread

online(j)  == Turn(j, "online", "check") /\ pushDeviceStatus(2)

(* As a bug: the comparison with the off-line status is inverted. *)
CheckInverted(j) ==
    /\ \E ds \in GetDeviceStatus :
         /\ Turn(j, "check", IF ds = 2 THEN "offline" ELSE "sleep")
         /\ misread' = (misread \/ (key # 0 /\ ds = 1))
    /\ UNCHANGED logs

Check(j) ==
    /\ \E ds \in GetDeviceStatus :
         /\ Turn(j, "check", IF ds = 1 THEN "offline" ELSE "sleep")
         /\ misread' = (misread \/ (key # 0 /\ ds = 1))
    /\ UNCHANGED logs

WakeUp(j)  == Wakes /\ Turn(j, "sleep", "check") /\ UNCHANGED <<logs, misread>>

offline(j) == Turn(j, "offline", "ended") /\ pushDeviceStatus(1)

Watch(j) == online(j) \/ Check(j) \/ WakeUp(j) \/ offline(j)

(* Redis lets the key expire. *)
StatusExpires ==
    /\ key # 0
    /\ key' = 0 /\ misread' = FALSE
    /\ UNCHANGED <<row, detail, job, watcher, logging, admining, starts>>

-----------------------------------------------------------------------------
(* As a bug: a log is dropped once more after it was enqueued. *)
DropUnknown(s) ==
    /\ Overloaded
    /\ logs' = [logs EXCEPT ![s] = @ - 1]
    /\ UNCHANGED <<key, row, detail, job, watcher, flush, admining, starts, misread>>

(* The way of a status log: asynq runs ten handlers at a time, each offers *)
(* its log to an aggregator with many workers, or drops it when the        *)
(* aggregator stays full.  So any of the logs may be the next.             *)
Drop(s) ==
    /\ Overloaded
    /\ logs[s] > 0
    /\ logs' = [logs EXCEPT ![s] = @ - 1]
    /\ UNCHANGED <<key, row, detail, job, watcher, flush, admining, starts, misread>>

TakeBatch(f) ==
    /\ flush[f] = {}
    /\ \E S \in (SUBSET (1 .. 2)) \ {{}} :
         /\ \A s \in S : logs[s] > 0
         /\ flush' = [flush EXCEPT ![f] = S]
         /\ logs' = [s \in 1 .. 2 |-> IF s \in S THEN logs[s] - 1 ELSE logs[s]]
    /\ UNCHANGED <<key, row, detail, job, watcher, admining, starts, misread>>

RowLocked == admin \in {"deploying", "undeploying"}

(* BatchUpdateDeviceStatusInfo: on-line rows first, then off-line rows.  A *)
(* log of a device whose detail cannot be read is passed over.             *)
Written(s) == {s} \cup (IF UpdateFails \/ (s = 2 /\ RedisFails) THEN {row} ELSE {})

WriteStatus(f, s) ==
    /\ s \in flush[f]
    /\ s = 1 => 2 \notin flush[f]
    /\ ~RowLocked
    /\ row' \in Written(s)
    /\ flush' = [flush EXCEPT ![f] = @ \ {s}]
    /\ UNCHANGED <<key, detail, job, watcher, logs, admining, starts, misread>>

BatchUpdateDeviceStatusInfo(f) == \E s \in 1 .. 2 : WriteStatus(f, s)

-----------------------------------------------------------------------------
(* Deploy and Undeploy: read the device; then, in a transaction, update    *)
(* the row (and hold its lock), set the cache, and commit; the last two    *)
(* are one step here.                                                      *)
Administer(from, to) ==
    /\ admin = from
    /\ admin' = to
    /\ UNCHANGED <<key, job, watcher, logging, starts, misread>>

Return(from) == Administer(from, "idle") /\ UNCHANGED calls

Ask(operation) ==
    /\ Administer("idle", operation)
    /\ calls < MaxAdmin
    /\ calls' = calls + 1
    /\ UNCHANGED <<row, detail>>

(* The status that Detail returns is 0 exactly when the row's is. *)
DeployFinds ==
    \/ row > 0 /\ Return("deploy") /\ UNCHANGED <<row, detail>>
    \/ row = 0 /\ Administer("deploy", "deploying")
       /\ UNCHANGED <<row, detail, calls>>

(* The error of the UPDATE is overwritten by that of the cache, which also *)
(* decides whether the transaction is committed.                           *)
DeployDone ==
    /\ Return("deploying")
    /\ \/ detail' = "enabled" /\ (row' = 1 \/ (UpdateFails /\ row' = row))
       \/ RedisFails /\ UNCHANGED <<row, detail>>

(* The product is missing or not published, a table cannot be created. *)
DeployRefused ==
    /\ row = 0 /\ Administer("deploy", "idle")
    /\ UNCHANGED <<row, detail, calls>>

Deploy == Ask("deploy") \/ DeployFinds \/ DeployRefused \/ DeployDone

UndeployFinds ==
    \/ row = 0 /\ Return("undeploy") /\ UNCHANGED <<row, detail>>
    \/ row > 0 /\ Administer("undeploy", "undeploying")
       /\ UNCHANGED <<row, detail, calls>>

UndeployDone ==
    /\ Return("undeploying")
    /\ detail' = "disabled"
    /\ row' = 0

(* An UPDATE of Undeploy that fails rolls its transaction back, and so     *)
(* does the cache.                                                         *)
UndeployFails ==
    /\ UpdateFails \/ RedisFails
    /\ Administer("undeploying", "idle")
    /\ UNCHANGED <<row, detail, calls>>

Undeploy == Ask("undeploy") \/ UndeployFinds \/ UndeployFails \/ UndeployDone

-----------------------------------------------------------------------------
(* The process restarts: goroutines and batches are gone, the key, the row *)
(* and the logs still queued in Redis remain, the cache is filled again,   *)
(* unless it fails.                                                        *)
StartAnew ==
    /\ starts < MaxStarts
    /\ starts' = starts + 1
    /\ job' = [j \in Jobs |-> IF job[j] = "new" THEN "new" ELSE "done"]
    /\ watcher' = [j \in Jobs |-> IF watcher[j] = "none" THEN "none" ELSE "ended"]
    /\ flush' = [f \in Flushers |-> {}]
    /\ admin' = "idle"
    /\ \/ detail' = IF row = 0 THEN "disabled" ELSE "enabled"
       \/ RedisFails /\ UNCHANGED detail
    /\ UNCHANGED <<key, row, logs, calls, misread>>

StatusNext ==
    \/ \E j \in Jobs : GetDetail(j) \/ UpdateStatus(j) \/ Watch(j)
    \/ \E f \in Flushers : TakeBatch(f) \/ BatchUpdateDeviceStatusInfo(f)
    \/ \E s \in 1 .. 2 : Drop(s)
    \/ StatusExpires \/ Deploy \/ Undeploy \/ StartAnew

StatusSpec == StatusInit /\ [][StatusNext]_statusVars

(* The goroutines that wait are scheduled, and a key that is not refreshed *)
(* expires.  Nothing else need happen, and nothing is assumed of what      *)
(* fails.                                                                  *)
StatusFairness ==
    /\ \A j \in Jobs : WF_statusVars(Watch(j))
    /\ WF_statusVars(StatusExpires)

-----------------------------------------------------------------------------
Watching(j) == watcher[j] \in {"online", "check", "sleep"}

(* As long as the key says that the device is on line, and was set since   *)
(* the process started, a goroutine is there that has not yet given it up, *)
(* or a job is about to start one, so that its expiry cannot go unnoticed; *)
(* unless a goroutine gave the key up because it could not read it.  What  *)
(* else fails, and how often jobs meet, makes no difference.               *)
PresentIsWatched ==
    key = starts /\ ~misread => \E j \in Jobs : job[j] = "spawn" \/ Watching(j)

(* Every goroutine that announced the device on line announces it off line *)
(* in the end, when the device has fallen silent, and is gone.             *)
WatchersEnd == []<>(\A j \in Jobs : watcher[j] \in {"none", "ended"})

(* A device that was disabled stays disabled until it is deployed.         *)
OnlyDeployEnables ==
    [][row = 0 /\ row' # 0 => admin = "deploying"]_statusVars
=============================================================================
