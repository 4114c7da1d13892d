---------------------------- MODULE PeriodWorker -----------------------------
(***************************************************************************)
(* pkg/worker: periodic jobs on top of asynq.  A Redis hash keeps an entry *)
(* per job with its cron expression and its next time; a scanner enqueues  *)
(* an asynq task for that time and moves the entry on; when the task has   *)
(* run, its handler writes the entry back with one more run counted; and   *)
(* the administrator starts, stops and runs jobs.  One job (one uid): its  *)
(* entry, the asynq task of that id, and its status in sys_job.            *)
(*                                                                         *)
(* All of them take the lock of pkg/utility/nx around what they do to the  *)
(* hash.  Its tryLock ignores whether SETNX has set the key, so taking the *)
(* lock neither waits nor fails, and the key decides nothing: it is not a  *)
(* variable here.  A command of Redis or of the database may fail; it is   *)
(* then taken not to have been carried out.                                *)
(***************************************************************************)
EXTENDS Naturals, FiniteSets

CONSTANTS
    Exprs,         \* cron expressions; each of them fires once a period
    Retained,      \* those with more than ten seconds between two periods
    Handlers,      \* bound: asynq handler goroutines at work on the job
    None,
    MaxTime,       \* bound: periods
    MaxRetry,
    MaxAdmin,      \* bound: operations of the administrator
    MaxFaults      \* bound: commands that fail, and restarts of the process

ASSUME ExprsAssumption == Retained \subseteq Exprs /\ None \notin Exprs
ASSUME NumbersAssumption ==
    /\ MaxTime \in Nat /\ MaxRetry \in Nat
    /\ MaxAdmin \in Nat /\ MaxFaults \in Nat

VARIABLES
    now,        \* the present period
    entry,      \* the job's entry in the hash
    task,       \* the asynq task of the job's id
    scanner,    \* scan: where it is, and the entry it has read
    handler,    \* handler[h]: likewise, of ProcessTask
    clearer,    \* where clearArchived is
    admin,      \* where the administrator's operation is
    status,     \* sys_job.status: 0 started, 1 stopped
    calls,      \* operations so far
    faults,     \* commands that failed and restarts so far
    since,      \* first period of the last registration
    enqueued    \* the periods a task was ever enqueued for

history == <<since, enqueued>>
adminVars == <<admin, status, calls>>
vars == <<now, entry, task, scanner, handler, clearer, adminVars, faults, history>>

Entries == [expr : Exprs \cup {None}, next : Nat]
Blank   == [expr |-> None, next |-> 0]      \* what the empty string is read as

ASSUME BlankAssumption == None # Blank

Tasks   == [state : {"none", "waiting", "active", "completed", "archived"},
            at : Nat, cron : BOOLEAN, retain : BOOLEAN,
            retried : 0 .. MaxRetry, owner : Handlers \cup {None}]
Scans   == [pc : {"enqueue", "save"}, read : Entries]
Runs    == [pc : {"idle", "run", "count", "save", "done"},
            read : Entries \cup {None}, ok : BOOLEAN]
Operations == [pc : {"idle", "get", "hdel", "delete", "set", "again", "update"},
               op : {"none", "start", "stop", "run"}, expr : Exprs \cup {None},
               next : Nat]
NoTask  == [state |-> "none", at |-> 0, cron |-> FALSE, retain |-> FALSE,
            retried |-> 0, owner |-> None]
Asleep  == [pc |-> "idle", read |-> None]
Resting == [pc |-> "idle", read |-> None, ok |-> TRUE]
NoCall  == [pc |-> "idle", op |-> "none", expr |-> None, next |-> 0]

TypeOK ==
    /\ now \in 0 .. MaxTime
    /\ entry \in Entries \cup {None}
    /\ task \in Tasks
    /\ scanner \in Scans \cup {Asleep}
    /\ handler \in [Handlers -> Runs]
    /\ clearer \in {"idle", "cron", "once", "delete"}
    /\ admin \in Operations
    /\ status \in 0 .. 1
    /\ calls \in Nat /\ faults \in Nat
    /\ since \in Nat /\ enqueued \subseteq Nat

getNext(time) == time + 1

(* The process starts with a job that was registered by an earlier start.  *)
Init ==
    /\ now = 0
    /\ \E e \in Retained : entry = [expr |-> e, next |-> getNext(0)]
    /\ status = 0 /\ since = getNext(0)
    /\ task = NoTask
    /\ scanner = Asleep /\ handler = [h \in Handlers |-> Resting]
    /\ clearer = "idle"
    /\ admin = NoCall /\ calls = 0
    /\ faults = 0
    /\ enqueued = {}

(* A command fails, or the process restarts.                              *)
Fault == faults < MaxFaults /\ faults' = faults + 1

(* Time passes; the bound holds the clock.                                 *)
Tick ==
    /\ now < MaxTime
    /\ now' = now + 1
    /\ UNCHANGED <<entry, task, scanner, handler, clearer, adminVars, faults, history>>

-----------------------------------------------------------------------------
(* asynq: a task keeps its id until it is deleted, and an id in use is     *)
(* refused to another task.                                                *)
Free == task.state = "none"
NewTask(at, cron, retain) ==
    [state |-> "waiting", at |-> at, cron |-> cron, retain |-> retain,
     retried |-> 0, owner |-> None]

(* DeleteTask refuses a task that is active, or is not there.              *)
Deletable == task.state \notin {"none", "active"}

Owns(h) == task.state = "active" /\ task.owner = h

(* A task that failed is tried again, up to its limit.                     *)
Failed ==
    IF task.retried < MaxRetry
    THEN [task EXCEPT !.state = "waiting", !.owner = None, !.retried = @ + 1]
    ELSE [task EXCEPT !.state = "archived", !.owner = None]

(* A completed task is kept for its retention time.                        *)
Forget ==
    /\ task.state = "completed"
    /\ task' = NoTask
    /\ UNCHANGED <<now, entry, scanner, handler, clearer, adminVars, faults, history>>

(* A job's method does not look at the context, so it goes on running when *)
(* asynq has given it up after its timeout.                                *)
TimeOut(h) ==
    /\ Owns(h)
    /\ task' = Failed
    /\ UNCHANGED <<now, entry, scanner, handler, clearer, adminVars, faults, history>>

-----------------------------------------------------------------------------
(* scan, once a second.                                                    *)
Scanned(from, to) ==
    /\ scanner.pc = from
    /\ scanner' = to
    /\ UNCHANGED <<now, handler, clearer, adminVars, since>>

ScanRead ==
    /\ entry # None
    /\ Scanned("idle", [pc |-> "enqueue", read |-> entry])
    /\ UNCHANGED <<entry, task, enqueued, faults>>

(* As a bug: a conflict of ids moves the entry on as well.                 *)
ScanEnqueueSavesConflict ==
    /\ scanner.pc = "enqueue" /\ scanner.read.next <= MaxTime
    /\ Scanned("enqueue", [scanner EXCEPT !.pc = "save"])
    /\ IF Free
       THEN /\ task' = NewTask(scanner.read.next, TRUE, scanner.read.expr \in Retained)
            /\ enqueued' = enqueued \cup {scanner.read.next}
       ELSE UNCHANGED <<task, enqueued>>
    /\ UNCHANGED <<entry, faults>>

(* As a bug: a scheduled task is replaced by another.                      *)
ScanEnqueueTwice ==
    /\ scanner.pc = "enqueue" /\ scanner.read.next <= MaxTime
    /\ task' = [NewTask(scanner.read.next, TRUE, scanner.read.expr \in Retained)
                  EXCEPT !.retried = task.retried + 1]
    /\ enqueued' = enqueued \cup {scanner.read.next}
    /\ Scanned("enqueue", [scanner EXCEPT !.pc = "save"])
    /\ UNCHANGED <<entry, faults>>

(* The task of the next period, if the id is free; otherwise the entry is  *)
(* left as it is.  asynq refuses a task without a name and an id.          *)
ScanEnqueue ==
    /\ scanner.pc = "enqueue"
    /\ LET p == scanner.read.next IN
       \/ /\ Free /\ p <= MaxTime /\ scanner.read # Blank
          /\ task' = NewTask(p, TRUE, scanner.read.expr \in Retained)
          /\ enqueued' = enqueued \cup {p}
          /\ Scanned("enqueue", [scanner EXCEPT !.pc = "save"])
          /\ UNCHANGED <<entry, faults>>
       \/ /\ ~Free \/ p > MaxTime \/ scanner.read = Blank
          /\ Scanned("enqueue", Asleep)
          /\ UNCHANGED <<entry, task, enqueued, faults>>

ScanSave ==
    /\ Scanned("save", Asleep)
    /\ entry' = [scanner.read EXCEPT !.next = getNext(@)]
    /\ UNCHANGED <<task, enqueued, faults>>

(* Neither an enqueueing nor a pipeline that fails changes the entry.      *)
ScanFails ==
    /\ \E pc \in {"enqueue", "save"} : Scanned(pc, Asleep)
    /\ Fault
    /\ UNCHANGED <<entry, task, enqueued>>

scan == ScanRead \/ ScanEnqueue \/ ScanSave \/ ScanFails

-----------------------------------------------------------------------------
(* ProcessTask in a handler goroutine; asynq hears of its result at last.  *)
Handled(h, from, to) ==
    /\ handler[h].pc = from
    /\ handler' = [handler EXCEPT ![h] = to]
    /\ UNCHANGED <<now, scanner, clearer, adminVars, history>>

Begin(h) ==
    /\ task.state = "waiting" /\ task.at <= now
    /\ task' = [task EXCEPT !.state = "active", !.owner = h]
    /\ Handled(h, "idle", [Resting EXCEPT !.pc = "run"])
    /\ UNCHANGED <<entry, faults>>

(* The job's method returns, or payload or method are not understood.      *)
Run(h) ==
    /\ \E ok \in BOOLEAN : Handled(h, "run", [Resting EXCEPT !.pc = "count", !.ok = ok])
    /\ UNCHANGED <<entry, task, faults>>

(* processed: the entry is read, and written with one more run; how many   *)
(* there were is not modelled.                                             *)
Count(h) ==
    /\ Handled(h, "count", [handler[h] EXCEPT
                  !.pc = IF entry # None THEN "save" ELSE "done", !.read = entry])
    /\ UNCHANGED <<entry, task, faults>>

SaveCount(h) ==
    /\ Handled(h, "save", [handler[h] EXCEPT !.pc = "done"])
    /\ entry' = handler[h].read
    /\ UNCHANGED <<task, faults>>

(* An entry that cannot be read is taken for one that is there, and blank. *)
CountUnread(h) ==
    /\ Handled(h, "count", [handler[h] EXCEPT !.pc = "save", !.read = Blank])
    /\ Fault
    /\ UNCHANGED <<entry, task>>

(* The context of a task that timed out is done, and fails the lock or the *)
(* HSET; another error of theirs is ignored as well.                       *)
Uncounted(h) ==
    /\ \E pc \in {"count", "save"} :
         Handled(h, pc, [handler[h] EXCEPT !.pc = "done"])
    /\ UNCHANGED <<entry, task, faults>>

processed(h) == Count(h) \/ SaveCount(h) \/ CountUnread(h) \/ Uncounted(h)

Finish(h) ==
    /\ Handled(h, "done", Resting)
    /\ task' = IF ~Owns(h) THEN task
               ELSE IF ~handler[h].ok THEN Failed
               ELSE IF task.retain THEN [task EXCEPT !.state = "completed", !.owner = None]
               ELSE NoTask
    /\ UNCHANGED <<entry, faults>>

ProcessTask(h) == Begin(h) \/ Run(h) \/ processed(h) \/ Finish(h)

-----------------------------------------------------------------------------
(* clearArchived, some time after a task was archived.                     *)
Clears(from, to) ==
    /\ clearer = from
    /\ clearer' = to
    /\ UNCHANGED <<now, entry, scanner, handler, adminVars, history>>

ClearList ==
    /\ task.state = "archived"
    /\ Clears("idle", IF task.cron THEN "cron" ELSE "once")
    /\ UNCHANGED <<task, faults>>

(* As a bug: only tasks that run once are cleared.                         *)
ClearCheckOnce(type) ==
    /\ Clears(type, IF type = "cron" THEN "idle" ELSE "delete")
    /\ UNCHANGED <<task, faults>>

(* A periodic task is kept when its entry is gone.                         *)
ClearCheck(type) ==
    /\ Clears(type, IF type = "cron" /\ entry = None THEN "idle" ELSE "delete")
    /\ UNCHANGED <<task, faults>>

ClearDelete ==
    /\ Clears("delete", "idle")
    /\ task' = IF Deletable THEN NoTask ELSE task
    /\ UNCHANGED faults

(* An entry that cannot be read is taken for one that is there.            *)
ClearFails ==
    /\ Clears("cron", "delete") \/ Clears("delete", "idle")
    /\ Fault
    /\ UNCHANGED task

clearArchived ==
    ClearList \/ ClearCheck("cron") \/ ClearCheck("once") \/ ClearDelete \/ ClearFails

-----------------------------------------------------------------------------
(* The administrator: JobStart with a cron expression, JobStop, JobRun.    *)
Acts(from, to) ==
    /\ admin.pc = from
    /\ admin' = to
    /\ UNCHANGED <<now, scanner, handler, clearer>>

At(pc) == [admin EXCEPT !.pc = pc]

Ask(to) ==
    /\ calls < MaxAdmin
    /\ calls' = calls + 1
    /\ Acts("idle", to)
    /\ UNCHANGED <<entry, task, status, history>>

JobStart == \E e \in Exprs :
    /\ Ask([pc |-> "get", op |-> "start", expr |-> e, next |-> getNext(now)])
    /\ UNCHANGED faults

JobStop ==
    /\ Ask([pc |-> "hdel", op |-> "stop", expr |-> None, next |-> 0])
    /\ UNCHANGED faults

(* Cron: an entry with another expression is removed first.                *)
Cron ==
    /\ Acts("get", At(IF entry # None /\ entry.expr # admin.expr THEN "hdel" ELSE "set"))
    /\ UNCHANGED <<entry, task, status, calls, history, faults>>

CronSave ==
    /\ Acts("set", At("update"))
    /\ entry' = [expr |-> admin.expr, next |-> admin.next]
    /\ since' = admin.next
    /\ UNCHANGED <<task, status, calls, enqueued, faults>>

(* Remove: the entry first, then the task; JobStop ignores an error.       *)
HDel ==
    /\ Acts("hdel", At("delete"))
    /\ entry' = None
    /\ UNCHANGED <<task, status, calls, history, faults>>

AfterRemove(ok) ==
    IF admin.op = "stop" THEN At("update")
    ELSE IF ~ok THEN NoCall
    ELSE IF admin.op = "start" THEN At("set") ELSE At("again")

DeleteTask ==
    /\ Acts("delete", AfterRemove(Deletable))
    /\ task' = IF Deletable THEN NoTask ELSE task
    /\ UNCHANGED <<entry, status, calls, history, faults>>

Remove == HDel \/ DeleteTask

UpdateJob ==
    /\ Acts("update", NoCall)
    /\ status' = IF admin.op = "start" THEN 0 ELSE 1
    /\ UNCHANGED <<entry, task, calls, history, faults>>

(* Once, to run now and replace: in a conflict the job is removed and the  *)
(* task is enqueued again.                                                 *)
JobRun ==
    /\ calls < MaxAdmin
    /\ calls' = calls + 1
    /\ Acts("idle", IF Free THEN NoCall
                    ELSE [pc |-> "hdel", op |-> "run", expr |-> None, next |-> 0])
    /\ task' = IF Free THEN NewTask(now, FALSE, TRUE) ELSE task
    /\ UNCHANGED <<entry, status, history, faults>>

OnceAgain ==
    /\ Acts("again", NoCall)
    /\ task' = IF Free THEN NewTask(now, FALSE, TRUE) ELSE task
    /\ UNCHANGED <<entry, status, calls, history, faults>>

(* What fails of JobRun's first enqueueing, and of the later commands.  An *)
(* error of the lock or of DeleteTask ends Remove, one of HDEL does not;   *)
(* an error of Cron's HGET only keeps it from comparing, and one of its    *)
(* HSET is unwrapped to nil (errors.go:10), so that JobStart succeeds.     *)
JobRunFails == Ask(NoCall) /\ Fault

AdminFails ==
    /\ \/ Acts("get", At("set")) \/ Acts("set", At("update"))
       \/ Acts("hdel", At("delete")) \/ Acts("hdel", AfterRemove(FALSE))
       \/ Acts("delete", AfterRemove(FALSE))
       \/ Acts("update", NoCall) \/ Acts("again", NoCall)
    /\ Fault
    /\ UNCHANGED <<entry, task, status, calls, history>>

Administer == Cron \/ CronSave \/ Remove \/ UpdateJob \/ OnceAgain \/ AdminFails

-----------------------------------------------------------------------------
(* Redis keeps the entry and the task; asynq recovers a task whose handler *)
(* is gone.                                                                *)
Restart ==
    /\ Fault
    /\ scanner' = Asleep
    /\ handler' = [h \in Handlers |-> Resting]
    /\ clearer' = "idle"
    /\ admin' = NoCall
    /\ task' = IF task.state = "active" THEN Failed ELSE task
    /\ UNCHANGED <<now, entry, status, calls, history>>

Next ==
    \/ Tick \/ scan \/ clearArchived \/ Forget
    \/ \E h \in Handlers : ProcessTask(h) \/ TimeOut(h)
    \/ JobStart \/ JobStop \/ JobRun \/ JobRunFails \/ Administer
    \/ Restart

Spec == Init /\ [][Next]_vars

(* Time passes, the scanner and clearArchived run at their intervals,      *)
(* asynq hands out what is due and forgets what was retained, and the      *)
(* job's method returns.  Nobody need start, stop or run a job.            *)
FairSpec ==
    /\ Spec
    /\ WF_vars(Tick) /\ WF_vars(scan) /\ WF_vars(clearArchived) /\ WF_vars(Forget)
    /\ WF_vars(\E h \in Handlers : Begin(h))
    /\ \A h \in Handlers : WF_vars(Run(h) \/ processed(h) \/ Finish(h))
    /\ WF_vars(Administer)

-----------------------------------------------------------------------------
(* Since a job was registered no period was skipped: for each one the      *)
(* entry has moved past a task was enqueued, whatever crashed, conflicted  *)
(* or wrote the entry back.                                                *)
NothingSkipped ==
    entry # None => \A p \in since .. entry.next - 1 : p \in enqueued

(* A job that stays registered is run again and again, for all periods:    *)
(* neither a task that failed for good, nor one that timed out, nor a      *)
(* command that failed stops it, but for one: processed writes a blank     *)
(* entry over one that it failed to read (worker.go:307), and unless an    *)
(* older copy is written over that, the job is never run again.            *)
KeepsRunning ==
    []<>(\/ entry = None \/ entry = Blank
         \/ entry.next > MaxTime
         \/ \E h \in Handlers : handler[h].pc = "run")

(* Between two operations, a job whose status says that it was started is  *)
(* registered.                                                             *)
StartedIsRegistered == admin.pc = "idle" /\ status = 0 => entry # None
=============================================================================
