------------------------- MODULE PeriodWorkerProofs --------------------------
(***************************************************************************)
(* Type correctness of PeriodWorker, and that no period of a registered    *)
(* job is skipped, for all expressions, handlers and bounds.  What has to  *)
(* be kept is more than NothingSkipped: copies of the entry are under way  *)
(* in the scanner and in the handlers, and any of them may be written back *)
(* in the end, also after the job was registered anew.                     *)
(***************************************************************************)
EXTENDS PeriodWorker, TLAPS

Covered(e) == e # None => \A p \in since .. e.next - 1 : p \in enqueued

(* The copies cover what the entry covers, and the scanner moves on only   *)
(* past a period it has enqueued.                                          *)
CopiesCovered ==
    /\ Covered(entry)
    /\ scanner.pc # "idle" => scanner.read # None /\ Covered(scanner.read)
    /\ scanner.pc = "save" => scanner.read.next \in enqueued
    /\ \A h \in Handlers : handler[h].pc = "save" => Covered(handler[h].read)

(* A registration counts from the period after the one it was asked in.    *)
StartsAhead ==
    /\ since <= now + 1
    /\ admin.pc \in {"get", "set"} => admin.op = "start"
    /\ admin.op = "start" =>
         admin.expr \in Exprs /\ since <= admin.next /\ admin.next <= now + 1

IInv == TypeOK /\ CopiesCovered /\ StartsAhead

USE NumbersAssumption DEF Fault

LEMMA IInvInit == Init => IInv
  BY ExprsAssumption DEF Init, IInv, TypeOK, CopiesCovered, Covered, StartsAhead, Tasks, NoTask,
         Entries, getNext, Runs, Resting, Asleep, Operations, NoCall

(* What failed keeps the type of a task, and a new task has it. *)
LEMMA FailedType == TypeOK => Failed \in Tasks
<1> SUFFICES ASSUME TypeOK PROVE Failed \in Tasks
  OBVIOUS
<1>1. task \in Tasks /\ task.retried \in 0 .. MaxRetry
  BY DEF TypeOK, Tasks
<1>2. CASE task.retried < MaxRetry
  <2>1. task.retried + 1 \in 0 .. MaxRetry
    BY <1>1, <1>2
  <2>2. [task EXCEPT !.state = "waiting", !.owner = None, !.retried = @ + 1] \in Tasks
    BY <1>1, <2>1 DEF Tasks
  <2> QED
    BY <1>2, <2>2 DEF Failed
<1>3. CASE ~(task.retried < MaxRetry)
  <2>1. [task EXCEPT !.state = "archived", !.owner = None] \in Tasks
    BY <1>1 DEF Tasks
  <2> QED
    BY <1>3, <2>1 DEF Failed
<1> QED
  BY <1>2, <1>3

LEMMA NewTaskType ==
  ASSUME NEW at \in Nat, NEW cron \in BOOLEAN, NEW retain \in BOOLEAN
  PROVE  NewTask(at, cron, retain) \in Tasks
  BY DEF NewTask, Tasks

LEMMA OnceTaskType == TypeOK => NewTask(now, FALSE, TRUE) \in Tasks
<1> SUFFICES ASSUME TypeOK PROVE NewTask(now, FALSE, TRUE) \in Tasks
  OBVIOUS
<1>1. now \in Nat
  BY DEF TypeOK
<1> QED
  BY <1>1, NewTaskType, Zenon

-----------------------------------------------------------------------------
(* The scanner. *)
LEMMA ScanStep ==
  ASSUME IInv, scan
  PROVE  IInv'
<1> USE DEF IInv, Scanned, adminVars
<1>1. CASE ScanRead
  <2>1. TypeOK'
    BY <1>1 DEF ScanRead, TypeOK, Scans, Asleep
  <2>2. CopiesCovered'
    BY <1>1 DEF ScanRead, CopiesCovered, Covered
  <2> QED
    BY <1>1, <2>1, <2>2 DEF ScanRead, StartsAhead
<1>2. CASE ScanEnqueue
  <2>1. scanner \in Scans /\ scanner.read \in Entries
    BY <1>2 DEF ScanEnqueue, TypeOK, Scans, Asleep
  <2>2. TypeOK'
    <3>1. NewTask(scanner.read.next, TRUE, scanner.read.expr \in Retained) \in Tasks
      <4>1. scanner.read.next \in Nat
        BY <2>1 DEF Entries
      <4>2. (scanner.read.expr \in Retained) \in BOOLEAN
        OBVIOUS
      <4> QED
        BY <4>1, <4>2, NewTaskType, Zenon
    <3> QED
      BY <1>2, <2>1, <3>1 DEF ScanEnqueue, TypeOK, Scans, Entries
  <2>3. CopiesCovered'
    <3>1. UNCHANGED <<entry, handler, since>> /\ enqueued \subseteq enqueued'
      BY <1>2 DEF ScanEnqueue, Free
    <3>2. scanner.read # None /\ Covered(scanner.read)
      BY <1>2 DEF ScanEnqueue, CopiesCovered
    <3>3. \/ scanner' = Asleep
          \/ /\ scanner' = [scanner EXCEPT !.pc = "save"]
             /\ enqueued' = enqueued \cup {scanner.read.next}
      BY <1>2 DEF ScanEnqueue, Free
    <3>4. /\ scanner'.pc # "idle" => scanner'.read = scanner.read
          /\ scanner'.pc = "save" => scanner'.read.next \in enqueued'
      BY <2>1, <3>3 DEF Asleep, Scans
    <3>5. Covered(entry)'
      BY <3>1 DEF CopiesCovered, Covered
    <3>6. scanner'.pc # "idle" => scanner'.read # None /\ Covered(scanner.read)'
      BY <3>1, <3>2, <3>4 DEF Covered
    <3>7. \A h \in Handlers : handler'[h].pc = "save" => Covered(handler[h].read)'
      BY <3>1 DEF CopiesCovered, Covered
    <3> QED
      BY <3>4, <3>5, <3>6, <3>7 DEF CopiesCovered
  <2> QED
    BY <1>2, <2>2, <2>3 DEF ScanEnqueue, StartsAhead
<1>3. CASE ScanSave
  <2>1. scanner \in Scans /\ scanner.read \in Entries
    BY <1>3 DEF ScanSave, TypeOK, Scans, Asleep
  <2>2. entry' \in Entries /\ entry'.next = scanner.read.next + 1
    BY <1>3, <2>1 DEF ScanSave, Entries, getNext
  <2>3. TypeOK'
    BY <1>3, <2>2 DEF ScanSave, TypeOK
  <2>4. scanner.read # None => Covered(entry)'
    <3> SUFFICES ASSUME scanner.read # None, NEW p \in since .. scanner.read.next
                 PROVE  p \in enqueued
      BY <1>3, <2>1, <2>2 DEF ScanSave, Covered, Entries, TypeOK
    <3>1. p \in since .. scanner.read.next - 1 \/ p = scanner.read.next
      BY <2>1 DEF TypeOK, Entries
    <3> QED
      BY <1>3, <3>1 DEF ScanSave, CopiesCovered, Covered
  <2>5. Covered(entry)'
    BY <1>3, <2>4 DEF ScanSave, CopiesCovered
  <2>6. CopiesCovered'
    BY <1>3, <2>5 DEF ScanSave, CopiesCovered, Covered, Asleep
  <2>7. StartsAhead'
    BY <1>3 DEF ScanSave, StartsAhead
  <2> QED
    BY <2>3, <2>6, <2>7
<1>4. CASE ScanFails
  <2>1. TypeOK'
    BY <1>4 DEF ScanFails, TypeOK
  <2>2. CopiesCovered'
    BY <1>4 DEF ScanFails, CopiesCovered, Covered, Asleep
  <2> QED
    BY <1>4, <2>1, <2>2 DEF ScanFails, StartsAhead
<1> QED
  BY <1>1, <1>2, <1>3, <1>4 DEF scan

-----------------------------------------------------------------------------
(* The handlers. *)
LEMMA HandlerStep ==
  ASSUME IInv, NEW h \in Handlers, ProcessTask(h)
  PROVE  IInv'
<1> USE DEF IInv, Handled, adminVars, history
<1>1. CASE Begin(h)
  <2>1. TypeOK'
    BY <1>1 DEF Begin, TypeOK, Tasks, Runs, Resting
  <2> QED
    BY <1>1, <2>1 DEF Begin, TypeOK, CopiesCovered, Covered, StartsAhead, Resting
<1>2. CASE Run(h)
  <2>1. TypeOK'
    BY <1>2 DEF Run, TypeOK, Runs, Resting
  <2> QED
    BY <1>2, <2>1 DEF Run, TypeOK, CopiesCovered, Covered, StartsAhead, Resting
<1>3. CASE Count(h)
  <2>1. TypeOK'
    BY <1>3 DEF Count, TypeOK, Runs
  <2> QED
    BY <1>3, <2>1 DEF Count, TypeOK, CopiesCovered, Covered, StartsAhead, Runs
<1>4. CASE SaveCount(h)
  <2>1. TypeOK'
    BY <1>4 DEF SaveCount, TypeOK, Runs
  <2> QED
    BY <1>4, <2>1 DEF SaveCount, TypeOK, CopiesCovered, Covered, StartsAhead, Runs
<1>5. CASE Finish(h)
  <2>1. task' \in Tasks
    <3>2. NoTask \in Tasks /\ task \in Tasks
      BY DEF NoTask, Tasks, TypeOK
    <3>3. [task EXCEPT !.state = "completed", !.owner = None] \in Tasks
      BY <3>2 DEF Tasks
    <3> QED
      BY <1>5, <3>2, <3>3, FailedType DEF Finish
  <2>2. TypeOK'
    BY <1>5, <2>1 DEF Finish, TypeOK, Runs, Resting
  <2> QED
    BY <1>5, <2>2 DEF Finish, TypeOK, CopiesCovered, Covered, StartsAhead, Resting
<1>6. CASE CountUnread(h)
  <2>1. Blank \in Entries /\ Covered(Blank)
    BY DEF Blank, Entries, Covered, TypeOK
  <2>2. [handler[h] EXCEPT !.pc = "save", !.read = Blank] \in Runs
    BY <2>1 DEF TypeOK, Runs
  <2>3. TypeOK'
    BY <1>6, <2>2 DEF CountUnread, TypeOK
  <2> QED
    BY <1>6, <2>1, <2>3 DEF CountUnread, TypeOK, CopiesCovered, Covered, StartsAhead, Runs
<1>7. CASE Uncounted(h)
  <2>1. TypeOK'
    BY <1>7 DEF Uncounted, TypeOK, Runs
  <2> QED
    BY <1>7, <2>1 DEF Uncounted, TypeOK, CopiesCovered, Covered, StartsAhead, Runs
<1> QED
  BY <1>1, <1>2, <1>3, <1>4, <1>5, <1>6, <1>7 DEF ProcessTask, processed

-----------------------------------------------------------------------------
(* The clock, asynq and clearArchived change neither entry nor copies. *)
LEMMA AsynqStep ==
  ASSUME IInv,
         \/ Tick \/ Forget \/ clearArchived
         \/ \E h \in Handlers : TimeOut(h)
  PROVE  IInv'
<1> USE DEF IInv, adminVars, history
<1>1. NoTask \in Tasks
  BY DEF NoTask, Tasks
<1>2. CASE Tick
  <2>1. TypeOK'
    BY <1>2 DEF Tick, TypeOK
  <2>2. CopiesCovered'
    BY <1>2 DEF Tick, CopiesCovered, Covered
  <2>3. StartsAhead'
    BY <1>2 DEF Tick, StartsAhead, TypeOK, Operations
  <2> QED
    BY <2>1, <2>2, <2>3
<1>3. CASE Forget
  BY <1>1, <1>3 DEF Forget, TypeOK, CopiesCovered, Covered, StartsAhead
<1>4. CASE clearArchived
  <2>1. /\ UNCHANGED <<now, entry, scanner, handler, admin, status, calls, since, enqueued>>
        /\ clearer' \in {"idle", "cron", "once", "delete"}
    BY <1>4 DEF clearArchived, ClearList, ClearCheck, ClearDelete, ClearFails, Clears
  <2>2. task' \in {task, NoTask} /\ faults' \in {faults, faults + 1}
    BY <1>4 DEF clearArchived, ClearList, ClearCheck, ClearDelete, ClearFails, Clears
  <2>3. TypeOK'
    BY <1>1, <2>1, <2>2 DEF TypeOK
  <2> QED
    BY <2>1, <2>3 DEF CopiesCovered, Covered, StartsAhead
<1>5. CASE \E h \in Handlers : TimeOut(h)
  <2>1. Failed \in Tasks
    BY FailedType
  <2> QED
    BY <1>5, <2>1 DEF TimeOut, TypeOK, CopiesCovered, Covered, StartsAhead
<1> QED
  BY <1>2, <1>3, <1>4, <1>5

-----------------------------------------------------------------------------
(* The administrator. *)
LEMMA AskStep ==
  ASSUME IInv, JobStart \/ JobStop \/ JobRun \/ JobRunFails
  PROVE  IInv'
<1> USE DEF IInv, Ask, Acts, history
<1>1. admin' \in Operations /\ task' \in Tasks
  <2>1. now + 1 \in Nat /\ task \in Tasks
    BY DEF TypeOK
  <2>2. NewTask(now, FALSE, TRUE) \in Tasks
    BY OnceTaskType
  <2>3. CASE JobStart
    BY <2>1, <2>3 DEF JobStart, Operations, getNext
  <2>4. CASE JobStop
    BY <2>1, <2>4 DEF JobStop, Operations
  <2>5. CASE JobRun
    BY <2>1, <2>2, <2>5 DEF JobRun, Operations, NoCall
  <2>6. CASE JobRunFails
    BY <2>1, <2>6 DEF JobRunFails, Operations, NoCall
  <2> QED
    BY <2>3, <2>4, <2>5, <2>6
<1>2. TypeOK'
  <2>1. CASE JobStart
    BY <1>1, <2>1 DEF JobStart, TypeOK
  <2>2. CASE JobStop
    BY <1>1, <2>2 DEF JobStop, TypeOK
  <2>3. CASE JobRun
    <3>1. /\ UNCHANGED <<now, entry, scanner, handler, clearer, status, faults>>
          /\ UNCHANGED <<since, enqueued>> /\ calls' = calls + 1
      BY <2>3 DEF JobRun
    <3> QED
      BY <1>1, <3>1 DEF TypeOK
  <2>4. CASE JobRunFails
    BY <1>1, <2>4 DEF JobRunFails, TypeOK
  <2> QED
    BY <2>1, <2>2, <2>3, <2>4
<1>3. CopiesCovered'
  BY DEF JobStart, JobStop, JobRun, JobRunFails, CopiesCovered, Covered
<1>4. StartsAhead'
  <2>1. CASE JobStart
    BY <2>1 DEF JobStart, StartsAhead, getNext, TypeOK
  <2>2. CASE JobStop
    BY <2>2 DEF JobStop, StartsAhead
  <2>3. CASE JobRun
    BY <2>3 DEF JobRun, StartsAhead, NoCall
  <2>4. CASE JobRunFails
    BY <2>4 DEF JobRunFails, StartsAhead, NoCall
  <2> QED
    BY <2>1, <2>2, <2>3, <2>4
<1> QED
  BY <1>2, <1>3, <1>4

LEMMA AdminStep ==
  ASSUME IInv, Administer
  PROVE  IInv'
<1> USE DEF IInv, Acts, At, history
<1>1. CASE Cron
  <2>1. TypeOK'
    BY <1>1 DEF Cron, TypeOK, Operations
  <2>2. StartsAhead'
    BY <1>1 DEF Cron, StartsAhead, TypeOK, Operations
  <2> QED
    BY <1>1, <2>1, <2>2 DEF Cron, CopiesCovered, Covered
<1>2. CASE CronSave
  <2>1. admin.op = "start" /\ admin.expr \in Exprs /\ admin.next \in Nat
    BY <1>2 DEF CronSave, StartsAhead, TypeOK, Operations
  <2>2. TypeOK'
    BY <1>2, <2>1 DEF CronSave, TypeOK, Operations, Entries
  <2>3. StartsAhead'
    BY <1>2, <2>1 DEF CronSave, StartsAhead, TypeOK, Operations
  <2>4. \A e \in Entries : Covered(e) => Covered(e)'
    BY <1>2, <2>1 DEF CronSave, Covered, StartsAhead, Entries, TypeOK
  <2>5. Covered(entry)'
    BY <1>2, <2>1 DEF CronSave, Covered
  <2>6. CopiesCovered'
    BY <1>2, <2>4, <2>5
       DEF CronSave, CopiesCovered, Covered, TypeOK, Scans, Runs, Asleep
  <2> QED
    BY <2>2, <2>3, <2>6
<1>3. CASE HDel
  <2>1. TypeOK'
    BY <1>3 DEF HDel, TypeOK, Operations
  <2>2. StartsAhead'
    BY <1>3 DEF HDel, StartsAhead, TypeOK, Operations
  <2> QED
    BY <1>3, <2>1, <2>2 DEF HDel, CopiesCovered, Covered
<1>4. CASE DeleteTask
  <2>1. admin' \in Operations
    BY <1>4 DEF DeleteTask, AfterRemove, TypeOK, Operations, NoCall
  <2>2. task' \in Tasks
    BY <1>4 DEF DeleteTask, TypeOK, Tasks, NoTask
  <2>3. TypeOK'
    BY <1>4, <2>1, <2>2 DEF DeleteTask, TypeOK
  <2>4. StartsAhead'
    BY <1>4 DEF DeleteTask, AfterRemove, StartsAhead, TypeOK, Operations, NoCall
  <2> QED
    BY <1>4, <2>3, <2>4 DEF DeleteTask, CopiesCovered, Covered
<1>5. CASE UpdateJob
  BY <1>5 DEF UpdateJob, TypeOK, Operations, NoCall, StartsAhead, CopiesCovered, Covered
<1>6. CASE OnceAgain
  <2>1. NewTask(now, FALSE, TRUE) \in Tasks
    BY OnceTaskType
  <2> QED
    BY <1>6, <2>1 DEF OnceAgain, TypeOK, Operations, NoCall, StartsAhead,
                      CopiesCovered, Covered
<1>7. CASE AdminFails
  <2>1. admin' \in Operations
    BY <1>7 DEF AdminFails, AfterRemove, TypeOK, Operations, NoCall
  <2>2. /\ UNCHANGED <<now, entry, task, scanner, handler, clearer, status, calls>>
        /\ UNCHANGED <<since, enqueued>> /\ faults' = faults + 1
    BY <1>7 DEF AdminFails
  <2>3. TypeOK'
    BY <2>1, <2>2 DEF TypeOK
  <2>4. StartsAhead'
    BY <1>7 DEF AdminFails, AfterRemove, StartsAhead, TypeOK, Operations, NoCall
  <2> QED
    BY <2>2, <2>3, <2>4 DEF CopiesCovered, Covered
<1> QED
  BY <1>1, <1>2, <1>3, <1>4, <1>5, <1>6, <1>7 DEF Administer, Remove

LEMMA RestartStep ==
  ASSUME IInv, Restart
  PROVE  IInv'
<1> USE DEF IInv, Restart, history
<1>1. task' \in Tasks
  <2>1. Failed \in Tasks
    BY FailedType
  <2> QED
    BY <2>1 DEF TypeOK
<1>2. TypeOK'
  BY <1>1 DEF TypeOK, Runs, Resting, Operations, NoCall
<1> QED
  BY <1>2 DEF CopiesCovered, Covered, StartsAhead, Asleep, Resting, NoCall

-----------------------------------------------------------------------------
LEMMA IInvNext == IInv /\ [Next]_vars => IInv'
<1> SUFFICES ASSUME IInv, [Next]_vars PROVE IInv'
  OBVIOUS
<1>1. CASE Next
  BY <1>1, ScanStep, HandlerStep, AsynqStep, AskStep, AdminStep, RestartStep DEF Next
<1>2. CASE UNCHANGED vars
  BY <1>2 DEF vars, adminVars, history, IInv, TypeOK, CopiesCovered, Covered,
              StartsAhead
<1> QED
  BY <1>1, <1>2

LEMMA IInvInvariant == Spec => []IInv
  BY IInvInit, IInvNext, PTL DEF Spec

(* Entry, task, goroutines and operations keep their types. *)
THEOREM PeriodTypeCorrect == Spec => []TypeOK
  BY IInvInvariant, PTL DEF IInv

(* Since a job was registered the scanner has enqueued a task for every    *)
(* period its entry has moved past, whoever wrote the entry last.          *)
THEOREM NoPeriodSkipped == Spec => []NothingSkipped
<1>1. IInv => NothingSkipped
  BY DEF IInv, CopiesCovered, Covered, NothingSkipped
<1> QED
  BY <1>1, IInvInvariant, PTL

-----------------------------------------------------------------------------
(* The entry is blank, or about to be overwritten with a blank one.        *)
Blanked ==
    \/ entry = Blank
    \/ scanner.pc # "idle" /\ scanner.read = Blank
    \/ \E h \in Handlers : handler[h].pc = "save" /\ handler[h].read = Blank

BlankByFault == Blanked => faults > 0

LEMMA BlankStep ==
  ASSUME IInv, BlankByFault, [Next]_vars
  PROVE  BlankByFault'
<1> USE DEF BlankByFault
<1>0. /\ faults \in Nat /\ handler \in [Handlers -> Runs]
      /\ scanner \in Scans \cup {Asleep}
  BY DEF IInv, TypeOK
<1>1. ASSUME Blanked' => Blanked, faults' \in {faults, faults + 1} PROVE BlankByFault'
  BY <1>0, <1>1
<1>2. ASSUME Fault PROVE BlankByFault'
  BY <1>0, <1>2
<1>3. CASE scan
  <2>1. CASE ScanRead
    BY <1>1, <2>1 DEF ScanRead, Scanned, Blanked
  <2>2. CASE ScanEnqueue
    <3>1. scanner'.pc # "idle" => scanner.pc # "idle" /\ scanner'.read = scanner.read
      <4>1. scanner \in Scans
        BY <1>0, <2>2 DEF ScanEnqueue, Asleep
      <4>2. scanner' = Asleep \/ scanner' = [scanner EXCEPT !.pc = "save"]
        BY <2>2 DEF ScanEnqueue, Scanned
      <4> QED
        BY <4>1, <4>2 DEF Asleep, Scans
    <3>2. UNCHANGED <<entry, handler, faults>>
      BY <2>2 DEF ScanEnqueue, Scanned
    <3> QED
      BY <1>1, <3>1, <3>2 DEF Blanked
  <2>3. CASE ScanSave
    <3>1. scanner.read \in Entries /\ scanner'.pc = "idle" /\ UNCHANGED <<handler, faults>>
      BY <1>0, <2>3 DEF ScanSave, Scanned, Asleep, Scans
    <3>2. entry'.next = scanner.read.next + 1 /\ scanner.read.next \in Nat
      BY <2>3, <3>1 DEF ScanSave, Entries, getNext
    <3>3. entry' # Blank
      BY <3>2 DEF Blank
    <3> QED
      BY <1>1, <3>1, <3>3 DEF Blanked
  <2>4. CASE ScanFails
    BY <1>2, <2>4 DEF ScanFails
  <2> QED
    BY <1>3, <2>1, <2>2, <2>3, <2>4 DEF scan
<1>4. ASSUME NEW h \in Handlers, ProcessTask(h) PROVE BlankByFault'
  <2> USE DEF Handled
  <2>1. CASE Begin(h) \/ Run(h) \/ Finish(h) \/ Uncounted(h)
    <3>1. PICK to : handler' = [handler EXCEPT ![h] = to] /\ to.pc # "save"
      <4>1. CASE Begin(h) \/ Finish(h)
        BY <4>1 DEF Begin, Finish, Resting
      <4>2. CASE Run(h)
        <5>1. PICK ok \in BOOLEAN :
                handler' = [handler EXCEPT ![h] = [Resting EXCEPT !.pc = "count", !.ok = ok]]
          BY <4>2 DEF Run
        <5>2. [Resting EXCEPT !.pc = "count", !.ok = ok].pc # "save"
          BY DEF Resting
        <5> QED
          BY <5>1, <5>2
      <4>3. CASE Uncounted(h)
        <5>1. [handler[h] EXCEPT !.pc = "done"].pc # "save"
          BY <1>0 DEF Runs
        <5> QED
          BY <4>3, <5>1 DEF Uncounted
      <4> QED
        BY <2>1, <4>1, <4>2, <4>3
    <3>2. UNCHANGED <<scanner, faults>> /\ UNCHANGED entry
      BY <2>1 DEF Begin, Run, Finish, Uncounted
    <3>3. handler'[h].pc # "save" /\ \A k \in Handlers : k # h => handler'[k] = handler[k]
      BY <1>0, <3>1
    <3> QED
      BY <1>1, <3>2, <3>3 DEF Blanked
  <2>2. CASE Count(h)
    <3>1. handler'[h].read = entry
      BY <1>0, <2>2 DEF Count, Runs
    <3>2. /\ \A k \in Handlers : k # h => handler'[k] = handler[k]
          /\ UNCHANGED <<entry, scanner, faults>>
      BY <1>0, <2>2 DEF Count
    <3> QED
      BY <1>1, <3>1, <3>2 DEF Blanked
  <2>3. CASE SaveCount(h)
    <3>1. /\ entry' = handler[h].read /\ handler[h].pc = "save" /\ handler'[h].pc = "done"
          /\ \A k \in Handlers : k # h => handler'[k] = handler[k]
          /\ UNCHANGED <<scanner, faults>>
      BY <1>0, <2>3 DEF SaveCount, Runs
    <3> QED
      BY <1>1, <3>1 DEF Blanked
  <2>4. CASE CountUnread(h)
    BY <1>2, <2>4 DEF CountUnread
  <2> QED
    BY <1>4, <2>1, <2>2, <2>3, <2>4 DEF ProcessTask, processed
<1>5. ASSUME UNCHANGED <<scanner, handler>>, entry' \in {entry, None}, faults' \in {faults, faults + 1}
      PROVE  BlankByFault'
  <2>1. CASE entry' = entry
    BY <1>1, <1>5, <2>1 DEF Blanked
  <2>2. CASE entry' = None
    BY <1>1, <1>5, <2>2, BlankAssumption DEF Blanked
  <2> QED
    BY <1>5, <2>1, <2>2
<1>6. CASE Tick \/ Forget \/ clearArchived \/ \E h \in Handlers : TimeOut(h)
  <2>1. UNCHANGED <<entry, scanner, handler>> /\ faults' \in {faults, faults + 1}
    BY <1>6 DEF Tick, Forget, TimeOut, clearArchived, ClearList, ClearCheck, ClearDelete,
                ClearFails, Clears
  <2> QED
    BY <1>5, <2>1
<1>7. CASE JobStart \/ JobStop \/ JobRun \/ JobRunFails
  <2>1. UNCHANGED <<entry, scanner, handler>> /\ faults' \in {faults, faults + 1}
    BY <1>7 DEF JobStart, JobStop, JobRun, JobRunFails, Ask, Acts
  <2> QED
    BY <1>5, <2>1
<1>8. CASE Administer
  <2>1. CASE CronSave
    <3>1. admin.expr \in Exprs
      BY <2>1 DEF CronSave, Acts, IInv, StartsAhead
    <3>2. entry'.expr = admin.expr /\ UNCHANGED <<scanner, handler, faults>>
      BY <2>1 DEF CronSave, Acts
    <3>3. entry' # Blank
      BY <3>1, <3>2, ExprsAssumption DEF Blank
    <3> QED
      BY <1>1, <3>2, <3>3 DEF Blanked
  <2>2. CASE Cron \/ HDel \/ DeleteTask \/ UpdateJob \/ OnceAgain \/ AdminFails
    <3>1. /\ UNCHANGED <<scanner, handler>> /\ entry' \in {entry, None}
          /\ faults' \in {faults, faults + 1}
      BY <2>2 DEF Cron, HDel, DeleteTask, UpdateJob, OnceAgain, AdminFails, Acts
    <3> QED
      BY <1>5, <3>1
  <2> QED
    BY <1>8, <2>1, <2>2 DEF Administer, Remove
<1>9. CASE Restart
  BY <1>2, <1>9 DEF Restart
<1>10. CASE UNCHANGED vars
  <2>1. UNCHANGED <<entry, scanner, handler, faults>>
    BY <1>10 DEF vars
  <2> QED
    BY <1>5, <2>1
<1> QED
  BY <1>3, <1>4, <1>6, <1>7, <1>8, <1>9, <1>10 DEF Next

(* worker.go:307.  The entry that ends a job without anybody's asking, the *)
(* blank one, is there only after a fault: as long as no command failed    *)
(* and the process did not restart, stale copies and operations that meet  *)
(* write back nothing but entries with an expression.                      *)
THEOREM BlankNeedsFault == Spec => [](entry = Blank => faults > 0)
<1>1. Init => BlankByFault
  <2> SUFFICES ASSUME Init PROVE ~ Blanked
    BY DEF BlankByFault
  <2>1. entry # Blank
    BY ExprsAssumption DEF Init, Blank
  <2>2. scanner.pc = "idle" /\ \A h \in Handlers : handler[h].pc = "idle"
    BY DEF Init, Asleep, Resting
  <2> QED
    BY <2>1, <2>2 DEF Blanked
<1>2. BlankByFault => (entry = Blank => faults > 0)
  BY DEF BlankByFault, Blanked
<1> QED
  BY <1>1, <1>2, BlankStep, IInvInvariant, PTL DEF Spec

-----------------------------------------------------------------------------
(* An active task has a handler at work that will report its result: asynq *)
(* does not wait for nobody, and a task is not left active by a timeout, a *)
(* crash or an operation of the administrator.                             *)
NoOrphans ==
    task.state = "active" => task.owner \in Handlers /\ handler[task.owner].pc # "idle"

LEMMA FailedWaits ==
  TypeOK => Failed.state \in {"waiting", "archived"} /\ Failed.cron = task.cron
<1> SUFFICES ASSUME TypeOK PROVE Failed.state \in {"waiting", "archived"} /\ Failed.cron = task.cron
  OBVIOUS
<1>0. task \in Tasks
  BY DEF TypeOK
<1>1. CASE task.retried < MaxRetry
  <2>1. Failed = [task EXCEPT !.state = "waiting", !.owner = None, !.retried = @ + 1]
    BY <1>1 DEF Failed
  <2> QED
    BY <1>0, <2>1 DEF Tasks
<1>2. CASE ~ (task.retried < MaxRetry)
  <2>1. Failed = [task EXCEPT !.state = "archived", !.owner = None]
    BY <1>2 DEF Failed
  <2> QED
    BY <1>0, <2>1 DEF Tasks
<1> QED
  BY <1>1, <1>2

LEMMA NoOrphansStep ==
  ASSUME TypeOK, NoOrphans, [Next]_vars
  PROVE  NoOrphans'
<1> USE DEF NoOrphans
<1>0. /\ task \in Tasks /\ handler \in [Handlers -> Runs]
      /\ Failed.state # "active"
      /\ \A at, cron, retain : NewTask(at, cron, retain).state # "active"
      /\ NoTask.state # "active"
  BY FailedWaits DEF TypeOK, NewTask, NoTask
<1>1. ASSUME UNCHANGED handler, task'.state = "active" => task' = task PROVE NoOrphans'
  BY <1>1
<1>2. ASSUME NEW h \in Handlers, ProcessTask(h) PROVE NoOrphans'
  <2> USE DEF Handled
  <2>1. CASE Begin(h)
    <3>1. task'.owner = h /\ handler'[h].pc = "run"
      BY <1>0, <2>1 DEF Begin, Tasks, Resting, Runs
    <3> QED
      BY <3>1
  <2>2. CASE Run(h)
    <3>1. UNCHANGED task /\ handler'[h].pc = "count"
          /\ \A k \in Handlers : k # h => handler'[k] = handler[k]
      BY <1>0, <2>2 DEF Run, Resting
    <3> QED
      BY <3>1
  <2>3. CASE Count(h)
    <3>1. UNCHANGED task /\ handler'[h].pc \in {"save", "done"}
          /\ \A k \in Handlers : k # h => handler'[k] = handler[k]
      BY <1>0, <2>3 DEF Count, Runs
    <3> QED
      BY <3>1
  <2>4. CASE SaveCount(h)
    <3>1. UNCHANGED task /\ handler'[h].pc = "done"
          /\ \A k \in Handlers : k # h => handler'[k] = handler[k]
      BY <1>0, <2>4 DEF SaveCount, Runs
    <3> QED
      BY <3>1
  <2>5. CASE Finish(h)
    <3>1. \A k \in Handlers : k # h => handler'[k] = handler[k]
      BY <1>0, <2>5 DEF Finish
    <3>2. CASE Owns(h)
      <4>1. [task EXCEPT !.state = "completed", !.owner = None].state # "active"
        BY <1>0 DEF Tasks
      <4>2. task'.state # "active"
        BY <1>0, <2>5, <3>2, <4>1 DEF Finish
      <4> QED
        BY <4>2
    <3>3. CASE ~ Owns(h)
      <4>1. task' = task
        BY <2>5, <3>3 DEF Finish
      <4> QED
        BY <3>1, <3>3, <4>1 DEF Owns
    <3> QED
      BY <3>2, <3>3
  <2>6. CASE CountUnread(h) \/ Uncounted(h)
    <3>1. UNCHANGED task /\ handler'[h].pc \in {"save", "done"}
          /\ \A k \in Handlers : k # h => handler'[k] = handler[k]
      BY <1>0, <2>6 DEF CountUnread, Uncounted, Runs
    <3> QED
      BY <3>1
  <2> QED
    BY <1>2, <2>1, <2>2, <2>3, <2>4, <2>5, <2>6 DEF ProcessTask, processed
<1>3. ASSUME NEW h \in Handlers, TimeOut(h) PROVE NoOrphans'
  BY <1>0, <1>1, <1>3 DEF TimeOut
<1>4. CASE scan
  <2>1. UNCHANGED handler
    BY <1>4 DEF scan, ScanRead, ScanEnqueue, ScanSave, ScanFails, Scanned
  <2>2. task' = task \/ task'.state = "waiting"
    BY <1>4 DEF scan, ScanRead, ScanEnqueue, ScanSave, ScanFails, NewTask
  <2> QED
    BY <1>1, <2>1, <2>2
<1>5. CASE Tick \/ clearArchived \/ Forget
  BY <1>0, <1>1, <1>5
     DEF Tick, clearArchived, ClearList, ClearCheck, ClearDelete, ClearFails, Clears, Forget
<1>6. CASE JobStart \/ JobStop \/ JobRun \/ JobRunFails
  BY <1>0, <1>1, <1>6 DEF JobStart, JobStop, JobRun, JobRunFails, Ask, Acts
<1>7. CASE Administer
  BY <1>0, <1>1, <1>7
     DEF Administer, Cron, CronSave, Remove, HDel, DeleteTask, UpdateJob, OnceAgain, AdminFails, Acts
<1>8. CASE Restart
  <2>1. task'.state # "active"
    BY <1>0, <1>8 DEF Restart
  <2> QED
    BY <2>1
<1>9. CASE UNCHANGED vars
  BY <1>1, <1>9 DEF vars
<1> QED
  BY <1>2, <1>3, <1>4, <1>5, <1>6, <1>7, <1>8, <1>9 DEF Next

(* Every active task has its handler (worker.go:162).                      *)
THEOREM ActiveTasksAreAttended == Spec => []NoOrphans
<1>1. Init => NoOrphans
  BY DEF Init, NoOrphans, NoTask
<1> QED
  BY <1>1, NoOrphansStep, PeriodTypeCorrect, PTL DEF Spec

-----------------------------------------------------------------------------
(* Left alone, a job loses no task.  As long as the administrator has done *)
(* nothing, a task that waits is handed to a handler: neither a restart    *)
(* nor clearArchived, which decides on one look and deletes on another,    *)
(* takes it away.                                                          *)
TaskStays ==
    calls = 0 /\ task.state = "waiting" => task'.state \in {"waiting", "active"}

Unattended ==
    calls = 0 => /\ admin = NoCall
                 /\ clearer # "idle" => task.state = "archived"

LEMMA UnattendedInit == Init => Unattended
  BY DEF Init, Unattended

LEMMA CallsGrow ==
  ASSUME [Next]_vars
  PROVE  calls' = calls \/ calls' = calls + 1
<1>1. CASE JobStart \/ JobStop \/ JobRun \/ JobRunFails
  BY <1>1 DEF JobStart, JobStop, JobRun, JobRunFails, Ask
<1>2. CASE Administer
  BY <1>2 DEF Administer, Cron, CronSave, Remove, HDel, DeleteTask, UpdateJob, OnceAgain, AdminFails
<1>3. CASE Tick \/ Forget \/ scan \/ clearArchived \/ Restart \/ UNCHANGED vars
  BY <1>3 DEF Tick, Forget, scan, ScanRead, ScanEnqueue, ScanSave, ScanFails, Scanned, clearArchived,
              ClearList, ClearCheck, ClearDelete, ClearFails, Clears, Restart, vars, adminVars
<1>4. CASE \E h \in Handlers : ProcessTask(h) \/ TimeOut(h)
  BY <1>4 DEF ProcessTask, Begin, Run, processed, Count, SaveCount, CountUnread, Uncounted, Finish, TimeOut,
              Handled, adminVars
<1> QED
  BY <1>1, <1>2, <1>3, <1>4 DEF Next

LEMMA UnattendedStep ==
  ASSUME TypeOK, Unattended, [Next]_vars
  PROVE  Unattended' /\ TaskStays
<1> USE DEF Unattended, TaskStays
<1>0. /\ task \in Tasks /\ calls \in Nat
      /\ Failed.state \in {"waiting", "archived"}
  BY FailedWaits DEF TypeOK
<1>1. ASSUME UNCHANGED <<calls, admin, clearer>>, calls = 0,
             \/ task'.state = task.state
             \/ task.state \notin {"waiting", "archived"}
             \/ (task.state = "waiting" /\ task'.state = "active")
      PROVE  Unattended' /\ TaskStays
  BY <1>0, <1>1
<1>2. ASSUME calls' # 0, calls # 0 PROVE Unattended' /\ TaskStays
  BY <1>2
<1>3. CASE JobStart \/ JobStop \/ JobRun \/ JobRunFails
  <2>1. calls' = calls + 1
    BY <1>3 DEF JobStart, JobStop, JobRun, JobRunFails, Ask
  <2>2. task.state = "waiting" => task' = task
    BY <1>3 DEF JobStart, JobStop, JobRun, JobRunFails, Ask, Free
  <2> QED
    BY <1>0, <2>1, <2>2
<1>4. CASE Administer
  <2>1. admin.pc # "idle" /\ calls' = calls
    BY <1>4 DEF Administer, Cron, CronSave, Remove, HDel, DeleteTask, UpdateJob, OnceAgain, AdminFails,
                Acts
  <2>2. calls # 0
    BY <2>1 DEF NoCall
  <2> QED
    BY <1>2, <2>1, <2>2
<1>5. CASE calls = 0 /\ clearArchived
  <2>1. UNCHANGED <<calls, admin>>
    BY <1>5 DEF clearArchived, ClearList, ClearCheck, ClearDelete, ClearFails, Clears, adminVars
  <2>2. CASE ClearList
    BY <1>5, <2>1, <2>2 DEF ClearList, Clears
  <2>3. CASE ClearCheck("cron") \/ ClearCheck("once")
    BY <1>5, <2>1, <2>3 DEF ClearCheck, Clears
  <2>4. CASE ClearDelete
    BY <1>5, <2>1, <2>4 DEF ClearDelete, Clears
  <2>5. CASE ClearFails
    BY <1>5, <2>1, <2>5 DEF ClearFails, Clears
  <2> QED
    BY <1>5, <2>2, <2>3, <2>4, <2>5 DEF clearArchived
<1>6. CASE calls = 0 /\ Restart
  BY <1>0, <1>6 DEF Restart
<1>7. CASE calls = 0 /\ (Tick \/ Forget \/ scan)
  <2>1. UNCHANGED <<calls, admin, clearer>>
    BY <1>7 DEF Tick, Forget, scan, ScanRead, ScanEnqueue, ScanSave, ScanFails, Scanned, adminVars
  <2>2. task' = task \/ task.state \notin {"waiting", "archived"}
    BY <1>7 DEF Tick, Forget, scan, ScanRead, ScanEnqueue, ScanSave, ScanFails, Scanned, Free
  <2> QED
    BY <1>1, <1>7, <2>1, <2>2
<1>8. ASSUME NEW h \in Handlers, calls = 0, ProcessTask(h) \/ TimeOut(h)
      PROVE  Unattended' /\ TaskStays
  <2>1. UNCHANGED <<calls, admin, clearer>>
    BY <1>8 DEF ProcessTask, Begin, Run, processed, Count, SaveCount, CountUnread, Uncounted, Finish, TimeOut,
                Handled, adminVars
  <2>2. \/ task' = task \/ task.state = "active"
        \/ task.state = "waiting" /\ task'.state = "active"
    BY <1>0, <1>8 DEF ProcessTask, Begin, Run, processed, Count, SaveCount, CountUnread, Uncounted, Finish, TimeOut,
                      Owns, Tasks
  <2> QED
    BY <1>1, <1>8, <2>1, <2>2
<1>9. CASE calls = 0 /\ UNCHANGED vars
  BY <1>1, <1>9 DEF vars, adminVars
<1>10. CASE calls # 0
  <2>1. calls' = calls \/ calls' = calls + 1
    BY CallsGrow
  <2> QED
    BY <1>0, <1>2, <1>10, <2>1
<1> QED
  BY <1>3, <1>4, <1>5, <1>6, <1>7, <1>8, <1>9, <1>10 DEF Next

(* Without an operation of the administrator no waiting task is lost       *)
(* (worker.go:370).                                                        *)
THEOREM TasksStayUnattended == Spec => [][TaskStays]_vars
  BY UnattendedInit, UnattendedStep, PeriodTypeCorrect, PTL DEF Spec
=============================================================================
