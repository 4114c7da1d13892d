-------------------------------- MODULE GPool --------------------------------
(***************************************************************************)
(* pkg/gpool: a pool that limits the number of goroutines with a semaphore *)
(* channel, collects their errors in a channel of the same capacity, and   *)
(* can be shut down.  Each job is one call of Go.                          *)
(***************************************************************************)
EXTENDS Integers, FiniteSets

CONSTANTS
    Jobs,       \* the calls of Go
    Capacity,   \* NewGPool(capacity)
    Drained     \* whether somebody receives from ErrChan()

ASSUME JobsAssumption == IsFiniteSet(Jobs)
ASSUME CapacityAssumption == Capacity \in Nat /\ Capacity > 0
ASSUME DrainedAssumption == Drained \in BOOLEAN

VARIABLES
    jobAt,       \* jobAt[j]: where job j is
    sem,         \* tokens in the semaphore channel
    activeJobs,
    waitGroup,   \* the WaitGroup's counter
    errChan,     \* errors waiting in the error channel
    shutdown,    \* where the goroutine that calls Shutdown is
    process      \* "up", or "down" once a send on the closed channel panicked

counters == <<sem, activeJobs, waitGroup>>
poolVars == <<jobAt, counters, errChan, shutdown, process>>

(* A job is asked for, acquires its token in three steps, runs, perhaps    *)
(* reports an error, and gives the token back in three steps.              *)
Acquiring == {"acquired", "counted"}
Working   == {"running", "reporting"}
Releasing == {"release", "released", "uncounted"}
JobPCs    == {"new", "rejected", "done"} \cup Acquiring \cup Working \cup Releasing

(* The jobs that each of the three counters stands for. *)
Holders == {j \in Jobs : jobAt[j] \in Acquiring \cup Working \cup {"release"}}
Active  == {j \in Jobs : jobAt[j] \in {"counted", "release", "released"} \cup Working}
Grouped == {j \in Jobs : jobAt[j] \in Working \cup Releasing}

PoolTypeOK ==
    /\ jobAt \in [Jobs -> JobPCs]
    /\ sem \in 0 .. Capacity
    /\ activeJobs \in Int
    /\ waitGroup \in Int
    /\ errChan \in 0 .. Capacity
    /\ shutdown \in {"idle", "waiting", "closing", "closed"}
    /\ process \in {"up", "down"}

PoolInit ==
    /\ jobAt = [j \in Jobs |-> "new"]
    /\ sem = 0
    /\ activeJobs = 0
    /\ waitGroup = 0
    /\ errChan = 0
    /\ shutdown = "idle"
    /\ process = "up"

Cancelled == shutdown # "idle"     \* p.ctx is done

-----------------------------------------------------------------------------
Moves(j, from, to) ==
    /\ process = "up"
    /\ jobAt[j] = from
    /\ jobAt' = [jobAt EXCEPT ![j] = to]

(* As a bug: a full semaphore does not block.                            *)
AcquireOverfull(j) ==
    /\ Moves(j, "new", "acquired")
    /\ sem' = IF sem < Capacity THEN sem + 1 ELSE sem
    /\ UNCHANGED <<activeJobs, waitGroup, errChan, shutdown, process>>

(* As a bug: Acquire takes tokens beyond the capacity.                   *)
AcquireUnbounded(j) ==
    /\ Moves(j, "new", "acquired")
    /\ sem' = sem + 1
    /\ UNCHANGED <<activeJobs, waitGroup, errChan, shutdown, process>>

(* The select of Acquire: both arms may be ready, then either is taken. *)
Acquire(j) ==
    /\ Moves(j, "new", "acquired")
    /\ sem < Capacity
    /\ sem' = sem + 1
    /\ UNCHANGED <<activeJobs, waitGroup, errChan, shutdown, process>>

Reject(j) ==
    /\ Moves(j, "new", "rejected")
    /\ Cancelled
    /\ UNCHANGED <<counters, errChan, shutdown, process>>

CountJob(j) ==
    /\ Moves(j, "acquired", "counted")
    /\ activeJobs' = activeJobs + 1
    /\ UNCHANGED <<sem, waitGroup, errChan, shutdown, process>>

AddToGroup(j) ==
    /\ Moves(j, "counted", "running")
    /\ waitGroup' = waitGroup + 1
    /\ UNCHANGED <<sem, activeJobs, errChan, shutdown, process>>

(* The job's function returns nil or an error. *)
Return(j) ==
    /\ Moves(j, "running", "release") \/ Moves(j, "running", "reporting")
    /\ UNCHANGED <<counters, errChan, shutdown, process>>

(* As a bug: a job that fails returns without releasing.                 *)
SendErrorKeepToken(j) ==
    /\ Moves(j, "reporting", "done")
    /\ errChan < Capacity
    /\ errChan' = errChan + 1
    /\ UNCHANGED <<counters, shutdown, process>>

(* p.errChan <- err, with the token still held. *)
SendError(j) ==
    /\ process = "up" /\ jobAt[j] = "reporting"
    /\ \/ /\ shutdown # "closed"
          /\ errChan < Capacity
          /\ errChan' = errChan + 1
          /\ jobAt' = [jobAt EXCEPT ![j] = "release"]
          /\ UNCHANGED process
       \/ /\ shutdown = "closed"
          /\ process' = "down"
          /\ UNCHANGED <<jobAt, errChan>>
    /\ UNCHANGED <<counters, shutdown>>

GiveToken(j) ==
    /\ Moves(j, "release", "released")
    /\ sem' = sem - 1
    /\ UNCHANGED <<activeJobs, waitGroup, errChan, shutdown, process>>

UncountJob(j) ==
    /\ Moves(j, "released", "uncounted")
    /\ activeJobs' = activeJobs - 1
    /\ UNCHANGED <<sem, waitGroup, errChan, shutdown, process>>

LeaveGroup(j) ==
    /\ Moves(j, "uncounted", "done")
    /\ waitGroup' = waitGroup - 1
    /\ UNCHANGED <<sem, activeJobs, errChan, shutdown, process>>

Release(j) == GiveToken(j) \/ UncountJob(j) \/ LeaveGroup(j)

Go(j) ==
    \/ Acquire(j) \/ Reject(j) \/ CountJob(j) \/ AddToGroup(j)
    \/ Return(j) \/ SendError(j) \/ Release(j)

-----------------------------------------------------------------------------
(* Receiving from ErrChan(): somebody, or nobody. *)
ReadError ==
    /\ Drained
    /\ process = "up"
    /\ errChan > 0
    /\ errChan' = errChan - 1
    /\ UNCHANGED <<jobAt, counters, shutdown, process>>

Cancel ==
    /\ process = "up" /\ shutdown = "idle"
    /\ shutdown' = "waiting"
    /\ UNCHANGED <<jobAt, counters, errChan, process>>

(* Wait(5s): the WaitGroup reaches zero, or, at any count, the timer       *)
(* fires; Shutdown does not look at which.                                 *)
Wait ==
    /\ process = "up" /\ shutdown = "waiting"
    /\ shutdown' = "closing"
    /\ UNCHANGED <<jobAt, counters, errChan, process>>

CloseErrChan ==
    /\ process = "up" /\ shutdown = "closing"
    /\ shutdown' = "closed"
    /\ UNCHANGED <<jobAt, counters, errChan, process>>

Shutdown == Cancel \/ Wait \/ CloseErrChan

PoolNext == (\E j \in Jobs : Go(j)) \/ ReadError \/ Shutdown

PoolSpec == PoolInit /\ [][PoolNext]_poolVars

(* Every goroutine is scheduled, a reader of ErrChan reads on, a sender    *)
(* waiting on a full channel is served in turn (channels queue their       *)
(* waiters), and a job's function returns.  Nobody need call Shutdown.     *)
PoolFairness ==
    /\ \A j \in Jobs : SF_poolVars(Go(j))
    /\ WF_poolVars(ReadError)

-----------------------------------------------------------------------------
(* At most Capacity jobs are past Acquire and not yet released, counting   *)
(* those that wait for room in the error channel.                          *)
BoundedWork == Cardinality(Holders) <= Capacity

(* The counters add up: the semaphore holds a token per job between        *)
(* Acquire and Release, so no path gives back a token it does not have.    *)
TokensAddUp ==
    /\ sem = Cardinality(Holders)
    /\ activeJobs = Cardinality(Active)
    /\ waitGroup = Cardinality(Grouped)

(* Every job that was asked for gets through the pool (or the process      *)
(* dies): what the router relies on for every message it receives.         *)
JobsGetThrough ==
    \A j \in Jobs : <>(jobAt[j] \in {"done", "rejected"} \/ process = "down")
=============================================================================
