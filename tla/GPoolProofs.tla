----------------------------- MODULE GPoolProofs -----------------------------
(***************************************************************************)
(* TLAPS proofs about GPool, for any finite set of jobs and any capacity.  *)
(***************************************************************************)
EXTENDS GPool, FiniteSetTheorems, TLAPS

USE JobsAssumption, CapacityAssumption
    DEF JobPCs, Acquiring, Working, Releasing

(* Counting a set that gains or loses one element. *)
LEMMA CountUp ==
  ASSUME NEW S \in SUBSET Jobs, NEW j \in Jobs, j \notin S
  PROVE  Cardinality(S \cup {j}) = Cardinality(S) + 1
<1>1. IsFiniteSet(S)
  BY FS_Subset
<1> QED
  BY <1>1, FS_AddElement

LEMMA CountDown ==
  ASSUME NEW S \in SUBSET Jobs, NEW j \in S
  PROVE  Cardinality(S \ {j}) = Cardinality(S) - 1
<1>1. IsFiniteSet(S)
  BY FS_Subset
<1> QED
  BY <1>1, FS_RemoveElement

(* The inductive invariant.  Sends to the semaphore stop at its capacity,  *)
(* so counting the holders bounds them.                                    *)
IInv == PoolTypeOK /\ TokensAddUp

LEMMA IInvInit == PoolInit => IInv
<1> SUFFICES ASSUME PoolInit PROVE IInv
  OBVIOUS
<1>1. Holders = {} /\ Active = {} /\ Grouped = {}
  BY DEF PoolInit, Holders, Active, Grouped
<1> QED
  BY <1>1, FS_EmptySet DEF PoolInit, IInv, PoolTypeOK, TokensAddUp

LEMMA SetsStep ==
  ASSUME PoolTypeOK, UNCHANGED jobAt
  PROVE  UNCHANGED <<Holders, Active, Grouped>>
  BY DEF Holders, Active, Grouped

LEMMA IInvStep == IInv /\ [PoolNext]_poolVars => IInv'
<1> SUFFICES ASSUME IInv, [PoolNext]_poolVars PROVE IInv'
  OBVIOUS
<1> USE DEF PoolTypeOK, counters, Moves
<1>0. PoolTypeOK /\ sem = Cardinality(Holders) /\ activeJobs = Cardinality(Active)
      /\ waitGroup = Cardinality(Grouped)
  BY DEF IInv, TokensAddUp
<1>1. ASSUME NEW j \in Jobs, Go(j) PROVE IInv'
  <2> USE <1>0
  <2> DEFINE Sets == <<Holders, Active, Grouped>>
  <2>1. CASE Acquire(j)
    <3>1. Holders' = Holders \cup {j} /\ j \notin Holders /\ UNCHANGED <<Active, Grouped>>
      BY <2>1 DEF Acquire, Holders, Active, Grouped
    <3>2. sem' = Cardinality(Holders')
      BY <2>1, <3>1, CountUp DEF Acquire, Holders
    <3> QED
      BY <2>1, <3>1, <3>2 DEF Acquire, IInv, TokensAddUp
  <2>2. CASE Reject(j)
    <3>1. UNCHANGED Sets
      BY <2>2 DEF Reject, Holders, Active, Grouped
    <3> QED
      BY <2>2, <3>1 DEF Reject, IInv, TokensAddUp
  <2>3. CASE CountJob(j)
    <3>1. Active' = Active \cup {j} /\ j \notin Active /\ UNCHANGED <<Holders, Grouped>>
      BY <2>3 DEF CountJob, Holders, Active, Grouped
    <3>2. activeJobs' = Cardinality(Active')
      BY <2>3, <3>1, CountUp DEF CountJob, Active
    <3> QED
      BY <2>3, <3>1, <3>2 DEF CountJob, IInv, TokensAddUp
  <2>4. CASE AddToGroup(j)
    <3>1. Grouped' = Grouped \cup {j} /\ j \notin Grouped /\ UNCHANGED <<Holders, Active>>
      BY <2>4 DEF AddToGroup, Holders, Active, Grouped
    <3>2. waitGroup' = Cardinality(Grouped')
      BY <2>4, <3>1, CountUp DEF AddToGroup, Grouped
    <3> QED
      BY <2>4, <3>1, <3>2 DEF AddToGroup, IInv, TokensAddUp
  <2>5. CASE Return(j)
    <3>1. UNCHANGED Sets
      BY <2>5 DEF Return, Holders, Active, Grouped
    <3> QED
      BY <2>5, <3>1 DEF Return, IInv, TokensAddUp
  <2>6. CASE SendError(j)
    <3>1. UNCHANGED Sets
      BY <2>6 DEF SendError, Holders, Active, Grouped
    <3> QED
      BY <2>6, <3>1 DEF SendError, IInv, TokensAddUp
  <2>7. CASE GiveToken(j)
    <3>1. Holders' = Holders \ {j} /\ j \in Holders /\ UNCHANGED <<Active, Grouped>>
      BY <2>7 DEF GiveToken, Holders, Active, Grouped
    <3>2. sem' = Cardinality(Holders') /\ sem > 0
      <4>1. Cardinality(Holders) # 0
        BY <3>1, FS_Subset, FS_EmptySet DEF Holders
      <4> QED
        BY <2>7, <3>1, <4>1, CountDown DEF GiveToken, Holders
    <3> QED
      BY <2>7, <3>1, <3>2 DEF GiveToken, IInv, TokensAddUp
  <2>8. CASE UncountJob(j)
    <3>1. Active' = Active \ {j} /\ j \in Active /\ UNCHANGED <<Holders, Grouped>>
      BY <2>8 DEF UncountJob, Holders, Active, Grouped
    <3>2. activeJobs' = Cardinality(Active')
      BY <2>8, <3>1, CountDown DEF UncountJob, Active
    <3> QED
      BY <2>8, <3>1, <3>2 DEF UncountJob, IInv, TokensAddUp
  <2>9. CASE LeaveGroup(j)
    <3>1. Grouped' = Grouped \ {j} /\ j \in Grouped /\ UNCHANGED <<Holders, Active>>
      BY <2>9 DEF LeaveGroup, Holders, Active, Grouped
    <3>2. waitGroup' = Cardinality(Grouped')
      BY <2>9, <3>1, CountDown DEF LeaveGroup, Grouped
    <3> QED
      BY <2>9, <3>1, <3>2 DEF LeaveGroup, IInv, TokensAddUp
  <2> QED
    BY <1>1, <2>1, <2>2, <2>3, <2>4, <2>5, <2>6, <2>7, <2>8, <2>9 DEF Go, Release
<1>2. CASE ReadError \/ Shutdown \/ UNCHANGED poolVars
  <2>1. UNCHANGED <<jobAt, sem, activeJobs, waitGroup>> /\ PoolTypeOK'
    BY <1>0, <1>2 DEF ReadError, Shutdown, Cancel, Wait, CloseErrChan, poolVars
  <2> QED
    BY <1>0, <2>1, SetsStep DEF IInv, TokensAddUp
<1> QED
  BY <1>1, <1>2 DEF PoolNext

(* Every variable keeps its type; in particular the semaphore channel is   *)
(* never received from when empty.                                         *)
THEOREM PoolTypeCorrect == PoolSpec => []PoolTypeOK
<1>1. IInv => PoolTypeOK
  BY DEF IInv
<1> QED
  BY <1>1, IInvInit, IInvStep, PTL DEF PoolSpec

(* The three counters always agree with the jobs they count. *)
THEOREM CountersCorrect == PoolSpec => []TokensAddUp
<1>1. IInv => TokensAddUp
  BY DEF IInv
<1> QED
  BY <1>1, IInvInit, IInvStep, PTL DEF PoolSpec

(* The pool never has more than Capacity jobs between Acquire and Release. *)
THEOREM WorkIsBounded == PoolSpec => []BoundedWork
<1>1. IInv => BoundedWork
  BY DEF IInv, PoolTypeOK, TokensAddUp, BoundedWork
<1> QED
  BY <1>1, IInvInit, IInvStep, PTL DEF PoolSpec

(* The process dies of a job that reports an error after Shutdown closed   *)
(* the channel, and of nothing else: a pool that nobody shuts down never   *)
(* panics (gpool.go:52,78).                                                *)
OnlyShutdownKills ==
  process = "down" => shutdown = "closed" /\ \E j \in Jobs : jobAt[j] = "reporting"

(* Every panic of the pool is a report that came after Shutdown.           *)
THEOREM PanicIsLateReport == PoolSpec => []OnlyShutdownKills
<1>1. PoolInit => OnlyShutdownKills
  BY DEF PoolInit, OnlyShutdownKills
<1>2. OnlyShutdownKills /\ [PoolNext]_poolVars => OnlyShutdownKills'
  <2> SUFFICES ASSUME OnlyShutdownKills, [PoolNext]_poolVars PROVE OnlyShutdownKills'
    OBVIOUS
  <2>1. CASE process = "down"
    <3>1. UNCHANGED poolVars
      BY <2>1 DEF PoolNext, Go, Release, Acquire, Reject, CountJob, AddToGroup, Return, SendError,
                  GiveToken, UncountJob, LeaveGroup, ReadError, Shutdown, Cancel, Wait,
                  CloseErrChan, Moves, poolVars
    <3> QED
      BY <3>1 DEF poolVars, OnlyShutdownKills
  <2>2. CASE process # "down" /\ process' = "down"
    <3>1. PICK j \in Jobs : SendError(j)
      BY <2>2 DEF PoolNext, Go, Release, Acquire, Reject, CountJob, AddToGroup, Return,
                  GiveToken, UncountJob, LeaveGroup, ReadError, Shutdown, Cancel, Wait,
                  CloseErrChan, Moves, poolVars
    <3> QED
      BY <2>2, <3>1 DEF SendError, OnlyShutdownKills
  <2>3. CASE process' # "down"
    BY <2>3 DEF OnlyShutdownKills
  <2> QED
    BY <2>1, <2>2, <2>3
<1> QED
  BY <1>1, <1>2, PTL DEF PoolSpec

(* Once no job is in the pool, however the jobs ended, it is as good as    *)
(* new: every token, count and place in the group was given back.          *)
THEOREM NothingLeaks ==
  PoolSpec => []((\A j \in Jobs : jobAt[j] \in {"new", "rejected", "done"})
               => sem = 0 /\ activeJobs = 0 /\ waitGroup = 0)
<1>1. ASSUME TokensAddUp, \A j \in Jobs : jobAt[j] \in {"new", "rejected", "done"}
      PROVE  sem = 0 /\ activeJobs = 0 /\ waitGroup = 0
  <2>1. Holders = {} /\ Active = {} /\ Grouped = {}
    BY <1>1 DEF Holders, Active, Grouped
  <2> QED
    BY <1>1, <2>1, FS_EmptySet DEF TokensAddUp
<1> QED
  BY <1>1, CountersCorrect, PTL
=============================================================================
