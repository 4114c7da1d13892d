------------------------- MODULE DeviceStatusProofs --------------------------
(***************************************************************************)
(* TLAPS proofs about DeviceStatus, for any number of messages, workers,   *)
(* administrative calls and restarts.                                      *)
(***************************************************************************)
EXTENDS DeviceStatus, TLAPS

USE DEF Handles, logging, admining

(* PresentIsWatched is inductive as it stands, given the types. *)
IInv == StatusTypeOK /\ PresentIsWatched

LEMMA IInvInit == StatusInit => IInv
<1> SUFFICES ASSUME StatusInit PROVE IInv
  OBVIOUS
<1>1. StatusTypeOK
  <2>1. misread \in BOOLEAN
    BY Zenon DEF StatusInit
  <2>2. /\ "new" \in JobPCs /\ "none" \in WatcherPCs /\ "idle" \in AdminPCs
        /\ 1 \in 0 .. 2 /\ 0 \in 0 .. 1 /\ 0 \in Nat /\ 1 \in Nat \ {0}
        /\ {} \in SUBSET (1 .. 2)
    BY DEF JobPCs, WatcherPCs, AdminPCs
  <2> QED
    BY <2>1, <2>2, Zenon DEF StatusInit, StatusTypeOK
<1>2. key # starts
  BY DEF StatusInit
<1> QED
  BY <1>1, <1>2 DEF IInv, PresentIsWatched

-----------------------------------------------------------------------------
(* The steps of a job.                                                     *)
LEMMA JobStep ==
  ASSUME IInv, NEW j \in Jobs, GetDetail(j) \/ UpdateStatus(j)
  PROVE  IInv'
<1> USE DEF StatusTypeOK, IInv, JobPCs, WatcherPCs, AdminPCs
<1>1. StatusTypeOK'
  <2>1. CASE GetDetail(j)
    <3>1. PICK to \in {"enabled", "done"} : Handles(j, "new", to)
      BY <2>1 DEF GetDetail
    <3> QED
      BY <2>1, <3>1 DEF GetDetail
  <2>2. CASE GetStatus(j)
    <3>1. PICK to \in {"refresh", "set"} : Handles(j, "enabled", to)
      BY <2>2 DEF GetStatus
    <3> QED
      BY <2>2, <3>1 DEF GetStatus
  <2>3. CASE UpdateExpire(j)
    BY <2>3 DEF UpdateExpire
  <2>4. CASE SetKey(j)
    <3>1. misread' \in BOOLEAN
      BY <2>4, Zenon DEF SetKey
    <3>2. key' \in 0 .. starts /\ starts' = starts
      BY <2>4 DEF SetKey
    <3> QED
      BY <2>4, <3>1, <3>2 DEF SetKey
  <2>5. CASE Spawn(j)
    BY <2>5 DEF Spawn
  <2> QED
    BY <2>1, <2>2, <2>3, <2>4, <2>5 DEF UpdateStatus
<1>2. PresentIsWatched'
  <2>1. CASE GetDetail(j) \/ GetStatus(j) \/ UpdateExpire(j)
    <3>1. /\ UNCHANGED <<key, starts, watcher, misread>>
          /\ \A i \in Jobs : job[i] = "spawn" => job'[i] = "spawn"
      BY <2>1 DEF GetDetail, GetStatus, UpdateExpire
    <3> QED
      BY <3>1 DEF PresentIsWatched, Watching
  <2>2. CASE SetKey(j)
    BY <2>2 DEF SetKey, PresentIsWatched
  <2>3. CASE Spawn(j)
    <3>1. Watching(j)'
      BY <2>3 DEF Spawn, Watching
    <3> QED
      BY <3>1 DEF PresentIsWatched
  <2> QED
    BY <2>1, <2>2, <2>3 DEF UpdateStatus
<1> QED
  BY <1>1, <1>2

(* The steps of a goroutine: it gives the key up only once it has expired, *)
(* or could not be read.                                                   *)
LEMMA WatchStep ==
  ASSUME IInv, NEW j \in Jobs, Watch(j)
  PROVE  IInv'
<1> USE DEF StatusTypeOK, IInv, JobPCs, WatcherPCs, AdminPCs, Turn, pushDeviceStatus
<1>0. ASSUME Check(j)
      PROVE  \E ds \in {1, 2} :
               /\ Turn(j, "check", IF ds = 1 THEN "offline" ELSE "sleep")
               /\ misread' = (misread \/ (key # 0 /\ ds = 1))
  BY <1>0 DEF Check, GetDeviceStatus
<1>1. StatusTypeOK'
  <2>1. CASE online(j)
    BY <2>1 DEF online
  <2>2. CASE Check(j)
    <3>1. PICK ds \in {1, 2} :
            /\ Turn(j, "check", IF ds = 1 THEN "offline" ELSE "sleep")
            /\ misread' = (misread \/ (key # 0 /\ ds = 1))
      BY <1>0, <2>2, Zenon
    <3>2. /\ (IF ds = 1 THEN "offline" ELSE "sleep") \in {"offline", "sleep"}
          /\ misread' \in BOOLEAN
      BY <3>1
    <3> QED
      BY <2>2, <3>1, <3>2 DEF Check
  <2>3. CASE WakeUp(j)
    BY <2>3 DEF WakeUp
  <2>4. CASE offline(j)
    BY <2>4 DEF offline
  <2> QED
    BY <2>1, <2>2, <2>3, <2>4 DEF Watch
<1>2. /\ UNCHANGED <<key, starts, job>>
      /\ \A i \in Jobs : i # j => watcher'[i] = watcher[i]
  BY DEF Watch, online, Check, WakeUp, offline
<1>4. /\ misread => misread'
      /\ key # 0 /\ Watching(j) => Watching(j)' \/ misread'
  <2>1. CASE Check(j)
    <3>1. PICK ds \in {1, 2} :
            /\ Turn(j, "check", IF ds = 1 THEN "offline" ELSE "sleep")
            /\ misread' = (misread \/ (key # 0 /\ ds = 1))
      BY <1>0, <2>1, Zenon
    <3> QED
      BY <3>1 DEF Watching
  <2>2. CASE online(j) \/ WakeUp(j) \/ offline(j)
    BY <2>2 DEF online, WakeUp, offline, Watching
  <2> QED
    BY <2>1, <2>2 DEF Watch
<1>3. PresentIsWatched'
  BY <1>2, <1>4 DEF PresentIsWatched, Watching
<1> QED
  BY <1>1, <1>3

(* The steps of the logs, of the aggregator and of the administrator leave *)
(* the key and the goroutines alone.                                       *)
LEMMA OtherStep ==
  ASSUME IInv, UNCHANGED <<key, job, watcher, starts, misread>>, StatusTypeOK'
  PROVE  IInv'
  BY DEF IInv, PresentIsWatched, Watching

LEMMA LogStep ==
  ASSUME IInv,
         \/ \E s \in 1 .. 2 : Drop(s)
         \/ \E f \in Flushers : TakeBatch(f) \/ BatchUpdateDeviceStatusInfo(f)
  PROVE  IInv'
<1> USE DEF IInv, StatusTypeOK
<1>1. ASSUME NEW s \in 1 .. 2, Drop(s) PROVE StatusTypeOK'
  BY <1>1 DEF Drop
<1>2. ASSUME NEW f \in Flushers, TakeBatch(f) PROVE StatusTypeOK'
  <2>1. PICK S \in SUBSET (1 .. 2) :
          /\ \A s \in S : logs[s] > 0
          /\ flush' = [flush EXCEPT ![f] = S]
          /\ logs' = [s \in 1 .. 2 |-> IF s \in S THEN logs[s] - 1 ELSE logs[s]]
    BY <1>2 DEF TakeBatch
  <2>2. logs' \in [1 .. 2 -> Nat]
    BY <2>1
  <2>3. flush' \in [Flushers -> SUBSET (1 .. 2)]
    BY <2>1
  <2> QED
    BY <1>2, <2>2, <2>3 DEF TakeBatch
<1>3. ASSUME NEW f \in Flushers, NEW s \in 1 .. 2, WriteStatus(f, s) PROVE StatusTypeOK'
  <2>1. flush' \in [Flushers -> SUBSET (1 .. 2)]
    BY <1>3 DEF WriteStatus
  <2>2. row' \in 0 .. 2
    <3>1. row' \in {s, row}
      BY <1>3 DEF WriteStatus, Written
    <3> QED
      BY <3>1
  <2> QED
    BY <1>3, <2>1, <2>2 DEF WriteStatus
<1>4. StatusTypeOK' /\ UNCHANGED <<key, job, watcher, starts, misread>>
  <2>1. StatusTypeOK'
    BY <1>1, <1>2, <1>3 DEF BatchUpdateDeviceStatusInfo
  <2>2. UNCHANGED <<key, job, watcher, starts, misread>>
    BY DEF Drop, TakeBatch, BatchUpdateDeviceStatusInfo, WriteStatus
  <2> QED
    BY <2>1, <2>2
<1> QED
  BY <1>4, OtherStep

LEMMA AdminStep ==
  ASSUME IInv, Deploy \/ Undeploy
  PROVE  IInv'
<1> USE DEF Administer, Return, Ask
<1>1. UNCHANGED <<key, job, watcher, starts, misread>>
  BY DEF Deploy, DeployFinds, DeployRefused, DeployDone,
         Undeploy, UndeployFinds, UndeployFails, UndeployDone
<1>2. StatusTypeOK'
  <2> USE DEF IInv, StatusTypeOK, AdminPCs
  <2>1. CASE Deploy
    BY <2>1 DEF Deploy, DeployFinds, DeployRefused, DeployDone
  <2>2. CASE Undeploy
    BY <2>2 DEF Undeploy, UndeployFinds, UndeployFails, UndeployDone
  <2> QED
    BY <2>1, <2>2
<1> QED
  BY <1>1, <1>2, OtherStep

LEMMA IInvStep == IInv /\ [StatusNext]_statusVars => IInv'
<1> SUFFICES ASSUME IInv, [StatusNext]_statusVars PROVE IInv'
  OBVIOUS
<1>1. CASE \E j \in Jobs : GetDetail(j) \/ UpdateStatus(j) \/ Watch(j)
  BY <1>1, JobStep, WatchStep
<1>2. CASE \/ \E f \in Flushers : TakeBatch(f) \/ BatchUpdateDeviceStatusInfo(f)
           \/ \E s \in 1 .. 2 : Drop(s)
  BY <1>2, LogStep
<1>3. CASE Deploy \/ Undeploy
  BY <1>3, AdminStep
<1>4. CASE StatusExpires
  <2>1. misread' \in BOOLEAN
    BY <1>4, Zenon DEF StatusExpires
  <2>2. StatusTypeOK'
    BY <1>4, <2>1 DEF StatusExpires, IInv, StatusTypeOK
  <2>3. key' # starts'
    BY <1>4 DEF StatusExpires, IInv, StatusTypeOK
  <2> QED
    BY <2>2, <2>3 DEF IInv, PresentIsWatched
<1>5. CASE StartAnew
  <2>1. StatusTypeOK'
    BY <1>5 DEF StartAnew, IInv, StatusTypeOK, JobPCs, WatcherPCs, AdminPCs
  <2>2. PresentIsWatched'
    BY <1>5 DEF StartAnew, IInv, StatusTypeOK, PresentIsWatched
  <2> QED
    BY <2>1, <2>2 DEF IInv
<1>6. CASE UNCHANGED statusVars
  BY <1>6 DEF statusVars, IInv, StatusTypeOK, PresentIsWatched, Watching
<1> QED
  BY <1>1, <1>2, <1>3, <1>4, <1>5, <1>6 DEF StatusNext

-----------------------------------------------------------------------------
(* Every variable keeps its type.                                          *)
THEOREM StatusTypeCorrect == StatusSpec => []StatusTypeOK
<1>1. IInv => StatusTypeOK
  BY DEF IInv
<1> QED
  BY <1>1, IInvInit, IInvStep, PTL DEF StatusSpec

(* device_status.go:43-67.  The expiry of a key that this process set goes *)
(* unnoticed only when a goroutine failed to read the key, whatever else   *)
(* fails and in whatever order jobs, goroutines and expiries come.         *)
THEOREM KeysOfThisStartWatched == StatusSpec => []PresentIsWatched
<1>1. IInv => PresentIsWatched
  BY DEF IInv
<1> QED
  BY <1>1, IInvInit, IInvStep, PTL DEF StatusSpec

-----------------------------------------------------------------------------
(* The sleep of the goroutine.  Carry is what its recursion says: a        *)
(* function that satisfies the equation exists, the one made of nine       *)
(* carries computed one after the other.                                   *)
CarryStep(f, k) == IF k = 0 THEN 0 ELSE (Timeout * Factor[k] + f[k - 1]) \div 256

LEMMA CarryEquation == Carry = [k \in 0 .. 8 |-> CarryStep(Carry, k)]
<1> DEFINE T  == Timeout
           c1 == (T * Factor[1]) \div 256
           c2 == (T * Factor[2] + c1) \div 256
           c3 == (T * Factor[3] + c2) \div 256
           c4 == (T * Factor[4] + c3) \div 256
           c5 == (T * Factor[5] + c4) \div 256
           c6 == (T * Factor[6] + c5) \div 256
           c7 == (T * Factor[7] + c6) \div 256
           c8 == (T * Factor[8] + c7) \div 256
           W  == [k \in 0 .. 8 |->
                    IF k = 0 THEN 0 ELSE IF k = 1 THEN c1 ELSE IF k = 2 THEN c2
                    ELSE IF k = 3 THEN c3 ELSE IF k = 4 THEN c4 ELSE IF k = 5 THEN c5
                    ELSE IF k = 6 THEN c6 ELSE IF k = 7 THEN c7 ELSE c8]
<1>1. /\ W[0] = 0 /\ W[1] = c1 /\ W[2] = c2 /\ W[3] = c3 /\ W[4] = c4
      /\ W[5] = c5 /\ W[6] = c6 /\ W[7] = c7 /\ W[8] = c8
  <2> HIDE DEF c1, c2, c3, c4, c5, c6, c7, c8
  <2> QED
    OBVIOUS
<1>2. /\ c1 = (T * Factor[1] + W[0]) \div 256 /\ c2 = (T * Factor[2] + W[1]) \div 256
      /\ c3 = (T * Factor[3] + W[2]) \div 256 /\ c4 = (T * Factor[4] + W[3]) \div 256
      /\ c5 = (T * Factor[5] + W[4]) \div 256 /\ c6 = (T * Factor[6] + W[5]) \div 256
      /\ c7 = (T * Factor[7] + W[6]) \div 256 /\ c8 = (T * Factor[8] + W[7]) \div 256
  <2> HIDE DEF W
  <2>1. T * Factor[1] + 0 = T * Factor[1]
    BY TimeoutAssumption DEF Factor
  <2> QED
    BY <1>1, <2>1
<1>3. \A k \in 0 .. 8 : W[k] = CarryStep(W, k)
  <2> HIDE DEF c1, c2, c3, c4, c5, c6, c7, c8, W
  <2> SUFFICES ASSUME NEW k \in 0 .. 8 PROVE W[k] = CarryStep(W, k)
    OBVIOUS
  <2>1. k = 0 \/ k = 1 \/ k = 2 \/ k = 3 \/ k = 4 \/ k = 5 \/ k = 6 \/ k = 7 \/ k = 8
    OBVIOUS
  <2>2. /\ 1 - 1 = 0 /\ 2 - 1 = 1 /\ 3 - 1 = 2 /\ 4 - 1 = 3
        /\ 5 - 1 = 4 /\ 6 - 1 = 5 /\ 7 - 1 = 6 /\ 8 - 1 = 7
    OBVIOUS
  <2> QED
    BY <1>1, <1>2, <2>1, <2>2 DEF CarryStep
<1>4. W = [k \in 0 .. 8 |-> CarryStep(W, k)]
  <2> HIDE DEF c1, c2, c3, c4, c5, c6, c7, c8
  <2>1. W = [k \in 0 .. 8 |-> W[k]]
    OBVIOUS
  <2> HIDE DEF W
  <2> QED
    BY <1>3, <2>1
<1> HIDE DEF W
<1> DEFINE Chosen == CHOOSE f : f = [k \in 0 .. 8 |-> CarryStep(f, k)]
<1>5. Chosen = [k \in 0 .. 8 |-> CarryStep(Chosen, k)]
  BY <1>4
<1>6. Carry = Chosen
  BY DEF Carry, CarryStep
<1> QED
  BY <1>5, <1>6

(* The product as a signed word of 64 bits.                                *)
Second == 1000000000                  \* in nanoseconds
Word   == 18446744073709551616        \* 2^64
HalfWord == 9223372036854775808       \* 2^63, the first that is negative
Weight == 72057594037927936           \* 2^56, that of the last byte
Sleep  ==
    LET product == (Timeout * (Second * Second)) % Word
    IN  IF product < HalfWord THEN product ELSE product - Word

LEMMA DivideByByte ==
  ASSUME NEW a \in Nat
  PROVE  /\ a \div 256 \in Nat /\ a % 256 \in 0 .. 255
         /\ a = 256 * (a \div 256) + (a % 256)
  OBVIOUS

LEMMA WordRemainder ==
  ASSUME NEW q \in Nat, NEW b \in 0 .. 255, NEW low \in Nat, low < Weight
  PROVE  (Word * q + (Weight * b + low)) % Word = Weight * b + low
<1> DEFINE r == Weight * b + low
<1>1. Weight * b \in Nat /\ Weight * b <= 18374686479671623680
  BY SMT DEF Weight
<1>2. low < 72057594037927936
  BY SMT DEF Weight
<1> HIDE DEF Weight
<1>3. r \in Nat /\ r < 18446744073709551616
  BY <1>1, <1>2, SMT
<1> HIDE DEF r
<1>4. (18446744073709551616 * q + r) % 18446744073709551616 = r
  BY <1>3, SMT
<1> QED
  BY <1>4, SMT DEF r, Word

(* The carries, one by one.                                                *)
LEMMA CarryIsNat ==
  ASSUME NEW T \in Nat, NEW d \in Nat, NEW c \in Nat
  PROVE  (T * d + c) \div 256 \in Nat
<1>1. T * d \in Nat
  BY SMT
<1> DEFINE a == T * d + c
<1>2. a \in Nat
  BY <1>1
<1> HIDE DEF a
<1>3. a \div 256 \in Nat
  BY <1>2, DivideByByte
<1> QED
  BY <1>3 DEF a

LEMMA Carries ==
  /\ Carry[2] = 0 /\ \A k \in 2 .. 7 : Carry[k] \in Nat
  /\ Carry[3] = (Timeout * 100 + Carry[2]) \div 256
  /\ Carry[4] = (Timeout * 167 + Carry[3]) \div 256
  /\ Carry[5] = (Timeout * 179 + Carry[4]) \div 256
  /\ Carry[6] = (Timeout * 182 + Carry[5]) \div 256
  /\ Carry[7] = (Timeout * 224 + Carry[6]) \div 256
  /\ LastByte = (Timeout * 13 + Carry[7]) % 256
<1>0. Timeout \in Nat
  BY TimeoutAssumption
<1>1. \A k \in 0 .. 8 : Carry[k] = CarryStep(Carry, k)
  BY CarryEquation
<1>2. Carry[0] = 0
  BY <1>1 DEF CarryStep
<1>3. ASSUME NEW k \in 1 .. 8
      PROVE  Carry[k] = (Timeout * Factor[k] + Carry[k - 1]) \div 256
  BY <1>1, <1>3 DEF CarryStep
<1>4. /\ Carry[1] = (Timeout * 0 + Carry[0]) \div 256
      /\ Carry[2] = (Timeout * 0 + Carry[1]) \div 256
      /\ Carry[3] = (Timeout * 100 + Carry[2]) \div 256
      /\ Carry[4] = (Timeout * 167 + Carry[3]) \div 256
      /\ Carry[5] = (Timeout * 179 + Carry[4]) \div 256
      /\ Carry[6] = (Timeout * 182 + Carry[5]) \div 256
      /\ Carry[7] = (Timeout * 224 + Carry[6]) \div 256
  BY <1>3 DEF Factor
<1>5. Carry[1] = 0 /\ Carry[2] = 0
  <2>1. (Timeout * 0 + 0) \div 256 = 0
    BY <1>0
  <2>2. Carry[1] = 0
    BY <1>2, <1>4, <2>1
  <2> QED
    BY <1>4, <2>1, <2>2
<1>6. ASSUME NEW k \in 1 .. 8, Carry[k - 1] \in Nat
      PROVE  Carry[k] \in Nat
  <2>1. Factor[k] \in Nat
    BY DEF Factor
  <2> QED
    BY <1>0, <1>3, <1>6, <2>1, CarryIsNat
<1>7. /\ 3 - 1 = 2 /\ 4 - 1 = 3 /\ 5 - 1 = 4 /\ 6 - 1 = 5 /\ 7 - 1 = 6
      /\ \A k \in {3, 4, 5, 6, 7} : k \in 1 .. 8
  OBVIOUS
<1>8. /\ Carry[2] \in Nat => Carry[3] \in Nat
      /\ Carry[3] \in Nat => Carry[4] \in Nat
      /\ Carry[4] \in Nat => Carry[5] \in Nat
      /\ Carry[5] \in Nat => Carry[6] \in Nat
      /\ Carry[6] \in Nat => Carry[7] \in Nat
  BY <1>6, <1>7
<1>9. \A k \in 2 .. 7 : k = 2 \/ k = 3 \/ k = 4 \/ k = 5 \/ k = 6 \/ k = 7
  OBVIOUS
<1>10. \A k \in 2 .. 7 : Carry[k] \in Nat
  BY <1>5, <1>8, <1>9
<1>11. LastByte = (Timeout * 13 + Carry[7]) % 256
  BY DEF LastByte, Factor
<1> QED
  BY <1>4, <1>5, <1>10, <1>11

(* The low bytes, whatever they are, do not matter.                        *)
LEMMA LastByteOfProduct ==
  \E low \in Nat :
    /\ LastByte \in 0 .. 255
    /\ low < Weight
    /\ (Timeout * (Second * Second)) % Word = Weight * LastByte + low
<1>0. Timeout \in Nat
  BY TimeoutAssumption
<1> DEFINE T  == Timeout
           a3 == T * 100 + Carry[2]
           a4 == T * 167 + Carry[3]
           a5 == T * 179 + Carry[4]
           a6 == T * 182 + Carry[5]
           a7 == T * 224 + Carry[6]
           a8 == T * 13 + Carry[7]
<1>1. /\ Carry[2] \in Nat /\ Carry[3] \in Nat /\ Carry[4] \in Nat
      /\ Carry[5] \in Nat /\ Carry[6] \in Nat /\ Carry[7] \in Nat
  BY Carries
<1>2. a3 \in Nat /\ a4 \in Nat /\ a5 \in Nat /\ a6 \in Nat /\ a7 \in Nat /\ a8 \in Nat
  BY <1>0, <1>1
<1>3. /\ T * 100 = a3                  /\ T * 167 + Carry[3] = a4
      /\ T * 179 + Carry[4] = a5       /\ T * 182 + Carry[5] = a6
      /\ T * 224 + Carry[6] = a7       /\ T * 13 + Carry[7] = a8
  <2>1. T * 100 + 0 = T * 100
    BY <1>0
  <2> QED
    BY <2>1, Carries, Zenon
<1>4. /\ Carry[3] = a3 \div 256 /\ Carry[4] = a4 \div 256 /\ Carry[5] = a5 \div 256
      /\ Carry[6] = a6 \div 256 /\ Carry[7] = a7 \div 256 /\ LastByte = a8 % 256
  BY Carries
<1>5. T \in Nat
  BY <1>0
<1> HIDE DEF T, a3, a4, a5, a6, a7, a8
<1>6. /\ a3 = 256 * Carry[3] + (a3 % 256) /\ a3 % 256 \in 0 .. 255
      /\ a4 = 256 * Carry[4] + (a4 % 256) /\ a4 % 256 \in 0 .. 255
      /\ a5 = 256 * Carry[5] + (a5 % 256) /\ a5 % 256 \in 0 .. 255
      /\ a6 = 256 * Carry[6] + (a6 % 256) /\ a6 % 256 \in 0 .. 255
      /\ a7 = 256 * Carry[7] + (a7 % 256) /\ a7 % 256 \in 0 .. 255
  BY <1>2, <1>4, DivideByByte
<1>7. /\ a8 = 256 * (a8 \div 256) + LastByte
      /\ LastByte \in 0 .. 255 /\ a8 \div 256 \in Nat
  BY <1>2, <1>4, DivideByByte
<1> DEFINE b3 == a3 % 256
           b4 == a4 % 256
           b5 == a5 % 256
           b6 == a6 % 256
           b7 == a7 % 256
           c8 == a8 \div 256
<1>8. /\ T * 100 = 256 * Carry[3] + b3              /\ b3 \in 0 .. 255
      /\ T * 167 + Carry[3] = 256 * Carry[4] + b4   /\ b4 \in 0 .. 255
      /\ T * 179 + Carry[4] = 256 * Carry[5] + b5   /\ b5 \in 0 .. 255
      /\ T * 182 + Carry[5] = 256 * Carry[6] + b6   /\ b6 \in 0 .. 255
      /\ T * 224 + Carry[6] = 256 * Carry[7] + b7   /\ b7 \in 0 .. 255
      /\ T * 13 + Carry[7] = 256 * c8 + LastByte    /\ c8 \in Nat
  BY <1>3, <1>6, <1>7
<1> HIDE DEF b3, b4, b5, b6, b7, c8
<1> DEFINE low == 65536 * (b3 + 256 * (b4 + 256 * (b5 + 256 * (b6 + 256 * b7))))
<1>9. /\ low \in Nat /\ low < Weight
      /\ T * (Second * Second) = Word * c8 + (Weight * LastByte + low)
  <2> DEFINE d3 == Carry[3]
             d4 == Carry[4]
             d5 == Carry[5]
             d6 == Carry[6]
             d7 == Carry[7]
             b8 == LastByte
  <2>1. /\ d3 \in Nat /\ d4 \in Nat /\ d5 \in Nat /\ d6 \in Nat /\ d7 \in Nat
        /\ b3 \in 0 .. 255 /\ b4 \in 0 .. 255 /\ b5 \in 0 .. 255
        /\ b6 \in 0 .. 255 /\ b7 \in 0 .. 255 /\ b8 \in 0 .. 255 /\ c8 \in Nat
        /\ T * 100 = 256 * d3 + b3        /\ T * 167 + d3 = 256 * d4 + b4
        /\ T * 179 + d4 = 256 * d5 + b5   /\ T * 182 + d5 = 256 * d6 + b6
        /\ T * 224 + d6 = 256 * d7 + b7   /\ T * 13 + d7 = 256 * c8 + b8
    BY <1>1, <1>7, <1>8
  <2> HIDE DEF d3, d4, d5, d6, d7, b8
  <2>2. low \in Nat /\ low < Weight
    BY <1>8, SMT DEF Weight
  <2>3. T * (Second * Second) = Word * c8 + (Weight * b8 + low)
    BY <1>5, <2>1, SMT DEF Weight, Word, Second
  <2> QED
    BY <2>2, <2>3 DEF b8
<1> HIDE DEF low
<1>10. (Word * c8 + (Weight * LastByte + low)) % Word
        = Weight * LastByte + low
  <2>1. c8 \in Nat /\ LastByte \in 0 .. 255 /\ low \in Nat /\ low < Weight
    BY <1>7, <1>8, <1>9
  <2> QED
    BY <2>1, WordRemainder, Zenon
<1>11. (T * (Second * Second)) % Word = Weight * LastByte + low
  BY <1>9, <1>10, Zenon
<1> QED
  BY <1>7, <1>9, <1>11, Zenon DEF T

(* device_status.go:64.  The goroutine wakes up again exactly when the     *)
(* product, as the code multiplies it, is negative or below 2^56           *)
(* nanoseconds, which is 2.3 years: for every timeout.                     *)
THEOREM WakesInTime == Wakes <=> Sleep < Weight
<1>1. PICK low \in Nat :
        /\ LastByte \in 0 .. 255
        /\ low < Weight
        /\ (Timeout * (Second * Second)) % Word = Weight * LastByte + low
  BY LastByteOfProduct, Zenon
<1> DEFINE product == (Timeout * (Second * Second)) % Word
           b       == LastByte
<1>2. b \in 0 .. 255 /\ product = Weight * b + low
  BY <1>1, Zenon
<1>3. Sleep = IF product < HalfWord THEN product ELSE product - Word
  BY Zenon DEF Sleep
<1>4. Wakes <=> b = 0 \/ b >= 128
  BY Zenon DEF Wakes
<1> HIDE DEF product, b
<1>5. Sleep < Weight <=> b = 0 \/ b >= 128
  BY <1>1, <1>2, <1>3, SMT DEF Weight, Word, HalfWord
<1> QED
  BY <1>4, <1>5, Zenon

(* Twice the timeout may be worse than none: what wakes up after 30        *)
(* seconds, because the product is negative, sleeps for years after 60.    *)
LEMMA ThirtyAndSixty ==
  /\ Timeout = 30 => Wakes
  /\ Timeout = 60 => ~ Wakes
<1>1. ASSUME Timeout = 30 PROVE LastByte = 160
  <2>1. Carry[3] = 11
    BY <1>1, Carries
  <2>2. Carry[4] = 19
    BY <1>1, <2>1, Carries
  <2>3. Carry[5] = 21
    BY <1>1, <2>2, Carries
  <2>4. Carry[6] = 21
    BY <1>1, <2>3, Carries
  <2>5. Carry[7] = 26
    BY <1>1, <2>4, Carries
  <2> QED
    BY <1>1, <2>5, Carries
<1>2. ASSUME Timeout = 60 PROVE LastByte = 64
  <2>1. Carry[3] = 23
    BY <1>2, Carries
  <2>2. Carry[4] = 39
    BY <1>2, <2>1, Carries
  <2>3. Carry[5] = 42
    BY <1>2, <2>2, Carries
  <2>4. Carry[6] = 42
    BY <1>2, <2>3, Carries
  <2>5. Carry[7] = 52
    BY <1>2, <2>4, Carries
  <2> QED
    BY <1>2, <2>5, Carries
<1> QED
  BY <1>1, <1>2 DEF Wakes

(* With such a timeout a goroutine that found the device on line once does *)
(* not look again, and never reports it off line, before the process       *)
(* starts anew.                                                            *)
SleepsOn ==
  \A j \in Jobs : watcher[j] = "sleep" /\ starts' = starts => watcher'[j] = "sleep"

(* A job starts its goroutine last.                                        *)
SpawnedLast == \A j \in Jobs : job[j] # "done" => watcher[j] = "none"

LEMMA SpawnedLastInit == StatusInit => SpawnedLast
  BY DEF StatusInit, SpawnedLast

LEMMA SpawnedLastStep ==
  ASSUME StatusTypeOK, SpawnedLast, [StatusNext]_statusVars
  PROVE  SpawnedLast'
<1> USE DEF StatusTypeOK, SpawnedLast
<1>1. ASSUME NEW i \in Jobs, GetDetail(i) \/ UpdateStatus(i) PROVE SpawnedLast'
  <2>1. job[i] # "done" /\ \A j \in Jobs : j # i => job'[j] = job[j]
    BY <1>1 DEF GetDetail, UpdateStatus, GetStatus, UpdateExpire, SetKey, Spawn
  <2>2. \/ watcher' = watcher
        \/ job'[i] = "done" /\ \A j \in Jobs : j # i => watcher'[j] = watcher[j]
    BY <1>1 DEF GetDetail, UpdateStatus, GetStatus, UpdateExpire, SetKey, Spawn
  <2> QED
    BY <2>1, <2>2
<1>2. ASSUME NEW i \in Jobs, Watch(i) PROVE SpawnedLast'
  BY <1>2 DEF Watch, online, Check, WakeUp, offline, Turn
<1>3. CASE StartAnew
  BY <1>3 DEF StartAnew
<1>4. ASSUME UNCHANGED <<job, watcher>> PROVE SpawnedLast'
  BY <1>4
<1>5. CASE \/ \E f \in Flushers : TakeBatch(f) \/ BatchUpdateDeviceStatusInfo(f)
           \/ \E s \in 1 .. 2 : Drop(s)
           \/ StatusExpires \/ UNCHANGED statusVars
  BY <1>4, <1>5
     DEF TakeBatch, BatchUpdateDeviceStatusInfo, WriteStatus, Drop, StatusExpires, statusVars
<1>6. CASE Deploy \/ Undeploy
  BY <1>4, <1>6
     DEF Deploy, DeployFinds, DeployRefused, DeployDone, Administer, Return, Ask,
         Undeploy, UndeployFinds, UndeployFails, UndeployDone
<1> QED
  BY <1>1, <1>2, <1>3, <1>5, <1>6 DEF StatusNext

LEMMA SleepsOnStep ==
  ASSUME StatusTypeOK, SpawnedLast, ~ Wakes, [StatusNext]_statusVars
  PROVE  SleepsOn
<1> USE DEF StatusTypeOK
<1>1. ASSUME NEW i \in Jobs, GetDetail(i) \/ UpdateStatus(i) PROVE SleepsOn
  <2>1. \A j \in Jobs : watcher'[j] = watcher[j] \/ job[j] = "spawn"
    BY <1>1 DEF GetDetail, UpdateStatus, GetStatus, UpdateExpire, SetKey, Spawn
  <2> QED
    BY <2>1 DEF SleepsOn, SpawnedLast
<1>2. ASSUME NEW i \in Jobs, Watch(i) PROVE SleepsOn
  <2>1. ~ WakeUp(i)
    BY DEF WakeUp
  <2>2. watcher[i] # "sleep" /\ \A j \in Jobs : j # i => watcher'[j] = watcher[j]
    BY <1>2, <2>1 DEF Watch, online, Check, offline, Turn
  <2> QED
    BY <2>2 DEF SleepsOn
<1>3. CASE StartAnew
  BY <1>3 DEF StartAnew, SleepsOn
<1>4. ASSUME UNCHANGED watcher PROVE SleepsOn
  BY <1>4 DEF SleepsOn
<1>5. CASE \/ \E f \in Flushers : TakeBatch(f) \/ BatchUpdateDeviceStatusInfo(f)
           \/ \E s \in 1 .. 2 : Drop(s)
           \/ StatusExpires \/ UNCHANGED statusVars
  BY <1>4, <1>5
     DEF TakeBatch, BatchUpdateDeviceStatusInfo, WriteStatus, Drop, StatusExpires, statusVars
<1>6. CASE Deploy \/ Undeploy
  BY <1>4, <1>6
     DEF Deploy, DeployFinds, DeployRefused, DeployDone, Administer, Return, Ask,
         Undeploy, UndeployFinds, UndeployFails, UndeployDone
<1> QED
  BY <1>1, <1>2, <1>3, <1>5, <1>6 DEF StatusNext

(* At a timeout of 60 seconds a goroutine that looked at the key once does *)
(* not look again (device_status.go:64).                                   *)
THEOREM SixtySleepsOn ==
  ASSUME Timeout = 60
  PROVE  StatusSpec => [][SleepsOn]_statusVars
<1>1. ~ Wakes
  BY ThirtyAndSixty
<1>2. StatusTypeOK /\ SpawnedLast /\ [StatusNext]_statusVars => SleepsOn /\ SpawnedLast'
  BY <1>1, SleepsOnStep, SpawnedLastStep
<1> QED
  BY <1>2, SpawnedLastInit, StatusTypeCorrect, PTL DEF StatusSpec

-----------------------------------------------------------------------------
(* OnlyDeployEnables does not hold: reports under way when the device is   *)
(* disabled enable it again.  It does hold from the moment on when nothing *)
(* of the device is under way, for messages that HandleMessage receives:   *)
(* those of a gateway's batch are not asked whether the device is enabled. *)
Silenced ==
  /\ row = 0 /\ detail = "disabled"
  /\ \A j \in Jobs : job[j] \in {"new", "done"} /\ watcher[j] \in {"none", "ended"}
  /\ \A s \in 1 .. 2 : logs[s] = 0
  /\ \A f \in Flushers : flush[f] = {}

OnlyDeployBreaksSilence == Silenced /\ ~ Silenced' => admin = "deploying"

LEMMA SilencedStep ==
  ASSUME GatewayJobs = {}, StatusTypeOK, Silenced, [StatusNext]_statusVars, admin # "deploying"
  PROVE  Silenced'
<1> USE DEF StatusTypeOK
<1>1. ASSUME NEW j \in Jobs, GetDetail(j) PROVE Silenced'
  <2>1. job' = [job EXCEPT ![j] = "done"]
    BY <1>1 DEF GetDetail, Silenced
  <2> QED
    BY <1>1, <2>1 DEF GetDetail, Silenced
<1>2. ASSUME NEW j \in Jobs PROVE ~ UpdateStatus(j) /\ ~ Watch(j)
  BY <1>2 DEF Silenced, UpdateStatus, GetStatus, UpdateExpire, SetKey, Spawn,
              Watch, online, Check, WakeUp, offline, Turn
<1>3. ASSUME NEW s \in 1 .. 2 PROVE ~ Drop(s)
  BY <1>3 DEF Silenced, Drop
<1>4. ASSUME NEW f \in Flushers PROVE ~ TakeBatch(f) /\ ~ BatchUpdateDeviceStatusInfo(f)
  <2>1. ~ TakeBatch(f)
    <3> SUFFICES ASSUME NEW S \in (SUBSET (1 .. 2)) \ {{}}, \A s \in S : logs[s] > 0
                 PROVE  FALSE
      BY DEF TakeBatch
    <3>1. PICK s \in 1 .. 2 : s \in S
      <4>1. S # {} /\ \A s \in S : s \in 1 .. 2
        BY Zenon
      <4> QED
        BY <4>1, Zenon
    <3>2. logs[s] > 0 /\ logs[s] = 0
      BY <3>1 DEF Silenced
    <3> QED
      BY <3>2
  <2>2. ~ BatchUpdateDeviceStatusInfo(f)
    BY DEF BatchUpdateDeviceStatusInfo, WriteStatus, Silenced
  <2> QED
    BY <2>1, <2>2
<1>5. CASE StatusExpires \/ UNCHANGED statusVars
  BY <1>5 DEF StatusExpires, statusVars, Silenced
<1>6. CASE Deploy \/ Undeploy
  <2>1. UNCHANGED <<job, watcher, logs, flush>>
    BY <1>6 DEF Deploy, DeployFinds, DeployRefused, DeployDone, Administer, Return, Ask,
                Undeploy, UndeployFinds, UndeployFails, UndeployDone
  <2>2. row' = 0 /\ detail' = "disabled"
    BY <1>6 DEF Deploy, DeployFinds, DeployRefused, DeployDone, Administer, Return, Ask,
                Undeploy, UndeployFinds, UndeployFails, UndeployDone, Silenced
  <2> QED
    BY <2>1, <2>2 DEF Silenced
<1>7. CASE StartAnew
  <2>1. row' = 0 /\ detail' = "disabled" /\ UNCHANGED logs
    BY <1>7 DEF StartAnew, Silenced
  <2>2. \A j \in Jobs : job'[j] \in {"new", "done"} /\ watcher'[j] \in {"none", "ended"}
    BY <1>7 DEF StartAnew, Silenced
  <2>3. \A f \in Flushers : flush'[f] = {}
    BY <1>7 DEF StartAnew
  <2> QED
    BY <2>1, <2>2, <2>3 DEF Silenced
<1> QED
  BY <1>1, <1>2, <1>3, <1>4, <1>5, <1>6, <1>7 DEF StatusNext

(* Without gateways, a device disabled while nothing of it is under way    *)
(* stays disabled until it is deployed (dev_device_status.go:88).          *)
THEOREM SilenceLasts ==
  ASSUME GatewayJobs = {}
  PROVE  StatusSpec => [][OnlyDeployBreaksSilence]_statusVars
<1>1. StatusTypeOK /\ [StatusNext]_statusVars => OnlyDeployBreaksSilence
  BY SilencedStep DEF OnlyDeployBreaksSilence
<1> QED
  BY <1>1, StatusTypeCorrect, PTL DEF StatusSpec
=============================================================================
