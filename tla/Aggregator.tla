----------------------------- MODULE Aggregator ------------------------------
(***************************************************************************)
(* pkg/channelx: an aggregator collects items from a buffered channel into *)
(* batches, one per worker goroutine, and hands a batch to the processor   *)
(* when it is full, when the linger timer fires, or when the aggregator is *)
(* stopped.  The platform puts device data, device status logs, alarm logs *)
(* and operation logs through one each (internal/queues).                  *)
(***************************************************************************)
EXTENDS Integers, Sequences, FiniteSets

CONSTANTS
    Items,              \* the calls of the enqueue operations, one item each
    Blocking,           \* the items offered with Enqueue, not EnqueueWithRetry
    Workers,
    BatchSize,
    ChannelBufferSize,
    MaxRetries

ASSUME ItemsAssumption == IsFiniteSet(Items) /\ Blocking \subseteq Items
ASSUME WorkersAssumption == IsFiniteSet(Workers) /\ Workers # {}
ASSUME SizesAssumption ==
    /\ BatchSize \in Nat /\ BatchSize > 0
    /\ ChannelBufferSize \in Nat
    /\ MaxRetries \in Nat

VARIABLES
    offer,       \* offer[i]: where the call that offers item i is
    tries,       \* tries[i]: attempts of EnqueueWithRetry so far
    eventQueue,
    batch,       \* batch[w]: the slice worker w fills
    pc,          \* pc[w]: where worker w is
    handed,      \* handed[i]: calls of the batch processor that got item i
    wg,          \* the WaitGroup's counter
    stop         \* where the goroutine that calls Stop or SafeStop is

producing == <<offer, tries>>
vars == <<producing, eventQueue, batch, pc, handed, wg, stop>>

(* NewAggregator gives each worker at least one place in the channel. *)
Buffer ==
    IF ChannelBufferSize < Cardinality(Workers)
    THEN Cardinality(Workers) ELSE ChannelBufferSize

Offers  == {"new", "again", "backoff", "accepted", "refused"}
PCs     == {"select", "flush", "flushed", "undone",
            "lastFlush", "lastFlushed", "lastUndone", "leave", "left"}
Stops   == {"no", "closed", "waiting", "woken", "returned", "panicked"}

TypeOK ==
    /\ offer \in [Items -> Offers]
    /\ tries \in [Items -> 0 .. MaxRetries]
    /\ eventQueue \in Seq(Items) /\ Len(eventQueue) <= Buffer
    /\ batch \in [Workers -> Seq(Items)]
    /\ \A w \in Workers : Len(batch[w]) <= BatchSize
    /\ pc \in [Workers -> PCs]
    /\ handed \in [Items -> Nat]
    /\ wg \in Int
    /\ stop \in Stops

Up   == stop # "panicked"
Quit == stop # "no"          \* agt.quit is closed

Init ==
    /\ offer = [i \in Items |-> "new"]
    /\ tries = [i \in Items |-> 0]
    /\ eventQueue = <<>>
    /\ batch = [w \in Workers |-> <<>>]
    /\ pc = [w \in Workers |-> "select"]
    /\ handed = [i \in Items |-> 0]
    /\ wg = Cardinality(Workers)
    /\ stop = "no"

-----------------------------------------------------------------------------
(* The producers. *)

Step(i, from, to) ==
    /\ Up
    /\ offer[i] = from
    /\ offer' = [offer EXCEPT ![i] = to]

Send(i, from) ==
    /\ Step(i, from, "accepted")
    /\ Len(eventQueue) < Buffer
    /\ eventQueue' = Append(eventQueue, i)
    /\ UNCHANGED <<tries, batch, pc, handed, wg, stop>>

Full(i, from, to) ==
    /\ Len(eventQueue) = Buffer
    /\ Step(i, from, to)
    /\ UNCHANGED <<eventQueue, batch, pc, handed, wg, stop>>

(* Two attempts, with a Gosched between them. *)
TryEnqueue(i) ==
    \/ Send(i, "new")
    \/ Full(i, "new", "again") /\ UNCHANGED tries
    \/ Send(i, "again")
    \/ Full(i, "again", "backoff") /\ tries' = [tries EXCEPT ![i] = @ + 1]

(* As a bug: attempts are not counted. *)
BackoffForever(i) ==
    /\ Step(i, "backoff", "new")
    /\ tries' = [tries EXCEPT ![i] = 0]
    /\ UNCHANGED <<eventQueue, batch, pc, handed, wg, stop>>

(* The call also sleeps after its last attempt. *)
Backoff(i) ==
    /\ Step(i, "backoff", IF tries[i] < MaxRetries THEN "new" ELSE "refused")
    /\ UNCHANGED <<tries, eventQueue, batch, pc, handed, wg, stop>>

EnqueueWithRetry(i) ==
    /\ i \notin Blocking
    /\ \/ MaxRetries > 0 /\ TryEnqueue(i)
       \/ Backoff(i)
       \/ /\ MaxRetries = 0 /\ Step(i, "new", "refused")
          /\ UNCHANGED <<tries, eventQueue, batch, pc, handed, wg, stop>>

(* Blocks while the channel is full and the aggregator is not stopped. *)
Enqueue(i) ==
    /\ i \in Blocking
    /\ \/ Send(i, "new")
       \/ /\ Quit /\ Step(i, "new", "refused")
          /\ UNCHANGED <<tries, eventQueue, batch, pc, handed, wg, stop>>

-----------------------------------------------------------------------------
(* A worker.  Its slice is its own, so clearing it is one step with the    *)
(* return of the batch processor.                                          *)

Goes(w, from, to) ==
    /\ Up
    /\ pc[w] = from
    /\ pc' = [pc EXCEPT ![w] = to]

(* As a bug: the length is compared before the item is appended. *)
TakeComparesEarly(w) ==
    /\ eventQueue # <<>>
    /\ eventQueue' = Tail(eventQueue)
    /\ batch' = [batch EXCEPT ![w] = Append(@, Head(eventQueue))]
    /\ Goes(w, "select", IF Len(batch[w]) = BatchSize THEN "flush" ELSE "select")
    /\ UNCHANGED <<producing, handed, wg, stop>>

Take(w) ==
    /\ eventQueue # <<>>
    /\ eventQueue' = Tail(eventQueue)
    /\ batch' = [batch EXCEPT ![w] = Append(@, Head(eventQueue))]
    /\ Goes(w, "select", IF Len(batch[w]) + 1 = BatchSize THEN "flush" ELSE "select")
    /\ UNCHANGED <<producing, handed, wg, stop>>

(* As a bug: the timer does not flush a batch that is not full. *)
LingerUntilFull(w) ==
    /\ Len(batch[w]) = BatchSize
    /\ Goes(w, "select", "flush")
    /\ UNCHANGED <<producing, eventQueue, batch, handed, wg, stop>>

(* lingerTimer fires; with an empty batch it is only set again. *)
Linger(w) ==
    /\ batch[w] # <<>>
    /\ Goes(w, "select", "flush")
    /\ UNCHANGED <<producing, eventQueue, batch, handed, wg, stop>>

(* As a bug: quit is obeyed without flushing the batch. *)
SeeQuitDropsBatch(w) ==
    /\ Quit
    /\ Goes(w, "select", "leave")
    /\ batch' = [batch EXCEPT ![w] = <<>>]
    /\ UNCHANGED <<producing, eventQueue, handed, wg, stop>>

(* As a bug: quit is only looked at when there is something to flush. *)
SeeQuitWhenFilled(w) ==
    /\ Quit /\ batch[w] # <<>>
    /\ Goes(w, "select", "lastFlush")
    /\ UNCHANGED <<producing, eventQueue, batch, handed, wg, stop>>

SeeQuit(w) ==
    /\ Quit
    /\ Goes(w, "select", IF batch[w] # <<>> THEN "lastFlush" ELSE "leave")
    /\ UNCHANGED <<producing, eventQueue, batch, handed, wg, stop>>

Includes(s, i) == \E k \in 1 .. Len(s) : s[k] = i

(* As a bug: the batch is not cleared after it was processed. *)
ProcessKeepBatch(w, from, to) ==
    /\ Goes(w, from, to)
    /\ handed' = [i \in Items |->
                    handed[i] + IF Includes(batch[w], i) THEN 1 ELSE 0]
    /\ UNCHANGED <<producing, eventQueue, batch, wg, stop>>

(* agt.batchProcessor(items): if it fails the error goes to the logger and *)
(* to the error handler, and the platform sets neither.                    *)
Process(w, from, to) ==
    /\ Goes(w, from, to)
    /\ handed' = [i \in Items |->
                    handed[i] + IF Includes(batch[w], i) THEN 1 ELSE 0]
    /\ batch' = [batch EXCEPT ![w] = <<>>]
    /\ UNCHANGED <<producing, eventQueue, wg, stop>>

(* wg.Done: reaching zero wakes the caller of Wait. *)
Done(w, from, to) ==
    /\ Goes(w, from, to)
    /\ wg' = wg - 1
    /\ stop' = IF wg = 1 /\ stop = "waiting" THEN "woken" ELSE stop
    /\ UNCHANGED <<producing, eventQueue, batch, handed>>

Add(w, from, to) ==
    /\ Goes(w, from, to)
    /\ wg' = wg + 1
    /\ UNCHANGED <<producing, eventQueue, batch, handed, stop>>

(* The deferred calls of processBatch run in reverse: Done, then Add(1). *)
processBatch(w) ==
    \/ Process(w, "flush", "flushed")
    \/ Done(w, "flushed", "undone")
    \/ Add(w, "undone", "select")
    \/ Process(w, "lastFlush", "lastFlushed")
    \/ Done(w, "lastFlushed", "lastUndone")
    \/ Add(w, "lastUndone", "leave")

work(w) ==
    \/ Take(w) \/ Linger(w) \/ SeeQuit(w)
    \/ processBatch(w)
    \/ Done(w, "leave", "left")

-----------------------------------------------------------------------------
(* Stop and SafeStop are the same two lines, called once. *)

CloseQuit ==
    /\ stop = "no"
    /\ stop' = "closed"

CallWait ==
    /\ stop = "closed"
    /\ stop' = IF wg = 0 THEN "returned" ELSE "waiting"

(* A woken Wait that finds the counter in use again panics. *)
ReturnFromWait ==
    /\ stop = "woken"
    /\ stop' = IF wg = 0 THEN "returned" ELSE "panicked"

SafeStop ==
    /\ CloseQuit \/ CallWait \/ ReturnFromWait
    /\ UNCHANGED <<producing, eventQueue, batch, pc, handed, wg>>

Next ==
    \/ \E i \in Items : EnqueueWithRetry(i) \/ Enqueue(i)
    \/ \E w \in Workers : work(w)
    \/ SafeStop

Spec == Init /\ [][Next]_vars

(* Goroutines are scheduled, timers fire and the batch processor returns.  *)
(* Nobody need call Stop, and nothing is assumed of the choice a select    *)
(* makes between ready arms.                                               *)
AggregatorFairness ==
    /\ \A i \in Items : WF_vars(Enqueue(i)) /\ WF_vars(EnqueueWithRetry(i))
    /\ \A w \in Workers : WF_vars(work(w))
    /\ WF_vars((CallWait \/ ReturnFromWait) /\ SafeStop)

-----------------------------------------------------------------------------
InQueue(i) == Includes(eventQueue, i)

(* The batch of a worker that has yet to hand it over. *)
InBatch(i, w) == pc[w] \in {"select", "flush", "lastFlush"} /\ Includes(batch[w], i)

Distinct(s) == \A k, l \in 1 .. Len(s) : s[k] = s[l] => k = l

AtMostOnePlace(i) ==
    /\ handed[i] <= 1
    /\ handed[i] = 1 => ~InQueue(i) /\ \A w \in Workers : ~InBatch(i, w)
    /\ InQueue(i) => \A w \in Workers : ~InBatch(i, w)
    /\ \A v, w \in Workers : InBatch(i, v) /\ InBatch(i, w) => v = w

(* Every accepted item is in exactly one place: in the channel, in the     *)
(* batch of one worker that will still hand it over, or with the processor *)
(* it was handed to once.  No batch is handed over twice or dropped, also  *)
(* when its worker quits.                                                  *)
Conserved ==
    /\ Distinct(eventQueue)
    /\ \A w \in Workers : Distinct(batch[w])
    /\ \A i \in Items :
         /\ AtMostOnePlace(i)
         /\ offer[i] = "accepted"
              <=> \/ handed[i] = 1 \/ InQueue(i)
                  \/ \E w \in Workers : InBatch(i, w)

(* Every call of an enqueue operation returns (unless the process died):   *)
(* the asynq handlers that offer the items do not hang.                    *)
OffersEnd ==
    \A i \in Items : <>(offer[i] \in {"accepted", "refused"} \/ ~Up)

(* An item that was accepted is handed over, however few items follow it,  *)
(* unless the aggregator is stopped.                                       *)
AcceptedIsHanded ==
    \A i \in Items : offer[i] = "accepted" ~> (handed[i] = 1 \/ Quit)

(* Stop ends: it brings the process down (Wait may find its counter in use *)
(* again), or it returns, before its workers or after them, and every      *)
(* worker leaves with its batch handed over, however the workers' two      *)
(* calls on the counter interleave with each other and with Wait.          *)
StopEnds ==
    Quit ~> \/ stop = "panicked"
            \/ /\ stop = "returned"
               /\ \A w \in Workers : pc[w] = "left" /\ batch[w] = <<>>

(* aggregator.go:129 says that every item is processed when SafeStop       *)
(* returns, :132 that every worker has left: one of both, at least.        *)
StopIsSafe ==
    [][stop # "returned" /\ stop' = "returned" =>
         \/ \A w \in Workers : pc[w] = "left"
         \/ \A i \in Items : offer[i] = "accepted" => handed[i] = 1]_vars

(* The aggregator keeps the promise of BatchBuffer. *)
Buffered == INSTANCE BatchBuffer WITH
    fate <- [i \in Items |->
               IF handed[i] > 1 THEN "repeated"
               ELSE IF handed[i] = 1 THEN "handed"
               ELSE IF offer[i] \in {"accepted", "refused"} THEN offer[i]
               ELSE "offered"]
ImplementsBuffer == Buffered!Spec
=============================================================================
