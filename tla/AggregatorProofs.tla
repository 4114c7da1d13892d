--------------------------- MODULE AggregatorProofs --------------------------
(***************************************************************************)
(* TLAPS proofs about Aggregator, for any number of items and workers, any *)
(* sizes of batch and channel, and any number of retries.                  *)
(***************************************************************************)
EXTENDS Aggregator, FiniteSetTheorems, TLAPS

Live == {"select", "flush", "lastFlush"}

(* A worker is never left with a full batch in its select, and a batch is  *)
(* empty once its worker handed it over.                                   *)
BatchAtPC ==
    \A w \in Workers :
      /\ pc[w] = "select" => Len(batch[w]) < BatchSize
      /\ pc[w] \in {"flush", "lastFlush"} => batch[w] # <<>>
      /\ pc[w] \notin Live => batch[w] = <<>>

(* A call that is about to try has attempts left. *)
TriesLeft ==
    \A i \in Items :
      offer[i] \in {"new", "again"} /\ MaxRetries > 0 => tries[i] < MaxRetries

IInv == TypeOK /\ BatchAtPC /\ TriesLeft /\ Conserved

-----------------------------------------------------------------------------
(* What Append, Tail and the empty sequence do to the items of a sequence. *)

LEMMA AppendIncludes ==
  ASSUME NEW s \in Seq(Items), NEW i \in Items, NEW j \in Items
  PROVE  Includes(Append(s, j), i) <=> Includes(s, i) \/ i = j
<1>1. /\ Len(Append(s, j)) = Len(s) + 1 /\ Len(s) \in Nat
      /\ \A k \in 1 .. Len(s) : Append(s, j)[k] = s[k]
      /\ Append(s, j)[Len(s) + 1] = j
  OBVIOUS
<1>2. \A k \in 1 .. Len(s) + 1 : k \in 1 .. Len(s) \/ k = Len(s) + 1
  BY <1>1
<1>3. Len(s) + 1 \in 1 .. Len(s) + 1 /\ 1 .. Len(s) \subseteq 1 .. Len(s) + 1
  BY <1>1
<1> QED
  BY <1>1, <1>2, <1>3 DEF Includes

LEMMA AppendDistinct ==
  ASSUME NEW s \in Seq(Items), NEW j \in Items, Distinct(s), ~Includes(s, j)
  PROVE  Distinct(Append(s, j))
<1>1. /\ Len(Append(s, j)) = Len(s) + 1 /\ Len(s) \in Nat
      /\ \A k \in 1 .. Len(s) : Append(s, j)[k] = s[k]
      /\ Append(s, j)[Len(s) + 1] = j
  OBVIOUS
<1>2. \A k \in 1 .. Len(s) + 1 : k \in 1 .. Len(s) \/ k = Len(s) + 1
  BY <1>1
<1> QED
  BY <1>1, <1>2 DEF Includes, Distinct

LEMMA TailIncludes ==
  ASSUME NEW s \in Seq(Items), s # <<>>, Distinct(s), NEW i \in Items
  PROVE  /\ Includes(Tail(s), i) <=> Includes(s, i) /\ i # Head(s)
         /\ Includes(s, Head(s))
         /\ Distinct(Tail(s))
         /\ Head(s) \in Items
<1>1. /\ Len(s) \in Nat /\ Len(s) > 0 /\ Head(s) = s[1]
      /\ Len(Tail(s)) = Len(s) - 1
      /\ \A k \in 1 .. Len(s) - 1 : Tail(s)[k] = s[k + 1]
  OBVIOUS
<1>2. \A k \in 1 .. Len(s) - 1 : k + 1 \in 1 .. Len(s) /\ k + 1 # 1
  BY <1>1
<1>3. \A k \in 1 .. Len(s) : k = 1 \/ (k - 1 \in 1 .. Len(s) - 1 /\ (k - 1) + 1 = k)
  BY <1>1
<1>4. 1 \in 1 .. Len(s)
  BY <1>1
<1>5. Includes(Tail(s), i) => Includes(s, i) /\ i # Head(s)
  BY <1>1, <1>2, <1>4 DEF Includes, Distinct
<1>6. Includes(s, i) /\ i # Head(s) => Includes(Tail(s), i)
  BY <1>1, <1>3 DEF Includes
<1>7. Distinct(Tail(s))
  <2> SUFFICES ASSUME NEW k \in 1 .. Len(s) - 1, NEW l \in 1 .. Len(s) - 1,
                      Tail(s)[k] = Tail(s)[l]
               PROVE  k = l
    BY <1>1 DEF Distinct
  <2>1. k + 1 = l + 1
    BY <1>1, <1>2 DEF Distinct
  <2> QED
    BY <2>1
<1> QED
  BY <1>1, <1>4, <1>5, <1>6, <1>7 DEF Includes

LEMMA EmptyIncludesNone == \A i : ~Includes(<<>>, i) /\ Distinct(<<>>)
  BY DEF Includes, Distinct

-----------------------------------------------------------------------------
LEMMA IInvInit == Init => IInv
<1> SUFFICES ASSUME Init PROVE IInv
  OBVIOUS
<1>1. Cardinality(Workers) \in Nat
  BY WorkersAssumption, FS_CardinalityType
<1>2. TypeOK
  BY <1>1, SizesAssumption DEF Init, TypeOK, Offers, PCs, Stops, Buffer
<1>3. BatchAtPC /\ TriesLeft
  BY SizesAssumption DEF Init, BatchAtPC, TriesLeft, Live
<1>4. Conserved
  BY EmptyIncludesNone DEF Init, Conserved, AtMostOnePlace, InQueue, InBatch
<1> QED
  BY <1>2, <1>3, <1>4 DEF IInv

LEMMA BufferType == Buffer \in Nat
  BY WorkersAssumption, SizesAssumption, FS_CardinalityType DEF Buffer

(* A call that sends its item. *)
LEMMA SendStep ==
  ASSUME IInv, NEW i \in Items, NEW from \in {"new", "again"}, Send(i, from)
  PROVE  IInv'
<1> USE DEF Send, Step
<1>0. TypeOK /\ BatchAtPC /\ TriesLeft /\ Conserved
  BY DEF IInv
<1>1. /\ offer \in [Items -> Offers] /\ eventQueue \in Seq(Items)
      /\ offer[i] # "accepted" /\ ~InQueue(i) /\ handed[i] # 1
      /\ \A w \in Workers : ~InBatch(i, w)
  BY <1>0 DEF TypeOK, Conserved
<1>2. TypeOK'
  <2>1. /\ eventQueue' \in Seq(Items)
        /\ Len(eventQueue') = Len(eventQueue) + 1 /\ Len(eventQueue) \in Nat
    BY <1>1
  <2>2. Len(eventQueue') <= Buffer'
    BY <2>1, BufferType DEF Buffer
  <2>3. offer' \in [Items -> Offers]
    BY <1>1 DEF Offers
  <2> QED
    BY <1>0, <2>1, <2>2, <2>3 DEF TypeOK
<1>3. BatchAtPC'
  BY <1>0 DEF BatchAtPC
<1>4. TriesLeft'
  BY <1>0, <1>1 DEF TriesLeft
<1>5. \A j \in Items : InQueue(j)' <=> InQueue(j) \/ j = i
  BY <1>1, AppendIncludes DEF InQueue
<1>6. \A j \in Items, w \in Workers : InBatch(j, w)' <=> InBatch(j, w)
  BY DEF InBatch
<1>7. \A j \in Items : offer'[j] = "accepted" <=> offer[j] = "accepted" \/ j = i
  BY <1>1
<1>8. Distinct(eventQueue)'
  BY <1>0, <1>1, AppendDistinct DEF Conserved, InQueue
<1>9. \A j \in Items : AtMostOnePlace(j)'
  BY <1>0, <1>1, <1>5, <1>6 DEF Conserved, AtMostOnePlace
<1>10. Conserved'
  BY <1>0, <1>1, <1>5, <1>6, <1>7, <1>8, <1>9 DEF Conserved
<1> QED
  BY <1>2, <1>3, <1>4, <1>10 DEF IInv

(* A call that does not accept its item leaves everything else in place. *)
LEMMA OfferStep ==
  ASSUME IInv, NEW i \in Items, NEW to \in Offers \ {"accepted"},
         offer[i] # "accepted", offer' = [offer EXCEPT ![i] = to],
         UNCHANGED <<eventQueue, batch, pc, handed, wg, stop>>,
         tries' \in [Items -> 0 .. MaxRetries], TriesLeft'
  PROVE  IInv'
<1>0. TypeOK /\ BatchAtPC /\ Conserved
  BY DEF IInv
<1>1. TypeOK'
  BY <1>0 DEF TypeOK, Buffer
<1>2. BatchAtPC'
  BY <1>0 DEF BatchAtPC
<1>3. \A j \in Items : offer'[j] = "accepted" <=> offer[j] = "accepted"
  BY <1>0 DEF TypeOK
<1>4. /\ \A j \in Items : InQueue(j)' <=> InQueue(j)
      /\ \A j \in Items, w \in Workers : InBatch(j, w)' <=> InBatch(j, w)
  BY DEF InQueue, InBatch
<1>5. Conserved'
  BY <1>0, <1>3, <1>4 DEF Conserved, AtMostOnePlace
<1> QED
  BY <1>1, <1>2, <1>5 DEF IInv

LEMMA OffersStep ==
  ASSUME IInv, NEW i \in Items, EnqueueWithRetry(i) \/ Enqueue(i)
  PROVE  IInv'
<1> USE DEF Step, Full
<1>0. /\ offer \in [Items -> Offers] /\ tries \in [Items -> 0 .. MaxRetries]
      /\ TriesLeft
  BY DEF IInv, TypeOK
<1>1. CASE Send(i, "new") \/ Send(i, "again")
  BY <1>1, SendStep
<1>2. CASE MaxRetries > 0 /\ Full(i, "new", "again") /\ UNCHANGED tries
  <2>1. TriesLeft'
    BY <1>0, <1>2 DEF TriesLeft
  <2> QED
    BY <1>0, <1>2, <2>1, OfferStep DEF Offers
<1>3. CASE MaxRetries > 0 /\ Full(i, "again", "backoff") /\ tries' = [tries EXCEPT ![i] = @ + 1]
  <2>1. tries[i] + 1 \in 0 .. MaxRetries
    BY <1>0, <1>3, SizesAssumption DEF TriesLeft
  <2>2. TriesLeft'
    BY <1>0, <1>3 DEF TriesLeft
  <2>3. tries' \in [Items -> 0 .. MaxRetries]
    BY <1>0, <1>3, <2>1
  <2> QED
    BY <1>0, <1>3, <2>2, <2>3, OfferStep DEF Offers
<1>4. CASE Backoff(i)
  <2> DEFINE to == IF tries[i] < MaxRetries THEN "new" ELSE "refused"
  <2>1. TriesLeft'
    BY <1>0, <1>4 DEF TriesLeft, Backoff
  <2>2. to \in Offers \ {"accepted"} /\ offer' = [offer EXCEPT ![i] = to] /\ offer[i] # "accepted"
    BY <1>4 DEF Backoff, Offers
  <2>3. UNCHANGED <<tries, eventQueue, batch, pc, handed, wg, stop>>
    BY <1>4 DEF Backoff
  <2> HIDE DEF to
  <2> QED
    BY <1>0, <2>1, <2>2, <2>3, OfferStep
<1>5. CASE /\ Step(i, "new", "refused")
           /\ UNCHANGED <<tries, eventQueue, batch, pc, handed, wg, stop>>
  <2>1. TriesLeft'
    BY <1>0, <1>5 DEF TriesLeft
  <2> QED
    BY <1>0, <1>5, <2>1, OfferStep DEF Offers
<1> QED
  BY <1>1, <1>2, <1>3, <1>4, <1>5 DEF EnqueueWithRetry, TryEnqueue, Enqueue

(* A worker moves the head of the channel into its batch. *)
LEMMA TakeStep ==
  ASSUME IInv, NEW w \in Workers, Take(w)
  PROVE  IInv'
<1> USE DEF Take, Goes, producing
<1> DEFINE h == Head(eventQueue)
<1>0. TypeOK /\ BatchAtPC /\ TriesLeft /\ Conserved
  BY DEF IInv
<1>1. /\ eventQueue \in Seq(Items) /\ batch \in [Workers -> Seq(Items)]
      /\ pc \in [Workers -> PCs] /\ batch[w] \in Seq(Items)
      /\ Len(batch[w]) < BatchSize /\ Distinct(eventQueue) /\ pc[w] = "select"
  BY <1>0 DEF TypeOK, BatchAtPC, Conserved
<1>2. h \in Items /\ InQueue(h)
  BY <1>1, TailIncludes DEF InQueue
<1>3. \A v \in Workers : ~InBatch(h, v)
  BY <1>0, <1>2 DEF Conserved, AtMostOnePlace
<1>4. ~Includes(batch[w], h)
  BY <1>1, <1>3 DEF InBatch
<1>5. /\ batch'[w] = Append(batch[w], h)
      /\ \A v \in Workers : v # w => batch'[v] = batch[v] /\ pc'[v] = pc[v]
      /\ pc'[w] = IF Len(batch[w]) + 1 = BatchSize THEN "flush" ELSE "select"
      /\ Len(batch'[w]) = Len(batch[w]) + 1 /\ batch'[w] # <<>>
      /\ Len(batch[w]) \in Nat
  BY <1>1, <1>2
<1> HIDE DEF h
<1>6. TypeOK'
  <2>1. /\ eventQueue' \in Seq(Items)
        /\ Len(eventQueue') = Len(eventQueue) - 1 /\ Len(eventQueue) \in Nat
    BY <1>1
  <2>2. Len(eventQueue') <= Buffer'
    BY <1>0, <2>1, BufferType DEF Buffer, TypeOK
  <2>3. batch' \in [Workers -> Seq(Items)]
    BY <1>1, <1>2 DEF h
  <2>4. \A v \in Workers : Len(batch'[v]) <= BatchSize
    BY <1>0, <1>1, <1>5, SizesAssumption DEF TypeOK
  <2>5. pc' \in [Workers -> PCs]
    BY <1>1 DEF PCs
  <2> QED
    BY <1>0, <2>1, <2>2, <2>3, <2>4, <2>5 DEF TypeOK
<1>7. BatchAtPC'
  <2> SUFFICES ASSUME NEW v \in Workers
      PROVE /\ pc'[v] = "select" => Len(batch'[v]) < BatchSize
            /\ pc'[v] \in {"flush", "lastFlush"} => batch'[v] # <<>>
            /\ pc'[v] \notin Live => batch'[v] = <<>>
    BY DEF BatchAtPC
  <2>1. CASE v = w
    BY <2>1, <1>1, <1>5, SizesAssumption DEF Live
  <2>2. CASE v # w
    BY <2>2, <1>0, <1>5 DEF BatchAtPC
  <2> QED
    BY <2>1, <2>2
<1>8. TriesLeft'
  BY <1>0 DEF TriesLeft
<1>9. Conserved'
  <2>1. \A j \in Items : InQueue(j)' <=> InQueue(j) /\ j # h
    BY <1>1, TailIncludes DEF InQueue, h
  <2>2. Distinct(eventQueue)'
    BY <1>1, TailIncludes
  <2>3. \A v \in Workers : Distinct(batch'[v])
    <3>1. Distinct(batch'[w])
      BY <1>0, <1>1, <1>2, <1>4, <1>5, AppendDistinct DEF Conserved
    <3> QED
      BY <3>1, <1>0, <1>5 DEF Conserved
  <2>4. \A j \in Items : InBatch(j, w)' <=> InBatch(j, w) \/ j = h
    BY <1>1, <1>2, <1>5, AppendIncludes DEF InBatch
  <2>5. \A j \in Items, v \in Workers : v # w => (InBatch(j, v)' <=> InBatch(j, v))
    BY <1>5 DEF InBatch
  <2>6. \A j \in Items : AtMostOnePlace(j)'
    <3> SUFFICES ASSUME NEW j \in Items PROVE AtMostOnePlace(j)'
      OBVIOUS
    <3>1. AtMostOnePlace(j) /\ AtMostOnePlace(h)
      BY <1>0, <1>2 DEF Conserved
    <3>2. CASE j = h
      BY <3>1, <3>2, <1>2, <1>3, <2>1, <2>4, <2>5 DEF AtMostOnePlace
    <3>3. CASE j # h
      BY <3>1, <3>3, <2>1, <2>4, <2>5 DEF AtMostOnePlace
    <3> QED
      BY <3>2, <3>3
  <2>7. \A j \in Items : (InQueue(j) \/ \E v \in Workers : InBatch(j, v))'
                         <=> InQueue(j) \/ \E v \in Workers : InBatch(j, v)
    BY <1>2, <2>1, <2>4, <2>5
  <2> QED
    BY <1>0, <2>2, <2>3, <2>6, <2>7 DEF Conserved
<1> QED
  BY <1>6, <1>7, <1>8, <1>9 DEF IInv

(* The batch processor gets the batch of a worker. *)
LEMMA ProcessStep ==
  ASSUME IInv, NEW w \in Workers, NEW from \in {"flush", "lastFlush"},
         NEW to \in {"flushed", "lastFlushed"}, Process(w, from, to)
  PROVE  IInv'
<1> USE DEF Process, Goes, producing
<1>0. TypeOK /\ BatchAtPC /\ TriesLeft /\ Conserved
  BY DEF IInv
<1>1. /\ batch \in [Workers -> Seq(Items)] /\ pc \in [Workers -> PCs]
      /\ handed \in [Items -> Nat]
  BY <1>0 DEF TypeOK
<1>2. /\ batch'[w] = <<>> /\ pc'[w] = to /\ pc[w] = from
      /\ \A v \in Workers : v # w => batch'[v] = batch[v] /\ pc'[v] = pc[v]
  BY <1>1
<1>3. /\ \A j \in Items : ~InBatch(j, w)'
      /\ \A j \in Items, v \in Workers : v # w => (InBatch(j, v)' <=> InBatch(j, v))
      /\ \A j \in Items : InQueue(j)' <=> InQueue(j)
  BY <1>2 DEF InBatch, InQueue
<1>4. /\ \A j \in Items : InBatch(j, w) => handed'[j] = handed[j] + 1
      /\ \A j \in Items : ~InBatch(j, w) => handed'[j] = handed[j]
      /\ handed' \in [Items -> Nat]
  BY <1>1, <1>2 DEF InBatch
<1>5. TypeOK'
  <2>1. batch' \in [Workers -> Seq(Items)] /\ pc' \in [Workers -> PCs]
    BY <1>1 DEF PCs
  <2>2. \A v \in Workers : Len(batch'[v]) <= BatchSize
    BY <1>0, <1>2, SizesAssumption DEF TypeOK
  <2> QED
    BY <1>0, <1>4, <2>1, <2>2 DEF TypeOK, Buffer
<1>6. BatchAtPC'
  BY <1>0, <1>2 DEF BatchAtPC, Live
<1>7. TriesLeft'
  BY <1>0 DEF TriesLeft
<1>8. \A j \in Items : AtMostOnePlace(j)'
  <2> SUFFICES ASSUME NEW j \in Items PROVE AtMostOnePlace(j)'
    OBVIOUS
  <2>1. AtMostOnePlace(j) /\ handed[j] \in Nat
    BY <1>0, <1>1 DEF Conserved
  <2>2. CASE InBatch(j, w)
    <3>1. handed[j] = 0 /\ ~InQueue(j) /\ \A v \in Workers : v # w => ~InBatch(j, v)
      BY <2>1, <2>2 DEF AtMostOnePlace
    <3> QED
      BY <2>2, <3>1, <1>3, <1>4 DEF AtMostOnePlace
  <2>3. CASE ~InBatch(j, w)
    BY <2>1, <2>3, <1>3, <1>4 DEF AtMostOnePlace
  <2> QED
    BY <2>2, <2>3
<1>9. Conserved'
  <2>1. Distinct(eventQueue)' /\ \A v \in Workers : Distinct(batch'[v])
    BY <1>0, <1>2, EmptyIncludesNone DEF Conserved
  <2>2. \A j \in Items :
          (handed[j] = 1 \/ InQueue(j) \/ \E v \in Workers : InBatch(j, v))'
            <=> handed[j] = 1 \/ InQueue(j) \/ \E v \in Workers : InBatch(j, v)
    <3> SUFFICES ASSUME NEW j \in Items
        PROVE (handed[j] = 1 \/ InQueue(j) \/ \E v \in Workers : InBatch(j, v))'
            <=> handed[j] = 1 \/ InQueue(j) \/ \E v \in Workers : InBatch(j, v)
      OBVIOUS
    <3>1. AtMostOnePlace(j) /\ handed[j] \in Nat
      BY <1>0, <1>1 DEF Conserved
    <3>2. InBatch(j, w) => handed'[j] = 1
      BY <3>1, <1>4 DEF AtMostOnePlace
    <3> QED
      BY <3>2, <1>3, <1>4
  <2> QED
    BY <1>0, <1>8, <2>1, <2>2 DEF Conserved
<1> QED
  BY <1>5, <1>6, <1>7, <1>9 DEF IInv

(* A worker goes on without touching its batch: it keeps its duty to hand  *)
(* the batch over, or had none.                                            *)
LEMMA MoveStep ==
  ASSUME IInv, NEW w \in Workers, NEW from \in PCs, NEW to \in PCs,
         Goes(w, from, to), to \in Live \/ batch[w] = <<>>,
         to \in {"flush", "lastFlush"} => batch[w] # <<>>,
         to = "select" => Len(batch[w]) < BatchSize,
         wg' \in Int, stop' \in Stops,
         UNCHANGED <<producing, eventQueue, batch, handed>>
  PROVE  IInv'
<1> USE DEF Goes, producing
<1>0. TypeOK /\ BatchAtPC /\ TriesLeft /\ Conserved
  BY DEF IInv
<1>1. TypeOK'
  BY <1>0 DEF TypeOK, Buffer
<1>2. /\ pc'[w] = to /\ pc[w] = from
      /\ \A v \in Workers : v # w => pc'[v] = pc[v]
  BY <1>0 DEF TypeOK
<1>3. BatchAtPC'
  BY <1>0, <1>2 DEF BatchAtPC, Live
<1>4. TriesLeft'
  BY <1>0 DEF TriesLeft
<1>5. /\ \A j \in Items : InQueue(j)' <=> InQueue(j)
      /\ \A j \in Items, v \in Workers : v # w => (InBatch(j, v)' <=> InBatch(j, v))
  BY <1>2 DEF InQueue, InBatch
<1>6. \A j \in Items : InBatch(j, w)' <=> InBatch(j, w)
  BY <1>0, <1>2, EmptyIncludesNone DEF InBatch, BatchAtPC, Live
<1>7. Conserved'
  BY <1>0, <1>5, <1>6 DEF Conserved, AtMostOnePlace
<1> QED
  BY <1>1, <1>3, <1>4, <1>7 DEF IInv

LEMMA WorkStep ==
  ASSUME IInv, NEW w \in Workers, work(w)
  PROVE  IInv'
<1>0. /\ wg \in Int /\ stop \in Stops
      /\ pc[w] = "select" => Len(batch[w]) < BatchSize
      /\ pc[w] \notin Live => batch[w] = <<>>
      /\ batch[w] = <<>> => Len(batch[w]) < BatchSize
  BY SizesAssumption DEF IInv, TypeOK, BatchAtPC
<1> USE <1>0 DEF Goes, PCs, Stops, Live, producing
<1>1. CASE Take(w)
  BY <1>1, TakeStep
<1>2. CASE Linger(w)
  BY <1>2, MoveStep DEF Linger
<1>3. CASE SeeQuit(w)
  <2>1. CASE batch[w] # <<>>
    BY <1>3, <2>1, MoveStep DEF SeeQuit
  <2>2. CASE batch[w] = <<>>
    BY <1>3, <2>2, MoveStep DEF SeeQuit
  <2> QED
    BY <2>1, <2>2
<1>4. CASE Process(w, "flush", "flushed") \/ Process(w, "lastFlush", "lastFlushed")
  BY <1>4, ProcessStep
<1>5. CASE Done(w, "flushed", "undone") \/ Done(w, "lastFlushed", "lastUndone")
           \/ Done(w, "leave", "left")
  <2>1. pc[w] \notin Live /\ wg' \in Int /\ stop' \in Stops
        /\ UNCHANGED <<producing, eventQueue, batch, handed>>
    BY <1>5 DEF Done
  <2>2. batch[w] = <<>>
    BY <2>1
  <2> QED
    BY <1>5, <2>1, <2>2, MoveStep DEF Done
<1>6. CASE Add(w, "undone", "select")
  <2>1. wg' \in Int /\ batch[w] = <<>> /\ UNCHANGED stop
    BY <1>6 DEF Add
  <2> QED
    BY <1>6, <2>1, MoveStep DEF Add
<1>7. CASE Add(w, "lastUndone", "leave")
  <2>1. wg' \in Int /\ batch[w] = <<>> /\ UNCHANGED stop
    BY <1>7 DEF Add
  <2> QED
    BY <1>7, <2>1, MoveStep DEF Add
<1> QED
  BY <1>1, <1>2, <1>3, <1>4, <1>5, <1>6, <1>7 DEF work, processBatch

LEMMA IInvStep == IInv /\ [Next]_vars => IInv'
<1> SUFFICES ASSUME IInv, [Next]_vars PROVE IInv'
  OBVIOUS
<1>1. CASE \E i \in Items : EnqueueWithRetry(i) \/ Enqueue(i)
  BY <1>1, OffersStep
<1>2. CASE \E w \in Workers : work(w)
  BY <1>2, WorkStep
<1>3. CASE SafeStop \/ UNCHANGED vars
  <2>1. /\ UNCHANGED <<offer, tries, eventQueue, batch, pc, handed, wg>>
        /\ stop \in Stops => stop' \in Stops
    BY <1>3 DEF SafeStop, CloseQuit, CallWait, ReturnFromWait, vars, producing, Stops
  <2>2. \A j \in Items : /\ InQueue(j)' <=> InQueue(j)
                         /\ \A w \in Workers : InBatch(j, w)' <=> InBatch(j, w)
    BY <2>1 DEF InQueue, InBatch
  <2> QED
    BY <2>1, <2>2 DEF IInv, TypeOK, Buffer, BatchAtPC, TriesLeft, Conserved, AtMostOnePlace
<1> QED
  BY <1>1, <1>2, <1>3 DEF Next

-----------------------------------------------------------------------------
(* Every variable keeps its type: the channel stays within its buffer, no  *)
(* batch outgrows BatchSize, no call retries more than MaxRetries times.   *)
THEOREM AggregatorTypeCorrect == Spec => []TypeOK
<1>1. IInv => TypeOK
  BY DEF IInv
<1> QED
  BY <1>1, IInvInit, IInvStep, PTL DEF Spec

(* Every accepted item is in exactly one place, at all times.              *)
THEOREM ItemsConserved == Spec => []Conserved
<1>1. IInv => Conserved
  BY DEF IInv
<1> QED
  BY <1>1, IInvInit, IInvStep, PTL DEF Spec

-----------------------------------------------------------------------------
Fate == [i \in Items |->
           IF handed[i] > 1 THEN "repeated"
           ELSE IF handed[i] = 1 THEN "handed"
           ELSE IF offer[i] \in {"accepted", "refused"} THEN offer[i]
           ELSE "offered"]

LEMMA OfferRefines ==
  ASSUME IInv, NEW i \in Items, EnqueueWithRetry(i) \/ Enqueue(i)
  PROVE  [Buffered!Next]_(Buffered!vars)
<1> DEFINE to == offer'[i]
<1>1. /\ offer \in [Items -> Offers] /\ handed \in [Items -> Nat]
      /\ offer[i] # "accepted" => handed[i] = 0
  BY DEF IInv, TypeOK, Conserved, AtMostOnePlace
<1>2. /\ UNCHANGED handed /\ offer' = [offer EXCEPT ![i] = to]
      /\ offer[i] \in {"new", "again", "backoff"}
      /\ to \in {"new", "again", "backoff", "accepted", "refused"}
  BY <1>1 DEF EnqueueWithRetry, TryEnqueue, Enqueue, Backoff, Send, Full, Step
<1> HIDE DEF to
<1>3. Fate[i] = "offered" /\ handed[i] = 0
  BY <1>1, <1>2 DEF Fate
<1>4. CASE to \in {"accepted", "refused"}
  <2>1. Fate' = [Fate EXCEPT ![i] = to]
    BY <1>1, <1>2, <1>3, <1>4 DEF Fate
  <2>2. Buffered!Decide(i, "accepted") \/ Buffered!Decide(i, "refused")
    BY <1>3, <1>4, <2>1 DEF Buffered!Decide, Fate
  <2> QED
    BY <2>2 DEF Buffered!Next
<1>5. CASE to \in {"new", "again", "backoff"}
  <2>1. UNCHANGED Fate
    BY <1>1, <1>2, <1>5 DEF Fate
  <2> QED
    BY <2>1 DEF Buffered!vars, Fate
<1> QED
  BY <1>2, <1>4, <1>5

LEMMA ProcessRefines ==
  ASSUME IInv, NEW w \in Workers, NEW from \in {"flush", "lastFlush"},
         NEW to \in PCs, Process(w, from, to)
  PROVE  Buffered!Next
<1>1. /\ offer \in [Items -> Offers] /\ handed \in [Items -> Nat]
      /\ batch[w] \in Seq(Items) /\ batch[w] # <<>> /\ pc[w] = from
      /\ Len(batch[w]) <= BatchSize /\ Distinct(batch[w])
      /\ UNCHANGED offer
      /\ handed' = [i \in Items |-> handed[i] + IF Includes(batch[w], i) THEN 1 ELSE 0]
  BY DEF IInv, TypeOK, BatchAtPC, Conserved, Process, Goes, producing
<1>2. PICK n \in 1 .. BatchSize : n = Len(batch[w])
  BY <1>1, SizesAssumption
<1>3. PICK b \in [1 .. n -> Items] : \A k \in 1 .. n : b[k] = batch[w][k]
  <2>1. \A k \in 1 .. n : batch[w][k] \in Items
    BY <1>1, <1>2
  <2>2. [k \in 1 .. n |-> batch[w][k]] \in [1 .. n -> Items]
    BY <2>1
  <2> QED
    BY <2>2
<1>4. \A i \in Items : Includes(batch[w], i) <=> \E k \in 1 .. n : b[k] = i
  BY <1>2, <1>3 DEF Includes
<1>5. \A i \in Items : Includes(batch[w], i) => handed[i] = 0 /\ offer[i] = "accepted"
  BY <1>1 DEF IInv, Conserved, AtMostOnePlace, InBatch
<1>6. \A k \in 1 .. n : Fate[b[k]] = "accepted"
  BY <1>3, <1>4, <1>5 DEF Fate
<1>7. \A k, l \in 1 .. n : b[k] = b[l] => k = l
  BY <1>1, <1>2, <1>3 DEF Distinct
<1>8. Fate' = [i \in Items |-> IF \E k \in 1 .. n : b[k] = i THEN "handed" ELSE Fate[i]]
  <2>1. \A i \in Items : handed'[i] = IF \E k \in 1 .. n : b[k] = i THEN 1 ELSE handed[i]
    BY <1>1, <1>4, <1>5
  <2> QED
    BY <1>1, <2>1 DEF Fate
<1>9. Buffered!HandOver(b, n)
  BY <1>6, <1>7, <1>8 DEF Buffered!HandOver, Fate
<1> QED
  BY <1>9 DEF Buffered!Next

(* The aggregator implements the buffer: every item is refused, or it is   *)
(* accepted and then handed over at most once, in a batch of at most       *)
(* BatchSize items.                                                        *)
THEOREM AggregatorImplementsBuffer == Spec => ImplementsBuffer
<1>1. Init => Buffered!Init
  BY DEF Init, Buffered!Init
<1>2. IInv /\ [Next]_vars => [Buffered!Next]_(Buffered!vars)
  <2> SUFFICES ASSUME IInv, [Next]_vars PROVE [Buffered!Next]_(Buffered!vars)
    OBVIOUS
  <2>1. CASE \E i \in Items : EnqueueWithRetry(i) \/ Enqueue(i)
    BY <2>1, OfferRefines
  <2>3. ASSUME NEW w \in Workers, work(w)
        PROVE  [Buffered!Next]_(Buffered!vars)
    <3>1. CASE Process(w, "flush", "flushed") \/ Process(w, "lastFlush", "lastFlushed")
      BY <3>1, ProcessRefines DEF PCs
    <3>2. CASE UNCHANGED <<offer, handed>>
      BY <3>2 DEF Buffered!vars
    <3> QED
      BY <2>3, <3>1, <3>2
      DEF work, processBatch, Done, Add, Take, Linger, SeeQuit, producing
  <2>4. CASE SafeStop \/ UNCHANGED vars
    <3>1. UNCHANGED <<offer, handed>>
      BY <2>4 DEF SafeStop, vars, producing
    <3> QED
      BY <3>1 DEF Buffered!vars
  <2> QED
    BY <2>1, <2>3, <2>4 DEF Next
<1> QED
  BY <1>1, <1>2, IInvInit, IInvStep, PTL DEF Spec, ImplementsBuffer, Buffered!Spec

-----------------------------------------------------------------------------
(* The WaitGroup.  processBatch calls Done before Add(1), so the counter   *)
(* is, at all times, the number of workers that are neither gone nor       *)
(* between the two: never negative, which would be a panic, and back at    *)
(* its full value when all of them are in their select.                    *)
Gap == {"undone", "lastUndone", "left"}

Counted == {w \in Workers : pc[w] \notin Gap}

WaitGroupCounts == wg = Cardinality(Counted) /\ wg \in 0 .. Cardinality(Workers)

LEMMA CountedFinite ==
  /\ IsFiniteSet(Counted) /\ Cardinality(Counted) \in Nat
  /\ Cardinality(Workers) \in Nat /\ Cardinality(Counted) <= Cardinality(Workers)
<1>1. Counted \in SUBSET Workers
  BY DEF Counted
<1> QED
  BY <1>1, WorkersAssumption, FS_Subset, FS_CardinalityType

LEMMA CountedStep ==
  ASSUME TypeOK, wg = Cardinality(Counted), [Next]_vars
  PROVE  wg' = Cardinality(Counted')
<1>0. pc \in [Workers -> PCs] /\ IsFiniteSet(Counted)
  BY CountedFinite DEF TypeOK
<1>1. ASSUME NEW w \in Workers, NEW from \in PCs \ Gap, NEW to \in Gap, Done(w, from, to)
      PROVE  wg' = Cardinality(Counted')
  <2>1. pc[w] = from /\ pc' = [pc EXCEPT ![w] = to] /\ wg' = wg - 1
    BY <1>1 DEF Done, Goes
  <2>2. Counted' = Counted \ {w} /\ w \in Counted
    BY <1>0, <1>1, <2>1 DEF Counted
  <2> QED
    BY <1>0, <2>1, <2>2, FS_RemoveElement
<1>2. ASSUME NEW w \in Workers, NEW from \in Gap, NEW to \in PCs \ Gap, Add(w, from, to)
      PROVE  wg' = Cardinality(Counted')
  <2>1. pc[w] = from /\ pc' = [pc EXCEPT ![w] = to] /\ wg' = wg + 1
    BY <1>2 DEF Add, Goes
  <2>2. Counted' = Counted \cup {w} /\ w \notin Counted
    BY <1>0, <1>2, <2>1 DEF Counted
  <2>3. Cardinality(Counted \cup {w}) = Cardinality(Counted) + 1
    BY <1>0, <2>2, FS_AddElement
  <2> QED
    BY <2>1, <2>2, <2>3
<1>3. ASSUME NEW w \in Workers, NEW from \in PCs \ Gap, NEW to \in PCs \ Gap,
             Goes(w, from, to), UNCHANGED wg
      PROVE  wg' = Cardinality(Counted')
  <2>1. Counted' = Counted
    BY <1>0, <1>3 DEF Counted, Goes
  <2> QED
    BY <1>3, <2>1
<1>4. ASSUME UNCHANGED <<pc, wg>> PROVE wg' = Cardinality(Counted')
  BY <1>4 DEF Counted
<1>5. ASSUME NEW w \in Workers, work(w) PROVE wg' = Cardinality(Counted')
  <2> USE DEF PCs, Gap
  <2>1. CASE Take(w) \/ Linger(w) \/ SeeQuit(w)
    <3>1. /\ UNCHANGED wg
          /\ \E to \in {"select", "flush", "lastFlush", "leave"} : Goes(w, "select", to)
      BY <2>1 DEF Take, Linger, SeeQuit
    <3> QED
      BY <1>3, <3>1
  <2>2. CASE Process(w, "flush", "flushed") \/ Process(w, "lastFlush", "lastFlushed")
    BY <1>3, <2>2 DEF Process
  <2>3. CASE Done(w, "flushed", "undone") \/ Done(w, "lastFlushed", "lastUndone")
             \/ Done(w, "leave", "left")
    BY <1>1, <2>3
  <2>4. CASE Add(w, "undone", "select") \/ Add(w, "lastUndone", "leave")
    BY <1>2, <2>4
  <2> QED
    BY <1>5, <2>1, <2>2, <2>3, <2>4 DEF work, processBatch
<1>6. ASSUME NEW i \in Items, EnqueueWithRetry(i) \/ Enqueue(i) PROVE UNCHANGED <<pc, wg>>
  BY <1>6 DEF EnqueueWithRetry, Enqueue, TryEnqueue, Backoff, Send, Full
<1>7. CASE SafeStop \/ UNCHANGED vars
  BY <1>4, <1>7 DEF SafeStop, vars
<1> QED
  BY <1>4, <1>5, <1>6, <1>7 DEF Next

(* The WaitGroup's counter is that of the workers between Add and Done     *)
(* (aggregator.go:117,136,168).                                            *)
THEOREM WaitGroupIsSound == Spec => []WaitGroupCounts
<1>1. Init => wg = Cardinality(Counted)
  <2> SUFFICES ASSUME Init PROVE wg = Cardinality(Counted)
    OBVIOUS
  <2>1. Counted = Workers
    BY DEF Init, Counted, Gap
  <2> QED
    BY <2>1 DEF Init
<1>2. TypeOK /\ wg = Cardinality(Counted) /\ [Next]_vars => (wg = Cardinality(Counted))'
  BY CountedStep
<1>3. wg = Cardinality(Counted) => WaitGroupCounts
  BY CountedFinite DEF WaitGroupCounts
<1> QED
  BY <1>1, <1>2, <1>3, AggregatorTypeCorrect, PTL DEF Spec

-----------------------------------------------------------------------------
(* What the end of the process can cost.  The items that were accepted and *)
(* not handed over are in the channel or in a batch, so a crash loses no   *)
(* more than their places.                                                 *)
AtRisk == {i \in Items : offer[i] = "accepted" /\ handed[i] = 0}

AtRiskBounded ==
    Cardinality(AtRisk) <= Buffer + Cardinality(Workers) * BatchSize

(* A set all of whose members have a place of their own has no more        *)
(* members than there are places.                                          *)
LEMMA Pigeons ==
  ASSUME NEW S, IsFiniteSet(S), NEW T, IsFiniteSet(T), NEW f \in [S -> T],
         \A x, y \in S : f[x] = f[y] => x = y
  PROVE  Cardinality(S) <= Cardinality(T)
<1>1. Cardinality(S) \in Nat /\ Cardinality(T) \in Nat
  BY FS_CardinalityType
<1>2. ~ (Cardinality(T) < Cardinality(S))
  BY FS_PigeonHole
<1> QED
  BY <1>1, <1>2

LEMMA IntervalSize ==
  ASSUME NEW n \in Nat
  PROVE  IsFiniteSet(1 .. n) /\ Cardinality(1 .. n) = n
<1>1. /\ IsFiniteSet(1 .. n)
      /\ Cardinality(1 .. n) = IF 1 > n THEN 0 ELSE n - 1 + 1
  BY FS_Interval
<1> QED
  BY <1>1

LEMMA QueuedBounded ==
  ASSUME TypeOK
  PROVE  Cardinality({i \in Items : InQueue(i)}) <= Buffer
<1> DEFINE S == {i \in Items : InQueue(i)}
           T == 1 .. Len(eventQueue)
           f == [i \in S |-> CHOOSE k \in T : eventQueue[k] = i]
<1>1. /\ Len(eventQueue) \in Nat /\ Len(eventQueue) <= Buffer
      /\ IsFiniteSet(S)
  BY ItemsAssumption, FS_Subset DEF TypeOK
<1>2. IsFiniteSet(T) /\ Cardinality(T) = Len(eventQueue)
  BY <1>1, IntervalSize
<1>3. \A i \in S : \E k \in T : eventQueue[k] = i
  BY DEF InQueue, Includes
<1>4. \A i \in S : f[i] \in T /\ eventQueue[f[i]] = i
  BY <1>3, Zenon
<1>5. f \in [S -> T]
  BY <1>4, Zenon
<1> HIDE DEF S, T, f
<1>6. Cardinality(S) <= Cardinality(T)
  <2>1. \A x, y \in S : f[x] = f[y] => x = y
    BY <1>4, Zenon
  <2> QED
    BY <1>1, <1>2, <1>5, <2>1, Pigeons
<1>7. Cardinality(S) \in Nat /\ Buffer \in Nat
  BY <1>1, BufferType, FS_CardinalityType
<1> QED
  BY <1>1, <1>2, <1>6, <1>7 DEF S

LEMMA BatchedBounded ==
  ASSUME TypeOK
  PROVE  Cardinality({i \in Items : \E w \in Workers : InBatch(i, w)})
            <= Cardinality(Workers) * BatchSize
<1> DEFINE S == {i \in Items : \E w \in Workers : InBatch(i, w)}
           T == Workers \X (1 .. BatchSize)
           f == [i \in S |-> CHOOSE p \in T : batch[p[1]][p[2]] = i]
<1>1. IsFiniteSet(S)
  BY ItemsAssumption, FS_Subset
<1>2. IsFiniteSet(T) /\ Cardinality(T) = Cardinality(Workers) * BatchSize
  <2>1. IsFiniteSet(1 .. BatchSize) /\ Cardinality(1 .. BatchSize) = BatchSize
    BY SizesAssumption, IntervalSize
  <2> QED
    BY <2>1, WorkersAssumption, FS_Product
<1>3. ASSUME NEW i \in S PROVE \E p \in T : batch[p[1]][p[2]] = i
  <2>1. PICK w \in Workers : Includes(batch[w], i)
    BY DEF InBatch
  <2>2. PICK k \in 1 .. Len(batch[w]) : batch[w][k] = i
    BY <2>1 DEF Includes
  <2>3. k \in 1 .. BatchSize
    <3>1. Len(batch[w]) \in Nat /\ Len(batch[w]) <= BatchSize
      BY DEF TypeOK
    <3> QED
      BY <2>2, <3>1, SizesAssumption
  <2>4. <<w, k>> \in T
    BY <2>3
  <2> WITNESS <<w, k>> \in T
  <2> QED
    BY <2>2
<1>4. \A i \in S : f[i] \in T /\ batch[f[i][1]][f[i][2]] = i
  BY <1>3, Zenon
<1>5. f \in [S -> T]
  BY <1>4, Zenon
<1> HIDE DEF S, T, f
<1>6. \A x, y \in S : f[x] = f[y] => x = y
  BY <1>4, Zenon
<1>7. Cardinality(S) <= Cardinality(T)
  BY <1>1, <1>2, <1>5, <1>6, Pigeons
<1> QED
  BY <1>2, <1>7 DEF S

(* A crash costs at most the channel's slots and a batch for each worker.  *)
THEOREM CrashLossBounded == Spec => []AtRiskBounded
<1>1. ASSUME IInv PROVE AtRiskBounded
  <2> DEFINE Q == {i \in Items : InQueue(i)}
             B == {i \in Items : \E w \in Workers : InBatch(i, w)}
  <2>1. AtRisk \in SUBSET (Q \cup B)
    BY <1>1 DEF IInv, Conserved, AtRisk
  <2>2. IsFiniteSet(Q) /\ IsFiniteSet(B)
    BY ItemsAssumption, FS_Subset
  <2>3. Cardinality(Q) <= Buffer /\ Cardinality(B) <= Cardinality(Workers) * BatchSize
    BY <1>1, QueuedBounded, BatchedBounded DEF IInv
  <2> HIDE DEF Q, B
  <2>4. /\ IsFiniteSet(Q \cup B)
        /\ Cardinality(Q \cup B) = Cardinality(Q) + Cardinality(B) - Cardinality(Q \cap B)
    BY <2>2, FS_Union
  <2>5. IsFiniteSet(Q \cap B)
    BY <2>2, FS_Intersection
  <2>6. Cardinality(AtRisk) <= Cardinality(Q \cup B) /\ IsFiniteSet(AtRisk)
    BY <2>1, <2>4, FS_Subset
  <2>7. /\ Cardinality(Q) \in Nat /\ Cardinality(B) \in Nat
        /\ Cardinality(Q \cap B) \in Nat /\ Cardinality(AtRisk) \in Nat
    BY <2>2, <2>5, <2>6, FS_CardinalityType
  <2>8. Buffer \in Nat /\ Cardinality(Workers) * BatchSize \in Nat
    <3>1. Cardinality(Workers) \in Nat /\ BatchSize \in Nat
      BY WorkersAssumption, SizesAssumption, FS_CardinalityType
    <3>2. \A a, b \in Nat : a * b \in Nat
      OBVIOUS
    <3> QED
      BY <3>1, <3>2, BufferType
  <2> QED
    BY <2>3, <2>4, <2>6, <2>7, <2>8 DEF AtRiskBounded
<1> QED
  BY <1>1, IInvInit, IInvStep, PTL DEF Spec

(* Once all workers have left, after Stop, what the batches held has been  *)
(* handed over; only what is in the channel is lost.                       *)
OnlyChannelLost ==
    (\A w \in Workers : pc[w] = "left") =>
        wg = 0 /\ AtRisk = {i \in Items : InQueue(i)}

(* After the last worker has left, accepted items that were not handed     *)
(* over are in the channel.                                                *)
THEOREM StopLosesTheChannel == Spec => []OnlyChannelLost
<1>1. IInv /\ WaitGroupCounts => OnlyChannelLost
  <2> SUFFICES ASSUME IInv, WaitGroupCounts, \A w \in Workers : pc[w] = "left"
               PROVE  wg = 0 /\ AtRisk = {i \in Items : InQueue(i)}
    BY DEF OnlyChannelLost
  <2>1. Counted = {}
    BY DEF Counted, Gap
  <2>2. wg = 0
    BY <2>1, FS_EmptySet DEF WaitGroupCounts
  <2>3. \A i \in Items : ~ \E w \in Workers : InBatch(i, w)
    BY DEF InBatch
  <2>4. \A i \in Items : InQueue(i) <=> offer[i] = "accepted" /\ handed[i] = 0
    <3> SUFFICES ASSUME NEW i \in Items
                 PROVE  InQueue(i) <=> offer[i] = "accepted" /\ handed[i] = 0
      OBVIOUS
    <3>1. /\ AtMostOnePlace(i) /\ handed[i] \in Nat
          /\ offer[i] = "accepted" <=> handed[i] = 1 \/ InQueue(i)
      BY <2>3 DEF IInv, TypeOK, Conserved
    <3> QED
      BY <3>1 DEF AtMostOnePlace
  <2> QED
    BY <2>2, <2>4 DEF AtRisk
<1> QED
  BY <1>1, WaitGroupIsSound, IInvInit, IInvStep, PTL DEF Spec
=============================================================================
