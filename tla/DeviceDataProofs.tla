-------------------------- MODULE DeviceDataProofs --------------------------
(* The records of a device in Redis, for any number of goroutines and any  *)
(* limit, page size and number of records.                                 *)
EXTENDS DeviceData, FiniteSetTheorems, TLAPS

USE WritersAssumption, LimitAssumption, PagesAssumption, RecordsAssumption

Working == [pc : {"push", "trim", "expire"}, rec : Records]

(* What the commands make of a list. *)
LEMMA Pushed ==
  ASSUME NEW S, NEW l \in Seq(S), NEW r \in S, NEW m, m = <<r>> \o l
  PROVE  /\ m \in Seq(S) /\ m # <<>>
         /\ Len(m) = Len(l) + 1
         /\ m[1] = r
         /\ \A i \in 1 .. Len(m) : i > 1 => i - 1 \in 1 .. Len(l) /\ m[i] = l[i - 1]
  OBVIOUS

LEMMA TrimmedIsPrefix ==
  ASSUME NEW S, NEW l \in Seq(S), NEW m, m = Trimmed(l, Limit)
  PROVE  /\ m \in Seq(S)
         /\ Len(m) <= Len(l)
         /\ Limit > 0 => Len(m) <= Limit
         /\ l # <<>> => m # <<>>
         /\ \A i \in 1 .. Len(m) : m[i] = l[i]
  <1>1. CASE Limit = 0 \/ Len(l) <= Limit
    BY <1>1 DEF Trimmed
  <1>2. CASE Limit > 0 /\ Len(l) > Limit
    <2>1. m = SubSeq(l, 1, Limit)
      BY <1>2 DEF Trimmed
    <2>2. Len(m) = Limit /\ m \in Seq(S) /\ \A i \in 1 .. Limit : m[i] = l[i]
      BY <1>2, <2>1
    <2>3. QED  BY <1>2, <2>2
  <1>3. QED  BY <1>1, <1>2

LEMMA RangeShape ==
  ASSUME NEW S, NEW l \in Seq(S), NEW start \in Nat, NEW end \in Int, end >= -1
  PROVE  /\ Range0(l, start, end) \in Seq(S)
         /\ end >= 0 => \/ Len(Range0(l, start, end)) <= end + 1 - start
                        \/ Len(Range0(l, start, end)) = 0
  <1> DEFINE last == IF end < 0 THEN Len(l) + end ELSE end
             to   == IF last < Len(l) THEN last + 1 ELSE Len(l)
  <1>1. to \in 0 .. Len(l) /\ (end >= 0 => to <= end + 1)
    OBVIOUS
  <1>2. Range0(l, start, end) = SubSeq(l, start + 1, to)
    BY DEF Range0
  <1> HIDE DEF to
  <1>3. SubSeq(l, start + 1, to) \in Seq(S)
    BY <1>1
  <1>4. Len(SubSeq(l, start + 1, to)) = IF start + 1 <= to THEN to - start ELSE 0
    BY <1>1
  <1>5. QED  BY <1>1, <1>2, <1>3, <1>4

(* A goroutine's step is its own. *)
LEMMA StepShape ==
  ASSUME DataTypeOK, NEW w \in Writers, writer[w].pc # "idle",
         NEW pc \in {"trim", "expire"}, Step(w, pc)
  PROVE  /\ writer' \in [Writers -> Working \cup {Resting}]
         /\ writer'[w].pc = pc
         /\ \A y \in Writers \ {w} : writer'[y] = writer[y]
  <1>1. writer \in [Writers -> Working \cup {Resting}]
    BY DEF DataTypeOK, Working
  <1>2. writer[w] \in Working
    BY <1>1 DEF Resting
  <1>3. [writer[w] EXCEPT !.pc = pc] \in Working /\ [writer[w] EXCEPT !.pc = pc].pc = pc
    BY <1>2 DEF Working
  <1>4. writer' = [writer EXCEPT ![w] = [writer[w] EXCEPT !.pc = pc]]
    BY <1>1 DEF Step
  <1>5. QED  BY <1>1, <1>3, <1>4

LEMMA DoneShape ==
  ASSUME DataTypeOK, NEW w \in Writers, Done(w)
  PROVE  /\ writer' \in [Writers -> Working \cup {Resting}]
         /\ writer'[w].pc = "idle"
         /\ \A y \in Writers \ {w} : writer'[y] = writer[y]
  BY DEF DataTypeOK, Working, Done, Resting

LEMMA StampShape ==
  ASSUME DataTypeOK, NEW w \in Writers, Stamp(w),
         \A y \in Writers : writer[y].pc = "push" => writer[y].rec.id \in Nat
  PROVE  /\ writer' \in [Writers -> Working \cup {Resting}]
         /\ writer'[w].pc = "push" /\ writer'[w].rec.id = stamped + 1
         /\ writer'[w].rec.with = Held
         /\ \A y \in Writers \ {w} : writer'[y] = writer[y]
  <1>1. Held \in SUBSET Nat /\ stamped \in Nat
    BY DEF Held, At, DataTypeOK
  <1> DEFINE new == [pc |-> "push", rec |-> [id |-> stamped + 1, with |-> Held]]
  <1>2. /\ new \in Working /\ new.pc = "push" /\ new.rec.id = stamped + 1
        /\ new.rec.with = Held
    BY <1>1 DEF Working, Records
  <1>3. writer' = [writer EXCEPT ![w] = new]
    BY DEF Stamp
  <1> HIDE DEF new
  <1>4. writer \in [Writers -> Working \cup {Resting}]
    BY DEF DataTypeOK, Working
  <1>5. QED  BY <1>2, <1>3, <1>4

-----------------------------------------------------------------------------
(* The order of the records.  A record that is not pushed yet has a number *)
(* of its own, and those that have newer numbers, in the list or not, were *)
(* recorded while it was on its way.                                       *)

HeldFresh ==
  \A w \in Writers : writer[w].pc = "push" =>
    /\ writer[w].rec \in Records
    /\ writer[w].rec.id \in 1 .. stamped
    /\ \A i \in 1 .. Len(list) :
         /\ list[i].id # writer[w].rec.id
         /\ writer[w].rec.id < list[i].id => writer[w].rec.id \in list[i].with

HeldDistinct ==
  \A v, w \in Writers : v # w /\ writer[v].pc = "push" /\ writer[w].pc = "push" =>
    /\ writer[v].rec.id # writer[w].rec.id
    /\ writer[v].rec.id < writer[w].rec.id => writer[v].rec.id \in writer[w].rec.with

OrderInv == DataTypeOK /\ HeldFresh /\ HeldDistinct /\ OutOfOrderOverlapped

ListOK ==
  /\ list \in Seq(Records)
  /\ \A i, j \in 1 .. Len(list) : list[i].id = list[j].id => i = j
  /\ \A i \in 1 .. Len(list) : list[i].id \in 1 .. stamped

Ordered == ListOK /\ HeldFresh /\ HeldDistinct /\ OutOfOrderOverlapped

(* A step that pushes and stamps nothing. *)
LEMMA OrderKept ==
  ASSUME OrderInv, list' \in Seq(Records), Len(list') <= Len(list),
         \A i \in 1 .. Len(list') : list'[i] = list[i],
         \A w \in Writers : writer'[w].pc = "push" => writer'[w] = writer[w],
         stamped' = stamped
  PROVE  Ordered'
  <1>1. \A i \in 1 .. Len(list') : i \in 1 .. Len(list)
    BY DEF OrderInv, DataTypeOK
  <1>2. ListOK'
    BY <1>1 DEF ListOK, OrderInv, DataTypeOK
  <1>3. HeldFresh'
    BY <1>1 DEF HeldFresh, OrderInv
  <1>4. HeldDistinct'
    BY DEF HeldDistinct, OrderInv
  <1>5. OutOfOrderOverlapped'
    BY <1>1 DEF OutOfOrderOverlapped, OrderInv
  <1>6. QED  BY <1>2, <1>3, <1>4, <1>5 DEF Ordered

LEMMA StampOrder ==
  ASSUME OrderInv, NEW w \in Writers, Stamp(w)
  PROVE  Ordered' /\ writer' \in [Writers -> Working \cup {Resting}]
  <1>1. /\ writer' \in [Writers -> Working \cup {Resting}]
        /\ writer'[w].pc = "push" /\ writer'[w].rec.id = stamped + 1
        /\ writer'[w].rec.with = Held
        /\ \A y \in Writers \ {w} : writer'[y] = writer[y]
    BY StampShape DEF OrderInv, HeldFresh
  <1>2. list' = list /\ stamped' = stamped + 1 /\ stamped \in Nat
    BY DEF Stamp, OrderInv, DataTypeOK
  <1>3. ListOK'
    BY <1>2 DEF ListOK, OrderInv, DataTypeOK
  <1>4. HeldFresh'
    <2>1. writer'[w].rec \in Records
      BY <1>1 DEF Working, Resting
    <2>2. \A i \in 1 .. Len(list) : list[i].id \in 1 .. stamped
      BY DEF OrderInv, DataTypeOK
    <2>3. QED  BY <1>1, <1>2, <2>1, <2>2 DEF HeldFresh, OrderInv
  <1>5. HeldDistinct'
    <2>1. \A y \in Writers : writer[y].pc = "push" => /\ writer[y].rec.id \in 1 .. stamped
                                                       /\ writer[y].rec.id \in Held
      BY DEF OrderInv, HeldFresh, Held, At
    <2>2. QED  BY <1>1, <1>2, <2>1 DEF HeldDistinct, OrderInv
  <1>6. OutOfOrderOverlapped'
    BY <1>2 DEF OutOfOrderOverlapped, OrderInv
  <1>7. QED  BY <1>1, <1>3, <1>4, <1>5, <1>6 DEF Ordered

LEMMA PushOrder ==
  ASSUME OrderInv, NEW w \in Writers, Push(w)
  PROVE  Ordered'
  <1>1. PICK r : r = writer[w].rec
    OBVIOUS
  <1>2. r \in Records /\ writer[w].pc = "push" /\ stamped' = stamped /\ list \in Seq(Records)
    BY <1>1 DEF Push, OrderInv, HeldFresh, DataTypeOK
  <1>3. /\ list' \in Seq(Records) /\ Len(list') = Len(list) + 1 /\ list'[1] = r
        /\ \A i \in 1 .. Len(list') :
             i > 1 => i - 1 \in 1 .. Len(list) /\ list'[i] = list[i - 1]
    <2>1. list' = <<r>> \o list
      BY <1>1 DEF Push
    <2>2. QED  BY <1>2, <2>1, Pushed
  <1>4. \A y \in Writers : writer'[y].pc = "push" => y # w /\ writer'[y] = writer[y]
    BY <1>2, StepShape DEF Push, OrderInv
  <1>5. /\ r.id \in 1 .. stamped
        /\ \A i \in 1 .. Len(list) : /\ list[i].id # r.id
                                     /\ r.id < list[i].id => r.id \in list[i].with
    BY <1>1, <1>2 DEF OrderInv, HeldFresh
  <1>6. ListOK'
    <2>1. ASSUME NEW i \in 1 .. Len(list') PROVE list'[i].id \in 1 .. stamped
      <3>1. CASE i = 1
        BY <1>3, <1>5, <3>1
      <3>2. CASE i > 1
        <4>1. PICK a \in 1 .. Len(list) : list'[i] = list[a]
          BY <1>3, <3>2
        <4>2. QED  BY <4>1 DEF OrderInv, DataTypeOK
      <3>3. QED  BY <3>1, <3>2
    <2>2. ASSUME NEW i \in 1 .. Len(list'), NEW j \in 1 .. Len(list'),
                 list'[i].id = list'[j].id
          PROVE  i = j
      <3>1. CASE i = 1 \/ j = 1
        BY <1>3, <1>5, <2>2, <3>1
      <3>2. CASE i > 1 /\ j > 1
        <4>1. PICK a \in 1 .. Len(list) : a = i - 1 /\ list'[i] = list[a]
          BY <1>3, <3>2
        <4>2. PICK b \in 1 .. Len(list) : b = j - 1 /\ list'[j] = list[b]
          BY <1>3, <3>2
        <4>3. list[a].id = list[b].id
          BY <2>2, <4>1, <4>2
        <4>4. a = b
          BY <4>3 DEF OrderInv, DataTypeOK
        <4>5. QED  BY <4>1, <4>2, <4>4
      <3>3. QED  BY <3>1, <3>2
    <2>3. QED  BY <1>2, <1>3, <2>1, <2>2 DEF ListOK
  <1>7. HeldFresh'
    <2>1. ASSUME NEW y \in Writers, writer'[y].pc = "push", NEW i \in 1 .. Len(list')
          PROVE  /\ list'[i].id # writer'[y].rec.id
                 /\ writer'[y].rec.id < list'[i].id => writer'[y].rec.id \in list'[i].with
      <3>1. y # w /\ writer'[y] = writer[y] /\ writer[y].pc = "push"
        BY <1>4, <2>1
      <3>2. CASE i = 1
        BY <1>1, <1>2, <1>3, <3>1, <3>2 DEF OrderInv, HeldDistinct
      <3>3. CASE i > 1
        BY <1>3, <3>1, <3>3 DEF OrderInv, HeldFresh
      <3>4. QED  BY <3>2, <3>3
    <2>2. \A y \in Writers : writer'[y].pc = "push" =>
            writer'[y].rec \in Records /\ writer'[y].rec.id \in 1 .. stamped
      BY <1>4 DEF OrderInv, HeldFresh
    <2>3. QED  BY <1>2, <2>1, <2>2 DEF HeldFresh
  <1>8. HeldDistinct'
    BY <1>4 DEF HeldDistinct, OrderInv
  <1>9. OutOfOrderOverlapped'
    <2>1. ASSUME NEW i \in 1 .. Len(list'), NEW j \in 1 .. Len(list'),
                 i < j, list'[i].id < list'[j].id
          PROVE  list'[i].id \in list'[j].with
      <3>1. j > 1 /\ j - 1 \in 1 .. Len(list) /\ list'[j] = list[j - 1]
        BY <1>3, <2>1
      <3>2. CASE i = 1
        BY <1>3, <1>5, <2>1, <3>1, <3>2
      <3>3. CASE i > 1
        <4>1. i - 1 \in 1 .. Len(list) /\ list'[i] = list[i - 1] /\ i - 1 < j - 1
          BY <1>3, <2>1, <3>3
        <4>2. QED  BY <2>1, <3>1, <4>1 DEF OrderInv, OutOfOrderOverlapped
      <3>4. QED  BY <3>2, <3>3
    <2>2. QED  BY <2>1 DEF OutOfOrderOverlapped
  <1>10. QED  BY <1>6, <1>7, <1>8, <1>9 DEF Ordered

-----------------------------------------------------------------------------
(* The types and the order, step by step. *)

ReaderOK == reader \in [pc : {"range", "shown"}, num : Pages, total : Nat, page : Seq(Records)]
                         \cup {NoPage}

LEMMA ReadOK ==
  ASSUME DataTypeOK, ReadRange
  PROVE  /\ ReaderOK'
         /\ PageFits'
         /\ UNCHANGED <<list, armed, writer, stamped, missedTrims, missedExpire>>
  <1>1. /\ reader \in [pc : {"range", "shown"}, num : Pages, total : Nat, page : Seq(Records)]
        /\ list \in Seq(Records)
    BY DEF DataTypeOK, ReadRange, NoPage
  <1>2. reader.num - 1 \in Nat /\ reader.total \in Nat
    <2>1. reader.num \in Pages /\ reader.total \in Nat
      BY <1>1
    <2>2. \A n \in Pages : n - 1 \in Nat
      OBVIOUS
    <2>3. QED  BY <2>1, <2>2
  <1>3. PICK start : start = PageStart
    OBVIOUS
  <1>4. \A a, b \in Nat : a * b \in Nat
    OBVIOUS
  <1>5. start \in Nat
    BY <1>2, <1>3, <1>4 DEF PageStart
  <1>6. PICK end : end = PageEnd - 1
    OBVIOUS
  <1>7. /\ end \in Int /\ end >= -1
        /\ end + 1 - start <= PageSize
        /\ reader.total > 0 => end >= 0
    BY <1>2, <1>3, <1>5, <1>6 DEF PageEnd
  <1>8. PICK page : page = Range0(list, start, end)
    OBVIOUS
  <1>9. /\ page \in Seq(Records)
        /\ end >= 0 => Len(page) <= end + 1 - start \/ Len(page) = 0
    BY <1>1, <1>5, <1>7, <1>8, RangeShape
  <1>10. reader' = [reader EXCEPT !.pc = "shown", !.page = page]
    BY <1>3, <1>6, <1>8 DEF ReadRange
  <1>11. ReaderOK'
    BY <1>1, <1>9, <1>10 DEF ReaderOK
  <1>12. PageFits'
    <2>1. reader'.page = page /\ reader'.total = reader.total
      BY <1>1, <1>10
    <2>2. Len(page) \in Nat
      BY <1>9
    <2>3. QED  BY <1>5, <1>7, <1>9, <2>1, <2>2 DEF PageFits
  <1>13. QED  BY <1>11, <1>12 DEF ReadRange

LEMMA OrderStep ==
  ASSUME OrderInv, [DataNext]_dataVars
  PROVE  OrderInv'
  <1> USE DEF OrderInv
  <1> DEFINE WriterOK == writer \in [Writers -> Working \cup {Resting}]
  <1>1. WriterOK /\ list \in Seq(Records) /\ ReaderOK
    BY DEF DataTypeOK, Working, ReaderOK
  <1>2. SUFFICES /\ Ordered' /\ WriterOK' /\ ReaderOK'
                 /\ armed' \in BOOLEAN /\ (armed' => list' # <<>>)
                 /\ stamped' \in 0 .. MaxRecords
                 /\ missedTrims' \in Nat /\ missedExpire' \in BOOLEAN
    BY DEF Ordered, ListOK, DataTypeOK, Working, ReaderOK
  <1>3. ASSUME NEW w \in Writers, Stamp(w)
        PROVE  Ordered' /\ WriterOK' /\ ReaderOK' /\ UNCHANGED <<list, armed, missedTrims, missedExpire>>
               /\ stamped' \in 0 .. MaxRecords
    <2>1. Ordered' /\ WriterOK'
      BY <1>3, StampOrder
    <2>2. /\ UNCHANGED <<list, armed, reader, missedTrims, missedExpire>>
          /\ stamped' = stamped + 1 /\ stamped < MaxRecords
      BY <1>3 DEF Stamp
    <2>3. stamped' \in 0 .. MaxRecords
      BY <2>2 DEF DataTypeOK
    <2>4. QED  BY <1>1, <2>1, <2>2, <2>3 DEF ReaderOK
  <1>4. ASSUME NEW w \in Writers, Push(w)
        PROVE  Ordered' /\ WriterOK' /\ ReaderOK' /\ UNCHANGED <<armed, stamped, missedTrims, missedExpire>>
               /\ list' # <<>>
    <2>1. writer[w].rec \in Records
      BY <1>4 DEF HeldFresh, Push
    <2>2. list' # <<>>
      BY <1>1, <1>4, <2>1, Pushed DEF Push
    <2>3. WriterOK'
      BY <1>4, StepShape DEF Push
    <2>4. QED  BY <1>1, <1>4, <2>2, <2>3, PushOrder DEF Push, ReaderOK
  <1>5. ASSUME NEW w \in Writers, Trim(w) \/ TrimFails(w)
        PROVE  Ordered' /\ WriterOK' /\ ReaderOK' /\ UNCHANGED <<armed, stamped, missedExpire>>
               /\ (list # <<>> => list' # <<>>) /\ missedTrims' \in Nat
    <2>1. /\ WriterOK' /\ writer'[w].pc = "expire"
          /\ \A y \in Writers \ {w} : writer'[y] = writer[y]
      BY <1>5, StepShape DEF Trim, TrimFails
    <2>2. /\ list' \in Seq(Records) /\ Len(list') <= Len(list)
          /\ (list # <<>> => list' # <<>>)
          /\ \A i \in 1 .. Len(list') : list'[i] = list[i]
      BY <1>1, <1>5, TrimmedIsPrefix DEF Trim, TrimFails
    <2>3. UNCHANGED <<armed, stamped, missedExpire, reader>> /\ missedTrims' \in Nat
      BY <1>5 DEF Trim, TrimFails, DataTypeOK
    <2>4. \A y \in Writers : writer'[y].pc = "push" => writer'[y] = writer[y]
      BY <2>1
    <2>5. Ordered'
      BY <2>2, <2>3, <2>4, OrderKept
    <2>6. QED  BY <1>1, <2>1, <2>2, <2>3, <2>5 DEF ReaderOK
  <1>6. ASSUME NEW w \in Writers, PushFails(w) \/ Expire(w) \/ ExpireFails(w)
        PROVE  Ordered' /\ WriterOK' /\ ReaderOK' /\ UNCHANGED <<list, stamped, missedTrims>>
               /\ armed' \in BOOLEAN /\ (armed' => list' # <<>>) /\ missedExpire' \in BOOLEAN
    <2>1. /\ WriterOK' /\ writer'[w].pc = "idle"
          /\ \A y \in Writers \ {w} : writer'[y] = writer[y]
      BY <1>6, DoneShape DEF PushFails, Expire, ExpireFails
    <2>2. UNCHANGED <<list, stamped, missedTrims, reader>>
      BY <1>6 DEF PushFails, Expire, ExpireFails
    <2>3. armed' \in BOOLEAN /\ (armed' => list' # <<>>) /\ missedExpire' \in BOOLEAN
      <3>1. armed \in BOOLEAN /\ (armed => list # <<>>) /\ missedExpire \in BOOLEAN
        BY DEF DataTypeOK
      <3>2. CASE PushFails(w)
        BY <3>1, <3>2 DEF PushFails
      <3>3. CASE Expire(w)
        BY <3>3 DEF Expire
      <3>4. CASE ExpireFails(w)
        BY <3>1, <3>4 DEF ExpireFails
      <3>5. QED  BY <1>6, <3>2, <3>3, <3>4
    <2>4. \A y \in Writers : writer'[y].pc = "push" => writer'[y] = writer[y]
      BY <2>1
    <2>5. Ordered'
      BY <1>1, <2>2, <2>4, OrderKept
    <2>6. QED  BY <1>1, <2>1, <2>2, <2>3, <2>5 DEF ReaderOK
  <1>7. CASE KeyExpires
    <2>1. list' = <<>> /\ list' \in Seq(Records) /\ Len(list') = 0 /\ Len(list) \in Nat
      BY <1>1, <1>7 DEF KeyExpires
    <2>2. Ordered'
      BY <1>7, <2>1, OrderKept DEF KeyExpires
    <2>3. QED  BY <1>1, <1>7, <2>2 DEF KeyExpires, ReaderOK, DataTypeOK
  <1>8. CASE Crash
    <2>1. \A w \in Writers : writer'[w] = Resting /\ writer'[w].pc = "idle"
      BY <1>8 DEF Crash, Resting
    <2>2. Ordered'
      BY <1>1, <1>8, <2>1, OrderKept DEF Crash
    <2>3. missedTrims' \in Nat
      <3>1. IsFiniteSet(At("trim"))
        BY FS_Subset DEF At
      <3>2. QED  BY <1>8, <3>1, FS_CardinalityType DEF Crash, DataTypeOK
    <2>4. missedExpire' \in BOOLEAN
      BY <1>8 DEF Crash, DataTypeOK
    <2>5. QED  BY <1>8, <2>2, <2>3, <2>4 DEF Crash, ReaderOK, DataTypeOK
  <1>9. CASE \E n \in Pages : ReadLength(n)
    <2>1. ReaderOK' /\ UNCHANGED <<list, armed, writer, stamped, missedTrims, missedExpire>>
      BY <1>1, <1>9 DEF ReadLength, ReaderOK
    <2>2. Ordered'
      BY <1>1, <2>1, OrderKept
    <2>3. QED  BY <1>1, <2>1, <2>2 DEF DataTypeOK
  <1>10. CASE ReadRange
    <2>1. ReaderOK' /\ UNCHANGED <<list, armed, writer, stamped, missedTrims, missedExpire>>
      BY <1>10, ReadOK
    <2>2. Ordered'
      BY <1>1, <2>1, OrderKept
    <2>3. QED  BY <1>1, <2>1, <2>2 DEF DataTypeOK
  <1>11. CASE UNCHANGED dataVars
    <2>1. UNCHANGED <<list, armed, writer, stamped, reader, missedTrims, missedExpire>>
      BY <1>11 DEF dataVars
    <2>2. Ordered'
      BY <1>1, <2>1, OrderKept
    <2>3. QED  BY <1>1, <2>1, <2>2 DEF DataTypeOK, ReaderOK
  <1> HIDE DEF OrderInv, WriterOK
  <1>12. DataTypeOK
    BY DEF OrderInv
  <1>13. QED
    BY <1>3, <1>4, <1>5, <1>6, <1>7, <1>8, <1>9, <1>10, <1>11, <1>12
    DEF DataNext, Insert, DataTypeOK

LEMMA OrderInit == DataInit => OrderInv
  <1> SUFFICES ASSUME DataInit PROVE OrderInv
    OBVIOUS
  <1>1. list = <<>> /\ list \in Seq(Records) /\ Len(list) = 0
    BY DEF DataInit
  <1>2. \A w \in Writers : writer[w].pc = "idle"
    BY DEF DataInit, Resting
  <1>3. DataTypeOK
    <2>1. writer \in [Writers -> [pc : {"push", "trim", "expire"}, rec : Records]
                                   \cup {Resting}]
      BY DEF DataInit
    <2>2. armed = FALSE /\ stamped = 0 /\ reader = NoPage /\ missedTrims = 0 /\ missedExpire = FALSE
      BY DEF DataInit
    <2>3. 1 .. Len(list) = {} /\ stamped \in 0 .. MaxRecords
      BY <1>1, <2>2
    <2> HIDE DEF NoPage
    <2>4. QED  BY <1>1, <2>1, <2>2, <2>3, Zenon DEF DataTypeOK
  <1>4. HeldFresh /\ HeldDistinct
    BY <1>2 DEF HeldFresh, HeldDistinct
  <1>5. OutOfOrderOverlapped
    BY <1>1 DEF OutOfOrderOverlapped
  <1>6. QED  BY <1>3, <1>4, <1>5 DEF OrderInv

(* DeviceData keeps its type invariant: a record is once in the list. *)
THEOREM DataTypeCorrect == DataSpec => []DataTypeOK
  <1>1. OrderInv => DataTypeOK
    BY DEF OrderInv
  <1>2. QED  BY <1>1, OrderInit, OrderStep, PTL DEF DataSpec

(* Records out of order were recorded at the same time, however many       *)
(* goroutines record. *)
THEOREM OutOfOrderIsOverlap == DataSpec => []OutOfOrderOverlapped
  <1>1. OrderInv => OutOfOrderOverlapped
    BY DEF OrderInv
  <1>2. QED  BY <1>1, OrderInit, OrderStep, PTL DEF DataSpec

-----------------------------------------------------------------------------
(* The length, the expiry and the pages. *)

LEMMA AtIsFinite ==
  ASSUME NEW pc
  PROVE  IsFiniteSet(At(pc)) /\ Cardinality(At(pc)) \in Nat
  <1>1. IsFiniteSet(At(pc))
    BY FS_Subset DEF At
  <1>2. QED  BY <1>1, FS_CardinalityType

(* Who is about to trim, after a step of goroutine w. *)
LEMMA TrimmersMove ==
  ASSUME DataTypeOK, NEW w \in Writers, \A y \in Writers \ {w} : writer'[y] = writer[y]
  PROVE  /\ writer[w].pc = "trim" /\ writer'[w].pc # "trim" =>
              Cardinality(At("trim")') = Cardinality(At("trim")) - 1
         /\ writer[w].pc # "trim" /\ writer'[w].pc = "trim" =>
              Cardinality(At("trim")') = Cardinality(At("trim")) + 1
         /\ writer[w].pc # "trim" /\ writer'[w].pc # "trim" => At("trim")' = At("trim")
  <1>1. ASSUME writer[w].pc = "trim", writer'[w].pc # "trim"
        PROVE  Cardinality(At("trim")') = Cardinality(At("trim")) - 1
    <2>1. At("trim")' = At("trim") \ {w} /\ w \in At("trim")
      BY <1>1 DEF At
    <2>2. QED  BY <2>1, AtIsFinite, FS_RemoveElement
  <1>2. ASSUME writer[w].pc # "trim", writer'[w].pc = "trim"
        PROVE  Cardinality(At("trim")') = Cardinality(At("trim")) + 1
    <2>1. At("trim")' = At("trim") \cup {w} /\ w \notin At("trim")
      BY <1>2 DEF At
    <2>2. QED  BY <2>1, AtIsFinite, FS_AddElement
  <1>3. ASSUME writer[w].pc # "trim", writer'[w].pc # "trim"
        PROVE  At("trim")' = At("trim")
    BY <1>3 DEF At
  <1>4. QED  BY <1>1, <1>2, <1>3

LEMMA BoundedStep ==
  ASSUME OrderInv, Bounded, [DataNext]_dataVars
  PROVE  Bounded'
  <1> SUFFICES ASSUME Limit > 0
               PROVE  Len(list') <= Limit + Cardinality(At("trim")') + missedTrims'
    BY DEF Bounded
  <1>1. /\ DataTypeOK /\ DataTypeOK'
        /\ Len(list) \in Nat /\ missedTrims \in Nat /\ missedTrims' \in Nat
        /\ Cardinality(At("trim")) \in Nat
        /\ Len(list) <= Limit + Cardinality(At("trim")) + missedTrims
    BY OrderStep, AtIsFinite DEF OrderInv, DataTypeOK, Bounded
  <1>2. Cardinality(At("trim")') \in Nat
    <2>1. IsFiniteSet(At("trim")')
      BY FS_Subset DEF At
    <2>2. QED  BY <2>1, FS_CardinalityType
  <1>3. ASSUME NEW w \in Writers, Push(w)
        PROVE  Len(list') <= Limit + Cardinality(At("trim")') + missedTrims'
    <2>1. Len(list') = Len(list) + 1 /\ missedTrims' = missedTrims
      BY <1>3, Pushed DEF Push, OrderInv, HeldFresh, DataTypeOK
    <2>2. Cardinality(At("trim")') = Cardinality(At("trim")) + 1
      BY <1>1, <1>3, StepShape, TrimmersMove DEF Push
    <2>3. QED  BY <1>1, <2>1, <2>2
  <1>4. ASSUME NEW w \in Writers, Trim(w)
        PROVE  Len(list') <= Limit + Cardinality(At("trim")') + missedTrims'
    <2>1. Len(list') <= Limit /\ Len(list') \in Nat
      BY <1>1, <1>4, TrimmedIsPrefix DEF Trim, DataTypeOK
    <2>2. QED  BY <1>1, <1>2, <2>1
  <1>5. ASSUME NEW w \in Writers, TrimFails(w)
        PROVE  Len(list') <= Limit + Cardinality(At("trim")') + missedTrims'
    <2>1. Cardinality(At("trim")') = Cardinality(At("trim")) - 1
      BY <1>1, <1>5, StepShape, TrimmersMove DEF TrimFails
    <2>2. QED  BY <1>1, <1>2, <1>5, <2>1 DEF TrimFails
  <1>6. ASSUME NEW w \in Writers, Stamp(w)
        PROVE  Len(list') <= Limit + Cardinality(At("trim")') + missedTrims'
    <2>1. At("trim")' = At("trim")
      <3>1. \A y \in Writers \ {w} : writer'[y] = writer[y]
        BY <1>6 DEF Stamp, OrderInv, DataTypeOK
      <3>2. writer'[w].pc = "push"
        BY <1>6, StampShape DEF OrderInv, HeldFresh
      <3>3. QED  BY <1>1, <1>6, <3>1, <3>2, TrimmersMove DEF Stamp
    <2>2. QED  BY <1>1, <1>6, <2>1 DEF Stamp
  <1>7. ASSUME NEW w \in Writers, PushFails(w) \/ Expire(w) \/ ExpireFails(w)
        PROVE  Len(list') <= Limit + Cardinality(At("trim")') + missedTrims'
    <2>1. At("trim")' = At("trim")
      BY <1>1, <1>7, DoneShape, TrimmersMove DEF PushFails, Expire, ExpireFails
    <2>2. QED  BY <1>1, <1>7, <2>1 DEF PushFails, Expire, ExpireFails
  <1>8. CASE KeyExpires
    <2>1. Len(list') = 0
      BY <1>8 DEF KeyExpires
    <2>2. QED  BY <1>1, <1>2, <2>1
  <1>9. CASE Crash
    BY <1>1, <1>2, <1>9 DEF Crash
  <1>10. CASE (\E n \in Pages : ReadLength(n)) \/ ReadRange \/ UNCHANGED dataVars
    <2>1. UNCHANGED <<list, writer, missedTrims>>
      BY <1>10 DEF ReadLength, ReadRange, dataVars
    <2>2. At("trim")' = At("trim")
      BY <2>1 DEF At
    <2>3. QED  BY <1>1, <2>1, <2>2
  <1>11. QED
    BY <1>3, <1>4, <1>5, <1>6, <1>7, <1>8, <1>9, <1>10 DEF DataNext, Insert

LEMMA AwaitedStep ==
  ASSUME DataTypeOK, UnarmedIsAwaited, [DataNext]_dataVars
  PROVE  UnarmedIsAwaited'
  <1> DEFINE Near(y) == writer[y].pc \in {"trim", "expire"}
  <1>1. UnarmedIsAwaited <=> (list # <<>> /\ ~armed => (\E y \in Writers : Near(y)) \/ missedExpire)
    BY DEF UnarmedIsAwaited, At
  <1>2. UnarmedIsAwaited' <=>
          (list' # <<>> /\ ~armed' => (\E y \in Writers : Near(y)') \/ missedExpire')
    BY DEF UnarmedIsAwaited, At
  <1>3. ASSUME NEW w \in Writers, Push(w) \/ Trim(w) \/ TrimFails(w)
        PROVE  Near(w)'
    BY <1>3, StepShape DEF Push, Trim, TrimFails
  <1>4. ASSUME NEW w \in Writers, Stamp(w) \/ PushFails(w)
        PROVE  UNCHANGED <<list, armed, missedExpire>> /\ \A y \in Writers : Near(y) => Near(y)'
    BY <1>4 DEF Stamp, PushFails, Done, DataTypeOK
  <1>5. ASSUME NEW w \in Writers, Expire(w)
        PROVE  list' # <<>> => armed'
    BY <1>5 DEF Expire
  <1>6. ASSUME NEW w \in Writers, ExpireFails(w)
        PROVE  missedExpire'
    BY <1>6 DEF ExpireFails
  <1>7. ASSUME KeyExpires PROVE list' = <<>>
    BY <1>7 DEF KeyExpires
  <1>8. ASSUME Crash
        PROVE  /\ UNCHANGED <<list, armed>>
               /\ missedExpire \/ (\E y \in Writers : Near(y)) => missedExpire'
    BY <1>8 DEF Crash, At
  <1>9. ASSUME (\E n \in Pages : ReadLength(n)) \/ ReadRange \/ UNCHANGED dataVars
        PROVE  UNCHANGED <<list, armed, writer, missedExpire>>
    BY <1>9 DEF ReadLength, ReadRange, dataVars
  <1>10. UNCHANGED writer => \A y \in Writers : Near(y) => Near(y)'
    OBVIOUS
  <1> HIDE DEF Near
  <1>11. QED
    BY <1>1, <1>2, <1>3, <1>4, <1>5, <1>6, <1>7, <1>8, <1>9, <1>10 DEF DataNext, Insert

LEMMA FitsStep ==
  ASSUME DataTypeOK, PageFits, [DataNext]_dataVars
  PROVE  PageFits'
  <1>1. CASE ReadRange
    BY <1>1, ReadOK
  <1>2. CASE \E n \in Pages : ReadLength(n)
    BY <1>2 DEF ReadLength, PageFits
  <1>3. CASE Crash
    BY <1>3 DEF Crash, NoPage, PageFits
  <1>4. CASE UNCHANGED reader
    BY <1>4 DEF PageFits
  <1>5. QED
    BY <1>1, <1>2, <1>3, <1>4
    DEF DataNext, Stamp, Insert, Push, PushFails, Trim, TrimFails, Expire, ExpireFails,
        KeyExpires, dataVars

DataInv == OrderInv /\ Bounded /\ UnarmedIsAwaited /\ PageFits

LEMMA DataInvInit == DataInit => DataInv
  <1> SUFFICES ASSUME DataInit PROVE Bounded /\ UnarmedIsAwaited /\ PageFits
    BY OrderInit DEF DataInv
  <1>1. Bounded
    BY AtIsFinite DEF DataInit, Bounded
  <1>2. QED  BY <1>1 DEF DataInit, UnarmedIsAwaited, PageFits, NoPage

LEMMA DataInvStep == DataInv /\ [DataNext]_dataVars => DataInv'
  <1>1. OrderInv => DataTypeOK
    BY DEF OrderInv
  <1>2. QED  BY <1>1, OrderStep, BoundedStep, AwaitedStep, FitsStep DEF DataInv

(* The list of a device is bounded by its limit and by what is on its way, *)
(* for any number of goroutines. *)
THEOREM ListIsBounded == DataSpec => []Bounded
  <1>1. DataInv => Bounded
    BY DEF DataInv
  <1>2. QED  BY <1>1, DataInvInit, DataInvStep, PTL DEF DataSpec

(* A list without an expiry has somebody about to set one, for any number  *)
(* of goroutines. *)
THEOREM ListsGetExpiries == DataSpec => []UnarmedIsAwaited
  <1>1. DataInv => UnarmedIsAwaited
    BY DEF DataInv
  <1>2. QED  BY <1>1, DataInvInit, DataInvStep, PTL DEF DataSpec

(* A page has at most its size of records unless the list was empty, for   *)
(* any page size. *)
THEOREM PagesFit == DataSpec => []PageFits
  <1>1. DataInv => PageFits
    BY DEF DataInv
  <1>2. QED  BY <1>1, DataInvInit, DataInvStep, PTL DEF DataSpec

-----------------------------------------------------------------------------
(* One goroutine alone keeps the records in order.                         *)
NoOverlap ==
  /\ \A w \in Writers : writer[w].pc = "push" => writer[w].rec.with = {}
  /\ \A i \in 1 .. Len(list) : list[i].with = {}

NewestFirst == \A i, j \in 1 .. Len(list) : i < j => list[i].id > list[j].id

LEMMA NoOverlapStep ==
  ASSUME \A v, w \in Writers : v = w, OrderInv, NoOverlap, [DataNext]_dataVars
  PROVE  NoOverlap'
  <1>1. list \in Seq(Records) /\ DataTypeOK
    BY DEF OrderInv, DataTypeOK
  <1>2. ASSUME NEW w \in Writers, Stamp(w) PROVE NoOverlap'
    <2>1. Held = {}
      BY <1>2 DEF Held, At, Stamp
    <2>2. /\ writer'[w].rec.with = Held
          /\ \A y \in Writers \ {w} : writer'[y] = writer[y]
      BY <1>1, <1>2, StampShape DEF OrderInv, HeldFresh
    <2>3. QED  BY <1>2, <2>1, <2>2 DEF NoOverlap, Stamp
  <1>3. ASSUME NEW w \in Writers, Push(w) PROVE NoOverlap'
    <2>1. writer[w].rec \in Records /\ writer[w].rec.with = {}
      BY <1>3 DEF OrderInv, HeldFresh, NoOverlap, Push
    <2>2. /\ writer'[w].pc = "trim"
          /\ \A y \in Writers \ {w} : writer'[y] = writer[y]
      BY <1>1, <1>3, StepShape DEF Push
    <2>3. /\ Len(list') = Len(list) + 1 /\ list'[1] = writer[w].rec
          /\ \A i \in 1 .. Len(list') : i > 1 => i - 1 \in 1 .. Len(list) /\ list'[i] = list[i - 1]
      BY <1>1, <1>3, <2>1, Pushed DEF Push
    <2>4. \A i \in 1 .. Len(list') : list'[i].with = {}
      <3>1. \A i \in 1 .. Len(list') : i = 1 \/ i > 1
        BY <1>1, <2>3
      <3>2. QED  BY <2>1, <2>3, <3>1 DEF NoOverlap
    <2>5. QED  BY <2>2, <2>4 DEF NoOverlap
  <1>4. ASSUME NEW w \in Writers,
               PushFails(w) \/ Trim(w) \/ TrimFails(w) \/ Expire(w) \/ ExpireFails(w)
        PROVE  NoOverlap'
    <2>1. /\ writer'[w].pc # "push"
          /\ \A y \in Writers \ {w} : writer'[y] = writer[y]
      <3>1. CASE Trim(w) \/ TrimFails(w)
        BY <1>1, <3>1, StepShape DEF Trim, TrimFails
      <3>2. CASE PushFails(w) \/ Expire(w) \/ ExpireFails(w)
        BY <1>1, <3>2, DoneShape DEF PushFails, Expire, ExpireFails
      <3>3. QED  BY <1>4, <3>1, <3>2
    <2>2. /\ Len(list') \in Nat /\ Len(list') <= Len(list)
          /\ \A i \in 1 .. Len(list') : list'[i] = list[i]
      BY <1>1, <1>4, TrimmedIsPrefix DEF PushFails, Trim, TrimFails, Expire, ExpireFails
    <2>3. QED  BY <1>1, <2>1, <2>2 DEF NoOverlap
  <1>5. CASE KeyExpires
    <2>1. list' = <<>> /\ writer' = writer
      BY <1>5 DEF KeyExpires
    <2>2. QED  BY <2>1 DEF NoOverlap
  <1>6. CASE Crash
    BY <1>6 DEF Crash, NoOverlap, Resting
  <1>7. CASE (\E n \in Pages : ReadLength(n)) \/ ReadRange \/ UNCHANGED dataVars
    BY <1>7 DEF ReadLength, ReadRange, dataVars, NoOverlap
  <1>8. QED
    BY <1>2, <1>3, <1>4, <1>5, <1>6, <1>7 DEF DataNext, Insert

(* With one goroutine, so that messages are recorded one after another,    *)
(* the list is always newest first, whatever fails, expires or crashes:    *)
(* only concurrency disorders it (redisManager.go:137-143).            *)
THEOREM SerialRecordsAreOrdered ==
  ASSUME \A v, w \in Writers : v = w
  PROVE  DataSpec => []NewestFirst
  <1>1. DataInit => NoOverlap
    <2>1. DataInit => Len(list) = 0 /\ \A w \in Writers : writer[w].pc = "idle"
      BY DEF DataInit, Resting
    <2>2. QED  BY <2>1 DEF NoOverlap
  <1>2. OrderInv /\ NoOverlap /\ [DataNext]_dataVars => NoOverlap'
    BY NoOverlapStep
  <1>3. OrderInv /\ NoOverlap => NewestFirst
    <2> SUFFICES ASSUME OrderInv, NoOverlap, NEW i \in 1 .. Len(list), NEW j \in 1 .. Len(list),
                        i < j
                 PROVE  list[i].id > list[j].id
      BY DEF NewestFirst
    <2>1. /\ list[i].id \in 1 .. stamped /\ list[j].id \in 1 .. stamped /\ stamped \in Nat
          /\ list[i].id # list[j].id
      BY DEF OrderInv, DataTypeOK
    <2>2. ~ (list[i].id < list[j].id)
      BY DEF OrderInv, OutOfOrderOverlapped, NoOverlap
    <2>3. QED  BY <2>1, <2>2
  <1>4. QED  BY <1>1, <1>2, <1>3, OrderInit, OrderStep, PTL DEF DataSpec
=============================================================================
