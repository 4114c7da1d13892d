----------------------------- MODULE DeviceData -----------------------------
(***************************************************************************)
(* The recent records of one device, a list in Redis with the newest at    *)
(* its head.  Each message is recorded by a goroutine of its own: it takes *)
(* the time, and InsertData then pushes the record, trims the list and     *)
(* sets the expiry of its key, three commands others come between; errors  *)
(* of the last two are ignored.  Pages are read with two commands.  A      *)
(* command that fails is taken not to have been carried out.               *)
(***************************************************************************)
EXTENDS Integers, Sequences, FiniteSets

CONSTANTS
    Writers,     \* goroutines that record messages of the device
    Limit,       \* recordLimit
    PageSize,
    Pages,       \* numbers of the pages that are asked for
    MaxRecords   \* bound: messages of the device

ASSUME WritersAssumption == IsFiniteSet(Writers)
ASSUME LimitAssumption == Limit \in Nat
ASSUME PagesAssumption == PageSize \in Nat \ {0} /\ Pages \subseteq Nat \ {0}
ASSUME RecordsAssumption == MaxRecords \in Nat

VARIABLES
    list,         \* the list; <<>> when there is no key
    armed,        \* whether its key has an expiry
    writer,       \* writer[w]: where goroutine w is, and with which record
    stamped,      \* number of the last record whose time was taken
    reader,       \* the request for a page
    missedTrims,  \* history: trims that were lost since one was made
    missedExpire  \* history: whether an expiry was lost since one was set

dataVars == <<list, armed, writer, stamped, reader, missedTrims, missedExpire>>

(* A record has the number of its time; with is history: the records that  *)
(* had their times already and were not pushed yet.                        *)
Records == [id : Nat, with : SUBSET Nat]
NoRecord == [id |-> 0, with |-> {}]
Resting  == [pc |-> "idle", rec |-> NoRecord]
NoPage   == [pc |-> "idle", num |-> 0, total |-> 0, page |-> <<>>]

At(pc)     == {w \in Writers : writer[w].pc = pc}
Held       == {writer[w].rec.id : w \in At("push")}
Step(w, pc) == writer' = [writer EXCEPT ![w].pc = pc]
Done(w)    == writer' = [writer EXCEPT ![w] = Resting]

DataInit ==
    /\ list = <<>>
    /\ armed = FALSE
    /\ writer = [w \in Writers |-> Resting]
    /\ stamped = 0
    /\ reader = NoPage
    /\ missedTrims = 0
    /\ missedExpire = FALSE

-----------------------------------------------------------------------------
(* A message's goroutine starts and takes the time. *)
Stamp(w) ==
    /\ writer[w].pc = "idle"
    /\ stamped < MaxRecords
    /\ stamped' = stamped + 1
    /\ writer' = [writer EXCEPT ![w] = [pc |-> "push",
                                        rec |-> [id |-> stamped + 1, with |-> Held]]]
    /\ UNCHANGED <<list, armed, reader, missedTrims, missedExpire>>

(* As a bug: RPUSH puts the record at the other end. *)
PushTail(w) ==
    /\ writer[w].pc = "push"
    /\ list' = Append(list, writer[w].rec)
    /\ Step(w, "trim")
    /\ UNCHANGED <<armed, stamped, reader, missedTrims, missedExpire>>

Push(w) ==
    /\ writer[w].pc = "push"
    /\ list' = <<writer[w].rec>> \o list
    /\ Step(w, "trim")
    /\ UNCHANGED <<armed, stamped, reader, missedTrims, missedExpire>>

PushFails(w) ==
    /\ writer[w].pc = "push"
    /\ Done(w)
    /\ UNCHANGED <<list, armed, stamped, reader, missedTrims, missedExpire>>

(* LTRIM from 0 to limit - 1; with limit 0 that is the whole list. *)
Trimmed(l, limit) ==
    IF limit = 0 \/ Len(l) <= limit THEN l ELSE SubSeq(l, 1, limit)

(* As a bug: LTRIM from 0 to limit. *)
TrimLong(w) ==
    /\ writer[w].pc = "trim"
    /\ list' = Trimmed(list, Limit + 1)
    /\ missedTrims' = 0
    /\ Step(w, "expire")
    /\ UNCHANGED <<armed, stamped, reader, missedExpire>>

(* As a bug: the expiry is set only when the list was too long. *)
TrimAndExpire(w) ==
    /\ writer[w].pc = "trim"
    /\ list' = Trimmed(list, Limit)
    /\ missedTrims' = 0
    /\ IF list' # list THEN Step(w, "expire") ELSE Done(w)
    /\ UNCHANGED <<armed, stamped, reader, missedExpire>>

Trim(w) ==
    /\ writer[w].pc = "trim"
    /\ list' = Trimmed(list, Limit)
    /\ missedTrims' = 0
    /\ Step(w, "expire")
    /\ UNCHANGED <<armed, stamped, reader, missedExpire>>

TrimFails(w) ==
    /\ writer[w].pc = "trim"
    /\ missedTrims' = missedTrims + 1
    /\ Step(w, "expire")
    /\ UNCHANGED <<list, armed, stamped, reader, missedExpire>>

(* EXPIRE does nothing when there is no key. *)
Expire(w) ==
    /\ writer[w].pc = "expire"
    /\ armed' = (list # <<>>)
    /\ missedExpire' = FALSE
    /\ Done(w)
    /\ UNCHANGED <<list, stamped, reader, missedTrims>>

(* As a bug: an error of EXPIRE makes the caller insert the record again. *)
ExpireFailsAgain(w) ==
    /\ writer[w].pc = "expire"
    /\ missedExpire' = TRUE
    /\ Step(w, "push")
    /\ UNCHANGED <<list, armed, stamped, reader, missedTrims>>

ExpireFails(w) ==
    /\ writer[w].pc = "expire"
    /\ missedExpire' = TRUE
    /\ Done(w)
    /\ UNCHANGED <<list, armed, stamped, reader, missedTrims>>

Insert(w) ==
    Push(w) \/ PushFails(w) \/ Trim(w) \/ TrimFails(w) \/ Expire(w) \/ ExpireFails(w)

-----------------------------------------------------------------------------
(* Redis drops the key when its time is up. *)
KeyExpires ==
    /\ armed
    /\ list' = <<>>
    /\ armed' = FALSE
    /\ missedTrims' = 0
    /\ missedExpire' = FALSE
    /\ UNCHANGED <<writer, stamped, reader>>

(* The process ends with its goroutines; the list stays. *)
Crash ==
    /\ writer' = [w \in Writers |-> Resting]
    /\ reader' = NoPage
    /\ missedTrims' = missedTrims + Cardinality(At("trim"))
    /\ missedExpire' = (missedExpire \/ At("trim") \cup At("expire") # {})
    /\ UNCHANGED <<list, armed, stamped>>

-----------------------------------------------------------------------------
(* GetDeviceDetailDataByPage: the length, then the range of the page, cut  *)
(* at that length.                                                         *)
ReadLength(n) ==
    /\ reader.pc # "range"
    /\ reader' = [pc |-> "range", num |-> n, total |-> Len(list), page |-> <<>>]
    /\ UNCHANGED <<list, armed, writer, stamped, missedTrims, missedExpire>>

(* LRANGE counts from 0, and a negative end from the end of the list.      *)
Range0(l, start, end) ==
    LET last == IF end < 0 THEN Len(l) + end ELSE end
    IN  SubSeq(l, start + 1, IF last < Len(l) THEN last + 1 ELSE Len(l))

PageStart == (reader.num - 1) * PageSize
PageEnd   ==
    IF PageStart + PageSize > reader.total THEN reader.total ELSE PageStart + PageSize

(* As a bug: the end of the range is taken to be exclusive. *)
ReadRangeLong ==
    /\ reader.pc = "range"
    /\ reader' = [reader EXCEPT !.pc = "shown", !.page = Range0(list, PageStart, PageEnd)]
    /\ UNCHANGED <<list, armed, writer, stamped, missedTrims, missedExpire>>

ReadRange ==
    /\ reader.pc = "range"
    /\ reader' = [reader EXCEPT !.pc = "shown", !.page = Range0(list, PageStart, PageEnd - 1)]
    /\ UNCHANGED <<list, armed, writer, stamped, missedTrims, missedExpire>>

DataNext ==
    \/ \E w \in Writers : Stamp(w) \/ Insert(w)
    \/ KeyExpires \/ Crash
    \/ \E n \in Pages : ReadLength(n)
    \/ ReadRange

DataSpec == DataInit /\ [][DataNext]_dataVars

(* Goroutines go on, and Redis drops what has expired. *)
DataFairness ==
    /\ \A w \in Writers : WF_dataVars(Insert(w))
    /\ WF_dataVars(KeyExpires)

-----------------------------------------------------------------------------
DataTypeOK ==
    /\ list \in Seq(Records)
    /\ \A i, j \in 1 .. Len(list) : list[i].id = list[j].id => i = j
    /\ \A i \in 1 .. Len(list) : list[i].id \in 1 .. stamped
    /\ armed \in BOOLEAN
    /\ armed => list # <<>>
    /\ writer \in [Writers -> [pc : {"push", "trim", "expire"}, rec : Records] \cup {Resting}]
    /\ stamped \in 0 .. MaxRecords
    /\ reader \in [pc : {"range", "shown"}, num : Pages, total : Nat, page : Seq(Records)]
                    \cup {NoPage}
    /\ missedTrims \in Nat
    /\ missedExpire \in BOOLEAN

(* The list is never longer than its limit by more than the records whose  *)
(* goroutines have yet to trim it and those whose trim was lost, and one   *)
(* trim that succeeds makes up for all. *)
Bounded ==
    Limit > 0 => Len(list) <= Limit + Cardinality(At("trim")) + missedTrims

(* A list without an expiry, which would stay for ever, has a goroutine    *)
(* that is about to set one, unless an expiry was lost to an error or to   *)
(* the end of the process: also when the key expired while goroutines were *)
(* between their commands. *)
UnarmedIsAwaited ==
    list # <<>> /\ ~armed => At("trim") \cup At("expire") # {} \/ missedExpire

(* A record is nearer to the head than a newer one only when the two were  *)
(* recorded at the same time. *)
OutOfOrderOverlapped ==
    \A i, j \in 1 .. Len(list) :
      i < j /\ list[i].id < list[j].id => list[i].id \in list[j].with

(* A page shows no more records than it has room for, unless the list was  *)
(* empty when its length was read: its range then ends at -1, and shows    *)
(* whatever was recorded before it is read. *)
PageFits ==
    reader.pc = "shown" /\ reader.total > 0 => Len(reader.page) <= PageSize

(* The list of a device that falls silent is cleared in the end, unless an *)
(* expiry was lost. *)
Cleared == []<>(list = <<>> \/ missedExpire)
=============================================================================
