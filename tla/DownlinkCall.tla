---------------------------- MODULE DownlinkCall ----------------------------
(***************************************************************************)
(* Synchronous calls to a device (service call, property set) over the     *)
(* asynchronous MQTT link.  The caller publishes the request, registers a  *)
(* channel of capacity one under the message id in AsyncMapInfo and waits  *)
(* for an answer, its timer or its context; the jobs that handle incoming  *)
(* messages look the id up and send on the channel they find.              *)
(***************************************************************************)
EXTENDS Naturals

CONSTANTS
    Calls,       \* the calls; a call stands for its message id (guid.S())
    Jobs,        \* goroutines of the router's pool
    Kind,        \* Kind[c]: which of the two calls c is
    MaxReplies,  \* bound: messages the device sends in answer to each request
    NoCall

ASSUME KindAssumption == Kind \in [Calls -> {"service", "property"}]
ASSUME RepliesAssumption == MaxReplies \in [Calls -> Nat]
ASSUME NoCallAssumption == NoCall \notin Calls

VARIABLES
    process,     \* "up", or "down" after a panic or a fatal error
    caller,      \* caller[c]: where the goroutine of call c is
    outcome,     \* outcome[c]: how SyncRequest left its select
    answer,      \* answer[c]: what it received from its channel
    Info,        \* AsyncMapInfo.Info: the registered ids
    writer,      \* the call that holds AsyncMapInfo's write lock
    chan,        \* chan[c]: state of the channel call c made
    buffer,      \* buffer[c]: the one slot of that channel
    requested,   \* the calls whose request has reached the device
    sent,        \* sent[c]: messages the device has sent in answer to c
    replies,     \* replies[c]: those that have not reached the platform yet
    job          \* job[j]: where pool goroutine j is, and for which reply

callVars == <<caller, outcome, answer>>
mapVars  == <<Info, writer>>
chanVars == <<chan, buffer>>
linkVars == <<requested, sent, replies>>
vars     == <<process, callVars, mapVars, chanVars, linkVars, job>>

(* What is sent on a channel: the decoded message as it came ("raw", from  *)
(* the router) or the outputs the thing model lists ("outputs", from the   *)
(* topic's handler), of the message with that id.                          *)
Answers == [id : Calls, form : {"raw", "outputs"}]
Empty   == [id |-> NoCall, form |-> "none"]
Idle    == [pc |-> "free", id |-> NoCall]

CallerPCs == {"idle", "published", "registering", "waiting", "leaving",
              "deleting", "closing", "done", "lost"}
JobPCs    == {"peek", "push", "detail", "lookup", "reply", "failed"}

TypeOK ==
    /\ process \in {"up", "down"}
    /\ caller \in [Calls -> CallerPCs]
    /\ outcome \in [Calls -> {"none", "answered", "timeout", "cancelled", "refused"}]
    /\ answer \in [Calls -> Answers \cup {Empty}]
    /\ Info \subseteq Calls
    /\ writer \in Calls \cup {NoCall}
    /\ chan \in [Calls -> {"nil", "open", "closed"}]
    /\ buffer \in [Calls -> Answers \cup {Empty}]
    /\ requested \subseteq Calls
    /\ sent \in [Calls -> Nat]
    /\ replies \in [Calls -> Nat]
    /\ job \in [Jobs -> [pc : JobPCs, id : Calls] \cup {Idle}]

Init ==
    /\ process = "up"
    /\ caller = [c \in Calls |-> "idle"]
    /\ outcome = [c \in Calls |-> "none"]
    /\ answer = [c \in Calls |-> Empty]
    /\ Info = {}
    /\ writer = NoCall
    /\ chan = [c \in Calls |-> "nil"]
    /\ buffer = [c \in Calls |-> Empty]
    /\ requested = {}
    /\ sent = [c \in Calls |-> 0]
    /\ replies = [c \in Calls |-> 0]
    /\ job = [j \in Jobs |-> Idle]

-----------------------------------------------------------------------------
(* The caller. *)

Moves(c, from, to) ==
    /\ process = "up"
    /\ caller[c] = from
    /\ caller' = [caller EXCEPT ![c] = to]

(* The route is not resolved (no gateway, gateway offline), or the         *)
(* transport refuses the message: the call ends without registering.       *)
Refuse(c) ==
    /\ Moves(c, "idle", "done")
    /\ outcome' = [outcome EXCEPT ![c] = "refused"]
    /\ UNCHANGED <<process, answer, mapVars, chanVars, linkVars, job>>

(* Publish returns before the broker has acknowledged anything, so the     *)
(* request may be lost.  Nothing is registered for the id yet.             *)
Publish(c) ==
    /\ Moves(c, "idle", "published")
    /\ requested' \in {requested, requested \cup {c}}
    /\ UNCHANGED <<process, outcome, answer, mapVars, chanVars, sent, replies, job>>

ServiceCall(c) == Kind[c] = "service" /\ (Refuse(c) \/ Publish(c))
PropertySet(c) == Kind[c] = "property" /\ (Refuse(c) \/ Publish(c))

(* make(chan interface{}, 1), then the write lock. *)
LockToRegister(c) ==
    /\ Moves(c, "published", "registering")
    /\ writer = NoCall
    /\ writer' = c
    /\ chan' = [chan EXCEPT ![c] = "open"]
    /\ UNCHANGED <<process, outcome, answer, Info, buffer, linkVars, job>>

Register(c) ==
    /\ Moves(c, "registering", "waiting")
    /\ Info' = Info \cup {c}
    /\ writer' = NoCall
    /\ UNCHANGED <<process, outcome, answer, chanVars, linkVars, job>>

(* As a bug: an empty channel is received from.                          *)
ReceiveUnguarded(c) ==
    /\ Moves(c, "waiting", "leaving")
    /\ answer' = [answer EXCEPT ![c] = buffer[c]]
    /\ buffer' = [buffer EXCEPT ![c] = Empty]
    /\ outcome' = [outcome EXCEPT ![c] = "answered"]
    /\ UNCHANGED <<process, mapVars, chan, linkVars, job>>

(* The three arms of the select; any that is ready may be taken. *)
Receive(c) ==
    /\ Moves(c, "waiting", "leaving")
    /\ buffer[c] # Empty
    /\ answer' = [answer EXCEPT ![c] = buffer[c]]
    /\ buffer' = [buffer EXCEPT ![c] = Empty]
    /\ outcome' = [outcome EXCEPT ![c] = "answered"]
    /\ UNCHANGED <<process, mapVars, chan, linkVars, job>>

GiveUp(c, why) ==
    /\ Moves(c, "waiting", "leaving")
    /\ outcome' = [outcome EXCEPT ![c] = why]
    /\ UNCHANGED <<process, answer, mapVars, chanVars, linkVars, job>>

(* As a bug: the select has no arm for the timer.                        *)
TimeOutMissing(c) == FALSE /\ GiveUp(c, "timeout")

TimeOut(c) == GiveUp(c, "timeout")
Cancel(c)  == GiveUp(c, "cancelled")

(* As a bug: the channel is closed before its entry is deleted.          *)
LockToDeleteAfterClose(c) ==
    /\ Moves(c, "leaving", "deleting")
    /\ writer = NoCall
    /\ writer' = c
    /\ chan' = [chan EXCEPT ![c] = "closed"]
    /\ UNCHANGED <<process, outcome, answer, Info, buffer, linkVars, job>>

(* The deferred clean-up. *)
LockToDelete(c) ==
    /\ Moves(c, "leaving", "deleting")
    /\ writer = NoCall
    /\ writer' = c
    /\ UNCHANGED <<process, outcome, answer, Info, chanVars, linkVars, job>>

(* As a bug: only a call that was answered deletes its entry.            *)
DeleteAnsweredOnly(c) ==
    /\ Moves(c, "deleting", "closing")
    /\ Info' = IF outcome[c] = "answered" THEN Info \ {c} ELSE Info
    /\ writer' = NoCall
    /\ UNCHANGED <<process, outcome, answer, chanVars, linkVars, job>>

Delete(c) ==
    /\ Moves(c, "deleting", "closing")
    /\ Info' = Info \ {c}
    /\ writer' = NoCall
    /\ UNCHANGED <<process, outcome, answer, chanVars, linkVars, job>>

(* As a bug: the channel is not closed.                                  *)
CloseMissing(c) ==
    /\ Moves(c, "closing", "done")
    /\ UNCHANGED <<process, outcome, answer, mapVars, chanVars, linkVars, job>>

Close(c) ==
    /\ Moves(c, "closing", "done")
    /\ chan' = [chan EXCEPT ![c] = "closed"]
    /\ UNCHANGED <<process, outcome, answer, mapVars, buffer, linkVars, job>>

SyncRequest(c) ==
    \/ LockToRegister(c) \/ Register(c)
    \/ Receive(c) \/ TimeOut(c)
    \/ LockToDelete(c) \/ Delete(c) \/ Close(c)

-----------------------------------------------------------------------------
(* The device and the link. *)

DeviceReplies(c) ==
    /\ c \in requested
    /\ sent[c] < MaxReplies[c]
    /\ sent' = [sent EXCEPT ![c] = @ + 1]
    /\ replies' = [replies EXCEPT ![c] = @ + 1]
    /\ UNCHANGED <<process, callVars, mapVars, chanVars, requested, job>>

(* Replies reach a subscriber whose process is up; the client opens clean  *)
(* sessions, so what arrives while it is down is gone.                     *)
LoseReply(c) ==
    /\ replies[c] > 0
    /\ replies' = [replies EXCEPT ![c] = @ - 1]
    /\ UNCHANGED <<process, callVars, mapVars, chanVars, requested, sent, job>>

-----------------------------------------------------------------------------
(* The jobs of the router's pool: HandleMessage for a reply topic. *)

AtJob(j, pc) == process = "up" /\ job[j].pc = pc
Goto(j, pc)  == job' = [job EXCEPT ![j].pc = pc]
Finish(j)    == job' = [job EXCEPT ![j] = Idle]
OthersSame   == UNCHANGED <<callVars, linkVars>>

(* As a bug: a job starts without a message.                             *)
StartJobAnyTime(j, c) ==
    /\ AtJob(j, "free")
    /\ replies' = [replies EXCEPT ![c] = @ - 1]
    /\ job' = [job EXCEPT ![j] =
                  [pc |-> IF Kind[c] = "service" THEN "peek" ELSE "detail", id |-> c]]
    /\ UNCHANGED <<process, callVars, mapVars, chanVars, requested, sent>>

(* Only the topic .../service/<function>_reply has its suffix where the    *)
(* router looks for it; .../service/property/set_reply has it one level    *)
(* further.                                                                *)
StartJob(j, c) ==
    /\ AtJob(j, "free")
    /\ replies[c] > 0
    /\ replies' = [replies EXCEPT ![c] = @ - 1]
    /\ job' = [job EXCEPT ![j] =
                  [pc |-> IF Kind[c] = "service" THEN "peek" ELSE "detail", id |-> c]]
    /\ UNCHANGED <<process, callVars, mapVars, chanVars, requested, sent>>

(* The router reads the map without its lock.  While a caller writes it    *)
(* the Go runtime may stop the process (concurrent map read and map        *)
(* write); otherwise the read sees the map before or after the write.      *)
Peek(j) ==
    /\ AtJob(j, "peek")
    /\ \/ /\ \/ job[j].id \in Info
             \/ writer = job[j].id
          /\ Goto(j, "push")
          /\ UNCHANGED process
       \/ /\ \/ job[j].id \notin Info
             \/ writer = job[j].id
          /\ Goto(j, "detail")
          /\ UNCHANGED process
       \/ /\ writer # NoCall
          /\ process' = "down"
          /\ UNCHANGED job
    /\ UNCHANGED <<mapVars, chanVars>> /\ OthersSame

(* As a bug: the answer goes to any call that is waiting.                *)
PushToAny(j, form, next) ==
    \E c \in Info :
        /\ buffer[c] = Empty
        /\ buffer' = [buffer EXCEPT ![c] = [id |-> job[j].id, form |-> form]]
        /\ next
        /\ UNCHANGED process

(* Sending blocks on a full channel and panics on a closed one; no recover *)
(* is on the stack of a pool goroutine.                                    *)
Push(j, form, next) ==
    LET c == job[j].id IN
    \/ /\ chan[c] = "closed"
       /\ process' = "down"
       /\ UNCHANGED <<buffer, job>>
    \/ /\ chan[c] = "open"
       /\ buffer[c] = Empty
       /\ buffer' = [buffer EXCEPT ![c] = [id |-> c, form |-> form]]
       /\ next
       /\ UNCHANGED process

PushRaw(j) ==
    /\ AtJob(j, "push")
    /\ Push(j, "raw", Goto(j, "detail"))
    /\ UNCHANGED <<mapVars, chan>> /\ OthersSame

(* The device is unknown or disabled (the message is dropped), the payload *)
(* is not understood (an error), or the topic's handler runs.              *)
Detail(j) ==
    /\ AtJob(j, "detail")
    /\ Finish(j) \/ Goto(j, "failed") \/ Goto(j, "lookup")
    /\ UNCHANGED <<process, mapVars, chanVars>> /\ OthersSame

(* GetCallInfoById, under the read lock. *)
Lookup(j) ==
    /\ AtJob(j, "lookup")
    /\ writer = NoCall
    /\ Goto(j, IF job[j].id \in Info THEN "reply" ELSE "failed")
    /\ UNCHANGED <<process, mapVars, chanVars>> /\ OthersSame

PushOutputs(j) ==
    /\ AtJob(j, "reply")
    /\ Push(j, "outputs", Finish(j))
    /\ UNCHANGED <<mapVars, chan>> /\ OthersSame

(* The job returns its error to the pool. *)
Report(j) ==
    /\ AtJob(j, "failed")
    /\ Finish(j)
    /\ UNCHANGED <<process, mapVars, chanVars>> /\ OthersSame

HandleMessage(j) ==
    Peek(j) \/ PushRaw(j) \/ Detail(j) \/ Lookup(j) \/ PushOutputs(j) \/ Report(j)

-----------------------------------------------------------------------------
(* A new process has an empty map and no goroutines of the old one. *)
Restart ==
    /\ process = "down"
    /\ process' = "up"
    /\ caller' = [c \in Calls |->
                     IF caller[c] \in {"idle", "done"} THEN caller[c] ELSE "lost"]
    /\ Info' = {}
    /\ writer' = NoCall
    /\ chan' = [c \in Calls |-> "nil"]
    /\ buffer' = [c \in Calls |-> Empty]
    /\ job' = [j \in Jobs |-> Idle]
    /\ UNCHANGED <<outcome, answer, linkVars>>

Next ==
    \/ \E c \in Calls :
          \/ ServiceCall(c) \/ PropertySet(c) \/ SyncRequest(c) \/ Cancel(c)
          \/ DeviceReplies(c) \/ LoseReply(c)
          \/ \E j \in Jobs : StartJob(j, c)
    \/ \E j \in Jobs : HandleMessage(j)
    \/ Restart

Spec == Init /\ [][Next]_vars

(* Goroutines are scheduled and the timer fires; callers, devices, the     *)
(* link and the operator who restarts the process owe nothing.             *)
Fairness ==
    /\ \A c \in Calls : WF_vars(SyncRequest(c))
    /\ \A j \in Jobs : WF_vars(HandleMessage(j))

FairSpec == Spec /\ Fairness

-----------------------------------------------------------------------------
(* Properties. *)

(* Whoever finds an id in AsyncMapInfo finds an open channel there: the    *)
(* clean-up deletes the entry before it closes the channel.                *)
RegisteredChannelOpen == \A c \in Info : chan[c] = "open"

(* An entry lives no longer than its call: the map does not grow with the  *)
(* calls that timed out.                                                   *)
EntryHasWaiter ==
    \A c \in Info : caller[c] \in {"waiting", "leaving", "deleting"}

(* A call that returns an answer returns one the device sent for its own   *)
(* message id, whatever other calls were in flight.                        *)
AnswerIsOwn ==
    \A c \in Calls : outcome[c] = "answered" =>
        answer[c].id = c /\ c \in requested /\ sent[c] > 0

(* Every published call comes back to its HTTP caller, with or without an  *)
(* answer, unless the process dies.                                        *)
CallEnds ==
    \A c \in Calls :
        caller[c] = "published" ~> caller[c] \in {"done", "lost"} \/ process = "down"

(* No pool goroutine stays blocked on a full response channel: the caller  *)
(* takes the answer, or its close ends the send (with a panic).            *)
SenderIsFreed ==
    \A j \in Jobs :
        job[j].pc \in {"push", "reply"}
            ~> job[j].pc \notin {"push", "reply"} \/ process = "down"

(* The calls implement RpcCall: a result is final when SyncRequest has     *)
(* returned, and an answer is one only if it is the call's own.            *)
CallStatus(c) ==
    IF caller[c] = "idle" THEN "idle"
    ELSE IF caller[c] = "lost" THEN "failed"
    ELSE IF caller[c] # "done" THEN "pending"
    ELSE IF outcome[c] # "answered" THEN "failed"
    ELSE IF answer[c].id = c THEN "answered" ELSE "misanswered"

Rpc == INSTANCE RpcCall WITH
           status  <- [c \in Calls |-> CallStatus(c)],
           replied <- {c \in Calls : sent[c] > 0}

ImplementsRpc == Rpc!Spec

-----------------------------------------------------------------------------
(* What the code does not keep, refuted by a run of its own. *)

(* Nobody is about to send on a channel its caller has closed: in the test *)
(* of SyncRequest the look-up and the send are one critical section.       *)
NoSendOnClosed ==
    process = "up" =>
        ~ \E j \in Jobs : /\ job[j].pc \in {"push", "reply"}
                         /\ chan[job[j].id] = "closed"
=============================================================================
