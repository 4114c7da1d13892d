------------------------- MODULE DownlinkCallProofs -------------------------
(***************************************************************************)
(* TLAPS proofs about DownlinkCall, for any set of calls and jobs and any  *)
(* number of replies.                                                      *)
(***************************************************************************)
EXTENDS DownlinkCall, TLAPS

USE KindAssumption, RepliesAssumption, NoCallAssumption
    DEF Answers, Empty, Idle, CallerPCs, JobPCs

LEMMA TypeInit == Init => TypeOK
  BY DEF Init, TypeOK

LEMMA TypeStep == TypeOK /\ [Next]_vars => TypeOK'
<1> SUFFICES ASSUME TypeOK, [Next]_vars PROVE TypeOK'
  OBVIOUS
<1> USE DEF TypeOK, Moves, callVars, mapVars, chanVars, linkVars, OthersSame,
            AtJob, Goto, Finish
<1>1. ASSUME NEW c \in Calls, ServiceCall(c) \/ PropertySet(c) PROVE TypeOK'
  BY <1>1 DEF ServiceCall, PropertySet, Refuse, Publish
<1>2. ASSUME NEW c \in Calls, SyncRequest(c) \/ Cancel(c) PROVE TypeOK'
  BY <1>2 DEF SyncRequest, LockToRegister, Register, Receive, TimeOut, Cancel,
              GiveUp, LockToDelete, Delete, Close
<1>3. ASSUME NEW c \in Calls, DeviceReplies(c) PROVE TypeOK'
  BY <1>3 DEF DeviceReplies
<1>4. ASSUME NEW c \in Calls, LoseReply(c) PROVE TypeOK'
  BY <1>4 DEF LoseReply
<1>5. ASSUME NEW c \in Calls, NEW j \in Jobs, StartJob(j, c) PROVE TypeOK'
  BY <1>5 DEF StartJob
<1>6. ASSUME NEW j \in Jobs, HandleMessage(j) PROVE TypeOK'
  <2>1. CASE Peek(j)
    BY <2>1 DEF Peek
  <2>2. CASE PushRaw(j)
    BY <2>2 DEF PushRaw, Push
  <2>3. CASE Detail(j)
    BY <2>3 DEF Detail
  <2>4. CASE Lookup(j)
    BY <2>4 DEF Lookup
  <2>5. CASE PushOutputs(j)
    BY <2>5 DEF PushOutputs, Push
  <2>6. CASE Report(j)
    BY <2>6 DEF Report
  <2> QED
    BY <1>6, <2>1, <2>2, <2>3, <2>4, <2>5, <2>6 DEF HandleMessage
<1>7. CASE Restart
  BY <1>7 DEF Restart
<1>8. CASE UNCHANGED vars
  BY <1>8 DEF vars
<1> QED
  BY <1>1, <1>2, <1>3, <1>4, <1>5, <1>6, <1>7, <1>8 DEF Next

(* Every variable keeps its type in every reachable state. *)
THEOREM TypeCorrect == Spec => []TypeOK
  BY TypeInit, TypeStep, PTL DEF Spec

-----------------------------------------------------------------------------
(* The inductive invariant.  Its first part ties the map, the lock and the *)
(* channels to where each caller is; its second part follows an answer     *)
(* from the device through the job and the buffer to the caller.           *)

CallerOwnsEntry ==
    \A c \in Calls :
        /\ c \in Info => caller[c] \in {"waiting", "leaving", "deleting"}
        /\ caller[c] \in {"registering", "waiting", "leaving", "deleting", "closing"}
              => chan[c] = "open"
        /\ writer = c => caller[c] \in {"registering", "deleting"}
        /\ caller[c] \in {"registering", "deleting"} => writer = c

AnswersTraced ==
    /\ \A c \in Calls :
          /\ replies[c] > 0 => sent[c] > 0
          /\ sent[c] > 0 => c \in requested
          /\ c \in requested => caller[c] # "idle"
          /\ buffer[c] # Empty => buffer[c].id = c /\ sent[c] > 0
          /\ outcome[c] = "answered" => answer[c].id = c /\ sent[c] > 0
    /\ \A j \in Jobs : job[j].pc # "free" => sent[job[j].id] > 0

IInv == TypeOK /\ CallerOwnsEntry /\ AnswersTraced

LEMMA IInvInit == Init => IInv
  BY TypeInit DEF Init, IInv, CallerOwnsEntry, AnswersTraced

LEMMA OwnsStep ==
  ASSUME TypeOK, CallerOwnsEntry, [Next]_vars
  PROVE  CallerOwnsEntry'
<1> USE DEF TypeOK, CallerOwnsEntry, Moves, callVars, mapVars, chanVars,
            linkVars, OthersSame
<1>1. ASSUME NEW c \in Calls, ServiceCall(c) \/ PropertySet(c) PROVE CallerOwnsEntry'
  BY <1>1 DEF ServiceCall, PropertySet, Refuse, Publish
<1>2. ASSUME NEW c \in Calls, SyncRequest(c) \/ Cancel(c) PROVE CallerOwnsEntry'
  <2>1. CASE LockToRegister(c)
    BY <2>1 DEF LockToRegister
  <2>2. CASE Register(c)
    BY <2>2 DEF Register
  <2>3. CASE Receive(c)
    BY <2>3 DEF Receive
  <2>4. CASE TimeOut(c) \/ Cancel(c)
    BY <2>4 DEF TimeOut, Cancel, GiveUp
  <2>5. CASE LockToDelete(c)
    BY <2>5 DEF LockToDelete
  <2>6. CASE Delete(c)
    BY <2>6 DEF Delete
  <2>7. CASE Close(c)
    BY <2>7 DEF Close
  <2> QED
    BY <1>2, <2>1, <2>2, <2>3, <2>4, <2>5, <2>6, <2>7 DEF SyncRequest
<1>3. ASSUME NEW c \in Calls, DeviceReplies(c) \/ LoseReply(c) PROVE CallerOwnsEntry'
  BY <1>3 DEF DeviceReplies, LoseReply
<1>4. ASSUME NEW c \in Calls, NEW j \in Jobs, StartJob(j, c) PROVE CallerOwnsEntry'
  BY <1>4 DEF StartJob
<1>5. ASSUME NEW j \in Jobs, HandleMessage(j) PROVE CallerOwnsEntry'
  BY <1>5 DEF HandleMessage, Peek, PushRaw, Push, Detail, Lookup, PushOutputs, Report
<1>6. CASE Restart
  BY <1>6 DEF Restart
<1>7. CASE UNCHANGED vars
  BY <1>7 DEF vars
<1> QED
  BY <1>1, <1>2, <1>3, <1>4, <1>5, <1>6, <1>7 DEF Next

LEMMA TracedStep ==
  ASSUME TypeOK, AnswersTraced, [Next]_vars
  PROVE  AnswersTraced'
<1> USE DEF TypeOK, AnswersTraced, Moves, callVars, mapVars, chanVars,
            linkVars, OthersSame, AtJob, Goto, Finish
<1>1. ASSUME NEW c \in Calls, ServiceCall(c) \/ PropertySet(c) PROVE AnswersTraced'
  BY <1>1 DEF ServiceCall, PropertySet, Refuse, Publish
<1>2. ASSUME NEW c \in Calls, SyncRequest(c) \/ Cancel(c) PROVE AnswersTraced'
  <2>1. CASE Receive(c)
    BY <2>1 DEF Receive
  <2>2. CASE TimeOut(c) \/ Cancel(c)
    BY <2>2 DEF TimeOut, Cancel, GiveUp
  <2>3. CASE LockToRegister(c) \/ Register(c) \/ LockToDelete(c) \/ Delete(c) \/ Close(c)
    BY <2>3 DEF LockToRegister, Register, LockToDelete, Delete, Close
  <2> QED
    BY <1>2, <2>1, <2>2, <2>3 DEF SyncRequest
<1>3. ASSUME NEW c \in Calls, DeviceReplies(c) PROVE AnswersTraced'
  BY <1>3 DEF DeviceReplies
<1>4. ASSUME NEW c \in Calls, LoseReply(c) PROVE AnswersTraced'
  BY <1>4 DEF LoseReply
<1>5. ASSUME NEW c \in Calls, NEW j \in Jobs, StartJob(j, c) PROVE AnswersTraced'
  BY <1>5 DEF StartJob
<1>6. ASSUME NEW j \in Jobs, HandleMessage(j) PROVE AnswersTraced'
  <2>1. CASE Peek(j)
    BY <2>1 DEF Peek
  <2>2. CASE PushRaw(j)
    BY <2>2 DEF PushRaw, Push
  <2>3. CASE Detail(j)
    BY <2>3 DEF Detail
  <2>4. CASE Lookup(j)
    BY <2>4 DEF Lookup
  <2>5. CASE PushOutputs(j)
    BY <2>5 DEF PushOutputs, Push
  <2>6. CASE Report(j)
    BY <2>6 DEF Report
  <2> QED
    BY <1>6, <2>1, <2>2, <2>3, <2>4, <2>5, <2>6 DEF HandleMessage
<1>7. CASE Restart
  BY <1>7 DEF Restart
<1>8. CASE UNCHANGED vars
  BY <1>8 DEF vars
<1> QED
  BY <1>1, <1>2, <1>3, <1>4, <1>5, <1>6, <1>7, <1>8 DEF Next

LEMMA IInvStep == IInv /\ [Next]_vars => IInv'
  BY TypeStep, OwnsStep, TracedStep DEF IInv

LEMMA IInvInvariant == Spec => []IInv
  BY IInvInit, IInvStep, PTL DEF Spec

(* Finding an id in the map is finding an open channel. *)
THEOREM RegisteredOpen == Spec => []RegisteredChannelOpen
<1>1. IInv => RegisteredChannelOpen
  BY DEF IInv, TypeOK, CallerOwnsEntry, RegisteredChannelOpen
<1> QED
  BY <1>1, IInvInvariant, PTL

(* The map holds calls in progress only. *)
THEOREM EntriesAwaited == Spec => []EntryHasWaiter
<1>1. IInv => EntryHasWaiter
  BY DEF IInv, TypeOK, CallerOwnsEntry, EntryHasWaiter
<1> QED
  BY <1>1, IInvInvariant, PTL

(* A call is answered only by its own device's reply to it. *)
THEOREM AnswersOwn == Spec => []AnswerIsOwn
<1>1. IInv => AnswerIsOwn
  BY DEF IInv, AnswersTraced, AnswerIsOwn
<1> QED
  BY <1>1, IInvInvariant, PTL

-----------------------------------------------------------------------------
(* DownlinkCall implements RpcCall. *)

Status  == [c \in Calls |-> CallStatus(c)]
Replied == {c \in Calls : sent[c] > 0}

LEMMA RefinementInit == Init => Rpc!Init
  BY DEF Init, Rpc!Init, CallStatus

(* A step that leaves every caller where it is, and no reply is sent, is a *)
(* stuttering step of RpcCall: outcome and answer change in Receive only.  *)
LEMMA Stutter ==
  ASSUME UNCHANGED <<callVars, sent>>
  PROVE  UNCHANGED Rpc!vars
  BY DEF Rpc!vars, CallStatus, callVars

LEMMA RefinementStep ==
  ASSUME IInv, [Next]_vars
  PROVE  [Rpc!Next]_(Rpc!vars)
<1> USE DEF IInv, TypeOK, Moves, callVars, mapVars, chanVars, linkVars, OthersSame
<1>1. ASSUME NEW c \in Calls, ServiceCall(c) \/ PropertySet(c) PROVE Rpc!Begin(c)
  <2> USE DEF Status, Replied, CallStatus
  <2>1. UNCHANGED Replied /\ Status[c] = "idle"
    BY <1>1 DEF ServiceCall, PropertySet, Refuse, Publish
  <2>2. CASE Refuse(c)
    <3>1. Status' = [Status EXCEPT ![c] = "failed"]
      BY <2>2 DEF Refuse
    <3> QED
      BY <2>1, <3>1 DEF Rpc!Begin
  <2>3. CASE Publish(c)
    <3>1. Status' = [Status EXCEPT ![c] = "pending"]
      BY <2>3 DEF Publish
    <3> QED
      BY <2>1, <3>1 DEF Rpc!Begin
  <2> QED
    BY <1>1, <2>2, <2>3 DEF ServiceCall, PropertySet
<1>2. ASSUME NEW c \in Calls, Close(c) PROVE Rpc!Answer(c) \/ Rpc!Fail({c})
  <2>1. CASE outcome[c] = "answered"
    BY <1>2, <2>1 DEF Close, Rpc!Answer, CallStatus, AnswersTraced
  <2>2. CASE outcome[c] # "answered"
    BY <1>2, <2>2 DEF Close, Rpc!Fail, CallStatus
  <2> QED
    BY <2>1, <2>2
<1>3. ASSUME NEW c \in Calls, SyncRequest(c) \/ Cancel(c), ~Close(c)
      PROVE  UNCHANGED Rpc!vars
  <2>1. UNCHANGED sent
    BY <1>3 DEF SyncRequest, LockToRegister, Register, Receive, TimeOut, Cancel, GiveUp,
                LockToDelete, Delete
  <2>2. /\ caller[c] \notin {"idle", "done", "lost"}
        /\ caller'[c] \notin {"idle", "done", "lost"}
        /\ \A d \in Calls \ {c} : UNCHANGED <<caller[d], outcome[d], answer[d]>>
    BY <1>3 DEF SyncRequest, LockToRegister, Register, Receive, TimeOut, Cancel, GiveUp,
                LockToDelete, Delete
  <2>3. ASSUME NEW d \in Calls PROVE UNCHANGED CallStatus(d)
    BY <2>2 DEF CallStatus
  <2> QED
    BY <2>1, <2>3 DEF Rpc!vars
<1>4. ASSUME NEW c \in Calls, DeviceReplies(c)
      PROVE  Rpc!DeviceAnswers(c)
  <2>1. UNCHANGED Status
    BY <1>4 DEF DeviceReplies, Status, CallStatus
  <2>2. Replied' = Replied \cup {c}
    BY <1>4 DEF DeviceReplies, Replied
  <2>3. CallStatus(c) # "idle"
    BY <1>4 DEF DeviceReplies, CallStatus, AnswersTraced
  <2> QED
    BY <2>1, <2>2, <2>3 DEF Rpc!DeviceAnswers, Status, Replied
<1>5. ASSUME NEW c \in Calls,
             LoseReply(c) \/ \E j \in Jobs : StartJob(j, c)
      PROVE  UNCHANGED Rpc!vars
  BY <1>5, Stutter DEF LoseReply, StartJob
<1>6. ASSUME NEW j \in Jobs, HandleMessage(j) PROVE UNCHANGED Rpc!vars
  BY <1>6, Stutter DEF HandleMessage, Peek, PushRaw, Push, Detail, Lookup, PushOutputs, Report
<1>7. CASE Restart
  <2> DEFINE C == {c \in Calls : CallStatus(c) = "pending"}
  <2>1. Rpc!Fail(C)
    BY <1>7 DEF Restart, Rpc!Fail, CallStatus
  <2> QED
    BY <2>1 DEF Rpc!Next
<1>8. CASE UNCHANGED vars
  BY <1>8, Stutter DEF vars
<1>9. ASSUME NEW c \in Calls, Rpc!Begin(c) \/ Rpc!DeviceAnswers(c) \/ Rpc!Answer(c)
                                 \/ Rpc!Fail({c})
      PROVE  Rpc!Next
  BY <1>9 DEF Rpc!Next
<1>10. CASE \E c \in Calls : ServiceCall(c) \/ PropertySet(c) \/ DeviceReplies(c)
  BY <1>1, <1>4, <1>9, <1>10
<1>11. CASE \E c \in Calls : SyncRequest(c) \/ Cancel(c)
  BY <1>2, <1>3, <1>9, <1>11
<1> QED
  BY <1>5, <1>6, <1>7, <1>8, <1>10, <1>11 DEF Next

(* The calls with their map, lock, channels and jobs implement the promise *)
(* of RpcCall.                                                             *)
THEOREM CallsImplementRpc == Spec => ImplementsRpc
  BY RefinementInit, RefinementStep, IInvInvariant, PTL DEF Spec, ImplementsRpc, Rpc!Spec

(* The HTTP caller's result is final: neither a late answer nor the death  *)
(* of the process changes what a call that has ended reported.             *)
ResultsFinal ==
    \A c \in Calls : CallStatus(c) \in {"answered", "failed"} =>
                        CallStatus(c)' = CallStatus(c)

(* What a caller was told stays what it was told (asyncMap.go:33-44).      *)
THEOREM ResultsStay == Spec => [][ResultsFinal]_vars
<1>1. ASSUME IInv, [Next]_vars PROVE ResultsFinal
  <2> DEFINE S == [c \in Calls |-> CallStatus(c)]
  <2>1. \A c \in Calls : S[c] = CallStatus(c) /\ S'[c] = CallStatus(c)'
    OBVIOUS
  <2>2. [Rpc!Next]_(Rpc!vars)
    BY <1>1, RefinementStep
  <2>3. ASSUME NEW c \in Calls, S[c] \in {"answered", "failed"} PROVE S'[c] = S[c]
    <3>1. ASSUME NEW d \in Calls, Rpc!Begin(d) \/ Rpc!DeviceAnswers(d) \/ Rpc!Answer(d)
          PROVE  S'[c] = S[c]
      BY <2>3, <3>1 DEF Rpc!Begin, Rpc!DeviceAnswers, Rpc!Answer
    <3>2. ASSUME NEW C \in SUBSET Calls, Rpc!Fail(C) PROVE S'[c] = S[c]
      BY <2>3, <3>2 DEF Rpc!Fail
    <3>3. CASE UNCHANGED Rpc!vars
      BY <3>3 DEF Rpc!vars
    <3> QED
      BY <2>2, <3>1, <3>2, <3>3 DEF Rpc!Next
  <2> HIDE DEF S
  <2> QED
    BY <2>1, <2>3 DEF ResultsFinal
<1> QED
  BY <1>1, IInvInvariant, PTL DEF Spec

-----------------------------------------------------------------------------
(* Senders.  A channel is open exactly while its call is between making    *)
(* and closing it, and a job that is about to send has found a channel.    *)
InCall == {"registering", "waiting", "leaving", "deleting", "closing"}

Sending(j) == job[j].pc \in {"push", "reply"}

ChannelsOfCallers ==
    /\ \A c \in Calls :
          /\ chan[c] = "open" => caller[c] \in InCall
          /\ caller[c] \in {"leaving", "deleting", "closing"}
                => outcome[c] \in {"answered", "timeout", "cancelled"}
          /\ chan[c] = "closed"
                => caller[c] = "done" /\ outcome[c] \in {"answered", "timeout", "cancelled"}
    /\ \A j \in Jobs : Sending(j) => chan[job[j].id] # "nil"

LEMMA ChannelsInit == Init => ChannelsOfCallers
  BY DEF Init, ChannelsOfCallers, Sending

LEMMA ChannelsStep ==
  ASSUME IInv, ChannelsOfCallers, [Next]_vars
  PROVE  ChannelsOfCallers'
<1> USE DEF IInv, TypeOK, ChannelsOfCallers, Sending, InCall, Moves, callVars, mapVars,
            chanVars, linkVars, OthersSame, AtJob, Goto, Finish
<1>1. ASSUME NEW c \in Calls, ServiceCall(c) \/ PropertySet(c) PROVE ChannelsOfCallers'
  BY <1>1 DEF ServiceCall, PropertySet, Refuse, Publish
<1>2. ASSUME NEW c \in Calls, SyncRequest(c) \/ Cancel(c) PROVE ChannelsOfCallers'
  <2>1. CASE LockToRegister(c)
    BY <2>1 DEF LockToRegister
  <2>2. CASE Register(c)
    BY <2>2 DEF Register
  <2>3. CASE Receive(c)
    BY <2>3 DEF Receive
  <2>4. CASE TimeOut(c) \/ Cancel(c)
    BY <2>4 DEF TimeOut, Cancel, GiveUp
  <2>5. CASE LockToDelete(c)
    BY <2>5 DEF LockToDelete
  <2>6. CASE Delete(c)
    BY <2>6 DEF Delete
  <2>7. CASE Close(c)
    BY <2>7 DEF Close
  <2> QED
    BY <1>2, <2>1, <2>2, <2>3, <2>4, <2>5, <2>6, <2>7 DEF SyncRequest
<1>3. ASSUME NEW c \in Calls, DeviceReplies(c) \/ LoseReply(c) PROVE ChannelsOfCallers'
  BY <1>3 DEF DeviceReplies, LoseReply
<1>4. ASSUME NEW c \in Calls, NEW j \in Jobs, StartJob(j, c) PROVE ChannelsOfCallers'
  BY <1>4 DEF StartJob
<1>5. ASSUME NEW j \in Jobs, HandleMessage(j) PROVE ChannelsOfCallers'
  <2>1. CASE Peek(j)
    BY <2>1 DEF Peek, CallerOwnsEntry
  <2>2. CASE PushRaw(j) \/ PushOutputs(j)
    BY <2>2 DEF PushRaw, PushOutputs, Push
  <2>3. CASE Detail(j) \/ Report(j)
    BY <2>3 DEF Detail, Report
  <2>4. CASE Lookup(j)
    BY <2>4 DEF Lookup, CallerOwnsEntry
  <2> QED
    BY <1>5, <2>1, <2>2, <2>3, <2>4 DEF HandleMessage
<1>6. CASE Restart
  BY <1>6 DEF Restart
<1>7. CASE UNCHANGED vars
  BY <1>7 DEF vars
<1> QED
  BY <1>1, <1>2, <1>3, <1>4, <1>5, <1>6, <1>7 DEF Next

(* No job is stuck on a channel that nobody will ever receive from or      *)
(* close: it is closed, or its call has yet to take an answer or to give   *)
(* up, and to close it.  A send on a nil channel never happens.            *)
SendersHaveCallers ==
    \A j \in Jobs : Sending(j) =>
        \/ chan[job[j].id] = "closed"
        \/ chan[job[j].id] = "open" /\ caller[job[j].id] \in InCall

(* A job that sends has a caller that will take the reply or close the     *)
(* channel (router.go:90).                                                 *)
THEOREM SendersEndWithCallers == Spec => []SendersHaveCallers
<1>1. IInv /\ ChannelsOfCallers => SendersHaveCallers
  <2> SUFFICES ASSUME IInv, ChannelsOfCallers, NEW j \in Jobs, Sending(j)
               PROVE  \/ chan[job[j].id] = "closed"
                      \/ chan[job[j].id] = "open" /\ caller[job[j].id] \in InCall
    BY DEF SendersHaveCallers
  <2>1. job[j].id \in Calls
    BY DEF IInv, TypeOK, Sending
  <2> QED
    BY <2>1 DEF IInv, TypeOK, ChannelsOfCallers
<1>2. Spec => []ChannelsOfCallers
  BY ChannelsInit, ChannelsStep, IInvInvariant, PTL DEF Spec
<1> QED
  BY <1>1, <1>2, IInvInvariant, PTL

-----------------------------------------------------------------------------
(* What one slot is enough for.  Only the topic's handler answers a        *)
(* property set; so if its device has answered at most once, that answer   *)
(* is in one place at a time: on its way, with one job, in the slot, or    *)
(* with the caller.                                                        *)
Handling(j, c) == job[j].pc # "free" /\ job[j].id = c

Lone(c) == Kind[c] = "property" /\ sent[c] <= 1

Arrived(c) == buffer[c] # Empty \/ outcome[c] = "answered"

LoneReply(c) ==
    /\ replies[c] <= 1
    /\ \A j \in Jobs : Handling(j, c) =>
          replies[c] = 0 /\ ~ Arrived(c) /\ \A k \in Jobs : Handling(k, c) => k = j
    /\ Arrived(c) => replies[c] = 0

LoneReplies ==
    /\ \A c \in Calls : Lone(c) => LoneReply(c)
    /\ \A j \in Jobs : Kind[job[j].id] = "property" => job[j].pc \notin {"peek", "push"}

LEMMA LoneInit == Init => LoneReplies
  BY DEF Init, LoneReplies, LoneReply, Arrived, Handling

LEMMA LoneStep ==
  ASSUME IInv, LoneReplies, [Next]_vars
  PROVE  LoneReplies'
<1> USE DEF IInv, TypeOK, LoneReplies, LoneReply, Lone, Arrived, Handling, Moves,
            callVars, mapVars, chanVars, linkVars, OthersSame, AtJob, Goto, Finish
<1>1. ASSUME NEW c \in Calls, ServiceCall(c) \/ PropertySet(c) PROVE LoneReplies'
  BY <1>1 DEF ServiceCall, PropertySet, Refuse, Publish, AnswersTraced
<1>2. ASSUME NEW c \in Calls, SyncRequest(c) \/ Cancel(c) PROVE LoneReplies'
  <2>1. CASE Receive(c)
    BY <2>1 DEF Receive
  <2>2. CASE TimeOut(c) \/ Cancel(c)
    BY <2>2 DEF TimeOut, Cancel, GiveUp
  <2>3. CASE LockToRegister(c) \/ Register(c) \/ LockToDelete(c) \/ Delete(c) \/ Close(c)
    BY <2>3 DEF LockToRegister, Register, LockToDelete, Delete, Close
  <2> QED
    BY <1>2, <2>1, <2>2, <2>3 DEF SyncRequest
<1>3. ASSUME NEW c \in Calls, DeviceReplies(c) PROVE LoneReplies'
  BY <1>3 DEF DeviceReplies, AnswersTraced
<1>4. ASSUME NEW c \in Calls, LoseReply(c) PROVE LoneReplies'
  BY <1>4 DEF LoseReply
<1>5. ASSUME NEW c \in Calls, NEW j \in Jobs, StartJob(j, c) PROVE LoneReplies'
  BY <1>5 DEF StartJob
<1>6. ASSUME NEW j \in Jobs, HandleMessage(j) PROVE LoneReplies'
  <2>1. CASE Peek(j)
    BY <2>1 DEF Peek
  <2>2. CASE PushRaw(j)
    <3>1. PICK c \in Calls : c = job[j].id
      BY <2>2 DEF PushRaw
    <3>2. Kind[c] # "property"
      BY <2>2, <3>1 DEF PushRaw
    <3>3. \A d \in Calls : d # c => buffer'[d] = buffer[d]
      BY <2>2, <3>1 DEF PushRaw, Push
    <3>4. /\ job'[j].id = c /\ job'[j].pc \in {"push", "detail"}
          /\ \A k \in Jobs : k # j => job'[k] = job[k]
      BY <2>2, <3>1 DEF PushRaw, Push
    <3>5. UNCHANGED <<outcome, replies, sent>>
      BY <2>2 DEF PushRaw
    <3> QED
      BY <3>1, <3>2, <3>3, <3>4, <3>5
  <2>3. CASE Detail(j)
    BY <2>3 DEF Detail
  <2>4. CASE Lookup(j)
    BY <2>4 DEF Lookup
  <2>5. CASE PushOutputs(j)
    BY <2>5 DEF PushOutputs, Push
  <2>6. CASE Report(j)
    BY <2>6 DEF Report
  <2> QED
    BY <1>6, <2>1, <2>2, <2>3, <2>4, <2>5, <2>6 DEF HandleMessage
<1>7. CASE Restart
  BY <1>7 DEF Restart
<1>8. CASE UNCHANGED vars
  BY <1>8 DEF vars
<1> QED
  BY <1>1, <1>2, <1>3, <1>4, <1>5, <1>6, <1>7, <1>8 DEF Next

LEMMA Invariants == Spec => [](IInv /\ ChannelsOfCallers /\ LoneReplies)
  BY ChannelsInit, ChannelsStep, LoneInit, LoneStep, IInvInvariant, PTL DEF Spec

(* The answer to a property set that is answered once always finds its     *)
(* slot free, and is not sent any more once the caller has an answer.      *)
LoneSendFree ==
    \A j \in Jobs : Sending(j) /\ Lone(job[j].id) =>
        buffer[job[j].id] = Empty /\ outcome[job[j].id] # "answered"

(* One answer to a property set never waits for room (router.go:90).       *)
THEOREM LoneAnswersFit == Spec => []LoneSendFree
<1>1. IInv /\ LoneReplies => LoneSendFree
  <2> SUFFICES ASSUME IInv, LoneReplies, NEW j \in Jobs, Sending(j), Lone(job[j].id)
               PROVE  buffer[job[j].id] = Empty /\ outcome[job[j].id] # "answered"
    BY DEF LoneSendFree
  <2>1. job[j].id \in Calls /\ Handling(j, job[j].id)
    BY DEF IInv, TypeOK, Sending, Handling
  <2>2. ~ Arrived(job[j].id)
    BY <2>1 DEF LoneReplies, LoneReply
  <2> QED
    BY <2>2 DEF Arrived
<1> QED
  BY <1>1, Invariants, PTL

(* The process dies of a reply to a service call, of a second reply, or of *)
(* one whose caller had given up, which meets the channel closed: never of *)
(* the one reply to a property set that came in time.                      *)
DeathHasCause ==
    process = "up" /\ process' = "down" =>
        \E j \in Jobs :
            /\ Handling(j, job[j].id)
            /\ \/ Kind[job[j].id] = "service"
               \/ /\ chan[job[j].id] = "closed"
                  /\ sent[job[j].id] > 1 \/ outcome[job[j].id] \in {"timeout", "cancelled"}

(* Every panic of the router has one of these causes (router.go:90).       *)
THEOREM OneReplyInTimeIsSafe == Spec => [][DeathHasCause]_vars
<1>1. ASSUME IInv, ChannelsOfCallers, LoneReplies, [Next]_vars,
             process = "up", process' = "down"
      PROVE  \E j \in Jobs :
                /\ Handling(j, job[j].id)
                /\ \/ Kind[job[j].id] = "service"
                   \/ /\ chan[job[j].id] = "closed"
                      /\ sent[job[j].id] > 1 \/ outcome[job[j].id] \in {"timeout", "cancelled"}
  <2>1. PICK j \in Jobs : Peek(j) \/ PushRaw(j) \/ PushOutputs(j)
    BY <1>1 DEF Next, ServiceCall, PropertySet, SyncRequest, Refuse, Publish, LockToRegister,
         Register, Receive, TimeOut, Cancel, GiveUp, LockToDelete, Delete, Close,
         DeviceReplies, LoseReply, StartJob, HandleMessage, Detail, Lookup, Report,
         Restart, vars, Moves
  <2>2. PICK c \in Calls : c = job[j].id
    BY <1>1, <2>1 DEF IInv, TypeOK, Peek, PushRaw, PushOutputs, AtJob
  <2>3. Handling(j, c)
    BY <2>1, <2>2 DEF Peek, PushRaw, PushOutputs, AtJob, Handling
  <2>4. CASE Kind[c] = "service"
    BY <2>2, <2>3, <2>4
  <2>5. CASE Kind[c] = "property"
    <3>1. job[j].pc = "reply" /\ chan[c] = "closed"
      BY <1>1, <2>1, <2>2, <2>5
         DEF LoneReplies, Peek, PushRaw, PushOutputs, Push, AtJob
    <3>2. outcome[c] \in {"answered", "timeout", "cancelled"}
      BY <1>1, <3>1 DEF ChannelsOfCallers
    <3>3. sent[c] <= 1 => outcome[c] # "answered"
      BY <1>1, <2>2, <2>5, <3>1 DEF LoneReplies, LoneReply, Lone, Handling, Arrived
    <3>4. sent[c] \in Nat
      BY <1>1 DEF IInv, TypeOK
    <3> QED
      BY <2>2, <2>3, <3>1, <3>2, <3>3, <3>4
  <2> QED
    BY <2>4, <2>5
<1>2. IInv /\ ChannelsOfCallers /\ LoneReplies /\ [Next]_vars => DeathHasCause
  BY <1>1 DEF DeathHasCause
<1> QED
  BY <1>2, Invariants, PTL DEF Spec
=============================================================================
