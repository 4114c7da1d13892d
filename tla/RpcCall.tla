------------------------------- MODULE RpcCall -------------------------------
(***************************************************************************)
(* What a downlink call promises its HTTP caller: it ends once, and when   *)
(* it ends with an answer the device did answer that very call.  How the   *)
(* answer is matched to the call is left to DownlinkCall.                  *)
(***************************************************************************)

CONSTANT Calls

VARIABLES
    status,     \* status[c]: what the caller of c knows
    replied     \* the calls the device has answered so far

vars == <<status, replied>>

Init ==
    /\ status = [c \in Calls |-> "idle"]
    /\ replied = {}

(* The platform sends call c to the device, or refuses to. *)
Begin(c) ==
    /\ status[c] = "idle"
    /\ \/ status' = [status EXCEPT ![c] = "pending"]
       \/ status' = [status EXCEPT ![c] = "failed"]
    /\ UNCHANGED replied

(* The device answers; an answer may come after its call has failed. *)
DeviceAnswers(c) ==
    /\ status[c] # "idle"
    /\ replied' = replied \cup {c}
    /\ UNCHANGED status

Answer(c) ==
    /\ status[c] = "pending"
    /\ c \in replied
    /\ status' = [status EXCEPT ![c] = "answered"]
    /\ UNCHANGED replied

(* Timeouts and cancellations end one call, the death of the process ends  *)
(* every call in progress.                                                 *)
Fail(C) ==
    /\ \A c \in C : status[c] = "pending"
    /\ status' = [c \in Calls |-> IF c \in C THEN "failed" ELSE status[c]]
    /\ UNCHANGED replied

Next ==
    \/ \E c \in Calls : Begin(c) \/ DeviceAnswers(c) \/ Answer(c)
    \/ \E C \in SUBSET Calls : Fail(C)

Spec == Init /\ [][Next]_vars
=============================================================================
