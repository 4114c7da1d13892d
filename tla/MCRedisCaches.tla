--------------------------- MODULE MCRedisCaches ---------------------------
(* What the platform keeps in Redis for its own use: the rules of a        *)
(* product, the records of a device, and the key that says that a device   *)
(* is on line.  They share no state, so each is explored with the others   *)
(* at rest.  Rule 1 stays with its product; rule 2 is moved between both.  *)
(* The device sends a message of its own and one in a batch of its         *)
(* gateway.                                                                *)
EXTENDS AlarmRules, DeviceData, DeviceStatus

CONSTANTS Parts, p1, p2, m1, b1

VARIABLE part

MCPlaces  == [r \in Rules |-> IF r = 1 THEN {p1} ELSE {p1, p2}]
MCJobs    == {m1, b1}
MCGateway == {b1}
MCOwn     == {m1}
MCNone    == {}

Init ==
    /\ AlarmInit /\ DataInit /\ StatusInit
    /\ part \in Parts \cap {"rules", "records", "status"}
Next ==
    /\ \/ part = "rules" /\ AlarmNext /\ UNCHANGED <<dataVars, statusVars>>
       \/ part = "records" /\ DataNext /\ UNCHANGED <<alarmVars, statusVars>>
       \/ part = "status" /\ StatusNext /\ UNCHANGED <<alarmVars, dataVars>>
    /\ UNCHANGED part
Spec ==
    /\ Init /\ [][Next]_<<alarmVars, dataVars, statusVars, part>>
    /\ DataFairness /\ StatusFairness
=============================================================================
