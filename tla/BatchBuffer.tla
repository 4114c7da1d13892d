----------------------------- MODULE BatchBuffer -----------------------------
(***************************************************************************)
(* What an aggregator promises its producers, whatever its channel, its    *)
(* workers and its timers do: an item that is offered is either refused or *)
(* accepted, and an accepted item is handed to the batch processor once,   *)
(* in a batch of at most BatchSize items.                                  *)
(***************************************************************************)
EXTENDS Naturals

CONSTANTS Items, BatchSize

VARIABLE fate
vars == <<fate>>

Init == fate = [i \in Items |-> "offered"]

Decide(i, verdict) ==
    /\ fate[i] = "offered"
    /\ fate' = [fate EXCEPT ![i] = verdict]

(* A batch is a sequence of n different items. *)
HandOver(batch, n) ==
    /\ \A k \in 1 .. n : fate[batch[k]] = "accepted"
    /\ \A k, l \in 1 .. n : batch[k] = batch[l] => k = l
    /\ fate' = [i \in Items |->
                  IF \E k \in 1 .. n : batch[k] = i THEN "handed" ELSE fate[i]]

Next ==
    \/ \E i \in Items : Decide(i, "accepted") \/ Decide(i, "refused")
    \/ \E n \in 1 .. BatchSize : \E items \in [1 .. n -> Items] : HandOver(items, n)

Spec == Init /\ [][Next]_vars
=============================================================================
