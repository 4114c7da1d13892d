------------------------------ MODULE MCPools ------------------------------
(* The pool that bounds the jobs, with more jobs than tokens, and the      *)
(* aggregator, with two workers that share a channel smaller than the      *)
(* number of items.  They share no state, so each is explored with the     *)
(* other at rest.                                                          *)
EXTENDS GPool, Aggregator

CONSTANTS Parts, r1, r2, e1     \* items: e1 offered with Enqueue

VARIABLE part

MCItems    == {r1, r2, e1}
MCBlocking == {e1}

MCInit == PoolInit /\ Init /\ part \in Parts \cap {"pool", "aggregator"}
MCNext ==
    /\ \/ part = "pool" /\ PoolNext /\ UNCHANGED vars
       \/ part = "aggregator" /\ Next /\ UNCHANGED poolVars
    /\ UNCHANGED part
MCSpec ==
    /\ MCInit /\ [][MCNext]_<<poolVars, vars, part>>
    /\ part = "pool" => PoolFairness
    /\ part = "aggregator" => AggregatorFairness

(* In the pool, JobsGetThrough: gpool.go:47-60.                            *)
PoolServes == part = "pool" => JobsGetThrough

(* In the aggregator, OffersEnd: aggregator.go:71-113.                     *)
OffersReturn == part = "aggregator" => OffersEnd
=============================================================================
