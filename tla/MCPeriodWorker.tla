---------------------------- MODULE MCPeriodWorker ---------------------------
(* One cron expression with retention and one without, and a few periods.  *)
EXTENDS PeriodWorker, TLC
Symmetry == Permutations(Handlers)
=============================================================================
