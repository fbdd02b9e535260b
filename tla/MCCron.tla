------------------------------- MODULE MCCron -------------------------------
(* Two jobs: once, at every tick, at intervals, or by a cron expression.    *)
EXTENDS Cron

MCSchedules ==
  {[kind |-> "at", time |-> 2], [kind |-> "every", time |-> 0], [kind |-> "every", time |-> -1],
   [kind |-> "every", time |-> 1], [kind |-> "cron", time |-> 1]}
=============================================================================
