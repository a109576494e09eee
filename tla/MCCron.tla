------------------------------- MODULE MCCron -------------------------------
(* One recurring task, registered again at every start, by the worker or   *)
(* by the main thread; its runs may fail.                                  *)
EXTENDS SchedulerProperties

CONSTANTS k1

OneKind == [p \in Params |-> "job"]

Register(p, cron, retry) ==
    [key |-> k1, param |-> p, deps |-> {}, retry |-> retry, cron |-> cron,
     next |-> "later", startup |-> TRUE]

RunOnce(p) == [Register(p, "none", 0) EXCEPT !.next = "now", !.startup = FALSE]

Recurring == {Register("p", "recurs", 0), Register("q", "recurs", 0)}
Mixed     == {Register("p", "recurs", 0), RunOnce("p")}
=============================================================================
