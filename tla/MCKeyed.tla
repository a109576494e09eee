------------------------------- MODULE MCKeyed ------------------------------
(* Keyed one-shots with a retry policy: two callers ask for the same key.  *)
EXTENDS SchedulerProperties

CONSTANTS k1

OneKind == [p \in Params |-> "job"]

Ask(p, retry) == [key |-> k1, param |-> p, deps |-> {}, retry |-> retry,
                  cron |-> "none", next |-> "now", startup |-> FALSE]

MCRequests == {Ask(p, 1) : p \in Params}
=============================================================================
