-------------------------------- MODULE MCDeps ------------------------------
(* Keyless tasks with dependencies between them.                           *)
EXTENDS SchedulerProperties

CONSTANT k1

(* Each input is of a kind of its own.                                     *)
KindsOfTheirOwn == [p \in Params |-> p]

Task(p, deps, retry) ==
    [key |-> None, param |-> p, deps |-> deps, retry |-> retry,
     cron |-> "none", next |-> "now", startup |-> FALSE]

(* Chains and joins; the kind of "x" is one the next start does not know.  *)
Joins == {Task("s", {}, 0), [Task("x", {1}, 0) EXCEPT !.next = "later"],
          Task("s", {1, 2}, 0)}

Keyed(deps) == [Task("p", deps, 1) EXCEPT !.key = k1, !.next = "later"]

(* A task and its dependent, both retried; the dependent has a key and is  *)
(* asked for again with and without the dependency; and a task of the      *)
(* first kind whose key is equal to the dependent's.                       *)
Retried == {Task("s", {}, 0), Keyed({1}), Keyed({}),
            [Task("s", {}, 0) EXCEPT !.key = k1]}
=============================================================================
