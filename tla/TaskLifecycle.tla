---------------------------- MODULE TaskLifecycle ----------------------------
(***************************************************************************)
(* What the scheduler promises about one task, without queues, futures or  *)
(* a store: its row is created pending and closed at most once, its runs   *)
(* follow one another and never overlap, no run starts before the tasks it *)
(* was declared to depend on have ended, and a row is closed as finished   *)
(* only on behalf of a run that ended.  A restart of the process aborts    *)
(* the runs in progress and nothing else.                                  *)
(***************************************************************************)
EXTENDS Integers, FiniteSets

CONSTANTS Ids

VARIABLES
    status,    \* "none", "P", "F" or "E"
    active,    \* number of runs in progress
    needs,     \* the dependencies a task was created with
    ended      \* tasks with a run that ended for good

vars == <<status, active, needs, ended>>

Init ==
    /\ status = [id \in Ids |-> "none"]
    /\ active = [id \in Ids |-> 0]
    /\ needs = [id \in Ids |-> {}]
    /\ ended = {}

Create(id, deps) ==
    /\ status[id] = "none"
    /\ status' = [status EXCEPT ![id] = "P"]
    /\ needs' = [needs EXCEPT ![id] = deps]
    /\ UNCHANGED <<active, ended>>

(* The tasks that become ready together start together.                    *)
Start(S) ==
    /\ \A id \in S : /\ status[id] # "none" /\ active[id] = 0
                     /\ \A d \in needs[id] : d \in ended \/ status[d] = "E"
    /\ active' = [id \in Ids |-> IF id \in S THEN 1 ELSE active[id]]
    /\ UNCHANGED <<status, needs, ended>>

(* An attempt stops; for good, or to be tried again.                       *)
Stop(id, forGood) ==
    /\ active[id] = 1
    /\ active' = [active EXCEPT ![id] = 0]
    /\ ended' = IF forGood THEN ended \cup {id} ELSE ended
    /\ UNCHANGED <<status, needs>>

Finish(id) ==
    /\ status[id] = "P" /\ id \in ended
    /\ status' = [status EXCEPT ![id] = "F"]
    /\ UNCHANGED <<active, needs, ended>>

Fail(id) ==
    /\ status[id] = "P" /\ active[id] = 1
    /\ status' = [status EXCEPT ![id] = "E"]
    /\ UNCHANGED <<active, needs, ended>>

Restart == /\ active' = [id \in Ids |-> 0]
           /\ UNCHANGED <<status, needs, ended>>

Next ==
    \/ \E id \in Ids, deps \in SUBSET Ids : Create(id, deps)
    \/ \E S \in SUBSET Ids : Start(S)
    \/ \E id \in Ids, forGood \in BOOLEAN : Stop(id, forGood)
    \/ \E id \in Ids : Finish(id) \/ Fail(id)
    \/ Restart

Spec == Init /\ [][Next]_vars
=============================================================================
