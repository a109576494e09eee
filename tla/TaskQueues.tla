----------------------------- MODULE TaskQueues -----------------------------
(***************************************************************************)
(* The in-memory queues of cloudillo-core's scheduler and the operations   *)
(* on them, as operators from queue states to queue states.                *)
(*                                                                         *)
(*   run    tasks_running    HashMap<TaskId, TaskMeta>                      *)
(*   wait   tasks_waiting    HashMap<TaskId, TaskMeta>                      *)
(*   sched  tasks_scheduled  BTreeMap<(Timestamp, TaskId), TaskMeta>        *)
(*   dep    task_dependents  HashMap<TaskId, Vec<TaskId>>, as the relation  *)
(*          of the pairs <<dependency, dependent>> it holds                 *)
(*                                                                         *)
(* A map is total, None where the code's map has no entry.  Time is two    *)
(* slots: "now" is Timestamp(0), the key of an entry that is due, "later"  *)
(* is any other key, due at some time the dispatcher alone decides.        *)
(***************************************************************************)
EXTENDS Integers, FiniteSets

CONSTANTS
    Ids,         \* task ids
    Params,      \* serialized task inputs, compared for equality only
    None         \* no entry

Slots == {"now", "later"}

(* "none": a one-shot.  "recurs": the expression has a next occurrence.    *)
(* "spent": next_execution fails, as for a date that never comes.          *)
CronKinds == {"none", "recurs", "spent"}

(* retry stands for RetryPolicy::times; 0 stands for no policy as well,     *)
(* spawn_task treats both alike.  count is retry_count.                     *)
TaskMeta ==
    [param : Params, next : Slots, deps : SUBSET Ids, count : Nat,
     retry : Nat, cron : CronKinds, rerun : BOOLEAN]

ASSUME NoneAssumption == None \notin TaskMeta
ASSUME NoIdAssumption == None \notin Ids

Entry == TaskMeta \cup {None}

QueueState ==
    [run   : [Ids -> Entry],
     wait  : [Ids -> Entry],
     sched : [Slots \X Ids -> Entry],
     dep   : SUBSET (Ids \X Ids)]

EmptyQueues ==
    [run   |-> [id \in Ids |-> None],
     wait  |-> [id \in Ids |-> None],
     sched |-> [k \in Slots \X Ids |-> None],
     dep   |-> {}]

IsRunning(qs, id) == qs.run[id] # None
IsWaiting(qs, id) == qs.wait[id] # None
IsScheduled(qs, id) == \E s \in Slots : qs.sched[<<s, id>>] # None

(* A task is in one queue at most, under one key.                          *)
Exclusive(qs, id) ==
    /\ IsRunning(qs, id) => ~IsWaiting(qs, id) /\ ~IsScheduled(qs, id)
    /\ IsWaiting(qs, id) => ~IsScheduled(qs, id)
    /\ \E s \in Slots : qs.sched[<<s, id>>] = None

-----------------------------------------------------------------------------
(* Overwrite the metadata of a running task; the caller says what becomes  *)
(* of the pending rerun request.                                           *)
RefreshRunning(qs, id, m, rerun) ==
    [qs EXCEPT !.run[id] = [m EXCEPT !.rerun = rerun]]

TakeRunning(qs, id) == [qs EXCEPT !.run[id] = None]

(* The entry an in-order search of tasks_scheduled for the id meets first. *)
FirstSlot(qs, id) == IF qs.sched[<<"now", id>>] # None THEN "now" ELSE "later"

(* add_queue before it inserts: no older entry of the id stays behind.     *)
Unqueue(qs, id) ==
    [qs EXCEPT !.sched[<<FirstSlot(qs, id), id>>] = None, !.wait[id] = None]

Schedule(qs, id, m) == [qs EXCEPT !.sched[<<m.next, id>>] = m]
Await(qs, id, m) ==
    [qs EXCEPT !.wait[id] = m, !.dep = @ \cup (m.deps \X {id})]

(* Faulty variant: next_at outranks the dependencies.                      *)
InsertByTime(qs, id, m) ==
    IF m.deps = {} \/ m.next = "later" THEN Schedule(qs, id, m)
                                       ELSE Await(qs, id, m)

(* The insertion: a task with dependencies never goes to tasks_scheduled,  *)
(* whatever its next_at says.                                              *)
Insert(qs, id, m) ==
    IF m.deps = {} THEN Schedule(qs, id, m) ELSE Await(qs, id, m)

(* Faulty variants: no removal of older entries, removal in wrong order.   *)
InsertBesideOldEntry(qs, id, m) == Insert(qs, id, m)
InsertThenUnqueue(qs, id, m) == Unqueue(Insert(qs, id, m), id)

InsertAfresh(qs, id, m) == Insert(Unqueue(qs, id), id, m)

(* Faulty variants: the flag is lost, the running map is not consulted.    *)
AddQueueDroppingRerun(qs, id, m) ==
    IF IsRunning(qs, id) THEN RefreshRunning(qs, id, m, FALSE)
                         ELSE InsertAfresh(qs, id, m)
AddQueueUnchecked(qs, id, m) == InsertAfresh(qs, id, m)

(* add_queue up to its await.                                              *)
AddQueue(qs, id, m) ==
    IF IsRunning(qs, id) THEN RefreshRunning(qs, id, m, qs.run[id].rerun)
                         ELSE InsertAfresh(qs, id, m)

(* Whether add_queue goes on to ask the store for completed dependencies.  *)
ChecksDeps(qs, id, m) == ~IsRunning(qs, id) /\ m.deps # {}

-----------------------------------------------------------------------------
(* check_and_resolve_completed_deps once the store has answered: deps is   *)
(* what add_queue registered, completed what the store returned.           *)
ResolveDeps(qs, id, deps, completed) ==
    LET left == qs.wait[id].deps \ completed
    IN  IF completed = {} \/ ~IsWaiting(qs, id)
          THEN qs
          ELSE IF left # {}
            THEN [qs EXCEPT !.wait[id].deps = left]
            ELSE [qs EXCEPT
                   !.wait[id] = None,
                   !.dep = @ \ (deps \X {id}),
                   !.sched[<<"now", id>>] = [qs.wait[id] EXCEPT !.deps = {}]]

(* remove_from_queues: the first of waiting, scheduled, running that holds *)
(* the id.  The reverse dependency entries stay.                           *)
RemoveFromQueues(qs, id) ==
    IF IsWaiting(qs, id) THEN [qs EXCEPT !.wait[id] = None]
    ELSE IF IsScheduled(qs, id)
      THEN [qs EXCEPT !.sched[<<FirstSlot(qs, id), id>>] = None]
    ELSE TakeRunning(qs, id)

Dependents(qs, d) == {w \in Ids : <<d, w>> \in qs.dep}

(* Faulty variant: the first dependency that ends releases the dependent.  *)
ReadyWhenAnyDone(qs, d) == {w \in Dependents(qs, d) : IsWaiting(qs, w)}

(* The dependents of d that release_dependents hands back to be spawned.   *)
Ready(qs, d) ==
    {w \in Dependents(qs, d) : IsWaiting(qs, w) /\ qs.wait[w].deps \subseteq {d}}

ForgetDep(m, d) == [m EXCEPT !.deps = @ \ {d}]

(* release_dependents, and the insertion into tasks_running of the ones it *)
(* hands back.                                                             *)
ReleaseDependents(qs, d) ==
    LET released == Dependents(qs, d)
        ready    == Ready(qs, d)
    IN  [qs EXCEPT
          !.dep  = {p \in @ : p[1] # d},
          !.run  = [w \in Ids |->
                     IF w \in ready THEN ForgetDep(qs.wait[w], d) ELSE qs.run[w]],
          !.wait = [w \in Ids |->
                     IF w \in ready THEN None
                     ELSE IF w \in released /\ IsWaiting(qs, w)
                       THEN ForgetDep(qs.wait[w], d)
                     ELSE qs.wait[w]],
          !.sched = [k \in Slots \X Ids |->
                      IF /\ k[2] \in released
                         /\ ~IsWaiting(qs, k[2])
                         /\ qs.sched[k] # None
                         /\ k[1] = FirstSlot(qs, k[2])
                        THEN ForgetDep(qs.sched[k], d)
                        ELSE qs.sched[k]]]

(* The dispatcher moves an entry from tasks_scheduled to tasks_running.    *)
StartScheduled(qs, s, id) ==
    [qs EXCEPT !.sched[<<s, id>>] = None, !.run[id] = qs.sched[<<s, id>>]]

(* clear_rerun_request                                                     *)
ClearRerunRequest(qs, id) ==
    IF IsRunning(qs, id) THEN [qs EXCEPT !.run[id].rerun = FALSE] ELSE qs
=============================================================================
