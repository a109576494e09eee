------------------------ MODULE SchedulerProperties -------------------------
(***************************************************************************)
(* What the scheduler must never do, over the state of Scheduler.          *)
(***************************************************************************)
EXTENDS Scheduler

Tags == {CallerTag(r) : r \in Callers} \cup {BodyTag(b) : b \in Bodies}
          \cup {FinisherTag, LoaderTag}

(* Until it takes effect a create has no id; every other write has one.    *)
WriteRecord ==
    [who : Tags, op : {"create"}, id : Ids \cup {None},
     key : Keys \cup {None}, meta : TaskMeta]
      \cup
    [who : Tags, op : {"cron", "update", "finish", "undep", "postpone", "fail"},
     id : Ids, key : {None}, meta : TaskMeta]

ProbeRecord == [who : Tags, id : Ids, deps : SUBSET Ids, answered : BOOLEAN,
                completed : SUBSET Ids]

(* A future carries metadata, and knows its task, from its first step on.  *)
BodyState ==
    {NoBody} \cup
    [pc : {"run", "retrying", "retryHook", "failing", "failHook", "resolve"},
     meta : TaskMeta, perm : BOOLEAN]

CallerState ==
    {Idle} \cup
    [pc : {"found", "create"}, key : Keys \cup {None}, id : Ids \cup {None},
     changed : BOOLEAN, meta : TaskMeta]
      \cup
    [pc : {"clear", "setcron", "update", "refresh", "insert", "resolve"},
     key : Keys \cup {None}, id : Ids, changed : BOOLEAN, meta : TaskMeta]

FinState ==
    {FinIdle} \cup
    [pc : {"cron", "finish", "undep", "resolve"}, id : Ids, meta : TaskMeta]

LoaderState == [pc : {"start", "loop", "resolve", "done"}, todo : SUBSET Ids,
                snap : Table]

CountState == [requests : Nat, crashes : Nat, faults : Nat, lost : SUBSET Ids]
AskedState == [deps : SUBSET Ids, retry : Nat]

(* Type correctness of the scheduler's state.                              *)
TypeOK ==
    /\ queues \in QueueState
    /\ rows \in Table
    /\ events \in [Ids -> Nat]
    /\ bodies \in [Bodies -> BodyState]
    /\ callers \in [Callers -> CallerState]
    /\ fin \in FinState
    /\ loader \in LoaderState
    /\ \A id \in loader.todo : loader.snap[id] # None
    /\ writes \in Seq(WriteRecord)
    /\ wres \in {"busy", "ok", "failed"}
    /\ wres = "ok" => writes # <<>> /\ Head(writes).id \in Ids
    /\ probes \subseteq ProbeRecord
    /\ counts \in CountState
    /\ asked \in [Ids -> AskedState \cup {None}]
    /\ ended \subseteq Ids
    /\ owed \in [Ids -> Params \cup {None}]

-----------------------------------------------------------------------------
(* The body of an attempt is executing: task.run, or the error path up to  *)
(* the point where the attempt is settled.                                 *)
Executing(b) ==
    bodies[b].pc \in {"run", "retrying", "retryHook", "failing", "failHook"}

(* One body per task: no second body starts beside one still executing, an *)
(* executing task is in tasks_running and has no completion event of       *)
(* another run under way, and an event under way finds the task there.     *)
(* (The running checks of schedule_task_impl and add_queue, and the take   *)
(* at the head of the finish handler.)                                     *)
OneBody ==
    \A id \in Ids :
      /\ \A l1, l2 \in Lanes :
           Executing(<<id, l1>>) /\ Executing(<<id, l2>>) => l1 = l2
      /\ \A l \in Lanes : Executing(<<id, l>>) =>
           IsRunning(queues, id) /\ events[id] = 0
      /\ events[id] <= 1
      /\ events[id] > 0 => IsRunning(queues, id)

(* A task is in one queue, under one key: a running task is not queued as  *)
(* well, a waiting one is not scheduled, and tasks_scheduled does not hold *)
(* it under two timestamps.  (add_queue's removals before it inserts.)     *)
QueueExclusive == \A id \in Ids : Exclusive(queues, id)

(* TaskMeta's documented invariant: rerun_requested is true only for an    *)
(* entry in tasks_running; and health_check's two anomalies never appear:  *)
(* nothing waits for nothing, nothing is scheduled with dependencies left. *)
QueuedMetaSound ==
    \A id \in Ids :
      /\ IsWaiting(queues, id) =>
           ~queues.wait[id].rerun /\ queues.wait[id].deps # {}
      /\ \A s \in Slots : queues.sched[<<s, id>>] # None =>
           ~queues.sched[<<s, id>>].rerun /\ queues.sched[<<s, id>>].deps = {}

(* A future or the finish handler still has the task in hand.              *)
InHand(id) ==
    \/ fin.pc # "idle" /\ fin.id = id
    \/ \E r \in Callers : callers[r].pc # "idle" /\ callers[r].id = id
    \/ writes # <<>> /\ wres = "ok" /\ Head(writes).op = "create"
         /\ Head(writes).id = id

Queued(id) == IsWaiting(queues, id) \/ IsScheduled(queues, id)

(* The task is running, and not just an entry nobody will take out again.  *)
Running(id) == /\ IsRunning(queues, id)
               /\ events[id] > 0 \/ \E l \in Lanes : Executing(<<id, l>>)

(* Somebody will bring the task to a run or to its end.                    *)
Cared(id) == Running(id) \/ Queued(id) \/ InHand(id)

(* No lost task: once the loader is past it, a pending row whose input a   *)
(* builder accepts is running, queued or in somebody's hand -- whatever    *)
(* mix of requests, retries, reruns and restarts brought it there.  (A row *)
(* whose write failed waits for the next start.)                           *)
PendingCared ==
    counts.faults = 0 => \A id \in Ids :
      Pending(rows, id) /\ Buildable(rows[id])
        => \/ loader.pc = "start" \/ id \in loader.todo
           \/ Cared(id)

(* No lost release: for each dependency d a waiting task still lists, d is *)
(* registered as its dependency and will be completed by somebody, or the  *)
(* store query that add_queue issued is going to report d.  (Again unless  *)
(* a write failed, whose row nobody completes before the next start.)      *)
WaitingReleased ==
    counts.faults = 0 => \A w, d \in Ids :
      IsWaiting(queues, w) /\ d \in queues.wait[w].deps
        => \/ /\ <<d, w>> \in queues.dep
              /\ \/ Cared(d) \/ d \in loader.todo
                 \/ loader.pc = "start" /\ Pending(rows, d)
                 \/ ~Buildable(rows[d])
           \/ \E p \in probes :
                /\ p.id = w /\ d \in p.deps
                /\ IF p.answered THEN d \in p.completed
                                 ELSE rows[d].status # "P"

(* Dependency order: a task created with dependencies starts only when     *)
(* each of them is settled -- a run of it has ended, by success or for     *)
(* good, in this process or an earlier one, or its row was closed as       *)
(* failed, in which case its on_failed hook may still be executing.        *)
Settled(d) == d \in ended \/ (rows[d] # None /\ rows[d].status # "P")

DepsBeforeStart ==
    \A b \in Bodies :
      bodies[b].pc = "run" /\ asked[b[1]] # None
        => \A d \in asked[b[1]].deps : Settled(d)

(* The request that is owed a run has a holder that will run its input.    *)
Honours(m, p) == m # None /\ m.param = p
Loads(row, p) == row.param = p /\ Buildable(row)
WillRun(id, p) ==
    \/ Honours(queues.wait[id], p)
    \/ \E s \in Slots : Honours(queues.sched[<<s, id>>], p)
    \/ /\ Honours(queues.run[id], p)
       /\ \/ queues.run[id].rerun \/ queues.run[id].cron = "recurs"
          \/ \E l \in Lanes : bodies[<<id, l>>].pc \in {"retrying", "retryHook"}
    \/ loader.pc = "start" /\ Pending(rows, id) /\ Loads(rows[id], p)
    \/ id \in loader.todo /\ Loads(loader.snap[id], p)
    \/ fin.pc \in {"cron", "resolve"} /\ fin.id = id /\ Honours(fin.meta, p)
    \/ \E r \in Callers : /\ callers[r].pc \in {"clear", "create", "setcron",
                                                 "update", "insert"}
                          /\ callers[r].id = id /\ Honours(callers[r].meta, p)
    \/ writes # <<>> /\ wres = "ok" /\ Head(writes).op = "create"
         /\ Head(writes).id = id /\ Honours(Head(writes).meta, p)

(* A keyed request is never swallowed: from the moment schedule_task_impl  *)
(* has decided about it until a body starts with its input (or the task    *)
(* fails for good), some queue, flag, future or start of the process will  *)
(* start that body, unless a write of the store fails.  A restart keeps    *)
(* the request, but for the rows named by Forgotten.                       *)
RequestHonoured ==
    counts.faults = 0 => \A id \in Ids :
      owed[id] # None => id \in counts.lost \/ WillRun(id, owed[id])

(* Retry budget: no attempt runs, is queued or is stored with a retry count *)
(* beyond the largest policy of any request, however requests made in      *)
(* flight and restarts rewrite the metadata in between.  A count that      *)
(* starts over, as a rerun's does, is within it.                           *)
WithinPolicy(m) == m # None => \E rq \in Requests : m.count <= rq.retry

RetryBudget ==
    \A id \in Ids :
      /\ WithinPolicy(queues.run[id]) /\ WithinPolicy(queues.wait[id])
      /\ WithinPolicy(rows[id])
      /\ \A s \in Slots : WithinPolicy(queues.sched[<<s, id>>])
      /\ \A l \in Lanes : WithinPolicy(bodies[<<id, l>>].meta)

(* A recurring row stays pending through failed runs: it never becomes 'F' *)
(* or 'E', where find_by_key and load would no longer see it.              *)
CronRowPending ==
    \A id \in Ids : rows[id] # None /\ rows[id].cron = "recurs"
      => rows[id].status = "P"

(* "A cron task re-requested as a one-shot runs now, and since rerun_meta  *)
(* keeps the cron field the run after it resumes recurring": the entry a   *)
(* rerun is made from still recurs if the row does.                        *)
RerunResumesCron ==
    \A id \in Ids :
      IsRunning(queues, id) /\ queues.run[id].rerun /\ rows[id].cron = "recurs"
        => queues.run[id].cron = "recurs"

(* on_failed runs for a retryable error only after the retries the task    *)
(* was created with are used up.                                           *)
OnFailedAfterRetries ==
    \A b \in Bodies :
      bodies[b].pc = "failHook" /\ ~bodies[b].perm /\ asked[b[1]] # None
        => bodies[b].meta.count >= asked[b[1]].retry

-----------------------------------------------------------------------------
(* The scheduler implements the task lifecycle.                            *)
Lifecycle == INSTANCE TaskLifecycle WITH
    status <- [id \in Ids |-> IF rows[id] = None THEN "none" ELSE rows[id].status],
    active <- [id \in Ids |-> Cardinality({l \in Lanes : Executing(<<id, l>>)})],
    needs  <- [id \in Ids |-> IF asked[id] = None THEN {} ELSE asked[id].deps]

(* Every step of callers, dispatcher, bodies, finish handler, loader, store *)
(* and restarts is a step of the abstract lifecycle or changes nothing it  *)
(* sees.  Stated for requests without a key: a keyed re-request may change *)
(* what a task depends on.                                                 *)
ImplementsLifecycle == Lifecycle!Spec

-----------------------------------------------------------------------------
(* Fairness: the worker keeps polling every future that can go on, the     *)
(* store answers, a due entry is dispatched and task.run returns.  Nothing *)
(* obliges a caller to call, the process to stop or a write to fail.       *)
Fairness ==
    /\ WF_vars(WriteEffect \/ WriteFails)
    /\ WF_vars(\E p \in probes : ProbeAnswered(p))
    /\ \A s \in Slots, id \in Ids : WF_vars(Dispatch(s, id))
    /\ \A b \in Bodies : WF_vars(BodyStep(b))
    /\ \A r \in Callers : WF_vars(CallerStep(r))
    /\ WF_vars(FinStep)
    /\ WF_vars(LoaderStep)

FairSpec == Spec /\ Fairness

(* A row the loader has passed by: its kind's builder rejects its input.   *)
Skipped(id) ==
    Pending(rows, id) /\ ~Buildable(rows[id]) /\ loader.pc = "done" /\ ~Cared(id)

(* A request that takes over the row of another kind, for an equal key,    *)
(* can leave a row no start loads, or a task that waits for itself.  Stuck *)
(* is what waits in a circle or for a row that was skipped.                *)
Stuck(id) ==
    \E S \in SUBSET Ids :
      /\ id \in S
      /\ \A w \in S : \/ Skipped(w)
                      \/ IsWaiting(queues, w) /\ queues.wait[w].deps \cap S # {}

(* Every pending row without a further occurrence eventually leaves 'P',   *)
(* across restarts, retries and dependencies, unless two kinds share its   *)
(* key and that leaves it stuck.                                           *)
PendingEnds ==
    \A id \in Ids : Pending(rows, id) /\ rows[id].cron # "recurs"
                      ~> ~Pending(rows, id) \/ Stuck(id)

(* A recurring task recurs: its row is never left without another run, be  *)
(* its runs successful or not.                                             *)
Recurs ==
    \A id \in Ids : Pending(rows, id) /\ rows[id].cron = "recurs"
                      ~> \E l \in Lanes : bodies[<<id, l>>].pc = "run"
=============================================================================
