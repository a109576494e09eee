----------------------------- MODULE Scheduler ------------------------------
(***************************************************************************)
(* cloudillo-core's task scheduler: the callers of schedule_task_impl, the *)
(* dispatcher, the task bodies, the finish handler and the loader, over    *)
(* the queues of TaskQueues and the tables of TaskStore.                   *)
(*                                                                         *)
(* One async worker runs every future, so what a future does between two   *)
(* awaits is one action.  The bootstrap code also calls the scheduler from *)
(* the main thread, in parallel with the worker: a caller of MainCallers   *)
(* takes one action per decision it makes under a lock of its own.         *)
(*                                                                         *)
(* The store has one writer connection, granted first come first served    *)
(* and held until the future that uses it goes on: an operation takes      *)
(* effect (WriteEffect), readers see it, and only then its issuer resumes. *)
(* Reads go to other connections: they take effect, and their reader may   *)
(* resume much later, with an answer that is stale by then.                *)
(***************************************************************************)
EXTENDS TaskStore, Sequences

CONSTANTS
    Callers,      \* numbers of the tasks and handlers that schedule work
    MainCallers,  \* those among them that run on the main thread
    Requests,     \* what they may ask for
    Fallible,     \* inputs whose task.run may fail
    Unbuildable,  \* inputs the builder of their own kind rejects at load
    Lanes,        \* bound: bodies one id can have at the same time
    MaxRequests,  \* bound: calls of schedule_task_impl
    MaxCrashes,   \* bound: restarts of the process
    MaxFaults,    \* bound: store writes that fail
    MaxMishaps,   \* bound: both together
    EarlyRequests \* requests may come while the loader is still at work

Request == [key : Keys \cup {None}, param : Params, deps : SUBSET Ids,
            retry : Nat, cron : CronKinds, next : Slots, startup : BOOLEAN]

ASSUME CallersAssumption == MainCallers \subseteq Callers
ASSUME RequestsAssumption == Requests \subseteq Request
ASSUME BoundsAssumption ==
    /\ MaxRequests \in Nat /\ MaxCrashes \in Nat /\ MaxFaults \in Nat
    /\ MaxMishaps \in Nat /\ EarlyRequests \in BOOLEAN

VARIABLES
    queues,    \* the four maps of the Scheduler struct
    rows,      \* the persistent tables
    events,    \* ids sent on the finish channel and not yet received
    bodies,    \* the futures spawn_task starts
    callers,   \* the calls of schedule_task_impl
    fin,       \* the finish handler
    loader,    \* load() and load_one()
    writes,    \* writes issued to the store, the connection holder first
    wres,      \* what became of the holder's write
    probes,    \* find_completed_deps queries in flight
    counts,    \* requests made, crashes and faults so far, requests lost
    asked,     \* history: dependencies and retries a task was created with
    ended,     \* history: ids one of whose runs has ended for good
    owed       \* history: the input of the last request not run yet

vars == <<queues, rows, events, bodies, callers, fin, loader, writes, wres,
          probes, counts, asked, ended, owed>>
history == <<asked, ended, owed>>

Bodies == Ids \X Lanes

CallerTag(r) == <<"caller", r, 0>>
BodyTag(b)   == <<"body", b[1], b[2]>>
FinisherTag  == <<"finisher", 0, 0>>
LoaderTag    == <<"loader", 0, 0>>

Idle     == [pc |-> "idle", key |-> None, id |-> None, changed |-> FALSE,
             meta |-> None]
NoBody   == [pc |-> "off", meta |-> None, perm |-> FALSE]
FinIdle  == [pc |-> "idle", id |-> None, meta |-> None]
Unloaded == [pc |-> "start", todo |-> {}, snap |-> [id \in Ids |-> None]]

Init ==
    /\ queues = EmptyQueues
    /\ rows = [id \in Ids |-> None]
    /\ events = [id \in Ids |-> 0]
    /\ bodies = [b \in Bodies |-> NoBody]
    /\ callers = [r \in Callers |-> Idle]
    /\ fin = FinIdle
    /\ loader = Unloaded
    /\ writes = <<>>
    /\ wres = "busy"
    /\ probes = {}
    /\ counts = [requests |-> 0, crashes |-> 0, faults |-> 0, lost |-> {}]
    /\ asked = [id \in Ids |-> None]
    /\ ended = {}
    /\ owed = [id \in Ids |-> None]

-----------------------------------------------------------------------------
(* The single-writer store.                                                *)

Write(who, op, id, key, meta) ==
    [who |-> who, op |-> op, id |-> id, key |-> key, meta |-> meta]

(* A future that resumes returns the connection before it issues its next  *)
(* write, which queues behind the ones already waiting.                    *)
Issue(w) == writes' = Append(writes, w) /\ UNCHANGED wres

Holds(who) == writes # <<>> /\ Head(writes).who = who /\ wres # "busy"
Return == writes' = Tail(writes) /\ wres' = "busy"
ReturnAndIssue(w) == writes' = Append(Tail(writes), w) /\ wres' = "busy"

(* One operation of the task tables.                                       *)
Effect(w) ==
    CASE w.op = "create"   -> CreateTask(rows, w.id, w.key, w.meta)
      [] w.op = "cron"     -> StoreCron(rows, w.id, w.meta)
      [] w.op = "update"   -> UpdateTask(rows, w.id, w.meta)
      [] w.op = "finish"   -> MarkFinished(rows, w.id)
      [] w.op = "undep"    -> DropDependency(rows, w.id)
      [] w.op = "postpone" -> Postpone(rows, w.id)
      [] w.op = "fail"     -> MarkFailed(rows, w.id)

Creatable(w) == CanCreate(rows, w.key, KindOf[w.meta.param])

(* The write at the head of the queue takes effect, all of it or nothing.  *)
(* A create learns its id and, with it, what was asked for under that id.  *)
WriteEffect ==
    /\ writes # <<>> /\ wres = "busy"
    /\ LET h == Head(writes)
           creates == h.op = "create"
           w == IF creates THEN [h EXCEPT !.id = NewId(rows)] ELSE h
       IN  /\ creates => Creatable(h)
           /\ rows' = Effect(w)
           /\ writes' = [writes EXCEPT ![1] = w]
           /\ asked' = IF creates
                         THEN [asked EXCEPT ![w.id] =
                                [deps |-> w.meta.deps, retry |-> w.meta.retry]]
                         ELSE asked
           /\ owed' = IF creates THEN [owed EXCEPT ![w.id] = w.meta.param]
                                 ELSE owed
    /\ wres' = "ok"
    /\ UNCHANGED <<queues, events, bodies, callers, fin, loader, probes,
                   counts, ended>>

(* The write fails: the index refuses a second pending row of the kind for *)
(* the key, or the database reports an error.                              *)
Mishap == counts.crashes + counts.faults < MaxMishaps

WriteFails ==
    /\ writes # <<>> /\ wres = "busy"
    /\ \/ /\ Head(writes).op = "create"
          /\ ~Creatable(Head(writes))
          /\ UNCHANGED counts
       \/ /\ counts.faults < MaxFaults /\ Mishap
          /\ counts' = [counts EXCEPT !.faults = @ + 1]
    /\ wres' = "failed"
    /\ UNCHANGED <<queues, rows, events, bodies, callers, fin, loader, writes,
                   probes, history>>

-----------------------------------------------------------------------------
(* find_completed_deps: add_queue registers a waiting task, asks the store *)
(* and resolves what the answer says.                                      *)

Probe(who, id, deps) ==
    [who |-> who, id |-> id, deps |-> deps, answered |-> FALSE, completed |-> {}]

ProbeAnswered(p) ==
    /\ ~p.answered
    /\ probes' = (probes \ {p}) \cup
         {[p EXCEPT !.answered = TRUE, !.completed = FindCompleted(rows, p.deps)]}
    /\ UNCHANGED <<queues, rows, events, bodies, callers, fin, loader, writes,
                   wres, counts, history>>

Resolved(p, who) == p.who = who /\ p.answered
AfterProbe(p) == ResolveDeps(queues, p.id, p.deps, p.completed)

(* add_queue for an actor, from the queues qs, up to its await.            *)
Enqueue(qs, who, id, m) ==
    /\ queues' = AddQueue(qs, id, m)
    /\ probes' = IF ChecksDeps(qs, id, m)
                   THEN probes \cup {Probe(who, id, m.deps)} ELSE probes

-----------------------------------------------------------------------------
(* Starting bodies.                                                        *)

FreeLanes(id) == {l \in Lanes : bodies[<<id, l>>].pc = "off"}
CanSpawn(S) == \A id \in S : FreeLanes(id) # {}

(* spawn_task for every id of S; meta[id] is the snapshot its future keeps *)
Spawn(S, meta) ==
    /\ CanSpawn(S)
    /\ bodies' = [b \in Bodies |->
         IF b[1] \in S /\ b[2] = CHOOSE l \in FreeLanes(b[1]) : TRUE
           THEN [pc |-> "run", meta |-> meta[b[1]], perm |-> FALSE]
           ELSE bodies[b]]
    /\ owed' = [id \in Ids |->
         IF id \in S /\ owed[id] = meta[id].param THEN None ELSE owed[id]]

(* The dispatcher: an entry that is due moves to tasks_running, under both *)
(* locks, and its body starts.                                             *)
Dispatch(s, id) ==
    /\ queues.sched[<<s, id>>] # None
    /\ LET q == StartScheduled(queues, s, id)
       IN  /\ queues' = q
           /\ Spawn({id}, q.run)
    /\ UNCHANGED <<rows, events, callers, fin, loader, writes, wres, probes,
                   counts, asked, ended>>

-----------------------------------------------------------------------------
(* The body's future: task.run and what spawn_task does with its result.   *)

Body(b, pc) == bodies[b].pc = pc
Move(b, pc) == bodies' = [bodies EXCEPT ![b].pc = pc]

(* Faulty variant: one retry too many.                                     *)
RetriesOnceMore(b, perm) == ~perm /\ bodies[b].meta.count <= bodies[b].meta.retry

ShouldRetry(b, perm) == ~perm /\ bodies[b].meta.count < bodies[b].meta.retry

SendFinish(id) == events' = [events EXCEPT ![id] = @ + 1]

BodySucceeds(b) ==
    /\ Body(b, "run")
    /\ bodies' = [bodies EXCEPT ![b] = NoBody]
    /\ SendFinish(b[1])
    /\ ended' = ended \cup {b[1]}
    /\ UNCHANGED <<queues, rows, callers, fin, loader, writes, wres, probes,
                   counts, asked, owed>>

(* Faulty variant: the final failure of any task closes its row.           *)
ClosesRow(m, retries) == IF retries THEN "postpone" ELSE "fail"

(* A failed run of a cron task that recurs leaves its row pending.         *)
ErrorOp(m, retries) ==
    IF retries \/ m.cron = "recurs" THEN "postpone" ELSE "fail"

(* perm: the error is not retryable, which nobody asks without a policy.   *)
BodyFails(b, perm) ==
    /\ Body(b, "run") /\ bodies[b].meta.param \in Fallible
    /\ perm => bodies[b].meta.retry > 0
    /\ LET m == bodies[b].meta
           retries == ShouldRetry(b, perm)
       IN  /\ bodies' = [bodies EXCEPT
                 ![b].pc = IF retries THEN "retrying" ELSE "failing",
                 ![b].perm = perm]
           /\ Issue(Write(BodyTag(b), ErrorOp(m, retries), b[1], None, m))
    /\ UNCHANGED <<queues, rows, events, callers, fin, loader, probes, counts,
                   history>>

(* update_task_error has returned, with an error or without: the hook runs *)
BodyErrorStored(b) ==
    /\ Holds(BodyTag(b))
    /\ Return
    /\ \/ Body(b, "retrying") /\ Move(b, "retryHook")
       \/ Body(b, "failing")  /\ Move(b, "failHook")
    /\ UNCHANGED <<queues, rows, events, callers, fin, loader, probes, counts,
                   history>>

(* Faulty variants: the request flag survives, the count runs backwards.   *)
RetryKeepingRequest(b) ==
    [queues.run[b[1]] EXCEPT !.count = bodies[b].meta.count + 1, !.next = "later"]
RetryCountingDown(b) ==
    [queues.run[b[1]] EXCEPT !.count = bodies[b].meta.count - 1, !.next = "later",
                             !.rerun = FALSE]

(* on_attempt_failed has returned.  The retry runs the metadata a request  *)
(* may have written since the start, counts on from the snapshot, and      *)
(* satisfies the request.                                                  *)
RetryMeta(b) ==
    LET current == queues.run[b[1]]
        base == IF current = None THEN bodies[b].meta ELSE current
    IN  [base EXCEPT !.count = bodies[b].meta.count + 1, !.next = "later",
                     !.rerun = FALSE]

(* Faulty variant: the entry is not taken out before it is queued again.   *)
BodyRetriesInPlace(b) ==
    /\ Body(b, "retryHook")
    /\ Enqueue(queues, BodyTag(b), b[1], RetryMeta(b))
    /\ bodies' = [bodies EXCEPT ![b] = NoBody]
    /\ UNCHANGED <<rows, events, callers, fin, loader, writes, wres, counts,
                   history>>

BodyRetries(b) ==
    /\ Body(b, "retryHook")
    /\ LET id == b[1]
           taken == TakeRunning(queues, id)
           m == RetryMeta(b)
       IN  /\ Enqueue(taken, BodyTag(b), id, m)
           /\ bodies' = [bodies EXCEPT ![b] =
                 IF ChecksDeps(taken, id, m) THEN [@ EXCEPT !.pc = "resolve"]
                                             ELSE NoBody]
    /\ UNCHANGED <<rows, events, callers, fin, loader, writes, wres, counts,
                   history>>

BodyResolves(b) ==
    /\ Body(b, "resolve")
    /\ \E p \in probes :
         /\ Resolved(p, BodyTag(b))
         /\ queues' = AfterProbe(p)
         /\ probes' = probes \ {p}
    /\ bodies' = [bodies EXCEPT ![b] = NoBody]
    /\ UNCHANGED <<rows, events, callers, fin, loader, writes, wres, counts,
                   history>>

(* Faulty variant: no completion event after a final failure.              *)
BodyGivesUpSilently(b) ==
    /\ Body(b, "failHook")
    /\ queues' = TakeRunning(queues, b[1])
    /\ bodies' = [bodies EXCEPT ![b] = NoBody]
    /\ ended' = ended \cup {b[1]}
    /\ owed' = [owed EXCEPT ![b[1]] = None]
    /\ UNCHANGED <<rows, events, callers, fin, loader, writes, wres, probes,
                   counts, asked>>

(* on_failed has returned: a request made during the run is dropped, what  *)
(* it asked for has failed for good.                                       *)
BodyGivesUp(b) ==
    /\ Body(b, "failHook")
    /\ queues' = ClearRerunRequest(queues, b[1])
    /\ SendFinish(b[1])
    /\ bodies' = [bodies EXCEPT ![b] = NoBody]
    /\ ended' = ended \cup {b[1]}
    /\ owed' = [owed EXCEPT ![b[1]] = None]
    /\ UNCHANGED <<rows, callers, fin, loader, writes, wres, probes, counts,
                   asked>>

BodyStep(b) ==
    \/ BodySucceeds(b)
    \/ \E perm \in BOOLEAN : BodyFails(b, perm)
    \/ BodyErrorStored(b)
    \/ BodyRetries(b)
    \/ BodyResolves(b)
    \/ BodyGivesUp(b)

-----------------------------------------------------------------------------
(* The finish handler.                                                     *)

(* release_dependents from the queues qs, the ready ones started: the last *)
(* segment of every completion.                                            *)
Release(qs, id) ==
    LET q == ReleaseDependents(qs, id)
    IN  /\ queues' = q
        /\ Spawn(Ready(qs, id), q.run)
        /\ fin' = FinIdle

(* A completion event arrives.  The entry leaves tasks_running first, with *)
(* the metadata and the request flag it holds then.                        *)
FinTakes(id) ==
    /\ fin.pc = "idle" /\ events[id] > 0
    /\ events' = [events EXCEPT ![id] = @ - 1]

RerunMeta(m) == [m EXCEPT !.next = "now", !.count = 0, !.rerun = FALSE]

FinNotFound(id) ==
    /\ FinTakes(id) /\ ~IsRunning(queues, id)
    /\ UNCHANGED <<queues, rows, bodies, callers, fin, loader, writes, wres,
                   probes, counts, history>>

WantsRerun(m) == m.rerun

FinReruns(id) ==
    /\ FinTakes(id) /\ IsRunning(queues, id) /\ WantsRerun(queues.run[id])
    /\ LET m == RerunMeta(queues.run[id])
           taken == TakeRunning(queues, id)
       IN  IF m.deps # {}
             THEN /\ Enqueue(taken, FinisherTag, id, m)
                  /\ fin' = [pc |-> "resolve", id |-> id, meta |-> m]
                  /\ UNCHANGED <<bodies, owed>>
             ELSE /\ Release(AddQueue(taken, id, m), id)
                  /\ UNCHANGED probes
    /\ UNCHANGED <<rows, callers, loader, writes, wres, counts, asked, ended>>

(* A recurring task is persisted and queued for its next occurrence; any   *)
(* other completed run finishes the row.                                   *)
FinStores(id) ==
    /\ FinTakes(id) /\ IsRunning(queues, id) /\ ~WantsRerun(queues.run[id])
    /\ LET m == queues.run[id]
           recurs == m.cron = "recurs"
           upd == IF recurs THEN [m EXCEPT !.next = "later"] ELSE m
       IN  /\ fin' = [pc |-> IF recurs THEN "cron" ELSE "finish",
                      id |-> id, meta |-> upd]
           /\ Issue(Write(FinisherTag, IF recurs THEN "update" ELSE "finish",
                          id, None, upd))
    /\ queues' = TakeRunning(queues, id)
    /\ UNCHANGED <<rows, bodies, callers, loader, probes, counts, history>>

FinCronStored ==
    /\ fin.pc = "cron" /\ Holds(FinisherTag)
    /\ Return
    /\ IF ChecksDeps(queues, fin.id, fin.meta)
         THEN /\ Enqueue(queues, FinisherTag, fin.id, fin.meta)
              /\ fin' = [fin EXCEPT !.pc = "resolve"]
              /\ UNCHANGED <<bodies, owed>>
         ELSE /\ Release(AddQueue(queues, fin.id, fin.meta), fin.id)
              /\ UNCHANGED probes
    /\ UNCHANGED <<rows, events, callers, loader, counts, asked, ended>>

FinResolves ==
    /\ fin.pc = "resolve"
    /\ \E p \in probes : /\ Resolved(p, FinisherTag)
                         /\ Release(AfterProbe(p), fin.id)
                         /\ probes' = probes \ {p}
    /\ UNCHANGED <<rows, events, callers, loader, writes, wres, counts, asked,
                   ended>>

(* The UPDATE of mark_finished is done; the DELETE follows unless it failed *)
FinRowStamped ==
    /\ fin.pc = "finish" /\ Holds(FinisherTag) /\ wres = "ok"
    /\ ReturnAndIssue(Write(FinisherTag, "undep", fin.id, None, fin.meta))
    /\ fin' = [fin EXCEPT !.pc = "undep"]
    /\ UNCHANGED <<queues, rows, events, bodies, callers, loader, probes,
                   counts, history>>

FinFinished ==
    /\ \/ fin.pc = "undep"
       \/ fin.pc = "finish" /\ wres = "failed"
    /\ Holds(FinisherTag)
    /\ Return
    /\ Release(queues, fin.id)
    /\ UNCHANGED <<rows, events, callers, loader, probes, counts, asked, ended>>

FinStep ==
    \/ \E id \in Ids : FinNotFound(id) \/ FinReruns(id) \/ FinStores(id)
    \/ FinCronStored
    \/ FinResolves
    \/ FinRowStamped
    \/ FinFinished

-----------------------------------------------------------------------------
(* schedule_task_impl.                                                     *)

Caller(r, pc) == callers[r].pc = pc
CallerMoves(r, pc) == callers' = [callers EXCEPT ![r].pc = pc]
CallerReturns(r) == callers' = [callers EXCEPT ![r] = Idle]
OnMain(r) == r \in MainCallers

(* run_on_startup: due now unless the persisted occurrence lies ahead.     *)
EffectiveNext(rq, id) ==
    IF rq.startup /\ rq.cron # "none"
      THEN IF id # None /\ rows[id].next = "later"
             THEN {rq.next, "now"}   \* "now": it passed while nobody looked
             ELSE {"now"}
      ELSE {rq.next}

MetaOf(rq, next) ==
    [param |-> rq.param, next |-> next, deps |-> rq.deps, count |-> 0,
     retry |-> rq.retry, cron |-> rq.cron, rerun |-> FALSE]

Answers(found) == IF found = {} THEN {None} ELSE found

(* The call, up to the answer of find_by_key.  Dependencies are looked up   *)
(* by kind and key, and never those of the request: a row its key resolves *)
(* to may still be one of them.                                            *)
CallerAsks(r, rq) ==
    /\ Caller(r, "idle") /\ counts.requests < MaxRequests
    /\ EarlyRequests \/ loader.pc = "done"
    /\ \A d \in rq.deps : rows[d] # None
    /\ rq.deps \cap OfKind(rows, rq.key, KindOf[rq.param]) = {}
    /\ \E id \in Answers(FindByKey(rows, rq.key)) :
       \E next \in EffectiveNext(rq, id) :
          callers' = [callers EXCEPT ![r] =
           [pc |-> "found", key |-> rq.key, id |-> id,
            changed |-> id # None /\ rows[id].param # rq.param,
            meta |-> MetaOf(rq, next)]]
    /\ counts' = [counts EXCEPT !.requests = @ + 1]
    /\ UNCHANGED <<queues, rows, events, bodies, fin, loader, writes, wres,
                   probes, history>>

(* No row for the key: store a new one.                                    *)
CallerCreates(r) ==
    /\ Caller(r, "found") /\ callers[r].id = None
    /\ Issue(Write(CallerTag(r), "create", None, callers[r].key, callers[r].meta))
    /\ CallerMoves(r, "create")
    /\ UNCHANGED <<queues, rows, events, bodies, fin, loader, probes, counts,
                   history>>

UpdateRow(r) == Write(CallerTag(r), "update", callers[r].id, None, callers[r].meta)

(* From here on the request counts as made.                                *)
Accept(r) ==
    /\ owed' = [owed EXCEPT ![callers[r].id] = callers[r].meta.param]
    /\ asked' = [asked EXCEPT ![callers[r].id] = [deps |-> {}, retry |-> 0]]

RequestInPlace(qs, id, m) ==
    RefreshRunning(qs, id, m, qs.run[id].rerun \/ m.cron = "none")

(* The task is running: its entry takes the request, no queue changes.     *)
CallerFindsRunning(r) ==
    /\ Caller(r, "found") /\ callers[r].id # None
    /\ IsRunning(queues, callers[r].id)
    /\ queues' = RequestInPlace(queues, callers[r].id, callers[r].meta)
    /\ Issue(UpdateRow(r))
    /\ CallerMoves(r, "refresh")
    /\ Accept(r)
    /\ UNCHANGED <<rows, events, bodies, fin, loader, probes, counts, ended>>

ClearQueued(r) ==
    /\ queues' = IF callers[r].changed THEN RemoveFromQueues(queues, callers[r].id)
                                       ELSE queues
    /\ Issue(UpdateRow(r))
    /\ CallerMoves(r, "update")

(* It is not: the old entry goes if the parameters changed, the row is     *)
(* updated.  On the main thread the worker may act between the two locks.  *)
CallerFindsIdle(r) ==
    /\ Caller(r, "found") /\ callers[r].id # None
    /\ ~IsRunning(queues, callers[r].id)
    /\ IF OnMain(r) THEN CallerMoves(r, "clear") /\ UNCHANGED <<queues, writes, wres>>
                    ELSE ClearQueued(r)
    /\ Accept(r)
    /\ UNCHANGED <<rows, events, bodies, fin, loader, probes, counts, ended>>

CallerClears(r) ==
    /\ Caller(r, "clear")
    /\ ClearQueued(r)
    /\ UNCHANGED <<rows, events, bodies, fin, loader, probes, counts, history>>

(* A write of the call has returned.                                       *)
CallerFails(r) ==
    /\ Holds(CallerTag(r)) /\ wres = "failed"
    /\ Return
    /\ CallerReturns(r)
    /\ UNCHANGED <<queues, rows, events, bodies, fin, loader, probes, counts,
                   history>>

CallerRefreshed(r) ==
    /\ Caller(r, "refresh") /\ Holds(CallerTag(r)) /\ wres = "ok"
    /\ Return
    /\ CallerReturns(r)
    /\ UNCHANGED <<queues, rows, events, bodies, fin, loader, probes, counts,
                   history>>

StoresCron(r) == Caller(r, "create") /\ callers[r].meta.cron # "none"

CallerStoresCron(r) ==
    /\ StoresCron(r) /\ Holds(CallerTag(r)) /\ wres = "ok"
    /\ LET id == Head(writes).id
       IN  /\ ReturnAndIssue(Write(CallerTag(r), "cron", id, None, callers[r].meta))
           /\ callers' = [callers EXCEPT ![r].pc = "setcron", ![r].id = id]
    /\ UNCHANGED <<queues, rows, events, bodies, fin, loader, probes, counts,
                   history>>

(* add_queue.  On the main thread the check of tasks_running and the       *)
(* insertion are two steps.                                                *)
CallerQueues(r) ==
    /\ callers[r].pc \in {"create", "setcron", "update"}
    /\ ~StoresCron(r) /\ Holds(CallerTag(r)) /\ wres = "ok"
    /\ Return
    /\ LET id == Head(writes).id
           m == callers[r].meta
       IN  IF OnMain(r) /\ ~IsRunning(queues, id)
             THEN /\ callers' = [callers EXCEPT ![r].pc = "insert", ![r].id = id]
                  /\ UNCHANGED <<queues, probes>>
             ELSE /\ Enqueue(queues, CallerTag(r), id, m)
                  /\ callers' = [callers EXCEPT ![r] =
                       IF ChecksDeps(queues, id, m)
                         THEN [@ EXCEPT !.pc = "resolve", !.id = id] ELSE Idle]
    /\ UNCHANGED <<rows, events, bodies, fin, loader, counts, history>>

CallerInserts(r) ==
    /\ Caller(r, "insert")
    /\ LET id == callers[r].id
           m == callers[r].meta
       IN  /\ queues' = InsertAfresh(queues, id, m)
           /\ IF m.deps # {}
                THEN /\ probes' = probes \cup {Probe(CallerTag(r), id, m.deps)}
                     /\ CallerMoves(r, "resolve")
                ELSE CallerReturns(r) /\ UNCHANGED probes
    /\ UNCHANGED <<rows, events, bodies, fin, loader, writes, wres, counts,
                   history>>

CallerResolves(r) ==
    /\ Caller(r, "resolve")
    /\ \E p \in probes :
         /\ Resolved(p, CallerTag(r))
         /\ queues' = AfterProbe(p)
         /\ probes' = probes \ {p}
    /\ CallerReturns(r)
    /\ UNCHANGED <<rows, events, bodies, fin, loader, writes, wres, counts,
                   history>>

CallerStep(r) ==
    \/ CallerCreates(r)
    \/ CallerFindsRunning(r) \/ CallerFindsIdle(r) \/ CallerClears(r)
    \/ CallerFails(r) \/ CallerRefreshed(r) \/ CallerStoresCron(r)
    \/ CallerQueues(r) \/ CallerInserts(r) \/ CallerResolves(r)

-----------------------------------------------------------------------------
(* load: one read of the pending rows, then load_one for each of them, in  *)
(* any order.  Other actors may act between two rows, as they may whenever *)
(* a row with dependencies awaits.                                         *)

LoaderReads ==
    /\ loader.pc = "start"
    /\ LET todo == {id \in Ids : Pending(rows, id)}
       IN  loader' = IF todo = {} THEN [Unloaded EXCEPT !.pc = "done"]
                     ELSE [pc |-> "loop", todo |-> todo,
                           snap |-> [id \in Ids |->
                              IF id \in todo THEN rows[id] ELSE None]]
    /\ UNCHANGED <<queues, rows, events, bodies, callers, fin, writes, wres,
                   probes, counts, history>>

(* load_one hands the input to the builder of the row's kind, which takes  *)
(* no other kind's input.                                                  *)
Buildable(row) ==
    row.param \notin Unbuildable /\ row.kind = KindOf[row.param]

(* Faulty variant: the first row no builder accepts ends the load.         *)
LoadedUntilBadRow(id) ==
    IF loader.todo = {id} \/ ~Buildable(loader.snap[id])
      THEN [Unloaded EXCEPT !.pc = "done"]
      ELSE [loader EXCEPT !.pc = "loop", !.todo = @ \ {id}, !.snap[id] = None]

(* The loader once the row of id is behind it.                             *)
LoadedRow(id) ==
    IF loader.todo = {id} THEN [Unloaded EXCEPT !.pc = "done"]
    ELSE [loader EXCEPT !.pc = "loop", !.todo = @ \ {id}, !.snap[id] = None]

LoadedMeta(row) ==
    [param |-> row.param, next |-> row.next, deps |-> row.deps,
     count |-> row.count, retry |-> row.retry, cron |-> row.cron,
     rerun |-> FALSE]

(* One row costs only itself: an input the builder rejects is skipped.     *)
LoaderSkips(id) ==
    /\ loader.pc = "loop" /\ id \in loader.todo
    /\ ~Buildable(loader.snap[id])
    /\ loader' = LoadedRow(id)
    /\ UNCHANGED <<queues, rows, events, bodies, callers, fin, writes, wres,
                   probes, counts, history>>

LoaderQueues(id) ==
    /\ loader.pc = "loop" /\ id \in loader.todo
    /\ Buildable(loader.snap[id])
    /\ LET m == LoadedMeta(loader.snap[id])
       IN  /\ Enqueue(queues, LoaderTag, id, m)
           /\ loader' = IF ChecksDeps(queues, id, m)
                          THEN [loader EXCEPT !.pc = "resolve"]
                          ELSE LoadedRow(id)
    /\ UNCHANGED <<rows, events, bodies, callers, fin, writes, wres, counts,
                   history>>

LoaderResolves ==
    /\ loader.pc = "resolve"
    /\ \E p \in probes :
         /\ Resolved(p, LoaderTag)
         /\ queues' = AfterProbe(p)
         /\ probes' = probes \ {p}
         /\ loader' = LoadedRow(p.id)
    /\ UNCHANGED <<rows, events, bodies, callers, fin, writes, wres, counts,
                   history>>

LoaderStep ==
    \/ LoaderReads
    \/ \E id \in Ids : LoaderSkips(id) \/ LoaderQueues(id)
    \/ LoaderResolves

-----------------------------------------------------------------------------
(* A request survives a restart once its row holds its input; until then   *)
(* it dies with the call that makes it.                                    *)
Survives(id) == rows[id] # None /\ rows[id].param = owed[id]

(* The requests no start will find: the row was closed under them by the   *)
(* run that was ending when they came, the open race the finish handler's  *)
(* comment names, or its kind's builder rejects it.                        *)
Forgotten ==
    {id \in Ids : Survives(id) /\ ~(Pending(rows, id) /\ Buildable(rows[id]))}

(* The process stops anywhere and starts again: memory is gone, the tables *)
(* stay as the last effective write left them.                             *)
Crash ==
    /\ counts.crashes < MaxCrashes /\ Mishap
    /\ counts' = [counts EXCEPT !.crashes = @ + 1, !.lost = @ \cup Forgotten]
    /\ queues' = EmptyQueues
    /\ events' = [id \in Ids |-> 0]
    /\ bodies' = [b \in Bodies |-> NoBody]
    /\ callers' = [r \in Callers |-> Idle]
    /\ fin' = FinIdle
    /\ loader' = Unloaded
    /\ writes' = <<>>
    /\ wres' = "busy"
    /\ probes' = {}
    /\ owed' = [id \in Ids |-> IF Survives(id) THEN owed[id] ELSE None]
    /\ UNCHANGED <<rows, asked, ended>>

StoreStep ==
    \/ WriteEffect
    \/ WriteFails
    \/ \E p \in probes : ProbeAnswered(p)

Next ==
    \/ StoreStep
    \/ \E s \in Slots, id \in Ids : Dispatch(s, id)
    \/ \E b \in Bodies : BodyStep(b)
    \/ FinStep
    \/ \E r \in Callers, rq \in Requests : CallerAsks(r, rq)
    \/ \E r \in Callers : CallerStep(r)
    \/ LoaderStep
    \/ Crash

Spec == Init /\ [][Next]_vars
=============================================================================
