------------------------ MODULE Dependencies_proofs -------------------------
(***************************************************************************)
(* What the scheduler's metadata says, wherever it is: QueuedMetaSound,    *)
(* RetryBudget and DepsBeforeStart, for any ids, callers (the main thread's *)
(* too), requests and bounds.                                              *)
(*                                                                         *)
(* A task's metadata is copied: from a call to a write and to a row, from  *)
(* a row to the loader's snapshot, into a queue, into a body's future and  *)
(* into the finish handler.  A body starts from a copy in a queue, so what *)
(* may start is right only if every copy was: DepsInv says of each of them *)
(* that it lists whatever the task was created to depend on and is not yet *)
(* settled, and that its count and policy are within what was asked for.   *)
(* The futures that await a write are tied to it (Owned), since they go on *)
(* with its id.  All of it is relative to what is Known, which only grows, *)
(* so a step that settles a task or creates a row leaves every copy right. *)
(***************************************************************************)
EXTENDS Scheduler_proofs

(* What is known when a step is judged: the dependencies each task was     *)
(* created with (Accept drops them), the tasks that are settled, and the   *)
(* tasks that have a row.  It only grows: see Grown.                       *)
Needs == [id \in Ids |-> IF asked[id] = None THEN {} ELSE asked[id].deps]
Known == [needs   |-> Needs,
          settled |-> {d \in Ids : Settled(d)},
          stored  |-> {id \in Ids : rows[id] # None}]

Grown(c, c2) ==
    /\ c.settled \subseteq c2.settled
    /\ c.stored \subseteq c2.stored
    /\ \A id \in c.stored : c2.needs[id] \subseteq c.needs[id]

(* Metadata or a row: neither its count nor its policy exceeds what        *)
(* somebody asked for, and what it depends on is stored.                   *)
PolicyOK(m) == /\ \E rq \in Requests : m.count <= rq.retry
               /\ \E rq \in Requests : m.retry <= rq.retry
Sane(m, c) == PolicyOK(m) /\ m.deps \subseteq c.stored

(* It lists every dependency of the task that is not settled.              *)
Lists(m, id, c) ==
    id \in c.stored /\ Sane(m, c) /\ c.needs[id] \subseteq m.deps \cup c.settled
Queueable(m, id, c) == Lists(m, id, c) /\ ~m.rerun

(* Nothing keeps the task from running.                                    *)
Startable(m, id, c) ==
    id \in c.stored /\ Sane(m, c) /\ c.needs[id] \subseteq c.settled

QueuesFit(qs, c) ==
    \A id \in Ids :
      /\ IsRunning(qs, id) => Startable(qs.run[id], id, c)
      /\ IsWaiting(qs, id) => Queueable(qs.wait[id], id, c) /\ qs.wait[id].deps # {}
      /\ \A s \in Slots : qs.sched[<<s, id>>] # None =>
           Queueable(qs.sched[<<s, id>>], id, c) /\ qs.sched[<<s, id>>].deps = {}

BodiesFit(bs, c) ==
    \A b \in Bodies : bs[b].pc # "off" =>
      /\ Startable(bs[b].meta, b[1], c)
      /\ bs[b].pc \in {"retrying", "retryHook"} => bs[b].meta.count < bs[b].meta.retry

EventsFit(ev, en) == \A id \in Ids : ev[id] > 0 => id \in en

FinFits(f, c, en) == f.pc # "idle" => f.id \in en /\ Queueable(f.meta, f.id, c)

CallerFits(call, c) == call.pc # "idle" =>
    /\ Sane(call.meta, c) /\ ~call.meta.rerun
    /\ call.pc = "found" /\ call.id # None => call.id \in c.stored
    /\ call.pc \in {"clear", "insert"} => Lists(call.meta, call.id, c)
CallersFit(cs, c) == \A r \in Callers : CallerFits(cs[r], c)

RowsFit(c, todo, table) == \A id \in todo : Lists(table[id], id, c)

ProbesFit(ps, c) == \A p \in ps : p.completed \subseteq c.settled

(* The writes under way, each of them the only one of its issuer.          *)
UnderWay(ws) == {ws[i] : i \in DOMAIN ws}
OneEach(ws) == \A i, j \in DOMAIN ws : ws[i].who = ws[j].who => i = j

WriteFits(w, c, en) ==
    /\ Sane(w.meta, c)
    /\ w.id # None => Lists(w.meta, w.id, c)
    /\ w.op \in {"finish", "undep"} => w.id \in en

(* Its issuer awaits it, with the metadata it is about.                    *)
CallerOwns(w, cs) == \E r \in Callers :
    /\ w.who = CallerTag(r) /\ w.meta = cs[r].meta
    /\ \/ w.op = "create" /\ cs[r].pc = "create"
       \/ w.op = "cron" /\ cs[r].pc = "setcron" /\ w.id = cs[r].id
       \/ w.op = "update" /\ cs[r].pc \in {"update", "refresh"} /\ w.id = cs[r].id
BodyOwns(w, bs) == \E b \in Bodies :
    /\ w.who = BodyTag(b) /\ w.id = b[1] /\ bs[b].pc \in {"retrying", "failing"}
    /\ w.op \in {"postpone", "fail"}
    /\ w.op = "fail" => bs[b].pc = "failing"
FinOwns(w, f) == /\ w.who = FinisherTag /\ w.id = f.id
                 /\ \/ w.op = "update" /\ f.pc = "cron"
                    \/ w.op \in {"finish", "undep"} /\ f.pc = w.op
Owned(w, cs, bs, f) == CallerOwns(w, cs) \/ BodyOwns(w, bs) \/ FinOwns(w, f)

WritesFit(ws, c, en, cs, bs, f) ==
    /\ OneEach(ws)
    /\ \A w \in UnderWay(ws) : WriteFits(w, c, en) /\ Owned(w, cs, bs, f)

DepsInv ==
    /\ QueuesFit(queues, Known)
    /\ BodiesFit(bodies, Known)
    /\ EventsFit(events, ended)
    /\ FinFits(fin, Known, ended)
    /\ CallersFit(callers, Known)
    /\ RowsFit(Known, Known.stored, rows)
    /\ RowsFit(Known, loader.todo, loader.snap)
    /\ ProbesFit(probes, Known)
    /\ WritesFit(writes, Known, ended, callers, bodies, fin)

-----------------------------------------------------------------------------
(* The operations on the queues keep what QueuesFit says, whatever is known. *)

LEMMA PolicySame ==
    ASSUME NEW m, NEW m2, NEW c, Sane(m, c), m2.count = m.count, m2.retry = m.retry,
           m2.deps \subseteq m.deps
    PROVE  Sane(m2, c)
BY DEF Sane, PolicyOK

(* A dependency that is settled need not be listed any longer.             *)
LEMMA ForgetLists ==
    ASSUME NEW m \in TaskMeta \cup Row, NEW d, NEW id, NEW c, d \in c.settled,
           Lists(m, id, c)
    PROVE  Lists(ForgetDep(m, d), id, c)
<1> DEFINE f == ForgetDep(m, d)
<1>1. f.deps = m.deps \ {d} /\ f.count = m.count /\ f.retry = m.retry
  BY DEF ForgetDep, TaskMeta, Row
<1> HIDE DEF f
<1>2. Sane(f, c)
  BY <1>1, PolicySame DEF Lists
<1>3. Lists(f, id, c)
  BY <1>1, <1>2 DEF Lists
<1> QED BY <1>3 DEF f

LEMMA ForgetFits ==
    ASSUME NEW m \in TaskMeta, NEW d, NEW id, NEW c, d \in c.settled,
           Queueable(m, id, c)
    PROVE  /\ Queueable(ForgetDep(m, d), id, c)
           /\ m.deps \subseteq {d} => Startable(ForgetDep(m, d), id, c)
           /\ ForgetDep(m, d).deps = m.deps \ {d}
<1>1. Lists(ForgetDep(m, d), id, c)
  BY ForgetLists DEF Queueable
<1>2. ForgetDep(m, d).rerun = m.rerun /\ ForgetDep(m, d).deps = m.deps \ {d}
  BY DEF ForgetDep, TaskMeta
<1> QED BY <1>1, <1>2 DEF Queueable, Lists, Startable

LEMMA EmptyFits ==
    ASSUME NEW c
    PROVE  QueuesFit(EmptyQueues, c)
BY DEF QueuesFit, EmptyQueues, IsRunning, IsWaiting

LEMMA RefreshFits ==
    ASSUME NEW qs \in QueueState, NEW c, QueuesFit(qs, c), NEW id \in Ids,
           NEW m \in TaskMeta, NEW rerun \in BOOLEAN, Startable(m, id, c)
    PROVE  QueuesFit(RefreshRunning(qs, id, m, rerun), c)
<1> DEFINE q == RefreshRunning(qs, id, m, rerun)
           n == [m EXCEPT !.rerun = rerun]
<1>1. q.wait = qs.wait /\ q.sched = qs.sched /\ q.run = [qs.run EXCEPT ![id] = n]
  BY DEF RefreshRunning, QueueState
<1>2. n.count = m.count /\ n.retry = m.retry /\ n.deps = m.deps
  BY DEF TaskMeta
<1>3. qs.run \in [Ids -> Entry]
  BY DEF QueueState
<1> HIDE DEF n, q
<1>4. Startable(n, id, c)
  BY <1>2, PolicySame DEF Startable
<1>5. QueuesFit(q, c)
  BY <1>1, <1>3, <1>4 DEF QueuesFit, IsRunning, IsWaiting
<1> QED BY <1>5 DEF q

LEMMA TakeRunningFits ==
    ASSUME NEW qs \in QueueState, NEW c, QueuesFit(qs, c), NEW id \in Ids
    PROVE  QueuesFit(TakeRunning(qs, id), c)
BY DEF TakeRunning, QueuesFit, QueueState, IsRunning, IsWaiting

LEMMA UnqueueFits ==
    ASSUME NEW qs \in QueueState, NEW c, QueuesFit(qs, c), NEW id \in Ids
    PROVE  QueuesFit(Unqueue(qs, id), c)
<1> DEFINE s == FirstSlot(qs, id)
           q == Unqueue(qs, id)
<1>1. /\ q.run = qs.run /\ q.wait = [qs.wait EXCEPT ![id] = None]
      /\ q.sched = [qs.sched EXCEPT ![<<s, id>>] = None]
  BY DEF Unqueue, QueueState
<1>2. /\ \A o \in Ids : q.wait[o] \in {qs.wait[o], None}
      /\ \A k \in Slots \X Ids : q.sched[k] \in {qs.sched[k], None}
  BY <1>1 DEF QueueState
<1> HIDE DEF q
<1>3. QueuesFit(q, c)
  BY <1>1, <1>2 DEF QueuesFit, IsRunning, IsWaiting
<1> QED BY <1>3 DEF q

LEMMA InsertAfreshFits ==
    ASSUME NEW qs \in QueueState, NEW c, QueuesFit(qs, c), NEW id \in Ids,
           NEW m \in TaskMeta, Queueable(m, id, c)
    PROVE  QueuesFit(InsertAfresh(qs, id, m), c)
<1> DEFINE u == Unqueue(qs, id)
<1>1. u \in QueueState /\ QueuesFit(u, c) /\ m.next \in Slots
  BY UnqueueType, UnqueueFits DEF TaskMeta
<1> HIDE DEF u
<1>2. ASSUME m.deps = {}
      PROVE  QueuesFit(Schedule(u, id, m), c)
  <2> DEFINE q == Schedule(u, id, m)
  <2>1. q.run = u.run /\ q.wait = u.wait
        /\ q.sched = [u.sched EXCEPT ![<<m.next, id>>] = m]
    BY <1>1 DEF Schedule, QueueState
  <2>2. \A k \in Slots \X Ids : q.sched[k] = u.sched[k] \/ (k[2] = id /\ q.sched[k] = m)
    BY <1>1, <2>1 DEF QueueState
  <2> HIDE DEF q
  <2>3. \A o \in Ids, s \in Slots :
          q.sched[<<s, o>>] = u.sched[<<s, o>>] \/ (o = id /\ q.sched[<<s, o>>] = m)
    BY <2>2
  <2>4. QueuesFit(q, c)
    BY <1>1, <1>2, <2>1, <2>3 DEF QueuesFit, IsRunning, IsWaiting
  <2> QED BY <2>4 DEF q
<1>3. ASSUME m.deps # {}
      PROVE  QueuesFit(Await(u, id, m), c)
  <2> DEFINE q == Await(u, id, m)
  <2>1. q.run = u.run /\ q.wait = [u.wait EXCEPT ![id] = m] /\ q.sched = u.sched
    BY <1>1 DEF Await, QueueState
  <2>2. \A o \in Ids : q.wait[o] = u.wait[o] \/ (o = id /\ q.wait[o] = m)
    BY <1>1, <2>1 DEF QueueState
  <2> HIDE DEF q
  <2>3. QueuesFit(q, c)
    BY <1>1, <1>3, <2>1, <2>2 DEF QueuesFit, IsRunning, IsWaiting
  <2> QED BY <2>3 DEF q
<1> QED BY <1>2, <1>3 DEF InsertAfresh, Insert, u

LEMMA AddQueueFits ==
    ASSUME NEW qs \in QueueState, NEW c, QueuesFit(qs, c), NEW id \in Ids,
           NEW m \in TaskMeta, Queueable(m, id, c)
    PROVE  QueuesFit(AddQueue(qs, id, m), c)
<1>1. CASE IsRunning(qs, id)
  <2>1. qs.run[id] \in TaskMeta /\ Startable(qs.run[id], id, c)
    BY <1>1 DEF IsRunning, QueueState, Entry, QueuesFit
  <2>2. qs.run[id].rerun \in BOOLEAN /\ Startable(m, id, c)
    BY <2>1 DEF TaskMeta, Startable, Queueable, Lists
  <2> QED BY <1>1, <2>2, RefreshFits DEF AddQueue
<1> QED BY <1>1, InsertAfreshFits DEF AddQueue

LEMMA ResolveFits ==
    ASSUME NEW qs \in QueueState, NEW c, QueuesFit(qs, c), NEW id \in Ids,
           NEW deps, NEW completed, completed \subseteq c.settled
    PROVE  QueuesFit(ResolveDeps(qs, id, deps, completed), c)
<1>1. CASE completed = {} \/ ~IsWaiting(qs, id)
  BY <1>1 DEF ResolveDeps
<1>2. CASE ~(completed = {} \/ ~IsWaiting(qs, id))
  <2> DEFINE m == qs.wait[id]
             left == m.deps \ completed
             n == [m EXCEPT !.deps = left]
             e == [m EXCEPT !.deps = {}]
             q1 == [qs EXCEPT !.wait[id].deps = left]
             q2 == [qs EXCEPT !.wait[id] = None,
                              !.dep = @ \ (deps \X {id}),
                              !.sched[<<"now", id>>] = [qs.wait[id] EXCEPT !.deps = {}]]
  <2>1. m \in TaskMeta /\ Queueable(m, id, c)
    BY <1>2 DEF IsWaiting, QueueState, Entry, QueuesFit
  <2>2. /\ n.deps = left /\ n.count = m.count /\ n.retry = m.retry /\ n.rerun = m.rerun
        /\ e.deps = {} /\ e.count = m.count /\ e.retry = m.retry /\ e.rerun = m.rerun
    BY <2>1 DEF TaskMeta
  <2>3. Sane(n, c) /\ Sane(e, c)
    <3> HIDE DEF n, e, m
    <3> QED BY <2>1, <2>2, PolicySame DEF Queueable, Lists
  <2>4. Queueable(n, id, c) /\ (left = {} => Queueable(e, id, c))
    <3> HIDE DEF n, e
    <3> QED BY <2>1, <2>2, <2>3 DEF Queueable, Lists
  <2>5. /\ q1.run = qs.run /\ q1.sched = qs.sched
        /\ \A o \in Ids : q1.wait[o] = IF o = id THEN n ELSE qs.wait[o]
    BY DEF QueueState
  <2>6. /\ q2.run = qs.run
        /\ \A o \in Ids : q2.wait[o] = IF o = id THEN None ELSE qs.wait[o]
        /\ \A k \in Slots \X Ids :
             q2.sched[k] = IF k = <<"now", id>> THEN e ELSE qs.sched[k]
    BY DEF QueueState
  <2>7. ResolveDeps(qs, id, deps, completed) = IF left # {} THEN q1 ELSE q2
    BY <1>2 DEF ResolveDeps
  <2> HIDE DEF q1, q2, n, e
  <2>8. left # {} => QueuesFit(q1, c)
    BY <2>2, <2>4, <2>5 DEF QueuesFit, IsRunning, IsWaiting
  <2>9. \A o \in Ids, s \in Slots :
          \/ q2.sched[<<s, o>>] = qs.sched[<<s, o>>]
          \/ o = id /\ q2.sched[<<s, o>>] = e
    BY <2>6
  <2>10. left = {} => QueuesFit(q2, c)
    BY <2>2, <2>4, <2>6, <2>9 DEF QueuesFit, IsRunning, IsWaiting
  <2> QED BY <2>7, <2>8, <2>10
<1> QED BY <1>1, <1>2

LEMMA RemoveFits ==
    ASSUME NEW qs \in QueueState, NEW c, QueuesFit(qs, c), NEW id \in Ids
    PROVE  QueuesFit(RemoveFromQueues(qs, id), c)
<1>1. QueuesFit([qs EXCEPT !.wait[id] = None], c)
  BY DEF QueuesFit, QueueState, IsRunning, IsWaiting
<1>2. QueuesFit([qs EXCEPT !.sched[<<FirstSlot(qs, id), id>>] = None], c)
  <2> DEFINE q == [qs EXCEPT !.sched[<<FirstSlot(qs, id), id>>] = None]
  <2>1. /\ q.run = qs.run /\ q.wait = qs.wait
        /\ \A k \in Slots \X Ids : q.sched[k] \in {qs.sched[k], None}
    BY DEF QueueState
  <2> HIDE DEF q
  <2>2. QueuesFit(q, c)
    BY <2>1 DEF QueuesFit, IsRunning, IsWaiting
  <2> QED BY <2>2 DEF q
<1> QED BY <1>1, <1>2, TakeRunningFits DEF RemoveFromQueues

(* Whoever waited for a settled task lists it no longer, and starts if it  *)
(* listed nothing else.                                                    *)
LEMMA ReleaseFits ==
    ASSUME NEW qs \in QueueState, NEW c, QueuesFit(qs, c), NEW d, d \in c.settled
    PROVE  QueuesFit(ReleaseDependents(qs, d), c)
<1> DEFINE q == ReleaseDependents(qs, d)
<1>1. \A w \in Ids : q.run[w] = IF w \in Ready(qs, d) THEN ForgetDep(qs.wait[w], d)
                                                      ELSE qs.run[w]
  BY DEF ReleaseDependents, QueueState
<1>2. \A w \in Ids : q.wait[w] =
        IF w \in Ready(qs, d) THEN None
        ELSE IF w \in Dependents(qs, d) /\ IsWaiting(qs, w)
          THEN ForgetDep(qs.wait[w], d) ELSE qs.wait[w]
  BY DEF ReleaseDependents, QueueState
<1>3. \A k \in Slots \X Ids :
        q.sched[k] \in {qs.sched[k], ForgetDep(qs.sched[k], d)}
        /\ (qs.sched[k] = None => q.sched[k] = None)
  BY DEF ReleaseDependents, QueueState
<1> HIDE DEF q
<1>4. ASSUME NEW w \in Ids, IsWaiting(qs, w)
      PROVE  /\ Queueable(ForgetDep(qs.wait[w], d), w, c)
             /\ w \in Ready(qs, d) => Startable(ForgetDep(qs.wait[w], d), w, c)
             /\ w \in Dependents(qs, d) /\ w \notin Ready(qs, d)
                  => ForgetDep(qs.wait[w], d).deps # {}
  <2>1. qs.wait[w] \in TaskMeta /\ Queueable(qs.wait[w], w, c)
    BY <1>4 DEF IsWaiting, QueueState, Entry, QueuesFit
  <2>2. /\ Queueable(ForgetDep(qs.wait[w], d), w, c)
        /\ qs.wait[w].deps \subseteq {d} => Startable(ForgetDep(qs.wait[w], d), w, c)
        /\ ForgetDep(qs.wait[w], d).deps = qs.wait[w].deps \ {d}
    BY <2>1, ForgetFits
  <2> QED BY <1>4, <2>2 DEF Ready
<1>5. ASSUME NEW w \in Ids, NEW s \in Slots, q.sched[<<s, w>>] # None
      PROVE  Queueable(q.sched[<<s, w>>], w, c) /\ q.sched[<<s, w>>].deps = {}
  <2> DEFINE m == qs.sched[<<s, w>>]
  <2>1. m # None /\ q.sched[<<s, w>>] \in {m, ForgetDep(m, d)}
    BY <1>3, <1>5
  <2>2. m \in TaskMeta /\ Queueable(m, w, c) /\ m.deps = {}
    BY <2>1 DEF QueueState, Entry, QueuesFit
  <2>3. Queueable(ForgetDep(m, d), w, c) /\ ForgetDep(m, d).deps = {}
    BY <2>2, ForgetFits
  <2> QED BY <2>1, <2>2, <2>3
<1>6. \A w \in Ids : IsRunning(q, w) => Startable(q.run[w], w, c)
  BY <1>1, <1>4 DEF QueuesFit, IsRunning, Ready
<1>7. \A w \in Ids : IsWaiting(q, w) => Queueable(q.wait[w], w, c) /\ q.wait[w].deps # {}
  BY <1>2, <1>4 DEF QueuesFit, IsWaiting
<1>8. QueuesFit(q, c)
  BY <1>5, <1>6, <1>7 DEF QueuesFit
<1> QED BY <1>8 DEF q

LEMMA StartFits ==
    ASSUME NEW qs \in QueueState, NEW c, QueuesFit(qs, c), NEW s \in Slots,
           NEW id \in Ids, qs.sched[<<s, id>>] # None
    PROVE  QueuesFit(StartScheduled(qs, s, id), c)
<1> DEFINE q == StartScheduled(qs, s, id)
           m == qs.sched[<<s, id>>]
<1>1. Startable(m, id, c)
  BY DEF QueuesFit, Queueable, Lists, Startable
<1>2. /\ q.wait = qs.wait
      /\ \A o \in Ids : q.run[o] = IF o = id THEN m ELSE qs.run[o]
      /\ \A k \in Slots \X Ids : q.sched[k] \in {qs.sched[k], None}
  BY DEF StartScheduled, QueueState
<1> HIDE DEF q
<1>3. \A o \in Ids, t \in Slots : q.sched[<<t, o>>] \in {qs.sched[<<t, o>>], None}
  BY <1>2
<1>4. QueuesFit(q, c)
  BY <1>1, <1>2, <1>3 DEF QueuesFit, IsRunning, IsWaiting
<1> QED BY <1>4 DEF q

LEMMA ClearFits ==
    ASSUME NEW qs \in QueueState, NEW c, QueuesFit(qs, c), NEW id \in Ids
    PROVE  QueuesFit(ClearRerunRequest(qs, id), c)
<1>1. CASE IsRunning(qs, id)
  <2> DEFINE m == qs.run[id]
             n == [m EXCEPT !.rerun = FALSE]
             q == [qs EXCEPT !.run[id].rerun = FALSE]
  <2>1. m \in TaskMeta /\ Startable(m, id, c)
    BY <1>1 DEF IsRunning, QueueState, Entry, QueuesFit
  <2>2. n.count = m.count /\ n.retry = m.retry /\ n.deps = m.deps
    BY <2>1 DEF TaskMeta
  <2>3. /\ q.wait = qs.wait /\ q.sched = qs.sched
        /\ \A o \in Ids : q.run[o] = IF o = id THEN n ELSE qs.run[o]
    BY DEF QueueState
  <2>4. ClearRerunRequest(qs, id) = q
    BY <1>1 DEF ClearRerunRequest
  <2> HIDE DEF q, n, m
  <2>5. Startable(n, id, c)
    BY <2>1, <2>2, PolicySame DEF Startable
  <2>6. QueuesFit(q, c)
    BY <2>3, <2>5 DEF QueuesFit, IsRunning, IsWaiting
  <2> QED BY <2>4, <2>6
<1> QED BY <1>1 DEF ClearRerunRequest

-----------------------------------------------------------------------------
(* What is known grows, and what fitted goes on to fit.                    *)

LEMMA MetaGrown ==
    ASSUME NEW c, NEW c2, Grown(c, c2), NEW m, NEW id
    PROVE  /\ Lists(m, id, c) => Lists(m, id, c2)
           /\ Queueable(m, id, c) => Queueable(m, id, c2)
           /\ Startable(m, id, c) => Startable(m, id, c2)
BY DEF Grown, Lists, Queueable, Startable, Sane

LEMMA FitsGrown ==
    ASSUME NEW c, NEW c2, Grown(c, c2)
    PROVE  /\ \A qs : QueuesFit(qs, c) => QueuesFit(qs, c2)
           /\ \A bs : BodiesFit(bs, c) => BodiesFit(bs, c2)
           /\ \A f, en, en2 : FinFits(f, c, en) /\ en \subseteq en2 => FinFits(f, c2, en2)
           /\ \A cs : CallersFit(cs, c) => CallersFit(cs, c2)
           /\ \A todo, table : RowsFit(c, todo, table) => RowsFit(c2, todo, table)
           /\ \A ps : ProbesFit(ps, c) => ProbesFit(ps, c2)
           /\ \A w, en, en2 : WriteFits(w, c, en) /\ en \subseteq en2
                                => WriteFits(w, c2, en2)
<1>1. \A qs : QueuesFit(qs, c) => QueuesFit(qs, c2)
  BY MetaGrown DEF QueuesFit
<1>2. \A bs : BodiesFit(bs, c) => BodiesFit(bs, c2)
  BY MetaGrown DEF BodiesFit
<1>3. \A f, en, en2 : FinFits(f, c, en) /\ en \subseteq en2 => FinFits(f, c2, en2)
  BY MetaGrown DEF FinFits
<1>4. \A cs : CallersFit(cs, c) => CallersFit(cs, c2)
  BY MetaGrown DEF CallersFit, CallerFits, Grown, Sane
<1>5. \A todo, table : RowsFit(c, todo, table) => RowsFit(c2, todo, table)
  BY MetaGrown DEF RowsFit
<1>6. \A ps : ProbesFit(ps, c) => ProbesFit(ps, c2)
  BY DEF ProbesFit, Grown
<1>7. \A w, en, en2 : WriteFits(w, c, en) /\ en \subseteq en2 => WriteFits(w, c2, en2)
  BY MetaGrown DEF WriteFits, Grown, Sane
<1> QED BY <1>1, <1>2, <1>3, <1>4, <1>5, <1>6, <1>7

(* One operation of the tables on a row that exists.                       *)
LEMMA EffectOnRow ==
    ASSUME rows \in Table, NEW w \in WriteRecord, w.op # "create", w.id \in Ids,
           NEW c, NEW en, en \subseteq c.settled, WriteFits(w, c, en),
           NEW o \in Ids, rows[o] # None, Lists(rows[o], o, c)
    PROVE  /\ Effect(w)[o] # None /\ Lists(Effect(w)[o], o, c)
           /\ \/ Effect(w)[o].status = rows[o].status
              \/ /\ rows[o].status = "P" /\ o = w.id
                 /\ \/ w.op = "finish" /\ Effect(w)[o].status = "F"
                    \/ w.op = "fail" /\ Effect(w)[o].status = "E"
<1> DEFINE row == rows[o]
           m == w.meta
<1>1. row \in Row /\ m \in TaskMeta
      /\ w.op \in {"cron", "update", "finish", "undep", "postpone", "fail"}
  BY RowType DEF WriteRecord
<1>2. Effect(w) \in Table
  BY EffectType
<1>3. ASSUME NEW r2 \in Row, r2.deps = row.deps, r2.count = row.count, r2.retry = row.retry
      PROVE  r2 # None /\ Lists(r2, o, c)
  BY <1>3, NoRowAssumption, PolicySame DEF Lists
<1>4. CASE w.op = "cron"
  <2> DEFINE r2 == [row EXCEPT !.cron = m.cron]
  <2>1. Effect(w)[o] = IF o = w.id THEN r2 ELSE row
    BY <1>4 DEF Effect, StoreCron, Change, Table
  <2>2. r2 \in Row /\ r2.deps = row.deps /\ r2.count = row.count
        /\ r2.retry = row.retry /\ r2.status = row.status
    BY <1>1 DEF Row, TaskMeta
  <2> HIDE DEF r2
  <2> QED BY <1>3, <2>1, <2>2
<1>5. CASE w.op = "update"
  <2> DEFINE r2 == [row EXCEPT !.param = m.param,
                       !.next  = m.next,
                       !.deps  = IF m.deps # {} THEN m.deps ELSE @,
                       !.retry = IF m.retry > 0 THEN m.retry ELSE @,
                       !.count = IF m.retry > 0 THEN m.count ELSE @,
                       !.cron  = IF m.cron # "none" THEN m.cron ELSE @]
  <2>1. Effect(w)[o] = IF o = w.id THEN r2 ELSE row
    BY <1>5 DEF Effect, UpdateTask, Change, Table
  <2>2. r2 \in Row /\ r2.deps = (IF m.deps # {} THEN m.deps ELSE row.deps)
        /\ r2.count \in {row.count, m.count} /\ r2.retry \in {row.retry, m.retry}
        /\ r2.status = row.status
    BY <1>1 DEF Row, TaskMeta
  <2> HIDE DEF r2
  <2>3. o = w.id => Lists(m, o, c)
    BY NoIdAssumption DEF WriteFits
  <2>4. o = w.id => Sane(r2, c)
    <3>1. SUFFICES ASSUME o = w.id PROVE Sane(r2, c)
      OBVIOUS
    <3>2. Sane(row, c) /\ Sane(m, c)
      BY <2>3, <3>1 DEF Lists
    <3> QED BY <2>2, <3>2 DEF Sane, PolicyOK
  <2>5. o = w.id => Lists(r2, o, c)
    BY <2>2, <2>3, <2>4 DEF Lists
  <2> QED BY <2>1, <2>2, <2>5, NoRowAssumption
<1>6. CASE w.op = "undep"
  <2>1. w.id \in c.settled
    BY <1>6 DEF WriteFits
  <2>2. Effect(w)[o] = ForgetDep(row, w.id)
    BY <1>6 DEF Effect, DropDependency
  <2>3. Lists(ForgetDep(row, w.id), o, c)
    BY <1>1, <2>1, ForgetLists
  <2>4. ForgetDep(row, w.id) \in Row /\ ForgetDep(row, w.id).status = row.status
    BY <1>1 DEF ForgetDep, Row
  <2> QED BY <2>2, <2>3, <2>4, NoRowAssumption
<1>7. ASSUME NEW s \in Statuses
      PROVE  LET t == StampIfPending(rows, w.id, s)
             IN  /\ t[o] # None /\ Lists(t[o], o, c)
                 /\ \/ t[o].status = row.status
                    \/ row.status = "P" /\ o = w.id /\ t[o].status = s
  <2> DEFINE t == StampIfPending(rows, w.id, s)
             r2 == [row EXCEPT !.status = s, !.next = "now"]
  <2>1. t[o] = IF o = w.id /\ row.status = "P" THEN r2 ELSE row
    BY DEF StampIfPending, Change, Pending, Table
  <2>2. r2 \in Row /\ r2.deps = row.deps /\ r2.count = row.count
        /\ r2.retry = row.retry /\ r2.status = s
    BY <1>1 DEF Row, Slots
  <2> HIDE DEF r2, t
  <2>3. Lists(r2, o, c) /\ r2 # None
    BY <1>3, <2>2
  <2>4. /\ t[o] # None /\ Lists(t[o], o, c)
        /\ \/ t[o].status = row.status
           \/ row.status = "P" /\ o = w.id /\ t[o].status = s
    BY <2>1, <2>2, <2>3
  <2> QED BY <2>4 DEF t
<1>8. CASE w.op = "finish"
  <2>1. Effect(w) = StampIfPending(rows, w.id, "F")
    BY <1>8 DEF Effect, MarkFinished
  <2> QED BY <1>7, <1>8, <2>1 DEF Statuses
<1>9. CASE w.op = "fail"
  <2>1. Effect(w) = StampIfPending(rows, w.id, "E")
    BY <1>9 DEF Effect, MarkFailed
  <2> QED BY <1>7, <1>9, <2>1 DEF Statuses
<1>10. CASE w.op = "postpone"
  <2> DEFINE r2 == [row EXCEPT !.next = "later"]
  <2>1. Effect(w)[o] \in {r2, row}
    BY <1>10 DEF Effect, Postpone, Change, Table
  <2>2. r2 \in Row /\ r2.deps = row.deps /\ r2.count = row.count
        /\ r2.retry = row.retry /\ r2.status = row.status
    BY <1>1 DEF Row, Slots
  <2> HIDE DEF r2
  <2> QED BY <1>3, <2>1, <2>2
<1> QED BY <1>1, <1>4, <1>5, <1>6, <1>8, <1>9, <1>10

(* No other operation than a create makes a row.                           *)
LEMMA EffectOnFree ==
    ASSUME rows \in Table, NEW w \in WriteRecord, w.op # "create", w.id \in Ids,
           NEW o \in Ids, rows[o] = None
    PROVE  Effect(w)[o] = None
<1>1. w.op \in {"cron", "update", "finish", "undep", "postpone", "fail"}
  BY DEF WriteRecord
<1>2. \A row : Change(rows, w.id, row)[o] = None
  BY DEF Change, Table
<1> QED BY <1>1, <1>2 DEF Effect, StoreCron, UpdateTask, MarkFinished, MarkFailed,
           DropDependency, Postpone, StampIfPending

(* The writes under way.                                                   *)
LEMMA UnderWayIssue ==
    ASSUME NEW ws \in Seq(WriteRecord), OneEach(ws), NEW w \in WriteRecord,
           \A v \in UnderWay(ws) : v.who # w.who
    PROVE  /\ OneEach(Append(ws, w))
           /\ UnderWay(Append(ws, w)) = UnderWay(ws) \cup {w}
<1> DEFINE a == Append(ws, w)
<1>1. /\ DOMAIN a = 1 .. Len(ws) + 1 /\ a[Len(ws) + 1] = w
      /\ DOMAIN ws = 1 .. Len(ws) /\ Len(ws) \in Nat
      /\ \A i \in 1 .. Len(ws) : a[i] = ws[i]
  OBVIOUS
<1> HIDE DEF a
<1>2. \A i \in 1 .. Len(ws) : ws[i].who # w.who
  BY <1>1 DEF UnderWay
<1>3. OneEach(a)
  BY <1>1, <1>2 DEF OneEach
<1>4. \A v \in UnderWay(a) : v \in UnderWay(ws) \cup {w}
  BY <1>1 DEF UnderWay
<1>5. \A v \in UnderWay(ws) \cup {w} : v \in UnderWay(a)
  BY <1>1 DEF UnderWay
<1>6. UnderWay(a) = UnderWay(ws) \cup {w}
  BY <1>4, <1>5
<1> QED BY <1>3, <1>6 DEF a

LEMMA UnderWayReturn ==
    ASSUME NEW ws \in Seq(WriteRecord), OneEach(ws), ws # <<>>
    PROVE  /\ Tail(ws) \in Seq(WriteRecord) /\ OneEach(Tail(ws))
           /\ Head(ws) \in UnderWay(ws)
           /\ \A v \in UnderWay(Tail(ws)) :
                v \in UnderWay(ws) /\ v.who # Head(ws).who
           /\ \A v \in UnderWay(ws) :
                v \in UnderWay(Tail(ws)) \/ v = Head(ws)
<1> DEFINE t == Tail(ws)
<1>1. /\ t \in Seq(WriteRecord) /\ DOMAIN t = 1 .. Len(ws) - 1
      /\ DOMAIN ws = 1 .. Len(ws) /\ Len(ws) \in Nat \ {0}
      /\ \A i \in 1 .. Len(ws) - 1 : t[i] = ws[i + 1]
      /\ Head(ws) = ws[1]
  OBVIOUS
<1> HIDE DEF t
<1>2. OneEach(t)
  <2>1. SUFFICES ASSUME NEW i \in 1 .. Len(ws) - 1, NEW j \in 1 .. Len(ws) - 1,
                        t[i].who = t[j].who
                 PROVE  i = j
    BY <1>1 DEF OneEach
  <2>2. i + 1 \in DOMAIN ws /\ j + 1 \in DOMAIN ws /\ ws[i + 1].who = ws[j + 1].who
    BY <1>1, <2>1
  <2>3. i + 1 = j + 1
    BY <2>2 DEF OneEach
  <2> QED BY <2>3
<1>3. Head(ws) \in UnderWay(ws)
  BY <1>1 DEF UnderWay
<1>4. ASSUME NEW v \in UnderWay(t)
      PROVE  v \in UnderWay(ws) /\ v.who # Head(ws).who
  <2>1. PICK i \in 1 .. Len(ws) - 1 : v = ws[i + 1]
    BY <1>1 DEF UnderWay
  <2>2. i + 1 \in DOMAIN ws /\ 1 \in DOMAIN ws /\ i + 1 # 1
    BY <1>1
  <2> QED BY <1>1, <2>1, <2>2 DEF UnderWay, OneEach
<1>5. ASSUME NEW v \in UnderWay(ws)
      PROVE  v \in UnderWay(t) \/ v = Head(ws)
  <2>1. PICK i \in 1 .. Len(ws) : v = ws[i]
    BY <1>1 DEF UnderWay
  <2>2. i # 1 => i - 1 \in DOMAIN t /\ t[i - 1] = ws[i]
    BY <1>1
  <2> QED BY <1>1, <2>1, <2>2 DEF UnderWay
<1> QED BY <1>1, <1>2, <1>3, <1>4, <1>5 DEF t

LEMMA UnderWayChange ==
    ASSUME NEW ws \in Seq(WriteRecord), OneEach(ws), ws # <<>>,
           NEW w \in WriteRecord, w.who = Head(ws).who
    PROVE  /\ OneEach([ws EXCEPT ![1] = w])
           /\ UnderWay([ws EXCEPT ![1] = w]) \subseteq UnderWay(ws) \cup {w}
BY DEF OneEach, UnderWay

LEMMA UnderWayType ==
    ASSUME NEW ws \in Seq(WriteRecord)
    PROVE  UnderWay(ws) \subseteq WriteRecord
BY DEF UnderWay

-----------------------------------------------------------------------------
(* What the building blocks of the actions leave.                          *)

LEMMA EnqueueFits ==
    ASSUME NEW qs \in QueueState, NEW c, QueuesFit(qs, c), ProbesFit(probes, c),
           NEW who, NEW id \in Ids, NEW m \in TaskMeta, Queueable(m, id, c),
           Enqueue(qs, who, id, m)
    PROVE  QueuesFit(queues', c) /\ ProbesFit(probes', c)
<1>1. QueuesFit(queues', c)
  BY AddQueueFits DEF Enqueue
<1>2. \A p \in probes' : p \in probes \/ p.completed = {}
  BY DEF Enqueue, Probe
<1> QED BY <1>1, <1>2 DEF ProbesFit

LEMMA AfterProbeFits ==
    ASSUME TypeOK, NEW c, QueuesFit(queues, c), ProbesFit(probes, c), NEW p \in probes
    PROVE  QueuesFit(AfterProbe(p), c) /\ ProbesFit(probes \ {p}, c)
<1>1. p.id \in Ids /\ p.completed \subseteq c.settled /\ queues \in QueueState
  BY DEF TypeOK, ProbeRecord, ProbesFit
<1> QED BY <1>1, ResolveFits DEF AfterProbe, ProbesFit

LEMMA SpawnFits ==
    ASSUME bodies \in [Bodies -> BodyState], NEW c, BodiesFit(bodies, c), NEW S,
           NEW meta, \A id \in S : Startable(meta[id], id, c), Spawn(S, meta)
    PROVE  /\ BodiesFit(bodies', c)
           /\ \A b \in Bodies : bodies[b].pc # "off" => bodies'[b] = bodies[b]
<1>1. \A b \in Bodies :
        \/ bodies'[b] = bodies[b]
        \/ b[1] \in S /\ bodies'[b] = [pc |-> "run", meta |-> meta[b[1]], perm |-> FALSE]
  BY DEF Spawn
<1>2. BodiesFit(bodies', c)
  <2>1. SUFFICES ASSUME NEW b \in Bodies, bodies'[b].pc # "off"
                 PROVE  /\ Startable(bodies'[b].meta, b[1], c)
                        /\ bodies'[b].pc \in {"retrying", "retryHook"}
                             => bodies'[b].meta.count < bodies'[b].meta.retry
    BY DEF BodiesFit
  <2>2. CASE bodies'[b] = bodies[b]
    BY <2>1, <2>2 DEF BodiesFit
  <2>3. CASE b[1] \in S /\ bodies'[b] = [pc |-> "run", meta |-> meta[b[1]], perm |-> FALSE]
    BY <2>3
  <2> QED BY <1>1, <2>2, <2>3
<1>3. ASSUME NEW b \in Bodies, bodies[b].pc # "off"
      PROVE  bodies'[b] = bodies[b]
  <2>1. b[2] \notin FreeLanes(b[1])
    BY <1>3, BodiesType DEF FreeLanes
  <2>2. b[1] \in S => (CHOOSE l \in FreeLanes(b[1]) : TRUE) \in FreeLanes(b[1])
    BY DEF Spawn, CanSpawn
  <2> QED BY <2>1, <2>2 DEF Spawn
<1> QED BY <1>2, <1>3

LEMMA ReleaseStepFits ==
    ASSUME bodies \in [Bodies -> BodyState], NEW c, BodiesFit(bodies, c),
           NEW qs \in QueueState, QueuesFit(qs, c), NEW id \in Ids,
           id \in c.settled, Release(qs, id)
    PROVE  /\ QueuesFit(queues', c) /\ BodiesFit(bodies', c)
           /\ fin' = FinIdle /\ \A en : FinFits(fin', c, en)
           /\ \A b \in Bodies : bodies[b].pc # "off" => bodies'[b] = bodies[b]
<1> DEFINE q == ReleaseDependents(qs, id)
<1>1. queues' = q /\ Spawn(Ready(qs, id), q.run) /\ fin' = FinIdle
  BY DEF Release
<1>2. QueuesFit(q, c)
  BY ReleaseFits
<1>3. ASSUME NEW w \in Ready(qs, id)
      PROVE  Startable(q.run[w], w, c)
  <2>1. w \in Ids /\ IsWaiting(qs, w)
    BY DEF Ready, Dependents
  <2>2. q.run[w] = ForgetDep(qs.wait[w], id)
    BY <2>1 DEF ReleaseDependents, QueueState
  <2>3. qs.wait[w] \in TaskMeta /\ Queueable(qs.wait[w], w, c)
        /\ qs.wait[w].deps \subseteq {id}
    BY <2>1 DEF IsWaiting, QueueState, Entry, QueuesFit, Ready
  <2> HIDE DEF q
  <2> QED BY <2>2, <2>3, ForgetFits
<1> HIDE DEF q
<1>4. /\ BodiesFit(bodies', c)
      /\ \A b \in Bodies : bodies[b].pc # "off" => bodies'[b] = bodies[b]
  BY <1>1, <1>3, SpawnFits
<1>5. \A en : FinFits(fin', c, en)
  BY <1>1 DEF FinFits, FinIdle
<1> QED BY <1>1, <1>2, <1>4, <1>5

(* Who owns a write.                                                       *)
LEMMA OwnedMeans ==
    ASSUME NEW v, NEW cs, NEW bs, NEW f, Owned(v, cs, bs, f)
    PROVE  /\ \A r \in Callers : v.who = CallerTag(r) =>
                /\ v.meta = cs[r].meta
                /\ cs[r].pc \in {"create", "setcron", "update", "refresh"}
                /\ \/ v.op = "create" /\ cs[r].pc = "create"
                   \/ v.op = "cron" /\ cs[r].pc = "setcron" /\ v.id = cs[r].id
                   \/ /\ v.op = "update" /\ cs[r].pc \in {"update", "refresh"}
                      /\ v.id = cs[r].id
           /\ \A b \in Bodies : v.who = BodyTag(b) =>
                /\ v.id = b[1] /\ bs[b].pc \in {"retrying", "failing"}
                /\ v.op \in {"postpone", "fail"}
                /\ v.op = "fail" => bs[b].pc = "failing"
           /\ v.who = FinisherTag =>
                /\ f.pc \in {"cron", "finish", "undep"} /\ v.id = f.id
                /\ \/ v.op = "update" /\ f.pc = "cron"
                   \/ v.op \in {"finish", "undep"} /\ f.pc = v.op
<1>1. ASSUME NEW b \in Bodies, NEW d \in Bodies, BodyTag(b) = BodyTag(d)
      PROVE  b = d
  BY <1>1, BodiesType DEF BodyTag
<1>2. ASSUME NEW r \in Callers, NEW d \in Callers, CallerTag(r) = CallerTag(d)
      PROVE  r = d
  BY <1>2 DEF CallerTag
<1>3. /\ \A r \in Callers, b \in Bodies : CallerTag(r) # BodyTag(b)
      /\ \A r \in Callers : CallerTag(r) # FinisherTag
      /\ \A b \in Bodies : BodyTag(b) # FinisherTag
  BY DEF CallerTag, BodyTag, FinisherTag
<1>4. ASSUME NEW r \in Callers, v.who = CallerTag(r)
      PROVE  /\ v.meta = cs[r].meta
             /\ cs[r].pc \in {"create", "setcron", "update", "refresh"}
             /\ \/ v.op = "create" /\ cs[r].pc = "create"
                \/ v.op = "cron" /\ cs[r].pc = "setcron" /\ v.id = cs[r].id
                \/ /\ v.op = "update" /\ cs[r].pc \in {"update", "refresh"}
                   /\ v.id = cs[r].id
  <2>1. CallerOwns(v, cs)
    BY <1>3, <1>4 DEF Owned, BodyOwns, FinOwns
  <2> QED BY <1>2, <1>4, <2>1 DEF CallerOwns
<1>5. ASSUME NEW b \in Bodies, v.who = BodyTag(b)
      PROVE  /\ v.id = b[1] /\ bs[b].pc \in {"retrying", "failing"}
             /\ v.op \in {"postpone", "fail"}
             /\ v.op = "fail" => bs[b].pc = "failing"
  <2>1. BodyOwns(v, bs)
    BY <1>3, <1>5 DEF Owned, CallerOwns, FinOwns
  <2> QED BY <1>1, <1>5, <2>1 DEF BodyOwns
<1>6. v.who = FinisherTag =>
        /\ f.pc \in {"cron", "finish", "undep"} /\ v.id = f.id
        /\ \/ v.op = "update" /\ f.pc = "cron"
           \/ v.op \in {"finish", "undep"} /\ f.pc = v.op
  BY <1>3 DEF Owned, CallerOwns, BodyOwns, FinOwns
<1> QED BY <1>4, <1>5, <1>6

LEMMA OwnedKept ==
    ASSUME NEW v, NEW cs, NEW bs, NEW f, NEW cs2, NEW bs2, NEW f2, Owned(v, cs, bs, f),
           \A r \in Callers : v.who = CallerTag(r) => cs2[r] = cs[r],
           \A b \in Bodies : v.who = BodyTag(b) => bs2[b] = bs[b],
           v.who = FinisherTag => f2 = f
    PROVE  Owned(v, cs2, bs2, f2)
BY DEF Owned, CallerOwns, BodyOwns, FinOwns

LEMMA IssueFits ==
    ASSUME writes \in Seq(WriteRecord), NEW c, NEW en, NEW cs, NEW bs, NEW f,
           WritesFit(writes, c, en, cs, bs, f),
           NEW w \in WriteRecord, Issue(w), \A v \in UnderWay(writes) : v.who # w.who,
           NEW cs2, NEW bs2, NEW f2, WriteFits(w, c, en), Owned(w, cs2, bs2, f2),
           \A v \in UnderWay(writes) : Owned(v, cs2, bs2, f2)
    PROVE  WritesFit(writes', c, en, cs2, bs2, f2)
<1>1. writes' = Append(writes, w)
  BY DEF Issue
<1>2. OneEach(writes') /\ UnderWay(writes') = UnderWay(writes) \cup {w}
  BY <1>1, UnderWayIssue DEF WritesFit
<1> QED BY <1>2 DEF WritesFit

LEMMA ReturnFits ==
    ASSUME writes \in Seq(WriteRecord), NEW c, NEW en, NEW cs, NEW bs, NEW f,
           WritesFit(writes, c, en, cs, bs, f), NEW who, Holds(who),
           NEW cs2, NEW bs2, NEW f2,
           \A v \in UnderWay(writes) : v.who # who => Owned(v, cs2, bs2, f2)
    PROVE  /\ Head(writes) \in UnderWay(writes)
           /\ Head(writes) \in WriteRecord
           /\ Return => WritesFit(writes', c, en, cs2, bs2, f2)
           /\ \A w \in WriteRecord :
                /\ ReturnAndIssue(w) /\ w.who = who
                /\ WriteFits(w, c, en) /\ Owned(w, cs2, bs2, f2)
                => WritesFit(writes', c, en, cs2, bs2, f2)
<1> DEFINE t == Tail(writes)
<1>1. writes # <<>> /\ Head(writes).who = who
  BY DEF Holds
<1>2. /\ t \in Seq(WriteRecord) /\ OneEach(t)
      /\ Head(writes) \in UnderWay(writes)
      /\ \A v \in UnderWay(t) : v \in UnderWay(writes) /\ v.who # who
  BY <1>1, UnderWayReturn DEF WritesFit
<1> HIDE DEF t
<1>3. WritesFit(t, c, en, cs2, bs2, f2)
  BY <1>2 DEF WritesFit
<1>4. ASSUME NEW w \in WriteRecord, w.who = who, WriteFits(w, c, en),
             Owned(w, cs2, bs2, f2)
      PROVE  WritesFit(Append(t, w), c, en, cs2, bs2, f2)
  <2>1. OneEach(Append(t, w)) /\ UnderWay(Append(t, w)) = UnderWay(t) \cup {w}
    BY <1>2, <1>4, UnderWayIssue
  <2> QED BY <1>3, <1>4, <2>1 DEF WritesFit
<1>5. Return => writes' = t
  BY DEF Return, t
<1>6. \A w : ReturnAndIssue(w) => writes' = Append(t, w)
  BY DEF ReturnAndIssue, t
<1>7. Head(writes) \in WriteRecord
  BY <1>1
<1>8. \A w \in WriteRecord :
        /\ ReturnAndIssue(w) /\ w.who = who
        /\ WriteFits(w, c, en) /\ Owned(w, cs2, bs2, f2)
        => WritesFit(writes', c, en, cs2, bs2, f2)
  BY <1>4, <1>6
<1> QED BY <1>2, <1>3, <1>5, <1>7, <1>8

(* The knowledge of a step.                                                *)
LEMMA KnownSame ==
    ASSUME UNCHANGED <<rows, asked, ended>>
    PROVE  Known' = Known
BY DEF Known, Needs, Settled

LEMMA KnownEnds ==
    ASSUME UNCHANGED <<rows, asked>>, ended \subseteq ended'
    PROVE  Grown(Known, Known')
<1>1. Known'.needs = Known.needs /\ Known'.stored = Known.stored
  BY DEF Known, Needs
<1>2. Known.settled \subseteq Known'.settled
  BY DEF Known, Settled
<1> QED BY <1>1, <1>2 DEF Grown

LEMMA EndedSettled ==
    ASSUME TypeOK
    PROVE  ended \subseteq Known.settled
BY DEF TypeOK, Known, Settled

(* With more known, everything fits that did.                              *)
LEMMA InvGrown ==
    ASSUME DepsInv, NEW c2, NEW en2, Grown(Known, c2), ended \subseteq en2
    PROVE  /\ QueuesFit(queues, c2)
           /\ BodiesFit(bodies, c2)
           /\ EventsFit(events, en2)
           /\ FinFits(fin, c2, en2)
           /\ CallersFit(callers, c2)
           /\ RowsFit(c2, Known.stored, rows)
           /\ RowsFit(c2, loader.todo, loader.snap)
           /\ ProbesFit(probes, c2)
           /\ WritesFit(writes, c2, en2, callers, bodies, fin)
<1> DEFINE c == Known
<1>1. /\ QueuesFit(queues, c) /\ BodiesFit(bodies, c) /\ EventsFit(events, ended)
      /\ FinFits(fin, c, ended) /\ CallersFit(callers, c) /\ RowsFit(c, c.stored, rows)
      /\ RowsFit(c, loader.todo, loader.snap) /\ ProbesFit(probes, c)
      /\ WritesFit(writes, c, ended, callers, bodies, fin) /\ Grown(c, c2)
  BY DEF DepsInv
<1> HIDE DEF c
<1>2. EventsFit(events, en2)
  BY <1>1 DEF EventsFit
<1>3. WritesFit(writes, c2, en2, callers, bodies, fin)
  BY <1>1, FitsGrown DEF WritesFit
<1>4. RowsFit(c2, c.stored, rows) /\ RowsFit(c2, loader.todo, loader.snap)
  BY <1>1, FitsGrown
<1>5. QueuesFit(queues, c2) /\ BodiesFit(bodies, c2) /\ FinFits(fin, c2, en2)
      /\ CallersFit(callers, c2) /\ ProbesFit(probes, c2)
  BY <1>1, FitsGrown
<1> QED BY <1>2, <1>3, <1>4, <1>5 DEF c

(* Whoever awaits no write has none under way, and may do as it likes.     *)
LEMMA WritesShift ==
    ASSUME NEW ws, NEW c, NEW en, NEW cs, NEW bs, NEW f,
           WritesFit(ws, c, en, cs, bs, f), NEW cs2, NEW bs2, NEW f2,
           \A r \in Callers : cs[r].pc \in {"create", "setcron", "update", "refresh"}
              => cs2[r] = cs[r],
           \A b \in Bodies : bs[b].pc \in {"retrying", "failing"} => bs2[b] = bs[b],
           f.pc \in {"cron", "finish", "undep"} => f2 = f
    PROVE  WritesFit(ws, c, en, cs2, bs2, f2)
<1>1. ASSUME NEW v \in UnderWay(ws)
      PROVE  WriteFits(v, c, en) /\ Owned(v, cs2, bs2, f2)
  <2>1. WriteFits(v, c, en) /\ Owned(v, cs, bs, f)
    BY DEF WritesFit
  <2>2. /\ \A r \in Callers : v.who = CallerTag(r) => cs2[r] = cs[r]
        /\ \A b \in Bodies : v.who = BodyTag(b) => bs2[b] = bs[b]
        /\ v.who = FinisherTag => f2 = f
    BY <2>1, OwnedMeans
  <2> QED BY <2>1, <2>2, OwnedKept
<1> QED BY <1>1 DEF WritesFit

LEMMA NoneUnderWay ==
    ASSUME NEW ws, NEW c, NEW en, NEW cs, NEW bs, NEW f,
           WritesFit(ws, c, en, cs, bs, f)
    PROVE  /\ \A r \in Callers :
                cs[r].pc \notin {"create", "setcron", "update", "refresh"} =>
                  \A v \in UnderWay(ws) : v.who # CallerTag(r)
           /\ \A b \in Bodies : bs[b].pc \notin {"retrying", "failing"} =>
                \A v \in UnderWay(ws) : v.who # BodyTag(b)
           /\ f.pc \notin {"cron", "finish", "undep"} =>
                \A v \in UnderWay(ws) : v.who # FinisherTag
BY OwnedMeans DEF WritesFit

-----------------------------------------------------------------------------
(* The store.                                                              *)

(* A create: a row that lists all the task was created with.               *)
LEMMA CreateKnown ==
    ASSUME TypeOK, DepsInv, NEW w \in WriteRecord, w.id \in Ids, rows[w.id] = None,
           Sane(w.meta, Known),
           rows' = CreateTask(rows, w.id, w.key, w.meta),
           asked' = [asked EXCEPT ![w.id] =
                       [deps |-> w.meta.deps, retry |-> w.meta.retry]],
           ended' = ended
    PROVE  /\ Grown(Known, Known') /\ Lists(w.meta, w.id, Known')
           /\ RowsFit(Known', Known.stored \cup {w.id}, rows')
           /\ Known'.stored = Known.stored \cup {w.id}
           /\ \A o \in Ids \ {w.id} : rows'[o] = rows[o]
           /\ rows'[w.id] # None /\ rows'[w.id].status = "P"
<1> DEFINE id == w.id
           new == [status |-> "P", kind |-> KindOf[w.meta.param], key |-> w.key,
                   param |-> w.meta.param, deps |-> w.meta.deps, retry |-> 0,
                   count |-> 0, cron |-> "none", next |-> "now"]
<1>1. w.meta \in TaskMeta /\ w.key \in Keys \cup {None}
      /\ KindOf[w.meta.param] \in Kinds
  BY DEF WriteRecord, TaskMeta, Kinds
<1>2. new \in Row
  BY <1>1 DEF Row, TaskMeta, Statuses, CronKinds, Slots
<1>3. rows' = [rows EXCEPT ![id] = new]
  BY DEF CreateTask
<1>4. new # None /\ new.status = "P" /\ new.deps = w.meta.deps /\ new.count = 0
      /\ new.retry = 0
  BY <1>2, NoRowAssumption
<1> HIDE DEF new
<1>5. /\ \A o \in Ids \ {id} : rows'[o] = rows[o] /\ asked'[o] = asked[o]
      /\ rows'[id] = new
      /\ asked'[id] = [deps |-> w.meta.deps, retry |-> w.meta.retry]
  BY <1>3 DEF TypeOK, Table
<1>7. Known'.stored = Known.stored \cup {id}
  BY <1>4, <1>5 DEF Known
<1>8. Known.settled \subseteq Known'.settled
  BY <1>5 DEF Known, Settled
<1>9. /\ \A o \in Known.stored : Known'.needs[o] = Known.needs[o]
      /\ Known'.needs[id] \subseteq w.meta.deps
  BY <1>5 DEF Known, Needs
<1>10. Grown(Known, Known')
  BY <1>7, <1>8, <1>9 DEF Grown
<1>11. Sane(w.meta, Known') /\ Sane(new, Known')
  <2>1. \A rq \in Requests : 0 <= rq.retry
    BY RequestsAssumption DEF Request
  <2> QED BY <1>4, <1>10, <2>1 DEF Sane, PolicyOK, Grown
<1>12. Lists(w.meta, id, Known') /\ Lists(new, id, Known')
  BY <1>4, <1>7, <1>9, <1>11 DEF Lists
<1>13. RowsFit(Known', Known.stored, rows)
  BY <1>10, InvGrown
<1>14. \A o \in Known.stored : o # id /\ rows'[o] = rows[o]
  BY <1>5 DEF Known
<1>15. RowsFit(Known', Known.stored \cup {id}, rows')
  BY <1>5, <1>12, <1>13, <1>14 DEF RowsFit
<1> QED BY <1>4, <1>5, <1>7, <1>10, <1>12, <1>15

(* Any other operation: rows stay, and none that was closed opens again.   *)
LEMMA EffectKnown ==
    ASSUME TypeOK, DepsInv, NEW w \in WriteRecord, w.op # "create", w.id \in Ids,
           WriteFits(w, Known, ended), rows' = Effect(w),
           UNCHANGED <<asked, ended>>
    PROVE  /\ Grown(Known, Known') /\ RowsFit(Known', Known.stored, rows')
           /\ Known'.stored = Known.stored
           /\ \A o \in Known.stored :
                \/ rows'[o].status = rows[o].status
                \/ /\ rows[o].status = "P" /\ o = w.id
                   /\ \/ w.op = "finish" /\ rows'[o].status = "F"
                      \/ w.op = "fail" /\ rows'[o].status = "E"
<1> DEFINE c == Known
<1>1. rows \in Table /\ ended \subseteq c.settled /\ RowsFit(c, c.stored, rows)
  BY EndedSettled DEF TypeOK, DepsInv
<1>2. \A o \in Ids : rows[o] = None => rows'[o] = None
  BY <1>1, EffectOnFree
<1>3. c.stored = {o \in Ids : rows[o] # None}
  BY DEF Known
<1>4. WriteFits(w, c, ended)
  OBVIOUS
<1> HIDE DEF c
<1>5. ASSUME NEW o \in c.stored
      PROVE  /\ rows'[o] # None /\ Lists(rows'[o], o, c)
             /\ \/ rows'[o].status = rows[o].status
                \/ /\ rows[o].status = "P" /\ o = w.id
                   /\ \/ w.op = "finish" /\ rows'[o].status = "F"
                      \/ w.op = "fail" /\ rows'[o].status = "E"
  BY <1>1, <1>3, <1>4, EffectOnRow DEF RowsFit
<1>6. Known'.stored = c.stored
  BY <1>2, <1>3, <1>5 DEF Known
<1>7. c.settled \subseteq Known'.settled
  <2>1. \A d \in Ids : Settled(d) => Settled(d)'
    BY <1>3, <1>5 DEF Settled
  <2> QED BY <2>1 DEF Known, c
<1>8. Known'.needs = c.needs
  BY DEF Known, Needs, c
<1>9. Grown(c, Known')
  BY <1>6, <1>7, <1>8 DEF Grown
<1>10. RowsFit(Known', c.stored, rows')
  BY <1>5, <1>9, MetaGrown DEF RowsFit
<1> QED BY <1>5, <1>6, <1>9, <1>10 DEF c

(* The write that took effect, and what is known of it.                    *)
LEMMA EffectHead ==
    ASSUME TypeOK, DepsInv, WriteEffect
    PROVE  \E w \in WriteRecord :
             /\ w.id \in Ids /\ rows' = Effect(w) /\ writes' = [writes EXCEPT ![1] = w]
             /\ w.op = Head(writes).op /\ w.who = Head(writes).who
             /\ w.meta = Head(writes).meta
             /\ Sane(w.meta, Known)
             /\ IF w.op = "create"
                  THEN /\ rows[w.id] = None
                       /\ asked' = [asked EXCEPT ![w.id] =
                                 [deps |-> w.meta.deps, retry |-> w.meta.retry]]
                  ELSE /\ w = Head(writes) /\ WriteFits(w, Known, ended)
                       /\ asked' = asked
<1> DEFINE h == Head(writes)
           w == IF h.op = "create"
                  THEN [h EXCEPT !.id = NewId(rows)] ELSE h
<1>1. writes \in Seq(WriteRecord) /\ writes # <<>>
      /\ WritesFit(writes, Known, ended, callers, bodies, fin)
  BY DEF TypeOK, WriteEffect, DepsInv
<1>2. h \in WriteRecord /\ h \in UnderWay(writes)
  BY <1>1, UnderWayReturn, HeadType DEF WritesFit
<1>3. WriteFits(h, Known, ended)
  BY <1>1, <1>2 DEF WritesFit
<1>4. h.op = "create" => NewId(rows) \in Ids /\ rows[NewId(rows)] = None
  <2>1. h.op = "create" => FreeIds(rows) # {}
    BY DEF WriteEffect, Creatable, CanCreate
  <2> QED BY <2>1 DEF NewId, FreeIds
<1>5. /\ rows' = Effect(w) /\ writes' = [writes EXCEPT ![1] = w]
      /\ asked' = IF h.op = "create"
                    THEN [asked EXCEPT ![w.id] =
                            [deps |-> w.meta.deps, retry |-> w.meta.retry]]
                    ELSE asked
  BY DEF WriteEffect
<1>6. CASE h.op = "create"
  <2>1. w = [h EXCEPT !.id = NewId(rows)] /\ NewId(rows) \in Ids
        /\ rows[NewId(rows)] = None
    BY <1>4, <1>5, <1>6
  <2>2. w \in WriteRecord /\ w.id = NewId(rows) /\ w.op = h.op /\ w.who = h.who
        /\ w.meta = h.meta
    BY <1>2, <1>6, <2>1 DEF WriteRecord
  <2> HIDE DEF w
  <2> QED BY <1>3, <1>5, <1>6, <2>1, <2>2 DEF WriteFits
<1>7. CASE h.op # "create"
  <2>1. w = h /\ h.id \in Ids
    BY <1>2, <1>7 DEF WriteRecord
  <2> HIDE DEF w
  <2> QED BY <1>2, <1>3, <1>5, <1>7, <2>1 DEF WriteFits
<1> QED BY <1>6, <1>7

LEMMA DepsWriteEffect ==
    ASSUME TypeOK, DepsInv, WriteEffect
    PROVE  DepsInv'
<1>1. PICK w \in WriteRecord :
             /\ w.id \in Ids /\ rows' = Effect(w) /\ writes' = [writes EXCEPT ![1] = w]
             /\ w.op = Head(writes).op /\ w.who = Head(writes).who
             /\ w.meta = Head(writes).meta
             /\ Sane(w.meta, Known)
             /\ IF w.op = "create"
                  THEN /\ rows[w.id] = None
                       /\ asked' = [asked EXCEPT ![w.id] =
                                 [deps |-> w.meta.deps, retry |-> w.meta.retry]]
                  ELSE /\ w = Head(writes) /\ WriteFits(w, Known, ended)
                       /\ asked' = asked
  BY EffectHead
<1>2. UNCHANGED <<queues, events, bodies, callers, fin, loader, probes, ended>>
  BY DEF WriteEffect
<1>3. /\ Grown(Known, Known') /\ RowsFit(Known', Known'.stored, rows')
      /\ WriteFits(w, Known', ended)
  <2>1. CASE w.op = "create"
    <3>1. rows' = CreateTask(rows, w.id, w.key, w.meta)
      BY <1>1, <2>1 DEF Effect
    <3>2. /\ Grown(Known, Known') /\ Lists(w.meta, w.id, Known')
          /\ RowsFit(Known', Known.stored \cup {w.id}, rows')
          /\ Known'.stored = Known.stored \cup {w.id}
      BY <1>1, <1>2, <2>1, <3>1, CreateKnown
    <3> QED BY <1>1, <2>1, <3>2 DEF WriteFits, Lists
  <2>2. CASE w.op # "create"
    <3>1. /\ Grown(Known, Known') /\ RowsFit(Known', Known.stored, rows')
          /\ Known'.stored = Known.stored
      BY <1>1, <1>2, <2>2, EffectKnown
    <3>2. WriteFits(w, Known', ended)
      BY <1>1, <2>2, <3>1, FitsGrown
    <3> QED BY <3>1, <3>2
  <2> QED BY <2>1, <2>2
<1> DEFINE k == Known'
<1>4. /\ QueuesFit(queues, k) /\ BodiesFit(bodies, k) /\ EventsFit(events, ended)
      /\ FinFits(fin, k, ended) /\ CallersFit(callers, k)
      /\ RowsFit(k, loader.todo, loader.snap) /\ ProbesFit(probes, k)
      /\ WritesFit(writes, k, ended, callers, bodies, fin)
  BY <1>3, InvGrown
<1>5. WriteFits(w, k, ended)
  BY <1>3
<1>6. WritesFit(writes', k, ended, callers, bodies, fin)
  <2> HIDE DEF k
  <2>1. writes \in Seq(WriteRecord) /\ writes # <<>> /\ OneEach(writes)
    BY <1>4 DEF TypeOK, WriteEffect, WritesFit
  <2>2. OneEach(writes') /\ UnderWay(writes') \subseteq UnderWay(writes) \cup {w}
    BY <1>1, <2>1, UnderWayChange
  <2>3. Owned(Head(writes), callers, bodies, fin)
    BY <1>4, <2>1, UnderWayReturn DEF WritesFit
  <2>4. Owned(w, callers, bodies, fin)
    BY <1>1, <2>3 DEF Owned, CallerOwns, BodyOwns, FinOwns
  <2> QED BY <1>4, <1>5, <2>2, <2>4 DEF WritesFit
<1> QED BY <1>2, <1>3, <1>4, <1>6 DEF DepsInv

LEMMA DepsStore ==
    ASSUME TypeOK, DepsInv, StoreStep
    PROVE  DepsInv'
<1>1. CASE WriteFails
  <2>1. UNCHANGED <<queues, rows, events, bodies, callers, fin, loader, writes,
                    probes, asked, ended>>
    BY <1>1 DEF WriteFails, history
  <2>2. Known' = Known
    BY <2>1, KnownSame
  <2> QED BY <2>1, <2>2 DEF DepsInv
<1>2. ASSUME NEW p \in probes, ProbeAnswered(p)
      PROVE  DepsInv'
  <2>1. UNCHANGED <<queues, rows, events, bodies, callers, fin, loader, writes,
                    asked, ended>>
    BY <1>2 DEF ProbeAnswered, history
  <2>2. Known' = Known
    BY <2>1, KnownSame
  <2>3. FindCompleted(rows, p.deps) \subseteq Known.settled
    BY DEF FindCompleted, Known, Settled, TypeOK, ProbeRecord
  <2>4. ProbesFit(probes', Known)
    <3>1. \A a \in probes' :
            a \in probes \/ a.completed = FindCompleted(rows, p.deps)
      BY <1>2 DEF ProbeAnswered, TypeOK, ProbeRecord
    <3> QED BY <2>3, <3>1 DEF ProbesFit, DepsInv
  <2> QED BY <2>1, <2>2, <2>4 DEF DepsInv
<1> QED BY <1>1, <1>2, DepsWriteEffect DEF StoreStep

-----------------------------------------------------------------------------
(* Steps that change neither tables nor history.                           *)

LEMMA SameKnown ==
    ASSUME DepsInv, UNCHANGED <<rows, asked, ended>>,
           QueuesFit(queues', Known), BodiesFit(bodies', Known),
           EventsFit(events', ended), FinFits(fin', Known, ended),
           CallersFit(callers', Known), RowsFit(Known, loader'.todo, loader'.snap),
           ProbesFit(probes', Known),
           WritesFit(writes', Known, ended, callers', bodies', fin')
    PROVE  DepsInv'
BY KnownSame DEF DepsInv

LEMMA DepsDispatch ==
    ASSUME TypeOK, DepsInv, NEW s \in Slots, NEW id \in Ids, Dispatch(s, id)
    PROVE  DepsInv'
<1> DEFINE q == StartScheduled(queues, s, id)
           c == Known
<1>1. /\ queues.sched[<<s, id>>] # None /\ queues' = q /\ Spawn({id}, q.run)
      /\ UNCHANGED <<rows, events, callers, fin, loader, writes, probes, asked, ended>>
  BY DEF Dispatch
<1>2. /\ queues \in QueueState /\ bodies \in [Bodies -> BodyState]
      /\ QueuesFit(queues, c) /\ BodiesFit(bodies, c)
      /\ WritesFit(writes, c, ended, callers, bodies, fin)
  BY DEF TypeOK, DepsInv
<1> HIDE DEF c
<1>3. QueuesFit(q, c)
  BY <1>1, <1>2, StartFits
<1>4. q.run[id] = queues.sched[<<s, id>>] /\ q.run[id] # None
  BY <1>1, <1>2 DEF StartScheduled, QueueState
<1>5. Startable(q.run[id], id, c)
  BY <1>3, <1>4 DEF QueuesFit, IsRunning
<1> HIDE DEF q
<1>6. /\ BodiesFit(bodies', c)
      /\ \A b \in Bodies : bodies[b].pc # "off" => bodies'[b] = bodies[b]
  BY <1>1, <1>2, <1>5, SpawnFits
<1>7. WritesFit(writes, c, ended, callers, bodies', fin)
  BY <1>2, <1>6, WritesShift
<1> QED BY <1>1, <1>3, <1>6, <1>7, SameKnown DEF DepsInv, c

(* The body's future.                                                      *)
LEMMA RetryFits ==
    ASSUME TypeOK, NEW c, QueuesFit(queues, c), BodiesFit(bodies, c), NEW b \in Bodies,
           bodies[b].pc = "retryHook"
    PROVE  Queueable(RetryMeta(b), b[1], c)
<1> DEFINE m == bodies[b].meta
           current == queues.run[b[1]]
           base == IF current = None THEN m ELSE current
           r == [base EXCEPT !.count = m.count + 1, !.next = "later", !.rerun = FALSE]
<1>1. b[1] \in Ids /\ m \in TaskMeta /\ queues \in QueueState
  BY BodiesType, BodyMeta DEF TypeOK
<1>2. Startable(m, b[1], c) /\ m.count < m.retry
  BY DEF BodiesFit
<1>3. base \in TaskMeta /\ Startable(base, b[1], c)
  BY <1>1, <1>2 DEF QueueState, Entry, QueuesFit, IsRunning
<1>4. r.count = m.count + 1 /\ r.retry = base.retry /\ r.rerun = FALSE
      /\ r.deps = base.deps
  BY <1>3 DEF TaskMeta
<1>5. RetryMeta(b) = r
  BY DEF RetryMeta
<1>6. Sane(base, c) /\ Sane(m, c)
  BY <1>2, <1>3 DEF Startable
<1>7. PICK rq \in Requests : m.retry <= rq.retry
  BY <1>6 DEF Sane, PolicyOK
<1>8. m.count \in Nat /\ m.retry \in Nat /\ rq.retry \in Nat
  BY <1>1, RequestsAssumption DEF TaskMeta, Request
<1>9. m.count + 1 <= rq.retry
  BY <1>2, <1>7, <1>8
<1> HIDE DEF r, base, m
<1>10. Sane(r, c)
  BY <1>4, <1>6, <1>9 DEF Sane, PolicyOK
<1> QED BY <1>3, <1>4, <1>5, <1>10 DEF Queueable, Lists, Startable

LEMMA DepsBody ==
    ASSUME TypeOK, DepsInv, NEW b \in Bodies, BodyStep(b)
    PROVE  DepsInv'
<1> DEFINE c == Known
<1>1. /\ queues \in QueueState /\ bodies \in [Bodies -> BodyState] /\ b[1] \in Ids
      /\ writes \in Seq(WriteRecord) /\ events \in [Ids -> Nat]
      /\ QueuesFit(queues, c) /\ BodiesFit(bodies, c) /\ ProbesFit(probes, c)
      /\ EventsFit(events, ended) /\ FinFits(fin, c, ended) /\ CallersFit(callers, c)
      /\ RowsFit(c, loader.todo, loader.snap)
      /\ WritesFit(writes, c, ended, callers, bodies, fin)
  BY BodiesType DEF TypeOK, DepsInv
<1>2. ASSUME bodies' = [bodies EXCEPT ![b] = NoBody]
      PROVE  /\ \A k : BodiesFit(bodies, k) => BodiesFit(bodies', k)
             /\ \A d \in Bodies : d # b => bodies'[d] = bodies[d]
  BY <1>1, <1>2 DEF BodiesFit, NoBody
<1>3. CASE BodySucceeds(b) \/ BodyGivesUp(b)
  <2> DEFINE k == Known'
  <2>1. /\ bodies[b].pc \in {"run", "failHook"}
        /\ bodies' = [bodies EXCEPT ![b] = NoBody]
        /\ events' = [events EXCEPT ![b[1]] = @ + 1]
        /\ ended' = ended \cup {b[1]}
        /\ queues' \in {queues, ClearRerunRequest(queues, b[1])}
        /\ UNCHANGED <<rows, callers, fin, loader, writes, probes, asked>>
    BY <1>3 DEF BodySucceeds, BodyGivesUp, Body, SendFinish
  <2>2. Grown(Known, k)
    BY <2>1, KnownEnds
  <2>3. /\ QueuesFit(queues, k) /\ BodiesFit(bodies, k) /\ EventsFit(events, ended')
        /\ FinFits(fin, k, ended') /\ CallersFit(callers, k)
        /\ RowsFit(k, Known.stored, rows)
        /\ RowsFit(k, loader.todo, loader.snap) /\ ProbesFit(probes, k)
        /\ WritesFit(writes, k, ended', callers, bodies, fin)
    BY <2>1, <2>2, InvGrown
  <2>4. k.stored = Known.stored
    BY <2>1 DEF Known
  <2>5. BodiesFit(bodies', k) /\ \A d \in Bodies : d # b => bodies'[d] = bodies[d]
    BY <1>2, <2>1, <2>3
  <2>6. WritesFit(writes, k, ended', callers, bodies', fin)
    <3> HIDE DEF k
    <3> QED BY <2>1, <2>3, <2>5, WritesShift
  <2>7. EventsFit(events', ended')
    BY <1>1, <2>1, <2>3 DEF EventsFit
  <2>8. QueuesFit(queues', k)
    <3> HIDE DEF k
    <3> QED BY <1>1, <2>1, <2>3, ClearFits
  <2> QED BY <2>1, <2>3, <2>4, <2>5, <2>6, <2>7, <2>8 DEF DepsInv
<1> HIDE DEF c
<1>4. ASSUME NEW perm \in BOOLEAN, BodyFails(b, perm)
      PROVE  DepsInv'
  <2> DEFINE m == bodies[b].meta
             retries == ShouldRetry(b, perm)
             w == Write(BodyTag(b), ErrorOp(m, retries), b[1], None, m)
             pc == IF retries THEN "retrying" ELSE "failing"
  <2>1. /\ bodies[b].pc = "run" /\ Issue(w)
        /\ bodies' = [bodies EXCEPT ![b].pc = pc, ![b].perm = perm]
        /\ UNCHANGED <<queues, rows, events, callers, fin, loader, probes, asked, ended>>
    BY <1>4 DEF BodyFails, Body, history
  <2>2. m \in TaskMeta /\ BodyTag(b) \in Tags
    BY <2>1, BodyMeta, TagTypes
  <2>3. w \in WriteRecord
    BY <1>1, <2>2, WriteType DEF ErrorOp
  <2>4. /\ bodies'[b].pc = pc /\ bodies'[b].meta = m
        /\ \A d \in Bodies : d # b => bodies'[d] = bodies[d]
    <3>1. bodies[b] \in [pc : {"run", "retrying", "retryHook", "failing", "failHook",
                           "resolve"}, meta : TaskMeta, perm : BOOLEAN]
      BY <1>1, <2>1 DEF BodyState, NoBody
    <3> QED BY <1>1, <2>1, <3>1
  <2>5. Startable(m, b[1], c)
    BY <1>1, <2>1 DEF BodiesFit
  <2>6. retries => m.count < m.retry
    BY DEF ShouldRetry
  <2>7. BodiesFit(bodies', c)
    <3>1. SUFFICES ASSUME NEW d \in Bodies, bodies'[d].pc # "off"
                   PROVE  /\ Startable(bodies'[d].meta, d[1], c)
                          /\ bodies'[d].pc \in {"retrying", "retryHook"} =>
                               bodies'[d].meta.count < bodies'[d].meta.retry
      BY DEF BodiesFit
    <3>2. CASE d = b
      BY <2>4, <2>5, <2>6, <3>2
    <3>3. CASE d # b
      BY <1>1, <2>4, <3>1, <3>3 DEF BodiesFit
    <3> QED BY <3>2, <3>3
  <2>8. \A v \in UnderWay(writes) : v.who # BodyTag(b)
    BY <1>1, <2>1, NoneUnderWay
  <2>9. WritesFit(writes, c, ended, callers, bodies', fin)
    <3>1. \A d \in Bodies : bodies[d].pc \in {"retrying", "failing"}
            => bodies'[d] = bodies[d]
      BY <2>1, <2>4
    <3> QED BY <1>1, <3>1, WritesShift
  <2>10. /\ w.who = BodyTag(b) /\ w.id = b[1] /\ w.meta = m
         /\ w.op \in {"postpone", "fail"} /\ (w.op = "fail" => ~retries)
    BY DEF Write, ErrorOp
  <2>11. WriteFits(w, c, ended)
    BY <2>5, <2>10 DEF WriteFits, Startable, Lists
  <2>12. Owned(w, callers, bodies', fin)
    BY <2>4, <2>10 DEF Owned, BodyOwns
  <2> HIDE DEF w
  <2>13. WritesFit(writes', c, ended, callers, bodies', fin)
    <3>1. Issue(w) /\ \A v \in UnderWay(writes) : v.who # w.who
      BY <2>1, <2>8, <2>10
    <3>2. \A v \in UnderWay(writes) : Owned(v, callers, bodies', fin)
      BY <2>9 DEF WritesFit
    <3> QED BY <1>1, <2>3, <2>11, <2>12, <3>1, <3>2, IssueFits
  <2> QED BY <1>1, <2>1, <2>7, <2>13, SameKnown DEF c
<1>5. CASE BodyErrorStored(b)
  <2>1. /\ Holds(BodyTag(b)) /\ Return
        /\ UNCHANGED <<queues, rows, events, callers, fin, loader, probes, asked, ended>>
    BY <1>5 DEF BodyErrorStored, history
  <2>2. \/ bodies[b].pc = "retrying" /\ bodies' = [bodies EXCEPT ![b].pc = "retryHook"]
        \/ bodies[b].pc = "failing" /\ bodies' = [bodies EXCEPT ![b].pc = "failHook"]
    BY <1>5 DEF BodyErrorStored, Body, Move
  <2>3. /\ bodies'[b].meta = bodies[b].meta
        /\ bodies'[b].pc = "retryHook" => bodies[b].pc = "retrying"
        /\ bodies'[b].pc \in {"retryHook", "failHook"}
        /\ \A d \in Bodies : d # b => bodies'[d] = bodies[d]
    <3>1. bodies[b] \in [pc : {"run", "retrying", "retryHook", "failing", "failHook",
                           "resolve"}, meta : TaskMeta, perm : BOOLEAN]
      BY <1>1, <2>2 DEF BodyState, NoBody
    <3> QED BY <1>1, <2>2, <3>1
  <2>4. BodiesFit(bodies', c)
    <3>1. SUFFICES ASSUME NEW d \in Bodies, bodies'[d].pc # "off"
                   PROVE  /\ Startable(bodies'[d].meta, d[1], c)
                          /\ bodies'[d].pc \in {"retrying", "retryHook"} =>
                               bodies'[d].meta.count < bodies'[d].meta.retry
      BY DEF BodiesFit
    <3>2. CASE d = b
      BY <1>1, <2>2, <2>3, <3>2 DEF BodiesFit
    <3>3. CASE d # b
      BY <1>1, <2>3, <3>1, <3>3 DEF BodiesFit
    <3> QED BY <3>2, <3>3
  <2>5. \A v \in UnderWay(writes) : v.who # BodyTag(b)
          => Owned(v, callers, bodies', fin)
    <3>1. SUFFICES ASSUME NEW v \in UnderWay(writes), v.who # BodyTag(b)
                   PROVE  Owned(v, callers, bodies', fin)
      OBVIOUS
    <3>2. Owned(v, callers, bodies, fin)
      BY <1>1 DEF WritesFit
    <3>3. \A d \in Bodies : v.who = BodyTag(d) => bodies'[d] = bodies[d]
      BY <2>3, <3>1
    <3> QED BY <3>2, <3>3, OwnedKept
  <2>6. WritesFit(writes', c, ended, callers, bodies', fin)
    BY <1>1, <2>1, <2>5, ReturnFits
  <2> QED BY <1>1, <2>1, <2>4, <2>6, SameKnown DEF c
<1>6. CASE BodyRetries(b)
  <2> DEFINE taken == TakeRunning(queues, b[1])
             m == RetryMeta(b)
  <2>1. /\ bodies[b].pc = "retryHook"
        /\ Enqueue(taken, BodyTag(b), b[1], m)
        /\ \/ bodies' = [bodies EXCEPT ![b].pc = "resolve"]
           \/ bodies' = [bodies EXCEPT ![b] = NoBody]
        /\ UNCHANGED <<rows, events, callers, fin, loader, writes, asked, ended>>
    BY <1>6 DEF BodyRetries, Body, history
  <2>2. taken \in QueueState /\ QueuesFit(taken, c)
    BY <1>1, TakeRunningType, TakeRunningFits
  <2>3. m \in TaskMeta /\ Queueable(m, b[1], c)
    BY <1>1, <2>1, RetryMetaType, RetryFits
  <2> HIDE DEF taken, m
  <2>4. QueuesFit(queues', c) /\ ProbesFit(probes', c)
    BY <1>1, <2>1, <2>2, <2>3, EnqueueFits
  <2>5. \A d \in Bodies : d # b => bodies'[d] = bodies[d]
    BY <1>1, <2>1
  <2>6. BodiesFit(bodies', c)
    <3>1. CASE bodies' = [bodies EXCEPT ![b].pc = "resolve"]
      <4>1. bodies'[b].pc = "resolve" /\ bodies'[b].meta = bodies[b].meta
        <5>1. bodies[b] \in [pc : {"run", "retrying", "retryHook", "failing", "failHook",
                               "resolve"}, meta : TaskMeta, perm : BOOLEAN]
          BY <1>1, <2>1 DEF BodyState, NoBody
        <5> QED BY <1>1, <3>1, <5>1
      <4> QED BY <1>1, <2>1, <2>5, <4>1 DEF BodiesFit
    <3>2. CASE bodies' = [bodies EXCEPT ![b] = NoBody]
      BY <1>1, <1>2, <3>2
    <3> QED BY <2>1, <3>1, <3>2
  <2>7. WritesFit(writes, c, ended, callers, bodies', fin)
    BY <1>1, <2>1, <2>5, WritesShift
  <2> QED BY <1>1, <2>1, <2>4, <2>6, <2>7, SameKnown DEF c
<1>7. CASE BodyResolves(b)
  <2>1. PICK p \in probes : queues' = AfterProbe(p) /\ probes' = probes \ {p}
    BY <1>7 DEF BodyResolves
  <2>2. /\ bodies[b].pc = "resolve" /\ bodies' = [bodies EXCEPT ![b] = NoBody]
        /\ UNCHANGED <<rows, events, callers, fin, loader, writes, asked, ended>>
    BY <1>7 DEF BodyResolves, Body, history
  <2>3. QueuesFit(queues', c) /\ ProbesFit(probes', c)
    BY <1>1, <2>1, AfterProbeFits
  <2>4. BodiesFit(bodies', c) /\ WritesFit(writes, c, ended, callers, bodies', fin)
    BY <1>1, <1>2, <2>2, WritesShift
  <2> QED BY <1>1, <2>2, <2>3, <2>4, SameKnown DEF c
<1> QED BY <1>3, <1>4, <1>5, <1>6, <1>7 DEF BodyStep

(* Whoever else awaits a write goes on awaiting it.                        *)
LEMMA OthersOfFin ==
    ASSUME NEW ws, NEW c, NEW en, NEW cs, NEW bs, NEW f,
           WritesFit(ws, c, en, cs, bs, f), NEW bs2, NEW f2,
           \A b \in Bodies : bs[b].pc \in {"retrying", "failing"} => bs2[b] = bs[b]
    PROVE  \A v \in UnderWay(ws) : v.who # FinisherTag => Owned(v, cs, bs2, f2)
<1>1. SUFFICES ASSUME NEW v \in UnderWay(ws), v.who # FinisherTag
               PROVE  Owned(v, cs, bs2, f2)
  OBVIOUS
<1>2. Owned(v, cs, bs, f)
  BY DEF WritesFit
<1>3. \A b \in Bodies : v.who = BodyTag(b) => bs2[b] = bs[b]
  BY <1>2, OwnedMeans
<1> QED BY <1>1, <1>2, <1>3, OwnedKept

(* The finish handler.                                                     *)
LEMMA DepsFin ==
    ASSUME TypeOK, DepsInv, FinStep
    PROVE  DepsInv'
<1> DEFINE c == Known
<1>1. /\ queues \in QueueState /\ bodies \in [Bodies -> BodyState]
      /\ writes \in Seq(WriteRecord) /\ events \in [Ids -> Nat]
      /\ QueuesFit(queues, c) /\ BodiesFit(bodies, c) /\ ProbesFit(probes, c)
      /\ EventsFit(events, ended) /\ FinFits(fin, c, ended) /\ CallersFit(callers, c)
      /\ RowsFit(c, loader.todo, loader.snap)
      /\ WritesFit(writes, c, ended, callers, bodies, fin)
      /\ ended \subseteq c.settled
  BY EndedSettled DEF TypeOK, DepsInv
<1> HIDE DEF c
<1>2. ASSUME NEW id \in Ids, FinTakes(id)
      PROVE  /\ EventsFit(events', ended) /\ id \in ended /\ fin.pc = "idle"
             /\ TakeRunning(queues, id) \in QueueState
             /\ QueuesFit(TakeRunning(queues, id), c)
             /\ IsRunning(queues, id) =>
                  Startable(queues.run[id], id, c) /\ queues.run[id] \in TaskMeta
  <2>1. fin.pc = "idle" /\ events[id] > 0 /\ events' = [events EXCEPT ![id] = @ - 1]
    BY <1>2 DEF FinTakes
  <2>2. EventsFit(events', ended) /\ id \in ended
    BY <1>1, <2>1 DEF EventsFit
  <2>3. IsRunning(queues, id) => Startable(queues.run[id], id, c)
    BY <1>1 DEF QueuesFit
  <2> QED BY <1>1, <1>2, <2>1, <2>2, <2>3, TakeRunningType, TakeRunningFits,
             FinTakesType
<1>3. ASSUME NEW id \in Ids, FinNotFound(id)
      PROVE  DepsInv'
  <2>1. EventsFit(events', ended)
    BY <1>2, <1>3 DEF FinNotFound
  <2>2. UNCHANGED <<queues, rows, bodies, callers, fin, loader, writes, probes,
                    asked, ended>>
    BY <1>3 DEF FinNotFound, history
  <2> QED BY <1>1, <2>1, <2>2, SameKnown DEF c
<1>4. ASSUME NEW id \in Ids, FinReruns(id)
      PROVE  DepsInv'
  <2> DEFINE m == RerunMeta(queues.run[id])
             taken == TakeRunning(queues, id)
  <2>1. /\ EventsFit(events', ended) /\ id \in ended /\ fin.pc = "idle"
        /\ taken \in QueueState /\ QueuesFit(taken, c)
        /\ Startable(queues.run[id], id, c) /\ queues.run[id] \in TaskMeta
    BY <1>2, <1>4 DEF FinReruns
  <2>2. UNCHANGED <<rows, callers, loader, writes, asked, ended>>
    BY <1>4 DEF FinReruns
  <2>3. m \in TaskMeta /\ Queueable(m, id, c)
    <3>1. m \in TaskMeta
      BY <2>1, MetaType DEF RerunMeta, Slots
    <3>2. m.count = 0 /\ m.retry = queues.run[id].retry /\ m.rerun = FALSE
          /\ m.deps = queues.run[id].deps
      BY <2>1 DEF RerunMeta, TaskMeta
    <3>3. \A rq \in Requests : 0 <= rq.retry
      BY RequestsAssumption DEF Request
    <3> HIDE DEF m
    <3>4. Sane(m, c)
      BY <2>1, <3>2, <3>3 DEF Sane, PolicyOK, Startable
    <3> QED BY <2>1, <3>1, <3>2, <3>4 DEF Queueable, Lists, Startable
  <2>4. \/ /\ Enqueue(taken, FinisherTag, id, m)
           /\ fin' = [pc |-> "resolve", id |-> id, meta |-> m] /\ bodies' = bodies
        \/ Release(AddQueue(taken, id, m), id) /\ UNCHANGED probes
    BY <1>4 DEF FinReruns
  <2> HIDE DEF m, taken
  <2>5. CASE /\ Enqueue(taken, FinisherTag, id, m)
             /\ fin' = [pc |-> "resolve", id |-> id, meta |-> m] /\ bodies' = bodies
    <3>1. QueuesFit(queues', c) /\ ProbesFit(probes', c)
      BY <1>1, <2>1, <2>3, <2>5, EnqueueFits
    <3>2. FinFits(fin', c, ended)
      BY <2>1, <2>3, <2>5 DEF FinFits
    <3>3. WritesFit(writes, c, ended, callers, bodies, fin')
      BY <1>1, <2>1, WritesShift
    <3> QED BY <1>1, <2>1, <2>2, <2>5, <3>1, <3>2, <3>3, SameKnown DEF c
  <2>6. CASE Release(AddQueue(taken, id, m), id) /\ UNCHANGED probes
    <3> DEFINE q == AddQueue(taken, id, m)
    <3>1. q \in QueueState /\ QueuesFit(q, c)
      BY <2>1, <2>3, AddQueueType, AddQueueFits
    <3>2. Release(q, id) /\ id \in c.settled
      BY <1>1, <2>1, <2>6
    <3> HIDE DEF q
    <3>3. /\ QueuesFit(queues', c) /\ BodiesFit(bodies', c) /\ FinFits(fin', c, ended)
          /\ \A b \in Bodies : bodies[b].pc # "off" => bodies'[b] = bodies[b]
      BY <1>1, <3>1, <3>2, ReleaseStepFits
    <3>4. WritesFit(writes, c, ended, callers, bodies', fin')
      <4>1. \A b \in Bodies : bodies[b].pc \in {"retrying", "failing"}
              => bodies'[b] = bodies[b]
        BY <3>3
      <4> QED BY <1>1, <2>1, <4>1, WritesShift
    <3> QED BY <1>1, <2>1, <2>2, <2>6, <3>3, <3>4, SameKnown DEF c
  <2> QED BY <2>4, <2>5, <2>6
<1>5. ASSUME NEW id \in Ids, FinStores(id)
      PROVE  DepsInv'
  <2> DEFINE m == queues.run[id]
             recurs == m.cron = "recurs"
             upd == IF recurs THEN [m EXCEPT !.next = "later"] ELSE m
             pc == IF recurs THEN "cron" ELSE "finish"
             op == IF recurs THEN "update" ELSE "finish"
             w == Write(FinisherTag, op, id, None, upd)
  <2>1. /\ EventsFit(events', ended) /\ id \in ended /\ fin.pc = "idle"
        /\ QueuesFit(TakeRunning(queues, id), c)
        /\ Startable(m, id, c) /\ m \in TaskMeta
    BY <1>2, <1>5 DEF FinStores
  <2>2. /\ fin' = [pc |-> pc, id |-> id, meta |-> upd] /\ Issue(w)
        /\ queues' = TakeRunning(queues, id)
        /\ UNCHANGED <<rows, bodies, callers, loader, probes, asked, ended>>
    BY <1>5 DEF FinStores, history
  <2>3. /\ upd \in TaskMeta /\ upd.count = m.count /\ upd.retry = m.retry
        /\ upd.rerun = m.rerun /\ upd.deps = m.deps
    <3>1. m \in TaskMeta /\ ([m EXCEPT !.next = "later"]) \in TaskMeta
      BY <2>1, MetaType DEF Slots
    <3> QED BY <3>1 DEF TaskMeta
  <2>4. ~m.rerun
    BY <1>5 DEF FinStores, WantsRerun
  <2> HIDE DEF upd
  <2>5. Queueable(upd, id, c)
    <3>1. Sane(upd, c)
      BY <2>1, <2>3, PolicySame DEF Startable
    <3> QED BY <2>1, <2>3, <2>4, <3>1 DEF Queueable, Lists, Startable
  <2>6. FinFits(fin', c, ended)
    BY <2>1, <2>2, <2>5 DEF FinFits
  <2>7. w \in WriteRecord /\ w.who = FinisherTag /\ w.id = id /\ w.meta = upd
        /\ \/ w.op = "update" /\ pc = "cron"
           \/ w.op = "finish" /\ pc = "finish"
    BY <2>3, WriteType, TagTypes DEF Write
  <2>8. WriteFits(w, c, ended)
    BY <2>1, <2>5, <2>7 DEF WriteFits, Queueable, Lists
  <2>9. Owned(w, callers, bodies, fin')
    BY <2>2, <2>7 DEF Owned, FinOwns
  <2>10. \A v \in UnderWay(writes) : v.who # w.who
    BY <1>1, <2>1, <2>7, NoneUnderWay
  <2>11. \A v \in UnderWay(writes) : Owned(v, callers, bodies, fin')
    BY <1>1, <2>7, <2>10, OthersOfFin
  <2> HIDE DEF w
  <2>12. WritesFit(writes', c, ended, callers, bodies, fin')
    BY <1>1, <2>2, <2>7, <2>8, <2>9, <2>10, <2>11, IssueFits
  <2> QED BY <1>1, <2>1, <2>2, <2>6, <2>12, SameKnown DEF c
<1>6. ASSUME fin.pc # "idle", Holds(FinisherTag) \/ fin.pc = "resolve",
             NEW q \in QueueState, QueuesFit(q, c), Release(q, fin.id)
      PROVE  /\ QueuesFit(queues', c) /\ BodiesFit(bodies', c) /\ FinFits(fin', c, ended)
             /\ Holds(FinisherTag) /\ Return
                  => WritesFit(writes', c, ended, callers, bodies', fin')
             /\ fin.pc = "resolve" /\ UNCHANGED writes
                  => WritesFit(writes, c, ended, callers, bodies', fin')
  <2>1. fin.id \in Ids /\ fin.id \in c.settled
    BY <1>1, <1>6, FinMeta DEF FinFits
  <2>2. /\ QueuesFit(queues', c) /\ BodiesFit(bodies', c) /\ FinFits(fin', c, ended)
        /\ \A b \in Bodies : bodies[b].pc # "off" => bodies'[b] = bodies[b]
    BY <1>1, <1>6, <2>1, ReleaseStepFits
  <2>3. \A b \in Bodies : bodies[b].pc \in {"retrying", "failing"}
          => bodies'[b] = bodies[b]
    BY <2>2
  <2>4. \A v \in UnderWay(writes) : v.who # FinisherTag
          => Owned(v, callers, bodies', fin')
    BY <1>1, <2>3, OthersOfFin
  <2>5. Holds(FinisherTag) /\ Return
          => WritesFit(writes', c, ended, callers, bodies', fin')
    BY <1>1, <2>4, ReturnFits
  <2>6. fin.pc = "resolve" => WritesFit(writes, c, ended, callers, bodies', fin')
    BY <1>1, <2>3, WritesShift
  <2> QED BY <2>2, <2>5, <2>6
<1>7. CASE FinCronStored
  <2>1. /\ fin.pc = "cron" /\ Holds(FinisherTag) /\ Return
        /\ fin.id \in Ids /\ fin.meta \in TaskMeta /\ Queueable(fin.meta, fin.id, c)
        /\ fin.id \in ended
        /\ UNCHANGED <<rows, events, callers, loader, asked, ended>>
    BY <1>1, <1>7, FinMeta DEF FinCronStored, FinFits
  <2>2. CASE ChecksDeps(queues, fin.id, fin.meta)
    <3>1. /\ Enqueue(queues, FinisherTag, fin.id, fin.meta)
          /\ fin' = [fin EXCEPT !.pc = "resolve"] /\ bodies' = bodies
      BY <1>7, <2>2 DEF FinCronStored
    <3>2. QueuesFit(queues', c) /\ ProbesFit(probes', c)
      BY <1>1, <2>1, <3>1, EnqueueFits
    <3>3. fin'.id = fin.id /\ fin'.meta = fin.meta
      BY <2>1, <3>1 DEF TypeOK, FinState, FinIdle
    <3>4. FinFits(fin', c, ended)
      BY <2>1, <3>3 DEF FinFits
    <3>5. \A v \in UnderWay(writes) : v.who # FinisherTag
            => Owned(v, callers, bodies', fin')
      BY <1>1, <3>1, OthersOfFin
    <3>6. WritesFit(writes', c, ended, callers, bodies', fin')
      BY <1>1, <2>1, <3>5, ReturnFits
    <3> QED BY <1>1, <2>1, <3>1, <3>2, <3>4, <3>6, SameKnown DEF c
  <2>3. CASE ~ChecksDeps(queues, fin.id, fin.meta)
    <3> DEFINE q == AddQueue(queues, fin.id, fin.meta)
    <3>1. Release(q, fin.id) /\ UNCHANGED probes
      BY <1>7, <2>3 DEF FinCronStored
    <3>2. q \in QueueState /\ QueuesFit(q, c)
      BY <1>1, <2>1, AddQueueType, AddQueueFits
    <3> HIDE DEF q
    <3>3. /\ QueuesFit(queues', c) /\ BodiesFit(bodies', c) /\ FinFits(fin', c, ended)
          /\ WritesFit(writes', c, ended, callers, bodies', fin')
      BY <1>6, <2>1, <3>1, <3>2
    <3> QED BY <1>1, <2>1, <3>1, <3>3, SameKnown DEF c
  <2> QED BY <2>2, <2>3
<1>8. CASE FinResolves
  <2>1. PICK p \in probes : Release(AfterProbe(p), fin.id) /\ probes' = probes \ {p}
    BY <1>8 DEF FinResolves
  <2>2. /\ fin.pc = "resolve"
        /\ UNCHANGED <<rows, events, callers, loader, writes, asked, ended>>
    BY <1>8 DEF FinResolves
  <2>3. AfterProbe(p) \in QueueState /\ QueuesFit(AfterProbe(p), c)
        /\ ProbesFit(probes', c)
    <3>1. AfterProbe(p) \in QueueState
      BY AfterProbeType DEF TypeOK
    <3> QED BY <1>1, <2>1, <3>1, AfterProbeFits
  <2>4. /\ QueuesFit(queues', c) /\ BodiesFit(bodies', c) /\ FinFits(fin', c, ended)
        /\ WritesFit(writes, c, ended, callers, bodies', fin')
    BY <1>6, <2>1, <2>2, <2>3
  <2> QED BY <1>1, <2>2, <2>3, <2>4, SameKnown DEF c
<1>9. CASE FinRowStamped
  <2> DEFINE w == Write(FinisherTag, "undep", fin.id, None, fin.meta)
  <2>1. /\ fin.pc = "finish" /\ Holds(FinisherTag) /\ ReturnAndIssue(w)
        /\ fin' = [fin EXCEPT !.pc = "undep"]
        /\ UNCHANGED <<queues, rows, events, bodies, callers, loader, probes,
                       asked, ended>>
    BY <1>9 DEF FinRowStamped, history
  <2>2. fin.id \in Ids /\ fin.meta \in TaskMeta /\ fin.id \in ended
        /\ Queueable(fin.meta, fin.id, c)
    BY <1>1, <2>1, FinMeta DEF FinFits
  <2>3. fin'.id = fin.id /\ fin'.meta = fin.meta /\ fin'.pc = "undep"
    BY <2>1 DEF TypeOK, FinState, FinIdle
  <2>4. FinFits(fin', c, ended)
    BY <2>2, <2>3 DEF FinFits
  <2>5. w \in WriteRecord /\ w.who = FinisherTag /\ w.id = fin.id /\ w.meta = fin.meta
        /\ w.op = "undep"
    BY <2>2, WriteType, TagTypes DEF Write
  <2>6. WriteFits(w, c, ended) /\ Owned(w, callers, bodies, fin')
    BY <2>2, <2>3, <2>5 DEF WriteFits, Queueable, Lists, Owned, FinOwns
  <2>7. \A v \in UnderWay(writes) : v.who # FinisherTag
          => Owned(v, callers, bodies, fin')
    BY <1>1, OthersOfFin
  <2> HIDE DEF w
  <2>8. WritesFit(writes', c, ended, callers, bodies, fin')
    BY <1>1, <2>1, <2>5, <2>6, <2>7, ReturnFits
  <2> QED BY <1>1, <2>1, <2>4, <2>8, SameKnown DEF c
<1>10. CASE FinFinished
  <2>1. /\ fin.pc \in {"undep", "finish"} /\ Holds(FinisherTag) /\ Return
        /\ Release(queues, fin.id)
        /\ UNCHANGED <<rows, events, callers, loader, probes, asked, ended>>
    BY <1>10 DEF FinFinished
  <2>2. /\ QueuesFit(queues', c) /\ BodiesFit(bodies', c) /\ FinFits(fin', c, ended)
        /\ WritesFit(writes', c, ended, callers, bodies', fin')
    BY <1>1, <1>6, <2>1
  <2> QED BY <1>1, <2>1, <2>2, SameKnown DEF c
<1> QED BY <1>3, <1>4, <1>5, <1>7, <1>8, <1>9, <1>10 DEF FinStep

-----------------------------------------------------------------------------
(* The callers.                                                            *)

LEMMA OthersOfCaller ==
    ASSUME NEW ws, NEW c, NEW en, NEW cs, NEW bs, NEW f,
           WritesFit(ws, c, en, cs, bs, f), NEW r \in Callers, NEW cs2,
           \A o \in Callers : o # r => cs2[o] = cs[o]
    PROVE  \A v \in UnderWay(ws) : v.who # CallerTag(r) => Owned(v, cs2, bs, f)
<1>1. SUFFICES ASSUME NEW v \in UnderWay(ws), v.who # CallerTag(r)
               PROVE  Owned(v, cs2, bs, f)
  OBVIOUS
<1>2. Owned(v, cs, bs, f)
  BY DEF WritesFit
<1>3. \A o \in Callers : v.who = CallerTag(o) => cs2[o] = cs[o]
  BY <1>1
<1> QED BY <1>2, <1>3, OwnedKept

LEMMA CallerShift ==
    ASSUME NEW c, NEW cs, CallersFit(cs, c), NEW r \in Callers, NEW cs2,
           \A o \in Callers : o # r => cs2[o] = cs[o], CallerFits(cs2[r], c)
    PROVE  CallersFit(cs2, c)
BY DEF CallersFit

(* What a call looks like after it moved.                                  *)
LEMMA CallerMoved ==
    ASSUME TypeOK, NEW r \in Callers, callers[r].pc # "idle", NEW pc,
           callers' = [callers EXCEPT ![r].pc = pc]
    PROVE  /\ callers'[r].pc = pc /\ callers'[r].meta = callers[r].meta
           /\ callers'[r].id = callers[r].id
           /\ \A o \in Callers : o # r => callers'[o] = callers[o]
<1>1. callers[r] \in
        [pc : {"found", "create"}, key : Keys \cup {None},
         id : Ids \cup {None}, changed : BOOLEAN, meta : TaskMeta]
          \cup
        [pc : {"clear", "setcron", "update", "refresh", "insert", "resolve"},
         key : Keys \cup {None}, id : Ids, changed : BOOLEAN, meta : TaskMeta]
  BY DEF TypeOK, CallerState, Idle
<1>2. callers \in [Callers -> CallerState]
  BY DEF TypeOK
<1>3. callers'[r] = [callers[r] EXCEPT !.pc = pc]
  BY <1>2
<1>4. \A o \in Callers : o # r => callers'[o] = callers[o]
  BY <1>2
<1> QED BY <1>1, <1>3, <1>4

LEMMA CallerMovedTo ==
    ASSUME TypeOK, NEW r \in Callers, callers[r].pc # "idle", NEW pc, NEW id,
           callers' = [callers EXCEPT ![r].pc = pc, ![r].id = id]
    PROVE  /\ callers'[r].pc = pc /\ callers'[r].meta = callers[r].meta
           /\ callers'[r].id = id
           /\ \A o \in Callers : o # r => callers'[o] = callers[o]
<1>1. callers[r] \in
        [pc : {"found", "create"}, key : Keys \cup {None},
         id : Ids \cup {None}, changed : BOOLEAN, meta : TaskMeta]
          \cup
        [pc : {"clear", "setcron", "update", "refresh", "insert", "resolve"},
         key : Keys \cup {None}, id : Ids, changed : BOOLEAN, meta : TaskMeta]
  BY DEF TypeOK, CallerState, Idle
<1>2. callers \in [Callers -> CallerState]
  BY DEF TypeOK
<1>3. callers'[r] = [callers[r] EXCEPT !.pc = pc, !.id = id]
  <2>1. callers' = [callers EXCEPT ![r] = [callers[r] EXCEPT !.pc = pc, !.id = id]]
    OBVIOUS
  <2> QED BY <1>2, <2>1
<1>4. \A o \in Callers : o # r => callers'[o] = callers[o]
  BY <1>2
<1> QED BY <1>1, <1>3, <1>4

LEMMA CallerReturned ==
    ASSUME TypeOK, NEW c, CallersFit(callers, c), NEW r \in Callers, CallerReturns(r)
    PROVE  CallersFit(callers', c) /\ \A o \in Callers : o # r => callers'[o] = callers[o]
<1>1. callers' = [callers EXCEPT ![r] = Idle] /\ callers \in [Callers -> CallerState]
  BY DEF CallerReturns, TypeOK
<1>2. callers'[r].pc = "idle" /\ \A o \in Callers : o # r => callers'[o] = callers[o]
  BY <1>1 DEF Idle
<1>3. CallerFits(callers'[r], c)
  BY <1>2 DEF CallerFits
<1> QED BY <1>2, <1>3, CallerShift

LEMMA DepsAsks ==
    ASSUME TypeOK, DepsInv, NEW r \in Callers, NEW rq \in Requests, CallerAsks(r, rq)
    PROVE  DepsInv'
<1> DEFINE call(id, next) ==
             [pc |-> "found", key |-> rq.key, id |-> id,
              changed |-> id # None /\ rows[id].param # rq.param,
              meta |-> MetaOf(rq, next)]
           c == Known
<1>1. PICK id \in Answers(FindByKey(rows, rq.key)) :
      \E next \in EffectiveNext(rq, id) :
        callers' = [callers EXCEPT ![r] = call(id, next)]
  BY DEF CallerAsks
<1>2. /\ callers[r].pc = "idle"
      /\ UNCHANGED <<queues, rows, events, bodies, fin, loader, writes, probes,
                     asked, ended>>
  BY DEF CallerAsks, Caller, history
<1>3. PICK next \in EffectiveNext(rq, id) :
        callers' = [callers EXCEPT ![r] = call(id, next)]
  BY <1>1
<1>4. id = None \/ id \in c.stored
  BY DEF Answers, FindByKey, Pending, Known
<1>5. Sane(MetaOf(rq, next), c) /\ ~MetaOf(rq, next).rerun
  <2>1. PolicyOK(MetaOf(rq, next)) /\ ~MetaOf(rq, next).rerun
    BY RequestsAssumption DEF PolicyOK, MetaOf, Request
  <2>2. rq.deps \subseteq c.stored
    BY RequestsAssumption DEF CallerAsks, Known, Request
  <2> QED BY <2>1, <2>2 DEF Sane, MetaOf
<1>6. CallerFits(call(id, next), c)
  BY <1>4, <1>5 DEF CallerFits
<1>7. callers'[r] = call(id, next)
      /\ \A o \in Callers : o # r => callers'[o] = callers[o]
  BY <1>3 DEF TypeOK
<1>8. CallersFit(callers, c) /\ WritesFit(writes, c, ended, callers, bodies, fin)
  BY DEF DepsInv
<1> HIDE DEF call, c
<1>9. CallersFit(callers', c)
  BY <1>6, <1>7, <1>8, CallerShift
<1>10. \A o \in Callers : callers[o].pc \in {"create", "setcron", "update", "refresh"}
         => callers'[o] = callers[o]
  BY <1>2, <1>7
<1>11. WritesFit(writes, c, ended, callers', bodies, fin)
  BY <1>8, <1>10, WritesShift
<1> QED BY <1>2, <1>9, <1>11, SameKnown DEF DepsInv, c

(* A request that is accepted for a task drops what the task depended on.  *)
LEMMA AcceptKnown ==
    ASSUME TypeOK, NEW r \in Callers, callers[r].id \in Ids,
           Sane(callers[r].meta, Known), callers[r].id \in Known.stored,
           Accept(r), UNCHANGED <<rows, ended>>
    PROVE  /\ Grown(Known, Known') /\ Known'.stored = Known.stored
           /\ Lists(callers[r].meta, callers[r].id, Known')
           /\ Startable(callers[r].meta, callers[r].id, Known')
<1> DEFINE id == callers[r].id
<1>1. /\ \A o \in Ids : o # id => asked'[o] = asked[o]
      /\ asked'[id] = [deps |-> {}, retry |-> 0]
  BY DEF Accept, TypeOK
<1>2. Known'.stored = Known.stored /\ Known'.settled = Known.settled
  BY DEF Known, Settled
<1>3. Known'.needs[id] = {} /\ \A o \in Ids : o # id => Known'.needs[o] = Known.needs[o]
  BY <1>1 DEF Known, Needs
<1>4. Known.stored \subseteq Ids
  BY DEF Known
<1>5. Grown(Known, Known')
  BY <1>2, <1>3, <1>4 DEF Grown
<1>6. id \in Known'.stored
  BY <1>2
<1>7. Sane(callers[r].meta, Known')
  BY <1>2 DEF Sane
<1> QED BY <1>2, <1>3, <1>5, <1>6, <1>7 DEF Lists, Startable

(* The write of a new row's metadata, and where the call goes with it.     *)
LEMMA UpdateIssued ==
    ASSUME TypeOK, NEW c, WritesFit(writes, c, ended, callers, bodies, fin),
           NEW r \in Callers,
           callers[r].pc \in {"found", "clear"}, callers[r].id \in Ids,
           Lists(callers[r].meta, callers[r].id, c), Issue(UpdateRow(r)),
           NEW pc \in {"update", "refresh"}, CallerMoves(r, pc)
    PROVE  /\ WritesFit(writes', c, ended, callers', bodies, fin)
           /\ callers'[r].pc = pc /\ callers'[r].meta = callers[r].meta
           /\ callers'[r].id = callers[r].id
           /\ \A o \in Callers : o # r => callers'[o] = callers[o]
<1> DEFINE w == UpdateRow(r)
<1>1. w \in WriteRecord /\ writes \in Seq(WriteRecord)
  BY CallerMeta, TagTypes, WriteType DEF UpdateRow, TypeOK
<1>2. /\ callers'[r].pc = pc /\ callers'[r].meta = callers[r].meta
      /\ callers'[r].id = callers[r].id
      /\ \A o \in Callers : o # r => callers'[o] = callers[o]
  <2>1. callers' = [callers EXCEPT ![r].pc = pc] /\ callers[r].pc # "idle"
    BY DEF CallerMoves
  <2> QED BY <2>1, CallerMoved
<1>3. w.who = CallerTag(r) /\ w.id = callers[r].id /\ w.meta = callers[r].meta
      /\ w.op = "update"
  BY DEF UpdateRow, Write
<1>4. WriteFits(w, c, ended)
  BY <1>3 DEF WriteFits, Lists
<1>5. Owned(w, callers', bodies, fin)
  BY <1>2, <1>3 DEF Owned, CallerOwns
<1>6. \A v \in UnderWay(writes) : v.who # w.who
  BY <1>3, NoneUnderWay
<1>7. \A v \in UnderWay(writes) : Owned(v, callers', bodies, fin)
  BY <1>2, <1>3, <1>6, OthersOfCaller
<1>8. Issue(w)
  OBVIOUS
<1> HIDE DEF w
<1>9. WritesFit(writes', c, ended, callers', bodies, fin)
  BY <1>1, <1>4, <1>5, <1>6, <1>7, <1>8, IssueFits
<1> QED BY <1>2, <1>9

LEMMA ClearQueuedFits ==
    ASSUME TypeOK, NEW c, WritesFit(writes, c, ended, callers, bodies, fin),
           QueuesFit(queues, c), CallersFit(callers, c), NEW r \in Callers,
           callers[r].pc \in {"found", "clear"}, callers[r].id \in Ids,
           Lists(callers[r].meta, callers[r].id, c), ClearQueued(r)
    PROVE  /\ QueuesFit(queues', c) /\ CallersFit(callers', c)
           /\ WritesFit(writes', c, ended, callers', bodies, fin)
<1>1. QueuesFit(queues', c)
  BY RemoveFits DEF ClearQueued, TypeOK
<1>2. Issue(UpdateRow(r)) /\ CallerMoves(r, "update")
  BY DEF ClearQueued
<1>3. /\ WritesFit(writes', c, ended, callers', bodies, fin)
      /\ callers'[r].pc = "update" /\ callers'[r].meta = callers[r].meta
      /\ \A o \in Callers : o # r => callers'[o] = callers[o]
  BY <1>2, UpdateIssued
<1>4. CallerFits(callers'[r], c)
  BY <1>3 DEF CallersFit, CallerFits
<1> QED BY <1>1, <1>3, <1>4, CallerShift

LEMMA DepsAccepts ==
    ASSUME TypeOK, DepsInv, NEW r \in Callers, CallerFindsRunning(r) \/ CallerFindsIdle(r)
    PROVE  DepsInv'
<1> DEFINE id == callers[r].id
           m == callers[r].meta
           k == Known'
<1>1. /\ callers[r].pc = "found" /\ id # None /\ Accept(r)
      /\ UNCHANGED <<rows, events, bodies, fin, loader, probes, ended>>
  BY DEF CallerFindsRunning, CallerFindsIdle, Caller
<1>2. m \in TaskMeta /\ id \in Ids /\ callers[r].pc # "idle"
  BY <1>1, CallerMeta
<1>3. Sane(m, Known) /\ id \in Known.stored /\ ~m.rerun
  BY <1>1 DEF DepsInv, CallersFit, CallerFits
<1>4. Grown(Known, k) /\ k.stored = Known.stored /\ Lists(m, id, k) /\ Startable(m, id, k)
  BY <1>1, <1>2, <1>3, AcceptKnown
<1>5. /\ QueuesFit(queues, k) /\ BodiesFit(bodies, k) /\ EventsFit(events, ended)
      /\ FinFits(fin, k, ended) /\ CallersFit(callers, k)
      /\ RowsFit(k, k.stored, rows)
      /\ RowsFit(k, loader.todo, loader.snap) /\ ProbesFit(probes, k)
      /\ WritesFit(writes, k, ended, callers, bodies, fin)
  BY <1>4, InvGrown
<1> SUFFICES /\ QueuesFit(queues', k) /\ CallersFit(callers', k)
             /\ WritesFit(writes', k, ended, callers', bodies, fin)
  BY <1>1, <1>5 DEF DepsInv
<1>6. /\ QueuesFit(queues, k) /\ CallersFit(callers, k)
      /\ WritesFit(writes, k, ended, callers, bodies, fin)
      /\ Lists(m, id, k) /\ Startable(m, id, k) /\ queues \in QueueState
  BY <1>4, <1>5 DEF TypeOK
<1> HIDE DEF k
<1>7. CASE CallerFindsRunning(r)
  <2>1. /\ IsRunning(queues, id) /\ queues' = RequestInPlace(queues, id, m)
        /\ Issue(UpdateRow(r)) /\ CallerMoves(r, "refresh")
    BY <1>7 DEF CallerFindsRunning
  <2>2. queues.run[id].rerun \in BOOLEAN
    BY <1>2, <1>6, <2>1 DEF IsRunning, QueueState, Entry, TaskMeta
  <2>3. (queues.run[id].rerun \/ m.cron = "none") \in BOOLEAN
    BY <2>2
  <2>4. QueuesFit(queues', k)
    BY <1>2, <1>6, <2>1, <2>3, RefreshFits DEF RequestInPlace
  <2>5. /\ WritesFit(writes', k, ended, callers', bodies, fin)
        /\ callers'[r].pc = "refresh" /\ callers'[r].meta = m
        /\ \A o \in Callers : o # r => callers'[o] = callers[o]
    BY <1>1, <1>2, <1>6, <2>1, UpdateIssued
  <2>6. CallerFits(callers'[r], k)
    BY <1>3, <1>6, <2>5 DEF CallerFits, Lists
  <2> QED BY <1>6, <2>4, <2>5, <2>6, CallerShift
<1>8. CASE CallerFindsIdle(r)
  <2>1. CASE OnMain(r)
    <3>1. CallerMoves(r, "clear") /\ UNCHANGED <<queues, writes>>
      BY <1>8, <2>1 DEF CallerFindsIdle
    <3>2. /\ callers'[r].pc = "clear" /\ callers'[r].meta = m /\ callers'[r].id = id
          /\ \A o \in Callers : o # r => callers'[o] = callers[o]
      <4>1. callers' = [callers EXCEPT ![r].pc = "clear"] /\ callers[r].pc # "idle"
        BY <1>2, <3>1 DEF CallerMoves
      <4> QED BY <4>1, CallerMoved
    <3>3. CallerFits(callers'[r], k)
      BY <1>3, <1>6, <3>2 DEF CallerFits, Lists
    <3>4. \A o \in Callers : callers[o].pc \in {"create", "setcron", "update", "refresh"}
            => callers'[o] = callers[o]
      BY <1>1, <3>2
    <3>5. WritesFit(writes, k, ended, callers', bodies, fin)
      BY <1>6, <3>4, WritesShift
    <3> QED BY <1>6, <3>1, <3>2, <3>3, <3>5, CallerShift
  <2>2. CASE ~OnMain(r)
    <3>1. ClearQueued(r)
      BY <1>8, <2>2 DEF CallerFindsIdle
    <3> QED BY <1>1, <1>2, <1>6, <3>1, ClearQueuedFits
  <2> QED BY <2>1, <2>2
<1> QED BY <1>7, <1>8

(* A call that holds its write: the write is about its metadata.           *)
LEMMA HeldByCaller ==
    ASSUME TypeOK, NEW c, WritesFit(writes, c, ended, callers, bodies, fin),
           NEW r \in Callers, Holds(CallerTag(r))
    PROVE  /\ Head(writes).meta = callers[r].meta
           /\ callers[r].pc \in {"create", "setcron", "update", "refresh"}
           /\ \/ Head(writes).op = "create" /\ callers[r].pc = "create"
              \/ /\ Head(writes).op = "cron" /\ callers[r].pc = "setcron"
                 /\ Head(writes).id = callers[r].id
              \/ /\ Head(writes).op = "update" /\ callers[r].pc \in {"update", "refresh"}
                 /\ Head(writes).id = callers[r].id
           /\ wres = "ok" => /\ Head(writes).id \in Ids
                             /\ Lists(callers[r].meta, Head(writes).id, c)
<1>1. writes \in Seq(WriteRecord) /\ writes # <<>> /\ Head(writes).who = CallerTag(r)
  BY DEF TypeOK, Holds
<1>2. Head(writes) \in UnderWay(writes)
  BY <1>1, UnderWayReturn DEF WritesFit
<1>3. WriteFits(Head(writes), c, ended) /\ Owned(Head(writes), callers, bodies, fin)
  BY <1>2 DEF WritesFit
<1>4. /\ Head(writes).meta = callers[r].meta
      /\ callers[r].pc \in {"create", "setcron", "update", "refresh"}
      /\ \/ Head(writes).op = "create" /\ callers[r].pc = "create"
         \/ /\ Head(writes).op = "cron" /\ callers[r].pc = "setcron"
            /\ Head(writes).id = callers[r].id
         \/ /\ Head(writes).op = "update" /\ callers[r].pc \in {"update", "refresh"}
            /\ Head(writes).id = callers[r].id
  BY <1>1, <1>3, OwnedMeans
<1>5. wres = "ok" => Head(writes).id \in Ids /\ Head(writes).id # None
  BY NoIdAssumption DEF TypeOK
<1> QED BY <1>3, <1>4, <1>5 DEF WriteFits

LEMMA DepsCreates ==
    ASSUME TypeOK, DepsInv, NEW r \in Callers, CallerCreates(r)
    PROVE  DepsInv'
<1> DEFINE c == Known
           m == callers[r].meta
           w == Write(CallerTag(r), "create", None, callers[r].key, m)
<1>1. /\ callers[r].pc = "found" /\ Issue(w)
      /\ callers' = [callers EXCEPT ![r].pc = "create"]
      /\ UNCHANGED <<queues, rows, events, bodies, fin, loader, probes, asked, ended>>
  BY DEF CallerCreates, Caller, CallerMoves, history
<1>2. /\ CallersFit(callers, c) /\ WritesFit(writes, c, ended, callers, bodies, fin)
      /\ writes \in Seq(WriteRecord)
  BY DEF DepsInv, TypeOK
<1>3. /\ callers'[r].pc = "create" /\ callers'[r].meta = m
      /\ \A o \in Callers : o # r => callers'[o] = callers[o]
  BY <1>1, CallerMoved
<1>4. Sane(m, c) /\ ~m.rerun
  BY <1>1, <1>2 DEF CallersFit, CallerFits
<1>5. w \in WriteRecord /\ w.who = CallerTag(r) /\ w.id = None /\ w.meta = m
      /\ w.op = "create"
  BY <1>1, CallerMeta, TagTypes, WriteType DEF Write
<1>6. WriteFits(w, c, ended) /\ Owned(w, callers', bodies, fin)
  BY <1>3, <1>4, <1>5 DEF WriteFits, Owned, CallerOwns
<1>7. \A v \in UnderWay(writes) : v.who # w.who
  BY <1>1, <1>2, <1>5, NoneUnderWay
<1> HIDE DEF w, c
<1>8. \A v \in UnderWay(writes) : Owned(v, callers', bodies, fin)
  BY <1>2, <1>3, <1>5, <1>7, OthersOfCaller
<1>9. WritesFit(writes', c, ended, callers', bodies, fin)
  BY <1>1, <1>2, <1>5, <1>6, <1>7, <1>8, IssueFits
<1>10. CallersFit(callers', c)
  BY <1>2, <1>3, <1>4, CallerShift DEF CallerFits
<1> QED BY <1>1, <1>9, <1>10, SameKnown DEF DepsInv, c

LEMMA DepsClears ==
    ASSUME TypeOK, DepsInv, NEW r \in Callers, CallerClears(r)
    PROVE  DepsInv'
<1> DEFINE c == Known
<1>1. /\ callers[r].pc = "clear" /\ ClearQueued(r)
      /\ UNCHANGED <<rows, events, bodies, fin, loader, probes, asked, ended>>
  BY DEF CallerClears, Caller, history
<1>2. /\ CallersFit(callers, c) /\ WritesFit(writes, c, ended, callers, bodies, fin)
      /\ QueuesFit(queues, c)
  BY DEF DepsInv
<1>3. callers[r].id \in Ids /\ Lists(callers[r].meta, callers[r].id, c)
  BY <1>1, <1>2, CallerMeta DEF CallersFit, CallerFits
<1> HIDE DEF c
<1>4. /\ QueuesFit(queues', c) /\ CallersFit(callers', c)
      /\ WritesFit(writes', c, ended, callers', bodies, fin)
  BY <1>1, <1>2, <1>3, ClearQueuedFits
<1> QED BY <1>1, <1>4, SameKnown DEF DepsInv, c

LEMMA DepsReturns ==
    ASSUME TypeOK, DepsInv, NEW r \in Callers, CallerFails(r) \/ CallerRefreshed(r)
    PROVE  DepsInv'
<1> DEFINE c == Known
<1>1. /\ Holds(CallerTag(r)) /\ Return /\ CallerReturns(r)
      /\ UNCHANGED <<queues, rows, events, bodies, fin, loader, probes, asked, ended>>
  BY DEF CallerFails, CallerRefreshed, history
<1>2. /\ CallersFit(callers, c) /\ WritesFit(writes, c, ended, callers, bodies, fin)
      /\ writes \in Seq(WriteRecord)
  BY DEF DepsInv, TypeOK
<1> HIDE DEF c
<1>3. CallersFit(callers', c) /\ \A o \in Callers : o # r => callers'[o] = callers[o]
  BY <1>1, <1>2, CallerReturned
<1>4. \A v \in UnderWay(writes) : v.who # CallerTag(r) => Owned(v, callers', bodies, fin)
  BY <1>2, <1>3, OthersOfCaller
<1>5. WritesFit(writes', c, ended, callers', bodies, fin)
  BY <1>1, <1>2, <1>4, ReturnFits
<1> QED BY <1>1, <1>3, <1>5, SameKnown DEF DepsInv, c

LEMMA DepsStoresCron ==
    ASSUME TypeOK, DepsInv, NEW r \in Callers, CallerStoresCron(r)
    PROVE  DepsInv'
<1> DEFINE c == Known
           m == callers[r].meta
           id == Head(writes).id
           w == Write(CallerTag(r), "cron", id, None, m)
<1>1. /\ callers[r].pc = "create" /\ Holds(CallerTag(r)) /\ wres = "ok"
      /\ ReturnAndIssue(w)
      /\ callers' = [callers EXCEPT ![r].pc = "setcron", ![r].id = id]
      /\ UNCHANGED <<queues, rows, events, bodies, fin, loader, probes, asked, ended>>
  BY DEF CallerStoresCron, StoresCron, Caller, history
<1>2. /\ CallersFit(callers, c) /\ WritesFit(writes, c, ended, callers, bodies, fin)
      /\ writes \in Seq(WriteRecord)
  BY DEF DepsInv, TypeOK
<1>3. id \in Ids /\ Lists(m, id, c)
  BY <1>1, <1>2, HeldByCaller
<1>4. Sane(m, c) /\ ~m.rerun
  BY <1>1, <1>2 DEF CallersFit, CallerFits
<1>5. /\ callers'[r].pc = "setcron" /\ callers'[r].meta = m /\ callers'[r].id = id
      /\ \A o \in Callers : o # r => callers'[o] = callers[o]
  <2> HIDE DEF id
  <2> QED BY <1>1, CallerMovedTo
<1>6. w \in WriteRecord /\ w.who = CallerTag(r) /\ w.id = id /\ w.meta = m
      /\ w.op = "cron"
  BY <1>1, <1>3, CallerMeta, TagTypes, WriteType DEF Write
<1>7. WriteFits(w, c, ended) /\ Owned(w, callers', bodies, fin)
  BY <1>3, <1>4, <1>5, <1>6 DEF WriteFits, Owned, CallerOwns
<1> HIDE DEF w, c, id
<1>8. \A v \in UnderWay(writes) : v.who # CallerTag(r) => Owned(v, callers', bodies, fin)
  BY <1>2, <1>5, OthersOfCaller
<1>9. WritesFit(writes', c, ended, callers', bodies, fin)
  BY <1>1, <1>2, <1>6, <1>7, <1>8, ReturnFits
<1>10. CallersFit(callers', c)
  BY <1>2, <1>4, <1>5, CallerShift DEF CallerFits
<1> QED BY <1>1, <1>9, <1>10, SameKnown DEF DepsInv, c

LEMMA DepsQueues ==
    ASSUME TypeOK, DepsInv, NEW r \in Callers, CallerQueues(r)
    PROVE  DepsInv'
<1> DEFINE c == Known
           m == callers[r].meta
           id == Head(writes).id
<1>1. /\ callers[r].pc \in {"create", "setcron", "update"} /\ Holds(CallerTag(r))
      /\ wres = "ok" /\ Return
      /\ UNCHANGED <<rows, events, bodies, fin, loader, asked, ended>>
  BY DEF CallerQueues, history
<1>2. \/ /\ callers' = [callers EXCEPT ![r].pc = "insert", ![r].id = id]
         /\ UNCHANGED <<queues, probes>>
      \/ /\ Enqueue(queues, CallerTag(r), id, m)
         /\ \/ callers' = [callers EXCEPT ![r].pc = "resolve", ![r].id = id]
            \/ CallerReturns(r)
  BY DEF CallerQueues, CallerReturns
<1>3. /\ CallersFit(callers, c) /\ WritesFit(writes, c, ended, callers, bodies, fin)
      /\ QueuesFit(queues, c) /\ ProbesFit(probes, c)
      /\ writes \in Seq(WriteRecord) /\ queues \in QueueState
  BY DEF DepsInv, TypeOK
<1>4. id \in Ids /\ Lists(m, id, c)
  BY <1>1, <1>3, HeldByCaller
<1>5. Sane(m, c) /\ ~m.rerun /\ callers[r].pc # "idle"
  BY <1>1, <1>3 DEF CallersFit, CallerFits
<1>6. m \in TaskMeta /\ Queueable(m, id, c)
  BY <1>4, <1>5, CallerMeta DEF Queueable
<1> HIDE DEF c
<1>7. QueuesFit(queues', c) /\ ProbesFit(probes', c)
  <2>1. CASE UNCHANGED <<queues, probes>>
    BY <1>3, <2>1
  <2>2. CASE Enqueue(queues, CallerTag(r), id, m)
    BY <1>3, <1>4, <1>6, <2>2, EnqueueFits
  <2> QED BY <1>2, <2>1, <2>2
<1> HIDE DEF id
<1>8. CallersFit(callers', c) /\ \A o \in Callers : o # r => callers'[o] = callers[o]
  <2>1. CASE callers' = [callers EXCEPT ![r].pc = "insert", ![r].id = id]
    <3>1. /\ callers'[r].pc = "insert" /\ callers'[r].meta = m /\ callers'[r].id = id
          /\ \A o \in Callers : o # r => callers'[o] = callers[o]
      <4>1. callers'[r].id = id
        BY <2>1 DEF TypeOK
      <4>2. /\ callers'[r].pc = "insert" /\ callers'[r].meta = m
            /\ \A o \in Callers : o # r => callers'[o] = callers[o]
        BY <1>5, <2>1, CallerMovedTo
      <4> QED BY <4>1, <4>2
    <3> QED BY <1>3, <1>4, <1>5, <3>1, CallerShift DEF CallerFits
  <2>2. CASE callers' = [callers EXCEPT ![r].pc = "resolve", ![r].id = id]
    <3>1. /\ callers'[r].pc = "resolve" /\ callers'[r].meta = m
          /\ \A o \in Callers : o # r => callers'[o] = callers[o]
      BY <1>5, <2>2, CallerMovedTo
    <3> QED BY <1>3, <1>5, <3>1, CallerShift DEF CallerFits
  <2>3. CASE CallerReturns(r)
    BY <1>3, <2>3, CallerReturned
  <2> QED BY <1>2, <2>1, <2>2, <2>3
<1>9. \A v \in UnderWay(writes) : v.who # CallerTag(r) => Owned(v, callers', bodies, fin)
  BY <1>3, <1>8, OthersOfCaller
<1>10. WritesFit(writes', c, ended, callers', bodies, fin)
  BY <1>1, <1>3, <1>9, ReturnFits
<1> QED BY <1>1, <1>7, <1>8, <1>10, SameKnown DEF DepsInv, c

LEMMA DepsInserts ==
    ASSUME TypeOK, DepsInv, NEW r \in Callers, CallerInserts(r) \/ CallerResolves(r)
    PROVE  DepsInv'
<1> DEFINE c == Known
           m == callers[r].meta
           id == callers[r].id
<1>1. /\ callers[r].pc \in {"insert", "resolve"}
      /\ UNCHANGED <<rows, events, bodies, fin, loader, writes, asked, ended>>
  BY DEF CallerInserts, CallerResolves, Caller, history
<1>2. /\ CallersFit(callers, c) /\ WritesFit(writes, c, ended, callers, bodies, fin)
      /\ QueuesFit(queues, c) /\ ProbesFit(probes, c) /\ queues \in QueueState
  BY DEF DepsInv, TypeOK
<1>3. Sane(m, c) /\ ~m.rerun /\ callers[r].pc # "idle"
  BY <1>1, <1>2 DEF CallersFit, CallerFits
<1>4. m \in TaskMeta /\ id \in Ids
  BY <1>1, CallerMeta
<1>5. callers[r].pc = "insert" => Queueable(m, id, c)
  BY <1>2, <1>3 DEF CallersFit, CallerFits, Queueable
<1> HIDE DEF c
<1>6. QueuesFit(queues', c) /\ ProbesFit(probes', c)
  <2>1. CASE CallerInserts(r)
    <3>1. /\ queues' = InsertAfresh(queues, id, m)
          /\ probes' \in {probes, probes \cup {Probe(CallerTag(r), id, m.deps)}}
          /\ callers[r].pc = "insert"
      BY <2>1 DEF CallerInserts, Caller
    <3>2. QueuesFit(queues', c)
      BY <1>2, <1>4, <1>5, <3>1, InsertAfreshFits
    <3>3. ProbesFit(probes', c)
      BY <1>2, <3>1 DEF ProbesFit, Probe
    <3> QED BY <3>2, <3>3
  <2>2. CASE CallerResolves(r)
    <3>1. PICK p \in probes : queues' = AfterProbe(p) /\ probes' = probes \ {p}
      BY <2>2 DEF CallerResolves
    <3> QED BY <1>2, <3>1, AfterProbeFits
  <2> QED BY <2>1, <2>2
<1>7. CallersFit(callers', c) /\ \A o \in Callers : o # r => callers'[o] = callers[o]
  <2>1. CASE callers' = [callers EXCEPT ![r].pc = "resolve"]
    <3>1. /\ callers'[r].pc = "resolve" /\ callers'[r].meta = m
          /\ \A o \in Callers : o # r => callers'[o] = callers[o]
      BY <1>3, <2>1, CallerMoved
    <3> QED BY <1>2, <1>3, <3>1, CallerShift DEF CallerFits
  <2>2. CASE CallerReturns(r)
    BY <1>2, <2>2, CallerReturned
  <2> QED BY <2>1, <2>2 DEF CallerInserts, CallerResolves, CallerMoves
<1>8. \A o \in Callers : callers[o].pc \in {"create", "setcron", "update", "refresh"}
        => callers'[o] = callers[o]
  BY <1>1, <1>7
<1>9. WritesFit(writes, c, ended, callers', bodies, fin)
  BY <1>2, <1>8, WritesShift
<1> QED BY <1>1, <1>6, <1>7, <1>9, SameKnown DEF DepsInv, c

LEMMA DepsCaller ==
    ASSUME TypeOK, DepsInv, NEW r \in Callers, CallerStep(r)
    PROVE  DepsInv'
BY DepsCreates, DepsAccepts, DepsClears, DepsReturns, DepsStoresCron, DepsQueues,
   DepsInserts DEF CallerStep

-----------------------------------------------------------------------------
(* The loader and the restart.                                             *)

LEMMA LoadedFits ==
    ASSUME NEW row \in Row, NEW id, NEW c, Lists(row, id, c)
    PROVE  Queueable(LoadedMeta(row), id, c)
<1>1. /\ LoadedMeta(row).count = row.count /\ LoadedMeta(row).retry = row.retry
      /\ LoadedMeta(row).deps = row.deps /\ ~LoadedMeta(row).rerun
  BY DEF LoadedMeta
<1> QED BY <1>1, PolicySame DEF Queueable, Lists

LEMMA LoadedRowFits ==
    ASSUME loader \in LoaderState, NEW c, RowsFit(c, loader.todo, loader.snap),
           NEW id \in Ids, loader' = LoadedRow(id)
    PROVE  RowsFit(c, loader'.todo, loader'.snap)
<1>1. CASE loader.todo = {id}
  BY <1>1 DEF LoadedRow, Unloaded, RowsFit
<1>2. CASE loader.todo # {id}
  <2>1. loader'.todo = loader.todo \ {id}
    BY <1>2 DEF LoadedRow, LoaderState
  <2>2. \A o \in Ids : o # id => loader'.snap[o] = loader.snap[o]
    BY <1>2 DEF LoadedRow, LoaderState, Table
  <2>3. loader.todo \subseteq Ids
    BY DEF LoaderState
  <2> QED BY <2>1, <2>2, <2>3 DEF RowsFit
<1> QED BY <1>1, <1>2

LEMMA DepsLoader ==
    ASSUME TypeOK, DepsInv, LoaderStep
    PROVE  DepsInv'
<1> DEFINE c == Known
<1>1. /\ queues \in QueueState /\ loader \in LoaderState
      /\ QueuesFit(queues, c) /\ ProbesFit(probes, c)
      /\ RowsFit(c, loader.todo, loader.snap) /\ RowsFit(c, c.stored, rows)
  BY DEF TypeOK, DepsInv
<1>2. UNCHANGED <<rows, events, bodies, callers, fin, writes, asked, ended>>
  BY DEF LoaderStep, LoaderReads, LoaderSkips, LoaderQueues, LoaderResolves, history
<1> SUFFICES /\ QueuesFit(queues', c) /\ ProbesFit(probes', c)
             /\ RowsFit(c, loader'.todo, loader'.snap)
  BY <1>2, SameKnown DEF DepsInv
<1>3. CASE LoaderReads
  <2>1. UNCHANGED <<queues, probes>>
    BY <1>3 DEF LoaderReads
  <2>2. \A id \in loader'.todo : id \in c.stored /\ loader'.snap[id] = rows[id]
    BY <1>3 DEF LoaderReads, Unloaded, Known, Pending
  <2> QED BY <1>1, <2>1, <2>2 DEF RowsFit
<1> HIDE DEF c
<1>4. ASSUME NEW id \in Ids, LoaderSkips(id)
      PROVE  /\ QueuesFit(queues', c) /\ ProbesFit(probes', c)
             /\ RowsFit(c, loader'.todo, loader'.snap)
  BY <1>1, <1>4, LoadedRowFits DEF LoaderSkips
<1>5. ASSUME NEW id \in Ids, LoaderQueues(id)
      PROVE  /\ QueuesFit(queues', c) /\ ProbesFit(probes', c)
             /\ RowsFit(c, loader'.todo, loader'.snap)
  <2> DEFINE m == LoadedMeta(loader.snap[id])
  <2>1. /\ id \in loader.todo /\ Enqueue(queues, LoaderTag, id, m)
        /\ \/ loader' = [loader EXCEPT !.pc = "resolve"]
           \/ loader' = LoadedRow(id)
    BY <1>5 DEF LoaderQueues
  <2>2. loader.snap[id] \in Row /\ Lists(loader.snap[id], id, c)
    BY <1>1, <2>1 DEF TypeOK, LoaderState, Table, RowsFit
  <2>3. m \in TaskMeta /\ Queueable(m, id, c)
    <3>1. m \in TaskMeta
      BY <2>2 DEF LoadedMeta, Row, TaskMeta
    <3> QED BY <2>2, <3>1, LoadedFits
  <2> HIDE DEF m
  <2>4. QueuesFit(queues', c) /\ ProbesFit(probes', c)
    BY <1>1, <2>1, <2>3, EnqueueFits
  <2>5. RowsFit(c, loader'.todo, loader'.snap)
    <3>1. CASE loader' = [loader EXCEPT !.pc = "resolve"]
      <4>1. loader'.todo = loader.todo /\ loader'.snap = loader.snap
        BY <1>1, <3>1 DEF LoaderState
      <4> QED BY <1>1, <4>1
    <3>2. CASE loader' = LoadedRow(id)
      BY <1>1, <3>2, LoadedRowFits
    <3> QED BY <2>1, <3>1, <3>2
  <2> QED BY <2>4, <2>5
<1>6. CASE LoaderResolves
  <2>1. PICK p \in probes : /\ queues' = AfterProbe(p) /\ probes' = probes \ {p}
                            /\ loader' = LoadedRow(p.id)
    BY <1>6 DEF LoaderResolves
  <2>2. p.id \in Ids
    BY DEF TypeOK, ProbeRecord
  <2> QED BY <1>1, <2>1, <2>2, AfterProbeFits, LoadedRowFits
<1> QED BY <1>3, <1>4, <1>5, <1>6 DEF LoaderStep

(* Nothing in memory: every other part of the invariant is about something *)
(* that is not there.                                                      *)
LEMMA NothingFits ==
    ASSUME NEW c, NEW en
    PROVE  /\ QueuesFit(EmptyQueues, c)
           /\ BodiesFit([b \in Bodies |-> NoBody], c)
           /\ EventsFit([id \in Ids |-> 0], en)
           /\ FinFits(FinIdle, c, en)
           /\ CallersFit([r \in Callers |-> Idle], c)
           /\ RowsFit(c, Unloaded.todo, Unloaded.snap)
           /\ ProbesFit({}, c)
           /\ \A cs, bs, f : WritesFit(<<>>, c, en, cs, bs, f)
<1>1. BodiesFit([b \in Bodies |-> NoBody], c) /\ EventsFit([id \in Ids |-> 0], en)
  BY DEF BodiesFit, NoBody, EventsFit
<1>2. FinFits(FinIdle, c, en) /\ CallersFit([r \in Callers |-> Idle], c)
  BY DEF FinFits, FinIdle, CallersFit, CallerFits, Idle
<1>3. RowsFit(c, Unloaded.todo, Unloaded.snap) /\ ProbesFit({}, c)
  BY DEF RowsFit, Unloaded, ProbesFit
<1>4. DOMAIN <<>> = {}
  OBVIOUS
<1>5. \A cs, bs, f : WritesFit(<<>>, c, en, cs, bs, f)
  BY <1>4 DEF WritesFit, OneEach, UnderWay
<1> QED BY <1>1, <1>2, <1>3, <1>5, EmptyFits

LEMMA DepsCrash ==
    ASSUME DepsInv, Crash
    PROVE  DepsInv'
<1>1. /\ queues' = EmptyQueues /\ events' = [id \in Ids |-> 0]
      /\ bodies' = [b \in Bodies |-> NoBody] /\ callers' = [r \in Callers |-> Idle]
      /\ fin' = FinIdle /\ loader' = Unloaded /\ writes' = <<>> /\ probes' = {}
      /\ UNCHANGED <<rows, asked, ended>>
  BY DEF Crash
<1> DEFINE c == Known
<1>2. c' = c
  BY <1>1, KnownSame
<1>3. RowsFit(c, c.stored, rows)
  BY DEF DepsInv
<1> HIDE DEF c
<1> QED BY <1>1, <1>2, <1>3, NothingFits, SameKnown DEF c

LEMMA DepsInit ==
    ASSUME Init
    PROVE  DepsInv
<1>1. /\ queues = EmptyQueues /\ events = [id \in Ids |-> 0]
      /\ bodies = [b \in Bodies |-> NoBody] /\ callers = [r \in Callers |-> Idle]
      /\ fin = FinIdle /\ loader = Unloaded /\ writes = <<>> /\ probes = {}
      /\ rows = [id \in Ids |-> None]
  BY DEF Init
<1>2. Known.stored = {}
  BY <1>1 DEF Known
<1>3. RowsFit(Known, Known.stored, rows)
  BY <1>2 DEF RowsFit
<1> QED BY <1>1, <1>3, NothingFits DEF DepsInv

-----------------------------------------------------------------------------
(* The invariant, and what follows from it.                                *)

LEMMA DepsStep ==
    ASSUME TypeOK, DepsInv, [Next]_vars
    PROVE  DepsInv'
<1>1. CASE UNCHANGED vars
  <2>1. UNCHANGED <<queues, rows, events, bodies, callers, fin, loader, writes, probes,
                    asked, ended>>
    BY <1>1 DEF vars
  <2> QED BY <2>1, SameKnown DEF DepsInv
<1>2. CASE Next
  BY <1>2, DepsStore, DepsDispatch, DepsBody, DepsFin, DepsAsks, DepsCaller,
     DepsLoader, DepsCrash DEF Next
<1> QED BY <1>1, <1>2

(* Every queue, future, write and row carries metadata that lists the      *)
(* dependencies still open and stays within the policy asked for.          *)
THEOREM DepsHolds == Spec => [](TypeOK /\ DepsInv)
<1>1. Init => TypeOK /\ DepsInv
  BY TypeInit, DepsInit
<1>2. (TypeOK /\ DepsInv) /\ [Next]_vars => (TypeOK /\ DepsInv)'
  BY TypeStep, DepsStep
<1> QED BY <1>1, <1>2, PTL DEF Spec

(* The documented invariant of TaskMeta and the two anomalies health_check *)
(* looks for: a rerun request is pending for running entries only, nothing *)
(* waits for nothing, and nothing is scheduled with dependencies left.     *)
THEOREM QueuedMetaSoundCorrect == Spec => []QueuedMetaSound
<1>1. DepsInv => QueuedMetaSound
  BY DEF DepsInv, QueuesFit, QueuedMetaSound, Queueable
<1> QED BY <1>1, DepsHolds, PTL

(* No attempt runs, is queued or is stored with a retry count beyond the   *)
(* largest policy of any request, whatever rewrote its metadata in between. *)
THEOREM RetryBudgetCorrect == Spec => []RetryBudget
<1>1. ASSUME TypeOK, DepsInv PROVE RetryBudget
  <2>1. SUFFICES ASSUME NEW id \in Ids
                 PROVE  /\ WithinPolicy(queues.run[id]) /\ WithinPolicy(queues.wait[id])
                        /\ WithinPolicy(rows[id])
                        /\ \A s \in Slots : WithinPolicy(queues.sched[<<s, id>>])
                        /\ \A l \in Lanes : WithinPolicy(bodies[<<id, l>>].meta)
    BY DEF RetryBudget
  <2>2. WithinPolicy(queues.run[id]) /\ WithinPolicy(queues.wait[id])
    BY <1>1 DEF DepsInv, QueuesFit, IsRunning, IsWaiting, Startable, Queueable, Lists,
                Sane, PolicyOK, WithinPolicy
  <2>3. \A s \in Slots : WithinPolicy(queues.sched[<<s, id>>])
    BY <1>1 DEF DepsInv, QueuesFit, Queueable, Lists, Sane, PolicyOK,
                       WithinPolicy
  <2>4. ASSUME NEW l \in Lanes PROVE WithinPolicy(bodies[<<id, l>>].meta)
    <3>1. <<id, l>> \in Bodies
      BY DEF Bodies
    <3>2. CASE bodies[<<id, l>>].pc = "off"
      <4>1. bodies[<<id, l>>] \in BodyState
        BY <1>1, <3>1 DEF TypeOK
      <4>2. bodies[<<id, l>>].meta = None
        BY <3>2, <4>1 DEF BodyState, NoBody
      <4> QED BY <4>2 DEF WithinPolicy
    <3>3. CASE bodies[<<id, l>>].pc # "off"
      BY <1>1, <3>1, <3>3 DEF DepsInv, BodiesFit, Startable, Sane, PolicyOK,
                                      WithinPolicy
    <3> QED BY <3>2, <3>3
  <2>5. WithinPolicy(rows[id])
    BY <1>1 DEF DepsInv, RowsFit, Known, Lists, Sane, PolicyOK, WithinPolicy
  <2> QED BY <2>2, <2>3, <2>4, <2>5
<1> QED BY <1>1, DepsHolds, PTL

(* A task created with dependencies runs only when each of them is         *)
(* settled: across probes, releases, retries, reruns, crashes and the      *)
(* loader's stale reads no edge is lost while the dependency is open.      *)
THEOREM DepsBeforeStartCorrect == Spec => []DepsBeforeStart
<1>1. ASSUME DepsInv PROVE DepsBeforeStart
  <2>1. SUFFICES ASSUME NEW b \in Bodies, bodies[b].pc = "run", asked[b[1]] # None,
                        NEW d \in asked[b[1]].deps
                 PROVE  Settled(d)
    BY DEF DepsBeforeStart
  <2>2. Startable(bodies[b].meta, b[1], Known)
    BY <1>1, <2>1 DEF DepsInv, BodiesFit
  <2>3. b[1] \in Ids /\ Known.needs[b[1]] = asked[b[1]].deps
    BY <2>1, BodiesType DEF Known, Needs
  <2> QED BY <2>1, <2>2, <2>3 DEF Startable, Known
<1> QED BY <1>1, DepsHolds, PTL
=============================================================================
