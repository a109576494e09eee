------------------------- MODULE NothingLost_proofs -------------------------
(***************************************************************************)
(* Nothing is lost: PendingCared and WaitingReleased, for any ids, lanes,  *)
(* requests and bounds, with every caller on the worker.                   *)
(*                                                                         *)
(* A pending row is brought to its end by whoever has the task: a queue, a *)
(* call that is about to queue it, or the finish handler.  These hand it   *)
(* on to each other, so the invariant names the holders that really hand   *)
(* it on (Cares), which are fewer than those the properties count, and     *)
(* says what keeps the chain closed: a running entry has a body or a       *)
(* completion event (RunHeld); the finish handler drops a row's dependents *)
(* only once the row is closed (FinDone); a row that no longer is what the *)
(* loader read, a row a request refreshed in place and the row the loader  *)
(* awaits an answer about have a holder already (SnapsCared, RefreshCared, *)
(* ProbesCared); and what a waiting task lists is registered with a holder *)
(* or about to be reported (WaitsCared).                                   *)
(*                                                                         *)
(* A step is judged by what it does to each piece (CareStep): holders let  *)
(* go of a task only to another holder or once its row is closed, rows     *)
(* open only in a holder's hand, and a task waits anew only for what is    *)
(* registered.  MovesCare shows that this suffices.                        *)
(*                                                                         *)
(* The last two parts are about what a task is queued with.  Copies of its *)
(* metadata travel through queues, bodies, calls and writes under way, and *)
(* a step may copy one but never makes up its input or its recurrence      *)
(* (Copies).  From it RequestHonoured, of requests that agree on the input *)
(* of a key and do not recur, with what a restart leaves to the loader     *)
(* (ToLoad); and CronRowPending, of requests that all recur.               *)
(***************************************************************************)
EXTENDS Lifecycle_proofs

(* Nothing is lost.  A task is cared for while a queue holds it, a call is  *)
(* about to queue it, or the finish handler has it in hand and its row may *)
(* still be pending.                                                       *)

InQueues(qs, id) == IsRunning(qs, id) \/ IsWaiting(qs, id) \/ IsScheduled(qs, id)
Calls(cs, id) ==
    \E r \in Callers : cs[r].pc \in {"setcron", "update"} /\ cs[r].id = id
Created(ws, res, id) ==
    ws # <<>> /\ res = "ok" /\ Head(ws).op = "create" /\ Head(ws).id = id
Finishes(f, id) == f.pc \in {"cron", "finish"} /\ f.id = id
Undeps(f, id) == f.pc = "undep" /\ f.id = id

Cares(id) == \/ InQueues(queues, id) \/ Calls(callers, id)
             \/ Created(writes, wres, id) \/ Finishes(fin, id)

(* w waits for d, and a store query in flight is going to say that d ended. *)
Awaits(qs, w, d) == IsWaiting(qs, w) /\ d \in qs.wait[w].deps
Over(table, d) == table[d] # None /\ table[d].status # "P"
Reports(ps, table, w, d) ==
    \E p \in ps : /\ p.id = w /\ d \in p.deps
                  /\ IF p.answered THEN d \in p.completed ELSE Over(table, d)

(* What the operations on the queues leave: every task that was in one is  *)
(* still in one, and what waits waited before and keeps its registrations. *)
KeepsAll(qs, q) == \A o \in Ids : InQueues(qs, o) => InQueues(q, o)
WaitsOn(qs, q) ==
    \A w, d \in Ids : Awaits(q, w, d) =>
      /\ Awaits(qs, w, d)
      /\ <<d, w>> \in qs.dep => <<d, w>> \in q.dep

LEMMA WaitsOnTwice ==
    ASSUME NEW q1, NEW q2, NEW q3, WaitsOn(q1, q2), WaitsOn(q2, q3)
    PROVE  WaitsOn(q1, q3)
BY DEF WaitsOn

LEMMA SameWaits ==
    ASSUME NEW qs, NEW q, q.dep = qs.dep,
           \A w \in Ids : q.wait[w] = qs.wait[w] \/ q.wait[w] = None
    PROVE  WaitsOn(qs, q)
BY DEF WaitsOn, Awaits, IsWaiting

LEMMA RefreshKeeps ==
    ASSUME NEW qs \in QueueState, NEW id \in Ids, NEW m \in TaskMeta,
           NEW rerun \in BOOLEAN
    PROVE  LET q == RefreshRunning(qs, id, m, rerun)
           IN  KeepsAll(qs, q) /\ InQueues(q, id) /\ WaitsOn(qs, q)
<1> DEFINE q == RefreshRunning(qs, id, m, rerun)
           e == [m EXCEPT !.rerun = rerun]
<1>1. e \in TaskMeta
  BY DEF TaskMeta
<1>0. e # None
  BY <1>1, NoneAssumption
<1> HIDE DEF e
<1>2. /\ q.wait = qs.wait /\ q.sched = qs.sched /\ q.dep = qs.dep
      /\ q.run[id] = e /\ \A o \in Ids : o # id => q.run[o] = qs.run[o]
  BY DEF RefreshRunning, QueueState, e
<1> HIDE DEF q
<1>3. KeepsAll(qs, q) /\ InQueues(q, id)
  BY <1>0, <1>2 DEF KeepsAll, InQueues, IsRunning, IsWaiting, IsScheduled
<1>4. WaitsOn(qs, q)
  BY <1>2, SameWaits
<1> QED BY <1>3, <1>4 DEF q

LEMMA TakeKeeps ==
    ASSUME NEW qs \in QueueState, NEW id \in Ids
    PROVE  LET q == TakeRunning(qs, id)
           IN  /\ \A o \in Ids : o # id /\ InQueues(qs, o) => InQueues(q, o)
               /\ WaitsOn(qs, q) /\ ~IsRunning(q, id)
<1> DEFINE q == TakeRunning(qs, id)
<1>2. /\ q.wait = qs.wait /\ q.sched = qs.sched /\ q.dep = qs.dep
      /\ q.run[id] = None /\ \A o \in Ids : o # id => q.run[o] = qs.run[o]
  BY DEF TakeRunning, QueueState
<1> HIDE DEF q
<1>3. \A o \in Ids : o # id /\ InQueues(qs, o) => InQueues(q, o)
  BY <1>2 DEF InQueues, IsRunning, IsWaiting, IsScheduled
<1>4. WaitsOn(qs, q) /\ ~IsRunning(q, id)
  BY <1>2, SameWaits DEF IsRunning
<1> QED BY <1>3, <1>4 DEF q

LEMMA InsertAfreshKeeps ==
    ASSUME NEW qs \in QueueState, NEW id \in Ids, NEW m \in TaskMeta
    PROVE  LET q == InsertAfresh(qs, id, m)
           IN  /\ KeepsAll(qs, q) /\ InQueues(q, id)
               /\ \A w, d \in Ids : Awaits(q, w, d) =>
                    \/ Awaits(qs, w, d) /\ (<<d, w>> \in qs.dep => <<d, w>> \in q.dep)
                    \/ w = id /\ d \in m.deps /\ <<d, w>> \in q.dep
<1> DEFINE u == Unqueue(qs, id)
           q == Insert(u, id, m)
<1>1. m # None /\ m.next \in Slots /\ m.deps \in SUBSET Ids
  BY NoneAssumption DEF TaskMeta
<1>2. /\ u.run = qs.run /\ u.dep = qs.dep /\ u.wait[id] = None
      /\ \A o \in Ids : o # id => /\ u.wait[o] = qs.wait[o]
                                  /\ \A s \in Slots : u.sched[<<s, o>>] = qs.sched[<<s, o>>]
  BY DEF Unqueue, QueueState, FirstSlot, Slots
<1>3. u \in QueueState
  BY UnqueueType
<1> HIDE DEF u
<1>4. /\ q.run = u.run
      /\ \A o \in Ids : o # id => /\ q.wait[o] = u.wait[o]
                                  /\ \A s \in Slots : q.sched[<<s, o>>] = u.sched[<<s, o>>]
      /\ m.deps = {} => q.dep = u.dep /\ q.wait[id] = u.wait[id] /\ q.sched[<<m.next, id>>] = m
      /\ m.deps # {} => q.dep = u.dep \cup (m.deps \X {id}) /\ q.wait[id] = m
  BY <1>1, <1>3 DEF Insert, Schedule, Await, QueueState
<1> HIDE DEF q
<1>5. InQueues(q, id)
  BY <1>1, <1>4 DEF InQueues, IsWaiting, IsScheduled
<1>6. KeepsAll(qs, q)
  BY <1>2, <1>4, <1>5 DEF KeepsAll, InQueues, IsRunning, IsWaiting, IsScheduled
<1>7. ASSUME NEW w \in Ids, NEW d \in Ids, Awaits(q, w, d)
      PROVE  \/ Awaits(qs, w, d) /\ (<<d, w>> \in qs.dep => <<d, w>> \in q.dep)
             \/ w = id /\ d \in m.deps /\ <<d, w>> \in q.dep
  <2>1. CASE w # id
    BY <1>2, <1>4, <1>7, <2>1 DEF Awaits, IsWaiting
  <2>2. CASE w = id
    BY <1>2, <1>4, <1>7, <2>2 DEF Awaits, IsWaiting
  <2> QED BY <2>1, <2>2
<1> QED BY <1>5, <1>6, <1>7 DEF q, u, InsertAfresh

LEMMA AddQueueKeeps ==
    ASSUME NEW qs \in QueueState, NEW id \in Ids, NEW m \in TaskMeta
    PROVE  LET q == AddQueue(qs, id, m)
           IN  /\ KeepsAll(qs, q) /\ InQueues(q, id)
               /\ \A w, d \in Ids : Awaits(q, w, d) =>
                    \/ Awaits(qs, w, d) /\ (<<d, w>> \in qs.dep => <<d, w>> \in q.dep)
                    \/ ChecksDeps(qs, id, m) /\ w = id /\ d \in m.deps /\ <<d, w>> \in q.dep
<1>1. CASE IsRunning(qs, id)
  <2>1. qs.run[id].rerun \in BOOLEAN
    BY <1>1, EntryType DEF IsRunning, QueueState, TaskMeta
  <2> QED BY <1>1, <2>1, RefreshKeeps DEF AddQueue, WaitsOn
<1>2. CASE ~IsRunning(qs, id)
  <2>1. AddQueue(qs, id, m) = InsertAfresh(qs, id, m)
    BY <1>2 DEF AddQueue
  <2> QED BY <1>2, <2>1, InsertAfreshKeeps DEF ChecksDeps
<1> QED BY <1>1, <1>2

LEMMA ResolveKeeps ==
    ASSUME NEW qs \in QueueState, NEW id \in Ids, NEW deps \in SUBSET Ids,
           NEW completed \in SUBSET Ids
    PROVE  LET q == ResolveDeps(qs, id, deps, completed)
           IN  /\ KeepsAll(qs, q) /\ WaitsOn(qs, q)
               /\ \A d \in completed : ~Awaits(q, id, d)
<1> DEFINE left == qs.wait[id].deps \ completed
           q == ResolveDeps(qs, id, deps, completed)
<1>1. CASE completed = {} \/ ~IsWaiting(qs, id)
  <2>1. q = qs
    BY <1>1 DEF ResolveDeps
  <2>2. \A d \in completed : ~Awaits(q, id, d)
    BY <1>1, <2>1 DEF Awaits
  <2> HIDE DEF q
  <2>3. KeepsAll(qs, q) /\ WaitsOn(qs, q)
    BY <2>1 DEF KeepsAll, WaitsOn
  <2> QED BY <2>2, <2>3 DEF q
<1>2. CASE completed # {} /\ IsWaiting(qs, id) /\ left # {}
  <2>1. q = [qs EXCEPT !.wait[id].deps = left]
    BY <1>2 DEF ResolveDeps
  <2>2. qs.wait[id] \in TaskMeta
    BY <1>2, EntryType DEF IsWaiting, QueueState
  <2>3. [qs.wait[id] EXCEPT !.deps = left] \in TaskMeta
    BY <2>2 DEF TaskMeta
  <2>4. /\ q.run = qs.run /\ q.sched = qs.sched /\ q.dep = qs.dep
        /\ q.wait[id] # None /\ q.wait[id].deps = left
        /\ \A o \in Ids : o # id => q.wait[o] = qs.wait[o]
    BY <2>1, <2>2, <2>3, NoneAssumption DEF QueueState, TaskMeta
  <2> HIDE DEF q
  <2>5. KeepsAll(qs, q)
    BY <2>4 DEF KeepsAll, InQueues, IsRunning, IsWaiting, IsScheduled
  <2>6. WaitsOn(qs, q)
    BY <1>2, <2>4 DEF WaitsOn, Awaits, IsWaiting
  <2>7. \A d \in completed : ~Awaits(q, id, d)
    BY <2>4 DEF Awaits
  <2> QED BY <2>5, <2>6, <2>7 DEF q
<1>3. CASE completed # {} /\ IsWaiting(qs, id) /\ left = {}
  <2>1. q = [qs EXCEPT !.wait[id] = None,
                       !.dep = qs.dep \ (deps \X {id}),
                       !.sched[<<"now", id>>] = [qs.wait[id] EXCEPT !.deps = {}]]
    BY <1>3 DEF ResolveDeps
  <2>2. qs.wait[id] \in TaskMeta
    BY <1>3, EntryType DEF IsWaiting, QueueState
  <2>0. [qs.wait[id] EXCEPT !.deps = {}] \in TaskMeta
    BY <2>2 DEF TaskMeta
  <2>3. [qs.wait[id] EXCEPT !.deps = {}] # None
    BY <2>0, NoneAssumption
  <2> DEFINE e == [qs.wait[id] EXCEPT !.deps = {}]
  <2> HIDE DEF e
  <2>4. /\ q.run = qs.run /\ q.dep = qs.dep \ (deps \X {id})
        /\ q.wait[id] = None /\ q.sched[<<"now", id>>] = e
        /\ \A o \in Ids : o # id => /\ q.wait[o] = qs.wait[o]
                                    /\ \A s \in Slots : q.sched[<<s, o>>] = qs.sched[<<s, o>>]
    BY <2>1 DEF QueueState, Slots, e
  <2>5. e # None
    BY <2>3 DEF e
  <2> HIDE DEF q
  <2>6. InQueues(q, id)
    BY <2>4, <2>5 DEF InQueues, IsScheduled, Slots
  <2>7. KeepsAll(qs, q)
    BY <2>4, <2>6 DEF KeepsAll, InQueues, IsRunning, IsWaiting, IsScheduled
  <2>8. ~IsWaiting(q, id)
    BY <2>4 DEF IsWaiting
  <2>9. WaitsOn(qs, q)
    BY <2>4 DEF WaitsOn, Awaits, IsWaiting
  <2> QED BY <2>7, <2>8, <2>9 DEF q, Awaits
<1> QED BY <1>1, <1>2, <1>3

LEMMA RemoveKeeps ==
    ASSUME NEW qs \in QueueState, NEW id \in Ids
    PROVE  LET q == RemoveFromQueues(qs, id)
           IN  /\ \A o \in Ids : o # id /\ InQueues(qs, o) => InQueues(q, o)
               /\ WaitsOn(qs, q)
<1> DEFINE q == RemoveFromQueues(qs, id)
<1>1. /\ q.dep = qs.dep
      /\ \A o \in Ids : q.wait[o] = qs.wait[o] \/ q.wait[o] = None
      /\ \A o \in Ids : o # id =>
           /\ q.wait[o] = qs.wait[o] /\ q.run[o] = qs.run[o]
           /\ \A s \in Slots : q.sched[<<s, o>>] = qs.sched[<<s, o>>]
  BY DEF RemoveFromQueues, TakeRunning, QueueState, FirstSlot, Slots
<1> HIDE DEF q
<1>2. WaitsOn(qs, q)
  BY <1>1, SameWaits
<1>3. \A o \in Ids : o # id /\ InQueues(qs, o) => InQueues(q, o)
  BY <1>1 DEF InQueues, IsRunning, IsWaiting, IsScheduled
<1> QED BY <1>2, <1>3 DEF q

LEMMA ReleaseDependentsKeeps ==
    ASSUME NEW qs \in QueueState, NEW d0 \in Ids
    PROVE  LET q == ReleaseDependents(qs, d0)
           IN  /\ KeepsAll(qs, q) /\ WaitsOn(qs, q)
               /\ \A w \in Ids : <<d0, w>> \in qs.dep => ~Awaits(q, w, d0)
<1> DEFINE q == ReleaseDependents(qs, d0)
           ready == Ready(qs, d0)
<1>1. ASSUME NEW m \in TaskMeta
      PROVE  /\ ForgetDep(m, d0) # None /\ ForgetDep(m, d0).deps = m.deps \ {d0}
  BY ForgetDepType, NoneAssumption DEF ForgetDep, TaskMeta
<1>2. /\ q.dep = {p \in qs.dep : p[1] # d0}
      /\ \A o \in Ids :
           /\ q.run[o] = IF o \in ready THEN ForgetDep(qs.wait[o], d0) ELSE qs.run[o]
           /\ q.wait[o] = IF o \in ready THEN None
                          ELSE IF o \in Dependents(qs, d0) /\ IsWaiting(qs, o)
                            THEN ForgetDep(qs.wait[o], d0)
                          ELSE qs.wait[o]
           /\ \A s \in Slots : q.sched[<<s, o>>] # None <=> qs.sched[<<s, o>>] # None
  <2>1. \A o \in Ids, s \in Slots : q.sched[<<s, o>>] =
           IF /\ o \in Dependents(qs, d0) /\ ~IsWaiting(qs, o)
              /\ qs.sched[<<s, o>>] # None /\ s = FirstSlot(qs, o)
             THEN ForgetDep(qs.sched[<<s, o>>], d0) ELSE qs.sched[<<s, o>>]
    BY DEF ReleaseDependents, QueueState
  <2>2. \A o \in Ids, s \in Slots : qs.sched[<<s, o>>] # None => qs.sched[<<s, o>>] \in TaskMeta
    BY EntryType DEF QueueState
  <2> DEFINE dep == {p \in qs.dep : p[1] # d0}
             run == [w \in Ids |-> IF w \in Ready(qs, d0) THEN ForgetDep(qs.wait[w], d0)
                                                        ELSE qs.run[w]]
             wait == [w \in Ids |-> IF w \in Ready(qs, d0) THEN None
                     ELSE IF w \in Dependents(qs, d0) /\ IsWaiting(qs, w)
                       THEN ForgetDep(qs.wait[w], d0) ELSE qs.wait[w]]
  <2>3. q.dep = dep /\ q.run = run /\ q.wait = wait
    BY DEF ReleaseDependents, QueueState
  <2> HIDE DEF q
  <2> QED BY <1>1, <2>1, <2>2, <2>3
<1>3. ready \subseteq {o \in Ids : IsWaiting(qs, o) /\ qs.wait[o].deps \subseteq {d0}
                                   /\ o \in Dependents(qs, d0)}
  BY DEF Ready, Dependents
<1>4. \A o \in Ids : IsWaiting(qs, o) => qs.wait[o] \in TaskMeta
  BY EntryType DEF IsWaiting, QueueState
<1> HIDE DEF q, ready
<1>5. KeepsAll(qs, q)
  <2>1. SUFFICES ASSUME NEW o \in Ids, InQueues(qs, o) PROVE InQueues(q, o)
    BY DEF KeepsAll
  <2>2. CASE IsRunning(qs, o)
    BY <1>1, <1>2, <1>3, <1>4, <2>2 DEF InQueues, IsRunning
  <2>3. CASE IsWaiting(qs, o)
    BY <1>1, <1>2, <1>3, <1>4, <2>3 DEF InQueues, IsRunning, IsWaiting
  <2>4. CASE IsScheduled(qs, o)
    BY <1>2, <2>4 DEF InQueues, IsScheduled
  <2> QED BY <2>1, <2>2, <2>3, <2>4 DEF InQueues
<1>6. ASSUME NEW w \in Ids, NEW d \in Ids, Awaits(q, w, d)
      PROVE  /\ Awaits(qs, w, d) /\ ~(d = d0 /\ <<d, w>> \in qs.dep)
  <2>1. w \notin ready /\ q.wait[w] # None /\ d \in q.wait[w].deps
    BY <1>2, <1>6 DEF Awaits, IsWaiting
  <2>2. CASE w \in Dependents(qs, d0) /\ IsWaiting(qs, w)
    BY <1>1, <1>2, <1>4, <2>1, <2>2 DEF Awaits
  <2>3. CASE ~(w \in Dependents(qs, d0) /\ IsWaiting(qs, w))
    BY <1>2, <2>1, <2>3 DEF Awaits, IsWaiting, Dependents
  <2> QED BY <2>2, <2>3
<1>7. WaitsOn(qs, q)
  BY <1>2, <1>6 DEF WaitsOn
<1>8. \A w \in Ids : <<d0, w>> \in qs.dep => ~Awaits(q, w, d0)
  BY <1>6
<1> QED BY <1>5, <1>7, <1>8 DEF q

LEMMA StartKeeps ==
    ASSUME NEW qs \in QueueState, NEW s \in Slots, NEW id \in Ids,
           qs.sched[<<s, id>>] # None
    PROVE  LET q == StartScheduled(qs, s, id)
           IN  KeepsAll(qs, q) /\ WaitsOn(qs, q)
<1> DEFINE q == StartScheduled(qs, s, id)
<1>1. /\ q.dep = qs.dep /\ q.wait = qs.wait
      /\ q.run[id] = qs.sched[<<s, id>>]
      /\ \A o \in Ids : o # id =>
           /\ q.run[o] = qs.run[o]
           /\ \A t \in Slots : q.sched[<<t, o>>] = qs.sched[<<t, o>>]
  BY DEF StartScheduled, QueueState
<1> HIDE DEF q
<1>2. WaitsOn(qs, q)
  BY <1>1, SameWaits
<1>3. KeepsAll(qs, q)
  BY <1>1 DEF KeepsAll, InQueues, IsRunning, IsWaiting, IsScheduled
<1> QED BY <1>2, <1>3 DEF q

LEMMA ClearKeeps ==
    ASSUME NEW qs \in QueueState, NEW id \in Ids
    PROVE  LET q == ClearRerunRequest(qs, id)
           IN  KeepsAll(qs, q) /\ WaitsOn(qs, q)
<1>1. CASE IsRunning(qs, id)
  <2>1. qs.run[id] \in TaskMeta
    BY <1>1, EntryType DEF IsRunning, QueueState
  <2>2. ClearRerunRequest(qs, id) = RefreshRunning(qs, id, qs.run[id], FALSE)
    BY <1>1 DEF ClearRerunRequest, RefreshRunning
  <2>3. FALSE \in BOOLEAN
    OBVIOUS
  <2> QED BY <2>1, <2>2, <2>3, RefreshKeeps
<1>2. CASE ~IsRunning(qs, id)
  BY <1>2 DEF ClearRerunRequest, KeepsAll, WaitsOn
<1> QED BY <1>1, <1>2
-----------------------------------------------------------------------------
(* The invariant.  Once a write has failed nothing is claimed: the row it  *)
(* was about waits for the next start.                                     *)

Held(R, bs, ev) ==
    \A id \in R : ev[id] > 0 \/ \E l \in Lanes : Exec(bs, <<id, l>>)

(* What is in tasks_running is executing, or its completion is under way.  *)
RunHeld == Held(RunningIds(queues), bodies, events)

(* The finish handler drops a row's dependents only once the row is closed. *)
FinDone ==
    \/ fin.pc = "undep"
    \/ fin.pc = "finish" /\ Holds(FinisherTag) /\ wres = "ok"
    => ~Pending(rows, fin.id)

NoFault == wres = "failed" => writes # <<>> /\ Head(writes).op = "create"

SameInput(row, old) == row.param = old.param /\ row.kind = old.kind

RowsCared ==
    \A id \in Ids : Pending(rows, id) /\ Buildable(rows[id])
      => loader.pc = "start" \/ id \in loader.todo \/ Cares(id)

(* A row that changed since the loader read it was changed by somebody who *)
(* cares for it; likewise a row a request refreshed in place, and the one  *)
(* the loader waits for an answer about.                                   *)
SnapsCared ==
    \A id \in loader.todo :
      Pending(rows, id) /\ ~SameInput(rows[id], loader.snap[id]) => Cares(id)

RefreshCared ==
    \A r \in Callers :
      callers[r].pc = "refresh" /\ Pending(rows, callers[r].id) => Cares(callers[r].id)

ProbesCared ==
    \A p \in probes : p.who = LoaderTag /\ Pending(rows, p.id) => Cares(p.id)

WaitsCared ==
    \A w, d \in Ids : Awaits(queues, w, d) =>
      \/ /\ <<d, w>> \in queues.dep
         /\ Cares(d) \/ Undeps(fin, d) \/ Pending(rows, d)
      \/ Reports(probes, rows, w, d)

FaultFree == /\ NoFault /\ FinDone /\ RowsCared /\ SnapsCared /\ RefreshCared
             /\ ProbesCared /\ WaitsCared

CareInv == RunHeld /\ (counts.faults = 0 => FaultFree)

(* What a step of a running process must respect for it to hold.           *)
CareKept == \A id \in Ids : Cares(id) => Cares(id)' \/ Undeps(fin', id)
RowsCome ==
    \A id \in Ids : Pending(rows', id) =>
      \/ Pending(rows, id) /\ SameInput(rows'[id], rows[id])
      \/ Cares(id)'
RowsGo == \A id \in Ids : Pending(rows, id) => Pending(rows', id) \/ Cares(id)
WaitsCome ==
    \A w, d \in Ids : Awaits(queues', w, d) =>
      \/ /\ Awaits(queues, w, d)
         /\ <<d, w>> \in queues.dep => <<d, w>> \in queues'.dep
         /\ Reports(probes, rows, w, d) => Reports(probes', rows', w, d)
      \/ /\ <<d, w>> \in queues'.dep
         /\ Pending(rows', d) \/ Reports(probes', rows', w, d)
UndepDone ==
    fin.pc = "undep" =>
      \/ fin' = fin
      \/ \A w \in Ids : <<fin.id, w>> \in queues.dep => ~Awaits(queues', w, fin.id)
ProbesCome ==
    \A p \in probes' : p.who = LoaderTag =>
      Cares(p.id)' \/ \E q \in probes : q.who = LoaderTag /\ q.id = p.id
RefreshCome ==
    \A r \in Callers, id \in Ids : callers'[r].pc = "refresh" /\ callers'[r].id = id =>
      Cares(id)' \/ (callers[r].pc = "refresh" /\ callers[r].id = id)
LoaderKeeps ==
    \A id \in Ids :
      /\ loader.pc = "start" \/ id \in loader.todo
      /\ Pending(rows', id) /\ Buildable(rows'[id])
      => loader'.pc = "start" \/ id \in loader'.todo \/ Cares(id)'
SnapsCome ==
    \A id \in loader'.todo :
      \/ id \in loader.todo /\ loader'.snap[id] = loader.snap[id]
      \/ Pending(rows', id) => SameInput(rows'[id], loader'.snap[id])

Moves == /\ CareKept /\ RowsCome /\ RowsGo /\ WaitsCome /\ UndepDone
         /\ ProbesCome /\ RefreshCome /\ LoaderKeeps /\ SnapsCome

CareStep == FinDone' /\ NoFault' /\ Moves

LEMMA MovesCare ==
    ASSUME TypeOK', FaultFree, CareStep
    PROVE  FaultFree'
<1>1. ASSUME NEW id \in Ids, Cares(id), Pending(rows', id)
      PROVE  Cares(id)'
  BY <1>1 DEF CareStep, Moves, CareKept, FinDone, Undeps
<1>2. ASSUME NEW id \in Ids, Pending(rows', id), Pending(rows, id) => Cares(id)
      PROVE  Cares(id)'
  BY <1>1, <1>2 DEF CareStep, Moves, RowsCome
<1>3. RowsCared'
  <2>1. SUFFICES ASSUME NEW id \in Ids, Pending(rows', id),
                        Buildable(rows'[id])
                 PROVE  loader'.pc = "start" \/ id \in loader'.todo \/ Cares(id)'
    BY DEF RowsCared
  <2>2. CASE Cares(id)'
    BY <2>2
  <2>3. CASE Pending(rows, id) /\ SameInput(rows'[id], rows[id])
    <3>1. loader.pc = "start" \/ id \in loader.todo \/ Cares(id)
      BY <2>1, <2>3 DEF FaultFree, RowsCared, SameInput, Buildable
    <3> QED BY <1>1, <2>1, <3>1 DEF CareStep, Moves, LoaderKeeps
  <2> QED BY <2>1, <2>2, <2>3 DEF CareStep, Moves, RowsCome
<1>4. SnapsCared'
  <2>1. SUFFICES ASSUME NEW id \in loader'.todo, Pending(rows', id),
                        ~SameInput(rows'[id], loader'.snap[id])
                 PROVE  Cares(id)'
    BY DEF SnapsCared
  <2>2. id \in Ids
    BY DEF TypeOK, LoaderState
  <2>3. id \in loader.todo /\ loader'.snap[id] = loader.snap[id]
    BY <2>1 DEF CareStep, Moves, SnapsCome
  <2>4. CASE Cares(id)'
    BY <2>4
  <2>5. CASE Pending(rows, id) /\ SameInput(rows'[id], rows[id])
    <3>1. Cares(id)
      BY <2>1, <2>3, <2>5 DEF FaultFree, SnapsCared, SameInput
    <3> QED BY <1>1, <2>1, <2>2, <3>1
  <2> QED BY <2>1, <2>2, <2>4, <2>5 DEF CareStep, Moves, RowsCome
<1>5. RefreshCared'
  <2>1. SUFFICES ASSUME NEW r \in Callers, callers'[r].pc = "refresh", NEW id,
                        id = callers'[r].id, Pending(rows', id)
                 PROVE  Cares(id)'
    BY DEF RefreshCared
  <2>2. id \in Ids
    BY <2>1 DEF TypeOK, CallerState, Idle
  <2>3. Cares(id)' \/ (callers[r].pc = "refresh" /\ callers[r].id = id)
    BY <2>1, <2>2 DEF CareStep, Moves, RefreshCome
  <2> QED BY <1>2, <2>1, <2>2, <2>3 DEF FaultFree, RefreshCared
<1>6. ProbesCared'
  <2>1. SUFFICES ASSUME NEW p \in probes', p.who = LoaderTag, NEW id,
                        id = p.id, Pending(rows', id)
                 PROVE  Cares(id)'
    BY DEF ProbesCared
  <2>2. id \in Ids
    BY <2>1 DEF TypeOK, ProbeRecord
  <2>3. Cares(id)' \/ \E q \in probes : q.who = LoaderTag /\ q.id = id
    BY <2>1 DEF CareStep, Moves, ProbesCome
  <2> QED BY <1>2, <2>1, <2>2, <2>3 DEF FaultFree, ProbesCared
<1>7. WaitsCared'
  <2>1. SUFFICES ASSUME NEW w \in Ids, NEW d \in Ids, Awaits(queues', w, d),
                        ~Reports(probes', rows', w, d)
                 PROVE  /\ <<d, w>> \in queues'.dep
                        /\ Cares(d)' \/ Undeps(fin', d) \/ Pending(rows', d)
    BY DEF WaitsCared
  <2>2. CASE <<d, w>> \in queues'.dep /\ Pending(rows', d)
    BY <2>2
  <2>3. CASE /\ Awaits(queues, w, d)
             /\ <<d, w>> \in queues.dep => <<d, w>> \in queues'.dep
             /\ ~Reports(probes, rows, w, d)
    <3>1. /\ <<d, w>> \in queues.dep
          /\ Cares(d) \/ Undeps(fin, d) \/ Pending(rows, d)
      BY <2>3 DEF FaultFree, WaitsCared
    <3>2. Cares(d) => Cares(d)' \/ Undeps(fin', d)
      BY DEF CareStep, Moves, CareKept
    <3>3. Undeps(fin, d) => Undeps(fin', d)
      BY <2>1, <3>1 DEF CareStep, Moves, UndepDone, Undeps
    <3>4. Pending(rows, d) => Pending(rows', d) \/ Cares(d)
      BY DEF CareStep, Moves, RowsGo
    <3> QED BY <2>3, <3>1, <3>2, <3>3, <3>4
  <2> QED BY <2>1, <2>2, <2>3 DEF CareStep, Moves, WaitsCome
<1> QED BY <1>3, <1>4, <1>5, <1>6, <1>7 DEF FaultFree, CareStep

-----------------------------------------------------------------------------
(* How single pieces of state move.                                        *)

LEMMA RowsSame ==
    ASSUME UNCHANGED rows
    PROVE  RowsCome /\ RowsGo
BY DEF RowsCome, RowsGo, SameInput

LEMMA LoaderSame ==
    ASSUME UNCHANGED loader
    PROVE  LoaderKeeps /\ SnapsCome
BY DEF LoaderKeeps, SnapsCome

(* A step of a future, the finish handler or a call, which changes neither *)
(* the tables nor the loader.                                              *)
LEMMA FutureMoves ==
    ASSUME UNCHANGED <<rows, loader>>, CareKept, WaitsCome, UndepDone,
           \A p \in probes' : p.who = LoaderTag => p \in probes,
           \A r \in Callers, id \in Ids :
              callers'[r].pc = "refresh" /\ callers'[r].id = id =>
                callers'[r] = callers[r] \/ Cares(id)'
    PROVE  Moves
<1>1. ProbesCome /\ RefreshCome
  BY DEF ProbesCome, RefreshCome
<1> QED BY <1>1, RowsSame, LoaderSame DEF Moves

LEMMA CreatedKept ==
    ASSUME TypeOK, NEW id, Created(writes, wres, id)
    PROVE  /\ UNCHANGED <<writes, wres>> => Created(writes', wres', id)
           /\ \A w \in WriteRecord : Issue(w) => Created(writes', wres', id)
<1>1. ASSUME NEW w \in WriteRecord, Issue(w) PROVE Created(writes', wres', id)
  <2>1. writes \in Seq(WriteRecord) /\ writes # <<>>
    BY DEF TypeOK, Created
  <2>2. Head(Append(writes, w)) = Head(writes) /\ Append(writes, w) # <<>>
    BY <2>1
  <2> QED BY <1>1, <2>2 DEF Issue, Created
<1> QED BY <1>1 DEF Created

LEMMA WaitsSame ==
    ASSUME UNCHANGED <<rows, queues, probes>>
    PROVE  WaitsCome
BY DEF WaitsCome

LEMMA WaitsShrink ==
    ASSUME UNCHANGED <<rows, probes>>, WaitsOn(queues, queues')
    PROVE  WaitsCome
BY DEF WaitsCome, WaitsOn

(* add_queue: a task that waits anew is registered with everything it      *)
(* waits for, and asks about it.                                           *)
LEMMA EnqueueMoves ==
    ASSUME TypeOK, UNCHANGED rows, NEW qs \in QueueState, WaitsOn(queues, qs), NEW who,
           NEW id \in Ids, NEW m \in TaskMeta, m.deps \subseteq Known.stored,
           Enqueue(qs, who, id, m)
    PROVE  /\ WaitsCome /\ KeepsAll(qs, queues') /\ InQueues(queues', id)
           /\ probes \subseteq probes'
           /\ \A p \in probes' : p \in probes \/ p.who = who
<1> DEFINE q == AddQueue(qs, id, m)
           asks == ChecksDeps(qs, id, m)
           probe == Probe(who, id, m.deps)
<1>1. /\ KeepsAll(qs, q) /\ InQueues(q, id)
      /\ \A w, d \in Ids : Awaits(q, w, d) =>
            \/ Awaits(qs, w, d) /\ (<<d, w>> \in qs.dep => <<d, w>> \in q.dep)
            \/ asks /\ w = id /\ d \in m.deps /\ <<d, w>> \in q.dep
  BY AddQueueKeeps
<1>2. queues' = q /\ probes' = IF asks THEN probes \cup {probe} ELSE probes
  BY DEF Enqueue
<1>3. probe.who = who /\ probe.id = id /\ probe.deps = m.deps /\ probe.answered = FALSE
  BY DEF Probe
<1> HIDE DEF q, asks, probe
<1>4. probes \subseteq probes' /\ \A p \in probes' : p \in probes \/ p.who = who
  BY <1>2, <1>3
<1>5. WaitsCome
  <2>1. SUFFICES ASSUME NEW w \in Ids, NEW d \in Ids, Awaits(q, w, d)
                 PROVE  \/ /\ Awaits(queues, w, d)
                           /\ <<d, w>> \in queues.dep => <<d, w>> \in q.dep
                           /\ Reports(probes, rows, w, d) => Reports(probes', rows, w, d)
                        \/ /\ <<d, w>> \in q.dep
                           /\ Pending(rows, d) \/ Reports(probes', rows, w, d)
    BY <1>2 DEF WaitsCome
  <2>2. CASE Awaits(qs, w, d) /\ (<<d, w>> \in qs.dep => <<d, w>> \in q.dep)
    <3>1. Reports(probes, rows, w, d) => Reports(probes', rows, w, d)
      BY <1>4 DEF Reports
    <3> QED BY <2>2, <3>1 DEF WaitsOn
  <2>3. CASE asks /\ w = id /\ d \in m.deps /\ <<d, w>> \in q.dep
    <3>1. rows[d] # None /\ probe \in probes'
      BY <1>2, <2>3 DEF Known
    <3>2. Pending(rows, d) \/ Reports(probes', rows, w, d)
      BY <1>3, <2>3, <3>1 DEF Reports, Over, Pending
    <3> QED BY <2>3, <3>2
  <2> QED BY <1>1, <2>1, <2>2, <2>3
<1> QED BY <1>1, <1>2, <1>4, <1>5

(* The answer of a store query is used: what it reports is not waited for. *)
LEMMA ResolveMoves ==
    ASSUME TypeOK, UNCHANGED rows, NEW p \in probes, p.answered,
           probes' = probes \ {p}, WaitsOn(AfterProbe(p), queues')
    PROVE  WaitsCome
<1> DEFINE q == AfterProbe(p)
<1>1. /\ p.id \in Ids /\ p.deps \in SUBSET Ids /\ p.completed \in SUBSET Ids
      /\ queues \in QueueState
  BY DEF TypeOK, ProbeRecord
<1>2. /\ WaitsOn(queues, q)
      /\ \A d \in p.completed : ~Awaits(q, p.id, d)
  BY <1>1, ResolveKeeps DEF AfterProbe
<1> HIDE DEF q
<1>3. WaitsOn(q, queues')
  BY DEF q
<1>4. WaitsOn(queues, queues')
  BY <1>2, <1>3, WaitsOnTwice
<1>5. ASSUME NEW w \in Ids, NEW d \in Ids, Awaits(queues', w, d),
             Reports(probes, rows, w, d)
      PROVE  Reports(probes', rows', w, d)
  <2>1. ~(w = p.id /\ d \in p.completed)
    BY <1>2, <1>3, <1>5 DEF WaitsOn
  <2> QED BY <1>5, <2>1 DEF Reports
<1> QED BY <1>4, <1>5 DEF WaitsCome, WaitsOn

-----------------------------------------------------------------------------
(* What is in tasks_running is executing or about to be taken out.         *)

LEMMA SpawnHeld ==
    ASSUME bodies \in [Bodies -> BodyState], NEW R \in SUBSET Ids, NEW ev,
           Held(R, bodies, ev), NEW S \in SUBSET Ids, NEW meta, Spawn(S, meta)
    PROVE  Held(R \cup S, bodies', ev)
<1>1. ASSUME NEW id \in R
      PROVE  ev[id] > 0 \/ \E l \in Lanes : Exec(bodies', <<id, l>>)
  <2>1. CASE ev[id] > 0
    BY <2>1
  <2>2. ASSUME NEW l \in Lanes, Exec(bodies, <<id, l>>)
        PROVE  Exec(bodies', <<id, l>>)
    BY <1>1, <2>2, SpawnKeeps DEF Bodies
  <2> QED BY <2>1, <2>2 DEF Held
<1>2. ASSUME NEW id \in S
      PROVE  \E l \in Lanes : Exec(bodies', <<id, l>>)
  <2> DEFINE l == CHOOSE k \in FreeLanes(id) : TRUE
  <2>1. l \in Lanes
    BY <1>2 DEF Spawn, CanSpawn, FreeLanes
  <2>2. <<id, l>> \in Bodies /\ <<id, l>>[1] = id /\ <<id, l>>[2] = l
    BY <2>1 DEF Bodies
  <2>3. bodies'[<<id, l>>].pc = "run"
    BY <2>2 DEF Spawn
  <2> QED BY <2>1, <2>3 DEF Exec
<1> QED BY <1>1, <1>2 DEF Held

LEMMA ReleaseHeld ==
    ASSUME bodies \in [Bodies -> BodyState], NEW qs \in QueueState, AllExclusive(qs),
           NEW ev, NEW id \in Ids, Held(RunningIds(qs), bodies, ev), Release(qs, id)
    PROVE  Held(RunningIds(queues'), bodies', ev)
<1>1. queues' = ReleaseDependents(qs, id)
      /\ Spawn(Ready(qs, id), ReleaseDependents(qs, id).run)
  BY DEF Release
<1>2. /\ RunningIds(queues') = RunningIds(qs) \cup Ready(qs, id)
      /\ Ready(qs, id) \in SUBSET Ids /\ RunningIds(qs) \in SUBSET Ids
  BY <1>1, ReleaseExclusive DEF RunningIds
<1> QED BY <1>1, <1>2, SpawnHeld

LEMMA EndHeld ==
    ASSUME NEW bs, NEW bs2, NEW R \in SUBSET Ids, NEW ev \in Events, Held(R, bs, ev),
           NEW b \in Bodies, \A c \in Bodies \ {b} : bs2[c] = bs[c]
    PROVE  /\ Held(R, bs2, [ev EXCEPT ![b[1]] = @ + 1])
           /\ Held(R \ {b[1]}, bs2, ev)
<1>1. \A id \in R, l \in Lanes : id # b[1] /\ Exec(bs, <<id, l>>) => Exec(bs2, <<id, l>>)
  BY BodiesType DEF Exec, Bodies
<1>2. \A id \in Ids : ev[id] \in Nat
  BY DEF Events
<1>3. b[1] \in Ids
  BY BodiesType
<1> DEFINE e == [ev EXCEPT ![b[1]] = @ + 1]
<1>4. e[b[1]] > 0 /\ \A id \in Ids : id # b[1] => e[id] = ev[id]
  BY <1>2, <1>3 DEF Events
<1> HIDE DEF e
<1>5. Held(R, bs2, e)
  BY <1>1, <1>4 DEF Held
<1>6. Held(R \ {b[1]}, bs2, ev)
  BY <1>1 DEF Held
<1> QED BY <1>5, <1>6 DEF e

LEMMA TakeHeld ==
    ASSUME NEW bs, NEW R \in SUBSET Ids, NEW ev \in Events, Held(R, bs, ev), NEW id
    PROVE  Held(R \ {id}, bs, [ev EXCEPT ![id] = @ - 1])
<1> DEFINE e == [ev EXCEPT ![id] = @ - 1]
<1>1. \A o \in Ids : o # id => e[o] = ev[o]
  BY DEF Events
<1> HIDE DEF e
<1>2. Held(R \ {id}, bs, e)
  BY <1>1 DEF Held
<1> QED BY <1>2 DEF e

LEMMA HeldDispatch ==
    ASSUME OneBodyInv, RunHeld, NEW s \in Slots, NEW id \in Ids, Dispatch(s, id)
    PROVE  RunHeld'
<1> DEFINE q == StartScheduled(queues, s, id)
<1>1. queues.sched[<<s, id>>] # None /\ queues' = q /\ Spawn({id}, q.run)
      /\ events' = events
  BY DEF Dispatch
<1>2. queues \in QueueState /\ bodies \in [Bodies -> BodyState]
      /\ RunningIds(queues) \in SUBSET Ids
  BY DEF OneBodyInv, TypeOK, RunningIds
<1>3. RunningIds(q) = RunningIds(queues) \cup {id}
  BY <1>1, <1>2, StartExclusive DEF OneBodyInv, Sound
<1> HIDE DEF q
<1>4. Held(RunningIds(queues) \cup {id}, bodies', events)
  BY <1>1, <1>2, SpawnHeld DEF RunHeld
<1> QED BY <1>1, <1>3, <1>4 DEF RunHeld

LEMMA HeldBody ==
    ASSUME OneBodyInv, RunHeld, NEW b \in Bodies, BodyStep(b)
    PROVE  RunHeld'
<1>1. /\ queues \in QueueState /\ bodies \in [Bodies -> BodyState]
      /\ events \in Events /\ b[1] \in Ids
      /\ AllExclusive(queues) /\ RunningIds(queues) \in SUBSET Ids
      /\ Held(RunningIds(queues), bodies, events)
  BY BodiesType DEF OneBodyInv, TypeOK, Events, Sound, RunningIds, RunHeld
<1>2. CASE BodySucceeds(b)
  <2>1. /\ \A c \in Bodies \ {b} : bodies'[c] = bodies[c]
        /\ events' = [events EXCEPT ![b[1]] = @ + 1] /\ queues' = queues
    BY <1>1, <1>2 DEF BodySucceeds, SendFinish
  <2> QED BY <1>1, <2>1, EndHeld DEF RunHeld
<1>3. CASE (\E perm \in BOOLEAN : BodyFails(b, perm)) \/ BodyErrorStored(b)
             \/ BodyResolves(b)
  <2>1. \A c \in Bodies : Exec(bodies, c) => Exec(bodies', c)
    <3>1. bodies[b].pc # "off" => bodies[b] \in [pc : {"run", "retrying", "retryHook",
                 "failing", "failHook", "resolve"}, meta : TaskMeta, perm : BOOLEAN]
      BY <1>1 DEF BodyState, NoBody
    <3>2. ASSUME NEW perm \in BOOLEAN, BodyFails(b, perm)
          PROVE  Exec(bodies', b) /\ \A c \in Bodies : c # b => bodies'[c] = bodies[c]
      BY <1>1, <3>1, <3>2 DEF BodyFails, Body, Exec
    <3>3. CASE BodyErrorStored(b)
      <4>1. Exec(bodies', b) /\ \A c \in Bodies : c # b => bodies'[c] = bodies[c]
        BY <1>1, <3>1, <3>3 DEF BodyErrorStored, Body, Move, Exec
      <4> QED BY <4>1 DEF Exec
    <3>4. CASE BodyResolves(b)
      <4>1. ~Exec(bodies, b) /\ \A c \in Bodies : c # b => bodies'[c] = bodies[c]
        BY <1>1, <3>4 DEF BodyResolves, Body, Exec
      <4> QED BY <4>1 DEF Exec
    <3>5. (\E perm \in BOOLEAN : BodyFails(b, perm)) =>
            \A c \in Bodies : Exec(bodies, c) => Exec(bodies', c)
      BY <3>2 DEF Exec
    <3> QED BY <1>3, <3>3, <3>4, <3>5
  <2>2. RunningIds(queues') = RunningIds(queues)
    <3>1. queues' = queues \/ \E p \in probes : queues' = AfterProbe(p)
      BY <1>3 DEF BodyFails, BodyErrorStored, BodyResolves
    <3> QED BY <1>1, <3>1, AfterProbeSound DEF OneBodyInv
  <2>3. events' = events
    BY <1>3 DEF BodyFails, BodyErrorStored, BodyResolves
  <2> QED BY <1>1, <2>1, <2>2, <2>3 DEF RunHeld, Held, Bodies
<1>4. CASE BodyRetries(b)
  <2> DEFINE taken == TakeRunning(queues, b[1])
  <2>1. /\ taken \in QueueState /\ AllExclusive(taken)
        /\ RunningIds(taken) = RunningIds(queues) \ {b[1]}
    BY <1>1, TakeRunningType, TakeRunningExclusive
  <2>2. RetryMeta(b) \in TaskMeta
    BY <1>4, RetryMetaType DEF BodyRetries, Body, OneBodyInv
  <2>3. Enqueue(taken, BodyTag(b), b[1], RetryMeta(b)) /\ events' = events
    BY <1>4 DEF BodyRetries
  <2>4. \A c \in Bodies \ {b} : bodies'[c] = bodies[c]
    BY <1>1, <1>4 DEF BodyRetries
  <2> HIDE DEF taken
  <2>5. RunningIds(queues') = RunningIds(queues) \ {b[1]}
    BY <1>1, <2>1, <2>2, <2>3, EnqueueSound
  <2>6. Held(RunningIds(queues) \ {b[1]}, bodies', events)
    BY <1>1, <2>4, EndHeld
  <2> QED BY <2>3, <2>5, <2>6 DEF RunHeld
<1>5. CASE BodyGivesUp(b)
  <2>1. /\ \A c \in Bodies \ {b} : bodies'[c] = bodies[c]
        /\ events' = [events EXCEPT ![b[1]] = @ + 1]
        /\ queues' = ClearRerunRequest(queues, b[1])
    BY <1>1, <1>5 DEF BodyGivesUp, SendFinish
  <2>2. RunningIds(queues') = RunningIds(queues)
    BY <1>1, <2>1, ClearExclusive
  <2>3. Held(RunningIds(queues), bodies', events')
    BY <1>1, <2>1, EndHeld
  <2> QED BY <2>2, <2>3 DEF RunHeld
<1> QED BY <1>2, <1>3, <1>4, <1>5 DEF BodyStep

LEMMA HeldFin ==
    ASSUME OneBodyInv, RunHeld, FinStep
    PROVE  RunHeld'
<1>1. /\ queues \in QueueState /\ bodies \in [Bodies -> BodyState]
      /\ events \in Events /\ AllExclusive(queues)
      /\ RunningIds(queues) \in SUBSET Ids
      /\ Held(RunningIds(queues), bodies, events)
  BY DEF OneBodyInv, TypeOK, Events, Sound, RunningIds, RunHeld
<1>2. ASSUME NEW id \in Ids, FinTakes(id)
      PROVE  LET taken == TakeRunning(queues, id)
             IN  /\ taken \in QueueState /\ AllExclusive(taken)
                 /\ Held(RunningIds(taken), bodies, events')
  <2>1. events' = [events EXCEPT ![id] = @ - 1]
    BY <1>2 DEF FinTakes
  <2>2. Held(RunningIds(queues) \ {id}, bodies, events')
    BY <1>1, <2>1, TakeHeld
  <2> QED BY <1>1, <2>2, TakeRunningType, TakeRunningExclusive
<1>3. ASSUME NEW id \in Ids, FinNotFound(id)
      PROVE  RunHeld'
  <2>1. RunningIds(queues') = RunningIds(queues) \ {id} /\ bodies' = bodies
    BY <1>3 DEF FinNotFound, RunningIds
  <2>2. RunningIds(TakeRunning(queues, id)) = RunningIds(queues) \ {id}
    BY <1>1, TakeRunningExclusive
  <2> QED BY <1>2, <1>3, <2>1, <2>2 DEF FinNotFound, RunHeld
<1>4. ASSUME NEW id \in Ids, FinReruns(id)
      PROVE  RunHeld'
  <2> DEFINE m == RerunMeta(queues.run[id])
             taken == TakeRunning(queues, id)
             q == AddQueue(taken, id, m)
  <2>1. m \in TaskMeta
    BY <1>4, FinTakesType, MetaType DEF FinReruns, OneBodyInv, RerunMeta, Slots
  <2>2. /\ taken \in QueueState /\ AllExclusive(taken)
        /\ Held(RunningIds(taken), bodies, events')
    BY <1>2, <1>4 DEF FinReruns
  <2>3. \/ Enqueue(taken, FinisherTag, id, m) /\ bodies' = bodies
        \/ Release(q, id)
    BY <1>4 DEF FinReruns
  <2> HIDE DEF m, taken
  <2>4. CASE Enqueue(taken, FinisherTag, id, m) /\ bodies' = bodies
    BY <2>1, <2>2, <2>4, EnqueueSound DEF RunHeld
  <2>5. CASE Release(q, id)
    <3>1. /\ q \in QueueState /\ AllExclusive(q)
          /\ Held(RunningIds(q), bodies, events')
      BY <2>1, <2>2, AddQueueType, AddQueueExclusive
    <3> HIDE DEF q
    <3> QED BY <1>1, <2>5, <3>1, ReleaseHeld DEF RunHeld
  <2> QED BY <2>3, <2>4, <2>5
<1>5. ASSUME NEW id \in Ids, FinStores(id)
      PROVE  RunHeld'
  BY <1>2, <1>5 DEF FinStores, RunHeld
<1>6. CASE FinCronStored
  <2> DEFINE q == AddQueue(queues, fin.id, fin.meta)
  <2>1. fin.id \in Ids /\ fin.meta \in TaskMeta /\ events' = events
    BY <1>6, FinMeta DEF FinCronStored, OneBodyInv
  <2>2. \/ Enqueue(queues, FinisherTag, fin.id, fin.meta) /\ bodies' = bodies
        \/ Release(q, fin.id)
    BY <1>6 DEF FinCronStored
  <2>3. CASE Enqueue(queues, FinisherTag, fin.id, fin.meta) /\ bodies' = bodies
    BY <1>1, <2>1, <2>3, EnqueueSound DEF RunHeld
  <2>4. CASE Release(q, fin.id)
    <3>1. q \in QueueState /\ AllExclusive(q) /\ RunningIds(q) = RunningIds(queues)
      BY <1>1, <2>1, AddQueueType, AddQueueExclusive
    <3> HIDE DEF q
    <3> QED BY <1>1, <2>1, <2>4, <3>1, ReleaseHeld DEF RunHeld
  <2> QED BY <2>2, <2>3, <2>4
<1>7. CASE FinResolves
  <2>1. PICK p \in probes : Release(AfterProbe(p), fin.id)
    BY <1>7 DEF FinResolves
  <2>2. fin.id \in Ids /\ events' = events
    BY <1>7, FinMeta DEF FinResolves, OneBodyInv
  <2>3. /\ AfterProbe(p) \in QueueState /\ AllExclusive(AfterProbe(p))
        /\ RunningIds(AfterProbe(p)) = RunningIds(queues)
    BY <1>1, AfterProbeSound DEF OneBodyInv
  <2> QED BY <1>1, <2>1, <2>2, <2>3, ReleaseHeld DEF RunHeld
<1>8. CASE FinRowStamped
  BY <1>1, <1>8 DEF FinRowStamped, RunHeld
<1>9. CASE FinFinished
  <2>1. fin.id \in Ids /\ Release(queues, fin.id) /\ events' = events
    BY <1>9, FinMeta DEF FinFinished, OneBodyInv
  <2> QED BY <1>1, <2>1, ReleaseHeld DEF RunHeld
<1> QED BY <1>3, <1>4, <1>5, <1>6, <1>7, <1>8, <1>9 DEF FinStep

LEMMA HeldCaller ==
    ASSUME MainCallers = {}, OneBodyInv, RunHeld, NEW r \in Callers, CallerStep(r)
    PROVE  RunHeld'
<1> DEFINE id == callers[r].id
           m == callers[r].meta
<1>1. queues \in QueueState /\ AllExclusive(queues)
  BY DEF OneBodyInv, TypeOK, Sound
<1>2. UNCHANGED <<bodies, events>>
  BY DEF CallerStep, CallerCreates, CallerFindsRunning, CallerFindsIdle, CallerClears,
         CallerFails, CallerRefreshed, CallerStoresCron, CallerQueues, CallerInserts,
         CallerResolves
<1>3. RunningIds(queues') = RunningIds(queues)
  <2>1. CASE UNCHANGED queues
    BY <2>1
  <2>2. CASE CallerFindsRunning(r)
    <3>1. /\ id \in Ids /\ m \in TaskMeta /\ IsRunning(queues, id)
          /\ queues' = RequestInPlace(queues, id, m)
      BY <2>2, CallerMeta DEF CallerFindsRunning, Caller, OneBodyInv
    <3>2. queues.run[id].rerun \in BOOLEAN
      BY <1>1, <3>1 DEF IsRunning, QueueState, Entry, TaskMeta
    <3>3. (queues.run[id].rerun \/ m.cron = "none") \in BOOLEAN
      BY <3>2
    <3> QED BY <1>1, <3>1, <3>3, RefreshExclusive DEF RequestInPlace
  <2>3. CASE CallerFindsIdle(r)
    <3>1. id \in Ids /\ ~IsRunning(queues, id) /\ ClearQueued(r)
      BY <2>3, CallerMeta DEF CallerFindsIdle, Caller, OnMain, OneBodyInv
    <3> QED BY <1>1, <3>1, RemoveExclusive DEF ClearQueued
  <2>4. CASE CallerClears(r) \/ CallerInserts(r)
    BY <2>4 DEF CallerClears, CallerInserts, Caller, OneBodyInv, OnlyWorker
  <2>5. CASE CallerQueues(r)
    <3>1. /\ Head(writes).id \in Ids /\ m \in TaskMeta
          /\ Enqueue(queues, CallerTag(r), Head(writes).id, m)
      BY <2>5, CallerMeta, ReturnedId DEF CallerQueues, OnMain, OneBodyInv
    <3> QED BY <1>1, <3>1, EnqueueSound
  <2>6. CASE CallerResolves(r)
    <3>1. PICK p \in probes : queues' = AfterProbe(p)
      BY <2>6 DEF CallerResolves
    <3> QED BY <1>1, <3>1, AfterProbeSound DEF OneBodyInv
  <2> QED BY <2>1, <2>2, <2>3, <2>4, <2>5, <2>6
          DEF CallerStep, CallerCreates, CallerFails, CallerRefreshed, CallerStoresCron
<1> QED BY <1>2, <1>3 DEF RunHeld

LEMMA HeldLoader ==
    ASSUME OneBodyInv, RunHeld, LoaderStep
    PROVE  RunHeld'
<1>1. queues \in QueueState /\ AllExclusive(queues)
  BY DEF OneBodyInv, TypeOK, Sound
<1>2. UNCHANGED <<bodies, events>>
  BY DEF LoaderStep, LoaderReads, LoaderSkips, LoaderQueues, LoaderResolves
<1>3. RunningIds(queues') = RunningIds(queues)
  <2>1. CASE UNCHANGED queues
    BY <2>1
  <2>2. ASSUME NEW id \in Ids, LoaderQueues(id)
        PROVE  RunningIds(queues') = RunningIds(queues)
    <3>1. LoadedMeta(loader.snap[id]) \in TaskMeta
      BY <2>2, LoadedMetaType DEF LoaderQueues, OneBodyInv, TypeOK, LoaderState, Table
    <3> QED BY <1>1, <2>2, <3>1, EnqueueSound DEF LoaderQueues
  <2>3. CASE LoaderResolves
    <3>1. PICK p \in probes : queues' = AfterProbe(p)
      BY <2>3 DEF LoaderResolves
    <3> QED BY <1>1, <3>1, AfterProbeSound DEF OneBodyInv
  <2> QED BY <2>1, <2>2, <2>3 DEF LoaderStep, LoaderReads, LoaderSkips
<1> QED BY <1>2, <1>3 DEF RunHeld

-----------------------------------------------------------------------------
(* The connection: a write that returns leaves nothing at the head that    *)
(* has been carried out, a write that is issued does not change the head.  *)

LEMMA ReturnDone ==
    ASSUME wres' = "busy", fin'.pc = "undep" => ~Pending(rows', fin'.id)
    PROVE  FinDone' /\ NoFault'
BY DEF FinDone, NoFault

LEMMA StayDone ==
    ASSUME NoFault, FinDone, UNCHANGED <<writes, wres, rows>>,
           fin' = fin \/ fin'.pc \notin {"finish", "undep"}
    PROVE  FinDone' /\ NoFault'
BY DEF FinDone, NoFault, Holds

LEMMA IssueDone ==
    ASSUME TypeOK, NoFault, FinDone, NEW w \in WriteRecord, Issue(w), UNCHANGED rows,
           \/ fin' = fin
           \/ fin'.pc # "undep" /\ \A v \in UnderWay(writes) : v.who # FinisherTag
    PROVE  FinDone' /\ NoFault'
<1>1. writes \in Seq(WriteRecord)
  BY DEF TypeOK
<1>2. writes # <<>> => Head(writes') = Head(writes) /\ writes' # <<>>
  BY <1>1 DEF Issue
<1>3. NoFault'
  BY <1>2 DEF NoFault, Issue
<1>4. ASSUME fin'.pc = "finish", Holds(FinisherTag)', wres' = "ok"
      PROVE  fin' = fin /\ Holds(FinisherTag)
  <2>1. writes # <<>> /\ Head(writes).who = FinisherTag /\ wres = "ok"
    BY <1>2, <1>4 DEF Issue, TypeOK, Holds
  <2>2. Head(writes) \in UnderWay(writes)
    <3>1. Head(writes) = writes[1] /\ 1 \in DOMAIN writes
      BY <1>1, <2>1
    <3> QED BY <3>1 DEF UnderWay
  <2> QED BY <2>1, <2>2 DEF Holds
<1>5. FinDone'
  BY <1>4 DEF FinDone, Issue
<1> QED BY <1>3, <1>5

(* Whoever issued the write at the head awaits it.                         *)
LEMMA HeadOwned ==
    ASSUME TypeOK, DepsInv, writes # <<>>
    PROVE  /\ Owned(Head(writes), callers, bodies, fin)
           /\ Head(writes) \in WriteRecord
<1>1. writes \in Seq(WriteRecord) /\ WritesFit(writes, Known, ended, callers, bodies, fin)
  BY DEF TypeOK, DepsInv
<1>2. Head(writes) \in UnderWay(writes) /\ Head(writes) \in WriteRecord
  <2>1. 1 \in DOMAIN writes /\ Head(writes) = writes[1]
    BY <1>1
  <2> QED BY <1>1, <2>1 DEF UnderWay
<1> QED BY <1>1, <1>2 DEF WritesFit

LEMMA AfterProbeKeeps ==
    ASSUME TypeOK, NEW p \in probes
    PROVE  AfterProbe(p) \in QueueState /\ KeepsAll(queues, AfterProbe(p))
<1>1. /\ p.id \in Ids /\ p.deps \in SUBSET Ids /\ p.completed \in SUBSET Ids
      /\ queues \in QueueState
  BY DEF TypeOK, ProbeRecord
<1>2. KeepsAll(queues, AfterProbe(p))
  BY <1>1, ResolveKeeps DEF AfterProbe
<1>3. AfterProbe(p) \in QueueState
  BY <1>1, ResolveDepsType DEF AfterProbe
<1> QED BY <1>2, <1>3

-----------------------------------------------------------------------------
(* The dispatcher and the bodies.                                          *)

LEMMA CareDispatch ==
    ASSUME OneBodyInv, FaultFree, NEW s \in Slots, NEW id \in Ids, Dispatch(s, id)
    PROVE  CareStep
<1>1. /\ queues.sched[<<s, id>>] # None /\ queues' = StartScheduled(queues, s, id)
      /\ UNCHANGED <<rows, callers, fin, loader, writes, wres, probes>>
  BY DEF Dispatch
<1>2. KeepsAll(queues, queues') /\ WaitsOn(queues, queues')
  BY <1>1, StartKeeps DEF OneBodyInv, TypeOK
<1>3. CareKept
  BY <1>1, <1>2 DEF CareKept, Cares, KeepsAll
<1>4. WaitsCome
  BY <1>1, <1>2, WaitsShrink
<1>5. UndepDone
  BY <1>1 DEF UndepDone
<1>6. Moves
  BY <1>1, <1>3, <1>4, <1>5, FutureMoves
<1> QED BY <1>1, <1>6, StayDone DEF CareStep, FaultFree

LEMMA TagsDiffer ==
    ASSUME NEW b, NEW r
    PROVE  /\ BodyTag(b) # LoaderTag /\ CallerTag(r) # LoaderTag
           /\ FinisherTag # LoaderTag
BY DEF BodyTag, CallerTag, LoaderTag, FinisherTag

LEMMA CareBody ==
    ASSUME OneBodyInv, DepsInv, FaultFree, NEW b \in Bodies, BodyStep(b)
    PROVE  CareStep
<1>1. /\ TypeOK /\ queues \in QueueState /\ b[1] \in Ids /\ NoFault /\ FinDone
      /\ bodies \in [Bodies -> BodyState]
      /\ QueuesFit(queues, Known) /\ BodiesFit(bodies, Known)
      /\ WritesFit(writes, Known, ended, callers, bodies, fin)
  BY BodiesType DEF OneBodyInv, TypeOK, DepsInv, FaultFree
<1>2. UNCHANGED <<rows, callers, fin, loader>>
  BY DEF BodyStep, BodySucceeds, BodyFails, BodyErrorStored, BodyRetries, BodyResolves,
         BodyGivesUp
<1>3. UndepDone
  BY <1>2 DEF UndepDone
<1>4. ASSUME CareKept, WaitsCome, \A p \in probes' : p.who = LoaderTag => p \in probes
      PROVE  Moves
  BY <1>2, <1>3, <1>4, FutureMoves
<1>5. ASSUME KeepsAll(queues, queues'), UNCHANGED <<writes, wres>>
      PROVE  CareKept
  BY <1>2, <1>5 DEF CareKept, Cares, KeepsAll
<1>6. UNCHANGED <<writes, wres>> => FinDone' /\ NoFault'
  BY <1>1, <1>2, StayDone
<1>7. UNCHANGED queues => KeepsAll(queues, queues')
  BY DEF KeepsAll
<1>8. CASE BodySucceeds(b)
  <2>1. UNCHANGED <<queues, probes, writes, wres>>
    BY <1>8 DEF BodySucceeds
  <2>2. WaitsCome
    BY <1>2, <2>1, WaitsSame
  <2> QED BY <1>4, <1>5, <1>6, <1>7, <2>1, <2>2 DEF CareStep
<1>9. ASSUME NEW perm \in BOOLEAN, BodyFails(b, perm)
      PROVE  CareStep
  <2> DEFINE m == bodies[b].meta
             w == Write(BodyTag(b), ErrorOp(m, ShouldRetry(b, perm)), b[1], None, m)
  <2>1. Issue(w) /\ UNCHANGED <<queues, probes>>
    BY <1>9 DEF BodyFails
  <2>2. m \in TaskMeta /\ BodyTag(b) \in Tags
    BY <1>1, <1>9, BodyMeta, TagTypes DEF BodyFails, Body
  <2>3. w \in WriteRecord
    BY <1>1, <2>2, WriteType DEF ErrorOp
  <2> HIDE DEF w
  <2>4. FinDone' /\ NoFault'
    BY <1>1, <1>2, <2>1, <2>3, IssueDone
  <2>5. CareKept
    BY <1>1, <1>2, <1>7, <2>1, <2>3, CreatedKept DEF CareKept, Cares, KeepsAll
  <2>6. WaitsCome
    BY <1>2, <2>1, WaitsSame
  <2> QED BY <1>4, <2>1, <2>4, <2>5, <2>6 DEF CareStep
<1>10. CASE BodyErrorStored(b)
  <2>1. Holds(BodyTag(b)) /\ Return /\ UNCHANGED <<queues, probes>>
    BY <1>10 DEF BodyErrorStored
  <2>2. Head(writes).op # "create"
    <3>1. Owned(Head(writes), callers, bodies, fin) /\ Head(writes).who = BodyTag(b)
      BY <1>1, <2>1, HeadOwned DEF Holds
    <3> QED BY <3>1, OwnedMeans
  <2>3. CareKept
    BY <1>2, <2>1, <2>2 DEF CareKept, Cares, Created
  <2>4. FinDone' /\ NoFault'
    BY <1>1, <1>2, <2>1, ReturnDone DEF Return, FinDone
  <2>5. WaitsCome
    BY <1>2, <2>1, WaitsSame
  <2> QED BY <1>4, <2>1, <2>3, <2>4, <2>5 DEF CareStep
<1>11. CASE BodyRetries(b)
  <2> DEFINE taken == TakeRunning(queues, b[1])
             m == RetryMeta(b)
  <2>1. /\ bodies[b].pc = "retryHook" /\ Enqueue(taken, BodyTag(b), b[1], m)
        /\ UNCHANGED <<writes, wres>>
    BY <1>11 DEF BodyRetries, Body
  <2>2. /\ taken \in QueueState /\ WaitsOn(queues, taken)
        /\ \A o \in Ids : o # b[1] /\ InQueues(queues, o) => InQueues(taken, o)
    BY <1>1, TakeRunningType, TakeKeeps
  <2>3. m \in TaskMeta /\ Queueable(m, b[1], Known)
    BY <1>1, <2>1, RetryMetaType, RetryFits
  <2>4. m.deps \subseteq Known.stored
    BY <2>3 DEF Queueable, Lists, Sane
  <2> HIDE DEF taken, m
  <2>5. /\ WaitsCome /\ KeepsAll(taken, queues') /\ InQueues(queues', b[1])
        /\ \A p \in probes' : p \in probes \/ p.who = BodyTag(b)
    BY <1>1, <1>2, <2>1, <2>2, <2>3, <2>4, EnqueueMoves
  <2>6. KeepsAll(queues, queues')
    BY <2>2, <2>5 DEF KeepsAll
  <2> QED BY <1>4, <1>5, <1>6, <2>1, <2>5, <2>6, TagsDiffer DEF CareStep
<1>12. CASE BodyResolves(b)
  <2>1. PICK p \in probes : /\ p.answered /\ queues' = AfterProbe(p)
                            /\ probes' = probes \ {p}
    BY <1>12 DEF BodyResolves, Resolved
  <2>2. UNCHANGED <<writes, wres>>
    BY <1>12 DEF BodyResolves
  <2>3. KeepsAll(queues, queues')
    BY <1>1, <2>1, AfterProbeKeeps
  <2>4. WaitsOn(AfterProbe(p), queues')
    BY <2>1 DEF WaitsOn
  <2>5. WaitsCome
    BY <1>1, <1>2, <2>1, <2>4, ResolveMoves
  <2> QED BY <1>4, <1>5, <1>6, <2>1, <2>2, <2>3, <2>5 DEF CareStep
<1>13. CASE BodyGivesUp(b)
  <2>1. queues' = ClearRerunRequest(queues, b[1]) /\ UNCHANGED <<probes, writes, wres>>
    BY <1>13 DEF BodyGivesUp
  <2>2. KeepsAll(queues, queues') /\ WaitsOn(queues, queues')
    BY <1>1, <2>1, ClearKeeps
  <2>3. WaitsCome
    BY <1>2, <2>1, <2>2, WaitsShrink
  <2> QED BY <1>4, <1>5, <1>6, <2>1, <2>2, <2>3 DEF CareStep
<1> QED BY <1>8, <1>9, <1>10, <1>11, <1>12, <1>13 DEF BodyStep

-----------------------------------------------------------------------------
(* The finish handler.                                                     *)

LEMMA ReleaseMoves ==
    ASSUME NEW qs \in QueueState, NEW id \in Ids, Release(qs, id)
    PROVE  /\ KeepsAll(qs, queues') /\ WaitsOn(qs, queues') /\ fin' = FinIdle
           /\ \A w \in Ids : <<id, w>> \in qs.dep => ~Awaits(queues', w, id)
BY ReleaseDependentsKeeps DEF Release

LEMMA AddQueueQuiet ==
    ASSUME NEW qs \in QueueState, NEW id \in Ids, NEW m \in TaskMeta,
           ~ChecksDeps(qs, id, m)
    PROVE  LET q == AddQueue(qs, id, m)
           IN  /\ q \in QueueState /\ KeepsAll(qs, q) /\ InQueues(q, id)
               /\ WaitsOn(qs, q)
<1> DEFINE q == AddQueue(qs, id, m)
<1>1. /\ KeepsAll(qs, q) /\ InQueues(q, id)
      /\ \A w, d \in Ids : Awaits(q, w, d) =>
           \/ Awaits(qs, w, d) /\ (<<d, w>> \in qs.dep => <<d, w>> \in q.dep)
           \/ ChecksDeps(qs, id, m) /\ w = id /\ d \in m.deps /\ <<d, w>> \in q.dep
  BY AddQueueKeeps
<1>2. q \in QueueState
  BY AddQueueType
<1> HIDE DEF q
<1>3. WaitsOn(qs, q)
  BY <1>1 DEF WaitsOn
<1> QED BY <1>1, <1>2, <1>3 DEF q

LEMMA CareFin ==
    ASSUME OneBodyInv, DepsInv, FaultFree, FinStep
    PROVE  CareStep
<1>1. /\ TypeOK /\ queues \in QueueState /\ NoFault /\ FinDone
      /\ QueuesFit(queues, Known) /\ FinFits(fin, Known, ended)
      /\ WritesFit(writes, Known, ended, callers, bodies, fin)
  BY DEF OneBodyInv, TypeOK, DepsInv, FaultFree
<1>2. UNCHANGED <<rows, callers, loader>>
  BY DEF FinStep, FinNotFound, FinReruns, FinStores, FinCronStored, FinResolves,
         FinRowStamped, FinFinished
<1>3. ASSUME CareKept, WaitsCome, UndepDone,
             \A p \in probes' : p.who = LoaderTag => p \in probes
      PROVE  Moves
  BY <1>2, <1>3, FutureMoves
<1>4. fin.pc # "undep" => UndepDone
  BY DEF UndepDone
<1>5. ASSUME Holds(FinisherTag)
      PROVE  /\ fin.pc \in {"cron", "finish", "undep"}
             /\ Head(writes).op \in {"update", "finish", "undep"}
  <2>1. Owned(Head(writes), callers, bodies, fin) /\ Head(writes).who = FinisherTag
    BY <1>1, <1>5, HeadOwned DEF Holds
  <2> QED BY <2>1, OwnedMeans
<1>6. ASSUME fin.pc \notin {"cron", "finish"}, UNCHANGED <<writes, wres>>,
             KeepsAll(queues, queues')
      PROVE  CareKept
  BY <1>2, <1>6 DEF CareKept, Cares, KeepsAll, Finishes
<1>7. ASSUME Holds(FinisherTag), KeepsAll(queues, queues'),
             \A id \in Ids : Finishes(fin, id) => InQueues(queues', id) \/ Undeps(fin', id)
      PROVE  CareKept
  <2>1. \A id \in Ids : ~Created(writes, wres, id)
    BY <1>5, <1>7 DEF Created
  <2> QED BY <1>2, <1>7, <2>1 DEF CareKept, Cares, KeepsAll
<1>8. ASSUME NEW id \in Ids, FinTakes(id)
      PROVE  /\ fin.pc = "idle" /\ TakeRunning(queues, id) \in QueueState
             /\ WaitsOn(queues, TakeRunning(queues, id))
             /\ \A o \in Ids : o # id /\ InQueues(queues, o)
                                 => InQueues(TakeRunning(queues, id), o)
             /\ IsRunning(queues, id) =>
                  /\ queues.run[id] \in TaskMeta
                  /\ queues.run[id].deps \subseteq Known.stored
  <2>1. IsRunning(queues, id) => queues.run[id] \in TaskMeta
    BY <1>1, <1>8, FinTakesType
  <2>2. IsRunning(queues, id) => queues.run[id].deps \subseteq Known.stored
    BY <1>1 DEF QueuesFit, Startable, Sane
  <2> QED BY <1>1, <1>8, <2>1, <2>2, TakeRunningType, TakeKeeps DEF FinTakes
<1>9. ASSUME NEW id \in Ids, FinNotFound(id)
      PROVE  CareStep
  <2>1. fin.pc = "idle" /\ UNCHANGED <<queues, fin, writes, wres, probes>>
    BY <1>9 DEF FinNotFound, FinTakes
  <2>2. KeepsAll(queues, queues')
    BY <2>1 DEF KeepsAll
  <2> QED BY <1>1, <1>2, <1>3, <1>4, <1>6, <2>1, <2>2, WaitsSame, StayDone DEF CareStep
<1>10. ASSUME NEW id \in Ids, FinReruns(id)
       PROVE  CareStep
  <2> DEFINE m == RerunMeta(queues.run[id])
             taken == TakeRunning(queues, id)
             q == AddQueue(taken, id, m)
  <2>1. /\ fin.pc = "idle" /\ taken \in QueueState /\ WaitsOn(queues, taken)
        /\ \A o \in Ids : o # id /\ InQueues(queues, o) => InQueues(taken, o)
        /\ queues.run[id] \in TaskMeta /\ queues.run[id].deps \subseteq Known.stored
    BY <1>8, <1>10 DEF FinReruns
  <2>2. m \in TaskMeta /\ m.deps \subseteq Known.stored
    <3>1. m \in TaskMeta
      BY <2>1, MetaType DEF RerunMeta, Slots
    <3>2. m.deps = queues.run[id].deps
      BY <2>1 DEF RerunMeta, TaskMeta
    <3> QED BY <2>1, <3>1, <3>2
  <2>3. UNCHANGED <<writes, wres>>
    BY <1>10 DEF FinReruns
  <2>4. \/ /\ Enqueue(taken, FinisherTag, id, m)
           /\ fin' = [pc |-> "resolve", id |-> id, meta |-> m]
        \/ m.deps = {} /\ Release(q, id) /\ UNCHANGED probes
    BY <1>10 DEF FinReruns
  <2> HIDE DEF m, taken
  <2>5. CASE /\ Enqueue(taken, FinisherTag, id, m)
             /\ fin' = [pc |-> "resolve", id |-> id, meta |-> m]
    <3>1. /\ WaitsCome /\ KeepsAll(taken, queues') /\ InQueues(queues', id)
          /\ \A p \in probes' : p \in probes \/ p.who = FinisherTag
      BY <1>1, <1>2, <2>1, <2>2, <2>5, EnqueueMoves
    <3>2. KeepsAll(queues, queues')
      BY <2>1, <3>1 DEF KeepsAll
    <3>3. FinDone' /\ NoFault'
      BY <1>1, <1>2, <2>3, <2>5, StayDone
    <3> QED BY <1>3, <1>4, <1>6, <2>1, <2>3, <3>1, <3>2, <3>3, TagsDiffer DEF CareStep
  <2>6. CASE m.deps = {} /\ Release(q, id) /\ UNCHANGED probes
    <3>1. ~ChecksDeps(taken, id, m)
      BY <2>6 DEF ChecksDeps
    <3>2. /\ q \in QueueState /\ KeepsAll(taken, q) /\ InQueues(q, id)
          /\ WaitsOn(taken, q)
      BY <2>1, <2>2, <3>1, AddQueueQuiet
    <3> HIDE DEF q
    <3>3. KeepsAll(q, queues') /\ WaitsOn(q, queues') /\ fin' = FinIdle
      BY <2>6, <3>2, ReleaseMoves
    <3>4. KeepsAll(queues, queues')
      BY <2>1, <3>2, <3>3 DEF KeepsAll
    <3>5. WaitsOn(queues, queues')
      BY <2>1, <3>2, <3>3, WaitsOnTwice
    <3>6. FinDone' /\ NoFault'
      BY <1>1, <1>2, <2>3, <3>3, StayDone DEF FinIdle
    <3>7. WaitsCome
      BY <1>2, <2>6, <3>5, WaitsShrink
    <3> QED BY <1>3, <1>4, <1>6, <2>1, <2>3, <2>6, <3>4, <3>6, <3>7 DEF CareStep
  <2> QED BY <2>4, <2>5, <2>6
<1>11. ASSUME NEW id \in Ids, FinStores(id)
       PROVE  CareStep
  <2> DEFINE m == queues.run[id]
             recurs == m.cron = "recurs"
             upd == IF recurs THEN [m EXCEPT !.next = "later"] ELSE m
             pc == IF recurs THEN "cron" ELSE "finish"
             w == Write(FinisherTag, IF recurs THEN "update" ELSE "finish", id, None, upd)
  <2>1. /\ fin.pc = "idle" /\ WaitsOn(queues, TakeRunning(queues, id))
        /\ \A o \in Ids : o # id /\ InQueues(queues, o)
                            => InQueues(TakeRunning(queues, id), o)
        /\ m \in TaskMeta
    BY <1>8, <1>11 DEF FinStores
  <2>2. /\ fin' = [pc |-> pc, id |-> id, meta |-> upd] /\ Issue(w)
        /\ queues' = TakeRunning(queues, id) /\ UNCHANGED probes
    BY <1>11 DEF FinStores
  <2>3. upd \in TaskMeta
    BY <2>1, MetaType DEF Slots
  <2> HIDE DEF upd
  <2>4. w \in WriteRecord
    BY <2>3, WriteType, TagTypes
  <2> HIDE DEF w
  <2>5. \A v \in UnderWay(writes) : v.who # FinisherTag
    BY <1>1, <2>1, NoneUnderWay
  <2>6. FinDone' /\ NoFault'
    BY <1>1, <1>2, <2>2, <2>4, <2>5, IssueDone
  <2>7. CareKept
    <3>1. \A o \in Ids : Created(writes, wres, o) => Created(writes', wres', o)
      BY <1>1, <2>2, <2>4, CreatedKept
    <3>2. \A o \in Ids : ~Finishes(fin, o)
      BY <2>1 DEF Finishes
    <3>3. Finishes(fin', id)
      BY <2>2 DEF Finishes
    <3> QED BY <1>2, <2>1, <2>2, <3>1, <3>2, <3>3 DEF CareKept, Cares
  <2>8. WaitsCome
    BY <1>2, <2>1, <2>2, WaitsShrink
  <2> QED BY <1>3, <1>4, <2>1, <2>2, <2>6, <2>7, <2>8 DEF CareStep
<1>12. CASE FinCronStored
  <2> DEFINE q == AddQueue(queues, fin.id, fin.meta)
  <2>1. /\ fin.pc = "cron" /\ Holds(FinisherTag) /\ Return
        /\ fin.id \in Ids /\ fin.meta \in TaskMeta
    BY <1>1, <1>12, FinMeta DEF FinCronStored
  <2>2. fin.meta.deps \subseteq Known.stored
    BY <1>1, <2>1 DEF FinFits, Queueable, Lists, Sane
  <2>3. \/ /\ Enqueue(queues, FinisherTag, fin.id, fin.meta)
           /\ fin' = [fin EXCEPT !.pc = "resolve"]
        \/ /\ ~ChecksDeps(queues, fin.id, fin.meta)
           /\ Release(q, fin.id) /\ UNCHANGED probes
    BY <1>12 DEF FinCronStored
  <2>4. \A id \in Ids : Finishes(fin, id) => id = fin.id
    BY DEF Finishes
  <2>5. fin'.pc # "undep" => FinDone' /\ NoFault'
    BY <2>1, ReturnDone DEF Return
  <2>6. CASE /\ Enqueue(queues, FinisherTag, fin.id, fin.meta)
             /\ fin' = [fin EXCEPT !.pc = "resolve"]
    <3>1. WaitsOn(queues, queues)
      BY DEF WaitsOn
    <3>2. /\ WaitsCome /\ KeepsAll(queues, queues') /\ InQueues(queues', fin.id)
          /\ \A p \in probes' : p \in probes \/ p.who = FinisherTag
      BY <1>1, <1>2, <2>1, <2>2, <2>6, <3>1, EnqueueMoves
    <3>3. fin'.pc # "undep"
      <4>1. fin \in [pc : {"cron", "finish", "undep", "resolve"}, id : Ids, meta : TaskMeta]
        BY <1>1, <2>1 DEF TypeOK, FinState, FinIdle
      <4> QED BY <2>6, <4>1
    <3>4. CareKept
      BY <1>7, <2>1, <2>4, <3>2
    <3> QED BY <1>3, <1>4, <2>1, <2>5, <3>2, <3>3, <3>4, TagsDiffer DEF CareStep
  <2>7. CASE /\ ~ChecksDeps(queues, fin.id, fin.meta)
             /\ Release(q, fin.id) /\ UNCHANGED probes
    <3>1. /\ q \in QueueState /\ KeepsAll(queues, q) /\ InQueues(q, fin.id)
          /\ WaitsOn(queues, q)
      BY <1>1, <2>1, <2>7, AddQueueQuiet
    <3> HIDE DEF q
    <3>2. KeepsAll(q, queues') /\ WaitsOn(q, queues') /\ fin' = FinIdle
      BY <2>1, <2>7, <3>1, ReleaseMoves
    <3>3. KeepsAll(queues, queues') /\ InQueues(queues', fin.id)
      BY <2>1, <3>1, <3>2 DEF KeepsAll
    <3>4. WaitsOn(queues, queues')
      BY <3>1, <3>2, WaitsOnTwice
    <3>5. CareKept
      BY <1>7, <2>1, <2>4, <3>3
    <3>6. WaitsCome
      BY <1>2, <2>7, <3>4, WaitsShrink
    <3>7. fin'.pc # "undep"
      BY <3>2 DEF FinIdle
    <3> QED BY <1>3, <1>4, <2>1, <2>5, <2>7, <3>5, <3>6, <3>7 DEF CareStep
  <2> QED BY <2>3, <2>6, <2>7
<1>13. CASE FinResolves
  <2>1. PICK p \in probes : /\ p.answered /\ Release(AfterProbe(p), fin.id)
                            /\ probes' = probes \ {p}
    BY <1>13 DEF FinResolves, Resolved
  <2>2. fin.pc = "resolve" /\ fin.id \in Ids /\ UNCHANGED <<writes, wres>>
    BY <1>1, <1>13, FinMeta DEF FinResolves
  <2>3. AfterProbe(p) \in QueueState /\ KeepsAll(queues, AfterProbe(p))
    BY <1>1, AfterProbeKeeps
  <2>4. /\ KeepsAll(AfterProbe(p), queues') /\ WaitsOn(AfterProbe(p), queues')
        /\ fin' = FinIdle
    BY <2>1, <2>2, <2>3, ReleaseMoves
  <2>5. KeepsAll(queues, queues')
    BY <2>3, <2>4 DEF KeepsAll
  <2>6. WaitsCome
    BY <1>1, <1>2, <2>1, <2>4, ResolveMoves
  <2>7. FinDone' /\ NoFault'
    BY <1>1, <1>2, <2>2, <2>4, StayDone DEF FinIdle
  <2> QED BY <1>3, <1>4, <1>6, <2>1, <2>2, <2>5, <2>6, <2>7 DEF CareStep
<1>14. CASE FinRowStamped
  <2>1. /\ fin.pc = "finish" /\ Holds(FinisherTag) /\ wres = "ok" /\ wres' = "busy"
        /\ fin' = [fin EXCEPT !.pc = "undep"] /\ UNCHANGED <<queues, probes>>
    BY <1>14 DEF FinRowStamped, ReturnAndIssue
  <2>2. fin'.pc = "undep" /\ fin'.id = fin.id
    <3>1. fin \in [pc : {"cron", "finish", "undep", "resolve"}, id : Ids, meta : TaskMeta]
      BY <1>1, <2>1 DEF TypeOK, FinState, FinIdle
    <3> QED BY <2>1, <3>1
  <2>3. FinDone' /\ NoFault'
    BY <1>1, <1>2, <2>1, <2>2, ReturnDone DEF FinDone
  <2>4. CareKept
    <3>1. KeepsAll(queues, queues')
      BY <2>1 DEF KeepsAll
    <3>2. \A id \in Ids : Finishes(fin, id) => Undeps(fin', id)
      BY <2>2 DEF Finishes, Undeps
    <3> QED BY <1>7, <2>1, <3>1, <3>2
  <2> QED BY <1>2, <1>3, <1>4, <2>1, <2>3, <2>4, WaitsSame DEF CareStep
<1>15. CASE FinFinished
  <2>1. /\ Holds(FinisherTag) /\ Return /\ Release(queues, fin.id) /\ UNCHANGED probes
        /\ fin.pc = "undep" \/ (fin.pc = "finish" /\ wres = "failed")
    BY <1>15 DEF FinFinished
  <2>2. fin.pc = "undep"
    BY <1>1, <1>5, <2>1 DEF NoFault
  <2>3. fin.id \in Ids
    BY <1>1, <2>2, FinMeta
  <2>4. /\ KeepsAll(queues, queues') /\ WaitsOn(queues, queues') /\ fin' = FinIdle
        /\ \A w \in Ids : <<fin.id, w>> \in queues.dep => ~Awaits(queues', w, fin.id)
    BY <1>1, <2>1, <2>3, ReleaseMoves
  <2>5. UndepDone
    BY <2>4 DEF UndepDone
  <2>6. FinDone' /\ NoFault'
    BY <2>1, <2>4, ReturnDone DEF Return, FinIdle
  <2>7. CareKept
    BY <1>7, <2>1, <2>2, <2>4 DEF Finishes
  <2>8. WaitsCome
    BY <1>2, <2>1, <2>4, WaitsShrink
  <2> QED BY <1>3, <2>1, <2>5, <2>6, <2>7, <2>8 DEF CareStep
<1> QED BY <1>9, <1>10, <1>11, <1>12, <1>13, <1>14, <1>15 DEF FinStep

-----------------------------------------------------------------------------
(* The calls.                                                              *)

LEMMA CallMoves ==
    ASSUME UNCHANGED <<rows, fin, loader>>, NEW r \in Callers,
           \A o \in Callers : o # r => callers'[o] = callers[o],
           callers'[r].pc = "refresh" =>
             \A id \in Ids : id = callers'[r].id => InQueues(queues', id),
           \A id \in Ids : InQueues(queues, id) => Cares(id)',
           \A id \in Ids : Created(writes, wres, id) => Cares(id)',
           callers[r].pc \in {"setcron", "update"} =>
             \A id \in Ids : id = callers[r].id => Cares(id)',
           WaitsCome, \A p \in probes' : p.who = LoaderTag => p \in probes
    PROVE  Moves
<1>1. \A id \in Ids : Calls(callers, id) => Cares(id)'
  BY DEF Calls, Cares
<1>2. CareKept
  BY <1>1 DEF CareKept, Cares
<1>3. UndepDone
  BY DEF UndepDone
<1>4. \A o \in Callers, id \in Ids :
        callers'[o].pc = "refresh" /\ callers'[o].id = id =>
          callers'[o] = callers[o] \/ Cares(id)'
  BY DEF Cares
<1> QED BY <1>2, <1>3, <1>4, FutureMoves

LEMMA CareAsks ==
    ASSUME OneBodyInv, FaultFree, NEW r \in Callers, NEW rq \in Requests,
           CallerAsks(r, rq)
    PROVE  CareStep
<1>1. /\ callers[r].pc = "idle"
      /\ UNCHANGED <<queues, rows, fin, loader, writes, wres, probes>>
  BY DEF CallerAsks, Caller
<1>2. callers'[r].pc = "found" /\ \A o \in Callers : o # r => callers'[o] = callers[o]
  BY DEF CallerAsks, OneBodyInv, TypeOK
<1>3. FinDone' /\ NoFault'
  BY <1>1, StayDone DEF FaultFree
<1>4. WaitsCome
  BY <1>1, WaitsSame
<1>5. \A id \in Ids : InQueues(queues, id) \/ Created(writes, wres, id) => Cares(id)'
  BY <1>1 DEF Cares
<1>6. Moves
  BY <1>1, <1>2, <1>4, <1>5, CallMoves
<1> QED BY <1>3, <1>6 DEF CareStep

LEMMA CareCaller ==
    ASSUME MainCallers = {}, OneBodyInv, DepsInv, FaultFree,
           NEW r \in Callers, CallerStep(r)
    PROVE  CareStep
<1> DEFINE m == callers[r].meta
           id == callers[r].id
<1>1. /\ TypeOK /\ queues \in QueueState /\ NoFault /\ FinDone
      /\ CallersFit(callers, Known)
      /\ WritesFit(writes, Known, ended, callers, bodies, fin)
      /\ writes \in Seq(WriteRecord)
  BY DEF OneBodyInv, TypeOK, DepsInv, FaultFree
<1>2. UNCHANGED <<rows, fin, loader>>
  BY DEF CallerStep, CallerCreates, CallerFindsRunning, CallerFindsIdle, CallerClears,
         CallerFails, CallerRefreshed, CallerStoresCron, CallerQueues, CallerInserts,
         CallerResolves
<1>3. ~OnMain(r) /\ callers[r].pc \notin {"clear", "insert"}
  BY DEF OnMain, OneBodyInv, OnlyWorker
<1>4. wres' = "busy" => FinDone' /\ NoFault'
  BY <1>1, <1>2, ReturnDone DEF FinDone
<1>5. ASSUME NEW w \in WriteRecord, Issue(w)
      PROVE  /\ FinDone' /\ NoFault'
             /\ \A o \in Ids : Created(writes, wres, o) => Cares(o)'
  <2>1. FinDone' /\ NoFault'
    BY <1>1, <1>2, <1>5, IssueDone
  <2>2. \A o \in Ids : Created(writes, wres, o) => Created(writes', wres', o)
    BY <1>1, <1>5, CreatedKept
  <2> QED BY <2>1, <2>2 DEF Cares
<1>6. ASSUME Holds(CallerTag(r))
      PROVE  /\ \/ Head(writes).op = "create" /\ callers[r].pc = "create"
                \/ /\ Head(writes).op = "cron" /\ callers[r].pc = "setcron"
                   /\ Head(writes).id = callers[r].id
                \/ /\ Head(writes).op = "update" /\ callers[r].pc \in {"update", "refresh"}
                   /\ Head(writes).id = callers[r].id
             /\ wres = "ok" => /\ Head(writes).id \in Ids
                               /\ m.deps \subseteq Known.stored
  BY <1>1, <1>6, HeldByCaller DEF Lists, Sane
<1>7. UNCHANGED queues => \A o \in Ids : InQueues(queues, o) => Cares(o)'
  BY DEF Cares
<1>8. CASE CallerCreates(r)
  <2> DEFINE w == Write(CallerTag(r), "create", None, callers[r].key, m)
  <2>1. /\ callers[r].pc = "found" /\ Issue(w) /\ UNCHANGED <<queues, probes>>
        /\ callers' = [callers EXCEPT ![r].pc = "create"]
    BY <1>8 DEF CallerCreates, Caller, CallerMoves
  <2>2. w \in WriteRecord
    BY <1>1, <2>1, CallerMeta, TagTypes, WriteType
  <2>3. callers'[r].pc = "create" /\ \A o \in Callers : o # r => callers'[o] = callers[o]
    BY <1>1, <2>1, CallerMoved
  <2> HIDE DEF w
  <2>4. WaitsCome
    BY <1>2, <2>1, WaitsSame
  <2>5. \A o \in Ids : Created(writes, wres, o) => Cares(o)'
    BY <1>5, <2>1, <2>2
  <2>6. Moves
    BY <1>2, <1>7, <2>1, <2>3, <2>4, <2>5, CallMoves
  <2> QED BY <1>5, <2>1, <2>2, <2>6 DEF CareStep
<1>9. ASSUME CallerFindsRunning(r) \/ CallerFindsIdle(r)
      PROVE  /\ callers[r].pc = "found" /\ id \in Ids /\ m \in TaskMeta
             /\ UpdateRow(r) \in WriteRecord /\ Issue(UpdateRow(r)) /\ UNCHANGED probes
             /\ \A pc \in {"update", "refresh"} : CallerMoves(r, pc) =>
                  /\ callers'[r].pc = pc /\ callers'[r].id = id
                  /\ \A o \in Callers : o # r => callers'[o] = callers[o]
  <2>1. /\ callers[r].pc = "found" /\ id # None /\ UNCHANGED probes
        /\ Issue(UpdateRow(r))
    BY <1>3, <1>9 DEF CallerFindsRunning, CallerFindsIdle, Caller, ClearQueued
  <2>2. id \in Ids /\ m \in TaskMeta
    BY <1>1, <2>1, CallerMeta
  <2>3. UpdateRow(r) \in WriteRecord
    BY <2>2, TagTypes, WriteType DEF UpdateRow
  <2>4. \A pc \in {"update", "refresh"} : CallerMoves(r, pc) =>
          /\ callers'[r].pc = pc /\ callers'[r].id = id
          /\ \A o \in Callers : o # r => callers'[o] = callers[o]
    BY <1>1, <2>1, CallerMoved DEF CallerMoves
  <2> QED BY <2>1, <2>2, <2>3, <2>4
<1>10. CASE CallerFindsRunning(r)
  <2>1. /\ IsRunning(queues, id) /\ queues' = RequestInPlace(queues, id, m)
        /\ CallerMoves(r, "refresh")
    BY <1>10 DEF CallerFindsRunning
  <2>2. queues.run[id].rerun \in BOOLEAN
    BY <1>1, <1>9, <1>10, <2>1 DEF IsRunning, QueueState, Entry, TaskMeta
  <2>3. (queues.run[id].rerun \/ m.cron = "none") \in BOOLEAN
    BY <2>2
  <2>4. KeepsAll(queues, queues') /\ InQueues(queues', id) /\ WaitsOn(queues, queues')
    BY <1>1, <1>9, <1>10, <2>1, <2>3, RefreshKeeps DEF RequestInPlace
  <2>5. WaitsCome
    BY <1>2, <1>9, <1>10, <2>4, WaitsShrink
  <2>6. /\ callers[r].pc = "found" /\ callers'[r].pc = "refresh" /\ callers'[r].id = id
        /\ \A o \in Callers : o # r => callers'[o] = callers[o]
    BY <1>9, <1>10, <2>1
  <2>7. \A o \in Ids : InQueues(queues, o) => Cares(o)'
    BY <2>4 DEF KeepsAll, Cares
  <2>8. \A o \in Ids : o = callers'[r].id => InQueues(queues', o)
    BY <2>4, <2>6
  <2>9. \A o \in Ids : Created(writes, wres, o) => Cares(o)'
    BY <1>5, <1>9, <1>10
  <2>10. Moves
    BY <1>2, <1>9, <1>10, <2>5, <2>6, <2>7, <2>8, <2>9, CallMoves
  <2> QED BY <1>5, <1>9, <1>10, <2>10 DEF CareStep
<1>11. CASE CallerFindsIdle(r)
  <2>1. /\ CallerMoves(r, "update")
        /\ queues' = IF callers[r].changed THEN RemoveFromQueues(queues, id) ELSE queues
    BY <1>3, <1>11 DEF CallerFindsIdle, ClearQueued
  <2>2. /\ callers[r].pc = "found" /\ callers'[r].pc = "update" /\ callers'[r].id = id
        /\ \A o \in Callers : o # r => callers'[o] = callers[o]
    BY <1>9, <1>11, <2>1
  <2>3. /\ \A o \in Ids : o # id /\ InQueues(queues, o) => InQueues(queues', o)
        /\ WaitsOn(queues, queues')
    <3>1. CASE callers[r].changed
      BY <1>1, <1>9, <1>11, <2>1, <3>1, RemoveKeeps
    <3>2. CASE ~callers[r].changed
      BY <2>1, <3>2 DEF WaitsOn
    <3> QED BY <3>1, <3>2
  <2>4. Calls(callers', id)
    BY <2>2 DEF Calls
  <2>5. \A o \in Ids : InQueues(queues, o) => Cares(o)'
    BY <2>3, <2>4 DEF Cares
  <2>6. WaitsCome
    BY <1>2, <1>9, <1>11, <2>3, WaitsShrink
  <2>7. \A o \in Ids : Created(writes, wres, o) => Cares(o)'
    BY <1>5, <1>9, <1>11
  <2>8. Moves
    BY <1>2, <1>9, <1>11, <2>2, <2>5, <2>6, <2>7, CallMoves
  <2> QED BY <1>5, <1>9, <1>11, <2>8 DEF CareStep
<1>12. ASSUME CallerReturns(r)
       PROVE  callers'[r].pc = "idle" /\ \A o \in Callers : o # r => callers'[o] = callers[o]
  BY <1>1, <1>12 DEF CallerReturns, TypeOK, Idle
<1>13. CASE CallerFails(r) \/ CallerRefreshed(r)
  <2>1. /\ Holds(CallerTag(r)) /\ Return /\ CallerReturns(r) /\ UNCHANGED <<queues, probes>>
        /\ wres = "failed" \/ callers[r].pc = "refresh"
    BY <1>13 DEF CallerFails, CallerRefreshed, Caller
  <2>2. wres = "failed" => Head(writes).op = "create"
    BY <1>1 DEF NoFault
  <2>3. /\ \A o \in Ids : ~Created(writes, wres, o)
        /\ callers[r].pc \notin {"setcron", "update"}
    BY <1>6, <2>1, <2>2 DEF Created
  <2>4. WaitsCome
    BY <1>2, <2>1, WaitsSame
  <2>5. Moves
    BY <1>2, <1>7, <1>12, <2>1, <2>3, <2>4, CallMoves
  <2> QED BY <1>4, <2>1, <2>5 DEF CareStep, Return
<1>14. CASE CallerStoresCron(r)
  <2> DEFINE h == Head(writes).id
  <2>1. /\ callers[r].pc = "create" /\ Holds(CallerTag(r)) /\ wres = "ok" /\ wres' = "busy"
        /\ callers' = [callers EXCEPT ![r].pc = "setcron", ![r].id = h]
        /\ UNCHANGED <<queues, probes>>
    BY <1>14 DEF CallerStoresCron, StoresCron, Caller, ReturnAndIssue
  <2> HIDE DEF h
  <2>2. /\ callers'[r].pc = "setcron" /\ callers'[r].id = h
        /\ \A o \in Callers : o # r => callers'[o] = callers[o]
    BY <1>1, <2>1, CallerMovedTo
  <2>3. Calls(callers', h)
    BY <2>2 DEF Calls
  <2>4. \A o \in Ids : Created(writes, wres, o) => Cares(o)'
    BY <2>3 DEF Created, Cares, h
  <2>5. WaitsCome
    BY <1>2, <2>1, WaitsSame
  <2>6. Moves
    BY <1>2, <1>7, <2>1, <2>2, <2>4, <2>5, CallMoves
  <2> QED BY <1>4, <2>1, <2>6 DEF CareStep
<1>15. CASE CallerQueues(r)
  <2> DEFINE h == Head(writes).id
  <2>1. /\ callers[r].pc \in {"create", "setcron", "update"} /\ Holds(CallerTag(r))
        /\ wres = "ok" /\ Return /\ Enqueue(queues, CallerTag(r), h, m)
        /\ \/ callers' = [callers EXCEPT ![r].pc = "resolve", ![r].id = h]
           \/ CallerReturns(r)
    BY <1>3, <1>15 DEF CallerQueues, CallerReturns
  <2>2. h \in Ids /\ m \in TaskMeta /\ m.deps \subseteq Known.stored
    BY <1>1, <1>6, <2>1, CallerMeta
  <2>3. callers[r].pc \in {"setcron", "update"} => id = h
    BY <1>6, <2>1
  <2>4. \A o \in Ids : Created(writes, wres, o) => o = h
    BY DEF Created
  <2> HIDE DEF h
  <2>5. WaitsOn(queues, queues)
    BY DEF WaitsOn
  <2>6. /\ WaitsCome /\ KeepsAll(queues, queues') /\ InQueues(queues', h)
        /\ \A p \in probes' : p \in probes \/ p.who = CallerTag(r)
    BY <1>1, <1>2, <2>1, <2>2, <2>5, EnqueueMoves
  <2>7. callers'[r].pc # "refresh" /\ \A o \in Callers : o # r => callers'[o] = callers[o]
    <3>1. CASE callers' = [callers EXCEPT ![r].pc = "resolve", ![r].id = h]
      <4>1. callers[r].pc # "idle"
        BY <2>1
      <4>2. /\ callers'[r].pc = "resolve"
            /\ \A o \in Callers : o # r => callers'[o] = callers[o]
        BY <1>1, <3>1, <4>1, CallerMovedTo
      <4> QED BY <4>2
    <3>2. CASE CallerReturns(r)
      BY <1>12, <3>2
    <3> QED BY <2>1, <3>1, <3>2
  <2>8. \A o \in Ids : InQueues(queues, o) \/ o = h => Cares(o)'
    BY <2>6 DEF KeepsAll, Cares
  <2>9. \A p \in probes' : p.who = LoaderTag => p \in probes
    BY <2>6, TagsDiffer
  <2>10. Moves
    BY <1>2, <2>3, <2>4, <2>6, <2>7, <2>8, <2>9, CallMoves
  <2> QED BY <1>4, <2>1, <2>10 DEF CareStep, Return
<1>16. CASE CallerResolves(r)
  <2>1. PICK p \in probes : /\ p.answered /\ queues' = AfterProbe(p)
                            /\ probes' = probes \ {p}
    BY <1>16 DEF CallerResolves, Resolved
  <2>2. callers[r].pc = "resolve" /\ CallerReturns(r) /\ UNCHANGED <<writes, wres>>
    BY <1>16 DEF CallerResolves, Caller
  <2>3. KeepsAll(queues, queues')
    BY <1>1, <2>1, AfterProbeKeeps
  <2>4. WaitsOn(AfterProbe(p), queues')
    BY <2>1 DEF WaitsOn
  <2>5. WaitsCome
    BY <1>1, <1>2, <2>1, <2>4, ResolveMoves
  <2>6. FinDone' /\ NoFault'
    BY <1>1, <1>2, <2>2, StayDone
  <2>7. \A o \in Ids : InQueues(queues, o) \/ Created(writes, wres, o) => Cares(o)'
    BY <2>2, <2>3 DEF KeepsAll, Cares
  <2>8. Moves
    BY <1>2, <1>12, <2>1, <2>2, <2>5, <2>7, CallMoves
  <2> QED BY <2>6, <2>8 DEF CareStep
<1>17. ~CallerClears(r) /\ ~CallerInserts(r)
  BY <1>3 DEF CallerClears, CallerInserts, Caller
<1> QED BY <1>8, <1>10, <1>11, <1>13, <1>14, <1>15, <1>16, <1>17 DEF CallerStep

-----------------------------------------------------------------------------
(* The loader.                                                             *)

(* Once a row is behind the loader, somebody cares for it.                 *)
LEMMA LoadedMoves ==
    ASSUME loader \in LoaderState, NEW id \in Ids, loader' = LoadedRow(id),
           loader.pc # "start",
           Pending(rows', id) /\ Buildable(rows'[id]) => Cares(id)'
    PROVE  LoaderKeeps /\ SnapsCome
<1>1. /\ loader'.todo = loader.todo \ {id}
      /\ \A o \in Ids : o # id /\ o \in loader'.todo => loader'.snap[o] = loader.snap[o]
  BY DEF LoadedRow, Unloaded, LoaderState, Table
<1>2. loader.todo \subseteq Ids
  BY DEF LoaderState
<1> QED BY <1>1, <1>2 DEF LoaderKeeps, SnapsCome

LEMMA CareLoader ==
    ASSUME OneBodyInv, DepsInv, FaultFree, LoaderStep
    PROVE  CareStep
<1>1. /\ TypeOK /\ queues \in QueueState /\ NoFault /\ FinDone
      /\ loader \in LoaderState
      /\ RowsFit(Known, loader.todo, loader.snap)
  BY DEF OneBodyInv, TypeOK, DepsInv, FaultFree
<1>2. UNCHANGED <<rows, callers, fin, writes, wres>>
  BY DEF LoaderStep, LoaderReads, LoaderSkips, LoaderQueues, LoaderResolves
<1>3. FinDone' /\ NoFault'
  BY <1>1, <1>2, StayDone
<1>4. ASSUME KeepsAll(queues, queues'), WaitsCome, LoaderKeeps, SnapsCome,
             \A p \in probes' : p.who = LoaderTag =>
               p \in probes \/ \A o \in Ids : o = p.id => InQueues(queues', o)
      PROVE  CareStep
  <2>1. CareKept
    BY <1>2, <1>4 DEF CareKept, Cares, KeepsAll
  <2>2. UndepDone /\ RefreshCome
    BY <1>2 DEF UndepDone, RefreshCome
  <2>3. ProbesCome
    <3>1. SUFFICES ASSUME NEW p \in probes', p.who = LoaderTag, p \notin probes,
                          NEW o, o = p.id
                   PROVE  Cares(o)'
      BY DEF ProbesCome
    <3>2. TypeOK'
      BY <1>1, TypeLoader
    <3>3. o \in Ids
      BY <3>1, <3>2 DEF TypeOK, ProbeRecord
    <3> QED BY <1>4, <3>1, <3>3 DEF Cares
  <2>4. RowsCome /\ RowsGo
    BY <1>2, RowsSame
  <2> QED BY <1>3, <1>4, <2>1, <2>2, <2>3, <2>4 DEF CareStep, Moves
<1>5. UNCHANGED <<queues, probes>> => KeepsAll(queues, queues') /\ WaitsCome
  BY <1>2, WaitsSame DEF KeepsAll
<1>6. CASE LoaderReads
  <2>1. loader.pc = "start" /\ UNCHANGED <<queues, probes>>
    BY <1>6 DEF LoaderReads
  <2>2. /\ \A id \in Ids : Pending(rows, id) => id \in loader'.todo
        /\ \A id \in loader'.todo : loader'.snap[id] = rows[id]
    BY <1>6 DEF LoaderReads, Unloaded
  <2>3. LoaderKeeps /\ SnapsCome
    BY <1>2, <2>2 DEF LoaderKeeps, SnapsCome, SameInput
  <2> QED BY <1>4, <1>5, <2>1, <2>3
<1>7. ASSUME NEW id \in Ids, LoaderSkips(id)
      PROVE  CareStep
  <2>1. /\ loader.pc = "loop" /\ id \in loader.todo
        /\ ~Buildable(loader.snap[id])
        /\ loader' = LoadedRow(id) /\ UNCHANGED <<queues, probes>>
    BY <1>7 DEF LoaderSkips
  <2>2. Pending(rows, id) /\ Buildable(rows[id]) => Cares(id)
    BY <2>1 DEF FaultFree, SnapsCared, SameInput, Buildable
  <2>3. Cares(id) => Cares(id)'
    BY <1>2, <2>1 DEF Cares
  <2>4. LoaderKeeps /\ SnapsCome
    BY <1>1, <1>2, <2>1, <2>2, <2>3, LoadedMoves
  <2> QED BY <1>4, <1>5, <2>1, <2>4
<1>8. ASSUME NEW id \in Ids, LoaderQueues(id)
      PROVE  CareStep
  <2> DEFINE m == LoadedMeta(loader.snap[id])
  <2>1. /\ loader.pc = "loop" /\ id \in loader.todo /\ Enqueue(queues, LoaderTag, id, m)
        /\ \/ loader' = [loader EXCEPT !.pc = "resolve"]
           \/ loader' = LoadedRow(id)
    BY <1>8 DEF LoaderQueues
  <2>2. loader.snap[id] \in Row /\ Lists(loader.snap[id], id, Known)
    BY <1>1, <2>1 DEF TypeOK, LoaderState, Table, RowsFit
  <2>3. m \in TaskMeta /\ m.deps \subseteq Known.stored
    BY <2>2 DEF LoadedMeta, Row, TaskMeta, Lists, Sane
  <2>4. \A p \in probes' : p \in probes \/ p.id = id
    BY <2>1 DEF Enqueue, Probe
  <2> HIDE DEF m
  <2>5. WaitsOn(queues, queues)
    BY DEF WaitsOn
  <2>6. WaitsCome /\ KeepsAll(queues, queues') /\ InQueues(queues', id)
    BY <1>1, <1>2, <2>1, <2>3, <2>5, EnqueueMoves
  <2>7. LoaderKeeps /\ SnapsCome
    <3>1. Cares(id)'
      BY <2>6 DEF Cares
    <3>2. CASE loader' = [loader EXCEPT !.pc = "resolve"]
      <4>1. loader'.todo = loader.todo /\ loader'.snap = loader.snap
        BY <1>1, <3>2 DEF LoaderState
      <4> QED BY <2>1, <4>1 DEF LoaderKeeps, SnapsCome
    <3>3. CASE loader' = LoadedRow(id)
      BY <1>1, <2>1, <3>1, <3>3, LoadedMoves
    <3> QED BY <2>1, <3>2, <3>3
  <2> QED BY <1>4, <2>4, <2>6, <2>7
<1>9. CASE LoaderResolves
  <2>1. PICK p \in probes : /\ p.who = LoaderTag /\ p.answered
                            /\ queues' = AfterProbe(p) /\ probes' = probes \ {p}
                            /\ loader' = LoadedRow(p.id)
    BY <1>9 DEF LoaderResolves, Resolved
  <2>2. loader.pc = "resolve" /\ p.id \in Ids
    BY <1>1, <1>9 DEF LoaderResolves, TypeOK, ProbeRecord
  <2>3. KeepsAll(queues, queues')
    BY <1>1, <2>1, AfterProbeKeeps
  <2>4. WaitsOn(AfterProbe(p), queues')
    BY <2>1 DEF WaitsOn
  <2>5. WaitsCome
    BY <1>1, <1>2, <2>1, <2>4, ResolveMoves
  <2>6. PICK id \in Ids : id = p.id
    BY <2>2
  <2>7. Pending(rows, id) => Cares(id)
    BY <2>1, <2>6 DEF FaultFree, ProbesCared
  <2>8. Cares(id) => Cares(id)'
    BY <1>2, <2>3 DEF Cares, KeepsAll
  <2>9. LoaderKeeps /\ SnapsCome
    BY <1>1, <1>2, <2>1, <2>2, <2>6, <2>7, <2>8, LoadedMoves
  <2> QED BY <1>4, <2>1, <2>3, <2>5, <2>9
<1> QED BY <1>6, <1>7, <1>8, <1>9 DEF LoaderStep

-----------------------------------------------------------------------------
(* The store.                                                              *)

(* Only an UPDATE of its own row changes what a task will run with.        *)
LEMMA EffectInput ==
    ASSUME rows \in Table, NEW w \in WriteRecord, w.op # "create", w.id \in Ids,
           NEW o \in Ids, rows[o] # None
    PROVE  SameInput(Effect(w)[o], rows[o]) \/ (w.op = "update" /\ o = w.id)
<1> DEFINE row == rows[o]
<1>1. /\ row \in Row
      /\ w.op \in {"cron", "update", "finish", "undep", "postpone", "fail"}
  BY RowType DEF WriteRecord
<1>2. ASSUME NEW r2, SameInput(r2, row)
      PROVE  SameInput(Change(rows, w.id, r2)[o], row) \/ o # w.id
  BY <1>2 DEF Change, Table
<1>3. SameInput(row, row) /\ \A r2 : o # w.id => Change(rows, w.id, r2)[o] = row
  BY DEF Change, Table, SameInput
<1>4. CASE w.op = "cron"
  <2> DEFINE r2 == [rows[w.id] EXCEPT !.cron = w.meta.cron]
  <2>1. Effect(w) = Change(rows, w.id, r2)
    BY <1>4 DEF Effect, StoreCron
  <2>2. o = w.id => SameInput(r2, row)
    BY <1>1 DEF Row, SameInput
  <2> HIDE DEF r2
  <2> QED BY <1>2, <1>3, <2>1, <2>2
<1>5. CASE w.op = "undep"
  <2>1. Effect(w)[o] = ForgetDep(row, w.id)
    BY <1>5 DEF Effect, DropDependency
  <2>2. SameInput(ForgetDep(row, w.id), row)
    BY <1>1 DEF ForgetDep, Row, SameInput
  <2> QED BY <2>1, <2>2
<1>6. ASSUME NEW s
      PROVE  SameInput(StampIfPending(rows, w.id, s)[o], row)
  <2> DEFINE r2 == [rows[w.id] EXCEPT !.status = s, !.next = "now"]
  <2>1. StampIfPending(rows, w.id, s) = IF Pending(rows, w.id) THEN Change(rows, w.id, r2)
                                                              ELSE rows
    BY DEF StampIfPending
  <2>2. o = w.id => SameInput(r2, row)
    BY <1>1 DEF Row, SameInput
  <2> HIDE DEF r2
  <2> QED BY <1>2, <1>3, <2>1, <2>2
<1>7. CASE w.op = "finish" \/ w.op = "fail"
  <2>1. \E s : Effect(w) = StampIfPending(rows, w.id, s)
    BY <1>7 DEF Effect, MarkFinished, MarkFailed
  <2> QED BY <1>6, <2>1
<1>8. CASE w.op = "postpone"
  <2> DEFINE r2 == [rows[w.id] EXCEPT !.next = "later"]
  <2>1. Effect(w) = IF Pending(rows, w.id) THEN Change(rows, w.id, r2) ELSE rows
    BY <1>8 DEF Effect, Postpone
  <2>2. o = w.id => SameInput(r2, row)
    BY <1>1 DEF Row, SameInput
  <2> HIDE DEF r2
  <2> QED BY <1>2, <1>3, <2>1, <2>2
<1>9. CASE w.op = "update"
  <2>1. \E r2 : Effect(w) = Change(rows, w.id, r2)
    BY <1>9 DEF Effect, UpdateTask
  <2> QED BY <1>3, <1>9, <2>1
<1> QED BY <1>1, <1>4, <1>5, <1>7, <1>8, <1>9

LEMMA FinishCloses ==
    ASSUME rows \in Table, NEW w \in WriteRecord, w.op = "finish", w.id \in Ids
    PROVE  ~Pending(Effect(w), w.id)
<1> DEFINE r2 == [rows[w.id] EXCEPT !.status = "F", !.next = "now"]
<1>1. Effect(w) = IF Pending(rows, w.id) THEN Change(rows, w.id, r2) ELSE rows
  BY DEF Effect, MarkFinished, StampIfPending
<1>2. ASSUME Pending(rows, w.id)
      PROVE  r2.status = "F"
  <2>1. rows[w.id] \in Row
    BY <1>2, RowType DEF Pending
  <2> QED BY <2>1 DEF Row
<1>3. Pending(rows, w.id) => Change(rows, w.id, r2)[w.id] = r2
  BY DEF Change, Pending, Table
<1> HIDE DEF r2
<1> QED BY <1>1, <1>2, <1>3 DEF Pending

LEMMA StoreMoves ==
    ASSUME UNCHANGED <<queues, callers, fin, loader, probes>>,
           \A id \in Ids : ~Created(writes, wres, id),
           RowsCome, RowsGo, \A d \in Ids : Over(rows, d) => Over(rows', d)
    PROVE  Moves
<1>1. CareKept
  BY DEF CareKept, Cares
<1>2. WaitsCome
  <2>1. SUFFICES ASSUME NEW w \in Ids, NEW d \in Ids, Reports(probes, rows, w, d)
                 PROVE  Reports(probes, rows', w, d)
    BY DEF WaitsCome
  <2> QED BY <2>1 DEF Reports
<1>3. UndepDone /\ ProbesCome /\ RefreshCome
  BY DEF UndepDone, ProbesCome, RefreshCome
<1> QED BY <1>1, <1>2, <1>3, LoaderSame DEF Moves

LEMMA CareEffect ==
    ASSUME OneBodyInv, DepsInv, FaultFree, WriteEffect
    PROVE  CareStep
<1>1. PICK w \in WriteRecord :
             /\ w.id \in Ids /\ rows' = Effect(w) /\ writes' = [writes EXCEPT ![1] = w]
             /\ w.op = Head(writes).op /\ w.who = Head(writes).who
             /\ w.meta = Head(writes).meta
             /\ Sane(w.meta, Known)
             /\ IF w.op = "create"
                  THEN /\ rows[w.id] = None
                       /\ asked' = [asked EXCEPT ![w.id] =
                                 [deps |-> w.meta.deps, retry |-> w.meta.retry]]
                  ELSE /\ w = Head(writes) /\ WriteFits(w, Known, ended)
                       /\ asked' = asked
  BY EffectHead DEF OneBodyInv
<1>2. /\ UNCHANGED <<queues, events, bodies, callers, fin, loader, probes, ended>>
      /\ writes # <<>> /\ wres = "busy" /\ wres' = "ok"
  BY DEF WriteEffect
<1>3. /\ TypeOK /\ rows \in Table /\ FinDone /\ writes \in Seq(WriteRecord)
      /\ FinFits(fin, Known, ended)
  BY DEF OneBodyInv, TypeOK, FaultFree, DepsInv
<1>4. \A id \in Ids : ~Created(writes, wres, id)
  BY <1>2 DEF Created
<1>5. Head(writes') = w /\ writes' # <<>>
  BY <1>1, <1>2, <1>3
<1>6. Owned(Head(writes), callers, bodies, fin)
  BY <1>2, <1>3, HeadOwned
<1>7. NoFault'
  BY <1>2 DEF NoFault
<1>8. w.who = FinisherTag =>
        /\ fin.pc \in {"cron", "finish", "undep"} /\ Head(writes).id = fin.id
        /\ \/ w.op = "update" /\ fin.pc = "cron"
           \/ w.op \in {"finish", "undep"} /\ fin.pc = w.op
  BY <1>1, <1>6, OwnedMeans
<1>9. CASE w.op = "create"
  <2>1. rows' = CreateTask(rows, w.id, w.key, w.meta) /\ rows[w.id] = None
    BY <1>1, <1>9 DEF Effect
  <2>2. \A o \in Ids \ {w.id} : rows'[o] = rows[o]
    BY <1>1, <1>2, <1>3, <1>9, <2>1, CreateKnown
  <2>3. RowsCome
    <3>1. \A o \in Ids : o = w.id => Cares(o)'
      BY <1>2, <1>5, <1>9 DEF Cares, Created
    <3> QED BY <2>2, <3>1 DEF RowsCome, Pending, SameInput
  <2>4. RowsGo /\ \A d \in Ids : Over(rows, d) => Over(rows', d)
    BY <2>1, <2>2 DEF RowsGo, Pending, Over
  <2>5. FinDone'
    <3>1. fin.pc = "undep" => fin.id \in Ids /\ fin.id # w.id
      BY <1>3, <2>1, FinMeta DEF FinFits, Queueable, Lists, Known
    <3>2. ~Holds(FinisherTag)'
      BY <1>5, <1>8, <1>9 DEF Holds
    <3> QED BY <1>2, <1>3, <2>2, <3>1, <3>2 DEF FinDone, Pending
  <2>6. Moves
    BY <1>2, <1>4, <2>3, <2>4, StoreMoves
  <2> QED BY <1>7, <2>5, <2>6 DEF CareStep
<1>10. CASE w.op # "create"
  <2>1. w = Head(writes) /\ WriteFits(w, Known, ended) /\ UNCHANGED <<asked, ended>>
    BY <1>1, <1>2, <1>10
  <2>2. /\ Known'.stored = Known.stored
        /\ \A o \in Known.stored :
             \/ rows'[o].status = rows[o].status
             \/ /\ rows[o].status = "P" /\ o = w.id
                /\ \/ w.op = "finish" /\ rows'[o].status = "F"
                   \/ w.op = "fail" /\ rows'[o].status = "E"
    BY <1>1, <1>3, <1>10, <2>1, EffectKnown
  <2>3. \A o \in Ids : /\ rows[o] = None <=> rows'[o] = None
                       /\ o \in Known.stored <=> rows[o] # None
    BY <2>2 DEF Known
  <2>4. \A o \in Ids : Pending(rows', o) => Pending(rows, o)
    BY <2>2, <2>3 DEF Pending
  <2>5. \A d \in Ids : Over(rows, d) => Over(rows', d)
    BY <2>2, <2>3 DEF Over
  <2>6. w.op = "update" =>
          \/ \E r \in Callers : callers[r].pc \in {"update", "refresh"} /\ callers[r].id = w.id
          \/ fin.pc = "cron" /\ fin.id = w.id
    BY <1>6, <2>1 DEF Owned, CallerOwns, BodyOwns, FinOwns
  <2>7. RowsCome
    <3>1. SUFFICES ASSUME NEW o \in Ids, Pending(rows', o),
                          ~SameInput(rows'[o], rows[o])
                   PROVE  Cares(o)'
      BY <2>4 DEF RowsCome
    <3>2. Pending(rows, o) /\ rows[o] # None
      BY <2>4, <3>1 DEF Pending
    <3>3. w.op = "update" /\ o = w.id
      BY <1>1, <1>3, <1>10, <3>1, <3>2, EffectInput
    <3>4. Cares(o) => Cares(o)'
      BY <1>2, <1>4 DEF Cares
    <3>5. Cares(o)
      <4>1. CASE fin.pc = "cron" /\ fin.id = w.id
        BY <3>3, <4>1 DEF Cares, Finishes
      <4>2. ASSUME NEW r \in Callers, callers[r].pc = "update", callers[r].id = w.id
            PROVE  Cares(o)
        BY <3>3, <4>2 DEF Cares, Calls
      <4>3. ASSUME NEW r \in Callers, callers[r].pc = "refresh", callers[r].id = w.id
            PROVE  Cares(o)
        BY <3>2, <3>3, <4>3 DEF FaultFree, RefreshCared
      <4> QED BY <2>6, <3>3, <4>1, <4>2, <4>3
    <3> QED BY <3>4, <3>5
  <2>8. RowsGo
    <3>1. SUFFICES ASSUME NEW o \in Ids, Pending(rows, o), ~Pending(rows', o)
                   PROVE  Cares(o)
      BY DEF RowsGo
    <3>2. o = w.id /\ w.op \in {"finish", "fail"}
      BY <2>2, <2>3, <3>1 DEF Pending
    <3>3. \/ w.op = "finish" /\ fin.pc = "finish" /\ fin.id = w.id
          \/ \E b \in Bodies : w.id = b[1] /\ bodies[b].pc = "failing"
      BY <1>6, <2>1, <3>2 DEF Owned, CallerOwns, BodyOwns, FinOwns
    <3>4. ASSUME NEW b \in Bodies, w.id = b[1], bodies[b].pc = "failing"
          PROVE  Cares(o)
      <4>1. b[1] \in Ids /\ b[2] \in Lanes /\ b = <<b[1], b[2]>> /\ Exec(bodies, b)
        BY <3>4, BodiesType DEF Exec
      <4>2. BodiesSound(bodies, RunningIds(queues), events)
        BY DEF OneBodyInv, Sound
      <4>3. o \in RunningIds(queues)
        BY <3>2, <3>4, <4>1, <4>2 DEF BodiesSound
      <4> QED BY <4>3 DEF RunningIds, Cares, InQueues
    <3> QED BY <3>2, <3>3, <3>4 DEF Cares, Finishes
  <2>9. FinDone'
    <3>1. fin.pc = "undep" => fin.id \in Ids
      BY <1>3, FinMeta
    <3>2. fin.pc = "finish" /\ Holds(FinisherTag)' => w.op = "finish" /\ w.id = fin.id
      BY <1>5, <1>8, <2>1 DEF Holds
    <3>3. w.op = "finish" => ~Pending(rows', w.id)
      BY <1>1, <1>3, FinishCloses
    <3> QED BY <1>2, <1>3, <2>4, <3>1, <3>2, <3>3 DEF FinDone
  <2>10. Moves
    BY <1>2, <1>4, <2>5, <2>7, <2>8, StoreMoves
  <2> QED BY <1>7, <2>9, <2>10 DEF CareStep
<1> QED BY <1>9, <1>10

LEMMA CareStore ==
    ASSUME OneBodyInv, DepsInv, FaultFree, StoreStep, counts'.faults = 0
    PROVE  CareStep
<1>1. TypeOK /\ FinDone /\ NoFault
  BY DEF OneBodyInv, FaultFree
<1>2. CASE WriteFails
  <2>1. /\ UNCHANGED <<queues, rows, callers, fin, loader, writes, probes>>
        /\ writes # <<>> /\ wres = "busy" /\ wres' = "failed"
    BY <1>2 DEF WriteFails
  <2>2. Head(writes).op = "create"
    <3>1. counts' = [counts EXCEPT !.faults = @ + 1] => counts'.faults # 0
      BY <1>1 DEF TypeOK, CountState
    <3> QED BY <1>2, <3>1 DEF WriteFails
  <2>3. FinDone' /\ NoFault'
    BY <1>1, <2>1, <2>2 DEF FinDone, NoFault
  <2>4. Moves
    BY <2>1, RowsSame, StoreMoves DEF Created
  <2> QED BY <2>3, <2>4 DEF CareStep
<1>3. ASSUME NEW p \in probes, ProbeAnswered(p)
      PROVE  CareStep
  <2> DEFINE a == [p EXCEPT !.answered = TRUE, !.completed = FindCompleted(rows, p.deps)]
  <2>1. /\ UNCHANGED <<queues, rows, callers, fin, loader, writes, wres>>
        /\ p.answered = FALSE /\ probes' = (probes \ {p}) \cup {a}
    <3>1. p.answered \in BOOLEAN
      BY <1>1 DEF TypeOK, ProbeRecord
    <3> QED BY <1>3, <3>1 DEF ProbeAnswered
  <2>2. /\ a.who = p.who /\ a.id = p.id /\ a.deps = p.deps /\ a.answered = TRUE
        /\ a.completed = {d \in p.deps : Over(rows, d)}
    BY <1>1 DEF TypeOK, ProbeRecord, FindCompleted, Over
  <2> HIDE DEF a
  <2>3. FinDone' /\ NoFault'
    BY <1>1, <2>1, StayDone
  <2>4. WaitsCome
    <3>1. SUFFICES ASSUME NEW w \in Ids, NEW d \in Ids, Reports(probes, rows, w, d)
                   PROVE  Reports(probes', rows, w, d)
      BY <2>1 DEF WaitsCome
    <3>2. PICK q \in probes : /\ q.id = w /\ d \in q.deps
                              /\ IF q.answered THEN d \in q.completed ELSE Over(rows, d)
      BY <3>1 DEF Reports
    <3>3. CASE q = p
      BY <2>1, <2>2, <3>2, <3>3 DEF Reports
    <3>4. CASE q # p
      BY <2>1, <3>2, <3>4 DEF Reports
    <3> QED BY <3>3, <3>4
  <2>5. CareKept /\ UndepDone /\ RefreshCome
    BY <2>1 DEF CareKept, Cares, UndepDone, RefreshCome
  <2>6. ProbesCome
    BY <2>1, <2>2 DEF ProbesCome
  <2> QED BY <2>1, <2>3, <2>4, <2>5, <2>6, RowsSame, LoaderSame DEF CareStep, Moves
<1> QED BY <1>2, <1>3, CareEffect DEF StoreStep

-----------------------------------------------------------------------------
(* The first state, the restart, and every step.                           *)

LEMMA CareInit ==
    ASSUME Init
    PROVE  CareInv
<1>1. /\ queues = EmptyQueues /\ callers = [r \in Callers |-> Idle] /\ fin = FinIdle
      /\ loader = Unloaded /\ writes = <<>> /\ wres = "busy" /\ probes = {}
  BY DEF Init
<1>2. RunHeld
  BY <1>1, EmptyExclusive DEF RunHeld, Held
<1>3. FinDone /\ NoFault
  BY <1>1 DEF FinDone, NoFault, FinIdle
<1>4. RowsCared /\ SnapsCared /\ ProbesCared
  BY <1>1 DEF RowsCared, SnapsCared, ProbesCared, Unloaded
<1>5. RefreshCared
  BY <1>1 DEF RefreshCared, Idle
<1>6. WaitsCared
  BY <1>1 DEF WaitsCared, Awaits, IsWaiting, EmptyQueues
<1> QED BY <1>2, <1>3, <1>4, <1>5, <1>6 DEF CareInv, FaultFree

LEMMA CareCrash ==
    ASSUME Crash
    PROVE  CareInv'
<1>1. /\ queues' = EmptyQueues /\ callers' = [r \in Callers |-> Idle] /\ fin' = FinIdle
      /\ loader' = Unloaded /\ writes' = <<>> /\ wres' = "busy" /\ probes' = {}
  BY DEF Crash
<1>2. RunHeld'
  BY <1>1, EmptyExclusive DEF RunHeld, Held
<1>3. FinDone' /\ NoFault'
  BY <1>1 DEF FinDone, NoFault, FinIdle
<1>4. RowsCared' /\ SnapsCared' /\ ProbesCared'
  BY <1>1 DEF RowsCared, SnapsCared, ProbesCared, Unloaded
<1>5. RefreshCared'
  BY <1>1 DEF RefreshCared, Idle
<1>6. WaitsCared'
  BY <1>1 DEF WaitsCared, Awaits, IsWaiting, EmptyQueues
<1> QED BY <1>2, <1>3, <1>4, <1>5, <1>6 DEF CareInv, FaultFree

LEMMA CareNext ==
    ASSUME MainCallers = {}, OneBodyInv, OneBodyInv', DepsInv, CareInv, [Next]_vars
    PROVE  CareInv'
<1>1. CASE UNCHANGED vars
  <2>1. RunHeld' <=> RunHeld
    BY <1>1 DEF vars, RunHeld
  <2>2. (FinDone' <=> FinDone) /\ (NoFault' <=> NoFault) /\ (RowsCared' <=> RowsCared)
    BY <1>1 DEF vars, FinDone, Holds, NoFault, RowsCared, Cares
  <2>3. (SnapsCared' <=> SnapsCared) /\ (RefreshCared' <=> RefreshCared)
        /\ (ProbesCared' <=> ProbesCared) /\ (WaitsCared' <=> WaitsCared)
    BY <1>1 DEF vars, SnapsCared, RefreshCared, ProbesCared, WaitsCared, Cares
  <2> QED BY <1>1, <2>1, <2>2, <2>3 DEF vars, CareInv, FaultFree
<1>2. CASE Crash
  BY <1>2, CareCrash
<1>3. CASE Next /\ ~Crash
  <2>1. RunHeld'
    <3>1. StoreStep \/ (\E r \in Callers, rq \in Requests : CallerAsks(r, rq))
            => UNCHANGED <<queues, bodies, events>>
      BY DEF StoreStep, WriteEffect, WriteFails, ProbeAnswered, CallerAsks
    <3>2. UNCHANGED <<queues, bodies, events>> => RunHeld'
      BY DEF CareInv, RunHeld
    <3> QED BY <1>3, <3>1, <3>2, HeldDispatch, HeldBody, HeldFin, HeldCaller, HeldLoader
            DEF Next, CareInv
  <2>2. ASSUME counts'.faults = 0
        PROVE  FaultFree'
    <3>1. counts.faults = 0
      <4>1. counts \in CountState
        BY DEF OneBodyInv, TypeOK
      <4>2. \/ counts' = counts
            \/ counts' = [counts EXCEPT !.faults = @ + 1]
            \/ counts' = [counts EXCEPT !.requests = @ + 1]
        BY <1>3 DEF Next, StoreStep, WriteEffect, WriteFails, ProbeAnswered, Dispatch,
           BodyStep, BodySucceeds, BodyFails, BodyErrorStored, BodyRetries, BodyResolves,
           BodyGivesUp, FinStep, FinNotFound, FinReruns, FinStores, FinCronStored,
           FinResolves, FinRowStamped, FinFinished, CallerAsks, CallerStep, CallerCreates,
           CallerFindsRunning, CallerFindsIdle, CallerClears, CallerFails, CallerRefreshed,
           CallerStoresCron, CallerQueues, CallerInserts, CallerResolves, LoaderStep,
           LoaderReads, LoaderSkips, LoaderQueues, LoaderResolves
      <4> QED BY <2>2, <4>1, <4>2 DEF CountState
    <3>2. FaultFree
      BY <3>1 DEF CareInv
    <3>3. CareStep
      BY <1>3, <2>2, <3>2, CareStore, CareDispatch, CareBody, CareFin, CareAsks,
         CareCaller, CareLoader DEF Next
    <3> QED BY <3>2, <3>3, MovesCare DEF OneBodyInv
  <2> QED BY <2>1, <2>2 DEF CareInv
<1> QED BY <1>1, <1>2, <1>3

LEMMA CareHolds ==
    ASSUME MainCallers = {}
    PROVE  Spec => [](TypeOK /\ CareInv)
<1>1. Spec => []OneBodyInv
  BY OneBodyInvHolds
<1>2. Init => CareInv
  BY CareInit
<1>3. /\ OneBodyInv /\ OneBodyInv' /\ (TypeOK /\ DepsInv) /\ CareInv /\ [Next]_vars
      => CareInv'
  BY CareNext
<1> QED BY <1>1, <1>2, <1>3, DepsHolds, PTL DEF Spec

(* What an invariant calls cared for is what the property calls cared for. *)
LEMMA CaredFor ==
    ASSUME RunHeld, NEW id \in Ids
    PROVE  /\ Cares(id) => Cared(id)
           /\ Undeps(fin, id) => Cared(id)
<1>1. IsRunning(queues, id) => Running(id)
  BY DEF RunHeld, Held, RunningIds, Running, Exec, Executing
<1>2. IsWaiting(queues, id) \/ IsScheduled(queues, id) => Queued(id)
  BY DEF Queued
<1>3. Created(writes, wres, id) => InHand(id)
  BY DEF Created, InHand
<1>4. Calls(callers, id) => InHand(id)
  BY DEF Calls, InHand
<1>5. Finishes(fin, id) \/ Undeps(fin, id) => InHand(id)
  BY DEF Finishes, Undeps, InHand
<1> QED BY <1>1, <1>2, <1>3, <1>4, <1>5 DEF Cares, InQueues, Cared

(* No lost task: while no write fails, a pending row that the loader is    *)
(* past is running, queued or in somebody's hand, across requests,         *)
(* retries, reruns, recurrences and restarts.                              *)
THEOREM PendingCaredCorrect ==
    ASSUME MainCallers = {}
    PROVE  Spec => []PendingCared
<1>1. CareInv => PendingCared
  BY CaredFor DEF CareInv, FaultFree, RowsCared, PendingCared
<1> QED BY <1>1, CareHolds, PTL

(* No lost release: what a waiting task still lists is registered as its   *)
(* dependency and will be completed, or a store query is about to report   *)
(* it, whoever registered, resolved, ended or was restarted in between.    *)
THEOREM WaitingReleasedCorrect ==
    ASSUME MainCallers = {}
    PROVE  Spec => []WaitingReleased
<1>1. ASSUME CareInv PROVE WaitingReleased
  <2>1. SUFFICES ASSUME counts.faults = 0, NEW w \in Ids, NEW d \in Ids,
                        Awaits(queues, w, d), ~Reports(probes, rows, w, d)
                 PROVE  /\ <<d, w>> \in queues.dep
                        /\ \/ Cared(d) \/ d \in loader.todo
                           \/ loader.pc = "start" /\ Pending(rows, d)
                           \/ ~Buildable(rows[d])
    BY DEF WaitingReleased, Awaits, Reports, Over
  <2>2. RunHeld /\ RowsCared /\ WaitsCared
    BY <1>1, <2>1 DEF CareInv, FaultFree
  <2>3. /\ <<d, w>> \in queues.dep
        /\ Cares(d) \/ Undeps(fin, d) \/ Pending(rows, d)
    BY <2>1, <2>2 DEF WaitsCared
  <2> QED BY <2>2, <2>3, CaredFor DEF RowsCared
<1> QED BY <1>1, CareHolds, PTL

-----------------------------------------------------------------------------
(* What a task runs with.  A copy of its metadata is changed in count,     *)
(* dependencies, time and request flag only: its input and its recurrence  *)
(* are those of the copy it was made from.  D holds what copies may carry, *)
(* as triples of id, input and recurrence, Asks what calls may ask for.    *)

Asks == {<<rq.key, rq.param, rq.cron>> : rq \in Requests}
Carries(m, id, D) == <<id, m.param, m.cron>> \in D

QueuesCarry(qs, D) ==
    \A id \in Ids :
      /\ IsRunning(qs, id) => Carries(qs.run[id], id, D)
      /\ IsWaiting(qs, id) => Carries(qs.wait[id], id, D)
      /\ \A s \in Slots : qs.sched[<<s, id>>] # None =>
           Carries(qs.sched[<<s, id>>], id, D)

BodiesCarry(bs, D) ==
    \A b \in Bodies : bs[b].pc # "off" => Carries(bs[b].meta, b[1], D)

FinCarries(f, D) == f.pc # "idle" => Carries(f.meta, f.id, D)

CallCarries(call, D) ==
    /\ call.pc = "found" => <<call.key, call.meta.param, call.meta.cron>> \in Asks
    /\ call.pc # "idle" /\ call.id # None => Carries(call.meta, call.id, D)
CallsCarry(cs, D) == \A r \in Callers : CallCarries(cs[r], D)

WriteCarries(w, D) ==
    /\ w.op = "create" => <<w.key, w.meta.param, w.meta.cron>> \in Asks
    /\ w.id # None => Carries(w.meta, w.id, D)
WritesCarry(ws, D) == \A w \in UnderWay(ws) : WriteCarries(w, D)

SnapsCarry(l, D) == \A id \in l.todo : Carries(l.snap[id], id, D)

Copies(D) == /\ QueuesCarry(queues, D) /\ BodiesCarry(bodies, D) /\ FinCarries(fin, D)
             /\ CallsCarry(callers, D) /\ WritesCarry(writes, D)
CopiesNext(D) == /\ QueuesCarry(queues', D) /\ BodiesCarry(bodies', D)
                 /\ FinCarries(fin', D)
                 /\ CallsCarry(callers', D) /\ WritesCarry(writes', D)

(* The operations on the queues.                                           *)
LEMMA SameCarries ==
    ASSUME NEW m, NEW n, NEW id, NEW D, Carries(m, id, D),
           n.param = m.param, n.cron = m.cron
    PROVE  Carries(n, id, D)
BY DEF Carries

(* Refreshing a running entry takes its input from the new copy.           *)
LEMMA RefreshCarries ==
    ASSUME NEW qs \in QueueState, NEW D, QueuesCarry(qs, D), NEW id \in Ids,
           NEW m \in TaskMeta, NEW rerun \in BOOLEAN, Carries(m, id, D)
    PROVE  QueuesCarry(RefreshRunning(qs, id, m, rerun), D)
<1> DEFINE q == RefreshRunning(qs, id, m, rerun)
           n == [m EXCEPT !.rerun = rerun]
<1>1. q.wait = qs.wait /\ q.sched = qs.sched /\ q.run = [qs.run EXCEPT ![id] = n]
  BY DEF RefreshRunning, QueueState
<1>2. n.param = m.param /\ n.cron = m.cron
  BY DEF TaskMeta
<1>3. qs.run \in [Ids -> Entry]
  BY DEF QueueState
<1> HIDE DEF n, q
<1>4. Carries(n, id, D)
  BY <1>2, SameCarries
<1>5. QueuesCarry(q, D)
  BY <1>1, <1>3, <1>4 DEF QueuesCarry, IsRunning, IsWaiting
<1> QED BY <1>5 DEF q

(* Taking the entry of a run adds no copy.                                 *)
LEMMA TakeCarries ==
    ASSUME NEW qs \in QueueState, NEW D, QueuesCarry(qs, D), NEW id \in Ids
    PROVE  QueuesCarry(TakeRunning(qs, id), D)
BY DEF TakeRunning, QueuesCarry, QueueState, IsRunning, IsWaiting

(* Nor does taking a task out of the other queues.                         *)
LEMMA UnqueueCarries ==
    ASSUME NEW qs \in QueueState, NEW D, QueuesCarry(qs, D), NEW id \in Ids
    PROVE  QueuesCarry(Unqueue(qs, id), D)
<1> DEFINE s == FirstSlot(qs, id)
           q == Unqueue(qs, id)
<1>1. /\ q.run = qs.run /\ q.wait = [qs.wait EXCEPT ![id] = None]
      /\ q.sched = [qs.sched EXCEPT ![<<s, id>>] = None]
  BY DEF Unqueue, QueueState
<1>2. /\ \A o \in Ids : q.wait[o] \in {qs.wait[o], None}
      /\ \A k \in Slots \X Ids : q.sched[k] \in {qs.sched[k], None}
  BY <1>1 DEF QueueState
<1> HIDE DEF q
<1>3. QueuesCarry(q, D)
  BY <1>1, <1>2 DEF QueuesCarry, IsRunning, IsWaiting
<1> QED BY <1>3 DEF q

(* A fresh insertion adds the copy it inserts.                             *)
LEMMA InsertCarries ==
    ASSUME NEW qs \in QueueState, NEW D, QueuesCarry(qs, D), NEW id \in Ids,
           NEW m \in TaskMeta, Carries(m, id, D)
    PROVE  QueuesCarry(InsertAfresh(qs, id, m), D)
<1> DEFINE u == Unqueue(qs, id)
<1>1. u \in QueueState /\ QueuesCarry(u, D) /\ m.next \in Slots
  BY UnqueueType, UnqueueCarries DEF TaskMeta
<1> HIDE DEF u
<1>2. QueuesCarry(Schedule(u, id, m), D)
  <2> DEFINE q == Schedule(u, id, m)
  <2>1. q.run = u.run /\ q.wait = u.wait
        /\ q.sched = [u.sched EXCEPT ![<<m.next, id>>] = m]
    BY <1>1 DEF Schedule, QueueState
  <2>2. \A k \in Slots \X Ids : q.sched[k] = u.sched[k] \/ (k[2] = id /\ q.sched[k] = m)
    BY <1>1, <2>1 DEF QueueState
  <2> HIDE DEF q
  <2>3. \A o \in Ids, s \in Slots :
          q.sched[<<s, o>>] = u.sched[<<s, o>>] \/ (o = id /\ q.sched[<<s, o>>] = m)
    BY <2>2
  <2>4. QueuesCarry(q, D)
    BY <1>1, <2>1, <2>3 DEF QueuesCarry, IsRunning, IsWaiting
  <2> QED BY <2>4 DEF q
<1>3. QueuesCarry(Await(u, id, m), D)
  <2> DEFINE q == Await(u, id, m)
  <2>1. q.run = u.run /\ q.wait = [u.wait EXCEPT ![id] = m] /\ q.sched = u.sched
    BY <1>1 DEF Await, QueueState
  <2>2. \A o \in Ids : q.wait[o] = u.wait[o] \/ (o = id /\ q.wait[o] = m)
    BY <1>1, <2>1 DEF QueueState
  <2> HIDE DEF q
  <2>3. QueuesCarry(q, D)
    BY <1>1, <2>1, <2>2 DEF QueuesCarry, IsRunning, IsWaiting
  <2> QED BY <2>3 DEF q
<1> QED BY <1>2, <1>3 DEF InsertAfresh, Insert, u

(* add_queue adds the copy it is given.                                    *)
LEMMA AddQueueCarries ==
    ASSUME NEW qs \in QueueState, NEW D, QueuesCarry(qs, D), NEW id \in Ids,
           NEW m \in TaskMeta, Carries(m, id, D)
    PROVE  QueuesCarry(AddQueue(qs, id, m), D)
<1>1. CASE IsRunning(qs, id)
  <2>1. qs.run[id] \in TaskMeta
    BY <1>1 DEF IsRunning, QueueState, Entry
  <2>2. qs.run[id].rerun \in BOOLEAN
    BY <2>1 DEF TaskMeta
  <2> QED BY <1>1, <2>2, RefreshCarries DEF AddQueue
<1> QED BY <1>1, InsertCarries DEF AddQueue

(* Resolving completed dependencies shortens lists of copies there.        *)
LEMMA ResolveCarries ==
    ASSUME NEW qs \in QueueState, NEW D, QueuesCarry(qs, D), NEW id \in Ids,
           NEW deps, NEW completed
    PROVE  QueuesCarry(ResolveDeps(qs, id, deps, completed), D)
<1>1. CASE completed = {} \/ ~IsWaiting(qs, id)
  BY <1>1 DEF ResolveDeps
<1>2. CASE ~(completed = {} \/ ~IsWaiting(qs, id))
  <2> DEFINE m == qs.wait[id]
             left == m.deps \ completed
             n == [m EXCEPT !.deps = left]
             e == [m EXCEPT !.deps = {}]
             q1 == [qs EXCEPT !.wait[id].deps = left]
             q2 == [qs EXCEPT !.wait[id] = None,
                              !.dep = @ \ (deps \X {id}),
                              !.sched[<<"now", id>>] = [qs.wait[id] EXCEPT !.deps = {}]]
  <2>1. m \in TaskMeta /\ Carries(m, id, D)
    BY <1>2 DEF IsWaiting, QueueState, Entry, QueuesCarry
  <2>2. n.param = m.param /\ n.cron = m.cron /\ e.param = m.param /\ e.cron = m.cron
    BY <2>1 DEF TaskMeta
  <2>3. Carries(n, id, D) /\ Carries(e, id, D)
    <3> HIDE DEF n, e, m
    <3> QED BY <2>1, <2>2, SameCarries
  <2>4. /\ q1.run = qs.run /\ q1.sched = qs.sched
        /\ \A o \in Ids : q1.wait[o] = IF o = id THEN n ELSE qs.wait[o]
    BY DEF QueueState
  <2>5. /\ q2.run = qs.run
        /\ \A o \in Ids : q2.wait[o] = IF o = id THEN None ELSE qs.wait[o]
        /\ \A k \in Slots \X Ids :
             q2.sched[k] = IF k = <<"now", id>> THEN e ELSE qs.sched[k]
    BY DEF QueueState
  <2>6. ResolveDeps(qs, id, deps, completed) = IF left # {} THEN q1 ELSE q2
    BY <1>2 DEF ResolveDeps
  <2> HIDE DEF q1, q2, n, e
  <2>7. QueuesCarry(q1, D)
    BY <2>3, <2>4 DEF QueuesCarry, IsRunning, IsWaiting
  <2>8. \A o \in Ids, s \in Slots :
          \/ q2.sched[<<s, o>>] = qs.sched[<<s, o>>]
          \/ o = id /\ q2.sched[<<s, o>>] = e
    BY <2>5
  <2>9. QueuesCarry(q2, D)
    BY <2>3, <2>5, <2>8 DEF QueuesCarry, IsRunning, IsWaiting
  <2> QED BY <2>6, <2>7, <2>9
<1> QED BY <1>1, <1>2

(* Removal from every queue adds no copy.                                  *)
LEMMA RemoveCarries ==
    ASSUME NEW qs \in QueueState, NEW D, QueuesCarry(qs, D), NEW id \in Ids
    PROVE  QueuesCarry(RemoveFromQueues(qs, id), D)
<1>1. QueuesCarry([qs EXCEPT !.wait[id] = None], D)
  BY DEF QueuesCarry, QueueState, IsRunning, IsWaiting
<1>2. QueuesCarry([qs EXCEPT !.sched[<<FirstSlot(qs, id), id>>] = None], D)
  <2> DEFINE q == [qs EXCEPT !.sched[<<FirstSlot(qs, id), id>>] = None]
  <2>1. /\ q.run = qs.run /\ q.wait = qs.wait
        /\ \A k \in Slots \X Ids : q.sched[k] \in {qs.sched[k], None}
    BY DEF QueueState
  <2> HIDE DEF q
  <2>2. QueuesCarry(q, D)
    BY <2>1 DEF QueuesCarry, IsRunning, IsWaiting
  <2> QED BY <2>2 DEF q
<1> QED BY <1>1, <1>2, TakeCarries DEF RemoveFromQueues

(* A dependency that is dropped leaves input and recurrence.               *)
LEMMA ForgetCarries ==
    ASSUME NEW m \in TaskMeta, NEW d, NEW id, NEW D, Carries(m, id, D)
    PROVE  Carries(ForgetDep(m, d), id, D)
BY DEF ForgetDep, Carries, TaskMeta

(* Releasing dependents moves their copies, shortened.                     *)
LEMMA ReleaseCarries ==
    ASSUME NEW qs \in QueueState, NEW D, QueuesCarry(qs, D), NEW d
    PROVE  QueuesCarry(ReleaseDependents(qs, d), D)
<1> DEFINE q == ReleaseDependents(qs, d)
<1>1. \A w \in Ids : q.run[w] = IF w \in Ready(qs, d) THEN ForgetDep(qs.wait[w], d)
                                                      ELSE qs.run[w]
  BY DEF ReleaseDependents, QueueState
<1>2. \A w \in Ids : q.wait[w] =
        IF w \in Ready(qs, d) THEN None
        ELSE IF w \in Dependents(qs, d) /\ IsWaiting(qs, w)
          THEN ForgetDep(qs.wait[w], d) ELSE qs.wait[w]
  BY DEF ReleaseDependents, QueueState
<1>3. \A k \in Slots \X Ids :
        q.sched[k] \in {qs.sched[k], ForgetDep(qs.sched[k], d)}
        /\ (qs.sched[k] = None => q.sched[k] = None)
  BY DEF ReleaseDependents, QueueState
<1> HIDE DEF q
<1>4. ASSUME NEW w \in Ids, IsWaiting(qs, w)
      PROVE  Carries(ForgetDep(qs.wait[w], d), w, D)
  <2>1. qs.wait[w] \in TaskMeta /\ Carries(qs.wait[w], w, D)
    BY <1>4 DEF IsWaiting, QueueState, Entry, QueuesCarry
  <2> QED BY <2>1, ForgetCarries
<1>5. \A w \in Ids, s \in Slots : q.sched[<<s, w>>] # None =>
        Carries(q.sched[<<s, w>>], w, D)
  <2>1. SUFFICES ASSUME NEW w \in Ids, NEW s \in Slots, q.sched[<<s, w>>] # None
                 PROVE  Carries(q.sched[<<s, w>>], w, D)
    OBVIOUS
  <2>2. qs.sched[<<s, w>>] # None
    BY <1>3, <2>1
  <2>3. qs.sched[<<s, w>>] \in TaskMeta /\ Carries(qs.sched[<<s, w>>], w, D)
    BY <2>2 DEF QueueState, Entry, QueuesCarry
  <2>4. Carries(ForgetDep(qs.sched[<<s, w>>], d), w, D)
    BY <2>3, ForgetCarries
  <2> QED BY <1>3, <2>3, <2>4
<1>6. \A w \in Ids : IsRunning(q, w) => Carries(q.run[w], w, D)
  BY <1>1, <1>4 DEF QueuesCarry, IsRunning, Ready
<1>7. \A w \in Ids : IsWaiting(q, w) => Carries(q.wait[w], w, D)
  BY <1>2, <1>4 DEF QueuesCarry, IsWaiting
<1>8. QueuesCarry(q, D)
  BY <1>5, <1>6, <1>7 DEF QueuesCarry
<1> QED BY <1>8 DEF q

(* The scheduler loop moves a copy to the running entries.                 *)
LEMMA StartCarries ==
    ASSUME NEW qs \in QueueState, NEW D, QueuesCarry(qs, D), NEW s \in Slots,
           NEW id \in Ids, qs.sched[<<s, id>>] # None
    PROVE  QueuesCarry(StartScheduled(qs, s, id), D)
<1> DEFINE q == StartScheduled(qs, s, id)
           m == qs.sched[<<s, id>>]
<1>1. Carries(m, id, D)
  BY DEF QueuesCarry
<1>2. /\ q.wait = qs.wait
      /\ \A o \in Ids : q.run[o] = IF o = id THEN m ELSE qs.run[o]
      /\ \A k \in Slots \X Ids : q.sched[k] \in {qs.sched[k], None}
  BY DEF StartScheduled, QueueState
<1> HIDE DEF q
<1>3. \A o \in Ids, t \in Slots : q.sched[<<t, o>>] \in {qs.sched[<<t, o>>], None}
  BY <1>2
<1>4. QueuesCarry(q, D)
  BY <1>1, <1>2, <1>3 DEF QueuesCarry, IsRunning, IsWaiting
<1> QED BY <1>4 DEF q

(* Clearing a request flag leaves input and recurrence.                    *)
LEMMA ClearCarries ==
    ASSUME NEW qs \in QueueState, NEW D, QueuesCarry(qs, D), NEW id \in Ids
    PROVE  QueuesCarry(ClearRerunRequest(qs, id), D)
<1>1. CASE IsRunning(qs, id)
  <2>1. qs.run[id] \in TaskMeta /\ Carries(qs.run[id], id, D)
    BY <1>1 DEF IsRunning, QueueState, Entry, QueuesCarry
  <2>2. ClearRerunRequest(qs, id) = RefreshRunning(qs, id, qs.run[id], FALSE)
    BY <1>1 DEF ClearRerunRequest, RefreshRunning
  <2>3. FALSE \in BOOLEAN
    OBVIOUS
  <2> QED BY <2>1, <2>2, <2>3, RefreshCarries
<1> QED BY <1>1 DEF ClearRerunRequest

(* The writes under way.                                                   *)
LEMMA UnderWayGrows ==
    ASSUME NEW ws \in Seq(WriteRecord), NEW w \in WriteRecord
    PROVE  UnderWay(Append(ws, w)) \subseteq UnderWay(ws) \cup {w}
<1> DEFINE a == Append(ws, w)
<1>1. /\ DOMAIN a = 1 .. Len(ws) + 1 /\ a[Len(ws) + 1] = w
      /\ DOMAIN ws = 1 .. Len(ws) /\ Len(ws) \in Nat
      /\ \A i \in 1 .. Len(ws) : a[i] = ws[i]
  OBVIOUS
<1> HIDE DEF a
<1>2. \A v \in UnderWay(a) : v \in UnderWay(ws) \/ v = w
  BY <1>1 DEF UnderWay
<1> QED BY <1>2 DEF a

(* A write that returns is no longer under way.                            *)
LEMMA UnderWayShrinks ==
    ASSUME NEW ws \in Seq(WriteRecord), ws # <<>>
    PROVE  /\ Tail(ws) \in Seq(WriteRecord) /\ UnderWay(Tail(ws)) \subseteq UnderWay(ws)
           /\ Head(ws) \in UnderWay(ws)
<1> DEFINE t == Tail(ws)
<1>1. /\ t \in Seq(WriteRecord) /\ DOMAIN t = 1 .. Len(ws) - 1
      /\ DOMAIN ws = 1 .. Len(ws) /\ Len(ws) \in Nat \ {0}
      /\ \A i \in 1 .. Len(ws) - 1 : t[i] = ws[i + 1]
      /\ Head(ws) = ws[1]
  OBVIOUS
<1> HIDE DEF t
<1>2. ASSUME NEW v \in UnderWay(t) PROVE v \in UnderWay(ws)
  <2>1. PICK i \in 1 .. Len(ws) - 1 : v = ws[i + 1]
    BY <1>1 DEF UnderWay
  <2>2. i + 1 \in DOMAIN ws
    BY <1>1
  <2> QED BY <2>1, <2>2 DEF UnderWay
<1>3. Head(ws) \in UnderWay(ws)
  BY <1>1 DEF UnderWay
<1> QED BY <1>1, <1>2, <1>3 DEF t

(* A write that is issued adds what it carries.                            *)
LEMMA IssueCarries ==
    ASSUME NEW ws \in Seq(WriteRecord), NEW D, WritesCarry(ws, D),
           NEW w \in WriteRecord, WriteCarries(w, D)
    PROVE  WritesCarry(Append(ws, w), D)
BY UnderWayGrows DEF WritesCarry

(* What returns carried what was under way.                                *)
LEMMA ReturnCarries ==
    ASSUME NEW ws \in Seq(WriteRecord), ws # <<>>, NEW D, WritesCarry(ws, D)
    PROVE  /\ Tail(ws) \in Seq(WriteRecord) /\ WritesCarry(Tail(ws), D)
           /\ WriteCarries(Head(ws), D)
BY UnderWayShrinks DEF WritesCarry

-----------------------------------------------------------------------------
(* The building blocks of the actions.                                     *)
LEMMA SpawnCarries ==
    ASSUME bodies \in [Bodies -> BodyState], NEW D, BodiesCarry(bodies, D), NEW S,
           NEW meta, \A id \in S : Carries(meta[id], id, D), Spawn(S, meta)
    PROVE  BodiesCarry(bodies', D)
<1>1. \A b \in Bodies :
        \/ bodies'[b] = bodies[b]
        \/ b[1] \in S /\ bodies'[b] = [pc |-> "run", meta |-> meta[b[1]], perm |-> FALSE]
  BY DEF Spawn
<1>2. ASSUME NEW b \in Bodies, bodies'[b].pc # "off"
      PROVE  Carries(bodies'[b].meta, b[1], D)
  <2>1. CASE bodies'[b] = bodies[b]
    BY <1>2, <2>1 DEF BodiesCarry
  <2>2. CASE b[1] \in S /\ bodies'[b] = [pc |-> "run", meta |-> meta[b[1]], perm |-> FALSE]
    <3>1. bodies'[b].meta = meta[b[1]]
      BY <2>2
    <3> QED BY <2>2, <3>1
  <2> QED BY <1>1, <2>1, <2>2
<1> QED BY <1>2 DEF BodiesCarry

(* The finish handler releases and is idle again.                          *)
LEMMA ReleaseStepCarries ==
    ASSUME bodies \in [Bodies -> BodyState], NEW D, BodiesCarry(bodies, D),
           NEW qs \in QueueState, QueuesCarry(qs, D), NEW id \in Ids, Release(qs, id)
    PROVE  QueuesCarry(queues', D) /\ BodiesCarry(bodies', D) /\ FinCarries(fin', D)
<1> DEFINE q == ReleaseDependents(qs, id)
<1>1. queues' = q /\ Spawn(Ready(qs, id), q.run) /\ fin' = FinIdle
  BY DEF Release
<1>2. QueuesCarry(q, D)
  BY ReleaseCarries
<1>3. ASSUME NEW w \in Ready(qs, id)
      PROVE  Carries(q.run[w], w, D)
  <2>1. w \in Ids /\ IsWaiting(qs, w)
    BY DEF Ready, Dependents
  <2>2. q.run[w] = ForgetDep(qs.wait[w], id)
    BY <2>1 DEF ReleaseDependents, QueueState
  <2>3. qs.wait[w] \in TaskMeta /\ Carries(qs.wait[w], w, D)
    BY <2>1 DEF IsWaiting, QueueState, Entry, QueuesCarry
  <2> HIDE DEF q
  <2> QED BY <2>2, <2>3, ForgetCarries
<1> HIDE DEF q
<1>4. BodiesCarry(bodies', D)
  BY <1>1, <1>3, SpawnCarries
<1> QED BY <1>1, <1>2, <1>4 DEF FinCarries, FinIdle

(* A task queued, at once or after a probe of its dependencies.            *)
LEMMA EnqueueCarries ==
    ASSUME NEW qs \in QueueState, NEW D, QueuesCarry(qs, D), NEW who, NEW id \in Ids,
           NEW m \in TaskMeta, Carries(m, id, D), Enqueue(qs, who, id, m)
    PROVE  QueuesCarry(queues', D)
BY AddQueueCarries DEF Enqueue

(* The answer to a probe resolves dependencies.                            *)
LEMMA AfterProbeCarries ==
    ASSUME TypeOK, NEW D, QueuesCarry(queues, D), NEW p \in probes
    PROVE  QueuesCarry(AfterProbe(p), D)
<1>1. p.id \in Ids /\ queues \in QueueState
  BY DEF TypeOK, ProbeRecord
<1> QED BY <1>1, ResolveCarries DEF AfterProbe

(* The step that issues a write.                                           *)
LEMMA IssuedCarries ==
    ASSUME TypeOK, NEW D, WritesCarry(writes, D), NEW w \in WriteRecord,
           WriteCarries(w, D), Issue(w)
    PROVE  WritesCarry(writes', D)
BY IssueCarries DEF Issue, TypeOK

(* The step that takes a result, and may issue the next write.             *)
LEMMA ReturnedCarries ==
    ASSUME TypeOK, NEW D, WritesCarry(writes, D), writes # <<>>
    PROVE  /\ Return => WritesCarry(writes', D)
           /\ \A w \in WriteRecord : WriteCarries(w, D) /\ ReturnAndIssue(w)
                => WritesCarry(writes', D)
<1>1. writes \in Seq(WriteRecord)
  BY DEF TypeOK
<1>2. Tail(writes) \in Seq(WriteRecord) /\ WritesCarry(Tail(writes), D)
  BY <1>1, ReturnCarries
<1>3. ASSUME NEW w \in WriteRecord, WriteCarries(w, D)
      PROVE  WritesCarry(Append(Tail(writes), w), D)
  BY <1>2, <1>3, IssueCarries
<1> QED BY <1>2, <1>3 DEF Return, ReturnAndIssue

(* A body whose metadata stays.                                            *)
LEMMA BodyCarries ==
    ASSUME TypeOK, NEW D, BodiesCarry(bodies, D), NEW b \in Bodies, bodies[b].pc # "off",
           NEW pc, NEW perm,
           \/ bodies' = [bodies EXCEPT ![b].pc = pc, ![b].perm = perm]
           \/ bodies' = [bodies EXCEPT ![b].pc = pc]
           \/ bodies' = [bodies EXCEPT ![b] = NoBody]
    PROVE  BodiesCarry(bodies', D)
<1>1. bodies[b] \in [pc : {"run", "retrying", "retryHook", "failing", "failHook",
                           "resolve"}, meta : TaskMeta, perm : BOOLEAN]
  BY DEF TypeOK, BodyState, NoBody
<1>2. bodies \in [Bodies -> BodyState]
  BY DEF TypeOK
<1>3. \A d \in Bodies : d # b => bodies'[d] = bodies[d]
  BY <1>2
<1>4. bodies'[b].pc = "off" \/ bodies'[b].meta = bodies[b].meta
  BY <1>1, <1>2 DEF NoBody
<1>5. \A d \in Bodies : bodies'[d].pc # "off" =>
        bodies[d].pc # "off" /\ bodies'[d].meta = bodies[d].meta
  BY <1>3, <1>4
<1> QED BY <1>5 DEF BodiesCarry

(* What a write of the body or the finish handler carries.                 *)
LEMMA StatementCarries ==
    ASSUME NEW who \in Tags,
           NEW op \in {"cron", "update", "finish", "undep", "postpone", "fail"},
           NEW id \in Ids, NEW m \in TaskMeta, NEW D, Carries(m, id, D)
    PROVE  /\ Write(who, op, id, None, m) \in WriteRecord
           /\ WriteCarries(Write(who, op, id, None, m), D)
<1>1. Write(who, op, id, None, m) \in WriteRecord
  BY WriteType
<1> QED BY <1>1 DEF WriteCarries, Write

-----------------------------------------------------------------------------
(* The steps.                                                              *)
LEMMA CopiesDispatch ==
    ASSUME TypeOK, NEW D, Copies(D), NEW s \in Slots, NEW id \in Ids, Dispatch(s, id)
    PROVE  CopiesNext(D)
<1> DEFINE q == StartScheduled(queues, s, id)
<1>1. /\ queues.sched[<<s, id>>] # None /\ queues' = q /\ Spawn({id}, q.run)
      /\ UNCHANGED <<callers, fin, writes>>
  BY DEF Dispatch
<1>2. /\ queues \in QueueState /\ bodies \in [Bodies -> BodyState]
      /\ QueuesCarry(queues, D) /\ BodiesCarry(bodies, D)
  BY DEF TypeOK, Copies
<1>3. QueuesCarry(q, D)
  BY <1>1, <1>2, StartCarries
<1>4. q.run[id] # None
  BY <1>1, <1>2 DEF StartScheduled, QueueState
<1>5. \A o \in {id} : Carries(q.run[o], o, D)
  BY <1>3, <1>4 DEF QueuesCarry, IsRunning
<1> HIDE DEF q
<1>6. BodiesCarry(bodies', D)
  BY <1>1, <1>2, <1>5, SpawnCarries
<1> QED BY <1>1, <1>3, <1>6 DEF Copies, CopiesNext

(* The steps of a run: what it stores and requeues is its own copy.        *)
LEMMA CopiesBody ==
    ASSUME TypeOK, NEW D, Copies(D), NEW b \in Bodies, BodyStep(b)
    PROVE  CopiesNext(D)
<1>1. /\ queues \in QueueState /\ bodies \in [Bodies -> BodyState] /\ b[1] \in Ids
      /\ QueuesCarry(queues, D) /\ BodiesCarry(bodies, D) /\ WritesCarry(writes, D)
      /\ FinCarries(fin, D) /\ CallsCarry(callers, D)
  BY BodiesType DEF TypeOK, Copies
<1>2. bodies[b].pc # "off" /\ UNCHANGED <<callers, fin>>
  BY DEF BodyStep, BodySucceeds, BodyFails, BodyErrorStored, BodyRetries, BodyResolves,
         BodyGivesUp, Body
<1>3. bodies[b].meta \in TaskMeta /\ Carries(bodies[b].meta, b[1], D)
  BY <1>1, <1>2, BodyMeta DEF BodiesCarry
<1>4. CASE BodySucceeds(b) \/ BodyGivesUp(b)
  <2>1. /\ bodies' = [bodies EXCEPT ![b] = NoBody] /\ writes' = writes
        /\ queues' \in {queues, ClearRerunRequest(queues, b[1])}
    BY <1>4 DEF BodySucceeds, BodyGivesUp
  <2>2. QueuesCarry(queues', D)
    BY <1>1, <2>1, ClearCarries
  <2>3. BodiesCarry(bodies', D)
    BY <1>1, <1>2, <2>1, BodyCarries
  <2> QED BY <1>1, <1>2, <2>1, <2>2, <2>3 DEF CopiesNext
<1>5. ASSUME NEW perm \in BOOLEAN, BodyFails(b, perm)
      PROVE  CopiesNext(D)
  <2> DEFINE op == ErrorOp(bodies[b].meta, ShouldRetry(b, perm))
             w == Write(BodyTag(b), op, b[1], None, bodies[b].meta)
             pc == IF ShouldRetry(b, perm) THEN "retrying" ELSE "failing"
  <2>1. /\ bodies' = [bodies EXCEPT ![b].pc = pc, ![b].perm = perm]
        /\ Issue(w) /\ queues' = queues
    BY <1>5 DEF BodyFails
  <2>2. op \in {"cron", "update", "finish", "undep", "postpone", "fail"}
        /\ BodyTag(b) \in Tags
    BY TagTypes DEF ErrorOp
  <2> HIDE DEF op
  <2>3. w \in WriteRecord /\ WriteCarries(w, D)
    BY <1>1, <1>3, <2>2, StatementCarries
  <2> HIDE DEF w, pc
  <2>4. WritesCarry(writes', D)
    BY <1>1, <2>1, <2>3, IssuedCarries
  <2>5. BodiesCarry(bodies', D)
    BY <1>1, <1>2, <2>1, BodyCarries
  <2> QED BY <1>1, <1>2, <2>1, <2>4, <2>5 DEF CopiesNext
<1>6. CASE BodyErrorStored(b)
  <2>1. /\ writes # <<>> /\ Return /\ queues' = queues
        /\ \/ bodies' = [bodies EXCEPT ![b].pc = "retryHook"]
           \/ bodies' = [bodies EXCEPT ![b].pc = "failHook"]
    BY <1>6 DEF BodyErrorStored, Holds, Move
  <2>2. WritesCarry(writes', D)
    BY <1>1, <2>1, ReturnedCarries
  <2>3. BodiesCarry(bodies', D)
    BY <1>1, <1>2, <2>1, BodyCarries
  <2> QED BY <1>1, <1>2, <2>1, <2>2, <2>3 DEF CopiesNext
<1>7. CASE BodyRetries(b)
  <2> DEFINE taken == TakeRunning(queues, b[1])
             m == RetryMeta(b)
             base == IF queues.run[b[1]] = None THEN bodies[b].meta ELSE queues.run[b[1]]
  <2>1. /\ Enqueue(taken, BodyTag(b), b[1], m) /\ writes' = writes
        /\ \/ bodies' = [bodies EXCEPT ![b].pc = "resolve"]
           \/ bodies' = [bodies EXCEPT ![b] = NoBody]
    BY <1>7 DEF BodyRetries
  <2>2. taken \in QueueState /\ QueuesCarry(taken, D)
    BY <1>1, TakeRunningType, TakeCarries
  <2>3. base \in TaskMeta /\ Carries(base, b[1], D)
    BY <1>1, <1>3 DEF QueueState, Entry, QueuesCarry, IsRunning
  <2>4. m \in TaskMeta /\ m.param = base.param /\ m.cron = base.cron
    <3>1. m \in TaskMeta
      BY <1>2, RetryMetaType
    <3>2. m = [base EXCEPT !.count = bodies[b].meta.count + 1, !.next = "later",
                           !.rerun = FALSE]
      BY DEF RetryMeta
    <3> HIDE DEF base, m
    <3> QED BY <2>3, <3>1, <3>2 DEF TaskMeta
  <2> HIDE DEF taken, m, base
  <2>5. Carries(m, b[1], D)
    BY <2>3, <2>4, SameCarries
  <2>6. QueuesCarry(queues', D)
    BY <1>1, <2>1, <2>2, <2>4, <2>5, EnqueueCarries
  <2>7. BodiesCarry(bodies', D)
    BY <1>1, <1>2, <2>1, BodyCarries
  <2> QED BY <1>1, <1>2, <2>1, <2>6, <2>7 DEF CopiesNext
<1>8. CASE BodyResolves(b)
  <2>1. PICK p \in probes : queues' = AfterProbe(p)
    BY <1>8 DEF BodyResolves
  <2>2. bodies' = [bodies EXCEPT ![b] = NoBody] /\ writes' = writes
    BY <1>8 DEF BodyResolves
  <2>3. QueuesCarry(queues', D)
    BY <1>1, <2>1, AfterProbeCarries
  <2>4. BodiesCarry(bodies', D)
    BY <1>1, <1>2, <2>2, BodyCarries
  <2> QED BY <1>1, <1>2, <2>2, <2>3, <2>4 DEF CopiesNext
<1> QED BY <1>4, <1>5, <1>6, <1>7, <1>8 DEF BodyStep

(* The steps of the finish handler, on the entry it took.                  *)
LEMMA CopiesFin ==
    ASSUME TypeOK, NEW D, Copies(D), FinStep
    PROVE  CopiesNext(D)
<1>1. /\ queues \in QueueState /\ bodies \in [Bodies -> BodyState]
      /\ QueuesCarry(queues, D) /\ BodiesCarry(bodies, D) /\ WritesCarry(writes, D)
      /\ FinCarries(fin, D) /\ CallsCarry(callers, D)
  BY DEF TypeOK, Copies
<1>2. callers' = callers
  BY DEF FinStep, FinNotFound, FinReruns, FinStores, FinCronStored, FinResolves,
         FinRowStamped, FinFinished
<1>3. ASSUME NEW id \in Ids, IsRunning(queues, id)
      PROVE  /\ queues.run[id] \in TaskMeta /\ Carries(queues.run[id], id, D)
             /\ TakeRunning(queues, id) \in QueueState
             /\ QueuesCarry(TakeRunning(queues, id), D)
  BY <1>1, <1>3, TakeRunningType, TakeCarries DEF IsRunning, QueueState, Entry, QueuesCarry
<1>4. FinisherTag \in Tags
  BY TagTypes
<1>5. fin.pc # "idle" => fin.id \in Ids /\ fin.meta \in TaskMeta /\ Carries(fin.meta, fin.id, D)
  BY <1>1, FinMeta DEF FinCarries
<1>6. ASSUME NEW id \in Ids, FinNotFound(id)
      PROVE  CopiesNext(D)
  BY <1>1, <1>2, <1>6 DEF FinNotFound, CopiesNext
<1>7. ASSUME NEW id \in Ids, FinReruns(id)
      PROVE  CopiesNext(D)
  <2> DEFINE m == RerunMeta(queues.run[id])
             taken == TakeRunning(queues, id)
             q == AddQueue(taken, id, m)
  <2>1. /\ IsRunning(queues, id) /\ writes' = writes
        /\ \/ /\ Enqueue(taken, FinisherTag, id, m)
              /\ fin' = [pc |-> "resolve", id |-> id, meta |-> m] /\ bodies' = bodies
           \/ Release(q, id)
    BY <1>7 DEF FinReruns
  <2>2. /\ queues.run[id] \in TaskMeta /\ Carries(queues.run[id], id, D)
        /\ taken \in QueueState /\ QueuesCarry(taken, D)
    BY <1>3, <2>1
  <2>3. /\ m \in TaskMeta
        /\ m.param = queues.run[id].param /\ m.cron = queues.run[id].cron
    <3>1. m \in TaskMeta
      BY <2>2, MetaType DEF RerunMeta, Slots
    <3> QED BY <2>2, <3>1 DEF RerunMeta, TaskMeta
  <2> HIDE DEF m, taken
  <2>4. Carries(m, id, D)
    BY <2>2, <2>3, SameCarries
  <2>5. q \in QueueState /\ QueuesCarry(q, D)
    BY <2>2, <2>3, <2>4, AddQueueType, AddQueueCarries
  <2>6. CASE Release(q, id)
    <3> HIDE DEF q
    <3>1. QueuesCarry(queues', D) /\ BodiesCarry(bodies', D) /\ FinCarries(fin', D)
      BY <1>1, <2>5, <2>6, ReleaseStepCarries
    <3> QED BY <1>1, <1>2, <2>1, <3>1 DEF CopiesNext
  <2>7. CASE /\ Enqueue(taken, FinisherTag, id, m)
             /\ fin' = [pc |-> "resolve", id |-> id, meta |-> m] /\ bodies' = bodies
    <3>1. QueuesCarry(queues', D)
      BY <2>2, <2>3, <2>4, <2>7, EnqueueCarries
    <3>2. FinCarries(fin', D)
      BY <2>4, <2>7 DEF FinCarries
    <3> QED BY <1>1, <1>2, <2>1, <2>7, <3>1, <3>2 DEF CopiesNext
  <2> QED BY <2>1, <2>6, <2>7
<1>8. ASSUME NEW id \in Ids, FinStores(id)
      PROVE  CopiesNext(D)
  <2> DEFINE m == queues.run[id]
             recurs == m.cron = "recurs"
             upd == IF recurs THEN [m EXCEPT !.next = "later"] ELSE m
             op == IF recurs THEN "update" ELSE "finish"
             w == Write(FinisherTag, op, id, None, upd)
  <2>1. /\ IsRunning(queues, id) /\ queues' = TakeRunning(queues, id)
        /\ Issue(w) /\ bodies' = bodies
        /\ fin' = [pc |-> IF recurs THEN "cron" ELSE "finish", id |-> id, meta |-> upd]
    BY <1>8 DEF FinStores
  <2>2. m \in TaskMeta /\ Carries(m, id, D) /\ QueuesCarry(queues', D)
    BY <1>3, <2>1
  <2>3. upd \in TaskMeta /\ upd.param = m.param /\ upd.cron = m.cron
    <3>1. [m EXCEPT !.next = "later"] \in TaskMeta
      BY <2>2, MetaType DEF Slots
    <3> QED BY <2>2, <3>1 DEF TaskMeta
  <2> HIDE DEF upd
  <2>4. Carries(upd, id, D)
    BY <2>2, <2>3, SameCarries
  <2>5. w \in WriteRecord /\ WriteCarries(w, D)
    <3>1. op \in {"cron", "update", "finish", "undep", "postpone", "fail"}
      OBVIOUS
    <3> HIDE DEF op
    <3> QED BY <1>4, <2>3, <2>4, <3>1, StatementCarries
  <2> HIDE DEF w
  <2>6. WritesCarry(writes', D)
    BY <1>1, <2>1, <2>5, IssuedCarries
  <2>7. FinCarries(fin', D)
    BY <2>1, <2>4 DEF FinCarries
  <2> QED BY <1>1, <1>2, <2>1, <2>2, <2>6, <2>7 DEF CopiesNext
<1>9. CASE FinCronStored
  <2> DEFINE q == AddQueue(queues, fin.id, fin.meta)
  <2>1. /\ fin.pc # "idle" /\ writes # <<>> /\ Return
        /\ \/ /\ Enqueue(queues, FinisherTag, fin.id, fin.meta)
              /\ fin' = [fin EXCEPT !.pc = "resolve"] /\ bodies' = bodies
           \/ Release(q, fin.id)
    BY <1>9 DEF FinCronStored, Holds
  <2>2. fin.id \in Ids /\ fin.meta \in TaskMeta /\ Carries(fin.meta, fin.id, D)
    BY <1>5, <2>1
  <2>3. q \in QueueState /\ QueuesCarry(q, D)
    BY <1>1, <2>2, AddQueueType, AddQueueCarries
  <2>4. WritesCarry(writes', D)
    BY <1>1, <2>1, ReturnedCarries
  <2>5. CASE Release(q, fin.id)
    <3> HIDE DEF q
    <3>1. QueuesCarry(queues', D) /\ BodiesCarry(bodies', D) /\ FinCarries(fin', D)
      BY <1>1, <2>2, <2>3, <2>5, ReleaseStepCarries
    <3> QED BY <1>1, <1>2, <2>4, <3>1 DEF CopiesNext
  <2>6. CASE /\ Enqueue(queues, FinisherTag, fin.id, fin.meta)
             /\ fin' = [fin EXCEPT !.pc = "resolve"] /\ bodies' = bodies
    <3>1. QueuesCarry(queues', D)
      BY <1>1, <2>2, <2>6, EnqueueCarries
    <3>2. FinCarries(fin', D)
      <4>1. fin'.id = fin.id /\ fin'.meta = fin.meta
        BY <2>1, <2>6 DEF TypeOK, FinState, FinIdle
      <4> QED BY <2>2, <4>1 DEF FinCarries
    <3> QED BY <1>1, <1>2, <2>4, <2>6, <3>1, <3>2 DEF CopiesNext
  <2> QED BY <2>1, <2>5, <2>6
<1>10. CASE FinResolves
  <2>1. PICK p \in probes : Release(AfterProbe(p), fin.id)
    BY <1>10 DEF FinResolves
  <2>2. fin.pc # "idle" /\ writes' = writes
    BY <1>10 DEF FinResolves
  <2>3. AfterProbe(p) \in QueueState /\ QueuesCarry(AfterProbe(p), D)
    <3>1. probes \subseteq ProbeRecord
      BY DEF TypeOK
    <3> QED BY <1>1, <3>1, AfterProbeType, AfterProbeCarries
  <2>4. QueuesCarry(queues', D) /\ BodiesCarry(bodies', D) /\ FinCarries(fin', D)
    BY <1>1, <1>5, <2>1, <2>2, <2>3, ReleaseStepCarries
  <2> QED BY <1>1, <1>2, <2>2, <2>4 DEF CopiesNext
<1>11. CASE FinRowStamped
  <2> DEFINE w == Write(FinisherTag, "undep", fin.id, None, fin.meta)
  <2>1. /\ fin.pc # "idle" /\ writes # <<>> /\ ReturnAndIssue(w)
        /\ fin' = [fin EXCEPT !.pc = "undep"] /\ bodies' = bodies /\ queues' = queues
    BY <1>11 DEF FinRowStamped, Holds
  <2>2. w \in WriteRecord /\ WriteCarries(w, D)
    BY <1>4, <1>5, <2>1, StatementCarries
  <2> HIDE DEF w
  <2>3. WritesCarry(writes', D)
    BY <1>1, <2>1, <2>2, ReturnedCarries
  <2>4. FinCarries(fin', D)
    <3>1. fin'.id = fin.id /\ fin'.meta = fin.meta
      BY <2>1 DEF TypeOK, FinState, FinIdle
    <3> QED BY <1>5, <2>1, <3>1 DEF FinCarries
  <2> QED BY <1>1, <1>2, <2>1, <2>3, <2>4 DEF CopiesNext
<1>12. CASE FinFinished
  <2>1. fin.pc # "idle" /\ writes # <<>> /\ Return /\ Release(queues, fin.id)
    BY <1>12 DEF FinFinished, Holds
  <2>2. QueuesCarry(queues', D) /\ BodiesCarry(bodies', D) /\ FinCarries(fin', D)
    BY <1>1, <1>5, <2>1, ReleaseStepCarries
  <2>3. WritesCarry(writes', D)
    BY <1>1, <2>1, ReturnedCarries
  <2> QED BY <1>1, <1>2, <2>2, <2>3 DEF CopiesNext
<1> QED BY <1>6, <1>7, <1>8, <1>9, <1>10, <1>11, <1>12 DEF FinStep

(* Other calls stay as they are.                                           *)
LEMMA CallsShift ==
    ASSUME NEW D, CallsCarry(callers, D), NEW r \in Callers,
           \A o \in Callers : o # r => callers'[o] = callers[o], CallCarries(callers'[r], D)
    PROVE  CallsCarry(callers', D)
BY DEF CallsCarry

(* A call that goes on with its metadata, under its id or the one it got.  *)
LEMMA CallMovesCarry ==
    ASSUME TypeOK, NEW D, CallsCarry(callers, D), NEW r \in Callers,
           callers[r].pc # "idle", NEW pc, pc # "found",
           \/ CallerMoves(r, pc)
           \/ CallerReturns(r)
           \/ \E id : /\ callers' = [callers EXCEPT ![r].pc = pc, ![r].id = id]
                      /\ Carries(callers[r].meta, id, D)
    PROVE  CallsCarry(callers', D)
<1>1. CallCarries(callers[r], D) /\ callers \in [Callers -> CallerState]
  BY DEF CallsCarry, TypeOK
<1>2. CASE CallerMoves(r, pc)
  <2>1. /\ callers'[r].pc = pc /\ callers'[r].meta = callers[r].meta
        /\ callers'[r].id = callers[r].id
        /\ \A o \in Callers : o # r => callers'[o] = callers[o]
    BY <1>2, CallerMoved DEF CallerMoves
  <2>2. CallCarries(callers'[r], D)
    BY <1>1, <2>1 DEF CallCarries
  <2> QED BY <2>1, <2>2, CallsShift
<1>3. CASE CallerReturns(r)
  <2>1. callers'[r] = Idle /\ \A o \in Callers : o # r => callers'[o] = callers[o]
    BY <1>1, <1>3 DEF CallerReturns
  <2>2. CallCarries(callers'[r], D)
    BY <2>1 DEF CallCarries, Idle
  <2> QED BY <2>1, <2>2, CallsShift
<1>4. ASSUME NEW id, callers' = [callers EXCEPT ![r].pc = pc, ![r].id = id],
             Carries(callers[r].meta, id, D)
      PROVE  CallsCarry(callers', D)
  <2>1. /\ callers'[r].pc = pc /\ callers'[r].meta = callers[r].meta
        /\ callers'[r].id = id
        /\ \A o \in Callers : o # r => callers'[o] = callers[o]
    BY <1>4, CallerMovedTo
  <2>2. CallCarries(callers'[r], D)
    BY <1>4, <2>1 DEF CallCarries
  <2> QED BY <2>1, <2>2, CallsShift
<1> QED BY <1>2, <1>3, <1>4

(* A new call carries what it asks for.                                    *)
LEMMA CopiesAsks ==
    ASSUME TypeOK, NEW D, Copies(D), NEW r \in Callers, NEW rq \in Requests,
           CallerAsks(r, rq),
           \A id \in FindByKey(rows, rq.key) : <<id, rq.param, rq.cron>> \in D
    PROVE  CopiesNext(D)
<1>0. PICK at \in Answers(FindByKey(rows, rq.key)) : \E next \in EffectiveNext(rq, at) :
        callers' = [callers EXCEPT ![r] =
          [pc |-> "found", key |-> rq.key, id |-> at,
           changed |-> at # None /\ rows[at].param # rq.param,
           meta |-> MetaOf(rq, next)]]
  BY DEF CallerAsks
<1> DEFINE found == FindByKey(rows, rq.key)
           call(next) == [pc |-> "found", key |-> rq.key, id |-> at,
                       changed |-> at # None /\ rows[at].param # rq.param,
                       meta |-> MetaOf(rq, next)]
<1>1. PICK next \in EffectiveNext(rq, at) :
        callers' = [callers EXCEPT ![r] = call(next)]
  BY <1>0
<1>2. UNCHANGED <<queues, bodies, fin, writes>>
  BY DEF CallerAsks
<1>3. callers'[r] = call(next) /\ \A o \in Callers : o # r => callers'[o] = callers[o]
  BY <1>1 DEF TypeOK
<1>4. at # None => at \in found
  BY DEF Answers
<1>5. call(next).pc = "found" /\ call(next).key = rq.key /\ call(next).id = at
      /\ call(next).meta.param = rq.param /\ call(next).meta.cron = rq.cron
  BY DEF MetaOf
<1>6. <<rq.key, rq.param, rq.cron>> \in Asks
  BY DEF Asks
<1> HIDE DEF call
<1>7. CallCarries(call(next), D)
  BY <1>4, <1>5, <1>6 DEF CallCarries, Carries
<1>8. CallsCarry(callers', D)
  BY <1>3, <1>7, CallsShift DEF Copies
<1> QED BY <1>2, <1>8 DEF Copies, CopiesNext

(* Whoever steps as a call is one.                                        *)
LEMMA CallerBusy ==
    ASSUME TypeOK, DepsInv, NEW r \in Callers, CallerStep(r)
    PROVE  callers[r].pc # "idle" /\ CallerTag(r) \in Tags
<1>1. WritesFit(writes, Known, ended, callers, bodies, fin)
  BY DEF DepsInv
<1>2. Holds(CallerTag(r)) => callers[r].pc # "idle"
  BY <1>1, HeldByCaller
<1> QED BY <1>2, TagTypes
     DEF CallerStep, CallerCreates, CallerFindsRunning, CallerFindsIdle, CallerClears,
         CallerFails, CallerRefreshed, CallerStoresCron, CallerQueues, CallerInserts,
         CallerResolves, Caller

(* The steps of a call, on what it asks for.                               *)
LEMMA CopiesCaller ==
    ASSUME TypeOK, DepsInv, NEW D, Copies(D), NEW r \in Callers, CallerStep(r)
    PROVE  CopiesNext(D)
<1> DEFINE m == callers[r].meta
           id == callers[r].id
           at == Head(writes).id
<1>1. /\ queues \in QueueState /\ QueuesCarry(queues, D) /\ WritesCarry(writes, D)
      /\ CallsCarry(callers, D) /\ writes \in Seq(WriteRecord)
      /\ WritesFit(writes, Known, ended, callers, bodies, fin)
  BY DEF TypeOK, Copies, DepsInv
<1>2. callers[r].pc # "idle" /\ CallerTag(r) \in Tags
  BY CallerBusy
<1>3. /\ m \in TaskMeta /\ callers[r].key \in Keys \cup {None} /\ id \in Ids \cup {None}
      /\ callers[r].pc \notin {"found", "create"} => id \in Ids
  BY <1>2, CallerMeta
<1>4. /\ id # None => Carries(m, id, D)
      /\ callers[r].pc = "found" => <<callers[r].key, m.param, m.cron>> \in Asks
  BY <1>1, <1>2 DEF CallsCarry, CallCarries
<1>5. Holds(CallerTag(r)) =>
        /\ writes # <<>> /\ WritesCarry(Tail(writes), D)
        /\ wres = "ok" => at \in Ids /\ Carries(m, at, D)
  <2>1. SUFFICES ASSUME Holds(CallerTag(r))
                 PROVE  /\ writes # <<>> /\ WritesCarry(Tail(writes), D)
                        /\ wres = "ok" => at \in Ids /\ Carries(m, at, D)
    OBVIOUS
  <2>2. writes # <<>>
    BY <2>1 DEF Holds
  <2>3. Head(writes).meta = m /\ (wres = "ok" => at \in Ids)
    BY <1>1, <2>1, HeldByCaller
  <2>4. WritesCarry(Tail(writes), D) /\ WriteCarries(Head(writes), D)
    BY <1>1, <2>2, ReturnCarries
  <2> QED BY <2>2, <2>3, <2>4, NoIdAssumption DEF WriteCarries
<1>6. UNCHANGED <<bodies, fin>>
  BY DEF CallerStep, CallerCreates, CallerFindsRunning, CallerFindsIdle, CallerClears,
         CallerFails, CallerRefreshed, CallerStoresCron, CallerQueues, CallerInserts,
         CallerResolves
<1>7. ASSUME id \in Ids, Issue(UpdateRow(r))
      PROVE  WritesCarry(writes', D)
  <2>1. UpdateRow(r) \in WriteRecord /\ WriteCarries(UpdateRow(r), D)
    BY <1>2, <1>3, <1>4, <1>7, NoIdAssumption, StatementCarries DEF UpdateRow
  <2> QED BY <1>1, <1>7, <2>1, IssuedCarries
<1>8. ASSUME id \in Ids, ClearQueued(r)
      PROVE  QueuesCarry(queues', D) /\ WritesCarry(writes', D) /\ CallsCarry(callers', D)
  <2>1. Issue(UpdateRow(r)) /\ CallerMoves(r, "update")
        /\ queues' \in {queues, RemoveFromQueues(queues, id)}
    BY <1>8 DEF ClearQueued
  <2>2. QueuesCarry(queues', D)
    BY <1>1, <1>8, <2>1, RemoveCarries
  <2>3. CallsCarry(callers', D)
    BY <1>1, <1>2, <2>1, CallMovesCarry
  <2> QED BY <1>7, <1>8, <2>1, <2>2, <2>3
<1> HIDE DEF m, id, at
<1>9. CASE CallerCreates(r)
  <2> DEFINE w == Write(CallerTag(r), "create", None, callers[r].key, m)
  <2>1. /\ callers[r].pc = "found" /\ Issue(w) /\ CallerMoves(r, "create")
        /\ queues' = queues
    BY <1>9 DEF CallerCreates, Caller, m
  <2>2. w \in WriteRecord
    BY <1>2, <1>3, WriteType
  <2>3. WriteCarries(w, D)
    BY <1>4, <2>1 DEF WriteCarries, Write
  <2> HIDE DEF w
  <2>4. WritesCarry(writes', D)
    BY <1>1, <2>1, <2>2, <2>3, IssuedCarries
  <2>5. CallsCarry(callers', D)
    BY <1>1, <1>2, <2>1, CallMovesCarry
  <2> QED BY <1>1, <1>6, <2>1, <2>4, <2>5 DEF Copies, CopiesNext
<1>10. CASE CallerFindsRunning(r)
  <2>1. /\ id \in Ids /\ IsRunning(queues, id) /\ queues' = RequestInPlace(queues, id, m)
        /\ Issue(UpdateRow(r)) /\ CallerMoves(r, "refresh")
    BY <1>3, <1>10 DEF CallerFindsRunning, m, id
  <2>2. (queues.run[id].rerun \/ m.cron = "none") \in BOOLEAN
    <3>1. queues.run[id].rerun \in BOOLEAN
      BY <1>1, <2>1 DEF IsRunning, QueueState, Entry, TaskMeta
    <3> QED BY <3>1
  <2>3. QueuesCarry(queues', D)
    BY <1>1, <1>3, <1>4, <2>1, <2>2, NoIdAssumption, RefreshCarries DEF RequestInPlace
  <2>4. WritesCarry(writes', D)
    BY <1>7, <2>1
  <2>5. CallsCarry(callers', D)
    BY <1>1, <1>2, <2>1, CallMovesCarry
  <2> QED BY <1>1, <1>6, <2>3, <2>4, <2>5 DEF Copies, CopiesNext
<1>11. CASE CallerFindsIdle(r)
  <2>1. /\ id \in Ids
        /\ \/ CallerMoves(r, "clear") /\ UNCHANGED <<queues, writes>>
           \/ ClearQueued(r)
    BY <1>3, <1>11 DEF CallerFindsIdle, id
  <2>2. CASE ClearQueued(r)
    BY <1>6, <1>8, <2>1, <2>2 DEF Copies, CopiesNext
  <2>3. CASE CallerMoves(r, "clear") /\ UNCHANGED <<queues, writes>>
    <3>1. CallsCarry(callers', D)
      BY <1>1, <1>2, <2>3, CallMovesCarry
    <3> QED BY <1>1, <1>6, <2>3, <3>1 DEF Copies, CopiesNext
  <2> QED BY <2>1, <2>2, <2>3
<1>12. CASE CallerClears(r)
  <2>1. id \in Ids /\ ClearQueued(r)
    BY <1>3, <1>12 DEF CallerClears, Caller
  <2> QED BY <1>6, <1>8, <2>1 DEF Copies, CopiesNext
<1>13. CASE CallerFails(r) \/ CallerRefreshed(r)
  <2>1. Holds(CallerTag(r)) /\ Return /\ CallerReturns(r) /\ queues' = queues
    BY <1>13 DEF CallerFails, CallerRefreshed
  <2>2. WritesCarry(writes', D)
    BY <1>5, <2>1 DEF Return
  <2>3. CallsCarry(callers', D)
    <3>1. "idle" # "found"
      OBVIOUS
    <3> QED BY <1>1, <1>2, <2>1, <3>1, CallMovesCarry
  <2> QED BY <1>1, <1>6, <2>1, <2>2, <2>3 DEF Copies, CopiesNext
<1>14. CASE CallerStoresCron(r)
  <2> DEFINE w == Write(CallerTag(r), "cron", at, None, m)
  <2>1. /\ Holds(CallerTag(r)) /\ wres = "ok" /\ ReturnAndIssue(w) /\ queues' = queues
        /\ callers' = [callers EXCEPT ![r].pc = "setcron", ![r].id = at]
    BY <1>14 DEF CallerStoresCron, m, at
  <2>2. /\ writes # <<>> /\ at \in Ids /\ Carries(m, at, D)
    BY <1>5, <2>1
  <2>3. w \in WriteRecord /\ WriteCarries(w, D)
    BY <1>2, <1>3, <2>2, StatementCarries
  <2> HIDE DEF w
  <2>4. WritesCarry(writes', D)
    BY <1>1, <2>1, <2>2, <2>3, ReturnedCarries
  <2>5. CallsCarry(callers', D)
    BY <1>1, <1>2, <2>1, <2>2, CallMovesCarry DEF m
  <2> QED BY <1>1, <1>6, <2>1, <2>4, <2>5 DEF Copies, CopiesNext
<1>15. CASE CallerQueues(r)
  <2>1. /\ Holds(CallerTag(r)) /\ wres = "ok" /\ Return
        /\ \/ /\ callers' = [callers EXCEPT ![r].pc = "insert", ![r].id = at]
              /\ queues' = queues
           \/ /\ Enqueue(queues, CallerTag(r), at, m)
              /\ \/ callers' = [callers EXCEPT ![r].pc = "resolve", ![r].id = at]
                 \/ CallerReturns(r)
    BY <1>15 DEF CallerQueues, CallerReturns, m, at
  <2>2. at \in Ids /\ Carries(m, at, D) /\ WritesCarry(writes', D)
    BY <1>5, <2>1 DEF Return
  <2>3. QueuesCarry(queues', D)
    BY <1>1, <1>3, <2>1, <2>2, EnqueueCarries
  <2>4. CallsCarry(callers', D)
    <3>1. "insert" # "found" /\ "resolve" # "found"
      OBVIOUS
    <3> QED BY <1>1, <1>2, <2>1, <2>2, <3>1, CallMovesCarry DEF m
  <2> QED BY <1>6, <2>2, <2>3, <2>4 DEF Copies, CopiesNext
<1>16. CASE CallerInserts(r)
  <2>1. /\ id \in Ids /\ queues' = InsertAfresh(queues, id, m) /\ writes' = writes
        /\ CallerMoves(r, "resolve") \/ CallerReturns(r)
    BY <1>3, <1>16 DEF CallerInserts, Caller, m, id
  <2>2. QueuesCarry(queues', D)
    BY <1>1, <1>3, <1>4, <2>1, NoIdAssumption, InsertCarries
  <2>3. CallsCarry(callers', D)
    <3>1. "resolve" # "found"
      OBVIOUS
    <3> QED BY <1>1, <1>2, <2>1, <3>1, CallMovesCarry
  <2> QED BY <1>1, <1>6, <2>1, <2>2, <2>3 DEF CopiesNext, Copies
<1>17. CASE CallerResolves(r)
  <2>1. PICK p \in probes : queues' = AfterProbe(p)
    BY <1>17 DEF CallerResolves
  <2>2. CallerReturns(r) /\ writes' = writes
    BY <1>17 DEF CallerResolves
  <2>3. QueuesCarry(queues', D)
    BY <1>1, <2>1, AfterProbeCarries
  <2>4. CallsCarry(callers', D)
    <3>1. "idle" # "found"
      OBVIOUS
    <3> QED BY <1>1, <1>2, <2>2, <3>1, CallMovesCarry
  <2> QED BY <1>1, <1>6, <2>2, <2>3, <2>4 DEF CopiesNext, Copies
<1> QED BY <1>9, <1>10, <1>11, <1>12, <1>13, <1>14, <1>15, <1>16, <1>17 DEF CallerStep

(* The loader carries what it has read.                                    *)
LEMMA CopiesLoader ==
    ASSUME TypeOK, NEW D, Copies(D), SnapsCarry(loader, D), LoaderStep,
           LoaderReads => \A id \in Ids : Pending(rows, id) =>
             Carries(rows[id], id, D)
    PROVE  CopiesNext(D) /\ SnapsCarry(loader', D)
<1>1. /\ queues \in QueueState /\ QueuesCarry(queues, D)
      /\ loader \in LoaderState
  BY DEF TypeOK, Copies
<1>2. UNCHANGED <<bodies, callers, fin, writes>>
  BY DEF LoaderStep, LoaderReads, LoaderSkips, LoaderQueues, LoaderResolves
<1>3. ASSUME NEW id PROVE SnapsCarry(LoadedRow(id), D)
  <2> DEFINE l == [loader EXCEPT !.pc = "loop", !.todo = @ \ {id}, !.snap[id] = None]
  <2>1. SnapsCarry([Unloaded EXCEPT !.pc = "done"], D)
    BY DEF SnapsCarry, Unloaded
  <2>2. /\ l.todo = loader.todo \ {id}
        /\ \A o \in l.todo : l.snap[o] = loader.snap[o]
    BY <1>1 DEF LoaderState, Table
  <2> HIDE DEF l
  <2>3. SnapsCarry(l, D)
    BY <2>2 DEF SnapsCarry
  <2> QED BY <2>1, <2>3 DEF LoadedRow, l
<1>4. CASE LoaderReads
  <2> DEFINE todo == {id \in Ids : Pending(rows, id)}
             snap == [id \in Ids |-> IF id \in todo THEN rows[id] ELSE None]
  <2>1. /\ queues' = queues
        /\ loader' \in {[Unloaded EXCEPT !.pc = "done"],
                        [pc |-> "loop", todo |-> todo, snap |-> snap]}
    BY <1>4 DEF LoaderReads
  <2>2. \A id \in todo : Carries(snap[id], id, D)
    BY <1>4
  <2>3. SnapsCarry([Unloaded EXCEPT !.pc = "done"], D)
    BY DEF SnapsCarry, Unloaded
  <2> HIDE DEF todo, snap
  <2>4. SnapsCarry([pc |-> "loop", todo |-> todo, snap |-> snap], D)
    BY <2>2 DEF SnapsCarry
  <2>5. SnapsCarry(loader', D)
    BY <2>1, <2>3, <2>4
  <2> QED BY <1>1, <1>2, <2>1, <2>5 DEF Copies, CopiesNext
<1>5. ASSUME NEW id \in Ids, LoaderSkips(id)
      PROVE  CopiesNext(D) /\ SnapsCarry(loader', D)
  BY <1>1, <1>2, <1>3, <1>5 DEF LoaderSkips, Copies, CopiesNext
<1>6. ASSUME NEW id \in Ids, LoaderQueues(id)
      PROVE  CopiesNext(D) /\ SnapsCarry(loader', D)
  <2> DEFINE m == LoadedMeta(loader.snap[id])
  <2>1. /\ id \in loader.todo /\ Enqueue(queues, LoaderTag, id, m)
        /\ \/ loader' = [loader EXCEPT !.pc = "resolve"]
           \/ loader' = LoadedRow(id)
    BY <1>6 DEF LoaderQueues
  <2>2. Carries(loader.snap[id], id, D) /\ loader.snap[id] \in Row
    BY <2>1 DEF SnapsCarry, TypeOK, LoaderState, Table
  <2>3. m \in TaskMeta
    BY <2>2, LoadedMetaType
  <2>4. Carries(m, id, D)
    BY <2>2 DEF Carries, LoadedMeta
  <2> HIDE DEF m
  <2>5. QueuesCarry(queues', D)
    BY <1>1, <2>1, <2>3, <2>4, EnqueueCarries
  <2>6. SnapsCarry(loader', D)
    <3>1. SnapsCarry([loader EXCEPT !.pc = "resolve"], D)
      <4>1. /\ ([loader EXCEPT !.pc = "resolve"]).todo = loader.todo
            /\ ([loader EXCEPT !.pc = "resolve"]).snap = loader.snap
        BY <1>1 DEF LoaderState
      <4> QED BY <4>1 DEF SnapsCarry
    <3> QED BY <1>3, <2>1, <3>1
  <2> QED BY <1>2, <2>5, <2>6 DEF Copies, CopiesNext
<1>7. CASE LoaderResolves
  <2>1. PICK p \in probes : queues' = AfterProbe(p) /\ loader' = LoadedRow(p.id)
    BY <1>7 DEF LoaderResolves
  <2>2. QueuesCarry(queues', D)
    BY <1>1, <2>1, AfterProbeCarries
  <2> QED BY <1>2, <1>3, <2>1, <2>2 DEF Copies, CopiesNext
<1> QED BY <1>4, <1>5, <1>6, <1>7 DEF LoaderStep

(* More may be carried later.                                              *)
LEMMA CopiesGrow ==
    ASSUME NEW D, NEW E, D \subseteq E
    PROVE  /\ Copies(D) => Copies(E)
           /\ CopiesNext(D) => CopiesNext(E)
           /\ \A l : SnapsCarry(l, D) => SnapsCarry(l, E)
<1>1. \A m, id : Carries(m, id, D) => Carries(m, id, E)
  BY DEF Carries
<1>2. /\ \A q : QueuesCarry(q, D) => QueuesCarry(q, E)
      /\ \A f : FinCarries(f, D) => FinCarries(f, E)
      /\ \A l : SnapsCarry(l, D) => SnapsCarry(l, E)
      /\ \A bs : BodiesCarry(bs, D) => BodiesCarry(bs, E)
  BY <1>1 DEF QueuesCarry, FinCarries, SnapsCarry, BodiesCarry
<1>3. /\ \A c : CallCarries(c, D) => CallCarries(c, E)
      /\ \A w : WriteCarries(w, D) => WriteCarries(w, E)
  BY <1>1 DEF CallCarries, WriteCarries
<1>4. /\ \A cs : CallsCarry(cs, D) => CallsCarry(cs, E)
      /\ \A ws : WritesCarry(ws, D) => WritesCarry(ws, E)
  BY <1>3 DEF CallsCarry, WritesCarry
<1> QED BY <1>2, <1>4 DEF Copies, CopiesNext

(* A write that takes effect, where the task it creates may be carried.    *)
LEMMA CopiesEffect ==
    ASSUME TypeOK, DepsInv, NEW D, NEW E, Copies(D), D \subseteq E, WriteEffect,
           NEW w \in WriteRecord, writes' = [writes EXCEPT ![1] = w],
           w.who = Head(writes).who, w.op # "create" => w = Head(writes),
           w.op = "create" => /\ Carries(w.meta, w.id, E)
                              /\ w.meta = Head(writes).meta /\ w.key = Head(writes).key
                              /\ Head(writes).op = "create"
    PROVE  CopiesNext(E)
<1>1. Copies(E)
  BY CopiesGrow
<1>2. writes \in Seq(WriteRecord) /\ writes # <<>> /\ WritesCarry(writes, E)
  BY <1>1 DEF TypeOK, WriteEffect, Copies
<1>3. WriteCarries(Head(writes), E)
  BY <1>2, ReturnCarries
<1>4. WriteCarries(w, E)
  BY <1>3 DEF WriteCarries
<1>5. UnderWay(writes') \subseteq UnderWay(writes) \cup {w}
  <2>1. OneEach(writes)
    BY DEF DepsInv, WritesFit
  <2> QED BY <1>2, <2>1, UnderWayChange
<1>6. WritesCarry(writes', E)
  BY <1>2, <1>4, <1>5 DEF WritesCarry
<1> QED BY <1>1, <1>6 DEF WriteEffect, Copies, CopiesNext

(* Memory is gone.                                                         *)
LEMMA CopiesCrash ==
    ASSUME NEW D, Crash
    PROVE  CopiesNext(D) /\ SnapsCarry(loader', D)
<1>1. /\ queues' = EmptyQueues /\ bodies' = [b \in Bodies |-> NoBody]
      /\ callers' = [r \in Callers |-> Idle] /\ fin' = FinIdle /\ writes' = <<>>
      /\ loader' = Unloaded
  BY DEF Crash
<1>2. QueuesCarry(queues', D)
  BY <1>1 DEF QueuesCarry, EmptyQueues, IsRunning, IsWaiting
<1>3. BodiesCarry(bodies', D) /\ FinCarries(fin', D)
  BY <1>1 DEF BodiesCarry, NoBody, FinCarries, FinIdle
<1>4. CallsCarry(callers', D) /\ WritesCarry(writes', D)
  BY <1>1 DEF CallsCarry, CallCarries, Idle, WritesCarry, UnderWay
<1>5. SnapsCarry(loader', D)
  BY <1>1 DEF SnapsCarry, Unloaded
<1> QED BY <1>2, <1>3, <1>4, <1>5 DEF CopiesNext

(* Initially there are no copies.                                          *)
LEMMA CopiesFirst ==
    ASSUME NEW D, Init
    PROVE  Copies(D) /\ SnapsCarry(loader, D)
<1>1. /\ queues = EmptyQueues /\ bodies = [b \in Bodies |-> NoBody]
      /\ callers = [r \in Callers |-> Idle] /\ fin = FinIdle /\ writes = <<>>
      /\ loader = Unloaded
  BY DEF Init
<1>2. QueuesCarry(queues, D)
  BY <1>1 DEF QueuesCarry, EmptyQueues, IsRunning, IsWaiting
<1>3. BodiesCarry(bodies, D) /\ FinCarries(fin, D)
  BY <1>1 DEF BodiesCarry, NoBody, FinCarries, FinIdle
<1>4. CallsCarry(callers, D) /\ WritesCarry(writes, D)
  BY <1>1 DEF CallsCarry, CallCarries, Idle, WritesCarry, UnderWay
<1>5. SnapsCarry(loader, D)
  BY <1>1 DEF SnapsCarry, Unloaded
<1> QED BY <1>2, <1>3, <1>4, <1>5 DEF Copies

-----------------------------------------------------------------------------
(* A request that is owed a run.  Where requests with the same key have the *)
(* same input and none recurs, what a copy may carry is what its row says,  *)
(* nothing is taken out of a queue for a new input, and a running task with *)
(* a request to honour has its flag set.                                    *)
Inputs(table) == {<<id, table[id].param, "none">> : id \in {o \in Ids : table[o] # None}}

RowsAsked ==
    \A id \in Ids : rows[id] # None =>
      /\ rows[id].cron = "none"
      /\ rows[id].key # None => <<rows[id].key, rows[id].param, "none">> \in Asks

NoneChanged == \A r \in Callers : ~callers[r].changed

OwedRuns ==
    \A id \in Ids : owed[id] # None =>
      /\ rows[id] # None /\ owed[id] = rows[id].param
      /\ IsRunning(queues, id) => queues.run[id].rerun

CallsOn(cs, id) ==
    \E r \in Callers : /\ cs[r].pc \in {"clear", "setcron", "update", "insert"}
                       /\ cs[r].id = id

Keeps(id) == \/ InQueues(queues, id) \/ CallsOn(callers, id)
             \/ Created(writes, wres, id)

(* From a restart until the loader gets to it, a request is kept by its    *)
(* row, in the table or as the loader has read it; nothing is under way    *)
(* that could close the row, and no answer that ends the loader's work on  *)
(* it.                                                                     *)
Settling == {"finish", "fail"}
Leaves(ws, o) == \A w \in UnderWay(ws) : w.id = o => w.op \notin Settling
NoBodyOf(bs, o) == \A l \in Lanes : bs[<<o, l>>].pc = "off"
Unasked(ps, o) == \A p \in ps : p.who = LoaderTag => p.id # o
ToLoad(o) ==
    /\ \/ loader.pc = "start" /\ Pending(rows, o) /\ Buildable(rows[o])
       \/ loader.pc # "start" /\ o \in loader.todo /\ Buildable(loader.snap[o])
    /\ NoBodyOf(bodies, o) /\ Leaves(writes, o) /\ Unasked(probes, o)

OwedKept ==
    /\ NoFault
    /\ \A id \in Ids : owed[id] # None => Keeps(id) \/ ToLoad(id) \/ id \in counts.lost

HonourInv ==
    /\ Copies(Inputs(rows)) /\ SnapsCarry(loader, Inputs(rows))
    /\ RowsAsked /\ NoneChanged /\ OwedRuns
    /\ counts.faults = 0 => OwedKept

(* What a step does to a request that is owed: it still is, and whoever    *)
(* kept it or another still does, or the step is the one that accepts it.  *)
KeepsReruns(qs, q) ==
    \A o \in Ids : IsRunning(q, o) =>
      /\ IsRunning(qs, o)
      /\ qs.run[o].rerun => q.run[o].rerun

StillRuns(o) ==
    /\ owed'[o] = owed[o]
    /\ IsRunning(queues', o) =>
         /\ IsRunning(queues, o)
         /\ queues.run[o].rerun => queues'.run[o].rerun
StillKept(o) == Keeps(o) => Keeps(o)'
LoadsOn == \A o \in Ids : ToLoad(o) => ToLoad(o)' \/ Keeps(o) \/ Keeps(o)'
NowOwed(o) ==
    /\ rows'[o] # None /\ owed'[o] = rows'[o].param
    /\ IsRunning(queues', o) => queues'.run[o].rerun
    /\ Keeps(o)'

WritesKept == \A o : Created(writes, wres, o) => Created(writes', wres', o)

OwedMoves ==
    \A o \in Ids : owed'[o] # None =>
      NowOwed(o) \/ (StillRuns(o) /\ (counts.faults = 0 => StillKept(o)))

(* A step that does this to every request keeps the invariant.             *)
LEMMA MovesHonour ==
    ASSUME HonourInv, OwedMoves, CopiesNext(Inputs(rows')), SnapsCarry(loader', Inputs(rows')),
           RowsAsked', NoneChanged', counts'.faults = 0 => counts.faults = 0 /\ NoFault',
           LoadsOn, counts'.lost = counts.lost,
           \A o \in Ids : rows[o] # None =>
             rows'[o] # None /\ rows'[o].param = rows[o].param
    PROVE  HonourInv'
<1>1. Copies(Inputs(rows))' /\ SnapsCarry(loader, Inputs(rows))'
  BY DEF CopiesNext, Copies
<1>2. OwedRuns'
  <2>1. SUFFICES ASSUME NEW o \in Ids, owed'[o] # None
                 PROVE  /\ rows'[o] # None /\ owed'[o] = rows'[o].param
                        /\ IsRunning(queues', o) => queues'.run[o].rerun
    BY DEF OwedRuns
  <2>2. CASE NowOwed(o)
    BY <2>2 DEF NowOwed
  <2>3. CASE StillRuns(o)
    BY <2>1, <2>3 DEF StillRuns, HonourInv, OwedRuns
  <2> QED BY <2>1, <2>2, <2>3 DEF OwedMoves
<1>3. ASSUME counts'.faults = 0, NEW o \in Ids, owed'[o] # None
      PROVE  Keeps(o)' \/ ToLoad(o)' \/ o \in counts'.lost
  <2>1. CASE NowOwed(o)
    BY <2>1 DEF NowOwed
  <2>2. CASE StillRuns(o) /\ (counts.faults = 0 => StillKept(o))
    <3>1. counts.faults = 0 /\ owed[o] # None
      BY <1>3, <2>2 DEF StillRuns
    <3>2. Keeps(o) \/ ToLoad(o) \/ o \in counts.lost
      BY <3>1 DEF HonourInv, OwedKept
    <3>3. Keeps(o) => Keeps(o)'
      BY <2>2, <3>1 DEF StillKept
    <3> QED BY <3>2, <3>3 DEF LoadsOn
  <2> QED BY <1>3, <2>1, <2>2 DEF OwedMoves
<1>4. counts'.faults = 0 => OwedKept'
  BY <1>3 DEF OwedKept
<1> QED BY <1>1, <1>2, <1>4 DEF HonourInv

(* What is carried has the input that is owed, and no recurrence.          *)
LEMMA CarriesOwed ==
    ASSUME OwedRuns, NEW id \in Ids, NEW m, Carries(m, id, Inputs(rows))
    PROVE  /\ rows[id] # None /\ m.param = rows[id].param /\ m.cron = "none"
           /\ owed[id] # None => m.param = owed[id]
<1>1. PICK o \in {i \in Ids : rows[i] # None} :
        <<id, m.param, m.cron>> = <<o, rows[o].param, "none">>
  BY DEF Carries, Inputs
<1> QED BY <1>1 DEF OwedRuns

(* The flags through the operations on the queues.                         *)
LEMMA SameReruns ==
    ASSUME NEW qs, NEW q, q.run = qs.run
    PROVE  KeepsReruns(qs, q)
BY DEF KeepsReruns, IsRunning

(* Two operations in a row.                                                *)
LEMMA RerunsTwice ==
    ASSUME NEW q1, NEW q2, NEW q3, KeepsReruns(q1, q2), KeepsReruns(q2, q3)
    PROVE  KeepsReruns(q1, q3)
BY DEF KeepsReruns

(* Taking the entry of a run leaves the flags of the others.               *)
LEMMA TakeReruns ==
    ASSUME NEW qs \in QueueState, NEW id \in Ids
    PROVE  KeepsReruns(qs, TakeRunning(qs, id))
BY DEF KeepsReruns, TakeRunning, QueueState, IsRunning

(* A fresh insertion is not of a running task.                             *)
LEMMA InsertReruns ==
    ASSUME NEW qs \in QueueState, NEW id \in Ids, NEW m \in TaskMeta
    PROVE  InsertAfresh(qs, id, m).run = qs.run
<1>1. Unqueue(qs, id) \in QueueState /\ Unqueue(qs, id).run = qs.run
  BY UnqueueType DEF Unqueue, QueueState
<1> QED BY <1>1 DEF InsertAfresh, Insert, Schedule, Await, QueueState

(* add_queue sets flags and never resets one.                              *)
LEMMA AddQueueReruns ==
    ASSUME NEW qs \in QueueState, NEW id \in Ids, NEW m \in TaskMeta
    PROVE  KeepsReruns(qs, AddQueue(qs, id, m))
<1>1. CASE IsRunning(qs, id)
  <2> DEFINE e == [m EXCEPT !.rerun = qs.run[id].rerun]
             q == AddQueue(qs, id, m)
  <2>1. qs.run[id].rerun \in BOOLEAN
    BY <1>1 DEF IsRunning, QueueState, Entry, TaskMeta
  <2>2. e.rerun = qs.run[id].rerun
    BY DEF TaskMeta
  <2>3. q.run = [qs.run EXCEPT ![id] = e]
    BY <1>1 DEF AddQueue, RefreshRunning, QueueState
  <2> HIDE DEF e, q
  <2>4. \A o \in Ids : q.run[o] = IF o = id THEN e ELSE qs.run[o]
    BY <2>3 DEF QueueState
  <2>5. KeepsReruns(qs, q)
    BY <1>1, <2>2, <2>4 DEF KeepsReruns, IsRunning
  <2> QED BY <2>5 DEF q
<1>2. CASE ~IsRunning(qs, id)
  BY <1>2, InsertReruns, SameReruns DEF AddQueue
<1> QED BY <1>1, <1>2

(* Resolving dependencies leaves the running entries.                      *)
LEMMA ResolveReruns ==
    ASSUME NEW qs \in QueueState, NEW id, NEW deps, NEW completed
    PROVE  ResolveDeps(qs, id, deps, completed).run = qs.run
BY DEF ResolveDeps, QueueState

(* Only the flag of the task itself is cleared.                            *)
LEMMA ClearReruns ==
    ASSUME NEW qs \in QueueState, NEW id \in Ids, NEW o \in Ids, o # id
    PROVE  ClearRerunRequest(qs, id).run[o] = qs.run[o]
BY DEF ClearRerunRequest, QueueState

(* A body that starts pays what its input is owed.                         *)
LEMMA SpawnPays ==
    ASSUME owed \in [Ids -> Params \cup {None}], NEW S, NEW meta, Spawn(S, meta),
           \A id \in S \cap Ids : owed[id] # None => meta[id].param = owed[id]
    PROVE  \A o \in Ids : owed'[o] # None => o \notin S /\ owed'[o] = owed[o]
BY DEF Spawn

(* The bodies a release starts pay what is owed, the rest stays.           *)
LEMMA ReleasePays ==
    ASSUME TypeOK, HonourInv, NEW qs \in QueueState, QueuesCarry(qs, Inputs(rows)),
           KeepsReruns(queues, qs), NEW id \in Ids, Release(qs, id)
    PROVE  /\ \A o \in Ids : owed'[o] # None => StillRuns(o)
           /\ KeepsAll(qs, queues')
<1> DEFINE q == ReleaseDependents(qs, id)
<1>1. queues' = q /\ Spawn(Ready(qs, id), q.run) /\ KeepsAll(qs, q)
  BY ReleaseDependentsKeeps DEF Release
<1>2. \A w \in Ids : q.run[w] = IF w \in Ready(qs, id) THEN ForgetDep(qs.wait[w], id)
                                                       ELSE qs.run[w]
  BY DEF ReleaseDependents, QueueState
<1> HIDE DEF q
<1>3. ASSUME NEW w \in Ready(qs, id), owed[w] # None
      PROVE  q.run[w].param = owed[w]
  <2>1. w \in Ids /\ IsWaiting(qs, w)
    BY DEF Ready, Dependents
  <2>2. qs.wait[w] \in TaskMeta /\ Carries(qs.wait[w], w, Inputs(rows))
    BY <2>1 DEF IsWaiting, QueueState, Entry, QueuesCarry
  <2>3. Carries(ForgetDep(qs.wait[w], id), w, Inputs(rows))
    BY <2>2, ForgetCarries
  <2> QED BY <1>2, <1>3, <2>1, <2>3, CarriesOwed DEF HonourInv
<1>4. \A o \in Ids : owed'[o] # None => o \notin Ready(qs, id) /\ owed'[o] = owed[o]
  BY <1>1, <1>3, SpawnPays DEF TypeOK
<1>5. ASSUME NEW o \in Ids, owed'[o] # None
      PROVE  StillRuns(o)
  <2>1. q.run[o] = qs.run[o] /\ owed'[o] = owed[o]
    BY <1>2, <1>4, <1>5
  <2> QED BY <1>1, <2>1 DEF StillRuns, KeepsReruns, IsRunning
<1> QED BY <1>1, <1>5

(* The writes: a created task whose call has not gone on stays so.         *)
LEMMA WritesStep ==
    ASSUME TypeOK,
           \/ UNCHANGED <<writes, wres>>
           \/ \E w \in WriteRecord : Issue(w)
           \/ /\ writes # <<>> /\ Head(writes).op # "create"
              /\ Return \/ \E w : ReturnAndIssue(w)
    PROVE  WritesKept /\ (NoFault => NoFault')
<1>1. CASE UNCHANGED <<writes, wres>>
  BY <1>1 DEF WritesKept, NoFault
<1>2. ASSUME NEW w \in WriteRecord, Issue(w)
      PROVE  WritesKept /\ (NoFault => NoFault')
  <2>1. WritesKept
    BY <1>2, CreatedKept DEF WritesKept
  <2>2. ASSUME writes # <<>> PROVE Head(Append(writes, w)) = Head(writes)
                                   /\ Append(writes, w) # <<>>
    <3>1. writes \in Seq(WriteRecord)
      BY DEF TypeOK
    <3> QED BY <2>2, <3>1
  <2>3. NoFault => NoFault'
    BY <1>2, <2>2 DEF Issue, NoFault
  <2> QED BY <2>1, <2>3
<1>3. CASE /\ writes # <<>> /\ Head(writes).op # "create"
           /\ Return \/ \E w : ReturnAndIssue(w)
  <2>1. wres' = "busy"
    BY <1>3 DEF Return, ReturnAndIssue
  <2> QED BY <1>3, <2>1 DEF WritesKept, NoFault, Created
<1> QED BY <1>1, <1>2, <1>3

(* Whoever keeps a request still does.                                     *)
LEMMA FutureKeeps ==
    ASSUME UNCHANGED callers, WritesKept, NEW o \in Ids,
           InQueues(queues, o) => InQueues(queues', o)
    PROVE  StillKept(o)
BY DEF StillKept, Keeps, WritesKept

(* The steps.                                                              *)
LEMMA OwedDispatch ==
    ASSUME TypeOK, HonourInv, NEW s \in Slots, NEW id \in Ids, Dispatch(s, id)
    PROVE  OwedMoves /\ (NoFault => NoFault')
<1> DEFINE q == StartScheduled(queues, s, id)
<1>1. /\ queues.sched[<<s, id>>] # None /\ queues' = q /\ Spawn({id}, q.run)
      /\ UNCHANGED <<callers, writes, wres>> /\ queues \in QueueState
  BY DEF Dispatch, TypeOK
<1>2. KeepsAll(queues, q)
  BY <1>1, StartKeeps
<1>3. q.run = [queues.run EXCEPT ![id] = queues.sched[<<s, id>>]]
  BY <1>1 DEF StartScheduled, QueueState
<1>4. Carries(queues.sched[<<s, id>>], id, Inputs(rows)) /\ OwedRuns
  BY <1>1 DEF HonourInv, Copies, QueuesCarry
<1> HIDE DEF q
<1>5. q.run[id] = queues.sched[<<s, id>>] /\ \A o \in Ids : o # id => q.run[o] = queues.run[o]
  BY <1>1, <1>3 DEF QueueState
<1>6. owed[id] # None => q.run[id].param = owed[id]
  BY <1>4, <1>5, CarriesOwed
<1>7. \A o \in Ids : owed'[o] # None => o # id /\ owed'[o] = owed[o]
  <2>1. owed \in [Ids -> Params \cup {None}]
    BY DEF TypeOK
  <2> QED BY <1>1, <1>6, <2>1, SpawnPays
<1>8. WritesKept /\ (NoFault => NoFault')
  BY <1>1, WritesStep
<1>9. \A o \in Ids : StillKept(o)
  BY <1>1, <1>2, <1>8, FutureKeeps DEF KeepsAll
<1>10. ASSUME NEW o \in Ids, owed'[o] # None PROVE StillRuns(o)
  BY <1>1, <1>5, <1>7, <1>10 DEF StillRuns, IsRunning
<1> QED BY <1>8, <1>9, <1>10 DEF OwedMoves

(* A step that starts no body and keeps every task.                        *)
LEMMA QuietMoves ==
    ASSUME \A o \in Ids : StillKept(o), UNCHANGED owed, KeepsReruns(queues, queues')
    PROVE  OwedMoves
BY DEF OwedMoves, StillRuns, KeepsReruns

(* A result awaited by a run or the finish handler is of no create.        *)
LEMMA HeldByFuture ==
    ASSUME TypeOK, DepsInv
    PROVE  /\ \A b \in Bodies : Holds(BodyTag(b)) => Head(writes).op # "create"
           /\ Holds(FinisherTag) => Head(writes).op # "create"
<1>1. writes # <<>> => Owned(Head(writes), callers, bodies, fin)
  BY HeadOwned
<1> QED BY <1>1, OwnedMeans DEF Holds

(* The steps of a run.  One that gives up leaves nothing owed.             *)
LEMMA OwedBody ==
    ASSUME TypeOK, DepsInv, HonourInv, NEW b \in Bodies, BodyStep(b)
    PROVE  OwedMoves /\ (NoFault => NoFault')
<1>1. /\ queues \in QueueState /\ b[1] \in Ids /\ UNCHANGED callers
      /\ owed \in [Ids -> Params \cup {None}]
  BY BodiesType
     DEF TypeOK, BodyStep, BodySucceeds, BodyFails, BodyErrorStored, BodyRetries,
         BodyResolves, BodyGivesUp
<1>2. ASSUME WritesKept, KeepsAll(queues, queues') PROVE \A o \in Ids : StillKept(o)
  BY <1>1, <1>2, FutureKeeps DEF KeepsAll
<1>3. ASSUME queues' = queues PROVE KeepsAll(queues, queues') /\ KeepsReruns(queues, queues')
  BY <1>3, SameReruns DEF KeepsAll
<1>4. CASE BodySucceeds(b)
  <2>1. UNCHANGED <<queues, writes, wres, owed>>
    BY <1>4 DEF BodySucceeds
  <2> QED BY <1>2, <1>3, <2>1, WritesStep, QuietMoves
<1>5. ASSUME NEW perm \in BOOLEAN, BodyFails(b, perm)
      PROVE  OwedMoves /\ (NoFault => NoFault')
  <2> DEFINE op == ErrorOp(bodies[b].meta, ShouldRetry(b, perm))
             w == Write(BodyTag(b), op, b[1], None, bodies[b].meta)
  <2>1. Issue(w) /\ UNCHANGED <<queues, owed>> /\ bodies[b].pc # "off"
    BY <1>5 DEF BodyFails, Body, history
  <2>2. op \in {"cron", "update", "finish", "undep", "postpone", "fail"}
        /\ BodyTag(b) \in Tags /\ bodies[b].meta \in TaskMeta
    BY <2>1, TagTypes, BodyMeta DEF ErrorOp
  <2> HIDE DEF op
  <2>3. w \in WriteRecord
    BY <1>1, <2>2, WriteType
  <2> HIDE DEF w
  <2> QED BY <1>2, <1>3, <2>1, <2>3, WritesStep, QuietMoves
<1>6. CASE BodyErrorStored(b)
  <2>1. UNCHANGED <<queues, owed>> /\ Return /\ Holds(BodyTag(b))
    BY <1>6 DEF BodyErrorStored, history
  <2>2. writes # <<>> /\ Head(writes).op # "create"
    BY <2>1, HeldByFuture DEF Holds
  <2> QED BY <1>2, <1>3, <2>1, <2>2, WritesStep, QuietMoves
<1>7. CASE BodyRetries(b)
  <2> DEFINE taken == TakeRunning(queues, b[1])
             m == RetryMeta(b)
  <2>1. queues' = AddQueue(taken, b[1], m) /\ UNCHANGED <<writes, wres, owed>>
        /\ bodies[b].pc # "off"
    BY <1>7 DEF BodyRetries, Enqueue, Body, history
  <2>2. taken \in QueueState /\ m \in TaskMeta
    BY <1>1, <2>1, TakeRunningType, RetryMetaType
  <2>3. /\ KeepsReruns(queues, taken)
        /\ \A o \in Ids : o # b[1] /\ InQueues(queues, o) => InQueues(taken, o)
    BY <1>1, TakeReruns, TakeKeeps
  <2> HIDE DEF taken, m
  <2>4. KeepsReruns(queues, queues')
    BY <1>1, <2>1, <2>2, <2>3, AddQueueReruns, RerunsTwice
  <2>5. KeepsAll(queues, queues')
    <3>1. KeepsAll(taken, queues') /\ InQueues(queues', b[1])
      BY <1>1, <2>1, <2>2, AddQueueKeeps
    <3> QED BY <2>3, <3>1 DEF KeepsAll
  <2> QED BY <1>2, <2>1, <2>4, <2>5, WritesStep, QuietMoves
<1>8. CASE BodyResolves(b)
  <2>1. PICK p \in probes : queues' = AfterProbe(p)
    BY <1>8 DEF BodyResolves
  <2>2. UNCHANGED <<writes, wres, owed>>
    BY <1>8 DEF BodyResolves, history
  <2>3. KeepsAll(queues, queues') /\ KeepsReruns(queues, queues')
    <3>1. queues'.run = queues.run
      BY <1>1, <2>1, ResolveReruns DEF AfterProbe
    <3> QED BY <2>1, <3>1, AfterProbeKeeps, SameReruns
  <2> QED BY <1>2, <2>2, <2>3, WritesStep, QuietMoves
<1>9. CASE BodyGivesUp(b)
  <2>1. /\ queues' = ClearRerunRequest(queues, b[1]) /\ UNCHANGED <<writes, wres>>
        /\ owed' = [owed EXCEPT ![b[1]] = None]
    BY <1>9 DEF BodyGivesUp
  <2>2. KeepsAll(queues, queues')
        /\ \A o \in Ids : o # b[1] => queues'.run[o] = queues.run[o]
    BY <1>1, <2>1, ClearKeeps, ClearReruns
  <2>3. \A o \in Ids : owed'[o] # None => o # b[1] /\ owed'[o] = owed[o]
    BY <1>1, <2>1
  <2>4. \A o \in Ids : owed'[o] # None => StillRuns(o)
    BY <2>2, <2>3 DEF StillRuns, IsRunning
  <2>5. WritesKept /\ (NoFault => NoFault')
    BY <2>1, WritesStep
  <2> QED BY <1>2, <2>2, <2>4, <2>5 DEF OwedMoves
<1> QED BY <1>4, <1>5, <1>6, <1>7, <1>8, <1>9 DEF BodyStep

(* The finish handler: a flagged entry is queued again, not finished.      *)
LEMMA OwedFin ==
    ASSUME TypeOK, DepsInv, HonourInv, FinStep
    PROVE  OwedMoves /\ (NoFault => NoFault')
<1>1. /\ queues \in QueueState /\ UNCHANGED callers /\ QueuesCarry(queues, Inputs(rows))
      /\ owed \in [Ids -> Params \cup {None}] /\ FinCarries(fin, Inputs(rows)) /\ OwedRuns
  BY DEF TypeOK, HonourInv, Copies, FinStep, FinNotFound, FinReruns, FinStores,
         FinCronStored, FinResolves, FinRowStamped, FinFinished
<1>2. ASSUME WritesKept, KeepsAll(queues, queues') PROVE \A o \in Ids : StillKept(o)
  BY <1>1, <1>2, FutureKeeps DEF KeepsAll
<1>3. KeepsAll(queues, queues) /\ KeepsReruns(queues, queues)
  BY SameReruns DEF KeepsAll
<1>4. Holds(FinisherTag) => writes # <<>> /\ Head(writes).op # "create"
  BY HeldByFuture DEF Holds
<1>5. FinisherTag \in Tags
  BY TagTypes
<1>6. fin.pc # "idle" => /\ fin.id \in Ids /\ fin.meta \in TaskMeta
                         /\ Carries(fin.meta, fin.id, Inputs(rows))
  BY <1>1, FinMeta DEF FinCarries
<1>7. ASSUME NEW qs \in QueueState, QueuesCarry(qs, Inputs(rows)), KeepsReruns(queues, qs),
             KeepsAll(queues, qs), NEW id \in Ids, Release(qs, id),
             WritesKept /\ (NoFault => NoFault')
      PROVE  OwedMoves /\ (NoFault => NoFault')
  <2>1. (\A o \in Ids : owed'[o] # None => StillRuns(o)) /\ KeepsAll(qs, queues')
    BY <1>7, ReleasePays
  <2>2. KeepsAll(queues, queues')
    BY <1>7, <2>1 DEF KeepsAll
  <2> QED BY <1>2, <1>7, <2>1, <2>2 DEF OwedMoves
<1>8. ASSUME NEW id \in Ids, FinNotFound(id)
      PROVE  OwedMoves /\ (NoFault => NoFault')
  <2>1. UNCHANGED <<queues, writes, wres, owed>>
    BY <1>8 DEF FinNotFound, history
  <2> QED BY <1>2, <1>3, <2>1, WritesStep, QuietMoves
<1>9. ASSUME NEW id \in Ids, FinReruns(id)
      PROVE  OwedMoves /\ (NoFault => NoFault')
  <2> DEFINE m == RerunMeta(queues.run[id])
             taken == TakeRunning(queues, id)
             q == AddQueue(taken, id, m)
  <2>1. /\ IsRunning(queues, id) /\ UNCHANGED <<writes, wres>>
        /\ (queues' = q /\ UNCHANGED owed) \/ Release(q, id)
    BY <1>9 DEF FinReruns, Enqueue
  <2>2. queues.run[id] \in TaskMeta /\ Carries(queues.run[id], id, Inputs(rows))
    BY <1>1, <2>1 DEF IsRunning, QueueState, Entry, QueuesCarry
  <2>3. m \in TaskMeta /\ m.param = queues.run[id].param /\ m.cron = queues.run[id].cron
    <3>1. m \in TaskMeta
      BY <2>2, MetaType DEF RerunMeta, Slots
    <3> QED BY <2>2, <3>1 DEF RerunMeta, TaskMeta
  <2>4. /\ taken \in QueueState /\ KeepsReruns(queues, taken)
        /\ QueuesCarry(taken, Inputs(rows))
        /\ \A o \in Ids : o # id /\ InQueues(queues, o) => InQueues(taken, o)
    BY <1>1, TakeRunningType, TakeReruns, TakeKeeps, TakeCarries
  <2> HIDE DEF taken, m
  <2>5. Carries(m, id, Inputs(rows))
    BY <2>2, <2>3, SameCarries
  <2>6. q \in QueueState /\ QueuesCarry(q, Inputs(rows)) /\ KeepsReruns(queues, q)
    BY <2>3, <2>4, <2>5, AddQueueType, AddQueueCarries, AddQueueReruns, RerunsTwice
  <2>7. KeepsAll(queues, q)
    <3>1. KeepsAll(taken, q) /\ InQueues(q, id)
      BY <2>3, <2>4, AddQueueKeeps
    <3> QED BY <2>4, <3>1 DEF KeepsAll
  <2> HIDE DEF q
  <2>8. WritesKept /\ (NoFault => NoFault')
    BY <2>1, WritesStep
  <2>9. CASE Release(q, id)
    BY <1>7, <2>6, <2>7, <2>8, <2>9
  <2>10. CASE queues' = q /\ UNCHANGED owed
    BY <1>2, <2>6, <2>7, <2>8, <2>10, QuietMoves
  <2> QED BY <2>1, <2>9, <2>10
<1>10. ASSUME NEW id \in Ids, FinStores(id)
       PROVE  OwedMoves /\ (NoFault => NoFault')
  <2> DEFINE m == queues.run[id]
             recurs == m.cron = "recurs"
             upd == IF recurs THEN [m EXCEPT !.next = "later"] ELSE m
             op == IF recurs THEN "update" ELSE "finish"
             w == Write(FinisherTag, op, id, None, upd)
  <2>1. /\ IsRunning(queues, id) /\ ~m.rerun /\ queues' = TakeRunning(queues, id)
        /\ Issue(w) /\ UNCHANGED owed
    BY <1>10 DEF FinStores, WantsRerun, history
  <2>2. m \in TaskMeta
    BY <1>1, <2>1 DEF IsRunning, QueueState, Entry
  <2>3. upd \in TaskMeta
    BY <2>2, MetaType DEF Slots
  <2> HIDE DEF upd
  <2>4. w \in WriteRecord
    <3>1. op \in {"cron", "update", "finish", "undep", "postpone", "fail"}
      OBVIOUS
    <3> HIDE DEF op
    <3> QED BY <1>5, <2>3, <3>1, WriteType
  <2> HIDE DEF w
  <2>5. WritesKept /\ (NoFault => NoFault')
    BY <2>1, <2>4, WritesStep
  <2>6. owed[id] = None
    BY <1>1, <2>1 DEF OwedRuns
  <2>7. \A o \in Ids : o # id => StillKept(o)
    <3>1. \A o \in Ids : o # id /\ InQueues(queues, o) => InQueues(queues', o)
      BY <1>1, <2>1, TakeKeeps
    <3> QED BY <1>1, <2>5, <3>1, FutureKeeps
  <2>8. KeepsReruns(queues, queues')
    BY <1>1, <2>1, TakeReruns
  <2>9. ASSUME NEW o \in Ids, owed'[o] # None PROVE StillRuns(o) /\ StillKept(o)
    <3>1. o # id /\ owed'[o] = owed[o]
      BY <2>1, <2>6, <2>9
    <3> QED BY <2>7, <2>8, <3>1 DEF StillRuns, KeepsReruns
  <2> QED BY <2>5, <2>9 DEF OwedMoves
<1>11. CASE FinCronStored
  <2> DEFINE q == AddQueue(queues, fin.id, fin.meta)
  <2>1. /\ fin.pc # "idle" /\ Holds(FinisherTag) /\ Return
        /\ (queues' = q /\ UNCHANGED owed) \/ Release(q, fin.id)
    BY <1>11 DEF FinCronStored, Enqueue
  <2>2. q \in QueueState /\ QueuesCarry(q, Inputs(rows)) /\ KeepsReruns(queues, q)
        /\ KeepsAll(queues, q)
    BY <1>1, <1>6, <2>1, AddQueueType, AddQueueCarries, AddQueueReruns, AddQueueKeeps
  <2> HIDE DEF q
  <2>3. WritesKept /\ (NoFault => NoFault')
    BY <1>4, <2>1, WritesStep
  <2>4. CASE Release(q, fin.id)
    BY <1>6, <1>7, <2>1, <2>2, <2>3, <2>4
  <2>5. CASE queues' = q /\ UNCHANGED owed
    BY <1>2, <2>2, <2>3, <2>5, QuietMoves
  <2> QED BY <2>1, <2>4, <2>5
<1>12. CASE FinResolves
  <2>1. PICK p \in probes : Release(AfterProbe(p), fin.id)
    BY <1>12 DEF FinResolves
  <2>2. fin.pc # "idle" /\ UNCHANGED <<writes, wres>>
    BY <1>12 DEF FinResolves
  <2>3. /\ AfterProbe(p) \in QueueState /\ QueuesCarry(AfterProbe(p), Inputs(rows))
        /\ KeepsAll(queues, AfterProbe(p))
    BY <1>1, AfterProbeKeeps, AfterProbeCarries
  <2>4. KeepsReruns(queues, AfterProbe(p))
    <3>1. AfterProbe(p).run = queues.run
      BY <1>1, ResolveReruns DEF AfterProbe
    <3> QED BY <3>1, SameReruns
  <2>5. WritesKept /\ (NoFault => NoFault')
    BY <2>2, WritesStep
  <2> QED BY <1>6, <1>7, <2>1, <2>2, <2>3, <2>4, <2>5
<1>13. CASE FinRowStamped
  <2>1. /\ Holds(FinisherTag) /\ UNCHANGED <<queues, owed>> /\ \E w : ReturnAndIssue(w)
    BY <1>13 DEF FinRowStamped, history
  <2>2. WritesKept /\ (NoFault => NoFault')
    BY <1>4, <2>1, WritesStep
  <2> QED BY <1>2, <1>3, <2>1, <2>2, QuietMoves
<1>14. CASE FinFinished
  <2>1. fin.pc # "idle" /\ Holds(FinisherTag) /\ Return /\ Release(queues, fin.id)
    BY <1>14 DEF FinFinished
  <2>2. WritesKept /\ (NoFault => NoFault')
    BY <1>4, <2>1, WritesStep
  <2> QED BY <1>1, <1>3, <1>6, <1>7, <2>1, <2>2
<1> QED BY <1>8, <1>9, <1>10, <1>11, <1>12, <1>13, <1>14 DEF FinStep

(* The loader queues more and lets nothing go.                             *)
LEMMA OwedLoader ==
    ASSUME TypeOK, HonourInv, LoaderStep
    PROVE  OwedMoves /\ (NoFault => NoFault')
<1>1. /\ queues \in QueueState /\ loader \in LoaderState
      /\ UNCHANGED <<callers, writes, wres, owed>>
  BY DEF TypeOK, LoaderStep, LoaderReads, LoaderSkips, LoaderQueues, LoaderResolves, history
<1>2. WritesKept /\ (NoFault => NoFault')
  BY <1>1, WritesStep
<1>3. ASSUME KeepsAll(queues, queues'), KeepsReruns(queues, queues') PROVE OwedMoves
  BY <1>1, <1>2, <1>3, FutureKeeps, QuietMoves DEF KeepsAll
<1>4. ASSUME queues' = queues PROVE OwedMoves
  BY <1>3, <1>4, SameReruns DEF KeepsAll
<1>5. CASE LoaderReads \/ \E id \in Ids : LoaderSkips(id)
  BY <1>2, <1>4, <1>5 DEF LoaderReads, LoaderSkips
<1>6. ASSUME NEW id \in Ids, LoaderQueues(id) PROVE OwedMoves
  <2> DEFINE m == LoadedMeta(loader.snap[id])
  <2>1. id \in loader.todo /\ queues' = AddQueue(queues, id, m)
    BY <1>6 DEF LoaderQueues, Enqueue
  <2>2. m \in TaskMeta
    BY <1>1, <2>1, LoadedMetaType DEF TypeOK, LoaderState, Table
  <2> HIDE DEF m
  <2> QED BY <1>1, <1>3, <2>1, <2>2, AddQueueKeeps, AddQueueReruns
<1>7. CASE LoaderResolves
  <2>1. PICK p \in probes : queues' = AfterProbe(p)
    BY <1>7 DEF LoaderResolves
  <2>2. queues'.run = queues.run
    BY <1>1, <2>1, ResolveReruns DEF AfterProbe
  <2>3. KeepsAll(queues, queues') /\ KeepsReruns(queues, queues')
    BY <2>1, <2>2, AfterProbeKeeps, SameReruns
  <2> QED BY <1>2, <1>3, <2>3
<1> QED BY <1>2, <1>5, <1>6, <1>7 DEF LoaderStep

(* Requests with the same key have the same input, and none recurs.        *)
OneInput ==
    \A rq1, rq2 \in Requests :
      rq1.key = rq2.key /\ rq1.key # None => rq1.param = rq2.param
(* None of them recurs.                                                    *)
OneShots == \A rq \in Requests : rq.cron = "none"

(* A call finds the row of its key with the input it has itself.           *)
LEMMA FindsInput ==
    ASSUME OneInput, OneShots, HonourInv, NEW rq \in Requests,
           NEW id \in FindByKey(rows, rq.key)
    PROVE  <<id, rq.param, rq.cron>> \in Inputs(rows) /\ rows[id].param = rq.param
<1>1. /\ id \in Ids /\ rq.key # None /\ rows[id] # None /\ rows[id].key = rq.key
  BY DEF FindByKey, Pending
<1>2. <<rows[id].key, rows[id].param, "none">> \in Asks
  BY <1>1 DEF HonourInv, RowsAsked
<1>3. PICK rq2 \in Requests :
        <<rows[id].key, rows[id].param, "none">> = <<rq2.key, rq2.param, rq2.cron>>
  BY <1>2 DEF Asks
<1>4. rq2.param = rq.param
  BY <1>1, <1>3 DEF OneInput
<1> QED BY <1>1, <1>3, <1>4 DEF Inputs, OneShots

(* A call that begins: a row it finds has its input already.               *)
LEMMA OwedAsks ==
    ASSUME OneInput, OneShots, TypeOK, HonourInv, NEW r \in Callers, NEW rq \in Requests,
           CallerAsks(r, rq)
    PROVE  OwedMoves /\ NoneChanged' /\ (NoFault => NoFault')
<1>1. /\ UNCHANGED <<queues, writes, wres, owed>> /\ callers[r].pc = "idle"
      /\ \E id \in Answers(FindByKey(rows, rq.key)) : \E next :
           callers' = [callers EXCEPT ![r] =
            [pc |-> "found", key |-> rq.key, id |-> id,
             changed |-> id # None /\ rows[id].param # rq.param,
             meta |-> MetaOf(rq, next)]]
  BY DEF CallerAsks, Caller, history
<1>2. \A id \in Answers(FindByKey(rows, rq.key)) : ~(id # None /\ rows[id].param # rq.param)
  BY FindsInput DEF Answers
<1>3. /\ callers \in [Callers -> CallerState]
      /\ ~callers'[r].changed
      /\ \A o \in Callers : o # r => callers'[o] = callers[o]
  <2>1. callers \in [Callers -> CallerState]
    BY DEF TypeOK
  <2>2. PICK id \in Answers(FindByKey(rows, rq.key)) :
           \E next : callers' = [callers EXCEPT ![r] =
             [pc |-> "found", key |-> rq.key, id |-> id,
              changed |-> id # None /\ rows[id].param # rq.param,
              meta |-> MetaOf(rq, next)]]
    BY <1>1
  <2>3. PICK next :
          callers' = [callers EXCEPT ![r] =
            [pc |-> "found", key |-> rq.key, id |-> id,
             changed |-> id # None /\ rows[id].param # rq.param,
             meta |-> MetaOf(rq, next)]]
    BY <2>2
  <2>4. ~(id # None /\ rows[id].param # rq.param)
    BY <1>2
  <2>5. DEFINE ch == id # None /\ rows[id].param # rq.param
               me == MetaOf(rq, next)
  <2>6. callers'[r] = [pc |-> "found", key |-> rq.key, id |-> id,
                       changed |-> ch, meta |-> me]
    <3> HIDE DEF ch, me
    <3> QED BY <2>1, <2>3 DEF ch, me
  <2>7. callers'[r].changed = ch
    <3> HIDE DEF ch, me
    <3> QED BY <2>6
  <2>8. \A o \in Callers : o # r => callers'[o] = callers[o]
    <3> HIDE DEF ch, me
    <3> QED BY <2>1, <2>3
  <2> QED BY <2>1, <2>4, <2>7, <2>8
<1>4. NoneChanged'
  BY <1>3 DEF HonourInv, NoneChanged
<1>5. WritesKept /\ (NoFault => NoFault')
  BY <1>1, WritesStep
<1>6. \A o \in Ids : CallsOn(callers, o) => CallsOn(callers', o)
  BY <1>1, <1>3 DEF CallsOn
<1>7. \A o \in Ids : StillKept(o)
  BY <1>1, <1>5, <1>6 DEF StillKept, Keeps, WritesKept
<1>8. OwedMoves
  BY <1>1, <1>7, QuietMoves, SameReruns
<1> QED BY <1>4, <1>5, <1>8

(* A call that goes on: what it kept itself must be kept after it.         *)
LEMMA CallStep ==
    ASSUME NEW r \in Callers, \A o \in Callers : o # r => callers'[o] = callers[o],
           KeepsAll(queues, queues'),
           \A o \in Ids : Created(writes, wres, o) => Keeps(o)',
           callers[r].pc \in {"clear", "setcron", "update", "insert"} =>
             \A o \in Ids : callers[r].id = o => Keeps(o)'
    PROVE  \A o \in Ids : StillKept(o)
<1>1. SUFFICES ASSUME NEW o \in Ids, Keeps(o)
               PROVE  Keeps(o)'
  BY DEF StillKept
<1>2. CASE InQueues(queues, o)
  BY <1>2 DEF KeepsAll, Keeps
<1>3. CASE CallsOn(callers, o)
  <2>1. PICK c \in Callers : /\ callers[c].pc \in {"clear", "setcron", "update", "insert"}
                             /\ callers[c].id = o
    BY <1>3 DEF CallsOn
  <2>2. CASE c = r
    BY <2>1, <2>2
  <2>3. CASE c # r
    BY <2>1, <2>3 DEF Keeps, CallsOn
  <2> QED BY <2>2, <2>3
<1> QED BY <1>1, <1>2, <1>3 DEF Keeps

(* A call that goes on under the id its row got.                           *)
LEMMA CallMovesTo ==
    ASSUME TypeOK, NoneChanged, NEW r \in Callers, callers[r].pc # "idle"
    PROVE  \A pc, id : callers' = [callers EXCEPT ![r].pc = pc, ![r].id = id] =>
             /\ callers'[r].pc = pc /\ callers'[r].id = id /\ NoneChanged'
             /\ \A o \in Callers : o # r => callers'[o] = callers[o]
<1>1. SUFFICES ASSUME NEW pc, NEW id,
                      callers' = [callers EXCEPT ![r].pc = pc, ![r].id = id]
               PROVE  /\ callers'[r].pc = pc /\ callers'[r].id = id /\ NoneChanged'
                      /\ \A o \in Callers : o # r => callers'[o] = callers[o]
  OBVIOUS
<1>2. /\ callers \in [Callers -> CallerState] /\ callers[r] \in CallerState \ {Idle}
  BY DEF TypeOK, Idle
<1>3. /\ callers'[r] = [callers[r] EXCEPT !.pc = pc, !.id = id]
      /\ \A o \in Callers : o # r => callers'[o] = callers[o]
  <2>1. callers' = [callers EXCEPT ![r] = [callers[r] EXCEPT !.pc = pc, !.id = id]]
    BY <1>1
  <2> QED BY <1>2, <2>1
<1>4. /\ callers'[r].pc = pc /\ callers'[r].id = id
      /\ callers'[r].changed = callers[r].changed
  BY <1>2, <1>3 DEF CallerState
<1> QED BY <1>3, <1>4 DEF NoneChanged

(* The later steps of a call, from its findings to its last insert.        *)
LEMMA OwedCaller ==
    ASSUME TypeOK, DepsInv, HonourInv, NEW r \in Callers, CallerStep(r)
    PROVE  OwedMoves /\ NoneChanged' /\ (NoFault => NoFault')
<1> DEFINE m == callers[r].meta
           id == callers[r].id
           at == Head(writes).id
           KeptBy(o) == Keeps(o)'
<1>1. /\ queues \in QueueState /\ callers \in [Callers -> CallerState]
      /\ WritesFit(writes, Known, ended, callers, bodies, fin) /\ rows' = rows
      /\ owed \in [Ids -> Params \cup {None}]
      /\ CallsCarry(callers, Inputs(rows)) /\ OwedRuns /\ NoneChanged
  BY DEF TypeOK, DepsInv, HonourInv, Copies, CallerStep, CallerCreates, CallerFindsRunning,
         CallerFindsIdle, CallerClears, CallerFails, CallerRefreshed, CallerStoresCron,
         CallerQueues, CallerInserts, CallerResolves
<1>2. callers[r].pc # "idle" /\ CallerTag(r) \in Tags
  BY CallerBusy
<1>3. /\ m \in TaskMeta /\ callers[r].key \in Keys \cup {None} /\ id \in Ids \cup {None}
      /\ callers[r].pc \notin {"found", "create"} => id \in Ids
  BY <1>2, CallerMeta
<1>4. id \in Ids => rows[id] # None /\ m.param = rows[id].param /\ m.cron = "none"
  <2>1. id \in Ids => Carries(m, id, Inputs(rows))
    BY <1>1, <1>2, NoIdAssumption DEF CallsCarry, CallCarries
  <2> QED BY <1>1, <2>1, CarriesOwed
<1>5. Holds(CallerTag(r)) =>
        /\ writes # <<>> /\ callers[r].pc \in {"create", "setcron", "update", "refresh"}
        /\ \/ Head(writes).op = "create" /\ callers[r].pc = "create"
           \/ Head(writes).op # "create" /\ callers[r].pc # "create" /\ at = id
        /\ wres = "ok" => at \in Ids
  BY <1>1, HeldByCaller DEF Holds
<1>6. ASSUME NEW pc, CallerMoves(r, pc)
      PROVE  /\ callers'[r].pc = pc /\ callers'[r].id = id /\ NoneChanged'
             /\ \A o \in Callers : o # r => callers'[o] = callers[o]
  <2>1. callers'[r].changed = callers[r].changed
    BY <1>1, <1>6, <1>2 DEF CallerMoves, CallerState, Idle
  <2>2. /\ callers'[r].pc = pc /\ callers'[r].id = id
        /\ \A o \in Callers : o # r => callers'[o] = callers[o]
    BY <1>2, <1>6, CallerMoved DEF CallerMoves
  <2> QED BY <1>1, <2>1, <2>2 DEF NoneChanged
<1>7. ASSUME CallerReturns(r)
      PROVE  /\ callers'[r].pc = "idle" /\ NoneChanged'
             /\ \A o \in Callers : o # r => callers'[o] = callers[o]
  <2>1. callers'[r] = Idle /\ \A o \in Callers : o # r => callers'[o] = callers[o]
    BY <1>1, <1>7 DEF CallerReturns
  <2> QED BY <1>1, <2>1 DEF Idle, NoneChanged
<1>8. ASSUME NEW pc, callers' = [callers EXCEPT ![r].pc = pc, ![r].id = at]
      PROVE  /\ callers'[r].pc = pc /\ callers'[r].id = at /\ NoneChanged'
             /\ \A o \in Callers : o # r => callers'[o] = callers[o]
  <2> HIDE DEF at
  <2> QED BY <1>1, <1>2, <1>8, CallMovesTo
<1>9. /\ \A o \in Ids, c \in Callers :
           callers'[c].pc \in {"clear", "setcron", "update", "insert"} /\ callers'[c].id = o
             => KeptBy(o)
      /\ \A o \in Ids : InQueues(queues', o) => KeptBy(o)
      /\ \A o \in Ids : Created(writes', wres', o) => KeptBy(o)
  BY DEF Keeps, CallsOn
<1>10. KeepsAll(queues, queues) /\ KeepsReruns(queues, queues)
  BY SameReruns DEF KeepsAll
<1>11. ASSUME WritesKept PROVE \A o \in Ids : Created(writes, wres, o) => KeptBy(o)
  BY <1>9, <1>11 DEF WritesKept
<1>12. ASSUME id \in Ids, Issue(UpdateRow(r)) PROVE WritesKept /\ (NoFault => NoFault')
  <2>1. "update" \in {"cron", "update", "finish", "undep", "postpone", "fail"}
    OBVIOUS
  <2>2. UpdateRow(r) \in WriteRecord
    BY <1>2, <1>3, <1>12, <2>1, WriteType DEF UpdateRow
  <2> QED BY <1>12, <2>2, WritesStep
<1>13. ASSUME id \in Ids, Accept(r), KeptBy(id),
              IsRunning(queues', id) => queues'.run[id].rerun,
              \A o \in Ids : o # id => queues'.run[o] = queues.run[o],
              \A o \in Ids : StillKept(o)
       PROVE  OwedMoves
  <2>1. owed' = [owed EXCEPT ![id] = m.param]
    BY <1>13 DEF Accept
  <2>2. NowOwed(id)
    BY <1>1, <1>4, <1>13, <2>1 DEF NowOwed
  <2>3. \A o \in Ids : o # id => StillRuns(o)
    BY <1>1, <1>13, <2>1 DEF StillRuns, IsRunning
  <2> QED BY <1>13, <2>2, <2>3 DEF OwedMoves
<1> HIDE DEF m, id, at, KeptBy
<1>14. CASE CallerCreates(r)
  <2> DEFINE w == Write(CallerTag(r), "create", None, callers[r].key, m)
  <2>1. /\ callers[r].pc = "found" /\ Issue(w) /\ CallerMoves(r, "create")
        /\ UNCHANGED <<queues, owed>>
    BY <1>14 DEF CallerCreates, Caller, m, history
  <2>2. w \in WriteRecord
    BY <1>2, <1>3, WriteType
  <2> HIDE DEF w
  <2>3. WritesKept /\ (NoFault => NoFault')
    BY <2>1, <2>2, WritesStep
  <2>4. \A o \in Ids : StillKept(o)
    BY <1>6, <1>10, <1>11, <2>1, <2>3, CallStep DEF KeptBy
  <2> QED BY <1>6, <1>10, <2>1, <2>3, <2>4, QuietMoves
<1>15. CASE CallerFindsRunning(r)
  <2> DEFINE e == queues.run[id].rerun \/ m.cron = "none"
             q == RefreshRunning(queues, id, m, e)
  <2>1. /\ callers[r].pc = "found" /\ id \in Ids /\ IsRunning(queues, id) /\ queues' = q
        /\ Issue(UpdateRow(r)) /\ CallerMoves(r, "refresh") /\ Accept(r)
    BY <1>3, <1>15 DEF CallerFindsRunning, RequestInPlace, Caller, m, id
  <2>2. e = TRUE
    <3>1. queues.run[id].rerun \in BOOLEAN
      BY <1>1, <2>1 DEF IsRunning, QueueState, Entry, TaskMeta
    <3> QED BY <1>4, <2>1, <3>1
  <2> HIDE DEF e
  <2>3. KeepsAll(queues, q) /\ InQueues(q, id)
    BY <1>1, <1>3, <2>1, <2>2, RefreshKeeps
  <2>4. q.run[id].rerun /\ \A o \in Ids : o # id => q.run[o] = queues.run[o]
    <3>1. q.run = [queues.run EXCEPT ![id] = [m EXCEPT !.rerun = TRUE]]
      BY <1>1, <2>2 DEF RefreshRunning, QueueState
    <3>2. [m EXCEPT !.rerun = TRUE].rerun
      BY <1>3 DEF TaskMeta
    <3> HIDE DEF q
    <3> QED BY <1>1, <2>1, <3>1, <3>2 DEF QueueState
  <2> HIDE DEF q
  <2>5. WritesKept /\ (NoFault => NoFault')
    BY <1>12, <2>1
  <2>6. \A o \in Ids : StillKept(o)
    BY <1>6, <1>11, <2>1, <2>3, <2>5, CallStep DEF KeptBy
  <2>7. OwedMoves
    BY <1>9, <1>13, <2>1, <2>3, <2>4, <2>6
  <2> QED BY <1>6, <2>1, <2>5, <2>7
<1>16. ASSUME id \in Ids, ClearQueued(r)
       PROVE  /\ queues' = queues /\ NoneChanged' /\ WritesKept /\ (NoFault => NoFault')
              /\ KeptBy(id) /\ \A o \in Ids : StillKept(o)
  <2>1. queues' = queues /\ Issue(UpdateRow(r)) /\ CallerMoves(r, "update")
    BY <1>1, <1>16 DEF ClearQueued, NoneChanged
  <2>2. WritesKept /\ (NoFault => NoFault')
    BY <1>12, <1>16, <2>1
  <2>3. KeptBy(id)
    BY <1>6, <1>9, <1>16, <2>1
  <2>4. \A o \in Ids : StillKept(o)
    <3>1. \A o \in Ids : callers[r].id = o => KeptBy(o)
      BY <2>3 DEF id
    <3> QED BY <1>6, <1>10, <1>11, <2>1, <2>2, <3>1, CallStep DEF KeptBy
  <2> QED BY <1>6, <2>1, <2>2, <2>3, <2>4
<1>17. CASE CallerFindsIdle(r)
  <2>1. /\ callers[r].pc = "found" /\ id \in Ids /\ ~IsRunning(queues, id) /\ Accept(r)
        /\ \/ CallerMoves(r, "clear") /\ UNCHANGED <<queues, writes, wres>>
           \/ ClearQueued(r)
    BY <1>3, <1>17 DEF CallerFindsIdle, Caller, id
  <2>2. CASE ClearQueued(r)
    <3>1. OwedMoves
      BY <1>13, <1>16, <2>1, <2>2
    <3> QED BY <1>16, <2>1, <2>2, <3>1
  <2>3. CASE CallerMoves(r, "clear") /\ UNCHANGED <<queues, writes, wres>>
    <3>1. WritesKept /\ (NoFault => NoFault')
      BY <2>3, WritesStep
    <3>2. KeptBy(id)
      BY <1>6, <1>9, <2>1, <2>3
    <3>3. \A o \in Ids : StillKept(o)
      BY <1>6, <1>10, <1>11, <2>1, <2>3, <3>1, CallStep DEF KeptBy
    <3>4. OwedMoves
      BY <1>13, <2>1, <2>3, <3>2, <3>3
    <3> QED BY <1>6, <2>3, <3>1, <3>4
  <2> QED BY <2>1, <2>2, <2>3
<1>18. CASE CallerClears(r)
  <2>1. id \in Ids /\ ClearQueued(r) /\ UNCHANGED owed
    BY <1>3, <1>18 DEF CallerClears, Caller, history
  <2> QED BY <1>10, <1>16, <2>1, QuietMoves
<1>19. CASE CallerFails(r)
  <2>1. Holds(CallerTag(r)) /\ wres = "failed" /\ Return /\ CallerReturns(r)
        /\ UNCHANGED <<queues, owed>>
    BY <1>19 DEF CallerFails, history
  <2>2. \A o \in Ids : ~Created(writes, wres, o)
    BY <2>1 DEF Created
  <2>3. ASSUME counts.faults = 0 PROVE \A o \in Ids : StillKept(o)
    <3>1. NoFault
      BY <2>3 DEF HonourInv, OwedKept
    <3>2. Head(writes).op = "create"
      BY <2>1, <3>1 DEF NoFault
    <3>3. callers[r].pc = "create"
      BY <1>5, <2>1, <3>2
    <3> QED BY <1>7, <1>10, <2>1, <2>2, <3>3, CallStep
  <2>4. OwedMoves
    BY <1>10, <2>1, <2>3 DEF OwedMoves, StillRuns, KeepsReruns
  <2>5. NoFault'
    BY <2>1 DEF Return, NoFault
  <2> QED BY <1>7, <2>1, <2>4, <2>5
<1>20. CASE CallerRefreshed(r)
  <2>1. callers[r].pc = "refresh" /\ Holds(CallerTag(r)) /\ Return /\ CallerReturns(r)
        /\ UNCHANGED <<queues, owed>>
    BY <1>20 DEF CallerRefreshed, Caller, history
  <2>2. WritesKept /\ (NoFault => NoFault')
    BY <1>5, <2>1, WritesStep
  <2>3. \A o \in Ids : StillKept(o)
    BY <1>7, <1>10, <1>11, <2>1, <2>2, CallStep DEF KeptBy
  <2> QED BY <1>7, <1>10, <2>1, <2>2, <2>3, QuietMoves
<1>21. ASSUME Holds(CallerTag(r)), wres = "ok", KeptBy(at)
       PROVE  /\ \A o \in Ids : Created(writes, wres, o) => KeptBy(o)
              /\ callers[r].pc \in {"setcron", "update"} =>
                   \A o \in Ids : callers[r].id = o => KeptBy(o)
  <2>1. \A o \in Ids : Created(writes, wres, o) => o = at
    BY DEF Created, at
  <2>2. callers[r].pc \in {"setcron", "update"} => at = callers[r].id
    BY <1>5, <1>21 DEF id
  <2> QED BY <1>21, <2>1, <2>2
<1>22. CASE CallerStoresCron(r)
  <2>1. /\ Holds(CallerTag(r)) /\ wres = "ok" /\ callers[r].pc = "create"
        /\ \E w : ReturnAndIssue(w)
        /\ UNCHANGED <<queues, owed>>
        /\ callers' = [callers EXCEPT ![r].pc = "setcron", ![r].id = at]
    BY <1>22 DEF CallerStoresCron, StoresCron, Caller, at, history
  <2>2. KeptBy(at)
    BY <1>5, <1>8, <1>9, <2>1
  <2>3. \A o \in Ids : StillKept(o)
    BY <1>8, <1>10, <1>21, <2>1, <2>2, CallStep DEF KeptBy
  <2>4. NoFault'
    BY <2>1 DEF ReturnAndIssue, NoFault
  <2> QED BY <1>8, <1>10, <2>1, <2>3, <2>4, QuietMoves
<1>23. CASE CallerQueues(r)
  <2>1. /\ callers[r].pc \in {"create", "setcron", "update"}
        /\ Holds(CallerTag(r)) /\ wres = "ok" /\ Return /\ UNCHANGED owed
        /\ \/ /\ callers' = [callers EXCEPT ![r].pc = "insert", ![r].id = at]
              /\ queues' = queues
           \/ /\ queues' = AddQueue(queues, at, m)
              /\ \/ callers' = [callers EXCEPT ![r].pc = "resolve", ![r].id = at]
                 \/ CallerReturns(r)
    BY <1>23 DEF CallerQueues, CallerReturns, Enqueue, m, at, history
  <2>2. /\ KeepsAll(queues, queues') /\ KeepsReruns(queues, queues')
        /\ KeptBy(at) /\ NoneChanged' /\ callers'[r].pc \in {"insert", "resolve", "idle"}
        /\ \A o \in Callers : o # r => callers'[o] = callers[o]
    <3>1. at \in Ids
      BY <1>5, <2>1
    <3>2. CASE /\ callers' = [callers EXCEPT ![r].pc = "insert", ![r].id = at]
               /\ queues' = queues
      BY <1>8, <1>9, <1>10, <3>1, <3>2
    <3>3. CASE /\ queues' = AddQueue(queues, at, m)
               /\ \/ callers' = [callers EXCEPT ![r].pc = "resolve", ![r].id = at]
                  \/ CallerReturns(r)
      <4>1. KeepsAll(queues, queues') /\ InQueues(queues', at) /\ KeepsReruns(queues, queues')
        BY <1>1, <1>3, <3>1, <3>3, AddQueueKeeps, AddQueueReruns
      <4> QED BY <1>7, <1>8, <1>9, <3>1, <3>3, <4>1
    <3> QED BY <2>1, <3>2, <3>3
  <2>3. \A o \in Ids : StillKept(o)
    BY <1>21, <2>1, <2>2, CallStep DEF KeptBy
  <2>4. NoFault'
    BY <2>1 DEF Return, NoFault
  <2> QED BY <2>1, <2>2, <2>3, <2>4, QuietMoves
<1>24. CASE CallerInserts(r)
  <2>1. /\ callers[r].pc = "insert" /\ id \in Ids /\ queues' = InsertAfresh(queues, id, m)
        /\ UNCHANGED <<writes, wres, owed>>
        /\ CallerMoves(r, "resolve") \/ CallerReturns(r)
    BY <1>3, <1>24 DEF CallerInserts, Caller, m, id, history
  <2>2. /\ KeepsAll(queues, queues') /\ InQueues(queues', id) /\ KeepsReruns(queues, queues')
    BY <1>1, <1>3, <2>1, InsertAfreshKeeps, InsertReruns, SameReruns
  <2>3. WritesKept /\ (NoFault => NoFault')
    BY <2>1, WritesStep
  <2>4. NoneChanged' /\ \A o \in Callers : o # r => callers'[o] = callers[o]
    BY <1>6, <1>7, <2>1
  <2>5. \A o \in Ids : callers[r].id = o => KeptBy(o)
    BY <1>9, <2>1, <2>2 DEF id
  <2>6. \A o \in Ids : StillKept(o)
    BY <1>11, <2>2, <2>3, <2>4, <2>5, CallStep DEF KeptBy
  <2> QED BY <2>1, <2>2, <2>3, <2>4, <2>6, QuietMoves
<1>25. CASE CallerResolves(r)
  <2>1. PICK p \in probes : queues' = AfterProbe(p)
    BY <1>25 DEF CallerResolves
  <2>2. callers[r].pc = "resolve" /\ CallerReturns(r) /\ UNCHANGED <<writes, wres, owed>>
    BY <1>25 DEF CallerResolves, Caller, history
  <2>3. KeepsAll(queues, queues') /\ KeepsReruns(queues, queues')
    <3>1. queues'.run = queues.run
      BY <1>1, <2>1, ResolveReruns DEF AfterProbe
    <3> QED BY <2>1, <3>1, AfterProbeKeeps, SameReruns
  <2>4. WritesKept /\ (NoFault => NoFault')
    BY <2>2, WritesStep
  <2>5. \A o \in Ids : StillKept(o)
    BY <1>7, <1>11, <2>2, <2>3, <2>4, CallStep DEF KeptBy
  <2> QED BY <1>7, <2>2, <2>3, <2>4, <2>5, QuietMoves
<1> QED BY <1>14, <1>15, <1>17, <1>18, <1>19, <1>20, <1>22, <1>23, <1>24, <1>25
       DEF CallerStep

(* What a start is going to load.  No step but the loader's makes it less, *)
(* unless a queue or a call has the task by then.                          *)
LEMMA LoadsFor ==
    ASSUME NEW o \in Ids, ToLoad(o), UNCHANGED <<rows, loader>>,
           NoBodyOf(bodies', o), Leaves(writes', o), Unasked(probes', o)
    PROVE  ToLoad(o)'
BY DEF ToLoad

(* No write that settles a task comes under way unless it is issued.       *)
LEMMA LeavesStill ==
    ASSUME TypeOK, NEW o, Leaves(writes, o),
           \/ writes' = writes
           \/ writes # <<>> /\ Return
           \/ \E w \in WriteRecord :
                /\ w.id = o => w.op \notin Settling
                /\ Issue(w) \/ (writes # <<>> /\ ReturnAndIssue(w))
    PROVE  Leaves(writes', o)
<1>1. writes \in Seq(WriteRecord)
  BY DEF TypeOK
<1>2. writes # <<>> => Tail(writes) \in Seq(WriteRecord) /\ Leaves(Tail(writes), o)
  BY <1>1, UnderWayShrinks DEF Leaves
<1>3. \A ws \in Seq(WriteRecord), w \in WriteRecord :
        Leaves(ws, o) /\ (w.id = o => w.op \notin Settling) => Leaves(Append(ws, w), o)
  BY UnderWayGrows DEF Leaves
<1> QED BY <1>1, <1>2, <1>3 DEF Issue, Return, ReturnAndIssue

(* Nobody but the loader asks the store on its behalf.                     *)
LEMMA EnqueueUnasked ==
    ASSUME NEW o, Unasked(probes, o), NEW qs, NEW who, NEW id, NEW m,
           Enqueue(qs, who, id, m), who # LoaderTag \/ id # o
    PROVE  Unasked(probes', o)
BY DEF Unasked, Enqueue, Probe

(* A task a release starts is in tasks_running; no other gets a body.      *)
LEMMA ReleaseStarts ==
    ASSUME NEW qs \in QueueState, NEW id \in Ids, Release(qs, id), NEW o \in Ids,
           NoBodyOf(bodies, o)
    PROVE  NoBodyOf(bodies', o) \/ InQueues(queues', o)
<1>1. /\ queues' = ReleaseDependents(qs, id)
      /\ Spawn(Ready(qs, id), ReleaseDependents(qs, id).run)
  BY DEF Release
<1>2. CASE o \in Ready(qs, id)
  <2>1. queues'.run[o] = ForgetDep(qs.wait[o], id)
    BY <1>1, <1>2 DEF ReleaseDependents, QueueState
  <2>2. qs.wait[o] \in TaskMeta
    BY <1>2 DEF Ready, Dependents, IsWaiting, QueueState, Entry
  <2>3. ForgetDep(qs.wait[o], id) \in TaskMeta
    BY <2>2, ForgetDepType
  <2> QED BY <2>1, <2>3, NoneAssumption DEF InQueues, IsRunning
<1>3. CASE o \notin Ready(qs, id)
  <2>1. \A l \in Lanes : <<o, l>> \in Bodies /\ <<o, l>>[1] = o
    BY DEF Bodies
  <2>2. \A l \in Lanes : bodies'[<<o, l>>] = bodies[<<o, l>>]
    BY <1>1, <1>3, <2>1 DEF Spawn
  <2> QED BY <2>2 DEF NoBodyOf
<1> QED BY <1>2, <1>3

LEMMA LoadsDispatch ==
    ASSUME TypeOK, NEW s \in Slots, NEW id \in Ids, Dispatch(s, id)
    PROVE  LoadsOn
<1> DEFINE q == StartScheduled(queues, s, id)
<1>1. /\ queues.sched[<<s, id>>] # None /\ queues' = q /\ Spawn({id}, q.run)
      /\ UNCHANGED <<rows, loader, writes, probes>> /\ queues \in QueueState
  BY DEF Dispatch, TypeOK
<1>2. q.run[id] # None
  BY <1>1 DEF StartScheduled, QueueState
<1> HIDE DEF q
<1>3. SUFFICES ASSUME NEW o \in Ids, ToLoad(o)
               PROVE  ToLoad(o)' \/ Keeps(o)'
  BY DEF LoadsOn
<1>4. CASE o = id
  BY <1>1, <1>2, <1>4 DEF Keeps, InQueues, IsRunning
<1>5. CASE o # id
  <2>1. \A l \in Lanes : <<o, l>> \in Bodies /\ <<o, l>>[1] = o
    BY DEF Bodies
  <2>2. NoBodyOf(bodies', o)
    BY <1>1, <1>3, <1>5, <2>1 DEF Spawn, NoBodyOf, ToLoad
  <2> QED BY <1>1, <1>3, <2>2, LoadsFor DEF ToLoad
<1> QED BY <1>4, <1>5

LEMMA LoadsBody ==
    ASSUME TypeOK, NEW b \in Bodies, BodyStep(b)
    PROVE  LoadsOn
<1>1. SUFFICES ASSUME NEW o \in Ids, ToLoad(o)
               PROVE  ToLoad(o)'
  BY DEF LoadsOn
<1>2. /\ UNCHANGED <<rows, loader>> /\ b[1] \in Ids /\ bodies \in [Bodies -> BodyState]
      /\ bodies[b].pc # "off" \/ BodyErrorStored(b)
      /\ \A c \in Bodies : c # b => bodies'[c] = bodies[c]
  BY BodiesType
     DEF TypeOK, BodyStep, BodySucceeds, BodyFails, BodyErrorStored, BodyRetries,
         BodyResolves, BodyGivesUp, Body, Move
<1>3. bodies[b].pc # "off"
  BY <1>2 DEF BodyErrorStored, Body
<1>4. b[1] # o
  <2>1. \A l \in Lanes : bodies[<<o, l>>].pc = "off"
    BY <1>1 DEF ToLoad, NoBodyOf
  <2>2. b = <<b[1], b[2]>> /\ b[2] \in Lanes
    BY DEF Bodies
  <2> QED BY <1>3, <2>1, <2>2
<1>5. NoBodyOf(bodies', o)
  <2>1. \A l \in Lanes : <<o, l>> \in Bodies /\ <<o, l>> # b
    BY <1>4 DEF Bodies
  <2> QED BY <1>1, <1>2, <2>1 DEF ToLoad, NoBodyOf
<1>6. Leaves(writes', o)
  <2>1. ASSUME NEW perm \in BOOLEAN, BodyFails(b, perm) PROVE Leaves(writes', o)
    <3> DEFINE op == ErrorOp(bodies[b].meta, ShouldRetry(b, perm))
               w == Write(BodyTag(b), op, b[1], None, bodies[b].meta)
    <3>1. Issue(w)
      BY <2>1 DEF BodyFails
    <3>2. op \in {"cron", "update", "finish", "undep", "postpone", "fail"}
          /\ BodyTag(b) \in Tags /\ bodies[b].meta \in TaskMeta
      BY <1>3, TagTypes, BodyMeta DEF ErrorOp
    <3> HIDE DEF op
    <3>3. w \in WriteRecord /\ w.id = b[1]
      BY <1>2, <3>2, WriteType DEF Write
    <3> HIDE DEF w
    <3> QED BY <1>1, <1>4, <3>1, <3>3, LeavesStill DEF ToLoad
  <2>2. CASE BodyErrorStored(b)
    BY <1>1, <2>2, LeavesStill DEF BodyErrorStored, Holds, ToLoad
  <2> QED BY <1>1, <2>1, <2>2
          DEF BodyStep, BodySucceeds, BodyRetries, BodyResolves, BodyGivesUp, ToLoad
<1>7. Unasked(probes', o)
  <2>1. BodyTag(b) # LoaderTag
    BY TagsDiffer
  <2>2. CASE BodyRetries(b)
    BY <1>1, <2>1, <2>2, EnqueueUnasked DEF BodyRetries, ToLoad
  <2>3. CASE BodyResolves(b)
    BY <1>1, <2>3 DEF BodyResolves, Unasked, ToLoad
  <2> QED BY <1>1, <2>2, <2>3
          DEF BodyStep, BodySucceeds, BodyFails, BodyErrorStored, BodyGivesUp, ToLoad
<1> QED BY <1>1, <1>2, <1>5, <1>6, <1>7, LoadsFor

LEMMA LoadsFin ==
    ASSUME TypeOK, FinStep
    PROVE  LoadsOn
<1>1. SUFFICES ASSUME NEW o \in Ids, ToLoad(o)
               PROVE  ToLoad(o)' \/ Keeps(o) \/ Keeps(o)'
  BY DEF LoadsOn
<1>2. /\ UNCHANGED <<rows, loader>> /\ queues \in QueueState /\ FinisherTag \in Tags
      /\ NoBodyOf(bodies, o) /\ Leaves(writes, o) /\ Unasked(probes, o)
  BY <1>1, TagTypes
     DEF TypeOK, ToLoad, FinStep, FinNotFound, FinReruns, FinStores, FinCronStored,
         FinResolves, FinRowStamped, FinFinished
<1>3. fin.pc # "idle" => fin.id \in Ids /\ fin.meta \in TaskMeta
  BY FinMeta
<1>4. FinisherTag # LoaderTag
  BY TagsDiffer
<1>5. ASSUME NoBodyOf(bodies', o) \/ InQueues(queues', o),
             Leaves(writes', o), Unasked(probes', o)
      PROVE  ToLoad(o)' \/ Keeps(o)'
  BY <1>1, <1>2, <1>5, LoadsFor DEF Keeps
<1>6. ASSUME NEW id \in Ids, FinNotFound(id)
      PROVE  ToLoad(o)' \/ Keeps(o)'
  BY <1>2, <1>5, <1>6 DEF FinNotFound
<1>7. ASSUME NEW id \in Ids, FinReruns(id)
      PROVE  ToLoad(o)' \/ Keeps(o)'
  <2> DEFINE m == RerunMeta(queues.run[id])
             taken == TakeRunning(queues, id)
  <2>1. /\ IsRunning(queues, id) /\ UNCHANGED writes
        /\ \/ Enqueue(taken, FinisherTag, id, m) /\ UNCHANGED bodies
           \/ Release(AddQueue(taken, id, m), id) /\ UNCHANGED probes
    BY <1>7 DEF FinReruns
  <2>2. m \in TaskMeta /\ taken \in QueueState
    <3>1. queues.run[id] \in TaskMeta
      BY <1>2, <2>1 DEF IsRunning, QueueState, Entry
    <3> QED BY <1>2, <3>1, MetaType, TakeRunningType DEF RerunMeta, Slots
  <2> HIDE DEF m, taken
  <2>3. CASE Enqueue(taken, FinisherTag, id, m) /\ UNCHANGED bodies
    BY <1>2, <1>4, <1>5, <2>1, <2>3, EnqueueUnasked
  <2>4. CASE Release(AddQueue(taken, id, m), id) /\ UNCHANGED probes
    <3>1. AddQueue(taken, id, m) \in QueueState
      BY <2>2, AddQueueType
    <3> QED BY <1>2, <1>5, <2>1, <2>4, <3>1, ReleaseStarts
  <2> QED BY <2>1, <2>3, <2>4
<1>8. ASSUME NEW id \in Ids, FinStores(id)
      PROVE  ToLoad(o)' \/ Keeps(o) \/ Keeps(o)'
  <2>1. CASE id = o
    BY <1>8, <2>1 DEF FinStores, Keeps, InQueues
  <2>2. CASE id # o
    <3> DEFINE m == queues.run[id]
               upd == IF m.cron = "recurs" THEN [m EXCEPT !.next = "later"] ELSE m
               op == IF m.cron = "recurs" THEN "update" ELSE "finish"
               w == Write(FinisherTag, op, id, None, upd)
    <3>1. Issue(w) /\ UNCHANGED <<bodies, probes>> /\ IsRunning(queues, id)
      BY <1>8 DEF FinStores
    <3>2. m \in TaskMeta
      BY <1>2, <3>1 DEF IsRunning, QueueState, Entry
    <3>3. upd \in TaskMeta
      BY <3>2, MetaType DEF Slots
    <3>4. op \in {"cron", "update", "finish", "undep", "postpone", "fail"}
      OBVIOUS
    <3> HIDE DEF upd, op
    <3>5. w \in WriteRecord /\ w.id = id
      BY <1>2, <3>3, <3>4, WriteType DEF Write
    <3> HIDE DEF w
    <3>6. Leaves(writes', o)
      BY <1>2, <2>2, <3>1, <3>5, LeavesStill
    <3> QED BY <1>2, <1>5, <3>1, <3>6
  <2> QED BY <2>1, <2>2
<1>9. CASE FinCronStored
  <2>1. /\ fin.pc # "idle" /\ writes # <<>> /\ Return
        /\ \/ Enqueue(queues, FinisherTag, fin.id, fin.meta) /\ UNCHANGED bodies
           \/ Release(AddQueue(queues, fin.id, fin.meta), fin.id) /\ UNCHANGED probes
    BY <1>9 DEF FinCronStored, Holds
  <2>2. Leaves(writes', o)
    BY <1>2, <2>1, LeavesStill
  <2>3. CASE Enqueue(queues, FinisherTag, fin.id, fin.meta) /\ UNCHANGED bodies
    BY <1>2, <1>4, <1>5, <2>2, <2>3, EnqueueUnasked
  <2>4. CASE Release(AddQueue(queues, fin.id, fin.meta), fin.id) /\ UNCHANGED probes
    <3>1. AddQueue(queues, fin.id, fin.meta) \in QueueState
      BY <1>2, <1>3, <2>1, AddQueueType
    <3> QED BY <1>2, <1>3, <1>5, <2>1, <2>2, <2>4, <3>1, ReleaseStarts
  <2> QED BY <2>1, <2>3, <2>4
<1>10. CASE FinResolves
  <2>1. PICK p \in probes : Release(AfterProbe(p), fin.id) /\ probes' = probes \ {p}
    BY <1>10 DEF FinResolves
  <2>2. fin.pc # "idle" /\ UNCHANGED writes
    BY <1>10 DEF FinResolves
  <2>3. AfterProbe(p) \in QueueState
    BY AfterProbeKeeps
  <2>4. Unasked(probes', o)
    BY <1>2, <2>1 DEF Unasked
  <2> QED BY <1>2, <1>3, <1>5, <2>1, <2>2, <2>3, <2>4, ReleaseStarts
<1>11. CASE FinRowStamped
  <2> DEFINE w == Write(FinisherTag, "undep", fin.id, None, fin.meta)
  <2>1. /\ fin.pc # "idle" /\ writes # <<>> /\ ReturnAndIssue(w)
        /\ UNCHANGED <<bodies, probes>>
    BY <1>11 DEF FinRowStamped, Holds
  <2>2. "undep" \in {"cron", "update", "finish", "undep", "postpone", "fail"}
    OBVIOUS
  <2>3. w \in WriteRecord /\ w.op = "undep"
    BY <1>2, <1>3, <2>1, <2>2, WriteType DEF Write
  <2> HIDE DEF w
  <2>4. Leaves(writes', o)
    BY <1>2, <2>1, <2>3, LeavesStill DEF Settling
  <2> QED BY <1>2, <1>5, <2>1, <2>4
<1>12. CASE FinFinished
  <2>1. fin.pc # "idle" /\ writes # <<>> /\ Return /\ Release(queues, fin.id)
        /\ UNCHANGED probes
    BY <1>12 DEF FinFinished, Holds
  <2>2. Leaves(writes', o)
    BY <1>2, <2>1, LeavesStill
  <2> QED BY <1>2, <1>3, <1>5, <2>1, <2>2, ReleaseStarts
<1> QED BY <1>6, <1>7, <1>8, <1>9, <1>10, <1>11, <1>12 DEF FinStep

(* A call issues no statement that closes a row.                           *)
Closing == {"finish", "undep", "fail"}

LEMMA CallerWrites ==
    ASSUME TypeOK, DepsInv, NEW r \in Callers, CallerStep(r)
    PROVE  \/ writes' = writes
           \/ writes # <<>> /\ Return
           \/ \E w \in WriteRecord :
                /\ w.op \notin Closing
                /\ Issue(w) \/ (writes # <<>> /\ ReturnAndIssue(w))
<1> DEFINE Fits == \/ writes' = writes
                   \/ writes # <<>> /\ Return
                   \/ \E w \in WriteRecord :
                        /\ w.op \notin Closing
                        /\ Issue(w) \/ (writes # <<>> /\ ReturnAndIssue(w))
<1>0. SUFFICES Fits
  OBVIOUS
<1>1. callers[r].pc # "idle" /\ CallerTag(r) \in Tags
  BY CallerBusy
<1>2. /\ callers[r].meta \in TaskMeta /\ callers[r].key \in Keys \cup {None}
      /\ callers[r].id \in Ids \cup {None}
      /\ callers[r].pc \notin {"found", "create"} => callers[r].id \in Ids
  BY <1>1, CallerMeta
<1>3. ASSUME callers[r].id \in Ids, Issue(UpdateRow(r)) PROVE Fits
  <2>1. "update" \in {"cron", "update", "finish", "undep", "postpone", "fail"}
    OBVIOUS
  <2>2. UpdateRow(r) \in WriteRecord /\ UpdateRow(r).op = "update"
    BY <1>1, <1>2, <1>3, <2>1, WriteType DEF UpdateRow, Write
  <2> QED BY <1>3, <2>2 DEF Closing
<1>4. CASE CallerCreates(r)
  <2> DEFINE w == Write(CallerTag(r), "create", None, callers[r].key, callers[r].meta)
  <2>1. Issue(w)
    BY <1>4 DEF CallerCreates
  <2>2. w \in WriteRecord /\ w.op = "create"
    BY <1>1, <1>2, WriteType DEF Write
  <2> HIDE DEF w
  <2> QED BY <2>1, <2>2 DEF Closing
<1>5. CASE CallerFindsRunning(r) \/ CallerFindsIdle(r) \/ CallerClears(r)
  <2>1. callers[r].id \in Ids /\ (writes' = writes \/ Issue(UpdateRow(r)))
    BY <1>2, <1>5 DEF CallerFindsRunning, CallerFindsIdle, CallerClears, ClearQueued, Caller
  <2> QED BY <1>3, <2>1
<1>6. CASE CallerFails(r) \/ CallerRefreshed(r) \/ CallerQueues(r)
  BY <1>6 DEF CallerFails, CallerRefreshed, CallerQueues, Holds
<1>7. CASE CallerStoresCron(r)
  <2>1. Holds(CallerTag(r)) /\ wres = "ok"
        /\ ReturnAndIssue(Write(CallerTag(r), "cron", Head(writes).id, None, callers[r].meta))
    BY <1>7 DEF CallerStoresCron
  <2> DEFINE w == Write(CallerTag(r), "cron", Head(writes).id, None, callers[r].meta)
  <2>2. Head(writes).id \in Ids /\ writes # <<>>
    BY <2>1 DEF TypeOK, Holds
  <2>3. "cron" \in {"cron", "update", "finish", "undep", "postpone", "fail"}
    OBVIOUS
  <2>4. w \in WriteRecord /\ w.op = "cron"
    BY <1>1, <1>2, <2>2, <2>3, WriteType DEF Write
  <2>5. ReturnAndIssue(w)
    BY <2>1
  <2> HIDE DEF w
  <2> QED BY <2>2, <2>4, <2>5 DEF Closing
<1>8. CASE CallerInserts(r) \/ CallerResolves(r)
  BY <1>8 DEF CallerInserts, CallerResolves
<1> HIDE DEF Fits
<1> QED BY <1>4, <1>5, <1>6, <1>7, <1>8 DEF CallerStep

LEMMA LoadsCaller ==
    ASSUME TypeOK, DepsInv, NEW r \in Callers,
           CallerStep(r) \/ \E rq \in Requests : CallerAsks(r, rq)
    PROVE  LoadsOn
<1>1. SUFFICES ASSUME NEW o \in Ids, ToLoad(o)
               PROVE  ToLoad(o)'
  BY DEF LoadsOn
<1>2. /\ UNCHANGED <<rows, loader, bodies>>
      /\ NoBodyOf(bodies, o) /\ Leaves(writes, o) /\ Unasked(probes, o)
  BY <1>1
     DEF ToLoad, CallerAsks, CallerStep, CallerCreates, CallerFindsRunning,
         CallerFindsIdle, CallerClears, CallerFails, CallerRefreshed, CallerStoresCron,
         CallerQueues, CallerInserts, CallerResolves
<1>3. CallerTag(r) # LoaderTag
  BY TagsDiffer
<1>4. Leaves(writes', o)
  <2>1. CASE CallerStep(r)
    <3>1. \A w : w.op \notin Closing => w.op \notin Settling
      BY DEF Closing, Settling
    <3> QED BY <1>2, <2>1, <3>1, CallerWrites, LeavesStill
  <2> QED BY <1>2, <2>1 DEF CallerAsks
<1>5. Unasked(probes', o)
  <2>1. CASE CallerQueues(r)
    <3>1. \/ UNCHANGED probes
          \/ Enqueue(queues, CallerTag(r), Head(writes).id, callers[r].meta)
      BY <2>1 DEF CallerQueues
    <3> QED BY <1>2, <1>3, <3>1, EnqueueUnasked
  <2>2. CASE CallerInserts(r)
    BY <1>2, <1>3, <2>2 DEF CallerInserts, Unasked, Probe
  <2>3. CASE CallerResolves(r)
    BY <1>2, <2>3 DEF CallerResolves, Unasked
  <2> QED BY <1>2, <2>1, <2>2, <2>3
          DEF CallerAsks, CallerStep, CallerCreates, CallerFindsRunning,
              CallerFindsIdle, CallerClears, CallerFails, CallerRefreshed, CallerStoresCron
<1> QED BY <1>1, <1>2, <1>4, <1>5, LoadsFor

(* The loader reads every such row and queues each one it has read.        *)
LEMMA LoadsLoader ==
    ASSUME TypeOK, LoaderStep
    PROVE  LoadsOn
<1>1. SUFFICES ASSUME NEW o \in Ids, ToLoad(o)
               PROVE  ToLoad(o)' \/ Keeps(o) \/ Keeps(o)'
  BY DEF LoadsOn
<1>2. /\ UNCHANGED <<rows, bodies, writes>> /\ queues \in QueueState
      /\ loader \in LoaderState
      /\ NoBodyOf(bodies, o) /\ Leaves(writes, o) /\ Unasked(probes, o)
  BY <1>1
     DEF TypeOK, ToLoad, LoaderStep, LoaderReads, LoaderSkips, LoaderQueues, LoaderResolves
<1>3. ASSUME NEW id, id # o, o \in loader.todo, Buildable(loader.snap[o]),
             loader' = LoadedRow(id), Unasked(probes', o)
      PROVE  ToLoad(o)'
  <2>1. /\ loader.todo # {id}
        /\ loader' = [loader EXCEPT !.pc = "loop", !.todo = @ \ {id}, !.snap[id] = None]
    BY <1>3 DEF LoadedRow
  <2>2. o \in loader'.todo /\ loader'.snap[o] = loader.snap[o] /\ loader'.pc = "loop"
    BY <1>2, <1>3, <2>1 DEF LoaderState, Table
  <2> QED BY <1>2, <1>3, <2>2 DEF ToLoad
<1>4. CASE LoaderReads
  <2> DEFINE todo == {id \in Ids : Pending(rows, id)}
             snap == [id \in Ids |-> IF id \in todo THEN rows[id] ELSE None]
  <2>1. loader.pc = "start" /\ UNCHANGED probes
        /\ loader' = IF todo = {} THEN [Unloaded EXCEPT !.pc = "done"]
                      ELSE [pc |-> "loop", todo |-> todo, snap |-> snap]
    BY <1>4 DEF LoaderReads
  <2>2. Pending(rows, o) /\ Buildable(rows[o])
    BY <1>1, <2>1 DEF ToLoad
  <2>3. o \in todo /\ snap[o] = rows[o]
    BY <2>2
  <2> HIDE DEF todo, snap
  <2>4. o \in loader'.todo /\ loader'.snap[o] = rows[o] /\ loader'.pc = "loop"
    BY <2>1, <2>3
  <2> QED BY <1>2, <2>1, <2>2, <2>4 DEF ToLoad
<1>5. CASE loader.pc # "start"
  <2>1. o \in loader.todo /\ Buildable(loader.snap[o])
    BY <1>1, <1>5 DEF ToLoad
  <2>2. ASSUME NEW id \in Ids, LoaderSkips(id) PROVE ToLoad(o)'
    BY <1>2, <1>3, <2>1, <2>2 DEF LoaderSkips
  <2>3. ASSUME NEW id \in Ids, LoaderQueues(id) PROVE ToLoad(o)' \/ Keeps(o)'
    <3> DEFINE m == LoadedMeta(loader.snap[id])
    <3>1. /\ id \in loader.todo /\ Enqueue(queues, LoaderTag, id, m)
          /\ \/ loader' = [loader EXCEPT !.pc = "resolve"]
             \/ loader' = LoadedRow(id)
      BY <2>3 DEF LoaderQueues
    <3>2. m \in TaskMeta
      BY <1>2, <3>1, LoadedMetaType DEF TypeOK, LoaderState, Table
    <3> HIDE DEF m
    <3>3. CASE id = o
      BY <1>2, <3>1, <3>2, <3>3, AddQueueKeeps DEF Enqueue, Keeps
    <3>4. CASE id # o
      <4>1. Unasked(probes', o)
        BY <1>2, <3>1, <3>4, EnqueueUnasked
      <4>2. loader' = [loader EXCEPT !.pc = "resolve"] => ToLoad(o)'
        BY <1>2, <2>1, <4>1 DEF ToLoad, LoaderState
      <4> QED BY <1>3, <2>1, <3>1, <3>4, <4>1, <4>2
    <3> QED BY <3>3, <3>4
  <2>4. CASE LoaderResolves
    <3>1. PICK p \in probes : /\ p.who = LoaderTag /\ loader' = LoadedRow(p.id)
                              /\ probes' = probes \ {p}
      BY <2>4 DEF LoaderResolves, Resolved
    <3>2. p.id # o /\ Unasked(probes', o)
      BY <1>2, <3>1 DEF Unasked
    <3> QED BY <1>3, <2>1, <3>1, <3>2
  <2> QED BY <1>5, <2>2, <2>3, <2>4 DEF LoaderStep, LoaderReads
<1>6. CASE loader.pc = "start" /\ ~LoaderReads
  BY <1>6 DEF LoaderStep, LoaderSkips, LoaderQueues, LoaderResolves
<1> QED BY <1>4, <1>5, <1>6

(* The store.  A write that takes effect changes a row to what it carries. *)
LEMMA EffectOwes ==
    ASSUME TypeOK, DepsInv, WriteEffect
    PROVE  \E w \in WriteRecord :
             /\ w.id \in Ids /\ rows' = Effect(w) /\ writes' = [writes EXCEPT ![1] = w]
             /\ w.op = Head(writes).op /\ w.who = Head(writes).who
             /\ w.meta = Head(writes).meta /\ w.key = Head(writes).key
             /\ IF w.op = "create"
                  THEN rows[w.id] = None /\ owed' = [owed EXCEPT ![w.id] = w.meta.param]
                  ELSE w = Head(writes) /\ owed' = owed
<1> DEFINE h == Head(writes)
           w == IF h.op = "create" THEN [h EXCEPT !.id = NewId(rows)] ELSE h
<1>1. h \in WriteRecord
  BY HeadOwned DEF WriteEffect
<1>2. h.op = "create" => NewId(rows) \in Ids /\ rows[NewId(rows)] = None
  <2>1. h.op = "create" => FreeIds(rows) # {}
    BY DEF WriteEffect, Creatable, CanCreate
  <2> QED BY <2>1 DEF NewId, FreeIds
<1>3. /\ rows' = Effect(w) /\ writes' = [writes EXCEPT ![1] = w]
      /\ owed' = IF h.op = "create" THEN [owed EXCEPT ![w.id] = w.meta.param] ELSE owed
  BY DEF WriteEffect
<1>4. CASE h.op = "create"
  <2>1. w = [h EXCEPT !.id = NewId(rows)] /\ NewId(rows) \in Ids
        /\ rows[NewId(rows)] = None
    BY <1>2, <1>3, <1>4
  <2>2. w \in WriteRecord /\ w.id = NewId(rows) /\ w.op = h.op /\ w.who = h.who
        /\ w.meta = h.meta /\ w.key = h.key
    BY <1>1, <1>4, <2>1 DEF WriteRecord
  <2> HIDE DEF w
  <2> QED BY <1>3, <1>4, <2>1, <2>2
<1>5. CASE h.op # "create"
  <2>1. w = h /\ h.id \in Ids
    BY <1>1, <1>5 DEF WriteRecord
  <2> HIDE DEF w
  <2> QED BY <1>1, <1>3, <1>5, <2>1
<1> QED BY <1>4, <1>5

(* What a row can become when its record is replaced.                      *)
Becomes(row, new, w, id) ==
    /\ new # None /\ new.key = row.key /\ new.kind = row.kind
    /\ new.param = row.param \/ (id = w.id /\ new.param = w.meta.param)
    /\ new.cron = row.cron \/ (id = w.id /\ new.cron = w.meta.cron)
    /\ new.status = row.status \/ (id = w.id /\ w.op \in Settling)

(* A changed record, and every other row as it was.                        *)
LEMMA ChangeBecomes ==
    ASSUME rows \in Table, NEW w, NEW o \in Ids, rows[o] # None, NEW new,
           w.id = o => Becomes(rows[o], new, w, o)
    PROVE  Becomes(rows[o], Change(rows, w.id, new)[o], w, o)
<1>1. CASE w.id = o
  <2>1. Change(rows, w.id, new)[o] = new
    BY <1>1 DEF Change, Table
  <2> QED BY <1>1, <2>1
<1>2. CASE w.id # o
  <2>1. Change(rows, w.id, new)[o] = rows[o]
    BY <1>2 DEF Change, Table
  <2> QED BY <2>1 DEF Becomes
<1> QED BY <1>1, <1>2

(* The statements but create, row by row.                                  *)
LEMMA EffectRow ==
    ASSUME rows \in Table, NEW w \in WriteRecord, w.op # "create", w.id \in Ids,
           NEW o \in Ids
    PROVE  /\ rows[o] # None => Becomes(rows[o], Effect(w)[o], w, o)
           /\ rows[o] = None => Effect(w)[o] = None
<1> DEFINE row == rows[w.id]
<1>1. /\ w.op \in {"cron", "update", "finish", "undep", "postpone", "fail"}
      /\ w.meta \in TaskMeta
      /\ \A i \in Ids : rows[i] # None => rows[i] \in Row
  BY RowType DEF WriteRecord
<1>2. \A r2 : rows[o] = None => Change(rows, w.id, r2)[o] = None
  BY DEF Change, Table
<1>3. ASSUME NEW r2 \in Row, r2.key = row.key, r2.kind = row.kind,
             r2.param = row.param \/ r2.param = w.meta.param,
             r2.cron = row.cron \/ r2.cron = w.meta.cron,
             r2.status = row.status \/ w.op \in Settling
      PROVE  rows[o] # None => Becomes(rows[o], Change(rows, w.id, r2)[o], w, o)
  <2>1. w.id = o => Becomes(rows[o], r2, w, o)
    BY <1>3, NoRowAssumption DEF Becomes
  <2> QED BY <2>1, ChangeBecomes
<1>4. rows[o] # None => Becomes(rows[o], rows[o], w, o)
  BY DEF Becomes
<1>5. ASSUME row = None, NEW r2
      PROVE  rows[o] # None => Becomes(rows[o], Change(rows, w.id, r2)[o], w, o)
  BY <1>4, <1>5 DEF Change
<1>6. CASE w.op = "cron"
  <2> DEFINE r2 == [rows[w.id] EXCEPT !.cron = w.meta.cron]
  <2>1. Effect(w) = Change(rows, w.id, r2)
    BY <1>6 DEF Effect, StoreCron
  <2>2. row # None => /\ r2 \in Row /\ r2.key = row.key /\ r2.kind = row.kind /\ r2.param = row.param
                      /\ r2.cron = w.meta.cron /\ r2.status = row.status
    BY <1>1 DEF Row, TaskMeta
  <2> HIDE DEF r2, row
  <2> QED BY <1>2, <1>3, <1>5, <2>1, <2>2
<1>7. CASE w.op = "undep"
  <2>1. /\ rows[o] = None => Effect(w)[o] = None
        /\ rows[o] # None => Effect(w)[o] = ForgetDep(rows[o], w.id)
    BY <1>7 DEF Effect, DropDependency
  <2>2. rows[o] # None =>
          LET new == ForgetDep(rows[o], w.id)
          IN  /\ new \in Row /\ new.key = rows[o].key /\ new.kind = rows[o].kind
              /\ new.param = rows[o].param
              /\ new.cron = rows[o].cron /\ new.status = rows[o].status
    BY <1>1 DEF ForgetDep, Row
  <2> QED BY <2>1, <2>2, NoRowAssumption DEF Becomes
<1>8. ASSUME NEW s \in Statuses, w.op \in Settling
      PROVE  /\ rows[o] # None => Becomes(rows[o], StampIfPending(rows, w.id, s)[o], w, o)
             /\ rows[o] = None => StampIfPending(rows, w.id, s)[o] = None
  <2> DEFINE r2 == [rows[w.id] EXCEPT !.status = s, !.next = "now"]
  <2>1. StampIfPending(rows, w.id, s) = IF Pending(rows, w.id) THEN Change(rows, w.id, r2)
                                                              ELSE rows
    BY DEF StampIfPending
  <2>2. row # None => /\ r2 \in Row /\ r2.key = row.key /\ r2.kind = row.kind /\ r2.param = row.param
                      /\ r2.cron = row.cron
    BY <1>1 DEF Row, Slots
  <2> HIDE DEF r2, row
  <2> QED BY <1>2, <1>3, <1>4, <1>5, <1>8, <2>1, <2>2
<1>9. CASE w.op = "finish" \/ w.op = "fail"
  <2>1. \E s \in Statuses : Effect(w) = StampIfPending(rows, w.id, s)
    BY <1>9 DEF Effect, MarkFinished, MarkFailed, Statuses
  <2> QED BY <1>8, <1>9, <2>1 DEF Settling
<1>10. CASE w.op = "postpone"
  <2> DEFINE r2 == [rows[w.id] EXCEPT !.next = "later"]
  <2>1. Effect(w) = IF Pending(rows, w.id) THEN Change(rows, w.id, r2) ELSE rows
    BY <1>10 DEF Effect, Postpone
  <2>2. row # None => /\ r2 \in Row /\ r2.key = row.key /\ r2.kind = row.kind /\ r2.param = row.param
                      /\ r2.cron = row.cron /\ r2.status = row.status
    BY <1>1 DEF Row, Slots
  <2> HIDE DEF r2, row
  <2> QED BY <1>2, <1>3, <1>4, <1>5, <2>1, <2>2
<1>11. CASE w.op = "update"
  <2> DEFINE m == w.meta
             r2 == [rows[w.id] EXCEPT !.param = m.param,
                                      !.next  = m.next,
                                      !.deps  = IF m.deps # {} THEN m.deps ELSE @,
                                      !.retry = IF m.retry > 0 THEN m.retry ELSE @,
                                      !.count = IF m.retry > 0 THEN m.count ELSE @,
                                      !.cron  = IF m.cron # "none" THEN m.cron ELSE @]
  <2>1. Effect(w) = Change(rows, w.id, r2)
    BY <1>11 DEF Effect, UpdateTask
  <2>2. row # None => /\ r2.key = row.key /\ r2.kind = row.kind /\ r2.param = m.param
                      /\ r2.cron = (IF m.cron # "none" THEN m.cron ELSE row.cron)
                      /\ r2.status = row.status
    BY <1>1 DEF Row
  <2>3. row # None => r2 \in Row
    <3>1. SUFFICES ASSUME row # None PROVE r2 \in Row
      OBVIOUS
    <3>2. row \in Row
      BY <1>1, <3>1
    <3> QED BY <1>1, <3>2 DEF Row, TaskMeta
  <2> HIDE DEF r2, row
  <2> QED BY <1>2, <1>3, <1>5, <2>1, <2>2, <2>3
<1> QED BY <1>1, <1>6, <1>7, <1>9, <1>10, <1>11

(* A write that takes effect: a created task is owed its first run, every  *)
(* other write leaves what the rows say of input, key and recurrence.      *)
LEMMA HonourEffect ==
    ASSUME OneShots, TypeOK, DepsInv, HonourInv, WriteEffect
    PROVE  HonourInv'
<1>1. PICK w \in WriteRecord :
        /\ w.id \in Ids /\ rows' = Effect(w) /\ writes' = [writes EXCEPT ![1] = w]
        /\ w.op = Head(writes).op /\ w.who = Head(writes).who
        /\ w.meta = Head(writes).meta /\ w.key = Head(writes).key
        /\ IF w.op = "create"
             THEN rows[w.id] = None /\ owed' = [owed EXCEPT ![w.id] = w.meta.param]
             ELSE w = Head(writes) /\ owed' = owed
  BY EffectOwes
<1>2. /\ writes \in Seq(WriteRecord) /\ writes # <<>> /\ rows \in Table
      /\ wres = "busy" /\ wres' = "ok"
      /\ UNCHANGED <<queues, callers, loader, counts>>
      /\ owed \in [Ids -> Params \cup {None}]
      /\ Copies(Inputs(rows)) /\ OwedRuns /\ RowsAsked /\ NoneChanged
      /\ SnapsCarry(loader, Inputs(rows))
  BY DEF WriteEffect, TypeOK, HonourInv
<1>3. WriteCarries(Head(writes), Inputs(rows))
  BY <1>2, ReturnCarries DEF Copies
<1>4. Head(writes') = w /\ writes' # <<>>
  BY <1>1, <1>2
<1>5. NoFault'
  BY <1>2 DEF NoFault
<1>6. \A o \in Ids : StillKept(o)
  BY <1>2 DEF StillKept, Keeps, Created
<1>9. ASSUME \A o \in Ids : ToLoad(o) /\ Pending(rows, o) /\ Buildable(rows[o])
               => Pending(rows', o) /\ Buildable(rows'[o])
      PROVE  LoadsOn
  <2>1. /\ UNCHANGED <<bodies, probes>>
        /\ \A v \in UnderWay(writes') : v \in UnderWay(writes) \/ v = w
    <3>1. OneEach(writes)
      BY DEF DepsInv, WritesFit
    <3> QED BY <1>1, <1>2, <3>1, UnderWayChange DEF WriteEffect
  <2>2. \A o \in Ids : Leaves(writes, o) => Leaves(writes', o)
    <3>1. w.op \in Settling => w \in UnderWay(writes)
      BY <1>1, <1>2, UnderWayShrinks DEF Settling
    <3> QED BY <2>1, <3>1 DEF Leaves
  <2> QED BY <1>2, <1>9, <2>1, <2>2 DEF LoadsOn, ToLoad
<1>7. CASE w.op = "create"
  <2>1. rows' = [rows EXCEPT ![w.id] =
           [status |-> "P", kind |-> KindOf[w.meta.param], key |-> w.key,
            param |-> w.meta.param, deps |-> w.meta.deps, retry |-> 0, count |-> 0,
            cron |-> "none", next |-> "now"]]
    BY <1>1, <1>7 DEF Effect, CreateTask
  <2>2. /\ \A o \in Ids : o # w.id => rows'[o] = rows[o]
        /\ rows'[w.id].key = w.key /\ rows'[w.id].param = w.meta.param
        /\ rows'[w.id].cron = "none"
    BY <1>1, <1>2, <2>1 DEF Table
  <2>3. rows'[w.id] # None
    <3>1. rows' \in Table
      BY <1>1, <1>2, EffectType
    <3>2. /\ w.meta \in TaskMeta /\ w.key \in Keys \cup {None}
          /\ KindOf[w.meta.param] \in Kinds
      BY DEF WriteRecord, TaskMeta, Kinds
    <3>3. rows'[w.id] \in Row
      BY <1>1, <1>2, <2>1, <3>2 DEF Table, Row, TaskMeta, Statuses, CronKinds, Slots
    <3> QED BY <3>3, NoRowAssumption
  <2>4. <<w.key, w.meta.param, w.meta.cron>> \in Asks /\ w.meta.cron = "none"
    <3>1. <<w.key, w.meta.param, w.meta.cron>> \in Asks
      BY <1>1, <1>3, <1>7 DEF WriteCarries
    <3> QED BY <3>1 DEF Asks, OneShots
  <2>5. RowsAsked'
    BY <1>2, <2>2, <2>4 DEF RowsAsked
  <2>6. \A o \in Ids : rows[o] # None => rows'[o] # None /\ rows'[o].param = rows[o].param
    BY <1>1, <1>7, <2>2
  <2>7. Inputs(rows) \subseteq Inputs(rows')
    BY <2>6 DEF Inputs
  <2>8. CopiesNext(Inputs(rows'))
    <3>1. Carries(w.meta, w.id, Inputs(rows'))
      BY <1>1, <2>2, <2>3, <2>4 DEF Carries, Inputs
    <3> DEFINE E == Inputs(rows')
               D == Inputs(rows)
    <3>2. PICK F : F = E
      OBVIOUS
    <3>3. PICK G : G = D
      OBVIOUS
    <3>4. Copies(G) /\ G \subseteq F /\ Carries(w.meta, w.id, F)
      BY <1>2, <2>7, <3>1, <3>2, <3>3
    <3> HIDE DEF E, D
    <3>5. CopiesNext(F)
      BY <1>1, <3>4, CopiesEffect
    <3> QED BY <3>2, <3>5 DEF E
  <2>9. ~IsRunning(queues, w.id) /\ NowOwed(w.id)
    <3>1. ~IsRunning(queues, w.id)
      BY <1>1, <1>2, <1>7, CarriesOwed DEF Copies, QueuesCarry
    <3>2. Keeps(w.id)'
      BY <1>2, <1>4, <1>7 DEF Keeps, Created
    <3> QED BY <1>1, <1>2, <1>7, <2>2, <2>3, <3>1, <3>2 DEF NowOwed
  <2>10. OwedMoves
    <3>1. \A o \in Ids : o # w.id => StillRuns(o)
      BY <1>1, <1>2, <1>7 DEF StillRuns
    <3> QED BY <1>6, <2>9, <3>1 DEF OwedMoves
  <2>11. SnapsCarry(loader', Inputs(rows')) /\ NoneChanged'
    BY <1>2, <2>7, CopiesGrow DEF NoneChanged
  <2>12. LoadsOn
    <3>1. \A o \in Ids : Pending(rows, o) => rows'[o] = rows[o]
      BY <1>1, <1>7, <2>2 DEF Pending
    <3> QED BY <1>9, <3>1 DEF Pending
  <2> QED BY <1>2, <1>5, <2>5, <2>6, <2>8, <2>10, <2>11, <2>12, MovesHonour
<1>8. CASE w.op # "create"
  <2>1. w = Head(writes) /\ owed' = owed
    BY <1>1, <1>8
  <2>2. rows[w.id] # None /\ w.meta.param = rows[w.id].param /\ w.meta.cron = "none"
    BY <1>1, <1>2, <1>3, <2>1, NoIdAssumption, CarriesOwed DEF WriteCarries
  <2>3. \A o \in Ids : /\ rows[o] # None => Becomes(rows[o], rows'[o], w, o)
                       /\ rows[o] = None => rows'[o] = None
    BY <1>1, <1>2, <1>8, EffectRow
  <2>4. \A o \in Ids : rows[o] # None =>
          /\ rows'[o] # None /\ rows'[o].param = rows[o].param
          /\ rows'[o].key = rows[o].key /\ rows'[o].cron = "none"
    BY <1>2, <2>2, <2>3 DEF Becomes, RowsAsked
  <2>5. RowsAsked'
    BY <1>2, <2>3, <2>4 DEF RowsAsked
  <2>6. Inputs(rows) \subseteq Inputs(rows')
    BY <2>4 DEF Inputs
  <2>7. CopiesNext(Inputs(rows'))
    <3> DEFINE E == Inputs(rows')
               D == Inputs(rows)
    <3>1. PICK F : F = E
      OBVIOUS
    <3>2. PICK G : G = D
      OBVIOUS
    <3>3. Copies(G) /\ G \subseteq F
      BY <1>2, <2>6, <3>1, <3>2
    <3> HIDE DEF E, D
    <3>4. CopiesNext(F)
      BY <1>1, <1>8, <3>3, CopiesEffect
    <3> QED BY <3>1, <3>4 DEF E
  <2>8. OwedMoves
    BY <1>2, <1>6, <2>1, QuietMoves, SameReruns
  <2>9. SnapsCarry(loader', Inputs(rows')) /\ NoneChanged'
    BY <1>2, <2>6, CopiesGrow DEF NoneChanged
  <2>10. LoadsOn
    <3>1. SUFFICES ASSUME NEW o \in Ids, ToLoad(o), Pending(rows, o), Buildable(rows[o])
                   PROVE  Pending(rows', o) /\ Buildable(rows'[o])
      BY <1>9
    <3>2. rows[o] # None /\ rows[o].status = "P" /\ rows'[o] # None
          /\ rows'[o].param = rows[o].param /\ rows'[o].kind = rows[o].kind
      BY <2>3, <2>4, <3>1 DEF Pending, Becomes
    <3>3. w \in UnderWay(writes)
      BY <1>2, <2>1, UnderWayShrinks
    <3>4. rows'[o].status = rows[o].status
      BY <2>3, <3>1, <3>2, <3>3 DEF Becomes, ToLoad, Leaves
    <3> QED BY <3>1, <3>2, <3>4 DEF Pending, Buildable
  <2> QED BY <1>2, <1>5, <2>4, <2>5, <2>7, <2>8, <2>9, <2>10, MovesHonour
<1> QED BY <1>7, <1>8

(* A step that leaves the rows alone.                                      *)
LEMMA QuietHonour ==
    ASSUME TypeOK, HonourInv, UNCHANGED rows, OwedMoves, CopiesNext(Inputs(rows)),
           SnapsCarry(loader', Inputs(rows)), NoneChanged', NoFault => NoFault', LoadsOn,
           counts'.faults = counts.faults, counts'.lost = counts.lost
    PROVE  HonourInv'
<1>1. RowsAsked' /\ Inputs(rows') = Inputs(rows)
  BY DEF HonourInv, RowsAsked
<1>2. counts'.faults = 0 => counts.faults = 0 /\ NoFault'
  BY DEF HonourInv, OwedKept
<1> QED BY <1>1, <1>2, MovesHonour

(* The steps of the store: effects, failures and probes.                   *)
LEMMA HonourStore ==
    ASSUME OneShots, TypeOK, DepsInv, HonourInv, StoreStep
    PROVE  HonourInv'
<1>1. CASE WriteFails
  <2>1. /\ UNCHANGED <<queues, rows, bodies, callers, fin, loader, writes, owed>>
        /\ writes # <<>> /\ wres = "busy" /\ wres' = "failed"
        /\ \/ Head(writes).op = "create" /\ counts' = counts
           \/ counts' = [counts EXCEPT !.faults = @ + 1]
    BY <1>1 DEF WriteFails, history
  <2>2. counts'.faults = 0 => counts.faults = 0 /\ NoFault'
    <3>1. counts.faults \in Nat /\ counts \in CountState
      BY DEF TypeOK, CountState
    <3>2. counts' = [counts EXCEPT !.faults = @ + 1] => counts'.faults # 0
      BY <3>1 DEF CountState
    <3> QED BY <2>1, <3>2 DEF NoFault
  <2>3. \A o \in Ids : StillKept(o)
    BY <2>1 DEF StillKept, Keeps, Created
  <2>4. OwedMoves
    BY <2>1, <2>3, QuietMoves, SameReruns
  <2>5. /\ RowsAsked' /\ NoneChanged' /\ Inputs(rows') = Inputs(rows)
        /\ CopiesNext(Inputs(rows)) /\ SnapsCarry(loader', Inputs(rows))
    BY <2>1 DEF HonourInv, RowsAsked, NoneChanged, Copies, CopiesNext
  <2>6. LoadsOn /\ counts'.lost = counts.lost
    <3>1. UNCHANGED probes
      BY <1>1 DEF WriteFails
    <3>2. LoadsOn
      BY <2>1, <3>1 DEF LoadsOn, ToLoad
    <3> QED BY <2>1, <3>2 DEF TypeOK, CountState
  <2> QED BY <2>1, <2>2, <2>4, <2>5, <2>6, MovesHonour
<1>2. CASE \E p \in probes : ProbeAnswered(p)
  <2>1. UNCHANGED <<queues, rows, bodies, callers, fin, loader, writes, wres, counts, owed>>
    BY <1>2 DEF ProbeAnswered, history
  <2>2. \A o \in Ids : StillKept(o)
    BY <2>1 DEF StillKept, Keeps
  <2>3. OwedMoves
    BY <2>1, <2>2, QuietMoves, SameReruns
  <2>4. /\ NoneChanged' /\ (NoFault => NoFault')
        /\ CopiesNext(Inputs(rows)) /\ SnapsCarry(loader', Inputs(rows))
    BY <2>1 DEF HonourInv, NoneChanged, NoFault, Copies, CopiesNext
  <2>5. LoadsOn
    <3>1. PICK p \in probes : /\ UNCHANGED <<rows, bodies, loader, writes>>
                              /\ probes' = (probes \ {p}) \cup
                                   {[p EXCEPT !.answered = TRUE,
                                              !.completed = FindCompleted(rows, p.deps)]}
      BY <1>2 DEF ProbeAnswered
    <3>2. p \in ProbeRecord
      BY DEF TypeOK
    <3>3. \A q \in probes' : q \in probes \/ (q.who = p.who /\ q.id = p.id)
      BY <3>1, <3>2 DEF ProbeRecord
    <3>4. \A o \in Ids : Unasked(probes, o) => Unasked(probes', o)
      BY <3>3 DEF Unasked
    <3> QED BY <3>1, <3>4 DEF LoadsOn, ToLoad
  <2> QED BY <2>1, <2>3, <2>4, <2>5, QuietHonour
<1> QED BY <1>1, <1>2, HonourEffect DEF StoreStep

(* Initially nothing is owed.                                              *)
LEMMA HonourInit ==
    ASSUME Init
    PROVE  HonourInv
<1>1. /\ rows = [id \in Ids |-> None] /\ owed = [id \in Ids |-> None]
      /\ callers = [r \in Callers |-> Idle] /\ wres = "busy"
  BY DEF Init
<1>2. Copies(Inputs(rows)) /\ SnapsCarry(loader, Inputs(rows))
  BY CopiesFirst
<1> QED BY <1>1, <1>2 DEF HonourInv, RowsAsked, NoneChanged, Idle, OwedRuns, OwedKept, NoFault

(* A restart keeps a request whose row the next start is going to read.    *)
LEMMA HonourCrash ==
    ASSUME TypeOK, HonourInv, Crash
    PROVE  HonourInv'
<1>1. /\ rows' = rows /\ owed' = [id \in Ids |-> IF Survives(id) THEN owed[id] ELSE None]
      /\ callers' = [r \in Callers |-> Idle] /\ wres' = "busy"
      /\ queues' = EmptyQueues /\ bodies' = [b \in Bodies |-> NoBody]
      /\ loader' = Unloaded /\ writes' = <<>> /\ probes' = {}
      /\ counts' = [counts EXCEPT !.crashes = @ + 1, !.lost = @ \cup Forgotten]
  BY DEF Crash
<1>2. CopiesNext(Inputs(rows)) /\ SnapsCarry(loader', Inputs(rows))
  BY CopiesCrash
<1>3. Copies(Inputs(rows))' /\ SnapsCarry(loader, Inputs(rows))'
  BY <1>1, <1>2 DEF CopiesNext, Copies, Inputs
<1>4. RowsAsked'
  BY <1>1 DEF HonourInv, RowsAsked
<1>5. NoneChanged' /\ NoFault'
  BY <1>1 DEF NoneChanged, Idle, NoFault
<1>6. \A o \in Ids : owed'[o] # None => Survives(o) /\ owed'[o] = owed[o]
  BY <1>1
<1>7. OwedRuns'
  BY <1>1, <1>6 DEF Survives, OwedRuns, EmptyQueues, IsRunning
<1>8. ASSUME NEW o \in Ids, owed'[o] # None
      PROVE  ToLoad(o)' \/ o \in counts'.lost
  <2>1. CASE Pending(rows, o) /\ Buildable(rows[o])
    <3>1. loader'.pc = "start" /\ Pending(rows', o) /\ Buildable(rows'[o])
      BY <1>1, <2>1 DEF Unloaded
    <3>2. NoBodyOf(bodies', o) /\ Leaves(writes', o) /\ Unasked(probes', o)
      BY <1>1 DEF NoBodyOf, Bodies, NoBody, Leaves, UnderWay, Unasked
    <3> QED BY <3>1, <3>2 DEF ToLoad
  <2>2. CASE ~(Pending(rows, o) /\ Buildable(rows[o]))
    <3>1. o \in Forgotten
      BY <1>6, <1>8, <2>2 DEF Forgotten
    <3>2. counts'.lost = counts.lost \cup Forgotten
      BY <1>1 DEF TypeOK, CountState
    <3> QED BY <3>1, <3>2
  <2> QED BY <2>1, <2>2
<1> QED BY <1>3, <1>4, <1>5, <1>7, <1>8 DEF HonourInv, OwedKept

(* Every step keeps the invariant.                                         *)
LEMMA HonourNext ==
    ASSUME OneInput, OneShots, TypeOK, DepsInv, HonourInv, [Next]_vars
    PROVE  HonourInv'
<1>1. CASE UNCHANGED vars
  <2>1. Copies(Inputs(rows))' /\ SnapsCarry(loader, Inputs(rows))'
    BY <1>1 DEF vars, HonourInv, Copies, Inputs
  <2>2. RowsAsked' /\ NoneChanged' /\ OwedRuns'
    BY <1>1 DEF vars, HonourInv, RowsAsked, NoneChanged, OwedRuns
  <2>3. counts'.faults = 0 => OwedKept'
    BY <1>1 DEF vars, HonourInv, OwedKept, NoFault, Keeps, ToLoad
  <2> QED BY <2>1, <2>2, <2>3 DEF HonourInv
<1>2. ASSUME CopiesNext(Inputs(rows)), OwedMoves, NoFault => NoFault', LoadsOn,
             UNCHANGED <<rows, callers, loader, counts>>
      PROVE  HonourInv'
  <2>1. SnapsCarry(loader', Inputs(rows)) /\ NoneChanged'
    BY <1>2 DEF HonourInv, NoneChanged
  <2> QED BY <1>2, <2>1, QuietHonour
<1>3. Copies(Inputs(rows)) /\ SnapsCarry(loader, Inputs(rows)) /\ NoneChanged
  BY DEF HonourInv
<1>4. ASSUME NEW s \in Slots, NEW id \in Ids, Dispatch(s, id) PROVE HonourInv'
  <2>1. CopiesNext(Inputs(rows))
    BY <1>3, <1>4, CopiesDispatch
  <2>2. UNCHANGED <<rows, callers, loader, counts>>
    BY <1>4 DEF Dispatch
  <2> QED BY <1>2, <1>4, <2>1, <2>2, OwedDispatch, LoadsDispatch
<1>5. ASSUME NEW b \in Bodies, BodyStep(b) PROVE HonourInv'
  <2>1. CopiesNext(Inputs(rows))
    BY <1>3, <1>5, CopiesBody
  <2>2. UNCHANGED <<rows, callers, loader, counts>>
    BY <1>5 DEF BodyStep, BodySucceeds, BodyFails, BodyErrorStored, BodyRetries, BodyResolves,
           BodyGivesUp
  <2> QED BY <1>2, <1>5, <2>1, <2>2, OwedBody, LoadsBody
<1>6. CASE FinStep
  <2>1. CopiesNext(Inputs(rows))
    BY <1>3, <1>6, CopiesFin
  <2>2. UNCHANGED <<rows, callers, loader, counts>>
    BY <1>6 DEF FinStep, FinNotFound, FinReruns, FinStores, FinCronStored,
           FinResolves, FinRowStamped, FinFinished
  <2> QED BY <1>2, <1>6, <2>1, <2>2, OwedFin, LoadsFin
<1>7. ASSUME NEW r \in Callers, NEW rq \in Requests, CallerAsks(r, rq) PROVE HonourInv'
  <2>1. CopiesNext(Inputs(rows))
    BY <1>3, <1>7, FindsInput, CopiesAsks
  <2>2. UNCHANGED <<rows, loader>> /\ counts' = [counts EXCEPT !.requests = @ + 1]
    BY <1>7 DEF CallerAsks
  <2>3. counts'.faults = counts.faults /\ counts'.lost = counts.lost
    BY <2>2 DEF TypeOK, CountState
  <2>4. SnapsCarry(loader', Inputs(rows))
    BY <1>3, <2>2
  <2>5. LoadsOn
    BY <1>7, LoadsCaller
  <2> QED BY <1>7, <2>1, <2>2, <2>3, <2>4, <2>5, OwedAsks, QuietHonour
<1>8. ASSUME NEW r \in Callers, CallerStep(r) PROVE HonourInv'
  <2>1. CopiesNext(Inputs(rows))
    BY <1>3, <1>8, CopiesCaller
  <2>2. UNCHANGED <<rows, loader, counts>>
    BY <1>8 DEF CallerStep, CallerCreates,
           CallerFindsRunning, CallerFindsIdle, CallerClears, CallerFails, CallerRefreshed,
           CallerStoresCron, CallerQueues, CallerInserts, CallerResolves
  <2>3. SnapsCarry(loader', Inputs(rows))
    BY <1>3, <2>2
  <2>4. LoadsOn
    BY <1>8, LoadsCaller
  <2> QED BY <1>8, <2>1, <2>2, <2>3, <2>4, OwedCaller, QuietHonour
<1>9. CASE LoaderStep
  <2>1. \A id \in Ids : Pending(rows, id) => Carries(rows[id], id, Inputs(rows))
    BY DEF HonourInv, RowsAsked, Pending, Carries, Inputs
  <2>2. CopiesNext(Inputs(rows)) /\ SnapsCarry(loader', Inputs(rows))
    BY <1>3, <1>9, <2>1, CopiesLoader
  <2>3. UNCHANGED <<rows, callers, counts>>
    BY <1>9 DEF LoaderStep, LoaderReads, LoaderSkips, LoaderQueues, LoaderResolves
  <2>4. NoneChanged'
    BY <1>3, <2>3 DEF NoneChanged
  <2> QED BY <1>9, <2>2, <2>3, <2>4, OwedLoader, LoadsLoader, QuietHonour
<1> QED BY <1>1, <1>4, <1>5, <1>6, <1>7, <1>8, <1>9, HonourStore, HonourCrash DEF Next

(* RequestHonoured, for requests of which none recurs and none changes the *)
(* input of its key.  Both are needed: with a second input the request can *)
(* overwrite the entry a retry is made from (the run superseded), and a    *)
(* recurring one does not flag a running entry: it relies on a recurrence  *)
(* that the loader can overwrite with what it read before.  What is left   *)
(* is every interleaving of calls, from the worker and from the main       *)
(* thread, with dispatch, runs, retries, reruns, dependencies and restarts: *)
(* a restart leaves a request to the next start, unless its row is closed  *)
(* or no builder takes it, and those are named (counts.lost).              *)
THEOREM RequestHonouredCorrect ==
    ASSUME OneInput, OneShots
    PROVE  Spec => []RequestHonoured
<1>1. Init => HonourInv
  BY HonourInit
<1>2. (TypeOK /\ DepsInv) /\ HonourInv /\ [Next]_vars => HonourInv'
  BY HonourNext
<1>3. (TypeOK /\ DepsInv) /\ HonourInv => RequestHonoured
  <2>1. SUFFICES ASSUME TypeOK, HonourInv, counts.faults = 0, NEW id \in Ids,
                        owed[id] # None
                 PROVE  id \in counts.lost \/ WillRun(id, owed[id])
    BY DEF RequestHonoured
  <2>2. /\ Keeps(id) \/ ToLoad(id) \/ id \in counts.lost
        /\ OwedRuns /\ queues \in QueueState
        /\ QueuesCarry(queues, Inputs(rows)) /\ SnapsCarry(loader, Inputs(rows))
        /\ CallsCarry(callers, Inputs(rows)) /\ WritesCarry(writes, Inputs(rows))
    BY <2>1 DEF HonourInv, OwedKept, Copies, TypeOK
  <2>3. \A m \in TaskMeta : Carries(m, id, Inputs(rows)) => Honours(m, owed[id])
    BY <2>1, <2>2, CarriesOwed, NoneAssumption DEF Honours
  <2>4. CASE InQueues(queues, id)
    <3>1. IsRunning(queues, id) => Honours(queues.run[id], owed[id]) /\ queues.run[id].rerun
      BY <2>1, <2>2, <2>3 DEF OwedRuns, QueuesCarry, QueueState, Entry, IsRunning
    <3>2. IsWaiting(queues, id) => Honours(queues.wait[id], owed[id])
      BY <2>2, <2>3 DEF QueuesCarry, QueueState, Entry, IsWaiting
    <3>3. \A s \in Slots : queues.sched[<<s, id>>] # None =>
            Honours(queues.sched[<<s, id>>], owed[id])
      BY <2>2, <2>3 DEF QueuesCarry, QueueState, Entry
    <3> QED BY <2>4, <3>1, <3>2, <3>3 DEF InQueues, IsScheduled, WillRun
  <2>5. CASE CallsOn(callers, id)
    <3>1. PICK r \in Callers : /\ callers[r].pc \in {"clear", "setcron", "update", "insert"}
                               /\ callers[r].id = id
      BY <2>5 DEF CallsOn
    <3>2. callers[r].meta \in TaskMeta
      BY <2>1, <3>1, CallerMeta
    <3>3. Carries(callers[r].meta, id, Inputs(rows))
      BY <2>2, <3>1, NoIdAssumption DEF CallsCarry, CallCarries
    <3> QED BY <2>3, <3>1, <3>2, <3>3 DEF WillRun
  <2>6. CASE Created(writes, wres, id)
    <3>1. writes \in Seq(WriteRecord) /\ writes # <<>> /\ Head(writes).id = id
      BY <2>1, <2>6 DEF TypeOK, Created
    <3>2. Head(writes) \in WriteRecord /\ WriteCarries(Head(writes), Inputs(rows))
      BY <2>2, <3>1, ReturnCarries, HeadType
    <3>3. Head(writes).meta \in TaskMeta /\ Carries(Head(writes).meta, id, Inputs(rows))
      BY <3>1, <3>2, NoIdAssumption DEF WriteCarries, WriteRecord
    <3> QED BY <2>3, <2>6, <3>3 DEF WillRun, Created
  <2>7. CASE ToLoad(id)
    <3>1. CASE loader.pc = "start" /\ Pending(rows, id) /\ Buildable(rows[id])
      BY <2>1, <2>2, <3>1 DEF OwedRuns, WillRun, Loads
    <3>2. CASE id \in loader.todo /\ Buildable(loader.snap[id])
      <4>1. loader.snap[id].param = owed[id]
        BY <2>1, <2>2, <3>2, CarriesOwed DEF SnapsCarry
      <4> QED BY <3>2, <4>1 DEF WillRun, Loads
    <3> QED BY <2>7, <3>1, <3>2 DEF ToLoad
  <2> QED BY <2>2, <2>4, <2>5, <2>6, <2>7 DEF Keeps
<1> QED BY <1>1, <1>2, <1>3, DepsHolds, PTL DEF Spec

-----------------------------------------------------------------------------
(* Recurring rows.  Where every request recurs, the process does not stop  *)
(* and nobody asks while the loader is still at work, every copy recurs;   *)
(* no statement that closes a row is ever issued.                          *)
AllRecur == \A rq \in Requests : rq.cron = "recurs"

Recurrences == Ids \X Params \X {"recurs"}
NoClosing(ws) == \A w \in UnderWay(ws) : w.op \notin Closing

RecurInv ==
    /\ Copies(Recurrences) /\ NoClosing(writes)
    /\ fin.pc \notin {"finish", "undep"} /\ loader.pc \in {"start", "done"}
    /\ counts.crashes = 0
    /\ \A id \in Ids : rows[id] # None => rows[id].status = "P"
    /\ loader.pc = "start" =>
         (\A id \in Ids : rows[id] = None) /\ \A r \in Callers : callers[r].pc = "idle"

(* No closing statement comes under way unless it is issued.               *)
LEMMA ClosingNever ==
    ASSUME TypeOK, NoClosing(writes),
           \/ writes' = writes
           \/ writes # <<>> /\ Return
           \/ \E w \in WriteRecord :
                /\ w.op \notin Closing
                /\ Issue(w) \/ (writes # <<>> /\ ReturnAndIssue(w))
    PROVE  NoClosing(writes')
<1>1. writes \in Seq(WriteRecord)
  BY DEF TypeOK
<1>2. writes # <<>> => Tail(writes) \in Seq(WriteRecord) /\ NoClosing(Tail(writes))
  BY <1>1, UnderWayShrinks DEF NoClosing
<1>3. \A ws \in Seq(WriteRecord), w \in WriteRecord :
        NoClosing(ws) /\ w.op \notin Closing => NoClosing(Append(ws, w))
  BY UnderWayGrows DEF NoClosing
<1> QED BY <1>1, <1>2, <1>3 DEF Issue, Return, ReturnAndIssue

(* Such a copy recurs.                                                     *)
LEMMA Recurrent ==
    ASSUME NEW m, NEW id, Carries(m, id, Recurrences)
    PROVE  m.cron = "recurs"
BY DEF Carries, Recurrences

(* Before the loader has read, there is nothing: no call, and so no row.   *)
LEMMA RecurQuiet ==
    ASSUME RecurInv, CopiesNext(Recurrences), NoClosing(writes'),
           fin'.pc \notin {"finish", "undep"},
           UNCHANGED <<rows, loader>>, counts'.crashes = counts.crashes,
           loader.pc = "start" => UNCHANGED callers
    PROVE  RecurInv'
<1>1. Copies(Recurrences)'
  BY DEF CopiesNext, Copies
<1> QED BY <1>1 DEF RecurInv

(* A run stores its failure with the time of the next attempt.             *)
LEMMA RecurBody ==
    ASSUME TypeOK, RecurInv, NEW b \in Bodies, BodyStep(b)
    PROVE  RecurInv'
<1>1. CopiesNext(Recurrences) /\ BodiesCarry(bodies, Recurrences)
  BY CopiesBody DEF RecurInv, Copies
<1>2. UNCHANGED <<rows, callers, fin, loader, counts>>
  BY DEF BodyStep, BodySucceeds, BodyFails, BodyErrorStored, BodyRetries, BodyResolves,
         BodyGivesUp
<1>3. NoClosing(writes')
  <2>1. ASSUME NEW perm \in BOOLEAN, BodyFails(b, perm) PROVE NoClosing(writes')
    <3> DEFINE w == Write(BodyTag(b), "postpone", b[1], None, bodies[b].meta)
    <3>1. bodies[b].meta.cron = "recurs" /\ bodies[b].meta \in TaskMeta /\ b[1] \in Ids
      BY <1>1, <2>1, Recurrent, BodyMeta, BodiesType DEF BodyFails, Body, BodiesCarry
    <3>2. Issue(w)
      BY <2>1, <3>1 DEF BodyFails, ErrorOp
    <3>3. w \in WriteRecord /\ w.op = "postpone"
      <4>1. BodyTag(b) \in Tags
           /\ "postpone" \in {"cron", "update", "finish", "undep", "postpone", "fail"}
        BY TagTypes
      <4> QED BY <3>1, <4>1, WriteType DEF Write
    <3> HIDE DEF w
    <3> QED BY <3>2, <3>3, ClosingNever DEF RecurInv, Closing
  <2>2. CASE BodyErrorStored(b)
    BY <2>2, ClosingNever DEF BodyErrorStored, Holds, RecurInv
  <2> QED BY <2>1, <2>2
          DEF BodyStep, BodySucceeds, BodyRetries, BodyResolves, BodyGivesUp, RecurInv
<1>4. fin'.pc \notin {"finish", "undep"} /\ counts'.crashes = counts.crashes
  BY <1>2 DEF RecurInv
<1> QED BY <1>1, <1>2, <1>3, <1>4, RecurQuiet

(* The finish handler stores the next occurrence and closes nothing.       *)
LEMMA RecurFin ==
    ASSUME TypeOK, RecurInv, FinStep
    PROVE  RecurInv'
<1>1. CopiesNext(Recurrences) /\ QueuesCarry(queues, Recurrences) /\ NoClosing(writes)
      /\ queues \in QueueState
  BY CopiesFin DEF RecurInv, Copies, TypeOK
<1>2. UNCHANGED <<rows, callers, loader, counts>>
  BY DEF FinStep, FinNotFound, FinReruns, FinStores, FinCronStored, FinResolves,
         FinRowStamped, FinFinished
<1>3. NoClosing(writes') /\ fin'.pc \notin {"finish", "undep"}
  <2>1. ASSUME NEW id \in Ids, FinNotFound(id) \/ FinReruns(id)
        PROVE  NoClosing(writes') /\ fin'.pc \notin {"finish", "undep"}
    BY <1>1, <2>1 DEF FinNotFound, FinReruns, Release, FinIdle, RecurInv
  <2>2. ASSUME NEW id \in Ids, FinStores(id)
        PROVE  NoClosing(writes') /\ fin'.pc \notin {"finish", "undep"}
    <3> DEFINE m == queues.run[id]
               upd == [m EXCEPT !.next = "later"]
               w == Write(FinisherTag, "update", id, None, upd)
    <3>1. m.cron = "recurs" /\ m \in TaskMeta
      BY <1>1, <2>2, Recurrent DEF FinStores, IsRunning, QueuesCarry, QueueState, Entry
    <3>2. Issue(w) /\ fin'.pc = "cron"
      BY <2>2, <3>1 DEF FinStores
    <3>3. upd \in TaskMeta
      BY <3>1, MetaType DEF Slots
    <3> HIDE DEF upd
    <3>4. w \in WriteRecord /\ w.op = "update"
      <4>1. FinisherTag \in Tags
           /\ "update" \in {"cron", "update", "finish", "undep", "postpone", "fail"}
        BY TagTypes
      <4> QED BY <3>3, <4>1, WriteType DEF Write
    <3> HIDE DEF w
    <3> QED BY <1>1, <3>2, <3>4, ClosingNever DEF Closing
  <2>3. CASE FinCronStored
    <3>1. NoClosing(writes')
      BY <1>1, <2>3, ClosingNever DEF FinCronStored, Holds
    <3>2. fin'.pc \in {"resolve", "idle"}
      BY <2>3 DEF FinCronStored, Release, FinIdle, TypeOK, FinState
    <3> QED BY <3>1, <3>2
  <2>4. CASE FinRowStamped
    BY <2>4 DEF FinRowStamped, RecurInv
  <2>5. CASE FinFinished
    BY <2>5 DEF FinFinished, RecurInv
  <2>6. CASE FinResolves
    BY <1>1, <2>6 DEF FinResolves, Release, FinIdle
  <2> QED BY <2>1, <2>2, <2>3, <2>4, <2>5, <2>6 DEF FinStep
<1> QED BY <1>1, <1>2, <1>3, RecurQuiet

(* A call stores the cron expression or the update of a request.           *)
LEMMA RecurCaller ==
    ASSUME TypeOK, DepsInv, RecurInv, NEW r \in Callers, CallerStep(r)
    PROVE  RecurInv'
<1>1. CopiesNext(Recurrences) /\ NoClosing(writes)
  BY CopiesCaller DEF RecurInv
<1>2. /\ UNCHANGED <<rows, fin, loader, counts>> /\ callers[r].pc # "idle"
  BY CallerBusy
     DEF CallerStep, CallerCreates, CallerFindsRunning, CallerFindsIdle, CallerClears,
         CallerFails, CallerRefreshed, CallerStoresCron, CallerQueues, CallerInserts,
         CallerResolves
<1>3. loader.pc # "start"
  BY <1>2 DEF RecurInv
<1>6. NoClosing(writes')
  BY <1>1, CallerWrites, ClosingNever
<1>7. fin'.pc \notin {"finish", "undep"} /\ counts'.crashes = counts.crashes
  BY <1>2 DEF RecurInv
<1> QED BY <1>1, <1>2, <1>3, <1>6, <1>7, RecurQuiet

(* No effect closes a row or takes its recurrence.                         *)
LEMMA RecurStore ==
    ASSUME TypeOK, DepsInv, RecurInv, StoreStep, AllRecur
    PROVE  RecurInv'
<1>1. CASE WriteFails \/ \E p \in probes : ProbeAnswered(p)
  <2>1. UNCHANGED <<queues, rows, bodies, callers, fin, loader, writes>>
        /\ counts'.crashes = counts.crashes
    BY <1>1 DEF WriteFails, ProbeAnswered, TypeOK, CountState
  <2>2. CopiesNext(Recurrences) /\ NoClosing(writes') /\ fin'.pc \notin {"finish", "undep"}
    BY <2>1 DEF RecurInv, Copies, CopiesNext
  <2> QED BY <2>1, <2>2, RecurQuiet
<1>2. CASE WriteEffect
  <2>1. PICK w \in WriteRecord :
          /\ w.id \in Ids /\ rows' = Effect(w) /\ writes' = [writes EXCEPT ![1] = w]
          /\ w.op = Head(writes).op /\ w.who = Head(writes).who
          /\ w.meta = Head(writes).meta /\ w.key = Head(writes).key
          /\ IF w.op = "create"
               THEN rows[w.id] = None /\ owed' = [owed EXCEPT ![w.id] = w.meta.param]
               ELSE w = Head(writes) /\ owed' = owed
    BY <1>2, EffectOwes
  <2>2. /\ UNCHANGED <<queues, bodies, callers, fin, loader, counts>>
        /\ writes \in Seq(WriteRecord) /\ writes # <<>> /\ rows \in Table
        /\ OneEach(writes)
    BY <1>2 DEF WriteEffect, TypeOK, DepsInv, WritesFit
  <2>3. w.op \notin Closing
    BY <2>1, <2>2, UnderWayShrinks DEF RecurInv, NoClosing
  <2>4. NoClosing(writes')
    BY <2>1, <2>2, <2>3, UnderWayChange DEF RecurInv, NoClosing
  <2>5. w.op = "create" => Carries(w.meta, w.id, Recurrences)
    <3>1. w.op = "create" => <<w.key, w.meta.param, w.meta.cron>> \in Asks
      BY <2>1, <2>2, ReturnCarries DEF RecurInv, Copies, WriteCarries
    <3>2. w.meta \in TaskMeta
      BY DEF WriteRecord
    <3> QED BY <2>1, <3>1, <3>2 DEF Asks, AllRecur, Carries, Recurrences, TaskMeta
  <2>6. CopiesNext(Recurrences)
    <3>1. Copies(Recurrences) /\ Recurrences \subseteq Recurrences
      BY DEF RecurInv
    <3> QED BY <1>2, <2>1, <2>5, <3>1, CopiesEffect
  <2>7. \A id \in Ids : rows'[id] # None => rows'[id].status = "P"
    <3>1. CASE w.op = "create"
      <4>1. rows' = [rows EXCEPT ![w.id] =
               [status |-> "P", kind |-> KindOf[w.meta.param], key |-> w.key,
                param |-> w.meta.param, deps |-> w.meta.deps, retry |-> 0, count |-> 0,
                cron |-> "none", next |-> "now"]]
        BY <2>1, <3>1 DEF Effect, CreateTask
      <4> QED BY <2>2, <4>1 DEF RecurInv, Table
    <3>2. CASE w.op # "create"
      <4>1. \A id \in Ids : /\ rows[id] # None => Becomes(rows[id], rows'[id], w, id)
                            /\ rows[id] = None => rows'[id] = None
        BY <2>1, <2>2, <3>2, EffectRow
      <4> QED BY <2>3, <4>1 DEF RecurInv, Becomes, Closing, Settling
    <3> QED BY <3>1, <3>2
  <2>8. loader.pc = "start" => \A id \in Ids : rows'[id] = None
    <3>1. SUFFICES ASSUME loader.pc = "start" PROVE \A id \in Ids : rows'[id] = None
      OBVIOUS
    <3>2. Owned(Head(writes), callers, bodies, fin)
      BY <2>2, HeadOwned
    <3>3. \A r \in Callers : callers[r].pc = "idle"
      BY <3>1 DEF RecurInv
    <3>4. w.op # "create"
      BY <2>1, <3>2, <3>3 DEF Owned, CallerOwns, BodyOwns, FinOwns
    <3> QED BY <2>1, <2>2, <3>1, <3>4, EffectRow DEF RecurInv
  <2>9. Copies(Recurrences)'
    BY <2>6 DEF CopiesNext, Copies
  <2> QED BY <2>2, <2>4, <2>7, <2>8, <2>9 DEF RecurInv
<1> QED BY <1>1, <1>2 DEF StoreStep

(* Every step keeps the invariant.                                         *)
LEMMA RecurNext ==
    ASSUME AllRecur, MaxCrashes = 0, ~EarlyRequests, TypeOK, DepsInv, RecurInv, [Next]_vars
    PROVE  RecurInv'
<1>1. CASE UNCHANGED vars
  <2>1. Copies(Recurrences)'
    BY <1>1 DEF vars, RecurInv, Copies
  <2> QED BY <1>1, <2>1 DEF vars, RecurInv
<1>2. ASSUME NEW s \in Slots, NEW id \in Ids, Dispatch(s, id) PROVE RecurInv'
  <2>1. CopiesNext(Recurrences)
    BY <1>2, CopiesDispatch DEF RecurInv
  <2> QED BY <1>2, <2>1, RecurQuiet DEF Dispatch, RecurInv
<1>3. ASSUME NEW r \in Callers, NEW rq \in Requests, CallerAsks(r, rq) PROVE RecurInv'
  <2>1. /\ UNCHANGED <<rows, fin, loader, writes>> /\ loader.pc = "done"
        /\ counts' = [counts EXCEPT !.requests = @ + 1]
    BY <1>3 DEF CallerAsks
  <2>2. counts'.crashes = counts.crashes
    BY <2>1 DEF TypeOK, CountState
  <2>3. \A id \in FindByKey(rows, rq.key) : <<id, rq.param, rq.cron>> \in Recurrences
    BY RequestsAssumption DEF FindByKey, Recurrences, AllRecur, Request
  <2>4. CopiesNext(Recurrences)
    BY <1>3, <2>3, CopiesAsks DEF RecurInv
  <2> QED BY <2>1, <2>2, <2>4, RecurQuiet DEF RecurInv
<1>4. CASE LoaderStep
  <2>1. UNCHANGED <<queues, rows, bodies, callers, fin, writes, counts>> /\ loader'.pc = "done"
    <3>1. LoaderReads
      BY <1>4 DEF LoaderStep, LoaderSkips, LoaderQueues, LoaderResolves, RecurInv
    <3>2. {id \in Ids : Pending(rows, id)} = {}
      BY <3>1 DEF LoaderReads, RecurInv, Pending
    <3> QED BY <3>1, <3>2 DEF LoaderReads, Unloaded
  <2>2. Copies(Recurrences)'
    BY <2>1 DEF RecurInv, Copies
  <2> QED BY <2>1, <2>2 DEF RecurInv
<1>5. ~Crash
  BY DEF Crash, RecurInv
<1> QED BY <1>1, <1>2, <1>3, <1>4, <1>5, RecurBody, RecurFin, RecurCaller, RecurStore DEF Next

(* CronRowPending, for requests that all recur, made after the load and    *)
(* within one life of the process.  A restart between the two statements   *)
(* that create a recurring row, or a load between them, finds a one-shot;  *)
(* it ends as one, and a request that found it before that can still mark  *)
(* the ended row as recurring.  Requests that do not recur are another     *)
(* such way.  What is left is failed runs, retries, writes that fail, and  *)
(* requests at any moment, also from the main thread.                      *)
THEOREM CronRowPendingCorrect ==
    ASSUME AllRecur, MaxCrashes = 0, ~EarlyRequests
    PROVE  Spec => []CronRowPending
<1>1. Init => RecurInv
  <2>1. SUFFICES ASSUME Init PROVE RecurInv
    OBVIOUS
  <2>2. Copies(Recurrences)
    BY <2>1, CopiesFirst
  <2>3. /\ rows = [id \in Ids |-> None] /\ writes = <<>> /\ fin = FinIdle
        /\ loader = Unloaded /\ callers = [r \in Callers |-> Idle]
        /\ counts = [requests |-> 0, crashes |-> 0, faults |-> 0, lost |-> {}]
    BY <2>1 DEF Init
  <2>4. NoClosing(writes)
    BY <2>3 DEF NoClosing, UnderWay
  <2> QED BY <2>2, <2>3, <2>4 DEF RecurInv, FinIdle, Unloaded, Idle
<1>2. (TypeOK /\ DepsInv) /\ RecurInv /\ [Next]_vars => RecurInv'
  BY RecurNext
<1>3. RecurInv => CronRowPending
  BY DEF RecurInv, CronRowPending
<1> QED BY <1>1, <1>2, <1>3, DepsHolds, PTL DEF Spec

=============================================================================
