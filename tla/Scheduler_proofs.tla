-------------------------- MODULE Scheduler_proofs --------------------------
(***************************************************************************)
(* Type correctness of the scheduler, for any ids, callers, requests and   *)
(* bounds.  First what the operations on the queues and on the tables      *)
(* return, for any queues and any tables: the types of the queues, what    *)
(* their operations do to the exclusiveness of the queues, the tables.     *)
(* Then what the building blocks of the actions write, and at last one     *)
(* step per action.                                                        *)
(***************************************************************************)
EXTENDS SchedulerProperties, TLAPS

(* Overwriting the fields the scheduler overwrites leaves metadata.        *)
LEMMA MetaType ==
    ASSUME NEW m \in TaskMeta, NEW rerun \in BOOLEAN, NEW next \in Slots,
           NEW count \in Nat, NEW deps \in SUBSET Ids
    PROVE  /\ [m EXCEPT !.rerun = rerun] \in TaskMeta
           /\ [m EXCEPT !.next = next] \in TaskMeta
           /\ [m EXCEPT !.deps = deps] \in TaskMeta
           /\ [m EXCEPT !.next = next, !.count = count, !.rerun = rerun] \in TaskMeta
           /\ [m EXCEPT !.count = count, !.next = next, !.rerun = rerun] \in TaskMeta
           /\ m.deps \in SUBSET Ids /\ m.count \in Nat /\ m.rerun \in BOOLEAN
           /\ m.next \in Slots
BY DEF TaskMeta

LEMMA ForgetDepType ==
    ASSUME NEW m \in TaskMeta, NEW d
    PROVE  ForgetDep(m, d) \in TaskMeta
BY DEF ForgetDep, TaskMeta

LEMMA EntryType ==
    ASSUME NEW e \in Entry, e # None
    PROVE  e \in TaskMeta
BY DEF Entry

LEMMA EmptyType == EmptyQueues \in QueueState
BY DEF EmptyQueues, QueueState, Entry

LEMMA RefreshType ==
    ASSUME NEW qs \in QueueState, NEW id \in Ids, NEW m \in TaskMeta,
           NEW rerun \in BOOLEAN
    PROVE  RefreshRunning(qs, id, m, rerun) \in QueueState
<1> [m EXCEPT !.rerun = rerun] \in Entry
  BY DEF TaskMeta, Entry
<1> QED BY DEF RefreshRunning, QueueState

LEMMA TakeRunningType ==
    ASSUME NEW qs \in QueueState, NEW id \in Ids
    PROVE  TakeRunning(qs, id) \in QueueState
BY DEF TakeRunning, QueueState, Entry

LEMMA UnqueueType ==
    ASSUME NEW qs \in QueueState, NEW id \in Ids
    PROVE  Unqueue(qs, id) \in QueueState
BY DEF Unqueue, QueueState, Entry, FirstSlot, Slots

LEMMA InsertType ==
    ASSUME NEW qs \in QueueState, NEW id \in Ids, NEW m \in TaskMeta
    PROVE  Insert(qs, id, m) \in QueueState
<1>1. m.next \in Slots /\ m.deps \in SUBSET Ids
  BY DEF TaskMeta
<1>2. Schedule(qs, id, m) \in QueueState
  BY <1>1 DEF Schedule, QueueState, Entry
<1>3. Await(qs, id, m) \in QueueState
  BY <1>1 DEF Await, QueueState, Entry
<1> QED BY <1>2, <1>3 DEF Insert

LEMMA InsertAfreshType ==
    ASSUME NEW qs \in QueueState, NEW id \in Ids, NEW m \in TaskMeta
    PROVE  InsertAfresh(qs, id, m) \in QueueState
BY UnqueueType, InsertType DEF InsertAfresh

LEMMA AddQueueType ==
    ASSUME NEW qs \in QueueState, NEW id \in Ids, NEW m \in TaskMeta
    PROVE  AddQueue(qs, id, m) \in QueueState
<1>1. CASE IsRunning(qs, id)
  <2>1. qs.run[id] \in TaskMeta
    BY <1>1 DEF IsRunning, QueueState, Entry
  <2>2. qs.run[id].rerun \in BOOLEAN
    BY <2>1 DEF TaskMeta
  <2> QED BY <1>1, <2>2, RefreshType DEF AddQueue
<1>2. CASE ~IsRunning(qs, id)
  BY <1>2, InsertAfreshType DEF AddQueue
<1> QED BY <1>1, <1>2

LEMMA ResolveDepsType ==
    ASSUME NEW qs \in QueueState, NEW id \in Ids, NEW deps, NEW completed
    PROVE  ResolveDeps(qs, id, deps, completed) \in QueueState
<1> DEFINE left == qs.wait[id].deps \ completed
<1>1. CASE completed = {} \/ ~IsWaiting(qs, id)
  BY <1>1 DEF ResolveDeps
<1>2. CASE ~(completed = {} \/ ~IsWaiting(qs, id))
  <2>1. qs.wait[id] \in TaskMeta
    BY <1>2 DEF IsWaiting, QueueState, Entry
  <2>2. [qs.wait[id] EXCEPT !.deps = left] \in Entry /\ [qs.wait[id] EXCEPT !.deps = {}] \in Entry
    BY <2>1 DEF TaskMeta, Entry
  <2>3. [qs EXCEPT !.wait[id].deps = left] \in QueueState
    BY <2>2 DEF QueueState
  <2>4. [qs EXCEPT !.wait[id] = None,
                   !.dep = @ \ (deps \X {id}),
                   !.sched[<<"now", id>>] = [qs.wait[id] EXCEPT !.deps = {}]]
          \in QueueState
    BY <2>2 DEF QueueState, Entry, Slots
  <2> QED BY <1>2, <2>3, <2>4 DEF ResolveDeps
<1> QED BY <1>1, <1>2

LEMMA RemoveType ==
    ASSUME NEW qs \in QueueState, NEW id \in Ids
    PROVE  RemoveFromQueues(qs, id) \in QueueState
<1>1. [qs EXCEPT !.wait[id] = None] \in QueueState
  BY DEF QueueState, Entry
<1>2. [qs EXCEPT !.sched[<<FirstSlot(qs, id), id>>] = None] \in QueueState
  BY DEF QueueState, Entry, FirstSlot, Slots
<1> QED BY <1>1, <1>2, TakeRunningType DEF RemoveFromQueues

LEMMA ReleaseType ==
    ASSUME NEW qs \in QueueState, NEW d
    PROVE  ReleaseDependents(qs, d) \in QueueState
<1> DEFINE q == ReleaseDependents(qs, d)
<1>1. \A w \in Ids : IsWaiting(qs, w) => ForgetDep(qs.wait[w], d) \in Entry
  BY ForgetDepType, EntryType DEF IsWaiting, QueueState, Entry
<1>2. \A k \in Slots \X Ids : qs.sched[k] # None => ForgetDep(qs.sched[k], d) \in Entry
  BY ForgetDepType, EntryType DEF QueueState, Entry
<1>3. None \in Entry
  BY DEF Entry
<1>4. \A w \in Ready(qs, d) : IsWaiting(qs, w)
  BY DEF Ready
<1>5. q.run \in [Ids -> Entry]
  BY <1>1, <1>4 DEF ReleaseDependents, QueueState
<1>6. q.wait \in [Ids -> Entry]
  BY <1>1, <1>3 DEF ReleaseDependents, QueueState
<1>7. q.sched \in [Slots \X Ids -> Entry]
  BY <1>2 DEF ReleaseDependents, QueueState
<1>8. q.dep \subseteq Ids \X Ids
  BY DEF ReleaseDependents, QueueState
<1>9. q = [[[[qs EXCEPT !.dep = q.dep] EXCEPT !.run = q.run]
              EXCEPT !.wait = q.wait] EXCEPT !.sched = q.sched]
  BY DEF ReleaseDependents, QueueState
<1>10. ASSUME NEW r \in [Ids -> Entry], NEW w \in [Ids -> Entry],
              NEW s \in [Slots \X Ids -> Entry], NEW p \in SUBSET (Ids \X Ids)
       PROVE  [[[[qs EXCEPT !.dep = p] EXCEPT !.run = r]
                 EXCEPT !.wait = w] EXCEPT !.sched = s] \in QueueState
  BY DEF QueueState
<1> HIDE DEF q
<1>11. [[[[qs EXCEPT !.dep = q.dep] EXCEPT !.run = q.run]
            EXCEPT !.wait = q.wait] EXCEPT !.sched = q.sched] \in QueueState
  BY <1>5, <1>6, <1>7, <1>8, <1>10
<1>12. q \in QueueState
  BY <1>9, <1>11, Zenon
<1> QED BY <1>12 DEF q

LEMMA StartType ==
    ASSUME NEW qs \in QueueState, NEW s \in Slots, NEW id \in Ids
    PROVE  StartScheduled(qs, s, id) \in QueueState
BY DEF StartScheduled, QueueState, Entry

LEMMA ClearType ==
    ASSUME NEW qs \in QueueState, NEW id \in Ids
    PROVE  ClearRerunRequest(qs, id) \in QueueState
<1>1. CASE IsRunning(qs, id)
  <2>1. qs.run[id] \in TaskMeta
    BY <1>1 DEF IsRunning, QueueState, Entry
  <2>2. [qs.run[id] EXCEPT !.rerun = FALSE] \in Entry
    BY <2>1 DEF TaskMeta, Entry
  <2> QED BY <1>1, <2>2 DEF ClearRerunRequest, QueueState
<1> QED BY <1>1 DEF ClearRerunRequest

-----------------------------------------------------------------------------
(* Exclusiveness: each operation keeps every task in one queue at most, and *)
(* says which tasks are running afterwards.                                *)

AllExclusive(qs) == \A o \in Ids : Exclusive(qs, o)
RunningIds(qs) == {o \in Ids : IsRunning(qs, o)}

LEMMA SameExclusive ==
    ASSUME NEW q, NEW qs, NEW o \in Ids, AllExclusive(qs),
           IsRunning(q, o) <=> IsRunning(qs, o),
           q.wait[o] = qs.wait[o],
           \A s \in Slots : q.sched[<<s, o>>] = qs.sched[<<s, o>>]
    PROVE  Exclusive(q, o)
<1>1. Exclusive(qs, o)
  BY DEF AllExclusive
<1>2. IsWaiting(q, o) <=> IsWaiting(qs, o)
  BY DEF IsWaiting
<1>3. IsScheduled(q, o) <=> IsScheduled(qs, o)
  BY DEF IsScheduled
<1> QED BY <1>1, <1>2, <1>3 DEF Exclusive

LEMMA EmptyExclusive == AllExclusive(EmptyQueues) /\ RunningIds(EmptyQueues) = {}
BY DEF AllExclusive, RunningIds, Exclusive, EmptyQueues, IsRunning, IsWaiting,
       IsScheduled, Slots

LEMMA RefreshExclusive ==
    ASSUME NEW qs \in QueueState, AllExclusive(qs), NEW id \in Ids,
           NEW m \in TaskMeta, NEW rerun \in BOOLEAN, IsRunning(qs, id)
    PROVE  /\ AllExclusive(RefreshRunning(qs, id, m, rerun))
           /\ RunningIds(RefreshRunning(qs, id, m, rerun)) = RunningIds(qs)
<1> DEFINE q == RefreshRunning(qs, id, m, rerun)
<1>1. [m EXCEPT !.rerun = rerun] # None
  <2>1. [m EXCEPT !.rerun = rerun] \in TaskMeta
    BY DEF TaskMeta
  <2> QED BY <2>1, NoneAssumption
<1>2. q.wait = qs.wait /\ q.sched = qs.sched
  BY DEF RefreshRunning, QueueState
<1>3. \A o \in Ids : IsRunning(q, o) <=> IsRunning(qs, o)
  BY <1>1 DEF RefreshRunning, QueueState, IsRunning
<1> HIDE DEF q
<1>4. AllExclusive(q)
  BY <1>2, <1>3 DEF AllExclusive, Exclusive, IsWaiting, IsScheduled
<1> QED BY <1>3, <1>4 DEF q, RunningIds

LEMMA TakeRunningExclusive ==
    ASSUME NEW qs \in QueueState, AllExclusive(qs), NEW id \in Ids
    PROVE  /\ AllExclusive(TakeRunning(qs, id))
           /\ RunningIds(TakeRunning(qs, id)) = RunningIds(qs) \ {id}
<1> DEFINE q == TakeRunning(qs, id)
<1>1. q.wait = qs.wait /\ q.sched = qs.sched
  BY DEF TakeRunning, QueueState
<1>2. \A o \in Ids : IsRunning(q, o) <=> IsRunning(qs, o) /\ o # id
  BY DEF TakeRunning, QueueState, IsRunning
<1> HIDE DEF q
<1>3. AllExclusive(q)
  BY <1>1, <1>2 DEF AllExclusive, Exclusive, IsWaiting, IsScheduled
<1> QED BY <1>2, <1>3 DEF q, RunningIds

(* After the removals nothing of the id is left in the two queues.         *)
LEMMA UnqueueClears ==
    ASSUME NEW qs \in QueueState, AllExclusive(qs), NEW id \in Ids
    PROVE  LET q == Unqueue(qs, id)
           IN  /\ ~IsWaiting(q, id) /\ ~IsScheduled(q, id)
               /\ AllExclusive(q)
               /\ RunningIds(q) = RunningIds(qs)
<1> DEFINE q == Unqueue(qs, id)
<1>1. /\ q.run = qs.run
      /\ q.wait = [qs.wait EXCEPT ![id] = None]
      /\ q.sched = [qs.sched EXCEPT ![<<FirstSlot(qs, id), id>>] = None]
  BY DEF Unqueue, QueueState
<1>2. \E s \in Slots : qs.sched[<<s, id>>] = None
  BY DEF AllExclusive, Exclusive
<1>3. /\ qs.wait \in [Ids -> Entry] /\ qs.sched \in [Slots \X Ids -> Entry]
      /\ FirstSlot(qs, id) \in Slots
  BY DEF QueueState, FirstSlot, Slots
<1> HIDE DEF q
<1>4. ~IsScheduled(q, id)
  BY <1>1, <1>2, <1>3 DEF IsScheduled, FirstSlot, Slots
<1>5. ~IsWaiting(q, id)
  BY <1>1, <1>3 DEF IsWaiting
<1>6. \A o \in Ids : IsRunning(q, o) <=> IsRunning(qs, o)
  BY <1>1 DEF IsRunning
<1>7. \A o \in Ids \ {id} : q.wait[o] = qs.wait[o]
        /\ \A s \in Slots : q.sched[<<s, o>>] = qs.sched[<<s, o>>]
  BY <1>1, <1>3
<1>8. AllExclusive(q)
  <2>1. SUFFICES ASSUME NEW o \in Ids PROVE Exclusive(q, o)
    BY DEF AllExclusive
  <2>2. CASE o = id
    BY <1>4, <1>5, <2>2 DEF Exclusive, IsScheduled, Slots
  <2>3. CASE o # id
    BY <1>6, <1>7, <2>3, SameExclusive
  <2> QED BY <2>2, <2>3
<1> QED BY <1>4, <1>5, <1>6, <1>8 DEF q, RunningIds

LEMMA InsertExclusive ==
    ASSUME NEW qs \in QueueState, AllExclusive(qs), NEW id \in Ids,
           NEW m \in TaskMeta,
           ~IsRunning(qs, id), ~IsWaiting(qs, id), ~IsScheduled(qs, id)
    PROVE  /\ AllExclusive(Insert(qs, id, m))
           /\ RunningIds(Insert(qs, id, m)) = RunningIds(qs)
<1> DEFINE q == Insert(qs, id, m)
<1>1. q.run = qs.run
  BY DEF Insert, Schedule, Await, QueueState
<1>2. m.next \in Slots
  BY DEF TaskMeta
<1>3. \/ /\ q.wait = qs.wait
         /\ q.sched = [qs.sched EXCEPT ![<<m.next, id>>] = m]
      \/ /\ q.wait = [qs.wait EXCEPT ![id] = m]
         /\ q.sched = qs.sched
  BY DEF Insert, Schedule, Await, QueueState
<1>4. qs.wait \in [Ids -> Entry] /\ qs.sched \in [Slots \X Ids -> Entry]
  BY DEF QueueState
<1> HIDE DEF q
<1>5. \A o \in Ids : IsRunning(q, o) <=> IsRunning(qs, o)
  BY <1>1 DEF IsRunning
<1>6. \A o \in Ids \ {id} : q.wait[o] = qs.wait[o]
        /\ \A s \in Slots : q.sched[<<s, o>>] = qs.sched[<<s, o>>]
  BY <1>3, <1>4
<1>7. AllExclusive(q)
  <2>1. SUFFICES ASSUME NEW o \in Ids PROVE Exclusive(q, o)
    BY DEF AllExclusive
  <2>2. CASE o = id
    BY <1>2, <1>3, <1>4, <1>5, <2>2
       DEF Exclusive, IsWaiting, IsScheduled, Slots
  <2>3. CASE o # id
    BY <1>5, <1>6, <2>3, SameExclusive
  <2> QED BY <2>2, <2>3
<1> QED BY <1>5, <1>7 DEF q, RunningIds

LEMMA AddQueueExclusive ==
    ASSUME NEW qs \in QueueState, AllExclusive(qs), NEW id \in Ids,
           NEW m \in TaskMeta
    PROVE  /\ AllExclusive(AddQueue(qs, id, m))
           /\ RunningIds(AddQueue(qs, id, m)) = RunningIds(qs)
<1>1. CASE IsRunning(qs, id)
  <2>1. qs.run[id].rerun \in BOOLEAN
    BY <1>1 DEF IsRunning, QueueState, Entry, TaskMeta
  <2> QED BY <1>1, <2>1, RefreshExclusive DEF AddQueue
<1>2. CASE ~IsRunning(qs, id)
  <2> DEFINE u == Unqueue(qs, id)
  <2>1. /\ ~IsWaiting(u, id) /\ ~IsScheduled(u, id) /\ ~IsRunning(u, id)
        /\ AllExclusive(u) /\ u \in QueueState
        /\ RunningIds(u) = RunningIds(qs)
    BY <1>2, UnqueueClears, UnqueueType DEF RunningIds
  <2>2. AddQueue(qs, id, m) = Insert(u, id, m)
    BY <1>2 DEF AddQueue, InsertAfresh
  <2> HIDE DEF u
  <2> QED BY <2>1, <2>2, InsertExclusive
<1> QED BY <1>1, <1>2

LEMMA ResolveExclusive ==
    ASSUME NEW qs \in QueueState, AllExclusive(qs), NEW id \in Ids,
           NEW deps \in SUBSET Ids, NEW completed \in SUBSET Ids
    PROVE  /\ AllExclusive(ResolveDeps(qs, id, deps, completed))
           /\ RunningIds(ResolveDeps(qs, id, deps, completed)) = RunningIds(qs)
<1> DEFINE q == ResolveDeps(qs, id, deps, completed)
<1>1. CASE completed = {} \/ ~IsWaiting(qs, id)
  BY <1>1 DEF ResolveDeps
<1>2. CASE ~(completed = {} \/ ~IsWaiting(qs, id))
  <2>1. /\ qs.wait \in [Ids -> Entry] /\ qs.sched \in [Slots \X Ids -> Entry]
        /\ "now" \in Slots
    BY DEF QueueState, Slots
  <2>2. ~IsRunning(qs, id) /\ ~IsScheduled(qs, id)
    BY <1>2 DEF AllExclusive, Exclusive
  <2>3. q.run = qs.run
    BY <1>2 DEF ResolveDeps, QueueState
  <2>4. \/ /\ q.sched = qs.sched
           /\ q.wait = [qs.wait EXCEPT ![id].deps = @ \ completed]
        \/ /\ q.wait = [qs.wait EXCEPT ![id] = None]
           /\ q.sched = [qs.sched EXCEPT
                           ![<<"now", id>>] = [qs.wait[id] EXCEPT !.deps = {}]]
    BY <1>2 DEF ResolveDeps, QueueState
  <2> HIDE DEF q
  <2>5. \A o \in Ids \ {id} : q.wait[o] = qs.wait[o]
          /\ \A s \in Slots : q.sched[<<s, o>>] = qs.sched[<<s, o>>]
    BY <2>1, <2>4
  <2>6. \A o \in Ids : IsRunning(q, o) <=> IsRunning(qs, o)
    BY <2>3 DEF IsRunning
  <2>7. Exclusive(q, id)
    <3>1. CASE q.sched = qs.sched
      BY <2>2, <2>6, <3>1 DEF AllExclusive, Exclusive, IsScheduled
    <3>2. CASE q.wait = [qs.wait EXCEPT ![id] = None] /\ q.sched # qs.sched
      <4>1. ~IsWaiting(q, id) /\ ~IsRunning(q, id)
        BY <2>1, <2>2, <2>6, <3>2 DEF IsWaiting
      <4>2. q.sched[<<"later", id>>] = None
        BY <2>1, <2>2, <2>4, <3>2 DEF IsScheduled, Slots
      <4> QED BY <4>1, <4>2 DEF Exclusive, Slots
    <3> QED BY <2>4, <3>1, <3>2
  <2>8. AllExclusive(q)
    <3>1. SUFFICES ASSUME NEW o \in Ids, o # id PROVE Exclusive(q, o)
      BY <2>7 DEF AllExclusive
    <3>2. /\ IsRunning(q, o) <=> IsRunning(qs, o)
          /\ IsWaiting(q, o) <=> IsWaiting(qs, o)
          /\ IsScheduled(q, o) <=> IsScheduled(qs, o)
          /\ \A s \in Slots : q.sched[<<s, o>>] = qs.sched[<<s, o>>]
      BY <2>5, <2>6, <3>1 DEF IsWaiting, IsScheduled
    <3> QED BY <3>2 DEF AllExclusive, Exclusive
  <2> QED BY <2>6, <2>8 DEF q, RunningIds
<1> QED BY <1>1, <1>2

(* schedule_task_impl removes entries of tasks that are not running only.  *)
LEMMA RemoveExclusive ==
    ASSUME NEW qs \in QueueState, AllExclusive(qs), NEW id \in Ids,
           ~IsRunning(qs, id)
    PROVE  /\ AllExclusive(RemoveFromQueues(qs, id))
           /\ RunningIds(RemoveFromQueues(qs, id)) = RunningIds(qs)
<1> DEFINE q == RemoveFromQueues(qs, id)
<1>1. CASE ~IsWaiting(qs, id) /\ ~IsScheduled(qs, id)
  <2>1. q = TakeRunning(qs, id)
    BY <1>1 DEF RemoveFromQueues
  <2> QED BY <2>1, TakeRunningExclusive DEF RunningIds
<1>2. CASE IsWaiting(qs, id) \/ IsScheduled(qs, id)
  <2>1. /\ qs.wait \in [Ids -> Entry] /\ qs.sched \in [Slots \X Ids -> Entry]
        /\ FirstSlot(qs, id) \in Slots
    BY DEF QueueState, FirstSlot, Slots
  <2>2. /\ q.run = qs.run
        /\ \/ q.wait = [qs.wait EXCEPT ![id] = None] /\ q.sched = qs.sched
           \/ /\ q.wait = qs.wait
              /\ q.sched = [qs.sched EXCEPT ![<<FirstSlot(qs, id), id>>] = None]
    BY <1>2 DEF RemoveFromQueues, QueueState
  <2> HIDE DEF q
  <2>3. \A o \in Ids : /\ q.run[o] = qs.run[o]
                        /\ q.wait[o] \in {None, qs.wait[o]}
                        /\ \A s \in Slots :
                             q.sched[<<s, o>>] \in {None, qs.sched[<<s, o>>]}
    BY <2>1, <2>2
  <2>4. ASSUME NEW o \in Ids PROVE Exclusive(q, o)
    <3>1. /\ IsRunning(q, o) <=> IsRunning(qs, o)
          /\ IsWaiting(q, o) => IsWaiting(qs, o)
          /\ IsScheduled(q, o) => IsScheduled(qs, o)
          /\ \A s \in Slots : qs.sched[<<s, o>>] = None => q.sched[<<s, o>>] = None
      BY <2>3 DEF IsRunning, IsWaiting, IsScheduled
    <3> QED BY <3>1 DEF AllExclusive, Exclusive
  <2> QED BY <2>3, <2>4 DEF q, RunningIds, IsRunning, AllExclusive
<1> QED BY <1>1, <1>2

(* The released tasks were waiting: none of them was running.              *)
LEMMA ReleaseExclusive ==
    ASSUME NEW qs \in QueueState, AllExclusive(qs), NEW d \in Ids
    PROVE  /\ AllExclusive(ReleaseDependents(qs, d))
           /\ RunningIds(ReleaseDependents(qs, d)) = RunningIds(qs) \cup Ready(qs, d)
           /\ Ready(qs, d) \subseteq Ids \ RunningIds(qs)
<1> DEFINE q == ReleaseDependents(qs, d)
<1>1. \A e \in Entry : e # None => ForgetDep(e, d) # None
  BY ForgetDepType, EntryType, NoneAssumption
<1>2. Ready(qs, d) \subseteq Ids /\ \A w \in Ready(qs, d) : IsWaiting(qs, w)
  BY DEF Ready, Dependents
<1>3. \A o \in Ids :
        /\ q.run[o] = IF o \in Ready(qs, d) THEN ForgetDep(qs.wait[o], d)
                                             ELSE qs.run[o]
        /\ q.wait[o] = IF o \in Ready(qs, d) THEN None
                       ELSE IF o \in Dependents(qs, d) /\ IsWaiting(qs, o)
                         THEN ForgetDep(qs.wait[o], d) ELSE qs.wait[o]
        /\ \A s \in Slots :
             q.sched[<<s, o>>] \in {qs.sched[<<s, o>>],
                                   ForgetDep(qs.sched[<<s, o>>], d)}
  BY DEF ReleaseDependents, QueueState
<1>4. \A o \in Ids, s \in Slots :
        qs.sched[<<s, o>>] = None => q.sched[<<s, o>>] = None
  BY DEF ReleaseDependents, QueueState
<1>5. \A o \in Ids : qs.wait[o] \in Entry
  BY DEF QueueState
<1> HIDE DEF q
<1>6. \A o \in Ids : IsRunning(q, o) <=> IsRunning(qs, o) \/ o \in Ready(qs, d)
  BY <1>1, <1>2, <1>3, <1>5 DEF IsRunning, IsWaiting
<1>7. \A o \in Ids : IsWaiting(q, o) => IsWaiting(qs, o) /\ o \notin Ready(qs, d)
  BY <1>3 DEF IsWaiting
<1>8. \A o \in Ids : IsScheduled(q, o) => IsScheduled(qs, o)
  BY <1>4 DEF IsScheduled
<1>9. AllExclusive(q)
  BY <1>2, <1>4, <1>6, <1>7, <1>8 DEF AllExclusive, Exclusive
<1>10. Ready(qs, d) \subseteq Ids \ RunningIds(qs)
  BY <1>2 DEF AllExclusive, Exclusive, RunningIds
<1> QED BY <1>2, <1>6, <1>9, <1>10 DEF q, RunningIds

LEMMA StartExclusive ==
    ASSUME NEW qs \in QueueState, AllExclusive(qs), NEW s \in Slots, NEW id \in Ids,
           qs.sched[<<s, id>>] # None
    PROVE  /\ AllExclusive(StartScheduled(qs, s, id))
           /\ RunningIds(StartScheduled(qs, s, id)) = RunningIds(qs) \cup {id}
           /\ id \notin RunningIds(qs)
<1> DEFINE q == StartScheduled(qs, s, id)
<1>1. /\ q.wait = qs.wait
      /\ q.run = [qs.run EXCEPT ![id] = qs.sched[<<s, id>>]]
      /\ q.sched = [qs.sched EXCEPT ![<<s, id>>] = None]
  BY DEF StartScheduled, QueueState
<1>2. qs.run \in [Ids -> Entry] /\ qs.sched \in [Slots \X Ids -> Entry]
  BY DEF QueueState
<1>3. ~IsRunning(qs, id) /\ ~IsWaiting(qs, id)
  BY DEF AllExclusive, Exclusive, IsScheduled
<1>4. \A t \in Slots \ {s} : qs.sched[<<t, id>>] = None
  BY DEF AllExclusive, Exclusive, Slots
<1> HIDE DEF q
<1>5. ~IsScheduled(q, id) /\ \E t \in Slots : q.sched[<<t, id>>] = None
  BY <1>1, <1>2, <1>4 DEF IsScheduled
<1>6. \A o \in Ids : IsRunning(q, o) <=> IsRunning(qs, o) \/ o = id
  BY <1>1, <1>2 DEF IsRunning
<1>7. \A o \in Ids \ {id}, t \in Slots : q.sched[<<t, o>>] = qs.sched[<<t, o>>]
  BY <1>1, <1>2
<1>8. ASSUME NEW o \in Ids PROVE Exclusive(q, o)
  <2>1. CASE o = id
    BY <1>1, <1>3, <1>5, <2>1 DEF Exclusive, IsWaiting
  <2>2. CASE o # id
    BY <1>1, <1>6, <1>7, <2>2, SameExclusive
  <2> QED BY <2>1, <2>2
<1> QED BY <1>3, <1>6, <1>8 DEF q, AllExclusive, RunningIds

LEMMA ClearExclusive ==
    ASSUME NEW qs \in QueueState, AllExclusive(qs), NEW id \in Ids
    PROVE  /\ AllExclusive(ClearRerunRequest(qs, id))
           /\ RunningIds(ClearRerunRequest(qs, id)) = RunningIds(qs)
<1>1. CASE IsRunning(qs, id)
  <2>1. qs.run[id] \in TaskMeta
    BY <1>1 DEF IsRunning, QueueState, Entry
  <2>2. qs.run \in [Ids -> Entry]
    BY DEF QueueState
  <2>3. ClearRerunRequest(qs, id) = [qs EXCEPT !.run[id].rerun = FALSE]
    BY <1>1 DEF ClearRerunRequest
  <2>4. [qs EXCEPT !.run[id].rerun = FALSE] =
          [qs EXCEPT !.run[id] = [qs.run[id] EXCEPT !.rerun = FALSE]]
    BY <2>2, ZenonT(30) DEF QueueState
  <2>5. ClearRerunRequest(qs, id) = RefreshRunning(qs, id, qs.run[id], FALSE)
    BY <2>3, <2>4 DEF RefreshRunning
  <2> QED BY <1>1, <2>1, <2>5, RefreshExclusive
<1> QED BY <1>1 DEF ClearRerunRequest

-----------------------------------------------------------------------------
(* The tables.                                                             *)

LEMMA RowType ==
    ASSUME NEW tab \in Table, NEW id \in Ids, tab[id] # None
    PROVE  tab[id] \in Row
BY DEF Table

(* A new row: whatever metadata it is made of.                             *)
LEMMA CreateType ==
    ASSUME NEW tab \in Table, NEW id \in Ids, NEW key \in Keys \cup {None},
           NEW m \in TaskMeta
    PROVE  CreateTask(tab, id, key, m) \in Table
<1>1. m.param \in Params /\ KindOf[m.param] \in Kinds
  BY DEF TaskMeta, Kinds
<1>2. [status |-> "P", kind |-> KindOf[m.param], key |-> key,
       param |-> m.param, deps |-> m.deps, retry |-> 0, count |-> 0,
       cron |-> "none", next |-> "now"] \in Row
  BY <1>1 DEF Row, TaskMeta, Statuses, CronKinds, Slots
<1> QED BY <1>2 DEF CreateTask, Table

(* A changed row that exists is a row.                                     *)
LEMMA ChangeType ==
    ASSUME NEW tab \in Table, NEW id \in Ids, NEW row,
           tab[id] # None => row \in Row
    PROVE  Change(tab, id, row) \in Table
BY DEF Change, Table

LEMMA StampType ==
    ASSUME NEW tab \in Table, NEW id \in Ids, NEW status \in Statuses
    PROVE  StampIfPending(tab, id, status) \in Table
<1>1. tab[id] # None =>
        [tab[id] EXCEPT !.status = status, !.next = "now"] \in Row
  BY RowType DEF Row, Slots
<1> QED BY <1>1, ChangeType DEF StampIfPending

LEMMA PostponeType ==
    ASSUME NEW tab \in Table, NEW id \in Ids
    PROVE  Postpone(tab, id) \in Table
<1>1. tab[id] # None => [tab[id] EXCEPT !.next = "later"] \in Row
  BY RowType DEF Row, Slots
<1> QED BY <1>1, ChangeType DEF Postpone

LEMMA DropType ==
    ASSUME NEW tab \in Table, NEW d
    PROVE  DropDependency(tab, d) \in Table
<1>1. \A id \in Ids : tab[id] # None => ForgetDep(tab[id], d) \in Row
  <2>1. SUFFICES ASSUME NEW id \in Ids, tab[id] # None
                 PROVE  ForgetDep(tab[id], d) \in Row
    OBVIOUS
  <2>2. tab[id] \in Row
    BY <2>1, RowType
  <2> QED BY <2>2 DEF ForgetDep, Row
<1> QED BY <1>1 DEF DropDependency, Table

LEMMA StoreCronType ==
    ASSUME NEW tab \in Table, NEW id \in Ids, NEW m \in TaskMeta
    PROVE  StoreCron(tab, id, m) \in Table
<1>1. tab[id] # None => [tab[id] EXCEPT !.cron = m.cron] \in Row
  BY RowType DEF Row, TaskMeta
<1> QED BY <1>1, ChangeType DEF StoreCron

LEMMA UpdateType ==
    ASSUME NEW tab \in Table, NEW id \in Ids, NEW m \in TaskMeta
    PROVE  UpdateTask(tab, id, m) \in Table
<1> DEFINE row == tab[id]
           new == [row EXCEPT !.param = m.param,
                              !.next  = m.next,
                              !.deps  = IF m.deps # {} THEN m.deps ELSE @,
                              !.retry = IF m.retry > 0 THEN m.retry ELSE @,
                              !.count = IF m.retry > 0 THEN m.count ELSE @,
                              !.cron  = IF m.cron # "none" THEN m.cron ELSE @]
<1>1. row # None => new \in Row
  <2>1. SUFFICES ASSUME row # None PROVE new \in Row
    OBVIOUS
  <2>2. row \in Row
    BY <2>1, RowType
  <2> QED BY <2>2 DEF Row, TaskMeta
<1> QED BY <1>1, ChangeType DEF UpdateTask

-----------------------------------------------------------------------------
(* The parts of the state.                                                 *)

WritesOK ==
    /\ writes \in Seq(WriteRecord)
    /\ wres \in {"busy", "ok", "failed"}
    /\ wres = "ok" => writes # <<>> /\ Head(writes).id \in Ids

LEMMA BodiesType ==
    ASSUME NEW b \in Bodies
    PROVE  b[1] \in Ids /\ b[2] \in Lanes /\ b = <<b[1], b[2]>>
BY DEF Bodies

LEMMA TagTypes ==
    /\ \A r \in Callers : CallerTag(r) \in Tags
    /\ \A b \in Bodies : BodyTag(b) \in Tags
    /\ FinisherTag \in Tags /\ LoaderTag \in Tags
BY DEF Tags

LEMMA WriteType ==
    ASSUME NEW who \in Tags, NEW meta \in TaskMeta
    PROVE  /\ \A id \in Ids :
                \A op \in {"cron", "update", "finish", "undep", "postpone", "fail"} :
                  Write(who, op, id, None, meta) \in WriteRecord
           /\ \A key \in Keys \cup {None} :
                Write(who, "create", None, key, meta) \in WriteRecord
BY DEF Write, WriteRecord

LEMMA IssueType ==
    ASSUME WritesOK, NEW w \in WriteRecord, Issue(w)
    PROVE  WritesOK'
<1>1. writes' \in Seq(WriteRecord) /\ wres' = wres
  BY DEF Issue, WritesOK
<1>2. writes # <<>> => writes' # <<>> /\ Head(writes') = Head(writes)
  BY DEF Issue, WritesOK
<1> QED BY <1>1, <1>2 DEF WritesOK

LEMMA ReturnType ==
    ASSUME WritesOK, NEW who, Holds(who)
    PROVE  /\ Return => WritesOK'
           /\ \A w \in WriteRecord : ReturnAndIssue(w) => WritesOK'
<1>1. Tail(writes) \in Seq(WriteRecord)
  BY DEF Holds, WritesOK
<1> QED BY <1>1 DEF Return, ReturnAndIssue, WritesOK

LEMMA UnissuedType ==
    ASSUME WritesOK, UNCHANGED <<writes, wres>>
    PROVE  WritesOK'
BY DEF WritesOK

(* add_queue leaves queues and at most one more query.                     *)
LEMMA EnqueueType ==
    ASSUME probes \subseteq ProbeRecord, NEW qs \in QueueState, NEW who \in Tags,
           NEW id \in Ids, NEW m \in TaskMeta, Enqueue(qs, who, id, m)
    PROVE  queues' \in QueueState /\ probes' \subseteq ProbeRecord
<1>1. queues' \in QueueState
  BY AddQueueType DEF Enqueue
<1>2. Probe(who, id, m.deps) \in ProbeRecord
  BY DEF Probe, ProbeRecord, TaskMeta
<1> QED BY <1>1, <1>2 DEF Enqueue

LEMMA AfterProbeType ==
    ASSUME queues \in QueueState, probes \subseteq ProbeRecord, NEW p \in probes
    PROVE  AfterProbe(p) \in QueueState /\ p.id \in Ids
           /\ probes \ {p} \subseteq ProbeRecord
<1>1. p.id \in Ids
  BY DEF ProbeRecord
<1> QED BY <1>1, ResolveDepsType DEF AfterProbe

LEMMA SpawnType ==
    ASSUME bodies \in [Bodies -> BodyState], owed \in [Ids -> Params \cup {None}],
           NEW S, NEW meta, \A id \in S : meta[id] \in TaskMeta, Spawn(S, meta)
    PROVE  /\ bodies' \in [Bodies -> BodyState]
           /\ owed' \in [Ids -> Params \cup {None}]
<1>1. \A id \in S :
        [pc |-> "run", meta |-> meta[id], perm |-> FALSE] \in BodyState
  BY DEF BodyState
<1>2. bodies' \in [Bodies -> BodyState]
  BY <1>1 DEF Spawn
<1>3. owed' \in [Ids -> Params \cup {None}]
  BY DEF Spawn
<1> QED BY <1>2, <1>3

LEMMA ReleaseStepType ==
    ASSUME bodies \in [Bodies -> BodyState], owed \in [Ids -> Params \cup {None}],
           NEW qs \in QueueState, NEW id \in Ids, Release(qs, id)
    PROVE  /\ queues' \in QueueState
           /\ bodies' \in [Bodies -> BodyState]
           /\ owed' \in [Ids -> Params \cup {None}]
           /\ fin' \in FinState
<1> DEFINE q == ReleaseDependents(qs, id)
<1>1. q \in QueueState
  BY ReleaseType
<1>2. \A w \in Ready(qs, id) : q.run[w] \in TaskMeta
  <2>1. SUFFICES ASSUME NEW w \in Ready(qs, id) PROVE q.run[w] \in TaskMeta
    OBVIOUS
  <2>2. w \in Ids /\ IsWaiting(qs, w)
    BY DEF Ready, Dependents
  <2>3. q.run[w] = ForgetDep(qs.wait[w], id)
    BY <2>2 DEF ReleaseDependents, QueueState
  <2>4. qs.wait[w] \in TaskMeta
    BY <2>2 DEF IsWaiting, QueueState, Entry
  <2> QED BY <2>3, <2>4, ForgetDepType
<1>3. Spawn(Ready(qs, id), q.run) /\ queues' = q /\ fin' = FinIdle
  BY DEF Release
<1> HIDE DEF q
<1> QED BY <1>1, <1>2, <1>3, SpawnType DEF FinState

-----------------------------------------------------------------------------

LEMMA TypeInit ==
    ASSUME Init
    PROVE  TypeOK
<1>1. queues \in QueueState /\ rows \in Table
  BY EmptyType DEF Init, Table
<1>2. bodies \in [Bodies -> BodyState] /\ callers \in [Callers -> CallerState]
      /\ fin \in FinState
  BY DEF Init, BodyState, CallerState, FinState
<1>3. loader \in LoaderState /\ loader.todo = {}
  BY DEF Init, LoaderState, Unloaded, Table
<1>4. /\ events \in [Ids -> Nat]
      /\ writes \in Seq(WriteRecord)
      /\ wres \in {"busy", "ok", "failed"} /\ wres # "ok"
      /\ probes \subseteq ProbeRecord
      /\ counts \in CountState
      /\ asked \in [Ids -> AskedState \cup {None}]
      /\ ended \subseteq Ids
      /\ owed \in [Ids -> Params \cup {None}]
  BY DEF Init, CountState
<1> QED BY <1>1, <1>2, <1>3, <1>4 DEF TypeOK

(* The store: an effect types the tables, whatever the operation.          *)
LEMMA EffectType ==
    ASSUME rows \in Table, NEW w \in WriteRecord, w.id \in Ids
    PROVE  Effect(w) \in Table
<1>1. w.meta \in TaskMeta /\ w.key \in Keys \cup {None}
      /\ w.op \in {"create", "cron", "update", "finish", "undep", "postpone", "fail"}
  BY DEF WriteRecord
<1>2. /\ CreateTask(rows, w.id, w.key, w.meta) \in Table
      /\ StoreCron(rows, w.id, w.meta) \in Table
      /\ UpdateTask(rows, w.id, w.meta) \in Table
      /\ MarkFinished(rows, w.id) \in Table
      /\ DropDependency(rows, w.id) \in Table
      /\ Postpone(rows, w.id) \in Table
      /\ MarkFailed(rows, w.id) \in Table
  BY <1>1, CreateType, StoreCronType, UpdateType, StampType, DropType, PostponeType
     DEF MarkFinished, MarkFailed, Statuses
<1> QED BY <1>1, <1>2 DEF Effect

LEMMA HeadType ==
    ASSUME NEW s \in Seq(WriteRecord), s # <<>>, NEW w \in WriteRecord
    PROVE  /\ Head(s) \in WriteRecord
           /\ [s EXCEPT ![1] = w] \in Seq(WriteRecord)
           /\ [s EXCEPT ![1] = w] # <<>>
           /\ Head([s EXCEPT ![1] = w]) = w
OBVIOUS

LEMMA TypeWriteEffect ==
    ASSUME TypeOK, WriteEffect
    PROVE  TypeOK'
<1> DEFINE h == Head(writes)
           w == IF h.op = "create"
                  THEN [h EXCEPT !.id = NewId(rows)] ELSE h
<1>1. h \in WriteRecord
  BY HeadType DEF TypeOK, WriteEffect
<1>2. h.op = "create" => NewId(rows) \in Ids
  <2>1. h.op = "create" => FreeIds(rows) # {}
    BY DEF WriteEffect, Creatable, CanCreate
  <2> QED BY <2>1 DEF NewId, FreeIds
<1>3. w \in WriteRecord /\ w.id \in Ids
  BY <1>1, <1>2 DEF WriteRecord, WriteEffect
<1>4. rows' = Effect(w) /\ writes' = [writes EXCEPT ![1] = w] /\ wres' = "ok"
  BY DEF WriteEffect
<1>5. w.meta \in TaskMeta
  BY <1>3 DEF WriteRecord
<1>6. asked' \in [Ids -> AskedState \cup {None}]
  <2>1. [deps |-> w.meta.deps, retry |-> w.meta.retry] \in AskedState
    BY <1>5 DEF AskedState, TaskMeta
  <2>2. \/ asked' = asked
        \/ asked' = [asked EXCEPT ![w.id] =
                       [deps |-> w.meta.deps, retry |-> w.meta.retry]]
    BY DEF WriteEffect
  <2> HIDE DEF w
  <2> QED BY <1>3, <2>1, <2>2 DEF TypeOK
<1>7. owed' \in [Ids -> Params \cup {None}]
  <2>1. w.meta.param \in Params
    BY <1>5 DEF TaskMeta
  <2>2. owed' = owed \/ owed' = [owed EXCEPT ![w.id] = w.meta.param]
    BY DEF WriteEffect
  <2> HIDE DEF w
  <2> QED BY <1>3, <2>1, <2>2 DEF TypeOK
<1>8. writes # <<>>
  BY DEF WriteEffect
<1> HIDE DEF w
<1>9. rows' \in Table
  BY <1>3, <1>4, EffectType DEF TypeOK
<1>10. writes' \in Seq(WriteRecord) /\ writes' # <<>> /\ Head(writes').id \in Ids
  BY <1>3, <1>4, <1>8, HeadType DEF TypeOK
<1> QED BY <1>4, <1>6, <1>7, <1>9, <1>10 DEF TypeOK, WriteEffect

LEMMA CountsType ==
    ASSUME TypeOK
    PROVE  /\ counts \in CountState
           /\ [counts EXCEPT !.requests = @ + 1] \in CountState
           /\ [counts EXCEPT !.faults = @ + 1] \in CountState
           /\ \A S \in SUBSET Ids :
                [counts EXCEPT !.crashes = @ + 1, !.lost = @ \cup S] \in CountState
<1>1. counts \in CountState
  BY DEF TypeOK
<1>2. \A c \in CountState : /\ [c EXCEPT !.requests = @ + 1] \in CountState
                            /\ [c EXCEPT !.faults = @ + 1] \in CountState
  BY DEF CountState
<1>3. ASSUME NEW c \in CountState, NEW S \in SUBSET Ids
      PROVE  [c EXCEPT !.crashes = @ + 1, !.lost = @ \cup S] \in CountState
  <2>1. c.crashes + 1 \in Nat /\ c.lost \cup S \in SUBSET Ids
    BY DEF CountState
  <2> QED BY <2>1 DEF CountState
<1> QED BY <1>1, <1>2, <1>3

LEMMA TypeStore ==
    ASSUME TypeOK, StoreStep
    PROVE  TypeOK'
<1>1. CASE WriteEffect
  BY <1>1, TypeWriteEffect
<1>2. CASE WriteFails
  <2>0. counts' = [counts EXCEPT !.faults = @ + 1] \/ counts' = counts
    BY <1>2 DEF WriteFails
  <2>1. counts' \in CountState
    BY <2>0, CountsType
  <2>2. wres' = "failed"
        /\ UNCHANGED <<queues, rows, events, bodies, callers, fin, loader, writes,
                       probes, asked, ended, owed>>
    BY <1>2 DEF WriteFails, history
  <2> QED BY <2>1, <2>2 DEF TypeOK
<1>3. ASSUME NEW p \in probes, ProbeAnswered(p)
      PROVE  TypeOK'
  <2>1. FindCompleted(rows, p.deps) \subseteq Ids
    BY DEF TypeOK, ProbeRecord, FindCompleted
  <2>2. [p EXCEPT !.answered = TRUE, !.completed = FindCompleted(rows, p.deps)]
          \in ProbeRecord
    BY <2>1 DEF TypeOK, ProbeRecord
  <2>3. probes' \subseteq ProbeRecord
    BY <1>3, <2>2 DEF TypeOK, ProbeAnswered
  <2> QED BY <1>3, <2>3 DEF ProbeAnswered, TypeOK, history
<1> QED BY <1>1, <1>2, <1>3 DEF StoreStep

LEMMA TypeDispatch ==
    ASSUME TypeOK, NEW s \in Slots, NEW id \in Ids, Dispatch(s, id)
    PROVE  TypeOK'
<1> DEFINE q == StartScheduled(queues, s, id)
<1>1. q \in QueueState
  BY StartType DEF TypeOK
<1>2. q.run[id] \in TaskMeta
  BY DEF Dispatch, StartScheduled, TypeOK, QueueState, Entry
<1>3. queues' = q /\ Spawn({id}, q.run)
  BY DEF Dispatch
<1> HIDE DEF q
<1>4. bodies' \in [Bodies -> BodyState] /\ owed' \in [Ids -> Params \cup {None}]
  BY <1>2, <1>3, SpawnType DEF TypeOK
<1> QED BY <1>1, <1>3, <1>4 DEF Dispatch, TypeOK

(* A body's future.                                                        *)
LEMMA BodyMeta ==
    ASSUME TypeOK, NEW b \in Bodies, bodies[b].pc # "off"
    PROVE  bodies[b].meta \in TaskMeta /\ bodies[b] # NoBody
BY DEF TypeOK, BodyState, NoBody

LEMMA BodyMoves ==
    ASSUME TypeOK, NEW b \in Bodies, bodies[b].pc # "off", NEW perm \in BOOLEAN,
           NEW pc \in {"run", "retrying", "retryHook", "failing", "failHook",
                       "resolve"}
    PROVE  /\ [bodies EXCEPT ![b].pc = pc] \in [Bodies -> BodyState]
           /\ [bodies EXCEPT ![b].pc = pc, ![b].perm = perm] \in [Bodies -> BodyState]
<1>1. bodies[b] \in [pc : {"run", "retrying", "retryHook", "failing", "failHook",
                           "resolve"}, meta : TaskMeta, perm : BOOLEAN]
  BY DEF TypeOK, BodyState, NoBody
<1>2. [bodies[b] EXCEPT !.pc = pc] \in BodyState
      /\ [bodies[b] EXCEPT !.pc = pc, !.perm = perm] \in BodyState
  BY <1>1 DEF BodyState
<1>3. bodies \in [Bodies -> BodyState]
  BY DEF TypeOK
<1> QED BY <1>2, <1>3

LEMMA RetryMetaType ==
    ASSUME TypeOK, NEW b \in Bodies, bodies[b].pc # "off"
    PROVE  RetryMeta(b) \in TaskMeta
<1> DEFINE current == queues.run[b[1]]
           base == IF current = None THEN bodies[b].meta ELSE current
<1>1. bodies[b].meta \in TaskMeta /\ b[1] \in Ids
  BY BodyMeta, BodiesType
<1>2. base \in TaskMeta
  BY <1>1 DEF TypeOK, QueueState, Entry
<1>3. bodies[b].meta.count + 1 \in Nat
  BY <1>1 DEF TaskMeta
<1> HIDE DEF base
<1>4. [base EXCEPT !.count = bodies[b].meta.count + 1, !.next = "later",
                   !.rerun = FALSE] \in TaskMeta
  BY <1>2, <1>3, MetaType DEF Slots
<1> QED BY <1>4 DEF base, RetryMeta

LEMMA TypeBody ==
    ASSUME TypeOK, NEW b \in Bodies, BodyStep(b)
    PROVE  TypeOK'
<1>1. b[1] \in Ids /\ BodyTag(b) \in Tags
  BY BodiesType, TagTypes
<1>2. NoBody \in BodyState
  BY DEF BodyState
<1>3. WritesOK
  BY DEF TypeOK, WritesOK
<1>4. CASE BodySucceeds(b)
  BY <1>1, <1>2, <1>4 DEF BodySucceeds, SendFinish, TypeOK
<1>5. ASSUME NEW perm \in BOOLEAN, BodyFails(b, perm)
      PROVE  TypeOK'
  <2> DEFINE m == bodies[b].meta
             op == ErrorOp(m, ShouldRetry(b, perm))
  <2>1. m \in TaskMeta
    BY <1>5, BodyMeta DEF BodyFails, Body
  <2>2. Write(BodyTag(b), op, b[1], None, m) \in WriteRecord
    BY <1>1, <2>1, WriteType DEF ErrorOp
  <2>3. WritesOK'
    BY <1>3, <1>5, <2>2, IssueType DEF BodyFails
  <2>4. bodies' \in [Bodies -> BodyState]
    BY <1>5, BodyMoves DEF BodyFails, Body
  <2> QED BY <1>5, <2>3, <2>4 DEF BodyFails, TypeOK, WritesOK, history
<1>6. CASE BodyErrorStored(b)
  <2>1. WritesOK'
    BY <1>3, <1>6, ReturnType DEF BodyErrorStored
  <2>2. bodies' \in [Bodies -> BodyState]
    <3>1. CASE Body(b, "retrying") /\ Move(b, "retryHook")
      BY <3>1, BodyMoves DEF Body, Move
    <3>2. CASE Body(b, "failing") /\ Move(b, "failHook")
      BY <3>2, BodyMoves DEF Body, Move
    <3> QED BY <1>6, <3>1, <3>2 DEF BodyErrorStored
  <2> QED BY <1>6, <2>1, <2>2 DEF BodyErrorStored, TypeOK, WritesOK, history
<1>7. CASE BodyRetries(b)
  <2>1. bodies[b].meta \in TaskMeta
    BY <1>7, BodyMeta DEF BodyRetries, Body
  <2>2. RetryMeta(b) \in TaskMeta
    BY <1>7, RetryMetaType DEF BodyRetries, Body
  <2>3. TakeRunning(queues, b[1]) \in QueueState
    BY <1>1, TakeRunningType DEF TypeOK
  <2>4. queues' \in QueueState /\ probes' \subseteq ProbeRecord
    BY <1>1, <1>7, <2>2, <2>3, EnqueueType DEF BodyRetries, TypeOK
  <2>5. bodies' \in [Bodies -> BodyState]
    <3>1. \/ bodies' = [bodies EXCEPT ![b].pc = "resolve"]
          \/ bodies' = [bodies EXCEPT ![b] = NoBody]
      BY <1>7 DEF BodyRetries
    <3> QED BY <1>2, <1>7, <3>1, BodyMoves DEF BodyRetries, Body, TypeOK
  <2> QED BY <1>7, <2>4, <2>5 DEF BodyRetries, TypeOK, history
<1>8. CASE BodyResolves(b)
  <2>1. queues' \in QueueState /\ probes' \subseteq ProbeRecord
    BY <1>8, AfterProbeType DEF BodyResolves, TypeOK
  <2> QED BY <1>2, <1>8, <2>1 DEF BodyResolves, TypeOK, history
<1>9. CASE BodyGivesUp(b)
  <2>1. queues' \in QueueState
    BY <1>1, <1>9, ClearType DEF BodyGivesUp, TypeOK
  <2> QED BY <1>1, <1>2, <1>9, <2>1 DEF BodyGivesUp, SendFinish, TypeOK
<1> QED BY <1>4, <1>5, <1>6, <1>7, <1>8, <1>9 DEF BodyStep

(* The finish handler.                                                     *)
LEMMA FinStepType ==
    ASSUME TypeOK, NEW qs \in QueueState, NEW id \in Ids, NEW m \in TaskMeta,
           NEW pc \in {"cron", "finish", "undep", "resolve"}
    PROVE  /\ [pc |-> pc, id |-> id, meta |-> m] \in FinState
           /\ AddQueue(qs, id, m) \in QueueState
           /\ TakeRunning(qs, id) \in QueueState
BY AddQueueType, TakeRunningType DEF FinState

LEMMA FinMeta ==
    ASSUME TypeOK, fin.pc # "idle"
    PROVE  fin.id \in Ids /\ fin.meta \in TaskMeta
           /\ \A pc \in {"cron", "finish", "undep", "resolve"} :
                [fin EXCEPT !.pc = pc] \in FinState
<1>1. fin \in [pc : {"cron", "finish", "undep", "resolve"}, id : Ids, meta : TaskMeta]
  BY DEF TypeOK, FinState, FinIdle
<1> QED BY <1>1 DEF FinState

LEMMA FinTakesType ==
    ASSUME TypeOK, NEW id \in Ids, FinTakes(id)
    PROVE  /\ events' \in [Ids -> Nat]
           /\ IsRunning(queues, id) => queues.run[id] \in TaskMeta
<1>1. events[id] \in Nat /\ events[id] > 0
  BY DEF FinTakes, TypeOK
<1>2. events' \in [Ids -> Nat]
  BY <1>1 DEF FinTakes, TypeOK
<1> QED BY <1>2 DEF TypeOK, IsRunning, QueueState, Entry

LEMMA TypeFin ==
    ASSUME TypeOK, FinStep
    PROVE  TypeOK'
<1>1. WritesOK
  BY DEF TypeOK, WritesOK
<1>2. FinisherTag \in Tags
  BY TagTypes
<1>3. ASSUME NEW id \in Ids, FinNotFound(id)
      PROVE  TypeOK'
  <2>1. events' \in [Ids -> Nat]
    BY <1>3, FinTakesType DEF FinNotFound
  <2> QED BY <1>3, <2>1 DEF FinNotFound, TypeOK, history
<1>4. ASSUME NEW id \in Ids, FinReruns(id)
      PROVE  TypeOK'
  <2> DEFINE m == RerunMeta(queues.run[id])
             taken == TakeRunning(queues, id)
  <2>1. events' \in [Ids -> Nat] /\ queues.run[id] \in TaskMeta
    BY <1>4, FinTakesType DEF FinReruns
  <2>2. m \in TaskMeta
    BY <2>1, MetaType DEF RerunMeta, Slots
  <2>3. taken \in QueueState /\ AddQueue(taken, id, m) \in QueueState
    BY <2>2, FinStepType DEF TypeOK
  <2>4. CASE m.deps # {}
    <3>1. Enqueue(taken, FinisherTag, id, m)
          /\ fin' = [pc |-> "resolve", id |-> id, meta |-> m]
          /\ UNCHANGED <<bodies, owed>>
      BY <1>4, <2>4 DEF FinReruns
    <3> HIDE DEF m, taken
    <3>2. queues' \in QueueState /\ probes' \subseteq ProbeRecord /\ fin' \in FinState
      BY <1>2, <2>2, <2>3, <3>1, EnqueueType, FinStepType DEF TypeOK
    <3> QED BY <1>4, <2>1, <3>1, <3>2 DEF FinReruns, TypeOK
  <2>5. CASE m.deps = {}
    <3>1. Release(AddQueue(taken, id, m), id) /\ UNCHANGED probes
      BY <1>4, <2>5 DEF FinReruns
    <3> HIDE DEF m, taken
    <3>2. /\ queues' \in QueueState /\ fin' \in FinState
          /\ bodies' \in [Bodies -> BodyState]
          /\ owed' \in [Ids -> Params \cup {None}]
      BY <2>3, <3>1, ReleaseStepType DEF TypeOK
    <3> QED BY <1>4, <2>1, <3>1, <3>2 DEF FinReruns, TypeOK
  <2> QED BY <2>4, <2>5
<1>5. ASSUME NEW id \in Ids, FinStores(id)
      PROVE  TypeOK'
  <2> DEFINE m == queues.run[id]
             recurs == m.cron = "recurs"
             upd == IF recurs THEN [m EXCEPT !.next = "later"] ELSE m
             pc == IF recurs THEN "cron" ELSE "finish"
             op == IF recurs THEN "update" ELSE "finish"
  <2>1. events' \in [Ids -> Nat] /\ m \in TaskMeta
    BY <1>5, FinTakesType DEF FinStores
  <2>2. upd \in TaskMeta
    BY <2>1, MetaType DEF Slots
  <2>3. fin' = [pc |-> pc, id |-> id, meta |-> upd]
        /\ Issue(Write(FinisherTag, op, id, None, upd))
        /\ queues' = TakeRunning(queues, id)
    BY <1>5 DEF FinStores
  <2> HIDE DEF upd
  <2>4. WritesOK'
    BY <1>1, <1>2, <2>2, <2>3, WriteType, IssueType
  <2>5. fin' \in FinState /\ queues' \in QueueState
    BY <2>2, <2>3, FinStepType DEF TypeOK
  <2> QED BY <1>5, <2>1, <2>4, <2>5 DEF FinStores, TypeOK, WritesOK, history
<1>6. CASE FinCronStored
  <2>1. fin.id \in Ids /\ fin.meta \in TaskMeta
        /\ [fin EXCEPT !.pc = "resolve"] \in FinState
    BY <1>6, FinMeta DEF FinCronStored
  <2>2. WritesOK'
    BY <1>1, <1>6, ReturnType DEF FinCronStored
  <2>3. AddQueue(queues, fin.id, fin.meta) \in QueueState
    BY <2>1, AddQueueType DEF TypeOK
  <2>4. /\ queues' \in QueueState /\ fin' \in FinState
        /\ probes' \subseteq ProbeRecord
        /\ bodies' \in [Bodies -> BodyState]
        /\ owed' \in [Ids -> Params \cup {None}]
    <3>1. CASE ChecksDeps(queues, fin.id, fin.meta)
      BY <1>2, <1>6, <2>1, <3>1, EnqueueType DEF FinCronStored, TypeOK
    <3>2. CASE ~ChecksDeps(queues, fin.id, fin.meta)
      BY <1>6, <2>1, <2>3, <3>2, ReleaseStepType DEF FinCronStored, TypeOK
    <3> QED BY <3>1, <3>2
  <2> QED BY <1>6, <2>2, <2>4 DEF FinCronStored, TypeOK, WritesOK
<1>7. CASE FinResolves
  <2>1. PICK p \in probes : Release(AfterProbe(p), fin.id) /\ probes' = probes \ {p}
    BY <1>7 DEF FinResolves
  <2>2. fin.id \in Ids
    BY <1>7, FinMeta DEF FinResolves
  <2>3. AfterProbe(p) \in QueueState /\ probes' \subseteq ProbeRecord
    BY <2>1, AfterProbeType DEF TypeOK
  <2>4. /\ queues' \in QueueState /\ fin' \in FinState
        /\ bodies' \in [Bodies -> BodyState]
        /\ owed' \in [Ids -> Params \cup {None}]
    BY <2>1, <2>2, <2>3, ReleaseStepType DEF TypeOK
  <2> QED BY <1>7, <2>3, <2>4 DEF FinResolves, TypeOK
<1>8. CASE FinRowStamped
  <2>1. fin.id \in Ids /\ fin.meta \in TaskMeta
        /\ [fin EXCEPT !.pc = "undep"] \in FinState
    BY <1>8, FinMeta DEF FinRowStamped
  <2>2. Write(FinisherTag, "undep", fin.id, None, fin.meta) \in WriteRecord
    BY <1>2, <2>1, WriteType
  <2>3. WritesOK'
    BY <1>1, <1>8, <2>2, ReturnType DEF FinRowStamped
  <2> QED BY <1>8, <2>1, <2>3 DEF FinRowStamped, TypeOK, WritesOK, history
<1>9. CASE FinFinished
  <2>1. fin.id \in Ids
    BY <1>9, FinMeta DEF FinFinished
  <2>2. WritesOK'
    BY <1>1, <1>9, ReturnType DEF FinFinished
  <2>3. /\ queues' \in QueueState /\ fin' \in FinState
        /\ bodies' \in [Bodies -> BodyState]
        /\ owed' \in [Ids -> Params \cup {None}]
    BY <1>9, <2>1, ReleaseStepType DEF FinFinished, TypeOK
  <2> QED BY <1>9, <2>2, <2>3 DEF FinFinished, TypeOK, WritesOK
<1> QED BY <1>3, <1>4, <1>5, <1>6, <1>7, <1>8, <1>9 DEF FinStep

(* The callers.                                                            *)
LEMMA MetaOfType ==
    ASSUME NEW rq \in Requests, NEW next \in Slots
    PROVE  MetaOf(rq, next) \in TaskMeta
BY RequestsAssumption DEF Request, MetaOf, TaskMeta

LEMMA EffectiveNextType ==
    ASSUME NEW rq \in Requests, NEW id
    PROVE  EffectiveNext(rq, id) \subseteq Slots
BY RequestsAssumption DEF Request, EffectiveNext, Slots

LEMMA CallerMeta ==
    ASSUME TypeOK, NEW r \in Callers, callers[r].pc # "idle"
    PROVE  /\ callers[r].meta \in TaskMeta /\ callers[r].key \in Keys \cup {None}
           /\ callers[r].id \in Ids \cup {None}
           /\ callers[r].pc \notin {"found", "create"} => callers[r].id \in Ids
BY DEF TypeOK, CallerState, Idle

(* A call that has an id goes on; any call can return.                     *)
LEMMA CallerMovesType ==
    ASSUME TypeOK, NEW r \in Callers, callers[r].pc # "idle",
           NEW pc \in {"clear", "setcron", "update", "refresh", "insert", "resolve"}
    PROVE  /\ \A id \in Ids :
                [callers EXCEPT ![r].pc = pc, ![r].id = id] \in [Callers -> CallerState]
           /\ callers[r].id \in Ids =>
                [callers EXCEPT ![r].pc = pc] \in [Callers -> CallerState]
           /\ [callers EXCEPT ![r] = Idle] \in [Callers -> CallerState]
           /\ callers[r].pc = "found" =>
                [callers EXCEPT ![r].pc = "create"] \in [Callers -> CallerState]
<1> DEFINE Calls == [Callers -> CallerState]
<1>1. callers \in Calls
  BY DEF TypeOK
<1>2. \A c \in CallerState : [callers EXCEPT ![r] = c] \in Calls
  BY <1>1
<1>3. Idle \in CallerState
  BY DEF CallerState
<1>4. /\ callers[r] \in [pc : {"found", "create"}, key : Keys \cup {None},
                         id : Ids \cup {None}, changed : BOOLEAN, meta : TaskMeta]
                        \cup
                       [pc : {"clear", "setcron", "update", "refresh", "insert",
                              "resolve"}, key : Keys \cup {None}, id : Ids,
                        changed : BOOLEAN, meta : TaskMeta]
  BY <1>1 DEF CallerState, Idle
<1>5. \A id \in Ids : [callers[r] EXCEPT !.pc = pc, !.id = id] \in CallerState
  BY <1>4 DEF CallerState
<1>6. callers[r].id \in Ids => [callers[r] EXCEPT !.pc = pc] \in CallerState
  BY <1>4 DEF CallerState
<1>7. callers[r].pc = "found" =>
        [callers[r] EXCEPT !.pc = "create"] \in CallerState
  BY <1>4 DEF CallerState
<1>8. /\ \A id \in Ids :
           [callers EXCEPT ![r].pc = pc, ![r].id = id]
             = [callers EXCEPT ![r] = [callers[r] EXCEPT !.pc = pc, !.id = id]]
      /\ [callers EXCEPT ![r].pc = pc]
           = [callers EXCEPT ![r] = [callers[r] EXCEPT !.pc = pc]]
      /\ [callers EXCEPT ![r].pc = "create"]
           = [callers EXCEPT ![r] = [callers[r] EXCEPT !.pc = "create"]]
  BY <1>1
<1> QED BY <1>2, <1>3, <1>5, <1>6, <1>7, <1>8

LEMMA TypeAsks ==
    ASSUME TypeOK, NEW r \in Callers, NEW rq \in Requests, CallerAsks(r, rq)
    PROVE  TypeOK'
<1>1. PICK id \in Answers(FindByKey(rows, rq.key)) :
      \E next \in EffectiveNext(rq, id) :
        callers' = [callers EXCEPT ![r] =
         [pc |-> "found", key |-> rq.key, id |-> id,
          changed |-> id # None /\ rows[id].param # rq.param,
          meta |-> MetaOf(rq, next)]]
  BY DEF CallerAsks
<1>2. PICK next \in EffectiveNext(rq, id) :
        callers' = [callers EXCEPT ![r] =
         [pc |-> "found", key |-> rq.key, id |-> id,
          changed |-> id # None /\ rows[id].param # rq.param,
          meta |-> MetaOf(rq, next)]]
  BY <1>1
<1>3. next \in Slots
  BY EffectiveNextType
<1>4. id \in Ids \cup {None}
  BY DEF Answers, FindByKey
<1>5. rq.key \in Keys \cup {None}
  BY RequestsAssumption DEF Request
<1>6. (id # None /\ rows[id].param # rq.param) \in BOOLEAN
  OBVIOUS
<1>7. MetaOf(rq, next) \in TaskMeta
  BY <1>3, MetaOfType
<1>8. [pc |-> "found", key |-> rq.key, id |-> id,
       changed |-> id # None /\ rows[id].param # rq.param,
       meta |-> MetaOf(rq, next)] \in CallerState
  BY <1>4, <1>5, <1>6, <1>7 DEF CallerState
<1>9. callers' \in [Callers -> CallerState]
  BY <1>2, <1>8 DEF TypeOK
<1>10. counts' \in CountState
  <2>1. counts' = [counts EXCEPT !.requests = @ + 1]
    BY DEF CallerAsks
  <2> QED BY <2>1, CountsType
<1> QED BY <1>9, <1>10 DEF CallerAsks, TypeOK, history

LEMMA ClearQueuedType ==
    ASSUME TypeOK, NEW r \in Callers, callers[r].pc # "idle", callers[r].id \in Ids,
           ClearQueued(r)
    PROVE  /\ queues' \in QueueState
           /\ callers' \in [Callers -> CallerState]
           /\ WritesOK'
<1>1. UpdateRow(r) \in WriteRecord
  BY CallerMeta, TagTypes, WriteType DEF UpdateRow
<1>2. WritesOK'
  BY <1>1, IssueType DEF ClearQueued, TypeOK, WritesOK
<1>3. queues' \in QueueState
  BY RemoveType DEF ClearQueued, TypeOK
<1>4. callers' \in [Callers -> CallerState]
  BY CallerMovesType DEF ClearQueued, CallerMoves
<1> QED BY <1>2, <1>3, <1>4

(* Until a caller holds a returned write, the write's id is an id.          *)
LEMMA ReturnedId ==
    ASSUME TypeOK, NEW r \in Callers, Holds(CallerTag(r)), wres = "ok"
    PROVE  Head(writes).id \in Ids
BY DEF TypeOK

LEMMA TypeCaller ==
    ASSUME TypeOK, NEW r \in Callers, CallerStep(r)
    PROVE  TypeOK'
<1>1. WritesOK
  BY DEF TypeOK, WritesOK
<1>2. CallerTag(r) \in Tags
  BY TagTypes
<1> DEFINE id == callers[r].id
           m == callers[r].meta
<1>3. CASE CallerCreates(r)
  <2>1. m \in TaskMeta /\ callers[r].key \in Keys \cup {None}
    BY <1>3, CallerMeta DEF CallerCreates, Caller
  <2>2. Write(CallerTag(r), "create", None, callers[r].key, m) \in WriteRecord
    BY <1>2, <2>1, WriteType
  <2>3. WritesOK'
    BY <1>1, <1>3, <2>2, IssueType DEF CallerCreates
  <2>4. callers' \in [Callers -> CallerState]
    BY <1>3, CallerMovesType DEF CallerCreates, Caller, CallerMoves
  <2> QED BY <1>3, <2>3, <2>4 DEF CallerCreates, TypeOK, WritesOK, history
<1>4. ASSUME id \in Ids, m \in TaskMeta, Accept(r)
      PROVE  /\ owed' \in [Ids -> Params \cup {None}]
             /\ asked' \in [Ids -> AskedState \cup {None}]
  BY <1>4 DEF Accept, TypeOK, TaskMeta, AskedState
<1>5. CASE CallerFindsRunning(r)
  <2>1. m \in TaskMeta /\ id \in Ids /\ callers[r].pc # "idle"
    BY <1>5, CallerMeta DEF CallerFindsRunning, Caller
  <2>2. queues' \in QueueState
    <3>1. queues.run[id] \in TaskMeta
      BY <1>5, <2>1 DEF CallerFindsRunning, TypeOK, IsRunning, QueueState, Entry
    <3>2. (queues.run[id].rerun \/ m.cron = "none") \in BOOLEAN
      BY <3>1 DEF TaskMeta
    <3> QED BY <1>5, <2>1, <3>2, RefreshType
            DEF CallerFindsRunning, RequestInPlace, TypeOK
  <2>3. UpdateRow(r) \in WriteRecord
    BY <1>2, <2>1, WriteType DEF UpdateRow
  <2>4. WritesOK'
    BY <1>1, <1>5, <2>3, IssueType DEF CallerFindsRunning
  <2>5. callers' \in [Callers -> CallerState]
    BY <1>5, <2>1, CallerMovesType DEF CallerFindsRunning, CallerMoves
  <2>6. /\ owed' \in [Ids -> Params \cup {None}]
        /\ asked' \in [Ids -> AskedState \cup {None}]
    BY <1>4, <1>5, <2>1 DEF CallerFindsRunning
  <2> QED BY <1>5, <2>2, <2>4, <2>5, <2>6 DEF CallerFindsRunning, TypeOK, WritesOK
<1>6. CASE CallerFindsIdle(r)
  <2>1. m \in TaskMeta /\ id \in Ids /\ callers[r].pc # "idle"
    BY <1>6, CallerMeta DEF CallerFindsIdle, Caller
  <2>2. /\ owed' \in [Ids -> Params \cup {None}]
        /\ asked' \in [Ids -> AskedState \cup {None}]
    BY <1>4, <1>6, <2>1 DEF CallerFindsIdle
  <2>3. /\ queues' \in QueueState
        /\ callers' \in [Callers -> CallerState]
        /\ WritesOK'
    <3>1. CASE OnMain(r)
      <4>1. CallerMoves(r, "clear") /\ UNCHANGED <<queues, writes, wres>>
        BY <1>6, <3>1 DEF CallerFindsIdle
      <4>2. callers' \in [Callers -> CallerState]
        BY <2>1, <4>1, CallerMovesType DEF CallerMoves
      <4> QED BY <1>1, <4>1, <4>2, UnissuedType DEF TypeOK
    <3>2. CASE ~OnMain(r)
      BY <1>6, <2>1, <3>2, ClearQueuedType DEF CallerFindsIdle
    <3> QED BY <3>1, <3>2
  <2> QED BY <1>6, <2>2, <2>3 DEF CallerFindsIdle, TypeOK, WritesOK
<1>7. CASE CallerClears(r)
  <2>1. id \in Ids /\ callers[r].pc # "idle"
    BY <1>7, CallerMeta DEF CallerClears, Caller
  <2>2. /\ queues' \in QueueState
        /\ callers' \in [Callers -> CallerState]
        /\ WritesOK'
    BY <1>7, <2>1, ClearQueuedType DEF CallerClears
  <2> QED BY <1>7, <2>2 DEF CallerClears, TypeOK, WritesOK, history
<1>8. callers' = [callers EXCEPT ![r] = Idle] => callers' \in [Callers -> CallerState]
  BY DEF TypeOK, CallerState
<1>9. CASE CallerFails(r) \/ CallerRefreshed(r)
  <2>1. WritesOK'
    BY <1>1, <1>9, ReturnType DEF CallerFails, CallerRefreshed
  <2>2. callers' \in [Callers -> CallerState]
    BY <1>8, <1>9 DEF CallerFails, CallerRefreshed, CallerReturns
  <2> QED BY <1>9, <2>1, <2>2
          DEF CallerFails, CallerRefreshed, TypeOK, WritesOK, history
<1>10. CASE CallerStoresCron(r)
  <2> DEFINE new == Head(writes).id
  <2>1. m \in TaskMeta /\ callers[r].pc # "idle"
    BY <1>10, CallerMeta DEF CallerStoresCron, StoresCron, Caller
  <2>2. new \in Ids
    BY <1>10, ReturnedId DEF CallerStoresCron
  <2>3. Write(CallerTag(r), "cron", new, None, m) \in WriteRecord
    BY <1>2, <2>1, <2>2, WriteType
  <2>4. WritesOK'
    BY <1>1, <1>10, <2>3, ReturnType DEF CallerStoresCron
  <2>5. callers' \in [Callers -> CallerState]
    <3>1. callers' = [callers EXCEPT ![r].pc = "setcron", ![r].id = new]
      BY <1>10 DEF CallerStoresCron
    <3> HIDE DEF new
    <3> QED BY <2>1, <2>2, <3>1, CallerMovesType
  <2> QED BY <1>10, <2>4, <2>5 DEF CallerStoresCron, TypeOK, WritesOK, history
<1>11. CASE CallerQueues(r)
  <2> DEFINE new == Head(writes).id
  <2>1. m \in TaskMeta /\ callers[r].pc # "idle"
    BY <1>11, CallerMeta DEF CallerQueues
  <2>2. new \in Ids
    BY <1>11, ReturnedId DEF CallerQueues
  <2>3. WritesOK'
    BY <1>1, <1>11, ReturnType DEF CallerQueues
  <2>4. CASE OnMain(r) /\ ~IsRunning(queues, new)
    <3>1. callers' = [callers EXCEPT ![r].pc = "insert", ![r].id = new]
          /\ UNCHANGED <<queues, probes>>
      BY <1>11, <2>4 DEF CallerQueues
    <3> HIDE DEF new
    <3>2. callers' \in [Callers -> CallerState]
      BY <2>1, <2>2, <3>1, CallerMovesType
    <3> QED BY <1>11, <2>3, <3>1, <3>2 DEF CallerQueues, TypeOK, WritesOK, history
  <2>5. CASE ~(OnMain(r) /\ ~IsRunning(queues, new))
    <3>1. Enqueue(queues, CallerTag(r), new, m)
      BY <1>11, <2>5 DEF CallerQueues
    <3>2. \/ callers' = [callers EXCEPT ![r].pc = "resolve", ![r].id = new]
          \/ callers' = [callers EXCEPT ![r] = Idle]
      BY <1>11, <2>5 DEF CallerQueues
    <3> HIDE DEF new
    <3>3. queues' \in QueueState /\ probes' \subseteq ProbeRecord
      BY <1>2, <2>1, <2>2, <3>1, EnqueueType DEF TypeOK
    <3>4. callers' \in [Callers -> CallerState]
      <4>1. CASE callers' = [callers EXCEPT ![r].pc = "resolve", ![r].id = new]
        BY <2>1, <2>2, <4>1, CallerMovesType
      <4> QED BY <1>8, <3>2, <4>1
    <3> QED BY <1>11, <2>3, <3>3, <3>4 DEF CallerQueues, TypeOK, WritesOK, history
  <2> QED BY <2>4, <2>5
<1>12. CASE CallerInserts(r)
  <2>1. m \in TaskMeta /\ id \in Ids /\ callers[r].pc # "idle"
    BY <1>12, CallerMeta DEF CallerInserts, Caller
  <2>2. queues' \in QueueState
    BY <1>12, <2>1, InsertAfreshType DEF CallerInserts, TypeOK
  <2>3. Probe(CallerTag(r), id, m.deps) \in ProbeRecord
    BY <1>2, <2>1 DEF Probe, ProbeRecord, TaskMeta
  <2>4. callers' \in [Callers -> CallerState] /\ probes' \subseteq ProbeRecord
    <3>1. CASE m.deps # {}
      <4>1. callers' = [callers EXCEPT ![r].pc = "resolve"]
            /\ probes' = probes \cup {Probe(CallerTag(r), id, m.deps)}
        BY <1>12, <3>1 DEF CallerInserts, CallerMoves
      <4>2. callers' \in [Callers -> CallerState]
        BY <2>1, <4>1, CallerMovesType
      <4> QED BY <2>3, <4>1, <4>2 DEF TypeOK
    <3>2. CASE m.deps = {}
      BY <1>8, <1>12, <3>2 DEF CallerInserts, CallerReturns, TypeOK
    <3> QED BY <3>1, <3>2
  <2> QED BY <1>12, <2>2, <2>4 DEF CallerInserts, TypeOK, history
<1>13. CASE CallerResolves(r)
  <2>1. PICK p \in probes : queues' = AfterProbe(p) /\ probes' = probes \ {p}
    BY <1>13 DEF CallerResolves
  <2>2. queues' \in QueueState /\ probes' \subseteq ProbeRecord
    BY <2>1, AfterProbeType DEF TypeOK
  <2>3. callers' \in [Callers -> CallerState]
    BY <1>8, <1>13 DEF CallerResolves, CallerReturns
  <2> QED BY <1>13, <2>2, <2>3 DEF CallerResolves, TypeOK, history
<1> QED BY <1>3, <1>5, <1>6, <1>7, <1>9, <1>10, <1>11, <1>12, <1>13 DEF CallerStep

(* The loader.                                                             *)
LEMMA LoadedMetaType ==
    ASSUME NEW row \in Row
    PROVE  LoadedMeta(row) \in TaskMeta
BY DEF Row, LoadedMeta, TaskMeta

LoaderOK == loader \in LoaderState /\ \A id \in loader.todo : loader.snap[id] # None

LEMMA LoadedRowType ==
    ASSUME LoaderOK, NEW id \in Ids, loader' = LoadedRow(id)
    PROVE  LoaderOK'
<1>1. CASE loader.todo = {id}
  <2>1. loader' = [Unloaded EXCEPT !.pc = "done"]
    BY <1>1 DEF LoadedRow
  <2> QED BY <2>1 DEF LoaderOK, LoaderState, Unloaded, Table
<1>2. CASE loader.todo # {id}
  <2>1. loader' = [loader EXCEPT !.pc = "loop", !.todo = @ \ {id}, !.snap[id] = None]
    BY <1>2 DEF LoadedRow
  <2>2. loader.snap \in Table /\ loader.todo \subseteq Ids
    BY DEF LoaderOK, LoaderState
  <2>3. [loader.snap EXCEPT ![id] = None] \in Table
    BY <2>2 DEF Table
  <2>4. loader' \in LoaderState
    BY <2>1, <2>2, <2>3 DEF LoaderOK, LoaderState
  <2>5. \A o \in loader'.todo : loader'.snap[o] # None
    BY <2>1, <2>2 DEF LoaderOK, LoaderState, Table
  <2> QED BY <2>4, <2>5 DEF LoaderOK
<1> QED BY <1>1, <1>2

LEMMA TypeLoader ==
    ASSUME TypeOK, LoaderStep
    PROVE  TypeOK'
<1>1. LoaderOK
  BY DEF TypeOK, LoaderOK
<1>2. LoaderTag \in Tags
  BY TagTypes
<1>3. CASE LoaderReads
  <2> DEFINE todo == {id \in Ids : Pending(rows, id)}
             snap == [id \in Ids |-> IF id \in todo THEN rows[id] ELSE None]
  <2>1. snap \in Table /\ \A id \in todo : snap[id] # None
    BY DEF TypeOK, Table, Pending
  <2>2. [Unloaded EXCEPT !.pc = "done"] \in LoaderState
        /\ [Unloaded EXCEPT !.pc = "done"].todo = {}
    BY DEF Unloaded, LoaderState, Table
  <2>3. \/ loader' = [Unloaded EXCEPT !.pc = "done"]
        \/ loader' = [pc |-> "loop", todo |-> todo, snap |-> snap]
    BY <1>3 DEF LoaderReads
  <2>4. todo \subseteq Ids
    OBVIOUS
  <2> HIDE DEF todo, snap
  <2>5. LoaderOK'
    BY <2>1, <2>2, <2>3, <2>4 DEF LoaderOK, LoaderState
  <2> QED BY <1>3, <2>5 DEF LoaderReads, LoaderOK, TypeOK, history
<1>4. ASSUME NEW id \in Ids, LoaderSkips(id)
      PROVE  TypeOK'
  <2>1. LoaderOK'
    BY <1>1, <1>4, LoadedRowType DEF LoaderSkips
  <2> QED BY <1>4, <2>1 DEF LoaderSkips, LoaderOK, TypeOK, history
<1>5. ASSUME NEW id \in Ids, LoaderQueues(id)
      PROVE  TypeOK'
  <2> DEFINE m == LoadedMeta(loader.snap[id])
  <2>1. loader.snap[id] \in Row
    BY <1>1, <1>5 DEF LoaderOK, LoaderState, LoaderQueues, Table
  <2>2. m \in TaskMeta
    BY <2>1, LoadedMetaType
  <2>3. queues' \in QueueState /\ probes' \subseteq ProbeRecord
    BY <1>2, <1>5, <2>2, EnqueueType DEF LoaderQueues, TypeOK
  <2>4. LoaderOK'
    <3>1. CASE loader' = LoadedRow(id)
      BY <1>1, <3>1, LoadedRowType
    <3>2. CASE loader' = [loader EXCEPT !.pc = "resolve"]
      BY <1>1, <3>2 DEF LoaderOK, LoaderState
    <3> QED BY <1>5, <3>1, <3>2 DEF LoaderQueues
  <2> QED BY <1>5, <2>3, <2>4 DEF LoaderQueues, LoaderOK, TypeOK, history
<1>6. CASE LoaderResolves
  <2>1. PICK p \in probes : /\ queues' = AfterProbe(p)
                            /\ probes' = probes \ {p}
                            /\ loader' = LoadedRow(p.id)
    BY <1>6 DEF LoaderResolves
  <2>2. queues' \in QueueState /\ probes' \subseteq ProbeRecord /\ p.id \in Ids
    BY <2>1, AfterProbeType DEF TypeOK
  <2>3. LoaderOK'
    BY <1>1, <2>1, <2>2, LoadedRowType
  <2> QED BY <1>6, <2>2, <2>3 DEF LoaderResolves, LoaderOK, TypeOK, history
<1> QED BY <1>3, <1>4, <1>5, <1>6 DEF LoaderStep

(* A restart: every variable but the tables and the history starts again.  *)
LEMMA TypeCrash ==
    ASSUME TypeOK, Crash
    PROVE  TypeOK'
<1>1. queues' \in QueueState
  BY EmptyType DEF Crash
<1>2. bodies' \in [Bodies -> BodyState] /\ callers' \in [Callers -> CallerState]
      /\ fin' \in FinState
  BY DEF Crash, BodyState, CallerState, FinState
<1>3. loader' \in LoaderState /\ loader'.todo = {}
  BY DEF Crash, LoaderState, Unloaded, Table
<1>4. counts' \in CountState
  <2>1. counts' = [counts EXCEPT !.crashes = @ + 1, !.lost = @ \cup Forgotten]
    BY DEF Crash
  <2>2. Forgotten \in SUBSET Ids
    BY DEF Forgotten
  <2> QED BY <2>1, <2>2, CountsType
<1>5. /\ events' \in [Ids -> Nat]
      /\ writes' \in Seq(WriteRecord)
      /\ wres' \in {"busy", "ok", "failed"} /\ wres' # "ok"
      /\ probes' \subseteq ProbeRecord
      /\ owed' \in [Ids -> Params \cup {None}]
  BY DEF Crash, TypeOK
<1> QED BY <1>1, <1>2, <1>3, <1>4, <1>5 DEF Crash, TypeOK

LEMMA TypeStep ==
    ASSUME TypeOK, [Next]_vars
    PROVE  TypeOK'
<1>1. CASE UNCHANGED vars
  BY <1>1 DEF vars, TypeOK
<1>2. CASE Next
  BY <1>2, TypeStore, TypeDispatch, TypeBody, TypeFin, TypeAsks, TypeCaller,
     TypeLoader, TypeCrash DEF Next
<1> QED BY <1>1, <1>2

(* The state of the scheduler keeps its types, whatever is asked of it and *)
(* whenever it restarts.                                                   *)
THEOREM TypeCorrect == Spec => []TypeOK
BY TypeInit, TypeStep, PTL DEF Spec
=============================================================================
