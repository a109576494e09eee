-------------------------- MODULE Lifecycle_proofs --------------------------
(***************************************************************************)
(* The scheduler implements TaskLifecycle, for any number of tasks,        *)
(* callers, requests without a key, faults and restarts, as long as every  *)
(* caller runs on the worker.                                              *)
(*                                                                         *)
(* A step of the scheduler either leaves every attempt that executes       *)
(* executing, and then the tasks that begin to execute are what            *)
(* TaskLifecycle starts; or ends one attempt; or is a write of the store;  *)
(* or is a restart.  That no task executes twice is OneBodyInv, that       *)
(* whatever executes had its dependencies settled is DepsInv, and KeylessInv *)
(* adds that a row is closed as finished only after a run of it ended, and *)
(* that a call without a key never finds a row.                            *)
(***************************************************************************)
EXTENDS OneBody_proofs, Dependencies_proofs, FiniteSetTheorems

Status == [id \in Ids |-> IF rows[id] = None THEN "none" ELSE rows[id].status]
Attempts(bs, id) == {l \in Lanes : Exec(bs, <<id, l>>)}
Active(bs) == [id \in Ids |-> Cardinality(Attempts(bs, id))]

FinishedEnded ==
    \A id \in Ids : rows[id] # None /\ rows[id].status = "F" => id \in ended

NothingFound ==
    \A r \in Callers :
      /\ callers[r].pc \notin {"clear", "update", "refresh"}
      /\ callers[r].pc \in {"found", "create"} => callers[r].id = None

KeylessInv == FinishedEnded /\ NothingFound

LifeInv == OneBodyInv /\ DepsInv /\ KeylessInv

-----------------------------------------------------------------------------
(* Counting attempts.                                                      *)

LEMMA CountOf ==
    ASSUME NEW L, \A k, l \in L : k = l
    PROVE  Cardinality(L) = IF L = {} THEN 0 ELSE 1
<1>1. CASE L = {}
  BY <1>1, FS_EmptySet
<1>2. CASE L # {}
  <2>1. PICK l : l \in L
    BY <1>2
  <2>2. L = {l}
    BY <2>1
  <2> QED BY <1>2, <2>2, FS_Singleton
<1> QED BY <1>1, <1>2

LEMMA ActiveIs ==
    ASSUME NEW bs, NEW R, NEW ev, BodiesSound(bs, R, ev), NEW id \in Ids
    PROVE  Active(bs)[id] = IF \E l \in Lanes : Exec(bs, <<id, l>>) THEN 1 ELSE 0
<1> DEFINE L == Attempts(bs, id)
<1>1. \A k, l \in L : k = l
  BY DEF BodiesSound, Attempts
<1>2. L = {} <=> ~\E l \in Lanes : Exec(bs, <<id, l>>)
  BY DEF Attempts
<1>3. Active(bs)[id] = Cardinality(L)
  BY DEF Active
<1> HIDE DEF L
<1> QED BY <1>1, <1>2, <1>3, CountOf

LEMMA ActiveKept ==
    ASSUME NEW bs, NEW bs2, NEW id \in Ids,
           \A l \in Lanes : Exec(bs2, <<id, l>>) <=> Exec(bs, <<id, l>>)
    PROVE  Active(bs2)[id] = Active(bs)[id]
<1>1. Attempts(bs2, id) = Attempts(bs, id)
  BY DEF Attempts
<1> QED BY <1>1 DEF Active

-----------------------------------------------------------------------------
(* Steps that end no attempt, and steps that end one.                      *)

Quiet == UNCHANGED <<rows, asked, ended>>

LEMMA MapsSame ==
    ASSUME UNCHANGED <<rows, asked>>
    PROVE  Status' = Status /\ Needs' = Needs
BY DEF Status, Needs

LEMMA GrowMaps ==
    ASSUME LifeInv, OneBodyInv', DepsInv', Quiet,
           \A b \in Bodies : Exec(bodies, b) => Exec(bodies', b)
    PROVE  Lifecycle!Next
<1> DEFINE S == {id \in Ids : Active(bodies)[id] = 0 /\ Active(bodies')[id] = 1}
<1>1. /\ BodiesSound(bodies, RunningIds(queues), events)
      /\ BodiesSound(bodies', RunningIds(queues'), events')
  BY DEF LifeInv, OneBodyInv, Sound
<1>2. ASSUME NEW id \in Ids
      PROVE  /\ Active(bodies)[id] = IF \E l \in Lanes : Exec(bodies, <<id, l>>)
                                       THEN 1 ELSE 0
             /\ Active(bodies')[id] = IF \E l \in Lanes : Exec(bodies', <<id, l>>)
                                        THEN 1 ELSE 0
  BY <1>1, ActiveIs
<1>3. \A id \in Ids : Active(bodies)[id] = 1 => Active(bodies')[id] = 1
  BY <1>2 DEF Bodies
<1>4. Active(bodies') = [id \in Ids |-> IF id \in S THEN 1 ELSE Active(bodies)[id]]
  <2>1. ASSUME NEW id \in Ids
        PROVE  Active(bodies')[id] = IF id \in S THEN 1 ELSE Active(bodies)[id]
    BY <1>2, <1>3
  <2>2. Active(bodies') = [id \in Ids |-> Active(bodies')[id]]
    BY DEF Active
  <2> HIDE DEF S
  <2> QED BY <2>1, <2>2
<1>5. Known' = Known
  BY KnownSame DEF Quiet
<1>6. ASSUME NEW id \in S
      PROVE  /\ id \in Known.stored /\ Known.needs[id] \subseteq Known.settled
             /\ Active(bodies)[id] = 0
  <2>1. PICK l \in Lanes : Exec(bodies', <<id, l>>)
    BY <1>2
  <2>2. IsRunning(queues', id)
    BY <1>1, <2>1 DEF BodiesSound, RunningIds
  <2>3. QueuesFit(queues', Known)
    BY <1>5 DEF DepsInv
  <2>4. Startable(queues'.run[id], id, Known)
    BY <2>2, <2>3 DEF QueuesFit
  <2> QED BY <2>4 DEF Startable
<1>7. ASSUME NEW id \in S
      PROVE  /\ Status[id] # "none" /\ Active(bodies)[id] = 0
             /\ \A d \in Needs[id] : d \in ended \/ Status[d] = "E"
  <2>1. rows[id] # None
    BY <1>6 DEF Known
  <2>2. Status[id] # "none"
    <3>1. rows[id] \in Row
      BY <2>1 DEF LifeInv, OneBodyInv, TypeOK, Table
    <3> QED BY <2>1, <3>1 DEF Status, Row, Statuses
  <2>3. ASSUME NEW d \in Needs[id]
        PROVE  d \in ended \/ Status[d] = "E"
    <3>1. d \in Ids /\ Settled(d)
      BY <1>6 DEF Known
    <3>2. CASE d \in ended
      BY <3>2
    <3>3. CASE rows[d] # None /\ rows[d].status # "P"
      <4>1. rows[d].status \in {"F", "E"}
        BY <3>1, <3>3 DEF LifeInv, OneBodyInv, TypeOK, Table, Row, Statuses
      <4> QED BY <3>1, <3>3, <4>1 DEF Status, LifeInv, KeylessInv, FinishedEnded
    <3> QED BY <3>1, <3>2, <3>3 DEF Settled
  <2> QED BY <1>6, <2>2, <2>3
<1>8. Status' = Status /\ Needs' = Needs /\ ended' = ended
  BY MapsSame DEF Quiet
<1>9. S \in SUBSET Ids
  OBVIOUS
<1> HIDE DEF S
<1>10. Lifecycle!Start(S)
  BY <1>4, <1>7, <1>8 DEF Lifecycle!Start, Status, Needs, Active, Attempts, Exec, Executing
<1> QED BY <1>9, <1>10 DEF Lifecycle!Next

LEMMA StopMaps ==
    ASSUME LifeInv, OneBodyInv', UNCHANGED <<rows, asked>>, NEW b \in Bodies,
           Exec(bodies, b), ~Exec(bodies', b),
           \A c \in Bodies \ {b} : bodies'[c] = bodies[c],
           NEW forGood \in BOOLEAN,
           ended' = IF forGood THEN ended \cup {b[1]} ELSE ended
    PROVE  Lifecycle!Next
<1> DEFINE id == b[1]
<1>1. /\ BodiesSound(bodies, RunningIds(queues), events)
      /\ BodiesSound(bodies', RunningIds(queues'), events')
  BY DEF LifeInv, OneBodyInv, Sound
<1>2. id \in Ids /\ b[2] \in Lanes /\ b = <<id, b[2]>>
  BY BodiesType
<1>3. Active(bodies)[id] = 1
  BY <1>1, <1>2, ActiveIs
<1>4. \A l \in Lanes : ~Exec(bodies', <<id, l>>)
  <2>1. SUFFICES ASSUME NEW l \in Lanes, l # b[2] PROVE ~Exec(bodies', <<id, l>>)
    BY <1>2
  <2>2. <<id, l>> \in Bodies \ {b}
    BY <1>2, <2>1 DEF Bodies
  <2>3. ~Exec(bodies, <<id, l>>)
    BY <1>1, <1>2, <2>1 DEF BodiesSound
  <2> QED BY <2>2, <2>3 DEF Exec
<1>5. Active(bodies')[id] = 0
  BY <1>1, <1>2, <1>4, ActiveIs
<1>6. ASSUME NEW o \in Ids, o # id
      PROVE  Active(bodies')[o] = Active(bodies)[o]
  <2>1. \A l \in Lanes : <<o, l>> \in Bodies \ {b}
    BY <1>2, <1>6 DEF Bodies
  <2>2. \A l \in Lanes : Exec(bodies', <<o, l>>) <=> Exec(bodies, <<o, l>>)
    BY <2>1 DEF Exec
  <2> QED BY <2>2, ActiveKept
<1>7. Active(bodies') = [Active(bodies) EXCEPT ![id] = 0]
  <2>1. Active(bodies') = [o \in Ids |-> Active(bodies')[o]]
        /\ Active(bodies) = [o \in Ids |-> Active(bodies)[o]]
    BY DEF Active
  <2> QED BY <1>2, <1>5, <1>6, <2>1
<1>8. Status' = Status /\ Needs' = Needs
  BY MapsSame
<1>9. Lifecycle!Stop(id, forGood)
  BY <1>3, <1>7, <1>8 DEF Lifecycle!Stop, Status, Needs, Active, Attempts, Exec, Executing
<1> QED BY <1>2, <1>9 DEF Lifecycle!Next

-----------------------------------------------------------------------------
(* The store.                                                              *)

(* A write that fails a row is the one its executing body awaits.          *)
LEMMA FailsExecuting ==
    ASSUME LifeInv, NEW w, w.op = "fail", Owned(w, callers, bodies, fin)
    PROVE  w.id \in Ids /\ Active(bodies)[w.id] = 1
<1>1. PICK b \in Bodies : w.id = b[1] /\ bodies[b].pc = "failing"
  BY DEF Owned, CallerOwns, BodyOwns, FinOwns
<1>2. b[1] \in Ids /\ b[2] \in Lanes /\ b = <<b[1], b[2]>> /\ Exec(bodies, b)
  BY <1>1, BodiesType DEF Exec
<1>3. BodiesSound(bodies, RunningIds(queues), events)
  BY DEF LifeInv, OneBodyInv, Sound
<1> QED BY <1>1, <1>2, <1>3, ActiveIs

LEMMA EffectMaps ==
    ASSUME LifeInv, WriteEffect
    PROVE  FinishedEnded' /\ [Lifecycle!Next]_(Lifecycle!vars)
<1>1. PICK w \in WriteRecord :
             /\ w.id \in Ids /\ rows' = Effect(w) /\ writes' = [writes EXCEPT ![1] = w]
             /\ w.op = Head(writes).op /\ w.who = Head(writes).who
             /\ w.meta = Head(writes).meta
             /\ Sane(w.meta, Known)
             /\ IF w.op = "create"
                  THEN /\ rows[w.id] = None
                       /\ asked' = [asked EXCEPT ![w.id] =
                                 [deps |-> w.meta.deps, retry |-> w.meta.retry]]
                  ELSE /\ w = Head(writes) /\ WriteFits(w, Known, ended)
                       /\ asked' = asked
  BY EffectHead DEF LifeInv, OneBodyInv
<1>2. UNCHANGED <<bodies, ended>>
  BY DEF WriteEffect
<1>3. TypeOK /\ DepsInv /\ FinishedEnded
  BY DEF LifeInv, OneBodyInv, KeylessInv
<1>4. CASE w.op = "create"
  <2> DEFINE id == w.id
    <2>1. rows' = CreateTask(rows, id, w.key, w.meta)
    BY <1>1, <1>4 DEF Effect
  <2>2. /\ \A o \in Ids \ {id} : rows'[o] = rows[o] /\ asked'[o] = asked[o]
        /\ rows'[id] # None /\ rows'[id].status = "P" /\ rows[id] = None
    <3>1. /\ \A o \in Ids \ {id} : rows'[o] = rows[o]
          /\ rows'[id] # None /\ rows'[id].status = "P"
      BY <1>1, <1>2, <1>3, <1>4, <2>1, CreateKnown
    <3>2. \A o \in Ids \ {id} : asked'[o] = asked[o]
      BY <1>1, <1>3, <1>4 DEF TypeOK
    <3> QED BY <1>1, <1>4, <3>1, <3>2
  <2>3. FinishedEnded'
    BY <1>2, <1>3, <2>2 DEF FinishedEnded
  <2>4. Status' = [Status EXCEPT ![id] = "P"] /\ Status[id] = "none"
    BY <1>1, <2>2 DEF Status
  <2>5. asked'[id] = [deps |-> w.meta.deps, retry |-> w.meta.retry]
        /\ w.meta.deps \in SUBSET Ids
    BY <1>1, <1>3, <1>4 DEF TypeOK, WriteRecord, TaskMeta
  <2>6. PICK deps \in SUBSET Ids : deps = Needs'[id]
    <3>1. Needs'[id] \in SUBSET Ids
      BY <1>1, <2>5 DEF Needs
    <3> QED BY <3>1
  <2>7. \A o \in Ids \ {id} : Needs'[o] = Needs[o]
    BY <2>2 DEF Needs
  <2>8. Needs' = [Needs EXCEPT ![id] = deps]
    <3>1. Needs' = [o \in Ids |-> Needs'[o]] /\ Needs = [o \in Ids |-> Needs[o]]
      BY DEF Needs
    <3> QED BY <1>1, <2>6, <2>7, <3>1
  <2>9. Lifecycle!Create(id, deps)
    BY <1>2, <2>4, <2>8 DEF Lifecycle!Create, Status, Needs, Executing
  <2>10. Lifecycle!Next
    BY <1>1, <2>9 DEF Lifecycle!Next
  <2> QED BY <2>3, <2>10
<1>5. CASE w.op # "create"
  <2>1. WriteFits(w, Known, ended) /\ w = Head(writes) /\ asked' = asked
    BY <1>1, <1>5
  <2>2. /\ Known'.stored = Known.stored
        /\ \A o \in Known.stored :
             \/ rows'[o].status = rows[o].status
             \/ /\ rows[o].status = "P" /\ o = w.id
                /\ \/ w.op = "finish" /\ rows'[o].status = "F"
                   \/ w.op = "fail" /\ rows'[o].status = "E"
    BY <1>1, <1>2, <1>3, <1>5, <2>1, EffectKnown
  <2>3. \A o \in Ids : (rows'[o] = None <=> rows[o] = None)
    BY <2>2 DEF Known
  <2>4. w.op = "finish" => w.id \in ended
    BY <2>1 DEF WriteFits
  <2>5. w.op = "fail" => Active(bodies)[w.id] = 1
    <3>1. writes # <<>> /\ WritesFit(writes, Known, ended, callers, bodies, fin)
          /\ writes \in Seq(WriteRecord)
      BY <1>3 DEF WriteEffect, DepsInv, TypeOK
    <3>2. Owned(w, callers, bodies, fin)
      BY <2>1, <3>1, UnderWayReturn DEF WritesFit
    <3> QED BY <3>2, FailsExecuting
  <2>6. FinishedEnded'
    BY <1>2, <1>3, <2>2, <2>3, <2>4 DEF FinishedEnded, Known
  <2>7. \A o \in Ids : o # w.id => Status'[o] = Status[o]
    BY <2>2, <2>3 DEF Status, Known
  <2>8. \/ Status'[w.id] = Status[w.id]
        \/ Status[w.id] = "P" /\ w.op = "finish" /\ Status'[w.id] = "F"
        \/ Status[w.id] = "P" /\ w.op = "fail" /\ Status'[w.id] = "E"
    BY <1>1, <2>2, <2>3 DEF Status, Known
  <2>9. Status' = [o \in Ids |-> Status'[o]] /\ Status = [o \in Ids |-> Status[o]]
    BY DEF Status
  <2>10. Needs' = Needs
    BY <2>1 DEF Needs
  <2>11. CASE Status'[w.id] = Status[w.id]
    <3>1. Status' = Status
      BY <2>7, <2>9, <2>11
    <3> QED BY <1>2, <2>6, <2>10, <3>1 DEF Lifecycle!vars, Status, Needs, Executing
  <2>12. CASE Status[w.id] = "P" /\ w.op = "finish" /\ Status'[w.id] = "F"
    <3>1. Status' = [Status EXCEPT ![w.id] = "F"]
      BY <1>1, <2>7, <2>9, <2>12
    <3>2. Lifecycle!Finish(w.id)
      BY <1>2, <2>4, <2>10, <2>12, <3>1
         DEF Lifecycle!Finish, Status, Needs, Executing
    <3> QED BY <1>1, <2>6, <3>2 DEF Lifecycle!Next
  <2>13. CASE Status[w.id] = "P" /\ w.op = "fail" /\ Status'[w.id] = "E"
    <3>1. Status' = [Status EXCEPT ![w.id] = "E"]
      BY <1>1, <2>7, <2>9, <2>13
    <3>2. Lifecycle!Fail(w.id)
      BY <1>2, <2>5, <2>10, <2>13, <3>1
         DEF Lifecycle!Fail, Status, Needs, Active, Attempts, Exec, Executing
    <3> QED BY <1>1, <2>6, <3>2 DEF Lifecycle!Next
  <2> QED BY <2>8, <2>11, <2>12, <2>13
<1> QED BY <1>4, <1>5

-----------------------------------------------------------------------------
(* The futures.                                                            *)

LEMMA SpawnKeeps ==
    ASSUME NEW S, NEW meta, Spawn(S, meta)
    PROVE  \A b \in Bodies : Exec(bodies, b) => Exec(bodies', b)
<1>1. SUFFICES ASSUME NEW b \in Bodies, Exec(bodies, b) PROVE Exec(bodies', b)
  OBVIOUS
<1>2. b[1] \in Ids /\ b[2] \in Lanes /\ b = <<b[1], b[2]>>
  BY BodiesType
<1>3. bodies'[b] = IF b[1] \in S /\ b[2] = CHOOSE l \in FreeLanes(b[1]) : TRUE
                     THEN [pc |-> "run", meta |-> meta[b[1]], perm |-> FALSE]
                     ELSE bodies[b]
  BY DEF Spawn
<1> QED BY <1>1, <1>3 DEF Exec

LEMMA ReleaseKeeps ==
    ASSUME NEW qs, NEW id, Release(qs, id)
    PROVE  \A b \in Bodies : Exec(bodies, b) => Exec(bodies', b)
BY SpawnKeeps DEF Release

LEMMA FinKeeps ==
    ASSUME FinStep
    PROVE  /\ Quiet /\ UNCHANGED callers
           /\ \A b \in Bodies : Exec(bodies, b) => Exec(bodies', b)
<1>1. Quiet /\ UNCHANGED callers
  BY DEF FinStep, FinNotFound, FinReruns, FinStores, FinCronStored, FinResolves,
         FinRowStamped, FinFinished, Quiet, history
<1>2. UNCHANGED bodies \/ \E qs, id : Release(qs, id)
  BY DEF FinStep, FinNotFound, FinReruns, FinStores, FinCronStored, FinResolves,
         FinRowStamped, FinFinished
<1>3. UNCHANGED bodies => \A b \in Bodies : Exec(bodies, b) => Exec(bodies', b)
  BY DEF Exec
<1> QED BY <1>1, <1>2, <1>3, ReleaseKeeps

LEMMA BodyMaps ==
    ASSUME LifeInv, OneBodyInv', DepsInv', NEW b \in Bodies, BodyStep(b)
    PROVE  /\ UNCHANGED <<rows, callers>> /\ ended \subseteq ended'
           /\ Lifecycle!Next
<1>1. bodies \in [Bodies -> BodyState] /\ b[1] \in Ids
  BY BodiesType DEF LifeInv, OneBodyInv, TypeOK
<1>2. UNCHANGED <<rows, callers, asked>>
  BY DEF BodyStep, BodySucceeds, BodyFails, BodyErrorStored, BodyRetries, BodyResolves,
         BodyGivesUp, history
<1>3. CASE BodySucceeds(b) \/ BodyGivesUp(b)
  <2>1. /\ Exec(bodies, b) /\ ~Exec(bodies', b) /\ ended' = ended \cup {b[1]}
        /\ \A c \in Bodies \ {b} : bodies'[c] = bodies[c]
    BY <1>1, <1>3 DEF BodySucceeds, BodyGivesUp, Body, Exec, NoBody
  <2>2. ended' = IF TRUE THEN ended \cup {b[1]} ELSE ended
    BY <2>1
  <2> QED BY <1>2, <2>1, <2>2, StopMaps
<1>4. CASE BodyRetries(b)
  <2>1. /\ Exec(bodies, b) /\ ~Exec(bodies', b) /\ ended' = ended
        /\ \A c \in Bodies \ {b} : bodies'[c] = bodies[c]
    BY <1>1, <1>4 DEF BodyRetries, Body, Exec, NoBody, history
  <2>2. ended' = IF FALSE THEN ended \cup {b[1]} ELSE ended
    BY <2>1
  <2> QED BY <1>2, <2>1, <2>2, StopMaps
<1>5. CASE (\E perm \in BOOLEAN : BodyFails(b, perm)) \/ BodyErrorStored(b)
             \/ BodyResolves(b)
  <2>1. ended' = ended
    BY <1>5 DEF BodyFails, BodyErrorStored, BodyResolves, history
  <2>2. \A c \in Bodies : Exec(bodies, c) => Exec(bodies', c)
    <3>1. ASSUME NEW perm \in BOOLEAN, BodyFails(b, perm)
          PROVE  \A c \in Bodies : Exec(bodies, c) => Exec(bodies', c)
      <4>1. bodies[b] \in [pc : {"run", "retrying", "retryHook", "failing", "failHook",
                             "resolve"}, meta : TaskMeta, perm : BOOLEAN]
        BY <1>1, <3>1 DEF BodyFails, Body, BodyState, NoBody
      <4>2. Exec(bodies', b) /\ \A c \in Bodies : c # b => bodies'[c] = bodies[c]
        BY <1>1, <3>1, <4>1 DEF BodyFails, Exec
      <4> QED BY <4>2 DEF Exec
    <3>2. CASE BodyErrorStored(b)
      <4>1. bodies[b] \in [pc : {"run", "retrying", "retryHook", "failing", "failHook",
                             "resolve"}, meta : TaskMeta, perm : BOOLEAN]
        BY <1>1, <3>2 DEF BodyErrorStored, Body, BodyState, NoBody
      <4>2. Exec(bodies', b) /\ \A c \in Bodies : c # b => bodies'[c] = bodies[c]
        BY <1>1, <3>2, <4>1 DEF BodyErrorStored, Body, Move, Exec
      <4> QED BY <4>2 DEF Exec
    <3>3. CASE BodyResolves(b)
      <4>1. ~Exec(bodies, b) /\ \A c \in Bodies : c # b => bodies'[c] = bodies[c]
        BY <1>1, <3>3 DEF BodyResolves, Body, Exec
      <4> QED BY <4>1 DEF Exec
    <3> QED BY <1>5, <3>1, <3>2, <3>3
  <2> QED BY <1>2, <2>1, <2>2, GrowMaps DEF Quiet
<1> QED BY <1>2, <1>3, <1>4, <1>5 DEF BodyStep, BodySucceeds, BodyGivesUp, BodyRetries,
                                      BodyFails, BodyErrorStored, BodyResolves, history

(* A call without a key finds no row: it creates one and queues its task.  *)
LEMMA CallerKeeps ==
    ASSUME MainCallers = {}, TypeOK, OnlyWorker, NothingFound, NEW r \in Callers,
           CallerStep(r)
    PROVE  /\ Quiet /\ UNCHANGED bodies /\ NothingFound'
<1>1. callers[r].pc \notin {"clear", "update", "refresh", "insert"}
      /\ ~(Caller(r, "found") /\ callers[r].id # None)
  BY DEF NothingFound, OnlyWorker, Caller
<1>2. \/ CallerCreates(r) \/ CallerFails(r) \/ CallerStoresCron(r)
      \/ CallerQueues(r) \/ CallerResolves(r)
  BY <1>1 DEF CallerStep, CallerFindsRunning, CallerFindsIdle, CallerClears,
              CallerRefreshed, CallerInserts, Caller
<1>3. Quiet /\ UNCHANGED bodies
  BY <1>2 DEF CallerCreates, CallerFails, CallerStoresCron, CallerQueues,
              CallerResolves, Quiet, history
<1>4. ASSUME callers'[r].pc \notin {"clear", "update", "refresh"},
             callers'[r].pc \in {"found", "create"} => callers'[r].id = None,
             \A o \in Callers : o # r => callers'[o] = callers[o]
      PROVE  NothingFound'
  BY <1>4 DEF NothingFound
<1>5. CASE CallerCreates(r)
  <2>1. /\ callers[r].pc = "found" /\ callers[r].id = None
        /\ callers' = [callers EXCEPT ![r].pc = "create"]
    BY <1>5 DEF CallerCreates, Caller, CallerMoves
  <2>2. /\ callers'[r].pc = "create" /\ callers'[r].id = None
        /\ \A o \in Callers : o # r => callers'[o] = callers[o]
    BY <2>1, CallerMoved
  <2> QED BY <1>3, <1>4, <2>2
<1>6. CASE CallerStoresCron(r)
  <2> DEFINE id == Head(writes).id
  <2>1. /\ callers[r].pc = "create"
        /\ callers' = [callers EXCEPT ![r].pc = "setcron", ![r].id = id]
    BY <1>6 DEF CallerStoresCron, StoresCron, Caller
  <2> HIDE DEF id
  <2>2. /\ callers'[r].pc = "setcron"
        /\ \A o \in Callers : o # r => callers'[o] = callers[o]
    BY <2>1, CallerMovedTo
  <2> QED BY <1>3, <1>4, <2>2
<1>7. ASSUME CallerReturns(r)
      PROVE  NothingFound'
  <2>1. callers'[r].pc = "idle" /\ \A o \in Callers : o # r => callers'[o] = callers[o]
    BY <1>7 DEF CallerReturns, Idle, TypeOK
  <2> QED BY <1>4, <2>1
<1>8. CASE CallerQueues(r)
  <2> DEFINE id == Head(writes).id
  <2>1. callers[r].pc \in {"create", "setcron", "update"}
        /\ \/ callers' = [callers EXCEPT ![r].pc = "insert", ![r].id = id]
           \/ callers' = [callers EXCEPT ![r].pc = "resolve", ![r].id = id]
           \/ CallerReturns(r)
    BY <1>8 DEF CallerQueues, CallerReturns
  <2> HIDE DEF id
  <2>2. ASSUME NEW pc \in {"insert", "resolve"},
               callers' = [callers EXCEPT ![r].pc = pc, ![r].id = id]
        PROVE  NothingFound'
    <3>1. /\ callers'[r].pc = pc
          /\ \A o \in Callers : o # r => callers'[o] = callers[o]
      BY <2>1, <2>2, CallerMovedTo
    <3> QED BY <1>4, <3>1
  <2> QED BY <1>3, <1>7, <2>1, <2>2
<1> QED BY <1>2, <1>3, <1>5, <1>6, <1>7, <1>8 DEF CallerFails, CallerResolves

LEMMA AskKeeps ==
    ASSUME \A rq \in Requests : rq.key = None, TypeOK, NothingFound,
           NEW r \in Callers, NEW rq \in Requests, CallerAsks(r, rq)
    PROVE  /\ Quiet /\ UNCHANGED bodies /\ NothingFound'
<1>1. Answers(FindByKey(rows, rq.key)) = {None}
  BY DEF FindByKey, Answers
<1>2. PICK next : callers' = [callers EXCEPT ![r] =
               [pc |-> "found", key |-> rq.key, id |-> None, changed |-> FALSE,
                meta |-> MetaOf(rq, next)]]
  BY <1>1 DEF CallerAsks
<1>3. callers'[r].pc = "found" /\ callers'[r].id = None
      /\ \A o \in Callers : o # r => callers'[o] = callers[o]
  BY <1>2 DEF TypeOK
<1>4. Quiet /\ UNCHANGED bodies
  BY DEF CallerAsks, Quiet, history
<1> QED BY <1>3, <1>4 DEF NothingFound

LEMMA CrashMaps ==
    ASSUME Crash
    PROVE  /\ UNCHANGED <<rows, ended>> /\ NothingFound' /\ Lifecycle!Next
<1>1. UNCHANGED <<rows, asked, ended>> /\ bodies' = [b \in Bodies |-> NoBody]
      /\ callers' = [r \in Callers |-> Idle]
  BY DEF Crash
<1>2. \A id \in Ids : Attempts(bodies', id) = {}
  BY <1>1 DEF Attempts, Exec, Bodies, NoBody
<1>3. Active(bodies') = [id \in Ids |-> 0]
  BY <1>2, FS_EmptySet DEF Active
<1>4. Lifecycle!Restart
  BY <1>1, <1>3, MapsSame
     DEF Lifecycle!Restart, Status, Needs, Active, Attempts, Exec, Executing
<1>5. NothingFound'
  BY <1>1 DEF NothingFound, Idle
<1> QED BY <1>1, <1>4, <1>5 DEF Lifecycle!Next

-----------------------------------------------------------------------------
(* The refinement.                                                         *)

LEMMA LifeInit ==
    ASSUME Init
    PROVE  KeylessInv /\ Lifecycle!Init
<1>1. /\ rows = [id \in Ids |-> None] /\ bodies = [b \in Bodies |-> NoBody]
      /\ callers = [r \in Callers |-> Idle] /\ asked = [id \in Ids |-> None]
      /\ ended = {}
  BY DEF Init
<1>2. \A id \in Ids : Attempts(bodies, id) = {}
  BY <1>1 DEF Attempts, Exec, Bodies, NoBody
<1>3. Active(bodies) = [id \in Ids |-> 0]
  BY <1>2, FS_EmptySet DEF Active
<1>4. Lifecycle!Init
  BY <1>1, <1>3 DEF Lifecycle!Init, Active, Attempts, Exec, Executing
<1>5. KeylessInv
  BY <1>1 DEF KeylessInv, FinishedEnded, NothingFound, Idle
<1> QED BY <1>4, <1>5

LEMMA LifeStep ==
    ASSUME MainCallers = {}, \A rq \in Requests : rq.key = None,
           LifeInv, OneBodyInv', DepsInv', [Next]_vars
    PROVE  KeylessInv' /\ [Lifecycle!Next]_(Lifecycle!vars)
<1>1. TypeOK /\ OnlyWorker /\ FinishedEnded /\ NothingFound
  BY DEF LifeInv, OneBodyInv, KeylessInv
<1>2. ASSUME Quiet, \A b \in Bodies : Exec(bodies, b) => Exec(bodies', b), NothingFound'
      PROVE  KeylessInv' /\ [Lifecycle!Next]_(Lifecycle!vars)
  <2>1. Lifecycle!Next
    BY <1>2, GrowMaps
  <2>2. KeylessInv'
    BY <1>1, <1>2 DEF KeylessInv, FinishedEnded, Quiet
  <2> QED BY <2>1, <2>2
<1>3. UNCHANGED bodies => \A b \in Bodies : Exec(bodies, b) => Exec(bodies', b)
  BY DEF Exec
<1>4. UNCHANGED callers => NothingFound'
  BY <1>1 DEF NothingFound
<1>5. CASE UNCHANGED vars
  BY <1>2, <1>3, <1>4, <1>5 DEF vars, Quiet
<1>6. CASE StoreStep
  <2>1. CASE WriteEffect
    <3>1. UNCHANGED callers
      BY <2>1 DEF WriteEffect
    <3> QED BY <1>4, <2>1, <3>1, EffectMaps DEF KeylessInv
  <2>2. CASE WriteFails \/ \E p \in probes : ProbeAnswered(p)
    <3>1. Quiet /\ UNCHANGED <<bodies, callers>>
      BY <2>2 DEF WriteFails, ProbeAnswered, Quiet, history
    <3> QED BY <1>2, <1>3, <1>4, <3>1
  <2> QED BY <1>6, <2>1, <2>2 DEF StoreStep
<1>7. ASSUME NEW s \in Slots, NEW id \in Ids, Dispatch(s, id)
      PROVE  KeylessInv' /\ [Lifecycle!Next]_(Lifecycle!vars)
  <2>1. Quiet /\ UNCHANGED callers /\ \E S, meta : Spawn(S, meta)
    BY <1>7 DEF Dispatch, Quiet
  <2> QED BY <1>2, <1>4, <2>1, SpawnKeeps
<1>8. ASSUME NEW b \in Bodies, BodyStep(b)
      PROVE  KeylessInv' /\ [Lifecycle!Next]_(Lifecycle!vars)
  <2>1. UNCHANGED <<rows, callers>> /\ ended \subseteq ended' /\ Lifecycle!Next
    BY <1>8, BodyMaps
  <2>2. KeylessInv'
    BY <1>1, <1>4, <2>1 DEF KeylessInv, FinishedEnded
  <2> QED BY <2>1, <2>2
<1>9. CASE FinStep
  BY <1>2, <1>4, <1>9, FinKeeps
<1>10. ASSUME NEW r \in Callers, NEW rq \in Requests, CallerAsks(r, rq)
       PROVE  KeylessInv' /\ [Lifecycle!Next]_(Lifecycle!vars)
  BY <1>1, <1>2, <1>3, <1>10, AskKeeps
<1>11. ASSUME NEW r \in Callers, CallerStep(r)
       PROVE  KeylessInv' /\ [Lifecycle!Next]_(Lifecycle!vars)
  BY <1>1, <1>2, <1>3, <1>11, CallerKeeps
<1>12. CASE LoaderStep
  <2>1. Quiet /\ UNCHANGED <<bodies, callers>>
    BY <1>12 DEF LoaderStep, LoaderReads, LoaderSkips, LoaderQueues, LoaderResolves,
                 Quiet, history
  <2> QED BY <1>2, <1>3, <1>4, <2>1
<1>13. CASE Crash
  <2>1. UNCHANGED <<rows, ended>> /\ NothingFound' /\ Lifecycle!Next
    BY <1>13, CrashMaps
  <2>2. KeylessInv'
    BY <1>1, <2>1 DEF KeylessInv, FinishedEnded
  <2> QED BY <2>1, <2>2
<1> QED BY <1>5, <1>6, <1>7, <1>8, <1>9, <1>10, <1>11, <1>12, <1>13 DEF Next

(* The scheduler implements the task lifecycle: each of its steps, those   *)
(* of callers, dispatcher, futures, store, loader and restarts, is a step  *)
(* of TaskLifecycle under the mapping of SchedulerProperties, or leaves    *)
(* what the mapping sees as it was.                                        *)
THEOREM LifecycleImplemented ==
    ASSUME MainCallers = {}, \A rq \in Requests : rq.key = None
    PROVE  Spec => ImplementsLifecycle
<1>1. Spec => []OneBodyInv
  BY OneBodyInvHolds
<1>2. Init => KeylessInv /\ Lifecycle!Init
  BY LifeInit
<1>3. /\ KeylessInv /\ OneBodyInv /\ OneBodyInv'
      /\ (TypeOK /\ DepsInv) /\ (TypeOK /\ DepsInv)' /\ [Next]_vars
      => KeylessInv' /\ [Lifecycle!Next]_(Lifecycle!vars)
  BY LifeStep DEF LifeInv
<1> QED BY <1>1, <1>2, <1>3, DepsHolds, PTL
        DEF Spec, ImplementsLifecycle, Lifecycle!Spec
=============================================================================
