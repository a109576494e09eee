--------------------------- MODULE OneBody_proofs ---------------------------
(***************************************************************************)
(* No task has two bodies executing and no task is in two queues, for      *)
(* every value of the constants as long as every caller runs on the worker *)
(* (MainCallers = {}).                                                     *)
(*                                                                         *)
(* OneBody is not inductive alone: the dispatcher would start a second     *)
(* body for a task that is both running and scheduled.  Together with the  *)
(* exclusiveness of the queues, and with the callers never between the two *)
(* locks of a main-thread call, it is.                                     *)
(***************************************************************************)
EXTENDS Scheduler_proofs

(* OneBody over bodies bs, the set R of running ids and events ev.         *)
Exec(bs, b) ==
    bs[b].pc \in {"run", "retrying", "retryHook", "failing", "failHook"}

BodiesSound(bs, R, ev) ==
    \A id \in Ids :
      /\ \A l1, l2 \in Lanes : Exec(bs, <<id, l1>>) /\ Exec(bs, <<id, l2>>) => l1 = l2
      /\ \A l \in Lanes : Exec(bs, <<id, l>>) => id \in R /\ ev[id] = 0
      /\ ev[id] <= 1
      /\ ev[id] > 0 => id \in R

Sound(qs, bs, ev) == AllExclusive(qs) /\ BodiesSound(bs, RunningIds(qs), ev)

OnlyWorker == \A r \in Callers : callers[r].pc \notin {"clear", "insert"}

OneBodyInv == TypeOK /\ Sound(queues, bodies, events) /\ OnlyWorker

Events == [Ids -> Nat]

-----------------------------------------------------------------------------
(* What one step does to the bodies.                                       *)

(* No body starts.                                                         *)
LEMMA QuietSound ==
    ASSUME NEW bs, NEW bs2, NEW R, NEW ev, BodiesSound(bs, R, ev),
           \A b \in Bodies : Exec(bs2, b) => Exec(bs, b)
    PROVE  BodiesSound(bs2, R, ev)
<1>1. \A id \in Ids, l \in Lanes : Exec(bs2, <<id, l>>) => Exec(bs, <<id, l>>)
  BY DEF Bodies
<1> QED BY <1>1 DEF BodiesSound

(* Bodies start, for ids that were not running.                            *)
LEMMA SpawnSound ==
    ASSUME bodies \in [Bodies -> BodyState], NEW R, NEW ev \in Events,
           BodiesSound(bodies, R, ev),
           NEW S \in SUBSET Ids, S \cap R = {}, NEW meta, Spawn(S, meta)
    PROVE  BodiesSound(bodies', R \cup S, ev)
<1>1. \A id \in Ids, l \in Lanes : <<id, l>> \in Bodies
  BY DEF Bodies
<1>2. \A id \in Ids \ S, l \in Lanes : bodies'[<<id, l>>] = bodies[<<id, l>>]
  BY <1>1 DEF Spawn
<1>3. ASSUME NEW id \in S, NEW l \in Lanes, Exec(bodies', <<id, l>>)
      PROVE  l = CHOOSE f \in FreeLanes(id) : TRUE
  <2>1. ~Exec(bodies, <<id, l>>)
    BY DEF BodiesSound
  <2>2. l # (CHOOSE f \in FreeLanes(id) : TRUE)
          => bodies'[<<id, l>>] = bodies[<<id, l>>]
    BY <1>1 DEF Spawn
  <2> QED BY <1>3, <2>1, <2>2 DEF Exec
<1>4. \A id \in S : ev[id] = 0
  BY DEF BodiesSound, Events
<1>5. ASSUME NEW id \in Ids
      PROVE  /\ \A l1, l2 \in Lanes :
                  Exec(bodies', <<id, l1>>) /\ Exec(bodies', <<id, l2>>) => l1 = l2
             /\ \A l \in Lanes : Exec(bodies', <<id, l>>) => id \in R \cup S /\ ev[id] = 0
             /\ ev[id] <= 1
             /\ ev[id] > 0 => id \in R \cup S
  <2>1. CASE id \in S
    <3>1. \A l1, l2 \in Lanes :
            Exec(bodies', <<id, l1>>) /\ Exec(bodies', <<id, l2>>) => l1 = l2
      BY <1>3, <2>1, Zenon
    <3> QED BY <1>4, <2>1, <3>1
  <2>2. CASE id \notin S
    BY <1>2, <2>2 DEF BodiesSound, Exec
  <2> QED BY <2>1, <2>2
<1> QED BY <1>5 DEF BodiesSound

(* A body ends and sends its completion event.                             *)
LEMMA EndSound ==
    ASSUME NEW bs, NEW bs2, NEW R, NEW ev \in Events, BodiesSound(bs, R, ev),
           NEW b \in Bodies, Exec(bs, b), ~Exec(bs2, b),
           \A c \in Bodies \ {b} : bs2[c] = bs[c]
    PROVE  BodiesSound(bs2, R, [ev EXCEPT ![b[1]] = @ + 1])
<1> DEFINE e == [ev EXCEPT ![b[1]] = @ + 1]
<1>1. b[1] \in Ids /\ b[2] \in Lanes /\ b = <<b[1], b[2]>>
  BY BodiesType
<1>2. b[1] \in R /\ ev[b[1]] = 0
  BY <1>1 DEF BodiesSound
<1>3. \A l \in Lanes : ~Exec(bs2, <<b[1], l>>)
  <2>1. SUFFICES ASSUME NEW l \in Lanes, l # b[2] PROVE ~Exec(bs2, <<b[1], l>>)
    BY <1>1
  <2>2. <<b[1], l>> \in Bodies \ {b}
    BY <1>1, <2>1 DEF Bodies
  <2>3. ~Exec(bs, <<b[1], l>>)
    BY <1>1, <2>1 DEF BodiesSound
  <2> QED BY <2>2, <2>3 DEF Exec
<1>4. e[b[1]] = 1 /\ \A id \in Ids \ {b[1]} : e[id] = ev[id]
  BY <1>1, <1>2 DEF Events
<1>5. \A id \in Ids \ {b[1]}, l \in Lanes : bs2[<<id, l>>] = bs[<<id, l>>]
  BY <1>1 DEF Bodies
<1> HIDE DEF e
<1>6. ASSUME NEW id \in Ids
      PROVE  /\ \A l1, l2 \in Lanes :
                  Exec(bs2, <<id, l1>>) /\ Exec(bs2, <<id, l2>>) => l1 = l2
             /\ \A l \in Lanes : Exec(bs2, <<id, l>>) => id \in R /\ e[id] = 0
             /\ e[id] <= 1
             /\ e[id] > 0 => id \in R
  <2>1. CASE id = b[1]
    BY <1>2, <1>3, <1>4, <2>1
  <2>2. CASE id # b[1]
    BY <1>4, <1>5, <2>2 DEF BodiesSound, Exec
  <2> QED BY <2>1, <2>2
<1>7. BodiesSound(bs2, R, e)
  BY <1>6 DEF BodiesSound
<1> QED BY <1>7 DEF e

(* A body ends and its task leaves tasks_running, without an event.        *)
LEMMA RetrySound ==
    ASSUME NEW bs, NEW bs2, NEW R, NEW ev \in Events, BodiesSound(bs, R, ev),
           NEW b \in Bodies, Exec(bs, b), ~Exec(bs2, b),
           \A c \in Bodies \ {b} : bs2[c] = bs[c]
    PROVE  BodiesSound(bs2, R \ {b[1]}, ev)
<1>1. b[1] \in Ids /\ b[2] \in Lanes /\ b = <<b[1], b[2]>>
  BY BodiesType
<1>2. ev[b[1]] = 0
  BY <1>1 DEF BodiesSound
<1>3. \A l \in Lanes : ~Exec(bs2, <<b[1], l>>)
  <2>1. SUFFICES ASSUME NEW l \in Lanes, l # b[2] PROVE ~Exec(bs2, <<b[1], l>>)
    BY <1>1
  <2>2. <<b[1], l>> \in Bodies \ {b}
    BY <1>1, <2>1 DEF Bodies
  <2>3. ~Exec(bs, <<b[1], l>>)
    BY <1>1, <2>1 DEF BodiesSound
  <2> QED BY <2>2, <2>3 DEF Exec
<1>4. \A id \in Ids \ {b[1]}, l \in Lanes : bs2[<<id, l>>] = bs[<<id, l>>]
  BY <1>1 DEF Bodies
<1>5. ASSUME NEW id \in Ids
      PROVE  /\ \A l1, l2 \in Lanes :
                  Exec(bs2, <<id, l1>>) /\ Exec(bs2, <<id, l2>>) => l1 = l2
             /\ \A l \in Lanes :
                  Exec(bs2, <<id, l>>) => id \in R \ {b[1]} /\ ev[id] = 0
             /\ ev[id] <= 1
             /\ ev[id] > 0 => id \in R \ {b[1]}
  <2>1. CASE id = b[1]
    BY <1>2, <1>3, <2>1
  <2>2. CASE id # b[1]
    BY <1>4, <2>2 DEF BodiesSound, Exec
  <2> QED BY <2>1, <2>2
<1> QED BY <1>5 DEF BodiesSound

(* The finish handler receives an event: it was the only one, the task is  *)
(* running, and it leaves tasks_running.                                   *)
LEMMA TakeSound ==
    ASSUME NEW bs, NEW R, NEW ev \in Events, BodiesSound(bs, R, ev),
           NEW id \in Ids, ev[id] > 0
    PROVE  id \in R /\ BodiesSound(bs, R \ {id}, [ev EXCEPT ![id] = @ - 1])
<1> DEFINE e == [ev EXCEPT ![id] = @ - 1]
<1>1. id \in R /\ ev[id] = 1 /\ \A l \in Lanes : ~Exec(bs, <<id, l>>)
  BY DEF BodiesSound, Events
<1>2. e[id] = 0 /\ \A o \in Ids \ {id} : e[o] = ev[o]
  BY <1>1 DEF Events
<1> HIDE DEF e
<1>3. BodiesSound(bs, R \ {id}, e)
  BY <1>1, <1>2 DEF BodiesSound
<1> QED BY <1>1, <1>3 DEF e

-----------------------------------------------------------------------------
(* The actions.                                                            *)

LEMMA SoundInit ==
    ASSUME Init
    PROVE  Sound(queues, bodies, events) /\ OnlyWorker
<1>1. queues = EmptyQueues /\ bodies = [b \in Bodies |-> NoBody]
      /\ events = [id \in Ids |-> 0] /\ callers = [r \in Callers |-> Idle]
  BY DEF Init
<1>2. \A id \in Ids, l \in Lanes : ~Exec(bodies, <<id, l>>)
  BY <1>1 DEF Exec, Bodies, NoBody
<1>3. BodiesSound(bodies, {}, events)
  BY <1>1, <1>2 DEF BodiesSound
<1>4. OnlyWorker
  BY <1>1 DEF OnlyWorker, Idle
<1> QED BY <1>1, <1>3, <1>4, EmptyExclusive DEF Sound

LEMMA EnqueueSound ==
    ASSUME NEW qs \in QueueState, AllExclusive(qs), NEW who, NEW id \in Ids,
           NEW m \in TaskMeta, Enqueue(qs, who, id, m)
    PROVE  AllExclusive(queues') /\ RunningIds(queues') = RunningIds(qs)
BY AddQueueExclusive DEF Enqueue

LEMMA AfterProbeSound ==
    ASSUME TypeOK, AllExclusive(queues), NEW p \in probes
    PROVE  /\ AfterProbe(p) \in QueueState /\ AllExclusive(AfterProbe(p))
           /\ RunningIds(AfterProbe(p)) = RunningIds(queues)
<1>1. p.id \in Ids /\ p.deps \in SUBSET Ids /\ p.completed \in SUBSET Ids
  BY DEF TypeOK, ProbeRecord
<1> QED BY <1>1, AfterProbeType, ResolveExclusive DEF AfterProbe, TypeOK

LEMMA ReleaseSound ==
    ASSUME bodies \in [Bodies -> BodyState], NEW qs \in QueueState,
           NEW ev \in Events, NEW id \in Ids, Sound(qs, bodies, ev), Release(qs, id)
    PROVE  Sound(queues', bodies', ev)
<1>1. queues' = ReleaseDependents(qs, id)
      /\ Spawn(Ready(qs, id), ReleaseDependents(qs, id).run)
  BY DEF Release
<1>2. /\ AllExclusive(queues')
      /\ RunningIds(queues') = RunningIds(qs) \cup Ready(qs, id)
      /\ Ready(qs, id) \in SUBSET Ids /\ Ready(qs, id) \cap RunningIds(qs) = {}
  BY <1>1, ReleaseExclusive DEF Sound
<1>3. BodiesSound(bodies', RunningIds(qs) \cup Ready(qs, id), ev)
  BY <1>1, <1>2, SpawnSound DEF Sound
<1> QED BY <1>2, <1>3 DEF Sound

LEMMA SoundDispatch ==
    ASSUME OneBodyInv, NEW s \in Slots, NEW id \in Ids, Dispatch(s, id)
    PROVE  Sound(queues', bodies', events')
<1> DEFINE q == StartScheduled(queues, s, id)
<1>1. queues.sched[<<s, id>>] # None /\ queues' = q /\ Spawn({id}, q.run)
      /\ events' = events
  BY DEF Dispatch
<1>2. queues \in QueueState /\ bodies \in [Bodies -> BodyState] /\ events \in Events
  BY DEF OneBodyInv, TypeOK, Events
<1>3. /\ AllExclusive(q)
      /\ RunningIds(q) = RunningIds(queues) \cup {id}
      /\ id \notin RunningIds(queues)
  BY <1>1, <1>2, StartExclusive DEF OneBodyInv, Sound
<1> HIDE DEF q
<1>4. BodiesSound(bodies', RunningIds(queues) \cup {id}, events)
  BY <1>1, <1>2, <1>3, SpawnSound DEF OneBodyInv, Sound
<1> QED BY <1>1, <1>3, <1>4 DEF Sound

LEMMA SoundBody ==
    ASSUME OneBodyInv, NEW b \in Bodies, BodyStep(b)
    PROVE  Sound(queues', bodies', events')
<1>1. /\ queues \in QueueState /\ bodies \in [Bodies -> BodyState]
      /\ events \in Events /\ b[1] \in Ids
      /\ AllExclusive(queues) /\ BodiesSound(bodies, RunningIds(queues), events)
  BY BodiesType DEF OneBodyInv, TypeOK, Events, Sound
<1>2. CASE BodySucceeds(b)
  <2>1. /\ Exec(bodies, b) /\ ~Exec(bodies', b)
        /\ \A c \in Bodies \ {b} : bodies'[c] = bodies[c]
        /\ events' = [events EXCEPT ![b[1]] = @ + 1] /\ queues' = queues
    BY <1>1, <1>2 DEF BodySucceeds, Body, SendFinish, Exec, NoBody
  <2>2. BodiesSound(bodies', RunningIds(queues), events')
    BY <1>1, <2>1, EndSound
  <2> QED BY <1>1, <2>1, <2>2 DEF Sound
<1>3. ASSUME NEW perm \in BOOLEAN, BodyFails(b, perm)
      PROVE  Sound(queues', bodies', events')
  <2>1. \A c \in Bodies : Exec(bodies', c) => Exec(bodies, c)
    BY <1>1, <1>3 DEF BodyFails, Body, Exec
  <2>2. UNCHANGED <<queues, events>>
    BY <1>3 DEF BodyFails
  <2> QED BY <1>1, <2>1, <2>2, QuietSound DEF Sound
<1>4. CASE BodyErrorStored(b)
  <2>1. \A c \in Bodies : Exec(bodies', c) => Exec(bodies, c)
    BY <1>1, <1>4 DEF BodyErrorStored, Body, Move, Exec
  <2>2. UNCHANGED <<queues, events>>
    BY <1>4 DEF BodyErrorStored
  <2> QED BY <1>1, <2>1, <2>2, QuietSound DEF Sound
<1>5. CASE BodyRetries(b)
  <2> DEFINE taken == TakeRunning(queues, b[1])
  <2>1. /\ taken \in QueueState /\ AllExclusive(taken)
        /\ RunningIds(taken) = RunningIds(queues) \ {b[1]}
    BY <1>1, TakeRunningType, TakeRunningExclusive
  <2>2. RetryMeta(b) \in TaskMeta
    BY <1>5, RetryMetaType DEF BodyRetries, Body, OneBodyInv
  <2>3. Enqueue(taken, BodyTag(b), b[1], RetryMeta(b)) /\ events' = events
    BY <1>5 DEF BodyRetries
  <2>4. /\ Exec(bodies, b) /\ ~Exec(bodies', b)
        /\ \A c \in Bodies \ {b} : bodies'[c] = bodies[c]
    BY <1>1, <1>5 DEF BodyRetries, Body, Exec, NoBody
  <2> HIDE DEF taken
  <2>5. AllExclusive(queues') /\ RunningIds(queues') = RunningIds(queues) \ {b[1]}
    BY <1>1, <2>1, <2>2, <2>3, EnqueueSound
  <2>6. BodiesSound(bodies', RunningIds(queues) \ {b[1]}, events)
    BY <1>1, <2>4, RetrySound
  <2> QED BY <2>3, <2>5, <2>6 DEF Sound
<1>6. CASE BodyResolves(b)
  <2>1. PICK p \in probes : queues' = AfterProbe(p)
    BY <1>6 DEF BodyResolves
  <2>2. AllExclusive(queues') /\ RunningIds(queues') = RunningIds(queues)
    BY <1>1, <2>1, AfterProbeSound DEF OneBodyInv
  <2>3. \A c \in Bodies : Exec(bodies', c) => Exec(bodies, c)
    BY <1>1, <1>6 DEF BodyResolves, Exec, NoBody
  <2>4. events' = events
    BY <1>6 DEF BodyResolves
  <2> QED BY <1>1, <2>2, <2>3, <2>4, QuietSound DEF Sound
<1>7. CASE BodyGivesUp(b)
  <2>1. /\ Exec(bodies, b) /\ ~Exec(bodies', b)
        /\ \A c \in Bodies \ {b} : bodies'[c] = bodies[c]
        /\ events' = [events EXCEPT ![b[1]] = @ + 1]
        /\ queues' = ClearRerunRequest(queues, b[1])
    BY <1>1, <1>7 DEF BodyGivesUp, Body, SendFinish, Exec, NoBody
  <2>2. AllExclusive(queues') /\ RunningIds(queues') = RunningIds(queues)
    BY <1>1, <2>1, ClearExclusive
  <2>3. BodiesSound(bodies', RunningIds(queues), events')
    BY <1>1, <2>1, EndSound
  <2> QED BY <2>2, <2>3 DEF Sound
<1> QED BY <1>2, <1>3, <1>4, <1>5, <1>6, <1>7 DEF BodyStep

(* The finish handler.  FinNotFound cannot happen: an event finds its task. *)
LEMMA SoundFin ==
    ASSUME OneBodyInv, FinStep
    PROVE  Sound(queues', bodies', events')
<1>1. /\ queues \in QueueState /\ bodies \in [Bodies -> BodyState]
      /\ events \in Events
      /\ AllExclusive(queues) /\ BodiesSound(bodies, RunningIds(queues), events)
  BY DEF OneBodyInv, TypeOK, Events, Sound
<1>2. ASSUME NEW id \in Ids, FinTakes(id)
      PROVE  LET taken == TakeRunning(queues, id)
             IN  /\ taken \in QueueState
                 /\ Sound(taken, bodies, events')
                 /\ events' \in Events
                 /\ IsRunning(queues, id)
  <2>1. events[id] > 0 /\ events' = [events EXCEPT ![id] = @ - 1]
    BY <1>2 DEF FinTakes
  <2>2. id \in RunningIds(queues)
        /\ BodiesSound(bodies, RunningIds(queues) \ {id}, events')
    BY <1>1, <2>1, TakeSound
  <2>3. events' \in Events
    BY <1>2, FinTakesType DEF OneBodyInv, Events
  <2>4. /\ TakeRunning(queues, id) \in QueueState
        /\ AllExclusive(TakeRunning(queues, id))
        /\ RunningIds(TakeRunning(queues, id)) = RunningIds(queues) \ {id}
    BY <1>1, TakeRunningType, TakeRunningExclusive
  <2> QED BY <2>2, <2>3, <2>4 DEF Sound, RunningIds
<1>3. ASSUME NEW id \in Ids, FinNotFound(id)
      PROVE  Sound(queues', bodies', events')
  BY <1>2, <1>3 DEF FinNotFound
<1>4. ASSUME NEW id \in Ids, FinReruns(id)
      PROVE  Sound(queues', bodies', events')
  <2> DEFINE m == RerunMeta(queues.run[id])
             taken == TakeRunning(queues, id)
             q == AddQueue(taken, id, m)
  <2>1. m \in TaskMeta
    BY <1>4, FinTakesType, MetaType DEF FinReruns, OneBodyInv, RerunMeta, Slots
  <2>2. taken \in QueueState /\ Sound(taken, bodies, events') /\ events' \in Events
    BY <1>2, <1>4 DEF FinReruns
  <2>3. \/ Enqueue(taken, FinisherTag, id, m) /\ bodies' = bodies
        \/ Release(q, id)
    BY <1>4 DEF FinReruns
  <2> HIDE DEF m, taken
  <2>4. CASE Enqueue(taken, FinisherTag, id, m) /\ bodies' = bodies
    BY <2>1, <2>2, <2>4, EnqueueSound DEF Sound
  <2>5. CASE Release(q, id)
    <3>1. q \in QueueState /\ Sound(q, bodies, events')
      BY <2>1, <2>2, AddQueueType, AddQueueExclusive DEF Sound
    <3> HIDE DEF q
    <3> QED BY <1>1, <2>2, <2>5, <3>1, ReleaseSound
  <2> QED BY <2>3, <2>4, <2>5
<1>5. ASSUME NEW id \in Ids, FinStores(id)
      PROVE  Sound(queues', bodies', events')
  BY <1>2, <1>5 DEF FinStores
<1>6. CASE FinCronStored
  <2> DEFINE q == AddQueue(queues, fin.id, fin.meta)
  <2>1. fin.id \in Ids /\ fin.meta \in TaskMeta /\ events' = events
    BY <1>6, FinMeta DEF FinCronStored, OneBodyInv
  <2>2. \/ Enqueue(queues, FinisherTag, fin.id, fin.meta) /\ bodies' = bodies
        \/ Release(q, fin.id)
    BY <1>6 DEF FinCronStored
  <2>3. CASE Enqueue(queues, FinisherTag, fin.id, fin.meta) /\ bodies' = bodies
    BY <1>1, <2>1, <2>3, EnqueueSound DEF Sound
  <2>4. CASE Release(q, fin.id)
    <3>1. q \in QueueState /\ Sound(q, bodies, events)
      BY <1>1, <2>1, AddQueueType, AddQueueExclusive DEF Sound
    <3> HIDE DEF q
    <3> QED BY <1>1, <2>1, <2>4, <3>1, ReleaseSound
  <2> QED BY <2>2, <2>3, <2>4
<1>7. CASE FinResolves
  <2>1. PICK p \in probes : Release(AfterProbe(p), fin.id)
    BY <1>7 DEF FinResolves
  <2>2. fin.id \in Ids /\ events' = events
    BY <1>7, FinMeta DEF FinResolves, OneBodyInv
  <2>3. AfterProbe(p) \in QueueState /\ Sound(AfterProbe(p), bodies, events)
    BY <1>1, AfterProbeSound DEF OneBodyInv, Sound
  <2> QED BY <1>1, <2>1, <2>2, <2>3, ReleaseSound
<1>8. CASE FinRowStamped
  BY <1>1, <1>8 DEF FinRowStamped, Sound
<1>9. CASE FinFinished
  <2>1. fin.id \in Ids /\ Release(queues, fin.id) /\ events' = events
    BY <1>9, FinMeta DEF FinFinished, OneBodyInv
  <2> QED BY <1>1, <2>1, ReleaseSound DEF Sound
<1> QED BY <1>3, <1>4, <1>5, <1>6, <1>7, <1>8, <1>9 DEF FinStep

(* The callers.  On the worker the check and what follows from it are one  *)
(* step.                                                                   *)
LEMMA SoundCaller ==
    ASSUME MainCallers = {}, OneBodyInv, NEW r \in Callers, CallerStep(r)
    PROVE  Sound(queues', bodies', events')
<1> DEFINE id == callers[r].id
           m == callers[r].meta
<1>1. /\ queues \in QueueState /\ AllExclusive(queues)
      /\ BodiesSound(bodies, RunningIds(queues), events)
  BY DEF OneBodyInv, TypeOK, Sound
<1>2. ASSUME AllExclusive(queues'), RunningIds(queues') = RunningIds(queues),
             UNCHANGED <<bodies, events>>
      PROVE  Sound(queues', bodies', events')
  BY <1>1, <1>2 DEF Sound
<1>3. CASE CallerCreates(r) \/ CallerFails(r) \/ CallerRefreshed(r)
             \/ CallerStoresCron(r)
  <2>1. UNCHANGED <<queues, bodies, events>>
    BY <1>3 DEF CallerCreates, CallerFails, CallerRefreshed, CallerStoresCron
  <2> QED BY <1>1, <1>2, <2>1
<1>4. CASE CallerFindsRunning(r)
  <2>1. /\ id \in Ids /\ m \in TaskMeta /\ IsRunning(queues, id)
        /\ queues' = RequestInPlace(queues, id, m)
        /\ UNCHANGED <<bodies, events>>
    BY <1>4, CallerMeta DEF CallerFindsRunning, Caller, OneBodyInv
  <2>2. queues.run[id].rerun \in BOOLEAN
    BY <1>1, <2>1 DEF IsRunning, QueueState, Entry, TaskMeta
  <2>3. (queues.run[id].rerun \/ m.cron = "none") \in BOOLEAN
    BY <2>2
  <2> QED BY <1>1, <1>2, <2>1, <2>3, RefreshExclusive DEF RequestInPlace
<1>5. CASE CallerFindsIdle(r)
  <2>1. /\ id \in Ids /\ ~IsRunning(queues, id) /\ ClearQueued(r)
        /\ UNCHANGED <<bodies, events>>
    BY <1>5, CallerMeta DEF CallerFindsIdle, Caller, OnMain, OneBodyInv
  <2>2. AllExclusive(queues') /\ RunningIds(queues') = RunningIds(queues)
    BY <1>1, <2>1, RemoveExclusive DEF ClearQueued
  <2> QED BY <1>2, <2>1, <2>2
<1>6. CASE CallerClears(r) \/ CallerInserts(r)
  BY <1>6 DEF CallerClears, CallerInserts, Caller, OneBodyInv, OnlyWorker
<1>7. CASE CallerQueues(r)
  <2>1. /\ Head(writes).id \in Ids /\ m \in TaskMeta
        /\ Enqueue(queues, CallerTag(r), Head(writes).id, m)
        /\ UNCHANGED <<bodies, events>>
    BY <1>7, CallerMeta, ReturnedId DEF CallerQueues, OnMain, OneBodyInv
  <2>2. AllExclusive(queues') /\ RunningIds(queues') = RunningIds(queues)
    BY <1>1, <2>1, EnqueueSound
  <2> QED BY <1>2, <2>1, <2>2
<1>8. CASE CallerResolves(r)
  <2>1. PICK p \in probes : queues' = AfterProbe(p)
    BY <1>8 DEF CallerResolves
  <2>2. UNCHANGED <<bodies, events>>
    BY <1>8 DEF CallerResolves
  <2>3. AllExclusive(queues') /\ RunningIds(queues') = RunningIds(queues)
    BY <1>1, <2>1, AfterProbeSound DEF OneBodyInv
  <2> QED BY <1>2, <2>2, <2>3
<1> QED BY <1>3, <1>4, <1>5, <1>6, <1>7, <1>8 DEF CallerStep

LEMMA OnlyWorkerStep ==
    ASSUME MainCallers = {}, OneBodyInv, Next
    PROVE  OnlyWorker'
<1>1. callers \in [Callers -> CallerState]
      /\ \A c \in Callers : callers[c].pc \notin {"clear", "insert"}
  BY DEF OneBodyInv, TypeOK, OnlyWorker
<1>2. CASE UNCHANGED callers
  BY <1>1, <1>2 DEF OnlyWorker
<1>3. ASSUME NEW r \in Callers, NEW rq \in Requests, CallerAsks(r, rq)
      PROVE  OnlyWorker'
  BY <1>1, <1>3 DEF CallerAsks, OnlyWorker
<1>4. ASSUME NEW r \in Callers, CallerStep(r)
      PROVE  OnlyWorker'
  <2> DEFINE Moves == \E pc \in {"create", "setcron", "update", "refresh", "resolve"} :
                        \/ callers' = [callers EXCEPT ![r].pc = pc]
                        \/ \E id : callers' = [callers EXCEPT ![r].pc = pc, ![r].id = id]
             Returns == callers' = [callers EXCEPT ![r] = Idle]
  <2>1. ~CallerClears(r) /\ ~CallerInserts(r)
    BY <1>1 DEF CallerClears, CallerInserts, Caller
  <2>2. CallerCreates(r) => Moves \/ Returns
    BY DEF CallerCreates, CallerMoves
  <2>3. CallerFindsRunning(r) => Moves \/ Returns
    BY DEF CallerFindsRunning, CallerMoves
  <2>4. CallerFindsIdle(r) => Moves \/ Returns
    BY DEF CallerFindsIdle, ClearQueued, CallerMoves, OnMain
  <2>5. (CallerFails(r) \/ CallerRefreshed(r) \/ CallerResolves(r)) => Moves \/ Returns
    BY DEF CallerFails, CallerRefreshed, CallerResolves, CallerReturns
  <2>6. CallerStoresCron(r) => Moves \/ Returns
    BY DEF CallerStoresCron
  <2>7. CallerQueues(r) => Moves \/ Returns
    <3>1. ~OnMain(r)
      BY DEF OnMain
    <3> DEFINE id == Head(writes).id
               m == callers[r].meta
    <3> SUFFICES ASSUME callers' = [callers EXCEPT ![r] =
                          IF ChecksDeps(queues, id, m)
                            THEN [@ EXCEPT !.pc = "resolve", !.id = id] ELSE Idle]
                 PROVE  Moves \/ Returns
      BY <3>1 DEF CallerQueues
    <3>2. CASE ChecksDeps(queues, id, m)
      <4>1. callers' = [callers EXCEPT ![r] =
                          [callers[r] EXCEPT !.pc = "resolve", !.id = id]]
        BY <3>2
      <4>2. callers' = [callers EXCEPT ![r].pc = "resolve", ![r].id = id]
        BY <4>1, <1>1
      <4> QED BY <4>2
    <3>3. CASE ~ChecksDeps(queues, id, m)
      BY <3>3
    <3> QED BY <3>2, <3>3
  <2>8. Moves \/ Returns
    BY <1>4, <2>1, <2>2, <2>3, <2>4, <2>5, <2>6, <2>7 DEF CallerStep
  <2>9. CASE Moves
    <3>1. PICK pc \in {"create", "setcron", "update", "refresh", "resolve"} :
            \/ callers' = [callers EXCEPT ![r].pc = pc]
            \/ \E id : callers' = [callers EXCEPT ![r].pc = pc, ![r].id = id]
      BY <2>9
    <3>2. \A c \in CallerState : \A id :
            [c EXCEPT !.pc = pc].pc = pc /\ [c EXCEPT !.pc = pc, !.id = id].pc = pc
      BY DEF CallerState, Idle
    <3>3. CASE callers' = [callers EXCEPT ![r].pc = pc]
      BY <1>1, <3>2, <3>3 DEF OnlyWorker
    <3>4. ASSUME NEW id, callers' = [callers EXCEPT ![r].pc = pc, ![r].id = id]
          PROVE  OnlyWorker'
      <4>1. callers' = [callers EXCEPT ![r] = [callers[r] EXCEPT !.pc = pc, !.id = id]]
        BY <1>1, <3>4
      <4> QED BY <1>1, <3>2, <4>1 DEF OnlyWorker
    <3> QED BY <3>1, <3>3, <3>4
  <2>10. CASE Returns
    BY <1>1, <2>10 DEF OnlyWorker, Idle
  <2> QED BY <2>8, <2>9, <2>10
<1>5. CASE Crash
  BY <1>5 DEF Crash, OnlyWorker, Idle
<1> QED BY <1>2, <1>3, <1>4, <1>5
        DEF Next, StoreStep, WriteEffect, WriteFails, ProbeAnswered, Dispatch,
            BodyStep, BodySucceeds, BodyFails, BodyErrorStored, BodyRetries,
            BodyResolves, BodyGivesUp, FinStep, FinNotFound, FinReruns, FinStores,
            FinCronStored, FinResolves, FinRowStamped, FinFinished,
            LoaderStep, LoaderReads, LoaderSkips, LoaderQueues, LoaderResolves

LEMMA SoundLoader ==
    ASSUME OneBodyInv, LoaderStep
    PROVE  Sound(queues', bodies', events')
<1>1. /\ queues \in QueueState /\ AllExclusive(queues)
      /\ BodiesSound(bodies, RunningIds(queues), events)
  BY DEF OneBodyInv, TypeOK, Sound
<1>2. UNCHANGED <<bodies, events>>
  BY DEF LoaderStep, LoaderReads, LoaderSkips, LoaderQueues, LoaderResolves
<1>3. AllExclusive(queues') /\ RunningIds(queues') = RunningIds(queues)
  <2>1. CASE UNCHANGED queues
    BY <1>1, <2>1
  <2>2. ASSUME NEW id \in Ids, LoaderQueues(id)
        PROVE  AllExclusive(queues') /\ RunningIds(queues') = RunningIds(queues)
    <3>1. loader.snap[id] \in Row
      BY <2>2 DEF LoaderQueues, OneBodyInv, TypeOK, LoaderState, Table
    <3>2. LoadedMeta(loader.snap[id]) \in TaskMeta
      BY <3>1, LoadedMetaType
    <3> QED BY <1>1, <2>2, <3>2, EnqueueSound DEF LoaderQueues
  <2>3. CASE LoaderResolves
    <3>1. PICK p \in probes : queues' = AfterProbe(p)
      BY <2>3 DEF LoaderResolves
    <3> QED BY <1>1, <3>1, AfterProbeSound DEF OneBodyInv
  <2> QED BY <2>1, <2>2, <2>3 DEF LoaderStep, LoaderReads, LoaderSkips
<1> QED BY <1>1, <1>2, <1>3 DEF Sound

LEMMA SoundCrash ==
    ASSUME Crash
    PROVE  Sound(queues', bodies', events')
<1>1. queues' = EmptyQueues /\ bodies' = [b \in Bodies |-> NoBody]
      /\ events' = [id \in Ids |-> 0]
  BY DEF Crash
<1>2. \A id \in Ids, l \in Lanes : ~Exec(bodies', <<id, l>>)
  BY <1>1 DEF Exec, Bodies, NoBody
<1>3. BodiesSound(bodies', {}, events')
  BY <1>1, <1>2 DEF BodiesSound
<1> QED BY <1>1, <1>3, EmptyExclusive DEF Sound

LEMMA OneBodyStep ==
    ASSUME MainCallers = {}, OneBodyInv, [Next]_vars
    PROVE  OneBodyInv'
<1>1. TypeOK'
  BY TypeStep DEF OneBodyInv
<1>2. CASE UNCHANGED vars
  BY <1>1, <1>2 DEF vars, OneBodyInv, Sound, OnlyWorker
<1>3. CASE Next
  <2>1. UNCHANGED <<queues, bodies, events>> => Sound(queues', bodies', events')
    BY DEF OneBodyInv
  <2>2. Sound(queues', bodies', events')
    BY <1>3, <2>1, SoundDispatch, SoundBody, SoundFin, SoundCaller, SoundLoader,
       SoundCrash
       DEF Next, StoreStep, WriteEffect, WriteFails, ProbeAnswered, CallerAsks,
           OneBodyInv
  <2>3. OnlyWorker'
    BY <1>3, OnlyWorkerStep
  <2> QED BY <1>1, <2>2, <2>3 DEF OneBodyInv
<1> QED BY <1>2, <1>3

LEMMA OneBodyInvHolds ==
    ASSUME MainCallers = {}
    PROVE  Spec => []OneBodyInv
<1>1. Init => OneBodyInv
  BY TypeInit, SoundInit DEF OneBodyInv
<1>2. OneBodyInv /\ [Next]_vars => OneBodyInv'
  BY OneBodyStep
<1> QED BY <1>1, <1>2, PTL DEF Spec

(* One body per task: add_queue and schedule_task_impl look at             *)
(* tasks_running before they queue anything, so no second body of a task   *)
(* starts while one executes, whatever callers on the worker ask for.      *)
THEOREM OneBodyCorrect ==
    ASSUME MainCallers = {}
    PROVE  Spec => []OneBody
<1>1. OneBodyInv => OneBody
  BY DEF OneBodyInv, Sound, BodiesSound, OneBody, Executing, Exec, RunningIds
<1> QED BY <1>1, OneBodyInvHolds, PTL

(* One queue per task: the removals of add_queue come before its insertion *)
(* and release_dependents moves waiting tasks only.                        *)
THEOREM QueueExclusiveCorrect ==
    ASSUME MainCallers = {}
    PROVE  Spec => []QueueExclusive
<1>1. OneBodyInv => QueueExclusive
  BY DEF OneBodyInv, Sound, AllExclusive, QueueExclusive
<1> QED BY <1>1, OneBodyInvHolds, PTL
=============================================================================
