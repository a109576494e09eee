----------------------------- MODULE WorkerPool -----------------------------
(* The worker pool: threads for synchronous jobs, which serve one, two or  *)
(* three unbounded queues in the order of their priority, and go on until  *)
(* the pool is dropped and their queues are empty.                         *)
EXTENDS Integers, Sequences, FiniteSets

CONSTANTS
    Jobs,           \* the closures that are submitted
    PriorityOf,     \* PriorityOf[j]: 1 high, 2 medium, 3 low
    Panicking,      \* jobs that panic
    Threads,        \* the worker threads
    Serves          \* Serves[w]: how many queues w serves, from high on

ASSUME PriorityAssumption == PriorityOf \in [Jobs -> 1..3]
ASSUME PanickingAssumption == Panicking \subseteq Jobs
ASSUME ServesAssumption == Serves \in [Threads -> 1..3]

VARIABLES
    jobQueue,     \* the three channels
    senders,      \* the channels whose sender, held by the pool, is there
    threadAt,     \* what each worker does
    answerOf      \* what the future of each submitted job resolves to

poolVars == <<jobQueue, senders, threadAt, answerOf>>

NoJob == [pc |-> "sweep", seen |-> 0, live |-> {}, job |-> <<>>]

PoolInit ==
    /\ jobQueue = [p \in 1..3 |-> <<>>]
    /\ senders = 1..3
    /\ threadAt = [w \in Threads |-> [NoJob EXCEPT !.live = 1..Serves[w]]]
    /\ answerOf = [j \in Jobs |-> "none"]

(* spawn, run, run_immed, run_slow: the future waits for the job's result. *)
Submits(j) ==
    /\ senders = 1..3 /\ answerOf[j] = "none"
    /\ jobQueue' = [jobQueue EXCEPT ![PriorityOf[j]] = Append(@, j)]
    /\ answerOf' = [answerOf EXCEPT ![j] = "waiting"]
    /\ UNCHANGED <<senders, threadAt>>

(* Dropping the pool drops its senders one after the other.                *)
DropsPool ==
    /\ senders # {}
    /\ senders' = {p \in senders : \E q \in senders : q < p}
    /\ UNCHANGED <<jobQueue, threadAt, answerOf>>

Takes(w, p) ==
    /\ jobQueue[p] # <<>>
    /\ jobQueue' = [jobQueue EXCEPT ![p] = Tail(@)]
    /\ threadAt' = [threadAt EXCEPT ![w] =
         [@ EXCEPT !.pc = "run", !.seen = 0, !.job = <<Head(jobQueue[p])>>]]
    /\ UNCHANGED <<senders, answerOf>>

(* The non-blocking sweep looks at one live queue after the other, and can *)
(* miss a job that is sent to one it has passed.                           *)
NextToSee(w) == {p \in threadAt[w].live : p > threadAt[w].seen}

SweepsQueue(w) ==
    /\ threadAt[w].pc = "sweep" /\ NextToSee(w) # {}
    /\ LET p == CHOOSE q \in NextToSee(w) : \A r \in NextToSee(w) : q <= r
       IN  \/ Takes(w, p)
           \/ /\ jobQueue[p] = <<>>
              /\ threadAt' = [threadAt EXCEPT ![w].seen = p]
              /\ UNCHANGED <<jobQueue, senders, answerOf>>

(* Faulty variant: a queue without a sender is given up at once.           *)
HasSender(p) == p \in senders

(* is_disconnected and is_empty, on each live queue: with the sender gone  *)
(* nothing is added any more, so the two tell the same at any time.        *)
StillLive(p) == p \in senders \/ jobQueue[p] # <<>>

PrunesQueues(w) ==
    /\ threadAt[w].pc = "sweep" /\ NextToSee(w) = {}
    /\ LET left == {p \in threadAt[w].live : StillLive(p)}
       IN  threadAt' = [threadAt EXCEPT ![w] =
             [@ EXCEPT !.seen = 0, !.live = left,
                       !.pc = IF left = {} THEN "exited" ELSE "wait"]]
    /\ UNCHANGED <<jobQueue, senders, answerOf>>

(* Selector::wait takes from any queue that has something, in no order of  *)
(* priority, or is told that a sender is gone.                             *)
WaitsForJob(w) ==
    /\ threadAt[w].pc = "wait"
    /\ \/ \E p \in threadAt[w].live : Takes(w, p)
       \/ /\ \E p \in threadAt[w].live : p \notin senders /\ jobQueue[p] = <<>>
          /\ threadAt' = [threadAt EXCEPT ![w].pc = "sweep"]
          /\ UNCHANGED <<jobQueue, senders, answerOf>>

(* The job runs to its end, and its result is sent; a panic is caught, and *)
(* drops the result channel.                                               *)
RunsJob(w) ==
    /\ threadAt[w].pc = "run"
    /\ LET j == threadAt[w].job[1]
       IN  answerOf' = [answerOf EXCEPT ![j] =
             IF j \in Panicking THEN "error" ELSE "result"]
    /\ threadAt' = [threadAt EXCEPT ![w] = [@ EXCEPT !.pc = "sweep", !.job = <<>>]]
    /\ UNCHANGED <<jobQueue, senders>>

WorkerSteps(w) ==
    SweepsQueue(w) \/ PrunesQueues(w) \/ WaitsForJob(w) \/ RunsJob(w)

PoolNext ==
    \/ \E j \in Jobs : Submits(j)
    \/ DropsPool
    \/ \E w \in Threads : WorkerSteps(w)

(* Threads of the operating system, each of which gets to run.             *)
PoolFairness == \A w \in Threads : WF_poolVars(WorkerSteps(w))

PoolSpec == PoolInit /\ [][PoolNext]_poolVars /\ PoolFairness

-----------------------------------------------------------------------------
(* A job that was accepted is answered in the end, though the pool is      *)
(* dropped with the job in a queue, or other jobs panic; and no thread     *)
(* outlives the pool.                                                      *)
PoolDrains ==
    /\ \A j \in Jobs : answerOf[j] = "waiting" ~> answerOf[j] # "waiting"
    /\ senders = {} ~> \A w \in Threads : threadAt[w].pc = "exited"
=============================================================================
