------------------------------ MODULE RtdbStore ------------------------------
(* One database of the RTDB adapter: write transactions that run as actors *)
(* and broadcast their changes after the commit, subscriptions that join   *)
(* the channel and read what is there, the compaction of the file, which   *)
(* needs it alone, and the eviction of the cached instance, which takes    *)
(* the channel with it.  A transaction adds one to a document.             *)
EXTENDS Integers, Sequences, FiniteSets

CONSTANTS
    Writers,            \* connections that write
    Readers,            \* subscriptions
    TX_PERMITS,         \* transactions open at one time
    BroadcastCapacity,  \* broadcast_capacity: events kept for a slow receiver
    MaxTransactions,    \* bound: transactions in all
    MaxCompactions,     \* bound: compactions
    MaxEvictions        \* bound: evictions of the instance

ASSUME RtdbBounds ==
    /\ TX_PERMITS \in Nat \ {0} /\ BroadcastCapacity \in Nat \ {0}
    /\ MaxTransactions \in Nat /\ MaxCompactions \in Nat /\ MaxEvictions \in Nat

VARIABLES
    barrierOf,      \* who holds a guard of the file's barrier, and who waits for one
    step,           \* where each actor is
    cached,         \* the instance in the map, 0 for none; each has its channel
    instances,      \* instances made so far
    held,           \* the instance each writer holds on to
    written,        \* what each writer is about to commit, or has committed
    opened,         \* the compactions before a writer took its handle
    stored,         \* the document
    commits,        \* history: commits that were reported as done
    begun,          \* transactions so far
    compactions,    \* compactions so far
    channel,        \* the instance each reader receives from, 0 for none
    inbox,          \* the events it has still to receive
    view,           \* what it shows
    newest,         \* history: the newest change broadcast
    missed          \* history: readers that lost an event, or got two in the wrong order

rtdbVars == <<barrierOf, step, cached, instances, held, written, opened, stored, commits,
              begun, compactions, channel, inbox, view, newest, missed>>
txVars == <<held, written, opened, stored, commits, begun>>
readVars == <<channel, inbox, view, newest, missed>>

Compactor == "compactor"
RtdbActors == Writers \cup Readers \cup {Compactor}

ASSUME RtdbActorsApart == Writers \cap Readers = {} /\ Compactor \notin Writers \cup Readers

RtdbInit ==
    /\ barrierOf = [holders |-> {}, queue |-> <<>>]
    /\ step = [a \in RtdbActors |-> "idle"]
    /\ cached = 0 /\ instances = 0
    /\ held = [w \in Writers |-> 0] /\ written = [w \in Writers |-> 0]
    /\ opened = [w \in Writers |-> 0]
    /\ stored = 0 /\ commits = 0 /\ begun = 0 /\ compactions = 0
    /\ channel = [r \in Readers |-> 0] /\ inbox = [r \in Readers |-> <<>>]
    /\ view = [r \in Readers |-> 0]
    /\ newest = 0 /\ missed = {}

Goes(a, pc) == step' = [step EXCEPT ![a] = pc]

(* The barrier is a fair lock: who comes waits behind those who wait.      *)
Queues(a) == barrierOf' = [barrierOf EXCEPT !.queue = Append(@, a)]

MayEnter(a) ==
    /\ barrierOf.queue # <<>> /\ Head(barrierOf.queue) = a
    /\ IF a = Compactor THEN barrierOf.holders = {}
                        ELSE Compactor \notin barrierOf.holders

Enters(a) ==
    /\ MayEnter(a)
    /\ barrierOf' = [holders |-> barrierOf.holders \cup {a},
                     queue |-> Tail(barrierOf.queue)]

Leaves(a) == barrierOf' = [barrierOf EXCEPT !.holders = @ \ {a}]

(* get_or_open_instance: the cached one, or a new one with a new channel.  *)
CurrentInstance == IF cached = 0 THEN instances + 1 ELSE cached
OpensInstance ==
    /\ cached' = CurrentInstance
    /\ instances' = IF cached = 0 THEN instances + 1 ELSE instances

-----------------------------------------------------------------------------
(* Faulty variant: the guard stays with the call that opens the            *)
(* transaction.                                                            *)
GuardStays(w) == Leaves(w)

(* The guard goes to the actor, which keeps it until it ends.              *)
GuardTravels(w) == UNCHANGED barrierOf

BeginsTransaction(w) ==
    /\ step[w] = "idle" /\ begun < MaxTransactions
    /\ begun' = begun + 1
    /\ Queues(w) /\ Goes(w, "guard")
    /\ UNCHANGED <<cached, instances, held, written, opened, stored, commits, compactions,
                   readVars>>

TransactionOpens(w) ==
    /\ step[w] = "guard" /\ Enters(w)
    /\ OpensInstance /\ held' = [held EXCEPT ![w] = CurrentInstance]
    /\ Goes(w, "permit")
    /\ UNCHANGED <<written, opened, stored, commits, begun, compactions, readVars>>

WithPermit == {w \in Writers : step[w] \in {"begin", "write", "commit", "broadcast"}}

(* The actor starts, with a handle of the file.                            *)
TakesPermit(w) ==
    /\ step[w] = "permit" /\ Cardinality(WithPermit) < TX_PERMITS
    /\ opened' = [opened EXCEPT ![w] = compactions]
    /\ GuardTravels(w) /\ Goes(w, "begin")
    /\ UNCHANGED <<cached, instances, held, written, stored, commits, begun, compactions,
                   readVars>>

(* begin_write: one writer at a time, until its commit.                    *)
BeginsWrite(w) ==
    /\ step[w] = "begin" /\ \A v \in Writers : step[v] \notin {"write", "commit"}
    /\ Goes(w, "write")
    /\ UNCHANGED <<barrierOf, cached, instances, txVars, compactions, readVars>>

(* The document is read and written through the transaction.               *)
UpdatesDocument(w) ==
    /\ step[w] = "write"
    /\ written' = [written EXCEPT ![w] = stored + 1]
    /\ Goes(w, "commit")
    /\ UNCHANGED <<barrierOf, cached, instances, held, opened, stored, commits, begun,
                   compactions, readVars>>

TransactionEnds(w) ==
    /\ Leaves(w) /\ Goes(w, "idle") /\ held' = [held EXCEPT ![w] = 0]

(* An operation fails, or meets a hard lock: the handle is dropped.        *)
RollsBack(w) ==
    /\ step[w] \in {"write", "commit"}
    /\ TransactionEnds(w)
    /\ UNCHANGED <<cached, instances, written, opened, stored, commits, begun, compactions,
                   readVars>>

(* What is written by a handle from before a compaction is lost.           *)
CommitsWrite(w) ==
    /\ step[w] = "commit"
    /\ stored' = IF opened[w] = compactions /\ step[Compactor] # "compact"
                   THEN written[w] ELSE stored
    /\ commits' = commits + 1
    /\ Goes(w, "broadcast")
    /\ UNCHANGED <<barrierOf, cached, instances, held, written, opened, begun, compactions,
                   readVars>>

Received(q, e) ==
    IF Len(q) < BroadcastCapacity THEN Append(q, e) ELSE Append(Tail(q), e)

(* The next writer may have committed, and broadcast, before this.         *)
BroadcastsChange(w) ==
    /\ step[w] = "broadcast"
    /\ inbox' = [r \in Readers |-> IF channel[r] = held[w]
                                     THEN Received(inbox[r], written[w]) ELSE inbox[r]]
    /\ missed' = missed \cup
         {r \in Readers : /\ channel[r] # 0
                          /\ \/ channel[r] # held[w] \/ written[w] < newest
                             \/ Len(inbox[r]) = BroadcastCapacity}
    /\ newest' = IF written[w] > newest THEN written[w] ELSE newest
    /\ TransactionEnds(w)
    /\ UNCHANGED <<cached, instances, written, opened, stored, commits, begun, compactions,
                   channel, view>>

-----------------------------------------------------------------------------
(* Faulty variant: the channel is joined when the query has been made.     *)
JoinsAfterQuery(pc) == pc = "yield"

JoinsAt(pc) == pc = "guard"

Joins(r, pc) ==
    channel' = IF JoinsAt(pc) THEN [channel EXCEPT ![r] = CurrentInstance] ELSE channel

Subscribes(r) ==
    /\ step[r] = "idle"
    /\ Queues(r) /\ Goes(r, "guard")
    /\ UNCHANGED <<cached, instances, txVars, compactions, readVars>>

(* Faulty variant: the first guard is kept while the second is waited for. *)
KeepsGuard(r) ==
    barrierOf' = [holders |-> barrierOf.holders \cup {r},
                  queue |-> Append(Tail(barrierOf.queue), r)]

DropsGuard(r) == barrierOf' = [barrierOf EXCEPT !.queue = Append(Tail(@), r)]

(* subscribe: join the channel, drop the guard, then query, which takes    *)
(* a guard of its own.                                                     *)
OpensChannel(r) ==
    /\ step[r] = "guard" /\ MayEnter(r)
    /\ OpensInstance /\ Joins(r, "guard")
    /\ DropsGuard(r) /\ Goes(r, "query")
    /\ UNCHANGED <<txVars, compactions, inbox, view, newest, missed>>

ReadsSnapshot(r) ==
    /\ step[r] = "query" /\ MayEnter(r)
    /\ barrierOf' = [holders |-> barrierOf.holders \ {r}, queue |-> Tail(barrierOf.queue)]
    /\ OpensInstance
    /\ view' = [view EXCEPT ![r] = stored]
    /\ Goes(r, "yield")
    /\ UNCHANGED <<txVars, compactions, channel, inbox, newest, missed>>

YieldsSnapshot(r) ==
    /\ step[r] = "yield"
    /\ Joins(r, "yield") /\ Goes(r, "live")
    /\ UNCHANGED <<barrierOf, cached, instances, txVars, compactions, inbox, view, newest,
                   missed>>

ReceivesChange(r) ==
    /\ step[r] = "live" /\ inbox[r] # <<>>
    /\ view' = [view EXCEPT ![r] = Head(inbox[r])]
    /\ inbox' = [inbox EXCEPT ![r] = Tail(@)]
    /\ UNCHANGED <<barrierOf, step, cached, instances, txVars, compactions, channel, newest,
                   missed>>

(* The sender is gone when neither the map nor a transaction has it.       *)
ChannelClosed(i) == cached # i /\ \A w \in Writers : held[w] # i

(* The stream ends without a word to the client.                           *)
StreamEnds(r) ==
    /\ step[r] = "live" /\ inbox[r] = <<>> /\ ChannelClosed(channel[r])
    /\ Goes(r, "ended")
    /\ UNCHANGED <<barrierOf, cached, instances, txVars, compactions, readVars>>

Unsubscribes(r) ==
    /\ step[r] \in {"live", "ended"}
    /\ Goes(r, "idle")
    /\ channel' = [channel EXCEPT ![r] = 0] /\ inbox' = [inbox EXCEPT ![r] = <<>>]
    /\ view' = [view EXCEPT ![r] = 0] /\ missed' = missed \ {r}
    /\ UNCHANGED <<barrierOf, cached, instances, txVars, compactions, newest>>

-----------------------------------------------------------------------------
CompactionWaits ==
    /\ step[Compactor] = "idle" /\ compactions < MaxCompactions
    /\ Queues(Compactor) /\ Goes(Compactor, "guard")
    /\ UNCHANGED <<cached, instances, txVars, compactions, readVars>>

CompactionStarts ==
    /\ step[Compactor] = "guard" /\ Enters(Compactor)
    /\ Goes(Compactor, "compact")
    /\ UNCHANGED <<cached, instances, txVars, compactions, readVars>>

(* The instance stays, and with it the channel; its handle is a new one.   *)
CompactionEnds ==
    /\ step[Compactor] = "compact"
    /\ compactions' = compactions + 1
    /\ Leaves(Compactor) /\ Goes(Compactor, "idle")
    /\ UNCHANGED <<cached, instances, txVars, readVars>>

(* Idle for long, or the least recently used of too many.                  *)
EvictsInstance ==
    /\ cached # 0 /\ cached <= MaxEvictions
    /\ cached' = 0
    /\ UNCHANGED <<barrierOf, step, instances, txVars, compactions, readVars>>

(* The steps of who has begun.                                             *)
RtdbProgress ==
    \/ \E w \in Writers :
         \/ TransactionOpens(w) \/ TakesPermit(w) \/ BeginsWrite(w) \/ UpdatesDocument(w)
         \/ RollsBack(w) \/ CommitsWrite(w) \/ BroadcastsChange(w)
    \/ \E r \in Readers : OpensChannel(r) \/ ReadsSnapshot(r) \/ YieldsSnapshot(r)
    \/ CompactionStarts \/ CompactionEnds

RtdbNext ==
    \/ RtdbProgress
    \/ \E w \in Writers : BeginsTransaction(w)
    \/ \E r \in Readers :
         Subscribes(r) \/ ReceivesChange(r) \/ StreamEnds(r) \/ Unsubscribes(r)
    \/ CompactionWaits \/ EvictsInstance

RtdbSpec == RtdbInit /\ [][RtdbNext]_rtdbVars

-----------------------------------------------------------------------------
RtdbTypeOK ==
    /\ barrierOf.holders \subseteq RtdbActors /\ barrierOf.queue \in Seq(RtdbActors)
    /\ cached \in 0..instances /\ stored \in 0..commits
    /\ \A r \in Readers : Len(inbox[r]) <= BroadcastCapacity

(* Every transaction whose commit was reported is in the document: each    *)
(* read what the one before it left, and none was open while the file was  *)
(* compacted.                                                              *)
UpdatesKept == stored = commits

(* A subscription that has received all its events shows the document,     *)
(* though changes were made between its joining the channel and its query. *)
(* The exceptions are events that were lost to a slow receiver or to       *)
(* another instance's channel, and two that were broadcast in another      *)
(* order than they were committed in.                                      *)
SubscribersAgree ==
    \A r \in Readers \ missed :
      /\ step[r] = "live" /\ inbox[r] = <<>>
      /\ \A w \in Writers : step[w] # "broadcast"
      => view[r] = stored

(* The calls in front of the barrier never all wait for each other.        *)
NeverStuck == barrierOf.queue # <<>> => ENABLED RtdbProgress
=============================================================================
