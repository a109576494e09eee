------------------------------ MODULE CrdtDocs ------------------------------
(***************************************************************************)
(* One CRDT document of cloudillo-crdt: the registry of live documents,    *)
(* the WebSocket connections that open, edit and close it, the broadcast   *)
(* between them and the compaction after the last close, over the log of   *)
(* CrdtLog.                                                                *)
(*                                                                         *)
(* A connection is one call of handle_crdt_connection with the tasks it    *)
(* spawns.  One async worker runs them all, so what a future does between  *)
(* two awaits is one action; database work runs on other threads, takes    *)
(* effect there, and only later its future goes on.                        *)
(*                                                                         *)
(* A DocState is named after the connection that made it.  Clients are     *)
(* y-websocket peers: they keep their own replica across connections, and  *)
(* what the server sends over an open socket reaches them in order.        *)
(***************************************************************************)
EXTENDS CrdtLog, Sequences

CONSTANTS
    Conns,        \* connections, numbered in the order they are made
    Clients,      \* the peers that make them
    Edits,        \* edits, independent of one another
    Author,       \* Author[e]: the client that makes the edit e
    Readers,      \* clients whose access is read-only
    None,
    Capacity,     \* of a broadcast channel (256 in the code)
    MaxOpen,      \* bound: connections served at once
    MaxCrashes,   \* bound: restarts of the process
    MaxFaults,    \* bound: log operations that fail
    MaxSweeps,    \* bound: compact_storage sweeps
    MaxIncidents  \* bound: those three and connections together

ASSUME ConnsAssumption == Conns \subseteq Nat
ASSUME AuthorAssumption == Author \in [Edits -> Clients]
ASSUME ReadersAssumption == Readers \subseteq Clients
ASSUME NoneAssumption == None \notin Conns
ASSUME CapacityAssumption == Capacity \in Nat \ {0}
ASSUME CrdtBoundsAssumption ==
    /\ MaxCrashes \in Nat /\ MaxFaults \in Nat /\ MaxSweeps \in Nat
    /\ MaxIncidents \in Nat /\ MaxOpen \in Nat

VARIABLES
    log,        \* the stored updates
    counter,    \* update_count of the cached DocumentInstance
    sweep,      \* compact_storage holds the write guard of the file
    registry,   \* CRDT_DOCS: the registered DocState
    locked,     \* the connection that holds the registry's write lock
    docs,       \* the live Y.Doc of each DocState
    conns,      \* the connections
    replica,    \* what each client has
    counts,     \* crashes, faults and sweeps so far
    acked,      \* history: edits broadcast as stored
    races       \* history: hazardous overlaps that have happened

vars == <<log, counter, sweep, registry, locked, docs, conns, replica, counts,
          acked, races>>

Off == [pc |-> "off", client |-> None, state |-> None, up |-> FALSE,
        tasks |-> FALSE, recv |-> <<>>, bcast |-> <<>>, lagged |-> FALSE,
        seq |-> NoCounter, data |-> {}, seqs |-> {}]

Done == [Off EXCEPT !.pc = "done"]

Init ==
    /\ log = {}
    /\ counter = NoCounter
    /\ sweep = FALSE
    /\ registry = None
    /\ locked = None
    /\ docs = [c \in Conns |-> {}]
    /\ conns = [c \in Conns |-> Off]
    /\ replica = [k \in Clients |-> {}]
    /\ counts = [crashes |-> 0, faults |-> 0, sweeps |-> 0]
    /\ acked = {}
    /\ races = {}

At(c, pc) == conns[c].pc = pc
Go(c, pc) == conns' = [conns EXCEPT ![c].pc = pc]

(* The connection has a clone of the DocState, and may still change it.    *)
Attached(c) ==
    conns[c].pc \in {"joined", "greeted", "open", "store", "stored"}

(* receiver_count is zero on both channels.                                *)
Unwatched(state) == \A c \in Conns : conns[c].tasks => conns[c].state # state

Incidents == counts.crashes + counts.faults + counts.sweeps
             + Cardinality({c \in Conns : ~At(c, "off")})
Bounded == Incidents < MaxIncidents
CanFail == Bounded /\ counts.faults < MaxFaults
Fault == counts' = [counts EXCEPT !.faults = @ + 1]

-----------------------------------------------------------------------------
(* The log.  store_update and compact_updates take a number first and      *)
(* write it later.  A call that finds no cached instance seeds the counter *)
(* from the file; while compact_storage has the file it waits for that.    *)

Writing(c) == conns[c].pc \in {"init", "store", "compact"}

(* The part of a call up to its first real await; pc is the caller's next. *)
IssueWrite(c, cn, pc, data) ==
    LET seq == IF counter # NoCounter THEN counter
               ELSE IF sweep THEN NoCounter
               ELSE NextSeq(log)
    IN  /\ conns' = [cn EXCEPT ![c].pc = pc, ![c].data = data, ![c].seq = seq]
        /\ counter' = IF seq = NoCounter THEN counter ELSE seq + 1

(* Another write has been given this number or a later one, and is not     *)
(* done yet: the two will meet.                                            *)
Taken(c, seq) == \E d \in Conns \ {c} : Writing(d) /\ conns[d].seq >= seq

(* The sweep is over: a waiting call makes an instance of its own, even if *)
(* another one made one meanwhile.                                         *)
SeedCounter(c) ==
    /\ Writing(c) /\ conns[c].seq = NoCounter /\ ~sweep
    /\ LET seq == NextSeq(log)
       IN  /\ conns' = [conns EXCEPT ![c].seq = seq]
           /\ counter' = seq + 1
           /\ races' = IF Taken(c, seq) THEN races \cup {"seed"} ELSE races
    /\ UNCHANGED <<log, sweep, registry, locked, docs, replica, counts, acked>>

Written == [init |-> "inited", store |-> "stored", compact |-> "done"]
(* Faulty variant: the result of the store is ignored.                     *)
FailedIgnored == [init |-> "inited", store |-> "stored", compact |-> "done"]

Failed  == [init |-> "inited", store |-> "open", compact |-> "done"]

(* The caller goes on at pc; a connection that is done keeps nothing.      *)
Resume(c, pc) ==
    conns' = [conns EXCEPT ![c] =
      IF pc = "done" THEN Done
      ELSE [@ EXCEPT !.pc = pc, !.seq = NoCounter,
                     !.data = IF pc = "stored" THEN conns[c].data ELSE {}]]

WriteTakesEffect(c) ==
    /\ Writing(c) /\ conns[c].seq # NoCounter /\ ~sweep
    /\ log' = IF At(c, "compact")
                THEN Compact(log, conns[c].seqs, conns[c].seq, conns[c].data)
                ELSE Put(log, conns[c].seq, conns[c].data)
    /\ Resume(c, Written[conns[c].pc])
    /\ UNCHANGED <<counter, sweep, registry, locked, docs, replica, counts,
                   acked, races>>

WriteFails(c) ==
    /\ Writing(c) /\ CanFail /\ Fault
    /\ Resume(c, Failed[conns[c].pc])
    /\ UNCHANGED <<log, counter, sweep, registry, locked, docs, replica, acked,
                   races>>

(* compact_storage rewrites the file behind its maintenance barrier.       *)
StartSweep ==
    /\ ~sweep /\ Bounded /\ counts.sweeps < MaxSweeps
    /\ sweep' = TRUE
    /\ counts' = [counts EXCEPT !.sweeps = @ + 1]
    /\ UNCHANGED <<log, counter, registry, locked, docs, conns, replica, acked,
                   races>>

(* Faulty variant: a call that waits for the file holds a guard of it.     *)
EndSweepNested ==
    /\ sweep /\ \A c \in Conns : Writing(c) => conns[c].seq # NoCounter
    /\ sweep' = FALSE
    /\ UNCHANGED <<log, counter, registry, locked, docs, conns, replica, counts,
                   acked, races>>

EndSweep ==
    /\ sweep
    /\ sweep' = FALSE
    /\ UNCHANGED <<log, counter, registry, locked, docs, conns, replica, counts,
                   acked, races>>

-----------------------------------------------------------------------------
(* Opening.                                                                *)

Connected(k) == \E c \in Conns : conns[c].client = k /\ conns[c].up

(* A message of the client: its SyncStep1, or an update (its SyncStep2 is   *)
(* one as well).  The state vector of a SyncStep1 is left out: the answer  *)
(* brings what the client lacks, and it may as well bring everything.      *)
Step1 == [step1 |-> TRUE, data |-> {}]
Update(data) == [step1 |-> FALSE, data |-> data]

Served(c) == conns[c].pc \notin {"off", "done"}

(* A client without a connection makes one, and sends its SyncStep1.       *)
Connect(c, k) ==
    /\ At(c, "off") /\ Bounded /\ \A b \in Conns : b < c => ~At(b, "off")
    /\ ~Connected(k) /\ Cardinality({b \in Conns : Served(b)}) < MaxOpen
    /\ conns' = [conns EXCEPT ![c] =
         [@ EXCEPT !.pc = "lookup", !.client = k, !.up = TRUE,
                   !.recv = <<Step1>>]]
    /\ UNCHANGED <<log, counter, sweep, registry, locked, docs, replica, counts,
                   acked, races>>

Join(c, state) ==
    conns' = [conns EXCEPT ![c].pc = "joined", ![c].state = state]

(* The fast path, under the read lock.                                     *)
Lookup(c) ==
    /\ At(c, "lookup") /\ locked = None
    /\ IF registry # None THEN Join(c, registry) ELSE Go(c, "lock")
    /\ UNCHANGED <<log, counter, sweep, registry, locked, docs, replica, counts,
                   acked, races>>

(* Faulty variant: the lock is not held over the load.                     *)
LockRegistryBriefly(c) ==
    /\ At(c, "lock") /\ locked = None
    /\ IF registry # None THEN Join(c, registry) ELSE Go(c, "load")
    /\ UNCHANGED <<log, counter, sweep, registry, locked, docs, replica, counts,
                   acked, races>>

(* The write lock, and the second look.  The lock stays held over the load.*)
LockRegistry(c) ==
    /\ At(c, "lock") /\ locked = None
    /\ IF registry # None
         THEN Join(c, registry) /\ UNCHANGED locked
         ELSE Go(c, "load") /\ locked' = c
    /\ UNCHANGED <<log, counter, sweep, registry, docs, replica, counts, acked,
                   races>>

Optimizing(c) == conns[c].pc \in {"optimize", "merge", "compact"}

(* get_updates reads the stored updates, ...                               *)
LoadReads(c) ==
    /\ At(c, "load") /\ ~sweep
    /\ conns' = [conns EXCEPT ![c].pc = "loaded", ![c].data = Contents(log),
                              ![c].seqs = Seqs(log)]
    /\ races' = IF \E b \in Conns : Optimizing(b) THEN races \cup {"reopen"}
                ELSE races
    /\ UNCHANGED <<log, counter, sweep, registry, locked, docs, replica, counts,
                   acked>>

(* ... from which the worker pool builds the Y.Doc.  Either can fail.       *)
BuildsDoc(c) == At(c, "loaded") /\ conns[c].seqs # {}

LoadFails(c) ==
    /\ At(c, "load") \/ BuildsDoc(c)
    /\ CanFail /\ Fault
    /\ conns' = [conns EXCEPT ![c] = Done]
    /\ locked' = None
    /\ UNCHANGED <<log, counter, sweep, registry, docs, replica, acked, races>>

(* For an empty log the Y.Doc is initialized, and that update, which       *)
(* carries no edit, stored.                                                *)
Initialize(c) ==
    /\ At(c, "loaded") /\ conns[c].seqs = {}
    /\ IssueWrite(c, conns, "init", {})
    /\ UNCHANGED <<log, sweep, registry, locked, docs, replica, counts, acked,
                   races>>

Register(c) ==
    /\ At(c, "inited") \/ BuildsDoc(c)
    /\ docs' = [docs EXCEPT ![c] = conns[c].data]
    /\ registry' = c
    /\ locked' = None
    /\ conns' = [conns EXCEPT ![c].pc = "joined", ![c].state = c,
                              ![c].data = {}, ![c].seqs = {}]
    /\ UNCHANGED <<log, counter, sweep, replica, counts, acked, races>>

(* Faulty variant: the server does not ask for what it lacks.              *)
GreetSilently(c) ==
    /\ At(c, "joined") /\ Go(c, "greeted")
    /\ UNCHANGED <<log, counter, sweep, registry, locked, docs, replica, counts,
                   acked, races>>

(* The server's SyncStep1.  The client answers with what the server lacks. *)
Greet(c) ==
    /\ At(c, "joined")
    /\ LET missing == replica[conns[c].client] \ docs[conns[c].state]
       IN  conns' = [conns EXCEPT
             ![c].pc = "greeted",
             ![c].recv = IF conns[c].up /\ missing # {}
                           THEN Append(@, Update(missing)) ELSE @]
    /\ UNCHANGED <<log, counter, sweep, registry, locked, docs, replica, counts,
                   acked, races>>

(* The tasks are spawned and subscribed to the broadcasts.                 *)
Subscribe(c) ==
    /\ At(c, "greeted")
    /\ conns' = [conns EXCEPT ![c].pc = "open", ![c].tasks = TRUE]
    /\ UNCHANGED <<log, counter, sweep, registry, locked, docs, replica, counts,
                   acked, races>>

-----------------------------------------------------------------------------
(* Editing.                                                                *)

(* A client edits its replica, and sends the edit if it is connected.      *)
Edit(e) ==
    /\ e \notin replica[Author[e]]
    /\ replica' = [replica EXCEPT ![Author[e]] = @ \cup {e}]
    /\ conns' = [c \in Conns |->
         IF conns[c].client = Author[e] /\ conns[c].up
           THEN [conns[c] EXCEPT !.recv = Append(@, Update({e}))]
           ELSE conns[c]]
    /\ UNCHANGED <<log, counter, sweep, registry, locked, docs, counts, acked,
                   races>>

Deliver(c, data) ==
    replica' = IF conns[c].up
                 THEN [replica EXCEPT ![conns[c].client] = @ \cup data]
                 ELSE replica

LiveDoc(c) == docs[conns[c].state]
Receives(c, step1) ==
    At(c, "open") /\ conns[c].recv # <<>> /\ Head(conns[c].recv).step1 = step1
Received(c) == [conns EXCEPT ![c].recv = Tail(@)]

(* The client's SyncStep1, answered from the live document.                *)
AnswerStep1(c) ==
    /\ Receives(c, TRUE)
    /\ conns' = Received(c)
    /\ Deliver(c, LiveDoc(c))
    /\ UNCHANGED <<log, counter, sweep, registry, locked, docs, counts, acked,
                   races>>

(* apply_and_store drops updates of read-only connections and updates that *)
(* change nothing.                                                         *)
Applies(c, data) ==
    conns[c].client \notin Readers /\ ~(data \subseteq LiveDoc(c))

DropUpdate(c) ==
    /\ Receives(c, FALSE) /\ ~Applies(c, Head(conns[c].recv).data)
    /\ conns' = Received(c)
    /\ UNCHANGED <<log, counter, sweep, registry, locked, docs, replica, counts,
                   acked, races>>

(* Any other is applied to the live document, then stored.                 *)
ApplyUpdate(c) ==
    /\ Receives(c, FALSE) /\ Applies(c, Head(conns[c].recv).data)
    /\ LET data == Head(conns[c].recv).data
       IN  /\ docs' = [docs EXCEPT ![conns[c].state] = @ \cup data]
           /\ IssueWrite(c, Received(c), "store", data)
    /\ UNCHANGED <<log, sweep, registry, locked, replica, counts, acked, races>>

(* A receiver that falls more than the capacity behind loses the oldest.   *)
Enqueue(conn, msg) ==
    IF Len(conn.bcast) < Capacity
      THEN [conn EXCEPT !.bcast = Append(@, msg)]
      ELSE [conn EXCEPT !.bcast = Append(Tail(@), msg), !.lagged = TRUE]

(* Once stored, it goes to every subscriber.  The sender's own receiver     *)
(* skips it, and the echo to the sender is no news to it.                  *)
Skipped == {}

Broadcast(c) ==
    /\ At(c, "stored")
    /\ conns' = [d \in Conns |->
         LET conn == IF d = c THEN [conns[c] EXCEPT !.pc = "open", !.data = {}]
                     ELSE conns[d]
         IN  IF conns[d].tasks /\ conns[d].state = conns[c].state
               THEN Enqueue(conn, IF d = c THEN Skipped ELSE conns[c].data)
               ELSE conn]
    /\ acked' = acked \cup conns[c].data
    /\ UNCHANGED <<log, counter, sweep, registry, locked, docs, replica, counts,
                   races>>

(* The sync broadcast task of a connection.                                *)
Forward(c) ==
    /\ conns[c].tasks /\ conns[c].bcast # <<>>
    /\ conns[c].up \/ Head(conns[c].bcast) = Skipped
    /\ conns' = [conns EXCEPT ![c].bcast = Tail(@)]
    /\ Deliver(c, Head(conns[c].bcast))
    /\ UNCHANGED <<log, counter, sweep, registry, locked, docs, counts, acked,
                   races>>

-----------------------------------------------------------------------------
(* Closing.                                                                *)

(* The client goes; what it sent last may or may not arrive.               *)
Disconnect(c) ==
    /\ conns[c].up
    /\ \E rest \in {conns[c].recv, <<>>} :
         conns' = [conns EXCEPT ![c].up = FALSE, ![c].recv = rest]
    /\ UNCHANGED <<log, counter, sweep, registry, locked, docs, replica, counts,
                   acked, races>>

(* With the client gone a broadcast task fails to send and ends; the       *)
(* awareness task may have gone the same way.                              *)
TasksEnd(c) ==
    /\ conns[c].tasks /\ conns[c].bcast # <<>> /\ ~conns[c].up
    /\ Head(conns[c].bcast) # Skipped
    /\ conns' = [conns EXCEPT ![c].tasks = FALSE, ![c].bcast = <<>>]
    /\ UNCHANGED <<log, counter, sweep, registry, locked, docs, replica, counts,
                   acked, races>>

(* Faulty variant: the aborted tasks are not waited for.                   *)
CloseHastily(c) ==
    /\ At(c, "open") /\ ~conns[c].up /\ conns[c].recv = <<>>
    /\ Go(c, "closed")
    /\ UNCHANGED <<log, counter, sweep, registry, locked, docs, replica, counts,
                   acked, races>>

(* The receive task is through; the others are aborted and waited for.     *)
Close(c) ==
    /\ At(c, "open") /\ ~conns[c].up /\ conns[c].recv = <<>>
    /\ conns' = [conns EXCEPT ![c] = [Off EXCEPT !.pc = "closed"]]
    /\ UNCHANGED <<log, counter, sweep, registry, locked, docs, replica, counts,
                   acked, races>>

(* is_last_connection                                                      *)
CheckLast(c) ==
    /\ At(c, "closed") /\ locked = None
    /\ IF registry # None /\ Unwatched(registry)
         THEN Go(c, "grace")
         ELSE conns' = [conns EXCEPT ![c] = Done]
    /\ UNCHANGED <<log, counter, sweep, registry, locked, docs, replica, counts,
                   acked, races>>

(* A connection has the DocState without being counted as a receiver.      *)
Uncounted(c) == Attached(c) /\ ~conns[c].tasks

(* Faulty variant: the receivers are not counted again.                    *)
UnregisterUnchecked(c) ==
    /\ At(c, "grace") /\ locked = None /\ registry # None
    /\ conns' = [conns EXCEPT ![c].pc = "optimize", ![c].state = registry]
    /\ registry' = None
    /\ races' = IF \E d \in Conns : Uncounted(d) THEN races \cup {"join"} ELSE races
    /\ UNCHANGED <<log, counter, sweep, locked, docs, replica, counts, acked>>

(* After the grace period the registered DocState -- whichever it is now -- *)
(* is removed, unless somebody subscribed.                                 *)
Unregister(c) ==
    /\ At(c, "grace") /\ locked = None
    /\ IF registry # None /\ Unwatched(registry)
         THEN /\ conns' = [conns EXCEPT ![c].pc = "optimize", ![c].state = registry]
              /\ registry' = None
              /\ races' = IF \E d \in Conns : Uncounted(d)
                            THEN races \cup {"join"} ELSE races
         ELSE /\ conns' = [conns EXCEPT ![c] = Done]
              /\ UNCHANGED <<registry, races>>
    /\ UNCHANGED <<log, counter, sweep, locked, docs, replica, counts, acked>>

(* optimize_document: which updates are stored, ...                        *)
OptimizeReads(c) ==
    /\ At(c, "optimize") /\ ~sweep
    /\ conns' = IF Cardinality(log) <= 1
                  THEN [conns EXCEPT ![c] = Done]
                  ELSE [conns EXCEPT ![c].pc = "merge", ![c].seqs = Seqs(log)]
    /\ UNCHANGED <<log, counter, sweep, registry, locked, docs, replica, counts,
                   acked, races>>

OptimizeFails(c) ==
    /\ At(c, "optimize") /\ CanFail /\ Fault
    /\ conns' = [conns EXCEPT ![c] = Done]
    /\ UNCHANGED <<log, counter, sweep, registry, locked, docs, replica, acked,
                   races>>

(* ... then all of them are replaced by the state of the live document, ... *)
OptimizeMerges(c) ==
    /\ At(c, "merge")
    /\ IssueWrite(c, conns, "compact", LiveDoc(c))
    /\ UNCHANGED <<log, sweep, registry, locked, docs, replica, counts, acked,
                   races>>

(* ... unless that is not smaller than they are.                           *)
OptimizeSkips(c) ==
    /\ At(c, "merge")
    /\ conns' = [conns EXCEPT ![c] = Done]
    /\ UNCHANGED <<log, counter, sweep, registry, locked, docs, replica, counts,
                   acked, races>>

-----------------------------------------------------------------------------
(* The process stops and starts again; the log and the replicas remain.    *)
Crash ==
    /\ Bounded /\ counts.crashes < MaxCrashes
    /\ counts' = [counts EXCEPT !.crashes = @ + 1]
    /\ counter' = NoCounter
    /\ sweep' = FALSE
    /\ registry' = None
    /\ locked' = None
    /\ docs' = [c \in Conns |-> {}]
    /\ conns' = [c \in Conns |-> IF At(c, "off") THEN Off ELSE Done]
    /\ UNCHANGED <<log, replica, acked, races>>

Open(c) ==
    \/ Lookup(c) \/ LockRegistry(c)
    \/ LoadReads(c) \/ LoadFails(c) \/ Initialize(c) \/ Register(c)
    \/ Greet(c) \/ Subscribe(c)

Serve(c) == AnswerStep1(c) \/ DropUpdate(c) \/ ApplyUpdate(c) \/ Broadcast(c)

Write(c) == SeedCounter(c) \/ WriteTakesEffect(c) \/ WriteFails(c)

Finish(c) ==
    \/ Close(c) \/ CheckLast(c) \/ Unregister(c)
    \/ OptimizeReads(c) \/ OptimizeFails(c) \/ OptimizeMerges(c) \/ OptimizeSkips(c)

Next ==
    \/ \E c \in Conns, k \in Clients : Connect(c, k)
    \/ \E e \in Edits : Edit(e)
    \/ \E c \in Conns : \/ Open(c) \/ Serve(c) \/ Write(c) \/ Forward(c)
                        \/ Disconnect(c) \/ TasksEnd(c) \/ Finish(c)
    \/ StartSweep \/ EndSweep
    \/ Crash

Spec == Init /\ [][Next]_vars
=============================================================================
