------------------------- MODULE CrdtDocsProperties -------------------------
(***************************************************************************)
(* What a live document must never do, over the state of CrdtDocs.         *)
(***************************************************************************)
EXTENDS CrdtDocs

(* What the server has broadcast as stored can be read back from the log,  *)
(* whatever connections, sweeps, failed writes and restarts come between:  *)
(* compaction removes nothing that the document it merges from lacks.      *)
(* Three overlaps are excepted: a DocState removed while a connection that *)
(* has it is not subscribed, a load while the previous DocState is being   *)
(* compacted, and two stores that seed the counter at once.                *)
AckedStored == races = {} => acked \subseteq Contents(log)

(* The same without exception: optimize_document merges from a document    *)
(* that "already has all updates applied".                                 *)
MergesAllUpdates ==
    \A c \in Conns : At(c, "compact") =>
      UNION {row[2] : row \in {r \in log : r[1] \in conns[c].seqs}}
        \subseteq conns[c].data

(* One live document: unless a DocState was removed under a connection     *)
(* that had not subscribed yet, all connections that can edit share the    *)
(* registered one.                                                         *)
OneLiveDoc ==
    "join" \notin races =>
      \A c \in Conns : Attached(c) => conns[c].state = registry

(* Only one connection ever initializes a document: while one does, nothing *)
(* is stored and nobody has the document open, unless an earlier           *)
(* connection could not store its own initial update.                      *)
InitializesAlone ==
    counts.faults = 0 =>
      \A c \in Conns : At(c, "init") =>
        log = {} /\ \A d \in Conns \ {c} : ~Attached(d) /\ ~At(d, "init")

(* A connection with nothing left to do.                                   *)
Settled(c) ==
    At(c, "open") /\ conns[c].up /\ conns[c].recv = <<>> /\ conns[c].bcast = <<>>

(* Convergence: when a document's connections have come to rest, each      *)
(* client has what the live document has, and the document has what a      *)
(* client that may write has -- unless its receiver lagged, or a store     *)
(* failed and its update was not broadcast.                                *)
Converged ==
    \A c \in Conns :
      /\ Settled(c) /\ ~conns[c].lagged /\ counts.faults = 0
      /\ \A d \in Conns : conns[d].state = conns[c].state => ~At(d, "store") /\ ~At(d, "stored")
      => /\ LiveDoc(c) \subseteq replica[conns[c].client]
         /\ conns[c].client \notin Readers => replica[conns[c].client] \subseteq LiveDoc(c)

(* No leak: when all connections are gone, so is the live document.        *)
NothingLeft ==
    (\A c \in Conns : conns[c].pc \in {"off", "done"})
      => registry = None /\ locked = None

-----------------------------------------------------------------------------
(* Fairness: the worker polls every future that can go on, the database    *)
(* answers, a sweep ends, and the write lock of the registry is granted in *)
(* turn.  Nothing obliges a client to connect, edit or leave.              *)
Locks(c) == Lookup(c) \/ LockRegistry(c) \/ CheckLast(c) \/ Unregister(c)

Works(c) ==
    \/ LoadReads(c) \/ LoadFails(c) \/ Initialize(c) \/ Register(c)
    \/ Greet(c) \/ Subscribe(c) \/ Serve(c) \/ Write(c) \/ Close(c)
    \/ OptimizeReads(c) \/ OptimizeFails(c) \/ OptimizeMerges(c) \/ OptimizeSkips(c)

Fairness ==
    /\ WF_vars(EndSweep)
    /\ \A c \in Conns : SF_vars(Locks(c)) /\ WF_vars(Works(c))

FairSpec == Spec /\ Fairness

(* A connection whose client is gone ends: no wait for the registry's lock, *)
(* the file's barrier or another connection lasts for ever.                *)
ClosesEnd == \A c \in Conns : ~conns[c].up /\ ~At(c, "off") ~> At(c, "done")
=============================================================================
