-------------------------- MODULE CrdtDocs_proofs ---------------------------
(***************************************************************************)
(* The safety of a CRDT document, for any connections, clients, edits and  *)
(* bounds: one live document, one initialization, nothing that was         *)
(* broadcast as stored is lost, clients converge, nothing stays behind.    *)
(***************************************************************************)
EXTENDS CrdtDocsProperties, TLAPS, WellFoundedInduction

(* Where a connection can be.                                              *)
Entering(c) == conns[c].pc \in {"lookup", "lock"}
Fetched(c)  == conns[c].pc \in {"loaded", "init", "inited"}
Loading(c)  == At(c, "load") \/ Fetched(c)
Storing(c)  == conns[c].pc \in {"store", "stored"}
Serving(c)  == conns[c].pc \in {"open", "store", "stored"}
Places == {"off", "lookup", "lock", "load", "loaded", "init", "inited", "joined",
           "greeted", "open", "store", "stored", "closed", "grace", "optimize",
           "merge", "compact", "done"}

Message ==
    {m \in [step1 : BOOLEAN, data : SUBSET Edits] : m.step1 => m.data = {}}

Connection ==
    [pc : Places, client : Clients \cup {None}, state : Conns \cup {None},
     up : BOOLEAN, tasks : BOOLEAN, recv : Seq(Message), bcast : Seq(SUBSET Edits),
     lagged : BOOLEAN, seq : Nat \cup {NoCounter}, data : SUBSET Edits,
     seqs : SUBSET Nat]

LogOK(l) ==
    /\ l \subseteq Nat \X SUBSET Edits
    /\ \E n \in Nat : \A s \in Seqs(l) : s < n

CountsOK == counts \in [crashes : Nat, faults : Nat, sweeps : Nat]

(* Types, and who has a client, a DocState and subscribed tasks.           *)
CrdtTypeOK ==
    /\ LogOK(log)
    /\ counter \in Nat \cup {NoCounter}
    /\ sweep \in BOOLEAN
    /\ registry \in Conns \cup {None}
    /\ locked \in Conns \cup {None}
    /\ docs \in [Conns -> SUBSET Edits]
    /\ conns \in [Conns -> Connection]
    /\ replica \in [Clients -> SUBSET Edits]
    /\ CountsOK
    /\ acked \subseteq Edits
    /\ races \subseteq {"seed", "reopen", "join"}

PlacesOK ==
    \A c \in Conns :
      /\ Attached(c) \/ Optimizing(c) => conns[c].state \in Conns
      /\ Entering(c) \/ Loading(c) \/ Attached(c) => conns[c].client \in Clients
      /\ conns[c].up => Entering(c) \/ Loading(c) \/ Attached(c)
      /\ conns[c].tasks => Serving(c)
      /\ Writing(c) \/ conns[c].seq = NoCounter

(* The registry's write lock is held over the load and nowhere else, and   *)
(* nothing is registered meanwhile.                                        *)
LockInv ==
    /\ locked # None => Loading(locked)
    /\ \A c \in Conns : Loading(c) => locked = c /\ registry = None

(* As long as nothing failed, whoever has the document open, registered or *)
(* in compaction has something stored, and whoever initializes has not.    *)
FirstInv ==
    counts.faults = 0 =>
      /\ registry # None => log # {}
      /\ \A c \in Conns :
           /\ Attached(c) \/ Optimizing(c) \/ At(c, "inited") => log # {}
           /\ At(c, "init") => log = {}
           /\ At(c, "loaded") => (conns[c].seqs = {} <=> log = {})

(* A registered document has somebody who will take it out.                *)
LeftInv ==
    registry # None =>
      \E c \in Conns : Attached(c) \/ conns[c].pc \in {"closed", "grace"}

(* The numbers: what is handed out next is new, and what was handed out    *)
(* neither meets a row nor another number handed out.                      *)
Numbered(c) == Writing(c) /\ conns[c].seq # NoCounter

NumbersInv ==
    /\ counter # NoCounter => \A s \in Seqs(log) : s < counter
    /\ \A c \in Conns : Numbered(c) =>
         /\ counter # NoCounter /\ conns[c].seq < counter
         /\ conns[c].seq \notin Seqs(log)
         /\ \A d \in Conns \ {c} : Numbered(d) => conns[d].seq # conns[c].seq

(* The registered document has what the log has; so has what a load has    *)
(* read -- nothing, where it initializes -- and what a compaction is about *)
(* to write.  While a document is compacted nobody else has it.            *)
ContentsInv ==
    /\ acked \subseteq Contents(log)
    /\ registry # None => Contents(log) \subseteq docs[registry]
    /\ \A c \in Conns :
         /\ Storing(c) => conns[c].data \subseteq docs[conns[c].state]
         /\ At(c, "stored") => conns[c].data \subseteq Contents(log)
         /\ Fetched(c) =>
              /\ Contents(log) \subseteq conns[c].data
              /\ ~At(c, "loaded") \/ conns[c].seqs = {} => conns[c].data = {}
         /\ Optimizing(c) =>
              /\ registry = None
              /\ \A d \in Conns : /\ ~Attached(d) /\ ~Fetched(d)
                                  /\ Optimizing(d) => d = c
              /\ Contents(log) \subseteq docs[conns[c].state]
              /\ At(c, "compact") => Contents(log) \subseteq conns[c].data

(* Nothing that was broadcast as stored is lost, with what it needs.       *)
AckedInv == races = {} => NumbersInv /\ ContentsInv

(* What is on its way to a client, and from it.                            *)
Carried(queue) == UNION {queue[i] : i \in DOMAIN queue}
Spoken(queue) == UNION {queue[i].data : i \in DOMAIN queue}
Asks(queue) == \E i \in DOMAIN queue : queue[i].step1

Sent(c) == Carried(conns[c].bcast)
Unsaid(c) == Spoken(conns[c].recv)
AwaitsAnswer(c) == Asks(conns[c].recv)
Unheard(state) ==
    UNION {conns[d].data : d \in {b \in Conns : Storing(b) /\ conns[b].state = state}}

(* A DocState is named after a connection that is past its load.           *)
NamesInv ==
    \A c \in Conns : registry = c \/ (\E d \in Conns : conns[d].state = c)
      => ~At(c, "off") /\ ~Entering(c) /\ ~Loading(c)

(* A client has one connection.                                            *)
PeersInv ==
    \A c, d \in Conns :
      conns[c].up /\ conns[d].up /\ conns[c].client = conns[d].client => c = d

(* What is on its way to a client is in the document; what is on its way   *)
(* from it, and what is being stored for it, the client has.  While the    *)
(* client is there the tasks run, and before they do its SyncStep1 waits.  *)
WireOK(c) ==
    /\ conns[c].tasks => Sent(c) \subseteq LiveDoc(c)
    /\ ~conns[c].tasks => conns[c].bcast = <<>>
    /\ Storing(c) => conns[c].data \subseteq LiveDoc(c)
    /\ conns[c].up =>
         /\ Unsaid(c) \subseteq replica[conns[c].client]
         /\ Storing(c) => conns[c].data \subseteq replica[conns[c].client]
         /\ Serving(c) => conns[c].tasks
         /\ ~Serving(c) => AwaitsAnswer(c)

WireInv == \A c \in Conns : WireOK(c)

(* What a served client lacks is on its way to it, or about to be sent, ... *)
HeardOK(c) ==
    conns[c].up /\ Serving(c) /\ ~conns[c].lagged /\ ~AwaitsAnswer(c)
      => LiveDoc(c) \subseteq
           replica[conns[c].client] \cup Sent(c) \cup Unheard(conns[c].state)

HeardInv == counts.faults = 0 => \A c \in Conns : HeardOK(c)

(* ... and what the document lacks is on its way from it.                  *)
SaidOK(c) ==
    conns[c].up /\ (At(c, "greeted") \/ Serving(c)) /\ conns[c].client \notin Readers
      => replica[conns[c].client] \subseteq LiveDoc(c) \cup Unsaid(c)

SaidInv == \A c \in Conns : SaidOK(c)

-----------------------------------------------------------------------------
(* Numbers: the highest of a bounded set of numbers exists, so the next    *)
(* one is above them all.                                                  *)

LEMMA HighestExists ==
    ASSUME NEW S \in SUBSET Nat, S # {}, NEW n \in Nat, \A s \in S : s < n
    PROVE  \E s \in S : \A t \in S : s >= t
<1> DEFINE Bounds == {b \in Nat : \A s \in S : s <= b}
           Less == OpToRel(<, Nat)
<1>1. n \in Bounds
  OBVIOUS
<1>2. PICK b \in Bounds : \A x \in Bounds : <<x, b>> \notin Less
  <2>1. IsWellFoundedOn(Less, Nat)
    BY NatLessThanWellFounded
  <2>2. Bounds \subseteq Nat /\ Bounds # {}
    BY <1>1
  <2> HIDE DEF Bounds, Less
  <2>3. \E x \in Bounds : \A y \in Bounds : ~ (<<y, x>> \in Less)
    BY <2>1, <2>2, WFMin, Zenon
  <2> QED BY <2>3
<1>3. \A x \in Bounds : ~(x < b)
  BY <1>2 DEF OpToRel
<1>4. b \in S
  <2>1. SUFFICES ASSUME b \notin S PROVE FALSE
    OBVIOUS
  <2>2. \A s \in S : s < b
    BY <2>1
  <2>3. b # 0
    <3>1. PICK s \in S : s < b
      BY <2>2
    <3> QED BY <3>1
  <2>4. b - 1 \in Bounds
    BY <2>2, <2>3
  <2> QED BY <1>3, <2>4
<1> QED BY <1>4

LEMMA NextSeqFresh ==
    ASSUME NEW l, LogOK(l)
    PROVE  NextSeq(l) \in Nat /\ \A s \in Seqs(l) : s < NextSeq(l)
<1>1. CASE l = {}
  BY <1>1 DEF NextSeq, Seqs
<1>2. CASE l # {}
  <2>1. Seqs(l) \in SUBSET Nat /\ Seqs(l) # {}
    BY <1>2 DEF LogOK, Seqs
  <2>2. \E s \in Seqs(l) : \A t \in Seqs(l) : s >= t
    BY <2>1, HighestExists DEF LogOK
  <2> DEFINE top == CHOOSE s \in Seqs(l) : \A t \in Seqs(l) : s >= t
  <2>3. top \in Seqs(l) /\ \A t \in Seqs(l) : top >= t
    BY <2>2
  <2>4. NextSeq(l) = 1 + top
    BY <1>2 DEF NextSeq
  <2> HIDE DEF top
  <2> QED BY <2>1, <2>3, <2>4
<1> QED BY <1>1, <1>2

(* What Put and Compact leave in the log.                                  *)
LEMMA PutOK ==
    ASSUME NEW l, LogOK(l), NEW seq \in Nat, NEW u \in SUBSET Edits
    PROVE  /\ LogOK(Put(l, seq, u))
           /\ Seqs(Put(l, seq, u)) \subseteq Seqs(l) \cup {seq}
           /\ Put(l, seq, u) # {}
           /\ Contents(Put(l, seq, u)) \subseteq Contents(l) \cup u
           /\ u \subseteq Contents(Put(l, seq, u))
           /\ seq \notin Seqs(l) =>
                Contents(Put(l, seq, u)) = Contents(l) \cup u
<1>1. Seqs(Put(l, seq, u)) \subseteq Seqs(l) \cup {seq}
  BY DEF Put, Seqs
<1>2. PICK n \in Nat : \A s \in Seqs(l) : s < n
  BY DEF LogOK
<1>3. \E m \in Nat : \A s \in Seqs(l) \cup {seq} : s < m
  <2>1. Seqs(l) \subseteq Nat
    BY DEF LogOK, Seqs
  <2>2. \A s \in Seqs(l) \cup {seq} : s < n + seq + 1
    BY <1>2, <2>1
  <2> QED BY <2>2
<1>4. LogOK(Put(l, seq, u))
  BY <1>1, <1>3 DEF LogOK, Put
<1>5. <<seq, u>> \in Put(l, seq, u)
  BY DEF Put
<1>6. /\ Contents(Put(l, seq, u)) \subseteq Contents(l) \cup u
      /\ u \subseteq Contents(Put(l, seq, u))
  <2>1. \A row \in Put(l, seq, u) : row \in l \/ row[2] = u
    BY DEF Put
  <2> HIDE DEF Put
  <2> QED BY <1>5, <2>1 DEF Contents
<1>7. ASSUME seq \notin Seqs(l)
      PROVE  Contents(Put(l, seq, u)) = Contents(l) \cup u
  <2>1. l \subseteq Put(l, seq, u)
    BY <1>7 DEF Put, Seqs
  <2> QED BY <1>6, <2>1 DEF Contents
<1> QED BY <1>1, <1>4, <1>5, <1>6, <1>7

LEMMA CompactOK ==
    ASSUME NEW l, LogOK(l), NEW seqs \in SUBSET Nat, NEW seq \in Nat, NEW u \in SUBSET Edits
    PROVE  /\ LogOK(Compact(l, seqs, seq, u))
           /\ Seqs(Compact(l, seqs, seq, u)) \subseteq Seqs(l) \cup {seq}
           /\ Compact(l, seqs, seq, u) # {}
           /\ u \subseteq Contents(Compact(l, seqs, seq, u))
           /\ Contents(Compact(l, seqs, seq, u)) \subseteq Contents(l) \cup u
<1> DEFINE k == {row \in l : row[1] \notin seqs}
<1>1. LogOK(k) /\ Seqs(k) \subseteq Seqs(l) /\ Contents(k) \subseteq Contents(l)
  BY DEF LogOK, Seqs, Contents
<1>2. Compact(l, seqs, seq, u) = Put(k, seq, u)
  BY DEF Compact
<1> HIDE DEF k
<1> QED BY <1>1, <1>2, PutOK

-----------------------------------------------------------------------------
(* Types.                                                                  *)

LEMMA QueueOK ==
    /\ \A q \in Seq(Message) : q # <<>> =>
         /\ Head(q) \in Message /\ Tail(q) \in Seq(Message)
    /\ \A q \in Seq(Message), m \in Message : Append(q, m) \in Seq(Message)
    /\ \A q \in Seq(SUBSET Edits) : q # <<>> =>
         /\ Head(q) \in SUBSET Edits /\ Tail(q) \in Seq(SUBSET Edits)
    /\ \A q \in Seq(SUBSET Edits), u \in SUBSET Edits :
         Append(q, u) \in Seq(SUBSET Edits)
OBVIOUS

LEMMA OffOK == Off \in Connection /\ Done \in Connection
<1>1. <<>> \in Seq(Message) /\ <<>> \in Seq(SUBSET Edits)
  OBVIOUS
<1>2. "off" \in Places /\ "done" \in Places
  BY DEF Places
<1>3. Off \in Connection
  BY <1>1, <1>2 DEF Off, Connection
<1>4. Done = [Off EXCEPT !.pc = "done"]
  BY DEF Done
<1> QED BY <1>2, <1>3, <1>4 DEF Connection

LEMMA EnqueueOK ==
    ASSUME NEW n \in Connection, NEW u \in SUBSET Edits
    PROVE  LET m == Enqueue(n, u)
           IN  /\ m \in Connection
               /\ m.pc = n.pc /\ m.client = n.client /\ m.state = n.state
               /\ m.up = n.up /\ m.tasks = n.tasks /\ m.recv = n.recv
               /\ m.seq = n.seq /\ m.data = n.data /\ m.seqs = n.seqs
               /\ \/ m.bcast = Append(n.bcast, u) /\ m.lagged = n.lagged
                  \/ /\ n.bcast # <<>> /\ m.lagged = TRUE
                     /\ m.bcast = Append(Tail(n.bcast), u)
<1>1. n.bcast \in Seq(SUBSET Edits) /\ n.lagged \in BOOLEAN
  BY DEF Connection
<1>2. CASE Len(n.bcast) < Capacity
  <2>1. Append(n.bcast, u) \in Seq(SUBSET Edits)
    BY <1>1, QueueOK
  <2>2. Enqueue(n, u) = [n EXCEPT !.bcast = Append(n.bcast, u)]
    BY <1>2 DEF Enqueue, Connection
  <2> QED BY <2>1, <2>2 DEF Connection
<1>3. CASE ~(Len(n.bcast) < Capacity)
  <2>1. n.bcast # <<>>
    BY <1>1, <1>3, CapacityAssumption
  <2>2. Append(Tail(n.bcast), u) \in Seq(SUBSET Edits)
    BY <1>1, <2>1, QueueOK
  <2>3. Enqueue(n, u) = [n EXCEPT !.bcast = Append(Tail(n.bcast), u), !.lagged = TRUE]
    BY <1>3 DEF Enqueue
  <2> QED BY <2>1, <2>2, <2>3 DEF Connection
<1> QED BY <1>2, <1>3

(* What is issued to a call: a number past the counter or past the log, or *)
(* none yet.                                                               *)
Issued(seq) ==
    /\ counter' \in Nat \cup {NoCounter}
    /\ seq = NoCounter => counter' = counter
    /\ seq # NoCounter => counter' = seq + 1
    /\ counter # NoCounter => seq = counter
    /\ counter = NoCounter /\ seq # NoCounter => seq = NextSeq(log)

Calling(cn, c, pc, data, seq) ==
    [cn EXCEPT ![c].pc = pc, ![c].data = data, ![c].seq = seq]

LEMMA IssueOK ==
    ASSUME CrdtTypeOK, NEW c \in Conns, NEW cn,
           NEW pc, NEW data, IssueWrite(c, cn, pc, data)
    PROVE  \E seq \in Nat \cup {NoCounter} :
             conns' = Calling(cn, c, pc, data, seq) /\ Issued(seq)
<1> DEFINE seq == IF counter # NoCounter THEN counter
                  ELSE IF sweep THEN NoCounter ELSE NextSeq(log)
<1>1. NextSeq(log) \in Nat
  BY NextSeqFresh DEF CrdtTypeOK
<1>2. seq \in Nat \cup {NoCounter}
  BY <1>1 DEF CrdtTypeOK
<1>3. /\ conns' = Calling(cn, c, pc, data, seq)
      /\ counter' = IF seq = NoCounter THEN counter ELSE seq + 1
  BY DEF IssueWrite, Calling
<1>4. /\ counter # NoCounter => seq = counter
      /\ counter = NoCounter /\ seq # NoCounter => seq = NextSeq(log)
  OBVIOUS
<1>5. counter \in Nat \cup {NoCounter}
  BY DEF CrdtTypeOK
<1> HIDE DEF seq
<1>6. Issued(seq)
  BY <1>2, <1>3, <1>4, <1>5 DEF Issued
<1> QED BY <1>2, <1>3, <1>6

-----------------------------------------------------------------------------
(* How a step changes the connections.                                     *)
Frame(c) ==
    /\ conns' \in [Conns -> Connection]
    /\ \A d \in Conns \ {c} : conns'[d] = conns[d]

(* c goes to pc; its client, its socket and its tasks stay as they are.    *)
Moved(c, pc, state, seq, data, seqs) ==
    /\ Frame(c)
    /\ conns'[c].pc = pc /\ conns'[c].state = state
    /\ conns'[c].seq = seq /\ conns'[c].data = data /\ conns'[c].seqs = seqs
    /\ conns'[c].client = conns[c].client /\ conns'[c].up = conns[c].up
    /\ conns'[c].tasks = conns[c].tasks /\ conns'[c].recv = conns[c].recv
    /\ conns'[c].bcast = conns[c].bcast /\ conns'[c].lagged = conns[c].lagged

(* c keeps nothing.                                                        *)
Cleared(c, pc) ==
    /\ Frame(c)
    /\ conns'[c].pc = pc /\ conns'[c].state = None /\ conns'[c].client = None
    /\ conns'[c].seq = NoCounter /\ conns'[c].data = {} /\ conns'[c].seqs = {}
    /\ ~conns'[c].up /\ ~conns'[c].tasks /\ ~conns'[c].lagged
    /\ conns'[c].recv = <<>> /\ conns'[c].bcast = <<>>

(* c stays where it is, but for its client, its socket and its tasks.      *)
Stays(c, client, up, tasks, recv, bcast) ==
    /\ Frame(c)
    /\ conns'[c].state = conns[c].state
    /\ conns'[c].seq = conns[c].seq /\ conns'[c].data = conns[c].data
    /\ conns'[c].seqs = conns[c].seqs /\ conns'[c].lagged = conns[c].lagged
    /\ conns'[c].client = client /\ conns'[c].up = up
    /\ conns'[c].tasks = tasks /\ conns'[c].recv = recv /\ conns'[c].bcast = bcast

LEMMA FrameOK ==
    ASSUME conns \in [Conns -> Connection], NEW c \in Conns, NEW n \in Connection,
           conns' = [conns EXCEPT ![c] = n]
    PROVE  Frame(c) /\ conns'[c] = n
BY DEF Frame

LEMMA MovedOK ==
    ASSUME conns \in [Conns -> Connection], NEW c \in Conns, NEW n,
           conns' = [conns EXCEPT ![c] = n],
           NEW pc \in Places, NEW state \in Conns \cup {None},
           NEW seq \in Nat \cup {NoCounter}, NEW data \in SUBSET Edits,
           NEW seqs \in SUBSET Nat,
           n = [conns[c] EXCEPT !.pc = pc, !.state = state, !.seq = seq,
                                !.data = data, !.seqs = seqs]
    PROVE  Moved(c, pc, state, seq, data, seqs)
<1>1. n \in Connection /\ conns[c] \in Connection
  BY DEF Connection
<1>2. Frame(c) /\ conns'[c] = n
  BY <1>1, FrameOK
<1> QED BY <1>1, <1>2 DEF Moved, Connection

LEMMA StaysOK ==
    ASSUME conns \in [Conns -> Connection], NEW c \in Conns, NEW n \in Connection,
           conns' = [conns EXCEPT ![c] = n],
           n.state = conns[c].state, n.seq = conns[c].seq, n.data = conns[c].data,
           n.seqs = conns[c].seqs, n.lagged = conns[c].lagged
    PROVE  Stays(c, n.client, n.up, n.tasks, n.recv, n.bcast) /\ conns'[c].pc = n.pc
<1>1. Frame(c) /\ conns'[c] = n
  BY FrameOK
<1> QED BY <1>1 DEF Stays

LEMMA ClearedOK ==
    ASSUME conns \in [Conns -> Connection], NEW c \in Conns,
           NEW pc \in Places, conns' = [conns EXCEPT ![c] = [Off EXCEPT !.pc = pc]]
    PROVE  Cleared(c, pc)
<1> DEFINE n == [Off EXCEPT !.pc = pc]
<1>1. n \in Connection
  BY OffOK DEF Connection
<1>2. /\ n.pc = pc /\ n.state = None /\ n.client = None /\ n.seq = NoCounter
      /\ n.data = {} /\ n.seqs = {} /\ n.up = FALSE /\ n.tasks = FALSE
      /\ n.lagged = FALSE /\ n.recv = <<>> /\ n.bcast = <<>>
  BY DEF Off
<1>3. conns' = [conns EXCEPT ![c] = n]
  OBVIOUS
<1> HIDE DEF n
<1>4. Frame(c) /\ conns'[c] = n
  BY <1>1, <1>3, FrameOK
<1> QED BY <1>2, <1>4 DEF Cleared

LEMMA DoneOK ==
    ASSUME conns \in [Conns -> Connection], NEW c \in Conns,
           conns' = [conns EXCEPT ![c] = Done]
    PROVE  Cleared(c, "done")
BY ClearedOK DEF Done, Places

LEMMA FieldsOK ==
    ASSUME CrdtTypeOK, NEW c \in Conns
    PROVE  /\ conns \in [Conns -> Connection] /\ conns[c] \in Connection
           /\ conns[c].pc \in Places /\ conns[c].client \in Clients \cup {None}
           /\ conns[c].state \in Conns \cup {None} /\ conns[c].up \in BOOLEAN
           /\ conns[c].tasks \in BOOLEAN /\ conns[c].recv \in Seq(Message)
           /\ conns[c].bcast \in Seq(SUBSET Edits) /\ conns[c].lagged \in BOOLEAN
           /\ conns[c].seq \in Nat \cup {NoCounter} /\ conns[c].data \in SUBSET Edits
           /\ conns[c].seqs \in SUBSET Nat
BY DEF CrdtTypeOK, Connection

-----------------------------------------------------------------------------
(* What the actions do to the connections: in these terms, and with the    *)
(* record updates of the specification expanded once and for all.          *)

LEMMA LookupEffect ==
    ASSUME CrdtTypeOK, NEW c \in Conns, Lookup(c)
    PROVE  /\ At(c, "lookup") /\ locked = None
           /\ \/ /\ registry # None
                 /\ Moved(c, "joined", registry, conns[c].seq, conns[c].data, conns[c].seqs)
              \/ Moved(c, "lock", conns[c].state, conns[c].seq, conns[c].data, conns[c].seqs)
           /\ UNCHANGED <<log, counter, sweep, registry, locked, docs, replica,
                          counts, acked, races>>
<1>1. At(c, "lookup") /\ locked = None
      /\ UNCHANGED <<log, counter, sweep, registry, locked, docs, replica, counts,
                     acked, races>>
  BY DEF Lookup
<1>2. registry \in Conns \cup {None}
  BY DEF CrdtTypeOK
<1>3. "joined" \in Places /\ "lock" \in Places
  BY DEF Places
<1> DEFINE n(pc, state) ==
      [conns[c] EXCEPT !.pc = pc, !.state = state, !.seq = conns[c].seq,
                       !.data = conns[c].data, !.seqs = conns[c].seqs]
<1>4. CASE registry # None
  <2>1. conns' = [conns EXCEPT ![c] = n("joined", registry)]
    BY <1>4, FieldsOK DEF Lookup, Join, Connection
  <2> QED BY <1>1, <1>2, <1>3, <1>4, <2>1, FieldsOK, MovedOK
<1>5. CASE registry = None
  <2>1. conns' = [conns EXCEPT ![c] = n("lock", conns[c].state)]
    BY <1>5, FieldsOK DEF Lookup, Go, Connection
  <2> QED BY <1>1, <1>2, <1>3, <2>1, FieldsOK, MovedOK
<1> QED BY <1>4, <1>5

LEMMA LockRegistryEffect ==
    ASSUME CrdtTypeOK, NEW c \in Conns, LockRegistry(c)
    PROVE  /\ At(c, "lock") /\ locked = None
           /\ \/ /\ registry # None /\ locked' = locked
                 /\ Moved(c, "joined", registry, conns[c].seq, conns[c].data, conns[c].seqs)
              \/ /\ registry = None /\ locked' = c
                 /\ Moved(c, "load", conns[c].state, conns[c].seq, conns[c].data, conns[c].seqs)
           /\ UNCHANGED <<log, counter, sweep, registry, docs, replica, counts,
                          acked, races>>
<1>1. At(c, "lock") /\ locked = None
      /\ UNCHANGED <<log, counter, sweep, registry, docs, replica, counts, acked,
                     races>>
  BY DEF LockRegistry
<1>2. registry \in Conns \cup {None}
  BY DEF CrdtTypeOK
<1>3. "joined" \in Places /\ "load" \in Places
  BY DEF Places
<1> DEFINE n(pc, state) ==
      [conns[c] EXCEPT !.pc = pc, !.state = state, !.seq = conns[c].seq,
                       !.data = conns[c].data, !.seqs = conns[c].seqs]
<1>4. CASE registry # None
  <2>1. conns' = [conns EXCEPT ![c] = n("joined", registry)] /\ locked' = locked
    BY <1>4, FieldsOK DEF LockRegistry, Join, Connection
  <2> QED BY <1>1, <1>2, <1>3, <1>4, <2>1, FieldsOK, MovedOK
<1>5. CASE registry = None
  <2>1. conns' = [conns EXCEPT ![c] = n("load", conns[c].state)] /\ locked' = c
    BY <1>5, FieldsOK DEF LockRegistry, Go, Connection
  <2> QED BY <1>1, <1>2, <1>3, <1>5, <2>1, FieldsOK, MovedOK
<1> QED BY <1>4, <1>5

LEMMA LoadReadsEffect ==
    ASSUME CrdtTypeOK, NEW c \in Conns, LoadReads(c)
    PROVE  /\ At(c, "load") /\ ~sweep
           /\ Moved(c, "loaded", conns[c].state, conns[c].seq, Contents(log), Seqs(log))
           /\ races' = IF \E b \in Conns : Optimizing(b) THEN races \cup {"reopen"}
                       ELSE races
           /\ UNCHANGED <<log, counter, sweep, registry, locked, docs, replica,
                          counts, acked>>
<1> DEFINE n == [conns[c] EXCEPT !.pc = "loaded", !.state = conns[c].state,
                   !.seq = conns[c].seq, !.data = Contents(log), !.seqs = Seqs(log)]
<1>1. conns' = [conns EXCEPT ![c] = n]
  BY FieldsOK DEF LoadReads, Connection
<1>2. Contents(log) \in SUBSET Edits /\ Seqs(log) \in SUBSET Nat
  BY DEF CrdtTypeOK, LogOK, Contents, Seqs
<1>3. "loaded" \in Places
  BY DEF Places
<1>4. Moved(c, "loaded", conns[c].state, conns[c].seq, Contents(log), Seqs(log))
  BY <1>1, <1>2, <1>3, FieldsOK, MovedOK
<1> QED BY <1>4 DEF LoadReads

LEMMA LoadFailsEffect ==
    ASSUME CrdtTypeOK, NEW c \in Conns, LoadFails(c)
    PROVE  /\ At(c, "load") \/ At(c, "loaded")
           /\ Fault /\ Cleared(c, "done") /\ locked' = None
           /\ UNCHANGED <<log, counter, sweep, registry, docs, replica, acked, races>>
<1>1. Cleared(c, "done")
  BY FieldsOK, DoneOK DEF LoadFails
<1> QED BY <1>1 DEF LoadFails, BuildsDoc

LEMMA InitializeEffect ==
    ASSUME CrdtTypeOK, NEW c \in Conns, Initialize(c)
    PROVE  /\ At(c, "loaded") /\ conns[c].seqs = {}
           /\ \E seq \in Nat \cup {NoCounter} :
                /\ Moved(c, "init", conns[c].state, seq, {}, conns[c].seqs)
                /\ Issued(seq)
           /\ UNCHANGED <<log, sweep, registry, locked, docs, replica, counts,
                          acked, races>>
<1>1. /\ At(c, "loaded") /\ conns[c].seqs = {}
      /\ UNCHANGED <<log, sweep, registry, locked, docs, replica, counts, acked, races>>
  BY DEF Initialize
<1>2. "init" \in Places
  BY DEF Places
<1>3. PICK seq \in Nat \cup {NoCounter} :
        conns' = Calling(conns, c, "init", {}, seq) /\ Issued(seq)
  BY <1>2, FieldsOK, IssueOK DEF Initialize
<1> DEFINE n == [conns[c] EXCEPT !.pc = "init", !.state = conns[c].state,
                   !.seq = seq, !.data = {}, !.seqs = conns[c].seqs]
<1>4. conns' = [conns EXCEPT ![c] = n]
  BY <1>3, FieldsOK DEF Calling, Connection
<1>5. Moved(c, "init", conns[c].state, seq, {}, conns[c].seqs)
  BY <1>2, <1>4, FieldsOK, MovedOK
<1> QED BY <1>1, <1>3, <1>5

LEMMA RegisterEffect ==
    ASSUME CrdtTypeOK, NEW c \in Conns, Register(c)
    PROVE  /\ At(c, "inited") \/ (At(c, "loaded") /\ conns[c].seqs # {})
           /\ Moved(c, "joined", c, conns[c].seq, {}, {})
           /\ docs' = [docs EXCEPT ![c] = conns[c].data]
           /\ registry' = c /\ locked' = None
           /\ UNCHANGED <<log, counter, sweep, replica, counts, acked, races>>
<1> DEFINE n == [conns[c] EXCEPT !.pc = "joined", !.state = c,
                   !.seq = conns[c].seq, !.data = {}, !.seqs = {}]
<1>1. conns' = [conns EXCEPT ![c] = n]
  BY FieldsOK DEF Register, Connection
<1>2. "joined" \in Places
  BY DEF Places
<1>3. Moved(c, "joined", c, conns[c].seq, {}, {})
  BY <1>1, <1>2, FieldsOK, MovedOK
<1> QED BY <1>3 DEF Register, BuildsDoc

LEMMA GreetEffect ==
    ASSUME CrdtTypeOK, PlacesOK, NEW c \in Conns, Greet(c)
    PROVE  /\ At(c, "joined") /\ conns'[c].pc = "greeted"
           /\ LET missing == replica[conns[c].client] \ docs[conns[c].state]
                  said    == Append(conns[c].recv, Update(missing))
              IN  \/ /\ conns[c].up /\ missing # {}
                     /\ Stays(c, conns[c].client, conns[c].up, conns[c].tasks, said,
                              conns[c].bcast)
                  \/ /\ ~(conns[c].up /\ missing # {})
                     /\ Stays(c, conns[c].client, conns[c].up, conns[c].tasks,
                              conns[c].recv, conns[c].bcast)
           /\ UNCHANGED <<log, counter, sweep, registry, locked, docs, replica,
                          counts, acked, races>>
<1> DEFINE missing == replica[conns[c].client] \ docs[conns[c].state]
           said == Append(conns[c].recv, Update(missing))
           n(q) == [conns[c] EXCEPT !.pc = "greeted", !.client = conns[c].client,
                      !.up = conns[c].up, !.tasks = conns[c].tasks, !.recv = q,
                      !.bcast = conns[c].bcast]
<1>1. At(c, "joined") /\ UNCHANGED <<log, counter, sweep, registry, locked, docs,
                                     replica, counts, acked, races>>
  BY DEF Greet
<1>2. conns[c].state \in Conns /\ conns[c].client \in Clients
  BY <1>1 DEF PlacesOK, Attached, At
<1>3. Update(missing) \in Message
  BY <1>2 DEF CrdtTypeOK, Update, Message
<1>4. said \in Seq(Message)
  BY <1>3, FieldsOK, QueueOK
<1>5. "greeted" \in Places
  BY DEF Places
<1>6. ASSUME NEW q \in Seq(Message), conns' = [conns EXCEPT ![c] = n(q)]
      PROVE  /\ Stays(c, conns[c].client, conns[c].up, conns[c].tasks, q, conns[c].bcast)
             /\ conns'[c].pc = "greeted"
  <2>1. n(q) \in Connection
    BY <1>5, FieldsOK DEF Connection
  <2>2. /\ n(q).pc = "greeted" /\ n(q).client = conns[c].client
        /\ n(q).up = conns[c].up /\ n(q).tasks = conns[c].tasks
        /\ n(q).recv = q /\ n(q).bcast = conns[c].bcast
        /\ n(q).state = conns[c].state /\ n(q).seq = conns[c].seq
        /\ n(q).data = conns[c].data /\ n(q).seqs = conns[c].seqs
        /\ n(q).lagged = conns[c].lagged
    BY FieldsOK DEF Connection
  <2> HIDE DEF n
  <2> QED BY <1>6, <2>1, <2>2, FieldsOK, StaysOK
<1>7. CASE conns[c].up /\ missing # {}
  <2>1. conns' = [conns EXCEPT ![c] = n(said)]
    BY <1>7, FieldsOK DEF Greet, Connection
  <2> HIDE DEF n, said, missing
  <2>2. Stays(c, conns[c].client, conns[c].up, conns[c].tasks, said, conns[c].bcast)
        /\ conns'[c].pc = "greeted"
    BY <1>4, <1>6, <2>1
  <2> USE DEF said, missing
  <2> QED BY <1>1, <1>7, <2>2
<1>8. CASE ~(conns[c].up /\ missing # {})
  <2>1. conns' = [conns EXCEPT ![c] = n(conns[c].recv)]
    BY <1>8, FieldsOK DEF Greet, Connection
  <2> HIDE DEF n, said, missing
  <2>2. /\ Stays(c, conns[c].client, conns[c].up, conns[c].tasks, conns[c].recv,
                 conns[c].bcast)
        /\ conns'[c].pc = "greeted"
    BY <1>6, <2>1, FieldsOK
  <2> USE DEF said, missing
  <2> QED BY <1>1, <1>8, <2>2
<1> QED BY <1>7, <1>8

LEMMA SubscribeEffect ==
    ASSUME CrdtTypeOK, PlacesOK, NEW c \in Conns, Subscribe(c)
    PROVE  /\ At(c, "greeted") /\ conns'[c].pc = "open"
           /\ Stays(c, conns[c].client, conns[c].up, TRUE, conns[c].recv, conns[c].bcast)
           /\ UNCHANGED <<log, counter, sweep, registry, locked, docs, replica,
                          counts, acked, races>>
<1> DEFINE n == [conns[c] EXCEPT !.pc = "open", !.tasks = TRUE]
<1>1. conns' = [conns EXCEPT ![c] = n]
  BY FieldsOK DEF Subscribe, Connection
<1>2. n \in Connection
  <2>1. conns[c] \in Connection /\ "open" \in Places
    BY FieldsOK DEF Places
  <2> QED BY <2>1 DEF Connection
<1>3. /\ n.pc = "open" /\ n.client = conns[c].client /\ n.up = conns[c].up
      /\ n.tasks = TRUE /\ n.recv = conns[c].recv /\ n.bcast = conns[c].bcast
      /\ n.state = conns[c].state /\ n.seq = conns[c].seq /\ n.data = conns[c].data
      /\ n.seqs = conns[c].seqs /\ n.lagged = conns[c].lagged
  BY FieldsOK DEF Connection
<1> HIDE DEF n
<1>4. Stays(c, conns[c].client, conns[c].up, TRUE, conns[c].recv, conns[c].bcast)
      /\ conns'[c].pc = "open"
  BY <1>1, <1>2, <1>3, FieldsOK, StaysOK
<1> QED BY <1>4 DEF Subscribe

LEMMA FedOK ==
    ASSUME NEW e \in Connection, NEW q \in Seq(Message)
    PROVE  [e EXCEPT !.recv = q] \in Connection
BY DEF Connection

LEMMA ReceivedEffect ==
    ASSUME CrdtTypeOK, NEW c \in Conns, conns[c].recv # <<>>,
           conns' = [conns EXCEPT ![c] = [conns[c] EXCEPT !.recv = Tail(conns[c].recv)]]
    PROVE  /\ conns'[c].pc = conns[c].pc
           /\ Stays(c, conns[c].client, conns[c].up, conns[c].tasks,
                    Tail(conns[c].recv), conns[c].bcast)
<1> DEFINE n == [conns[c] EXCEPT !.recv = Tail(conns[c].recv)]
<1>1. conns' = [conns EXCEPT ![c] = n]
  OBVIOUS
<1>2. Tail(conns[c].recv) \in Seq(Message)
  BY FieldsOK, QueueOK
<1>3. n \in Connection
  BY <1>2, FieldsOK, FedOK
<1>4. /\ n.pc = conns[c].pc /\ n.client = conns[c].client /\ n.up = conns[c].up
      /\ n.tasks = conns[c].tasks /\ n.recv = Tail(conns[c].recv)
      /\ n.bcast = conns[c].bcast
      /\ n.state = conns[c].state /\ n.seq = conns[c].seq /\ n.data = conns[c].data
      /\ n.seqs = conns[c].seqs /\ n.lagged = conns[c].lagged
  BY FieldsOK DEF Connection
<1> HIDE DEF n
<1>5. Frame(c) /\ conns'[c] = n
  BY <1>1, <1>3, FieldsOK, FrameOK
<1> QED BY <1>4, <1>5 DEF Stays

LEMMA AnswerStep1Effect ==
    ASSUME CrdtTypeOK, NEW c \in Conns, AnswerStep1(c)
    PROVE  /\ At(c, "open") /\ conns'[c].pc = "open"
           /\ conns[c].recv # <<>> /\ Head(conns[c].recv).step1 = TRUE
           /\ Stays(c, conns[c].client, conns[c].up, conns[c].tasks,
                    Tail(conns[c].recv), conns[c].bcast)
           /\ Deliver(c, LiveDoc(c))
           /\ UNCHANGED <<log, counter, sweep, registry, locked, docs, counts,
                          acked, races>>
<1>1. /\ At(c, "open") /\ conns[c].recv # <<>> /\ Head(conns[c].recv).step1 = TRUE
      /\ Deliver(c, LiveDoc(c))
      /\ UNCHANGED <<log, counter, sweep, registry, locked, docs, counts, acked, races>>
  BY DEF AnswerStep1, Receives
<1>2. conns' = [conns EXCEPT ![c] = [conns[c] EXCEPT !.recv = Tail(conns[c].recv)]]
  BY FieldsOK DEF AnswerStep1, Received
<1> QED BY <1>1, <1>2, ReceivedEffect DEF At

LEMMA DropUpdateEffect ==
    ASSUME CrdtTypeOK, NEW c \in Conns, DropUpdate(c)
    PROVE  /\ At(c, "open") /\ conns'[c].pc = "open"
           /\ conns[c].recv # <<>> /\ Head(conns[c].recv).step1 = FALSE
           /\ ~Applies(c, Head(conns[c].recv).data)
           /\ Stays(c, conns[c].client, conns[c].up, conns[c].tasks,
                    Tail(conns[c].recv), conns[c].bcast)
           /\ UNCHANGED <<log, counter, sweep, registry, locked, docs, replica,
                          counts, acked, races>>
<1>1. /\ At(c, "open") /\ conns[c].recv # <<>> /\ Head(conns[c].recv).step1 = FALSE
      /\ ~Applies(c, Head(conns[c].recv).data)
      /\ UNCHANGED <<log, counter, sweep, registry, locked, docs, replica, counts,
                     acked, races>>
  BY DEF DropUpdate, Receives
<1>2. conns' = [conns EXCEPT ![c] = [conns[c] EXCEPT !.recv = Tail(conns[c].recv)]]
  BY FieldsOK DEF DropUpdate, Received
<1> QED BY <1>1, <1>2, ReceivedEffect DEF At

LEMMA ApplyUpdateEffect ==
    ASSUME CrdtTypeOK, NEW c \in Conns, ApplyUpdate(c)
    PROVE  /\ At(c, "open") /\ conns[c].recv # <<>>
           /\ Head(conns[c].recv).step1 = FALSE
           /\ LET data == Head(conns[c].recv).data
              IN  /\ data \in SUBSET Edits /\ Applies(c, data)
                  /\ docs' = [docs EXCEPT ![conns[c].state] = @ \cup data]
                  /\ Frame(c) /\ conns'[c].pc = "store" /\ conns'[c].data = data
                  /\ \E seq \in Nat \cup {NoCounter} : conns'[c].seq = seq /\ Issued(seq)
           /\ conns'[c].recv = Tail(conns[c].recv)
           /\ conns'[c].client = conns[c].client /\ conns'[c].state = conns[c].state
           /\ conns'[c].up = conns[c].up /\ conns'[c].tasks = conns[c].tasks
           /\ conns'[c].bcast = conns[c].bcast /\ conns'[c].lagged = conns[c].lagged
           /\ conns'[c].seqs = conns[c].seqs
           /\ UNCHANGED <<log, sweep, registry, locked, replica, counts, acked, races>>
<1> DEFINE data == Head(conns[c].recv).data
<1>1. /\ At(c, "open") /\ conns[c].recv # <<>> /\ Head(conns[c].recv).step1 = FALSE
      /\ Applies(c, data) /\ docs' = [docs EXCEPT ![conns[c].state] = @ \cup data]
      /\ UNCHANGED <<log, sweep, registry, locked, replica, counts, acked, races>>
  BY DEF ApplyUpdate, Receives
<1>2. Head(conns[c].recv) \in Message /\ Tail(conns[c].recv) \in Seq(Message)
  BY <1>1, FieldsOK, QueueOK
<1>3. data \in SUBSET Edits
  BY <1>2 DEF Message
<1>4. PICK seq \in Nat \cup {NoCounter} :
        conns' = Calling(Received(c), c, "store", data, seq) /\ Issued(seq)
  <2>1. IssueWrite(c, Received(c), "store", data)
    BY DEF ApplyUpdate
  <2> HIDE DEF data
  <2> QED BY <2>1, IssueOK
<1> DEFINE n == [conns[c] EXCEPT !.recv = Tail(conns[c].recv), !.pc = "store",
                   !.data = data, !.seq = seq]
<1>5. conns' = [conns EXCEPT ![c] = n]
  <2> HIDE DEF data
  <2> QED BY <1>4, FieldsOK DEF Calling, Received, Connection
<1>6. n \in Connection
  <2>1. conns[c] \in Connection
    BY FieldsOK
  <2>2. "store" \in Places
    BY DEF Places
  <2>3. Tail(conns[c].recv) \in Seq(Message)
    BY <1>2
  <2> DEFINE recv == Tail(conns[c].recv)
  <2> HIDE DEF data, recv
  <2>4. [conns[c] EXCEPT !.recv = recv, !.pc = "store", !.data = data, !.seq = seq]
          \in Connection
    BY <1>3, <2>1, <2>2, <2>3 DEF Connection, recv
  <2> QED BY <2>4 DEF recv
<1>7. /\ n.pc = "store" /\ n.data = data /\ n.seq = seq
      /\ n.recv = Tail(conns[c].recv) /\ n.client = conns[c].client
      /\ n.up = conns[c].up /\ n.tasks = conns[c].tasks /\ n.bcast = conns[c].bcast
      /\ n.state = conns[c].state /\ n.seqs = conns[c].seqs
      /\ n.lagged = conns[c].lagged
  <2> HIDE DEF data
  <2> QED BY FieldsOK DEF Connection
<1>8. Frame(c) /\ conns'[c] = n
  <2> HIDE DEF n
  <2> QED BY <1>5, <1>6, FieldsOK, FrameOK
<1> HIDE DEF n
<1> QED BY <1>1, <1>3, <1>4, <1>7, <1>8

(* The sender is through with its update; whoever subscribed to the same   *)
(* DocState has it in its receiver, the sender a skipped one.              *)
Queued(d, u) ==
    \/ conns'[d].bcast = Append(conns[d].bcast, u) /\ conns'[d].lagged = conns[d].lagged
    \/ /\ conns[d].bcast # <<>>
       /\ conns'[d].bcast = Append(Tail(conns[d].bcast), u) /\ conns'[d].lagged = TRUE

LEMMA BroadcastEffect ==
    ASSUME CrdtTypeOK, NEW c \in Conns, Broadcast(c)
    PROVE  /\ At(c, "stored") /\ conns' \in [Conns -> Connection]
           /\ conns'[c].pc = "open" /\ conns'[c].data = {}
           /\ \A d \in Conns \ {c} : conns'[d].pc = conns[d].pc
                                     /\ conns'[d].data = conns[d].data
           /\ \A d \in Conns :
                /\ conns'[d].client = conns[d].client /\ conns'[d].up = conns[d].up
                /\ conns'[d].state = conns[d].state /\ conns'[d].seq = conns[d].seq
                /\ conns'[d].tasks = conns[d].tasks /\ conns'[d].recv = conns[d].recv
                /\ conns'[d].seqs = conns[d].seqs
                /\ \/ /\ conns[d].tasks /\ conns[d].state = conns[c].state
                      /\ d = c => Queued(d, {})
                      /\ d # c => Queued(d, conns[c].data)
                   \/ /\ ~(conns[d].tasks /\ conns[d].state = conns[c].state)
                      /\ conns'[d].bcast = conns[d].bcast
                      /\ conns'[d].lagged = conns[d].lagged
           /\ acked' = acked \cup conns[c].data
           /\ UNCHANGED <<log, counter, sweep, registry, locked, docs, replica,
                          counts, races>>
<1> DEFINE conn(d) == IF d = c THEN [conns[c] EXCEPT !.pc = "open", !.data = {}]
                      ELSE conns[d]
           sent(d) == IF d = c THEN Skipped ELSE conns[c].data
           next(d) == IF conns[d].tasks /\ conns[d].state = conns[c].state
                        THEN Enqueue(conn(d), sent(d)) ELSE conn(d)
<1>1. /\ At(c, "stored") /\ acked' = acked \cup conns[c].data
      /\ conns' = [d \in Conns |-> next(d)]
      /\ UNCHANGED <<log, counter, sweep, registry, locked, docs, replica, counts, races>>
  BY DEF Broadcast
<1>2. ASSUME NEW d \in Conns
      PROVE  /\ conn(d) \in Connection /\ sent(d) \in SUBSET Edits
             /\ conn(d).client = conns[d].client /\ conn(d).up = conns[d].up
             /\ conn(d).state = conns[d].state /\ conn(d).seq = conns[d].seq
             /\ conn(d).tasks = conns[d].tasks /\ conn(d).recv = conns[d].recv
             /\ conn(d).seqs = conns[d].seqs /\ conn(d).bcast = conns[d].bcast
             /\ conn(d).lagged = conns[d].lagged
             /\ d # c => conn(d).pc = conns[d].pc /\ conn(d).data = conns[d].data
             /\ d = c => conn(d).pc = "open" /\ conn(d).data = {}
  <2>1. CASE d = c
    <3>1. conns[c] \in Connection /\ "open" \in Places /\ Skipped \in SUBSET Edits
      BY FieldsOK DEF Places, Skipped
    <3>2. conn(d) = [conns[c] EXCEPT !.pc = "open", !.data = {}] /\ sent(d) = Skipped
      BY <2>1
    <3>3. conn(d) \in Connection
      BY <3>1, <3>2 DEF Connection
    <3> QED BY <2>1, <3>1, <3>2, <3>3 DEF Connection
  <2>2. CASE d # c
    BY <2>2, FieldsOK DEF Connection
  <2> QED BY <2>1, <2>2
<1>3. sent(c) = {} /\ \A d \in Conns \ {c} : sent(d) = conns[c].data
  BY DEF Skipped
<1> HIDE DEF conn, sent
<1>4. ASSUME NEW d \in Conns
      PROVE  /\ next(d) \in Connection
             /\ next(d).client = conns[d].client /\ next(d).up = conns[d].up
             /\ next(d).state = conns[d].state /\ next(d).seq = conns[d].seq
             /\ next(d).tasks = conns[d].tasks /\ next(d).recv = conns[d].recv
             /\ next(d).seqs = conns[d].seqs
             /\ d # c => next(d).pc = conns[d].pc /\ next(d).data = conns[d].data
             /\ d = c => next(d).pc = "open" /\ next(d).data = {}
             /\ \/ /\ conns[d].tasks /\ conns[d].state = conns[c].state
                   /\ \/ /\ next(d).bcast = Append(conns[d].bcast, sent(d))
                         /\ next(d).lagged = conns[d].lagged
                      \/ /\ conns[d].bcast # <<>> /\ next(d).lagged = TRUE
                         /\ next(d).bcast = Append(Tail(conns[d].bcast), sent(d))
                \/ /\ ~(conns[d].tasks /\ conns[d].state = conns[c].state)
                   /\ next(d).bcast = conns[d].bcast /\ next(d).lagged = conns[d].lagged
  <2>1. CASE ~(conns[d].tasks /\ conns[d].state = conns[c].state)
    BY <1>2, <2>1
  <2>2. CASE conns[d].tasks /\ conns[d].state = conns[c].state
    <3>1. next(d) = Enqueue(conn(d), sent(d))
      BY <2>2
    <3> DEFINE m == Enqueue(conn(d), sent(d))
    <3>2. /\ m \in Connection
          /\ m.pc = conn(d).pc /\ m.client = conn(d).client
          /\ m.state = conn(d).state
          /\ m.up = conn(d).up /\ m.tasks = conn(d).tasks /\ m.recv = conn(d).recv
          /\ m.seq = conn(d).seq /\ m.data = conn(d).data /\ m.seqs = conn(d).seqs
          /\ \/ /\ m.bcast = Append(conn(d).bcast, sent(d))
                /\ m.lagged = conn(d).lagged
             \/ /\ conn(d).bcast # <<>> /\ m.lagged = TRUE
                /\ m.bcast = Append(Tail(conn(d).bcast), sent(d))
      BY <1>2, EnqueueOK
    <3>3. next(d) = m
      BY <3>1
    <3> HIDE DEF next, m
    <3> QED BY <1>2, <2>2, <3>2, <3>3
  <2> QED BY <2>1, <2>2
<1> HIDE DEF next
<1>5. conns' \in [Conns -> Connection] /\ \A d \in Conns : conns'[d] = next(d)
  BY <1>1, <1>4
<1>6. ASSUME NEW d \in Conns, NEW m, m = next(d)
      PROVE  /\ m.client = conns[d].client /\ m.up = conns[d].up
             /\ m.state = conns[d].state /\ m.seq = conns[d].seq
             /\ m.tasks = conns[d].tasks /\ m.recv = conns[d].recv
             /\ m.seqs = conns[d].seqs
             /\ d # c => m.pc = conns[d].pc /\ m.data = conns[d].data
             /\ d = c => m.pc = "open" /\ m.data = {}
  BY <1>4, <1>6
<1>7. ASSUME NEW d \in Conns, NEW m, m = next(d)
      PROVE  \/ /\ conns[d].tasks /\ conns[d].state = conns[c].state
                /\ \/ /\ m.bcast = Append(conns[d].bcast, sent(d))
                      /\ m.lagged = conns[d].lagged
                   \/ /\ conns[d].bcast # <<>> /\ m.lagged = TRUE
                      /\ m.bcast = Append(Tail(conns[d].bcast), sent(d))
             \/ /\ ~(conns[d].tasks /\ conns[d].state = conns[c].state)
                /\ m.bcast = conns[d].bcast /\ m.lagged = conns[d].lagged
  BY <1>4, <1>7
<1>8. ASSUME NEW d \in Conns
      PROVE  /\ conns'[d].client = conns[d].client /\ conns'[d].up = conns[d].up
             /\ conns'[d].state = conns[d].state /\ conns'[d].seq = conns[d].seq
             /\ conns'[d].tasks = conns[d].tasks /\ conns'[d].recv = conns[d].recv
             /\ conns'[d].seqs = conns[d].seqs
             /\ d # c => conns'[d].pc = conns[d].pc /\ conns'[d].data = conns[d].data
             /\ d = c => conns'[d].pc = "open" /\ conns'[d].data = {}
  <2>1. conns'[d] = next(d)
    BY <1>5
  <2> QED BY <1>6, <2>1
<1>9. ASSUME NEW d \in Conns
      PROVE  \/ /\ conns[d].tasks /\ conns[d].state = conns[c].state
                /\ d = c => Queued(d, {})
                /\ d # c => Queued(d, conns[c].data)
             \/ /\ ~(conns[d].tasks /\ conns[d].state = conns[c].state)
                /\ conns'[d].bcast = conns[d].bcast
                /\ conns'[d].lagged = conns[d].lagged
  <2>1. (d = c => sent(d) = {}) /\ (d # c => sent(d) = conns[c].data)
    BY <1>3
  <2>2. conns'[d] = next(d)
    BY <1>5
  <2>3. CASE conns[d].tasks /\ conns[d].state = conns[c].state
    <3>1. Queued(d, sent(d))
      BY <1>7, <2>2, <2>3 DEF Queued
    <3> QED BY <2>1, <2>3, <3>1
  <2>4. CASE ~(conns[d].tasks /\ conns[d].state = conns[c].state)
    BY <1>7, <2>2, <2>4
  <2> QED BY <2>3, <2>4
<1> QED BY <1>1, <1>5, <1>8, <1>9

LEMMA ForwardEffect ==
    ASSUME CrdtTypeOK, NEW c \in Conns, Forward(c)
    PROVE  /\ conns[c].tasks /\ conns[c].bcast # <<>> /\ conns'[c].pc = conns[c].pc
           /\ conns[c].up \/ Head(conns[c].bcast) = {}
           /\ Stays(c, conns[c].client, conns[c].up, conns[c].tasks, conns[c].recv,
                    Tail(conns[c].bcast))
           /\ Deliver(c, Head(conns[c].bcast))
           /\ UNCHANGED <<log, counter, sweep, registry, locked, docs, counts,
                          acked, races>>
<1> DEFINE n == [conns[c] EXCEPT !.bcast = Tail(conns[c].bcast)]
<1>1. conns' = [conns EXCEPT ![c] = n] /\ conns[c].bcast # <<>>
  BY FieldsOK DEF Forward
<1>2. Tail(conns[c].bcast) \in Seq(SUBSET Edits)
  BY <1>1, FieldsOK, QueueOK
<1>3. n \in Connection
  BY <1>2, FieldsOK DEF Connection
<1>4. /\ n.pc = conns[c].pc /\ n.client = conns[c].client /\ n.up = conns[c].up
      /\ n.tasks = conns[c].tasks /\ n.recv = conns[c].recv
      /\ n.bcast = Tail(conns[c].bcast)
      /\ n.state = conns[c].state /\ n.seq = conns[c].seq /\ n.data = conns[c].data
      /\ n.seqs = conns[c].seqs /\ n.lagged = conns[c].lagged
  BY FieldsOK DEF Connection
<1> HIDE DEF n
<1>5. /\ Stays(c, conns[c].client, conns[c].up, conns[c].tasks, conns[c].recv,
               Tail(conns[c].bcast))
      /\ conns'[c].pc = conns[c].pc
  BY <1>1, <1>3, <1>4, FieldsOK, StaysOK
<1> QED BY <1>5 DEF Forward, Skipped

LEMMA ResumeEffect ==
    ASSUME CrdtTypeOK, NEW c \in Conns, NEW pc \in Places, Resume(c, pc)
    PROVE  /\ pc = "done" => Cleared(c, "done")
           /\ pc = "stored" => Moved(c, pc, conns[c].state, NoCounter, conns[c].data,
                                     conns[c].seqs)
           /\ pc \notin {"done", "stored"} =>
                Moved(c, pc, conns[c].state, NoCounter, {}, conns[c].seqs)
<1> DEFINE n(data) == [conns[c] EXCEPT !.pc = pc, !.state = conns[c].state,
                         !.seq = NoCounter, !.data = data, !.seqs = conns[c].seqs]
<1>1. CASE pc = "done"
  <2>1. conns' = [conns EXCEPT ![c] = Done]
    BY <1>1 DEF Resume
  <2> QED BY <1>1, <2>1, FieldsOK, DoneOK
<1>2. CASE pc = "stored"
  <2>1. conns' = [conns EXCEPT ![c] = n(conns[c].data)]
    BY <1>2, FieldsOK DEF Resume, Connection
  <2>2. Moved(c, pc, conns[c].state, NoCounter, conns[c].data, conns[c].seqs)
    BY <2>1, FieldsOK, MovedOK
  <2> QED BY <1>2, <2>2
<1>3. CASE pc \notin {"done", "stored"}
  <2>1. conns' = [conns EXCEPT ![c] = n({})]
    BY <1>3, FieldsOK DEF Resume, Connection
  <2>2. Moved(c, pc, conns[c].state, NoCounter, {}, conns[c].seqs)
    BY <2>1, FieldsOK, MovedOK
  <2> QED BY <1>3, <2>2
<1> QED BY <1>1, <1>2, <1>3

LEMMA SeedCounterEffect ==
    ASSUME CrdtTypeOK, NEW c \in Conns, SeedCounter(c)
    PROVE  /\ Writing(c) /\ conns[c].seq = NoCounter
           /\ Moved(c, conns[c].pc, conns[c].state, NextSeq(log), conns[c].data,
                    conns[c].seqs)
           /\ counter' = NextSeq(log) + 1
           /\ races' = IF Taken(c, NextSeq(log)) THEN races \cup {"seed"} ELSE races
           /\ UNCHANGED <<log, sweep, registry, locked, docs, replica, counts, acked>>
<1> DEFINE n == [conns[c] EXCEPT !.pc = conns[c].pc, !.state = conns[c].state,
                   !.seq = NextSeq(log), !.data = conns[c].data,
                   !.seqs = conns[c].seqs]
<1>1. conns' = [conns EXCEPT ![c] = n]
  BY FieldsOK DEF SeedCounter, Connection
<1>2. NextSeq(log) \in Nat \cup {NoCounter}
  BY NextSeqFresh DEF CrdtTypeOK
<1>3. Moved(c, conns[c].pc, conns[c].state, NextSeq(log), conns[c].data, conns[c].seqs)
  BY <1>1, <1>2, FieldsOK, MovedOK
<1> QED BY <1>3 DEF SeedCounter

LEMMA WriteTakesEffectEffect ==
    ASSUME CrdtTypeOK, NEW c \in Conns, WriteTakesEffect(c)
    PROVE  /\ conns[c].seq # NoCounter /\ ~sweep
           /\ \/ /\ At(c, "init") /\ log' = Put(log, conns[c].seq, conns[c].data)
                 /\ Moved(c, "inited", conns[c].state, NoCounter, {}, conns[c].seqs)
              \/ /\ At(c, "store") /\ log' = Put(log, conns[c].seq, conns[c].data)
                 /\ Moved(c, "stored", conns[c].state, NoCounter, conns[c].data,
                          conns[c].seqs)
              \/ /\ At(c, "compact") /\ Cleared(c, "done")
                 /\ log' = Compact(log, conns[c].seqs, conns[c].seq, conns[c].data)
           /\ UNCHANGED <<counter, sweep, registry, locked, docs, replica, counts,
                          acked, races>>
<1>1. /\ conns[c].seq # NoCounter /\ ~sweep /\ Writing(c)
      /\ UNCHANGED <<counter, sweep, registry, locked, docs, replica, counts, acked,
                     races>>
  BY DEF WriteTakesEffect
<1>2. "inited" \in Places /\ "stored" \in Places /\ "done" \in Places
  BY DEF Places
<1>3. CASE At(c, "init")
  <2>1. Resume(c, "inited") /\ log' = Put(log, conns[c].seq, conns[c].data)
    BY <1>3 DEF WriteTakesEffect, Written, At
  <2> QED BY <1>1, <1>2, <1>3, <2>1, ResumeEffect
<1>4. CASE At(c, "store")
  <2>1. Resume(c, "stored") /\ log' = Put(log, conns[c].seq, conns[c].data)
    BY <1>4 DEF WriteTakesEffect, Written, At
  <2> QED BY <1>1, <1>2, <1>4, <2>1, ResumeEffect
<1>5. CASE At(c, "compact")
  <2>1. Resume(c, "done")
        /\ log' = Compact(log, conns[c].seqs, conns[c].seq, conns[c].data)
    BY <1>5 DEF WriteTakesEffect, Written, At
  <2> QED BY <1>1, <1>2, <1>5, <2>1, ResumeEffect
<1> QED BY <1>1, <1>3, <1>4, <1>5 DEF Writing, At

LEMMA WriteFailsEffect ==
    ASSUME CrdtTypeOK, NEW c \in Conns, WriteFails(c)
    PROVE  /\ Fault
           /\ \/ /\ At(c, "init")
                 /\ Moved(c, "inited", conns[c].state, NoCounter, {}, conns[c].seqs)
              \/ /\ At(c, "store")
                 /\ Moved(c, "open", conns[c].state, NoCounter, {}, conns[c].seqs)
              \/ At(c, "compact") /\ Cleared(c, "done")
           /\ UNCHANGED <<log, counter, sweep, registry, locked, docs, replica,
                          acked, races>>
<1>1. /\ Fault /\ Writing(c)
      /\ UNCHANGED <<log, counter, sweep, registry, locked, docs, replica, acked,
                     races>>
  BY DEF WriteFails
<1>2. "inited" \in Places /\ "open" \in Places /\ "done" \in Places
  BY DEF Places
<1>3. CASE At(c, "init")
  <2>1. Resume(c, "inited")
    BY <1>3 DEF WriteFails, Failed, At
  <2> QED BY <1>1, <1>2, <1>3, <2>1, ResumeEffect
<1>4. CASE At(c, "store")
  <2>1. Resume(c, "open")
    BY <1>4 DEF WriteFails, Failed, At
  <2> QED BY <1>1, <1>2, <1>4, <2>1, ResumeEffect
<1>5. CASE At(c, "compact")
  <2>1. Resume(c, "done")
    BY <1>5 DEF WriteFails, Failed, At
  <2> QED BY <1>1, <1>2, <1>5, <2>1, ResumeEffect
<1> QED BY <1>1, <1>3, <1>4, <1>5 DEF Writing, At

LEMMA DisconnectEffect ==
    ASSUME CrdtTypeOK, NEW c \in Conns, Disconnect(c)
    PROVE  /\ conns[c].up /\ conns'[c].pc = conns[c].pc
           /\ \E rest \in {conns[c].recv, <<>>} :
                Stays(c, conns[c].client, FALSE, conns[c].tasks, rest, conns[c].bcast)
           /\ UNCHANGED <<log, counter, sweep, registry, locked, docs, replica,
                          counts, acked, races>>
<1>1. PICK rest \in {conns[c].recv, <<>>} :
        conns' = [conns EXCEPT ![c].up = FALSE, ![c].recv = rest]
  BY DEF Disconnect
<1> DEFINE n == [conns[c] EXCEPT !.up = FALSE, !.recv = rest]
<1>2. conns' = [conns EXCEPT ![c] = n]
  BY <1>1, FieldsOK DEF Connection
<1>3. rest \in Seq(Message)
  <2>1. <<>> \in Seq(Message)
    OBVIOUS
  <2> QED BY <2>1, FieldsOK
<1>4. n \in Connection
  BY <1>3, FieldsOK DEF Connection
<1>5. /\ n.pc = conns[c].pc /\ n.client = conns[c].client /\ n.up = FALSE
      /\ n.tasks = conns[c].tasks /\ n.recv = rest /\ n.bcast = conns[c].bcast
      /\ n.state = conns[c].state /\ n.seq = conns[c].seq /\ n.data = conns[c].data
      /\ n.seqs = conns[c].seqs /\ n.lagged = conns[c].lagged
  BY FieldsOK DEF Connection
<1> HIDE DEF n
<1>6. Stays(c, conns[c].client, FALSE, conns[c].tasks, rest, conns[c].bcast)
      /\ conns'[c].pc = conns[c].pc
  BY <1>2, <1>4, <1>5, FieldsOK, StaysOK
<1> QED BY <1>6 DEF Disconnect

LEMMA TasksEndEffect ==
    ASSUME CrdtTypeOK, NEW c \in Conns, TasksEnd(c)
    PROVE  /\ ~conns[c].up /\ conns'[c].pc = conns[c].pc
           /\ Stays(c, conns[c].client, conns[c].up, FALSE, conns[c].recv, <<>>)
           /\ UNCHANGED <<log, counter, sweep, registry, locked, docs, replica,
                          counts, acked, races>>
<1> DEFINE n == [conns[c] EXCEPT !.tasks = FALSE, !.bcast = <<>>]
<1>1. conns' = [conns EXCEPT ![c] = n]
  BY FieldsOK DEF TasksEnd, Connection
<1>2. <<>> \in Seq(SUBSET Edits)
  OBVIOUS
<1>3. n \in Connection
  BY <1>2, FieldsOK DEF Connection
<1>4. /\ n.pc = conns[c].pc /\ n.client = conns[c].client /\ n.up = conns[c].up
      /\ n.tasks = FALSE /\ n.recv = conns[c].recv /\ n.bcast = <<>>
      /\ n.state = conns[c].state /\ n.seq = conns[c].seq /\ n.data = conns[c].data
      /\ n.seqs = conns[c].seqs /\ n.lagged = conns[c].lagged
  BY FieldsOK DEF Connection
<1> HIDE DEF n
<1>5. Stays(c, conns[c].client, conns[c].up, FALSE, conns[c].recv, <<>>)
      /\ conns'[c].pc = conns[c].pc
  BY <1>1, <1>3, <1>4, FieldsOK, StaysOK
<1> QED BY <1>5 DEF TasksEnd

LEMMA CloseEffect ==
    ASSUME CrdtTypeOK, NEW c \in Conns, Close(c)
    PROVE  /\ At(c, "open") /\ ~conns[c].up /\ Cleared(c, "closed")
           /\ UNCHANGED <<log, counter, sweep, registry, locked, docs, replica,
                          counts, acked, races>>
<1>1. "closed" \in Places
  BY DEF Places
<1>2. conns' = [conns EXCEPT ![c] = [Off EXCEPT !.pc = "closed"]]
  BY DEF Close
<1>3. Cleared(c, "closed")
  BY <1>1, <1>2, FieldsOK, ClearedOK
<1> QED BY <1>3 DEF Close

LEMMA CheckLastEffect ==
    ASSUME CrdtTypeOK, NEW c \in Conns, CheckLast(c)
    PROVE  /\ At(c, "closed") /\ locked = None
           /\ \/ Moved(c, "grace", conns[c].state, conns[c].seq, conns[c].data,
                       conns[c].seqs)
              \/ Cleared(c, "done") /\ ~(registry # None /\ Unwatched(registry))
           /\ UNCHANGED <<log, counter, sweep, registry, locked, docs, replica,
                          counts, acked, races>>
<1>1. /\ At(c, "closed") /\ locked = None
      /\ UNCHANGED <<log, counter, sweep, registry, locked, docs, replica, counts,
                     acked, races>>
  BY DEF CheckLast
<1>2. CASE registry # None /\ Unwatched(registry)
  <2> DEFINE n == [conns[c] EXCEPT !.pc = "grace", !.state = conns[c].state,
                     !.seq = conns[c].seq, !.data = conns[c].data,
                     !.seqs = conns[c].seqs]
  <2>1. conns' = [conns EXCEPT ![c] = n]
    BY <1>2, FieldsOK DEF CheckLast, Go, Connection
  <2>2. "grace" \in Places
    BY DEF Places
  <2>3. Moved(c, "grace", conns[c].state, conns[c].seq, conns[c].data, conns[c].seqs)
    BY <2>1, <2>2, FieldsOK, MovedOK
  <2> QED BY <1>1, <2>3
<1>3. CASE ~(registry # None /\ Unwatched(registry))
  <2>1. conns' = [conns EXCEPT ![c] = Done]
    BY <1>3 DEF CheckLast
  <2> QED BY <1>1, <1>3, <2>1, FieldsOK, DoneOK
<1> QED BY <1>2, <1>3

LEMMA UnregisterEffect ==
    ASSUME CrdtTypeOK, NEW c \in Conns, Unregister(c)
    PROVE  /\ At(c, "grace") /\ locked = None
           /\ \/ /\ registry # None /\ Unwatched(registry) /\ registry' = None
                 /\ Moved(c, "optimize", registry, conns[c].seq, conns[c].data,
                          conns[c].seqs)
                 /\ races' = IF \E d \in Conns : Uncounted(d) THEN races \cup {"join"}
                             ELSE races
              \/ /\ ~(registry # None /\ Unwatched(registry))
                 /\ Cleared(c, "done") /\ UNCHANGED <<registry, races>>
           /\ UNCHANGED <<log, counter, sweep, locked, docs, replica, counts, acked>>
<1>1. /\ At(c, "grace") /\ locked = None
      /\ UNCHANGED <<log, counter, sweep, locked, docs, replica, counts, acked>>
  BY DEF Unregister
<1>2. CASE registry # None /\ Unwatched(registry)
  <2> DEFINE n == [conns[c] EXCEPT !.pc = "optimize", !.state = registry,
                     !.seq = conns[c].seq, !.data = conns[c].data,
                     !.seqs = conns[c].seqs]
  <2>1. conns' = [conns EXCEPT ![c] = n]
    BY <1>2, FieldsOK DEF Unregister, Connection
  <2>2. "optimize" \in Places /\ registry \in Conns \cup {None}
    BY DEF Places, CrdtTypeOK
  <2>3. Moved(c, "optimize", registry, conns[c].seq, conns[c].data, conns[c].seqs)
    BY <2>1, <2>2, FieldsOK, MovedOK
  <2> QED BY <1>1, <1>2, <2>3 DEF Unregister
<1>3. CASE ~(registry # None /\ Unwatched(registry))
  <2>1. conns' = [conns EXCEPT ![c] = Done] /\ UNCHANGED <<registry, races>>
    BY <1>3 DEF Unregister
  <2> QED BY <1>1, <1>3, <2>1, FieldsOK, DoneOK
<1> QED BY <1>2, <1>3

LEMMA OptimizeReadsEffect ==
    ASSUME CrdtTypeOK, NEW c \in Conns, OptimizeReads(c)
    PROVE  /\ At(c, "optimize")
           /\ \/ Cleared(c, "done")
              \/ Moved(c, "merge", conns[c].state, conns[c].seq, conns[c].data, Seqs(log))
           /\ UNCHANGED <<log, counter, sweep, registry, locked, docs, replica,
                          counts, acked, races>>
<1>1. /\ At(c, "optimize")
      /\ UNCHANGED <<log, counter, sweep, registry, locked, docs, replica, counts,
                     acked, races>>
  BY DEF OptimizeReads
<1>2. CASE Cardinality(log) <= 1
  <2>1. conns' = [conns EXCEPT ![c] = Done]
    BY <1>2 DEF OptimizeReads
  <2> QED BY <1>1, <2>1, FieldsOK, DoneOK
<1>3. CASE ~(Cardinality(log) <= 1)
  <2> DEFINE n == [conns[c] EXCEPT !.pc = "merge", !.state = conns[c].state,
                     !.seq = conns[c].seq, !.data = conns[c].data, !.seqs = Seqs(log)]
  <2>1. conns' = [conns EXCEPT ![c] = n]
    BY <1>3, FieldsOK DEF OptimizeReads, Connection
  <2>2. "merge" \in Places /\ Seqs(log) \in SUBSET Nat
    BY DEF Places, CrdtTypeOK, LogOK, Seqs
  <2>3. Moved(c, "merge", conns[c].state, conns[c].seq, conns[c].data, Seqs(log))
    BY <2>1, <2>2, FieldsOK, MovedOK
  <2> QED BY <1>1, <2>3
<1> QED BY <1>2, <1>3

LEMMA OptimizeEndsEffect ==
    ASSUME CrdtTypeOK, NEW c \in Conns, OptimizeFails(c) \/ OptimizeSkips(c)
    PROVE  /\ Optimizing(c) /\ Cleared(c, "done")
           /\ Fault \/ UNCHANGED counts
           /\ UNCHANGED <<log, counter, sweep, registry, locked, docs, replica,
                          acked, races>>
<1>1. conns' = [conns EXCEPT ![c] = Done]
  BY DEF OptimizeFails, OptimizeSkips
<1>2. Cleared(c, "done")
  BY <1>1, FieldsOK, DoneOK
<1> QED BY <1>2 DEF OptimizeFails, OptimizeSkips, Optimizing, At

LEMMA OptimizeMergesEffect ==
    ASSUME CrdtTypeOK, PlacesOK, NEW c \in Conns, OptimizeMerges(c)
    PROVE  /\ At(c, "merge")
           /\ \E seq \in Nat \cup {NoCounter} :
                /\ Moved(c, "compact", conns[c].state, seq, LiveDoc(c), conns[c].seqs)
                /\ Issued(seq)
           /\ UNCHANGED <<log, sweep, registry, locked, docs, replica, counts,
                          acked, races>>
<1>1. /\ At(c, "merge")
      /\ UNCHANGED <<log, sweep, registry, locked, docs, replica, counts, acked, races>>
  BY DEF OptimizeMerges
<1>2. "compact" \in Places
  BY DEF Places
<1>3. LiveDoc(c) \in SUBSET Edits
  BY <1>1 DEF PlacesOK, Optimizing, At, LiveDoc, CrdtTypeOK
<1>4. PICK seq \in Nat \cup {NoCounter} :
        conns' = Calling(conns, c, "compact", LiveDoc(c), seq) /\ Issued(seq)
  <2>1. IssueWrite(c, conns, "compact", LiveDoc(c))
    BY DEF OptimizeMerges
  <2> QED BY <2>1, IssueOK
<1> DEFINE n == [conns[c] EXCEPT !.pc = "compact", !.state = conns[c].state,
                   !.seq = seq, !.data = LiveDoc(c), !.seqs = conns[c].seqs]
<1>5. conns' = [conns EXCEPT ![c] = n]
  <2>1. conns[c] \in Connection
    BY FieldsOK
  <2> QED BY <1>4, <2>1 DEF Calling, Connection
<1>6. Moved(c, "compact", conns[c].state, seq, LiveDoc(c), conns[c].seqs)
  BY <1>2, <1>3, <1>5, FieldsOK, MovedOK
<1> QED BY <1>1, <1>4, <1>6

LEMMA ConnectEffect ==
    ASSUME CrdtTypeOK, NEW c \in Conns, NEW k \in Clients, Connect(c, k)
    PROVE  /\ At(c, "off") /\ ~Connected(k) /\ conns'[c].pc = "lookup"
           /\ Stays(c, k, TRUE, conns[c].tasks, <<Step1>>, conns[c].bcast)
           /\ UNCHANGED <<log, counter, sweep, registry, locked, docs, replica,
                          counts, acked, races>>
<1> DEFINE n == [conns[c] EXCEPT !.pc = "lookup", !.client = k, !.up = TRUE,
                                 !.recv = <<Step1>>]
<1>1. conns' = [conns EXCEPT ![c] = n]
  BY DEF Connect
<1>2. <<Step1>> \in Seq(Message)
  BY DEF Step1, Message
<1>3. n \in Connection
  <2>1. conns[c] \in Connection /\ "lookup" \in Places
    BY FieldsOK DEF Places
  <2> QED BY <1>2, <2>1, ZenonT(30) DEF Connection
<1>4. /\ n.pc = "lookup" /\ n.client = k /\ n.up = TRUE
      /\ n.tasks = conns[c].tasks /\ n.recv = <<Step1>> /\ n.bcast = conns[c].bcast
      /\ n.state = conns[c].state /\ n.seq = conns[c].seq /\ n.data = conns[c].data
      /\ n.seqs = conns[c].seqs /\ n.lagged = conns[c].lagged
  BY FieldsOK DEF Connection
<1> HIDE DEF n
<1>5. Stays(c, k, TRUE, conns[c].tasks, <<Step1>>, conns[c].bcast)
      /\ conns'[c].pc = "lookup"
  BY <1>1, <1>3, <1>4, FieldsOK, StaysOK
<1> QED BY <1>5 DEF Connect

LEMMA EditEffect ==
    ASSUME CrdtTypeOK, NEW e \in Edits, Edit(e)
    PROVE  /\ conns' \in [Conns -> Connection]
           /\ \A d \in Conns :
                /\ conns'[d].pc = conns[d].pc /\ conns'[d].client = conns[d].client
                /\ conns'[d].up = conns[d].up /\ conns'[d].state = conns[d].state
                /\ conns'[d].seq = conns[d].seq /\ conns'[d].data = conns[d].data
                /\ conns'[d].tasks = conns[d].tasks /\ conns'[d].seqs = conns[d].seqs
                /\ conns'[d].bcast = conns[d].bcast
                /\ conns'[d].lagged = conns[d].lagged
                /\ IF conns[d].client = Author[e] /\ conns[d].up
                     THEN conns'[d].recv = Append(conns[d].recv, Update({e}))
                     ELSE conns'[d].recv = conns[d].recv
           /\ replica' = [replica EXCEPT ![Author[e]] = @ \cup {e}]
           /\ UNCHANGED <<log, counter, sweep, registry, locked, docs, counts,
                          acked, races>>
<1>1. Update({e}) \in Message
  BY DEF Update, Message
<1> DEFINE said(d) == Append(conns[d].recv, Update({e}))
           spoken(d) == [conns[d] EXCEPT !.recv = said(d)]
           speaks(d) == conns[d].client = Author[e] /\ conns[d].up
<1>2. conns' = [d \in Conns |-> IF speaks(d) THEN spoken(d) ELSE conns[d]]
  BY DEF Edit
<1>3. ASSUME NEW d \in Conns
      PROVE  /\ spoken(d) \in Connection
             /\ spoken(d).pc = conns[d].pc /\ spoken(d).client = conns[d].client
             /\ spoken(d).up = conns[d].up /\ spoken(d).state = conns[d].state
             /\ spoken(d).seq = conns[d].seq /\ spoken(d).data = conns[d].data
             /\ spoken(d).tasks = conns[d].tasks /\ spoken(d).seqs = conns[d].seqs
             /\ spoken(d).bcast = conns[d].bcast /\ spoken(d).recv = said(d)
             /\ spoken(d).lagged = conns[d].lagged
  <2>1. said(d) \in Seq(Message)
    BY <1>1, FieldsOK, QueueOK
  <2> HIDE DEF said
  <2> QED BY <2>1, FieldsOK DEF Connection
<1> HIDE DEF spoken
<1>4. conns' \in [Conns -> Connection]
  BY <1>2, <1>3, FieldsOK
<1>5. ASSUME NEW d \in Conns
      PROVE  /\ conns'[d].pc = conns[d].pc /\ conns'[d].client = conns[d].client
             /\ conns'[d].up = conns[d].up /\ conns'[d].state = conns[d].state
             /\ conns'[d].seq = conns[d].seq /\ conns'[d].data = conns[d].data
             /\ conns'[d].tasks = conns[d].tasks /\ conns'[d].seqs = conns[d].seqs
             /\ conns'[d].bcast = conns[d].bcast
             /\ conns'[d].lagged = conns[d].lagged
             /\ IF speaks(d) THEN conns'[d].recv = said(d)
                ELSE conns'[d].recv = conns[d].recv
  <2>1. CASE speaks(d)
    <3>1. conns'[d] = spoken(d)
      BY <1>2, <2>1
    <3> QED BY <1>3, <2>1, <3>1
  <2>2. CASE ~speaks(d)
    <3>1. conns'[d] = conns[d]
      BY <1>2, <2>2
    <3> QED BY <2>2, <3>1
  <2> QED BY <2>1, <2>2
<1> QED BY <1>4, <1>5 DEF Edit

LEMMA CrashEffect ==
    ASSUME CrdtTypeOK, Crash
    PROVE  /\ conns' \in [Conns -> Connection]
           /\ \A d \in Conns :
                /\ At(d, "off") => conns'[d].pc = "off"
                /\ ~At(d, "off") => conns'[d].pc = "done"
                /\ conns'[d].client = None /\ conns'[d].state = None
                /\ conns'[d].up = FALSE /\ conns'[d].tasks = FALSE
                /\ conns'[d].recv = <<>> /\ conns'[d].bcast = <<>>
                /\ conns'[d].lagged = FALSE /\ conns'[d].seq = NoCounter
                /\ conns'[d].data = {} /\ conns'[d].seqs = {}
           /\ docs' = [c \in Conns |-> {}]
           /\ counts' = [counts EXCEPT !.crashes = @ + 1]
           /\ counter' = NoCounter /\ sweep' = FALSE
           /\ registry' = None /\ locked' = None
           /\ UNCHANGED <<log, replica, acked, races>>
<1>1. conns' = [c \in Conns |-> IF At(c, "off") THEN Off ELSE Done]
  BY DEF Crash
<1>2. conns' \in [Conns -> Connection]
  BY <1>1, OffOK
<1>3. /\ Off.pc = "off" /\ Off.client = None /\ Off.state = None /\ Off.up = FALSE
      /\ Off.tasks = FALSE /\ Off.recv = <<>> /\ Off.bcast = <<>>
      /\ Off.lagged = FALSE /\ Off.seq = NoCounter /\ Off.data = {} /\ Off.seqs = {}
  BY DEF Off
<1>4. /\ Done.pc = "done" /\ Done.client = None /\ Done.state = None
      /\ Done.up = FALSE
      /\ Done.tasks = FALSE /\ Done.recv = <<>> /\ Done.bcast = <<>>
      /\ Done.lagged = FALSE /\ Done.seq = NoCounter /\ Done.data = {}
      /\ Done.seqs = {}
  BY <1>3 DEF Done, Off
<1> QED BY <1>1, <1>2, <1>3, <1>4 DEF Crash

-----------------------------------------------------------------------------
(* Types and places.                                                       *)

LEMMA FaultOK ==
    ASSUME CountsOK, Fault
    PROVE  CountsOK' /\ counts'.faults # 0
BY DEF CountsOK, Fault

LEMMA CountsKept ==
    ASSUME CountsOK, UNCHANGED counts
    PROVE  CountsOK'
BY DEF CountsOK

LEMMA TypeKept ==
    ASSUME CrdtTypeOK, conns' \in [Conns -> Connection],
           UNCHANGED <<log, counter, sweep, docs, replica, counts, acked, races>>,
           registry' \in Conns \cup {None}, locked' \in Conns \cup {None}
    PROVE  CrdtTypeOK'
BY CountsKept DEF CrdtTypeOK

LEMMA IssuedOK ==
    ASSUME CrdtTypeOK, NEW seq \in Nat \cup {NoCounter}, Issued(seq)
    PROVE  counter' \in Nat \cup {NoCounter}
BY DEF Issued

LEMMA TypeInit == Init => CrdtTypeOK /\ PlacesOK
<1> SUFFICES ASSUME Init PROVE CrdtTypeOK /\ PlacesOK
  OBVIOUS
<1>1. LogOK(log)
  BY DEF Init, LogOK, Seqs
<1>2. CountsOK
  BY DEF Init, CountsOK
<1>3. conns \in [Conns -> Connection] /\ \A c \in Conns : conns[c] = Off
  BY OffOK DEF Init
<1>4. CrdtTypeOK
  BY <1>1, <1>2, <1>3 DEF Init, CrdtTypeOK
<1>5. /\ Off.pc = "off" /\ Off.up = FALSE /\ Off.tasks = FALSE /\ Off.seq = NoCounter
  BY DEF Off
<1>6. PlacesOK
  BY <1>3, <1>5
     DEF PlacesOK, Attached, Optimizing, Entering, Loading, Fetched, Serving, At
<1> QED BY <1>4, <1>6

LEMMA TypeStep ==
    ASSUME CrdtTypeOK, PlacesOK, [Next]_vars
    PROVE  CrdtTypeOK'
<1>1. ASSUME NEW c \in Conns, Lookup(c) \/ LockRegistry(c)
      PROVE  CrdtTypeOK'
  <2>1. CASE Lookup(c)
    BY <2>1, LookupEffect, TypeKept DEF Moved, Frame, CrdtTypeOK
  <2>2. CASE LockRegistry(c)
    <3>1. conns' \in [Conns -> Connection] /\ locked' \in Conns \cup {None}
      BY <2>2, LockRegistryEffect DEF Moved, Frame, CrdtTypeOK
    <3> QED BY <2>2, <3>1, LockRegistryEffect, TypeKept DEF CrdtTypeOK
  <2> QED BY <1>1, <2>1, <2>2
<1>2. ASSUME NEW c \in Conns, LoadReads(c)
      PROVE  CrdtTypeOK'
  BY <1>2, LoadReadsEffect, CountsKept DEF CrdtTypeOK, Moved, Frame
<1>3. ASSUME NEW c \in Conns, LoadFails(c)
      PROVE  CrdtTypeOK'
  BY <1>3, LoadFailsEffect, FaultOK DEF CrdtTypeOK, Cleared, Frame
<1>4. ASSUME NEW c \in Conns, Initialize(c) \/ OptimizeMerges(c)
      PROVE  CrdtTypeOK'
  <2>1. /\ conns' \in [Conns -> Connection]
        /\ \E seq \in Nat \cup {NoCounter} : Issued(seq)
        /\ UNCHANGED <<log, sweep, registry, locked, docs, replica, counts, acked, races>>
    BY <1>4, InitializeEffect, OptimizeMergesEffect DEF Moved, Frame
  <2>2. counter' \in Nat \cup {NoCounter}
    BY <2>1, IssuedOK
  <2> QED BY <2>1, <2>2, CountsKept DEF CrdtTypeOK
<1>5. ASSUME NEW c \in Conns, Register(c)
      PROVE  CrdtTypeOK'
  <2>1. docs' \in [Conns -> SUBSET Edits]
    BY <1>5, RegisterEffect, FieldsOK DEF CrdtTypeOK
  <2>2. conns' \in [Conns -> Connection] /\ registry' = c /\ locked' = None
        /\ UNCHANGED <<log, counter, sweep, replica, counts, acked, races>>
    BY <1>5, RegisterEffect DEF Moved, Frame
  <2> QED BY <2>1, <2>2, CountsKept DEF CrdtTypeOK
<1>6. ASSUME NEW c \in Conns, Greet(c) \/ Subscribe(c)
      PROVE  CrdtTypeOK'
  <2>1. /\ conns' \in [Conns -> Connection]
        /\ UNCHANGED <<log, counter, sweep, registry, locked, docs, replica, counts,
                       acked, races>>
    BY <1>6, GreetEffect, SubscribeEffect DEF Stays, Frame
  <2> QED BY <2>1, TypeKept DEF CrdtTypeOK
<1>7. ASSUME NEW c \in Conns, AnswerStep1(c) \/ Forward(c)
      PROVE  CrdtTypeOK'
  <2>1. LiveDoc(c) \in SUBSET Edits
    BY <1>7 DEF AnswerStep1, Receives, Forward, PlacesOK, Attached, Serving, At,
                LiveDoc, CrdtTypeOK
  <2>2. ASSUME Forward(c) PROVE Head(conns[c].bcast) \in SUBSET Edits
    BY <2>2, FieldsOK, QueueOK DEF Forward
  <2>3. ASSUME NEW data \in SUBSET Edits, Deliver(c, data)
        PROVE  replica' \in [Clients -> SUBSET Edits]
    BY <2>3 DEF Deliver, CrdtTypeOK
  <2>4. replica' \in [Clients -> SUBSET Edits]
    BY <1>7, <2>1, <2>2, <2>3, AnswerStep1Effect, ForwardEffect
  <2> QED BY <1>7, <2>4, AnswerStep1Effect, ForwardEffect, CountsKept
          DEF CrdtTypeOK, Stays, Frame
<1>8. ASSUME NEW c \in Conns, DropUpdate(c)
      PROVE  CrdtTypeOK'
  BY <1>8, DropUpdateEffect, TypeKept DEF CrdtTypeOK, Stays, Frame
<1>9. ASSUME NEW c \in Conns, ApplyUpdate(c)
      PROVE  CrdtTypeOK'
  <2> DEFINE data == Head(conns[c].recv).data
  <2>1. /\ data \in SUBSET Edits /\ docs' = [docs EXCEPT ![conns[c].state] = @ \cup data]
        /\ conns' \in [Conns -> Connection]
        /\ \E seq \in Nat \cup {NoCounter} : Issued(seq)
        /\ UNCHANGED <<log, sweep, registry, locked, replica, counts, acked, races>>
    BY <1>9, ApplyUpdateEffect DEF Frame
  <2> HIDE DEF data
  <2>2. docs' \in [Conns -> SUBSET Edits]
    BY <2>1 DEF CrdtTypeOK
  <2> QED BY <2>1, <2>2, IssuedOK, CountsKept DEF CrdtTypeOK
<1>10. ASSUME NEW c \in Conns, Broadcast(c)
       PROVE  CrdtTypeOK'
  <2>1. acked' \subseteq Edits
    BY <1>10, BroadcastEffect, FieldsOK DEF CrdtTypeOK
  <2>2. /\ conns' \in [Conns -> Connection]
        /\ UNCHANGED <<log, counter, sweep, registry, locked, docs, replica, counts, races>>
    BY <1>10, BroadcastEffect
  <2> QED BY <2>1, <2>2, CountsKept DEF CrdtTypeOK
<1>11. ASSUME NEW c \in Conns, SeedCounter(c)
       PROVE  CrdtTypeOK'
  <2>1. NextSeq(log) + 1 \in Nat
    BY NextSeqFresh DEF CrdtTypeOK
  <2> QED BY <1>11, <2>1, SeedCounterEffect, CountsKept DEF CrdtTypeOK, Moved, Frame
<1>12. ASSUME NEW c \in Conns, WriteTakesEffect(c)
       PROVE  CrdtTypeOK'
  <2>1. conns[c].seq \in Nat
    BY <1>12, WriteTakesEffectEffect, FieldsOK
  <2>2. LogOK(log')
    <3>1. LogOK(log) /\ conns[c].data \in SUBSET Edits /\ conns[c].seqs \in SUBSET Nat
      BY FieldsOK DEF CrdtTypeOK
    <3>2. /\ LogOK(Put(log, conns[c].seq, conns[c].data))
          /\ LogOK(Compact(log, conns[c].seqs, conns[c].seq, conns[c].data))
      <4>1. PICK s \in Nat : s = conns[c].seq
        BY <2>1
      <4>2. /\ LogOK(Put(log, s, conns[c].data))
            /\ LogOK(Compact(log, conns[c].seqs, s, conns[c].data))
        <5>1. LogOK(Put(log, s, conns[c].data))
          BY <3>1, PutOK
        <5>2. LogOK(Compact(log, conns[c].seqs, s, conns[c].data))
          BY <3>1, CompactOK
        <5> QED BY <5>1, <5>2
      <4> QED BY <4>1, <4>2
    <3> QED BY <1>12, <3>2, WriteTakesEffectEffect
  <2>3. conns' \in [Conns -> Connection]
    BY <1>12, WriteTakesEffectEffect DEF Moved, Cleared, Frame
  <2>4. UNCHANGED <<counter, sweep, registry, locked, docs, replica, counts, acked,
                    races>>
    BY <1>12, WriteTakesEffectEffect
  <2> QED BY <2>2, <2>3, <2>4, CountsKept DEF CrdtTypeOK
<1>13. ASSUME NEW c \in Conns, WriteFails(c)
       PROVE  CrdtTypeOK'
  BY <1>13, WriteFailsEffect, FaultOK DEF CrdtTypeOK, Moved, Cleared, Frame
<1>14. ASSUME NEW c \in Conns, Disconnect(c) \/ TasksEnd(c)
       PROVE  CrdtTypeOK'
  <2>1. /\ conns' \in [Conns -> Connection]
        /\ UNCHANGED <<log, counter, sweep, registry, locked, docs, replica, counts,
                       acked, races>>
    BY <1>14, DisconnectEffect, TasksEndEffect DEF Stays, Frame
  <2> QED BY <2>1, TypeKept DEF CrdtTypeOK
<1>15. ASSUME NEW c \in Conns, Close(c) \/ CheckLast(c) \/ OptimizeReads(c)
       PROVE  CrdtTypeOK'
  <2>1. /\ conns' \in [Conns -> Connection]
        /\ UNCHANGED <<log, counter, sweep, registry, locked, docs, replica, counts,
                       acked, races>>
    BY <1>15, CloseEffect, CheckLastEffect, OptimizeReadsEffect
       DEF Moved, Cleared, Frame
  <2> QED BY <2>1, TypeKept DEF CrdtTypeOK
<1>16. ASSUME NEW c \in Conns, Unregister(c)
       PROVE  CrdtTypeOK'
  BY <1>16, UnregisterEffect, CountsKept DEF CrdtTypeOK, Moved, Cleared, Frame
<1>17. ASSUME NEW c \in Conns, OptimizeFails(c) \/ OptimizeSkips(c)
       PROVE  CrdtTypeOK'
  <2>1. CountsOK'
    BY <1>17, OptimizeEndsEffect, FaultOK, CountsKept DEF CrdtTypeOK
  <2> QED BY <1>17, <2>1, OptimizeEndsEffect DEF CrdtTypeOK, Cleared, Frame
<1>18. ASSUME NEW c \in Conns, NEW k \in Clients, Connect(c, k)
       PROVE  CrdtTypeOK'
  BY <1>18, ConnectEffect, TypeKept DEF CrdtTypeOK, Stays, Frame
<1>19. ASSUME NEW e \in Edits, Edit(e)
       PROVE  CrdtTypeOK'
  <2>1. replica' \in [Clients -> SUBSET Edits]
    <3>1. Author[e] \in Clients /\ e \in Edits
      BY AuthorAssumption
    <3>2. replica' = [replica EXCEPT ![Author[e]] = @ \cup {e}]
      BY <1>19, EditEffect
    <3> QED BY <3>1, <3>2 DEF CrdtTypeOK
  <2>2. /\ conns' \in [Conns -> Connection]
        /\ UNCHANGED <<log, counter, sweep, registry, locked, docs, counts, acked, races>>
    BY <1>19, EditEffect
  <2> QED BY <2>1, <2>2, CountsKept DEF CrdtTypeOK
<1>20. CASE StartSweep \/ EndSweep
  <2>1. CountsOK'
    BY <1>20, CountsKept DEF StartSweep, EndSweep, CrdtTypeOK, CountsOK
  <2> QED BY <1>20, <2>1 DEF StartSweep, EndSweep, CrdtTypeOK
<1>21. CASE Crash
  <2>1. CountsOK'
    <3>1. counts' = [counts EXCEPT !.crashes = @ + 1] /\ CountsOK
      BY <1>21, CrashEffect DEF CrdtTypeOK
    <3> QED BY <3>1 DEF CountsOK
  <2>2. docs' \in [Conns -> SUBSET Edits]
    BY <1>21, CrashEffect
  <2> QED BY <1>21, <2>1, <2>2, CrashEffect DEF CrdtTypeOK
<1>22. CASE UNCHANGED vars
  BY <1>22, CountsKept DEF vars, CrdtTypeOK
<1> QED BY <1>1, <1>2, <1>3, <1>4, <1>5, <1>6, <1>7, <1>8, <1>9, <1>10, <1>11, <1>12,
           <1>13, <1>14, <1>15, <1>16, <1>17, <1>18, <1>19, <1>20, <1>21, <1>22
        DEF Next, Open, Serve, Write, Finish

-----------------------------------------------------------------------------
(* Two kinds of steps most invariants need not tell apart: those that move *)
(* no connection, and those between joining a document and closing.        *)

QuietStep ==
    \/ \E c \in Conns : \/ AnswerStep1(c) \/ DropUpdate(c) \/ Forward(c)
                        \/ Disconnect(c) \/ TasksEnd(c)
    \/ \E e \in Edits : Edit(e)
    \/ StartSweep \/ EndSweep \/ UNCHANGED vars

Quiet ==
    /\ \A d \in Conns :
         /\ conns'[d].pc = conns[d].pc /\ conns'[d].client = conns[d].client
         /\ conns'[d].state = conns[d].state /\ conns'[d].seq = conns[d].seq
         /\ conns'[d].data = conns[d].data /\ conns'[d].seqs = conns[d].seqs
         /\ conns'[d].up => conns[d].up
         /\ conns'[d].tasks => conns[d].tasks
    /\ UNCHANGED <<log, counter, registry, locked, docs, acked, races>>
    /\ counts'.faults = counts.faults

LEMMA QuietOK ==
    ASSUME CrdtTypeOK, QuietStep
    PROVE  Quiet
<1>1. ASSUME NEW c \in Conns, AnswerStep1(c) PROVE Quiet
  BY <1>1, AnswerStep1Effect DEF At, Stays, Frame, Quiet
<1>2. ASSUME NEW c \in Conns, DropUpdate(c) PROVE Quiet
  BY <1>2, DropUpdateEffect DEF At, Stays, Frame, Quiet
<1>3. ASSUME NEW c \in Conns, Forward(c) PROVE Quiet
  BY <1>3, ForwardEffect DEF Stays, Frame, Quiet
<1>4. ASSUME NEW c \in Conns, Disconnect(c) PROVE Quiet
  BY <1>4, DisconnectEffect DEF Stays, Frame, Quiet
<1>5. ASSUME NEW c \in Conns, TasksEnd(c) PROVE Quiet
  BY <1>5, TasksEndEffect DEF Stays, Frame, Quiet
<1>6. ASSUME NEW e \in Edits, Edit(e) PROVE Quiet
  BY <1>6, EditEffect DEF Quiet
<1>7. CASE StartSweep
  <2>1. counts'.faults = counts.faults
    BY <1>7 DEF StartSweep, CrdtTypeOK, CountsOK
  <2> QED BY <1>7, <2>1 DEF StartSweep, Quiet
<1>8. CASE EndSweep \/ UNCHANGED vars
  BY <1>8 DEF EndSweep, vars, Quiet
<1> QED BY <1>1, <1>2, <1>3, <1>4, <1>5, <1>6, <1>7, <1>8 DEF QuietStep

(* c has the document before and after the step.                           *)
HasStep(c) == Greet(c) \/ Subscribe(c) \/ ApplyUpdate(c) \/ Broadcast(c)

Has(c) ==
    /\ \A d \in Conns :
         /\ conns'[d].client = conns[d].client /\ conns'[d].state = conns[d].state
         /\ conns'[d].seqs = conns[d].seqs /\ conns'[d].up = conns[d].up
         /\ d # c => /\ conns'[d].pc = conns[d].pc /\ conns'[d].seq = conns[d].seq
                     /\ conns'[d].data = conns[d].data
                     /\ conns'[d].tasks = conns[d].tasks
    /\ \/ At(c, "joined") /\ conns'[c].pc = "greeted"
          /\ conns'[c].seq = conns[c].seq /\ conns'[c].data = conns[c].data
          /\ conns'[c].tasks = conns[c].tasks
       \/ At(c, "greeted") /\ conns'[c].pc = "open"
          /\ conns'[c].seq = conns[c].seq /\ conns'[c].data = conns[c].data
       \/ At(c, "open") /\ conns'[c].pc = "store"
       \/ At(c, "stored") /\ conns'[c].pc = "open" /\ conns'[c].data = {}
          /\ conns'[c].seq = conns[c].seq
    /\ UNCHANGED <<log, registry, locked, counts, races>>

LEMMA HasOK ==
    ASSUME CrdtTypeOK, PlacesOK, NEW c \in Conns, HasStep(c)
    PROVE  Has(c)
<1>1. CASE Greet(c)
  BY <1>1, GreetEffect DEF Stays, Frame, Has
<1>2. CASE Subscribe(c)
  BY <1>2, SubscribeEffect DEF Stays, Frame, Has
<1>3. CASE ApplyUpdate(c)
  BY <1>3, ApplyUpdateEffect DEF Frame, Has
<1>4. CASE Broadcast(c)
  BY <1>4, BroadcastEffect DEF Has
<1> QED BY <1>1, <1>2, <1>3, <1>4 DEF HasStep

LEMMA PlacesStep ==
    ASSUME CrdtTypeOK, PlacesOK, LockInv, [Next]_vars
    PROVE  PlacesOK'
<1> USE DEF PlacesOK, At, Attached, Optimizing, Entering, Loading, Fetched, Serving,
            Writing, Frame
<1>0. /\ registry # None => registry \in Conns
      /\ \A c \in Conns : conns'[c].pc = conns'[c].pc
  BY DEF CrdtTypeOK
<1>1. ASSUME NEW c \in Conns, Lookup(c)
      PROVE  PlacesOK'
  BY <1>0, <1>1, LookupEffect DEF Moved
<1>2. ASSUME NEW c \in Conns, LockRegistry(c)
      PROVE  PlacesOK'
  BY <1>0, <1>2, LockRegistryEffect DEF Moved
<1>3. ASSUME NEW c \in Conns, LoadReads(c)
      PROVE  PlacesOK'
  BY <1>3, LoadReadsEffect DEF Moved
<1>4. ASSUME NEW c \in Conns, LoadFails(c)
      PROVE  PlacesOK'
  BY <1>4, LoadFailsEffect DEF Cleared
<1>5. ASSUME NEW c \in Conns, Initialize(c) \/ OptimizeMerges(c)
      PROVE  PlacesOK'
  <2>1. CASE Initialize(c)
    BY <2>1, InitializeEffect DEF Moved
  <2>2. CASE OptimizeMerges(c)
    BY <2>2, OptimizeMergesEffect DEF Moved
  <2> QED BY <1>5, <2>1, <2>2
<1>6. ASSUME NEW c \in Conns, Register(c)
      PROVE  PlacesOK'
  BY <1>6, RegisterEffect DEF Moved
<1>7. ASSUME NEW c \in Conns, HasStep(c)
      PROVE  PlacesOK'
  BY <1>7, HasOK DEF Has
<1>8. CASE QuietStep
  BY <1>8, QuietOK DEF Quiet
<1>9. ASSUME NEW c \in Conns, SeedCounter(c)
       PROVE  PlacesOK'
  BY <1>9, SeedCounterEffect DEF Moved
<1>10. ASSUME NEW c \in Conns, WriteTakesEffect(c)
       PROVE  PlacesOK'
  BY <1>10, WriteTakesEffectEffect DEF Moved, Cleared
<1>11. ASSUME NEW c \in Conns, WriteFails(c)
       PROVE  PlacesOK'
  BY <1>11, WriteFailsEffect DEF Moved, Cleared
<1>12. ASSUME NEW c \in Conns, Close(c)
       PROVE  PlacesOK'
  BY <1>12, CloseEffect DEF Cleared
<1>13. ASSUME NEW c \in Conns, CheckLast(c)
       PROVE  PlacesOK'
  BY <1>13, CheckLastEffect DEF Moved, Cleared
<1>14. ASSUME NEW c \in Conns, Unregister(c)
       PROVE  PlacesOK'
  BY <1>0, <1>14, UnregisterEffect DEF Moved, Cleared
<1>15. ASSUME NEW c \in Conns, OptimizeReads(c)
       PROVE  PlacesOK'
  BY <1>15, OptimizeReadsEffect DEF Moved, Cleared
<1>16. ASSUME NEW c \in Conns, OptimizeFails(c) \/ OptimizeSkips(c)
       PROVE  PlacesOK'
  BY <1>16, OptimizeEndsEffect DEF Cleared
<1>17. ASSUME NEW c \in Conns, NEW k \in Clients, Connect(c, k)
       PROVE  PlacesOK'
  <2>1. /\ At(c, "off") /\ conns'[c].pc = "lookup" /\ conns'[c].client = k
        /\ conns'[c].tasks = conns[c].tasks /\ conns'[c].seq = conns[c].seq
        /\ \A d \in Conns \ {c} : conns'[d] = conns[d]
    BY <1>17, ConnectEffect, ZenonT(30) DEF Stays, Frame
  <2> QED BY <2>1
<1>18. CASE Crash
  BY <1>18, CrashEffect
<1> QED BY <1>1, <1>2, <1>3, <1>4, <1>5, <1>6, <1>7, <1>8, <1>9, <1>10, <1>11,
           <1>12, <1>13, <1>14, <1>15, <1>16, <1>17, <1>18
        DEF Next, Open, Serve, Write, Finish, HasStep, QuietStep

LEMMA ConnectPlace ==
    ASSUME CrdtTypeOK, NEW c \in Conns, NEW k \in Clients, Connect(c, k)
    PROVE  /\ At(c, "off") /\ conns'[c].pc = "lookup"
           /\ conns'[c].state = conns[c].state /\ conns'[c].seq = conns[c].seq
           /\ conns'[c].tasks = conns[c].tasks /\ conns'[c].data = conns[c].data
           /\ \A d \in Conns \ {c} : conns'[d] = conns[d]
           /\ UNCHANGED <<log, counter, sweep, registry, locked, docs, counts, acked,
                          races>>
BY ConnectEffect DEF Stays, Frame

-----------------------------------------------------------------------------
(* One document: the lock, the registry and what is stored.                *)

LEMMA LockStep ==
    ASSUME CrdtTypeOK, PlacesOK, LockInv, [Next]_vars
    PROVE  LockInv'
<1> USE DEF LockInv, At, Loading, Fetched, Frame
<1>0. locked \in Conns \cup {None}
  BY DEF CrdtTypeOK
<1>1. ASSUME NEW c \in Conns, Lookup(c)
      PROVE  LockInv'
  BY <1>0, <1>1, LookupEffect DEF Moved
<1>2. ASSUME NEW c \in Conns, LockRegistry(c)
      PROVE  LockInv'
  <2>1. CASE registry # None
    BY <1>0, <1>2, <2>1, LockRegistryEffect DEF Moved
  <2>2. CASE registry = None
    <3>1. locked = None /\ locked' = c /\ registry' = None
      BY <1>2, <2>2, LockRegistryEffect
    <3>2. \A d \in Conns : Loading(d)' => d = c
      BY <1>2, <2>2, <3>1, NoneAssumption, LockRegistryEffect DEF Moved
    <3>3. Loading(c)'
      BY <1>2, <2>2, LockRegistryEffect DEF Moved
    <3> QED BY <3>1, <3>2, <3>3
  <2> QED BY <2>1, <2>2
<1>3. ASSUME NEW c \in Conns, LoadReads(c)
      PROVE  LockInv'
  BY <1>0, <1>3, LoadReadsEffect DEF Moved
<1>4. ASSUME NEW c \in Conns, LoadFails(c)
      PROVE  LockInv'
  BY <1>0, <1>4, LoadFailsEffect DEF Cleared
<1>5. ASSUME NEW c \in Conns, Initialize(c)
      PROVE  LockInv'
  BY <1>0, <1>5, InitializeEffect DEF Moved
<1>6. ASSUME NEW c \in Conns, Register(c)
      PROVE  LockInv'
  BY <1>0, <1>6, RegisterEffect DEF Moved
<1>7. ASSUME NEW c \in Conns, HasStep(c)
      PROVE  LockInv'
  <2>1. \A d \in Conns : Loading(d)' <=> Loading(d)
    BY <1>7, HasOK DEF Has
  <2> QED BY <1>0, <1>7, <2>1, HasOK DEF Has
<1>8. ASSUME NEW c \in Conns, SeedCounter(c)
      PROVE  LockInv'
  BY <1>0, <1>8, SeedCounterEffect DEF Moved
<1>9. ASSUME NEW c \in Conns, WriteTakesEffect(c)
      PROVE  LockInv'
  BY <1>0, <1>9, WriteTakesEffectEffect DEF Moved, Cleared
<1>10. ASSUME NEW c \in Conns, WriteFails(c)
       PROVE  LockInv'
  BY <1>0, <1>10, WriteFailsEffect DEF Moved, Cleared
<1>11. ASSUME NEW c \in Conns, Close(c)
       PROVE  LockInv'
  BY <1>0, <1>11, CloseEffect DEF Cleared
<1>12. ASSUME NEW c \in Conns, CheckLast(c)
       PROVE  LockInv'
  BY <1>0, <1>12, CheckLastEffect DEF Moved, Cleared
<1>13. ASSUME NEW c \in Conns, Unregister(c)
       PROVE  LockInv'
  BY <1>0, <1>13, UnregisterEffect DEF Moved, Cleared
<1>14. ASSUME NEW c \in Conns, OptimizeReads(c)
       PROVE  LockInv'
  BY <1>0, <1>14, OptimizeReadsEffect DEF Moved, Cleared
<1>15. ASSUME NEW c \in Conns, OptimizeFails(c) \/ OptimizeSkips(c)
       PROVE  LockInv'
  BY <1>0, <1>15, OptimizeEndsEffect DEF Cleared, Optimizing
<1>16. ASSUME NEW c \in Conns, OptimizeMerges(c)
       PROVE  LockInv'
  BY <1>0, <1>16, OptimizeMergesEffect DEF Moved
<1>17. CASE QuietStep
  BY <1>0, <1>17, QuietOK DEF Quiet
<1>18. ASSUME NEW c \in Conns, NEW k \in Clients, Connect(c, k)
       PROVE  LockInv'
  BY <1>0, <1>18, ConnectPlace
<1>19. CASE Crash
  BY <1>19, CrashEffect
<1> QED BY <1>1, <1>2, <1>3, <1>4, <1>5, <1>6, <1>7, <1>8, <1>9, <1>10, <1>11,
           <1>12, <1>13, <1>14, <1>15, <1>16, <1>17, <1>18, <1>19
        DEF Next, Open, Serve, Write, Finish, HasStep, QuietStep

LEMMA OneDocStep ==
    ASSUME CrdtTypeOK, PlacesOK, LockInv, OneLiveDoc, [Next]_vars
    PROVE  OneLiveDoc'
<1> USE DEF PlacesOK, LockInv, OneLiveDoc, Attached, At, Loading, Fetched, Frame
<1>1. ASSUME NEW c \in Conns, Lookup(c)
      PROVE  OneLiveDoc'
  BY <1>1, LookupEffect DEF Moved
<1>2. ASSUME NEW c \in Conns, LockRegistry(c)
      PROVE  OneLiveDoc'
  BY <1>2, LockRegistryEffect DEF Moved
<1>3. ASSUME NEW c \in Conns, LoadReads(c)
      PROVE  OneLiveDoc'
  BY <1>3, LoadReadsEffect DEF Moved
<1>4. ASSUME NEW c \in Conns, LoadFails(c)
      PROVE  OneLiveDoc'
  BY <1>4, LoadFailsEffect DEF Cleared
<1>5. ASSUME NEW c \in Conns, Initialize(c)
      PROVE  OneLiveDoc'
  BY <1>5, InitializeEffect DEF Moved
<1>6. ASSUME NEW c \in Conns, Register(c)
      PROVE  OneLiveDoc'
  <2>1. registry = None /\ Loading(c)
    BY <1>6, RegisterEffect
  <2>2. \A d \in Conns : "join" \notin races => ~Attached(d)
    BY <2>1, NoneAssumption
  <2> QED BY <1>6, <2>2, RegisterEffect DEF Moved
<1>7. ASSUME NEW c \in Conns, HasStep(c)
      PROVE  OneLiveDoc'
  BY <1>7, HasOK DEF Has
<1>8. ASSUME NEW c \in Conns, SeedCounter(c)
      PROVE  OneLiveDoc'
  BY <1>8, SeedCounterEffect DEF Moved
<1>9. ASSUME NEW c \in Conns, WriteTakesEffect(c)
      PROVE  OneLiveDoc'
  BY <1>9, WriteTakesEffectEffect DEF Moved, Cleared
<1>10. ASSUME NEW c \in Conns, WriteFails(c)
       PROVE  OneLiveDoc'
  BY <1>10, WriteFailsEffect DEF Moved, Cleared
<1>11. ASSUME NEW c \in Conns, Close(c)
       PROVE  OneLiveDoc'
  BY <1>11, CloseEffect DEF Cleared
<1>12. ASSUME NEW c \in Conns, CheckLast(c)
       PROVE  OneLiveDoc'
  BY <1>12, CheckLastEffect DEF Moved, Cleared
<1>13. ASSUME NEW c \in Conns, Unregister(c)
       PROVE  OneLiveDoc'
  <2>1. CASE registry' # None
    BY <1>13, <2>1, UnregisterEffect DEF Moved, Cleared
  <2>2. CASE registry # None /\ Unwatched(registry)
    <3>1. "join" \notin races' => \A d \in Conns : ~Attached(d)
      <4>1. SUFFICES ASSUME "join" \notin races', NEW d \in Conns, Attached(d)
                     PROVE  FALSE
        OBVIOUS
      <4>2. races' = IF \E b \in Conns : Uncounted(b) THEN races \cup {"join"} ELSE races
        BY <1>13, <2>2, UnregisterEffect
      <4>3. ~Uncounted(d) /\ "join" \notin races
        BY <4>1, <4>2
      <4> QED BY <2>2, <4>1, <4>3 DEF Uncounted, Unwatched
    <3> QED BY <1>13, <3>1, UnregisterEffect DEF Moved, Cleared
  <2>3. CASE ~(registry # None /\ Unwatched(registry))
    BY <1>13, <2>3, UnregisterEffect DEF Moved, Cleared
  <2> QED BY <2>2, <2>3
<1>14. ASSUME NEW c \in Conns, OptimizeReads(c)
       PROVE  OneLiveDoc'
  BY <1>14, OptimizeReadsEffect DEF Moved, Cleared
<1>15. ASSUME NEW c \in Conns, OptimizeFails(c) \/ OptimizeSkips(c)
       PROVE  OneLiveDoc'
  BY <1>15, OptimizeEndsEffect DEF Cleared
<1>16. ASSUME NEW c \in Conns, OptimizeMerges(c)
       PROVE  OneLiveDoc'
  BY <1>16, OptimizeMergesEffect DEF Moved
<1>17. CASE QuietStep
  BY <1>17, QuietOK DEF Quiet
<1>18. ASSUME NEW c \in Conns, NEW k \in Clients, Connect(c, k)
       PROVE  OneLiveDoc'
  BY <1>18, ConnectPlace
<1>19. CASE Crash
  BY <1>19, CrashEffect
<1> QED BY <1>1, <1>2, <1>3, <1>4, <1>5, <1>6, <1>7, <1>8, <1>9, <1>10, <1>11,
           <1>12, <1>13, <1>14, <1>15, <1>16, <1>17, <1>18, <1>19
        DEF Next, Open, Serve, Write, Finish, HasStep, QuietStep

LEMMA LeftStep ==
    ASSUME CrdtTypeOK, PlacesOK, LeftInv, [Next]_vars
    PROVE  LeftInv'
<1> USE DEF LeftInv, Attached, At, Frame
<1>1. ASSUME NEW c \in Conns, Lookup(c)
      PROVE  LeftInv'
  BY <1>1, LookupEffect DEF Moved
<1>2. ASSUME NEW c \in Conns, LockRegistry(c)
      PROVE  LeftInv'
  BY <1>2, LockRegistryEffect DEF Moved
<1>3. ASSUME NEW c \in Conns, LoadReads(c)
      PROVE  LeftInv'
  BY <1>3, LoadReadsEffect DEF Moved
<1>4. ASSUME NEW c \in Conns, LoadFails(c)
      PROVE  LeftInv'
  BY <1>4, LoadFailsEffect DEF Cleared
<1>5. ASSUME NEW c \in Conns, Initialize(c)
      PROVE  LeftInv'
  BY <1>5, InitializeEffect DEF Moved
<1>6. ASSUME NEW c \in Conns, Register(c)
      PROVE  LeftInv'
  BY <1>6, RegisterEffect DEF Moved
<1>7. ASSUME NEW c \in Conns, HasStep(c)
      PROVE  LeftInv'
  BY <1>7, HasOK DEF Has
<1>8. ASSUME NEW c \in Conns, SeedCounter(c)
      PROVE  LeftInv'
  BY <1>8, SeedCounterEffect DEF Moved
<1>9. ASSUME NEW c \in Conns, WriteTakesEffect(c)
      PROVE  LeftInv'
  BY <1>9, WriteTakesEffectEffect DEF Moved, Cleared
<1>10. ASSUME NEW c \in Conns, WriteFails(c)
       PROVE  LeftInv'
  BY <1>10, WriteFailsEffect DEF Moved, Cleared
<1>11. ASSUME NEW c \in Conns, Close(c)
       PROVE  LeftInv'
  BY <1>11, CloseEffect DEF Cleared
<1>12. ASSUME NEW c \in Conns, CheckLast(c)
       PROVE  LeftInv'
  <2>1. CASE registry = None
    BY <1>12, <2>1, CheckLastEffect
  <2>2. CASE registry # None
    <3>1. CASE Unwatched(registry)
      BY <1>12, <2>2, <3>1, CheckLastEffect DEF Moved
    <3>2. CASE ~Unwatched(registry)
      <4>1. PICK d \in Conns : conns[d].tasks
        BY <3>2 DEF Unwatched
      <4>2. Attached(d) /\ d # c
        BY <1>12, <4>1, CheckLastEffect DEF PlacesOK, Serving
      <4> QED BY <1>12, <4>2, CheckLastEffect DEF Moved, Cleared
    <3> QED BY <3>1, <3>2
  <2> QED BY <2>1, <2>2
<1>13. ASSUME NEW c \in Conns, Unregister(c)
       PROVE  LeftInv'
  <2>1. CASE registry = None
    BY <1>13, <2>1, UnregisterEffect
  <2>2. CASE registry # None
    <3>1. CASE Unwatched(registry)
      BY <1>13, <2>2, <3>1, UnregisterEffect DEF Moved
    <3>2. CASE ~Unwatched(registry)
      <4>1. PICK d \in Conns : conns[d].tasks
        BY <3>2 DEF Unwatched
      <4>2. Attached(d) /\ d # c
        BY <1>13, <4>1, UnregisterEffect DEF PlacesOK, Serving
      <4> QED BY <1>13, <3>2, <4>2, UnregisterEffect DEF Moved, Cleared
    <3> QED BY <3>1, <3>2
  <2> QED BY <2>1, <2>2
<1>14. ASSUME NEW c \in Conns, OptimizeReads(c)
       PROVE  LeftInv'
  BY <1>14, OptimizeReadsEffect DEF Moved, Cleared
<1>15. ASSUME NEW c \in Conns, OptimizeFails(c) \/ OptimizeSkips(c)
       PROVE  LeftInv'
  BY <1>15, OptimizeEndsEffect DEF Cleared, Optimizing
<1>16. ASSUME NEW c \in Conns, OptimizeMerges(c)
       PROVE  LeftInv'
  BY <1>16, OptimizeMergesEffect DEF Moved
<1>17. CASE QuietStep
  BY <1>17, QuietOK DEF Quiet
<1>18. ASSUME NEW c \in Conns, NEW k \in Clients, Connect(c, k)
       PROVE  LeftInv'
  BY <1>18, ConnectPlace
<1>19. CASE Crash
  BY <1>19, CrashEffect
<1> QED BY <1>1, <1>2, <1>3, <1>4, <1>5, <1>6, <1>7, <1>8, <1>9, <1>10, <1>11,
           <1>12, <1>13, <1>14, <1>15, <1>16, <1>17, <1>18, <1>19
        DEF Next, Open, Serve, Write, Finish, HasStep, QuietStep

LEMMA WrittenOK ==
    ASSUME CrdtTypeOK, NEW c \in Conns, WriteTakesEffect(c)
    PROVE  /\ log' # {} /\ conns[c].seq \in Nat
           /\ Seqs(log') \subseteq Seqs(log) \cup {conns[c].seq}
           /\ conns[c].data \subseteq Contents(log')
           /\ Contents(log') \subseteq Contents(log) \cup conns[c].data
           /\ ~At(c, "compact") /\ conns[c].seq \notin Seqs(log) =>
                Contents(log') = Contents(log) \cup conns[c].data
<1>1. /\ LogOK(log) /\ conns[c].data \in SUBSET Edits /\ conns[c].seqs \in SUBSET Nat
      /\ conns[c].seq \in Nat
  BY FieldsOK, WriteTakesEffectEffect DEF CrdtTypeOK
<1>2. PICK s \in Nat : s = conns[c].seq
  BY <1>1
<1>3. PICK u \in SUBSET Edits : u = conns[c].data
  BY <1>1
<1>4. CASE At(c, "compact")
  <2>1. log' = Compact(log, conns[c].seqs, s, u)
    BY <1>2, <1>3, <1>4, WriteTakesEffectEffect DEF At
  <2>6. PICK q \in SUBSET Nat : q = conns[c].seqs
    BY <1>1
  <2> DEFINE l == Compact(log, q, s, u)
  <2>2. l # {}
    BY <1>1, CompactOK
  <2>3. Seqs(l) \subseteq Seqs(log) \cup {s}
    BY <1>1, CompactOK
  <2>4. u \subseteq Contents(l)
    BY <1>1, CompactOK
  <2>5. Contents(l) \subseteq Contents(log) \cup u
    BY <1>1, CompactOK
  <2> HIDE DEF l
  <2> QED BY <1>1, <1>2, <1>3, <1>4, <2>1, <2>2, <2>3, <2>4, <2>5, <2>6 DEF l
<1>5. CASE ~At(c, "compact")
  <2>1. log' = Put(log, s, u)
    BY <1>2, <1>3, <1>5, WriteTakesEffectEffect DEF At
  <2>2. /\ Put(log, s, u) # {}
        /\ Seqs(Put(log, s, u)) \subseteq Seqs(log) \cup {s}
        /\ u \subseteq Contents(Put(log, s, u))
        /\ Contents(Put(log, s, u)) \subseteq Contents(log) \cup u
        /\ s \notin Seqs(log) => Contents(Put(log, s, u)) = Contents(log) \cup u
    BY <1>1, PutOK
  <2> QED BY <1>1, <1>2, <1>3, <2>1, <2>2
<1> QED BY <1>4, <1>5

LEMMA FirstStep ==
    ASSUME CrdtTypeOK, PlacesOK, LockInv, FirstInv, [Next]_vars
    PROVE  FirstInv'
<1> USE DEF LockInv, FirstInv, Attached, Optimizing, At, Loading, Fetched, Frame
<1>1. ASSUME NEW c \in Conns, Lookup(c)
      PROVE  FirstInv'
  BY <1>1, LookupEffect DEF Moved
<1>2. ASSUME NEW c \in Conns, LockRegistry(c)
      PROVE  FirstInv'
  BY <1>2, LockRegistryEffect DEF Moved
<1>3. ASSUME NEW c \in Conns, LoadReads(c)
      PROVE  FirstInv'
  <2>1. Seqs(log) = {} <=> log = {}
    BY DEF Seqs
  <2> QED BY <1>3, <2>1, LoadReadsEffect DEF Moved
<1>4. ASSUME NEW c \in Conns, LoadFails(c)
      PROVE  FirstInv'
  <2>1. counts'.faults # 0
    BY <1>4, LoadFailsEffect, FaultOK DEF CrdtTypeOK
  <2> QED BY <2>1
<1>5. ASSUME NEW c \in Conns, Initialize(c)
      PROVE  FirstInv'
  BY <1>5, InitializeEffect DEF Moved
<1>6. ASSUME NEW c \in Conns, Register(c)
      PROVE  FirstInv'
  BY <1>6, RegisterEffect DEF Moved
<1>7. ASSUME NEW c \in Conns, HasStep(c)
      PROVE  FirstInv'
  BY <1>7, HasOK DEF Has
<1>8. ASSUME NEW c \in Conns, SeedCounter(c)
      PROVE  FirstInv'
  BY <1>8, SeedCounterEffect DEF Moved
<1>9. ASSUME NEW c \in Conns, WriteTakesEffect(c)
      PROVE  FirstInv'
  <2>1. log' # {}
    BY <1>9, WrittenOK
  <2>2. ASSUME counts.faults = 0, ~At(c, "init")
        PROVE  log # {}
    BY <1>9, <2>2, WriteTakesEffectEffect
  <2>3. \A d \in Conns \ {c} :
          counts.faults = 0 => ~At(d, "init") /\ (At(d, "loaded") => conns[d].seqs # {})
    BY <1>9, <2>2, WriteTakesEffectEffect
  <2> QED BY <1>9, <2>1, <2>3, WriteTakesEffectEffect DEF Moved, Cleared
<1>10. ASSUME NEW c \in Conns, WriteFails(c)
       PROVE  FirstInv'
  <2>1. counts'.faults # 0
    BY <1>10, WriteFailsEffect, FaultOK DEF CrdtTypeOK
  <2> QED BY <2>1
<1>11. ASSUME NEW c \in Conns, Close(c)
       PROVE  FirstInv'
  BY <1>11, CloseEffect DEF Cleared
<1>12. ASSUME NEW c \in Conns, CheckLast(c)
       PROVE  FirstInv'
  BY <1>12, CheckLastEffect DEF Moved, Cleared
<1>13. ASSUME NEW c \in Conns, Unregister(c)
       PROVE  FirstInv'
  BY <1>13, UnregisterEffect DEF Moved, Cleared
<1>14. ASSUME NEW c \in Conns, OptimizeReads(c)
       PROVE  FirstInv'
  BY <1>14, OptimizeReadsEffect DEF Moved, Cleared
<1>15. ASSUME NEW c \in Conns, OptimizeFails(c) \/ OptimizeSkips(c)
       PROVE  FirstInv'
  <2>1. counts'.faults # 0 \/ UNCHANGED counts
    BY <1>15, OptimizeEndsEffect, FaultOK DEF CrdtTypeOK
  <2> QED BY <1>15, <2>1, OptimizeEndsEffect DEF Cleared
<1>16. ASSUME NEW c \in Conns, OptimizeMerges(c)
       PROVE  FirstInv'
  BY <1>16, OptimizeMergesEffect DEF Moved
<1>17. CASE QuietStep
  BY <1>17, QuietOK DEF Quiet
<1>18. ASSUME NEW c \in Conns, NEW k \in Clients, Connect(c, k)
       PROVE  FirstInv'
  BY <1>18, ConnectPlace
<1>19. CASE Crash
  BY <1>19, CrashEffect
<1> QED BY <1>1, <1>2, <1>3, <1>4, <1>5, <1>6, <1>7, <1>8, <1>9, <1>10, <1>11,
           <1>12, <1>13, <1>14, <1>15, <1>16, <1>17, <1>18, <1>19
        DEF Next, Open, Serve, Write, Finish, HasStep, QuietStep

-----------------------------------------------------------------------------
(* Nothing that was broadcast as stored is lost.                           *)

LEMMA IssueNumbers ==
    ASSUME CrdtTypeOK, NumbersInv, NEW c \in Conns, ~Writing(c), Writing(c)',
           NEW seq \in Nat \cup {NoCounter}, Issued(seq), conns'[c].seq = seq,
           \A d \in Conns \ {c} : /\ conns'[d].pc = conns[d].pc
                                  /\ conns'[d].seq = conns[d].seq,
           log' = log
    PROVE  NumbersInv'
<1> USE DEF NumbersInv, Numbered, Writing
<1>1. \A s \in Seqs(log) : s \in Nat /\ s < NextSeq(log)
  BY NextSeqFresh DEF CrdtTypeOK, LogOK, Seqs
<1>2. \A d \in Conns : conns[d].seq \in Nat \cup {NoCounter}
  BY FieldsOK
<1>3. counter \in Nat \cup {NoCounter}
  BY DEF CrdtTypeOK
<1>4. \A d \in Conns \ {c} : Numbered(d)' <=> Numbered(d)
  OBVIOUS
<1>5. CASE counter # NoCounter
  <2>1. seq = counter /\ counter' = counter + 1 /\ counter' # NoCounter
    BY <1>3, <1>5 DEF Issued, NoCounter
  <2>2. \A s \in Seqs(log) : s < counter' /\ s # seq
    BY <1>1, <1>3, <1>5, <2>1 DEF NoCounter
  <2>3. \A d \in Conns \ {c} : Numbered(d) =>
          /\ conns[d].seq < counter' /\ conns[d].seq # seq
          /\ conns[d].seq \notin Seqs(log)
    BY <1>2, <1>3, <1>5, <2>1 DEF NoCounter
  <2>4. seq < counter'
    BY <1>3, <1>5, <2>1 DEF NoCounter
  <2> QED BY <1>4, <2>1, <2>2, <2>3, <2>4
<1>6. CASE counter = NoCounter /\ seq # NoCounter
  <2>1. seq = NextSeq(log) /\ counter' = seq + 1 /\ seq \in Nat
    BY <1>6 DEF Issued
  <2>2. counter' # NoCounter /\ seq < counter'
    BY <2>1 DEF NoCounter
  <2>3. \A s \in Seqs(log) : s < counter' /\ s # seq
    BY <1>1, <2>1
  <2>4. \A d \in Conns \ {c} : ~Numbered(d)
    BY <1>6
  <2> QED BY <1>4, <2>2, <2>3, <2>4
<1>7. CASE counter = NoCounter /\ seq = NoCounter
  <2>1. counter' = NoCounter /\ ~Numbered(c)'
    BY <1>7 DEF Issued
  <2>2. \A d \in Conns \ {c} : ~Numbered(d)
    BY <1>7
  <2> QED BY <1>4, <2>1, <2>2
<1> QED BY <1>5, <1>6, <1>7

LEMMA NumbersStep ==
    ASSUME CrdtTypeOK, PlacesOK, NumbersInv, [Next]_vars, races' = {}
    PROVE  NumbersInv'
<1> USE DEF PlacesOK, NumbersInv, Numbered, Writing, At, Frame
<1>1. ASSUME NEW c \in Conns, Lookup(c)
      PROVE  NumbersInv'
  BY <1>1, LookupEffect DEF Moved
<1>2. ASSUME NEW c \in Conns, LockRegistry(c)
      PROVE  NumbersInv'
  BY <1>2, LockRegistryEffect DEF Moved
<1>3. ASSUME NEW c \in Conns, LoadReads(c)
      PROVE  NumbersInv'
  BY <1>3, LoadReadsEffect DEF Moved
<1>4. ASSUME NEW c \in Conns, LoadFails(c)
      PROVE  NumbersInv'
  BY <1>4, LoadFailsEffect DEF Cleared
<1>5. ASSUME NEW c \in Conns, Initialize(c)
      PROVE  NumbersInv'
  <2>1. PICK seq \in Nat \cup {NoCounter} :
          Moved(c, "init", conns[c].state, seq, {}, conns[c].seqs) /\ Issued(seq)
    BY <1>5, InitializeEffect
  <2>2. At(c, "loaded") /\ log' = log
    BY <1>5, InitializeEffect
  <2> QED BY <2>1, <2>2, IssueNumbers DEF Moved
<1>6. ASSUME NEW c \in Conns, Register(c)
      PROVE  NumbersInv'
  BY <1>6, RegisterEffect DEF Moved
<1>7. ASSUME NEW c \in Conns, HasStep(c)
      PROVE  NumbersInv'
  <2>1. CASE ApplyUpdate(c)
    <3>1. PICK seq \in Nat \cup {NoCounter} : conns'[c].seq = seq /\ Issued(seq)
      BY <2>1, ApplyUpdateEffect
    <3>2. /\ At(c, "open") /\ conns'[c].pc = "store" /\ log' = log
          /\ \A d \in Conns \ {c} : conns'[d] = conns[d]
      BY <2>1, ApplyUpdateEffect
    <3> QED BY <3>1, <3>2, IssueNumbers
  <2>2. CASE Greet(c) \/ Subscribe(c) \/ Broadcast(c)
    <3>1. UNCHANGED counter
      BY <2>2, GreetEffect, SubscribeEffect, BroadcastEffect
    <3>2. \A d \in Conns : Numbered(d)' => Numbered(d) /\ conns'[d].seq = conns[d].seq
      BY <2>2, HasOK DEF Has, HasStep, Greet, Subscribe, Broadcast
    <3>3. UNCHANGED log
      BY <2>2, HasOK DEF Has, HasStep
    <3> HIDE DEF Numbered
    <3> QED BY <3>1, <3>2, <3>3
  <2> QED BY <1>7, <2>1, <2>2 DEF HasStep
<1>8. ASSUME NEW c \in Conns, SeedCounter(c)
      PROVE  NumbersInv'
  <2> DEFINE seq == NextSeq(log)
  <2>1. seq \in Nat /\ \A s \in Seqs(log) : s \in Nat /\ s < seq
    BY NextSeqFresh DEF CrdtTypeOK, LogOK, Seqs
  <2>2. ~Taken(c, seq) /\ counter' = seq + 1 /\ log' = log
    BY <1>8, SeedCounterEffect
  <2>3. conns'[c].seq = seq /\ conns'[c].pc = conns[c].pc
        /\ \A d \in Conns \ {c} : conns'[d] = conns[d]
    BY <1>8, SeedCounterEffect DEF Moved
  <2> HIDE DEF seq
  <2>4. \A d \in Conns : conns[d].seq \in Nat \cup {NoCounter}
    BY FieldsOK
  <2>5. \A d \in Conns \ {c} : Numbered(d) => conns[d].seq < seq
    BY <2>1, <2>2, <2>4 DEF Taken, NoCounter
  <2>6. counter' # NoCounter /\ \A s \in Seqs(log) : s < counter' /\ s # seq
    BY <2>1, <2>2 DEF NoCounter
  <2>7. \A d \in Conns \ {c} : Numbered(d) =>
          conns[d].seq < counter' /\ conns[d].seq # seq /\ conns[d].seq \notin Seqs(log)
    BY <2>1, <2>2, <2>4, <2>5 DEF NoCounter
  <2>8. seq < counter'
    BY <2>1, <2>2
  <2> QED BY <2>2, <2>3, <2>6, <2>7, <2>8
<1>9. ASSUME NEW c \in Conns, WriteTakesEffect(c)
      PROVE  NumbersInv'
  <2>1. /\ Seqs(log') \subseteq Seqs(log) \cup {conns[c].seq}
        /\ Numbered(c) /\ counter' = counter
    BY <1>9, WrittenOK, WriteTakesEffectEffect
  <2>2. ~Numbered(c)' /\ \A d \in Conns \ {c} : conns'[d] = conns[d]
    BY <1>9, WriteTakesEffectEffect DEF Moved, Cleared
  <2>3. \A s \in Seqs(log') : s < counter
    BY <2>1
  <2> QED BY <2>1, <2>2, <2>3
<1>10. ASSUME NEW c \in Conns, WriteFails(c)
       PROVE  NumbersInv'
  BY <1>10, WriteFailsEffect DEF Moved, Cleared
<1>11. ASSUME NEW c \in Conns, Close(c)
       PROVE  NumbersInv'
  BY <1>11, CloseEffect DEF Cleared
<1>12. ASSUME NEW c \in Conns, CheckLast(c)
       PROVE  NumbersInv'
  BY <1>12, CheckLastEffect DEF Moved, Cleared
<1>13. ASSUME NEW c \in Conns, Unregister(c)
       PROVE  NumbersInv'
  BY <1>13, UnregisterEffect DEF Moved, Cleared
<1>14. ASSUME NEW c \in Conns, OptimizeReads(c)
       PROVE  NumbersInv'
  BY <1>14, OptimizeReadsEffect DEF Moved, Cleared
<1>15. ASSUME NEW c \in Conns, OptimizeFails(c) \/ OptimizeSkips(c)
       PROVE  NumbersInv'
  BY <1>15, OptimizeEndsEffect DEF Cleared, Optimizing
<1>16. ASSUME NEW c \in Conns, OptimizeMerges(c)
       PROVE  NumbersInv'
  <2>1. PICK seq \in Nat \cup {NoCounter} :
          Moved(c, "compact", conns[c].state, seq, LiveDoc(c), conns[c].seqs)
          /\ Issued(seq)
    BY <1>16, OptimizeMergesEffect
  <2>2. At(c, "merge") /\ log' = log
    BY <1>16, OptimizeMergesEffect
  <2> QED BY <2>1, <2>2, IssueNumbers DEF Moved
<1>17. CASE QuietStep
  BY <1>17, QuietOK DEF Quiet
<1>18. ASSUME NEW c \in Conns, NEW k \in Clients, Connect(c, k)
       PROVE  NumbersInv'
  BY <1>18, ConnectPlace
<1>19. CASE Crash
  <2>1. counter' = NoCounter /\ \A d \in Conns : ~Numbered(d)'
    BY <1>19, CrashEffect
  <2> QED BY <2>1
<1> QED BY <1>1, <1>2, <1>3, <1>4, <1>5, <1>6, <1>7, <1>8, <1>9, <1>10, <1>11,
           <1>12, <1>13, <1>14, <1>15, <1>16, <1>17, <1>18, <1>19
        DEF Next, Open, Serve, Write, Finish, HasStep, QuietStep

LEMMA RacesGrow ==
    ASSUME CrdtTypeOK, PlacesOK, [Next]_vars
    PROVE  races \subseteq races'
<1>1. ASSUME NEW c \in Conns, Lookup(c)
      PROVE  races \subseteq races'
  BY <1>1, LookupEffect
<1>2. ASSUME NEW c \in Conns, LockRegistry(c)
      PROVE  races \subseteq races'
  BY <1>2, LockRegistryEffect
<1>3. ASSUME NEW c \in Conns, LoadReads(c)
      PROVE  races \subseteq races'
  BY <1>3, LoadReadsEffect
<1>4. ASSUME NEW c \in Conns, LoadFails(c)
      PROVE  races \subseteq races'
  BY <1>4, LoadFailsEffect
<1>5. ASSUME NEW c \in Conns, Initialize(c)
      PROVE  races \subseteq races'
  BY <1>5, InitializeEffect
<1>6. ASSUME NEW c \in Conns, Register(c)
      PROVE  races \subseteq races'
  BY <1>6, RegisterEffect
<1>7. ASSUME NEW c \in Conns, HasStep(c)
      PROVE  races \subseteq races'
  BY <1>7, HasOK DEF Has
<1>8. ASSUME NEW c \in Conns, SeedCounter(c)
      PROVE  races \subseteq races'
  BY <1>8, SeedCounterEffect
<1>9. ASSUME NEW c \in Conns, WriteTakesEffect(c)
      PROVE  races \subseteq races'
  BY <1>9, WriteTakesEffectEffect
<1>10. ASSUME NEW c \in Conns, WriteFails(c)
       PROVE  races \subseteq races'
  BY <1>10, WriteFailsEffect
<1>11. ASSUME NEW c \in Conns, Close(c)
       PROVE  races \subseteq races'
  BY <1>11, CloseEffect
<1>12. ASSUME NEW c \in Conns, CheckLast(c)
       PROVE  races \subseteq races'
  BY <1>12, CheckLastEffect
<1>13. ASSUME NEW c \in Conns, Unregister(c)
       PROVE  races \subseteq races'
  BY <1>13, UnregisterEffect
<1>14. ASSUME NEW c \in Conns, OptimizeReads(c)
       PROVE  races \subseteq races'
  BY <1>14, OptimizeReadsEffect
<1>15. ASSUME NEW c \in Conns, OptimizeFails(c) \/ OptimizeSkips(c)
       PROVE  races \subseteq races'
  BY <1>15, OptimizeEndsEffect
<1>16. ASSUME NEW c \in Conns, OptimizeMerges(c)
       PROVE  races \subseteq races'
  BY <1>16, OptimizeMergesEffect
<1>17. CASE QuietStep
  BY <1>17, QuietOK DEF Quiet
<1>18. ASSUME NEW c \in Conns, NEW k \in Clients, Connect(c, k)
       PROVE  races \subseteq races'
  BY <1>18, ConnectPlace
<1>19. CASE Crash
  BY <1>19, CrashEffect
<1> QED BY <1>1, <1>2, <1>3, <1>4, <1>5, <1>6, <1>7, <1>8, <1>9, <1>10, <1>11,
           <1>12, <1>13, <1>14, <1>15, <1>16, <1>17, <1>18, <1>19
        DEF Next, Open, Serve, Write, Finish, HasStep, QuietStep

LEMMA ContentsStep ==
    ASSUME CrdtTypeOK, PlacesOK, LockInv, OneLiveDoc, NumbersInv, ContentsInv,
           [Next]_vars, races = {}, races' = {}
    PROVE  ContentsInv'
<1> USE DEF PlacesOK, LockInv, ContentsInv, At, Attached, Optimizing, Fetched, Storing, Loading, Frame
<1>0. \A c \in Conns : Attached(c) => conns[c].state = registry /\ registry # None
  BY NoneAssumption DEF OneLiveDoc
<1>1. ASSUME NEW c \in Conns, Lookup(c)
      PROVE  ContentsInv'
  BY <1>0, <1>1, LookupEffect DEF Moved
<1>2. ASSUME NEW c \in Conns, LockRegistry(c)
      PROVE  ContentsInv'
  BY <1>0, <1>2, LockRegistryEffect DEF Moved
<1>3. ASSUME NEW c \in Conns, LoadReads(c)
      PROVE  ContentsInv'
  <2>1. ~\E b \in Conns : Optimizing(b)
    BY <1>3, LoadReadsEffect
  <2>2. Seqs(log) = {} => Contents(log) = {}
    BY DEF Seqs, Contents
  <2> QED BY <1>3, <2>1, <2>2, LoadReadsEffect DEF Moved
<1>4. ASSUME NEW c \in Conns, LoadFails(c)
      PROVE  ContentsInv'
  BY <1>0, <1>4, LoadFailsEffect DEF Cleared
<1>5. ASSUME NEW c \in Conns, Initialize(c)
      PROVE  ContentsInv'
  BY <1>0, <1>5, InitializeEffect DEF Moved
<1>6. ASSUME NEW c \in Conns, Register(c)
      PROVE  ContentsInv'
  <2>1. /\ Fetched(c) /\ locked = c /\ registry = None
        /\ Contents(log) \subseteq conns[c].data
    BY <1>6, RegisterEffect
  <2>2. \A d \in Conns : ~Attached(d) /\ ~Optimizing(d)
    BY <1>0, <2>1
  <2>3. \A d \in Conns \ {c} : ~Fetched(d)
    BY <2>1
  <2>4. docs'[c] = conns[c].data
    BY <1>6, RegisterEffect DEF CrdtTypeOK
  <2>5. /\ conns'[c].pc = "joined" /\ registry' = c
        /\ \A d \in Conns \ {c} : conns'[d] = conns[d]
        /\ UNCHANGED <<log, acked>>
    BY <1>6, RegisterEffect DEF Moved
  <2> QED BY <2>1, <2>2, <2>3, <2>4, <2>5
<1>7. ASSUME NEW c \in Conns, HasStep(c)
      PROVE  ContentsInv'
  <2>0. \A d \in Conns : ~Optimizing(d)
    BY <1>7, <1>0, HasOK DEF Has
  <2>1. CASE Greet(c) \/ Subscribe(c)
    <3>1. /\ UNCHANGED <<log, registry, docs, acked>> /\ Attached(c)
          /\ conns'[c].pc \in {"greeted", "open"} /\ conns'[c].state = conns[c].state
          /\ \A d \in Conns \ {c} : conns'[d] = conns[d]
      BY <2>1, GreetEffect, SubscribeEffect DEF Stays
    <3> QED BY <1>0, <2>0, <3>1
  <2>2. CASE ApplyUpdate(c)
    <3> DEFINE data == Head(conns[c].recv).data
    <3>1. /\ At(c, "open") /\ conns'[c].pc = "store" /\ conns'[c].data = data
          /\ conns'[c].state = conns[c].state
          /\ \A d \in Conns \ {c} : conns'[d] = conns[d]
          /\ docs' = [docs EXCEPT ![conns[c].state] = @ \cup data]
          /\ UNCHANGED <<log, registry, acked>>
      BY <2>2, ApplyUpdateEffect
    <3> HIDE DEF data
    <3>2. /\ docs'[registry] = docs[registry] \cup data
          /\ \A d \in Conns \ {registry} : docs'[d] = docs[d]
          /\ conns[c].state = registry /\ registry \in Conns
      BY <1>0, <3>1 DEF CrdtTypeOK
    <3> QED BY <1>0, <2>0, <3>1, <3>2
  <2>3. CASE Broadcast(c)
    <3>1. /\ UNCHANGED docs /\ acked' = acked \cup conns[c].data
          /\ At(c, "stored")
      BY <2>3, BroadcastEffect
    <3> QED BY <1>0, <2>0, <2>3, <3>1, HasOK DEF Has, HasStep
  <2> QED BY <1>7, <2>1, <2>2, <2>3 DEF HasStep
<1>8. ASSUME NEW c \in Conns, SeedCounter(c)
      PROVE  ContentsInv'
  BY <1>0, <1>8, SeedCounterEffect DEF Moved
<1>9. ASSUME NEW c \in Conns, WriteTakesEffect(c)
      PROVE  ContentsInv'
  <2>1. /\ conns[c].seq \notin Seqs(log)
        /\ UNCHANGED <<registry, locked, docs, acked>>
        /\ \A d \in Conns \ {c} : conns'[d] = conns[d]
    BY <1>9, WriteTakesEffectEffect DEF NumbersInv, Numbered, Writing, Moved, Cleared
  <2>2. CASE At(c, "init")
    <3>1. conns[c].data = {} /\ locked = c /\ registry = None
      BY <2>2
    <3>2. Contents(log') = Contents(log)
      BY <1>9, <2>1, <2>2, <3>1, WrittenOK
    <3>3. conns'[c].pc = "inited" /\ conns'[c].data = {}
      BY <1>9, <2>2, WriteTakesEffectEffect DEF Moved
    <3> QED BY <2>1, <2>2, <3>1, <3>2, <3>3
  <2>3. CASE At(c, "store")
    <3>1. Contents(log') = Contents(log) \cup conns[c].data
      BY <1>9, <2>1, <2>3, WrittenOK
    <3>2. conns'[c].pc = "stored" /\ conns'[c].data = conns[c].data
          /\ conns'[c].state = conns[c].state
      BY <1>9, <2>3, WriteTakesEffectEffect DEF Moved
    <3>3. /\ conns[c].state = registry /\ registry # None
          /\ conns[c].data \subseteq docs[registry]
          /\ \A d \in Conns : ~Optimizing(d) /\ ~Fetched(d)
      BY <1>0, <2>3
    <3> QED BY <1>0, <2>1, <2>3, <3>1, <3>2, <3>3
  <2>4. CASE At(c, "compact")
    <3>1. /\ Contents(log) \subseteq conns[c].data /\ registry = None
          /\ \A d \in Conns : /\ ~Attached(d) /\ ~Fetched(d)
                              /\ Optimizing(d) => d = c
      BY <2>4
    <3>2. Contents(log) \subseteq Contents(log')
      BY <1>9, <3>1, WrittenOK
    <3>3. conns'[c].pc = "done"
      BY <1>9, <2>4, WriteTakesEffectEffect DEF Cleared
    <3> QED BY <2>1, <3>1, <3>2, <3>3
  <2> QED BY <1>9, <2>2, <2>3, <2>4, WriteTakesEffectEffect
<1>10. ASSUME NEW c \in Conns, WriteFails(c)
       PROVE  ContentsInv'
  BY <1>0, <1>10, WriteFailsEffect DEF Moved, Cleared
<1>11. ASSUME NEW c \in Conns, Close(c)
       PROVE  ContentsInv'
  BY <1>0, <1>11, CloseEffect DEF Cleared
<1>12. ASSUME NEW c \in Conns, CheckLast(c)
       PROVE  ContentsInv'
  BY <1>0, <1>12, CheckLastEffect DEF Moved, Cleared
<1>13. ASSUME NEW c \in Conns, Unregister(c)
       PROVE  ContentsInv'
  <2>1. CASE registry # None /\ Unwatched(registry)
    <3>1. /\ registry' = None /\ conns'[c].pc = "optimize"
          /\ conns'[c].state = registry
          /\ \A d \in Conns \ {c} : conns'[d] = conns[d]
          /\ \A d \in Conns : ~Uncounted(d)
          /\ UNCHANGED <<log, docs, acked>>
      BY <1>13, <2>1, UnregisterEffect DEF Moved
    <3>2. \A d \in Conns : ~Attached(d) /\ ~Fetched(d) /\ ~Optimizing(d)
      BY <1>0, <2>1, <3>1 DEF Unwatched, Uncounted
    <3> QED BY <2>1, <3>1, <3>2
  <2>2. CASE ~(registry # None /\ Unwatched(registry))
    BY <1>0, <1>13, <2>2, UnregisterEffect DEF Cleared
  <2> QED BY <2>1, <2>2
<1>14. ASSUME NEW c \in Conns, OptimizeReads(c)
       PROVE  ContentsInv'
  BY <1>0, <1>14, OptimizeReadsEffect DEF Moved, Cleared
<1>15. ASSUME NEW c \in Conns, OptimizeFails(c) \/ OptimizeSkips(c)
       PROVE  ContentsInv'
  BY <1>0, <1>15, OptimizeEndsEffect DEF Cleared
<1>16. ASSUME NEW c \in Conns, OptimizeMerges(c)
       PROVE  ContentsInv'
  BY <1>16, OptimizeMergesEffect DEF Moved, LiveDoc
<1>17. CASE QuietStep
  BY <1>0, <1>17, QuietOK DEF Quiet
<1>18. ASSUME NEW c \in Conns, NEW k \in Clients, Connect(c, k)
       PROVE  ContentsInv'
  BY <1>0, <1>18, ConnectPlace
<1>19. CASE Crash
  BY <1>19, CrashEffect
<1> QED BY <1>1, <1>2, <1>3, <1>4, <1>5, <1>6, <1>7, <1>8, <1>9, <1>10, <1>11,
           <1>12, <1>13, <1>14, <1>15, <1>16, <1>17, <1>18, <1>19
        DEF Next, Open, Serve, Write, Finish, HasStep, QuietStep

LEMMA AckedStep ==
    ASSUME CrdtTypeOK, PlacesOK, LockInv, OneLiveDoc, AckedInv, [Next]_vars
    PROVE  AckedInv'
<1> SUFFICES ASSUME races' = {}
             PROVE  NumbersInv' /\ ContentsInv'
  BY DEF AckedInv
<1>1. races = {}
  BY RacesGrow
<1> QED BY <1>1, NumbersStep, ContentsStep DEF AckedInv

-----------------------------------------------------------------------------
(* Queues: what comes and goes at either end.                              *)

LEMMA CarriedOK ==
    /\ Carried(<<>>) = {}
    /\ \A q \in Seq(SUBSET Edits), u \in SUBSET Edits :
         Carried(Append(q, u)) = Carried(q) \cup u
    /\ \A q \in Seq(SUBSET Edits) : q # <<>> =>
         Carried(q) = Head(q) \cup Carried(Tail(q))
<1>1. Carried(<<>>) = {}
  BY DEF Carried
<1>2. ASSUME NEW q \in Seq(SUBSET Edits), NEW u \in SUBSET Edits
      PROVE  Carried(Append(q, u)) = Carried(q) \cup u
  <2> DEFINE a == Append(q, u)
  <2>1. Len(q) \in Nat /\ DOMAIN q = 1..Len(q) /\ DOMAIN a = 1..(Len(q) + 1)
    OBVIOUS
  <2>2. a[Len(q) + 1] = u /\ \A i \in DOMAIN q : a[i] = q[i]
    OBVIOUS
  <2>3. \A i \in DOMAIN a : i \in DOMAIN q \/ i = Len(q) + 1
    BY <2>1
  <2>4. Len(q) + 1 \in DOMAIN a /\ \A i \in DOMAIN q : i \in DOMAIN a
    BY <2>1
  <2> HIDE DEF a
  <2> QED BY <2>2, <2>3, <2>4 DEF Carried, a
<1>3. ASSUME NEW q \in Seq(SUBSET Edits), q # <<>>
      PROVE  Carried(q) = Head(q) \cup Carried(Tail(q))
  <2> DEFINE t == Tail(q)
  <2>1. /\ Len(q) \in Nat \ {0} /\ DOMAIN q = 1..Len(q) /\ DOMAIN t = 1..(Len(q) - 1)
        /\ Head(q) = q[1] /\ \A i \in DOMAIN t : t[i] = q[i + 1]
    BY <1>3
  <2>2. \A i \in DOMAIN q : i = 1 \/ (i - 1 \in DOMAIN t /\ t[i - 1] = q[i])
    BY <2>1
  <2>3. 1 \in DOMAIN q /\ \A i \in DOMAIN t : i + 1 \in DOMAIN q
    BY <2>1
  <2> HIDE DEF t
  <2>4. Carried(q) \subseteq Head(q) \cup Carried(t)
    BY <2>1, <2>2 DEF Carried
  <2>5. Head(q) \subseteq Carried(q) /\ Carried(t) \subseteq Carried(q)
    BY <2>1, <2>3 DEF Carried
  <2> QED BY <2>4, <2>5 DEF t
<1> QED BY <1>1, <1>2, <1>3

LEMMA SpokenOK ==
    /\ Spoken(<<>>) = {} /\ ~Asks(<<>>)
    /\ Spoken(<<Step1>>) = {} /\ Asks(<<Step1>>)
    /\ \A q \in Seq(Message), m \in Message :
         /\ Spoken(Append(q, m)) = Spoken(q) \cup m.data
         /\ Asks(Append(q, m)) <=> Asks(q) \/ m.step1
    /\ \A q \in Seq(Message) : q # <<>> =>
         /\ Spoken(q) = Head(q).data \cup Spoken(Tail(q))
         /\ Asks(q) <=> Head(q).step1 \/ Asks(Tail(q))
<1>1. /\ Spoken(<<>>) = {} /\ ~Asks(<<>>)
      /\ Spoken(<<Step1>>) = {} /\ Asks(<<Step1>>)
  BY DEF Spoken, Asks, Step1
<1>2. ASSUME NEW q \in Seq(Message), NEW m \in Message
      PROVE  /\ Spoken(Append(q, m)) = Spoken(q) \cup m.data
             /\ Asks(Append(q, m)) <=> Asks(q) \/ m.step1
  <2> DEFINE a == Append(q, m)
  <2>1. Len(q) \in Nat /\ DOMAIN q = 1..Len(q) /\ DOMAIN a = 1..(Len(q) + 1)
    OBVIOUS
  <2>2. a[Len(q) + 1] = m /\ \A i \in DOMAIN q : a[i] = q[i]
    OBVIOUS
  <2>3. \A i \in DOMAIN a : i \in DOMAIN q \/ i = Len(q) + 1
    BY <2>1
  <2>4. Len(q) + 1 \in DOMAIN a /\ \A i \in DOMAIN q : i \in DOMAIN a
    BY <2>1
  <2> HIDE DEF a
  <2>5. Spoken(a) = Spoken(q) \cup m.data
    BY <2>2, <2>3, <2>4 DEF Spoken
  <2>6. Asks(a) <=> Asks(q) \/ m.step1
    BY <2>2, <2>3, <2>4 DEF Asks
  <2> QED BY <2>5, <2>6 DEF a
<1>3. ASSUME NEW q \in Seq(Message), q # <<>>
      PROVE  /\ Spoken(q) = Head(q).data \cup Spoken(Tail(q))
             /\ Asks(q) <=> Head(q).step1 \/ Asks(Tail(q))
  <2> DEFINE t == Tail(q)
  <2>1. /\ Len(q) \in Nat \ {0} /\ DOMAIN q = 1..Len(q) /\ DOMAIN t = 1..(Len(q) - 1)
        /\ Head(q) = q[1] /\ \A i \in DOMAIN t : t[i] = q[i + 1]
    BY <1>3
  <2>2. \A i \in DOMAIN q : i = 1 \/ (i - 1 \in DOMAIN t /\ t[i - 1] = q[i])
    BY <2>1
  <2>3. 1 \in DOMAIN q /\ \A i \in DOMAIN t : i + 1 \in DOMAIN q
    BY <2>1
  <2> HIDE DEF t
  <2>4. Spoken(q) \subseteq Head(q).data \cup Spoken(t)
    BY <2>1, <2>2 DEF Spoken
  <2>5. Head(q).data \subseteq Spoken(q) /\ Spoken(t) \subseteq Spoken(q)
    BY <2>1, <2>3 DEF Spoken
  <2>6. Asks(q) <=> Head(q).step1 \/ Asks(t)
    BY <2>1, <2>2, <2>3 DEF Asks
  <2> QED BY <2>4, <2>5, <2>6 DEF t
<1> QED BY <1>1, <1>2, <1>3

-----------------------------------------------------------------------------
(* Names and peers.                                                        *)

LEMMA NamesStep ==
    ASSUME CrdtTypeOK, PlacesOK, NamesInv, [Next]_vars
    PROVE  NamesInv'
<1> USE DEF NamesInv, At, Entering, Loading, Fetched, Frame
<1>0. None \notin Conns
  BY NoneAssumption
<1>1. ASSUME NEW c \in Conns, Lookup(c)
      PROVE  NamesInv'
  BY <1>0, <1>1, LookupEffect DEF Moved
<1>2. ASSUME NEW c \in Conns, LockRegistry(c)
      PROVE  NamesInv'
  BY <1>0, <1>2, LockRegistryEffect DEF Moved
<1>3. ASSUME NEW c \in Conns, LoadReads(c)
      PROVE  NamesInv'
  BY <1>0, <1>3, LoadReadsEffect DEF Moved
<1>4. ASSUME NEW c \in Conns, LoadFails(c)
      PROVE  NamesInv'
  BY <1>0, <1>4, LoadFailsEffect DEF Cleared
<1>5. ASSUME NEW c \in Conns, Initialize(c)
      PROVE  NamesInv'
  BY <1>0, <1>5, InitializeEffect DEF Moved
<1>6. ASSUME NEW c \in Conns, Register(c)
      PROVE  NamesInv'
  BY <1>0, <1>6, RegisterEffect DEF Moved
<1>7. ASSUME NEW c \in Conns, HasStep(c)
      PROVE  NamesInv'
  BY <1>0, <1>7, HasOK DEF Has
<1>8. ASSUME NEW c \in Conns, SeedCounter(c)
      PROVE  NamesInv'
  BY <1>0, <1>8, SeedCounterEffect DEF Moved
<1>9. ASSUME NEW c \in Conns, WriteTakesEffect(c)
      PROVE  NamesInv'
  BY <1>0, <1>9, WriteTakesEffectEffect DEF Moved, Cleared
<1>10. ASSUME NEW c \in Conns, WriteFails(c)
       PROVE  NamesInv'
  BY <1>0, <1>10, WriteFailsEffect DEF Moved, Cleared
<1>11. ASSUME NEW c \in Conns, Close(c)
       PROVE  NamesInv'
  BY <1>0, <1>11, CloseEffect DEF Cleared
<1>12. ASSUME NEW c \in Conns, CheckLast(c)
       PROVE  NamesInv'
  BY <1>0, <1>12, CheckLastEffect DEF Moved, Cleared
<1>13. ASSUME NEW c \in Conns, Unregister(c)
       PROVE  NamesInv'
  BY <1>0, <1>13, UnregisterEffect DEF Moved, Cleared
<1>14. ASSUME NEW c \in Conns, OptimizeReads(c)
       PROVE  NamesInv'
  BY <1>0, <1>14, OptimizeReadsEffect DEF Moved, Cleared
<1>15. ASSUME NEW c \in Conns, OptimizeFails(c) \/ OptimizeSkips(c)
       PROVE  NamesInv'
  BY <1>0, <1>15, OptimizeEndsEffect DEF Cleared
<1>16. ASSUME NEW c \in Conns, OptimizeMerges(c)
       PROVE  NamesInv'
  BY <1>0, <1>16, OptimizeMergesEffect DEF Moved
<1>17. CASE QuietStep
  BY <1>0, <1>17, QuietOK DEF Quiet
<1>18. ASSUME NEW c \in Conns, NEW k \in Clients, Connect(c, k)
       PROVE  NamesInv'
  BY <1>0, <1>18, ConnectPlace
<1>19. CASE Crash
  BY <1>0, <1>19, CrashEffect
<1> QED BY <1>1, <1>2, <1>3, <1>4, <1>5, <1>6, <1>7, <1>8, <1>9, <1>10, <1>11,
           <1>12, <1>13, <1>14, <1>15, <1>16, <1>17, <1>18, <1>19
        DEF Next, Open, Serve, Write, Finish, HasStep, QuietStep

LEMMA PeersStep ==
    ASSUME CrdtTypeOK, PlacesOK, PeersInv, [Next]_vars
    PROVE  PeersInv'
<1> USE DEF PeersInv, Frame
<1>1. ASSUME NEW c \in Conns, Lookup(c)
      PROVE  PeersInv'
  BY <1>1, LookupEffect DEF Moved
<1>2. ASSUME NEW c \in Conns, LockRegistry(c)
      PROVE  PeersInv'
  BY <1>2, LockRegistryEffect DEF Moved
<1>3. ASSUME NEW c \in Conns, LoadReads(c)
      PROVE  PeersInv'
  BY <1>3, LoadReadsEffect DEF Moved
<1>4. ASSUME NEW c \in Conns, LoadFails(c)
      PROVE  PeersInv'
  BY <1>4, LoadFailsEffect DEF Cleared
<1>5. ASSUME NEW c \in Conns, Initialize(c)
      PROVE  PeersInv'
  BY <1>5, InitializeEffect DEF Moved
<1>6. ASSUME NEW c \in Conns, Register(c)
      PROVE  PeersInv'
  BY <1>6, RegisterEffect DEF Moved
<1>7. ASSUME NEW c \in Conns, HasStep(c)
      PROVE  PeersInv'
  BY <1>7, HasOK DEF Has
<1>8. ASSUME NEW c \in Conns, SeedCounter(c)
      PROVE  PeersInv'
  BY <1>8, SeedCounterEffect DEF Moved
<1>9. ASSUME NEW c \in Conns, WriteTakesEffect(c)
      PROVE  PeersInv'
  BY <1>9, WriteTakesEffectEffect DEF Moved, Cleared
<1>10. ASSUME NEW c \in Conns, WriteFails(c)
       PROVE  PeersInv'
  BY <1>10, WriteFailsEffect DEF Moved, Cleared
<1>11. ASSUME NEW c \in Conns, Close(c)
       PROVE  PeersInv'
  BY <1>11, CloseEffect DEF Cleared
<1>12. ASSUME NEW c \in Conns, CheckLast(c)
       PROVE  PeersInv'
  BY <1>12, CheckLastEffect DEF Moved, Cleared
<1>13. ASSUME NEW c \in Conns, Unregister(c)
       PROVE  PeersInv'
  BY <1>13, UnregisterEffect DEF Moved, Cleared
<1>14. ASSUME NEW c \in Conns, OptimizeReads(c)
       PROVE  PeersInv'
  BY <1>14, OptimizeReadsEffect DEF Moved, Cleared
<1>15. ASSUME NEW c \in Conns, OptimizeFails(c) \/ OptimizeSkips(c)
       PROVE  PeersInv'
  BY <1>15, OptimizeEndsEffect DEF Cleared
<1>16. ASSUME NEW c \in Conns, OptimizeMerges(c)
       PROVE  PeersInv'
  BY <1>16, OptimizeMergesEffect DEF Moved
<1>17. CASE QuietStep
  BY <1>17, QuietOK DEF Quiet
<1>18. ASSUME NEW c \in Conns, NEW k \in Clients, Connect(c, k)
       PROVE  PeersInv'
  <2>1. /\ \A d \in Conns : conns[d].up => conns[d].client # k
        /\ conns'[c].client = k /\ \A d \in Conns \ {c} : conns'[d] = conns[d]
    <3>1. ~Connected(k) /\ Stays(c, k, TRUE, conns[c].tasks, <<Step1>>, conns[c].bcast)
      BY <1>18, ConnectEffect
    <3> QED BY <3>1 DEF Connected, Stays, Frame
  <2> QED BY <2>1
<1>19. CASE Crash
  BY <1>19, CrashEffect
<1> QED BY <1>1, <1>2, <1>3, <1>4, <1>5, <1>6, <1>7, <1>8, <1>9, <1>10, <1>11,
           <1>12, <1>13, <1>14, <1>15, <1>16, <1>17, <1>18, <1>19
        DEF Next, Open, Serve, Write, Finish, HasStep, QuietStep

-----------------------------------------------------------------------------
(* What a client and the document have of one another.  Off the socket,    *)
(* the steps that read and write the log and the registry come to three.   *)

OffSocket(c) ==
    \/ Lookup(c) \/ LockRegistry(c) \/ LoadReads(c) \/ LoadFails(c) \/ Initialize(c)
    \/ Write(c) \/ Finish(c)

KeepsWire(c) ==
    /\ conns'[c].client = conns[c].client /\ conns'[c].up = conns[c].up
    /\ conns'[c].tasks = conns[c].tasks /\ conns'[c].recv = conns[c].recv
    /\ conns'[c].bcast = conns[c].bcast /\ conns'[c].lagged = conns[c].lagged

Unserved(c) == ~Serving(c) /\ ~At(c, "greeted")

(* c is not served, before or after; ...                                   *)
Aside(c) == Unserved(c) /\ Unserved(c)' /\ KeepsWire(c)

(* ... it is through; ...                                                  *)
Ends(c) ==
    /\ ~Storing(c) /\ conns'[c].pc \in {"closed", "done"} /\ conns'[c].up = FALSE
    /\ conns'[c].tasks = FALSE /\ conns'[c].bcast = <<>>

(* ... or an update of it is on its way to the log.                        *)
Stores(c) ==
    /\ Serving(c) /\ Serving(c)' /\ KeepsWire(c) /\ conns'[c].state = conns[c].state
    /\ \/ Storing(c) /\ Storing(c)' /\ conns'[c].data = conns[c].data
       \/ ~Storing(c)' /\ counts'.faults # 0

LEMMA OffSocketOK ==
    ASSUME CrdtTypeOK, PlacesOK, NEW c \in Conns, OffSocket(c)
    PROVE  /\ Frame(c) /\ UNCHANGED <<replica, docs>>
           /\ Aside(c) \/ Ends(c) \/ Stores(c)
<1> USE DEF At, Serving, Storing, Unserved, KeepsWire
<1>1. CASE Lookup(c)
  BY <1>1, LookupEffect DEF Moved, Aside
<1>2. CASE LockRegistry(c)
  BY <1>2, LockRegistryEffect DEF Moved, Aside
<1>3. CASE LoadReads(c)
  BY <1>3, LoadReadsEffect DEF Moved, Aside
<1>4. CASE LoadFails(c)
  BY <1>4, LoadFailsEffect DEF Cleared, Ends
<1>5. CASE Initialize(c)
  BY <1>5, InitializeEffect DEF Moved, Aside
<1>6. CASE SeedCounter(c)
  <2>1. /\ Moved(c, conns[c].pc, conns[c].state, NextSeq(log), conns[c].data,
                 conns[c].seqs)
        /\ Writing(c) /\ UNCHANGED <<replica, docs>>
    BY <1>6, SeedCounterEffect
  <2> QED BY <2>1 DEF Moved, Aside, Stores, Writing
<1>7. CASE WriteTakesEffect(c)
  BY <1>7, WriteTakesEffectEffect DEF Moved, Cleared, Aside, Ends, Stores
<1>8. CASE WriteFails(c)
  <2>1. counts'.faults # 0
    BY <1>8, WriteFailsEffect, FaultOK DEF CrdtTypeOK
  <2> QED BY <1>8, <2>1, WriteFailsEffect DEF Moved, Cleared, Aside, Ends, Stores
<1>9. CASE Close(c)
  BY <1>9, CloseEffect DEF Cleared, Ends
<1>10. CASE CheckLast(c)
  BY <1>10, CheckLastEffect DEF Moved, Cleared, Aside, Ends
<1>11. CASE Unregister(c)
  BY <1>11, UnregisterEffect DEF Moved, Cleared, Aside, Ends
<1>12. CASE OptimizeReads(c)
  BY <1>12, OptimizeReadsEffect DEF Moved, Cleared, Aside, Ends
<1>13. CASE OptimizeFails(c) \/ OptimizeSkips(c)
  BY <1>13, OptimizeEndsEffect DEF Cleared, Ends, Optimizing
<1>14. CASE OptimizeMerges(c)
  BY <1>14, OptimizeMergesEffect DEF Moved, Aside
<1> QED BY <1>1, <1>2, <1>3, <1>4, <1>5, <1>6, <1>7, <1>8, <1>9, <1>10, <1>11, <1>12,
           <1>13, <1>14 DEF OffSocket, Write, Finish

LEMMA FaultsGrow ==
    ASSUME CrdtTypeOK, PlacesOK, [Next]_vars, counts'.faults = 0
    PROVE  counts.faults = 0
<1>1. ASSUME Fault PROVE FALSE
  BY <1>1, FaultOK DEF CrdtTypeOK
<1>2. ASSUME UNCHANGED counts PROVE counts.faults = 0
  BY <1>2
<1>3. ASSUME NEW c \in Conns, Open(c) \/ Write(c) \/ Finish(c) PROVE counts.faults = 0
  BY <1>1, <1>2, <1>3
     DEF Open, Write, Finish, Lookup, LockRegistry, LoadReads, LoadFails, Initialize,
         Register, Greet, Subscribe, SeedCounter, WriteTakesEffect, WriteFails, Close,
         CheckLast, Unregister, OptimizeReads, OptimizeFails, OptimizeMerges,
         OptimizeSkips
<1>4. ASSUME NEW c \in Conns, ApplyUpdate(c) \/ Broadcast(c) PROVE counts.faults = 0
  BY <1>2, <1>4 DEF ApplyUpdate, Broadcast
<1>5. CASE QuietStep
  BY <1>5, QuietOK DEF Quiet
<1>6. ASSUME NEW c \in Conns, NEW k \in Clients, Connect(c, k) PROVE counts.faults = 0
  BY <1>2, <1>6 DEF Connect
<1>7. CASE Crash
  <2>1. counts' = [counts EXCEPT !.crashes = @ + 1] /\ CountsOK
    BY <1>7, CrashEffect DEF CrdtTypeOK
  <2> QED BY <2>1 DEF CountsOK
<1> QED BY <1>3, <1>4, <1>5, <1>6, <1>7 DEF Next, Serve, QuietStep

LEMMA DeliverOK ==
    ASSUME CrdtTypeOK, NEW c \in Conns, conns[c].client \in Clients,
           NEW data \in SUBSET Edits, Deliver(c, data)
    PROVE  /\ \A k \in Clients : replica[k] \subseteq replica'[k]
           /\ \A k \in Clients \ {conns[c].client} : replica'[k] = replica[k]
           /\ conns[c].up => replica'[conns[c].client] = replica[conns[c].client] \cup data
           /\ ~conns[c].up => replica' = replica
<1>1. CASE conns[c].up
  <2>1. replica' = [replica EXCEPT ![conns[c].client] = @ \cup data]
    BY <1>1 DEF Deliver
  <2> QED BY <1>1, <2>1 DEF CrdtTypeOK
<1>2. CASE ~conns[c].up
  BY <1>2 DEF Deliver
<1> QED BY <1>1, <1>2

(* A connection the step leaves alone keeps its half of the invariant, as  *)
(* long as documents and replicas only grow.                               *)
LEMMA WireBystander ==
    ASSUME CrdtTypeOK, PlacesOK, NEW d \in Conns, WireOK(d), conns'[d] = conns[d],
           Serving(d) => LiveDoc(d) \subseteq docs'[conns[d].state],
           conns[d].up => replica[conns[d].client] \subseteq replica'[conns[d].client]
    PROVE  WireOK(d)'
<1>1. conns[d].tasks => Serving(d)
  BY DEF PlacesOK
<1>2. Storing(d) => Serving(d)
  BY DEF Storing, Serving
<1> QED BY <1>1, <1>2 DEF WireOK, Sent, Unsaid, AwaitsAnswer, LiveDoc, Storing, Serving

(* Greeting a client, and what it edits, in terms of what waits from it.   *)
LEMMA GreetFacts ==
    ASSUME CrdtTypeOK, PlacesOK, NEW c \in Conns, Greet(c)
    PROVE  /\ At(c, "joined") /\ conns'[c].pc = "greeted" /\ Frame(c)
           /\ UNCHANGED <<replica, docs, counts>>
           /\ conns'[c].client = conns[c].client /\ conns'[c].up = conns[c].up
           /\ conns'[c].state = conns[c].state /\ conns'[c].tasks = conns[c].tasks
           /\ conns'[c].bcast = conns[c].bcast /\ conns'[c].data = conns[c].data
           /\ conns[c].up =>
                /\ Unsaid(c)' = Unsaid(c) \cup (replica[conns[c].client] \ LiveDoc(c))
                /\ AwaitsAnswer(c)' <=> AwaitsAnswer(c)
<1> DEFINE missing == replica[conns[c].client] \ docs[conns[c].state]
           m == Update(missing)
           said == Append(conns[c].recv, m)
<1>1. /\ At(c, "joined") /\ conns'[c].pc = "greeted" /\ UNCHANGED <<replica, docs, counts>>
      /\ \/ /\ conns[c].up /\ missing # {}
            /\ Stays(c, conns[c].client, conns[c].up, conns[c].tasks, said, conns[c].bcast)
         \/ /\ ~(conns[c].up /\ missing # {})
            /\ Stays(c, conns[c].client, conns[c].up, conns[c].tasks, conns[c].recv,
                     conns[c].bcast)
  BY GreetEffect
<1>2. conns[c].up => m \in Message /\ m.data = missing /\ m.step1 = FALSE
  <2>1. conns[c].up => missing \in SUBSET Edits
    BY DEF PlacesOK, CrdtTypeOK
  <2> HIDE DEF missing
  <2> QED BY <2>1 DEF Update, Message
<1>3. conns[c].recv \in Seq(Message)
  BY FieldsOK
<1> HIDE DEF m
<1>4. conns[c].up => /\ Spoken(said) = Spoken(conns[c].recv) \cup missing
                     /\ Asks(said) <=> Asks(conns[c].recv)
  BY <1>2, <1>3, SpokenOK
<1> HIDE DEF said
<1>5. missing = replica[conns[c].client] \ LiveDoc(c)
  BY DEF LiveDoc
<1> HIDE DEF missing
<1>6. /\ Frame(c)
      /\ conns'[c].client = conns[c].client /\ conns'[c].up = conns[c].up
      /\ conns'[c].state = conns[c].state /\ conns'[c].tasks = conns[c].tasks
      /\ conns'[c].bcast = conns[c].bcast /\ conns'[c].data = conns[c].data
      /\ \/ conns[c].up /\ conns'[c].recv = said
         \/ ~(conns[c].up /\ missing # {}) /\ conns'[c].recv = conns[c].recv
  BY <1>1 DEF Stays
<1> QED BY <1>1, <1>4, <1>5, <1>6 DEF Unsaid, AwaitsAnswer

LEMMA EditFacts ==
    ASSUME CrdtTypeOK, PlacesOK, NEW e \in Edits, Edit(e), NEW d \in Conns
    PROVE  IF conns[d].client = Author[e] /\ conns[d].up
             THEN Unsaid(d)' = Unsaid(d) \cup {e} /\ (AwaitsAnswer(d)' <=> AwaitsAnswer(d))
             ELSE Unsaid(d)' = Unsaid(d) /\ (AwaitsAnswer(d)' <=> AwaitsAnswer(d))
<1> DEFINE m == Update({e})
<1>1. m \in Message /\ m.data = {e} /\ m.step1 = FALSE
  BY DEF Update, Message
<1>2. conns[d].recv \in Seq(Message)
  BY FieldsOK
<1>3. CASE conns[d].client = Author[e] /\ conns[d].up
  <2>1. conns'[d].recv = Append(conns[d].recv, m)
    BY <1>3, EditEffect
  <2> HIDE DEF m
  <2>2. Spoken(conns'[d].recv) = Spoken(conns[d].recv) \cup {e}
        /\ (Asks(conns'[d].recv) <=> Asks(conns[d].recv))
    BY <1>1, <1>2, <2>1, SpokenOK
  <2> QED BY <1>3, <2>2 DEF Unsaid, AwaitsAnswer
<1>4. CASE ~(conns[d].client = Author[e] /\ conns[d].up)
  <2>1. conns'[d].recv = conns[d].recv
    BY <1>4, EditEffect
  <2> QED BY <1>4, <2>1 DEF Unsaid, AwaitsAnswer
<1> QED BY <1>3, <1>4

LEMMA WireStep ==
    ASSUME CrdtTypeOK, PlacesOK, LockInv, NamesInv, WireInv, [Next]_vars
    PROVE  WireInv'
<1> USE DEF At
<1>0. /\ \A d \in Conns : /\ conns[d].up => conns[d].client \in Clients
                          /\ conns[d].tasks => Serving(d)
                          /\ Attached(d) => conns[d].state \in Conns
                          /\ Serving(d) => Attached(d)
                          /\ Storing(d) => Serving(d)
                          /\ WireOK(d)
      /\ docs \in [Conns -> SUBSET Edits] /\ replica \in [Clients -> SUBSET Edits]
  BY DEF PlacesOK, WireInv, Serving, Storing, Attached, CrdtTypeOK
<1>1. ASSUME NEW c \in Conns, Frame(c), WireOK(c)',
             \A d \in Conns \ {c} : Serving(d) => LiveDoc(d) \subseteq docs'[conns[d].state],
             \A k \in Clients : replica[k] \subseteq replica'[k]
      PROVE  WireInv'
  BY <1>0, <1>1, WireBystander DEF Frame, WireInv
<1>2. ASSUME NEW c \in Conns, OffSocket(c)
      PROVE  WireInv'
  <2>1. Frame(c) /\ UNCHANGED <<replica, docs>>
    BY <1>2, OffSocketOK
  <2>2. CASE Aside(c)
    <3>1. WireOK(c)'
      BY <1>0, <2>1, <2>2 DEF Aside, Unserved, KeepsWire, WireOK, Unsaid, AwaitsAnswer,
                              Storing, Serving
    <3> QED BY <1>1, <2>1, <3>1 DEF LiveDoc
  <2>3. CASE Ends(c)
    <3>1. WireOK(c)'
      BY <2>3 DEF Ends, WireOK, Storing
    <3> QED BY <1>1, <2>1, <3>1 DEF LiveDoc
  <2>4. CASE Stores(c)
    <3>1. WireOK(c)'
      BY <1>0, <2>1, <2>4 DEF Stores, KeepsWire, WireOK, Sent, Unsaid, AwaitsAnswer,
                              LiveDoc, Serving
    <3> QED BY <1>1, <2>1, <3>1 DEF LiveDoc
  <2> QED BY <1>2, <2>2, <2>3, <2>4, OffSocketOK
<1>3. ASSUME NEW c \in Conns, Register(c)
      PROVE  WireInv'
  <2>1. /\ Frame(c) /\ Unserved(c) /\ Unserved(c)' /\ KeepsWire(c)
        /\ UNCHANGED replica /\ Loading(c)
        /\ docs' = [docs EXCEPT ![c] = conns[c].data]
    BY <1>3, RegisterEffect DEF Moved, Unserved, Serving, KeepsWire, Loading, Fetched
  <2>2. WireOK(c)'
    BY <1>0, <2>1 DEF Unserved, KeepsWire, WireOK, Unsaid, AwaitsAnswer, Storing, Serving
  <2>3. \A d \in Conns \ {c} : Serving(d) => LiveDoc(d) \subseteq docs'[conns[d].state]
    BY <1>0, <2>1 DEF NamesInv, LiveDoc
  <2> QED BY <1>1, <2>1, <2>2, <2>3
<1>4. ASSUME NEW c \in Conns, Greet(c)
      PROVE  WireInv'
  <2>1. /\ Frame(c) /\ UNCHANGED <<replica, docs>>
        /\ ~Serving(c)' /\ ~Storing(c)' /\ ~Serving(c)
        /\ conns'[c].tasks = conns[c].tasks /\ conns'[c].bcast = conns[c].bcast
        /\ conns'[c].client = conns[c].client /\ conns'[c].up = conns[c].up
        /\ conns[c].up => Unsaid(c)' \subseteq Unsaid(c) \cup replica[conns[c].client]
                          /\ (AwaitsAnswer(c)' <=> AwaitsAnswer(c))
    BY <1>4, GreetFacts DEF Serving, Storing
  <2>2. WireOK(c)'
    BY <1>0, <2>1 DEF WireOK
  <2> QED BY <1>1, <2>1, <2>2 DEF LiveDoc
<1>5. ASSUME NEW c \in Conns, Subscribe(c)
      PROVE  WireInv'
  <2>1. /\ Frame(c) /\ UNCHANGED <<replica, docs>>
        /\ Serving(c)' /\ ~Serving(c) /\ ~Storing(c)' /\ conns'[c].tasks
        /\ conns'[c].bcast = conns[c].bcast /\ conns'[c].recv = conns[c].recv
        /\ conns'[c].client = conns[c].client /\ conns'[c].up = conns[c].up
    BY <1>5, SubscribeEffect DEF Stays, Serving, Storing
  <2>2. Sent(c)' = {}
    BY <1>0, <2>1, CarriedOK DEF WireOK, Sent
  <2>3. WireOK(c)'
    BY <1>0, <2>1, <2>2 DEF WireOK, Unsaid
  <2> QED BY <1>1, <2>1, <2>3 DEF LiveDoc
<1>6. ASSUME NEW c \in Conns, AnswerStep1(c) \/ DropUpdate(c)
      PROVE  WireInv'
  <2>1. /\ conns[c].recv # <<>> /\ Serving(c) /\ Serving(c)' /\ ~Storing(c)' /\ Frame(c)
        /\ conns'[c].recv = Tail(conns[c].recv) /\ conns'[c].state = conns[c].state
        /\ conns'[c].tasks = conns[c].tasks /\ conns'[c].bcast = conns[c].bcast
        /\ conns'[c].client = conns[c].client /\ conns'[c].up = conns[c].up
        /\ UNCHANGED docs
    BY <1>6, AnswerStep1Effect, DropUpdateEffect DEF Stays, Serving, Storing
  <2>2. Spoken(Tail(conns[c].recv)) \subseteq Spoken(conns[c].recv)
    BY <2>1, FieldsOK, SpokenOK
  <2>3. \A k \in Clients : replica[k] \subseteq replica'[k]
    <3>1. LiveDoc(c) \in SUBSET Edits /\ conns[c].client \in Clients
      BY <1>0, <2>1 DEF LiveDoc, PlacesOK, Attached, Serving
    <3> QED BY <1>6, <3>1, AnswerStep1Effect, DropUpdateEffect, DeliverOK
  <2>4. WireOK(c)'
    BY <1>0, <2>1, <2>2, <2>3 DEF WireOK, Unsaid, Sent, LiveDoc
  <2> QED BY <1>1, <2>1, <2>3, <2>4 DEF LiveDoc
<1>7. ASSUME NEW c \in Conns, ApplyUpdate(c)
      PROVE  WireInv'
  <2> DEFINE data == Head(conns[c].recv).data
  <2>1. /\ conns[c].recv # <<>> /\ Serving(c) /\ Serving(c)' /\ Frame(c)
        /\ conns'[c].recv = Tail(conns[c].recv) /\ conns'[c].state = conns[c].state
        /\ conns'[c].tasks = conns[c].tasks /\ conns'[c].bcast = conns[c].bcast
        /\ conns'[c].client = conns[c].client /\ conns'[c].up = conns[c].up
        /\ conns'[c].data = data /\ data \in SUBSET Edits
        /\ docs' = [docs EXCEPT ![conns[c].state] = @ \cup data]
        /\ UNCHANGED replica
    BY <1>7, ApplyUpdateEffect DEF Serving
  <2>2. Spoken(Tail(conns[c].recv)) \subseteq Spoken(conns[c].recv)
        /\ data \subseteq Spoken(conns[c].recv)
    BY <2>1, FieldsOK, SpokenOK
  <2> HIDE DEF data
  <2>3. /\ \A s \in Conns : docs[s] \subseteq docs'[s]
        /\ data \subseteq docs'[conns[c].state]
    BY <1>0, <2>1
  <2>4. \A d \in Conns : Serving(d) => LiveDoc(d) \subseteq docs'[conns[d].state]
    BY <1>0, <2>3 DEF LiveDoc
  <2>5. WireOK(c)'
    BY <1>0, <2>1, <2>2, <2>3, <2>4 DEF WireOK, Unsaid, Sent, LiveDoc
  <2> QED BY <1>1, <2>1, <2>4, <2>5
<1>8. ASSUME NEW c \in Conns, Broadcast(c)
      PROVE  WireInv'
  <2>1. /\ Storing(c) /\ UNCHANGED <<replica, docs>> /\ ~Storing(c)' /\ Serving(c)'
        /\ \A d \in Conns \ {c} : conns'[d].pc = conns[d].pc
                                  /\ conns'[d].data = conns[d].data
        /\ \A d \in Conns :
             /\ conns'[d].client = conns[d].client /\ conns'[d].up = conns[d].up
             /\ conns'[d].state = conns[d].state
             /\ conns'[d].tasks = conns[d].tasks /\ conns'[d].recv = conns[d].recv
    BY <1>8, BroadcastEffect DEF Storing, Serving
  <2>2. ASSUME NEW d \in Conns
        PROVE  WireOK(d)'
    <3>1. /\ conns[d].tasks => Sent(d)' \subseteq LiveDoc(d)
          /\ ~conns[d].tasks => conns'[d].bcast = <<>>
      <4>1. CASE ~(conns[d].tasks /\ conns[d].state = conns[c].state)
        <5>1. conns'[d].bcast = conns[d].bcast
          BY <1>8, <4>1, BroadcastEffect
        <5> QED BY <1>0, <5>1 DEF WireOK, Sent
      <4>2. CASE conns[d].tasks /\ conns[d].state = conns[c].state
        <5>1. PICK u \in SUBSET Edits : u \subseteq conns[c].data /\ Queued(d, u)
          <6>1. conns[c].data \in SUBSET Edits
            BY FieldsOK
          <6> QED BY <1>8, <4>2, <6>1, BroadcastEffect
        <5>2. Sent(d)' \subseteq Sent(d) \cup u
          <6>1. conns[d].bcast \in Seq(SUBSET Edits)
            BY FieldsOK
          <6>2. CASE conns'[d].bcast = Append(conns[d].bcast, u)
            BY <5>1, <6>1, <6>2, CarriedOK DEF Sent
          <6>3. CASE conns[d].bcast # <<>>
                     /\ conns'[d].bcast = Append(Tail(conns[d].bcast), u)
            <7>1. Tail(conns[d].bcast) \in Seq(SUBSET Edits)
              BY <6>1, <6>3, QueueOK
            <7>2. Carried(conns'[d].bcast) = Carried(Tail(conns[d].bcast)) \cup u
              BY <5>1, <6>3, <7>1, CarriedOK
            <7>3. Carried(Tail(conns[d].bcast)) \subseteq Carried(conns[d].bcast)
              BY <6>1, <6>3, CarriedOK
            <7> QED BY <7>2, <7>3 DEF Sent
          <6> QED BY <5>1, <6>2, <6>3 DEF Queued
        <5>3. u \subseteq LiveDoc(d)
          BY <1>0, <2>1, <4>2, <5>1 DEF WireOK, LiveDoc
        <5> QED BY <1>0, <4>2, <5>2, <5>3 DEF WireOK
      <4> QED BY <4>1, <4>2
    <3>2. LiveDoc(d)' = LiveDoc(d) /\ Unsaid(d)' = Unsaid(d)
          /\ (AwaitsAnswer(d)' <=> AwaitsAnswer(d))
      BY <2>1 DEF LiveDoc, Unsaid, AwaitsAnswer
    <3>3. CASE d = c
      BY <1>0, <2>1, <3>1, <3>2, <3>3 DEF WireOK
    <3>4. CASE d # c
      <4>1. (Storing(d)' <=> Storing(d)) /\ (Serving(d)' <=> Serving(d))
        BY <2>1, <3>4 DEF Storing, Serving
      <4> QED BY <1>0, <2>1, <3>1, <3>2, <3>4, <4>1 DEF WireOK
    <3> QED BY <3>3, <3>4
  <2> QED BY <2>2 DEF WireInv
<1>9. ASSUME NEW c \in Conns, Forward(c)
      PROVE  WireInv'
  <2>1. /\ conns[c].bcast # <<>> /\ Serving(c) /\ Frame(c) /\ conns[c].tasks
        /\ conns'[c].pc = conns[c].pc /\ conns'[c].data = conns[c].data
        /\ conns'[c].recv = conns[c].recv /\ conns'[c].state = conns[c].state
        /\ conns'[c].tasks = conns[c].tasks
        /\ conns'[c].bcast = Tail(conns[c].bcast)
        /\ conns'[c].client = conns[c].client /\ conns'[c].up = conns[c].up
        /\ UNCHANGED docs /\ Deliver(c, Head(conns[c].bcast))
    BY <1>0, <1>9, ForwardEffect DEF Stays
  <2>2. Sent(c)' \subseteq Sent(c)
    BY <2>1, FieldsOK, CarriedOK DEF Sent
  <2>3. \A k \in Clients : replica[k] \subseteq replica'[k]
    <3>1. Head(conns[c].bcast) \in SUBSET Edits /\ conns[c].client \in Clients
      BY <2>1, FieldsOK, QueueOK DEF PlacesOK, Attached, Serving
    <3> QED BY <2>1, <3>1, DeliverOK
  <2>4. (Serving(c)' <=> Serving(c)) /\ (Storing(c)' <=> Storing(c))
        /\ Unsaid(c)' = Unsaid(c) /\ (AwaitsAnswer(c)' <=> AwaitsAnswer(c))
        /\ LiveDoc(c)' = LiveDoc(c)
    BY <2>1 DEF Serving, Storing, Unsaid, AwaitsAnswer, LiveDoc
  <2>5. WireOK(c)'
    BY <1>0, <2>1, <2>2, <2>3, <2>4 DEF WireOK
  <2> QED BY <1>1, <2>1, <2>3, <2>5 DEF LiveDoc
<1>10. ASSUME NEW c \in Conns, Disconnect(c) \/ TasksEnd(c)
       PROVE  WireInv'
  <2>1. /\ Frame(c) /\ UNCHANGED <<docs, replica>> /\ conns'[c].up = FALSE
        /\ conns'[c].pc = conns[c].pc /\ conns'[c].data = conns[c].data
        /\ conns'[c].state = conns[c].state
        /\ \/ conns'[c].tasks = conns[c].tasks /\ conns'[c].bcast = conns[c].bcast
           \/ conns'[c].tasks = FALSE /\ conns'[c].bcast = <<>>
    <3>1. CASE Disconnect(c)
      BY <3>1, DisconnectEffect DEF Stays
    <3>2. CASE TasksEnd(c)
      <4>1. conns[c].up \in BOOLEAN
        BY FieldsOK
      <4> QED BY <3>2, <4>1, TasksEndEffect DEF Stays
    <3> QED BY <1>10, <3>1, <3>2
  <2>2. WireOK(c)'
    BY <1>0, <2>1 DEF WireOK, Sent, LiveDoc, Storing
  <2> QED BY <1>1, <2>1, <2>2 DEF LiveDoc
<1>11. ASSUME NEW c \in Conns, NEW k \in Clients, Connect(c, k)
       PROVE  WireInv'
  <2>1. /\ Frame(c) /\ UNCHANGED <<docs, replica>> /\ conns'[c].pc = "lookup"
        /\ At(c, "off") /\ conns'[c].recv = <<Step1>>
        /\ conns'[c].tasks = conns[c].tasks /\ conns'[c].bcast = conns[c].bcast
    BY <1>11, ConnectEffect DEF Stays
  <2>2. Unsaid(c)' = {} /\ AwaitsAnswer(c)'
    BY <2>1, SpokenOK DEF Unsaid, AwaitsAnswer
  <2>3. WireOK(c)'
    BY <1>0, <2>1, <2>2 DEF WireOK, Storing, Serving
  <2> QED BY <1>1, <2>1, <2>3 DEF LiveDoc
<1>12. ASSUME NEW e \in Edits, Edit(e)
       PROVE  WireInv'
  <2>1. /\ UNCHANGED docs
        /\ \A k \in Clients : replica[k] \subseteq replica'[k]
        /\ e \in replica'[Author[e]]
    <3>1. Author[e] \in Clients
      BY AuthorAssumption
    <3>2. replica' = [replica EXCEPT ![Author[e]] = @ \cup {e}] /\ UNCHANGED docs
      BY <1>12, EditEffect
    <3> QED BY <1>0, <3>1, <3>2
  <2>2. ASSUME NEW d \in Conns
        PROVE  WireOK(d)'
    <3>1. /\ conns'[d].pc = conns[d].pc /\ conns'[d].client = conns[d].client
          /\ conns'[d].up = conns[d].up /\ conns'[d].state = conns[d].state
          /\ conns'[d].data = conns[d].data /\ conns'[d].tasks = conns[d].tasks
          /\ conns'[d].bcast = conns[d].bcast
      BY <1>12, EditEffect
    <3>2. ASSUME conns[d].up
          PROVE  /\ Unsaid(d)' \subseteq replica'[conns[d].client]
                 /\ AwaitsAnswer(d) => AwaitsAnswer(d)'
      <4>1. Unsaid(d)' \subseteq Unsaid(d) \cup {e} /\ (AwaitsAnswer(d) => AwaitsAnswer(d)')
        BY <1>12, EditFacts
      <4>2. e \in replica'[conns[d].client] \/ conns[d].client # Author[e]
        BY <2>1
      <4>3. conns[d].client # Author[e] => Unsaid(d)' = Unsaid(d)
        BY <1>12, EditFacts
      <4>4. Unsaid(d) \subseteq replica'[conns[d].client]
        BY <1>0, <2>1, <3>2 DEF WireOK
      <4> QED BY <4>1, <4>2, <4>3, <4>4
    <3>3. /\ Sent(d)' = Sent(d) /\ LiveDoc(d)' = LiveDoc(d)
          /\ (Serving(d)' <=> Serving(d)) /\ (Storing(d)' <=> Storing(d))
      BY <2>1, <3>1 DEF Sent, LiveDoc, Serving, Storing
    <3> QED BY <1>0, <2>1, <3>1, <3>2, <3>3 DEF WireOK
  <2> QED BY <2>2 DEF WireInv
<1>13. CASE StartSweep \/ EndSweep \/ UNCHANGED vars
  <2>1. UNCHANGED <<conns, docs, replica>>
    BY <1>13 DEF StartSweep, EndSweep, vars
  <2>2. \A d \in Conns : WireOK(d)'
    BY <1>0, <2>1, WireBystander DEF LiveDoc
  <2> QED BY <2>2 DEF WireInv
<1>14. CASE Crash
  BY <1>14, CrashEffect DEF WireInv, WireOK, Storing
<1> QED BY <1>2, <1>3, <1>4, <1>5, <1>6, <1>7, <1>8, <1>9, <1>10, <1>11, <1>12, <1>13,
           <1>14 DEF Next, Open, Serve, OffSocket

(* What is being stored stays until it is broadcast.                       *)
LEMMA UnheardGrows ==
    ASSUME NEW c \in Conns, Frame(c),
           Storing(c) => Storing(c)' /\ conns'[c].state = conns[c].state
                         /\ conns'[c].data = conns[c].data
    PROVE  /\ \A x : Unheard(x) \subseteq Unheard(x)'
           /\ \A d \in Conns : conns'[d].state = conns[d].state =>
                Unheard(conns[d].state) \subseteq (Unheard(conns[d].state))'
<1>1. \A d \in Conns : Storing(d) => Storing(d)' /\ conns'[d].state = conns[d].state
                                     /\ conns'[d].data = conns[d].data
  BY DEF Frame, Storing
<1>2. \A x : Unheard(x) \subseteq Unheard(x)'
  BY <1>1 DEF Unheard
<1>3. ASSUME NEW d \in Conns, conns'[d].state = conns[d].state
      PROVE  Unheard(conns[d].state) \subseteq (Unheard(conns[d].state))'
  <2> DEFINE x == conns[d].state
  <2>1. \A b \in Conns : Storing(b) /\ conns[b].state = x =>
          Storing(b)' /\ conns'[b].state = conns'[d].state /\ conns'[b].data = conns[b].data
    BY <1>1, <1>3
  <2> QED BY <1>3, <2>1 DEF Unheard
<1> QED BY <1>2, <1>3

LEMMA HeardBystander ==
    ASSUME NEW d \in Conns, HeardOK(d), conns'[d] = conns[d],
           ~Serving(d) \/ LiveDoc(d)' \subseteq LiveDoc(d) \cup (Unheard(conns[d].state))',
           \A x : Unheard(x) \subseteq Unheard(x)',
           conns[d].up => replica[conns[d].client] \subseteq replica'[conns[d].client]
    PROVE  HeardOK(d)'
<1>1. /\ Sent(d)' = Sent(d) /\ (AwaitsAnswer(d)' <=> AwaitsAnswer(d))
      /\ (Serving(d)' <=> Serving(d))
  BY DEF Sent, AwaitsAnswer, Serving
<1>2. Unheard(conns[d].state) \subseteq (Unheard(conns[d].state))'
  BY DEF Unheard
<1> QED BY <1>1, <1>2 DEF HeardOK

LEMMA HeardStep ==
    ASSUME CrdtTypeOK, PlacesOK, NamesInv, WireInv, HeardInv, [Next]_vars
    PROVE  HeardInv'
<1> USE DEF At
<1> SUFFICES ASSUME counts'.faults = 0
             PROVE  \A d \in Conns : HeardOK(d)'
  BY DEF HeardInv
<1>0. /\ \A d \in Conns : /\ conns[d].up => conns[d].client \in Clients
                          /\ conns[d].tasks => Serving(d)
                          /\ Attached(d) => conns[d].state \in Conns
                          /\ Serving(d) => Attached(d)
                          /\ Storing(d) => Serving(d)
                          /\ WireOK(d) /\ HeardOK(d)
      /\ docs \in [Conns -> SUBSET Edits] /\ replica \in [Clients -> SUBSET Edits]
  BY FaultsGrow DEF PlacesOK, WireInv, HeardInv, Serving, Storing, Attached, CrdtTypeOK
<1>1. ASSUME NEW c \in Conns, Frame(c), HeardOK(c)',
             \A d \in Conns \ {c} : LiveDoc(d)' \subseteq LiveDoc(d) \/ ~Serving(d),
             \A x : Unheard(x) \subseteq Unheard(x)',
             \A k \in Clients : replica[k] \subseteq replica'[k]
      PROVE  \A d \in Conns : HeardOK(d)'
  BY <1>0, <1>1, HeardBystander DEF Frame
<1>2. ASSUME NEW c \in Conns, Frame(c), UNCHANGED docs
      PROVE  \A d \in Conns \ {c} : LiveDoc(d)' \subseteq LiveDoc(d)
  BY <1>2 DEF Frame, LiveDoc
<1>3. ASSUME NEW c \in Conns, OffSocket(c)
      PROVE  \A d \in Conns : HeardOK(d)'
  <2>1. Frame(c) /\ UNCHANGED <<replica, docs>>
    BY <1>3, OffSocketOK
  <2>2. CASE Aside(c)
    <3>1. \A x : Unheard(x) \subseteq Unheard(x)'
      BY <2>1, <2>2, UnheardGrows DEF Aside, Unserved, Storing, Serving
    <3>2. HeardOK(c)'
      BY <2>2 DEF Aside, Unserved, HeardOK
    <3> QED BY <1>1, <1>2, <2>1, <3>1, <3>2
  <2>3. CASE Ends(c)
    <3>1. \A x : Unheard(x) \subseteq Unheard(x)'
      BY <2>1, <2>3, UnheardGrows DEF Ends
    <3>2. HeardOK(c)'
      BY <2>3 DEF Ends, HeardOK
    <3> QED BY <1>1, <1>2, <2>1, <3>1, <3>2
  <2>4. CASE Stores(c)
    <3>1. \A x : Unheard(x) \subseteq Unheard(x)'
      BY <2>1, <2>4, UnheardGrows DEF Stores
    <3>2. HeardOK(c)'
      <4>1. /\ Sent(c)' = Sent(c) /\ (AwaitsAnswer(c)' <=> AwaitsAnswer(c))
            /\ Serving(c) /\ LiveDoc(c)' = LiveDoc(c)
            /\ conns'[c].client = conns[c].client /\ conns'[c].up = conns[c].up
            /\ conns'[c].lagged = conns[c].lagged
        BY <2>1, <2>4 DEF Stores, KeepsWire, Sent, AwaitsAnswer, LiveDoc
      <4>2. Unheard(conns[c].state) \subseteq (Unheard(conns[c].state))'
        BY <2>4, <3>1 DEF Unheard, Stores
      <4> QED BY <1>0, <2>1, <4>1, <4>2 DEF HeardOK
    <3> QED BY <1>1, <1>2, <2>1, <3>1, <3>2
  <2> QED BY <1>3, <2>2, <2>3, <2>4, OffSocketOK
<1>4. ASSUME NEW c \in Conns, Register(c)
      PROVE  \A d \in Conns : HeardOK(d)'
  <2>1. /\ Frame(c) /\ ~Storing(c) /\ ~Serving(c)' /\ UNCHANGED replica /\ Loading(c)
        /\ docs' = [docs EXCEPT ![c] = conns[c].data]
    BY <1>4, RegisterEffect DEF Moved, Storing, Serving, Loading, Fetched
  <2>2. \A d \in Conns \ {c} : LiveDoc(d)' \subseteq LiveDoc(d) \/ ~Serving(d)
    BY <1>0, <2>1 DEF NamesInv, LiveDoc, Frame
  <2>3. HeardOK(c)'
    BY <2>1 DEF HeardOK
  <2> QED BY <1>1, <2>1, <2>2, <2>3, UnheardGrows
<1>5. ASSUME NEW c \in Conns, Greet(c)
      PROVE  \A d \in Conns : HeardOK(d)'
  <2>1. Frame(c) /\ ~Storing(c) /\ ~Serving(c)' /\ UNCHANGED <<docs, replica>>
    BY <1>5, GreetFacts DEF Storing, Serving
  <2> QED BY <1>1, <1>2, <2>1, UnheardGrows DEF HeardOK
<1>6. ASSUME NEW c \in Conns, Subscribe(c)
      PROVE  \A d \in Conns : HeardOK(d)'
  <2>1. /\ Frame(c) /\ ~Storing(c) /\ ~Serving(c) /\ UNCHANGED <<docs, replica>>
        /\ conns'[c].recv = conns[c].recv /\ conns'[c].up = conns[c].up
    BY <1>6, SubscribeEffect DEF Stays, Storing, Serving
  <2>2. HeardOK(c)'
    BY <1>0, <2>1 DEF HeardOK, WireOK, AwaitsAnswer
  <2> QED BY <1>1, <1>2, <2>1, <2>2, UnheardGrows
<1>7. ASSUME NEW c \in Conns, AnswerStep1(c)
      PROVE  \A d \in Conns : HeardOK(d)'
  <2>1. /\ Frame(c) /\ ~Storing(c) /\ Serving(c) /\ UNCHANGED docs
        /\ Deliver(c, LiveDoc(c)) /\ conns'[c].state = conns[c].state
        /\ conns'[c].client = conns[c].client /\ conns'[c].up = conns[c].up
    BY <1>7, AnswerStep1Effect DEF Stays, Storing, Serving
  <2>2. /\ LiveDoc(c) \in SUBSET Edits /\ LiveDoc(c)' = LiveDoc(c)
        /\ conns[c].client \in Clients
    BY <1>0, <2>1 DEF LiveDoc, PlacesOK, Attached, Serving
  <2>3. /\ \A k \in Clients : replica[k] \subseteq replica'[k]
        /\ conns[c].up => LiveDoc(c) \subseteq replica'[conns[c].client]
    BY <2>1, <2>2, DeliverOK
  <2>4. HeardOK(c)'
    BY <2>1, <2>2, <2>3 DEF HeardOK
  <2> QED BY <1>1, <1>2, <2>1, <2>3, <2>4, UnheardGrows
<1>8. ASSUME NEW c \in Conns, DropUpdate(c)
      PROVE  \A d \in Conns : HeardOK(d)'
  <2>1. /\ Frame(c) /\ ~Storing(c) /\ Serving(c) /\ UNCHANGED <<docs, replica>>
        /\ conns'[c].state = conns[c].state /\ conns'[c].bcast = conns[c].bcast
        /\ conns'[c].client = conns[c].client /\ conns'[c].up = conns[c].up
        /\ conns'[c].lagged = conns[c].lagged
        /\ conns'[c].recv = Tail(conns[c].recv) /\ conns[c].recv # <<>>
        /\ Head(conns[c].recv).step1 = FALSE
    BY <1>8, DropUpdateEffect DEF Stays, Storing, Serving
  <2>2. AwaitsAnswer(c)' <=> AwaitsAnswer(c)
    BY <2>1, FieldsOK, SpokenOK DEF AwaitsAnswer
  <2>3. \A x : Unheard(x) \subseteq Unheard(x)'
    BY <2>1, UnheardGrows
  <2>4. HeardOK(c)'
    <3>1. Unheard(conns[c].state) \subseteq (Unheard(conns[c].state))'
      BY <2>1, UnheardGrows
    <3> QED BY <1>0, <2>1, <2>2, <3>1 DEF HeardOK, Sent, LiveDoc
  <2> QED BY <1>1, <1>2, <2>1, <2>3, <2>4
<1>9. ASSUME NEW c \in Conns, ApplyUpdate(c)
      PROVE  \A d \in Conns : HeardOK(d)'
  <2> DEFINE data == Head(conns[c].recv).data
  <2>1. /\ Frame(c) /\ ~Storing(c) /\ Storing(c)' /\ Serving(c) /\ UNCHANGED replica
        /\ conns'[c].state = conns[c].state /\ conns'[c].bcast = conns[c].bcast
        /\ conns'[c].client = conns[c].client /\ conns'[c].up = conns[c].up
        /\ conns'[c].lagged = conns[c].lagged /\ conns'[c].data = data
        /\ conns'[c].recv = Tail(conns[c].recv) /\ conns[c].recv # <<>>
        /\ Head(conns[c].recv).step1 = FALSE /\ data \in SUBSET Edits
        /\ docs' = [docs EXCEPT ![conns[c].state] = @ \cup data]
    BY <1>9, ApplyUpdateEffect DEF Storing, Serving
  <2>2. AwaitsAnswer(c)' <=> AwaitsAnswer(c)
    BY <2>1, FieldsOK, SpokenOK DEF AwaitsAnswer
  <2> HIDE DEF data
  <2>3. \A x : Unheard(x) \subseteq Unheard(x)'
    BY <2>1, UnheardGrows
  <2>4. \A d \in Conns : Serving(d) => conns'[d].state = conns[d].state
            /\ LiveDoc(d)' \subseteq LiveDoc(d) \cup (Unheard(conns[d].state))'
    <3>1. data \subseteq (Unheard(conns[c].state))'
      BY <2>1 DEF Unheard
    <3>2. ASSUME NEW d \in Conns, Serving(d)
          PROVE  conns'[d].state = conns[d].state
                 /\ LiveDoc(d)' \subseteq LiveDoc(d) \cup (Unheard(conns[d].state))'
      <4>1. conns'[d].state = conns[d].state /\ conns[d].state \in Conns
        BY <1>0, <2>1, <3>2 DEF Frame
      <4>2. CASE conns[d].state = conns[c].state
        <5>1. data \subseteq (Unheard(conns[d].state))'
          BY <2>1, <3>1, <4>1, <4>2 DEF Unheard
        <5> QED BY <1>0, <2>1, <4>1, <5>1 DEF LiveDoc
      <4>3. CASE conns[d].state # conns[c].state
        BY <1>0, <2>1, <4>1, <4>3 DEF LiveDoc
      <4> QED BY <4>1, <4>2, <4>3
    <3> QED BY <3>2
  <2>5. HeardOK(c)'
    <3>1. Unheard(conns[c].state) \subseteq (Unheard(conns[c].state))'
      BY <2>1, UnheardGrows
    <3> QED BY <1>0, <2>1, <2>2, <2>4, <3>1 DEF HeardOK, Sent
  <2> QED BY <1>0, <2>1, <2>3, <2>4, <2>5, HeardBystander DEF Frame
<1>10. ASSUME NEW c \in Conns, Broadcast(c)
       PROVE  \A d \in Conns : HeardOK(d)'
  <2>1. /\ Storing(c) /\ Serving(c) /\ UNCHANGED <<replica, docs>> /\ conns'[c].pc = "open"
        /\ conns[c].data \in SUBSET Edits
        /\ \A d \in Conns \ {c} : conns'[d].pc = conns[d].pc
                                  /\ conns'[d].data = conns[d].data
        /\ \A d \in Conns :
             /\ conns'[d].client = conns[d].client /\ conns'[d].up = conns[d].up
             /\ conns'[d].state = conns[d].state
             /\ conns'[d].tasks = conns[d].tasks /\ conns'[d].recv = conns[d].recv
    BY <1>10, BroadcastEffect, FieldsOK DEF Storing, Serving
  <2>2. ASSUME NEW d \in Conns, conns[d].up, Serving(d), conns'[d].lagged = FALSE,
               ~AwaitsAnswer(d)
        PROVE  LiveDoc(d) \subseteq replica[conns[d].client] \cup Sent(d)'
                                   \cup (Unheard(conns[d].state))'
    <3>1. conns[d].tasks /\ conns[d].bcast \in Seq(SUBSET Edits)
      BY <1>0, <2>2, FieldsOK DEF WireOK
    <3>2. CASE conns[d].state # conns[c].state
      <4>1. Unheard(conns[d].state) \subseteq (Unheard(conns[d].state))'
        BY <2>1, <3>2 DEF Unheard, Storing
      <4>2. conns'[d].bcast = conns[d].bcast /\ conns'[d].lagged = conns[d].lagged
        BY <1>10, <3>2, BroadcastEffect
      <4> QED BY <1>0, <2>2, <4>1, <4>2 DEF HeardOK, Sent
    <3>3. CASE conns[d].state = conns[c].state
      <4>1. Unheard(conns[d].state)
              \subseteq (Unheard(conns[d].state))' \cup conns[c].data
        BY <2>1, <3>3 DEF Unheard, Storing
      <4>2. /\ d = c => Queued(d, {})
            /\ d # c => Queued(d, conns[c].data)
        BY <1>10, <3>1, <3>3, BroadcastEffect
      <4>3. CASE d = c
        <5>1. conns'[d].bcast = Append(conns[d].bcast, {}) /\ conns[d].lagged = FALSE
          BY <2>2, <4>2, <4>3 DEF Queued
        <5>2. Sent(d)' = Sent(d)
          <6>1. Carried(Append(conns[d].bcast, {})) = Carried(conns[d].bcast) \cup {}
            BY <3>1, CarriedOK
          <6> QED BY <5>1, <6>1 DEF Sent
        <5>3. conns[c].data \subseteq replica[conns[d].client]
          BY <1>0, <2>1, <2>2, <4>3 DEF WireOK
        <5> QED BY <1>0, <2>2, <4>1, <5>1, <5>2, <5>3 DEF HeardOK
      <4>4. CASE d # c
        <5>1. conns'[d].bcast = Append(conns[d].bcast, conns[c].data)
              /\ conns[d].lagged = FALSE
          BY <2>2, <4>2, <4>4 DEF Queued
        <5>2. Sent(d)' = Sent(d) \cup conns[c].data
          BY <2>1, <3>1, <5>1, CarriedOK DEF Sent
        <5> QED BY <1>0, <2>2, <4>1, <5>1, <5>2 DEF HeardOK
      <4> QED BY <4>3, <4>4
    <3> QED BY <3>2, <3>3
  <2>3. ASSUME NEW d \in Conns
        PROVE  HeardOK(d)'
    <3>1. conns'[d].lagged \in BOOLEAN
      BY <1>10, BroadcastEffect DEF Connection
    <3>2. Serving(d)' => Serving(d)
      BY <2>1 DEF Serving
    <3>3. LiveDoc(d)' = LiveDoc(d) /\ (AwaitsAnswer(d)' <=> AwaitsAnswer(d))
      BY <2>1 DEF LiveDoc, AwaitsAnswer
    <3> QED BY <2>1, <2>2, <3>1, <3>2, <3>3 DEF HeardOK
  <2> QED BY <2>3
<1>11. ASSUME NEW c \in Conns, Forward(c)
       PROVE  \A d \in Conns : HeardOK(d)'
  <2>1. /\ Frame(c) /\ Serving(c) /\ UNCHANGED docs
        /\ conns'[c].pc = conns[c].pc /\ conns'[c].data = conns[c].data
        /\ conns'[c].recv = conns[c].recv /\ conns'[c].state = conns[c].state
        /\ conns[c].bcast # <<>> /\ conns'[c].bcast = Tail(conns[c].bcast)
        /\ conns'[c].client = conns[c].client /\ conns'[c].up = conns[c].up
        /\ conns'[c].lagged = conns[c].lagged
        /\ Deliver(c, Head(conns[c].bcast))
    BY <1>0, <1>11, ForwardEffect DEF Stays
  <2>2. Sent(c) = Head(conns[c].bcast) \cup Sent(c)'
    BY <2>1, FieldsOK, CarriedOK DEF Sent
  <2>3. /\ \A k \in Clients : replica[k] \subseteq replica'[k]
        /\ conns[c].up => Head(conns[c].bcast) \subseteq replica'[conns[c].client]
    <3>1. Head(conns[c].bcast) \in SUBSET Edits /\ conns[c].client \in Clients
      BY <2>1, FieldsOK, QueueOK DEF PlacesOK, Attached, Serving
    <3> QED BY <2>1, <3>1, DeliverOK
  <2>4. \A x : Unheard(x) \subseteq Unheard(x)'
    BY <2>1, UnheardGrows DEF Storing
  <2>5. HeardOK(c)'
    <3>1. Unheard(conns[c].state) \subseteq (Unheard(conns[c].state))'
      BY <2>1, UnheardGrows DEF Storing
    <3>2. LiveDoc(c)' = LiveDoc(c) /\ (AwaitsAnswer(c)' <=> AwaitsAnswer(c))
      BY <2>1 DEF LiveDoc, AwaitsAnswer
    <3> QED BY <1>0, <2>1, <2>2, <2>3, <3>1, <3>2 DEF HeardOK
  <2> QED BY <1>1, <1>2, <2>1, <2>3, <2>4, <2>5
<1>12. ASSUME NEW c \in Conns, Disconnect(c) \/ TasksEnd(c)
       PROVE  \A d \in Conns : HeardOK(d)'
  <2>1. /\ Frame(c) /\ UNCHANGED <<docs, replica>> /\ conns'[c].up = FALSE
        /\ conns'[c].pc = conns[c].pc /\ conns'[c].data = conns[c].data
        /\ conns'[c].state = conns[c].state
    <3>1. CASE Disconnect(c)
      BY <3>1, DisconnectEffect DEF Stays
    <3>2. CASE TasksEnd(c)
      <4>1. conns[c].up \in BOOLEAN
        BY FieldsOK
      <4> QED BY <3>2, <4>1, TasksEndEffect DEF Stays
    <3> QED BY <1>12, <3>1, <3>2
  <2>2. \A x : Unheard(x) \subseteq Unheard(x)'
    BY <2>1, UnheardGrows DEF Storing
  <2> QED BY <1>1, <1>2, <2>1, <2>2 DEF HeardOK
<1>13. ASSUME NEW c \in Conns, NEW k \in Clients, Connect(c, k)
       PROVE  \A d \in Conns : HeardOK(d)'
  <2>1. /\ Frame(c) /\ UNCHANGED <<docs, replica>> /\ ~Serving(c)' /\ ~Storing(c)
    BY <1>13, ConnectEffect DEF Stays, Serving, Storing
  <2> QED BY <1>1, <1>2, <2>1, UnheardGrows DEF HeardOK
<1>14. ASSUME NEW e \in Edits, Edit(e)
       PROVE  \A d \in Conns : HeardOK(d)'
  <2>1. UNCHANGED docs /\ \A k \in Clients : replica[k] \subseteq replica'[k]
    <3>1. Author[e] \in Clients
      BY AuthorAssumption
    <3>2. replica' = [replica EXCEPT ![Author[e]] = @ \cup {e}] /\ UNCHANGED docs
      BY <1>14, EditEffect
    <3> QED BY <1>0, <3>1, <3>2
  <2>2. \A d \in Conns :
          /\ conns'[d].pc = conns[d].pc /\ conns'[d].client = conns[d].client
          /\ conns'[d].up = conns[d].up /\ conns'[d].state = conns[d].state
          /\ conns'[d].data = conns[d].data /\ conns'[d].bcast = conns[d].bcast
          /\ conns'[d].lagged = conns[d].lagged
    BY <1>14, EditEffect
  <2>3. ASSUME NEW d \in Conns
        PROVE  HeardOK(d)'
    <3>1. AwaitsAnswer(d)' <=> AwaitsAnswer(d)
      BY <1>14, EditFacts
    <3>2. /\ Sent(d)' = Sent(d) /\ LiveDoc(d)' = LiveDoc(d) /\ (Serving(d)' <=> Serving(d))
      BY <2>1, <2>2 DEF Sent, LiveDoc, Serving
    <3>3. Unheard(conns[d].state) \subseteq (Unheard(conns[d].state))'
      BY <2>2 DEF Unheard, Storing
    <3> QED BY <1>0, <2>1, <2>2, <3>1, <3>2, <3>3 DEF HeardOK
  <2> QED BY <2>3
<1>15. CASE StartSweep \/ EndSweep \/ UNCHANGED vars
  <2>1. UNCHANGED <<conns, docs, replica>>
    BY <1>15 DEF StartSweep, EndSweep, vars
  <2>2. \A x : Unheard(x) \subseteq Unheard(x)'
    BY <2>1 DEF Unheard, Storing
  <2> QED BY <1>0, <2>1, <2>2, HeardBystander DEF LiveDoc
<1>16. CASE Crash
  BY <1>16, CrashEffect DEF HeardOK
<1> QED BY <1>3, <1>4, <1>5, <1>6, <1>7, <1>8, <1>9, <1>10, <1>11, <1>12, <1>13, <1>14,
           <1>15, <1>16 DEF Next, Open, Serve, OffSocket

LEMMA SaidStep ==
    ASSUME CrdtTypeOK, PlacesOK, NamesInv, PeersInv, WireInv, SaidInv, [Next]_vars
    PROVE  SaidInv'
<1> USE DEF At
<1>0. /\ \A d \in Conns : /\ conns[d].up => conns[d].client \in Clients
                          /\ Serving(d) \/ At(d, "greeted") => conns[d].state \in Conns
                          /\ conns[d].tasks => Serving(d)
                          /\ WireOK(d) /\ SaidOK(d)
      /\ docs \in [Conns -> SUBSET Edits] /\ replica \in [Clients -> SUBSET Edits]
  BY DEF PlacesOK, WireInv, SaidInv, Serving, Attached, CrdtTypeOK
<1>1. ASSUME NEW c \in Conns, Frame(c), SaidOK(c)',
             \A d \in Conns \ {c} : Serving(d) \/ At(d, "greeted") =>
                                      LiveDoc(d) \subseteq LiveDoc(d)',
             \A d \in Conns \ {c} : conns[d].up =>
                  replica'[conns[d].client] \subseteq replica[conns[d].client]
      PROVE  SaidInv'
  BY <1>0, <1>1 DEF Frame, SaidInv, SaidOK, Unsaid, Serving
<1>2. ASSUME NEW c \in Conns, Frame(c), UNCHANGED <<docs, replica>>, SaidOK(c)'
      PROVE  SaidInv'
  BY <1>1, <1>2 DEF Frame, LiveDoc
<1>3. ASSUME NEW c \in Conns, OffSocket(c)
      PROVE  SaidInv'
  <2>1. Frame(c) /\ UNCHANGED <<docs, replica>>
    BY <1>3, OffSocketOK
  <2>2. SaidOK(c)'
    <3>1. CASE Aside(c)
      BY <3>1 DEF Aside, Unserved, SaidOK
    <3>2. CASE Ends(c)
      BY <3>2 DEF Ends, SaidOK
    <3>3. CASE Stores(c)
      BY <1>0, <2>1, <3>3 DEF Stores, KeepsWire, SaidOK, LiveDoc, Unsaid
    <3> QED BY <1>3, <3>1, <3>2, <3>3, OffSocketOK
  <2> QED BY <1>2, <2>1, <2>2
<1>4. ASSUME NEW c \in Conns, Register(c)
      PROVE  SaidInv'
  <2>1. /\ Frame(c) /\ ~Serving(c)' /\ ~At(c, "greeted")' /\ UNCHANGED replica /\ Loading(c)
        /\ docs' = [docs EXCEPT ![c] = conns[c].data]
    BY <1>4, RegisterEffect DEF Moved, Serving, Loading, Fetched
  <2>2. \A d \in Conns \ {c} : Serving(d) \/ At(d, "greeted") =>
                                 LiveDoc(d) \subseteq LiveDoc(d)'
    BY <1>0, <2>1 DEF NamesInv, LiveDoc, Frame
  <2>3. SaidOK(c)'
    BY <2>1 DEF SaidOK
  <2> QED BY <1>1, <2>1, <2>2, <2>3
<1>5. ASSUME NEW c \in Conns, Greet(c)
      PROVE  SaidInv'
  <2>1. /\ Frame(c) /\ UNCHANGED <<docs, replica>>
        /\ conns'[c].client = conns[c].client /\ conns'[c].up = conns[c].up
        /\ LiveDoc(c)' = LiveDoc(c)
        /\ conns[c].up =>
             Unsaid(c)' = Unsaid(c) \cup (replica[conns[c].client] \ LiveDoc(c))
    BY <1>5, GreetFacts DEF LiveDoc
  <2>2. SaidOK(c)'
    BY <2>1 DEF SaidOK
  <2> QED BY <1>2, <2>1, <2>2
<1>6. ASSUME NEW c \in Conns, Subscribe(c)
      PROVE  SaidInv'
  <2>1. /\ Frame(c) /\ UNCHANGED <<docs, replica>> /\ At(c, "greeted")
        /\ conns'[c].client = conns[c].client /\ conns'[c].up = conns[c].up
        /\ conns'[c].state = conns[c].state /\ conns'[c].recv = conns[c].recv
    BY <1>6, SubscribeEffect DEF Stays
  <2>2. SaidOK(c)'
    BY <1>0, <2>1 DEF SaidOK, LiveDoc, Unsaid
  <2> QED BY <1>2, <2>1, <2>2
<1>7. ASSUME NEW c \in Conns, NEW data \in SUBSET Edits, Deliver(c, data), Frame(c),
             UNCHANGED docs, conns'[c].pc = conns[c].pc, Serving(c),
             conns'[c].client = conns[c].client, conns'[c].up = conns[c].up,
             conns'[c].state = conns[c].state, Unsaid(c)' = Unsaid(c),
             conns[c].up => data \subseteq LiveDoc(c)
      PROVE  SaidInv'
  <2>1. LiveDoc(c)' = LiveDoc(c) /\ conns[c].client \in Clients
    BY <1>7 DEF LiveDoc, PlacesOK, Attached, Serving
  <2>2. SaidOK(c)'
    <3>1. conns[c].up =>
            replica'[conns[c].client] = replica[conns[c].client] \cup data
      BY <1>7, <2>1, DeliverOK
    <3> QED BY <1>0, <1>7, <2>1, <3>1 DEF SaidOK
  <2>3. \A d \in Conns \ {c} : conns[d].up =>
          replica'[conns[d].client] \subseteq replica[conns[d].client]
    BY <1>0, <1>7, <2>1, DeliverOK DEF PeersInv
  <2> QED BY <1>1, <1>7, <2>2, <2>3 DEF LiveDoc, Frame
<1>8. ASSUME NEW c \in Conns, AnswerStep1(c)
      PROVE  SaidInv'
  <2>1. /\ Frame(c) /\ Serving(c) /\ UNCHANGED docs /\ conns'[c].pc = conns[c].pc
        /\ Deliver(c, LiveDoc(c)) /\ conns'[c].state = conns[c].state
        /\ conns'[c].client = conns[c].client /\ conns'[c].up = conns[c].up
        /\ conns'[c].recv = Tail(conns[c].recv) /\ conns[c].recv # <<>>
        /\ Head(conns[c].recv).step1 = TRUE
    BY <1>8, AnswerStep1Effect DEF Stays, Serving
  <2>2. Head(conns[c].recv).data = {}
    BY <2>1, FieldsOK, QueueOK DEF Message
  <2>3. Unsaid(c)' = Unsaid(c)
    <3>1. Spoken(conns[c].recv)
            = Head(conns[c].recv).data \cup Spoken(Tail(conns[c].recv))
      BY <2>1, FieldsOK, SpokenOK
    <3> QED BY <2>1, <2>2, <3>1 DEF Unsaid
  <2>4. LiveDoc(c) \in SUBSET Edits
    BY <1>0, <2>1 DEF LiveDoc
  <2> QED BY <1>7, <2>1, <2>3, <2>4
<1>9. ASSUME NEW c \in Conns, Forward(c)
      PROVE  SaidInv'
  <2>1. /\ Frame(c) /\ Serving(c) /\ UNCHANGED docs /\ conns'[c].pc = conns[c].pc
        /\ Deliver(c, Head(conns[c].bcast)) /\ conns'[c].state = conns[c].state
        /\ conns'[c].client = conns[c].client /\ conns'[c].up = conns[c].up
        /\ conns'[c].recv = conns[c].recv /\ conns[c].bcast # <<>> /\ conns[c].tasks
    BY <1>0, <1>9, ForwardEffect DEF Stays
  <2>2. Head(conns[c].bcast) \in SUBSET Edits /\ Head(conns[c].bcast) \subseteq Sent(c)
    BY <2>1, FieldsOK, QueueOK, CarriedOK DEF Sent
  <2>3. Head(conns[c].bcast) \subseteq LiveDoc(c) /\ Unsaid(c)' = Unsaid(c)
    BY <1>0, <2>1, <2>2 DEF WireOK, Unsaid
  <2> QED BY <1>7, <2>1, <2>2, <2>3
<1>10. ASSUME NEW c \in Conns, DropUpdate(c)
       PROVE  SaidInv'
  <2>1. /\ Frame(c) /\ UNCHANGED <<docs, replica>> /\ Serving(c)
        /\ conns'[c].state = conns[c].state
        /\ conns'[c].client = conns[c].client /\ conns'[c].up = conns[c].up
        /\ conns'[c].recv = Tail(conns[c].recv) /\ conns[c].recv # <<>>
        /\ conns[c].client \in Readers \/ Head(conns[c].recv).data \subseteq LiveDoc(c)
    BY <1>10, DropUpdateEffect DEF Stays, Serving, Applies
  <2>2. Unsaid(c) = Head(conns[c].recv).data \cup Unsaid(c)'
    BY <2>1, FieldsOK, SpokenOK DEF Unsaid
  <2>3. SaidOK(c)'
    BY <1>0, <2>1, <2>2 DEF SaidOK, LiveDoc
  <2> QED BY <1>2, <2>1, <2>3
<1>11. ASSUME NEW c \in Conns, ApplyUpdate(c)
       PROVE  SaidInv'
  <2> DEFINE data == Head(conns[c].recv).data
  <2>1. /\ Frame(c) /\ UNCHANGED replica /\ Serving(c) /\ conns'[c].state = conns[c].state
        /\ conns'[c].client = conns[c].client /\ conns'[c].up = conns[c].up
        /\ conns'[c].recv = Tail(conns[c].recv) /\ conns[c].recv # <<>>
        /\ data \in SUBSET Edits
        /\ docs' = [docs EXCEPT ![conns[c].state] = @ \cup data]
    BY <1>11, ApplyUpdateEffect DEF Serving
  <2>2. Unsaid(c) = data \cup Unsaid(c)'
    BY <2>1, FieldsOK, SpokenOK DEF Unsaid
  <2> HIDE DEF data
  <2>3. \A s \in Conns : docs[s] \subseteq docs'[s]
    BY <1>0, <2>1
  <2>4. LiveDoc(c)' = LiveDoc(c) \cup data
    BY <1>0, <2>1 DEF LiveDoc
  <2>5. SaidOK(c)'
    BY <1>0, <2>1, <2>2, <2>4 DEF SaidOK
  <2>6. \A d \in Conns \ {c} : Serving(d) \/ At(d, "greeted") =>
                                 LiveDoc(d) \subseteq LiveDoc(d)'
    BY <1>0, <2>1, <2>3 DEF LiveDoc, Frame
  <2> QED BY <1>1, <2>1, <2>5, <2>6
<1>12. ASSUME NEW c \in Conns, Broadcast(c)
       PROVE  SaidInv'
  <2>1. /\ UNCHANGED <<replica, docs>> /\ Serving(c)
        /\ \A d \in Conns \ {c} : conns'[d].pc = conns[d].pc
        /\ \A d \in Conns :
             /\ conns'[d].client = conns[d].client /\ conns'[d].up = conns[d].up
             /\ conns'[d].state = conns[d].state /\ conns'[d].recv = conns[d].recv
    BY <1>12, BroadcastEffect DEF Serving
  <2> QED BY <1>0, <2>1 DEF SaidInv, SaidOK, LiveDoc, Unsaid, Serving
<1>13. ASSUME NEW c \in Conns, Disconnect(c) \/ TasksEnd(c)
       PROVE  SaidInv'
  <2>1. Frame(c) /\ UNCHANGED <<docs, replica>> /\ conns'[c].up = FALSE
    <3>1. CASE Disconnect(c)
      BY <3>1, DisconnectEffect DEF Stays
    <3>2. CASE TasksEnd(c)
      <4>1. conns[c].up \in BOOLEAN
        BY FieldsOK
      <4> QED BY <3>2, <4>1, TasksEndEffect DEF Stays
    <3> QED BY <1>13, <3>1, <3>2
  <2> QED BY <1>2, <2>1 DEF SaidOK
<1>14. ASSUME NEW c \in Conns, NEW k \in Clients, Connect(c, k)
       PROVE  SaidInv'
  <2>1. /\ Frame(c) /\ UNCHANGED <<docs, replica>> /\ ~Serving(c)' /\ ~At(c, "greeted")'
    BY <1>14, ConnectEffect DEF Stays, Serving
  <2> QED BY <1>2, <2>1 DEF SaidOK
<1>15. ASSUME NEW e \in Edits, Edit(e)
       PROVE  SaidInv'
  <2>1. /\ UNCHANGED docs /\ Author[e] \in Clients
        /\ replica' = [replica EXCEPT ![Author[e]] = @ \cup {e}]
    BY <1>15, EditEffect, AuthorAssumption
  <2>2. ASSUME NEW d \in Conns
        PROVE  SaidOK(d)'
    <3>1. /\ conns'[d].pc = conns[d].pc /\ conns'[d].client = conns[d].client
          /\ conns'[d].up = conns[d].up /\ LiveDoc(d)' = LiveDoc(d)
      BY <1>15, <2>1, EditEffect DEF LiveDoc
    <3>2. CASE conns[d].client = Author[e] /\ conns[d].up
      <4>1. Unsaid(d)' = Unsaid(d) \cup {e}
        BY <1>15, <3>2, EditFacts
      <4> QED BY <1>0, <2>1, <3>1, <3>2, <4>1 DEF SaidOK, Serving
    <3>3. CASE ~(conns[d].client = Author[e] /\ conns[d].up)
      <4>1. Unsaid(d)' = Unsaid(d)
        BY <1>15, <3>3, EditFacts
      <4> QED BY <1>0, <2>1, <3>1, <3>3, <4>1 DEF SaidOK, Serving
    <3> QED BY <3>2, <3>3
  <2> QED BY <2>2 DEF SaidInv
<1>16. CASE StartSweep \/ EndSweep \/ UNCHANGED vars
  <2>1. UNCHANGED <<conns, docs, replica>>
    BY <1>16 DEF StartSweep, EndSweep, vars
  <2> QED BY <1>0, <2>1 DEF SaidInv, SaidOK, LiveDoc, Unsaid, Serving
<1>17. CASE Crash
  BY <1>17, CrashEffect DEF SaidInv, SaidOK
<1> QED BY <1>3, <1>4, <1>5, <1>6, <1>8, <1>9, <1>10, <1>11, <1>12, <1>13, <1>14, <1>15,
           <1>16, <1>17 DEF Next, Open, Serve, OffSocket

-----------------------------------------------------------------------------
(* The invariants hold at first, and every step keeps them; each names the *)
(* ones it rests on.                                                       *)
CrdtInv ==
    /\ CrdtTypeOK /\ PlacesOK /\ LockInv /\ OneLiveDoc /\ FirstInv /\ LeftInv
    /\ AckedInv /\ NamesInv /\ PeersInv /\ WireInv /\ HeardInv /\ SaidInv

LEMMA InvInit == Init => CrdtInv
<1> SUFFICES ASSUME Init PROVE CrdtInv
  OBVIOUS
<1>1. /\ \A c \in Conns : /\ conns[c].pc = "off" /\ conns[c].state = None
                          /\ conns[c].up = FALSE /\ conns[c].tasks = FALSE
                          /\ conns[c].bcast = <<>>
      /\ registry = None /\ locked = None /\ acked = {} /\ counter = NoCounter
  BY DEF Init, Off
<1>2. LockInv /\ OneLiveDoc /\ FirstInv /\ LeftInv
  BY <1>1 DEF LockInv, OneLiveDoc, FirstInv, LeftInv, Loading, Fetched, Attached,
              Optimizing, At
<1>3. NumbersInv /\ ContentsInv
  BY <1>1 DEF NumbersInv, ContentsInv, Numbered, Writing, Storing, Fetched, Optimizing, At
<1>4. NamesInv /\ PeersInv
  BY <1>1, NoneAssumption DEF NamesInv, PeersInv
<1>5. WireInv /\ HeardInv /\ SaidInv
  BY <1>1 DEF WireInv, WireOK, HeardInv, HeardOK, SaidInv, SaidOK, Storing
<1> QED BY <1>2, <1>3, <1>4, <1>5, TypeInit DEF CrdtInv, AckedInv

LEMMA InvStep == CrdtInv /\ [Next]_vars => CrdtInv'
<1> SUFFICES ASSUME CrdtInv, [Next]_vars PROVE CrdtInv'
  OBVIOUS
<1>1. CrdtTypeOK' /\ PlacesOK'
  BY TypeStep, PlacesStep DEF CrdtInv
<1>2. LockInv' /\ OneLiveDoc'
  BY LockStep, OneDocStep DEF CrdtInv
<1>3. FirstInv' /\ LeftInv'
  BY FirstStep, LeftStep DEF CrdtInv
<1>4. AckedInv'
  BY AckedStep DEF CrdtInv
<1>5. NamesInv' /\ PeersInv'
  BY NamesStep, PeersStep DEF CrdtInv
<1>6. WireInv' /\ HeardInv' /\ SaidInv'
  BY WireStep, HeardStep, SaidStep DEF CrdtInv
<1> QED BY <1>1, <1>2, <1>3, <1>4, <1>5, <1>6 DEF CrdtInv

(* Registry, connections, messages, log and numbers stay in step through   *)
(* every opening, edit, close, compaction, failure, sweep and restart.     *)
THEOREM CrdtSafe == Spec => []CrdtInv
BY InvInit, InvStep, PTL DEF Spec

(* Unless a DocState was removed under a connection that had not yet       *)
(* subscribed, everybody who can edit has the registered one: the write    *)
(* lock is held over the load, so no second one is made meanwhile.         *)
THEOREM OneLiveDocCorrect == Spec => []OneLiveDoc
<1>1. CrdtInv => OneLiveDoc
  BY DEF CrdtInv
<1> QED BY <1>1, CrdtSafe, PTL

(* As long as no write failed, a document is initialized once: while a     *)
(* connection stores the first update, the log is empty, nobody else does, *)
(* and nobody has the document open.                                       *)
THEOREM InitializesAloneCorrect == Spec => []InitializesAlone
<1>1. CrdtInv => InitializesAlone
  <2> SUFFICES ASSUME CrdtInv, counts.faults = 0, NEW c \in Conns, At(c, "init")
               PROVE  log = {} /\ \A d \in Conns \ {c} : ~Attached(d) /\ ~At(d, "init")
    BY DEF InitializesAlone
  <2>1. log = {} /\ \A d \in Conns : ~Attached(d)
    BY DEF CrdtInv, FirstInv
  <2>2. \A d \in Conns : At(d, "init") => d = c
    BY DEF CrdtInv, LockInv, Loading, Fetched, At
  <2> QED BY <2>1, <2>2
<1> QED BY <1>1, CrdtSafe, PTL

(* What was broadcast as stored can be read back, whatever connections,    *)
(* compactions, failures, sweeps and restarts come between -- unless one   *)
(* of the three overlaps that AckedStored names has happened.              *)
THEOREM AckedStoredCorrect == Spec => []AckedStored
<1>1. CrdtInv => AckedStored
  BY DEF CrdtInv, AckedInv, ContentsInv, AckedStored
<1> QED BY <1>1, CrdtSafe, PTL

(* When all connections are gone, no live document and no lock is left.    *)
THEOREM NothingLeftCorrect == Spec => []NothingLeft
<1>1. CrdtInv => NothingLeft
  <2> SUFFICES ASSUME CrdtInv, \A c \in Conns : conns[c].pc \in {"off", "done"}
               PROVE  registry = None /\ locked = None
    BY DEF NothingLeft
  <2>1. \A c \in Conns : ~Attached(c) /\ ~Loading(c) /\ conns[c].pc \notin {"closed", "grace"}
    BY DEF Attached, Loading, Fetched, At
  <2> QED BY <2>1 DEF CrdtInv, CrdtTypeOK, LeftInv, LockInv
<1> QED BY <1>1, CrdtSafe, PTL

(* Connections at rest have converged: what a client lacked of the live    *)
(* document was on its way to it, and what the document lacked was on its  *)
(* way from the client.                                                    *)
THEOREM ConvergedCorrect == Spec => []Converged
<1>1. CrdtInv => Converged
  <2> SUFFICES ASSUME CrdtInv, NEW c \in Conns, Settled(c), ~conns[c].lagged,
                      counts.faults = 0,
                      \A d \in Conns : conns[d].state = conns[c].state =>
                                         ~At(d, "store") /\ ~At(d, "stored")
               PROVE  /\ LiveDoc(c) \subseteq replica[conns[c].client]
                      /\ conns[c].client \notin Readers =>
                           replica[conns[c].client] \subseteq LiveDoc(c)
    BY DEF Converged
  <2>1. conns[c].up /\ Serving(c) /\ conns[c].recv = <<>> /\ conns[c].bcast = <<>>
    BY DEF Settled, At, Serving
  <2>2. ~AwaitsAnswer(c) /\ Unsaid(c) = {} /\ Sent(c) = {}
    BY <2>1, SpokenOK, CarriedOK DEF AwaitsAnswer, Unsaid, Sent
  <2>3. Unheard(conns[c].state) = {}
    BY DEF Unheard, Storing, At
  <2>4. HeardOK(c) /\ SaidOK(c)
    BY DEF CrdtInv, HeardInv, SaidInv
  <2> QED BY <2>1, <2>2, <2>3, <2>4 DEF HeardOK, SaidOK
<1> QED BY <1>1, CrdtSafe, PTL
=============================================================================
