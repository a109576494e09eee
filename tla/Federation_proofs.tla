------------------------- MODULE Federation_proofs --------------------------
(***************************************************************************)
(* What two federated nodes do with each other's actions: the CONN         *)
(* handshake, for any scenarios of modes, acts, restarts and lost answers, *)
(* and the verification of tokens, for any keys, tokens, rotations and     *)
(* outages.                                                                *)
(***************************************************************************)
EXTENDS HandshakeProperties, TokenVerification, FiniteSetTheorems, SequenceTheorems,
        TLAPS

(***************************************************************************)
(* The handshake: a node never has two live actions of its own under one   *)
(* key.                                                                    *)
(***************************************************************************)

(* Rows and tasks.  The first part of a token names the node that signed.  *)
TokensOf(n) == {n} \X Nat
Signed == UNION {TokensOf(n) : n \in Nodes}

Subs == {"REQ", "ACC", "DEL"}
Statuses == {"P", "V", "C", "A", "D", "N"}
Relations == {"no", "requested", "yes"}

Rows == [issuer : Nodes, key : Nodes, sub : Subs, tok : {NoToken} \cup Signed,
         st : Statuses]
Tasks == [kind : {"create", "deliver", "verify"}, row : Nat, sub : Subs,
          tok : {NoToken} \cup Signed,
          pc : {"start", "hook", "write", "send", "mark", "respond", "connect", "rest"},
          noted : {""} \cup Statuses \cup Relations]

(* A row of n's table is its own, under its own key, and signed by it or   *)
(* not yet signed; or it is the peer's, and signed by the peer.            *)
RowSound(n, row) ==
    IF row.issuer = n THEN row.key = n /\ row.tok \in {NoToken} \cup TokensOf(n)
                      ELSE row.tok \in TokensOf(Peer(n))

LiveOwn(n, row) == row.issuer = n /\ Sealed(row) /\ row.st # "D"

TableSound(n, rows) ==
    /\ rows \in Seq(Rows)
    /\ \A i \in DOMAIN rows : RowSound(n, rows[i])
    /\ \A i, j \in DOMAIN rows : LiveOwn(n, rows[i]) /\ LiveOwn(n, rows[j]) => i = j

(* A creator task has a row of its node, a delivery carries a token of its *)
(* node and a verification one of the peer.                                *)
TaskSound(n, rows, t) ==
    /\ t \in Tasks
    /\ t.kind = "create" =>
         /\ t.row \in DOMAIN rows /\ rows[t.row].issuer = n
         /\ t.pc # "start" => t.tok \in TokensOf(n)
    /\ t.kind = "deliver" => t.tok \in TokensOf(n)
    /\ t.kind = "verify" =>
         /\ t.tok \in TokensOf(Peer(n))
         /\ t.pc = "rest" => t.noted \in Statuses

NodeSound(n, rows, tasks) ==
    TableSound(n, rows) /\ \A t \in tasks : TaskSound(n, rows, t)

Profiles == [Nodes -> [connected : Relations, following : BOOLEAN, follower : BOOLEAN]]

OwnInv ==
    /\ signedBy \in [Nodes -> Nat]
    /\ DOMAIN actionsOf = Nodes /\ DOMAIN tasksOf = Nodes
    /\ profileOf \in Profiles
    /\ \A n \in Nodes : NodeSound(n, actionsOf[n], tasksOf[n])

-----------------------------------------------------------------------------
(* There are two nodes, each the other's peer.                             *)
LEMMA PeerOfPeer ==
    ASSUME NEW n \in Nodes
    PROVE  Peer(n) \in Nodes /\ Peer(n) # n /\ Peer(Peer(n)) = n
<1>1. IsFiniteSet(Nodes \ {n}) /\ Cardinality(Nodes \ {n}) = 1
  BY NodesAssumption, FS_RemoveElement
<1>2. PICK p : Nodes \ {n} = {p}
  BY <1>1, FS_Singleton
<1>3. p \in Nodes /\ p # n /\ \A q \in Nodes : q \in {n, p}
  BY <1>2
<1>4. Peer(n) = p
  BY <1>3 DEF Peer
<1>5. Peer(p) = n
  BY <1>3 DEF Peer
<1> QED BY <1>3, <1>4, <1>5

(* Rows are added, and keep their issuer.                                  *)
Grows(rows, more) ==
    /\ DOMAIN rows \subseteq DOMAIN more
    /\ \A i \in DOMAIN rows : more[i].issuer = rows[i].issuer

(* The statements of the table keep it sound.                              *)
LEMMA CreatePendingSound ==
    ASSUME NEW n \in Nodes, NEW rows, TableSound(n, rows), NEW row \in Rows,
           row.issuer = n, row.key = n, row.tok = NoToken
    PROVE  LET more == CreatePending(rows, row)
           IN  /\ TableSound(n, more) /\ Grows(rows, more)
               /\ Len(rows) + 1 \in DOMAIN more /\ more[Len(rows) + 1].issuer = n
<1> DEFINE more == CreatePending(rows, row)
<1>1. /\ more \in Seq(Rows) /\ Len(rows) \in Nat
      /\ DOMAIN rows = 1..Len(rows) /\ DOMAIN more = 1..(Len(rows) + 1)
      /\ \A i \in DOMAIN rows : more[i] = rows[i]
      /\ more[Len(rows) + 1] = row
  BY DEF CreatePending, TableSound
<1>2. \A i \in DOMAIN more : i \in DOMAIN rows \/ i = Len(rows) + 1
  BY <1>1
<1>3. \A i \in DOMAIN more : RowSound(n, more[i])
  BY <1>1, <1>2 DEF TableSound, RowSound
<1>4. ~LiveOwn(n, row)
  BY DEF LiveOwn, Sealed
<1>5. \A i, j \in DOMAIN more : LiveOwn(n, more[i]) /\ LiveOwn(n, more[j]) => i = j
  BY <1>1, <1>2, <1>4 DEF TableSound
<1> HIDE DEF more
<1> QED BY <1>1, <1>3, <1>5 DEF TableSound, Grows, more

(* A token has one signer, and is not an absent one.                       *)
LEMMA TokenParts ==
    ASSUME NEW m, NEW tok \in TokensOf(m)
    PROVE  tok[1] = m /\ tok # NoToken
<1>1. PICK k \in Nat : tok = <<m, k>>
  BY DEF TokensOf
<1>2. Len(tok) = 2 /\ Len(NoToken) = 0
  BY <1>1 DEF NoToken
<1> QED BY <1>1, <1>2

(* A statement that changes no row but for its status, and makes no action *)
(* of the node's own live.                                                 *)
(* The statuses the statements write, as names.                            *)
Dead == "D"
Live == "A"

Restates(n, row, new) ==
    \E st \in Statuses :
      new = [row EXCEPT !.st = st] /\ (row.issuer = n => st \in {row.st, "D"})

(* What an update of a row's fields leaves.                                *)
LEMMA RowUpdated ==
    ASSUME NEW row \in Rows, NEW st \in Statuses, NEW new, new = [row EXCEPT !.st = st]
    PROVE  /\ new \in Rows /\ new.issuer = row.issuer /\ new.key = row.key
           /\ new.tok = row.tok /\ new.st = st
  BY DEF Rows

(* A change of status alone, which makes no own action live.               *)
LEMMA RestatesTo ==
    ASSUME NEW n, NEW row, NEW st \in Statuses, row.issuer = n => st \in {row.st, "D"}
    PROVE  Restates(n, row, [row EXCEPT !.st = st])
  BY DEF Restates

(* A statement that only restates rows keeps the table sound.              *)
LEMMA RestatusSound ==
    ASSUME NEW n \in Nodes, NEW rows, TableSound(n, rows), NEW more,
           DOMAIN more = DOMAIN rows, more = [i \in DOMAIN rows |-> more[i]],
           \A i \in DOMAIN rows : Restates(n, rows[i], more[i])
    PROVE  TableSound(n, more) /\ Grows(rows, more)
<1>1. /\ Len(rows) \in Nat /\ DOMAIN rows = 1..Len(rows)
      /\ \A i \in DOMAIN rows : rows[i] \in Rows
  BY DEF TableSound
<1>2. ASSUME NEW i \in DOMAIN rows
      PROVE  /\ more[i] \in Rows /\ more[i].issuer = rows[i].issuer
             /\ more[i].key = rows[i].key /\ more[i].tok = rows[i].tok
             /\ LiveOwn(n, more[i]) => LiveOwn(n, rows[i])
  BY <1>1 DEF Restates, Rows, LiveOwn, Sealed
<1>3. more \in Seq(Rows)
  <2>1. more \in [1..Len(rows) -> Rows]
    BY <1>1, <1>2
  <2> QED BY <1>1, <2>1
<1>4. \A i \in DOMAIN more : RowSound(n, more[i])
  BY <1>2 DEF TableSound, RowSound
<1>5. \A i, j \in DOMAIN more : LiveOwn(n, more[i]) /\ LiveOwn(n, more[j]) => i = j
  BY <1>2 DEF TableSound
<1> QED BY <1>2, <1>3, <1>4, <1>5 DEF TableSound, Grows

(* The status of a received action touches none of the node's own.         *)
LEMMA SetStatusSound ==
    ASSUME NEW n \in Nodes, NEW rows, TableSound(n, rows),
           NEW tok \in TokensOf(Peer(n)), NEW st \in Statuses
    PROVE  /\ TableSound(n, SetStatus(rows, tok, st))
           /\ Grows(rows, SetStatus(rows, tok, st))
<1> DEFINE more == SetStatus(rows, tok, st)
<1>1. \A i \in DOMAIN rows : rows[i] \in Rows
  BY DEF TableSound
<1>2. ASSUME NEW i \in DOMAIN rows, rows[i].issuer = n PROVE rows[i].tok # tok
  <2>1. rows[i].tok \in {NoToken} \cup TokensOf(n)
    BY <1>2 DEF TableSound, RowSound
  <2>2. Peer(n) # n
    BY PeerOfPeer
  <2> QED BY <2>1, <2>2, TokenParts
<1>3. ASSUME NEW i \in DOMAIN rows PROVE Restates(n, rows[i], more[i])
  <2>1. CASE rows[i].tok = tok
    BY <1>2, <2>1 DEF SetStatus, Restates
  <2>2. CASE rows[i].tok # tok
    <3>1. more[i] = [rows[i] EXCEPT !.st = rows[i].st] /\ rows[i].st \in Statuses
      BY <1>1, <2>2 DEF SetStatus, Rows
    <3> QED BY <3>1 DEF Restates
  <2> QED BY <2>1, <2>2
<1>4. DOMAIN more = DOMAIN rows /\ more = [i \in DOMAIN rows |-> more[i]]
  BY DEF SetStatus
<1> HIDE DEF more
<1>5. TableSound(n, more) /\ Grows(rows, more)
  BY <1>3, <1>4, RestatusSound
<1> QED BY <1>5 DEF more

(* Superseding makes nothing live.                                         *)
LEMMA SupersedeSound ==
    ASSUME NEW n \in Nodes, NEW rows, TableSound(n, rows), NEW key, NEW kept
    PROVE  /\ TableSound(n, Supersede(rows, key, kept))
           /\ Grows(rows, Supersede(rows, key, kept))
<1> DEFINE more == Supersede(rows, key, kept)
<1>1. \A i \in DOMAIN rows : rows[i] \in Rows
  BY DEF TableSound
<1>2. ASSUME NEW i \in DOMAIN rows PROVE Restates(n, rows[i], more[i])
  <2>1. CASE rows[i].key = key /\ i # kept
    <3>1. more[i] = [rows[i] EXCEPT !.st = Dead]
      BY <2>1 DEF Supersede, Dead
    <3>2. Dead \in Statuses /\ Dead \in {rows[i].st, "D"}
      BY DEF Dead, Statuses
    <3> HIDE DEF more
    <3> QED BY <3>1, <3>2, RestatesTo
  <2>2. CASE ~(rows[i].key = key /\ i # kept)
    <3>1. more[i] = [rows[i] EXCEPT !.st = rows[i].st] /\ rows[i].st \in Statuses
      BY <1>1, <2>2 DEF Supersede, Rows
    <3> QED BY <3>1 DEF Restates
  <2> QED BY <2>1, <2>2
<1>3. DOMAIN more = DOMAIN rows /\ more = [i \in DOMAIN rows |-> more[i]]
  BY DEF Supersede
<1> HIDE DEF more
<1>4. TableSound(n, more) /\ Grows(rows, more)
  BY <1>2, <1>3, RestatusSound
<1> QED BY <1>4 DEF more

(* What comes in is the peer's, so no own action becomes live.             *)
LEMMA CreateInboundSound ==
    ASSUME NEW n \in Nodes, NEW rows, TableSound(n, rows), NEW row \in Rows,
           row.issuer = Peer(n), row.tok \in TokensOf(Peer(n))
    PROVE  /\ TableSound(n, CreateInbound(rows, row))
           /\ Grows(rows, CreateInbound(rows, row))
<1>1. CASE Find(rows, row.tok) # {}
  BY <1>1 DEF CreateInbound, Grows
<1>2. CASE Find(rows, row.tok) = {}
  <2> DEFINE older == Supersede(rows, row.key, 0)
             more == Append(older, row)
  <2>1. TableSound(n, older) /\ Grows(rows, older)
    BY SupersedeSound
  <2> HIDE DEF older
  <2>2. /\ more \in Seq(Rows) /\ Len(older) \in Nat
        /\ DOMAIN older = 1..Len(older) /\ DOMAIN more = 1..(Len(older) + 1)
        /\ \A i \in DOMAIN older : more[i] = older[i]
        /\ more[Len(older) + 1] = row
    BY <2>1 DEF TableSound
  <2>3. \A i \in DOMAIN more : i \in DOMAIN older \/ i = Len(older) + 1
    BY <2>2
  <2>4. row.issuer # n
    BY PeerOfPeer
  <2>5. \A i \in DOMAIN more : RowSound(n, more[i])
    BY <2>1, <2>2, <2>3, <2>4 DEF TableSound, RowSound
  <2>6. \A i, j \in DOMAIN more : LiveOwn(n, more[i]) /\ LiveOwn(n, more[j]) => i = j
    BY <2>1, <2>2, <2>3, <2>4 DEF TableSound, LiveOwn
  <2> HIDE DEF more
  <2>7. TableSound(n, more) /\ Grows(rows, more)
    BY <2>1, <2>2, <2>5, <2>6 DEF TableSound, Grows
  <2> QED BY <1>2, <2>7 DEF CreateInbound, more, older
<1> QED BY <1>1, <1>2

(* Finalizing seals one row and supersedes the others of its key, which    *)
(* are all that the node has of its own.                                   *)
LEMMA FinalizeSound ==
    ASSUME NEW n \in Nodes, NEW rows, TableSound(n, rows), NEW i \in DOMAIN rows,
           rows[i].issuer = n, NEW tok \in TokensOf(n)
    PROVE  TableSound(n, Finalize(rows, i, tok)) /\ Grows(rows, Finalize(rows, i, tok))
<1> DEFINE more == Finalize(rows, i, tok)
<1>1. /\ Len(rows) \in Nat /\ DOMAIN rows = 1..Len(rows)
      /\ \A j \in DOMAIN rows : rows[j] \in Rows
      /\ rows[i].key = n
  BY DEF TableSound, RowSound
<1>2. tok \in Signed
  BY DEF Signed
<1>3. DOMAIN more = DOMAIN rows
  BY <1>1 DEF Finalize, Supersede, TableSound
<1>4. more[i] = [rows[i] EXCEPT !.tok = tok, !.st = Live]
  BY <1>1 DEF Finalize, Supersede, Rows, Live
<1>5. ASSUME NEW j \in DOMAIN rows, j # i
      PROVE  more[j] = IF rows[j].key = n THEN [rows[j] EXCEPT !.st = "D"] ELSE rows[j]
  BY <1>1, <1>5 DEF Finalize, Supersede, Rows
<1>6. more = [j \in DOMAIN rows |-> more[j]]
  BY <1>3 DEF Finalize, Supersede
<1> HIDE DEF more
<1>7. more[i] \in Rows /\ more[i].issuer = n /\ RowSound(n, more[i])
  <2>1. rows[i] \in Rows
    BY <1>1
  <2>2. /\ more[i] \in Rows /\ more[i].issuer = n /\ more[i].key = n
        /\ more[i].tok = tok
    <3>1. Live \in Statuses
      BY DEF Live, Statuses
    <3> DEFINE row == rows[i]
               new == more[i]
    <3>2. row \in Rows /\ tok \in Signed /\ new = [row EXCEPT !.tok = tok, !.st = Live]
      BY <1>2, <1>4, <2>1
    <3> HIDE DEF row, new
    <3>3. new \in Rows /\ new.issuer = row.issuer /\ new.key = row.key /\ new.tok = tok
      BY <3>1, <3>2 DEF Rows
    <3>4. rows[i].key = n /\ rows[i].issuer = n
      BY <1>1
    <3> QED BY <3>3, <3>4 DEF row, new
  <2> QED BY <2>2 DEF RowSound
<1>8. ASSUME NEW j \in DOMAIN rows, j # i
      PROVE  /\ more[j] \in Rows /\ more[j].issuer = rows[j].issuer
             /\ RowSound(n, more[j]) /\ ~LiveOwn(n, more[j])
  <2>1. rows[j] \in Rows /\ RowSound(n, rows[j])
    BY <1>1 DEF TableSound
  <2>2. CASE rows[j].key = n
    <3>1. more[j] = [rows[j] EXCEPT !.st = Dead]
      BY <1>5, <1>8, <2>2 DEF Dead
    <3>2. /\ more[j] \in Rows /\ more[j].issuer = rows[j].issuer
          /\ more[j].key = rows[j].key /\ more[j].tok = rows[j].tok /\ more[j].st = "D"
      <4>1. Dead \in Statuses /\ Dead = "D"
        BY DEF Dead, Statuses
      <4> QED BY <2>1, <3>1, <4>1, RowUpdated
    <3> QED BY <2>1, <3>2 DEF RowSound, LiveOwn
  <2>3. CASE rows[j].key # n
    BY <1>5, <1>8, <2>1, <2>3 DEF Rows, RowSound, LiveOwn
  <2> QED BY <2>2, <2>3
<1>9. more \in Seq(Rows)
  <2>1. more \in [1..Len(rows) -> Rows]
    BY <1>1, <1>7, <1>8, <1>6
  <2> QED BY <1>1, <2>1
<1>10. TableSound(n, more) /\ Grows(rows, more)
  BY <1>3, <1>7, <1>8, <1>9 DEF TableSound, Grows
<1> QED BY <1>10 DEF more

-----------------------------------------------------------------------------
(* How a step of a node keeps the invariant: with its table and tasks, or  *)
(* with its tasks alone.                                                   *)
LEMMA TaskGrown ==
    ASSUME NEW n \in Nodes, NEW rows, NEW more, Grows(rows, more),
           NEW t, TaskSound(n, rows, t)
    PROVE  TaskSound(n, more, t)
  BY DEF TaskSound, Grows

(* A step of n that writes its table and its tasks.                        *)
LEMMA NodeStep ==
    ASSUME OwnInv, NEW n \in Nodes, NEW more, NEW tasks,
           actionsOf' = [actionsOf EXCEPT ![n] = more],
           tasksOf' = [tasksOf EXCEPT ![n] = tasks],
           TableSound(n, more), Grows(actionsOf[n], more),
           \A t \in tasks : t \in tasksOf[n] \/ TaskSound(n, more, t),
           signedBy' \in [Nodes -> Nat], profileOf' \in Profiles
    PROVE  OwnInv'
<1>1. \A t \in tasks : TaskSound(n, more, t)
  BY TaskGrown DEF OwnInv, NodeSound
<1>2. ASSUME NEW m \in Nodes PROVE NodeSound(m, actionsOf'[m], tasksOf'[m])
  BY <1>1 DEF OwnInv, NodeSound
<1> QED BY <1>2 DEF OwnInv

(* A step of n that leaves its table alone.                                *)
LEMMA TasksStep ==
    ASSUME OwnInv, NEW n \in Nodes, NEW tasks, UNCHANGED actionsOf,
           tasksOf' = [tasksOf EXCEPT ![n] = tasks],
           \A t \in tasks : t \in tasksOf[n] \/ TaskSound(n, actionsOf[n], t),
           signedBy' \in [Nodes -> Nat], profileOf' \in Profiles
    PROVE  OwnInv'
<1>1. ASSUME NEW m \in Nodes PROVE NodeSound(m, actionsOf'[m], tasksOf'[m])
  BY DEF OwnInv, NodeSound
<1> QED BY <1>1 DEF OwnInv

(* A task that goes on without writing the table.                          *)
LEMMA TaskGoes ==
    ASSUME OwnInv, NEW n \in Nodes, NEW t \in tasksOf[n], NEW u, Goes(n, t, u),
           UNCHANGED actionsOf, TaskSound(n, actionsOf[n], u),
           signedBy' \in [Nodes -> Nat], profileOf' \in Profiles
    PROVE  OwnInv'
<1> DEFINE tasks == (tasksOf[n] \ {t}) \cup {u}
<1>1. tasksOf' = [tasksOf EXCEPT ![n] = tasks]
  BY DEF Goes
<1>2. \A v \in tasks : v \in tasksOf[n] \/ TaskSound(n, actionsOf[n], v)
  OBVIOUS
<1> HIDE DEF tasks
<1> QED BY <1>1, <1>2, TasksStep

(* A task that ends without writing the table.                             *)
LEMMA TaskEnds ==
    ASSUME OwnInv, NEW n \in Nodes, NEW t \in tasksOf[n], Ends(n, t),
           UNCHANGED actionsOf, signedBy' \in [Nodes -> Nat], profileOf' \in Profiles
    PROVE  OwnInv'
<1> DEFINE tasks == tasksOf[n] \ {t}
<1>1. tasksOf' = [tasksOf EXCEPT ![n] = tasks]
  BY DEF Ends
<1>2. \A v \in tasks : v \in tasksOf[n]
  OBVIOUS
<1> HIDE DEF tasks
<1> QED BY <1>1, <1>2, TasksStep

(* A pending row and its creator task.                                     *)
LEMMA CreatesSound ==
    ASSUME OwnInv, NEW n \in Nodes, NEW sub \in Subs, NEW rest,
           \A t \in rest : t \in tasksOf[n] \/ TaskSound(n, actionsOf[n], t),
           Creates(n, sub, rest), UNCHANGED <<signedBy, profileOf>>
    PROVE  OwnInv'
<1> DEFINE rows == actionsOf[n]
           row == [issuer |-> n, key |-> KeyOf(n), sub |-> sub, tok |-> NoToken,
                   st |-> "P"]
           more == CreatePending(rows, row)
           task == CreatorTask(Len(rows) + 1, sub)
           tasks == rest \cup {task}
<1>1. TableSound(n, rows)
  BY DEF OwnInv, NodeSound
<1>2. row \in Rows /\ row.issuer = n /\ row.key = n /\ row.tok = NoToken
  BY DEF Rows, KeyOf, Statuses
<1>3. actionsOf' = [actionsOf EXCEPT ![n] = more]
  BY DEF Creates
<1>4. tasksOf' = [tasksOf EXCEPT ![n] = tasks]
  BY DEF Creates
<1> HIDE DEF row
<1>5. /\ TableSound(n, more) /\ Grows(rows, more)
      /\ Len(rows) + 1 \in DOMAIN more /\ more[Len(rows) + 1].issuer = n
  BY <1>1, <1>2, CreatePendingSound
<1>6. Len(rows) + 1 \in Nat
  BY <1>1 DEF TableSound
<1> HIDE DEF rows, more
<1>7. TaskSound(n, more, task)
  BY <1>5, <1>6 DEF TaskSound, Tasks, CreatorTask
<1> HIDE DEF task
<1>8. \A t \in tasks : t \in tasksOf[n] \/ TaskSound(n, more, t)
  BY <1>5, <1>7, TaskGrown DEF rows
<1>9. signedBy' \in [Nodes -> Nat] /\ profileOf' \in Profiles
  BY DEF OwnInv
<1> HIDE DEF tasks
<1> QED BY <1>3, <1>4, <1>5, <1>8, <1>9, NodeStep DEF rows

-----------------------------------------------------------------------------
(* The acts of the user and the restart.                                   *)
LEMMA UserStep ==
    ASSUME OwnInv, NEW n \in Nodes,
           \/ AsksConnection(n) \/ Disconnects(n) \/ AcceptsRequest(n)
           \/ RejectsRequest(n) \/ RestartsNode(n)
    PROVE  OwnInv'
<1> USE DEF OwnInv
<1>0. /\ TableSound(n, actionsOf[n]) /\ n \in DOMAIN actionsOf /\ n \in DOMAIN tasksOf
      /\ \A t \in tasksOf[n] : TaskSound(n, actionsOf[n], t)
  BY DEF NodeSound
<1>1. CASE AsksConnection(n)
  BY <1>1, CreatesSound DEF AsksConnection, Subs
<1>2. CASE Disconnects(n)
  BY <1>2, CreatesSound DEF Disconnects, Subs
<1>3. CASE AcceptsRequest(n)
  <2> DEFINE rows == actionsOf[n]
             row == [issuer |-> n, key |-> KeyOf(n), sub |-> "ACC", tok |-> NoToken,
                     st |-> "P"]
             mid == CreatePending(rows, row)
             task == CreatorTask(Len(rows) + 1, "ACC")
             tasks == tasksOf[n] \cup {task}
  <2>1. PICK i \in Answerable(n) :
          /\ actionsOf' = [actionsOf EXCEPT ![n] = SetStatus(mid, rows[i].tok, "A")]
          /\ tasksOf' = [tasksOf EXCEPT ![n] = tasks]
          /\ UNCHANGED <<profileOf, signedBy>>
    BY <1>0, <1>3 DEF AcceptsRequest
  <2>2. rows[i].tok \in TokensOf(Peer(n))
    BY <1>0 DEF Answerable, TableSound, RowSound
  <2>3. row \in Rows /\ row.issuer = n /\ row.key = n /\ row.tok = NoToken
    BY DEF Rows, KeyOf, Statuses, Subs
  <2>4. "A" \in Statuses
    BY DEF Statuses
  <2> DEFINE more == SetStatus(mid, rows[i].tok, "A")
  <2> HIDE DEF row
  <2>5. /\ TableSound(n, mid) /\ Grows(rows, mid)
        /\ Len(rows) + 1 \in DOMAIN mid /\ mid[Len(rows) + 1].issuer = n
    BY <1>0, <2>3, CreatePendingSound
  <2>6. Len(rows) + 1 \in Nat
    BY <1>0 DEF TableSound
  <2> HIDE DEF rows, mid
  <2>7. TableSound(n, more) /\ Grows(mid, more)
    BY <2>2, <2>4, <2>5, SetStatusSound
  <2> HIDE DEF more
  <2>8. /\ Grows(rows, more)
        /\ Len(rows) + 1 \in DOMAIN more /\ more[Len(rows) + 1].issuer = n
    BY <2>5, <2>7 DEF Grows
  <2>9. TaskSound(n, more, task)
    BY <2>6, <2>8 DEF TaskSound, Tasks, CreatorTask, Subs
  <2> HIDE DEF task
  <2>10. \A t \in tasks : t \in tasksOf[n] \/ TaskSound(n, more, t)
    BY <2>9
  <2>11. signedBy' \in [Nodes -> Nat] /\ profileOf' \in Profiles
    BY <2>1
  <2>12. actionsOf' = [actionsOf EXCEPT ![n] = more]
    BY <2>1 DEF more
  <2>13. Grows(actionsOf[n], more)
    BY <2>8 DEF rows
  <2> HIDE DEF tasks
  <2> QED BY <2>1, <2>7, <2>10, <2>11, <2>12, <2>13, NodeStep
<1>4. CASE RejectsRequest(n)
  <2>1. PICK i \in Answerable(n) :
          /\ actionsOf' = [actionsOf EXCEPT ![n] = SetStatus(@, @[i].tok, "D")]
          /\ profileOf' = [profileOf EXCEPT ![n].connected = "no",
                                            ![n].following = FALSE]
          /\ UNCHANGED <<tasksOf, signedBy>>
    BY <1>4 DEF RejectsRequest
  <2>2. actionsOf[n][i].tok \in TokensOf(Peer(n))
    BY <1>0 DEF Answerable, TableSound, RowSound
  <2>3. "D" \in Statuses
    BY DEF Statuses
  <2> DEFINE more == SetStatus(actionsOf[n], actionsOf[n][i].tok, "D")
  <2>4. TableSound(n, more) /\ Grows(actionsOf[n], more)
    BY <1>0, <2>2, <2>3, SetStatusSound
  <2>5. actionsOf' = [actionsOf EXCEPT ![n] = more]
    BY <1>0, <2>1
  <2>6. profileOf' \in Profiles
    BY <2>1 DEF Profiles, Relations
  <2> HIDE DEF more
  <2>7. ASSUME NEW m \in Nodes PROVE NodeSound(m, actionsOf'[m], tasksOf'[m])
    BY <2>1, <2>4, <2>5, TaskGrown DEF NodeSound
  <2> QED BY <2>1, <2>5, <2>6, <2>7
<1>5. CASE RestartsNode(n)
  <2> DEFINE tasks == {Reloaded(t) : t \in tasksOf[n]}
  <2>1. /\ tasksOf' = [tasksOf EXCEPT ![n] = tasks]
        /\ UNCHANGED <<actionsOf, profileOf, signedBy>>
    BY <1>0, <1>5 DEF RestartsNode
  <2>2. ASSUME NEW t \in tasksOf[n] PROVE TaskSound(n, actionsOf[n], Reloaded(t))
    <3>1. TaskSound(n, actionsOf[n], t)
      BY <1>0
    <3> QED BY <3>1 DEF TaskSound, Tasks, Reloaded
  <2>3. \A u \in tasks : TaskSound(n, actionsOf[n], u)
    BY <2>2
  <2> HIDE DEF tasks
  <2> QED BY <2>1, <2>3, TasksStep
<1> QED BY <1>1, <1>2, <1>3, <1>4, <1>5

(* The steps of a creator task and of a delivery.                          *)
LEMMA CreatorStep ==
    ASSUME OwnInv, NEW n \in Nodes, NEW t \in tasksOf[n],
           \/ Finalizes(n, t) \/ LooksBeforeRequest(n, t) \/ RecordsRequest(n, t)
           \/ RecordsAcceptance(n, t) \/ RecordsDisconnect(n, t)
           \/ SchedulesDelivery(n, t)
    PROVE  OwnInv'
<1>0. /\ TableSound(n, actionsOf[n]) /\ TaskSound(n, actionsOf[n], t)
      /\ n \in DOMAIN actionsOf /\ n \in DOMAIN tasksOf
      /\ signedBy \in [Nodes -> Nat] /\ profileOf \in Profiles
  BY DEF OwnInv, NodeSound
<1>1. CASE Finalizes(n, t)
  <2> DEFINE tok == <<n, signedBy[n] + 1>>
             more == Finalize(actionsOf[n], t.row, tok)
             task == [t EXCEPT !.tok = tok, !.pc = "hook"]
  <2>1. signedBy' \in [Nodes -> Nat] /\ profileOf' \in Profiles
    BY <1>0, <1>1 DEF Finalizes
  <2>2. CASE Finalizable(actionsOf[n], t.row)
    <3>1. tok \in TokensOf(n)
      BY <1>0 DEF TokensOf
    <3>2. /\ actionsOf' = [actionsOf EXCEPT ![n] = more]
          /\ Goes(n, t, task) /\ t.kind = "create"
      BY <1>0, <1>1, <2>2 DEF Finalizes
    <3>3. t.row \in DOMAIN actionsOf[n] /\ actionsOf[n][t.row].issuer = n
      BY <1>0, <3>2 DEF TaskSound
    <3> HIDE DEF tok
    <3>4. TableSound(n, more) /\ Grows(actionsOf[n], more)
      BY <1>0, <3>1, <3>3, FinalizeSound
    <3> HIDE DEF more
    <3>5. TaskSound(n, actionsOf[n], task)
      <4>1. tok \in Signed
        BY <3>1 DEF Signed
      <4> QED BY <1>0, <3>1, <3>2, <4>1 DEF TaskSound, Tasks
    <3> HIDE DEF task
    <3> DEFINE tasks == (tasksOf[n] \ {t}) \cup {task}
    <3>6. tasksOf' = [tasksOf EXCEPT ![n] = tasks]
      BY <3>2 DEF Goes
    <3>7. TaskSound(n, more, task)
      BY <3>4, <3>5, TaskGrown
    <3>8. \A u \in tasks : u \in tasksOf[n] \/ TaskSound(n, more, u)
      BY <3>7
    <3> HIDE DEF tasks
    <3> QED BY <2>1, <3>2, <3>4, <3>6, <3>8, NodeStep
  <2>3. CASE ~Finalizable(actionsOf[n], t.row)
    BY <1>1, <2>1, <2>3, TaskEnds DEF Finalizes
  <2> QED BY <2>2, <2>3
<1>2. CASE LooksBeforeRequest(n, t)
  <2>1. TaskSound(n, actionsOf[n],
                  [t EXCEPT !.pc = "write", !.noted = profileOf[n].connected])
    <3>1. profileOf[n].connected \in Relations
      BY <1>0 DEF Profiles
    <3> QED BY <1>0, <1>2, <3>1 DEF LooksBeforeRequest, TaskSound, Tasks
  <2> QED BY <1>0, <1>2, <2>1, TaskGoes DEF LooksBeforeRequest
<1>3. CASE RecordsRequest(n, t)
  <2>1. TaskSound(n, actionsOf[n], [t EXCEPT !.pc = "send", !.noted = ""])
    BY <1>0, <1>3 DEF RecordsRequest, TaskSound, Tasks
  <2>2. profileOf' \in Profiles
    BY <1>0, <1>3 DEF RecordsRequest, Profiles, Relations
  <2> QED BY <1>0, <1>3, <2>1, <2>2, TaskGoes DEF RecordsRequest
<1>4. CASE RecordsAcceptance(n, t)
  <2>1. TaskSound(n, actionsOf[n], [t EXCEPT !.pc = "send"])
    BY <1>0, <1>4 DEF RecordsAcceptance, TaskSound, Tasks
  <2>2. profileOf' \in Profiles
    BY <1>0, <1>4 DEF RecordsAcceptance, Profiles, Relations, Connected
  <2> QED BY <1>0, <1>4, <2>1, <2>2, TaskGoes DEF RecordsAcceptance
<1>5. CASE RecordsDisconnect(n, t)
  <2>1. TaskSound(n, actionsOf[n], [t EXCEPT !.pc = "send"])
    BY <1>0, <1>5 DEF RecordsDisconnect, TaskSound, Tasks
  <2>2. profileOf' \in Profiles
    BY <1>0, <1>5 DEF RecordsDisconnect, Profiles, Relations
  <2> QED BY <1>0, <1>5, <2>1, <2>2, TaskGoes DEF RecordsDisconnect
<1>6. CASE SchedulesDelivery(n, t)
  <2>1. TaskSound(n, actionsOf[n], DeliveryTask(t.tok, t.sub))
    BY <1>0, <1>6 DEF SchedulesDelivery, TaskSound, Tasks, DeliveryTask
  <2> QED BY <1>0, <1>6, <2>1, TaskGoes DEF SchedulesDelivery
<1> QED BY <1>1, <1>2, <1>3, <1>4, <1>5, <1>6

(* A delivery makes a verifier task of n's token at the peer.              *)
LEMMA DeliveryStep ==
    ASSUME OwnInv, NEW n \in Nodes, NEW t \in tasksOf[n],
           Delivers(n, t) \/ DeliversUnheard(n, t)
    PROVE  OwnInv'
<1> DEFINE post == Posted(n, t)
           p == Peer(n)
<1>0. /\ p \in Nodes /\ p # n /\ Peer(p) = n
      /\ TaskSound(n, actionsOf[n], t) /\ t.kind = "deliver"
      /\ DOMAIN tasksOf = Nodes
  BY PeerOfPeer DEF OwnInv, NodeSound, Delivers, DeliversUnheard
<1>1. TaskSound(p, actionsOf[p], post)
  BY <1>0 DEF TaskSound, Tasks, Posted, VerifierTask
<1>2. /\ UNCHANGED <<actionsOf, profileOf, signedBy>> /\ DOMAIN tasksOf' = Nodes
      /\ \A m \in Nodes : \A u \in tasksOf'[m] :
           u \in tasksOf[m] \/ (m = p /\ u = post)
  <2> HIDE DEF post
  <2>1. CASE Delivers(n, t)
    BY <1>0, <2>1 DEF Delivers, post
  <2>2. CASE DeliversUnheard(n, t)
    BY <1>0, <2>2 DEF DeliversUnheard, post
  <2> QED BY <2>1, <2>2
<1> HIDE DEF post, p
<1>3. ASSUME NEW m \in Nodes PROVE NodeSound(m, actionsOf'[m], tasksOf'[m])
  BY <1>1, <1>2 DEF OwnInv, NodeSound
<1> QED BY <1>2, <1>3 DEF OwnInv

(* The steps of a verifier task.                                           *)
LEMMA VerifierStep ==
    ASSUME OwnInv, NEW n \in Nodes, NEW t \in tasksOf[n], scenario.mode[n] \in Modes,
           \/ StoresInbound(n, t) \/ MarksVerifying(n, t) \/ ReceivesRequest(n, t)
           \/ RespondsAcceptance(n, t) \/ ReceivesAcceptance(n, t)
           \/ ConnectsPeer(n, t) \/ ReceivesDisconnect(n, t) \/ Activates(n, t)
    PROVE  OwnInv'
<1> DEFINE rows == actionsOf[n]
<1>0. /\ TableSound(n, rows) /\ TaskSound(n, rows, t) /\ t.kind = "verify"
      /\ n \in DOMAIN actionsOf /\ n \in DOMAIN tasksOf
      /\ signedBy \in [Nodes -> Nat] /\ profileOf \in Profiles
      /\ t.tok \in TokensOf(Peer(n)) /\ Peer(n) \in Nodes /\ t.sub \in Subs
      /\ UNCHANGED signedBy
  BY PeerOfPeer DEF OwnInv, NodeSound, StoresInbound, MarksVerifying, ReceivesRequest,
     RespondsAcceptance, ReceivesAcceptance, ConnectsPeer, ReceivesDisconnect, Activates,
     TaskSound, Tasks
<1>1. ASSUME NEW pc \in {"mark", "hook", "respond", "connect"}
      PROVE  TaskSound(n, rows, [t EXCEPT !.pc = pc])
  BY <1>0 DEF TaskSound, Tasks
<1>2. ASSUME NEW st \in Statuses, RestsAt(n, t, st), UNCHANGED actionsOf,
             profileOf' \in Profiles
      PROVE  OwnInv'
  <2> DEFINE task == [t EXCEPT !.pc = "rest", !.noted = st]
  <2>1. TaskSound(n, rows, task)
    BY <1>0 DEF TaskSound, Tasks
  <2>2. Goes(n, t, task)
    BY <1>2 DEF RestsAt
  <2> HIDE DEF task
  <2> QED BY <1>0, <1>2, <2>1, <2>2, TaskGoes
<1>3. ASSUME NEW more, TableSound(n, more), Grows(rows, more), NEW tasks,
             actionsOf' = [actionsOf EXCEPT ![n] = more],
             tasksOf' = [tasksOf EXCEPT ![n] = tasks],
             \A u \in tasks : u \in tasksOf[n] \/ TaskSound(n, rows, u),
             profileOf' \in Profiles
      PROVE  OwnInv'
  <2>1. \A u \in tasks : u \in tasksOf[n] \/ TaskSound(n, more, u)
    BY <1>3, TaskGrown
  <2> QED BY <1>0, <1>3, <2>1, NodeStep
<1>4. CASE StoresInbound(n, t)
  <2> DEFINE row == [issuer |-> Peer(n), key |-> KeyOf(Peer(n)), sub |-> t.sub,
                     tok |-> t.tok, st |-> "P"]
             more == CreateInbound(rows, row)
             task == [t EXCEPT !.pc = "mark"]
             tasks == (tasksOf[n] \ {t}) \cup {task}
  <2>1. CASE Find(rows, t.tok) = {}
    <3>1. actionsOf' = [actionsOf EXCEPT ![n] = more]
      BY <1>0, <1>4, <2>1 DEF StoresInbound
    <3>2. tasksOf' = [tasksOf EXCEPT ![n] = tasks]
      BY <1>4, <2>1 DEF StoresInbound, Goes
    <3>3. row \in Rows /\ row.issuer = Peer(n) /\ row.tok \in TokensOf(Peer(n))
      BY <1>0 DEF Rows, Statuses, KeyOf, Signed
    <3> HIDE DEF row
    <3>4. TableSound(n, more) /\ Grows(rows, more)
      BY <1>0, <3>3, CreateInboundSound
    <3>5. TaskSound(n, rows, task)
      BY <1>1
    <3> HIDE DEF more, task
    <3>6. \A u \in tasks : u \in tasksOf[n] \/ TaskSound(n, rows, u)
      BY <3>5
    <3>7. profileOf' \in Profiles
      BY <1>0, <1>4 DEF StoresInbound
    <3> HIDE DEF tasks, rows
    <3> QED BY <1>3, <3>1, <3>2, <3>4, <3>6, <3>7
  <2>2. CASE Find(rows, t.tok) # {}
    <3>1. /\ UNCHANGED <<actionsOf, profileOf>>
          /\ Goes(n, t, [t EXCEPT !.pc = "hook"]) \/ Ends(n, t)
      BY <1>4, <2>2 DEF StoresInbound
    <3>2. TaskSound(n, rows, [t EXCEPT !.pc = "hook"])
      BY <1>1
    <3> QED BY <1>0, <3>1, <3>2, TaskGoes, TaskEnds
  <2> QED BY <2>1, <2>2
<1>5. CASE MarksVerifying(n, t)
  <2> DEFINE more == SetStatus(rows, t.tok, "V")
             task == [t EXCEPT !.pc = "hook"]
             tasks == (tasksOf[n] \ {t}) \cup {task}
  <2>1. /\ actionsOf' = [actionsOf EXCEPT ![n] = more]
        /\ tasksOf' = [tasksOf EXCEPT ![n] = tasks] /\ profileOf' \in Profiles
    BY <1>0, <1>5 DEF MarksVerifying, Goes
  <2>2. "V" \in Statuses
    BY DEF Statuses
  <2>3. TableSound(n, more) /\ Grows(rows, more)
    BY <1>0, <2>2, SetStatusSound
  <2>4. TaskSound(n, rows, task)
    BY <1>1
  <2> HIDE DEF more, task
  <2>5. \A u \in tasks : u \in tasksOf[n] \/ TaskSound(n, rows, u)
    BY <2>4
  <2> HIDE DEF tasks, rows
  <2> QED BY <1>3, <2>1, <2>3, <2>5
<1>6. CASE ReceivesRequest(n, t)
  <2> DEFINE follows == [profileOf EXCEPT ![n].follower = TRUE]
  <2>1. /\ UNCHANGED actionsOf
        /\ profileOf' \in {profileOf, follows}
        /\ \/ Goes(n, t, [t EXCEPT !.pc = "connect"])
           \/ Goes(n, t, [t EXCEPT !.pc = "respond"])
           \/ RestsAt(n, t, "D") \/ RestsAt(n, t, "C")
    <3> HIDE DEF follows
    <3>1. scenario.mode[n] \in {"ask", "ignore", "accept"}
      BY DEF Modes
    <3>2. CASE scenario.mode[n] = "ask"
      BY <1>6, <3>2 DEF ReceivesRequest, follows
    <3>3. CASE scenario.mode[n] = "ignore"
      BY <1>6, <3>3 DEF ReceivesRequest
    <3>4. CASE scenario.mode[n] = "accept"
      BY <1>6, <3>4 DEF ReceivesRequest
    <3> QED BY <3>1, <3>2, <3>3, <3>4
  <2>2. profileOf' \in Profiles
    BY <1>0, <2>1 DEF Profiles
  <2>3. "D" \in Statuses /\ "C" \in Statuses
    BY DEF Statuses
  <2>4. /\ TaskSound(n, rows, [t EXCEPT !.pc = "connect"])
        /\ TaskSound(n, rows, [t EXCEPT !.pc = "respond"])
    BY <1>1
  <2> QED BY <1>0, <1>2, <2>1, <2>2, <2>3, <2>4, TaskGoes
<1>7. CASE RespondsAcceptance(n, t)
  <2> DEFINE task == [t EXCEPT !.pc = "connect"]
             rest == (tasksOf[n] \ {t}) \cup {task}
  <2>1. Creates(n, "ACC", rest) /\ UNCHANGED <<signedBy, profileOf>>
    BY <1>7 DEF RespondsAcceptance
  <2>2. TaskSound(n, rows, task)
    BY <1>1
  <2> HIDE DEF task
  <2>3. \A u \in rest : u \in tasksOf[n] \/ TaskSound(n, rows, u)
    BY <2>2
  <2>4. "ACC" \in Subs
    BY DEF Subs
  <2> HIDE DEF rest
  <2> QED BY <2>1, <2>3, <2>4, CreatesSound
<1>8. CASE ReceivesAcceptance(n, t)
  <2>1. /\ UNCHANGED actionsOf /\ profileOf' \in Profiles
        /\ Goes(n, t, [t EXCEPT !.pc = "connect"]) \/ RestsAt(n, t, "D")
    BY <1>0, <1>8 DEF ReceivesAcceptance
  <2>2. "D" \in Statuses /\ TaskSound(n, rows, [t EXCEPT !.pc = "connect"])
    BY <1>1 DEF Statuses
  <2> QED BY <1>0, <1>2, <2>1, <2>2, TaskGoes
<1>9. CASE ConnectsPeer(n, t)
  <2>1. UNCHANGED actionsOf /\ profileOf' \in Profiles /\ RestsAt(n, t, "A")
    BY <1>0, <1>9 DEF ConnectsPeer, Profiles, Relations, Connected
  <2> QED BY <1>2, <2>1 DEF Statuses
<1>10. CASE ReceivesDisconnect(n, t)
  <2>1. UNCHANGED actionsOf /\ profileOf' \in Profiles /\ RestsAt(n, t, "N")
    BY <1>0, <1>10 DEF ReceivesDisconnect, Profiles, Relations
  <2> QED BY <1>2, <2>1 DEF Statuses
<1>11. CASE Activates(n, t)
  <2> DEFINE more == SetStatus(rows, t.tok, t.noted)
             tasks == tasksOf[n] \ {t}
  <2>1. /\ actionsOf' = [actionsOf EXCEPT ![n] = more] /\ profileOf' \in Profiles
        /\ tasksOf' = [tasksOf EXCEPT ![n] = tasks] /\ t.noted \in Statuses
    BY <1>0, <1>11 DEF Activates, Ends, TaskSound
  <2>2. TableSound(n, more) /\ Grows(rows, more)
    BY <1>0, <2>1, SetStatusSound
  <2>3. \A u \in tasks : u \in tasksOf[n]
    OBVIOUS
  <2> HIDE DEF more, tasks, rows
  <2> QED BY <1>3, <2>1, <2>2, <2>3
<1> QED BY <1>4, <1>5, <1>6, <1>7, <1>8, <1>9, <1>10, <1>11

-----------------------------------------------------------------------------
(* Two fresh nodes.                                                        *)
LEMMA OwnInitial == HandshakeInit => OwnInv
<1> SUFFICES ASSUME HandshakeInit PROVE OwnInv
  OBVIOUS
<1>1. ASSUME NEW n \in Nodes PROVE NodeSound(n, actionsOf[n], tasksOf[n])
  BY DEF HandshakeInit, NodeSound, TableSound
<1>2. profileOf \in Profiles
  BY DEF HandshakeInit, Profiles, Relations
<1> QED BY <1>1, <1>2 DEF HandshakeInit, OwnInv

(* Of the actions a node has signed under one key, one at most is live:    *)
(* finalize seals its row and marks the others of the key in one           *)
(* transaction, and whatever comes in is another's.                        *)
THEOREM OneLiveOwnCorrect == HandshakeSpec => []OneLiveOwn
<1> DEFINE Inv == scenario \in Scenarios /\ OwnInv
<1>1. HandshakeInit => Inv
  BY OwnInitial DEF HandshakeInit
<1>2. Inv /\ [HandshakeNext]_hsVars => Inv'
  <2> SUFFICES ASSUME Inv, [HandshakeNext]_hsVars PROVE OwnInv'
    BY DEF HandshakeNext, hsVars
  <2>1. \A n \in Nodes : scenario.mode[n] \in Modes
    BY ScenariosAssumption
  <2>2. ASSUME HandshakeNext PROVE OwnInv'
    BY <2>1, <2>2, UserStep, CreatorStep, DeliveryStep, VerifierStep
       DEF HandshakeNext, RunsTask
  <2>3. CASE UNCHANGED hsVars
    BY <2>3 DEF hsVars, OwnInv, NodeSound
  <2> QED BY <2>2, <2>3
<1>3. Inv => OneLiveOwn
  <2> SUFFICES ASSUME OwnInv, NEW n \in Nodes
               PROVE  Cardinality({i \in DOMAIN actionsOf[n] :
                        LiveOwn(n, actionsOf[n][i])}) <= 1
    BY DEF OneLiveOwn, LiveOwn
  <2> DEFINE live == {i \in DOMAIN actionsOf[n] : LiveOwn(n, actionsOf[n][i])}
  <2>1. \A i, j \in live : i = j
    BY DEF OwnInv, NodeSound, TableSound
  <2> HIDE DEF live
  <2>2. CASE live = {}
    BY <2>2, FS_EmptySet DEF live
  <2>3. CASE live # {}
    <3>1. PICK i : live = {i}
      BY <2>1, <2>3
    <3>2. Cardinality(live) = 1
      BY <3>1, FS_Singleton
    <3> QED BY <3>2 DEF live
  <2> QED BY <2>2, <2>3
<1> QED BY <1>1, <1>2, <1>3, PTL DEF HandshakeSpec

(***************************************************************************)
(* The handshake: a node is connected to a peer it agreed to.              *)
(***************************************************************************)

(* A task that will connect without looking again.                         *)
Grants(t) ==
    \/ t.kind = "verify" /\ t.pc = "connect"
    \/ t.kind = "create" /\ t.pc = "hook" /\ t.sub = "ACC"
Granted(n) == consents[n] \/ lapsed[n]

(* A row has its issuer's key, and an own request or acceptance that is    *)
(* not superseded was asked for.  A creator task has a row of its kind.    *)
Agreed(n, row) ==
    /\ row.key = row.issuer
    /\ row.issuer = n /\ row.sub \in {"REQ", "ACC"} /\ row.st # "D" => consents[n]
ConsentSound(n) ==
    /\ \A i \in DOMAIN actionsOf[n] : Agreed(n, actionsOf[n][i])
    /\ \A t \in tasksOf[n] : t.kind = "create" => actionsOf[n][t.row].sub = t.sub
    /\ \A t \in tasksOf[n] : Grants(t) => Granted(n)
    /\ profileOf[n].connected = "yes" => Granted(n) \/ Disconnecting(n)

ConsentInv ==
    /\ OwnInv /\ scenario \in Scenarios
    /\ consents \in [Nodes -> BOOLEAN] /\ lapsed \in [Nodes -> BOOLEAN]
    /\ \A n \in Nodes : ConsentSound(n)

(* What a statement leaves of the rows: nothing of the node's own returns. *)
KeepsRows(n, rows, more) ==
    /\ DOMAIN rows \subseteq DOMAIN more
    /\ \A i \in DOMAIN rows :
         /\ more[i].key = rows[i].key /\ more[i].issuer = rows[i].issuer
         /\ more[i].sub = rows[i].sub
         /\ rows[i].issuer = n /\ more[i].st # "D" => rows[i].st # "D"
NewRows(n, rows, more) ==
    \A i \in DOMAIN more \ DOMAIN rows :
      more[i].key = more[i].issuer /\ (more[i].issuer = n => more[i].sub = "DEL")

(* Restating a row changes its status alone.                               *)
LEMMA RestatedRow ==
    ASSUME NEW row \in Rows, NEW st, NEW new, new = [row EXCEPT !.st = st]
    PROVE  /\ new.key = row.key /\ new.issuer = row.issuer /\ new.sub = row.sub
           /\ new.st = st /\ new.tok = row.tok
  BY DEF Rows

(* The status of a received action.                                        *)
LEMMA SetStatusKeeps ==
    ASSUME NEW n \in Nodes, NEW rows, TableSound(n, rows),
           NEW tok \in TokensOf(Peer(n)), NEW st
    PROVE  KeepsRows(n, rows, SetStatus(rows, tok, st))
           /\ DOMAIN SetStatus(rows, tok, st) = DOMAIN rows
<1> DEFINE more == SetStatus(rows, tok, st)
<1>1. DOMAIN more = DOMAIN rows
  BY DEF SetStatus
<1>2. ASSUME NEW i \in DOMAIN rows
      PROVE  /\ more[i].key = rows[i].key /\ more[i].issuer = rows[i].issuer
             /\ more[i].sub = rows[i].sub
             /\ rows[i].issuer = n => more[i].st = rows[i].st
  <2>1. rows[i] \in Rows
    BY DEF TableSound
  <2>2. CASE rows[i].tok = tok
    <3>1. more[i] = [rows[i] EXCEPT !.st = st]
      BY <2>2 DEF SetStatus
    <3>2. rows[i].issuer # n
      <4>1. rows[i].issuer = n => rows[i].tok \in {NoToken} \cup TokensOf(n)
        BY DEF TableSound, RowSound
      <4> QED BY <2>2, <4>1, PeerOfPeer, TokenParts
    <3> HIDE DEF more
    <3> QED BY <2>1, <3>1, <3>2, RestatedRow
  <2>3. CASE rows[i].tok # tok
    BY <2>3 DEF SetStatus
  <2> QED BY <2>2, <2>3
<1> HIDE DEF more
<1>3. KeepsRows(n, rows, more)
  BY <1>1, <1>2 DEF KeepsRows
<1> QED BY <1>1, <1>3 DEF more

(* Superseding rows.                                                       *)
LEMMA SupersedeKeeps ==
    ASSUME NEW n \in Nodes, NEW rows, TableSound(n, rows), NEW key, NEW kept
    PROVE  KeepsRows(n, rows, Supersede(rows, key, kept))
           /\ DOMAIN Supersede(rows, key, kept) = DOMAIN rows
<1> DEFINE more == Supersede(rows, key, kept)
<1>1. DOMAIN more = DOMAIN rows
  BY DEF Supersede
<1>2. ASSUME NEW i \in DOMAIN rows
      PROVE  /\ more[i].key = rows[i].key /\ more[i].issuer = rows[i].issuer
             /\ more[i].sub = rows[i].sub
             /\ more[i].st = "D" \/ more[i].st = rows[i].st
  <2>1. rows[i] \in Rows
    BY DEF TableSound
  <2>2. CASE rows[i].key = key /\ i # kept
    <3>1. more[i] = [rows[i] EXCEPT !.st = Dead]
      BY <2>2 DEF Supersede, Dead
    <3> HIDE DEF more
    <3> QED BY <2>1, <3>1, RestatedRow DEF Dead
  <2>3. CASE ~(rows[i].key = key /\ i # kept)
    BY <2>3 DEF Supersede
  <2> QED BY <2>2, <2>3
<1> HIDE DEF more
<1>3. KeepsRows(n, rows, more)
  BY <1>1, <1>2 DEF KeepsRows
<1> QED BY <1>1, <1>3 DEF more

(* A row the peer sent.                                                    *)
LEMMA CreateInboundKeeps ==
    ASSUME NEW n \in Nodes, NEW rows, TableSound(n, rows), NEW row,
           row.issuer = Peer(n), row.key = Peer(n)
    PROVE  /\ KeepsRows(n, rows, CreateInbound(rows, row))
           /\ NewRows(n, rows, CreateInbound(rows, row))
<1>1. CASE Find(rows, row.tok) # {}
  BY <1>1 DEF CreateInbound, KeepsRows, NewRows
<1>2. CASE Find(rows, row.tok) = {}
  <2> DEFINE older == Supersede(rows, row.key, 0)
             more == Append(older, row)
  <2>1. KeepsRows(n, rows, older) /\ DOMAIN older = DOMAIN rows
    BY SupersedeKeeps
  <2>2. TableSound(n, older)
    BY SupersedeSound
  <2> HIDE DEF older
  <2>3. /\ Len(older) \in Nat
        /\ DOMAIN older = 1..Len(older) /\ DOMAIN more = 1..(Len(older) + 1)
        /\ \A i \in DOMAIN older : more[i] = older[i]
        /\ more[Len(older) + 1] = row
    BY <2>2 DEF TableSound
  <2>4. \A i \in DOMAIN more \ DOMAIN rows : more[i] = row
    BY <2>1, <2>3
  <2>5. DOMAIN rows \subseteq DOMAIN more
    BY <2>1, <2>3
  <2> HIDE DEF more
  <2>6. KeepsRows(n, rows, more) /\ NewRows(n, rows, more)
    BY <2>1, <2>3, <2>4, <2>5, PeerOfPeer DEF KeepsRows, NewRows
  <2> QED BY <1>2, <2>6 DEF CreateInbound, more, older
<1> QED BY <1>1, <1>2

(* Finalizing a pending row: the row stays what it is, and the other own   *)
(* ones are superseded.                                                    *)
LEMMA FinalizeKeeps ==
    ASSUME NEW n \in Nodes, NEW rows, TableSound(n, rows), NEW i \in DOMAIN rows,
           rows[i].issuer = n, rows[i].st = "P", NEW tok
    PROVE  LET more == Finalize(rows, i, tok)
           IN  /\ KeepsRows(n, rows, more) /\ DOMAIN more = DOMAIN rows
               /\ \A j \in DOMAIN more \ {i} : more[j].key = n => more[j].st = "D"
<1> DEFINE more == Finalize(rows, i, tok)
<1>1. /\ \A j \in DOMAIN rows : rows[j] \in Rows
      /\ rows[i].key = n
  BY DEF TableSound, RowSound
<1>2. DOMAIN more = DOMAIN rows
  BY DEF Finalize, Supersede, TableSound
<1>3. more[i] = [rows[i] EXCEPT !.tok = tok, !.st = Live]
  BY <1>1 DEF Finalize, Supersede, Rows, Live
<1>4. ASSUME NEW j \in DOMAIN rows, j # i
      PROVE  more[j] = IF rows[j].key = n THEN [rows[j] EXCEPT !.st = "D"] ELSE rows[j]
  BY <1>1, <1>4 DEF Finalize, Supersede, Rows
<1> HIDE DEF more
<1>5. /\ more[i].key = rows[i].key /\ more[i].issuer = rows[i].issuer
      /\ more[i].sub = rows[i].sub
  BY <1>1, <1>3 DEF Rows
<1>6. ASSUME NEW j \in DOMAIN rows, j # i
      PROVE  /\ more[j].key = rows[j].key /\ more[j].issuer = rows[j].issuer
             /\ more[j].sub = rows[j].sub
             /\ rows[j].key = n => more[j].st = "D"
             /\ rows[j].key # n => more[j].st = rows[j].st
  <2>1. rows[j] \in Rows
    BY <1>1
  <2>2. CASE rows[j].key = n
    <3>1. more[j] = [rows[j] EXCEPT !.st = Dead]
      BY <1>4, <1>6, <2>2 DEF Dead
    <3> QED BY <2>1, <2>2, <3>1, RestatedRow DEF Dead
  <2>3. CASE rows[j].key # n
    BY <1>4, <1>6, <2>3
  <2> QED BY <2>2, <2>3
<1>7. KeepsRows(n, rows, more)
  BY <1>2, <1>5, <1>6 DEF KeepsRows
<1>8. \A j \in DOMAIN more \ {i} : more[j].key = n => more[j].st = "D"
  BY <1>2, <1>6
<1> QED BY <1>2, <1>7, <1>8 DEF more

-----------------------------------------------------------------------------
(* How a step of n keeps the invariant of n: what it writes is agreed to,  *)
(* what it takes back is gone.                                             *)
LEMMA ConsentKept ==
    ASSUME ConsentInv, OwnInv', NEW n \in Nodes,
           consents[n] => consents'[n], lapsed[n] => lapsed'[n],
           KeepsRows(n, actionsOf[n], actionsOf'[n]),
           \A i \in DOMAIN actionsOf'[n] \ DOMAIN actionsOf[n] :
             /\ actionsOf'[n][i].key = actionsOf'[n][i].issuer
             /\ actionsOf'[n][i].issuer = n =>
                  actionsOf'[n][i].sub = "DEL" \/ consents'[n],
           \A t \in tasksOf'[n] : \/ t \in tasksOf[n]
                                  \/ /\ t.kind = "create" => actionsOf'[n][t.row].sub = t.sub
                                     /\ Grants(t) => Granted(n)',
           profileOf'[n].connected = "yes" =>
             \/ profileOf[n].connected = "yes" /\ (Disconnecting(n) => Disconnecting(n)')
             \/ Granted(n)'
    PROVE  ConsentSound(n)'
<1>1. ConsentSound(n) /\ (Granted(n) => Granted(n)')
  BY DEF ConsentInv, Granted
<1>2. ASSUME NEW i \in DOMAIN actionsOf'[n]
      PROVE  /\ actionsOf'[n][i].key = actionsOf'[n][i].issuer
             /\ actionsOf'[n][i].issuer = n /\ actionsOf'[n][i].sub \in {"REQ", "ACC"}
                /\ actionsOf'[n][i].st # "D" => consents'[n]
  <2>1. CASE i \in DOMAIN actionsOf[n]
    BY <1>1, <2>1 DEF ConsentSound, Agreed, KeepsRows
  <2>2. CASE i \notin DOMAIN actionsOf[n]
    BY <2>2
  <2> QED BY <2>1, <2>2
<1>3. ASSUME NEW t \in tasksOf'[n], t.kind = "create" PROVE actionsOf'[n][t.row].sub = t.sub
  <2>1. CASE t \in tasksOf[n]
    <3>1. t.row \in DOMAIN actionsOf[n]
      BY <1>3, <2>1 DEF ConsentInv, OwnInv, NodeSound, TaskSound
    <3> QED BY <1>1, <1>3, <2>1, <3>1 DEF ConsentSound, KeepsRows
  <2>2. CASE t \notin tasksOf[n]
    BY <1>3, <2>2
  <2> QED BY <2>1, <2>2
<1>4. \A t \in tasksOf'[n] : Grants(t) => Granted(n)'
  BY <1>1 DEF ConsentSound
<1>5. profileOf'[n].connected = "yes" => Granted(n)' \/ Disconnecting(n)'
  BY <1>1 DEF ConsentSound
<1> QED BY <1>2, <1>3, <1>4, <1>5 DEF ConsentSound, Agreed

(* A step of n leaves the other node's part alone.                         *)
LEMMA ConsentOfOthers ==
    ASSUME ConsentInv, NEW n \in Nodes, ConsentSound(n)', OwnInv',
           UNCHANGED scenario,
           consents' \in [Nodes -> BOOLEAN], lapsed' \in [Nodes -> BOOLEAN],
           \A m \in Nodes \ {n} :
             /\ actionsOf'[m] = actionsOf[m] /\ tasksOf'[m] = tasksOf[m]
             /\ profileOf'[m] = profileOf[m]
             /\ consents'[m] = consents[m] /\ lapsed'[m] = lapsed[m]
    PROVE  ConsentInv'
<1>1. ASSUME NEW m \in Nodes, m # n PROVE ConsentSound(m)'
  BY <1>1 DEF ConsentInv, ConsentSound, Agreed, Granted, Disconnecting
<1> QED BY <1>1 DEF ConsentInv

(* A step of n that writes no rows, and no consent.                        *)
LEMMA ConsentTaskStep ==
    ASSUME ConsentInv, OwnInv', NEW n \in Nodes, NEW t \in tasksOf[n], NEW tasks,
           UNCHANGED <<actionsOf, consents, lapsed, scenario>>,
           tasksOf' = [tasksOf EXCEPT ![n] = tasks],
           \A u \in tasks : \/ u \in tasksOf[n]
                            \/ /\ u.kind = "create" => actionsOf[n][u.row].sub = u.sub
                               /\ Grants(u) => Granted(n),
           \A m \in Nodes \ {n} : profileOf'[m] = profileOf[m],
           profileOf'[n].connected = "yes" =>
             \/ profileOf[n].connected = "yes" /\ (Disconnecting(n) => Disconnecting(n)')
             \/ Granted(n)
    PROVE  ConsentInv'
<1>1. tasksOf'[n] = tasks /\ \A m \in Nodes \ {n} : tasksOf'[m] = tasksOf[m]
  BY DEF ConsentInv, OwnInv
<1>2. Granted(n) => Granted(n)'
  BY DEF Granted
<1>3. KeepsRows(n, actionsOf[n], actionsOf'[n]) /\ actionsOf'[n] = actionsOf[n]
  BY DEF KeepsRows
<1>4. \A u \in tasksOf'[n] : \/ u \in tasksOf[n]
                             \/ /\ u.kind = "create" => actionsOf'[n][u.row].sub = u.sub
                                /\ Grants(u) => Granted(n)'
  BY <1>1, <1>2, <1>3
<1>5. ConsentSound(n)'
  BY <1>2, <1>3, <1>4, ConsentKept
<1>6. consents' \in [Nodes -> BOOLEAN] /\ lapsed' \in [Nodes -> BOOLEAN]
  BY DEF ConsentInv
<1> QED BY <1>1, <1>5, <1>6, ConsentOfOthers

-----------------------------------------------------------------------------
(* A pending row with its creator task: the user's consent, or an end.     *)
LEMMA ConsentCreates ==
    ASSUME ConsentInv, OwnInv', NEW n \in Nodes, NEW sub, NEW rest, Creates(n, sub, rest),
           \A u \in rest : u \in tasksOf[n] \/ (u.kind # "create" /\ (Grants(u) => Granted(n)')),
           UNCHANGED <<profileOf, lapsed, scenario>>,
           \/ sub = "DEL" /\ UNCHANGED consents
           \/ consents' = [consents EXCEPT ![n] = TRUE],
           \A u \in tasksOf[n] : u.kind = "create" => u \in rest
    PROVE  ConsentInv'
<1> DEFINE rows == actionsOf[n]
           row == [issuer |-> n, key |-> KeyOf(n), sub |-> sub, tok |-> NoToken,
                   st |-> "P"]
           more == CreatePending(rows, row)
           task == CreatorTask(Len(rows) + 1, sub)
           tasks == rest \cup {task}
<1>0. /\ n \in DOMAIN actionsOf /\ n \in DOMAIN tasksOf /\ TableSound(n, rows)
      /\ consents \in [Nodes -> BOOLEAN] /\ lapsed \in [Nodes -> BOOLEAN]
  BY DEF ConsentInv, OwnInv, NodeSound
<1>1. actionsOf' = [actionsOf EXCEPT ![n] = more]
  BY DEF Creates
<1>2. tasksOf' = [tasksOf EXCEPT ![n] = tasks]
  BY DEF Creates
<1>3. row.key = n /\ row.issuer = n /\ row.sub = sub
  BY DEF KeyOf
<1> HIDE DEF row
<1>4. /\ DOMAIN rows = 1..Len(rows) /\ DOMAIN more = 1..(Len(rows) + 1) /\ Len(rows) \in Nat
      /\ \A i \in DOMAIN rows : more[i] = rows[i]
      /\ more[Len(rows) + 1] = row
  <2>1. rows \in Seq(Rows) /\ more = Append(rows, row)
    BY <1>0 DEF TableSound, CreatePending
  <2> HIDE DEF more, rows
  <2> QED BY <2>1
<1>5. task.row = Len(rows) + 1 /\ task.sub = sub /\ task.kind = "create" /\ ~Grants(task)
      /\ (sub = "DEL" => ~Grants(task))
  BY DEF CreatorTask, Grants
<1> HIDE DEF more, task
<1>6. KeepsRows(n, rows, more)
  BY <1>4 DEF KeepsRows
<1>7. \A i \in DOMAIN more \ DOMAIN rows : more[i] = row
  BY <1>4
<1> HIDE DEF tasks, rows
<1>8. /\ actionsOf'[n] = more /\ tasksOf'[n] = tasks
      /\ \A m \in Nodes \ {n} : actionsOf'[m] = actionsOf[m] /\ tasksOf'[m] = tasksOf[m]
  BY <1>0, <1>1, <1>2 DEF ConsentInv, OwnInv
<1>9. /\ consents' \in [Nodes -> BOOLEAN] /\ lapsed' \in [Nodes -> BOOLEAN]
      /\ consents[n] => consents'[n]
      /\ sub = "DEL" \/ consents'[n]
      /\ \A m \in Nodes \ {n} : consents'[m] = consents[m]
  BY <1>0
<1>10. \A u \in tasksOf'[n] : \/ u \in tasksOf[n]
                              \/ /\ u.kind = "create" => actionsOf'[n][u.row].sub = u.sub
                                 /\ Grants(u) => Granted(n)'
  BY <1>3, <1>4, <1>5, <1>8 DEF tasks
<1>11. Disconnecting(n) => Disconnecting(n)'
  BY <1>8 DEF Disconnecting, tasks
<1>12. \A i \in DOMAIN actionsOf'[n] \ DOMAIN actionsOf[n] :
         /\ actionsOf'[n][i].key = actionsOf'[n][i].issuer
         /\ actionsOf'[n][i].issuer = n => actionsOf'[n][i].sub = "DEL" \/ consents'[n]
  BY <1>3, <1>7, <1>8, <1>9 DEF rows
<1>13. KeepsRows(n, actionsOf[n], actionsOf'[n])
  BY <1>6, <1>8 DEF rows
<1>14. ConsentSound(n)'
  BY <1>9, <1>10, <1>11, <1>12, <1>13, ConsentKept
<1> QED BY <1>8, <1>9, <1>14, ConsentOfOthers

(* The acts of the user and the restart.                                   *)
LEMMA ConsentUserStep ==
    ASSUME ConsentInv, NEW n \in Nodes, UNCHANGED scenario,
           \/ AsksConnection(n) \/ Disconnects(n) \/ AcceptsRequest(n)
           \/ RejectsRequest(n) \/ RestartsNode(n)
    PROVE  ConsentInv'
<1>0. /\ OwnInv /\ OwnInv' /\ TableSound(n, actionsOf[n])
      /\ n \in DOMAIN actionsOf /\ n \in DOMAIN tasksOf /\ profileOf \in Profiles
      /\ consents \in [Nodes -> BOOLEAN] /\ lapsed \in [Nodes -> BOOLEAN]
  BY UserStep DEF ConsentInv, OwnInv, NodeSound
<1>1. CASE AsksConnection(n)
  <2>1. /\ Creates(n, "REQ", tasksOf[n]) /\ UNCHANGED <<profileOf, lapsed, scenario>>
        /\ consents' = [consents EXCEPT ![n] = TRUE]
    BY <1>1 DEF AsksConnection
  <2> QED BY <1>0, <2>1, ConsentCreates
<1>2. CASE Disconnects(n)
  <2>1. /\ Creates(n, "DEL", tasksOf[n]) /\ UNCHANGED <<profileOf, lapsed, scenario, consents>>
    BY <1>2 DEF Disconnects
  <2> QED BY <1>0, <2>1, ConsentCreates
<1>3. CASE AcceptsRequest(n)
  <2> DEFINE rows == actionsOf[n]
             row == [issuer |-> n, key |-> KeyOf(n), sub |-> "ACC", tok |-> NoToken,
                     st |-> "P"]
             mid == CreatePending(rows, row)
             task == CreatorTask(Len(rows) + 1, "ACC")
             tasks == tasksOf[n] \cup {task}
  <2>1. PICK i \in Answerable(n) :
          /\ actionsOf' = [actionsOf EXCEPT ![n] = SetStatus(mid, rows[i].tok, "A")]
          /\ tasksOf' = [tasksOf EXCEPT ![n] = tasks]
          /\ consents' = [consents EXCEPT ![n] = TRUE]
          /\ UNCHANGED <<profileOf, signedBy, lapsed>>
    BY <1>0, <1>3 DEF AcceptsRequest
  <2>2. rows[i].tok \in TokensOf(Peer(n))
    BY <1>0 DEF Answerable, TableSound, RowSound
  <2>3. row \in Rows /\ row.issuer = n /\ row.key = n /\ row.tok = NoToken /\ row.sub = "ACC"
    BY DEF Rows, KeyOf, Statuses, Subs
  <2> DEFINE more == SetStatus(mid, rows[i].tok, "A")
  <2> HIDE DEF row
  <2>4. TableSound(n, mid)
    BY <1>0, <2>3, CreatePendingSound
  <2>5. /\ Len(rows) \in Nat /\ DOMAIN rows = 1..Len(rows)
        /\ DOMAIN mid = 1..(Len(rows) + 1)
        /\ \A j \in DOMAIN rows : mid[j] = rows[j]
        /\ mid[Len(rows) + 1] = row
    <3>1. rows \in Seq(Rows) /\ mid = Append(rows, row)
      BY <1>0 DEF TableSound, CreatePending
    <3> HIDE DEF mid, rows
    <3> QED BY <3>1
  <2> HIDE DEF rows, mid
  <2>6. KeepsRows(n, mid, more) /\ DOMAIN more = DOMAIN mid
    BY <2>2, <2>4, SetStatusKeeps
  <2> HIDE DEF more
  <2>7. KeepsRows(n, rows, more)
    BY <2>5, <2>6 DEF KeepsRows
  <2>8. \A j \in DOMAIN more \ DOMAIN rows :
          j = Len(rows) + 1 /\ more[j].key = n /\ more[j].issuer = n
    BY <2>3, <2>5, <2>6 DEF KeepsRows
  <2>9. more[Len(rows) + 1].sub = "ACC"
    BY <2>3, <2>5, <2>6 DEF KeepsRows
  <2>10. task.row = Len(rows) + 1 /\ task.sub = "ACC" /\ ~Grants(task)
    BY DEF CreatorTask, Grants
  <2> HIDE DEF task
  <2>11. /\ actionsOf'[n] = more /\ tasksOf'[n] = tasks
         /\ \A m \in Nodes \ {n} : actionsOf'[m] = actionsOf[m] /\ tasksOf'[m] = tasksOf[m]
    BY <1>0, <2>1 DEF OwnInv, more
  <2>12. /\ consents' \in [Nodes -> BOOLEAN] /\ consents'[n]
         /\ \A m \in Nodes \ {n} : consents'[m] = consents[m]
    BY <1>0, <2>1
  <2>13. /\ \A u \in tasksOf'[n] :
              \/ u \in tasksOf[n]
              \/ /\ u.kind = "create" => actionsOf'[n][u.row].sub = u.sub
                 /\ Grants(u) => Granted(n)'
         /\ Disconnecting(n) => Disconnecting(n)'
    BY <2>9, <2>10, <2>11 DEF Disconnecting
  <2>14. /\ KeepsRows(n, actionsOf[n], actionsOf'[n])
         /\ \A j \in DOMAIN actionsOf'[n] \ DOMAIN actionsOf[n] :
              actionsOf'[n][j].key = actionsOf'[n][j].issuer
    BY <2>7, <2>8, <2>11 DEF rows
  <2>15. ConsentSound(n)'
    BY <1>0, <2>1, <2>12, <2>13, <2>14, ConsentKept
  <2> QED BY <1>0, <2>1, <2>11, <2>12, <2>15, ConsentOfOthers
<1>4. CASE RejectsRequest(n)
  <2> DEFINE p == [profileOf[n] EXCEPT !.connected = "no", !.following = FALSE]
  <2>1. PICK i \in Answerable(n) :
          /\ actionsOf' = [actionsOf EXCEPT ![n] = SetStatus(@, @[i].tok, "D")]
          /\ profileOf' = [profileOf EXCEPT ![n] = p]
          /\ UNCHANGED <<tasksOf, signedBy, consents, lapsed>>
    BY <1>0, <1>4 DEF RejectsRequest, Profiles
  <2>2. actionsOf[n][i].tok \in TokensOf(Peer(n))
    BY <1>0 DEF Answerable, TableSound, RowSound
  <2> DEFINE more == SetStatus(actionsOf[n], actionsOf[n][i].tok, "D")
  <2>3. KeepsRows(n, actionsOf[n], more) /\ DOMAIN more = DOMAIN actionsOf[n]
    BY <1>0, <2>2, SetStatusKeeps
  <2>4. /\ actionsOf'[n] = more
        /\ \A m \in Nodes \ {n} : actionsOf'[m] = actionsOf[m] /\ profileOf'[m] = profileOf[m]
    BY <1>0, <2>1 DEF OwnInv, Profiles
  <2>5. p.connected = "no"
    BY <1>0 DEF Profiles
  <2> HIDE DEF p, more
  <2>6. profileOf'[n].connected = "no"
    BY <1>0, <2>1, <2>5 DEF Profiles
  <2>7. ConsentSound(n)'
    BY <1>0, <2>1, <2>3, <2>4, <2>6, ConsentKept
  <2> QED BY <1>0, <2>1, <2>4, <2>7, ConsentOfOthers
<1>5. CASE RestartsNode(n)
  <2> DEFINE tasks == {Reloaded(t) : t \in tasksOf[n]}
             fails == \E t \in tasksOf[n] :
                        t.kind = "create" /\ t.sub = "DEL" /\ t.pc = "hook"
  <2>1. /\ tasksOf' = [tasksOf EXCEPT ![n] = tasks]
        /\ UNCHANGED <<actionsOf, profileOf, signedBy, consents>>
        /\ lapsed' = [lapsed EXCEPT ![n] = lapsed[n] \/ fails]
    BY <1>0, <1>5 DEF RestartsNode
  <2>2. ASSUME NEW t \in tasksOf[n]
        PROVE  /\ ~Grants(Reloaded(t)) /\ Reloaded(t).kind = t.kind
               /\ Reloaded(t).sub = t.sub /\ Reloaded(t).row = t.row
    <3>1. t \in Tasks
      BY <1>0 DEF OwnInv, NodeSound, TaskSound
    <3> QED BY <3>1 DEF Tasks, Reloaded, Grants
  <2>3. /\ tasksOf'[n] = tasks /\ \A m \in Nodes \ {n} : tasksOf'[m] = tasksOf[m]
    BY <1>0, <2>1 DEF OwnInv
  <2>4. \A u \in tasks : /\ ~Grants(u)
                         /\ u.kind = "create" => actionsOf[n][u.row].sub = u.sub
    BY <2>2 DEF ConsentInv, ConsentSound
  <2>5. /\ lapsed' \in [Nodes -> BOOLEAN] /\ (lapsed[n] => lapsed'[n])
        /\ Disconnecting(n) => lapsed'[n]
        /\ \A m \in Nodes \ {n} : lapsed'[m] = lapsed[m]
    <3>1. fails \in BOOLEAN /\ (Disconnecting(n) => fails)
      BY DEF Disconnecting
    <3> HIDE DEF fails
    <3> QED BY <1>0, <2>1, <3>1
  <2> HIDE DEF tasks, fails
  <2>6. \A i \in DOMAIN actionsOf[n] : Agreed(n, actionsOf[n][i])
    BY DEF ConsentInv, ConsentSound
  <2>7. profileOf[n].connected = "yes" => consents[n] \/ lapsed'[n]
    BY <2>5 DEF ConsentInv, ConsentSound, Granted
  <2>8. ConsentSound(n)'
    BY <2>1, <2>3, <2>4, <2>6, <2>7 DEF ConsentSound, Agreed, Granted
  <2> QED BY <1>0, <2>1, <2>3, <2>5, <2>8, ConsentOfOthers
<1> QED BY <1>1, <1>2, <1>3, <1>4, <1>5

(* A task that goes on, or ends, without writing rows.                     *)
Ending(t) == t.kind = "create" /\ t.sub = "DEL" /\ t.pc = "hook"

LEMMA ConsentGoes ==
    ASSUME ConsentInv, OwnInv', NEW n \in Nodes, NEW t \in tasksOf[n], NEW u,
           Goes(n, t, u), UNCHANGED <<actionsOf, consents, lapsed, scenario>>,
           u.kind = "create" => t.kind = "create" /\ u.row = t.row /\ u.sub = t.sub,
           Grants(u) => Granted(n),
           \A m \in Nodes \ {n} : profileOf'[m] = profileOf[m],
           profileOf'[n].connected = "yes" =>
             (profileOf[n].connected = "yes" /\ ~Ending(t)) \/ Granted(n)
    PROVE  ConsentInv'
<1> DEFINE tasks == (tasksOf[n] \ {t}) \cup {u}
<1>1. tasksOf' = [tasksOf EXCEPT ![n] = tasks]
  BY DEF Goes
<1>2. tasksOf'[n] = tasks
  BY <1>1 DEF ConsentInv, OwnInv
<1>3. ~Ending(t) /\ Disconnecting(n) => Disconnecting(n)'
  <2> SUFFICES ASSUME ~Ending(t), Disconnecting(n) PROVE Disconnecting(n)'
    OBVIOUS
  <2>1. PICK v \in tasksOf[n] : Ending(v)
    BY DEF Disconnecting, Ending
  <2>2. v \in tasksOf'[n]
    BY <1>2, <2>1
  <2> QED BY <2>1, <2>2 DEF Disconnecting, Ending
<1>4. u.kind = "create" => actionsOf[n][u.row].sub = u.sub
  BY DEF ConsentInv, ConsentSound
<1>5. \A v \in tasks : \/ v \in tasksOf[n]
                       \/ /\ v.kind = "create" => actionsOf[n][v.row].sub = v.sub
                          /\ Grants(v) => Granted(n)
  BY <1>4
<1> HIDE DEF tasks
<1> QED BY <1>1, <1>3, <1>5, ConsentTaskStep

LEMMA ConsentEnds ==
    ASSUME ConsentInv, OwnInv', NEW n \in Nodes, NEW t \in tasksOf[n], ~Ending(t),
           Ends(n, t), UNCHANGED <<actionsOf, profileOf, consents, lapsed, scenario>>
    PROVE  ConsentInv'
<1> DEFINE tasks == tasksOf[n] \ {t}
<1>1. tasksOf' = [tasksOf EXCEPT ![n] = tasks]
  BY DEF Ends
<1>2. tasksOf'[n] = tasks
  BY <1>1 DEF ConsentInv, OwnInv
<1>3. Disconnecting(n) => Disconnecting(n)'
  <2> SUFFICES ASSUME Disconnecting(n) PROVE Disconnecting(n)'
    OBVIOUS
  <2>1. PICK v \in tasksOf[n] : Ending(v)
    BY DEF Disconnecting, Ending
  <2>2. v \in tasksOf'[n]
    BY <1>2, <2>1
  <2> QED BY <2>1, <2>2 DEF Disconnecting, Ending
<1>4. \A v \in tasks : v \in tasksOf[n]
  OBVIOUS
<1> HIDE DEF tasks
<1> QED BY <1>1, <1>3, <1>4, ConsentTaskStep

(* What the fields of a task become.                                       *)
LEMMA TaskUpdated ==
    ASSUME NEW t \in Tasks, NEW pc, NEW noted
    PROVE  /\ LET u == [t EXCEPT !.pc = pc]
              IN  u.kind = t.kind /\ u.row = t.row /\ u.sub = t.sub /\ u.pc = pc
           /\ LET u == [t EXCEPT !.pc = pc, !.noted = noted]
              IN  u.kind = t.kind /\ u.row = t.row /\ u.sub = t.sub /\ u.pc = pc
  BY DEF Tasks

(* Sealing a row: of a withdrawal, nothing of the node's own is left; what *)
(* will connect all the same is an overlap that history keeps.             *)
LEMMA ConsentFinalizes ==
    ASSUME ConsentInv, OwnInv', NEW n \in Nodes, NEW t \in tasksOf[n],
           Finalizes(n, t), UNCHANGED scenario
    PROVE  ConsentInv'
<1> DEFINE rows == actionsOf[n]
           tok == <<n, signedBy[n] + 1>>
           more == Finalize(rows, t.row, tok)
           task == [t EXCEPT !.tok = tok, !.pc = "hook"]
           tasks == (tasksOf[n] \ {t}) \cup {task}
           over == \E u \in tasksOf[n] : Committed(u)
<1>0. /\ n \in DOMAIN actionsOf /\ n \in DOMAIN tasksOf /\ TableSound(n, rows)
      /\ TaskSound(n, rows, t) /\ t \in Tasks /\ t.kind = "create" /\ t.pc = "start"
      /\ consents \in [Nodes -> BOOLEAN] /\ lapsed \in [Nodes -> BOOLEAN]
      /\ t.row \in DOMAIN rows /\ rows[t.row].issuer = n /\ rows[t.row].sub = t.sub
      /\ ConsentSound(n) /\ UNCHANGED profileOf
  BY DEF ConsentInv, OwnInv, NodeSound, Finalizes, TaskSound, ConsentSound
<1>1. CASE ~Finalizable(rows, t.row)
  <2>1. ~Ending(t)
    BY <1>0 DEF Ending
  <2>2. Ends(n, t) /\ UNCHANGED <<actionsOf, profileOf, consents, lapsed, scenario>>
    BY <1>1 DEF Finalizes
  <2> QED BY <2>1, <2>2, ConsentEnds
<1>2. CASE Finalizable(rows, t.row)
  <2>1. /\ actionsOf' = [actionsOf EXCEPT ![n] = more]
        /\ tasksOf' = [tasksOf EXCEPT ![n] = tasks]
        /\ IF t.sub = "DEL"
             THEN /\ consents' = [consents EXCEPT ![n] = FALSE]
                  /\ lapsed' = [lapsed EXCEPT ![n] = lapsed[n] \/ over]
             ELSE UNCHANGED <<consents, lapsed>>
    BY <1>0, <1>2 DEF Finalizes, Goes
  <2>2. task.kind = "create" /\ task.row = t.row /\ task.sub = t.sub /\ task.pc = "hook"
    BY <1>0 DEF Tasks
  <2>3. rows[t.row].st = "P"
    BY <1>2 DEF Finalizable
  <2> HIDE DEF tok, task
  <2>4. /\ KeepsRows(n, rows, more) /\ DOMAIN more = DOMAIN rows
        /\ \A j \in DOMAIN more \ {t.row} : more[j].key = n => more[j].st = "D"
    BY <1>0, <2>3, FinalizeKeeps
  <2> HIDE DEF more, tasks, over, rows
  <2>5. /\ actionsOf'[n] = more /\ tasksOf'[n] = tasks
        /\ \A m \in Nodes \ {n} : actionsOf'[m] = actionsOf[m] /\ tasksOf'[m] = tasksOf[m]
    BY <1>0, <2>1 DEF ConsentInv, OwnInv
  <2>6. consents' \in [Nodes -> BOOLEAN] /\ lapsed' \in [Nodes -> BOOLEAN]
    <3>1. over \in BOOLEAN
      BY DEF over
    <3> QED BY <1>0, <2>1, <3>1
  <2>7. \A m \in Nodes \ {n} : consents'[m] = consents[m] /\ lapsed'[m] = lapsed[m]
    BY <1>0, <2>1
  <2>8. ConsentSound(n)'
    <3>1. CASE t.sub # "DEL"
      <4>1. consents' = consents /\ lapsed' = lapsed
        BY <2>1, <3>1
      <4>2. Granted(n) <=> Granted(n)'
        BY <4>1 DEF Granted
      <4>3. Grants(task) => Granted(n)
        <5>1. SUFFICES ASSUME Grants(task) PROVE consents[n]
          BY DEF Granted
        <5>2. t.sub = "ACC"
          BY <2>2, <5>1 DEF Grants
        <5> QED BY <1>0, <2>3, <5>2 DEF ConsentSound, Agreed, rows
      <4>4. task.kind = "create" => more[task.row].sub = task.sub
        BY <1>0, <2>2, <2>4 DEF KeepsRows
      <4>5. \A u \in tasksOf'[n] :
              \/ u \in tasksOf[n]
              \/ /\ u.kind = "create" => actionsOf'[n][u.row].sub = u.sub
                 /\ Grants(u) => Granted(n)'
        BY <2>5, <4>2, <4>3, <4>4 DEF tasks
      <4>6. Disconnecting(n) => Disconnecting(n)'
        BY <1>0, <2>5 DEF Disconnecting, tasks
      <4>7. KeepsRows(n, actionsOf[n], actionsOf'[n]) /\ DOMAIN actionsOf'[n] = DOMAIN actionsOf[n]
        BY <2>4, <2>5 DEF rows
      <4> QED BY <1>0, <4>1, <4>5, <4>6, <4>7, ConsentKept
    <3>2. CASE t.sub = "DEL"
      <4>1. lapsed'[n] <=> (lapsed[n] \/ over)
        BY <1>0, <2>1, <3>2
      <4>2. ASSUME NEW i \in DOMAIN more
            PROVE  /\ more[i].key = more[i].issuer
                   /\ more[i].issuer = n => more[i].st = "D" \/ more[i].sub = "DEL"
        <5>1. more[i].key = more[i].issuer
          BY <1>0, <2>4 DEF KeepsRows, ConsentSound, Agreed, rows
        <5>2. CASE i = t.row
          BY <1>0, <2>4, <3>2, <5>1, <5>2 DEF KeepsRows
        <5>3. CASE i # t.row
          BY <2>4, <5>1, <5>3
        <5> QED BY <5>1, <5>2, <5>3
      <4>3. \A u \in tasks : u.kind = "create" => more[u.row].sub = u.sub
        <5> SUFFICES ASSUME NEW u \in tasks, u.kind = "create" PROVE more[u.row].sub = u.sub
          OBVIOUS
        <5>1. CASE u = task
          BY <1>0, <2>2, <2>4, <5>1 DEF KeepsRows
        <5>2. CASE u \in tasksOf[n]
          <6>1. u.row \in DOMAIN rows
            BY <5>2 DEF ConsentInv, OwnInv, NodeSound, TaskSound, rows
          <6> QED BY <1>0, <2>4, <5>2, <6>1 DEF KeepsRows, ConsentSound, rows
        <5> QED BY <5>1, <5>2 DEF tasks
      <4>4. \A u \in tasks : Grants(u) => lapsed'[n]
        <5>1. ~Grants(task)
          BY <2>2, <3>2 DEF Grants
        <5>2. \A u \in tasksOf[n] : Grants(u) => over
          BY DEF Grants, Committed, over
        <5> QED BY <4>1, <5>1, <5>2 DEF tasks
      <4>5. task \in tasksOf'[n]
        BY <2>5 DEF tasks
      <4>6. Disconnecting(n)'
        BY <2>2, <3>2, <4>5 DEF Disconnecting
      <4>7. \A i \in DOMAIN actionsOf'[n] :
              /\ actionsOf'[n][i].key = actionsOf'[n][i].issuer
              /\ actionsOf'[n][i].issuer = n /\ actionsOf'[n][i].sub \in {"REQ", "ACC"}
                 /\ actionsOf'[n][i].st # "D" => consents'[n]
        BY <2>5, <4>2
      <4> QED BY <2>5, <4>3, <4>4, <4>6, <4>7 DEF ConsentSound, Agreed, Granted
    <3> QED BY <3>1, <3>2
  <2> QED BY <1>0, <2>5, <2>6, <2>7, <2>8, ConsentOfOthers
<1> QED BY <1>1, <1>2

(* The steps of a creator task.                                            *)
LEMMA ConsentCreatorStep ==
    ASSUME ConsentInv, NEW n \in Nodes, NEW t \in tasksOf[n], UNCHANGED scenario,
           \/ Finalizes(n, t) \/ LooksBeforeRequest(n, t) \/ RecordsRequest(n, t)
           \/ RecordsAcceptance(n, t) \/ RecordsDisconnect(n, t)
           \/ SchedulesDelivery(n, t)
    PROVE  ConsentInv'
<1>0. /\ OwnInv' /\ t \in Tasks /\ n \in DOMAIN profileOf /\ profileOf \in Profiles
      /\ Grants(t) => Granted(n)
  BY CreatorStep DEF ConsentInv, OwnInv, NodeSound, TaskSound, ConsentSound, Profiles
<1>1. CASE Finalizes(n, t)
  BY <1>0, <1>1, ConsentFinalizes
<1>2. CASE LooksBeforeRequest(n, t)
  <2> DEFINE u == [t EXCEPT !.pc = "write", !.noted = profileOf[n].connected]
  <2>1. /\ Goes(n, t, u) /\ UNCHANGED <<actionsOf, profileOf, consents, lapsed, scenario>>
        /\ t.kind = "create" /\ t.sub = "REQ"
    BY <1>2 DEF LooksBeforeRequest
  <2>2. u.kind = t.kind /\ u.row = t.row /\ u.sub = t.sub /\ u.pc = "write"
    BY <1>0, TaskUpdated
  <2>3. ~Grants(u) /\ ~Ending(t)
    BY <2>1, <2>2 DEF Grants, Ending
  <2> HIDE DEF u
  <2> QED BY <1>0, <2>1, <2>2, <2>3, ConsentGoes
<1>3. CASE RecordsRequest(n, t)
  <2> DEFINE u == [t EXCEPT !.pc = "send", !.noted = ""]
  <2>1. /\ Goes(n, t, u) /\ UNCHANGED <<actionsOf, consents, lapsed, scenario>>
        /\ t.kind = "create" /\ t.pc = "write"
    BY <1>3 DEF RecordsRequest
  <2>2. u.kind = t.kind /\ u.row = t.row /\ u.sub = t.sub /\ u.pc = "send"
    BY <1>0, TaskUpdated
  <2>3. ~Grants(u) /\ ~Ending(t)
    BY <2>1, <2>2 DEF Grants, Ending
  <2> HIDE DEF u
  <2>4. /\ \A m \in Nodes \ {n} : profileOf'[m] = profileOf[m]
        /\ profileOf'[n].connected \in {profileOf[n].connected, "requested"}
    BY <1>0, <1>3 DEF RecordsRequest, Profiles
  <2> QED BY <1>0, <2>1, <2>2, <2>3, <2>4, ConsentGoes
<1>4. CASE RecordsAcceptance(n, t)
  <2> DEFINE u == [t EXCEPT !.pc = "send"]
  <2>1. /\ Goes(n, t, u) /\ UNCHANGED <<actionsOf, consents, lapsed, scenario>>
        /\ t.kind = "create" /\ t.pc = "hook" /\ t.sub = "ACC"
        /\ \A m \in Nodes \ {n} : profileOf'[m] = profileOf[m]
    BY <1>0, <1>4 DEF RecordsAcceptance
  <2>2. u.kind = t.kind /\ u.row = t.row /\ u.sub = t.sub /\ u.pc = "send"
    BY <1>0, TaskUpdated
  <2>3. ~Grants(u) /\ Granted(n)
    BY <1>0, <2>1, <2>2 DEF Grants
  <2> HIDE DEF u
  <2> QED BY <1>0, <2>1, <2>2, <2>3, ConsentGoes
<1>5. CASE RecordsDisconnect(n, t)
  <2> DEFINE u == [t EXCEPT !.pc = "send"]
  <2>1. /\ Goes(n, t, u) /\ UNCHANGED <<actionsOf, consents, lapsed, scenario>>
        /\ t.kind = "create"
    BY <1>5 DEF RecordsDisconnect
  <2>2. u.kind = t.kind /\ u.row = t.row /\ u.sub = t.sub /\ u.pc = "send"
    BY <1>0, TaskUpdated
  <2>3. ~Grants(u)
    BY <2>1, <2>2 DEF Grants
  <2> HIDE DEF u
  <2>4. /\ \A m \in Nodes \ {n} : profileOf'[m] = profileOf[m]
        /\ profileOf'[n].connected = "no"
    BY <1>0, <1>5 DEF RecordsDisconnect, Profiles
  <2> QED BY <1>0, <2>1, <2>2, <2>3, <2>4, ConsentGoes
<1>6. CASE SchedulesDelivery(n, t)
  <2> DEFINE u == DeliveryTask(t.tok, t.sub)
  <2>1. /\ Goes(n, t, u) /\ UNCHANGED <<actionsOf, profileOf, consents, lapsed, scenario>>
        /\ t.pc = "send"
    BY <1>6 DEF SchedulesDelivery
  <2>2. u.kind = "deliver"
    BY DEF DeliveryTask
  <2>3. ~Grants(u) /\ ~Ending(t)
    BY <2>1, <2>2 DEF Grants, Ending
  <2> HIDE DEF u
  <2> QED BY <1>0, <2>1, <2>2, <2>3, ConsentGoes
<1> QED BY <1>1, <1>2, <1>3, <1>4, <1>5, <1>6

-----------------------------------------------------------------------------
(* A delivery: the peer has a task more, which has still to look.          *)
LEMMA ConsentDeliveryStep ==
    ASSUME ConsentInv, NEW n \in Nodes, NEW t \in tasksOf[n], UNCHANGED scenario,
           Delivers(n, t) \/ DeliversUnheard(n, t)
    PROVE  ConsentInv'
<1> DEFINE post == Posted(n, t)
           p == Peer(n)
<1>0. /\ OwnInv' /\ p \in Nodes /\ p # n /\ t.kind = "deliver" /\ DOMAIN tasksOf = Nodes
      /\ UNCHANGED <<actionsOf, profileOf, consents, lapsed, scenario>>
  BY DeliveryStep, PeerOfPeer DEF ConsentInv, OwnInv, Delivers, DeliversUnheard
<1>1. post.kind = "verify" /\ post.pc = "start"
  BY DEF Posted, VerifierTask
<1> HIDE DEF post
<1>2. \A m \in Nodes :
        /\ tasksOf'[m] \subseteq tasksOf[m] \cup {post}
        /\ tasksOf[m] \subseteq tasksOf'[m] \cup {t}
  <2>1. CASE Delivers(n, t)
    BY <1>0, <2>1 DEF Delivers, post
  <2>2. CASE DeliversUnheard(n, t)
    BY <1>0, <2>2 DEF DeliversUnheard, post
  <2> QED BY <2>1, <2>2
<1>3. ASSUME NEW m \in Nodes PROVE ConsentSound(m)'
  <2>1. ConsentSound(m)
    BY DEF ConsentInv
  <2>2. \A u \in tasksOf'[m] :
          u \in tasksOf[m] \/ (u.kind # "create" /\ ~Grants(u))
    BY <1>1, <1>2 DEF Grants
  <2>3. Disconnecting(m) => Disconnecting(m)'
    BY <1>0, <1>2 DEF Disconnecting
  <2> QED BY <1>0, <2>1, <2>2, <2>3 DEF ConsentSound, Agreed, Granted
<1> QED BY <1>0, <1>3 DEF ConsentInv

(* A verification that writes rows of the peer, and goes on or ends.       *)
LEMMA ConsentReceives ==
    ASSUME ConsentInv, OwnInv', NEW n \in Nodes, NEW t \in tasksOf[n], t.kind = "verify",
           NEW more, KeepsRows(n, actionsOf[n], more), NewRows(n, actionsOf[n], more),
           actionsOf' = [actionsOf EXCEPT ![n] = more],
           NEW tasks, tasksOf' = [tasksOf EXCEPT ![n] = tasks],
           tasksOf[n] \subseteq tasks \cup {t},
           \A u \in tasks : u \in tasksOf[n] \/ (u.kind = "verify" /\ ~Grants(u)),
           UNCHANGED <<profileOf, consents, lapsed, scenario>>
    PROVE  ConsentInv'
<1>1. /\ actionsOf'[n] = more /\ tasksOf'[n] = tasks
      /\ \A m \in Nodes \ {n} : actionsOf'[m] = actionsOf[m] /\ tasksOf'[m] = tasksOf[m]
  BY DEF ConsentInv, OwnInv
<1>2. Disconnecting(n) => Disconnecting(n)'
  BY <1>1 DEF Disconnecting
<1>3. KeepsRows(n, actionsOf[n], actionsOf'[n])
  BY <1>1
<1>4. \A i \in DOMAIN actionsOf'[n] \ DOMAIN actionsOf[n] :
        /\ actionsOf'[n][i].key = actionsOf'[n][i].issuer
        /\ actionsOf'[n][i].issuer = n => actionsOf'[n][i].sub = "DEL" \/ consents'[n]
  BY <1>1 DEF NewRows
<1>5. \A u \in tasksOf'[n] : \/ u \in tasksOf[n]
                             \/ /\ u.kind = "create" => actionsOf'[n][u.row].sub = u.sub
                                /\ Grants(u) => Granted(n)'
  BY <1>1
<1>6. ConsentSound(n)'
  BY <1>2, <1>3, <1>4, <1>5, ConsentKept
<1>7. consents' \in [Nodes -> BOOLEAN] /\ lapsed' \in [Nodes -> BOOLEAN]
  BY DEF ConsentInv
<1> QED BY <1>1, <1>6, <1>7, ConsentOfOthers

(* What stays within the rows there are adds none.                         *)
LEMMA NoNewRows ==
    ASSUME NEW n, NEW rows, NEW more, DOMAIN more = DOMAIN rows
    PROVE  NewRows(n, rows, more)
  BY DEF NewRows

(* A request of the node's own on record has been agreed to.               *)
LEMMA OwnRequestAgreed ==
    ASSUME ConsentInv, NEW n \in Nodes, OwnRequest(n)
    PROVE  Granted(n)
<1>1. PICK i \in ByKey(actionsOf[n], KeyOf(n)) : actionsOf[n][i].sub = "REQ"
  BY DEF OwnRequest
<1>2. i \in DOMAIN actionsOf[n] /\ actionsOf[n][i].key = n /\ actionsOf[n][i].st # "D"
  BY <1>1 DEF ByKey, KeyOf
<1>3. Agreed(n, actionsOf[n][i])
  BY <1>2 DEF ConsentInv, ConsentSound
<1> QED BY <1>1, <1>2, <1>3 DEF Agreed, Granted

(* The steps of a verifier task.                                           *)
LEMMA ConsentVerifierStep ==
    ASSUME ConsentInv, NEW n \in Nodes, NEW t \in tasksOf[n], UNCHANGED scenario,
           \/ StoresInbound(n, t) \/ MarksVerifying(n, t) \/ ReceivesRequest(n, t)
           \/ RespondsAcceptance(n, t) \/ ReceivesAcceptance(n, t)
           \/ ConnectsPeer(n, t) \/ ReceivesDisconnect(n, t) \/ Activates(n, t)
    PROVE  ConsentInv'
<1> DEFINE rows == actionsOf[n]
<1>0. /\ scenario.mode[n] \in Modes /\ OwnInv
  BY ScenariosAssumption DEF ConsentInv
<1>1. /\ OwnInv' /\ t \in Tasks /\ t.kind = "verify" /\ TableSound(n, rows)
      /\ n \in DOMAIN actionsOf /\ n \in DOMAIN profileOf /\ profileOf \in Profiles
      /\ t.tok \in TokensOf(Peer(n)) /\ Peer(n) \in Nodes /\ Peer(n) # n
      /\ consents \in [Nodes -> BOOLEAN]
      /\ Grants(t) => Granted(n)
  BY <1>0, VerifierStep, PeerOfPeer
     DEF ConsentInv, ConsentSound, OwnInv, NodeSound, TaskSound, Profiles, StoresInbound,
         MarksVerifying, ReceivesRequest, RespondsAcceptance, ReceivesAcceptance,
         ConnectsPeer, ReceivesDisconnect, Activates
<1>2. ~Ending(t)
  BY <1>1 DEF Ending
<1>3. ASSUME NEW pc \in {"mark", "hook", "respond", "connect"}, pc = "connect" => Granted(n),
             Goes(n, t, [t EXCEPT !.pc = pc]),
             UNCHANGED <<actionsOf, profileOf, consents, lapsed>>
      PROVE  ConsentInv'
  <2> DEFINE u == [t EXCEPT !.pc = pc]
  <2>1. u.kind = t.kind /\ u.row = t.row /\ u.sub = t.sub /\ u.pc = pc
    BY <1>1, TaskUpdated
  <2>2. Goes(n, t, u)
    BY <1>3
  <2> HIDE DEF u
  <2>3. Grants(u) => Granted(n)
    BY <1>1, <1>3, <2>1 DEF Grants
  <2> QED BY <1>1, <1>2, <1>3, <2>1, <2>2, <2>3, ConsentGoes
<1>4. ASSUME NEW st, RestsAt(n, t, st), UNCHANGED <<actionsOf, consents, lapsed>>,
             \A m \in Nodes \ {n} : profileOf'[m] = profileOf[m],
             profileOf'[n].connected = "yes" => profileOf[n].connected = "yes" \/ Granted(n)
      PROVE  ConsentInv'
  <2> DEFINE u == [t EXCEPT !.pc = "rest", !.noted = st]
  <2>1. u.kind = t.kind /\ u.row = t.row /\ u.sub = t.sub /\ u.pc = "rest"
    BY <1>1, TaskUpdated
  <2>2. Goes(n, t, u)
    BY <1>4 DEF RestsAt
  <2> HIDE DEF u
  <2>3. ~Grants(u) /\ u.kind # "create"
    BY <1>1, <2>1 DEF Grants
  <2> QED BY <1>1, <1>2, <1>4, <2>1, <2>2, <2>3, ConsentGoes
<1>5. CASE StoresInbound(n, t)
  <2>1. CASE Find(rows, t.tok) = {}
    <3> DEFINE row == [issuer |-> Peer(n), key |-> KeyOf(Peer(n)), sub |-> t.sub,
                       tok |-> t.tok, st |-> "P"]
               more == CreateInbound(rows, row)
               task == [t EXCEPT !.pc = "mark"]
               tasks == (tasksOf[n] \ {t}) \cup {task}
    <3>1. actionsOf' = [actionsOf EXCEPT ![n] = more]
      BY <1>1, <1>5, <2>1 DEF StoresInbound
    <3>2. tasksOf' = [tasksOf EXCEPT ![n] = tasks]
      BY <1>5, <2>1 DEF StoresInbound, Goes
    <3>3. row.issuer = Peer(n) /\ row.key = Peer(n)
      BY DEF KeyOf
    <3> HIDE DEF row
    <3>4. KeepsRows(n, rows, more) /\ NewRows(n, rows, more)
      BY <1>1, <3>3, CreateInboundKeeps
    <3> HIDE DEF more
    <3>5. task.kind = t.kind /\ task.pc = "mark"
      BY <1>1, TaskUpdated
    <3>6. task.kind = "verify" /\ ~Grants(task)
      BY <1>1, <3>5 DEF Grants
    <3> HIDE DEF task
    <3>7. /\ \A u \in tasks : u \in tasksOf[n] \/ (u.kind = "verify" /\ ~Grants(u))
          /\ tasksOf[n] \subseteq tasks \cup {t}
      BY <3>6
    <3> HIDE DEF tasks
    <3>8. UNCHANGED <<profileOf, consents, lapsed, scenario>>
      BY <1>5 DEF StoresInbound
    <3> QED BY <1>1, <3>1, <3>2, <3>4, <3>7, <3>8, ConsentReceives
  <2>2. CASE Find(rows, t.tok) # {}
    <3>1. /\ UNCHANGED <<actionsOf, profileOf, consents, lapsed>>
          /\ Goes(n, t, [t EXCEPT !.pc = "hook"]) \/ Ends(n, t)
      BY <1>5, <2>2 DEF StoresInbound
    <3> QED BY <1>1, <1>2, <1>3, <3>1, ConsentEnds
  <2> QED BY <2>1, <2>2
<1>6. CASE MarksVerifying(n, t)
  <2> DEFINE more == SetStatus(rows, t.tok, "V")
             task == [t EXCEPT !.pc = "hook"]
             tasks == (tasksOf[n] \ {t}) \cup {task}
  <2>1. /\ actionsOf' = [actionsOf EXCEPT ![n] = more]
        /\ tasksOf' = [tasksOf EXCEPT ![n] = tasks]
        /\ UNCHANGED <<profileOf, consents, lapsed, scenario>>
    BY <1>1, <1>6 DEF MarksVerifying, Goes
  <2>2. KeepsRows(n, rows, more) /\ NewRows(n, rows, more)
    BY <1>1, SetStatusKeeps, NoNewRows
  <2> HIDE DEF more
  <2>3. task.kind = t.kind /\ task.pc = "hook"
    BY <1>1, TaskUpdated
  <2>4. task.kind = "verify" /\ ~Grants(task)
    BY <1>1, <2>3 DEF Grants
  <2> HIDE DEF task
  <2>5. /\ \A u \in tasks : u \in tasksOf[n] \/ (u.kind = "verify" /\ ~Grants(u))
        /\ tasksOf[n] \subseteq tasks \cup {t}
    BY <2>4
  <2> HIDE DEF tasks
  <2> QED BY <1>1, <2>1, <2>2, <2>5, ConsentReceives
<1>7. CASE ReceivesRequest(n, t)
  <2> DEFINE follows == [profileOf EXCEPT ![n].follower = TRUE]
  <2>1. UNCHANGED <<actionsOf, consents, lapsed>>
    BY <1>7 DEF ReceivesRequest
  <2>2. \/ OwnRequest(n) /\ Goes(n, t, [t EXCEPT !.pc = "connect"]) /\ UNCHANGED profileOf
        \/ Goes(n, t, [t EXCEPT !.pc = "respond"]) /\ UNCHANGED profileOf
        \/ RestsAt(n, t, "D") /\ UNCHANGED profileOf
        \/ RestsAt(n, t, "C") /\ profileOf' = follows
    <3> HIDE DEF follows
    <3>1. scenario.mode[n] \in {"ask", "ignore", "accept"}
      BY <1>0 DEF Modes
    <3>2. CASE scenario.mode[n] = "ask"
      BY <1>7, <3>2 DEF ReceivesRequest, follows
    <3>3. CASE scenario.mode[n] = "ignore"
      BY <1>7, <3>3 DEF ReceivesRequest
    <3>4. CASE scenario.mode[n] = "accept"
      BY <1>7, <3>4 DEF ReceivesRequest
    <3> QED BY <3>1, <3>2, <3>3, <3>4
  <2>3. /\ \A m \in Nodes \ {n} : follows[m] = profileOf[m]
        /\ follows[n].connected = profileOf[n].connected
    BY <1>1 DEF Profiles
  <2> HIDE DEF follows
  <2>4. CASE OwnRequest(n) /\ Goes(n, t, [t EXCEPT !.pc = "connect"]) /\ UNCHANGED profileOf
    BY <1>3, <2>1, <2>4, OwnRequestAgreed
  <2>5. CASE Goes(n, t, [t EXCEPT !.pc = "respond"]) /\ UNCHANGED profileOf
    BY <1>3, <2>1, <2>5
  <2>6. CASE RestsAt(n, t, "D") /\ UNCHANGED profileOf
    BY <1>4, <2>1, <2>6
  <2>7. CASE RestsAt(n, t, "C") /\ profileOf' = follows
    BY <1>4, <2>1, <2>3, <2>7
  <2> QED BY <2>2, <2>4, <2>5, <2>6, <2>7
<1>8. CASE RespondsAcceptance(n, t)
  <2> DEFINE task == [t EXCEPT !.pc = "connect"]
             rest == (tasksOf[n] \ {t}) \cup {task}
  <2>1. /\ Creates(n, "ACC", rest) /\ UNCHANGED <<profileOf, lapsed, scenario>>
        /\ consents' = [consents EXCEPT ![n] = TRUE]
    BY <1>8 DEF RespondsAcceptance
  <2>2. task.kind = t.kind
    BY <1>1, TaskUpdated
  <2>3. Granted(n)'
    BY <1>1, <2>1 DEF Granted
  <2> HIDE DEF task
  <2>4. \A u \in rest : u \in tasksOf[n] \/ (u.kind # "create" /\ (Grants(u) => Granted(n)'))
    BY <1>1, <2>2, <2>3
  <2>5. \A u \in tasksOf[n] : u.kind = "create" => u \in rest
    BY <1>1
  <2> HIDE DEF rest
  <2> QED BY <1>1, <2>1, <2>4, <2>5, ConsentCreates
<1>9. CASE ReceivesAcceptance(n, t)
  <2>1. /\ UNCHANGED <<actionsOf, profileOf, consents, lapsed>>
        /\ (OwnRequest(n) /\ Goes(n, t, [t EXCEPT !.pc = "connect"])) \/ RestsAt(n, t, "D")
    BY <1>9 DEF ReceivesAcceptance
  <2> QED BY <1>3, <1>4, <2>1, OwnRequestAgreed
<1>10. CASE ConnectsPeer(n, t)
  <2>1. /\ UNCHANGED <<actionsOf, consents, lapsed>> /\ RestsAt(n, t, "A")
        /\ \A m \in Nodes \ {n} : profileOf'[m] = profileOf[m]
        /\ Grants(t)
    BY <1>1, <1>10 DEF ConnectsPeer, Grants
  <2> QED BY <1>1, <1>4, <2>1
<1>11. CASE ReceivesDisconnect(n, t)
  <2>1. /\ UNCHANGED <<actionsOf, consents, lapsed>> /\ RestsAt(n, t, "N")
        /\ \A m \in Nodes \ {n} : profileOf'[m] = profileOf[m]
        /\ profileOf'[n].connected = "no"
    BY <1>1, <1>11 DEF ReceivesDisconnect, Profiles
  <2> QED BY <1>4, <2>1
<1>12. CASE Activates(n, t)
  <2> DEFINE more == SetStatus(rows, t.tok, t.noted)
             tasks == tasksOf[n] \ {t}
  <2>1. /\ actionsOf' = [actionsOf EXCEPT ![n] = more]
        /\ tasksOf' = [tasksOf EXCEPT ![n] = tasks]
        /\ UNCHANGED <<profileOf, consents, lapsed, scenario>>
    BY <1>1, <1>12 DEF Activates, Ends
  <2>2. KeepsRows(n, rows, more) /\ NewRows(n, rows, more)
    BY <1>1, SetStatusKeeps, NoNewRows
  <2> HIDE DEF more
  <2>3. /\ \A u \in tasks : u \in tasksOf[n] \/ (u.kind = "verify" /\ ~Grants(u))
        /\ tasksOf[n] \subseteq tasks \cup {t}
    OBVIOUS
  <2> HIDE DEF tasks
  <2> QED BY <1>1, <2>1, <2>2, <2>3, ConsentReceives
<1> QED BY <1>5, <1>6, <1>7, <1>8, <1>9, <1>10, <1>11, <1>12

(* A node is connected only to a peer it has asked for or agreed to, and   *)
(* has not cut off since: each task that will connect without looking      *)
(* again, and each own row on record that one would look at, goes back to  *)
(* the user's consent.                                                     *)
THEOREM ConsentedCorrect == HandshakeSpec => []Consented
<1>1. HandshakeInit => ConsentInv
  <2> SUFFICES ASSUME HandshakeInit PROVE ConsentInv
    OBVIOUS
  <2>1. OwnInv
    BY OwnInitial
  <2>2. ASSUME NEW n \in Nodes PROVE ConsentSound(n)
    BY DEF HandshakeInit, ConsentSound
  <2> QED BY <2>1, <2>2 DEF HandshakeInit, ConsentInv
<1>2. ConsentInv /\ [HandshakeNext]_hsVars => ConsentInv'
  <2> SUFFICES ASSUME ConsentInv, [HandshakeNext]_hsVars PROVE ConsentInv'
    OBVIOUS
  <2>1. ASSUME HandshakeNext PROVE ConsentInv'
    BY <2>1, ConsentUserStep, ConsentCreatorStep, ConsentDeliveryStep, ConsentVerifierStep
       DEF HandshakeNext, RunsTask
  <2>2. CASE UNCHANGED hsVars
    BY <2>2 DEF hsVars, ConsentInv, ConsentSound, Agreed, Granted, Disconnecting, OwnInv,
       NodeSound
  <2> QED BY <2>1, <2>2
<1>3. ConsentInv => Consented
  BY DEF ConsentInv, ConsentSound, Granted, Consented
<1> QED BY <1>1, <1>2, <1>3, PTL DEF HandshakeSpec

-----------------------------------------------------------------------------
(***************************************************************************)
(* Verification: penalties for a bad signature are deserved.               *)
(***************************************************************************)

Places == {"away", "check", "look", "fetch", "answered", "judge", "accepted", "refused"}
Bytes == Nat \cup {Unreachable, TurnedAway}

VerificationType ==
    /\ published \in [KeyIds -> Nat]
    /\ keyCached \in [KeyIds -> [bytes : Nat, valid : BOOLEAN]]
    /\ fetchFailure \in [KeyIds -> {"none", "kept", "expired"}]
    /\ mailOf \in [Mail -> [key : KeyIds, bytes : Nat]]
    /\ verifying \in [Mail -> [pc : Places, stale : Nat, answer : Bytes]]
    /\ penalized \subseteq Mail

(* The issuer numbers its keys upwards, so that a token is never signed    *)
(* with a key newer than the published one.  An answer was published after *)
(* the token had arrived: it is not older than the token's key.  The stale *)
(* key is one the token did not verify with.                               *)
TokenSound(t) ==
    LET v == verifying[t]
        m == mailOf[t]
        newest == published[m.key]
    IN  /\ v.pc # "away" => m.bytes <= newest
        /\ v.pc \in {"answered", "judge"} /\ v.answer \in Nat =>
             m.bytes <= v.answer /\ v.answer <= newest
        /\ v.pc = "judge" => v.answer \in Nat
        /\ v.pc \in {"fetch", "answered"} /\ v.stale # NoKey => v.stale # m.bytes
        /\ t \in penalized => v.pc = "refused" /\ m.bytes < newest

PenaltyInv == VerificationType /\ \A t \in Mail : TokenSound(t)

(* Nothing is being verified at the start.                                 *)
LEMMA PenaltyInit == VerificationInit => PenaltyInv
<1> SUFFICES ASSUME VerificationInit PROVE PenaltyInv
  OBVIOUS
<1>1. VerificationType
  BY MailAssumption
  DEF VerificationInit, VerificationType, Places, Bytes, AtRest, NoKey
<1>2. ASSUME NEW t \in Mail PROVE TokenSound(t)
  BY DEF VerificationInit, TokenSound, AtRest
<1> QED BY <1>1, <1>2 DEF PenaltyInv

(* A step of one token leaves the others' records, keys and penalties.     *)
LEMMA OthersSound ==
    ASSUME PenaltyInv, NEW t \in Mail, VerificationType', TokenSound(t)',
           UNCHANGED published,
           \A u \in Mail \ {t} : /\ verifying'[u] = verifying[u]
                                 /\ mailOf'[u] = mailOf[u]
                                 /\ u \in penalized' => u \in penalized
    PROVE  PenaltyInv'
<1> SUFFICES ASSUME NEW u \in Mail \ {t} PROVE TokenSound(u)'
  BY DEF PenaltyInv
<1> QED BY DEF PenaltyInv, TokenSound

(* Rotations, expirations and arrivals.                                    *)
LEMMA IssuerStep ==
    ASSUME PenaltyInv, NEW k \in KeyIds,
           RotatesKey(k) \/ FailureExpires(k) \/ KeyExpires(k)
    PROVE  PenaltyInv'
<1>1. CASE RotatesKey(k)
  <2>1. VerificationType'
    BY <1>1 DEF PenaltyInv, VerificationType, RotatesKey
  <2>2. \A j \in KeyIds : published[j] <= published'[j]
    BY <1>1 DEF PenaltyInv, VerificationType, RotatesKey
  <2>3. ASSUME NEW t \in Mail PROVE TokenSound(t)'
    <3>1. /\ mailOf[t].key \in KeyIds /\ mailOf[t].bytes \in Nat
          /\ verifying[t].answer \in Bytes
      BY DEF PenaltyInv, VerificationType
    <3>2. published[mailOf[t].key] \in Nat /\ published'[mailOf[t].key] \in Nat
      BY <2>1, <3>1 DEF PenaltyInv, VerificationType
    <3>3. UNCHANGED <<mailOf, verifying, penalized>>
      BY <1>1 DEF RotatesKey
    <3> QED BY <2>2, <3>1, <3>2, <3>3 DEF PenaltyInv, TokenSound, Bytes
  <2> QED BY <2>1, <2>3 DEF PenaltyInv
<1>2. CASE FailureExpires(k)
  BY <1>2 DEF PenaltyInv, VerificationType, TokenSound, FailureExpires
<1>3. CASE KeyExpires(k)
  BY <1>3 DEF PenaltyInv, VerificationType, TokenSound, KeyExpires
<1> QED BY <1>1, <1>2, <1>3

(* A token that arrives has met no answer and no refusal yet.              *)
LEMMA ArrivalStep ==
    ASSUME PenaltyInv, NEW t \in Mail, NEW k \in KeyIds, Arrives(t, k)
    PROVE  PenaltyInv'
<1>1. VerificationType'
  BY DEF PenaltyInv, VerificationType, Arrives, Places, Bytes, NoKey
<1>2. TokenSound(t)'
  BY DEF PenaltyInv, VerificationType, TokenSound, Arrives, NoKey
<1> QED BY <1>1, <1>2, OthersSound DEF Arrives, PenaltyInv, VerificationType

(* The verifier's steps, one by one.                                       *)
LEMMA VerificationStep ==
    ASSUME PenaltyInv, NEW t \in Mail, VerifierSteps(t)
    PROVE  PenaltyInv'
<1> USE DEF PenaltyInv
<1> DEFINE k == mailOf[t].key
           v == verifying[t]
<1>0. /\ k \in KeyIds /\ mailOf[t].bytes \in Nat /\ published[k] \in Nat
      /\ v.pc \in Places /\ v.stale \in Nat /\ v.answer \in Bytes
      /\ keyCached[k].bytes \in Nat /\ keyCached[k].valid \in BOOLEAN
  BY DEF VerificationType
<1>1. CASE ChecksFailure(t)
  <2>1. VerificationType'
    BY <1>0, <1>1 DEF VerificationType, ChecksFailure, Places
  <2>2. TokenSound(t)'
    BY <1>0, <1>1 DEF VerificationType, TokenSound, ChecksFailure
  <2> QED BY <1>1, <2>1, <2>2, OthersSound DEF ChecksFailure, VerificationType
<1>2. CASE TriesCachedKey(t)
  <2>1. VerificationType'
    BY <1>0, <1>2 DEF VerificationType, TriesCachedKey, Places, Bytes, AtRest, NoKey
  <2>2. TokenSound(t)'
    BY <1>0, <1>2 DEF VerificationType, TokenSound, TriesCachedKey, AtRest, NoKey
  <2> QED BY <1>2, <2>1, <2>2, OthersSound DEF TriesCachedKey, VerificationType
<1>3. CASE FetchesProfile(t)
  <2>1. PICK a \in {published[k], Unreachable, TurnedAway} :
          verifying' = [verifying EXCEPT ![t] = [v EXCEPT !.pc = "answered", !.answer = a]]
    BY <1>3 DEF FetchesProfile, VerificationType
  <2>2. a \in Bytes
    BY <1>0 DEF Bytes
  <2>3. [v EXCEPT !.pc = "answered", !.answer = a]
           \in [pc : Places, stale : Nat, answer : Bytes]
    BY <2>2 DEF VerificationType, Places
  <2>4. UNCHANGED <<published, keyCached, fetchFailure, mailOf, penalized>>
    BY <1>3 DEF FetchesProfile
  <2>5. VerificationType'
    BY <2>1, <2>3, <2>4 DEF VerificationType
  <2>6. /\ verifying'[t].pc = "answered" /\ verifying'[t].stale = v.stale
        /\ verifying'[t].answer = a
    BY <2>1 DEF VerificationType
  <2>7. v.pc = "fetch"
    BY <1>3 DEF FetchesProfile
  <2>8. TokenSound(t)'
    BY <1>0, <2>1, <2>4, <2>6, <2>7 DEF TokenSound, Unreachable, TurnedAway
  <2> QED BY <2>1, <2>4, <2>5, <2>8, OthersSound DEF VerificationType
<1>4. CASE TakesAnswer(t)
  <2> DEFINE Answer == v.answer
  <2>1. v.pc = "answered" /\ UNCHANGED <<published, mailOf>>
    BY <1>4 DEF TakesAnswer
  <2>2. CASE Answer \in {NoKey, Unreachable, TurnedAway}
    <3>1. PICK r \in {AfterFailure(Answer)} :
            /\ verifying' = [verifying EXCEPT ![t] = r]
            /\ fetchFailure' = [fetchFailure EXCEPT ![k] = "kept"]
            /\ UNCHANGED <<keyCached, penalized>>
      BY <1>4, <2>2 DEF TakesAnswer
    <3>2. /\ r \in [pc : Places, stale : Nat, answer : Bytes]
          /\ r.pc \in {"refused", "check"}
      <4>1. CASE Answer = Unreachable
        BY <4>1 DEF AfterFailure, AtRest, Places, Bytes, NoKey
      <4>2. CASE Answer # Unreachable
        <5>1. r = [Refused EXCEPT !.answer = Answer]
          BY <4>2 DEF AfterFailure
        <5>2. Refused = [pc |-> "refused", stale |-> NoKey, answer |-> NoKey]
          BY DEF Refused, AtRest
        <5> QED BY <1>0, <5>1, <5>2 DEF Places, NoKey
      <4> QED BY <4>1, <4>2
    <3>3. VerificationType'
      BY <1>0, <2>1, <3>1, <3>2 DEF VerificationType
    <3>4. verifying'[t] = r
      BY <3>1 DEF VerificationType
    <3>5. TokenSound(t)'
      BY <1>0, <2>1, <3>1, <3>2, <3>4 DEF TokenSound
    <3> QED BY <2>1, <3>1, <3>3, <3>5, OthersSound DEF VerificationType
  <2>3. CASE Answer \notin {NoKey, Unreachable, TurnedAway} /\ RefetchedSame(v.stale, Answer)
    <3>1. /\ verifying' = [verifying EXCEPT ![t] = Refused]
          /\ penalized' = penalized \cup {t}
          /\ UNCHANGED <<keyCached, fetchFailure>>
      BY <1>4, <2>3 DEF TakesAnswer
    <3>2. /\ Refused \in [pc : Places, stale : Nat, answer : Bytes]
          /\ Refused.pc = "refused"
      BY DEF Refused, AtRest, Places, Bytes, NoKey
    <3>3. VerificationType'
      BY <2>1, <3>1, <3>2 DEF VerificationType
    <3>4. verifying'[t] = Refused
      BY <3>1 DEF VerificationType
    <3>5. mailOf[t].bytes < published[k]
      BY <1>0, <2>1, <2>3 DEF TokenSound, RefetchedSame, Bytes
    <3>6. TokenSound(t)'
      BY <1>0, <2>1, <3>2, <3>4, <3>5 DEF TokenSound
    <3> QED BY <2>1, <3>1, <3>3, <3>6, OthersSound DEF VerificationType
  <2>4. CASE Answer \notin {NoKey, Unreachable, TurnedAway} /\ ~RefetchedSame(v.stale, Answer)
    <3>1. /\ verifying' = [verifying EXCEPT ![t] = [v EXCEPT !.pc = "judge"]]
          /\ keyCached' = [keyCached EXCEPT ![k] = [bytes |-> Answer, valid |-> TRUE]]
          /\ UNCHANGED <<fetchFailure, penalized>>
      BY <1>4, <2>4 DEF TakesAnswer, Proceeds
    <3>2. [v EXCEPT !.pc = "judge"] \in [pc : Places, stale : Nat, answer : Bytes]
      BY DEF VerificationType, Places
    <3>3. Answer \in Nat
      BY <1>0, <2>4 DEF Bytes
    <3>4. VerificationType'
      BY <1>0, <2>1, <3>1, <3>2, <3>3 DEF VerificationType
    <3>5. verifying'[t] = [v EXCEPT !.pc = "judge"]
      BY <3>1 DEF VerificationType
    <3>6. verifying'[t].pc = "judge" /\ verifying'[t].answer = Answer
      BY <3>5 DEF VerificationType
    <3>7. TokenSound(t)'
      BY <1>0, <2>1, <3>1, <3>3, <3>6 DEF TokenSound
    <3> QED BY <2>1, <3>1, <3>4, <3>7, OthersSound DEF VerificationType
  <2> QED BY <2>2, <2>3, <2>4
<1>5. CASE VerifiesFresh(t)
  <2> DEFINE genuine == v.answer = mailOf[t].bytes
  <2>1. /\ v.pc = "judge" /\ UNCHANGED <<published, keyCached, mailOf>>
        /\ fetchFailure' = [fetchFailure EXCEPT ![k] = "none"]
        /\ penalized' = IF genuine THEN penalized ELSE penalized \cup {t}
    BY <1>5 DEF VerifiesFresh
  <2>2. PICK r \in {Refused, [AtRest EXCEPT !.pc = "accepted"]} :
          /\ verifying' = [verifying EXCEPT ![t] = r]
          /\ ~genuine => r = Refused
    BY <1>5 DEF VerifiesFresh
  <2>3. /\ r \in [pc : Places, stale : Nat, answer : Bytes]
        /\ r.pc \in {"refused", "accepted"}
        /\ r = Refused => r.pc = "refused"
    BY DEF Refused, AtRest, Places, Bytes, NoKey
  <2>4. VerificationType'
    BY <1>0, <2>1, <2>2, <2>3 DEF VerificationType
  <2>5. verifying'[t] = r
    BY <2>2 DEF VerificationType
  <2>6. /\ t \notin penalized
        /\ ~genuine => mailOf[t].bytes < published[k]
    BY <1>0, <2>1 DEF TokenSound, Bytes
  <2>7. TokenSound(t)'
    BY <1>0, <2>1, <2>2, <2>3, <2>5, <2>6 DEF TokenSound
  <2> QED BY <2>1, <2>2, <2>4, <2>7, OthersSound DEF VerificationType
<1> QED BY <1>1, <1>2, <1>3, <1>4, <1>5 DEF VerifierSteps

(* Every step keeps the invariant.                                         *)
LEMMA PenaltyStep == PenaltyInv /\ [VerificationNext]_verifyVars => PenaltyInv'
<1> SUFFICES ASSUME PenaltyInv, [VerificationNext]_verifyVars PROVE PenaltyInv'
  OBVIOUS
<1>1. CASE UNCHANGED verifyVars
  BY <1>1 DEF verifyVars, PenaltyInv, VerificationType, TokenSound
<1> QED BY <1>1, IssuerStep, ArrivalStep, VerificationStep DEF VerificationNext

(* Nobody is penalized for a stale entry of the key cache, whatever the    *)
(* issuer rotates and whichever fetches fail.                              *)
THEOREM PenaltyDeservedCorrect == VerificationSpec => []PenaltyDeserved
<1>1. PenaltyInv => PenaltyDeserved
  BY DEF PenaltyInv, VerificationType, TokenSound, PenaltyDeserved
<1> QED BY <1>1, PenaltyInit, PenaltyStep, PTL DEF VerificationSpec
=============================================================================
