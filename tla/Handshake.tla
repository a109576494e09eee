------------------------------ MODULE Handshake ------------------------------
(***************************************************************************)
(* The connection handshake of two identities, each on a node of its own:  *)
(* the life of a CONN action from create_action over its creator task, its *)
(* delivery task and the peer's verifier task to its resting status, with  *)
(* the CONN hooks.                                                         *)
(*                                                                         *)
(* Tasks are those of the scheduler: they survive a restart and start      *)
(* again from the beginning, deliveries are retried until the peer         *)
(* answers, and tasks of one node run side by side.  What a task does      *)
(* between two awaits that others can come between is one action.          *)
(***************************************************************************)
EXTENDS ActionTable, FiniteSets

CONSTANTS
    Nodes,          \* the two identities
    Scenarios       \* what the runs go through, see ScenariosAssumption

Modes == {"ask", "ignore", "accept"}
UserActs == {"REQ", "ACC", "REJ", "DEL"}

ASSUME NodesAssumption == IsFiniteSet(Nodes) /\ Cardinality(Nodes) = 2

(* The setting profile.connection_mode of each node; what each user does,  *)
(* in which order; and the bounds: restarts of either node, and deliveries *)
(* whose answer is lost.                                                   *)
ASSUME ScenariosAssumption ==
    \A s \in Scenarios :
      /\ s.mode \in [Nodes -> Modes]
      /\ \A n \in Nodes : \A i \in DOMAIN s.acts[n] : s.acts[n][i] \in UserActs
      /\ s.restarts \in Nat /\ s.losses \in Nat

VARIABLES
    scenario,    \* the scenario of this behaviour
    actionsOf,   \* the actions table of each node
    profileOf,   \* what each node keeps of the other one's profile
    tasksOf,     \* the pending tasks of each node
    signedBy,    \* tokens each node has signed
    toGo,        \* what is left of the scenario: acts, restarts, losses
    consents,    \* history: the node has asked for or agreed to what it has
    lapsed       \* history: an overlap the code does not exclude has happened

hsVars == <<scenario, actionsOf, profileOf, tasksOf, signedBy, toGo, consents,
            lapsed>>

Peer(n) == CHOOSE p \in Nodes : p # n

(* The key pattern {type}:{issuer}:{audience}; the type is CONN.           *)
KeyOf(issuer) == issuer

HandshakeInit ==
    /\ scenario \in Scenarios
    /\ actionsOf = [n \in Nodes |-> <<>>]
    /\ profileOf = [n \in Nodes |-> [connected |-> "no", following |-> FALSE,
                                     follower |-> FALSE]]
    /\ tasksOf = [n \in Nodes |-> {}]
    /\ signedBy = [n \in Nodes |-> 0]
    /\ toGo = [acts |-> scenario.acts, restarts |-> scenario.restarts,
                losses |-> scenario.losses]
    /\ consents = [n \in Nodes |-> FALSE]
    /\ lapsed = [n \in Nodes |-> FALSE]

CreatorTask(i, sub) ==
    [kind |-> "create", row |-> i, sub |-> sub, tok |-> NoToken, pc |-> "start",
     noted |-> ""]
DeliveryTask(tok, sub) ==
    [kind |-> "deliver", row |-> 0, sub |-> sub, tok |-> tok, pc |-> "start",
     noted |-> ""]
VerifierTask(tok, sub) ==
    [kind |-> "verify", row |-> 0, sub |-> sub, tok |-> tok, pc |-> "start",
     noted |-> ""]

Goes(n, t, u) == tasksOf' = [tasksOf EXCEPT ![n] = (@ \ {t}) \cup {u}]
Ends(n, t)    == tasksOf' = [tasksOf EXCEPT ![n] = @ \ {t}]

(* A task that will set connected whatever happens meanwhile.              *)
Committed(t) ==
    \/ t.kind = "verify" /\ t.pc \in {"respond", "connect"}
    \/ t.kind = "create" /\ t.pc = "hook" /\ t.sub = "ACC"

(* The relation with the peer once a connection is made; both are persons, *)
(* and their profiles are synced.                                          *)
Connected == [connected |-> "yes", following |-> TRUE, follower |-> TRUE]

-----------------------------------------------------------------------------
(* create_action: a pending row and its creator task.  The tasks of others *)
(* that n has are given by rest.                                           *)

Creates(n, sub, rest) ==
    /\ actionsOf' = [actionsOf EXCEPT ![n] = CreatePending(@,
         [issuer |-> n, key |-> KeyOf(n), sub |-> sub, tok |-> NoToken, st |-> "P"])]
    /\ tasksOf' = [tasksOf EXCEPT ![n] =
         rest \cup {CreatorTask(Len(actionsOf[n]) + 1, sub)}]

Does(n, what) ==
    /\ toGo.acts[n] # <<>>
    /\ Head(toGo.acts[n]) = what
    /\ toGo' = [toGo EXCEPT !.acts[n] = Tail(@)]

(* The user asks for a connection, or ends one.                            *)
AsksConnection(n) ==
    /\ Does(n, "REQ")
    /\ Creates(n, "REQ", tasksOf[n])
    /\ consents' = [consents EXCEPT ![n] = TRUE]
    /\ UNCHANGED <<profileOf, signedBy, lapsed>>

Disconnects(n) ==
    /\ Does(n, "DEL")
    /\ Creates(n, "DEL", tasksOf[n])
    /\ UNCHANGED <<profileOf, signedBy, consents, lapsed>>

(* The received requests the user's client may show: the handlers look at  *)
(* no status, so one that was withdrawn meanwhile can still be answered.   *)
Answerable(n) == {i \in DOMAIN actionsOf[n] :
    actionsOf[n][i].issuer # n /\ actionsOf[n][i].sub = "REQ"
    /\ actionsOf[n][i].st \in {"C", "D"}}

(* post_action_accept with on_accept: an acceptance is created, and the    *)
(* request becomes 'A'.                                                    *)
AcceptsRequest(n) ==
    \E i \in Answerable(n) :
      /\ Does(n, "ACC")
      /\ actionsOf' = [actionsOf EXCEPT ![n] = SetStatus(CreatePending(@,
           [issuer |-> n, key |-> KeyOf(n), sub |-> "ACC", tok |-> NoToken,
            st |-> "P"]), @[i].tok, "A")]
      /\ tasksOf' = [tasksOf EXCEPT ![n] =
           @ \cup {CreatorTask(Len(actionsOf[n]) + 1, "ACC")}]
      /\ consents' = [consents EXCEPT ![n] = TRUE]
      /\ UNCHANGED <<profileOf, signedBy, lapsed>>

RejectsRequest(n) ==
    \E i \in Answerable(n) :
      /\ Does(n, "REJ")
      /\ actionsOf' = [actionsOf EXCEPT ![n] = SetStatus(@, @[i].tok, "D")]
      /\ profileOf' = [profileOf EXCEPT ![n].connected = "no",
                                        ![n].following = FALSE]
      /\ UNCHANGED <<tasksOf, signedBy, consents, lapsed>>

-----------------------------------------------------------------------------
(* ActionCreatorTask: sign and finalize, run the on_create hook, schedule  *)
(* the delivery.  A token is signed anew in each attempt, so that a second *)
(* one finds another action_id in the row and fails, for good.             *)

Finalizes(n, t) ==
    /\ t.kind = "create" /\ t.pc = "start"
    /\ LET tok == <<n, signedBy[n] + 1>>
       IN  /\ signedBy' = [signedBy EXCEPT ![n] = @ + 1]
           /\ IF Finalizable(actionsOf[n], t.row)
                THEN /\ actionsOf' = [actionsOf EXCEPT ![n] = Finalize(@, t.row, tok)]
                     /\ Goes(n, t, [t EXCEPT !.tok = tok, !.pc = "hook"])
                     /\ IF t.sub = "DEL"
                          THEN /\ consents' = [consents EXCEPT ![n] = FALSE]
                               /\ lapsed' = [lapsed EXCEPT ![n] =
                                    @ \/ \E u \in tasksOf[n] : Committed(u)]
                          ELSE UNCHANGED <<consents, lapsed>>
                ELSE /\ Ends(n, t)
                     /\ UNCHANGED <<actionsOf, consents, lapsed>>
    /\ UNCHANGED <<profileOf, toGo>>

(* on_create of a request, first part: is the peer connected already?      *)
LooksBeforeRequest(n, t) ==
    /\ t.kind = "create" /\ t.pc = "hook" /\ t.sub = "REQ"
    /\ Goes(n, t, [t EXCEPT !.pc = "write", !.noted = profileOf[n].connected])
    /\ UNCHANGED <<actionsOf, profileOf, signedBy, toGo, consents, lapsed>>

RecordsRequest(n, t) ==
    /\ t.kind = "create" /\ t.pc = "write"
    /\ profileOf' = [profileOf EXCEPT
         ![n].following = TRUE,
         ![n].connected = IF t.noted = "yes" THEN @ ELSE "requested"]
    /\ Goes(n, t, [t EXCEPT !.pc = "send", !.noted = ""])
    /\ UNCHANGED <<actionsOf, signedBy, toGo, consents, lapsed>>

RecordsAcceptance(n, t) ==
    /\ t.kind = "create" /\ t.pc = "hook" /\ t.sub = "ACC"
    /\ profileOf' = [profileOf EXCEPT ![n] = Connected]
    /\ Goes(n, t, [t EXCEPT !.pc = "send"])
    /\ UNCHANGED <<actionsOf, signedBy, toGo, consents, lapsed>>

RecordsDisconnect(n, t) ==
    /\ t.kind = "create" /\ t.pc = "hook" /\ t.sub = "DEL"
    /\ profileOf' = [profileOf EXCEPT ![n].connected = "no"]
    /\ Goes(n, t, [t EXCEPT !.pc = "send"])
    /\ UNCHANGED <<actionsOf, signedBy, toGo, consents, lapsed>>

SchedulesDelivery(n, t) ==
    /\ t.kind = "create" /\ t.pc = "send"
    /\ Goes(n, t, DeliveryTask(t.tok, t.sub))
    /\ UNCHANGED <<actionsOf, profileOf, signedBy, toGo, consents, lapsed>>

-----------------------------------------------------------------------------
(* ActionDeliveryTask posts the token; post_inbox makes a verifier task of *)
(* it.  A delivery whose answer is lost is made again.                     *)

Posted(n, t) == VerifierTask(t.tok, t.sub)

Delivers(n, t) ==
    /\ t.kind = "deliver"
    /\ tasksOf' = [tasksOf EXCEPT ![n] = @ \ {t},
                                  ![Peer(n)] = @ \cup {Posted(n, t)}]
    /\ UNCHANGED <<actionsOf, profileOf, signedBy, toGo, consents, lapsed>>

DeliversUnheard(n, t) ==
    /\ t.kind = "deliver"
    /\ toGo.losses > 0
    /\ toGo' = [toGo EXCEPT !.losses = @ - 1]
    /\ tasksOf' = [tasksOf EXCEPT ![Peer(n)] = @ \cup {Posted(n, t)}]
    /\ UNCHANGED <<actionsOf, profileOf, signedBy, consents, lapsed>>

-----------------------------------------------------------------------------
(* ActionVerifierTask: store, mark as verifying, run the on_receive hook,  *)
(* write the resting status.  A CONN is admitted from anyone.              *)

(* Faulty variant: a row that is known is a duplicate, whatever it has     *)
(* come to.                                                                *)
ResumableNever(st) == FALSE

Resumable(st) == st \in {"V", "P"}

StoresInbound(n, t) ==
    /\ t.kind = "verify" /\ t.pc = "start"
    /\ LET known == Find(actionsOf[n], t.tok)
       IN  IF known = {}
             THEN /\ actionsOf' = [actionsOf EXCEPT ![n] = CreateInbound(@,
                       [issuer |-> Peer(n), key |-> KeyOf(Peer(n)), sub |-> t.sub,
                        tok |-> t.tok, st |-> "P"])]
                  /\ Goes(n, t, [t EXCEPT !.pc = "mark"])
             ELSE /\ IF \E i \in known : Resumable(actionsOf[n][i].st)
                       THEN Goes(n, t, [t EXCEPT !.pc = "hook"])
                       ELSE Ends(n, t)
                  /\ UNCHANGED actionsOf
    /\ UNCHANGED <<profileOf, signedBy, toGo, consents, lapsed>>

MarksVerifying(n, t) ==
    /\ t.kind = "verify" /\ t.pc = "mark"
    /\ actionsOf' = [actionsOf EXCEPT ![n] = SetStatus(@, t.tok, "V")]
    /\ Goes(n, t, [t EXCEPT !.pc = "hook"])
    /\ UNCHANGED <<profileOf, signedBy, toGo, consents, lapsed>>

(* Faulty variant: any CONN of ours on record stands for a request.        *)
OwnRecord(n) == ByKey(actionsOf[n], KeyOf(n)) # {}

(* Our own CONN to the peer, when the newest one on record is a request.   *)
OwnRequest(n) ==
    \E i \in ByKey(actionsOf[n], KeyOf(n)) : actionsOf[n][i].sub = "REQ"

RestsAt(n, t, st) == Goes(n, t, [t EXCEPT !.pc = "rest", !.noted = st])

(* on_receive of a request: mutual when ours is on record, else as the     *)
(* connection mode says.                                                   *)
ReceivesRequest(n, t) ==
    /\ t.kind = "verify" /\ t.pc = "hook" /\ t.sub = "REQ"
    /\ IF OwnRequest(n)
         THEN Goes(n, t, [t EXCEPT !.pc = "connect"]) /\ UNCHANGED profileOf
         ELSE CASE scenario.mode[n] = "ignore" ->
                     RestsAt(n, t, "D") /\ UNCHANGED profileOf
                [] scenario.mode[n] = "accept" ->
                     Goes(n, t, [t EXCEPT !.pc = "respond"]) /\ UNCHANGED profileOf
                [] scenario.mode[n] = "ask" ->
                     /\ RestsAt(n, t, "C")
                     /\ profileOf' = [profileOf EXCEPT ![n].follower = TRUE]
    /\ UNCHANGED <<actionsOf, signedBy, toGo, consents, lapsed>>

RespondsAcceptance(n, t) ==
    /\ t.kind = "verify" /\ t.pc = "respond"
    /\ Creates(n, "ACC", (tasksOf[n] \ {t}) \cup {[t EXCEPT !.pc = "connect"]})
    /\ consents' = [consents EXCEPT ![n] = TRUE]
    /\ UNCHANGED <<profileOf, signedBy, toGo, lapsed>>

ReceivesAcceptance(n, t) ==
    /\ t.kind = "verify" /\ t.pc = "hook" /\ t.sub = "ACC"
    /\ IF OwnRequest(n) THEN Goes(n, t, [t EXCEPT !.pc = "connect"])
                        ELSE RestsAt(n, t, "D")
    /\ UNCHANGED <<actionsOf, profileOf, signedBy, toGo, consents, lapsed>>

ConnectsPeer(n, t) ==
    /\ t.kind = "verify" /\ t.pc = "connect"
    /\ profileOf' = [profileOf EXCEPT ![n] = Connected]
    /\ RestsAt(n, t, "A")
    /\ UNCHANGED <<actionsOf, signedBy, toGo, consents, lapsed>>

ReceivesDisconnect(n, t) ==
    /\ t.kind = "verify" /\ t.pc = "hook" /\ t.sub = "DEL"
    /\ profileOf' = [profileOf EXCEPT ![n].connected = "no"]
    /\ RestsAt(n, t, "N")
    /\ UNCHANGED <<actionsOf, signedBy, toGo, consents, lapsed>>

(* The one write of the resting status, whoever superseded the row since.  *)
Activates(n, t) ==
    /\ t.kind = "verify" /\ t.pc = "rest"
    /\ actionsOf' = [actionsOf EXCEPT ![n] = SetStatus(@, t.tok, t.noted)]
    /\ Ends(n, t)
    /\ UNCHANGED <<profileOf, signedBy, toGo, consents, lapsed>>

-----------------------------------------------------------------------------
(* A restart: each pending task is loaded and starts from the beginning.   *)
Reloaded(t) ==
    [t EXCEPT !.pc = "start", !.noted = "",
              !.tok = IF t.kind = "create" THEN NoToken ELSE @]

RestartsNode(n) ==
    /\ toGo.restarts > 0
    /\ tasksOf[n] # {}
    /\ toGo' = [toGo EXCEPT !.restarts = @ - 1]
    /\ tasksOf' = [tasksOf EXCEPT ![n] = {Reloaded(t) : t \in @}]
    /\ lapsed' = [lapsed EXCEPT ![n] = @ \/ \E t \in tasksOf[n] :
                    t.kind = "create" /\ t.sub = "DEL" /\ t.pc = "hook"]
    /\ UNCHANGED <<actionsOf, profileOf, signedBy, consents>>

RunsTask(n, t) ==
    \/ Finalizes(n, t) \/ LooksBeforeRequest(n, t) \/ RecordsRequest(n, t)
    \/ RecordsAcceptance(n, t) \/ RecordsDisconnect(n, t)
    \/ SchedulesDelivery(n, t) \/ Delivers(n, t)
    \/ StoresInbound(n, t) \/ MarksVerifying(n, t) \/ ReceivesRequest(n, t)
    \/ RespondsAcceptance(n, t) \/ ReceivesAcceptance(n, t) \/ ConnectsPeer(n, t)
    \/ ReceivesDisconnect(n, t) \/ Activates(n, t)

HandshakeNext ==
  /\ UNCHANGED scenario
  /\ \E n \in Nodes :
      \/ AsksConnection(n) \/ Disconnects(n)
      \/ AcceptsRequest(n) \/ RejectsRequest(n)
      \/ RestartsNode(n)
      \/ \E t \in tasksOf[n] : RunsTask(n, t) \/ DeliversUnheard(n, t)

(* The scheduler runs every pending task in the end, and a peer answers    *)
(* before the fifty retries of a delivery are used up.                     *)
NodeWorks(n) == UNCHANGED scenario /\ \E t \in tasksOf[n] : RunsTask(n, t)

HandshakeFairness == \A n \in Nodes : WF_hsVars(NodeWorks(n))

HandshakeSpec == HandshakeInit /\ [][HandshakeNext]_hsVars /\ HandshakeFairness
=============================================================================
