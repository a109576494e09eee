------------------------- MODULE HandshakeProperties -------------------------
(* What a connection handshake promises, whatever the order of its tasks.  *)
EXTENDS Handshake

Disconnecting(n) ==
    \E t \in tasksOf[n] : t.kind = "create" /\ t.sub = "DEL" /\ t.pc = "hook"

(* A node is connected only to a peer it has asked for or agreed to, and   *)
(* has not cut off since, whatever the peer sends and in whatever order    *)
(* the deliveries arrive.                                                  *)
Consented ==
    \A n \in Nodes :
      profileOf[n].connected = "yes" /\ ~lapsed[n] /\ ~Disconnecting(n)
        => consents[n]

(* Of the actions a node has signed under one key, one at most is live.    *)
OneLiveOwn ==
    \A n \in Nodes : Cardinality({i \in DOMAIN actionsOf[n] :
      /\ actionsOf[n][i].issuer = n /\ Sealed(actionsOf[n][i])
      /\ actionsOf[n][i].st # "D"}) <= 1

Unrested(n) ==
    \E i \in DOMAIN actionsOf[n] :
      Sealed(actionsOf[n][i]) /\ actionsOf[n][i].st \in {"P", "V"}

(* A received action does not stay half processed: the restart of its      *)
(* verifier at any point resumes it.                                       *)
EventuallyRests == \A n \in Nodes : []<>~Unrested(n)

JustAccepted ==
    /\ scenario.restarts = 0
    /\ \E n \in Nodes : scenario.acts[n] = <<"REQ">> /\ scenario.acts[Peer(n)] = <<"ACC">>
    /\ \A n \in Nodes : toGo.acts[n] = <<>>

BothConnected == \A n \in Nodes : profileOf[n].connected = "yes"

(* One request that is answered by one acceptance, and nothing else done,  *)
(* connects both sides.                                                    *)
AcceptedSettles == JustAccepted ~> BothConnected
=============================================================================
