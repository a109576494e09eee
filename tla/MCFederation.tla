---------------------------- MODULE MCFederation ----------------------------
(* What two federated nodes do with each other's actions, in three parts   *)
(* that share no variable: the CONN handshake, the verification of a       *)
(* received token, and the worker pool in which a node runs its            *)
(* cryptography.  Each part is checked on its own: "part", chosen at the   *)
(* start, is the one that takes steps, and the others stay as they begin.  *)
EXTENDS HandshakeProperties, TokenVerification, WorkerPool, TLC

CONSTANTS a, b

(***************************************************************************)
(* Instances.  One node asks its user, the other is set to each mode in    *)
(* turn.  Up to three acts go through without faults, up to two with a     *)
(* restart or with an answer that is lost.                                 *)
(***************************************************************************)
Runs(k) == UNION {[1..l -> UserActs] : l \in 0..k}

Scenario(modeB, actsA, actsB, restarts, losses) ==
    [mode |-> (a :> "ask" @@ b :> modeB), acts |-> (a :> actsA @@ b :> actsB),
     restarts |-> restarts, losses |-> losses]

(* The asking comes first: what precedes it does nothing.                  *)
Starting(k) == {s \in Runs(k) : s # <<>> /\ s[1] = "REQ"}

MCScenarios ==
    {Scenario("ask", s, u, 0, 0) : s \in Starting(2), u \in Runs(1)}
    \cup {Scenario("ask", s, u, 0, 0) : s \in Starting(1), u \in Runs(2)}
    \cup {Scenario("ask", s, u, f, 1 - f) :
             s \in Starting(1), u \in Runs(1), f \in {0, 1}}
    \cup {Scenario(m, s, <<>>, f, 1 - f) :
             m \in {"accept", "ignore"}, s \in Starting(1), f \in {0, 1}}
    \cup {Scenario(m, s, u, 0, 0) :
             m \in {"accept", "ignore"}, s \in Starting(2), u \in Runs(0)}
    \cup {Scenario("ignore", <<"REQ">>, <<"REQ">>, 0, 0)}

MCPriorityOf == <<1, 2, 3>>
MCServes == <<3, 2>>

(***************************************************************************)
(* One part at a time.                                                     *)
(***************************************************************************)
VARIABLE part  \* the part that takes steps

fedVars == <<part, hsVars, verifyVars, poolVars>>

FedInit ==
    /\ part \in {"handshake", "verification", "pool"}
    /\ HandshakeInit /\ VerificationInit /\ PoolInit
    /\ part # "handshake" => scenario = Scenario("ask", <<"REQ">>, <<>>, 0, 0)

InHandshake(step) ==
    part = "handshake" /\ step /\ UNCHANGED <<part, verifyVars, poolVars>>

InVerification(step) ==
    part = "verification" /\ step /\ UNCHANGED <<part, hsVars, poolVars>>

InPool(step) ==
    part = "pool" /\ step /\ UNCHANGED <<part, hsVars, verifyVars>>

FedNext ==
    \/ InHandshake(HandshakeNext)
    \/ InVerification(VerificationNext)
    \/ InPool(PoolNext)

(* Each part keeps the fairness of its own specification: what a part      *)
(* that was not chosen would owe is never enabled.                         *)
FedFairness ==
    /\ \A n \in Nodes : WF_fedVars(InHandshake(NodeWorks(n)))
    /\ \A t \in Mail : WF_fedVars(InVerification(VerifierSteps(t)))
    /\ \A k \in KeyIds : WF_fedVars(InVerification(FailureExpires(k)))
    /\ \A w \in Threads : WF_fedVars(InPool(WorkerSteps(w)))

FedSpec == FedInit /\ [][FedNext]_fedVars /\ FedFairness

=============================================================================
