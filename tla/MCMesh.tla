------------------------------- MODULE MCMesh -------------------------------
(* One network that has its service and its stateful set, and the first of   *)
(* its pods, or none, ready, connected to each other and in the status: a    *)
(* state that the controller reaches from Init, and in which it has nothing  *)
(* to do.  Another one may have been deleted, its stateful set orphaned, and *)
(* a pod of that is about to get an address.                                 *)
EXTENDS BitcoinController

CONSTANTS Orphans,          \* networks of which only the stateful set is left
          InitialNodes,     \* Spec.Nodes of the network to begin with
          InitialReady      \* how many of its pods are ready to begin with

\* What the secret may hold: other credentials than the default ones, or yet others.
InitialSecret == [user |-> 1, password |-> 1]
TwoSecrets == {InitialSecret, [user |-> 1, password |-> 2]}

UpToTwo == 0 .. 2
TwoOrdinals == 0 .. 1
ThreeOrdinals == 0 .. 2
TwoIPs == 1 .. 2
ThreeIPs == 1 .. 3

InitialPods == [i \in Ordinals |-> IF i < InitialReady THEN [ip |-> i + 1, ready |-> TRUE]
                                                       ELSE Absent]

InitMesh ==
    LET ips == 1 .. InitialReady
        network == [uid |-> 1, version |-> 1, nodes |-> InitialNodes,
                    deleting |-> FALSE, status |-> InitialPods]
        statefulSet == [owner |-> 1, replicas |-> InitialNodes, ready |-> InitialReady]
        orphaned == [owner |-> 0, replicas |-> 1, ready |-> 0]
        starting == [ip |-> Absent, ready |-> FALSE]
    IN  /\ net = [n \in Networks |-> IF n \in Orphans THEN Absent ELSE network]
        /\ svc = [n \in Networks |-> [owner |-> IF n \in Orphans THEN 0 ELSE 1]]
        /\ sts = [n \in Networks |-> IF n \in Orphans THEN orphaned ELSE statefulSet]
        /\ pods = [n \in Networks |-> IF n \in Orphans THEN [EmptyList EXCEPT ![0] = starting]
                                                      ELSE InitialPods]
        /\ added = [ip \in IPs |-> IF ip \in ips THEN ips \ {ip} ELSE {}]
        /\ secret = [n \in Networks |-> InitialSecret]
        /\ login = [ip \in IPs |-> IF ip \in ips THEN InitialSecret ELSE DefaultLogin]
        /\ issued = ips
        /\ version = [n \in Networks |-> IF n \in Orphans THEN MaxVersion ELSE 1]
        /\ faults = {}
        /\ bcLister = net
        /\ svcLister = svc
        /\ stsLister = sts
        /\ podLister = pods
        /\ synced = Kinds
        /\ events = {}
        /\ running = TRUE
        /\ unread = {}
        /\ InitQueue
        /\ pc = [w \in Workers |-> "idle"]
        /\ bcNetwork = [w \in Workers |-> Absent]
        /\ stsRead = [w \in Workers |-> Absent]
        /\ nodeList = [w \in Workers |-> EmptyList]
        /\ config = [w \in Workers |-> Absent]
        /\ targets = [w \in Workers |-> {}]
        /\ target = [w \in Workers |-> Absent]
        /\ toAdd = [w \in Workers |-> {}]
        /\ toRemove = [w \in Workers |-> {}]
        /\ applied = [n \in Networks |-> 1]

MeshSpec == InitMesh /\ [][Next]_vars
FairMeshSpec == MeshSpec /\ InformersRun /\ WorkersRun /\ ClusterRuns
-----------------------------------------------------------------------------
\* What worker w asks for next, besides the update of the status that every pass sends:
\* a new object, another number of replicas, or anything of the secret and the daemons.
Interferes(w) == \/ pc[w] = "service" /\ svcLister[held[w]] = Absent
                 \/ pc[w] = "statefulset" /\ stsLister[held[w]] = Absent
                 \/ /\ pc[w] = "replicas"
                    /\ stsRead[w] # Absent
                    /\ stsRead[w].replicas # bcNetwork[w].nodes
                 \/ pc[w] \in {"credentials", "sync", "connect"}

\* In a cluster in which everything is as it should be neither the resyncs nor restarts of
\* the controller, whose caches fill one by one, make it ask for an object, for other
\* replicas or for anything of a daemon, and no object changes: the one thing that every
\* pass does write, without comparing it to anything, is the status that is there
\* already (Run waits for all four caches before it starts the workers).
SettledIsLeftAlone ==
    [][Disturbances' \subseteq {"crash"} => /\ \A w \in Workers : ~Interferes(w)'
                                            /\ UNCHANGED <<net, svc, sts, added>>]_vars
=============================================================================
