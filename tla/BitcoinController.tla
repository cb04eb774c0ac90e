-------------------------- MODULE BitcoinController --------------------------
(***************************************************************************)
(* The controller in its cluster: cmd/controller/main.go starts the        *)
(* informers and Run; the workers reconcile; users, the cluster and the    *)
(* daemons go on with their own business; the process may end at any point *)
(* and is started again with nothing but what the cluster has kept.        *)
(***************************************************************************)
EXTENDS Recon

vars == <<clusterVars, informerVars, queueVars, reconVars>>

Init == /\ InitCluster
        /\ InitInformers
        /\ InitQueue
        /\ InitRecon

\* The changes of the cluster that the controller has no part in.
Users(n) == UserCreate(n) \/ UserScale(n) \/ UserDelete(n) \/ UserOrphan(n)
            \/ UserDeleteForeground(n) \/ UserScaleSts(n) \/ UserChangesSecret(n)
GarbageCollector(n) == CollectService(n) \/ CollectStatefulSet(n) \/ FinishDelete(n)
Kubelets(n, i) == StartPod(n, i) \/ PodGetsAddress(n, i) \/ StopPod(n, i)
                  \/ PodBecomesReady(n, i) \/ PodBecomesUnready(n, i) \/ RestartDaemon(n, i)

\* What a step of the cluster, of an informer and of a handler leaves alone.
OutsideCluster == UNCHANGED <<informerVars, queueVars, reconVars>>
OutsideInformers == UNCHANGED <<clusterVars, queueVars, reconVars>>
OutsideHandlers == UNCHANGED <<clusterVars, reconVars>>

Environment == /\ \E n \in Networks : \/ Users(n)
                                      \/ GarbageCollector(n)
                                      \/ ReportReady(n)
                                      \/ \E i \in Ordinals : Kubelets(n, i)
               /\ OutsideCluster

Lists == ListNetworks \/ ListServices \/ ListStatefulSets \/ ListPods
Watches(n) == \/ WatchNetwork(n) \/ WatchService(n) \/ WatchStatefulSet(n)
              \/ \E i \in Ordinals : WatchPod(n, i)
Handlers(n) == HandleNetwork(n) \/ HandleObject(n)

InformerStep == \/ /\ \/ Lists \/ StartWorkers \/ ResyncNetworks \/ ResyncDependents
                      \/ \E n \in Networks : Watches(n)
                   /\ OutsideInformers
                \/ /\ \E n \in Networks : Handlers(n)
                   /\ OutsideHandlers

WorkerStep(w) == \/ Begin(w) \/ FetchNetwork(w) \/ EnsureService(w) \/ EnsureStatefulSet(w)
                 \/ AdjustReplicas(w) \/ ReadPods(w) \/ UpdateNetworkStatus(w)
                 \/ ReadCredentials(w) \/ SyncNodes(w) \/ AddNode(w) \/ RemoveNode(w)

\* The process ends - a signal, a panic, the loss of its pod - and is started
\* again.  Nothing of the controller outlives it; applied is history.
Crash == /\ Disturb("crash")
         /\ LoseInformers
         /\ LoseQueue
         /\ LoseLocals
         /\ UNCHANGED <<net, svc, sts, pods, daemonVars, issued, version, applied>>

Next == \/ Environment
        \/ InformerStep
        \/ \E w \in Workers : WorkerStep(w)
        \/ Crash

Spec == Init /\ [][Next]_vars
-----------------------------------------------------------------------------
\* Fairness.  The runtime runs every goroutine and the calls to the API server and
\* to the daemons return; the informers deliver what happens and resync on their
\* timers; the cluster does what it is asked to.  Nothing is assumed of users, nor
\* of disturbances.

InformersRun ==
    /\ WF_vars(Lists /\ OutsideInformers)
    /\ WF_vars(StartWorkers /\ OutsideInformers)
    /\ WF_vars(ResyncNetworks /\ OutsideInformers)
    /\ \A n \in Networks :
         /\ WF_vars(WatchNetwork(n) /\ OutsideInformers)
         /\ WF_vars(WatchService(n) /\ OutsideInformers)
         /\ WF_vars(WatchStatefulSet(n) /\ OutsideInformers)
         /\ \A i \in Ordinals : WF_vars(WatchPod(n, i) /\ OutsideInformers)
         /\ WF_vars(HandleNetwork(n) /\ OutsideHandlers)

WorkersRun == \A w \in Workers : WF_vars(WorkerStep(w))

ClusterRuns ==
    \A n \in Networks :
        /\ WF_vars(CollectService(n) /\ OutsideCluster)
        /\ WF_vars(CollectStatefulSet(n) /\ OutsideCluster)
        /\ WF_vars(FinishDelete(n) /\ OutsideCluster)
        /\ WF_vars(ReportReady(n) /\ OutsideCluster)
        /\ \A i \in Ordinals : /\ WF_vars(StartPod(n, i) /\ OutsideCluster)
                               /\ WF_vars(PodGetsAddress(n, i) /\ OutsideCluster)
                               /\ WF_vars(~Wanted(n, i) /\ StopPod(n, i) /\ OutsideCluster)
                               /\ WF_vars(PodBecomesReady(n, i) /\ OutsideCluster)

FairSpec == Spec /\ InformersRun /\ WorkersRun /\ ClusterRuns
-----------------------------------------------------------------------------
\* Every variable of the composition, those of the queue included, has its type.
TypeOK ==
    /\ ClusterTypeOK
    /\ InformersTypeOK
    /\ QueueTypeOK
    /\ ReconTypeOK

\* The replicas of a stateful set are never set from an older version of the spec
\* than the one they were last set from, not even across a restart.  doRecon works
\* on a cached copy: only the exclusive hold on the key and caches that move forward
\* keep an old copy from being applied late (adjusting the replicas in doRecon), and that
\* the first lists after a restart are current, which is assumed of the API server.
SpecVersionMonotone == [][\A n \in Networks : applied'[n] >= applied[n]]_applied

\* No wake-up is lost: while no worker has read the version of a network that is in
\* the cache, there is an event on its way to a handler, an open request, or a worker
\* that is about to read it (handlers, enqueue and workerMainLoop together).
NoLostWakeup ==
    \A n \in unread :
        \/ <<"bc", n>> \in events
        \/ n \in dirty
        \/ \E w \in Workers : held[w] = n /\ pc[w] = "fetch"

\* The status that updateNetworkStatus publishes never lists nodes beyond those the
\* spec asks for at that moment: it is computed from an older copy, and a spec that
\* has been scaled down meanwhile must make the update fail.
StatusFitsSpec ==
    [][\A n \in Networks :
          (/\ net[n] # Absent
           /\ net'[n] # Absent
           /\ net'[n].status # net[n].status)
             => \A i \in Ordinals : net'[n].status[i] # Absent => i < net[n].nodes]_net
-----------------------------------------------------------------------------
Present(n) == net[n] # Absent /\ ~net[n].deleting

Scaled(n) == /\ Present(n)
             /\ svc[n] # Absent
             /\ sts[n] # Absent
             /\ sts[n].replicas = net[n].nodes

StatusIsCurrent(n) ==
    /\ Present(n)
    /\ net[n].status = [i \in Ordinals |-> IF i < net[n].nodes THEN pods[n][i] ELSE Absent]

Ready(n) == ReadyNodes(pods[n])
Meshed(n) == \A x, y \in Ready(n) : x # y => y \in added[x]
Adds(n, i, j) == pods[n][j].ip \in added[pods[n][i].ip]
BothReady(n, i, j) == \A k \in {i, j} : pods[n][k] # Absent /\ pods[n][k].ready
Linked(n) == \A x, y \in Ready(n) : x # y => y \in added[x] \/ x \in added[y]

\* The spec asks for node i, and for those before it; once it does so it goes on.
Asked(n, i) == Present(n) /\ i < net[n].nodes
Kept(n, i) == [](Asked(n, i) => []Asked(n, i))

WithoutStalePeers(n) == \A x \in Ready(n) : added[x] \subseteq Ready(n)

\* A network that is there to stay, with a number of nodes that makes sense, gets its
\* service and a stateful set with as many replicas as its spec has nodes, whatever was
\* lost or refused on the way, the replicas of an earlier and negative number included
\* (doRecon, under the resyncs that main.go asks for).
ReplicasConverge ==
    \A n \in Networks : <>[](Present(n) /\ net[n].nodes >= 0) => <>[]Scaled(n)

\* A network that is being deleted in the foreground does go: the controller does
\* not go on creating what the garbage collector removes (the check of the deletion
\* timestamp in doRecon, against a cache that lags).
DeletionCompletes ==
    \A n \in Networks : (net[n] # Absent /\ net[n].deleting) ~> net[n] = Absent

\* What the controller created for a network that is gone does not stay, also when it
\* is created late, from a stale cache (the controller references of the service and of
\* the stateful set).  A user who orphans the dependents asks for something else.
NothingLeftBehind ==
    \A n \in Networks :
        <>[](net[n] = Absent) => <>[](svc[n] = Absent /\ sts[n] = Absent)

\* The status a network settles on is the list of its pods (updateNetworkStatus).
StatusConverges == \A n \in Networks : <>[]Present(n) => <>[]StatusIsCurrent(n)

\* The kinds of disturbances there have been.
Disturbances == {f[1] : f \in faults}

\* The ready daemons have the credentials that are in the secret, user and password.
Authorised(n) == \A ip \in Ready(n) : /\ login[ip] = secret[n]
                                      /\ secret[n].user # 0
                                      /\ secret[n].password # 0

\* In the end two ready daemons have each other in their lists of added nodes if the spec
\* has never given them up again once it asked for them, and nothing else goes wrong: while
\* other nodes are asked for and given up, updates of the status are refused, and the
\* daemons are called with lists that were never published (connectNode, syncNodes).
MeshConverges ==
    \A n \in Networks : \A i, j \in Ordinals : i < j =>
        (Kept(n, j) /\ <>[](Asked(n, j) /\ faults = {})
            => <>[](BothReady(n, i, j) => Adds(n, i, j) /\ Adds(n, j, i)))

\* In the end all ready daemons of a network have each other in their lists, whatever the
\* spec has asked for in between, if nothing else happens: what was removed for nodes
\* that were given up is added again when they are asked for again (syncNodes).
MeshSurvivesScaling == \A n \in Networks : <>[](Present(n) /\ faults = {}) => <>[]Meshed(n)

\* In the end, of any two ready daemons of a network at least one tries to connect
\* to the other: what a network needs at the least to be connected (syncNodes).
LinksConverge == \A n \in Networks : <>[]Present(n) => <>[]Linked(n)

\* Any two ready daemons that the spec asks for end up linked although a call to a daemon
\* fails, a pod is replaced or unready for a while, a container restarts in its pod without
\* anybody noticing, or the secret is replaced while pods are started - as long as that is
\* all that happens, and once, the spec does not change, and in the end all daemons have
\* the credentials that are in the secret (the secret is read after the pods, each daemon
\* is told of every other).
LinksSurvive ==
    \A n \in Networks : \A i, j \in Ordinals : i < j =>
        (<>[](/\ Asked(n, j)
              /\ version[n] = 1
              /\ Authorised(n)
              /\ Cardinality(faults) <= 1
              /\ Disturbances \subseteq {"rpc", "podlost", "unready", "restart", "secret"})
            => <>[](BothReady(n, i, j) => Adds(n, i, j) \/ Adds(n, j, i)))

\* No ready daemon of a network keeps the address of a pod of another network, which may
\* have been that of one of its own nodes (RemoveNode in connectNode: pods are known to
\* the daemons by their addresses alone).
OthersIPs(n) == {ip \in IPs : \E m \in Networks \ {n}, i \in Ordinals :
                                 pods[m][i] # Absent /\ pods[m][i].ip = ip}
NoForeignPeers ==
    \A n \in Networks :
        <>[]Present(n) => <>[](\A x \in Ready(n) : added[x] \cap OthersIPs(n) = {})

\* Every pod that was lost has been replaced by one with an address of its own.
ReplacedElsewhere == Cardinality(issued) >= Cardinality(UsedIPs)
                         + Cardinality({f \in faults : f[1] = "podlost"})

\* After a pod was replaced, or was unready for a while, once and under a spec that does
\* not change, each ready daemon has all the others in its list of added nodes, and nobody
\* else: no address of a pod that is gone (both loops of connectNode).  A pod that takes
\* over the address of the one before it may go unnoticed.
PeersConverge ==
    \A n \in Networks :
        <>[](/\ Present(n)
             /\ version[n] = 1
             /\ Cardinality(faults) <= 1
             /\ Disturbances \subseteq {"podlost", "unready"}
             /\ ReplacedElsewhere) => <>[](Meshed(n) /\ WithoutStalePeers(n))
=============================================================================
