----------------------------- MODULE MeshProofs -----------------------------
(***************************************************************************)
(* That a settled cluster is left alone, which TLC checks with two pods    *)
(* and one worker, proved for any numbers of pods and of workers, any      *)
(* number of restarts and any length of the queue; and that types and      *)
(* statuses are right from there as they are from the empty cluster.       *)
(***************************************************************************)
EXTENDS MCMesh, ReconProofs

\* The cluster of MCMesh is settled to begin with: no orphans, all pods ready, and nobody who
\* scales or deletes.
SettledConstants == /\ Orphans = {}
                    /\ InitialNodes \in Nat
                    /\ InitialReady = InitialNodes
                    /\ 0 .. InitialNodes - 1 \subseteq Ordinals
                    /\ 1 .. InitialNodes \subseteq IPs
                    /\ Activity \subseteq {"report", "reuse"}

TheNetwork == [uid |-> 1, version |-> 1, nodes |-> InitialNodes,
               deleting |-> FALSE, status |-> InitialPods]
TheService == [owner |-> 1]
TheStatefulSet == [owner |-> 1, replicas |-> InitialNodes, ready |-> InitialNodes]

SettledCluster == /\ net = [n \in Networks |-> TheNetwork]
                  /\ svc = [n \in Networks |-> TheService]
                  /\ sts = [n \in Networks |-> TheStatefulSet]
                  /\ pods = [n \in Networks |-> InitialPods]

\* A cache that has been filled holds what there is, and all have when a worker runs.
SettledCaches == /\ "bc" \in synced => \A n \in Networks : bcLister[n] = TheNetwork
                 /\ "svc" \in synced => \A n \in Networks : svcLister[n] = TheService
                 /\ "sts" \in synced => \A n \in Networks : stsLister[n] = TheStatefulSet
                 /\ "pod" \in synced => \A n \in Networks : podLister[n] = InitialPods
                 /\ running => synced = Kinds

\* A worker, wherever it is, has read what there is.
SettledWorker(w) ==
    /\ pc[w] \in {"idle", "fetch", "service", "statefulset", "replicas", "pods", "status"}
    /\ pc[w] # "idle" => running /\ held[w] \in Networks
    /\ pc[w] \notin {"idle", "fetch"} => bcNetwork[w] = TheNetwork
    /\ pc[w] = "replicas" => stsRead[w] = TheStatefulSet
    /\ pc[w] = "status" => nodeList[w] = InitialPods

Settled == /\ SettledCluster
           /\ SettledCaches
           /\ \A w \in Workers : SettledWorker(w)
           /\ DOMAIN pc = Workers /\ DOMAIN bcNetwork = Workers
           /\ DOMAIN stsRead = Workers /\ DOMAIN nodeList = Workers

\* The cluster is settled as long as nothing is disturbed but the controller itself.
OnlyCrashes == Disturbances \subseteq {"crash"}
SettledInv == OnlyCrashes => Settled
-----------------------------------------------------------------------------
\* Disturbances are remembered.
LEMMA DisturbIsSeen ==
    ASSUME NEW kind, Disturb(kind)
    PROVE  kind \in Disturbances' /\ faults \subseteq faults'
<1> DEFINE f == <<kind, Cardinality({g \in faults : g[1] = kind}) + 1>>
<1>1. faults' = faults \cup {f} /\ f[1] = kind
  BY DEF Disturb
<1> HIDE DEF f
<1> QED
  BY <1>1 DEF Disturbances

LEMMA OnlyACrash ==
    ASSUME NEW kind, Disturb(kind), OnlyCrashes'
    PROVE  kind = "crash"
BY DisturbIsSeen DEF OnlyCrashes

LEMMA FaultsRemain ==
    ASSUME [Next]_vars
    PROVE  faults \subseteq faults'
<1>1. ASSUME NEW n \in Networks, Users(n) \/ GarbageCollector(n) \/ ReportReady(n)
      PROVE  faults \subseteq faults'
  BY <1>1, DisturbIsSeen
     DEF Users, UserCreate, UserScale, UserDelete, UserOrphan, UserDeleteForeground, UserScaleSts,
         UserChangesSecret, GarbageCollector, CollectService, CollectStatefulSet, FinishDelete,
         ReportReady
<1>2. ASSUME NEW n \in Networks, NEW i \in Ordinals, Kubelets(n, i)
      PROVE  faults \subseteq faults'
  BY <1>2, DisturbIsSeen DEF Kubelets, StartPod, PodGetsAddress, StopPod, PodBecomesReady,
                             PodBecomesUnready, RestartDaemon
<1>3. ASSUME NEW w \in Workers, WorkerStep(w)
      PROVE  faults \subseteq faults'
  <2>1. CASE Begin(w) \/ FetchNetwork(w) \/ ReadPods(w)
    BY <2>1 DEF Begin, FetchNetwork, ReadPods, clusterVars
  <2>2. CASE EnsureService(w) \/ EnsureStatefulSet(w) \/ AdjustReplicas(w)
    BY <2>2, DisturbIsSeen DEF EnsureService, CreateHeadlessService, EnsureStatefulSet,
                               CreateStatefulSet, AdjustReplicas, UpdateStatefulSet
  <2>3. CASE UpdateNetworkStatus(w) \/ ReadCredentials(w)
    BY <2>3, DisturbIsSeen DEF UpdateNetworkStatus, UpdateStatus, ReadCredentials
  <2>4. CASE SyncNodes(w) \/ AddNode(w) \/ RemoveNode(w)
    BY <2>4, DisturbIsSeen DEF SyncNodes, QueryNode, AddNode, RemoveNode, RPCAnswered, RPCFailed
  <2> QED
    BY <1>3, <2>1, <2>2, <2>3, <2>4 DEF WorkerStep
<1>4. CASE InformerStep \/ UNCHANGED vars
  BY <1>4 DEF InformerStep, OutsideInformers, OutsideHandlers, vars, clusterVars
<1>5. CASE Crash
  BY <1>5, DisturbIsSeen DEF Crash
<1>6. CASE Environment
  BY <1>1, <1>2, <1>6 DEF Environment
<1> QED
  BY <1>3, <1>4, <1>5, <1>6 DEF Next

LEMMA OnlyCrashesBefore ==
    ASSUME [Next]_vars, OnlyCrashes'
    PROVE  OnlyCrashes
BY FaultsRemain DEF OnlyCrashes, Disturbances
-----------------------------------------------------------------------------
\* The pods there are to begin with, and that all objects are there.
LEMMA InitialPodsAre ==
    ASSUME SettledConstants, NEW i \in Ordinals
    PROVE  IF i < InitialNodes
           THEN /\ InitialPods[i] # Absent
                /\ InitialPods[i].ip # Absent
                /\ InitialPods[i].ready
           ELSE InitialPods[i] = Absent
<1>1. CASE i < InitialNodes
  <2> DEFINE pod == [ip |-> i + 1, ready |-> TRUE]
  <2>1. InitialPods[i] = pod
    BY <1>1 DEF InitialPods, SettledConstants
  <2>2. i \in Nat
    BY ClusterAssumption
  <2>3. i + 1 \in IPs
    BY <1>1, <2>2 DEF SettledConstants
  <2>4. pod \in Pod /\ pod.ip = i + 1
    BY <2>3 DEF Pod
  <2>5. pod.ready
    OBVIOUS
  <2> HIDE DEF pod
  <2> QED
    BY <1>1, <2>1, <2>3, <2>4, <2>5, ClusterAssumption
<1>2. CASE ~(i < InitialNodes)
  BY <1>2 DEF InitialPods, SettledConstants
<1> QED
  BY <1>1, <1>2

LEMMA AllAreThere ==
    ASSUME SettledConstants
    PROVE  /\ TheNetwork # Absent /\ TheService # Absent /\ TheStatefulSet # Absent
           /\ TheNetwork.uid = 1 /\ TheNetwork.nodes = InitialNodes
           /\ ~TheNetwork.deleting /\ TheNetwork.status = InitialPods
           /\ TheService.owner = 1 /\ TheStatefulSet.owner = 1
           /\ TheStatefulSet.replicas = InitialNodes /\ TheStatefulSet.ready = InitialNodes
<1>1. InitialPods \in NodeList
  <2>1. ASSUME NEW i \in Ordinals, i < InitialReady
        PROVE  [ip |-> i + 1, ready |-> TRUE] \in Pod
    <3>1. i \in Nat /\ i < InitialNodes /\ InitialNodes \in Nat
      BY <2>1, ClusterAssumption DEF SettledConstants
    <3>2. i + 1 \in 1 .. InitialNodes
      BY <3>1
    <3> QED
      BY <3>2 DEF SettledConstants, Pod
  <2> QED
    BY <2>1 DEF InitialPods, NodeList
<1>2. TheNetwork \in BitcoinNetwork
  BY <1>1 DEF SettledConstants, TheNetwork, BitcoinNetwork
<1>3. TheService \in Service /\ TheStatefulSet \in StatefulSet
  BY DEF SettledConstants, TheService, TheStatefulSet, Service, StatefulSet
<1>4. ~TheNetwork.deleting
  BY DEF TheNetwork
<1>5. TheNetwork.uid = 1 /\ TheNetwork.nodes = InitialNodes /\ TheNetwork.status = InitialPods
  BY DEF TheNetwork
<1>6. /\ TheService.owner = 1 /\ TheStatefulSet.owner = 1
      /\ TheStatefulSet.replicas = InitialNodes /\ TheStatefulSet.ready = InitialNodes
  BY DEF TheService, TheStatefulSet
<1> QED
  BY <1>2, <1>3, <1>4, <1>5, <1>6, ClusterAssumption

LEMMA AsManyReady ==
    ASSUME SettledConstants
    PROVE  Cardinality({i \in Ordinals : InitialPods[i] # Absent /\ InitialPods[i].ready})
               = InitialNodes
<1>1. {i \in Ordinals : InitialPods[i] # Absent /\ InitialPods[i].ready} = 0 .. InitialNodes - 1
  <2>1. ASSUME NEW i \in Ordinals
        PROVE  i \in 0 .. InitialNodes - 1 <=> i < InitialNodes
    BY ClusterAssumption DEF SettledConstants
  <2> QED
    BY <2>1, InitialPodsAre DEF SettledConstants
<1>2. Cardinality(0 .. InitialNodes - 1) = InitialNodes
  <2>1. CASE InitialNodes = 0
    BY <2>1, FS_Interval
  <2>2. CASE InitialNodes # 0
    BY <2>2, FS_Interval DEF SettledConstants
  <2> QED
    BY <2>1, <2>2
<1> QED
  BY <1>1, <1>2
-----------------------------------------------------------------------------
\* Nobody but the controller finds anything to do.
LEMMA EnvironmentIsSettled ==
    ASSUME SettledConstants, SettledCluster, Environment, OnlyCrashes'
    PROVE  FALSE
<1> USE AllAreThere DEF SettledCluster
<1>1. ASSUME NEW n \in Networks, Users(n)
      PROVE  FALSE
  <2>1. ~UserCreate(n)
    BY DEF UserCreate
  <2>2. ~UserScale(n) /\ ~UserDelete(n) /\ ~UserOrphan(n) /\ ~UserDeleteForeground(n)
    BY DEF UserScale, UserDelete, UserOrphan, UserDeleteForeground, SettledConstants
  <2>3. ~UserScaleSts(n) /\ ~UserChangesSecret(n)
    BY OnlyACrash DEF UserScaleSts, UserChangesSecret
  <2> QED
    BY <1>1, <2>1, <2>2, <2>3 DEF Users
<1>2. ASSUME NEW n \in Networks, GarbageCollector(n)
      PROVE  FALSE
  <2>1. Owned(svc, n) /\ Owned(sts, n) /\ ~net[n].deleting
    BY DEF Owned
  <2> QED
    BY <1>2, <2>1 DEF GarbageCollector, CollectService, CollectStatefulSet, FinishDelete,
                      Collectable
<1>3. ASSUME NEW n \in Networks, ReportReady(n)
      PROVE  FALSE
  BY <1>3, AsManyReady DEF ReportReady
<1>4. ASSUME NEW n \in Networks, NEW i \in Ordinals, Kubelets(n, i)
      PROVE  FALSE
  <2>1. Wanted(n, i) <=> i < InitialNodes
    BY DEF Wanted
  <2>2. IF i < InitialNodes THEN /\ pods[n][i] # Absent
                                 /\ pods[n][i].ip # Absent
                                 /\ pods[n][i].ready
                            ELSE pods[n][i] = Absent
    BY InitialPodsAre
  <2>3. ~StartPod(n, i) /\ ~PodGetsAddress(n, i) /\ ~PodBecomesReady(n, i)
    BY <2>1, <2>2 DEF StartPod, PodGetsAddress, PodBecomesReady
  <2>4. ~StopPod(n, i) /\ ~PodBecomesUnready(n, i) /\ ~RestartDaemon(n, i)
    BY <2>1, <2>2, OnlyACrash DEF StopPod, PodBecomesUnready, RestartDaemon
  <2> QED
    BY <1>4, <2>3, <2>4 DEF Kubelets
<1> QED
  BY <1>1, <1>2, <1>3, <1>4 DEF Environment

\* The informers bring what there is.
LEMMA InformersStaySettled ==
    ASSUME Settled, InformerStep
    PROVE  Settled'
<1>1. UNCHANGED <<clusterVars, reconVars>>
  BY DEF InformerStep, OutsideInformers, OutsideHandlers
<1>2. UNCHANGED held
  BY HandlerUsesQueue DEF InformerStep, OutsideInformers, queueVars, Add
<1>3. SettledCluster'
  BY <1>1 DEF Settled, SettledCluster, clusterVars
<1>4. /\ SettledCaches'
      /\ running => running'
  <2>1. CASE Lists
    BY <2>1 DEF Lists, ListNetworks, ListServices, ListStatefulSets, ListPods, Settled,
                SettledCluster, SettledCaches, Kinds
  <2>2. CASE StartWorkers \/ ResyncNetworks \/ ResyncDependents
    BY <2>2 DEF StartWorkers, ResyncNetworks, ResyncDependents, Settled, SettledCaches
  <2>3. ASSUME NEW n \in Networks, Watches(n)
        PROVE  FALSE
    BY <2>3 DEF Watches, WatchNetwork, WatchService, WatchStatefulSet, WatchPod, Settled,
                SettledCluster, SettledCaches
  <2>4. ASSUME NEW n \in Networks, Handlers(n)
        PROVE  SettledCaches' /\ running' = running
    BY <2>4 DEF Handlers, HandleNetwork, HandleObject, Delivered, Settled, SettledCaches
  <2> QED
    BY <2>1, <2>2, <2>3, <2>4 DEF InformerStep
<1>5. /\ \A w \in Workers : SettledWorker(w)'
      /\ DOMAIN pc' = Workers /\ DOMAIN bcNetwork' = Workers
      /\ DOMAIN stsRead' = Workers /\ DOMAIN nodeList' = Workers
  BY <1>1, <1>2, <1>4 DEF Settled, SettledWorker, reconVars
<1> QED
  BY <1>3, <1>4, <1>5 DEF Settled

\* A worker goes on, the others stay where they are.
LEMMA WorkerStaysSettled ==
    ASSUME Settled, NEW w \in Workers, SettledWorker(w)',
           UNCHANGED <<net, svc, sts, pods, bcLister, svcLister, stsLister, podLister, synced>>,
           running' = running,
           \A v \in Workers \ {w} : /\ pc'[v] = pc[v] /\ held'[v] = held[v]
                                    /\ bcNetwork'[v] = bcNetwork[v]
                                    /\ stsRead'[v] = stsRead[v] /\ nodeList'[v] = nodeList[v],
           DOMAIN pc' = Workers /\ DOMAIN bcNetwork' = Workers,
           DOMAIN stsRead' = Workers /\ DOMAIN nodeList' = Workers
    PROVE  Settled'
<1>1. SettledCluster' /\ SettledCaches'
  BY DEF Settled, SettledCluster, SettledCaches
<1>2. \A v \in Workers : SettledWorker(v)'
  BY DEF Settled, SettledWorker
<1> QED
  BY <1>1, <1>2 DEF Settled

\* To write the status that is there changes nothing.
LEMMA SameStatus ==
    ASSUME SettledConstants, SettledCluster, NEW n \in Networks,
           net' = [net EXCEPT ![n].status = InitialPods]
    PROVE  net' = net
<1>1. [TheNetwork EXCEPT !.status = InitialPods] = TheNetwork
  <2>1. TheNetwork = [field \in DOMAIN TheNetwork |-> TheNetwork[field]]
    BY DEF TheNetwork
  <2> QED
    BY <2>1, AllAreThere
<1>2. net' = [net EXCEPT ![n] = TheNetwork]
  <2>1. net[n] = TheNetwork
    BY DEF SettledCluster
  <2>2. net' = [net EXCEPT ![n] = [TheNetwork EXCEPT !.status = InitialPods]]
    BY <2>1
  <2> QED
    BY <1>1, <2>2
<1> QED
  BY <1>2 DEF SettledCluster

\* The workers find everything as it should be.
LEMMA WorkersLeaveAlone ==
    ASSUME SettledConstants, Settled, QueueTypeOK, OnlyCrashes',
           NEW w \in Workers, WorkerStep(w)
    PROVE  /\ Settled'
           /\ UNCHANGED <<net, svc, sts, added>>
<1> DEFINE n == held[w]
           Others == /\ UNCHANGED <<bcLister, svcLister, stsLister, podLister, synced, running>>
                     /\ UNCHANGED <<net, svc, sts, pods, added>>
<1> USE AllAreThere
<1>1. SettledWorker(w) /\ SettledCluster /\ SettledCaches
  BY DEF Settled
<1>2. pc[w] # "idle" => /\ n \in Networks
                        /\ bcLister[n] = TheNetwork /\ net[n] = TheNetwork
                        /\ svcLister[n] = TheService
                        /\ stsLister[n] = TheStatefulSet
                        /\ podLister[n] = InitialPods
  <2>1. pc[w] # "idle" => n \in Networks /\ synced = Kinds
    BY <1>1 DEF SettledWorker, SettledCaches
  <2> QED
    BY <1>1, <2>1 DEF SettledCaches, SettledCluster, Kinds
<1>3. CASE Begin(w)
  <2>1. /\ held' = [held EXCEPT ![w] = Head(queue)] /\ Head(queue) \in Networks
        /\ pc' = [pc EXCEPT ![w] = "fetch"]
        /\ UNCHANGED <<bcNetwork, stsRead, nodeList>>
        /\ running
        /\ Others
    BY <1>3 DEF Begin, Get, Goto, QueueTypeOK, informerVars, clusterVars, daemonVars
  <2> HIDE DEF Others
  <2>2. SettledWorker(w)'
    BY <2>1 DEF SettledWorker, Settled, QueueTypeOK, Others
  <2> QED
    BY <2>1, <2>2, WorkerStaysSettled DEF Settled, QueueTypeOK, Others
<1>4. CASE FetchNetwork(w)
  <2>1. /\ pc[w] = "fetch" /\ pc' = [pc EXCEPT ![w] = "service"]
        /\ bcNetwork' = [bcNetwork EXCEPT ![w] = TheNetwork]
        /\ UNCHANGED <<stsRead, nodeList, held>>
        /\ Others
    BY <1>2, <1>4 DEF FetchNetwork, Goto, clusterVars, daemonVars, queueVars
  <2> HIDE DEF Others
  <2>2. SettledWorker(w)'
    BY <1>1, <2>1 DEF SettledWorker, Settled, Others
  <2> QED
    BY <2>1, <2>2, WorkerStaysSettled DEF Settled, Others
<1>5. CASE EnsureService(w)
  <2>1. /\ pc[w] = "service" /\ pc' = [pc EXCEPT ![w] = "statefulset"]
        /\ UNCHANGED <<bcNetwork, stsRead, nodeList, held>>
        /\ Others
    BY <1>2, <1>5 DEF EnsureService, Goto, informerVars, daemonVars, queueVars
  <2> HIDE DEF Others
  <2>2. SettledWorker(w)'
    BY <1>1, <2>1 DEF SettledWorker, Settled, Others
  <2> QED
    BY <2>1, <2>2, WorkerStaysSettled DEF Settled, Others
<1>6. CASE EnsureStatefulSet(w)
  <2>1. /\ pc[w] = "statefulset" /\ pc' = [pc EXCEPT ![w] = "replicas"]
        /\ stsRead' = [stsRead EXCEPT ![w] = TheStatefulSet]
        /\ UNCHANGED <<bcNetwork, nodeList, held>>
        /\ Others
    BY <1>2, <1>6 DEF EnsureStatefulSet, Goto, informerVars, daemonVars, queueVars
  <2> HIDE DEF Others
  <2>2. SettledWorker(w)'
    BY <1>1, <2>1 DEF SettledWorker, Settled, Others
  <2> QED
    BY <2>1, <2>2, WorkerStaysSettled DEF Settled, Others
<1>7. CASE AdjustReplicas(w)
  <2>1. stsRead[w] = TheStatefulSet /\ bcNetwork[w] = TheNetwork
    BY <1>1, <1>7 DEF AdjustReplicas, SettledWorker
  <2>2. /\ pc[w] = "replicas" /\ pc' = [pc EXCEPT ![w] = "pods"]
        /\ UNCHANGED <<bcNetwork, stsRead, nodeList, held>>
        /\ Others
    BY <1>7, <2>1 DEF AdjustReplicas, Goto, informerVars, daemonVars, queueVars
  <2> HIDE DEF Others
  <2>3. SettledWorker(w)'
    BY <1>1, <2>2 DEF SettledWorker, Settled, Others
  <2> QED
    BY <2>2, <2>3, WorkerStaysSettled DEF Settled, Others
<1>8. CASE ReadPods(w)
  <2> DEFINE list == [i \in Ordinals |-> IF i < bcNetwork[w].nodes THEN podLister[n][i]
                                                                   ELSE Absent]
  <2>1. bcNetwork[w] = TheNetwork /\ podLister[n] = InitialPods
    BY <1>1, <1>2, <1>8 DEF ReadPods, SettledWorker
  <2>2. list = InitialPods
    BY <2>1 DEF InitialPods, SettledConstants
  <2>3. /\ pc[w] = "pods" /\ pc' = [pc EXCEPT ![w] = "status"]
        /\ nodeList' = [nodeList EXCEPT ![w] = list]
        /\ UNCHANGED <<bcNetwork, stsRead, held>>
        /\ Others
    BY <1>8 DEF ReadPods, Goto, informerVars, clusterVars, daemonVars, queueVars
  <2> HIDE DEF Others, list
  <2>4. SettledWorker(w)'
    BY <1>1, <2>2, <2>3 DEF SettledWorker, Settled, Others
  <2> QED
    BY <2>3, <2>4, WorkerStaysSettled DEF Settled, Others
<1>9. CASE UpdateNetworkStatus(w)
  <2>1. bcNetwork[w] = TheNetwork /\ nodeList[w] = InitialPods /\ n \in Networks
    BY <1>1, <1>2, <1>9 DEF UpdateNetworkStatus, SettledWorker
  <2>2. UNCHANGED net
    <3>1. net' = net \/ net' = [net EXCEPT ![n].status = nodeList[w]]
      BY <1>9 DEF UpdateNetworkStatus, UpdateStatus
    <3> QED
      BY <1>1, <2>1, <3>1, SameStatus
  <2>3. Return(w)
    BY <1>9, <2>1 DEF UpdateNetworkStatus
  <2>4. /\ pc' = [pc EXCEPT ![w] = "idle"]
        /\ held' = [held EXCEPT ![w] = NoKey]
        /\ bcNetwork' = [bcNetwork EXCEPT ![w] = Absent]
        /\ stsRead' = [stsRead EXCEPT ![w] = Absent]
        /\ nodeList' = [nodeList EXCEPT ![w] = EmptyList]
    BY <2>3 DEF Return, Done, Goto
  <2>5. Others
    BY <1>9, <2>2 DEF UpdateNetworkStatus, informerVars, daemonVars
  <2> HIDE DEF Others
  <2>6. SettledWorker(w)'
    BY <2>4 DEF SettledWorker, Settled
  <2> QED
    BY <2>4, <2>5, <2>6, WorkerStaysSettled DEF Settled, Others, QueueTypeOK
<1>10. ~ReadCredentials(w) /\ ~SyncNodes(w) /\ ~AddNode(w) /\ ~RemoveNode(w)
  BY <1>1 DEF ReadCredentials, SyncNodes, AddNode, RemoveNode, SettledWorker
<1> QED
  BY <1>3, <1>4, <1>5, <1>6, <1>7, <1>8, <1>9, <1>10 DEF WorkerStep

LEMMA CrashStaysSettled ==
    ASSUME Settled, Crash
    PROVE  /\ Settled'
           /\ UNCHANGED <<net, svc, sts, added>>
<1>1. UNCHANGED <<net, svc, sts, pods, added>>
  BY DEF Crash, daemonVars
<1>2. SettledCluster'
  BY <1>1 DEF Settled, SettledCluster
<1>3. SettledCaches'
  BY DEF Crash, LoseInformers, SettledCaches
<1>4. /\ \A w \in Workers : SettledWorker(w)'
      /\ DOMAIN pc' = Workers /\ DOMAIN bcNetwork' = Workers
      /\ DOMAIN stsRead' = Workers /\ DOMAIN nodeList' = Workers
  BY DEF Crash, LoseLocals, SettledWorker
<1> QED
  BY <1>1, <1>2, <1>3, <1>4 DEF Settled

\* A step under which there have been crashes only.
LEMMA StepStaysSettled ==
    ASSUME SettledConstants, Settled, QueueTypeOK, [Next]_vars, OnlyCrashes'
    PROVE  /\ Settled'
           /\ UNCHANGED <<net, svc, sts, added>>
<1>1. CASE Environment
  BY <1>1, EnvironmentIsSettled DEF Settled
<1>2. CASE InformerStep
  <2>1. UNCHANGED <<net, svc, sts, added>>
    BY <1>2 DEF InformerStep, OutsideInformers, OutsideHandlers, clusterVars, daemonVars
  <2> QED
    BY <1>2, <2>1, InformersStaySettled
<1>3. ASSUME NEW w \in Workers, WorkerStep(w)
      PROVE  Settled' /\ UNCHANGED <<net, svc, sts, added>>
  BY <1>3, WorkersLeaveAlone
<1>4. CASE Crash
  BY <1>4, CrashStaysSettled
<1>5. CASE UNCHANGED vars
  <2> USE DEF vars, clusterVars, daemonVars, informerVars, queueVars, reconVars
  <2>1. UNCHANGED <<net, svc, sts, added>>
    BY <1>5
  <2>2. SettledCluster'
    BY <1>5 DEF Settled, SettledCluster
  <2>3. SettledCaches'
    BY <1>5 DEF Settled, SettledCaches
  <2>4. /\ \A w \in Workers : SettledWorker(w)'
        /\ DOMAIN pc' = Workers /\ DOMAIN bcNetwork' = Workers
        /\ DOMAIN stsRead' = Workers /\ DOMAIN nodeList' = Workers
    BY <1>5 DEF Settled, SettledWorker
  <2> QED
    BY <2>1, <2>2, <2>3, <2>4 DEF Settled
<1> QED
  BY <1>1, <1>2, <1>3, <1>4, <1>5 DEF Next

\* Where everything is as it should be, there is nothing to ask for.
LEMMA SettledHasNothingToAsk ==
    ASSUME SettledConstants, Settled', NEW w \in Workers
    PROVE  ~Interferes(w)'
<1> USE AllAreThere
<1>1. SettledWorker(w)' /\ SettledCaches'
  BY DEF Settled
<1>2. pc'[w] # "idle" => /\ svcLister'[held'[w]] = TheService
                         /\ stsLister'[held'[w]] = TheStatefulSet
  BY <1>1 DEF SettledWorker, SettledCaches, Kinds
<1>3. CASE pc'[w] = "replicas"
  <2>1. stsRead'[w] = TheStatefulSet /\ bcNetwork'[w] = TheNetwork
    BY <1>1, <1>3 DEF SettledWorker
  <2> QED
    BY <1>3, <2>1 DEF Interferes
<1>4. CASE pc'[w] # "replicas"
  BY <1>1, <1>2, <1>4 DEF Interferes, SettledWorker
<1> QED
  BY <1>3, <1>4

LEMMA InitSettled == SettledConstants /\ InitMesh => Settled
<1> SUFFICES ASSUME SettledConstants, InitMesh
             PROVE  Settled
  OBVIOUS
<1>1. SettledCluster
  BY DEF InitMesh, SettledConstants, SettledCluster, TheNetwork, TheService, TheStatefulSet
<1>2. SettledCaches
  BY <1>1 DEF InitMesh, SettledCluster, SettledCaches
<1>3. /\ \A w \in Workers : SettledWorker(w)
      /\ DOMAIN pc = Workers /\ DOMAIN bcNetwork = Workers
      /\ DOMAIN stsRead = Workers /\ DOMAIN nodeList = Workers
  BY DEF InitMesh, SettledWorker
<1> QED
  BY <1>1, <1>2, <1>3 DEF Settled

\* The queue is used as it wants to be, wherever the controller starts from.
LEMMA MeshUsesQueue == MeshSpec => []QueueTypeOK
<1>1. InitMesh => InitQueue
  BY DEF InitMesh
<1> QED
  BY <1>1, StepUsesQueue, QueueTypeCorrect, PTL DEF MeshSpec, QueueSpec

\* A cluster in which everything is as it should be is left alone, whatever the number of its
\* pods and of the workers: neither resyncs nor restarts make the controller ask for an
\* object, for other replicas or for anything of a daemon (doRecon and syncNodes compare
\* before they do, and Run waits for all four caches), and the status that every pass
\* writes, compared or not, is the one that is there.
THEOREM SettledStaysAlone ==
    ASSUME SettledConstants
    PROVE  MeshSpec => SettledIsLeftAlone
<1>1. InitMesh => SettledInv
  BY InitSettled DEF SettledInv
<1>2. SettledInv /\ QueueTypeOK /\ [Next]_vars => SettledInv'
  BY OnlyCrashesBefore, StepStaysSettled DEF SettledInv
<1>3. SettledInv /\ QueueTypeOK /\ [Next]_vars
        => [Disturbances' \subseteq {"crash"} => /\ \A w \in Workers : ~Interferes(w)'
                                                 /\ UNCHANGED <<net, svc, sts, added>>]_vars
  BY OnlyCrashesBefore, StepStaysSettled, SettledHasNothingToAsk DEF SettledInv, OnlyCrashes
<1> QED
  BY <1>1, <1>2, <1>3, MeshUsesQueue, PTL DEF MeshSpec, SettledIsLeftAlone
-----------------------------------------------------------------------------
\* The network of MCMesh, with any number of its pods ready, and orphans or not.
MeshConstants == /\ InitialNodes \in Nat
                 /\ InitialReady \in Nat
                 /\ 1 .. InitialReady \subseteq IPs
                 /\ MaxVersion >= 1

LEMMA InitialPodsAreNodeList ==
    ASSUME MeshConstants
    PROVE  InitialPods \in NodeList /\ ReadyHaveAddress(InitialPods)
<1>1. ASSUME NEW i \in Ordinals, i < InitialReady
      PROVE  i + 1 \in IPs /\ [ip |-> i + 1, ready |-> TRUE] \in Pod
  <2>1. i \in Nat /\ i + 1 \in 1 .. InitialReady
    BY <1>1, ClusterAssumption DEF MeshConstants
  <2> QED
    BY <2>1 DEF MeshConstants, Pod
<1>2. \A i \in Ordinals : InitialPods[i] = IF i < InitialReady THEN [ip |-> i + 1, ready |-> TRUE]
                                                              ELSE Absent
  BY DEF InitialPods
<1>3. ASSUME NEW i \in Ordinals, InitialPods[i] # Absent
      PROVE  InitialPods[i].ip \in IPs
  <2>1. i < InitialReady /\ InitialPods[i] = [ip |-> i + 1, ready |-> TRUE]
    BY <1>2, <1>3
  <2> QED
    BY <1>1, <2>1
<1>4. ReadyHaveAddress(InitialPods)
  BY <1>3 DEF ReadyHaveAddress
<1> QED
  BY <1>1, <1>4 DEF InitialPods, NodeList

LEMMA OrphanIsNodeList ==
    LET starting == [ip |-> Absent, ready |-> FALSE]
        list == [EmptyList EXCEPT ![0] = starting]
    IN  list \in NodeList /\ ReadyHaveAddress(list)
<1> DEFINE starting == [ip |-> Absent, ready |-> FALSE]
           list == [EmptyList EXCEPT ![0] = starting]
<1>1. starting \in Pod /\ ~starting.ready
  BY DEF Pod
<1>2. \A i \in Ordinals : list[i] \in {starting, Absent}
  BY DEF EmptyList
<1> HIDE DEF starting
<1>3. list \in NodeList
  BY <1>1, <1>2 DEF EmptyList, NodeList
<1>4. ReadyHaveAddress(list)
  BY <1>1, <1>2 DEF ReadyHaveAddress
<1> QED
  BY <1>3, <1>4 DEF starting

LEMMA InitMeshTypeInv ==
    ASSUME MeshConstants, InitMesh, QueueTypeOK
    PROVE  TypeInv
<1> USE MeshConstants, InitialPodsAreNodeList, OrphanIsNodeList, ClusterAssumption
<1>1. InitialSecret \in Login /\ DefaultLogin \in Login
  BY DEF InitialSecret, DefaultLogin, Login
<1>2. /\ net \in [Networks -> BitcoinNetwork \cup {Absent}]
      /\ svc \in [Networks -> Service \cup {Absent}]
      /\ sts \in [Networks -> StatefulSet \cup {Absent}]
  <2>1. [uid |-> 1, version |-> 1, nodes |-> InitialNodes,
         deleting |-> FALSE, status |-> InitialPods] \in BitcoinNetwork
    BY DEF MeshConstants, BitcoinNetwork
  <2>2. \A owner \in {0, 1} : [owner |-> owner] \in Service
    BY DEF Service
  <2>3. /\ [owner |-> 1, replicas |-> InitialNodes, ready |-> InitialReady] \in StatefulSet
        /\ [owner |-> 0, replicas |-> 1, ready |-> 0] \in StatefulSet
    BY DEF MeshConstants, StatefulSet
  <2> QED
    BY <2>1, <2>2, <2>3 DEF InitMesh
<1>3. pods \in [Networks -> NodeList] /\ \A n \in Networks : ReadyHaveAddress(pods[n])
  BY DEF InitMesh
<1>4. /\ secret \in [Networks -> Login]
      /\ login \in [IPs -> Login]
  BY <1>1 DEF InitMesh
<1>5. added \in [IPs -> SUBSET IPs] /\ issued \subseteq IPs
  BY DEF InitMesh, MeshConstants
<1>6. version \in [Networks -> 0 .. MaxVersion]
  BY DEF InitMesh, MeshConstants
<1>7. faults \subseteq FaultKinds \X (1 .. MaxFaults) /\ IsFiniteSet(faults)
  BY FS_EmptySet DEF InitMesh
<1>8. ClusterInv
  BY <1>2, <1>3, <1>4, <1>5, <1>6, <1>7 DEF ClusterInv, ClusterTypeOK
<1>9. InformersInv
  BY <1>2, <1>3 DEF InitMesh, InformersInv, InformersTypeOK
<1>10. ReconInv
  BY EmptyIsNodeList DEF InitMesh, InitQueue, ReconInv, ReconTypeOK, AtWork, Steps
<1> QED
  BY <1>8, <1>9, <1>10 DEF TypeInv

LEMMA MeshIsConsistent ==
    ASSUME MeshConstants
    PROVE  MeshSpec => []TypeInv
<1>1. TypeInv /\ [Next]_vars /\ QueueTypeOK' => TypeInv'
  BY StepKeepsTypeInv DEF TypeInv
<1>2. InitMesh /\ QueueTypeOK => TypeInv
  BY InitMeshTypeInv
<1> QED
  BY <1>1, <1>2, MeshUsesQueue, PTL DEF MeshSpec

\* Whatever becomes of a cluster that is in order to begin with, every variable keeps its type.
THEOREM MeshTypesAreCorrect ==
    ASSUME MeshConstants
    PROVE  MeshSpec => []TypeOK
<1>1. TypeInv => TypeOK
  BY DEF TypeInv, TypeOK, ClusterInv, InformersInv, ReconInv
<1> QED
  BY <1>1, MeshIsConsistent, PTL

\* In a cluster that is in order to begin with, too, the status that is published fits the spec
\* it is published under (updateNetworkStatus).
THEOREM MeshStatusesFit ==
    ASSUME MeshConstants
    PROVE  MeshSpec => StatusFitsSpec
<1>1. InitMesh => NodeListFits
  BY DEF InitMesh, NodeListFits
<1>2. TypeInv /\ NodeListFits /\ [Next]_vars => NodeListFits'
  BY StepKeepsNodeListFits
<1>3. TypeInv /\ NodeListFits /\ [Next]_vars
        => [\A n \in Networks :
              (/\ net[n] # Absent
               /\ net'[n] # Absent
               /\ net'[n].status # net[n].status)
                 => \A i \in Ordinals : net'[n].status[i] # Absent => i < net[n].nodes]_net
  BY StepFitsStatus
<1> QED
  BY <1>1, <1>2, <1>3, MeshIsConsistent, PTL DEF MeshSpec, StatusFitsSpec
=============================================================================
