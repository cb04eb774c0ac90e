----------------------------- MODULE ReconProofs -----------------------------
(***************************************************************************)
(* Theorems about what the workers do to the cluster, for any networks,    *)
(* workers, bounds and disturbances: every variable of the composition     *)
(* keeps its type; the replicas of a stateful set are never set from an    *)
(* older version of the spec, restarts included; and a status never lists  *)
(* more nodes than the spec asks for.                                      *)
(***************************************************************************)
EXTENDS ControllerProofs, FiniteSetTheorems

\* A worker holds a key while it is in doRecon, and has a network once it has read it.
AtWork == \A w \in Workers : /\ pc[w] = "idle" <=> held[w] = NoKey
                             /\ pc[w] \in {"idle", "fetch"} <=> bcNetwork[w] = Absent

\* A node that is ready has an address, in the cluster and in all that was read from it.
ReadyHaveAddress(list) ==
    \A i \in Ordinals : list[i] # Absent /\ list[i].ready => list[i].ip \in IPs

\* What the type invariant needs to be inductive, part by part.
ClusterInv == /\ ClusterTypeOK
              /\ IsFiniteSet(faults)
              /\ \A n \in Networks : ReadyHaveAddress(pods[n])
InformersInv == /\ InformersTypeOK
                /\ \A n \in Networks : ReadyHaveAddress(podLister[n])
ReconInv == /\ ReconTypeOK
            /\ AtWork
            /\ \A w \in Workers : ReadyHaveAddress(nodeList[w])
TypeInv == /\ QueueTypeOK
           /\ ClusterInv
           /\ InformersInv
           /\ ReconInv

\* The versions of the spec of n that are about, from the oldest to the newest: the one the
\* replicas were set from, the one a worker has read, the cached one, the one in the API server.
\* Those that are there are in this order.
InOrder(n) ==
    /\ applied[n] <= version[n]
    /\ net[n] # Absent => applied[n] <= net[n].version /\ net[n].version <= version[n]
    /\ bcLister[n] # Absent => /\ applied[n] <= bcLister[n].version
                               /\ bcLister[n].version <= version[n]
    /\ bcLister[n] # Absent /\ net[n] # Absent => bcLister[n].version <= net[n].version
ReadInOrder(w, n) ==
    /\ applied[n] <= bcNetwork[w].version
    /\ bcNetwork[w].version <= version[n]
    /\ net[n] # Absent => bcNetwork[w].version <= net[n].version
    /\ bcLister[n] # Absent => bcNetwork[w].version <= bcLister[n].version
VersionsInOrder ==
    /\ \A n \in Networks : InOrder(n)
    /\ \A w \in Workers : bcNetwork[w] # Absent => ReadInOrder(w, held[w])

\* The node list a worker is about to publish fits the spec it has read.
NodeListFits ==
    \A w \in Workers : pc[w] = "status" =>
        \A i \in Ordinals : nodeList[w][i] # Absent => i < bcNetwork[w].nodes
-----------------------------------------------------------------------------
\* Disturbances are numbered from 1 and never exceed what a run allows.
LEMMA DisturbKeepsType ==
    ASSUME ClusterInv, NEW kind, Disturb(kind)
    PROVE  faults' \subseteq FaultKinds \X (1 .. MaxFaults) /\ IsFiniteSet(faults')
<1> DEFINE K == {f \in faults : f[1] = kind}
<1>1. IsFiniteSet(faults) /\ Cardinality(faults) \in Nat /\ Cardinality(faults) < MaxFaults
  BY FS_CardinalityType DEF ClusterInv, Disturb
<1>2. Cardinality(K) \in Nat /\ Cardinality(K) <= Cardinality(faults)
  BY <1>1, FS_Subset, FS_CardinalityType
<1>3. Cardinality(K) + 1 \in 1 .. MaxFaults
  BY <1>1, <1>2, ClusterAssumption
<1>4. kind \in FaultKinds /\ faults' = faults \cup {<<kind, Cardinality(K) + 1>>}
  BY DEF Disturb
<1> HIDE DEF K
<1>5. faults' \subseteq FaultKinds \X (1 .. MaxFaults)
  BY <1>3, <1>4 DEF ClusterInv, ClusterTypeOK
<1>6. IsFiniteSet(faults')
  BY <1>1, <1>4, FS_AddElement
<1> QED
  BY <1>5, <1>6

\* A daemon starts, or is gone, with credentials; no address is needed for the latter.
LEMMA StartDaemonKeepsType ==
    ASSUME ClusterInv, NEW ip, NEW credentials \in Login, StartDaemon(ip, credentials)
    PROVE  /\ added' \in [IPs -> SUBSET IPs]
           /\ login' \in [IPs -> Login]
           /\ secret' \in [Networks -> Login]
BY DEF StartDaemon, ClusterInv, ClusterTypeOK

\* One pod is replaced by another one.
LEMMA ReplacePodKeepsType ==
    ASSUME ClusterInv, NEW n \in Networks, NEW i \in Ordinals, NEW pod \in Pod \cup {Absent},
           pod # Absent /\ pod.ready => pod.ip \in IPs,
           pods' = [pods EXCEPT ![n][i] = pod]
    PROVE  /\ pods' \in [Networks -> NodeList]
           /\ \A m \in Networks : ReadyHaveAddress(pods'[m])
<1>1. pods \in [Networks -> [Ordinals -> Pod \cup {Absent}]]
  BY DEF ClusterInv, ClusterTypeOK, NodeList
<1>2. pods' \in [Networks -> NodeList]
  BY <1>1 DEF NodeList
<1>3. ASSUME NEW m \in Networks, NEW j \in Ordinals
      PROVE  pods'[m][j] = IF m = n /\ j = i THEN pod ELSE pods[m][j]
  BY <1>1
<1>4. \A m \in Networks : ReadyHaveAddress(pods'[m])
  BY <1>3 DEF ClusterInv, ReadyHaveAddress
<1> QED
  BY <1>2, <1>4

LEMMA DefaultIsLogin == DefaultLogin \in Login
BY DEF DefaultLogin, Login

LEMMA EmptyIsNodeList == EmptyList \in NodeList /\ ReadyHaveAddress(EmptyList)
BY DEF EmptyList, NodeList, ReadyHaveAddress

\* Users change the networks, and behind the back of the controller other things.
LEMMA UsersKeepCluster ==
    ASSUME ClusterInv, NEW n \in Networks, Users(n)
    PROVE  ClusterInv'
<1> USE ClusterAssumption DEF ClusterInv, ClusterTypeOK, daemonVars
<1>1. CASE UserCreate(n)
  <2>1. version[n] + 1 \in 0 .. MaxVersion /\ version[n] + 1 \in Nat
    BY <1>1 DEF UserCreate
  <2>2. version' \in [Networks -> 0 .. MaxVersion]
    BY <1>1, <2>1 DEF UserCreate
  <2>3. net' \in [Networks -> BitcoinNetwork \cup {Absent}]
    BY <1>1, <2>1, EmptyIsNodeList DEF UserCreate, BitcoinNetwork
  <2> QED
    BY <1>1, <2>2, <2>3 DEF UserCreate
<1>2. CASE UserScale(n)
  <2>1. version[n] + 1 \in 0 .. MaxVersion /\ version[n] + 1 \in Nat
    BY <1>2 DEF UserScale
  <2>2. version' \in [Networks -> 0 .. MaxVersion]
    BY <1>2, <2>1 DEF UserScale
  <2>3. net[n] \in BitcoinNetwork
    BY <1>2 DEF UserScale
  <2>4. PICK k \in Int : net' = [net EXCEPT ![n].nodes = k, ![n].version = version[n] + 1]
    BY <1>2 DEF UserScale
  <2>5. net' \in [Networks -> BitcoinNetwork \cup {Absent}]
    BY <2>1, <2>3, <2>4 DEF BitcoinNetwork
  <2> QED
    BY <1>2, <2>2, <2>5 DEF UserScale
<1>3. CASE UserDelete(n)
  BY <1>3 DEF UserDelete
<1>4. CASE UserOrphan(n)
  <2>1. svc' \in [Networks -> Service \cup {Absent}]
    BY <1>4 DEF UserOrphan, Orphaned, Owned, Service
  <2>2. sts' \in [Networks -> StatefulSet \cup {Absent}]
    BY <1>4 DEF UserOrphan, Orphaned, Owned, StatefulSet
  <2> QED
    BY <1>4, <2>1, <2>2 DEF UserOrphan
<1>5. CASE UserDeleteForeground(n)
  <2>1. net' \in [Networks -> BitcoinNetwork \cup {Absent}]
    BY <1>5 DEF UserDeleteForeground, BitcoinNetwork
  <2> QED
    BY <1>5, <2>1 DEF UserDeleteForeground
<1>6. CASE UserScaleSts(n)
  <2>1. sts' \in [Networks -> StatefulSet \cup {Absent}]
    BY <1>6 DEF UserScaleSts, StatefulSet
  <2> QED
    BY <1>6, <2>1, DisturbKeepsType DEF UserScaleSts
<1>7. CASE UserChangesSecret(n)
  <2>1. secret' \in [Networks -> Login]
    BY <1>7 DEF UserChangesSecret
  <2> QED
    BY <1>7, <2>1, DisturbKeepsType DEF UserChangesSecret
<1> QED
  BY <1>1, <1>2, <1>3, <1>4, <1>5, <1>6, <1>7 DEF Users

LEMMA GarbageCollectorKeepsCluster ==
    ASSUME ClusterInv, NEW n \in Networks, GarbageCollector(n)
    PROVE  ClusterInv'
BY DEF ClusterInv, ClusterTypeOK, GarbageCollector, CollectService, CollectStatefulSet,
       FinishDelete, daemonVars

\* A pod is ready only after it has been given its address.
LEMMA KubeletsKeepCluster ==
    ASSUME ClusterInv, NEW n \in Networks, NEW i \in Ordinals, Kubelets(n, i)
    PROVE  ClusterInv'
<1> DEFINE pod == pods[n][i]
<1> USE DEF ClusterInv, ClusterTypeOK, daemonVars
<1>1. pod \in Pod \cup {Absent}
  BY DEF NodeList
<1>2. pod # Absent /\ pod.ready => pod.ip \in IPs
  BY DEF ReadyHaveAddress
<1>3. CASE StartPod(n, i)
  <2>1. [ip |-> Absent, ready |-> FALSE] \in Pod
    BY DEF Pod
  <2> QED
    BY <1>3, <2>1, ReplacePodKeepsType DEF StartPod
<1>4. CASE PodGetsAddress(n, i)
  <2>1. PICK ip \in AvailableIPs : /\ pods' = [pods EXCEPT ![n][i].ip = ip]
                                   /\ StartDaemon(ip, secret[n])
                                   /\ issued' = issued \cup {ip}
    BY <1>4 DEF PodGetsAddress
  <2>2. ip \in IPs
    BY DEF AvailableIPs, NewIP
  <2> DEFINE new == [pod EXCEPT !.ip = ip]
  <2>3. new \in Pod /\ new.ip = ip
    BY <1>1, <1>4, <2>2 DEF PodGetsAddress, Pod
  <2>4. pods' = [pods EXCEPT ![n][i] = new]
    BY <2>1
  <2> HIDE DEF new
  <2>5. pods' \in [Networks -> NodeList] /\ \A m \in Networks : ReadyHaveAddress(pods'[m])
    BY <2>2, <2>3, <2>4, ReplacePodKeepsType
  <2>6. /\ added' \in [IPs -> SUBSET IPs]
        /\ login' \in [IPs -> Login]
        /\ secret' \in [Networks -> Login]
    BY <2>1, StartDaemonKeepsType
  <2> QED
    BY <1>4, <2>1, <2>2, <2>5, <2>6 DEF PodGetsAddress
<1>5. CASE StopPod(n, i)
  <2>1. pods' \in [Networks -> NodeList] /\ \A m \in Networks : ReadyHaveAddress(pods'[m])
    BY <1>5, ReplacePodKeepsType DEF StopPod
  <2>2. /\ added' \in [IPs -> SUBSET IPs]
        /\ login' \in [IPs -> Login]
        /\ secret' \in [Networks -> Login]
    BY <1>5, DefaultIsLogin, StartDaemonKeepsType DEF StopPod
  <2>3. faults' \subseteq FaultKinds \X (1 .. MaxFaults) /\ IsFiniteSet(faults')
    BY <1>5, DisturbKeepsType DEF StopPod
  <2> QED
    BY <1>5, <2>1, <2>2, <2>3 DEF StopPod
<1>6. CASE PodBecomesReady(n, i) \/ PodBecomesUnready(n, i) \/ RestartDaemon(n, i)
  <2>1. PICK ready \in BOOLEAN : /\ pods' = [pods EXCEPT ![n][i].ready = ready]
                                 /\ ready => pod.ip # Absent
    BY <1>6 DEF PodBecomesReady, PodBecomesUnready, RestartDaemon
  <2> DEFINE new == [pod EXCEPT !.ready = ready]
  <2>2. pod \in Pod
    BY <1>1, <1>6 DEF PodBecomesReady, PodBecomesUnready, RestartDaemon
  <2>3. new \in Pod /\ new.ip = pod.ip
    BY <2>2 DEF Pod
  <2>4. new.ready = ready
    BY <2>2 DEF Pod
  <2>5. new.ready => new.ip \in IPs
    BY <2>1, <2>2, <2>3, <2>4 DEF Pod
  <2>6. pods' = [pods EXCEPT ![n][i] = new]
    BY <2>1
  <2> HIDE DEF new
  <2>7. pods' \in [Networks -> NodeList] /\ \A m \in Networks : ReadyHaveAddress(pods'[m])
    BY <2>3, <2>5, <2>6, ReplacePodKeepsType
  <2>8. /\ added' \in [IPs -> SUBSET IPs]
        /\ login' \in [IPs -> Login]
        /\ secret' \in [Networks -> Login]
    BY <1>6, StartDaemonKeepsType DEF PodBecomesReady, PodBecomesUnready, RestartDaemon
  <2>9. faults' \subseteq FaultKinds \X (1 .. MaxFaults) /\ IsFiniteSet(faults')
    BY <1>6, DisturbKeepsType DEF PodBecomesReady, PodBecomesUnready, RestartDaemon
  <2> QED
    BY <1>6, <2>7, <2>8, <2>9 DEF PodBecomesReady, PodBecomesUnready, RestartDaemon
<1> QED
  BY <1>3, <1>4, <1>5, <1>6 DEF Kubelets

\* There are finitely many pods, and so a number of those that are ready.
LEMMA ReportReadyKeepsCluster ==
    ASSUME ClusterInv, NEW n \in Networks, ReportReady(n)
    PROVE  ClusterInv'
<1> DEFINE ready == Cardinality({i \in Ordinals : pods[n][i] # Absent /\ pods[n][i].ready})
<1>1. ready \in Nat
  BY ClusterAssumption, FS_Subset, FS_CardinalityType
<1>2. sts' = [sts EXCEPT ![n].ready = ready] /\ sts[n] # Absent
  BY DEF ReportReady
<1> HIDE DEF ready
<1>3. sts' \in [Networks -> StatefulSet \cup {Absent}]
  BY <1>1, <1>2 DEF ClusterInv, ClusterTypeOK, StatefulSet
<1> QED
  BY <1>3 DEF ReportReady, ClusterInv, ClusterTypeOK, daemonVars

LEMMA EnvironmentKeepsCluster ==
    ASSUME ClusterInv, Environment
    PROVE  ClusterInv'
BY UsersKeepCluster, GarbageCollectorKeepsCluster, KubeletsKeepCluster, ReportReadyKeepsCluster
   DEF Environment
-----------------------------------------------------------------------------
\* What is in the caches has been in the API server.
LEMMA NotifyKeepsType ==
    ASSUME InformersInv, NEW kind \in EventKinds, NEW ns \in SUBSET Networks, Notify(kind, ns)
    PROVE  events' \subseteq EventKinds \X Networks
BY DEF Notify, InformersInv, InformersTypeOK

LEMMA InformersKeepType ==
    ASSUME TypeInv,
           \/ Lists \/ StartWorkers \/ ResyncNetworks \/ ResyncDependents
           \/ \E n \in Networks : Watches(n)
    PROVE  InformersInv'
<1>1. CASE Lists
  <2>1. CASE ListNetworks
    <3>1. events' \subseteq EventKinds \X Networks
      BY <2>1, NotifyKeepsType DEF ListNetworks, EventKinds, TypeInv
    <3> QED
      BY <2>1, <3>1 DEF ListNetworks, TypeInv, InformersInv, InformersTypeOK, ClusterInv,
                        ClusterTypeOK, Kinds
  <2>2. CASE ListServices \/ ListStatefulSets \/ ListPods
    BY <2>2 DEF ListServices, ListStatefulSets, ListPods, TypeInv, InformersInv,
                InformersTypeOK, ClusterInv, ClusterTypeOK, Kinds
  <2> QED
    BY <1>1, <2>1, <2>2 DEF Lists
<1> USE DEF TypeInv, InformersInv, InformersTypeOK
<1>2. CASE StartWorkers
  BY <1>2 DEF StartWorkers
<1>3. CASE ResyncNetworks \/ ResyncDependents
  <2>1. /\ Cached(bcLister) \in SUBSET Networks
        /\ Controlled(svcLister) \cup Controlled(stsLister) \in SUBSET Networks
    BY DEF Cached, Controlled
  <2>2. events' \subseteq EventKinds \X Networks
    BY <1>3, <2>1, NotifyKeepsType DEF ResyncNetworks, ResyncDependents, EventKinds
  <2> QED
    BY <1>3, <2>2 DEF ResyncNetworks, ResyncDependents
<1>4. ASSUME NEW n \in Networks, WatchNetwork(n)
      PROVE  InformersInv'
  <2>1. events' \subseteq EventKinds \X Networks
    <3>1. {n} \cap Cached(bcLister') \in SUBSET Networks
      OBVIOUS
    <3> QED
      BY <1>4, <3>1, NotifyKeepsType DEF WatchNetwork, EventKinds
  <2>2. bcLister' \in [Networks -> BitcoinNetwork \cup {Absent}]
    BY <1>4 DEF WatchNetwork, ClusterInv, ClusterTypeOK
  <2>3. unread' \subseteq Networks
    BY <1>4 DEF WatchNetwork
  <2> QED
    BY <1>4, <2>1, <2>2, <2>3 DEF WatchNetwork
<1>5. ASSUME NEW n \in Networks, WatchService(n) \/ WatchStatefulSet(n)
      PROVE  InformersInv'
  <2>1. events' \subseteq EventKinds \X Networks
    <3>1. /\ {n} \cap Cached(svcLister) \cap Controlled(svcLister') \in SUBSET Networks
          /\ {n} \cap Cached(stsLister) \cap Controlled(stsLister') \in SUBSET Networks
      OBVIOUS
    <3> QED
      BY <1>5, <3>1, NotifyKeepsType DEF WatchService, WatchStatefulSet, EventKinds
  <2>2. /\ svcLister' \in [Networks -> Service \cup {Absent}]
        /\ stsLister' \in [Networks -> StatefulSet \cup {Absent}]
    BY <1>5 DEF WatchService, WatchStatefulSet, ClusterInv, ClusterTypeOK
  <2> QED
    BY <1>5, <2>1, <2>2 DEF WatchService, WatchStatefulSet
<1>6. ASSUME NEW n \in Networks, NEW i \in Ordinals, WatchPod(n, i)
      PROVE  InformersInv'
  <2>1. podLister' = [podLister EXCEPT ![n][i] = pods[n][i]]
    BY <1>6 DEF WatchPod
  <2>2. ASSUME NEW m \in Networks, NEW j \in Ordinals
        PROVE  podLister'[m][j] = IF m = n /\ j = i THEN pods[n][i] ELSE podLister[m][j]
    BY <2>1 DEF NodeList
  <2>3. podLister' \in [Networks -> NodeList]
    BY <2>1 DEF NodeList, ClusterInv, ClusterTypeOK
  <2>4. \A m \in Networks : ReadyHaveAddress(podLister'[m])
    BY <2>2 DEF ReadyHaveAddress, ClusterInv
  <2> QED
    BY <1>6, <2>3, <2>4 DEF WatchPod
<1> QED
  BY <1>1, <1>2, <1>3, <1>4, <1>5, <1>6 DEF Watches

LEMMA HandlersKeepType ==
    ASSUME InformersInv, NEW n \in Networks, Handlers(n)
    PROVE  InformersInv'
BY DEF Handlers, HandleNetwork, HandleObject, Delivered, InformersInv, InformersTypeOK

\* A step that leaves the cluster, the caches, or the workers alone keeps what is said of them.
LEMMA SameCluster == ASSUME ClusterInv, UNCHANGED clusterVars PROVE ClusterInv'
BY DEF ClusterInv, ClusterTypeOK, clusterVars, daemonVars

LEMMA SameInformers == ASSUME InformersInv, UNCHANGED informerVars PROVE InformersInv'
BY DEF InformersInv, InformersTypeOK, informerVars

LEMMA SameRecon == ASSUME ReconInv, UNCHANGED <<reconVars, held>> PROVE ReconInv'
BY DEF ReconInv, ReconTypeOK, AtWork, reconVars, syncVars
-----------------------------------------------------------------------------
\* A worker in doRecon has a key, and past the read of the cache a network.
LEMMA WorkerHas ==
    ASSUME TypeInv, NEW w \in Workers
    PROVE  /\ pc[w] # "idle" => held[w] \in Networks
           /\ pc[w] \notin {"idle", "fetch"} => bcNetwork[w] \in BitcoinNetwork
BY DEF TypeInv, QueueTypeOK, ReconInv, ReconTypeOK, AtWork

\* What stays of the invariant when a worker goes on with its key and its network.
LEMMA GoOn ==
    ASSUME TypeInv, NEW w \in Workers, pc[w] \notin {"idle", "fetch"},
           NEW step \in Steps \ {"idle", "fetch"},
           pc' = [pc EXCEPT ![w] = step], held' = held, bcNetwork' = bcNetwork
    PROVE  pc' \in [Workers -> Steps] /\ AtWork'
BY DEF TypeInv, ReconInv, ReconTypeOK, AtWork

\* After doRecon the locals are as they were before it.
LEMMA ReturnKeepsType ==
    ASSUME TypeInv, NEW w \in Workers, pc[w] # "idle", Return(w), UNCHANGED applied
    PROVE  ReconInv'
<1> USE DEF TypeInv, ReconInv, ReconTypeOK
<1>1. /\ pc' = [pc EXCEPT ![w] = "idle"]
      /\ held' = [held EXCEPT ![w] = NoKey]
      /\ bcNetwork' = [bcNetwork EXCEPT ![w] = Absent]
      /\ stsRead' = [stsRead EXCEPT ![w] = Absent]
      /\ nodeList' = [nodeList EXCEPT ![w] = EmptyList]
      /\ config' = [config EXCEPT ![w] = Absent]
      /\ UNCHANGED <<targets, target, toAdd, toRemove>>
  BY DEF Return, Done, Goto
<1>2. ReconTypeOK'
  BY <1>1, EmptyIsNodeList DEF Steps
<1>3. AtWork'
  BY <1>1 DEF AtWork, QueueTypeOK
<1>4. \A v \in Workers : ReadyHaveAddress(nodeList'[v])
  BY <1>1, EmptyIsNodeList
<1> QED
  BY <1>2, <1>3, <1>4

\* The ready nodes of a list have addresses.
LEMMA ReadyNodesAreIPs ==
    ASSUME NEW list, ReadyHaveAddress(list)
    PROVE  ReadyNodes(list) \subseteq IPs
BY DEF ReadyNodes, ReadyHaveAddress

LEMMA BeginKeepsType ==
    ASSUME TypeInv, NEW w \in Workers, Begin(w)
    PROVE  ClusterInv' /\ InformersInv' /\ ReconInv'
<1>1. ClusterInv' /\ InformersInv'
  BY SameCluster, SameInformers DEF Begin, TypeInv
<1> USE DEF TypeInv, ReconInv, ReconTypeOK
<1>2. /\ held[w] = NoKey
      /\ held' = [held EXCEPT ![w] = Head(queue)]
      /\ pc' = [pc EXCEPT ![w] = "fetch"]
      /\ UNCHANGED <<bcNetwork, stsRead, nodeList, syncVars, applied>>
  BY DEF Begin, Get, Goto
<1>3. Head(queue) # NoKey
  BY NoKeyAssumption DEF QueueTypeOK, Begin, Get
<1>4. ReconTypeOK'
  BY <1>2 DEF Steps, syncVars
<1>5. AtWork'
  BY <1>2, <1>3 DEF AtWork, QueueTypeOK
<1> QED
  BY <1>1, <1>2, <1>4, <1>5

LEMMA FetchNetworkKeepsType ==
    ASSUME TypeInv, NEW w \in Workers, FetchNetwork(w)
    PROVE  ClusterInv' /\ InformersInv' /\ ReconInv'
<1>1. ClusterInv'
  BY SameCluster DEF FetchNetwork, TypeInv
<1>2. InformersInv'
  BY DEF FetchNetwork, TypeInv, InformersInv, InformersTypeOK
<1>3. ReconInv'
  <2>1. CASE Return(w)
    BY <2>1, ReturnKeepsType DEF FetchNetwork
  <2>2. CASE ~Return(w)
    <3> USE DEF TypeInv, ReconInv, ReconTypeOK
    <3> DEFINE cached == bcLister[held[w]]
    <3>1. /\ pc[w] = "fetch" /\ pc' = [pc EXCEPT ![w] = "service"]
          /\ cached # Absent
          /\ bcNetwork' = [bcNetwork EXCEPT ![w] = cached]
          /\ held' = held
          /\ UNCHANGED <<stsRead, nodeList, syncVars, applied>>
      BY <2>2 DEF FetchNetwork, Goto, queueVars
    <3>2. cached \in BitcoinNetwork
      BY <3>1, WorkerHas DEF InformersInv, InformersTypeOK
    <3> HIDE DEF cached
    <3>3. ReconTypeOK'
      BY <3>1, <3>2 DEF Steps, syncVars
    <3>4. AtWork'
      BY <3>1 DEF AtWork
    <3> QED
      BY <3>1, <3>3, <3>4
  <2> QED
    BY <2>1, <2>2
<1> QED
  BY <1>1, <1>2, <1>3

LEMMA EnsureServiceKeepsType ==
    ASSUME TypeInv, NEW w \in Workers, EnsureService(w)
    PROVE  ClusterInv' /\ InformersInv' /\ ReconInv'
<1> DEFINE n == held[w]
<1>1. n \in Networks /\ bcNetwork[w] \in BitcoinNetwork
  BY WorkerHas DEF EnsureService
<1>2. svc' \in [Networks -> Service \cup {Absent}]
  BY <1>1 DEF EnsureService, CreateHeadlessService, TypeInv, ClusterInv, ClusterTypeOK,
              Service, BitcoinNetwork
<1>3. faults' \subseteq FaultKinds \X (1 .. MaxFaults) /\ IsFiniteSet(faults')
  BY DisturbKeepsType
     DEF EnsureService, CreateHeadlessService, TypeInv, ClusterInv, ClusterTypeOK
<1>4. ClusterInv'
  BY <1>2, <1>3 DEF EnsureService, TypeInv, ClusterInv, ClusterTypeOK, daemonVars
<1>5. InformersInv'
  BY SameInformers DEF EnsureService, TypeInv
<1>6. /\ pc[w] = "service" /\ pc' = [pc EXCEPT ![w] = "statefulset"]
      /\ UNCHANGED <<held, bcNetwork, stsRead, nodeList, syncVars, applied>>
  BY DEF EnsureService, Goto, queueVars
<1>7. pc' \in [Workers -> Steps] /\ AtWork'
  BY <1>6, GoOn DEF Steps
<1>8. ReconInv'
  BY <1>6, <1>7 DEF TypeInv, ReconInv, ReconTypeOK, syncVars
<1> QED
  BY <1>4, <1>5, <1>8

LEMMA EnsureStatefulSetKeepsType ==
    ASSUME TypeInv, NEW w \in Workers, EnsureStatefulSet(w)
    PROVE  ClusterInv' /\ InformersInv' /\ ReconInv'
<1> DEFINE n == held[w]
           new == [owner |-> bcNetwork[w].uid, replicas |-> bcNetwork[w].nodes, ready |-> 0]
<1>1. n \in Networks /\ bcNetwork[w] \in BitcoinNetwork
  BY WorkerHas DEF EnsureStatefulSet
<1>2. new.replicas >= 0 => new \in StatefulSet
  BY <1>1 DEF StatefulSet, BitcoinNetwork
<1>3. /\ sts' \in [Networks -> StatefulSet \cup {Absent}]
      /\ stsRead' \in [Workers -> StatefulSet \cup {Absent}]
      /\ applied' \in [Networks -> Nat]
  <2> USE DEF TypeInv, ClusterInv, ClusterTypeOK, ReconInv, ReconTypeOK
  <2>1. CASE stsLister[n] = Absent
    <3>1. CASE new.replicas >= 0 /\ sts' = [sts EXCEPT ![n] = new]
               /\ stsRead' = [stsRead EXCEPT ![w] = new]
               /\ applied' = [applied EXCEPT ![n] = bcNetwork[w].version]
      <4> HIDE DEF new
      <4> QED
        BY <1>1, <1>2, <3>1 DEF BitcoinNetwork
    <3>2. CASE UNCHANGED <<sts, applied>> /\ stsRead' = [stsRead EXCEPT ![w] = Absent]
      BY <3>2
    <3> QED
      BY <2>1, <3>1, <3>2 DEF EnsureStatefulSet, CreateStatefulSet
  <2>2. CASE stsLister[n] # Absent
    BY <1>1, <2>2 DEF EnsureStatefulSet, InformersInv, InformersTypeOK
  <2> QED
    BY <2>1, <2>2
<1>4. faults' \subseteq FaultKinds \X (1 .. MaxFaults) /\ IsFiniteSet(faults')
  BY DisturbKeepsType
     DEF EnsureStatefulSet, CreateStatefulSet, TypeInv, ClusterInv, ClusterTypeOK
<1>5. ClusterInv'
  BY <1>3, <1>4 DEF EnsureStatefulSet, TypeInv, ClusterInv, ClusterTypeOK, daemonVars
<1>6. InformersInv'
  BY SameInformers DEF EnsureStatefulSet, TypeInv
<1>7. /\ pc[w] = "statefulset" /\ pc' = [pc EXCEPT ![w] = "replicas"]
      /\ UNCHANGED <<held, bcNetwork, nodeList, syncVars>>
  BY DEF EnsureStatefulSet, Goto, queueVars
<1>8. pc' \in [Workers -> Steps] /\ AtWork'
  BY <1>7, GoOn DEF Steps
<1>9. ReconInv'
  BY <1>3, <1>7, <1>8 DEF TypeInv, ReconInv, ReconTypeOK, syncVars
<1> QED
  BY <1>5, <1>6, <1>9

LEMMA AdjustReplicasKeepsType ==
    ASSUME TypeInv, NEW w \in Workers, AdjustReplicas(w)
    PROVE  ClusterInv' /\ InformersInv' /\ ReconInv'
<1> DEFINE n == held[w]
<1>1. n \in Networks /\ bcNetwork[w] \in BitcoinNetwork
  BY WorkerHas DEF AdjustReplicas
<1>2. /\ sts' \in [Networks -> StatefulSet \cup {Absent}]
      /\ applied' \in [Networks -> Nat]
  <2> USE DEF TypeInv, ClusterInv, ClusterTypeOK, ReconInv, ReconTypeOK
  <2>1. CASE UNCHANGED <<sts, applied>>
    BY <2>1
  <2>2. CASE ~UNCHANGED <<sts, applied>>
    <3>1. /\ sts[n] = stsRead[w] /\ stsRead[w] # Absent
          /\ bcNetwork[w].nodes >= 0
          /\ sts' = [sts EXCEPT ![n].replicas = bcNetwork[w].nodes]
          /\ applied' = [applied EXCEPT ![n] = bcNetwork[w].version]
      BY <2>2 DEF AdjustReplicas, UpdateStatefulSet
    <3>2. sts[n] \in StatefulSet /\ bcNetwork[w].nodes \in Nat /\ bcNetwork[w].version \in Nat
      BY <1>1, <3>1 DEF BitcoinNetwork
    <3> QED
      BY <1>1, <3>1, <3>2 DEF StatefulSet
  <2> QED
    BY <2>1, <2>2
<1>3. faults' \subseteq FaultKinds \X (1 .. MaxFaults) /\ IsFiniteSet(faults')
  BY DisturbKeepsType
     DEF AdjustReplicas, UpdateStatefulSet, TypeInv, ClusterInv, ClusterTypeOK
<1>4. ClusterInv'
  BY <1>2, <1>3 DEF AdjustReplicas, TypeInv, ClusterInv, ClusterTypeOK, daemonVars
<1>5. InformersInv'
  BY SameInformers DEF AdjustReplicas, TypeInv
<1>6. /\ pc[w] = "replicas" /\ pc' = [pc EXCEPT ![w] = "pods"]
      /\ UNCHANGED <<held, bcNetwork, stsRead, nodeList, syncVars>>
  BY DEF AdjustReplicas, Goto, queueVars
<1>7. pc' \in [Workers -> Steps] /\ AtWork'
  BY <1>6, GoOn DEF Steps
<1>8. ReconInv'
  BY <1>2, <1>6, <1>7 DEF TypeInv, ReconInv, ReconTypeOK, syncVars
<1> QED
  BY <1>4, <1>5, <1>8

\* The node list is made of cached pods, or none.
LEMMA ReadPodsKeepsType ==
    ASSUME TypeInv, NEW w \in Workers, ReadPods(w)
    PROVE  ClusterInv' /\ InformersInv' /\ ReconInv'
<1> DEFINE cached == podLister[held[w]]
           list == [i \in Ordinals |-> IF i < bcNetwork[w].nodes THEN cached[i] ELSE Absent]
<1>1. ClusterInv' /\ InformersInv'
  BY SameCluster, SameInformers DEF ReadPods, TypeInv
<1>2. cached \in NodeList /\ ReadyHaveAddress(cached)
  BY WorkerHas DEF ReadPods, TypeInv, InformersInv, InformersTypeOK
<1>3. /\ pc[w] = "pods" /\ pc' = [pc EXCEPT ![w] = "status"]
      /\ nodeList' = [nodeList EXCEPT ![w] = list]
      /\ UNCHANGED <<held, bcNetwork, stsRead, syncVars, applied>>
  BY DEF ReadPods, Goto, queueVars
<1> HIDE DEF cached
<1>4. list \in NodeList
  BY <1>2 DEF NodeList
<1>5. ReadyHaveAddress(list)
  BY <1>2 DEF ReadyHaveAddress
<1> HIDE DEF list
<1>6. pc' \in [Workers -> Steps] /\ AtWork'
  BY <1>3, GoOn DEF Steps
<1>7. ReconInv'
  BY <1>3, <1>4, <1>5, <1>6 DEF TypeInv, ReconInv, ReconTypeOK, syncVars
<1> QED
  BY <1>1, <1>7

LEMMA UpdateNetworkStatusKeepsType ==
    ASSUME TypeInv, NEW w \in Workers, UpdateNetworkStatus(w)
    PROVE  ClusterInv' /\ InformersInv' /\ ReconInv'
<1> DEFINE n == held[w]
<1>1. n \in Networks /\ bcNetwork[w] \in BitcoinNetwork /\ bcNetwork[w] # Absent
  BY WorkerHas DEF UpdateNetworkStatus, TypeInv, ReconInv, AtWork
<1>2. nodeList[w] \in NodeList /\ ReadyHaveAddress(nodeList[w])
  BY DEF TypeInv, ReconInv, ReconTypeOK
<1>3. net' \in [Networks -> BitcoinNetwork \cup {Absent}]
  <2>1. CASE net[n] = bcNetwork[w] /\ net' = [net EXCEPT ![n].status = nodeList[w]]
    BY <1>1, <1>2, <2>1 DEF TypeInv, ClusterInv, ClusterTypeOK, BitcoinNetwork
  <2>2. CASE net' = net
    BY <2>2 DEF TypeInv, ClusterInv, ClusterTypeOK
  <2> QED
    BY <2>1, <2>2 DEF UpdateNetworkStatus, UpdateStatus
<1>4. faults' \subseteq FaultKinds \X (1 .. MaxFaults) /\ IsFiniteSet(faults')
  BY DisturbKeepsType
     DEF UpdateNetworkStatus, UpdateStatus, TypeInv, ClusterInv, ClusterTypeOK
<1>5. ClusterInv'
  BY <1>3, <1>4 DEF UpdateNetworkStatus, TypeInv, ClusterInv, ClusterTypeOK, daemonVars
<1>6. InformersInv'
  BY SameInformers DEF UpdateNetworkStatus, TypeInv
<1>7. ReconInv'
  <2>1. CASE Return(w)
    BY <2>1, ReturnKeepsType DEF UpdateNetworkStatus
  <2>2. CASE ~Return(w)
    <3>1. /\ pc[w] = "status" /\ pc' = [pc EXCEPT ![w] = "credentials"]
          /\ targets' = [targets EXCEPT ![w] = ReadyNodes(nodeList[w])]
          /\ UNCHANGED <<held, bcNetwork, stsRead, nodeList, config, target, toAdd, toRemove,
                         applied>>
      BY <2>2 DEF UpdateNetworkStatus, Goto, queueVars
    <3>2. ReadyNodes(nodeList[w]) \subseteq IPs
      BY <1>2, ReadyNodesAreIPs
    <3>3. pc' \in [Workers -> Steps] /\ AtWork'
      BY <3>1, GoOn DEF Steps
    <3> QED
      BY <3>1, <3>2, <3>3 DEF TypeInv, ReconInv, ReconTypeOK
  <2> QED
    BY <2>1, <2>2
<1> QED
  BY <1>5, <1>6, <1>7

LEMMA ReadCredentialsKeepsType ==
    ASSUME TypeInv, NEW w \in Workers, ReadCredentials(w)
    PROVE  ClusterInv' /\ InformersInv' /\ ReconInv'
<1>1. held[w] \in Networks
  BY WorkerHas DEF ReadCredentials
<1>2. secret[held[w]] \in Login
  BY <1>1 DEF TypeInv, ClusterInv, ClusterTypeOK
<1>3. PICK credentials \in Login : config' = [config EXCEPT ![w] = credentials]
  BY <1>2, DefaultIsLogin DEF ReadCredentials, CredentialsForSecret
<1>4. faults' \subseteq FaultKinds \X (1 .. MaxFaults) /\ IsFiniteSet(faults')
  BY DisturbKeepsType DEF ReadCredentials, TypeInv, ClusterInv, ClusterTypeOK
<1>5. ClusterInv'
  BY <1>4 DEF ReadCredentials, TypeInv, ClusterInv, ClusterTypeOK, daemonVars
<1>6. InformersInv'
  BY SameInformers DEF ReadCredentials, TypeInv
<1>7. /\ pc[w] = "credentials" /\ pc' = [pc EXCEPT ![w] = "sync"]
      /\ UNCHANGED <<held, bcNetwork, stsRead, nodeList, targets, target, toAdd, toRemove,
                     applied>>
  BY DEF ReadCredentials, Goto, queueVars
<1>8. pc' \in [Workers -> Steps] /\ AtWork'
  BY <1>7, GoOn DEF Steps
<1>9. ReconInv'
  BY <1>3, <1>7, <1>8 DEF TypeInv, ReconInv, ReconTypeOK
<1> QED
  BY <1>5, <1>6, <1>9

\* A call that fails is one of the disturbances, or none.
LEMMA RPCKeepsType ==
    ASSUME ClusterInv, NEW w \in Workers, NEW ip, RPCAnswered(w, ip) \/ RPCFailed(w, ip)
    PROVE  faults' \subseteq FaultKinds \X (1 .. MaxFaults) /\ IsFiniteSet(faults')
BY DisturbKeepsType DEF RPCAnswered, RPCFailed, ClusterInv, ClusterTypeOK

LEMMA SyncNodesKeepsType ==
    ASSUME TypeInv, NEW w \in Workers, SyncNodes(w)
    PROVE  ClusterInv' /\ InformersInv' /\ ReconInv'
<1>1. InformersInv'
  BY SameInformers DEF SyncNodes, TypeInv
<1>2. UNCHANGED <<net, svc, sts, pods, daemonVars, issued, version, applied>> /\ pc[w] = "sync"
  BY DEF SyncNodes
<1>3. CASE Return(w) /\ UNCHANGED faults
  <2>1. ClusterInv'
    BY <1>2, <1>3 DEF TypeInv, ClusterInv, ClusterTypeOK, daemonVars
  <2>2. ReconInv'
    BY <1>2, <1>3, ReturnKeepsType
  <2> QED
    BY <1>1, <2>1, <2>2
<1>4. ASSUME NEW ip \in targets[w], QueryNode(w, ip)
      PROVE  ClusterInv' /\ InformersInv' /\ ReconInv'
  <2> DEFINE ready == ReadyNodes(nodeList[w])
             addedNodes == added[ip] \cup {ip}
  <2>1. ip \in IPs
    BY DEF TypeInv, ReconInv, ReconTypeOK
  <2>2. ready \subseteq IPs /\ addedNodes \subseteq IPs
    BY <2>1, ReadyNodesAreIPs DEF TypeInv, ReconInv, ClusterInv, ClusterTypeOK
  <2>3. faults' \subseteq FaultKinds \X (1 .. MaxFaults) /\ IsFiniteSet(faults')
    BY <1>4, RPCKeepsType DEF QueryNode, TypeInv
  <2>4. ClusterInv'
    BY <1>2, <2>3 DEF TypeInv, ClusterInv, ClusterTypeOK, daemonVars
  <2>5. /\ targets' = [targets EXCEPT ![w] = @ \ {ip}]
        /\ UNCHANGED <<held, bcNetwork, stsRead, nodeList, config>>
        /\ \/ /\ pc' = [pc EXCEPT ![w] = "connect"]
              /\ target' = [target EXCEPT ![w] = ip]
              /\ toAdd' = [toAdd EXCEPT ![w] = ready \ addedNodes]
              /\ toRemove' = [toRemove EXCEPT ![w] = addedNodes \ ready]
           \/ UNCHANGED <<target, toAdd, toRemove, pc>>
    BY <1>4 DEF QueryNode, Goto, queueVars
  <2> HIDE DEF ready, addedNodes
  <2>6. pc' \in [Workers -> Steps] /\ AtWork'
    <3>1. CASE pc' = [pc EXCEPT ![w] = "connect"]
      BY <1>2, <2>5, <3>1, GoOn DEF Steps
    <3>2. CASE pc' = pc
      BY <2>5, <3>2 DEF TypeInv, ReconInv, ReconTypeOK, AtWork
    <3> QED
      BY <2>5, <3>1, <3>2
  <2>7. /\ targets' \in [Workers -> SUBSET IPs]
        /\ target' \in [Workers -> IPs \cup {Absent}]
        /\ toAdd' \in [Workers -> SUBSET IPs]
        /\ toRemove' \in [Workers -> SUBSET IPs]
    BY <2>1, <2>2, <2>5 DEF TypeInv, ReconInv, ReconTypeOK
  <2>8. ReconInv'
    BY <1>2, <2>5, <2>6, <2>7 DEF TypeInv, ReconInv, ReconTypeOK
  <2> QED
    BY <1>1, <2>4, <2>8
<1> QED
  BY <1>3, <1>4 DEF SyncNodes

\* The calls of connectNode: a daemon adds or removes an address it is told.
LEMMA ConnectKeepsType ==
    ASSUME TypeInv, NEW w \in Workers, AddNode(w) \/ RemoveNode(w)
    PROVE  ClusterInv' /\ InformersInv' /\ ReconInv'
<1>1. InformersInv'
  BY SameInformers DEF AddNode, RemoveNode, TypeInv
<1>2. /\ pc[w] = "connect"
      /\ UNCHANGED <<net, svc, sts, pods, secret, login, issued, version>>
      /\ UNCHANGED <<held, bcNetwork, stsRead, nodeList, config, targets, applied>>
  BY DEF AddNode, RemoveNode, queueVars
<1>3. faults' \subseteq FaultKinds \X (1 .. MaxFaults) /\ IsFiniteSet(faults')
  BY RPCKeepsType DEF AddNode, RemoveNode, TypeInv
<1>4. /\ added' \in [IPs -> SUBSET IPs]
      /\ toAdd' \in [Workers -> SUBSET IPs]
      /\ toRemove' \in [Workers -> SUBSET IPs]
  <2>1. CASE AddNode(w)
    BY <2>1 DEF AddNode, TypeInv, ReconInv, ReconTypeOK, ClusterInv, ClusterTypeOK
  <2>2. CASE RemoveNode(w)
    BY <2>2 DEF RemoveNode, TypeInv, ReconInv, ReconTypeOK, ClusterInv, ClusterTypeOK
  <2> QED
    BY <2>1, <2>2
<1>5. ClusterInv'
  BY <1>2, <1>3, <1>4 DEF TypeInv, ClusterInv, ClusterTypeOK
<1>6. \/ pc' = [pc EXCEPT ![w] = "sync"] /\ target' = [target EXCEPT ![w] = Absent]
      \/ UNCHANGED <<pc, target>>
  BY DEF AddNode, RemoveNode, Connected, Goto
<1>7. pc' \in [Workers -> Steps] /\ AtWork'
  <2>1. CASE pc' = [pc EXCEPT ![w] = "sync"]
    BY <1>2, <2>1, GoOn DEF Steps
  <2>2. CASE pc' = pc
    BY <1>2, <2>2 DEF TypeInv, ReconInv, ReconTypeOK, AtWork
  <2> QED
    BY <1>6, <2>1, <2>2
<1>8. target' \in [Workers -> IPs \cup {Absent}]
  BY <1>6 DEF TypeInv, ReconInv, ReconTypeOK
<1>9. ReconInv'
  BY <1>2, <1>4, <1>7, <1>8 DEF TypeInv, ReconInv, ReconTypeOK
<1> QED
  BY <1>1, <1>5, <1>9
-----------------------------------------------------------------------------
LEMMA CrashKeepsType ==
    ASSUME TypeInv, Crash
    PROVE  ClusterInv' /\ InformersInv' /\ ReconInv'
<1>1. faults' \subseteq FaultKinds \X (1 .. MaxFaults) /\ IsFiniteSet(faults')
  BY DisturbKeepsType DEF Crash, TypeInv
<1>2. ClusterInv'
  BY <1>1 DEF Crash, TypeInv, ClusterInv, ClusterTypeOK, daemonVars
<1>3. InformersInv'
  BY EmptyIsNodeList DEF Crash, LoseInformers, InformersInv, InformersTypeOK
<1>4. ReconTypeOK'
  BY EmptyIsNodeList DEF Crash, LoseLocals, TypeInv, ReconInv, ReconTypeOK, Steps
<1>5. AtWork' /\ \A w \in Workers : ReadyHaveAddress(nodeList'[w])
  BY EmptyIsNodeList DEF Crash, LoseLocals, LoseQueue, AtWork
<1> QED
  BY <1>2, <1>3, <1>4, <1>5 DEF ReconInv

LEMMA InitTypeInv == Init /\ QueueTypeOK => TypeInv
<1> SUFFICES ASSUME Init, QueueTypeOK
             PROVE  TypeInv
  OBVIOUS
<1> USE EmptyIsNodeList, DefaultIsLogin
<1>1. ClusterInv
  <2>1. IsFiniteSet(faults)
    BY FS_EmptySet DEF Init, InitCluster
  <2>2. ClusterTypeOK
    BY ClusterAssumption DEF Init, InitCluster, ClusterTypeOK
  <2> QED
    BY <2>1, <2>2 DEF Init, InitCluster, ClusterInv
<1>2. InformersInv
  BY DEF Init, InitInformers, InformersInv, InformersTypeOK
<1>3. ReconInv
  BY DEF Init, InitRecon, InitQueue, ReconInv, ReconTypeOK, AtWork, Steps
<1> QED
  BY <1>1, <1>2, <1>3 DEF TypeInv

LEMMA WorkerKeepsType ==
    ASSUME TypeInv, NEW w \in Workers, WorkerStep(w)
    PROVE  ClusterInv' /\ InformersInv' /\ ReconInv'
BY BeginKeepsType, FetchNetworkKeepsType, EnsureServiceKeepsType, EnsureStatefulSetKeepsType,
   AdjustReplicasKeepsType, ReadPodsKeepsType, UpdateNetworkStatusKeepsType,
   ReadCredentialsKeepsType, SyncNodesKeepsType, ConnectKeepsType DEF WorkerStep

LEMMA StepKeepsTypeInv ==
    ASSUME TypeInv, [Next]_vars
    PROVE  ClusterInv' /\ InformersInv' /\ ReconInv'
<1>1. CASE Environment
  <2>1. ClusterInv'
    BY <1>1, EnvironmentKeepsCluster DEF TypeInv
  <2> QED
    BY <1>1, <2>1, SameInformers, SameRecon DEF Environment, OutsideCluster, queueVars, TypeInv
<1>2. CASE InformerStep
  <2>1. UNCHANGED <<clusterVars, reconVars>>
    BY <1>2 DEF InformerStep, OutsideInformers, OutsideHandlers
  <2>2. UNCHANGED held
    BY <1>2, HandlerUsesQueue
       DEF InformerStep, OutsideInformers, queueVars, Add
  <2>3. InformersInv'
    BY <1>2, InformersKeepType, HandlersKeepType DEF InformerStep, TypeInv
  <2> QED
    BY <2>1, <2>2, <2>3, SameCluster, SameRecon DEF TypeInv
<1>3. ASSUME NEW w \in Workers, WorkerStep(w)
      PROVE  ClusterInv' /\ InformersInv' /\ ReconInv'
  BY <1>3, WorkerKeepsType
<1>4. CASE Crash
  BY <1>4, CrashKeepsType
<1>5. CASE UNCHANGED vars
  BY <1>5, SameCluster, SameInformers, SameRecon DEF vars, queueVars, TypeInv
<1> QED
  BY <1>1, <1>2, <1>3, <1>4, <1>5 DEF Next

LEMMA TypesAreConsistent == Spec => []TypeInv
<1>1. Spec => []QueueTypeOK
  BY ControllerUsesQueue, QueueTypeCorrect, PTL
<1>2. TypeInv /\ [Next]_vars /\ QueueTypeOK' => TypeInv'
  BY StepKeepsTypeInv DEF TypeInv
<1> QED
  BY <1>1, <1>2, InitTypeInv, PTL DEF Spec

\* Whatever users, cluster, daemons and crashes do: no worker meets a network or a key it
\* does not have, replicas are never negative, and all addresses are those of pods.
THEOREM TypesAreCorrect == Spec => []TypeOK
<1>1. TypeInv => TypeOK
  BY DEF TypeInv, TypeOK, ClusterInv, InformersInv, ReconInv
<1> QED
  BY <1>1, TypesAreConsistent, PTL
-----------------------------------------------------------------------------
\* All the versions there are, are numbers.
LEMMA VersionsAreNumbers ==
    ASSUME TypeInv
    PROVE  /\ \A n \in Networks : /\ version[n] \in Nat
                                  /\ applied[n] \in Nat
                                  /\ net[n] # Absent => net[n].version \in Nat
                                  /\ bcLister[n] # Absent => bcLister[n].version \in Nat
           /\ \A w \in Workers : bcNetwork[w] # Absent => /\ bcNetwork[w].version \in Nat
                                                          /\ held[w] \in Networks
<1> USE DEF TypeInv, BitcoinNetwork
<1>1. ASSUME NEW n \in Networks
      PROVE  /\ version[n] \in Nat
             /\ net[n] # Absent => net[n].version \in Nat
  BY DEF ClusterInv, ClusterTypeOK
<1>2. ASSUME NEW n \in Networks
      PROVE  bcLister[n] # Absent => bcLister[n].version \in Nat
  BY DEF InformersInv, InformersTypeOK
<1>3. ASSUME NEW n \in Networks
      PROVE  applied[n] \in Nat
  BY DEF ReconInv, ReconTypeOK
<1>4. ASSUME NEW w \in Workers, bcNetwork[w] # Absent
      PROVE  bcNetwork[w].version \in Nat /\ held[w] \in Networks
  BY <1>4 DEF ReconInv, ReconTypeOK, AtWork, QueueTypeOK
<1> QED
  BY <1>1, <1>2, <1>3, <1>4

\* How a version of the spec gets from one place to the next: a user writes a new one, a cache
\* takes it from the API server, a worker takes it from the cache.
NewSpec(n) == /\ version[n] <= version'[n]
              /\ \/ net'[n] = Absent
                 \/ net'[n].version = version'[n]
                 \/ net[n] # Absent /\ net'[n].version = net[n].version
NewCached(n) == bcLister'[n] \in {Absent, bcLister[n], net'[n]}
NewRead(w) == \/ bcNetwork'[w] = Absent
              \/ held'[w] = held[w] /\ bcNetwork'[w] = bcNetwork[w]
              \/ held'[w] = held[w] /\ bcNetwork'[w] = bcLister'[held[w]]

\* As long as nothing is applied, these are the only ways, and they keep the order.
LEMMA MovesKeepOrder ==
    ASSUME TypeInv, TypeInv', VersionsInOrder, applied' = applied,
           \A n \in Networks : NewSpec(n) /\ NewCached(n),
           \A w \in Workers : NewRead(w)
    PROVE  VersionsInOrder'
<1>0. \A n \in Networks : /\ version'[n] \in Nat
                          /\ net'[n] # Absent => net'[n].version \in Nat
  BY DEF TypeInv, ClusterInv, ClusterTypeOK, BitcoinNetwork
<1>1. ASSUME NEW n \in Networks
      PROVE  InOrder(n)'
  <2>1. InOrder(n) /\ NewSpec(n) /\ NewCached(n)
    BY DEF VersionsInOrder
  <2>2. /\ version[n] \in Nat /\ version'[n] \in Nat /\ applied[n] \in Nat
        /\ net[n] # Absent => net[n].version \in Nat
        /\ net'[n] # Absent => net'[n].version \in Nat
        /\ bcLister[n] # Absent => bcLister[n].version \in Nat
    BY <1>0, VersionsAreNumbers
  <2> QED
    BY <2>1, <2>2 DEF InOrder, NewSpec, NewCached
<1>2. ASSUME NEW w \in Workers, bcNetwork'[w] # Absent
      PROVE  ReadInOrder(w, held[w])' /\ held'[w] = held[w]
  <2>1. PICK n \in Networks : held[w] = n /\ held'[w] = n
    <3>1. held'[w] = held[w]
      BY <1>2 DEF NewRead
    <3>2. held'[w] \in Networks
      BY <1>2 DEF TypeInv, ReconInv, AtWork, QueueTypeOK
    <3> QED
      BY <3>1, <3>2
  <2>2. NewSpec(n) /\ NewCached(n) /\ InOrder(n)
    BY <2>1 DEF VersionsInOrder
  <2>3. /\ version[n] \in Nat /\ version'[n] \in Nat /\ applied[n] \in Nat
        /\ net[n] # Absent => net[n].version \in Nat
        /\ net'[n] # Absent => net'[n].version \in Nat
        /\ bcLister[n] # Absent => bcLister[n].version \in Nat
    BY <1>0, <2>1, VersionsAreNumbers
  <2>4. bcNetwork[w] # Absent => bcNetwork[w].version \in Nat /\ ReadInOrder(w, n)
    BY <2>1, VersionsAreNumbers DEF VersionsInOrder
  <2>5. bcNetwork'[w] = bcNetwork[w] \/ bcNetwork'[w] = bcLister'[n]
    BY <1>2, <2>1 DEF NewRead
  <2>6. InOrder(n)'
    BY <1>1
  <2>7. /\ applied'[n] <= bcNetwork'[w].version
        /\ bcNetwork'[w].version <= version'[n]
        /\ net'[n] # Absent => bcNetwork'[w].version <= net'[n].version
        /\ bcLister'[n] # Absent => bcNetwork'[w].version <= bcLister'[n].version
    <3>1. CASE bcNetwork'[w] = bcLister'[n]
      <4>1. bcLister'[n].version \in Nat
        BY <1>2, <2>2, <2>3, <3>1 DEF NewCached
      <4> QED
        BY <1>2, <2>6, <3>1, <4>1 DEF InOrder
    <3>2. CASE bcNetwork'[w] = bcNetwork[w]
      BY <1>2, <2>2, <2>3, <2>4, <3>2 DEF NewSpec, NewCached, ReadInOrder
    <3> QED
      BY <2>5, <3>1, <3>2
  <2> QED
    BY <2>1, <2>7 DEF ReadInOrder
<1> QED
  BY <1>1, <1>2 DEF VersionsInOrder

\* The replicas are set from the version a worker has read: nobody else has read one of the
\* same network, and no older one has been read before.
LEMMA ApplyKeepsOrder ==
    ASSUME TypeInv, VersionsInOrder, ExclusiveRecon, NEW w \in Workers, bcNetwork[w] # Absent,
           UNCHANGED <<net, version, bcLister, bcNetwork, held>>,
           applied' = [applied EXCEPT ![held[w]] = bcNetwork[w].version]
    PROVE  /\ VersionsInOrder'
           /\ \A n \in Networks : applied'[n] >= applied[n]
<1> DEFINE n == held[w]
<1>1. n \in Networks /\ bcNetwork[w].version \in Nat
  BY VersionsAreNumbers
<1>2. ReadInOrder(w, n) /\ InOrder(n)
  BY <1>1 DEF VersionsInOrder
<1>3. \A m \in Networks : applied'[m] = IF m = n THEN bcNetwork[w].version ELSE applied[m]
  BY <1>1 DEF TypeInv, ReconInv, ReconTypeOK
<1>4. ASSUME NEW m \in Networks
      PROVE  InOrder(m)' /\ applied'[m] >= applied[m]
  <2>1. applied[m] \in Nat /\ InOrder(m)
    BY VersionsAreNumbers DEF VersionsInOrder
  <2>2. CASE m = n
    BY <1>1, <1>2, <1>3, <2>1, <2>2 DEF InOrder, ReadInOrder
  <2>3. CASE m # n
    BY <1>3, <2>1, <2>3 DEF InOrder
  <2> QED
    BY <2>2, <2>3
<1>5. ASSUME NEW v \in Workers, bcNetwork[v] # Absent
      PROVE  ReadInOrder(v, held[v])'
  <2>1. ReadInOrder(v, held[v]) /\ held[v] \in Networks
    BY <1>5, VersionsAreNumbers DEF VersionsInOrder
  <2>2. CASE v = w
    BY <1>1, <1>2, <1>3, <2>2 DEF ReadInOrder
  <2>3. CASE v # w
    <3>1. held[v] # n
      BY <2>1, <2>3, NoKeyAssumption DEF ExclusiveRecon
    <3> QED
      BY <1>3, <2>1, <3>1 DEF ReadInOrder
  <2> QED
    BY <2>2, <2>3
<1> QED
  BY <1>4, <1>5 DEF VersionsInOrder

\* Users write versions one after the other; all else in the cluster does not touch them.
LEMMA EnvironmentMovesSpecs ==
    ASSUME TypeInv, Environment, NEW n \in Networks
    PROVE  NewSpec(n)
<1> USE DEF TypeInv, ClusterInv, ClusterTypeOK
<1>1. version[n] \in Nat
  BY VersionsAreNumbers
<1>2. ASSUME NEW m \in Networks, Users(m)
      PROVE  NewSpec(n)
  <2>1. CASE UserCreate(m)
    <3>1. version' = [version EXCEPT ![m] = version[m] + 1]
      BY <2>1 DEF UserCreate
    <3> DEFINE new(k) == [uid |-> version[m] + 1, version |-> version[m] + 1, nodes |-> k,
                          deleting |-> FALSE, status |-> EmptyList]
    <3>2. PICK k : net' = [net EXCEPT ![m] = new(k)]
      BY <2>1 DEF UserCreate
    <3>3. new(k).version = version[m] + 1
      OBVIOUS
    <3> HIDE DEF new
    <3> QED
      BY <1>1, <3>1, <3>2, <3>3 DEF NewSpec
  <2>2. CASE UserScale(m)
    <3>1. version' = [version EXCEPT ![m] = version[m] + 1]
      BY <2>2 DEF UserScale
    <3>2. net[m] \in BitcoinNetwork
      BY <2>2 DEF UserScale
    <3>3. PICK k : net' = [net EXCEPT ![m].nodes = k, ![m].version = version[m] + 1]
      BY <2>2 DEF UserScale
    <3> DEFINE scaled == [net[m] EXCEPT !.nodes = k]
    <3>4. net' = [net EXCEPT ![m] = [scaled EXCEPT !.version = version[m] + 1]]
      BY <3>3
    <3>5. DOMAIN scaled = DOMAIN net[m] /\ "version" \in DOMAIN net[m]
      BY <3>2 DEF BitcoinNetwork
    <3> HIDE DEF scaled
    <3>6. [scaled EXCEPT !.version = version[m] + 1].version = version[m] + 1
      BY <3>5
    <3> QED
      BY <1>1, <3>1, <3>4, <3>6 DEF NewSpec
  <2>3. CASE UserDeleteForeground(m)
    BY <1>1, <2>3 DEF UserDeleteForeground, NewSpec, BitcoinNetwork
  <2>4. CASE UserDelete(m) \/ UserOrphan(m) \/ UserScaleSts(m) \/ UserChangesSecret(m)
    BY <1>1, <2>4 DEF UserDelete, UserOrphan, UserScaleSts, UserChangesSecret, NewSpec
  <2> QED
    BY <1>2, <2>1, <2>2, <2>3, <2>4 DEF Users
<1>3. ASSUME NEW m \in Networks, GarbageCollector(m)
      PROVE  NewSpec(n)
  BY <1>1, <1>3 DEF GarbageCollector, CollectService, CollectStatefulSet, FinishDelete, NewSpec
<1>4. ASSUME NEW m \in Networks, NEW i \in Ordinals, Kubelets(m, i)
      PROVE  NewSpec(n)
  BY <1>1, <1>4 DEF Kubelets, StartPod, PodGetsAddress, StopPod, PodBecomesReady,
                    PodBecomesUnready, RestartDaemon, NewSpec
<1>5. ASSUME NEW m \in Networks, ReportReady(m)
      PROVE  NewSpec(n)
  BY <1>1, <1>5 DEF ReportReady, NewSpec
<1> QED
  BY <1>2, <1>3, <1>4, <1>5 DEF Environment

\* Where nothing is written, and a worker reads nothing new, there is nothing to put in order.
LEMMA SameSpecs ==
    ASSUME TypeInv, UNCHANGED <<version, net>>
    PROVE  \A n \in Networks : NewSpec(n)
BY VersionsAreNumbers DEF NewSpec

\* An update of the status is no new version of the spec.
LEMMA StatusIsNoSpec ==
    ASSUME TypeInv, NEW w \in Workers, UpdateNetworkStatus(w)
    PROVE  \A n \in Networks : NewSpec(n)
<1>1. UNCHANGED version
  BY DEF UpdateNetworkStatus
<1>2. CASE net' = net
  BY <1>1, <1>2, SameSpecs
<1>3. CASE net' # net
  <2> DEFINE m == held[w]
  <2>1. /\ net[m] = bcNetwork[w]
        /\ net' = [net EXCEPT ![m].status = nodeList[w]]
    BY <1>3 DEF UpdateNetworkStatus, UpdateStatus
  <2>2. m \in Networks /\ net[m] \in BitcoinNetwork /\ net[m] # Absent
    BY <2>1, WorkerHas DEF UpdateNetworkStatus, TypeInv, ReconInv, AtWork
  <2>3. [net[m] EXCEPT !.status = nodeList[w]].version = net[m].version
    BY <2>2 DEF BitcoinNetwork
  <2> HIDE DEF m
  <2>4. ASSUME NEW n \in Networks
        PROVE  net'[n] = net[n] \/ (net[n] # Absent /\ net'[n].version = net[n].version)
    BY <2>1, <2>2, <2>3 DEF TypeInv, ClusterInv, ClusterTypeOK
  <2>5. ASSUME NEW n \in Networks
        PROVE  version[n] <= version'[n]
    BY <1>1, VersionsAreNumbers
  <2> QED
    BY <2>4, <2>5 DEF NewSpec
<1> QED
  BY <1>2, <1>3

\* The caches only ever take what is in the API server.
LEMMA InformersMoveSpecs ==
    ASSUME TypeInv, InformerStep
    PROVE  /\ \A n \in Networks : NewSpec(n) /\ NewCached(n)
           /\ \A w \in Workers : NewRead(w)
           /\ UNCHANGED applied
<1>1. UNCHANGED <<net, version, bcNetwork, applied>>
  BY DEF InformerStep, OutsideInformers, OutsideHandlers, clusterVars, reconVars
<1>2. UNCHANGED held
  BY HandlerUsesQueue DEF InformerStep, OutsideInformers, queueVars, Add
<1>3. ASSUME Lists \/ StartWorkers \/ ResyncNetworks \/ ResyncDependents
      PROVE  \A n \in Networks : NewCached(n)
  <2>1. bcLister' = net' \/ bcLister' = bcLister
    BY <1>1, <1>3 DEF Lists, ListNetworks, ListServices, ListStatefulSets, ListPods, StartWorkers,
                      ResyncNetworks, ResyncDependents
  <2> QED
    BY <2>1 DEF NewCached
<1>4. ASSUME NEW m \in Networks, Watches(m)
      PROVE  \A n \in Networks : NewCached(n)
  <2>1. CASE WatchNetwork(m)
    <3>1. bcLister' = [bcLister EXCEPT ![m] = net[m]]
      BY <2>1 DEF WatchNetwork
    <3> QED
      BY <1>1, <3>1 DEF NewCached, TypeInv, InformersInv, InformersTypeOK
  <2>2. CASE UNCHANGED bcLister
    BY <2>2 DEF NewCached
  <2> QED
    BY <1>4, <2>1, <2>2 DEF Watches, WatchService, WatchStatefulSet, WatchPod
<1>5. ASSUME NEW m \in Networks, Handlers(m)
      PROVE  \A n \in Networks : NewCached(n)
  BY <1>5 DEF Handlers, HandleNetwork, HandleObject, Delivered, NewCached
<1>6. \A n \in Networks : NewCached(n)
  BY <1>3, <1>4, <1>5 DEF InformerStep
<1>7. \A w \in Workers : NewRead(w)
  BY <1>1, <1>2 DEF NewRead
<1> QED
  BY <1>1, <1>6, <1>7, SameSpecs

\* A worker holds on to what it has read, and reads from the cache only.
LEMMA WorkersMoveSpecs ==
    ASSUME TypeInv, NEW w \in Workers, WorkerStep(w)
    PROVE  \A v \in Workers : NewRead(v)
<1> USE DEF TypeInv, ReconInv, ReconTypeOK, QueueTypeOK
<1>1. CASE Return(w)
  <2>1. /\ bcNetwork' = [bcNetwork EXCEPT ![w] = Absent]
        /\ held' = [held EXCEPT ![w] = NoKey]
    BY <1>1 DEF Return, Done
  <2> QED
    BY <2>1 DEF NewRead
<1>2. CASE Begin(w)
  <2>1. /\ UNCHANGED bcNetwork
        /\ held' = [held EXCEPT ![w] = Head(queue)]
        /\ held[w] = NoKey
    BY <1>2 DEF Begin, Get
  <2>2. bcNetwork[w] = Absent
    BY <2>1 DEF AtWork
  <2> QED
    BY <2>1, <2>2 DEF NewRead
<1>3. CASE FetchNetwork(w) /\ ~Return(w)
  <2>1. /\ bcNetwork' = [bcNetwork EXCEPT ![w] = bcLister[held[w]]]
        /\ UNCHANGED <<held, bcLister>>
    BY <1>3 DEF FetchNetwork, queueVars
  <2> QED
    BY <2>1 DEF NewRead
<1>4. CASE UNCHANGED <<held, bcNetwork>>
  BY <1>4 DEF NewRead
<1>5. EnsureService(w) \/ EnsureStatefulSet(w) \/ AdjustReplicas(w) \/ ReadPods(w)
        => UNCHANGED <<held, bcNetwork>>
  BY DEF EnsureService, EnsureStatefulSet, AdjustReplicas, ReadPods, queueVars
<1>6. UpdateNetworkStatus(w) \/ SyncNodes(w) => Return(w) \/ UNCHANGED <<held, bcNetwork>>
  BY DEF UpdateNetworkStatus, SyncNodes, QueryNode, queueVars
<1>7. ReadCredentials(w) \/ AddNode(w) \/ RemoveNode(w) => UNCHANGED <<held, bcNetwork>>
  BY DEF ReadCredentials, AddNode, RemoveNode, queueVars
<1> QED
  BY <1>1, <1>2, <1>3, <1>4, <1>5, <1>6, <1>7 DEF WorkerStep

\* The replicas of a stateful set are set from the spec the worker has read, or not at all.
LEMMA WorkerApplies ==
    ASSUME TypeInv, NEW w \in Workers, WorkerStep(w)
    PROVE  \/ UNCHANGED applied
           \/ /\ applied' = [applied EXCEPT ![held[w]] = bcNetwork[w].version]
              /\ bcNetwork[w] # Absent
              /\ UNCHANGED <<net, version, bcLister, bcNetwork, held>>
<1>1. CASE EnsureStatefulSet(w) \/ AdjustReplicas(w)
  <2>1. bcNetwork[w] # Absent /\ UNCHANGED <<net, version, bcLister, bcNetwork, held>>
    BY <1>1 DEF EnsureStatefulSet, AdjustReplicas, informerVars, queueVars, TypeInv, ReconInv,
                AtWork
  <2> QED
    BY <1>1, <2>1 DEF EnsureStatefulSet, CreateStatefulSet, AdjustReplicas, UpdateStatefulSet
<1>2. CASE Begin(w) \/ FetchNetwork(w) \/ EnsureService(w) \/ ReadPods(w)
  BY <1>2 DEF Begin, FetchNetwork, EnsureService, ReadPods
<1>3. CASE UpdateNetworkStatus(w) \/ ReadCredentials(w) \/ SyncNodes(w)
  BY <1>3 DEF UpdateNetworkStatus, ReadCredentials, SyncNodes
<1>4. CASE AddNode(w) \/ RemoveNode(w)
  BY <1>4 DEF AddNode, RemoveNode
<1> QED
  BY <1>1, <1>2, <1>3, <1>4 DEF WorkerStep

\* What a worker does to the specs and to the cache of the networks.
LEMMA WorkerLeavesSpecs ==
    ASSUME TypeInv, NEW w \in Workers, WorkerStep(w)
    PROVE  \A n \in Networks : NewSpec(n) /\ NewCached(n)
<1>1. UNCHANGED bcLister
  BY DEF WorkerStep, Begin, FetchNetwork, EnsureService, EnsureStatefulSet, AdjustReplicas,
         ReadPods, UpdateNetworkStatus, ReadCredentials, SyncNodes, AddNode, RemoveNode,
         informerVars
<1>2. CASE UpdateNetworkStatus(w)
  BY <1>1, <1>2, StatusIsNoSpec DEF NewCached
<1>3. CASE ~UpdateNetworkStatus(w)
  <2>1. UNCHANGED <<net, version>>
    BY <1>3 DEF WorkerStep, Begin, FetchNetwork, EnsureService, EnsureStatefulSet,
                AdjustReplicas, ReadPods, ReadCredentials, SyncNodes, AddNode, RemoveNode,
                clusterVars
  <2> QED
    BY <1>1, <2>1, SameSpecs DEF NewCached
<1> QED
  BY <1>2, <1>3

LEMMA StepKeepsOrder ==
    ASSUME TypeInv, TypeInv', ExclusiveRecon, VersionsInOrder, [Next]_vars
    PROVE  /\ VersionsInOrder'
           /\ \A n \in Networks : applied'[n] >= applied[n]
<1>1. UNCHANGED applied => \A n \in Networks : applied'[n] >= applied[n]
  BY VersionsAreNumbers
<1>2. CASE Environment
  <2>1. UNCHANGED <<bcLister, bcNetwork, held, applied>>
    BY <1>2 DEF Environment, OutsideCluster, informerVars, queueVars, reconVars
  <2>2. /\ \A n \in Networks : NewSpec(n) /\ NewCached(n)
        /\ \A w \in Workers : NewRead(w)
    BY <1>2, <2>1, EnvironmentMovesSpecs DEF NewCached, NewRead
  <2> QED
    BY <1>1, <2>1, <2>2, MovesKeepOrder
<1>3. CASE InformerStep
  BY <1>1, <1>3, InformersMoveSpecs, MovesKeepOrder
<1>4. ASSUME NEW w \in Workers, WorkerStep(w)
      PROVE  /\ VersionsInOrder'
             /\ \A n \in Networks : applied'[n] >= applied[n]
  <2>1. CASE UNCHANGED applied
    BY <1>1, <1>4, <2>1, WorkersMoveSpecs, WorkerLeavesSpecs, MovesKeepOrder
  <2>2. CASE ~UNCHANGED applied
    BY <1>4, <2>2, WorkerApplies, ApplyKeepsOrder
  <2> QED
    BY <2>1, <2>2
<1>5. CASE Crash
  <2>1. UNCHANGED <<net, version, applied>>
    BY <1>5 DEF Crash
  <2>2. /\ \A n \in Networks : NewCached(n)
        /\ \A w \in Workers : NewRead(w)
    BY <1>5 DEF Crash, LoseInformers, LoseLocals, NewCached, NewRead
  <2> QED
    BY <1>1, <2>1, <2>2, SameSpecs, MovesKeepOrder
<1>6. CASE UNCHANGED vars
  <2>1. UNCHANGED <<net, version, applied, bcLister, bcNetwork, held>>
    BY <1>6 DEF vars, clusterVars, informerVars, queueVars, reconVars
  <2>2. /\ \A n \in Networks : NewCached(n)
        /\ \A w \in Workers : NewRead(w)
    BY <2>1 DEF NewCached, NewRead
  <2> QED
    BY <1>1, <2>1, <2>2, SameSpecs, MovesKeepOrder
<1> QED
  BY <1>2, <1>3, <1>4, <1>5, <1>6 DEF Next

LEMMA InitVersionsInOrder == Init => VersionsInOrder
BY DEF Init, InitCluster, InitInformers, InitRecon, VersionsInOrder, InOrder

\* The versions of a spec are in order wherever they are kept: what the replicas were set from
\* is never newer than what a worker has read, that not than the cache, that not than the API
\* server (FetchNetwork, WatchNetwork).
THEOREM VersionsStayInOrder == Spec => []VersionsInOrder
<1>1. TypeInv /\ TypeInv' /\ ExclusiveRecon /\ VersionsInOrder /\ [Next]_vars => VersionsInOrder'
  BY StepKeepsOrder
<1> QED
  BY <1>1, InitVersionsInOrder, TypesAreConsistent, ControllerReconIsExclusive, PTL DEF Spec

\* Whatever the number of workers, however old the caches, and through any number of restarts:
\* the replicas of a stateful set are never set from an older version of the spec than the one
\* they were last set from (adjusting the replicas in doRecon).
THEOREM SpecsAreAppliedInOrder == Spec => SpecVersionMonotone
<1>1. TypeInv /\ TypeInv' /\ ExclusiveRecon /\ VersionsInOrder /\ [Next]_vars
        => [\A n \in Networks : applied'[n] >= applied[n]]_applied
  BY StepKeepsOrder
<1> QED
  BY <1>1, VersionsStayInOrder, TypesAreConsistent, ControllerReconIsExclusive, PTL
     DEF Spec, SpecVersionMonotone
-----------------------------------------------------------------------------
\* A worker that goes to, or stays at, the update of the status has a node list that fits.
LEMMA StepKeepsNodeListFits ==
    ASSUME TypeInv, NodeListFits, [Next]_vars
    PROVE  NodeListFits'
<1>1. ASSUME \A v \in Workers : pc'[v] # "status" \/ /\ pc[v] = "status"
                                                     /\ nodeList'[v] = nodeList[v]
                                                     /\ bcNetwork'[v] = bcNetwork[v]
      PROVE  NodeListFits'
  BY <1>1 DEF NodeListFits
<1>2. CASE Environment \/ InformerStep \/ UNCHANGED vars
  <2>1. UNCHANGED <<pc, nodeList, bcNetwork>>
    BY <1>2 DEF Environment, OutsideCluster, InformerStep, OutsideInformers, OutsideHandlers,
                vars, reconVars
  <2> QED
    BY <1>1, <2>1
<1>3. CASE Crash
  BY <1>1, <1>3 DEF Crash, LoseLocals
<1>4. ASSUME NEW w \in Workers, WorkerStep(w)
      PROVE  NodeListFits'
  <2> USE DEF TypeInv, ReconInv, ReconTypeOK, Goto
  <2>1. CASE Return(w)
    <3>1. /\ pc' = [pc EXCEPT ![w] = "idle"]
          /\ nodeList' = [nodeList EXCEPT ![w] = EmptyList]
          /\ bcNetwork' = [bcNetwork EXCEPT ![w] = Absent]
      BY <2>1 DEF Return
    <3> QED
      BY <1>1, <3>1
  <2>2. CASE ReadPods(w)
    <3> DEFINE list == [i \in Ordinals |->
                           IF i < bcNetwork[w].nodes THEN podLister[held[w]][i] ELSE Absent]
    <3>1. /\ pc' = [pc EXCEPT ![w] = "status"]
          /\ nodeList' = [nodeList EXCEPT ![w] = list]
          /\ UNCHANGED bcNetwork
      BY <2>2 DEF ReadPods
    <3>2. \A i \in Ordinals : list[i] # Absent => i < bcNetwork[w].nodes
      OBVIOUS
    <3> HIDE DEF list
    <3> QED
      BY <3>1, <3>2 DEF NodeListFits
  <2>3. CASE ~Return(w) /\ ~ReadPods(w)
    <3>1. PICK step \in Steps \ {"status"} : pc' = [pc EXCEPT ![w] = step] \/ pc' = pc
      BY <1>4, <2>3 DEF WorkerStep, Begin, FetchNetwork, EnsureService, EnsureStatefulSet,
           AdjustReplicas, UpdateNetworkStatus, ReadCredentials, SyncNodes, QueryNode,
           AddNode, RemoveNode, Connected, Steps
    <3>2. UNCHANGED nodeList
      BY <1>4, <2>3 DEF WorkerStep, Begin, FetchNetwork, EnsureService, EnsureStatefulSet,
           AdjustReplicas, UpdateNetworkStatus, ReadCredentials, SyncNodes, QueryNode,
           AddNode, RemoveNode
    <3>3. \/ UNCHANGED bcNetwork
          \/ pc[w] = "fetch" /\ bcNetwork' = [bcNetwork EXCEPT ![w] = bcLister[held[w]]]
      <4>1. CASE FetchNetwork(w)
        BY <2>3, <4>1 DEF FetchNetwork
      <4>2. CASE ~FetchNetwork(w)
        BY <1>4, <2>3, <4>2 DEF WorkerStep, Begin, EnsureService, EnsureStatefulSet,
             AdjustReplicas, UpdateNetworkStatus, ReadCredentials, SyncNodes, QueryNode,
             AddNode, RemoveNode
      <4> QED
        BY <4>1, <4>2
    <3> QED
      BY <1>1, <3>1, <3>2, <3>3
  <2> QED
    BY <2>1, <2>2, <2>3
<1> QED
  BY <1>2, <1>3, <1>4 DEF Next

\* Nothing but updateNetworkStatus changes the status of a network that is there.
LEMMA EnvironmentKeepsStatus ==
    ASSUME TypeInv, Environment, NEW n \in Networks, net[n] # Absent, net'[n] # Absent
    PROVE  net'[n].status = net[n].status
<1> USE DEF TypeInv, ClusterInv, ClusterTypeOK
<1>1. ASSUME NEW m \in Networks, Users(m)
      PROVE  net'[n].status = net[n].status
  <2>1. CASE UserCreate(m)
    BY <2>1 DEF UserCreate
  <2>2. CASE UserScale(m)
    <3>1. net[m] \in BitcoinNetwork
      BY <2>2 DEF UserScale
    <3>2. PICK k : net' = [net EXCEPT ![m].nodes = k, ![m].version = version[m] + 1]
      BY <2>2 DEF UserScale
    <3> DEFINE scaled == [net[m] EXCEPT !.nodes = k]
    <3>3. net' = [net EXCEPT ![m] = [scaled EXCEPT !.version = version[m] + 1]]
      BY <3>2
    <3>4. /\ DOMAIN scaled = DOMAIN net[m] /\ "status" \in DOMAIN net[m]
          /\ scaled.status = net[m].status
      BY <3>1 DEF BitcoinNetwork
    <3> HIDE DEF scaled
    <3>5. [scaled EXCEPT !.version = version[m] + 1].status = net[m].status
      BY <3>4
    <3> QED
      BY <3>3, <3>5
  <2>3. CASE UserDeleteForeground(m)
    <3>1. net[m] \in BitcoinNetwork
      BY <2>3 DEF UserDeleteForeground
    <3>2. [net[m] EXCEPT !.deleting = TRUE].status = net[m].status
      BY <3>1 DEF BitcoinNetwork
    <3>3. net' = [net EXCEPT ![m] = [net[m] EXCEPT !.deleting = TRUE]]
      BY <2>3 DEF UserDeleteForeground
    <3> QED
      BY <3>2, <3>3
  <2>4. CASE UserDelete(m) \/ UserOrphan(m)
    BY <2>4 DEF UserDelete, UserOrphan
  <2>5. CASE UserScaleSts(m) \/ UserChangesSecret(m)
    BY <2>5 DEF UserScaleSts, UserChangesSecret
  <2> QED
    BY <1>1, <2>1, <2>2, <2>3, <2>4, <2>5 DEF Users
<1>2. ASSUME NEW m \in Networks, GarbageCollector(m)
      PROVE  net'[n].status = net[n].status
  BY <1>2 DEF GarbageCollector, CollectService, CollectStatefulSet, FinishDelete
<1>3. ASSUME NEW m \in Networks, NEW i \in Ordinals, Kubelets(m, i)
      PROVE  net'[n].status = net[n].status
  BY <1>3 DEF Kubelets, StartPod, PodGetsAddress, StopPod, PodBecomesReady,
              PodBecomesUnready, RestartDaemon
<1>4. ASSUME NEW m \in Networks, ReportReady(m)
      PROVE  net'[n].status = net[n].status
  BY <1>4 DEF ReportReady
<1> QED
  BY <1>1, <1>2, <1>3, <1>4 DEF Environment

LEMMA WorkerStatusFits ==
    ASSUME TypeInv, NodeListFits, NEW w \in Workers, UpdateNetworkStatus(w),
           NEW n \in Networks, net'[n].status # net[n].status,
           NEW i \in Ordinals, net'[n].status[i] # Absent
    PROVE  i < net[n].nodes
<1> DEFINE m == held[w]
<1>1. /\ net[m] = bcNetwork[w]
      /\ net' = [net EXCEPT ![m].status = nodeList[w]]
  BY DEF UpdateNetworkStatus, UpdateStatus
<1>2. m \in Networks /\ net[m] \in BitcoinNetwork
  BY <1>1, WorkerHas DEF UpdateNetworkStatus
<1>3. [net[m] EXCEPT !.status = nodeList[w]].status = nodeList[w]
  BY <1>2 DEF BitcoinNetwork
<1> HIDE DEF m
<1>4. n = m /\ net'[n].status = nodeList[w]
  BY <1>1, <1>2, <1>3 DEF TypeInv, ClusterInv, ClusterTypeOK
<1>5. i < bcNetwork[w].nodes
  BY <1>4 DEF NodeListFits, UpdateNetworkStatus
<1> QED
  BY <1>1, <1>4, <1>5

LEMMA StepFitsStatus ==
    ASSUME TypeInv, NodeListFits, [Next]_vars,
           NEW n \in Networks, net[n] # Absent, net'[n] # Absent,
           net'[n].status # net[n].status,
           NEW i \in Ordinals, net'[n].status[i] # Absent
    PROVE  i < net[n].nodes
<1>1. CASE Environment
  BY <1>1, EnvironmentKeepsStatus
<1>2. CASE InformerStep \/ Crash \/ UNCHANGED vars
  BY <1>2 DEF InformerStep, OutsideInformers, OutsideHandlers, Crash, vars, clusterVars
<1>3. ASSUME NEW w \in Workers, WorkerStep(w)
      PROVE  i < net[n].nodes
  <2>1. UpdateNetworkStatus(w) \/ UNCHANGED net
    BY <1>3 DEF WorkerStep, Begin, FetchNetwork, EnsureService, EnsureStatefulSet,
                AdjustReplicas, ReadPods, ReadCredentials, SyncNodes, AddNode, RemoveNode,
                clusterVars
  <2> QED
    BY <2>1, WorkerStatusFits
<1> QED
  BY <1>1, <1>2, <1>3 DEF Next

\* However often the spec is edited while a worker computes the status from an older copy, the
\* status that is published fits the spec it is published under (updateNetworkStatus).
THEOREM StatusesFit == Spec => StatusFitsSpec
<1>1. Init => NodeListFits
  BY DEF Init, InitRecon, NodeListFits
<1>2. TypeInv /\ NodeListFits /\ [Next]_vars => NodeListFits'
  BY StepKeepsNodeListFits
<1>3. TypeInv /\ NodeListFits /\ [Next]_vars
        => [\A n \in Networks :
              (/\ net[n] # Absent
               /\ net'[n] # Absent
               /\ net'[n].status # net[n].status)
                 => \A i \in Ordinals : net'[n].status[i] # Absent => i < net[n].nodes]_net
  BY StepFitsStatus
<1> QED
  BY <1>1, <1>2, <1>3, TypesAreConsistent, PTL DEF Spec, StatusFitsSpec
=============================================================================
