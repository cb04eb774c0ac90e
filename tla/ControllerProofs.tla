-------------------------- MODULE ControllerProofs --------------------------
(***************************************************************************)
(* Theorems about the whole controller in its cluster, for any networks,   *)
(* workers, bounds and disturbances: it uses the work queue as the queue   *)
(* wants to be used, so that all that is proved of the queue holds of it;  *)
(* and it never loses a wake-up.                                           *)
(***************************************************************************)
EXTENDS BitcoinController, WorkQueueProofs

\* A worker that returns from doRecon calls Done.
LEMMA ReturnIsDone == ASSUME NEW w \in Workers, Return(w) PROVE Done(w)
BY DEF Return

\* What a worker does to the queue: nothing, or Get, or Done.
LEMMA WorkerUsesQueue ==
    ASSUME NEW w \in Workers, WorkerStep(w)
    PROVE  Get(w) \/ Done(w) \/ UNCHANGED queueVars
<1>1. CASE Begin(w)
  BY <1>1 DEF Begin
<1>2. CASE FetchNetwork(w)
  BY <1>2, ReturnIsDone DEF FetchNetwork
<1>3. CASE EnsureService(w)
  BY <1>3 DEF EnsureService
<1>4. CASE EnsureStatefulSet(w)
  BY <1>4 DEF EnsureStatefulSet
<1>5. CASE AdjustReplicas(w)
  BY <1>5 DEF AdjustReplicas
<1>6. CASE ReadPods(w)
  BY <1>6 DEF ReadPods
<1>7. CASE UpdateNetworkStatus(w)
  BY <1>7, ReturnIsDone DEF UpdateNetworkStatus
<1>8. CASE SyncNodes(w)
  BY <1>8, ReturnIsDone DEF SyncNodes, QueryNode
<1>9. CASE AddNode(w)
  BY <1>9 DEF AddNode
<1>10. CASE RemoveNode(w)
  BY <1>10 DEF RemoveNode
<1>11. CASE ReadCredentials(w)
  BY <1>11 DEF ReadCredentials
<1> QED
  BY <1>1, <1>2, <1>3, <1>4, <1>5, <1>6, <1>7, <1>8, <1>9, <1>10, <1>11 DEF WorkerStep

\* A handler adds a key, or ignores the event.
LEMMA HandlerUsesQueue ==
    ASSUME NEW n \in Networks, Handlers(n)
    PROVE  Add(n) \/ UNCHANGED queueVars
BY DEF Handlers, HandleNetwork, HandleObject

\* Every step of the controller in its cluster is a step of the queue, or none.
LEMMA StepUsesQueue == [Next]_vars => [NextQueue]_queueVars
<1> SUFFICES ASSUME [Next]_vars
             PROVE  [NextQueue]_queueVars
  OBVIOUS
<1>1. CASE Environment
  BY <1>1 DEF Environment, OutsideCluster
<1>2. CASE InformerStep
  <2>1. CASE OutsideInformers
    BY <2>1 DEF OutsideInformers
  <2>2. CASE \E n \in Networks : Handlers(n)
    BY <2>2, HandlerUsesQueue DEF NextQueue
  <2> QED
    BY <1>2, <2>1, <2>2 DEF InformerStep
<1>3. ASSUME NEW w \in Workers, WorkerStep(w)
      PROVE  [NextQueue]_queueVars
  BY <1>3, WorkerUsesQueue DEF NextQueue
<1>4. CASE Crash
  BY <1>4 DEF Crash, NextQueue
<1>5. CASE UNCHANGED vars
  BY <1>5 DEF vars
<1> QED
  BY <1>1, <1>2, <1>3, <1>4, <1>5 DEF Next

\* The controller uses its queue as the specification of the queue allows (Begin,
\* Return and the handlers against enqueue and workerMainLoop).
THEOREM ControllerUsesQueue == Spec => QueueSpec
<1>1. Init => InitQueue
  BY DEF Init
<1> QED
  BY <1>1, StepUsesQueue, PTL DEF Spec, QueueSpec

\* The controller in its cluster implements the abstract scheduler, through restarts.
THEOREM ControllerImplementsScheduler == Spec => ImplementsScheduler
BY ControllerUsesQueue, QueueImplementsScheduler, PTL

\* No two workers of the controller are ever at work on the same network.
THEOREM ControllerReconIsExclusive == Spec => []ExclusiveRecon
BY ControllerUsesQueue, ReconIsExclusive, PTL
-----------------------------------------------------------------------------
\* That no wake-up is lost is inductive once the workers' program counters and the
\* keys they hold are known to be functions on the workers.
WakeupInv == /\ NoLostWakeup
             /\ unread \subseteq Networks
             /\ pc \in [Workers -> Steps]
             /\ QueueTypeOK

\* A worker that is past the read of its network takes no wake-up away.
LEMMA PastFetchKeepsWakeup ==
    ASSUME WakeupInv, NEW w \in Workers, pc[w] # "fetch",
           UNCHANGED <<unread, events, dirty>>,
           \A v \in Workers \ {w} : pc'[v] = pc[v] /\ held'[v] = held[v]
    PROVE  NoLostWakeup'
<1> SUFFICES ASSUME NEW n \in unread
             PROVE  \/ <<"bc", n>> \in events
                    \/ n \in dirty
                    \/ \E v \in Workers : held'[v] = n /\ pc'[v] = "fetch"
  BY DEF NoLostWakeup
<1>1. CASE <<"bc", n>> \in events \/ n \in dirty
  BY <1>1
<1>2. ASSUME NEW v \in Workers, held[v] = n, pc[v] = "fetch"
      PROVE  held'[v] = n /\ pc'[v] = "fetch"
  <2>1. v \in Workers \ {w}
    BY <1>2
  <2> QED
    BY <1>2, <2>1
<1> QED
  BY <1>1, <1>2 DEF WakeupInv, NoLostWakeup

\* What leaves alone the workers, and loses neither an event nor a request, keeps
\* every wake-up.
LEMMA MoreKeepsWakeup ==
    ASSUME WakeupInv, UNCHANGED <<unread, pc, held>>,
           events \subseteq events', dirty \subseteq dirty'
    PROVE  NoLostWakeup'
BY DEF WakeupInv, NoLostWakeup

\* The informers: a network that becomes unread becomes so together with its event.
LEMMA InformersKeepWakeup ==
    ASSUME WakeupInv, OutsideInformers,
           \/ Lists \/ StartWorkers \/ ResyncNetworks \/ ResyncDependents
           \/ \E n \in Networks : Watches(n)
    PROVE  NoLostWakeup'
<1> USE DEF OutsideInformers, queueVars, reconVars
<1>1. CASE ListNetworks
  BY <1>1 DEF ListNetworks, Notify, NoLostWakeup, WakeupInv
<1>2. CASE ListServices \/ ListStatefulSets \/ ListPods \/ StartWorkers
  BY <1>2, MoreKeepsWakeup DEF ListServices, ListStatefulSets, ListPods, StartWorkers
<1>3. CASE ResyncNetworks \/ ResyncDependents
  BY <1>3, MoreKeepsWakeup DEF ResyncNetworks, ResyncDependents, Notify
<1>4. ASSUME NEW n \in Networks, WatchNetwork(n)
      PROVE  NoLostWakeup'
  BY <1>4 DEF WatchNetwork, Notify, Cached, NoLostWakeup, WakeupInv
<1>5. ASSUME NEW n \in Networks, WatchService(n) \/ WatchStatefulSet(n)
      PROVE  NoLostWakeup'
  BY <1>5, MoreKeepsWakeup DEF WatchService, WatchStatefulSet, Notify
<1>6. ASSUME NEW n \in Networks, NEW i \in Ordinals, WatchPod(n, i)
      PROVE  NoLostWakeup'
  BY <1>6, MoreKeepsWakeup DEF WatchPod
<1> QED
  BY <1>1, <1>2, <1>3, <1>4, <1>5, <1>6 DEF Lists, Watches

\* The handlers: an event for a network becomes a request, the other events do not
\* count.
LEMMA HandlersKeepWakeup ==
    ASSUME WakeupInv, NEW n \in Networks, Handlers(n), OutsideHandlers
    PROVE  NoLostWakeup'
<1> USE DEF OutsideHandlers, reconVars
<1>1. CASE HandleNetwork(n)
  BY <1>1 DEF HandleNetwork, Delivered, Add, NoLostWakeup, WakeupInv
<1>2. CASE HandleObject(n)
  <2>1. /\ unread' = unread
        /\ held' = held
        /\ dirty \subseteq dirty'
        /\ \A m : <<"bc", m>> \in events => <<"bc", m>> \in events'
    BY <1>2 DEF HandleObject, Delivered, Add, queueVars
  <2> QED
    BY <2>1 DEF NoLostWakeup, WakeupInv
<1> QED
  BY <1>1, <1>2 DEF Handlers

\* Done leaves the requests and the other workers alone.
LEMMA ReturnKeepsWakeup ==
    ASSUME WakeupInv, NEW w \in Workers, pc[w] # "fetch", Return(w),
           UNCHANGED <<unread, events>>
    PROVE  NoLostWakeup'
<1>1. /\ held' = [held EXCEPT ![w] = NoKey]
      /\ pc' = [pc EXCEPT ![w] = "idle"]
      /\ dirty' = dirty
  BY DEF Return, Done, Goto
<1> QED
  BY <1>1, PastFetchKeepsWakeup DEF WakeupInv, QueueTypeOK

\* The workers: a request that is taken is followed by the read of the network.
LEMMA WorkersKeepWakeup ==
    ASSUME WakeupInv, NEW w \in Workers, WorkerStep(w)
    PROVE  NoLostWakeup'
<1> USE DEF informerVars, queueVars, Goto
<1>1. CASE Begin(w)
  <2>1. /\ UNCHANGED <<unread, events>>
        /\ dirty' = dirty \ {Head(queue)}
        /\ held' = [held EXCEPT ![w] = Head(queue)]
        /\ held[w] = NoKey
        /\ pc' = [pc EXCEPT ![w] = "fetch"]
        /\ held \in [Workers -> Networks \cup {NoKey}]
        /\ pc \in [Workers -> Steps]
    BY <1>1 DEF Begin, Get, WakeupInv, QueueTypeOK
  <2>2. held'[w] = Head(queue) /\ pc'[w] = "fetch"
    BY <2>1
  <2>3. \A v \in Workers \ {w} : held'[v] = held[v] /\ pc'[v] = pc[v]
    BY <2>1
  <2>4. \A n \in unread : held[w] # n
    BY <2>1, NoKeyAssumption DEF WakeupInv
  <2> SUFFICES ASSUME NEW n \in unread
               PROVE  \/ <<"bc", n>> \in events
                      \/ n \in dirty'
                      \/ \E v \in Workers : held'[v] = n /\ pc'[v] = "fetch"
    BY <2>1 DEF NoLostWakeup
  <2>5. CASE <<"bc", n>> \in events
    BY <2>5
  <2>6. CASE n \in dirty
    BY <2>1, <2>2, <2>6
  <2>7. ASSUME NEW v \in Workers, held[v] = n, pc[v] = "fetch"
        PROVE  held'[v] = n /\ pc'[v] = "fetch"
    <3>1. v \in Workers \ {w}
      BY <2>4, <2>7
    <3> QED
      BY <2>3, <2>7, <3>1
  <2> QED
    BY <2>5, <2>6, <2>7 DEF NoLostWakeup, WakeupInv
<1>2. CASE FetchNetwork(w)
  <2>1. /\ unread' = unread \ {held[w]}
        /\ events' = events
        /\ dirty' = dirty
        /\ \A v \in Workers \ {w} : pc'[v] = pc[v] /\ held'[v] = held[v]
    BY <1>2 DEF FetchNetwork, Return, Done, WakeupInv, QueueTypeOK
  <2> QED
    BY <2>1 DEF NoLostWakeup, WakeupInv
<1>3. CASE EnsureService(w)
  BY <1>3, PastFetchKeepsWakeup DEF EnsureService, WakeupInv
<1>4. CASE EnsureStatefulSet(w)
  BY <1>4, PastFetchKeepsWakeup DEF EnsureStatefulSet, WakeupInv
<1>5. CASE AdjustReplicas(w)
  BY <1>5, PastFetchKeepsWakeup DEF AdjustReplicas, WakeupInv
<1>6. CASE ReadPods(w)
  BY <1>6, PastFetchKeepsWakeup DEF ReadPods, WakeupInv
<1>7. CASE UpdateNetworkStatus(w)
  <2>1. CASE Return(w)
    BY <1>7, <2>1, ReturnKeepsWakeup DEF UpdateNetworkStatus
  <2>2. CASE Goto(w, "credentials") /\ UNCHANGED queueVars
    BY <1>7, <2>2, PastFetchKeepsWakeup DEF UpdateNetworkStatus, WakeupInv
  <2> QED
    BY <1>7, <2>1, <2>2 DEF UpdateNetworkStatus
<1>8. CASE SyncNodes(w)
  <2>1. CASE Return(w)
    BY <1>8, <2>1, ReturnKeepsWakeup DEF SyncNodes
  <2>2. ASSUME NEW ip \in targets[w], QueryNode(w, ip)
        PROVE  NoLostWakeup'
    BY <1>8, <2>2, PastFetchKeepsWakeup DEF SyncNodes, QueryNode, WakeupInv
  <2> QED
    BY <1>8, <2>1, <2>2 DEF SyncNodes
<1>9. CASE AddNode(w)
  BY <1>9, PastFetchKeepsWakeup DEF AddNode, Connected, WakeupInv
<1>10. CASE RemoveNode(w)
  BY <1>10, PastFetchKeepsWakeup DEF RemoveNode, Connected, WakeupInv
<1>11. CASE ReadCredentials(w)
  BY <1>11, PastFetchKeepsWakeup DEF ReadCredentials, WakeupInv
<1> QED
  BY <1>1, <1>2, <1>3, <1>4, <1>5, <1>6, <1>7, <1>8, <1>9, <1>10, <1>11 DEF WorkerStep

\* The steps keep unread a set of networks and pc a function on the workers.
LEMMA StepKeepsTypes ==
    ASSUME WakeupInv, [Next]_vars
    PROVE  unread' \subseteq Networks /\ pc' \in [Workers -> Steps]
<1> USE DEF WakeupInv, informerVars, reconVars
<1>1. CASE Environment
  BY <1>1 DEF Environment, OutsideCluster
<1>2. CASE InformerStep
  <2>1. pc' = pc
    BY <1>2 DEF InformerStep, OutsideInformers, OutsideHandlers
  <2>2. unread' \subseteq Networks
    <3>1. CASE Lists \/ StartWorkers \/ ResyncNetworks \/ ResyncDependents
      BY <3>1 DEF Lists, ListNetworks, ListServices, ListStatefulSets, ListPods,
                  StartWorkers, ResyncNetworks, ResyncDependents
    <3>2. ASSUME NEW n \in Networks, Watches(n)
          PROVE  unread' \subseteq Networks
      BY <3>2 DEF Watches, WatchNetwork, WatchService, WatchStatefulSet, WatchPod
    <3>3. ASSUME NEW n \in Networks, Handlers(n)
          PROVE  unread' \subseteq Networks
      BY <3>3 DEF Handlers, HandleNetwork, HandleObject, Delivered
    <3> QED
      BY <1>2, <3>1, <3>2, <3>3 DEF InformerStep
  <2> QED
    BY <2>1, <2>2
<1>3. ASSUME NEW w \in Workers, WorkerStep(w)
      PROVE  unread' \subseteq Networks /\ pc' \in [Workers -> Steps]
  <2> USE DEF Goto, Steps, Return
  <2>1. CASE Begin(w)
    BY <2>1 DEF Begin
  <2>2. CASE FetchNetwork(w)
    BY <2>2 DEF FetchNetwork
  <2>3. CASE EnsureService(w) \/ EnsureStatefulSet(w) \/ AdjustReplicas(w) \/ ReadPods(w)
    BY <2>3 DEF EnsureService, EnsureStatefulSet, AdjustReplicas, ReadPods
  <2>4. CASE UpdateNetworkStatus(w)
    BY <2>4 DEF UpdateNetworkStatus
  <2>5. CASE SyncNodes(w)
    BY <2>5 DEF SyncNodes, QueryNode
  <2>6. CASE AddNode(w) \/ RemoveNode(w)
    BY <2>6 DEF AddNode, RemoveNode, Connected
  <2>7. CASE ReadCredentials(w)
    BY <2>7 DEF ReadCredentials
  <2> QED
    BY <1>3, <2>1, <2>2, <2>3, <2>4, <2>5, <2>6, <2>7 DEF WorkerStep
<1>4. CASE Crash
  BY <1>4 DEF Crash, LoseInformers, LoseLocals, Steps
<1>5. CASE UNCHANGED vars
  BY <1>5 DEF vars
<1> QED
  BY <1>1, <1>2, <1>3, <1>4, <1>5 DEF Next

\* Every step of the controller in its cluster keeps every wake-up.
LEMMA StepKeepsWakeup ==
    ASSUME WakeupInv, [Next]_vars
    PROVE  NoLostWakeup'
<1>1. CASE Environment
  BY <1>1, MoreKeepsWakeup DEF Environment, OutsideCluster, informerVars, queueVars, reconVars
<1>2. CASE InformerStep
  <2>1. ASSUME NEW n \in Networks, Handlers(n), OutsideHandlers
        PROVE  NoLostWakeup'
    BY <2>1, HandlersKeepWakeup
  <2> QED
    BY <1>2, <2>1, InformersKeepWakeup DEF InformerStep, OutsideHandlers
<1>3. ASSUME NEW w \in Workers, WorkerStep(w)
      PROVE  NoLostWakeup'
  BY <1>3, WorkersKeepWakeup
<1>4. CASE Crash
  BY <1>4 DEF Crash, LoseInformers, NoLostWakeup
<1>5. CASE UNCHANGED vars
  BY <1>5, MoreKeepsWakeup DEF vars, informerVars, queueVars, reconVars
<1> QED
  BY <1>1, <1>2, <1>3, <1>4, <1>5 DEF Next

\* No wake-up is lost, for any number of networks and workers and through restarts:
\* a version of a network that no worker has read yet will be read (handlers,
\* enqueue, workerMainLoop and the read of the network in doRecon).
THEOREM WakeupsAreNotLost == Spec => []NoLostWakeup
<1>1. Spec => []QueueTypeOK
  BY ControllerUsesQueue, QueueTypeCorrect, PTL
<1>2. Init /\ QueueTypeOK => WakeupInv
  BY DEF Init, InitInformers, InitRecon, NoLostWakeup, WakeupInv, Steps
<1>3. WakeupInv /\ [Next]_vars /\ QueueTypeOK' => WakeupInv'
  BY StepKeepsTypes, StepKeepsWakeup DEF WakeupInv
<1> QED
  BY <1>1, <1>2, <1>3, PTL DEF Spec, WakeupInv
=============================================================================
