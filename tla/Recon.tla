-------------------------------- MODULE Recon --------------------------------
(***************************************************************************)
(* The reconciliation of one bitcoin network by one worker: doRecon in     *)
(* internal/controller/controller.go, with the functions it calls.  Every  *)
(* call to the API server and to a bitcoin daemon is a step of its own, so *)
(* is every read of a cache whose result is used by a later call; the      *)
(* cluster, the informers and the other workers go on in between.          *)
(***************************************************************************)
EXTENDS Informers

VARIABLES pc,           \* pc[w]: the next step of worker w, "idle" outside doRecon
          bcNetwork,    \* the network as read from the cache
          stsRead,      \* sts of doRecon: read from the cache or created; Absent is nil
          nodeList,     \* the new node list
          config,       \* syncNodes: the credentials it uses ...
          targets,      \* ... the daemons still to be visited ...
          target,       \* ... and the one being visited
          toAdd,        \* connectNode: the calls of AddNode ...
          toRemove,     \* ... and of RemoveNode still to be made
          applied       \* history: the version of the spec behind sts[n].replicas

syncVars == <<config, targets, target, toAdd, toRemove>>
reconVars == <<pc, bcNetwork, stsRead, nodeList, syncVars, applied>>

Steps == {"idle", "fetch", "service", "statefulset", "replicas", "pods", "status",
          "credentials", "sync", "connect"}

InitRecon == /\ pc = [w \in Workers |-> "idle"]
             /\ bcNetwork = [w \in Workers |-> Absent]
             /\ stsRead = [w \in Workers |-> Absent]
             /\ nodeList = [w \in Workers |-> EmptyList]
             /\ config = [w \in Workers |-> Absent]
             /\ targets = [w \in Workers |-> {}]
             /\ target = [w \in Workers |-> Absent]
             /\ toAdd = [w \in Workers |-> {}]
             /\ toRemove = [w \in Workers |-> {}]
             /\ applied = [n \in Networks |-> 0]

\* The process ends, in the middle of doRecon or not.
LoseLocals == /\ pc' = [w \in Workers |-> "idle"]
              /\ bcNetwork' = [w \in Workers |-> Absent]
              /\ stsRead' = [w \in Workers |-> Absent]
              /\ nodeList' = [w \in Workers |-> EmptyList]
              /\ config' = [w \in Workers |-> Absent]
              /\ targets' = [w \in Workers |-> {}]
              /\ target' = [w \in Workers |-> Absent]
              /\ toAdd' = [w \in Workers |-> {}]
              /\ toRemove' = [w \in Workers |-> {}]

Goto(w, step) == pc' = [pc EXCEPT ![w] = step]

\* workerMainLoop takes a key and calls doRecon.
Begin(w) == /\ running
            /\ Get(w)
            /\ Goto(w, "fetch")
            /\ UNCHANGED <<bcNetwork, stsRead, nodeList, syncVars, applied>>
            /\ UNCHANGED <<clusterVars, informerVars>>

\* doRecon returns true, and workerMainLoop calls Done.  What doRecon kept in
\* local variables is gone.
Return(w) == /\ Done(w)
             /\ Goto(w, "idle")
             /\ bcNetwork' = [bcNetwork EXCEPT ![w] = Absent]
             /\ stsRead' = [stsRead EXCEPT ![w] = Absent]
             /\ nodeList' = [nodeList EXCEPT ![w] = EmptyList]
             /\ config' = [config EXCEPT ![w] = Absent]
             /\ UNCHANGED <<targets, target, toAdd, toRemove>>

\* Bug: the deletion timestamp is not looked at.
FetchDeletedToo(w) ==
    LET cached == bcLister[held[w]]
    IN  /\ pc[w] = "fetch"
        /\ unread' = unread \ {held[w]}
        /\ IF cached # Absent
           THEN /\ bcNetwork' = [bcNetwork EXCEPT ![w] = cached]
                /\ Goto(w, "service")
                /\ UNCHANGED <<stsRead, nodeList, syncVars, queueVars>>
           ELSE Return(w)
        /\ UNCHANGED <<bcLister, svcLister, stsLister, podLister, synced, events, running>>
        /\ UNCHANGED <<clusterVars, applied>>

\* A network that is not in the cache, or is being deleted, is ignored.
FetchNetwork(w) ==
    LET cached == bcLister[held[w]]
    IN  /\ pc[w] = "fetch"
        /\ unread' = unread \ {held[w]}
        /\ IF cached # Absent /\ ~cached.deleting
           THEN /\ bcNetwork' = [bcNetwork EXCEPT ![w] = cached]
                /\ Goto(w, "service")
                /\ UNCHANGED <<stsRead, nodeList, syncVars, queueVars>>
           ELSE Return(w)
        /\ UNCHANGED <<bcLister, svcLister, stsLister, podLister, synced, events, running>>
        /\ UNCHANGED <<clusterVars, applied>>

-----------------------------------------------------------------------------
\* Bug: the service is created without a controller reference.
CreateUnownedService(w) ==
    LET n == held[w]
    IN  \/ /\ svc[n] = Absent
           /\ svc' = [svc EXCEPT ![n] = [owner |-> 0]]
           /\ UNCHANGED faults
        \/ /\ svc[n] # Absent
           /\ UNCHANGED <<svc, faults>>
        \/ /\ Disturb("api")
           /\ UNCHANGED svc

\* The headless service: created unless the cache has one of that name.  If it
\* does exist in the server, or the call fails, nothing else happens.
CreateHeadlessService(w) ==
    LET n == held[w]
    IN  \/ /\ svc[n] = Absent
           /\ svc' = [svc EXCEPT ![n] = [owner |-> bcNetwork[w].uid]]
           /\ UNCHANGED faults
        \/ /\ svc[n] # Absent
           /\ UNCHANGED <<svc, faults>>
        \/ /\ Disturb("api")
           /\ UNCHANGED svc

EnsureService(w) ==
    /\ pc[w] = "service"
    /\ IF svcLister[held[w]] = Absent THEN CreateHeadlessService(w)
                                      ELSE UNCHANGED <<svc, faults>>
    /\ Goto(w, "statefulset")
    /\ UNCHANGED <<net, sts, pods, daemonVars, issued, version, informerVars, queueVars>>
    /\ UNCHANGED <<bcNetwork, stsRead, nodeList, syncVars, applied>>

\* The stateful set: a stateful set that exists already, or a call that fails,
\* leaves doRecon without one.  The server refuses a negative number of replicas.
CreateStatefulSet(w) ==
    LET n == held[w]
        new == [owner |-> bcNetwork[w].uid, replicas |-> bcNetwork[w].nodes, ready |-> 0]
    IN  \/ /\ sts[n] = Absent
           /\ new.replicas >= 0
           /\ sts' = [sts EXCEPT ![n] = new]
           /\ stsRead' = [stsRead EXCEPT ![w] = new]
           /\ applied' = [applied EXCEPT ![n] = bcNetwork[w].version]
           /\ UNCHANGED faults
        \/ /\ sts[n] # Absent \/ new.replicas < 0
           /\ stsRead' = [stsRead EXCEPT ![w] = Absent]
           /\ UNCHANGED <<sts, faults, applied>>
        \/ /\ Disturb("api")
           /\ stsRead' = [stsRead EXCEPT ![w] = Absent]
           /\ UNCHANGED <<sts, applied>>

EnsureStatefulSet(w) ==
    /\ pc[w] = "statefulset"
    /\ IF stsLister[held[w]] = Absent
       THEN CreateStatefulSet(w)
       ELSE /\ stsRead' = [stsRead EXCEPT ![w] = stsLister[held[w]]]
            /\ UNCHANGED <<sts, faults, applied>>
    /\ Goto(w, "replicas")
    /\ UNCHANGED <<net, svc, pods, daemonVars, issued, version, informerVars, queueVars>>
    /\ UNCHANGED <<bcNetwork, nodeList, syncVars>>

\* updateStatefulSet: the update is refused if the stateful set has changed since
\* it was read; an error is only logged.
UpdateStatefulSet(w) ==
    LET n == held[w]
    IN  \/ /\ sts[n] = stsRead[w]
           /\ bcNetwork[w].nodes >= 0
           /\ sts' = [sts EXCEPT ![n].replicas = bcNetwork[w].nodes]
           /\ applied' = [applied EXCEPT ![n] = bcNetwork[w].version]
           /\ UNCHANGED faults
        \/ /\ sts[n] # stsRead[w] \/ bcNetwork[w].nodes < 0
           /\ UNCHANGED <<sts, applied, faults>>
        \/ /\ Disturb("api")
           /\ UNCHANGED <<sts, applied>>

\* Bug: the stateful set is only ever scaled up.
RaiseReplicas(w) ==
    /\ pc[w] = "replicas"
    /\ IF stsRead[w] # Absent /\ stsRead[w].replicas < bcNetwork[w].nodes
       THEN UpdateStatefulSet(w)
       ELSE UNCHANGED <<sts, applied, faults>>
    /\ Goto(w, "pods")
    /\ UNCHANGED <<net, svc, pods, daemonVars, issued, version, informerVars, queueVars>>
    /\ UNCHANGED <<bcNetwork, stsRead, nodeList, syncVars>>

\* An unequal number is written, up or down.
AdjustReplicas(w) ==
    /\ pc[w] = "replicas"
    /\ IF stsRead[w] # Absent /\ stsRead[w].replicas # bcNetwork[w].nodes
       THEN UpdateStatefulSet(w)
       ELSE UNCHANGED <<sts, applied, faults>>
    /\ Goto(w, "pods")
    /\ UNCHANGED <<net, svc, pods, daemonVars, issued, version, informerVars, queueVars>>
    /\ UNCHANGED <<bcNetwork, stsRead, nodeList, syncVars>>
-----------------------------------------------------------------------------
\* Bug: the last pod is missed.
ReadPodsButLast(w) ==
    /\ pc[w] = "pods"
    /\ nodeList' = [nodeList EXCEPT ![w] =
           [i \in Ordinals |-> IF i + 1 < bcNetwork[w].nodes THEN podLister[held[w]][i]
                                                             ELSE Absent]]
    /\ Goto(w, "status")
    /\ UNCHANGED <<clusterVars, informerVars, queueVars>>
    /\ UNCHANGED <<bcNetwork, stsRead, syncVars, applied>>

\* updateNetworkStatus reads the pods of the stateful set by their names ...
ReadPods(w) ==
    /\ pc[w] = "pods"
    /\ nodeList' = [nodeList EXCEPT ![w] =
           [i \in Ordinals |-> IF i < bcNetwork[w].nodes THEN podLister[held[w]][i] ELSE Absent]]
    /\ Goto(w, "status")
    /\ UNCHANGED <<clusterVars, informerVars, queueVars>>
    /\ UNCHANGED <<bcNetwork, stsRead, syncVars, applied>>

\* Bug: the network is read again before the update, which then is not refused.
OverwriteStatus(w) ==
    LET n == held[w]
    IN  \/ /\ net[n] # Absent
           /\ net' = [net EXCEPT ![n].status = nodeList[w]]
           /\ UNCHANGED faults
        \/ /\ net[n] = Absent
           /\ UNCHANGED <<net, faults>>
        \/ /\ Disturb("api")
           /\ UNCHANGED net

\* ... and writes the node list to the status subresource; an error is only logged.
UpdateStatus(w) ==
    LET n == held[w]
    IN  \/ /\ net[n] = bcNetwork[w]
           /\ net' = [net EXCEPT ![n].status = nodeList[w]]
           /\ UNCHANGED faults
        \/ /\ net[n] # bcNetwork[w]
           /\ UNCHANGED <<net, faults>>
        \/ /\ Disturb("api")
           /\ UNCHANGED net

\* Bug: the ordinals of the nodes instead of their addresses.
ReadyOrdinals(list) == {i \in Ordinals : list[i] # Absent /\ list[i].ready}

\* The IPs of the nodes that are ready (readyNodes of syncNodes).
ReadyNodes(list) == {list[i].ip : i \in {j \in Ordinals : list[j] # Absent /\ list[j].ready}}

\* Bug: the new list is compared with the status it has just been written to.
CompareAfterUpdate(w) ==
    /\ pc[w] = "status"
    /\ UpdateStatus(w)
    /\ IF net'[held[w]] # Absent /\ nodeList[w] # net'[held[w]].status
       THEN /\ targets' = [targets EXCEPT ![w] = ReadyNodes(nodeList[w])]
            /\ Goto(w, "credentials")
            /\ UNCHANGED <<bcNetwork, stsRead, nodeList, config, target, toAdd, toRemove>>
            /\ UNCHANGED queueVars
       ELSE Return(w)
    /\ UNCHANGED <<svc, sts, pods, daemonVars, issued, version, informerVars, applied>>

\* doRecon calls syncNodes only if the node list differs from the status in the
\* network it read, whatever became of the update of the status.
UpdateNetworkStatus(w) ==
    /\ pc[w] = "status"
    /\ UpdateStatus(w)
    /\ IF nodeList[w] # bcNetwork[w].status
       THEN /\ targets' = [targets EXCEPT ![w] = ReadyNodes(nodeList[w])]
            /\ Goto(w, "credentials")
            /\ UNCHANGED <<bcNetwork, stsRead, nodeList, config, target, toAdd, toRemove>>
            /\ UNCHANGED queueVars
       ELSE Return(w)
    /\ UNCHANGED <<svc, sts, pods, daemonVars, issued, version, informerVars, applied>>
-----------------------------------------------------------------------------
\* Bug: the credentials that were found are not used.
CredentialsIgnored(s) == DefaultLogin

\* The credentials in a secret; the defaults if a key is missing.
CredentialsForSecret(s) == IF s.user # 0 /\ s.password # 0 THEN s ELSE DefaultLogin

\* syncNodes asks the server for the secret; if that fails it uses the defaults.
ReadCredentials(w) ==
    LET inSecret == secret[held[w]]
    IN  /\ pc[w] = "credentials"
        /\ \/ config' = [config EXCEPT ![w] = CredentialsForSecret(inSecret)] /\ UNCHANGED faults
           \/ config' = [config EXCEPT ![w] = DefaultLogin] /\ Disturb("api")
        /\ Goto(w, "sync")
        /\ UNCHANGED <<net, svc, sts, pods, daemonVars, issued, version, informerVars>>
        /\ UNCHANGED <<queueVars, bcNetwork, stsRead, nodeList>>
        /\ UNCHANGED <<targets, target, toAdd, toRemove, applied>>

\* The calls to the daemons.  A daemon turns away a caller with other credentials than
\* its own.  One in a ready pod answers unless disturbed; one in a pod that is not
\* ready may answer.
Accepts(ip, credentials) == login[ip] = credentials
RPCAnswered(w, ip) == /\ HasPod(ip)
                      /\ Accepts(ip, config[w])
                      /\ UNCHANGED faults
RPCFailed(w, ip) == IF HasReadyPod(ip) /\ Accepts(ip, config[w]) THEN Disturb("rpc")
                                                                ELSE UNCHANGED faults

\* Bugs: a daemon that does not answer ends the whole round; nothing is removed.
QueryOrGiveUp(w, ip) ==
    LET ready == ReadyNodes(nodeList[w])
        addedNodes == added[ip] \cup {ip}
    IN  /\ ip \in targets[w]
        /\ \/ /\ RPCAnswered(w, ip)
              /\ ready # addedNodes
              /\ targets' = [targets EXCEPT ![w] = @ \ {ip}]
              /\ target' = [target EXCEPT ![w] = ip]
              /\ toAdd' = [toAdd EXCEPT ![w] = ready \ addedNodes]
              /\ toRemove' = [toRemove EXCEPT ![w] = addedNodes \ ready]
              /\ Goto(w, "connect")
           \/ /\ \/ /\ RPCAnswered(w, ip)
                    /\ ready = addedNodes
                    /\ targets' = [targets EXCEPT ![w] = @ \ {ip}]
                 \/ RPCFailed(w, ip) /\ targets' = [targets EXCEPT ![w] = {}]
              /\ UNCHANGED <<target, toAdd, toRemove, pc>>
        /\ UNCHANGED <<bcNetwork, stsRead, nodeList, config, queueVars>>

QueryForMissing(w, ip) ==
    LET ready == ReadyNodes(nodeList[w])
        addedNodes == added[ip] \cup {ip}
    IN  /\ ip \in targets[w]
        /\ targets' = [targets EXCEPT ![w] = @ \ {ip}]
        /\ \/ /\ RPCAnswered(w, ip)
              /\ ready \ addedNodes # {}
              /\ target' = [target EXCEPT ![w] = ip]
              /\ toAdd' = [toAdd EXCEPT ![w] = ready \ addedNodes]
              /\ toRemove' = [toRemove EXCEPT ![w] = {}]
              /\ Goto(w, "connect")
           \/ /\ \/ RPCAnswered(w, ip) /\ ready \ addedNodes = {}
                 \/ RPCFailed(w, ip)
              /\ UNCHANGED <<target, toAdd, toRemove, pc>>
        /\ UNCHANGED <<bcNetwork, stsRead, nodeList, config, queueVars>>

\* connectNode asks a daemon for its added nodes and compares them with the ready
\* ones; the daemon itself counts as added.  If the call fails it is left alone.
QueryNode(w, ip) ==
    LET ready == ReadyNodes(nodeList[w])
        addedNodes == added[ip] \cup {ip}
    IN  /\ ip \in targets[w]
        /\ targets' = [targets EXCEPT ![w] = @ \ {ip}]
        /\ \/ /\ RPCAnswered(w, ip)
              /\ ready # addedNodes
              /\ target' = [target EXCEPT ![w] = ip]
              /\ toAdd' = [toAdd EXCEPT ![w] = ready \ addedNodes]
              /\ toRemove' = [toRemove EXCEPT ![w] = addedNodes \ ready]
              /\ Goto(w, "connect")
           \/ /\ \/ RPCAnswered(w, ip) /\ ready = addedNodes
                 \/ RPCFailed(w, ip)
              /\ UNCHANGED <<target, toAdd, toRemove, pc>>
        /\ UNCHANGED <<bcNetwork, stsRead, nodeList, config, queueVars>>

SyncNodes(w) ==
    /\ pc[w] = "sync"
    /\ \/ \E ip \in targets[w] : QueryNode(w, ip)
       \/ targets[w] = {} /\ Return(w) /\ UNCHANGED faults
    /\ UNCHANGED <<net, svc, sts, pods, daemonVars, issued, version, informerVars, applied>>

\* The nodes to be added come first, then the ones to be removed, in any order.
\* That a node is already added, or not added, is no error; any other error is
\* logged, and the loop goes on.
Connected(w) == IF toAdd'[w] = {} /\ toRemove'[w] = {}
                THEN Goto(w, "sync") /\ target' = [target EXCEPT ![w] = Absent]
                ELSE UNCHANGED <<pc, target>>

AddNode(w) ==
    /\ pc[w] = "connect"
    /\ \E ip \in toAdd[w] :
         /\ toAdd' = [toAdd EXCEPT ![w] = @ \ {ip}]
         /\ \/ /\ RPCAnswered(w, target[w])
               /\ added' = [added EXCEPT ![target[w]] = @ \cup {ip}]
            \/ /\ RPCFailed(w, target[w])
               /\ UNCHANGED added
    /\ UNCHANGED toRemove
    /\ Connected(w)
    /\ UNCHANGED <<net, svc, sts, pods, secret, login, issued, version>>
    /\ UNCHANGED <<informerVars, queueVars, bcNetwork, stsRead, nodeList, config, targets, applied>>

RemoveNode(w) ==
    /\ pc[w] = "connect"
    /\ toAdd[w] = {}
    /\ \E ip \in toRemove[w] :
         /\ toRemove' = [toRemove EXCEPT ![w] = @ \ {ip}]
         /\ \/ /\ RPCAnswered(w, target[w])
               /\ added' = [added EXCEPT ![target[w]] = @ \ {ip}]
            \/ /\ RPCFailed(w, target[w])
               /\ UNCHANGED added
    /\ UNCHANGED toAdd
    /\ Connected(w)
    /\ UNCHANGED <<net, svc, sts, pods, secret, login, issued, version>>
    /\ UNCHANGED <<informerVars, queueVars, bcNetwork, stsRead, nodeList, config, targets, applied>>
-----------------------------------------------------------------------------
\* What the workers keep while they reconcile.
ReconTypeOK ==
    /\ pc \in [Workers -> Steps]
    /\ bcNetwork \in [Workers -> BitcoinNetwork \cup {Absent}]
    /\ stsRead \in [Workers -> StatefulSet \cup {Absent}]
    /\ nodeList \in [Workers -> NodeList]
    /\ config \in [Workers -> Login \cup {Absent}]
    /\ targets \in [Workers -> SUBSET IPs]
    /\ target \in [Workers -> IPs \cup {Absent}]
    /\ toAdd \in [Workers -> SUBSET IPs]
    /\ toRemove \in [Workers -> SUBSET IPs]
    /\ applied \in [Networks -> Nat]
=============================================================================
