------------------------------ MODULE Informers ------------------------------
(***************************************************************************)
(* The informers of the controller: the caches its listers read, and the   *)
(* event handlers that turn a change in a cache into a request to          *)
(* reconcile (internal/controller/controller.go, NewController and the     *)
(* handlers; cmd/controller/main.go starts the informers).                 *)
(*                                                                         *)
(* A cache lags behind the server by any amount.  An informer updates its  *)
(* cache first and calls the handler later, on another goroutine: between  *)
(* the two, the event is in "events".                                      *)
(***************************************************************************)
EXTENDS Cluster, WorkQueue

VARIABLES bcLister, svcLister, stsLister, podLister,    \* the four caches
          synced,       \* informers whose cache holds the initial list
          events,       \* <<kind, network>>: events on their way to a handler
          running,      \* Run has started the workers
          unread        \* history: networks whose cached version no worker has read

informerVars == <<bcLister, svcLister, stsLister, podLister, synced, events, running, unread>>

Kinds == {"bc", "svc", "sts", "pod"}

\* Handlers there are two: one for networks, one for the objects a network owns.
EventKinds == {"bc", "object"}

InitInformers == /\ bcLister = [n \in Networks |-> Absent]
                 /\ svcLister = [n \in Networks |-> Absent]
                 /\ stsLister = [n \in Networks |-> Absent]
                 /\ podLister = [n \in Networks |-> EmptyList]
                 /\ synced = {}
                 /\ events = {}
                 /\ running = FALSE
                 /\ unread = {}

\* The process ends, and with it its caches, events and workers.
LoseInformers == /\ bcLister' = [n \in Networks |-> Absent]
                 /\ svcLister' = [n \in Networks |-> Absent]
                 /\ stsLister' = [n \in Networks |-> Absent]
                 /\ podLister' = [n \in Networks |-> EmptyList]
                 /\ synced' = {}
                 /\ events' = {}
                 /\ running' = FALSE
                 /\ unread' = {}

Cached(lister) == {n \in Networks : lister[n] # Absent}

\* Objects without a controller reference never lead to a request (handleObject).
Controlled(lister) == {n \in Cached(lister) : lister[n].owner # 0}

Notify(kind, ns) == events' = events \cup {<<kind, n>> : n \in ns}
-----------------------------------------------------------------------------
\* The first list of an informer, taken to be what the API server holds at that moment.
\* (client-go asks for it with resource version 0, which a server that lags behind may
\* answer with what was there some time before.)  Only the informer for bitcoin networks
\* has a handler for objects that appear.

ListNetworks == /\ "bc" \notin synced
                /\ bcLister' = net
                /\ Notify("bc", {n \in Networks : net[n] # Absent})
                /\ synced' = synced \cup {"bc"}
                /\ unread' = {n \in Networks : net[n] # Absent}
                /\ UNCHANGED <<svcLister, stsLister, podLister, running>>

ListServices == /\ "svc" \notin synced
                /\ svcLister' = svc
                /\ synced' = synced \cup {"svc"}
                /\ UNCHANGED <<bcLister, stsLister, podLister, events, running, unread>>

ListStatefulSets == /\ "sts" \notin synced
                    /\ stsLister' = sts
                    /\ synced' = synced \cup {"sts"}
                    /\ UNCHANGED <<bcLister, svcLister, podLister, events, running, unread>>

ListPods == /\ "pod" \notin synced
            /\ podLister' = pods
            /\ synced' = synced \cup {"pod"}
            /\ UNCHANGED <<bcLister, svcLister, stsLister, events, running, unread>>

\* Bug: Run waits for the informer of the networks only.
StartWorkersEarly == /\ ~running
                     /\ "bc" \in synced
                     /\ running' = TRUE
                     /\ UNCHANGED <<bcLister, svcLister, stsLister, podLister, synced, events,
                                    unread>>

\* Run starts the workers when all four caches are synced.
StartWorkers == /\ ~running
                /\ synced = Kinds
                /\ running' = TRUE
                /\ UNCHANGED <<bcLister, svcLister, stsLister, podLister, synced, events, unread>>
-----------------------------------------------------------------------------
\* The watch of an informer brings the current version of one object.  For a
\* network that appears or changes a handler is registered, for a service and a
\* stateful set only for one that changes; none for pods, and none for deletion.

WatchNetwork(n) ==
    /\ "bc" \in synced
    /\ bcLister[n] # net[n]
    /\ bcLister' = [bcLister EXCEPT ![n] = net[n]]
    /\ Notify("bc", {n} \cap Cached(bcLister'))
    /\ unread' = (unread \ {n}) \cup ({n} \cap Cached(bcLister'))
    /\ UNCHANGED <<svcLister, stsLister, podLister, synced, running>>

WatchService(n) ==
    /\ "svc" \in synced
    /\ svcLister[n] # svc[n]
    /\ svcLister' = [svcLister EXCEPT ![n] = svc[n]]
    /\ Notify("object", {n} \cap Cached(svcLister) \cap Controlled(svcLister'))
    /\ UNCHANGED <<bcLister, stsLister, podLister, synced, running, unread>>

WatchStatefulSet(n) ==
    /\ "sts" \in synced
    /\ stsLister[n] # sts[n]
    /\ stsLister' = [stsLister EXCEPT ![n] = sts[n]]
    /\ Notify("object", {n} \cap Cached(stsLister) \cap Controlled(stsLister'))
    /\ UNCHANGED <<bcLister, svcLister, podLister, synced, running, unread>>

WatchPod(n, i) ==
    /\ "pod" \in synced
    /\ podLister[n][i] # pods[n][i]
    /\ podLister' = [podLister EXCEPT ![n][i] = pods[n][i]]
    /\ UNCHANGED <<bcLister, svcLister, stsLister, synced, events, running, unread>>

\* Bug: the informer factory is created with a resync period of 0.
NoResync == UNCHANGED informerVars

\* Every 15 seconds, respectively 30 seconds, an informer calls the update handler
\* for every object in its cache.
ResyncNetworks == /\ Notify("bc", Cached(bcLister))
                  /\ UNCHANGED <<bcLister, svcLister, stsLister, podLister, synced, running, unread>>

ResyncDependents ==
    /\ Notify("object", Controlled(svcLister) \cup Controlled(stsLister))
    /\ UNCHANGED <<bcLister, svcLister, stsLister, podLister, synced, running, unread>>
-----------------------------------------------------------------------------
\* The handlers.

\* One of the events on the way is delivered; it need not be the last of its kind.
Delivered(kind, n) == /\ <<kind, n>> \in events
                      /\ events' \in {events, events \ {<<kind, n>>}}
                      /\ UNCHANGED <<bcLister, svcLister, stsLister, podLister, synced, running, unread>>

\* AddBitcoinNetwork and UpdateBitcoinNetwork.
HandleNetwork(n) == /\ Delivered("bc", n)
                    /\ Add(n)

\* UpdateObject: handleObject looks for the owner by the name in the reference
\* (the uid is not compared) and ignores the object if there is none.
HandleObject(n) ==
    /\ Delivered("object", n)
    /\ IF bcLister[n] = Absent THEN UNCHANGED queueVars ELSE Add(n)
-----------------------------------------------------------------------------
\* The caches hold what the API server may hold, and every event is one of a network.
InformersTypeOK ==
    /\ bcLister \in [Networks -> BitcoinNetwork \cup {Absent}]
    /\ svcLister \in [Networks -> Service \cup {Absent}]
    /\ stsLister \in [Networks -> StatefulSet \cup {Absent}]
    /\ podLister \in [Networks -> NodeList]
    /\ synced \subseteq Kinds
    /\ events \subseteq EventKinds \X Networks
    /\ running \in BOOLEAN
    /\ unread \subseteq Networks
=============================================================================
