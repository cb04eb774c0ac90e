--------------------------- MODULE SharedInformers ---------------------------
(***************************************************************************)
(* What the parts of the process share: the informers, which NewController *)
(* asks the two factories for again and again and main.go starts later,    *)
(* and the objects in their caches, to which the listers hand out          *)
(* pointers.  From main to the end of the process by a signal.             *)
(*                                                                         *)
(* Both factories are modelled by the one in internal/generated, of which  *)
(* the one in client-go is a copy for other types.  The informers          *)
(* themselves are client-go.  One bitcoin network stands for all: the      *)
(* queue sees to it that no two workers have the same one.                 *)
(***************************************************************************)
EXTENDS Naturals, Sequences, FiniteSets

CONSTANTS Workers,      \* the worker goroutines
          Statuses,     \* what the status of the network may be
          MaxVersion    \* bound on the resource versions of the network

ASSUME SharedAssumption == /\ IsFiniteSet(Workers)
                           /\ Statuses # {}
                           /\ MaxVersion \in Nat

\* reflect.Type, and the factory that is responsible for it.
Types == {"bc", "sts", "svc", "pod"}
FactoryOf(t) == IF t = "bc" THEN "bitcoin" ELSE "kubernetes"

VARIABLES informers,        \* informers[t]: f.informers, a pointer, 0 if there is none
          startedInformers, \* f.startedInformers
          informer,         \* the informers there are; a pointer is an index
          main,             \* the next step of main
          requests,         \* how far NewController has got
          refers,           \* which informers the controller refers to
          stopped,          \* the stop channel is closed
          stored,           \* the network in the API server
          published,        \* history: all that it has ever been
          heap,             \* heap[o] is the object at o
          pc,               \* what the workers do
          bcNetwork,        \* the network a worker has got from the lister, a pointer
          bcNetworkCopy     \* its copy

processVars == <<informers, startedInformers, informer, main, requests, refers, stopped>>
objectVars == <<stored, published, heap, bcNetwork, bcNetworkCopy>>
vars == <<processVars, objectVars, pc>>

Nil == 0
Network == [version : 1 .. MaxVersion, status : Statuses]

\* The calls of Informer() and Lister() in NewController, in their order.
Requests ==
    LET For(use, types) == [i \in 1 .. Len(types) |-> [use |-> use, type |-> types[i]]]
    IN  For("synced", <<"bc", "sts", "svc", "pod">>)
            \o For("lister", <<"bc", "sts", "svc", "pod">>)
            \o For("handler", <<"bc", "sts", "svc">>)

\* Addresses: the cache, each worker and its copy may refer to one, another is free.
Objects == 1 .. 2 * Cardinality(Workers) + 2
Cached == {informer[i].object : i \in DOMAIN informer}
Referenced == Cached \cup {bcNetwork[w] : w \in Workers} \cup {bcNetworkCopy[w] : w \in Workers}
New == CHOOSE o \in Objects : o \notin Referenced

Init == /\ informers = [t \in Types |-> Nil]
        /\ startedInformers = {}
        /\ informer = <<>>
        /\ main = "NewController"
        /\ requests = 0
        /\ refers = [use \in {"synced", "lister", "handler"} |-> [t \in Types |-> Nil]]
        /\ stopped = FALSE
        /\ stored \in [version : {1}, status : Statuses]
        /\ published = {stored}
        /\ heap = [o \in Objects |-> stored]
        /\ pc = [w \in Workers |-> "none"]
        /\ bcNetwork = [w \in Workers |-> Nil]
        /\ bcNetworkCopy = [w \in Workers |-> Nil]
-----------------------------------------------------------------------------
\* The factory.

NewInformer(t) == [type |-> t, runs |-> FALSE, synced |-> FALSE, object |-> Nil]

\* Bug: nobody looks whether there is an informer for the type.
InformerForEach(t) ==
    /\ informer' = Append(informer, NewInformer(t))
    /\ informers' = [informers EXCEPT ![t] = Len(informer')]

\* One informer for every type, however often it is asked for.
InformerFor(t) ==
    IF informers[t] # Nil THEN UNCHANGED <<informer, informers>>
    ELSE /\ informer' = Append(informer, NewInformer(t))
         /\ informers' = [informers EXCEPT ![t] = Len(informer')]

\* Start runs the informers that have been asked for, and have not been started.
Start(factory) ==
    LET types == {t \in Types \ startedInformers : FactoryOf(t) = factory /\ informers[t] # Nil}
        started == {informers[t] : t \in types}
    IN  /\ startedInformers' = startedInformers \cup types
        /\ informer' = [i \in DOMAIN informer |-> [informer[i] EXCEPT !.runs = @ \/ i \in started]]
-----------------------------------------------------------------------------
\* main.

\* NewController keeps the HasSynced, the lister or the handler of the informer it gets.
NewController ==
    /\ main = "NewController"
    /\ LET request == Requests[requests + 1]
       IN  /\ InformerFor(request.type)
           /\ refers' = [refers EXCEPT ![request.use][request.type] = informers'[request.type]]
    /\ requests' = requests + 1
    /\ main' = IF requests' = Len(Requests) THEN "start bitcoin" ELSE main
    /\ UNCHANGED <<startedInformers, stopped, objectVars, pc>>

StartFactories ==
    /\ \/ main = "start bitcoin" /\ Start("bitcoin") /\ main' = "start kubernetes"
       \/ main = "start kubernetes" /\ Start("kubernetes") /\ main' = "WaitForCacheSync"
    /\ UNCHANGED <<informers, requests, refers, stopped, objectVars, pc>>

\* Bug: the pods are forgotten, to which no handler belongs.
HandledSynced == \A t \in Types \ {"pod"} : informer[refers["synced"][t]].synced

\* The four HasSynced that Run waits for.
HasSynced == \A t \in Types : informer[refers["synced"][t]].synced

\* Run starts the workers.
StartWorkers ==
    /\ main = "WaitForCacheSync"
    /\ HasSynced
    /\ pc' = [w \in Workers |-> "started"]
    /\ main' = "wait"
    /\ UNCHANGED <<informers, startedInformers, informer, requests, refers, stopped, objectVars>>

\* Bug: only the workers wait for the stop channel.
StopIsSeenByWorkers == main = "wait" /\ stopped

\* Run waits for the stop channel, as WaitForCacheSync does, and returns.
StopIsSeen == main \in {"WaitForCacheSync", "wait"} /\ stopped

\* With main all other goroutines end.
MainEnds ==
    /\ StopIsSeen
    /\ main' = "ended"
    /\ UNCHANGED <<informers, startedInformers, informer, requests, refers, stopped, objectVars, pc>>

Signal == /\ ~stopped
          /\ stopped' = TRUE
          /\ UNCHANGED <<informers, startedInformers, informer, main, requests, refers, objectVars, pc>>
-----------------------------------------------------------------------------
\* An informer has listed the objects of its type, or one has changed: the cache gets a
\* pointer to a new object, those that have been handed out go on to exist.
Feed(i) ==
    /\ i \in DOMAIN informer
    /\ main # "ended"
    /\ informer[i].runs
    /\ ~stopped
    /\ IF informer[i].type = "bc"
       THEN /\ informer[i].synced => heap[informer[i].object] # stored
            /\ informer' = [informer EXCEPT ![i].synced = TRUE, ![i].object = New]
            /\ heap' = [heap EXCEPT ![New] = stored]
       ELSE /\ ~informer[i].synced
            /\ informer' = [informer EXCEPT ![i].synced = TRUE]
            /\ UNCHANGED heap
    /\ UNCHANGED <<informers, startedInformers, main, requests, refers, stopped>>
    /\ UNCHANGED <<stored, published, pc, bcNetwork, bcNetworkCopy>>

\* The API server takes an update, of the spec by a user, or of the status.
Store(status) ==
    /\ stored.version < MaxVersion
    /\ stored' = [version |-> stored.version + 1, status |-> status]
    /\ published' = published \cup {stored'}

UserUpdates == /\ Store(stored.status)
               /\ UNCHANGED <<processVars, heap, pc, bcNetwork, bcNetworkCopy>>
-----------------------------------------------------------------------------
\* The workers.

\* wait.Until: the loop is not begun if the stop channel is closed.
WorkerStarts(w) == /\ pc[w] = "started"
                   /\ main # "ended"
                   /\ ~stopped
                   /\ pc' = [pc EXCEPT ![w] = "idle"]
                   /\ UNCHANGED <<processVars, objectVars>>

\* doRecon gets the network from the lister: the pointer that is in the cache.
Get(w) ==
    LET cache == informer[refers["lister"]["bc"]]
    IN  /\ pc[w] = "idle"
        /\ main # "ended"
        /\ \A v \in Workers : bcNetwork[v] = Nil
        /\ cache.object # Nil
        /\ bcNetwork' = [bcNetwork EXCEPT ![w] = cache.object]
        /\ pc' = [pc EXCEPT ![w] = "read"]
        /\ UNCHANGED <<processVars, stored, published, heap, bcNetworkCopy>>

\* Bug: what DeepCopy returns is the object itself.
Alias(o) == o

\* DeepCopy: the address of a new object, with the same content.
DeepCopy(o) == New

\* updateNetworkStatus sets the status in a copy.
SetStatus(w) ==
    /\ pc[w] = "read"
    /\ main # "ended"
    /\ LET copy == DeepCopy(bcNetwork[w])
       IN  /\ bcNetworkCopy' = [bcNetworkCopy EXCEPT ![w] = copy]
           /\ \E nodeList \in Statuses :
                heap' = [heap EXCEPT ![copy] = [heap[bcNetwork[w]] EXCEPT !.status = nodeList]]
    /\ pc' = [pc EXCEPT ![w] = "update"]
    /\ UNCHANGED <<processVars, stored, published, bcNetwork>>

\* UpdateStatus sends the copy, and is refused if it is of another version.  doRecon
\* comes to its end.
UpdateStatus(w) ==
    LET sent == heap[bcNetworkCopy[w]]
    IN  /\ pc[w] = "update"
        /\ main # "ended"
        /\ \/ sent.version = stored.version /\ Store(sent.status)
           \/ sent.version # stored.version /\ UNCHANGED <<stored, published>>
        /\ bcNetwork' = [bcNetwork EXCEPT ![w] = Nil]
        /\ bcNetworkCopy' = [bcNetworkCopy EXCEPT ![w] = Nil]
        /\ pc' = [pc EXCEPT ![w] = "idle"]
        /\ UNCHANGED <<processVars, heap>>

Main == NewController \/ StartFactories \/ StartWorkers \/ MainEnds
Next == \/ Main
        \/ Signal
        \/ UserUpdates
        \/ \E i \in 1 .. Len(Requests) : Feed(i)
        \/ \E w \in Workers : WorkerStarts(w) \/ Get(w) \/ SetStatus(w) \/ UpdateStatus(w)

\* Goroutines run, and the API server answers the lists.
Fairness == /\ WF_vars(Main)
            /\ \A i \in 1 .. Len(Requests) : WF_vars(Feed(i))
            /\ \A w \in Workers : WF_vars(WorkerStarts(w))

Spec == Init /\ [][Next]_vars
FairSpec == Spec /\ Fairness
-----------------------------------------------------------------------------
\* No worker is at work while one of the caches it reads is empty for want of a list, or
\* while a handler is registered with an informer that nobody runs (InformerFor, Start,
\* and Run, which have to mean the same informers).
WorkersReadFedCaches ==
    (\E w \in Workers : pc[w] # "none") =>
        \A use \in DOMAIN refers, t \in Types :
            refers[use][t] # Nil => LET i == informer[refers[use][t]] IN i.runs /\ i.synced

\* What is in the cache, and what a worker has got from there and compares its node list
\* with, is the network as it once was in the API server, never as a worker would like it
\* to be (updateNetworkStatus, DeepCopy).
SeenWasPublished ==
    \A o \in (Cached \cup {bcNetwork[w] : w \in Workers}) \ {Nil} : heap[o] \in published

\* Unless it is told to stop, the process gets to where all its workers are at work: the
\* informers Run waits for are among those main has started.
StartupCompletes == <>(stopped \/ \A w \in Workers : pc[w] \notin {"none", "started"})

\* A signal ends the process, whatever it is waiting for (createSignalHandler, Run).
SignalEnds == stopped ~> main = "ended"
=============================================================================
