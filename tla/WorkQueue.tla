------------------------------ MODULE WorkQueue ------------------------------
(***************************************************************************)
(* The work queue of the controller and the loop of its workers            *)
(* (internal/controller/controller.go, enqueue and workerMainLoop).  The   *)
(* queue itself is client-go's workqueue.Interface; it is modelled by what *)
(* its Add, Get and Done do to the three collections it keeps:             *)
(*   queue       the order in which keys are handed out,                   *)
(*   dirty       the keys that need to be processed,                       *)
(*   processing  the keys handed out by Get and not yet given to Done.     *)
(* A key that is added while it is being processed is only marked dirty;   *)
(* Done puts it back into the queue.                                       *)
(***************************************************************************)
EXTENDS Keys, Naturals, Sequences

CONSTANTS Workers,      \* the worker goroutines started by Run
          NoKey         \* "the worker is not between Get and Done"

ASSUME NoKeyAssumption == NoKey \notin Networks

VARIABLES queue, dirty, processing,
          held          \* held[w] is the key that worker w got from the queue

queueVars == <<queue, dirty, processing, held>>

InitQueue == /\ queue = <<>>
             /\ dirty = {}
             /\ processing = {}
             /\ held = [w \in Workers |-> NoKey]

\* Bugs: the object is queued instead of its key; a key is ignored, not marked,
\* while it is being processed.
AddObject(n) == /\ dirty' = dirty \cup {n}
                /\ queue' = IF n \in dirty \cup processing THEN queue
                                                           ELSE Append(queue, <<n>>)
                /\ UNCHANGED <<processing, held>>
AddUnlessProcessing(n) == /\ dirty' = IF n \in processing THEN dirty ELSE dirty \cup {n}
                          /\ queue' = IF n \in dirty \cup processing THEN queue
                                                                     ELSE Append(queue, n)
                          /\ UNCHANGED <<processing, held>>

\* enqueue, and the Add of the queue that it calls.
Add(n) == /\ dirty' = dirty \cup {n}
          /\ queue' = IF n \in dirty \cup processing THEN queue
                                                     ELSE Append(queue, n)
          /\ UNCHANGED <<processing, held>>

\* Bugs: the key is not marked as being processed; it stays dirty; the queue is a
\* stack.
GetUnmarked(w) == /\ held[w] = NoKey
                  /\ queue # <<>>
                  /\ held' = [held EXCEPT ![w] = Head(queue)]
                  /\ queue' = Tail(queue)
                  /\ dirty' = dirty \ {Head(queue)}
                  /\ UNCHANGED processing
GetStillDirty(w) == /\ held[w] = NoKey
                    /\ queue # <<>>
                    /\ held' = [held EXCEPT ![w] = Head(queue)]
                    /\ queue' = Tail(queue)
                    /\ processing' = processing \cup {Head(queue)}
                    /\ UNCHANGED dirty
GetLast(w) == /\ held[w] = NoKey
              /\ queue # <<>>
              /\ LET last == queue[Len(queue)]
                 IN  /\ held' = [held EXCEPT ![w] = last]
                     /\ dirty' = dirty \ {last}
                     /\ processing' = processing \cup {last}
              /\ queue' = SubSeq(queue, 1, Len(queue) - 1)

\* workerMainLoop takes the next key; Get blocks while the queue is empty.
Get(w) == /\ held[w] = NoKey
          /\ queue # <<>>
          /\ held' = [held EXCEPT ![w] = Head(queue)]
          /\ queue' = Tail(queue)
          /\ dirty' = dirty \ {Head(queue)}
          /\ processing' = processing \cup {Head(queue)}

\* Bugs: the loop goes on without a call of Done; what came in meanwhile is forgotten.
DoneSkipped(w) == /\ held[w] # NoKey
                  /\ held' = [held EXCEPT ![w] = NoKey]
                  /\ UNCHANGED <<queue, dirty, processing>>
DoneForgetful(w) == /\ held[w] # NoKey
                    /\ held' = [held EXCEPT ![w] = NoKey]
                    /\ processing' = processing \ {held[w]}
                    /\ UNCHANGED <<queue, dirty>>

\* workerMainLoop hands the key back.  doRecon returns false only for a key
\* that cannot be split, which enqueue never produces, so Done always follows.
Done(w) == /\ held[w] # NoKey
           /\ held' = [held EXCEPT ![w] = NoKey]
           /\ processing' = processing \ {held[w]}
           /\ queue' = IF held[w] \in dirty THEN Append(queue, held[w]) ELSE queue
           /\ UNCHANGED dirty

\* The process ends: the queue is in memory only, the workers are gone.
LoseQueue == /\ queue' = <<>>
             /\ dirty' = {}
             /\ processing' = {}
             /\ held' = [w \in Workers |-> NoKey]

NextQueue == \/ \E n \in Networks : Add(n)
             \/ \E w \in Workers : Get(w) \/ Done(w)
             \/ LoseQueue

QueueSpec == InitQueue /\ [][NextQueue]_queueVars

-----------------------------------------------------------------------------
\* The queue holds keys of networks, the workers hold at most one each.
QueueTypeOK == /\ queue \in Seq(Networks)
               /\ dirty \subseteq Networks
               /\ processing \subseteq Networks
               /\ held \in [Workers -> Networks \cup {NoKey}]

\* No two workers are ever inside doRecon for the same network: everything that
\* doRecon reads and then writes relies on being the only one at work on it.
ExclusiveRecon ==
    \A v, w \in Workers : held[v] = held[w] /\ held[v] # NoKey => v = w

\* No key is stranded: what the queue believes to be under way is in the hands
\* of a worker that will call Done, otherwise the network would never be
\* reconciled again, since Get does not hand out a key in processing.
NoKeyStranded == processing = {held[w] : w \in Workers} \ {NoKey}

Waiting(q) == {q[i] : i \in DOMAIN q}
EachOnce(q) == \A i, j \in DOMAIN q : q[i] = q[j] => i = j

\* No request is dropped and none is doubled: the keys waiting in the queue are
\* exactly the dirty keys no worker is on, each of them once.
NoRequestLost == /\ Waiting(queue) = dirty \ processing
                 /\ EachOnce(queue)

\* The queue and the workers do no more and no less than the abstract scheduler:
\* the open requests are the dirty keys, the work under way is what is held.
Scheduler == INSTANCE ReconScheduler WITH pending <- dirty, active <- held
ImplementsScheduler == Scheduler!Spec
=============================================================================
