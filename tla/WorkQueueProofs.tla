--------------------------- MODULE WorkQueueProofs ---------------------------
(***************************************************************************)
(* What TLC checks of the work queue on four networks and three workers,   *)
(* proved for any set of networks, any set of workers and any number of    *)
(* requests: the four invariants, and that the queue and the worker loops  *)
(* implement the abstract scheduler.                                       *)
(***************************************************************************)
EXTENDS WorkQueue, SequenceTheorems, TLAPS

\* Appending a key adds it to the keys that wait, and keeps each of them in the
\* queue once if it was not in the queue before (Add and Done).
LEMMA AppendWaiting ==
    ASSUME NEW S, NEW q \in Seq(S), NEW x \in S
    PROVE  /\ Append(q, x) \in Seq(S)
           /\ Waiting(Append(q, x)) = Waiting(q) \cup {x}
           /\ EachOnce(q) /\ x \notin Waiting(q) => EachOnce(Append(q, x))
<1> DEFINE r == Append(q, x)
<1>1. /\ r \in Seq(S)
      /\ Len(r) = Len(q) + 1
      /\ \A i \in 1 .. Len(q) : r[i] = q[i]
      /\ r[Len(q) + 1] = x
  BY AppendProperties
<1>2. /\ Len(q) \in Nat
      /\ DOMAIN q = 1 .. Len(q)
      /\ DOMAIN r = 1 .. Len(q) + 1
  BY <1>1, LenProperties
<1> HIDE DEF r
<1>3. Waiting(r) = Waiting(q) \cup {x}
  BY <1>1, <1>2 DEF Waiting
<1>4. ASSUME EachOnce(q), x \notin Waiting(q)
      PROVE  EachOnce(r)
  <2>1. ASSUME NEW i \in 1 .. Len(q) PROVE r[i] = q[i] /\ r[i] # x
    BY <1>1, <1>2, <1>4 DEF Waiting
  <2>2. ASSUME NEW i \in DOMAIN r, NEW j \in DOMAIN r, r[i] = r[j]
        PROVE  i = j
    <3>1. CASE i \in 1 .. Len(q) /\ j \in 1 .. Len(q)
      BY <1>2, <1>4, <2>1, <2>2, <3>1 DEF EachOnce
    <3>2. CASE i = Len(q) + 1 \/ j = Len(q) + 1
      BY <1>1, <1>2, <2>1, <2>2, <3>2
    <3> QED
      BY <1>2, <3>1, <3>2
  <2> QED
    BY <2>2 DEF EachOnce
<1> QED
  BY <1>1, <1>3, <1>4 DEF r

\* Taking the first key of a queue removes it from the keys that wait, and no other,
\* if each key is in the queue once (Get).
LEMMA TailWaiting ==
    ASSUME NEW S, NEW q \in Seq(S), q # <<>>, EachOnce(q)
    PROVE  /\ Head(q) \in S
           /\ Tail(q) \in Seq(S)
           /\ Head(q) \in Waiting(q)
           /\ Waiting(Tail(q)) = Waiting(q) \ {Head(q)}
           /\ EachOnce(Tail(q))
<1> DEFINE t == Tail(q)
<1>1. /\ Head(q) \in S
      /\ t \in Seq(S)
      /\ Len(t) = Len(q) - 1
      /\ \A i \in 1 .. Len(t) : t[i] = q[i + 1]
  BY HeadTailProperties
<1>2. /\ Len(q) \in Nat
      /\ Len(q) # 0
      /\ DOMAIN q = 1 .. Len(q)
      /\ DOMAIN t = 1 .. Len(q) - 1
  BY <1>1, LenProperties, EmptySeq
<1>3. Head(q) = q[1]
  OBVIOUS
<1> HIDE DEF t
<1>4. Head(q) \in Waiting(q)
  BY <1>2, <1>3 DEF Waiting
<1>5. Waiting(t) = Waiting(q) \ {Head(q)}
  <2>1. ASSUME NEW k \in Waiting(t)
        PROVE  k \in Waiting(q) \ {Head(q)}
    <3>1. PICK i \in 1 .. Len(q) - 1 : k = t[i]
      BY <1>2, <2>1 DEF Waiting
    <3>2. k = q[i + 1] /\ i + 1 \in DOMAIN q /\ 1 \in DOMAIN q
      BY <1>1, <1>2, <3>1
    <3>3. q[i + 1] # q[1]
      BY <1>2, <3>1, <3>2 DEF EachOnce
    <3> QED
      BY <1>3, <3>2, <3>3 DEF Waiting
  <2>2. ASSUME NEW k \in Waiting(q) \ {Head(q)}
        PROVE  k \in Waiting(t)
    <3>1. PICK i \in 1 .. Len(q) : k = q[i] /\ i # 1
      BY <1>2, <1>3, <2>2 DEF Waiting
    <3>2. i - 1 \in 1 .. Len(q) - 1 /\ t[i - 1] = k
      BY <1>1, <1>2, <3>1
    <3> QED
      BY <1>2, <3>2 DEF Waiting
  <2> QED
    BY <2>1, <2>2
<1>6. EachOnce(t)
  <2>1. ASSUME NEW i \in DOMAIN t, NEW j \in DOMAIN t, t[i] = t[j]
        PROVE  i = j
    <3>1. i \in Int /\ j \in Int /\ i + 1 \in DOMAIN q /\ j + 1 \in DOMAIN q
      BY <1>2
    <3>2. t[i] = q[i + 1] /\ t[j] = q[j + 1]
      BY <1>1, <1>2
    <3>3. i + 1 = j + 1
      BY <2>1, <3>1, <3>2 DEF EachOnce
    <3> QED
      BY <3>1, <3>3
  <2> QED
    BY <2>1 DEF EachOnce
<1> QED
  BY <1>1, <1>4, <1>5, <1>6 DEF t
-----------------------------------------------------------------------------
\* The invariants are inductive together: that the keys under way are the keys held
\* is what makes the hold exclusive, and a key that waits is not under way.
QueueInv == /\ QueueTypeOK
            /\ ExclusiveRecon
            /\ NoKeyStranded
            /\ NoRequestLost

\* The queue starts empty, with no key under way.
LEMMA InitInv == InitQueue => QueueInv
<1> SUFFICES ASSUME InitQueue
             PROVE  QueueInv
  OBVIOUS
<1>1. QueueTypeOK
  BY DEF InitQueue, QueueTypeOK
<1>2. ExclusiveRecon /\ NoKeyStranded
  BY DEF InitQueue, ExclusiveRecon, NoKeyStranded
<1>3. NoRequestLost
  BY DEF InitQueue, NoRequestLost, Waiting, EachOnce
<1> QED
  BY <1>1, <1>2, <1>3 DEF QueueInv

\* A request keeps the invariants (enqueue).
LEMMA AddInv == ASSUME QueueInv, NEW n \in Networks, Add(n)
                PROVE  QueueInv'
<1> USE DEF QueueInv
<1>1. ExclusiveRecon' /\ NoKeyStranded'
  BY DEF Add, ExclusiveRecon, NoKeyStranded
<1>2. CASE n \in dirty \cup processing
  <2>1. queue' = queue /\ dirty' \ processing' = dirty \ processing
    BY <1>2 DEF Add
  <2>2. QueueTypeOK'
    BY <2>1 DEF Add, QueueTypeOK
  <2>3. NoRequestLost'
    BY <2>1 DEF NoRequestLost, Waiting, EachOnce
  <2> QED
    BY <1>1, <2>2, <2>3
<1>3. CASE n \notin dirty \cup processing
  <2>1. /\ queue' = Append(queue, n)
        /\ dirty' \ processing' = (dirty \ processing) \cup {n}
    BY <1>3 DEF Add
  <2>2. n \notin Waiting(queue)
    BY <1>3 DEF NoRequestLost
  <2>3. /\ queue' \in Seq(Networks)
        /\ Waiting(queue') = Waiting(queue) \cup {n}
        /\ EachOnce(queue')
    BY <2>1, <2>2, AppendWaiting DEF QueueTypeOK, NoRequestLost
  <2>4. QueueTypeOK'
    BY <2>3 DEF Add, QueueTypeOK
  <2>5. NoRequestLost'
    BY <2>1, <2>3 DEF NoRequestLost, Waiting, EachOnce
  <2> QED
    BY <1>1, <2>4, <2>5
<1> QED
  BY <1>2, <1>3

\* The key that Get hands out is not under way, and is under way afterwards.
LEMMA GetInv == ASSUME QueueInv, NEW w \in Workers, Get(w)
                PROVE  QueueInv'
<1> USE DEF QueueInv
<1> DEFINE k == Head(queue)
<1>1. /\ k \in Networks
      /\ Tail(queue) \in Seq(Networks)
      /\ k \in Waiting(queue)
      /\ Waiting(Tail(queue)) = Waiting(queue) \ {k}
      /\ EachOnce(Tail(queue))
  BY TailWaiting DEF Get, QueueTypeOK, NoRequestLost
<1>2. /\ k \notin processing
      /\ k # NoKey
      /\ \A v \in Workers : held[v] # k
  BY <1>1, NoKeyAssumption DEF NoRequestLost, NoKeyStranded
<1>3. /\ held[w] = NoKey
      /\ held' = [held EXCEPT ![w] = k]
      /\ queue' = Tail(queue)
      /\ dirty' = dirty \ {k}
      /\ processing' = processing \cup {k}
  BY DEF Get
<1>4. held \in [Workers -> Networks \cup {NoKey}]
  BY DEF QueueTypeOK
<1> HIDE DEF k
<1>5. QueueTypeOK'
  BY <1>1, <1>3 DEF QueueTypeOK
<1>6. ExclusiveRecon'
  BY <1>2, <1>3, <1>4 DEF ExclusiveRecon
<1>7. NoKeyStranded'
  BY <1>2, <1>3, <1>4 DEF NoKeyStranded
<1>8. NoRequestLost'
  BY <1>1, <1>3 DEF NoRequestLost, Waiting, EachOnce
<1> QED
  BY <1>5, <1>6, <1>7, <1>8

\* The key that Done takes back waits again exactly if it was requested meanwhile.
LEMMA DoneInv == ASSUME QueueInv, NEW w \in Workers, Done(w)
                 PROVE  QueueInv'
<1> USE DEF QueueInv
<1> DEFINE k == held[w]
<1>1. /\ held \in [Workers -> Networks \cup {NoKey}]
      /\ k \in Networks
      /\ k # NoKey
      /\ k \in processing
  BY DEF Done, QueueTypeOK, NoKeyStranded
<1>2. /\ held' = [held EXCEPT ![w] = NoKey]
      /\ processing' = processing \ {k}
      /\ dirty' = dirty
      /\ queue' = IF k \in dirty THEN Append(queue, k) ELSE queue
  BY DEF Done
<1>3. k \notin Waiting(queue)
  BY <1>1 DEF NoRequestLost
<1>4. \A v \in Workers : v # w => held[v] # k
  BY <1>1 DEF ExclusiveRecon
<1> HIDE DEF k
<1>5. ExclusiveRecon'
  BY <1>1, <1>2 DEF ExclusiveRecon
<1>6. NoKeyStranded'
  BY <1>1, <1>2, <1>4 DEF NoKeyStranded, k
<1>7. /\ queue' \in Seq(Networks)
      /\ EachOnce(queue')
      /\ Waiting(queue') = dirty' \ processing'
  <2>1. CASE k \in dirty
    BY <1>1, <1>2, <1>3, <2>1, AppendWaiting DEF QueueTypeOK, NoRequestLost
  <2>2. CASE k \notin dirty
    BY <1>2, <2>2 DEF QueueTypeOK, NoRequestLost
  <2> QED
    BY <2>1, <2>2
<1>8. QueueTypeOK'
  BY <1>2, <1>7 DEF QueueTypeOK
<1>9. NoRequestLost'
  BY <1>7 DEF NoRequestLost, Waiting, EachOnce
<1> QED
  BY <1>5, <1>6, <1>8, <1>9

\* Every step of the queue and of the workers keeps the invariants.
LEMMA NextInv == QueueInv /\ [NextQueue]_queueVars => QueueInv'
<1> SUFFICES ASSUME QueueInv, [NextQueue]_queueVars
             PROVE  QueueInv'
  OBVIOUS
<1>1. CASE \E n \in Networks : Add(n)
  BY <1>1, AddInv
<1>2. ASSUME NEW w \in Workers, Get(w) \/ Done(w)
      PROVE  QueueInv'
  BY <1>2, GetInv, DoneInv
<1>3. CASE LoseQueue
  <2>1. InitQueue'
    BY <1>3 DEF LoseQueue, InitQueue
  <2> QED
    BY <2>1, InitInv, PTL
<1>4. CASE UNCHANGED queueVars
  BY <1>4 DEF queueVars, QueueInv, QueueTypeOK, ExclusiveRecon, NoKeyStranded,
              NoRequestLost, Waiting, EachOnce
<1> QED
  BY <1>1, <1>2, <1>3, <1>4 DEF NextQueue
-----------------------------------------------------------------------------
\* The four invariants hold in every reachable state.
THEOREM QueueCorrect == QueueSpec => []QueueInv
<1>1. InitQueue => QueueInv
  BY InitInv
<1>2. QueueInv /\ [NextQueue]_queueVars => QueueInv'
  BY NextInv
<1> QED
  BY <1>1, <1>2, PTL DEF QueueSpec

\* The queue and the workers hold keys of networks only.
THEOREM QueueTypeCorrect == QueueSpec => []QueueTypeOK
BY QueueCorrect, PTL DEF QueueInv

\* No two workers reconcile the same network at the same time (workerMainLoop).
THEOREM ReconIsExclusive == QueueSpec => []ExclusiveRecon
BY QueueCorrect, PTL DEF QueueInv

\* No key stays under way without a worker that will call Done (workerMainLoop).
THEOREM KeysAreNotStranded == QueueSpec => []NoKeyStranded
BY QueueCorrect, PTL DEF QueueInv

\* The keys in the queue are exactly the requested ones that no worker is on.
THEOREM RequestsAreNotLost == QueueSpec => []NoRequestLost
BY QueueCorrect, PTL DEF QueueInv
-----------------------------------------------------------------------------
\* A request is a request to the scheduler.
LEMMA AddImplements == \A n \in Networks : Add(n) => Scheduler!Request(n)
BY DEF Add, Scheduler!Request

\* Get hands out an open request, for a network that no worker is on.
LEMMA GetImplements ==
    ASSUME QueueInv, NEW w \in Workers, Get(w)
    PROVE  \E n \in Networks : Scheduler!Start(w, n)
<1> DEFINE k == Head(queue)
<1>1. /\ k \in Networks
      /\ k \in Waiting(queue)
  BY TailWaiting DEF QueueInv, Get, QueueTypeOK, NoRequestLost
<1>2. /\ k \in dirty
      /\ \A v \in Workers : held[v] # k
  BY <1>1, NoKeyAssumption DEF QueueInv, NoRequestLost, NoKeyStranded
<1>3. Scheduler!Start(w, k)
  BY <1>2 DEF Get, Scheduler!Start
<1> QED
  BY <1>1, <1>3

\* The queue with its workers implements the abstract scheduler: the open requests are
\* the dirty keys, the work under way is what the workers hold (enqueue,
\* workerMainLoop).
THEOREM QueueImplementsScheduler == QueueSpec => ImplementsScheduler
<1>1. InitQueue => Scheduler!Init
  BY DEF InitQueue, Scheduler!Init
<1>2. QueueInv /\ [NextQueue]_queueVars => [Scheduler!Next]_(Scheduler!schedulerVars)
  <2> SUFFICES ASSUME QueueInv, [NextQueue]_queueVars
               PROVE  [Scheduler!Next]_(Scheduler!schedulerVars)
    OBVIOUS
  <2>1. CASE \E n \in Networks : Add(n)
    BY <2>1, AddImplements DEF Scheduler!Next
  <2>2. ASSUME NEW w \in Workers, Get(w)
        PROVE  Scheduler!Next
    BY <2>2, GetImplements DEF Scheduler!Next
  <2>3. ASSUME NEW w \in Workers, Done(w)
        PROVE  Scheduler!Next
    <3>1. Scheduler!Finish(w)
      BY <2>3 DEF Done, Scheduler!Finish
    <3> QED
      BY <3>1 DEF Scheduler!Next
  <2>4. CASE LoseQueue
    BY <2>4 DEF LoseQueue, Scheduler!Next, Scheduler!Forget
  <2>5. CASE UNCHANGED queueVars
    BY <2>5 DEF queueVars, Scheduler!schedulerVars
  <2> QED
    BY <2>1, <2>2, <2>3, <2>4, <2>5 DEF NextQueue
<1> QED
  BY <1>1, <1>2, QueueCorrect, PTL DEF QueueSpec, ImplementsScheduler, Scheduler!Spec
=============================================================================
