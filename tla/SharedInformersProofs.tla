------------------------ MODULE SharedInformersProofs ------------------------
(***************************************************************************)
(* What TLC checks of the shared informers with two workers, proved for    *)
(* any finite number of workers, any statuses and any number of versions:  *)
(* that the workers read caches which are fed, and that what they see in   *)
(* them has been published.                                                *)
(***************************************************************************)
EXTENDS SharedInformers, SequenceTheorems, FiniteSetTheorems, TLAPS

Informer == [type : Types, runs : BOOLEAN, synced : BOOLEAN, object : Objects \cup {Nil}]
Uses == {"synced", "lister", "handler"}

ProcessTypeOK ==
    /\ informers \in [Types -> Nat]
    /\ informer \in Seq(Informer)
    /\ requests \in 0 .. Len(Requests)
    /\ refers \in [Uses -> [Types -> Nat]]
    /\ pc \in [Workers -> {"none", "started", "idle", "read", "update"}]
    /\ bcNetwork \in [Workers -> Objects \cup {Nil}]
    /\ bcNetworkCopy \in [Workers -> Objects \cup {Nil}]
    /\ heap = [o \in Objects |-> heap[o]]

\* There is one informer for a type at most, the one f.informers has, and all that
\* NewController has been given belongs to it.
OneInformer ==
    /\ \A t \in Types : informers[t] # Nil => /\ informers[t] \in DOMAIN informer
                                              /\ informer[informers[t]].type = t
    /\ \A i \in DOMAIN informer : informers[informer[i].type] = i
    /\ \A use \in Uses, t \in Types : refers[use][t] \in {Nil, informers[t]}

\* NewController has asked for everything once it is through.
Requested ==
    /\ \A i \in 1 .. requests : refers[Requests[i].use][Requests[i].type] # Nil
    /\ main = "NewController" <=> requests # Len(Requests)

\* Only an informer that runs fills its cache, and only the networks matter.
Fed == \A i \in DOMAIN informer : /\ informer[i].synced => informer[i].runs
                                  /\ informer[i].object # Nil => informer[i].type = "bc"

\* The workers are started after NewController, and when all four caches are filled.
StartedLate == (\E w \in Workers : pc[w] # "none") =>
    /\ main # "NewController"
    /\ \A t \in Types : informers[t] # Nil /\ informer[informers[t]].synced

\* What the cache and the workers refer to is the network as it once was.
Seen == /\ stored \in published
        /\ \A i \in DOMAIN informer : informer[i].object # Nil => heap[informer[i].object] \in published
        /\ \A w \in Workers : bcNetwork[w] # Nil => heap[bcNetwork[w]] \in published

SharedInv == /\ ProcessTypeOK
             /\ OneInformer
             /\ Requested
             /\ Fed
             /\ StartedLate
             /\ Seen
-----------------------------------------------------------------------------
\* The calls of NewController, written out.
LEMMA RequestsAre ==
    /\ Len(Requests) = 11
    /\ \A i \in 1 .. 11 : Requests[i].use \in Uses /\ Requests[i].type \in Types
    /\ \A t \in Types : \E i \in 1 .. 11 : Requests[i] = [use |-> "synced", type |-> t]
    /\ \E i \in 1 .. 11 : Requests[i] = [use |-> "lister", type |-> "bc"]
<1> DEFINE R(use, type) == [use |-> use, type |-> type]
<1>1. Len(Requests) = 11
  BY DEF Requests
<1>2. /\ Requests[1] = R("synced", "bc") /\ Requests[2] = R("synced", "sts")
      /\ Requests[3] = R("synced", "svc") /\ Requests[4] = R("synced", "pod")
  BY DEF Requests
<1>3. /\ Requests[5] = R("lister", "bc") /\ Requests[6] = R("lister", "sts")
      /\ Requests[7] = R("lister", "svc") /\ Requests[8] = R("lister", "pod")
  BY DEF Requests
<1>4. /\ Requests[9] = R("handler", "bc") /\ Requests[10] = R("handler", "sts")
      /\ Requests[11] = R("handler", "svc")
  BY DEF Requests
<1>5. ASSUME NEW i \in 1 .. 11
      PROVE  Requests[i].use \in Uses /\ Requests[i].type \in Types
  BY <1>2, <1>3, <1>4 DEF Uses, Types
<1>6. ASSUME NEW t \in Types
      PROVE  \E i \in 1 .. 11 : Requests[i] = R("synced", t)
  BY <1>2 DEF Types
<1> QED
  BY <1>1, <1>3, <1>5, <1>6

\* A function has as many values as arguments at most.
LEMMA ImageIsSmall ==
    ASSUME NEW W, IsFiniteSet(W), NEW S, NEW f \in [W -> S]
    PROVE  /\ IsFiniteSet({f[w] : w \in W})
           /\ Cardinality({f[w] : w \in W}) <= Cardinality(W)
<1> DEFINE T == {f[w] : w \in W}
<1>1. f \in Surjection(W, T)
  BY DEF Surjection
<1> HIDE DEF T
<1>2. IsFiniteSet(T) /\ Cardinality(T) <= Cardinality(W)
  BY <1>1, FS_Surjection
<1> QED
  BY <1>2 DEF T

\* There is always an address that nothing refers to: at most one of the caches, each worker
\* and each copy refer to one (new, DeepCopy).
LEMMA NewIsFree ==
    ASSUME ProcessTypeOK, OneInformer, Fed
    PROVE  New \in Objects \ Referenced
<1> DEFINE n == Cardinality(Workers)
           A == {bcNetwork[w] : w \in Workers}
           B == {bcNetworkCopy[w] : w \in Workers}
           C == {informer[informers["bc"]].object}
<1>1. n \in Nat
  BY SharedAssumption, FS_CardinalityType
<1>2. /\ IsFiniteSet(A) /\ Cardinality(A) \in Nat /\ Cardinality(A) <= n
      /\ IsFiniteSet(B) /\ Cardinality(B) \in Nat /\ Cardinality(B) <= n
      /\ IsFiniteSet(C) /\ Cardinality(C) = 1
  <2>1. /\ IsFiniteSet(A) /\ Cardinality(A) <= n
        /\ IsFiniteSet(B) /\ Cardinality(B) <= n
    <3>1. /\ bcNetwork \in [Workers -> Objects \cup {Nil}]
          /\ bcNetworkCopy \in [Workers -> Objects \cup {Nil}]
      BY DEF ProcessTypeOK
    <3>2. IsFiniteSet(A) /\ Cardinality(A) <= n
      BY <3>1, SharedAssumption, ImageIsSmall
    <3>3. IsFiniteSet(B) /\ Cardinality(B) <= n
      BY <3>1, SharedAssumption, ImageIsSmall
    <3> QED
      BY <3>2, <3>3
  <2>2. IsFiniteSet(C) /\ Cardinality(C) = 1
    BY FS_Singleton
  <2> HIDE DEF A, B, C, n
  <2> QED
    BY <2>1, <2>2, FS_CardinalityType
<1>3. Referenced \subseteq A \cup B \cup C \cup {Nil}
  <2>1. ASSUME NEW i \in DOMAIN informer, informer[i].object # Nil
        PROVE  informer[i].object \in C
    BY <2>1 DEF Fed, OneInformer
  <2> QED
    BY <2>1 DEF Referenced, Cached
<1>4. IsFiniteSet(Objects) /\ Cardinality(Objects) = 2 * n + 2
  <2>1. 2 * n + 2 \in Nat
    BY <1>1
  <2> QED
    BY <2>1, FS_Interval DEF Objects
<1>5. \E o \in Objects : o \notin A \cup B \cup C
  <2> HIDE DEF A, B, C, n
  <2>1. IsFiniteSet(A \cup B) /\ Cardinality(A \cup B) \in Nat /\ Cardinality(A \cup B) <= 2 * n
    <3>1. /\ IsFiniteSet(A \cup B)
          /\ Cardinality(A \cup B) = Cardinality(A) + Cardinality(B) - Cardinality(A \cap B)
      BY <1>2, FS_Union
    <3>2. Cardinality(A \cap B) \in Nat /\ Cardinality(A \cup B) \in Nat
      BY <1>2, <3>1, FS_Intersection, FS_CardinalityType
    <3> QED
      BY <1>1, <1>2, <3>1, <3>2
  <2> DEFINE D == A \cup B
  <2>2. IsFiniteSet(D \cup C) /\ Cardinality(D \cup C) <= 2 * n + 1
    <3> HIDE DEF D
    <3>1. IsFiniteSet(D) /\ Cardinality(D) \in Nat /\ Cardinality(D) <= 2 * n
      BY <2>1 DEF D
    <3>2. /\ IsFiniteSet(D \cup C)
          /\ Cardinality(D \cup C) = Cardinality(D) + Cardinality(C) - Cardinality(D \cap C)
      BY <1>2, <3>1, FS_Union
    <3>3. Cardinality(D \cap C) \in Nat
      BY <3>1, FS_Intersection, FS_CardinalityType
    <3> QED
      BY <1>1, <1>2, <3>1, <3>2, <3>3
  <2>3. ASSUME Objects \subseteq D \cup C
        PROVE  FALSE
    <3>1. Cardinality(Objects) <= Cardinality(D \cup C)
      BY <2>2, <2>3, FS_Subset
    <3>2. Cardinality(D \cup C) \in Nat
      BY <2>2, FS_CardinalityType
    <3> QED
      BY <1>1, <1>4, <2>2, <3>1, <3>2
  <2> QED
    BY <2>3
<1>6. Nil \notin Objects
  BY DEF Nil, Objects
<1>7. \E o \in Objects : o \notin Referenced
  BY <1>3, <1>5, <1>6
<1> QED
  BY <1>7 DEF New
-----------------------------------------------------------------------------
\* The process starts with nothing.
LEMMA InitSharedInv == Init => SharedInv
<1> SUFFICES ASSUME Init
             PROVE  SharedInv
  OBVIOUS
<1> USE RequestsAre DEF Init, Nil
<1>1. ProcessTypeOK
  BY DEF ProcessTypeOK, Uses
<1>2. OneInformer /\ Requested /\ Fed /\ StartedLate /\ Seen
  BY DEF OneInformer, Requested, Fed, StartedLate, Seen, Uses
<1> QED
  BY <1>1, <1>2 DEF SharedInv

LEMMA InformersAre ==
    ASSUME ProcessTypeOK, NEW i \in DOMAIN informer
    PROVE  i \in Nat \ {0} /\ i \in 1 .. Len(informer) /\ informer[i] \in Informer
BY LenProperties, ElementOfSeq DEF ProcessTypeOK

\* InformerFor leaves one informer for the type, and those there are as they are.
LEMMA InformerForIs ==
    ASSUME ProcessTypeOK, OneInformer, NEW t \in Types, InformerFor(t)
    PROVE  /\ informers' \in [Types -> Nat]
           /\ informer' \in Seq(Informer)
           /\ informers'[t] # Nil
           /\ \A x \in Types : informers[x] # Nil => informers'[x] = informers[x]
           /\ \A x \in Types \ {t} : informers'[x] = informers[x]
           /\ \A i \in DOMAIN informer : i \in DOMAIN informer' /\ informer'[i] = informer[i]
           /\ informers[t] = Nil => /\ informers'[t] \in DOMAIN informer'
                                    /\ informer'[informers'[t]] = NewInformer(t)
           /\ \A i \in DOMAIN informer' : i \notin DOMAIN informer => i = informers'[t] /\ informers[t] = Nil
<1>1. CASE informers[t] # Nil
  BY <1>1 DEF InformerFor, ProcessTypeOK
<1>2. CASE informers[t] = Nil
  <2> DEFINE n == Len(informer)
  <2>1. n \in Nat /\ DOMAIN informer = 1 .. n
    BY LenProperties DEF ProcessTypeOK
  <2>2. NewInformer(t) \in Informer
    BY DEF NewInformer, Informer
  <2>3. informer' = Append(informer, NewInformer(t))
    BY <1>2 DEF InformerFor
  <2>4. /\ informer' \in Seq(Informer)
        /\ Len(informer') = n + 1
        /\ \A i \in 1 .. n : informer'[i] = informer[i]
        /\ informer'[n + 1] = NewInformer(t)
    BY <2>2, <2>3, AppendProperties DEF ProcessTypeOK
  <2>5. DOMAIN informer' = 1 .. n + 1
    BY <2>4, LenProperties
  <2>6. informers' = [informers EXCEPT ![t] = n + 1]
    BY <1>2, <2>4 DEF InformerFor
  <2> HIDE DEF n
  <2> QED
    BY <1>2, <2>1, <2>4, <2>5, <2>6 DEF ProcessTypeOK, Nil
<1> QED
  BY <1>1, <1>2

\* NewController makes one call after the other.
LEMMA NewControllerKeepsInv ==
    ASSUME SharedInv, NewController
    PROVE  SharedInv'
<1> DEFINE use == Requests[requests + 1].use
           t == Requests[requests + 1].type
<1> USE DEF SharedInv
<1>1. requests \in 0 .. 10 /\ requests + 1 \in 1 .. 11
  <2>1. requests \in 0 .. 11 /\ requests # 11
    BY RequestsAre DEF NewController, Requested, ProcessTypeOK
  <2> QED
    BY <2>1
<1>2. use \in Uses /\ t \in Types
  BY <1>1, RequestsAre
<1>3. InformerFor(t)
  BY DEF NewController
<1>4. /\ refers' = [refers EXCEPT ![use][t] = informers'[t]]
      /\ requests' = requests + 1
      /\ main' = IF requests' = 11 THEN "start bitcoin" ELSE main
      /\ UNCHANGED <<stored, published, heap, bcNetwork, bcNetworkCopy, pc>>
  BY RequestsAre DEF NewController, objectVars
<1>5. \A w \in Workers : pc[w] = "none"
  BY DEF NewController, StartedLate
<1> HIDE DEF use, t
<1>6. /\ informers' \in [Types -> Nat]
      /\ informer' \in Seq(Informer)
      /\ informers'[t] # Nil
      /\ \A x \in Types : informers[x] # Nil => informers'[x] = informers[x]
      /\ \A x \in Types \ {t} : informers'[x] = informers[x]
      /\ \A i \in DOMAIN informer : i \in DOMAIN informer' /\ informer'[i] = informer[i]
      /\ informers[t] = Nil => /\ informers'[t] \in DOMAIN informer'
                               /\ informer'[informers'[t]] = NewInformer(t)
      /\ \A i \in DOMAIN informer' : i \notin DOMAIN informer => i = informers'[t] /\ informers[t] = Nil
  BY <1>2, <1>3, InformerForIs
<1>7. ASSUME NEW u \in Uses, NEW x \in Types
      PROVE  refers'[u][x] = IF u = use /\ x = t THEN informers'[t] ELSE refers[u][x]
  BY <1>2, <1>4 DEF ProcessTypeOK
<1>8. ProcessTypeOK'
  <2>1. refers' \in [Uses -> [Types -> Nat]]
    <3>1. [refers[use] EXCEPT ![t] = informers'[t]] \in [Types -> Nat]
      BY <1>2, <1>6 DEF ProcessTypeOK
    <3> QED
      BY <1>2, <1>4, <3>1 DEF ProcessTypeOK
  <2>2. requests' \in 0 .. Len(Requests)
    <3>1. requests' = requests + 1
      BY <1>4
    <3>2. requests' \in 0 .. 11
      BY <1>1, <3>1
    <3> QED
      BY <3>2, RequestsAre
  <2> QED
    BY <1>4, <1>6, <2>1, <2>2 DEF ProcessTypeOK
<1>9. OneInformer'
  <2>1. ASSUME NEW x \in Types, informers'[x] # Nil
        PROVE  informers'[x] \in DOMAIN informer' /\ informer'[informers'[x]].type = x
    BY <1>6, <2>1 DEF OneInformer, NewInformer
  <2>2. ASSUME NEW i \in DOMAIN informer'
        PROVE  informers'[informer'[i].type] = i
    <3>1. CASE i \in DOMAIN informer
      <4>1. informer[i].type \in Types /\ i # Nil
        BY <3>1, InformersAre DEF Informer, Nil
      <4> QED
        BY <1>6, <3>1, <4>1 DEF OneInformer
    <3>2. CASE i \notin DOMAIN informer
      BY <1>6, <3>2 DEF NewInformer
    <3> QED
      BY <3>1, <3>2
  <2>3. ASSUME NEW u \in Uses, NEW x \in Types
        PROVE  refers'[u][x] \in {Nil, informers'[x]}
    BY <1>6, <1>7, <2>3 DEF OneInformer
  <2> QED
    BY <2>1, <2>2, <2>3 DEF OneInformer
<1>10. Requested'
  <2>1. ASSUME NEW i \in 1 .. requests + 1
        PROVE  refers'[Requests[i].use][Requests[i].type] # Nil
    <3>1. Requests[i].use \in Uses /\ Requests[i].type \in Types
      BY <1>1, RequestsAre
    <3>2. i \in 1 .. requests \/ i = requests + 1
      BY <1>1
    <3> QED
      BY <1>6, <1>7, <3>1, <3>2 DEF Requested, use, t
  <2> QED
    BY <1>1, <1>4, <2>1, RequestsAre DEF Requested, NewController
<1>11. Fed'
  <2> SUFFICES ASSUME NEW i \in DOMAIN informer'
               PROVE  /\ informer'[i].synced => informer'[i].runs
                      /\ informer'[i].object # Nil => informer'[i].type = "bc"
    BY DEF Fed
  <2>1. CASE i \in DOMAIN informer
    BY <1>6, <2>1 DEF Fed
  <2>2. CASE i \notin DOMAIN informer
    BY <1>6, <2>2 DEF NewInformer
  <2> QED
    BY <2>1, <2>2
<1>12. StartedLate'
  BY <1>4, <1>5 DEF StartedLate
<1>13. Seen'
  <2>1. ASSUME NEW i \in DOMAIN informer', informer'[i].object # Nil
        PROVE  i \in DOMAIN informer /\ informer'[i] = informer[i]
    BY <1>6, <2>1 DEF NewInformer
  <2> QED
    BY <1>4, <2>1 DEF Seen
<1> QED
  BY <1>8, <1>9, <1>10, <1>11, <1>12, <1>13

\* The informers may start, fill their caches and get other objects; as long as they are those
\* of the same types, what belongs to them stays.
LEMMA SameInformers ==
    ASSUME SharedInv, UNCHANGED <<informers, requests, refers>>,
           informer' \in Seq(Informer), DOMAIN informer' = DOMAIN informer,
           \A i \in DOMAIN informer : /\ informer'[i].type = informer[i].type
                                      /\ informer[i].synced => informer'[i].synced
    PROVE  /\ OneInformer'
           /\ main' = main => Requested'
           /\ main' # "NewController" /\ pc' = pc => StartedLate'
<1> USE DEF SharedInv
<1>1. ASSUME NEW t \in Types, informers[t] # Nil
      PROVE  /\ informers[t] \in DOMAIN informer'
             /\ informer'[informers[t]].type = t
             /\ informer[informers[t]].synced => informer'[informers[t]].synced
  BY <1>1 DEF OneInformer
<1>2. OneInformer'
  <2>1. \A i \in DOMAIN informer' : informers[informer'[i].type] = i
    BY DEF OneInformer
  <2>2. \A use \in Uses, t \in Types : refers[use][t] \in {Nil, informers[t]}
    BY DEF OneInformer
  <2> QED
    BY <1>1, <2>1, <2>2 DEF OneInformer
<1>3. main' = main => Requested'
  BY DEF Requested
<1>4. ASSUME pc' = pc, main' # "NewController"
      PROVE  StartedLate'
  <2> SUFFICES ASSUME \E w \in Workers : pc[w] # "none"
               PROVE  \A t \in Types : informers[t] # Nil /\ informer'[informers[t]].synced
    BY <1>4 DEF StartedLate
  <2> QED
    BY <1>1 DEF StartedLate
<1> QED
  BY <1>2, <1>3, <1>4

\* Start runs informers, and does nothing else to them.
LEMMA StartFactoriesKeepsInv ==
    ASSUME SharedInv, StartFactories
    PROVE  SharedInv'
<1> USE DEF SharedInv
<1>1. PICK factory \in {"bitcoin", "kubernetes"} : Start(factory)
  BY DEF StartFactories
<1>2. PICK started : informer' = [i \in DOMAIN informer |->
                                    [informer[i] EXCEPT !.runs = @ \/ i \in started]]
  BY <1>1 DEF Start
<1>3. ASSUME NEW i \in DOMAIN informer
      PROVE  /\ informer'[i] \in Informer
             /\ informer'[i].type = informer[i].type
             /\ informer'[i].synced = informer[i].synced
             /\ informer'[i].object = informer[i].object
             /\ informer[i].runs => informer'[i].runs
  <2>1. informer[i] \in Informer
    BY InformersAre
  <2>2. informer'[i] = [informer[i] EXCEPT !.runs = @ \/ i \in started]
    BY <1>2
  <2> QED
    BY <2>1, <2>2 DEF Informer
<1>4. DOMAIN informer' = DOMAIN informer /\ informer' \in Seq(Informer)
  <2>1. DOMAIN informer' = DOMAIN informer
    BY <1>2
  <2>2. Len(informer) \in Nat /\ DOMAIN informer = 1 .. Len(informer)
    BY LenProperties DEF ProcessTypeOK
  <2>3. informer' = [i \in 1 .. Len(informer) |-> informer'[i]]
    BY <1>2, <2>2
  <2> QED
    BY <1>3, <2>1, <2>2, <2>3
<1>5. /\ UNCHANGED <<informers, requests, refers, stopped, pc>>
      /\ UNCHANGED <<stored, published, heap, bcNetwork, bcNetworkCopy>>
      /\ main # "NewController" /\ main' # "NewController"
  BY DEF StartFactories, objectVars
<1>6. ProcessTypeOK'
  BY <1>4, <1>5 DEF ProcessTypeOK
<1>7. OneInformer' /\ StartedLate'
  BY <1>3, <1>4, <1>5, SameInformers
<1>8. Requested'
  BY <1>5 DEF Requested
<1>9. Fed'
  BY <1>3, <1>4 DEF Fed
<1>10. Seen'
  BY <1>3, <1>4, <1>5 DEF Seen
<1> QED
  BY <1>6, <1>7, <1>8, <1>9, <1>10

\* The workers are started, or the process ends, or is told to.
LEMMA MainKeepsInv ==
    ASSUME SharedInv, StartWorkers \/ MainEnds \/ Signal
    PROVE  SharedInv'
<1> USE DEF SharedInv
<1>1. /\ UNCHANGED <<informers, informer, requests, refers>>
      /\ UNCHANGED <<stored, published, heap, bcNetwork, bcNetworkCopy>>
  BY DEF StartWorkers, MainEnds, Signal, objectVars
<1>2. OneInformer' /\ Fed' /\ Seen'
  BY <1>1 DEF OneInformer, Fed, Seen
<1>3. main' = "NewController" <=> main = "NewController"
  BY DEF StartWorkers, MainEnds, StopIsSeen, Signal
<1>4. Requested'
  BY <1>1, <1>3 DEF Requested
<1>5. CASE StartWorkers
  <2>1. pc' \in [Workers -> {"none", "started", "idle", "read", "update"}]
    BY <1>5 DEF StartWorkers
  <2>2. ProcessTypeOK'
    BY <1>1, <2>1 DEF ProcessTypeOK
  <2>3. ASSUME NEW t \in Types
        PROVE  informers[t] # Nil /\ informer[informers[t]].synced
    <3>1. requests = 11
      BY <1>5, RequestsAre DEF StartWorkers, Requested
    <3>2. PICK i \in 1 .. 11 : Requests[i] = [use |-> "synced", type |-> t]
      BY RequestsAre
    <3>3. refers["synced"][t] # Nil
      BY <3>1, <3>2 DEF Requested
    <3>4. refers["synced"][t] = informers[t]
      BY <3>3 DEF OneInformer, Uses
    <3> QED
      BY <1>5, <3>3, <3>4 DEF StartWorkers, HasSynced
  <2>4. StartedLate'
    BY <1>1, <1>5, <2>3 DEF StartedLate, StartWorkers
  <2> QED
    BY <1>2, <1>4, <2>2, <2>4
<1>6. CASE MainEnds \/ Signal
  <2>1. UNCHANGED pc
    BY <1>6 DEF MainEnds, Signal
  <2>2. ProcessTypeOK' /\ StartedLate'
    BY <1>1, <1>3, <2>1 DEF ProcessTypeOK, StartedLate
  <2> QED
    BY <1>2, <1>4, <2>2
<1> QED
  BY <1>5, <1>6

\* The cache gets a new object, which nothing else refers to.
LEMMA FeedKeepsInv ==
    ASSUME SharedInv, NEW i \in DOMAIN informer, Feed(i)
    PROVE  SharedInv'
<1> USE DEF SharedInv
<1>1. informer[i] \in Informer
  BY InformersAre
<1>2. New \in Objects \ Referenced
  BY NewIsFree
<1>3. /\ UNCHANGED <<informers, main, requests, refers, pc>>
      /\ UNCHANGED <<stored, published, bcNetwork, bcNetworkCopy>>
      /\ informer[i].runs
  BY DEF Feed
<1>4. PICK f \in Informer :
          /\ f.type = informer[i].type /\ f.runs = informer[i].runs /\ f.synced
          /\ informer' = [informer EXCEPT ![i] = f]
          /\ \/ f.type = "bc" /\ f.object = New /\ heap' = [heap EXCEPT ![New] = stored]
             \/ f.object = informer[i].object /\ heap' = heap
  <2>1. CASE informer[i].type = "bc"
    <3> DEFINE f == [informer[i] EXCEPT !.synced = TRUE, !.object = New]
    <3>1. informer' = [informer EXCEPT ![i] = f] /\ heap' = [heap EXCEPT ![New] = stored]
      BY <2>1 DEF Feed
    <3>2. /\ f \in Informer
          /\ f.type = informer[i].type /\ f.runs = informer[i].runs /\ f.object = New
      BY <1>1, <1>2 DEF Informer
    <3>3. f.synced
      BY <1>1 DEF Informer
    <3> HIDE DEF f
    <3> QED
      BY <2>1, <3>1, <3>2, <3>3
  <2>2. CASE informer[i].type # "bc"
    <3> DEFINE f == [informer[i] EXCEPT !.synced = TRUE]
    <3>1. informer' = [informer EXCEPT ![i] = f] /\ heap' = heap
      BY <2>2 DEF Feed
    <3>2. /\ f \in Informer
          /\ f.type = informer[i].type /\ f.runs = informer[i].runs /\ f.object = informer[i].object
      BY <1>1 DEF Informer
    <3>3. f.synced
      BY <1>1 DEF Informer
    <3> HIDE DEF f
    <3> QED
      BY <3>1, <3>2, <3>3
  <2> QED
    BY <2>1, <2>2
<1>5. /\ informer' \in Seq(Informer)
      /\ DOMAIN informer' = DOMAIN informer
      /\ \A k \in DOMAIN informer : informer'[k] = IF k = i THEN f ELSE informer[k]
  BY <1>4 DEF ProcessTypeOK
<1>6. \A o \in Objects \ {New} : heap'[o] = heap[o]
  <2>1. CASE heap' = [heap EXCEPT ![New] = stored]
    BY <2>1 DEF ProcessTypeOK
  <2>2. CASE heap' = heap
    BY <2>2
  <2> QED
    BY <1>4, <2>1, <2>2
<1>7. heap'[New] = IF f.object = New THEN stored ELSE heap[New]
  BY <1>2, <1>4 DEF ProcessTypeOK, Referenced, Cached
<1>8. ProcessTypeOK'
  <2>1. heap' = [o \in Objects |-> heap'[o]]
    BY <1>2, <1>4 DEF ProcessTypeOK
  <2> QED
    BY <1>3, <1>5, <2>1 DEF ProcessTypeOK
<1>9. OneInformer' /\ Requested'
  BY <1>3, <1>4, <1>5, SameInformers
<1>10. StartedLate'
  <2> SUFFICES ASSUME \E w \in Workers : pc[w] # "none"
               PROVE  /\ main' # "NewController"
                      /\ \A t \in Types : informers[t] # Nil /\ informer'[informers[t]].synced
    BY <1>3 DEF StartedLate
  <2> QED
    BY <1>3, <1>4, <1>5 DEF StartedLate, OneInformer
<1>11. Fed'
  BY <1>3, <1>4, <1>5 DEF Fed
<1>12. Seen'
  <2>1. ASSUME NEW k \in DOMAIN informer', informer'[k].object # Nil
        PROVE  heap'[informer'[k].object] \in published
    <3>1. CASE k # i \/ f.object = informer[i].object
      <4>1. k \in DOMAIN informer /\ informer'[k].object = informer[k].object
        BY <1>5, <3>1
      <4>2. informer[k].object \in Objects \ {New}
        BY <1>2, <2>1, <4>1, InformersAre DEF Referenced, Cached, Informer
      <4> QED
        BY <1>6, <2>1, <4>1, <4>2 DEF Seen
    <3>2. CASE k = i /\ f.object # informer[i].object
      BY <1>4, <1>5, <1>7, <3>2 DEF Seen
    <3> QED
      BY <3>1, <3>2
  <2>2. ASSUME NEW w \in Workers, bcNetwork[w] # Nil
        PROVE  heap'[bcNetwork[w]] \in published
    <3>1. bcNetwork[w] \in Objects \ {New}
      BY <1>2, <2>2 DEF Referenced, ProcessTypeOK
    <3> QED
      BY <1>6, <2>2, <3>1 DEF Seen
  <2> QED
    BY <1>3, <2>1, <2>2 DEF Seen
<1> QED
  BY <1>8, <1>9, <1>10, <1>11, <1>12

\* What the API server stores is published with it, and what was, stays published.
LEMMA StoreKeepsSeen ==
    ASSUME Seen, NEW status, Store(status),
           informer' = informer, heap' = heap,
           \A w \in Workers : bcNetwork'[w] \in {bcNetwork[w], Nil}
    PROVE  Seen'
BY DEF Seen, Store

\* A step that leaves the process as it is leaves what is said of it.
LEMMA SameProcess ==
    ASSUME SharedInv, UNCHANGED <<informers, informer, main, requests, refers>>,
           \A w \in Workers : pc'[w] # "none" => pc[w] # "none"
    PROVE  OneInformer' /\ Requested' /\ Fed' /\ StartedLate'
BY DEF SharedInv, OneInformer, Requested, Fed, StartedLate

LEMMA UserUpdatesKeepsInv ==
    ASSUME SharedInv, UserUpdates
    PROVE  SharedInv'
<1> USE DEF SharedInv
<1>1. /\ UNCHANGED <<informers, informer, main, requests, refers>>
      /\ UNCHANGED <<heap, pc, bcNetwork, bcNetworkCopy>>
      /\ Store(stored.status)
  BY DEF UserUpdates, processVars
<1>2. OneInformer' /\ Requested' /\ Fed' /\ StartedLate'
  BY <1>1, SameProcess
<1>3. ProcessTypeOK'
  BY <1>1 DEF ProcessTypeOK
<1>4. Seen'
  BY <1>1, StoreKeepsSeen
<1> QED
  BY <1>2, <1>3, <1>4

LEMMA WorkerStartsKeepsInv ==
    ASSUME SharedInv, NEW w \in Workers, WorkerStarts(w)
    PROVE  SharedInv'
<1> USE DEF SharedInv
<1>1. /\ UNCHANGED <<informers, informer, main, requests, refers>>
      /\ UNCHANGED <<stored, published, heap, bcNetwork, bcNetworkCopy>>
      /\ pc[w] = "started" /\ pc' = [pc EXCEPT ![w] = "idle"]
  BY DEF WorkerStarts, processVars, objectVars
<1>2. OneInformer' /\ Requested' /\ Fed' /\ StartedLate'
  BY <1>1, SameProcess DEF ProcessTypeOK
<1>3. ProcessTypeOK' /\ Seen'
  BY <1>1 DEF ProcessTypeOK, Seen
<1> QED
  BY <1>2, <1>3

\* The lister hands out what is in the cache of the networks.
LEMMA GetKeepsInv ==
    ASSUME SharedInv, NEW w \in Workers, Get(w)
    PROVE  SharedInv'
<1> DEFINE i == informers["bc"]
<1> USE DEF SharedInv
<1>1. /\ UNCHANGED <<informers, informer, main, requests, refers>>
      /\ UNCHANGED <<stored, published, heap, bcNetworkCopy>>
      /\ pc[w] = "idle" /\ pc' = [pc EXCEPT ![w] = "read"]
  BY DEF Get, processVars
<1>2. refers["lister"]["bc"] = i /\ i \in DOMAIN informer
  <2>1. requests = 11
    BY <1>1, RequestsAre DEF StartedLate, Requested
  <2>2. PICK k \in 1 .. 11 : Requests[k] = [use |-> "lister", type |-> "bc"]
    BY RequestsAre
  <2>3. refers["lister"]["bc"] # Nil
    BY <2>1, <2>2 DEF Requested
  <2> QED
    BY <2>3 DEF OneInformer, Uses, Types
<1>3. /\ informer[i].object # Nil
      /\ bcNetwork' = [bcNetwork EXCEPT ![w] = informer[i].object]
  BY <1>2 DEF Get
<1>4. informer[i] \in Informer
  BY <1>2, InformersAre
<1>5. OneInformer' /\ Requested' /\ Fed' /\ StartedLate'
  BY <1>1, SameProcess DEF ProcessTypeOK
<1>6. ProcessTypeOK'
  BY <1>1, <1>3, <1>4 DEF ProcessTypeOK, Informer
<1>7. Seen'
  BY <1>1, <1>2, <1>3 DEF Seen, ProcessTypeOK
<1> QED
  BY <1>5, <1>6, <1>7

\* The copy is a new object, so that to set its status changes nothing anybody else sees.
LEMMA SetStatusKeepsInv ==
    ASSUME SharedInv, NEW w \in Workers, SetStatus(w)
    PROVE  SharedInv'
<1> USE DEF SharedInv
<1>1. /\ UNCHANGED <<informers, informer, main, requests, refers>>
      /\ UNCHANGED <<stored, published, bcNetwork>>
      /\ pc[w] = "read" /\ pc' = [pc EXCEPT ![w] = "update"]
      /\ bcNetworkCopy' = [bcNetworkCopy EXCEPT ![w] = New]
  BY DEF SetStatus, DeepCopy, processVars
<1>2. PICK network : heap' = [heap EXCEPT ![New] = network]
  BY DEF SetStatus, DeepCopy
<1>3. New \in Objects \ Referenced
  BY NewIsFree
<1>4. \A o \in Objects \ {New} : heap'[o] = heap[o]
  BY <1>2 DEF ProcessTypeOK
<1>5. OneInformer' /\ Requested' /\ Fed' /\ StartedLate'
  BY <1>1, SameProcess DEF ProcessTypeOK
<1>6. ProcessTypeOK'
  BY <1>1, <1>2, <1>3 DEF ProcessTypeOK
<1>7. Seen'
  <2>1. ASSUME NEW i \in DOMAIN informer, informer[i].object # Nil
        PROVE  informer[i].object \in Objects \ {New}
    BY <1>3, <2>1, InformersAre DEF Referenced, Cached, Informer
  <2>2. ASSUME NEW v \in Workers, bcNetwork[v] # Nil
        PROVE  bcNetwork[v] \in Objects \ {New}
    BY <1>3, <2>2 DEF Referenced, ProcessTypeOK
  <2> QED
    BY <1>1, <1>4, <2>1, <2>2 DEF Seen
<1> QED
  BY <1>5, <1>6, <1>7

LEMMA UpdateStatusKeepsInv ==
    ASSUME SharedInv, NEW w \in Workers, UpdateStatus(w)
    PROVE  SharedInv'
<1> USE DEF SharedInv
<1>1. /\ UNCHANGED <<informers, informer, main, requests, refers, heap>>
      /\ pc[w] = "update" /\ pc' = [pc EXCEPT ![w] = "idle"]
      /\ bcNetwork' = [bcNetwork EXCEPT ![w] = Nil]
      /\ bcNetworkCopy' = [bcNetworkCopy EXCEPT ![w] = Nil]
  BY DEF UpdateStatus, processVars
<1>2. \A v \in Workers : bcNetwork'[v] \in {bcNetwork[v], Nil}
  BY <1>1 DEF ProcessTypeOK
<1>3. OneInformer' /\ Requested' /\ Fed' /\ StartedLate'
  BY <1>1, SameProcess DEF ProcessTypeOK
<1>4. ProcessTypeOK'
  BY <1>1 DEF ProcessTypeOK
<1>5. Seen'
  <2>1. CASE Store(heap[bcNetworkCopy[w]].status)
    BY <1>1, <1>2, <2>1, StoreKeepsSeen
  <2>2. CASE UNCHANGED <<stored, published>>
    BY <1>1, <1>2, <2>2 DEF Seen
  <2> QED
    BY <2>1, <2>2 DEF UpdateStatus
<1> QED
  BY <1>3, <1>4, <1>5

LEMMA StepKeepsSharedInv == SharedInv /\ [Next]_vars => SharedInv'
<1> SUFFICES ASSUME SharedInv, [Next]_vars
             PROVE  SharedInv'
  OBVIOUS
<1>1. CASE NewController
  BY <1>1, NewControllerKeepsInv
<1>2. CASE StartFactories
  BY <1>2, StartFactoriesKeepsInv
<1>3. CASE StartWorkers \/ MainEnds \/ Signal
  BY <1>3, MainKeepsInv
<1>4. CASE UserUpdates
  BY <1>4, UserUpdatesKeepsInv
<1>5. ASSUME NEW i \in 1 .. Len(Requests), Feed(i)
      PROVE  SharedInv'
  <2>1. i \in DOMAIN informer
    BY <1>5 DEF Feed
  <2> QED
    BY <1>5, <2>1, FeedKeepsInv
<1>6. ASSUME NEW w \in Workers, WorkerStarts(w) \/ Get(w) \/ SetStatus(w) \/ UpdateStatus(w)
      PROVE  SharedInv'
  BY <1>6, WorkerStartsKeepsInv, GetKeepsInv, SetStatusKeepsInv, UpdateStatusKeepsInv
<1>7. CASE UNCHANGED vars
  <2>1. /\ UNCHANGED <<informers, informer, main, requests, refers, pc>>
        /\ UNCHANGED <<stored, published, heap, bcNetwork, bcNetworkCopy>>
    BY <1>7 DEF vars, processVars, objectVars
  <2> QED
    BY <2>1 DEF SharedInv, ProcessTypeOK, OneInformer, Requested, Fed, StartedLate, Seen
<1> QED
  BY <1>1, <1>2, <1>3, <1>4, <1>5, <1>6, <1>7 DEF Next, Main

\* There is one informer for each type, the workers are started after it has been filled, and
\* what is in it is the network as it once was (NewController, InformerFor, Run, Get).
THEOREM SharedIsConsistent == Spec => []SharedInv
BY InitSharedInv, StepKeepsSharedInv, PTL DEF Spec

\* However many workers there are, and whenever they are started, the informers behind the
\* listers, the handlers and HasSynced run and have been filled (InformerFor, Start, Run).
THEOREM WorkersAreFed == Spec => []WorkersReadFedCaches
<1>1. SharedInv => WorkersReadFedCaches
  <2> SUFFICES ASSUME SharedInv, \E w \in Workers : pc[w] # "none",
                      NEW use \in DOMAIN refers, NEW t \in Types, refers[use][t] # Nil
               PROVE  /\ informer[refers[use][t]].runs
                      /\ informer[refers[use][t]].synced
    BY DEF WorkersReadFedCaches
  <2> USE DEF SharedInv
  <2>1. refers[use][t] = informers[t] /\ informers[t] \in DOMAIN informer
    BY DEF ProcessTypeOK, OneInformer
  <2>2. informer[informers[t]].synced
    BY DEF StartedLate
  <2> QED
    BY <2>1, <2>2 DEF Fed
<1> QED
  BY <1>1, SharedIsConsistent, PTL

\* However many workers there are, none of them writes to an object that the cache or another
\* worker refers to: there is always a free one for the copy (updateNetworkStatus, DeepCopy).
THEOREM WorkersSeeWhatWas == Spec => []SeenWasPublished
<1>1. SharedInv => SeenWasPublished
  BY DEF SharedInv, Seen, SeenWasPublished, Cached
<1> QED
  BY <1>1, SharedIsConsistent, PTL
=============================================================================
