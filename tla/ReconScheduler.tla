--------------------------- MODULE ReconScheduler ---------------------------
(***************************************************************************)
(* What the controller needs of the combination "work queue + worker       *)
(* loops": requests to reconcile a network are remembered until a worker   *)
(* takes them, two workers never reconcile the same network at the same    *)
(* time, and a request that arrives while the network is being reconciled  *)
(* is not absorbed by that reconciliation.  No queue, no dirty or          *)
(* processing set: only the requests that are open and the work under way. *)
(***************************************************************************)
CONSTANTS Networks,     \* the keys namespace/name of the bitcoin networks
          Workers,      \* the worker goroutines
          NoKey         \* "not reconciling anything"

VARIABLES pending,      \* networks with a request that no worker has taken
          active        \* active[w] is the network that worker w reconciles

schedulerVars == <<pending, active>>

Init == /\ pending = {}
        /\ active = [w \in Workers |-> NoKey]

Request(n) == /\ pending' = pending \cup {n}
              /\ UNCHANGED active

Start(w, n) == /\ active[w] = NoKey
               /\ n \in pending
               /\ \A v \in Workers : active[v] # n
               /\ pending' = pending \ {n}
               /\ active' = [active EXCEPT ![w] = n]

Finish(w) == /\ active[w] # NoKey
             /\ active' = [active EXCEPT ![w] = NoKey]
             /\ UNCHANGED pending

\* The process ends and is started again: it keeps nothing.
Forget == /\ pending' = {}
          /\ active' = [w \in Workers |-> NoKey]

Next == \/ \E n \in Networks : Request(n)
        \/ \E w \in Workers, n \in Networks : Start(w, n)
        \/ \E w \in Workers : Finish(w)
        \/ Forget

Spec == Init /\ [][Next]_schedulerVars
=============================================================================
