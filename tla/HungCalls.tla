------------------------------ MODULE HungCalls ------------------------------
(***************************************************************************)
(* The workers when calls to the bitcoin daemons hang.  The HTTP client of *)
(* internal/bitcoinclient is made without a timeout: a daemon that accepts *)
(* a request and never answers keeps doRecon, and with it one worker, from *)
(* returning, for as long as the process runs.                             *)
(***************************************************************************)
EXTENDS WorkQueue, FiniteSets

CONSTANT MaxStuck       \* bound on the networks with a daemon that hangs

\* There are more workers than networks with a daemon that hangs.
ASSUME WorkersLeft == /\ IsFiniteSet(Workers)
                      /\ MaxStuck \in Nat
                      /\ MaxStuck < Cardinality(Workers)

VARIABLE stuck          \* networks with a daemon that accepts requests and hangs

hungVars == <<queueVars, stuck>>

\* The response of a daemon of network n does not come any more.
Hang(n) == /\ Cardinality(stuck) < MaxStuck
           /\ stuck' = stuck \cup {n}
           /\ UNCHANGED queueVars

\* doRecon returns, unless it waits for a daemon; it may also have found no reason
\* to call one.
CallsReturn(w) == held[w] \notin stuck /\ Done(w)

Init == InitQueue /\ stuck = {}

Next == \/ NextQueue /\ UNCHANGED stuck
        \/ \E n \in Networks : Hang(n)

\* The scheduler runs every worker goroutine.
FairSpec == /\ Init /\ [][Next]_hungVars
            /\ \A w \in Workers : WF_hungVars((Get(w) \/ CallsReturn(w)) /\ UNCHANGED stuck)
-----------------------------------------------------------------------------
\* A request is eventually taken by a worker, however many other networks are
\* requested meanwhile, and although the daemons of some networks hang: such a network
\* holds one worker and no more (the missing timeout of the HTTP client against the
\* processing set of the queue).
RequestsAreTaken == \A n \in Networks : n \in dirty ~> n \notin dirty \/ n \in stuck
=============================================================================
