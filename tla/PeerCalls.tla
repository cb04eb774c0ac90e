------------------------------ MODULE PeerCalls ------------------------------
(***************************************************************************)
(* What connectNode needs of the JSON RPC client and of the daemons behind *)
(* it: a call asks a daemon for its added nodes or changes one of them; it *)
(* takes effect at once and once, on the daemon it was meant for; what is  *)
(* reported as done has been done, and a list that is reported is one the  *)
(* daemon had during the call.  A call may fail at any time, before or     *)
(* after its effect, and one that has failed may take effect later.  No    *)
(* requests, responses, credentials or error codes.                        *)
(***************************************************************************)
CONSTANTS Callers,      \* the worker goroutines
          Daemons,      \* the addresses of the daemons
          Nodes,        \* the addresses in their lists
          None          \* "no call"

VARIABLES peers,        \* peers[d] is the list of the daemon at d
          call,         \* call[c] is the call that c is in
          result,       \* result[c] is what became of the last call of c
          late          \* calls that were given up and may still take effect

peerVars == <<peers, call, result, late>>

\* The list of a daemon after a call.
After(list, method, node) == CASE method = "add"    -> list \cup {node}
                               [] method = "remove" -> list \ {node}
                               [] method = "get"    -> list

Failed == [done |-> FALSE, list |-> {}]

Init == /\ peers = [d \in Daemons |-> {}]
        /\ call = [c \in Callers |-> None]
        /\ result = [c \in Callers |-> Failed]
        /\ late = {}

Call(c, d, method, node) ==
    /\ call[c] = None
    /\ call' = [call EXCEPT ![c] = [daemon |-> d, method |-> method, node |-> node,
                                    done |-> FALSE, list |-> {}]]
    /\ UNCHANGED <<peers, result, late>>

TakeEffect(c) ==
    /\ call[c] # None
    /\ ~call[c].done
    /\ LET d == call[c].daemon
       IN  /\ peers' = [peers EXCEPT ![d] = After(@, call[c].method, call[c].node)]
           /\ call' = [call EXCEPT ![c] =
                  [daemon |-> d, method |-> @.method, node |-> @.node, done |-> TRUE,
                   list |-> IF @.method = "get" THEN peers[d] ELSE {}]]
    /\ UNCHANGED <<result, late>>

ReportDone(c) ==
    /\ call[c] # None
    /\ call[c].done
    /\ result' = [result EXCEPT ![c] = [done |-> TRUE, list |-> call[c].list]]
    /\ call' = [call EXCEPT ![c] = None]
    /\ UNCHANGED <<peers, late>>

ReportFailure(c) ==
    /\ call[c] # None
    /\ result' = [result EXCEPT ![c] = Failed]
    /\ call' = [call EXCEPT ![c] = None]
    /\ late' \in {late, late \cup {[daemon |-> call[c].daemon, method |-> call[c].method,
                                    node |-> call[c].node]}}
    /\ UNCHANGED peers

\* A call that was given up reaches its daemon, or never will.
TakeLateEffect(r) ==
    /\ r \in late
    /\ late' = late \ {r}
    /\ peers' \in {peers, [peers EXCEPT ![r.daemon] = After(@, r.method, r.node)]}
    /\ UNCHANGED <<call, result>>

\* A daemon starts again, with an empty list; calls it had been given are lost.
Restart(d) ==
    /\ peers' = [peers EXCEPT ![d] = {}]
    /\ late' = {r \in late : r.daemon # d}
    /\ UNCHANGED <<call, result>>

Next == \/ \E c \in Callers, d \in Daemons, method \in {"get", "add", "remove"}, node \in Nodes :
              Call(c, d, method, node)
        \/ \E c \in Callers : TakeEffect(c) \/ ReportDone(c) \/ ReportFailure(c)
        \/ \E r \in late : TakeLateEffect(r)
        \/ \E d \in Daemons : Restart(d)

Spec == Init /\ [][Next]_peerVars
=============================================================================
