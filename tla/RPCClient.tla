------------------------------ MODULE RPCClient ------------------------------
(***************************************************************************)
(* The JSON RPC client of the bitcoin daemons (internal/bitcoinclient), of *)
(* which all workers share one, and the way syncNodes and connectNode use  *)
(* it.  A request is a message to the daemon, which may turn it away, fail *)
(* it, or answer; the response may get lost; a request that the client has *)
(* given up may still be executed.  The daemons are external.              *)
(***************************************************************************)
EXTENDS Integers, FiniteSets

CONSTANTS Callers,      \* the worker goroutines, each at work on another network
          Daemons,      \* the addresses of the daemons
          Owner,        \* Owner[d] is the caller whose network the daemon belongs to
          Nodes,        \* the addresses that are added and removed
          MaxLate,      \* bound on the requests that have been given up
          Client,       \* the client, as the holder of a configuration
          None          \* "nothing", "nobody"

Methods == {"get", "add", "remove"}

\* The calls, what is waited for in the abstract, and the answers.
CallRecord == [method : Methods, node : Nodes \cup {None}]
PendingCall == [daemon : Daemons, method : Methods, node : Nodes \cup {None},
                done : BOOLEAN, list : SUBSET (Nodes \cup {None})]
Answer == [err : Int, list : SUBSET (Nodes \cup {None})]

ASSUME ClientAssumption == /\ Owner \in [Daemons -> Callers]
                           /\ Client \notin Callers
                           /\ None \notin Callers \cup Daemons \cup {Client}
                           /\ None \notin CallRecord
                           /\ None \notin Answer
                           /\ None \notin PendingCall
                           /\ MaxLate \in Nat

\* Credentials: those of the network of a caller, or the default ones.
DefaultLogin == None
Config == [ip : Daemons \cup {None}, login : Callers \cup {None}]

\* Error codes of bitcoind: two that the client knows, and one of all the others.
NodeAlreadyAdded == -23
NodeNotAdded == -24
OtherError == -28
NoError == 0

\* The error of the decoder if the body of a response is not JSON.
Undecodable == 1

VARIABLES configs,      \* the configurations there are, one of them the client's
          config,       \* config[c] is the one that caller c refers to, None outside syncNodes
          nodeIP,       \* the daemon that syncNodes is at
          call,         \* the call that a caller waits for: method and node
          result,       \* what connectNode makes of the last call
          requests,     \* requests that no daemon has handled
          response,     \* response[c]: error code and node list
          added         \* added[d] is the added node list of the daemon at d

clientVars == <<configs, config, nodeIP, call, result>>
daemonVars == <<requests, response, added>>
vars == <<clientVars, daemonVars>>

NewConfig == [ip |-> None, login |-> DefaultLogin]

Init == /\ configs = [h \in Callers \cup {Client} |-> NewConfig]
        /\ config = [c \in Callers |-> None]
        /\ nodeIP = [c \in Callers |-> None]
        /\ call = [c \in Callers |-> None]
        /\ result = [c \in Callers |-> [done |-> FALSE, list |-> {}]]
        /\ requests = {}
        /\ response = [c \in Callers |-> None]
        /\ added = [d \in Daemons |-> {}]
-----------------------------------------------------------------------------
\* syncNodes.

\* Bug: the configuration of the client itself is handed out.
GetSharedConfig(c) ==
    /\ config[c] = None
    /\ config' = [config EXCEPT ![c] = Client]
    /\ UNCHANGED <<configs, nodeIP, call, result, daemonVars>>

\* GetConfig returns a copy, which syncNodes goes on to change.
GetConfig(c) ==
    /\ config[c] = None
    /\ config' = [config EXCEPT ![c] = c]
    /\ configs' = [configs EXCEPT ![c] = configs[Client]]
    /\ UNCHANGED <<nodeIP, call, result, daemonVars>>

\* The credentials of the network, if the secret can be read.
SetCredentials(c) ==
    /\ config[c] # None
    /\ nodeIP[c] = None
    /\ configs' = [configs EXCEPT ![config[c]].login = c]
    /\ UNCHANGED <<config, nodeIP, call, result, daemonVars>>

\* The loop over the ready nodes, and the start of connectNode for the next of them.
Visit(c, d) ==
    /\ config[c] # None
    /\ call[c] = None
    /\ nodeIP' = [nodeIP EXCEPT ![c] = d]
    /\ configs' = [configs EXCEPT ![config[c]].ip = d]
    /\ UNCHANGED <<config, call, result, daemonVars>>

\* syncNodes returns: what it kept in local variables is gone.
SyncEnds(c) ==
    /\ nodeIP[c] # None
    /\ call[c] = None
    /\ config' = [config EXCEPT ![c] = None]
    /\ nodeIP' = [nodeIP EXCEPT ![c] = None]
    /\ configs' = [configs EXCEPT ![c] = NewConfig]
    /\ UNCHANGED <<call, result, daemonVars>>
-----------------------------------------------------------------------------
\* RawRequest: the request is sent to the address and with the credentials of the
\* configuration that the caller hands over.
RawRequest(c, method, node) ==
    /\ nodeIP[c] # None
    /\ call[c] = None
    /\ call' = [call EXCEPT ![c] = [method |-> method, node |-> node]]
    /\ requests' = requests \cup {[caller |-> c, to |-> configs[config[c]].ip,
                                   login |-> configs[config[c]].login,
                                   method |-> method, node |-> node]}
    /\ UNCHANGED <<configs, config, nodeIP, result, response, added>>

\* GetAddedNodes, AddNode and RemoveNode.
Call(c) == \/ RawRequest(c, "get", None)
           \/ \E node \in Nodes : RawRequest(c, "add", node) \/ RawRequest(c, "remove", node)

IsNodeAlreadyAdded(err) == err = NodeAlreadyAdded
IsNodeNotAdded(err) == err = NodeNotAdded

\* Bug: any error the daemon itself reports is taken for the one that does no harm.
IgnoredFromDaemon(method, err) == err <= NoError

\* The errors that connectNode does not mind.
Ignored(method, err) == \/ err = NoError
                        \/ method = "add" /\ IsNodeAlreadyAdded(err)
                        \/ method = "remove" /\ IsNodeNotAdded(err)

\* The call returns what RawRequest has decoded.
Return(c) ==
    /\ response[c] # None
    /\ result' = [result EXCEPT ![c] =
           IF Ignored(call[c].method, response[c].err)
           THEN [done |-> TRUE, list |-> response[c].list]
           ELSE [done |-> FALSE, list |-> {}]]
    /\ call' = [call EXCEPT ![c] = None]
    /\ response' = [response EXCEPT ![c] = None]
    /\ UNCHANGED <<configs, config, nodeIP, requests, added>>

\* Requests that nobody waits for.
Abandoned == {r \in requests : r.caller = None}
Open(c) == {r \in requests : r.caller = c}

\* The connection breaks, before the daemon has the request or after it.
ConnectionFails(c) ==
    /\ call[c] # None
    /\ result' = [result EXCEPT ![c] = [done |-> FALSE, list |-> {}]]
    /\ call' = [call EXCEPT ![c] = None]
    /\ response' = [response EXCEPT ![c] = None]
    /\ LET givenUp == {[r EXCEPT !.caller = None] : r \in Open(c)}
       IN  requests' \in {requests \ Open(c), (requests \ Open(c)) \cup givenUp}
    /\ Cardinality(Abandoned') <= MaxLate
    /\ UNCHANGED <<configs, config, nodeIP, added>>
-----------------------------------------------------------------------------
\* The daemons.

\* A daemon has handled a request, and answers if somebody is waiting.
Respond(r, err, list) ==
    /\ requests' = requests \ {r}
    /\ response' = IF r.caller = None THEN response
                   ELSE [response EXCEPT ![r.caller] = [err |-> err, list |-> list]]
    /\ UNCHANGED clientVars

\* 401 with an empty body to wrong credentials.
TurnAway(r) ==
    /\ r.login # Owner[r.to]
    /\ Respond(r, Undecodable, {})
    /\ UNCHANGED added

\* The daemon is busy or not yet up: an error with or without a code.
Refuse(r) ==
    /\ r.login = Owner[r.to]
    /\ \E err \in {OtherError, Undecodable} : Respond(r, err, {})
    /\ UNCHANGED added

Execute(r) ==
    /\ r.login = Owner[r.to]
    /\ LET list == added[r.to]
       IN  \/ /\ r.method = "get"
              /\ Respond(r, NoError, list)
              /\ UNCHANGED added
           \/ /\ r.method = "add"
              /\ Respond(r, IF r.node \in list THEN NodeAlreadyAdded ELSE NoError, {})
              /\ added' = [added EXCEPT ![r.to] = @ \cup {r.node}]
           \/ /\ r.method = "remove"
              /\ Respond(r, IF r.node \in list THEN NoError ELSE NodeNotAdded, {})
              /\ added' = [added EXCEPT ![r.to] = @ \ {r.node}]

RestartDaemon(d) ==
    /\ added' = [added EXCEPT ![d] = {}]
    /\ requests' = {r \in requests : r.to # d}
    /\ response' = [c \in Callers |-> IF \E r \in Open(c) : r.to = d
                                      THEN [err |-> Undecodable, list |-> {}] ELSE response[c]]
    /\ UNCHANGED clientVars

Next == \/ \E c \in Callers : \/ GetConfig(c) \/ SetCredentials(c) \/ SyncEnds(c)
                              \/ Call(c) \/ Return(c) \/ ConnectionFails(c)
                              \/ \E d \in Daemons : Owner[d] = c /\ Visit(c, d)
        \/ \E r \in requests : TurnAway(r) \/ Refuse(r) \/ Execute(r)
        \/ \E d \in Daemons : RestartDaemon(d)

Spec == Init /\ [][Next]_vars
-----------------------------------------------------------------------------
\* The workers share the client, but no request of one is ever sent to a daemon of the
\* network that another is at work on, nor with its credentials (GetConfig, against
\* syncNodes, which writes to the configuration it gets).
CallsAreOwn ==
    \A r \in requests : r.caller # None => /\ Owner[r.to] = r.caller
                                           /\ r.login \in {r.caller, DefaultLogin}

\* The client and the daemons implement the calls that connectNode relies on: nothing
\* that connectNode takes for done is not done, in particular not when an error is
\* ignored, and no call changes another daemon than the one it was meant for
\* (RawRequest, IsNodeAlreadyAdded, IsNodeNotAdded, connectNode).
Done(c) == response[c] # None /\ response[c].err \notin {OtherError, Undecodable}
AbstractCall(c) ==
    IF call[c] = None THEN None
    ELSE [daemon |-> nodeIP[c], method |-> call[c].method, node |-> call[c].node,
          done |-> Done(c), list |-> IF Done(c) THEN response[c].list ELSE {}]
AbstractCalls == [c \in Callers |-> AbstractCall(c)]

\* What was sent with wrong credentials will not take effect.
LateRequests == {r \in Abandoned : r.login = Owner[r.to]}
AbstractLate == {[daemon |-> r.to, method |-> r.method, node |-> r.node] : r \in LateRequests}

Peers == INSTANCE PeerCalls
             WITH peers <- added,
                  Nodes <- Nodes \cup {None},
                  call <- AbstractCalls,
                  late <- AbstractLate
ImplementsPeerCalls == Peers!Spec
=============================================================================
