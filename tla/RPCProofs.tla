------------------------------ MODULE RPCProofs ------------------------------
(***************************************************************************)
(* What TLC checks of the RPC client with two workers and one daemon each, *)
(* proved for any workers, daemons and nodes and any number of requests    *)
(* that have been given up: that no call goes astray, and that the client  *)
(* and the daemons implement the calls of PeerCalls.                       *)
(***************************************************************************)
EXTENDS RPCClient, TLAPS

Request == [caller : Callers \cup {None}, to : Daemons, login : Callers \cup {None},
            method : Methods, node : Nodes \cup {None}]

ClientTypeOK ==
    /\ configs \in [Callers \cup {Client} -> Config]
    /\ config \in [Callers -> Callers \cup {None}]
    /\ nodeIP \in [Callers -> Daemons \cup {None}]
    /\ call \in [Callers -> CallRecord \cup {None}]
    /\ result \in [Callers -> [done : BOOLEAN, list : SUBSET (Nodes \cup {None})]]
    /\ requests \in SUBSET Request
    /\ response \in [Callers -> Answer \cup {None}]
    /\ added \in [Daemons -> SUBSET (Nodes \cup {None})]

\* Nobody writes to the configuration of the client, and everybody to his own only.
OwnConfig ==
    /\ configs[Client] = NewConfig
    /\ \A c \in Callers : /\ config[c] \in {None, c}
                          /\ configs[c].login \in {c, DefaultLogin}

\* While syncNodes is at a daemon, it is one of its network, and the configuration says so.
OwnDaemon ==
    \A c \in Callers :
        /\ nodeIP[c] # None => /\ config[c] = c
                               /\ Owner[nodeIP[c]] = c
                               /\ configs[c].ip = nodeIP[c]
        /\ call[c] # None => nodeIP[c] # None

\* A request that somebody waits for is that of his call, and has not been answered; there
\* is one at most, since nothing about it is left open.
OpenRequests ==
    \A r \in requests : r.caller # None =>
        /\ call[r.caller] = [method |-> r.method, node |-> r.node]
        /\ response[r.caller] = None
        /\ r.to = nodeIP[r.caller]
        /\ r.login = configs[r.caller].login

\* An answer is for a call, and reports one of two failures or what connectNode takes for done.
Answers ==
    \A c \in Callers : response[c] # None =>
        /\ call[c] # None
        /\ \/ response[c].err \in {OtherError, Undecodable}
           \/ Ignored(call[c].method, response[c].err)

ClientInv == /\ ClientTypeOK
             /\ OwnConfig
             /\ OwnDaemon
             /\ OpenRequests
             /\ Answers
-----------------------------------------------------------------------------
\* At first there are no calls.
LEMMA InitClientInv == Init => ClientInv
<1> SUFFICES ASSUME Init
             PROVE  ClientInv
  OBVIOUS
<1> USE ClientAssumption DEF Init, NewConfig, DefaultLogin
<1>1. ClientTypeOK
  BY DEF ClientTypeOK, Config
<1>2. OwnConfig /\ OwnDaemon /\ OpenRequests /\ Answers
  BY DEF OwnConfig, OwnDaemon, OpenRequests, Answers
<1> QED
  BY <1>1, <1>2 DEF ClientInv

\* Without a call there is neither a request that is waited for nor an answer.
LEMMA NothingOpen ==
    ASSUME ClientInv, NEW c \in Callers, call[c] = None
    PROVE  /\ \A q \in requests : q.caller # c
           /\ response[c] = None
<1>1. ASSUME NEW q \in requests PROVE q.caller # c
  <2>1. [method |-> q.method, node |-> q.node] \in CallRecord
    BY DEF ClientInv, ClientTypeOK, Request, CallRecord
  <2> QED
    BY <2>1, ClientAssumption DEF ClientInv, OpenRequests
<1> QED
  BY <1>1 DEF ClientInv, Answers

\* Nobody waits for two requests.
LEMMA OneOpenRequest ==
    ASSUME ClientInv, NEW r \in requests, NEW q \in requests,
           r.caller = q.caller, q.caller # None
    PROVE  r = q
<1>1. /\ q.to = r.to
      /\ q.login = r.login
      /\ [method |-> q.method, node |-> q.node] = [method |-> r.method, node |-> r.node]
  BY DEF ClientInv, OpenRequests
<1>2. q.method = r.method /\ q.node = r.node
  BY <1>1
<1>3. q \in Request /\ r \in Request
  BY DEF ClientInv, ClientTypeOK
<1> QED
  BY <1>1, <1>2, <1>3 DEF Request

\* The requests that are waited for stay as they are if nothing of theirs changes but the
\* configuration of one who waits for none.
LEMMA OpenRequestsStay ==
    ASSUME ClientInv, NEW c \in Callers, \A q \in requests : q.caller # c,
           UNCHANGED <<call, requests, response>>,
           \A b \in Callers \ {c} : UNCHANGED <<configs[b], nodeIP[b]>>
    PROVE  OpenRequests'
<1> SUFFICES ASSUME NEW q \in requests, q.caller # None
             PROVE  /\ call'[q.caller] = [method |-> q.method, node |-> q.node]
                    /\ response'[q.caller] = None
                    /\ q.to = nodeIP'[q.caller]
                    /\ q.login = configs'[q.caller].login
  BY DEF OpenRequests
<1>1. q.caller \in Callers \ {c}
  BY DEF ClientInv, ClientTypeOK, Request
<1> QED
  BY <1>1 DEF ClientInv, OpenRequests

\* syncNodes gets its configuration, completes it, and is done with it.
LEMMA SyncNodesKeepsInv ==
    ASSUME ClientInv, NEW c \in Callers,
           \/ GetConfig(c) \/ SetCredentials(c) \/ SyncEnds(c)
           \/ \E d \in Daemons : Owner[d] = c /\ Visit(c, d)
    PROVE  ClientInv'
<1> USE ClientAssumption DEF ClientInv, daemonVars, DefaultLogin
<1>1. UNCHANGED <<call, result, requests, response, added>>
  BY DEF GetConfig, SetCredentials, SyncEnds, Visit
<1>2. call[c] = None
  BY DEF GetConfig, SetCredentials, SyncEnds, Visit, OwnDaemon, ClientTypeOK
<1>3. Answers'
  BY <1>1 DEF Answers
<1>4. \A q \in requests : q.caller # c
  BY <1>2, NothingOpen
<1>5. CASE GetConfig(c)
  <2>1. ClientTypeOK'
    BY <1>5 DEF GetConfig, ClientTypeOK
  <2>2. OwnConfig'
    BY <1>5 DEF GetConfig, ClientTypeOK, OwnConfig, NewConfig
  <2>3. nodeIP[c] = None
    BY <1>5 DEF GetConfig, OwnDaemon
  <2>4. OwnDaemon'
    BY <1>5, <2>3 DEF GetConfig, ClientTypeOK, OwnDaemon
  <2>5. OpenRequests'
    BY <1>1, <1>4, <1>5, OpenRequestsStay DEF GetConfig, ClientTypeOK
  <2> QED
    BY <1>3, <2>1, <2>2, <2>4, <2>5
<1>6. CASE SetCredentials(c)
  <2>1. config[c] = c
    BY <1>6 DEF SetCredentials, OwnConfig
  <2>2. ClientTypeOK'
    BY <1>6, <2>1 DEF SetCredentials, ClientTypeOK, Config
  <2>3. OwnConfig'
    BY <1>6, <2>1 DEF SetCredentials, ClientTypeOK, OwnConfig, Config
  <2>4. OwnDaemon'
    BY <1>6, <2>1 DEF SetCredentials, ClientTypeOK, OwnDaemon, Config
  <2>5. OpenRequests'
    BY <1>1, <1>4, <1>6, <2>1, OpenRequestsStay DEF SetCredentials, ClientTypeOK
  <2> QED
    BY <1>3, <2>2, <2>3, <2>4, <2>5
<1>7. CASE SyncEnds(c)
  <2>1. ClientTypeOK'
    BY <1>7 DEF SyncEnds, ClientTypeOK, Config, NewConfig
  <2>2. OwnConfig'
    BY <1>7 DEF SyncEnds, ClientTypeOK, OwnConfig, NewConfig
  <2>3. OwnDaemon'
    BY <1>7 DEF SyncEnds, ClientTypeOK, OwnDaemon
  <2>4. OpenRequests'
    BY <1>1, <1>4, <1>7, OpenRequestsStay DEF SyncEnds, ClientTypeOK
  <2> QED
    BY <1>3, <2>1, <2>2, <2>3, <2>4
<1>8. ASSUME NEW d \in Daemons, Owner[d] = c, Visit(c, d)
      PROVE  ClientInv'
  <2>1. config[c] = c
    BY <1>8 DEF Visit, OwnConfig
  <2>2. ClientTypeOK'
    <3>1. configs' = [configs EXCEPT ![c].ip = d] /\ nodeIP' = [nodeIP EXCEPT ![c] = d]
      BY <1>8, <2>1 DEF Visit
    <3>2. configs' \in [Callers \cup {Client} -> Config]
      BY <3>1 DEF ClientTypeOK, Config
    <3>3. nodeIP' \in [Callers -> Daemons \cup {None}]
      BY <3>1 DEF ClientTypeOK
    <3>4. UNCHANGED <<config, call, result, daemonVars>>
      BY <1>8 DEF Visit
    <3> QED
      BY <3>2, <3>3, <3>4 DEF ClientTypeOK, daemonVars
  <2>3. OwnConfig'
    BY <1>8, <2>1 DEF Visit, ClientTypeOK, OwnConfig, Config
  <2>4. OwnDaemon'
    BY <1>8, <2>1 DEF Visit, ClientTypeOK, OwnDaemon, Config
  <2>5. OpenRequests'
    BY <1>1, <1>4, <1>8, <2>1, OpenRequestsStay DEF Visit, ClientTypeOK
  <2> QED
    BY <1>3, <2>2, <2>3, <2>4, <2>5
<1> QED
  BY <1>5, <1>6, <1>7, <1>8

\* RawRequest sends to the daemon that syncNodes is at, with its own credentials.
LEMMA RawRequestKeepsInv ==
    ASSUME ClientInv, NEW c \in Callers, NEW method \in Methods, NEW node \in Nodes \cup {None},
           RawRequest(c, method, node)
    PROVE  ClientInv'
<1> USE ClientAssumption DEF ClientInv, RawRequest
<1>1. /\ config[c] = c
      /\ configs[c].ip = nodeIP[c]
      /\ configs[c].login \in {c, DefaultLogin}
      /\ response[c] = None
  BY DEF OwnDaemon, OwnConfig, Answers
<1>2. nodeIP[c] \in Daemons
  BY DEF ClientTypeOK
<1> DEFINE r == [caller |-> c, to |-> nodeIP[c], login |-> configs[c].login,
                 method |-> method, node |-> node]
<1>3. requests' = requests \cup {r} /\ r \in Request
  BY <1>1, <1>2 DEF Request, DefaultLogin
<1>4. ClientTypeOK'
  BY <1>3 DEF ClientTypeOK, CallRecord
<1>5. OwnConfig' /\ OwnDaemon'
  BY DEF OwnConfig, OwnDaemon, ClientTypeOK
<1>6. OpenRequests'
  <2>1. \A q \in requests : q.caller # c
    BY NothingOpen
  <2>2. ASSUME NEW q \in requests, q.caller # None
        PROVE  call'[q.caller] = call[q.caller]
    BY <2>1 DEF ClientTypeOK
  <2>3. call'[c] = [method |-> method, node |-> node]
    BY DEF ClientTypeOK
  <2> QED
    BY <1>1, <1>3, <2>2, <2>3 DEF OpenRequests
<1>7. Answers'
  BY <1>1 DEF Answers, ClientTypeOK
<1> QED
  BY <1>4, <1>5, <1>6, <1>7

\* The call is over for the caller: its answer has come, or the connection is broken.
LEMMA CallEndsKeepsInv ==
    ASSUME ClientInv, NEW c \in Callers, Return(c) \/ ConnectionFails(c)
    PROVE  ClientInv'
<1> USE ClientAssumption DEF ClientInv
<1>1. /\ UNCHANGED <<configs, config, nodeIP, added>>
      /\ call' = [call EXCEPT ![c] = None]
      /\ response' = [response EXCEPT ![c] = None]
  BY DEF Return, ConnectionFails
<1>2. ASSUME NEW q \in requests'
      PROVE  /\ q \in Request
             /\ q.caller # None => q \in requests /\ q.caller # c
  <2>1. CASE Return(c)
    BY <2>1 DEF Return, OpenRequests, ClientTypeOK
  <2>2. CASE ConnectionFails(c)
    <3> DEFINE givenUp == {[r EXCEPT !.caller = None] : r \in Open(c)}
    <3>1. ASSUME NEW r \in Request
          PROVE  [r EXCEPT !.caller = None] \in Request /\ [r EXCEPT !.caller = None].caller = None
      BY DEF Request
    <3>2. requests' \subseteq (requests \ Open(c)) \cup givenUp
      BY <2>2 DEF ConnectionFails
    <3>3. ASSUME NEW late \in givenUp
          PROVE  late \in Request /\ late.caller = None
      <4>1. PICK r \in Open(c) : late = [r EXCEPT !.caller = None]
        OBVIOUS
      <4>2. r \in Request
        BY DEF Open, ClientTypeOK
      <4> QED
        BY <3>1, <4>1, <4>2
    <3> HIDE DEF givenUp
    <3> QED
      BY <3>2, <3>3 DEF Open, ClientTypeOK
  <2> QED
    BY <2>1, <2>2
<1>3. result' \in [Callers -> [done : BOOLEAN, list : SUBSET (Nodes \cup {None})]]
  <2>1. CASE Return(c)
    <3>1. response[c] \in Answer
      BY <2>1 DEF Return, ClientTypeOK
    <3>2. response[c].list \in SUBSET (Nodes \cup {None})
      BY <3>1 DEF Answer
    <3> QED
      BY <2>1, <3>2 DEF Return, ClientTypeOK
  <2>2. CASE ConnectionFails(c)
    <3>1. result' = [result EXCEPT ![c] = [done |-> FALSE, list |-> {}]]
      BY <2>2 DEF ConnectionFails
    <3> QED
      BY <3>1 DEF ClientTypeOK
  <2> QED
    BY <2>1, <2>2
<1>4. ClientTypeOK'
  <2>1. requests' \in SUBSET Request
    BY <1>2
  <2> QED
    BY <1>1, <1>3, <2>1 DEF ClientTypeOK
<1>5. OwnConfig' /\ OwnDaemon'
  BY <1>1 DEF OwnConfig, OwnDaemon, ClientTypeOK
<1>6. OpenRequests'
  <2>1. ASSUME NEW q \in requests', q.caller # None
        PROVE  /\ q \in requests
               /\ call'[q.caller] = call[q.caller]
               /\ response'[q.caller] = response[q.caller]
    <3>1. q \in requests /\ q.caller \in Callers /\ q.caller # c
      BY <1>2, <2>1 DEF Request
    <3> QED
      BY <1>1, <3>1 DEF ClientTypeOK
  <2> QED
    BY <1>1, <2>1 DEF OpenRequests
<1>7. Answers'
  BY <1>1 DEF Answers, ClientTypeOK
<1> QED
  BY <1>4, <1>5, <1>6, <1>7

\* A daemon has handled a request: there was no other of the caller, who now has the answer.
LEMMA RespondKeepsInv ==
    ASSUME ClientInv, NEW r \in requests,
           NEW err \in Int, err \in {OtherError, Undecodable} \/ Ignored(r.method, err),
           NEW list \in SUBSET (Nodes \cup {None}), Respond(r, err, list),
           added' \in [Daemons -> SUBSET (Nodes \cup {None})]
    PROVE  ClientInv'
<1> USE ClientAssumption DEF ClientInv, Respond, clientVars
<1>1. r \in Request
  BY DEF ClientTypeOK
<1>2. response' = IF r.caller = None THEN response
                  ELSE [response EXCEPT ![r.caller] = [err |-> err, list |-> list]]
  OBVIOUS
<1>3. r.caller # None => r.caller \in Callers
  BY <1>1 DEF Request
<1>4. [err |-> err, list |-> list] \in Answer
  BY DEF Answer
<1>5. ClientTypeOK'
  BY <1>2, <1>3, <1>4 DEF ClientTypeOK
<1>6. OwnConfig' /\ OwnDaemon'
  BY DEF OwnConfig, OwnDaemon
<1>7. OpenRequests'
  <2> SUFFICES ASSUME NEW q \in requests \ {r}, q.caller # None
               PROVE  response'[q.caller] = None
    BY DEF OpenRequests
  <2>1. q \in Request
    BY DEF ClientTypeOK
  <2>2. q.caller # r.caller
    BY OneOpenRequest
  <2>3. response[q.caller] = None
    BY DEF OpenRequests
  <2>4. q.caller \in Callers
    BY <2>1 DEF Request
  <2> QED
    BY <1>2, <1>3, <2>2, <2>3, <2>4 DEF ClientTypeOK
<1>8. Answers'
  <2> SUFFICES ASSUME NEW c \in Callers, response'[c] # None
               PROVE  /\ call[c] # None
                      /\ \/ response'[c].err \in {OtherError, Undecodable}
                         \/ Ignored(call[c].method, response'[c].err)
    BY DEF Answers, Ignored, IsNodeAlreadyAdded, IsNodeNotAdded
  <2>1. CASE c # r.caller
    BY <1>2, <1>3, <2>1 DEF Answers, ClientTypeOK
  <2>2. CASE c = r.caller
    <3>1. response'[c] = [err |-> err, list |-> list]
      BY <1>2, <2>2 DEF ClientTypeOK
    <3>2. call[c] = [method |-> r.method, node |-> r.node]
      BY <2>2 DEF OpenRequests
    <3>3. [method |-> r.method, node |-> r.node] \in CallRecord
      BY <1>1 DEF Request, CallRecord
    <3> QED
      BY <3>1, <3>2, <3>3
  <2> QED
    BY <2>1, <2>2
<1> QED
  BY <1>5, <1>6, <1>7, <1>8

\* A daemon that turns a request away, refuses it or executes it.
LEMMA DaemonKeepsInv ==
    ASSUME ClientInv, NEW r \in requests, TurnAway(r) \/ Refuse(r) \/ Execute(r)
    PROVE  ClientInv'
<1> USE DEF OtherError, Undecodable, NoError, NodeAlreadyAdded, NodeNotAdded
<1>1. r \in Request /\ added \in [Daemons -> SUBSET (Nodes \cup {None})]
  BY DEF ClientInv, ClientTypeOK
<1>2. r.to \in Daemons /\ r.node \in Nodes \cup {None}
  BY <1>1 DEF Request
<1>3. CASE TurnAway(r) \/ Refuse(r)
  <2>1. UNCHANGED added
    BY <1>3 DEF TurnAway, Refuse
  <2>2. PICK err \in {OtherError, Undecodable} : Respond(r, err, {})
    BY <1>3 DEF TurnAway, Refuse
  <2> QED
    BY <1>1, <2>1, <2>2, RespondKeepsInv
<1>4. CASE Execute(r)
  <2> USE DEF Ignored, IsNodeAlreadyAdded, IsNodeNotAdded
  <2>1. CASE r.method = "get"
    <3>1. Respond(r, NoError, added[r.to]) /\ UNCHANGED added
      BY <1>4, <2>1 DEF Execute
    <3>2. added[r.to] \in SUBSET (Nodes \cup {None})
      BY <1>1, <1>2
    <3> QED
      BY <1>1, <3>1, <3>2, RespondKeepsInv
  <2>2. CASE r.method = "add"
    <3>1. /\ Respond(r, IF r.node \in added[r.to] THEN NodeAlreadyAdded ELSE NoError, {})
          /\ added' = [added EXCEPT ![r.to] = @ \cup {r.node}]
      BY <1>4, <2>2 DEF Execute
    <3>2. added' \in [Daemons -> SUBSET (Nodes \cup {None})]
      BY <1>1, <1>2, <3>1
    <3> QED
      BY <2>2, <3>1, <3>2, RespondKeepsInv
  <2>3. CASE r.method = "remove"
    <3>1. /\ Respond(r, IF r.node \in added[r.to] THEN NoError ELSE NodeNotAdded, {})
          /\ added' = [added EXCEPT ![r.to] = @ \ {r.node}]
      BY <1>4, <2>3 DEF Execute
    <3>2. added' \in [Daemons -> SUBSET (Nodes \cup {None})]
      BY <1>1, <1>2, <3>1
    <3> QED
      BY <2>3, <3>1, <3>2, RespondKeepsInv
  <2> QED
    BY <1>4, <2>1, <2>2, <2>3 DEF Execute
<1> QED
  BY <1>3, <1>4

\* A daemon that starts again forgets the requests it has, and breaks their connections.
LEMMA RestartKeepsInv ==
    ASSUME ClientInv, NEW d \in Daemons, RestartDaemon(d)
    PROVE  ClientInv'
<1> USE ClientAssumption DEF ClientInv, RestartDaemon, clientVars
<1>1. ClientTypeOK'
  <2>1. [err |-> Undecodable, list |-> {}] \in Answer
    BY DEF Answer, Undecodable
  <2>2. response' \in [Callers -> Answer \cup {None}]
    BY <2>1 DEF ClientTypeOK
  <2> QED
    BY <2>2 DEF ClientTypeOK
<1>2. OwnConfig' /\ OwnDaemon'
  BY DEF OwnConfig, OwnDaemon
<1>3. OpenRequests'
  <2> SUFFICES ASSUME NEW q \in requests, q.to # d, q.caller # None
               PROVE  response'[q.caller] = None
    BY DEF OpenRequests
  <2>1. q.caller \in Callers
    BY DEF ClientTypeOK, Request
  <2>2. \A r \in requests : r.caller = q.caller => r = q
    BY OneOpenRequest
  <2>3. response'[q.caller] = response[q.caller]
    BY <2>1, <2>2 DEF Open
  <2> QED
    BY <2>3 DEF OpenRequests
<1>4. Answers'
  <2> SUFFICES ASSUME NEW c \in Callers, response'[c] # None
               PROVE  /\ call[c] # None
                      /\ \/ response'[c].err \in {OtherError, Undecodable}
                         \/ Ignored(call[c].method, response'[c].err)
    BY DEF Answers, Ignored, IsNodeAlreadyAdded, IsNodeNotAdded
  <2>1. CASE \E r \in Open(c) : r.to = d
    <3>1. call[c] # None
      BY <2>1, NothingOpen DEF Open
    <3> QED
      BY <2>1, <3>1
  <2>2. CASE ~ \E r \in Open(c) : r.to = d
    <3>1. response'[c] = response[c]
      BY <2>2
    <3> QED
      BY <3>1 DEF Answers
  <2> QED
    BY <2>1, <2>2
<1> QED
  BY <1>1, <1>2, <1>3, <1>4

\* The invariant is inductive.
LEMMA StepKeepsClientInv == ClientInv /\ [Next]_vars => ClientInv'
<1> SUFFICES ASSUME ClientInv, [Next]_vars
             PROVE  ClientInv'
  OBVIOUS
<1>1. CASE \E c \in Callers :
              \/ GetConfig(c) \/ SetCredentials(c) \/ SyncEnds(c)
              \/ \E d \in Daemons : Owner[d] = c /\ Visit(c, d)
  BY <1>1, SyncNodesKeepsInv
<1>2. CASE \E c \in Callers : Call(c)
  <2>1. PICK c \in Callers, method \in Methods, node \in Nodes \cup {None} :
              RawRequest(c, method, node)
    BY <1>2 DEF Call, Methods
  <2> QED
    BY <2>1, RawRequestKeepsInv
<1>3. CASE \E c \in Callers : Return(c) \/ ConnectionFails(c)
  BY <1>3, CallEndsKeepsInv
<1>4. CASE \E r \in requests : TurnAway(r) \/ Refuse(r) \/ Execute(r)
  BY <1>4, DaemonKeepsInv
<1>5. CASE \E d \in Daemons : RestartDaemon(d)
  BY <1>5, RestartKeepsInv
<1>6. CASE UNCHANGED vars
  BY <1>6 DEF vars, clientVars, daemonVars, ClientInv, ClientTypeOK, OwnConfig, OwnDaemon,
              OpenRequests, Answers, Ignored, IsNodeAlreadyAdded, IsNodeNotAdded
<1> QED
  BY <1>1, <1>2, <1>3, <1>4, <1>5, <1>6 DEF Next

THEOREM ClientIsConsistent == Spec => []ClientInv
BY InitClientInv, StepKeepsClientInv, PTL DEF Spec

\* No request that a worker waits for is ever at a daemon of another's network, nor sent with
\* the credentials of another (GetConfig against syncNodes, RawRequest).
THEOREM NoCallGoesAstray == Spec => []CallsAreOwn
<1>1. ClientInv => CallsAreOwn
  <2> SUFFICES ASSUME ClientInv, NEW r \in requests, r.caller # None
               PROVE  Owner[r.to] = r.caller /\ r.login \in {r.caller, DefaultLogin}
    BY DEF CallsAreOwn
  <2>1. r.caller \in Callers /\ r.to \in Daemons
    BY DEF ClientInv, ClientTypeOK, Request
  <2>2. nodeIP[r.caller] = r.to /\ r.to # None
    BY <2>1, ClientAssumption DEF ClientInv, OpenRequests
  <2> QED
    BY <2>1, <2>2 DEF ClientInv, OpenRequests, OwnDaemon, OwnConfig
<1> QED
  BY <1>1, ClientIsConsistent, PTL
-----------------------------------------------------------------------------
\* The refinement.

\* The call that somebody is in is one in PeerCalls too.
LEMMA CallsArePending ==
    ASSUME ClientInv, NEW c \in Callers, call[c] # None
    PROVE  /\ AbstractCalls[c] = AbstractCall(c)
           /\ AbstractCall(c) # None
           /\ AbstractCall(c) = [daemon |-> nodeIP[c], method |-> call[c].method,
                                  node |-> call[c].node, done |-> Done(c),
                                  list |-> IF Done(c) THEN response[c].list ELSE {}]
<1>1. nodeIP[c] \in Daemons
  BY DEF ClientInv, ClientTypeOK, OwnDaemon
<1>2. call[c].method \in Methods /\ call[c].node \in Nodes \cup {None}
  BY DEF ClientInv, ClientTypeOK, CallRecord
<1>3. (IF Done(c) THEN response[c].list ELSE {}) \in SUBSET (Nodes \cup {None})
  BY DEF ClientInv, ClientTypeOK, Answer, Done
<1>4. Done(c) \in BOOLEAN
  BY DEF Done
<1>5. AbstractCall(c) \in PendingCall
  BY <1>1, <1>2, <1>3, <1>4 DEF AbstractCall, PendingCall
<1> QED
  BY <1>5, ClientAssumption DEF AbstractCall, AbstractCalls

\* Two late requests differ in what PeerCalls sees of them.
LEMMA LateRequestHandled ==
    ASSUME ClientInv, NEW r \in LateRequests, requests' = requests \ {r}
    PROVE  LET call_ == [daemon |-> r.to, method |-> r.method, node |-> r.node]
           IN  call_ \in AbstractLate /\ AbstractLate' = AbstractLate \ {call_}
<1> DEFINE Call_(q) == [daemon |-> q.to, method |-> q.method, node |-> q.node]
<1>1. LateRequests' = LateRequests \ {r}
  BY DEF LateRequests, Abandoned
<1>2. ASSUME NEW q \in LateRequests, Call_(q) = Call_(r)
      PROVE  q = r
  <2>1. q \in Request /\ r \in Request /\ q.caller = None /\ r.caller = None
    BY DEF ClientInv, ClientTypeOK, LateRequests, Abandoned
  <2>2. q.to = r.to /\ q.method = r.method /\ q.node = r.node
    BY <1>2
  <2>3. q.login = Owner[q.to] /\ r.login = Owner[r.to]
    BY DEF LateRequests
  <2> QED
    BY <2>1, <2>2, <2>3 DEF Request
<1>3. AbstractLate = {Call_(q) : q \in LateRequests}
  BY DEF AbstractLate
<1>4. AbstractLate' = {Call_(q) : q \in LateRequests \ {r}}
  BY <1>1 DEF AbstractLate
<1> HIDE DEF Call_
<1>5. Call_(r) \in AbstractLate /\ AbstractLate' = AbstractLate \ {Call_(r)}
  BY <1>2, <1>3, <1>4
<1> QED
  BY <1>5 DEF Call_

\* At first there is no call in PeerCalls either.
LEMMA InitImplements == Init => Peers!Init
<1> SUFFICES ASSUME Init
             PROVE  Peers!Init
  OBVIOUS
<1>1. AbstractCalls = [c \in Callers |-> None]
  BY DEF Init, AbstractCalls, AbstractCall
<1>2. AbstractLate = {}
  BY DEF Init, AbstractLate, LateRequests, Abandoned
<1> QED
  BY <1>1, <1>2 DEF Init, Peers!Init, Peers!Failed

\* What syncNodes does between the calls is nothing to PeerCalls.
LEMMA SyncNodesStutters ==
    ASSUME ClientInv, NEW c \in Callers,
           \/ GetConfig(c) \/ SetCredentials(c) \/ SyncEnds(c)
           \/ \E d \in Daemons : Owner[d] = c /\ Visit(c, d)
    PROVE  UNCHANGED Peers!peerVars
<1>1. UNCHANGED <<call, result, requests, response, added>>
  BY DEF GetConfig, SetCredentials, SyncEnds, Visit, daemonVars
<1>2. \A b \in Callers : call[b] # None => nodeIP'[b] = nodeIP[b]
  BY DEF GetConfig, SetCredentials, SyncEnds, Visit, ClientInv, ClientTypeOK
<1>3. \A b \in Callers : AbstractCall(b)' = AbstractCall(b)
  BY <1>1, <1>2 DEF AbstractCall, Done
<1>4. AbstractCalls' = AbstractCalls /\ AbstractLate' = AbstractLate
  BY <1>1, <1>3 DEF AbstractCalls, AbstractLate, LateRequests, Abandoned
<1> QED
  BY <1>1, <1>4 DEF Peers!peerVars

\* RawRequest begins a call.
LEMMA RawRequestImplements ==
    ASSUME ClientInv, NEW c \in Callers, NEW method \in Methods, NEW node \in Nodes \cup {None},
           RawRequest(c, method, node)
    PROVE  Peers!Call(c, nodeIP[c], method, node)
<1>1. response[c] = None
  BY NothingOpen DEF RawRequest
<1>2. AbstractCalls[c] = None
  BY DEF RawRequest, AbstractCalls, AbstractCall
<1>3. AbstractCall(c)' = [daemon |-> nodeIP[c], method |-> method, node |-> node,
                          done |-> FALSE, list |-> {}]
  <2>1. call'[c] = [method |-> method, node |-> node] /\ call'[c] # None
    BY ClientAssumption DEF RawRequest, ClientInv, ClientTypeOK, CallRecord
  <2>2. Done(c)' = FALSE
    BY <1>1 DEF Done, RawRequest
  <2>3. nodeIP' = nodeIP
    BY DEF RawRequest
  <2>4. call'[c].method = method /\ call'[c].node = node
    BY <2>1
  <2> QED
    BY <2>1, <2>2, <2>3, <2>4, Zenon DEF AbstractCall
<1>4. ASSUME NEW b \in Callers \ {c}
      PROVE  AbstractCall(b)' = AbstractCall(b)
  <2>1. UNCHANGED <<call[b], nodeIP[b], response[b]>>
    BY DEF RawRequest, ClientInv, ClientTypeOK
  <2> QED
    BY <2>1 DEF AbstractCall, Done
<1>5. AbstractCalls' = [AbstractCalls EXCEPT ![c] = AbstractCall(c)']
  BY <1>4 DEF AbstractCalls
<1>6. AbstractLate' = AbstractLate
  <2>1. LateRequests' = LateRequests
    <3>1. PICK r : r.caller = c /\ requests' = requests \cup {r}
      BY DEF RawRequest
    <3>2. c # None
      BY ClientAssumption
    <3> QED
      BY <3>1, <3>2 DEF LateRequests, Abandoned
  <2> QED
    BY <2>1 DEF AbstractLate
<1>7. UNCHANGED <<added, result>>
  BY DEF RawRequest
<1> QED
  BY <1>2, <1>3, <1>5, <1>6, <1>7 DEF Peers!Call

\* A call ends: what has been done is reported as done, an error that is ignored included,
\* and what has failed as failed; of those some take effect later.
LEMMA ReturnImplements ==
    ASSUME ClientInv, NEW c \in Callers, Return(c)
    PROVE  Peers!ReportDone(c) \/ Peers!ReportFailure(c)
<1>1. call[c] # None /\ response[c] # None
  BY DEF Return, ClientInv, Answers
<1>2. /\ AbstractCalls[c] # None
      /\ AbstractCalls[c].done = Done(c)
      /\ Done(c) => AbstractCalls[c].list = response[c].list
  BY <1>1, CallsArePending
<1>3. AbstractCalls' = [AbstractCalls EXCEPT ![c] = None]
  <2>1. AbstractCall(c)' = None
    BY DEF Return, AbstractCall, ClientInv, ClientTypeOK
  <2>2. ASSUME NEW b \in Callers \ {c}
        PROVE  AbstractCall(b)' = AbstractCall(b)
    <3>1. UNCHANGED <<call[b], nodeIP[b], response[b]>>
      BY DEF Return, ClientInv, ClientTypeOK
    <3> QED
      BY <3>1 DEF AbstractCall, Done
  <2> QED
    BY <2>1, <2>2 DEF AbstractCalls
<1>4. UNCHANGED <<added, requests>> /\ AbstractLate' = AbstractLate
  BY DEF Return, AbstractLate, LateRequests, Abandoned
<1>5. Ignored(call[c].method, response[c].err) <=> Done(c)
  BY <1>1 DEF ClientInv, Answers, Done, Ignored, IsNodeAlreadyAdded, IsNodeNotAdded,
              OtherError, Undecodable, NoError, NodeAlreadyAdded, NodeNotAdded
<1>6. CASE Done(c)
  <2>1. result' = [result EXCEPT ![c] = [done |-> TRUE, list |-> AbstractCalls[c].list]]
    BY <1>2, <1>5, <1>6 DEF Return
  <2> QED
    BY <1>2, <1>3, <1>4, <1>6, <2>1 DEF Peers!ReportDone
<1>7. CASE ~Done(c)
  <2>1. result' = [result EXCEPT ![c] = Peers!Failed]
    BY <1>5, <1>7 DEF Return, Peers!Failed
  <2> QED
    BY <1>2, <1>3, <1>4, <2>1 DEF Peers!ReportFailure
<1> QED
  BY <1>6, <1>7

LEMMA ConnectionFailsImplements ==
    ASSUME ClientInv, NEW c \in Callers, ConnectionFails(c)
    PROVE  Peers!ReportFailure(c)
<1> DEFINE call_ == [daemon |-> nodeIP[c], method |-> call[c].method, node |-> call[c].node]
           late_ == {[r EXCEPT !.caller = None] : r \in Open(c)}
<1>1. call[c] # None
  BY DEF ConnectionFails
<1>2. /\ AbstractCalls[c] # None
      /\ AbstractCalls[c].daemon = nodeIP[c]
      /\ AbstractCalls[c].method = call[c].method
      /\ AbstractCalls[c].node = call[c].node
  BY <1>1, CallsArePending
<1>3. AbstractCalls' = [AbstractCalls EXCEPT ![c] = None]
  <2>1. AbstractCall(c)' = None
    BY DEF ConnectionFails, AbstractCall, ClientInv, ClientTypeOK
  <2>2. ASSUME NEW b \in Callers \ {c}
        PROVE  AbstractCall(b)' = AbstractCall(b)
    <3>1. UNCHANGED <<call[b], nodeIP[b], response[b]>>
      BY DEF ConnectionFails, ClientInv, ClientTypeOK
    <3> QED
      BY <3>1 DEF AbstractCall, Done
  <2> QED
    BY <2>1, <2>2 DEF AbstractCalls
<1>4. result' = [result EXCEPT ![c] = Peers!Failed] /\ UNCHANGED added
  BY DEF ConnectionFails, Peers!Failed
<1>5. AbstractLate' \in {AbstractLate, AbstractLate \cup {call_}}
  <2>1. \A r \in Open(c) : r.caller # None
    BY ClientAssumption DEF Open
  <2>2. ASSUME NEW q \in late_
        PROVE  /\ q.caller = None
               /\ [daemon |-> q.to, method |-> q.method, node |-> q.node] = call_
    <3>1. PICK r \in Open(c) : q = [r EXCEPT !.caller = None]
      OBVIOUS
    <3>2. /\ r.to = nodeIP[c]
          /\ call[c] = [method |-> r.method, node |-> r.node]
      BY ClientAssumption DEF ClientInv, OpenRequests, Open
    <3>3. r \in Request
      BY DEF Open, ClientInv, ClientTypeOK
    <3>4. q.caller = None /\ q.to = r.to /\ q.method = r.method /\ q.node = r.node
      BY <3>1, <3>3 DEF Request
    <3> QED
      BY <3>2, <3>4
  <2>3. \/ requests' = requests \ Open(c)
        \/ requests' = (requests \ Open(c)) \cup late_
    BY DEF ConnectionFails
  <2> HIDE DEF call_, late_
  <2>4. \/ Abandoned' = Abandoned
        \/ Abandoned' = Abandoned \cup late_
    BY <2>1, <2>2, <2>3 DEF Abandoned
  <2>5. \/ LateRequests' = LateRequests
        \/ LateRequests' = LateRequests \cup {q \in late_ : q.login = Owner[q.to]}
    BY <2>4 DEF LateRequests
  <2> QED
    BY <2>2, <2>5 DEF AbstractLate
<1> QED
  BY <1>2, <1>3, <1>4, <1>5 DEF Peers!ReportFailure

\* The call of PeerCalls that a request belongs to.
CallOf(r, done, list) == [daemon |-> r.to, method |-> r.method, node |-> r.node,
                          done |-> done, list |-> list]

\* An answer to somebody who waits: his call is done unless the answer is a failure.
LEMMA AnswerImplements ==
    ASSUME ClientInv, NEW r \in requests, NEW c, c = r.caller, c # None,
           requests' = requests \ {r}, UNCHANGED clientVars,
           NEW answer \in Answer, response' = [response EXCEPT ![c] = answer]
    PROVE  /\ c \in Callers
           /\ result' = result /\ AbstractLate' = AbstractLate
           /\ AbstractCalls[c] # None
           /\ AbstractCalls[c] = CallOf(r, FALSE, {})
           /\ answer.err \in {OtherError, Undecodable} => AbstractCalls' = AbstractCalls
           /\ answer.err \notin {OtherError, Undecodable} =>
                  AbstractCalls' = [AbstractCalls EXCEPT ![c] = CallOf(r, TRUE, answer.list)]
<1>1. c \in Callers
  BY DEF ClientInv, ClientTypeOK, Request
<1>2. /\ call[c] = [method |-> r.method, node |-> r.node]
      /\ nodeIP[c] = r.to
      /\ response[c] = None
  BY DEF ClientInv, OpenRequests
<1>3. call[c] # None
  BY <1>1, NothingOpen
<1>4. UNCHANGED <<call, nodeIP, result>>
  BY DEF clientVars
<1>5. AbstractLate' = AbstractLate
  <2>1. Abandoned' = Abandoned
    BY DEF Abandoned
  <2> QED
    BY <2>1 DEF AbstractLate, LateRequests
<1>6. AbstractCalls[c] # None /\ AbstractCalls[c] = CallOf(r, FALSE, {})
  <2>1. call[c].method = r.method /\ call[c].node = r.node
    BY <1>2
  <2>2. Done(c) = FALSE
    BY <1>2 DEF Done
  <2> QED
    BY <1>1, <1>2, <1>3, <2>1, <2>2, CallsArePending, Zenon DEF CallOf
<1>7. ASSUME NEW b \in Callers \ {c}
      PROVE  AbstractCall(b)' = AbstractCall(b)
  <2>1. UNCHANGED <<call[b], nodeIP[b], response[b]>>
    BY <1>4 DEF ClientInv, ClientTypeOK
  <2> QED
    BY <2>1 DEF AbstractCall, Done
<1>8. response'[c] = answer
  BY <1>1 DEF ClientInv, ClientTypeOK
<1>9. ASSUME answer.err \in {OtherError, Undecodable}
      PROVE  AbstractCalls' = AbstractCalls
  <2>1. Done(c)' = FALSE /\ Done(c) = FALSE
    BY <1>2, <1>8, <1>9 DEF Done
  <2>2. AbstractCall(c)' = AbstractCall(c)
    BY <1>4, <2>1, Zenon DEF AbstractCall
  <2> QED
    BY <1>7, <2>2 DEF AbstractCalls
<1>10. ASSUME answer.err \notin {OtherError, Undecodable}
       PROVE  AbstractCalls' = [AbstractCalls EXCEPT ![c] = CallOf(r, TRUE, answer.list)]
  <2>1. Done(c)' = TRUE
    BY <1>8, <1>10, ClientAssumption DEF Done
  <2>2. AbstractCall(c)' = [daemon |-> nodeIP[c], method |-> call[c].method, node |-> call[c].node,
                            done |-> TRUE, list |-> answer.list]
    BY <1>3, <1>4, <1>8, <2>1, Zenon DEF AbstractCall
  <2>3. AbstractCall(c)' = CallOf(r, TRUE, answer.list)
    BY <1>2, <2>2 DEF CallOf
  <2>4. AbstractCalls' = [AbstractCalls EXCEPT ![c] = AbstractCall(c)']
    BY <1>7 DEF AbstractCalls
  <2> QED
    BY <2>3, <2>4
<1> QED
  BY <1>1, <1>4, <1>5, <1>6, <1>9, <1>10

\* A daemon handles a request of somebody who waits.
LEMMA DaemonImplements ==
    ASSUME ClientInv, NEW r \in requests, NEW c, c = r.caller, c # None,
           TurnAway(r) \/ Refuse(r) \/ Execute(r)
    PROVE  Peers!TakeEffect(c) \/ UNCHANGED Peers!peerVars
<1>1. r.to \in Daemons /\ r.node \in Nodes \cup {None}
  BY DEF ClientInv, ClientTypeOK, Request
<1>2. added \in [Daemons -> SUBSET (Nodes \cup {None})]
  BY DEF ClientInv, ClientTypeOK
<1>3. CASE TurnAway(r) \/ Refuse(r)
  <2>1. PICK err \in {OtherError, Undecodable} : Respond(r, err, {}) /\ UNCHANGED added
    BY <1>3 DEF TurnAway, Refuse
  <2> DEFINE answer == [err |-> err, list |-> {}]
  <2>2. answer \in Answer /\ answer.err \in {OtherError, Undecodable}
    BY DEF Answer, OtherError, Undecodable
  <2>3. /\ requests' = requests \ {r}
        /\ UNCHANGED clientVars
        /\ response' = [response EXCEPT ![c] = answer]
    BY <2>1 DEF Respond
  <2> HIDE DEF answer
  <2>4. /\ result' = result /\ AbstractLate' = AbstractLate
        /\ AbstractCalls' = AbstractCalls
    BY <2>3, <2>2, AnswerImplements
  <2> QED
    BY <2>1, <2>4 DEF Peers!peerVars
<1>4. ASSUME NEW err \in {NoError, NodeAlreadyAdded, NodeNotAdded},
             NEW list \in SUBSET (Nodes \cup {None}), Respond(r, err, list),
             list = IF r.method = "get" THEN added[r.to] ELSE {},
             added' = [added EXCEPT ![r.to] = Peers!After(@, r.method, r.node)]
      PROVE  Peers!TakeEffect(c)
  <2> DEFINE answer == [err |-> err, list |-> list]
  <2>1. /\ requests' = requests \ {r}
        /\ UNCHANGED clientVars
        /\ response' = [response EXCEPT ![c] = answer]
    BY <1>4 DEF Respond
  <2>2. answer \in Answer /\ answer.err \notin {OtherError, Undecodable} /\ answer.list = list
    BY DEF Answer, OtherError, Undecodable, NoError, NodeAlreadyAdded, NodeNotAdded
  <2> HIDE DEF answer
  <2>3. /\ result' = result /\ AbstractLate' = AbstractLate
        /\ AbstractCalls[c] # None
        /\ AbstractCalls[c] = CallOf(r, FALSE, {})
        /\ AbstractCalls' = [AbstractCalls EXCEPT ![c] = CallOf(r, TRUE, list)]
    BY <2>1, <2>2, AnswerImplements
  <2>4. /\ ~AbstractCalls[c].done
        /\ AbstractCalls[c].daemon = r.to
        /\ AbstractCalls[c].method = r.method
        /\ AbstractCalls[c].node = r.node
    BY <2>3 DEF CallOf
  <2> QED
    BY <1>4, <2>3, <2>4 DEF Peers!TakeEffect, CallOf
<1>5. CASE Execute(r)
  <2>1. CASE r.method = "get"
    <3>1. Respond(r, NoError, added[r.to]) /\ UNCHANGED added
      BY <1>5, <2>1 DEF Execute
    <3>2. added[r.to] \in SUBSET (Nodes \cup {None})
      BY <1>1, <1>2
    <3>3. added' = [added EXCEPT ![r.to] = Peers!After(@, r.method, r.node)]
      BY <1>1, <1>2, <2>1, <3>1 DEF Peers!After
    <3> QED
      BY <1>4, <2>1, <3>1, <3>2, <3>3
  <2>2. CASE r.method = "add"
    <3>1. /\ Respond(r, IF r.node \in added[r.to] THEN NodeAlreadyAdded ELSE NoError, {})
          /\ added' = [added EXCEPT ![r.to] = @ \cup {r.node}]
      BY <1>5, <2>2 DEF Execute
    <3>2. added' = [added EXCEPT ![r.to] = Peers!After(@, r.method, r.node)]
      BY <2>2, <3>1 DEF Peers!After
    <3> QED
      BY <1>4, <2>2, <3>1, <3>2
  <2>3. CASE r.method = "remove"
    <3>1. /\ Respond(r, IF r.node \in added[r.to] THEN NoError ELSE NodeNotAdded, {})
          /\ added' = [added EXCEPT ![r.to] = @ \ {r.node}]
      BY <1>5, <2>3 DEF Execute
    <3>2. added' = [added EXCEPT ![r.to] = Peers!After(@, r.method, r.node)]
      BY <2>3, <3>1 DEF Peers!After
    <3> QED
      BY <1>4, <2>3, <3>1, <3>2
  <2> QED
    BY <1>5, <2>1, <2>2, <2>3 DEF Execute
<1> QED
  BY <1>3, <1>5

\* Nobody waits for it: a late call takes effect or does not, or was never to take effect.
LEMMA LateImplements ==
    ASSUME ClientInv, NEW r \in requests, r.caller = None, TurnAway(r) \/ Refuse(r) \/ Execute(r)
    PROVE  (\E q \in AbstractLate : Peers!TakeLateEffect(q)) \/ UNCHANGED Peers!peerVars
<1> DEFINE call_ == [daemon |-> r.to, method |-> r.method, node |-> r.node]
<1>1. UNCHANGED clientVars /\ response' = response /\ requests' = requests \ {r}
  BY DEF TurnAway, Refuse, Execute, Respond
<1>2. AbstractCalls' = AbstractCalls /\ result' = result
  BY <1>1 DEF clientVars, AbstractCalls, AbstractCall, Done
<1>3. CASE r.login # Owner[r.to]
  <2>1. added' = added
    BY <1>3 DEF TurnAway, Refuse, Execute
  <2>2. LateRequests' = LateRequests
    BY <1>1, <1>3 DEF LateRequests, Abandoned
  <2> QED
    BY <1>2, <2>1, <2>2 DEF Peers!peerVars, AbstractLate
<1>4. CASE r.login = Owner[r.to]
  <2>1. call_ \in AbstractLate /\ AbstractLate' = AbstractLate \ {call_}
    BY <1>1, <1>4, LateRequestHandled DEF LateRequests, Abandoned
  <2>2. added' \in {added, [added EXCEPT ![r.to] = Peers!After(@, r.method, r.node)]}
    BY <1>4 DEF TurnAway, Refuse, Execute, Peers!After
  <2>3. call_.daemon = r.to /\ call_.method = r.method /\ call_.node = r.node
    OBVIOUS
  <2> HIDE DEF call_
  <2>4. Peers!TakeLateEffect(call_)
    BY <1>2, <2>1, <2>2, <2>3 DEF Peers!TakeLateEffect
  <2> QED
    BY <2>1, <2>4
<1> QED
  BY <1>3, <1>4

\* A daemon that starts again loses its list, and the calls that were still to reach it.
LEMMA RestartImplements ==
    ASSUME ClientInv, NEW d \in Daemons, RestartDaemon(d)
    PROVE  Peers!Restart(d)
<1>1. UNCHANGED <<call, nodeIP, result>> /\ added' = [added EXCEPT ![d] = {}]
  BY DEF RestartDaemon, clientVars
<1>2. ASSUME NEW c \in Callers
      PROVE  AbstractCall(c)' = AbstractCall(c)
  <2>1. CASE \E r \in Open(c) : r.to = d
    <3>1. response'[c] = [err |-> Undecodable, list |-> {}]
      BY <2>1 DEF RestartDaemon
    <3>2. response[c] = None
      BY <2>1, ClientAssumption DEF Open, ClientInv, OpenRequests
    <3>3. Done(c)' = FALSE /\ Done(c) = FALSE
      BY <3>1, <3>2 DEF Done
    <3> QED
      BY <1>1, <3>3, Zenon DEF AbstractCall
  <2>2. CASE ~ \E r \in Open(c) : r.to = d
    <3>1. response'[c] = response[c]
      BY <2>2 DEF RestartDaemon
    <3> QED
      BY <1>1, <3>1 DEF AbstractCall, Done
  <2> QED
    BY <2>1, <2>2
<1>3. AbstractCalls' = AbstractCalls
  BY <1>2 DEF AbstractCalls
<1>4. AbstractLate' = {q \in AbstractLate : q.daemon # d}
  <2>1. LateRequests' = {r \in LateRequests : r.to # d}
    BY DEF LateRequests, Abandoned, RestartDaemon
  <2> QED
    BY <2>1 DEF AbstractLate
<1> QED
  BY <1>1, <1>3, <1>4 DEF Peers!Restart

\* Every step is one of PeerCalls, or nothing to it.
LEMMA StepImplements == ClientInv /\ [Next]_vars => [Peers!Next]_(Peers!peerVars)
<1> SUFFICES ASSUME ClientInv, [Next]_vars
             PROVE  Peers!Next \/ UNCHANGED Peers!peerVars
  OBVIOUS
<1>1. CASE \E c \in Callers :
              \/ GetConfig(c) \/ SetCredentials(c) \/ SyncEnds(c)
              \/ \E d \in Daemons : Owner[d] = c /\ Visit(c, d)
  BY <1>1, SyncNodesStutters
<1>2. CASE \E c \in Callers : Call(c)
  <2>1. PICK c \in Callers, method \in Methods, node \in Nodes \cup {None} :
              RawRequest(c, method, node)
    BY <1>2 DEF Call, Methods
  <2>2. nodeIP[c] \in Daemons
    BY <2>1 DEF RawRequest, ClientInv, ClientTypeOK
  <2>3. Peers!Call(c, nodeIP[c], method, node)
    BY <2>1, RawRequestImplements
  <2> QED
    BY <2>2, <2>3 DEF Peers!Next, Methods
<1>3. CASE \E c \in Callers : Return(c) \/ ConnectionFails(c)
  BY <1>3, ReturnImplements, ConnectionFailsImplements DEF Peers!Next
<1>4. ASSUME NEW r \in requests, TurnAway(r) \/ Refuse(r) \/ Execute(r)
      PROVE  Peers!Next \/ UNCHANGED Peers!peerVars
  <2>1. CASE r.caller = None
    BY <1>4, <2>1, LateImplements DEF Peers!Next
  <2>2. CASE r.caller # None
    <3>1. r.caller \in Callers
      BY <2>2 DEF ClientInv, ClientTypeOK, Request
    <3> QED
      BY <1>4, <2>2, <3>1, DaemonImplements DEF Peers!Next
  <2> QED
    BY <2>1, <2>2
<1>5. CASE \E d \in Daemons : RestartDaemon(d)
  BY <1>5, RestartImplements DEF Peers!Next
<1>6. CASE UNCHANGED vars
  BY <1>6 DEF vars, clientVars, daemonVars, Peers!peerVars, AbstractCalls, AbstractCall, Done,
              AbstractLate, LateRequests, Abandoned
<1> QED
  BY <1>1, <1>2, <1>3, <1>4, <1>5, <1>6 DEF Next

\* The client, with daemons that turn requests away, lose them, repeat errors or execute what
\* has been given up, does what connectNode relies on (PeerCalls).
THEOREM ClientImplementsPeerCalls == Spec => ImplementsPeerCalls
BY InitImplements, StepImplements, ClientIsConsistent, PTL DEF Spec, ImplementsPeerCalls, Peers!Spec
=============================================================================
