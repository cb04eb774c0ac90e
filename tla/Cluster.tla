------------------------------- MODULE Cluster -------------------------------
(***************************************************************************)
(* The Kubernetes cluster as the controller uses it: the objects in the    *)
(* API server, and those who change them besides the controller - users,   *)
(* the garbage collector, the stateful set controller, the kubelets - and  *)
(* the bitcoin daemons in the pods.  None of it is code of the repository  *)
(* except the types in internal/apis/bitcoincontroller/v1.                 *)
(*                                                                         *)
(* An object carries no resource version: an update is refused when the    *)
(* object it was computed from is not the object in the server any more.   *)
(* Two versions with the same content are not told apart.                  *)
(***************************************************************************)
EXTENDS Keys, Integers, FiniteSets

CONSTANTS NodeCounts,   \* values of Spec.Nodes, a number that nobody validates
          Secrets,      \* what a secret with credentials may hold
          Ordinals,     \* ordinals of the pods the cluster has room for
          IPs,          \* addresses pods can get
          MaxVersion,   \* bound on the versions of the spec of one network
          Activity,     \* what goes on in a run besides the creation of networks
          FaultKinds,   \* the kinds of disturbance a run allows ...
          MaxFaults,    \* ... and how many of them in all
          Absent        \* "no such object"

\* Credentials are a user and a password, 0 is the default of either.  A secret may
\* lack a key - that is 0 - and a missing secret is like one that lacks both.
Login == [user : Nat, password : Nat]
DefaultLogin == [user |-> 0, password |-> 0]

VARIABLES net,          \* the BitcoinNetwork objects
          svc,          \* the headless services, by the network they are named after
          sts,          \* the stateful sets, by the network they are named after
          pods,         \* pods[n][i] is the pod <n>-sts-<i>
          secret,       \* what the secret that Spec.Secret names holds
          added,        \* added[ip] is the added node list of the daemon at ip
          login,        \* login[ip] is what the daemon at ip accepts
          issued,       \* addresses that have been given to a pod
          version,      \* how many versions of the spec of a network there have been
          faults        \* the disturbances there have been: kind and number

daemonVars == <<secret, added, login>>
clusterVars == <<net, svc, sts, pods, daemonVars, issued, version, faults>>

\* The address of a pod is Absent - the empty string - until it is given one.
Pod == [ip : IPs \cup {Absent}, ready : BOOLEAN]

\* A node list: the list of BitcoinNetworkNode, which has one entry per ordinal,
\* in order, as a function.  NodeName and DNSName follow from the ordinal.
NodeList == [Ordinals -> Pod \cup {Absent}]
EmptyList == [i \in Ordinals |-> Absent]

\* uid tells incarnations of a name apart, version the specs (metadata.generation).
BitcoinNetwork == [uid : Nat, version : Nat, nodes : Int,
                   deleting : BOOLEAN, status : NodeList]

\* The controller reference names the uid of the owner; 0 is "no owner".
Service == [owner : Nat]
StatefulSet == [owner : Nat, replicas : Nat, ready : Nat]

ASSUME ClusterAssumption == /\ NodeCounts \subseteq Int
                            /\ Secrets \subseteq Login
                            /\ MaxVersion \in Nat
                            /\ MaxFaults \in Nat
                            /\ Ordinals \subseteq Nat
                            /\ IsFiniteSet(Ordinals)
                            /\ Absent \notin BitcoinNetwork \cup Service \cup StatefulSet \cup Pod
                            /\ Absent \notin IPs

InitCluster == /\ net = [n \in Networks |-> Absent]
               /\ svc = [n \in Networks |-> Absent]
               /\ sts = [n \in Networks |-> Absent]
               /\ pods = [n \in Networks |-> EmptyList]
               /\ secret = [n \in Networks |-> DefaultLogin]
               /\ added = [ip \in IPs |-> {}]
               /\ login = [ip \in IPs |-> DefaultLogin]
               /\ issued = {}
               /\ version = [n \in Networks |-> 0]
               /\ faults = {}

\* A disturbance of the given kind happens in this step.
Disturb(kind) ==
    /\ kind \in FaultKinds
    /\ Cardinality(faults) < MaxFaults
    /\ faults' = faults \cup {<<kind, Cardinality({f \in faults : f[1] = kind}) + 1>>}
-----------------------------------------------------------------------------
\* Users.

UserCreate(n) ==
    /\ net[n] = Absent
    /\ version[n] < MaxVersion
    /\ \E k \in NodeCounts :
         net' = [net EXCEPT ![n] = [uid |-> version[n] + 1, version |-> version[n] + 1,
                                    nodes |-> k, deleting |-> FALSE, status |-> EmptyList]]
    /\ version' = [version EXCEPT ![n] = @ + 1]
    /\ UNCHANGED <<svc, sts, pods, daemonVars, issued, faults>>

UserScale(n) ==
    /\ "scale" \in Activity
    /\ net[n] # Absent
    /\ version[n] < MaxVersion
    /\ \E k \in NodeCounts \ {net[n].nodes} :
         net' = [net EXCEPT ![n].nodes = k, ![n].version = version[n] + 1]
    /\ version' = [version EXCEPT ![n] = @ + 1]
    /\ UNCHANGED <<svc, sts, pods, daemonVars, issued, faults>>

\* Background deletion: the network is gone at once, its dependents are left to
\* the garbage collector.
UserDelete(n) ==
    /\ "delete" \in Activity
    /\ net[n] # Absent
    /\ net' = [net EXCEPT ![n] = Absent]
    /\ UNCHANGED <<svc, sts, pods, daemonVars, issued, version, faults>>

\* Deletion that orphans the dependents: they lose their controller reference.
Owned(obj, n) == obj[n] # Absent /\ net[n] # Absent /\ obj[n].owner = net[n].uid
Orphaned(obj, n) == IF Owned(obj, n) THEN [obj EXCEPT ![n].owner = 0] ELSE obj

UserOrphan(n) ==
    /\ "orphan" \in Activity
    /\ net[n] # Absent
    /\ net' = [net EXCEPT ![n] = Absent]
    /\ svc' = Orphaned(svc, n)
    /\ sts' = Orphaned(sts, n)
    /\ UNCHANGED <<pods, daemonVars, issued, version, faults>>

\* Foreground deletion: the network stays, with a deletion timestamp, until its
\* dependents are gone.
UserDeleteForeground(n) ==
    /\ "foreground" \in Activity
    /\ net[n] # Absent
    /\ ~net[n].deleting
    /\ net' = [net EXCEPT ![n].deleting = TRUE]
    /\ UNCHANGED <<svc, sts, pods, daemonVars, issued, version, faults>>

FinishDelete(n) ==
    /\ net[n] # Absent
    /\ net[n].deleting
    /\ ~Owned(svc, n)
    /\ ~Owned(sts, n)
    /\ net' = [net EXCEPT ![n] = Absent]
    /\ UNCHANGED <<svc, sts, pods, daemonVars, issued, version, faults>>

\* Somebody scales the stateful set behind the back of the controller.
UserScaleSts(n) ==
    /\ sts[n] # Absent
    /\ Disturb("scale")
    /\ \E k \in (NodeCounts \cap Nat) \ {sts[n].replicas} :
         sts' = [sts EXCEPT ![n].replicas = k]
    /\ UNCHANGED <<net, svc, pods, daemonVars, issued, version>>

\* Somebody replaces the secret, or a part of it.  The daemons keep what they have.
UserChangesSecret(n) ==
    /\ Disturb("secret")
    /\ \E new \in Secrets \ {secret[n]} : secret' = [secret EXCEPT ![n] = new]
    /\ UNCHANGED <<net, svc, sts, pods, added, login, issued, version>>
-----------------------------------------------------------------------------
\* The garbage collector removes what belongs to a network that does not exist
\* (any more), or that is being deleted in the foreground.

Collectable(obj, n) == /\ obj[n] # Absent
                       /\ obj[n].owner # 0
                       /\ Owned(obj, n) => net[n].deleting

CollectService(n) == /\ Collectable(svc, n)
                     /\ svc' = [svc EXCEPT ![n] = Absent]
                     /\ UNCHANGED <<net, sts, pods, daemonVars, issued, version, faults>>

CollectStatefulSet(n) == /\ Collectable(sts, n)
                         /\ sts' = [sts EXCEPT ![n] = Absent]
                         /\ UNCHANGED <<net, svc, pods, daemonVars, issued, version, faults>>
-----------------------------------------------------------------------------
\* The stateful set controller and the kubelets.

HasPod(ip) == \E n \in Networks, i \in Ordinals : pods[n][i] # Absent /\ pods[n][i].ip = ip
HasReadyPod(ip) == \E n \in Networks, i \in Ordinals : pods[n][i] = [ip |-> ip, ready |-> TRUE]
UsedIPs == {ip \in IPs : HasPod(ip)}
Wanted(n, i) == sts[n] # Absent /\ i < sts[n].replicas

\* Addresses are interchangeable: it makes no difference which new one a pod gets.
NewIP == IF issued = IPs THEN {} ELSE {CHOOSE ip \in IPs : ip \notin issued}
AvailableIPs == IF "reuse" \in Activity THEN IPs \ UsedIPs ELSE NewIP

\* Pods are created in the order of their ordinals, each when the ones before it
\* are ready.
StartPod(n, i) ==
    /\ Wanted(n, i)
    /\ pods[n][i] = Absent
    /\ \A j \in Ordinals : j < i => pods[n][j] # Absent /\ pods[n][j].ready
    /\ pods' = [pods EXCEPT ![n][i] = [ip |-> Absent, ready |-> FALSE]]
    /\ UNCHANGED <<net, svc, sts, daemonVars, issued, version, faults>>

\* A daemon starts at the address, with the credentials it finds in the secret and
\* without added nodes; or the one there is gone.
StartDaemon(ip, credentials) ==
    /\ added' = [a \in IPs |-> IF a = ip THEN {} ELSE added[a]]
    /\ login' = [a \in IPs |-> IF a = ip THEN credentials ELSE login[a]]
    /\ UNCHANGED secret

\* The pod runs on a machine and has an address.
PodGetsAddress(n, i) ==
    /\ pods[n][i] # Absent
    /\ pods[n][i].ip = Absent
    /\ \E ip \in AvailableIPs :
         /\ pods' = [pods EXCEPT ![n][i].ip = ip]
         /\ StartDaemon(ip, secret[n])
         /\ issued' = issued \cup {ip}
    /\ UNCHANGED <<net, svc, sts, version, faults>>

\* Scale down, deletion of the stateful set, eviction, failure of the machine.
StopPod(n, i) ==
    /\ pods[n][i] # Absent
    /\ IF Wanted(n, i) THEN Disturb("podlost") ELSE UNCHANGED faults
    /\ StartDaemon(pods[n][i].ip, DefaultLogin)
    /\ pods' = [pods EXCEPT ![n][i] = Absent]
    /\ UNCHANGED <<net, svc, sts, issued, version>>

PodBecomesReady(n, i) ==
    /\ pods[n][i] # Absent
    /\ pods[n][i].ip # Absent
    /\ ~pods[n][i].ready
    /\ pods' = [pods EXCEPT ![n][i].ready = TRUE]
    /\ UNCHANGED <<net, svc, sts, daemonVars, issued, version, faults>>

\* The readiness probe fails, but the daemon keeps running.
PodBecomesUnready(n, i) ==
    /\ pods[n][i] # Absent
    /\ pods[n][i].ready
    /\ Disturb("unready")
    /\ pods' = [pods EXCEPT ![n][i].ready = FALSE]
    /\ UNCHANGED <<net, svc, sts, daemonVars, issued, version>>

\* The container restarts in its pod: same address, a new daemon.
RestartDaemon(n, i) ==
    /\ pods[n][i] # Absent
    /\ pods[n][i].ip # Absent
    /\ Disturb("restart")
    /\ pods' = [pods EXCEPT ![n][i].ready = FALSE]
    /\ StartDaemon(pods[n][i].ip, secret[n])
    /\ UNCHANGED <<net, svc, sts, issued, version>>

\* The stateful set controller reports the number of ready pods.
ReportReady(n) ==
    LET ready == Cardinality({i \in Ordinals : pods[n][i] # Absent /\ pods[n][i].ready})
    IN  /\ "report" \in Activity
        /\ sts[n] # Absent
        /\ sts[n].ready # ready
        /\ sts' = [sts EXCEPT ![n].ready = ready]
        /\ UNCHANGED <<net, svc, pods, daemonVars, issued, version, faults>>
-----------------------------------------------------------------------------
\* The objects in the API server are of their types, there or Absent.
ClusterTypeOK ==
    /\ net \in [Networks -> BitcoinNetwork \cup {Absent}]
    /\ svc \in [Networks -> Service \cup {Absent}]
    /\ sts \in [Networks -> StatefulSet \cup {Absent}]
    /\ pods \in [Networks -> NodeList]
    /\ secret \in [Networks -> Login]
    /\ added \in [IPs -> SUBSET IPs]
    /\ login \in [IPs -> Login]
    /\ issued \subseteq IPs
    /\ version \in [Networks -> 0 .. MaxVersion]
    /\ faults \subseteq FaultKinds \X (1 .. MaxFaults)
=============================================================================
