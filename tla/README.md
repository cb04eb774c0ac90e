# Verification of the bitcoin controller

The bitcoin controller (`src/`) is a Kubernetes controller in Go.  For every custom
resource `BitcoinNetwork` it keeps a headless service and a stateful set with
`spec.nodes` bitcoin daemons, publishes the list of the daemons in the status, and tells
the daemons, by JSON RPC, which others to connect to.

This directory holds TLA+ modules that model the controller inside its cluster, TLC
configurations that check them on small instances, and TLAPS proofs of what holds for
every number of networks, workers and nodes.

* `tlc -config MCReplicasUsers.cfg MCReplicas` runs a configuration; `PROJECT.json`
  ("runs") says which module goes with which configuration and what each run asks.
* `tlapm ReconProofs.tla` checks the proofs of a module; all the modules with proofs are
  named `...Proofs`.
* `PROJECT.json` ("map") leads from every definition to the lines it models.

## The system

| component | code | state | operations |
|---|---|---|---|
| work queue and workers | `controller.go` 168-177, 201-219, 550-569; client-go's `workqueue` | the three collections of the queue, the key of each worker | `enqueue`, `Get`, `Done`, `workerMainLoop` |
| informers and handlers | `controller.go` 61-74, 112-157, 179-199; `main.go` 68-93; generated informers and listers | four caches, events on their way | first list, watch, resync; `AddBitcoinNetwork`, `UpdateBitcoinNetwork`, `UpdateObject`, `handleObject` |
| reconciliation | `controller.go` 221-409, 483-548 | local variables of `doRecon` | `createHeadlessService`, `createStatefulSet`, `updateStatefulSet`, `updateNetworkStatus` |
| peering | `controller.go` 411-481 | what is still to be called | `syncNodes`, `connectNode` |
| RPC client | `bitcoinclient.go` | its configuration, the requests under way | `GetConfig`, `RawRequest`, `AddNode`, `RemoveNode`, `GetAddedNodes` |
| credentials | `secrets.go`, `controller.go` 464-475 | none | `CredentialsForSecret` |
| informer factories | generated `factory.go`, `bitcoinnetwork.go` | the informers by type, which of them run | `InformerFor`, `Start` |
| process | `main.go`, `controller.go` 201-219 | the stop channel | `main`, `NewController`, `Run`, signal handler |
| API types, generated clients, fakes, manifests, build scripts | `internal/apis`, `internal/generated`, `deployments`, `build`, `travis` | | |
| *outside:* cluster | - | networks, services, stateful sets, pods, secrets, the added node lists of the daemons | users, garbage collector, stateful set controller, kubelets |

How they interact:

    cluster --watch--> caches --event--> handlers --key--> queue --key--> workers
       ^                  |                                                  |
       |                  +------------------ listers --------------------> doRecon
       +---- create / update / status / calls to the daemons --------------- |

The informers run on goroutines of their own and change a cache before the handler is
called; five workers run `doRecon`, which reads the caches and writes to the API server
and to the daemons, one call after the other; nothing locks any of this but the queue.

What is hard in it, with the lines, is the list "hazards" in `PROJECT.json`.  In short:

* *Exclusion.*  Nothing keeps two workers off the same network but the queue.
* *Stale copies.*  `doRecon` works on cached copies of four kinds, each old by another
  amount.  The API server refuses an update of a copy that is too old; a refusal is only
  logged.
* *No retries.*  Nothing is repeated after an error.  Only the resync of the informers
  (15 and 30 seconds) leads back to a network.
* *Peering is triggered by the status.*  The daemons are called only when the node list
  differs from the status.  What goes wrong between the two is never noticed again.
* *Restarts.*  The process keeps nothing; the caches fill one by one.
* *Sharing.*  All workers use one RPC client, and pointers into one cache.
* *Daemons that hang.*  The HTTP client has no timeout.
* *Deletion.*  Three kinds of it, all seen late.

What makes each component correct:

* queue: every request is taken by exactly one worker, none is lost, doubled or starved;
* handlers: a change of a network always leads to a reconciliation that sees it;
* reconciliation: service, stateful set and status converge to the spec; an older spec
  never overwrites a newer one; what is deleted stays deleted;
* peering: the ready daemons of a network are connected to each other and to no other
  address;
* RPC client: what is taken for done has been done, on the daemon that was meant;
* process: workers begin when everything they rely on is there, and a signal ends it.

## The modules

| module | models | composed of |
|---|---|---|
| `Keys` | the keys of networks | |
| `ReconScheduler` | abstract: what the controller needs of queue and workers | |
| `WorkQueue` | `enqueue`, `workerMainLoop` and the queue between them | `Keys`; refines `ReconScheduler` |
| `HungCalls` | the workers when daemons accept a request and never answer | `WorkQueue` |
| `Cluster` | objects in the API server, pods, daemons, and who changes them besides the controller (external) | `Keys` |
| `Informers` | caches, events, handlers, cache sync, resync | `Cluster`, `WorkQueue` |
| `Recon` | `doRecon` and everything it calls | `Informers` |
| `BitcoinController` | the process in its cluster: next-state relation, fairness, properties | `Recon` |
| `PeerCalls` | abstract: what `connectNode` needs of RPC client and daemons | |
| `RPCClient` | `bitcoinclient.go`, `syncNodes` as its user, the daemons behind it (external) | refines `PeerCalls` |
| `SharedInformers` | the process from `main` to its end, the informer factories, the objects in the cache | |
| `MCWorkQueue`, `MCReplicas`, `MCMesh`, `MCRPCClient`, `MCSharedInformers` | instances for TLC | |
| `WorkQueueProofs` | proofs about the queue | `WorkQueue` |
| `ControllerProofs` | proofs that the controller uses the queue as it should, and loses no wake-up | `BitcoinController`, `WorkQueueProofs` |
| `ReconProofs` | proofs about what the workers do to the cluster | `ControllerProofs` |
| `MeshProofs` | proofs about the controller in a cluster that is in order | `MCMesh`, `ReconProofs` |
| `RPCProofs` | proofs about the client | `RPCClient` |
| `SharedInformersProofs` | proofs about start-up and the shared cache | `SharedInformers` |

`BitcoinController` uses the queue itself, and of the other two groups what they promise:
a call to a daemon is answered or fails, and the caches are those that `SharedInformers`
shows the workers to have.  Of what `PeerCalls` allows it leaves out the late calls: a
request that was given up, and is executed by the daemon after others, can remove a node
that has been added since.  What is said below of a failing call does not cover that.

Operators that are introduced by "Bug:" or "Bugs:" are no part of the specification.
Each changes one definition the way a slip in the code would; they show that the property
they belong to (list "mutants") does notice it.

### State and steps against the code

* `queue`, `dirty`, `processing` are the fields of client-go's queue type.  `held[w]` is
  `obj` of `workerMainLoop`.  `Get` and `Done` are its two calls, `Add` is `enqueue`.
  `doRecon` returns false only for a key that cannot be split; `enqueue` builds its keys
  with `MetaNamespaceKeyFunc`, so that return does not occur and `Done` always follows.
* `net`, `svc`, `sts` are the objects in the API server, by the key of the network; names
  of dependents are derived from the name of the network, so one key serves for all.  An
  owner reference is the `uid` of the owner, 0 if there is none.  Instead of a resource
  version, an update is refused when the object in the server is not equal to the copy it
  was computed from.  An object that has changed and changed back would be refused by the
  real server and is not by the model; for the network, `version` keeps that from
  happening to the spec.
* `pods[n][i]` is the pod `<n>-sts-<i>`; its address is `Absent` until it has one.  A node
  list has one optional entry per ordinal: the code appends the entries in the order of
  the ordinals, so comparing functions is comparing slices with `DeepEqual`.
* `added[ip]` is what the daemon at `ip` returns for `getaddednodeinfo`, `login[ip]` the
  credentials it was started with, `secret[n]` what is in the secret of the network.  A
  user or password of 0 is the default one; a missing secret, one that lacks a key, and a
  network that names none are told apart only by which parts are 0.  `config[w]` is what
  `CredentialsForSecret` has found.  A daemon turns away who has other credentials than its
  own: status 401 with an empty body, which the client cannot decode.
* Spec.Nodes may be negative: the node list is empty then, and the server refuses a
  stateful set with that number.
* `bcLister` ... `podLister` are the caches; `events` are notifications between cache and
  handler.  A set is enough: a handler only passes on the name.  Services and stateful
  sets have the same handler, so their events are of one kind, "object".  An event may
  still be there after it was handled: that is another of the same name.
* `pc[w]` and the variables after it are the control point and the locals of `doRecon`.
  Each call to the API server or to a daemon is a step, each read of a cache whose result
  is used by a later call is a step.  The reads of the pods in `updateNetworkStatus` are
  one step: the watches of different pods are independent of each other in the model, so
  a pod that changes between two reads is the same as a watch that comes a little later.
  A step that reads a cache and then makes the call it decides on (service, stateful set)
  is one step because only the server decides on the effect of the call.
* Checks in the code that the listers can never make true (an error other than "not
  found" from a cache, lines 517 and 527 and 382; a nil namespace lister, 373) have no
  counterpart, nor have events, logging, the pod template and the names of nodes.
* A call whose reply is lost after it took effect needs no step of its own: every error
  is only logged, so it leaves behind what a call that succeeded does.
* `Crash` is the end of the process at any point and its start with empty caches.  The
  end by a signal, which `SharedInformers` models, is one of them for the cluster: `main`
  returns without waiting for its workers.
* In `RPCClient`, `configs` are the values of type `Config`, one of them the client's, and
  `config[c]` says which one caller c refers to.  `requests` is a set of messages; a
  request whose caller has got an error from the transport goes on without a caller, and
  the daemon executes it, or does not.  What `RawRequest` makes of a response is an error
  code: none, one of the two the client knows, another, or a body that is not JSON.
* In `SharedInformers`, pointers are numbers.  `informers` and `startedInformers` are the
  fields of the factory, `informer` all informers that were ever made.  `heap` holds the
  objects the cache, the workers and their copies point to.  Both factories are modelled
  by the one of this repository.
* In `HungCalls`, `stuck` are the networks with a daemon that hangs.  Whether a pass calls
  that daemon at all is not in the module, so a worker with such a network never comes
  back - the worst case.

`applied`, `unread`, `issued`, `version` and `faults` are not in the code.  `applied[n]` is the
version of the spec behind the replicas of the stateful set; `unread` the networks whose
cached version no worker has read yet; `issued` the addresses used so far; `version`
counts, for a bound; `faults` are the disturbances so far, each a kind and a number, for a
bound and for the properties that hold in spite of some of them.

## Properties and runs

| run | instance | asks | distinct states |
|---|---|---|---|
| `work_queue` | 4 networks, 3 workers, 2 networks may hang | `QueueTypeOK`, `ExclusiveRecon`, `NoKeyStranded`, `NoRequestLost`, `RequestsAreTaken`, `ImplementsScheduler` | 17 k |
| `replicas_safety` | 1 network, 2 workers, 2 versions of the spec, background and foreground deletion, a restart or a failing API call | `TypeOK`, `NoLostWakeup`, `SpecVersionMonotone`, `ImplementsScheduler` | 1.3 M |
| `replicas_users` | 1 worker, -1, 0 or 2 nodes; the spec changed, or the network deleted, its dependents orphaned or left to the garbage collector, and created again; nothing fails | `ReplicasConverge` | 252 k |
| `replicas_disturbed` | 1 worker, -1, 0 or 2 nodes, foreground and background deletion, two disturbances among foreign scaling, failing API calls and restarts | `ReplicasConverge`, `DeletionCompletes`, `NothingLeftBehind` | 253 k |
| `mesh_disturbed` | 2 pods, 3 addresses that are reused, readiness reported; a pod lost or unready, a container or the controller restarted, or a failing API call | `TypeOK`, `StatusConverges`, `LinksSurvive`, `PeersConverge`, `SettledIsLeftAlone` | 217 k |
| `mesh_scaled` | 2 nodes, a third one asked for and given up again, nothing fails | `StatusFitsSpec`, `MeshConverges` | 75 k |
| `mesh_started` | both pods are started, a call to a daemon fails or the secret is replaced meanwhile | `LinksSurvive` | 466 k |
| `rpc_calls` | 2 workers, 1 daemon each, 1 request that was given up | `CallsAreOwn`, `ImplementsPeerCalls` | 236 k |
| `shared_informers` | 2 workers, 3 versions of a network | `WorkersReadFedCaches`, `SeenWasPublished`, `StartupCompletes`, `SignalEnds` | 12 k |
| `mesh_crash` | 2 pods, one restart of the controller | `LinksConverge`: violated | |
| `mesh_rescaled` | 2 nodes, scaled to 1 and back, nothing fails | `MeshSurvivesScaling`: violated | |
| `mesh_foreign` | a pod of another network waits for an address, one change of the spec, nothing fails | `NoForeignPeers`: violated | |

Each property is stated in words above its definition.

**Bounds.**  `NodeCounts`, `Secrets`, `Ordinals`, `IPs`, `MaxVersion`, `MaxFaults` bound the data;
`Activity` and `FaultKinds` name what may go on in a run and what may go wrong.  One
network is enough for what concerns a network alone, as networks share nothing but the
queue and the workers, and the queue is checked with four and proved for any number;
what networks do share, addresses, is the question of `mesh_foreign`.
Two versions of the spec are the least that can be confused (an old and a new one), three
let it return to what it was; two nodes are the least that can be connected, three leave
two to be connected while one comes and goes (`mesh_scaled`), three addresses let a pod
be replaced by one with a new address while the old one is still listed.  Two workers are
the least that could get in each other's way; where liveness is checked there is one, as
a second one can only help while the first is busy with another network.  In the runs of
`MCReplicas` there are no pods: the stateful set does not depend on them, and the node
list is always empty.  The runs of `MCMesh` begin with a network that is in order.
`MaxStuck` is less than the number of workers: with as many hanging daemons as workers,
each of another network, the controller does stop.  `MaxLate` bounds the requests that
were given up; `MaxVersion` in `SharedInformers` the updates of the one network.

**Deadlock** is checked everywhere; a resync is always possible once the caches are
filled, so what the check could find is a start-up that hangs.  The exception is
`shared_informers`, where the process ends.

**Fairness.**  Each assumption is about somebody who does keep going: the informers list,
watch and call handlers (client-go's reflectors retry for ever), the resync timer of the
bitcoin network informer fires (`main.go:69`), each worker goroutine runs on and its
calls return (`wait.Until`, `controller.go:214`), the cluster collects garbage, starts,
stops and readies pods.  All of it is weak fairness.  Nothing is assumed of users and
disturbances, nor of the resync of the dependents and of their update events.

That calls return is an idealisation for calls to the daemons, as the HTTP client has no
timeout (`bitcoinclient.go:117`).  `HungCalls` does without it: there a worker is fair only
as long as its network does not hang, and `RequestsAreTaken` holds for the others, because
a network never occupies more than one worker.  `SharedInformers` assumes that `main` and
the workers run on and that the API server answers the first lists.

**Conditions.**  Some properties say what holds in spite of some disturbances, and name
those in their premise (`Disturbances`).

* `LinksSurvive`: any two ready daemons are linked in one direction at least, after a
  failing call to a daemon or a change of the secret while they are started
  (`mesh_started`), or an unnoticed restart of a container (`mesh_disturbed`).  It excludes
  a restart of the controller (`mesh_crash` shows why) and failing API calls, and daemons
  that have other credentials than the secret.
* `PeersConverge`: the lists are complete and without stale entries after a pod was
  replaced or unready; it excludes a pod that takes over the very address of its
  predecessor between two looks at it, for which the node list does not change.
* Both allow for one disturbance in all (`Cardinality(faults) <= 1`) and a spec that does
  not change.  Two are too many: when the containers of two linked daemons restart
  unnoticed, both have forgotten each other and nobody tells them again.
* `MeshConverges`: complete lists for every two nodes that the spec has not given up once
  it asked for them, if nothing goes wrong but refusals of outdated copies.  For nodes that
  are given up and asked for again it does not hold: `mesh_rescaled`.
* `SettledIsLeftAlone` is about what changes, and about what is asked for besides the
  update of the status.  That update is sent in every pass, whether the list differs or
  not (`controller.go:404`); the server does not make a new version of an object that is
  as it was, so it wakes nobody.

Copies get old in every way but one: the first list of an informer is what the server
holds at that moment.  client-go asks for it with resource version 0, which a server that
lags behind may answer with an older state.  After such an answer an older spec could be
applied over a newer one for a while, and `SpecVersionMonotone`, with its theorem, rests
on the assumption that this does not happen.

### What the violated properties show

Three statements of the comments and of the repository's README do not hold of the code.
They have one root: `syncNodes` is called when the node list differs from the status, and
not when the daemons differ from the node list (`controller.go:544`).

* `mesh_crash`: a second pod becomes ready; the worker writes the status, then the
  controller ends.  After its restart the status is right, so no pass calls the daemons:
  they never hear of each other, in either direction.
* `mesh_rescaled`: a user scales from two nodes to one and, before the status is written,
  back to two.  The update of the status is refused, as the network has changed; the
  worker removes the second node from the list of the first all the same.  Its pod has not
  been stopped yet, and now never will be.  The next node list equals the status that was
  not overwritten, so nobody adds the second node again.
* `mesh_foreign`: a user scales from two nodes to one while the second pod becomes ready.
  A worker with the older spec computes a node list with two nodes; its update of the
  status is refused because of the change, and it calls the daemons all the same.  Then
  the second pod is stopped.  The next node list has one node, as the status has, so
  nobody removes the address of the second pod from the list of the first; a pod of
  another network gets it, and the two networks stay linked.

For the same reason one failing call leaves a link in one direction only for good;
`LinksSurvive` is what remains.

## Proofs

TLC checks small instances; the theorems are about every value of the constants that the
assumptions of the modules allow.  Every invariant, every action property and every
refinement that a passing run checks is proved:

| property | theorem | module |
|---|---|---|
| `QueueTypeOK`, `ExclusiveRecon`, `NoKeyStranded`, `NoRequestLost` | `QueueTypeCorrect`, `ReconIsExclusive`, `KeysAreNotStranded`, `RequestsAreNotLost` | `WorkQueueProofs` |
| `ImplementsScheduler` | `QueueImplementsScheduler`, of the whole controller `ControllerImplementsScheduler` | `WorkQueueProofs`, `ControllerProofs` |
| `NoLostWakeup` | `WakeupsAreNotLost` | `ControllerProofs` |
| `TypeOK` | `TypesAreCorrect`, `MeshTypesAreCorrect` | `ReconProofs`, `MeshProofs` |
| `SpecVersionMonotone` | `SpecsAreAppliedInOrder` | `ReconProofs` |
| `StatusFitsSpec` | `StatusesFit`, `MeshStatusesFit` | `ReconProofs`, `MeshProofs` |
| `SettledIsLeftAlone` | `SettledStaysAlone` | `MeshProofs` |
| `CallsAreOwn` | `NoCallGoesAstray` | `RPCProofs` |
| `ImplementsPeerCalls` | `ClientImplementsPeerCalls` | `RPCProofs` |
| `WorkersReadFedCaches`, `SeenWasPublished` | `WorkersAreFed`, `WorkersSeeWhatWas` | `SharedInformersProofs` |

### The assumptions

They are stated where the constants are declared, and TLC evaluates them in every run.

* `NoKeyAssumption`: `NoKey` is not a network.
* `ClusterAssumption`: the kinds of the bounds, and that `Absent` is neither an object nor
  an address.  `Ordinals` is finite, because the model counts pods.
* `ClientAssumption`: every daemon belongs to one caller, and `None` is none of the things
  it stands for the lack of.
* `SharedAssumption`: finitely many workers (there are five), and there is a status.

Two theorems have a premise of their own, `SettledConstants` and `MeshConstants`, since
`InitMesh` is a particular cluster: there must be as many ordinals and addresses as it has
nodes.  `MCMeshDisturbed.cfg` satisfies both, the other configurations of `MCMesh` the
second.

### The queue and its use

`WorkQueueProofs` is about `QueueSpec`.  The inductive invariant
`QueueInv` is the conjunction of the four checked ones.  None of them is inductive alone:
that a key in the queue is in nobody's hands (`ExclusiveRecon`) needs that the queue
holds exactly the dirty keys not in processing (`NoRequestLost`), which needs that each
is there once, and that processing is what the workers hold (`NoKeyStranded`).  There is
one lemma per operation; two lemmas on sequences (`AppendWaiting`, `TailWaiting`) say
what `Append` and `Tail` do to the elements of a sequence.  The refinement of
`ReconScheduler` follows from the invariant: `Get` maps to `Start` only because nobody
else holds the head of the queue.

`ControllerProofs` is about `Spec` of the whole controller.

* `ControllerUsesQueue`: every step of the controller is a step of `QueueSpec` or leaves
  the queue alone.  With it all results about the queue hold of the controller.
* `WakeupsAreNotLost`: `NoLostWakeup` is an invariant.  The proof goes by the groups of
  steps: those of the cluster change none of its parts; those of the informers only add
  events, and an event for everything they make unread; a handler turns an event into a
  dirty key; `Begin` turns a dirty key into a worker at "fetch", which reads it.  Where
  the worker comes from "fetch", it is the one that takes the network out of `unread`.

### What the workers do to the cluster

`ReconProofs` has three inductive invariants; the second and the third rest on the first.

* `TypeInv`.  `TypeOK` is not inductive: a worker at "service" reads the fields of the
  network it has fetched, one at "peers" puts the address of a ready node among those it
  will call.  What is missing is that a worker past "fetch" has a network and a key
  (`AtWork`), and that a node which is ready has an address, in the cluster, in the cache
  and in the list a worker has computed (`ReadyHaveAddress`).  That `faults` is finite is
  needed to know that its cardinality, which numbers the disturbances, is a number.
* `VersionsInOrder`.  A worker writes from an old copy; that it never writes something
  older than what is there follows from a chain: the version the replicas were last set
  from is at most the one any worker on this network has read, that at most the cached
  one, that at most the one in the API server.  When a worker sets the replicas, its own
  version becomes the first link; the chain survives only because no other worker has
  read an older version of the same network, which is `ExclusiveRecon`, taken from the
  queue.  A restart empties the two middle links.  A network that has been deleted drops
  the last one; what is created afterwards has a higher version.
* `NodeListFits`: the node list a worker is about to publish ends before the number of
  nodes in the copy it was computed from.  The server accepts it only if that copy is
  still the network, so the status fits the spec at that moment.

`MeshProofs`: `SettledInv` says that, as long as nothing but the controller has been
disturbed, the API server holds what `InitMesh` put there, each cache that has been filled
holds the same, workers run only once all four are filled, and what a worker has read is
what there is.  It is the third part the property rests on: a worker that ran earlier
would take a network, a stateful set or pods for missing, and the comparisons in `doRecon`
would not hold.  A restart empties the caches and stops the workers at once.  That a worker
asks for nothing but to write the status follows in each state (`SettledHasNothingToAsk`);
that this write changes nothing is the lemma `SameStatus`.

### The RPC client

`RPCProofs`: `ClientInv` says who owns which configuration (`OwnConfig`: nobody writes to
the client's own, and every caller to the one only he refers to), that the configuration
of a caller who is at a daemon names that daemon, one of his network (`OwnDaemon`), that a
request somebody waits for is the one his call sent, and was sent to that daemon with
those credentials (`OpenRequests`), and that an answer belongs to a call (`Answers`).

For the refinement, a call is done in the abstract when the daemon has sent a response that
`connectNode` will take for done, even if that response is then lost; a request that was given up is
a late call.  One that was sent with wrong credentials is none: the daemon will turn it
away, and a mapping that counted it would let a late call disappear where the daemon
has executed another one.  Requests, and so late calls, are a set: two that are alike
count as one, whose repetition changes nothing, as adding and removing are idempotent.

### Start-up and the shared cache

`SharedInformersProofs`: `SharedInv` says that there is one informer for each type, the
one all uses refer to (`OneInformer`), that `NewController` has asked for all of them when
it ends (`Requested`), that only what runs is filled (`Fed`), that the workers were
started when all four were filled (`StartedLate`), and that everything in the cache or in
the hands of a worker has been published (`Seen`).  The step that could break the last is
`SetStatus`, which writes to an object: it has to be one nobody else refers to.  The lemma
`NewIsFree` shows that there always is one for the copy, by counting: n workers and the
cache refer to 2n + 1 objects at most, of which there are more.

### Only model-checked

Everything under fairness, since the prover does not do `ENABLED`: `RequestsAreTaken`,
`ReplicasConverge`, `DeletionCompletes`, `NothingLeftBehind`, `StatusConverges`,
`LinksSurvive`, `PeersConverge`, `MeshConverges`, `StartupCompletes`, `SignalEnds`.

## Not modelled

* Service account and permissions; bodies of requests and responses; the body of a
  response is never closed (`bitcoinclient.go:164`), which costs connections, not steps.
* A change of `spec.secret`; what the controller does is what it does after a change of
  the secret itself.
* The factory's options, `ForResource` and `WaitForCacheSync`, and the verbs of the
  generated clientset that the controller never uses.
* Event recording, logging, pod template, generated code, fakes, tests, build and CI.

## Plan

Done: the queue with its proofs, the cluster, the informers, the reconciliation and the
peering, their composition and the first proofs about it; then credentials, negative
numbers of nodes, restarting containers, reused addresses, the RPC client with its
abstract specification, calls that hang, the informer factories, start and stop.

Then the proofs of all that the runs check without fairness.

Next: what the properties under fairness rest on and is itself no liveness - that an
object of a deleted network is never taken for one of its successor by the garbage
collector, that no daemon is called but one of a node list a worker has read, that an
address is in the list of a daemon only if some worker has read it as that of a node of
this network - stated as invariants, checked, and proved.
