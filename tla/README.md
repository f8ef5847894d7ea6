# TLA+ specifications of bmc

This directory holds the specifications of [spidernet-io/bmc](../src), a
Kubernetes operator that discovers, watches and operates servers through their
baseboard management controllers (BMCs). A *controller* deployment turns each
`ClusterAgent` object into an *agent* pod; every agent runs a DHCP server,
makes one `HostStatus` object per BMC it finds, keeps the health of those
objects up to date over Redfish, and executes `HostOperation` objects (power
on, off, reset, PXE reboot).

Paths below are relative to the repository; line numbers are in `PROJECT.json`
("map"), one entry per definition.

## 1. Inventory

| part | state it keeps | operations | interacts with |
|---|---|---|---|
| dhcpd supervision (`pkg/dhcpserver/server.go`, `monitor.go`, `cmd/agent/main.go`) | `s.cmd`, `s.waitDone`, `s.mutex`, the dhcpd process | `Start`, `Stop`, the goroutine of `Start`, `monitor` | main on start and on SIGTERM; event channels to DHCP discovery |
| lease polling (`monitor.go: updateStats`) | `s.previousClients`, statistics | diff of two polls | unbuffered `addChan`, `deleteChan`, held under `s.mutex` |
| DHCP discovery (`pkg/agent/hoststatus/dhcp.go`) | the event in hand, retry goroutines | add, delete, retry | API server, informer cache |
| HostStatus controller (`HostStatusReconcile.go`, `manager.go`, `tools.go`) | work queue, `hostStatusLock` | `Reconcile`, periodic update, `UpdateSecret` | BMCs, API server, `HostCacheDatabase` |
| `HostCacheDatabase` (`data/cache.go`) | connection data and credentials per host | `Add`, `Delete`, `Get`, `GetAll`, `UpdateSecet` | shared by three controllers and the ticker |
| Secret controller (`pkg/agent/secret`) | work queue | `Reconcile` | `UpdateSecret` of the HostStatus controller |
| HostOperation (`pkg/agent/hostoperation`, `pkg/webhook/hostoperation`, `pkg/redfish/power.go`) | work queue, `status` of the object | admission, `Reconcile`, `Power` | `HostCacheDatabase`, BMC, API server |
| HostEndpoint webhook and controller (`pkg/webhook/hostendpoint`, `pkg/agent/hostendpoint`) | work queue; nothing in the webhook | defaults, uniqueness of addresses; a HostStatus per HostEndpoint in two calls | informer lists, API server |
| fixed-IP bindings and the dhcpd configuration (`pkg/dhcpserver/tools.go`, `monitor.go`) | `lastBoundIPList`, `dhcpd.conf` | `checkHostStatusForFixedIPs`, `generateConfig` | `HostCacheDatabase`, dhcpd |
| lease file (`tools.go: GetDhcpClients`) | none | parse while dhcpd writes | `updateStats` |
| ClusterAgent controller (`pkg/controller/clusteragent`, `pkg/controller/template`) | `r.cache`, work queue, 60 s timer | create resources, `updateStatus`, clean up | API server, owner-reference garbage collector |
| ClusterAgent webhook (`pkg/webhook/clusteragent`) | none | `Default`, `validateClusterAgent` | CRD schema, before and after it |
| agent configuration (`pkg/agent/config`) | loaded once | `LoadAgentConfig` and its checks | ClusterAgent, Secret, node interface |
| Redfish client (`pkg/redfish`) | `CacheClient` map | connect, `GetInfo`, `GetLog`, `Power` | BMCs |
| template text, CRD types, generated clients, lock, log | - | - | - |

What is hard here: goroutines that read shared fields outside the lock that
protects them; two-step writes (create, then status) to an API server that may
refuse or lose either; decisions taken from an informer cache that lags; retries
that come back out of order; actions on a machine whose record may be lost; a
shutdown that waits for a mutex held during channel sends. `PROJECT.json`
("hazards") lists each at its line with the properties that watch over it.

What makes each part correct:

* supervision: never two dhcpd processes on one interface, no runtime panic from
  a channel closed twice, no process forgotten, a dead dhcpd comes back, a
  shutdown ends;
* discovery: HostStatus objects follow the leases, a complete status is never
  lost, no event blocks the pipeline;
* HostOperation: no operation forgotten, none reported as done that was not,
  none repeated without a cause, every one ends;
* HostStatus synchronisation: changed credentials reach every host, the health
  shown converges to the truth, the cache follows the objects;
* HostEndpoints: a static host gets one HostStatus that shows its address, two
  hosts do not share an address;
* bindings: dhcpd serves one complete set of reservations, each part of which was
  wanted when it was read, follows the hosts, reserves the static ones and frees
  what is released; every leased address is found in the lease file, half-written
  blocks and lines included;
* ClusterAgent: what is admitted can be loaded by the agent, resources are
  restored, nothing of a live object is deleted, nothing of a dead one stays.

## 2. Modules

| module | models | run by |
|---|---|---|
| `DhcpServer` | supervision of dhcpd | `DhcpServer.cfg`, `DhcpServerRace.cfg` |
| `DhcpDiscovery` | lease file to HostStatus | `DhcpDiscovery.cfg`, `DhcpDiscoveryBlank.cfg`, `DhcpDiscoveryReorder.cfg` |
| `HostOperation` | admission, reconcile, power, status | `HostOperation.cfg`, `HostOperationFailed.cfg` |
| `OperationSpec` | abstract specification: what a user may rely on | refined by `HostOperation` |
| `HostStatusSync` | credentials and health | `HostStatusSync.cfg`, `HostStatusSyncSecret.cfg` |
| `AgentSpec` | a ClusterAgent's spec through schema, webhook and agent: pure operators | through `ClusterAgent` |
| `ClusterAgent` | the ClusterAgent controller and the agent it deploys | `ClusterAgent.cfg` with `ClusterAgentMC` |
| `HostEndpoint` | HostEndpoint webhook and controller | through `StaticHosts` |
| `DhcpBindings` | the reservations of dhcpd | through `StaticHosts` |
| `BasicInfo` | the record the two share | |
| `BindingSpec` | abstract specification: what dhcpd may serve | refined by `StaticHosts` |
| `LeaseFile` | `GetDhcpClients` and its reference: pure operators | through `StaticHosts` |
| `StaticHosts` | composition of `HostEndpoint`, `DhcpBindings` and `LeaseFile` | `StaticHosts.cfg`, `BindDhcpOnly.cfg` with `StaticHostsMC` |
| `DhcpServerProofs`, `DhcpDiscoveryProofs`, `HostOperationProofs`, `HostStatusSyncProofs`, `ClusterAgentProofs`, `StaticHostsProofs`, `LeaseFileProofs` | theorems | TLAPS |

A `.cfg` gives the constants; where their values are records or functions an MC
module defines them. Definitions commented
"Mutant:" are the faulty variants of the definition that follows them; they show
that a property depends on that definition (`PROJECT.json`, "mutants") and are
used nowhere else.

### DhcpServer

`cmd`, `waitDone` and `mutex` are the fields of `dhcpServer`; the n-th call of
`Start` makes channel n and command n, so that identity of channels and commands
is kept and their content is not. `Start` runs under the mutex from the first
to the last line and is one step with three outcomes (failure before `s.cmd` is
assigned, failure after, success). The goroutine it leaves behind is three
separate steps, because it reads `s.cmd` and `s.waitDone` without the mutex:
`Launch`, `Reap` (`Wait` returns), `CloseWaitDone`. `Stop` is split where it
waits: `StopTerm`, then `StopDone` or `StopTimeout`, with the mutex held.
The monitor is split where it blocks or reads shared fields: the tick with
`updateStats`, the event sends, line 34 (is there a process?), line 37 (probe).
A nil dereference and a double close are steps that set `panic`, after which
the agent takes no step. Signal 0 and SIGTERM succeed on a zombie and fail with
`ErrProcessDone` once `Wait` has reaped the process.

`Prompt` is the one scheduling assumption: with `Prompt = TRUE` the goroutine of
a `Start` launches dhcpd before the monitor next looks at `s.cmd`, and a goroutine
past `Wait` closes its channel before the monitor's next `Start`. The ticker
period is three seconds and both are a few instructions, so this is the normal
case; the code does not enforce it, and `DhcpServerRace.cfg` shows what happens
without it. The fixed-IP check enters as a nondeterministic wish to restart
("rebind").

Nothing stops the monitor goroutine: `stopChan` has no sender, so after main's
`Stop` the next tick finds no process and starts dhcpd again while the agent is
shutting down, although the comment of `Stop` (`server.go:287`) says "1. Signals
the monitoring routine to stop". The model has this step; `OneDhcpd`,
`NoDoubleClose`, `NilOnlyAtExit` and `ShutdownCompletes` hold through it, and
nothing is claimed of the dhcpd that is left behind.

### DhcpDiscovery

`lease` is the lease file as `GetDhcpClients` reads it, `prev` is
`s.previousClients`. One poll computes its events (`Changed`, `Removed`) and
sends them one by one; the consumer handles one event at a time. Each read of
the informer cache happens with the receipt of the event, each API call is a
step of its own and may fail: with a transient error, with NotFound or
AlreadyExists, or with a conflict when the `resourceVersion` read is not the
current one. A retryable failure puts the event into `retries`, from where it
comes back in any order; any other failure drops it. `Label` models that
`Update` ignores a status change. A `Restart` loses everything but the lease file
and the objects.

### HostOperation

The worker reads operations and hosts from informer caches (`cachedOp`,
`cachedHost`), takes the connection from `HostCacheDatabase` (`conn`), operates the
systems behind the BMC one by one (`Power`) and writes the status. The API server
refuses a value outside the CRD's enumeration and a write from a stale copy; a
transient error may hide a write that took place. An operation whose reconcile
returns an error or `RequeueAfter` stays in the queue. `resets` counts, up to
`Many`, how often a system was operated for an operation.

A HostStatus is made by two calls, so it can be `blank`: it exists and its
`status.clusterAgent` is still empty. `Reconcile` then compares that with the
agent's name (`controller.go:61`), takes the operation for another agent's and
returns nil: the operation leaves the queue, and no event of the HostStatus brings
it back (`passed`). What does is the informers' resync, every ten hours
(`Resync`): no `SyncPeriod` is set, so controller-runtime's default applies, and
every object of the cache is handed to the controller again, changed or not.
A resync may come while the worker has the operation in hand, or has written
its status and the watch has not brought it yet. The worker then reads the old
status and operates the machine a second time although nothing has failed.

The properties say what is left. `RepeatHasCause`: a repeated operation was
`disturbed` (a failed call, a restart in the middle, or such a resync) or is
deleted; lag of the caches, late HostStatuses and retries for want of connection
data do not repeat one. `NotForgotten`: an operation without a final status is
queued, in work, on its way by the watch, or was dropped over a blank HostStatus.
`OpsComplete`: even the last gets a final status, by the resync, unless the
host goes or never gets a status. An operation on a BMC that always fails is
tried for ever (see `host_operation_failed`): `MaxFaults` bounds the failures, so
`OpsComplete` says that operations end once calls succeed.

`OperationSpec` is what remains for a user: a request is free, open, done or
withdrawn and has a host while it exists; systems are operated for it. Nothing is
operated before it is asked for or for a host of another agent, a request is
completed only when all systems have been operated, its host never changes and
nothing is undone. `HostOperation` implements it with `request <- Seen` (the
object as the API server shows it) and `operated <- Operated` (`resets > 0`). A
request that is withdrawn may still be carried out: the worker does not look again
once it has started.

### HostStatusSync

Three goroutines - the HostStatus worker `rec`, the Secret worker `sec`, the
periodic update `tick` - probe BMCs and write the status, one at a time under
`hostStatusLock` (`Connect`, `Read`, `Write`). Between probes they share
`HostCacheDatabase` (`entry`) and the agent's configuration (`config`).
`UpdateSecet` writes the entries under a *read* lock and `UpdateSecret` the
configuration under none, so a concurrent reader gets the old value, the new one
or `Torn`. Versions of the one Secret are numbers; `BmcVersion` is the one the
BMCs accept. What `GetInfo` returns is abstracted to "some info or none".

### AgentSpec and ClusterAgent

A manifest passes the CRD's structural defaults, `Default`, the patch that
results from marshalling (`Marshal`: a zero value tagged `omitempty` is removed),
the defaults again, the schema's bounds and `validateClusterAgent`. An absent
field is `Unset`; a DHCP configuration is named for what is wrong with it. The
agent's own checks (`ValidateEndpointConfig`, `ValidateFeatureConfig`) are
translated separately, so that "what is admitted can be loaded" compares two
pieces of code.

`ClusterAgent` has one name, which may be deleted and created again with a new
uid. `Reconcile` reads the informer cache (`view`); every API call is a step and
may fail, which puts the request back. `res` holds the owner's uid per
resource, so deletion by name and deletion by owner reference can be told apart.
`createOrUpdateResources` walks a Go map, hence any order; `cleanupResources`
a fixed one. `hasResourcesMissing` and `updateStatus` get typed objects through the
manager's client, which answers from informer caches: `shown` is what those say
of the resources, and `Observe` brings a change to it; only the cache of
Deployments, which the controller owns, queues a request. `CreateOrUpdate`
(`controller.go:189`) works on unstructured objects, which that client does not
cache: `Apply` sees the resources as they are. The agent
boots when all its resources exist and the stored spec loads, and keeps the
spec it loaded. Three behaviours of the code appear as they are:

* `CreateOrUpdate` is called with a mutate function that does nothing
  (`controller.go:189`), so what exists is never updated: an edited spec does not
  reach the Deployment, although `controller.go:141` says "creates or updates all
  resources for a ClusterAgent". `AgentComesUp` therefore leaves out specs edited
  under their Deployment (`edited`);
* `status.ready` is tagged `omitempty` and defaults to true in the schema: once
  true, or once written at all, it never becomes false;
* `https: false` and `enableDhcpServer: false` are removed by the webhook's patch
  and defaulted to true again. Only the chart's own ClusterAgent, created by a
  hook before the webhooks exist, keeps them (`HelmSpecs`).

### HostEndpoint

The webhook decides from lists that may lag: `Missed` is any subset of the holders
of the address. `Default` asks the client to Get into a nil object when an agent
is named and no Secret is given, an error in every case (`DefaultFails`). The
controller makes a HostStatus with `Create` (`CreateStatus`) and
`Status().Update` (`FillStatus`); a failure or restart between them leaves it blank
for ever (`cut`), because the later `Update` does not reach the status
subresource. It watches HostEndpoints only, so a lost HostStatus comes back at
the ten-hour resync or a restart (`Resync`). `raced` marks a name admitted while
a holder of its address was missed.

### DhcpBindings, BindingSpec, StaticHosts

`generateConfig` and `checkHostStatusForFixedIPs` fill one map in two loops, over
the DHCP clients and over the static hosts, which override them under the virtual
hardware address (`DhcpPart`, `StaticPart`, `Merge`). Each loop takes the lock of
`HostCacheDatabase` for itself, so the hosts may change in between: `half` is
what the first has read. `Check` and `Compare` are the two reads of the check,
`Generate` and `WriteConfig` those of a restart; the launch is one more step. `conf`
is the file, `dhcpd` what the process has loaded. A write may fail before the file
is opened, in the middle (`Spoilt`) or after. dhcpd refuses a file with a host
that has no hardware address (`Loads`).

Both loops are guarded by `EnableBindStaticIP`. `Documented` is written from
`doc/usage/dhcp.md` instead: DHCP clients are bound with `EnableBindDhcpIP`, static
hosts with `EnableBindStaticIP`. With `EnableBindDhcpIP` alone the code binds
nothing, which `BindDhcpOnly.cfg` shows; with `EnableBindStaticIP` alone it binds
the DHCP clients as well. `Converges` compares what dhcpd serves with `Documented`
and therefore asks that the two options agree; the run also has
`EnableBindStaticIP` alone, for the other properties.

`BindingSpec` is the promise of one writing: `have` is `Down` or one complete file,
whose DHCP part was wanted when the writing began (`taken`) and whose static part
when it ended, and a file is never written under a running dhcpd. It does not
promise that both parts were wanted at one moment: they need not have been.
`StaticHosts` implements it with `dynamic` and `static` for the two parts in the
subnet and `have <- dhcpd`. That a mixed set does not stay is `StaleIsNoticed`
and `Converges`. `StaticHosts` adds `CacheHost`, the step of the HostStatus
controller that carries a HostStatus into `HostCacheDatabase`, and the restart of
the agent as a whole, after which no address is reserved until the first tick
(main starts dhcpd before the controllers fill the cache). A blank HostStatus
is passed over by `CacheHost`, so it keeps a stale entry of its name alive;
`ReleasedIsFree` leaves such names out.

### LeaseFile

A line is a record of the test of the parser it meets and the value taken from it.
`Scan` is the loop: the list of clients and the client in hand after each line.
A file is a sequence of complete blocks, some lines of a further one, and what there
is of the next line (`Torn`): nothing, something no test meets, or the keyword with
a part of its value (`Cut`), which may be empty or happen to be another address.

`ReadsLeases` compares `GetDhcpClients` and the map of `updateStats` with the blocks:
every *leased* address (its last block says "active") is reported with the hardware
address of that block, nothing is reported that has no block, and only for the
block that is not finished may the hardware address be missing or partial. When
the `lease` line itself is torn, the part of the address that is there is reported
as a client, until the next poll.

The converse does not hold, and no property says it does: an address whose last
block is `free` or `abandoned` is still returned, until dhcpd rewrites its file.
`GetDhcpClients` sets `Active` (and overwrites it from the "next binding state"
line), but nothing reads it. `tools.go:275` and `monitor.go:66` speak of active
clients, and `doc/usage/dhcp.md:18` says that a release deletes the HostStatus. In
`DhcpDiscovery` a lease ends when its address leaves the list.

## 3. Runs

| run | result | shows |
|---|---|---|
| `dhcp_server` | pass | `OneDhcpd`, `NoDoubleClose`, `NilOnlyAtExit`, `StopReaps`, `ShutdownCompletes`, `DhcpdKeepsRunning` over all interleavings of two faults, one rebind and a shutdown |
| `dhcp_server_race` | violation of `OneDhcpd` | with `Prompt = FALSE` and no fault two dhcpd processes run |
| `dhcp_discovery` | pass | `NoSilentDivergence`, `FilledStays`, `EventsDrain` with errors, stale reads, concurrent writers and a restart |
| `discovery_blank` | violation of `BlankIsHealed` | one failed status update leaves a HostStatus blank for ever |
| `discovery_reorder` | violation of `ReleasedIsDeleted` | a retried add overtaken by the delete recreates the object |
| `host_operation` | pass | `ImplementsOperations` (refinement), `SuccessIsTrue`, `RepeatHasCause`, `NotForgotten`, `OpsComplete` |
| `host_operation_failed` | violation of `FailedIsReported` | the status `failed` is refused by the CRD (`failure`) |
| `host_status_sync` | pass | `SecretsApplied`, `MismatchIsPending`, `HealthConverges`, `EntriesFollow` |
| `cluster_agent` | pass | `AdmittedLoads`, `CacheRemembers`, `NoLostWakeUp`, `NeverDeletesLive`, `ResourcesRestored`, `CleanedUp`, `AgentComesUp` with failing calls, deletions behind the controller's back, crashes of the agent and restarts |
| `static_hosts` | pass | `ImplementsBindings` (refinement), `StaleIsNoticed`, `Converges`, `StatusShowsEndpoint`, `AddressHeldOnce`, `FollowsEndpoint`, `StaticIsReserved`, `ReleasedIsFree`, `LeasesRead` |
| `secret_stale` | violation of `SecretTakesEffect` | old credentials written back over a Secret update |
| `bind_dhcp_only` | violation of `DhcpIsBound` | `EnableBindDhcpIP` alone binds no address |

The six violations are disagreements between the code and its documents; each
has an entry under "findings" with the line that is contradicted. Three more are
described above and have no run: the monitor that outlives `Stop`, edited
ClusterAgents that are not applied, and released leases that stay listed. The passing
runs state the strongest form that does hold: `NoSilentDivergence` leaves out
addresses whose events met an error, a stale read or a restart (the history
variable `suspect`), `SecretsApplied` the one window of `secret_stale` (`raced`),
`OneDhcpd` assumes `Prompt`, `RepeatHasCause` excuses untimely resyncs (`disturbed`) and
`NotForgotten` operations dropped over a blank HostStatus (`passed`),
`CacheRemembers` excuses entries lost to a failed call
or a restart (`forgot`), `AgentComesUp` specs edited under their Deployment
(`edited`), `AddressHeldOnce` admissions from a lagging list (`raced`),
`FollowsEndpoint` and `StaticIsReserved` a status update that failed (`cut`), and
`Converges`, `StaticIsReserved` and `ReleasedIsFree` sets dhcpd refuses (`Loads`).
Each of these exceptions marks a weakness of the code.

### Bounds

* `DhcpServer`: five `Start`s allow the boot, a restart after a crash, a restart
  by a rebind, and a failed `Start` and its repetition; two faults allow a crash
  during a restart. The proofs remove these bounds for the safety properties.
* `DhcpDiscovery`: one address and two MACs (handlers of different addresses
  share nothing but the queue), three lease changes (grant, hand over, release),
  one API error, one foreign write, one restart.
* `HostOperation`: one operation (the worker handles one at a time and shares
  nothing between them; the proofs are for any number), a host of this agent and one
  of another, two systems per BMC so that a failure can fall between them, two
  faults, so that a retry meets one too, and three changes of HostStatuses
  (`MaxChanges`): enough to delete one and bring it back blank and then with its
  status, in which time an operation may be dropped and found again. 387,000
  states.
* `HostStatusSync`: one host, one change of the Secret, one further event
  (failed call, object made or deleted, BMC up or down). The hosts are
  independent but for `hostStatusLock`, whose order of holders is arbitrary
  between the three goroutines.

* `ClusterAgent`: two writes of users (create and delete, then the garbage
  collector, or create and edit), two troubles (a fault in the cleanup and a
  restart), seven manifests and the chart's own object, `AGENT_IMAGE` unset. The
  resources are the Deployment, which is watched, and the PVC, which stands for
  those that are not: account and roles (`Access`, empty here) are handled like it,
  and the proofs have them all. 348,000 states.
* `StaticHosts`: two HostEndpoints and one lease, two addresses of which one is in
  the subnet, nine requests of which six are refused, two writes, one trouble.
  299,000 states. Lease files of up to two blocks and a part of a third: two
  addresses of which one is the beginning of the other, granted, moved to another
  client, released and abandoned; a cut leaves nothing, a part that is no value,
  or, of the longer address, the shorter one. `BindDhcpOnly` needs one lease and no
  HostEndpoint.

### Fairness

Weak fairness of goroutines, of the informers' watches (`HostSync` and `Observe`
included), of timers and of the
kernel (a signalled process ends only after SIGKILL; nothing is assumed of its
reaction to SIGTERM). The garbage collector, the kubelet that restarts a pod, the
60 s requeue and the ten-hour resyncs are timers or control loops of Kubernetes and
are weakly fair as well. Strong fairness where a step waits for a mutex, a channel
or a queue: `sync.Mutex` hands the lock to a starved waiter, Go queues blocked
senders, the work queue serves every key. No fairness of faults, users, leases,
signals to main or restarts.

## 4. Proofs

`DhcpServerProofs` proves, for every value of the bounds:

* `TypeCorrect`: `Spec => []TypeOK`, with or without `Prompt`;
* `SupervisionInvariant`: `Prompt` implies `Spec => []IInv`;
* `OneDhcpdAlways`, `NeverDoubleClose`: the two invariants;
* `StopAlwaysReaps`: the action property `StopReaps`;
* `PanicOnlyAtExit`: the invariant `NilOnlyAtExit`.

`OneDhcpd` is not inductive: nothing in it says that `Stop` has waited for the
right process when the monitor calls `Start`. `IInv` adds that

* `LastChannel`: `s.waitDone` is the channel of the newest `Start`, and no
  command or goroutine beyond it exists;
* `LastProcess`: a process that is not reaped is that of `s.cmd` and of the
  newest `Start`, whose goroutine waits for it;
* `LastGoroutine`: only the newest goroutine is unfinished, and its channel is
  still open;
* `Waiters`: a thread that waits in `Stop` holds the mutex and `s.cmd` is the
  newest command, with a process;
* `MonitorKnows`: no launch is pending while the monitor works, and no process is
  left when it calls `Start`.

The argument: a goroutine closes its channel only after `Wait`, `Stop` leaves
only after that close (`SeenMeansReaped`) or when the process is already reaped,
so at the next `Start` no process lives (`NoneLeft`); `Prompt` ensures that the
goroutine which has reaped has also closed. There is one lemma per group of
actions (`InvStart`, `InvGoroutine`, `InvStop`, `InvOthers`), combined in
`InvStep`. The assumptions are `DhcpServerAssumption` (bounds are naturals) and,
where stated, `Prompt`.

`NilOnlyAtExit` needs `ProbeKnows` on top of `IInv`: a monitor between line 34 and
line 37 that no longer finds a process was overtaken by main's `Stop`, which has
reaped that process. Nobody else can have taken `s.cmd` away, because the monitor
itself is the only other caller of `Stop` and `Start`. So the unlocked read costs
the agent at most the last lines of its shutdown.

`HostOperationProofs` proves, for any operations, hosts, systems and number of
faults, `TypeCorrect`, `SuccessIsAlwaysTrue`, `NeverForgotten` and
`RepeatAlwaysHasCause` from one inductive invariant (`OperationInvariant`).
`NotForgotten` needs that a new name is unknown to cache and worker (`Unborn`);
`SuccessIsTrue` that the systems not left in the worker's loop have been operated
(`Progress`); `RepeatHasCause` that an operation that was not disturbed is queued
only while the cache shows its current status, and that the worker's copy is the
object itself, so that its status update is accepted (`Once`, `InHand`). `Resync`
keeps these because it marks the one case that would break them. The only
assumption is `HostOperationAssumption`.

`OperationsRefine` proves `Spec => ImplementsOperations`. The step that is not
obvious is that of `Power`: the worker operates the host of its copy, and
`OperationSpec` speaks of the object's. `SameHost` says that the cache's and the
worker's copies have the host of the object and that the worker never holds an
operation on a foreign host. With it each action maps to `Ask`, `Withdraw`, `Operate`, `Complete` or a
stutter (`AskStep`, `WithdrawStep`, `OperateStep`, `CompleteStep`); `Complete` rests on
`Progress`.

`DhcpDiscoveryProofs` proves `TypeCorrect`, the action property `FilledStays`
(`FilledAlwaysStays`) and `NoSilentDivergence` (`NeverSilentlyDiverges`) for any
addresses, MACs and bounds. `FilledStays` needs that a copy with the object's
`resourceVersion` *is* the object, in the informer
cache and in the handler (`Copies`), that a name without an object has no status
(`NoStatus`) and that an update is made from an object that existed
(`SeenExists`). Type correctness needs `Pending`: an address waiting to be
reported has a client in the poll it is reported from. The lemma `HandleOutcome`
reduces the five writes of the handler to one shape, `Outcome`.

`NeverSilentlyDiverges` proves `NoSilentDivergence` with `DInv` on top of `IInv`. Of
every address the events have been received up to one client, `Handled`; it does
not move when a poll starts or ends, only when an event is received. Unless the
address is suspect, its object fits that client (`Followed`) or the handler is
about to make it fit (`InProgress`). The object of a released address must be known to
be complete (`Fits`): the next client may be the same one, for which the handler
does nothing. Retried events are of suspect addresses (`RetriesSuspect`).

`ClusterAgentProofs` proves, for any manifests, kinds of resources and bounds,
`TypesHold`, `AdmissionIsEnough` (`AdmittedLoads`), `LiveResourcesStay`
(`NeverDeletesLive`), `CacheIsComplete` (`CacheRemembers`) and `NeverAsleep`
(`NoLostWakeUp`):

* `TInv` = `TypeOK`, `Busy` (a worker that is not idle has a copy) and `AdmittedLoads`;
  the lemma `AdmitType` follows a manifest through the admission chain;
* `OInv` for `NeverDeletesLive`: uids are given once (`UidsGiven`), an object the
  informer has not shown yet owns nothing (`Unseen`), and during a
  cleanup no resource is of the live object (`CleanupSafe`). `Reconcile` is
  sequential and its cleanup started from a view without the object, so
  a new object's resources can only be made after it;
* `CInv` for `CacheRemembers`: while the worker is busy the entry is
  there, is about to be stored, or its resources are being deleted
  (`Remembered`, `Deleted`);
* `Watchful` for `NoLostWakeUp`, which speaks of the informer cache because it is
  the watch that makes requests: a ClusterAgent it shows is in work (`InWork`), queued
  or on the timer; one it no longer shows is queued, or `r.cache` has forgotten it and
  nothing is in work that could store it again.

`StaticHostsProofs` proves, for any HostEndpoints, leases, addresses, requests,
lists and bounds, `TypesHold`, `StatusIsTrue` (`StatusShowsEndpoint`), `OneHolder`
(`AddressHeldOnce`), `BindingsRefine` (`Spec => ImplementsBindings`),
`NeverSilentlyStale` (`StaleIsNoticed`) and `LeasesAlwaysRead` (`LeasesRead`).
`EndpointInv` adds to the types that uids are given once (`UidsGiven`) and that the
worker's copy agrees with the HostEndpoint of the same uid (`CopyAgrees`), and
`EndpointsApart`: live HostEndpoints of one address exist only if one of them was
admitted from a lagging list, from which `AddressHeldOnce` follows.
`LaunchFromDown` (dhcpd is down between `Generate` and `Launch`) is what the
refinement needs: each step of the monitor maps to `Begin`, `Write`, `Serve`, `Halt` or
a stutter, a change of the hosts to `Change`; `half` is the DHCP part taken while a
writing is under way. `Remembered` is what
`NeverSilentlyStale` needs: from the moment `generateConfig` has written the file until
the next one, the file (and a dhcpd launched from it) holds what `lastBoundIPList`
says, and nothing is in it while binding is switched off.

`LeaseFileProofs` proves `EveryFileIsRead`: `ReadsLeases` for every sequence of blocks,
every number of lines of a further one and everything that may be there of the line
after those. The argument goes by induction over
the lines and then over the blocks, which the prover supports only as least
counterexamples: `Least` takes the well-foundedness of the natural numbers from the
library (`WFMin`, a statement about a set, unlike the induction rules), `UpTo` is
the form the other proofs use.

* `ScanEquation`, `FlattenEquation`: the recursive functions `Scan` and that of
  `FlattenSeq` satisfy their equations;
* `ScanPrefix`: a longer file is read like its first lines, as far as they go;
* `BlockShape`: what the lines of a block have in common; `PartOfBlock`,
  `WholeBlock`: what the loop has made of a block in the middle and at the end;
* `BlocksRead`, `FileRead`: the list of clients `GetDhcpClients` returns;
* `TornLine`: what the loop makes of the line the file ends in; `FileRead` covers it;
* `LastWins`: the map of `updateStats` keeps the last client of an address.

The assumption is `LeaseFileAssumption`: the files are sequences of the blocks, and
`Absent`, which stands for a nil `currentClient`, is not a client.

`HostStatusSyncProofs` proves, for any hosts and any number of Secret changes and
events, `TypesHold`, `SecretsReachHosts` (`SecretsApplied`) and
`MismatchAlwaysPending` (`MismatchIsPending`). Type correctness needs
`Snapped`: what the periodic update has copied and not probed yet are entries, so
that no host is probed without credentials. `SInv` follows a Secret on its way: the
informer is not ahead of the API server (`Behind`), a worker without a pending
request has taken up the informer's version (`TakenUp`) and has copied it into
the configuration (`ConfigSet`); once nothing is on its way, what the HostStatus
worker is about to store is the Secret unless it is marked in `raced` (`InHand`), and
so is every entry it is not about to overwrite (`Applied`). `EInv` for
`MismatchIsPending` follows an object on its way into the cache: a host whose entry
and object disagree is `Pending`, and what the worker has in hand (`Handling`) exists
unless the watch still has to say so.

Only model-checked: the liveness properties (`ShutdownCompletes`,
`DhcpdKeepsRunning`, `EventsDrain`, `OpsComplete`, `HealthConverges`,
`EntriesFollow`, `Converges`, `FollowsEndpoint`, `StaticIsReserved`,
`ReleasedIsFree`, `ResourcesRestored`, `CleanedUp`, `AgentComesUp`): liveness under
fairness and `ENABLED` are out of the prover's reach. Some of them rest on an
invariant that is proved, which says that what must happen is always still on its way:
`NotForgotten` for `OpsComplete`, `MismatchIsPending` for `EntriesFollow`,
`NoLostWakeUp` for `ResourcesRestored` and `CleanedUp`, `StaleIsNoticed` for `Converges`.
Every invariant, action property and refinement of the passing runs is a theorem.

## 5. Plan

Done: supervision, discovery, HostOperation, HostStatus synchronisation,
HostEndpoints with bindings and leases, ClusterAgents (models, runs and proofs).
Left, in this order:

1. Redfish log events: `GenerateEvents` and the last log time.
2. An abstract specification of `DhcpServer` (down, up), implemented by the detailed
   one.

## 6. Not modelled

* What Redfish answers contain (`GetInfo`, `GetLog`), `GenerateEvents` and the log
  counters: data no decision of the agent depends on. `CacheClient` is an
  unsynchronised map; a fatal map error is the restart the models have.
* The address counts (`calculateTotalIPs`, statistics): they are only logged.
* `configureInterface` and the checks of `NewDhcpServer`: calls to the kernel whose
  failure ends the agent, which the models have as a failed `Start`.
* The text of the templates and of `dhcpd.conf`; `template/manager.go`, which
  nothing calls; `validateClusterName`; `GetDetailString`.
* Generated clients, informers and deep copies, the lock and log packages, the
  wiring of the two processes.
* A `Create` of a HostStatus that takes effect although the call returns an error: in
  `HostEndpoint` and `DhcpDiscovery` a failed `Create` creates nothing (a failed or
  lost *update* is modelled in `HostOperation`).
* The period of a resync: it may come at any time it is due, the ten hours
  between two are not counted.
* A second agent: it appears as the owner of foreign hosts and HostEndpoints.
