# Verification of cloud-vinyl

cloud-vinyl is a Kubernetes operator that runs clusters of Varnish (or Vinyl)
caches.  This directory holds TLA+ specifications of the parts of it whose
correctness depends on the order in which things happen, the TLC
configurations that check them on small instances, and TLAPS proofs of the
results that hold for every instance.  Paths such as `internal/agent/admin.go`
are relative to the repository (`src/`).

## Inventory

| Part | State | Operations | Interacts with |
|---|---|---|---|
| agent (`internal/agent`, `cmd/agent`) | none of its own but pending discard goroutines; varnishd's VCL table behind it | push, validate, active, ban, purge by xkey, health | varnishd by CLI, one connection per command; operator and proxy by HTTP; kubelet probes |
| controller, VCL rollout (`vcl_push.go`, `vcl_observe.go`, `status.go`, `Reconcile` steps 11-12) | the pass in progress; the persisted status | collect peers, generate, observe, push, record | agents, API cache, generator, proxy |
| controller, life cycle (`finalizer.go`, `service.go`, `statefulset.go`, ... `Reconcile` steps 1-9) | finalizer, owned objects, conditions | ensure finalizer, delete, pause, resolve runtime, apply objects | API server, catalog, proxy |
| debouncer (`debounce.go`) | time of the last endpoint event per cache | touch, remaining | EndpointSlice watch, Reconcile |
| invalidation proxy (`internal/proxy`) | routes, purge hosts, pod map, rate limiter | purge, ban, xkey; register, update, delete | Reconcile (`updateProxy`, `handleDeletion`), agents, varnishd |
| tracer (`internal/tracer`, `cmd/tracer`) | linker caches, parked transactions, export queue | parse, build, link, park, flush, batch, shut down | varnishlog, OTLP collector |
| admission (`internal/webhook`, `internal/catalog`) | none | default, validate, validate an update | API server, catalog |
| generator (`internal/generator`) | none | render a VCL from spec, peers and endpoints, hash it | Reconcile |

What is hard here: varnishd, the agent and the operator restart independently;
a push is three commands on three connections; the old VCL is discarded by a
goroutine five seconds later; readiness depends on the VCL and the VCL on
readiness; everything the operator decides on was read a moment earlier.  The
hazards are listed with their source lines in `PROJECT.json`, and the source
lines of every definition in its map.

## Modules

| Module | What it is |
|---|---|
| `AtomicPush` | what the push API promises: one instant of effect, or none |
| `VclAgent` | the agent and its varnishd, per pod, command by command |
| `VclConvergence` | the reconcile loop's rollout composed with `VclAgent` and the kubelet |
| `CacheLifecycle` | the rest of the reconcile loop: objects, finalizer, deletion, pause, debounce |
| `InvalidationProxy` | the proxy's tables, requests and broadcasts, with the worker that publishes |
| `Admission` | defaulting and validating webhooks, runtime catalog (operators) |
| `PodTemplate` | the StatefulSet's pod template (operators) |
| `Network` | Services, NetworkPolicies, ServiceMonitor (operators) |
| `VclData` | endpoints and the data of the VCL templates (operators) |
| `DesiredState` | the four above composed: edits, chart upgrades, endpoints, reconciliation |
| `SpanTree` | varnishlog's lines, the parser, and the spans of one group |
| `Linker` | the tracer's correlation of transaction groups |
| `Tracer` | the tracer process: supervisor, linker, queue, batcher, shutdown |
| `VclAgentProofs`, `VclConvergenceProofs`, `CacheLifecycleProofs`, `InvalidationProxyProofs`, `DesiredStateProofs`, `LinkerProofs` | theorems |
| `MCVclAgent`, `MCVclConvergence`, `MCCacheLifecycle`, `MCInvalidationProxy`, `MCDesiredState`, `MCLinker`, `MCTracer` | instances for TLC |

Operators whose comment begins with "Mutation" are plausible mistakes in the
code they stand next to.  `PROJECT.json` names the property each one breaks.

### VclAgent

`loaded[p]` and `active[p]` are varnishd's VCL table; `handler[p][s]` is a
`PushVCL` request in progress with its position in the command sequence, the
name `vcl.list` returned, and whether its context and its client are still
there; `discards[p][n]` counts the goroutines sleeping before `vcl.discard n`.
`ListActive`, `InlineVCL` and `UseVCL` are the commands of `PushVCL`
(`admin.go`), each with its failures: an error of the first is ignored, an
error of the others returns at once and undoes nothing.  A command fails before
it reaches varnishd (`CommandFails`) or after varnishd carried it out, when its
answer is lost (`AnswerLost`); between `vcl.use` and `ReadAnswer` the VCL serves
and the agent does not know it.  `Refusal` is how varnishd answers `vcl.inline`:
"Already a VCL named" comes before any compilation.

`AtomicPush` promises accordingly: "ok" only after the push took effect,
"already" only while varnishd has the name.  "error" tells the caller nothing:
the VCL may be loaded, and it may serve.

Faults are actions guarded by `Fault(kind)`: the configuration chooses the
kinds (`FaultKinds`) and their number (`MaxFaults`).  `varnishd` and `agent`
are container restarts, `ctx` the end of the handler's 30 s, `abandon` a client
that hangs up, `admin` a command that fails, `operator` a restart of the
operator, `status` a lost status write.

### VclConvergence

`rec` is the pass of `Reconcile`: `CollectPeers`, `Generate`, `Observe` (one
pod after the other), `BeginPush`, `Send`/`Receive`/`Timeout` (in parallel),
`FinishPass`.  `started` and `ready` are what the API cache says of the pods;
`Kubelet` brings them up to date, between two probes they are stale.  A VCL
name is a hash of the text, so a name is modelled by what the text depends on:
the content (spec and endpoints), the Ready pods, and the order they were
listed in.  The spec is read at the start of a pass and the endpoints later,
so `Generate` may use the content of either moment.  The debounce and the
requeue intervals are abstracted to "there is a next pass".

### CacheLifecycle

`pass` is a call of `Reconcile` with the copy of the cache it read (`pass.vc`)
and its place: `EnsureFinalizer`, `ResolveRuntime`, one `Apply` per object in
the order of `Plan`, `Debounce`, `UpdateProxy`, `Rollout`; or, when the copy is
being deleted, `DeleteSlices`, `Unregister`, `RemoveFinalizer`.  Any call may
fail (`CallFails`), an update of a cache that changed meanwhile conflicts, one
that the webhook refuses fails (`UpdateFails`; adding and removing the finalizer
are updates, a status update is not validated), and the operator may restart
between any two steps, with another address and another release: its catalog,
and the specs its rules refuse.  `obj[k]` has the owner of an object and what in it can go
stale.  `CollectGarbage` removes what an earlier cache owns; the invalidation
Service, the slice and the token Secret have no owner.  `seen` is whether the
informer knows the slice, which is what `deleteInvalidationEndpointSlices`
lists.  Kinds of objects that are handled alike are
one kind, and the rollout is a step that reads the endpoints and succeeds or
not, since `VclConvergence` details it.

### InvalidationProxy

`routes`, `hosts` and `podmap` are the three tables, each with its own lock; a
request reads them one after the other (`Lookup` and the steps after it) and
the worker writes them one after the other.  `req[cl]` is a request: its pods,
its broadcasts (one per purge host or key, in turn; within one, the pods in
parallel), what each pod answered, the deadline all of them share, and the
answer.  `log` is what pods carried out, whether or not the proxy heard of it:
a call that fails may have been carried out (`CallFails`).  A cache that is
`paused` keeps its route and its last pods, because `Reconcile` returns before
`collectPeers`.  A pod stands for its IP; that an IP may pass to a pod of another
cache before the map is updated is left out.
A count in a pod's answer may be missing (`Unknown`).  A client that hangs up
cancels the same context as the deadline.

### Admission, PodTemplate, Network, VclData, DesiredState

The first four are the functions the webhooks and the controller compute, as
operators of a spec; fields that are copied and that nothing else depends on
are left out.  Names and paths are sequences of the parts their uses tell
apart, ports are numbers, sizes MiB.  `DesiredState` lets a user create and
edit a cache field by field through `DefaultVinylCache` and the validators,
lets the chart change the catalog, endpoints and pods come and go, and
`Reconcile` derive Services, policies, pod template and VCL data.  Where the
code iterates over a map or lists objects, the order is any order.  The stored
object may be older than the rules (`LegacySpecs`); `admitted` says whether
today's webhooks saw it.

### SpanTree

The writer is varnishlog: it writes groups in preorder, may lose a line and may
end anywhere.  `byLevel` and `pending` are the parser's, `up` and `got` the tree
and the records it builds, `done` the groups returned with the spans
`BuildWithOutcome` makes of them.  A header, the records or the blank line after
a group may be lost.

### Linker

`fetches` and `restarts` are the two `vxidCache`s.  A cache is a map and a ring
with the same keys, so it is a set of entries, ordered by their position in the
ring; `Put` and `Lookup` are `set` and `get`.  `fate[g]` says what became of a
group: `parked` in the parking lot, `linked`, `plain` (no hit), or given up
(`warm`, `aged`, `evicted`, `flushed`).  `BeginBuild`, `RecordFetch`,
`RecordRestart` and `EndBuild` are one call of `Build`; the loops are steps, and
`call` keeps everything else out until the call is over.  What one group turns
into by itself (`BuildWithOutcome`) is an input, `Tx`.  The order of the
recordings inside one call is left open.

### Tracer

The main goroutine (`Spawn`, `Read`, `Build`, `Enqueue`, `ParserFails`, `Eof`,
`Backoff`, `FlushLinker`, `StopBatcher`, `Exit`) and the batcher's (`Take`,
`FlushTimer`, `Done`, `Drain`, `Export`) with the channel between them, a signal
at any moment, and a varnishlog that ends or fails to start.  After an error of
the parser (a line too long for its scanner) the supervisor sits in `cmd.Wait`
until varnishlog ends and reads nothing (`reap`).  `handed` counts how often a
span is passed to `ExportSpans`; `arrived` are the spans the collector has, once
or, since the OTLP exporters resend by default, more often.  The order in which the
spans of one call are enqueued is left open, and backoff durations are left out.

## Runs

| Run | Shows |
|---|---|
| `agent` | two overlapping pushes, all faults of the agent, lost answers included: `PushIsAtomic`, the refinement of `AtomicPush`; and a VCL is orphaned only by a fault, a context that ends before `vcl.use`, or a push that another overtook (`OrphansHaveCause`) |
| `converge_pod` | one pod, two content changes, also back and forth within the grace period, a varnishd restart, a VCL that does not compile, a validation: `Convergence`, `PushesStop`, no orphaned VCL (`NoOrphanVCL`), every superseded one discarded (`OldVCLDiscarded`) |
| `converge_cluster` | a cluster starting with nobody Ready while a push is cut off, given up on or refused, the operator restarts or a status write is lost: `NoShardToBoot`, `OnlyDesiredActivated`, and only an orphaned VCL keeps it from converging (`OnlyOrphansBlock`) |
| `lifecycle` | two lives of a cache with edits, pauses, failures, conflicts, refused updates, lagging informers, new releases and restarts: `FinalizerGuards`, `PushAdmitted`, `TokenStable`, `DeletionCompletes`, `Settles` |
| `proxy` | requests of every kind for two caches of one name in two namespaces, while caches, pods and the operator come and go and caches are paused: `OkMeansEveryPod`, `SentToNamedCache`, `CountIsConfirmed`, `RequestsAnswered`, `MapCatchesUp` |
| `desired_state` | up to three edits or changes around the cache: what is stored stays admissible (`ResubmitAdmitted`); ports, policies, mounts, volumes and directors fit together (`ProxyListenerAlone`, `Reachable`, `MountsSound`, `CacheFilesFit`, `DirectorsServed`); nothing changes without a reason (`TemplateStable`, `BackendsStable`) |
| `spantree` | every log of four transactions with a lost line: `GroupsApart`, `ReturnedOnce`, `SpansFormTree`, `CompleteGroupExact`, and the parser's levels are a path of its tree (`SpanTreeTypeOK`) |
| `linker` | a request restarted twice and two requests coalescing with its fetch, logged in any order, a lot and a clock that run out: `LinkedEitherWay`, `LinksMatchExports`, `RestartsShareTrace`, `MissesCounted` |
| `tracer` | the whole process with a full queue and parking lot and a signal at any moment: `NoSilentLoss`, `ExportedOnce`, `SignalEnds`, and the queue and the batch within their limits (`TracerTypeOK`) |

Three runs end in a counterexample.  Each contradicts a statement of the
repository, quoted in the findings of `PROJECT.json`.

| Run | What the code does |
|---|---|
| `refused_push` | `vcl.inline` succeeds, `vcl.use` fails.  The name is taken, every retry is answered "Already a VCL named", `pushVCL` counts it as success, and the pod never activates the VCL while the status says it carries it. |
| `peer_order` | `collectPeers` keeps the order of the listing and the generator does not sort peers.  If the order varies, so does the hash, and the pushes never stop.  The model lets the order vary freely; the API cache gives no guarantee about it. |
| `leaked_service` | The invalidation Service has no owner reference and the deletion handler does not delete it, so it outlives its cache. |

Known disagreements that no run checks:

* Content is reverted while its VCL waits for the discard: the refused push is
  recorded as carried (`clusterPeers`) until the goroutine fires.
* An agent that restarts within the grace period never discards the old VCL; a
  later return to it ends as in `refused_push`.
* When one of two pods refuses a push, `VCLSynced` stays True and the phase is
  not Degraded (`status.go:187`).
* The linker's fetch cache survives a varnishd restart, so a hit of the new
  varnishd can be linked to a fetch of the old one for up to 5 minutes.
* `finalizer.go:65` says the Secret goes by garbage collection; it has no owner
  (`secret.go:35`).
* With `exporter.port` set, the headless Service still names 9131
  (`service.go:90`).
* `fmtDuration` (`generator.go:469`) rounds a rendered timeout, the bound
  that `setGroupRetry` compares with is exact.
* Two VCL identifiers can coincide: backends `a` and `a_0`, or a cache named
  like a backend.

What the passing runs do not claim.  `Convergence` is checked under varnishd
restarts only.  It fails when a command fails (`refused_push`), and when a
request or an agent ends between `vcl.inline` and `vcl.use`, for the same
reason: a name that is loaded and never activated.  `OnlyOrphansBlock` says
that this is the only reason.  `OnlyDesiredActivated` exempts a push whose
client hung up, or whose operator died: it may still reach `vcl.use` during a
later pass.  `FinalizerGuards` exempts a slice younger than the informer's view
when its cache is deleted.  `DeletionCompletes` exempts a cache whose spec is
refused by a rule that came after it: `RemoveFinalizer` is validated like any
update, so such a cache stays until its spec is corrected.  `MapCatchesUp` exempts
paused caches, whose entry is that of their last pass.  `Settles` and `MapCatchesUp` are about a cluster
that comes to rest: endpoint events closer than the window postpone the push
for as long as they go on.  `OkMeansEveryPod` is about the pods in the map when
the request came in.  `Reachable` exempts a moved exporter port, see above.
`ProxyListenerAlone`, `MountsSound` and `ResubmitAdmitted` are about objects
today's webhooks admitted.  The validators compare mount paths and names as they
are written, so `MountsSound` assumes that a mount path names a directory as the
operator's own do (no trailing or doubled slash), and with `CacheFilesFit` that no two
storages have one name and no user volume has the name of a provisioned one.
`BackendsStable` assumes that no address is listed with two ports, since
`endpoints.go:69` sorts by address.  `CompleteGroupExact` is about groups that lost no
line; a transaction without timestamps has no span, nor has anything below it.
`NoSilentLoss` speaks of processes that end without a failed export: a failed
export is counted once per batch and not per span.  `ExportedOnce` is about what
the batcher hands to the exporter; the collector may receive a resent batch
twice.

Bounds.  Two pods are the least for a peer list to have an order, for a push to
fail in part, and for one pod to shard to another.  Two content changes are the
least for a revert.  One fault per behaviour (two for the agent) suffices for
every counterexample found; the theorems cover any number.  `agent` has two
slots and two interchangeable names, so that pushes overlap and replace each
other, and one temporary name for a validation; a VCL that does not compile is
in `converge_pod`.  The convergence runs have one slot, as the
operator sends one push per pod at a time, and therefore do not show a
push that was given up on overlapping the next one.
`lifecycle` has two lives, the least for leftovers to meet a successor, and
three changes: an edit, a restart, and a fault.  The second of its two releases
has one version less and a rule that refuses a spec the first one admits.  `proxy` has one
client, since requests share nothing but tables they only read, two
changes, and a limit of two purge hosts.  `desired_state` has three changes: one
to create the cache, and two edits or events, the least for two fields, or a
field and an endpoint, to disagree; the values of each field meet and break each
rule.  `spantree` has four transactions on up to four levels, the least for a retry
of a retry beside another child, and for a chain of all four.
In the linker's instance the caches hold all identities, as 4096 entries do in
practice (`LinkedEitherWay` and `RestartsShareTrace` are about that case, see
`Ample`; `LinksAreRight` covers eviction), and the lot holds one group.  The
clock has two ticks: a parked group outlives its age limit with the first, a
cached identity its time to live with the second, so both limits are met exactly
and exceeded.  In the tracer's instance queue and batch are a few spans long and
the parking lot holds one of two waiting requests, so that all three fill up.

Deadlock checking is off where the system may really stop: the log of the
linker's and the span tree's instances is finite, an operator whose catalog does
not load does nothing, and without a cache there is nothing to reconcile or to
publish.  A group stays parked while the log is idle, since the lot is aged only
by the next `Build`; so no property says that a parked group is released after
some time, only that a signal releases it.

Fairness (`AgentFairness`, `Fairness`, `LifecycleFairness`, `ProxyFairness`).
Every pass ends with a requeue and every call in it has a timeout, so a pass
proceeds; handlers and sleeping goroutines run; the kubelet probes periodically
and restarts containers; informers catch up, time passes, and the garbage
collector runs.  A request's handler runs and its deadline passes.  The worker
comes back to every cache that exists or is being deleted, after the requeue
interval of 5 minutes at the latest, however busy it is with others; it gets as
far as `collectPeers` unless the cache is paused, and `Collect`, which is strongly
fair, is not enabled for a paused one.  In `Tracer` both goroutines run (an export has a
timeout) and the output of varnishlog ends once the context is cancelled, since
`exec.CommandContext` kills it; nothing is assumed of varnishlog before that.
Nothing is assumed of faults or changes except that they are finitely many, and
nothing of the pods a request is sent to.

## Proofs

Assumptions: `NameAssumption` (pushed names, temporary names, the bootstrap
name and the empty name are different), `FaultAssumption`, `ContentAssumption`
(what a name stands for), `LinkerAssumption` (finitely many groups, positive
capacities), `LifecycleAssumption` (bounds are numbers, specs have a version and
a pause), `ProxyAssumption` (a cache has finitely many pods, requests are
requests), `SpecAssumption` (directors, backends and the PROXY setting of a spec
are the records of the CRD).

* `AgentTypeCorrect`, `TypeCorrect`: type correctness.  `Handlers` and `Passes`
  carry what makes it inductive: a request in progress has a name.
* `NoOrphans`: with one push per pod at a time and no fault but varnishd
  restarts, `NoOrphanVCL`.  The inductive invariant `OrphanInv` adds that no
  request is cut short and that between `vcl.list` and `vcl.use` the active VCL
  is the one listed, or the bootstrap VCL after a restart; so what `vcl.use`
  replaces is what the goroutine will discard.
* `OrphansExplained`: `OrphansHaveCause` for any pods, names, overlaps and faults,
  action by action from type correctness.
* `PushAtomicity`: `VclAgent` implements `AtomicPush` under every fault.  A request
  is mapped to a call that is open until `vcl.inline`, loaded until `vcl.use`,
  applied until its answer is read.
* `NeverShardToBoot`: without varnishd restarts, `NoShardToBoot`.  The
  invariant `ShardInv` follows a peer list from the Ready conditions through
  the pass and the pushes to the active VCLs.  Without restarts no pod returns
  to the bootstrap VCL, so an old list stays good.
* `LinkerTypeCorrect`: type correctness of the linker.
* `LinksAreRight`: `LinksMatchExports` for every log, capacity and timing.  The
  invariant `LinkInv` adds that every cached identity carries the trace its
  group has, which holds because the group joins its trace before anything of
  it is recorded and never leaves it afterwards.
* `LifecycleTypeCorrect`: type correctness, and that a pass is on the deletion's
  path exactly when the cache it read was being deleted.
* `FinalizerGuarded`: `FinalizerGuards`.  The invariant `GuardInv` adds that a pass
  beyond `EnsureFinalizer` works on a copy that has the finalizer, that the
  cache then has it too, and that the deletion handler takes it away only after
  the slices and the proxy's entries are gone.
* `PushesAdmitted`: `PushAdmitted`.  The invariant `AppliedInv`, with `GuardInv`,
  adds that the policies and the Secret, once the pass is past them in `Plan`,
  stay as it left them: the cache it works on still exists, so the garbage
  collector leaves them alone, and a restart ends the pass.
* `TokenIsStable`: `TokenStable`, because the Secret has no owner.
* `ProxyTypeCorrect`: type correctness of the proxy.
* `OkIsEveryPod`: `OkMeansEveryPod`.  The invariant `ConfirmedInv` adds that every
  result recorded as 2xx has its entry in `log` and that earlier broadcasts
  have a result from every pod.
* `ReachesNamedCache`: `SentToNamedCache`.  The invariant `NamedInv` adds that the
  routes lead each host to the cache it names, that the pod map has only pods
  of the cache, and that a request's cache and pods come from there.
* `ResubmitIsAdmitted`: `ResubmitAdmitted`.  The heart is that defaulting is
  idempotent (`DefaultsIdempotent`), shown field by field.  The invariant
  `StoredInv` says that what today's webhooks stored is defaulted and valid.
* `ProxyListenerIsAlone`: `ProxyListenerAlone`, from `StoredInv`: a defaulted spec
  names its port, so the port the validator compared is the one varnishd gets.

Type invariants that are proved are not checked by a run as well, except within
`TracerTypeOK`.

Only model-checked: the liveness properties (`OldVCLDiscarded`, `Convergence`,
`PushesStop`, `OnlyOrphansBlock`, `DeletionCompletes`, `Settles`,
`RequestsAnswered`, `MapCatchesUp`, `SignalEnds`), which are out of the prover's
reach; `CountIsConfirmed`, `MissesCounted` and `NoSilentLoss`, which count;
`OnlyDesiredActivated`; the other properties of `Linker` and `Tracer`; the
other properties of `DesiredState`, most of which rest on sorted or filtered
sequences; and those of `SpanTree`, whose trees are built by recursion.

## Not modelled

* The text of the VCL templates, durations, and varnishd's compiler: whether a
  VCL compiles is an input.  `VclData` has everything the text depends on but
  timeouts and feature flags.
* Labels, annotations, probes, security contexts and the other constant or
  copied parts of Kubernetes objects; admission warnings; the rules on names of
  backends.
* The agent's HTTP routing and token comparison, `Ban` and `PurgeXkey`: one
  command each and no state.  What a pod answers to them is part of
  `InvalidationProxy`.
* The proxy's ACL and rate limiter, which `cmd/operator` does not register, and
  the throttling of its logs.
* Attributes of spans and their conversion for the exporter.
* Metrics and alert rules: texts no other part reads.
* `vinylprobe` and `internal/probe`, a test tool; process wiring and flags;
  informer options (`cache.go`); generated code and type declarations.
* Scaling to zero replicas.
