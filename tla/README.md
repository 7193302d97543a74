# A TLA+ model of gpu-fractioning

gpu-fractioning lets several Kubernetes containers share one GPU. This directory models the parts of
the system that keep state, checks them with TLC on small instances, and proves the most important
properties with TLAPS for every value of the constants. `PROJECT.json` lists the runs, the mutants,
the source lines behind every definition, the hazards and the theorems; this file explains them.

## The system

* The **operator** (one process per cluster) reconciles the singleton `GpuFractioningConfig`: it
  creates the DaemonSets of fractiond and mpsd, checks the versions of the GPU stack, follows the
  GPU Operator's driver upgrades, writes a Ready condition on every GPU node and a status on the
  resource, and cleans up behind a finalizer when the resource is deleted.
* **fractiond** (one per node) is an NRI plugin of the container runtime. Its create hook reads a
  pod's annotations and injects memory limits, the MPS pipe and the CDI devices; its Synchronize
  callback audits the containers that already run and stops those that should have been injected;
  and all callbacks feed the *mapping*, a directory with one file per fractional container.
* **metricsd** (a sidecar of fractiond) polls NVML for GPU processes, joins them with the mapping
  directory and exports per-pod series to Prometheus.
* **mpsd** (one per node) labels the node with the driver's major version and supervises the NVIDIA
  MPS control daemon through whose socket the containers of a GPU share it.

They interact through few channels, and the models meet there: the mapping directory (written in
`Mapping`, read in `Metrics`, with `Directory` as the contract between them), the node label (written and
removed in `Supervisor`, with the operator's clean-up as it is in `Reconciler`), the readiness of pods (set in `Fractiond`, aggregated in `Reconciler`) and the verdict of the dependency
check (`Dependency`, called by `Reconciler` and `Rollout`). The operator reaches the daemons through
their pod templates only: `DaemonConfig` has both ends of them, the operator's builders and the flags
of the binaries, and `Rollout` composes it with `Dependency`, a pass of the operator, the DaemonSet
controller and the kubelet.

## Modules

| module | state and actions | source |
| --- | --- | --- |
| `Injection` | operators only: `BuildAdjustment` (hook), `IsFractionalGPUContainer` (adapter), `IsViolator` (audit), the parsing they share | `fractiond/internal/annotations`, `injection`, `plugin.go`, `adapter.go`, `audit/detector.go` |
| `Mapping` | queue, work in hand, directory, flushers; `Upsert`, `Delete`, `Synchronize`, `Flush`, the worker's `Receive`, `WriteRecord`, `ReadDir`, `Unlink`, `Abandon`, and `Crash` | `fractiond/internal/events`, `common/mapping/fsstore/writer.go` |
| `Registers` | what `Mapping` promises its reader: a file is a register at the end of a first-in first-out channel, changed only to the value in the writer's hand; values may be lost, never invented, repeated or overtaken | the contract of `events` and `fsstore` |
| `Fractiond` | one node: containers, sessions, callbacks in flight, audits, readiness, retry loop, shutdown, with `M == INSTANCE Mapping` for its pipeline | `plugin.go`, `audit/`, `readiness/`, `fractiond/cmd/main.go` |
| `Directory` | what the node promises metricsd of the mapping directory: a container the runtime has keeps its file, a file once unlinked stays away; everything may be late or lost | the contract between fractiond and `fsstore/reader.go` |
| `RetryLoop` | attempts, backoff, budget, cancellation: the loop that fractiond and mpsd each have a copy of | `fractiond/cmd/main.go`, `mpsd/internal/supervisor.go` |
| `Supervisor` | `RetryLoop` with the MPS daemon, its socket, the driver, the node label and its removal by the operator | `mpsd/`, `removeDriverMajorLabels` of the controller |
| `Dependency` | operators only: version texts, floors, version sources, ClusterPolicy readiness | `controller/dependency_checker.go`, `clusterpolicy.go` |
| `GpuStack` | the GPU stack as a variable that `VersionGate` and `Reconciler` share, and the reference that says which stacks the gate refuses; uses `Dependency` | what `dependency_checker.go` reads |
| `VersionGate` | the GPU stack edited field by field; uses `GpuStack` | the GPU Operator and its administrators |
| `Reconciler` | resource, DaemonSets, pods, node labels and conditions, one pass of `Reconcile` step by step; uses `Dependency` | `controller/gpufractioningconfig_controller.go`, `common/daemonmgr/` |
| `DaemonConfig` | operators only: what the builders make of a configuration (arguments, probes, mounts, RuntimeClass, CDI device, grace period) and what the binaries make of their arguments | `operator/internal/fractioningmanager/components/`, `daemonmgr/cdi.go`, `managed_daemon.go`, `*/cmd/flags.go` |
| `Rollout` | configuration, ClusterPolicy, Helm values, templates, pods and a pass; `Begin`, `ReconcileDaemon`, `UpdateStatus`, their failures, `Restart`, edits, tampering, and the pods' steps | the controller, `daemonmgr/reconciler.go`, `status.go` |
| `Metrics` | node, NVML poll, the engine's collect, scrapes in flight, exported gauges, with `W == INSTANCE Directory` for its containers and records | `metricsd/internal/metrics/`, `fsstore/reader.go`, `store/container_store.go` |

`MCx.tla` instantiates `x` for TLC, and `xProofs.tla` holds its theorems. Those about `Injection` are
in `FractiondProofs`, about `Registers` in `MappingProofs`, about `RetryLoop` in `SupervisorProofs`,
about `Dependency` and `GpuStack` in `ReconcilerProofs`. `MCDependency` instantiates `VersionGate`.
`DirectoryProofs` continues `FractiondProofs` with what needs
the theorems of `MappingProofs`; `ReconcilerInv` states the inductive invariant of `Reconciler`, and
`ReconcilerTypes` proves its typing part.

How state corresponds to the code, where it is not one to one:

* **Granularity.** A step is what no other goroutine, process or API client can interrupt: a channel
  operation, one file operation, one group of API calls, what is done under a lock. `Synchronize` is
  therefore three steps of a callback (hand-over, readiness, audit), a `Replace` one step per file,
  a `Reconcile` pass up to a dozen steps, a collect three (list, read, join), a scrape two. Coarser than
  the code: taking a snapshot and queueing it (`plugin.go:197-205`) is one step of `Fractiond`, so a callback
  that stalls in between until the next session has queued its own is not covered; and mpsd reads the driver
  and patches the label in one step.
* **Go channels.** The queue is a bounded sequence with the senders blocked on it in order
  (`sendq`), since Flush sends without a default branch while the callbacks drop when it is full.
* **Data.** A container is a model value with its annotations as a record; a quantity is a number of
  bytes; a version text is its components and the kind of its suffix; a measured value in `Metrics`
  is the set of processes it sums over, requested memory a number. Names, messages and
  JSON are left out.
* **History variables.** `want`, `lost` and `since` (Mapping), `hook`, `tracked` (Fractiond),
  `failures`, `waits`, `removed`, `changed` (retry loop, Supervisor), `reused` (Metrics), `unpatched` and `began` (Reconciler) record
  what happened for the properties to refer to; no guard reads them.
* **External parts** (runtime, kubelet, DaemonSet controller, GPU Operator, NVML, MPS daemon,
  semver library) are modelled by what the code relies on, and marked external in the map.

## Runs

`cd` here and run `tlc -workers 2 -config <cfg> <module>`.

| run | configuration | question and answer |
| --- | --- | --- |
| `mapping` | `MCMapping.cfg`: 2 containers, queue of 1, 2 flushers, failing disk | The last call about a container decides (`LastCallWins`); the pipeline implements one register per container, written in the order of the calls (`ImplementsRegisters`, a refinement); nothing that stays is unlinked (`NoGap`); a Flush returns, after all earlier calls were applied (`FlushDrains`, `FlushReturns`). |
| `node` | `MCFractiond.cfg`: 2 fractional containers, 2 sessions, a kill, a restart, empty replays, failed stops | The directory follows the runtime (`MappingTracksRuntime`), no live container ever loses its file (`LiveNeverUnlinked`), and the node implements `Directory` (`ImplementsDirectory`, a refinement). |
| `node_live` | `MCFractiondLive.cfg`: 1 container of 2 kinds, 2 policies, 2 sessions, a restart under either policy, give-up, shutdown, SIGTERM | Hook, audit and adapter, three readers of the same annotations, agree (`StopsOnlyUnhooked`, `AuditFindsUnhooked`, `HookedRecordedIffMutated`); stops complete (`RemediationCompletes`), a terminating process exits (`DrainTerminates`), a stale readiness heals (`FalseReadyHeals`). |
| `supervisor` | `MCSupervisor.cfg`: 2 drivers, 3 tries, 5 faults | No start over a stale socket (`StartsOnFreeSocket`); under a daemon the label is that of the driver, unless the driver was replaced since mpsd started or the operator is deleting its resource and has taken the label off (`LabelMatchesDriver`); an exact retry budget (`BudgetExact`), an end after SIGTERM (`SigtermEnds`), and recovery (`Recovers`). |
| `dependency` | `MCDependency.cfg`: versions at, below and above each floor, with every suffix | The gate refuses exactly the stacks that are too old, or whose operator nobody vouches for, by a reference definition in numbers (`VersionGateExact`). |
| `reconciler` | `MCReconciler.cfg`: 1 node, both daemons, both GPU Operator labels, 1 failure, 1 change | At rest the status is the one the cluster calls for (`StatusConverges`); a node that one daemon fails is reported whatever the order of the pods (`PassReportsUnhealthy`). |
| `reconciler_live` | `MCReconcilerLive.cfg`: 1 node, mpsd, 3 states of the GPU stack, 1 failure, 2 changes | An upgrade that takes a daemon from its node is reflected (`UpgradeReflected`), its node cleared (`UpgradedNodeCleared`), clean-up complete (`ConditionsCleanedUp`), an unhealthy node reported (`UnhealthyReported`), and a deletion completes (`DeletionCompletes`). |
| `patch_retry` | `MCPatchRetried.cfg` | **Violated**: a failed node patch is not made again (see below). |
| `rollout` | `MCRollout.cfg`: 1 node, 2 configurations, NRI plugin on or off, 2 Helm releases, any 2 events | A pod is given what its processes use (`PodsCoherent`); the operator rests on current templates (`TemplatesCurrent`), in one mode (`DaemonsAgree`); a configuration that can work reaches the node (`FleetConverges`), one that cannot is not Ready for ever (`NeverSilentlyStale`). |
| `metrics` | `MCMetrics.cfg`: 1 pod, 2 containers on one GPU recorded by an old fractiond, 1 failing query, scan or read, or a restart | Utilization is divided by the request of every container, once each, or by the whole GPU while its memory is unknown (`FractionComplete`), and a busy process is reported in the end (`BusyReported`). |
| `scrapes` | `MCScrapes.cfg`: 2 pods, 2 GPUs, a reused pid, 2 scrapes in flight | Usage goes to the GPU of its process, and to its pod unless the pid was reused (`AttributionSound`), and then not for ever to the wrong one (`MisattributionHeals`); a gone pod's series go (`GonePodPruned`); a placeholder gives way (`PlaceholderReplaced`), whichever scrape writes last. |
| `placeholder` | `MCPlaceholder.cfg` | **Violated**: a collect before the first poll leaves a series for a GPU the pod was never given. |

**Bounds.** Two containers are what an interference between containers needs, as every shared
structure (queue, directory, mapping) treats them one by one; a queue of one is full as soon as
anything waits, so both the drop and the blocked Flush happen. Two sessions give a callback that
outlives its own; one restart gives a leftover directory and, in
`node_live`, flags other than those a container was hooked under. One failed call or crash
at any step of a pass is where partial failures show; two changes let one fall into the pass that
handles the other. Their safety properties, like those of `metrics`, are proved for any number of nodes,
failures and changes. In `rollout` an event is an edit, a switch of
the NRI plugin, a Helm upgrade, tampering with a DaemonSet, a failed call or a crash; two of them let
the second fall anywhere into what the first set off, and give two failed reads in a row. Its two
configurations differ in every setting, and one cannot work without the NRI plugin. Its safety
properties are proved for any number of nodes and events. `node_live` has the containers on which two
policies differ; that hook, audit and adapter agree is proved for all flags and annotations.
`reconciler` has one supported GPU stack: what the stack's verdicts do to `StatusConverges` is proved, not run
(`StatusAlwaysConverges`); `reconciler_live` has stacks of all three verdicts.
Two scrapes are enough for an old snapshot to be written after a new one. In `scrapes` one of the pods was
given one of the GPUs, and the only pid serves twice: another process of that pod, with or without the GPU,
or one of the other pod takes it. Device numbers are swapped against NVML indices (minor 0 is index 1), so confusing
them shows. `AttributionSound` and `FractionComplete` are proved for any pods, GPUs, pids and numbering. Bounds are
constants (`MaxSessions`, `MaxStarts`, `MaxFaults`, `MaxChurn`, `MaxEvents`, `MaxScrapes`, `QueueDepth`) that
appear in guards only. `TypeOK` of `Fractiond`, `Reconciler`, `Rollout` and `Metrics` documents their
state; it can be added to the invariants of their runs. Behaviours stop when they run out, which is why deadlock is checked for
`Mapping` and `Dependency` only.

**Fairness** is weak throughout. `Mapping`: the worker goroutine runs. `Fractiond`: goroutines that
can run do, the stops of an audit return (the CRI call has a timeout), the retry loop's timer
fires; nothing is assumed of the runtime, so a session may never come. `Supervisor`: mpsd's own
steps and the daemon's answer to its start and stop. `Reconciler`: the work queue is served, watch
events arrive, the DaemonSet controller creates pods; nothing makes a pod ready. `Rollout`: the work queue
is served, and the DaemonSet controller and the kubelet go on, so a pod that can start and passes its
probe does; one that cannot stays as it is. `Metrics`: both
tickers fire, and Prometheus goes on scraping, though one scrape may hang; nothing is assumed of fractiond,
so a record may come late, never, or stay for ever, and no process or container has to start or end.
`GonePodPruned`, `BusyReported` and `PlaceholderReplaced` are stated by the records that there are.

**Two models, one directory.** `Metrics` has no queue and no worker of fractiond's. Its containers and records
are an instance of `Directory`, whose `alive`, `gone`, `dir` and `retired` are the containers the
runtime has, those it has removed, those with a file, and the removed ones that get no file again; every
step that `Directory` allows is one of `Metrics`, and no other touches them.
`Fractiond` implements `Directory` (`NodeImplementsDirectory`), with `retired` computed from its queue and the
work in hand: a removed container without a file and with none on the way. So the safety properties of
`Metrics` hold of metricsd beside fractiond, and its liveness properties assume no progress of fractiond.
Stating the contract corrected an earlier `Metrics`, in which a record was only ever written for a running
container: the write waits in the queue, and the container may have gone by then.

## Proofs

`tlapm <module>` checks them. All hold for arbitrary sets of containers, flushers, drivers and flags,
any queue depth, any number of sessions, restarts and faults, from the named assumptions beside the
constants: a positive queue depth; sentinel values outside the sets they extend; natural numbers; for
`Rollout`, that a ClusterPolicy exists and that a template is not the sentinel for none; for
`Reconciler`, that the nodes are finitely many and that there is a daemon (the code has two); for
`Metrics`, that no container is also a process of the host, that there are finitely many GPUs, and that
every recorded device is one of the node's. The GPU stacks of `Reconciler` are any
records of the fields the checks read (`GpuStacks`): every version text, and lists of
ClusterServiceVersions of any length.

| theorem | says | argument |
| --- | --- | --- |
| `MappingProofs!TypeCorrect` | `[]TypeOK` | with `WorkOK`: what is left to write is wanted, what is left to unlink is not |
| `LastCallAlwaysWins` | `[]LastCallWins` | inductive with `TypeOK` and `WorkOK`; the lemmas on `Append` and `Tail` say which item of a queue decides about a container after each operation |
| `QuiescentConverges`, `ResyncLeavesNoGap` | `[]Converged`, `NoGap` | consequences |
| `FlushSeesAllApplied` | `FlushDrains` | `BarrierOK`: whatever is queued behind a flusher's barrier was called after its Flush, and a flusher has one barrier, queued or waiting |
| `NoFlushForgotten` | `[]FlushPending`: a Flush that waits has its barrier in the queue, or is blocked at a full one | inductive with `TypeOK`: a receive from a full queue admits the first blocked sender in the same step |
| `HandoffImplementsRegisters` | `Spec => ImplementsRegisters` | step simulation: a container's channel is the queue as it concerns that container, and each action of `Mapping` accepts, takes, shows or loses a value of each container or leaves it alone |
| `FractiondProofs!AuditSparesHooked`, `AuditIsExact` | `[]StopsOnlyUnhooked`, `AuditFindsUnhooked` | `AuditInv`: a container is what the hook of its day made of it (`InjectedAsHooked`), and snapshots name created containers; then `HookAuditAgreement` |
| `MappingFollowsHook` | `[]HookedRecordedIffMutated` | `RecordInv`: of the live hooked containers, exactly the fractional ones are asked for |
| `HookAuditAgreement`, `AuditMirrorsHook`, `RecordedIffMutated` | for every annotation and environment: the audit clears what the hook let through under the same flags, picks of the rest what the hook would have changed, and the adapter records what the hook mutated | by the outcomes of the hook |
| `MemoryRoundsUp` | the injected MiB value covers the request and exceeds it by less than one MiB | arithmetic |
| `DirectoryProofs!MappingFollowsRuntime` | `[]MappingTracksRuntime` | `TrackInv`: while a session lasts whose snapshot named a fractional container, the calls ask for exactly the fractional containers the runtime has; then `NodeImplementsMapping` and `MappingProofs!QuiescentConverges` |
| `NoLiveContainerUnlinked` | `LiveNeverUnlinked` | `PipeInv`: an event in the queue or in hand was true when it was made and ages well, and a container the runtime has that a resync does not name has no file and gets none from anything before the resync |
| `NodeImplementsDirectory` | `Spec => ImplementsDirectory` | step simulation; that an unlinked file stays away needs `Sealed`: a container that has a file, or one on the way, and that an event takes out gets none from an event behind it, since a call only gives files to containers the runtime has |
| `DrainNeverStuck` | `[](DrainInv /\ DrainHasWork)`: main enters Flush once, when it drains, and whoever waits in Flush leaves the worker something to receive | `MappingProofs!NoFlushForgotten`, and the places from which the node calls Flush |
| `SupervisorProofs!GivesUpExactly`, `WaitStaysBounded` | `[]BudgetExact`, `[]BackoffBounded` of `RetrySpec` | `RetryInv`: `attempt` is the number of failed tries, plus one while trying |
| `SupervisorTypeCorrect`, `NeverStartsOverStaleSocket`, `LabelIsCurrent`, `BudgetSurvivesRestarts` | `[]TypeOK`, `[]StartsOnFreeSocket`, `[]LabelMatchesDriver`, `[]BudgetExact` of mpsd's `Spec` | `SupervisorInv`: a daemon exists only within a try; a removed socket stays away until a daemon binds; from the moment mpsd has labelled, what is off about the label is a later change of the driver or the clean-up |
| `RolloutProofs!PodsStayCoherent` | `[]PodsCoherent` | `AllBuilt`: every template and pod is what the builders make of *some* configuration; `BuiltCoherent`: any such is coherent |
| `RestsOnCurrent` | `[]TemplatesCurrent` | `ReadFresh` and `Written`: while no request is queued the pass works with what it would read again, and the templates it has gone past are those it would write again; `Rests` is what is left when it ends |
| `RestsInOneMode` | `[]DaemonsAgree` | `Rests`, which holds after an unreadable ClusterPolicy too, and `BuiltAgree` |
| `ReconcilerProofs!StatusAlwaysConverges` | `[]StatusConverges` | `SettledInv`: while nothing is queued and nothing failed, what the pass has found so far is what it would find again; `CountInv`: between two of its statuses a DaemonSet only loses pods, so counts that have not changed mean pods that have not |
| `UpgradeAlwaysReflected`, `UpgradedNodeAlwaysCleared` | `[]UpgradeReflected`, `[]UpgradedNodeCleared` | `UpgradeKnown` in `SettledInv`: what the last evaluation of the upgrades found still holds, or the DaemonSet controller owes a status (`Owed`), which will queue a request |
| `PassAlwaysReportsUnhealthy` | `[]PassReportsUnhealthy` | `LocalInv`: a node found unhealthy stays False for the rest of the pass, unless a patch failed |
| `ConditionsAlwaysCleanedUp` | `[]ConditionsCleanedUp` | `LifeInv`: the finalizer is there from before the first patch until every node is clean |
| `DeletionNeverDropped` | `[]DeletionPending`: a deletion always has a request queued or a pass under way | inductive by itself: every way out of `reconcileDelete` but the last queues again, and a pass that meets a deletion cannot update the status |
| `MetricsProofs!AttributionAlwaysSound` | `[]AttributionSound` | `SoundInv`: the metrics are sound in every copy on their way from the join to the gauges (published, in the hands of a scrape, exported); `EngineInv`: the process that has the pid of a listed one is that one, unless the pid was given out again |
| `FractionAlwaysComplete` | `[]FractionComplete` | `EngineInv`: a GPU whose minor number is known has a known UUID, so the busy and the idle containers of a pod meet under one key (`FractionOfKey`); the sum itself is not expanded |
| `NoGapForReader` | a collect without a failure finds every listed container that is still there | `ReadInv`: between listing and reading, the node takes no file from a container the runtime has |
| `GonePodNeverReturns` | a pod that no record, scan, snapshot, scrape or gauge names any more, and whose containers are retired, stays so | `ReadInv`, and every copy of the metrics is made of copies; a join has series of mapped pods only (`EnrichNames`) |
| `VersionGateAlwaysExact` | `[]VersionGateExact` of every stack the operator meets | the semver comparison is the comparison by the first number that differs (`BelowIsOlder`), each gate is its reference (`OperandGate`, `OperatorGate`), and the package found is the first that may be NVIDIA's (`FirstPackage`, from a least index) |
| `BypassIgnoresVersions` | with the version checks skipped, no version and no source of one changes the verdict | by cases of `CheckReason` |
| `ReadyNeedsSoundStack` | the check never makes Ready True, and leaves it True only on a stack that was read and passes the gates that apply | likewise |

The strengthenings are needed because the properties alone are not inductive: `LastCallWins` says
nothing of a half-done Replace, `StopsOnlyUnhooked` nothing of the environment a container was
given, `BudgetExact` nothing of the counter the loop compares, `TemplatesCurrent` and `StatusConverges`
nothing of a pass under way, `LiveNeverUnlinked` nothing of what waits in the queue, `AttributionSound`
nothing of a snapshot that a slow scrape still holds. Those of `Reconciler`, `Metrics` and the
directory were checked with TLC before they were proved.

How the directory's theorems use those of `Mapping`: the lemma `NodeImplementsMapping` shows, step by step, that the node's
pipeline is a `Mapping`; `DirectoryProofs` instantiates `MappingProofs` at the node's variables, shows
its constants satisfy the assumption, and takes type correctness, convergence and `NoFlushForgotten` from there.

Proving `UpgradeReflected` corrected it. As first stated (an upgrade of *some* node is reported) TLC
refutes it with three label changes: an upgrade that ends and begins again before the DaemonSet
controller has put a pod back changes no count, and the operator is not woken. `began` holds the
nodes whose upgrade found a daemon to drain, and the property is about those.

`VersionGateExact` is proved without induction over the list: `ClusterServiceVersion` takes the first
match by its index, as the loop with its early return does, and a set of indices has a least element.

Only model-checked is all liveness (`FlushReturns`, `RemediationCompletes`, `DrainTerminates`,
`FalseReadyHeals`, `UnhealthyReported`, `DeletionCompletes`, `SigtermEnds`, `Recovers`, `MisattributionHeals`, `BusyReported`,
`GonePodPruned`, `PlaceholderReplaced`, `FleetConverges`, `NeverSilentlyStale`): the prover has neither
fairness nor `ENABLED`. Four have their safety half proved, that what is waited for is on its way or
stays done: `NoFlushForgotten` for `FlushReturns`, `DrainNeverStuck` for `DrainTerminates`,
`DeletionNeverDropped` for `DeletionCompletes` and `GonePodNeverReturns` for `GonePodPruned`.
Every safety property of a passing run is proved.

`RetrySpec`, the loop by itself as in fractiond, is covered by proof only; TLC runs it inside
`Supervisor`.

## Where the code and its comments differ

Two disagreements have a run that shows them (`findings` in `PROJECT.json`):

* `patch_retry`: a failed node patch requeues, but the next pass lists pods only if
  `needsRequeue || wasUnhealthy`, both false once Ready=True was persisted by the pass that failed;
  the comment at `gpufractioningconfig_controller.go:474` says the failures are retried.
* `placeholder`: a collect before the first NVML poll publishes an idle series for GPU 0, which
  `engine.go:412` says does not happen for a device that is not enumerated yet.

Others were met while modelling, by reading the model or a run since retired. The model has the
behaviour; its properties are stated so as not to claim the opposite:

* `plugin.go:207`: a Synchronize callback that outlives its session sets the readiness after the
  retry loop cleared it, until the next connection attempt; `fractiond/cmd/main.go:28` says the
  probe "reflects actual NRI registration". (`FalseReadyHeals` shows that it does not last.)
* `events.go:189`: a resync is skipped when no container of the snapshot is *fractional*, so files
  left from before stay; `events.go:122` says a "non-empty Synchronize" reconciles the directory.
* `adapter.go:104`: a resync also records containers no hook has mutated; `:102` says "iff".
* `gpufractioningconfig_controller.go:241`: after an upgrade whose daemons are back before the next
  pass, the node's condition is not re-added, as `:277` says it is.
* `:229`: no Node is watched, so an upgrade of a node whose daemons are away already (drained by
  `gpu.deploy.client`, or not yet back from the last upgrade) is noticed only by the next pass that
  something else causes; `README.md:295` says `DriverUpgradeInProgress` is "`True` while a targeted GPU
  node is undergoing an NVIDIA driver upgrade". `UpgradeReflected` is about the other upgrades.
* `:291`: a node drained by `gpu.deploy.client` alone keeps Ready=True; `:276` says a drained node
  stops advertising it.
* `:364`: labels are removed while mpsd pods run, and one that still starts sets its label again; `:352` says
  deletion is "never unblocked prematurely".
* `:199`: DaemonSets are created before the dependency check; `README.md:93` says an unsupported
  stack is reported "without rolling out the node-level daemons".
* `supervisor.go:142`: the first try counts, so the default of 5 allows four restarts; `:21` says
  "after 5 consecutive restarts".
* `fractiond/cmd/main.go:164`: the first wait is not capped; the API type's comment
  (`gpufractioningconfig_types.go:97`) says "capped at 60s".
* `fractiond.go:494`: without a `fractioningAgent` block the operator passes no
  `--retroactive-enforcement` and mounts no CRI socket, but the binary's default is true
  (`fractiond/cmd/flags.go:87`); the comment says a nil spec "leaves it off". `PodsCoherent` asks for
  the socket only where the operator turned enforcement on.
* `fractiond/cmd/main.go:69`: a readiness server that cannot listen is said to be "the safe
  direction", but if `readinessPort` is metricsd's port the probe reaches metricsd's own `/readyz`,
  which always answers. No run has equal ports.
* `fractiond.go:185`: a metrics address without a usable port is probed at 2112, where nothing
  listens, so the pod never becomes ready; `PodsCoherent` is about usable ports.
* `clusterpolicy.go:54`: an unreadable ClusterPolicy counts as no NRI plugin, so on a cluster with
  the plugin both DaemonSets are rewritten to the RuntimeClass, and stay so after two failed reads
  in a row until the next event. The status says so, and `TemplatesCurrent` excepts it.
* `daemonmgr/reconciler.go:67` and `status.go:67`: Ready may be True in the middle of a rollout,
  since pods of the old template count, and for a new DaemonSet whose nodes are not counted yet.
  `NeverSilentlyStale` shows that it does not last.

## Not modelled

Logging, the operator's own gauges, reading of the environment and the noop and mock collectors are
stateless. The development tools (`hack/imagelock`, `hack/fake-mps`) are release and test tooling
outside the running system; the CRD upgrade is a sequential job that Helm runs once before it. Of the
manifests, images, resources, security contexts and metadata are left out, and so are the API server's
defaulting and validation of the resource. Of the modelled
parts, these are left out: the driver checker (it refines the reason of a condition that is False), the text of cgroup paths and of the driver version, temporary files of
the writer (readers skip them), NVML's utilization samples and their timestamps (a process that ended since
the last poll may still have samples, and is listed once more, as an earlier poll would have listed it), the averaging
window (off by default), the cap of percentages, the gathering of
the Prometheus registry value by value, leader election (one operator at a time) and the staleness
of the informer cache at the start of a pass, HTTP servers. `components` in `PROJECT.json` is the complete inventory.

## Plan

Done: the node (`Injection`, `Mapping`, `Registers`, `Fractiond`, `Directory`), mpsd (`RetryLoop`, `Supervisor`), the
operator (`Dependency`, `GpuStack`, `VersionGate`, `Reconciler`, `DaemonConfig`, `Rollout`) and metricsd (`Metrics`), each with
proofs of its safety properties.

Next, in this order:

1. `Metrics`: the averaging window and its pruning, the gather as steps of its own, the shutdown of
   the exporter; both pods on both GPUs in a run (the proof has any).
2. A stale informer cache in `Reconciler`.
3. The safety half of the remaining liveness properties: what each waits for is always on its way.
