------------------------------ MODULE Rollout ------------------------------
(***************************************************************************)
(* How a configuration reaches the nodes.  A pass of the operator reads    *)
(* the resource and the ClusterPolicy once and writes both DaemonSets; the *)
(* DaemonSet controller replaces the pods, node by node; the kubelet       *)
(* starts them if their RuntimeClass exists, and probes them.  Meanwhile   *)
(* the resource is edited, the GPU Operator turns its NRI plugin on or     *)
(* off, and the operator is upgraded with other Helm values.               *)
(*                                                                         *)
(* A new DaemonSet counts no nodes until its controller has seen it; from  *)
(* then on its status is taken to follow its pods at once.  Counters that  *)
(* lag, the deletion of the resource and the node conditions are in        *)
(* Reconciler.                                                             *)
(***************************************************************************)
EXTENDS Dependency, DaemonConfig, FiniteSets

CONSTANTS Node,
          Installs,    \* what the operator is installed with: spec, policy, helm
          Specs,       \* the configurations an administrator applies
          Policies,    \* the states of the GPU stack
          Unreadable,  \* what a read of the ClusterPolicy that fails returns
          Helms,       \* Helm values: supportSMSharing, auditLog, fips
          DefaultRuntimeHasGPU,
          MaxEvents    \* bound on edits, upgrades, stack changes, failures and crashes

ASSUME RolloutAssumption ==
  /\ Installs \subseteq Specs \X Policies \X Helms
  /\ DefaultRuntimeHasGPU \in BOOLEAN
  /\ MaxEvents \in Nat
  /\ \A p \in Policies : p.kind = "present"
  /\ Unreadable.kind = "unreadable"
  /\ Unset \notin BOOLEAN
  /\ \A s \in Specs :
       s.mpsDaemon # Unset => s.mpsDaemon.gracefulStopDelay \in Nat \cup {Unset}

VARIABLES
  spec, policy, helm, \* what the administrator, the GPU Operator and Helm set
  tmpl,               \* the pod template of each DaemonSet, Unset if there is none
  counted,            \* the DaemonSets whose status has been filled in
  pod,                \* pod[n][d]: its template and readiness, or Unset
  pc, due,            \* where Reconcile is; a request is queued
  read,               \* the spec and the ClusterPolicy the pass works with
  requeue, health,    \* needsRequeue; what the pass has learnt of each daemon
  stale,              \* the resource has changed since the pass read it
  status,             \* the resource's status
  events

desired == <<spec, policy, helm>>
pass == <<read, requeue, health>>
vars == <<desired, tmpl, counted, pod, pc, due, pass, stale, status, events>>

Event == events < MaxEvents /\ events' = events + 1

(* A daemon's health is its ready pods, or one of these: the DaemonSet     *)
(* could not be written or read, or it counts no nodes.                    *)
Failed == -1
NoTargetNodes == -2
Healths == {Failed, NoTargetNodes} \cup 0 .. Cardinality(Node)

NoHealth == [d \in Daemon |-> Failed]

TypeOK ==
  /\ spec \in Specs /\ policy \in Policies /\ helm \in Helms
  /\ pc \in {"idle", "fractiond", "mpsd", "status"} /\ due \in BOOLEAN
  /\ IF pc = "idle" THEN read = Unset
     ELSE read.spec \in Specs /\ read.policy \in Policies \cup {Unreadable}
  /\ requeue \in BOOLEAN /\ stale \in BOOLEAN
  /\ counted \subseteq {d \in Daemon : tmpl[d] # Unset}
  /\ health \in [Daemon -> Healths] /\ status.health \in [Daemon -> Healths]
  /\ events \in 0 .. MaxEvents

Init ==
  /\ \E i \in Installs : spec = i[1] /\ policy = i[2] /\ helm = i[3]
  /\ tmpl = [d \in Daemon |-> Unset] /\ counted = {}
  /\ pod = [n \in Node |-> [d \in Daemon |-> Unset]]
  /\ pc = "idle" /\ due = TRUE
  /\ read = Unset /\ requeue = FALSE /\ health = NoHealth /\ stale = FALSE
  /\ status = [of |-> Unset, readable |-> TRUE, health |-> NoHealth, ready |-> "none"]
  /\ events = 0

-----------------------------------------------------------------------------
(* The cluster.                                                            *)

ClassExists(class) == class = "nvidia" => ~NRIPluginEnabled(policy)

(* By the annotation, by the RuntimeClass, or without being asked for.     *)
HasGPU(container, t) ==
  IF container \in t.cdi THEN NRIPluginEnabled(policy) /\ policy.allowed
  ELSE t.runtimeClassName # Unset \/ DefaultRuntimeHasGPU

(* mpsd cannot label its node, or start, without a GPU.  fractiond is      *)
(* probed, reaches the runtime through the mounted directory, and shares   *)
(* its pod with metricsd, which is refused with a device it may not have.  *)
Works(d, t) ==
  IF d = "mpsd" THEN HasGPU("mpsd", t)
  ELSE /\ t.probePort = Fractiond(t).readinessPort
       /\ Fractiond(t).socketPath[1] \in t.mounts
       /\ t.sidecar # Unset =>
            /\ MetricsdServes(t) /\ t.sidecar.probePort = Metricsd(t).address
            /\ "metricsd" \in t.cdi /\ NRIPluginEnabled(policy) => policy.allowed

Ready(n, d) == pod[n][d] # Unset /\ pod[n][d].ready

DaemonSetHealth(d) ==
  IF d \in counted THEN Cardinality({n \in Node : Ready(n, d)}) ELSE NoTargetNodes

SetPod(n, d, p) == pod' = [pod EXCEPT ![n][d] = p]

(* Status changes of the DaemonSets, which the resource owns, are events.  *)
PodMoves(n, d, p) ==
  /\ SetPod(n, d, p)
  /\ counted' = IF tmpl[d] = Unset THEN counted ELSE counted \cup {d}
  /\ due' = TRUE
  /\ UNCHANGED <<desired, tmpl, pc, pass, stale, status, events>>

(* The DaemonSet controller meets a new DaemonSet.                         *)
CountNodes(d) ==
  /\ tmpl[d] # Unset /\ d \notin counted
  /\ counted' = counted \cup {d}
  /\ due' = TRUE
  /\ UNCHANGED <<desired, tmpl, pod, pc, pass, stale, status, events>>

(* A rolling update takes one node at a time.                              *)
ReplacePod(n, d) ==
  /\ pod[n][d] # Unset /\ pod[n][d].tmpl # tmpl[d]
  /\ tmpl[d] # Unset => \A m \in Node \ {n} : Ready(m, d) \/ ~Ready(n, d)
  /\ PodMoves(n, d, Unset)

CreatePod(n, d) ==
  /\ pod[n][d] = Unset /\ tmpl[d] # Unset
  /\ ClassExists(tmpl[d].runtimeClassName)
  /\ PodMoves(n, d, [tmpl |-> tmpl[d], ready |-> FALSE])

BecomeReady(n, d) ==
  /\ pod[n][d] # Unset /\ ~pod[n][d].ready /\ Works(d, pod[n][d].tmpl)
  /\ PodMoves(n, d, [tmpl |-> pod[n][d].tmpl, ready |-> TRUE])

(* The resource is edited.                                                 *)
EditSpec ==
  /\ spec' \in Specs \ {spec}
  /\ due' = TRUE /\ stale' = TRUE
  /\ Event
  /\ UNCHANGED <<policy, helm, tmpl, counted, pod, pc, pass, status>>

(* The ClusterPolicy is watched.                                           *)
PolicyChanges ==
  /\ policy' \in Policies \ {policy}
  /\ due' = TRUE
  /\ Event
  /\ UNCHANGED <<spec, helm, tmpl, counted, pod, pc, pass, stale, status>>

(* Someone deletes a DaemonSet, or rolls it back to what a pod still runs. *)
Tamper(d) ==
  /\ tmpl[d] # Unset
  /\ \E t \in {Unset} \cup {pod[n][d].tmpl : n \in {m \in Node : pod[m][d] # Unset}} :
       /\ t # tmpl[d] /\ tmpl' = [tmpl EXCEPT ![d] = t]
       /\ counted' = IF t = Unset THEN counted \ {d} ELSE counted
  /\ due' = TRUE
  /\ Event
  /\ UNCHANGED <<desired, pod, pc, pass, stale, status>>

-----------------------------------------------------------------------------
(* Reconcile.                                                              *)

Return ==
  pc' = "idle" /\ read' = Unset /\ requeue' = FALSE /\ health' = NoHealth /\ stale' = FALSE

(* The resource and the ClusterPolicy are read; a policy that cannot be    *)
(* read has no NRI plugin.                                                 *)
Begin ==
  /\ pc = "idle" /\ due
  /\ due' = FALSE /\ stale' = FALSE
  /\ \/ read' = [spec |-> spec, policy |-> policy] /\ UNCHANGED events
     \/ read' = [spec |-> spec, policy |-> Unreadable] /\ Event
  /\ requeue' = FALSE /\ health' = NoHealth
  /\ pc' = "fractiond"
  /\ UNCHANGED <<desired, tmpl, counted, pod, status>>

(* The template for a spec, the ClusterPolicy as read and the Helm values. *)
Desired(d, s, p, h) == BuildDaemonSet(d, s, BuildOptions(s, NRIPluginEnabled(p), h))

(* Unset is none of them.                                                  *)
ASSUME TemplateAssumption ==
  \A d \in Daemon, s \in Specs, p \in Policies \cup {Unreadable}, h \in Helms : Desired(d, s, p, h) # Unset

ReconcileDaemonMutant(d) ==
  /\ pc = d
  /\ \/ /\ tmpl' = [tmpl EXCEPT ![d] =
                      IF @ = Unset THEN Desired(d, read.spec, read.policy, helm) ELSE @]
        /\ health' = [health EXCEPT ![d] = DaemonSetHealth(d)]
        /\ requeue' = (requeue \/ DaemonSetHealth(d) \in 0 .. Cardinality(Node) - 1)
        /\ UNCHANGED events
     \/ requeue' = TRUE /\ Event /\ UNCHANGED <<tmpl, health>>
  /\ due' = (due \/ tmpl' # tmpl)
  /\ pc' = IF d = "fractiond" THEN "mpsd" ELSE "status"
  /\ UNCHANGED <<desired, counted, pod, read, stale, status>>

(* It updates what there is, and only asks for another pass if there is    *)
(* nothing.                                                                *)
ReconcileDaemonUpdateMutant(d) ==
  /\ pc = d
  /\ LET t == IF tmpl[d] = Unset THEN Unset ELSE Desired(d, read.spec, read.policy, helm)
     IN  tmpl' = [tmpl EXCEPT ![d] = t] /\ requeue' = (requeue \/ t = Unset)
  /\ health' = [health EXCEPT ![d] = DaemonSetHealth(d)]
  /\ due' = (due \/ tmpl' # tmpl)
  /\ pc' = IF d = "fractiond" THEN "mpsd" ELSE "status"
  /\ UNCHANGED <<desired, counted, pod, read, stale, status, events>>

(* The template is created or overwritten and the ready pods are counted,  *)
(* whichever template they run; or the API server fails, before or after   *)
(* the write.                                                              *)
ReconcileDaemon(d) ==
  /\ pc = d
  /\ LET t == Desired(d, read.spec, read.policy, helm)
     IN  \/ /\ tmpl' = [tmpl EXCEPT ![d] = t]
            /\ health' = [health EXCEPT ![d] = DaemonSetHealth(d)]
            /\ requeue' = (requeue \/ DaemonSetHealth(d) \in 0 .. Cardinality(Node) - 1)
            /\ UNCHANGED events
         \/ /\ tmpl' \in {tmpl, [tmpl EXCEPT ![d] = t]}
            /\ requeue' = TRUE /\ Event /\ UNCHANGED health
  /\ due' = (due \/ tmpl' # tmpl)
  /\ pc' = IF d = "fractiond" THEN "mpsd" ELSE "status"
  /\ UNCHANGED <<desired, counted, pod, read, stale, status>>

(* A daemon without target nodes is ready too.                             *)
AggregateReady ==
  IF \A d \in Daemon : health[d] \in {NoTargetNodes, Cardinality(Node)} THEN "True" ELSE "False"

(* An update that changes the resource is an event.                        *)
UpdateStatus ==
  /\ pc = "status" /\ ~stale
  /\ status' = [of |-> read.spec, readable |-> read.policy # Unreadable,
                health |-> health, ready |-> Check(read.policy, AggregateReady, FALSE)]
  /\ due' = (due \/ requeue \/ status' # status)
  /\ Return
  /\ UNCHANGED <<desired, tmpl, counted, pod, events>>

(* The resource was edited since it was read, or the API server fails.     *)
UpdateStatusFails ==
  /\ pc = "status"
  /\ IF stale THEN UNCHANGED events ELSE Event
  /\ due' = TRUE
  /\ Return
  /\ UNCHANGED <<desired, tmpl, counted, pod, status>>

(* The operator restarts, perhaps with other Helm values.                  *)
Restart ==
  /\ \/ helm' \in Helms \ {helm} /\ Event
     \/ UNCHANGED helm /\ Event
  /\ due' = TRUE
  /\ Return
  /\ UNCHANGED <<spec, policy, tmpl, counted, pod, status>>

Reconcile ==
  \/ Begin \/ (\E d \in Daemon : ReconcileDaemon(d)) \/ UpdateStatus \/ UpdateStatusFails

Administrator == EditSpec \/ PolicyChanges \/ (\E d \in Daemon : Tamper(d))

Cluster ==
  \/ \E d \in Daemon : CountNodes(d)
  \/ \E n \in Node, d \in Daemon : ReplacePod(n, d) \/ CreatePod(n, d) \/ BecomeReady(n, d)

Next == Reconcile \/ Restart \/ Administrator \/ Cluster

Spec == Init /\ [][Next]_vars

(* The worker, the DaemonSet controller and the kubelet go on.             *)
FairSpec ==
  /\ Spec
  /\ WF_vars(Reconcile)
  /\ WF_vars(Cluster)

-----------------------------------------------------------------------------
(* What the DaemonSets should be.                                          *)
Current(d) == Desired(d, spec, policy, helm)

(* What the kubelet provides to a pod and what its processes use agree,    *)
(* although one is computed by the operator and the other by the binaries: *)
(* the ports that are probed are the ports they listen on, the sockets     *)
(* they dial and the directory they share are mounted, and the grace       *)
(* period is longer than mpsd's graceful stop.  The CRI socket is          *)
(* mounted where the operator has turned enforcement on.                   *)
Coherent(d, t) ==
  IF d = "mpsd"
  THEN /\ Mpsd(t).pipeDir \in t.mounts
       /\ Mpsd(t).gracefulStopDelay + 14000 < 1000 * t.grace
  ELSE /\ Fractiond(t).readinessPort = t.probePort
       /\ Fractiond(t).socketPath[1] \in t.mounts /\ Fractiond(t).pipeDir \in t.mounts
       /\ t.args.retroactiveEnforcement = TRUE => Fractiond(t).criSocket[1] \in t.mounts
       /\ t.sidecar # Unset =>
            /\ Fractiond(t).mapDir = Metricsd(t).mapDir
            /\ Metricsd(t).mapDir \in t.mounts \cap t.sidecar.mounts
            /\ Metricsd(t).address \in Ports => Metricsd(t).address = t.sidecar.probePort

PodsCoherent == \A n \in Node, d \in Daemon : pod[n][d] # Unset => Coherent(d, pod[n][d].tmpl)

Resting == pc = "idle" /\ ~due

(* The operator rests on templates that are those of the resource, the GPU *)
(* stack and the Helm values as they are now, whatever changed or failed   *)
(* in the middle of a pass, unless the status says that the ClusterPolicy  *)
(* cannot be read.                                                         *)
TemplatesCurrent ==
  Resting => ~status.readable \/ (\A d \in Daemon : tmpl[d] = Current(d))

(* Even then both daemons are told the same: fractiond asks for CDI        *)
(* devices if and only if mpsd is given its GPU by one, and both support   *)
(* SM sharing or neither does.                                             *)
DaemonsAgree ==
  Resting =>
    LET f == tmpl["fractiond"]
        m == tmpl["mpsd"]
    IN  /\ f # Unset /\ m # Unset
        /\ Fractiond(f).injectCDIDevice = ("mpsd" \in m.cdi)
        /\ Fractiond(f).supportSMSharing = Mpsd(m).supportSMSharing

FleetCurrent ==
  \A n \in Node, d \in Daemon : Ready(n, d) /\ pod[n][d].tmpl = Current(d)

(* A configuration that can work on this GPU stack reaches every node.     *)
FleetConverges ==
  ~<>[](/\ status.readable /\ ~FleetCurrent
        /\ \A d \in Daemon : Works(d, Current(d)))

(* One that cannot is not passed off as ready: Ready is not True for ever  *)
(* while a node is without a working pod of the current configuration,     *)
(* although the operator counts ready pods of any template, and takes a    *)
(* DaemonSet that counts no nodes for ready.                               *)
NeverSilentlyStale == ~<>[](status.ready = "True" /\ ~FleetCurrent)
=============================================================================
