----------------------------- MODULE Reconciler ----------------------------
(***************************************************************************)
(* The operator's GpuFractioningConfig controller, and the part of the     *)
(* cluster it works on: the DaemonSets and their pods, the node labels the *)
(* GPU Operator moves, the node conditions and the driver label.           *)
(*                                                                         *)
(* One Reconcile is a sequence of steps, one for each group of API calls;  *)
(* the cluster moves between them.  There is one request (the CR is a      *)
(* singleton) and one worker, so that dirty is the whole work queue: an    *)
(* event, an error and RequeueAfter all set it.                            *)
(***************************************************************************)
EXTENDS GpuStack, FiniteSets

CONSTANTS Node,       \* the nodes the resource targets
          Daemons,    \* what buildDaemons returns, in its order
          Policy,     \* states of the GPU stack
          SkipVersionChecks,
          Signals,    \* labels the GPU Operator moves: upgrade, client
          MaxFaults,  \* bound on failed API calls and crashes
          MaxChurn    \* bound on changes in the cluster

Daemon == {Daemons[i] : i \in DOMAIN Daemons}

ASSUME ReconcilerAssumption ==
  /\ IsFiniteSet(Node)
  /\ Daemons \in Seq({"fractiond", "mpsd"}) \ {<<>>}
  /\ Policy \subseteq GpuStacks
  /\ SkipVersionChecks \in BOOLEAN
  /\ Signals \subseteq {"upgrade", "client"}
  /\ MaxFaults \in Nat /\ MaxChurn \in Nat

VARIABLES
  cr, finalizer,      \* the custom resource: absent, live, deleting
  ready, inUpgrade,   \* its persisted Ready and DriverUpgradeInProgress
  reported,           \* the health its daemon conditions report
  ds, status,         \* DaemonSets that exist; their status in the cache
  pod,                \* pod[n][d]: none, starting, ready
  upgrade, client,    \* upgrade-state is active; gpu.deploy.client is true
  cond, label,        \* the node's Ready condition; it has a driver label
  watched,            \* changes of the GPU stack (policy) are watched
  pc, dirty,          \* where Reconcile is; a request is queued
  was, requeue, seen, \* wasUnhealthy, needsRequeue, clusterPolicy
  left, health,       \* daemons still to reconcile; what the others returned
  upgrading,          \* what evaluateDriverUpgrade returned
  todo, unhealthy,    \* pods still to be looked at, unhealthyNodes
  faults, churn,      \* failures and changes so far
  unpatched,          \* history: nodes whose last patch failed
  began               \* history: nodes whose upgrade drains a daemon

crvars == <<cr, finalizer, ready, inUpgrade, reported>>
dsvars == <<ds, status, pod>>
nodevars == <<upgrade, client, cond, label>>
gpuvars == <<policy, watched>>
passvars == <<was, requeue, seen, left, health, upgrading, todo, unhealthy>>
bounds == <<faults, churn>>
history == <<unpatched, began>>
vars == <<crvars, dsvars, nodevars, gpuvars, pc, dirty, passvars, bounds, history>>

Uncounted == [observed |-> FALSE, desired |-> 0, ready |-> 0, misscheduled |-> 0]
Failed == [err |-> TRUE, desired |-> 0, ready |-> 0]
Healths == [err : BOOLEAN, desired : Nat, ready : Nat]

TypeOK ==
  /\ cr \in {"absent", "live", "deleting"}
  /\ finalizer \in BOOLEAN
  /\ ready \in {"none", "True", "False"}
  /\ inUpgrade \in BOOLEAN
  /\ reported \in [Daemon -> Healths] /\ health \in [Daemon -> Healths]
  /\ ds \subseteq Daemon
  /\ status \in [Daemon -> [observed : BOOLEAN, desired : Nat, ready : Nat, misscheduled : Nat]]
  /\ pod \in [Node -> [Daemon -> {"none", "starting", "ready"}]]
  /\ upgrade \in [Node -> BOOLEAN] /\ client \in [Node -> BOOLEAN]
  /\ cond \in [Node -> {"none", "True", "False"}] /\ label \in [Node -> BOOLEAN]
  /\ policy \in Policy /\ seen \in Policy /\ watched \in BOOLEAN
  /\ pc \in {"idle", "daemons", "upgrade", "list", "pods", "status", "unpatch", "unlabel", "release"}
  /\ dirty \in BOOLEAN /\ was \in BOOLEAN /\ requeue \in BOOLEAN
  /\ left \in Seq(Daemon)
  /\ upgrading \in {"yes", "no", "error"}
  /\ todo \subseteq Node \X Daemon \X BOOLEAN
  /\ unhealthy \subseteq Node
  /\ faults \in 0 .. MaxFaults /\ churn \in 0 .. MaxChurn
  /\ unpatched \subseteq Node /\ began \subseteq Node

(* The operator has been installed; nothing has been asked of it.          *)
Init ==
  /\ cr = "absent" /\ finalizer = FALSE /\ ready = "none" /\ inUpgrade = FALSE
  /\ reported = [d \in Daemon |-> Failed] /\ health = reported
  /\ ds = {} /\ status = [d \in Daemon |-> Uncounted]
  /\ pod = [n \in Node |-> [d \in Daemon |-> "none"]]
  /\ upgrade = [n \in Node |-> FALSE] /\ client = [n \in Node |-> TRUE]
  /\ cond = [n \in Node |-> "none"] /\ label = [n \in Node |-> FALSE]
  /\ policy \in Policy /\ watched = (policy.kind # "absent")
  /\ pc = "idle" /\ dirty = FALSE
  /\ was = FALSE /\ requeue = FALSE /\ seen = policy /\ left = <<>>
  /\ upgrading = "no" /\ todo = {} /\ unhealthy = {}
  /\ faults = 0 /\ churn = 0
  /\ unpatched = {} /\ began = {}

Fault == faults < MaxFaults /\ faults' = faults + 1 /\ UNCHANGED churn
Churn == churn < MaxChurn /\ churn' = churn + 1 /\ UNCHANGED faults

-----------------------------------------------------------------------------
(* The cluster.                                                            *)

(* DaemonNodeSelector and driverUpgradeNodeAffinity.                       *)
Eligible(n) == client[n] /\ ~upgrade[n]

(* What the DaemonSet controller counts among the pods p.                  *)
Count(p, d) ==
  [observed |-> TRUE,
   desired |-> Cardinality({n \in Node : Eligible(n)}),
   ready |-> Cardinality({n \in Node : Eligible(n) /\ p[n][d] = "ready"}),
   misscheduled |-> Cardinality({n \in Node : ~Eligible(n) /\ p[n][d] # "none"})]

Counted(d) == Count(pod, d)

Drained(n) == \A d \in Daemon : pod[n][d] = "none"

CreateCR ==
  /\ cr = "absent" /\ ready = "none"
  /\ cr' = "live" /\ dirty' = TRUE
  /\ UNCHANGED <<finalizer, ready, inUpgrade, reported, dsvars, nodevars, gpuvars, pc, passvars, bounds, history>>

DeleteCR ==
  /\ cr = "live"
  /\ cr' = IF finalizer THEN "deleting" ELSE "absent"
  /\ dirty' = TRUE
  /\ Churn
  /\ UNCHANGED <<finalizer, ready, inUpgrade, reported, dsvars, nodevars, gpuvars, pc, passvars, history>>

CollectDaemonSet(d) ==
  /\ cr = "absent" /\ d \in ds
  /\ ds' = ds \ {d}
  /\ UNCHANGED <<crvars, status, pod, nodevars, gpuvars, pc, dirty, passvars, bounds, history>>

SetPod(n, d, s) == pod' = [pod EXCEPT ![n][d] = s]

(* The sync that creates the pod publishes its count; Owns enqueues the    *)
(* owner.                                                                  *)
SchedulePod(n, d) ==
  /\ d \in ds /\ Eligible(n) /\ pod[n][d] = "none"
  /\ SetPod(n, d, "starting")
  /\ status' = [status EXCEPT ![d] = Count(pod', d)]
  /\ dirty' = TRUE
  /\ UNCHANGED <<crvars, ds, nodevars, gpuvars, pc, passvars, bounds, history>>

(* mpsd labels its node before it starts its daemon.                       *)
PodReady(n, d) ==
  /\ pod[n][d] = "starting"
  /\ SetPod(n, d, "ready")
  /\ label' = [label EXCEPT ![n] = label[n] \/ d = "mpsd"]
  /\ UNCHANGED <<crvars, ds, status, upgrade, client, cond, gpuvars, pc, dirty, passvars, bounds, history>>

PodFails(n, d) ==
  /\ pod[n][d] = "ready"
  /\ SetPod(n, d, "starting")
  /\ Churn
  /\ UNCHANGED <<crvars, ds, status, nodevars, gpuvars, pc, dirty, passvars, history>>

(* The pod is gone, after the sync that deleted it published its count.    *)
DrainPod(n, d) ==
  /\ pod[n][d] # "none"
  /\ d \notin ds \/ (~Eligible(n) /\ status[d] = Counted(d))
  /\ SetPod(n, d, "none")
  /\ UNCHANGED <<crvars, ds, status, nodevars, gpuvars, pc, dirty, passvars, bounds, history>>

(* A later sync publishes its count; it has created the missing pods first. *)
StatusEvent(d) ==
  /\ d \in ds /\ status[d] # Counted(d)
  /\ \A n \in Node : Eligible(n) => pod[n][d] # "none"
  /\ status' = [status EXCEPT ![d] = Counted(d)]
  /\ dirty' = TRUE
  /\ UNCHANGED <<crvars, ds, pod, nodevars, gpuvars, pc, passvars, bounds, history>>

(* The GPU Operator moves one of its labels, and moves it back only after  *)
(* the daemons have left the node.                                         *)
MoveLabels(n) ==
  /\ \/ /\ "upgrade" \in Signals /\ (upgrade[n] => Drained(n))
        /\ upgrade' = [upgrade EXCEPT ![n] = ~@] /\ UNCHANGED client
        /\ began' = IF Eligible(n) /\ ~Drained(n) THEN began \cup {n} ELSE began \ {n}
     \/ /\ "client" \in Signals /\ (client[n] \/ Drained(n))
        /\ client' = [client EXCEPT ![n] = ~@] /\ UNCHANGED <<upgrade, began>>
  /\ Churn
  /\ UNCHANGED <<crvars, dsvars, cond, label, gpuvars, pc, dirty, passvars, unpatched>>

PolicyChanges ==
  /\ policy' \in Policy \ {policy}
  /\ dirty' = (dirty \/ (watched /\ cr # "absent"))
  /\ Churn
  /\ UNCHANGED <<crvars, dsvars, nodevars, watched, pc, passvars, history>>

-----------------------------------------------------------------------------
(* Reconcile.                                                              *)

(* Reconcile returns: its local variables are gone.  (seen is kept as what *)
(* was last read.)                                                         *)
Return ==
  /\ pc' = "idle"
  /\ was' = FALSE /\ requeue' = FALSE /\ left' = <<>> /\ upgrading' = "no"
  /\ health' = [d \in Daemon |-> Failed] /\ todo' = {} /\ unhealthy' = {}
  /\ UNCHANGED seen

(* An error: controller-runtime queues the request again.                  *)
Abort == Return /\ dirty' = TRUE

(* The resource is gone.                                                   *)
BeginNotFound ==
  /\ pc = "idle" /\ dirty /\ cr = "absent"
  /\ dirty' = FALSE
  /\ UNCHANGED <<crvars, dsvars, nodevars, gpuvars, pc, passvars, bounds, history>>

(* The finalizer first (its update is an event), then wasUnhealthy and the *)
(* ClusterPolicy, which may be unreadable this once.                       *)
Begin ==
  /\ pc = "idle" /\ dirty /\ cr = "live"
  /\ finalizer' = TRUE
  /\ dirty' = ~finalizer
  /\ was' = (ready # "True")
  /\ \/ seen' = policy /\ UNCHANGED bounds
     \/ seen' \in {p \in Policy : p.kind = "unreadable"} /\ Fault
  /\ requeue' = FALSE
  /\ left' = Daemons
  /\ pc' = "daemons"
  /\ UNCHANGED <<cr, ready, inUpgrade, reported, dsvars, nodevars, gpuvars, health, upgrading, todo,
                 unhealthy, history>>

FinalizerFails ==
  /\ pc = "idle" /\ dirty /\ cr = "live" /\ ~finalizer
  /\ Abort /\ Fault
  /\ UNCHANGED <<crvars, dsvars, nodevars, gpuvars, history>>

ReconcileDaemonMutant(d) ==
  /\ pc = "daemons" /\ d = Head(left)
  /\ \/ /\ ds' = ds \cup {d}
        /\ status' = IF d \in ds THEN status ELSE [status EXCEPT ![d] = Uncounted]
        /\ health' = [health EXCEPT ![d] = [err |-> FALSE, desired |-> status'[d].desired,
                                            ready |-> status'[d].ready]]
        /\ UNCHANGED bounds
     \/ /\ health' = [health EXCEPT ![d] = reported[d]]
        /\ Fault
        /\ UNCHANGED <<ds, status>>
  /\ requeue' = (requeue \/ health'[d].ready < health'[d].desired)
  /\ dirty' = (dirty \/ ds' # ds)
  /\ left' = Tail(left)
  /\ pc' = IF left' = <<>> THEN "upgrade" ELSE "daemons"
  /\ UNCHANGED <<crvars, pod, nodevars, gpuvars, was, seen, upgrading, todo, unhealthy, history>>

(* Create or update, then read the status: a DaemonSet that was just       *)
(* created has none yet.  After an error the DaemonSet may exist or not.   *)
ReconcileDaemon(d) ==
  /\ pc = "daemons" /\ d = Head(left)
  /\ \/ /\ ds' = ds \cup {d}
        /\ status' = IF d \in ds THEN status ELSE [status EXCEPT ![d] = Uncounted]
        /\ health' = [health EXCEPT ![d] = [err |-> FALSE, desired |-> status'[d].desired,
                                            ready |-> status'[d].ready]]
        /\ UNCHANGED bounds
     \/ /\ ds' \in {ds, ds \cup {d}}
        /\ status' = IF ds' = ds THEN status ELSE [status EXCEPT ![d] = Uncounted]
        /\ health' = [health EXCEPT ![d] = Failed]
        /\ Fault
  /\ requeue' = (requeue \/ health'[d].err \/ health'[d].ready < health'[d].desired)
  /\ dirty' = (dirty \/ ds' # ds)
  /\ left' = Tail(left)
  /\ pc' = IF left' = <<>> THEN "upgrade" ELSE "daemons"
  /\ UNCHANGED <<crvars, pod, nodevars, gpuvars, was, seen, upgrading, todo, unhealthy, history>>

EvaluateDriverUpgradeMutant ==
  /\ pc = "upgrade"
  /\ upgrading' = IF \E n \in Node : upgrade[n] THEN "yes" ELSE "no"
  /\ pc' = IF requeue \/ was THEN "list" ELSE "status"
  /\ UNCHANGED <<crvars, dsvars, nodevars, gpuvars, dirty, was, requeue, seen, left, health, todo,
                 unhealthy, bounds, history>>

(* The nodes in an upgrade lose their condition; a list or a patch fails.  *)
EvaluateDriverUpgrade ==
  /\ pc = "upgrade"
  /\ \E bad \in SUBSET {n \in Node : upgrade[n] /\ cond[n] # "none"}, listed \in BOOLEAN :
       LET gone == {n \in Node \ bad : listed /\ upgrade[n] /\ cond[n] # "none"}
           ok   == listed /\ bad = {}
       IN  /\ IF ok THEN UNCHANGED bounds ELSE Fault
           /\ cond' = [n \in Node |-> IF n \in gone THEN "none" ELSE cond[n]]
           /\ upgrading' = IF ~ok THEN "error" ELSE IF \E n \in Node : upgrade[n] THEN "yes" ELSE "no"
           /\ requeue' = (requeue \/ ~ok)
  /\ pc' = IF requeue' \/ was THEN "list" ELSE "status"
  /\ UNCHANGED <<crvars, dsvars, upgrade, client, label, gpuvars, dirty, was, seen, left, health, todo,
                 unhealthy, history>>

-----------------------------------------------------------------------------
(* patchNodeConditions.                                                    *)

ListPodsMutant ==
  /\ pc = "list"
  /\ todo' = {t \in Node \X Daemon \X {TRUE} : pod[t[1]][t[2]] = "ready"}
  /\ unhealthy' = {}
  /\ pc' = IF todo' = {} THEN "status" ELSE "pods"
  /\ UNCHANGED <<crvars, dsvars, nodevars, gpuvars, dirty, was, requeue, seen, left, health, upgrading,
                 bounds, history>>

ListPods ==
  /\ pc = "list"
  /\ todo' = {t \in Node \X Daemon \X BOOLEAN :
                pod[t[1]][t[2]] # "none" /\ t[3] = (pod[t[1]][t[2]] = "ready")}
  /\ unhealthy' = {}
  /\ pc' = IF todo' = {} THEN "status" ELSE "pods"
  /\ UNCHANGED <<crvars, dsvars, nodevars, gpuvars, dirty, was, requeue, seen, left, health, upgrading,
                 bounds, history>>

(* The list, or a later page of it, fails.                                 *)
ListFails ==
  /\ pc \in {"list", "pods"}
  /\ Fault
  /\ requeue' = TRUE
  /\ todo' = {}
  /\ pc' = "status"
  /\ UNCHANGED <<crvars, dsvars, nodevars, gpuvars, dirty, was, seen, left, health, upgrading, unhealthy,
                 history>>

PatchNodeCondition(n, isReady) ==
  \/ /\ cond' = [cond EXCEPT ![n] = IF isReady THEN "True" ELSE "False"]
     /\ unpatched' = unpatched \ {n}
     /\ UNCHANGED <<bounds, requeue>>
  \/ /\ unpatched' = unpatched \cup {n}
     /\ requeue' = TRUE
     /\ Fault
     /\ UNCHANGED cond

PatchPodMutant(n, d, isReady) ==
  /\ pc = "pods" /\ <<n, d, isReady>> \in todo
  /\ todo' = todo \ {<<n, d, isReady>>}
  /\ unhealthy' = IF isReady THEN unhealthy ELSE unhealthy \cup {n}
  /\ PatchNodeCondition(n, isReady)
  /\ pc' = IF todo' = {} THEN "status" ELSE "pods"
  /\ UNCHANGED <<crvars, dsvars, upgrade, client, label, gpuvars, dirty, was, seen, left, health, upgrading,
                 began>>

(* A ready pod on a node that is already unhealthy is skipped.             *)
PatchPod(n, d, isReady) ==
  /\ pc = "pods" /\ <<n, d, isReady>> \in todo
  /\ todo' = todo \ {<<n, d, isReady>>}
  /\ unhealthy' = IF isReady THEN unhealthy ELSE unhealthy \cup {n}
  /\ IF isReady /\ n \in unhealthy
     THEN UNCHANGED <<cond, requeue, bounds, unpatched>>
     ELSE PatchNodeCondition(n, isReady)
  /\ pc' = IF todo' = {} THEN "status" ELSE "pods"
  /\ UNCHANGED <<crvars, dsvars, upgrade, client, label, gpuvars, dirty, was, seen, left, health, upgrading,
                 began>>

-----------------------------------------------------------------------------
(* The end of the pass.                                                    *)

DaemonHealthToCondition(h) == ~h.err /\ (h.desired = 0 \/ h.ready = h.desired)

AggregateReadyCondition(hs) ==
  IF \A d \in Daemon : DaemonHealthToCondition(hs[d]) THEN "True" ELSE "False"

UpdateStatusMutant ==
  /\ pc = "status" /\ cr = "live"
  /\ ready' = Check(seen, AggregateReadyCondition(health), SkipVersionChecks)
  /\ inUpgrade' = (inUpgrade \/ upgrading = "yes")
  /\ reported' = health
  /\ dirty' = \/ dirty \/ requeue \/ unhealthy # {}
              \/ <<ready, inUpgrade, reported>>' # <<ready, inUpgrade, reported>>
  /\ Return
  /\ UNCHANGED <<cr, finalizer, dsvars, nodevars, gpuvars, bounds, history>>

(* An update that changes the resource is an event of its own.             *)
UpdateStatus ==
  /\ pc = "status" /\ cr = "live"
  /\ ready' = Check(seen, AggregateReadyCondition(health), SkipVersionChecks)
  /\ inUpgrade' = IF upgrading = "error" THEN inUpgrade ELSE upgrading = "yes"
  /\ reported' = health
  /\ dirty' = \/ dirty \/ requeue \/ unhealthy # {}
              \/ <<ready, inUpgrade, reported>>' # <<ready, inUpgrade, reported>>
  /\ Return
  /\ UNCHANGED <<cr, finalizer, dsvars, nodevars, gpuvars, bounds, history>>

(* The API server fails, or the resource has changed since it was read.    *)
UpdateStatusFails ==
  /\ pc = "status"
  /\ Abort
  /\ IF cr = "live" THEN Fault ELSE UNCHANGED bounds
  /\ UNCHANGED <<crvars, dsvars, nodevars, gpuvars, history>>

-----------------------------------------------------------------------------
(* reconcileDelete.                                                        *)

BeginDelete ==
  /\ pc = "idle" /\ dirty /\ cr = "deleting"
  /\ dirty' = FALSE
  /\ pc' = "unpatch"
  /\ UNCHANGED <<crvars, dsvars, nodevars, gpuvars, passvars, bounds, history>>

RemoveNodeConditionsMutant ==
  /\ pc = "unpatch"
  /\ \E bad \in SUBSET {n \in Node : cond[n] # "none"} :
       /\ cond' = [n \in Node |-> IF n \in bad THEN cond[n] ELSE "none"]
       /\ IF bad = {} THEN UNCHANGED bounds ELSE Fault
  /\ pc' = "unlabel"
  /\ UNCHANGED <<crvars, dsvars, upgrade, client, label, gpuvars, dirty, passvars, history>>

(* A sweep cleans every node it can, and stops here if it missed one or if *)
(* a page could not be listed.                                             *)
RemoveNodeConditions ==
  /\ pc = "unpatch"
  /\ \E bad \in SUBSET {n \in Node : cond[n] # "none"}, listed \in BOOLEAN :
       /\ cond' = [n \in Node |-> IF n \in bad THEN cond[n] ELSE "none"]
       /\ IF listed /\ bad = {}
          THEN pc' = "unlabel" /\ UNCHANGED <<dirty, passvars, bounds>>
          ELSE Abort /\ Fault
  /\ UNCHANGED <<crvars, dsvars, upgrade, client, label, gpuvars, history>>

RemoveDriverMajorLabelsMutant ==
  /\ pc = "unlabel"
  /\ \E bad \in SUBSET {n \in Node : label[n]} :
       /\ label' = [n \in Node |-> n \in bad]
       /\ bad # {} => Fault
       /\ bad = {} => UNCHANGED bounds
       /\ pc' = "idle" /\ UNCHANGED <<dirty, passvars>>
  /\ UNCHANGED <<crvars, dsvars, upgrade, client, cond, gpuvars, history>>

RemoveDriverMajorLabels ==
  /\ pc = "unlabel"
  /\ \E bad \in SUBSET {n \in Node : label[n]}, listed \in BOOLEAN :
       /\ label' = [n \in Node |-> n \in bad]
       /\ IF listed /\ bad = {}
          THEN pc' = "release" /\ UNCHANGED <<dirty, passvars, bounds>>
          ELSE Abort /\ Fault
  /\ UNCHANGED <<crvars, dsvars, upgrade, client, cond, gpuvars, history>>

ReleaseFinalizer ==
  /\ pc = "release"
  /\ \/ cr' = "absent" /\ finalizer' = FALSE /\ Return /\ dirty' = TRUE /\ UNCHANGED bounds
     \/ Abort /\ Fault /\ UNCHANGED <<cr, finalizer>>
  /\ UNCHANGED <<ready, inUpgrade, reported, dsvars, nodevars, gpuvars, history>>

-----------------------------------------------------------------------------
(* The operator restarts, or another replica takes the lease: every        *)
(* resource is queued, and the ClusterPolicy is watched if there is one.   *)
Restart ==
  /\ Return
  /\ dirty' = (cr # "absent")
  /\ watched' = (policy.kind # "absent")
  /\ Fault
  /\ UNCHANGED <<crvars, dsvars, nodevars, policy, history>>

Reconcile ==
  \/ BeginNotFound \/ Begin \/ FinalizerFails
  \/ \E d \in Daemon : ReconcileDaemon(d)
  \/ EvaluateDriverUpgrade
  \/ ListPods \/ ListFails
  \/ \E n \in Node, d \in Daemon, r \in BOOLEAN : PatchPod(n, d, r)
  \/ UpdateStatus \/ UpdateStatusFails
  \/ BeginDelete \/ RemoveNodeConditions \/ RemoveDriverMajorLabels \/ ReleaseFinalizer

Cluster ==
  \/ CreateCR \/ DeleteCR \/ PolicyChanges
  \/ \E d \in Daemon : CollectDaemonSet(d)
  \/ \E n \in Node, d \in Daemon :
       SchedulePod(n, d) \/ PodReady(n, d) \/ PodFails(n, d) \/ DrainPod(n, d)
  \/ \E n \in Node : MoveLabels(n)

StatusEvents == \E d \in Daemon : StatusEvent(d)

Next == Reconcile \/ Cluster \/ StatusEvents \/ Restart

Spec == Init /\ [][Next]_vars

(* The worker takes its steps, the DaemonSet controller creates the pods   *)
(* it owes, and the informer delivers.                                     *)
FairSpec ==
  /\ Spec
  /\ WF_vars(Reconcile) /\ WF_vars(StatusEvents)
  /\ WF_vars(\E n \in Node, d \in Daemon : SchedulePod(n, d))

-----------------------------------------------------------------------------
Idle == cr = "live" /\ pc = "idle" /\ ~dirty

(* The informer has delivered everything, and the operator has handled it. *)
Quiescent == Idle /\ \A d \in Daemon : status[d] = Counted(d)

(* The operator does not rest while a daemon is short of a node: when it   *)
(* rests, the persisted conditions are those of the DaemonSets as they     *)
(* are, all of them complete, and Ready is True unless the GPU stack as it *)
(* last read it is at fault, whatever was interrupted, lost or changed     *)
(* half way through a pass.                                                *)
StatusConverges ==
  Quiescent =>
    /\ \A d \in Daemon :
         /\ reported[d] = [err |-> FALSE, desired |-> Counted(d).desired, ready |-> Counted(d).ready]
         /\ reported[d].ready = reported[d].desired
    /\ (ready = "True") <=> (CheckReason(seen, "True", SkipVersionChecks) = "")
    /\ watched => seen = policy \/ seen.kind = "unreadable"

(* DriverUpgradeInProgress follows the upgrades, although only the         *)
(* DaemonSets' status wakes the operator and no Node is watched: one that  *)
(* found a daemon on its node is reported, and none is once the daemons    *)
(* may run everywhere.  (An upgrade of a node whose daemons have not come  *)
(* back from the last one changes no count, and may go by unnoticed.)      *)
UpgradeReflected ==
  Quiescent =>
    /\ began # {} => inUpgrade
    /\ inUpgrade => \E n \in Node : ~Eligible(n)

(* A node that an upgrade has drained does not go on advertising Ready,    *)
(* although patchNodeConditions may have put the condition back from a     *)
(* pod that was still terminating.                                         *)
UpgradedNodeCleared ==
  Quiescent => \A n \in began : Drained(n) => cond[n] = "none"

(* One daemon that is not ready makes its node not ready at the end of the *)
(* pass, in whatever order the pods were listed, unless the patch failed.  *)
PassReportsUnhealthy ==
  pc = "status" => \A n \in unhealthy \ unpatched : cond[n] = "False"

(* No condition outlives the resource: the finalizer is there before the   *)
(* first patch and is released after the last node is clean.               *)
ConditionsCleanedUp == cr = "absent" => \A n \in Node : cond[n] = "none"

(* A node with a daemon that stays down is eventually reported.            *)
UnhealthyReported ==
  \A n \in Node :
    ~<>[](/\ cr = "live" /\ Eligible(n) /\ cond[n] # "False"
          /\ \E d \in ds : pod[n][d] = "starting")

(* A deletion completes once the API server answers.                       *)
DeletionCompletes == (cr = "deleting") ~> (cr = "absent")

(* gpufractioningconfig_controller.go: "Per-node patch failures are        *)
(* collected and joined so the caller requeues and retries them".          *)
PatchFailuresRetried == Quiescent => unpatched = {}
=============================================================================
