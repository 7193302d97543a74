--------------------------- MODULE ReconcilerInv ---------------------------
(***************************************************************************)
(* The inductive invariant of the operator, and the relations between two  *)
(* states that its proof goes through.                                     *)
(***************************************************************************)
EXTENDS Reconciler

Pass == {"daemons", "upgrade", "list", "pods", "status"}
Evaluated == {"list", "pods", "status"}
Deletion == {"unpatch", "unlabel", "release"}

(* The finalizer is there from before the first patch until after the last *)
(* node is clean.                                                          *)
LifeInv ==
  /\ cr = "absent" => ~finalizer
  /\ cr = "deleting" => finalizer
  /\ ~finalizer => pc = "idle" /\ \A n \in Node : cond[n] = "none"
  /\ pc \in Deletion => cr = "deleting"
  /\ pc \in {"unlabel", "release"} => \A n \in Node : cond[n] = "none"

(* The local variables of a pass; what is patched so far.                  *)
LocalInv ==
  /\ pc # "pods" => todo = {}
  /\ pc \notin {"pods", "status"} => unhealthy = {}
  /\ \A n \in unhealthy \ unpatched : cond[n] = "False"
  /\ pc = "daemons" <=> left # <<>>
  /\ pc = "idle" => ~requeue
  /\ upgrading = "error" => requeue
  /\ \A n \in began : upgrade[n]

(* Nodes with a pod of d, and those of them that may have one.             *)
WithPod(d) == {n \in Node : pod[n][d] # "none"}
Serving(d) == {n \in Node : Eligible(n) /\ pod[n][d] # "none"}

(* A status bounds the pods: until the next one they only become fewer.    *)
CountInv ==
  \A d \in Daemon : status[d].observed =>
    /\ Cardinality(Serving(d)) <= status[d].desired
    /\ Cardinality(WithPod(d)) <= status[d].desired + status[d].misscheduled

(* The DaemonSet controller owes a status: a pod, or the claim of a node   *)
(* to one, has gone since the last.                                        *)
Behind(d) ==
  status[d].observed =>
    \/ Cardinality(Serving(d)) < status[d].desired
    \/ Cardinality(WithPod(d)) < status[d].desired + status[d].misscheduled

Owed == \E d \in Daemon : Behind(d)

(* h is what ReconcileDaemon would return again, and is no reason to       *)
(* requeue.                                                                *)
Known(d, h) ==
  /\ d \in ds
  /\ h = [err |-> FALSE, desired |-> status[d].desired, ready |-> status[d].ready]
  /\ ~(status[d].ready < status[d].desired)

Pending(d) == \E i \in 1 .. Len(left) : left[i] = d

(* Nothing has been queued since the pass began, nor found to be retried.  *)
Settled == cr = "live" /\ ~dirty /\ ~requeue

(* A daemon is away from some node, or may be.                             *)
SomeAway == \E n \in Node : ~Eligible(n) \/ Drained(n)

(* No upgrade drains a node, or a status is owed.                          *)
NoneBegan == began = {} \/ Owed

(* A node in such an upgrade has no condition and will get none, or has a  *)
(* pod still, or a status is owed.                                         *)
BegunCleared ==
  \A n \in began : cond[n] # "none" \/ (\E t \in todo : t[1] = n) => ~Drained(n) \/ Owed

(* What the last evaluateDriverUpgrade found, as b has it, still holds or  *)
(* a status is owed.                                                       *)
UpgradeKnown(b) == (b => SomeAway) /\ (~b => NoneBegan) /\ BegunCleared

SettledInv ==
  Settled =>
    /\ watched => seen = policy \/ seen.kind = "unreadable"
    /\ pc \in Pass => \A d \in Daemon : Pending(d) \/ Known(d, health[d])
    /\ pc \in Evaluated => UpgradeKnown(upgrading = "yes")
    /\ pc = "idle" =>
         /\ \A d \in Daemon : Known(d, reported[d])
         /\ ready = Check(seen, AggregateReadyCondition(reported), SkipVersionChecks)
         /\ UpgradeKnown(inUpgrade)

IInv == TypeOK /\ LifeInv /\ LocalInv /\ CountInv /\ SettledInv

-----------------------------------------------------------------------------
(* TypeOK by the groups of variables that actions leave alone.             *)

Statuses == [observed : BOOLEAN, desired : Nat, ready : Nat, misscheduled : Nat]

CrOK ==
  /\ cr \in {"absent", "live", "deleting"} /\ finalizer \in BOOLEAN
  /\ ready \in {"none", "True", "False"} /\ inUpgrade \in BOOLEAN
  /\ reported \in [Daemon -> Healths]

DsOK ==
  /\ ds \subseteq Daemon
  /\ status \in [Daemon -> Statuses]
  /\ pod \in [Node -> [Daemon -> {"none", "starting", "ready"}]]

NodeOK ==
  /\ upgrade \in [Node -> BOOLEAN] /\ client \in [Node -> BOOLEAN]
  /\ cond \in [Node -> {"none", "True", "False"}] /\ label \in [Node -> BOOLEAN]

GpuOK == policy \in Policy /\ watched \in BOOLEAN

QueueOK == pc \in {"idle"} \cup Pass \cup Deletion /\ dirty \in BOOLEAN

PassOK ==
  /\ was \in BOOLEAN /\ requeue \in BOOLEAN /\ seen \in Policy
  /\ left \in Seq(Daemon) /\ health \in [Daemon -> Healths]
  /\ upgrading \in {"yes", "no", "error"}
  /\ todo \in SUBSET (Node \X Daemon \X BOOLEAN) /\ unhealthy \in SUBSET Node

BoundsOK == faults \in 0 .. MaxFaults /\ churn \in 0 .. MaxChurn

HistoryOK == unpatched \in SUBSET Node /\ began \in SUBSET Node

-----------------------------------------------------------------------------
(* Counting pods.                                                          *)

(* What the counts rest on: the nodes are finite.                          *)
Cardinals ==
  /\ \A S, T : S \subseteq Node /\ T \subseteq S =>
       /\ Cardinality(S) \in Nat /\ Cardinality(T) \in Nat
       /\ Cardinality(T) <= Cardinality(S)
       /\ Cardinality(T) = Cardinality(S) => T = S
  /\ \A S, T : S \subseteq Node /\ T \subseteq Node /\ S \cap T = {} =>
       Cardinality(S \cup T) = Cardinality(S) + Cardinality(T)

(* A fresh status bounds the pods of d.                                    *)
Covers(d) ==
  /\ Counted(d).ready <= Cardinality(Serving(d))
  /\ Cardinality(Serving(d)) <= Counted(d).desired
  /\ Cardinality(WithPod(d)) = Cardinality(Serving(d)) + Counted(d).misscheduled

AllCover == \A d \in Daemon : Covers(d)

(* Between two statuses a daemon only loses pods and nodes.                *)
Shrinks(d) ==
  /\ status'[d] = status[d]
  /\ WithPod(d)' \subseteq WithPod(d)
  /\ Serving(d)' \subseteq Serving(d)

(* What a step does to the pods of d as its status has them.               *)
Refreshes(d) == status'[d] = Counted(d)' \/ ~status'[d].observed

(* The steps after which nothing is queued.                                *)
Outside ==
  \/ PolicyChanges \/ UNCHANGED vars
  \/ \E n \in Node, d \in Daemon : PodReady(n, d) \/ PodFails(n, d) \/ DrainPod(n, d)
  \/ \E n \in Node : MoveLabels(n)

Inside ==
  \/ \E d \in Daemon : ReconcileDaemon(d)
  \/ EvaluateDriverUpgrade \/ ListPods \/ UpdateStatus
  \/ \E n \in Node, d \in Daemon, r \in BOOLEAN : PatchPod(n, d, r)
=============================================================================
