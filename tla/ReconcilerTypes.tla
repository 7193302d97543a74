-------------------------- MODULE ReconcilerTypes --------------------------
(***************************************************************************)
(* Types, the life of the resource and the local variables of a pass; the  *)
(* steps after which nothing is queued.                                    *)
(***************************************************************************)
EXTENDS ReconcilerInv, TLAPS

(* There is a first daemon, and it is a daemon.                            *)
LEMMA DaemonsTyped ==
  /\ Daemons \in Seq(Daemon) /\ Daemons # <<>>
  /\ \A d \in Daemon : \E i \in 1 .. Len(Daemons) : Daemons[i] = d
  BY ReconcilerAssumption DEF Daemon

(* The DaemonSet controller counts in numbers.                             *)
LEMMA CountTyped ==
  ASSUME Cardinals, NEW p, NEW d
  PROVE  Count(p, d) \in Statuses
  <1>1. /\ Cardinality({n \in Node : Eligible(n)}) \in Nat
        /\ Cardinality({n \in Node : Eligible(n) /\ p[n][d] = "ready"}) \in Nat
        /\ Cardinality({n \in Node : ~Eligible(n) /\ p[n][d] # "none"}) \in Nat
    BY DEF Cardinals
  <1> QED
    BY <1>1 DEF Count, Statuses

(* Setting a pod sets that pod.                                            *)
LEMMA PodSet ==
  ASSUME TypeOK, NEW n \in Node, NEW d \in Daemon, NEW s \in {"none", "starting", "ready"},
         SetPod(n, d, s)
  PROVE  /\ pod' \in [Node -> [Daemon -> {"none", "starting", "ready"}]]
         /\ \A m \in Node, e \in Daemon :
              pod'[m][e] = IF m = n /\ e = d THEN s ELSE pod[m][e]
  BY DEF TypeOK, SetPod

(* The groups make up the type invariant.                                  *)
LEMMA TypeGroups ==
  TypeOK <=> CrOK /\ DsOK /\ NodeOK /\ GpuOK /\ QueueOK /\ PassOK /\ BoundsOK /\ HistoryOK
  <1>1. pc \in {"idle"} \cup Pass \cup Deletion <=>
          pc \in {"idle", "daemons", "upgrade", "list", "pods", "status", "unpatch", "unlabel", "release"}
    BY DEF Pass, Deletion
  <1> QED
    BY <1>1, Zenon DEF TypeOK, CrOK, DsOK, NodeOK, GpuOK, QueueOK, PassOK, BoundsOK, HistoryOK, Statuses

(* A group of variables left alone keeps its type.                         *)
LEMMA TypeFrames ==
  /\ CrOK /\ UNCHANGED crvars => CrOK'
  /\ DsOK /\ UNCHANGED dsvars => DsOK'
  /\ NodeOK /\ UNCHANGED nodevars => NodeOK'
  /\ GpuOK /\ UNCHANGED gpuvars => GpuOK'
  /\ PassOK /\ UNCHANGED passvars => PassOK'
  /\ BoundsOK /\ (Fault \/ Churn \/ UNCHANGED bounds) => BoundsOK'
  /\ HistoryOK /\ UNCHANGED history => HistoryOK'
  <1>1. CrOK /\ UNCHANGED crvars => CrOK'
    BY DEF CrOK, crvars
  <1>2. DsOK /\ UNCHANGED dsvars => DsOK'
    BY DEF DsOK, dsvars
  <1>3. NodeOK /\ UNCHANGED nodevars => NodeOK'
    BY DEF NodeOK, nodevars
  <1>4. GpuOK /\ UNCHANGED gpuvars => GpuOK'
    BY DEF GpuOK, gpuvars
  <1>5. PassOK /\ UNCHANGED passvars => PassOK'
    BY DEF PassOK, passvars
  <1>6. BoundsOK /\ (Fault \/ Churn \/ UNCHANGED bounds) => BoundsOK'
    BY ReconcilerAssumption DEF BoundsOK, Fault, Churn, bounds
  <1>7. HistoryOK /\ UNCHANGED history => HistoryOK'
    BY DEF HistoryOK, history
  <1> QED
    BY <1>1, <1>2, <1>3, <1>4, <1>5, <1>6, <1>7

(* Ending a pass.                                                          *)
LEMMA ReturnTyped == PassOK /\ Return => PassOK' /\ pc' = "idle"
  <1> SUFFICES ASSUME PassOK, Return PROVE PassOK' /\ pc' = "idle"
    OBVIOUS
  <1>1. health' \in [Daemon -> Healths]
    <2>1. Failed \in Healths
      BY DEF Failed, Healths
    <2> QED
      BY <2>1 DEF Return
  <1>2. left' \in Seq(Daemon)
    BY DEF Return
  <1> QED
    BY <1>1, <1>2, Zenon DEF Return, PassOK

(* The groups of the next state make up its type invariant.                *)
LEMMA TypeGroupsNext ==
  CrOK' /\ DsOK' /\ NodeOK' /\ GpuOK' /\ QueueOK' /\ PassOK' /\ BoundsOK' /\ HistoryOK' => TypeOK'
  BY TypeGroups, PTL

(* The steps of the cluster keep the types.                                *)
LEMMA ClusterTyped == Cardinals /\ TypeOK /\ (Cluster \/ StatusEvents) => TypeOK'
  <1> SUFFICES ASSUME Cardinals, TypeOK, Cluster \/ StatusEvents PROVE TypeOK'
    OBVIOUS
  <1>0. /\ CrOK /\ DsOK /\ NodeOK /\ GpuOK /\ QueueOK /\ PassOK /\ BoundsOK /\ HistoryOK
        /\ pc' = pc /\ dirty' \in BOOLEAN => QueueOK'
    BY TypeGroups DEF QueueOK
  <1> USE <1>0
  <1>1. CASE CreateCR
    <2>1. CrOK'
      BY <1>1 DEF CreateCR, CrOK
    <2> QED
      BY TypeGroupsNext, TypeFrames, <1>1, <2>1 DEF CreateCR
  <1>2. CASE DeleteCR
    <2>1. CrOK'
      BY <1>2 DEF DeleteCR, CrOK
    <2> QED
      BY TypeGroupsNext, TypeFrames, <1>2, <2>1 DEF DeleteCR
  <1>3. CASE PolicyChanges
    <2>1. GpuOK' /\ dirty' \in BOOLEAN
      BY <1>3 DEF PolicyChanges, GpuOK
    <2> QED
      BY TypeGroupsNext, TypeFrames, <1>3, <2>1 DEF PolicyChanges
  <1>4. ASSUME NEW d \in Daemon, CollectDaemonSet(d) PROVE TypeOK'
    <2>1. DsOK' /\ dirty' \in BOOLEAN
      BY <1>4 DEF CollectDaemonSet, DsOK, QueueOK
    <2> QED
      BY TypeGroupsNext, TypeFrames, <1>4, <2>1 DEF CollectDaemonSet
  <1>5. ASSUME NEW n \in Node, NEW d \in Daemon, SchedulePod(n, d) PROVE TypeOK'
    <2>1. status' \in [Daemon -> Statuses]
      BY <1>5, CountTyped DEF SchedulePod, DsOK
    <2>2. DsOK'
      BY <1>5, <2>1, PodSet DEF SchedulePod, DsOK
    <2> QED
      BY TypeGroupsNext, TypeFrames, <1>5, <2>2 DEF SchedulePod
  <1>6. ASSUME NEW n \in Node, NEW d \in Daemon, PodReady(n, d) PROVE TypeOK'
    <2>1. DsOK' /\ dirty' \in BOOLEAN
      BY <1>6, PodSet DEF PodReady, DsOK, QueueOK
    <2>2. NodeOK'
      BY <1>6 DEF PodReady, NodeOK
    <2> QED
      BY TypeGroupsNext, TypeFrames, <1>6, <2>1, <2>2 DEF PodReady
  <1>7. ASSUME NEW n \in Node, NEW d \in Daemon, PodFails(n, d) \/ DrainPod(n, d) PROVE TypeOK'
    <2>1. DsOK' /\ dirty' \in BOOLEAN
      BY <1>7, PodSet DEF PodFails, DrainPod, DsOK, QueueOK
    <2> QED
      BY TypeGroupsNext, TypeFrames, <1>7, <2>1 DEF PodFails, DrainPod
  <1>8. ASSUME NEW n \in Node, MoveLabels(n) PROVE TypeOK'
    <2>1. NodeOK' /\ HistoryOK' /\ dirty' \in BOOLEAN
      BY <1>8, Zenon DEF MoveLabels, NodeOK, HistoryOK, QueueOK
    <2> QED
      BY TypeGroupsNext, TypeFrames, <1>8, <2>1 DEF MoveLabels
  <1>9. ASSUME NEW d \in Daemon, StatusEvent(d) PROVE TypeOK'
    <2>1. DsOK'
      BY <1>9, CountTyped DEF StatusEvent, Counted, DsOK
    <2> QED
      BY TypeGroupsNext, TypeFrames, <1>9, <2>1 DEF StatusEvent
  <1> QED
    BY <1>1, <1>2, <1>3, <1>4, <1>5, <1>6, <1>7, <1>8, <1>9 DEF Cluster, StatusEvents

(* Reconciling a daemon keeps the types.                                   *)
LEMMA DaemonTyped ==
  ASSUME TypeOK, NEW d \in Daemon, ReconcileDaemon(d), left # <<>>
  PROVE  DsOK' /\ PassOK' /\ QueueOK' /\ BoundsOK'
  <1>0. DsOK /\ PassOK /\ QueueOK /\ BoundsOK
    BY TypeGroups
  <1>1. ds' \subseteq Daemon /\ pod' = pod
    BY <1>0 DEF ReconcileDaemon, DsOK
  <1>2. status' \in [Daemon -> Statuses]
    <2>1. Uncounted \in Statuses
      BY DEF Uncounted, Statuses
    <2>2. status' = status \/ status' = [status EXCEPT ![d] = Uncounted]
      BY DEF ReconcileDaemon
    <2> QED
      BY <1>0, <2>1, <2>2 DEF DsOK
  <1>3. DsOK'
    BY <1>0, <1>1, <1>2 DEF DsOK
  <1>4. health' \in [Daemon -> Healths]
    <2> DEFINE h == [err |-> FALSE, desired |-> status'[d].desired, ready |-> status'[d].ready]
    <2>1. h \in Healths /\ Failed \in Healths
      BY <1>2 DEF Failed, Healths, Statuses
    <2>2. health' = [health EXCEPT ![d] = h] \/ health' = [health EXCEPT ![d] = Failed]
      BY DEF ReconcileDaemon
    <2> HIDE DEF h
    <2> QED
      BY <1>0, <2>1, <2>2 DEF PassOK
  <1>5. left' \in Seq(Daemon)
    BY <1>0 DEF ReconcileDaemon, PassOK
  <1>6. dirty' \in BOOLEAN /\ requeue' \in BOOLEAN
    BY DEF ReconcileDaemon
  <1>7. PassOK'
    BY <1>0, <1>4, <1>5, <1>6 DEF ReconcileDaemon, PassOK
  <1>8. QueueOK'
    BY <1>6 DEF ReconcileDaemon, QueueOK, Pass
  <1>9. BoundsOK'
    BY <1>0, TypeFrames DEF ReconcileDaemon
  <1> QED
    BY <1>3, <1>7, <1>8, <1>9

(* The verdict is a condition status.                                      *)
LEMMA CheckTyped ==
  ASSUME NEW p, NEW hs, NEW skip
  PROVE  Check(p, AggregateReadyCondition(hs), skip) \in {"True", "False"}
  BY DEF Check, AggregateReadyCondition

(* The steps of the operator keep the types.                               *)
LEMMA ReconcileTyped == TypeOK /\ LocalInv /\ (Reconcile \/ Restart) => TypeOK'
  <1> SUFFICES ASSUME TypeOK, LocalInv, Reconcile \/ Restart PROVE TypeOK'
    OBVIOUS
  <1>0. CrOK /\ DsOK /\ NodeOK /\ GpuOK /\ QueueOK /\ PassOK /\ BoundsOK /\ HistoryOK
    BY TypeGroups
  <1> USE <1>0
  <1>1. CASE BeginNotFound \/ BeginDelete
    <2>1. QueueOK'
      BY <1>1, Zenon DEF BeginNotFound, BeginDelete, QueueOK, Deletion
    <2> QED
      BY TypeGroupsNext, TypeFrames, <1>1, <2>1 DEF BeginNotFound, BeginDelete
  <1>2. CASE Begin
    <2>1. CrOK'
      BY <1>2 DEF Begin, CrOK
    <2>2. QueueOK'
      BY <1>2 DEF Begin, QueueOK, Pass
    <2>3. seen' \in Policy /\ was' \in BOOLEAN
      BY <1>2 DEF Begin, GpuOK
    <2>4. PassOK'
      BY <1>2, <2>3, DaemonsTyped, Zenon DEF Begin, PassOK
    <2> QED
      BY TypeGroupsNext, TypeFrames, <1>2, <2>1, <2>2, <2>4 DEF Begin
  <1>3. CASE FinalizerFails \/ UpdateStatusFails
    <2>1. QueueOK' /\ PassOK'
      BY <1>3, ReturnTyped, Zenon DEF FinalizerFails, UpdateStatusFails, Abort, QueueOK
    <2> QED
      BY TypeGroupsNext, TypeFrames, <1>3, <2>1 DEF FinalizerFails, UpdateStatusFails
  <1>4. ASSUME NEW d \in Daemon, ReconcileDaemon(d) PROVE TypeOK'
    <2>1. left # <<>>
      BY <1>4 DEF ReconcileDaemon, LocalInv
    <2> QED
      BY TypeGroupsNext, TypeFrames, <1>4, <2>1, DaemonTyped DEF ReconcileDaemon
  <1>5. CASE EvaluateDriverUpgrade
    <2>1. cond' \in [Node -> {"none", "True", "False"}]
      BY <1>5 DEF EvaluateDriverUpgrade, NodeOK
    <2>2. NodeOK'
      BY <1>5, <2>1 DEF EvaluateDriverUpgrade, NodeOK
    <2>3. upgrading' \in {"yes", "no", "error"} /\ requeue' \in BOOLEAN
      BY <1>5 DEF EvaluateDriverUpgrade
    <2>4. PassOK'
      BY <1>5, <2>3 DEF EvaluateDriverUpgrade, PassOK
    <2>5. QueueOK'
      BY <1>5 DEF EvaluateDriverUpgrade, QueueOK, Pass
    <2>6. BoundsOK'
      BY TypeFrames, <1>5 DEF EvaluateDriverUpgrade
    <2> QED
      BY TypeGroupsNext, TypeFrames, <1>5, <2>2, <2>4, <2>5, <2>6 DEF EvaluateDriverUpgrade
  <1>6. CASE ListPods
    <2>1. PassOK'
      BY <1>6 DEF ListPods, PassOK
    <2>2. QueueOK'
      BY <1>6 DEF ListPods, QueueOK, Pass
    <2> QED
      BY TypeGroupsNext, TypeFrames, <1>6, <2>1, <2>2 DEF ListPods
  <1>7. CASE ListFails
    <2>1. PassOK'
      BY <1>7 DEF ListFails, PassOK
    <2>2. QueueOK'
      BY <1>7 DEF ListFails, QueueOK, Pass
    <2> QED
      BY TypeGroupsNext, TypeFrames, <1>7, <2>1, <2>2 DEF ListFails
  <1>8. ASSUME NEW n \in Node, NEW d \in Daemon, NEW r \in BOOLEAN, PatchPod(n, d, r) PROVE TypeOK'
    <2>1. /\ cond' = cond \/ cond' = [cond EXCEPT ![n] = IF r THEN "True" ELSE "False"]
          /\ unpatched' = unpatched \/ unpatched' = unpatched \ {n} \/ unpatched' = unpatched \cup {n}
          /\ requeue' = requeue \/ requeue' = TRUE
          /\ Fault \/ UNCHANGED bounds
      BY <1>8 DEF PatchPod, PatchNodeCondition
    <2>2. NodeOK' /\ HistoryOK'
      BY <1>8, <2>1 DEF PatchPod, NodeOK, HistoryOK
    <2>3. PassOK'
      BY <1>8, <2>1, Zenon DEF PatchPod, PassOK
    <2>4. QueueOK'
      BY <1>8 DEF PatchPod, QueueOK, Pass
    <2>5. BoundsOK'
      BY TypeFrames, <2>1
    <2> QED
      BY TypeGroupsNext, TypeFrames, <1>8, <2>2, <2>3, <2>4, <2>5 DEF PatchPod
  <1>9. CASE UpdateStatus
    <2>1. ready' \in {"none", "True", "False"}
      BY <1>9, CheckTyped DEF UpdateStatus
    <2>2. CrOK'
      BY <1>9, <2>1, Zenon DEF UpdateStatus, CrOK, PassOK
    <2>3. QueueOK' /\ PassOK'
      BY <1>9, ReturnTyped DEF UpdateStatus, QueueOK
    <2> QED
      BY TypeGroupsNext, TypeFrames, <1>9, <2>2, <2>3 DEF UpdateStatus
  <1>10. CASE RemoveNodeConditions
    <2>1. cond' \in [Node -> {"none", "True", "False"}]
      BY <1>10 DEF RemoveNodeConditions, NodeOK
    <2>2. NodeOK'
      BY <1>10, <2>1 DEF RemoveNodeConditions, NodeOK
    <2>3. QueueOK' /\ PassOK' /\ BoundsOK'
      BY TypeFrames, <1>10, ReturnTyped, Zenon DEF RemoveNodeConditions, Abort, QueueOK, Deletion
    <2> QED
      BY TypeGroupsNext, TypeFrames, <1>10, <2>2, <2>3 DEF RemoveNodeConditions
  <1>11. CASE RemoveDriverMajorLabels
    <2>1. NodeOK'
      BY <1>11 DEF RemoveDriverMajorLabels, NodeOK
    <2>2. QueueOK' /\ PassOK' /\ BoundsOK'
      BY TypeFrames, <1>11, ReturnTyped, Zenon DEF RemoveDriverMajorLabels, Abort, QueueOK, Deletion
    <2> QED
      BY TypeGroupsNext, TypeFrames, <1>11, <2>1, <2>2 DEF RemoveDriverMajorLabels
  <1>12. CASE ReleaseFinalizer
    <2>1. CrOK'
      BY <1>12, Zenon DEF ReleaseFinalizer, CrOK
    <2>2. QueueOK' /\ PassOK' /\ BoundsOK'
      BY TypeFrames, <1>12, ReturnTyped, Zenon DEF ReleaseFinalizer, Abort, QueueOK
    <2> QED
      BY TypeGroupsNext, TypeFrames, <1>12, <2>1, <2>2 DEF ReleaseFinalizer
  <1>13. CASE Restart
    <2>1. QueueOK' /\ PassOK'
      BY <1>13, ReturnTyped DEF Restart, QueueOK
    <2>2. GpuOK'
      BY <1>13 DEF Restart, GpuOK
    <2> QED
      BY TypeGroupsNext, TypeFrames, <1>13, <2>1, <2>2 DEF Restart
  <1> QED
    BY <1>1, <1>2, <1>3, <1>4, <1>5, <1>6, <1>7, <1>8, <1>9, <1>10, <1>11, <1>12, <1>13 DEF Reconcile

-----------------------------------------------------------------------------
(* The life of the resource, and the local variables of a pass.            *)

(* Every step keeps the finalizer on a resource that left its mark on a    *)
(* node.                                                                   *)
LEMMA LifeStep == TypeOK /\ LifeInv /\ [Next]_vars => LifeInv'
  <1> SUFFICES ASSUME TypeOK, LifeInv, [Next]_vars PROVE LifeInv'
    OBVIOUS
  <1>0. cr \in {"absent", "live", "deleting"} /\ finalizer \in BOOLEAN
    BY DEF TypeOK
  <1> USE <1>0 DEF LifeInv
  <1>1. UNCHANGED <<cr, finalizer, cond, pc>> => LifeInv'
    OBVIOUS
  <1>2. CASE CreateCR
    BY <1>2 DEF CreateCR, nodevars
  <1>3. CASE DeleteCR
    BY <1>3 DEF DeleteCR, nodevars, Deletion
  <1>4. CASE \/ PolicyChanges \/ BeginNotFound \/ UNCHANGED vars
             \/ \E n \in Node : MoveLabels(n)
    BY <1>1, <1>4 DEF PolicyChanges, BeginNotFound, MoveLabels, vars, crvars, nodevars
  <1>5. CASE \E d \in Daemon : CollectDaemonSet(d) \/ StatusEvent(d)
    BY <1>1, <1>5, Zenon DEF CollectDaemonSet, StatusEvent, crvars, nodevars
  <1>6. CASE \E n \in Node, d \in Daemon :
               SchedulePod(n, d) \/ PodReady(n, d) \/ PodFails(n, d) \/ DrainPod(n, d)
    BY <1>1, <1>6, Zenon DEF SchedulePod, PodReady, PodFails, DrainPod, crvars, nodevars
  <1>7. CASE Begin
    BY <1>7 DEF Begin, nodevars, Deletion
  <1>8. CASE FinalizerFails \/ UpdateStatusFails \/ UpdateStatus \/ Restart
    <2>1. pc' = "idle" /\ UNCHANGED <<cr, finalizer, cond>>
      BY <1>8, Zenon DEF FinalizerFails, UpdateStatusFails, UpdateStatus, Restart, Abort, Return, crvars, nodevars
    <2> QED
      BY <2>1 DEF Deletion
  <1>9. CASE \E d \in Daemon : ReconcileDaemon(d)
    <2>1. pc = "daemons" /\ pc' \in {"upgrade", "daemons"} /\ UNCHANGED <<cr, finalizer, cond>>
      BY <1>9 DEF ReconcileDaemon, crvars, nodevars
    <2> QED
      BY <2>1 DEF Deletion
  <1>10. CASE EvaluateDriverUpgrade
    BY <1>10, Zenon DEF EvaluateDriverUpgrade, crvars, Deletion
  <1>11. CASE ListPods \/ ListFails
    BY <1>11 DEF ListPods, ListFails, crvars, nodevars, Deletion
  <1>12. CASE \E n \in Node, d \in Daemon, r \in BOOLEAN : PatchPod(n, d, r)
    BY <1>12 DEF PatchPod, crvars, Deletion
  <1>13. CASE BeginDelete
    BY <1>13 DEF BeginDelete, crvars, nodevars, Deletion
  <1>14. CASE RemoveNodeConditions
    <2>1. PICK bad \in SUBSET {n \in Node : cond[n] # "none"}, listed \in BOOLEAN :
            /\ cond' = [n \in Node |-> IF n \in bad THEN cond[n] ELSE "none"]
            /\ IF listed /\ bad = {}
               THEN pc' = "unlabel" /\ UNCHANGED <<dirty, passvars, bounds>>
               ELSE Abort /\ Fault
      BY <1>14 DEF RemoveNodeConditions
    <2>2. cr = "deleting" /\ finalizer /\ UNCHANGED <<cr, finalizer>>
      BY <1>14 DEF RemoveNodeConditions, Deletion, crvars
    <2>3. pc' = "idle" \/ (pc' = "unlabel" /\ \A n \in Node : cond'[n] = "none")
      BY <2>1 DEF Abort, Return
    <2> QED
      BY <2>2, <2>3 DEF Deletion
  <1>15. CASE RemoveDriverMajorLabels
    BY <1>15 DEF RemoveDriverMajorLabels, Abort, Return, crvars, Deletion
  <1>16. CASE ReleaseFinalizer
    BY <1>16, Zenon DEF ReleaseFinalizer, Abort, Return, nodevars, Deletion
  <1> QED
    BY <1>2, <1>3, <1>4, <1>5, <1>6, <1>7, <1>8, <1>9, <1>10, <1>11, <1>12, <1>13, <1>14, <1>15, <1>16, Zenon
       DEF Next, Reconcile, Cluster, StatusEvents

(* Every step keeps what a pass knows of itself.                           *)
LEMMA LocalStep == TypeOK /\ LocalInv /\ [Next]_vars => LocalInv'
  <1> SUFFICES ASSUME TypeOK, LocalInv, [Next]_vars PROVE LocalInv'
    OBVIOUS
  <1>0. /\ requeue \in BOOLEAN /\ upgrade \in [Node -> BOOLEAN] /\ began \subseteq Node
        /\ left \in Seq(Daemon) /\ cond \in [Node -> {"none", "True", "False"}]
        /\ unhealthy \subseteq Node
    BY DEF TypeOK
  <1> USE <1>0 DEF LocalInv
  <1>1. UNCHANGED <<pc, passvars, cond, upgrade, history>> => LocalInv'
    BY DEF passvars, history
  <1>2. CASE Return /\ UNCHANGED <<upgrade, history>>
    BY <1>2 DEF Return, history
  <1>3. CASE CreateCR \/ DeleteCR \/ PolicyChanges \/ BeginNotFound \/ UNCHANGED vars
    BY <1>1, <1>3 DEF CreateCR, DeleteCR, PolicyChanges, BeginNotFound, vars, nodevars
  <1>4. CASE \E d \in Daemon : CollectDaemonSet(d) \/ StatusEvent(d)
    BY <1>1, <1>4, Zenon DEF CollectDaemonSet, StatusEvent, nodevars
  <1>5. CASE \E n \in Node, d \in Daemon :
               SchedulePod(n, d) \/ PodReady(n, d) \/ PodFails(n, d) \/ DrainPod(n, d)
    BY <1>1, <1>5, Zenon DEF SchedulePod, PodReady, PodFails, DrainPod, nodevars
  <1>6. CASE \E n \in Node : MoveLabels(n)
    <2>1. PICK n \in Node : MoveLabels(n)
      BY <1>6
    <2>2. \A m \in began' : upgrade'[m]
      <3>1. \/ /\ upgrade' = [upgrade EXCEPT ![n] = ~@]
               /\ began' = IF Eligible(n) /\ ~Drained(n) THEN began \cup {n} ELSE began \ {n}
            \/ UNCHANGED <<upgrade, began>>
        BY <2>1 DEF MoveLabels
      <3>2. \A m \in began' : m # n => m \in began
        BY <3>1
      <3>3. n \in began' => ~upgrade[n] \/ UNCHANGED <<upgrade, began>>
        BY <3>1 DEF Eligible
      <3> QED
        BY <3>1, <3>2, <3>3, Zenon
    <2>3. UNCHANGED <<pc, passvars, cond, unpatched>>
      BY <2>1 DEF MoveLabels
    <2> QED
      BY <2>2, <2>3 DEF passvars
  <1>7. CASE Begin
    BY <1>7, DaemonsTyped DEF Begin, nodevars, history
  <1>8. CASE FinalizerFails \/ UpdateStatusFails \/ UpdateStatus \/ Restart
    BY <1>2, <1>8, Zenon DEF FinalizerFails, UpdateStatusFails, UpdateStatus, Restart, Abort, nodevars
  <1>9. CASE \E d \in Daemon : ReconcileDaemon(d)
    <2>1. /\ pc = "daemons" /\ left' = Tail(left)
          /\ pc' = IF left' = <<>> THEN "upgrade" ELSE "daemons"
          /\ requeue => requeue'
          /\ UNCHANGED <<todo, unhealthy, upgrading, upgrade, cond, history>>
      BY <1>9 DEF ReconcileDaemon, nodevars
    <2> QED
      BY <2>1 DEF history
  <1>10. CASE EvaluateDriverUpgrade
    <2>1. /\ pc = "upgrade" /\ pc' \in {"list", "status"}
          /\ upgrading' = "error" => requeue'
          /\ UNCHANGED <<todo, unhealthy, left, upgrade, history>>
      BY <1>10, Zenon DEF EvaluateDriverUpgrade
    <2> QED
      BY <2>1 DEF history
  <1>11. CASE ListPods \/ ListFails
    <2>1. /\ pc \in {"list", "pods"} /\ pc' \in {"status", "pods"} /\ (pc' # "pods" => todo' = {})
          /\ requeue => requeue'
          /\ unhealthy' \in {unhealthy, {}}
          /\ UNCHANGED <<left, upgrading, upgrade, cond, history>>
      BY <1>11, Zenon DEF ListPods, ListFails, nodevars
    <2> QED
      BY <2>1 DEF history
  <1>12. CASE \E n \in Node, d \in Daemon, r \in BOOLEAN : PatchPod(n, d, r)
    <2>1. PICK n \in Node, d \in Daemon, r \in BOOLEAN : PatchPod(n, d, r)
      BY <1>12
    <2>2. /\ pc = "pods" /\ pc' \in {"status", "pods"} /\ (pc' # "pods" => todo' = {})
          /\ requeue => requeue'
          /\ UNCHANGED <<left, upgrading, upgrade, began>>
      BY <2>1 DEF PatchPod, PatchNodeCondition
    <2>3. \A m \in unhealthy' \ unpatched' : cond'[m] = "False"
      <3>1. unhealthy' = IF r THEN unhealthy ELSE unhealthy \cup {n}
        BY <2>1 DEF PatchPod
      <3>2. \/ r /\ n \in unhealthy /\ UNCHANGED <<cond, unpatched>>
            \/ /\ ~(r /\ n \in unhealthy)
               /\ cond' = [cond EXCEPT ![n] = IF r THEN "True" ELSE "False"]
               /\ unpatched' = unpatched \ {n}
            \/ unpatched' = unpatched \cup {n} /\ UNCHANGED cond
        BY <2>1, Zenon DEF PatchPod, PatchNodeCondition
      <3> QED
        BY <3>1, <3>2
    <2> QED
      BY <2>2, <2>3
  <1>13. CASE BeginDelete
    BY <1>13 DEF BeginDelete, nodevars, passvars, history
  <1>14. CASE RemoveNodeConditions \/ RemoveDriverMajorLabels
    <2>1. /\ pc \in {"unpatch", "unlabel"}
          /\ UNCHANGED <<upgrade, history>>
          /\ Return \/ (pc' \in {"unlabel", "release"} /\ UNCHANGED passvars)
      BY <1>14 DEF RemoveNodeConditions, RemoveDriverMajorLabels, Abort
    <2>2. CASE pc' \in {"unlabel", "release"} /\ UNCHANGED passvars
      <3>1. unhealthy = {}
        BY <2>1
      <3> QED
        BY <2>1, <2>2, <3>1 DEF passvars, history
    <2> QED
      BY <1>2, <2>1, <2>2
  <1>15. CASE ReleaseFinalizer
    BY <1>2, <1>15 DEF ReleaseFinalizer, Abort, nodevars
  <1> QED
    BY <1>3, <1>4, <1>5, <1>6, <1>7, <1>8, <1>9, <1>10, <1>11, <1>12, <1>13, <1>14, <1>15, Zenon
       DEF Next, Reconcile, Cluster, StatusEvents


-----------------------------------------------------------------------------
(* Nothing outside touches the pass or what it persists.                   *)
LEMMA OutsideFrame ==
  Outside => UNCHANGED <<crvars, ds, status, cond, watched, pc, passvars>>
  BY Zenon DEF Outside, PolicyChanges, PodReady, PodFails, DrainPod, MoveLabels, vars, dsvars, nodevars, gpuvars

(* The steps that leave the operator settled: a pass begins, goes on       *)
(* without a fault, or something happens outside.                          *)
LEMMA SettledSteps ==
  ASSUME TypeOK, LifeInv, [Next]_vars, Settled'
  PROVE  Begin \/ (Settled /\ (Outside \/ Inside))
  <1>0. dirty \in BOOLEAN /\ requeue \in BOOLEAN
    BY DEF TypeOK
  <1>1. CASE Outside
    <2>1. dirty => dirty'
      BY <1>1, Zenon DEF Outside, PolicyChanges, PodReady, PodFails, DrainPod, MoveLabels, vars
    <2>2. UNCHANGED <<cr, requeue>>
      BY <1>1, OutsideFrame DEF crvars, passvars
    <2> QED
      BY <1>1, <2>1, <2>2 DEF Settled
  <1>2. CASE Inside
    <2> DEFINE Keeps == cr' = cr /\ (dirty => dirty') /\ (requeue => requeue' \/ dirty')
    <2>1. ASSUME NEW d \in Daemon, ReconcileDaemon(d) PROVE Keeps
      <3>1. cr' = cr
        BY <2>1 DEF ReconcileDaemon, crvars
      <3>2. dirty' = (dirty \/ ds' # ds)
        BY <2>1 DEF ReconcileDaemon
      <3>3. requeue' = (requeue \/ health'[d].err \/ health'[d].ready < health'[d].desired)
        BY <2>1 DEF ReconcileDaemon
      <3> QED
        BY <1>0, <3>1, <3>2, <3>3, Zenon
    <2>2. ASSUME EvaluateDriverUpgrade \/ ListPods PROVE Keeps
      <3>1. UNCHANGED <<cr, dirty>>
        BY <2>2 DEF EvaluateDriverUpgrade, ListPods, crvars
      <3>2. requeue => requeue'
        BY <1>0, <2>2, Zenon DEF EvaluateDriverUpgrade, ListPods
      <3> QED
        BY <3>1, <3>2
    <2>3. ASSUME UpdateStatus PROVE Keeps
      <3>1. cr' = cr
        BY <2>3 DEF UpdateStatus
      <3>2. dirty \/ requeue => dirty'
        BY <1>0, <2>3, Zenon DEF UpdateStatus
      <3> QED
        BY <3>1, <3>2
    <2>4. ASSUME NEW n \in Node, NEW d \in Daemon, NEW r \in BOOLEAN, PatchPod(n, d, r) PROVE Keeps
      BY <2>4 DEF PatchPod, PatchNodeCondition, crvars
    <2>5. Keeps
      BY <1>2, <2>1, <2>2, <2>3, <2>4 DEF Inside
    <2> QED
      BY <1>0, <1>2, <2>5 DEF Settled
  <1>3. ~(CreateCR \/ DeleteCR \/ FinalizerFails \/ UpdateStatusFails \/ ReleaseFinalizer)
    BY DEF CreateCR, DeleteCR, FinalizerFails, UpdateStatusFails, ReleaseFinalizer, Abort, Settled
  <1>4. ~(BeginNotFound \/ BeginDelete \/ ListFails \/ Restart)
    BY Zenon DEF BeginNotFound, BeginDelete, ListFails, Restart, Settled, crvars
  <1>5. ~(RemoveNodeConditions \/ RemoveDriverMajorLabels)
    BY DEF RemoveNodeConditions, RemoveDriverMajorLabels, LifeInv, Deletion, Settled, crvars
  <1>6. ~\E d \in Daemon : CollectDaemonSet(d) \/ StatusEvent(d)
    BY Zenon DEF CollectDaemonSet, StatusEvent, Settled, crvars
  <1>7. ~\E n \in Node, d \in Daemon : SchedulePod(n, d)
    BY Zenon DEF SchedulePod, Settled
  <1> QED
    BY <1>1, <1>2, <1>3, <1>4, <1>5, <1>6, <1>7
       DEF Next, Reconcile, Cluster, StatusEvents, Outside, Inside
=============================================================================
