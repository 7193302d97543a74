-------------------------- MODULE ReconcilerProofs -------------------------
(***************************************************************************)
(* Proofs about the operator for any nodes, daemons, states of the GPU     *)
(* stack and bounds: its verdict on the GPU stack (Dependency), and what   *)
(* it leaves behind when it rests and when the resource is gone.           *)
(***************************************************************************)
EXTENDS ReconcilerTypes

-----------------------------------------------------------------------------
(* The verdict on the GPU stack, for every version text.                   *)

(* With skipGpuStackVersionChecks the verdict depends on no version and on *)
(* no source of one: stacks that differ in nothing else, or one of which   *)
(* has a ClusterServiceVersion that cannot be listed, get the same.        *)
THEOREM BypassIgnoresVersions ==
  ASSUME NEW p, NEW q, NEW r,
         p.kind = q.kind, p.nri = q.nri, p.allowed = q.allowed, p.status = q.status
  PROVE  CheckReason(p, r, TRUE) = CheckReason(q, r, TRUE)
  <1>1. VersionFailure(p, TRUE) = "" /\ VersionFailure(q, TRUE) = ""
    BY DEF VersionFailure
  <1>2. ManagementCDINamespaceFails(p) <=> ManagementCDINamespaceFails(q)
    BY DEF ManagementCDINamespaceFails, NRIPluginEnabled
  <1>3. ClusterPolicyReadinessFails(p.status) <=> ClusterPolicyReadinessFails(q.status)
    OBVIOUS
  <1> QED
    BY <1>1, <1>2, <1>3, Zenon DEF CheckReason

(* Check never makes a configuration ready: it leaves Ready or turns it    *)
(* False, and it leaves Ready=True only on a stack that was read, whose    *)
(* pinned versions pass their floors, and whose operator passes where it   *)
(* chooses a version, unless the checks are skipped, and which lets the    *)
(* daemons have their devices.                                             *)
THEOREM ReadyNeedsSoundStack ==
  ASSUME NEW p, NEW r, NEW skip \in BOOLEAN,
         Check(p, r, skip) = "True"
  PROVE  /\ r = "True"
         /\ p.kind # "unreadable"
         /\ p.kind = "present" =>
              /\ ~ManagementCDINamespaceFails(p)
              /\ ~skip => /\ ~OperandFails(p.toolkit, minToolkitVersion)
                          /\ ~OperandFails(p.devicePlugin, minDevicePluginVersion)
                          /\ Defaulted(p) => VersionOutcome(GpuOperatorVersion(p)) = ""
  <1>1. CheckReason(p, r, skip) = "" /\ r = "True"
    BY Zenon DEF Check
  <1>2. p.kind # "unreadable" /\ VersionFailure(p, skip) = ""
    BY <1>1, Zenon DEF CheckReason
  <1>3. ASSUME p.kind = "present" PROVE ~ManagementCDINamespaceFails(p)
    BY <1>1, <1>2, <1>3, Zenon DEF CheckReason
  <1>4. ASSUME p.kind = "present", ~skip
        PROVE  /\ ~OperandFails(p.toolkit, minToolkitVersion)
               /\ ~OperandFails(p.devicePlugin, minDevicePluginVersion)
               /\ Defaulted(p) => VersionOutcome(GpuOperatorVersion(p)) = ""
    BY <1>2, <1>4, Zenon DEF VersionFailure
  <1> QED
    BY <1>1, <1>2, <1>3, <1>4, Zenon

-----------------------------------------------------------------------------
(* What a step does to the counts, and to what the operator knows when     *)
(* nothing is queued.                                                      *)

(* A status counted now bounds the pods there are.                         *)
LEMMA CountCovers == Cardinals /\ TypeOK => AllCover
  <1> SUFFICES ASSUME Cardinals, TypeOK, NEW d \in Daemon PROVE Covers(d)
    BY DEF AllCover
  <1> DEFINE E == {n \in Node : Eligible(n)}
             R == {n \in Node : Eligible(n) /\ pod[n][d] = "ready"}
             M == {n \in Node : ~Eligible(n) /\ pod[n][d] # "none"}
  <1>1. Counted(d).desired = Cardinality(E) /\ Counted(d).ready = Cardinality(R)
        /\ Counted(d).misscheduled = Cardinality(M)
    BY DEF Counted, Count
  <1>2. E \subseteq Node /\ M \subseteq Node /\ R \subseteq Serving(d) /\ Serving(d) \subseteq E
    BY DEF Serving
  <1>3. Serving(d) \cap M = {} /\ Serving(d) \cup M = WithPod(d)
    BY DEF Serving, WithPod
  <1> HIDE DEF E, R, M
  <1>4. Cardinality(R) <= Cardinality(Serving(d)) /\ Cardinality(Serving(d)) <= Cardinality(E)
    BY <1>2 DEF Cardinals
  <1>5. Cardinality(WithPod(d)) = Cardinality(Serving(d)) + Cardinality(M)
    BY <1>2, <1>3 DEF Cardinals
  <1> QED
    BY <1>1, <1>4, <1>5 DEF Covers

(* The same of the next state.                                             *)
LEMMA CountCoversNext == Cardinals /\ TypeOK' => AllCover'
  <1>1. (Cardinals /\ TypeOK => AllCover)'
    BY CountCovers, PTL
  <1>2. Cardinals => Cardinals'
    BY DEF Cardinals
  <1> QED
    BY <1>1, <1>2

(* The counts of pods are numbers, now and after the step.                 *)
LEMMA CardTyped ==
  ASSUME Cardinals, NEW d
  PROVE  /\ Cardinality(WithPod(d)) \in Nat /\ Cardinality(Serving(d)) \in Nat
         /\ Cardinality(WithPod(d)') \in Nat /\ Cardinality(Serving(d)') \in Nat
  <1>1. /\ WithPod(d) \subseteq Node /\ Serving(d) \subseteq Node
        /\ WithPod(d)' \subseteq Node /\ Serving(d)' \subseteq Node
    BY DEF WithPod, Serving
  <1> QED
    BY <1>1 DEF Cardinals

(* A status as the DaemonSets are, complete: every node that may run the   *)
(* daemon does, and no status is owed.                                     *)
LEMMA Complete ==
  ASSUME Cardinals, TypeOK, NEW d \in Daemon, status[d] = Counted(d),
         ~(status[d].ready < status[d].desired)
  PROVE  /\ ~Behind(d)
         /\ status[d].ready = status[d].desired
         /\ \A n \in Node : Eligible(n) => pod[n][d] = "ready"
  <1> DEFINE E == {n \in Node : Eligible(n)}
             R == {n \in Node : Eligible(n) /\ pod[n][d] = "ready"}
  <1>1. status[d].observed /\ status[d].desired = Cardinality(E) /\ status[d].ready = Cardinality(R)
    BY DEF Counted, Count
  <1>2. R \subseteq E /\ E \subseteq Node
    OBVIOUS
  <1>3. Covers(d)
    BY CountCovers DEF AllCover
  <1>4. status[d].misscheduled \in Nat
    BY CountTyped DEF Counted, Statuses
  <1> HIDE DEF E, R
  <1>5. /\ status[d].ready = status[d].desired
        /\ Cardinality(R) = Cardinality(E) /\ Cardinality(E) \in Nat /\ R = E
    BY <1>1, <1>2 DEF Cardinals
  <1>6. ~Behind(d)
    BY <1>1, <1>3, <1>4, <1>5, CardTyped DEF Behind, Covers
  <1> QED
    BY <1>5, <1>6 DEF E, R

(* A daemon that loses pods has fewer.                                     *)
LEMMA ShrinksBounds ==
  ASSUME Cardinals, NEW d \in Daemon, Shrinks(d)
  PROVE  /\ Cardinality(Serving(d)') <= Cardinality(Serving(d))
         /\ Cardinality(WithPod(d)') <= Cardinality(WithPod(d))
         /\ Serving(d)' # Serving(d) => Cardinality(Serving(d)') < Cardinality(Serving(d))
         /\ WithPod(d)' # WithPod(d) => Cardinality(WithPod(d)') < Cardinality(WithPod(d))
  <1>1. Serving(d)' \subseteq Serving(d) /\ WithPod(d)' \subseteq WithPod(d)
    BY DEF Shrinks
  <1>2. Serving(d) \subseteq Node /\ WithPod(d) \subseteq Node
    BY DEF Serving, WithPod
  <1> QED
    BY <1>1, <1>2 DEF Cardinals

(* A status that is behind stays behind while pods are lost.               *)
LEMMA ShrinksBehind ==
  ASSUME Cardinals, TypeOK, NEW d \in Daemon, Shrinks(d), Behind(d)
  PROVE  Behind(d)'
  <1>1. status[d].desired \in Nat /\ status[d].misscheduled \in Nat
    BY DEF TypeOK
  <1>2. status'[d] = status[d]
    BY DEF Shrinks
  <1> QED
    BY <1>1, <1>2, ShrinksBounds, CardTyped DEF Behind

(* Who leaves the pods and the labels alone leaves the counts.             *)
LEMMA ReconcilerLeavesPods ==
  ASSUME TypeOK, UNCHANGED <<pod, upgrade, client>>, NEW d \in Daemon
  PROVE  /\ WithPod(d)' = WithPod(d) /\ Serving(d)' = Serving(d) /\ Counted(d)' = Counted(d)
         /\ status'[d] = status[d] => Shrinks(d)
  BY DEF WithPod, Serving, Counted, Count, Eligible, Shrinks

(* A label move makes no drained node count before its pods are back.      *)
LEMMA LabelShrinks ==
  ASSUME TypeOK, NEW n \in Node, MoveLabels(n)
  PROVE  /\ \A m \in Node : Eligible(m)' => Eligible(m) \/ Drained(m)
         /\ \A d \in Daemon : Shrinks(d)
  <1>1. \A m \in Node : Eligible(m)' => Eligible(m) \/ Drained(m)
    BY Zenon DEF MoveLabels, Eligible, TypeOK
  <1>2. UNCHANGED <<status, pod>>
    BY DEF MoveLabels, dsvars
  <1> QED
    BY <1>1, <1>2 DEF Shrinks, WithPod, Serving, Drained

(* A pod that becomes ready, fails or is drained adds none.                *)
LEMMA PodShrinks ==
  ASSUME TypeOK, NEW n \in Node, NEW d \in Daemon, PodReady(n, d) \/ PodFails(n, d) \/ DrainPod(n, d)
  PROVE  /\ UNCHANGED <<status, upgrade, client>>
         /\ \A m \in Node, e \in Daemon : pod[m][e] = "none" => pod'[m][e] = "none"
         /\ \A e \in Daemon : Shrinks(e)
  <1>1. UNCHANGED <<status, upgrade, client>>
    BY DEF PodReady, PodFails, DrainPod, nodevars
  <1>2. \A m \in Node, e \in Daemon : pod[m][e] = "none" => pod'[m][e] = "none"
    BY PodSet DEF PodReady, PodFails, DrainPod
  <1> QED
    BY <1>1, <1>2 DEF Shrinks, WithPod, Serving, Eligible

(* A step adds a pod only with a status that counts it, and that status is *)
(* queued.                                                                 *)
LEMMA StepShrinks ==
  ASSUME TypeOK, [Next]_vars
  PROVE  /\ \A d \in Daemon : Shrinks(d) \/ Refreshes(d)
         /\ ~dirty' => \A d \in Daemon : Shrinks(d) \/ ~status'[d].observed
  <1>1. CASE UNCHANGED <<status, pod, upgrade, client>>
    BY <1>1, ReconcilerLeavesPods
  <1>2. CASE \E n \in Node : MoveLabels(n)
    BY <1>2, LabelShrinks
  <1>3. CASE \E n \in Node, d \in Daemon : PodReady(n, d) \/ PodFails(n, d) \/ DrainPod(n, d)
    BY <1>3, PodShrinks
  <1>4. ASSUME NEW n \in Node, NEW d \in Daemon, SchedulePod(n, d)
        PROVE  dirty' /\ \A e \in Daemon : Shrinks(e) \/ Refreshes(e)
    <2>0. status \in [Daemon -> Statuses]
      BY TypeGroups DEF DsOK
    <2>1. dirty' /\ UNCHANGED <<upgrade, client>> /\ status' = [status EXCEPT ![d] = Count(pod', d)]
      BY <1>4 DEF SchedulePod, nodevars
    <2>2. Refreshes(d)
      <3>1. Counted(d)' = Count(pod', d)
        BY <2>1 DEF Counted, Count, Eligible
      <3>2. status'[d] = Count(pod', d)
        BY <2>0, <2>1
      <3> QED
        BY <3>1, <3>2 DEF Refreshes
    <2>3. ASSUME NEW e \in Daemon, e # d PROVE Shrinks(e)
      <3>1. status'[e] = status[e]
        BY <2>0, <2>1, <2>3
      <3>2. \A m \in Node : pod'[m][e] = pod[m][e]
        BY <1>4, <2>3, PodSet DEF SchedulePod
      <3> QED
        BY <2>1, <3>1, <3>2 DEF Shrinks, WithPod, Serving, Eligible
    <2> QED
      BY <2>1, <2>2, <2>3
  <1>5. ASSUME NEW d \in Daemon, StatusEvent(d)
        PROVE  dirty' /\ \A e \in Daemon : Shrinks(e) \/ Refreshes(e)
    <2>1. dirty' /\ UNCHANGED <<pod, upgrade, client>> /\ status' = [status EXCEPT ![d] = Counted(d)]
      BY <1>5 DEF StatusEvent, nodevars
    <2> QED
      BY <2>1, ReconcilerLeavesPods, Zenon DEF Refreshes, TypeOK
  <1>6. ASSUME NEW d \in Daemon, ReconcileDaemon(d)
        PROVE  \A e \in Daemon : Shrinks(e) \/ ~status'[e].observed
    <2>1. /\ UNCHANGED <<pod, upgrade, client>>
          /\ status' = status \/ status' = [status EXCEPT ![d] = Uncounted]
      BY <1>6 DEF ReconcileDaemon, nodevars
    <2>2. ~Uncounted.observed
      BY DEF Uncounted
    <2> QED
      BY <2>1, <2>2, ReconcilerLeavesPods, Zenon DEF TypeOK
  <1>7. CASE CreateCR \/ DeleteCR \/ PolicyChanges \/ UNCHANGED vars
    BY <1>1, <1>7 DEF CreateCR, DeleteCR, PolicyChanges, vars, dsvars, nodevars
  <1>8. CASE \E d \in Daemon : CollectDaemonSet(d)
    BY <1>1, <1>8 DEF CollectDaemonSet, nodevars
  <1>9. CASE \/ BeginNotFound \/ Begin \/ FinalizerFails \/ ListPods \/ ListFails
             \/ UpdateStatus \/ UpdateStatusFails \/ BeginDelete \/ ReleaseFinalizer \/ Restart
    BY <1>1, <1>9, Zenon DEF BeginNotFound, Begin, FinalizerFails, ListPods, ListFails, UpdateStatus,
                      UpdateStatusFails, BeginDelete, ReleaseFinalizer, Restart, dsvars, nodevars
  <1>10. CASE EvaluateDriverUpgrade \/ RemoveNodeConditions \/ RemoveDriverMajorLabels
    BY <1>1, <1>10 DEF EvaluateDriverUpgrade, RemoveNodeConditions, RemoveDriverMajorLabels, dsvars
  <1>11. CASE \E n \in Node, d \in Daemon, r \in BOOLEAN : PatchPod(n, d, r)
    BY <1>1, <1>11 DEF PatchPod, dsvars
  <1> QED
    BY <1>2, <1>3, <1>4, <1>5, <1>6, <1>7, <1>8, <1>9, <1>10, <1>11
       DEF Next, Reconcile, Cluster, StatusEvents, Refreshes

(* Every step keeps a status a bound on the pods of its daemon.            *)
LEMMA CountStep == Cardinals /\ TypeOK /\ TypeOK' /\ CountInv /\ [Next]_vars => CountInv'
  <1> SUFFICES ASSUME Cardinals, TypeOK, TypeOK', CountInv, [Next]_vars,
                      NEW d \in Daemon, status'[d].observed
               PROVE  /\ Cardinality(Serving(d)') <= status'[d].desired
                      /\ Cardinality(WithPod(d)') <= status'[d].desired + status'[d].misscheduled
    BY DEF CountInv
  <1>0. /\ status[d].desired \in Nat /\ status[d].misscheduled \in Nat
        /\ status'[d].desired \in Nat /\ status'[d].misscheduled \in Nat
    BY DEF TypeOK
  <1>1. CASE Shrinks(d)
    <2>1. status'[d] = status[d]
      BY <1>1 DEF Shrinks
    <2>2. /\ Cardinality(Serving(d)) <= status[d].desired
          /\ Cardinality(WithPod(d)) <= status[d].desired + status[d].misscheduled
      BY <2>1 DEF CountInv
    <2> QED
      BY <1>0, <1>1, <2>1, <2>2, ShrinksBounds, CardTyped
  <1>2. CASE status'[d] = Counted(d)'
    <2>1. Covers(d)'
      BY CountCoversNext DEF AllCover
    <2> QED
      BY <1>0, <1>2, <2>1, CardTyped DEF Covers
  <1> QED
    BY <1>1, <1>2, StepShrinks DEF Refreshes

-----------------------------------------------------------------------------
(* What the operator knows when nothing is queued.                         *)

(* A status that is owed is owed until it is queued.                       *)
LEMMA OwedKept ==
  ASSUME Cardinals, TypeOK, [Next]_vars, ~dirty', Owed
  PROVE  Owed'
  <1>1. PICK d \in Daemon : Behind(d)
    BY DEF Owed
  <1>2. Shrinks(d) \/ ~status'[d].observed
    BY StepShrinks
  <1>3. Behind(d)'
    BY <1>1, <1>2, ShrinksBehind DEF Behind
  <1> QED
    BY <1>3 DEF Owed

(* An upgrade that finds a daemon on its node takes the node's claim to    *)
(* it, which the next status shows.                                        *)
LEMMA UpgradeOwes ==
  ASSUME Cardinals, TypeOK, CountInv, NEW n \in Node, MoveLabels(n), n \in began', n \notin began
  PROVE  Owed' /\ ~Drained(n)'
  <1>1. Eligible(n) /\ ~Drained(n) /\ ~Eligible(n)' /\ pod' = pod
    BY DEF MoveLabels, Eligible, TypeOK, dsvars
  <1>2. PICK d \in Daemon : pod[n][d] # "none"
    BY <1>1 DEF Drained
  <1>3. Shrinks(d) /\ status'[d] = status[d]
    BY LabelShrinks DEF Shrinks
  <1>4. n \in Serving(d) /\ n \notin Serving(d)'
    BY <1>1, <1>2 DEF Serving
  <1>5. Cardinality(Serving(d)') < Cardinality(Serving(d))
    BY <1>3, <1>4, ShrinksBounds
  <1>6. status[d].observed => Cardinality(Serving(d)) <= status[d].desired
    BY DEF CountInv
  <1>7. status[d].desired \in Nat
    BY DEF TypeOK
  <1>8. Behind(d)'
    BY <1>3, <1>5, <1>6, <1>7, CardTyped DEF Behind
  <1> QED
    BY <1>1, <1>8 DEF Owed, Drained

(* A pod that leaves its node owes a status, as the DaemonSet is there and *)
(* the pod was counted.                                                    *)
LEMMA DrainOwes ==
  ASSUME Cardinals, TypeOK, NEW n \in Node, NEW d \in Daemon, DrainPod(n, d), d \in ds
  PROVE  Owed'
  <1>1. status[d] = Counted(d) /\ pod[n][d] # "none" /\ SetPod(n, d, "none")
    BY Zenon DEF DrainPod
  <1>2. Shrinks(d) /\ status'[d] = status[d]
    BY PodShrinks DEF Shrinks
  <1>3. n \in WithPod(d) /\ n \notin WithPod(d)'
    BY <1>1, PodSet DEF WithPod
  <1>4. Cardinality(WithPod(d)') < Cardinality(WithPod(d))
    BY <1>2, <1>3, ShrinksBounds
  <1>5. Covers(d)
    BY CountCovers DEF AllCover
  <1>6. status[d].desired \in Nat /\ status[d].misscheduled \in Nat
    BY DEF TypeOK
  <1>7. /\ Cardinality(WithPod(d)') \in Nat /\ Cardinality(WithPod(d)) \in Nat
        /\ Cardinality(Serving(d)) \in Nat
    BY CardTyped
  <1>8. Cardinality(WithPod(d)) <= status[d].desired + status[d].misscheduled
    BY <1>1, <1>5, <1>6, <1>7 DEF Covers
  <1>9. Behind(d)'
    BY <1>2, <1>4, <1>6, <1>7, <1>8 DEF Behind
  <1> QED
    BY <1>9 DEF Owed

(* What the operator knows of an upgrade survives what happens on the      *)
(* nodes, or a status is owed that will tell it.                           *)
LEMMA OutsideKeeps ==
  ASSUME Cardinals, TypeOK, LocalInv, CountInv, [Next]_vars, Outside, ~dirty', \A d \in Daemon : d \in ds
  PROVE  /\ SomeAway => SomeAway'
         /\ NoneBegan => NoneBegan'
         /\ BegunCleared => BegunCleared'
  <1>0. UNCHANGED <<cond, todo>> /\ (Owed => Owed')
    BY OutsideFrame, OwedKept DEF passvars
  <1>1. CASE PolicyChanges \/ UNCHANGED vars
    <2>1. UNCHANGED <<pod, upgrade, client, began>>
      BY <1>1 DEF PolicyChanges, vars, dsvars, nodevars, history
    <2> QED
      BY <1>0, <2>1 DEF SomeAway, NoneBegan, BegunCleared, Eligible, Drained
  <1>2. ASSUME NEW n \in Node, NEW d \in Daemon, PodReady(n, d) \/ PodFails(n, d) \/ DrainPod(n, d)
        PROVE  /\ SomeAway => SomeAway'
               /\ NoneBegan => NoneBegan'
               /\ BegunCleared => BegunCleared'
    <2>1. UNCHANGED <<upgrade, client, began>> /\ \A m \in Node : Drained(m) => Drained(m)'
      BY <1>2, PodShrinks, Zenon DEF PodReady, PodFails, DrainPod, history, Drained
    <2>2. ASSUME NEW m \in Node, ~Drained(m), Drained(m)' PROVE Owed'
      <3>1. PICK e \in Daemon : pod[m][e] # "none" /\ pod'[m][e] = "none"
        BY <2>2 DEF Drained
      <3>2. DrainPod(n, d)
        <4>1. ASSUME NEW s \in {"starting", "ready"}, SetPod(n, d, s) PROVE FALSE
          <5>1. pod'[m][e] = IF m = n /\ e = d THEN s ELSE pod[m][e]
            BY <4>1, PodSet
          <5> QED
            BY <3>1, <5>1
        <4>2. ~PodReady(n, d) /\ ~PodFails(n, d)
          BY <4>1 DEF PodReady, PodFails
        <4> QED
          BY <1>2, <4>2
      <3> QED
        BY <3>2, DrainOwes
    <2>3. (SomeAway => SomeAway') /\ (NoneBegan => NoneBegan')
      BY <1>0, <2>1 DEF SomeAway, NoneBegan, Eligible
    <2>4. BegunCleared => BegunCleared'
      BY <1>0, <2>1, <2>2 DEF BegunCleared, TypeOK
    <2> QED
      BY <2>3, <2>4
  <1>3. ASSUME NEW n \in Node, MoveLabels(n)
        PROVE  /\ SomeAway => SomeAway'
               /\ NoneBegan => NoneBegan'
               /\ BegunCleared => BegunCleared'
    <2>1. pod' = pod /\ \A m \in began' : m \in began \/ m = n
      BY <1>3 DEF MoveLabels, dsvars
    <2>2. \A m \in Node : Drained(m)' <=> Drained(m)
      BY <2>1 DEF Drained
    <2>3. \A m \in Node : Eligible(m)' => Eligible(m) \/ Drained(m)
      BY <1>3, LabelShrinks
    <2>4. \A m \in began' : m \in began \/ (Owed' /\ ~Drained(m)')
      BY <1>3, <2>1, UpgradeOwes
    <2>5. SomeAway => SomeAway'
      BY <2>2, <2>3 DEF SomeAway
    <2>6. NoneBegan => NoneBegan'
      BY <1>0, <2>4 DEF NoneBegan
    <2>7. BegunCleared => BegunCleared'
      BY <1>0, <2>2, <2>4 DEF BegunCleared, TypeOK
    <2> QED
      BY <2>5, <2>6, <2>7
  <1> QED
    BY <1>1, <1>2, <1>3 DEF Outside

(* The GPU stack as it was last read is as it is, if it is watched.        *)
LEMMA SeenStep ==
  ASSUME TypeOK, LifeInv, SettledInv, [Next]_vars, Settled'
  PROVE  watched' => seen' = policy' \/ seen'.kind = "unreadable"
  <1>1. CASE Begin
    BY <1>1 DEF Begin, gpuvars
  <1>2. CASE Settled /\ PolicyChanges
    BY <1>2, Zenon DEF PolicyChanges, Settled, crvars
  <1>3. ASSUME Settled, Outside \/ Inside, ~PolicyChanges
        PROVE  watched' => seen' = policy' \/ seen'.kind = "unreadable"
    <2>1. CASE Outside
      BY <1>3, <2>1, Zenon DEF Outside, PodReady, PodFails, DrainPod, MoveLabels, vars, gpuvars, passvars, SettledInv
    <2>2. CASE Inside
      <3>1. UNCHANGED <<watched, policy, seen>>
        BY <2>2, Zenon DEF Inside, ReconcileDaemon, EvaluateDriverUpgrade, ListPods, UpdateStatus, PatchPod, Return,
                    gpuvars
      <3> QED
        BY <1>3, <3>1 DEF SettledInv
    <2> QED
      BY <1>3, <2>1, <2>2
  <1> QED
    BY <1>1, <1>2, <1>3, SettledSteps

(* One step of the loop over the daemons.                                  *)
LEMMA DaemonKnown ==
  ASSUME TypeOK, LocalInv, NEW d \in Daemon, ReconcileDaemon(d), Settled', pc \in Pass,
         NEW e \in Daemon, Pending(e) \/ Known(e, health[e])
  PROVE  Pending(e)' \/ Known(e, health[e])'
  <1>0. left \in Seq(Daemon) /\ left # <<>> /\ health \in [Daemon -> Healths] /\ d = Head(left)
    BY Zenon DEF TypeOK, LocalInv, ReconcileDaemon
  <1>1. ds' = ds /\ ~requeue'
    BY Zenon DEF ReconcileDaemon, Settled
  <1>2. /\ left' = Tail(left)
        /\ \/ /\ ds' = ds \cup {d}
              /\ status' = IF d \in ds THEN status ELSE [status EXCEPT ![d] = Uncounted]
              /\ health' = [health EXCEPT ![d] = [err |-> FALSE, desired |-> status'[d].desired,
                                                  ready |-> status'[d].ready]]
           \/ /\ status' = IF ds' = ds THEN status ELSE [status EXCEPT ![d] = Uncounted]
              /\ health' = [health EXCEPT ![d] = Failed]
    BY Zenon DEF ReconcileDaemon
  <1>3. CASE e = d
    <2>1. ~health'[d].err /\ ~(health'[d].ready < health'[d].desired)
      BY <1>1, Zenon DEF ReconcileDaemon
    <2>2. health'[d] # Failed
      BY <2>1 DEF Failed
    <2>3. /\ ds' = ds \cup {d}
          /\ status' = IF d \in ds THEN status ELSE [status EXCEPT ![d] = Uncounted]
          /\ health'[d] = [err |-> FALSE, desired |-> status'[d].desired, ready |-> status'[d].ready]
      BY <1>0, <1>2, <2>2
    <2>4. d \in ds'
      BY <2>3, Zenon
    <2> QED
      BY <1>3, <2>1, <2>3, <2>4 DEF Known
  <1>4. CASE e # d
    <2>1. CASE Pending(e)
      <3>1. PICK i \in 1 .. Len(left) : left[i] = e
        BY <2>1 DEF Pending
      <3>2. i # 1
        BY <1>0, <1>4, <3>1
      <3>3. i - 1 \in 1 .. Len(left') /\ left'[i - 1] = e
        BY <1>0, <1>2, <3>1, <3>2
      <3> QED
        BY <3>3 DEF Pending
    <2>2. CASE Known(e, health[e])
      <3>1. health'[e] = health[e]
        BY <1>0, <1>2, <1>4
      <3>2. status'[e] = status[e]
        BY <1>2, <1>4 DEF TypeOK
      <3> QED
        BY <1>1, <2>2, <3>1, <3>2, Zenon DEF Known
    <2> QED
      BY <2>1, <2>2
  <1> QED
    BY <1>3, <1>4

(* In a pass the daemons done so far are as they were found.               *)
LEMMA PassKnownStep ==
  ASSUME TypeOK, LifeInv, LocalInv, SettledInv, [Next]_vars, Settled', pc' \in Pass, NEW e \in Daemon
  PROVE  Pending(e)' \/ Known(e, health[e])'
  <1>1. CASE Begin
    BY <1>1, DaemonsTyped DEF Begin, Pending
  <1>2. ASSUME Settled, pc \in Pass, UNCHANGED <<left, ds, status, health>>
        PROVE  Pending(e)' \/ Known(e, health[e])'
    BY <1>2, Zenon DEF SettledInv, Pending, Known
  <1>3. ASSUME Settled, Outside PROVE Pending(e)' \/ Known(e, health[e])'
    BY <1>2, <1>3, OutsideFrame DEF passvars
  <1>4. ASSUME Settled, NEW d \in Daemon, ReconcileDaemon(d) PROVE Pending(e)' \/ Known(e, health[e])'
    <2>1. pc \in Pass
      BY <1>4 DEF ReconcileDaemon, Pass
    <2>2. Pending(e) \/ Known(e, health[e])
      BY <1>4, <2>1, Zenon DEF SettledInv
    <2> QED
      BY <1>4, <2>1, <2>2, DaemonKnown, Zenon
  <1>5. ASSUME Settled, EvaluateDriverUpgrade \/ ListPods PROVE Pending(e)' \/ Known(e, health[e])'
    BY <1>2, <1>5, Zenon DEF EvaluateDriverUpgrade, ListPods, dsvars, Pass
  <1>6. ASSUME Settled, \E n \in Node, d \in Daemon, r \in BOOLEAN : PatchPod(n, d, r)
        PROVE  Pending(e)' \/ Known(e, health[e])'
    BY <1>2, <1>6 DEF PatchPod, dsvars, Pass
  <1>7. ~UpdateStatus
    BY Zenon DEF UpdateStatus, Return, Pass
  <1> QED
    BY <1>1, <1>3, <1>4, <1>5, <1>6, <1>7, SettledSteps DEF Inside

(* Once the loop over the daemons is over.                                 *)
LEMMA AllKnown ==
  ASSUME TypeOK, LocalInv, SettledInv, Settled, pc \in {"upgrade", "idle"} \cup Evaluated
  PROVE  /\ \A d \in Daemon : d \in ds
         /\ pc # "idle" => \A d \in Daemon : Known(d, health[d])
  <1>1. CASE pc = "idle"
    BY <1>1, Zenon DEF SettledInv, Known
  <1>2. CASE pc # "idle"
    <2>1. pc \in Pass /\ left = <<>>
      BY <1>2 DEF LocalInv, Pass, Evaluated
    <2>2. \A d \in Daemon : ~Pending(d)
      BY <2>1 DEF Pending
    <2>3. \A d \in Daemon : Known(d, health[d])
      BY <2>1, <2>2, Zenon DEF SettledInv
    <2> QED
      BY <1>2, <2>3, Zenon DEF Known
  <1> QED
    BY <1>1, <1>2

(* After evaluateDriverUpgrade the pass knows the upgrades.                *)
LEMMA UpgradeKnownStep ==
  ASSUME Cardinals, TypeOK, LifeInv, LocalInv, CountInv, SettledInv, [Next]_vars, Settled', pc' \in Evaluated
  PROVE  UpgradeKnown(upgrading = "yes")'
  <1>1. ~Begin /\ ~UpdateStatus /\ ~\E d \in Daemon : ReconcileDaemon(d)
    BY Zenon DEF Begin, UpdateStatus, Return, ReconcileDaemon, Evaluated
  <1>2. Settled
    BY <1>1, SettledSteps
  <1>3. ~dirty' /\ ~requeue'
    BY DEF Settled
  <1>4. CASE Outside
    <2>1. pc \in Evaluated /\ upgrading' = upgrading
      BY <1>4, OutsideFrame DEF passvars
    <2>2. UpgradeKnown(upgrading = "yes") /\ \A d \in Daemon : d \in ds
      BY <1>2, <2>1, AllKnown, Zenon DEF SettledInv
    <2> QED
      BY <1>3, <1>4, <2>1, <2>2, OutsideKeeps DEF UpgradeKnown
  <1>5. CASE EvaluateDriverUpgrade
    <2>1. /\ \A n \in Node : upgrade[n] => cond'[n] = "none"
          /\ upgrading' = IF \E n \in Node : upgrade[n] THEN "yes" ELSE "no"
      BY <1>3, <1>5, Zenon DEF EvaluateDriverUpgrade
    <2>2. todo' = {} /\ UNCHANGED <<upgrade, client, began>>
      BY <1>5, Zenon DEF EvaluateDriverUpgrade, LocalInv, history
    <2>3. began \subseteq Node /\ \A n \in began : upgrade[n]
      BY DEF TypeOK, LocalInv
    <2>4. upgrading' = "yes" => SomeAway'
      BY <2>1, <2>2, Zenon DEF SomeAway, Eligible
    <2>5. upgrading' # "yes" => NoneBegan'
      BY <2>1, <2>2, <2>3, Zenon DEF NoneBegan
    <2>6. BegunCleared'
      BY <2>1, <2>2, <2>3, Zenon DEF BegunCleared
    <2> QED
      BY <2>4, <2>5, <2>6 DEF UpgradeKnown
  <1>6. ASSUME pc \in Evaluated, UNCHANGED <<pod, upgrade, client, upgrading, began>>,
               BegunCleared => BegunCleared'
        PROVE  UpgradeKnown(upgrading = "yes")'
    <2>1. UpgradeKnown(upgrading = "yes")
      BY <1>2, <1>6, Zenon DEF SettledInv
    <2>2. Owed => Owed'
      BY <1>3, OwedKept
    <2>3. (SomeAway => SomeAway') /\ (NoneBegan => NoneBegan')
      BY <1>6, <2>2, Zenon DEF SomeAway, NoneBegan, Eligible, Drained
    <2> QED
      BY <1>6, <2>1, <2>3 DEF UpgradeKnown
  <1>7. CASE ListPods
    <2>1. /\ pc \in Evaluated
          /\ UNCHANGED <<pod, upgrade, client, cond, upgrading, began>>
          /\ todo' = {t \in Node \X Daemon \X BOOLEAN :
                        pod[t[1]][t[2]] # "none" /\ t[3] = (pod[t[1]][t[2]] = "ready")}
      BY <1>7 DEF ListPods, Evaluated, dsvars, nodevars, history
    <2>2. \A t \in todo' : ~Drained(t[1])
      BY <2>1 DEF Drained
    <2>3. Owed => Owed'
      BY <1>3, OwedKept
    <2>4. BegunCleared => BegunCleared'
      BY <2>1, <2>2, <2>3, Zenon DEF BegunCleared, Drained
    <2> QED
      BY <1>6, <2>1, <2>4
  <1>8. ASSUME NEW n \in Node, NEW d \in Daemon, NEW r \in BOOLEAN, PatchPod(n, d, r)
        PROVE  UpgradeKnown(upgrading = "yes")'
    <2>1. /\ pc \in Evaluated
          /\ UNCHANGED <<pod, upgrade, client, upgrading, began>>
          /\ <<n, d, r>> \in todo /\ todo' \subseteq todo
      BY <1>8 DEF PatchPod, Evaluated, dsvars
    <2>2. \A m \in Node : m = n \/ cond'[m] = cond[m]
      BY <1>8 DEF PatchPod, PatchNodeCondition, TypeOK
    <2>3. Owed => Owed'
      BY <1>3, OwedKept
    <2>4. \E t \in todo : t[1] = n
      <3>1. <<n, d, r>>[1] = n
        OBVIOUS
      <3> QED
        BY <2>1, <3>1
    <2>5. ASSUME BegunCleared, NEW m \in began', cond'[m] # "none" \/ \E t \in todo' : t[1] = m
          PROVE  ~Drained(m)' \/ Owed'
      <3>1. m \in began /\ m \in Node
        BY <2>1 DEF TypeOK
      <3>2. cond[m] # "none" \/ \E t \in todo : t[1] = m
        BY <2>1, <2>2, <2>4, <2>5, <3>1
      <3>3. ~Drained(m) \/ Owed
        BY <2>5, <3>1, <3>2 DEF BegunCleared
      <3> QED
        BY <2>1, <2>3, <3>3, Zenon DEF Drained
    <2>6. BegunCleared => BegunCleared'
      BY <2>5, Zenon DEF BegunCleared
    <2> QED
      BY <1>6, <2>1, <2>6
  <1> QED
    BY <1>1, <1>4, <1>5, <1>7, <1>8, SettledSteps DEF Inside

(* What a pass leaves, and what the cluster may do to it before the next.  *)
LEMMA IdleStep ==
  ASSUME Cardinals, TypeOK, LifeInv, LocalInv, CountInv, SettledInv, [Next]_vars, Settled', pc' = "idle"
  PROVE  /\ \A d \in Daemon : Known(d, reported[d])'
         /\ (ready = Check(seen, AggregateReadyCondition(reported), SkipVersionChecks))'
         /\ UpgradeKnown(inUpgrade)'
  <1>0. ~dirty' /\ ~requeue'
    BY DEF Settled
  <1>1. ~Begin /\ ~EvaluateDriverUpgrade /\ ~ListPods
    BY Zenon DEF Begin, EvaluateDriverUpgrade, ListPods
  <1>2. ~(\E d \in Daemon : ReconcileDaemon(d)) /\ ~\E n \in Node, d \in Daemon, r \in BOOLEAN : PatchPod(n, d, r)
    BY DEF ReconcileDaemon, PatchPod
  <1>3. Settled /\ (Outside \/ UpdateStatus)
    BY <1>1, <1>2, SettledSteps DEF Inside
  <1>4. CASE Outside
    <2>1. pc = "idle" /\ UNCHANGED <<ds, status, reported, ready, seen, inUpgrade>>
      BY <1>4, OutsideFrame DEF crvars, passvars
    <2>2. \A d \in Daemon : Known(d, reported[d])'
      BY <1>3, <2>1, Zenon DEF SettledInv, Known
    <2>3. (ready = Check(seen, AggregateReadyCondition(reported), SkipVersionChecks))'
      BY <1>3, <2>1, Zenon DEF SettledInv
    <2>4. UpgradeKnown(inUpgrade) /\ \A d \in Daemon : d \in ds
      BY <1>3, <2>1, AllKnown, Zenon DEF SettledInv
    <2>5. UpgradeKnown(inUpgrade)'
      BY <1>0, <1>4, <2>1, <2>4, OutsideKeeps DEF UpgradeKnown
    <2> QED
      BY <2>2, <2>3, <2>5
  <1>5. CASE UpdateStatus
    <2>1. /\ pc = "status" /\ reported' = health /\ todo' = {}
          /\ ready' = Check(seen, AggregateReadyCondition(health), SkipVersionChecks)
          /\ UNCHANGED <<seen, ds, status, pod, upgrade, client, cond, began>>
      BY <1>5 DEF UpdateStatus, Return, dsvars, nodevars, history
    <2>2. \A d \in Daemon : Known(d, reported[d])'
      BY <1>3, <2>1, AllKnown, Zenon DEF Evaluated, Known
    <2>3. (ready = Check(seen, AggregateReadyCondition(reported), SkipVersionChecks))'
      BY <2>1
    <2>4. inUpgrade' = (upgrading = "yes")
      <3>1. upgrading # "error"
        BY <1>3 DEF LocalInv, Settled
      <3> QED
        BY <1>5, <3>1 DEF UpdateStatus
    <2>5. UpgradeKnown(upgrading = "yes")
      BY <1>3, <2>1 DEF SettledInv, Evaluated
    <2>6. Owed => Owed'
      BY <1>0, OwedKept
    <2>7. /\ SomeAway => SomeAway'
          /\ NoneBegan => NoneBegan'
          /\ BegunCleared => BegunCleared'
      BY <2>1, <2>6, Zenon DEF SomeAway, NoneBegan, BegunCleared, Eligible, Drained
    <2> QED
      BY <2>2, <2>3, <2>4, <2>5, <2>7, Zenon DEF UpgradeKnown
  <1> QED
    BY <1>3, <1>4, <1>5

(* Every step keeps what a settled operator knows.                         *)
LEMMA SettledStep ==
  Cardinals /\ TypeOK /\ LifeInv /\ LocalInv /\ CountInv /\ SettledInv /\ [Next]_vars => SettledInv'
  BY SeenStep, PassKnownStep, UpgradeKnownStep, IdleStep, Zenon DEF SettledInv

-----------------------------------------------------------------------------
(* The invariant, and what it says of an operator at rest.                 *)

(* The invariant holds before the first pass.                              *)
LEMMA InvInit == Init => IInv
  <1> SUFFICES ASSUME Init PROVE IInv
    OBVIOUS
  <1>1. Uncounted \in Statuses /\ ~Uncounted.observed /\ Failed \in Healths
    BY DEF Uncounted, Statuses, Failed, Healths
  <1>2. CrOK /\ DsOK /\ NodeOK
    <2>1. CrOK
      BY <1>1, Zenon DEF Init, CrOK
    <2>2. DsOK
      BY <1>1 DEF Init, DsOK
    <2>3. NodeOK
      BY DEF Init, NodeOK
    <2> QED
      BY <2>1, <2>2, <2>3
  <1>3. GpuOK /\ QueueOK /\ BoundsOK /\ HistoryOK
    <2>1. policy \in Policy /\ watched = (policy.kind # "absent")
      BY DEF Init
    <2>2. GpuOK
      BY <2>1 DEF GpuOK
    <2>3. QueueOK /\ HistoryOK
      BY Zenon DEF Init, QueueOK, HistoryOK
    <2>4. BoundsOK
      BY ReconcilerAssumption DEF Init, BoundsOK
    <2> QED
      BY <2>2, <2>3, <2>4
  <1>4. PassOK
    <2>1. health \in [Daemon -> Healths] /\ left \in Seq(Daemon) /\ seen \in Policy
      BY <1>1 DEF Init
    <2> QED
      BY <2>1, Zenon DEF Init, PassOK
  <1>5. TypeOK
    BY <1>2, <1>3, <1>4, TypeGroups
  <1>6. LifeInv /\ LocalInv
    BY DEF Init, LifeInv, LocalInv, Deletion
  <1>7. CountInv
    BY <1>1 DEF Init, CountInv
  <1>8. SettledInv
    BY DEF Init, SettledInv, Settled
  <1> QED
    BY <1>5, <1>6, <1>7, <1>8 DEF IInv

(* Every step keeps it.                                                    *)
LEMMA InvStep == Cardinals /\ IInv /\ [Next]_vars => IInv'
  <1> SUFFICES ASSUME Cardinals, IInv, [Next]_vars PROVE IInv'
    OBVIOUS
  <1>0. TypeOK /\ LifeInv /\ LocalInv /\ CountInv /\ SettledInv
    BY DEF IInv
  <1>1. TypeOK'
    <2>1. CASE UNCHANGED vars
      BY <1>0, <2>1, TypeGroups, TypeGroupsNext, TypeFrames DEF vars, QueueOK
    <2> QED
      BY <1>0, <2>1, ClusterTyped, ReconcileTyped DEF Next
  <1>2. LifeInv' /\ LocalInv' /\ CountInv' /\ SettledInv'
    BY <1>0, <1>1, LifeStep, LocalStep, CountStep, SettledStep
  <1> QED
    BY <1>1, <1>2 DEF IInv

(* At rest no status is owed, so everything known is so.                   *)
LEMMA Rest ==
  ASSUME Cardinals, IInv, Quiescent
  PROVE  /\ TypeOK /\ ~Owed
         /\ \A d \in Daemon :
              /\ status[d] = Counted(d)
              /\ Known(d, reported[d])
              /\ status[d].ready = status[d].desired
              /\ \A n \in Node : Eligible(n) => pod[n][d] = "ready"
         /\ ready = Check(seen, AggregateReadyCondition(reported), SkipVersionChecks)
         /\ UpgradeKnown(inUpgrade)
         /\ watched => seen = policy \/ seen.kind = "unreadable"
  <1>1. Settled /\ pc = "idle" /\ \A d \in Daemon : status[d] = Counted(d)
    BY DEF IInv, LocalInv, Quiescent, Idle, Settled
  <1>2. /\ \A d \in Daemon : Known(d, reported[d])
        /\ ready = Check(seen, AggregateReadyCondition(reported), SkipVersionChecks)
        /\ UpgradeKnown(inUpgrade)
        /\ watched => seen = policy \/ seen.kind = "unreadable"
    BY <1>1, Zenon DEF IInv, SettledInv
  <1>3. \A d \in Daemon :
          /\ ~Behind(d)
          /\ status[d].ready = status[d].desired
          /\ \A n \in Node : Eligible(n) => pod[n][d] = "ready"
    BY <1>1, <1>2, Complete, Zenon DEF IInv, Known
  <1> QED
    BY <1>1, <1>2, <1>3, Zenon DEF IInv, Owed

(* At rest the persisted conditions are those of the DaemonSets.           *)
LEMMA StatusSettled == Cardinals /\ IInv => StatusConverges
  <1> SUFFICES ASSUME Cardinals, IInv, Quiescent
               PROVE  /\ \A d \in Daemon :
                           /\ reported[d] = [err |-> FALSE, desired |-> Counted(d).desired,
                                             ready |-> Counted(d).ready]
                           /\ reported[d].ready = reported[d].desired
                      /\ (ready = "True") <=> (CheckReason(seen, "True", SkipVersionChecks) = "")
                      /\ watched => seen = policy \/ seen.kind = "unreadable"
    BY Zenon DEF StatusConverges
  <1>1. \A d \in Daemon :
          /\ reported[d] = [err |-> FALSE, desired |-> Counted(d).desired, ready |-> Counted(d).ready]
          /\ reported[d].ready = reported[d].desired
          /\ ~reported[d].err
    <2> SUFFICES ASSUME NEW d \in Daemon
                 PROVE  /\ reported[d] = [err |-> FALSE, desired |-> Counted(d).desired,
                                          ready |-> Counted(d).ready]
                        /\ reported[d].ready = reported[d].desired
                        /\ ~reported[d].err
      BY Zenon
    <2>1. /\ reported[d] = [err |-> FALSE, desired |-> status[d].desired, ready |-> status[d].ready]
          /\ status[d] = Counted(d) /\ status[d].ready = status[d].desired
      BY Rest, Zenon DEF Known
    <2>2. ~reported[d].err /\ reported[d].desired = status[d].desired
            /\ reported[d].ready = status[d].ready
      <3>1. PICK a, b : a = status[d].desired /\ b = status[d].ready
        OBVIOUS
      <3>2. reported[d] = [err |-> FALSE, desired |-> a, ready |-> b]
        BY <2>1, <3>1, Zenon
      <3>3. reported[d].err = FALSE /\ reported[d].desired = a /\ reported[d].ready = b
        BY <3>2
      <3> QED
        BY <3>1, <3>3, Zenon
    <2> QED
      BY <2>1, <2>2, Zenon
  <1>2. AggregateReadyCondition(reported) = "True"
    BY <1>1, Zenon DEF AggregateReadyCondition, DaemonHealthToCondition
  <1>3. (ready = "True") <=> (CheckReason(seen, "True", SkipVersionChecks) = "")
    BY <1>2, Rest, Zenon DEF Check
  <1>4. watched => seen = policy \/ seen.kind = "unreadable"
    BY Rest, Zenon
  <1> QED
    BY <1>1, <1>3, <1>4, Zenon

(* At rest DriverUpgradeInProgress agrees with the nodes.                  *)
LEMMA UpgradeSettled == Cardinals /\ IInv => UpgradeReflected
  <1> SUFFICES ASSUME Cardinals, IInv, Quiescent
               PROVE  /\ began # {} => inUpgrade
                      /\ inUpgrade => \E n \in Node : ~Eligible(n)
    BY DEF UpgradeReflected
  <1>1. inUpgrade \in BOOLEAN
    BY Rest, Zenon DEF TypeOK
  <1>2. began # {} => inUpgrade
    BY <1>1, Rest, Zenon DEF UpgradeKnown, NoneBegan
  <1>3. PICK d \in Daemon : d = Daemons[1]
    BY DaemonsTyped
  <1>4. \A n \in Node : Eligible(n) => ~Drained(n)
    BY <1>3, Rest, Zenon DEF Drained
  <1>5. inUpgrade => \E n \in Node : ~Eligible(n)
    BY <1>4, Rest, Zenon DEF UpgradeKnown, SomeAway
  <1> QED
    BY <1>2, <1>5

-----------------------------------------------------------------------------
(* The theorems.                                                           *)

INSTANCE FiniteSetTheorems

(* The cardinality facts the lemmas assume are facts of finite sets.       *)
LEMMA CardinalsHold == Cardinals
  <1>1. ASSUME NEW S, NEW T, S \subseteq Node, T \subseteq S
        PROVE  /\ Cardinality(S) \in Nat /\ Cardinality(T) \in Nat
               /\ Cardinality(T) <= Cardinality(S)
               /\ Cardinality(T) = Cardinality(S) => T = S
    <2>1. IsFiniteSet(S)
      BY <1>1, ReconcilerAssumption, FS_Subset
    <2> QED
      BY <1>1, <2>1, FS_Subset, FS_CardinalityType
  <1>2. ASSUME NEW S, NEW T, S \subseteq Node, T \subseteq Node, S \cap T = {}
        PROVE  Cardinality(S \cup T) = Cardinality(S) + Cardinality(T)
    <2>1. IsFiniteSet(S) /\ IsFiniteSet(T)
      BY <1>2, ReconcilerAssumption, FS_Subset
    <2>2. Cardinality(S \cup T) = Cardinality(S) + Cardinality(T) - Cardinality({})
      BY <1>2, <2>1, FS_Union
    <2> QED
      BY <2>1, <2>2, FS_CardinalityType, FS_EmptySet
  <1> QED
    BY <1>1, <1>2 DEF Cardinals

(* The invariant the next theorems rest on: while nothing is queued and    *)
(* the pass has found nothing to retry, what it has computed, and what the *)
(* last one persisted, is what it would compute again, or the DaemonSet    *)
(* controller owes a status that will queue the next.                      *)
THEOREM ReconcilerInvariant == Spec => []IInv
  <1>1. IInv /\ [Next]_vars => IInv'
    BY CardinalsHold, InvStep
  <1> QED
    BY <1>1, InvInit, PTL DEF Spec

(* When the operator rests, its persisted conditions are those of the      *)
(* DaemonSets as they are (updateStatus, aggregateReadyCondition), for any *)
(* nodes, any order of the daemons, and any number of failed calls,        *)
(* restarts, drains and changes of the GPU stack.                          *)
THEOREM StatusAlwaysConverges == Spec => []StatusConverges
  <1>1. IInv => StatusConverges
    BY CardinalsHold, StatusSettled
  <1> QED
    BY <1>1, ReconcilerInvariant, PTL

(* When the operator rests, DriverUpgradeInProgress is True if an upgrade  *)
(* is draining or has drained a daemon from its node, and not True when    *)
(* every node may run the daemons, although evaluateDriverUpgrade runs     *)
(* only when the status of a DaemonSet changes.                            *)
THEOREM UpgradeAlwaysReflected == Spec => []UpgradeReflected
  <1>1. IInv => UpgradeReflected
    BY CardinalsHold, UpgradeSettled
  <1> QED
    BY <1>1, ReconcilerInvariant, PTL

(* When the operator rests, a node that an upgrade has drained has no      *)
(* condition: evaluateDriverUpgrade has removed it after the last patch    *)
(* that patchNodeConditions made from a terminating pod.                   *)
THEOREM UpgradedNodeAlwaysCleared == Spec => []UpgradedNodeCleared
  <1>1. IInv => UpgradedNodeCleared
    BY CardinalsHold, Rest, Zenon DEF UpgradedNodeCleared, UpgradeKnown, BegunCleared
  <1> QED
    BY <1>1, ReconcilerInvariant, PTL

(* At the end of patchNodeConditions a node with a pod that is not ready   *)
(* is reported not ready, unless its own patch failed, in whatever order   *)
(* the pods come.                                                          *)
THEOREM PassAlwaysReportsUnhealthy == Spec => []PassReportsUnhealthy
  <1>1. IInv => PassReportsUnhealthy
    BY DEF IInv, LocalInv, PassReportsUnhealthy
  <1> QED
    BY <1>1, ReconcilerInvariant, PTL

(* No node keeps a condition of a resource that is gone: reconcileDelete   *)
(* and the finalizer, with any sweep failing and the resource deleted at   *)
(* any point of a pass.                                                    *)
THEOREM ConditionsAlwaysCleanedUp == Spec => []ConditionsCleanedUp
  <1>1. IInv => ConditionsCleanedUp
    BY DEF IInv, LifeInv, ConditionsCleanedUp, TypeOK
  <1> QED
    BY <1>1, ReconcilerInvariant, PTL

(* A resource that is being deleted has a request queued or a pass that    *)
(* will end in a clean-up or queue one.                                    *)
DeletionPending == cr = "deleting" => dirty \/ pc # "idle"

LEMMA PendingStep == DeletionPending /\ [Next]_vars => DeletionPending'
  <1> SUFFICES ASSUME DeletionPending, [Next]_vars PROVE DeletionPending'
    OBVIOUS
  <1> USE DEF DeletionPending
  <1>1. CASE UNCHANGED <<cr, pc, dirty>>
    BY <1>1
  <1>2. CASE CreateCR \/ DeleteCR \/ PolicyChanges
    BY <1>2, Zenon DEF CreateCR, DeleteCR, PolicyChanges, crvars
  <1>3. ASSUME NEW d \in Daemon, CollectDaemonSet(d) \/ StatusEvent(d) \/ ReconcileDaemon(d)
        PROVE  DeletionPending'
    BY <1>1, <1>3, Zenon DEF CollectDaemonSet, StatusEvent, ReconcileDaemon, crvars
  <1>4. ASSUME NEW n \in Node, NEW d \in Daemon,
               SchedulePod(n, d) \/ PodReady(n, d) \/ PodFails(n, d) \/ DrainPod(n, d)
        PROVE  DeletionPending'
    BY <1>1, <1>4, Zenon DEF SchedulePod, PodReady, PodFails, DrainPod, crvars
  <1>5. ASSUME NEW n \in Node, MoveLabels(n) PROVE DeletionPending'
    BY <1>1, <1>5 DEF MoveLabels, crvars
  <1>6. CASE BeginNotFound \/ Begin \/ FinalizerFails \/ BeginDelete
    BY <1>6 DEF BeginNotFound, Begin, FinalizerFails, BeginDelete, Abort, crvars
  <1>7. CASE EvaluateDriverUpgrade \/ ListPods \/ ListFails
    BY <1>7 DEF EvaluateDriverUpgrade, ListPods, ListFails, crvars
  <1>8. ASSUME NEW n \in Node, NEW d \in Daemon, NEW r \in BOOLEAN, PatchPod(n, d, r)
        PROVE  DeletionPending'
    BY <1>8 DEF PatchPod, crvars
  <1>9. CASE UpdateStatus \/ UpdateStatusFails
    BY <1>9, Zenon DEF UpdateStatus, UpdateStatusFails, Abort, crvars
  <1>10. CASE RemoveNodeConditions \/ RemoveDriverMajorLabels
    BY <1>10 DEF RemoveNodeConditions, RemoveDriverMajorLabels, Abort, crvars
  <1>11. CASE ReleaseFinalizer \/ Restart
    BY <1>11, Zenon DEF ReleaseFinalizer, Restart, Abort, crvars
  <1>12. CASE UNCHANGED vars
    BY <1>1, <1>12 DEF vars, crvars
  <1> QED
    BY <1>2, <1>3, <1>4, <1>5, <1>6, <1>7, <1>8, <1>9, <1>10, <1>11, <1>12
       DEF Next, Reconcile, Cluster, StatusEvents

(* The operator never rests on a deletion, whatever call fails, wherever   *)
(* it crashes and whatever step of an ordinary pass the deletion meets:    *)
(* every way out of reconcileDelete but the last queues the request again. *)
(* This is the half of DeletionCompletes that needs no fairness.           *)
THEOREM DeletionNeverDropped == Spec => []DeletionPending
  <1>1. Init => DeletionPending
    BY DEF Init, DeletionPending
  <1> QED
    BY <1>1, PendingStep, PTL DEF Spec

-----------------------------------------------------------------------------
(* The version gate, for every version text and list of packages.          *)

(* Of some numbers, one is the least.                                      *)
LEMMA LeastIndex ==
  ASSUME NEW S, S \subseteq Nat, S # {}
  PROVE  \E i \in S : \A j \in S : i <= j
  <1>1. PICK i \in S : \A j \in S : ~(<<j, i>> \in OpToRel(<, Nat))
    BY WFMin, NatLessThanWellFounded, Zenon
  <1>2. \A j \in S : i <= j
    <2> SUFFICES ASSUME NEW j \in S, ~(i <= j) PROVE FALSE
      OBVIOUS
    <2>1. i \in Nat /\ j \in Nat /\ j < i
      OBVIOUS
    <2>2. <<j, i>> \in OpToRel(<, Nat)
      BY <2>1 DEF OpToRel
    <2> QED
      BY <1>1, <2>2, Zenon
  <1> QED
    BY <1>2

(* Comparing canonical forms (semver.Compare) is comparing the numbers     *)
(* that are there.                                                         *)
LEMMA BelowIsOlder ==
  ASSUME NEW core \in Seq(Nat), Len(core) \in 1 .. 3, NEW min \in Seq(Nat), Len(min) = 3
  PROVE  Below(Canonical(core), min) <=> Older(core, min)
  <1>1. /\ Canonical(core)[1] = At(core, 1) /\ min[1] = At(min, 1)
        /\ Canonical(core)[2] = At(core, 2) /\ min[2] = At(min, 2)
        /\ Canonical(core)[3] = At(core, 3) /\ min[3] = At(min, 3)
    BY DEF Canonical, At
  <1>2. Older(core, min) <=>
          \/ At(core, 1) < At(min, 1)
          \/ At(core, 2) < At(min, 2) /\ At(core, 1) = At(min, 1)
          \/ /\ At(core, 3) < At(min, 3)
             /\ At(core, 1) = At(min, 1) /\ At(core, 2) = At(min, 2)
    <2>1. /\ 1 .. 3 = {1, 2, 3} /\ 1 .. (1 - 1) = {} /\ 1 .. (2 - 1) = {1}
          /\ 1 .. (3 - 1) = {1, 2}
      OBVIOUS
    <2> QED
      BY <2>1, Zenon DEF Older
  <1> QED
    BY <1>1, <1>2 DEF Below

(* An operand fails exactly if it is pinned to dotted numbers and too old. *)
LEMMA OperandGate ==
  ASSUME NEW x \in Versions, NEW min \in Seq(Nat), Len(min) = 3
  PROVE  OperandFails(x, min) <=> TooOld(x, min)
  <1>1. CASE x \in {Missing, Garbled}
    BY <1>1, Zenon DEF OperandFails, OperandParses, TooOld, Readable
  <1>2. CASE x \notin {Missing, Garbled}
    <2>1. x.core \in Seq(Nat)
      BY <1>2 DEF Versions, Texts
    <2>2. OperandParses(x) <=> Len(x.core) \in 1 .. 3
      BY <1>2 DEF OperandParses, IsValid
    <2>3. Len(x.core) \in 1 .. 3 => (Below(Canonical(x.core), min) <=> Older(x.core, min))
      BY <2>1, BelowIsOlder
    <2> QED
      BY <1>2, <2>2, <2>3, Zenon
         DEF OperandFails, NormalizeOperandVersion, TooOld, Readable
  <1> QED
    BY <1>1, <1>2

(* The operator's version fails exactly if it is not known to be good; the *)
(* patch number may be left out before a suffix.                           *)
LEMMA OperatorGate ==
  ASSUME NEW x \in Versions
  PROVE  GpuOperatorVersionFails(x) <=> ~KnownGood(x)
  <1>1. CASE x \in {Missing, Garbled}
    BY <1>1, Zenon DEF GpuOperatorVersionFails, OperatorParses, KnownGood, Readable
  <1>2. CASE x \notin {Missing, Garbled}
    <2>1. x.core \in Seq(Nat) /\ x.suffix \in Suffixes
      BY <1>2 DEF Versions, Texts
    <2>2. OperatorParses(x) <=>
            /\ Len(x.core) \in 1 .. 3
            /\ x.suffix = "none" \/ (x.suffix # "malformed" /\ Len(x.core) > 1)
      <3>1. Len(Append(x.core, 0)) = Len(x.core) + 1 /\ Len(x.core) \in Nat
        BY <2>1
      <3>2. IsValid(TRUE, x.core, x.suffix) <=>
              /\ Len(x.core) \in 1 .. 3
              /\ x.suffix = "none" \/ (Len(x.core) = 3 /\ x.suffix # "malformed")
        BY Zenon DEF IsValid
      <3>3. IsValid(TRUE, Append(x.core, 0), x.suffix) <=>
              /\ Len(x.core) + 1 \in 1 .. 3
              /\ x.suffix = "none" \/ (Len(x.core) + 1 = 3 /\ x.suffix # "malformed")
        BY <3>1, Zenon DEF IsValid
      <3>4. OperatorParses(x) <=>
              IsValid(TRUE, x.core, x.suffix)
                \/ (Len(x.core) = 2 /\ IsValid(TRUE, Append(x.core, 0), x.suffix))
        BY <1>2, Zenon DEF OperatorParses
      <3>5. CASE Len(x.core) = 2
        <4>1. /\ Len(x.core) \in 1 .. 3 /\ Len(x.core) # 3 /\ Len(x.core) > 1
              /\ Len(x.core) + 1 \in 1 .. 3 /\ Len(x.core) + 1 = 3
          BY <3>5
        <4> QED
          BY <3>2, <3>3, <3>4, <3>5, <4>1, Zenon
      <3>6. CASE Len(x.core) # 2
        <4>1. Len(x.core) \in 1 .. 3 => (Len(x.core) = 3 <=> Len(x.core) > 1)
          <5>1. \A n \in Nat : n # 2 /\ n \in 1 .. 3 => (n = 3 <=> n > 1)
            OBVIOUS
          <5> QED
            BY <3>1, <3>6, <5>1, Zenon
        <4> QED
          BY <3>2, <3>4, <3>6, <4>1, Zenon
      <3> QED
        BY <3>5, <3>6
    <2>3. OperatorParses(x) => NormalizeGPUOperatorVersion(x) = Canonical(x.core)
      <3>1. ASSUME Len(x.core) = 2 PROVE Canonical(Append(x.core, 0)) = Canonical(x.core)
        BY <2>1, <3>1 DEF Canonical
      <3> QED
        BY <3>1, Zenon DEF OperatorParses, NormalizeGPUOperatorVersion
    <2>4. <<26, 7, 1>> \in Seq(Nat) /\ Len(<<26, 7, 1>>) = 3
      OBVIOUS
    <2>5. Len(x.core) \in 1 .. 3 =>
            (Below(Canonical(x.core), <<26, 7, 1>>) <=> Older(x.core, <<26, 7, 1>>))
      BY <2>1, <2>4, BelowIsOlder, Zenon
    <2> QED
      BY <1>2, <2>2, <2>3, <2>5, Zenon
         DEF GpuOperatorVersionFails, minimumGPUOperatorVersion, KnownGood, Readable
  <1> QED
    BY <1>1, <1>2

(* The first package that may be NVIDIA's decides.                         *)
LEMMA FirstPackage ==
  ASSUME policy \in GpuStacks
  PROVE  LET csv == ClusterServiceVersion(policy.csvs)
         IN  /\ csv.found <=> \E i \in DOMAIN policy.csvs : MayBeNvidias(i)
             /\ csv.version \in Versions
             /\ (\E i \in DOMAIN policy.csvs :
                   /\ MayBeNvidias(i) /\ KnownGood(policy.csvs[i].version)
                   /\ \A j \in 1 .. (i - 1) : ~MayBeNvidias(j))
                <=> csv.found /\ KnownGood(csv.version)
  <1> DEFINE ours == Ours(policy.csvs)
             first == CHOOSE i \in ours : \A j \in ours : i <= j
             csv == ClusterServiceVersion(policy.csvs)
  <1>1. /\ policy.csvs \in Seq([prefixed : BOOLEAN, provider : {"NVIDIA", "other", "absent"},
                                version : Versions])
        /\ DOMAIN policy.csvs = 1 .. Len(policy.csvs) /\ Len(policy.csvs) \in Nat
        /\ \A i \in DOMAIN policy.csvs : policy.csvs[i].version \in Versions
    <2> DEFINE Packages == [prefixed : BOOLEAN, provider : {"NVIDIA", "other", "absent"},
                            version : Versions]
    <2>1. policy.csvs \in Seq(Packages)
      BY Zenon DEF GpuStacks
    <2>2. \A p \in Packages : p.version \in Versions
      OBVIOUS
    <2> HIDE DEF Packages
    <2>3. /\ DOMAIN policy.csvs = 1 .. Len(policy.csvs) /\ Len(policy.csvs) \in Nat
          /\ \A i \in DOMAIN policy.csvs : policy.csvs[i] \in Packages
      BY <2>1
    <2> QED
      BY <2>1, <2>2, <2>3, Zenon DEF Packages
  <1>0. PICK m \in Nat : DOMAIN policy.csvs = 1 .. m
    BY <1>1, Zenon
  <1>2. /\ ours \subseteq DOMAIN policy.csvs
        /\ \A i \in DOMAIN policy.csvs : i \in ours <=> MayBeNvidias(i)
    BY DEF Ours, MayBeNvidias
  <1>3. CASE ours = {}
    <2>1. csv = [found |-> FALSE, version |-> Missing]
      BY <1>3 DEF ClusterServiceVersion
    <2>2. csv.found = FALSE /\ csv.version = Missing
      BY <2>1
    <2>3. csv.version \in Versions
      BY <2>2, Zenon DEF Versions
    <2>4. \A i \in DOMAIN policy.csvs : ~MayBeNvidias(i)
      BY <1>2, <1>3, Zenon
    <2> HIDE DEF csv
    <2> QED
      BY <2>2, <2>3, <2>4, Zenon DEF csv
  <1>4. CASE ours # {}
    <2>0. ours \subseteq Nat
      BY <1>0, <1>2
    <2>1. first \in ours /\ \A j \in ours : first <= j
      <3>1. \E i \in ours : \A j \in ours : i <= j
        BY <1>4, <2>0, LeastIndex
      <3> QED
        BY <3>1, Zenon
    <2>2. csv = [found |-> TRUE, version |-> policy.csvs[first].version]
      BY <1>4, Zenon DEF ClusterServiceVersion
    <2>3. csv.found = TRUE /\ csv.version = policy.csvs[first].version
      <3> HIDE DEF csv, first
      <3> QED
        BY <2>2
    <2> HIDE DEF ours, first, csv
    <2>4. first \in DOMAIN policy.csvs /\ MayBeNvidias(first)
      BY <1>2, <2>1
    <2>5. ASSUME NEW i \in DOMAIN policy.csvs, MayBeNvidias(i)
          PROVE  (\A j \in 1 .. (i - 1) : ~MayBeNvidias(j)) <=> i = first
      <3>1. i \in ours /\ first <= i /\ i \in Nat /\ first \in Nat /\ first >= 1
        <4>1. i \in ours /\ first <= i
          BY <1>2, <2>1, <2>5, Zenon
        <4> QED
          BY <1>0, <2>4, <4>1
      <3>2. ASSUME \A j \in 1 .. (i - 1) : ~MayBeNvidias(j) PROVE i = first
        BY <2>4, <3>1, <3>2
      <3>3. ASSUME i = first, NEW j \in 1 .. (i - 1) PROVE ~MayBeNvidias(j)
        <4>1. j \in DOMAIN policy.csvs /\ ~(first <= j)
          BY <1>0, <2>4, <3>1, <3>3
        <4> QED
          BY <1>2, <2>1, <4>1
      <3> QED
        BY <3>2, <3>3
    <2>6. policy.csvs[first].version \in Versions
      BY <1>1, <2>4
    <2> QED
      BY <2>3, <2>4, <2>5, <2>6, Zenon DEF csv
  <1> QED
    BY <1>3, <1>4, Zenon

(* For every stack, whatever its version texts and its list of packages,   *)
(* the operator's version gate refuses it exactly when the reference does, *)
(* at every moment of the operator's life.                                 *)
THEOREM VersionGateAlwaysExact == Spec => []VersionGateExact
  <1>1. ASSUME policy \in GpuStacks PROVE VersionGateExact
    <2> DEFINE o == GpuOperatorVersion(policy)
               csv == ClusterServiceVersion(policy.csvs)
    <2>0. /\ policy.toolkit \in Versions /\ policy.devicePlugin \in Versions
          /\ policy.label \in Versions /\ policy.csvErr \in BOOLEAN
      BY <1>1 DEF GpuStacks
    <2>1. OperandFails(policy.toolkit, minToolkitVersion) <=> TooOld(policy.toolkit, <<1, 20, 1>>)
      <3>1. <<1, 20, 1>> \in Seq(Nat) /\ Len(<<1, 20, 1>>) = 3
        OBVIOUS
      <3> QED
        BY <2>0, <3>1, OperandGate, Zenon DEF minToolkitVersion
    <2>2. OperandFails(policy.devicePlugin, minDevicePluginVersion)
            <=> TooOld(policy.devicePlugin, <<0, 20, 1>>)
      <3>1. <<0, 20, 1>> \in Seq(Nat) /\ Len(<<0, 20, 1>>) = 3
        OBVIOUS
      <3> QED
        BY <2>0, <3>1, OperandGate, Zenon DEF minDevicePluginVersion
    <2>3. /\ csv.found <=> \E i \in DOMAIN policy.csvs : MayBeNvidias(i)
          /\ csv.version \in Versions
          /\ (\E i \in DOMAIN policy.csvs :
                /\ MayBeNvidias(i) /\ KnownGood(policy.csvs[i].version)
                /\ \A j \in 1 .. (i - 1) : ~MayBeNvidias(j))
             <=> csv.found /\ KnownGood(csv.version)
      BY <1>1, FirstPackage, Zenon
    <2>4. VersionOutcome(o) # "" <=> ~Vouched
      <3>1. CASE policy.kind = "present" /\ policy.label # Missing
        <4>1. o.err = FALSE /\ o.version = policy.label
          BY <3>1, Zenon DEF GpuOperatorVersion
        <4> QED
          BY <2>0, <3>1, <4>1, OperatorGate, Zenon DEF VersionOutcome, Vouched
      <3>2. CASE ~(policy.kind = "present" /\ policy.label # Missing)
        <4>1. CASE policy.csvErr
          <5>1. o.err = TRUE
            BY <3>2, <4>1, Zenon DEF GpuOperatorVersion
          <5> QED
            BY <3>2, <4>1, <5>1, Zenon DEF VersionOutcome, Vouched
        <4>2. CASE ~policy.csvErr
          <5>1. o.err = FALSE /\ o.version = csv.version
            BY <2>0, <3>2, <4>2, Zenon DEF GpuOperatorVersion
          <5>2. VersionOutcome(o) # "" <=> ~KnownGood(csv.version)
            BY <2>3, <5>1, OperatorGate, Zenon DEF VersionOutcome
          <5>3. Vouched <=> csv.found /\ KnownGood(csv.version)
            BY <2>3, <3>2, <4>2, Zenon DEF Vouched
          <5>4. KnownGood(csv.version) => csv.found
            BY Zenon DEF ClusterServiceVersion, KnownGood, Readable
          <5> QED
            BY <5>2, <5>3, <5>4, Zenon
        <4> QED
          BY <4>1, <4>2, Zenon
      <3> QED
        BY <3>1, <3>2, Zenon
    <2>5. CASE policy.kind = "present"
      <3>1. Defaulted(policy) <=> Missing \in {policy.toolkit, policy.devicePlugin}
        BY Zenon DEF Defaulted
      <3>2. VersionFailure(policy, FALSE) # "" <=>
              \/ OperandFails(policy.toolkit, minToolkitVersion)
              \/ OperandFails(policy.devicePlugin, minDevicePluginVersion)
              \/ Defaulted(policy) /\ VersionOutcome(o) # ""
        BY <2>5, Zenon DEF VersionFailure
      <3> QED
        BY <2>1, <2>2, <2>4, <2>5, <3>1, <3>2, Zenon DEF VersionGateExact
    <2>6. CASE policy.kind # "present"
      <3>1. o.err = policy.csvErr /\ (o.found <=> ~policy.csvErr /\ csv.found)
        BY <2>0, <2>6, Zenon DEF GpuOperatorVersion
      <3>2. VersionFailure(policy, FALSE) = IF ~o.err /\ ~o.found THEN "" ELSE VersionOutcome(o)
        BY <2>6, Zenon DEF VersionFailure
      <3>3. policy.csvErr => ~Vouched
        BY <2>6, Zenon DEF Vouched
      <3>4. VersionFailure(policy, FALSE) # "" <=>
              (policy.csvErr \/ csv.found) /\ VersionOutcome(o) # ""
        BY <2>0, <3>1, <3>2, Zenon
      <3> QED
        BY <2>3, <2>4, <2>6, <3>3, <3>4, Zenon DEF VersionGateExact
    <2> QED
      BY <2>5, <2>6
  <1>2. IInv => policy \in GpuStacks
    BY ReconcilerAssumption DEF IInv, TypeOK
  <1> QED
    BY <1>1, <1>2, ReconcilerInvariant, PTL
=============================================================================
