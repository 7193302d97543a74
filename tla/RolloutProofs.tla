--------------------------- MODULE RolloutProofs ---------------------------
(***************************************************************************)
(* Proofs about Rollout, for any number of nodes, any configurations and   *)
(* any number of changes and failures.                                     *)
(*                                                                         *)
(* A template, and so a pod, is always what the builders make of some      *)
(* configuration: the operator and the binaries agree on it because of the *)
(* way they compute it, not because of the order of events.  What the      *)
(* operator rests on depends on that order: as long as no request is       *)
(* queued, the pass works with what it would read again, and the templates *)
(* it has gone past are the ones it would write again.                     *)
(***************************************************************************)
EXTENDS Rollout, TLAPS

Reads == Policies \cup {Unreadable}

Built(d, t) == \E s \in Specs, p \in Reads, h \in Helms : t = Desired(d, s, p, h)

Shape ==
  /\ spec \in Specs /\ policy \in Policies /\ helm \in Helms
  /\ pc \in {"idle", "fractiond", "mpsd", "status"}
  /\ due \in BOOLEAN /\ requeue \in BOOLEAN /\ stale \in BOOLEAN
  /\ DOMAIN tmpl = Daemon
  /\ DOMAIN pod = Node /\ \A n \in Node : DOMAIN pod[n] = Daemon

AllBuilt ==
  /\ \A d \in Daemon : tmpl[d] = Unset \/ Built(d, tmpl[d])
  /\ \A n \in Node, d \in Daemon : pod[n][d] = Unset \/ Built(d, pod[n][d].tmpl)

ReadFresh ==
  pc # "idle" =>
    /\ read.spec \in Specs /\ read.policy \in Reads
    /\ ~due => read.spec = spec /\ read.policy \in {policy, Unreadable}

Written ==
  ~due /\ ~requeue =>
    /\ pc \in {"mpsd", "status"} =>
         tmpl["fractiond"] = Desired("fractiond", read.spec, read.policy, helm)
    /\ pc = "status" => tmpl["mpsd"] = Desired("mpsd", read.spec, read.policy, helm)

Rests ==
  Resting =>
    \E q \in {policy, Unreadable} :
      /\ q = Unreadable => ~status.readable
      /\ \A d \in Daemon : tmpl[d] = Desired(d, spec, q, helm)

IInv == Shape /\ AllBuilt /\ ReadFresh /\ Written /\ Rests

-----------------------------------------------------------------------------
(* The flags a binary ends up with, one by one.                            *)
LEMMA FractiondParses ==
  ASSUME NEW t
  PROVE  /\ Fractiond(t).readinessPort = Default(t.args.readinessPort, 8093)
         /\ Fractiond(t).socketPath = Default(t.args.socketPath, <<"/var/run/nri", "nri.sock">>)
         /\ Fractiond(t).criSocket = Default(t.args.criSocket, <<"/run/containerd", "containerd.sock">>)
         /\ Fractiond(t).mapDir = Default(t.args.mapDir, "/var/run/gpu-fractioning/map")
         /\ Fractiond(t).pipeDir = Default(t.args.pipeDir, "/run/nvidia-mps")
BY DEF Fractiond, Parse, FractiondFlags

(* The flags of metricsd.                                                  *)
LEMMA MetricsdParses ==
  ASSUME NEW t
  PROVE  /\ Metricsd(t).address = Default(t.sidecar.args.address, 2112)
         /\ Metricsd(t).mapDir = Default(t.sidecar.args.mapDir, "/var/run/gpu-fractioning/map")
BY DEF Metricsd, Parse, MetricsdFlags

(* The flags of mpsd.                                                      *)
LEMMA MpsdParses ==
  ASSUME NEW t
  PROVE  /\ Mpsd(t).gracefulStopDelay = Default(t.args.gracefulStopDelay, 60000)
         /\ Mpsd(t).pipeDir = Default(t.args.pipeDir, "/run/nvidia-mps")
BY DEF Mpsd, Parse, MpsdFlags

(* The switches both daemons have.                                         *)
LEMMA SwitchesParse ==
  ASSUME NEW t, NEW u
  PROVE  /\ Fractiond(t).supportSMSharing = Default(t.args.supportSMSharing, TRUE)
         /\ Mpsd(u).supportSMSharing = Default(u.args.supportSMSharing, TRUE)
         /\ Fractiond(t).injectCDIDevice = Default(t.args.injectCDIDevice, FALSE)
<1>1. "supportSMSharing" \in DOMAIN FractiondFlags /\ "injectCDIDevice" \in DOMAIN FractiondFlags
  BY DEF FractiondFlags
<1>2. "supportSMSharing" \in DOMAIN MpsdFlags
  BY DEF MpsdFlags
<1>3. Fractiond(t).supportSMSharing = Default(t.args.supportSMSharing, FractiondFlags.supportSMSharing)
  BY <1>1 DEF Fractiond, Parse
<1>4. Fractiond(t).injectCDIDevice = Default(t.args.injectCDIDevice, FractiondFlags.injectCDIDevice)
  BY <1>1 DEF Fractiond, Parse
<1>5. Mpsd(u).supportSMSharing = Default(u.args.supportSMSharing, MpsdFlags.supportSMSharing)
  BY <1>2 DEF Mpsd, Parse
<1>6. FractiondFlags.supportSMSharing = TRUE /\ FractiondFlags.injectCDIDevice = FALSE
  BY DEF FractiondFlags
<1>7. MpsdFlags.supportSMSharing = TRUE
  BY DEF MpsdFlags
<1> QED  BY <1>3, <1>4, <1>5, <1>6, <1>7, Zenon

(* What the builders make of any configuration is coherent.                *)
LEMMA BuiltCoherent ==
  ASSUME NEW d \in Daemon, NEW t, Built(d, t)
  PROVE  Coherent(d, t)
<1>1. PICK s \in Specs, p \in Reads, h \in Helms : t = Desired(d, s, p, h)
  BY DEF Built
<1> DEFINE opts == BuildOptions(s, NRIPluginEnabled(p), h)
<1>2. CASE d = "mpsd"
  <2>1. t = MpsdDaemonSet(s, opts)
    BY <1>1, <1>2 DEF Desired, BuildDaemonSet
  <2>2. /\ t.args.gracefulStopDelay = MpsdArgs(s.mpsDaemon).gracefulStopDelay
        /\ t.args.pipeDir = Unset
        /\ t.grace = TerminationGraceSeconds(s.mpsDaemon)
        /\ t.mounts = {"/run/nvidia-mps", "/var/log/nvidia-mps"}
    BY <2>1 DEF MpsdDaemonSet
  <2>3. Mpsd(t).pipeDir \in t.mounts
    BY <2>2, MpsdParses DEF Default
  <2> DEFINE delay == IF s.mpsDaemon = Unset THEN 60000 ELSE Default(s.mpsDaemon.gracefulStopDelay, 60000)
  <2>4. Mpsd(t).gracefulStopDelay = delay
    BY <2>2, MpsdParses DEF Default, MpsdArgs
  <2>5. delay \in Nat
    BY RolloutAssumption DEF Default
  <2>6. t.grace = (delay + 15000) \div 1000
    BY <2>2 DEF TerminationGraceSeconds
  <2>7. delay + 14000 < 1000 * t.grace
    <3> HIDE DEF delay
    <3> QED  BY <2>5, <2>6
  <2> QED  BY <1>2, <2>3, <2>4, <2>7 DEF Coherent
<1>3. CASE d = "fractiond"
  <2> DEFINE agent == s.fractioningAgent
             metrics == s.metricsAgent
             on == MetricsEnabled(metrics)
  <2>1. t = FractiondDaemonSet(s, opts)
    BY <1>1, <1>3 DEF Desired, BuildDaemonSet
  <2>2. /\ t.args = BuildArgs(agent, opts)
        /\ t.probePort = ReadinessPort(agent)
        /\ t.mounts = BuildFractiondContainer(agent, opts).mounts
                        \cup (IF on THEN {"/var/run/gpu-fractioning/map"} ELSE {})
        /\ t.sidecar = IF on THEN BuildMetricsdContainer(metrics, opts) ELSE Unset
    BY <2>1 DEF FractiondDaemonSet, BuildFractiondContainer
  <2>3. BuildFractiondContainer(agent, opts).mounts =
          {NriSocketDir(agent), "/run/nvidia-mps"}
            \cup (IF RetroactiveEnforcementEnabled(agent) THEN {CriSocketDir(agent)} ELSE {})
    BY DEF BuildFractiondContainer
  <2>4. /\ t.args.readinessPort = IF agent = Unset THEN Unset ELSE agent.readinessPort
        /\ t.args.socketPath = IF agent = Unset THEN Unset ELSE agent.nriSocketPath
        /\ t.args.criSocket = IF agent = Unset THEN Unset ELSE agent.criSocketPath
        /\ t.args.retroactiveEnforcement = IF agent = Unset THEN Unset ELSE agent.retroactiveEnforcement
        /\ t.args.mapDir = Unset /\ t.args.pipeDir = Unset
    BY <2>2 DEF BuildArgs
  <2>5. Fractiond(t).readinessPort = t.probePort
    BY <2>2, <2>4, FractiondParses DEF Default, ReadinessPort
  <2>6. Fractiond(t).socketPath[1] = NriSocketDir(agent)
    BY <2>4, FractiondParses DEF Default, NriSocketDir
  <2>7. Fractiond(t).pipeDir = "/run/nvidia-mps"
    BY <2>4, FractiondParses DEF Default
  <2>8. ASSUME t.args.retroactiveEnforcement = TRUE
        PROVE  Fractiond(t).criSocket[1] \in t.mounts
    <3>1. agent # Unset /\ agent.retroactiveEnforcement = TRUE
      BY <2>4, <2>8, RolloutAssumption
    <3>2. Fractiond(t).criSocket[1] = CriSocketDir(agent)
      BY <2>4, FractiondParses DEF Default, CriSocketDir
    <3> QED  BY <2>2, <2>3, <3>1, <3>2 DEF RetroactiveEnforcementEnabled
  <2>9. ASSUME t.sidecar # Unset
        PROVE  /\ Fractiond(t).mapDir = Metricsd(t).mapDir
               /\ Metricsd(t).mapDir \in t.mounts \cap t.sidecar.mounts
               /\ Metricsd(t).address \in Ports => Metricsd(t).address = t.sidecar.probePort
    <3>1. on /\ t.sidecar = BuildMetricsdContainer(metrics, opts)
      BY <2>2, <2>9
    <3>2. /\ t.sidecar.args.address = metrics.address /\ t.sidecar.args.mapDir = Unset
          /\ t.sidecar.probePort = MetricsListenPort(metrics)
          /\ t.sidecar.mounts = {"/var/run/gpu-fractioning/map"}
      BY <3>1 DEF BuildMetricsdContainer, BuildMetricsdArgs
    <3>3. Fractiond(t).mapDir = "/var/run/gpu-fractioning/map"
      BY <2>4, FractiondParses DEF Default
    <3>4. Metricsd(t).mapDir = "/var/run/gpu-fractioning/map"
      BY <3>2, MetricsdParses DEF Default
    <3>5. Metricsd(t).address \in Ports => Metricsd(t).address = t.sidecar.probePort
      BY <3>2, MetricsdParses DEF Default, MetricsListenPort
    <3> QED  BY <2>2, <3>1, <3>2, <3>3, <3>4, <3>5
  <2>10. Fractiond(t).socketPath[1] \in t.mounts /\ Fractiond(t).pipeDir \in t.mounts
    BY <2>2, <2>3, <2>6, <2>7
  <2>11. d # "mpsd"
    BY <1>3
  <2>12. SUFFICES
           /\ Fractiond(t).readinessPort = t.probePort
           /\ Fractiond(t).socketPath[1] \in t.mounts /\ Fractiond(t).pipeDir \in t.mounts
           /\ t.args.retroactiveEnforcement = TRUE => Fractiond(t).criSocket[1] \in t.mounts
           /\ t.sidecar # Unset =>
                /\ Fractiond(t).mapDir = Metricsd(t).mapDir
                /\ Metricsd(t).mapDir \in t.mounts \cap t.sidecar.mounts
                /\ Metricsd(t).address \in Ports => Metricsd(t).address = t.sidecar.probePort
    BY <2>11 DEF Coherent
  <2> QED  BY <2>5, <2>8, <2>9, <2>10, Zenon
<1> QED  BY <1>2, <1>3 DEF Daemon

(* And what they make of one configuration for both daemons agrees.        *)
LEMMA BuiltAgree ==
  ASSUME NEW s, NEW p, NEW h
  PROVE  LET f == Desired("fractiond", s, p, h)
             m == Desired("mpsd", s, p, h)
         IN  /\ Fractiond(f).injectCDIDevice = ("mpsd" \in m.cdi)
             /\ Fractiond(f).supportSMSharing = Mpsd(m).supportSMSharing
<1> DEFINE f == Desired("fractiond", s, p, h)
           m == Desired("mpsd", s, p, h)
<1> DEFINE opts == BuildOptions(s, NRIPluginEnabled(p), h)
<1>1. f = FractiondDaemonSet(s, opts)
  BY DEF Desired, BuildDaemonSet
<1>2. m = MpsdDaemonSet(s, opts)
  BY DEF Desired, BuildDaemonSet
<1>3. opts.nri = NRIPluginEnabled(p) /\ opts.helm = h
  BY DEF BuildOptions
<1>4. f.args = BuildArgs(s.fractioningAgent, opts)
  BY <1>1 DEF FractiondDaemonSet, BuildFractiondContainer
<1>5. f.args.injectCDIDevice = opts.nri /\ f.args.supportSMSharing = opts.helm.supportSMSharing
  BY <1>4, SMTT(30) DEF BuildArgs
<1>6. m.cdi = SetManagementCDIDevice("mpsd", opts) /\ m.args.supportSMSharing = opts.helm.supportSMSharing
  BY <1>2 DEF MpsdDaemonSet
<1>7. NRIPluginEnabled(p) \in BOOLEAN
  BY DEF NRIPluginEnabled
<1>8. ("mpsd" \in m.cdi) = opts.nri
  BY <1>3, <1>6, <1>7 DEF SetManagementCDIDevice
<1>9. Fractiond(f).injectCDIDevice = opts.nri
  BY <1>3, <1>5, <1>7, SwitchesParse, RolloutAssumption, Zenon DEF Default
<1>10. Fractiond(f).supportSMSharing = Mpsd(m).supportSMSharing
  BY <1>5, <1>6, SwitchesParse, Zenon
<1>11. Fractiond(f).injectCDIDevice = ("mpsd" \in m.cdi)
  BY <1>8, <1>9, Zenon
<1> QED  BY <1>10, <1>11, Zenon

-----------------------------------------------------------------------------
(* The invariant holds before anything is installed.                       *)
LEMMA InitIInv == Init => IInv
<1> SUFFICES ASSUME Init PROVE IInv
  OBVIOUS
<1>1. Shape
  BY RolloutAssumption DEF Init, Shape
<1>2. AllBuilt
  BY DEF Init, AllBuilt
<1> QED  BY <1>1, <1>2 DEF Init, IInv, ReadFresh, Written, Rests, Resting

(* A pod is removed, started from the template, or becomes ready.          *)
LEMMA PodStep ==
  ASSUME IInv, NEW n \in Node, NEW d \in Daemon,
         ReplacePod(n, d) \/ CreatePod(n, d) \/ BecomeReady(n, d)
  PROVE  IInv'
<1>1. PICK p : PodMoves(n, d, p) /\ (p = Unset \/ Built(d, p.tmpl))
  <2>1. CASE ReplacePod(n, d)
    BY <2>1 DEF ReplacePod
  <2>2. CASE CreatePod(n, d)
    BY <2>2 DEF CreatePod, IInv, AllBuilt
  <2>3. CASE BecomeReady(n, d)
    BY <2>3 DEF BecomeReady, IInv, AllBuilt
  <2> QED  BY <2>1, <2>2, <2>3
<1>2. /\ pod' = [pod EXCEPT ![n][d] = p]
      /\ due' = TRUE
      /\ UNCHANGED <<spec, policy, helm, tmpl, pc, read, requeue, stale, status>>
  BY <1>1 DEF PodMoves, SetPod, desired, pass
<1>3. Shape'
  BY <1>2 DEF IInv, Shape
<1>4. AllBuilt'
  <2>1. \A e \in Daemon : (tmpl[e] = Unset \/ Built(e, tmpl[e]))'
    BY <1>2 DEF IInv, AllBuilt
  <2>2. ASSUME NEW m \in Node, NEW e \in Daemon
        PROVE  pod'[m][e] = Unset \/ Built(e, pod'[m][e].tmpl)
    <3>1. CASE m = n /\ e = d
      BY <1>1, <1>2, <3>1 DEF IInv, Shape
    <3>2. CASE ~(m = n /\ e = d)
      <4>1. pod'[m][e] = pod[m][e]
        BY <1>2, <3>2 DEF IInv, Shape
      <4> QED  BY <4>1 DEF IInv, AllBuilt
    <3> QED  BY <3>1, <3>2
  <2> QED  BY <2>1, <2>2 DEF AllBuilt
<1>5. ReadFresh' /\ Written' /\ Rests'
  BY <1>2 DEF IInv, ReadFresh, Written, Rests, Resting
<1> QED  BY <1>3, <1>4, <1>5 DEF IInv

(* A DaemonSet's status is filled in.                                      *)
LEMMA CountStep ==
  ASSUME IInv, NEW d \in Daemon, CountNodes(d)
  PROVE  IInv'
<1>1. due' = TRUE /\ UNCHANGED <<spec, policy, helm, tmpl, pod, pc, read, requeue, stale, status>>
  BY DEF CountNodes, desired, pass
<1>2. Shape' /\ AllBuilt'
  BY <1>1 DEF IInv, Shape, AllBuilt
<1>3. ReadFresh' /\ Written' /\ Rests'
  BY <1>1 DEF IInv, ReadFresh, Written, Rests, Resting
<1> QED  BY <1>2, <1>3 DEF IInv

(* Whoever changes something the operator works with queues a request.     *)
LEMMA AdministratorStep ==
  ASSUME IInv, Administrator
  PROVE  IInv'
<1>1. due' = TRUE /\ UNCHANGED <<helm, pod, pc, read, requeue, status>>
  BY DEF Administrator, EditSpec, PolicyChanges, Tamper, desired, pass
<1>2. spec' \in Specs /\ policy' \in Policies /\ stale' \in BOOLEAN
  BY DEF Administrator, EditSpec, PolicyChanges, Tamper, desired, IInv, Shape
<1>3. /\ DOMAIN tmpl' = Daemon
      /\ \A e \in Daemon : tmpl'[e] = Unset \/ Built(e, tmpl'[e])
  <2>1. CASE UNCHANGED tmpl
    BY <2>1 DEF IInv, Shape, AllBuilt
  <2>2. ASSUME NEW d \in Daemon, Tamper(d)
        PROVE  /\ DOMAIN tmpl' = Daemon
               /\ \A e \in Daemon : tmpl'[e] = Unset \/ Built(e, tmpl'[e])
    <3>1. PICK t \in {Unset} \cup {pod[n][d].tmpl : n \in {m \in Node : pod[m][d] # Unset}} :
            tmpl' = [tmpl EXCEPT ![d] = t]
      BY <2>2 DEF Tamper
    <3>2. t = Unset \/ Built(d, t)
      BY <3>1 DEF IInv, AllBuilt
    <3>3. DOMAIN tmpl' = Daemon
      BY <3>1 DEF IInv, Shape
    <3>4. ASSUME NEW e \in Daemon
          PROVE  tmpl'[e] = Unset \/ Built(e, tmpl'[e])
      BY <3>1, <3>2 DEF IInv, Shape, AllBuilt
    <3> QED  BY <3>3, <3>4
  <2> QED  BY <2>1, <2>2 DEF Administrator, EditSpec, PolicyChanges
<1>4. Shape'
  BY <1>1, <1>2, <1>3 DEF IInv, Shape
<1>5. AllBuilt'
  BY <1>1, <1>3 DEF IInv, AllBuilt
<1>6. ReadFresh' /\ Written' /\ Rests'
  BY <1>1 DEF IInv, ReadFresh, Written, Rests, Resting
<1> QED  BY <1>4, <1>5, <1>6 DEF IInv

(* The pass starts from what there is now.                                 *)
LEMMA BeginStep ==
  ASSUME IInv, Begin
  PROVE  IInv'
<1>1. /\ pc' = "fractiond" /\ due' = FALSE /\ stale' = FALSE /\ requeue' = FALSE
      /\ read'.spec = spec /\ read'.policy \in {policy, Unreadable}
      /\ UNCHANGED <<spec, policy, helm, tmpl, pod>>
  BY DEF Begin, desired
<1>2. Shape' /\ AllBuilt'
  BY <1>1 DEF IInv, Shape, AllBuilt
<1>3. ReadFresh'
  BY <1>1 DEF IInv, Shape, ReadFresh, Reads
<1>4. Written' /\ Rests'
  BY <1>1 DEF Written, Rests, Resting
<1> QED  BY <1>2, <1>3, <1>4 DEF IInv

(* A template is written, or the pass will be repeated.                    *)
LEMMA ReconcileDaemonStep ==
  ASSUME IInv, NEW d \in Daemon, ReconcileDaemon(d)
  PROVE  IInv'
<1> DEFINE t == Desired(d, read.spec, read.policy, helm)
<1>1. /\ pc = d /\ pc' = IF d = "fractiond" THEN "mpsd" ELSE "status"
      /\ UNCHANGED <<spec, policy, helm, pod, read, stale, status>>
  BY DEF ReconcileDaemon, desired
<1>2. /\ tmpl' \in {tmpl, [tmpl EXCEPT ![d] = t]}
      /\ requeue' = TRUE \/ tmpl' = [tmpl EXCEPT ![d] = t]
      /\ requeue => requeue'
      /\ due => due'
  BY DEF ReconcileDaemon
<1>3. requeue' \in BOOLEAN /\ due' \in BOOLEAN
  BY DEF ReconcileDaemon
<1>4. read.spec \in Specs /\ read.policy \in Reads /\ helm \in Helms /\ pc # "idle"
  BY <1>1 DEF IInv, Shape, ReadFresh, Daemon
<1>5. Built(d, t)
  BY <1>4 DEF Built
<1>6. Shape'
  BY <1>1, <1>2, <1>3 DEF IInv, Shape
<1>7. AllBuilt'
  <2>1. ASSUME NEW e \in Daemon
        PROVE  tmpl'[e] = Unset \/ Built(e, tmpl'[e])
    <3> HIDE DEF t
    <3> QED  BY <1>2, <1>5 DEF IInv, Shape, AllBuilt
  <2> QED  BY <1>1, <2>1 DEF IInv, AllBuilt
<1>8. ReadFresh'
  BY <1>1, <1>2, <1>4 DEF IInv, ReadFresh
<1>9. Written'
  <2> SUFFICES ASSUME ~due', ~requeue' PROVE Written'
    BY DEF Written
  <2>1. ~due /\ ~requeue /\ tmpl' = [tmpl EXCEPT ![d] = t]
    BY <1>2
  <2>2. tmpl'[d] = t
    BY <2>1 DEF IInv, Shape
  <2>3. CASE d = "fractiond"
    BY <1>1, <2>2, <2>3 DEF Written
  <2>4. CASE d = "mpsd"
    <3>1. tmpl'["fractiond"] = tmpl["fractiond"]
      BY <2>1, <2>4 DEF IInv, Shape, Daemon
    <3> QED  BY <1>1, <2>1, <2>2, <2>4, <3>1 DEF IInv, Written
  <2> QED  BY <2>3, <2>4 DEF Daemon
<1>10. Rests'
  BY <1>1 DEF Rests, Resting
<1> QED  BY <1>6, <1>7, <1>8, <1>9, <1>10 DEF IInv

(* The operator comes to rest only if nothing is left to do.               *)
LEMMA UpdateStatusStep ==
  ASSUME IInv, UpdateStatus
  PROVE  IInv'
<1>1. /\ pc = "status" /\ pc' = "idle" /\ requeue' = FALSE /\ stale' = FALSE
      /\ UNCHANGED <<spec, policy, helm, tmpl, pod>>
  BY DEF UpdateStatus, Return, desired
<1>2. status'.readable = (read.policy # Unreadable)
  BY DEF UpdateStatus
<1>3. due' \in BOOLEAN /\ (~due' => ~due /\ ~requeue)
  BY DEF UpdateStatus
<1>4. Shape' /\ AllBuilt'
  BY <1>1, <1>3 DEF IInv, Shape, AllBuilt
<1>5. ReadFresh' /\ Written'
  BY <1>1 DEF ReadFresh, Written
<1>6. Rests'
  <2> SUFFICES ASSUME ~due' PROVE Rests'
    BY DEF Rests, Resting
  <2>1. /\ read.spec = spec /\ read.policy \in {policy, Unreadable}
        /\ tmpl["fractiond"] = Desired("fractiond", spec, read.policy, helm)
        /\ tmpl["mpsd"] = Desired("mpsd", spec, read.policy, helm)
    BY <1>1, <1>3 DEF IInv, ReadFresh, Written
  <2>2. \A d \in Daemon : tmpl'[d] = Desired(d, spec', read.policy, helm')
    BY <1>1, <2>1 DEF Daemon
  <2>3. read.policy = Unreadable => ~status'.readable
    BY <1>2
  <2> QED  BY <1>1, <2>1, <2>2, <2>3 DEF Rests
<1> QED  BY <1>4, <1>5, <1>6 DEF IInv

(* A pass that fails, or is cut off, is repeated.                          *)
LEMMA GiveUpStep ==
  ASSUME IInv, UpdateStatusFails \/ Restart
  PROVE  IInv'
<1>1. /\ pc' = "idle" /\ requeue' = FALSE /\ stale' = FALSE /\ due' = TRUE
      /\ UNCHANGED <<spec, policy, tmpl, pod>>
  BY DEF UpdateStatusFails, Restart, Return, desired
<1>2. helm' \in Helms
  BY DEF UpdateStatusFails, Restart, desired, IInv, Shape
<1>3. Shape' /\ AllBuilt'
  BY <1>1, <1>2 DEF IInv, Shape, AllBuilt
<1>4. ReadFresh' /\ Written' /\ Rests'
  BY <1>1 DEF ReadFresh, Written, Rests, Resting
<1> QED  BY <1>3, <1>4 DEF IInv

(* A stuttering step keeps it.                                             *)
LEMMA StutterStep ==
  ASSUME IInv, UNCHANGED vars
  PROVE  IInv'
<1>1. UNCHANGED <<spec, policy, helm, tmpl, pod, pc, due, read, requeue, stale, status>>
  BY DEF vars, desired, pass
<1>2. Shape' /\ AllBuilt'
  BY <1>1 DEF IInv, Shape, AllBuilt
<1>3. ReadFresh' /\ Written' /\ Rests'
  BY <1>1 DEF IInv, ReadFresh, Written, Rests, Resting
<1> QED  BY <1>2, <1>3 DEF IInv

(* The invariant the theorems of the rollout rest on, in every reachable   *)
(* state: every pod runs a template the operator built, and at rest the    *)
(* last one.                                                               *)
THEOREM Invariant == Spec => []IInv
<1>1. IInv /\ [Next]_vars => IInv'
  BY PodStep, CountStep, AdministratorStep, BeginStep, ReconcileDaemonStep, UpdateStatusStep, GiveUpStep,
     StutterStep, Zenon DEF Next, Reconcile, Cluster
<1> QED  BY InitIInv, <1>1, PTL DEF Spec

(* On every node, at any time of a rollout, what the kubelet gives to a    *)
(* pod is what its processes use: ports, socket directories, the shared    *)
(* map and the grace period.  Whatever the configuration says.             *)
THEOREM PodsStayCoherent == Spec => []PodsCoherent
<1>1. IInv => PodsCoherent
  BY BuiltCoherent DEF IInv, AllBuilt, PodsCoherent
<1> QED  BY Invariant, <1>1, PTL

(* When Reconcile has no request left, both DaemonSets are those of the    *)
(* resource, the GPU stack and the Helm values as they are, unless the     *)
(* status says that the ClusterPolicy was unreadable.                      *)
THEOREM RestsOnCurrent == Spec => []TemplatesCurrent
<1>1. IInv => TemplatesCurrent
  <2> SUFFICES ASSUME IInv, Resting, status.readable
               PROVE  \A d \in Daemon : tmpl[d] = Current(d)
    BY DEF TemplatesCurrent
  <2>1. PICK q \in {policy, Unreadable} :
          /\ q = Unreadable => ~status.readable
          /\ \A d \in Daemon : tmpl[d] = Desired(d, spec, q, helm)
    BY DEF IInv, Rests
  <2>2. q = policy
    BY <2>1
  <2> QED  BY <2>1, <2>2 DEF Current
<1> QED  BY Invariant, <1>1, PTL

(* And then, even so, both daemons work in the same mode.                  *)
THEOREM RestsInOneMode == Spec => []DaemonsAgree
<1>1. IInv => DaemonsAgree
  <2> SUFFICES ASSUME IInv, Resting
               PROVE  /\ tmpl["fractiond"] # Unset /\ tmpl["mpsd"] # Unset
                      /\ Fractiond(tmpl["fractiond"]).injectCDIDevice = ("mpsd" \in tmpl["mpsd"].cdi)
                      /\ Fractiond(tmpl["fractiond"]).supportSMSharing = Mpsd(tmpl["mpsd"]).supportSMSharing
    BY Zenon DEF DaemonsAgree
  <2>1. PICK q \in {policy, Unreadable} : \A d \in Daemon : tmpl[d] = Desired(d, spec, q, helm)
    BY DEF IInv, Rests
  <2>2. spec \in Specs /\ q \in Reads /\ helm \in Helms
    BY DEF IInv, Shape, Reads
  <2>3. /\ tmpl["fractiond"] = Desired("fractiond", spec, q, helm)
        /\ tmpl["mpsd"] = Desired("mpsd", spec, q, helm)
    BY <2>1 DEF Daemon
  <2>4. tmpl["fractiond"] # Unset /\ tmpl["mpsd"] # Unset
    BY <2>2, <2>3, TemplateAssumption DEF Daemon, Reads
  <2>5. /\ Fractiond(tmpl["fractiond"]).injectCDIDevice = ("mpsd" \in tmpl["mpsd"].cdi)
        /\ Fractiond(tmpl["fractiond"]).supportSMSharing = Mpsd(tmpl["mpsd"]).supportSMSharing
    BY <2>3, BuiltAgree, Zenon
  <2> QED  BY <2>4, <2>5, Zenon
<1> QED  BY Invariant, <1>1, PTL
=============================================================================
