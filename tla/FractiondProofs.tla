-------------------------- MODULE FractiondProofs --------------------------
(***************************************************************************)
(* Proofs about the node for any containers, specs, flag sets and bounds.  *)
(* The decisions of Injection: the create hook, the audit and the adapter  *)
(* agree, for every annotation, environment and configuration.  Then the   *)
(* process: its mapping pipeline implements Mapping, and hook, audit and   *)
(* adapter stay in agreement over sessions, crashes and restarts.          *)
(***************************************************************************)
EXTENDS Fractiond, TLAPS

-----------------------------------------------------------------------------
(* The decisions.                                                          *)

(* Rounding up to whole MiB never gives a container less memory than it    *)
(* asked for, nor as much as one MiB more (quantityToMemoryMiB, ceilDiv).  *)
THEOREM MemoryRoundsUp ==
  ASSUME NEW v \in Int, ValidQuantity(v)
  PROVE  /\ QuantityToMemoryMiB(v) >= 1
         /\ QuantityToMemoryMiB(v) * BytesPerMiB >= v
         /\ (QuantityToMemoryMiB(v) - 1) * BytesPerMiB < v
  <1>1. v - 1 \in Nat /\ v >= 1048576
    BY DEF ValidQuantity, MinMemoryBytes, BytesPerMiB
  <1> DEFINE q == (v - 1) \div 1048576
  <1>2. q \in Nat /\ q * 1048576 <= v - 1 /\ v - 1 < (q + 1) * 1048576
    BY <1>1
  <1>3. QuantityToMemoryMiB(v) = 1 + q
    BY DEF QuantityToMemoryMiB, CeilDiv, BytesPerMiB
  <1> HIDE DEF q
  <1> QED
    BY <1>1, <1>2, <1>3 DEF BytesPerMiB

(* What the hook does, by case: it refuses, leaves the container alone, or *)
(* adjusts it for the compute mode it is owed.                             *)
LEMMA HookCases ==
  ASSUME NEW cf, NEW sp
  PROVE  LET adj  == BuildAdjustment(cf, sp)
             mode == ParseComputeMode(sp, cf.smSharing)
             owed == IF mode = ModeError THEN TimeSlicing ELSE mode
         IN  IF ~GPUMemoryParses(sp) \/ IsEmpty(GPUMemoryConfig(sp))
             THEN adj \in {NoAdjustment("none"), NoAdjustment("error")}
             ELSE IF mode = ModeError /\ ~cf.failOpen
             THEN adj = NoAdjustment("error")
             ELSE adj = Adjustment(cf, sp, owed)
  BY DEF BuildAdjustment

(* The outcome and the mounts of the two forms of adjustment.              *)
LEMMA Outcomes ==
  /\ \A o : NoAdjustment(o).outcome = o /\ NoAdjustment(o).mounts = {}
  /\ \A cf, sp, mode : /\ Adjustment(cf, sp, mode).outcome = "adjust"
                       /\ Adjustment(cf, sp, mode).mounts = {MPSPipeMount(cf.pipeDir, mode)}
  BY DEF NoAdjustment, Adjustment

(* An adjusted container carries everything the audit looks for.           *)
LEMMA AdjustedIsComplete ==
  ASSUME NEW cf, NEW sp, NEW mode
  PROVE  LET adj == Adjustment(cf, sp, mode)
         IN  MissingInjection(cf, sp, mode, AdjustedEnv(sp, adj), adj.mounts) = {}
  <1> DEFINE adj == Adjustment(cf, sp, mode)
             e   == AdjustedEnv(sp, adj)
             gpu == ApplyDefaults(GPUMemoryConfig(sp))
             mount == MPSPipeMount(cf.pipeDir, mode)
  <1>1. \A kv \in adj.env : kv \in e
    BY DEF AdjustedEnv
  <1>2. /\ <<EnvGPUMemoryRequest, gpu.request>> \in adj.env
        /\ <<EnvGPUMemoryLimit, gpu.limit>> \in adj.env
        /\ <<EnvMPSPipeDirectory, mount.destination>> \in adj.env
        /\ sp.devices # {} => <<EnvVisibleDevices, sp.devices>> \in adj.env
    BY DEF Adjustment
  <1>3. \A k, v : <<k, v>> \in adj.env /\ k \in AllEnvKeys => k \in PresentEnv(e)
    <2> SUFFICES ASSUME NEW k, NEW v, <<k, v>> \in adj.env, k \in AllEnvKeys
                 PROVE  k \in PresentEnv(e)
      OBVIOUS
    <2>1. <<k, v>> \in e /\ <<k, v>>[1] = k
      BY <1>1
    <2> HIDE DEF adj, e
    <2> QED
      BY <2>1 DEF PresentEnv, HasKey
  <1>4. /\ EnvGPUMemoryRequest \in PresentEnv(e)
        /\ EnvGPUMemoryLimit \in PresentEnv(e)
        /\ EnvMPSPipeDirectory \in PresentEnv(e)
        /\ sp.devices # {} => EnvVisibleDevices \in PresentEnv(e)
    <2>1. {EnvGPUMemoryRequest, EnvGPUMemoryLimit, EnvMPSPipeDirectory, EnvVisibleDevices}
            \subseteq AllEnvKeys
      BY DEF AllEnvKeys
    <2> HIDE DEF adj, e, gpu, mount
    <2> QED
      BY <1>2, <1>3, <2>1
  <1>5. adj.mounts = {mount}
    BY Outcomes
  <1> HIDE DEF adj, e
  <1> QED
    BY <1>4, <1>5 DEF MissingInjection, adj, e

(* The audit clears every container the hook let through under the same    *)
(* flags: detector.check mirrors buildAdjustment.                          *)
THEOREM HookAuditAgreement ==
  ASSUME NEW cf, NEW sp, BuildAdjustment(cf, sp).outcome # "error"
  PROVE  LET adj == BuildAdjustment(cf, sp)
         IN  ~IsViolator(cf, sp, AdjustedEnv(sp, adj), adj.mounts)
  <1> DEFINE adj  == BuildAdjustment(cf, sp)
             mode == ParseComputeMode(sp, cf.smSharing)
             owed == IF mode = ModeError THEN TimeSlicing ELSE mode
  <1>1. CASE ~GPUMemoryParses(sp) \/ IsEmpty(GPUMemoryConfig(sp))
    BY <1>1 DEF IsViolator
  <1>2. CASE GPUMemoryParses(sp) /\ ~IsEmpty(GPUMemoryConfig(sp))
    <2>1. ~(mode = ModeError /\ ~cf.failOpen)
      BY <1>2, HookCases, Outcomes
    <2>2. adj = Adjustment(cf, sp, owed)
      BY <1>2, <2>1, HookCases
    <2>3. MissingInjection(cf, sp, owed, AdjustedEnv(sp, adj), adj.mounts) = {}
      BY <2>2, AdjustedIsComplete
    <2> QED
      BY <2>3 DEF IsViolator
  <1> QED
    BY <1>1, <1>2

(* Of the containers without any injected mount the audit picks those the  *)
(* hook would have adjusted, and no other.                                 *)
THEOREM AuditMirrorsHook ==
  ASSUME NEW cf, NEW sp, NEW e
  PROVE  IsViolator(cf, sp, e, {}) <=> BuildAdjustment(cf, sp).outcome = "adjust"
  <1> DEFINE mode == ParseComputeMode(sp, cf.smSharing)
             owed == IF mode = ModeError THEN TimeSlicing ELSE mode
  <1>1. MissingInjection(cf, sp, owed, e, {}) # {}
    BY DEF MissingInjection
  <1>2. CASE ~GPUMemoryParses(sp) \/ IsEmpty(GPUMemoryConfig(sp))
    BY <1>2, HookCases, Outcomes DEF IsViolator
  <1>3. CASE GPUMemoryParses(sp) /\ ~IsEmpty(GPUMemoryConfig(sp))
    BY <1>1, <1>3, HookCases, Outcomes DEF IsViolator
  <1> QED
    BY <1>2, <1>3

(* A container the hook let through has the injected mount exactly when    *)
(* the adapter records it.                                                 *)
THEOREM RecordedIffMutated ==
  ASSUME NEW cf, NEW sp, BuildAdjustment(cf, sp).outcome # "error"
  PROVE  IsFractionalGPUContainer(sp) <=> BuildAdjustment(cf, sp).mounts # {}
  <1>1. CASE ~GPUMemoryParses(sp) \/ IsEmpty(GPUMemoryConfig(sp))
    BY <1>1, HookCases, Outcomes DEF IsFractionalGPUContainer
  <1>2. CASE GPUMemoryParses(sp) /\ ~IsEmpty(GPUMemoryConfig(sp))
    <2> DEFINE mode == ParseComputeMode(sp, cf.smSharing)
               owed == IF mode = ModeError THEN TimeSlicing ELSE mode
    <2>1. ~(mode = ModeError /\ ~cf.failOpen)
      BY <1>2, HookCases, Outcomes
    <2>2. BuildAdjustment(cf, sp) = Adjustment(cf, sp, owed)
      BY <1>2, <2>1, HookCases
    <2> HIDE DEF owed
    <2>3. BuildAdjustment(cf, sp).mounts = {MPSPipeMount(cf.pipeDir, owed)}
      BY <2>2, Outcomes
    <2> QED
      BY <1>2, <2>3 DEF IsFractionalGPUContainer
  <1> QED
    BY <1>1, <1>2

-----------------------------------------------------------------------------
(* Refinement.                                                             *)

(* Every step of the node is a call, a worker step or a crash of the       *)
(* mapping pipeline, or leaves it alone.                                   *)
LEMMA NodeStep == [Next]_vars => [M!Next]_M!mvars
  <1> SUFFICES ASSUME [Next]_vars PROVE [M!Next]_M!mvars
    OBVIOUS
  <1>1. ASSUME UNCHANGED mvars PROVE [M!Next]_M!mvars
    BY <1>1 DEF mvars, M!mvars
  <1>2. ASSUME NEW c \in Container, NEW ok \in BOOLEAN, M!Upsert(c, ok) PROVE M!Next
    BY <1>2 DEF M!Next, M!Calls
  <1>3. ASSUME NEW c \in Container, M!Delete(c) PROVE M!Next
    BY <1>3 DEF M!Next, M!Calls
  <1>4. ASSUME NEW infos \in SUBSET Container, M!Synchronize(infos) PROVE M!Next
    BY <1>4 DEF M!Next, M!Calls
  <1>5. ASSUME NEW f \in Flusher, M!Flush(f) PROVE M!Next
    BY <1>5 DEF M!Next, M!Calls
  <1>6. M!Worker \/ M!Crash => M!Next
    BY DEF M!Next
  <1>7. ASSUME NEW c \in Container, CreateContainer(c) PROVE [M!Next]_M!mvars
    <2>1. IsFractionalGPUContainer(spec[c]) \in BOOLEAN
      BY DEF IsFractionalGPUContainer, GPUMemoryParses, IsEmpty
    <2> QED
      BY <1>1, <1>2, <1>7, <2>1 DEF CreateContainer
  <1>8. ASSUME NEW c \in Container, RemoveContainer(c) PROVE [M!Next]_M!mvars
    BY <1>1, <1>3, <1>8 DEF RemoveContainer
  <1>9. CASE Synchronize
    <2>1. PICK snap \in Snapshots : M!Synchronize(snap \cap Fractional)
      BY <1>9, Zenon DEF Synchronize
    <2> QED
      BY <1>4, <2>1 DEF Fractional
  <1>10. CASE Shutdown \/ Terminate \/ RunReturns
    BY <1>1, <1>5, <1>10, Zenon DEF Shutdown, Terminate, RunReturns, Flusher
  <1>11. CASE ExitProcess \/ Kill \/ MappingWorker
    BY <1>6, <1>11 DEF ExitProcess, Kill, Die, MappingWorker
  <1>12. CASE UNCHANGED mvars
    BY <1>1, <1>12
  <1>13. ASSUME NEW c \in Container, CreateUnhooked(c) \/ Exit(c) PROVE UNCHANGED mvars
    BY <1>13 DEF CreateUnhooked, Exit
  <1>14. ASSUME NEW s \in Session,
                SynchronizeReady(s) \/ SynchronizeAudit(s) \/ \E c \in Container : Stop(s, c)
         PROVE  UNCHANGED mvars
    BY <1>14 DEF SynchronizeReady, SynchronizeAudit, Stop
  <1>15. Disconnect \/ RuntimeShutdown \/ ShutdownReturn \/ Reconnect \/ FlushReturns \/ Restart
           => UNCHANGED mvars
    BY DEF Disconnect, RuntimeShutdown, ShutdownReturn, Reconnect, FlushReturns, Restart
  <1>16. UNCHANGED vars => UNCHANGED mvars
    BY DEF vars
  <1> QED
    BY <1>7, <1>8, <1>9, <1>10, <1>11, <1>12, <1>13, <1>14, <1>15, <1>16 DEF Next

(* The node drives its pipeline only through the pipeline's interface:     *)
(* so what MappingProofs shows of the pipeline can be used of the node's.  *)
LEMMA NodeImplementsMapping == Spec => M!Spec
  <1>1. Init => M!Init
    BY DEF Init
  <1> QED
    BY <1>1, NodeStep, PTL DEF Spec, M!Spec

-----------------------------------------------------------------------------
(* The audit and the hook.                                                 *)

Shape ==
  /\ state \in [Container -> {"absent", "running", "exited", "removed", "refused"}]
  /\ hook \in [Container -> Configs \cup {NoHook}]
  /\ DOMAIN env = Container /\ env = [c \in Container |-> env[c]]
  /\ DOMAIN mounts = Container /\ mounts = [c \in Container |-> mounts[c]]
  /\ cfg \in Configs
  /\ handler \in [Session -> [pc : {"none", "ready", "audit"}, running : SUBSET Container]]
  /\ audits \in [Session -> SUBSET Container]

(* A container is what the hook of its day made of it.                     *)
InjectedAsHooked ==
  \A c \in Container :
    IF hook[c] = NoHook THEN mounts[c] = {}
    ELSE LET adj == BuildAdjustment(hook[c], spec[c])
         IN  /\ adj.outcome # "error"
             /\ env[c] = AdjustedEnv(spec[c], adj)
             /\ mounts[c] = adj.mounts

(* Snapshots and violators are of containers that were created; a process  *)
(* that is not there has none.                                             *)
SnapshotsCreated ==
  \A s \in Session :
    /\ \A c \in handler[s].running \cup audits[s] : state[c] # "absent"
    /\ loop = "dead" => handler[s] = NoHandler /\ audits[s] = {}

AuditInv == Shape /\ InjectedAsHooked /\ SnapshotsCreated /\ StopsOnlyUnhooked

(* What the audit picks has not been hooked under the flags it runs with.  *)
LEMMA ViolatorsUnhooked ==
  ASSUME InjectedAsHooked, NEW c \in Container, IsViolator(cfg, spec[c], env[c], mounts[c]),
         cfg \in Configs
  PROVE  hook[c] # cfg
  <1> SUFFICES ASSUME hook[c] = cfg PROVE FALSE
    OBVIOUS
  <1>1. hook[c] # NoHook
    BY FractiondAssumption
  <1>2. /\ BuildAdjustment(cfg, spec[c]).outcome # "error"
        /\ env[c] = AdjustedEnv(spec[c], BuildAdjustment(cfg, spec[c]))
        /\ mounts[c] = BuildAdjustment(cfg, spec[c]).mounts
    BY <1>1 DEF InjectedAsHooked
  <1> QED
    BY <1>2, HookAuditAgreement

(* Creating a container touches no snapshot: none names it yet.            *)
LEMMA StartedKeeps ==
  ASSUME AuditInv, NEW c \in Container, NEW e, NEW m, NEW h \in Configs \cup {NoHook},
         state[c] = "absent", Started(c, e, m, h),
         IF h = NoHook THEN m = {}
         ELSE LET adj == BuildAdjustment(h, spec[c])
              IN  adj.outcome # "error" /\ e = AdjustedEnv(spec[c], adj) /\ m = adj.mounts,
         UNCHANGED <<spec, cfg, loop, handler, audits>>
  PROVE  AuditInv'
  <1>1. /\ state' = [state EXCEPT ![c] = "running"] /\ env' = [env EXCEPT ![c] = e]
        /\ mounts' = [mounts EXCEPT ![c] = m] /\ hook' = [hook EXCEPT ![c] = h]
    BY DEF Started
  <1>2. Shape'
    BY <1>1, Zenon DEF AuditInv, Shape
  <1>3. /\ state'[c] = "running" /\ env'[c] = e /\ mounts'[c] = m /\ hook'[c] = h
        /\ \A d \in Container : d # c => /\ state'[d] = state[d] /\ env'[d] = env[d]
                                        /\ mounts'[d] = mounts[d] /\ hook'[d] = hook[d]
    BY <1>1 DEF AuditInv, Shape
  <1>4. InjectedAsHooked'
    <2> SUFFICES ASSUME NEW d \in Container
                 PROVE  IF hook'[d] = NoHook THEN mounts'[d] = {}
                        ELSE LET adj == BuildAdjustment(hook'[d], spec[d])
                             IN  /\ adj.outcome # "error"
                                 /\ env'[d] = AdjustedEnv(spec[d], adj)
                                 /\ mounts'[d] = adj.mounts
      BY DEF InjectedAsHooked
    <2>1. CASE d = c
      BY <1>3, <2>1
    <2>2. CASE d # c
      BY <1>3, <2>2 DEF AuditInv, InjectedAsHooked
    <2> QED
      BY <2>1, <2>2
  <1>5. \A s \in Session : \A d \in handler[s].running \cup audits[s] : d \in Container /\ d # c
    BY DEF AuditInv, Shape, SnapshotsCreated
  <1>6. SnapshotsCreated' /\ StopsOnlyUnhooked'
    BY <1>3, <1>5 DEF AuditInv, SnapshotsCreated, StopsOnlyUnhooked
  <1> QED
    BY <1>2, <1>4, <1>6 DEF AuditInv

(* A step that leaves the containers' injection alone, forgets no creation *)
(* and adds nothing to a snapshot or to the violators.                     *)
LEMMA FrameKeeps ==
  ASSUME AuditInv, UNCHANGED <<spec, env, mounts, hook, cfg>>,
         state' \in [Container -> {"absent", "running", "exited", "removed", "refused"}],
         \A c \in Container : state[c] # "absent" => state'[c] # "absent",
         handler' \in [Session -> [pc : {"none", "ready", "audit"}, running : SUBSET Container]],
         audits' \in [Session -> SUBSET Container],
         \A s \in Session : /\ handler'[s].running \subseteq handler[s].running
                            /\ audits'[s] \subseteq audits[s],
         loop' = "dead" => \A s \in Session : handler'[s] = NoHandler /\ audits'[s] = {}
  PROVE  AuditInv'
  <1>1. Shape' /\ InjectedAsHooked'
    BY DEF AuditInv, Shape, InjectedAsHooked
  <1>2. SnapshotsCreated'
    BY DEF AuditInv, Shape, SnapshotsCreated
  <1>3. StopsOnlyUnhooked'
    BY DEF AuditInv, StopsOnlyUnhooked
  <1> QED
    BY <1>1, <1>2, <1>3 DEF AuditInv

(* Every step keeps the injection of a container as its hook made it, and  *)
(* the snapshots and violators to unhooked containers.                     *)
LEMMA AuditStep == AuditInv /\ [Next]_vars => AuditInv'
  <1> SUFFICES ASSUME AuditInv, [Next]_vars PROVE AuditInv'
    OBVIOUS
  <1>1. ASSUME NEW c \in Container, CreateContainer(c) PROVE AuditInv'
    <2> DEFINE adj == BuildAdjustment(cfg, spec[c])
    <2>1. /\ state[c] = "absent" /\ cfg \in Configs /\ cfg # NoHook
          /\ UNCHANGED <<spec, cfg, loop, handler, audits>>
      BY <1>1, FractiondAssumption DEF CreateContainer, pvars, svars, AuditInv, Shape
    <2>2. CASE adj.outcome = "error"
      <3>1. state' = [state EXCEPT ![c] = "refused"] /\ UNCHANGED <<env, mounts, hook>>
        BY <1>1, <2>2 DEF CreateContainer
      <3> QED
        BY <2>1, <3>1, FrameKeeps DEF AuditInv, Shape, SnapshotsCreated
    <2>3. CASE adj.outcome # "error"
      <3>1. Started(c, AdjustedEnv(spec[c], adj), adj.mounts, cfg)
        BY <1>1, <2>3 DEF CreateContainer
      <3> HIDE DEF adj
      <3> QED
        BY <2>1, <2>3, <3>1, StartedKeeps DEF adj
    <2> QED
      BY <2>2, <2>3
  <1>2. ASSUME NEW c \in Container, CreateUnhooked(c) PROVE AuditInv'
    <2>1. /\ state[c] = "absent" /\ Started(c, spec[c].env, {}, NoHook)
          /\ UNCHANGED <<spec, cfg, loop, handler, audits>>
      BY <1>2 DEF CreateUnhooked, pvars, svars
    <2> QED
      BY <2>1, StartedKeeps
  <1>3. ASSUME NEW c \in Container, Exit(c) \/ RemoveContainer(c) PROVE AuditInv'
    <2>1. /\ \E v \in {"exited", "removed"} : state' = [state EXCEPT ![c] = v]
          /\ UNCHANGED <<spec, env, mounts, hook, cfg, loop, handler, audits>>
      BY <1>3 DEF Exit, RemoveContainer, pvars, svars
    <2> QED
      BY <2>1, FrameKeeps DEF AuditInv, Shape, SnapshotsCreated
  <1>4. CASE Synchronize
    <2>1. PICK snap \in Snapshots :
            handler' = [handler EXCEPT ![session + 1] =
                         [pc |-> "ready", running |-> {c \in snap : state[c] = "running"}]]
      BY <1>4, Zenon DEF Synchronize
    <2>2. UNCHANGED <<spec, state, env, mounts, hook, cfg, audits>> /\ loop' = "serving"
      BY <1>4 DEF Synchronize, cvars
    <2>3. snap \subseteq Container
      BY DEF Snapshots, Live
    <2>4. handler' \in [Session -> [pc : {"none", "ready", "audit"}, running : SUBSET Container]]
      BY <2>1, <2>3, Zenon DEF AuditInv, Shape
    <2>5. \A s \in Session : \A c \in handler'[s].running :
            c \in handler[s].running \/ state[c] = "running"
      BY <2>1 DEF AuditInv, Shape
    <2>6. Shape' /\ InjectedAsHooked' /\ StopsOnlyUnhooked'
      BY <2>2, <2>4 DEF AuditInv, Shape, InjectedAsHooked, StopsOnlyUnhooked
    <2>7. SnapshotsCreated'
      BY <2>2, <2>5 DEF AuditInv, SnapshotsCreated
    <2> QED
      BY <2>6, <2>7 DEF AuditInv
  <1>5. ASSUME NEW s \in Session, SynchronizeReady(s) PROVE AuditInv'
    <2>1. /\ handler' = [handler EXCEPT ![s] =
                           [pc |-> "audit", running |-> handler[s].running]]
          /\ UNCHANGED <<spec, state, env, mounts, hook, cfg, audits, loop>>
          /\ loop # "dead"
      BY <1>5 DEF SynchronizeReady, cvars, AuditInv, SnapshotsCreated, NoHandler
    <2> QED
      BY <2>1, FrameKeeps DEF AuditInv, Shape
  <1>6. ASSUME NEW s \in Session, SynchronizeAudit(s) PROVE AuditInv'
    <2>1. /\ handler' = [handler EXCEPT ![s] = NoHandler]
          /\ audits' = [audits EXCEPT ![s] =
                          IF cfg.enforce THEN Violators(handler[s].running) ELSE {}]
          /\ UNCHANGED <<spec, state, env, mounts, hook, cfg, loop>>
          /\ loop # "dead"
      BY <1>6 DEF SynchronizeAudit, cvars, pvars, AuditInv, SnapshotsCreated, NoHandler
    <2>2. handler[s].running \in SUBSET Container
      BY DEF AuditInv, Shape
    <2>3. \A c \in Violators(handler[s].running) : c \in handler[s].running /\ hook[c] # cfg
      <3> SUFFICES ASSUME NEW c \in handler[s].running,
                          IsViolator(cfg, spec[c], env[c], mounts[c])
                   PROVE  hook[c] # cfg
        BY DEF Violators
      <3> QED
        BY <2>2, ViolatorsUnhooked DEF AuditInv, Shape
    <2>4. /\ handler'[s].running = {}
          /\ \A c \in audits'[s] : c \in handler[s].running /\ hook[c] # cfg
          /\ \A t \in Session : t # s => handler'[t] = handler[t] /\ audits'[t] = audits[t]
      BY <2>1, <2>3 DEF AuditInv, Shape, NoHandler
    <2>5. Shape'
      BY <2>1, <2>2, <2>3 DEF AuditInv, Shape, NoHandler
    <2>6. InjectedAsHooked'
      BY <2>1 DEF AuditInv, InjectedAsHooked
    <2>7. SnapshotsCreated' /\ StopsOnlyUnhooked'
      BY <2>1, <2>4 DEF AuditInv, SnapshotsCreated, StopsOnlyUnhooked
    <2> QED
      BY <2>5, <2>6, <2>7 DEF AuditInv
  <1>7. ASSUME NEW s \in Session, NEW c \in Container, Stop(s, c) PROVE AuditInv'
    <2>1. /\ audits' = [audits EXCEPT ![s] = audits[s] \ {c}]
          /\ state' = [state EXCEPT ![c] = "exited"] \/ state' = state
          /\ UNCHANGED <<spec, env, mounts, hook, cfg, handler, loop>>
          /\ loop # "dead"
      <3>1. /\ audits' = [audits EXCEPT ![s] = audits[s] \ {c}]
            /\ UNCHANGED <<spec, env, mounts, hook, cfg, handler, loop>>
            /\ loop # "dead"
        BY <1>7, Zenon DEF Stop, pvars, AuditInv, SnapshotsCreated
      <3>2. state' = [state EXCEPT ![c] = "exited"] \/ state' = state
        BY <1>7 DEF Stop, AuditInv, Shape
      <3> QED
        BY <3>1, <3>2
    <2>2. audits' \in [Session -> SUBSET Container] /\ \A t \in Session : audits'[t] \subseteq audits[t]
      BY <2>1 DEF AuditInv, Shape
    <2> QED
      BY <2>1, <2>2, FrameKeeps DEF AuditInv, Shape
  <1>8. CASE Die
    <2>1. /\ handler' = [s \in Session |-> NoHandler] /\ audits' = [s \in Session |-> {}]
          /\ UNCHANGED <<spec, state, env, mounts, hook, cfg>>
      BY <1>8 DEF Die, cvars
    <2> QED
      BY <2>1, FrameKeeps DEF AuditInv, Shape, NoHandler
  <1>9. CASE Restart
    <2>1. /\ loop = "dead" /\ loop' = "connecting" /\ cfg' \in Configs
          /\ UNCHANGED <<spec, state, env, mounts, hook, handler, audits>>
      BY <1>9 DEF Restart, cvars, svars
    <2> QED
      BY <2>1 DEF AuditInv, Shape, InjectedAsHooked, SnapshotsCreated, StopsOnlyUnhooked
  <1>10. CASE UNCHANGED <<spec, state, env, mounts, hook, cfg, handler, audits>> /\ loop' # "dead"
    BY <1>10, FrameKeeps DEF AuditInv, Shape
  <1>11. CASE UNCHANGED <<spec, state, env, mounts, hook, cfg, handler, audits, loop>>
    BY <1>11, FrameKeeps DEF AuditInv, Shape, SnapshotsCreated
  <1>12. CASE Disconnect \/ RuntimeShutdown \/ Shutdown \/ ShutdownReturn \/ MappingWorker
              \/ UNCHANGED vars
    BY <1>11, <1>12 DEF Disconnect, RuntimeShutdown, Shutdown, ShutdownReturn, MappingWorker,
                        cvars, pvars, svars, vars
  <1>13. CASE RunReturns \/ Reconnect \/ Terminate \/ FlushReturns
    BY <1>10, <1>13, Zenon DEF RunReturns, Reconnect, Terminate, FlushReturns, cvars, svars
  <1> QED
    BY <1>1, <1>2, <1>3, <1>4, <1>5, <1>6, <1>7, <1>8, <1>9, <1>12, <1>13
       DEF Next, ExitProcess, Kill

(* At the start there are no containers.                                   *)
LEMMA AuditInit == Init => AuditInv
  <1> SUFFICES ASSUME Init PROVE AuditInv
    OBVIOUS
  <1>1. Shape
    BY DEF Init, Shape, NoHandler
  <1>2. InjectedAsHooked /\ SnapshotsCreated /\ StopsOnlyUnhooked
    BY DEF Init, InjectedAsHooked, SnapshotsCreated, StopsOnlyUnhooked, NoHandler
  <1> QED
    BY <1>1, <1>2 DEF AuditInv

(* The audit never sets out to stop a container that the create hook let   *)
(* through under the flags the process runs with.                          *)
THEOREM AuditSparesHooked == Spec => []StopsOnlyUnhooked
  <1>1. AuditInv => StopsOnlyUnhooked
    BY DEF AuditInv
  <1> QED
    BY <1>1, AuditInit, AuditStep, PTL DEF Spec

(* It finds every container the hook would have changed and did not see.   *)
THEOREM AuditIsExact == Spec => AuditFindsUnhooked
  <1>1. AuditInv /\ [Next]_vars => [AuditExact]_vars
    <2> SUFFICES ASSUME AuditInv, NEW s \in Session, SynchronizeAudit(s), cfg.enforce,
                        NEW c \in handler[s].running, hook[c] = NoHook
                 PROVE  c \in audits'[s] <=> BuildAdjustment(cfg, spec[c]).outcome = "adjust"
      BY DEF AuditExact
    <2>1. c \in Container /\ audits'[s] = Violators(handler[s].running)
      BY DEF SynchronizeAudit, AuditInv, Shape
    <2>2. mounts[c] = {}
      BY <2>1 DEF AuditInv, InjectedAsHooked
    <2>3. c \in audits'[s] <=> IsViolator(cfg, spec[c], env[c], {})
      BY <2>1, <2>2 DEF Violators
    <2> QED
      BY <2>3, AuditMirrorsHook
  <1> QED
    BY <1>1, AuditInit, AuditStep, PTL DEF Spec, AuditFindsUnhooked

-----------------------------------------------------------------------------
(* The adapter and the hook.                                               *)

(* What the mapping asks for: only created containers, and of the hooked   *)
(* ones the runtime still has exactly the fractional.                      *)
RecordInv ==
  /\ \A c \in want : c \in Container /\ state[c] # "absent"
  /\ \A c \in Live : hook[c] # NoHook => (c \in want <=> IsFractionalGPUContainer(spec[c]))

(* The effect of the pipeline's calls on the mapping they ask for.         *)
LEMMA WantSteps ==
  /\ \A c \in Container : M!Upsert(c, TRUE) => want' = want \cup {c}
  /\ \A c \in Container : M!Upsert(c, FALSE) => want' = want
  /\ \A c \in Container : M!Delete(c) => want' = want \ {c}
  /\ \A infos \in SUBSET Container : M!Synchronize(infos) /\ want \subseteq Container =>
       want' = IF infos = {} THEN want ELSE infos
  /\ \A f \in Flusher : M!Flush(f) => want' = want
  /\ M!Worker \/ M!Crash => want' = want
  <1>0. ASSUME NEW e, M!Enqueue(e)
        PROVE  want' = (want \ M!Concerns(e)) \cup (M!Concerns(e) \cap M!Leaves(e))
    BY <1>0 DEF M!Enqueue
  <1>1. ASSUME NEW c \in Container, M!Upsert(c, TRUE) PROVE want' = want \cup {c}
    <2>1. M!Enqueue(M!Event("upsert", {c}))
      BY <1>1 DEF M!Upsert
    <2>2. M!Concerns(M!Event("upsert", {c})) = {c} /\ M!Leaves(M!Event("upsert", {c})) = {c}
      BY DEF M!Event, M!Concerns, M!Leaves
    <2> QED
      BY <1>0, <2>1, <2>2
  <1>2. ASSUME NEW c \in Container, M!Upsert(c, FALSE) PROVE want' = want
    <2>1. M!Enqueue(M!Event("upsert", {}))
      BY <1>2 DEF M!Upsert
    <2>2. M!Concerns(M!Event("upsert", {})) = {}
      BY DEF M!Event, M!Concerns
    <2> QED
      BY <1>0, <2>1, <2>2
  <1>3. ASSUME NEW c \in Container, M!Delete(c) PROVE want' = want \ {c}
    <2>1. M!Enqueue(M!Event("remove", {c}))
      BY <1>3 DEF M!Delete
    <2>2. M!Concerns(M!Event("remove", {c})) = {c} /\ M!Leaves(M!Event("remove", {c})) = {}
      BY DEF M!Event, M!Concerns, M!Leaves
    <2> QED
      BY <1>0, <2>1, <2>2
  <1>4. ASSUME NEW infos \in SUBSET Container, M!Synchronize(infos), want \subseteq Container
        PROVE  want' = IF infos = {} THEN want ELSE infos
    <2>1. M!Enqueue(M!Event("replace", infos))
      BY <1>4 DEF M!Synchronize
    <2>2. /\ M!Concerns(M!Event("replace", infos)) = IF infos # {} THEN Container ELSE {}
          /\ M!Leaves(M!Event("replace", infos)) = infos
      BY DEF M!Event, M!Concerns, M!Leaves
    <2> QED
      BY <1>0, <1>4, <2>1, <2>2
  <1>5. \A f \in Flusher : M!Flush(f) => want' = want
    BY DEF M!Flush
  <1>6. M!Worker \/ M!Crash => want' = want
    BY Zenon DEF M!Worker, M!Crash, M!Receive, M!WriteRecord, M!Unlink, M!ReadDir, M!Abandon
  <1> QED
    BY <1>1, <1>2, <1>3, <1>4, <1>5, <1>6, Zenon

(* Every step keeps the mapping asked for to the hooked fractional         *)
(* containers.                                                             *)
LEMMA RecordStep == AuditInv /\ RecordInv /\ [Next]_vars => RecordInv'
  <1> SUFFICES ASSUME AuditInv, RecordInv, [Next]_vars PROVE RecordInv'
    OBVIOUS
  <1> DEFINE States == {"absent", "running", "exited", "removed", "refused"}
  <1>0. state \in [Container -> States] /\ hook \in [Container -> Configs \cup {NoHook}]
    BY DEF AuditInv, Shape
  <1>1. ASSUME NEW c \in Container, CreateContainer(c) PROVE RecordInv'
    <2> DEFINE ok == IsFractionalGPUContainer(spec[c])
    <2>1. state[c] = "absent" /\ spec' = spec /\ c \notin want
      BY <1>1 DEF CreateContainer, RecordInv
    <2>2. ok \in BOOLEAN
      BY DEF IsFractionalGPUContainer, GPUMemoryParses, IsEmpty
    <2>3. CASE state' = [state EXCEPT ![c] = "refused"] /\ want' = want /\ hook' = hook
      BY <1>0, <2>1, <2>3 DEF RecordInv, Live
    <2>4. CASE /\ state' = [state EXCEPT ![c] = "running"]
               /\ hook' = [hook EXCEPT ![c] = cfg]
               /\ M!Upsert(c, ok)
      <3>1. want' = IF ok THEN want \cup {c} ELSE want
        BY <2>2, <2>4, WantSteps, Zenon
      <3> HIDE DEF ok
      <3>2. \A d \in want' : d \in Container /\ state'[d] # "absent"
        BY <1>0, <2>4, <3>1 DEF RecordInv
      <3>3. ASSUME NEW d \in Live', hook'[d] # NoHook
            PROVE  d \in want' <=> IsFractionalGPUContainer(spec[d])
        <4>1. CASE d = c
          BY <2>1, <3>1, <4>1 DEF ok
        <4>2. CASE d # c
          <5>1. d \in Live /\ hook[d] # NoHook /\ (d \in want' <=> d \in want)
            BY <1>0, <2>4, <3>1, <3>3, <4>2 DEF Live
          <5> QED
            BY <5>1 DEF RecordInv
        <4> QED
          BY <4>1, <4>2
      <3> QED
        BY <2>1, <3>2, <3>3 DEF RecordInv
    <2> QED
      BY <1>1, <2>3, <2>4 DEF CreateContainer, Started, mvars
  <1>2. ASSUME NEW c \in Container, CreateUnhooked(c) PROVE RecordInv'
    <2>1. /\ state[c] = "absent" /\ state' = [state EXCEPT ![c] = "running"]
          /\ hook' = [hook EXCEPT ![c] = NoHook] /\ want' = want /\ spec' = spec
      BY <1>2 DEF CreateUnhooked, Started, mvars
    <2> QED
      BY <1>0, <2>1 DEF RecordInv, Live
  <1>3. ASSUME NEW c \in Container, Exit(c) PROVE RecordInv'
    <2>1. /\ state[c] = "running" /\ state' = [state EXCEPT ![c] = "exited"]
          /\ UNCHANGED <<hook, want, spec>>
      BY <1>3 DEF Exit, mvars
    <2> QED
      BY <1>0, <2>1 DEF RecordInv, Live
  <1>4. ASSUME NEW c \in Container, RemoveContainer(c) PROVE RecordInv'
    <2>1. /\ state' = [state EXCEPT ![c] = "removed"] /\ UNCHANGED <<hook, spec>>
          /\ want' = want \ {c} \/ want' = want
      BY <1>4, WantSteps DEF RemoveContainer, mvars
    <2> QED
      BY <1>0, <2>1 DEF RecordInv, Live
  <1>5. CASE Synchronize
    <2>1. PICK snap \in Snapshots : M!Synchronize(snap \cap Fractional)
      BY <1>5, Zenon DEF Synchronize
    <2>2. UNCHANGED <<spec, state, hook>>
      BY <1>5 DEF Synchronize, cvars
    <2>3. snap \in {Live, {}} /\ snap \cap Fractional \in SUBSET Container
      BY DEF Snapshots, Fractional
    <2>4. want' = IF snap \cap Fractional = {} THEN want ELSE Live \cap Fractional
      <3> DEFINE infos == snap \cap Fractional
      <3>1. want \subseteq Container
        BY DEF RecordInv
      <3>2. infos \in SUBSET Container /\ M!Synchronize(infos)
        BY <2>1, <2>3
      <3>3. infos = {} \/ infos = Live \cap Fractional
        BY <2>3
      <3> HIDE DEF infos
      <3>4. want' = IF infos = {} THEN want ELSE infos
        BY <3>1, <3>2, WantSteps
      <3> QED
        BY <3>3, <3>4 DEF infos
    <2>5. Live' = Live
      BY <2>2 DEF Live
    <2>6. CASE snap \cap Fractional = {}
      BY <2>2, <2>4, <2>5, <2>6 DEF RecordInv
    <2>7. CASE snap \cap Fractional # {}
      <3>1. want' = Live \cap Fractional
        BY <2>4, <2>7
      <3>2. \A d \in want' : d \in Container /\ state[d] # "absent"
        BY <3>1 DEF Live
      <3>3. \A d \in Live : d \in want' <=> IsFractionalGPUContainer(spec[d])
        BY <3>1 DEF Live, Fractional
      <3> QED
        BY <2>2, <2>5, <3>2, <3>3 DEF RecordInv
    <2> QED
      BY <2>6, <2>7
  <1>6. ASSUME NEW s \in Session, NEW c \in Container, Stop(s, c) PROVE RecordInv'
    <2>1. UNCHANGED <<hook, want, spec>>
      BY <1>6 DEF Stop, mvars
    <2>2. state' = state \/ (state[c] = "running" /\ state' = [state EXCEPT ![c] = "exited"])
      BY <1>0, <1>6 DEF Stop
    <2> QED
      BY <1>0, <2>1, <2>2 DEF RecordInv, Live
  <1>7. CASE UNCHANGED <<spec, state, hook>> /\ want' = want
    BY <1>7 DEF RecordInv, Live
  <1>8. CASE Shutdown \/ Terminate \/ RunReturns \/ Die \/ MappingWorker
    <2>1. UNCHANGED <<spec, state, hook>>
      BY <1>8, Zenon DEF Shutdown, Terminate, RunReturns, Die, MappingWorker, cvars
    <2>2. M!Flush("shutdown") \/ M!Flush("main") \/ M!Worker \/ M!Crash \/ want' = want
      BY <1>8, Zenon DEF Shutdown, Terminate, RunReturns, Die, MappingWorker, mvars
    <2>3. want' = want
      BY <2>2, WantSteps DEF Flusher
    <2> QED
      BY <1>7, <2>1, <2>3
  <1>9. ASSUME NEW s \in Session, SynchronizeReady(s) \/ SynchronizeAudit(s)
        PROVE  UNCHANGED <<spec, state, hook, want>>
    BY <1>9 DEF SynchronizeReady, SynchronizeAudit, mvars, cvars
  <1>10. Disconnect \/ RuntimeShutdown \/ ShutdownReturn \/ Reconnect \/ FlushReturns
           \/ Restart \/ UNCHANGED vars
         => UNCHANGED <<spec, state, hook, want>>
    BY Zenon DEF Disconnect, RuntimeShutdown, ShutdownReturn, Reconnect, FlushReturns, Restart,
           mvars, cvars, vars
  <1> QED
    BY <1>1, <1>2, <1>3, <1>4, <1>5, <1>6, <1>7, <1>8, <1>9, <1>10
       DEF Next, ExitProcess, Kill

(* Of the containers the hook let through and the runtime still has, the   *)
(* mapping asks for exactly the mutated ones.                              *)
THEOREM MappingFollowsHook == Spec => []HookedRecordedIffMutated
  <1>1. Init => RecordInv
    BY DEF Init, M!Init, RecordInv, Live
  <1>2. AuditInv /\ RecordInv => HookedRecordedIffMutated
    <2> SUFFICES ASSUME AuditInv, RecordInv, NEW c \in Live, hook[c] # NoHook
                 PROVE  c \in want <=> mounts[c] # {}
      BY DEF HookedRecordedIffMutated
    <2> DEFINE adj == BuildAdjustment(hook[c], spec[c])
    <2>1. adj.outcome # "error" /\ mounts[c] = adj.mounts
      BY DEF AuditInv, InjectedAsHooked, Live
    <2>2. IsFractionalGPUContainer(spec[c]) <=> adj.mounts # {}
      BY <2>1, RecordedIffMutated
    <2> QED
      BY <2>1, <2>2 DEF RecordInv
  <1> QED
    BY <1>1, <1>2, AuditInit, AuditStep, RecordStep, PTL DEF Spec
=============================================================================
