----------------------------- MODULE Injection -----------------------------
(***************************************************************************)
(* What the create hook injects into a GPU-fractioning container, and what *)
(* the audit of a Synchronize snapshot expects to find there.              *)
(*                                                                         *)
(* fractiond decides three times, from the same pod annotations, what a    *)
(* container is: the create hook (Plugin.buildAdjustment) mutates it, the  *)
(* adapter (isFractionalGPUContainer) records it for metricsd, and the     *)
(* detector (detector.check) stops it when the injection is missing.  The  *)
(* three are separate code; this module has one operator for each.         *)
(*                                                                         *)
(* A spec, the part of the pod and of the container the three read, is     *)
(*   request, limit  the gpu-memory annotations: Absent, Unparsable, or    *)
(*                   the number of bytes the Kubernetes quantity denotes;  *)
(*   mode            the gpu-compute.mode annotation: Absent or a string;  *)
(*   devices         the entries of the gpus.devices annotation ({} when   *)
(*                   it is absent or blank);                               *)
(*   env             the KEY=VALUE entries the container already has.      *)
(* A cfg is the part of fractiond's flags the three read.                  *)
(***************************************************************************)
EXTENDS Integers, FiniteSets

CONSTANTS Absent,      \* an annotation that is not on the pod
          Unparsable   \* a value resource.ParseQuantity rejects

ASSUME ValuesAssumption ==
  Absent \notin Int /\ Unparsable \notin Int /\ Absent # Unparsable

BytesPerMiB == 1048576
MinMemoryBytes == BytesPerMiB

EnvGPUMemoryRequest == "NVIDIA_GPU_MEMORY_REQUEST"
EnvGPUMemoryLimit == "NVIDIA_GPU_MEMORY_LIMIT"
EnvMPSPipeDirectory == "CUDA_MPS_PIPE_DIRECTORY"
EnvVisibleDevices == "NVIDIA_VISIBLE_DEVICES"
AllEnvKeys ==
  {EnvGPUMemoryRequest, EnvGPUMemoryLimit, EnvMPSPipeDirectory, EnvVisibleDevices}

TimeSlicing == "time-slicing"
SMSharing == "sm-sharing"
ModeError == "error"

-----------------------------------------------------------------------------
(* Annotations.                                                            *)

CeilDiv(value, divisor) == 1 + (value - 1) \div divisor

ValidQuantity(v) == v # Unparsable /\ v >= MinMemoryBytes

QuantityToMemoryMiB(v) == CeilDiv(v, BytesPerMiB)

ParseMemory(v) == IF v = Absent THEN Absent ELSE QuantityToMemoryMiB(v)

(* The parser fails when either annotation is there and is no valid        *)
(* quantity; the configuration is read only when it does not.              *)
GPUMemoryParses(spec) ==
  \A v \in {spec.request, spec.limit} : v = Absent \/ ValidQuantity(v)

GPUMemoryConfig(spec) ==
  [request |-> ParseMemory(spec.request), limit |-> ParseMemory(spec.limit)]

IsEmpty(gpu) == gpu.request = Absent /\ gpu.limit = Absent

ApplyDefaults(gpu) ==
  [request |-> IF gpu.request = Absent THEN gpu.limit ELSE gpu.request,
   limit   |-> IF gpu.limit = Absent THEN gpu.request ELSE gpu.limit]

ParseComputeMode(spec, smSharingEnabled) ==
  IF spec.mode \in {Absent, TimeSlicing} THEN TimeSlicing
  ELSE IF spec.mode = SMSharing /\ smSharingEnabled THEN SMSharing
  ELSE ModeError

(* A path is the tuple of what filepath.Join puts together.                *)
MPSPipeMount(dir, mode) ==
  IF mode = SMSharing
  THEN [source |-> <<dir, "shared">>, destination |-> <<"container">>]
  ELSE [source |-> <<dir>>, destination |-> <<dir>>]

(* Values of NVIDIA_VISIBLE_DEVICES that name no device.                   *)
CDINonDeviceValues == {"all", "void", "none", ""}

CDIDeviceNames(devices) == devices \ CDINonDeviceValues

-----------------------------------------------------------------------------
(* The create hook.  Its three outcomes: the creation is refused, the      *)
(* container is left as it is, or it gets an adjustment.                   *)

HasKey(env, key) == \E kv \in env : kv[1] = key

NoAdjustment(outcome) ==
  [outcome |-> outcome, removed |-> {}, env |-> {}, mounts |-> {}, cdi |-> {}]

Adjustment(cfg, spec, mode) ==
  LET gpu   == ApplyDefaults(GPUMemoryConfig(spec))
      mount == MPSPipeMount(cfg.pipeDir, mode)
      devs  == spec.devices
  IN  [outcome |-> "adjust",
       removed |-> IF devs # {} /\ HasKey(spec.env, EnvVisibleDevices)
                   THEN {EnvVisibleDevices} ELSE {},
       env     |-> {<<EnvGPUMemoryRequest, gpu.request>>,
                    <<EnvGPUMemoryLimit, gpu.limit>>,
                    <<EnvMPSPipeDirectory, mount.destination>>}
                   \cup (IF devs # {} THEN {<<EnvVisibleDevices, devs>>} ELSE {}),
       mounts  |-> {mount},
       cdi     |-> IF cfg.injectCDI THEN CDIDeviceNames(devs) ELSE {}]

BuildAdjustment(cfg, spec) ==
  IF ~GPUMemoryParses(spec)
  THEN NoAdjustment(IF cfg.failOpen THEN "none" ELSE "error")
  ELSE IF IsEmpty(GPUMemoryConfig(spec))
  THEN NoAdjustment("none")
  ELSE LET mode == ParseComputeMode(spec, cfg.smSharing)
       IN  IF mode # ModeError THEN Adjustment(cfg, spec, mode)
           ELSE IF cfg.failOpen THEN Adjustment(cfg, spec, TimeSlicing)
           ELSE NoAdjustment("error")

(* What the runtime makes of the container's own entries and the           *)
(* adjustment (NRI: removals first, then additions).                       *)
AdjustedEnv(spec, adj) ==
  {kv \in spec.env : kv[1] \notin adj.removed} \cup adj.env

-----------------------------------------------------------------------------
(* The adapter.                                                            *)

IsFractionalUnparsedMutant(spec) == spec.request # Absent \/ spec.limit # Absent

IsFractionalGPUContainer(spec) ==
  GPUMemoryParses(spec) /\ ~IsEmpty(GPUMemoryConfig(spec))

-----------------------------------------------------------------------------
(* The audit: the expected pieces a container with this env and these      *)
(* mounts lacks, and whether it is one to stop.                            *)

PresentEnv(env) == {k \in AllEnvKeys : HasKey(env, k)}

MissingInjection(cfg, spec, mode, env, mounts) ==
  LET gpu      == ApplyDefaults(GPUMemoryConfig(spec))
      expected == {EnvMPSPipeDirectory}
                  \cup (IF gpu.limit # Absent THEN {EnvGPUMemoryLimit} ELSE {})
                  \cup (IF gpu.request # Absent THEN {EnvGPUMemoryRequest} ELSE {})
                  \cup (IF spec.devices # {} THEN {EnvVisibleDevices} ELSE {})
      mount    == MPSPipeMount(cfg.pipeDir, mode)
  IN  (expected \ PresentEnv(env)) \cup (IF mount \in mounts THEN {} ELSE {"mount"})

IsViolatorModeMutant(cfg, spec, env, mounts) ==
  /\ GPUMemoryParses(spec)
  /\ ~IsEmpty(GPUMemoryConfig(spec))
  /\ MissingInjection(cfg, spec, ParseComputeMode(spec, TRUE), env, mounts) # {}

IsViolatorSkipMutant(cfg, spec, env, mounts) ==
  LET mode == ParseComputeMode(spec, cfg.smSharing)
  IN  /\ GPUMemoryParses(spec)
      /\ ~IsEmpty(GPUMemoryConfig(spec))
      /\ mode # ModeError
      /\ MissingInjection(cfg, spec, mode, env, mounts) # {}

(* detector.check, for a container in an enforceable state.                *)
IsViolator(cfg, spec, env, mounts) ==
  LET mode == ParseComputeMode(spec, cfg.smSharing)
  IN  /\ GPUMemoryParses(spec)
      /\ ~IsEmpty(GPUMemoryConfig(spec))
      /\ mode = ModeError => cfg.failOpen
      /\ MissingInjection(cfg, spec,
                          IF mode = ModeError THEN TimeSlicing ELSE mode,
                          env, mounts) # {}
=============================================================================
