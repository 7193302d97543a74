---------------------------- MODULE DaemonConfig ----------------------------
(***************************************************************************)
(* What the operator's builders make of a GpuFractioningConfig, and what   *)
(* the binaries they start make of their arguments.  The two live in       *)
(* separate Go modules and agree by duplicated defaults only.              *)
(*                                                                         *)
(* Unset is a nil pointer, an empty text or a flag that is not passed.  A  *)
(* socket path is a pair of directory and file; a listen address is its    *)
(* port, a number outside 1..65535 if it has none to listen on; durations  *)
(* are in milliseconds.  tuning and level stand for the settings that are  *)
(* passed on as they are: prefix, retries, thresholds, log level.          *)
(***************************************************************************)
EXTENDS Integers

CONSTANT Unset

Daemon == {"fractiond", "mpsd"}
Ports == 1 .. 65535

Default(x, d) == IF x = Unset THEN d ELSE x

-----------------------------------------------------------------------------
(* The flags of the binaries: what is not passed has a default.            *)

Parse(args, defaults) == [f \in DOMAIN defaults |-> Default(args[f], defaults[f])]

FractiondFlags ==
  [socketPath |-> <<"/var/run/nri", "nri.sock">>, criSocket |-> <<"/run/containerd", "containerd.sock">>,
   readinessPort |-> 8093, retroactiveEnforcement |-> TRUE, failOpen |-> FALSE,
   supportSMSharing |-> TRUE, injectCDIDevice |-> FALSE, mapDir |-> "/var/run/gpu-fractioning/map",
   pipeDir |-> "/run/nvidia-mps", tuning |-> "default"]

MetricsdFlags ==
  [address |-> 2112, mapDir |-> "/var/run/gpu-fractioning/map", memory |-> "memory", sm |-> "sm",
   normalized |-> "normalized", level |-> "info"]

MpsdFlags ==
  [gracefulStopDelay |-> 60000, pipeDir |-> "/run/nvidia-mps", supportSMSharing |-> TRUE,
   memacctAuditLog |-> TRUE, tuning |-> "default"]

(* MetricNames.validate: names that Prometheus takes, no two the same.     *)
ValidNames(flags) ==
  /\ "malformed" \notin {flags.memory, flags.sm, flags.normalized}
  /\ flags.memory # flags.sm /\ flags.memory # flags.normalized /\ flags.sm # flags.normalized

-----------------------------------------------------------------------------
(* How GPUs reach the daemons' containers.                                 *)

ResolveRuntimeClassName(name) == IF name = Unset THEN "nvidia" ELSE IF name = "" THEN Unset ELSE name

(* In NRI mode there is no nvidia RuntimeClass, whatever the spec says.    *)
BuildOptions(spec, nri, helm) ==
  [runtimeClassName |-> IF nri THEN Unset ELSE ResolveRuntimeClassName(spec.runtimeClassName),
   nri |-> nri, helm |-> helm]

SetManagementCDIDevice(container, opts) == IF opts.nri THEN {container} ELSE {}

-----------------------------------------------------------------------------
(* The fractiond DaemonSet.                                                *)

ReadinessPortMutant(agent) == 8093

ReadinessPort(agent) == IF agent = Unset THEN 8093 ELSE Default(agent.readinessPort, 8093)

NriSocketDir(agent) ==
  IF agent = Unset \/ agent.nriSocketPath = Unset THEN "/var/run/nri" ELSE agent.nriSocketPath[1]

RetroactiveEnforcementEnabled(agent) == agent # Unset /\ agent.retroactiveEnforcement

CriSocketDir(agent) ==
  IF agent = Unset \/ agent.criSocketPath = Unset THEN "/run/containerd" ELSE agent.criSocketPath[1]

BuildArgsMutant(agent, opts) ==
  [supportSMSharing |-> IF agent = Unset THEN Unset ELSE opts.helm.supportSMSharing,
   injectCDIDevice |-> opts.nri,
   socketPath |-> IF agent = Unset THEN Unset ELSE agent.nriSocketPath,
   criSocket |-> IF agent = Unset THEN Unset ELSE agent.criSocketPath,
   readinessPort |-> IF agent = Unset THEN Unset ELSE agent.readinessPort,
   retroactiveEnforcement |-> IF agent = Unset THEN Unset ELSE agent.retroactiveEnforcement,
   failOpen |-> IF agent = Unset THEN Unset ELSE IF agent.failOpen = TRUE THEN TRUE ELSE Unset,
   tuning |-> IF agent = Unset THEN Unset ELSE agent.tuning,
   mapDir |-> Unset, pipeDir |-> Unset]

(* Two flags are always passed; only a fractioningAgent block adds others. *)
BuildArgs(agent, opts) ==
  [supportSMSharing |-> opts.helm.supportSMSharing, injectCDIDevice |-> opts.nri,
   socketPath |-> IF agent = Unset THEN Unset ELSE agent.nriSocketPath,
   criSocket |-> IF agent = Unset THEN Unset ELSE agent.criSocketPath,
   readinessPort |-> IF agent = Unset THEN Unset ELSE agent.readinessPort,
   retroactiveEnforcement |-> IF agent = Unset THEN Unset ELSE agent.retroactiveEnforcement,
   failOpen |-> IF agent = Unset THEN Unset ELSE IF agent.failOpen = TRUE THEN TRUE ELSE Unset,
   tuning |-> IF agent = Unset THEN Unset ELSE agent.tuning,
   mapDir |-> Unset, pipeDir |-> Unset]

BuildFractiondContainer(agent, opts) ==
  [args |-> BuildArgs(agent, opts), probePort |-> ReadinessPort(agent),
   mounts |-> {NriSocketDir(agent), "/run/nvidia-mps"}
                \cup (IF RetroactiveEnforcementEnabled(agent) THEN {CriSocketDir(agent)} ELSE {})]

MetricsEnabled(metrics) == metrics # Unset /\ metrics.enabled

(* The port of the address, or the default if it has none to probe.        *)
MetricsListenPort(metrics) ==
  IF metrics.address # Unset /\ metrics.address \in Ports THEN metrics.address ELSE 2112

BuildMetricsdArgs(metrics) ==
  [address |-> metrics.address, mapDir |-> Unset, memory |-> metrics.memory, sm |-> metrics.sm,
   normalized |-> metrics.normalized, level |-> metrics.level]

BuildMetricsdContainer(metrics, opts) ==
  [args |-> BuildMetricsdArgs(metrics), probePort |-> MetricsListenPort(metrics),
   mounts |-> {"/var/run/gpu-fractioning/map"}]

(* The sidecar brings the map directory and the GPU with it.               *)
FractiondDaemonSet(spec, opts) ==
  LET on   == MetricsEnabled(spec.metricsAgent)
      main == BuildFractiondContainer(spec.fractioningAgent, opts)
  IN  [args |-> main.args, probePort |-> main.probePort,
       mounts |-> main.mounts \cup (IF on THEN {"/var/run/gpu-fractioning/map"} ELSE {}),
       sidecar |-> IF on THEN BuildMetricsdContainer(spec.metricsAgent, opts) ELSE Unset,
       runtimeClassName |-> IF on THEN opts.runtimeClassName ELSE Unset,
       cdi |-> IF on THEN SetManagementCDIDevice("metricsd", opts) ELSE {},
       fips |-> opts.helm.fips]

-----------------------------------------------------------------------------
(* The mpsd DaemonSet.                                                     *)

(* Whole seconds of the stop delay and a buffer.                           *)
TerminationGraceSeconds(mps) ==
  ((IF mps = Unset THEN 60000 ELSE Default(mps.gracefulStopDelay, 60000)) + 15000) \div 1000

MpsdArgs(mps) ==
  [gracefulStopDelay |-> IF mps = Unset THEN Unset ELSE mps.gracefulStopDelay,
   tuning |-> IF mps = Unset THEN Unset ELSE mps.tuning]

(* The Helm values reach mpsd as environment variables, which its flags    *)
(* fall back to.                                                           *)
MpsdDaemonSet(spec, opts) ==
  [args |-> [gracefulStopDelay |-> MpsdArgs(spec.mpsDaemon).gracefulStopDelay,
             tuning |-> MpsdArgs(spec.mpsDaemon).tuning, pipeDir |-> Unset,
             supportSMSharing |-> opts.helm.supportSMSharing, memacctAuditLog |-> opts.helm.auditLog],
   grace |-> TerminationGraceSeconds(spec.mpsDaemon),
   mounts |-> {"/run/nvidia-mps", "/var/log/nvidia-mps"},
   runtimeClassName |-> opts.runtimeClassName,
   cdi |-> SetManagementCDIDevice("mpsd", opts),
   fips |-> opts.helm.fips]

BuildDaemonSet(d, spec, opts) ==
  IF d = "fractiond" THEN FractiondDaemonSet(spec, opts) ELSE MpsdDaemonSet(spec, opts)

-----------------------------------------------------------------------------
(* What a container process does with its configuration.                   *)

Fractiond(t) == Parse(t.args, FractiondFlags)
Metricsd(t) == Parse(t.sidecar.args, MetricsdFlags)
Mpsd(t) == Parse(t.args, MpsdFlags)

(* metricsd exits over its metric names, and serves nothing without a port *)
(* to listen on.                                                           *)
MetricsdServes(t) == ValidNames(Metricsd(t)) /\ Metricsd(t).address \in Ports
=============================================================================
