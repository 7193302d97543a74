----------------------------- MODULE Dependency ----------------------------
(***************************************************************************)
(* The operator's verdict on the NVIDIA GPU Operator: which ClusterPolicy  *)
(* versions are read, how they are normalised and compared, and what the   *)
(* verdict does to the aggregate Ready condition.                          *)
(*                                                                         *)
(* A version text is a record: a leading v or not, the dotted numbers and  *)
(* the kind of suffix.  Missing is blank or absent text; Garbled is text   *)
(* that is not dotted numbers (a digest).                                  *)
(***************************************************************************)
EXTENDS Naturals, Sequences

CONSTANTS Missing, Garbled

Suffixes == {"none", "build", "prerelease", "malformed"}
Texts == [v : BOOLEAN, core : Seq(Nat), suffix : Suffixes]
Versions == Texts \cup {Missing, Garbled}

(* What the checks read of the cluster.                                    *)
GpuStacks ==
  [kind : {"absent", "unreadable", "present"},
   toolkit : Versions, devicePlugin : Versions, label : Versions,
   csvs : Seq([prefixed : BOOLEAN, provider : {"NVIDIA", "other", "absent"}, version : Versions]),
   csvErr : BOOLEAN, nri : BOOLEAN, allowed : BOOLEAN,
   status : [error : {"true", "false", "absent"}, ready : {"true", "false", "absent"},
             state : {"ready", "other", "absent"}]]

minimumGPUOperatorVersion == <<26, 7, 1>>
minToolkitVersion == <<1, 20, 1>>
minDevicePluginVersion == <<0, 20, 1>>

-----------------------------------------------------------------------------
(* golang.org/x/mod/semver: minor and patch may be left out, but only      *)
(* where no suffix follows.                                                *)
IsValid(v, core, suffix) ==
  /\ v
  /\ Len(core) \in 1 .. 3
  /\ suffix = "none" \/ (Len(core) = 3 /\ suffix # "malformed")

Canonical(core) ==
  <<core[1], IF Len(core) >= 2 THEN core[2] ELSE 0, IF Len(core) = 3 THEN core[3] ELSE 0>>

Below(a, b) ==
  \/ a[1] < b[1]
  \/ a[1] = b[1] /\ a[2] < b[2]
  \/ a[1] = b[1] /\ a[2] = b[2] /\ a[3] < b[3]

OperandParses(x) == x \notin {Missing, Garbled} /\ IsValid(TRUE, x.core, "none")

NormalizeOperandVersion(x) == Canonical(x.core)

OperatorParses(x) ==
  /\ x \notin {Missing, Garbled}
  /\ \/ IsValid(TRUE, x.core, x.suffix)
     \/ Len(x.core) = 2 /\ IsValid(TRUE, Append(x.core, 0), x.suffix)

NormalizeGPUOperatorVersion(x) ==
  IF IsValid(TRUE, x.core, x.suffix) THEN Canonical(x.core) ELSE Canonical(Append(x.core, 0))

GpuOperatorVersionFails(x) ==
  ~OperatorParses(x) \/ Below(NormalizeGPUOperatorVersion(x), minimumGPUOperatorVersion)

(* A pinned version that cannot be read is skipped.                        *)
OperandFails(x, min) == OperandParses(x) /\ Below(NormalizeOperandVersion(x), min)

-----------------------------------------------------------------------------
(* Where the list names a package that is, or may be, NVIDIA's operator.   *)
Ours(csvs) == {i \in DOMAIN csvs : csvs[i].prefixed /\ csvs[i].provider # "other"}

(* The version of the first of these; found is FALSE if there is none.     *)
ClusterServiceVersion(csvs) ==
  IF Ours(csvs) = {}
  THEN [found |-> FALSE, version |-> Missing]
  ELSE LET first == CHOOSE i \in Ours(csvs) : \A j \in Ours(csvs) : i <= j
       IN  [found |-> TRUE, version |-> csvs[first].version]

(* present: there is a ClusterPolicy, with the given version label.        *)
GpuOperatorVersion(p) ==
  IF p.kind = "present" /\ p.label # Missing
  THEN [err |-> FALSE, found |-> TRUE, version |-> p.label]
  ELSE LET csv == ClusterServiceVersion(p.csvs)
       IN  [err |-> p.csvErr, found |-> ~p.csvErr /\ csv.found,
            version |-> IF p.csvErr THEN Missing ELSE csv.version]

VersionOutcome(o) ==
  IF o.err THEN "GPUOperatorNotReady"
  ELSE IF GpuOperatorVersionFails(o.version) THEN "GPUOperatorVersionUnsupported"
  ELSE ""

Defaulted(p) == p.toolkit = Missing \/ p.devicePlugin = Missing

VersionFailureMutant(p, skip) ==
  IF skip THEN ""
  ELSE LET o == GpuOperatorVersion(p)
       IN  IF ~o.err /\ ~o.found THEN "" ELSE VersionOutcome(o)

VersionFailure(p, skip) ==
  IF skip THEN ""
  ELSE IF p.kind = "present"
  THEN IF OperandFails(p.toolkit, minToolkitVersion)
            \/ OperandFails(p.devicePlugin, minDevicePluginVersion)
       THEN "GPUOperandVersionUnsupported"
       ELSE IF Defaulted(p) THEN VersionOutcome(GpuOperatorVersion(p)) ELSE ""
  ELSE LET o == GpuOperatorVersion(p)
       IN  IF ~o.err /\ ~o.found THEN "" ELSE VersionOutcome(o)

(* Error=True, Ready not True, a state other than ready, or no sign of     *)
(* readiness at all.                                                       *)
ClusterPolicyReadinessFails(s) ==
  \/ s.error = "true"
  \/ s.ready = "false"
  \/ s.state = "other"
  \/ s.state = "absent" /\ s.ready = "absent"

NRIPluginEnabled(p) == p.kind = "present" /\ p.nri

ManagementCDINamespaceFails(p) == NRIPluginEnabled(p) /\ ~p.allowed

(* Reason with which Check overrides Ready, "" if it leaves it.            *)
CheckReason(p, ready, skip) ==
  IF p.kind = "unreadable" THEN "GPUOperatorNotReady"
  ELSE IF VersionFailure(p, skip) # "" THEN VersionFailure(p, skip)
  ELSE IF p.kind = "absent" THEN ""
  ELSE IF ManagementCDINamespaceFails(p) THEN "ManagementCDINamespaceNotAllowed"
  ELSE IF ready = "False" /\ ClusterPolicyReadinessFails(p.status) THEN "GPUOperatorNotReady"
  ELSE ""

Check(p, ready, skip) == IF CheckReason(p, ready, skip) # "" THEN "False" ELSE ready
=============================================================================
