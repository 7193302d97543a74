----------------------------- MODULE GpuStack -------------------------------
(***************************************************************************)
(* The GPU stack of the cluster, which the operator reads and others edit, *)
(* and a reference for the version gate of Dependency: it says in a few    *)
(* lines which stacks are refused.                                         *)
(***************************************************************************)
EXTENDS Dependency

VARIABLE policy  \* the ClusterPolicy, and what else the checks read

(* The reference: versions compare by their first number that differs,     *)
(* short forms are padded, and suffixes say nothing of the age.            *)
At(core, i) == IF i <= Len(core) THEN core[i] ELSE 0

Older(a, b) ==
  \E i \in 1 .. 3 : At(a, i) < At(b, i) /\ \A j \in 1 .. (i - 1) : At(a, j) = At(b, j)

Readable(x) == x \notin {Missing, Garbled} /\ Len(x.core) \in 1 .. 3

TooOld(x, min) == Readable(x) /\ Older(x.core, min)

(* The GPU Operator that runs is known and recent enough for its defaults. *)
KnownGood(x) ==
  /\ Readable(x)
  /\ x.suffix = "none" \/ (x.suffix # "malformed" /\ Len(x.core) > 1)
  /\ ~Older(x.core, <<26, 7, 1>>)

MayBeNvidias(i) == policy.csvs[i].prefixed /\ policy.csvs[i].provider # "other"

(* The operator is vouched for by its label, or else by the first          *)
(* ClusterServiceVersion that may be NVIDIA's.                             *)
Vouched ==
  IF policy.kind = "present" /\ policy.label # Missing THEN KnownGood(policy.label)
  ELSE /\ ~policy.csvErr
       /\ \E i \in DOMAIN policy.csvs :
            /\ MayBeNvidias(i) /\ KnownGood(policy.csvs[i].version)
            /\ \A j \in 1 .. (i - 1) : ~MayBeNvidias(j)

(* versionFailure refuses a stack exactly when an operand that is pinned   *)
(* is older than its floor, or the operator whose version decides (there   *)
(* is no ClusterPolicy, or it leaves an operand to the operator's default) *)
(* is unknown or too old.  An unreadable pin and a cluster without any     *)
(* version source pass.                                                    *)
VersionGateExact ==
  (VersionFailure(policy, FALSE) # "") <=>
    IF policy.kind = "present"
    THEN \/ TooOld(policy.toolkit, <<1, 20, 1>>)
         \/ TooOld(policy.devicePlugin, <<0, 20, 1>>)
         \/ Missing \in {policy.toolkit, policy.devicePlugin} /\ ~Vouched
    ELSE \/ policy.csvErr
         \/ (\E i \in DOMAIN policy.csvs : MayBeNvidias(i)) /\ ~Vouched
=============================================================================
