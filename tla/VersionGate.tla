---------------------------- MODULE VersionGate ----------------------------
(***************************************************************************)
(* A GPU stack that administrators and the GPU Operator edit field by      *)
(* field, for the version gate to be compared with its reference.          *)
(***************************************************************************)
EXTENDS GpuStack

CONSTANTS Toolkits, DevicePlugins, Labels, CSVLists, Statuses  \* values of the fields

Init ==
  policy = [kind |-> "absent", toolkit |-> Missing, devicePlugin |-> Missing, label |-> Missing,
            csvs |-> <<>>, csvErr |-> FALSE, nri |-> FALSE, allowed |-> FALSE,
            status |-> [error |-> "absent", ready |-> "absent", state |-> "absent"]]

KindChanges == \E k \in {"absent", "unreadable", "present"} : policy' = [policy EXCEPT !.kind = k]
OperandsChange ==
  \/ \E x \in Toolkits : policy' = [policy EXCEPT !.toolkit = x]
  \/ \E x \in DevicePlugins : policy' = [policy EXCEPT !.devicePlugin = x]
OperatorChanges ==
  \/ \E x \in Labels : policy' = [policy EXCEPT !.label = x]
  \/ \E x \in CSVLists, b \in BOOLEAN : policy' = [policy EXCEPT !.csvs = x, !.csvErr = b]
StackChanges ==
  \/ \E b, a \in BOOLEAN : policy' = [policy EXCEPT !.nri = b, !.allowed = a]
  \/ \E s \in Statuses : policy' = [policy EXCEPT !.status = s]

Next == KindChanges \/ OperandsChange \/ OperatorChanges \/ StackChanges

Spec == Init /\ [][Next]_policy
=============================================================================
