----------------------------- MODULE MCRollout -----------------------------
(***************************************************************************)
(* Rollout with two configurations, on a GPU stack with and without the    *)
(* NRI plugin, and with SM sharing supported or not.                       *)
(***************************************************************************)
EXTENDS Rollout

Stack(kind, nri, allowed) ==
  [kind |-> kind, toolkit |-> [v |-> TRUE, core |-> <<1, 20, 1>>, suffix |-> "none"],
   devicePlugin |-> [v |-> TRUE, core |-> <<0, 20, 1>>, suffix |-> "none"],
   label |-> Missing, csvs |-> <<>>, csvErr |-> FALSE, nri |-> nri, allowed |-> allowed,
   status |-> [error |-> "absent", ready |-> "true", state |-> "ready"]]

Classic == Stack("present", FALSE, FALSE)
NRI == Stack("present", TRUE, TRUE)
MCPolicies == {Classic, NRI}
MCUnreadable == Stack("unreadable", FALSE, FALSE)

Helm(sm) == [supportSMSharing |-> sm, auditLog |-> TRUE, fips |-> FALSE]
MCHelms == {Helm(TRUE), Helm(FALSE)}

(* Everything left to its default.                                         *)
Minimal ==
  [fractioningAgent |-> Unset, metricsAgent |-> Unset, mpsDaemon |-> Unset,
   runtimeClassName |-> Unset]

(* Everything set.  Without the NRI plugin its daemons get no GPU, for the *)
(* nodes' default runtime has none.                                        *)
Full ==
  [fractioningAgent |-> [nriSocketPath |-> <<"/run/k3s/nri", "nri.sock">>,
                         criSocketPath |-> <<"/run/k3s/containerd", "containerd.sock">>,
                         readinessPort |-> 9000, retroactiveEnforcement |-> TRUE,
                         failOpen |-> TRUE, tuning |-> "other"],
   metricsAgent |-> [enabled |-> TRUE, address |-> 9100, memory |-> "used", sm |-> Unset,
                     normalized |-> Unset, level |-> "debug"],
   mpsDaemon |-> [gracefulStopDelay |-> 120500, tuning |-> Unset],
   runtimeClassName |-> ""]

MCSpecs == {Minimal, Full}
MCInstalls == {<<Full, NRI, Helm(TRUE)>>}
=============================================================================
