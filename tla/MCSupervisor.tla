---------------------------- MODULE MCSupervisor ---------------------------
(***************************************************************************)
(* One node, two driver versions, a budget of three tries, and enough        *)
(* failures for a crash, a restart of the process and a failed clean-up    *)
(* within one behaviour.                                                   *)
(***************************************************************************)
EXTENDS Supervisor

MCUptimes == {0, StableThreshold}
=============================================================================
