---------------------------- MODULE MCReconciler ---------------------------
(***************************************************************************)
(* Reconciler with a supported, an unsupported and an unreadable GPU       *)
(* stack.                                                                  *)
(***************************************************************************)
EXTENDS Reconciler

Stack(kind, toolkit) ==
  [kind |-> kind, toolkit |-> [v |-> TRUE, core |-> toolkit, suffix |-> "none"],
   devicePlugin |-> [v |-> TRUE, core |-> <<0, 20, 1>>, suffix |-> "none"],
   label |-> Missing, csvs |-> <<>>, csvErr |-> FALSE, nri |-> FALSE, allowed |-> FALSE,
   status |-> [error |-> "absent", ready |-> "true", state |-> "ready"]]

Supported == Stack("present", <<1, 20, 1>>)
Unsupported == Stack("present", <<1, 20, 0>>)
Unreadable == Stack("unreadable", <<1, 20, 1>>)

MCDaemons == <<"fractiond", "mpsd">>
MCMpsd == <<"mpsd">>

MCPolicy == {Supported, Unsupported, Unreadable}
MCSupported == {Supported}
=============================================================================
