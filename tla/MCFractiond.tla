---------------------------- MODULE MCFractiond ----------------------------
(***************************************************************************)
(* Instances of Fractiond for TLC.                                         *)
(***************************************************************************)
EXTENDS Fractiond, TLC

CONSTANTS c1, c2

Flags(failOpen, smSharing) ==
  [failOpen |-> failOpen, smSharing |-> smSharing, pipeDir |-> "pipe",
   injectCDI |-> TRUE, enforce |-> TRUE]

Spec0 == [request |-> Absent, limit |-> Absent, mode |-> Absent, devices |-> {}, env |-> {}]

Fraction == [Spec0 EXCEPT !.limit = 4 * BytesPerMiB]

(* One flag set, and two containers that ask for a fraction.               *)
OneConfig == {Flags(FALSE, TRUE)}

TwoFractional == {(c1 :> Fraction) @@ (c2 :> Fraction)}

Symmetry == Permutations({c1, c2})

(* A strict policy and one that fails open without SM sharing, and         *)
(* containers on which hook, adapter and audit each decide differently     *)
(* under the two: a limit that is not a quantity, and a mode one of them   *)
(* does not support.                                                       *)
TwoConfigs == {Flags(FALSE, TRUE), Flags(TRUE, FALSE)}

SomeKinds == {[Spec0 EXCEPT !.limit = Unparsable], [Fraction EXCEPT !.mode = SMSharing]}

SomeSpecs == {[c \in Container |-> k] : k \in SomeKinds}
=============================================================================
