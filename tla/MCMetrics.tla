----------------------------- MODULE MCMetrics -----------------------------
(***************************************************************************)
(* Metrics with two containers, of one pod or of two, and two GPUs whose   *)
(* minor numbers are not their NVML indices.                               *)
(***************************************************************************)
EXTENDS Metrics, TLC

CONSTANTS c1, c2, pod1, pod2

MCOnePod == (c1 :> pod1) @@ (c2 :> pod1)
MCTwoPods == (c1 :> pod1) @@ (c2 :> pod2)
MCMemory == (c1 :> 1) @@ (c2 :> 2)
MCIndexOf == (0 :> 1) @@ (1 :> 0)

New(n) == [minor |-> n, index |-> 0]
Old(n) == [minor |-> 0, index |-> n]

(* Both on the same GPU, recorded by a new or by an old fractiond; or only *)
(* one on a GPU, while the other's record lists none.                      *)
MCShared == (c1 :> {New(0)}) @@ (c2 :> {New(0)})
MCSharedOld == (c1 :> {Old(1)}) @@ (c2 :> {Old(1)})
MCFirst == (c1 :> {New(1)}) @@ (c2 :> {})
=============================================================================
