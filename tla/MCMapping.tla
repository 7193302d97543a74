----------------------------- MODULE MCMapping -----------------------------
(***************************************************************************)
(* Mapping for TLC: two containers, the two flushers of a terminating      *)
(* process, and a queue of one, which is full as soon as one event waits.  *)
(***************************************************************************)
EXTENDS Mapping
=============================================================================
