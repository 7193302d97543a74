----------------------------- MODULE Directory -----------------------------
(***************************************************************************)
(* What metricsd may rely on of the mapping directory, and all that it     *)
(* may: fractiond's node implements this module, and the node that Metrics *)
(* watches is this module.                                                 *)
(*                                                                         *)
(* The directory is late: a file may be missing, may be written after its  *)
(* container has gone, and may stay.  But a container the runtime has      *)
(* never loses its file, and a file that was unlinked never comes back.    *)
(***************************************************************************)
CONSTANT Container

VARIABLES
  alive,   \* the containers the runtime has
  gone,    \* the ones it has removed
  dir,     \* the containers with a file
  retired  \* internal: gone containers that will have no file again

Init == alive = {} /\ gone = {} /\ dir = {} /\ retired = {}

Start(c) ==
  /\ c \notin alive \cup gone
  /\ alive' = alive \cup {c}
  /\ UNCHANGED <<gone, dir>>

Stop(c) ==
  /\ c \in alive
  /\ alive' = alive \ {c}
  /\ gone' = gone \cup {c}
  /\ UNCHANGED dir

Write(c) ==
  /\ c \in alive \cup (gone \ retired)
  /\ c \notin dir
  /\ dir' = dir \cup {c}
  /\ UNCHANGED <<alive, gone>>

Unlink(c) ==
  /\ c \in gone \cap dir
  /\ dir' = dir \ {c}
  /\ UNCHANGED <<alive, gone>>

(* Containers retire as their records are unlinked, and when these are     *)
(* lost or given up.                                                       *)
Retire ==
  retired' \in {R \in SUBSET (gone' \ dir') : retired \cup (dir \ dir') \subseteq R}

Step(c) == Start(c) \/ Stop(c) \/ Write(c) \/ Unlink(c)

Next ==
  /\ (\E c \in Container : Step(c)) \/ UNCHANGED <<alive, gone, dir>>
  /\ Retire

Spec == Init /\ [][Next]_<<alive, gone, dir, retired>>
=============================================================================
