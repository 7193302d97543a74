----------------------------- MODULE Registers -----------------------------
(***************************************************************************)
(* What the mapping handoff promises its reader, container by container: a *)
(* file is a register at the end of a first-in first-out channel.  Calls   *)
(* put values on the channel, the writer takes them off in order, and the  *)
(* file only ever changes to the value in the writer's hand.  A value may  *)
(* be lost (a failed file operation, a crash), never invented, repeated or *)
(* overtaken.  The channel is shared: values about other containers pass   *)
(* through it too.  Mapping implements this module.                        *)
(***************************************************************************)
EXTENDS Sequences

CONSTANT Container

VARIABLES
  shown,   \* what a reader of the directory sees of each container
  hand,    \* the value the writer has still to show, or Other
  channel  \* the values accepted and not yet taken

Value == {"present", "absent"}

Other == "other"

Init ==
  /\ shown = [c \in Container |-> "absent"]
  /\ hand = [c \in Container |-> Other]
  /\ channel = [c \in Container |-> <<>>]

Keep(c) == shown'[c] = shown[c] /\ hand'[c] = hand[c] /\ channel'[c] = channel[c]

Accept(c) ==
  /\ \E v \in Value \cup {Other} : channel'[c] = Append(channel[c], v)
  /\ shown'[c] = shown[c] /\ hand'[c] = hand[c]

(* A blocked sender's value goes to the tail as the head is taken.         *)
Take(c) ==
  /\ hand[c] = Other /\ channel[c] # <<>>
  /\ hand'[c] = Head(channel[c])
  /\ \/ channel'[c] = Tail(channel[c])
     \/ channel'[c] = Append(Tail(channel[c]), Other)
  /\ shown'[c] = shown[c]

ShowOrLose(c) ==
  /\ hand[c] # Other
  /\ hand'[c] = Other
  /\ shown'[c] = hand[c] \/ shown'[c] = shown[c]
  /\ channel'[c] = channel[c]

LoseAll(c) == shown'[c] = shown[c] /\ hand'[c] = Other /\ channel'[c] = <<>>

Next ==
  \A c \in Container :
    Keep(c) \/ Accept(c) \/ Take(c) \/ ShowOrLose(c) \/ LoseAll(c)

Spec == Init /\ [][Next]_<<shown, hand, channel>>
=============================================================================
