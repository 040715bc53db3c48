---------------------------- MODULE MCTurnContext ----------------------------
(***************************************************************************)
(* Two model calls of one turn, or of two turns of which the second may be *)
(* opened beside the first.                                                *)
(***************************************************************************)
EXTENDS ModelCall, Folds, Functions, TLC

(* Turns and calls are interchangeable, and liveness rules out symmetry:   *)
(* turns are admitted, and calls made, in the order of their names, and a  *)
(* turn is followed by another only when it has called its model.          *)
InOrder ==
  /\ \A t \in Turns : bound[t] # Null =>
       \A u \in Turns : u < t => \E c \in Calls : of[c] = u
  /\ \A c \in Calls : of[c] # Null => \A d \in Calls : d < c => of[d] # Null

(* A record is there from the start, which counts as one change of the     *)
(* mode or the records; three until a second turn or call, two after.      *)
Changes == FoldFunction(+, 0, [r \in Records |-> row[r].version]) + policy.revision - 1

BothCalled == \A c \in Calls : of[c] # Null

FewChanges ==
  Changes \in 1 .. IF BothCalled \/ \A t \in Turns : bound[t] # Null THEN 2 ELSE 3

(* Streams do not read each other, nor does the memory read them: with     *)
(* both calls made, their streams open in time and stay silent.            *)
Silent(c) == seam[c] # "over" /\ produced[c] = 0 /\ ending[c] # "left"

SilentTogether == BothCalled => \A c \in Calls : Silent(c)
=============================================================================
