----------------------- MODULE MCConversationDeletion ------------------------
(***************************************************************************)
(* Deletion requests: "with" and its retry, and one with the same key and  *)
(* the other mode.  A turn comes beside the deletion of one item, two      *)
(* items are deleted without a turn, and no more than two of the crash,    *)
(* the failure and the interrupted recovery happen.                        *)
(***************************************************************************)
EXTENDS ConversationDeletion

MCModeOf == [d \in Deletes |->
              IF d = "only" THEN "conversation-only" ELSE WithMeaning]
MCKeyOf == [d \in Deletes |-> "k1"]

FewAtOnce ==
  /\ crashes + faults + bootFaults <= 2
  /\ NoTurnBeside \/ \E i \in Items : meaning[i] = "absent"
=============================================================================
