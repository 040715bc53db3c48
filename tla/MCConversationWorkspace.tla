---------------------- MODULE MCConversationWorkspace ----------------------
(***************************************************************************)
(* Two conversations, with two troubles among them: a thread opened or     *)
(* renamed, a stop clicked, a call that fails.  Two sends of replies of    *)
(* three frames, the second trouble beside both once the first of them has *)
(* returned; or the deletion controls, with three clicks on them, without  *)
(* a send or, as long as clicks and troubles are three at most, beside one *)
(* whose stream is neither cut nor stopped.                                *)
(* What leaves these bounds is a click or one way for a call to end beside *)
(* which another is kept: no reply or answer that is owed is cut off.      *)
(* Conversations and sends are not symmetric: First is opened first, and   *)
(* sends are numbered in the order they are made.                          *)
(***************************************************************************)
EXTENDS WorkspaceDeletion

Made == {t \in Turns : send[t].pc # "idle"}

Apart ==
  /\ Cardinality(Made) = 2 /\ troubles = 2 => send[1].pc = "done"
  /\ clicks > 0 /\ Made # {} =>
       /\ Cardinality(Made) = 1 /\ troubles + clicks <= 3
       /\ send[1].attempt = 0 /\ keyCount = 0
=============================================================================
