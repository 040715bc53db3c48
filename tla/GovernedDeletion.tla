-------------------------- MODULE GovernedDeletion ---------------------------
(***************************************************************************)
(* What the governed deletion of a thread promises, without drivers,       *)
(* links, receipts, fences or crashes (the cross-store discipline in       *)
(* src/src/lib/server/conversation-lifecycle.ts): the scope is recorded    *)
(* once and never broadened, the tombstone comes before anything of VICT   *)
(* is deleted and with completion at the latest, what is deleted or taken  *)
(* never comes back, and a deletion that has ended stays ended.            *)
(***************************************************************************)
CONSTANTS Conversations, Items

WithMeaning == "conversation-and-originating-meaning"
Modes == {"conversation-only", WithMeaning}

VARIABLES
  status,       \* of the deletion on record
  mode,         \* its scope
  tombstoned,   \* whether the thread is a tombstone
  transcripts,  \* conversations with a transcript
  deleted,      \* conversations whose transcript was deleted
  taken         \* items withdrawn or removed with the conversation

promised == <<status, mode, tombstoned, transcripts, deleted, taken>>

Init ==
  /\ status = "none" /\ mode \in Modes
  /\ tombstoned = FALSE
  /\ transcripts \subseteq Conversations
  /\ deleted = {} /\ taken = {}

Recorded == status # "none"
Open == status \in {"planned", "incomplete"}

Record(m) ==
  /\ ~Recorded
  /\ status' = "planned" /\ mode' = m
  /\ UNCHANGED <<tombstoned, transcripts, deleted, taken>>

Cancel ==
  /\ status = "planned"
  /\ status' = "canceled"
  /\ UNCHANGED <<mode, tombstoned, transcripts, deleted, taken>>

TakeMeaning(items) ==
  /\ Recorded /\ mode = WithMeaning
  /\ taken' = taken \cup items
  /\ UNCHANGED <<status, mode, tombstoned, transcripts, deleted>>

Tombstone ==
  /\ Recorded
  /\ tombstoned' = TRUE
  /\ UNCHANGED <<status, mode, transcripts, deleted, taken>>

DeleteTranscript(c) ==
  /\ Recorded /\ tombstoned
  /\ transcripts' = transcripts \ {c} /\ deleted' = deleted \cup {c}
  /\ UNCHANGED <<status, mode, tombstoned, taken>>

(* A step fails.                                                           *)
Fail ==
  /\ Open /\ tombstoned
  /\ status' = "incomplete"
  /\ UNCHANGED <<mode, tombstoned, transcripts, deleted, taken>>

Complete ==
  /\ Open
  /\ status' = "completed" /\ tombstoned' = TRUE
  /\ UNCHANGED <<mode, transcripts, deleted, taken>>

(* A turn writes, unless its conversation was deleted.                     *)
Converse(c) ==
  /\ c \notin deleted
  /\ transcripts' = transcripts \cup {c}
  /\ UNCHANGED <<status, mode, tombstoned, deleted, taken>>

Next ==
  \/ \E m \in Modes : Record(m)
  \/ \E items \in SUBSET Items : TakeMeaning(items)
  \/ \E c \in Conversations : DeleteTranscript(c) \/ Converse(c)
  \/ Cancel \/ Tombstone \/ Fail \/ Complete

Spec == Init /\ [][Next]_promised
==============================================================================
