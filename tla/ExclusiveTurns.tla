--------------------------- MODULE ExclusiveTurns ----------------------------
(***************************************************************************)
(* What the turn-admission boundary promises, without sections, receipts   *)
(* or answers: a conversation has at most one open turn, an idempotency    *)
(* key starts at most one turn, and a settled turn stays settled           *)
(* (the owner decision in src/src/lib/server/turn-admission.ts).           *)
(***************************************************************************)
CONSTANTS Requests, ConvOf, KeyOf

VARIABLES
  open,   \* the requests whose turn runs
  ended   \* the requests whose turn is over

Init == open = {} /\ ended = {}

Start(r) ==
  /\ \A s \in open : ConvOf[s] # ConvOf[r]
  /\ \A s \in open \cup ended : KeyOf[s] # KeyOf[r]
  /\ open' = open \cup {r}
  /\ UNCHANGED ended

End(r) ==
  /\ r \in open
  /\ open' = open \ {r}
  /\ ended' = ended \cup {r}

Next == \E r \in Requests : Start(r) \/ End(r)

Spec == Init /\ [][Next]_<<open, ended>>
=============================================================================
