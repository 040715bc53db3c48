---------------------------- MODULE MCMemoryViews ----------------------------
(***************************************************************************)
(* Three claims, of which two are about the same and one is not intact, a  *)
(* commitment, an open loop and a proposal, from two conversations and     *)
(* none.  Limits are as small as leaves every one of them to be reached.   *)
(***************************************************************************)
EXTENDS MemoryViews, TLC

CONSTANTS
  Here, There,  \* two conversations
  MaxWrites     \* bound on the writes

MCOrigin == (1 :> Here) @@ (2 :> There) @@ (3 :> Here) @@ (4 :> Null) @@ (5 :> There) @@ (6 :> Here)
MCSubject == (1 :> "a") @@ (2 :> "a") @@ (3 :> "b") @@ (4 :> "a")
MCKind == (6 :> "claim")
MCThreadOf == [t \in Turns |-> Here]
MCSize == (1 :> 1) @@ (2 :> 3) @@ (3 :> 1) @@ (4 :> 2) @@ (5 :> 1)
MCFilters == {<<Null, Null>>, <<Here, "claim">>}
MCIntact == {1, 2, 4, 5}

Steps == [absent |-> 0, pending |-> 1, decided |-> 2]

(* No more than MaxWrites writes: a row has had as many as its version.    *)
FewWrites ==
  MapThenSumSet(LAMBDA i : row[i].version, Ids)
    + MapThenSumSet(LAMBDA p : Steps[proposal[p]], Proposals) <= MaxWrites

(* Nothing more comes of a turn that was given nothing.                    *)
Interesting ==
  FewWrites /\ \A t \in Turns : assembly[t].outcome \in {"unrecorded", "complete"}
=============================================================================
