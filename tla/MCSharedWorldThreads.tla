------------------------- MODULE MCSharedWorldThreads -------------------------
(***************************************************************************)
(* A create without an identity, the same with another title and the same  *)
(* with a malformed identity; a create that names the identity which the   *)
(* first one derives, and the three changes of that thread, one of them    *)
(* under a key that creates.  Requests are interchangeable.                *)
(***************************************************************************)
EXTENDS SharedWorldThreads, TLC

CONSTANTS k1, k2, k3, i1, i2, i3, old, new

MCStableId == k1 :> i1 @@ k2 :> i2 @@ k3 :> i3

MCAsks ==
  { [op |-> "create",  id |-> Null,      title |-> old,  key |-> k1],
    [op |-> "create",  id |-> Malformed, title |-> old,  key |-> k1],
    [op |-> "create",  id |-> Null,      title |-> new,  key |-> k1],
    [op |-> "create",  id |-> i1,        title |-> new,  key |-> k2],
    [op |-> "rename",  id |-> i1,        title |-> new,  key |-> k2],
    [op |-> "rename",  id |-> Malformed, title |-> new,  key |-> k3],
    [op |-> "archive", id |-> i1,        title |-> Null, key |-> k3],
    [op |-> "reopen",  id |-> i1,        title |-> Null, key |-> k2] }

Interchangeable == Permutations(Requests)
=============================================================================
