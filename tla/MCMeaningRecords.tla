-------------------------- MODULE MCMeaningRecords --------------------------
(***************************************************************************)
(* Small tables.  Identities of a family are interchangeable, and no verb  *)
(* reads another family's table, so that a behaviour which uses claims     *)
(* beside the other two families shows nothing that the two halves of it   *)
(* do not: it is not explored.                                             *)
(***************************************************************************)
EXTENDS MeaningRecords, TLC

Symmetry == Permutations(Claims) \cup Permutations(Commitments)
              \cup Permutations(OpenLoops) \cup Permutations(CommitmentKeys)

Unused(S) == \A i \in S : ~Exists(i)

ClaimsAlone ==
  \/ Unused(Commitments \cup OpenLoops)
  \/ Unused(Claims) /\ now = 0
=============================================================================
