-------------------------- MODULE MCProposalCeremony --------------------------
(***************************************************************************)
(* Two requests of any kind: two decisions of one proposal, a request and  *)
(* its retry, a key used twice, decisions of a proposal and its amendment. *)
(***************************************************************************)
EXTENDS ProposalCeremony, Folds, Functions, TLC

Symmetry == Permutations(Commitments) \cup Permutations(Proposals)
              \cup Permutations(Turns) \cup Permutations(Requests)
              \cup Permutations(Keys)

(* Three changes of records: one is made, and amended or let go, and       *)
(* another is made.                                                        *)
FewChanges == FoldFunction(+, 0, [i \in Ids |-> row[i].version]) <= 3

(* Proposals of different turns are open side by side, or requests carry   *)
(* different keys: both at once show nothing new, since no verb reads the  *)
(* turn of a proposal and the key of a request together.                   *)
OneTurnOrOneKey ==
  \/ \A p, q \in Proposals :
       Null \in {proposal[p].turn, proposal[q].turn} \/ proposal[p].turn = proposal[q].turn
  \/ \A r, q \in Requests :
       Null \in {asks[r].key, asks[q].key} \/ asks[r].key = asks[q].key
=============================================================================
