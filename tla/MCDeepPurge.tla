----------------------------- MODULE MCDeepPurge ------------------------------
(***************************************************************************)
(* Two threads, so that one can refer to the other.                        *)
(***************************************************************************)
EXTENDS DeepPurge, TLC

Symmetry == Permutations(Threads)
=============================================================================
