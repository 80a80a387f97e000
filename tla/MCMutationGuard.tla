--------------------------- MODULE MCMutationGuard ---------------------------
(* Instance of MutationGuard for TLC.  Calls and users are interchangeable. *)
EXTENDS MutationGuard, TLC

Symmetry == Permutations(Call) \cup Permutations(User)
=============================================================================
