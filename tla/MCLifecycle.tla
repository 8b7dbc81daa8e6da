---------------------------- MODULE MCLifecycle -----------------------------
(* Instances of Lifecycle for TLC.                                         *)
EXTENDS Lifecycle, TLC

Symmetry ==
  Permutations(Adapters) \cup Permutations(Handles) \cup Permutations(Objects)
    \cup Permutations(Instances) \cup Permutations(Data)

=============================================================================
