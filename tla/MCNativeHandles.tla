--------------------------- MODULE MCNativeHandles --------------------------
(* Instances of NativeHandles for TLC.                                     *)
EXTENDS NativeHandles, TLC

Symmetry ==
  Permutations(Objects) \cup Permutations(Handles)
    \cup Permutations(Instances) \cup Permutations(Data)

=============================================================================
