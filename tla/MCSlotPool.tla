----------------------------- MODULE MCSlotPool -----------------------------
(* Instances of SlotPool for TLC.                                          *)
EXTENDS SlotPool, TLC

Symmetry == Permutations(Clients) \cup Permutations(Calls)

=============================================================================
