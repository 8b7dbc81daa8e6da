------------------------- MODULE MCPersistentStorage ------------------------
(* Instances of PersistentStorage for TLC.                                 *)
EXTENDS PersistentStorage

Symmetry ==
  Permutations(Clients) \cup Permutations(Calls) \cup Permutations(Threads)

AllOrNothing == {Kinds, {}}
AllSet       == {Kinds}

=============================================================================
