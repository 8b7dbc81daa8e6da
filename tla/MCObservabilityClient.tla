------------------------ MODULE MCObservabilityClient -----------------------
(* Instances of ObservabilityClient for TLC.                               *)
EXTENDS ObservabilityClient, TLC

Symmetry == Permutations(Clients) \cup Permutations(Calls)

(* A client with every callback, and one with none of those called here.   *)
AllOrNothing == {Kinds, {}}

=============================================================================
