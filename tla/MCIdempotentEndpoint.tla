------------------------ MODULE MCIdempotentEndpoint ------------------------
(* Instances of IdempotentEndpoint for TLC. *)
EXTENDS IdempotentEndpoint, TLC

Interchangeable ==
    Permutations(Callers) \cup Permutations(Keys)
        \cup Permutations(Bodies)
=============================================================================
