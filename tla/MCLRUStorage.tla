---------------------------- MODULE MCLRUStorage ----------------------------
(***************************************************************************)
(* LRUStorage for TLC: two goroutines, which may create the same namespace *)
(* at once, and one more key than the namespace holds.                     *)
(***************************************************************************)
EXTENDS LRUStorage, TLC

CONSTANTS c1, c2, k1, k2, v1, v2, packages

MCClient == {c1, c2}

\* One namespace with more keys than Size.
CrowdedKey == {k1, k2}
CrowdedNsOf == [k \in CrowdedKey |-> packages]

MCValue == {v1, v2}

\* Goroutines, keys of the one namespace and values are interchangeable.
Symmetry ==
    Permutations(MCClient) \cup Permutations(CrowdedKey) \cup Permutations(MCValue)

=============================================================================
