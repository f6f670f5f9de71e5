--------------------------- MODULE MCDynamicRepo ---------------------------
(***************************************************************************)
(* DynamicRepo for TLC: two clients whose refreshes overlap, an index that *)
(* ages in two ticks, and a clock and a source that move far enough for a  *)
(* change to be listed, missed and found again.                            *)
(***************************************************************************)
EXTENDS DynamicRepo, TLC

CONSTANTS c1, c2

MCClient == {c1, c2}

\* Clients are interchangeable: sound for the runs without liveness properties.
Symmetry == Permutations(MCClient)

=============================================================================
