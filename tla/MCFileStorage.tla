--------------------------- MODULE MCFileStorage ---------------------------
(***************************************************************************)
(* FileStorage for TLC: three goroutines that add and get two values of    *)
(* different lengths under one key.                                        *)
(***************************************************************************)
EXTENDS FileStorage, TLC

CONSTANTS c1, c2, c3, long, short

MCClient == {c1, c2, c3}
MCValue == {long, short}
MCLength == (long :> 2) @@ (short :> 1)

Symmetry == Permutations(MCClient)

=============================================================================
