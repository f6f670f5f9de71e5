--------------------------- MODULE MCPullThrough ---------------------------
(***************************************************************************)
(* PullThrough for TLC: two requests that may race in each of two caches,  *)
(* over a source whose document comes and goes.                            *)
(***************************************************************************)
EXTENDS PullThrough

CONSTANTS c1, c2, deb

MCClient == {c1, c2}
MCContent == {Absent, deb}
MCTTL == <<2, 1>>
MCStaleness == <<7, 3, 0>>

=============================================================================
