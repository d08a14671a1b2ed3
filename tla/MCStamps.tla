------------------------------ MODULE MCStamps ------------------------------
(***************************************************************************)
(* Stamps for TLC: two builds, a file and a place to move it to, two       *)
(* contents, and nodes few enough to be used again.                        *)
(***************************************************************************)
EXTENDS Stamps, TLC

CONSTANTS b, c, f, g, x, y, m, n, o

Alike == Permutations({b, c}) \cup Permutations({x, y}) \cup Permutations({m, n, o})
=============================================================================
