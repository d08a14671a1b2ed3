------------------------------ MODULE MCStore ------------------------------
(* A store of a tree of one file, or of one tree that holds another.  The    *)
(* processes are alike, which liveness may not assume.                       *)
EXTENDS Store, TLC

CONSTANTS f, inner, outer

MCEntriesOne == inner :> {f}

MCEntriesTwo == (inner :> {}) @@ (outer :> {inner})

Alike == Permutations(Proc)
=============================================================================
