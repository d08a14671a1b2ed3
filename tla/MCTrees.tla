------------------------------- MODULE MCTrees -------------------------------
(***************************************************************************)
(* Trees for TLC: a large tree of two files of one content and one of      *)
(* another, and a small one.  One step composes, the other only makes what *)
(* the first may come upon.                                                *)
(***************************************************************************)
EXTENDS Trees, TLC

CONSTANTS p, q, s, t, x, y, large, small

MCFiles == (large :> <<x, x, y>>) @@ (small :> <<x>>)
MCPlaced == (s :> 3) @@ (t :> 0)

Alike == Permutations({p, q})
=============================================================================
