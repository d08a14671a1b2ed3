------------------------------- MODULE MCLock -------------------------------
(***************************************************************************)
(* Lock for TLC: two commands, two libraries, one of which imports the     *)
(* other at its first commit and not at its second.                        *)
(***************************************************************************)
EXTENDS Lock, TLC

CONSTANTS p, q, a, b

MCCommits == 1..2
MCWithin == [l \in Libs |-> {l}]
MCNested == (a :> {a, b}) @@ (b :> {b})
MCImports == (a :> <<{b}, {}>>) @@ (b :> <<{}, {}>>)

Alike == Permutations({p, q})
=============================================================================
