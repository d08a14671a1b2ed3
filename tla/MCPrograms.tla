----------------------------- MODULE MCPrograms -----------------------------
(***************************************************************************)
(* Programs for TLC.                                                       *)
(***************************************************************************)
EXTENDS Programs, SequencesExt, TLC

CONSTANTS a, b, one, other, unpack, secret, context, input, dir

Odd == 2

\* How many inputs a world has, wherever they came from.
Given(w) == Cardinality(w.staged) + FoldLeft(LAMBDA n, m : n + Cardinality(m.kept), 0, w.made)

\* One writes its own directory by all that is read-only, and over the other
\* what no tree keeps; the other writes /tmp, and fails where both are written.
MCLeaves(p, w) ==
    IF p = one
    THEN [own |-> IF w.tmp = 1 THEN Odd ELSE (Given(w) + Len(w.made)) % 2, tmp |-> w.tmp, out |-> (w.tmp + 1) % 2, ok |-> TRUE]
    ELSE [own |-> w.own, tmp |-> 1, out |-> w.own % 2, ok |-> w.own # 1 \/ w.tmp # 1]

\* An unpacking replaces what the own directory holds.
MCWrites(e, w) == [own |-> 0, tmp |-> w.tmp]

\* A step given nothing, in each kind of build; given an input; and given a
\* secret.  A context gives a file, or a secret.
Begun(mode, given, hidden) == [mode |-> mode, place |-> dir, given |-> given, secret |-> hidden]
MCStarts ==
    {Begun(mode, {}, FALSE) : mode \in {"store", "rerun", "compare"}}
        \cup {Begun("store", {input}, FALSE), Begun("store", {}, TRUE)}
MCGives == {[files |-> {input}, secret |-> FALSE], [files |-> {}, secret |-> TRUE]}

MCTrees == 0..Odd
MCResults == 0..1

Alike == Permutations({a, b})
=============================================================================
