----------------------------- MODULE MCEviction -----------------------------
(***************************************************************************)
(* Eviction for TLC.                                                       *)
(***************************************************************************)
EXTENDS Eviction, TLC

CONSTANTS p, q, o, whole, part, f, g, s, t, d

\* A record of a tree t that holds a file f and a tree s, which holds f too,
\* and a record of s; a scratch directory d.
MCNestedRoots == (whole :> {t}) @@ (part :> {s})
MCNestedEntries == (t :> {f, s}) @@ (s :> {f}) @@ (f :> {})
MCNestedSize == (f :> 2) @@ [b \in {s, t, d} |-> 1]

\* A record of one file, another of the same and one more.
MCFileRoots == (whole :> {f, g}) @@ (part :> {f})
MCFileEntries == [b \in {f, g} |-> {}]
MCFileSize == (f :> 1) @@ (g :> 2)

MCCost == (whole :> 2) @@ (part :> 9)

Alike == Permutations({p, q})
=============================================================================
