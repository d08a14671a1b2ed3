------------------------------ MODULE MCRemote ------------------------------
(***************************************************************************)
(* Remote for TLC: a build of two steps, and another, on a machine of its  *)
(* own, of a step with the receipt of one of them.                         *)
(***************************************************************************)
EXTENDS Remote, TLC

CONSTANTS b1, b2, s, t, u, k, l, o, q, c, d

MCBuildOf == (s :> b1) @@ (t :> b1) @@ (u :> b2)
MCStoreOf == (b1 :> 1) @@ (b2 :> 2)
MCKeyOf == (s :> k) @@ (t :> l) @@ (u :> k)
MCGives == (k :> {o}) @@ (l :> {q})
MCNames == (o :> {c, d}) @@ (q :> {c})

\* Two builds of a step each that share a store.
MCBeside == (s :> b1) @@ (t :> b2)
MCOneStore == [b \in {b1, b2} |-> 1]
MCBothKeys == (s :> k) @@ (t :> l)
=============================================================================
