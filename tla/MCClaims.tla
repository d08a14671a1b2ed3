------------------------------ MODULE MCClaims ------------------------------
(***************************************************************************)
(* Claims for TLC: a function f that reads the context x, and y only where *)
(* x is 2, and a function g of what f gives, which reads y.  Neither reads *)
(* z.                                                                      *)
(***************************************************************************)
EXTENDS Claims, TLC

CONSTANTS a, b, c, d, e, f, g, x, y, z

Made(i, j, k) == (x :> i) @@ (y :> j) @@ (z :> k)

MCReads ==
    [fn \in {f, g} |-> [ctx \in [{x, y, z} -> 1..2] |->
        IF fn = g THEN {y} ELSE IF ctx[x] = 2 THEN {x, y} ELSE {x}]]

\* Calls of f, a and b one step, c named apart from them, and e from the
\* others and from c apart again; and d, g of what b gives.
MCCalls == [r \in Step |-> IF r = d THEN g ELSE f]
MCGiven == [r \in Step |-> IF r = d THEN b ELSE None]
MCFive == (a :> Made(1, 1, 1)) @@ (b :> Made(1, 1, 2))
          @@ (c :> Made(2, 1, 1)) @@ (d :> Made(1, 1, 1)) @@ (e :> Made(2, 2, 1))
MCMade == [r \in Step |-> MCFive[r]]

\* Other builds make the calls as c is made.
MCElsewhere == {MCFive[c]}
=============================================================================
