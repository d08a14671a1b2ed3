------------------------------ MODULE MCEngine ------------------------------
(***************************************************************************)
(* Engine for TLC.                                                         *)
(***************************************************************************)
EXTENDS Engine, TLC

CONSTANTS o, p, q, s, t, u, d, e, f, g, k, l, m

\* Two targets that each begin a call and then may need the other's, and one
\* whose value has a hole.  Two steps have one name, one of which is given what
\* a third gives; the bodies of two share a call.
MCCode ==
    (o :> <<Call({u})>>)
    @@ (p :> <<Begin(m), Call({s}), Stop({s}), Begin(l), Call({s, t, u}), Stop({d, t}),
               Finish(l), Finish(m)>>)
    @@ (q :> <<Begin(l), Call({u, t}), Stop({d, t}), Begin(m),
               Call({d, s, t, u}), Stop({s}), Finish(m), Finish(l)>>)
    @@ (s :> <<Begin(k), Stop({e}), Finish(k)>>)
    @@ (t :> <<Stop({f})>>)
    @@ (u :> <<Begin(k), Stop({g}), Finish(k)>>)
MCHoles == (o :> {u}) @@ (p :> {}) @@ (q :> {t})
MCData == [n \in {s, t, u, d, e, f, g} |-> IF n = t THEN {u} ELSE {}]
MCOf == (d :> None) @@ (e :> s) @@ (f :> t) @@ (g :> u)
MCName == (s :> 1) @@ (t :> 1) @@ (u :> 2)
MCRetries == (s :> 1) @@ (t :> 0) @@ (u :> 0)

\* Two targets that share the call m, which stops for a step's result.
MCStaticCode ==
    [r \in {p, q} |-> <<Begin(m), Call({s}), Stop({s}), Finish(m)>>] @@ (s :> <<Stop({e})>>)
MCStaticHoles == [r \in {p, q} |-> {}]
MCStaticData == [n \in {s, e} |-> {}]
MCStaticOf == [n \in {e} |-> s]
MCStaticName == [n \in {s} |-> n]
MCStaticRetries == [n \in {s} |-> 0]

\* Two steps that each begin a call and then need the other's.
MCStepsCode ==
    (o :> <<Call({s, u})>>)
    @@ (s :> <<Begin(k), Stop({e}), Begin(l), Finish(l), Finish(k)>>)
    @@ (u :> <<Begin(l), Stop({g}), Begin(k), Finish(k), Finish(l)>>)
MCStepsHoles == (o :> {s, u})
MCStepsData == [n \in {s, u, e, g} |-> {}]
MCStepsOf == (e :> s) @@ (g :> u)
MCStepsName == [n \in {s, u} |-> n]
MCStepsRetries == [n \in {s, u} |-> 0]
=============================================================================
