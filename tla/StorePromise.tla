---------------------------- MODULE StorePromise ----------------------------
(***************************************************************************)
(* What the content store promises a build that uses it, with nothing said *)
(* of how: a tree a build found or made is there for as long as the build  *)
(* uses it, and one that no build uses may be lost at any time.  It may come *)
(* to be misled, and then to give out what is not there; it is so only until *)
(* a time when no build uses it.                                           *)
(***************************************************************************)
CONSTANTS Proc, Tree

VARIABLES
    whole,      \* the trees whose every content is there
    using,      \* the trees each build uses
    misled      \* whether it may take for there what is not

vars == <<whole, using, misled>>

Init ==
    /\ whole \in SUBSET Tree
    /\ using = [p \in Proc |-> {}]
    /\ misled = FALSE

\* A tree comes to be there.
Gain ==
    /\ whole' \in SUBSET Tree
    /\ whole \subseteq whole'
    /\ UNCHANGED <<using, misled>>

\* A tree that is there is found, or is taken to be.
Use(p, t) ==
    /\ t \in whole \/ misled
    /\ using' = [using EXCEPT ![p] = @ \cup {t}]
    /\ UNCHANGED <<whole, misled>>

\* The build is over.
Release(p) ==
    /\ using' = [using EXCEPT ![p] = {}]
    /\ UNCHANGED <<whole, misled>>

\* Trees are lost, while no build uses any.
Lose ==
    /\ \A p \in Proc : using[p] = {}
    /\ whole' \in SUBSET whole
    /\ UNCHANGED <<using, misled>>

Mislead ==
    /\ misled' = TRUE
    /\ UNCHANGED <<whole, using>>

\* What misled it is forgotten, while no build uses any.
Recover ==
    /\ \A p \in Proc : using[p] = {}
    /\ misled' = FALSE
    /\ UNCHANGED <<whole, using>>

Next ==
    \/ Gain
    \/ Lose
    \/ Mislead
    \/ Recover
    \/ \E p \in Proc : Release(p) \/ \E t \in Tree : Use(p, t)

Spec == Init /\ [][Next]_vars
=============================================================================
