--------------------------- MODULE SandboxPromise ---------------------------
(***************************************************************************)
(* What a sandbox of a directory promises (layers.rs): that it is as a     *)
(* copy of the directory would be, for its programs and for GCSL code, but *)
(* that a tree mounted in it stays where it is, and that GCSL is refused   *)
(* to write where what the directory had was removed.                      *)
(***************************************************************************)
EXTENDS Naturals, Sequences, SequencesExt

CONSTANTS
    Paths,      \* paths in a sandbox, as sequences of names; <<>> its root
    Contents,   \* of files
    Mount       \* where a tree is mounted in the directory

VARIABLES
    first,      \* the directory: what is at each path
    tree,       \* the copy
    told        \* the last write to it, and what came of it

vars == <<first, tree, told>>

Parent(p) == Front(p)
Child(p, q) == q # <<>> /\ Parent(q) = p
Under(p, q) == IsPrefix(p, q)
Without(t, p) == [q \in {r \in DOMAIN t : ~Under(p, r)} |-> t[q]]
DirAt(t, p) == p \in DOMAIN t /\ t[p] = "dir"

\* Where the path `p` is once the path `from` is `to`.
Moved(p, from, to) == to \o SubSeq(p, Len(from) + 1, Len(p))

Init == tree = first /\ told = <<>>

Writes(p, c) ==
    /\ told' = <<p, c>>
    /\ DirAt(tree, Parent(p)) /\ ~DirAt(tree, p)
    /\ tree' = [q \in DOMAIN tree \cup {p} |-> IF q = p THEN c ELSE tree[q]]

Makes(p) ==
    /\ told' = <<p, "dir">>
    /\ DirAt(tree, Parent(p)) /\ p \notin DOMAIN tree
    /\ tree' = [q \in DOMAIN tree \cup {p} |-> IF q = p THEN "dir" ELSE tree[q]]

Removes(p) ==
    /\ told' = <<p, "gone">>
    /\ p \in DOMAIN tree /\ p # Mount
    /\ ~\E q \in DOMAIN tree : Child(p, q)
    /\ tree' = Without(tree, p)

Moves(p, q) ==
    /\ told' = <<p, "gone", q>>
    /\ p \in DOMAIN tree /\ ~Under(p, q) /\ ~Under(p, Mount)
    /\ DirAt(tree, Parent(q)) /\ q \notin DOMAIN tree
    /\ LET of(r) == IF Under(q, r) THEN Moved(r, q, p) ELSE r IN
       tree' = [r \in {path \in Paths : ~Under(p, path) /\ of(path) \in DOMAIN tree} |-> tree[of(r)]]

Refused(p) ==
    /\ told' = <<p, "refused">>
    /\ p \in DOMAIN first /\ p \notin DOMAIN tree
    /\ UNCHANGED tree

Next ==
    /\ UNCHANGED first
    /\ \E p \in Paths \ {<<>>} :
         \/ \E c \in Contents : Writes(p, c)
         \/ \E q \in Paths \ {<<>>} : Moves(p, q)
         \/ Makes(p) \/ Removes(p) \/ Refused(p)

Spec == Init /\ [][Next]_vars
=============================================================================
