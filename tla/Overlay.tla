------------------------------ MODULE Overlay ------------------------------
(***************************************************************************)
(* layers.rs: a sandbox of a directory that nothing changes is an overlay, *)
(* the directory its lower layer, what is written its upper one, and a     *)
(* tree mounted in the directory is an overlay of its own, nested on its   *)
(* mount point.  Programs see what the kernel merges, mounted anew for     *)
(* each, and write as it does; GCSL reads and writes the layers from       *)
(* outside, between programs.  A path is found by walking the layers.      *)
(*                                                                         *)
(* Both layers of an overlay name what they hold by its path in the        *)
(* sandbox, the layers' own directory at the path the overlay is on.  What *)
(* is in a layer is a directory, a file's contents, or, in an upper one,   *)
(* an opaque directory or a whiteout.  No link is followed: a symbolic     *)
(* link is a file here, and a hermetic step's user database no layer.      *)
(***************************************************************************)
EXTENDS Naturals, Sequences, SequencesExt, TLC

CONSTANTS
    Paths,      \* paths in the sandbox, as sequences of names; <<>> its root
    Contents,   \* of files
    Mount,      \* where a tree is mounted in the directory
    Lowers      \* what the directory and the tree may be, by their overlays

VARIABLES
    lower,      \* Overlay, Nested: what each overlay is of
    upper,      \*   and what was written in it
    told        \* the last write, and what came of it

vars == <<lower, upper, told>>

Parent(p) == Front(p)
Under(p, q) == IsPrefix(p, q)
Nowhere == [p \in {} |-> "dir"]

Has(layer, p) == p \in DOMAIN layer
Whiteout(layer, p) == Has(layer, p) /\ layer[p] = "whiteout"
Opaque(layer, p) == Has(layer, p) /\ layer[p] = "opaque"
IsDir(layer, p) == Has(layer, p) /\ layer[p] \in {"dir", "opaque"}
Subtree(layer, p) == [q \in {r \in DOMAIN layer : Under(p, r)} |-> layer[q]]

\* Overlays by where they are: the sandbox's, and the one nested in it.
Roots == {<<>>, Mount}
Empty(root) == root :> "dir"

Init ==
    /\ lower \in Lowers
    /\ upper = [root \in Roots |-> Empty(root)]
    /\ told = <<>>

-----------------------------------------------------------------------------
(* GCSL's view. *)

\* nested_of: the overlay a path is in.
OverlayOf(p) == IF Under(Mount, p) THEN Mount ELSE <<>>

\* merge_into: the tree of `up` over `down` from `p` down, the overlay
\* nested at `mounts` merged on its mount point.
RECURSIVE MergeInto(_, _, _, _)
MergeInto(up, down, p, mounts) ==
    LET below == IF Opaque(up, p) THEN Nowhere ELSE down
        shown(q) ==
            IF q \in mounts THEN MergeInto(upper[q], lower[q], q, {})
            ELSE IF Whiteout(up, q) THEN Nowhere
            ELSE IF IsDir(up, q) THEN MergeInto(up, IF IsDir(below, q) THEN below ELSE Nowhere, q, mounts)
            ELSE IF Has(up, q) THEN q :> up[q]
            ELSE IF IsDir(below, q) THEN MergeInto(below, Nowhere, q, mounts)
            ELSE q :> below[q]
        names == {q \in DOMAIN up \cup DOMAIN below : q # <<>> /\ Parent(q) = p}
    IN FoldSet(LAMBDA q, all : shown(q) @@ all, p :> "dir", names)

\* Layers::merged: what is at `p`, and under it, where GCSL is sent.
Between(root, p) == {q \in Paths : Under(q, p) /\ ~Under(q, root)}
Steps(p) == Between(OverlayOf(p), p)

LowerKeptOverOpaque(up, p) == \A q \in Steps(p) \ {p} : Has(up, q) => IsDir(up, q)

LowerKept(up, p) ==
    /\ \A q \in Steps(p) : ~Opaque(up, q)
    /\ \A q \in Steps(p) \ {p} : Has(up, q) => IsDir(up, q)

Resolve(p) ==
    LET root == OverlayOf(p)
        up == upper[root]
        mounts == IF root = Mount THEN {} ELSE {Mount}
        down == IF LowerKept(up, p) /\ Has(lower[root], p) THEN lower[root] ELSE Nowhere
        both == MergeInto(up, IF IsDir(down, p) THEN down ELSE Nowhere, p, mounts)
        holds == \E q \in mounts : Under(p, q)
    IN IF \E q \in Steps(p) : Whiteout(up, q) THEN Nowhere
       ELSE IF holds /\ (IsDir(up, p) \/ (~Has(up, p) /\ IsDir(down, p))) THEN both
       ELSE IF Has(down, p) /\ ~Has(up, p) THEN Subtree(down, p)
       ELSE IF IsDir(up, p) /\ IsDir(down, p)
       THEN IF DOMAIN Subtree(up, p) = {p} THEN Subtree(down, p) ELSE both
       ELSE Subtree(up, p)

ShownDir(p) == p = <<>> \/ IsDir(Resolve(p), p)
Shown(p) == Has(Resolve(p), p)

-----------------------------------------------------------------------------
(* The kernel's view, of a path and of an overlay. *)

\* Whether what the lower layer has at `p` is shown but for the upper layer's
\* own entry there.
LowerShows(p) ==
    LET root == OverlayOf(p) IN
    /\ Has(lower[root], p)
    /\ \A q \in Steps(p) \ {p} : Has(upper[root], q) => upper[root][q] = "dir"

\* A directory both layers have, and what is lower below it shown.
MergedDir(p) ==
    /\ LowerShows(p)
    /\ IsDir(lower[OverlayOf(p)], p)
    /\ Has(upper[OverlayOf(p)], p) => upper[OverlayOf(p)][p] = "dir"

Plain(e) == IF e = "opaque" THEN "dir" ELSE e

Seen(p) ==
    LET up == upper[OverlayOf(p)] IN
    IF Has(up, p) THEN ~Whiteout(up, p)
    ELSE LowerShows(p)

SeenAs(p) ==
    LET root == OverlayOf(p) IN
    IF Has(upper[root], p) THEN Plain(upper[root][p]) ELSE lower[root][p]

View == [p \in {q \in Paths : Seen(q)} |-> SeenAs(p)]

SeenDir(p) == Seen(p) /\ SeenAs(p) = "dir"

\* A directory is copied up with those it is in.
CopiedUp(root, up, p) ==
    [q \in DOMAIN up \cup (Between(root, p) \ {p}) |-> IF q \in DOMAIN up THEN up[q] ELSE "dir"]

Put(p, e) == upper' = [upper EXCEPT ![OverlayOf(p)] = (p :> e) @@ CopiedUp(OverlayOf(p), @, p)]

\* A directory made where the lower layer may have one hides it.
Made(p) == IF MergedDir(Parent(p)) THEN "opaque" ELSE "dir"

\* What an upper layer is without `p`: a whiteout is left if the lower has it.
Dropped(up, p) ==
    (IF LowerShows(p) THEN p :> "whiteout" ELSE Nowhere)
        @@ [q \in {r \in DOMAIN up : ~Under(p, r)} |-> up[q]]

Places == Paths \ Roots

Write(p, c) ==
    /\ p \in Places /\ SeenDir(Parent(p)) /\ ~SeenDir(p)
    /\ Put(p, c)
    /\ told' = <<p, c>>
    /\ UNCHANGED lower

MakeDir(p) ==
    /\ p \in Places /\ SeenDir(Parent(p)) /\ ~Seen(p)
    /\ Put(p, Made(p))
    /\ told' = <<p, "dir">>
    /\ UNCHANGED lower

Unlink(p) ==
    /\ p \in Places /\ Seen(p)
    /\ \A q \in Paths \ {<<>>} : Parent(q) = p => ~Seen(q)
    /\ LET root == OverlayOf(p) IN
       upper' = [upper EXCEPT ![root] = Dropped(CopiedUp(root, @, p), p)]
    /\ told' = <<p, "gone">>
    /\ UNCHANGED lower

\* A file, or a directory the lower layer has nothing of, is moved in its
\* overlay; any other the kernel refuses to, and a program copies.
Move(p, to) ==
    /\ {p, to} \subseteq Places /\ OverlayOf(p) = OverlayOf(to) /\ ~Under(p, to)
    /\ Seen(p) /\ ~MergedDir(p)
    /\ SeenDir(Parent(to)) /\ ~Seen(to)
    /\ LET root == OverlayOf(p)
           up == CopiedUp(root, CopiedUp(root, upper[root], p), to)
           full == IF Has(up, p) THEN up ELSE (p :> SeenAs(p)) @@ up
           at(q) == to \o SubSeq(q, Len(p) + 1, Len(q))
           moved == {q \in DOMAIN full : Under(p, q)}
           over == [q \in {at(r) : r \in moved} |->
                      IF q = to THEN IF SeenAs(p) = "dir" /\ MergedDir(Parent(to)) THEN "opaque" ELSE full[p]
                      ELSE full[p \o SubSeq(q, Len(to) + 1, Len(q))]]
       IN /\ \A q \in moved : at(q) \in Paths
          /\ upper' = [upper EXCEPT ![root] = over @@ Dropped(up, p)]
    /\ told' = <<p, "gone", to>>
    /\ UNCHANGED lower

-----------------------------------------------------------------------------
(* GCSL's writes: where write_target sends it, on the host.  It writes no   *)
(* file where it is shown a directory, and makes none where it is shown     *)
(* anything.                                                                *)

\* In the sandbox's own upper layer, or the nested overlay's.
WriteRootOuter(p) == <<>>

WriteRoot(p) == OverlayOf(p)

\* Its directory is made if the sandbox shows one.
WriteTarget(p) ==
    LET root == WriteRoot(p) IN
    IF ~IsDir(upper[root], Parent(p)) /\ ShownDir(Parent(p))
    THEN CopiedUp(root, upper[root], p)
    ELSE upper[root]

Written(p, e) ==
    /\ p \in Places /\ ShownDir(Parent(p))
    /\ LET root == WriteRoot(p)
           up == WriteTarget(p)
       IN /\ IsDir(up, Parent(p))
          /\ IF Whiteout(up, p)
             THEN upper' = [upper EXCEPT ![root] = up] /\ told' = <<p, "refused">>
             ELSE upper' = [upper EXCEPT ![root] = (p :> e) @@ up] /\ told' = <<p, e>>
    /\ UNCHANGED lower

WriteFile(p, c) == ~IsDir(Resolve(p), p) /\ Written(p, c)
WriteDir(p) == ~Shown(p) /\ Written(p, "dir")

Program == \E p \in Paths :
    \/ \E c \in Contents : Write(p, c)
    \/ \E q \in Paths : Move(p, q)
    \/ MakeDir(p) \/ Unlink(p)

GCSL == \E p \in Paths : (\E c \in Contents : WriteFile(p, c)) \/ WriteDir(p)

Next == Program \/ GCSL

Spec == Init /\ [][Next]_vars
-----------------------------------------------------------------------------
\* Wherever GCSL is sent for a path of a sandbox, it finds there, and under
\* it, what a program would (layers.rs, Layers::resolve).
ReadsAgree ==
    \A p \in Paths \ {<<>>} :
        LET found == Resolve(p) IN
        [q \in DOMAIN found |-> Plain(found[q])] = Subtree(View, p)

\* The layers, a program's writes and GCSL's, are as a copy of the directory
\* would be.
First == [p \in DOMAIN lower[<<>>] \cup DOMAIN lower[Mount] |-> lower[OverlayOf(p)][p]]

Copy == INSTANCE SandboxPromise WITH first <- First, tree <- View

AsACopy == Copy!Spec
=============================================================================
