----------------------------- MODULE MCOverlay -----------------------------
(***************************************************************************)
(* Overlay for TLC: a directory that holds a directory of one of a file    *)
(* and of a mounted tree of a file, and beside it nothing, a file, or a    *)
(* directory of a file.                                                    *)
(***************************************************************************)
EXTENDS Overlay

CONSTANTS x, y

MCMount == <<"a", "b">>
MCPaths == {<<>>, <<"a">>, <<"b">>, <<"a", "a">>, <<"a", "b">>, <<"b", "a">>,
            <<"a", "a", "a">>, <<"a", "b", "a">>, <<"a", "b", "b">>}

Tree == (MCMount :> "dir") @@ (<<"a", "b", "a">> :> x)
Bare == (<<>> :> "dir") @@ (<<"a">> :> "dir") @@ (MCMount :> "dir")
            @@ (<<"a", "a">> :> "dir") @@ (<<"a", "a", "a">> :> x)

MCLowers ==
    {(<<>> :> lowest) @@ (MCMount :> Tree) :
        lowest \in {Bare, (<<"b">> :> x) @@ Bare, (<<"b">> :> "dir") @@ (<<"b", "a">> :> x) @@ Bare}}
=============================================================================
