-------------------------------- MODULE Lock --------------------------------
(***************************************************************************)
(* pekit.lock, the libraries it pins, and where they are exported          *)
(* (lock.rs; cli.rs, load_for): several commands in one workspace, each    *)
(* `pekit lock`, with --update or not, or a build, strict or not, which    *)
(* puts back what is missing, loads the libraries the workspace imports,   *)
(* and if it is strict checks them.  All are of one repository, cloned in  *)
(* the cache directory.  Any command may fail or be killed at any step,    *)
(* and someone edits, removes and pulls as they go.                        *)
(*                                                                         *)
(* A library's part of the directory is the commit it is of, Half if some  *)
(* of it was removed, Edited, or None.  A library's directory holds those  *)
(* of the libraries whose paths are within its own.                        *)
(***************************************************************************)
EXTENDS Naturals

CONSTANTS
    Commands,   \* processes
    Kinds,      \* what they do: among "lock", "update", "build", "strict"
    Libs,
    Within,     \* each library and those within it
    Imports,    \* what a library imports, by commit
    Commits,    \* bound: 1 to the repository's last
    MaxChanges, \* bound: what others do
    MaxCommands, \* bound: commands begun
    Half, Edited, None

Parts == Commits \cup {Half, Edited, None}
Trees == UNION {[Within[l] -> Parts] : l \in Libs}
Pins == [commit : Commits, tree : Trees]
Wanted == [commit : Commits \cup {0}, tree : Trees \cup {None}]
Locks == [Libs -> Pins \cup {None}]
Unpinned == [l \in Libs |-> None]

Places == {"next", "cached", "cloning", "fetching", "archiving", "removing",
           "renaming", "pinning", "checking"}
Runs == [kind : Kinds, at : Places, lock : Locks \cup {None},
         lib : Libs \cup {None}, pin : Wanted \cup {None},
         todo : SUBSET Libs, seen : SUBSET Libs, pins : Locks,
         differ : SUBSET Libs, loaded : [Libs -> Trees \cup {None}]]

ASSUME ConstantsApart ==
    /\ 1 \in Commits /\ Commits \subseteq Nat \ {0}
    /\ Within \in [Libs -> SUBSET Libs] /\ \A l \in Libs : l \in Within[l]
    /\ Imports \in [Libs -> [Commits -> SUBSET Libs]]
    /\ {Half, Edited, None} \cap Commits = {} /\ None \notin {Half, Edited}
    /\ None \notin Libs \cup Trees \cup Wanted \cup Locks \cup Runs

VARIABLES
    lock,       \* pekit.lock, or None
    imports,    \* what the workspace's own files import
    disk,       \* .gcsl/libraries: each library's part
    tip,        \* the repository's newest commit
    repo,       \* the clone's, or None
    run,        \* what each command is at
    calm,       \* commands since whose begin nobody else changed the workspace
    changes,    \* made by others
    begun       \* commands

workspace == <<lock, imports, disk>>
bounds == <<changes, begun>>
vars == <<workspace, tip, repo, run, calm, bounds>>

Committed(l, c) == [n \in Within[l] |-> c]
Tree(l) == [n \in Within[l] |-> disk[n]]
Exists(l) == \E n \in Within[l] : disk[n] # None
ImportsIn(l, part) == IF part \in Commits THEN Imports[l][part] ELSE {}

Pinned(locked) == IF locked = None THEN {} ELSE {l \in Libs : locked[l] # None}

\* What imports from roots on reach.
Reached(roots, next) ==
    LET closed == {T \in SUBSET Libs : roots \subseteq T /\ \A l \in T : next[l] \subseteq T}
    IN {l \in Libs : \A T \in closed : l \in T}

LockedAt(roots, c) ==
    [l \in Libs |-> IF l \in Reached(roots, [n \in Libs |-> Imports[n][c]])
                    THEN [commit |-> c, tree |-> Committed(l, c)] ELSE None]

Init ==
    /\ lock = None
    /\ imports \in SUBSET Libs
    /\ disk = [l \in Libs |-> None]
    /\ tip = 1
    /\ repo = None
    /\ run = [p \in Commands |-> None]
    /\ calm = {}
    /\ changes = 0
    /\ begun = 0

-----------------------------------------------------------------------------
(* What others do. *)

Changed ==
    /\ changes < MaxChanges
    /\ changes' = changes + 1
    /\ UNCHANGED begun
    /\ calm' = {}

Push ==
    /\ tip + 1 \in Commits
    /\ tip' = tip + 1
    /\ UNCHANGED <<workspace, repo, run, calm, bounds>>

EditImports(S) ==
    /\ imports' = S
    /\ UNCHANGED <<lock, disk, tip, repo, run>>
    /\ Changed

EditLibrary(l) ==
    /\ disk[l] # None
    /\ disk' = [disk EXCEPT ![l] = Edited]
    /\ UNCHANGED <<lock, imports, tip, repo, run>>
    /\ Changed

Clean ==
    /\ disk' = [l \in Libs |-> None]
    /\ UNCHANGED <<lock, imports, tip, repo, run>>
    /\ Changed

\* A lock someone else wrote, of what the workspace imports.
Pull ==
    /\ lock' = LockedAt(imports, tip)
    /\ UNCHANGED <<imports, disk, tip, repo, run>>
    /\ Changed

-----------------------------------------------------------------------------
(* Steps of a command. *)

At(p, at) == run[p] # None /\ run[p].at = at
Goes(p, at) == run' = [run EXCEPT ![p].at = at]
\* On to the next library.
Cleared(r) == [r EXCEPT !.at = "next", !.lib = None, !.pin = None]
Locking(p) == run[p].kind \in {"lock", "update"}
Done(p) == run' = [run EXCEPT ![p] = None] /\ calm' = calm \ {p}
Alters(p) == calm' = calm \cap {p}

\* An error, or a kill: what was done is left as it is.
Fail(p) ==
    /\ run[p] # None
    /\ Done(p)
    /\ UNCHANGED <<workspace, tip, repo, bounds>>

\* lock and restore read the lock first.
Begin(p, kind) ==
    /\ begun < MaxCommands
    /\ begun' = begun + 1
    /\ run[p] = None
    /\ run' = [run EXCEPT ![p] =
                 [kind |-> kind, at |-> "next", lock |-> lock, lib |-> None, pin |-> None,
                  todo |-> IF kind \in {"lock", "update"} THEN imports ELSE Pinned(lock),
                  seen |-> {}, pins |-> Unpinned, differ |-> {}, loaded |-> Unpinned]]
    /\ calm' = calm \cup {p}
    /\ UNCHANGED <<workspace, tip, repo, changes>>

\* The library l is to be exported, at its pin's commit, or at what its
\* source's revision will be found to be.
Exports(p, l, pin) ==
    run' = [run EXCEPT ![p].at = "cached", ![p].lib = l, ![p].pin = pin,
                       ![p].todo = @ \ {l}, ![p].seen = @ \cup {l}]

LockNext(p, l) ==
    /\ At(p, "next") /\ Locking(p)
    /\ l \in run[p].todo
    /\ Exports(p, l, IF l \in Pinned(run[p].lock) /\ run[p].kind = "lock"
                     THEN run[p].lock[l] ELSE [commit |-> 0, tree |-> None])
    /\ UNCHANGED <<workspace, tip, repo, calm, bounds>>

\* restore: of the pins in order, those that are not there are exported.
RestoreNext(p, l) ==
    /\ At(p, "next") /\ ~Locking(p)
    /\ l \in run[p].todo
    /\ \A n \in run[p].todo \ {l} : l \notin Within[n]
    /\ LET pin == run[p].lock[l] IN
       IF ~Exists(l) THEN Exports(p, l, pin)
       ELSE run' = [run EXCEPT ![p].todo = @ \ {l},
                               ![p].differ = IF Tree(l) = pin.tree THEN @ ELSE @ \cup {l}]
    /\ UNCHANGED <<workspace, tip, repo, calm, bounds>>
-----------------------------------------------------------------------------
(* export, and the clone. *)

\* cached, of a clone that is there; export fetches if it lacks the commit,
\* and a commit to be found is fetched for whatever it has.
Cached(p) ==
    /\ At(p, "cached")
    /\ LET c == run[p].pin.commit IN
       Goes(p, IF repo = None THEN "cloning" ELSE IF c = 0 \/ c > repo THEN "fetching" ELSE "archiving")
    /\ UNCHANGED <<workspace, tip, repo, calm, bounds>>

\* git clone, at once; it fails if another made the clone meanwhile, which is
\* then removed.
Clone(p) ==
    /\ At(p, "cloning")
    /\ IF repo = None
       THEN repo' = tip /\ Goes(p, "cached") /\ UNCHANGED calm
       ELSE repo' = None /\ Done(p)
    /\ UNCHANGED <<workspace, tip, bounds>>

Fetch(p) ==
    /\ At(p, "fetching") /\ repo # None
    /\ repo' = tip
    /\ run' = IF run[p].pin.commit = 0
              THEN [run EXCEPT ![p].at = "cached", ![p].pin.commit = tip]
              ELSE [run EXCEPT ![p].at = "archiving"]
    /\ UNCHANGED <<workspace, tip, calm, bounds>>

\* git archive into a directory beside the library's.
Archive(p) ==
    /\ At(p, "archiving")
    /\ repo # None /\ run[p].pin.commit <= repo
    /\ Goes(p, IF Exists(run[p].lib) THEN "removing" ELSE "renaming")
    /\ UNCHANGED <<workspace, tip, repo, calm, bounds>>

\* remove_tree, to where it may be killed and to its end.
Removed(l) ==
    \E left \in {Half, None} :
        disk' = [n \in Libs |-> IF n \in Within[l] /\ disk[n] # None THEN left ELSE disk[n]]

Remove(p) ==
    /\ At(p, "removing")
    /\ Removed(run[p].lib)
    /\ IF \E n \in Within[run[p].lib] : disk'[n] # None THEN UNCHANGED run ELSE Goes(p, "renaming")
    /\ Alters(p)
    /\ UNCHANGED <<lock, imports, tip, repo, bounds>>

\* The export in place, which fails if something is there.
Rename(p) ==
    /\ At(p, "renaming")
    /\ ~Exists(run[p].lib)
    /\ disk' = [n \in Libs |-> IF n \in Within[run[p].lib] THEN run[p].pin.commit ELSE disk[n]]
    /\ run' = IF Locking(p) THEN [run EXCEPT ![p].at = "pinning"] ELSE [run EXCEPT ![p] = Cleared(@)]
    /\ Alters(p)
    /\ UNCHANGED <<lock, imports, tip, repo, bounds>>
-----------------------------------------------------------------------------
(* What lock writes. *)

\* A library pinned, anew with the digest of what is there; then what it
\* imports, of what is there.
Pin(p) ==
    /\ At(p, "pinning")
    /\ LET l == run[p].lib
           pin == IF run[p].pin.tree = None THEN [run[p].pin EXCEPT !.tree = Tree(l)] ELSE run[p].pin
       IN run' = [run EXCEPT ![p] = [Cleared(run[p]) EXCEPT !.pins[l] = pin,
                     !.todo = (run[p].todo \cup ImportsIn(l, disk[l])) \ run[p].seen]]
    /\ UNCHANGED <<workspace, tip, repo, calm, bounds>>

Stale(p) == {l \in Pinned(run[p].lock) \ run[p].seen : Exists(l)}

\* What is pinned and no longer imported is removed.
Drop(p, l) ==
    /\ At(p, "next") /\ Locking(p) /\ run[p].todo = {}
    /\ l \in Stale(p)
    /\ Removed(l)
    /\ Alters(p)
    /\ UNCHANGED <<lock, imports, tip, repo, run, bounds>>

\* What was pinned stays so, though nothing imports it.
WriteOver(p) ==
    /\ At(p, "next") /\ Locking(p) /\ run[p].todo = {} /\ Stale(p) = {}
    /\ lock' = [l \in Libs |-> IF run[p].pins[l] = None /\ l \in Pinned(run[p].lock)
                               THEN run[p].lock[l] ELSE run[p].pins[l]]
    /\ run' = [run EXCEPT ![p] = None]
    /\ calm' = {}
    /\ UNCHANGED <<imports, disk, tip, repo, bounds>>

Write(p) ==
    /\ At(p, "next") /\ Locking(p) /\ run[p].todo = {} /\ Stale(p) = {}
    /\ lock' = run[p].pins
    /\ run' = [run EXCEPT ![p] = None]
    /\ calm' = {}
    /\ UNCHANGED <<imports, disk, tip, repo, bounds>>
-----------------------------------------------------------------------------
(* A build that has put back what was missing. *)

\* load: every library reached must be there.
Load(p) ==
    /\ At(p, "next") /\ ~Locking(p) /\ run[p].todo = {}
    /\ LET reached == Reached(imports, [l \in Libs |-> ImportsIn(l, disk[l])]) IN
       /\ \A l \in reached : disk[l] # None
       /\ run' = [run EXCEPT ![p].at = "checking",
                             ![p].loaded = [l \in Libs |-> IF l \in reached THEN Tree(l) ELSE None]]
    /\ UNCHANGED <<workspace, tip, repo, calm, bounds>>

Loaded(p) == {l \in Libs : run[p].loaded[l] # None}

PassesDiffering(p) == Loaded(p) \subseteq Pinned(lock)

\* check_strict, with the lock read again.
Passes(p) == run[p].differ = {} /\ Loaded(p) \subseteq Pinned(lock)

Check(p) ==
    /\ At(p, "checking")
    /\ run[p].kind = "strict" => Passes(p)
    /\ Done(p)
    /\ UNCHANGED <<workspace, tip, repo, bounds>>

Someone ==
    \/ Push \/ Clean \/ Pull
    \/ \E S \in SUBSET Libs : EditImports(S)
    \/ \E l \in Libs : EditLibrary(l)

Command(p) ==
    \/ \E kind \in Kinds : Begin(p, kind)
    \/ \E l \in Libs : LockNext(p, l) \/ RestoreNext(p, l) \/ Drop(p, l)
    \/ Cached(p) \/ Clone(p) \/ Fetch(p) \/ Archive(p) \/ Remove(p) \/ Rename(p)
    \/ Pin(p) \/ Write(p) \/ Load(p) \/ Check(p) \/ Fail(p)

Next == Someone \/ \E p \in Commands : Command(p)

Spec == Init /\ [][Next]_vars
-----------------------------------------------------------------------------
\* The types of the variables.
TypeOK ==
    /\ lock \in Locks \cup {None}
    /\ imports \subseteq Libs
    /\ disk \in [Libs -> Parts]
    /\ tip \in Commits
    /\ repo \in Commits \cup {None}
    /\ run \in [Commands -> Runs \cup {None}]
    /\ calm \subseteq Commands

\* `pekit lock` pins what the workspace's imports reach, and leaves each
\* library it pins as of the commit it is pinned at, whatever was there and
\* whatever was killed before, if nobody else changes the workspace meanwhile
\* (lock.rs, lock).
Followed(pins) ==
    [l \in Libs |-> IF pins[l] = None THEN {} ELSE Imports[l][pins[l].commit]]

LockedAsPinned ==
    [][\A p \in Commands : p \in calm /\ Write(p)
          => /\ Pinned(lock') = Reached(imports, Followed(lock'))
             /\ \A l \in Pinned(lock') : Tree(l) = Committed(l, lock'[l].commit)]_vars

Exactly(p) == \A l \in Loaded(p) : l \in Pinned(lock) /\ run[p].loaded[l] = lock[l].tree

PinsTrue == \A l \in Pinned(lock) : lock[l].tree = Committed(l, lock[l].commit)

\* A strict build's libraries are those the lock pins, as it pins them, if
\* nobody else changes the workspace meanwhile, and the lock's digests are of
\* its commits (lock.rs, restore and check_strict).
StrictIsPinned ==
    [][\A p \in Commands : p \in calm /\ PinsTrue /\ Check(p) /\ run[p].kind = "strict"
          => Exactly(p)]_vars

\* ... which is promised though others do: two builds that begin at once in a
\* new checkout break it.
StrictAlways ==
    [][\A p \in Commands : Check(p) /\ run[p].kind = "strict" => Exactly(p)]_vars
=============================================================================
